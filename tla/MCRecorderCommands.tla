------------------------- MODULE MCRecorderCommands -------------------------
(* A few kinds of traffic for RecorderCommands. *)
EXTENDS RecorderCommands

Chat ==
    [post |-> TRUE, aiWord |-> TRUE, asset |-> FALSE, request |-> "json",
     prompt |-> "short", type |-> "other", reply |-> "text"]

(* A form that is answered without a type, and plain data after it. *)
FormChat == [Chat EXCEPT !.aiWord = FALSE, !.request = "form", !.type = "none", !.reply = "none"]

Save == [Chat EXCEPT !.aiWord = FALSE, !.prompt = "none", !.reply = "none"]

SmallTraffic == {<<Chat, Save, FormChat>>}
=============================================================================
