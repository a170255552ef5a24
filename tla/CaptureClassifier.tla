-------------------------- MODULE CaptureClassifier --------------------------
(***************************************************************************)
(* How a captured exchange is scored, and which of a session is taken for  *)
(* the endpoint of the application (classifier/classifier.py).  An exchange *)
(* keeps what the score tells apart:                                       *)
(*   post, aiWord: the method is POST, the path has one of the keywords;   *)
(*   asset:   the path is a static file or a health check;                 *)
(*   request: the type of its body;                                        *)
(*   prompt:  a field of that body named like a prompt, "long" if the body *)
(*            exceeds the characters kept of it;                           *)
(*   type:    the type of the response, "none" if there is none;           *)
(*   reply:   a field of it named like an answer, which holds an "id" or a  *)
(*            "text"; "long" if the body exceeds the characters looked at. *)
(***************************************************************************)
EXTENDS Naturals

Exchanges ==
    [post : BOOLEAN, aiWord : BOOLEAN, asset : BOOLEAN, request : {"json", "form", "other"},
     prompt : {"none", "short", "long"}, type : {"none", "page or file", "other"},
     reply : {"none", "id", "text", "long"}]

(* What is captured when the target gave no answer. *)
Unanswered(x) == [x EXCEPT !.type = "none", !.reply = "none"]

Weight(holds, points) == IF holds THEN points ELSE 0

Excluded(x) == x.asset \/ x.type = "page or file"

(* Cut JSON does not parse; the fields of a cut form do. *)
PromptField(x) ==
    \/ x.request = "json" /\ x.prompt = "short"
    \/ x.request = "form" /\ x.prompt # "none"

ResponseField(x) == x.reply \in {"id", "text"}

Points(x) ==
    Weight(x.post, 25)
        + Weight(x.request = "json", 15) + Weight(x.request = "form", 8)
        + Weight(PromptField(x), 30)
        + Weight(ResponseField(x), 20) + Weight(x.reply = "text", 15)
        + Weight(x.type # "none", 5) + Weight(x.aiWord, 10)

Confidence(x) == Weight(~Excluded(x), IF Points(x) > 100 THEN 100 ELSE Points(x))

Likely(x) == Confidence(x) >= 50

\* Faulty: the exchange seen last.
BestOfLatest(captures) ==
    captures[CHOOSE n \in DOMAIN captures : \A m \in DOMAIN captures : m <= n]

(* The first of the likely exchanges, or of all, that none surpasses; the  *)
(* captures are numbered in their order.                                   *)
BestOf(captures) ==
    LET likely == {n \in DOMAIN captures : Likely(captures[n])}
        pool == IF likely # {} THEN likely ELSE DOMAIN captures
        Score(n) == Confidence(captures[n])
        Before(n, m) == Score(n) > Score(m) \/ (Score(n) = Score(m) /\ n <= m)
    IN  captures[CHOOSE n \in pool : \A m \in pool : Before(n, m)]
=============================================================================
