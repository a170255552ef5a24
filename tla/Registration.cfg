\* Two processes, one after the other or at once, and three tokens.
SPECIFICATION Spec
CONSTANTS
    Starts = {s1, s2}
    Tokens = {t1, t2, t3}
    None = None
    Torn = Torn
INVARIANTS
    ServingIsSaved
    SpentTokensAreSaved
PROPERTIES
    CredentialsKept
