\* Two credentials of one user, one token, two calls with one key.
SPECIFICATION Spec
CONSTANTS
    User = {u1}
    Credential = {c1, c2}
    Token = {t1}
    Call = {x1, x2}
    Key = {k1}
    Request = {r1, r2}
    Scope = {"analysis:write"}
    RequiredScope <- OneScope
    None = None
    TokenLife = 1
    MaxTime = 2
    MaxChanges = 1
INVARIANTS
    OncePerKey
    AnswersAgree
    WithdrawnDoesNothing
    AbandonedOnlyByFault
SYMMETRY Symmetry
CHECK_DEADLOCK FALSE
