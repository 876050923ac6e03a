SPECIFICATION FairSpec
CONSTANTS
    Methods = {"trust", "cleartext", "md5", "scram", "gss"}
    Rounds = {1, 6}
    AuthChCap = 4
    Handler <- BlockAndRewrite
    Batched <- Allowed
    Window = 1
    MaxRequests = 3
CHECK_DEADLOCK FALSE
INVARIANTS
    TypeOK
    AnswersTransparent
    OnlyAllowedExecuted
    PasswordIntact
    SendNeverBlocks
PROPERTIES
    AuthenticationEnds
    RequestsAnswered
