SPECIFICATION Spec
CONSTANTS
    Methods = {"scram"}
    Rounds = {1}
    AuthChCap = 4
    Handler <- BlockAndRewrite
    Batched <- Allowed
    Window = 1
    MaxRequests = 0
CHECK_DEADLOCK FALSE
INVARIANT RepliesIntact
