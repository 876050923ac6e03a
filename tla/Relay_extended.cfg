SPECIFICATION Spec
CONSTANTS
    Methods = {"trust"}
    Rounds = {1}
    AuthChCap = 4
    Handler <- BlockAndRewrite
    Batched <- All
    Window = 1
    MaxRequests = 3
CHECK_DEADLOCK FALSE
INVARIANT OnlyAllowedExecuted
