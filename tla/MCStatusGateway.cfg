CONSTANTS
    MaxAttempts = 3
    BaseDelay = 3
    Codes = {200, 404, 408, 429, 503}
SPECIFICATION Spec
INVARIANT TypeOK
INVARIANT FollowsRetryPolicy
CHECK_DEADLOCK FALSE
