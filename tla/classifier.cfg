CONSTANTS
    Milli = 4
    Year = 3
    EpochMin = 8
    EpochMax = 16
    Fallback = 2
    Now = 42
    Statuses = {0, 199, 200, 299, 300, 400, 401, 402, 403, 404, 429, 499, 500, 599}
    Names = {"", "other", "creditserror", "freeusagelimiterror", "gousagelimiterror", "ratelimiterror", "tokens_per_minute", "insufficient_quota"}
    Responses <- MCResponses
SPECIFICATION Spec
CHECK_DEADLOCK FALSE
 
INVARIANT LatestResetWins
INVARIANT QuotaIsConfirmed
