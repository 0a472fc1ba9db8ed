\* Up to 3 tries or roles, pools of one cell, no limit or one of 1, 6 and 7 ticks.
SPECIFICATION FailoverSpec
CONSTANTS
    Errors <- MCErrors
    Roles <- MCRoles
    Conditions <- MCConditions
    MaxTries = 3
    Capacity = 1
    Limits <- MCLimits
    None = None
INVARIANTS WithinLimit FailedIsClosed
PROPERTIES SharesNeverShrink  TimeoutFallsBack Answered
