SPECIFICATION Spec
CONSTANTS
    FirstDay <- MCFirstDay
    LastDay <- MCLastDay
    Keeps <- MCKeeps
    Modes <- MCModes
INVARIANTS
    WeekKeysFollowTheWeeks
PROPERTIES
    RetentionHolds
    OnlyTheOldestGo
