SPECIFICATION RetentionSpec
CONSTANTS
    LastMonth = 7
    MaxCreateFailures = 1
PROPERTY NinetyDaysKept
CHECK_DEADLOCK FALSE
