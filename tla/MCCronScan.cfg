SPECIFICATION Spec
CONSTANTS
    Minutes = 2
    Hours = 3
    Days = 2
    Months = 2
    Weekdays = 3
    YearLimit = 3
    Schedules <- MCSchedules
    Instants <- MCInstants
INVARIANT
    ScanAdvances
CHECK_DEADLOCK FALSE
