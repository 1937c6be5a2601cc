SPECIFICATION MCSpec
CONSTANTS
    Width <- MCWidth
    Masks <- MCMasks
    MonthDays <- MCMonthDays
    WeekDays = 3
    Hours = 2
    Minutes = 2
    CronLines <- MCCronLines
    StartTimes <- MCStartTimes
    MaxTimes = 100
INVARIANTS FindsLongestMask NextIsEarliest
CHECK_DEADLOCK FALSE
