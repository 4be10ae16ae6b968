SPECIFICATION Spec

CONSTANTS
    MinutesPerHour = 2
    HoursPerDay = 2
    Months = 1
    MonthDays = 3
    Weekdays = 2
    Calendar <- Days
    Zone <- FallBack
    Schedules = {s1}
    Bots = {b1}
    BotOf <- OneBot
    Written <- Expressions
    CatchUps = {"once", "skip"}
    StaleAfter = 2
    LateGrace = 1
    MaxScan = 3
    MaxTime = 8
    MaxRuns = 2
    MaxFires = 2
    UserTimes = {3, 6}
    MaxEdits = 2
    MaxStops = 1
    MaxMoves = 1
    Refusals = TRUE

\* The clock of the model stops.
CHECK_DEADLOCK FALSE

INVARIANTS
    FiresAreToldOnce
    OccurrencesKept

PROPERTIES
    OutageIsCounted
