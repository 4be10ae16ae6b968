-------------------------------- MODULE Cron --------------------------------
(***************************************************************************)
(* Cron expressions and the times they come round                          *)
(* (host/schedule/cron.rs).                                                *)
(*                                                                         *)
(* Time is a line of instants; Zone gives the local clock's offset at each *)
(* of them, so a zone that falls back repeats local times and one that     *)
(* springs forward skips some.  The three clock fields of an expression    *)
(* are two here, hour and minute, the minute being the smallest unit of    *)
(* the model; a date has a month, a day of the month and a weekday.        *)
(***************************************************************************)
EXTENDS Integers, FiniteSetsExt

CONSTANTS
    MinutesPerHour, HoursPerDay,
    Months, MonthDays, Weekdays,  \* how many of each; weekdays count from 0
    Calendar,                     \* day -> [month, day, weekday]
    Zone                          \* instant -> offset of the local clock

ASSUME CronAssumption ==
    /\ DOMAIN Calendar \subseteq Int
    /\ {MinutesPerHour, HoursPerDay, Months, MonthDays, Weekdays} \subseteq Nat \ {0}
    /\ \A t \in DOMAIN Zone : t \in Nat /\ Zone[t] \in Int

None == -1
MinutesPerDay == MinutesPerHour * HoursPerDay
Instants == DOMAIN Zone

-----------------------------------------------------------------------------
(* Reading a field: a set of parts, each "*", "a" or "a-b" with a step.    *)

Star == [form |-> "star", from |-> 0, to |-> 0, step |-> 1]
At(v) == [form |-> "single", from |-> v, to |-> v, step |-> 1]
Part(form, from, to, step) == [form |-> form, from |-> from, to |-> to, step |-> step]

\* A number of a field; only the weekday has a second name for its first value.
Value(raw, field) == IF field = "weekday" /\ raw = Weekdays THEN 0 ELSE raw

Lowest(field) == IF field \in {"month", "day"} THEN 1 ELSE 0
Highest(field) ==
    CASE field = "minute" -> MinutesPerHour - 1
      [] field = "hour" -> HoursPerDay - 1
      [] field = "day" -> MonthDays
      [] field = "month" -> Months
      [] field = "weekday" -> Weekdays - 1

\* A bare value with a step is an open range, unless the step is 1.
PartFrom(part, field) ==
    IF part.form = "star" THEN Lowest(field) ELSE Value(part.from, field)
PartTo(part, field) ==
    IF part.form = "star" \/ (part.form = "single" /\ part.step > 1)
    THEN Highest(field)
    ELSE Value(IF part.form = "single" THEN part.from ELSE part.to, field)

PartParses(part, field) ==
    /\ part.step > 0
    /\ PartFrom(part, field) \in Lowest(field)..Highest(field)
    /\ PartTo(part, field) \in Lowest(field)..Highest(field)
    /\ PartFrom(part, field) <= PartTo(part, field)

PartValues(part, field) ==
    {v \in PartFrom(part, field)..PartTo(part, field) :
        (v - PartFrom(part, field)) % part.step = 0}

\* The wildcard flag is about how the field was written, not what it allows.
Field(parts, field) ==
    [allowed  |-> UNION {PartValues(part, field) : part \in parts},
     wildcard |-> parts = {Star}]

Fields == {"minute", "hour", "day", "month", "weekday"}

Parses(raw) ==
    \A field \in Fields :
        raw[field] # {} /\ \A part \in raw[field] : PartParses(part, field)
Parse(raw) == [field \in Fields |-> Field(raw[field], field)]

-----------------------------------------------------------------------------
(* The local clock.                                                        *)

Local(t) == t + Zone[t]
Date(t) == Local(t) \div MinutesPerDay
TimeOfDay(t) == Local(t) % MinutesPerDay

\* The instants that read as a local time: none in a gap, two when repeated.
Clock ==
    [date \in DOMAIN Calendar |-> [time \in 0..(MinutesPerDay - 1) |->
        {t \in Instants : Date(t) = date /\ TimeOfDay(t) = time}]]
Readings(date, time) == Clock[date][time]

\* The classic rule: two restricted day fields are a union.
MatchesDate(spec, date) ==
    LET today == Calendar[date]
        dom == today.day \in spec.day.allowed
        dow == today.weekday \in spec.weekday.allowed
    IN /\ date \in DOMAIN Calendar
       /\ today.month \in spec.month.allowed
       /\ CASE spec.day.wildcard /\ spec.weekday.wildcard -> TRUE
            [] ~spec.day.wildcard /\ spec.weekday.wildcard -> dom
            [] spec.day.wildcard /\ ~spec.weekday.wildcard -> dow
            [] OTHER -> dom \/ dow

MatchesTime(spec, time) ==
    /\ time \div MinutesPerHour \in spec.hour.allowed
    /\ time % MinutesPerHour \in spec.minute.allowed

\* The matching times of a day that exist on its clock.
TimesOn(spec, date) ==
    {time \in 0..(MinutesPerDay - 1) :
        MatchesDate(spec, date) /\ MatchesTime(spec, time) /\ Readings(date, time) # {}}

Earliest(found) == IF found \subseteq {None} THEN None ELSE Min(found \ {None})
Final(found) == IF found \subseteq {None} THEN None ELSE Max(found \ {None})

\* An ambiguous time stands for the first of its two instants.
FirstTimeOn(spec, date, floor) ==
    LET times == {time \in TimesOn(spec, date) : time >= floor}
    IN IF times = {} THEN None ELSE Min(Readings(date, Min(times)))
LastTimeOn(spec, date, ceiling) ==
    LET times == {time \in TimesOn(spec, date) : time <= ceiling}
    IN IF times = {} THEN None ELSE Min(Readings(date, Max(times)))

\* The day-by-day walk stops at the first day that has a time.  A zone repeats
\* hours within a day, so the days are in the order of their instants.
\* The next occurrence is looked for on the local calendar: from the unit after
\* this one today, then on each day that follows.
NextFrom(spec, start) ==
    IF start \notin Instants THEN None
    ELSE Earliest({FirstTimeOn(spec, date, IF date = Date(start) THEN TimeOfDay(start) ELSE 0) :
                      date \in {date \in DOMAIN Calendar : date >= Date(start)}})
NextAfter(spec, after) == NextFrom(spec, after + 1)

\* Its mirror, from this unit back.
PrevAtOrBefore(spec, before) ==
    Final({LastTimeOn(spec, date, IF date = Date(before) THEN TimeOfDay(before)
                                  ELSE MinutesPerDay - 1) :
             date \in {date \in DOMAIN Calendar : date <= Date(before)}})

-----------------------------------------------------------------------------
(* What the expression means: each matching local time, once, at the first *)
(* instant that reads so.                                                  *)

FirstReadings == {t \in Instants : t = Min(Readings(Date(t), TimeOfDay(t)))}

\* The days are those the clock shows.  It is set one way at a time: times are
\* first read in their order, and one that is skipped is not read later.
ASSUME ZoneAssumption ==
    /\ \A t \in Instants : Date(t) \in DOMAIN Calendar
    /\ \A t, u \in FirstReadings : Local(t) < Local(u) => t < u
    /\ \A t, u \in Instants : t + 1 \in Instants /\ Local(t) < Local(u) => Local(t + 1) <= Local(u)

Occurrences(spec) ==
    {t \in FirstReadings : MatchesDate(spec, Date(t)) /\ MatchesTime(spec, TimeOfDay(t))}

FirstOccurrenceAfter(spec, after) ==
    Earliest({t \in Occurrences(spec) : t > after})
LastOccurrenceBy(spec, before) ==
    Final({t \in Occurrences(spec) : t <= before})

\* In the second pass of a repeated hour, or about to enter it.
InRepeatedHour(t) == ~({t, t + 1} \cap Instants \subseteq FirstReadings)
=============================================================================
