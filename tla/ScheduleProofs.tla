--------------------------- MODULE ScheduleProofs ---------------------------
(***************************************************************************)
(* What Cron finds on any clock and calendar, and what Schedule promises   *)
(* for any schedules, expressions, outages, edits and crashes: each        *)
(* occurrence is kept, each fire is told once.                             *)
(***************************************************************************)
EXTENDS Schedule, FiniteSetTheorems, SequenceTheorems, TLAPS

-----------------------------------------------------------------------------
(* The least and the greatest of a set of numbers.                         *)

LEMMA LeastOf ==
    ASSUME NEW k \in Nat, NEW S \in SUBSET (0..k), S # {}
    PROVE  \E n \in S : \A m \in S : n <= m
  <1> DEFINE Upto(n) == {m \in S : m <= n}
             T == {Upto(n) : n \in S}
  <1>1. IsWellFoundedOn(StrictSubsetOrdering(S), FiniteSubsetsOf(S))
    BY FS_StrictSubsetOrderingWellFounded
  <1>2. IsFiniteSet(S)
    <2>1. IsFiniteSet(0..k)
      BY FS_Interval
    <2> QED
      BY <2>1, FS_Subset
  <1>3. T \subseteq FiniteSubsetsOf(S) /\ T # {}
    <2>1. \A n \in S : Upto(n) \subseteq S
      OBVIOUS
    <2>2. \A n \in S : IsFiniteSet(Upto(n))
      BY <1>2, <2>1, FS_Subset
    <2> QED
      BY <2>1, <2>2 DEF FiniteSubsetsOf
  <1> HIDE DEF T
  <1>4. PICK x \in T : \A y \in T : ~ (<<y, x>> \in StrictSubsetOrdering(S))
    BY <1>1, <1>3, WFMin
  <1>5. PICK n \in S : x = Upto(n)
    BY <1>4 DEF T
  <1>6. ASSUME NEW m \in S PROVE n <= m
    <2>1. n \in Nat /\ m \in Nat
      OBVIOUS
    <2>2. CASE m < n
      <3>1. Upto(m) \subseteq Upto(n) /\ n \in Upto(n) /\ n \notin Upto(m)
        <4>1. \A j \in S : j \in Nat
          OBVIOUS
        <4>2. \A j \in S : j <= m => j <= n
          BY <2>1, <2>2, <4>1
        <4>3. n <= n /\ ~(n <= m)
          BY <2>1, <2>2
        <4> QED
          BY <4>2, <4>3
      <3>2. Upto(m) \in T /\ Upto(m) \in SUBSET S /\ Upto(n) \in SUBSET S
        BY DEF T
      <3> HIDE DEF Upto
      <3>3. <<Upto(m), Upto(n)>> \in StrictSubsetOrdering(S)
        BY <3>1, <3>2 DEF StrictSubsetOrdering
      <3> QED
        BY <1>4, <1>5, <3>2, <3>3
    <2> QED
      BY <2>1, <2>2
  <1> QED
    BY <1>6

LEMMA MinOf ==
    ASSUME NEW S \in SUBSET Nat, S # {}
    PROVE  Min(S) \in S /\ \A m \in S : Min(S) <= m
  <1>1. PICK k \in S : TRUE
    OBVIOUS
  <1> DEFINE L == {m \in S : m <= k}
  <1>2. k \in Nat /\ L \in SUBSET (0..k) /\ L # {}
    <2>1. k \in Nat /\ k <= k
      BY <1>1
    <2>2. \A m \in S : m \in Nat
      OBVIOUS
    <2>3. k \in L
      BY <1>1, <2>1
    <2>4. \A m \in L : m \in 0..k
      BY <2>1, <2>2
    <2> QED
      BY <2>1, <2>3, <2>4
  <1>3. PICK n \in L : \A m \in L : n <= m
    BY <1>2, LeastOf
  <1>4. n \in S /\ \A m \in S : n <= m
    BY <1>2, <1>3
  <1> QED
    BY <1>4 DEF Min

LEMMA MaxOf ==
    ASSUME NEW k \in Nat, NEW S \in SUBSET (0..k), S # {}
    PROVE  Max(S) \in S /\ \A m \in S : m <= Max(S)
  <1> DEFINE L == {k - m : m \in S}
  <1>1. L \in SUBSET (0..k) /\ L # {}
    OBVIOUS
  <1>2. PICK n \in L : \A m \in L : n <= m
    BY <1>1, LeastOf
  <1>3. PICK x \in S : n = k - x
    BY <1>2
  <1>4. \A m \in S : x >= m
    <2> SUFFICES ASSUME NEW m \in S PROVE x >= m
      OBVIOUS
    <2>1. n <= k - m
      BY <1>2
    <2> QED
      BY <1>3, <2>1
  <1>5. Max(S) \in S /\ \A m \in S : Max(S) >= m
    BY <1>4 DEF Max
  <1> QED
    BY <1>5

-----------------------------------------------------------------------------
(* The local clock.  Two instants read alike if their local times are one. *)

LEMMA DayIsLong == MinutesPerDay \in Nat \ {0}
  BY CronAssumption DEF MinutesPerDay

\* The order of times is that of their days and of the times of day.
LEMMA DivOrder ==
    ASSUME NEW d \in Nat \ {0}, NEW x \in Int, NEW y \in Int
    PROVE  /\ x \div d \in Int /\ x % d \in 0..(d - 1)
           /\ x < y <=> \/ x \div d < y \div d
                        \/ x \div d = y \div d /\ x % d < y % d
  <1>1. x \div d \in Int /\ x % d \in Int /\ 0 <= x % d /\ x % d < d
    OBVIOUS
  <1>2. x < y <=> \/ x \div d < y \div d
                  \/ x \div d = y \div d /\ x % d < y % d
    OBVIOUS
  <1> QED
    BY <1>1, <1>2

LEMMA LocalTimes ==
    ASSUME NEW t \in Instants
    PROVE  /\ t \in Nat /\ Local(t) \in Int /\ Date(t) \in Int /\ Date(t) \in DOMAIN Calendar
           /\ TimeOfDay(t) \in 0..(MinutesPerDay - 1)
  <1>1. t \in Nat /\ Local(t) \in Int
    BY CronAssumption DEF Instants, Local
  <1> QED
    BY <1>1, DayIsLong, DivOrder, ZoneAssumption DEF Date, TimeOfDay

LEMMA LocalOrder ==
    ASSUME NEW t \in Instants, NEW u \in Instants
    PROVE  /\ Local(t) < Local(u) <=> \/ Date(t) < Date(u)
                                      \/ Date(t) = Date(u) /\ TimeOfDay(t) < TimeOfDay(u)
           /\ Local(t) = Local(u) <=> Date(t) = Date(u) /\ TimeOfDay(t) = TimeOfDay(u)
  <1>1. Local(t) \in Int /\ Local(u) \in Int
    BY LocalTimes
  <1>2. \A x, y \in Int :
           x < y <=> \/ x \div MinutesPerDay < y \div MinutesPerDay
                     \/ /\ x \div MinutesPerDay = y \div MinutesPerDay
                        /\ x % MinutesPerDay < y % MinutesPerDay
    BY DayIsLong, DivOrder
  <1>3. /\ Local(t) < Local(u) <=> \/ Date(t) < Date(u)
                                   \/ Date(t) = Date(u) /\ TimeOfDay(t) < TimeOfDay(u)
        /\ Local(u) < Local(t) <=> \/ Date(u) < Date(t)
                                   \/ Date(u) = Date(t) /\ TimeOfDay(u) < TimeOfDay(t)
    BY <1>1, <1>2 DEF Date, TimeOfDay
  <1>4. /\ Date(t) \in Int /\ Date(u) \in Int
        /\ TimeOfDay(t) \in Int /\ TimeOfDay(u) \in Int
    BY LocalTimes, DayIsLong
  <1> QED
    BY <1>1, <1>3, <1>4

LEMMA ReadingsOf ==
    ASSUME NEW date \in DOMAIN Calendar, NEW time \in 0..(MinutesPerDay - 1)
    PROVE  /\ Readings(date, time) = {t \in Instants : Date(t) = date /\ TimeOfDay(t) = time}
           /\ Readings(date, time) \in SUBSET Nat
  <1>1. Readings(date, time) = {t \in Instants : Date(t) = date /\ TimeOfDay(t) = time}
    BY DEF Readings, Clock
  <1> QED
    BY <1>1, LocalTimes

\* Every time the clock shows was shown for a first time.
LEMMA FirstReadingOf ==
    ASSUME NEW t \in Instants
    PROVE  \E u \in FirstReadings : u <= t /\ Local(u) = Local(t)
  <1> DEFINE S == Readings(Date(t), TimeOfDay(t))
             u == Min(S)
  <1>1. S = {x \in Instants : Date(x) = Date(t) /\ TimeOfDay(x) = TimeOfDay(t)}
        /\ S \in SUBSET Nat /\ t \in S
    BY LocalTimes, ReadingsOf
  <1>2. u \in S /\ u <= t
    BY <1>1, MinOf
  <1>3. u \in Instants /\ Date(u) = Date(t) /\ TimeOfDay(u) = TimeOfDay(t)
    BY <1>1, <1>2
  <1>4. u \in FirstReadings
    <2>1. u = Min(Readings(Date(u), TimeOfDay(u)))
      BY <1>3
    <2> HIDE DEF u
    <2> QED
      BY <1>3, <2>1 DEF FirstReadings
  <1> QED
    BY <1>2, <1>3, <1>4, LocalOrder

LEMMA FirstReadingsInOrder ==
    ASSUME NEW t \in FirstReadings, NEW u \in FirstReadings, Local(t) <= Local(u)
    PROVE  t <= u /\ (Local(t) = Local(u) => t = u)
  <1>1. t \in Instants /\ u \in Instants /\ t \in Nat /\ u \in Nat
        /\ Local(t) \in Int /\ Local(u) \in Int
    BY LocalTimes DEF FirstReadings
  <1>2. CASE Local(t) < Local(u)
    BY <1>1, <1>2, ZoneAssumption
  <1>3. CASE Local(t) = Local(u)
    <2>1. Date(t) = Date(u) /\ TimeOfDay(t) = TimeOfDay(u)
      BY <1>1, <1>3, LocalOrder
    <2>2. t = Min(Readings(Date(t), TimeOfDay(t))) /\ u = Min(Readings(Date(u), TimeOfDay(u)))
      BY DEF FirstReadings
    <2> QED
      BY <1>1, <2>1, <2>2
  <1> QED
    BY <1>1, <1>2, <1>3

-----------------------------------------------------------------------------
(* The searches of cron.rs.                                                *)

LEMMA OccurrenceOf ==
    ASSUME NEW spec, NEW u \in Occurrences(spec)
    PROVE  /\ u \in FirstReadings /\ u \in Instants /\ u \in Nat
           /\ TimeOfDay(u) \in TimesOn(spec, Date(u))
  <1>1. u \in FirstReadings /\ u \in Instants
        /\ MatchesDate(spec, Date(u)) /\ MatchesTime(spec, TimeOfDay(u))
    BY DEF Occurrences, FirstReadings
  <1>2. u \in Readings(Date(u), TimeOfDay(u))
    BY <1>1, LocalTimes, ReadingsOf
  <1> QED
    BY <1>1, <1>2, LocalTimes DEF TimesOn

LEMMA TimeIsOccurrence ==
    ASSUME NEW spec, NEW date \in DOMAIN Calendar, NEW time \in TimesOn(spec, date)
    PROVE  LET u == Min(Readings(date, time))
           IN u \in Occurrences(spec) /\ Date(u) = date /\ TimeOfDay(u) = time
  <1> DEFINE u == Min(Readings(date, time))
  <1>1. /\ time \in 0..(MinutesPerDay - 1) /\ Readings(date, time) # {}
        /\ MatchesDate(spec, date) /\ MatchesTime(spec, time)
    BY DEF TimesOn
  <1>2. u \in Readings(date, time)
    BY <1>1, ReadingsOf, MinOf
  <1>3. u \in Instants /\ Date(u) = date /\ TimeOfDay(u) = time
    BY <1>1, <1>2, ReadingsOf
  <1>4. u = Min(Readings(Date(u), TimeOfDay(u)))
    BY <1>3
  <1> HIDE DEF u
  <1>5. u \in Occurrences(spec)
    BY <1>1, <1>3, <1>4 DEF Occurrences, FirstReadings
  <1> QED
    BY <1>3, <1>5 DEF u

LEMMA NoneIsNoTime == None \notin Nat /\ None \in Int
  BY DEF None

\* first_time_on: the first time of a day from a floor on.
LEMMA FirstTimeIs ==
    ASSUME NEW spec, NEW date \in DOMAIN Calendar, NEW floor \in Int,
           NEW v, v = FirstTimeOn(spec, date, floor)
    PROVE  \/ /\ v = None
              /\ \A u \in Occurrences(spec) : Date(u) = date => TimeOfDay(u) < floor
           \/ /\ v \in Occurrences(spec) /\ Date(v) = date /\ TimeOfDay(v) >= floor
              /\ \A u \in Occurrences(spec) :
                    Date(u) = date /\ TimeOfDay(u) >= floor => TimeOfDay(v) <= TimeOfDay(u)
  <1> DEFINE times == {time \in TimesOn(spec, date) : time >= floor}
  <1>1. times \in SUBSET Nat
    BY DayIsLong DEF TimesOn
  <1>2. ASSUME NEW u \in Occurrences(spec), Date(u) = date
        PROVE  /\ TimeOfDay(u) \in Int
               /\ TimeOfDay(u) >= floor => TimeOfDay(u) \in times
    BY <1>2, OccurrenceOf, LocalTimes, DayIsLong
  <1>3. CASE times = {}
    <2>1. v = None
      BY <1>3 DEF FirstTimeOn
    <2> QED
      BY <1>2, <1>3, <2>1
  <1>4. CASE times # {}
    <2> DEFINE time == Min(times)
    <2>1. v = Min(Readings(date, time))
      BY <1>4 DEF FirstTimeOn
    <2>2. time \in times /\ \A m \in times : time <= m
      BY <1>1, <1>4, MinOf
    <2> HIDE DEF time
    <2>3. time \in TimesOn(spec, date) /\ time >= floor
      BY <2>2
    <2>4. v \in Occurrences(spec) /\ Date(v) = date /\ TimeOfDay(v) = time
      BY <2>1, <2>3, TimeIsOccurrence
    <2> QED
      BY <1>2, <2>2, <2>3, <2>4
  <1> QED
    BY <1>3, <1>4

\* last_time_on: the last up to a ceiling.
LEMMA LastTimeIs ==
    ASSUME NEW spec, NEW date \in DOMAIN Calendar, NEW ceiling \in Int,
           NEW v, v = LastTimeOn(spec, date, ceiling)
    PROVE  \/ /\ v = None
              /\ \A u \in Occurrences(spec) : Date(u) = date => TimeOfDay(u) > ceiling
           \/ /\ v \in Occurrences(spec) /\ Date(v) = date /\ TimeOfDay(v) <= ceiling
              /\ \A u \in Occurrences(spec) :
                    Date(u) = date /\ TimeOfDay(u) <= ceiling => TimeOfDay(u) <= TimeOfDay(v)
  <1> DEFINE times == {time \in TimesOn(spec, date) : time <= ceiling}
  <1>1. times \in SUBSET (0..(MinutesPerDay - 1)) /\ MinutesPerDay - 1 \in Nat
    BY DayIsLong DEF TimesOn
  <1>2. ASSUME NEW u \in Occurrences(spec), Date(u) = date
        PROVE  /\ TimeOfDay(u) \in Int
               /\ TimeOfDay(u) <= ceiling => TimeOfDay(u) \in times
    BY <1>2, OccurrenceOf, LocalTimes, DayIsLong
  <1>3. CASE times = {}
    <2>1. v = None
      BY <1>3 DEF LastTimeOn
    <2> QED
      BY <1>2, <1>3, <2>1
  <1>4. CASE times # {}
    <2> DEFINE time == Max(times)
    <2>1. v = Min(Readings(date, time))
      BY <1>4 DEF LastTimeOn
    <2>2. time \in times /\ \A m \in times : m <= time
      BY <1>1, <1>4, MaxOf
    <2> HIDE DEF time
    <2>3. time \in TimesOn(spec, date) /\ time <= ceiling
      BY <2>2
    <2>4. v \in Occurrences(spec) /\ Date(v) = date /\ TimeOfDay(v) = time
      BY <2>1, <2>3, TimeIsOccurrence
    <2> QED
      BY <1>2, <2>2, <2>3, <2>4
  <1> QED
    BY <1>3, <1>4

\* next_after: the first occurrence, in time, of those the clock shows from a
\* local time on.
LEMMA NextIs ==
    ASSUME NEW spec, NEW start \in Instants, NEW n, n = NextFrom(spec, start)
    PROVE  \/ /\ n = None
              /\ \A u \in Occurrences(spec) : Local(u) < Local(start)
           \/ /\ n \in Occurrences(spec) /\ Local(n) >= Local(start)
              /\ \A u \in Occurrences(spec) : Local(u) >= Local(start) => n <= u
  <1> DEFINE days == {date \in DOMAIN Calendar : date >= Date(start)}
             Floor(date) == IF date = Date(start) THEN TimeOfDay(start) ELSE 0
             found == {FirstTimeOn(spec, date, Floor(date)) : date \in days}
             some == found \ {None}
  <1>1. n = IF found \subseteq {None} THEN None ELSE Min(some)
    BY DEF NextFrom, Earliest
  <1>2. Date(start) \in Int /\ TimeOfDay(start) \in 0..(MinutesPerDay - 1) /\ Local(start) \in Int
        /\ \A date \in days : Floor(date) \in Int
    BY LocalTimes, DayIsLong
  <1>3. ASSUME NEW date \in days, NEW v, v = FirstTimeOn(spec, date, Floor(date))
        PROVE  \/ /\ v = None
                  /\ \A u \in Occurrences(spec) : Date(u) = date => TimeOfDay(u) < Floor(date)
               \/ /\ v \in Occurrences(spec) /\ Date(v) = date /\ TimeOfDay(v) >= Floor(date)
                  /\ \A u \in Occurrences(spec) :
                        Date(u) = date /\ TimeOfDay(u) >= Floor(date)
                           => TimeOfDay(v) <= TimeOfDay(u)
    <2>1. date \in DOMAIN Calendar /\ Floor(date) \in Int
      BY <1>2
    <2> HIDE DEF Floor
    <2> QED
      BY <1>3, <2>1, FirstTimeIs
  <1>4. ASSUME NEW v \in some
        PROVE  v \in Occurrences(spec) /\ v \in Nat /\ Local(v) >= Local(start)
    <2>1. PICK date \in days : v = FirstTimeOn(spec, date, Floor(date)) /\ v # None
      BY <1>4
    <2>2. v \in Occurrences(spec) /\ Date(v) = date /\ TimeOfDay(v) >= Floor(date)
      BY <1>3, <2>1
    <2>3. v \in Instants /\ v \in Nat /\ Local(v) \in Int
      BY <2>2, OccurrenceOf, LocalTimes
    <2>4. ~(Local(v) < Local(start))
      BY <1>2, <2>2, <2>3, LocalOrder, LocalTimes
    <2> QED
      BY <1>2, <2>2, <2>3, <2>4
  <1>5. ASSUME NEW u \in Occurrences(spec), Local(u) >= Local(start)
        PROVE  \E v \in some : v <= u
    <2>1. u \in Instants /\ u \in FirstReadings /\ Local(u) \in Int /\ Date(u) \in DOMAIN Calendar
          /\ Date(u) \in Int /\ TimeOfDay(u) \in 0..(MinutesPerDay - 1)
      BY OccurrenceOf, LocalTimes
    <2>2. ~(Local(u) < Local(start))
      BY <1>2, <1>5, <2>1
    <2>3. Date(u) \in days /\ TimeOfDay(u) >= Floor(Date(u))
      BY <1>2, <2>1, <2>2, LocalOrder, DayIsLong
    <2> DEFINE v == FirstTimeOn(spec, Date(u), Floor(Date(u)))
    <2>4. v \in Occurrences(spec) /\ Date(v) = Date(u) /\ TimeOfDay(v) <= TimeOfDay(u)
      <3>1. ~(TimeOfDay(u) < Floor(Date(u)))
        BY <1>2, <2>1, <2>3, DayIsLong
      <3> HIDE DEF Floor
      <3> QED
        BY <1>3, <2>3, <3>1
    <2>5. v \in some
      <3>1. v \in found
        BY <2>3
      <3>2. v # None
        BY <2>4, OccurrenceOf, NoneIsNoTime
      <3> QED
        BY <3>1, <3>2
    <2> HIDE DEF v
    <2>6. v \in Instants /\ v \in FirstReadings /\ Local(v) \in Int /\ TimeOfDay(v) \in Int
      BY <2>4, OccurrenceOf, LocalTimes, DayIsLong
    <2>7. Local(v) <= Local(u)
      <3>1. ~(Local(u) < Local(v))
        BY <2>1, <2>4, <2>6, LocalOrder
      <3> QED
        BY <2>1, <2>6, <3>1
    <2>8. v <= u
      BY <2>1, <2>6, <2>7, FirstReadingsInOrder
    <2> QED
      BY <2>5, <2>8
  <1> HIDE DEF found
  <1>6. CASE found \subseteq {None}
    <2>1. n = None /\ some = {}
      BY <1>1, <1>6
    <2>2. ASSUME NEW u \in Occurrences(spec) PROVE Local(u) < Local(start)
      <3>1. Local(u) \in Int /\ ~(Local(u) >= Local(start))
        BY <1>5, <2>1, OccurrenceOf, LocalTimes
      <3> QED
        BY <1>2, <3>1
    <2> QED
      BY <2>1, <2>2
  <1>7. CASE ~(found \subseteq {None})
    <2>1. some # {} /\ some \in SUBSET Nat
      BY <1>4, <1>7
    <2>2. n = Min(some)
      BY <1>1, <1>7
    <2>3. n \in some /\ \A v \in some : n <= v
      BY <2>1, <2>2, MinOf
    <2>4. n \in Occurrences(spec) /\ Local(n) >= Local(start) /\ n \in Nat
      BY <1>4, <2>3
    <2>5. ASSUME NEW u \in Occurrences(spec), Local(u) >= Local(start) PROVE n <= u
      <3>1. PICK v \in some : v <= u
        BY <1>5, <2>5
      <3>2. v \in Nat /\ u \in Nat /\ n <= v
        BY <1>4, <2>3, OccurrenceOf
      <3> QED
        BY <2>4, <3>1, <3>2
    <2> QED
      BY <2>4, <2>5
  <1> QED
    BY <1>6, <1>7

\* prev_at_or_before: the last of those up to this local time.
LEMMA PrevIs ==
    ASSUME NEW spec, NEW before \in Instants, NEW p, p = PrevAtOrBefore(spec, before)
    PROVE  \/ /\ p = None
              /\ \A u \in Occurrences(spec) : Local(u) > Local(before)
           \/ /\ p \in Occurrences(spec) /\ Local(p) <= Local(before) /\ p <= before
              /\ \A u \in Occurrences(spec) : Local(u) <= Local(before) => u <= p
  <1> DEFINE days == {date \in DOMAIN Calendar : date <= Date(before)}
             Ceiling(date) == IF date = Date(before) THEN TimeOfDay(before) ELSE MinutesPerDay - 1
             found == {LastTimeOn(spec, date, Ceiling(date)) : date \in days}
             some == found \ {None}
  <1>1. p = IF found \subseteq {None} THEN None ELSE Max(some)
    BY DEF PrevAtOrBefore, Final
  <1>2. Date(before) \in Int /\ TimeOfDay(before) \in 0..(MinutesPerDay - 1)
        /\ Local(before) \in Int /\ before \in Nat
        /\ \A date \in days : Ceiling(date) \in Int
    BY LocalTimes, DayIsLong
  <1>3. ASSUME NEW date \in days, NEW v, v = LastTimeOn(spec, date, Ceiling(date))
        PROVE  \/ /\ v = None
                  /\ \A u \in Occurrences(spec) : Date(u) = date => TimeOfDay(u) > Ceiling(date)
               \/ /\ v \in Occurrences(spec) /\ Date(v) = date /\ TimeOfDay(v) <= Ceiling(date)
                  /\ \A u \in Occurrences(spec) :
                        Date(u) = date /\ TimeOfDay(u) <= Ceiling(date)
                           => TimeOfDay(u) <= TimeOfDay(v)
    <2>1. date \in DOMAIN Calendar /\ Ceiling(date) \in Int
      BY <1>2
    <2> HIDE DEF Ceiling
    <2> QED
      BY <1>3, <2>1, LastTimeIs
  <1>4. ASSUME NEW v \in some
        PROVE  v \in Occurrences(spec) /\ Local(v) <= Local(before) /\ v \in 0..before
    <2>1. PICK date \in days : v = LastTimeOn(spec, date, Ceiling(date)) /\ v # None
      BY <1>4
    <2>2. v \in Occurrences(spec) /\ Date(v) = date /\ TimeOfDay(v) <= Ceiling(date)
      BY <1>3, <2>1
    <2>3. v \in Instants /\ v \in FirstReadings /\ v \in Nat /\ Local(v) \in Int
          /\ Date(v) \in Int /\ TimeOfDay(v) \in Int
      BY <2>2, OccurrenceOf, LocalTimes, DayIsLong
    <2>4. ~(Local(before) < Local(v))
      BY <1>2, <2>2, <2>3, LocalOrder, DayIsLong
    <2>5. PICK w \in FirstReadings : w <= before /\ Local(w) = Local(before)
      BY FirstReadingOf
    <2>6. w \in Nat /\ Local(v) <= Local(w)
      BY <1>2, <2>3, <2>4, <2>5, LocalTimes DEF FirstReadings
    <2>7. v <= w
      BY <2>3, <2>6, FirstReadingsInOrder
    <2> QED
      BY <1>2, <2>2, <2>3, <2>4, <2>5, <2>6, <2>7
  <1>5. ASSUME NEW u \in Occurrences(spec), Local(u) <= Local(before)
        PROVE  \E v \in some : u <= v
    <2>1. u \in Instants /\ u \in FirstReadings /\ Local(u) \in Int /\ Date(u) \in DOMAIN Calendar
          /\ Date(u) \in Int /\ TimeOfDay(u) \in 0..(MinutesPerDay - 1)
      BY OccurrenceOf, LocalTimes
    <2>2. ~(Local(before) < Local(u))
      BY <1>2, <1>5, <2>1
    <2>3. Date(u) \in days /\ TimeOfDay(u) <= Ceiling(Date(u))
      BY <1>2, <2>1, <2>2, LocalOrder, DayIsLong
    <2> DEFINE v == LastTimeOn(spec, Date(u), Ceiling(Date(u)))
    <2>4. v \in Occurrences(spec) /\ Date(v) = Date(u) /\ TimeOfDay(u) <= TimeOfDay(v)
      <3>1. ~(TimeOfDay(u) > Ceiling(Date(u)))
        BY <1>2, <2>1, <2>3, DayIsLong
      <3> HIDE DEF Ceiling
      <3> QED
        BY <1>3, <2>3, <3>1
    <2>5. v \in some
      <3>1. v \in found
        BY <2>3
      <3>2. v # None
        BY <2>4, OccurrenceOf, NoneIsNoTime
      <3> QED
        BY <3>1, <3>2
    <2> HIDE DEF v
    <2>6. v \in Instants /\ v \in FirstReadings /\ Local(v) \in Int /\ TimeOfDay(v) \in Int
      BY <2>4, OccurrenceOf, LocalTimes, DayIsLong
    <2>7. Local(u) <= Local(v)
      <3>1. ~(Local(v) < Local(u))
        BY <2>1, <2>4, <2>6, LocalOrder
      <3> QED
        BY <2>1, <2>6, <3>1
    <2>8. u <= v
      BY <2>1, <2>6, <2>7, FirstReadingsInOrder
    <2> QED
      BY <2>5, <2>8
  <1> HIDE DEF found
  <1>6. CASE found \subseteq {None}
    <2>1. p = None /\ some = {}
      BY <1>1, <1>6
    <2>2. ASSUME NEW u \in Occurrences(spec) PROVE Local(u) > Local(before)
      <3>1. Local(u) \in Int /\ ~(Local(u) <= Local(before))
        BY <1>5, <2>1, OccurrenceOf, LocalTimes
      <3> QED
        BY <1>2, <3>1
    <2> QED
      BY <2>1, <2>2
  <1>7. CASE ~(found \subseteq {None})
    <2>1. some # {} /\ some \in SUBSET (0..before)
      BY <1>4, <1>7
    <2>2. p = Max(some)
      BY <1>1, <1>7
    <2>3. p \in some /\ \A v \in some : v <= p
      BY <1>2, <2>1, <2>2, MaxOf
    <2>4. p \in Occurrences(spec) /\ Local(p) <= Local(before) /\ p \in 0..before
      BY <1>4, <2>3
    <2>5. ASSUME NEW u \in Occurrences(spec), Local(u) <= Local(before) PROVE u <= p
      <3>1. PICK v \in some : u <= v
        BY <1>5, <2>5
      <3>2. v \in Int /\ u \in Nat /\ v <= p
        BY <1>2, <1>4, <2>3, OccurrenceOf
      <3> QED
        BY <1>2, <2>4, <3>1, <3>2
    <2> QED
      BY <1>2, <2>4, <2>5
  <1> QED
    BY <1>6, <1>7

\* What a schedule is armed for comes no later than any occurrence ahead.
LEMMA AfterIs ==
    ASSUME NEW spec, NEW at \in Instants, at + 1 \in Instants, NEW n, n = NextAfter(spec, at)
    PROVE  /\ n \in Occurrences(spec) \cup {None}
           /\ \A u \in Occurrences(spec) : u > at => n # None /\ n <= u
  <1>1. n = NextFrom(spec, at + 1)
    BY DEF NextAfter
  <1>2. \/ /\ n = None
           /\ \A u \in Occurrences(spec) : Local(u) < Local(at + 1)
        \/ /\ n \in Occurrences(spec) /\ Local(n) >= Local(at + 1)
           /\ \A u \in Occurrences(spec) : Local(u) >= Local(at + 1) => n <= u
    BY <1>1, NextIs
  <1>3. ASSUME NEW u \in Occurrences(spec), u > at PROVE ~(Local(u) < Local(at + 1))
    <2> SUFFICES ASSUME Local(u) < Local(at + 1) PROVE FALSE
      OBVIOUS
    <2>1. PICK w \in FirstReadings : w <= at + 1 /\ Local(w) = Local(at + 1)
      BY FirstReadingOf
    <2>2. u \in FirstReadings /\ u \in Nat /\ w \in Nat /\ at \in Nat
          /\ Local(u) \in Int /\ Local(at + 1) \in Int
      BY OccurrenceOf, LocalTimes DEF FirstReadings
    <2>3. Local(u) <= Local(w) /\ Local(u) # Local(w)
      BY <2>1, <2>2
    <2>4. u <= w /\ u # w
      BY <2>2, <2>3, FirstReadingsInOrder
    <2> QED
      BY <1>3, <2>1, <2>2, <2>4
  <1>4. ASSUME NEW u \in Occurrences(spec)
        PROVE  Local(u) \in Int /\ Local(at + 1) \in Int /\ u \in Nat
    BY OccurrenceOf, LocalTimes
  <1>5. ASSUME NEW u \in Occurrences(spec), u > at PROVE n # None /\ n <= u
    <2>1. Local(u) >= Local(at + 1) /\ ~(Local(u) < Local(at + 1))
      BY <1>3, <1>4, <1>5
    <2>2. n \in Occurrences(spec) /\ n <= u
      BY <1>2, <2>1
    <2> QED
      BY <2>2, OccurrenceOf, NoneIsNoTime
  <1> QED
    BY <1>2, <1>5

\* Between the last occurrence so far and the next, none is lost.
LEMMA BothWays ==
    ASSUME NEW spec, NEW at \in Instants, at + 1 \in Instants,
           NEW p, p = PrevAtOrBefore(spec, at), NEW n, n = NextAfter(spec, at),
           NEW u \in Occurrences(spec)
    PROVE  \/ p # None /\ u <= p
           \/ n # None /\ n <= u
  <1>1. /\ u \in Instants /\ u \in Nat /\ Local(u) \in Int
        /\ Local(at) \in Int /\ Local(at + 1) \in Int
    BY OccurrenceOf, LocalTimes
  <1>2. CASE Local(u) <= Local(at)
    <2>1. ~(Local(u) > Local(at))
      BY <1>1, <1>2
    <2>2. p \in Occurrences(spec) /\ u <= p
      BY <1>2, <2>1, PrevIs
    <2> QED
      BY <2>2, OccurrenceOf, NoneIsNoTime
  <1>3. CASE Local(at) < Local(u)
    <2>1. Local(at + 1) <= Local(u)
      BY <1>1, <1>3, ZoneAssumption
    <2>2. Local(u) >= Local(at + 1) /\ ~(Local(u) < Local(at + 1))
      BY <1>1, <2>1
    <2>3. n = NextFrom(spec, at + 1)
      BY DEF NextAfter
    <2>4. n \in Occurrences(spec) /\ n <= u
      BY <2>2, <2>3, NextIs
    <2> QED
      BY <2>4, OccurrenceOf, NoneIsNoTime
  <1> QED
    BY <1>1, <1>2, <1>3

\* Outside the hours a clock repeats, the two searches find what the expression
\* means, on any clock and calendar: the first occurrence after a time and the
\* last up to it (cron.rs).
THEOREM SearchesMeanIt ==
    ASSUME NEW spec, NEW at \in Instants, at + 1 \in Instants, ~InRepeatedHour(at)
    PROVE  /\ NextAfter(spec, at) = FirstOccurrenceAfter(spec, at)
           /\ PrevAtOrBefore(spec, at) = LastOccurrenceBy(spec, at)
  <1> DEFINE n == NextAfter(spec, at)
             p == PrevAtOrBefore(spec, at)
             ahead == {t \in Occurrences(spec) : t > at}
             past == {t \in Occurrences(spec) : t <= at}
  <1>1. at \in Nat /\ at + 1 \in Nat /\ at \in FirstReadings /\ at + 1 \in FirstReadings
        /\ Local(at) \in Int /\ Local(at + 1) \in Int
    BY LocalTimes DEF InRepeatedHour
  <1>2. \A u \in Occurrences(spec) :
           u \in FirstReadings /\ u \in Nat /\ u \in Instants /\ Local(u) \in Int
    BY OccurrenceOf, LocalTimes
  <1>3. \A u \in Occurrences(spec) : u > at <=> Local(u) >= Local(at + 1)
    <2> SUFFICES ASSUME NEW u \in Occurrences(spec)
                 PROVE  u > at <=> Local(u) >= Local(at + 1)
      OBVIOUS
    <2>1. CASE Local(u) >= Local(at + 1)
      <3>1. Local(at + 1) <= Local(u)
        BY <1>1, <1>2, <2>1
      <3>2. at + 1 <= u
        BY <1>1, <1>2, <3>1, FirstReadingsInOrder
      <3> QED
        BY <1>1, <1>2, <2>1, <3>2
    <2>2. CASE ~(Local(u) >= Local(at + 1))
      <3>1. Local(u) <= Local(at + 1) /\ Local(u) # Local(at + 1)
        BY <1>1, <1>2, <2>2
      <3>2. u <= at + 1 /\ u # at + 1
        BY <1>1, <1>2, <3>1, FirstReadingsInOrder
      <3> QED
        BY <1>1, <1>2, <2>2, <3>2
    <2> QED
      BY <2>1, <2>2
  <1>4. \A u \in Occurrences(spec) : u <= at <=> Local(u) <= Local(at)
    <2> SUFFICES ASSUME NEW u \in Occurrences(spec)
                 PROVE  u <= at <=> Local(u) <= Local(at)
      OBVIOUS
    <2>1. CASE Local(u) <= Local(at)
      BY <1>1, <1>2, <2>1, FirstReadingsInOrder
    <2>2. CASE ~(Local(u) <= Local(at))
      <3>1. Local(at) <= Local(u) /\ Local(at) # Local(u)
        BY <1>1, <1>2, <2>2
      <3>2. at <= u /\ at # u
        BY <1>1, <1>2, <3>1, FirstReadingsInOrder
      <3> QED
        BY <1>1, <1>2, <2>2, <3>2
    <2> QED
      BY <2>1, <2>2
  <1>5. n = FirstOccurrenceAfter(spec, at)
    <2>1. FirstOccurrenceAfter(spec, at) = IF ahead \subseteq {None} THEN None ELSE Min(ahead \ {None})
      BY DEF FirstOccurrenceAfter, Earliest
    <2>2. ahead \ {None} = ahead /\ ahead \in SUBSET Nat
      BY <1>2, NoneIsNoTime
    <2>3. n = NextFrom(spec, at + 1)
      BY DEF NextAfter
    <2> HIDE DEF n
    <2>4. \/ /\ n = None
             /\ \A u \in Occurrences(spec) : Local(u) < Local(at + 1)
          \/ /\ n \in Occurrences(spec) /\ Local(n) >= Local(at + 1)
             /\ \A u \in Occurrences(spec) : Local(u) >= Local(at + 1) => n <= u
      BY <2>3, NextIs
    <2>5. CASE ahead = {}
      <3>1. n = None
        BY <1>3, <2>4, <2>5
      <3> QED
        BY <2>1, <2>5, <3>1
    <2>6. CASE ahead # {}
      <3>1. PICK u \in ahead : TRUE
        BY <2>6
      <3>2. Local(u) >= Local(at + 1) /\ Local(u) \in Int
        BY <1>2, <1>3, <3>1
      <3>3. ~(Local(u) < Local(at + 1))
        BY <1>1, <3>2
      <3>4. n \in ahead /\ \A x \in ahead : n <= x
        BY <1>3, <2>4, <3>1, <3>3
      <3>5. Min(ahead) \in ahead /\ \A x \in ahead : Min(ahead) <= x
        BY <2>2, <2>6, MinOf
      <3>6. n = Min(ahead)
        <4>1. n <= Min(ahead) /\ Min(ahead) <= n
          BY <3>4, <3>5
        <4>2. n \in Nat /\ Min(ahead) \in Nat
          BY <2>2, <3>4, <3>5
        <4> HIDE DEF ahead
        <4> QED
          BY <4>1, <4>2
      <3>7. ~(ahead \subseteq {None})
        BY <2>2, <2>6
      <3> QED
        BY <2>1, <2>2, <3>6, <3>7
    <2> QED
      BY <2>5, <2>6 DEF n
  <1>6. p = LastOccurrenceBy(spec, at)
    <2>1. LastOccurrenceBy(spec, at) = IF past \subseteq {None} THEN None ELSE Max(past \ {None})
      BY DEF LastOccurrenceBy, Final
    <2>2. past \ {None} = past /\ past \in SUBSET (0..at)
      BY <1>1, <1>2, NoneIsNoTime
    <2> HIDE DEF p
    <2>3. \/ /\ p = None
             /\ \A u \in Occurrences(spec) : Local(u) > Local(at)
          \/ /\ p \in Occurrences(spec) /\ Local(p) <= Local(at) /\ p <= at
             /\ \A u \in Occurrences(spec) : Local(u) <= Local(at) => u <= p
      BY PrevIs DEF p
    <2>4. CASE past = {}
      <3>1. p = None
        BY <2>3, <2>4
      <3> QED
        BY <2>1, <2>4, <3>1
    <2>5. CASE past # {}
      <3>1. PICK u \in past : TRUE
        BY <2>5
      <3>2. Local(u) <= Local(at) /\ Local(u) \in Int
        BY <1>2, <1>4, <3>1
      <3>3. ~(Local(u) > Local(at))
        BY <1>1, <3>2
      <3>4. p \in past /\ \A x \in past : x <= p
        BY <1>4, <2>3, <3>1, <3>3
      <3>5. Max(past) \in past /\ \A x \in past : x <= Max(past)
        BY <1>1, <2>2, <2>5, MaxOf
      <3>6. p = Max(past)
        <4>1. p <= Max(past) /\ Max(past) <= p
          BY <3>4, <3>5
        <4>2. p \in Nat /\ Max(past) \in Nat
          BY <1>1, <2>2, <3>4, <3>5
        <4> HIDE DEF past
        <4> QED
          BY <4>1, <4>2
      <3>7. ~(past \subseteq {None})
        BY <2>2, <2>5
      <3> QED
        BY <2>1, <2>2, <3>6, <3>7
    <2> QED
      BY <2>4, <2>5 DEF p
  <1> QED
    BY <1>5, <1>6

-----------------------------------------------------------------------------
(* The invariant of the schedules.                                         *)

Specs == {NoSpec} \cup {Parse(raw) : raw \in Written}
Rows == [exists : BOOLEAN, on : BOOLEAN, spec : Specs, policy : {"once", "skip"},
         due : FirstReadings \cup {None}, since : Nat, torn : BOOLEAN, gone : BOOLEAN]
Fires == [state : FireStates, run : Nat, skipped : Int, pass : {"tick", "hand"}, owed : Int]
Runs == [bot : Bots, state : RunStates, fire : FireKeys \cup {NoKey}]
Cards == [run : Nat, fire : FireKeys \cup {NoKey}, kind : Reasons, by : {"thread", "schedule"}]
Working == {"target", "send", "pump", "refused"}
Phases == {"down", "idle", "rearm", "deliver", "carded", "rule"} \cup Working

Shapes ==
    /\ now \in 0..MaxTime
    /\ schedules \in [Schedules -> Rows]
    /\ DOMAIN fires \subseteq FireKeys
    /\ fires \in [DOMAIN fires -> Fires]
    /\ runs \in Seq(Runs)
    /\ threads \in [Bots -> ThreadRows]
    /\ cards \in Seq(Cards)
    /\ phase \in Phases
    /\ job \in [fire : FireKeys \cup {NoKey}, at : 0..MaxTime, pass : {"none", "tick", "boot", "hand"}]
    /\ pending \in FireKeys \cup {NoKey}
    /\ claimed \in 0..Len(runs)

\* A key that was given to a fire, be it one that went with its schedule.
Known(key) == key \in DOMAIN fires \/ schedules[key[1]].gone
Owing == {s \in Schedules : /\ schedules[s].exists /\ schedules[s].on
                            /\ schedules[s].due # None /\ schedules[s].due <= job.at}
NoRun(key) == \A r \in 1..Len(runs) : runs[r].fire # key
NoCard(key) == \A i \in 1..Len(cards) : cards[i].by = "schedule" => cards[i].fire # key

\* What the host has in hand in each phase of its pass.
Labelled == pending = IF phase = "send" THEN job.fire ELSE NoKey
Todo ==
    /\ phase \in {"deliver", "carded"} => todo \subseteq Undelivered /\ job.pass \in {"tick", "boot"}
    /\ phase = "rearm" => \E s \in Schedules : todo = {s} /\ schedules[s].exists
    /\ phase = "rule" => job.pass = "tick"
    /\ phase \in Working => job.pass \in {"tick", "hand"}
    /\ phase = "rule" \/ (phase \in Working /\ job.pass = "tick") => todo \subseteq Owing
InHand ==
    /\ phase = "carded" =>
         /\ job.fire \in todo /\ fires[job.fire].run # 0
         /\ Outcome(job.fire) \in Terminal \ {"cancelled"} /\ Carded(fires[job.fire].run)
    /\ phase \in Working =>
         /\ job.fire \in DOMAIN fires /\ fires[job.fire].run = 0
         /\ fires[job.fire].state = IF phase = "refused" THEN "failed" ELSE "dispatched"
    /\ phase \in Working \ {"pump"} => NoRun(job.fire)
    /\ phase = "pump" => claimed # 0 /\ runs[claimed].fire = job.fire
    /\ phase = "refused" => NoCard(job.fire)

\* Whose each run is; a run its fire does not name yet is over, unless the host
\* is between the two.
Owners ==
    /\ \A key \in DOMAIN fires :
         /\ schedules[key[1]].exists
         /\ fires[key].run # 0 => fires[key].run \in 1..Len(runs) /\ runs[fires[key].run].fire = key
    /\ \A s \in Schedules : schedules[s].gone => ~schedules[s].exists
    /\ \A q, r \in 1..Len(runs) : runs[q].fire = runs[r].fire /\ q # r => runs[q].fire = NoKey
    /\ \A r \in 1..Len(runs) : runs[r].fire # NoKey =>
         runs[r].bot = BotOf[runs[r].fire[1]] /\ Known(runs[r].fire)
Unlinked ==
    \A r \in 1..Len(runs) : runs[r].fire \in DOMAIN fires =>
        /\ fires[runs[r].fire].state = "failed" => runs[r].state \in Terminal
        /\ fires[runs[r].fire].run = 0 =>
             \/ runs[r].state \in Terminal
             \/ phase = "down"
             \/ phase = "pump" /\ runs[r].fire = job.fire

\* What was told of each fire, and of what each card tells.
ToldFires ==
    \A key \in DOMAIN fires : fires[key].state = "delivered" =>
        /\ fires[key].run # 0 /\ Outcome(key) \in Terminal
        /\ Outcome(key) = "cancelled" \/ Carded(fires[key].run)
ToldCards ==
    \A i \in 1..Len(cards) : cards[i].by = "schedule" =>
        /\ cards[i].fire \in FireKeys /\ Known(cards[i].fire)
        /\ cards[i].run # 0 =>
             cards[i].run \in 1..Len(runs) /\ runs[cards[i].run].fire = cards[i].fire
        /\ cards[i].run = 0 /\ cards[i].fire \in DOMAIN fires => fires[cards[i].fire].state = "failed"

\* What is owed: each occurrence since a schedule was armed is covered.
Covered(s, t) ==
    \/ <<s, t>> \in DOMAIN fires
    \/ schedules[s].due # None /\ schedules[s].due <= t
    \/ \E key \in DOMAIN fires : key[1] = s /\ fires[key].owed <= t /\ t <= key[2]
Armed(s) ==
    /\ schedules[s].exists /\ schedules[s].on /\ ~schedules[s].torn
    /\ ~(phase = "rearm" /\ s \in todo)
Clockwork ==
    /\ \A key \in DOMAIN fires : fires[key].pass = "tick" => key[2] \in FirstReadings
    /\ \A s \in Schedules, spec \in Specs : Armed(s) /\ schedules[s].spec = spec =>
         /\ schedules[s].due \in Occurrences(spec) \cup {None}
         /\ \A t \in Occurrences(spec) : schedules[s].since < t => Covered(s, t)

Lasting == Owners /\ Unlinked /\ ToldFires /\ ToldCards /\ OneCardPerFire
Walking == Labelled /\ Todo /\ InHand
Inv == Shapes /\ Walking /\ Lasting /\ Clockwork

-----------------------------------------------------------------------------
(* Keys, rows and what the writes of the store do to them.                 *)

LEMMA KeyIs ==
    ASSUME NEW key \in FireKeys
    PROVE  key[1] \in Schedules /\ key[2] \in Instants /\ key = <<key[1], key[2]>> /\ key # NoKey
  <1>1. key[1] \in Schedules /\ key[2] \in Instants /\ key = <<key[1], key[2]>>
    BY DEF FireKeys
  <1>2. Len(NoKey) = 0 /\ Len(<<key[1], key[2]>>) = 2
    BY DEF NoKey
  <1> QED
    BY <1>1, <1>2

LEMMA KeyOf ==
    ASSUME NEW s \in Schedules, NEW t \in Instants
    PROVE  <<s, t>> \in FireKeys /\ <<s, t>>[1] = s /\ <<s, t>>[2] = t
  BY DEF FireKeys

LEMMA StatesApart ==
    /\ RunStates = {"succeeded", "failed", "cancelled", "timed_out", "lost", "queued", "running",
                    "needs_you"}
    /\ \A state \in RunStates : state \in Open <=> state \notin Terminal
  BY DEF RunStates, Terminal, Open

\* settle_fire writes one state.
LEMMA SettleIs ==
    ASSUME DOMAIN fires \subseteq FireKeys, fires \in [DOMAIN fires -> Fires],
           NEW key \in DOMAIN fires, NEW state \in FireStates, Settle(key, state)
    PROVE  /\ DOMAIN fires' = DOMAIN fires /\ fires' \in [DOMAIN fires' -> Fires]
           /\ \A k \in DOMAIN fires :
                /\ fires'[k].run = fires[k].run /\ fires'[k].pass = fires[k].pass
                /\ fires'[k].owed = fires[k].owed
                /\ fires'[k].state = IF k = key THEN state ELSE fires[k].state
  BY DEF Settle, Fires

LEMMA FireLinked ==
    ASSUME DOMAIN fires \subseteq FireKeys, fires \in [DOMAIN fires -> Fires],
           NEW key \in DOMAIN fires, NEW r \in Nat, fires' = [fires EXCEPT ![key].run = r]
    PROVE  /\ DOMAIN fires' = DOMAIN fires /\ fires' \in [DOMAIN fires' -> Fires]
           /\ \A k \in DOMAIN fires :
                /\ fires'[k].state = fires[k].state /\ fires'[k].pass = fires[k].pass
                /\ fires'[k].owed = fires[k].owed
                /\ fires'[k].run = IF k = key THEN r ELSE fires[k].run
  BY DEF Fires

\* The schedule's clock is one field of its row.
LEMMA RowArmed ==
    ASSUME schedules \in [Schedules -> Rows], NEW s \in Schedules,
           NEW due \in FirstReadings \cup {None}, schedules' = [schedules EXCEPT ![s].due = due]
    PROVE  /\ schedules' \in [Schedules -> Rows]
           /\ \A x \in Schedules :
                /\ schedules'[x].exists = schedules[x].exists /\ schedules'[x].on = schedules[x].on
                /\ schedules'[x].spec = schedules[x].spec
                /\ schedules'[x].since = schedules[x].since
                /\ schedules'[x].torn = schedules[x].torn /\ schedules'[x].gone = schedules[x].gone
                /\ schedules'[x].due = IF x = s THEN due ELSE schedules[x].due
  BY DEF Rows

LEMMA ClaimIs ==
    ASSUME DOMAIN fires \subseteq FireKeys, fires \in [DOMAIN fires -> Fires],
           schedules \in [Schedules -> Rows], NEW s \in Schedules, NEW plan,
           plan.fire \in BOOLEAN, plan.due \in Instants, plan.skipped \in Int,
           NEW next \in FirstReadings \cup {None}, NEW pass \in {"tick", "hand"},
           pass = "tick" => schedules[s].due # None,
           <<s, plan.due>> \notin DOMAIN fires, Claim(s, plan, next, pass)
    PROVE  LET key == <<s, plan.due>>
           IN /\ key \in FireKeys /\ DOMAIN fires' = DOMAIN fires \cup {key}
              /\ fires' \in [DOMAIN fires' -> Fires]
              /\ \A k \in DOMAIN fires : k # key /\ fires'[k] = fires[k]
              /\ fires'[key].state = IF plan.fire THEN "dispatched" ELSE "skipped"
              /\ fires'[key].run = 0 /\ fires'[key].pass = pass
              /\ fires'[key].owed = IF pass = "tick" THEN schedules[s].due ELSE plan.due
  <1> DEFINE key == <<s, plan.due>>
             row == [state |-> IF plan.fire THEN "dispatched" ELSE "skipped",
                     run |-> 0, skipped |-> plan.skipped, pass |-> pass,
                     owed |-> IF pass = "tick" THEN schedules[s].due ELSE plan.due]
  <1>1. key \in FireKeys
    BY KeyOf
  <1>2. plan.due \in Int /\ (pass = "tick" => schedules[s].due \in Int)
    <2>1. schedules[s].due \in FirstReadings \cup {None}
      BY DEF Rows
    <2> QED
      BY <2>1, LocalTimes, NoneIsNoTime DEF FirstReadings
  <1>3. row \in Fires
    BY <1>2 DEF Fires, FireStates
  <1> HIDE DEF row
  <1>4. fires' = [k \in DOMAIN fires \cup {key} |-> IF k \in DOMAIN fires THEN fires[k] ELSE row]
    BY DEF Claim, row
  <1> HIDE DEF key
  <1>5. key \notin DOMAIN fires
    BY DEF key
  <1>6. /\ DOMAIN fires' = DOMAIN fires \cup {key} /\ fires'[key] = row
        /\ \A k \in DOMAIN fires : k # key /\ fires'[k] = fires[k]
    BY <1>4, <1>5
  <1>7. fires' \in [DOMAIN fires' -> Fires]
    BY <1>3, <1>4
  <1> QED
    BY <1>1, <1>6, <1>7 DEF key, row

\* A run moves, or all do; none is added, and what is over stays so.
RunsGoOn ==
    /\ runs' \in Seq(Runs) /\ Len(runs') = Len(runs)
    /\ \A r \in 1..Len(runs) :
         /\ runs'[r].fire = runs[r].fire /\ runs'[r].bot = runs[r].bot
         /\ runs[r].state \in Terminal => runs'[r].state = runs[r].state

\* The cards that are added, if any, are of threads.
ThreadsTell ==
    /\ cards' \in Seq(Cards) /\ Len(cards) <= Len(cards')
    /\ \A i \in 1..Len(cards') :
         IF i <= Len(cards) THEN cards'[i] = cards[i] ELSE cards'[i].by = "thread"

LEMMA RunMoves ==
    ASSUME runs \in Seq(Runs), NEW r \in 1..Len(runs), NEW state \in RunStates,
           runs[r].state \notin Terminal, runs' = [runs EXCEPT ![r].state = state]
    PROVE  RunsGoOn
  <1>1. Len(runs) \in Nat /\ \A q \in 1..Len(runs) : runs[q] \in Runs
    BY LenProperties, ElementOfSeq
  <1> DEFINE moved == [bot |-> runs[r].bot, state |-> state, fire |-> runs[r].fire]
  <1>2. runs' = [runs EXCEPT ![r] = moved] /\ moved \in Runs
    <2>1. runs[r] \in [bot : Bots, state : RunStates, fire : FireKeys \cup {NoKey}]
      BY <1>1 DEF Runs
    <2>2. moved = [runs[r] EXCEPT !.state = state]
      BY <2>1
    <2>3. moved \in Runs
      BY <2>1 DEF Runs
    <2> QED
      BY <2>2, <2>3
  <1> HIDE DEF moved
  <1>3. /\ runs' \in Seq(Runs) /\ Len(runs') = Len(runs)
        /\ \A q \in 1..Len(runs) : runs'[q] = IF q = r THEN moved ELSE runs[q]
    BY <1>2, ExceptSeq
  <1> QED
    BY <1>3 DEF RunsGoOn, moved

LEMMA Rested ==
    ASSUME runs \in Seq(Runs), UNCHANGED runs
    PROVE  RunsGoOn
  BY DEF RunsGoOn

LEMMA Silent ==
    ASSUME cards \in Seq(Cards), UNCHANGED cards
    PROVE  ThreadsTell
  BY LenProperties DEF ThreadsTell

LEMMA CardAdded ==
    ASSUME cards \in Seq(Cards), NEW card \in Cards, cards' = Append(cards, card)
    PROVE  /\ cards' \in Seq(Cards) /\ Len(cards) \in Nat /\ Len(cards') = Len(cards) + 1
           /\ \A i \in 1..Len(cards) : cards'[i] = cards[i]
           /\ cards'[Len(cards) + 1] = card
  <1>1. Len(cards) \in Nat
    BY LenProperties
  <1> QED
    BY <1>1, AppendProperties

LEMMA ThreadCard ==
    ASSUME cards \in Seq(Cards), NEW r \in Nat, NEW kind \in Reasons,
           cards' = Append(cards, Card(r, NoKey, kind, "thread"))
    PROVE  ThreadsTell
  <1> DEFINE card == Card(r, NoKey, kind, "thread")
  <1>1. card \in Cards /\ card.by = "thread"
    BY DEF Cards, Card
  <1> HIDE DEF card
  <1>2. /\ cards' \in Seq(Cards) /\ Len(cards) \in Nat /\ Len(cards') = Len(cards) + 1
        /\ \A i \in 1..Len(cards) : cards'[i] = cards[i]
        /\ cards'[Len(cards) + 1] = card
    BY <1>1, CardAdded DEF card
  <1>3. ASSUME NEW i \in 1..Len(cards')
        PROVE  IF i <= Len(cards) THEN cards'[i] = cards[i] ELSE cards'[i].by = "thread"
    BY <1>1, <1>2
  <1> QED
    BY <1>2, <1>3 DEF ThreadsTell

LEMMA RowsComeBack ==
    ASSUME NEW row \in ThreadRows
    PROVE  /\ \A reason \in Reasons : Bare(Resurface(row, reason)) \in ThreadRows
           /\ \A state \in ThreadStates : MoveTo(row, state) \in ThreadRows
  <1>1. ASSUME NEW reason \in Reasons PROVE Resurface(row, reason) \in ThreadRows
    <2>1. CASE CanResurface(row, reason)
      BY <2>1 DEF Resurface, ThreadRows, ThreadStates, Reasons
    <2>2. CASE ~CanResurface(row, reason)
      BY <2>2 DEF Resurface
    <2> QED
      BY <2>1, <2>2
  <1>2. \A other \in ThreadRows : Bare(other) \in ThreadRows
    BY DEF Bare, ThreadRows
  <1>3. \A state \in ThreadStates : MoveTo(row, state) \in ThreadRows
    BY DEF MoveTo, ThreadRows
  <1> QED
    BY <1>1, <1>2, <1>3

LEMMA SurfaceIs ==
    ASSUME threads \in [Bots -> ThreadRows], cards \in Seq(Cards),
           NEW b \in Bots, NEW reason \in Reasons, NEW r \in Nat, Surface(b, reason, r)
    PROVE  threads' \in [Bots -> ThreadRows] /\ ThreadsTell
  <1>1. threads' \in [Bots -> ThreadRows]
    BY RowsComeBack DEF Surface
  <1>2. ThreadsTell
    BY ThreadCard, Silent DEF Surface
  <1> QED
    BY <1>1, <1>2

\* What a schedule owes: the fire is the newest occurrence, or the due one.
LEMMA PlanIs ==
    ASSUME NEW spec, NEW due, NEW at, NEW policy, NEW plan \in Plans(spec, due, at, policy)
    PROVE  /\ plan.fire \in BOOLEAN /\ plan.skipped \in Int
           /\ plan.skipped = IF plan.fire THEN Counted(spec, due, at) - 1 ELSE Counted(spec, due, at)
           /\ plan.due = Latest(PrevAtOrBefore(spec, at), due)
           /\ plan.next = NextAfter(spec, at)
  <1> DEFINE owed == Collapse(spec, due, at)
  <1>1. plan = Ruling(owed, at - owed.latest, policy)
    BY DEF Plans
  <1>2. owed.occurrences \in Int
    <2>1. owed.occurrences = Counted(spec, due, at)
      BY DEF Collapse
    <2>2. PICK f : Counted(spec, due, at) = Cardinality({n \in 1..MaxScan : f[n] # None})
      BY DEF Counted
    <2>3. IsFiniteSet(1..MaxScan)
      <3>1. MaxScan \in Int
        BY ScheduleAssumption
      <3> QED
        BY <3>1, FS_Interval
    <2>4. Cardinality({n \in 1..MaxScan : f[n] # None}) \in Nat
      BY <2>3, FS_Subset, FS_CardinalityType
    <2> QED
      BY <2>1, <2>2, <2>4
  <1>3. /\ owed.latest = Latest(PrevAtOrBefore(spec, at), due) /\ owed.next = NextAfter(spec, at)
        /\ owed.occurrences = Counted(spec, due, at)
    BY DEF Collapse
  <1> HIDE DEF owed
  <1>4. /\ plan.fire \in BOOLEAN /\ plan.due = owed.latest /\ plan.next = owed.next
        /\ plan.skipped = IF plan.fire THEN owed.occurrences - 1 ELSE owed.occurrences
    BY <1>1 DEF Ruling
  <1>5. plan.skipped \in Int
    BY <1>2, <1>4
  <1> QED
    BY <1>3, <1>4, <1>5

-----------------------------------------------------------------------------
(* What stands whatever the runs and the threads do.                       *)

LEMMA OwnersStand ==
    ASSUME Owners, UNCHANGED <<schedules, fires>>, RunsGoOn
    PROVE  Owners'
  BY DEF Owners, Known, RunsGoOn

LEMMA UnlinkedStands ==
    ASSUME Unlinked, UNCHANGED fires, RunsGoOn,
           phase \notin {"down", "pump"} \/ UNCHANGED <<phase, job>>
    PROVE  Unlinked'
  BY DEF Unlinked, RunsGoOn

LEMMA ToldStands ==
    ASSUME Owners, ToldFires, ToldCards, OneCardPerFire,
           cards \in Seq(Cards), UNCHANGED <<schedules, fires>>, RunsGoOn, ThreadsTell
    PROVE  ToldFires' /\ ToldCards' /\ OneCardPerFire'
  <1>0. Len(cards) \in Nat /\ Len(cards') \in Nat
    BY LenProperties DEF ThreadsTell
  <1>1. ToldFires'
    <2> SUFFICES ASSUME NEW key \in DOMAIN fires', (fires[key].state = "delivered")'
                 PROVE  (/\ fires[key].run # 0 /\ Outcome(key) \in Terminal
                         /\ Outcome(key) = "cancelled" \/ Carded(fires[key].run))'
      BY DEF ToldFires
    <2>1. /\ fires[key].run # 0 /\ fires[key].run \in 1..Len(runs)
          /\ runs[fires[key].run].state \in Terminal
          /\ \/ runs[fires[key].run].state = "cancelled"
             \/ \E i \in 1..Len(cards) : cards[i].run = fires[key].run
      BY DEF ToldFires, Owners, Outcome, Carded
    <2>2. runs'[fires[key].run].state = runs[fires[key].run].state
      BY <2>1 DEF RunsGoOn
    <2>3. ASSUME NEW i \in 1..Len(cards) PROVE i \in 1..Len(cards') /\ cards'[i] = cards[i]
      BY <1>0 DEF ThreadsTell
    <2> QED
      BY <2>1, <2>2, <2>3 DEF Outcome, Carded
  <1>2. \A i \in 1..Len(cards') : cards'[i].by = "schedule" => i \in 1..Len(cards) /\ cards'[i] = cards[i]
    BY <1>0 DEF ThreadsTell
  <1>3. ToldCards'
    <2> SUFFICES ASSUME NEW i \in 1..Len(cards'), cards'[i].by = "schedule"
                 PROVE  (/\ cards[i].fire \in FireKeys /\ Known(cards[i].fire)
                         /\ cards[i].run # 0 =>
                              /\ cards[i].run \in 1..Len(runs)
                              /\ runs[cards[i].run].fire = cards[i].fire
                         /\ cards[i].run = 0 /\ cards[i].fire \in DOMAIN fires
                              => fires[cards[i].fire].state = "failed")'
      BY DEF ToldCards
    <2> QED
      BY <1>2 DEF ToldCards, Known, RunsGoOn
  <1>4. OneCardPerFire'
    <2> SUFFICES ASSUME NEW i \in 1..Len(cards'), NEW j \in 1..Len(cards'),
                        cards'[j].by = "schedule", i < j
                 PROVE  /\ cards'[i].by = "schedule" => cards'[i].fire # cards'[j].fire
                        /\ cards'[j].run = 0 \/ cards'[i].run # cards'[j].run
      BY DEF OneCardPerFire
    <2>1. i \in 1..Len(cards) /\ j \in 1..Len(cards) /\ cards'[j] = cards[j]
      BY <1>0, <1>2
    <2>2. cards'[i] = cards[i]
      BY <1>0, <2>1 DEF ThreadsTell
    <2> QED
      BY <2>1, <2>2 DEF OneCardPerFire
  <1> QED
    BY <1>1, <1>3, <1>4

\* A fire that is settled has what its outcome asks for.
LEMMA SettleStands ==
    ASSUME Shapes, Owners, Unlinked, ToldFires, ToldCards, OneCardPerFire,
           NEW key \in Undelivered, NEW state \in FireStates \ {"dispatched"}, Settle(key, state),
           UNCHANGED <<schedules, runs, cards>>,
           phase \notin {"down", "pump"},
           state = "failed" => \A r \in 1..Len(runs) : runs[r].fire = key => runs[r].state \in Terminal,
           state = "delivered" =>
              /\ fires[key].run # 0 /\ Outcome(key) \in Terminal
              /\ Outcome(key) = "cancelled" \/ Carded(fires[key].run)
    PROVE  Owners' /\ Unlinked' /\ ToldFires' /\ ToldCards' /\ OneCardPerFire'
  <1>1. key \in DOMAIN fires /\ fires[key].state = "dispatched"
    BY DEF Undelivered
  <1>2. /\ DOMAIN fires' = DOMAIN fires /\ fires' \in [DOMAIN fires' -> Fires]
        /\ \A k \in DOMAIN fires :
             /\ fires'[k].run = fires[k].run /\ fires'[k].pass = fires[k].pass
             /\ fires'[k].owed = fires[k].owed
             /\ fires'[k].state = IF k = key THEN state ELSE fires[k].state
    BY <1>1, SettleIs DEF Shapes
  <1>3. Owners'
    BY <1>2 DEF Owners, Known
  <1>4. Unlinked'
    BY <1>1, <1>2 DEF Unlinked
  <1>5. ToldFires'
    BY <1>1, <1>2 DEF ToldFires, Outcome, Carded
  <1>6. ToldCards'
    BY <1>1, <1>2 DEF ToldCards, Known
  <1>7. OneCardPerFire'
    BY DEF OneCardPerFire
  <1> QED
    BY <1>3, <1>4, <1>5, <1>6, <1>7

\* The clocks stand while the rows do and no update is cut in two.
LEMMA ClockStands ==
    ASSUME Clockwork, UNCHANGED schedules, DOMAIN fires' = DOMAIN fires,
           \A k \in DOMAIN fires : fires'[k].pass = fires[k].pass /\ fires'[k].owed = fires[k].owed,
           phase # "rearm"
    PROVE  Clockwork'
  <1>1. ASSUME NEW s \in Schedules, Armed(s)' PROVE Armed(s)
    BY <1>1 DEF Armed
  <1>2. ASSUME NEW s \in Schedules, NEW t, Covered(s, t) PROVE Covered(s, t)'
    BY <1>2 DEF Covered
  <1>3. \A key \in DOMAIN fires' : fires'[key].pass = "tick" => key[2] \in FirstReadings
    BY DEF Clockwork
  <1>4. ASSUME NEW s \in Schedules, NEW spec \in Specs, Armed(s)', schedules'[s].spec = spec,
               NEW t \in Occurrences(spec), schedules'[s].since < t
        PROVE  Covered(s, t)'
    BY <1>1, <1>2, <1>4 DEF Clockwork
  <1>5. ASSUME NEW s \in Schedules, NEW spec \in Specs, Armed(s)', schedules'[s].spec = spec
        PROVE  schedules'[s].due \in Occurrences(spec) \cup {None}
    BY <1>1, <1>5 DEF Clockwork
  <1> QED
    BY <1>3, <1>4, <1>5 DEF Clockwork

-----------------------------------------------------------------------------
(* The steps of a pass that write nothing.                                 *)

LEMMA DiskStands ==
    ASSUME Inv, UNCHANGED disk, phase # "rearm",
           phase \notin {"down", "pump"} \/ UNCHANGED <<phase, job>>
    PROVE  Lasting' /\ Clockwork'
  <1>1. UNCHANGED <<schedules, fires, runs, threads, cards>>
    BY DEF disk
  <1>2. RunsGoOn /\ ThreadsTell
    BY <1>1, Rested, Silent DEF Inv, Shapes
  <1>3. Lasting'
    BY <1>1, <1>2, OwnersStand, UnlinkedStands, ToldStands DEF Inv, Shapes, Lasting
  <1>4. Clockwork'
    BY <1>1, ClockStands DEF Inv
  <1> QED
    BY <1>3, <1>4

LEMMA TickKeeps ==
    ASSUME Inv, Tick
    PROVE  Inv'
  <1>1. Lasting' /\ Clockwork'
    BY DiskStands DEF Tick, Idle
  <1>2. Shapes'
    BY DEF Inv, Shapes, Tick, disk, NoJob, Phases
  <1>3. Walking'
    BY DEF Inv, Walking, Labelled, Todo, InHand, Tick, disk, NoJob, Idle, Working, Undelivered
  <1> QED
    BY <1>1, <1>2, <1>3 DEF Inv

LEMMA StillRunningKeeps ==
    ASSUME Inv, NEW key \in DOMAIN fires, StillRunning(key)
    PROVE  Inv'
  <1>1. Lasting' /\ Clockwork'
    BY DiskStands DEF StillRunning, NextToDeliver
  <1>2. Shapes'
    BY DEF Inv, Shapes, StillRunning, disk
  <1>3. Walking'
    BY DEF Inv, Walking, Labelled, Todo, InHand, StillRunning, NextToDeliver, disk, Working,
           Undelivered
  <1> QED
    BY <1>1, <1>2, <1>3 DEF Inv

LEMMA DeliveredKeeps ==
    ASSUME Inv, Delivered
    PROVE  Inv'
  <1>1. Lasting' /\ Clockwork'
    BY DiskStands DEF Delivered
  <1>2. Shapes'
    <2>1. NoJob \in [fire : FireKeys \cup {NoKey}, at : 0..MaxTime,
                     pass : {"none", "tick", "boot", "hand"}]
      BY ScheduleAssumption DEF NoJob
    <2> QED
      BY <2>1 DEF Inv, Shapes, Delivered, disk, Phases
  <1>3. Walking'
    <2>1. Due(job.at) \subseteq Owing
      BY DEF Due, Owing
    <2>2. Labelled' /\ InHand'
      BY DEF Inv, Walking, Labelled, InHand, Delivered, disk, Working
    <2>3. Todo'
      <3>1. phase' = "rule" => Owing' = Owing
        BY DEF Owing, Delivered, disk
      <3> QED
        BY <2>1, <3>1 DEF Inv, Walking, Todo, Delivered, disk, Working
    <2> QED
      BY <2>2, <2>3 DEF Walking
  <1> QED
    BY <1>1, <1>2, <1>3 DEF Inv

LEMMA RuledKeeps ==
    ASSUME Inv, Ruled
    PROVE  Inv'
  <1>1. Lasting' /\ Clockwork'
    BY DiskStands DEF Ruled
  <1>2. Shapes'
    <2>1. NoJob \in [fire : FireKeys \cup {NoKey}, at : 0..MaxTime,
                     pass : {"none", "tick", "boot", "hand"}]
      BY ScheduleAssumption DEF NoJob
    <2> QED
      BY <2>1 DEF Inv, Shapes, Ruled, disk, Phases
  <1>3. Walking'
    BY DEF Inv, Walking, Labelled, Todo, InHand, Ruled, disk, Working
  <1> QED
    BY <1>1, <1>2, <1>3 DEF Inv

LEMMA LabelKeeps ==
    ASSUME Inv, Label
    PROVE  Inv'
  <1>1. Lasting' /\ Clockwork'
    BY DiskStands DEF Label
  <1>2. Shapes'
    BY LenProperties DEF Inv, Shapes, Label, disk, Phases, Working
  <1>3. Walking'
    BY DEF Inv, Walking, Labelled, Todo, InHand, Label, disk, Working, Owing, NoRun
  <1> QED
    BY <1>1, <1>2, <1>3 DEF Inv

LEMMA TimeKeeps ==
    ASSUME Inv, TimePasses
    PROVE  Inv'
  <1>1. phase \in {"down", "idle"} /\ UNCHANGED <<phase, job>>
    BY DEF TimePasses, Idle
  <1>2. Lasting' /\ Clockwork'
    BY <1>1, DiskStands DEF TimePasses
  <1>3. Shapes'
    BY ScheduleAssumption DEF Inv, Shapes, TimePasses, disk
  <1>4. Walking'
    BY <1>1 DEF Inv, Walking, Labelled, Todo, InHand, TimePasses, disk, Working
  <1> QED
    BY <1>2, <1>3, <1>4 DEF Inv

-----------------------------------------------------------------------------
(* The steps that settle a fire.                                           *)

LEMMA SettledClock ==
    ASSUME Inv, NEW key \in DOMAIN fires, NEW state \in FireStates, Settle(key, state),
           UNCHANGED schedules, phase # "rearm"
    PROVE  /\ Clockwork'
           /\ DOMAIN fires' = DOMAIN fires /\ fires' \in [DOMAIN fires' -> Fires]
           /\ \A k \in DOMAIN fires :
                /\ fires'[k].run = fires[k].run
                /\ fires'[k].state = IF k = key THEN state ELSE fires[k].state
  <1>1. /\ DOMAIN fires' = DOMAIN fires /\ fires' \in [DOMAIN fires' -> Fires]
        /\ \A k \in DOMAIN fires :
             /\ fires'[k].run = fires[k].run /\ fires'[k].pass = fires[k].pass
             /\ fires'[k].owed = fires[k].owed
             /\ fires'[k].state = IF k = key THEN state ELSE fires[k].state
    BY SettleIs DEF Inv, Shapes
  <1>2. Clockwork'
    BY <1>1, ClockStands DEF Inv
  <1> QED
    BY <1>1, <1>2

LEMMA NoRunToWatchKeeps ==
    ASSUME Inv, NEW key \in DOMAIN fires, NoRunToWatch(key)
    PROVE  Inv'
  <1>1. /\ phase = "deliver" /\ key \in todo /\ fires[key].run = 0 /\ Settle(key, "failed")
        /\ todo' = todo \ {key}
        /\ UNCHANGED <<now, schedules, runs, threads, cards, phase, job, pending, claimed, spent>>
    BY DEF NoRunToWatch, NextToDeliver
  <1>2. key \in Undelivered /\ "failed" \in FireStates \ {"dispatched"}
    BY <1>1 DEF Inv, Walking, Todo, FireStates
  <1>3. \A r \in 1..Len(runs) : runs[r].fire = key => runs[r].state \in Terminal
    BY <1>1 DEF Inv, Lasting, Unlinked
  <1>4. Lasting'
    BY <1>1, <1>2, <1>3, SettleStands DEF Inv, Lasting
  <1>5. /\ Clockwork'
        /\ DOMAIN fires' = DOMAIN fires /\ fires' \in [DOMAIN fires' -> Fires]
        /\ \A k \in DOMAIN fires :
             /\ fires'[k].run = fires[k].run
             /\ fires'[k].state = IF k = key THEN "failed" ELSE fires[k].state
    BY <1>1, <1>2, SettledClock
  <1>6. Shapes'
    BY <1>1, <1>5 DEF Inv, Shapes
  <1>7. Walking'
    BY <1>1, <1>5 DEF Inv, Walking, Labelled, Todo, InHand, Working, Undelivered
  <1> QED
    BY <1>4, <1>5, <1>6, <1>7 DEF Inv

LEMMA DeliverQuietlyKeeps ==
    ASSUME Inv, NEW key \in DOMAIN fires, DeliverQuietly(key)
    PROVE  Inv'
  <1>1. /\ phase = "deliver" /\ key \in todo /\ fires[key].run # 0 /\ Outcome(key) = "cancelled"
        /\ Settle(key, "delivered") /\ todo' = todo \ {key}
        /\ UNCHANGED <<now, schedules, runs, threads, cards, phase, job, pending, claimed, spent>>
    BY DEF DeliverQuietly, NextToDeliver
  <1>2. key \in Undelivered /\ "delivered" \in FireStates \ {"dispatched"}
    BY <1>1 DEF Inv, Walking, Todo, FireStates
  <1>3. "cancelled" \in Terminal
    BY DEF Terminal
  <1>4. Lasting'
    BY <1>1, <1>2, <1>3, SettleStands DEF Inv, Lasting
  <1>5. /\ Clockwork'
        /\ DOMAIN fires' = DOMAIN fires /\ fires' \in [DOMAIN fires' -> Fires]
        /\ \A k \in DOMAIN fires :
             /\ fires'[k].run = fires[k].run
             /\ fires'[k].state = IF k = key THEN "delivered" ELSE fires[k].state
    BY <1>1, <1>2, SettledClock
  <1>6. Shapes'
    BY <1>1, <1>5 DEF Inv, Shapes
  <1>7. Walking'
    BY <1>1, <1>5 DEF Inv, Walking, Labelled, Todo, InHand, Working, Undelivered
  <1> QED
    BY <1>4, <1>5, <1>6, <1>7 DEF Inv

LEMMA SettleCardedKeeps ==
    ASSUME Inv, SettleCarded
    PROVE  Inv'
  <1> DEFINE key == job.fire
  <1>1. /\ phase = "carded" /\ Settle(key, "delivered") /\ phase' = "deliver"
        /\ todo' = todo \ {key} /\ job' = [job EXCEPT !.fire = NoKey]
        /\ UNCHANGED <<now, schedules, runs, threads, cards, pending, claimed, spent>>
    BY DEF SettleCarded
  <1>2. /\ key \in todo /\ fires[key].run # 0
        /\ Outcome(key) \in Terminal \ {"cancelled"} /\ Carded(fires[key].run)
    BY <1>1 DEF Inv, Walking, InHand
  <1>3. key \in Undelivered /\ key \in DOMAIN fires /\ "delivered" \in FireStates \ {"dispatched"}
    BY <1>1, <1>2 DEF Inv, Walking, Todo, FireStates, Undelivered
  <1>4. job'.pass = job.pass /\ job' \in [fire : FireKeys \cup {NoKey}, at : 0..MaxTime,
                                          pass : {"none", "tick", "boot", "hand"}]
    BY <1>1 DEF Inv, Shapes
  <1> HIDE DEF key
  <1>5. Lasting'
    BY <1>1, <1>2, <1>3, SettleStands DEF Inv, Lasting
  <1>6. /\ Clockwork'
        /\ DOMAIN fires' = DOMAIN fires /\ fires' \in [DOMAIN fires' -> Fires]
        /\ \A k \in DOMAIN fires :
             /\ fires'[k].run = fires[k].run
             /\ fires'[k].state = IF k = key THEN "delivered" ELSE fires[k].state
    BY <1>1, <1>3, SettledClock
  <1>7. Shapes'
    BY <1>1, <1>4, <1>6 DEF Inv, Shapes, Phases
  <1>8. Walking'
    BY <1>1, <1>4, <1>6 DEF Inv, Walking, Labelled, Todo, InHand, Working, Undelivered
  <1> QED
    BY <1>5, <1>6, <1>7, <1>8 DEF Inv

\* Back in the pass, or out of it.
LEMMA ResumedIs ==
    ASSUME Inv, phase \in Working, Resumed
    PROVE  /\ phase' \in {"idle", "rule"}
           /\ phase' = "rule" => job.pass = "tick" /\ job'.pass = "tick" /\ job'.at = job.at
           /\ job' \in [fire : FireKeys \cup {NoKey}, at : 0..MaxTime,
                        pass : {"none", "tick", "boot", "hand"}]
  <1>1. NoJob \in [fire : FireKeys \cup {NoKey}, at : 0..MaxTime,
                   pass : {"none", "tick", "boot", "hand"}]
    BY ScheduleAssumption DEF NoJob
  <1>2. job.pass \in {"tick", "hand"} /\ job \in [fire : FireKeys \cup {NoKey}, at : 0..MaxTime,
                                                  pass : {"none", "tick", "boot", "hand"}]
    BY DEF Inv, Walking, Todo, Shapes
  <1> QED
    BY <1>1, <1>2 DEF Resumed

LEMMA NotSentKeeps ==
    ASSUME Inv, NoThread \/ BotBusy
    PROVE  Inv'
  <1> DEFINE key == job.fire
  <1>1. PICK state \in {"failed", "skipped"} : Settle(key, state)
    BY DEF NoThread, BotBusy
  <1>2. /\ phase = "target" /\ Resumed
        /\ UNCHANGED <<now, schedules, runs, threads, cards, todo, pending, claimed, spent>>
    BY DEF NoThread, BotBusy
  <1>3. key \in DOMAIN fires /\ key \in Undelivered /\ state \in FireStates \ {"dispatched"}
        /\ NoRun(key) /\ phase \in Working
    BY <1>2 DEF Inv, Walking, InHand, Working, FireStates, Undelivered
  <1>4. \A r \in 1..Len(runs) : runs[r].fire = key => runs[r].state \in Terminal
    BY <1>3 DEF NoRun
  <1>5. /\ phase' \in {"idle", "rule"}
        /\ phase' = "rule" => job.pass = "tick" /\ job'.pass = "tick" /\ job'.at = job.at
        /\ job' \in [fire : FireKeys \cup {NoKey}, at : 0..MaxTime,
                     pass : {"none", "tick", "boot", "hand"}]
    BY <1>2, <1>3, ResumedIs
  <1> HIDE DEF key
  <1>6. Lasting'
    BY <1>1, <1>2, <1>3, <1>4, SettleStands DEF Inv, Lasting
  <1>7. /\ Clockwork'
        /\ DOMAIN fires' = DOMAIN fires /\ fires' \in [DOMAIN fires' -> Fires]
        /\ \A k \in DOMAIN fires :
             /\ fires'[k].run = fires[k].run
             /\ fires'[k].state = IF k = key THEN state ELSE fires[k].state
    BY <1>1, <1>2, <1>3, SettledClock
  <1>8. Shapes'
    BY <1>2, <1>5, <1>7 DEF Inv, Shapes, Phases
  <1>9. Walking'
    BY <1>2, <1>5 DEF Inv, Walking, Labelled, Todo, InHand, Working, Owing
  <1> QED
    BY <1>6, <1>7, <1>8, <1>9 DEF Inv

\* No card tells of a fire that is dispatched and has no run.
LEMMA NotTold ==
    ASSUME Inv, NEW key \in DOMAIN fires, fires[key].state = "dispatched", NoRun(key)
    PROVE  NoCard(key)
  BY DEF Inv, Lasting, ToldCards, NoRun, NoCard

LEMMA RefusedKeeps ==
    ASSUME Inv, Refused
    PROVE  Inv'
  <1> DEFINE key == job.fire
  <1>1. /\ phase = "send" /\ Settle(key, "failed") /\ phase' = "refused" /\ pending' = NoKey
        /\ UNCHANGED <<now, schedules, runs, threads, cards, todo, job, claimed, spent>>
    BY DEF Refused
  <1>2. key \in DOMAIN fires /\ key \in Undelivered /\ "failed" \in FireStates \ {"dispatched"}
        /\ NoRun(key) /\ fires[key].state = "dispatched" /\ fires[key].run = 0
    BY <1>1 DEF Inv, Walking, InHand, Working, FireStates, Undelivered
  <1>3. \A r \in 1..Len(runs) : runs[r].fire = key => runs[r].state \in Terminal
    BY <1>2 DEF NoRun
  <1>4. NoCard(key)
    BY <1>2, NotTold
  <1>5. job'.fire = key
    BY <1>1
  <1> HIDE DEF key
  <1>6. Lasting'
    BY <1>1, <1>2, <1>3, SettleStands DEF Inv, Lasting
  <1>7. /\ Clockwork'
        /\ DOMAIN fires' = DOMAIN fires /\ fires' \in [DOMAIN fires' -> Fires]
        /\ \A k \in DOMAIN fires :
             /\ fires'[k].run = fires[k].run
             /\ fires'[k].state = IF k = key THEN "failed" ELSE fires[k].state
    BY <1>1, <1>2, SettledClock
  <1>8. Shapes'
    BY <1>1, <1>7 DEF Inv, Shapes, Phases, Working
  <1>9. Labelled' /\ Todo'
    BY <1>1 DEF Inv, Walking, Labelled, Todo, Working, Owing
  <1>10. InHand'
    BY <1>1, <1>2, <1>4, <1>5, <1>7 DEF InHand, Working, NoRun, NoCard
  <1> QED
    BY <1>6, <1>7, <1>8, <1>9, <1>10 DEF Inv, Walking

-----------------------------------------------------------------------------
(* The steps that write a card of the schedule.                            *)

LEMMA CardStands ==
    ASSUME Inv, NEW key \in DOMAIN fires, NEW r \in Nat, NEW kind \in Reasons,
           WriteCard(r, key, kind), UNCHANGED <<schedules, fires, runs>>, phase \notin {"down", "pump"},
           r # 0 => r = fires[key].run /\ fires[key].state = "dispatched",
           r = 0 => fires[key].state = "failed" /\ NoCard(key)
    PROVE  /\ Lasting' /\ cards' \in Seq(Cards)
           /\ r # 0 => \E i \in 1..Len(cards') : cards'[i].run = r
  <1>1. CASE r # 0 /\ Carded(r)
    <2>1. UNCHANGED cards
      BY <1>1 DEF WriteCard
    <2>2. RunsGoOn /\ ThreadsTell
      BY <2>1, Rested, Silent DEF Inv, Shapes
    <2> QED
      BY <1>1, <2>1, <2>2, OwnersStand, UnlinkedStands, ToldStands
      DEF Inv, Shapes, Lasting, Carded
  <1>2. CASE ~(r # 0 /\ Carded(r))
    <2> DEFINE card == Card(r, key, kind, "schedule")
               n == Len(cards) + 1
    <2>1. key \in FireKeys /\ card \in Cards
      BY DEF Inv, Shapes, Card, Cards
    <2>2. /\ card.run = r /\ card.fire = key /\ card.by = "schedule"
      BY DEF Card
    <2> HIDE DEF card
    <2>3. cards' = Append(cards, card)
      BY <1>2 DEF WriteCard, card
    <2>4. /\ cards' \in Seq(Cards) /\ Len(cards) \in Nat /\ Len(cards') = n
          /\ \A i \in 1..Len(cards) : cards'[i] = cards[i]
          /\ cards'[n] = card
      BY <2>1, <2>3, CardAdded DEF Inv, Shapes
    <2>5. /\ n \in 1..n
          /\ \A i \in 1..n : i = n \/ i \in 1..Len(cards)
          /\ \A i \in 1..Len(cards) : i \in 1..n
      BY <2>4
    <2>6. NoCard(key)
      <3> SUFFICES ASSUME r # 0, NEW i \in 1..Len(cards), cards[i].by = "schedule", cards[i].fire = key
                   PROVE  FALSE
        BY DEF NoCard
      <3>1. cards[i].run # 0 /\ cards[i].run \in 1..Len(runs) /\ runs[cards[i].run].fire = key
        BY DEF Inv, Lasting, ToldCards
      <3>2. r \in 1..Len(runs) /\ runs[r].fire = key /\ key # NoKey
        BY <2>1, KeyIs DEF Inv, Lasting, Owners
      <3>3. cards[i].run = r
        BY <3>1, <3>2 DEF Inv, Lasting, Owners
      <3> QED
        BY <1>2, <3>3 DEF Carded
    <2>7. Owners' /\ Unlinked'
      <3>1. RunsGoOn
        BY Rested DEF Inv, Shapes
      <3> QED
        BY <3>1, OwnersStand, UnlinkedStands DEF Inv, Lasting
    <2>8. ToldFires'
      <3> SUFFICES ASSUME NEW k \in DOMAIN fires, fires[k].state = "delivered"
                   PROVE  (/\ fires[k].run # 0 /\ Outcome(k) \in Terminal
                           /\ Outcome(k) = "cancelled" \/ Carded(fires[k].run))'
        BY DEF ToldFires
      <3>1. /\ fires[k].run # 0 /\ Outcome(k) \in Terminal
            /\ \/ Outcome(k) = "cancelled"
               \/ \E i \in 1..Len(cards) : cards[i].run = fires[k].run
        BY DEF Inv, Lasting, ToldFires, Carded
      <3> QED
        BY <2>4, <2>5, <3>1 DEF Outcome, Carded
    <2>9. ToldCards'
      <3> SUFFICES ASSUME NEW i \in 1..n, cards'[i].by = "schedule"
                   PROVE  (/\ cards[i].fire \in FireKeys /\ Known(cards[i].fire)
                           /\ cards[i].run # 0 =>
                                /\ cards[i].run \in 1..Len(runs)
                                /\ runs[cards[i].run].fire = cards[i].fire
                           /\ cards[i].run = 0 /\ cards[i].fire \in DOMAIN fires
                                => fires[cards[i].fire].state = "failed")'
        BY <2>4 DEF ToldCards
      <3>1. CASE i = n
        BY <2>1, <2>2, <2>4, <3>1 DEF Known, Inv, Lasting, Owners
      <3>2. CASE i \in 1..Len(cards)
        BY <2>4, <3>2 DEF Inv, Lasting, ToldCards, Known
      <3> QED
        BY <2>5, <3>1, <3>2
    <2>10. OneCardPerFire'
      <3> SUFFICES ASSUME NEW i \in 1..n, NEW j \in 1..n, cards'[j].by = "schedule", i < j
                   PROVE  /\ cards'[i].by = "schedule" => cards'[i].fire # cards'[j].fire
                          /\ cards'[j].run = 0 \/ cards'[i].run # cards'[j].run
        BY <2>4 DEF OneCardPerFire
      <3>1. i \in 1..Len(cards) /\ cards'[i] = cards[i]
        BY <2>4
      <3>2. CASE j = n
        BY <1>2, <2>2, <2>4, <2>6, <3>1, <3>2 DEF NoCard, Carded
      <3>3. CASE j \in 1..Len(cards)
        BY <2>4, <3>1, <3>3 DEF Inv, Lasting, OneCardPerFire
      <3> QED
        BY <2>5, <3>2, <3>3
    <2> QED
      BY <2>2, <2>4, <2>5, <2>7, <2>8, <2>9, <2>10 DEF Lasting
  <1> QED
    BY <1>1, <1>2

LEMMA DeliverCardKeeps ==
    ASSUME Inv, NEW key \in DOMAIN fires, DeliverCard(key)
    PROVE  Inv'
  <1>1. /\ phase = "deliver" /\ key \in todo /\ fires[key].run # 0
        /\ Outcome(key) \in Terminal \ {"cancelled"}
        /\ phase' = "carded" /\ job' = [job EXCEPT !.fire = key]
        /\ UNCHANGED <<now, schedules, fires, runs, threads, todo, pending, claimed, spent>>
    BY DEF DeliverCard, NextToDeliver
  <1>2. PICK kind \in {"done", "failed"} : WriteCard(fires[key].run, key, kind)
    BY DEF DeliverCard
  <1>3. kind \in Reasons /\ fires[key].run \in Nat /\ fires[key].state = "dispatched" /\ key \in FireKeys
    BY <1>1 DEF Inv, Shapes, Fires, Reasons, Walking, Todo, Undelivered
  <1>4. /\ Lasting' /\ cards' \in Seq(Cards)
        /\ \E i \in 1..Len(cards') : cards'[i].run = fires[key].run
    BY <1>1, <1>2, <1>3, CardStands
  <1>5. Clockwork'
    BY <1>1, ClockStands DEF Inv
  <1>6. job'.fire = key /\ job'.pass = job.pass
        /\ job' \in [fire : FireKeys \cup {NoKey}, at : 0..MaxTime,
                     pass : {"none", "tick", "boot", "hand"}]
    BY <1>1, <1>3 DEF Inv, Shapes
  <1>7. Shapes'
    BY <1>1, <1>4, <1>6 DEF Inv, Shapes, Phases
  <1>8. Labelled' /\ Todo'
    BY <1>1, <1>6 DEF Inv, Walking, Labelled, Todo, Working, Undelivered
  <1>9. InHand'
    BY <1>1, <1>4, <1>6 DEF InHand, Working, Outcome, Carded
  <1> QED
    BY <1>4, <1>5, <1>7, <1>8, <1>9 DEF Inv, Walking

LEMMA RefusedCardKeeps ==
    ASSUME Inv, RefusedCard
    PROVE  Inv'
  <1> DEFINE key == job.fire
  <1>1. /\ phase = "refused" /\ WriteCard(0, key, "failed") /\ Resumed
        /\ UNCHANGED <<now, schedules, fires, runs, threads, todo, pending, claimed, spent>>
    BY DEF RefusedCard
  <1>2. key \in DOMAIN fires /\ fires[key].state = "failed" /\ NoCard(key)
        /\ "failed" \in Reasons /\ phase \in Working
    BY <1>1 DEF Inv, Walking, InHand, Working, Reasons
  <1>3. /\ phase' \in {"idle", "rule"}
        /\ phase' = "rule" => job.pass = "tick" /\ job'.pass = "tick" /\ job'.at = job.at
        /\ job' \in [fire : FireKeys \cup {NoKey}, at : 0..MaxTime,
                     pass : {"none", "tick", "boot", "hand"}]
    BY <1>1, <1>2, ResumedIs
  <1> HIDE DEF key
  <1>4. Lasting' /\ cards' \in Seq(Cards)
    BY <1>1, <1>2, CardStands
  <1>5. Clockwork'
    BY <1>1, ClockStands DEF Inv
  <1>6. Shapes'
    BY <1>1, <1>3, <1>4 DEF Inv, Shapes, Phases
  <1>7. Walking'
    BY <1>1, <1>3 DEF Inv, Walking, Labelled, Todo, InHand, Working, Owing
  <1> QED
    BY <1>4, <1>5, <1>6, <1>7 DEF Inv

-----------------------------------------------------------------------------
(* The steps that claim an occurrence.                                     *)

\* What a claim is made of: what was due by its time is covered by the fire, or
\* by the time the schedule is armed for.
Claimable(s, plan, next, pass) ==
    /\ schedules[s].exists
    /\ plan.fire \in BOOLEAN /\ plan.due \in Instants /\ plan.skipped \in Int
    /\ next \in FirstReadings \cup {None} /\ pass \in {"tick", "hand"}
    /\ next \in Occurrences(schedules[s].spec) \cup {None} \/ next = schedules[s].due
    /\ pass = "tick" => schedules[s].due # None /\ plan.due \in FirstReadings
    /\ <<s, plan.due>> \notin DOMAIN fires
    /\ \A t \in Occurrences(schedules[s].spec) :
          schedules[s].due # None /\ schedules[s].due <= t =>
             \/ next # None /\ next <= t
             \/ pass = "tick" /\ t <= plan.due

LEMMA ClaimStands ==
    ASSUME Inv, NEW s \in Schedules, NEW plan, NEW next, NEW pass,
           Claimable(s, plan, next, pass), Claim(s, plan, next, pass),
           UNCHANGED <<runs, cards>>, phase \notin {"down", "pump", "rearm"}
    PROVE  LET key == <<s, plan.due>>
           IN /\ Lasting' /\ Clockwork'
              /\ key \in FireKeys /\ DOMAIN fires' = DOMAIN fires \cup {key}
              /\ fires' \in [DOMAIN fires' -> Fires] /\ schedules' \in [Schedules -> Rows]
              /\ fires'[key].state = IF plan.fire THEN "dispatched" ELSE "skipped"
              /\ fires'[key].run = 0 /\ NoRun(key)
              /\ \A x \in Schedules :
                   /\ schedules'[x].exists = schedules[x].exists
                   /\ schedules'[x].on = schedules[x].on
                   /\ x # s => schedules'[x].due = schedules[x].due
  <1> DEFINE key == <<s, plan.due>>
  <1> USE DEF Claimable
  <1>1. /\ key \in FireKeys /\ DOMAIN fires' = DOMAIN fires \cup {key}
        /\ fires' \in [DOMAIN fires' -> Fires]
        /\ \A k \in DOMAIN fires : k # key /\ fires'[k] = fires[k]
        /\ fires'[key].state = IF plan.fire THEN "dispatched" ELSE "skipped"
        /\ fires'[key].run = 0 /\ fires'[key].pass = pass
        /\ fires'[key].owed = IF pass = "tick" THEN schedules[s].due ELSE plan.due
    <2>1. /\ DOMAIN fires \subseteq FireKeys /\ fires \in [DOMAIN fires -> Fires]
          /\ schedules \in [Schedules -> Rows]
      BY DEF Inv, Shapes
    <2>2. pass = "tick" => schedules[s].due # None
      OBVIOUS
    <2> QED
      BY <2>1, <2>2, ClaimIs
  <1>2. /\ schedules' \in [Schedules -> Rows]
        /\ \A x \in Schedules :
             /\ schedules'[x].exists = schedules[x].exists /\ schedules'[x].on = schedules[x].on
             /\ schedules'[x].spec = schedules[x].spec
             /\ schedules'[x].since = schedules[x].since
             /\ schedules'[x].torn = schedules[x].torn /\ schedules'[x].gone = schedules[x].gone
             /\ schedules'[x].due = IF x = s THEN next ELSE schedules[x].due
    <2>1. schedules \in [Schedules -> Rows]
      BY DEF Inv, Shapes
    <2>2. schedules' = [schedules EXCEPT ![s].due = next]
      BY DEF Claim
    <2>3. next \in FirstReadings \cup {None}
      OBVIOUS
    <2> QED
      BY <2>1, <2>2, <2>3, RowArmed DEF Rows
  <1>3. key[1] = s /\ key[2] = plan.due /\ key \notin DOMAIN fires
    BY KeyOf
  <1> HIDE DEF key
  <1>4. ~Known(key)
    BY <1>3 DEF Known, Inv, Lasting, Owners
  <1>5. NoRun(key) /\ NoCard(key)
    <2>1. key # NoKey
      BY <1>1, KeyIs
    <2> QED
      BY <1>4, <2>1 DEF NoRun, NoCard, Inv, Lasting, Owners, ToldCards
  <1>6. ASSUME NEW k \in FireKeys, Known(k) PROVE Known(k)'
    <2>1. k[1] \in Schedules
      BY KeyIs
    <2> QED
      BY <1>1, <1>2, <1>6, <2>1 DEF Known
  <1>7. Owners'
    <2>1. ASSUME NEW k \in DOMAIN fires'
          PROVE  /\ schedules'[k[1]].exists
                 /\ fires'[k].run # 0 =>
                      fires'[k].run \in 1..Len(runs) /\ runs[fires'[k].run].fire = k
      <3>1. CASE k = key
        BY <1>1, <1>2, <1>3, <3>1
      <3>2. CASE k \in DOMAIN fires
        <4>1. k[1] \in Schedules
          BY <3>2, KeyIs DEF Inv, Shapes
        <4> QED
          BY <1>1, <1>2, <3>2, <4>1 DEF Inv, Lasting, Owners
      <3> QED
        BY <1>1, <3>1, <3>2
    <2>2. ASSUME NEW r \in 1..Len(runs), runs[r].fire # NoKey
          PROVE  runs[r].bot = BotOf[runs[r].fire[1]] /\ runs[r].fire \in FireKeys
                 /\ Known(runs[r].fire)
      <3>1. runs[r] \in Runs
        BY ElementOfSeq DEF Inv, Shapes
      <3> QED
        BY <2>2, <3>1 DEF Inv, Lasting, Owners, Runs
    <2>3. ASSUME NEW r \in 1..Len(runs), runs[r].fire # NoKey
          PROVE  runs[r].fire \in DOMAIN fires' \/ schedules'[runs[r].fire[1]].gone
      BY <1>6, <2>2, <2>3 DEF Known
    <2>4. \A x \in Schedules : schedules'[x].gone => ~schedules'[x].exists
      BY <1>2 DEF Inv, Lasting, Owners
    <2>5. \A q, r \in 1..Len(runs) : runs[q].fire = runs[r].fire /\ q # r => runs[q].fire = NoKey
      BY DEF Inv, Lasting, Owners
    <2> QED
      BY <2>1, <2>2, <2>3, <2>4, <2>5 DEF Owners, Known
  <1>8. Unlinked'
    BY <1>1, <1>5 DEF Inv, Lasting, Unlinked, NoRun
  <1>9. ToldFires'
    BY <1>1 DEF Inv, Lasting, ToldFires, Outcome, Carded
  <1>10. ToldCards'
    <2> SUFFICES ASSUME NEW i \in 1..Len(cards), cards[i].by = "schedule"
                 PROVE  (/\ cards[i].fire \in FireKeys /\ Known(cards[i].fire)
                         /\ cards[i].run # 0 =>
                              /\ cards[i].run \in 1..Len(runs)
                              /\ runs[cards[i].run].fire = cards[i].fire
                         /\ cards[i].run = 0 /\ cards[i].fire \in DOMAIN fires
                              => fires[cards[i].fire].state = "failed")'
      BY DEF ToldCards
    <2> DEFINE k == cards[i].fire
    <2>1. /\ k \in FireKeys /\ Known(k) /\ k # key
          /\ cards[i].run # 0 =>
               cards[i].run \in 1..Len(runs) /\ runs[cards[i].run].fire = k
          /\ cards[i].run = 0 /\ k \in DOMAIN fires => fires[k].state = "failed"
      BY <1>5 DEF Inv, Lasting, ToldCards, NoCard
    <2>2. k \in DOMAIN fires' \/ schedules'[k[1]].gone
      BY <1>6, <2>1 DEF Known
    <2>3. cards[i].run = 0 /\ k \in DOMAIN fires' => fires'[k].state = "failed"
      BY <1>1, <2>1
    <2> QED
      BY <2>1, <2>2, <2>3 DEF Known
  <1>11. OneCardPerFire'
    BY DEF Inv, Lasting, OneCardPerFire
  <1>12. Clockwork'
    <2>1. ASSUME NEW k \in DOMAIN fires', fires'[k].pass = "tick" PROVE k[2] \in FirstReadings
      BY <1>1, <1>3, <2>1 DEF Inv, Clockwork
    <2>2. ASSUME NEW x \in Schedules, NEW spec \in Specs, Armed(x)', schedules'[x].spec = spec,
                 NEW t \in Occurrences(spec), schedules'[x].since < t
          PROVE  \/ <<x, t>> \in DOMAIN fires'
                 \/ schedules'[x].due # None /\ schedules'[x].due <= t
                 \/ \E k \in DOMAIN fires' : k[1] = x /\ fires'[k].owed <= t /\ t <= k[2]
      <3>1. Armed(x) /\ schedules[x].spec = spec /\ schedules[x].since < t
        BY <1>2, <2>2 DEF Armed
      <3>2. \/ <<x, t>> \in DOMAIN fires
            \/ schedules[x].due # None /\ schedules[x].due <= t
            \/ \E k \in DOMAIN fires : k[1] = x /\ fires[k].owed <= t /\ t <= k[2]
        BY <3>1 DEF Inv, Clockwork, Covered
      <3>3. CASE <<x, t>> \in DOMAIN fires
        <4>1. <<x, t>> \in DOMAIN fires'
          BY <1>1, <3>3
        <4> QED
          BY <4>1
      <3>4. CASE schedules[x].due # None /\ schedules[x].due <= t
        <4>1. CASE x # s
          BY <1>2, <3>4, <4>1
        <4>2. CASE x = s
          <5>1. CASE next # None /\ next <= t
            BY <1>2, <4>2, <5>1
          <5>2. CASE pass = "tick" /\ t <= plan.due
            BY <1>1, <1>3, <3>4, <4>2, <5>2
          <5> QED
            BY <3>1, <3>4, <4>2, <5>1, <5>2
        <4> QED
          BY <4>1, <4>2
      <3>5. CASE \E k \in DOMAIN fires : k[1] = x /\ fires[k].owed <= t /\ t <= k[2]
        BY <1>1, <3>5
      <3> QED
        BY <3>2, <3>3, <3>4, <3>5
    <2>3. ASSUME NEW x \in Schedules, NEW spec \in Specs, Armed(x)', schedules'[x].spec = spec
          PROVE  schedules'[x].due \in Occurrences(spec) \cup {None}
      <3>1. Armed(x) /\ schedules[x].spec = spec
        BY <1>2, <2>3 DEF Armed
      <3>2. schedules[x].due \in Occurrences(spec) \cup {None}
        BY <3>1 DEF Inv, Clockwork
      <3> QED
        BY <1>2, <3>1, <3>2
    <2> QED
      BY <2>1, <2>2, <2>3 DEF Clockwork, Covered
  <1>13. Lasting'
    BY <1>7, <1>8, <1>9, <1>10, <1>11 DEF Lasting
  <1> QED
    BY <1>1, <1>2, <1>5, <1>12, <1>13 DEF key

LEMMA FireNowKeeps ==
    ASSUME Inv, NEW s \in Schedules, FireNow(s)
    PROVE  Inv'
  <1> DEFINE plan == [fire |-> TRUE, due |-> now, skipped |-> 0]
             key == <<s, plan.due>>
  <1>1. /\ phase = "idle" /\ schedules[s].exists /\ key \notin DOMAIN fires
        /\ Claim(s, plan, schedules[s].due, "hand")
        /\ phase' = "target" /\ job' = [fire |-> key, at |-> now, pass |-> "hand"]
        /\ UNCHANGED <<now, runs, threads, cards, todo, pending, claimed>>
    BY DEF FireNow, MayEdit, UserActs, Idle, DueAfterHand
  <1>2. now \in 0..MaxTime /\ now \in Instants /\ schedules[s].due \in FirstReadings \cup {None}
        /\ MaxTime \in Nat
    BY ScheduleAssumption DEF Inv, Shapes, Rows
  <1>3. plan.fire \in BOOLEAN /\ plan.due = now /\ plan.skipped \in Int
    OBVIOUS
  <1>0. (IF plan.fire THEN "dispatched" ELSE "skipped") = "dispatched"
    OBVIOUS
  <1> HIDE DEF plan
  <1>4. /\ Lasting' /\ Clockwork'
        /\ key \in FireKeys /\ DOMAIN fires' = DOMAIN fires \cup {key}
        /\ fires' \in [DOMAIN fires' -> Fires] /\ schedules' \in [Schedules -> Rows]
        /\ fires'[key].state = (IF plan.fire THEN "dispatched" ELSE "skipped")
        /\ fires'[key].run = 0 /\ NoRun(key)
    <2>1. Claimable(s, plan, schedules[s].due, "hand")
      BY <1>1, <1>2, <1>3 DEF Claimable
    <2>2. phase \notin {"down", "pump", "rearm"}
      BY <1>1
    <2> QED
      BY <1>1, <2>1, <2>2, ClaimStands
  <1> HIDE DEF key
  <1>5. Shapes'
    BY <1>1, <1>2, <1>4 DEF Inv, Shapes, Phases, Working
  <1>6. Labelled' /\ Todo'
    BY <1>1 DEF Inv, Walking, Labelled, Todo, Working
  <1>7. InHand'
    BY <1>0, <1>1, <1>3, <1>4 DEF InHand, Working, NoRun
  <1> QED
    BY <1>4, <1>5, <1>6, <1>7 DEF Inv, Walking

LEMMA RuleOnKeeps ==
    ASSUME Inv, NEW s \in Schedules, RuleOn(s)
    PROVE  Inv'
  <1> DEFINE row == schedules[s]
  <1>1. /\ phase = "rule" /\ s \in todo /\ todo' = todo \ {s} /\ job.pass = "tick"
        /\ UNCHANGED <<now, runs, threads, cards, pending, claimed, spent>>
    BY DEF RuleOn, Inv, Walking, Todo
  <1>2. PICK plan \in Plans(row.spec, row.due, job.at, row.policy) :
          IF <<s, plan.due>> \in DOMAIN fires THEN UNCHANGED <<schedules, fires, phase, job>>
          ELSE /\ Claim(s, plan, plan.next, "tick")
               /\ phase' = IF plan.fire THEN "target" ELSE "rule"
               /\ job' = IF plan.fire THEN [job EXCEPT !.fire = <<s, plan.due>>] ELSE job
    BY DEF RuleOn
  <1>3. row.exists /\ row.due # None /\ row.due \in FirstReadings /\ row.spec \in Specs
        /\ todo \subseteq Owing
    BY <1>1 DEF Inv, Walking, Todo, Owing, Shapes, Rows
  <1>4. job.at \in Instants /\ job.at + 1 \in Instants
    <2>1. job.at \in 0..MaxTime /\ MaxTime \in Nat
      BY ScheduleAssumption DEF Inv, Shapes
    <2> QED
      BY <2>1, ScheduleAssumption
  <1> DEFINE p == PrevAtOrBefore(row.spec, job.at)
             n == NextAfter(row.spec, job.at)
             key == <<s, plan.due>>
  <1>5. /\ plan.fire \in BOOLEAN /\ plan.skipped \in Int /\ plan.next = n
        /\ plan.due = Latest(p, row.due)
    BY PlanIs
  <1> HIDE DEF p, n
  <1>6. n \in Occurrences(row.spec) \cup {None} /\ p \in Occurrences(row.spec) \cup {None}
    BY <1>4, AfterIs, PrevIs DEF n, p
  <1>7. n \in FirstReadings \cup {None} /\ p \in FirstReadings \cup {None}
    BY <1>6, OccurrenceOf
  <1>8. plan.due \in FirstReadings /\ plan.due \in Instants
        /\ (p # None => p <= plan.due)
    <2>1. plan.due \in FirstReadings
      BY <1>3, <1>5, <1>7 DEF Latest
    <2>2. p # None => p \in Nat
      BY <1>6, OccurrenceOf
    <2>3. row.due \in Nat
      BY <1>3, LocalTimes DEF FirstReadings
    <2>4. p # None => p <= plan.due
      BY <1>5, <2>2, <2>3 DEF Latest
    <2> QED
      BY <2>1, <2>4 DEF FirstReadings
  <1>9. ASSUME NEW t \in Occurrences(row.spec)
        PROVE  (n # None /\ n <= t) \/ t <= plan.due
    <2>1. (p # None /\ t <= p) \/ (n # None /\ n <= t)
      BY <1>4, BothWays DEF p, n
    <2>2. t \in Nat /\ plan.due \in Nat /\ (p # None => p \in Nat)
      BY <1>6, <1>8, OccurrenceOf, LocalTimes
    <2> QED
      BY <1>8, <2>1, <2>2
  <1>10. CASE key \in DOMAIN fires
    <2>1. UNCHANGED <<schedules, fires, phase, job>>
      BY <1>2, <1>10
    <2>2. Lasting' /\ Clockwork'
      BY <1>1, <2>1, DiskStands DEF disk
    <2>3. Shapes'
      BY <1>1, <2>1 DEF Inv, Shapes
    <2>4. Walking'
      BY <1>1, <1>3, <2>1 DEF Inv, Walking, Labelled, Todo, InHand, Working, Owing
    <2> QED
      BY <2>2, <2>3, <2>4 DEF Inv
  <1>11. CASE key \notin DOMAIN fires
    <2>1. /\ Claim(s, plan, n, "tick")
          /\ phase' = IF plan.fire THEN "target" ELSE "rule"
          /\ job' = IF plan.fire THEN [job EXCEPT !.fire = key] ELSE job
      BY <1>2, <1>5, <1>11
    <2>2. /\ Lasting' /\ Clockwork'
          /\ key \in FireKeys /\ DOMAIN fires' = DOMAIN fires \cup {key}
          /\ fires' \in [DOMAIN fires' -> Fires] /\ schedules' \in [Schedules -> Rows]
          /\ fires'[key].state = IF plan.fire THEN "dispatched" ELSE "skipped"
          /\ fires'[key].run = 0 /\ NoRun(key)
          /\ \A x \in Schedules :
               /\ schedules'[x].exists = schedules[x].exists
               /\ schedules'[x].on = schedules[x].on
               /\ x # s => schedules'[x].due = schedules[x].due
      <3>1. Claimable(s, plan, n, "tick")
        BY <1>3, <1>5, <1>6, <1>7, <1>8, <1>9, <1>11 DEF Claimable
      <3> QED
        BY <1>1, <2>1, <3>1, ClaimStands
    <2> HIDE DEF key
    <2>3. /\ job' \in [fire : FireKeys \cup {NoKey}, at : 0..MaxTime,
                       pass : {"none", "tick", "boot", "hand"}]
          /\ job'.pass = "tick" /\ job'.at = job.at /\ (plan.fire => job'.fire = key)
      BY <1>1, <2>1, <2>2 DEF Inv, Shapes
    <2>4. Shapes'
      BY <1>1, <2>1, <2>2, <2>3 DEF Inv, Shapes, Phases, Working
    <2>5. Labelled'
      BY <1>1, <2>1 DEF Inv, Walking, Labelled
    <2>6. Todo'
      <3>1. todo' \subseteq Owing'
        BY <1>1, <1>3, <2>2, <2>3 DEF Owing
      <3> QED
        BY <1>1, <2>1, <2>3, <3>1 DEF Todo, Working
    <2>7. InHand'
      BY <1>1, <2>1, <2>2, <2>3 DEF InHand, Working, NoRun
    <2> QED
      BY <2>2, <2>4, <2>5, <2>6, <2>7 DEF Inv, Walking
  <1> QED
    BY <1>10, <1>11

-----------------------------------------------------------------------------
(* The steps that begin a run, or link one to its fire.                    *)

LEMMA RunBegins ==
    ASSUME Inv, NEW b \in Bots, NEW key \in FireKeys \cup {NoKey},
           runs' = Append(runs, [bot |-> b, state |-> "running", fire |-> key]),
           UNCHANGED <<schedules, fires, cards>>,
           phase \notin {"down", "pump"} \/ UNCHANGED <<phase, job>>,
           key # NoKey =>
              /\ b = BotOf[key[1]] /\ key \in DOMAIN fires /\ fires[key].state = "dispatched"
              /\ NoRun(key) /\ phase' = "pump" /\ job'.fire = key
    PROVE  /\ Lasting' /\ runs' \in Seq(Runs) /\ Len(runs) \in Nat /\ Len(runs') = Len(runs) + 1
           /\ runs'[Len(runs) + 1].fire = key
  <1> DEFINE run == [bot |-> b, state |-> "running", fire |-> key]
             n == Len(runs) + 1
  <1>1. run \in Runs /\ run.bot = b /\ run.fire = key
    BY StatesApart DEF Runs
  <1> HIDE DEF run
  <1>2. runs' = Append(runs, run)
    BY DEF run
  <1>3. /\ runs' \in Seq(Runs) /\ Len(runs) \in Nat /\ Len(runs') = n
        /\ \A r \in 1..Len(runs) : runs'[r] = runs[r]
        /\ runs'[n] = run
    BY <1>1, <1>2, LenProperties, AppendProperties DEF Inv, Shapes
  <1>4. /\ \A r \in 1..n : r = n \/ r \in 1..Len(runs)
        /\ \A r \in 1..Len(runs) : r \in 1..n /\ r # n
    BY <1>3
  <1>5. Owners'
    <2>1. ASSUME NEW k \in DOMAIN fires, fires[k].run # 0
          PROVE  fires[k].run \in 1..n /\ runs'[fires[k].run].fire = k
      BY <1>3, <1>4, <2>1 DEF Inv, Lasting, Owners
    <2>2. ASSUME NEW q \in 1..n, NEW r \in 1..n, runs'[q].fire = runs'[r].fire, q # r
          PROVE  runs'[q].fire = NoKey
      <3>1. CASE q \in 1..Len(runs) /\ r \in 1..Len(runs)
        BY <1>3, <2>2, <3>1 DEF Inv, Lasting, Owners
      <3>2. CASE q = n \/ r = n
        <4>1. runs'[q].fire = key /\ runs'[r].fire = key
          BY <1>1, <1>3, <2>2, <3>2
        <4>2. q \in 1..Len(runs) \/ r \in 1..Len(runs)
          BY <1>4, <2>2
        <4> QED
          BY <1>3, <4>1, <4>2 DEF NoRun
      <3> QED
        BY <1>4, <3>1, <3>2
    <2>3. ASSUME NEW r \in 1..n, runs'[r].fire # NoKey
          PROVE  /\ runs'[r].bot = BotOf[runs'[r].fire[1]]
                 /\ runs'[r].fire \in DOMAIN fires \/ schedules[runs'[r].fire[1]].gone
      <3>1. CASE r = n
        BY <1>1, <1>3, <2>3, <3>1
      <3>2. CASE r \in 1..Len(runs)
        BY <1>3, <2>3, <3>2 DEF Inv, Lasting, Owners, Known
      <3> QED
        BY <1>4, <3>1, <3>2
    <2>4. /\ \A k \in DOMAIN fires : schedules[k[1]].exists
          /\ \A s \in Schedules : schedules[s].gone => ~schedules[s].exists
      BY DEF Inv, Lasting, Owners
    <2> QED
      BY <1>3, <2>1, <2>2, <2>3, <2>4 DEF Owners, Known
  <1>6. Unlinked'
    <2> SUFFICES ASSUME NEW r \in 1..n, runs'[r].fire \in DOMAIN fires
                 PROVE  /\ fires[runs'[r].fire].state = "failed" => runs'[r].state \in Terminal
                        /\ fires[runs'[r].fire].run = 0 =>
                             \/ runs'[r].state \in Terminal
                             \/ phase' = "down"
                             \/ phase' = "pump" /\ runs'[r].fire = job'.fire
      BY <1>3 DEF Unlinked
    <2>1. CASE r = n
      <3>1. runs'[r].fire = key /\ key # NoKey
        BY <1>1, <1>3, <2>1, KeyIs DEF Inv, Shapes
      <3> QED
        BY <3>1
    <2>2. CASE r \in 1..Len(runs)
      BY <1>3, <2>2 DEF Inv, Lasting, Unlinked
    <2> QED
      BY <1>4, <2>1, <2>2
  <1>7. ToldFires'
    <2> SUFFICES ASSUME NEW k \in DOMAIN fires, fires[k].state = "delivered"
                 PROVE  (/\ fires[k].run # 0 /\ Outcome(k) \in Terminal
                         /\ Outcome(k) = "cancelled" \/ Carded(fires[k].run))'
      BY DEF ToldFires
    <2>1. /\ fires[k].run # 0 /\ fires[k].run \in 1..Len(runs)
          /\ runs[fires[k].run].state \in Terminal
          /\ \/ runs[fires[k].run].state = "cancelled"
             \/ \E i \in 1..Len(cards) : cards[i].run = fires[k].run
      BY DEF Inv, Lasting, Owners, ToldFires, Outcome, Carded
    <2> QED
      BY <1>3, <2>1 DEF Outcome, Carded
  <1>8. ToldCards'
    <2> SUFFICES ASSUME NEW i \in 1..Len(cards), cards[i].by = "schedule"
                 PROVE  (/\ cards[i].fire \in FireKeys /\ Known(cards[i].fire)
                         /\ cards[i].run # 0 =>
                              /\ cards[i].run \in 1..Len(runs)
                              /\ runs[cards[i].run].fire = cards[i].fire
                         /\ cards[i].run = 0 /\ cards[i].fire \in DOMAIN fires
                              => fires[cards[i].fire].state = "failed")'
      BY DEF ToldCards
    <2> QED
      BY <1>3, <1>4 DEF Inv, Lasting, ToldCards, Known
  <1>9. OneCardPerFire'
    BY DEF Inv, Lasting, OneCardPerFire
  <1> QED
    BY <1>1, <1>3, <1>5, <1>6, <1>7, <1>8, <1>9 DEF Lasting

LEMMA SentKeeps ==
    ASSUME Inv, Sent
    PROVE  Inv'
  <1> DEFINE key == job.fire
  <1>1. /\ phase = "send" /\ RunStarted(JobBot) /\ phase' = "pump"
        /\ UNCHANGED <<now, schedules, fires, threads, cards, todo, job, spent>>
    BY DEF Sent
  <1>2. key \in DOMAIN fires /\ fires[key].run = 0 /\ fires[key].state = "dispatched" /\ NoRun(key)
        /\ pending = key
    BY <1>1 DEF Inv, Walking, InHand, Labelled, Working
  <1>3. key \in FireKeys /\ key[1] \in Schedules /\ key # NoKey
    BY <1>2, KeyIs DEF Inv, Shapes
  <1>4. JobBot \in Bots /\ JobBot = BotOf[key[1]] /\ TakeRunKind(JobBot) = key
    BY <1>2, <1>3, ScheduleAssumption DEF JobBot, TakeRunKind
  <1>5. /\ runs' = Append(runs, [bot |-> JobBot, state |-> "running", fire |-> key])
        /\ pending' = NoKey /\ claimed' = Len(runs) + 1
    BY <1>1, <1>3, <1>4 DEF RunStarted
  <1>6. job'.fire = key
    BY <1>1
  <1> DEFINE b == JobBot
  <1> HIDE DEF key, b
  <1>7. /\ Lasting' /\ runs' \in Seq(Runs) /\ Len(runs) \in Nat /\ Len(runs') = Len(runs) + 1
        /\ runs'[Len(runs) + 1].fire = key
    BY <1>1, <1>2, <1>3, <1>4, <1>5, <1>6, RunBegins DEF b
  <1>8. Clockwork'
    BY <1>1, ClockStands DEF Inv
  <1>9. Shapes'
    BY <1>1, <1>5, <1>7 DEF Inv, Shapes, Phases, Working
  <1>10. Labelled' /\ Todo'
    BY <1>1, <1>5 DEF Inv, Walking, Labelled, Todo, Working, Owing
  <1>11. InHand'
    BY <1>1, <1>2, <1>5, <1>6, <1>7 DEF InHand, Working
  <1> QED
    BY <1>7, <1>8, <1>9, <1>10, <1>11 DEF Inv, Walking

LEMMA UserPromptsKeeps ==
    ASSUME Inv, NEW b \in Bots, UserPrompts(b)
    PROVE  Inv'
  <1>1. /\ phase = "idle" /\ RunStarted(b)
        /\ UNCHANGED <<now, schedules, fires, threads, cards, phase, todo, job, spent>>
    BY DEF UserPrompts, UserActs, Idle
  <1>2. pending = NoKey
    BY <1>1 DEF Inv, Walking, Labelled
  <1>3. /\ runs' = Append(runs, [bot |-> b, state |-> "running", fire |-> NoKey])
        /\ pending' = NoKey /\ claimed' = claimed
    BY <1>1, <1>2 DEF RunStarted, TakeRunKind
  <1>4. /\ Lasting' /\ runs' \in Seq(Runs) /\ Len(runs) \in Nat /\ Len(runs') = Len(runs) + 1
    BY <1>1, <1>3, RunBegins
  <1>5. Clockwork'
    BY <1>1, ClockStands DEF Inv
  <1>6. Shapes'
    BY <1>1, <1>3, <1>4 DEF Inv, Shapes
  <1>7. Walking'
    BY <1>1, <1>3 DEF Inv, Walking, Labelled, Todo, InHand, Working
  <1> QED
    BY <1>4, <1>5, <1>6, <1>7 DEF Inv

LEMMA BindKeeps ==
    ASSUME Inv, Bind
    PROVE  Inv'
  <1> DEFINE key == job.fire
  <1>1. /\ phase = "pump" /\ pending' = NoKey /\ claimed' = 0 /\ Resumed
        /\ fires' = [fires EXCEPT ![key].run = claimed]
        /\ UNCHANGED <<now, schedules, runs, threads, cards, todo, spent>>
    BY DEF Bind
  <1>2. /\ key \in DOMAIN fires /\ fires[key].run = 0 /\ fires[key].state = "dispatched"
        /\ claimed # 0 /\ runs[claimed].fire = key /\ phase \in Working
    BY <1>1 DEF Inv, Walking, InHand, Working
  <1>3. claimed \in 1..Len(runs) /\ claimed \in Nat /\ Len(runs) \in Nat
    BY <1>2, LenProperties DEF Inv, Shapes
  <1>4. /\ phase' \in {"idle", "rule"}
        /\ phase' = "rule" => job.pass = "tick" /\ job'.pass = "tick" /\ job'.at = job.at
        /\ job' \in [fire : FireKeys \cup {NoKey}, at : 0..MaxTime,
                     pass : {"none", "tick", "boot", "hand"}]
    BY <1>1, <1>2, ResumedIs
  <1> HIDE DEF key
  <1>5. /\ DOMAIN fires' = DOMAIN fires /\ fires' \in [DOMAIN fires' -> Fires]
        /\ \A k \in DOMAIN fires :
             /\ fires'[k].state = fires[k].state /\ fires'[k].pass = fires[k].pass
             /\ fires'[k].owed = fires[k].owed
             /\ fires'[k].run = IF k = key THEN claimed ELSE fires[k].run
    <2> DEFINE r == claimed
    <2>1. DOMAIN fires \subseteq FireKeys /\ fires \in [DOMAIN fires -> Fires]
      BY DEF Inv, Shapes
    <2>2. r \in Nat /\ fires' = [fires EXCEPT ![key].run = r]
      BY <1>1, <1>3
    <2> HIDE DEF r
    <2>3. /\ DOMAIN fires' = DOMAIN fires /\ fires' \in [DOMAIN fires' -> Fires]
          /\ \A k \in DOMAIN fires :
               /\ fires'[k].state = fires[k].state /\ fires'[k].pass = fires[k].pass
               /\ fires'[k].owed = fires[k].owed
               /\ fires'[k].run = IF k = key THEN r ELSE fires[k].run
      BY <1>2, <2>1, <2>2, FireLinked DEF Fires
    <2> QED
      BY <2>3 DEF r
  <1>6. Owners'
    BY <1>1, <1>2, <1>3, <1>5 DEF Inv, Lasting, Owners, Known
  <1>7. Unlinked'
    <2> SUFFICES ASSUME NEW r \in 1..Len(runs), runs[r].fire \in DOMAIN fires
                 PROVE  /\ fires'[runs[r].fire].state = "failed" => runs[r].state \in Terminal
                        /\ fires'[runs[r].fire].run = 0 => runs[r].state \in Terminal
      BY <1>1, <1>5 DEF Unlinked
    <2>1. CASE runs[r].fire = key
      BY <1>2, <1>5, <2>1
    <2>2. CASE runs[r].fire # key
      BY <1>1, <1>5, <2>2 DEF Inv, Lasting, Unlinked, key
    <2> QED
      BY <2>1, <2>2
  <1>8. ToldFires'
    BY <1>1, <1>2, <1>5 DEF Inv, Lasting, ToldFires, Outcome, Carded
  <1>9. ToldCards' /\ OneCardPerFire'
    BY <1>1, <1>5 DEF Inv, Lasting, ToldCards, OneCardPerFire, Known
  <1>10. Clockwork'
    BY <1>1, <1>5, ClockStands DEF Inv
  <1>11. Shapes'
    BY <1>1, <1>3, <1>4, <1>5 DEF Inv, Shapes, Phases
  <1>12. Walking'
    BY <1>1, <1>4 DEF Inv, Walking, Labelled, Todo, InHand, Working, Owing
  <1> QED
    BY <1>6, <1>7, <1>8, <1>9, <1>10, <1>11, <1>12 DEF Inv, Lasting

-----------------------------------------------------------------------------
(* The steps of the runs and the threads.                                  *)

\* Cards stay, and what a phase knows of the runs does not change.
LEMMA HandStands ==
    ASSUME Inv, RunsGoOn, ThreadsTell,
           UNCHANGED <<now, schedules, fires, phase, todo, job, pending, claimed>>,
           threads' \in [Bots -> ThreadRows], phase # "rearm"
    PROVE  Inv'
  <1>1. Lasting'
    BY OwnersStand, UnlinkedStands, ToldStands DEF Inv, Lasting, Shapes
  <1>2. Clockwork'
    BY ClockStands DEF Inv
  <1>3. Shapes'
    BY DEF Inv, Shapes, RunsGoOn, ThreadsTell
  <1>4. Labelled' /\ Todo'
    BY DEF Inv, Walking, Labelled, Todo, Undelivered, Owing
  <1>5. InHand'
    <2>0. Len(cards) \in Nat /\ Len(cards') \in Nat /\ Len(runs) \in Nat
      BY LenProperties DEF Inv, Shapes, ThreadsTell
    <2>1. ASSUME phase = "carded"
          PROVE  /\ job.fire \in todo /\ fires[job.fire].run # 0
                 /\ runs'[fires[job.fire].run].state \in Terminal \ {"cancelled"}
                 /\ \E i \in 1..Len(cards') : cards'[i].run = fires[job.fire].run
      <3> DEFINE r == fires[job.fire].run
      <3>1. /\ job.fire \in todo /\ job.fire \in DOMAIN fires /\ r # 0
            /\ runs[r].state \in Terminal \ {"cancelled"}
            /\ \E i \in 1..Len(cards) : cards[i].run = r
        BY <2>1 DEF Inv, Walking, InHand, Todo, Undelivered, Outcome, Carded
      <3>2. r \in 1..Len(runs)
        BY <3>1 DEF Inv, Lasting, Owners
      <3>3. \A i \in 1..Len(cards) : i \in 1..Len(cards') /\ cards'[i] = cards[i]
        BY <2>0 DEF ThreadsTell
      <3> QED
        BY <3>1, <3>2, <3>3 DEF RunsGoOn
    <2>2. ASSUME phase \in Working
          PROVE  /\ job.fire \in DOMAIN fires /\ fires[job.fire].run = 0
                 /\ fires[job.fire].state = IF phase = "refused" THEN "failed" ELSE "dispatched"
      BY <2>2 DEF Inv, Walking, InHand
    <2>3. ASSUME phase \in Working \ {"pump"}, NEW r \in 1..Len(runs')
          PROVE  runs'[r].fire # job.fire
      BY <2>3 DEF Inv, Walking, InHand, NoRun, RunsGoOn
    <2>4. ASSUME phase = "pump" PROVE claimed # 0 /\ runs'[claimed].fire = job.fire
      BY <2>0, <2>4 DEF Inv, Walking, InHand, Shapes, RunsGoOn
    <2>5. ASSUME phase = "refused", NEW i \in 1..Len(cards'), cards'[i].by = "schedule"
          PROVE  cards'[i].fire # job.fire
      BY <2>0, <2>5 DEF Inv, Walking, InHand, NoCard, ThreadsTell
    <2> QED
      BY <2>1, <2>2, <2>3, <2>4, <2>5 DEF InHand, Outcome, Carded, NoRun, NoCard
  <1> QED
    BY <1>1, <1>2, <1>3, <1>4, <1>5 DEF Inv, Walking

LEMMA RunIs ==
    ASSUME Inv, NEW r \in 1..Len(runs)
    PROVE  r \in Nat /\ runs[r].bot \in Bots /\ runs[r].state \in RunStates
  <1>1. runs \in Seq(Runs) /\ Len(runs) \in Nat
    BY LenProperties DEF Inv, Shapes
  <1>2. runs[r] \in Runs
    BY <1>1, ElementOfSeq
  <1> QED
    BY <1>1, <1>2 DEF Runs

LEMMA RunEndsKeeps ==
    ASSUME Inv, NEW r \in 1..Len(runs), RunEnds(r)
    PROVE  Inv'
  <1>1. PICK state \in {"succeeded", "failed", "cancelled"} :
          /\ runs' = [runs EXCEPT ![r].state = state]
          /\ IF state = "cancelled" THEN UNCHANGED <<threads, cards>>
             ELSE Surface(runs[r].bot, IF state = "succeeded" THEN "done" ELSE "failed", r)
    BY DEF RunEnds
  <1>2. /\ phase \in {"idle", "pump"} /\ runs[r].state \in Open
        /\ UNCHANGED <<now, schedules, fires, phase, todo, job, pending, claimed, spent>>
    BY DEF RunEnds, Pumping
  <1>3. r \in Nat /\ runs[r].bot \in Bots /\ runs[r].state \notin Terminal /\ state \in RunStates
    BY <1>2, RunIs, StatesApart
  <1>4. RunsGoOn
    BY <1>1, <1>3, RunMoves DEF Inv, Shapes
  <1>5. threads' \in [Bots -> ThreadRows] /\ ThreadsTell
    <2>1. CASE state = "cancelled"
      BY <1>1, <2>1, Silent DEF Inv, Shapes
    <2>2. CASE state # "cancelled"
      <3> DEFINE b == runs[r].bot
                 reason == IF state = "succeeded" THEN "done" ELSE "failed"
      <3>1. b \in Bots /\ reason \in Reasons /\ Surface(b, reason, r)
        BY <1>1, <1>3, <2>2 DEF Reasons
      <3> HIDE DEF b, reason
      <3> QED
        BY <1>3, <3>1, SurfaceIs DEF Inv, Shapes
    <2> QED
      BY <2>1, <2>2
  <1> QED
    BY <1>2, <1>4, <1>5, HandStands

LEMMA RunAsksKeeps ==
    ASSUME Inv, NEW r \in 1..Len(runs), RunAsks(r)
    PROVE  Inv'
  <1> DEFINE b == runs[r].bot
  <1>1. /\ phase \in {"idle", "pump"} /\ runs[r].state = "running"
        /\ runs' = [runs EXCEPT ![r].state = "needs_you"] /\ Surface(b, "needs_you", r)
        /\ UNCHANGED <<now, schedules, fires, phase, todo, job, pending, claimed, spent>>
    BY DEF RunAsks, Pumping
  <1>2. r \in Nat /\ b \in Bots /\ runs[r].state \notin Terminal
        /\ "needs_you" \in RunStates /\ "needs_you" \in Reasons
    BY <1>1, RunIs, StatesApart DEF Terminal, Reasons
  <1>3. RunsGoOn
    BY <1>1, <1>2, RunMoves DEF Inv, Shapes
  <1> HIDE DEF b
  <1>4. threads' \in [Bots -> ThreadRows] /\ ThreadsTell
    BY <1>1, <1>2, SurfaceIs DEF Inv, Shapes
  <1> QED
    BY <1>1, <1>3, <1>4, HandStands

LEMMA RunAnsweredKeeps ==
    ASSUME Inv, NEW r \in 1..Len(runs), RunAnswered(r)
    PROVE  Inv'
  <1>1. /\ phase = "idle" /\ runs[r].state = "needs_you"
        /\ runs' = [runs EXCEPT ![r].state = "running"]
        /\ UNCHANGED <<now, schedules, fires, threads, cards, phase, todo, job, pending, claimed,
                       spent>>
    BY DEF RunAnswered, Idle
  <1>2. runs[r].state \notin Terminal /\ "running" \in RunStates
    BY <1>1, StatesApart DEF Terminal
  <1>3. RunsGoOn /\ ThreadsTell /\ threads' \in [Bots -> ThreadRows]
    BY <1>1, <1>2, RunMoves, Silent DEF Inv, Shapes
  <1> QED
    BY <1>1, <1>3, HandStands

\* The last of a bot's runs is one of them.
LEMMA LastRun ==
    ASSUME Inv, NEW S \in SUBSET (1..Len(runs)), S # {}
    PROVE  Max(S) \in S /\ Max(S) \in Nat
  <1> DEFINE k == Len(runs)
  <1>1. k \in Nat
    BY LenProperties DEF Inv, Shapes
  <1> HIDE DEF k
  <1>2. S \in SUBSET (0..k)
    BY <1>1 DEF k
  <1>3. Max(S) \in S
    BY <1>1, <1>2, MaxOf
  <1>4. \A r \in S : r \in Nat
    BY <1>1, <1>2
  <1> QED
    BY <1>3, <1>4

LEMMA FoldKeeps ==
    ASSUME Inv, NEW b \in Bots, Fold(b)
    PROVE  Inv'
  <1> DEFINE folded == [threads EXCEPT ![b] = MoveTo(threads[b], "folded")]
             last == Max(RunsOf(b))
             reason == IF runs[last].state = "succeeded" THEN "done" ELSE "failed"
  <1>1. /\ phase = "idle"
        /\ UNCHANGED <<now, schedules, fires, runs, phase, todo, job, pending, claimed>>
    BY DEF Fold, UserActs, Idle
  <1>2. IF RunsOf(b) = {} \/ runs[last].state \notin Terminal \ {"cancelled"}
        THEN threads' = folded /\ UNCHANGED cards
        ELSE /\ threads' = [folded EXCEPT ![b] = Bare(Resurface(folded[b], reason))]
             /\ cards' = Append(cards, Card(last, NoKey, reason, "thread"))
    BY DEF Fold
  <1>3. folded \in [Bots -> ThreadRows] /\ reason \in Reasons
    BY RowsComeBack DEF Inv, Shapes, ThreadStates, Reasons
  <1>4. RunsOf(b) # {} => last \in Nat
    BY LastRun DEF RunsOf
  <1> HIDE DEF folded, last, reason
  <1>5. CASE RunsOf(b) = {} \/ runs[last].state \notin Terminal \ {"cancelled"}
    <2>1. threads' \in [Bots -> ThreadRows] /\ ThreadsTell /\ RunsGoOn
      BY <1>1, <1>2, <1>3, <1>5, Silent, Rested DEF Inv, Shapes
    <2> QED
      BY <1>1, <2>1, HandStands
  <1>6. CASE ~(RunsOf(b) = {} \/ runs[last].state \notin Terminal \ {"cancelled"})
    <2>1. threads' \in [Bots -> ThreadRows]
      BY <1>2, <1>3, <1>6, RowsComeBack
    <2>2. ThreadsTell /\ RunsGoOn
      BY <1>1, <1>2, <1>3, <1>4, <1>6, ThreadCard, Rested DEF Inv, Shapes
    <2> QED
      BY <1>1, <2>1, <2>2, HandStands
  <1> QED
    BY <1>5, <1>6

LEMMA ReopenKeeps ==
    ASSUME Inv, NEW b \in Bots, Reopen(b)
    PROVE  Inv'
  <1>1. /\ phase = "idle" /\ threads' = [threads EXCEPT ![b] = MoveTo(threads[b], "active")]
        /\ UNCHANGED <<now, schedules, fires, runs, cards, phase, todo, job, pending, claimed, spent>>
    BY DEF Reopen, UserActs, Idle
  <1>2. threads' \in [Bots -> ThreadRows]
    BY <1>1, RowsComeBack DEF Inv, Shapes, ThreadStates
  <1>3. RunsGoOn /\ ThreadsTell
    BY <1>1, Rested, Silent DEF Inv, Shapes
  <1> QED
    BY <1>1, <1>2, <1>3, HandStands

-----------------------------------------------------------------------------
(* The steps that edit the rows, and a host that stops and starts.         *)

\* Rows may be edited, while no id is freed and none that is taken goes.
LEMMA RowsStand ==
    ASSUME Inv, UNCHANGED <<fires, runs, cards>>, schedules' \in [Schedules -> Rows],
           \A s \in Schedules :
              /\ schedules'[s].gone = schedules[s].gone
              /\ schedules[s].exists => schedules'[s].exists
              /\ schedules'[s].gone => ~schedules'[s].exists,
           phase \notin {"down", "pump"} \/ phase' = "down"
    PROVE  Lasting'
  <1>1. ASSUME NEW key \in FireKeys, Known(key) PROVE Known(key)'
    BY <1>1, KeyIs DEF Known
  <1>2. ASSUME NEW r \in 1..Len(runs), runs[r].fire # NoKey
        PROVE  /\ runs[r].bot = BotOf[runs[r].fire[1]] /\ runs[r].fire \in FireKeys
               /\ runs[r].fire \in DOMAIN fires \/ schedules'[runs[r].fire[1]].gone
    <2>1. runs[r] \in Runs
      BY ElementOfSeq DEF Inv, Shapes
    <2>2. runs[r].fire \in FireKeys /\ Known(runs[r].fire) /\ runs[r].bot = BotOf[runs[r].fire[1]]
      BY <1>2, <2>1 DEF Inv, Lasting, Owners, Runs
    <2> QED
      BY <1>1, <2>2 DEF Known
  <1>3. \A key \in DOMAIN fires :
          /\ schedules'[key[1]].exists
          /\ fires[key].run # 0 => fires[key].run \in 1..Len(runs) /\ runs[fires[key].run].fire = key
    BY KeyIs DEF Inv, Shapes, Lasting, Owners
  <1>4. Owners'
    <2>1. \A q, r \in 1..Len(runs) : runs[q].fire = runs[r].fire /\ q # r => runs[q].fire = NoKey
      BY DEF Inv, Lasting, Owners
    <2> QED
      BY <1>2, <1>3, <2>1 DEF Owners, Known
  <1>5. Unlinked'
    BY DEF Inv, Lasting, Unlinked
  <1>6. ToldFires' /\ OneCardPerFire'
    BY DEF Inv, Lasting, ToldFires, OneCardPerFire, Outcome, Carded
  <1>7. ToldCards'
    <2> SUFFICES ASSUME NEW i \in 1..Len(cards), cards[i].by = "schedule"
                 PROVE  (/\ cards[i].fire \in FireKeys /\ Known(cards[i].fire)
                         /\ cards[i].run # 0 =>
                              /\ cards[i].run \in 1..Len(runs)
                              /\ runs[cards[i].run].fire = cards[i].fire
                         /\ cards[i].run = 0 /\ cards[i].fire \in DOMAIN fires
                              => fires[cards[i].fire].state = "failed")'
      BY DEF ToldCards
    <2>1. cards[i].fire \in FireKeys /\ Known(cards[i].fire)
      BY DEF Inv, Lasting, ToldCards
    <2>2. cards[i].fire \in DOMAIN fires \/ schedules'[cards[i].fire[1]].gone
      BY <1>1, <2>1 DEF Known
    <2> QED
      BY <2>1, <2>2 DEF Inv, Lasting, ToldCards, Known
  <1> QED
    BY <1>4, <1>5, <1>6, <1>7 DEF Lasting

\* One row is written anew; its clock is right, or it does not count.
LEMMA RowClock ==
    ASSUME Inv, NEW s \in Schedules, UNCHANGED fires, phase # "rearm" \/ todo = {s},
           \A x \in Schedules : x # s => schedules'[x] = schedules[x],
           \A spec \in Specs : Armed(s)' /\ schedules'[s].spec = spec =>
              /\ schedules'[s].due \in Occurrences(spec) \cup {None}
              /\ \A t \in Occurrences(spec) : schedules'[s].since < t => Covered(s, t)'
    PROVE  Clockwork'
  <1>1. ASSUME NEW x \in Schedules, x # s, Armed(x)' PROVE Armed(x)
    BY <1>1 DEF Armed
  <1>2. ASSUME NEW x \in Schedules, x # s, NEW t, Covered(x, t) PROVE Covered(x, t)'
    BY <1>2 DEF Covered
  <1>3. \A key \in DOMAIN fires' : fires'[key].pass = "tick" => key[2] \in FirstReadings
    BY DEF Inv, Clockwork
  <1>4. ASSUME NEW x \in Schedules, NEW spec \in Specs, Armed(x)', schedules'[x].spec = spec
        PROVE  /\ schedules'[x].due \in Occurrences(spec) \cup {None}
               /\ \A t \in Occurrences(spec) : schedules'[x].since < t => Covered(x, t)'
    <2>1. CASE x = s
      BY <1>4, <2>1
    <2>2. CASE x # s
      BY <1>1, <1>2, <1>4, <2>2 DEF Inv, Clockwork
    <2> QED
      BY <2>1, <2>2
  <1> QED
    BY <1>3, <1>4 DEF Clockwork

\* The clock of a schedule that is armed now misses nothing ahead.
LEMMA ArmedNow ==
    ASSUME Inv, NEW spec, NEW due, due = NextAfter(spec, now)
    PROVE  /\ due \in Occurrences(spec) \cup {None} /\ due \in FirstReadings \cup {None}
           /\ \A t \in Occurrences(spec) : now < t => due # None /\ due <= t
  <1>1. now \in Nat /\ now \in Instants /\ now + 1 \in Instants
    <2>1. now \in 0..MaxTime /\ MaxTime \in Nat
      BY ScheduleAssumption DEF Inv, Shapes
    <2> QED
      BY <2>1, ScheduleAssumption
  <1>2. \A t \in Occurrences(spec) : t \in Nat /\ t \in FirstReadings
    BY OccurrenceOf
  <1>3. /\ due \in Occurrences(spec) \cup {None}
        /\ \A t \in Occurrences(spec) : t > now => due # None /\ due <= t
    BY <1>1, AfterIs
  <1> QED
    BY <1>1, <1>2, <1>3

LEMMA CreateKeeps ==
    ASSUME Inv, NEW s \in Schedules, Create(s)
    PROVE  Inv'
  <1>1. PICK raw \in Written, policy \in CatchUps, on \in BOOLEAN :
          schedules' = [schedules EXCEPT ![s] =
             [exists |-> TRUE, on |-> on, spec |-> Parse(raw), policy |-> policy,
              due |-> IF on THEN NextAfter(Parse(raw), now) ELSE None,
              since |-> now, torn |-> FALSE, gone |-> FALSE]]
    BY DEF Create
  <1>2. /\ phase = "idle" /\ schedules[s] = Absent
        /\ UNCHANGED <<now, fires, runs, threads, cards, phase, todo, job, pending, claimed>>
    BY DEF Create, MayEdit, UserActs, Idle
  <1> DEFINE spec == Parse(raw)
             due == IF on THEN NextAfter(spec, now) ELSE None
             row == [exists |-> TRUE, on |-> on, spec |-> spec, policy |-> policy,
                     due |-> due, since |-> now, torn |-> FALSE, gone |-> FALSE]
  <1>3. spec \in Specs /\ policy \in {"once", "skip"} /\ now \in Nat
    BY ScheduleAssumption DEF Specs, Inv, Shapes
  <1> HIDE DEF spec
  <1>4. /\ due \in FirstReadings \cup {None} /\ due \in Occurrences(spec) \cup {None}
        /\ on => \A t \in Occurrences(spec) : now < t => due # None /\ due <= t
    <2>1. CASE on
      BY <2>1, ArmedNow
    <2>2. CASE ~on
      BY <2>2
    <2> QED
      BY <2>1, <2>2
  <1> HIDE DEF due
  <1>5. row \in Rows /\ row.exists /\ ~row.gone /\ row.on = on /\ row.spec = spec
        /\ row.due = due /\ row.since = now
    BY <1>3, <1>4 DEF Rows
  <1>6. schedules' = [schedules EXCEPT ![s] = row]
    BY <1>1 DEF spec, due
  <1> HIDE DEF row
  <1>7. /\ schedules' \in [Schedules -> Rows] /\ schedules'[s] = row
        /\ \A x \in Schedules : x # s => schedules'[x] = schedules[x]
    BY <1>5, <1>6 DEF Inv, Shapes
  <1>8. Lasting'
    <2>1. ~schedules[s].gone
      BY <1>2 DEF Absent
    <2>2. \A x \in Schedules :
             /\ schedules'[x].gone = schedules[x].gone
             /\ schedules[x].exists => schedules'[x].exists
             /\ schedules'[x].gone => ~schedules'[x].exists
      <3> SUFFICES ASSUME NEW x \in Schedules
                   PROVE  /\ schedules'[x].gone = schedules[x].gone
                          /\ schedules[x].exists => schedules'[x].exists
                          /\ schedules'[x].gone => ~schedules'[x].exists
        OBVIOUS
      <3>1. CASE x = s
        <4>1. row.gone \in BOOLEAN /\ schedules[s].gone \in BOOLEAN
          BY <1>5 DEF Inv, Shapes, Rows
        <4>2. row.gone = schedules[s].gone
          BY <1>5, <2>1, <4>1
        <4> QED
          BY <1>5, <1>7, <3>1, <4>2
      <3>2. CASE x # s
        BY <1>7, <3>2 DEF Inv, Lasting, Owners
      <3> QED
        BY <3>1, <3>2
    <2> QED
      BY <1>2, <1>7, <2>2, RowsStand
  <1>9. Clockwork'
    <2>1. ASSUME Armed(s)' PROVE on
      BY <1>5, <1>7, <2>1 DEF Armed
    <2>2. ASSUME NEW t \in Occurrences(spec), schedules'[s].since < t, Armed(s)'
          PROVE  Covered(s, t)'
      <3>1. due # None /\ due <= t
        BY <1>4, <1>5, <1>7, <2>1, <2>2
      <3> QED
        BY <1>5, <1>7, <3>1 DEF Covered
    <2> QED
      BY <1>2, <1>4, <1>5, <1>7, <2>2, RowClock
  <1>10. Shapes'
    BY <1>2, <1>7 DEF Inv, Shapes
  <1>11. Walking'
    BY <1>2 DEF Inv, Walking, Labelled, Todo, InHand, Working
  <1> QED
    BY <1>8, <1>9, <1>10, <1>11 DEF Inv

LEMMA UpdateKeeps ==
    ASSUME Inv, NEW s \in Schedules, Update(s)
    PROVE  Inv'
  <1>1. PICK specs \in {{Parse(raw)} : raw \in {raw \in Written : Parses(raw)}} \cup {{}},
             ons \in {{TRUE}, {FALSE}, {}}, policies \in {{policy} : policy \in CatchUps} \cup {{}} :
          /\ schedules' = [schedules EXCEPT
                ![s].spec = IF specs = {} THEN @ ELSE CHOOSE spec \in specs : TRUE,
                ![s].on = IF ons = {} THEN @ ELSE TRUE \in ons,
                ![s].policy = IF policies = {} THEN @ ELSE CHOOSE policy \in policies : TRUE]
          /\ phase' = IF specs = {} /\ ons = {} THEN "idle" ELSE "rearm"
          /\ todo' = IF specs = {} /\ ons = {} THEN {} ELSE {s}
    BY DEF Update
  <1>2. /\ phase = "idle" /\ schedules[s].exists
        /\ UNCHANGED <<now, fires, runs, threads, cards, job, pending, claimed>>
    BY DEF Update, MayEdit, UserActs, Idle
  <1> DEFINE old == schedules[s]
             spec == IF specs = {} THEN old.spec ELSE CHOOSE x \in specs : TRUE
             on == IF ons = {} THEN old.on ELSE TRUE \in ons
             policy == IF policies = {} THEN old.policy ELSE CHOOSE x \in policies : TRUE
             row == [old EXCEPT !.spec = spec, !.on = on, !.policy = policy]
  <1>3. old \in Rows
    BY DEF Inv, Shapes
  <1>4. spec \in Specs
    <2>1. CASE specs = {}
      BY <1>3, <2>1 DEF Rows
    <2>2. CASE specs # {}
      <3>1. PICK raw \in Written : specs = {Parse(raw)}
        BY <2>2
      <3> QED
        BY <2>2, <3>1 DEF Specs
    <2> QED
      BY <2>1, <2>2
  <1>5. policy \in {"once", "skip"}
    <2>1. CASE policies = {}
      BY <1>3, <2>1 DEF Rows
    <2>2. CASE policies # {}
      <3>1. PICK x \in CatchUps : policies = {x}
        BY <2>2
      <3> QED
        BY <2>2, <3>1, ScheduleAssumption
    <2> QED
      BY <2>1, <2>2
  <1>0. on \in BOOLEAN
    <2>1. CASE ons = {}
      <3>1. old.on \in BOOLEAN
        BY <1>3 DEF Rows
      <3> QED
        BY <2>1, <3>1
    <2>2. CASE ons # {}
      <3> DEFINE listed == TRUE \in ons
      <3>1. listed \in BOOLEAN
        OBVIOUS
      <3> HIDE DEF listed
      <3>2. on = listed
        BY <2>2 DEF listed
      <3> HIDE DEF on
      <3> QED
        BY <3>1, <3>2
    <2> QED
      BY <2>1, <2>2
  <1>6. schedules' = [schedules EXCEPT ![s] = row]
    BY <1>1 DEF Inv, Shapes, Rows
  <1>7. specs = {} => spec = old.spec
    OBVIOUS
  <1>8. ons = {} => on = old.on
    OBVIOUS
  <1> HIDE DEF spec, on, policy
  <1>9. /\ row \in Rows /\ row.exists = old.exists /\ row.gone = old.gone /\ row.torn = old.torn
        /\ row.due = old.due /\ row.since = old.since /\ row.on = on /\ row.spec = spec
    BY <1>0, <1>3, <1>4, <1>5 DEF Rows
  <1> HIDE DEF row
  <1>10. /\ schedules' \in [Schedules -> Rows] /\ schedules'[s] = row
         /\ \A x \in Schedules : x # s => schedules'[x] = schedules[x]
    BY <1>6, <1>9 DEF Inv, Shapes
  <1>11. Lasting'
    <2>1. \A x \in Schedules :
             /\ schedules'[x].gone = schedules[x].gone
             /\ schedules[x].exists => schedules'[x].exists
             /\ schedules'[x].gone => ~schedules'[x].exists
      BY <1>9, <1>10 DEF Inv, Lasting, Owners
    <2> QED
      BY <1>2, <1>10, <2>1, RowsStand
  <1>12. Clockwork'
    <2>1. CASE specs = {} /\ ons = {}
      <3>1. /\ row.spec = old.spec /\ row.on = old.on /\ phase' = "idle"
        BY <1>1, <1>7, <1>8, <1>9, <2>1
      <3>2. Armed(s)' => Armed(s)
        BY <1>2, <1>9, <1>10, <3>1 DEF Armed
      <3>3. ASSUME NEW t, Covered(s, t) PROVE Covered(s, t)'
        BY <1>2, <1>9, <1>10, <3>3 DEF Covered
      <3> QED
        BY <1>2, <1>9, <1>10, <3>1, <3>2, <3>3, RowClock DEF Inv, Clockwork
    <2>2. CASE ~(specs = {} /\ ons = {})
      <3>1. phase' = "rearm" /\ s \in todo'
        BY <1>1, <2>2
      <3>2. ~Armed(s)'
        BY <3>1 DEF Armed
      <3> QED
        BY <1>2, <1>10, <3>2, RowClock
    <2> QED
      BY <2>1, <2>2
  <1>13. Shapes'
    BY <1>1, <1>2, <1>10 DEF Inv, Shapes, Phases
  <1>14. Walking'
    <2>1. phase' \in {"idle", "rearm"} /\ (phase' = "rearm" => todo' = {s})
      BY <1>1
    <2>2. schedules'[s].exists
      BY <1>2, <1>9, <1>10
    <2> QED
      BY <1>2, <2>1, <2>2 DEF Inv, Walking, Labelled, Todo, InHand, Working
  <1> QED
    BY <1>11, <1>12, <1>13, <1>14 DEF Inv

LEMMA RearmKeeps ==
    ASSUME Inv, NEW s \in Schedules, Rearm(s)
    PROVE  Inv'
  <1> DEFINE old == schedules[s]
             due == IF old.on THEN NextAfter(old.spec, now) ELSE None
             row == [old EXCEPT !.due = due, !.since = now, !.torn = FALSE]
  <1>1. /\ phase = "rearm" /\ s \in todo /\ phase' = "idle" /\ todo' = {}
        /\ schedules' = [schedules EXCEPT ![s].due = due, ![s].since = now, ![s].torn = FALSE]
        /\ UNCHANGED <<now, fires, runs, threads, cards, job, pending, claimed, spent>>
    BY DEF Rearm
  <1>2. todo = {s} /\ old.exists
    BY <1>1 DEF Inv, Walking, Todo
  <1>3. old \in Rows /\ now \in Nat
    BY ScheduleAssumption DEF Inv, Shapes
  <1>4. /\ due \in FirstReadings \cup {None} /\ due \in Occurrences(old.spec) \cup {None}
        /\ old.on => \A t \in Occurrences(old.spec) : now < t => due # None /\ due <= t
    <2>1. CASE old.on
      BY <2>1, ArmedNow
    <2>2. CASE ~old.on
      BY <2>2
    <2> QED
      BY <2>1, <2>2
  <1> HIDE DEF due
  <1>5. schedules' = [schedules EXCEPT ![s] = row]
    BY <1>1 DEF Inv, Shapes, Rows
  <1>6. /\ row \in Rows /\ row.exists = old.exists /\ row.gone = old.gone
        /\ row.due = due /\ row.since = now /\ row.on = old.on /\ row.spec = old.spec
    BY <1>3, <1>4 DEF Rows
  <1> HIDE DEF row
  <1>7. /\ schedules' \in [Schedules -> Rows] /\ schedules'[s] = row
        /\ \A x \in Schedules : x # s => schedules'[x] = schedules[x]
    BY <1>5, <1>6 DEF Inv, Shapes
  <1>8. Lasting'
    <2>1. \A x \in Schedules :
             /\ schedules'[x].gone = schedules[x].gone
             /\ schedules[x].exists => schedules'[x].exists
             /\ schedules'[x].gone => ~schedules'[x].exists
      BY <1>6, <1>7 DEF Inv, Lasting, Owners
    <2> QED
      BY <1>1, <1>7, <2>1, RowsStand
  <1>9. Clockwork'
    <2>1. Armed(s)' => old.on
      BY <1>6, <1>7 DEF Armed
    <2>2. ASSUME NEW t \in Occurrences(old.spec), schedules'[s].since < t, Armed(s)'
          PROVE  Covered(s, t)'
      <3>1. due # None /\ due <= t
        BY <1>4, <1>6, <1>7, <2>1, <2>2
      <3> QED
        BY <1>6, <1>7, <3>1 DEF Covered
    <2> QED
      BY <1>1, <1>2, <1>4, <1>6, <1>7, <2>2, RowClock
  <1>10. Shapes'
    BY <1>1, <1>7 DEF Inv, Shapes, Phases
  <1>11. Walking'
    BY <1>1 DEF Inv, Walking, Labelled, Todo, InHand, Working
  <1> QED
    BY <1>8, <1>9, <1>10, <1>11 DEF Inv

LEMMA RemoveKeeps ==
    ASSUME Inv, NEW s \in Schedules, RemoveSchedule(s)
    PROVE  Inv'
  <1>1. /\ phase = "idle" /\ schedules' = [schedules EXCEPT ![s] = Gone]
        /\ fires' = [key \in Kept(s) |-> fires[key]]
        /\ UNCHANGED <<now, runs, threads, cards, phase, todo, job, pending, claimed>>
    BY DEF RemoveSchedule, MayEdit, UserActs, Idle
  <1>2. Gone \in Rows /\ Gone.gone /\ ~Gone.exists
    BY DEF Gone, Absent, Rows, Specs
  <1>3. /\ schedules' \in [Schedules -> Rows] /\ schedules'[s] = Gone
        /\ \A x \in Schedules : x # s => schedules'[x] = schedules[x]
    BY <1>1, <1>2 DEF Inv, Shapes
  <1>4. /\ DOMAIN fires' = {key \in DOMAIN fires : key[1] # s}
        /\ \A key \in DOMAIN fires' : fires'[key] = fires[key]
        /\ fires' \in [DOMAIN fires' -> Fires] /\ DOMAIN fires' \subseteq FireKeys
    BY <1>1 DEF Inv, Shapes, Kept
  <1>5. ASSUME NEW key \in FireKeys, Known(key) PROVE key \in DOMAIN fires' \/ schedules'[key[1]].gone
    <2>1. key[1] \in Schedules
      BY KeyIs
    <2>2. CASE key[1] = s
      BY <1>2, <1>3, <2>2
    <2>3. CASE key[1] # s
      BY <1>3, <1>4, <1>5, <2>1, <2>3 DEF Known
    <2> QED
      BY <2>2, <2>3
  <1>6. Owners'
    <2>1. ASSUME NEW key \in DOMAIN fires'
          PROVE  /\ schedules'[key[1]].exists
                 /\ fires'[key].run # 0 =>
                      fires'[key].run \in 1..Len(runs) /\ runs[fires'[key].run].fire = key
      <3>1. key \in DOMAIN fires /\ key[1] # s /\ key[1] \in Schedules
        BY <1>4, KeyIs
      <3> QED
        BY <1>3, <1>4, <3>1 DEF Inv, Lasting, Owners
    <2>2. ASSUME NEW r \in 1..Len(runs), runs[r].fire # NoKey
          PROVE  /\ runs[r].bot = BotOf[runs[r].fire[1]]
                 /\ runs[r].fire \in DOMAIN fires' \/ schedules'[runs[r].fire[1]].gone
      <3>1. runs[r] \in Runs
        BY ElementOfSeq DEF Inv, Shapes
      <3>2. runs[r].fire \in FireKeys /\ Known(runs[r].fire) /\ runs[r].bot = BotOf[runs[r].fire[1]]
        BY <2>2, <3>1 DEF Inv, Lasting, Owners, Runs
      <3> QED
        BY <1>5, <3>2
    <2>3. \A x \in Schedules : schedules'[x].gone => ~schedules'[x].exists
      BY <1>2, <1>3 DEF Inv, Lasting, Owners
    <2>4. \A q, r \in 1..Len(runs) : runs[q].fire = runs[r].fire /\ q # r => runs[q].fire = NoKey
      BY DEF Inv, Lasting, Owners
    <2> QED
      BY <1>1, <2>1, <2>2, <2>3, <2>4 DEF Owners, Known
  <1>7. Unlinked'
    BY <1>1, <1>4 DEF Inv, Lasting, Unlinked
  <1>8. ToldFires' /\ OneCardPerFire'
    BY <1>1, <1>4 DEF Inv, Lasting, ToldFires, OneCardPerFire, Outcome, Carded
  <1>9. ToldCards'
    <2> SUFFICES ASSUME NEW i \in 1..Len(cards), cards[i].by = "schedule"
                 PROVE  (/\ cards[i].fire \in FireKeys /\ Known(cards[i].fire)
                         /\ cards[i].run # 0 =>
                              /\ cards[i].run \in 1..Len(runs)
                              /\ runs[cards[i].run].fire = cards[i].fire
                         /\ cards[i].run = 0 /\ cards[i].fire \in DOMAIN fires
                              => fires[cards[i].fire].state = "failed")'
      BY <1>1 DEF ToldCards
    <2>1. cards[i].fire \in FireKeys /\ Known(cards[i].fire)
      BY DEF Inv, Lasting, ToldCards
    <2>2. cards[i].fire \in DOMAIN fires' \/ schedules'[cards[i].fire[1]].gone
      BY <1>5, <2>1
    <2> QED
      BY <1>1, <1>4, <2>1, <2>2 DEF Inv, Lasting, ToldCards, Known
  <1>10. Clockwork'
    <2>1. ASSUME NEW x \in Schedules, NEW spec \in Specs, Armed(x)', schedules'[x].spec = spec
          PROVE  /\ schedules'[x].due \in Occurrences(spec) \cup {None}
                 /\ \A t \in Occurrences(spec) : schedules'[x].since < t => Covered(x, t)'
      <3>1. x # s
        BY <1>2, <1>3, <2>1 DEF Armed
      <3>2. Armed(x) /\ schedules'[x] = schedules[x]
        BY <1>1, <1>3, <2>1, <3>1 DEF Armed
      <3>3. ASSUME NEW t \in Occurrences(spec), Covered(x, t) PROVE Covered(x, t)'
        <4>1. <<x, t>>[1] = x
          OBVIOUS
        <4> QED
          BY <1>4, <3>1, <3>2, <3>3, <4>1 DEF Covered
      <3> QED
        BY <2>1, <3>2, <3>3 DEF Inv, Clockwork
    <2>2. \A key \in DOMAIN fires' : fires'[key].pass = "tick" => key[2] \in FirstReadings
      BY <1>4 DEF Inv, Clockwork
    <2> QED
      BY <2>1, <2>2 DEF Clockwork
  <1>11. Shapes'
    BY <1>1, <1>3, <1>4 DEF Inv, Shapes
  <1>12. Walking'
    BY <1>1 DEF Inv, Walking, Labelled, Todo, InHand, Working
  <1> QED
    BY <1>6, <1>7, <1>8, <1>9, <1>10, <1>11, <1>12 DEF Inv, Lasting

LEMMA CrashKeeps ==
    ASSUME Inv, Crash
    PROVE  Inv'
  <1>1. /\ phase' = "down" /\ todo' = {} /\ job' = NoJob /\ pending' = NoKey /\ claimed' = 0
        /\ schedules' = [s \in Schedules |->
                           IF phase = "rearm" /\ s \in todo THEN [schedules[s] EXCEPT !.torn = TRUE]
                           ELSE schedules[s]]
        /\ UNCHANGED <<now, fires, runs, threads, cards>>
    BY DEF Crash
  <1>2. /\ schedules' \in [Schedules -> Rows]
        /\ \A s \in Schedules :
             /\ schedules'[s].exists = schedules[s].exists /\ schedules'[s].on = schedules[s].on
             /\ schedules'[s].spec = schedules[s].spec /\ schedules'[s].due = schedules[s].due
             /\ schedules'[s].since = schedules[s].since
             /\ schedules'[s].gone = schedules[s].gone
             /\ ~schedules'[s].torn => ~schedules[s].torn /\ ~(phase = "rearm" /\ s \in todo)
    <2>1. schedules \in [Schedules -> Rows]
      BY DEF Inv, Shapes
    <2>2. ASSUME NEW s \in Schedules
          PROVE  /\ schedules'[s] \in Rows
                 /\ schedules'[s].exists = schedules[s].exists /\ schedules'[s].on = schedules[s].on
                 /\ schedules'[s].spec = schedules[s].spec /\ schedules'[s].due = schedules[s].due
                 /\ schedules'[s].since = schedules[s].since
                 /\ schedules'[s].gone = schedules[s].gone
                 /\ ~schedules'[s].torn
                      => ~schedules[s].torn /\ ~(phase = "rearm" /\ s \in todo)
      <3>1. CASE phase = "rearm" /\ s \in todo
        <4>1. schedules'[s] = [schedules[s] EXCEPT !.torn = TRUE]
          BY <1>1, <3>1
        <4> QED
          BY <2>1, <3>1, <4>1 DEF Rows
      <3>2. CASE ~(phase = "rearm" /\ s \in todo)
        <4>1. schedules'[s] = schedules[s]
          BY <1>1, <3>2
        <4> QED
          BY <2>1, <3>2, <4>1
      <3> QED
        BY <3>1, <3>2
    <2>3. schedules' \in [Schedules -> Rows]
      <3>1. DOMAIN schedules' = Schedules /\ schedules' = [s \in Schedules |-> schedules'[s]]
        BY <1>1
      <3> QED
        BY <2>2, <3>1
    <2> QED
      BY <2>2, <2>3
  <1>3. Lasting'
    BY <1>1, <1>2, RowsStand DEF Inv, Lasting, Owners
  <1>4. Clockwork'
    <2>1. ASSUME NEW s \in Schedules, Armed(s)' PROVE Armed(s)
      BY <1>2, <2>1 DEF Armed
    <2>2. ASSUME NEW s \in Schedules, NEW t, Covered(s, t) PROVE Covered(s, t)'
      BY <1>1, <1>2, <2>2 DEF Covered
    <2>3. ASSUME NEW s \in Schedules, NEW spec \in Specs, Armed(s)', schedules'[s].spec = spec
          PROVE  /\ schedules'[s].due \in Occurrences(spec) \cup {None}
                 /\ \A t \in Occurrences(spec) : schedules'[s].since < t => Covered(s, t)'
      BY <1>2, <2>1, <2>2, <2>3 DEF Inv, Clockwork
    <2>4. \A key \in DOMAIN fires' : fires'[key].pass = "tick" => key[2] \in FirstReadings
      BY <1>1 DEF Inv, Clockwork
    <2> QED
      BY <2>3, <2>4 DEF Clockwork
  <1>5. Shapes'
    <2>1. NoJob \in [fire : FireKeys \cup {NoKey}, at : 0..MaxTime,
                     pass : {"none", "tick", "boot", "hand"}]
      BY ScheduleAssumption DEF NoJob
    <2> QED
      BY <1>1, <1>2, <2>1, LenProperties DEF Inv, Shapes, Phases
  <1>6. Walking'
    BY <1>1 DEF Walking, Labelled, Todo, InHand, Working
  <1> QED
    BY <1>3, <1>4, <1>5, <1>6 DEF Inv

\* The elements of a finite set in sequence.
LEMMA InSequence ==
    ASSUME NEW S, IsFiniteSet(S)
    PROVE  SetToSeq(S) \in Seq(S)
  <1> DEFINE n == Cardinality(S)
             Fits(f) == f \in [1..n -> S] /\ IsInjective(f)
  <1>1. n \in Nat /\ ExistsBijection(1..n, S)
    BY FS_CardinalityType
  <1>2. PICK f : f \in Bijection(1..n, S)
    BY <1>1 DEF ExistsBijection
  <1>3. Fits(f)
    BY <1>2 DEF Bijection, Injection, IsInjective
  <1>4. SetToSeq(S) \in [1..n -> S]
    BY <1>3 DEF SetToSeq
  <1> QED
    BY <1>1, <1>4

LEMMA BootKeeps ==
    ASSUME Inv, Boot
    PROVE  Inv'
  <1> DEFINE back == {b \in Bots : ComesBack(b)}
             told == [b \in back |-> Card(Max(OpenRuns(b)), NoKey, BootReason(b), "thread")]
             news == {told[b] : b \in back}
  <1>1. /\ phase = "down" /\ phase' = "deliver" /\ todo' = Undelivered
        /\ runs' = [r \in 1..Len(runs) |->
                      IF runs[r].state \in Open THEN [runs[r] EXCEPT !.state = "lost"] ELSE runs[r]]
        /\ threads' = [b \in Bots |-> IF ComesBack(b) THEN Bare(Resurface(threads[b], BootReason(b)))
                                      ELSE threads[b]]
        /\ cards' = cards \o SetToSeq(news)
        /\ job' = [NoJob EXCEPT !.pass = "boot", !.at = now]
        /\ UNCHANGED <<now, schedules, fires, pending, claimed, spent>>
    BY DEF Boot
  <1>2. \A b \in Bots : BootReason(b) \in Reasons
    BY DEF BootReason, Reasons
  <1>3. threads' \in [Bots -> ThreadRows]
    BY <1>1, <1>2, RowsComeBack DEF Inv, Shapes
  <1>4. \A b \in back : told[b] \in Cards /\ told[b].by = "thread"
    <2> SUFFICES ASSUME NEW b \in back PROVE told[b] \in Cards /\ told[b].by = "thread"
      OBVIOUS
    <2>1. OpenRuns(b) # {} /\ OpenRuns(b) \in SUBSET (1..Len(runs))
      BY DEF ComesBack, OpenRuns, RunsOf
    <2> DEFINE last == Max(OpenRuns(b))
    <2>2. last \in Nat
      BY <2>1, LastRun
    <2> HIDE DEF last
    <2>3. Card(last, NoKey, BootReason(b), "thread") \in Cards
          /\ Card(last, NoKey, BootReason(b), "thread").by = "thread"
      BY <1>2, <2>2 DEF Card, Cards
    <2> QED
      BY <2>3 DEF last
  <1> HIDE DEF told
  <1>5. SetToSeq(news) \in Seq({card \in Cards : card.by = "thread"})
    <2>1. IsFiniteSet(back)
      BY ScheduleAssumption, FS_Subset
    <2>2. told \in Surjection(back, news)
      BY DEF Surjection, told
    <2>3. IsFiniteSet(news)
      BY <2>1, <2>2, FS_Surjection
    <2>4. SetToSeq(news) \in Seq(news) /\ news \subseteq {card \in Cards : card.by = "thread"}
      BY <1>4, <2>3, InSequence
    <2> HIDE DEF news
    <2> QED
      BY <2>4
  <1>6. ThreadsTell
    <2> DEFINE more == SetToSeq(news)
    <2> HIDE DEF news
    <2>1. /\ Len(cards) \in Nat /\ Len(more) \in Nat
          /\ \A i \in 1..Len(more) : more[i] \in Cards /\ more[i].by = "thread"
      BY <1>5, LenProperties, ElementOfSeq DEF Inv, Shapes
    <2>2. more \in Seq(Cards) /\ cards \in Seq(Cards)
      BY <1>5 DEF Inv, Shapes
    <2> HIDE DEF more
    <2>3. /\ cards' \in Seq(Cards) /\ Len(cards') = Len(cards) + Len(more)
          /\ \A i \in 1..(Len(cards) + Len(more)) :
                cards'[i] = IF i <= Len(cards) THEN cards[i] ELSE more[i - Len(cards)]
      BY <1>1, <2>2, ConcatProperties DEF more
    <2>4. Len(cards) <= Len(cards')
      BY <2>1, <2>3
    <2>5. ASSUME NEW i \in 1..Len(cards')
          PROVE  IF i <= Len(cards) THEN cards'[i] = cards[i] ELSE cards'[i].by = "thread"
      <3>1. i \in 1..(Len(cards) + Len(more))
        BY <2>3
      <3>2. CASE i <= Len(cards)
        BY <2>3, <3>1, <3>2
      <3>3. CASE ~(i <= Len(cards))
        <4>1. i - Len(cards) \in 1..Len(more)
          BY <2>1, <3>1, <3>3
        <4> QED
          BY <2>1, <2>3, <3>1, <3>3, <4>1
      <3> QED
        BY <3>2, <3>3
    <2> QED
      BY <2>3, <2>4, <2>5 DEF ThreadsTell
  <1>7. RunsGoOn /\ \A r \in 1..Len(runs) : runs'[r].state \in Terminal
    <2>1. Len(runs) \in Nat /\ \A r \in 1..Len(runs) : runs[r] \in Runs
      BY LenProperties, ElementOfSeq DEF Inv, Shapes
    <2>2. ASSUME NEW r \in 1..Len(runs)
          PROVE  /\ runs'[r] \in Runs /\ runs'[r].fire = runs[r].fire /\ runs'[r].bot = runs[r].bot
                 /\ runs'[r].state \in Terminal
                 /\ runs[r].state \in Terminal => runs'[r].state = runs[r].state
      <3>1. runs[r] \in [bot : Bots, state : RunStates, fire : FireKeys \cup {NoKey}]
        BY <2>1 DEF Runs
      <3>2. "lost" \in Terminal /\ "lost" \in RunStates
        BY DEF Terminal, RunStates
      <3>3. CASE runs[r].state \in Open
        <4> DEFINE run == [bot |-> runs[r].bot, state |-> "lost", fire |-> runs[r].fire]
        <4>1. runs'[r] = run
          BY <1>1, <3>1, <3>3
        <4>2. runs[r].state \notin Terminal
          BY <3>1, <3>3, StatesApart
        <4> QED
          BY <3>1, <3>2, <4>1, <4>2 DEF Runs
      <3>4. CASE runs[r].state \notin Open
        <4>1. runs'[r] = runs[r]
          BY <1>1, <3>4
        <4> QED
          BY <2>1, <3>1, <3>4, <4>1, StatesApart
      <3> QED
        BY <3>3, <3>4
    <2>3. runs' = [r \in 1..Len(runs) |-> runs'[r]]
      BY <1>1
    <2>4. runs' \in Seq(Runs) /\ Len(runs') = Len(runs)
      <3>1. runs' \in [1..Len(runs) -> Runs]
        BY <2>2, <2>3
      <3> QED
        BY <2>1, <3>1
    <2> QED
      BY <2>2, <2>4 DEF RunsGoOn
  <1>8. Owners' /\ ToldFires' /\ ToldCards' /\ OneCardPerFire'
    BY <1>1, <1>6, <1>7, OwnersStand, ToldStands DEF Inv, Shapes, Lasting
  <1>9. Unlinked'
    BY <1>7 DEF Unlinked, RunsGoOn
  <1>10. Clockwork'
    BY <1>1, ClockStands DEF Inv
  <1>11. job' \in [fire : FireKeys \cup {NoKey}, at : 0..MaxTime, pass : {"none", "tick", "boot", "hand"}]
         /\ job'.pass = "boot"
    BY <1>1 DEF NoJob, Inv, Shapes
  <1>12. Shapes'
    BY <1>1, <1>3, <1>6, <1>7, <1>11 DEF Inv, Shapes, Phases, ThreadsTell, RunsGoOn
  <1>13. Walking'
    BY <1>1, <1>11 DEF Inv, Walking, Labelled, Todo, InHand, Working, Undelivered
  <1> QED
    BY <1>8, <1>9, <1>10, <1>12, <1>13 DEF Inv, Lasting

-----------------------------------------------------------------------------
(* What holds of every run of the host.                                    *)

LEMMA InitInv == Init => Inv
  <1> SUFFICES ASSUME Init PROVE Inv
    OBVIOUS
  <1>1. DOMAIN fires = {} /\ Len(runs) = 0 /\ Len(cards) = 0
    BY DEF Init
  <1>2. \A s \in Schedules : ~schedules[s].exists /\ ~schedules[s].gone
    BY DEF Init, Absent
  <1>3. Shapes
    <2>1. now \in 0..MaxTime
      BY ScheduleAssumption DEF Init
    <2>2. Absent \in Rows
      BY DEF Absent, Rows, Specs
    <2>3. schedules \in [Schedules -> Rows]
      BY <2>2 DEF Init
    <2>4. fires \in [DOMAIN fires -> Fires]
      BY <1>1 DEF Init
    <2>5. runs \in Seq(Runs) /\ cards \in Seq(Cards)
      BY DEF Init
    <2>6. threads \in [Bots -> ThreadRows]
      <3>1. NewThread \in ThreadRows
        BY DEF NewThread, ThreadRows, ThreadStates, FoldPolicies, Reasons
      <3> QED
        BY <3>1 DEF Init
    <2>7. job \in [fire : FireKeys \cup {NoKey}, at : 0..MaxTime,
                   pass : {"none", "tick", "boot", "hand"}]
      BY <2>1 DEF Init, NoJob
    <2>8. phase \in Phases /\ pending \in FireKeys \cup {NoKey} /\ claimed \in 0..Len(runs)
      BY <1>1 DEF Init, Phases
    <2> QED
      BY <1>1, <2>1, <2>3, <2>4, <2>5, <2>6, <2>7, <2>8 DEF Shapes
  <1>4. Walking
    BY DEF Init, Walking, Labelled, Todo, InHand, Working
  <1>5. Lasting
    BY <1>1, <1>2 DEF Lasting, Owners, Unlinked, ToldFires, ToldCards, OneCardPerFire
  <1>6. Clockwork
    BY <1>1, <1>2 DEF Clockwork, Armed
  <1> QED
    BY <1>3, <1>4, <1>5, <1>6 DEF Inv

LEMMA PassKeeps ==
    ASSUME Inv, Pass
    PROVE  Inv'
  <1>1. CASE Tick
    BY <1>1, TickKeeps
  <1>2. ASSUME NEW key \in DOMAIN fires,
               StillRunning(key) \/ NoRunToWatch(key) \/ DeliverQuietly(key) \/ DeliverCard(key)
        PROVE  Inv'
    BY <1>2, StillRunningKeeps, NoRunToWatchKeeps, DeliverQuietlyKeeps, DeliverCardKeeps
  <1>3. CASE SettleCarded \/ Delivered \/ Ruled
    BY <1>3, SettleCardedKeeps, DeliveredKeeps, RuledKeeps
  <1>4. ASSUME NEW s \in Schedules, RuleOn(s) PROVE Inv'
    BY <1>4, RuleOnKeeps
  <1>5. CASE NoThread \/ BotBusy \/ Label
    BY <1>5, NotSentKeeps, LabelKeeps
  <1>6. CASE Sent \/ Refused \/ RefusedCard \/ Bind
    BY <1>6, SentKeeps, RefusedKeeps, RefusedCardKeeps, BindKeeps
  <1> QED
    BY <1>1, <1>2, <1>3, <1>4, <1>5, <1>6 DEF Pass

LEMMA StepKeeps ==
    ASSUME Inv, [Next]_vars
    PROVE  Inv'
  <1>1. CASE Pass
    BY <1>1, PassKeeps
  <1>2. CASE User
    <2>1. ASSUME NEW s \in Schedules, Create(s) \/ Update(s) \/ RemoveSchedule(s) \/ FireNow(s)
          PROVE  Inv'
      BY <2>1, CreateKeeps, UpdateKeeps, RemoveKeeps, FireNowKeeps
    <2>2. ASSUME NEW b \in Bots, UserPrompts(b) \/ Fold(b) \/ Reopen(b) PROVE Inv'
      BY <2>2, UserPromptsKeeps, FoldKeeps, ReopenKeeps
    <2> QED
      BY <1>2, <2>1, <2>2 DEF User
  <1>3. CASE Lifecycle
    <2>1. ASSUME NEW r \in 1..Len(runs), RunEnds(r) \/ RunAsks(r) \/ RunAnswered(r) PROVE Inv'
      BY <2>1, RunEndsKeeps, RunAsksKeeps, RunAnsweredKeeps
    <2> QED
      BY <1>3, <2>1 DEF Lifecycle
  <1>4. ASSUME NEW s \in Schedules, Rearm(s) PROVE Inv'
    BY <1>4, RearmKeeps
  <1>5. CASE TimePasses \/ Crash \/ Boot
    BY <1>5, TimeKeeps, CrashKeeps, BootKeeps
  <1>6. CASE UNCHANGED vars
    <2>1. UNCHANGED <<now, schedules, fires, runs, threads, cards, phase, todo, job, pending,
                      claimed, spent>>
      BY <1>6 DEF vars, disk
    <2>2. Shapes' /\ Walking'
      BY <2>1 DEF Inv, Shapes, Walking, Labelled, Todo, Owing, InHand, NoRun, NoCard, Carded,
                  Outcome, Undelivered
    <2>3. Lasting'
      BY <2>1 DEF Inv, Lasting, Owners, Known, Unlinked, ToldFires, ToldCards, OneCardPerFire,
                  Carded, Outcome
    <2>4. Clockwork'
      BY <2>1 DEF Inv, Clockwork, Armed, Covered
    <2> QED
      BY <2>2, <2>3, <2>4 DEF Inv
  <1> QED
    BY <1>1, <1>2, <1>3, <1>4, <1>5, <1>6 DEF Next

LEMMA InvHolds == Spec => []Inv
  <1>1. Inv /\ [Next]_vars => Inv'
    BY StepKeeps
  <1> QED
    BY InitInv, <1>1, PTL DEF Spec

\* What a fire came to is told, told once, and is its own: whatever is edited,
\* refused or cut off by a crash, a delivered fire has a run that is over and,
\* unless the user stopped it, a card; no fire has two; and no run takes the
\* label of another (deliver_fire, schedule_card, take_run_kind).
THEOREM FiresToldOnce == Spec => []FiresAreToldOnce
  <1>1. ASSUME Inv PROVE FiresAreToldOnce
    <2> USE <1>1
    <2>1. Shapes /\ Todo /\ InHand /\ Owners /\ Unlinked /\ ToldFires /\ ToldCards /\ OneCardPerFire
      BY DEF Inv, Walking, Lasting
    <2>2. \A r \in 1..Len(runs) : runs[r] \in Runs
      BY <2>1, ElementOfSeq DEF Shapes
    <2>3. TypeOK
      <3>1. \A s \in Schedules :
               /\ schedules[s].exists \in BOOLEAN /\ schedules[s].on \in BOOLEAN
               /\ schedules[s].due \in Instants \cup {None}
        BY <2>1 DEF Shapes, Rows, FirstReadings
      <3>2. \A key \in DOMAIN fires :
               /\ schedules[key[1]].exists
               /\ fires[key].state \in FireStates /\ fires[key].run \in 0..Len(runs)
        BY <2>1, LenProperties DEF Shapes, Fires, Owners
      <3>3. \A r \in 1..Len(runs) : runs[r].bot \in Bots /\ runs[r].state \in RunStates
        BY <2>2 DEF Runs
      <3>4. phase \in {"deliver", "carded"} => todo \subseteq DOMAIN fires
        BY <2>1 DEF Todo, Undelivered
      <3>5. phase \in {"rule", "rearm"} => todo \subseteq {s \in Schedules : schedules[s].exists}
        BY <2>1 DEF Todo, Owing
      <3>6. phase \in {"carded", "target", "send", "pump", "refused"} => job.fire \in DOMAIN fires
        BY <2>1 DEF Todo, InHand, Working, Undelivered
      <3> QED
        BY <2>1, <3>1, <3>2, <3>3, <3>4, <3>5, <3>6 DEF TypeOK, Shapes, Phases, Working
    <2>4. DeliveredIsSeen
      BY <2>1 DEF ToldFires, DeliveredIsSeen, Outcome, Carded
    <2>5. FireOwnsRun
      <3>1. \A key \in DOMAIN fires : fires[key].run # 0 => runs[fires[key].run].fire = key
        BY <2>1 DEF Owners
      <3>2. \A q, r \in 1..Len(runs) : runs[q].fire = runs[r].fire /\ q # r => runs[q].fire = NoKey
        BY <2>1 DEF Owners
      <3>3. \A r \in 1..Len(runs) : runs[r].fire # NoKey => runs[r].bot = BotOf[runs[r].fire[1]]
        BY <2>1 DEF Owners
      <3>4. \A key \in DOMAIN fires : fires[key].state = "failed" =>
               \A r \in 1..Len(runs) : runs[r].fire = key => runs[r].state \in Terminal
        BY <2>1 DEF Unlinked
      <3> QED
        BY <3>1, <3>2, <3>3, <3>4 DEF FireOwnsRun
    <2> QED
      BY <2>1, <2>3, <2>4, <2>5 DEF FiresAreToldOnce
  <1> QED
    BY <1>1, InvHolds, PTL

\* No occurrence of an armed schedule is forgotten, and a local time that the
\* clock repeats is not claimed twice, for any expression, zone, policy and any
\* outage (catchup.rs, cron.rs).
THEOREM OccurrencesAreKept == Spec => []OccurrencesKept
  <1>1. ASSUME Inv PROVE OccurrencesKept
    <2> USE <1>1
    <2>1. NoneForgotten
      <3> SUFFICES ASSUME NEW s \in Schedules,
                          schedules[s].exists, schedules[s].on, phase # "rearm", ~schedules[s].torn,
                          NEW t \in Occurrences(schedules[s].spec), schedules[s].since < t
                   PROVE  Covered(s, t)
        BY DEF NoneForgotten, Covered
      <3>1. Armed(s)
        BY DEF Armed
      <3>2. schedules[s].spec \in Specs
        BY DEF Inv, Shapes, Rows
      <3> QED
        BY <3>1, <3>2 DEF Inv, Clockwork
    <2>2. OncePerLocalTime
      <3> SUFFICES ASSUME NEW key \in DOMAIN fires, NEW other \in DOMAIN fires,
                          key[1] = other[1], key # other,
                          fires[key].pass = "tick", fires[other].pass = "tick",
                          Date(key[2]) = Date(other[2]), TimeOfDay(key[2]) = TimeOfDay(other[2])
                   PROVE  FALSE
        BY DEF OncePerLocalTime
      <3>1. key[2] \in FirstReadings /\ other[2] \in FirstReadings
        BY DEF Inv, Clockwork
      <3>2. key[2] \in Instants /\ other[2] \in Instants
        BY <3>1 DEF FirstReadings
      <3>3. Local(key[2]) = Local(other[2]) /\ Local(key[2]) \in Int
        BY <3>2, LocalOrder, LocalTimes
      <3>4. key[2] = other[2]
        BY <3>1, <3>3, FirstReadingsInOrder
      <3>5. key = <<key[1], key[2]>> /\ other = <<other[1], other[2]>>
        BY KeyIs DEF Inv, Shapes
      <3> QED
        BY <3>4, <3>5
    <2> QED
      BY <2>1, <2>2 DEF OccurrencesKept
  <1> QED
    BY <1>1, InvHolds, PTL

-----------------------------------------------------------------------------
(* What a walk from occurrence to occurrence counts.                       *)

\* What holds at zero, and after each number it holds at, holds up to the end.
LEMMA UpTo ==
    ASSUME NEW k \in Nat, NEW S, 0 \in S,
           \A n \in 0..k : n \in S /\ n < k => n + 1 \in S
    PROVE  0..k \subseteq S
  <1> SUFFICES ASSUME NEW m \in 0..k, m \notin S PROVE FALSE
    OBVIOUS
  <1>1. PICK n \in (0..k) \ S : \A l \in (0..k) \ S : n <= l
    <2> DEFINE Out == (0..k) \ S
    <2>1. Out \in SUBSET (0..k) /\ Out # {}
      OBVIOUS
    <2> QED
      BY <2>1, LeastOf
  <1>2. n - 1 \in 0..k /\ n - 1 < k
    BY <1>1
  <1>3. n - 1 \in S
    BY <1>1, <1>2
  <1> QED
    BY <1>1, <1>2, <1>3

\* f is the due time, and then what follows each of its values, k in all.
Walks(f, spec, due, at, k) ==
    f = [n \in 1..k |-> IF n = 1 THEN due ELSE Following(spec, f[n - 1], at)]

LEMMA WalksExist ==
    ASSUME NEW spec, NEW due, NEW at, NEW k \in Nat
    PROVE  \E f : Walks(f, spec, due, at, k)
  <1> DEFINE S == {n \in 0..k : \E f : Walks(f, spec, due, at, n)}
  <1>1. 0 \in S
    <2> DEFINE f == [n \in 1..0 |-> due]
    <2>1. f = [n \in 1..0 |-> IF n = 1 THEN due ELSE Following(spec, f[n - 1], at)]
      OBVIOUS
    <2> HIDE DEF f
    <2>2. Walks(f, spec, due, at, 0)
      BY <2>1 DEF Walks
    <2>3. 0 \in 0..k
      OBVIOUS
    <2> QED
      BY <2>2, <2>3
  <1>2. ASSUME NEW n \in 0..k, n \in S /\ n < k PROVE n + 1 \in S
    <2>1. PICK f : Walks(f, spec, due, at, n)
      BY <1>2
    <2> DEFINE g == [m \in 1..(n + 1) |-> IF m = 1 THEN due ELSE Following(spec, f[m - 1], at)]
    <2>2. \A m \in 1..n : g[m] = f[m]
      <3> SUFFICES ASSUME NEW m \in 1..n PROVE g[m] = f[m]
        OBVIOUS
      <3>1. m \in 1..(n + 1)
        OBVIOUS
      <3>2. g[m] = IF m = 1 THEN due ELSE Following(spec, f[m - 1], at)
        BY <3>1
      <3>3. f[m] = IF m = 1 THEN due ELSE Following(spec, f[m - 1], at)
        BY <2>1 DEF Walks
      <3> QED
        BY <3>2, <3>3
    <2>3. \A m \in 1..(n + 1) : m # 1 => g[m - 1] = f[m - 1]
      <3> SUFFICES ASSUME NEW m \in 1..(n + 1), m # 1 PROVE g[m - 1] = f[m - 1]
        OBVIOUS
      <3>1. m - 1 \in 1..n
        OBVIOUS
      <3> QED
        BY <2>2, <3>1
    <2>4. g = [m \in 1..(n + 1) |-> IF m = 1 THEN due ELSE Following(spec, g[m - 1], at)]
      <3>1. \A m \in 1..(n + 1) : (IF m = 1 THEN due ELSE Following(spec, f[m - 1], at))
                                = (IF m = 1 THEN due ELSE Following(spec, g[m - 1], at))
        BY <2>3
      <3> HIDE DEF g
      <3>2. g = [m \in 1..(n + 1) |-> IF m = 1 THEN due ELSE Following(spec, f[m - 1], at)]
        BY DEF g
      <3> QED
        BY <3>1, <3>2
    <2> HIDE DEF g
    <2>5. Walks(g, spec, due, at, n + 1)
      BY <2>4 DEF Walks
    <2>6. n + 1 \in 0..k
      BY <1>2
    <2> QED
      BY <2>5, <2>6
  <1> HIDE DEF S
  <1>3. 0..k \subseteq S
    BY <1>1, <1>2, UpTo
  <1>4. k \in S
    BY <1>3
  <1> QED
    BY <1>4 DEF S

LEMMA CountedIs ==
    ASSUME NEW spec, NEW due, NEW at
    PROVE  \E f : /\ Walks(f, spec, due, at, MaxScan)
                  /\ Counted(spec, due, at) = Cardinality({n \in 1..MaxScan : f[n] # None})
  <1> DEFINE f == CHOOSE g : g = [n \in 1..MaxScan |->
                                    IF n = 1 THEN due ELSE Following(spec, g[n - 1], at)]
  <1>1. MaxScan \in Nat
    BY ScheduleAssumption
  <1>2. \E g : g = [n \in 1..MaxScan |-> IF n = 1 THEN due ELSE Following(spec, g[n - 1], at)]
    <2>1. \E g : Walks(g, spec, due, at, MaxScan)
      BY <1>1, WalksExist
    <2> QED
      BY <2>1, Zenon DEF Walks
  <1>3. f = [n \in 1..MaxScan |-> IF n = 1 THEN due ELSE Following(spec, f[n - 1], at)]
    BY <1>2
  <1>4. Counted(spec, due, at) = Cardinality({n \in 1..MaxScan : f[n] # None})
    BY DEF Counted
  <1> HIDE DEF f
  <1> QED
    BY <1>3, <1>4 DEF Walks

\* The occurrences from one time to another.
Missed(spec, due, at) == Occurrences(spec) \cap (due..at)

\* No instant of an outage is in an hour the clock repeats.
Plain(due, at) ==
    /\ due \in Nat /\ at \in Nat
    /\ \A t \in due..at : t \in Instants /\ t + 1 \in Instants /\ ~InRepeatedHour(t)

LEMMA MissedIsFinite ==
    ASSUME NEW spec, NEW due, NEW at, Plain(due, at)
    PROVE  IsFiniteSet(Missed(spec, due, at))
  <1>1. due \in Int /\ at \in Int
    BY DEF Plain
  <1>2. IsFiniteSet(due..at)
    BY <1>1, FS_Interval
  <1>3. Missed(spec, due, at) \in SUBSET (due..at)
    BY DEF Missed
  <1> QED
    BY <1>2, <1>3, FS_Subset

\* Outside a repeated hour a missed occurrence is followed by the next one, or it
\* is the last.
LEMMA FollowingIs ==
    ASSUME NEW spec, NEW due, NEW at, Plain(due, at), NEW t \in Missed(spec, due, at)
    PROVE  LET u == Following(spec, t, at)
           IN \/ u = None /\ \A v \in Missed(spec, due, at) : v <= t
              \/ /\ u \in Missed(spec, due, at) /\ t < u
                 /\ \A v \in Missed(spec, due, at) : t < v => u <= v
  <1> DEFINE u == Following(spec, t, at)
             M == Missed(spec, due, at)
             ahead == {v \in Occurrences(spec) : v > t}
  <1>1. t \in Nat /\ t \in Occurrences(spec) /\ t \in due..at /\ t # None
    BY OccurrenceOf, NoneIsNoTime DEF Missed
  <1>2. t \in Instants /\ t + 1 \in Instants /\ ~InRepeatedHour(t) /\ due \in Nat /\ at \in Nat
    BY <1>1 DEF Plain
  <1>3. NextAfter(spec, t) = FirstOccurrenceAfter(spec, t)
    BY <1>2, SearchesMeanIt
  <1>4. u = NotPast(FirstOccurrenceAfter(spec, t), at)
    BY <1>1, <1>3 DEF Following
  <1>5. \A v \in Occurrences(spec) : v \in Nat /\ v # None
    BY OccurrenceOf, NoneIsNoTime
  <1>6. \A v \in M : v \in Occurrences(spec) /\ v \in Nat /\ v <= at
    BY <1>2, <1>5 DEF Missed
  <1>7. CASE ahead = {}
    <2>1. FirstOccurrenceAfter(spec, t) = None
      BY <1>7 DEF FirstOccurrenceAfter, Earliest
    <2>2. u = None
      BY <1>4, <2>1 DEF NotPast
    <2>3. \A v \in M : v <= t
      <3> SUFFICES ASSUME NEW v \in M PROVE v <= t
        OBVIOUS
      <3>1. ~(v > t) /\ v \in Nat
        BY <1>6, <1>7
      <3> QED
        BY <1>1, <3>1
    <2> QED
      BY <2>2, <2>3
  <1>8. CASE ahead # {}
    <2>1. ahead \ {None} = ahead /\ ~(ahead \subseteq {None}) /\ ahead \in SUBSET Nat
      BY <1>5, <1>8
    <2>2. FirstOccurrenceAfter(spec, t) = Min(ahead)
      BY <2>1 DEF FirstOccurrenceAfter, Earliest
    <2> DEFINE m == Min(ahead)
    <2>3. m \in ahead /\ \A v \in ahead : m <= v
      BY <1>8, <2>1, MinOf
    <2> HIDE DEF m
    <2>4. m \in Nat /\ m > t /\ m # None /\ m \in Occurrences(spec)
      BY <1>5, <2>3
    <2>5. u = NotPast(m, at)
      BY <1>4, <2>2 DEF m
    <2>6. CASE m > at
      <3>1. u = None
        BY <2>5, <2>6 DEF NotPast
      <3>2. \A v \in M : v <= t
        <4> SUFFICES ASSUME NEW v \in M PROVE v <= t
          OBVIOUS
        <4>1. v \in Nat /\ v <= at /\ v \in Occurrences(spec)
          BY <1>6
        <4>2. ~(v > t)
          <5> SUFFICES ASSUME v > t PROVE FALSE
            OBVIOUS
          <5>1. m <= v
            BY <2>3, <4>1
          <5> QED
            BY <1>2, <2>4, <2>6, <4>1, <5>1
        <4> QED
          BY <1>1, <4>1, <4>2
      <3> QED
        BY <3>1, <3>2
    <2>7. CASE ~(m > at)
      <3>1. u = m
        BY <2>4, <2>5, <2>7 DEF NotPast
      <3>2. m \in due..at
        BY <1>1, <1>2, <2>4, <2>7
      <3>3. m \in M
        BY <2>4, <3>2 DEF Missed
      <3>4. \A v \in M : t < v => m <= v
        BY <1>1, <1>6, <2>3
      <3>5. t < m
        BY <1>1, <2>4
      <3> QED
        BY <3>1, <3>3, <3>4, <3>5
    <2> QED
      BY <2>6, <2>7
  <1> QED
    BY <1>7, <1>8

\* Where a walk has come to: at a missed occurrence, having met all before it,
\* or past the last, having met them all.
Reached(f, n, M) ==
    \/ /\ f[n] \in M
       /\ \A m \in 1..(n - 1) : f[m] \in M /\ f[m] < f[n]
       /\ \A t \in M : t < f[n] => \E m \in 1..(n - 1) : f[m] = t
    \/ f[n] = None /\ \A t \in M : \E m \in 1..(n - 1) : f[m] = t

LEMMA WalkReaches ==
    ASSUME NEW spec, NEW due, NEW at, Plain(due, at), due \in Missed(spec, due, at),
           NEW k \in Nat, NEW f, Walks(f, spec, due, at, k)
    PROVE  \A n \in 1..k : Reached(f, n, Missed(spec, due, at))
  <1> DEFINE M == Missed(spec, due, at)
             S == {n \in 0..k : n = 0 \/ Reached(f, n, M)}
  <1>0. M \subseteq Nat /\ None \notin M /\ due \in Nat
    BY OccurrenceOf, NoneIsNoTime DEF Missed, Plain
  <1>1. 0 \in S
    OBVIOUS
  <1>2. ASSUME NEW n \in 0..k, n \in S /\ n < k PROVE n + 1 \in S
    <2>1. n + 1 \in 0..k /\ n + 1 \in 1..k
      BY <1>2
    <2>2. f[n + 1] = IF n + 1 = 1 THEN due ELSE Following(spec, f[(n + 1) - 1], at)
      BY <2>1 DEF Walks
    <2>3. CASE n = 0
      <3>1. f[n + 1] = due
        BY <2>2, <2>3
      <3>2. 1..((n + 1) - 1) = {}
        BY <2>3
      <3>3. \A t \in M : ~(t < due)
        BY <1>0 DEF Missed
      <3>4. Reached(f, n + 1, M)
        BY <3>1, <3>2, <3>3 DEF Reached
      <3> QED
        BY <2>1, <3>4
    <2>4. CASE n # 0
      <3> DEFINE a == f[n]
                 u == Following(spec, a, at)
      <3>1. f[n + 1] = u /\ (n + 1) - 1 = n
        BY <2>2, <2>4
      <3>2. Reached(f, n, M)
        BY <1>2, <2>4
      <3>3. \A m \in 1..n : m = n \/ m \in 1..(n - 1)
        BY <2>4
      <3>4. \A m \in 1..(n - 1) : m \in 1..n
        OBVIOUS
      <3>5. n \in 1..n
        BY <2>4
      <3>6. CASE a = None
        <4>1. a \notin M
          BY <1>0, <3>6
        <4>2. \A t \in M : \E m \in 1..(n - 1) : f[m] = t
          BY <3>2, <4>1 DEF Reached
        <4>3. \A t \in M : \E m \in 1..n : f[m] = t
          BY <3>4, <4>2
        <4>4. u = None
          BY <3>6 DEF Following
        <4>5. Reached(f, n + 1, M)
          BY <3>1, <4>3, <4>4 DEF Reached
        <4> QED
          BY <2>1, <4>5
      <3>7. CASE a # None
        <4>1. /\ a \in M
              /\ \A m \in 1..(n - 1) : f[m] \in M /\ f[m] < a
              /\ \A t \in M : t < a => \E m \in 1..(n - 1) : f[m] = t
          BY <3>2, <3>7 DEF Reached
        <4>2. \/ u = None /\ \A v \in M : v <= a
              \/ u \in M /\ a < u /\ \A v \in M : a < v => u <= v
          BY <4>1, FollowingIs
        <4> HIDE DEF u, M
        <4>3. \A t \in M : t <= a => \E m \in 1..n : f[m] = t
          <5> SUFFICES ASSUME NEW t \in M, t <= a PROVE \E m \in 1..n : f[m] = t
            OBVIOUS
          <5>1. t \in Nat /\ a \in Nat
            BY <1>0, <4>1
          <5>2. t = a \/ t < a
            BY <5>1
          <5> QED
            BY <3>4, <3>5, <4>1, <5>2
        <4>4. CASE u = None /\ \A v \in M : v <= a
          <5>1. \A t \in M : \E m \in 1..n : f[m] = t
            BY <4>3, <4>4
          <5>2. Reached(f, n + 1, M)
            BY <3>1, <4>4, <5>1 DEF Reached
          <5> QED
            BY <2>1, <5>2
        <4>5. CASE u \in M /\ a < u /\ \A v \in M : a < v => u <= v
          <5>1. \A m \in 1..n : f[m] \in M /\ f[m] < u
            <6> SUFFICES ASSUME NEW m \in 1..n PROVE f[m] \in M /\ f[m] < u
              OBVIOUS
            <6>1. f[m] \in M /\ (f[m] = a \/ f[m] < a)
              BY <3>3, <4>1
            <6>2. f[m] \in Nat /\ a \in Nat /\ u \in Nat
              BY <1>0, <4>1, <4>5, <6>1
            <6> QED
              BY <4>5, <6>1, <6>2
          <5>2. \A t \in M : t < u => \E m \in 1..n : f[m] = t
            <6> SUFFICES ASSUME NEW t \in M, t < u PROVE \E m \in 1..n : f[m] = t
              OBVIOUS
            <6>1. t \in Nat /\ a \in Nat /\ u \in Nat
              BY <1>0, <4>1, <4>5
            <6>2. ~(a < t)
              BY <4>5, <6>1
            <6>3. t <= a
              BY <6>1, <6>2
            <6> QED
              BY <4>3, <6>3
          <5>3. Reached(f, n + 1, M)
            BY <3>1, <4>5, <5>1, <5>2 DEF Reached
          <5> QED
            BY <2>1, <5>3
        <4> QED
          BY <4>2, <4>4, <4>5
      <3> QED
        BY <3>6, <3>7
    <2> QED
      BY <2>3, <2>4
  <1> HIDE DEF S
  <1>3. 0..k \subseteq S
    BY <1>1, <1>2, UpTo
  <1> SUFFICES ASSUME NEW n \in 1..k PROVE Reached(f, n, M)
    OBVIOUS
  <1>4. n \in S /\ n # 0
    BY <1>3
  <1> QED
    BY <1>4 DEF S

\* Outside a repeated hour the walk counts each missed occurrence, up to MaxScan.
LEMMA CountsMissed ==
    ASSUME NEW spec, NEW due, NEW at, Plain(due, at), due \in Missed(spec, due, at)
    PROVE  LET missed == Cardinality(Missed(spec, due, at))
           IN Counted(spec, due, at) = IF missed > MaxScan THEN MaxScan ELSE missed
  <1> DEFINE M == Missed(spec, due, at)
  <1>1. PICK f : /\ Walks(f, spec, due, at, MaxScan)
                 /\ Counted(spec, due, at) = Cardinality({n \in 1..MaxScan : f[n] # None})
    BY CountedIs
  <1> DEFINE D == {n \in 1..MaxScan : f[n] # None}
             g == [n \in D |-> f[n]]
  <1>2. MaxScan \in Nat
    BY ScheduleAssumption
  <1>3. \A n \in 1..MaxScan : Reached(f, n, M)
    BY <1>1, <1>2, WalkReaches
  <1>4. IsFiniteSet(M) /\ Cardinality(M) \in Nat
    BY MissedIsFinite, FS_CardinalityType
  <1>5. /\ IsFiniteSet(1..MaxScan) /\ Cardinality(1..MaxScan) = MaxScan
        /\ IsFiniteSet(D) /\ Cardinality(D) \in Nat /\ Cardinality(D) <= MaxScan
    <2>1. IsFiniteSet(1..MaxScan) /\ Cardinality(1..MaxScan) = MaxScan
      <3>1. 1 \in Int /\ MaxScan \in Int
        BY <1>2
      <3>2. /\ IsFiniteSet(1..MaxScan)
            /\ Cardinality(1..MaxScan) = IF 1 > MaxScan THEN 0 ELSE MaxScan - 1 + 1
        BY <3>1, FS_Interval
      <3> QED
        BY <1>2, <3>2
    <2>2. D \in SUBSET (1..MaxScan)
      OBVIOUS
    <2>3. IsFiniteSet(D) /\ Cardinality(D) <= MaxScan
      BY <2>1, <2>2, FS_Subset
    <2> QED
      BY <2>1, <2>3, FS_CardinalityType
  <1>6. M \subseteq Nat /\ None \notin M
    BY OccurrenceOf, NoneIsNoTime DEF Missed
  <1>7. \A n \in D : /\ f[n] \in M
                     /\ \A m \in 1..(n - 1) : f[m] \in M /\ f[m] < f[n]
    BY <1>3 DEF Reached
  <1> HIDE DEF M
  <1>8. g \in Injection(D, M)
    <2>1. g \in [D -> M]
      BY <1>7
    <2>2. ASSUME NEW m \in D, NEW n \in D, g[m] = g[n] PROVE m = n
      <3>1. m \in Nat /\ n \in Nat /\ f[m] = f[n] /\ m >= 1 /\ n >= 1
        BY <2>2
      <3>2. f[m] \in Nat /\ f[n] \in Nat
        BY <1>6, <1>7
      <3>3. m < n => m \in 1..(n - 1)
        BY <3>1
      <3>4. n < m => n \in 1..(m - 1)
        BY <3>1
      <3>5. ~(m < n) /\ ~(n < m)
        BY <1>7, <3>1, <3>2, <3>3, <3>4
      <3> QED
        BY <3>1, <3>5
    <2> HIDE DEF g
    <2> QED
      BY <2>1, <2>2 DEF Injection, IsInjective
  <1>9. /\ Cardinality(D) <= Cardinality(M)
        /\ Cardinality(D) = Cardinality(M) <=> g \in Surjection(D, M)
    BY <1>4, <1>8, FS_Injection
  <1>10. CASE \E n \in 1..MaxScan : f[n] = None
    <2>1. PICK n \in 1..MaxScan : f[n] = None
      BY <1>10
    <2>2. \A t \in M : \E m \in 1..(n - 1) : f[m] = t
      BY <1>3, <1>6, <2>1 DEF Reached
    <2>3. \A t \in M : \E m \in D : g[m] = t
      <3> SUFFICES ASSUME NEW t \in M PROVE \E m \in D : g[m] = t
        OBVIOUS
      <3>1. PICK m \in 1..(n - 1) : f[m] = t
        BY <2>2
      <3>2. m \in 1..MaxScan
        BY <1>2, <2>1
      <3>3. m \in D
        BY <1>6, <3>1, <3>2
      <3> QED
        BY <3>1, <3>3
    <2>4. g \in [D -> M]
      BY <1>7
    <2>5. g \in Surjection(D, M)
      <3> HIDE DEF g
      <3> QED
        BY <2>3, <2>4 DEF Surjection
    <2>6. Cardinality(D) = Cardinality(M)
      BY <1>9, <2>5
    <2> HIDE DEF D
    <2> QED
      BY <1>1, <1>2, <1>4, <1>5, <2>6 DEF D, M
  <1>11. CASE \A n \in 1..MaxScan : f[n] # None
    <2>1. D = 1..MaxScan
      BY <1>11
    <2>2. Cardinality(D) = MaxScan
      BY <1>5, <2>1
    <2>3. Counted(spec, due, at) = MaxScan
      BY <1>1, <2>2
    <2>4. MaxScan <= Cardinality(M)
      BY <1>9, <2>2
    <2> QED
      BY <1>2, <1>4, <2>3, <2>4 DEF M
  <1> QED
    BY <1>10, <1>11
-----------------------------------------------------------------------------
(* What a pass makes of an outage.                                         *)

\* What OutageIsCounted says of a schedule: what a pass claims is the newest
\* occurrence that came due, with the count of those it drops, and the schedule is
\* armed for the first one ahead.
OutageIsRuled(s) ==
    Ruled_(s) /\ ~InRepeatedHour(job.at) /\ ~schedules[s].torn =>
         \A key \in ClaimedFor(s) :
           LET spec == schedules[s].spec
               owed == schedules[s].due..job.at
               missed == Cardinality(Occurrences(spec) \cap owed)
           IN /\ key[2] = LastOccurrenceBy(spec, job.at)
              /\ schedules'[s].due = FirstOccurrenceAfter(spec, job.at)
              /\ (\A t \in owed : ~InRepeatedHour(t))
                   => fires'[key].skipped + (IF fires'[key].state = "skipped" THEN 0 ELSE 1)
                        = IF missed > MaxScan THEN MaxScan ELSE missed

\* Only a ruling claims anything while a pass rules.
LEMMA OnlyRulingClaims ==
    ASSUME phase = "rule", [Next]_vars, DOMAIN fires' # DOMAIN fires
    PROVE  \E s \in Schedules : RuleOn(s)
  <1> SUFFICES ASSUME ~ \E s \in Schedules : RuleOn(s) PROVE UNCHANGED fires
    OBVIOUS
  <1>1. CASE Pass
    BY <1>1 DEF Pass, Tick, Idle, StillRunning, NoRunToWatch, DeliverQuietly, DeliverCard,
                NextToDeliver, SettleCarded, Delivered, Ruled, NoThread, BotBusy, Label, Sent,
                Refused, RefusedCard, Bind, disk
  <1>2. CASE User
    BY <1>2 DEF User, Create, Update, RemoveSchedule, FireNow, UserPrompts, Fold, Reopen,
                MayEdit, UserActs, Idle
  <1>3. CASE Lifecycle
    BY <1>3 DEF Lifecycle, RunEnds, RunAsks, RunAnswered
  <1>4. CASE (\E s \in Schedules : Rearm(s)) \/ TimePasses \/ Crash \/ Boot \/ UNCHANGED vars
    BY <1>4 DEF Rearm, TimePasses, Crash, Boot, vars, disk
  <1> QED
    BY <1>1, <1>2, <1>3, <1>4 DEF Next

\* Of an occurrence that is owed, the walk back from now finds it or a later one.
LEMMA OwedIsPast ==
    ASSUME NEW spec, NEW at \in Instants, NEW due \in Occurrences(spec), due <= at
    PROVE  LET p == LastOccurrenceBy(spec, at) IN p # None /\ p >= due /\ p \in Nat
  <1> DEFINE past == {t \in Occurrences(spec) : t <= at}
             p == LastOccurrenceBy(spec, at)
  <1>1. at \in Nat /\ \A u \in Occurrences(spec) : u \in Nat
    BY OccurrenceOf, LocalTimes
  <1>2. past \in SUBSET (0..at) /\ due \in past /\ None \notin past
    BY <1>1, NoneIsNoTime
  <1>3. p = Max(past)
    <2>1. past \ {None} = past /\ ~(past \subseteq {None})
      BY <1>2
    <2> QED
      BY <2>1 DEF LastOccurrenceBy, Final
  <1> HIDE DEF p, past
  <1>4. p \in past /\ due <= p
    BY <1>1, <1>2, <1>3, MaxOf
  <1>5. p \in 0..at /\ due \in Nat
    BY <1>1, <1>2, <1>4
  <1> QED
    BY <1>2, <1>4, <1>5, NoneIsNoTime DEF p

\* At most one run comes out of any outage, and it is the right one: what is claimed
\* is the newest occurrence that came due, with the number of those it drops, and the
\* clock is set to the first one ahead, whatever the expression, the calendar and the
\* clock, outside the hour a clock repeats (collapse, rule_on).
THEOREM OutagesAreCounted == Spec => OutageIsCounted
  <1>1. ASSUME Inv, [Next]_vars, NEW s \in Schedules PROVE OutageIsRuled(s)
    <2> DEFINE row == schedules[s]
               missed == Cardinality(Occurrences(row.spec) \cap (row.due..job.at))
    <2> SUFFICES ASSUME Ruled_(s), ~InRepeatedHour(job.at), ~row.torn, NEW key \in ClaimedFor(s)
                 PROVE  /\ key[2] = LastOccurrenceBy(row.spec, job.at)
                        /\ schedules'[s].due = FirstOccurrenceAfter(row.spec, job.at)
                        /\ (\A t \in row.due..job.at : ~InRepeatedHour(t))
                             => fires'[key].skipped
                                  + (IF fires'[key].state = "skipped" THEN 0 ELSE 1)
                                  = IF missed > MaxScan THEN MaxScan ELSE missed
      BY DEF OutageIsRuled
    <2>1. /\ phase = "rule" /\ s \in todo /\ s \notin todo' /\ job.pass = "tick"
          /\ key \in DOMAIN fires' /\ key \notin DOMAIN fires /\ key[1] = s
      BY DEF Ruled_, ClaimedFor
    <2>2. PICK x \in Schedules : RuleOn(x)
      BY <1>1, <2>1, OnlyRulingClaims
    <2>3. x = s /\ RuleOn(s)
      BY <2>1, <2>2 DEF RuleOn
    <2>4. PICK plan \in Plans(row.spec, row.due, job.at, row.policy) :
            IF <<s, plan.due>> \in DOMAIN fires THEN UNCHANGED <<schedules, fires, phase, job>>
            ELSE Claim(s, plan, plan.next, "tick")
      BY <2>3 DEF RuleOn
    <2>5. Claim(s, plan, plan.next, "tick")
      BY <2>1, <2>4
    <2>6. key = <<s, plan.due>>
      BY <2>1, <2>5 DEF Claim
    <2>7. schedules'[s].due = plan.next
      <3>1. schedules \in [Schedules -> Rows]
        BY <1>1 DEF Inv, Shapes
      <3> QED
        BY <2>5, <3>1 DEF Claim, Rows
    <2>8. /\ plan.due = Latest(PrevAtOrBefore(row.spec, job.at), row.due)
          /\ plan.next = NextAfter(row.spec, job.at)
      BY PlanIs
    <2>9. job.at \in Instants /\ job.at + 1 \in Instants
      <3>1. job.at \in 0..MaxTime /\ MaxTime \in Nat
        BY <1>1, ScheduleAssumption DEF Inv, Shapes
      <3> QED
        BY <3>1, ScheduleAssumption
    <2>10. /\ plan.next = FirstOccurrenceAfter(row.spec, job.at)
           /\ PrevAtOrBefore(row.spec, job.at) = LastOccurrenceBy(row.spec, job.at)
      BY <2>8, <2>9, SearchesMeanIt
    <2>11. row.due \in Occurrences(row.spec) /\ row.due <= job.at
      <3>1. s \in Owing
        BY <1>1, <2>1 DEF Inv, Walking, Todo
      <3>2. Armed(s) /\ row.due # None /\ row.due <= job.at
        BY <2>1, <3>1 DEF Owing, Armed
      <3>3. row.spec \in Specs
        BY <1>1 DEF Inv, Shapes, Rows
      <3> QED
        BY <1>1, <3>2, <3>3 DEF Inv, Clockwork
    <2>12. plan.due = LastOccurrenceBy(row.spec, job.at)
      BY <2>8, <2>9, <2>10, <2>11, OwedIsPast DEF Latest
    <2>13. ASSUME \A t \in row.due..job.at : ~InRepeatedHour(t)
           PROVE  fires'[key].skipped + (IF fires'[key].state = "skipped" THEN 0 ELSE 1)
                    = IF missed > MaxScan THEN MaxScan ELSE missed
      <3>1. /\ fires'[key].skipped = plan.skipped
            /\ fires'[key].state = IF plan.fire THEN "dispatched" ELSE "skipped"
        BY <2>1, <2>5, <2>6 DEF Claim
      <3>2. /\ plan.fire \in BOOLEAN
            /\ plan.skipped = IF plan.fire THEN Counted(row.spec, row.due, job.at) - 1
                              ELSE Counted(row.spec, row.due, job.at)
        BY PlanIs
      <3>3. job.at \in 0..MaxTime /\ MaxTime \in Nat /\ row.due \in Nat /\ row.due <= job.at
        BY <1>1, <2>11, OccurrenceOf, ScheduleAssumption DEF Inv, Shapes
      <3>4. \A t \in row.due..job.at : t \in 0..(MaxTime + 1) /\ t + 1 \in 0..(MaxTime + 1)
        BY <3>3
      <3>5. Plain(row.due, job.at)
        BY <2>13, <3>3, <3>4, ScheduleAssumption DEF Plain
      <3>6. row.due \in Missed(row.spec, row.due, job.at)
        BY <2>11, <3>3 DEF Missed
      <3>7. Counted(row.spec, row.due, job.at) = IF missed > MaxScan THEN MaxScan ELSE missed
        BY <3>5, <3>6, CountsMissed DEF Missed
      <3>8. missed \in Nat /\ MaxScan \in Nat
        <4>1. IsFiniteSet(Missed(row.spec, row.due, job.at))
          BY <3>5, MissedIsFinite
        <4> QED
          BY <4>1, FS_CardinalityType, ScheduleAssumption DEF Missed
      <3> HIDE DEF missed
      <3>9. CASE plan.fire
        BY <3>1, <3>2, <3>7, <3>8, <3>9
      <3>10. CASE ~plan.fire
        BY <3>1, <3>2, <3>7, <3>8, <3>10
      <3> QED
        BY <3>9, <3>10
    <2> QED
      BY <2>6, <2>7, <2>10, <2>12, <2>13
  <1>2. Inv /\ [Next]_vars => [\A s \in Schedules : OutageIsRuled(s)]_vars
    BY <1>1
  <1>3. [][\A s \in Schedules : OutageIsRuled(s)]_vars => OutageIsCounted
    BY DEF OutageIsRuled, OutageIsCounted
  <1> QED
    BY <1>2, <1>3, InvHolds, PTL DEF Spec
=============================================================================
