----------------------------- MODULE MCSchedule -----------------------------
(***************************************************************************)
(* Schedule on small instances: days of four units, two hours of two, on a *)
(* clock that falls back in the second day and repeats its first hour, or  *)
(* springs forward over it.                                                *)
(***************************************************************************)
EXTENDS Schedule

\* Three days, the second longer by the repeated hour; the third to be armed for.
FallBack == [t \in 0..13 |-> IF t < 6 THEN 0 ELSE -2]
\* The first hour of the second day does not exist.
SpringForward == [t \in 0..9 |-> IF t < 4 THEN 0 ELSE 2]

\* One month; day 0 is a Sunday.
Days == [d \in 0..2 |-> [month |-> 1, day |-> d + 1, weekday |-> d % 2]]

Whole == {Star}
Every(minute, hour, day, weekday) ==
    [minute |-> minute, hour |-> hour, day |-> day, month |-> Whole, weekday |-> weekday]

\* Every unit of every hour, and one that does not parse.
Expressions ==
    {Every({Star}, {Part("single", 0, 0, 1), At(1)}, Whole, Whole),
     Every({At(0)}, {Part("range", 1, 0, 1)}, Whole, Whole)}
EveryMinute == {Every({Star}, {Star}, Whole, Whole)}

OneBot == [s \in Schedules |-> CHOOSE b \in Bots : TRUE]
=============================================================================
