------------------------------ MODULE Schedule ------------------------------
(* When a scheduled automation runs next: compute_next_run_at (automation/   *)
(* scheduler/schedule.py), with the arithmetic of Python's aware datetimes.  *)
(*                                                                           *)
(* Instants and wall-clock times are counted in ticks of a part of a day     *)
(* (the code's minutes; seconds are set to 0 and play no part).  A zone is   *)
(* an offset that changes at most once: enough to have an hour that the wall *)
(* clock shows twice, or never.                                              *)
EXTENDS Integers

CONSTANTS
    TicksPerDay,
    Horizon        \* bound: the instants 0..Horizon are looked at

ASSUME ScheduleAssumption == TicksPerDay \in Nat \ {0} /\ Horizon \in Nat

Week == 7 * TicksPerDay

(* A schedule: every `interval' ticks, or at the tick `at' of each day or of *)
(* one day of the week (counted from the day of instant 0).                  *)
Schedules ==
    [kind : {"interval"}, interval : 1..TicksPerDay]
        \cup [kind : {"daily"}, at : 0..(TicksPerDay - 1)]
        \cup [kind : {"weekly"}, at : 0..(Week - 1)]

(* The clock is put back or forward, by a third of a day, somewhere in the   *)
(* first day of the second week.                                             *)
Shift == TicksPerDay \div 3
Zones == [change : Week..(Week + TicksPerDay - 1), before : {Shift}, after : {0, 2 * Shift}]

(* Any zone of this kind: the clock is set by a day at most, which is what   *)
(* moving to the other side of the date line takes.                          *)
IsZone(z) ==
    /\ z.change \in Int /\ z.before \in Int /\ z.after \in Int
    /\ z.before - z.after <= TicksPerDay /\ z.after - z.before <= TicksPerDay

Earlier(z) == IF z.before < z.after THEN z.before ELSE z.after
Later(z) == IF z.before < z.after THEN z.after ELSE z.before

(* ZoneInfo: what the wall shows at an instant, and whether for the second   *)
(* time (fold = 1).                                                          *)
Local(z, i) ==
    [wall |-> i + (IF i < z.change THEN z.before ELSE z.after),
     fold |-> IF i >= z.change /\ i + z.after < z.change + z.before THEN 1 ELSE 0]

(* ... and back.  A time shown twice is told by its fold; one that is never  *)
(* shown is read with the offset from before the change, or, with fold = 1,  *)
(* from after it.                                                            *)
Utc(z, t) ==
    t.wall - (CASE t.wall < z.change + Earlier(z) -> z.before
                [] t.wall >= z.change + Later(z) -> z.after
                [] OTHER -> IF t.fold = 0 THEN z.before ELSE z.after)

(* replace(hour=, minute=) keeps the fold; adding a timedelta clears it, one *)
(* of no days included.                                                      *)
SetTime(t, tick) == [t EXCEPT !.wall = (@ \div TicksPerDay) * TicksPerDay + tick]
PlusDays(t, days) == [wall |-> t.wall + days * TicksPerDay, fold |-> 0]
Weekday(t) == (t.wall \div TicksPerDay) % 7

(* Two times of one zone are compared by what the wall shows.                *)
NextDaily(z, tick, now) ==
    LET t == Local(z, now)
        candidate == SetTime(t, tick)
    IN  Utc(z, IF candidate.wall <= t.wall THEN PlusDays(candidate, 1) ELSE candidate)

NextWeekly(z, day, tick, now) ==
    LET t == Local(z, now)
        candidate == PlusDays(SetTime(t, tick), (day - Weekday(t)) % 7)
    IN  Utc(z, IF candidate.wall <= t.wall THEN PlusDays(candidate, 7) ELSE candidate)

NextRunAt(z, s, now) ==
    CASE s.kind = "interval" -> now + s.interval
      [] s.kind = "daily" -> NextDaily(z, s.at, now)
      [] s.kind = "weekly" -> NextWeekly(z, s.at \div TicksPerDay, s.at % TicksPerDay, now)

-----------------------------------------------------------------------------
(* What the schedule says, told without clocks being set: the wall times it  *)
(* names, and the instants that show them.  A time that is never shown comes *)
(* as long after midnight as on any other day.                               *)
Instants == 0..Horizon
Names(s, wall) ==
    \/ s.kind = "daily" /\ wall % TicksPerDay = s.at
    \/ s.kind = "weekly" /\ wall % Week = s.at
NeverShown(z, wall) == \A i \in Instants : Local(z, i).wall # wall

Shown(z, s) == {i \in Instants : Names(s, Local(z, i).wall)}
MadeUp(z, s) == {i \in Instants : Names(s, i + z.before) /\ NeverShown(z, i + z.before)}
Occurrences(z, s) == Shown(z, s) \cup MadeUp(z, s)

SecondPasses(z, s) == {i \in Shown(z, s) : Local(z, i).fold = 1}

(* The one case in which the next run is not ahead: the wall shows a part of *)
(* the day again, the schedule names a time later in that part, and days are *)
(* added to get there.  Weekly times add none on their own day; daily ones   *)
(* only when the clock is put back across midnight.                          *)
ReadAsFirstPass(z, s, now) ==
    /\ Local(z, now).fold = 1
    /\ \E i \in SecondPasses(z, s) :
          /\ i > now
          /\ \/ s.kind = "weekly"
             \/ Local(z, i).wall \div TicksPerDay # Local(z, now).wall \div TicksPerDay

(* Everywhere else the next run is an occurrence ahead of the moment it is   *)
(* computed at, and the only ones passed over are the second showing of a    *)
(* time and one that is never shown.                                         *)
NextRunIsNext(z, s) ==
    LET occurrences == Occurrences(z, s)
        seconds == SecondPasses(z, s) \cup MadeUp(z, s)
    IN  \A now \in 0..(Horizon - Week - TicksPerDay) :
          LET next == NextRunAt(z, s, now)
          IN  IF ReadAsFirstPass(z, s, now)
              THEN next <= now
              ELSE /\ next > now /\ next \in occurrences
                   /\ \A i \in occurrences : now < i /\ i < next => i \in seconds
=============================================================================
