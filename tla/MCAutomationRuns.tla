---------------------------- MODULE MCAutomationRuns ----------------------------
(* Instances of AutomationRuns: one timed and scheduled automation that is   *)
(* retried once, and one or two processes of the service.  The moments of    *)
(* its schedule are left open there (BecomesDue); that the next one is right *)
(* is evaluated here for every time of a day of six ticks and of its week.   *)
EXTENDS AutomationRuns, Schedule, TLC

CONSTANTS s1, s2, a1

Symmetric == Permutations({s1, s2})

(* What NextRunIsRight of AutomationRunsProofs says, on the zones of Zones.  *)
ASSUME NextRunsAreNext ==
    \A z \in Zones : /\ IsZone(z)
                     /\ \A s \in {r \in Schedules : r.kind # "interval"} : NextRunIsNext(z, s)
=============================================================================
