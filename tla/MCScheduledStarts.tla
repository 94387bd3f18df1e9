-------------------------- MODULE MCScheduledStarts --------------------------
(* An instance of ScheduledStarts: days of six ticks, the clock put back or  *)
(* forward by two of them, and every daily and weekly time.                  *)
EXTENDS ScheduledStarts
=============================================================================
