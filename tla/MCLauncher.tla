------------------------------ MODULE MCLauncher ------------------------------
(* Two CLI processes, one that stops, reloads or checks the daemon (which is *)
(* what a recovery consists of), and one with plain commands; the daemon of  *)
(* an older version and two of this one.                                     *)
EXTENDS Launcher

CONSTANTS c1, c2, d0, d1, d2

MCPrograms == [c \in {c1, c2} |->
                  IF c = c1 THEN {Stop, Reload, Check} ELSE {Command}]
=============================================================================
