---------------------------- MODULE MCReminders ----------------------------
(* A clock of a few hours with a window from 1 to 3 hours ahead: as wide as   *)
(* the real one, 23 to 25, and nearer so that the clock can stay short.       *)
EXTENDS Reminders, TLC

CONSTANTS a1, a2, r1, r2

Symmetry == Permutations(Runs)

=============================================================================
