----------------------------- MODULE MCScheduler ----------------------------
(* Scheduler with an expression that occurs at 1 and 2 and then, having a  *)
(* year in it, runs out.                                                   *)
EXTENDS Scheduler, TLC

CONSTANTS twice

MCOccurs == [c \in Cron |-> {1, 2}]

(* Two requests in progress differ in nothing but their names.            *)
MCSymmetry == Permutations(Request)
=============================================================================
