---------------------------- MODULE MCScheduledJobs --------------------------
(* Instances of ScheduledJobs for TLC. *)
EXTENDS ScheduledJobs, TLC

CONSTANTS j1, b1, b2, Nightly, nightly, weekly, full

\* Two names that are stored in lower case, and differ there.
MCName == (b1 :> Nightly) @@ (b2 :> weekly)
MCScope == [j \in {b1, b2} |-> full]
MCFolded == (Nightly :> nightly) @@ (weekly :> weekly)

\* A schedule of every instant, one with a gap and one that is an interval.
Often == [at |-> Times, every |-> 0]
Seldom == [at |-> {1, MaxTime}, every |-> 0]
Every == [at |-> {}, every |-> 1]
MCSchedules == {Often, Seldom}
MCIntervals == {Every, Seldom}
Faults == {"createFails", "finishFails", "advanceFails", "interrupted"}
NoFaults == {}
==============================================================================
