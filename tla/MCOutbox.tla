------------------------------ MODULE MCOutbox -------------------------------
(* Small instances of Outbox: who serves which request. *)
EXTENDS Outbox

CONSTANTS q1, q2, r1, r2

\* Every replica serves a request, or all requests share one.
MCHome == [q \in Requests |-> IF q = q1 THEN r1 ELSE r2]
OneHome == [q \in Requests |-> r1]

\* What goes wrong, or who else writes, in each instance.
RecordFaults == {"noop", "respelled", "slow", "crash", "markFails"}
SweepFaults == {"batch", "silent", "enqueueFails", "claimFails", "lockLost"}
FairFaults == {"silent", "respelled", "crash", "enqueueFails", "markFails", "claimFails"}
TimelyFaults == {"crash", "enqueueFails", "markFails", "claimFails"}
EnqueueFailsOnly == {"enqueueFails"}
==============================================================================
