---------------------------- MODULE EventDelivery ----------------------------
(***************************************************************************)
(* What the outbox promises to whoever subscribed to a record: a committed *)
(* write owes one event, the event is handed out at least once, and the    *)
(* debt is written off only after that.  Handing the same event out again  *)
(* is allowed, writing it off undelivered is not ("a duplicate event is    *)
(* recoverable, a lost one is not", apis/records.go).                      *)
(***************************************************************************)
CONSTANT Events

VARIABLES
  committed,   \* events whose write has committed
  delivered,   \* events handed to the subscribers at least once
  settled      \* events nobody will hand out again

evars == <<committed, delivered, settled>>

EInit ==
  /\ committed = {}
  /\ delivered = {}
  /\ settled = {}

\* A transaction commits and owes all its events at once.
Commit(E) ==
  /\ E \cap committed = {}
  /\ committed' = committed \cup E
  /\ UNCHANGED <<delivered, settled>>

Deliver(e) ==
  /\ e \in committed
  /\ delivered' = delivered \cup {e}
  /\ UNCHANGED <<committed, settled>>

Settle(e) ==
  /\ e \in delivered
  /\ settled' = settled \cup {e}
  /\ UNCHANGED <<committed, delivered>>

ENext ==
  \/ \E E \in SUBSET Events : Commit(E)
  \/ \E e \in Events : Deliver(e) \/ Settle(e)

ESpec == EInit /\ [][ENext]_evars
==============================================================================
