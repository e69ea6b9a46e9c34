----------------------------- MODULE RecordWrites -----------------------------
(***************************************************************************)
(* Transactions that write records (core/records.go, core/record_batch.go, *)
(* core/record_auth.go, core/rollup.go): single writes and atomic batches, *)
(* the version a client may expect, and the roll-up trigger that keeps a   *)
(* total of the children in their parent.                                  *)
(*                                                                         *)
(* READ COMMITTED: every statement sees what was committed when it began,  *)
(* and its own transaction's writes.  To write a row it waits until nobody *)
(* else has it locked, and then works on the newest version of that row,   *)
(* but what it read of other rows stays as it was: the roll-up's sum is    *)
(* read before its UPDATE waits for the parent.  A deadlock, a timeout or  *)
(* an error ends a transaction without a trace.                            *)
(***************************************************************************)
EXTENDS Integers, Sequences, Functions

CONSTANTS
  Parents, Children,
  Amounts,
  Transactions,
  NoParent,      \* of a child: it does not exist
  BatchSize,     \* 50, of runAtomicBatch; 1 of a single write
  MaxVersions    \* bound: transactions that commit

ASSUME WritesAssumption ==
  /\ NoParent \notin Parents /\ Parents \cap Children = {}
  /\ Amounts \subseteq Nat /\ BatchSize \in Nat \ {0} /\ MaxVersions \in Nat

Rows == Parents \cup Children

VARIABLES
  db,        \* committed rows: xmin, and of a parent its total, of a child its parent and amount
  xacts,     \* transactions: rows written and locked, expected versions, statements left
  commits,   \* transaction ids used
  (* history *)
  drifted    \* parents whose total was computed from a sum that was no longer true

writeVars == <<db, xacts, commits, drifted>>

NoXact == [open |-> FALSE]
Row(r) == IF r \in Parents THEN [xmin : 0 .. MaxVersions, total : Nat]
          ELSE [xmin : 0 .. MaxVersions, parent : Parents \cup {NoParent}, amount : Amounts \cup {0}]

WritesTypeOK ==
  /\ \A r \in Rows : db[r] \in Row(r)
  /\ commits \in 0 .. MaxVersions
  /\ drifted \subseteq Parents
  /\ \A t \in Transactions : xacts[t].open =>
       /\ DOMAIN xacts[t].wrote \subseteq xacts[t].locked /\ xacts[t].locked \subseteq Rows
       /\ xacts[t].ops \in 0 .. BatchSize
       /\ Len(xacts[t].rollups) <= 2

WritesInit ==
  /\ db = [r \in Rows |-> IF r \in Parents THEN [xmin |-> 0, total |-> 0]
                          ELSE [xmin |-> 0, parent |-> NoParent, amount |-> 0]]
  /\ xacts = [t \in Transactions |-> NoXact]
  /\ commits = 0
  /\ drifted = {}

------------------------------------------------------------------------------
Live(t) == xacts[t].open
LockFree(t, r) == \A s \in Transactions \ {t} : Live(s) => r \notin xacts[s].locked

\* What a statement of t sees, and the sum over the children of p there.
Visible(t, r) == IF r \in DOMAIN xacts[t].wrote THEN xacts[t].wrote[r] ELSE db[r]
AmountsOf(rows, p) == [c \in {x \in Children : rows[x].parent = p} |-> rows[c].amount]
VisibleTotal(t, p) == SumFunction(AmountsOf([c \in Children |-> Visible(t, c)], p))

\* Between statements.
Ready(t) == Live(t) /\ xacts[t].rollups = <<>> /\ xacts[t].ops > 0

\* The largest batch allowed; a batch cannot name a version, a single write may.
BeginXact(t, ops) ==
  /\ ~Live(t)
  /\ xacts' = [xacts EXCEPT ![t] = [open |-> TRUE, ops |-> ops, wrote |-> <<>>, locked |-> {},
                                    expected |-> <<>>, rollups |-> <<>>, sum |-> -1]]
  /\ UNCHANGED <<db, commits, drifted>>

assertRecordVersion_Unlocked(t, r) ==
  /\ Ready(t) /\ xacts[t].ops = 1 /\ xacts[t].expected = <<>> /\ xacts[t].locked = {}
  /\ xacts' = [xacts EXCEPT ![t].expected = <<r, db[r].xmin>>]
  /\ UNCHANGED <<db, commits, drifted>>

\* The row is locked and has the version its client loaded: another one is a conflict, which
\* changes nothing.
assertRecordVersion(t, r) ==
  /\ Ready(t) /\ xacts[t].ops = 1 /\ xacts[t].expected = <<>> /\ xacts[t].locked = {}
  /\ LockFree(t, r)
  /\ xacts' = [xacts EXCEPT ![t].expected = <<r, db[r].xmin>>, ![t].locked = {r}]
  /\ UNCHANGED <<db, commits, drifted>>

Writes(t, r, row) ==
  [xacts[t] EXCEPT !.wrote = [x \in DOMAIN @ \cup {r} |-> IF x = r THEN row ELSE @[x]],
                   !.locked = @ \cup {r}]

MayWrite(t, r) ==
  /\ Ready(t) /\ LockFree(t, r)
  /\ xacts[t].expected # <<>> => xacts[t].expected[1] = r

\* A parent's total is the database's: what a client writes are its other fields.
UpdateParent(t, p) ==
  /\ MayWrite(t, p)
  /\ xacts' = [xacts EXCEPT ![t] = [Writes(t, p, Visible(t, p)) EXCEPT !.ops = @ - 1]]
  /\ UNCHANGED <<db, commits, drifted>>

\* Creates, updates, moves or deletes a child; the trigger then sees to its old parent and,
\* if that is another one, to the new.
RollupsOf_NewOnly(old, new) == IF new # NoParent THEN <<new>> ELSE <<old>>
RollupsOf(old, new) ==
  (IF old # NoParent THEN <<old>> ELSE <<>>) \o
  (IF new # NoParent /\ new # old THEN <<new>> ELSE <<>>)

WriteChild(t, c, p, amount) ==
  LET old == Visible(t, c)
  IN /\ MayWrite(t, c)
     /\ old.parent = NoParent => p # NoParent
     /\ p = NoParent <=> amount = 0
     /\ xacts' = [xacts EXCEPT ![t] =
          [Writes(t, c, [old EXCEPT !.parent = p, !.amount = amount]) EXCEPT
             !.ops = @ - 1, !.rollups = RollupsOf(old.parent, p)]]
     /\ UNCHANGED <<db, commits, drifted>>

\* The trigger's UPDATE reads its sum.
RollupRead(t) ==
  /\ Live(t) /\ xacts[t].rollups # <<>> /\ xacts[t].sum = -1
  /\ xacts' = [xacts EXCEPT ![t].sum = VisibleTotal(t, Head(xacts[t].rollups))]
  /\ UNCHANGED <<db, commits, drifted>>

\* The parent is free: its newest version gets the sum.
RollupWrite(t) ==
  /\ Live(t) /\ xacts[t].sum # -1
  /\ LET p == Head(xacts[t].rollups)
     IN /\ LockFree(t, p)
        /\ xacts' = [xacts EXCEPT ![t] =
             [Writes(t, p, [Visible(t, p) EXCEPT !.total = xacts[t].sum]) EXCEPT
                !.rollups = Tail(@), !.sum = -1]]
        /\ drifted' = IF xacts[t].sum # VisibleTotal(t, p) THEN drifted \cup {p} ELSE drifted
  /\ UNCHANGED <<db, commits>>

CommitXact(t) ==
  /\ Live(t) /\ xacts[t].rollups = <<>> /\ xacts[t].ops = 0
  /\ commits < MaxVersions
  /\ commits' = commits + 1
  /\ db' = [r \in Rows |-> IF r \in DOMAIN xacts[t].wrote
                           THEN [xacts[t].wrote[r] EXCEPT !.xmin = commits + 1] ELSE db[r]]
  /\ xacts' = [xacts EXCEPT ![t] = NoXact]
  /\ UNCHANGED drifted

RollBack(t) ==
  /\ Live(t)
  /\ xacts' = [xacts EXCEPT ![t] = NoXact]
  /\ UNCHANGED <<db, commits, drifted>>

WritesNext ==
  \E t \in Transactions :
    \/ \E ops \in 1 .. BatchSize : BeginXact(t, ops)
    \/ \E r \in Rows : assertRecordVersion(t, r)
    \/ \E p \in Parents : UpdateParent(t, p)
    \/ \E c \in Children, p \in Parents \cup {NoParent}, amount \in Amounts \cup {0} :
         WriteChild(t, c, p, amount)
    \/ RollupRead(t) \/ RollupWrite(t) \/ CommitXact(t) \/ RollBack(t)

WritesSpec == WritesInit /\ [][WritesNext]_writeVars

------------------------------------------------------------------------------
(* Properties *)

\* What a client loaded is what its versioned write replaces: no other request, batch or
\* roll-up changes the row between the comparison and the commit.
VersionHolds ==
  \A t \in Transactions : Live(t) /\ xacts[t].expected # <<>> =>
    db[xacts[t].expected[1]].xmin = xacts[t].expected[2]

CommittedTotal(p) == SumFunction(AmountsOf(db, p))

\* Totals are those of the children, however writes, moves and batches interleave, as long as
\* no trigger had to wait for the parent while its sum went stale.
TotalsHold == \A p \in Parents \ drifted : db[p].total = CommittedTotal(p)
===============================================================================
