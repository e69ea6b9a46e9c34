--------------------------- MODULE RecordsProofs ---------------------------
(***************************************************************************)
(* Proofs about RecordWrites, for any rows, transactions and batches,      *)
(* about FieldValues, for any definitions of a field, about Collections,   *)
(* for any schemas, servers and changes of them, and about FileUploads,    *)
(* for any files, records and faults.                                      *)
(***************************************************************************)
EXTENDS RecordWrites, FieldValues, Collections, FileUploads, TLAPS

\* A transaction under way has all of its fields.
Fields == {"open", "ops", "wrote", "locked", "expected", "rollups", "sum"}
XactsOK ==
  /\ DOMAIN xacts = Transactions
  /\ \A t \in Transactions : Live(t) => DOMAIN xacts[t] = Fields

\* Rows are locked by one transaction at a time, which locks what it writes and what it compared.
LockInv ==
  /\ \A t \in Transactions : Live(t) =>
       /\ DOMAIN xacts[t].wrote \subseteq xacts[t].locked
       /\ xacts[t].expected # <<>> => xacts[t].expected[1] \in xacts[t].locked \cap Rows
  /\ \A s, t \in Transactions :
       Live(s) /\ Live(t) /\ s # t => xacts[s].locked \cap xacts[t].locked = {}

WritesInv == XactsOK /\ LockInv /\ VersionHolds

LEMMA WritesInitially == WritesInit => WritesInv
BY DEF WritesInit, WritesInv, XactsOK, LockInv, VersionHolds, Live, NoXact

\* A step of t that leaves the table alone, and locks only what is free.
LEMMA LocksFree ==
  ASSUME WritesInv, NEW t \in Transactions, NEW x, Live(t),
         xacts' = [xacts EXCEPT ![t] = x], UNCHANGED db,
         x.open, DOMAIN x = Fields,
         DOMAIN x.wrote \subseteq x.locked,
         xacts[t].locked \subseteq x.locked,
         \A r \in x.locked \ xacts[t].locked : LockFree(t, r),
         x.expected = xacts[t].expected
  PROVE  WritesInv'
<1>1. /\ DOMAIN xacts' = Transactions /\ xacts'[t] = x
      /\ \A s \in Transactions \ {t} : xacts'[s] = xacts[s]
  BY DEF WritesInv, XactsOK
<1>2. XactsOK'
  BY <1>1 DEF WritesInv, XactsOK, Live
<1>3. \A s \in Transactions : Live(s)' <=> Live(s)
  BY <1>1 DEF Live
<1>4. LockInv'
  <2>1. ASSUME NEW s \in Transactions, Live(s)'
        PROVE  /\ DOMAIN xacts'[s].wrote \subseteq xacts'[s].locked
               /\ xacts'[s].expected # <<>> => xacts'[s].expected[1] \in xacts'[s].locked \cap Rows
    BY <1>1, <1>3, <2>1 DEF WritesInv, LockInv
  <2>2. ASSUME NEW s \in Transactions, Live(s)', s # t
        PROVE  xacts'[s].locked \cap xacts'[t].locked = {}
    BY <1>1, <1>3, <2>2 DEF WritesInv, LockInv, LockFree
  <2> QED BY <1>1, <1>3, <2>1, <2>2 DEF WritesInv, LockInv
<1>5. VersionHolds'
  BY <1>1, <1>3 DEF WritesInv, VersionHolds
<1> QED BY <1>2, <1>4, <1>5 DEF WritesInv

\* A transaction that has ended, or not yet done anything, is in nobody's way.
LEMMA Harmless ==
  ASSUME WritesInv, NEW t \in Transactions, NEW x, UNCHANGED db,
         xacts' = [xacts EXCEPT ![t] = x],
         x = NoXact \/ \E ops : x = [open |-> TRUE, ops |-> ops, wrote |-> <<>>, locked |-> {},
                                     expected |-> <<>>, rollups |-> <<>>, sum |-> -1]
  PROVE  WritesInv'
<1>1. /\ DOMAIN xacts' = Transactions /\ xacts'[t] = x
      /\ \A s \in Transactions \ {t} : xacts'[s] = xacts[s]
  BY DEF WritesInv, XactsOK
<1>2. x.open => /\ DOMAIN x = Fields
                /\ DOMAIN x.wrote = {} /\ x.locked = {} /\ x.expected = <<>>
  BY DEF NoXact, Fields
<1>3. XactsOK'
  BY <1>1, <1>2 DEF WritesInv, XactsOK, Live
<1>4. LockInv'
  BY <1>1, <1>2 DEF WritesInv, LockInv, Live
<1>5. VersionHolds'
  BY <1>1, <1>2 DEF WritesInv, VersionHolds, Live
<1> QED BY <1>3, <1>4, <1>5 DEF WritesInv

\* What a write leaves of its transaction.
LEMMA WrittenRow ==
  ASSUME WritesInv, NEW t \in Transactions, Live(t), NEW r, NEW row
  PROVE  LET x == Writes(t, r, row)
         IN /\ x.open /\ DOMAIN x = Fields
            /\ DOMAIN x.wrote = DOMAIN xacts[t].wrote \cup {r}
            /\ x.locked = xacts[t].locked \cup {r} /\ x.expected = xacts[t].expected
<1>1. DOMAIN xacts[t] = Fields /\ xacts[t].open
  BY DEF WritesInv, XactsOK, Live
<1> QED BY <1>1 DEF Writes, Fields

LEMMA WritesPreserved == ASSUME WritesInv, [WritesNext]_writeVars PROVE WritesInv'
<1>1. CASE UNCHANGED writeVars
  BY <1>1 DEF writeVars, WritesInv, XactsOK, LockInv, VersionHolds, Live
<1>2. ASSUME NEW t \in Transactions, NEW ops \in 1 .. BatchSize, BeginXact(t, ops) PROVE WritesInv'
  BY <1>2, Harmless DEF BeginXact
<1>3. ASSUME NEW t \in Transactions, NEW r \in Rows, assertRecordVersion(t, r) PROVE WritesInv'
  <2> DEFINE x == xacts'[t]
  <2>1. /\ Live(t) /\ xacts[t].expected = <<>> /\ xacts[t].locked = {} /\ LockFree(t, r)
        /\ UNCHANGED db
    BY <1>3 DEF assertRecordVersion, Ready
  <2>2. /\ DOMAIN xacts' = Transactions
        /\ \A s \in Transactions \ {t} : xacts'[s] = xacts[s]
        /\ x.open /\ DOMAIN x = Fields /\ x.wrote = xacts[t].wrote
        /\ x.locked = {r} /\ x.expected = <<r, db[r].xmin>>
    BY <1>3, <2>1 DEF assertRecordVersion, WritesInv, XactsOK, Live, Fields
  <2>3. DOMAIN xacts[t].wrote = {}
    BY <2>1 DEF WritesInv, LockInv
  <2>4. XactsOK'
    BY <2>2 DEF WritesInv, XactsOK, Live
  <2>5. LockInv'
    <3>1. ASSUME NEW s \in Transactions \ {t}, Live(s)' PROVE xacts'[s].locked \cap {r} = {}
      BY <2>1, <2>2, <3>1 DEF LockFree, Live
    <3>2. Live(t)' /\ DOMAIN x.wrote \subseteq x.locked /\ x.expected[1] \in x.locked \cap Rows
      BY <2>2, <2>3 DEF Live
    <3> QED BY <2>2, <3>1, <3>2 DEF WritesInv, LockInv, Live
  <2>6. VersionHolds'
    BY <2>1, <2>2 DEF WritesInv, VersionHolds, Live
  <2> QED BY <2>4, <2>5, <2>6 DEF WritesInv
<1>4. ASSUME NEW t \in Transactions, NEW p \in Parents, UpdateParent(t, p) PROVE WritesInv'
  <2> DEFINE y == Writes(t, p, Visible(t, p))
             x == [y EXCEPT !.ops = @ - 1]
  <2>1. Live(t) /\ LockFree(t, p) /\ xacts' = [xacts EXCEPT ![t] = x] /\ UNCHANGED db
    BY <1>4 DEF UpdateParent, MayWrite, Ready
  <2>2. /\ y.open /\ DOMAIN y = Fields
        /\ DOMAIN y.wrote = DOMAIN xacts[t].wrote \cup {p}
        /\ y.locked = xacts[t].locked \cup {p} /\ y.expected = xacts[t].expected
    BY <2>1, WrittenRow
  <2> HIDE DEF y
  <2>3. /\ x.open /\ DOMAIN x = Fields /\ x.wrote = y.wrote
        /\ x.locked = y.locked /\ x.expected = y.expected
    BY <2>2 DEF Fields
  <2> HIDE DEF x
  <2>4. DOMAIN xacts[t].wrote \subseteq xacts[t].locked
    BY <2>1 DEF WritesInv, LockInv
  <2> QED BY <2>1, <2>2, <2>3, <2>4, LocksFree
<1>5. ASSUME NEW t \in Transactions, NEW c \in Children, NEW p \in Parents \cup {NoParent},
             NEW amount \in Amounts \cup {0}, WriteChild(t, c, p, amount)
      PROVE  WritesInv'
  <2> DEFINE old == Visible(t, c)
             y == Writes(t, c, [old EXCEPT !.parent = p, !.amount = amount])
             x == [y EXCEPT !.ops = @ - 1, !.rollups = RollupsOf(old.parent, p)]
  <2>1. Live(t) /\ LockFree(t, c) /\ xacts' = [xacts EXCEPT ![t] = x] /\ UNCHANGED db
    BY <1>5 DEF WriteChild, MayWrite, Ready
  <2>2. /\ y.open /\ DOMAIN y = Fields
        /\ DOMAIN y.wrote = DOMAIN xacts[t].wrote \cup {c}
        /\ y.locked = xacts[t].locked \cup {c} /\ y.expected = xacts[t].expected
    BY <2>1, WrittenRow
  <2> HIDE DEF y
  <2>3. /\ x.open /\ DOMAIN x = Fields /\ x.wrote = y.wrote
        /\ x.locked = y.locked /\ x.expected = y.expected
    BY <2>2 DEF Fields
  <2> HIDE DEF x
  <2>4. DOMAIN xacts[t].wrote \subseteq xacts[t].locked
    BY <2>1 DEF WritesInv, LockInv
  <2> QED BY <2>1, <2>2, <2>3, <2>4, LocksFree
<1>6. ASSUME NEW t \in Transactions, RollupRead(t) PROVE WritesInv'
  <2> DEFINE x == [xacts[t] EXCEPT !.sum = VisibleTotal(t, Head(xacts[t].rollups))]
  <2>1. Live(t) /\ xacts' = [xacts EXCEPT ![t] = x] /\ UNCHANGED db
    BY <1>6 DEF RollupRead
  <2>2. /\ x.open /\ DOMAIN x = Fields /\ x.wrote = xacts[t].wrote
        /\ x.locked = xacts[t].locked /\ x.expected = xacts[t].expected
    BY <2>1 DEF WritesInv, XactsOK, Live, Fields
  <2> HIDE DEF x
  <2>3. DOMAIN xacts[t].wrote \subseteq xacts[t].locked
    BY <2>1 DEF WritesInv, LockInv
  <2> QED BY <2>1, <2>2, <2>3, LocksFree
<1>7. ASSUME NEW t \in Transactions, RollupWrite(t) PROVE WritesInv'
  <2> DEFINE p == Head(xacts[t].rollups)
             y == Writes(t, p, [Visible(t, p) EXCEPT !.total = xacts[t].sum])
             x == [y EXCEPT !.rollups = Tail(@), !.sum = -1]
  <2>1. Live(t) /\ LockFree(t, p) /\ xacts' = [xacts EXCEPT ![t] = x] /\ UNCHANGED db
    BY <1>7 DEF RollupWrite
  <2>2. /\ y.open /\ DOMAIN y = Fields
        /\ DOMAIN y.wrote = DOMAIN xacts[t].wrote \cup {p}
        /\ y.locked = xacts[t].locked \cup {p} /\ y.expected = xacts[t].expected
    BY <2>1, WrittenRow
  <2> HIDE DEF y
  <2>3. /\ x.open /\ DOMAIN x = Fields /\ x.wrote = y.wrote
        /\ x.locked = y.locked /\ x.expected = y.expected
    BY <2>2 DEF Fields
  <2> HIDE DEF x
  <2>4. DOMAIN xacts[t].wrote \subseteq xacts[t].locked
    BY <2>1 DEF WritesInv, LockInv
  <2> QED BY <2>1, <2>2, <2>3, <2>4, LocksFree
<1>8. ASSUME NEW t \in Transactions, CommitXact(t) PROVE WritesInv'
  <2>1. Live(t) /\ xacts' = [xacts EXCEPT ![t] = NoXact]
    BY <1>8 DEF CommitXact
  <2>2. /\ DOMAIN xacts' = Transactions /\ xacts'[t] = NoXact
        /\ \A s \in Transactions \ {t} : xacts'[s] = xacts[s]
    BY <2>1 DEF WritesInv, XactsOK
  <2>3. ~Live(t)'
    BY <2>2 DEF Live, NoXact
  <2>4. XactsOK'
    BY <2>2, <2>3 DEF WritesInv, XactsOK, Live
  <2>5. LockInv'
    BY <2>2, <2>3 DEF WritesInv, LockInv, Live
  <2>6. \A r \in Rows : r \notin DOMAIN xacts[t].wrote => db'[r] = db[r]
    BY <1>8 DEF CommitXact
  <2>7. ASSUME NEW s \in Transactions, Live(s)', xacts'[s].expected # <<>>
        PROVE  db'[xacts'[s].expected[1]].xmin = xacts'[s].expected[2]
    <3>1. s # t /\ xacts'[s] = xacts[s] /\ Live(s)
      BY <2>2, <2>3, <2>7 DEF Live
    <3>2. xacts[s].expected[1] \in Rows /\ xacts[s].expected[1] \notin DOMAIN xacts[t].wrote
      BY <2>1, <2>7, <3>1 DEF WritesInv, LockInv
    <3> QED BY <2>6, <2>7, <3>1, <3>2 DEF WritesInv, VersionHolds
  <2> QED BY <2>4, <2>5, <2>7 DEF WritesInv, VersionHolds
<1>9. ASSUME NEW t \in Transactions, RollBack(t) PROVE WritesInv'
  BY <1>9, Harmless DEF RollBack
<1> QED BY <1>1, <1>2, <1>3, <1>4, <1>5, <1>6, <1>7, <1>8, <1>9 DEF WritesNext

\* The version that a write compared is that of the row until the write commits, for any number
\* of transactions, batches and roll-ups that write the same rows (assertRecordVersion).
THEOREM NoLostUpdate == WritesSpec => []VersionHolds
<1>1. WritesInv /\ [WritesNext]_writeVars => WritesInv'
  BY WritesPreserved
<1>2. WritesInv => VersionHolds
  BY DEF WritesInv
<1> QED BY <1>1, <1>2, WritesInitially, PTL DEF WritesSpec

------------------------------------------------------------------------------
(* Roll-ups *)

\* Rows have their columns.
ColumnsOK(r, row) ==
  /\ r \in Parents => DOMAIN row = {"xmin", "total"}
  /\ r \in Children => DOMAIN row = {"xmin", "parent", "amount"} /\ row.parent \in Parents \cup {NoParent}

\* A transaction that changed the children of a parent has written its total, which is that of
\* the rows it sees, or its trigger is about to.
RollupsOK(t) ==
  /\ DOMAIN xacts[t].wrote \subseteq Rows
  /\ \A r \in DOMAIN xacts[t].wrote : ColumnsOK(r, xacts[t].wrote[r])
  /\ xacts[t].rollups \in Seq(Parents) /\ (xacts[t].sum # -1 => xacts[t].rollups # <<>>)
  /\ \A c \in DOMAIN xacts[t].wrote \cap Children :
       {db[c].parent, xacts[t].wrote[c].parent} \ {NoParent}
         \subseteq DOMAIN xacts[t].wrote \cup Range(xacts[t].rollups)
  /\ \A p \in (DOMAIN xacts[t].wrote \cap Parents) \ (drifted \cup Range(xacts[t].rollups)) :
       xacts[t].wrote[p].total = VisibleTotal(t, p)

RollupInv ==
  /\ DOMAIN db = Rows /\ \A r \in Rows : ColumnsOK(r, db[r])
  /\ \A t \in Transactions : Live(t) => RollupsOK(t)
  /\ TotalsHold

\* A sum is that of the children of a parent and of their amounts, and of nothing else.
LEMMA SameAmounts ==
  ASSUME NEW f, NEW g, NEW p,
         \A c \in Children : /\ f[c].parent = p <=> g[c].parent = p
                             /\ f[c].parent = p => f[c].amount = g[c].amount
  PROVE  AmountsOf(f, p) = AmountsOf(g, p)
BY DEF AmountsOf

\* What a transaction sees of the children of p is the sum of the rows it sees them in.
LEMMA SameTotal ==
  ASSUME NEW t, NEW p, NEW g,
         \A c \in Children : /\ Visible(t, c).parent = p <=> g[c].parent = p
                             /\ g[c].parent = p => Visible(t, c).amount = g[c].amount
  PROVE  VisibleTotal(t, p) = SumFunction(AmountsOf(g, p))
<1> DEFINE f == [c \in Children |-> Visible(t, c)]
<1>1. AmountsOf(f, p) = AmountsOf(g, p)
  <2>1. \A c \in Children : f[c] = Visible(t, c)
    OBVIOUS
  <2> HIDE DEF f
  <2> QED BY <2>1, SameAmounts
<1> QED BY <1>1 DEF VisibleTotal

LEMMA SeenTheSame ==
  ASSUME NEW t, NEW p,
         \A c \in Children : /\ Visible(t, c)' .parent = p <=> Visible(t, c).parent = p
                             /\ Visible(t, c).parent = p => Visible(t, c)' .amount = Visible(t, c).amount
  PROVE  VisibleTotal(t, p)' = VisibleTotal(t, p)
<1> DEFINE f == [c \in Children |-> Visible(t, c)]
           g == [c \in Children |-> Visible(t, c)']
<1>1. AmountsOf(g, p) = AmountsOf(f, p)
  <2>1. \A c \in Children : f[c] = Visible(t, c) /\ g[c] = Visible(t, c)'
    OBVIOUS
  <2> HIDE DEF f, g
  <2> QED BY <2>1, SameAmounts
<1>2. VisibleTotal(t, p)' = SumFunction(AmountsOf(g, p))
  BY DEF VisibleTotal, AmountsOf
<1> QED BY <1>1, <1>2 DEF VisibleTotal

\* The sum of nothing (a fold is what its recursive function makes of the empty set).
LEMMA NothingToAdd == ASSUME NEW f, DOMAIN f = {} PROVE SumFunction(f) = 0
<1> DEFINE Q(g) == g = [s \in SUBSET {} |-> IF s = {} THEN 0 ELSE LET x == CHOOSE y \in s : TRUE IN f[x] + g[s \ {x}]]
           h == CHOOSE g : Q(g)
           k == [s \in SUBSET {} |-> 0]
<1>1. Q(k)
  OBVIOUS
<1>2. Q(h)
  <2> HIDE DEF Q
  <2> QED BY <1>1
<1>3. h[{}] = 0
  <2> HIDE DEF h
  <2> QED BY <1>2
<1>4. SumFunction(f) = h[{}]
  BY DEF SumFunction, SumFunctionOnSet, FoldFunctionOnSet, MapThenFoldSet
<1> QED BY <1>3, <1>4

LEMMA RollupsInitially == WritesInit => RollupInv
<1> SUFFICES ASSUME WritesInit PROVE RollupInv
  OBVIOUS
<1>1. /\ DOMAIN db = Rows /\ \A t \in Transactions : ~Live(t)
      /\ \A r \in Parents : db[r] = [xmin |-> 0, total |-> 0]
      /\ \A r \in Children : db[r] = [xmin |-> 0, parent |-> NoParent, amount |-> 0]
  BY WritesAssumption DEF WritesInit, Live, NoXact, Rows
<1>2. ASSUME NEW p \in Parents PROVE CommittedTotal(p) = 0
  <2>1. DOMAIN AmountsOf(db, p) = {}
    BY <1>1, WritesAssumption DEF AmountsOf
  <2> QED BY <2>1, NothingToAdd DEF CommittedTotal
<1> QED BY <1>1, <1>2, WritesAssumption DEF RollupInv, ColumnsOK, TotalsHold, Rows
\* What others do, or a step of t that is not about the tables, leaves the roll-ups of s alone.
LEMMA RollupsKept ==
  ASSUME NEW s, RollupsOK(s), drifted \subseteq drifted',
         xacts'[s].wrote = xacts[s].wrote, xacts'[s].rollups = xacts[s].rollups,
         xacts'[s].sum # -1 => xacts'[s].rollups # <<>>,
         \A c \in DOMAIN xacts[s].wrote \cap Children : db'[c] = db[c],
         \A p \in DOMAIN xacts[s].wrote \cap Parents : VisibleTotal(s, p)' = VisibleTotal(s, p)
  PROVE  RollupsOK(s)'
BY DEF RollupsOK, ColumnsOK

LEMMA RollupsStay ==
  ASSUME RollupInv, NEW t, NEW x, UNCHANGED db, drifted' = drifted,
         DOMAIN xacts = Transactions, xacts' = [xacts EXCEPT ![t] = x],
         x.open => RollupsOK(t)'
  PROVE  RollupInv'
<1>1. ASSUME NEW s \in Transactions, Live(s)', s # t PROVE RollupsOK(s)'
  <2>1. xacts'[s] = xacts[s] /\ Live(s) /\ RollupsOK(s)
    BY <1>1 DEF RollupInv, Live
  <2>2. ASSUME NEW p PROVE VisibleTotal(s, p)' = VisibleTotal(s, p)
    BY <2>1 DEF VisibleTotal, AmountsOf, Visible
  <2> QED BY <2>1, <2>2, RollupsKept DEF RollupsOK
<1>2. TotalsHold'
  BY DEF RollupInv, TotalsHold, CommittedTotal, AmountsOf
<1> QED BY <1>1, <1>2 DEF RollupInv, Live, ColumnsOK
\* What a write leaves: the row, and of the rest what there was.
LEMMA WrittenRows ==
  ASSUME WritesInv, NEW t \in Transactions, Live(t), NEW r, NEW row
  PROVE  LET x == Writes(t, r, row)
         IN /\ x.wrote[r] = row
            /\ \A z \in DOMAIN xacts[t].wrote \ {r} : x.wrote[z] = xacts[t].wrote[z]
            /\ x.rollups = xacts[t].rollups /\ x.sum = xacts[t].sum /\ x.ops = xacts[t].ops
<1>1. DOMAIN xacts[t] = Fields
  BY DEF WritesInv, XactsOK
<1> QED BY <1>1 DEF Writes, Fields

\* A parent none of whose children t changed has the total that is committed.
LEMMA Untouched ==
  ASSUME RollupInv, NEW t \in Transactions, Live(t), NEW p \in Parents,
         p \notin DOMAIN xacts[t].wrote \cup Range(xacts[t].rollups)
  PROVE  VisibleTotal(t, p) = CommittedTotal(p)
<1>1. RollupsOK(t)
  BY DEF RollupInv
<1>2. ASSUME NEW c \in Children
      PROVE  /\ Visible(t, c).parent = p <=> db[c].parent = p
             /\ db[c].parent = p => Visible(t, c).amount = db[c].amount
  <2>1. CASE c \in DOMAIN xacts[t].wrote
    <3>1. {db[c].parent, xacts[t].wrote[c].parent} \ {NoParent}
            \subseteq DOMAIN xacts[t].wrote \cup Range(xacts[t].rollups)
      BY <1>1, <2>1 DEF RollupsOK
    <3>2. p # NoParent
      BY WritesAssumption
    <3>3. db[c].parent # p /\ xacts[t].wrote[c].parent # p
      BY <3>1, <3>2
    <3> QED BY <2>1, <3>3 DEF Visible
  <2>2. CASE c \notin DOMAIN xacts[t].wrote
    BY <2>2 DEF Visible
  <2> QED BY <2>1, <2>2
<1> QED BY <1>2, SameTotal DEF CommittedTotal

LEMMA UpdateParentRolls ==
  ASSUME WritesInv, RollupInv, NEW t \in Transactions, NEW p \in Parents, UpdateParent(t, p)
  PROVE  RollupInv'
<1> DEFINE y == Writes(t, p, Visible(t, p))
           x == [y EXCEPT !.ops = @ - 1]
<1>1. /\ Live(t) /\ xacts[t].rollups = <<>> /\ xacts' = [xacts EXCEPT ![t] = x] /\ UNCHANGED <<db, drifted>>
  BY DEF UpdateParent, MayWrite, Ready
<1>2. /\ DOMAIN y = Fields
      /\ DOMAIN y.wrote = DOMAIN xacts[t].wrote \cup {p} /\ y.wrote[p] = Visible(t, p)
      /\ \A z \in DOMAIN xacts[t].wrote \ {p} : y.wrote[z] = xacts[t].wrote[z]
      /\ y.rollups = xacts[t].rollups /\ y.sum = xacts[t].sum
  <2>1. DOMAIN y = Fields /\ DOMAIN y.wrote = DOMAIN xacts[t].wrote \cup {p}
    BY <1>1, WrittenRow
  <2> QED BY <1>1, <2>1, WrittenRows
<1> HIDE DEF y
<1>3. x.wrote = y.wrote /\ x.rollups = <<>> /\ x.sum = xacts[t].sum
  BY <1>1, <1>2 DEF Fields
<1> HIDE DEF x
<1>4. RollupsOK(t)
  BY <1>1 DEF RollupInv
<1>5. DOMAIN xacts = Transactions /\ xacts'[t] = x
  BY <1>1 DEF WritesInv, XactsOK
<1>6. \A c \in Children : Visible(t, c)' = Visible(t, c)
  <2>1. \A c \in Children : c # p
    BY WritesAssumption
  <2> QED BY <1>1, <1>2, <1>3, <1>5, <2>1 DEF Visible
<1>7. \A q : VisibleTotal(t, q)' = VisibleTotal(t, q)
  BY <1>6, SeenTheSame
<1>8. RollupsOK(t)'
  <2>1. DOMAIN x.wrote \subseteq Rows
    BY <1>2, <1>3, <1>4 DEF RollupsOK, Rows
  <2>2. ASSUME NEW r \in DOMAIN x.wrote PROVE ColumnsOK(r, x.wrote[r])
    BY <1>2, <1>3, <1>4 DEF RollupsOK, RollupInv, Visible, Rows
  <2>3. x.rollups \in Seq(Parents) /\ (x.sum # -1 => x.rollups # <<>>)
    BY <1>1, <1>3, <1>4 DEF RollupsOK
  <2>4. ASSUME NEW c \in DOMAIN x.wrote \cap Children
        PROVE  {db[c].parent, x.wrote[c].parent} \ {NoParent} \subseteq DOMAIN x.wrote \cup Range(x.rollups)
    <3>1. c # p
      BY WritesAssumption
    <3> QED BY <1>1, <1>2, <1>3, <1>4, <3>1 DEF RollupsOK
  <2>5. ASSUME NEW q \in (DOMAIN x.wrote \cap Parents) \ (drifted \cup Range(x.rollups))
        PROVE  x.wrote[q].total = VisibleTotal(t, q)
    <3>1. CASE q \in DOMAIN xacts[t].wrote
      BY <1>1, <1>2, <1>3, <1>4, <3>1 DEF RollupsOK, Visible
    <3>2. CASE q \notin DOMAIN xacts[t].wrote
      <4>1. q = p /\ x.wrote[q] = db[q]
        BY <1>2, <1>3, <3>2 DEF Visible
      <4>2. q \notin DOMAIN xacts[t].wrote \cup Range(xacts[t].rollups)
        BY <1>1, <3>2 DEF Range
      <4>3. VisibleTotal(t, q) = CommittedTotal(q)
        BY <1>1, <4>2, Untouched
      <4> QED BY <4>1, <4>3 DEF RollupInv, TotalsHold
    <3> QED BY <3>1, <3>2
  <2> QED BY <1>1, <1>5, <1>7, <2>1, <2>2, <2>3, <2>4, <2>5 DEF RollupsOK, ColumnsOK
<1> QED BY <1>1, <1>5, <1>8, RollupsStay

LEMMA WriteChildRolls ==
  ASSUME WritesInv, RollupInv, NEW t \in Transactions, NEW c \in Children,
         NEW p \in Parents \cup {NoParent}, NEW amount, WriteChild(t, c, p, amount)
  PROVE  RollupInv'
<1> DEFINE old == Visible(t, c)
           row == [old EXCEPT !.parent = p, !.amount = amount]
           y == Writes(t, c, row)
           x == [y EXCEPT !.ops = @ - 1, !.rollups = RollupsOf(old.parent, p)]
<1>1. /\ Live(t) /\ xacts[t].rollups = <<>> /\ xacts' = [xacts EXCEPT ![t] = x]
      /\ UNCHANGED <<db, drifted>>
  BY DEF WriteChild, MayWrite, Ready
<1>2. /\ DOMAIN y = Fields
      /\ DOMAIN y.wrote = DOMAIN xacts[t].wrote \cup {c} /\ y.wrote[c] = row
      /\ \A z \in DOMAIN xacts[t].wrote \ {c} : y.wrote[z] = xacts[t].wrote[z]
      /\ y.rollups = xacts[t].rollups /\ y.sum = xacts[t].sum
  <2> HIDE DEF row
  <2>1. DOMAIN y = Fields /\ DOMAIN y.wrote = DOMAIN xacts[t].wrote \cup {c}
    BY <1>1, WrittenRow
  <2> QED BY <1>1, <2>1, WrittenRows
<1>3. RollupsOK(t)
  BY <1>1 DEF RollupInv
<1>4. DOMAIN old = {"xmin", "parent", "amount"} /\ old.parent \in Parents \cup {NoParent}
  BY <1>3 DEF RollupsOK, RollupInv, ColumnsOK, Visible, Rows
<1>5. DOMAIN row = {"xmin", "parent", "amount"} /\ row.parent = p
  BY <1>4
<1> HIDE DEF y
<1>6. x.wrote = y.wrote /\ x.rollups = RollupsOf(old.parent, p) /\ x.sum = xacts[t].sum
  BY <1>2 DEF Fields
<1>7. /\ RollupsOf(old.parent, p) \in Seq(Parents)
      /\ Range(RollupsOf(old.parent, p)) = {old.parent, p} \ {NoParent}
  <2>1. \A q \in Parents \cup {NoParent} : q # NoParent => q \in Parents
    OBVIOUS
  <2> DEFINE o == old.parent
  <2>2. o \in Parents \cup {NoParent} /\ p \in Parents \cup {NoParent}
    BY <1>4
  <2> HIDE DEF o, old
  <2>a. ASSUME NEW a \in Parents, NEW b \in Parents
        PROVE  /\ <<a>> \o <<>> = <<a>> /\ <<>> \o <<a>> = <<a>>
               /\ <<a>> \o <<b>> \in Seq(Parents) /\ Range(<<a>> \o <<b>>) = {a, b}
    <3>1. <<a>> \o <<>> = <<a>>
      OBVIOUS
    <3>2. <<>> \o <<a>> = <<a>>
      OBVIOUS
    <3>3. <<a>> \o <<b>> \in Seq(Parents) /\ Range(<<a>> \o <<b>>) = {a, b}
      <4> DEFINE ab == <<a>> \o <<b>>
      <4>1. ab \in Seq(Parents) /\ Len(ab) = 2 /\ ab[1] = a /\ ab[2] = b
        OBVIOUS
      <4>2. DOMAIN ab = {1, 2}
        <5> HIDE DEF ab
        <5> QED BY <4>1
      <4> HIDE DEF ab
      <4>3. Range(ab) = {a, b}
        BY <4>1, <4>2 DEF Range
      <4> QED BY <4>1, <4>3 DEF ab
    <3> QED BY <3>1, <3>2, <3>3
  <2>3. ASSUME NEW a \in Parents \cup {NoParent}
        PROVE  /\ RollupsOf(a, p) \in Seq(Parents)
               /\ Range(RollupsOf(a, p)) = {a, p} \ {NoParent}
    <3>1. CASE a = NoParent /\ p = NoParent
      BY <3>1 DEF RollupsOf, Range
    <3>2. CASE a # NoParent /\ (p = NoParent \/ p = a)
      <4>1. RollupsOf(a, p) = <<a>>
        BY <2>a, <3>2 DEF RollupsOf
      <4> QED BY <3>2, <4>1 DEF Range
    <3>3. CASE a = NoParent /\ p # NoParent
      <4>1. RollupsOf(a, p) = <<p>>
        BY <3>3 DEF RollupsOf
      <4> QED BY <3>3, <4>1 DEF Range
    <3>4. CASE a # NoParent /\ p # NoParent /\ p # a
      <4>1. RollupsOf(a, p) = <<a>> \o <<p>>
        BY <3>4 DEF RollupsOf
      <4> QED BY <2>a, <3>4, <4>1
    <3> QED BY <3>1, <3>2, <3>3, <3>4
  <2>4. RollupsOf(o, p) \in Seq(Parents) /\ Range(RollupsOf(o, p)) = {o, p} \ {NoParent}
    BY <2>2, <2>3
  <2> QED BY <2>4 DEF o
<1> HIDE DEF x
<1>8. DOMAIN xacts = Transactions /\ xacts'[t] = x
  BY <1>1 DEF WritesInv, XactsOK
<1>9. /\ \A b \in Children \ {c} : Visible(t, b)' = Visible(t, b)
      /\ Visible(t, c)' = row
  BY <1>1, <1>2, <1>6, <1>8 DEF Visible
<1>10. RollupsOK(t)'
  <2>1. DOMAIN x.wrote \subseteq Rows
    BY <1>2, <1>3, <1>6 DEF RollupsOK, Rows
  <2>2. ASSUME NEW r \in DOMAIN x.wrote PROVE ColumnsOK(r, x.wrote[r])
    <3>1. CASE r = c
      <4>1. c \notin Parents /\ x.wrote[r] = row
        BY <1>2, <1>6, <3>1, WritesAssumption
      <4> HIDE DEF row
      <4> QED BY <1>5, <3>1, <4>1 DEF ColumnsOK
    <3>2. CASE r # c
      BY <1>2, <1>3, <1>6, <3>2 DEF RollupsOK
    <3> QED BY <3>1, <3>2
  <2>3. x.rollups \in Seq(Parents) /\ (x.sum # -1 => x.rollups # <<>>)
    BY <1>1, <1>3, <1>6, <1>7 DEF RollupsOK
  <2>4. ASSUME NEW b \in DOMAIN x.wrote \cap Children
        PROVE  {db[b].parent, x.wrote[b].parent} \ {NoParent} \subseteq DOMAIN x.wrote \cup Range(x.rollups)
    <3>1. \A z \in DOMAIN xacts[t].wrote \cap Children :
            {db[z].parent, xacts[t].wrote[z].parent} \ {NoParent} \subseteq DOMAIN xacts[t].wrote
      BY <1>1, <1>3 DEF RollupsOK, Range
    <3>2. CASE b # c
      BY <1>2, <1>6, <3>1, <3>2
    <3>3. CASE b = c
      <4>1. x.wrote[b].parent = p
        <5>1. x.wrote[b] = row
          BY <1>2, <1>6, <3>3
        <5> QED BY <1>5, <5>1
      <4>2. {db[c].parent} \ {NoParent} \subseteq DOMAIN xacts[t].wrote \cup {old.parent}
        BY <3>1 DEF Visible
      <4>3. DOMAIN xacts[t].wrote \subseteq DOMAIN x.wrote
        BY <1>2, <1>6
      <4> HIDE DEF old
      <4> QED BY <1>6, <1>7, <3>3, <4>1, <4>2, <4>3
    <3> QED BY <3>2, <3>3
  <2>5. ASSUME NEW q \in (DOMAIN x.wrote \cap Parents) \ (drifted \cup Range(x.rollups))
        PROVE  x.wrote[q].total = VisibleTotal(t, q)'
    <3>1. q # c /\ q # old.parent /\ q # p
      BY <1>6, <1>7, WritesAssumption
    <3>2. q \in (DOMAIN xacts[t].wrote \cap Parents) \ (drifted \cup Range(xacts[t].rollups))
          /\ x.wrote[q] = xacts[t].wrote[q]
      BY <1>1, <1>2, <1>6, <3>1 DEF Range
    <3>3. VisibleTotal(t, q)' = VisibleTotal(t, q)
      <4>1. Visible(t, c)' .parent # q /\ Visible(t, c).parent # q
        <5>1. Visible(t, c)' .parent = p
          BY <1>5, <1>9
        <5> QED BY <3>1, <5>1
      <4> QED BY <1>9, <4>1, SeenTheSame
    <3> QED BY <1>3, <3>2, <3>3 DEF RollupsOK
  <2> QED BY <1>1, <1>8, <2>1, <2>2, <2>3, <2>4, <2>5 DEF RollupsOK, ColumnsOK
<1> QED BY <1>1, <1>8, <1>10, RollupsStay
\* A step of t that leaves its writes and its roll-ups alone.
LEMMA SameWrites ==
  ASSUME WritesInv, RollupInv, NEW t \in Transactions, Live(t), NEW x,
         xacts' = [xacts EXCEPT ![t] = x], UNCHANGED <<db, drifted>>,
         x.wrote = xacts[t].wrote, x.rollups = xacts[t].rollups,
         x.sum # -1 => x.rollups # <<>>
  PROVE  RollupInv'
<1>1. DOMAIN xacts = Transactions /\ xacts'[t] = x /\ RollupsOK(t)
  BY DEF WritesInv, XactsOK, RollupInv
<1>2. \A c \in Children : Visible(t, c)' = Visible(t, c)
  BY <1>1 DEF Visible
<1>3. \A p : VisibleTotal(t, p)' = VisibleTotal(t, p)
  BY <1>2, SeenTheSame
<1>4. RollupsOK(t)'
  BY <1>1, <1>3, RollupsKept DEF RollupsOK
<1> QED BY <1>1, <1>4, RollupsStay

LEMMA RollupWriteRolls ==
  ASSUME WritesInv, RollupInv, NEW t \in Transactions, RollupWrite(t)
  PROVE  RollupInv'
<1> DEFINE p == Head(xacts[t].rollups)
           row == [Visible(t, p) EXCEPT !.total = xacts[t].sum]
           y == Writes(t, p, row)
           x == [y EXCEPT !.rollups = Tail(@), !.sum = -1]
<1>1. /\ Live(t) /\ xacts[t].sum # -1 /\ xacts' = [xacts EXCEPT ![t] = x]
      /\ drifted' = IF xacts[t].sum # VisibleTotal(t, p) THEN drifted \cup {p} ELSE drifted
      /\ UNCHANGED db
  BY DEF RollupWrite
<1>2. RollupsOK(t)
  BY <1>1 DEF RollupInv
<1>3. /\ p \in Parents /\ Tail(xacts[t].rollups) \in Seq(Parents)
      /\ Range(xacts[t].rollups) = {p} \cup Range(Tail(xacts[t].rollups))
  <2>1. xacts[t].rollups \in Seq(Parents) /\ xacts[t].rollups # <<>>
    BY <1>1, <1>2 DEF RollupsOK
  <2>2. ASSUME NEW s \in Seq(Parents), s # <<>>
        PROVE  /\ Head(s) \in Parents /\ Tail(s) \in Seq(Parents)
               /\ Range(s) = {Head(s)} \cup Range(Tail(s))
    <3>1. Head(s) = s[1] /\ Tail(s) \in Seq(Parents) /\ Len(Tail(s)) = Len(s) - 1 /\ 1 \in DOMAIN s
      BY <2>2
    <3>2. \A i \in DOMAIN Tail(s) : i + 1 \in DOMAIN s /\ Tail(s)[i] = s[i + 1]
      BY <2>2
    <3>3. \A i \in DOMAIN s : i = 1 \/ (i - 1 \in DOMAIN Tail(s) /\ Tail(s)[i - 1] = s[i])
      BY <2>2, <3>1
    <3>4. s[1] \in Parents
      BY <2>2, <3>1
    <3>5. Range(Tail(s)) \subseteq Range(s)
      BY <3>2 DEF Range
    <3>6. Range(s) \subseteq {s[1]} \cup Range(Tail(s))
      BY <3>3 DEF Range
    <3> QED BY <3>1, <3>4, <3>5, <3>6 DEF Range
  <2> QED BY <2>1, <2>2
<1>4. DOMAIN row = {"xmin", "total"} /\ row.total = xacts[t].sum
  <2>1. DOMAIN Visible(t, p) = {"xmin", "total"}
    BY <1>2, <1>3 DEF RollupsOK, RollupInv, ColumnsOK, Visible, Rows
  <2> QED BY <2>1
<1>5. /\ DOMAIN y = Fields
      /\ DOMAIN y.wrote = DOMAIN xacts[t].wrote \cup {p} /\ y.wrote[p] = row
      /\ \A z \in DOMAIN xacts[t].wrote \ {p} : y.wrote[z] = xacts[t].wrote[z]
      /\ y.rollups = xacts[t].rollups
  <2> HIDE DEF row
  <2>1. DOMAIN y = Fields /\ DOMAIN y.wrote = DOMAIN xacts[t].wrote \cup {p}
    BY <1>1, WrittenRow
  <2> QED BY <1>1, <2>1, WrittenRows
<1> HIDE DEF y
<1>6. x.wrote = y.wrote /\ x.rollups = Tail(xacts[t].rollups) /\ x.sum = -1
  BY <1>5 DEF Fields
<1> HIDE DEF x, row, p
<1>7. DOMAIN xacts = Transactions /\ xacts'[t] = x
  BY <1>1 DEF WritesInv, XactsOK
<1>8. p \notin Children /\ drifted \subseteq drifted'
  BY <1>1, <1>3, WritesAssumption
<1>9. \A c \in Children : Visible(t, c)' = Visible(t, c)
  BY <1>1, <1>5, <1>6, <1>7, <1>8 DEF Visible
<1>10. \A q : VisibleTotal(t, q)' = VisibleTotal(t, q)
  BY <1>9, SeenTheSame
<1>11. RollupsOK(t)'
  <2>1. DOMAIN x.wrote \subseteq Rows
    BY <1>2, <1>3, <1>5, <1>6 DEF RollupsOK, Rows
  <2>2. ASSUME NEW r \in DOMAIN x.wrote PROVE ColumnsOK(r, x.wrote[r])
    BY <1>2, <1>4, <1>5, <1>6, <1>8 DEF RollupsOK, ColumnsOK
  <2>3. x.rollups \in Seq(Parents) /\ (x.sum # -1 => x.rollups # <<>>)
    BY <1>3, <1>6
  <2>4. ASSUME NEW c \in DOMAIN x.wrote \cap Children
        PROVE  {db[c].parent, x.wrote[c].parent} \ {NoParent} \subseteq DOMAIN x.wrote \cup Range(x.rollups)
    <3>1. c \in DOMAIN xacts[t].wrote /\ x.wrote[c] = xacts[t].wrote[c]
      BY <1>5, <1>6, <1>8
    <3> QED BY <1>2, <1>3, <1>5, <1>6, <3>1 DEF RollupsOK
  <2>5. ASSUME NEW q \in (DOMAIN x.wrote \cap Parents) \ (drifted' \cup Range(x.rollups))
        PROVE  x.wrote[q].total = VisibleTotal(t, q)
    <3>1. CASE q = p
      BY <1>1, <1>4, <1>5, <1>6, <3>1 DEF p
    <3>2. CASE q # p
      <4>1. /\ q \in (DOMAIN xacts[t].wrote \cap Parents) \ (drifted \cup Range(xacts[t].rollups))
            /\ x.wrote[q] = xacts[t].wrote[q]
        BY <1>3, <1>5, <1>6, <1>8, <3>2
      <4> QED BY <1>2, <4>1 DEF RollupsOK
    <3> QED BY <3>1, <3>2
  <2> QED BY <1>1, <1>7, <1>10, <2>1, <2>2, <2>3, <2>4, <2>5 DEF RollupsOK, ColumnsOK
<1>12. ASSUME NEW s \in Transactions, Live(s)', s # t PROVE RollupsOK(s)'
  <2>1. xacts'[s] = xacts[s] /\ Live(s) /\ RollupsOK(s)
    BY <1>1, <1>7, <1>12 DEF RollupInv, Live
  <2>2. \A c \in Children : Visible(s, c)' = Visible(s, c)
    BY <1>1, <2>1 DEF Visible
  <2>3. \A q : VisibleTotal(s, q)' = VisibleTotal(s, q)
    BY <2>2, SeenTheSame
  <2> QED BY <1>1, <1>8, <2>1, <2>3, RollupsKept DEF RollupsOK
<1>13. TotalsHold'
  BY <1>1, <1>8 DEF RollupInv, TotalsHold, CommittedTotal, AmountsOf
<1>14. DOMAIN db' = Rows /\ \A r \in Rows : ColumnsOK(r, db[r])'
  BY <1>1 DEF RollupInv, ColumnsOK
<1> QED BY <1>11, <1>12, <1>13, <1>14 DEF RollupInv

\* A commit puts in place what the transaction saw; nobody else has the total of a parent in hand
\* whose children it changed.
LEMMA CommitRolls ==
  ASSUME WritesInv, RollupInv, NEW t \in Transactions, CommitXact(t)
  PROVE  RollupInv'
<1>1. /\ Live(t) /\ xacts[t].rollups = <<>> /\ xacts' = [xacts EXCEPT ![t] = NoXact] /\ UNCHANGED drifted
      /\ DOMAIN db' = Rows
      /\ \A r \in Rows : db'[r] = IF r \in DOMAIN xacts[t].wrote
                                 THEN [xacts[t].wrote[r] EXCEPT !.xmin = commits + 1] ELSE db[r]
  BY DEF CommitXact
<1>2. RollupsOK(t) /\ Range(xacts[t].rollups) = {}
  BY <1>1 DEF RollupInv, Range
<1>3. /\ DOMAIN xacts = Transactions /\ xacts'[t] = NoXact /\ ~Live(t)'
      /\ \A s \in Transactions \ {t} : xacts'[s] = xacts[s]
  BY <1>1 DEF WritesInv, XactsOK, Live, NoXact
<1>4. ASSUME NEW r \in Rows
      PROVE  /\ ColumnsOK(r, db[r])'
             /\ r \in Children => /\ db'[r].parent = Visible(t, r).parent
                                  /\ db'[r].amount = Visible(t, r).amount
             /\ r \in Parents => db'[r].total = Visible(t, r).total
  <2>1. CASE r \in DOMAIN xacts[t].wrote
    <3> DEFINE w == xacts[t].wrote[r]
    <3>1. ColumnsOK(r, w)
      BY <1>2, <2>1 DEF RollupsOK
    <3>2. db'[r] = [w EXCEPT !.xmin = commits + 1] /\ Visible(t, r) = w
      BY <1>1, <2>1 DEF Visible
    <3> HIDE DEF w
    <3>3. DOMAIN db'[r] = DOMAIN w /\ \A k \in DOMAIN w : k # "xmin" => db'[r][k] = w[k]
      BY <3>2
    <3> QED BY <3>1, <3>2, <3>3 DEF ColumnsOK
  <2>2. CASE r \notin DOMAIN xacts[t].wrote
    BY <1>1, <2>2 DEF Visible, RollupInv, ColumnsOK
  <2> QED BY <2>1, <2>2
<1>5. ASSUME NEW p \in Parents PROVE CommittedTotal(p)' = VisibleTotal(t, p)
  <2>1. \A c \in Children : /\ Visible(t, c).parent = p <=> db'[c].parent = p
                            /\ db'[c].parent = p => Visible(t, c).amount = db'[c].amount
    BY <1>4 DEF Rows
  <2>2. VisibleTotal(t, p) = SumFunction(AmountsOf(db', p))
    BY <2>1, SameTotal
  <2>3. CommittedTotal(p)' = SumFunction(AmountsOf(db', p))
    BY DEF CommittedTotal, AmountsOf
  <2> QED BY <2>2, <2>3
<1>6. TotalsHold'
  <2> SUFFICES ASSUME NEW p \in Parents \ drifted PROVE db'[p].total = VisibleTotal(t, p)
    BY <1>1, <1>5 DEF TotalsHold
  <2>1. CASE p \in DOMAIN xacts[t].wrote
    BY <1>2, <1>4, <2>1 DEF RollupsOK, Visible, Rows
  <2>2. CASE p \notin DOMAIN xacts[t].wrote
    <3>1. VisibleTotal(t, p) = CommittedTotal(p)
      BY <1>1, <1>2, <2>2, Untouched
    <3> QED BY <1>4, <2>2, <3>1 DEF Visible, Rows, RollupInv, TotalsHold
  <2> QED BY <2>1, <2>2
<1>7. ASSUME NEW s \in Transactions, Live(s)' PROVE RollupsOK(s)'
  <2>1. s # t /\ xacts'[s] = xacts[s] /\ Live(s) /\ RollupsOK(s)
    BY <1>3, <1>7 DEF RollupInv, Live
  <2>2. DOMAIN xacts[s].wrote \cap DOMAIN xacts[t].wrote = {}
    BY <1>1, <2>1 DEF WritesInv, LockInv
  <2>3. \A c \in DOMAIN xacts[s].wrote \cap Children : db'[c] = db[c]
    BY <1>1, <2>2 DEF Rows
  <2>4. ASSUME NEW p \in DOMAIN xacts[s].wrote \cap Parents PROVE VisibleTotal(s, p)' = VisibleTotal(s, p)
    <3>1. ASSUME NEW c \in Children
          PROVE  /\ Visible(s, c)' .parent = p <=> Visible(s, c).parent = p
                 /\ Visible(s, c).parent = p => Visible(s, c)' .amount = Visible(s, c).amount
      <4>1. CASE c \in DOMAIN xacts[s].wrote
        BY <2>1, <4>1 DEF Visible
      <4>2. CASE c \notin DOMAIN xacts[s].wrote /\ c \notin DOMAIN xacts[t].wrote
        BY <1>1, <2>1, <4>2 DEF Visible, Rows
      <4>3. CASE c \notin DOMAIN xacts[s].wrote /\ c \in DOMAIN xacts[t].wrote
        <5>1. {db[c].parent, xacts[t].wrote[c].parent} \ {NoParent} \subseteq DOMAIN xacts[t].wrote
          BY <1>2, <4>3 DEF RollupsOK
        <5>2. p \notin DOMAIN xacts[t].wrote /\ p # NoParent
          BY <2>2, WritesAssumption
        <5>3. db[c].parent # p /\ xacts[t].wrote[c].parent # p
          BY <5>1, <5>2
        <5>4. Visible(s, c) = db[c] /\ Visible(s, c)' = db'[c] /\ Visible(t, c) = xacts[t].wrote[c]
          BY <2>1, <4>3 DEF Visible
        <5> QED BY <1>4, <5>3, <5>4 DEF Rows
      <4> QED BY <4>1, <4>2, <4>3
    <3> QED BY <3>1, SeenTheSame
  <2> QED BY <1>1, <2>1, <2>3, <2>4, RollupsKept DEF RollupsOK
<1> QED BY <1>1, <1>4, <1>6, <1>7 DEF RollupInv

LEMMA RollupsPreserved == ASSUME WritesInv, RollupInv, [WritesNext]_writeVars PROVE RollupInv'
<1>1. CASE UNCHANGED writeVars
  <2>1. UNCHANGED <<db, xacts, drifted>>
    BY <1>1 DEF writeVars
  <2>2. TotalsHold' /\ \A r \in Rows : ColumnsOK(r, db[r])'
    BY <2>1 DEF RollupInv, TotalsHold, CommittedTotal, AmountsOf, ColumnsOK
  <2>3. ASSUME NEW t \in Transactions, Live(t)' PROVE RollupsOK(t)'
    <3>1. Live(t) /\ RollupsOK(t)
      BY <2>1, <2>3 DEF RollupInv, Live
    <3>2. \A c \in Children : Visible(t, c)' = Visible(t, c)
      BY <2>1 DEF Visible
    <3>3. \A q : VisibleTotal(t, q)' = VisibleTotal(t, q)
      BY <3>2, SeenTheSame
    <3> QED BY <2>1, <3>1, <3>3, RollupsKept DEF RollupsOK
  <2> QED BY <2>1, <2>2, <2>3 DEF RollupInv
<1>2. ASSUME NEW t \in Transactions, NEW x, xacts' = [xacts EXCEPT ![t] = x], UNCHANGED <<db, drifted>>,
             x.open => x.wrote = <<>> /\ x.rollups = <<>> /\ x.sum = -1
      PROVE  RollupInv'
  <2>1. DOMAIN xacts = Transactions /\ xacts'[t] = x
    BY <1>2 DEF WritesInv, XactsOK
  <2>2. x.open => RollupsOK(t)'
    <3>1. <<>> \in Seq(Parents) /\ DOMAIN <<>> = {}
      OBVIOUS
    <3> QED BY <1>2, <2>1, <3>1 DEF RollupsOK
  <2> QED BY <1>2, <2>1, <2>2, RollupsStay
<1>3. ASSUME NEW t \in Transactions, NEW ops \in 1 .. BatchSize, BeginXact(t, ops) PROVE RollupInv'
  BY <1>2, <1>3 DEF BeginXact
<1>4. ASSUME NEW t \in Transactions, RollBack(t) PROVE RollupInv'
  BY <1>2, <1>4 DEF RollBack, NoXact
<1>5. ASSUME NEW t \in Transactions, NEW r \in Rows, assertRecordVersion(t, r) PROVE RollupInv'
  <2> DEFINE x == [xacts[t] EXCEPT !.expected = <<r, db[r].xmin>>, !.locked = {r}]
  <2>1. Live(t) /\ DOMAIN xacts = Transactions /\ DOMAIN xacts[t] = Fields /\ RollupsOK(t)
    BY <1>5 DEF assertRecordVersion, Ready, WritesInv, XactsOK, RollupInv
  <2>2. xacts' = [xacts EXCEPT ![t] = x] /\ UNCHANGED <<db, drifted>>
    BY <1>5, <2>1 DEF assertRecordVersion
  <2>3. x.wrote = xacts[t].wrote /\ x.rollups = xacts[t].rollups /\ x.sum = xacts[t].sum
    BY <2>1 DEF Fields
  <2> HIDE DEF x
  <2> QED BY <2>1, <2>2, <2>3, SameWrites DEF RollupsOK
<1>6. ASSUME NEW t \in Transactions, RollupRead(t) PROVE RollupInv'
  <2> DEFINE total == VisibleTotal(t, Head(xacts[t].rollups))
             x == [xacts[t] EXCEPT !.sum = total]
  <2>1. Live(t) /\ DOMAIN xacts = Transactions /\ DOMAIN xacts[t] = Fields /\ xacts[t].rollups # <<>>
    BY <1>6 DEF RollupRead, WritesInv, XactsOK
  <2>2. xacts' = [xacts EXCEPT ![t] = x] /\ UNCHANGED <<db, drifted>>
    BY <1>6, <2>1 DEF RollupRead
  <2> HIDE DEF total
  <2>3. x.wrote = xacts[t].wrote /\ x.rollups = xacts[t].rollups
    BY <2>1 DEF Fields
  <2> HIDE DEF x
  <2> QED BY <2>1, <2>2, <2>3, SameWrites
<1> QED
  BY <1>1, <1>3, <1>4, <1>5, <1>6, UpdateParentRolls, WriteChildRolls, RollupWriteRolls, CommitRolls
     DEF WritesNext

\* The total of a parent is the sum of its children, for any rows, transactions and batches that
\* write, move and delete them, unless a trigger waited while its sum went stale
\* (the roll-up trigger of core/rollup.go).
THEOREM TotalsAreTrue == WritesSpec => []TotalsHold
<1>1. WritesInv /\ RollupInv /\ [WritesNext]_writeVars => WritesInv' /\ RollupInv'
  BY WritesPreserved, RollupsPreserved
<1>2. RollupInv => TotalsHold
  BY DEF RollupInv
<1> QED BY <1>1, <1>2, WritesInitially, RollupsInitially, PTL DEF WritesSpec

------------------------------------------------------------------------------
(* Values of fields *)

FilledInv == field \in AnyField /\ RequiredFilled

\* A field of this kind has a value in every record.
MustFill(d) == d.required /\ d.type \notin {"file", "json"}

LEMMA DefinitionIs ==
  ASSUME NEW d \in AnyField
  PROVE  /\ ValidateField(d) /\ d.type \in FieldTypes
         /\ d.required \in BOOLEAN /\ d.multiple \in BOOLEAN /\ d.onCreate \in BOOLEAN
         /\ d.min \in Nat /\ d.max \in Nat
BY FieldAssumption DEF FieldDefinitions

\* A body that the field accepts for a required field is not empty.
LEMMA AcceptedFills ==
  ASSUME NEW d \in AnyField, NEW v \in Json, Accepts(d, v)
  PROVE  MustFill(d) => ~EmptyJson(Normal(d, v))
<1>1. /\ ValidateField(d) /\ d.type \in FieldTypes /\ d.required \in BOOLEAN
      /\ d.min \in Nat /\ d.max \in Nat
  BY DefinitionIs
<1>2. /\ v.json \in JsonKinds /\ v.size \in Nat
      /\ v.json = "null" => v = Null
  BY DEF Json, Null
<1>3. ASSUME MustFill(d) PROVE ~EmptyJson(Normal(d, v))
  <2>1. v # Null /\ v.json # "null"
    BY <1>2, <1>3 DEF Accepts, fieldCanBeNull, MustFill
  <2>2. CASE d.type \in Strings
    <3>1. v.json = "string" /\ v.size # 0 /\ Normal(d, v) = v
      BY <1>3, <2>1, <2>2 DEF Accepts, Strings, StringFits, Normal, MustFill
    <3> QED BY <3>1 DEF EmptyJson
  <2>3. CASE d.type = "decimal"
    <3>1. /\ v.json \in {"string", "number"} /\ ~(v.json = "string" /\ v.size = 0)
      BY <1>3, <2>1, <2>3 DEF Accepts, MustFill
    <3> QED BY <2>3, <3>1 DEF EmptyJson, Normal
  <2>4. CASE d.type \in {"number", "bool"}
    <3>1. v.json \in {"number", "bool"} /\ Normal(d, v) = v
      BY <2>1, <2>4 DEF Accepts, Normal
    <3> QED BY <3>1 DEF EmptyJson
  <2>5. CASE d.type = "vector"
    <3>1. v.json = "array" /\ v.size = d.max /\ d.max > 0 /\ Normal(d, v) = v
      BY <1>1, <2>1, <2>5 DEF Accepts, Normal, ValidateField
    <3> QED BY <1>1, <3>1 DEF EmptyJson
  <2>6. CASE d.type = "date"
    <3>1. v.json = "string" /\ v.size > 0 /\ Normal(d, v) = v
      BY <2>1, <2>6 DEF Accepts, Normal
    <3> QED BY <1>2, <3>1 DEF EmptyJson
  <2>7. CASE d.type \in {"select", "relation"}
    <3>1. Chosen(d, v) /\ Normal(d, v) = v
      BY <2>1, <2>7 DEF Accepts, Normal
    <3>2. v.json \in {"array", "string"} /\ v.size > 0
      BY <1>2, <1>3, <3>1 DEF Chosen, validateSelectedCount, MustFill
    <3> QED BY <1>2, <3>1, <3>2 DEF EmptyJson
  <2>8. CASE d.type = "autodate"
    BY <2>1, <2>8 DEF Accepts
  <2> QED BY <1>1, <1>3, <2>2, <2>3, <2>4, <2>5, <2>6, <2>7, <2>8 DEF MustFill, FieldTypes
<1> QED BY <1>3

\* The default that a column of a required field takes is not empty.
LEMMA DefaultFills ==
  ASSUME NEW d \in AnyField, Storable(ColumnDDL(d), Default(ColumnDDL(d)))
  PROVE  MustFill(d) => ~EmptyJson(Default(ColumnDDL(d)))
<1>1. MustFill(d) => Default(ColumnDDL(d)) = Null
  BY DEF MustFill, Default, ColumnDDL
<1>2. MustFill(d) => ColumnDDL(d).notNull
  BY DEF MustFill, ColumnDDL
<1> QED BY <1>1, <1>2 DEF Storable

LEMMA FilledInitially == ValuesInit => FilledInv
BY DEF ValuesInit, FilledInv, RequiredFilled

\* A definition with the column of the old one leaves no value missing.
LEMMA EditFills ==
  ASSUME FilledInv, NEW d \in AnyField, EditField(d)
  PROVE  FilledInv'
<1>1. /\ field' = d /\ column' = column /\ ColumnDDL(d) = ColumnDDL(field) /\ (lax' <=> lax)
  BY DEF EditField
<1>2. ASSUME MustFill(d) PROVE MustFill(field)
  <2>1. d.type \in FieldTypes /\ field.type \in FieldTypes /\ field.required \in BOOLEAN
    BY DefinitionIs DEF FilledInv
  <2>2. /\ ColumnType(d) = ColumnType(field)
        /\ ColumnDDL(field).notNull /\ ColumnDDL(field).default = "null"
    BY <1>1, <1>2 DEF ColumnDDL, MustFill
  <2>3. field.type \notin {"json", "file"}
    <3>1. ColumnType(d) # "jsonb"
      BY <1>2, <2>1 DEF ColumnType, MustFill, FieldTypes, Strings
    <3> QED BY <2>2, <3>1 DEF ColumnType, Strings
  <2>4. field.required
    BY <2>1, <2>2, <2>3 DEF ColumnDDL
  <2> QED BY <2>3, <2>4 DEF MustFill
<1> QED BY <1>1, <1>2 DEF FilledInv, RequiredFilled, MustFill

LEMMA FilledPreserved ==
  ASSUME FilledInv, [ValuesNext]_valueVars PROVE FilledInv'
<1>1. field \in AnyField /\ ~EmptyJson(Now)
  BY DEF FilledInv, Now, EmptyJson
<1>2. ASSUME field' = field, MustFill(field) /\ ~lax' => ~EmptyJson(column') PROVE FilledInv'
  BY <1>1, <1>2 DEF FilledInv, RequiredFilled, MustFill
<1>3. ASSUME NEW body \in Json \cup {Absent}, CreateRow(body) PROVE FilledInv'
  <2> DEFINE v == IF field.type = "autodate" /\ field.onCreate THEN Now
                  ELSE IF body = Absent THEN Default(ddl) ELSE Normal(field, body)
  <2>1. Storable(ddl, v) /\ column' = v /\ field' = field
    BY <1>3 DEF CreateRow
  <2>2. CASE field.type = "autodate" /\ field.onCreate
    <3>1. v = Now
      BY <2>2
    <3> QED BY <1>1, <1>2, <2>1, <3>1
  <2>3. CASE ~(field.type = "autodate" /\ field.onCreate) /\ body = Absent
    <3>1. v = Default(ddl)
      BY <2>3
    <3>2. CASE ddl = ColumnDDL(field)
      BY <1>1, <1>2, <2>1, <3>1, <3>2, DefaultFills
    <3>3. CASE ddl # ColumnDDL(field)
      <4>1. lax'
        BY <1>3, <2>3, <3>3 DEF CreateRow
      <4> QED BY <1>2, <2>1, <4>1
    <3> QED BY <3>2, <3>3
  <2>4. CASE ~(field.type = "autodate" /\ field.onCreate) /\ body # Absent
    <3>1. v = Normal(field, body) /\ Accepts(field, body) /\ body \in Json
      BY <1>3, <2>4 DEF CreateRow
    <3> QED BY <1>1, <1>2, <2>1, <3>1, AcceptedFills
  <2> QED BY <2>2, <2>3, <2>4
<1>4. ASSUME NEW body \in Json, PatchRow(body) PROVE FilledInv'
  <2>1. Accepts(field, body) /\ column' = Normal(field, body) /\ field' = field
    BY <1>4 DEF PatchRow
  <2> QED BY <1>1, <1>2, <2>1, AcceptedFills
<1>5. CASE TouchRow
  BY <1>1, <1>2, <1>5 DEF TouchRow
<1>6. CASE DeleteRow
  BY <1>6 DEF DeleteRow, FilledInv, RequiredFilled
<1>7. ASSUME NEW n \in 0 .. MaxSize, UploadFile(n) PROVE FilledInv'
  BY <1>2, <1>7 DEF UploadFile, MustFill
<1>8. ASSUME NEW d \in AnyField, EditField(d) PROVE FilledInv'
  BY <1>8, EditFills
<1>9. ASSUME NEW d \in AnyField, ReplaceColumn(d) PROVE FilledInv'
  <2>1. CASE column = Absent
    BY <1>9, <2>1 DEF ReplaceColumn, FilledInv, RequiredFilled
  <2>2. CASE column # Absent
    <3>1. /\ field' = d /\ column' = Default(ColumnDDL(d))
          /\ Storable(ColumnDDL(d), Default(ColumnDDL(d)))
      BY <1>9, <2>2 DEF ReplaceColumn
    <3>2. MustFill(d) => ~EmptyJson(Default(ColumnDDL(d)))
      BY <3>1, DefaultFills
    <3> QED BY <3>1, <3>2 DEF FilledInv, RequiredFilled, MustFill
  <2> QED BY <2>1, <2>2
<1>10. CASE UNCHANGED valueVars
  BY <1>10 DEF valueVars, FilledInv, RequiredFilled
<1>11. ASSUME NEW d \in AnyField, RenameField(d) PROVE FilledInv'
  <2>1. field' = d /\ column' = column
    BY <1>11 DEF RenameField
  <2>2. ASSUME column # Absent, ~lax' PROVE MustFill(field) /\ ~lax
    BY <1>11, <2>2 DEF RenameField, MustFill
  <2> QED BY <2>1, <2>2 DEF FilledInv, RequiredFilled, MustFill
<1> QED BY <1>3, <1>4, <1>5, <1>6, <1>7, <1>8, <1>9, <1>10, <1>11 DEF ValuesNext

\* No record is without a value for a required field, whatever bodies are sent and however the
\* field is redefined, unless a rename made it required: a definition under the same name keeps
\* the column of another only where no null and no empty value of the old one can be left
\* (applyFieldDiff, ColumnDDL, normalizeRecordValue).
THEOREM RequiredIsFilled == ValuesSpec => []RequiredFilled
<1>1. FilledInv => RequiredFilled
  BY DEF FilledInv
<1> QED BY <1>1, FilledInitially, FilledPreserved, PTL DEF ValuesSpec

\* What a body or a default leaves in a column is a value.
LEMMA StoredIsJson ==
  ASSUME NEW d \in AnyField, NEW col
  PROVE  /\ Default(col) \in Json /\ Now \in Json
         /\ \A v \in Json : Normal(d, v) \in Json
<1>1. MaxSize \in Nat \ {0}
  BY FieldAssumption
<1>2. Null \in Json /\ Now \in Json
  BY <1>1 DEF Null, Now, Json, JsonKinds
<1>3. Default(col) \in Json
  BY <1>1, <1>2 DEF Default, Json, JsonKinds
<1> QED BY <1>2, <1>3 DEF Normal

LEMMA ColumnTyped ==
  ASSUME NEW d \in AnyField
  PROVE  ColumnDDL(d) \in [type : ColumnTypes, size : 0 .. MaxSize, notNull : BOOLEAN,
                           default : {"null", "json", "bool"}]
<1>1. d.type \in FieldTypes /\ d.max \in 0 .. MaxSize /\ d.required \in BOOLEAN /\ MaxSize \in Nat
  BY FieldAssumption DEF FieldDefinitions
<1>2. ColumnType(d) \in ColumnTypes
  <2>1. CASE d.type \in Strings
    BY <2>1 DEF ColumnType, ColumnTypes
  <2>2. CASE d.type \in {"date", "autodate"}
    BY <2>2 DEF ColumnType, ColumnTypes, Strings
  <2>3. CASE d.type \in {"json", "file"}
    BY <2>3 DEF ColumnType, ColumnTypes, Strings
  <2>4. CASE d.type = "select"
    BY <2>4 DEF ColumnType, ColumnTypes, Strings
  <2>5. CASE d.type = "relation"
    BY <2>5 DEF ColumnType, ColumnTypes, Strings
  <2>6. CASE d.type \in {"decimal", "vector", "number", "bool"}
    BY <2>6 DEF ColumnType, ColumnTypes, Strings
  <2> QED BY <1>1, <2>1, <2>2, <2>3, <2>4, <2>5, <2>6 DEF FieldTypes
<1>3. (IF d.type = "vector" THEN d.max ELSE 0) \in 0 .. MaxSize
  BY <1>1
<1>4. (d.type \in {"json", "bool"} \/ (d.required /\ d.type # "file")) \in BOOLEAN
  BY Zenon
<1>5. (IF d.type = "json" \/ (d.type = "bool" /\ ~d.required) THEN d.type ELSE "null")
        \in {"null", "json", "bool"}
  OBVIOUS
<1> QED BY <1>2, <1>3, <1>4, <1>5, Zenon DEF ColumnDDL

\* The type of the value and its column; what is known of lax is apart.
ValuesShape ==
  /\ field \in AnyField
  /\ ddl \in [type : ColumnTypes, size : 0 .. MaxSize, notNull : BOOLEAN,
              default : {"null", "json", "bool"}]
  /\ column \in Json \cup {Absent}
LaxKnown == lax \in BOOLEAN

LEMMA ValuesTypePreserved == ValuesShape /\ [ValuesNext]_valueVars => ValuesShape'
<1> SUFFICES ASSUME ValuesShape, [ValuesNext]_valueVars PROVE ValuesShape'
  OBVIOUS
<1> USE DEF ValuesShape
<1>2. ASSUME NEW body \in Json \cup {Absent}, CreateRow(body) PROVE ValuesShape'
  <2>1. column' \in Json
    BY <1>2, StoredIsJson DEF CreateRow
  <2> QED BY <1>2, <2>1 DEF CreateRow
<1>3. ASSUME NEW body \in Json, PatchRow(body) PROVE ValuesShape'
  BY <1>3, StoredIsJson DEF PatchRow
<1>4. CASE TouchRow
  BY <1>4, StoredIsJson DEF TouchRow
<1>5. CASE DeleteRow
  BY <1>5 DEF DeleteRow
<1>6. ASSUME NEW n \in 0 .. MaxSize, UploadFile(n) PROVE ValuesShape'
  <2>1. column' \in Json
    BY <1>6 DEF UploadFile, Json, JsonKinds
  <2> QED BY <1>6, <2>1 DEF UploadFile
<1>7. ASSUME NEW d \in AnyField, EditField(d) \/ RenameField(d) PROVE ValuesShape'
  BY <1>7 DEF EditField, RenameField
<1>8. ASSUME NEW d \in AnyField, ReplaceColumn(d) PROVE ValuesShape'
  <2>1. ddl' = ColumnDDL(d) /\ field' = d /\ column' \in Json \cup {Absent}
    BY <1>8, StoredIsJson DEF ReplaceColumn
  <2> QED BY <2>1, ColumnTyped
<1>9. CASE UNCHANGED valueVars
  BY <1>9 DEF valueVars
<1> QED BY <1>2, <1>3, <1>4, <1>5, <1>6, <1>7, <1>8, <1>9 DEF ValuesNext

LEMMA LaxStaysKnown == LaxKnown /\ [ValuesNext]_valueVars => LaxKnown'
<1> SUFFICES ASSUME LaxKnown, [ValuesNext]_valueVars PROVE LaxKnown'
  OBVIOUS
<1> USE DEF LaxKnown
<1>1. ASSUME NEW body \in Json \cup {Absent}, CreateRow(body) PROVE LaxKnown'
  <2>1. (body = Absent /\ ddl # ColumnDDL(field)) \in BOOLEAN
    BY Zenon
  <2>2. lax' = (body = Absent /\ ddl # ColumnDDL(field))
    BY <1>1, Zenon DEF CreateRow
  <2> QED BY <2>1, <2>2, Zenon
<1>2. ASSUME NEW body \in Json, PatchRow(body) PROVE LaxKnown'
  BY <1>2, Zenon DEF PatchRow
<1>3. CASE TouchRow \/ DeleteRow \/ \E n \in 0 .. MaxSize : UploadFile(n)
  BY <1>3, Zenon DEF TouchRow, DeleteRow, UploadFile
<1>4. ASSUME NEW d \in AnyField, RenameField(d) PROVE LaxKnown'
  <2> DEFINE any == column # Absent /\ (lax \/ ~field.required \/ field.type \in {"file", "json"})
  <2>1. any \in BOOLEAN
    BY Zenon
  <2>2. lax' = any
    BY <1>4, Zenon DEF RenameField
  <2> QED BY <2>1, <2>2, Zenon
<1>5. CASE \E d \in AnyField : EditField(d) \/ ReplaceColumn(d)
  BY <1>5, Zenon DEF EditField, ReplaceColumn
<1>6. CASE UNCHANGED valueVars
  BY <1>6, Zenon DEF valueVars
<1> QED BY <1>1, <1>2, <1>3, <1>4, <1>5, <1>6, Zenon DEF ValuesNext

\* core/fields.go, records.go, collections.go: the definition in force is one that ValidateField
\* admits, and the column has a value of JSON as long as there is a record, through every body,
\* upload and change of the field.
THEOREM ValuesTyped == ValuesSpec => []ValuesTypeOK
<1>1. ValuesInit => ValuesShape /\ LaxKnown
  BY ColumnTyped DEF ValuesInit, ValuesShape, LaxKnown
<1>2. ValuesShape /\ LaxKnown => ValuesTypeOK
  <2>1. ValuesShape => field \in FieldDefinitions /\ ValidateField(field)
    BY FieldAssumption DEF ValuesShape
  <2> QED BY <2>1, Zenon DEF ValuesShape, LaxKnown, ValuesTypeOK
<1> QED BY <1>1, <1>2, ValuesTypePreserved, LaxStaysKnown, PTL DEF ValuesSpec

------------------------------------------------------------------------------
(* Collections and their tables *)

RowFields == {"fields", "rule", "constraints", "source"}
TableFields == {"columns", "policies", "granted", "constraints", "keys"}

\* The registry and the tables, those of the database or of a backup, have their fields.
Shaped(registry, physical) ==
  /\ DOMAIN registry = CollectionNames /\ DOMAIN physical = TableNames
  /\ \A n \in CollectionNames : registry[n] # NoCollection => DOMAIN registry[n] = RowFields
  /\ \A t \in TableNames : physical[t] # NoTable => DOMAIN physical[t] = TableFields

\* n is a collection with a table that Dublyobase made.
HasTable(registry, physical, n) ==
  registry[n] # NoCollection /\ registry[n].source = Own /\ physical[n] # NoTable

DeclaredIn(registry, physical) ==
  \A n \in CollectionNames : HasTable(registry, physical, n) =>
    AreDeclared(n, physical[n].constraints, registry[n].constraints)

Follows(registry, physical, except) ==
  \A n \in CollectionNames \ except : HasTable(registry, physical, n) =>
    physical[n].policies = registry[n].rule

\* Policies are there as long as the roles are, also in a backup; without roles no server serves
\* that migrates on start.
CollectionsInv ==
  /\ Shaped(collections, tables) /\ DeclaredIn(collections, tables)
  /\ \A a \in archive : /\ Shaped(a.collections, a.tables) /\ DeclaredIn(a.collections, a.tables)
                        /\ Follows(a.collections, a.tables, a.overtaken)
  /\ \A i \in importing : i.table \in SourceTables
  /\ DOMAIN servers = Servers
  /\ rolesExist => Follows(collections, tables, overtaken)
  /\ ~rolesExist => \A s \in Servers \ Unmigrated : servers[s].phase # "serving"

LEMMA CollectionsInitially == CollectionsInit => CollectionsInv
<1> SUFFICES ASSUME CollectionsInit PROVE CollectionsInv
  OBVIOUS
<1>1. \A n \in CollectionNames : collections[n] = NoCollection
  BY DEF CollectionsInit
<1>2. Shaped(collections, tables)
  <2>1. \A t \in TableNames : tables[t] = SourceTable \/ tables[t] = NoTable
    BY DEF CollectionsInit
  <2>2. DOMAIN SourceTable = TableFields
    BY DEF SourceTable, TableFields
  <2> HIDE DEF TableFields
  <2> QED BY <1>1, <2>1, <2>2 DEF CollectionsInit, Shaped
<1>3. DeclaredIn(collections, tables) /\ Follows(collections, tables, overtaken)
  BY <1>1 DEF DeclaredIn, Follows, HasTable
<1> QED BY <1>2, <1>3 DEF CollectionsInit, CollectionsInv

\* Only the collections and tables change.
LEMMA ShapedTables ==
  ASSUME CollectionsInv, UNCHANGED <<rolesExist, servers, archive>>,
         importing' \subseteq importing,
         Shaped(collections, tables)', DeclaredIn(collections, tables)',
         rolesExist => Follows(collections, tables, overtaken)'
  PROVE  CollectionsInv'
BY DEF CollectionsInv

\* A search index takes the name of an index of its own collection only.
LEMMA SyncedAreDeclared ==
  ASSUME NEW n \in CollectionNames, NEW owned, NEW wanted
  PROVE  AreDeclared(n, SyncConstraints(n, owned, wanted), wanted)
<1>1. ASSUME NEW c \in wanted, c \in Shadowed(n, wanted)
      PROVE  HasNamesake(n, c)
  <2>1. PICK d \in wanted \cap SearchIndexes : ObjectName[<<n, d>>] = ObjectName[<<n, c>>]
    BY <1>1 DEF Shadowed
  <2>2. c \in SchemaWide /\ d \in SchemaWide /\ c # d
    BY <1>1, CollectionsAssumption DEF Shadowed
  <2> QED BY <2>1, <2>2 DEF HasNamesake
<1> QED BY <1>1 DEF AreDeclared, SyncConstraints

\* What another collection takes away is what it can share a name with.
LEMMA UntakenAreDeclared ==
  ASSUME NEW n, NEW owned, NEW wanted, AreDeclared(n, owned, wanted),
         NEW m \in CollectionNames, NEW new, m # n \/ new = {}
  PROVE  AreDeclared(n, Untaken(owned, m, new), wanted)
<1>1. Untaken(owned, m, new) \subseteq owned
  BY DEF Untaken
<1>2. ASSUME NEW c \in wanted, <<n, c>> \in owned, <<n, c>> \notin Untaken(owned, m, new)
      PROVE  HasNamesake(n, c)
  <2>1. /\ c \in SchemaWide
        /\ \E w \in new \cap SchemaWide : ObjectName[<<m, w>>] = ObjectName[<<n, c>>]
    BY <1>2 DEF Untaken
  <2> QED BY <2>1 DEF HasNamesake
<1> QED BY <1>1, <1>2 DEF AreDeclared

LEMMA SyncedTable ==
  ASSUME NEW table, DOMAIN table = TableFields, NEW n \in CollectionNames, NEW rule, NEW wanted
  PROVE  LET s == Synced(table, n, rule, wanted)
         IN /\ DOMAIN s = TableFields /\ s.policies = rule
            /\ AreDeclared(n, s.constraints, wanted)
<1> DEFINE s == Synced(table, n, rule, wanted)
<1>1. /\ DOMAIN s = TableFields /\ s.policies = rule
      /\ s.constraints = SyncConstraints(n, table.constraints, wanted)
  BY DEF Synced, TableFields
<1> HIDE DEF s
<1>2. AreDeclared(n, s.constraints, wanted)
  BY <1>1, SyncedAreDeclared
<1> QED BY <1>1, <1>2 DEF s

\* What a change of another collection, named n, leaves of table t.
SameRules(t, new, old) ==
  new # NoTable => /\ old # NoTable /\ DOMAIN new = TableFields
                   /\ new.policies = old.policies
                   /\ \A wanted : AreDeclared(t, old.constraints, wanted) =>
                                   AreDeclared(t, new.constraints, wanted)

LEMMA BereftTable ==
  ASSUME NEW t, NEW old, old # NoTable => DOMAIN old = TableFields,
         NEW n \in CollectionNames, NEW wanted, n # t \/ wanted = {}
  PROVE  SameRules(t, Bereft(old, n, wanted), old)
<1>1. CASE old = NoTable
  BY <1>1 DEF Bereft, SameRules
<1>2. CASE old # NoTable
  <2> DEFINE new == [old EXCEPT !.constraints = Untaken(old.constraints, n, wanted)]
  <2>1. Bereft(old, n, wanted) = new
    BY <1>2 DEF Bereft
  <2>2. /\ DOMAIN new = TableFields /\ new.policies = old.policies
        /\ new.constraints = Untaken(old.constraints, n, wanted)
    BY <1>2 DEF TableFields
  <2> HIDE DEF new
  <2>3. \A w : AreDeclared(t, old.constraints, w) => AreDeclared(t, new.constraints, w)
    BY <2>2, UntakenAreDeclared
  <2> QED BY <1>2, <2>1, <2>2, <2>3 DEF SameRules
<1> QED BY <1>1, <1>2

LEMMA CreateKeeps ==
  ASSUME CollectionsInv, NEW n \in CollectionNames, NEW input, CreateCollection(n, input)
  PROVE  CollectionsInv'
<1> DEFINE row == [fields |-> input.fields, rule |-> input.rule, constraints |-> input.constraints,
                   source |-> Own]
           new == [columns |-> ColumnsOf(input.fields), policies |-> DefaultDeny, granted |-> FALSE,
                   constraints |-> {}, keys |-> KeysOf(n, input.fields)]
           synced == Synced(new, n, input.rule, input.constraints)
<1>1. /\ collections' = [collections EXCEPT ![n] = row]
      /\ tables' = [t \in TableNames |->
                      IF t = n THEN synced ELSE Bereft(tables[t], n, input.constraints)]
      /\ UNCHANGED <<rolesExist, servers, importing, archive, overtaken>> /\ rolesExist
  BY DEF CreateCollection
<1>2. DOMAIN new = TableFields
  BY DEF TableFields
<1>3. /\ DOMAIN row = RowFields /\ row.rule = input.rule /\ row.constraints = input.constraints
  BY DEF RowFields
<1> HIDE DEF new, row
<1>4. /\ DOMAIN synced = TableFields /\ synced.policies = input.rule
      /\ AreDeclared(n, synced.constraints, input.constraints)
  BY <1>2, SyncedTable
<1> HIDE DEF synced
<1>5. /\ Shaped(collections, tables) /\ DeclaredIn(collections, tables) /\ Follows(collections, tables, overtaken)
  BY <1>1 DEF CollectionsInv
<1>6. /\ DOMAIN collections' = CollectionNames /\ DOMAIN tables' = TableNames
      /\ collections'[n] = row /\ tables'[n] = synced
      /\ \A m \in CollectionNames \ {n} : collections'[m] = collections[m]
      /\ \A t \in TableNames \ {n} : SameRules(t, tables'[t], tables[t])
  <2>1. \A t \in TableNames \ {n} : tables'[t] = Bereft(tables[t], n, input.constraints)
    BY <1>1
  <2>2. \A t \in TableNames : tables[t] # NoTable => DOMAIN tables[t] = TableFields
    BY <1>5 DEF Shaped
  <2>3. \A t \in TableNames \ {n} : SameRules(t, tables'[t], tables[t])
    BY <2>1, <2>2, BereftTable
  <2> QED BY <1>1, <1>5, <2>3 DEF Shaped, TableNames
<1>7. Shaped(collections, tables)'
  BY <1>3, <1>4, <1>5, <1>6 DEF Shaped, TableNames, SameRules
<1>8. DeclaredIn(collections, tables)'
  BY <1>3, <1>4, <1>5, <1>6 DEF DeclaredIn, HasTable, TableNames, SameRules
<1>9. Follows(collections, tables, overtaken)'
  BY <1>1, <1>3, <1>4, <1>5, <1>6 DEF Follows, HasTable, TableNames, SameRules
<1> QED BY <1>1, <1>7, <1>8, <1>9, ShapedTables

LEMMA UpdateIs ==
  ASSUME CollectionsInv, NEW n \in CollectionNames, NEW edit, UpdateCollection(n, edit)
  PROVE  LET own == collections[n].source = Own
         IN /\ Defined(n) /\ rolesExist /\ UNCHANGED <<rolesExist, servers, importing, archive>>
            /\ overtaken' = IF own THEN overtaken \ {n, edit.name} ELSE overtaken
            /\ DOMAIN collections' = CollectionNames
            /\ \A m \in CollectionNames \ {n, edit.name} : collections'[m] = collections[m]
            /\ n # edit.name => collections'[n] = NoCollection
            /\ edit.name \in CollectionNames =>
                 /\ DOMAIN collections'[edit.name] = RowFields
                 /\ collections'[edit.name].source = collections[n].source
                 /\ collections'[edit.name].rule = edit.rule
                 /\ collections'[edit.name].constraints = edit.constraints
<1> DEFINE now == collections[n]
           fields == IF edit.fieldsSet THEN Stripped(edit.fields) ELSE now.fields
           row == [now EXCEPT !.fields = fields, !.rule = edit.rule, !.constraints = edit.constraints]
<1>1. /\ Defined(n) /\ rolesExist /\ UNCHANGED <<rolesExist, servers, importing, archive>>
      /\ overtaken' = IF now.source = Own THEN overtaken \ {n, edit.name} ELSE overtaken
      /\ collections' = [collections EXCEPT ![n] = IF edit.name = n THEN row ELSE NoCollection,
                                            ![edit.name] = row]
  BY DEF UpdateCollection
<1>2. DOMAIN collections = CollectionNames /\ DOMAIN now = RowFields
  BY <1>1 DEF CollectionsInv, Shaped, Defined
<1>3. /\ DOMAIN row = RowFields /\ row.source = now.source /\ row.rule = edit.rule
      /\ row.constraints = edit.constraints
  <2> HIDE DEF fields, now
  <2> QED BY <1>2 DEF RowFields
<1> HIDE DEF row
<1>4. /\ DOMAIN collections' = CollectionNames
      /\ \A m \in CollectionNames \ {n, edit.name} : collections'[m] = collections[m]
      /\ n # edit.name => collections'[n] = NoCollection
      /\ edit.name \in CollectionNames => collections'[edit.name] = row
  BY <1>1, <1>2
<1> QED BY <1>1, <1>3, <1>4

LEMMA UpdateTables ==
  ASSUME CollectionsInv, NEW n \in CollectionNames, NEW edit, edit.name \in CollectionNames,
         UpdateCollection(n, edit)
  PROVE  /\ DOMAIN tables' = TableNames
         /\ \A t \in TableNames :
              \/ SameRules(t, tables'[t], tables[t])
              \/ collections[n].source = Own /\ t \in {n, edit.name}
         /\ collections[n].source = Own =>
              /\ DOMAIN tables'[edit.name] = TableFields /\ tables'[edit.name].policies = edit.rule
              /\ AreDeclared(edit.name, tables'[edit.name].constraints, edit.constraints)
<1> DEFINE now == collections[n]
           fields == IF edit.fieldsSet THEN Stripped(edit.fields) ELSE now.fields
           place == IF now.source = Own THEN n ELSE now.source
           to == IF now.source = Own THEN edit.name ELSE now.source
           old == tables[place]
           wanted == IF now.source = Own THEN edit.constraints ELSE {}
           Left(t) == Bereft(tables[t], edit.name, wanted)
           Pointed(keys) == {[k EXCEPT !.to = IF @ = n THEN edit.name ELSE @] : k \in keys}
           moved == [old EXCEPT
             !.columns = IF edit.fieldsSet THEN ColumnsAfter(@, now.fields, edit.fields) ELSE @,
             !.keys = Pointed(@)]
           rekeyed == IF edit.fieldsSet
                      THEN [moved EXCEPT !.keys = SyncKeys(@, n, now.fields, edit.name, fields)]
                      ELSE moved
<1>1. /\ old # NoTable
      /\ tables' = [t \in TableNames |->
           IF t = to /\ now.source = Own THEN Synced(rekeyed, edit.name, edit.rule, edit.constraints)
           ELSE IF t = n /\ now.source = Own THEN NoTable
           ELSE IF tables[t] = NoTable THEN NoTable
           ELSE [Left(t) EXCEPT !.keys = Pointed(@)]]
  BY DEF UpdateCollection
<1> HIDE DEF Pointed
<1>2. ASSUME NEW t \in TableNames, tables[t] # NoTable, NEW keys,
             ~(now.source = Own /\ t \in {n, edit.name})
      PROVE  SameRules(t, [Left(t) EXCEPT !.keys = keys], tables[t])
  <2>1. DOMAIN tables[t] = TableFields
    BY <1>2 DEF CollectionsInv, Shaped
  <2>3. DOMAIN Left(t) = TableFields /\ Left(t).policies = tables[t].policies
    BY <1>2, <2>1 DEF Bereft, TableFields
  <2>4. \A w : AreDeclared(t, tables[t].constraints, w) => AreDeclared(t, Left(t).constraints, w)
    <3>1. Left(t).constraints = Untaken(tables[t].constraints, edit.name, wanted)
      BY <1>2, <2>1 DEF Bereft, TableFields
    <3>2. edit.name # t \/ wanted = {}
      BY <1>2
    <3> HIDE DEF Left, wanted
    <3> QED BY <3>1, <3>2, UntakenAreDeclared
  <2> DEFINE new == [Left(t) EXCEPT !.keys = keys]
  <2> HIDE DEF Left
  <2>5. /\ DOMAIN new = TableFields /\ new.policies = Left(t).policies
        /\ new.constraints = Left(t).constraints
    BY <2>3 DEF TableFields
  <2> HIDE DEF new
  <2>6. SameRules(t, new, tables[t])
    BY <1>2, <2>3, <2>4, <2>5 DEF SameRules
  <2> QED BY <2>6 DEF new
<1>3. ASSUME now.source = Own
      PROVE  DOMAIN rekeyed = TableFields
  <2>1. DOMAIN old = TableFields
    BY <1>1, <1>3 DEF CollectionsInv, Shaped, TableNames
  <2>2. DOMAIN moved = DOMAIN old
    OBVIOUS
  <2>3. DOMAIN rekeyed = DOMAIN moved
    <3> HIDE DEF moved
    <3> QED OBVIOUS
  <2> QED BY <2>1, <2>2, <2>3
<1>4. ASSUME NEW t \in TableNames, ~(now.source = Own /\ t \in {n, to})
      PROVE  SameRules(t, tables'[t], tables[t])
  <2>1. tables'[t] = IF tables[t] = NoTable THEN NoTable
                     ELSE [Left(t) EXCEPT !.keys = Pointed(Left(t).keys)]
    <3> HIDE DEF rekeyed, to, now, Left
    <3> QED BY <1>1, <1>4
  <2>2. ~(now.source = Own /\ t \in {n, edit.name})
    BY <1>4
  <2> HIDE DEF Left, now, to
  <2> QED BY <1>2, <2>1, <2>2 DEF SameRules
<1>5. ASSUME now.source = Own
      PROVE  tables'[edit.name] = Synced(rekeyed, edit.name, edit.rule, edit.constraints)
  <2>1. edit.name = to /\ edit.name \in TableNames
    BY <1>5 DEF TableNames
  <2> HIDE DEF rekeyed, to, now, Left
  <2> QED BY <1>1, <1>5, <2>1
<1>6. now.source = Own => to = edit.name
  OBVIOUS
<1>7. DOMAIN tables' = TableNames
  <2> HIDE DEF rekeyed, to, now, Left
  <2> QED BY <1>1
<1>8. now.source = Own =>
        LET s == Synced(rekeyed, edit.name, edit.rule, edit.constraints)
        IN /\ DOMAIN s = TableFields /\ s.policies = edit.rule
           /\ AreDeclared(edit.name, s.constraints, edit.constraints)
  <2> HIDE DEF rekeyed, now
  <2> QED BY <1>3, SyncedTable
<1> HIDE DEF rekeyed, to
<1> QED BY <1>4, <1>5, <1>6, <1>7, <1>8

LEMMA UpdateKeeps ==
  ASSUME CollectionsInv, NEW n \in CollectionNames, NEW edit, edit.name \in CollectionNames,
         UpdateCollection(n, edit)
  PROVE  CollectionsInv'
<1> DEFINE own == collections[n].source = Own
           name == edit.name
<1>1. /\ Defined(n) /\ rolesExist /\ UNCHANGED <<rolesExist, servers, importing, archive>>
      /\ overtaken' = IF own THEN overtaken \ {n, name} ELSE overtaken
      /\ DOMAIN collections' = CollectionNames
      /\ \A m \in CollectionNames \ {n, name} : collections'[m] = collections[m]
      /\ n # name => collections'[n] = NoCollection
      /\ name \in CollectionNames =>
           /\ DOMAIN collections'[name] = RowFields
           /\ collections'[name].source = collections[n].source
           /\ collections'[name].rule = edit.rule
           /\ collections'[name].constraints = edit.constraints
  BY UpdateIs
<1>2. /\ DOMAIN tables' = TableNames
      /\ \A t \in TableNames :
           \/ SameRules(t, tables'[t], tables[t])
           \/ own /\ t \in {n, name}
      /\ own => /\ DOMAIN tables'[name] = TableFields /\ tables'[name].policies = edit.rule
                /\ AreDeclared(name, tables'[name].constraints, edit.constraints)
  BY UpdateTables
<1>3. own /\ n # name => tables'[n] = NoTable
  BY DEF UpdateCollection, TableNames
<1>4. Shaped(collections, tables) /\ DeclaredIn(collections, tables) /\ Follows(collections, tables, overtaken)
  BY <1>1 DEF CollectionsInv
<1> HIDE DEF own, name
<1>5. ASSUME NEW m \in CollectionNames, HasTable(collections', tables', m)
      PROVE  /\ AreDeclared(m, tables'[m].constraints, collections'[m].constraints)
             /\ m \notin overtaken' => tables'[m].policies = collections'[m].rule
  <2>1. CASE m = name
    <3>1. own
      BY <1>1, <1>5, <2>1 DEF HasTable, own
    <3> QED BY <1>1, <1>2, <2>1, <3>1 DEF TableNames
  <2>2. CASE m = n /\ m # name
    BY <1>1, <1>5, <2>2 DEF HasTable
  <2>3. CASE m \notin {n, name}
    <3>1. SameRules(m, tables'[m], tables[m]) /\ collections'[m] = collections[m]
      BY <1>1, <1>2, <2>3 DEF TableNames
    <3>2. HasTable(collections, tables, m)
      BY <1>5, <3>1 DEF HasTable, SameRules
    <3>3. m \notin overtaken' => m \notin overtaken
      BY <1>1, <2>3
    <3>4. SameRules(m, tables'[m], tables[m]) /\ tables'[m] # NoTable
      BY <1>5, <3>1 DEF HasTable
    <3> QED BY <1>4, <3>1, <3>2, <3>3, <3>4 DEF DeclaredIn, Follows, SameRules
  <2> QED BY <2>1, <2>2, <2>3
<1>6. Shaped(collections, tables)'
  <2>1. \A m \in CollectionNames : collections'[m] # NoCollection => DOMAIN collections'[m] = RowFields
    BY <1>1, <1>4 DEF Shaped
  <2>2. \A t \in TableNames : tables'[t] # NoTable => DOMAIN tables'[t] = TableFields
    BY <1>2, <1>3 DEF SameRules
  <2> QED BY <1>1, <1>2, <2>1, <2>2 DEF Shaped, TableNames
<1>7. DeclaredIn(collections, tables)' /\ Follows(collections, tables, overtaken)'
  BY <1>5 DEF DeclaredIn, Follows, HasTable
<1> QED BY <1>1, <1>6, <1>7, ShapedTables

LEMMA DeleteKeeps ==
  ASSUME CollectionsInv, NEW n \in CollectionNames, DeleteCollection(n)
  PROVE  CollectionsInv'
<1>1. /\ collections' = [collections EXCEPT ![n] = NoCollection]
      /\ tables' = IF IsOwn(n) THEN [tables EXCEPT ![n] = NoTable] ELSE tables
      /\ overtaken' = overtaken \ {n} /\ UNCHANGED <<rolesExist, servers, importing, archive>>
  BY DEF DeleteCollection
<1>2. Shaped(collections, tables) /\ DeclaredIn(collections, tables)
  BY DEF CollectionsInv
<1>3. /\ DOMAIN collections' = CollectionNames /\ collections'[n] = NoCollection
      /\ \A m \in CollectionNames \ {n} : collections'[m] = collections[m]
      /\ DOMAIN tables' = TableNames
      /\ \A t \in TableNames : tables'[t] = tables[t] \/ tables'[t] = NoTable
  BY <1>1, <1>2 DEF Shaped
<1>4. Shaped(collections, tables)'
  BY <1>2, <1>3 DEF Shaped, TableNames
<1>5. DeclaredIn(collections, tables)'
  BY <1>1, <1>2, <1>3 DEF DeclaredIn, HasTable, TableNames
<1>6. rolesExist => Follows(collections, tables, overtaken)'
  BY <1>1, <1>2, <1>3 DEF CollectionsInv, Follows, HasTable, TableNames
<1> QED BY <1>1, <1>4, <1>5, <1>6, ShapedTables

\* The table is gone, with or without roles.
LEMMA DropKeeps ==
  ASSUME CollectionsInv, NEW n \in CollectionNames, DropByHand(n)
  PROVE  CollectionsInv'
<1>1. /\ tables' = [tables EXCEPT ![n] = NoTable]
      /\ UNCHANGED <<collections, rolesExist, servers, importing, archive, overtaken>>
  BY DEF DropByHand
<1>2. Shaped(collections, tables) /\ DeclaredIn(collections, tables)
  BY DEF CollectionsInv
<1>3. /\ DOMAIN tables' = TableNames
      /\ \A t \in TableNames : tables'[t] = tables[t] \/ tables'[t] = NoTable
  BY <1>1, <1>2 DEF Shaped
<1>4. Shaped(collections, tables)' /\ DeclaredIn(collections, tables)'
  BY <1>1, <1>2, <1>3 DEF Shaped, DeclaredIn, HasTable, TableNames
<1>5. Follows(collections, tables, overtaken) => Follows(collections, tables, overtaken)'
  BY <1>1, <1>3 DEF Follows, HasTable, TableNames
<1> QED BY <1>1, <1>4, <1>5 DEF CollectionsInv

LEMMA ImportKeeps ==
  ASSUME CollectionsInv, NEW rule \in Rules, ImportCommit(rule)
  PROVE  CollectionsInv'
<1> DEFINE fields == [f \in FieldNames |-> [type |-> "text", computed |-> FALSE,
                                            target |-> NoTarget, onDelete |-> "restrict"]]
           row(t) == [fields |-> fields, rule |-> rule, constraints |-> {}, source |-> t]
           New(n) == \E i \in importing : i.name = n
           table(n) == (CHOOSE i \in importing : i.name = n).table
<1>1. /\ importing' = {} /\ UNCHANGED <<tables, rolesExist, servers, archive, overtaken>>
      /\ collections' = [n \in CollectionNames |-> IF New(n) THEN row(table(n)) ELSE collections[n]]
  BY DEF ImportCommit
<1>2. ASSUME NEW n PROVE DOMAIN row(table(n)) = RowFields /\ row(table(n)).source = table(n)
  BY DEF RowFields
<1>3. /\ Shaped(collections, tables) /\ DeclaredIn(collections, tables)
      /\ rolesExist => Follows(collections, tables, overtaken)
  BY <1>1 DEF CollectionsInv
<1>4. \A n : New(n) => table(n) \in SourceTables
  BY DEF CollectionsInv
<1>5. \A n : New(n) => table(n) # Own
  BY <1>4, CollectionsAssumption
<1> HIDE DEF New, row, table
<1>6. /\ DOMAIN collections' = CollectionNames
      /\ \A n \in CollectionNames :
           \/ collections'[n] = collections[n]
           \/ DOMAIN collections'[n] = RowFields /\ collections'[n].source # Own
  BY <1>1, <1>2, <1>5
<1>7. \A n \in CollectionNames : HasTable(collections', tables', n) =>
        HasTable(collections, tables, n) /\ collections'[n] = collections[n]
  BY <1>1, <1>6 DEF HasTable
<1>8. Shaped(collections, tables)'
  BY <1>1, <1>3, <1>6 DEF Shaped, TableNames
<1>9. DeclaredIn(collections, tables)' /\ (rolesExist => Follows(collections, tables, overtaken)')
  <2>1. \A n \in CollectionNames : HasTable(collections', tables', n) =>
          /\ AreDeclared(n, tables'[n].constraints, collections'[n].constraints)
          /\ rolesExist /\ n \notin overtaken => tables'[n].policies = collections'[n].rule
    BY <1>1, <1>3, <1>7 DEF DeclaredIn, Follows
  <2> QED BY <1>1, <2>1 DEF DeclaredIn, Follows, HasTable
<1> QED BY <1>1, <1>8, <1>9, ShapedTables

LEMMA ImportReadKeeps == ASSUME CollectionsInv, ImportRead PROVE CollectionsInv'
<1>1. /\ \A i \in importing' : i.table \in SourceTables
      /\ UNCHANGED <<collections, tables, rolesExist, servers, archive, overtaken>>
  BY DEF ImportRead
<1> QED BY <1>1 DEF CollectionsInv, Shaped, DeclaredIn, Follows, HasTable, TableNames

LEMMA BackupKeeps == ASSUME CollectionsInv, TakeBackup PROVE CollectionsInv'
<1> DEFINE except == IF rolesExist THEN overtaken ELSE CollectionNames
<1>1. /\ UNCHANGED <<collections, tables, rolesExist, servers, importing, overtaken>>
      /\ archive' = {[collections |-> collections, tables |-> tables, overtaken |-> except]}
  BY DEF TakeBackup
<1>2. /\ Shaped(collections, tables) /\ DeclaredIn(collections, tables)
      /\ rolesExist => Follows(collections, tables, overtaken)
  BY DEF CollectionsInv
<1>3. Follows(collections, tables, except)
  BY <1>2 DEF Follows
<1> HIDE DEF except
<1>4. \A a \in archive' : /\ Shaped(a.collections, a.tables) /\ DeclaredIn(a.collections, a.tables)
                          /\ Follows(a.collections, a.tables, a.overtaken)
  BY <1>1, <1>2, <1>3
<1>5. /\ Shaped(collections, tables)' /\ DeclaredIn(collections, tables)'
      /\ rolesExist => Follows(collections, tables, overtaken)'
  BY <1>1, <1>2 DEF Shaped, DeclaredIn, Follows, HasTable, TableNames
<1>6. \A a \in archive' : /\ Shaped(a.collections, a.tables)' /\ DeclaredIn(a.collections, a.tables)'
                          /\ Follows(a.collections, a.tables, a.overtaken)'
  BY <1>4 DEF Shaped, DeclaredIn, Follows, HasTable, TableNames
<1> QED BY <1>1, <1>5, <1>6 DEF CollectionsInv

\* A restore brings back tables that fit their collections, with the policies or without any.
LEMMA RestoredIs ==
  ASSUME CollectionsInv, NEW roles, Restored(roles)
  PROVE  /\ Shaped(collections, tables)' /\ DeclaredIn(collections, tables)'
         /\ roles => Follows(collections, tables, overtaken)'
         /\ archive' = {} /\ rolesExist' = roles
<1>1. PICK a \in archive :
        /\ collections' = a.collections
        /\ tables' = [n \in TableNames |-> IF a.tables[n] = NoTable THEN NoTable
             ELSE [a.tables[n] EXCEPT !.granted = FALSE,
                                      !.policies = IF roles THEN @ ELSE DefaultDeny]]
        /\ overtaken' = IF roles THEN a.overtaken ELSE {}
  BY DEF Restored
<1>2. /\ Shaped(a.collections, a.tables) /\ DeclaredIn(a.collections, a.tables)
      /\ Follows(a.collections, a.tables, a.overtaken)
  BY DEF CollectionsInv
<1>3. ASSUME NEW n \in TableNames, tables'[n] # NoTable
      PROVE  /\ a.tables[n] # NoTable /\ DOMAIN tables'[n] = TableFields
             /\ tables'[n].constraints = a.tables[n].constraints
             /\ roles => tables'[n].policies = a.tables[n].policies
  <2>1. a.tables[n] # NoTable
    BY <1>1, <1>3
  <2>2. tables'[n] = [a.tables[n] EXCEPT !.granted = FALSE,
                                         !.policies = IF roles THEN a.tables[n].policies ELSE DefaultDeny]
    BY <1>1, <2>1
  <2>3. DOMAIN a.tables[n] = TableFields
    BY <1>2, <2>1 DEF Shaped
  <2> QED BY <2>1, <2>2, <2>3 DEF TableFields
<1>4. DOMAIN tables' = TableNames
  BY <1>1
<1>5. Shaped(collections, tables)'
  BY <1>1, <1>2, <1>3, <1>4 DEF Shaped, TableNames
<1>6. ASSUME NEW n \in CollectionNames, HasTable(collections', tables', n)
      PROVE  HasTable(a.collections, a.tables, n) /\ n \in TableNames /\ tables'[n] # NoTable
  BY <1>1, <1>3, <1>6 DEF HasTable, TableNames
<1>7. DeclaredIn(collections, tables)'
  BY <1>1, <1>2, <1>3, <1>6 DEF DeclaredIn, HasTable, TableNames
<1>8. roles => Follows(collections, tables, overtaken)'
  BY <1>1, <1>2, <1>3, <1>6 DEF Follows, HasTable, TableNames
<1> QED BY <1>5, <1>7, <1>8 DEF Restored

LEMMA RestoresKeep == ASSUME CollectionsInv, RunRestoreFile \/ RestoreElsewhere PROVE CollectionsInv'
<1>1. CASE RunRestoreFile
  <2>1. /\ UNCHANGED <<servers, importing>>
        /\ Restored(rolesExist)
    BY <1>1 DEF RunRestoreFile
  <2>2. /\ Shaped(collections, tables)' /\ DeclaredIn(collections, tables)'
        /\ rolesExist => Follows(collections, tables, overtaken)'
        /\ archive' = {} /\ rolesExist' = rolesExist
    BY <2>1, RestoredIs, Zenon
  <2> QED BY <2>1, <2>2, Zenon DEF CollectionsInv
<1>2. CASE RestoreElsewhere
  <2>1. /\ Shaped(collections, tables)' /\ DeclaredIn(collections, tables)'
        /\ archive' = {} /\ ~rolesExist'
    BY <1>2, RestoredIs DEF RestoreElsewhere
  <2>2. importing' = {} /\ UNCHANGED servers /\ \A s \in Servers : servers[s].phase = "down"
    BY <1>2 DEF RestoreElsewhere
  <2> QED BY <2>1, <2>2 DEF CollectionsInv
<1> QED BY <1>1, <1>2

LEMMA SameTables ==
  ASSUME CollectionsInv, UNCHANGED <<collections, tables, rolesExist, importing, archive, overtaken>>,
         DOMAIN servers' = Servers,
         \A s \in Servers \ Unmigrated : ~rolesExist => servers'[s].phase # "serving"
  PROVE  CollectionsInv'
<1>1. /\ Shaped(collections, tables)' /\ DeclaredIn(collections, tables)'
      /\ rolesExist => Follows(collections, tables, overtaken)'
  BY DEF CollectionsInv, Shaped, DeclaredIn, Follows, HasTable, TableNames
<1> QED BY <1>1 DEF CollectionsInv

LEMMA ServersKeep ==
  ASSUME CollectionsInv, NEW s \in Servers,
         \/ StartServer(s) \/ ServeUnmigrated(s) \/ ServeWithRoles(s)
         \/ RebuildRead(s) \/ StopServer(s)
  PROVE  CollectionsInv'
<1>1. UNCHANGED <<collections, tables, rolesExist, importing, archive, overtaken>>
  BY DEF StartServer, ServeUnmigrated, ServeWithRoles, RebuildRead, StopServer
<1>2. PICK now : /\ servers' = [servers EXCEPT ![s] = now]
                 /\ now.phase = "serving" => s \in Unmigrated \/ rolesExist
  <2> DEFINE reads == [phase |-> "rebuilding", read |-> collections]
             in(phase) == [phase |-> phase]
  <2>1. reads.phase = "rebuilding" /\ \A phase : in(phase).phase = phase
    OBVIOUS
  <2>2. \/ servers' = [servers EXCEPT ![s] = in("starting")]
        \/ servers' = [servers EXCEPT ![s] = in("down")]
        \/ servers' = [servers EXCEPT ![s] = in("serving")] /\ (s \in Unmigrated \/ rolesExist)
        \/ servers' = [servers EXCEPT ![s] = reads]
    BY DEF StartServer, ServeUnmigrated, ServeWithRoles, RebuildRead, StopServer, Phase
  <2> HIDE DEF reads, in
  <2> QED BY <2>1, <2>2
<1>3. DOMAIN servers' = Servers /\ servers'[s] = now /\ \A r \in Servers \ {s} : servers'[r] = servers[r]
  BY <1>2 DEF CollectionsInv
<1>4. ASSUME NEW r \in Servers \ Unmigrated, ~rolesExist
      PROVE  servers'[r].phase # "serving"
  BY <1>2, <1>3, <1>4 DEF CollectionsInv
<1> QED BY <1>1, <1>3, <1>4, SameTables

LEMMA RebuildKeeps == ASSUME CollectionsInv, NEW s \in Servers, RebuildCommit(s) PROVE CollectionsInv'
<1> DEFINE read == servers[s].read
<1>1. /\ servers[s].phase = "rebuilding" /\ rolesExist'
      /\ \A n \in Rebuilds(s) : tables[n] # NoTable
      /\ tables' = [n \in TableNames |->
           IF n \in Rebuilds(s) THEN [tables[n] EXCEPT !.policies = read[n].rule, !.granted = TRUE]
           ELSE tables[n]]
      /\ overtaken' = overtaken \cup {n \in CollectionNames :
           collections[n] # read[n] /\ (n \in Rebuilds(s) \/ ~rolesExist)}
      /\ UNCHANGED <<collections, importing, archive>>
  BY DEF RebuildCommit
<1>2. DOMAIN servers' = Servers
  BY DEF RebuildCommit, Phase, CollectionsInv
<1>3. Shaped(collections, tables) /\ DeclaredIn(collections, tables)
  BY DEF CollectionsInv
<1>4. ASSUME NEW n \in Rebuilds(s)
      PROVE  /\ n \in TableNames /\ tables[n] # NoTable /\ DOMAIN tables'[n] = TableFields
             /\ tables'[n].policies = read[n].rule
             /\ tables'[n].constraints = tables[n].constraints
  <2>1. n \in TableNames /\ tables[n] # NoTable
    BY <1>1, <1>4 DEF Rebuilds, TableNames
  <2>2. DOMAIN tables[n] = TableFields
    BY <1>3, <2>1 DEF Shaped
  <2>3. tables'[n] = [tables[n] EXCEPT !.policies = read[n].rule, !.granted = TRUE]
    BY <1>1, <1>4, <2>1
  <2> QED BY <2>1, <2>2, <2>3 DEF TableFields
<1>5. \A t \in TableNames : t \notin Rebuilds(s) => tables'[t] = tables[t]
  BY <1>1
<1>6. DOMAIN tables' = TableNames
  BY <1>1
<1>7. Shaped(collections, tables)'
  BY <1>1, <1>3, <1>4, <1>5, <1>6 DEF Shaped, TableNames
<1>8. ASSUME NEW n \in CollectionNames, HasTable(collections', tables', n)
      PROVE  HasTable(collections, tables, n) /\ n \in TableNames
                /\ tables'[n].constraints = tables[n].constraints
  BY <1>1, <1>4, <1>5, <1>8 DEF HasTable, TableNames
<1>9. DeclaredIn(collections, tables)'
  BY <1>1, <1>3, <1>8 DEF DeclaredIn, HasTable
<1>10. ASSUME NEW n \in CollectionNames \ overtaken', HasTable(collections', tables', n)
       PROVE  tables'[n].policies = collections'[n].rule
  <2>1. CASE n \in Rebuilds(s)
    <3>1. collections[n] = read[n]
      BY <1>1, <1>10, <2>1
    <3> QED BY <1>1, <1>4, <2>1, <3>1
  <2>2. CASE n \notin Rebuilds(s)
    <3>1. n \notin overtaken /\ HasTable(collections, tables, n) /\ tables'[n] = tables[n]
      BY <1>1, <1>5, <1>8, <1>10, <2>2
    <3>2. rolesExist
      <4>1. read[n] # collections[n]
        BY <2>2, <3>1 DEF Rebuilds, HasTable
      <4> QED BY <1>1, <1>10, <4>1
    <3> QED BY <1>1, <3>1, <3>2 DEF CollectionsInv, Follows
  <2> QED BY <2>1, <2>2
<1>11. Follows(collections, tables, overtaken)'
  BY <1>10 DEF Follows, HasTable
<1> QED BY <1>1, <1>2, <1>7, <1>9, <1>11 DEF CollectionsInv

LEMMA CollectionsPreserved ==
  ASSUME CollectionsInv, [CollectionsNext]_collectionVars PROVE CollectionsInv'
<1>1. CASE UNCHANGED collectionVars
  <2>1. UNCHANGED <<collections, tables, rolesExist, servers, importing, archive, overtaken>>
    BY <1>1 DEF collectionVars
  <2>2. DOMAIN servers = Servers /\ \A s \in Servers \ Unmigrated :
          ~rolesExist => servers[s].phase # "serving"
    BY DEF CollectionsInv
  <2> QED BY <2>1, <2>2, SameTables
<1>2. ASSUME NEW n \in CollectionNames, NEW edit \in CollectionEdits, UpdateCollection(n, edit)
      PROVE  CollectionsInv'
  <2>1. edit.name \in CollectionNames
    BY SchemaRequestsAssumption
  <2> QED BY <1>2, <2>1, UpdateKeeps
<1> QED BY <1>1, <1>2, CreateKeeps, DeleteKeeps, DropKeeps, ImportKeeps, ImportReadKeeps,
           BackupKeeps, RestoresKeep, ServersKeep, RebuildKeeps DEF CollectionsNext

\* As soon as there are roles, and so while any server serves that migrates on start, the policies
\* of the tables are those of their rules: for any collections, renames, imports, backups, restores
\* and servers, with MIGRATE_ON_START or without, that start, rebuild and stop at any point
\* (syncCollectionPolicies, ReconcileProjectSecurity).
THEOREM PoliciesAlwaysFollow == CollectionsSpec => []PoliciesFollowRules
<1>1. CollectionsInv => PoliciesFollowRules
  BY DEF CollectionsInv, Follows, HasTable, PoliciesFollowRules, IsOwn, Defined
<1> QED BY <1>1, CollectionsInitially, CollectionsPreserved, PTL DEF CollectionsSpec

\* No constraint is left behind on the wrong table, and none is missing but an index or trigger
\* that can share its name with another, by the same invariant, whatever the names come to
\* (syncCollectionConstraints, syncCrossRowRules).
THEOREM ConstraintsStayDeclared == CollectionsSpec => []ConstraintsAreDeclared
<1>1. CollectionsInv => ConstraintsAreDeclared
  BY DEF CollectionsInv, DeclaredIn, HasTable, ConstraintsAreDeclared, IsOwn, Defined
<1> QED BY <1>1, CollectionsInitially, CollectionsPreserved, PTL DEF CollectionsSpec

\* What a row of the registry, a table, and a request can hold
RowTyped(x) == x = NoCollection \/ x \in CollectionRows
TableTyped(x) == x # NoTable =>
  /\ DOMAIN x = TableFields /\ x.policies \in Rules \cup {DefaultDeny}
  /\ x.constraints \subseteq CollectionNames \X Constraints /\ x.keys \subseteq ForeignKeys
SchemaTyped(registry, physical) ==
  /\ \A n \in CollectionNames : RowTyped(registry[n])
  /\ \A t \in TableNames : TableTyped(physical[t])

\* The database is typed, and so are the backup and what a rebuild has read.
SchemaSizes ==
  /\ SchemaTyped(collections, tables) /\ overtaken \subseteq CollectionNames
  /\ \A a \in archive : SchemaTyped(a.collections, a.tables) /\ a.overtaken \subseteq CollectionNames
  /\ \A s \in Servers :
       /\ servers[s].phase \in {"down", "starting", "rebuilding", "serving"}
       /\ servers[s].phase = "rebuilding" => \A n \in CollectionNames : RowTyped(servers[s].read[n])
  /\ schemaChanges \in 0 .. MaxSchemaChanges

LEMMA SchemaSizesInitially == CollectionsInit => SchemaSizes
<1> SUFFICES ASSUME CollectionsInit PROVE SchemaSizes
  OBVIOUS
<1>1. TableTyped(SourceTable) /\ TableTyped(NoTable)
  <2>1. DOMAIN SourceTable = TableFields
    BY DEF SourceTable, TableFields
  <2>2. SourceTable.policies = DefaultDeny /\ SourceTable.constraints = {} /\ SourceTable.keys = {}
    BY DEF SourceTable
  <2> QED BY <2>1, <2>2 DEF TableTyped
<1>2. \A t \in TableNames : tables[t] = SourceTable \/ tables[t] = NoTable
  BY DEF CollectionsInit
<1>3. SchemaTyped(collections, tables)
  BY <1>1, <1>2 DEF CollectionsInit, SchemaTyped, RowTyped
<1>4. \A s \in Servers : servers[s].phase \in {"down", "serving"}
  BY DEF CollectionsInit, Down
<1> QED BY <1>3, <1>4, CollectionsAssumption DEF CollectionsInit, SchemaSizes

\* A request changes the registry and the tables, of which there are no more than the bound.
LEMMA RequestSizes ==
  ASSUME SchemaSizes, SchemaRequest, UNCHANGED <<servers, archive>>,
         SchemaTyped(collections, tables)', overtaken' \subseteq CollectionNames
  PROVE  SchemaSizes'
<1>1. schemaChanges' \in 0 .. MaxSchemaChanges
  BY CollectionsAssumption DEF SchemaSizes, SchemaRequest
<1> QED BY <1>1 DEF SchemaSizes

\* The keys that fields ask for are keys, as only relations have targets.
LEMMA KeysTyped ==
  ASSUME NEW fields \in [FieldNames -> FieldDefs \cup {NoField}], NEW rule, Valid(fields, rule),
         NEW n \in CollectionNames
  PROVE  KeysOf(n, fields) \subseteq ForeignKeys
<1> SUFFICES ASSUME NEW f \in Relations(fields)
             PROVE  [named |-> <<n, f>>, column |-> f, to |-> fields[f].target,
                     onDelete |-> fields[f].onDelete] \in ForeignKeys
  BY DEF KeysOf
<1>1. f \in FieldNames /\ fields[f] \in FieldDefs /\ fields[f].type = "relation"
  BY DEF Relations, Present
<1>2. fields[f].target # NoTarget
  BY <1>1 DEF Relations, Valid
<1>3. fields[f].target \in CollectionNames /\ fields[f].onDelete \in {"restrict", "cascade"}
  BY <1>1, <1>2 DEF FieldDefs
<1> QED BY <1>1, <1>3 DEF ForeignKeys

LEMMA SyncedTyped ==
  ASSUME NEW table, DOMAIN table = TableFields, table.keys \subseteq ForeignKeys,
         NEW n \in CollectionNames, NEW rule \in Rules, NEW wanted \in SUBSET Constraints
  PROVE  TableTyped(Synced(table, n, rule, wanted))
<1> DEFINE s == Synced(table, n, rule, wanted)
<1>1. s.keys = table.keys
  BY DEF Synced, TableFields
<1>2. /\ DOMAIN s = TableFields /\ s.policies = rule
      /\ s.constraints \subseteq {<<n, c>> : c \in wanted}
  BY SyncedTable DEF AreDeclared
<1> SUFFICES TableTyped(s)
  OBVIOUS
<1> HIDE DEF s
<1>3. {<<n, c>> : c \in wanted} \subseteq CollectionNames \X Constraints
  OBVIOUS
<1> QED BY <1>1, <1>2, <1>3 DEF TableTyped

LEMMA BereftTyped ==
  ASSUME NEW table, TableTyped(table), NEW n, NEW wanted
  PROVE  TableTyped(Bereft(table, n, wanted))
<1>1. CASE table = NoTable
  BY <1>1 DEF Bereft
<1>2. CASE table # NoTable
  <2> DEFINE left == [table EXCEPT !.constraints = Untaken(table.constraints, n, wanted)]
  <2>1. /\ DOMAIN left = TableFields /\ left.policies = table.policies /\ left.keys = table.keys
        /\ left.constraints = Untaken(table.constraints, n, wanted)
    BY <1>2 DEF TableTyped, TableFields
  <2>2. Untaken(table.constraints, n, wanted) \subseteq table.constraints
    BY DEF Untaken
  <2>3. Bereft(table, n, wanted) = left
    BY <1>2 DEF Bereft
  <2> HIDE DEF left
  <2> QED BY <1>2, <2>1, <2>2, <2>3 DEF TableTyped
<1> QED BY <1>1, <1>2

LEMMA CreateTyped ==
  ASSUME CollectionsInv, SchemaSizes, NEW n \in CollectionNames, NEW input \in CollectionInputs,
         CreateCollection(n, input)
  PROVE  SchemaSizes'
<1> DEFINE row == [fields |-> input.fields, rule |-> input.rule, constraints |-> input.constraints,
                   source |-> Own]
           new == [columns |-> ColumnsOf(input.fields), policies |-> DefaultDeny, granted |-> FALSE,
                   constraints |-> {}, keys |-> KeysOf(n, input.fields)]
           synced == Synced(new, n, input.rule, input.constraints)
<1>1. /\ collections' = [collections EXCEPT ![n] = row]
      /\ tables' = [t \in TableNames |->
                      IF t = n THEN synced ELSE Bereft(tables[t], n, input.constraints)]
      /\ UNCHANGED <<rolesExist, servers, importing, archive, overtaken>> /\ SchemaRequest
      /\ Valid(input.fields, input.rule)
  BY DEF CreateCollection
<1>2. /\ input.fields \in [FieldNames -> FieldDefs \cup {NoField}] /\ input.rule \in Rules
      /\ input.constraints \in SUBSET Constraints
  BY SchemaRequestsAssumption
<1>3. RowTyped(row)
  BY <1>2 DEF RowTyped, CollectionRows
<1>4. DOMAIN new = TableFields /\ new.keys \subseteq ForeignKeys
  BY <1>1, <1>2, KeysTyped DEF TableFields
<1> HIDE DEF row, new
<1>5. TableTyped(synced)
  BY <1>2, <1>4, SyncedTyped
<1> HIDE DEF synced
<1>6. SchemaTyped(collections, tables)'
  <2>1. \A t \in TableNames : TableTyped(Bereft(tables[t], n, input.constraints))
    BY BereftTyped DEF SchemaSizes, SchemaTyped
  <2> QED BY <1>1, <1>3, <1>5, <2>1 DEF CollectionsInv, Shaped, SchemaSizes, SchemaTyped
<1> QED BY <1>1, <1>6, RequestSizes DEF SchemaSizes

\* Stripped of their old names, the fields of an update are fields of a collection.
LEMMA StrippedTyped ==
  ASSUME NEW next \in [FieldNames -> EditDefs \cup {NoField}]
  PROVE  Stripped(next) \in [FieldNames -> FieldDefs \cup {NoField}]
<1>1. ASSUME NEW f \in FieldNames, next[f] # NoField
      PROVE  [type |-> next[f].type, computed |-> next[f].computed, target |-> next[f].target,
              onDelete |-> next[f].onDelete] \in FieldDefs
  <2>1. next[f] \in EditDefs
    BY <1>1
  <2> QED BY <2>1 DEF EditDefs, FieldDefs
<1> QED BY <1>1 DEF Stripped

LEMMA UpdateTyped ==
  ASSUME CollectionsInv, SchemaSizes, NEW n \in CollectionNames, NEW edit \in CollectionEdits,
         UpdateCollection(n, edit)
  PROVE  SchemaSizes'
<1> DEFINE now == collections[n]
           fields == IF edit.fieldsSet THEN Stripped(edit.fields) ELSE now.fields
           place == IF now.source = Own THEN n ELSE now.source
           to == IF now.source = Own THEN edit.name ELSE now.source
           old == tables[place]
           wanted == IF now.source = Own THEN edit.constraints ELSE {}
           Left(t) == Bereft(tables[t], edit.name, wanted)
           Pointed(keys) == {[k EXCEPT !.to = IF @ = n THEN edit.name ELSE @] : k \in keys}
           moved == [old EXCEPT
             !.columns = IF edit.fieldsSet THEN ColumnsAfter(@, now.fields, edit.fields) ELSE @,
             !.keys = Pointed(@)]
           rekeyed == IF edit.fieldsSet
                      THEN [moved EXCEPT !.keys = SyncKeys(@, n, now.fields, edit.name, fields)] ELSE moved
           row == [now EXCEPT !.fields = fields, !.rule = edit.rule, !.constraints = edit.constraints]
<1>1. /\ SchemaRequest /\ Defined(n) /\ old # NoTable /\ Valid(fields, edit.rule)
      /\ UNCHANGED <<rolesExist, servers, importing, archive>>
      /\ overtaken' \subseteq overtaken
      /\ collections' = [collections EXCEPT ![n] = IF edit.name = n THEN row ELSE NoCollection,
                                            ![edit.name] = row]
      /\ tables' = [t \in TableNames |->
           IF t = to /\ now.source = Own THEN Synced(rekeyed, edit.name, edit.rule, edit.constraints)
           ELSE IF t = n /\ now.source = Own THEN NoTable
           ELSE IF tables[t] = NoTable THEN NoTable
           ELSE [Left(t) EXCEPT !.keys = Pointed(@)]]
  BY DEF UpdateCollection
<1>2. /\ edit.name \in CollectionNames /\ edit.rule \in Rules
      /\ edit.constraints \in SUBSET Constraints
      /\ edit.fields \in [FieldNames -> EditDefs \cup {NoField}]
  BY SchemaRequestsAssumption
<1>3. now \in CollectionRows
  BY <1>1 DEF SchemaSizes, SchemaTyped, RowTyped, Defined
<1>4. fields \in [FieldNames -> FieldDefs \cup {NoField}]
  <2>1. now.fields \in [FieldNames -> FieldDefs \cup {NoField}]
    BY <1>3 DEF CollectionRows
  <2> HIDE DEF now
  <2> QED BY <1>2, <2>1, StrippedTyped
<1>5. row \in CollectionRows
  <2> HIDE DEF fields, now
  <2> QED BY <1>2, <1>3, <1>4 DEF CollectionRows
<1>6. KeysOf(edit.name, fields) \subseteq ForeignKeys
  <2> HIDE DEF fields
  <2> QED BY <1>1, <1>2, <1>4, KeysTyped
<1>7. ASSUME NEW keys, keys \subseteq ForeignKeys PROVE Pointed(keys) \subseteq ForeignKeys
  <2> HIDE DEF now, fields, place, to, old, moved, rekeyed, row, wanted, Left
  <2>1. edit.name \in CollectionNames
    BY <1>2
  <2> QED BY <1>7, <2>1 DEF ForeignKeys
<1>8. \A t \in TableNames : TableTyped(tables[t])
  BY DEF SchemaSizes, SchemaTyped
<1>9. place \in TableNames
  <2>1. now.source \in SourceTables \cup {Own}
    BY <1>3 DEF CollectionRows
  <2> HIDE DEF now
  <2> QED BY <2>1 DEF TableNames
<1>10. DOMAIN rekeyed = TableFields /\ rekeyed.keys \subseteq ForeignKeys
  <2>1. DOMAIN old = TableFields /\ old.keys \subseteq ForeignKeys
    <3> HIDE DEF place
    <3> QED BY <1>1, <1>8, <1>9 DEF TableTyped
  <2>2. DOMAIN moved = TableFields /\ moved.keys = Pointed(old.keys)
    <3> HIDE DEF old, Pointed, now
    <3> QED BY <2>1 DEF TableFields
  <2>3. moved.keys \subseteq ForeignKeys
    BY <1>7, <2>1, <2>2
  <2>4. SyncKeys(moved.keys, n, now.fields, edit.name, fields) \subseteq ForeignKeys
    <3> HIDE DEF moved, now, fields
    <3> QED BY <1>6, <2>3 DEF SyncKeys
  <2> HIDE DEF moved, fields, now
  <2>5. DOMAIN rekeyed = TableFields
    BY <2>2
  <2>6. rekeyed.keys = IF edit.fieldsSet THEN SyncKeys(moved.keys, n, now.fields, edit.name, fields)
                       ELSE moved.keys
    BY <2>2 DEF TableFields
  <2> QED BY <2>3, <2>4, <2>5, <2>6
<1> HIDE DEF rekeyed, row, fields, to, place, wanted
<1>11. TableTyped(Synced(rekeyed, edit.name, edit.rule, edit.constraints))
  BY <1>2, <1>10, SyncedTyped
<1>12. ASSUME NEW t \in TableNames, tables[t] # NoTable
       PROVE  TableTyped([Left(t) EXCEPT !.keys = Pointed(Left(t).keys)])
  <2> HIDE DEF Pointed
  <2>1. TableTyped(tables[t])
    BY <1>8
  <2>2. TableTyped(Left(t))
    BY <2>1, BereftTyped
  <2>3. DOMAIN Left(t) = TableFields /\ Left(t).keys = tables[t].keys
        /\ Left(t).policies = tables[t].policies
        /\ Left(t).constraints \subseteq tables[t].constraints
    BY <1>12, <2>1 DEF Bereft, Untaken, TableTyped, TableFields
  <2>4. Pointed(Left(t).keys) \subseteq ForeignKeys
    BY <1>7, <1>12, <2>1, <2>3 DEF TableTyped
  <2> HIDE DEF Left
  <2> QED BY <1>12, <2>1, <2>3, <2>4 DEF TableTyped, TableFields
<1> HIDE DEF now, Pointed, Left
<1>13. \A t \in TableNames : TableTyped(tables'[t])
  <2>1. ASSUME NEW t \in TableNames PROVE TableTyped(tables'[t])
    <3>1. TableTyped(NoTable)
      BY DEF TableTyped
    <3> QED BY <1>1, <1>11, <1>12, <3>1
  <2> QED BY <2>1
<1>14. \A m \in CollectionNames : RowTyped(collections'[m])
  BY <1>1, <1>2, <1>5 DEF CollectionsInv, Shaped, SchemaSizes, SchemaTyped, RowTyped
<1>15. SchemaTyped(collections, tables)'
  BY <1>13, <1>14 DEF SchemaTyped
<1> QED BY <1>1, <1>15, RequestSizes DEF SchemaSizes

LEMMA ImportTyped ==
  ASSUME CollectionsInv, SchemaSizes, NEW rule \in Rules, ImportCommit(rule)
  PROVE  SchemaSizes'
<1> DEFINE fields == [f \in FieldNames |-> [type |-> "text", computed |-> FALSE,
                                            target |-> NoTarget, onDelete |-> "restrict"]]
           row(t) == [fields |-> fields, rule |-> rule, constraints |-> {}, source |-> t]
           New(n) == \E i \in importing : i.name = n
           table(n) == (CHOOSE i \in importing : i.name = n).table
<1>1. /\ SchemaRequest /\ UNCHANGED <<tables, rolesExist, servers, archive, overtaken>>
      /\ collections' = [n \in CollectionNames |-> IF New(n) THEN row(table(n)) ELSE collections[n]]
  BY DEF ImportCommit
<1>2. \A n : New(n) => table(n) \in SourceTables
  BY DEF CollectionsInv
<1>3. fields \in [FieldNames -> FieldDefs \cup {NoField}]
  BY DEF FieldDefs, Types
<1>4. \A t \in SourceTables : row(t) \in CollectionRows
  <2> HIDE DEF fields
  <2> QED BY <1>3 DEF CollectionRows
<1> HIDE DEF New, row, table
<1>5. SchemaTyped(collections, tables)'
  BY <1>1, <1>2, <1>4 DEF SchemaSizes, SchemaTyped, RowTyped
<1> QED BY <1>1, <1>5, RequestSizes DEF SchemaSizes

LEMMA RestoreTyped ==
  ASSUME SchemaSizes, NEW roles, Restored(roles),
         UNCHANGED servers
  PROVE  SchemaSizes'
<1>1. PICK a \in archive :
        /\ collections' = a.collections
        /\ tables' = [n \in TableNames |-> IF a.tables[n] = NoTable THEN NoTable
             ELSE [a.tables[n] EXCEPT !.granted = FALSE,
                                      !.policies = IF roles THEN @ ELSE DefaultDeny]]
        /\ overtaken' = IF roles THEN a.overtaken ELSE {}
  BY DEF Restored
<1>2. SchemaTyped(a.collections, a.tables) /\ a.overtaken \subseteq CollectionNames
  BY DEF SchemaSizes
<1>3. ASSUME NEW t \in TableNames PROVE TableTyped(tables'[t])
  <2>1. TableTyped(a.tables[t])
    BY <1>2 DEF SchemaTyped
  <2>2. CASE a.tables[t] = NoTable
    BY <1>1, <2>2 DEF TableTyped
  <2>3. CASE a.tables[t] # NoTable
    <3>1. tables'[t] = [a.tables[t] EXCEPT !.granted = FALSE,
                                           !.policies = IF roles THEN @ ELSE DefaultDeny]
      BY <1>1, <2>3
    <3> QED BY <2>1, <2>3, <3>1 DEF TableTyped, TableFields
  <2> QED BY <2>2, <2>3
<1>4. SchemaTyped(collections, tables)'
  BY <1>1, <1>2, <1>3 DEF SchemaTyped
<1>5. schemaChanges' = 0 /\ archive' = {}
  BY DEF Restored
<1>7. 0 \in 0 .. MaxSchemaChanges
  BY CollectionsAssumption
<1>6. overtaken' \subseteq CollectionNames
  BY <1>1, <1>2
<1> QED BY <1>4, <1>5, <1>6, <1>7 DEF SchemaSizes

\* A step of one server, which may end a rebuild
LEMMA ServerTyped ==
  ASSUME SchemaSizes, NEW s \in Servers,
         servers'[s].phase \in {"down", "starting", "rebuilding", "serving"},
         servers'[s].phase = "rebuilding" => \A n \in CollectionNames : RowTyped(servers'[s].read[n]),
         \A r \in Servers \ {s} : servers'[r] = servers[r], UNCHANGED <<archive, schemaChanges>>,
         SchemaTyped(collections, tables)', overtaken' \subseteq CollectionNames
  PROVE  SchemaSizes'
BY DEF SchemaSizes

LEMMA RebuildTyped ==
  ASSUME CollectionsInv, SchemaSizes, NEW s \in Servers, RebuildCommit(s)
  PROVE  SchemaSizes'
<1> DEFINE x == [phase |-> "serving"]
           read == servers[s].read
<1>1. /\ \A n \in Rebuilds(s) : tables[n] # NoTable
      /\ rolesExist' = TRUE /\ servers' = [servers EXCEPT ![s] = x]
      /\ tables' = [n \in TableNames |->
           IF n \in Rebuilds(s)
           THEN [tables[n] EXCEPT !.policies = read[n].rule, !.granted = TRUE]
           ELSE tables[n]]
      /\ overtaken' = overtaken \cup {n \in CollectionNames :
           collections[n] # read[n] /\ (n \in Rebuilds(s) \/ ~rolesExist)}
      /\ UNCHANGED <<collections, importing, archive, schemaChanges>>
      /\ servers[s].phase = "rebuilding"
  BY DEF RebuildCommit, Phase
<1>2. \A n \in Rebuilds(s) : n \in CollectionNames /\ read[n] # NoCollection
  BY DEF Rebuilds
<1>3. \A n \in Rebuilds(s) : read[n].rule \in Rules
  BY <1>1, <1>2 DEF SchemaSizes, RowTyped, CollectionRows
<1>4. x.phase = "serving"
  OBVIOUS
<1> HIDE DEF read, x
<1>5. ASSUME NEW t \in TableNames PROVE TableTyped(tables'[t])
  <2>1. TableTyped(tables[t])
    BY DEF SchemaSizes, SchemaTyped
  <2>2. CASE t \in Rebuilds(s)
    <3>1. tables'[t] = [tables[t] EXCEPT !.policies = read[t].rule, !.granted = TRUE]
      BY <1>1, <2>2
    <3> QED BY <1>1, <1>3, <2>1, <2>2, <3>1 DEF TableTyped, TableFields
  <2>3. CASE t \notin Rebuilds(s)
    BY <1>1, <2>1, <2>3
  <2> QED BY <2>2, <2>3
<1>6. SchemaTyped(collections, tables)'
  BY <1>1, <1>5 DEF SchemaSizes, SchemaTyped
<1>7. overtaken' \subseteq CollectionNames
  BY <1>1, <1>2 DEF SchemaSizes
<1>8. UNCHANGED <<archive, schemaChanges>>
  BY <1>1
<1>9. servers'[s] = x /\ \A r \in Servers \ {s} : servers'[r] = servers[r]
  BY <1>1 DEF CollectionsInv
<1>10. servers'[s].phase = "serving"
  BY <1>4, <1>9
<1> QED BY <1>6, <1>7, <1>8, <1>9, <1>10, ServerTyped

LEMMA SchemaSizesPreserved ==
  CollectionsInv /\ SchemaSizes /\ [CollectionsNext]_collectionVars => SchemaSizes'
<1> SUFFICES ASSUME CollectionsInv, SchemaSizes, [CollectionsNext]_collectionVars
             PROVE  SchemaSizes'
  OBVIOUS
<1>1. /\ SchemaTyped(collections, tables) /\ overtaken \subseteq CollectionNames
  BY DEF SchemaSizes
<1>2. ASSUME NEW n \in CollectionNames, NEW input \in CollectionInputs, CreateCollection(n, input)
      PROVE  SchemaSizes'
  BY <1>2, CreateTyped
<1>3. ASSUME NEW n \in CollectionNames, NEW edit \in CollectionEdits, UpdateCollection(n, edit)
      PROVE  SchemaSizes'
  BY <1>3, UpdateTyped
<1>4. ASSUME NEW n \in CollectionNames, DeleteCollection(n)
      PROVE  SchemaSizes'
  <2>1. /\ SchemaRequest /\ UNCHANGED <<rolesExist, servers, importing, archive>>
        /\ collections' = [collections EXCEPT ![n] = NoCollection]
        /\ tables' = IF IsOwn(n) THEN [tables EXCEPT ![n] = NoTable] ELSE tables
        /\ overtaken' = overtaken \ {n}
    BY <1>4 DEF DeleteCollection
  <2>2. SchemaTyped(collections, tables)'
    BY <1>1, <2>1 DEF CollectionsInv, Shaped, SchemaTyped, RowTyped, TableTyped
  <2> QED BY <1>1, <2>1, <2>2, RequestSizes
<1>5. ASSUME NEW n \in CollectionNames, DropByHand(n)
      PROVE  SchemaSizes'
  <2>1. /\ UNCHANGED <<collections, rolesExist, servers, archive, schemaChanges, overtaken>>
        /\ tables' = [tables EXCEPT ![n] = NoTable]
    BY <1>5 DEF DropByHand
  <2>2. SchemaTyped(collections, tables)'
    BY <1>1, <2>1 DEF CollectionsInv, Shaped, SchemaTyped, RowTyped, TableTyped
  <2> QED BY <2>1, <2>2 DEF SchemaSizes
<1>6. CASE ImportRead
  BY <1>6 DEF ImportRead, SchemaSizes, SchemaTyped
<1>7. ASSUME NEW rule \in Rules, ImportCommit(rule)
      PROVE  SchemaSizes'
  BY <1>7, ImportTyped
<1>8. CASE TakeBackup
  <2> DEFINE except == IF rolesExist THEN overtaken ELSE CollectionNames
  <2>1. /\ archive' = {[collections |-> collections, tables |-> tables, overtaken |-> except]}
        /\ UNCHANGED <<collections, tables, rolesExist, servers, importing, schemaChanges, overtaken>>
        /\ except \subseteq CollectionNames
    BY <1>1, <1>8 DEF TakeBackup
  <2> HIDE DEF except
  <2>2. \A a \in archive' : SchemaTyped(a.collections, a.tables) /\ a.overtaken \subseteq CollectionNames
    BY <1>1, <2>1
  <2>3. SchemaTyped(collections, tables)'
    BY <1>1, <2>1 DEF SchemaTyped
  <2> QED BY <2>1, <2>2, <2>3 DEF SchemaSizes
<1>9. CASE RunRestoreFile
  BY <1>9, RestoreTyped DEF RunRestoreFile
<1>10. CASE RestoreElsewhere
  BY <1>10, RestoreTyped DEF RestoreElsewhere
<1>11. ASSUME NEW s \in Servers,
              StartServer(s) \/ ServeUnmigrated(s) \/ ServeWithRoles(s) \/ StopServer(s)
       PROVE  SchemaSizes'
  <2>1. PICK phase \in {"starting", "serving", "down"} : Phase(s, phase)
    BY <1>11 DEF StartServer, ServeUnmigrated, ServeWithRoles, StopServer
  <2>2. UNCHANGED <<collections, tables, rolesExist, importing, archive, schemaChanges, overtaken>>
    BY <1>11 DEF StartServer, ServeUnmigrated, ServeWithRoles, StopServer
  <2>3. SchemaTyped(collections, tables)'
    BY <1>1, <2>2 DEF SchemaTyped
  <2> DEFINE x == [phase |-> phase]
  <2>4. x.phase \in {"starting", "serving", "down"}
    OBVIOUS
  <2>5. servers' = [servers EXCEPT ![s] = x]
    BY <2>1 DEF Phase
  <2> HIDE DEF x
  <2>6. overtaken' \subseteq CollectionNames /\ UNCHANGED <<archive, schemaChanges>>
    BY <1>1, <2>2
  <2>7. servers'[s] = x /\ \A r \in Servers \ {s} : servers'[r] = servers[r]
    BY <2>5 DEF CollectionsInv
  <2>8. servers'[s].phase \in {"starting", "serving", "down"}
    BY <2>4, <2>7
  <2> QED BY <2>3, <2>6, <2>7, <2>8, ServerTyped
<1>12. ASSUME NEW s \in Servers, RebuildRead(s)
       PROVE  SchemaSizes'
  <2> DEFINE x == [phase |-> "rebuilding", read |-> collections]
  <2>1. /\ servers' = [servers EXCEPT ![s] = x]
        /\ UNCHANGED <<collections, tables, rolesExist, importing, archive, schemaChanges, overtaken>>
    BY <1>12 DEF RebuildRead
  <2>2. x.phase = "rebuilding" /\ x.read = collections
    OBVIOUS
  <2>3. SchemaTyped(collections, tables)'
    BY <1>1, <2>1 DEF SchemaTyped
  <2>4. \A n \in CollectionNames : RowTyped(x.read[n])
    BY <1>1, <2>2 DEF SchemaTyped
  <2> HIDE DEF x
  <2>5. overtaken' \subseteq CollectionNames /\ UNCHANGED <<archive, schemaChanges>>
    BY <1>1, <2>1
  <2>6. servers'[s] = x /\ \A r \in Servers \ {s} : servers'[r] = servers[r]
    BY <2>1 DEF CollectionsInv
  <2>7. servers'[s].phase = "rebuilding" /\ \A n \in CollectionNames : RowTyped(servers'[s].read[n])
    BY <2>2, <2>4, <2>6
  <2> QED BY <2>3, <2>5, <2>6, <2>7, ServerTyped
<1>13. ASSUME NEW s \in Servers, RebuildCommit(s)
       PROVE  SchemaSizes'
  BY <1>13, RebuildTyped
<1>14. CASE UNCHANGED collectionVars
  BY <1>1, <1>14 DEF collectionVars, SchemaSizes, SchemaTyped
<1> QED BY <1>2, <1>3, <1>4, <1>5, <1>6, <1>7, <1>8, <1>9, <1>10, <1>11, <1>12, <1>13, <1>14
           DEF CollectionsNext

RolesKnown == rolesExist \in BOOLEAN

LEMMA RolesStayKnown == RolesKnown /\ [CollectionsNext]_collectionVars => RolesKnown'
<1> SUFFICES ASSUME RolesKnown, [CollectionsNext]_collectionVars PROVE RolesKnown'
  OBVIOUS
<1>1. ASSUME rolesExist' = rolesExist PROVE RolesKnown'
  BY <1>1 DEF RolesKnown
<1>2. ASSUME NEW n \in CollectionNames, NEW input \in CollectionInputs, CreateCollection(n, input)
      PROVE  rolesExist' = rolesExist
  BY <1>2 DEF CreateCollection
<1>3. ASSUME NEW n \in CollectionNames, NEW edit \in CollectionEdits, UpdateCollection(n, edit)
      PROVE  rolesExist' = rolesExist
  BY <1>3 DEF UpdateCollection
<1>4. ASSUME NEW n \in CollectionNames, DeleteCollection(n) \/ DropByHand(n)
      PROVE  rolesExist' = rolesExist
  BY <1>4 DEF DeleteCollection, DropByHand
<1>5. ASSUME ImportRead \/ TakeBackup \/ \E rule \in Rules : ImportCommit(rule)
      PROVE  rolesExist' = rolesExist
  BY <1>5 DEF ImportRead, TakeBackup, ImportCommit
<1>6. CASE RunRestoreFile \/ RestoreElsewhere
  BY <1>6, Zenon DEF RunRestoreFile, RestoreElsewhere, Restored, RolesKnown
<1>7. ASSUME NEW s \in Servers,
             \/ StartServer(s) \/ ServeUnmigrated(s) \/ ServeWithRoles(s)
             \/ RebuildRead(s) \/ StopServer(s)
      PROVE  rolesExist' = rolesExist
  BY <1>7 DEF StartServer, ServeUnmigrated, ServeWithRoles, RebuildRead, StopServer
<1>8. ASSUME NEW s \in Servers, RebuildCommit(s) PROVE RolesKnown'
  BY <1>8, Zenon DEF RebuildCommit, RolesKnown
<1>9. CASE UNCHANGED collectionVars
  BY <1>1, <1>9 DEF collectionVars
<1> QED BY <1>1, <1>2, <1>3, <1>4, <1>5, <1>6, <1>7, <1>8, <1>9, Zenon DEF CollectionsNext

\* The types of Collections, through creations, updates, renames, imports, backups, restores and
\* rebuilds: a collection has the fields, rule and constraints of a definition, a table the
\* policies of a rule or none, and every foreign key leads from a field to a collection; a
\* restore brings back nothing that is not so.
THEOREM CollectionsTyped == CollectionsSpec => []CollectionsTypeOK
<1>1. SchemaSizes /\ RolesKnown => CollectionsTypeOK
  <2> SUFFICES ASSUME SchemaSizes, RolesKnown PROVE CollectionsTypeOK
    OBVIOUS
  <2>1. \A n \in CollectionNames : collections[n] = NoCollection \/ collections[n] \in CollectionRows
    BY DEF SchemaSizes, SchemaTyped, RowTyped
  <2>2. \A t \in TableNames : tables[t] = NoTable \/
          /\ DOMAIN tables[t] = {"columns", "policies", "granted", "constraints", "keys"}
          /\ tables[t].policies \in Rules \cup {DefaultDeny}
          /\ tables[t].constraints \subseteq CollectionNames \X Constraints
          /\ tables[t].keys \subseteq ForeignKeys
    <3> HIDE DEF ForeignKeys
    <3>1. TableFields = {"columns", "policies", "granted", "constraints", "keys"}
      BY DEF TableFields
    <3> QED BY <3>1 DEF SchemaSizes, SchemaTyped, TableTyped
  <2>3. /\ \A s \in Servers : servers[s].phase \in {"down", "starting", "rebuilding", "serving"}
        /\ schemaChanges \in 0 .. MaxSchemaChanges /\ overtaken \subseteq CollectionNames
    BY DEF SchemaSizes
  <2> QED BY <2>1, <2>2, <2>3, Zenon DEF CollectionsTypeOK, RolesKnown
<1>2. CollectionsInit => CollectionsInv /\ SchemaSizes /\ RolesKnown
  <2>1. CollectionsInit => RolesKnown
    BY Zenon DEF CollectionsInit, RolesKnown
  <2> QED BY <2>1, CollectionsInitially, SchemaSizesInitially
<1>3. CollectionsInv /\ SchemaSizes /\ RolesKnown /\ [CollectionsNext]_collectionVars =>
        CollectionsInv' /\ SchemaSizes' /\ RolesKnown'
  BY CollectionsPreserved, SchemaSizesPreserved, RolesStayKnown
<1> QED BY <1>1, <1>2, <1>3, PTL DEF CollectionsSpec

------------------------------------------------------------------------------
(* Files of records *)

Working == {"claimed", "stored", "updated"}

SessionOK(x) == x # NoUpload =>
  /\ DOMAIN x = {"status", "record", "mode", "declared", "expired"}
  /\ x.record \in FileRecords /\ x.status \in {"open", "completing", "completed", "canceled"}
ChunkOK(x) == x # Idle =>
  /\ DOMAIN x = {"step", "upload", "index", "content", "overlaps"}
  /\ x.step \in {"writing", "stored"} /\ x.upload \in Uploads /\ x.index \in Chunks /\ x.content \in Contents

FilesShape ==
  /\ DOMAIN uploads = Uploads /\ DOMAIN work = Files /\ DOMAIN fileField = FileRecords
  /\ DOMAIN chunkRequests = ChunkRequests /\ DOMAIN assembled = Uploads
  /\ chunkRows \in [Uploads -> [Chunks -> Contents \cup {Nothing}]]
  /\ parts \in [Uploads -> [Chunks -> Contents \cup {Mixed, Nothing}]]
  /\ \A u \in Uploads : SessionOK(uploads[u])
  /\ \A f \in Files :
       /\ "step" \in DOMAIN work[f] /\ work[f].step \in Working \cup {"idle"}
       /\ work[f].step \in Working => "record" \in DOMAIN work[f] /\ work[f].record \in FileRecords
  /\ \A r \in FileRecords : fileField[r] # Deleted => fileField[r] \in Seq(Files)
  /\ \A w \in ChunkRequests : ChunkOK(chunkRequests[w])

\* A session that a request completes is not open to others.
ClaimedOnce == \A u \in Uploads : work[u].step \in Working => uploads[u].status \notin {"none", "open"}

\* A file that no request will make again
Settled(f) ==
  /\ {"step", "record"} \subseteq DOMAIN work[f] /\ work[f].step \in {"idle", "updated"}
  /\ f \in Uploads => uploads[f].status \notin {"none", "open"}

\* What records refer to is stored; what is to be removed is referred to no more.
StoredInv ==
  /\ \A r \in FileRecords : fileField[r] # Deleted =>
       \A f \in Range(fileField[r]) : f \in objects /\ Settled(f) /\ RecordOf(f) = r
  /\ \A g \in Files : work[g].step = "updated" =>
       /\ work[g].removed \subseteq Files
       /\ \A f \in work[g].removed : Settled(f) /\ f \notin Referenced
  /\ \A f \in Files : work[f].step = "stored" /\ fileField[RecordOf(f)] # Deleted => f \in objects
  /\ \A r \in FileRecords : r \in deleting => fileField[r] = Deleted

InFlightAt(w, u, i) == chunkRequests[w] # Idle /\ chunkRequests[w].upload = u /\ chunkRequests[w].index = i

\* The parts and the table of a session agree, but for a chunk that is stored and not yet recorded.
Agree(u) ==
  /\ \A w, v \in ChunkRequests, i \in Chunks : InFlightAt(w, u, i) /\ InFlightAt(v, u, i) => w = v
  /\ \A w \in ChunkRequests, i \in Chunks : InFlightAt(w, u, i) =>
       /\ chunkRequests[w].step = "writing" => ~chunkRequests[w].overlaps
       /\ chunkRequests[w].step = "stored" => parts[u][i] \in {Nothing, chunkRequests[w].content}
  /\ \A i \in Chunks : parts[u][i] \in {Nothing, chunkRows[u][i]}
                       \/ \E w \in ChunkRequests : InFlightAt(w, u, i) /\ chunkRequests[w].step = "stored"
  /\ work[u].step \in {"claimed", "stored"} => \A w \in ChunkRequests, i \in Chunks : ~InFlightAt(w, u, i)
  /\ work[u].step = "stored" => assembled[u] = chunkRows[u]

PartsInv == \A u \in Uploads \ disturbed : Agree(u)

FilesInv ==
  /\ FilesShape /\ ClaimedOnce /\ PartsInv
  /\ objectStore = "s3" /\ unsure = {} => StoredInv

LEMMA FilesInitially == ASSUME NEW store, FilesInit(store) PROVE FilesInv
<1>1. FilesShape
  <2>1. /\ uploads = [u \in Uploads |-> NoUpload] /\ work = [f \in Files |-> Idle]
        /\ fileField = [r \in FileRecords |-> <<>>] /\ chunkRequests = [w \in ChunkRequests |-> Idle]
        /\ chunkRows = [u \in Uploads |-> NoParts] /\ parts = [u \in Uploads |-> NoParts]
        /\ assembled = [u \in Uploads |-> NoParts]
    BY DEF FilesInit
  <2>2. \A f \in Files : "step" \in DOMAIN work[f] /\ work[f].step = "idle"
    BY <2>1 DEF Idle
  <2>3. chunkRows \in [Uploads -> [Chunks -> Contents \cup {Nothing}]]
        /\ parts \in [Uploads -> [Chunks -> Contents \cup {Mixed, Nothing}]]
    BY <2>1 DEF NoParts
  <2>4. \A r \in FileRecords : fileField[r] \in Seq(Files)
    BY <2>1
  <2> QED BY <2>1, <2>2, <2>3, <2>4 DEF FilesShape, Working, SessionOK, ChunkOK
<1>2. \A f \in Files : work[f].step = "idle"
  BY DEF FilesInit, Idle
<1>3. ClaimedOnce
  BY <1>2 DEF ClaimedOnce, Files, Working
<1>4. PartsInv
  <2>1. \A w \in ChunkRequests : chunkRequests[w] = Idle
    BY DEF FilesInit
  <2>2. \A u \in Uploads, i \in Chunks : parts[u][i] = Nothing
    BY DEF FilesInit, NoParts
  <2> QED BY <1>2, <2>1, <2>2 DEF PartsInv, Agree, InFlightAt, Files
<1>5. StoredInv
  <2>1. /\ \A r \in FileRecords : Range(fileField[r]) = {}
        /\ deleting = {}
    BY DEF FilesInit, Range
  <2> QED BY <1>2, <2>1 DEF StoredInv
<1> QED BY <1>1, <1>3, <1>4, <1>5 DEF FilesInv

\* Steps that only change what requests of chunks do
LEMMA RequestsShape ==
  ASSUME FilesShape, UNCHANGED <<uploads, work, fileField, assembled>>,
         chunkRows' \in [Uploads -> [Chunks -> Contents \cup {Nothing}]],
         parts' \in [Uploads -> [Chunks -> Contents \cup {Mixed, Nothing}]],
         DOMAIN chunkRequests' = ChunkRequests,
         \A w \in ChunkRequests : ChunkOK(chunkRequests'[w])
  PROVE  FilesShape'
BY DEF FilesShape

LEMMA SessionsShape ==
  ASSUME FilesShape, NEW u \in Uploads, NEW x, uploads' = [uploads EXCEPT ![u] = x], SessionOK(x),
         parts' = [parts EXCEPT ![u] = NoParts] \/ UNCHANGED parts,
         UNCHANGED <<work, fileField, chunkRequests, assembled, chunkRows>>
  PROVE  FilesShape'
<1>1. /\ DOMAIN uploads' = Uploads
      /\ \A v \in Uploads : uploads'[v] = IF v = u THEN x ELSE uploads[v]
  BY DEF FilesShape
<1>2. parts' \in [Uploads -> [Chunks -> Contents \cup {Mixed, Nothing}]]
  BY DEF FilesShape, NoParts
<1> QED BY <1>1, <1>2 DEF FilesShape

\* What becomes of a session whose status is set
LEMMA StatusSet ==
  ASSUME FilesShape, NEW u \in Uploads, NEW status \in {"open", "completing", "completed", "canceled"},
         uploads[u] # NoUpload
  PROVE  LET x == [uploads[u] EXCEPT !.status = status]
         IN SessionOK(x) /\ x.status = status /\ x.record = uploads[u].record
<1>1. DOMAIN uploads[u] = {"status", "record", "mode", "declared", "expired"}
      /\ uploads[u].record \in FileRecords
  BY DEF FilesShape, SessionOK
<1> QED BY <1>1 DEF SessionOK

\* Steps that leave the fields of records alone, and the objects in use
LEMMA StoredFrame ==
  ASSUME FilesShape, StoredInv, UNCHANGED fileField,
         \A r \in FileRecords : r \in deleting' => fileField[r] = Deleted,
         \A f \in Referenced \cap objects : f \in objects',
         \A f \in Files : Settled(f) => Settled(f)' /\ work'[f].record = work[f].record,
         \A f \in Files : work'[f].step = "updated" => work'[f] = work[f],
         \A f \in Files : work'[f].step = "stored" /\ fileField[work'[f].record] # Deleted => f \in objects'
  PROVE  StoredInv'
<1>1. ASSUME NEW r \in FileRecords, fileField[r] # Deleted, NEW f \in Range(fileField[r])
      PROVE  f \in objects' /\ Settled(f)' /\ work'[f].record = r
  <2>1. f \in Files /\ f \in objects /\ Settled(f) /\ work[f].record = r
    BY <1>1 DEF StoredInv, FilesShape, Range, RecordOf
  <2>2. f \in Referenced
    BY <1>1, <2>1 DEF Referenced
  <2> QED BY <2>1, <2>2
<1>2. ASSUME NEW g \in Files, work'[g].step = "updated"
      PROVE  work'[g].removed \subseteq Files
             /\ \A f \in work'[g].removed : Settled(f)' /\ f \notin Referenced
  <2>1. work'[g] = work[g] /\ work[g].step = "updated"
    BY <1>2
  <2>2. work[g].removed \subseteq Files /\ \A f \in work[g].removed : Settled(f) /\ f \notin Referenced
    BY <2>1 DEF StoredInv
  <2> QED BY <2>1, <2>2
<1>3. Referenced' = Referenced
  BY DEF Referenced
<1> QED BY <1>1, <1>2, <1>3 DEF StoredInv, RecordOf

\* Steps that leave the requests of chunks alone
LEMMA PartsFrame ==
  ASSUME PartsInv, UNCHANGED <<chunkRows, chunkRequests, disturbed, assembled>>,
         \A u \in Uploads, i \in Chunks : parts'[u][i] \in {Nothing, parts[u][i]},
         \A u \in Uploads : work'[u].step \in {"claimed", "stored"} => work'[u].step = work[u].step
  PROVE  PartsInv'
<1> SUFFICES ASSUME NEW u \in Uploads \ disturbed PROVE Agree(u)'
  BY DEF PartsInv
<1>1. Agree(u)
  BY DEF PartsInv
<1> QED BY <1>1 DEF Agree, InFlightAt

\* Steps of a session before it is claimed, or that cancel it
LEMMA SessionsKeep ==
  ASSUME FilesInv, NEW u \in Uploads, NEW x, uploads' = [uploads EXCEPT ![u] = x], SessionOK(x),
         x.status \in {"none", "open"} => uploads[u].status \in {"none", "open"},
         parts' = [parts EXCEPT ![u] = NoParts] \/ UNCHANGED parts,
         UNCHANGED <<objectStore, chunkRows, chunkRequests, work, fileField, objects, deleting,
                     disturbed, assembled, unsure>>
  PROVE  FilesInv'
<1>1. FilesShape' /\ FilesShape
  BY SessionsShape DEF FilesInv
<1>2. \A v \in Uploads : uploads'[v] = IF v = u THEN x ELSE uploads[v]
  BY <1>1 DEF FilesShape
<1>3. ClaimedOnce'
  BY <1>2 DEF FilesInv, ClaimedOnce
<1>4. PartsInv'
  <2>1. \A v \in Uploads, i \in Chunks : parts'[v][i] \in {Nothing, parts[v][i]}
    BY <1>1 DEF FilesShape, NoParts
  <2> QED BY <2>1, PartsFrame DEF FilesInv
<1>5. ASSUME objectStore = "s3", unsure = {} PROVE StoredInv'
  <2>1. StoredInv
    BY <1>5 DEF FilesInv
  <2>2. \A f \in Files : Settled(f) => Settled(f)' /\ work'[f].record = work[f].record
    BY <1>2 DEF Settled
  <2>3. \A f \in Files : work[f].step = "stored" /\ fileField[work[f].record] # Deleted => f \in objects
    BY <2>1 DEF StoredInv, RecordOf
  <2>4. \A r \in FileRecords : r \in deleting => fileField[r] = Deleted
    BY <2>1 DEF StoredInv
  <2> QED BY <1>1, <2>1, <2>2, <2>3, <2>4, StoredFrame
<1> QED BY <1>1, <1>3, <1>4, <1>5 DEF FilesInv

\* Requests of chunks, and the clean-up's reading
LEMMA RequestsKeep ==
  ASSUME FilesInv, UNCHANGED <<objectStore, uploads, work, fileField, objects, deleting, assembled, unsure>>,
         FilesShape', PartsInv'
  PROVE  FilesInv'
<1>1. ClaimedOnce'
  BY DEF FilesInv, ClaimedOnce
<1>2. ASSUME objectStore = "s3", unsure = {} PROVE StoredInv'
  <2>1. StoredInv /\ FilesShape
    BY <1>2 DEF FilesInv
  <2>2. \A f \in Files : Settled(f) => Settled(f)' /\ work'[f].record = work[f].record
    BY DEF Settled
  <2>3. \A f \in Files : work[f].step = "stored" /\ fileField[work[f].record] # Deleted => f \in objects
    BY <2>1 DEF StoredInv, RecordOf
  <2>4. \A r \in FileRecords : r \in deleting => fileField[r] = Deleted
    BY <2>1 DEF StoredInv
  <2> QED BY <2>1, <2>2, <2>3, <2>4, StoredFrame
<1> QED BY <1>1, <1>2 DEF FilesInv

LEMMA FileCreateKeeps ==
  ASSUME FilesInv, NEW u \in Uploads, NEW r \in FileRecords, NEW mode \in Modes, NEW declared \in BOOLEAN,
         CreateFileUploadSession(u, r, mode, declared)
  PROVE  FilesInv'
<1> DEFINE x == [status |-> "open", record |-> r, mode |-> mode, declared |-> declared, expired |-> FALSE]
<1>1. /\ uploads[u].status = "none" /\ uploads' = [uploads EXCEPT ![u] = x]
      /\ UNCHANGED <<objectStore, chunkRows, parts, chunkRequests, work, fileField, objects, deleting,
                     disturbed, assembled, unsure>>
  BY DEF CreateFileUploadSession, NoUpload
<1>2. SessionOK(x) /\ x.status = "open"
  BY DEF SessionOK
<1> HIDE DEF x
<1> QED BY <1>1, <1>2, SessionsKeep

LEMMA ExpireKeeps ==
  ASSUME FilesInv, NEW u \in Uploads, Expire(u)
  PROVE  FilesInv'
<1> DEFINE x == [uploads[u] EXCEPT !.expired = TRUE]
<1>1. /\ uploads[u] # NoUpload /\ uploads' = [uploads EXCEPT ![u] = x]
      /\ UNCHANGED <<objectStore, chunkRows, parts, chunkRequests, work, fileField, objects, deleting,
                     disturbed, assembled, unsure>>
  BY DEF Expire
<1>2. /\ DOMAIN uploads[u] = {"status", "record", "mode", "declared", "expired"}
      /\ uploads[u].record \in FileRecords
      /\ uploads[u].status \in {"open", "completing", "completed", "canceled"}
  BY <1>1 DEF FilesInv, FilesShape, SessionOK
<1>3. SessionOK(x) /\ x.status = uploads[u].status
  BY <1>2 DEF SessionOK
<1> HIDE DEF x
<1> QED BY <1>1, <1>2, <1>3, SessionsKeep

LEMMA CancelKeeps ==
  ASSUME FilesInv, NEW u \in Uploads, CancelFileUploadSession(u)
  PROVE  FilesInv'
<1> DEFINE x == [uploads[u] EXCEPT !.status = "canceled"]
<1>1. /\ uploads[u] # NoUpload /\ uploads' = [uploads EXCEPT ![u] = x]
      /\ parts' = [parts EXCEPT ![u] = NoParts] /\ FilesShape
      /\ UNCHANGED <<objectStore, chunkRows, chunkRequests, work, fileField, objects, deleting,
                     disturbed, assembled, unsure>>
  BY DEF CancelFileUploadSession, Open, NoUpload, FilesInv
<1>2. SessionOK(x) /\ x.status = "canceled"
  BY <1>1, StatusSet
<1> HIDE DEF x
<1> QED BY <1>1, <1>2, SessionsKeep

LEMMA CleanupKeeps ==
  ASSUME FilesInv, NEW u \in Uploads, CleanupCancel(u)
  PROVE  FilesInv'
<1> DEFINE status == IF uploads[u].status \in {"open", "completing"} THEN "canceled" ELSE uploads[u].status
<1> DEFINE x == [uploads[u] EXCEPT !.status = status]
<1>1. /\ uploads' = [uploads EXCEPT ![u] = x]
      /\ parts' = [parts EXCEPT ![u] = NoParts] /\ FilesShape
      /\ UNCHANGED <<objectStore, chunkRows, chunkRequests, work, fileField, objects, deleting,
                     disturbed, assembled, unsure>>
  BY DEF CleanupCancel, FilesInv
<1>2. SessionOK(x) /\ (x.status \in {"none", "open"} => uploads[u].status \in {"none", "open"})
  <2>1. CASE uploads[u] # NoUpload
    <3>1. status \in {"completing", "completed", "canceled"}
      BY <1>1, <2>1 DEF FilesShape, SessionOK
    <3> HIDE DEF status
    <3> QED BY <1>1, <2>1, <3>1, StatusSet
  <2>2. CASE uploads[u] = NoUpload
    <3>1. x = NoUpload
      BY <2>2 DEF NoUpload
    <3> QED BY <2>2, <3>1 DEF SessionOK, NoUpload
  <2> QED BY <2>1, <2>2
<1> HIDE DEF x
<1> QED BY <1>1, <1>2, SessionsKeep

LEMMA CleanupReadKeeps ==
  ASSUME FilesInv, CleanupRead
  PROVE  FilesInv'
<1>1. UNCHANGED <<objectStore, uploads, chunkRows, parts, chunkRequests, work, fileField, objects,
                  deleting, disturbed, assembled, unsure>>
  BY DEF CleanupRead, uploadRows
<1>2. FilesShape'
  BY <1>1 DEF FilesInv, FilesShape
<1>3. PartsInv'
  BY <1>1, PartsFrame DEF FilesInv
<1> QED BY <1>1, <1>2, <1>3, RequestsKeep

\* A request of a chunk that is let in alone has its session's index to itself.
LEMMA OpenKeeps ==
  ASSUME FilesInv, NEW w \in ChunkRequests, NEW u \in Uploads, NEW i \in Chunks, NEW c \in Contents,
         GetOpenFileUploadSession(w, u, i, c)
  PROVE  FilesInv'
<1> DEFINE x == [step |-> "writing", upload |-> u, index |-> i, content |-> c, overlaps |-> Writing(u, i) # {}]
<1>1. /\ chunkRequests[w] = Idle /\ Open(u) /\ FilesShape
      /\ UNCHANGED <<objectStore, uploads, chunkRows, parts, work, fileField, objects, deleting,
                     assembled, unsure>>
      /\ disturbed' = IF InFlight(u, {i}) # {} THEN disturbed \cup {u} ELSE disturbed
      /\ chunkRequests' = [v \in ChunkRequests |->
           IF v = w THEN x ELSE IF v \in Writing(u, i) THEN [chunkRequests[v] EXCEPT !.overlaps = TRUE]
           ELSE chunkRequests[v]]
  BY DEF GetOpenFileUploadSession, uploadRows, FilesInv
<1>2. /\ DOMAIN x = {"step", "upload", "index", "content", "overlaps"} /\ x.step = "writing"
      /\ x.upload = u /\ x.index = i /\ x.content = c /\ x.overlaps = (Writing(u, i) # {})
  OBVIOUS
<1>3. \A v \in Writing(u, i) : v \in InFlight(u, {i}) /\ chunkRequests[v] # Idle
  BY DEF Writing, InFlight
<1> HIDE DEF x
<1>4. FilesShape'
  <2>1. ASSUME NEW v \in ChunkRequests PROVE ChunkOK(chunkRequests'[v])
    <3>1. CASE v = w
      BY <1>1, <1>2, <3>1 DEF ChunkOK
    <3>2. CASE v # w /\ v \in Writing(u, i)
      <4>1. chunkRequests'[v] = [chunkRequests[v] EXCEPT !.overlaps = TRUE]
        BY <1>1, <3>2
      <4> QED BY <1>1, <1>3, <3>2, <4>1 DEF FilesShape, ChunkOK
    <3>3. CASE v # w /\ v \notin Writing(u, i)
      BY <1>1, <2>1, <3>3 DEF FilesShape
    <3> QED BY <3>1, <3>2, <3>3
  <2>2. DOMAIN chunkRequests' = ChunkRequests
    BY <1>1
  <2> QED BY <1>1, <2>1, <2>2, RequestsShape DEF FilesShape
<1>5. PartsInv'
  <2> SUFFICES ASSUME NEW t \in Uploads \ disturbed' PROVE Agree(t)'
    BY DEF PartsInv
  <2>1. t \notin disturbed /\ (t = u => InFlight(u, {i}) = {})
    BY <1>1
  <2>2. Agree(t)
    BY <2>1 DEF FilesInv, PartsInv
  <2>3. \A v \in ChunkRequests, j \in Chunks : t = u /\ j = i => ~InFlightAt(v, t, j)
    BY <2>1 DEF InFlight, InFlightAt
  <2>4. ASSUME NEW v \in ChunkRequests, NEW j \in Chunks, v # w
        PROVE  /\ InFlightAt(v, t, j)' <=> InFlightAt(v, t, j)
               /\ InFlightAt(v, t, j) => chunkRequests'[v] = chunkRequests[v]
    <3>1. CASE v \in Writing(u, i)
      <4>1. chunkRequests'[v] = [chunkRequests[v] EXCEPT !.overlaps = TRUE]
        BY <1>1, <2>4, <3>1
      <4>2. DOMAIN chunkRequests[v] = {"step", "upload", "index", "content", "overlaps"}
        BY <1>1, <1>3, <3>1 DEF FilesShape, ChunkOK
      <4>3. /\ DOMAIN chunkRequests'[v] = DOMAIN chunkRequests[v]
            /\ chunkRequests'[v].upload = chunkRequests[v].upload
            /\ chunkRequests'[v].index = chunkRequests[v].index
        BY <4>1, <4>2
      <4>4. "upload" \notin DOMAIN Idle
        BY DEF Idle
      <4>5. chunkRequests'[v] # Idle /\ chunkRequests[v] # Idle
        BY <4>2, <4>3, <4>4
      <4>6. chunkRequests[v].upload = u /\ chunkRequests[v].index = i
        BY <3>1 DEF Writing, InFlight
      <4>7. t # u \/ j # i
        BY <2>3, <4>5, <4>6 DEF InFlightAt
      <4> QED BY <4>3, <4>5, <4>6, <4>7 DEF InFlightAt
    <3>2. CASE v \notin Writing(u, i)
      BY <1>1, <2>4, <3>2 DEF InFlightAt
    <3> QED BY <3>1, <3>2
  <2>5. \A j \in Chunks : /\ ~InFlightAt(w, t, j)
                          /\ InFlightAt(w, t, j)' => t = u /\ j = i
    BY <1>1, <1>2 DEF InFlightAt
  <2>6. InFlight(u, {i}) = {} => chunkRequests'[w].step = "writing" /\ ~chunkRequests'[w].overlaps
    BY <1>1, <1>2, <1>3
  <2>7. \A v, z \in ChunkRequests, j \in Chunks : InFlightAt(v, t, j)' /\ InFlightAt(z, t, j)' => v = z
    BY <2>2, <2>3, <2>4, <2>5 DEF Agree
  <2>8. \A v \in ChunkRequests, j \in Chunks : InFlightAt(v, t, j)' =>
          /\ chunkRequests'[v].step = "writing" => ~chunkRequests'[v].overlaps
          /\ chunkRequests'[v].step = "stored" => parts[t][j] \in {Nothing, chunkRequests'[v].content}
    <3> SUFFICES ASSUME NEW v \in ChunkRequests, NEW j \in Chunks, InFlightAt(v, t, j)'
                 PROVE  /\ chunkRequests'[v].step = "writing" => ~chunkRequests'[v].overlaps
                        /\ chunkRequests'[v].step = "stored" =>
                             parts[t][j] \in {Nothing, chunkRequests'[v].content}
      OBVIOUS
    <3>1. CASE v = w
      BY <2>1, <2>5, <2>6, <3>1
    <3>2. CASE v # w
      <4>1. InFlightAt(v, t, j) /\ chunkRequests'[v] = chunkRequests[v]
        BY <2>4, <3>2
      <4> QED BY <2>2, <4>1 DEF Agree
    <3> QED BY <3>1, <3>2
  <2>9. \A j \in Chunks : parts[t][j] \in {Nothing, chunkRows[t][j]}
          \/ \E v \in ChunkRequests : InFlightAt(v, t, j)' /\ chunkRequests'[v].step = "stored"
    BY <2>2, <2>4, <2>5 DEF Agree
  <2>10. work[t].step \in {"claimed", "stored"} => \A v \in ChunkRequests, j \in Chunks : ~InFlightAt(v, t, j)'
    <3>1. work[u].step \notin {"claimed", "stored"}
      BY <1>1 DEF FilesInv, ClaimedOnce, Open, Working
    <3> QED BY <2>2, <2>4, <2>5, <3>1 DEF Agree
  <2> QED BY <1>1, <2>2, <2>7, <2>8, <2>9, <2>10 DEF Agree
<1> QED BY <1>1, <1>4, <1>5, RequestsKeep

LEMMA ChunkFailsKeeps ==
  ASSUME FilesInv, NEW w \in ChunkRequests, ChunkFails(w)
  PROVE  FilesInv'
<1>1. /\ FilesShape /\ PartsInv
      /\ chunkRequests[w] # Idle /\ disturbed' = disturbed \cup {chunkRequests[w].upload}
      /\ chunkRequests' = [chunkRequests EXCEPT ![w] = Idle]
      /\ UNCHANGED <<objectStore, uploads, chunkRows, parts, work, fileField, objects, deleting,
                     assembled, unsure>>
  BY DEF ChunkFails, uploadRows, FilesInv
<1>2. /\ DOMAIN chunkRequests' = ChunkRequests
      /\ \A v \in ChunkRequests : chunkRequests'[v] = IF v = w THEN Idle ELSE chunkRequests[v]
  BY <1>1 DEF FilesShape
<1>3. FilesShape'
  <2>1. \A v \in ChunkRequests : ChunkOK(chunkRequests'[v])
    BY <1>1, <1>2 DEF FilesShape, ChunkOK
  <2> QED BY <1>1, <1>2, <2>1, RequestsShape DEF FilesShape
<1>4. PartsInv'
  <2> SUFFICES ASSUME NEW u \in Uploads \ disturbed' PROVE Agree(u)'
    BY DEF PartsInv
  <2>1. Agree(u) /\ u # chunkRequests[w].upload
    BY <1>1 DEF PartsInv
  <2>2. \A v \in ChunkRequests, i \in Chunks : /\ InFlightAt(v, u, i)' <=> InFlightAt(v, u, i)
                                               /\ InFlightAt(v, u, i) => chunkRequests'[v] = chunkRequests[v]
    BY <1>2, <2>1 DEF InFlightAt
  <2> QED BY <1>1, <2>1, <2>2 DEF Agree
<1> QED BY <1>1, <1>3, <1>4, RequestsKeep

LEMMA StoreChunkKeeps ==
  ASSUME FilesInv, NEW w \in ChunkRequests, StoreFileUploadChunk(w)
  PROVE  FilesInv'
<1> DEFINE r == chunkRequests[w]
<1> DEFINE x == [r EXCEPT !.step = "stored"]
<1>1. /\ FilesShape /\ PartsInv /\ r.step = "writing" /\ r # Idle /\ ChunkOK(r)
      /\ chunkRequests' = [chunkRequests EXCEPT ![w] = x]
      /\ UNCHANGED <<objectStore, uploads, chunkRows, work, fileField, objects, deleting,
                     disturbed, assembled, unsure>>
  BY DEF StoreFileUploadChunk, uploadRows, FilesInv, FilesShape, Idle
<1>2. PICK c \in IF r.overlaps THEN Contents \cup {Mixed} ELSE {r.content} :
        parts' = [parts EXCEPT ![r.upload][r.index] = c]
  BY DEF StoreFileUploadChunk
<1>3. /\ ChunkOK(x) /\ x # Idle /\ x.step = "stored" /\ x.upload = r.upload /\ x.index = r.index
      /\ x.content = r.content
  <2>1. DOMAIN r = {"step", "upload", "index", "content", "overlaps"}
    BY <1>1 DEF ChunkOK
  <2> QED BY <1>1, <2>1 DEF ChunkOK, Idle
<1>4. r.upload \in Uploads /\ r.index \in Chunks /\ r.content \in Contents
  BY <1>1 DEF ChunkOK
<1> HIDE DEF x
<1>5. /\ DOMAIN chunkRequests' = ChunkRequests
      /\ \A v \in ChunkRequests : chunkRequests'[v] = IF v = w THEN x ELSE chunkRequests[v]
  BY <1>1 DEF FilesShape
<1>6. /\ parts' \in [Uploads -> [Chunks -> Contents \cup {Mixed, Nothing}]]
      /\ \A u \in Uploads, i \in Chunks :
           parts'[u][i] = IF u = r.upload /\ i = r.index THEN c ELSE parts[u][i]
  <2>1. c \in Contents \cup {Mixed, Nothing}
    BY <1>2, <1>4
  <2> QED BY <1>1, <1>2, <1>4, <2>1 DEF FilesShape
<1>7. FilesShape'
  <2>1. \A v \in ChunkRequests : ChunkOK(chunkRequests'[v])
    BY <1>1, <1>3, <1>5 DEF FilesShape
  <2> QED BY <1>1, <1>5, <1>6, <2>1, RequestsShape DEF FilesShape
<1>8. PartsInv'
  <2> SUFFICES ASSUME NEW u \in Uploads \ disturbed PROVE Agree(u)'
    BY <1>1 DEF PartsInv
  <2>1. Agree(u)
    BY <1>1 DEF PartsInv
  <2>2. \A v \in ChunkRequests, i \in Chunks : /\ InFlightAt(v, u, i)' <=> InFlightAt(v, u, i)
                                               /\ v # w => chunkRequests'[v] = chunkRequests[v]
    BY <1>1, <1>3, <1>5 DEF InFlightAt
  <2>3. \A i \in Chunks : InFlightAt(w, u, i) <=> u = r.upload /\ i = r.index
    BY <1>1, <1>4 DEF InFlightAt
  <2>4. u = r.upload => c = r.content
    BY <1>1, <1>2, <1>4, <2>1, <2>3 DEF Agree
  <2>5. chunkRequests'[w].step = "stored" /\ chunkRequests'[w].content = r.content
    BY <1>3, <1>5
  <2>6. ASSUME NEW v \in ChunkRequests, NEW i \in Chunks, InFlightAt(v, u, i)
        PROVE  /\ chunkRequests'[v].step = "writing" => ~chunkRequests'[v].overlaps
               /\ chunkRequests'[v].step = "stored" => parts'[u][i] \in {Nothing, chunkRequests'[v].content}
    <3>1. CASE v = w
      BY <1>6, <2>3, <2>4, <2>5, <2>6, <3>1
    <3>2. CASE v # w
      <4>1. ~(u = r.upload /\ i = r.index)
        BY <2>1, <2>3, <2>6, <3>2 DEF Agree
      <4> QED BY <1>6, <2>1, <2>2, <2>6, <3>2, <4>1 DEF Agree
    <3> QED BY <3>1, <3>2
  <2>7. ASSUME NEW i \in Chunks
        PROVE  parts'[u][i] \in {Nothing, chunkRows[u][i]}
               \/ \E v \in ChunkRequests : InFlightAt(v, u, i) /\ chunkRequests'[v].step = "stored"
    <3>1. CASE u = r.upload /\ i = r.index
      BY <2>3, <2>5, <3>1
    <3>2. CASE ~(u = r.upload /\ i = r.index)
      BY <1>6, <2>1, <2>2, <2>3, <3>2 DEF Agree
    <3> QED BY <3>1, <3>2
  <2> QED BY <1>1, <2>1, <2>2, <2>6, <2>7 DEF Agree
<1> QED BY <1>1, <1>7, <1>8, RequestsKeep

LEMMA RecordChunkKeeps ==
  ASSUME FilesInv, NEW w \in ChunkRequests, RecordFileUploadChunk(w)
  PROVE  FilesInv'
<1> DEFINE r == chunkRequests[w]
<1>1. /\ FilesShape /\ PartsInv /\ r.step = "stored" /\ r # Idle /\ ChunkOK(r)
      /\ chunkRequests' = [chunkRequests EXCEPT ![w] = Idle]
      /\ \/ chunkRows' = [chunkRows EXCEPT ![r.upload][r.index] = r.content] /\ UNCHANGED parts
         \/ parts' = [parts EXCEPT ![r.upload][r.index] = Nothing] /\ UNCHANGED chunkRows
      /\ UNCHANGED <<objectStore, uploads, work, fileField, objects, deleting, disturbed, assembled, unsure>>
  BY DEF RecordFileUploadChunk, FilesInv, FilesShape, Idle
<1>2. r.upload \in Uploads /\ r.index \in Chunks /\ r.content \in Contents
  BY <1>1 DEF ChunkOK
<1>3. /\ DOMAIN chunkRequests' = ChunkRequests
      /\ \A v \in ChunkRequests : chunkRequests'[v] = IF v = w THEN Idle ELSE chunkRequests[v]
  BY <1>1 DEF FilesShape
<1>4. /\ chunkRows' \in [Uploads -> [Chunks -> Contents \cup {Nothing}]]
      /\ parts' \in [Uploads -> [Chunks -> Contents \cup {Mixed, Nothing}]]
      /\ \A u \in Uploads, i \in Chunks : ~(u = r.upload /\ i = r.index) =>
           chunkRows'[u][i] = chunkRows[u][i] /\ parts'[u][i] = parts[u][i]
      /\ \A u \in Uploads : u # r.upload => chunkRows'[u] = chunkRows[u]
      /\ \/ chunkRows'[r.upload][r.index] = r.content /\ parts'[r.upload][r.index] = parts[r.upload][r.index]
         \/ parts'[r.upload][r.index] = Nothing
  <2>1. CASE chunkRows' = [chunkRows EXCEPT ![r.upload][r.index] = r.content] /\ UNCHANGED parts
    BY <1>1, <1>2, <2>1 DEF FilesShape
  <2>2. CASE parts' = [parts EXCEPT ![r.upload][r.index] = Nothing] /\ UNCHANGED chunkRows
    BY <1>1, <1>2, <2>2 DEF FilesShape
  <2> QED BY <1>1, <2>1, <2>2
<1>5. FilesShape'
  <2>1. \A v \in ChunkRequests : ChunkOK(chunkRequests'[v])
    BY <1>1, <1>3 DEF FilesShape, ChunkOK
  <2> QED BY <1>1, <1>3, <1>4, <2>1, RequestsShape DEF FilesShape
<1>6. PartsInv'
  <2> SUFFICES ASSUME NEW u \in Uploads \ disturbed PROVE Agree(u)'
    BY <1>1 DEF PartsInv
  <2>1. Agree(u)
    BY <1>1 DEF PartsInv
  <2>2. \A v \in ChunkRequests, i \in Chunks :
          /\ InFlightAt(v, u, i)' <=> InFlightAt(v, u, i) /\ v # w
          /\ v # w => chunkRequests'[v] = chunkRequests[v]
    BY <1>3 DEF InFlightAt
  <2>3. \A i \in Chunks : InFlightAt(w, u, i) <=> u = r.upload /\ i = r.index
    BY <1>1, <1>2 DEF InFlightAt
  <2>4. ASSUME NEW v \in ChunkRequests, NEW i \in Chunks, InFlightAt(v, u, i), v # w
        PROVE  ~(u = r.upload /\ i = r.index)
    BY <2>1, <2>3, <2>4 DEF Agree
  <2>5. \A v \in ChunkRequests, i \in Chunks : InFlightAt(v, u, i)' =>
          /\ chunkRequests'[v].step = "writing" => ~chunkRequests'[v].overlaps
          /\ chunkRequests'[v].step = "stored" => parts'[u][i] \in {Nothing, chunkRequests'[v].content}
    BY <1>4, <2>1, <2>2, <2>4 DEF Agree
  <2>6. ASSUME NEW i \in Chunks
        PROVE  parts'[u][i] \in {Nothing, chunkRows'[u][i]}
               \/ \E v \in ChunkRequests : InFlightAt(v, u, i)' /\ chunkRequests'[v].step = "stored"
    <3>1. CASE u = r.upload /\ i = r.index
      <4>1. parts[u][i] \in {Nothing, r.content}
        BY <1>1, <2>1, <2>3, <3>1 DEF Agree
      <4> QED BY <1>4, <3>1, <4>1
    <3>2. CASE ~(u = r.upload /\ i = r.index)
      <4>1. parts'[u][i] = parts[u][i] /\ chunkRows'[u][i] = chunkRows[u][i] /\ ~InFlightAt(w, u, i)
        BY <1>4, <2>3, <3>2
      <4>2. CASE parts[u][i] \in {Nothing, chunkRows[u][i]}
        BY <4>1, <4>2
      <4>3. ASSUME NEW v \in ChunkRequests, InFlightAt(v, u, i), chunkRequests[v].step = "stored"
            PROVE  InFlightAt(v, u, i)' /\ chunkRequests'[v].step = "stored"
        BY <2>2, <4>1, <4>3
      <4> QED BY <2>1, <4>2, <4>3 DEF Agree
    <3> QED BY <3>1, <3>2
  <2>7. work[u].step = "stored" => assembled[u] = chunkRows'[u]
    BY <1>2, <1>4, <2>1, <2>3 DEF Agree
  <2> QED BY <1>1, <2>1, <2>2, <2>5, <2>6, <2>7 DEF Agree
<1> QED BY <1>1, <1>5, <1>6, RequestsKeep

LEMMA ClaimKeeps ==
  ASSUME FilesInv, NEW u \in Uploads, ClaimFileUploadSessionForComplete(u)
  PROVE  FilesInv'
<1> DEFINE x == [uploads[u] EXCEPT !.status = "completing"]
<1> DEFINE y == [step |-> "claimed", record |-> uploads[u].record]
<1>1. /\ FilesShape /\ PartsInv /\ uploads[u].status = "open" /\ uploads[u] # NoUpload
      /\ work[u].step = "idle" /\ uploads' = [uploads EXCEPT ![u] = x] /\ work' = [work EXCEPT ![u] = y]
      /\ disturbed' = IF InFlight(u, Chunks) # {} THEN disturbed \cup {u} ELSE disturbed
      /\ UNCHANGED <<objectStore, chunkRows, parts, chunkRequests, fileField, objects, deleting,
                     assembled, unsure>>
  BY DEF ClaimFileUploadSessionForComplete, Open, NoUpload, FilesInv
<1>2. SessionOK(x) /\ x.status = "completing" /\ uploads[u].record \in FileRecords
  BY <1>1, StatusSet DEF FilesShape, SessionOK
<1>3. "step" \in DOMAIN y /\ "record" \in DOMAIN y /\ y.step = "claimed" /\ y.record = uploads[u].record
  OBVIOUS
<1> HIDE DEF x, y
<1>4. /\ DOMAIN uploads' = Uploads /\ DOMAIN work' = Files /\ u \in Files
      /\ \A v \in Uploads : uploads'[v] = IF v = u THEN x ELSE uploads[v]
      /\ \A f \in Files : work'[f] = IF f = u THEN y ELSE work[f]
  BY <1>1 DEF FilesShape, Files
<1>5. FilesShape'
  BY <1>1, <1>2, <1>3, <1>4 DEF FilesShape, Working
<1>6. ClaimedOnce'
  BY <1>2, <1>4 DEF FilesInv, ClaimedOnce, Files
<1>7. PartsInv'
  <2> SUFFICES ASSUME NEW v \in Uploads \ disturbed' PROVE Agree(v)'
    BY DEF PartsInv
  <2>1. Agree(v) /\ (v = u => InFlight(u, Chunks) = {})
    BY <1>1 DEF PartsInv
  <2>2. v = u => \A w \in ChunkRequests, i \in Chunks : ~InFlightAt(w, v, i)
    BY <2>1 DEF InFlight, InFlightAt
  <2>3. CASE v = u
    BY <1>1, <1>3, <1>4, <2>1, <2>2, <2>3 DEF Agree, InFlightAt
  <2>4. CASE v # u
    BY <1>1, <1>4, <2>1, <2>4 DEF Agree, InFlightAt, Files
  <2> QED BY <2>3, <2>4
<1>8. ASSUME objectStore = "s3", unsure = {} PROVE StoredInv'
  <2>1. StoredInv
    BY <1>8 DEF FilesInv
  <2>2. \A f \in Files : Settled(f) => Settled(f)' /\ work'[f].record = work[f].record
    BY <1>1, <1>4 DEF Settled, Files
  <2>3. \A f \in Files : work[f].step = "stored" /\ fileField[work[f].record] # Deleted => f \in objects
    BY <2>1 DEF StoredInv, RecordOf
  <2>4. \A r \in FileRecords : r \in deleting => fileField[r] = Deleted
    BY <2>1 DEF StoredInv
  <2>5. \A f \in Files : work'[f].step \in {"updated", "stored"} => work'[f] = work[f]
    BY <1>3, <1>4
  <2> QED BY <1>1, <2>1, <2>2, <2>3, <2>4, <2>5, StoredFrame
<1> QED BY <1>1, <1>5, <1>6, <1>7, <1>8 DEF FilesInv

LEMMA AssembleKeeps ==
  ASSUME FilesInv, NEW u \in Uploads, AssembleFileUploadSession(u)
  PROVE  FilesInv'
<1> DEFINE y == [work[u] EXCEPT !.step = "stored"]
<1>1. /\ FilesShape /\ PartsInv /\ work[u].step = "claimed" /\ u \in Files
      /\ \A i \in Chunks : parts[u][i] # Nothing
      /\ objects' = objects \cup {u} /\ assembled' = [assembled EXCEPT ![u] = parts[u]]
      /\ work' = [work EXCEPT ![u] = y]
      /\ UNCHANGED <<objectStore, uploads, chunkRows, parts, chunkRequests, fileField, deleting,
                     disturbed, unsure>>
  BY DEF AssembleFileUploadSession, uploadRows, FilesInv, Files
<1>2. /\ {"step", "record"} \subseteq DOMAIN work[u] /\ work[u].record \in FileRecords
  BY <1>1 DEF FilesShape, Working
<1>3. /\ {"step", "record"} \subseteq DOMAIN y /\ y.step = "stored" /\ y.record \in FileRecords
  BY <1>2
<1> HIDE DEF y
<1>4. /\ DOMAIN work' = Files /\ DOMAIN assembled' = Uploads
      /\ \A f \in Files : work'[f] = IF f = u THEN y ELSE work[f]
      /\ \A v \in Uploads : assembled'[v] = IF v = u THEN parts[u] ELSE assembled[v]
  BY <1>1 DEF FilesShape
<1>5. FilesShape'
  BY <1>1, <1>3, <1>4 DEF FilesShape, Working
<1>6. ClaimedOnce'
  BY <1>1, <1>4 DEF FilesInv, ClaimedOnce, Files, Working
<1>7. PartsInv'
  <2> SUFFICES ASSUME NEW v \in Uploads \ disturbed PROVE Agree(v)'
    BY <1>1 DEF PartsInv
  <2>1. Agree(v) /\ v \in Files
    BY <1>1 DEF PartsInv, Files
  <2>2. CASE v = u
    <3>1. \A w \in ChunkRequests, i \in Chunks : ~InFlightAt(w, v, i)
      BY <1>1, <2>1, <2>2 DEF Agree
    <3>2. \A i \in Chunks : parts[v][i] = chunkRows[v][i]
      BY <1>1, <2>1, <2>2, <3>1 DEF Agree
    <3>3. parts[v] = chunkRows[v]
      BY <1>1, <3>2 DEF FilesShape
    <3> QED BY <1>1, <1>4, <2>1, <2>2, <3>1, <3>3 DEF Agree, InFlightAt
  <2>3. CASE v # u
    BY <1>1, <1>4, <2>1, <2>3 DEF Agree, InFlightAt
  <2> QED BY <2>2, <2>3
<1>8. ASSUME objectStore = "s3", unsure = {} PROVE StoredInv'
  <2>1. StoredInv
    BY <1>8 DEF FilesInv
  <2>2. \A f \in Files : Settled(f) => Settled(f)' /\ work'[f].record = work[f].record
    BY <1>1, <1>4 DEF Settled, Files
  <2>3. \A f \in Files : work'[f].step = "stored" /\ fileField[work'[f].record] # Deleted => f \in objects'
    BY <1>1, <1>4, <2>1 DEF StoredInv, RecordOf
  <2>4. \A r \in FileRecords : r \in deleting => fileField[r] = Deleted
    BY <2>1 DEF StoredInv
  <2>5. \A f \in Files : work'[f].step = "updated" => work'[f] = work[f]
    BY <1>3, <1>4
  <2> QED BY <1>1, <2>1, <2>2, <2>3, <2>4, <2>5, StoredFrame
<1> QED BY <1>1, <1>5, <1>6, <1>7, <1>8 DEF FilesInv

LEMMA DirectKeeps ==
  ASSUME FilesInv, NEW d \in Directs, NEW r \in FileRecords, StoreUploadedFile(d, r)
  PROVE  FilesInv'
<1> DEFINE y == [step |-> "stored", record |-> r]
<1>1. /\ FilesShape /\ PartsInv /\ work[d] = Idle /\ d \in Files /\ d \notin Uploads
      /\ objects' = objects \cup {d} /\ work' = [work EXCEPT ![d] = y]
      /\ UNCHANGED <<objectStore, uploads, chunkRows, parts, chunkRequests, fileField, deleting,
                     disturbed, assembled, unsure>>
  BY FilesAssumption DEF StoreUploadedFile, uploadRows, FilesInv, Files
<1>2. {"step", "record"} \subseteq DOMAIN y /\ y.step = "stored" /\ y.record \in FileRecords
  OBVIOUS
<1> HIDE DEF y
<1>3. /\ DOMAIN work' = Files
      /\ \A f \in Files : work'[f] = IF f = d THEN y ELSE work[f]
  BY <1>1 DEF FilesShape
<1>4. FilesShape'
  BY <1>1, <1>2, <1>3 DEF FilesShape, Working
<1>5. \A v \in Uploads : work'[v] = work[v]
  BY <1>1, <1>3 DEF Files
<1>6. ClaimedOnce'
  BY <1>1, <1>5 DEF FilesInv, ClaimedOnce
<1>7. PartsInv'
  BY <1>1, <1>5, PartsFrame
<1>8. ASSUME objectStore = "s3", unsure = {} PROVE StoredInv'
  <2>1. StoredInv
    BY <1>8 DEF FilesInv
  <2>2. \A f \in Files : Settled(f) => Settled(f)' /\ work'[f].record = work[f].record
    BY <1>1, <1>3 DEF Settled, Idle
  <2>3. \A f \in Files : work'[f].step = "stored" /\ fileField[work'[f].record] # Deleted => f \in objects'
    BY <1>1, <1>3, <2>1 DEF StoredInv, RecordOf
  <2>4. \A q \in FileRecords : q \in deleting => fileField[q] = Deleted
    BY <2>1 DEF StoredInv
  <2>5. \A f \in Files : work'[f].step = "updated" => work'[f] = work[f]
    BY <1>2, <1>3
  <2> QED BY <1>1, <2>1, <2>2, <2>3, <2>4, <2>5, StoredFrame
<1> QED BY <1>1, <1>4, <1>6, <1>7, <1>8 DEF FilesInv

\* What the end of a request leaves as it was, whatever it does to the objects
LEMMA RequestEnds ==
  ASSUME FilesShape, ClaimedOnce, PartsInv, NEW f \in Files, work[f].step \in Working, Ended(f),
         \/ UNCHANGED uploads
         \/ /\ f \in Uploads
            /\ \E status \in {"open", "completing", "completed"} :
                 /\ uploads' = [uploads EXCEPT ![f].status = status]
                 /\ status = "open" => work[f].step # "updated",
         UNCHANGED parts \/ (f \in Uploads /\ parts' = [parts EXCEPT ![f] = NoParts]),
         UNCHANGED <<chunkRows, chunkRequests, disturbed, assembled>>,
         DOMAIN fileField' = FileRecords,
         \A r \in FileRecords : fileField'[r] # Deleted => fileField'[r] \in Seq(Files)
  PROVE  /\ FilesShape' /\ ClaimedOnce' /\ PartsInv'
         /\ \A g \in Files : Settled(g) => Settled(g)' /\ work'[g].record = work[g].record
         /\ \A g \in Files : work'[g].step \in {"updated", "stored"} => g # f /\ work'[g] = work[g]
<1> DEFINE y == [work[f] EXCEPT !.step = "idle"]
<1>1. /\ DOMAIN y = DOMAIN work[f] /\ "step" \in DOMAIN y /\ "record" \in DOMAIN y
      /\ y.step = "idle" /\ y.record = work[f].record
  BY DEF FilesShape, Working
<1>2. /\ DOMAIN work' = Files
      /\ \A g \in Files : work'[g] = IF g = f THEN y ELSE work[g]
  BY DEF FilesShape, Ended
<1> HIDE DEF y
<1>3. /\ DOMAIN uploads' = Uploads
      /\ \A u \in Uploads : /\ SessionOK(uploads'[u])
                            /\ u # f => uploads'[u] = uploads[u]
                            /\ u = f /\ work[f].step = "updated" => uploads'[u].status \notin {"none", "open"}
  <2>1. CASE UNCHANGED uploads
    BY <2>1 DEF FilesShape, ClaimedOnce
  <2>2. ASSUME f \in Uploads, NEW status \in {"open", "completing", "completed"},
               uploads' = [uploads EXCEPT ![f].status = status],
               status = "open" => work[f].step # "updated"
        PROVE  /\ DOMAIN uploads' = Uploads
               /\ \A u \in Uploads : /\ SessionOK(uploads'[u])
                                     /\ u # f => uploads'[u] = uploads[u]
                                     /\ u = f /\ work[f].step = "updated" => uploads'[u].status \notin {"none", "open"}
    <3> DEFINE x == [uploads[f] EXCEPT !.status = status]
    <3>1. uploads[f] # NoUpload
      BY <2>2 DEF ClaimedOnce, NoUpload
    <3>2. SessionOK(x) /\ x.status = status
      BY <2>2, <3>1, StatusSet
    <3>3. uploads' = [uploads EXCEPT ![f] = x]
      BY <2>2
    <3> HIDE DEF x
    <3> QED BY <2>2, <3>2, <3>3 DEF FilesShape
  <2> QED BY <2>1, <2>2
<1>4. parts' \in [Uploads -> [Chunks -> Contents \cup {Mixed, Nothing}]]
      /\ \A u \in Uploads, i \in Chunks : parts'[u][i] \in {Nothing, parts[u][i]}
  <2>1. CASE UNCHANGED parts
    BY <2>1 DEF FilesShape
  <2>2. CASE f \in Uploads /\ parts' = [parts EXCEPT ![f] = NoParts]
    BY <2>2 DEF FilesShape, NoParts
  <2> QED BY <2>1, <2>2
<1>5. FilesShape'
  BY <1>1, <1>2, <1>3, <1>4 DEF FilesShape, Working
<1>6. ClaimedOnce'
  BY <1>1, <1>2, <1>3 DEF ClaimedOnce, Files, Working
<1>7. PartsInv'
  <2>1. \A u \in Uploads : work'[u].step \in {"claimed", "stored"} => work'[u].step = work[u].step
    BY <1>1, <1>2 DEF Files
  <2> QED BY <1>4, <2>1, PartsFrame
<1>8. \A g \in Files : Settled(g) => Settled(g)' /\ work'[g].record = work[g].record
  BY <1>1, <1>2, <1>3 DEF Settled, Working
<1>9. \A g \in Files : work'[g].step \in {"updated", "stored"} => g # f /\ work'[g] = work[g]
  BY <1>1, <1>2
<1> QED BY <1>5, <1>6, <1>7, <1>8, <1>9

\* The same of a request that leaves the records, and the objects in use, alone
LEMMA EndKeeps ==
  ASSUME FilesInv, NEW f \in Files, work[f].step \in Working, Ended(f),
         \/ UNCHANGED uploads
         \/ /\ f \in Uploads
            /\ \E status \in {"open", "completing", "completed"} :
                 /\ uploads' = [uploads EXCEPT ![f].status = status]
                 /\ status = "open" => work[f].step # "updated",
         UNCHANGED parts \/ (f \in Uploads /\ parts' = [parts EXCEPT ![f] = NoParts]),
         UNCHANGED <<objectStore, chunkRows, chunkRequests, fileField, deleting, disturbed, assembled, unsure>>,
         objectStore = "s3" /\ unsure = {} =>
           \A g \in objects : g \in Referenced \/ (g # f /\ work[g].step = "stored") => g \in objects'
  PROVE  FilesInv'
<1>1. FilesShape /\ ClaimedOnce /\ PartsInv
  BY DEF FilesInv
<1>2. DOMAIN fileField' = FileRecords
      /\ \A r \in FileRecords : fileField'[r] # Deleted => fileField'[r] \in Seq(Files)
  BY <1>1 DEF FilesShape
<1>3. /\ FilesShape' /\ ClaimedOnce' /\ PartsInv'
      /\ \A g \in Files : Settled(g) => Settled(g)' /\ work'[g].record = work[g].record
      /\ \A g \in Files : work'[g].step \in {"updated", "stored"} => g # f /\ work'[g] = work[g]
  BY <1>1, <1>2, RequestEnds
<1>4. ASSUME objectStore = "s3", unsure = {} PROVE StoredInv'
  <2>1. StoredInv
    BY <1>4 DEF FilesInv
  <2>2. \A g \in Files : work'[g].step = "stored" /\ fileField[work'[g].record] # Deleted => g \in objects'
    BY <1>3, <1>4, <2>1 DEF StoredInv, RecordOf
  <2>3. \A r \in FileRecords : r \in deleting => fileField[r] = Deleted
    BY <2>1 DEF StoredInv
  <2>4. \A g \in Referenced \cap objects : g \in objects'
    BY <1>4
  <2> QED BY <1>1, <1>3, <2>1, <2>2, <2>3, <2>4, StoredFrame
<1> QED BY <1>3, <1>4 DEF FilesInv

LEMMA AssembleFailsKeeps ==
  ASSUME FilesInv, NEW u \in Uploads, AssembleFails(u)
  PROVE  FilesInv'
<1>1. /\ u \in Files /\ work[u].step = "claimed" /\ work[u].step \in Working /\ Ended(u)
      /\ UNCHANGED <<objectStore, chunkRows, parts, chunkRequests, fileField, objects, deleting,
                     disturbed, assembled, unsure>>
  BY DEF AssembleFails, Files, Working
<1>2. UNCHANGED uploads \/ \E status \in {"open", "completing", "completed"} :
                              /\ uploads' = [uploads EXCEPT ![u].status = status]
                              /\ status = "open" => work[u].step # "updated"
  BY <1>1 DEF AssembleFails, Reopen
<1> QED BY <1>1, <1>2, EndKeeps

LEMMA DiesKeeps ==
  ASSUME FilesInv, NEW f \in Files, RequestDies(f)
  PROVE  FilesInv'
<1>1. /\ work[f].step \in Working /\ Ended(f)
      /\ UNCHANGED <<objectStore, uploads, chunkRows, parts, chunkRequests, fileField, objects, deleting,
                     disturbed, assembled, unsure>>
  BY DEF RequestDies, FilesInv, FilesShape, uploadRows
<1> QED BY <1>1, EndKeeps

LEMMA FinishKeeps ==
  ASSUME FilesInv, NEW f \in Files, Finish(f)
  PROVE  FilesInv'
<1>1. /\ work[f].step = "updated" /\ work[f].step \in Working /\ Ended(f)
      /\ objects' \in {objects, RemoveStoredFiles(work[f].removed)}
      /\ UNCHANGED <<objectStore, chunkRows, chunkRequests, fileField, deleting, disturbed, assembled, unsure>>
  BY DEF Finish, Working
<1>2. UNCHANGED <<uploads, parts>>
      \/ /\ f \in Uploads /\ parts' = [parts EXCEPT ![f] = NoParts]
         /\ UNCHANGED uploads
            \/ \E status \in {"open", "completing", "completed"} :
                 /\ uploads' = [uploads EXCEPT ![f].status = status]
                 /\ status = "open" => work[f].step # "updated"
  <2>1. CASE f \in Directs
    BY <2>1 DEF Finish
  <2>2. CASE f \notin Directs
    BY <2>2 DEF Finish, Files
  <2> QED BY <2>1, <2>2
<1>3. ASSUME objectStore = "s3", unsure = {}, NEW g \in objects,
             g \in Referenced \/ (g # f /\ work[g].step = "stored")
      PROVE  g \in objects'
  <2>1. \A h \in work[f].removed : Settled(h) /\ h \notin Referenced
    BY <1>1, <1>3 DEF FilesInv, StoredInv
  <2>2. g \notin work[f].removed
    BY <1>3, <2>1 DEF Settled
  <2> QED BY <1>1, <1>3, <2>2 DEF RemoveStoredFiles
<1> QED BY <1>1, <1>2, <1>3, EndKeeps

LEMMA UpdateFailsKeeps ==
  ASSUME FilesInv, NEW f \in Files, UpdateFails(f)
  PROVE  FilesInv'
<1>1. /\ work[f].step = "stored" /\ work[f].step \in Working /\ Ended(f) /\ FilesShape /\ ClaimedOnce /\ PartsInv
      /\ objects' = RemoveStoredFiles({f})
      /\ UNCHANGED <<objectStore, parts, chunkRows, chunkRequests, deleting, disturbed, assembled>>
  BY DEF UpdateFails, Working, FilesInv
<1>2. UNCHANGED uploads
      \/ /\ f \in Uploads
         /\ \E status \in {"open", "completing", "completed"} :
              /\ uploads' = [uploads EXCEPT ![f].status = status]
              /\ status = "open" => work[f].step # "updated"
  BY <1>1 DEF UpdateFails, Reopen
<1>3. CASE UNCHANGED <<fileField, unsure>>
  <2>1. ASSUME objectStore = "s3", unsure = {}, NEW g \in objects,
               g \in Referenced \/ (g # f /\ work[g].step = "stored")
        PROVE  g \in objects'
    <3>1. g # f
      <4>1. f \notin Referenced
        BY <1>1, <2>1 DEF FilesInv, StoredInv, Referenced, Settled
      <4> QED BY <2>1, <4>1
    <3> QED BY <1>1, <2>1, <3>1 DEF RemoveStoredFiles
  <2> QED BY <1>1, <1>2, <1>3, <2>1, EndKeeps
<1>4. CASE /\ Readable(RecordOf(f)) /\ unsure' = unsure \cup {f}
           /\ \E mode \in ModeOf(f) : fileField' = [fileField EXCEPT ![RecordOf(f)] = FieldWith(f, mode)]
  <2>1. PICK mode \in ModeOf(f) : fileField' = [fileField EXCEPT ![RecordOf(f)] = FieldWith(f, mode)]
    BY <1>4
  <2>2. RecordOf(f) \in FileRecords /\ FieldWith(f, mode) \in Seq(Files)
    BY <1>1, <1>4 DEF FilesShape, RecordOf, FieldWith, Readable
  <2>3. /\ DOMAIN fileField' = FileRecords
        /\ \A r \in FileRecords : fileField'[r] # Deleted => fileField'[r] \in Seq(Files)
    BY <1>1, <2>1, <2>2 DEF FilesShape
  <2>4. FilesShape' /\ ClaimedOnce' /\ PartsInv'
    BY <1>1, <1>2, <2>3, RequestEnds
  <2>5. unsure' # {}
    BY <1>4
  <2> QED BY <2>4, <2>5 DEF FilesInv
<1> QED BY <1>3, <1>4 DEF UpdateFails

LEMMA FileUpdateKeeps ==
  ASSUME FilesInv, NEW f \in Files, UpdateRecordFileField(f)
  PROVE  FilesInv'
<1>1. /\ FilesShape /\ ClaimedOnce /\ PartsInv /\ work[f].step = "stored" /\ Readable(RecordOf(f))
      /\ UNCHANGED <<objectStore, uploads, chunkRows, parts, chunkRequests, objects, deleting,
                     disturbed, assembled, unsure>>
  BY DEF UpdateRecordFileField, uploadRows, FilesInv
<1>2. PICK mode \in ModeOf(f) :
        /\ fileField' = [fileField EXCEPT ![RecordOf(f)] = FieldWith(f, mode)]
        /\ work' = [work EXCEPT ![f] = [step |-> "updated", record |-> work[f].record,
                                        removed |-> RemovedBy(f, mode)]]
  BY DEF UpdateRecordFileField
<1> DEFINE r == work[f].record
<1> DEFINE y == [step |-> "updated", record |-> r, removed |-> RemovedBy(f, mode)]
<1>3. r \in FileRecords /\ RecordOf(f) = r /\ fileField[r] # Deleted /\ fileField[r] \in Seq(Files)
  BY <1>1 DEF FilesShape, RecordOf, Readable, Working
<1>4. /\ {"step", "record"} \subseteq DOMAIN y /\ y.step = "updated" /\ y.record = r
      /\ y.removed = RemovedBy(f, mode)
  OBVIOUS
<1> HIDE DEF y
<1>5. /\ DOMAIN work' = Files /\ DOMAIN fileField' = FileRecords
      /\ \A g \in Files : work'[g] = IF g = f THEN y ELSE work[g]
      /\ \A q \in FileRecords : fileField'[q] = IF q = r THEN FieldWith(f, mode) ELSE fileField[q]
  BY <1>1, <1>2, <1>3 DEF FilesShape, y
<1>6. /\ FieldWith(f, mode) \in Seq(Files)
      /\ \A g \in Range(FieldWith(f, mode)) : g = f \/ g \in Range(fileField[r]) \ RemovedBy(f, mode)
  <2>1. CASE mode = "append"
    <3>1. ASSUME NEW q \in Seq(Files) PROVE Range(Append(q, f)) \subseteq Range(q) \cup {f}
      <4>1. /\ DOMAIN Append(q, f) = 1 .. Len(q) + 1 /\ DOMAIN q = 1 .. Len(q) /\ Len(q) \in Nat
            /\ \A i \in 1 .. Len(q) : Append(q, f)[i] = q[i]
            /\ Append(q, f)[Len(q) + 1] = f
        OBVIOUS
      <4> QED BY <4>1 DEF Range
    <3> QED BY <1>3, <2>1, <3>1 DEF FieldWith, RemovedBy
  <2>2. CASE mode # "append"
    <3>1. Range(<<f>>) = {f}
      BY DEF Range
    <3> QED BY <2>2, <3>1 DEF FieldWith
  <2> QED BY <2>1, <2>2
<1>7. RemovedBy(f, mode) \subseteq Range(fileField[r]) /\ Range(fileField[r]) \subseteq Files
  BY <1>3 DEF RemovedBy, Range
<1>8. FilesShape'
  BY <1>1, <1>3, <1>4, <1>5, <1>6 DEF FilesShape, Working
<1>9. ClaimedOnce'
  BY <1>1, <1>4, <1>5 DEF ClaimedOnce, Files, Working
<1>10. PartsInv'
  <2>1. \A u \in Uploads : work'[u].step \in {"claimed", "stored"} => work'[u].step = work[u].step
    BY <1>4, <1>5 DEF Files
  <2>2. \A u \in Uploads, i \in Chunks : parts'[u][i] \in {Nothing, parts[u][i]}
    BY <1>1
  <2> QED BY <1>1, <2>1, <2>2, PartsFrame
<1>11. ASSUME objectStore = "s3", unsure = {} PROVE StoredInv'
  <2>1. StoredInv
    BY <1>11 DEF FilesInv
  <2>2. \A g \in Files : Settled(g) => g # f /\ work'[g] = work[g] /\ Settled(g)'
    BY <1>1, <1>5 DEF Settled
  <2>3. Settled(f)'
    BY <1>1, <1>4, <1>5 DEF Settled, ClaimedOnce, Working
  <2>4. ASSUME NEW q \in FileRecords, fileField[q] # Deleted, NEW g \in Range(fileField[q])
        PROVE  g \in Files /\ g \in objects /\ Settled(g) /\ work[g].record = q /\ g \in Referenced
    BY <1>1, <2>1, <2>4 DEF StoredInv, RecordOf, FilesShape, Range, Referenced
  <2>5. f \in objects
    BY <1>1, <1>3, <2>1 DEF StoredInv, RecordOf
  <2>6. ASSUME NEW q \in FileRecords, fileField'[q] # Deleted, NEW g \in Range(fileField'[q])
        PROVE  g \in Files /\ g \in objects /\ Settled(g)' /\ work'[g].record = q
    <3>1. CASE q = r /\ g = f
      BY <1>4, <1>5, <2>3, <2>5, <3>1
    <3>2. CASE q = r /\ g # f
      <4>1. g \in Range(fileField[r])
        BY <1>5, <1>6, <2>6, <3>2
      <4> QED BY <1>3, <2>2, <2>4, <3>2, <4>1
    <3>3. CASE q # r
      BY <1>5, <2>2, <2>4, <2>6, <3>3
    <3> QED BY <3>1, <3>2, <3>3
  <2>7. ASSUME NEW g \in Files, g \in Referenced'
        PROVE  g = f \/ (g \in Referenced /\ g \notin RemovedBy(f, mode))
    <3>1. PICK q \in FileRecords : fileField'[q] # Deleted /\ g \in Range(fileField'[q])
      BY <2>7 DEF Referenced
    <3>2. CASE q = r
      BY <1>3, <1>5, <1>6, <2>4, <3>1, <3>2
    <3>3. CASE q # r
      <4>1. g \in Referenced /\ work[g].record = q
        BY <1>5, <2>4, <3>1, <3>3
      <4>2. g \notin RemovedBy(f, mode)
        BY <1>3, <1>7, <2>4, <3>3, <4>1
      <4> QED BY <4>1, <4>2
    <3> QED BY <3>2, <3>3
  <2>8. ASSUME NEW g \in Files, work'[g].step = "updated"
        PROVE  work'[g].removed \subseteq Files
               /\ \A h \in work'[g].removed : Settled(h)' /\ h \notin Referenced'
    <3>1. CASE g = f
      <4>1. work'[g].removed = RemovedBy(f, mode)
        BY <1>4, <1>5, <3>1
      <4>2. \A h \in RemovedBy(f, mode) : h \in Files /\ Settled(h)
        BY <1>3, <1>7, <2>4
      <4> QED BY <2>2, <2>7, <4>1, <4>2
    <3>2. CASE g # f
      <4>1. work'[g] = work[g]
        BY <1>5, <3>2
      <4>2. work[g].removed \subseteq Files /\ \A h \in work[g].removed : Settled(h) /\ h \notin Referenced
        BY <2>1, <2>8, <4>1 DEF StoredInv
      <4> QED BY <2>2, <2>7, <4>1, <4>2
    <3> QED BY <3>1, <3>2
  <2>9. \A g \in Files : work'[g].step = "stored" /\ fileField'[work'[g].record] # Deleted => g \in objects
    <3> SUFFICES ASSUME NEW g \in Files, work'[g].step = "stored", fileField'[work'[g].record] # Deleted
                 PROVE  g \in objects
      OBVIOUS
    <3>1. work'[g] = work[g]
      BY <1>4, <1>5
    <3>2. work[g].record \in FileRecords
      BY <1>1, <3>1 DEF FilesShape, Working
    <3>3. fileField[work[g].record] # Deleted
      BY <1>3, <1>5, <3>1, <3>2
    <3> QED BY <2>1, <3>1, <3>3 DEF StoredInv, RecordOf
  <2>10. \A q \in FileRecords : q \in deleting => fileField'[q] = Deleted
    BY <1>3, <1>5, <2>1 DEF StoredInv, FilesShape
  <2> QED BY <1>1, <2>6, <2>8, <2>9, <2>10 DEF StoredInv, RecordOf
<1> QED BY <1>1, <1>8, <1>9, <1>10, <1>11 DEF FilesInv

LEMMA FileDeleteKeeps ==
  ASSUME FilesInv, NEW r \in FileRecords, DeleteRecord(r)
  PROVE  FilesInv'
<1>1. /\ FilesShape /\ fileField[r] # Deleted /\ fileField' = [fileField EXCEPT ![r] = Deleted]
      /\ deleting' = deleting \cup {r}
      /\ UNCHANGED <<objectStore, uploads, chunkRows, parts, chunkRequests, work, objects,
                     disturbed, assembled, unsure>>
  BY DEF DeleteRecord, uploadRows, FilesInv
<1>2. /\ DOMAIN fileField' = FileRecords
      /\ \A q \in FileRecords : fileField'[q] = IF q = r THEN Deleted ELSE fileField[q]
  BY <1>1 DEF FilesShape
<1>3. FilesShape' /\ ClaimedOnce'
  BY <1>1, <1>2 DEF FilesInv, FilesShape, ClaimedOnce
<1>4. PartsInv'
  BY <1>1, PartsFrame DEF FilesInv
<1>5. ASSUME objectStore = "s3", unsure = {} PROVE StoredInv'
  <2>1. StoredInv
    BY <1>5 DEF FilesInv
  <2>2. \A f \in Files : (Settled(f)' <=> Settled(f)) /\ RecordOf(f)' = RecordOf(f)
    BY <1>1 DEF Settled, RecordOf
  <2>3. Referenced' \subseteq Referenced
    BY <1>2 DEF Referenced
  <2>4. \A q \in FileRecords : fileField'[q] # Deleted => q # r /\ fileField'[q] = fileField[q] /\ Range(fileField[q]) \subseteq Files
    BY <1>1, <1>2 DEF FilesShape, Range
  <2>5. \A q \in FileRecords : fileField'[q] # Deleted =>
          \A f \in Range(fileField'[q]) : f \in objects /\ Settled(f)' /\ RecordOf(f)' = q
    BY <2>1, <2>2, <2>4 DEF StoredInv
  <2>6. \A g \in Files : work[g].step = "updated" =>
          work[g].removed \subseteq Files /\ \A f \in work[g].removed : Settled(f)' /\ f \notin Referenced'
    BY <2>1, <2>2, <2>3 DEF StoredInv
  <2>7. \A f \in Files : work[f].step = "stored" /\ fileField'[work[f].record] # Deleted => f \in objects
    BY <1>1, <1>2, <2>1, <2>4 DEF StoredInv, RecordOf, FilesShape, Working
  <2>8. \A q \in FileRecords : q \in deleting' => fileField'[q] = Deleted
    BY <1>1, <1>2, <2>1 DEF StoredInv, FilesShape
  <2> QED BY <1>1, <2>5, <2>6, <2>7, <2>8 DEF StoredInv, RecordOf
<1> QED BY <1>1, <1>3, <1>4, <1>5 DEF FilesInv

LEMMA RemoveKeeps ==
  ASSUME FilesInv, NEW r \in FileRecords, RemoveDeleted(r)
  PROVE  FilesInv'
<1>1. /\ FilesShape /\ r \in deleting /\ objects' = RemoveRecordStorage(r) /\ deleting' = deleting \ {r}
      /\ UNCHANGED <<objectStore, uploads, chunkRows, parts, chunkRequests, work, fileField,
                     disturbed, assembled, unsure>>
  BY DEF RemoveDeleted, uploadRows, FilesInv
<1>2. FilesShape' /\ ClaimedOnce'
  BY <1>1 DEF FilesInv, FilesShape, ClaimedOnce
<1>3. PartsInv'
  BY <1>1, PartsFrame DEF FilesInv
<1>4. ASSUME objectStore = "s3", unsure = {} PROVE StoredInv'
  <2>1. StoredInv /\ fileField[r] = Deleted
    BY <1>1, <1>4 DEF FilesInv, StoredInv
  <2>2. objects' = {f \in objects : RecordOf(f) # r}
    BY <1>1, <1>4 DEF RemoveRecordStorage
  <2>3. \A f \in Files : Settled(f) => Settled(f)' /\ work'[f].record = work[f].record
    BY <1>1 DEF Settled
  <2>4. \A f \in Referenced \cap objects : f \in objects'
    BY <2>1, <2>2 DEF Referenced, StoredInv
  <2>5. \A f \in Files : work'[f].step = "stored" /\ fileField[work'[f].record] # Deleted => f \in objects'
    BY <1>1, <2>1, <2>2 DEF StoredInv, RecordOf
  <2>6. \A q \in FileRecords : q \in deleting' => fileField[q] = Deleted
    BY <1>1, <2>1 DEF StoredInv
  <2> QED BY <1>1, <2>1, <2>3, <2>4, <2>5, <2>6, StoredFrame
<1> QED BY <1>1, <1>2, <1>3, <1>4 DEF FilesInv

LEMMA FilesStep == FilesInv /\ [FilesNext]_filesVars => FilesInv'
<1> SUFFICES ASSUME FilesInv, [FilesNext]_filesVars PROVE FilesInv'
  OBVIOUS
<1>1. ASSUME NEW u \in Uploads, NEW r \in FileRecords, NEW mode \in Modes, NEW declared \in BOOLEAN,
             CreateFileUploadSession(u, r, mode, declared)
      PROVE  FilesInv'
  BY <1>1, FileCreateKeeps
<1>2. ASSUME NEW u \in Uploads, NEW w \in ChunkRequests, NEW i \in Chunks, NEW c \in Contents,
             GetOpenFileUploadSession(w, u, i, c)
      PROVE  FilesInv'
  BY <1>2, OpenKeeps
<1>3. ASSUME NEW u \in Uploads, Expire(u) \/ CancelFileUploadSession(u) \/ CleanupCancel(u)
      PROVE  FilesInv'
  BY <1>3, ExpireKeeps, CancelKeeps, CleanupKeeps
<1>4. ASSUME NEW u \in Uploads,
             ClaimFileUploadSessionForComplete(u) \/ AssembleFileUploadSession(u) \/ AssembleFails(u)
      PROVE  FilesInv'
  BY <1>4, ClaimKeeps, AssembleKeeps, AssembleFailsKeeps
<1>5. ASSUME NEW w \in ChunkRequests,
             StoreFileUploadChunk(w) \/ RecordFileUploadChunk(w) \/ ChunkFails(w)
      PROVE  FilesInv'
  BY <1>5, StoreChunkKeeps, RecordChunkKeeps, ChunkFailsKeeps
<1>6. CASE CleanupRead
  BY <1>6, CleanupReadKeeps
<1>7. ASSUME NEW f \in Files, UpdateRecordFileField(f) \/ UpdateFails(f) \/ Finish(f) \/ RequestDies(f)
      PROVE  FilesInv'
  BY <1>7, FileUpdateKeeps, UpdateFailsKeeps, FinishKeeps, DiesKeeps
<1>8. ASSUME NEW f \in Directs, NEW r \in FileRecords, StoreUploadedFile(f, r)
      PROVE  FilesInv'
  BY <1>8, DirectKeeps
<1>9. ASSUME NEW r \in FileRecords, DeleteRecord(r) \/ RemoveDeleted(r)
      PROVE  FilesInv'
  BY <1>9, FileDeleteKeeps, RemoveKeeps
<1>10. CASE UNCHANGED filesVars
  <2>1. UNCHANGED <<objectStore, uploads, chunkRows, parts, chunkRequests, work, fileField, objects,
                    deleting, disturbed, assembled, unsure>>
    BY <1>10 DEF filesVars, uploadRows
  <2>2. FilesShape'
    BY <2>1 DEF FilesInv, FilesShape
  <2>3. PartsInv'
    BY <2>1, PartsFrame DEF FilesInv
  <2> QED BY <2>1, <2>2, <2>3, RequestsKeep
<1> QED BY <1>1, <1>2, <1>3, <1>4, <1>5, <1>6, <1>7, <1>8, <1>9, <1>10 DEF FilesNext

LEMMA FilesStart == (\E store \in {"local", "s3"} : FilesInit(store)) => FilesInv
BY FilesInitially

\* For any uploads, records, chunks and overlaps of their requests: on object
\* storage, no completion, replacement, failure or deletion removes an object that
\* a record refers to (apis/file_uploads.go, apis/files.go).
THEOREM FilesStayReachable == FilesSpec => []ReferencedIsStored
<1>1. FilesInv => ReferencedIsStored
  BY DEF FilesInv, StoredInv, ReferencedIsStored, Referenced
<1> QED BY <1>1, FilesStart, FilesStep, PTL DEF FilesSpec

\* And what a completion assembles are the chunks its table recorded, unless
\* requests of one chunk overlapped or died (core/file_uploads.go).
THEOREM ObjectsAreAsRecorded == FilesSpec => []AssembledAsRecorded
<1>1. FilesInv => AssembledAsRecorded
  BY DEF FilesInv, PartsInv, Agree, AssembledAsRecorded
<1> QED BY <1>1, FilesStart, FilesStep, PTL DEF FilesSpec

\* The rows of the sessions, and what is stored, to be cleaned up or to be removed, in full
SessionRows == [status : {"open", "completing", "completed", "canceled"}, record : FileRecords,
                mode : Modes, declared : BOOLEAN, expired : BOOLEAN]
SessionTyped(x) == x = NoUpload \/ x \in SessionRows
FilesSizes ==
  /\ \A u \in Uploads : SessionTyped(uploads[u])
  /\ objects \subseteq Files /\ cleaning \subseteq Uploads /\ deleting \subseteq FileRecords

LEMMA SessionEdits ==
  ASSUME NEW x, SessionTyped(x)
  PROVE  /\ x.status \in {"open", "completing", "completed", "canceled"} =>
              \A status \in {"open", "completing", "completed", "canceled"} :
                SessionTyped([x EXCEPT !.status = status])
         /\ x # NoUpload => SessionTyped([x EXCEPT !.expired = TRUE])
<1>1. CASE x = NoUpload
  BY <1>1 DEF NoUpload
<1>2. CASE x \in SessionRows
  <2>1. \A status \in {"open", "completing", "completed", "canceled"} :
          [x EXCEPT !.status = status] \in SessionRows
    BY <1>2 DEF SessionRows
  <2>2. [x EXCEPT !.expired = TRUE] \in SessionRows
    BY <1>2 DEF SessionRows
  <2> QED BY <2>1, <2>2 DEF SessionTyped
<1> QED BY <1>1, <1>2 DEF SessionTyped

\* A step that touches no session, or one and as it may
LEMMA SessionTouched ==
  ASSUME FilesShape, FilesSizes, NEW u \in Uploads, NEW x, SessionTyped(x),
         uploads' = [uploads EXCEPT ![u] = x]
  PROVE  \A v \in Uploads : SessionTyped(uploads'[v])
BY DEF FilesShape, FilesSizes

LEMMA SessionReopened ==
  ASSUME FilesShape, FilesSizes, NEW f \in Files, Reopen(f)
  PROVE  \A v \in Uploads : SessionTyped(uploads'[v])
<1>1. CASE f \in Uploads /\ uploads[f].status = "completing"
  <2>1. PICK status \in {"open", "completing"} : uploads' = [uploads EXCEPT ![f].status = status]
    BY <1>1 DEF Reopen
  <2> DEFINE x == [uploads[f] EXCEPT !.status = status]
  <2>2. SessionTyped(x)
    BY <1>1, SessionEdits DEF FilesSizes
  <2>3. uploads' = [uploads EXCEPT ![f] = x]
    BY <2>1
  <2> HIDE DEF x
  <2> QED BY <1>1, <2>2, <2>3, SessionTouched
<1>2. CASE ~(f \in Uploads /\ uploads[f].status = "completing")
  BY <1>2 DEF Reopen, FilesSizes
<1> QED BY <1>1, <1>2

LEMMA RemovalsShrink ==
  /\ \A S : RemoveStoredFiles(S) \subseteq objects
  /\ \A r \in FileRecords : objects \subseteq Files => RemoveRecordStorage(r) \subseteq Files
<1>1. ASSUME NEW S PROVE RemoveStoredFiles(S) \subseteq objects
  BY DEF RemoveStoredFiles
<1>2. ASSUME NEW r \in FileRecords, objects \subseteq Files PROVE RemoveRecordStorage(r) \subseteq Files
  BY <1>2 DEF RemoveRecordStorage
<1> QED BY <1>1, <1>2

LEMMA FilesSizesPreserved ==
  FilesShape /\ FilesSizes /\ [FilesNext]_filesVars => FilesSizes'
<1> SUFFICES ASSUME FilesShape, FilesSizes, [FilesNext]_filesVars PROVE FilesSizes'
  OBVIOUS
<1>1. /\ \A u \in Uploads : SessionTyped(uploads[u])
      /\ objects \subseteq Files /\ cleaning \subseteq Uploads /\ deleting \subseteq FileRecords
      /\ \A u \in Uploads : u \in Files
  BY DEF FilesSizes, Files
<1>2. ASSUME NEW u \in Uploads, NEW r \in FileRecords, NEW mode \in Modes, NEW declared \in BOOLEAN,
             CreateFileUploadSession(u, r, mode, declared)
      PROVE  FilesSizes'
  <2> DEFINE x == [status |-> "open", record |-> r, mode |-> mode, declared |-> declared,
                   expired |-> FALSE]
  <2>1. SessionTyped(x)
    BY DEF SessionTyped, SessionRows
  <2>2. uploads' = [uploads EXCEPT ![u] = x] /\ UNCHANGED <<objects, cleaning, deleting>>
    BY <1>2 DEF CreateFileUploadSession
  <2> HIDE DEF x
  <2>3. \A v \in Uploads : SessionTyped(uploads'[v])
    BY <2>1, <2>2, SessionTouched
  <2> QED BY <1>1, <2>2, <2>3 DEF FilesSizes
<1>3. ASSUME NEW w \in ChunkRequests, NEW u \in Uploads, NEW i \in Chunks, NEW c \in Contents,
             GetOpenFileUploadSession(w, u, i, c)
      PROVE  FilesSizes'
  BY <1>1, <1>3 DEF GetOpenFileUploadSession, uploadRows, FilesSizes
<1>4. ASSUME NEW u \in Uploads, Expire(u)
      PROVE  FilesSizes'
  <2> DEFINE x == [uploads[u] EXCEPT !.expired = TRUE]
  <2>1. SessionTyped(x)
    BY <1>1, <1>4, SessionEdits DEF Expire
  <2>2. uploads' = [uploads EXCEPT ![u] = x] /\ UNCHANGED <<objects, cleaning, deleting>>
    BY <1>4 DEF Expire
  <2> HIDE DEF x
  <2>3. \A v \in Uploads : SessionTyped(uploads'[v])
    BY <2>1, <2>2, SessionTouched
  <2> QED BY <1>1, <2>2, <2>3 DEF FilesSizes
<1>5. ASSUME NEW u \in Uploads, CancelFileUploadSession(u)
      PROVE  FilesSizes'
  <2> DEFINE x == [uploads[u] EXCEPT !.status = "canceled"]
  <2>1. SessionTyped(x)
    BY <1>1, <1>5, SessionEdits DEF CancelFileUploadSession, Open
  <2>2. uploads' = [uploads EXCEPT ![u] = x] /\ UNCHANGED <<objects, cleaning, deleting>>
    BY <1>5 DEF CancelFileUploadSession
  <2> HIDE DEF x
  <2>3. \A v \in Uploads : SessionTyped(uploads'[v])
    BY <2>1, <2>2, SessionTouched
  <2> QED BY <1>1, <2>2, <2>3 DEF FilesSizes
<1>6. ASSUME NEW u \in Uploads, CleanupCancel(u)
      PROVE  FilesSizes'
  <2> DEFINE x == [uploads[u] EXCEPT !.status = IF @ \in {"open", "completing"} THEN "canceled" ELSE @]
  <2>1. SessionTyped(x)
    <3>1. CASE uploads[u].status \in {"open", "completing"}
      BY <1>1, <3>1, SessionEdits
    <3>2. CASE uploads[u] = NoUpload
      BY <3>2 DEF NoUpload, SessionTyped
    <3>3. CASE uploads[u] # NoUpload /\ uploads[u].status \notin {"open", "completing"}
      <4>1. uploads[u] \in SessionRows
        BY <1>1, <3>3 DEF SessionTyped
      <4>2. uploads[u].status \in {"open", "completing", "completed", "canceled"}
        BY <4>1 DEF SessionRows
      <4> QED BY <1>1, <3>3, <4>2, SessionEdits
    <3> QED BY <3>1, <3>2, <3>3
  <2>2. /\ uploads' = [uploads EXCEPT ![u] = x] /\ UNCHANGED <<objects, deleting>>
        /\ cleaning' = cleaning \ {u}
    BY <1>6 DEF CleanupCancel
  <2> HIDE DEF x
  <2>3. \A v \in Uploads : SessionTyped(uploads'[v])
    BY <2>1, <2>2, SessionTouched
  <2> QED BY <1>1, <2>2, <2>3 DEF FilesSizes
<1>7. ASSUME NEW u \in Uploads, ClaimFileUploadSessionForComplete(u)
      PROVE  FilesSizes'
  <2> DEFINE x == [uploads[u] EXCEPT !.status = "completing"]
  <2>1. SessionTyped(x)
    BY <1>1, <1>7, SessionEdits DEF ClaimFileUploadSessionForComplete, Open
  <2>2. uploads' = [uploads EXCEPT ![u] = x] /\ UNCHANGED <<objects, cleaning, deleting>>
    BY <1>7 DEF ClaimFileUploadSessionForComplete
  <2> HIDE DEF x
  <2>3. \A v \in Uploads : SessionTyped(uploads'[v])
    BY <2>1, <2>2, SessionTouched
  <2> QED BY <1>1, <2>2, <2>3 DEF FilesSizes
<1>8. ASSUME NEW u \in Uploads, AssembleFileUploadSession(u)
      PROVE  FilesSizes'
  BY <1>1, <1>8 DEF AssembleFileUploadSession, uploadRows, FilesSizes
<1>9. ASSUME NEW u \in Uploads, AssembleFails(u)
      PROVE  FilesSizes'
  <2>1. \A v \in Uploads : SessionTyped(uploads'[v])
    BY <1>1, <1>9, SessionReopened DEF AssembleFails
  <2> QED BY <1>1, <1>9, <2>1 DEF AssembleFails, FilesSizes
<1>10. ASSUME NEW w \in ChunkRequests,
              StoreFileUploadChunk(w) \/ RecordFileUploadChunk(w) \/ ChunkFails(w)
       PROVE  FilesSizes'
  <2>1. UNCHANGED <<uploads, objects, cleaning, deleting>>
    BY <1>10 DEF StoreFileUploadChunk, RecordFileUploadChunk, ChunkFails, uploadRows
  <2> QED BY <1>1, <2>1 DEF FilesSizes
<1>11. CASE CleanupRead
  BY <1>1, <1>11 DEF CleanupRead, uploadRows, FilesSizes
<1>12. ASSUME NEW f \in Files, UpdateRecordFileField(f) \/ RequestDies(f)
       PROVE  FilesSizes'
  <2>1. UNCHANGED <<uploads, objects, cleaning, deleting>>
    BY <1>12 DEF UpdateRecordFileField, RequestDies, uploadRows
  <2> QED BY <1>1, <2>1 DEF FilesSizes
<1>13. ASSUME NEW f \in Files, UpdateFails(f)
       PROVE  FilesSizes'
  <2>1. \A v \in Uploads : SessionTyped(uploads'[v])
    BY <1>13, SessionReopened DEF UpdateFails
  <2>2. objects' \subseteq Files
    BY <1>1, <1>13, RemovalsShrink DEF UpdateFails
  <2> QED BY <1>1, <1>13, <2>1, <2>2 DEF UpdateFails, FilesSizes
<1>14. ASSUME NEW f \in Files, Finish(f)
       PROVE  FilesSizes'
  <2>1. \A v \in Uploads : SessionTyped(uploads'[v])
    <3>1. CASE UNCHANGED uploads
      BY <1>1, <3>1
    <3>2. CASE f \in Uploads /\ uploads[f].status = "completing"
               /\ \E status \in {"completed", "completing"} :
                    uploads' = [uploads EXCEPT ![f].status = status]
      <4>1. PICK status \in {"completed", "completing"} :
                    uploads' = [uploads EXCEPT ![f].status = status]
        BY <3>2
      <4> DEFINE x == [uploads[f] EXCEPT !.status = status]
      <4>2. SessionTyped(x)
        BY <1>1, <3>2, SessionEdits
      <4>3. uploads' = [uploads EXCEPT ![f] = x]
        BY <4>1
      <4> HIDE DEF x
      <4> QED BY <3>2, <4>2, <4>3, SessionTouched
    <3> QED BY <1>14, <3>1, <3>2 DEF Finish, Files
  <2>2. objects' \subseteq Files
    BY <1>1, <1>14, RemovalsShrink DEF Finish
  <2> QED BY <1>1, <1>14, <2>1, <2>2 DEF Finish, FilesSizes
<1>15. ASSUME NEW f \in Directs, NEW r \in FileRecords, StoreUploadedFile(f, r)
       PROVE  FilesSizes'
  BY <1>1, <1>15 DEF StoreUploadedFile, uploadRows, FilesSizes, Files
<1>16. ASSUME NEW r \in FileRecords, DeleteRecord(r)
       PROVE  FilesSizes'
  BY <1>1, <1>16 DEF DeleteRecord, uploadRows, FilesSizes
<1>17. ASSUME NEW r \in FileRecords, RemoveDeleted(r)
       PROVE  FilesSizes'
  <2>1. objects' \subseteq Files
    BY <1>1, <1>17, RemovalsShrink DEF RemoveDeleted
  <2> QED BY <1>1, <1>17, <2>1 DEF RemoveDeleted, uploadRows, FilesSizes
<1>18. CASE UNCHANGED filesVars
  BY <1>1, <1>18 DEF filesVars, uploadRows, FilesSizes
<1> QED BY <1>2, <1>3, <1>4, <1>5, <1>6, <1>7, <1>8, <1>9, <1>10, <1>11, <1>12, <1>13, <1>14, <1>15,
           <1>16, <1>17, <1>18 DEF FilesNext

\* The types of FileUploads, through everything that uploads, completions, clean-ups and deletions
\* do side by side and wherever a request dies: a session keeps its row, a record the list of its
\* files or the mark that it is gone, and the storage holds files of uploads and nothing else.
THEOREM FilesTyped == FilesSpec => []FilesTypeOK
<1>1. FilesInv /\ FilesSizes => FilesTypeOK
  <2> SUFFICES ASSUME FilesInv, FilesSizes PROVE FilesTypeOK
    OBVIOUS
  <2>1. FilesShape
    BY DEF FilesInv
  <2>2. \A r \in FileRecords : fileField[r] = Deleted \/ Range(fileField[r]) \subseteq Files
    <3>1. ASSUME NEW s \in Seq(Files) PROVE Range(s) \subseteq Files
      BY DEF Range
    <3> QED BY <2>1, <3>1 DEF FilesShape
  <2>3. \A u \in Uploads : chunkRows[u] \in [Chunks -> Contents \cup {Nothing}]
                           /\ parts[u] \in [Chunks -> Contents \cup {Mixed, Nothing}]
    BY <2>1 DEF FilesShape
  <2>4. \A f \in Files : work[f].step \in {"idle", "claimed", "stored", "updated"}
    BY <2>1 DEF FilesShape, Working
  <2> QED BY <2>2, <2>3, <2>4 DEF FilesTypeOK, FilesSizes, SessionTyped, SessionRows
<1>2. (\E store \in {"local", "s3"} : FilesInit(store)) => FilesInv /\ FilesSizes
  <2>1. ASSUME NEW store, FilesInit(store) PROVE FilesSizes
    BY <2>1 DEF FilesInit, FilesSizes, SessionTyped
  <2> QED BY <2>1, FilesInitially
<1>3. FilesInv /\ FilesSizes /\ [FilesNext]_filesVars => FilesInv' /\ FilesSizes'
  <2>1. FilesInv => FilesShape
    BY DEF FilesInv
  <2> QED BY <2>1, FilesStep, FilesSizesPreserved
<1> QED BY <1>1, <1>2, <1>3, PTL DEF FilesSpec
==============================================================================
