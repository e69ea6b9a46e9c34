----------------------------- MODULE OutboxProofs -----------------------------
(***************************************************************************)
(* Proofs about Outbox, for every number of requests, replicas, topics and *)
(* rows and every environment.                                             *)
(***************************************************************************)
EXTENDS Outbox, Extrema, FiniteSetTheorems, TLAPS

\* Inserting n rows moves the sequence by n.
LEMMA InsertedRows ==
  ASSUME OutboxAssumption, nextId \in 1 .. MaxRows + 1,
         NEW n \in Nat, nextId + n <= MaxRows + 1
  PROVE  /\ Cardinality(nextId .. nextId + n - 1) = n
         /\ nextId .. nextId + n - 1 \subseteq Ids
         /\ nextId + n \in 1 .. MaxRows + 1
<1>1. nextId \in Nat /\ nextId + n - 1 \in Int /\ MaxRows \in Nat
  BY DEF OutboxAssumption
<1>2. Cardinality(nextId .. nextId + n - 1) = n
  BY <1>1, FS_Interval
<1> QED BY <1>1, <1>2 DEF Ids

\* OwnRow is a row the request still owes, or 0.
LEMMA OwnRowType ==
  ASSUME OutboxAssumption, TypeOK, NEW q \in Requests
  PROVE  /\ OwnRow(q) \in Ids \cup {0}
         /\ owed[q] # {} => OwnRow(q) \in owed[q]
         /\ \A i : owed[q] = {i} => OwnRow(q) = i
<1>1. owed[q] \in SUBSET Nat /\ owed[q] \subseteq Ids
  BY DEF OutboxAssumption, TypeOK, Ids
<1>2. owed[q] # {} => Min(owed[q]) \in owed[q]
  BY <1>1, MinOf
<1>3. CASE owed[q] = {}
  BY <1>3 DEF OwnRow
<1>4. CASE owed[q] # {}
  BY <1>1, <1>2, <1>4 DEF OwnRow
<1> QED BY <1>3, <1>4

\* LatestOutboxID finds a pending row of the topic it asks for.
LEMMA LatestMatches ==
  ASSUME OutboxAssumption, NEW q, Matching(q) # {}
  PROVE  /\ Max(Matching(q)) \in Unmarked(about[q]) /\ Matching(q) = Unmarked(about[q])
         /\ kind[q] # "respelled"
<1>1. Matching(q) \in SUBSET (0 .. MaxRows) /\ MaxRows \in Nat
  BY DEF Matching, Unmarked, Ids, OutboxAssumption
<1>2. Max(Matching(q)) \in Matching(q)
  BY <1>1, MaxOf
<1> QED BY <1>2 DEF Matching

------------------------------------------------------------------------------
(* Types *)

\* One row more.
LEMMA InsertedRow ==
  ASSUME OutboxAssumption, nextId \in Ids, NEW t
  PROVE  LET f == [i \in {nextId} |-> t]
         IN  /\ DOMAIN f = {nextId} /\ DOMAIN f \subseteq Ids
             /\ Cardinality(DOMAIN f) = 1
             /\ nextId + 1 \in 1 .. MaxRows + 1
<1>1. Cardinality({nextId}) = 1
  BY FS_Singleton
<1>2. nextId + 1 \in 1 .. MaxRows + 1
  BY DEF Ids, OutboxAssumption
<1> QED BY <1>1, <1>2

\* Counting one more keeps a function into Nat.
LEMMA Bump ==
  ASSUME NEW S, NEW f \in [S -> Nat], NEW x
  PROVE  [f EXCEPT ![x] = @ + 1] \in [S -> Nat]
<1>1. CASE x \in S
  BY <1>1
<1>2. CASE x \notin S
  <2>1. \A y \in S : [f EXCEPT ![x] = @ + 1][y] = f[y]
    BY <1>2
  <2> QED BY <2>1
<1> QED BY <1>1, <1>2

LEMMA DeliveredType ==
  ASSUME TypeOK, NEW i, NEW t, Delivered(i, t)
  PROVE  published' \in [Ids -> Nat] /\ sent' \in [Topics -> Nat]
<1>1. published \in [Ids -> Nat] /\ sent \in [Topics -> Nat]
  BY DEF TypeOK
<1>2. sent' \in [Topics -> Nat]
  BY <1>1, Bump DEF Delivered
<1>3. published' \in [Ids -> Nat]
  BY <1>1, Bump DEF Delivered
<1> QED BY <1>2, <1>3

LEMMA MarkType ==
  ASSUME TypeOK, NEW i, NEW who \in {"request", "sweep"}, MarkOutboxPublished(i, who)
  PROVE  /\ status' \in [Ids -> {"none", "pending", "published", "pruned"}]
         /\ marker' \in [Ids -> {"nobody", "request", "sweep"}]
BY DEF TypeOK, MarkOutboxPublished

LEMMA EnqueuedType ==
  ASSUME TypeOK, NEW i, enqueued' = [enqueued EXCEPT ![i] = @ + 1]
  PROVE  enqueued' \in [Ids -> Nat]
<1>1. enqueued \in [Ids -> Nat]
  BY DEF TypeOK
<1> QED BY <1>1, Bump

LEMMA TypeInit == OutboxAssumption /\ Init => TypeOK
  BY DEF OutboxAssumption, Init, TypeOK, Ids

\* Every step keeps every variable in its type; that a sweep only fails an event
\* it has claimed is SweepInv's.
LEMMA TypeStep ==
  ASSUME OutboxAssumption, TypeOK, SweepInv, [Next]_vars
  PROVE  TypeOK'
<1> USE OutboxAssumption
<1> USE DEF TypeOK, InFlight, rows, reqs, sweeps, history
<1>1. ASSUME NEW q \in Requests, NEW t \in Topics, RecordWrite(q, t)
      PROVE  TypeOK'
  <2> DEFINE f == [i \in {nextId} |-> t]
  <2>1. /\ DOMAIN f = {nextId} /\ DOMAIN f \subseteq Ids /\ Cardinality(DOMAIN f) = 1
        /\ nextId + 1 \in 1 .. MaxRows + 1
    BY <1>1, InsertedRow DEF RecordWrite
  <2>2. \A i \in DOMAIN f : f[i] = t
    BY <2>1
  <2>3. Insert(f, q)
    BY <1>1 DEF RecordWrite
  <2> HIDE DEF f
  <2>4. PICK k \in {"record", "respelled"} : kind' = [kind EXCEPT ![q] = k]
    BY <1>1 DEF RecordWrite, RecordKinds
  <2> QED BY <1>1, <2>1, <2>2, <2>3, <2>4 DEF RecordWrite, Insert, Step
<1>2. ASSUME NEW q \in Requests, NEW t \in Topics, NoopUpdate(q, t)
      PROVE  TypeOK'
  <2>1. PICK k \in {"record", "respelled"} : kind' = [kind EXCEPT ![q] = k]
    BY <1>2 DEF NoopUpdate, RecordKinds
  <2> QED BY <1>2, <2>1 DEF NoopUpdate, Step
<1>3. ASSUME NEW q \in Requests, NEW n \in 1 .. MaxBatchOps, nextId + n <= MaxRows + 1,
             NEW f \in NewRows(n), BatchWrite(q, f)
      PROVE  TypeOK'
  <2>1. DOMAIN f = nextId .. nextId + n - 1 /\ \A i \in DOMAIN f : f[i] \in Topics
    BY <1>3 DEF NewRows
  <2>2. n \in Nat
    BY DEF OutboxAssumption
  <2>3. Cardinality(DOMAIN f) = n /\ DOMAIN f \subseteq Ids /\ nextId + n \in 1 .. MaxRows + 1
    BY <1>3, <2>1, <2>2, InsertedRows
  <2> QED BY <1>3, <2>1, <2>3 DEF BatchWrite, Insert, Step
<1>4. ASSUME NEW t \in Topics, SilentWrite(t)
      PROVE  TypeOK'
  <2> DEFINE f == [i \in {nextId} |-> t]
  <2>1. /\ DOMAIN f = {nextId} /\ DOMAIN f \subseteq Ids /\ Cardinality(DOMAIN f) = 1
        /\ nextId + 1 \in 1 .. MaxRows + 1
    BY <1>4, InsertedRow DEF SilentWrite
  <2>2. \A i \in DOMAIN f : f[i] = t
    BY <2>1
  <2>3. Insert(f, NoRequest)
    BY <1>4 DEF SilentWrite
  <2> HIDE DEF f
  <2> QED BY <1>4, <2>1, <2>2, <2>3 DEF SilentWrite, Insert
<1>5. ASSUME NEW q \in Requests, PublishRecord(q)
      PROVE  TypeOK'
  <2>1. (\E t : Delivered(OwnRow(q), t)) \/ UNCHANGED <<published, sent>>
    BY <1>5 DEF PublishRecord
  <2>2. published' \in [Ids -> Nat] /\ sent' \in [Topics -> Nat]
    BY <2>1, DeliveredType
  <2> QED BY <1>5, <2>2 DEF PublishRecord, Step
<1>6. ASSUME NEW q \in Requests, EnqueueWebhooks(q)
      PROVE  TypeOK'
  <2>1. enqueued' \in [Ids -> Nat]
    <3>1. enqueued' = enqueued \/ enqueued' = [enqueued EXCEPT ![OwnRow(q)] = @ + 1]
      BY <1>6 DEF EnqueueWebhooks
    <3> QED BY <3>1, EnqueuedType
  <2>2. owed' \in [Requests -> SUBSET Ids]
    <3>1. owed' = owed \/ owed' = [owed EXCEPT ![q] = owed[q] \ {OwnRow(q)}]
      BY <1>6 DEF EnqueueWebhooks
    <3> QED BY <3>1
  <2>3. pc' \in [Requests -> InFlight \cup {"idle", "done", "unmarked", "crashed"}]
    <3>1. \E to \in {"lookup", "done", "publish"} : pc' = [pc EXCEPT ![q] = to]
      BY <1>6 DEF EnqueueWebhooks
    <3> QED BY <3>1
  <2> QED BY <1>6, <2>1, <2>2, <2>3 DEF EnqueueWebhooks
<1>7. ASSUME NEW q \in Requests, LatestOutboxID(q)
      PROVE  TypeOK'
  <2>1. found' \in [Requests -> Ids \cup {0}]
    <3>1. CASE UNCHANGED found
      BY <3>1
    <3>2. CASE /\ Matching(q) # {}
               /\ found' = [found EXCEPT ![q] = Max(Matching(q))]
      <4>1. Max(Matching(q)) \in Ids
        BY <3>2, LatestMatches DEF Unmarked
      <4> QED BY <3>2, <4>1
    <3> QED BY <1>7, <3>1, <3>2 DEF LatestOutboxID
  <2>2. PICK to \in {"mark", "done", "unmarked"} : Step(q, "lookup", to)
    BY <1>7 DEF LatestOutboxID
  <2>3. pc' \in [Requests -> InFlight \cup {"idle", "done", "unmarked", "crashed"}]
    BY <2>2 DEF Step
  <2> QED BY <1>7, <2>1, <2>3 DEF LatestOutboxID
<1>8. ASSUME NEW q \in Requests, MarkDelivered(q)
      PROVE  TypeOK'
  BY <1>8 DEF MarkDelivered, Step, MarkOutboxPublished
<1>9. ASSUME NEW i \in Ids, Age(i)
      PROVE  TypeOK'
  <2>1. aged' = [aged EXCEPT ![i] = TRUE]
        /\ UNCHANGED <<nextId, topic, status, attempts, reqs, lock, sweeps, history>>
    BY <1>9 DEF Age
  <2>2. aged' \in [Ids -> BOOLEAN]
    BY <2>1
  <2> QED BY <2>1, <2>2
<1>10. ASSUME NEW r \in Replicas, TryLock(r)
       PROVE  TypeOK'
  BY <1>10 DEF TryLock, SweepStep
<1>11. ASSUME NEW r \in Replicas, Claim(r)
       PROVE  TypeOK'
  BY <1>11 DEF Claim, SweepStep, Claimable, Due, OutboxAssumption
<1>12. ASSUME NEW r \in Replicas, ClaimFails(r)
       PROVE  TypeOK'
  BY <1>12 DEF ClaimFails, SweepStep
<1>13. ASSUME NEW r \in Replicas, SweepEnqueueFails(r)
       PROVE  TypeOK'
  <2>1. failed' \in [Replicas -> SUBSET Ids]
    <3>1. current[r] \in Ids
      BY <1>13 DEF SweepEnqueueFails, SweepStep, SweepInv, SweepOK
    <3> QED BY <1>13, <3>1 DEF SweepEnqueueFails
  <2>2. todo' \in [Replicas -> SUBSET Ids]
    BY <1>13 DEF SweepEnqueueFails
  <2> QED BY <1>13, <2>1, <2>2 DEF SweepEnqueueFails, SweepStep
<1>14. ASSUME NEW r \in Replicas, SweepPublish(r)
       PROVE  TypeOK'
  <2>1. PICK i \in todo[r] : /\ current' = [current EXCEPT ![r] = i]
                             /\ Delivered(i, topic[i])
    BY <1>14 DEF SweepPublish
  <2>2. i \in Ids
    BY <2>1
  <2>3. published' \in [Ids -> Nat] /\ sent' \in [Topics -> Nat]
    BY <2>1, DeliveredType
  <2> QED BY <1>14, <2>1, <2>2, <2>3 DEF SweepPublish, SweepStep
<1>15. ASSUME NEW r \in Replicas, SweepEnqueue(r)
       PROVE  TypeOK'
  BY <1>15, EnqueuedType DEF SweepEnqueue, SweepStep
<1>16. ASSUME NEW r \in Replicas, SweepMark(r)
       PROVE  TypeOK'
  <2>1. /\ status' \in [Ids -> {"none", "pending", "published", "pruned"}]
        /\ marker' \in [Ids -> {"nobody", "request", "sweep"}]
    BY <1>16, MarkType DEF SweepMark
  <2> QED BY <1>16, <2>1 DEF SweepMark, SweepStep
<1>17. ASSUME NEW r \in Replicas, BatchDone(r)
       PROVE  TypeOK'
  BY <1>17 DEF BatchDone
<1>18. ASSUME NEW r \in Replicas, PruneAndUnlock(r)
       PROVE  TypeOK'
  BY <1>18 DEF PruneAndUnlock, SweepStep
<1>19. ASSUME NEW r \in Replicas, Crash(r)
       PROVE  TypeOK'
  BY <1>19 DEF Crash, OutboxAssumption
<1>20. CASE LockLost
  BY <1>20 DEF LockLost
<1>21. CASE UNCHANGED vars
  BY <1>21 DEF vars
<1> QED
  BY <1>1, <1>2, <1>3, <1>4, <1>5, <1>6, <1>7, <1>8, <1>9, <1>10, <1>11, <1>12,
     <1>13, <1>14, <1>15, <1>16, <1>17, <1>18, <1>19, <1>20, <1>21
     DEF Next, RequestStep, SweeperStep

------------------------------------------------------------------------------
(* How a step can change the rows *)

\* n rows with topics f appear at the end of the sequence.
Inserted(n, f, w) ==
  /\ n \in Nat /\ nextId + n <= MaxRows + 1
  /\ DOMAIN f = nextId .. nextId + n - 1
  /\ DOMAIN f \subseteq Ids
  /\ Cardinality(DOMAIN f) = n
  /\ \A i \in DOMAIN f : f[i] \in Topics
  /\ Insert(f, w)

\* Rows only move from pending to published to pruned.
RowsKept ==
  /\ UNCHANGED <<nextId, topic, writer>>
  /\ \A i \in Ids :
       /\ \/ status'[i] = status[i]
          \/ status[i] = "pending" /\ status'[i] = "published"
          \/ status[i] = "published" /\ status'[i] = "pruned"
       /\ aged'[i] = aged[i] \/ Pending(i)

LEMMA RecordInserted ==
  ASSUME OutboxAssumption, TypeOK, NEW q \in Requests, NEW t \in Topics, RecordWrite(q, t)
  PROVE  Inserted(1, [i \in {nextId} |-> t], q)
<1> DEFINE f == [i \in {nextId} |-> t]
<1>1. nextId \in Ids /\ Insert(f, q)
  BY DEF RecordWrite
<1>2. /\ DOMAIN f = {nextId} /\ DOMAIN f \subseteq Ids /\ Cardinality(DOMAIN f) = 1
      /\ nextId + 1 \in 1 .. MaxRows + 1
  BY <1>1, InsertedRow
<1>3. DOMAIN f = nextId .. nextId + 1 - 1 /\ nextId + 1 <= MaxRows + 1
  BY <1>1, <1>2 DEF Ids, OutboxAssumption
<1>4. \A i \in DOMAIN f : f[i] \in Topics
  BY <1>2
<1> HIDE DEF f
<1> QED BY <1>1, <1>2, <1>3, <1>4 DEF Inserted, f

LEMMA SilentInserted ==
  ASSUME OutboxAssumption, TypeOK, NEW t \in Topics, SilentWrite(t)
  PROVE  Inserted(1, [i \in {nextId} |-> t], NoRequest)
<1> DEFINE f == [i \in {nextId} |-> t]
<1>1. nextId \in Ids /\ Insert(f, NoRequest)
  BY DEF SilentWrite
<1>2. /\ DOMAIN f = {nextId} /\ DOMAIN f \subseteq Ids /\ Cardinality(DOMAIN f) = 1
      /\ nextId + 1 \in 1 .. MaxRows + 1
  BY <1>1, InsertedRow
<1>3. DOMAIN f = nextId .. nextId + 1 - 1 /\ nextId + 1 <= MaxRows + 1
  BY <1>1, <1>2 DEF Ids, OutboxAssumption
<1>4. \A i \in DOMAIN f : f[i] \in Topics
  BY <1>2
<1> HIDE DEF f
<1> QED BY <1>1, <1>2, <1>3, <1>4 DEF Inserted, f

LEMMA BatchInserted ==
  ASSUME OutboxAssumption, TypeOK, NEW q \in Requests, NEW n \in 1 .. MaxBatchOps,
         nextId + n <= MaxRows + 1, NEW f \in NewRows(n), BatchWrite(q, f)
  PROVE  Inserted(n, f, q)
<1>1. DOMAIN f = nextId .. nextId + n - 1 /\ \A i \in DOMAIN f : f[i] \in Topics
  BY DEF NewRows
<1>2. n \in Nat
  BY DEF OutboxAssumption
<1>3. Cardinality(DOMAIN f) = n /\ DOMAIN f \subseteq Ids
  BY <1>1, <1>2, InsertedRows DEF TypeOK
<1> QED BY <1>1, <1>2, <1>3 DEF Inserted, BatchWrite

\* New rows take ids nobody has used; the rest of the table stays.
LEMMA InsertFacts ==
  ASSUME OutboxAssumption, TypeOK, RowsInv, NEW n, NEW f, NEW w, Inserted(n, f, w)
  PROVE  /\ nextId' = nextId + n
         /\ UNCHANGED aged
         /\ \A i \in Ids : i \in DOMAIN f <=> nextId <= i /\ i < nextId + n
         /\ \A i \in DOMAIN f :
              /\ i \in Ids /\ topic[i] = NoTopic /\ status[i] = "none"
              /\ topic'[i] = f[i] /\ status'[i] = "pending" /\ writer'[i] = w
         /\ \A i \in Ids \ DOMAIN f :
              topic'[i] = topic[i] /\ status'[i] = status[i] /\ writer'[i] = writer[i]
<1>1. nextId \in Nat /\ n \in Nat /\ \A i \in Ids : i \in Nat
  BY DEF Inserted, TypeOK, Ids, OutboxAssumption
<1>2. \A i \in Ids : i \in DOMAIN f <=> nextId <= i /\ i < nextId + n
  BY <1>1 DEF Inserted
<1>3. \A i \in DOMAIN f : i \in Ids /\ topic[i] = NoTopic /\ status[i] = "none"
  BY <1>1, <1>2 DEF Inserted, RowsInv
<1> QED BY <1>2, <1>3 DEF Inserted, Insert

LEMMA InsertStep ==
  ASSUME OutboxAssumption, TypeOK, RowsInv, OnceInv, NEW n, NEW f, NEW w, Inserted(n, f, w)
  PROVE  RowsInv' /\ OnceInv'
<1>1. nextId \in Nat /\ n \in Nat /\ \A i \in Ids : i \in Nat
  BY DEF Inserted, TypeOK, Ids, OutboxAssumption
<1>2. RowsInv'
  <2> SUFFICES ASSUME NEW i \in Ids
               PROVE  /\ i < nextId' <=> status'[i] # "none"
                      /\ i < nextId' <=> topic'[i] # NoTopic
                      /\ status'[i] = "none" => ~aged'[i]
    BY DEF RowsInv, Ids
  <2>1. CASE i \in DOMAIN f
    <3>1. f[i] # NoTopic
      BY <2>1 DEF Inserted, Topics, OutboxAssumption
    <3> QED BY <1>1, <2>1, <3>1, InsertFacts
  <2>2. CASE i \notin DOMAIN f
    <3>1. i < nextId' <=> i < nextId
      BY <1>1, <2>2, InsertFacts
    <3> QED BY <2>2, <3>1, InsertFacts DEF RowsInv
  <2> QED BY <2>1, <2>2
<1>3. OnceInv'
  <2> SUFFICES ASSUME NEW i \in Ids, NEW j \in Ids,
                      topic'[i] \in OnceTopics, topic'[i] = topic'[j]
               PROVE  i = j
    BY DEF OnceInv, Ids
  <2>1. \A k \in DOMAIN f : f[k] \in OnceTopics =>
          \A l \in Ids : topic[l] # f[k] /\ (l \in DOMAIN f /\ l # k => f[l] # f[k])
    BY DEF Inserted, Insert
  <2> QED BY <2>1, InsertFacts DEF OnceInv
<1> QED BY <1>2, <1>3

\* A step appends rows or keeps them.
LEMMA RowChange ==
  ASSUME OutboxAssumption, TypeOK, SweepInv, [Next]_vars
  PROVE  RowsKept \/ \E n, f, w : Inserted(n, f, w)
<1> USE DEF RowsKept, rows, reqs, sweeps, history
<1>1. ASSUME NEW q \in Requests, NEW t \in Topics, RecordWrite(q, t)
      PROVE  \E n, f, w : Inserted(n, f, w)
  BY <1>1, RecordInserted
<1>2. ASSUME NEW q \in Requests, NEW n \in 1 .. MaxBatchOps, nextId + n <= MaxRows + 1,
             NEW f \in NewRows(n), BatchWrite(q, f)
      PROVE  Inserted(n, f, q)
  BY <1>2, BatchInserted
<1>3. ASSUME NEW t \in Topics, SilentWrite(t)
      PROVE  \E n, f, w : Inserted(n, f, w)
  BY <1>3, SilentInserted
<1>4. ASSUME NEW i \in Ids, Age(i)
      PROVE  RowsKept
  BY <1>4 DEF Age, TypeOK
<1>5. ASSUME NEW i, NEW who, MarkOutboxPublished(i, who), UNCHANGED <<nextId, topic, writer, aged>>
      PROVE  RowsKept
  BY <1>5 DEF MarkOutboxPublished, Pending, TypeOK
<1>6. ASSUME NEW q \in Requests, MarkDelivered(q)
      PROVE  RowsKept
  BY <1>5, <1>6 DEF MarkDelivered
<1>7. ASSUME NEW r \in Replicas, SweepMark(r)
      PROVE  RowsKept
  BY <1>5, <1>7 DEF SweepMark
<1>8. ASSUME NEW r \in Replicas, PruneAndUnlock(r)
      PROVE  RowsKept
  BY <1>8 DEF PruneAndUnlock, TypeOK
<1>9. ASSUME UNCHANGED <<nextId, topic, status, aged, writer>>
      PROVE  RowsKept
  BY <1>9
<1>10. ASSUME NEW r \in Replicas, Claim(r)
       PROVE  RowsKept
  BY <1>9, <1>10 DEF Claim
<1>11. ASSUME NEW q \in Requests, PublishRecord(q) \/ EnqueueWebhooks(q) \/ LatestOutboxID(q)
       PROVE  RowsKept
  BY <1>9, <1>11 DEF PublishRecord, EnqueueWebhooks, LatestOutboxID
<1>12. ASSUME NEW r \in Replicas,
              \/ TryLock(r) \/ SweepPublish(r) \/ SweepEnqueue(r) \/ BatchDone(r)
              \/ ClaimFails(r) \/ SweepEnqueueFails(r) \/ Crash(r)
       PROVE  RowsKept
  BY <1>9, <1>12 DEF TryLock, SweepPublish, SweepEnqueue, BatchDone, ClaimFails,
                     SweepEnqueueFails, Crash
<1>13. ASSUME NEW q \in Requests, NEW t \in Topics, NoopUpdate(q, t)
       PROVE  RowsKept
  BY <1>9, <1>13 DEF NoopUpdate
<1>14. CASE LockLost \/ UNCHANGED vars
  BY <1>9, <1>14 DEF LockLost, vars
<1> QED
  BY <1>1, <1>2, <1>3, <1>4, <1>6, <1>7, <1>8, <1>10, <1>11, <1>12, <1>13, <1>14
     DEF Next, RequestStep, SweeperStep

\* Rows keep their ids and their topics.
LEMMA RowsStep ==
  ASSUME OutboxAssumption, TypeOK, RowsInv, OnceInv, SweepInv, [Next]_vars
  PROVE  /\ RowsInv' /\ OnceInv'
         /\ \A i \in Ids : topic[i] # NoTopic => topic'[i] = topic[i] /\ writer'[i] = writer[i]
<1>1. CASE RowsKept
  <2>1. \A i \in Ids : /\ topic'[i] = topic[i] /\ writer'[i] = writer[i]
                       /\ status'[i] = "none" <=> status[i] = "none"
                       /\ status'[i] = "none" => aged'[i] = aged[i]
    BY <1>1 DEF RowsKept, Pending
  <2>2. RowsInv'
    BY <1>1, <2>1 DEF RowsKept, RowsInv, Ids
  <2>3. OnceInv'
    BY <1>1, <2>1 DEF OnceInv, Ids
  <2> QED BY <2>1, <2>2, <2>3
<1>2. ASSUME NEW n, NEW f, NEW w, Inserted(n, f, w)
      PROVE  /\ RowsInv' /\ OnceInv'
             /\ \A i \in Ids : topic[i] # NoTopic =>
                  topic'[i] = topic[i] /\ writer'[i] = writer[i]
  BY <1>2, InsertStep, InsertFacts
<1> QED BY <1>1, <1>2, RowChange

\* Only a handler and a sweep publish.
LEMMA PublishedByPublish ==
  ASSUME TypeOK, [Next]_vars
  PROVE  \/ \E q \in Requests : PublishRecord(q)
         \/ \E r \in Replicas : SweepPublish(r)
         \/ published' = published
<1> USE DEF rows, reqs, sweeps, history
<1>1. ASSUME NEW q \in Requests,
             EnqueueWebhooks(q) \/ LatestOutboxID(q) \/ MarkDelivered(q)
      PROVE  published' = published
  BY <1>1 DEF EnqueueWebhooks, LatestOutboxID, MarkDelivered
<1>2. ASSUME NEW q \in Requests, NEW t \in Topics,
             RecordWrite(q, t) \/ NoopUpdate(q, t) \/ SilentWrite(t)
      PROVE  published' = published
  BY <1>2 DEF RecordWrite, NoopUpdate, SilentWrite
<1>3. ASSUME NEW q \in Requests, NEW f, BatchWrite(q, f)
      PROVE  published' = published
  BY <1>3 DEF BatchWrite
<1>4. ASSUME NEW r \in Replicas,
             \/ TryLock(r) \/ Claim(r) \/ SweepEnqueue(r) \/ SweepMark(r) \/ BatchDone(r)
             \/ PruneAndUnlock(r) \/ ClaimFails(r) \/ SweepEnqueueFails(r) \/ Crash(r)
      PROVE  published' = published
  BY <1>4 DEF TryLock, Claim, SweepEnqueue, SweepMark, BatchDone, PruneAndUnlock,
              ClaimFails, SweepEnqueueFails, Crash
<1>5. CASE LockLost \/ (\E i \in Ids : Age(i)) \/ (\E t \in Topics : SilentWrite(t)) \/ UNCHANGED vars
  BY <1>5 DEF LockLost, Age, SilentWrite, vars
<1> QED
  BY <1>1, <1>2, <1>3, <1>4, <1>5 DEF Next, RequestStep, SweeperStep

\* What has been published stays published.
LEMMA PublishedGrows ==
  ASSUME TypeOK, [Next]_vars
  PROVE  \A i \in Ids : published[i] > 0 => published'[i] > 0
<1> USE DEF rows, reqs, sweeps, history
<1>1. ASSUME NEW i, NEW t, Delivered(i, t)
      PROVE  \A j \in Ids : published[j] > 0 => published'[j] > 0
  <2>1. \A j \in Ids : published[j] \in Nat
    BY DEF TypeOK
  <2> QED BY <1>1, <2>1 DEF Delivered, TypeOK
<1>2. ASSUME UNCHANGED published
      PROVE  \A j \in Ids : published[j] > 0 => published'[j] > 0
  BY <1>2
<1>3. ASSUME NEW q \in Requests, PublishRecord(q)
      PROVE  (\E i, t : Delivered(i, t)) \/ UNCHANGED published
  BY <1>3 DEF PublishRecord
<1>4. ASSUME NEW r \in Replicas, SweepPublish(r)
      PROVE  \E i, t : Delivered(i, t)
  BY <1>4 DEF SweepPublish
<1> QED BY <1>1, <1>2, <1>3, <1>4, PublishedByPublish

------------------------------------------------------------------------------
(* Handlers *)

\* A handler that does not move stays as it was.
LEMMA HandlerStable ==
  ASSUME OutboxAssumption, TypeOK, NEW q \in Requests, HandlerOK(q),
         kind'[q] = kind[q], about'[q] = about[q], owed'[q] = owed[q], found'[q] = found[q],
         pc'[q] = pc[q] \/ (pc[q] # "idle" /\ pc'[q] = "crashed"),
         \A i \in Ids : topic[i] # NoTopic => topic'[i] = topic[i],
         \A i \in Ids : published[i] > 0 => published'[i] > 0
  PROVE  HandlerOK(q)'
<1>1. NoTopic \notin Topics /\ NoTopic \notin OnceTopics
  BY DEF OutboxAssumption, Topics
<1>2. ASSUME pc'[q] = "mark"
      PROVE  found'[q] \in Ids /\ topic'[found'[q]] = about'[q]
  BY <1>1, <1>2 DEF HandlerOK
<1>3. ASSUME pc'[q] # "idle", kind'[q] = "record", about'[q] \in OnceTopics
      PROVE  \E i \in Ids : /\ owed'[q] = {i}
                            /\ topic'[i] = about'[q]
                            /\ pc'[q] \in {"enqueue", "lookup", "mark"} => published'[i] > 0
  BY <1>1, <1>3 DEF HandlerOK
<1>4. /\ pc'[q] = "lookup" => kind'[q] # "batch"
      /\ pc'[q] = "mark" => kind'[q] = "record"
  BY DEF HandlerOK
<1>5. pc'[q] # "idle" /\ kind'[q] = "record" => about'[q] \in Topics
  BY DEF HandlerOK
<1> QED BY <1>2, <1>3, <1>4, <1>5 DEF HandlerOK, Ids

\* A handler moves as its invariant says.
LEMMA HandlerStep ==
  ASSUME OutboxAssumption, TypeOK, RowsInv, OnceInv, SweepInv, HandlerInv, [Next]_vars
  PROVE  HandlerInv'
<1> SUFFICES ASSUME NEW q \in Requests
             PROVE  HandlerOK(q)'
  BY DEF HandlerInv
<1> USE DEF rows, reqs, sweeps, history
<1>1. HandlerOK(q)
  BY DEF HandlerInv
<1>2. \A i \in Ids : topic[i] # NoTopic => topic'[i] = topic[i]
  BY RowsStep
<1>3. \A i \in Ids : published[i] > 0 => published'[i] > 0
  BY PublishedGrows
<1>4. NoTopic \notin Topics /\ NoTopic \notin OnceTopics
  BY DEF OutboxAssumption, Topics
<1>5. ASSUME kind'[q] = kind[q], about'[q] = about[q], owed'[q] = owed[q], found'[q] = found[q],
             pc'[q] = pc[q] \/ (pc[q] # "idle" /\ pc'[q] = "crashed")
      PROVE  HandlerOK(q)'
  BY <1>1, <1>2, <1>3, <1>5, HandlerStable
<1>6. ASSUME NEW t \in Topics, RecordWrite(q, t)
      PROVE  HandlerOK(q)'
  <2>1. Inserted(1, [i \in {nextId} |-> t], q)
    BY <1>6, RecordInserted
  <2>2. nextId \in Ids /\ topic'[nextId] = t
    BY <1>6, <2>1, InsertFacts DEF RecordWrite
  <2>3. pc'[q] = "publish" /\ about'[q] = t /\ owed'[q] = {nextId}
    BY <1>6 DEF RecordWrite, Step, TypeOK
  <2> QED BY <2>2, <2>3 DEF HandlerOK, Ids
<1>7. ASSUME NEW t \in Topics, NoopUpdate(q, t)
      PROVE  HandlerOK(q)'
  <2>1. t \notin OnceTopics
    BY <1>7 DEF NoopUpdate, OutboxAssumption
  <2>2. pc'[q] = "publish" /\ about'[q] = t
    BY <1>7 DEF NoopUpdate, Step, TypeOK
  <2> QED BY <2>1, <2>2 DEF HandlerOK
<1>8. ASSUME NEW f, BatchWrite(q, f)
      PROVE  HandlerOK(q)'
  <2>1. pc'[q] = "publish" /\ kind'[q] = "batch"
    BY <1>8 DEF BatchWrite, Step, TypeOK
  <2> QED BY <2>1 DEF HandlerOK
<1>9. ASSUME PublishRecord(q)
      PROVE  HandlerOK(q)'
  <2>1. /\ pc[q] = "publish" /\ pc'[q] = "enqueue"
        /\ UNCHANGED <<topic, kind, about, owed>>
    BY <1>9 DEF PublishRecord, Step, TypeOK
  <2>2. ASSUME kind[q] = "record", about[q] \in OnceTopics
        PROVE  \E i \in Ids : owed[q] = {i} /\ topic[i] = about[q] /\ published'[i] > 0
    <3>1. PICK i \in Ids : owed[q] = {i} /\ topic[i] = about[q]
      BY <1>1, <2>1, <2>2 DEF HandlerOK
    <3>2. OwnRow(q) = i
      BY <3>1, OwnRowType
    <3>3. published' = [published EXCEPT ![i] = @ + 1]
      <4>1. i # 0
        BY DEF Ids, OutboxAssumption
      <4> QED BY <1>9, <2>2, <3>2, <4>1 DEF PublishRecord, Delivered
    <3>4. published[i] \in Nat
      BY DEF TypeOK
    <3> QED BY <3>1, <3>3, <3>4 DEF TypeOK
  <2> QED BY <1>1, <2>1, <2>2 DEF HandlerOK, Ids
<1>10. ASSUME EnqueueWebhooks(q)
       PROVE  HandlerOK(q)'
  <2>1. UNCHANGED <<topic, kind, about, published>> /\ pc[q] = "enqueue"
    BY <1>10 DEF EnqueueWebhooks
  <2>2. CASE kind[q] \in {"record", "respelled"}
    <3>1. pc' = [pc EXCEPT ![q] = "lookup"] /\ owed' = owed
      BY <1>10, <2>2 DEF EnqueueWebhooks
    <3>2. pc'[q] = "lookup"
      BY <3>1 DEF TypeOK
    <3> QED BY <1>1, <2>1, <2>2, <3>1, <3>2 DEF HandlerOK, Ids
  <2>3. CASE kind[q] = "batch"
    <3>1. \E to \in {"done", "publish"} : pc' = [pc EXCEPT ![q] = to]
      BY <1>10, <2>3 DEF EnqueueWebhooks
    <3>2. pc'[q] \in {"done", "publish"}
      BY <3>1 DEF TypeOK
    <3> QED BY <2>1, <2>3, <3>2 DEF HandlerOK
  <2> QED BY <2>2, <2>3 DEF TypeOK
<1>11. ASSUME LatestOutboxID(q)
       PROVE  HandlerOK(q)'
  <2>1. /\ UNCHANGED <<topic, kind, about, owed, published>>
        /\ pc[q] = "lookup" /\ kind[q] # "batch"
    BY <1>1, <1>11 DEF LatestOutboxID, Step, HandlerOK
  <2>2. CASE /\ Matching(q) # {}
             /\ Step(q, "lookup", "mark")
             /\ found' = [found EXCEPT ![q] = Max(Matching(q))]
    <3>1. found'[q] = Max(Matching(q))
      BY <2>2 DEF TypeOK
    <3>2. found'[q] \in Ids /\ topic[found'[q]] = about[q]
      BY <2>2, <3>1, LatestMatches DEF Unmarked
    <3>3. pc'[q] = "mark" /\ kind[q] = "record"
      BY <2>1, <2>2, LatestMatches DEF Step, TypeOK
    <3> QED BY <1>1, <2>1, <3>2, <3>3 DEF HandlerOK, Ids
  <2>3. CASE Step(q, "lookup", "done") \/ Step(q, "lookup", "unmarked")
    <3>1. pc'[q] \in {"done", "unmarked"}
      BY <2>3 DEF Step, TypeOK
    <3> QED BY <1>1, <2>1, <3>1 DEF HandlerOK, Ids
  <2> QED BY <1>11, <2>2, <2>3 DEF LatestOutboxID
<1>12. ASSUME MarkDelivered(q)
       PROVE  HandlerOK(q)'
  <2>1. /\ UNCHANGED <<topic, kind, about, owed, published>>
        /\ pc[q] = "mark" /\ pc'[q] \in {"done", "unmarked"}
    BY <1>12 DEF MarkDelivered, Step, TypeOK
  <2> QED BY <1>1, <2>1 DEF HandlerOK, Ids
<1>13. ASSUME NEW p \in Requests, p # q, NEW t \in Topics,
              RecordWrite(p, t) \/ NoopUpdate(p, t) \/ RequestStep(p)
       PROVE  HandlerOK(q)'
  <2>1. /\ kind'[q] = kind[q] /\ about'[q] = about[q] /\ owed'[q] = owed[q]
        /\ found'[q] = found[q] /\ pc'[q] = pc[q]
    BY <1>13 DEF RecordWrite, NoopUpdate, RequestStep, PublishRecord, EnqueueWebhooks,
                 LatestOutboxID, MarkDelivered, Step, TypeOK
  <2> QED BY <1>5, <2>1
<1>14. ASSUME NEW p \in Requests, p # q, NEW f, BatchWrite(p, f)
       PROVE  HandlerOK(q)'
  <2>1. /\ kind'[q] = kind[q] /\ about'[q] = about[q] /\ owed'[q] = owed[q]
        /\ found'[q] = found[q] /\ pc'[q] = pc[q]
    BY <1>14 DEF BatchWrite, Step, TypeOK
  <2> QED BY <1>5, <2>1
<1>15. ASSUME NEW r \in Replicas, Crash(r)
       PROVE  HandlerOK(q)'
  <2>1. /\ kind'[q] = kind[q] /\ about'[q] = about[q] /\ owed'[q] = owed[q]
        /\ found'[q] = found[q]
        /\ pc'[q] = pc[q] \/ (pc[q] # "idle" /\ pc'[q] = "crashed")
    BY <1>15 DEF Crash, InFlight
  <2> QED BY <1>5, <2>1
<1>16. ASSUME UNCHANGED reqs
       PROVE  HandlerOK(q)'
  BY <1>5, <1>16
<1>17. ASSUME NEW r \in Replicas, SweeperStep(r) \/ ClaimFails(r) \/ SweepEnqueueFails(r)
       PROVE  UNCHANGED reqs
  BY <1>17 DEF SweeperStep, TryLock, Claim, SweepPublish, SweepEnqueue, SweepMark, BatchDone,
               PruneAndUnlock, ClaimFails, SweepEnqueueFails
<1>18. CASE LockLost \/ (\E i \in Ids : Age(i)) \/ (\E t \in Topics : SilentWrite(t)) \/ UNCHANGED vars
  BY <1>16, <1>18 DEF LockLost, Age, SilentWrite, vars
<1>19. CASE \E p \in Requests : RequestStep(p)
  <2>1. PICK p \in Requests : RequestStep(p)
    BY <1>19
  <2>2. CASE p = q
    BY <1>9, <1>10, <1>11, <1>12, <2>1, <2>2 DEF RequestStep
  <2>3. CASE p # q
    <3>1. /\ kind'[q] = kind[q] /\ about'[q] = about[q] /\ owed'[q] = owed[q]
          /\ found'[q] = found[q] /\ pc'[q] = pc[q]
      BY <2>1, <2>3 DEF RequestStep, PublishRecord, EnqueueWebhooks,
                        LatestOutboxID, MarkDelivered, Step, TypeOK
    <3> QED BY <1>5, <3>1
  <2> QED BY <2>2, <2>3
<1> QED
  BY <1>6, <1>7, <1>8, <1>13, <1>14, <1>15, <1>16, <1>17, <1>18, <1>19 DEF Next

------------------------------------------------------------------------------
(* Sweeps *)

LEMMA SweepStable ==
  ASSUME TypeOK, NEW r \in Replicas, SweepOK(r),
         sweep'[r] = sweep[r], todo'[r] = todo[r], failed'[r] = failed[r],
         current'[r] = current[r],
         \A i \in Ids : published[i] > 0 => published'[i] > 0
  PROVE  SweepOK(r)'
<1>1. ASSUME sweep[r] \in {"enqueue", "mark"}
      PROVE  current[r] \in todo[r] /\ published'[current[r]] > 0
  <2>1. current[r] \in todo[r] /\ published[current[r]] > 0
    BY <1>1 DEF SweepOK
  <2>2. current[r] \in Ids
    BY <2>1 DEF TypeOK
  <2> QED BY <2>1, <2>2
<1> QED BY <1>1 DEF SweepOK

\* A sweep goes on with what it claimed.
LEMMA SweepsStep ==
  ASSUME OutboxAssumption, TypeOK, SweepInv, [Next]_vars
  PROVE  SweepInv'
<1> SUFFICES ASSUME NEW r \in Replicas
             PROVE  SweepOK(r)'
  BY DEF SweepInv
<1> USE DEF rows, reqs, sweeps, history
<1>1. SweepOK(r)
  BY DEF SweepInv
<1>2. \A i \in Ids : published[i] > 0 => published'[i] > 0
  BY PublishedGrows
<1>3. ASSUME sweep'[r] = sweep[r], todo'[r] = todo[r], failed'[r] = failed[r],
             current'[r] = current[r]
      PROVE  SweepOK(r)'
  BY <1>1, <1>2, <1>3, SweepStable
<1>4. CASE TryLock(r)
  BY <1>1, <1>4 DEF TryLock, SweepStep, SweepOK, TypeOK
<1>5. CASE Claim(r)
  <2>1. /\ sweep[r] = "claim" /\ failed'[r] = failed[r] /\ todo'[r] = Claimable
        /\ sweep'[r] = IF Claimable = {} THEN "prune" ELSE "publish"
    BY <1>5 DEF Claim, SweepStep, TypeOK
  <2> QED BY <1>1, <2>1 DEF SweepOK
<1>6. CASE SweepPublish(r)
  <2>1. PICK i \in todo[r] : /\ current' = [current EXCEPT ![r] = i]
                             /\ Delivered(i, topic[i])
    BY <1>6 DEF SweepPublish
  <2>2. i \in Ids /\ i # 0
    BY <2>1 DEF TypeOK, Ids, OutboxAssumption
  <2>3. published'[i] > 0
    <3>1. published' = [published EXCEPT ![i] = @ + 1] /\ published[i] \in Nat
      BY <2>1, <2>2 DEF Delivered, TypeOK
    <3> QED BY <2>2, <3>1 DEF TypeOK
  <2>4. /\ sweep[r] = "publish" /\ sweep'[r] = "enqueue" /\ todo' = todo /\ failed' = failed
        /\ current'[r] = i
    BY <1>6, <2>1 DEF SweepPublish, SweepStep, TypeOK
  <2> QED BY <1>1, <2>1, <2>3, <2>4 DEF SweepOK
<1>7. CASE SweepEnqueue(r)
  BY <1>1, <1>7 DEF SweepEnqueue, SweepStep, SweepOK, TypeOK
<1>8. CASE SweepEnqueueFails(r)
  <2>1. /\ sweep'[r] = "publish" /\ todo'[r] = todo[r] \ {current[r]}
        /\ failed'[r] = failed[r] \cup {current[r]}
    BY <1>8 DEF SweepEnqueueFails, SweepStep, TypeOK
  <2> QED BY <1>1, <2>1 DEF SweepOK
<1>9. CASE SweepMark(r)
  <2>1. /\ sweep'[r] = "publish" /\ todo'[r] = todo[r] \ {current[r]} /\ failed' = failed
    BY <1>9 DEF SweepMark, SweepStep, TypeOK
  <2> QED BY <1>1, <2>1 DEF SweepOK
<1>10. CASE BatchDone(r)
  <2>1. PICK more \in BOOLEAN :
          sweep' = [sweep EXCEPT ![r] =
                      IF more /\ failed[r] = {} /\ batches[r] < MaxBatches
                      THEN "claim" ELSE "prune"]
    BY <1>10 DEF BatchDone
  <2>2. sweep'[r] = "prune" \/ (sweep'[r] = "claim" /\ failed[r] = {})
    BY <2>1 DEF TypeOK
  <2>3. todo[r] = {} /\ todo' = todo /\ failed' = failed
    BY <1>10 DEF BatchDone
  <2> QED BY <1>1, <2>2, <2>3 DEF SweepOK
<1>11. CASE PruneAndUnlock(r)
  <2>1. sweep[r] = "prune" /\ sweep'[r] = "idle" /\ todo' = todo /\ failed'[r] = {}
    BY <1>11 DEF PruneAndUnlock, SweepStep, TypeOK
  <2> QED BY <1>1, <2>1 DEF SweepOK
<1>12. CASE ClaimFails(r)
  BY <1>1, <1>12 DEF ClaimFails, SweepStep, SweepOK, TypeOK
<1>13. CASE Crash(r)
  BY <1>13 DEF Crash, SweepOK, TypeOK
<1>14. ASSUME NEW p \in Replicas, p # r, SweeperStep(p)
       PROVE  SweepOK(r)'
  <2>1. /\ sweep'[r] = sweep[r] /\ todo'[r] = todo[r] /\ failed'[r] = failed[r]
        /\ current'[r] = current[r]
    BY <1>14 DEF SweeperStep, TryLock, Claim, SweepPublish, SweepEnqueue, SweepMark, BatchDone,
                 PruneAndUnlock, SweepStep, TypeOK
  <2> QED BY <1>3, <2>1
<1>15. ASSUME NEW p \in Replicas, p # r, ClaimFails(p) \/ SweepEnqueueFails(p) \/ Crash(p)
       PROVE  SweepOK(r)'
  <2>1. /\ sweep'[r] = sweep[r] /\ todo'[r] = todo[r] /\ failed'[r] = failed[r]
        /\ current'[r] = current[r]
    BY <1>15 DEF ClaimFails, SweepEnqueueFails, Crash, SweepStep, TypeOK
  <2> QED BY <1>3, <2>1
<1>16. ASSUME UNCHANGED sweeps
       PROVE  SweepOK(r)'
  BY <1>3, <1>16
<1>17. ASSUME NEW q \in Requests, NEW t \in Topics,
              RecordWrite(q, t) \/ NoopUpdate(q, t) \/ SilentWrite(t)
       PROVE  UNCHANGED sweeps
  BY <1>17 DEF RecordWrite, NoopUpdate, SilentWrite
<1>18. ASSUME NEW q \in Requests, NEW f, BatchWrite(q, f)
       PROVE  UNCHANGED sweeps
  BY <1>18 DEF BatchWrite
<1>19. ASSUME NEW q \in Requests, RequestStep(q)
       PROVE  UNCHANGED sweeps
  BY <1>19 DEF RequestStep, PublishRecord, EnqueueWebhooks, LatestOutboxID, MarkDelivered
<1>20. CASE LockLost \/ (\E i \in Ids : Age(i)) \/ (\E t \in Topics : SilentWrite(t)) \/ UNCHANGED vars
  BY <1>16, <1>20 DEF LockLost, Age, SilentWrite, vars
<1> QED
  BY <1>4, <1>5, <1>6, <1>7, <1>8, <1>9, <1>10, <1>11, <1>12, <1>13, <1>14, <1>15, <1>16,
     <1>17, <1>18, <1>19, <1>20
     DEF Next, SweeperStep

\* A sweeping replica holds the advisory lock.
LEMMA LockStep ==
  ASSUME OutboxAssumption, TypeOK, LockInv, [Next]_vars
  PROVE  LockInv'
<1> SUFFICES ASSUME "lockLost" \notin Environment, NEW r \in Replicas, sweep'[r] # "idle"
             PROVE  lock' = r
  BY DEF LockInv
<1> USE DEF rows, reqs, sweeps, history
<1>1. \A p \in Replicas : sweep[p] # "idle" => lock = p
  BY DEF LockInv
<1>2. NoReplica \notin Replicas
  BY DEF OutboxAssumption
<1>3. ASSUME NEW p \in Replicas, TryLock(p)
      PROVE  lock' = r
  BY <1>1, <1>2, <1>3 DEF TryLock, SweepStep, TypeOK
<1>4. ASSUME NEW p \in Replicas, sweep[p] # "idle", lock' = lock,
             \E to : sweep' = [sweep EXCEPT ![p] = to]
      PROVE  lock' = r
  BY <1>1, <1>4 DEF TypeOK
<1>5. ASSUME NEW p \in Replicas,
             Claim(p) \/ ClaimFails(p) \/ SweepPublish(p) \/ SweepEnqueue(p) \/ SweepMark(p)
      PROVE  /\ sweep[p] # "idle" /\ lock' = lock
             /\ \E to : sweep' = [sweep EXCEPT ![p] = to]
  BY <1>5 DEF Claim, ClaimFails, SweepPublish, SweepEnqueue, SweepMark, SweepStep
<1>6. ASSUME NEW p \in Replicas, SweepEnqueueFails(p) \/ BatchDone(p)
      PROVE  /\ sweep[p] # "idle" /\ lock' = lock
             /\ \E to : sweep' = [sweep EXCEPT ![p] = to]
  BY <1>6 DEF SweepEnqueueFails, BatchDone, SweepStep
<1>7. ASSUME NEW p \in Replicas, PruneAndUnlock(p) \/ Crash(p)
      PROVE  lock' = r
  <2>1. /\ sweep' = [sweep EXCEPT ![p] = "idle"]
        /\ lock' = IF lock = p THEN NoReplica ELSE lock
    BY <1>7 DEF PruneAndUnlock, Crash, SweepStep
  <2>2. r # p /\ sweep[r] # "idle"
    BY <2>1 DEF TypeOK
  <2> QED BY <1>1, <2>1, <2>2
<1>8. ASSUME lock' = lock, sweep' = sweep
      PROVE  lock' = r
  BY <1>1, <1>8
<1>9. ASSUME NEW q \in Requests, NEW t \in Topics, RecordWrite(q, t) \/ NoopUpdate(q, t)
      PROVE  lock' = lock /\ sweep' = sweep
  BY <1>9 DEF RecordWrite, NoopUpdate
<1>10. ASSUME NEW q \in Requests, NEW f, BatchWrite(q, f)
       PROVE  lock' = lock /\ sweep' = sweep
  BY <1>10 DEF BatchWrite
<1>11. ASSUME NEW q \in Requests, RequestStep(q)
       PROVE  lock' = lock /\ sweep' = sweep
  BY <1>11 DEF RequestStep, PublishRecord, EnqueueWebhooks, LatestOutboxID, MarkDelivered
<1>12. CASE LockLost \/ (\E i \in Ids : Age(i)) \/ (\E t \in Topics : SilentWrite(t)) \/ UNCHANGED vars
  BY <1>8, <1>12 DEF LockLost, Age, SilentWrite, vars
<1> QED
  BY <1>3, <1>4, <1>5, <1>6, <1>7, <1>8, <1>9, <1>10, <1>11, <1>12 DEF Next, SweeperStep

------------------------------------------------------------------------------
(* Events of inserts and deletes *)

\* Whoever marks a row has published an event of its topic.
LEMMA MarkedIsPublished ==
  ASSUME OutboxAssumption, TypeOK, RowsInv, OnceInv, HandlerInv, SweepInv, [Next]_vars,
         NEW i \in Ids, topic[i] \in OnceTopics, Pending(i), status'[i] = "published"
  PROVE  published[i] > 0
<1> USE DEF rows, reqs, sweeps, history
<1>1. NoTopic \notin OnceTopics /\ status[i] = "pending"
  BY DEF OutboxAssumption, Topics, Pending
<1>2. ASSUME NEW q \in Requests, MarkDelivered(q)
      PROVE  published[i] > 0
  <2>1. pc[q] = "mark" /\ MarkOutboxPublished(found[q], "request")
    BY <1>1, <1>2 DEF MarkDelivered, Step
  <2>2. HandlerOK(q)
    BY DEF HandlerInv
  <2>3. found[q] = i
    BY <1>1, <2>1 DEF MarkOutboxPublished, TypeOK
  <2>4. about[q] = topic[i] /\ kind[q] = "record"
    BY <2>1, <2>2, <2>3 DEF HandlerOK
  <2>5. \E j \in Ids : topic[j] = about[q] /\ published[j] > 0
    BY <2>1, <2>2, <2>4 DEF HandlerOK
  <2> QED BY <2>4, <2>5 DEF OnceInv
<1>3. ASSUME NEW r \in Replicas, SweepMark(r)
      PROVE  published[i] > 0
  <2>1. sweep[r] = "mark" /\ MarkOutboxPublished(current[r], "sweep")
    BY <1>1, <1>3 DEF SweepMark, SweepStep
  <2>2. current[r] = i
    BY <1>1, <2>1 DEF MarkOutboxPublished, TypeOK
  <2> QED BY <2>1, <2>2 DEF SweepInv, SweepOK
<1>4. ASSUME NEW r \in Replicas, PruneAndUnlock(r)
      PROVE  FALSE
  <2>1. status'[i] \in {"pruned", status[i]}
    BY <1>4 DEF PruneAndUnlock
  <2> QED BY <1>1, <2>1
<1>5. ASSUME NEW n, NEW f, NEW w, Inserted(n, f, w)
      PROVE  FALSE
  <2>1. i \notin DOMAIN f /\ status'[i] = status[i]
    BY <1>1, <1>5, InsertFacts
  <2> QED BY <1>1, <2>1
<1>6. status' # status
  BY <1>1
<1>7. ASSUME NEW q \in Requests, NEW t \in Topics, RecordWrite(q, t)
      PROVE  FALSE
  BY <1>5, <1>7, RecordInserted
<1>8. ASSUME NEW q \in Requests, NEW n \in 1 .. MaxBatchOps, nextId + n <= MaxRows + 1,
             NEW f \in NewRows(n), BatchWrite(q, f)
      PROVE  FALSE
  BY <1>5, <1>8, BatchInserted
<1>9. ASSUME NEW t \in Topics, SilentWrite(t)
      PROVE  FALSE
  BY <1>5, <1>9, SilentInserted
<1>10. ASSUME NEW q \in Requests, PublishRecord(q) \/ EnqueueWebhooks(q) \/ LatestOutboxID(q)
       PROVE  status' = status
  BY <1>10 DEF PublishRecord, EnqueueWebhooks, LatestOutboxID
<1>11. ASSUME NEW r \in Replicas,
              \/ TryLock(r) \/ Claim(r) \/ SweepPublish(r) \/ SweepEnqueue(r) \/ BatchDone(r)
              \/ ClaimFails(r) \/ SweepEnqueueFails(r) \/ Crash(r)
       PROVE  status' = status
  BY <1>11 DEF TryLock, Claim, SweepPublish, SweepEnqueue, BatchDone, ClaimFails,
               SweepEnqueueFails, Crash
<1>12. ASSUME NEW q \in Requests, NEW t \in Topics, NoopUpdate(q, t)
       PROVE  status' = status
  BY <1>12 DEF NoopUpdate
<1>13. CASE LockLost \/ (\E j \in Ids : Age(j)) \/ UNCHANGED vars
  BY <1>6, <1>13 DEF LockLost, Age, vars
<1> QED
  BY <1>2, <1>3, <1>4, <1>6, <1>7, <1>8, <1>9, <1>10, <1>11, <1>12, <1>13
     DEF Next, RequestStep, SweeperStep

LEMMA NeverLostStep ==
  ASSUME OutboxAssumption, TypeOK, RowsInv, OnceInv, HandlerInv, SweepInv,
         OnceEventNeverLost, [Next]_vars
  PROVE  OnceEventNeverLost'
<1> SUFFICES ASSUME NEW i \in Ids, topic'[i] \in OnceTopics, status'[i] \in {"published", "pruned"}
             PROVE  published'[i] > 0
  BY DEF OnceEventNeverLost, Settled, Ids
<1>1. published[i] > 0 => published'[i] > 0
  BY PublishedGrows
<1>2. CASE RowsKept
  <2>1. topic[i] = topic'[i] /\ \/ status'[i] = status[i]
                                \/ status[i] = "pending" /\ status'[i] = "published"
                                \/ status[i] = "published" /\ status'[i] = "pruned"
    BY <1>2 DEF RowsKept
  <2>2. CASE status[i] \in {"published", "pruned"}
    BY <1>1, <2>1, <2>2 DEF OnceEventNeverLost, Settled
  <2>3. CASE status[i] = "pending" /\ status'[i] = "published"
    BY <1>1, <2>1, <2>3, MarkedIsPublished DEF Pending
  <2> QED BY <2>1, <2>2, <2>3
<1>3. ASSUME NEW n, NEW f, NEW w, Inserted(n, f, w)
      PROVE  published'[i] > 0
  <2>1. i \notin DOMAIN f
    BY <1>3, InsertFacts
  <2>2. topic[i] = topic'[i] /\ status[i] = status'[i]
    BY <1>3, <2>1, InsertFacts
  <2> QED BY <1>1, <2>2 DEF OnceEventNeverLost, Settled
<1> QED BY <1>2, <1>3, RowChange
------------------------------------------------------------------------------
(* Who owns a row, and what a sweep claims *)

Timely == "slow" \notin Environment

\* Once a request has begun, it keeps its write, and once it has ended it rests.
LEMMA RequestMoves ==
  ASSUME OutboxAssumption, TypeOK, [Next]_vars, NEW q \in Requests, pc[q] # "idle"
  PROVE  /\ kind'[q] = kind[q] /\ about'[q] = about[q] /\ pc'[q] # "idle"
         /\ pc[q] \notin InFlight => pc'[q] = pc[q]
         /\ pc'[q] = "done" /\ pc[q] # "done" =>
              EnqueueWebhooks(q) \/ LatestOutboxID(q) \/ MarkDelivered(q)
<1> DEFINE Goal ==
      /\ kind'[q] = kind[q] /\ about'[q] = about[q] /\ pc'[q] # "idle"
      /\ pc[q] \notin InFlight => pc'[q] = pc[q]
      /\ pc'[q] = "done" /\ pc[q] # "done" =>
           EnqueueWebhooks(q) \/ LatestOutboxID(q) \/ MarkDelivered(q)
<1> SUFFICES Goal
  OBVIOUS
<1> USE DEF rows, reqs, sweeps, history
<1>1. ASSUME UNCHANGED reqs
      PROVE  Goal
  BY <1>1
<1>2. ASSUME NEW p \in Requests, NEW t \in Topics, RecordWrite(p, t) \/ NoopUpdate(p, t)
      PROVE  Goal
  <2>1. p # q
    BY <1>2 DEF RecordWrite, NoopUpdate, Step
  <2>2. kind'[q] = kind[q] /\ about'[q] = about[q] /\ pc'[q] = pc[q]
    BY <1>2, <2>1 DEF RecordWrite, NoopUpdate, Step, TypeOK
  <2> QED BY <2>2
<1>3. ASSUME NEW p \in Requests, NEW f, BatchWrite(p, f)
      PROVE  Goal
  <2>1. p # q
    BY <1>3 DEF BatchWrite, Step
  <2>2. kind'[q] = kind[q] /\ about'[q] = about[q] /\ pc'[q] = pc[q]
    BY <1>3, <2>1 DEF BatchWrite, Step, TypeOK
  <2> QED BY <2>2
<1>4. ASSUME NEW p \in Requests, RequestStep(p)
      PROVE  Goal
  <2>1. /\ kind' = kind /\ about' = about /\ pc[p] \in InFlight
        /\ \E to \in InFlight \cup {"done", "unmarked"} : pc' = [pc EXCEPT ![p] = to]
    <3>1. CASE PublishRecord(p)
      BY <3>1 DEF PublishRecord, Step, InFlight
    <3>2. CASE EnqueueWebhooks(p)
      BY <3>2 DEF EnqueueWebhooks, InFlight
    <3>3. CASE LatestOutboxID(p)
      BY <3>3 DEF LatestOutboxID, Step, InFlight
    <3>4. CASE MarkDelivered(p)
      BY <3>4 DEF MarkDelivered, Step, InFlight
    <3> QED BY <1>4, <3>1, <3>2, <3>3, <3>4 DEF RequestStep
  <2>2. PICK to \in InFlight \cup {"done", "unmarked"} : pc' = [pc EXCEPT ![p] = to]
    BY <2>1
  <2>3. CASE p = q
    <3>1. pc'[q] = to /\ to # "idle"
      BY <2>2, <2>3 DEF TypeOK, InFlight
    <3>2. PublishRecord(q) => to # "done"
      BY <3>1 DEF PublishRecord, Step, TypeOK
    <3> QED BY <1>4, <2>1, <2>3, <3>1, <3>2 DEF RequestStep
  <2>4. CASE p # q
    <3>1. pc'[q] = pc[q]
      BY <2>2, <2>4 DEF TypeOK
    <3> QED BY <2>1, <3>1
  <2> QED BY <2>3, <2>4
<1>5. ASSUME NEW r \in Replicas, Crash(r)
      PROVE  Goal
  <2>1. /\ kind' = kind /\ about' = about
        /\ pc'[q] = pc[q] \/ (pc[q] \in InFlight /\ pc'[q] = "crashed")
    BY <1>5 DEF Crash
  <2> QED BY <2>1
<1>6. ASSUME NEW r \in Replicas, SweeperStep(r) \/ ClaimFails(r) \/ SweepEnqueueFails(r)
      PROVE  UNCHANGED reqs
  BY <1>6 DEF SweeperStep, TryLock, Claim, SweepPublish, SweepEnqueue, SweepMark, BatchDone,
              PruneAndUnlock, ClaimFails, SweepEnqueueFails
<1>7. CASE LockLost \/ (\E i \in Ids : Age(i)) \/ (\E t \in Topics : SilentWrite(t)) \/ UNCHANGED vars
  BY <1>1, <1>7 DEF LockLost, Age, SilentWrite, vars
<1> QED
  BY <1>1, <1>2, <1>3, <1>4, <1>5, <1>6, <1>7 DEF Next

\* A handler that ends by "done" leaves its row settled.
LEMMA DoneIsSettled ==
  ASSUME OutboxAssumption, TypeOK, RowsInv, OnceInv, HandlerInv,
         NEW i \in Ids, topic[i] \in OnceTopics,
         NEW q \in Requests, kind[q] = "record", about[q] = topic[i], pc'[q] = "done",
         EnqueueWebhooks(q) \/ LatestOutboxID(q) \/ MarkDelivered(q)
  PROVE  Settled(i)'
<1> USE DEF rows, reqs, sweeps, history
<1>1. status[i] \in {"pending", "published", "pruned"}
  BY DEF TypeOK, RowsInv, OutboxAssumption
<1>2. CASE EnqueueWebhooks(q)
  <2>1. pc' = [pc EXCEPT ![q] = "lookup"]
    BY <1>2 DEF EnqueueWebhooks
  <2> QED BY <2>1 DEF TypeOK
<1>3. CASE LatestOutboxID(q)
  <2>1. Matching(q) = {} \/ Step(q, "lookup", "mark") \/ Step(q, "lookup", "unmarked")
    BY <1>3 DEF LatestOutboxID
  <2>2. Matching(q) = {}
    BY <2>1 DEF Step, TypeOK
  <2>3. status' = status
    BY <1>3 DEF LatestOutboxID
  <2> QED BY <1>1, <2>2, <2>3 DEF Matching, Unmarked, Pending, Settled
<1>4. CASE MarkDelivered(q)
  <2>1. Step(q, "mark", "done") /\ MarkOutboxPublished(found[q], "request")
    BY <1>4 DEF MarkDelivered, Step, TypeOK
  <2>2. found[q] \in Ids /\ topic[found[q]] = topic[i]
    BY <2>1 DEF Step, HandlerInv, HandlerOK
  <2>3. found[q] = i
    BY <2>2 DEF OnceInv
  <2> QED BY <1>1, <2>1, <2>3 DEF MarkOutboxPublished, Pending, Settled, TypeOK
<1> QED BY <1>2, <1>3, <1>4

\* Only time ages a row.
LEMMA AgedByAge ==
  ASSUME TypeOK, [Next]_vars, NEW i, aged'[i], ~aged[i]
  PROVE  \E j \in Ids : Age(j)
<1> USE DEF rows, reqs, sweeps, history
<1>1. aged' # aged
  OBVIOUS
<1>2. ASSUME NEW q \in Requests, NEW t \in Topics, RecordWrite(q, t) \/ NoopUpdate(q, t)
      PROVE  aged' = aged
  BY <1>2 DEF RecordWrite, NoopUpdate, Insert
<1>3. ASSUME NEW q \in Requests, NEW f, BatchWrite(q, f)
      PROVE  aged' = aged
  BY <1>3 DEF BatchWrite, Insert
<1>4. ASSUME NEW q \in Requests, RequestStep(q)
      PROVE  aged' = aged
  BY <1>4 DEF RequestStep, PublishRecord, EnqueueWebhooks, LatestOutboxID, MarkDelivered
<1>5. ASSUME NEW r \in Replicas,
             SweeperStep(r) \/ ClaimFails(r) \/ SweepEnqueueFails(r) \/ Crash(r)
      PROVE  aged' = aged
  BY <1>5 DEF SweeperStep, TryLock, Claim, SweepPublish, SweepEnqueue, SweepMark, BatchDone,
              PruneAndUnlock, ClaimFails, SweepEnqueueFails, Crash
<1>6. LockLost \/ (\E t \in Topics : SilentWrite(t)) \/ UNCHANGED vars => aged' = aged
  BY DEF LockLost, SilentWrite, Insert, vars
<1> QED
  BY <1>1, <1>2, <1>3, <1>4, <1>5, <1>6 DEF Next

\* A new row has its writer.
LEMMA NewOwner ==
  ASSUME OutboxAssumption, TypeOK, RowsInv, SweepInv, [Next]_vars,
         NEW i \in Ids, topic[i] = NoTopic, topic'[i] # NoTopic, writer'[i] \in Requests
  PROVE  /\ pc'[writer'[i]] = "publish" /\ ~aged'[i]
         /\ kind'[writer'[i]] = "record" => about'[writer'[i]] = topic'[i]
<1> DEFINE Goal == /\ pc'[writer'[i]] = "publish" /\ ~aged'[i]
                   /\ kind'[writer'[i]] = "record" => about'[writer'[i]] = topic'[i]
<1> USE DEF rows, reqs, sweeps, history
<1>1. ASSUME NEW n, NEW f, NEW x, Inserted(n, f, x)
      PROVE  i \in DOMAIN f /\ writer'[i] = x /\ topic'[i] = f[i] /\ ~aged'[i]
  <2>1. i \in DOMAIN f
    BY <1>1, InsertFacts
  <2> QED BY <1>1, <2>1, InsertFacts DEF RowsInv
<1>2. ASSUME NEW q \in Requests, NEW t \in Topics, RecordWrite(q, t)
      PROVE  Goal
  <2>1. Inserted(1, [j \in {nextId} |-> t], q)
    BY <1>2, RecordInserted
  <2>2. writer'[i] = q /\ topic'[i] = t /\ ~aged'[i]
    BY <1>1, <2>1
  <2>3. pc'[q] = "publish" /\ about'[q] = t
    BY <1>2 DEF RecordWrite, Step, TypeOK
  <2> QED BY <2>2, <2>3
<1>3. ASSUME NEW q \in Requests, NEW n \in 1 .. MaxBatchOps, nextId + n <= MaxRows + 1,
             NEW f \in NewRows(n), BatchWrite(q, f)
      PROVE  Goal
  <2>1. writer'[i] = q /\ ~aged'[i]
    BY <1>1, <1>3, BatchInserted
  <2>2. pc'[q] = "publish" /\ kind'[q] = "batch"
    BY <1>3 DEF BatchWrite, Step, TypeOK
  <2> QED BY <2>1, <2>2
<1>4. ASSUME NEW t \in Topics, SilentWrite(t)
      PROVE  Goal
  <2>1. writer'[i] = NoRequest
    BY <1>1, <1>4, SilentInserted
  <2> QED BY <2>1 DEF OutboxAssumption
<1>5. ASSUME NEW q \in Requests, RequestStep(q) \/ \E t \in Topics : NoopUpdate(q, t)
      PROVE  topic' = topic
  BY <1>5 DEF RequestStep, NoopUpdate, PublishRecord, EnqueueWebhooks, LatestOutboxID,
              MarkDelivered
<1>6. ASSUME NEW r \in Replicas,
             SweeperStep(r) \/ ClaimFails(r) \/ SweepEnqueueFails(r) \/ Crash(r)
      PROVE  topic' = topic
  BY <1>6 DEF SweeperStep, TryLock, Claim, SweepPublish, SweepEnqueue, SweepMark, BatchDone,
              PruneAndUnlock, ClaimFails, SweepEnqueueFails, Crash
<1>7. LockLost \/ (\E j \in Ids : Age(j)) \/ UNCHANGED vars => topic' = topic
  BY DEF LockLost, Age, vars
<1>8. topic' # topic
  OBVIOUS
<1> HIDE DEF Goal
<1>9. Goal
  BY <1>2, <1>3, <1>4, <1>5, <1>6, <1>7, <1>8 DEF Next
<1> QED BY <1>9 DEF Goal

\* A row of an insert or a delete stays its writer's.
LEMMA OwnerStep ==
  ASSUME OutboxAssumption, TypeOK, RowsInv, OnceInv, HandlerInv, SweepInv, OwnerInv, [Next]_vars
  PROVE  OwnerInv'
<1> SUFFICES ASSUME Timely, NEW i \in Ids, topic'[i] \in OnceTopics, writer'[i] \in Requests
             PROVE  /\ pc'[writer'[i]] # "idle"
                    /\ kind'[writer'[i]] = "record" =>
                         /\ about'[writer'[i]] = topic'[i]
                         /\ pc'[writer'[i]] = "done" => Settled(i)'
                         /\ aged'[i] => pc'[writer'[i]] \notin InFlight
  BY DEF OwnerInv, Timely, Ids
<1> DEFINE w == writer[i]
<1>1. NoTopic \notin OnceTopics
  BY DEF OutboxAssumption, Topics
<1>2. CASE topic[i] = NoTopic
  BY <1>1, <1>2, NewOwner DEF InFlight
<1>3. CASE topic[i] # NoTopic
  <2>1. writer'[i] = w /\ topic'[i] = topic[i] /\ topic[i] \in OnceTopics /\ w \in Requests
    BY <1>3, RowsStep
  <2>2. pc[w] # "idle"
    BY <2>1 DEF OwnerInv, Timely
  <2>3. /\ kind'[w] = kind[w] /\ about'[w] = about[w] /\ pc'[w] # "idle"
        /\ pc[w] \notin InFlight => pc'[w] = pc[w]
        /\ pc'[w] = "done" /\ pc[w] # "done" =>
             EnqueueWebhooks(w) \/ LatestOutboxID(w) \/ MarkDelivered(w)
    BY <2>1, <2>2, RequestMoves
  <2>4. ASSUME kind[w] = "record"
        PROVE  /\ about[w] = topic[i]
               /\ pc[w] = "done" => Settled(i)
               /\ aged[i] => pc[w] \notin InFlight
    BY <2>1, <2>4 DEF OwnerInv, Timely
  <2>5. ASSUME kind[w] = "record", pc'[w] = "done"
        PROVE  Settled(i)'
    <3>1. CASE pc[w] = "done"
      <4>1. CASE RowsKept
        BY <2>4, <2>5, <3>1, <4>1 DEF RowsKept, Settled
      <4>2. ASSUME NEW n, NEW f, NEW x, Inserted(n, f, x)
            PROVE  Settled(i)'
        BY <1>3, <2>4, <2>5, <3>1, <4>2, InsertFacts DEF Settled
      <4> QED BY <4>1, <4>2, RowChange
    <3>2. CASE pc[w] # "done"
      BY <2>1, <2>3, <2>4, <2>5, <3>2, DoneIsSettled
    <3> QED BY <3>1, <3>2
  <2>6. ASSUME kind[w] = "record", aged'[i]
        PROVE  pc'[w] \notin InFlight
    <3>1. CASE aged[i]
      BY <2>3, <2>4, <2>6, <3>1
    <3>2. CASE ~aged[i]
      <4>1. PICK j \in Ids : Age(j)
        BY <2>6, <3>2, AgedByAge
      <4>2. j = i
        BY <2>6, <3>2, <4>1 DEF Age, TypeOK
      <4>3. w # NoRequest
        BY <2>1 DEF OutboxAssumption
      <4> QED BY <4>1, <4>2, <4>3, <2>3 DEF Age, Timely
    <3> QED BY <3>1, <3>2
  <2> QED BY <2>1, <2>3, <2>4, <2>5, <2>6
<1> QED BY <1>2, <1>3

\* A sweep takes only rows that are there, and loses them one by one.
LEMMA TodoMoves ==
  ASSUME TypeOK, [Next]_vars, NEW r \in Replicas
  PROVE  todo'[r] \subseteq todo[r] \/ (Claim(r) /\ todo'[r] = Claimable)
<1> USE DEF rows, reqs, sweeps, history
<1>1. ASSUME NEW p \in Replicas, Claim(p)
      PROVE  todo'[r] = todo[r] \/ (Claim(r) /\ todo'[r] = Claimable)
  BY <1>1 DEF Claim, TypeOK
<1>2. ASSUME NEW p \in Replicas, SweepEnqueueFails(p) \/ SweepMark(p)
      PROVE  todo'[r] \subseteq todo[r]
  BY <1>2 DEF SweepEnqueueFails, SweepMark, TypeOK
<1>3. ASSUME NEW p \in Replicas, Crash(p)
      PROVE  todo'[r] \subseteq todo[r]
  BY <1>3 DEF Crash, TypeOK
<1>4. ASSUME NEW p \in Replicas,
             TryLock(p) \/ SweepPublish(p) \/ SweepEnqueue(p) \/ BatchDone(p) \/ PruneAndUnlock(p)
               \/ ClaimFails(p)
      PROVE  todo' = todo
  BY <1>4 DEF TryLock, SweepPublish, SweepEnqueue, BatchDone, PruneAndUnlock, ClaimFails
<1>5. ASSUME NEW q \in Requests, NEW t \in Topics, RecordWrite(q, t) \/ NoopUpdate(q, t)
      PROVE  todo' = todo
  BY <1>5 DEF RecordWrite, NoopUpdate
<1>6. ASSUME NEW q \in Requests, NEW f, BatchWrite(q, f)
      PROVE  todo' = todo
  BY <1>6 DEF BatchWrite
<1>7. ASSUME NEW q \in Requests, RequestStep(q)
      PROVE  todo' = todo
  BY <1>7 DEF RequestStep, PublishRecord, EnqueueWebhooks, LatestOutboxID, MarkDelivered
<1>8. LockLost \/ (\E i \in Ids : Age(i)) \/ (\E t \in Topics : SilentWrite(t)) \/ UNCHANGED vars
        => todo' = todo
  BY DEF LockLost, Age, SilentWrite, vars
<1> QED
  BY <1>1, <1>2, <1>3, <1>4, <1>5, <1>6, <1>7, <1>8 DEF Next, SweeperStep

LEMMA ClaimedStep ==
  ASSUME OutboxAssumption, TypeOK, RowsInv, OnceInv, SweepInv, ClaimedInv, [Next]_vars
  PROVE  ClaimedInv'
<1> SUFFICES ASSUME NEW r \in Replicas, NEW i \in todo'[r]
             PROVE  topic'[i] # NoTopic
  BY DEF ClaimedInv
<1>1. i \in Ids /\ topic[i] # NoTopic
  <2>1. CASE i \in todo[r]
    BY <2>1 DEF ClaimedInv, TypeOK
  <2>2. CASE i \in Claimable
    <3>1. i \in Ids /\ status[i] = "pending"
      BY <2>2 DEF Claimable, Due, Pending
    <3> QED BY <3>1 DEF RowsInv
  <2> QED BY <2>1, <2>2, TodoMoves
<1> QED BY <1>1, RowsStep

\* What a request owes is a row it wrote.
LEMMA OwedStep ==
  ASSUME OutboxAssumption, TypeOK, RowsInv, OnceInv, SweepInv, OwedInv, [Next]_vars
  PROVE  OwedInv'
<1> SUFFICES ASSUME NEW q \in Requests, NEW i \in owed'[q]
             PROVE  topic'[i] # NoTopic
  BY DEF OwedInv
<1> USE DEF rows, reqs, sweeps, history
<1>1. ASSUME i \in owed[q]
      PROVE  topic'[i] # NoTopic
  <2>1. i \in Ids /\ topic[i] # NoTopic
    BY <1>1 DEF OwedInv, TypeOK
  <2> QED BY <2>1, RowsStep
<1>2. ASSUME NEW n, NEW f, NEW w, Inserted(n, f, w), i \in DOMAIN f
      PROVE  topic'[i] # NoTopic
  <2>1. f[i] # NoTopic
    BY <1>2 DEF Inserted, Topics, OutboxAssumption
  <2> QED BY <1>2, <2>1, InsertFacts
<1>3. ASSUME NEW p \in Requests, NEW t \in Topics, RecordWrite(p, t)
      PROVE  topic'[i] # NoTopic
  <2>1. Inserted(1, [j \in {nextId} |-> t], p)
    BY <1>3, RecordInserted
  <2>2. i \in owed[q] \/ i \in DOMAIN [j \in {nextId} |-> t]
    BY <1>3 DEF RecordWrite, TypeOK
  <2> QED BY <1>1, <1>2, <2>1, <2>2
<1>4. ASSUME NEW p \in Requests, NEW n \in 1 .. MaxBatchOps, nextId + n <= MaxRows + 1,
             NEW f \in NewRows(n), BatchWrite(p, f)
      PROVE  topic'[i] # NoTopic
  <2>1. Inserted(n, f, p)
    BY <1>4, BatchInserted
  <2>2. i \in owed[q] \/ i \in DOMAIN f
    BY <1>4 DEF BatchWrite, TypeOK
  <2> QED BY <1>1, <1>2, <2>1, <2>2
<1>5. ASSUME NEW p \in Requests, RequestStep(p) \/ \E t \in Topics : NoopUpdate(p, t)
      PROVE  i \in owed[q]
  <2>1. \/ owed' = owed
        \/ owed' = [owed EXCEPT ![p] = {}]
        \/ owed' = [owed EXCEPT ![p] = owed[p] \ {OwnRow(p)}]
    BY <1>5 DEF RequestStep, NoopUpdate, PublishRecord, EnqueueWebhooks, LatestOutboxID,
                MarkDelivered
  <2> QED BY <2>1 DEF TypeOK
<1>6. ASSUME NEW r \in Replicas,
             SweeperStep(r) \/ ClaimFails(r) \/ SweepEnqueueFails(r) \/ Crash(r)
      PROVE  owed' = owed
  BY <1>6 DEF SweeperStep, TryLock, Claim, SweepPublish, SweepEnqueue, SweepMark, BatchDone,
              PruneAndUnlock, ClaimFails, SweepEnqueueFails, Crash
<1>7. LockLost \/ (\E j \in Ids : Age(j)) \/ (\E t \in Topics : SilentWrite(t)) \/ UNCHANGED vars
        => owed' = owed
  BY DEF LockLost, Age, SilentWrite, vars
<1> QED
  BY <1>1, <1>3, <1>4, <1>5, <1>6, <1>7 DEF Next

\* Only rows that are there are published.
LEMMA PublishedStep ==
  ASSUME OutboxAssumption, TypeOK, RowsInv, OnceInv, SweepInv, OwedInv, ClaimedInv, PublishedInv,
         [Next]_vars
  PROVE  PublishedInv'
<1> SUFFICES ASSUME NEW i \in Ids, published'[i] > 0
             PROVE  topic'[i] # NoTopic
  BY DEF PublishedInv, Ids
<1>1. ASSUME topic[i] # NoTopic
      PROVE  topic'[i] # NoTopic
  BY <1>1, RowsStep
<1>2. ASSUME NEW j, NEW t, Delivered(j, t), j # i
      PROVE  published[i] > 0
  BY <1>2 DEF Delivered, TypeOK
<1>3. ASSUME NEW q \in Requests, PublishRecord(q)
      PROVE  published[i] > 0 \/ topic[i] # NoTopic
  <2>1. (\E t : Delivered(OwnRow(q), t)) \/ UNCHANGED published
    BY <1>3 DEF PublishRecord
  <2>2. OwnRow(q) = i => i \in owed[q]
    <3>1. i # 0
      BY DEF Ids, OutboxAssumption
    <3>2. owed[q] = {} => OwnRow(q) = 0
      BY DEF OwnRow
    <3> QED BY <3>1, <3>2, OwnRowType
  <2> QED BY <1>2, <2>1, <2>2 DEF OwedInv
<1>4. ASSUME NEW r \in Replicas, SweepPublish(r)
      PROVE  published[i] > 0 \/ topic[i] # NoTopic
  <2>1. PICK j \in todo[r] : Delivered(j, topic[j])
    BY <1>4 DEF SweepPublish
  <2> QED BY <1>2, <2>1 DEF ClaimedInv
<1>5. CASE published' = published
  BY <1>1, <1>5 DEF PublishedInv
<1> QED BY <1>1, <1>3, <1>4, <1>5, PublishedByPublish DEF PublishedInv

\* A sweep claims an insert or a delete only when its handler has failed it, or
\* nobody marks it.
LEMMA CasualtyStep ==
  ASSUME OutboxAssumption, TypeOK, RowsInv, OnceInv, HandlerInv, SweepInv, ClaimedInv, OwnerInv,
         SweepTakesCasualties, [Next]_vars
  PROVE  SweepTakesCasualties'
<1> SUFFICES ASSUME Timely, NEW r \in Replicas, NEW i \in todo'[r], topic'[i] \in OnceTopics,
                    writer'[i] \in Requests, kind'[writer'[i]] \notin {"batch", "respelled"}
             PROVE  pc'[writer'[i]] \in {"crashed", "unmarked"}
  BY DEF SweepTakesCasualties, Casualty, NeverMarked, Timely
<1> DEFINE w == writer[i]
<1>1. i \in Ids /\ topic[i] # NoTopic
  <2>1. CASE i \in todo[r]
    BY <2>1 DEF ClaimedInv, TypeOK
  <2>2. CASE i \in Claimable
    <3>1. i \in Ids /\ status[i] = "pending"
      BY <2>2 DEF Claimable, Due, Pending
    <3> QED BY <3>1 DEF RowsInv
  <2> QED BY <2>1, <2>2, TodoMoves
<1>2. topic[i] \in OnceTopics /\ writer'[i] = w /\ w \in Requests
  BY <1>1, RowsStep
<1>3. pc[w] # "idle"
  BY <1>1, <1>2 DEF OwnerInv, Timely
<1>4. kind'[w] = kind[w] /\ (pc[w] \notin InFlight => pc'[w] = pc[w])
  BY <1>2, <1>3, RequestMoves
<1>5. kind[w] = "record"
  BY <1>2, <1>4 DEF TypeOK
<1>6. pc[w] \in {"crashed", "unmarked"}
  <2>1. CASE i \in todo[r]
    BY <1>2, <1>5, <2>1 DEF SweepTakesCasualties, Casualty, NeverMarked, Timely
  <2>2. CASE i \in Claimable
    <3>1. status[i] = "pending" /\ aged[i]
      BY <2>2 DEF Claimable, Due, Pending
    <3>2. /\ pc[w] = "done" => Settled(i)
          /\ aged[i] => pc[w] \notin InFlight
      BY <1>1, <1>2, <1>5 DEF OwnerInv, Timely
    <3>3. pc[w] \notin InFlight \cup {"idle", "done"}
      BY <1>3, <3>1, <3>2 DEF Settled
    <3> QED BY <1>2, <3>3 DEF TypeOK
  <2> QED BY <2>1, <2>2, TodoMoves
<1> QED BY <1>2, <1>4, <1>6 DEF InFlight
------------------------------------------------------------------------------
(* The theorems *)

LEMMA IInvInit == OutboxAssumption /\ Init => IInv
<1> SUFFICES ASSUME OutboxAssumption, Init
             PROVE  IInv
  OBVIOUS
<1>1. TypeOK
  BY TypeInit
<1>2. NoTopic \notin OnceTopics
  BY DEF OutboxAssumption
<1>3. RowsInv /\ OnceInv /\ OnceEventNeverLost /\ OwnerInv
  BY <1>2 DEF Init, RowsInv, OnceInv, OnceEventNeverLost, OwnerInv, Ids
<1>4. HandlerInv
  BY DEF Init, HandlerInv, HandlerOK
<1>5. SweepInv /\ ClaimedInv /\ LockInv /\ SweepTakesCasualties
  BY DEF Init, SweepInv, SweepOK, ClaimedInv, LockInv, SweepTakesCasualties
<1>6. OwedInv /\ PublishedInv
  BY DEF Init, OwedInv, PublishedInv
<1> QED BY <1>1, <1>3, <1>4, <1>5, <1>6 DEF IInv

LEMMA IInvStep == OutboxAssumption /\ IInv /\ [Next]_vars => IInv'
<1> SUFFICES ASSUME OutboxAssumption, IInv, [Next]_vars
             PROVE  IInv'
  OBVIOUS
<1>1. /\ TypeOK /\ RowsInv /\ OnceInv /\ HandlerInv /\ SweepInv
      /\ OwedInv /\ ClaimedInv /\ PublishedInv
      /\ LockInv /\ OwnerInv /\ OnceEventNeverLost /\ SweepTakesCasualties
  BY DEF IInv
<1>2. TypeOK' /\ RowsInv' /\ OnceInv'
  BY <1>1, TypeStep, RowsStep
<1>3. HandlerInv' /\ SweepInv' /\ ClaimedInv' /\ LockInv'
  BY <1>1, HandlerStep, SweepsStep, ClaimedStep, LockStep
<1>4. OwnerInv' /\ OnceEventNeverLost' /\ SweepTakesCasualties'
  BY <1>1, OwnerStep, NeverLostStep, CasualtyStep
<1>5. OwedInv' /\ PublishedInv'
  BY <1>1, OwedStep, PublishedStep
<1> QED BY <1>2, <1>3, <1>4, <1>5 DEF IInv

\* The inductive invariant holds of every reachable state.
THEOREM Invariance == Spec => []IInv
  BY OutboxAssumption, IInvInit, IInvStep, PTL DEF Spec

\* The columns, the handlers, the sweeps and the history keep their types.
THEOREM TypeCorrect == Spec => []TypeOK
<1>1. IInv => TypeOK
  BY DEF IInv
<1> QED BY <1>1, Invariance, PTL

\* No row of an insert or a delete is ever marked, by its handler or a sweep,
\* and none is pruned, before its event was published.
THEOREM NeverLost == Spec => []OnceEventNeverLost
<1>1. IInv => OnceEventNeverLost
  BY DEF IInv
<1> QED BY <1>1, Invariance, PTL

\* Two replicas never sweep together while the session of the lock lives.
THEOREM MutualExclusion == Spec => []OneSweeper
<1>1. IInv => OneSweeper
  BY DEF IInv, LockInv, OneSweeper
<1> QED BY <1>1, Invariance, PTL

\* An event that failed is not claimed again before the sweep ends.
THEOREM RetriesWait == Spec => []NoRetryWithinSweep
<1>1. IInv => NoRetryWithinSweep
  BY DEF IInv, SweepInv, SweepOK, NoRetryWithinSweep
<1> QED BY <1>1, Invariance, PTL

\* With handlers that take less than the minAge, a sweep re-delivers an insert or
\* a delete only when its handler died or could not mark it, or when nobody marks
\* it: it was written by a batch, a tool or a cascade, or by a request that spells
\* its collection or its id another way.
THEOREM NoNeedlessRedelivery == Spec => []SweepTakesCasualties
<1>1. IInv => SweepTakesCasualties
  BY DEF IInv
<1> QED BY <1>1, Invariance, PTL

------------------------------------------------------------------------------
(* Refinement: of inserts and deletes the outbox implements EventDelivery *)

LEMMA PromiseInit == OutboxAssumption /\ Init => Promise!EInit
  BY DEF OutboxAssumption, Init, Promise!EInit, OnceRows

\* Publishing a row delivers its event, when it is an insert's or a delete's.
LEMMA PublishPromises ==
  ASSUME TypeOK, NEW i, NEW t, Delivered(i, t), UNCHANGED rows
  PROVE  Promise!ENext \/ UNCHANGED Promise!evars
<1> USE DEF rows
<1>1. OnceRows' = OnceRows
  BY DEF OnceRows
<1>2. {j \in OnceRows : Settled(j)}' = {j \in OnceRows : Settled(j)}
  BY <1>1 DEF Settled
<1>3. CASE i \in OnceRows /\ i # 0
  <2>1. i \in Ids /\ published' = [published EXCEPT ![i] = @ + 1] /\ published[i] \in Nat
    BY <1>3 DEF OnceRows, Delivered, TypeOK
  <2>2. \A j \in Ids : published'[j] > 0 <=> published[j] > 0 \/ j = i
    BY <2>1 DEF TypeOK
  <2>3. {j \in OnceRows : published[j] > 0}' = {j \in OnceRows : published[j] > 0} \cup {i}
    BY <1>1, <1>3, <2>2 DEF OnceRows
  <2>4. Promise!Deliver(i)
    BY <1>1, <1>2, <1>3, <2>3 DEF Promise!Deliver
  <2> QED BY <2>1, <2>4 DEF Promise!ENext
<1>4. CASE i \notin OnceRows \/ i = 0
  <2>1. \A j \in OnceRows : published'[j] = published[j]
    BY <1>4 DEF Delivered, OnceRows, TypeOK
  <2>2. {j \in OnceRows : published[j] > 0}' = {j \in OnceRows : published[j] > 0}
    BY <1>1, <2>1
  <2> QED BY <1>1, <1>2, <2>2 DEF Promise!evars
<1> QED BY <1>3, <1>4

\* Marking a row settles its event, which by then is delivered.
LEMMA MarkPromises ==
  ASSUME TypeOK, OnceEventNeverLost', NEW i, NEW who, MarkOutboxPublished(i, who),
         UNCHANGED <<topic, published>>
  PROVE  Promise!ENext \/ UNCHANGED Promise!evars
<1>1. OnceRows' = OnceRows
  BY DEF OnceRows
<1>2. {j \in OnceRows : published[j] > 0}' = {j \in OnceRows : published[j] > 0}
  BY <1>1
<1>3. CASE i \in OnceRows /\ Pending(i)
  <2>1. i \in Ids /\ topic'[i] \in OnceTopics /\ status' = [status EXCEPT ![i] = "published"]
    BY <1>3 DEF OnceRows, MarkOutboxPublished
  <2>2. \A j \in Ids : Settled(j)' <=> Settled(j) \/ j = i
    BY <2>1 DEF TypeOK, Settled
  <2>3. {j \in OnceRows : Settled(j)}' = {j \in OnceRows : Settled(j)} \cup {i}
    BY <1>1, <1>3, <2>2 DEF OnceRows
  <2>4. published[i] > 0
    BY <2>1, <2>2 DEF OnceEventNeverLost, Ids
  <2>5. Promise!Settle(i)
    BY <1>1, <1>2, <1>3, <2>3, <2>4 DEF Promise!Settle
  <2> QED BY <2>1, <2>5 DEF Promise!ENext
<1>4. CASE i \notin OnceRows \/ ~Pending(i)
  <2>1. \A j \in OnceRows : Settled(j)' <=> Settled(j)
    BY <1>4 DEF MarkOutboxPublished, OnceRows, TypeOK, Settled
  <2>2. {j \in OnceRows : Settled(j)}' = {j \in OnceRows : Settled(j)}
    BY <1>1, <2>1
  <2> QED BY <1>1, <1>2, <2>2 DEF Promise!evars
<1> QED BY <1>3, <1>4

\* Inserting rows commits the inserts and deletes among them.
LEMMA InsertPromises ==
  ASSUME OutboxAssumption, TypeOK, RowsInv, PublishedInv, NEW n, NEW f, NEW w, Inserted(n, f, w),
         UNCHANGED published
  PROVE  Promise!ENext \/ UNCHANGED Promise!evars
<1> DEFINE E == {i \in DOMAIN f : f[i] \in OnceTopics}
<1>1. /\ \A i \in DOMAIN f :
           /\ i \in Ids /\ topic[i] = NoTopic /\ status[i] = "none"
           /\ topic'[i] = f[i] /\ status'[i] = "pending"
      /\ \A i \in Ids \ DOMAIN f : topic'[i] = topic[i] /\ status'[i] = status[i]
  BY InsertFacts
<1>2. NoTopic \notin OnceTopics
  BY DEF OutboxAssumption
<1>3. OnceRows' = OnceRows \cup E /\ E \cap OnceRows = {} /\ E \in SUBSET Ids
  BY <1>1, <1>2 DEF OnceRows, Ids
<1>4. {j \in OnceRows : Settled(j)}' = {j \in OnceRows : Settled(j)}
  <2>1. \A j \in E : ~Settled(j)'
    BY <1>1 DEF Settled
  <2>2. \A j \in OnceRows : Settled(j)' <=> Settled(j)
    BY <1>1, <1>2 DEF Settled, OnceRows
  <2> QED BY <1>3, <2>1, <2>2
<1>5. {j \in OnceRows : published[j] > 0}' = {j \in OnceRows : published[j] > 0}
  <2>1. \A j \in E : ~(published[j] > 0)
    BY <1>1 DEF PublishedInv
  <2> QED BY <1>3, <2>1
<1>6. Promise!Commit(E)
  BY <1>3, <1>4, <1>5 DEF Promise!Commit
<1> QED BY <1>3, <1>6 DEF Promise!ENext

\* Every step commits, delivers or settles one event, or leaves them alone.
LEMMA PromiseStep ==
  ASSUME OutboxAssumption, IInv, IInv', [Next]_vars
  PROVE  Promise!ENext \/ UNCHANGED Promise!evars
<1> USE DEF rows, reqs, sweeps, history
<1>1. TypeOK /\ RowsInv /\ PublishedInv /\ OnceEventNeverLost'
  BY DEF IInv
<1>2. ASSUME UNCHANGED <<topic, status, published>>
      PROVE  UNCHANGED Promise!evars
  <2>1. OnceRows' = OnceRows
    BY <1>2 DEF OnceRows
  <2> QED BY <1>2, <2>1 DEF Promise!evars, Settled
<1>3. ASSUME NEW q \in Requests, NEW t \in Topics, RecordWrite(q, t)
      PROVE  Promise!ENext \/ UNCHANGED Promise!evars
  <2>1. Inserted(1, [i \in {nextId} |-> t], q) /\ UNCHANGED published
    BY <1>1, <1>3, RecordInserted DEF RecordWrite
  <2> QED BY <1>1, <2>1, InsertPromises
<1>4. ASSUME NEW q \in Requests, NEW n \in 1 .. MaxBatchOps, nextId + n <= MaxRows + 1,
             NEW f \in NewRows(n), BatchWrite(q, f)
      PROVE  Promise!ENext \/ UNCHANGED Promise!evars
  <2>1. Inserted(n, f, q) /\ UNCHANGED published
    BY <1>1, <1>4, BatchInserted DEF BatchWrite
  <2> QED BY <1>1, <2>1, InsertPromises
<1>5. ASSUME NEW t \in Topics, SilentWrite(t)
      PROVE  Promise!ENext \/ UNCHANGED Promise!evars
  <2>1. Inserted(1, [i \in {nextId} |-> t], NoRequest) /\ UNCHANGED published
    BY <1>1, <1>5, SilentInserted DEF SilentWrite
  <2> QED BY <1>1, <2>1, InsertPromises
<1>6. ASSUME NEW q \in Requests, PublishRecord(q)
      PROVE  Promise!ENext \/ UNCHANGED Promise!evars
  <2>1. (\E t : Delivered(OwnRow(q), t)) \/ UNCHANGED published
    BY <1>6 DEF PublishRecord
  <2>2. UNCHANGED rows
    BY <1>6 DEF PublishRecord
  <2> QED BY <1>1, <1>2, <2>1, <2>2, PublishPromises
<1>7. ASSUME NEW r \in Replicas, SweepPublish(r)
      PROVE  Promise!ENext \/ UNCHANGED Promise!evars
  <2>1. PICK i \in todo[r] : Delivered(i, topic[i])
    BY <1>7 DEF SweepPublish
  <2>2. UNCHANGED rows
    BY <1>7 DEF SweepPublish
  <2> QED BY <1>1, <2>1, <2>2, PublishPromises
<1>8. ASSUME NEW q \in Requests, MarkDelivered(q)
      PROVE  Promise!ENext \/ UNCHANGED Promise!evars
  <2>1. UNCHANGED <<topic, published>>
    BY <1>8 DEF MarkDelivered
  <2>2. MarkOutboxPublished(found[q], "request") \/ status' = status
    BY <1>8 DEF MarkDelivered
  <2> QED BY <1>1, <1>2, <2>1, <2>2, MarkPromises
<1>9. ASSUME NEW r \in Replicas, SweepMark(r)
      PROVE  Promise!ENext \/ UNCHANGED Promise!evars
  <2>1. UNCHANGED <<topic, published>>
    BY <1>9 DEF SweepMark
  <2>2. MarkOutboxPublished(current[r], "sweep") \/ status' = status
    BY <1>9 DEF SweepMark
  <2> QED BY <1>1, <1>2, <2>1, <2>2, MarkPromises
<1>10. ASSUME NEW r \in Replicas, PruneAndUnlock(r)
       PROVE  UNCHANGED Promise!evars
  <2>1. UNCHANGED <<topic, published>> /\ \A i \in Ids : Settled(i)' <=> Settled(i)
    <3>0. PICK old \in SUBSET {i \in Ids : status[i] = "published"} :
            status' = [i \in Ids |-> IF i \in old THEN "pruned" ELSE status[i]]
      BY <1>10 DEF PruneAndUnlock
    <3>1. \A i \in Ids :
            \/ status'[i] = status[i]
            \/ status[i] = "published" /\ status'[i] = "pruned"
      BY <3>0
    <3>2. UNCHANGED <<topic, published>>
      BY <1>10 DEF PruneAndUnlock
    <3> QED BY <3>1, <3>2 DEF Settled
  <2>2. OnceRows' = OnceRows
    BY <2>1 DEF OnceRows
  <2>3. {i \in OnceRows : Settled(i)}' = {i \in OnceRows : Settled(i)}
    BY <2>1, <2>2 DEF OnceRows
  <2> QED BY <2>1, <2>2, <2>3 DEF Promise!evars
<1>11. ASSUME NEW q \in Requests,
              EnqueueWebhooks(q) \/ LatestOutboxID(q) \/ \E t \in Topics : NoopUpdate(q, t)
       PROVE  UNCHANGED <<topic, status, published>>
  BY <1>11 DEF EnqueueWebhooks, LatestOutboxID, NoopUpdate
<1>12. ASSUME NEW r \in Replicas,
              \/ TryLock(r) \/ Claim(r) \/ SweepEnqueue(r) \/ BatchDone(r)
              \/ ClaimFails(r) \/ SweepEnqueueFails(r) \/ Crash(r)
       PROVE  UNCHANGED <<topic, status, published>>
  BY <1>12 DEF TryLock, Claim, SweepEnqueue, BatchDone, ClaimFails, SweepEnqueueFails, Crash
<1>13. CASE LockLost \/ (\E i \in Ids : Age(i)) \/ UNCHANGED vars
  BY <1>2, <1>13 DEF LockLost, Age, vars
<1> QED
  BY <1>2, <1>3, <1>4, <1>5, <1>6, <1>7, <1>8, <1>9, <1>10, <1>11, <1>12, <1>13
     DEF Next, RequestStep, SweeperStep

\* Of inserts and deletes the outbox keeps its promise: what commits is owed, and
\* is written off only after it was handed out.
THEOREM Refinement == Spec => KeepsPromise
<1>1. OutboxAssumption /\ Init => Promise!EInit
  BY PromiseInit
<1>2. OutboxAssumption /\ IInv /\ IInv' /\ [Next]_vars => [Promise!ENext]_(Promise!evars)
  BY PromiseStep
<1> QED
  BY <1>1, <1>2, OutboxAssumption, Invariance, PTL DEF Spec, KeepsPromise, Promise!ESpec

------------------------------------------------------------------------------
(* Counting: what was sent of a topic covers the rows that were written off  *)
(* and the marks that handlers and sweeps are about to set.                  *)

WrittenOff(i, t) == topic[i] = t /\ Settled(i)
Marking(q, t) == kind[q] = "record" /\ about[q] = t /\ pc[q] \in {"enqueue", "lookup", "mark"}
Sweeping(r, t) == sweep[r] \in {"enqueue", "mark"} /\ topic[current[r]] = t

Covered(t) ==
  {<<"row", i>> : i \in {j \in Ids : WrittenOff(j, t)}} \cup
  {<<"handler", q>> : q \in {p \in Requests : Marking(p, t)}} \cup
  {<<"sweep", r>> : r \in {o \in Replicas : Sweeping(o, t)}}

CoveredInv == \A t \in Topics : IsFiniteSet(Covered(t)) /\ Cardinality(Covered(t)) <= sent[t]

\* A set that gains one element, or exchanges one for another.
LEMMA Gained ==
  ASSUME NEW S, NEW T, NEW x, NEW n \in Nat, NEW m \in Nat, m >= n + 1,
         IsFiniteSet(S), Cardinality(S) <= n, T \subseteq S \cup {x}
  PROVE  IsFiniteSet(T) /\ Cardinality(T) <= m
<1>1. IsFiniteSet(S \cup {x}) /\ Cardinality(S \cup {x}) <= m /\ Cardinality(S \cup {x}) \in Nat
  <2>1. Cardinality(S) \in Nat
    BY FS_CardinalityType
  <2>2. /\ IsFiniteSet(S \cup {x})
        /\ Cardinality(S \cup {x}) = IF x \in S THEN Cardinality(S) ELSE Cardinality(S) + 1
    BY FS_AddElement
  <2> QED BY <2>1, <2>2
<1>2. T \in SUBSET (S \cup {x})
  OBVIOUS
<1>3. IsFiniteSet(T) /\ Cardinality(T) <= Cardinality(S \cup {x})
  BY <1>1, <1>2, FS_Subset
<1>4. Cardinality(T) \in Nat
  BY <1>3, FS_CardinalityType
<1> QED BY <1>1, <1>3, <1>4

LEMMA Exchanged ==
  ASSUME NEW S, NEW T, NEW x \in S, NEW y, NEW n \in Nat,
         IsFiniteSet(S), Cardinality(S) <= n, T \subseteq (S \ {x}) \cup {y}
  PROVE  IsFiniteSet(T) /\ Cardinality(T) <= n
<1>1. Cardinality(S) \in Nat
  BY FS_CardinalityType
<1>2. IsFiniteSet(S \ {x}) /\ Cardinality(S \ {x}) = Cardinality(S) - 1
  BY FS_RemoveElement
<1>3. Cardinality(S) - 1 \in Nat
  BY <1>2, FS_CardinalityType
<1> DEFINE k == Cardinality(S) - 1
<1>4. k \in Nat /\ Cardinality(S \ {x}) <= k /\ n >= k + 1
  BY <1>1, <1>2, <1>3
<1> HIDE DEF k
<1> QED BY <1>2, <1>4, Gained

LEMMA Kept ==
  ASSUME NEW S, NEW T, NEW n \in Nat, NEW m \in Nat, m >= n,
         IsFiniteSet(S), Cardinality(S) <= n, T \subseteq S
  PROVE  IsFiniteSet(T) /\ Cardinality(T) <= m
<1>1. T \in SUBSET S
  OBVIOUS
<1>2. IsFiniteSet(T) /\ Cardinality(T) <= Cardinality(S)
  BY <1>1, FS_Subset
<1>3. Cardinality(T) \in Nat /\ Cardinality(S) \in Nat
  BY <1>2, FS_CardinalityType
<1> QED BY <1>2, <1>3

\* What is covered after a step, of what moved in it.
LEMMA CoveredBecomes ==
  ASSUME NEW t, NEW X,
         \A i \in Ids : WrittenOff(i, t)' => WrittenOff(i, t) \/ <<"row", i>> \in X,
         \A q \in Requests : Marking(q, t)' => Marking(q, t) \/ <<"handler", q>> \in X,
         \A r \in Replicas : Sweeping(r, t)' => Sweeping(r, t) \/ <<"sweep", r>> \in X
  PROVE  Covered(t)' \subseteq Covered(t) \cup X
<1> SUFFICES ASSUME NEW x \in Covered(t)', x \notin X PROVE x \in Covered(t)
  OBVIOUS
<1>1. CASE \E i \in Ids : x = <<"row", i>> /\ WrittenOff(i, t)'
  BY <1>1 DEF Covered
<1>2. CASE \E q \in Requests : x = <<"handler", q>> /\ Marking(q, t)'
  BY <1>2 DEF Covered
<1>3. CASE \E r \in Replicas : x = <<"sweep", r>> /\ Sweeping(r, t)'
  BY <1>3 DEF Covered
<1> QED BY <1>1, <1>2, <1>3 DEF Covered, Ids

LEMMA NotCovered ==
  ASSUME NEW t
  PROVE  /\ \A q : ~Marking(q, t)' => <<"handler", q>> \notin Covered(t)'
         /\ \A r : ~Sweeping(r, t)' => <<"sweep", r>> \notin Covered(t)'
BY DEF Covered

\* A step after which no more is written off or about to be.
LEMMA CoveredStands ==
  ASSUME TypeOK, CoveredInv, sent' \in [Topics -> Nat], \A t \in Topics : sent'[t] >= sent[t],
         \A t \in Topics, i \in Ids : WrittenOff(i, t)' => WrittenOff(i, t),
         \A t \in Topics, q \in Requests : Marking(q, t)' => Marking(q, t),
         \A t \in Topics, r \in Replicas : Sweeping(r, t)' => Sweeping(r, t)
  PROVE  CoveredInv'
<1> SUFFICES ASSUME NEW t \in Topics
             PROVE  IsFiniteSet(Covered(t)') /\ Cardinality(Covered(t)') <= sent'[t]
  BY DEF CoveredInv, Topics
<1>1. Covered(t)' \subseteq Covered(t) \cup {}
  BY CoveredBecomes
<1>2. Covered(t)' \subseteq Covered(t)
  BY <1>1
<1>3. sent[t] \in Nat /\ sent'[t] \in Nat
  BY DEF TypeOK
<1>4. IsFiniteSet(Covered(t)) /\ Cardinality(Covered(t)) <= sent[t]
  BY DEF CoveredInv
<1> QED BY <1>2, <1>3, <1>4, Kept

LEMMA CoveredInitially == OutboxAssumption /\ Init => CoveredInv
<1> SUFFICES ASSUME OutboxAssumption, Init, NEW t \in Topics
             PROVE  IsFiniteSet(Covered(t)) /\ Cardinality(Covered(t)) <= sent[t]
  BY DEF CoveredInv
<1>1. Covered(t) = {}
  BY DEF Init, Covered, WrittenOff, Marking, Sweeping, Settled
<1> QED BY <1>1, FS_EmptySet DEF Init

\* One event more was sent of topic t.
LEMMA SentMore ==
  ASSUME TypeOK, NEW i, NEW t, Delivered(i, t)
  PROVE  /\ sent' \in [Topics -> Nat]
         /\ \A s \in Topics : sent'[s] >= sent[s]
         /\ t \in Topics => sent'[t] = sent[t] + 1
<1>1. sent \in [Topics -> Nat] /\ sent' = [sent EXCEPT ![t] = sent[t] + 1]
  BY DEF TypeOK, Delivered
<1>2. sent' \in [Topics -> Nat]
  BY DeliveredType
<1> QED BY <1>1, <1>2

LEMMA PublishCovers ==
  ASSUME IInv, CoveredInv, NEW q \in Requests, PublishRecord(q)
  PROVE  CoveredInv'
<1> DEFINE e == IF kind[q] = "batch" THEN topic[OwnRow(q)] ELSE about[q]
<1>1. /\ pc[q] = "publish" /\ pc' = [pc EXCEPT ![q] = "enqueue"]
      /\ Delivered(OwnRow(q), e) \/ (kind[q] = "respelled" /\ UNCHANGED sent)
      /\ UNCHANGED <<nextId, topic, status, attempts, aged, kind, about, owed, found, lock, sweep,
                     todo, current, batches, failed>>
  BY DEF PublishRecord, Step, rows, sweeps
<1>2. TypeOK
  BY DEF IInv
<1>3. /\ sent' \in [Topics -> Nat] /\ (\A s \in Topics : sent'[s] >= sent[s])
      /\ (e \in Topics /\ kind[q] = "record" => sent'[e] = sent[e] + 1)
  <2>1. CASE Delivered(OwnRow(q), e)
    BY <1>2, <2>1, SentMore
  <2>2. CASE kind[q] = "respelled" /\ UNCHANGED sent
    BY <1>2, <2>2 DEF TypeOK
  <2> QED BY <1>1, <2>1, <2>2
<1>4. kind[q] = "record" => e = about[q] /\ e \in Topics
  BY <1>1, <1>2 DEF IInv, HandlerInv, HandlerOK
<1> HIDE DEF e
<1> SUFFICES ASSUME NEW t \in Topics
             PROVE  IsFiniteSet(Covered(t)') /\ Cardinality(Covered(t)') <= sent'[t]
  BY DEF CoveredInv, Topics
<1>5. /\ \A i \in Ids : WrittenOff(i, t)' => WrittenOff(i, t)
      /\ \A r \in Replicas : Sweeping(r, t)' => Sweeping(r, t)
      /\ \A p \in Requests : Marking(p, t)' => Marking(p, t) \/ p = q
      /\ Marking(q, t)' => t = e /\ kind[q] = "record"
  BY <1>1, <1>2, <1>4 DEF WrittenOff, Settled, Sweeping, Marking, TypeOK
<1>6. sent[t] \in Nat /\ sent'[t] \in Nat /\ IsFiniteSet(Covered(t)) /\ Cardinality(Covered(t)) <= sent[t]
  BY <1>2, <1>3 DEF TypeOK, CoveredInv
<1>7. CASE t = e /\ kind[q] = "record"
  <2>1. Covered(t)' \subseteq Covered(t) \cup {<<"handler", q>>}
    BY <1>5, CoveredBecomes
  <2>2. sent'[t] >= sent[t] + 1
    BY <1>3, <1>4, <1>6, <1>7
  <2> QED BY <1>6, <2>1, <2>2, Gained
<1>8. CASE t # e \/ kind[q] # "record"
  <2>1. Covered(t)' \subseteq Covered(t) \cup {}
    BY <1>5, <1>8, CoveredBecomes
  <2>2. Covered(t)' \subseteq Covered(t) /\ sent'[t] >= sent[t]
    BY <1>3, <2>1
  <2> QED BY <1>6, <2>2, Kept
<1> QED BY <1>7, <1>8

LEMMA SweepPublishCovers ==
  ASSUME IInv, CoveredInv, NEW r \in Replicas, SweepPublish(r)
  PROVE  CoveredInv'
<1>1. PICK i \in todo[r] : current' = [current EXCEPT ![r] = i] /\ Delivered(i, topic[i])
  BY DEF SweepPublish
<1>2. /\ sweep[r] = "publish" /\ sweep' = [sweep EXCEPT ![r] = "enqueue"]
      /\ UNCHANGED <<nextId, topic, status, attempts, aged, pc, kind, about, owed, found>>
  BY DEF SweepPublish, SweepStep, rows, reqs
<1>3. TypeOK
  BY DEF IInv
<1>4. topic[i] \in Topics
  BY <1>3 DEF IInv, ClaimedInv, TypeOK
<1>5. /\ sent' \in [Topics -> Nat] /\ (\A s \in Topics : sent'[s] >= sent[s])
      /\ sent'[topic[i]] = sent[topic[i]] + 1
  BY <1>1, <1>3, <1>4, SentMore
<1> SUFFICES ASSUME NEW t \in Topics
             PROVE  IsFiniteSet(Covered(t)') /\ Cardinality(Covered(t)') <= sent'[t]
  BY DEF CoveredInv, Topics
<1>6. /\ \A j \in Ids : WrittenOff(j, t)' => WrittenOff(j, t)
      /\ \A q \in Requests : Marking(q, t)' => Marking(q, t)
      /\ \A o \in Replicas : Sweeping(o, t)' => Sweeping(o, t) \/ o = r
      /\ Sweeping(r, t)' => t = topic[i]
  BY <1>1, <1>2, <1>3 DEF WrittenOff, Settled, Sweeping, Marking, TypeOK
<1>7. sent[t] \in Nat /\ sent'[t] \in Nat /\ IsFiniteSet(Covered(t)) /\ Cardinality(Covered(t)) <= sent[t]
  BY <1>3, <1>5 DEF TypeOK, CoveredInv
<1>8. CASE t = topic[i]
  <2>1. Covered(t)' \subseteq Covered(t) \cup {<<"sweep", r>>}
    BY <1>6, CoveredBecomes
  <2>2. sent'[t] >= sent[t] + 1
    BY <1>5, <1>7, <1>8
  <2> QED BY <1>7, <2>1, <2>2, Gained
<1>9. CASE t # topic[i]
  <2>1. Covered(t)' \subseteq Covered(t) \cup {}
    BY <1>6, <1>9, CoveredBecomes
  <2>2. Covered(t)' \subseteq Covered(t) /\ sent'[t] >= sent[t]
    BY <1>5, <2>1
  <2> QED BY <1>7, <2>2, Kept
<1> QED BY <1>8, <1>9

\* Who marks a row gives up what it held of its topic.
LEMMA MarkCovers ==
  ASSUME TypeOK, CoveredInv, NEW x, NEW i \in Ids, NEW who, MarkOutboxPublished(i, who),
         UNCHANGED <<topic, sent>>, x \in Covered(topic[i]), \A t : x \notin Covered(t)',
         \A t \in Topics, q \in Requests : Marking(q, t)' => Marking(q, t),
         \A t \in Topics, r \in Replicas : Sweeping(r, t)' => Sweeping(r, t)
  PROVE  CoveredInv'
<1>1. \A j \in Ids \ {i} : status'[j] = status[j]
  BY DEF MarkOutboxPublished, TypeOK
<1> SUFFICES ASSUME NEW t \in Topics
             PROVE  IsFiniteSet(Covered(t)') /\ Cardinality(Covered(t)') <= sent'[t]
  BY DEF CoveredInv, Topics
<1>2. \A j \in Ids : WrittenOff(j, t)' => WrittenOff(j, t) \/ (j = i /\ t = topic[i])
  BY <1>1 DEF WrittenOff, Settled
<1>3. sent[t] \in Nat /\ sent'[t] = sent[t] /\ IsFiniteSet(Covered(t)) /\ Cardinality(Covered(t)) <= sent[t]
  BY DEF TypeOK, CoveredInv
<1>4. CASE t = topic[i]
  <2>1. Covered(t)' \subseteq Covered(t) \cup {<<"row", i>>}
    BY <1>2, CoveredBecomes
  <2>2. Covered(t)' \subseteq (Covered(t) \ {x}) \cup {<<"row", i>>} /\ x \in Covered(t)
    <3>1. x \notin Covered(t)' /\ x \in Covered(t)
      BY <1>4
    <3> QED BY <2>1, <3>1
  <2> QED BY <1>3, <2>2, Exchanged
<1>5. CASE t # topic[i]
  <2>1. Covered(t)' \subseteq Covered(t) \cup {}
    BY <1>2, <1>5, CoveredBecomes
  <2>2. Covered(t)' \subseteq Covered(t) /\ sent[t] >= sent[t]
    BY <1>3, <2>1
  <2> QED BY <1>3, <2>2, Kept
<1> QED BY <1>4, <1>5
LEMMA HandlerMarkCovers ==
  ASSUME IInv, CoveredInv, NEW q \in Requests, MarkDelivered(q)
  PROVE  CoveredInv'
<1> USE DEF rows, sweeps, history
<1>1. /\ pc[q] = "mark" /\ pc' \in {[pc EXCEPT ![q] = "done"], [pc EXCEPT ![q] = "unmarked"]}
      /\ UNCHANGED <<topic, kind, about, sent, sweep, current>>
  BY DEF MarkDelivered, Step
<1>2. TypeOK /\ kind[q] = "record" /\ about[q] \in Topics
  BY <1>1 DEF IInv, HandlerInv, HandlerOK
<1>3. PICK i \in Ids : i = found[q] /\ topic[i] = about[q]
  BY <1>1, <1>2 DEF IInv, HandlerInv, HandlerOK
<1>4. /\ \A t \in Topics, p \in Requests : Marking(p, t)' => Marking(p, t)
      /\ \A t \in Topics, r \in Replicas : Sweeping(r, t)' => Sweeping(r, t)
      /\ \A t : ~Marking(q, t)'
  BY <1>1, <1>2 DEF Marking, Sweeping, TypeOK
<1>5. CASE UNCHANGED status
  <2>1. \A t \in Topics, j \in Ids : WrittenOff(j, t)' => WrittenOff(j, t)
    BY <1>1, <1>5 DEF WrittenOff, Settled
  <2>2. sent' \in [Topics -> Nat] /\ \A t \in Topics : sent'[t] >= sent[t]
    BY <1>1, <1>2 DEF TypeOK
  <2> QED BY <1>2, <1>4, <2>1, <2>2, CoveredStands
<1>6. CASE MarkOutboxPublished(i, "request")
  <2> DEFINE x == <<"handler", q>>
  <2>1. x \in Covered(topic[i])
    BY <1>1, <1>2, <1>3 DEF Covered, Marking
  <2>2. \A t : x \notin Covered(t)'
    BY <1>4, NotCovered
  <2> HIDE DEF x
  <2> QED BY <1>1, <1>2, <1>4, <1>6, <2>1, <2>2, MarkCovers
<1> QED BY <1>3, <1>5, <1>6 DEF MarkDelivered

LEMMA SweepMarkCovers ==
  ASSUME IInv, CoveredInv, NEW r \in Replicas, SweepMark(r)
  PROVE  CoveredInv'
<1> USE DEF reqs
<1>1. /\ sweep[r] = "mark" /\ sweep' = [sweep EXCEPT ![r] = "publish"]
      /\ UNCHANGED <<topic, pc, kind, about, sent, current>>
  BY DEF SweepMark, SweepStep
<1>2. TypeOK
  BY DEF IInv
<1>3. PICK i \in Ids : i = current[r] /\ i \in todo[r]
  BY <1>1, <1>2 DEF IInv, SweepInv, SweepOK, TypeOK
<1>4. /\ \A t \in Topics, p \in Requests : Marking(p, t)' => Marking(p, t)
      /\ \A t \in Topics, o \in Replicas : Sweeping(o, t)' => Sweeping(o, t)
      /\ \A t : ~Sweeping(r, t)'
  BY <1>1, <1>2 DEF Marking, Sweeping, TypeOK
<1>5. CASE UNCHANGED status
  <2>1. \A t \in Topics, j \in Ids : WrittenOff(j, t)' => WrittenOff(j, t)
    BY <1>1, <1>5 DEF WrittenOff, Settled
  <2>2. sent' \in [Topics -> Nat] /\ \A t \in Topics : sent'[t] >= sent[t]
    BY <1>1, <1>2 DEF TypeOK
  <2> QED BY <1>2, <1>4, <2>1, <2>2, CoveredStands
<1>6. CASE MarkOutboxPublished(i, "sweep")
  <2> DEFINE x == <<"sweep", r>>
  <2>1. x \in Covered(topic[i])
    BY <1>1, <1>3 DEF Covered, Sweeping
  <2>2. \A t : x \notin Covered(t)'
    BY <1>4, NotCovered
  <2> HIDE DEF x
  <2> QED BY <1>1, <1>2, <1>4, <1>6, <2>1, <2>2, MarkCovers
<1> QED BY <1>3, <1>5, <1>6 DEF SweepMark

\* New rows are not written off, and no sweep has taken one.
LEMMA InsertCovers ==
  ASSUME OutboxAssumption, IInv, CoveredInv, NEW n, NEW f, NEW w, Inserted(n, f, w),
         UNCHANGED <<sent, sweep, current>>,
         \A t \in Topics, q \in Requests : Marking(q, t)' => Marking(q, t)
  PROVE  CoveredInv'
<1>1. TypeOK /\ RowsInv /\ SweepInv /\ ClaimedInv /\ NoTopic \notin Topics
  BY DEF IInv, OutboxAssumption, Topics
<1>2. \A t \in Topics, i \in Ids : WrittenOff(i, t)' => WrittenOff(i, t)
  BY <1>1, InsertFacts DEF WrittenOff, Settled
<1>3. ASSUME NEW t \in Topics, NEW r \in Replicas, Sweeping(r, t)'
      PROVE  Sweeping(r, t)
  <2>1. sweep[r] \in {"enqueue", "mark"} /\ topic'[current[r]] = t
    BY <1>3 DEF Sweeping
  <2>2. current[r] \in Ids /\ topic[current[r]] # NoTopic
    BY <1>1, <2>1 DEF SweepInv, SweepOK, ClaimedInv, TypeOK
  <2>3. topic'[current[r]] = topic[current[r]]
    BY <1>1, <2>2, InsertFacts
  <2> QED BY <2>1, <2>3 DEF Sweeping
<1>4. sent' \in [Topics -> Nat] /\ \A t \in Topics : sent'[t] >= sent[t]
  BY <1>1 DEF TypeOK
<1> QED BY <1>1, <1>2, <1>3, <1>4, CoveredStands

\* A step that marks nothing, sends nothing and begins no mark.
LEMMA QuietCovers ==
  ASSUME IInv, CoveredInv, RowsKept, UNCHANGED sent,
         \A i \in Ids : status'[i] = status[i] \/ status[i] = "published",
         \A t \in Topics, q \in Requests : Marking(q, t)' => Marking(q, t),
         \A r \in Replicas : sweep'[r] \in {"enqueue", "mark"} =>
           sweep[r] \in {"enqueue", "mark"} /\ current'[r] = current[r]
  PROVE  CoveredInv'
<1>1. TypeOK
  BY DEF IInv
<1>2. \A t \in Topics, i \in Ids : WrittenOff(i, t)' => WrittenOff(i, t)
  BY DEF WrittenOff, Settled, RowsKept
<1>3. \A t \in Topics, r \in Replicas : Sweeping(r, t)' => Sweeping(r, t)
  BY DEF Sweeping, RowsKept
<1>4. sent' \in [Topics -> Nat] /\ \A t \in Topics : sent'[t] >= sent[t]
  BY <1>1 DEF TypeOK
<1> QED BY <1>1, <1>2, <1>3, <1>4, CoveredStands

LEMMA CoveredPreserved ==
  ASSUME OutboxAssumption, IInv, CoveredInv, [Next]_vars
  PROVE  CoveredInv'
<1> USE DEF rows, reqs, sweeps, history
<1>1. TypeOK /\ SweepInv /\ HandlerInv
  BY DEF IInv
<1>2. ASSUME NEW q \in Requests, NEW t \in Topics, RecordWrite(q, t)
      PROVE  CoveredInv'
  <2>1. \A s \in Topics, p \in Requests : Marking(p, s)' => Marking(p, s)
    BY <1>1, <1>2 DEF Marking, RecordWrite, Step, TypeOK
  <2>2. Inserted(1, [i \in {nextId} |-> t], q)
    BY <1>1, <1>2, RecordInserted
  <2>3. UNCHANGED <<sent, sweep, current>>
    BY <1>2 DEF RecordWrite
  <2> QED BY <2>1, <2>2, <2>3, InsertCovers
<1>3. ASSUME NEW q \in Requests, NEW n \in 1 .. MaxBatchOps, nextId + n <= MaxRows + 1,
             NEW f \in NewRows(n), BatchWrite(q, f)
      PROVE  CoveredInv'
  <2>1. \A s \in Topics, p \in Requests : Marking(p, s)' => Marking(p, s)
    BY <1>1, <1>3 DEF Marking, BatchWrite, Step, TypeOK
  <2>2. Inserted(n, f, q)
    BY <1>1, <1>3, BatchInserted
  <2>3. UNCHANGED <<sent, sweep, current>>
    BY <1>3 DEF BatchWrite
  <2> QED BY <2>1, <2>2, <2>3, InsertCovers
<1>4. ASSUME NEW t \in Topics, SilentWrite(t)
      PROVE  CoveredInv'
  <2>1. \A s \in Topics, p \in Requests : Marking(p, s)' => Marking(p, s)
    BY <1>4 DEF Marking, SilentWrite
  <2>2. Inserted(1, [i \in {nextId} |-> t], NoRequest)
    BY <1>1, <1>4, SilentInserted
  <2>3. UNCHANGED <<sent, sweep, current>>
    BY <1>4 DEF SilentWrite
  <2> QED BY <2>1, <2>2, <2>3, InsertCovers
<1>5. ASSUME NEW q \in Requests, NEW t \in Topics, NoopUpdate(q, t)
      PROVE  CoveredInv'
  <2>1. \A s \in Topics, p \in Requests : Marking(p, s)' => Marking(p, s)
    BY <1>1, <1>5 DEF Marking, NoopUpdate, Step, TypeOK
  <2>2. UNCHANGED <<nextId, topic, status, aged, writer, sent, sweep, current>>
    BY <1>5 DEF NoopUpdate
  <2> QED BY <2>1, <2>2, QuietCovers DEF RowsKept
<1>6. ASSUME NEW q \in Requests, EnqueueWebhooks(q) \/ LatestOutboxID(q)
      PROVE  CoveredInv'
  <2>1. /\ pc[q] \in {"enqueue", "lookup"}
        /\ \E to \in InFlight \cup {"done", "unmarked"} : pc' = [pc EXCEPT ![q] = to]
        /\ UNCHANGED <<kind, about>>
    BY <1>6 DEF EnqueueWebhooks, LatestOutboxID, Step, InFlight
  <2>2. \A s \in Topics, p \in Requests : Marking(p, s)' => Marking(p, s)
    BY <1>1, <2>1 DEF Marking, TypeOK, InFlight
  <2>3. UNCHANGED <<nextId, topic, status, aged, writer, sent, sweep, current>>
    BY <1>6 DEF EnqueueWebhooks, LatestOutboxID
  <2> QED BY <2>2, <2>3, QuietCovers DEF RowsKept
<1>7. ASSUME NEW q \in Requests, PublishRecord(q) \/ MarkDelivered(q)
      PROVE  CoveredInv'
  BY <1>7, PublishCovers, HandlerMarkCovers
<1>8. ASSUME NEW i \in Ids, Age(i)
      PROVE  CoveredInv'
  <2>1. \A s \in Topics, p \in Requests : Marking(p, s)' => Marking(p, s)
    BY <1>8 DEF Marking, Age
  <2>2. UNCHANGED <<nextId, topic, status, writer, sent, sweep, current>> /\ RowsKept
    BY <1>1, <1>8 DEF Age, RowsKept, TypeOK
  <2> QED BY <2>1, <2>2, QuietCovers
<1>9. ASSUME NEW r \in Replicas, SweepPublish(r) \/ SweepMark(r)
      PROVE  CoveredInv'
  BY <1>9, SweepPublishCovers, SweepMarkCovers
<1>10. ASSUME NEW r \in Replicas,
              \/ TryLock(r) \/ Claim(r) \/ SweepEnqueue(r) \/ BatchDone(r)
              \/ ClaimFails(r) \/ SweepEnqueueFails(r)
       PROVE  CoveredInv'
  <2>1. \A s \in Topics, p \in Requests : Marking(p, s)' => Marking(p, s)
    BY <1>10 DEF Marking, TryLock, Claim, SweepEnqueue, BatchDone, ClaimFails, SweepEnqueueFails
  <2>2. UNCHANGED <<nextId, topic, status, aged, writer, sent, current>>
    BY <1>10 DEF TryLock, Claim, SweepEnqueue, BatchDone, ClaimFails, SweepEnqueueFails
  <2>3. \E to \in {"claim", "prune", "publish", "mark"} :
          sweep' = [sweep EXCEPT ![r] = to] /\ (to = "mark" => sweep[r] = "enqueue")
    BY <1>10 DEF TryLock, Claim, SweepEnqueue, BatchDone, ClaimFails, SweepEnqueueFails, SweepStep
  <2>4. \A o \in Replicas : sweep'[o] \in {"enqueue", "mark"} =>
          sweep[o] \in {"enqueue", "mark"} /\ current'[o] = current[o]
    BY <1>1, <2>2, <2>3 DEF TypeOK
  <2> QED BY <2>1, <2>2, <2>4, QuietCovers DEF RowsKept
<1>11. ASSUME NEW r \in Replicas, PruneAndUnlock(r)
       PROVE  CoveredInv'
  <2>1. \A s \in Topics, p \in Requests : Marking(p, s)' => Marking(p, s)
    BY <1>11 DEF Marking, PruneAndUnlock
  <2>2. /\ UNCHANGED <<nextId, topic, aged, writer, sent>>
        /\ \A i \in Ids : status'[i] = status[i] \/ (status[i] = "published" /\ status'[i] = "pruned")
    BY <1>1, <1>11 DEF PruneAndUnlock, TypeOK
  <2>3. \A o \in Replicas : sweep'[o] \in {"enqueue", "mark"} =>
          sweep[o] \in {"enqueue", "mark"} /\ current'[o] = current[o]
    BY <1>1, <1>11 DEF PruneAndUnlock, SweepStep, TypeOK
  <2> QED BY <2>1, <2>2, <2>3, QuietCovers DEF RowsKept
<1>12. ASSUME NEW r \in Replicas, Crash(r)
       PROVE  CoveredInv'
  <2>1. \A s \in Topics, p \in Requests : Marking(p, s)' => Marking(p, s)
    BY <1>1, <1>12 DEF Marking, Crash, TypeOK
  <2>2. UNCHANGED <<nextId, topic, status, aged, writer, sent>>
    BY <1>12 DEF Crash
  <2>3. \A o \in Replicas : sweep'[o] \in {"enqueue", "mark"} =>
          sweep[o] \in {"enqueue", "mark"} /\ current'[o] = current[o]
    BY <1>1, <1>12 DEF Crash, TypeOK
  <2> QED BY <2>1, <2>2, <2>3, QuietCovers DEF RowsKept
<1>13. CASE LockLost \/ UNCHANGED vars
  <2>1. \A s \in Topics, p \in Requests : Marking(p, s)' => Marking(p, s)
    BY <1>13 DEF Marking, LockLost, vars
  <2>2. UNCHANGED <<nextId, topic, status, aged, writer, sent, sweep, current>>
    BY <1>13 DEF LockLost, vars
  <2> QED BY <2>1, <2>2, QuietCovers DEF RowsKept
<1> QED
  BY <1>2, <1>3, <1>4, <1>5, <1>6, <1>7, <1>8, <1>9, <1>10, <1>11, <1>12, <1>13
     DEF Next, RequestStep, SweeperStep

LEMMA CoveredSuffices == TypeOK /\ CoveredInv => SettledCovered
<1> SUFFICES ASSUME TypeOK, CoveredInv, NEW t \in Topics
             PROVE  Cardinality({i \in Ids : topic[i] = t /\ Settled(i)}) <= sent[t]
  BY DEF SettledCovered
<1> DEFINE S == {i \in Ids : topic[i] = t /\ Settled(i)}
           C == Covered(t)
           f == [i \in S |-> <<"row", i>>]
<1>1. IsFiniteSet(C) /\ Cardinality(C) <= sent[t] /\ sent[t] \in Nat
  BY DEF CoveredInv, TypeOK
<1>2. f \in Injection(S, C)
  <2>1. f \in [S -> C]
    BY DEF Covered, WrittenOff
  <2>2. \A i, j \in S : f[i] = f[j] => i = j
    OBVIOUS
  <2> HIDE DEF f, S, C
  <2> QED BY <2>1, <2>2 DEF Injection, IsInjective
<1> HIDE DEF f, S, C
<1>3. IsFiniteSet(S) /\ Cardinality(S) <= Cardinality(C)
  BY <1>1, <1>2, FS_Injection
<1>4. Cardinality(S) \in Nat /\ Cardinality(C) \in Nat
  BY <1>1, <1>3, FS_CardinalityType
<1>5. Cardinality(S) <= sent[t]
  BY <1>1, <1>3, <1>4
<1> QED BY <1>5 DEF S

\* Of the updates of one record no more rows are written off than events went out, although a
\* handler marks the latest row of its topic, whoever wrote it (LatestOutboxID), while sweeps and
\* other handlers of the same record run: for any number of them and any failures.
THEOREM UpdatesAreCovered == Spec => []SettledCovered
<1>1. Init => CoveredInv
  BY OutboxAssumption, CoveredInitially
<1>2. IInv /\ CoveredInv /\ [Next]_vars => CoveredInv'
  BY OutboxAssumption, CoveredPreserved
<1>3. IInv /\ CoveredInv => SettledCovered
  BY CoveredSuffices DEF IInv
<1> QED BY <1>1, <1>2, <1>3, Invariance, PTL DEF Spec
==============================================================================
