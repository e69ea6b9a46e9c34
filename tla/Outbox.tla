------------------------------- MODULE Outbox --------------------------------
(***************************************************************************)
(* The transactional outbox of one project (core/outbox.go), the requests  *)
(* that write records and deliver their own events (apis/records.go,       *)
(* apis/batch.go) and the sweep of the ops worker on every replica         *)
(* (core/ops_worker.go).                                                   *)
(*                                                                         *)
(* A row of dbo_event_outbox is an id; its columns are the functions       *)
(* topic, status, attempts and aged.  A topic is what LatestOutboxID       *)
(* selects on: one (collection, record_id, action) triple.  Inserting and  *)
(* deleting a managed record happens once (its id is never assigned by a   *)
(* caller), so those topics are OnceTopics; updating it happens any number *)
(* of times, perhaps changing nothing: UpdateTopics.                       *)
(*                                                                         *)
(* Environment names what may go wrong, or who else writes, in an instance.*)
(***************************************************************************)
EXTENDS Naturals, FiniteSetsExt

CONSTANTS
  Requests,      \* HTTP requests, each carries out one write
  Replicas,      \* server processes; each runs requests and one ops worker
  Home,          \* Home[q]: the replica that serves request q
  OnceTopics,    \* (collection, record, insert or delete)
  UpdateTopics,  \* (collection, record, update)
  MaxRows,       \* bound: rows the sequence of the outbox hands out
  MaxAttempts,   \* attempts < 10 in ClaimPendingOutbox
  BatchSize,     \* sweepBatchSize
  MaxBatches,    \* maxSweepBatches
  MaxBatchOps,   \* bound: operations of one /batch request (50 in the code)
  MaxCrashes,    \* bound: crashes of replicas
  Environment,
  NoRequest, NoReplica, NoTopic

Behaviours ==
  { "noop",          \* updates that change nothing but "updated"
    "respelled",     \* paths that do not spell collection and id as the trigger does
    "batch",         \* writes through /batch
    "silent",        \* writes that publish nothing: MCP, SQL console, cascades
    "slow",          \* a request may still run when its row is a minute old
    "crash",         \* a replica dies
    "enqueueFails",  \* inserting the webhook deliveries of an event fails
    "markFails",     \* the query that looks up or marks a row fails
    "claimFails",    \* the query that claims rows fails
    "lockLost" }     \* the connection that holds the session lock is cut

ASSUME OutboxAssumption ==
  /\ NoRequest \notin Requests
  /\ NoReplica \notin Replicas
  /\ Home \in [Requests -> Replicas]
  /\ OnceTopics \cap UpdateTopics = {}
  /\ NoTopic \notin OnceTopics \cup UpdateTopics
  /\ MaxRows \in Nat /\ MaxCrashes \in Nat
  /\ MaxAttempts \in Nat \ {0}
  /\ BatchSize \in Nat \ {0} /\ MaxBatches \in Nat \ {0}
  /\ MaxBatchOps \in Nat \ {0}
  /\ Environment \subseteq Behaviours

Topics == OnceTopics \cup UpdateTopics
Ids == 1 .. MaxRows

VARIABLES
  (* dbo_event_outbox *)
  nextId, topic, status, attempts, aged,
  (* requests *)
  pc, kind, about, owed, found,
  (* sweeps, and the holder of the advisory lock *)
  lock, sweep, todo, current, batches, failed,
  (* history: what was delivered, and by whom a row was marked *)
  writer, published, enqueued, sent, marker, crashes

rows == <<nextId, topic, status, attempts, aged>>
reqs == <<pc, kind, about, owed, found>>
sweeps == <<sweep, todo, current, batches, failed>>
history == <<writer, published, enqueued, sent, marker, crashes>>
vars == <<rows, reqs, lock, sweeps, history>>

InFlight == {"publish", "enqueue", "lookup", "mark"}

TypeOK ==
  /\ nextId \in 1 .. MaxRows + 1
  /\ topic \in [Ids -> Topics \cup {NoTopic}]
  /\ status \in [Ids -> {"none", "pending", "published", "pruned"}]
  /\ attempts \in [Ids -> 0 .. MaxAttempts]
  /\ aged \in [Ids -> BOOLEAN]
  /\ pc \in [Requests -> InFlight \cup {"idle", "done", "unmarked", "crashed"}]
  /\ kind \in [Requests -> {"record", "respelled", "batch"}]
  /\ about \in [Requests -> Topics \cup {NoTopic}]
  /\ owed \in [Requests -> SUBSET Ids]
  /\ found \in [Requests -> Ids \cup {0}]
  /\ lock \in Replicas \cup {NoReplica}
  /\ sweep \in [Replicas -> {"idle", "claim", "publish", "enqueue", "mark", "prune"}]
  /\ todo \in [Replicas -> SUBSET Ids]
  /\ current \in [Replicas -> Ids \cup {0}]
  /\ batches \in [Replicas -> Nat]
  /\ failed \in [Replicas -> SUBSET Ids]
  /\ writer \in [Ids -> Requests \cup {NoRequest}]
  /\ published \in [Ids -> Nat]
  /\ enqueued \in [Ids -> Nat]
  /\ sent \in [Topics -> Nat]
  /\ marker \in [Ids -> {"nobody", "request", "sweep"}]
  /\ crashes \in 0 .. MaxCrashes

Init ==
  /\ nextId = 1
  /\ topic = [i \in Ids |-> NoTopic]
  /\ status = [i \in Ids |-> "none"]
  /\ attempts = [i \in Ids |-> 0]
  /\ aged = [i \in Ids |-> FALSE]
  /\ pc = [q \in Requests |-> "idle"]
  /\ kind = [q \in Requests |-> "record"]
  /\ about = [q \in Requests |-> NoTopic]
  /\ owed = [q \in Requests |-> {}]
  /\ found = [q \in Requests |-> 0]
  /\ lock = NoReplica
  /\ sweep = [r \in Replicas |-> "idle"]
  /\ todo = [r \in Replicas |-> {}]
  /\ current = [r \in Replicas |-> 0]
  /\ batches = [r \in Replicas |-> 0]
  /\ failed = [r \in Replicas |-> {}]
  /\ writer = [i \in Ids |-> NoRequest]
  /\ published = [i \in Ids |-> 0]
  /\ enqueued = [i \in Ids |-> 0]
  /\ sent = [t \in Topics |-> 0]
  /\ marker = [i \in Ids |-> "nobody"]
  /\ crashes = 0

------------------------------------------------------------------------------
(* The table and its queries *)

Pending(i) == status[i] = "pending"

\* The trigger writes one row per changed record, in the write's transaction;
\* f maps the ids it draws to their topics.
Insert(f, w) ==
  /\ \A i \in DOMAIN f : f[i] \in OnceTopics =>
        \A j \in Ids : topic[j] # f[i] /\ (j \in DOMAIN f /\ j # i => f[j] # f[i])
  /\ nextId' = nextId + Cardinality(DOMAIN f)
  /\ topic' = [i \in Ids |-> IF i \in DOMAIN f THEN f[i] ELSE topic[i]]
  /\ status' = [i \in Ids |-> IF i \in DOMAIN f THEN "pending" ELSE status[i]]
  /\ writer' = [i \in Ids |-> IF i \in DOMAIN f THEN w ELSE writer[i]]
  /\ UNCHANGED <<attempts, aged>>

\* The topics of n new rows; the sequence hands the ids out in order.
NewRows(n) == [nextId .. nextId + n - 1 -> Topics]

\* Mutant: the lookup forgets the collection, the record and the action.
Unmarked_AnyTopic(t) == {i \in Ids : Pending(i)}

\* Rows LatestOutboxID chooses from: any writer's, as long as the topic agrees.
Unmarked(t) == {i \in Ids : topic[i] = t /\ Pending(i)}

\* Mutant: the update selects by topic instead of by id.
MarkOutboxPublished_WholeTopic(i, who) ==
  /\ status' = [j \in Ids |-> IF Pending(j) /\ topic[j] = topic[i] THEN "published" ELSE status[j]]
  /\ marker' = [j \in Ids |-> IF Pending(j) /\ topic[j] = topic[i] THEN who ELSE marker[j]]

\* update ... set published_at = now() where id = $1 and published_at is null
MarkOutboxPublished(i, who) ==
  IF Pending(i)
  THEN /\ status' = [status EXCEPT ![i] = "published"]
       /\ marker' = [marker EXCEPT ![i] = who]
  ELSE UNCHANGED <<status, marker>>

\* Mutants: the claim forgets the limit on the attempts, or the minAge.
Due_NoLimit == {i \in Ids : Pending(i) /\ aged[i]}
Due_NoMinAge == {i \in Ids : Pending(i) /\ attempts[i] < MaxAttempts}

\* The rows a claim chooses from.
Due == {i \in Ids : Pending(i) /\ aged[i] /\ attempts[i] < MaxAttempts}

\* Mutant: rows that have spent their attempts count for the size of a batch.
Claimable_AfterSpent ==
  {i \in Due : Cardinality({j \in Ids : j < i /\ Pending(j) /\ aged[j]}) < BatchSize}

\* The due rows one claim takes: the oldest BatchSize of them.
Claimable == {i \in Due : Cardinality({j \in Due : j < i}) < BatchSize}

\* A row gets older than the minAge of the sweep.  Unless requests are slow, a
\* request has finished by then.
Age(i) ==
  /\ Pending(i) /\ ~aged[i]
  /\ \/ "slow" \in Environment
     \/ writer[i] = NoRequest
     \/ writer[i] # NoRequest /\ pc[writer[i]] \notin InFlight
  /\ aged' = [aged EXCEPT ![i] = TRUE]
  /\ UNCHANGED <<nextId, topic, status, attempts, reqs, lock, sweeps, history>>

------------------------------------------------------------------------------
(* Requests: write, then publish, enqueue the webhooks and mark the row *)

Delivered(i, t) ==
  /\ published' = IF i = 0 THEN published ELSE [published EXCEPT ![i] = @ + 1]
  /\ sent' = [sent EXCEPT ![t] = @ + 1]

Step(q, from, to) ==
  /\ pc[q] = from
  /\ pc' = [pc EXCEPT ![q] = to]

\* The store normalises the collection and casts the id of a path, the handler
\* goes on with the path as it is: /collections/Posts writes posts.  The trigger
\* knows a record by its column id, if it has one.
RecordKinds == {"record"} \cup {k \in {"respelled"} : k \in Environment}

\* createRecord, updateRecord, deleteRecord: the transaction commits one row ...
RecordWrite(q, t) ==
  /\ Step(q, "idle", "publish")
  /\ nextId \in Ids
  /\ Insert([i \in {nextId} |-> t], q)
  /\ \E k \in RecordKinds : kind' = [kind EXCEPT ![q] = k]
  /\ about' = [about EXCEPT ![q] = t]
  /\ owed' = [owed EXCEPT ![q] = {nextId}]
  /\ UNCHANGED <<found, lock, sweeps, published, enqueued, sent, marker, crashes>>

\* ... or none, because the trigger skips an update that changed nothing.  The
\* handler goes on all the same.
NoopUpdate(q, t) ==
  /\ "noop" \in Environment
  /\ t \in UpdateTopics
  /\ Step(q, "idle", "publish")
  /\ \E k \in RecordKinds : kind' = [kind EXCEPT ![q] = k]
  /\ about' = [about EXCEPT ![q] = t]
  /\ owed' = [owed EXCEPT ![q] = {}]
  /\ UNCHANGED <<rows, found, lock, sweeps, history>>

\* A batch commits its rows together and then delivers them one by one.
BatchWrite(q, f) ==
  /\ "batch" \in Environment
  /\ Step(q, "idle", "publish")
  /\ Insert(f, q)
  /\ kind' = [kind EXCEPT ![q] = "batch"]
  /\ owed' = [owed EXCEPT ![q] = DOMAIN f]
  /\ UNCHANGED <<about, found, lock, sweeps, published, enqueued, sent, marker, crashes>>

\* A write nobody publishes: the MCP tools, SQL, rows removed by a cascade.
SilentWrite(t) ==
  /\ "silent" \in Environment
  /\ nextId \in Ids
  /\ Insert([i \in {nextId} |-> t], NoRequest)
  /\ UNCHANGED <<reqs, lock, sweeps, published, enqueued, sent, marker, crashes>>

\* The event a request is delivering: its own row, the next one of a batch, or
\* the update that left no row.
OwnRow(q) == IF owed[q] = {} THEN 0 ELSE Min(owed[q])

\* Under another name of its collection an event passes those by who asked for
\* that collection.
PublishRecord(q) ==
  /\ Step(q, "publish", "enqueue")
  /\ \/ Delivered(OwnRow(q), IF kind[q] = "batch" THEN topic[OwnRow(q)] ELSE about[q])
     \/ kind[q] = "respelled" /\ UNCHANGED <<published, sent>>
  /\ UNCHANGED <<rows, kind, about, owed, found, lock, sweeps, writer, enqueued, marker, crashes>>

\* A failure to enqueue is logged and nothing else: the handler goes on.  A hook
\* of the collection does not match its name with a space before it.
EnqueueWebhooks(q) ==
  /\ pc[q] = "enqueue"
  /\ \/ enqueued' = IF OwnRow(q) = 0 THEN enqueued
                    ELSE [enqueued EXCEPT ![OwnRow(q)] = @ + 1]
     \/ ("enqueueFails" \in Environment \/ kind[q] = "respelled") /\ UNCHANGED enqueued
  /\ \/ /\ kind[q] \in {"record", "respelled"}
        /\ pc' = [pc EXCEPT ![q] = "lookup"]
        /\ UNCHANGED owed
     \/ /\ kind[q] = "batch"
        /\ owed' = [owed EXCEPT ![q] = @ \ {OwnRow(q)}]
        /\ pc' = [pc EXCEPT ![q] = IF owed'[q] = {} THEN "done" ELSE "publish"]
  /\ UNCHANGED <<rows, kind, about, found, lock, sweeps, writer, published, sent, marker, crashes>>

\* The trigger wrote the rows as collection and id are stored.
Matching(q) == IF kind[q] = "respelled" THEN {} ELSE Unmarked(about[q])

\* markDelivered: the id of the latest pending row of the topic, whoever wrote it.
LatestOutboxID(q) ==
  /\ \/ /\ Matching(q) # {}
        /\ Step(q, "lookup", "mark")
        /\ found' = [found EXCEPT ![q] = Max(Matching(q))]
     \/ /\ Matching(q) = {}
        /\ Step(q, "lookup", "done")
        /\ UNCHANGED found
     \/ /\ "markFails" \in Environment
        /\ Step(q, "lookup", "unmarked")
        /\ UNCHANGED found
  /\ UNCHANGED <<rows, kind, about, owed, lock, sweeps, history>>

MarkDelivered(q) ==
  /\ \/ /\ Step(q, "mark", "done")
        /\ MarkOutboxPublished(found[q], "request")
     \/ /\ "markFails" \in Environment
        /\ Step(q, "mark", "unmarked")
        /\ UNCHANGED <<status, marker>>
  /\ UNCHANGED <<nextId, topic, attempts, aged, kind, about, owed, found, lock, sweeps,
                 writer, published, enqueued, sent, crashes>>

------------------------------------------------------------------------------
(* SweepOutbox on the ops worker of replica r *)

SweepStep(r, from, to) ==
  /\ sweep[r] = from
  /\ sweep' = [sweep EXCEPT ![r] = to]

\* Mutant: the sweep does not look whether it got the lock.
TryLock_Unchecked(r) ==
  /\ SweepStep(r, "idle", "claim")
  /\ lock' = IF lock = NoReplica THEN r ELSE lock
  /\ UNCHANGED <<rows, reqs, todo, current, batches, failed, history>>

\* pg_try_advisory_lock: a replica that does not get it returns at once.
TryLock(r) ==
  /\ SweepStep(r, "idle", "claim")
  /\ lock = NoReplica
  /\ lock' = r
  /\ UNCHANGED <<rows, reqs, todo, current, batches, failed, history>>

\* ClaimPendingOutbox spends an attempt on every row it takes.
Claim(r) ==
  /\ SweepStep(r, "claim", IF Claimable = {} THEN "prune" ELSE "publish")
  /\ attempts' = [i \in Ids |-> IF i \in Claimable THEN attempts[i] + 1 ELSE attempts[i]]
  /\ todo' = [todo EXCEPT ![r] = Claimable]
  /\ batches' = [batches EXCEPT ![r] = IF Claimable = {} THEN @ ELSE @ + 1]
  /\ UNCHANGED <<nextId, topic, status, aged, reqs, lock, current, failed, history>>

ClaimFails(r) ==
  /\ "claimFails" \in Environment
  /\ SweepStep(r, "claim", "prune")
  /\ UNCHANGED <<rows, reqs, lock, todo, current, batches, failed, history>>

\* OutboxPublish, first half: realtime.  The order of a claimed batch is the
\* database's, so the next event is any of those left.
SweepPublish(r) ==
  /\ SweepStep(r, "publish", "enqueue")
  /\ \E i \in todo[r] :
       /\ current' = [current EXCEPT ![r] = i]
       /\ Delivered(i, topic[i])
  /\ UNCHANGED <<rows, reqs, lock, todo, batches, failed, writer, enqueued, marker, crashes>>

\* OutboxPublish, second half: the webhook deliveries, whose failure is the
\* publisher's.
SweepEnqueue(r) ==
  /\ SweepStep(r, "enqueue", "mark")
  /\ enqueued' = [enqueued EXCEPT ![current[r]] = @ + 1]
  /\ UNCHANGED <<rows, reqs, lock, todo, current, batches, failed,
                 writer, published, sent, marker, crashes>>

SweepEnqueueFails(r) ==
  /\ "enqueueFails" \in Environment
  /\ SweepStep(r, "enqueue", "publish")
  /\ failed' = [failed EXCEPT ![r] = @ \cup {current[r]}]
  /\ todo' = [todo EXCEPT ![r] = @ \ {current[r]}]
  /\ UNCHANGED <<rows, reqs, lock, current, batches, history>>

\* A mark that fails is logged; the sweep goes on with the next event.
SweepMark(r) ==
  /\ SweepStep(r, "mark", "publish")
  /\ todo' = [todo EXCEPT ![r] = @ \ {current[r]}]
  /\ \/ MarkOutboxPublished(current[r], "sweep")
     \/ "markFails" \in Environment /\ UNCHANGED <<status, marker>>
  /\ UNCHANGED <<nextId, topic, attempts, aged, reqs, lock, current, batches, failed,
                 writer, published, enqueued, sent, crashes>>

\* Mutant: a failure does not stop the drain.
BatchDone_DrainsOn(r) ==
  /\ sweep[r] = "publish" /\ todo[r] = {}
  /\ \E more \in BOOLEAN :
       sweep' = [sweep EXCEPT ![r] =
                   IF more /\ batches[r] < MaxBatches THEN "claim" ELSE "prune"]
  /\ UNCHANGED <<rows, reqs, lock, todo, current, batches, failed, history>>

\* After a batch: drain on, unless an event failed, the context is done, the time
\* is up or the batches are.
BatchDone(r) ==
  /\ sweep[r] = "publish" /\ todo[r] = {}
  /\ \E more \in BOOLEAN :
       sweep' = [sweep EXCEPT ![r] =
                   IF more /\ failed[r] = {} /\ batches[r] < MaxBatches
                   THEN "claim" ELSE "prune"]
  /\ UNCHANGED <<rows, reqs, lock, todo, current, batches, failed, history>>

\* Mutant: the prune takes pending rows too.
PruneAndUnlock_AnyRow(r) ==
  /\ SweepStep(r, "prune", "idle")
  /\ \E old \in SUBSET {i \in Ids : status[i] # "none"} :
       status' = [i \in Ids |-> IF i \in old THEN "pruned" ELSE status[i]]
  /\ lock' = IF lock = r THEN NoReplica ELSE lock
  /\ current' = [current EXCEPT ![r] = 0]
  /\ batches' = [batches EXCEPT ![r] = 0]
  /\ failed' = [failed EXCEPT ![r] = {}]
  /\ UNCHANGED <<nextId, topic, attempts, aged, reqs, todo, history>>

\* PruneOutbox drops old marked rows, then the deferred unlock runs.
PruneAndUnlock(r) ==
  /\ SweepStep(r, "prune", "idle")
  /\ \E old \in SUBSET {i \in Ids : status[i] = "published"} :
       status' = [i \in Ids |-> IF i \in old THEN "pruned" ELSE status[i]]
  /\ lock' = IF lock = r THEN NoReplica ELSE lock
  /\ current' = [current EXCEPT ![r] = 0]
  /\ batches' = [batches EXCEPT ![r] = 0]
  /\ failed' = [failed EXCEPT ![r] = {}]
  /\ UNCHANGED <<nextId, topic, attempts, aged, reqs, todo, history>>

\* The session that holds the lock ends while the sweep goes on with the
\* connections of the pool.
LockLost ==
  /\ "lockLost" \in Environment
  /\ lock # NoReplica
  /\ lock' = NoReplica
  /\ UNCHANGED <<rows, reqs, sweeps, history>>

\* A replica dies: its requests and its sweep stop, its session lock is freed,
\* and it starts again with an ops worker that remembers nothing.
Crash(r) ==
  /\ "crash" \in Environment
  /\ crashes < MaxCrashes
  /\ crashes' = crashes + 1
  /\ pc' = [q \in Requests |->
              IF Home[q] = r /\ pc[q] \in InFlight THEN "crashed" ELSE pc[q]]
  /\ lock' = IF lock = r THEN NoReplica ELSE lock
  /\ sweep' = [sweep EXCEPT ![r] = "idle"]
  /\ todo' = [todo EXCEPT ![r] = {}]
  /\ current' = [current EXCEPT ![r] = 0]
  /\ batches' = [batches EXCEPT ![r] = 0]
  /\ failed' = [failed EXCEPT ![r] = {}]
  /\ UNCHANGED <<rows, kind, about, owed, found, writer, published, enqueued, sent, marker>>

RequestStep(q) ==
  PublishRecord(q) \/ EnqueueWebhooks(q) \/ LatestOutboxID(q) \/ MarkDelivered(q)

SweeperStep(r) ==
  \/ TryLock(r) \/ Claim(r) \/ SweepPublish(r) \/ SweepEnqueue(r) \/ SweepMark(r)
  \/ BatchDone(r) \/ PruneAndUnlock(r)

Next ==
  \/ \E q \in Requests, t \in Topics : RecordWrite(q, t) \/ NoopUpdate(q, t)
  \/ \E q \in Requests, n \in 1 .. MaxBatchOps :
       nextId + n <= MaxRows + 1 /\ \E f \in NewRows(n) : BatchWrite(q, f)
  \/ \E t \in Topics : SilentWrite(t)
  \/ \E q \in Requests : RequestStep(q)
  \/ \E i \in Ids : Age(i)
  \/ \E r \in Replicas :
       SweeperStep(r) \/ ClaimFails(r) \/ SweepEnqueueFails(r) \/ Crash(r)
  \/ LockLost

Spec == Init /\ [][Next]_vars

------------------------------------------------------------------------------
(* Properties *)

Settled(i) == status[i] \in {"published", "pruned"}

\* At most one replica sweeps at a time, as long as the session that holds the
\* advisory lock lives ("another replica is sweeping", core/outbox.go).
OneSweeper ==
  "lockLost" \notin Environment =>
    \A r1, r2 \in Replicas : sweep[r1] # "idle" /\ sweep[r2] # "idle" => r1 = r2

\* The event of an insert or a delete is never written off before somebody
\* published it, whatever crashes, races or fails: markDelivered runs after
\* publishRealtimeRecord and no other write shares the row's topic.
OnceEventNeverLost ==
  \A i \in Ids : topic[i] \in OnceTopics /\ Settled(i) => published[i] > 0

\* Of one record's updates no more rows are written off than events went out:
\* every request and every sweep publishes once before it marks once, even
\* when it marks the row of another request.
SettledCovered ==
  \A t \in Topics : Cardinality({i \in Ids : topic[i] = t /\ Settled(i)}) <= sent[t]

\* A sweep never takes up again an event it failed to deliver: the retries are
\* spread over the ticks (the comment in SweepOutbox, outbox_backlog_test.go).
NoRetryWithinSweep == \A r \in Replicas : failed[r] \cap todo[r] = {}

Casualty(i) == writer[i] \in Requests /\ pc[writer[i]] \in {"crashed", "unmarked"}

\* Nobody marks it: it was written by a batch, a tool or a cascade, or by a
\* request that looks for another spelling.
NeverMarked(i) == writer[i] \in Requests => kind[writer[i]] \in {"batch", "respelled"}

\* As long as a handler takes less than the minAge, the sweep takes of the inserts
\* and deletes only those whose handler died or could not mark them, besides those
\* nobody marks: an event that a request marks itself, whatever other requests and
\* sweeps do at the time, goes out twice only after a fault.
SweepTakesCasualties ==
  "slow" \notin Environment =>
    \A r \in Replicas : \A i \in todo[r] :
      topic[i] \in OnceTopics => Casualty(i) \/ NeverMarked(i)

\* What core/outbox.go says of every event: one whose writer is gone is not
\* written off while it has not gone out.
UpdateEventNeverLost ==
  \A i \in Ids :
    topic[i] \in UpdateTopics /\ Settled(i) /\ pc[writer[i]] \notin InFlight => published[i] > 0

\* What core/outbox.go says of the webhook deliveries, which the outbox owes as
\* it owes the realtime event.
WebhooksNeverLost == \A i \in Ids : Settled(i) => enqueued[i] > 0

------------------------------------------------------------------------------
(* Liveness.  A handler runs until it ends or its replica dies; time passes; *)
(* the ticker of every ops worker starts a sweep again and again and a sweep *)
(* goes on; a claim does not fail for ever.  Nothing says that a delivery    *)
(* ever succeeds, nor that a mark does.                                      *)

Fairness ==
  /\ \A q \in Requests : WF_vars(RequestStep(q))
  /\ \A i \in Ids : WF_vars(Age(i))
  /\ \A r \in Replicas :
       /\ WF_vars(TryLock(r))
       /\ SF_vars(Claim(r))
       /\ WF_vars(SweepPublish(r))
       /\ WF_vars(SweepEnqueue(r) \/ SweepEnqueueFails(r))
       /\ WF_vars(SweepMark(r))
       /\ WF_vars(BatchDone(r))
       /\ WF_vars(PruneAndUnlock(r))

FairSpec == Spec /\ Fairness

\* Every row is marked in the end or has spent its attempts: neither a crash in
\* the middle of a sweep nor older rows that keep failing hold it up for ever.
MarkedOrExhausted ==
  \A i \in Ids : Pending(i) ~> (~Pending(i) \/ attempts[i] = MaxAttempts)

------------------------------------------------------------------------------
(* Of inserts and deletes the outbox keeps the promise of EventDelivery. *)

OnceRows == {i \in Ids : topic[i] \in OnceTopics}

Promise == INSTANCE EventDelivery WITH
  Events <- Ids,
  committed <- OnceRows,
  delivered <- {i \in OnceRows : published[i] > 0},
  settled <- {i \in OnceRows : Settled(i)}

KeepsPromise == Promise!ESpec

------------------------------------------------------------------------------
(* The inductive invariant behind the properties above (OutboxProofs) *)

\* The sequence has handed out exactly the rows that exist.
RowsInv ==
  \A i \in Ids :
    /\ i < nextId <=> status[i] # "none"
    /\ i < nextId <=> topic[i] # NoTopic
    /\ status[i] = "none" => ~aged[i]

OnceInv ==
  \A i, j \in Ids : topic[i] \in OnceTopics /\ topic[i] = topic[j] => i = j

\* What a record handler has done when it comes to mark a row.
HandlerOK(q) ==
  /\ pc[q] = "lookup" => kind[q] # "batch"
  /\ pc[q] = "mark" => kind[q] = "record"
  /\ pc[q] # "idle" /\ kind[q] = "record" => about[q] \in Topics
  /\ pc[q] # "idle" /\ kind[q] = "record" /\ about[q] \in OnceTopics =>
       \E i \in Ids : /\ owed[q] = {i}
                      /\ topic[i] = about[q]
                      /\ pc[q] \in {"enqueue", "lookup", "mark"} => published[i] > 0
  /\ pc[q] = "mark" => found[q] \in Ids /\ topic[found[q]] = about[q]

HandlerInv == \A q \in Requests : HandlerOK(q)

\* What a sweep knows of the events it has claimed.
SweepOK(r) ==
  /\ sweep[r] \in {"enqueue", "mark"} =>
       current[r] \in todo[r] /\ published[current[r]] > 0
  /\ sweep[r] \in {"idle", "claim", "prune"} => todo[r] = {}
  /\ sweep[r] \in {"idle", "claim"} => failed[r] = {}
  /\ failed[r] \cap todo[r] = {}

SweepInv == \A r \in Replicas : SweepOK(r)

\* Requests and sweeps work on rows that are there.
OwedInv == \A q \in Requests : \A i \in owed[q] : topic[i] # NoTopic

PublishedInv == \A i \in Ids : published[i] > 0 => topic[i] # NoTopic

ClaimedInv == \A r \in Replicas : \A i \in todo[r] : topic[i] # NoTopic

LockInv ==
  "lockLost" \notin Environment =>
    \A r \in Replicas : sweep[r] # "idle" => lock = r

\* A row of an insert or a delete that a request wrote and looks for belongs to
\* it, and is marked when that request is done.
OwnerInv ==
  "slow" \notin Environment =>
    \A i \in Ids : topic[i] \in OnceTopics /\ writer[i] \in Requests =>
      /\ pc[writer[i]] # "idle"
      /\ kind[writer[i]] = "record" =>
           /\ about[writer[i]] = topic[i]
           /\ pc[writer[i]] = "done" => Settled(i)
           /\ aged[i] => pc[writer[i]] \notin InFlight

IInv ==
  /\ TypeOK
  /\ RowsInv
  /\ OnceInv
  /\ HandlerInv
  /\ SweepInv
  /\ OwedInv
  /\ ClaimedInv
  /\ PublishedInv
  /\ LockInv
  /\ OwnerInv
  /\ OnceEventNeverLost
  /\ SweepTakesCasualties
==============================================================================
