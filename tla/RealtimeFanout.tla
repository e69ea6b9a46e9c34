--------------------------- MODULE RealtimeFanout ----------------------------
(***************************************************************************)
(* Realtime on several replicas (apis/realtime.go, apis/realtime_ws.go,    *)
(* core/realtime_events.go, core/realtime_channels.go): record events and  *)
(* broadcasts are stored in a table, published to the hub of the replica   *)
(* they were made on, and polled by the others, whose hubs publish them to *)
(* the subscriptions there.  A WebSocket holds one subscription of each    *)
(* kind, an SSE stream one to record events.                               *)
(*                                                                         *)
(* A serial id is drawn before its row commits, so rows become visible out *)
(* of order.  LISTEN/NOTIFY only makes a replica poll before its ticker    *)
(* does: a poll may start at any time.  Rows older than 24 hours are       *)
(* pruned; a replica is assumed never to be that far behind.               *)
(***************************************************************************)
EXTENDS Naturals, FiniteSets, Sequences, Functions

CONSTANTS
  Replicas, Subscriptions,
  SubscriptionKind,  \* [Subscriptions -> Kinds]
  Filter,            \* [Subscriptions -> SUBSET Topics], {} for everything
  Topics,            \* collections with actions, or channels
  MaxEvents,         \* bound: events of both kinds
  BufferSize,        \* 64
  PollLimit,         \* limit 100
  MaxRestarts, MaxInsertFailures, \* bounds
  NoReplica

Kinds == {"record", "broadcast"}

ASSUME RealtimeAssumption ==
  /\ NoReplica \notin Replicas
  /\ SubscriptionKind \in [Subscriptions -> Kinds]
  /\ Filter \in [Subscriptions -> SUBSET Topics]
  /\ MaxEvents \in Nat \ {0} /\ BufferSize \in Nat \ {0} /\ PollLimit \in Nat \ {0}
  /\ MaxRestarts \in Nat /\ MaxInsertFailures \in Nat

VARIABLES
  drawn,     \* drawn[k]: ids drawn from the sequence of a table
  rows,      \* rows of realtime_events and realtime_broadcasts
  handlers,  \* requests that publish: their event and what is left to do
  start,     \* start[r]: source ids the replica has used
  last,      \* lastRecordID, lastBroadcastID of each replica
  polling,   \* polling[r]: the table being polled, or "idle"
  batch,     \* batch[r]: rows read, not yet published
  home,      \* home[s]: the replica a subscription is registered at
  buffer,    \* the channel of a subscription
  insertFailures,
  (* history *)
  taken,     \* taken[s]: events a subscription received, in order
  missed,    \* missed[s]: events that found its buffer full
  since,     \* since[s]: rows its replica had published when it subscribed
  passedBy   \* <<replica, event>>: the row was committed behind a poll

eventTables == <<drawn, rows>>
fanout == <<last, polling, batch>>
hubs == <<home, buffer, taken, missed, since>>
realtimeVars == <<eventTables, handlers, start, fanout, hubs, insertFailures, passedBy>>

Events == [kind : Kinds, id : 1 .. MaxEvents, at : Replicas, start : 0 .. MaxRestarts,
           topic : Topics]
Source(r) == <<r, start[r]>>
SourceOf(e) == <<e.at, e.start>>

RealtimeTypeOK ==
  /\ drawn \in [Kinds -> 0 .. MaxEvents]
  /\ rows \subseteq Events
  /\ handlers \subseteq [event : Events, step : {"insert", "publish"}]
  /\ start \in [Replicas -> 0 .. MaxRestarts]
  /\ last \in [Replicas -> [Kinds -> 0 .. MaxEvents]]
  /\ polling \in [Replicas -> Kinds \cup {"idle"}]
  /\ batch \in [Replicas -> Seq(Events)]
  /\ home \in [Subscriptions -> Replicas \cup {NoReplica}]
  /\ \A s \in Subscriptions :
       /\ buffer[s] \in Seq(Events) /\ Len(buffer[s]) <= BufferSize
       /\ taken[s] \in Seq(Events)
       /\ missed[s] \subseteq Events /\ since[s] \subseteq Events
  /\ insertFailures \in 0 .. MaxInsertFailures
  /\ passedBy \subseteq Replicas \X Events

RealtimeInit ==
  /\ drawn = [k \in Kinds |-> 0]
  /\ rows = {} /\ handlers = {}
  /\ start = [r \in Replicas |-> 0]
  /\ last = [r \in Replicas |-> [k \in Kinds |-> 0]]
  /\ polling = [r \in Replicas |-> "idle"]
  /\ batch = [r \in Replicas |-> <<>>]
  /\ home = [s \in Subscriptions |-> NoReplica]
  /\ buffer = [s \in Subscriptions |-> <<>>]
  /\ insertFailures = 0
  /\ taken = [s \in Subscriptions |-> <<>>]
  /\ missed = [s \in Subscriptions |-> {}]
  /\ since = [s \in Subscriptions |-> {}]
  /\ passedBy = {}

------------------------------------------------------------------------------
(* The hub of a replica *)

MatchesFilter(s, e) ==
  SubscriptionKind[s] = e.kind /\ (Filter[s] = {} \/ e.topic \in Filter[s])

\* Publishing blocks on nobody: an event that finds the buffer full is dropped.
HubPublish(r, e) ==
  LET to == {s \in Subscriptions : home[s] = r /\ MatchesFilter(s, e)}
      fits(s) == Len(buffer[s]) < BufferSize
  IN /\ buffer' = [s \in Subscriptions |->
                     IF s \in to /\ fits(s) THEN Append(buffer[s], e) ELSE buffer[s]]
     /\ missed' = [s \in Subscriptions |->
                     IF s \in to /\ ~fits(s) THEN missed[s] \cup {e} ELSE missed[s]]
     /\ UNCHANGED <<home, taken, since>>

\* The rows a replica has behind it: polled ones it published, and its own.
Behind(r) == {e \in rows : e.id <= last[r][e.kind] \/ SourceOf(e) = Source(r)}

Subscribe(s, r) ==
  /\ home[s] = NoReplica
  /\ home' = [home EXCEPT ![s] = r]
  /\ since' = [since EXCEPT ![s] = Behind(r)]
  /\ UNCHANGED <<eventTables, handlers, start, fanout, buffer, taken, missed, insertFailures,
                 passedBy>>

Disconnected(S) ==
  /\ home' = [s \in Subscriptions |-> IF s \in S THEN NoReplica ELSE home[s]]
  /\ buffer' = [s \in Subscriptions |-> IF s \in S THEN <<>> ELSE buffer[s]]
  /\ taken' = [s \in Subscriptions |-> IF s \in S THEN <<>> ELSE taken[s]]
  /\ missed' = [s \in Subscriptions |-> IF s \in S THEN {} ELSE missed[s]]
  /\ since' = [s \in Subscriptions |-> IF s \in S THEN {} ELSE since[s]]

Unsubscribe(s) ==
  /\ home[s] # NoReplica
  /\ Disconnected({s})
  /\ UNCHANGED <<eventTables, handlers, start, fanout, insertFailures, passedBy>>

\* The stream takes the next event; whether its client may see it is decided then, by
\* reading the record again (a question of row security, left out here).
Receive(s) ==
  /\ buffer[s] # <<>>
  /\ buffer' = [buffer EXCEPT ![s] = Tail(@)]
  /\ taken' = [taken EXCEPT ![s] = Append(@, Head(buffer[s]))]
  /\ UNCHANGED <<eventTables, handlers, start, fanout, home, missed, since, insertFailures,
                 passedBy>>

------------------------------------------------------------------------------
(* Requests: store the event, then publish it on their own replica *)

BeginInsert(r, k, t) ==
  /\ drawn["record"] + drawn["broadcast"] < MaxEvents
  /\ drawn' = [drawn EXCEPT ![k] = @ + 1]
  /\ handlers' = handlers \cup
       {[event |-> [kind |-> k, id |-> drawn[k] + 1, at |-> r, start |-> start[r],
                    topic |-> t],
         step |-> "insert"]}
  /\ UNCHANGED <<rows, start, fanout, hubs, insertFailures, passedBy>>

\* Replicas that will not see e any more: they have passed its id, or hold a later row.
Passed(e) ==
  {r \in Replicas : \/ last[r][e.kind] >= e.id
                    \/ \E i \in DOMAIN batch[r] : batch[r][i].kind = e.kind /\ batch[r][i].id > e.id}

Inserted(e) ==
  /\ rows' = rows \cup {e}
  /\ passedBy' = passedBy \cup {<<r, e>> : r \in Passed(e)}

CommitInsert(h) ==
  /\ h \in handlers /\ h.step = "insert"
  /\ Inserted(h.event)
  /\ handlers' = (handlers \ {h}) \cup {[h EXCEPT !.step = "publish"]}
  /\ UNCHANGED <<drawn, start, fanout, hubs, insertFailures>>

\* A failed or timed out insert, whose row may be there all the same.  A record event is
\* published locally after it, a broadcast is not.
InsertEventFails(h) ==
  /\ h \in handlers /\ h.step = "insert"
  /\ insertFailures < MaxInsertFailures
  /\ insertFailures' = insertFailures + 1
  /\ Inserted(h.event) \/ UNCHANGED <<rows, passedBy>>
  /\ handlers' = (handlers \ {h}) \cup
       (IF h.event.kind = "record" THEN {[h EXCEPT !.step = "publish"]} ELSE {})
  /\ UNCHANGED <<drawn, start, fanout, hubs>>

PublishLocal(h) ==
  /\ h \in handlers /\ h.step = "publish"
  /\ HubPublish(h.event.at, h.event)
  /\ handlers' = handlers \ {h}
  /\ UNCHANGED <<eventTables, start, fanout, insertFailures, passedBy>>

------------------------------------------------------------------------------
(* The fan-out loop of a replica *)

\* Rows the replica has not passed, but for those it stored itself
Unpolled_OwnToo(r, k) == {e \in rows : e.kind = k /\ e.id > last[r][k]}

Unpolled(r, k) == {e \in rows : e.kind = k /\ e.id > last[r][k] /\ SourceOf(e) # Source(r)}

\* The first of them, in the order of their ids: ORDER BY id LIMIT 100.
ListAfter(r, k) ==
  LET found == Unpolled(r, k)
      n == IF Cardinality(found) < PollLimit THEN Cardinality(found) ELSE PollLimit
  IN {list \in [1 .. n -> found] :
        /\ \A i, j \in 1 .. n : i < j => list[i].id < list[j].id
        /\ \A i \in 1 .. n, e \in found \ Range(list) : list[i].id < e.id}

StartPoll(r) ==
  /\ polling[r] = "idle"
  /\ \E k \in Kinds : Unpolled(r, k) # {}
  /\ polling' = [polling EXCEPT ![r] = "record"]
  /\ \E list \in ListAfter(r, "record") : batch' = [batch EXCEPT ![r] = list]
  /\ UNCHANGED <<eventTables, handlers, start, last, hubs, insertFailures, passedBy>>

PublishNext_JumpsAhead(r) ==
  /\ batch[r] # <<>>
  /\ LET e == Head(batch[r])
     IN /\ last' = [last EXCEPT ![r][e.kind] = drawn[e.kind]]
        /\ HubPublish(r, e)
  /\ batch' = [batch EXCEPT ![r] = Tail(@)]
  /\ UNCHANGED <<eventTables, handlers, start, polling, insertFailures, passedBy>>

PublishNext(r) ==
  /\ batch[r] # <<>>
  /\ LET e == Head(batch[r])
     IN /\ last' = [last EXCEPT ![r][e.kind] = IF e.id > @ THEN e.id ELSE @]
        /\ HubPublish(r, e)
  /\ batch' = [batch EXCEPT ![r] = Tail(@)]
  /\ UNCHANGED <<eventTables, handlers, start, polling, insertFailures, passedBy>>

\* Rows of more than 24 hours, which every replica has behind it.
Prunable(k) == {e \in rows : e.kind = k /\ \A q \in Replicas : e \in Behind(q)}

\* Published a batch: prune its table, and read the other or wait for the next tick.
EndBatch(r) ==
  /\ polling[r] # "idle" /\ batch[r] = <<>>
  /\ \E old \in {{}, Prunable(polling[r])} : rows' = rows \ old
  /\ IF polling[r] = "record"
     THEN /\ polling' = [polling EXCEPT ![r] = "broadcast"]
          /\ \E list \in ListAfter(r, "broadcast") : batch' = [batch EXCEPT ![r] = list]
     ELSE /\ polling' = [polling EXCEPT ![r] = "idle"]
          /\ UNCHANGED batch
  /\ UNCHANGED <<drawn, handlers, start, last, hubs, insertFailures, passedBy>>

\* A replica comes back with a new source id and polls from 0: it publishes what is left
\* of the last 24 hours, its own events among them.  Connections and requests are gone.
Restart(r) ==
  /\ FoldFunction(+, 0, start) < MaxRestarts
  /\ start' = [start EXCEPT ![r] = @ + 1]
  /\ last' = [last EXCEPT ![r] = [k \in Kinds |-> 0]]
  /\ polling' = [polling EXCEPT ![r] = "idle"]
  /\ batch' = [batch EXCEPT ![r] = <<>>]
  /\ handlers' = {h \in handlers : h.event.at # r}
  /\ Disconnected({s \in Subscriptions : home[s] = r})
  /\ passedBy' = {o \in passedBy : o[1] # r}
  /\ UNCHANGED <<eventTables, insertFailures>>

------------------------------------------------------------------------------
PollStep(r) == StartPoll(r) \/ PublishNext(r) \/ EndBatch(r)

RealtimeNext ==
  \/ \E s \in Subscriptions, r \in Replicas : Subscribe(s, r)
  \/ \E s \in Subscriptions : Unsubscribe(s) \/ Receive(s)
  \/ \E r \in Replicas, k \in Kinds, t \in Topics : BeginInsert(r, k, t)
  \/ \E h \in handlers : CommitInsert(h) \/ InsertEventFails(h) \/ PublishLocal(h)
  \/ \E r \in Replicas : PollStep(r) \/ Restart(r)

RealtimeSpec == RealtimeInit /\ [][RealtimeNext]_realtimeVars

------------------------------------------------------------------------------
(* Properties *)

Stream(s) == taken[s] \o buffer[s]

\* A connection is sent no event twice, and the events of other replicas in the order of
\* their ids, although local requests and polls publish to it side by side.
StreamOnceInOrder ==
  \A s \in Subscriptions : home[s] # NoReplica =>
    \A i, j \in DOMAIN Stream(s) : i < j =>
      LET e == Stream(s)[i] f == Stream(s)[j]
      IN /\ e # f
         /\ (e.at # home[s] /\ f.at # home[s]) => e.id < f.id

\* What a replica has passed went to everyone connected since before: only a full buffer
\* or a row committed behind a later one costs a subscription an event.
NothingSkipped ==
  \A s \in Subscriptions : home[s] # NoReplica =>
    \A e \in rows :
      (/\ MatchesFilter(s, e) /\ SourceOf(e) # Source(home[s])
       /\ e.id <= last[home[s]][e.kind])
      => \/ e \in Range(Stream(s)) \cup missed[s] \cup since[s]
         \/ <<home[s], e>> \in passedBy
==============================================================================
