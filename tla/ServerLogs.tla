------------------------------ MODULE ServerLogs -------------------------------
(***************************************************************************)
(* The access log and the end of a process (core/request_log_writer.go,    *)
(* core/request_logs.go, apis/middleware.go, cmd/serve.go): handlers queue *)
(* an event each without ever waiting, one goroutine writes them to the    *)
(* database in batches, and a process that is told to stop waits 15        *)
(* seconds for its handlers, then for that goroutine to drain the queue.   *)
(* A process whose listener fails (ListenAndServe returns an error, on the *)
(* bind or on an accept) returns at once, and does not close the writer.   *)
(*                                                                         *)
(* A batch is sent in one go, which PostgreSQL runs as one transaction: a  *)
(* row that it refuses (a path cut inside a character, say) takes the      *)
(* others of its batch with it.                                            *)
(***************************************************************************)
EXTENDS Naturals, SequencesExt

CONSTANTS
  LoggedRequests,
  RefusedRows,    \* requests whose rows the database refuses
  LogBuffer,      \* 4096
  LogBatch,       \* 250
  RetentionCount  \* rows that retention leaves

ASSUME LogsAssumption ==
  /\ RefusedRows \subseteq LoggedRequests
  /\ LogBuffer \in Nat \ {0} /\ LogBatch \in Nat \ {0} /\ RetentionCount \in Nat

VARIABLES
  process,   \* serving, shutting down, closing the log writer, gone; or failed
  handling,  \* handling[q]: a request not yet made, running, or recorded
  events,    \* the channel
  batchRead, \* the writer's batch
  writer,    \* loop, draining after stop, at its last batch, or gone
  writing,   \* the batch is being written
  requestLogs, \* _dbo.request_logs, oldest first
  pruning,   \* the retention lock is held between its two statements
  (* history *)
  recorded,  \* events handed over before the writer was told to stop
  ended      \* events logged, dropped at a full buffer, or lost with their batch

logVars == <<process, handling, events, batchRead, writer, writing, requestLogs, pruning,
             recorded, ended>>

LogsTypeOK ==
  /\ process \in {"serving", "shutdown", "closing", "gone", "failed"}
  /\ handling \in [LoggedRequests -> {"none", "running", "done"}]
  /\ events \in Seq(LoggedRequests) /\ Len(events) <= LogBuffer
  /\ batchRead \in Seq(LoggedRequests) /\ Len(batchRead) <= LogBatch
  /\ writer \in {"loop", "draining", "last", "gone"}
  /\ writing \in BOOLEAN /\ pruning \in BOOLEAN
  /\ requestLogs \in Seq(LoggedRequests)
  /\ recorded \subseteq LoggedRequests /\ ended \subseteq LoggedRequests

LogsInit ==
  /\ process = "serving"
  /\ handling = [q \in LoggedRequests |-> "none"]
  /\ events = <<>> /\ batchRead = <<>> /\ requestLogs = <<>>
  /\ writer = "loop" /\ writing = FALSE /\ pruning = FALSE
  /\ recorded = {} /\ ended = {}

------------------------------------------------------------------------------
Alive == process \notin {"gone", "failed"}

Accept(q) ==
  /\ process = "serving" /\ handling[q] = "none"
  /\ handling' = [handling EXCEPT ![q] = "running"]
  /\ UNCHANGED <<process, events, batchRead, writer, writing, requestLogs, pruning, recorded, ended>>

\* The last thing a handler does, of a process that is there to do it: queue, or drop.
Record(q) ==
  /\ Alive /\ handling[q] = "running"
  /\ handling' = [handling EXCEPT ![q] = "done"]
  /\ recorded' = IF process = "closing" THEN recorded ELSE recorded \cup {q}
  /\ IF Len(events) < LogBuffer
     THEN events' = Append(events, q) /\ UNCHANGED ended
     ELSE ended' = ended \cup {q} /\ UNCHANGED events
  /\ UNCHANGED <<process, batchRead, writer, writing, requestLogs, pruning>>

\* SIGTERM; then the handlers end or time runs out; then the writer is closed and awaited.
ShutDown ==
  /\ process = "serving"
  /\ process' = "shutdown"
  /\ UNCHANGED <<handling, events, batchRead, writer, writing, requestLogs, pruning, recorded, ended>>

CloseWriter ==
  /\ process = "shutdown"
  /\ process' = "closing"
  /\ UNCHANGED <<handling, events, batchRead, writer, writing, requestLogs, pruning, recorded, ended>>

Exit ==
  /\ process = "closing" /\ writer = "gone"
  /\ process' = "gone"
  /\ UNCHANGED <<handling, events, batchRead, writer, writing, requestLogs, pruning, recorded, ended>>

\* The error branch of the select: whatever is queued goes with the process.
ListenerFails ==
  /\ process = "serving"
  /\ process' = "failed"
  /\ UNCHANGED <<handling, events, batchRead, writer, writing, requestLogs, pruning, recorded, ended>>

------------------------------------------------------------------------------
(* The writer *)

TakeEvent ==
  /\ Alive /\ writer \in {"loop", "draining"} /\ ~writing /\ events # <<>>
  /\ events' = Tail(events)
  /\ batchRead' = Append(batchRead, Head(events))
  /\ writing' = (Len(batchRead) + 1 >= LogBatch)
  /\ UNCHANGED <<process, handling, writer, requestLogs, pruning, recorded, ended>>

FlushTimer ==
  /\ Alive /\ writer = "loop" /\ ~writing /\ batchRead # <<>>
  /\ writing' = TRUE
  /\ UNCHANGED <<process, handling, events, batchRead, writer, requestLogs, pruning, recorded, ended>>

\* The database may be down, or time out, too.
WriteBatch ==
  /\ Alive /\ writing
  /\ writing' = FALSE /\ batchRead' = <<>>
  /\ ended' = ended \cup Range(batchRead)
  /\ \/ Range(batchRead) \cap RefusedRows = {} /\ requestLogs' = requestLogs \o batchRead
     \/ UNCHANGED requestLogs
  /\ writer' = IF writer = "last" THEN "gone" ELSE writer
  /\ UNCHANGED <<process, handling, events, pruning, recorded>>

StopSeen ==
  /\ writer = "loop" /\ ~writing /\ process = "closing"
  /\ writer' = "draining"
  /\ UNCHANGED <<process, handling, events, batchRead, writing, requestLogs, pruning, recorded, ended>>

WriterEnds_AtOnce ==
  /\ writer = "draining" /\ ~writing
  /\ IF batchRead # <<>>
     THEN writing' = TRUE /\ writer' = "last"
     ELSE writer' = "gone" /\ UNCHANGED writing
  /\ UNCHANGED <<process, handling, events, batchRead, requestLogs, pruning, recorded, ended>>

\* Nothing is queued: what is left of a batch is written, and the goroutine returns.
WriterEnds ==
  /\ writer = "draining" /\ ~writing /\ events = <<>>
  /\ IF batchRead # <<>>
     THEN writing' = TRUE /\ writer' = "last"
     ELSE writer' = "gone" /\ UNCHANGED writing
  /\ UNCHANGED <<process, handling, events, batchRead, requestLogs, pruning, recorded, ended>>

------------------------------------------------------------------------------
(* Retention, by the ops worker of any replica *)

PruneByAge ==
  /\ ~pruning
  /\ pruning' = TRUE
  /\ \E n \in 0 .. Len(requestLogs) : requestLogs' = SubSeq(requestLogs, n + 1, Len(requestLogs))
  /\ UNCHANGED <<process, handling, events, batchRead, writer, writing, recorded, ended>>

PruneByCount ==
  /\ pruning
  /\ pruning' = FALSE
  /\ requestLogs' = IF Len(requestLogs) <= RetentionCount THEN requestLogs
                    ELSE SubSeq(requestLogs, Len(requestLogs) - RetentionCount + 1, Len(requestLogs))
  /\ UNCHANGED <<process, handling, events, batchRead, writer, writing, recorded, ended>>

ClearRequestLogs ==
  /\ requestLogs # <<>>
  /\ requestLogs' = <<>>
  /\ UNCHANGED <<process, handling, events, batchRead, writer, writing, pruning, recorded, ended>>

------------------------------------------------------------------------------
LogsNext ==
  \/ \E q \in LoggedRequests : Accept(q) \/ Record(q)
  \/ ShutDown \/ CloseWriter \/ Exit \/ ListenerFails
  \/ TakeEvent \/ FlushTimer \/ WriteBatch \/ StopSeen \/ WriterEnds
  \/ PruneByAge \/ PruneByCount \/ ClearRequestLogs

LogsSpec == LogsInit /\ [][LogsNext]_logVars

------------------------------------------------------------------------------
(* Properties *)

\* A process that was told to stop has, when it has left, taken to the database whatever its
\* handlers had recorded before the writer was closed, save what a full buffer or a failed batch
\* cost, although handlers that outlived the 15 seconds still record while the writer drains.
\* One whose listener failed closes nothing: it loses events, and those are no more than its
\* buffer and one batch hold.
DrainedOnClose ==
  /\ process = "gone" => recorded \subseteq ended
  /\ process = "failed" => Cardinality(recorded \ ended) <= LogBuffer + LogBatch
==============================================================================
