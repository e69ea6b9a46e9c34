---------------------------- MODULE ServerProofs ----------------------------
(***************************************************************************)
(* Proofs about ServerLogs, for any requests and any sizes of its queue    *)
(* and of its batches, about Settings, for any environments and any        *)
(* overlaps of updates, about RealtimeFanout, for any replicas,            *)
(* connections, buffers and faults, and about RequestLimits, for any keys, *)
(* limits and windows.                                                     *)
(***************************************************************************)
EXTENDS ServerLogs, Settings, RealtimeFanout, RequestLimits, FiniteSetTheorems, SequenceTheorems, TLAPS

\* What the range of a queue or a batch is after an event went in or out.
LEMMA RangeOfAppend ==
  ASSUME NEW S, NEW s \in Seq(S), NEW e \in S
  PROVE  Range(Append(s, e)) = Range(s) \cup {e}
<1> DEFINE t == Append(s, e)
<1>1. DOMAIN s = 1 .. Len(s) /\ Len(s) \in Nat /\ DOMAIN t = 1 .. Len(s) + 1
  OBVIOUS
<1>2. (\A i \in DOMAIN s : t[i] = s[i]) /\ t[Len(s) + 1] = e
  OBVIOUS
<1> HIDE DEF t
<1>3. Range(t) \subseteq Range(s) \cup {e}
  <2> SUFFICES ASSUME NEW i \in DOMAIN t PROVE t[i] \in Range(s) \cup {e}
    BY DEF Range
  <2>1. CASE i = Len(s) + 1
    BY <1>2, <2>1
  <2>2. CASE i # Len(s) + 1
    <3>1. i \in DOMAIN s /\ t[i] = s[i]
      BY <1>1, <1>2, <2>2
    <3> QED BY <3>1 DEF Range
  <2> QED BY <2>1, <2>2
<1>4. Range(s) \cup {e} \subseteq Range(t)
  <2>1. ASSUME NEW i \in DOMAIN s PROVE s[i] \in Range(t)
    <3>1. i \in DOMAIN t /\ t[i] = s[i]
      BY <1>1, <1>2
    <3> QED BY <3>1 DEF Range
  <2>2. e \in Range(t)
    <3>1. Len(s) + 1 \in DOMAIN t /\ t[Len(s) + 1] = e
      BY <1>1, <1>2
    <3> QED BY <3>1 DEF Range
  <2> QED BY <2>1, <2>2 DEF Range
<1> QED BY <1>3, <1>4 DEF t

LEMMA RangeOfTail ==
  ASSUME NEW S, NEW s \in Seq(S), s # <<>>
  PROVE  Range(s) = {Head(s)} \cup Range(Tail(s))
<1>1. DOMAIN Tail(s) = 1 .. Len(s) - 1 /\ \A i \in DOMAIN Tail(s) : Tail(s)[i] = s[i + 1]
  OBVIOUS
<1>2. Head(s) = s[1] /\ DOMAIN s = 1 .. Len(s) /\ Len(s) \in Nat \ {0}
  OBVIOUS
<1>3. Range(s) \subseteq {Head(s)} \cup Range(Tail(s))
  <2> SUFFICES ASSUME NEW i \in DOMAIN s PROVE s[i] \in {Head(s)} \cup Range(Tail(s))
    BY DEF Range
  <2>1. CASE i = 1
    BY <1>2, <2>1
  <2>2. CASE i # 1
    <3>1. i - 1 \in DOMAIN Tail(s) /\ Tail(s)[i - 1] = s[i]
      BY <1>1, <1>2, <2>2
    <3> QED BY <3>1 DEF Range
  <2> QED BY <2>1, <2>2
<1>4. {Head(s)} \cup Range(Tail(s)) \subseteq Range(s)
  <2>1. \A i \in DOMAIN Tail(s) : Tail(s)[i] \in Range(s)
    <3> SUFFICES ASSUME NEW i \in DOMAIN Tail(s) PROVE Tail(s)[i] \in Range(s)
      OBVIOUS
    <3>1. i + 1 \in DOMAIN s /\ Tail(s)[i] = s[i + 1]
      BY <1>1, <1>2
    <3> QED BY <3>1 DEF Range
  <2>2. Head(s) \in Range(s)
    BY <1>2 DEF Range
  <2> QED BY <2>1, <2>2 DEF Range
<1> QED BY <1>3, <1>4

\* A queue of at most n events holds at most n different ones.
LEMMA RangeWithin ==
  ASSUME NEW S, NEW s \in Seq(S), NEW n \in Nat, Len(s) <= n
  PROVE  IsFiniteSet(Range(s)) /\ Cardinality(Range(s)) <= n
<1>1. DOMAIN s = 1 .. Len(s) /\ Len(s) \in Nat
  OBVIOUS
<1>2. IsFiniteSet(1 .. Len(s)) /\ Cardinality(1 .. Len(s)) = Len(s)
  <2>1. 1 \in Int /\ Len(s) \in Int /\ (Len(s) < 1 => Len(s) = 0)
    BY <1>1
  <2>2. Cardinality(1 .. Len(s)) = (IF 1 > Len(s) THEN 0 ELSE Len(s) - 1 + 1) /\ IsFiniteSet(1 .. Len(s))
    BY <2>1, FS_Interval
  <2> QED BY <1>1, <2>1, <2>2
<1>3. Range(s) = {s[i] : i \in 1 .. Len(s)}
  BY <1>1 DEF Range
<1>4. s \in Surjection(1 .. Len(s), Range(s))
  BY <1>1, <1>3 DEF Surjection
<1>5. IsFiniteSet(Range(s)) /\ Cardinality(Range(s)) <= Cardinality(1 .. Len(s))
  BY <1>2, <1>4, FS_Surjection
<1> QED BY <1>1, <1>2, <1>5, FS_CardinalityType

QueuesOK == events \in Seq(LoggedRequests) /\ batchRead \in Seq(LoggedRequests)

\* Nothing recorded in time is anywhere but in the queue, in the batch, or ended, and in fewer
\* places the further the writer has come; it leaves the loop only once it was told to, after which
\* nothing more is recorded in time.
DrainInv ==
  /\ writer \in {"loop", "draining", "last", "gone"}
  /\ writer # "loop" => process \in {"closing", "gone"}
  /\ process = "gone" => writer = "gone"
  /\ writer = "last" => writing
  /\ recorded \subseteq ended \cup Range(events) \cup Range(batchRead)
  /\ writer = "last" => recorded \subseteq ended \cup Range(batchRead)
  /\ writer = "gone" => recorded \subseteq ended

LogsInv == QueuesOK /\ DrainInv

LEMMA LogsInitially == LogsInit => LogsInv
BY DEF LogsInit, LogsInv, QueuesOK, DrainInv, Range

LEMMA LogsPreserved == ASSUME LogsAssumption, LogsInv, [LogsNext]_logVars PROVE LogsInv'
<1> USE DEF LogsInv, QueuesOK
<1>1. CASE UNCHANGED logVars
  BY <1>1 DEF logVars, DrainInv
<1>2. ASSUME NEW q \in LoggedRequests, Accept(q) PROVE LogsInv'
  BY <1>2 DEF Accept, DrainInv
<1>3. ASSUME NEW q \in LoggedRequests, Record(q) PROVE LogsInv'
  <2>1. CASE Len(events) < LogBuffer
    <3>1. events' = Append(events, q) /\ Range(events') = Range(events) \cup {q}
      BY <1>3, <2>1, RangeOfAppend DEF Record
    <3>2. QueuesOK'
      BY <1>3, <3>1 DEF Record
    <3>3. DrainInv'
      BY <1>3, <2>1, <3>1 DEF Record, DrainInv, Alive
    <3> QED BY <3>2, <3>3
  <2>2. CASE ~(Len(events) < LogBuffer)
    BY <1>3, <2>2 DEF Record, DrainInv
  <2> QED BY <2>1, <2>2
<1>4. ASSUME ShutDown \/ CloseWriter PROVE LogsInv'
  BY <1>4 DEF ShutDown, CloseWriter, DrainInv
<1>5. ASSUME Exit \/ ListenerFails PROVE LogsInv'
  BY <1>5 DEF Exit, ListenerFails, DrainInv
<1>6. ASSUME TakeEvent PROVE LogsInv'
  <2>1. events # <<>> /\ Head(events) \in LoggedRequests
    BY <1>6 DEF TakeEvent
  <2>2. Range(events) = {Head(events)} \cup Range(events')
    BY <1>6, <2>1, RangeOfTail DEF TakeEvent
  <2>3. Range(batchRead') = Range(batchRead) \cup {Head(events)}
    BY <1>6, <2>1, RangeOfAppend DEF TakeEvent
  <2>4. QueuesOK'
    BY <1>6, <2>1 DEF TakeEvent
  <2>5. DrainInv'
    BY <1>6, <2>2, <2>3 DEF TakeEvent, DrainInv
  <2> QED BY <2>4, <2>5
<1>7. ASSUME FlushTimer PROVE LogsInv'
  BY <1>7 DEF FlushTimer, DrainInv
<1>8. ASSUME WriteBatch PROVE LogsInv'
  <2>1. /\ batchRead' = <<>> /\ ended' = ended \cup Range(batchRead)
        /\ UNCHANGED <<process, events, recorded>>
        /\ writer' = IF writer = "last" THEN "gone" ELSE writer
    BY <1>8 DEF WriteBatch
  <2> QED BY <2>1 DEF DrainInv
<1>9. ASSUME StopSeen PROVE LogsInv'
  BY <1>9 DEF StopSeen, DrainInv
<1>10. ASSUME WriterEnds PROVE LogsInv'
  <2>1. Range(events) = {} /\ (batchRead = <<>> => Range(batchRead) = {})
    BY <1>10 DEF WriterEnds, Range
  <2> QED BY <1>10, <2>1 DEF WriterEnds, DrainInv
<1>11. ASSUME PruneByAge \/ PruneByCount \/ ClearRequestLogs PROVE LogsInv'
  BY <1>11 DEF PruneByAge, PruneByCount, ClearRequestLogs, DrainInv
<1> QED BY <1>1, <1>2, <1>3, <1>4, <1>5, <1>6, <1>7, <1>8, <1>9, <1>10, <1>11 DEF LogsNext

\* What is kept in memory stays within the buffer and a batch: one that is full is written before
\* another event is taken.
LogsSizes ==
  /\ process \in {"serving", "shutdown", "closing", "gone", "failed"}
  /\ handling \in [LoggedRequests -> {"none", "running", "done"}]
  /\ events \in Seq(LoggedRequests) /\ Len(events) <= LogBuffer
  /\ batchRead \in Seq(LoggedRequests) /\ Len(batchRead) <= LogBatch
  /\ ~writing => Len(batchRead) < LogBatch
  /\ writer \in {"loop", "draining", "last", "gone"}
  /\ requestLogs \in Seq(LoggedRequests)
  /\ recorded \subseteq LoggedRequests /\ ended \subseteq LoggedRequests
LogsSwitches == writing \in BOOLEAN /\ pruning \in BOOLEAN

LEMMA SwitchesPreserved == ASSUME LogsSwitches, [LogsNext]_logVars PROVE LogsSwitches'
<1> USE DEF LogsSwitches
<1>1. CASE UNCHANGED logVars
  BY <1>1 DEF logVars
<1>2. ASSUME TakeEvent PROVE writing' = (Len(batchRead) + 1 >= LogBatch) /\ pruning' = pruning
  BY <1>2 DEF TakeEvent
<1>3. CASE TakeEvent
  <2>1. (Len(batchRead) + 1 >= LogBatch) \in BOOLEAN
    OBVIOUS
  <2> QED BY <1>2, <1>3, <2>1, Zenon
<1>4. CASE \E q \in LoggedRequests : Accept(q) \/ Record(q)
  BY <1>4, Zenon DEF Accept, Record
<1>5. CASE ShutDown \/ CloseWriter \/ Exit \/ ListenerFails \/ FlushTimer \/ WriteBatch \/ StopSeen
  BY <1>5, Zenon DEF ShutDown, CloseWriter, Exit, ListenerFails, FlushTimer, WriteBatch, StopSeen
<1>6. CASE WriterEnds
  BY <1>6, Zenon DEF WriterEnds
<1>7. CASE PruneByAge \/ PruneByCount \/ ClearRequestLogs
  BY <1>7, Zenon DEF PruneByAge, PruneByCount, ClearRequestLogs
<1> QED BY <1>1, <1>3, <1>4, <1>5, <1>6, <1>7 DEF LogsNext

LEMMA LogsSizesPreserved == ASSUME LogsSizes, [LogsNext]_logVars PROVE LogsSizes'
<1> USE DEF LogsSizes
<1>1. CASE UNCHANGED logVars
  BY <1>1 DEF logVars
<1>2. ASSUME NEW q \in LoggedRequests, Accept(q) PROVE LogsSizes'
  BY <1>2 DEF Accept
<1>3. ASSUME NEW q \in LoggedRequests, Record(q) PROVE LogsSizes'
  <2>1. handling' \in [LoggedRequests -> {"none", "running", "done"}]
    BY <1>3 DEF Record
  <2>2. events' \in Seq(LoggedRequests) /\ Len(events') <= LogBuffer /\ ended' \subseteq LoggedRequests
    <3>1. CASE Len(events) < LogBuffer
      <4>1. events' = Append(events, q) /\ ended' = ended
        BY <1>3, <3>1 DEF Record
      <4>2. Append(events, q) \in Seq(LoggedRequests) /\ Len(Append(events, q)) = Len(events) + 1
        OBVIOUS
      <4>3. Len(events) \in Nat /\ LogBuffer \in Nat
        BY LogsAssumption
      <4> QED BY <3>1, <4>1, <4>2, <4>3
    <3>2. CASE ~(Len(events) < LogBuffer)
      BY <1>3, <3>2 DEF Record
    <3> QED BY <3>1, <3>2
  <2>3. recorded' \subseteq LoggedRequests
    BY <1>3 DEF Record
  <2> QED BY <1>3, <2>1, <2>2, <2>3 DEF Record
<1>4. ASSUME ShutDown \/ CloseWriter \/ Exit \/ ListenerFails PROVE LogsSizes'
  BY <1>4 DEF ShutDown, CloseWriter, Exit, ListenerFails
<1>5. ASSUME TakeEvent PROVE LogsSizes'
  <2>1. events # <<>> /\ Head(events) \in LoggedRequests /\ Len(batchRead) < LogBatch
    BY <1>5 DEF TakeEvent
  <2>2. events' \in Seq(LoggedRequests) /\ Len(events') <= LogBuffer
    BY <1>5, <2>1, LogsAssumption DEF TakeEvent
  <2>3. /\ batchRead' \in Seq(LoggedRequests) /\ Len(batchRead') = Len(batchRead) + 1
        /\ writing' = (Len(batchRead) + 1 >= LogBatch)
    BY <1>5, <2>1 DEF TakeEvent
  <2>4. Len(batchRead) \in Nat /\ LogBatch \in Nat
    BY LogsAssumption
  <2>5. Len(batchRead') <= LogBatch
    BY <2>1, <2>3, <2>4
  <2>6. ~writing' => Len(batchRead') < LogBatch
    <3>1. ASSUME ~(Len(batchRead) + 1 >= LogBatch) PROVE Len(batchRead') < LogBatch
      BY <2>3, <2>4, <3>1
    <3> QED BY <2>3, <3>1
  <2> QED BY <1>5, <2>2, <2>3, <2>5, <2>6 DEF TakeEvent
<1>6. ASSUME FlushTimer PROVE LogsSizes'
  BY <1>6 DEF FlushTimer
<1>7. ASSUME WriteBatch PROVE LogsSizes'
  <2>1. batchRead' = <<>> /\ Len(batchRead') = 0 /\ writing' = FALSE
    BY <1>7 DEF WriteBatch
  <2>2. requestLogs' \in Seq(LoggedRequests)
    <3>1. requestLogs' = requestLogs \o batchRead \/ requestLogs' = requestLogs
      BY <1>7 DEF WriteBatch
    <3>2. requestLogs \o batchRead \in Seq(LoggedRequests)
      OBVIOUS
    <3> QED BY <3>1, <3>2
  <2>3. Range(batchRead) \subseteq LoggedRequests
    BY DEF Range
  <2>4. ended' \subseteq LoggedRequests
    BY <1>7, <2>3 DEF WriteBatch
  <2> QED BY <1>7, <2>1, <2>2, <2>4, LogsAssumption DEF WriteBatch
<1>8. ASSUME StopSeen \/ WriterEnds PROVE LogsSizes'
  BY <1>8 DEF StopSeen, WriterEnds
<1>9. ASSUME PruneByAge \/ PruneByCount \/ ClearRequestLogs PROVE LogsSizes'
  <2>1. requestLogs' \in Seq(LoggedRequests)
    <3>1. ASSUME NEW n \in 0 .. Len(requestLogs)
          PROVE  SubSeq(requestLogs, n + 1, Len(requestLogs)) \in Seq(LoggedRequests)
      OBVIOUS
    <3>2. CASE PruneByAge
      BY <3>1, <3>2 DEF PruneByAge
    <3>3. CASE PruneByCount
      <4>1. CASE Len(requestLogs) <= RetentionCount
        BY <3>3, <4>1 DEF PruneByCount
      <4>2. CASE ~(Len(requestLogs) <= RetentionCount)
        <5>1. Len(requestLogs) - RetentionCount \in 0 .. Len(requestLogs)
          BY <4>2, LogsAssumption
        <5> QED BY <3>1, <3>3, <4>2, <5>1 DEF PruneByCount
      <4> QED BY <4>1, <4>2
    <3>4. CASE ClearRequestLogs
      BY <3>4 DEF ClearRequestLogs
    <3> QED BY <1>9, <3>2, <3>3, <3>4
  <2> QED BY <1>9, <2>1 DEF PruneByAge, PruneByCount, ClearRequestLogs
<1> QED BY <1>1, <1>2, <1>3, <1>4, <1>5, <1>6, <1>7, <1>8, <1>9 DEF LogsNext

\* Whatever handlers had recorded when the writer was told to stop has been written, dropped at a
\* full buffer or lost with its batch when a process that was told to stop leaves; one whose
\* listener failed loses no more than a buffer and a batch: for any number of requests, and any
\* sizes of the two (requestLogWriter.run, Close, serve).
THEOREM Drained == ASSUME LogsAssumption PROVE LogsSpec => []DrainedOnClose
<1> DEFINE LogsAll == LogsInv /\ LogsSizes
<1>1. LogsInit => LogsAll
  BY LogsInitially DEF LogsInit, LogsSizes, LogsAssumption
<1>2. LogsAll /\ [LogsNext]_logVars => LogsAll'
  BY LogsPreserved, LogsSizesPreserved
<1>3. LogsAll => DrainedOnClose
  <2> SUFFICES ASSUME LogsAll PROVE DrainedOnClose
    OBVIOUS
  <2>1. process = "gone" => recorded \subseteq ended
    BY DEF LogsInv, DrainInv
  <2>2. Cardinality(recorded \ ended) <= LogBuffer + LogBatch
    <3>1. recorded \ ended \subseteq Range(events) \cup Range(batchRead)
      BY DEF LogsInv, DrainInv
    <3>2. /\ IsFiniteSet(Range(events)) /\ Cardinality(Range(events)) <= LogBuffer
          /\ IsFiniteSet(Range(batchRead)) /\ Cardinality(Range(batchRead)) <= LogBatch
      BY RangeWithin DEF LogsSizes, LogsAssumption
    <3>3. /\ IsFiniteSet(Range(events) \cup Range(batchRead))
          /\ Cardinality(Range(events) \cup Range(batchRead)) <= LogBuffer + LogBatch
      <4>1. /\ IsFiniteSet(Range(events) \cup Range(batchRead))
            /\ Cardinality(Range(events) \cup Range(batchRead)) =
                 Cardinality(Range(events)) + Cardinality(Range(batchRead))
                   - Cardinality(Range(events) \cap Range(batchRead))
        BY <3>2, FS_Union
      <4>2. Cardinality(Range(events) \cap Range(batchRead)) \in Nat
        BY <3>2, FS_Intersection, FS_CardinalityType
      <4>3. Cardinality(Range(events)) \in Nat /\ Cardinality(Range(batchRead)) \in Nat
        BY <3>2, FS_CardinalityType
      <4> QED BY <3>2, <4>1, <4>2, <4>3 DEF LogsAssumption
    <3> QED BY <3>1, <3>3, FS_Subset, FS_CardinalityType DEF LogsAssumption
  <2> QED BY <2>1, <2>2 DEF DrainedOnClose
<1> HIDE DEF LogsAll
<1> QED BY <1>1, <1>2, <1>3, PTL DEF LogsSpec

\* core/request_log_writer.go (Record, run): handlers never wait for the log, and yet what it keeps
\* in memory stays within the channel and one batch, whatever the speed of the database.
THEOREM LogsBounded == LogsSpec => []LogsTypeOK
<1>1. LogsInit => LogsSizes
  BY LogsAssumption DEF LogsInit, LogsSizes
<1>2. LogsInit => LogsSwitches
  BY DEF LogsInit, LogsSwitches
<1>3. LogsSizes /\ LogsSwitches => LogsTypeOK
  BY Zenon DEF LogsSizes, LogsSwitches, LogsTypeOK
<1>4. LogsSizes /\ [LogsNext]_logVars => LogsSizes'
  BY LogsSizesPreserved
<1>5. LogsSwitches /\ [LogsNext]_logVars => LogsSwitches'
  BY SwitchesPreserved
<1> QED BY <1>1, <1>2, <1>3, <1>4, <1>5, PTL DEF LogsSpec

------------------------------------------------------------------------------
(* Settings *)

\* What a request may say of each section
InputsOf == [smtp |-> SmtpInputs, storage |-> StorageInputs, cors |-> CorsInputs, logs |-> Numbers,
             lifetimes |-> Numbers, templates |-> {Blank, "custom"}, providers |-> ProviderInputs,
             enforced |-> BOOLEAN, limits |-> Numbers, projectCors |-> CorsInputs]

\* A request names sections of its document, each with an input of its kind.
RequestOK(document, request) ==
  /\ DOMAIN request \subseteq SectionsOf[document]
  /\ \A s \in DOMAIN request : request[s] \in InputsOf[s]

LEMMA SectionsAre ==
  /\ DOMAIN SectionsOf = {"instance", "auth", "quotas"}
  /\ SectionsOf["instance"] = {"smtp", "storage", "cors", "logs"}
  /\ SectionsOf["auth"] = {"lifetimes", "templates", "providers"}
  /\ SectionsOf["quotas"] = {"enforced", "limits"}
  /\ Sections = {"smtp", "storage", "cors", "logs", "lifetimes", "templates", "providers",
                 "enforced", "limits", "projectCors"}
<1>1. /\ DOMAIN SectionsOf = {"instance", "auth", "quotas"}
      /\ SectionsOf["instance"] = {"smtp", "storage", "cors", "logs"}
      /\ SectionsOf["auth"] = {"lifetimes", "templates", "providers"}
      /\ SectionsOf["quotas"] = {"enforced", "limits"}
  BY DEF SectionsOf
<1>2. \A s : s \in Sections <=> s = "projectCors" \/ \E d \in DOMAIN SectionsOf : s \in SectionsOf[d]
  BY DEF Sections
<1>4. Sections = {"smtp", "storage", "cors", "logs", "lifetimes", "templates", "providers",
                  "enforced", "limits", "projectCors"}
  BY <1>1, <1>2
<1> QED BY <1>1, <1>4

\* A section is in one document, or in none.
LEMMA DocumentsApart ==
  ASSUME NEW d \in DOMAIN SectionsOf, NEW e \in DOMAIN SectionsOf, NEW s \in SectionsOf[d], s \in SectionsOf[e]
  PROVE  d = e /\ s \in Sections /\ s # "projectCors"
BY SectionsAre

LEMMA RequestsFit ==
  ASSUME NEW d \in DOMAIN Requests, NEW r \in Requests[d]
  PROVE  d \in DOMAIN SectionsOf /\ RequestOK(d, r)
<1>1. d \in {"instance", "auth", "quotas"} /\ r \in RequestsOf[d]
  BY SettingsAssumption, RequestsAssumption
<1>2. CASE d = "instance"
  <2>1. r \in InstanceRequests
    BY <1>1, <1>2 DEF RequestsOf
  <2>2. PICK s \in {"smtp", "storage", "cors", "logs"} : r \in One(s, InputsOf[s])
    BY <2>1 DEF InstanceRequests, InputsOf
  <2>3. DOMAIN r = {s} /\ r[s] \in InputsOf[s]
    BY <2>2 DEF One
  <2> QED BY <1>2, <2>3, SectionsAre DEF RequestOK
<1>3. CASE d = "auth"
  <2>1. r \in AuthRequests
    BY <1>1, <1>3 DEF RequestsOf
  <2>2. PICK named \in SUBSET {"lifetimes", "providers"}, n \in Numbers, p \in ProviderInputs,
             t \in {Blank, "custom"} :
          r = AuthRequest(named, n, p, t)
    BY <2>1 DEF AuthRequests
  <2>3. DOMAIN r = named \cup {"templates"}
    BY <2>2 DEF AuthRequest
  <2>4. \A s \in DOMAIN r : r[s] \in InputsOf[s]
    <3> TAKE s \in DOMAIN r
    <3>1. CASE s = "lifetimes"
      BY <2>2, <2>3, <3>1 DEF InputsOf, AuthRequest
    <3>2. CASE s = "providers"
      BY <2>2, <2>3, <3>2 DEF InputsOf, AuthRequest
    <3>3. CASE s = "templates"
      BY <2>2, <2>3, <3>3 DEF InputsOf, AuthRequest
    <3> QED BY <2>3, <3>1, <3>2, <3>3
  <2> QED BY <1>3, <2>3, <2>4, SectionsAre DEF RequestOK
<1>4. CASE d = "quotas"
  <2>1. r \in QuotaRequests
    BY <1>1, <1>4 DEF RequestsOf
  <2>2. PICK named \in SUBSET {"enforced"}, n \in Numbers, b \in BOOLEAN :
          r = [s \in named \cup {"limits"} |-> IF s = "limits" THEN n ELSE b]
    BY <2>1 DEF QuotaRequests
  <2>3. DOMAIN r = named \cup {"limits"}
    BY <2>2
  <2>4. \A s \in DOMAIN r : r[s] \in InputsOf[s]
    <3> TAKE s \in DOMAIN r
    <3>1. CASE s = "limits"
      BY <2>2, <2>3, <3>1 DEF InputsOf
    <3>2. CASE s = "enforced"
      <4>1. r[s] = b
        BY <2>2, <2>3, <3>2
      <4>2. InputsOf[s] = BOOLEAN
        BY <3>2 DEF InputsOf
      <4> QED BY <4>1, <4>2
    <3> QED BY <2>3, <3>1, <3>2
  <2> QED BY <1>4, <2>3, <2>4, SectionsAre DEF RequestOK
<1> QED BY <1>1, <1>2, <1>3, <1>4, SectionsAre

\* What a section without a secret holds once an input has been saved in it
Plain(s, i) ==
  IF i = Unset THEN Fresh(s)
  ELSE IF s \in {"cors", "projectCors"} THEN normalizeCORSOrigins(i)
  ELSE IF s = "templates" /\ i = Blank THEN "default" ELSE i

LEMMA NormalizedIs ==
  ASSUME NEW c, NEW i
  PROVE  /\ Normalized("smtp", c, i) = normalizeSMTPInput(c, i)
         /\ Normalized("storage", c, i) = normalizeStorageInput(c, i)
         /\ Normalized("providers", c, i) = normalizeAuthProviders(c, i)
         /\ \A s \in Sections \ Carried : i # Unset => Normalized(s, c, i) = Plain(s, i)
<1>1. Normalized("smtp", c, i) = normalizeSMTPInput(c, i)
  BY DEF Normalized
<1>2. Normalized("storage", c, i) = normalizeStorageInput(c, i)
  BY DEF Normalized
<1>3. Normalized("providers", c, i) = normalizeAuthProviders(c, i)
  BY DEF Normalized
<1>4. ASSUME NEW s \in Sections \ Carried, i # Unset PROVE Normalized(s, c, i) = Plain(s, i)
  <2>1. CASE s \in {"cors", "projectCors"}
    BY <1>4, <2>1 DEF Normalized, Plain
  <2>2. CASE s = "templates"
    BY <1>4, <2>2 DEF Normalized, Plain
  <2>3. CASE s \in {"logs", "lifetimes", "enforced", "limits"}
    BY <1>4, <2>3 DEF Normalized, Plain
  <2> QED BY <1>4, <2>1, <2>2, <2>3, SectionsAre DEF Carried
<1> QED BY <1>1, <1>2, <1>3, <1>4

LEMMA FreshIs ==
  /\ Fresh("smtp") = Unset /\ Fresh("storage") = Unset
  /\ Fresh("providers") = [p \in LoginProviders |-> NoProvider]
  /\ Fresh("cors") = Unset /\ Fresh("projectCors") = Unset
  /\ Fresh("templates") = "default"
BY DEF Fresh

LEMMA UsedIsWanted ==
  ASSUME NEW s \in Sections \ Carried, configured[s] = Plain(s, asked[s])
  PROVE  Effective(s) = Wanted(s)
<1>1. Effective(s) = configured[s]
  BY DEF Effective, Carried
<1>2. CASE s \in {"cors", "projectCors"}
  BY <1>1, <1>2, FreshIs DEF Wanted, Plain, normalizeCORSOrigins
<1>3. CASE s = "templates"
  BY <1>1, <1>3, FreshIs DEF Wanted, Plain
<1>4. CASE s \in {"logs", "lifetimes", "enforced", "limits"}
  BY <1>1, <1>4 DEF Wanted, Plain
<1> QED BY <1>2, <1>3, <1>4, SectionsAre DEF Carried

\* A section holds what was asked of it last, with the secret given last.
MailFits(i, v, cipher) ==
  IF i = Unset THEN v = Unset /\ cipher = NoCipher
  ELSE v \in MailSettings /\ v.enabled = i.enabled /\ v.cipher = cipher
StorageFits(i, v, cipher) ==
  IF i = Unset THEN v = Unset /\ cipher = NoCipher
  ELSE v \in StorageSettings /\ v.type = i.type /\ v.cipher = cipher
ProviderFits(i, v, p, cipher) ==
  IF i = Unset \/ i[p] = NoProvider THEN v[p] = NoProvider /\ cipher = NoCipher
  ELSE v[p] \in ProviderSettings /\ v[p].cipher = cipher
Fits(s, i, v, ciphers) ==
  /\ s = "smtp" => MailFits(i, v, ciphers["smtp"])
  /\ s = "storage" => StorageFits(i, v, ciphers["storage"])
  /\ s = "providers" => \A p \in LoginProviders : ProviderFits(i, v, p, ciphers[p])
  /\ s \notin Carried => v = Plain(s, i)

\* An update under way will write, of the sections that no other update saved
\* since it read them, what the document holds or what its request makes of it.
UpdateOK(u, held) ==
  /\ DOMAIN u = {"document", "request", "next", "since"}
  /\ u.document \in DOMAIN SectionsOf /\ RequestOK(u.document, u.request)
  /\ \A s \in SectionsOf[u.document] \ u.since :
       u.next[s] = IF s \in DOMAIN u.request THEN Normalized(s, held[s], u.request[s]) ELSE held[s]
  /\ \A s \in DOMAIN u.request \ Carried : u.next[s] = Plain(s, u.request[s])

SettingsShape ==
  /\ environment \in Environments /\ Validate(environment)
  /\ DOMAIN configured = Sections /\ DOMAIN asked = Sections /\ DOMAIN updates = Editors
  /\ given \in [Slots -> Ciphers \cup {NoCipher}]
UpdatesOK == \A a \in Editors : updates[a] # NoUpdate => UpdateOK(updates[a], configured)
SectionsFit == \A s \in Sections \ lost : Fits(s, asked[s], configured[s], given)

SettingsInv == SettingsShape /\ UpdatesOK /\ SectionsFit

LEMMA SettingsInitially == SettingsInit => SettingsInv
<1> SUFFICES ASSUME SettingsInit PROVE SettingsInv
  OBVIOUS
<1>1. SettingsShape
  BY RequestsAssumption DEF SettingsInit, SettingsShape
<1>2. UpdatesOK
  BY DEF SettingsInit, UpdatesOK
<1>3. ASSUME NEW s \in Sections PROVE Fits(s, asked[s], configured[s], given)
  <2>1. asked[s] = Unset /\ configured[s] = Fresh(s) /\ \A k \in Slots : given[k] = NoCipher
    BY <1>3 DEF SettingsInit
  <2>2. Plain(s, Unset) = Fresh(s)
    BY DEF Plain
  <2> QED BY <2>1, <2>2, FreshIs DEF Fits, MailFits, StorageFits, ProviderFits, Slots
<1> QED BY <1>1, <1>2, <1>3 DEF SettingsInv, SectionsFit

\* An input that a request carries is one.
LEMMA InputsAreSet ==
  ASSUME NEW d \in DOMAIN SectionsOf, NEW r, RequestOK(d, r), NEW s \in DOMAIN r
  PROVE  s \in SectionsOf[d] /\ s \in Sections /\ r[s] # Unset
         /\ (s = "smtp" => r[s] \in SmtpInputs) /\ (s = "storage" => r[s] \in StorageInputs)
         /\ (s = "providers" => r[s] \in ProviderInputs)
<1>1. s \in SectionsOf[d] /\ r[s] \in InputsOf[s]
  BY DEF RequestOK
<1>2. s \in Sections
  BY <1>1, SectionsAre
<1>3. CASE s = "smtp"
  BY <1>1, <1>2, <1>3, MarkersAssumption DEF InputsOf
<1>4. CASE s = "storage"
  BY <1>1, <1>2, <1>4, MarkersAssumption DEF InputsOf
<1>5. CASE s = "providers"
  BY <1>1, <1>2, <1>5, MarkersAssumption DEF InputsOf
<1>6. CASE s \in {"cors", "projectCors"}
  BY <1>1, <1>2, <1>6, MarkersAssumption DEF InputsOf
<1>7. CASE s \in {"logs", "lifetimes", "limits"}
  BY <1>1, <1>2, <1>7, MarkersAssumption DEF InputsOf
<1>8. CASE s = "templates"
  BY <1>1, <1>2, <1>8, MarkersAssumption DEF InputsOf
<1>9. CASE s = "enforced"
  <2>1. InputsOf[s] = BOOLEAN
    BY <1>9 DEF InputsOf
  <2> QED BY <1>1, <1>2, <1>9, <2>1, MarkersAssumption
<1> QED BY <1>2, <1>3, <1>4, <1>5, <1>6, <1>7, <1>8, <1>9, SectionsAre

\* What follows from the section that a request rewrites holding what was asked of it
LEMMA NormalizedFits ==
  ASSUME SettingsShape, NEW d \in DOMAIN SectionsOf, NEW r, RequestOK(d, r), NEW s \in DOMAIN r,
         NEW i, NEW v, Fits(s, i, v, given), s \in Carried
  PROVE  Fits(s, r[s], Normalized(s, v, r[s]), [k \in Slots |-> GivenAfter(k, r)])
<1>1. r[s] # Unset /\ environment.jwtSecret \in JwtSecrets /\ s \in SectionsOf[d]
  BY InputsAreSet DEF SettingsShape, Environments, Validate
<1> DEFINE g == [k \in Slots |-> GivenAfter(k, r)]
<1> DEFINE key == environment.jwtSecret
<1>2. CASE s = "smtp"
  <2> DEFINE n == normalizeSMTPInput(v, r[s])
  <2>1. r[s] \in SmtpInputs /\ Normalized(s, v, r[s]) = n
    BY <1>2, InputsAreSet, NormalizedIs
  <2>2. CipherOf(v) = given["smtp"] /\ given["smtp"] \in Ciphers \cup {NoCipher}
    BY <1>2, MarkersAssumption DEF Fits, MailFits, CipherOf, SettingsShape, Slots
  <2>3. g["smtp"] = IF r[s].enabled /\ ~r[s].clear THEN Typed(given["smtp"], r[s]) ELSE NoCipher
    BY <1>2 DEF GivenAfter, Slots
  <2>4. n \in MailSettings /\ n.enabled = r[s].enabled /\ n.cipher = g["smtp"]
    BY <1>1, <2>1, <2>2, <2>3 DEF normalizeSMTPInput, CipherAfter, Typed, MailSettings, SmtpInputs, Ciphers
  <2> QED BY <1>1, <1>2, <2>1, <2>4 DEF Fits, MailFits, Carried
<1>3. CASE s = "storage"
  <2> DEFINE n == normalizeStorageInput(v, r[s])
  <2>1. r[s] \in StorageInputs /\ Normalized(s, v, r[s]) = n
    BY <1>3, InputsAreSet, NormalizedIs
  <2>2. CipherOf(v) = given["storage"] /\ given["storage"] \in Ciphers \cup {NoCipher}
    BY <1>3, MarkersAssumption DEF Fits, StorageFits, CipherOf, SettingsShape, Slots
  <2>3. g["storage"] = IF r[s].type = "s3" /\ ~r[s].clear THEN Typed(given["storage"], r[s]) ELSE NoCipher
    BY <1>3 DEF GivenAfter, Slots
  <2>4. n \in StorageSettings /\ n.type = r[s].type /\ n.cipher = g["storage"]
    BY <1>1, <2>1, <2>2, <2>3 DEF normalizeStorageInput, CipherAfter, Typed, StorageSettings, StorageInputs, Ciphers
  <2> QED BY <1>1, <1>3, <2>1, <2>4 DEF Fits, StorageFits, Carried
<1>4. CASE s = "providers"
  <2> DEFINE n == normalizeAuthProviders(v, r[s])
  <2>1. r[s] \in ProviderInputs /\ Normalized(s, v, r[s]) = n
    BY <1>4, InputsAreSet, NormalizedIs
  <2>2. ASSUME NEW p \in LoginProviders PROVE ProviderFits(r[s], n, p, g[p])
    <3>1. CipherOf(v[p]) = given[p] /\ given[p] \in Ciphers \cup {NoCipher}
      BY <1>4, MarkersAssumption DEF Fits, ProviderFits, CipherOf, SettingsShape, Slots
    <3>2. g[p] = IF r[s][p] = NoProvider THEN NoCipher ELSE Typed(given[p], r[s][p])
      BY <1>4, MarkersAssumption DEF GivenAfter, Slots
    <3>3. n[p] = IF r[s][p] = NoProvider THEN NoProvider
                 ELSE [cipher |-> CipherAfter(CipherOf(v[p]), r[s][p].secret,
                                              r[s][p].clear /\ r[s][p].secret = Blank)]
      BY DEF normalizeAuthProviders
    <3>4. CASE r[s][p] = NoProvider
      BY <3>2, <3>3, <3>4 DEF ProviderFits
    <3>5. CASE r[s][p] # NoProvider
      <4>1. r[s][p] \in SecretInputs
        BY <2>1, <3>5 DEF ProviderInputs
      <4>2. n[p] \in ProviderSettings /\ n[p].cipher = g[p]
        BY <1>1, <3>1, <3>2, <3>3, <3>5, <4>1 DEF CipherAfter, Typed, ProviderSettings, SecretInputs, Ciphers
      <4> QED BY <1>1, <3>5, <4>2 DEF ProviderFits
    <3> QED BY <3>4, <3>5
  <2> QED BY <1>4, <2>1, <2>2 DEF Fits, Carried
<1> QED BY <1>2, <1>3, <1>4 DEF Carried

\* A slot of a section that a request does not name keeps its secret.
LEMMA GivenStays ==
  ASSUME SettingsShape, NEW d \in DOMAIN SectionsOf, NEW r, RequestOK(d, r), NEW s \in Sections \ DOMAIN r,
         NEW i, NEW v, Fits(s, i, v, given)
  PROVE  Fits(s, i, v, [k \in Slots |-> GivenAfter(k, r)])
<1> DEFINE g == [k \in Slots |-> GivenAfter(k, r)]
<1>1. CASE s = "smtp"
  <2>1. g["smtp"] = given["smtp"]
    BY <1>1, MarkersAssumption DEF GivenAfter, Slots
  <2> QED BY <1>1, <2>1 DEF Fits, Carried
<1>2. CASE s = "storage"
  <2>1. g["storage"] = given["storage"]
    BY <1>2, MarkersAssumption DEF GivenAfter, Slots
  <2> QED BY <1>2, <2>1 DEF Fits, Carried
<1>3. CASE s = "providers"
  <2>1. \A p \in LoginProviders : g[p] = given[p]
    BY <1>3, MarkersAssumption DEF GivenAfter, Slots
  <2> QED BY <1>3, <2>1 DEF Fits, Carried
<1>4. CASE s \notin Carried
  BY <1>4 DEF Fits, Carried
<1> QED BY <1>1, <1>2, <1>3, <1>4 DEF Carried

\* What an input becomes depends on the environment only.
LEMMA NormalizedStays ==
  ASSUME NEW s, NEW v, NEW i, environment' = environment
  PROVE  Normalized(s, v, i)' = Normalized(s, v, i)
<1>1. \A c, secret, clear : CipherAfter(c, secret, clear)' = CipherAfter(c, secret, clear)
  BY DEF CipherAfter
<1>2. normalizeSMTPInput(v, i)' = normalizeSMTPInput(v, i)
  BY <1>1 DEF normalizeSMTPInput, CipherAfter
<1>3. normalizeStorageInput(v, i)' = normalizeStorageInput(v, i)
  BY <1>1 DEF normalizeStorageInput, CipherAfter
<1>4. normalizeAuthProviders(v, i)' = normalizeAuthProviders(v, i)
  BY <1>1 DEF normalizeAuthProviders, CipherAfter
<1>5. s \notin Carried => Normalized(s, v, i)' = Normalized(s, v, i)
  BY DEF Normalized, Carried, normalizeCORSOrigins
<1> QED BY <1>2, <1>3, <1>4, <1>5, NormalizedIs DEF Normalized, Carried

\* The updates under way after a step of a server that keeps its environment
LEMMA UpdatesKept ==
  ASSUME environment' = environment,
         \A b \in Editors : updates'[b] # NoUpdate => UpdateOK(updates'[b], configured')
  PROVE  UpdatesOK'
<1> SUFFICES ASSUME NEW b \in Editors, updates'[b] # NoUpdate
             PROVE  UpdateOK(updates[b], configured)'
  BY DEF UpdatesOK
<1>1. PICK u : u = updates'[b]
  OBVIOUS
<1>2. PICK c : c = configured'
  OBVIOUS
<1>3. UpdateOK(u, c)
  BY <1>1, <1>2
<1>4. UpdateOK(u, c)'
  BY <1>3, NormalizedStays DEF UpdateOK, RequestOK, Plain, normalizeCORSOrigins
<1> QED BY <1>1, <1>2, <1>4

LEMMA BeginKeeps ==
  ASSUME SettingsInv, NEW a \in Editors, NEW d \in DOMAIN Requests, NEW r \in Requests[d], BeginUpdate(a, d, r)
  PROVE  SettingsInv'
<1>1. /\ UNCHANGED <<environment, configured, asked, given, lost, saves>>
      /\ SettingsShape /\ UpdatesOK /\ SectionsFit
  BY DEF BeginUpdate, SettingsInv
<1>2. SettingsShape' /\ SectionsFit'
  BY <1>1 DEF SettingsShape, SectionsFit, BeginUpdate, Fits, MailFits, StorageFits, ProviderFits, Plain, Validate
<1>3. d \in DOMAIN SectionsOf /\ RequestOK(d, r)
  BY RequestsFit
<1> DEFINE u == [document |-> d, request |-> r, next |-> Rewritten(d, r), since |-> {}]
<1>4. UpdateOK(u, configured)
  <2>1. /\ DOMAIN u = {"document", "request", "next", "since"} /\ u.document = d /\ u.request = r
        /\ u.since = {} /\ u.next = Rewritten(d, r)
    OBVIOUS
  <2>2. \A s \in SectionsOf[d] :
          u.next[s] = IF s \in DOMAIN r THEN Normalized(s, configured[s], r[s]) ELSE configured[s]
    BY <2>1 DEF Rewritten
  <2>3. \A s \in DOMAIN r \ Carried : u.next[s] = Plain(s, r[s])
    <3> SUFFICES ASSUME NEW s \in DOMAIN r \ Carried PROVE u.next[s] = Plain(s, r[s])
      OBVIOUS
    <3>1. s \in SectionsOf[d] /\ s \in Sections /\ r[s] # Unset
      BY <1>3, InputsAreSet
    <3> HIDE DEF u
    <3>2. Normalized(s, configured[s], r[s]) = Plain(s, r[s])
      BY <3>1, NormalizedIs
    <3> QED BY <2>2, <3>1, <3>2
  <2> HIDE DEF u
  <2> QED BY <1>3, <2>1, <2>2, <2>3 DEF UpdateOK
<1>5. UpdatesOK'
  <2>1. \A b \in Editors : updates'[b] = IF b = a THEN u ELSE updates[b]
    BY <1>1 DEF BeginUpdate, SettingsShape
  <2> HIDE DEF u
  <2>2. \A b \in Editors : updates'[b] # NoUpdate => UpdateOK(updates'[b], configured)
    BY <1>1, <1>4, <2>1 DEF UpdatesOK
  <2> QED BY <1>1, <2>2, UpdatesKept
<1> QED BY <1>2, <1>5 DEF SettingsInv

LEMMA AbandonKeeps ==
  ASSUME SettingsInv, NEW a \in Editors, AbandonUpdate(a)
  PROVE  SettingsInv'
<1>1. /\ UNCHANGED <<environment, configured, asked, given, lost, saves>>
      /\ SettingsShape /\ UpdatesOK /\ SectionsFit
  BY DEF AbandonUpdate, SettingsInv
<1>2. SettingsShape' /\ SectionsFit'
  BY <1>1 DEF SettingsShape, SectionsFit, AbandonUpdate, Fits, MailFits, StorageFits, ProviderFits, Plain, Validate
<1>3. UpdatesOK'
  <2>1. \A b \in Editors : updates'[b] = IF b = a THEN NoUpdate ELSE updates[b]
    BY <1>1 DEF AbandonUpdate, SettingsShape
  <2>2. \A b \in Editors : updates'[b] # NoUpdate => UpdateOK(updates'[b], configured)
    BY <1>1, <2>1 DEF UpdatesOK
  <2> QED BY <1>1, <2>2, UpdatesKept
<1> QED BY <1>2, <1>3 DEF SettingsInv

LEMMA SaveKeeps ==
  ASSUME SettingsInv, NEW a \in Editors, SaveUpdate(a)
  PROVE  SettingsInv'
<1> DEFINE u == updates[a]
<1> DEFINE d == u.document
<1> DEFINE r == u.request
<1> DEFINE stale == u.since \cap KeptSections(d, r)
<1>1. /\ SettingsShape /\ UpdatesOK /\ SectionsFit /\ UpdateOK(u, configured)
      /\ d \in DOMAIN SectionsOf /\ RequestOK(d, r) /\ DOMAIN r \subseteq SectionsOf[d]
  BY DEF SaveUpdate, SettingsInv, UpdatesOK, UpdateOK, RequestOK
<1>2. /\ configured' = [s \in Sections |-> IF s \in SectionsOf[d] THEN u.next[s] ELSE configured[s]]
      /\ updates' = [b \in Editors |->
           IF b = a THEN NoUpdate
           ELSE IF updates[b] # NoUpdate /\ updates[b].document = d
           THEN [updates[b] EXCEPT !.since = @ \cup DOMAIN r \cup stale] ELSE updates[b]]
      /\ asked' = [s \in Sections |-> IF s \in DOMAIN r THEN r[s] ELSE asked[s]]
      /\ given' = [k \in Slots |-> GivenAfter(k, r)]
      /\ lost' = (lost \ (DOMAIN r \ Carried)) \cup stale
      /\ environment' = environment
  BY DEF SaveUpdate
<1>3. \A s \in SectionsOf[d] : s \in Sections
  BY <1>1, DocumentsApart
<1>4. \A s \in SectionsOf[d] \ u.since :
        u.next[s] = IF s \in DOMAIN r THEN Normalized(s, configured[s], r[s]) ELSE configured[s]
  BY <1>1 DEF UpdateOK
<1>5. \A s \in DOMAIN r \ Carried : u.next[s] = Plain(s, r[s])
  BY <1>1 DEF UpdateOK
<1>6. \A s \in SectionsOf[d] : s \in DOMAIN r \ Carried \/ s \in KeptSections(d, r)
  BY DEF KeptSections
<1> HIDE DEF u, d, r, stale
<1>7. SectionsFit'
  <2> SUFFICES ASSUME NEW s \in Sections, s \notin lost'
               PROVE  Fits(s, asked'[s], configured'[s], given')
    BY DEF SectionsFit, Fits, MailFits, StorageFits, ProviderFits, Plain, normalizeCORSOrigins
  <2>1. CASE s \in DOMAIN r \ Carried
    <3>1. asked'[s] = r[s] /\ configured'[s] = Plain(s, r[s])
      BY <1>1, <1>2, <1>5, <2>1
    <3> QED BY <2>1, <3>1 DEF Fits, Carried
  <2>2. CASE s \in DOMAIN r \cap Carried
    <3>1. s \in SectionsOf[d] /\ s \notin u.since /\ s \notin lost
      BY <1>1, <1>2, <1>6, <2>2 DEF stale
    <3>2. asked'[s] = r[s] /\ configured'[s] = Normalized(s, configured[s], r[s])
      BY <1>2, <1>4, <2>2, <3>1
    <3>3. Fits(s, asked[s], configured[s], given)
      BY <1>1, <3>1 DEF SectionsFit
    <3>4. Fits(s, r[s], Normalized(s, configured[s], r[s]), [k \in Slots |-> GivenAfter(k, r)])
      BY <1>1, <2>2, <3>3, NormalizedFits
    <3> QED BY <1>2, <3>2, <3>4
  <2>3. CASE s \notin DOMAIN r
    <3>1. s \notin lost
      BY <1>2, <2>3
    <3>2. asked'[s] = asked[s] /\ configured'[s] = configured[s]
      <4>1. CASE s \in SectionsOf[d]
        <5>1. s \notin u.since
          BY <1>2, <1>6, <2>3, <4>1 DEF stale
        <5> QED BY <1>2, <1>4, <2>3, <4>1, <5>1
      <4>2. CASE s \notin SectionsOf[d]
        BY <1>2, <2>3, <4>2
      <4> QED BY <4>1, <4>2
    <3>3. Fits(s, asked[s], configured[s], given)
      BY <1>1, <3>1 DEF SectionsFit
    <3>4. Fits(s, asked[s], configured[s], [k \in Slots |-> GivenAfter(k, r)])
      BY <1>1, <2>3, <3>3, GivenStays
    <3> QED BY <1>2, <3>2, <3>4
  <2> QED BY <2>1, <2>2, <2>3
<1>8. SettingsShape'
  <2>1. \A k \in Slots : GivenAfter(k, r) \in Ciphers \cup {NoCipher}
    <3> TAKE k \in Slots
    <3>1. given[k] \in Ciphers \cup {NoCipher} /\ environment.jwtSecret \in JwtSecrets
      BY <1>1 DEF SettingsShape, Environments, Validate
    <3>2. ASSUME NEW c \in Ciphers \cup {NoCipher}, NEW i, i.secret \in Secrets \cup {Blank}
          PROVE  Typed(c, i) \in Ciphers \cup {NoCipher}
      BY <3>1, <3>2 DEF Typed, Ciphers
    <3>3. "smtp" \in DOMAIN r => r["smtp"].secret \in Secrets \cup {Blank}
      BY <1>1, InputsAreSet DEF SmtpInputs
    <3>4. "storage" \in DOMAIN r => r["storage"].secret \in Secrets \cup {Blank}
      BY <1>1, InputsAreSet DEF StorageInputs
    <3>5. ASSUME "providers" \in DOMAIN r, k \in LoginProviders, r["providers"][k] # NoProvider
          PROVE  r["providers"][k].secret \in Secrets \cup {Blank}
      <4>1. r["providers"] \in ProviderInputs
        BY <1>1, <3>5, InputsAreSet
      <4>2. r["providers"][k] \in SecretInputs
        BY <3>5, <4>1 DEF ProviderInputs
      <4> QED BY <4>2 DEF SecretInputs
    <3> QED BY <3>1, <3>2, <3>3, <3>4, <3>5 DEF GivenAfter
  <2>2. given' \in [Slots -> Ciphers \cup {NoCipher}]
    BY <1>2, <2>1
  <2> QED BY <1>1, <1>2, <2>2 DEF SettingsShape, Validate
<1>9. UpdatesOK'
  <2> SUFFICES ASSUME NEW b \in Editors, updates'[b] # NoUpdate
               PROVE  UpdateOK(updates'[b], configured')
    BY <1>2, UpdatesKept
  <2>1. b # a /\ updates[b] # NoUpdate /\ UpdateOK(updates[b], configured)
    BY <1>1, <1>2 DEF UpdatesOK
  <2> DEFINE w == updates[b]
  <2>2. CASE w.document = d
    <3> DEFINE x == [w EXCEPT !.since = @ \cup DOMAIN r \cup stale]
    <3>1. updates'[b] = x
      BY <1>2, <2>1, <2>2
    <3>2. /\ DOMAIN x = DOMAIN w /\ x.document = d /\ x.request = w.request /\ x.next = w.next
          /\ x.since = w.since \cup DOMAIN r \cup stale
      BY <2>1, <2>2 DEF UpdateOK
    <3>3. ASSUME NEW s \in SectionsOf[d] \ x.since PROVE configured'[s] = configured[s] /\ s \notin w.since
      <4>1. s \notin u.since /\ s \notin DOMAIN r
        BY <1>6, <3>2, <3>3 DEF stale
      <4> QED BY <1>2, <1>3, <1>4, <3>2, <3>3, <4>1
    <3> HIDE DEF x
    <3>4. UpdateOK(x, configured')
      BY <2>1, <2>2, <3>2, <3>3 DEF UpdateOK
    <3> QED BY <3>1, <3>4
  <2>3. CASE w.document # d
    <3>1. updates'[b] = w
      BY <1>2, <2>1, <2>3
    <3>2. \A s \in SectionsOf[w.document] : configured'[s] = configured[s]
      BY <1>1, <1>2, <2>1, <2>3, DocumentsApart DEF UpdateOK
    <3> QED BY <2>1, <3>1, <3>2 DEF UpdateOK
  <2> QED BY <2>2, <2>3
<1> QED BY <1>7, <1>8, <1>9 DEF SettingsInv

LEMMA ProjectCorsKeeps ==
  ASSUME SettingsInv, NEW i \in CorsInputs, UpdateProjectCORS(i)
  PROVE  SettingsInv'
<1>1. /\ UNCHANGED <<environment, updates, given, lost>>
      /\ SettingsShape /\ UpdatesOK /\ SectionsFit
      /\ configured' = [configured EXCEPT !["projectCors"] = normalizeCORSOrigins(i)]
      /\ asked' = [asked EXCEPT !["projectCors"] = i]
  BY DEF UpdateProjectCORS, SettingsInv
<1>2. SettingsShape'
  BY <1>1 DEF SettingsShape, Validate
<1>3. i # Unset /\ "projectCors" \in Sections
  BY MarkersAssumption, SectionsAre
<1>4. SectionsFit'
  <2> SUFFICES ASSUME NEW s \in Sections, s \notin lost
               PROVE  Fits(s, asked'[s], configured'[s], given)
    BY <1>1 DEF SectionsFit, Fits, MailFits, StorageFits, ProviderFits, Plain, normalizeCORSOrigins
  <2>1. CASE s = "projectCors"
    BY <1>1, <1>3, <2>1 DEF SettingsShape, Fits, Plain, Carried
  <2>2. CASE s # "projectCors"
    BY <1>1, <2>2 DEF SettingsShape, SectionsFit
  <2> QED BY <2>1, <2>2
<1>5. UpdatesOK'
  <2> SUFFICES ASSUME NEW b \in Editors, updates[b] # NoUpdate
               PROVE  UpdateOK(updates[b], configured')
    BY <1>1, UpdatesKept
  <2>1. UpdateOK(updates[b], configured)
    BY <1>1 DEF UpdatesOK
  <2>2. \A s \in SectionsOf[updates[b].document] : configured'[s] = configured[s]
    BY <1>1, <2>1, DocumentsApart DEF UpdateOK, SettingsShape
  <2> QED BY <2>1, <2>2 DEF UpdateOK
<1> QED BY <1>2, <1>4, <1>5 DEF SettingsInv

LEMMA ConfigureKeeps ==
  ASSUME SettingsInv, NEW e \in Deployments, ConfigureServer(e)
  PROVE  SettingsInv'
<1>1. /\ SettingsShape /\ SectionsFit /\ UNCHANGED <<configured, asked, given, lost>>
      /\ Validate(e) /\ environment' = e /\ updates' = [a \in Editors |-> NoUpdate]
  BY DEF ConfigureServer, SettingsInv
<1>2. SettingsShape'
  BY <1>1, RequestsAssumption DEF SettingsShape, Validate
<1>3. SectionsFit'
  BY <1>1 DEF SectionsFit, Fits, MailFits, StorageFits, ProviderFits, Plain, normalizeCORSOrigins
<1>4. UpdatesOK'
  BY <1>1 DEF UpdatesOK
<1> QED BY <1>2, <1>3, <1>4 DEF SettingsInv

\* Sections that fit what was asked of them are used as it asks.
LEMMA FittingHolds == SettingsInv => SettingsHold
<1> SUFFICES ASSUME SettingsInv, NEW s \in Sections \ lost PROVE Effective(s) = Wanted(s)
  BY DEF SettingsHold
<1>1. Fits(s, asked[s], configured[s], given)
  BY DEF SettingsInv, SectionsFit
<1>2. CASE s = "smtp"
  <2>1. MailFits(asked[s], configured[s], given["smtp"])
    BY <1>1, <1>2 DEF Fits
  <2>2. Effective(s) = EffectiveSMTPConfig
    BY <1>2 DEF Effective
  <2>3. Wanted(s) = IF asked[s] = Unset THEN IF environment.mailHost THEN "environment" ELSE "off"
                    ELSE IF asked[s].enabled THEN SecretIn("smtp") ELSE "off"
    BY <1>2 DEF Wanted
  <2> QED BY <1>2, <2>1, <2>2, <2>3, MarkersAssumption DEF MailFits, EffectiveSMTPConfig, SecretIn
<1>3. CASE s = "storage"
  <2>1. StorageFits(asked[s], configured[s], given["storage"])
    BY <1>1, <1>3 DEF Fits
  <2>2. Effective(s) = EffectiveStorageConfig
    BY <1>3 DEF Effective
  <2>3. Wanted(s) = IF asked[s] = Unset THEN environment.storage
                    ELSE IF asked[s].type = "s3" THEN SecretIn("storage") ELSE "local"
    BY <1>3 DEF Wanted
  <2> QED BY <1>3, <2>1, <2>2, <2>3, MarkersAssumption DEF StorageFits, EffectiveStorageConfig, SecretIn
<1>4. CASE s = "providers"
  <2>1. \A p \in LoginProviders : ProviderFits(asked[s], configured[s], p, given[p])
    BY <1>1, <1>4 DEF Fits
  <2>2. Effective(s) = [p \in LoginProviders |-> EffectiveProvider(p)]
    BY <1>4 DEF Effective
  <2>3. Wanted(s) = [p \in LoginProviders |->
                      IF asked[s] = Unset \/ asked[s][p] = NoProvider THEN "off" ELSE SecretIn(p)]
    BY <1>4 DEF Wanted
  <2>4. \A p \in LoginProviders : EffectiveProvider(p) =
          IF asked[s] = Unset \/ asked[s][p] = NoProvider THEN "off" ELSE SecretIn(p)
    BY <1>4, <2>1, MarkersAssumption DEF ProviderFits, EffectiveProvider, SecretIn
  <2> QED BY <2>2, <2>3, <2>4
<1>5. CASE s \notin Carried
  BY <1>1, <1>5, UsedIsWanted DEF Fits
<1> QED BY <1>2, <1>3, <1>4, <1>5 DEF Carried

LEMMA SettingsKept ==
  ASSUME SettingsInv, [SettingsNext]_settingVars PROVE SettingsInv'
<1>1. ASSUME NEW a \in Editors, NEW d \in DOMAIN Requests, NEW r \in Requests[d], BeginUpdate(a, d, r)
      PROVE  SettingsInv'
  BY <1>1, BeginKeeps
<1>2. ASSUME NEW a \in Editors, SaveUpdate(a) PROVE SettingsInv'
  BY <1>2, SaveKeeps
<1>3. ASSUME NEW a \in Editors, AbandonUpdate(a) PROVE SettingsInv'
  BY <1>3, AbandonKeeps
<1>4. ASSUME NEW i \in CorsInputs, UpdateProjectCORS(i) PROVE SettingsInv'
  BY <1>4, ProjectCorsKeeps
<1>5. ASSUME NEW e \in Deployments, ConfigureServer(e) PROVE SettingsInv'
  BY <1>5, ConfigureKeeps
<1>6. CASE UNCHANGED settingVars
  <2>1. SettingsShape' /\ SectionsFit'
    BY <1>6 DEF settingVars, SettingsInv, SettingsShape, SectionsFit, Validate, Fits, MailFits,
                      StorageFits, ProviderFits, Plain, normalizeCORSOrigins
  <2>2. UpdatesOK'
    BY <1>6, UpdatesKept DEF settingVars, SettingsInv, UpdatesOK
  <2> QED BY <2>1, <2>2 DEF SettingsInv
<1> QED BY <1>1, <1>2, <1>3, <1>4, <1>5, <1>6 DEF SettingsNext

\* For any environments, requests and overlaps of updates, every section that no
\* overlapping update took back is used as the last update of it asked, with the
\* secret typed last for it (core/settings.go, core/auth_settings.go).
THEOREM SettingsAreAsAsked == SettingsSpec => []SettingsHold
<1>1. SettingsInv /\ [SettingsNext]_settingVars => SettingsInv'
  BY SettingsKept
<1> QED BY <1>1, SettingsInitially, FittingHolds, PTL DEF SettingsSpec

\* What a section with a secret holds, saved or about to be
SectionTyped(s, v) ==
  /\ s = "smtp" => v = Unset \/ v \in MailSettings
  /\ s = "storage" => v = Unset \/ v \in StorageSettings
  /\ s = "providers" => \A p \in LoginProviders : CipherOf(v[p]) \in Ciphers \cup {NoCipher}
SectionsTyped ==
  /\ \A s \in Sections : SectionTyped(s, configured[s])
  /\ \A a \in Editors : updates[a] # NoUpdate =>
       \A s \in SectionsOf[updates[a].document] : SectionTyped(s, updates[a].next[s])
  /\ lost \subseteq Sections /\ saves \in 0 .. MaxSaves

\* A secret is stored under the key of the running server, kept or dropped.
LEMMA CipherTyped ==
  ASSUME SettingsShape, NEW current \in Ciphers \cup {NoCipher}, NEW secret \in Secrets \cup {Blank}, NEW clear
  PROVE  CipherAfter(current, secret, clear) \in Ciphers \cup {NoCipher}
<1>1. environment.jwtSecret \in JwtSecrets
  BY DEF SettingsShape, Environments, Validate
<1> QED BY <1>1 DEF CipherAfter, Ciphers

LEMMA NormalizedTyped ==
  ASSUME SettingsShape, NEW s \in Sections, NEW c, SectionTyped(s, c), NEW i \in InputsOf[s]
  PROVE  SectionTyped(s, Normalized(s, c, i))
<1>1. CASE s = "smtp"
  <2>1. CipherOf(c) \in Ciphers \cup {NoCipher}
    BY <1>1, MarkersAssumption DEF SectionTyped, CipherOf, MailSettings
  <2>2. i \in SmtpInputs
    BY <1>1 DEF InputsOf
  <2>3. NoCipher \in Ciphers \cup {NoCipher}
    OBVIOUS
  <2>4. CipherAfter(CipherOf(c), i.secret, i.clear) \in Ciphers \cup {NoCipher}
    BY <2>1, <2>2, CipherTyped DEF SmtpInputs
  <2>5. normalizeSMTPInput(c, i) \in MailSettings
    <3>1. i.enabled \in BOOLEAN /\ i.host \in BOOLEAN /\ i.user \in BOOLEAN
      BY <2>2 DEF SmtpInputs
    <3> QED BY <2>3, <2>4, <3>1 DEF normalizeSMTPInput, MailSettings
  <2> QED BY <1>1, <2>5, NormalizedIs DEF SectionTyped
<1>2. CASE s = "storage"
  <2>1. CipherOf(c) \in Ciphers \cup {NoCipher}
    BY <1>2, MarkersAssumption DEF SectionTyped, CipherOf, StorageSettings
  <2>2. i \in StorageInputs
    BY <1>2 DEF InputsOf
  <2>3. CipherAfter(CipherOf(c), i.secret, i.clear) \in Ciphers \cup {NoCipher}
    BY <2>1, <2>2, CipherTyped DEF StorageInputs
  <2>4. normalizeStorageInput(c, i) \in StorageSettings
    <3>1. i.bucket \in BOOLEAN
      BY <2>2 DEF StorageInputs
    <3> QED BY <2>3, <3>1 DEF normalizeStorageInput, StorageSettings
  <2> QED BY <1>2, <2>4, NormalizedIs DEF SectionTyped
<1>3. CASE s = "providers"
  <2>1. i \in ProviderInputs
    BY <1>3 DEF InputsOf
  <2> DEFINE v == normalizeAuthProviders(c, i)
  <2>2. ASSUME NEW p \in LoginProviders PROVE CipherOf(v[p]) \in Ciphers \cup {NoCipher}
    <3>1. CASE i[p] = NoProvider
      BY <3>1 DEF normalizeAuthProviders, CipherOf
    <3>2. CASE i[p] # NoProvider
      <4>1. i[p] \in SecretInputs
        BY <2>1, <3>2 DEF ProviderInputs
      <4>2. i[p].secret \in Secrets \cup {Blank}
        BY <4>1 DEF SecretInputs
      <4> DEFINE x == CipherAfter(CipherOf(c[p]), i[p].secret, i[p].clear /\ i[p].secret = Blank)
      <4>3. v[p] = [cipher |-> x]
        BY <3>2 DEF normalizeAuthProviders
      <4>4. CipherOf(c[p]) \in Ciphers \cup {NoCipher}
        BY <1>3 DEF SectionTyped
      <4>5. x \in Ciphers \cup {NoCipher}
        BY <4>2, <4>4, CipherTyped
      <4> HIDE DEF x, v
      <4>6. v[p] \in ProviderSettings /\ v[p].cipher = x
        BY <4>3, <4>5 DEF ProviderSettings
      <4> QED BY <4>5, <4>6, MarkersAssumption DEF CipherOf
    <3> QED BY <3>1, <3>2
  <2> HIDE DEF v
  <2>3. Normalized(s, c, i) = v
    BY <1>3, NormalizedIs DEF v
  <2> QED BY <1>3, <2>2, <2>3 DEF SectionTyped
<1>4. CASE s \notin Carried
  BY <1>4 DEF SectionTyped, Carried
<1> QED BY <1>1, <1>2, <1>3, <1>4 DEF Carried

LEMMA SectionsTypedStep ==
  ASSUME SettingsInv, SectionsTyped, [SettingsNext]_settingVars PROVE SectionsTyped'
<1>1. /\ DOMAIN configured = Sections /\ DOMAIN updates = Editors /\ SettingsShape /\ MaxSaves \in Nat
  BY SettingsAssumption DEF SettingsInv, SettingsShape
<1>2. ASSUME NEW a \in Editors, NEW d \in DOMAIN Requests, NEW r \in Requests[d], BeginUpdate(a, d, r)
      PROVE  SectionsTyped'
  <2>1. d \in DOMAIN SectionsOf /\ RequestOK(d, r)
    BY RequestsFit
  <2> DEFINE u == [document |-> d, request |-> r, next |-> Rewritten(d, r), since |-> {}]
  <2>2. /\ updates'[a] = u /\ UNCHANGED <<configured, lost, saves>>
        /\ \A b \in Editors \ {a} : updates'[b] = updates[b]
    BY <1>1, <1>2 DEF BeginUpdate
  <2>3. ASSUME NEW s \in SectionsOf[d] PROVE SectionTyped(s, Rewritten(d, r)[s])
    <3>1. s \in Sections /\ SectionTyped(s, configured[s])
      BY <2>1, DocumentsApart DEF SectionsTyped
    <3>2. CASE s \in DOMAIN r
      <4>1. Rewritten(d, r)[s] = Normalized(s, configured[s], r[s]) /\ r[s] \in InputsOf[s]
        BY <2>1, <3>2 DEF Rewritten, RequestOK
      <4> QED BY <1>1, <3>1, <4>1, NormalizedTyped
    <3>3. CASE s \notin DOMAIN r
      BY <3>1, <3>3 DEF Rewritten
    <3> QED BY <3>2, <3>3
  <2>4. u.document = d /\ u.next = Rewritten(d, r)
    OBVIOUS
  <2> HIDE DEF u
  <2> QED BY <2>2, <2>3, <2>4 DEF SectionsTyped
<1>3. ASSUME NEW a \in Editors, SaveUpdate(a) PROVE SectionsTyped'
  <2> DEFINE u == updates[a]
             stale == u.since \cap KeptSections(u.document, u.request)
  <2>1. /\ u # NoUpdate /\ saves < MaxSaves /\ saves' = saves + 1
        /\ configured' = [s \in Sections |-> IF s \in SectionsOf[u.document] THEN u.next[s] ELSE configured[s]]
        /\ lost' = (lost \ (DOMAIN u.request \ Carried)) \cup stale
        /\ updates' = [b \in Editors |->
             IF b = a THEN NoUpdate
             ELSE IF updates[b] # NoUpdate /\ updates[b].document = u.document
             THEN [updates[b] EXCEPT !.since = @ \cup DOMAIN u.request \cup stale] ELSE updates[b]]
    BY <1>3 DEF SaveUpdate
  <2>2. u.document \in DOMAIN SectionsOf /\ RequestOK(u.document, u.request)
    BY <2>1 DEF SettingsInv, UpdatesOK, UpdateOK
  <2>3. KeptSections(u.document, u.request) \subseteq Sections
    BY <2>2, DocumentsApart DEF KeptSections, RequestOK
  <2>4. lost' \subseteq Sections
    BY <2>1, <2>3 DEF SectionsTyped
  <2>5. saves' \in 0 .. MaxSaves
    BY <1>1, <2>1 DEF SectionsTyped
  <2>6. \A s \in Sections : SectionTyped(s, configured'[s])
    BY <2>1 DEF SectionsTyped
  <2>7. ASSUME NEW b \in Editors, updates'[b] # NoUpdate, NEW s \in SectionsOf[updates'[b].document]
        PROVE  SectionTyped(s, updates'[b].next[s])
    <3>1. updates[b] # NoUpdate /\ b # a
      BY <2>1, <2>7
    <3>2. DOMAIN updates[b] = {"document", "request", "next", "since"}
      BY <3>1 DEF SettingsInv, UpdatesOK, UpdateOK
    <3>3. updates'[b].document = updates[b].document /\ updates'[b].next = updates[b].next
      BY <2>1, <3>1, <3>2
    <3> QED BY <2>7, <3>1, <3>3 DEF SectionsTyped
  <2> QED BY <2>4, <2>5, <2>6, <2>7 DEF SectionsTyped
<1>4. ASSUME NEW a \in Editors, AbandonUpdate(a) PROVE SectionsTyped'
  <2>1. /\ UNCHANGED <<configured, lost, saves>> /\ updates'[a] = NoUpdate
        /\ \A b \in Editors \ {a} : updates'[b] = updates[b]
    BY <1>1, <1>4 DEF AbandonUpdate
  <2> QED BY <2>1 DEF SectionsTyped
<1>5. ASSUME NEW i \in CorsInputs, UpdateProjectCORS(i) PROVE SectionsTyped'
  <2>1. /\ saves < MaxSaves /\ saves' = saves + 1 /\ UNCHANGED <<updates, lost>>
        /\ \A s \in Sections \ {"projectCors"} : configured'[s] = configured[s]
    BY <1>1, <1>5 DEF UpdateProjectCORS
  <2>2. saves' \in 0 .. MaxSaves
    BY <1>1, <2>1 DEF SectionsTyped
  <2>3. \A s \in Sections : SectionTyped(s, configured'[s])
    BY <2>1 DEF SectionsTyped, SectionTyped
  <2> QED BY <2>1, <2>2, <2>3 DEF SectionsTyped
<1>6. ASSUME NEW e \in Deployments, ConfigureServer(e) PROVE SectionsTyped'
  <2>1. UNCHANGED <<configured, lost, saves>> /\ \A a \in Editors : updates'[a] = NoUpdate
    BY <1>6 DEF ConfigureServer
  <2> QED BY <2>1 DEF SectionsTyped
<1>7. CASE UNCHANGED settingVars
  <2>1. UNCHANGED <<configured, lost, saves, updates>>
    BY <1>7 DEF settingVars
  <2> QED BY <2>1 DEF SectionsTyped
<1> QED BY <1>2, <1>3, <1>4, <1>5, <1>6, <1>7 DEF SettingsNext

\* core/settings.go, auth_settings.go: whatever an update takes over from before another one, a
\* section is never left half of this and half of that, and a secret that is stored is one that was
\* typed, under a key that a server has run with.
THEOREM SettingsTyped == SettingsSpec => []SettingsTypeOK
<1>1. SettingsInit => SectionsTyped
  <2> SUFFICES ASSUME SettingsInit PROVE SectionsTyped
    OBVIOUS
  <2>1. /\ \A s \in Sections : configured[s] = Fresh(s)
        /\ (\A a \in Editors : updates[a] = NoUpdate) /\ lost = {} /\ saves = 0
    BY DEF SettingsInit
  <2>2. \A s \in Sections : SectionTyped(s, Fresh(s))
    BY FreshIs DEF SectionTyped, CipherOf
  <2> QED BY <2>1, <2>2, SettingsAssumption DEF SectionsTyped
<1>2. SettingsInv /\ SectionsTyped /\ [SettingsNext]_settingVars => SettingsInv' /\ SectionsTyped'
  BY SettingsKept, SectionsTypedStep
<1>3. SettingsInv /\ SectionsTyped => SettingsTypeOK
  <2> SUFFICES ASSUME SettingsInv, SectionsTyped PROVE SettingsTypeOK
    OBVIOUS
  <2>1. "smtp" \in Sections /\ "storage" \in Sections /\ "providers" \in Sections
    BY SectionsAre
  <2>2. /\ SectionTyped("smtp", configured["smtp"]) /\ SectionTyped("storage", configured["storage"])
        /\ SectionTyped("providers", configured["providers"])
    BY <2>1 DEF SectionsTyped
  <2> QED BY <2>2 DEF SettingsInv, SettingsShape, SectionsTyped, SectionTyped, SettingsTypeOK
<1> QED BY <1>1, <1>2, <1>3, SettingsInitially, PTL DEF SettingsSpec

------------------------------------------------------------------------------
(* Realtime *)

\* Sequences: a last element goes to the second part, a first one to the first
LEMMA ConcatAppend ==
  ASSUME NEW S, NEW p \in Seq(S), NEW q \in Seq(S), NEW e \in S
  PROVE  p \o Append(q, e) = Append(p \o q, e)
<1>1. <<e>> \in Seq(S) /\ p \o q \in Seq(S)
  BY ConcatProperties
<1>2. Append(q, e) = q \o <<e>> /\ Append(p \o q, e) = (p \o q) \o <<e>>
  BY <1>1, AppendIsConcat
<1>3. (p \o q) \o <<e>> = p \o (q \o <<e>>)
  BY <1>1, ConcatAssociative
<1> QED BY <1>2, <1>3
LEMMA ConcatHeadTail ==
  ASSUME NEW S, NEW p \in Seq(S), NEW q \in Seq(S), q # <<>>
  PROVE  Append(p, Head(q)) \o Tail(q) = p \o q
<1>1. Head(q) \in S /\ Tail(q) \in Seq(S) /\ <<Head(q)>> \in Seq(S)
  BY HeadTailProperties
<1>2. Append(p, Head(q)) = p \o <<Head(q)>>
  BY <1>1, AppendIsConcat
<1>3. (p \o <<Head(q)>>) \o Tail(q) = p \o (<<Head(q)>> \o Tail(q))
  BY <1>1, ConcatAssociative
<1>4. <<Head(q)>> \o Tail(q) = q
  BY <1>1, HeadTailProperties, ConcatProperties, SeqEqual
<1> QED BY <1>2, <1>3, <1>4

\* Events, for any number of them and of restarts
AnyEvents == [kind : Kinds, id : Nat \ {0}, at : Replicas, start : Nat, topic : Topics]

RealtimeShape ==
  /\ drawn \in [Kinds -> Nat]
  /\ rows \subseteq AnyEvents /\ IsFiniteSet(rows)
  /\ handlers \subseteq [event : AnyEvents, step : {"insert", "publish"}]
  /\ start \in [Replicas -> Nat] /\ last \in [Replicas -> [Kinds -> Nat]]
  /\ polling \in [Replicas -> Kinds \cup {"idle"}] /\ batch \in [Replicas -> Seq(AnyEvents)]
  /\ home \in [Subscriptions -> Replicas \cup {NoReplica}]
  /\ buffer \in [Subscriptions -> Seq(AnyEvents)] /\ taken \in [Subscriptions -> Seq(AnyEvents)]
  /\ DOMAIN missed = Subscriptions /\ DOMAIN since = Subscriptions

\* An id is drawn once, and an event is in the hands of one request of its replica.
Known == rows \cup {h.event : h \in handlers} \cup UNION {Range(batch[r]) : r \in Replicas}
IdsOK ==
  /\ \A e \in Known : e.id <= drawn[e.kind]
  /\ \A e, f \in Known : e.kind = f.kind /\ e.id = f.id => e = f
  /\ \A h \in handlers : h.event.start = start[h.event.at]
  /\ \A g, h \in handlers : g.event = h.event => g = h

\* A batch is what a replica has yet to pass, in order and without a gap.
BatchOK(r) ==
  /\ \A i \in DOMAIN batch[r] :
       /\ batch[r][i].kind = polling[r] /\ batch[r][i].id > last[r][batch[r][i].kind]
       /\ SourceOf(batch[r][i]) # Source(r)
  /\ \A i, j \in DOMAIN batch[r] : i < j => batch[r][i].id < batch[r][j].id
  /\ \A i \in DOMAIN batch[r], e \in rows :
       e.kind = batch[r][i].kind /\ last[r][e.kind] < e.id /\ e.id < batch[r][i].id /\ SourceOf(e) # Source(r)
       => e \in Range(batch[r]) \/ <<r, e>> \in passedBy

\* What a connection was sent: the events of others as far as its replica has
\* passed them, and those of its replica that no request has still to publish.
SentOK(s, e) ==
  /\ MatchesFilter(s, e) /\ e.id <= drawn[e.kind]
  /\ SourceOf(e) = Source(home[s]) => \A h \in handlers : h.event # e
  /\ SourceOf(e) # Source(home[s]) => e.id <= last[home[s]][e.kind]
InOrder(s, q) ==
  \A i, j \in DOMAIN q : i < j =>
    /\ q[i] # q[j]
    /\ SourceOf(q[i]) # Source(home[s]) /\ SourceOf(q[j]) # Source(home[s]) => q[i].id < q[j].id
PassedOK(s, e) ==
  MatchesFilter(s, e) /\ SourceOf(e) # Source(home[s]) /\ e.id <= last[home[s]][e.kind]
  => \/ e \in Range(Stream(s)) \cup missed[s] \cup since[s]
     \/ <<home[s], e>> \in passedBy
StreamOK(s) ==
  /\ home[s] = NoReplica => buffer[s] = <<>> /\ taken[s] = <<>>
  /\ home[s] # NoReplica =>
       /\ \A e \in Range(Stream(s)) : SentOK(s, e)
       /\ InOrder(s, Stream(s))
       /\ \A e \in rows : PassedOK(s, e)

RealtimeInv ==
  /\ RealtimeShape /\ IdsOK
  /\ \A r \in Replicas : BatchOK(r)
  /\ \A s \in Subscriptions : StreamOK(s)

LEMMA RealtimeInitially == RealtimeInit => RealtimeInv
<1> SUFFICES ASSUME RealtimeInit PROVE RealtimeInv
  OBVIOUS
<1>1. RealtimeShape
  BY FS_EmptySet, RealtimeAssumption DEF RealtimeInit, RealtimeShape
<1>2. Known = {} /\ handlers = {} /\ rows = {}
  BY DEF RealtimeInit, Known, Range
<1>3. IdsOK
  BY <1>2 DEF IdsOK
<1>4. \A r \in Replicas : BatchOK(r)
  BY DEF RealtimeInit, BatchOK
<1>5. \A s \in Subscriptions : StreamOK(s)
  BY RealtimeAssumption DEF RealtimeInit, StreamOK
<1> QED BY <1>1, <1>3, <1>4, <1>5 DEF RealtimeInv

LEMMA StreamTypes ==
  ASSUME RealtimeShape, NEW s \in Subscriptions
  PROVE  Stream(s) \in Seq(AnyEvents) /\ Range(Stream(s)) \subseteq AnyEvents
<1>1. Stream(s) \in Seq(AnyEvents)
  BY DEF RealtimeShape, Stream
<1> QED BY <1>1 DEF Range

\* A connection that a step leaves as it was
LEMMA StreamStays ==
  ASSUME RealtimeShape, NEW s \in Subscriptions, StreamOK(s),
         home'[s] = home[s], Stream(s)' = Stream(s), missed'[s] = missed[s], since'[s] = since[s],
         home[s] = NoReplica => buffer'[s] = buffer[s] /\ taken'[s] = taken[s],
         home[s] # NoReplica => start'[home[s]] = start[home[s]] /\ last'[home[s]] = last[home[s]],
         \A h \in handlers' : (\E g \in handlers : g.event = h.event) \/ h.event.id > drawn[h.event.kind],
         \A k \in Kinds : drawn'[k] >= drawn[k],
         drawn' \in [Kinds -> Nat],
         home[s] # NoReplica => \A e \in rows' :
           \/ e \in rows /\ (<<home[s], e>> \in passedBy => <<home[s], e>> \in passedBy')
           \/ e.id <= last[home[s]][e.kind] => <<home[s], e>> \in passedBy'
  PROVE  StreamOK(s)'
<1>1. CASE home[s] = NoReplica
  BY <1>1 DEF StreamOK
<1>2. CASE home[s] # NoReplica
  <2>1. Stream(s)' = Stream(s) /\ home'[s] # NoReplica
    BY <1>2
  <2>2. <<home'[s], start'[home'[s]]>> = Source(home[s])
    BY <1>2 DEF Source
  <2>3. \A e \in Range(Stream(s)) : SentOK(s, e) /\ e \in AnyEvents
    BY <1>2, StreamTypes DEF StreamOK
  <2>4. ASSUME NEW e \in Range(Stream(s)) PROVE SentOK(s, e)'
    <3>1. e.kind \in Kinds /\ e.id \in Nat /\ drawn[e.kind] \in Nat /\ drawn'[e.kind] \in Nat
          /\ drawn'[e.kind] >= drawn[e.kind] /\ SentOK(s, e)
      BY <2>3 DEF AnyEvents, RealtimeShape
    <3>2. SourceOf(e) = Source(home[s]) => \A h \in handlers' : h.event # e
      BY <3>1 DEF SentOK
    <3> QED BY <1>2, <2>2, <3>1, <3>2 DEF SentOK, Source, SourceOf, MatchesFilter
  <2>5. InOrder(s, Stream(s))'
    BY <1>2, <2>1, <2>2 DEF StreamOK, InOrder, Source, SourceOf
  <2>6. ASSUME NEW e \in rows' PROVE PassedOK(s, e)'
    BY <1>2, <2>1, <2>2, <2>6 DEF StreamOK, PassedOK, Source, SourceOf, MatchesFilter
  <2> QED BY <1>2, <2>1, <2>4, <2>5, <2>6 DEF StreamOK
<1> QED BY <1>1, <1>2

\* A batch that a step leaves as it was, while rows come and go
LEMMA BatchStays ==
  ASSUME NEW r \in Replicas, BatchOK(r), batch'[r] = batch[r], last'[r] = last[r], start'[r] = start[r],
         batch[r] # <<>> => polling'[r] = polling[r], batch[r] \in Seq(AnyEvents),
         \A e \in rows' : \/ e \in rows /\ (<<r, e>> \in passedBy => <<r, e>> \in passedBy')
                          \/ r \in Passed(e) => <<r, e>> \in passedBy'
  PROVE  BatchOK(r)'
<1>1. \A i \in DOMAIN batch[r] : batch[r][i].kind = polling'[r]
  BY DEF BatchOK
<1>2. ASSUME NEW i \in DOMAIN batch[r], NEW e \in rows', e.kind = batch[r][i].kind, last[r][e.kind] < e.id,
             e.id < batch[r][i].id, SourceOf(e) # Source(r)
      PROVE  e \in Range(batch[r]) \/ <<r, e>> \in passedBy'
  <2>1. CASE e \in rows /\ (<<r, e>> \in passedBy => <<r, e>> \in passedBy')
    BY <1>2, <2>1 DEF BatchOK
  <2>2. CASE r \in Passed(e) => <<r, e>> \in passedBy'
    BY <1>2, <2>2 DEF Passed
  <2> QED BY <1>2, <2>1, <2>2
<1> QED BY <1>1, <1>2 DEF BatchOK, Source, SourceOf

LEMMA KnownAre ==
  ASSUME RealtimeShape
  PROVE  /\ Known \subseteq AnyEvents /\ \A h \in handlers : h.event \in Known
         /\ \A r \in Replicas : \A i \in DOMAIN batch[r] : batch[r][i] \in Known
         /\ rows \subseteq Known
<1>1. \A r \in Replicas : Range(batch[r]) \subseteq AnyEvents
  BY DEF RealtimeShape, Range
<1>2. \A h \in handlers : h.event \in AnyEvents
  BY DEF RealtimeShape
<1>3. Known \subseteq AnyEvents
  BY <1>1, <1>2 DEF RealtimeShape, Known
<1>4. \A r \in Replicas : \A i \in DOMAIN batch[r] : batch[r][i] \in Known
  BY DEF Known, Range
<1> QED BY <1>3, <1>4 DEF Known

\* What publishing does to a connection
LEMMA Published ==
  ASSUME RealtimeShape, NEW r \in Replicas, NEW e \in AnyEvents, HubPublish(r, e),
         NEW s \in Subscriptions
  PROVE  /\ home'[s] = home[s] /\ taken'[s] = taken[s] /\ since'[s] = since[s]
         /\ missed[s] \subseteq missed'[s]
         /\ \/ home[s] = r /\ MatchesFilter(s, e) /\ Stream(s)' = Append(Stream(s), e)
            \/ /\ Stream(s)' = Stream(s) /\ buffer'[s] = buffer[s]
               /\ home[s] = r /\ MatchesFilter(s, e) => e \in missed'[s]
               /\ ~(home[s] = r /\ MatchesFilter(s, e)) => missed'[s] = missed[s]
<1>1. /\ home' = home /\ taken' = taken /\ since' = since
      /\ buffer'[s] = IF home[s] = r /\ MatchesFilter(s, e) /\ Len(buffer[s]) < BufferSize
                      THEN Append(buffer[s], e) ELSE buffer[s]
      /\ missed'[s] = IF home[s] = r /\ MatchesFilter(s, e) /\ ~(Len(buffer[s]) < BufferSize)
                      THEN missed[s] \cup {e} ELSE missed[s]
  BY DEF HubPublish
<1>2. buffer[s] \in Seq(AnyEvents) /\ taken[s] \in Seq(AnyEvents)
  BY DEF RealtimeShape
<1>3. taken[s] \o Append(buffer[s], e) = Append(taken[s] \o buffer[s], e)
  <2>1. ASSUME NEW p \in Seq(AnyEvents), NEW q \in Seq(AnyEvents)
        PROVE  p \o Append(q, e) = Append(p \o q, e)
    BY ConcatAppend
  <2> QED BY <1>2, <2>1
<1> QED BY <1>1, <1>3 DEF Stream

LEMMA PublishKeepsShape ==
  ASSUME RealtimeShape, NEW r \in Replicas, NEW e \in AnyEvents, HubPublish(r, e)
  PROVE  /\ buffer' \in [Subscriptions -> Seq(AnyEvents)]
         /\ DOMAIN missed' = Subscriptions
         /\ home' = home /\ taken' = taken /\ since' = since
  BY DEF HubPublish, RealtimeShape

LEMMA InOrderAppend ==
  ASSUME NEW s, NEW q \in Seq(AnyEvents), NEW e \in AnyEvents, InOrder(s, q),
         \A f \in Range(q) : /\ f # e
                             /\ SourceOf(f) # Source(home[s]) /\ SourceOf(e) # Source(home[s]) => f.id < e.id
  PROVE  InOrder(s, Append(q, e))
<1> DEFINE p == Append(q, e)
<1>1. /\ DOMAIN p = 1 .. Len(q) + 1 /\ DOMAIN q = 1 .. Len(q) /\ Len(q) \in Nat
      /\ \A i \in DOMAIN q : p[i] = q[i] /\ q[i] \in Range(q)
      /\ p[Len(q) + 1] = e
  BY DEF Range
<1> HIDE DEF p
<1>2. SUFFICES ASSUME NEW i \in DOMAIN p, NEW j \in DOMAIN p, i < j
               PROVE  /\ p[i] # p[j]
                      /\ SourceOf(p[i]) # Source(home[s]) /\ SourceOf(p[j]) # Source(home[s])
                         => p[i].id < p[j].id
  BY DEF p, InOrder
<1>3. i \in DOMAIN q /\ i \in Nat /\ j \in Nat
  BY <1>1, <1>2
<1>4. CASE j \in DOMAIN q
  BY <1>1, <1>2, <1>3, <1>4 DEF InOrder
<1>5. CASE j \notin DOMAIN q
  <2>1. p[j] = e /\ p[i] = q[i] /\ q[i] \in Range(q)
    BY <1>1, <1>2, <1>3, <1>5
  <2> QED BY <2>1
<1> QED BY <1>4, <1>5

\* The first rows a replica has not passed
LEMMA ListOK ==
  ASSUME RealtimeShape, NEW r \in Replicas, NEW k \in Kinds, NEW list \in ListAfter(r, k)
  PROVE  /\ list \in Seq(AnyEvents)
         /\ \A i \in DOMAIN list : list[i] \in rows /\ list[i] \in Unpolled(r, k)
         /\ \A i, j \in DOMAIN list : i < j => list[i].id < list[j].id
         /\ \A i \in DOMAIN list : \A e \in Unpolled(r, k) :
              e.id < list[i].id => e \in Range(list)
<1> DEFINE found == Unpolled(r, k)
           n == IF Cardinality(found) < PollLimit THEN Cardinality(found) ELSE PollLimit
<1>1. found \subseteq rows /\ rows \subseteq AnyEvents /\ IsFiniteSet(rows)
  BY DEF Unpolled, RealtimeShape
<1>2. IsFiniteSet(found)
  BY <1>1, FS_Subset
<1>3. Cardinality(found) \in Nat
  BY <1>2, FS_CardinalityType
<1>4. n \in Nat
  BY <1>3, RealtimeAssumption
<1>5. /\ list \in [1 .. n -> found]
      /\ \A i, j \in 1 .. n : i < j => list[i].id < list[j].id
      /\ \A i \in 1 .. n, e \in found \ Range(list) : list[i].id < e.id
  BY DEF ListAfter
<1> HIDE DEF n, found
<1>6. list \in Seq(AnyEvents) /\ DOMAIN list = 1 .. n
  BY <1>1, <1>4, <1>5
<1>7. \A i \in DOMAIN list : list[i] \in rows /\ list[i] \in found
  BY <1>1, <1>5
<1>8. \A i \in DOMAIN list : \A e \in found : e.id < list[i].id => e \in Range(list)
  <2> SUFFICES ASSUME NEW i \in DOMAIN list, NEW e \in found, e.id < list[i].id, e \notin Range(list)
               PROVE  FALSE
    OBVIOUS
  <2>1. list[i].id < e.id
    BY <1>5, <1>6
  <2>2. list[i].id \in Nat /\ e.id \in Nat
    BY <1>1, <1>7 DEF AnyEvents
  <2> QED BY <2>1, <2>2
<1> QED BY <1>5, <1>6, <1>7, <1>8 DEF found

\* A connection of the replica that publishes e
LEMMA StreamPublished ==
  ASSUME RealtimeShape, NEW s \in Subscriptions, StreamOK(s), NEW r \in Replicas, home[s] = r,
         r # NoReplica, NEW e \in AnyEvents, HubPublish(r, e), start' = start, drawn' = drawn,
         rows' = rows, passedBy' = passedBy, handlers' \subseteq handlers,
         last' \in [Replicas -> [Kinds -> Nat]], \A k \in Kinds : last'[r][k] >= last[r][k],
         e.id <= drawn[e.kind],
         SourceOf(e) = Source(r) => \A h \in handlers' : h.event # e,
         SourceOf(e) # Source(r) => e.id <= last'[r][e.kind],
         MatchesFilter(s, e) => \A f \in Range(Stream(s)) :
           f # e /\ (SourceOf(f) # Source(r) /\ SourceOf(e) # Source(r) => f.id < e.id),
         \A f \in rows : f.id <= last'[r][f.kind] /\ SourceOf(f) # Source(r) =>
           f.id <= last[r][f.kind] \/ f = e \/ <<r, f>> \in passedBy
  PROVE  StreamOK(s)'
<1>1. /\ home'[s] = r /\ since'[s] = since[s] /\ missed[s] \subseteq missed'[s]
      /\ \/ MatchesFilter(s, e) /\ Stream(s)' = Append(Stream(s), e)
         \/ Stream(s)' = Stream(s) /\ (MatchesFilter(s, e) => e \in missed'[s])
  BY Published
<1>2. Stream(s) \in Seq(AnyEvents) /\ Range(Stream(s)) \subseteq AnyEvents
  BY StreamTypes
<1>3. Range(Append(Stream(s), e)) = Range(Stream(s)) \cup {e}
  <2>1. ASSUME NEW q \in Seq(AnyEvents) PROVE Range(Append(q, e)) = Range(q) \cup {e}
    BY RangeOfAppend
  <2> QED BY <1>2, <2>1
<1>4. /\ Range(Stream(s)') \subseteq Range(Stream(s)) \cup {e}
      /\ e \in Range(Stream(s)') => MatchesFilter(s, e) \/ e \in Range(Stream(s))
      /\ Range(Stream(s)) \subseteq Range(Stream(s)')
      /\ MatchesFilter(s, e) => e \in Range(Stream(s)') \cup missed'[s]
  BY <1>1, <1>3
<1>5. \A f \in Range(Stream(s)) : SentOK(s, f)
  BY DEF StreamOK
<1>6. ASSUME NEW f \in Range(Stream(s)) PROVE SentOK(s, f)'
  <2>1. SentOK(s, f) /\ f.kind \in Kinds /\ f.id \in Nat /\ last[r][f.kind] \in Nat
        /\ last'[r][f.kind] \in Nat /\ last'[r][f.kind] >= last[r][f.kind]
    <3>1. f \in AnyEvents /\ SentOK(s, f)
      BY <1>2, <1>5
    <3>2. f.kind \in Kinds /\ f.id \in Nat
      BY <3>1 DEF AnyEvents
    <3> QED BY <3>1, <3>2 DEF RealtimeShape
  <2> QED BY <1>1, <2>1 DEF SentOK, Source, SourceOf, MatchesFilter
<1>7. MatchesFilter(s, e) => SentOK(s, e)'
  BY <1>1 DEF SentOK, Source, SourceOf, MatchesFilter
<1>8. \A f \in Range(Stream(s)') : SentOK(s, f)'
  BY <1>4, <1>6, <1>7
<1>9. InOrder(s, Stream(s))'
  <2>1. InOrder(s, Stream(s))
    BY DEF StreamOK
  <2>2. CASE Stream(s)' = Stream(s)
    BY <1>1, <2>1, <2>2 DEF InOrder, Source, SourceOf
  <2>3. CASE MatchesFilter(s, e) /\ Stream(s)' = Append(Stream(s), e)
    <3>1. InOrder(s, Append(Stream(s), e))
      <4>1. ASSUME NEW q \in Seq(AnyEvents), InOrder(s, q),
                   \A f \in Range(q) :
                     f # e /\ (SourceOf(f) # Source(home[s]) /\ SourceOf(e) # Source(home[s]) => f.id < e.id)
            PROVE  InOrder(s, Append(q, e))
        BY <4>1, InOrderAppend
      <4> QED BY <1>2, <2>1, <2>3, <4>1
    <3> QED BY <1>1, <2>3, <3>1 DEF InOrder, Source, SourceOf
  <2> QED BY <1>1, <2>2, <2>3
<1>10. ASSUME NEW f \in rows PROVE PassedOK(s, f)'
  <2>1. PassedOK(s, f)
    BY DEF StreamOK
  <2>2. SUFFICES ASSUME MatchesFilter(s, f), SourceOf(f) # Source(r), f.id <= last'[r][f.kind],
                        <<r, f>> \notin passedBy
                 PROVE  f \in Range(Stream(s)') \cup missed'[s] \cup since[s]
    BY <1>1 DEF PassedOK, Source, SourceOf, MatchesFilter
  <2>3. f.id <= last[r][f.kind] \/ f = e
    BY <2>2
  <2>4. CASE f = e
    BY <1>4, <2>2, <2>4
  <2>5. CASE f.id <= last[r][f.kind]
    BY <1>1, <1>4, <2>1, <2>2, <2>5 DEF PassedOK
  <2> QED BY <2>3, <2>4, <2>5
<1> QED BY <1>1, <1>8, <1>9, <1>10 DEF StreamOK

LEMMA IdsStay ==
  ASSUME IdsOK, Known' \subseteq Known, drawn' = drawn, handlers' \subseteq handlers,
         \A h \in handlers' : start'[h.event.at] = start[h.event.at]
  PROVE  IdsOK'
  BY DEF IdsOK

LEMMA StreamUnmoved ==
  ASSUME RealtimeShape, NEW s \in Subscriptions, StreamOK(s),
         home'[s] = home[s], buffer'[s] = buffer[s], taken'[s] = taken[s],
         missed'[s] = missed[s], since'[s] = since[s],
         UNCHANGED <<drawn, start, last, passedBy>>, handlers' \subseteq handlers, rows' \subseteq rows
  PROVE  StreamOK(s)'
<1>1. Stream(s)' = Stream(s)
  BY DEF Stream
<1>2. \A k \in Kinds : drawn[k] >= drawn[k]
  BY DEF RealtimeShape
<1> QED BY <1>1, <1>2, StreamStays DEF RealtimeShape

LEMMA SubscribeKeeps ==
  ASSUME RealtimeInv, NEW s \in Subscriptions, NEW r \in Replicas, Subscribe(s, r)
  PROVE  RealtimeInv'
<1>1. /\ UNCHANGED <<drawn, rows, handlers, start, last, polling, batch, buffer, taken, missed, passedBy>>
      /\ home[s] = NoReplica /\ home' = [home EXCEPT ![s] = r]
      /\ since' = [since EXCEPT ![s] = Behind(r)]
  BY DEF Subscribe, eventTables, fanout
<1>2. RealtimeShape /\ IdsOK /\ r # NoReplica
  BY RealtimeAssumption DEF RealtimeInv
<1>3. RealtimeShape'
  BY <1>1, <1>2 DEF RealtimeShape
<1>4. IdsOK'
  BY <1>1, <1>2 DEF IdsOK, Known
<1>5. \A q \in Replicas : BatchOK(q)'
  BY <1>1 DEF RealtimeInv, BatchOK, Source, SourceOf
<1>6. ASSUME NEW t \in Subscriptions, t # s PROVE StreamOK(t)'
  <2>1. StreamOK(t) /\ home'[t] = home[t] /\ since'[t] = since[t]
    BY <1>1, <1>2, <1>6 DEF RealtimeInv, RealtimeShape
  <2> QED BY <1>1, <1>2, <2>1, StreamUnmoved
<1>7. StreamOK(s)'
  <2>1. /\ buffer[s] = <<>> /\ taken[s] = <<>> /\ home'[s] = r /\ since'[s] = Behind(r)
    BY <1>1, <1>2 DEF RealtimeInv, StreamOK, RealtimeShape
  <2>2. Stream(s)' = <<>>
    BY <1>1, <2>1 DEF Stream
  <2>3. Range(Stream(s)') = {} /\ InOrder(s, Stream(s))'
    BY <2>2 DEF Range, InOrder
  <2>4. ASSUME NEW e \in rows PROVE PassedOK(s, e)'
    BY <1>1, <2>1 DEF PassedOK, Behind, Source, SourceOf
  <2> QED BY <1>1, <1>2, <2>1, <2>3, <2>4 DEF StreamOK
<1> QED BY <1>3, <1>4, <1>5, <1>6, <1>7 DEF RealtimeInv

LEMMA UnsubscribeKeeps ==
  ASSUME RealtimeInv, NEW s \in Subscriptions, Unsubscribe(s)
  PROVE  RealtimeInv'
<1>1. UNCHANGED <<drawn, rows, handlers, start, last, polling, batch, passedBy>> /\ Disconnected({s})
  BY DEF Unsubscribe, eventTables, fanout
<1>2. RealtimeShape /\ IdsOK
  BY DEF RealtimeInv
<1>3. RealtimeShape'
  BY <1>1, <1>2 DEF RealtimeShape, Disconnected
<1>4. IdsOK'
  BY <1>1, <1>2 DEF IdsOK, Known
<1>5. \A q \in Replicas : BatchOK(q)'
  BY <1>1 DEF RealtimeInv, BatchOK, Source, SourceOf
<1>6. ASSUME NEW t \in Subscriptions, t # s PROVE StreamOK(t)'
  <2>1. /\ StreamOK(t) /\ home'[t] = home[t] /\ since'[t] = since[t]
        /\ buffer'[t] = buffer[t] /\ taken'[t] = taken[t] /\ missed'[t] = missed[t]
    BY <1>1, <1>6 DEF RealtimeInv, Disconnected
  <2> QED BY <1>1, <1>2, <2>1, StreamUnmoved
<1>7. StreamOK(s)'
  BY <1>1 DEF Disconnected, StreamOK
<1> QED BY <1>3, <1>4, <1>5, <1>6, <1>7 DEF RealtimeInv

LEMMA ReceiveKeeps ==
  ASSUME RealtimeInv, NEW s \in Subscriptions, Receive(s)
  PROVE  RealtimeInv'
<1>1. /\ UNCHANGED <<drawn, rows, handlers, start, last, polling, batch, home, missed, since, passedBy>>
      /\ buffer[s] # <<>>
      /\ buffer' = [buffer EXCEPT ![s] = Tail(@)]
      /\ taken' = [taken EXCEPT ![s] = Append(@, Head(buffer[s]))]
  BY DEF Receive, eventTables, fanout
<1>2. RealtimeShape /\ IdsOK
  BY DEF RealtimeInv
<1>3. /\ buffer[s] \in Seq(AnyEvents) /\ taken[s] \in Seq(AnyEvents)
      /\ buffer'[s] = Tail(buffer[s]) /\ taken'[s] = Append(taken[s], Head(buffer[s]))
      /\ \A t \in Subscriptions \ {s} : buffer'[t] = buffer[t] /\ taken'[t] = taken[t]
  BY <1>1, <1>2 DEF RealtimeShape
<1>4. RealtimeShape'
  <2>1. Tail(buffer[s]) \in Seq(AnyEvents) /\ Append(taken[s], Head(buffer[s])) \in Seq(AnyEvents)
    BY <1>1, <1>3
  <2> QED BY <1>1, <1>2, <2>1 DEF RealtimeShape
<1>5. IdsOK'
  BY <1>1, <1>2 DEF IdsOK, Known
<1>6. \A q \in Replicas : BatchOK(q)'
  BY <1>1 DEF RealtimeInv, BatchOK, Source, SourceOf
<1>7. ASSUME NEW t \in Subscriptions, t # s PROVE StreamOK(t)'
  <2>1. StreamOK(t) /\ buffer'[t] = buffer[t] /\ taken'[t] = taken[t]
    BY <1>3, <1>7 DEF RealtimeInv
  <2> QED BY <1>1, <1>2, <2>1, StreamUnmoved
<1>8. StreamOK(s)'
  <2>1. Stream(s)' = Stream(s)
    <3>1. ASSUME NEW p \in Seq(AnyEvents), NEW q \in Seq(AnyEvents), q # <<>>
          PROVE  Append(p, Head(q)) \o Tail(q) = p \o q
      BY <3>1, ConcatHeadTail
    <3> QED BY <1>1, <1>3, <3>1 DEF Stream
  <2>2. StreamOK(s) /\ home[s] # NoReplica
    BY <1>1 DEF RealtimeInv, StreamOK
  <2> QED BY <1>1, <2>1, <2>2 DEF StreamOK, SentOK, InOrder, PassedOK, MatchesFilter, Source, SourceOf
<1> QED BY <1>4, <1>5, <1>6, <1>7, <1>8 DEF RealtimeInv

LEMMA BeginInsertKeeps ==
  ASSUME RealtimeInv, NEW r \in Replicas, NEW k \in Kinds, NEW t \in Topics, BeginInsert(r, k, t)
  PROVE  RealtimeInv'
<1> DEFINE e == [kind |-> k, id |-> drawn[k] + 1, at |-> r, start |-> start[r], topic |-> t]
           g == [event |-> e, step |-> "insert"]
<1>1. /\ UNCHANGED <<rows, start, last, polling, batch, home, buffer, taken, missed, since, passedBy>>
      /\ drawn' = [drawn EXCEPT ![k] = @ + 1] /\ handlers' = handlers \cup {g}
  BY DEF BeginInsert, fanout, hubs
<1>2. RealtimeShape /\ IdsOK
  BY DEF RealtimeInv
<1>3. /\ drawn \in [Kinds -> Nat] /\ drawn' \in [Kinds -> Nat] /\ drawn'[k] = drawn[k] + 1
      /\ \A l \in Kinds : drawn'[l] >= drawn[l] /\ drawn[l] \in Nat
  BY <1>1, <1>2 DEF RealtimeShape
<1>4. /\ e \in AnyEvents /\ e.kind = k /\ e.id = drawn[k] + 1 /\ e.at = r /\ e.start = start[r]
      /\ g.event = e
  BY <1>2, <1>3 DEF RealtimeShape, AnyEvents
<1> HIDE DEF e
<1>5. RealtimeShape'
  BY <1>1, <1>2, <1>3, <1>4 DEF RealtimeShape
<1>6. Known' = Known \cup {e}
  BY <1>1, <1>4 DEF Known
<1>7. IdsOK'
  <2>1. Known \subseteq AnyEvents /\ \A h \in handlers : h.event \in Known
    BY <1>2, KnownAre
  <2>2. \A f \in Known : f.id \in Nat /\ f.kind \in Kinds /\ f.id <= drawn[f.kind]
    BY <1>2, <2>1 DEF AnyEvents, IdsOK
  <2>3. \A f \in Known' : f.id <= drawn'[f.kind]
    <3> SUFFICES ASSUME NEW f \in Known PROVE f.id <= drawn'[f.kind]
      BY <1>3, <1>4, <1>6
    <3>1. f.id \in Nat /\ f.kind \in Kinds /\ f.id <= drawn[f.kind]
      BY <2>2
    <3> QED BY <1>3, <3>1
  <2>4. \A f \in Known : ~(f.kind = k /\ f.id = drawn[k] + 1)
    BY <1>3, <2>2
  <2>5. \A f, h \in Known' : f.kind = h.kind /\ f.id = h.id => f = h
    BY <1>2, <1>4, <1>6, <2>4 DEF IdsOK
  <2>6. \A h \in handlers' : h.event.start = start'[h.event.at]
    BY <1>1, <1>2, <1>4 DEF IdsOK
  <2>7. \A h \in handlers : h.event # e
    BY <1>4, <2>1, <2>4
  <2>8. \A f, h \in handlers' : f.event = h.event => f = h
    BY <1>1, <1>2, <1>4, <2>7 DEF IdsOK
  <2> QED BY <2>3, <2>5, <2>6, <2>8 DEF IdsOK
<1>8. \A q \in Replicas : BatchOK(q)'
  BY <1>1 DEF RealtimeInv, BatchOK, Source, SourceOf
<1>9. ASSUME NEW s \in Subscriptions PROVE StreamOK(s)'
  <2>1. Stream(s)' = Stream(s) /\ StreamOK(s)
    BY <1>1 DEF RealtimeInv, Stream
  <2>2. \A h \in handlers' : (\E f \in handlers : f.event = h.event) \/ h.event.id > drawn[h.event.kind]
    BY <1>1, <1>3, <1>4
  <2> QED BY <1>1, <1>2, <1>3, <2>1, <2>2, StreamStays
<1> QED BY <1>5, <1>7, <1>8, <1>9 DEF RealtimeInv

\* A stored row, or none: replicas that will not read it are in passedBy
LEMMA InsertKeeps ==
  ASSUME RealtimeInv, NEW h \in handlers, Inserted(h.event) \/ UNCHANGED <<rows, passedBy>>,
         UNCHANGED <<drawn, start, last, polling, batch, home, buffer, taken, missed, since>>,
         \/ handlers' = handlers \ {h}
         \/ handlers' = (handlers \ {h}) \cup {[h EXCEPT !.step = "publish"]}
  PROVE  RealtimeInv'
<1> DEFINE e == h.event
<1>1. RealtimeShape /\ IdsOK
  BY DEF RealtimeInv
<1>2. h \in [event : AnyEvents, step : {"insert", "publish"}] /\ e \in AnyEvents
  BY <1>1 DEF RealtimeShape
<1>3. PICK p : p = [h EXCEPT !.step = "publish"]
  OBVIOUS
<1>4. p \in [event : AnyEvents, step : {"insert", "publish"}] /\ p.event = e
  BY <1>2, <1>3
<1>5. handlers' \subseteq (handlers \ {h}) \cup {p}
  BY <1>3
<1> HIDE DEF e
<1>6. /\ rows' \subseteq rows \cup {e} /\ rows \subseteq rows' /\ passedBy \subseteq passedBy'
      /\ \A f \in rows' : f \in rows \/ \A q \in Passed(f) : <<q, f>> \in passedBy'
  BY DEF Inserted, e
<1>7. RealtimeShape'
  <2>1. IsFiniteSet(rows')
    <3>1. IsFiniteSet(rows \cup {e})
      BY <1>1, FS_AddElement DEF RealtimeShape
    <3> QED BY <1>6, <3>1, FS_Subset
  <2>2. rows' \subseteq AnyEvents
    BY <1>1, <1>2, <1>6 DEF RealtimeShape
  <2> QED BY <1>1, <1>4, <1>5, <2>1, <2>2 DEF RealtimeShape
<1>8. IdsOK'
  <2>1. Known' \subseteq Known
    BY <1>4, <1>5, <1>6 DEF Known, e
  <2>2. \A f \in handlers' : f.event.start = start'[f.event.at]
    BY <1>1, <1>4, <1>5 DEF IdsOK, e
  <2>3. \A f, g \in handlers' : f.event = g.event => f = g
    BY <1>1, <1>4, <1>5 DEF IdsOK, e
  <2> QED BY <1>1, <2>1, <2>2, <2>3 DEF IdsOK
<1>9. ASSUME NEW q \in Replicas PROVE BatchOK(q)'
  <2>1. BatchOK(q) /\ batch[q] \in Seq(AnyEvents)
    BY <1>1 DEF RealtimeInv, RealtimeShape
  <2> QED BY <1>6, <2>1, BatchStays
<1>10. ASSUME NEW s \in Subscriptions PROVE StreamOK(s)'
  <2>1. Stream(s)' = Stream(s) /\ StreamOK(s)
    BY DEF RealtimeInv, Stream
  <2>2. \A g \in handlers' : (\E f \in handlers : f.event = g.event) \/ g.event.id > drawn[g.event.kind]
    BY <1>4, <1>5 DEF e
  <2>3. drawn' \in [Kinds -> Nat] /\ \A k \in Kinds : drawn'[k] >= drawn[k]
    BY <1>1 DEF RealtimeShape
  <2>4. home[s] # NoReplica => \A f \in rows' :
          \/ f \in rows /\ (<<home[s], f>> \in passedBy => <<home[s], f>> \in passedBy')
          \/ f.id <= last[home[s]][f.kind] => <<home[s], f>> \in passedBy'
    <3> SUFFICES ASSUME home[s] # NoReplica, NEW f \in rows', f \notin rows, f.id <= last[home[s]][f.kind]
                 PROVE  <<home[s], f>> \in passedBy'
      BY <1>6
    <3>1. home[s] \in Replicas /\ f \in AnyEvents
      BY <1>1, <1>7 DEF RealtimeShape
    <3>2. f.id \in Nat /\ f.kind \in Kinds
      BY <3>1 DEF AnyEvents
    <3>3. last[home[s]][f.kind] >= f.id
      BY <1>1, <3>1, <3>2 DEF RealtimeShape
    <3> QED BY <1>6, <3>1, <3>3 DEF Passed
  <2> QED BY <1>1, <2>1, <2>2, <2>3, <2>4, StreamStays
<1> QED BY <1>7, <1>8, <1>9, <1>10 DEF RealtimeInv

\* The connections of other replicas
LEMMA NotPublished ==
  ASSUME RealtimeShape, NEW s \in Subscriptions, StreamOK(s), NEW r \in Replicas, home[s] # r,
         NEW e \in AnyEvents, HubPublish(r, e), start' = start, drawn' = drawn,
         rows' = rows, passedBy' = passedBy, handlers' \subseteq handlers,
         \A q \in Replicas : q # r => last'[q] = last[q]
  PROVE  StreamOK(s)'
<1>1. /\ home'[s] = home[s] /\ taken'[s] = taken[s] /\ since'[s] = since[s]
      /\ Stream(s)' = Stream(s) /\ buffer'[s] = buffer[s] /\ missed'[s] = missed[s]
  <2>1. \/ home[s] = r /\ MatchesFilter(s, e) /\ Stream(s)' = Append(Stream(s), e)
        \/ /\ Stream(s)' = Stream(s) /\ buffer'[s] = buffer[s]
           /\ ~(home[s] = r /\ MatchesFilter(s, e)) => missed'[s] = missed[s]
    BY Published
  <2> QED BY <2>1, Published
<1>2. home[s] # NoReplica => home[s] \in Replicas
  BY DEF RealtimeShape
<1>3. drawn' \in [Kinds -> Nat] /\ \A k \in Kinds : drawn'[k] >= drawn[k]
  BY DEF RealtimeShape
<1> QED BY <1>1, <1>2, <1>3, StreamStays

LEMMA PublishLocalKeeps ==
  ASSUME RealtimeInv, NEW h \in handlers, PublishLocal(h)
  PROVE  RealtimeInv'
<1> DEFINE e == h.event
           r == e.at
<1>1. /\ UNCHANGED <<drawn, rows, start, last, polling, batch, passedBy>>
      /\ HubPublish(r, e) /\ handlers' = handlers \ {h}
  BY DEF PublishLocal, eventTables, fanout
<1>2. RealtimeShape /\ IdsOK
  BY DEF RealtimeInv
<1>3. e \in AnyEvents /\ r \in Replicas /\ r # NoReplica /\ e.kind \in Kinds
  BY <1>2, RealtimeAssumption DEF RealtimeShape, AnyEvents
<1>4. SourceOf(e) = Source(r)
  BY <1>2 DEF IdsOK, SourceOf, Source
<1>5. e \in Known /\ e.id <= drawn[e.kind] /\ \A g \in handlers' : g.event # e
  <2>1. e \in Known
    BY DEF Known
  <2> QED BY <1>1, <1>2, <2>1 DEF IdsOK
<1> HIDE DEF e, r
<1>6. RealtimeShape'
  BY <1>1, <1>2, <1>3, PublishKeepsShape DEF RealtimeShape
<1>7. IdsOK'
  <2>1. Known' \subseteq Known
    BY <1>1 DEF Known
  <2> QED BY <1>1, <1>2, <2>1, IdsStay DEF IdsOK
<1>8. \A q \in Replicas : BatchOK(q)'
  BY <1>1 DEF RealtimeInv, BatchOK, Source, SourceOf
<1>9. ASSUME NEW s \in Subscriptions PROVE StreamOK(s)'
  <2>1. StreamOK(s)
    BY DEF RealtimeInv
  <2>2. CASE home[s] # r
    BY <1>1, <1>2, <1>3, <2>1, <2>2, NotPublished
  <2>3. CASE home[s] = r
    <3>1. \A f \in Range(Stream(s)) : f # e
      BY <1>3, <1>4, <2>1, <2>3 DEF StreamOK, SentOK, e
    <3>2. last' \in [Replicas -> [Kinds -> Nat]] /\ \A k \in Kinds : last'[r][k] >= last[r][k]
      BY <1>1, <1>2, <1>3 DEF RealtimeShape
    <3> QED BY <1>1, <1>2, <1>3, <1>4, <1>5, <2>1, <2>3, <3>1, <3>2, StreamPublished
  <2> QED BY <2>2, <2>3
<1> QED BY <1>6, <1>7, <1>8, <1>9 DEF RealtimeInv

LEMMA PublishNextKeeps ==
  ASSUME RealtimeInv, NEW r \in Replicas, PublishNext(r)
  PROVE  RealtimeInv'
<1> DEFINE b == batch[r]
           e == Head(b)
<1>1. /\ UNCHANGED <<drawn, rows, start, handlers, polling, passedBy>>
      /\ b # <<>> /\ HubPublish(r, e) /\ batch' = [batch EXCEPT ![r] = Tail(@)]
      /\ last' = [last EXCEPT ![r][e.kind] = IF e.id > @ THEN e.id ELSE @]
  BY DEF PublishNext, eventTables
<1>2. RealtimeShape /\ IdsOK /\ BatchOK(r) /\ r # NoReplica
  BY RealtimeAssumption DEF RealtimeInv
<1>3. /\ b \in Seq(AnyEvents) /\ DOMAIN b = 1 .. Len(b) /\ Len(b) \in Nat \ {0} /\ e = b[1] /\ 1 \in DOMAIN b
      /\ \A i \in DOMAIN b : b[i] \in AnyEvents
      /\ Tail(b) \in Seq(AnyEvents) /\ DOMAIN Tail(b) = 1 .. Len(b) - 1
      /\ \A i \in DOMAIN Tail(b) : Tail(b)[i] = b[i + 1] /\ i + 1 \in DOMAIN b
  BY <1>1, <1>2 DEF RealtimeShape
<1>4. /\ e \in AnyEvents /\ e.kind \in Kinds /\ e.id \in Nat /\ e.id > last[r][e.kind]
      /\ SourceOf(e) # Source(r) /\ e.kind = polling[r]
  BY <1>2, <1>3 DEF BatchOK, AnyEvents
<1>5. batch'[r] = Tail(b) /\ \A q \in Replicas \ {r} : batch'[q] = batch[q]
  BY <1>1, <1>2 DEF RealtimeShape
<1>6. e \in Known /\ e.id <= drawn[e.kind]
  BY <1>2, <1>3, KnownAre DEF IdsOK
<1> HIDE DEF e, b
<1>7. /\ last' \in [Replicas -> [Kinds -> Nat]] /\ last'[r][e.kind] = e.id
      /\ \A k \in Kinds : k # e.kind => last'[r][k] = last[r][k]
      /\ \A q \in Replicas : q # r => last'[q] = last[q]
  <2>1. last \in [Replicas -> [Kinds -> Nat]]
    BY <1>2 DEF RealtimeShape
  <2>2. last'[r] = [last[r] EXCEPT ![e.kind] = IF e.id > @ THEN e.id ELSE @]
        /\ DOMAIN last' = Replicas /\ \A q \in Replicas : q # r => last'[q] = last[q]
    BY <1>1, <2>1
  <2>3. last'[r] \in [Kinds -> Nat] /\ last'[r][e.kind] = e.id
        /\ \A k \in Kinds : k # e.kind => last'[r][k] = last[r][k]
    BY <1>4, <2>1, <2>2
  <2>4. last' = [q \in Replicas |-> last'[q]] /\ \A q \in Replicas : last'[q] \in [Kinds -> Nat]
    BY <1>1, <2>1, <2>2, <2>3
  <2> QED BY <2>2, <2>3, <2>4
<1>8. RealtimeShape'
  <2>1. batch' \in [Replicas -> Seq(AnyEvents)]
    BY <1>1, <1>2, <1>3, <1>5 DEF RealtimeShape
  <2> QED BY <1>1, <1>2, <1>4, <1>7, <2>1, PublishKeepsShape DEF RealtimeShape
<1>9. IdsOK'
  <2>1. \A q \in Replicas : Range(batch'[q]) \subseteq Range(batch[q])
    <3>1. Range(Tail(b)) \subseteq Range(b)
      BY <1>3 DEF Range
    <3> QED BY <1>5, <3>1 DEF b
  <2>2. Known' \subseteq Known
    BY <1>1, <2>1 DEF Known
  <2> QED BY <1>1, <1>2, <2>2, IdsStay DEF IdsOK
<1>10. \A f \in Range(b) : f = e \/ (f \in Range(Tail(b)) /\ f.id > e.id)
  <2> SUFFICES ASSUME NEW i \in DOMAIN b, b[i] # e PROVE b[i] \in Range(Tail(b)) /\ b[i].id > e.id
    BY DEF Range
  <2>1. 1 < i /\ i - 1 \in DOMAIN Tail(b) /\ (i - 1) + 1 = i
    BY <1>3
  <2>2. Tail(b)[i - 1] = b[i]
    BY <1>3, <2>1
  <2>3. e.id < b[i].id /\ b[i].id \in Nat
    BY <1>2, <1>3, <2>1 DEF BatchOK, b, AnyEvents
  <2> QED BY <1>4, <2>1, <2>2, <2>3 DEF Range
\* rows between what was passed and the next of the batch
<1>11. \A f \in rows : /\ f.kind = e.kind /\ last[r][f.kind] < f.id /\ f.id < e.id /\ SourceOf(f) # Source(r)
                       => <<r, f>> \in passedBy
  <2> SUFFICES ASSUME NEW f \in rows, f.kind = e.kind, last[r][f.kind] < f.id, f.id < e.id,
                      SourceOf(f) # Source(r)
               PROVE  <<r, f>> \in passedBy
    OBVIOUS
  <2>1. f \in Range(b) \/ <<r, f>> \in passedBy
    BY <1>2, <1>3 DEF BatchOK, b
  <2>2. f.id \in Nat
    BY <1>2 DEF RealtimeShape, AnyEvents
  <2> QED BY <1>4, <1>10, <2>1, <2>2
<1>12. BatchOK(r)'
  <2> DEFINE c == Tail(b)
  <2>1. \A i \in DOMAIN b : b[i].kind = e.kind /\ b[i].id \in Nat /\ SourceOf(b[i]) # Source(r)
    BY <1>2, <1>3, <1>4 DEF BatchOK, b, AnyEvents
  <2>2. \A i \in DOMAIN b, j \in DOMAIN b : i < j => b[i].id < b[j].id
    BY <1>2 DEF BatchOK, b
  <2>3. DOMAIN c = 1 .. Len(b) - 1 /\ \A i \in DOMAIN c : c[i] = b[i + 1] /\ i + 1 \in DOMAIN b
    BY <1>3
  <2>4. \A i \in DOMAIN c : 1 < i + 1 /\ e.id < c[i].id
    BY <1>3, <2>2, <2>3
  <2> HIDE DEF c
  <2>5. \A i, j \in DOMAIN c : i < j => c[i].id < c[j].id
    <3> SUFFICES ASSUME NEW i \in DOMAIN c, NEW j \in DOMAIN c, i < j PROVE c[i].id < c[j].id
      OBVIOUS
    <3>1. i + 1 < j + 1
      BY <2>3
    <3> QED BY <2>2, <2>3, <3>1
  <2>6. ASSUME NEW i \in DOMAIN c, NEW f \in rows, f.kind = c[i].kind, last'[r][f.kind] < f.id,
               f.id < c[i].id, SourceOf(f) # Source(r)
        PROVE  f \in Range(c) \/ <<r, f>> \in passedBy
    <3>1. f.kind = e.kind /\ f.id \in Nat /\ last[r][f.kind] \in Nat
      <4>1. f \in AnyEvents /\ f.kind = e.kind
        BY <1>2, <2>1, <2>3, <2>6 DEF RealtimeShape
      <4>2. f.id \in Nat /\ last[r] \in [Kinds -> Nat]
        BY <1>2, <4>1 DEF RealtimeShape, AnyEvents
      <4> QED BY <1>4, <4>1, <4>2
    <3>2. e.id < f.id /\ last[r][f.kind] < f.id
      BY <1>4, <1>7, <2>6, <3>1
    <3>3. f \in Range(b) \/ <<r, f>> \in passedBy
      BY <1>2, <2>3, <2>6, <3>2 DEF BatchOK, b
    <3> QED BY <1>4, <1>10, <3>2, <3>3 DEF c
  <2>7. batch'[r] = c
    BY <1>5 DEF c
  <2>8. \A i \in DOMAIN c : c[i].kind = polling'[r] /\ c[i].id > last'[r][c[i].kind] /\ SourceOf(c[i]) # Source(r)
    <3> SUFFICES ASSUME NEW i \in DOMAIN c
                 PROVE  c[i].kind = polling'[r] /\ c[i].id > last'[r][c[i].kind] /\ SourceOf(c[i]) # Source(r)
      OBVIOUS
    <3>1. c[i].kind = e.kind /\ c[i].id \in Nat /\ SourceOf(c[i]) # Source(r) /\ e.id < c[i].id
      BY <2>1, <2>3, <2>4
    <3> QED BY <1>1, <1>4, <1>7, <3>1
  <2> QED BY <1>1, <2>5, <2>6, <2>7, <2>8 DEF BatchOK, Source, SourceOf
<1>13. ASSUME NEW q \in Replicas PROVE BatchOK(q)'
  <2>1. CASE q = r
    BY <1>12, <2>1
  <2>2. CASE q # r
    <3>1. BatchOK(q) /\ batch'[q] = batch[q] /\ last'[q] = last[q]
      BY <1>5, <1>7, <2>2 DEF RealtimeInv
    <3> QED BY <1>1, <3>1 DEF BatchOK, Source, SourceOf
  <2> QED BY <2>1, <2>2
<1>14. ASSUME NEW s \in Subscriptions PROVE StreamOK(s)'
  <2>1. StreamOK(s)
    BY DEF RealtimeInv
  <2>2. CASE home[s] # r
    BY <1>1, <1>2, <1>4, <1>7, <2>1, <2>2, NotPublished
  <2>3. CASE home[s] = r
    <3>1. \A k \in Kinds : last'[r][k] >= last[r][k] /\ last[r][k] \in Nat
      <4> SUFFICES ASSUME NEW k \in Kinds PROVE last'[r][k] >= last[r][k] /\ last[r][k] \in Nat
        OBVIOUS
      <4>1. last[r][k] \in Nat /\ last[r][e.kind] \in Nat
        BY <1>2, <1>4 DEF RealtimeShape
      <4> QED BY <1>4, <1>7, <4>1
    <3>2. MatchesFilter(s, e) => \A f \in Range(Stream(s)) :
            f # e /\ (SourceOf(f) # Source(r) /\ SourceOf(e) # Source(r) => f.id < e.id)
      <4> SUFFICES ASSUME MatchesFilter(s, e), NEW f \in Range(Stream(s))
                   PROVE  f # e /\ (SourceOf(f) # Source(r) => f.id < e.id)
        OBVIOUS
      <4>1. SentOK(s, f) /\ f \in AnyEvents
        BY <1>2, <2>1, <2>3, StreamTypes DEF StreamOK
      <4>2. f.kind = e.kind
        BY <4>1 DEF SentOK, MatchesFilter
      <4>3. CASE SourceOf(f) = Source(r)
        BY <1>4, <4>3
      <4>4. CASE SourceOf(f) # Source(r)
        <5>1. f.id <= last[r][e.kind] /\ f.id \in Nat
          BY <2>3, <4>1, <4>2, <4>4 DEF SentOK, AnyEvents
        <5> QED BY <1>4, <3>1, <5>1
      <4> QED BY <4>3, <4>4
    <3>3. \A f \in rows : f.id <= last'[r][f.kind] /\ SourceOf(f) # Source(r) =>
            f.id <= last[r][f.kind] \/ f = e \/ <<r, f>> \in passedBy
      <4> SUFFICES ASSUME NEW f \in rows, f.id <= last'[r][f.kind], SourceOf(f) # Source(r),
                          ~(f.id <= last[r][f.kind]), f # e
                   PROVE  <<r, f>> \in passedBy
        OBVIOUS
      <4>1. f.kind \in Kinds /\ f.id \in Nat /\ f \in Known
        BY <1>2 DEF RealtimeShape, AnyEvents, Known
      <4>2. f.kind = e.kind /\ f.id <= e.id
        BY <1>7, <4>1
      <4>3. f.id # e.id
        BY <1>2, <1>6, <4>1, <4>2 DEF IdsOK
      <4>4. last[r][f.kind] < f.id /\ f.id < e.id
        BY <1>4, <3>1, <4>1, <4>2, <4>3
      <4> QED BY <1>11, <4>2, <4>4
    <3>4. SourceOf(e) # Source(r) => e.id <= last'[r][e.kind]
      BY <1>4, <1>7
    <3>5. /\ start' = start /\ drawn' = drawn /\ rows' = rows /\ passedBy' = passedBy
          /\ handlers' \subseteq handlers /\ last' \in [Replicas -> [Kinds -> Nat]]
          /\ \A k \in Kinds : last'[r][k] >= last[r][k]
          /\ SourceOf(e) = Source(r) => \A h \in handlers' : h.event # e
      BY <1>1, <1>4, <1>7, <3>1
    <3> QED BY <1>1, <1>2, <1>4, <1>6, <2>1, <2>3, <3>2, <3>3, <3>4, <3>5, StreamPublished
  <2> QED BY <2>2, <2>3
<1> QED BY <1>8, <1>9, <1>13, <1>14 DEF RealtimeInv

\* A batch just read is in order, without a gap, and not passed.
LEMMA ReadBatch ==
  ASSUME RealtimeShape, NEW r \in Replicas, NEW k \in Kinds, NEW list \in ListAfter(r, k),
         batch'[r] = list, polling'[r] = k, UNCHANGED <<last, start, passedBy>>, rows' \subseteq rows
  PROVE  BatchOK(r)'
<1>1. /\ \A i \in DOMAIN list : list[i] \in Unpolled(r, k)
      /\ \A i, j \in DOMAIN list : i < j => list[i].id < list[j].id
      /\ \A i \in DOMAIN list : \A e \in Unpolled(r, k) : e.id < list[i].id => e \in Range(list)
  BY ListOK
<1>2. \A i \in DOMAIN list :
        /\ list[i].kind = k /\ list[i].id > last[r][k] /\ SourceOf(list[i]) # Source(r)
  BY <1>1 DEF Unpolled
<1>3. ASSUME NEW i \in DOMAIN list, NEW e \in rows', e.kind = list[i].kind, last[r][e.kind] < e.id,
             e.id < list[i].id, SourceOf(e) # Source(r)
      PROVE  e \in Range(list)
  <2>1. e \in rows /\ e.kind = k /\ e.id > last[r][k]
    <3>1. e \in rows /\ e.kind = k
      BY <1>2, <1>3
    <3>2. e.id \in Nat /\ last[r][k] \in Nat
      BY <3>1 DEF RealtimeShape, AnyEvents
    <3> QED BY <1>3, <3>1, <3>2
  <2> QED BY <1>1, <1>3, <2>1 DEF Unpolled
<1> QED BY <1>1, <1>2, <1>3 DEF BatchOK, Source, SourceOf

LEMMA PollKeeps ==
  ASSUME RealtimeInv, NEW r \in Replicas,
         UNCHANGED <<drawn, handlers, start, last, home, buffer, taken, missed, since, passedBy>>,
         rows' \subseteq rows, NEW p \in Kinds \cup {"idle"}, polling' = [polling EXCEPT ![r] = p],
         \/ batch[r] = <<>> /\ batch' = batch
         \/ p \in Kinds /\ \E list \in ListAfter(r, p) : batch' = [batch EXCEPT ![r] = list]
  PROVE  RealtimeInv'
<1>1. RealtimeShape /\ IdsOK
  BY DEF RealtimeInv
<1>2. /\ polling'[r] = p /\ polling' \in [Replicas -> Kinds \cup {"idle"}]
      /\ \A q \in Replicas \ {r} : polling'[q] = polling[q]
  BY <1>1 DEF RealtimeShape
<1>3. \A q \in Replicas \ {r} : batch'[q] = batch[q]
  BY <1>1 DEF RealtimeShape
<1>4. /\ batch' \in [Replicas -> Seq(AnyEvents)] /\ Range(batch'[r]) \subseteq rows \cup Range(batch[r])
      /\ BatchOK(r)'
  <2>1. CASE batch[r] = <<>> /\ batch' = batch
    BY <1>1, <2>1 DEF BatchOK, RealtimeShape
  <2>2. ASSUME p \in Kinds, NEW list \in ListAfter(r, p), batch' = [batch EXCEPT ![r] = list]
        PROVE  /\ batch' \in [Replicas -> Seq(AnyEvents)]
               /\ Range(batch'[r]) \subseteq rows \cup Range(batch[r]) /\ BatchOK(r)'
    <3>1. list \in Seq(AnyEvents) /\ \A i \in DOMAIN list : list[i] \in rows
      BY <1>1, <2>2, ListOK
    <3>2. batch'[r] = list /\ batch' \in [Replicas -> Seq(AnyEvents)]
      BY <1>1, <2>2, <3>1 DEF RealtimeShape
    <3>3. Range(list) \subseteq rows
      BY <3>1 DEF Range
    <3>4. BatchOK(r)'
      BY <1>1, <1>2, <2>2, <3>2, ReadBatch
    <3> QED BY <3>2, <3>3, <3>4
  <2> QED BY <2>1, <2>2
<1>5. RealtimeShape'
  <2>1. IsFiniteSet(rows')
    BY <1>1, FS_Subset DEF RealtimeShape
  <2> QED BY <1>1, <1>2, <1>4, <2>1 DEF RealtimeShape
<1>6. IdsOK'
  <2>1. \A q \in Replicas : Range(batch'[q]) \subseteq rows \cup Range(batch[q])
    BY <1>3, <1>4
  <2>2. Known' \subseteq Known
    BY <2>1 DEF Known
  <2> QED BY <1>1, <2>2, IdsStay DEF IdsOK
<1>7. ASSUME NEW q \in Replicas PROVE BatchOK(q)'
  <2>1. CASE q = r
    BY <1>4, <2>1
  <2>2. CASE q # r
    <3>1. BatchOK(q) /\ batch'[q] = batch[q] /\ polling'[q] = polling[q]
      BY <1>2, <1>3, <2>2 DEF RealtimeInv
    <3>2. last'[q] = last[q] /\ start'[q] = start[q] /\ batch[q] \in Seq(AnyEvents)
      BY <1>1 DEF RealtimeShape
    <3> QED BY <3>1, <3>2, BatchStays
  <2> QED BY <2>1, <2>2
<1>8. ASSUME NEW s \in Subscriptions PROVE StreamOK(s)'
  <2>1. StreamOK(s)
    BY DEF RealtimeInv
  <2> QED BY <1>1, <2>1, StreamUnmoved
<1> QED BY <1>5, <1>6, <1>7, <1>8 DEF RealtimeInv

LEMMA RestartKeeps ==
  ASSUME RealtimeInv, NEW r \in Replicas, Restart(r)
  PROVE  RealtimeInv'
<1> DEFINE S == {s \in Subscriptions : home[s] = r}
<1>1. /\ UNCHANGED <<drawn, rows>> /\ start' = [start EXCEPT ![r] = @ + 1]
      /\ last' = [last EXCEPT ![r] = [k \in Kinds |-> 0]]
      /\ polling' = [polling EXCEPT ![r] = "idle"] /\ batch' = [batch EXCEPT ![r] = <<>>]
      /\ handlers' = {h \in handlers : h.event.at # r} /\ Disconnected(S)
      /\ passedBy' = {o \in passedBy : o[1] # r}
  BY DEF Restart, eventTables
<1>2. RealtimeShape /\ IdsOK
  BY DEF RealtimeInv
<1>3. RealtimeShape'
  BY <1>1, <1>2 DEF RealtimeShape, Disconnected
<1>4. /\ \A q \in Replicas \ {r} : /\ start'[q] = start[q] /\ last'[q] = last[q]
                                   /\ polling'[q] = polling[q] /\ batch'[q] = batch[q]
      /\ batch'[r] = <<>>
  BY <1>1, <1>2 DEF RealtimeShape
<1>5. IdsOK'
  <2>1. \A q \in Replicas : Range(batch'[q]) \subseteq Range(batch[q])
    BY <1>4 DEF Range
  <2>2. Known' \subseteq Known
    BY <1>1, <2>1 DEF Known
  <2>3. \A h \in handlers' : start'[h.event.at] = start[h.event.at]
    BY <1>1, <1>2, <1>4 DEF RealtimeShape, AnyEvents
  <2> QED BY <1>1, <1>2, <2>2, <2>3, IdsStay
<1>6. ASSUME NEW q \in Replicas PROVE BatchOK(q)'
  <2>1. CASE q = r
    BY <1>4, <2>1 DEF BatchOK
  <2>2. CASE q # r
    <3>1. BatchOK(q) /\ batch[q] \in Seq(AnyEvents)
      BY <1>2 DEF RealtimeInv, RealtimeShape
    <3>2. \A e : <<q, e>> \in passedBy => <<q, e>> \in passedBy'
      BY <1>1, <2>2
    <3> QED BY <1>1, <1>4, <2>2, <3>1, <3>2, BatchStays
  <2> QED BY <2>1, <2>2
<1>7. ASSUME NEW s \in Subscriptions PROVE StreamOK(s)'
  <2>1. CASE home[s] = r
    BY <1>1, <2>1 DEF Disconnected, StreamOK
  <2>2. CASE home[s] # r
    <3>1. /\ StreamOK(s) /\ home'[s] = home[s] /\ since'[s] = since[s]
          /\ buffer'[s] = buffer[s] /\ taken'[s] = taken[s] /\ missed'[s] = missed[s]
      BY <1>1, <2>2 DEF RealtimeInv, Disconnected
    <3>2. Stream(s)' = Stream(s)
      BY <3>1 DEF Stream
    <3>3. home[s] # NoReplica => home[s] \in Replicas \ {r}
      BY <1>2, <2>2 DEF RealtimeShape
    <3>4. home[s] # NoReplica => start'[home[s]] = start[home[s]] /\ last'[home[s]] = last[home[s]]
      BY <1>4, <3>3
    <3>5. \A e : <<home[s], e>> \in passedBy => <<home[s], e>> \in passedBy'
      BY <1>1, <2>2
    <3>6. drawn' \in [Kinds -> Nat] /\ \A k \in Kinds : drawn'[k] >= drawn[k]
      BY <1>1, <1>2 DEF RealtimeShape
    <3> QED BY <1>1, <1>2, <3>1, <3>2, <3>4, <3>5, <3>6, StreamStays
  <2> QED BY <2>1, <2>2
<1> QED BY <1>3, <1>5, <1>6, <1>7 DEF RealtimeInv

LEMMA RealtimeStep == RealtimeInv /\ [RealtimeNext]_realtimeVars => RealtimeInv'
<1> SUFFICES ASSUME RealtimeInv, [RealtimeNext]_realtimeVars PROVE RealtimeInv'
  OBVIOUS
<1> USE DEF Kinds
<1>1. ASSUME NEW s \in Subscriptions, NEW r \in Replicas, Subscribe(s, r) PROVE RealtimeInv'
  BY <1>1, SubscribeKeeps
<1>2. ASSUME NEW s \in Subscriptions, Unsubscribe(s) PROVE RealtimeInv'
  BY <1>2, UnsubscribeKeeps
<1>3. ASSUME NEW s \in Subscriptions, Receive(s) PROVE RealtimeInv'
  BY <1>3, ReceiveKeeps
<1>4. ASSUME NEW r \in Replicas, NEW k \in {"record", "broadcast"}, NEW t \in Topics, BeginInsert(r, k, t)
      PROVE  RealtimeInv'
  BY <1>4, BeginInsertKeeps
<1>5. ASSUME NEW h \in handlers, CommitInsert(h) PROVE RealtimeInv'
  <2>1. /\ Inserted(h.event) /\ handlers' = (handlers \ {h}) \cup {[h EXCEPT !.step = "publish"]}
        /\ UNCHANGED <<drawn, start, last, polling, batch, home, buffer, taken, missed, since>>
    BY <1>5 DEF CommitInsert, fanout, hubs
  <2> QED BY <2>1, InsertKeeps
<1>6. ASSUME NEW h \in handlers, InsertEventFails(h) PROVE RealtimeInv'
  <2>1. /\ Inserted(h.event) \/ UNCHANGED <<rows, passedBy>>
        /\ \/ handlers' = handlers \ {h}
           \/ handlers' = (handlers \ {h}) \cup {[h EXCEPT !.step = "publish"]}
        /\ UNCHANGED <<drawn, start, last, polling, batch, home, buffer, taken, missed, since>>
    BY <1>6 DEF InsertEventFails, fanout, hubs
  <2> QED BY <2>1, InsertKeeps
<1>7. ASSUME NEW h \in handlers, PublishLocal(h) PROVE RealtimeInv'
  BY <1>7, PublishLocalKeeps
<1>8. ASSUME NEW r \in Replicas, StartPoll(r) PROVE RealtimeInv'
  <2>1. /\ UNCHANGED <<drawn, handlers, start, last, home, buffer, taken, missed, since, passedBy, rows>>
        /\ polling' = [polling EXCEPT ![r] = "record"]
        /\ \E list \in ListAfter(r, "record") : batch' = [batch EXCEPT ![r] = list]
    BY <1>8 DEF StartPoll, eventTables, hubs
  <2> QED BY <2>1, PollKeeps
<1>9. ASSUME NEW r \in Replicas, PublishNext(r) PROVE RealtimeInv'
  BY <1>9, PublishNextKeeps
<1>10. ASSUME NEW r \in Replicas, EndBatch(r) PROVE RealtimeInv'
  <2>1. /\ UNCHANGED <<drawn, handlers, start, last, home, buffer, taken, missed, since, passedBy>>
        /\ rows' \subseteq rows /\ batch[r] = <<>>
    BY <1>10 DEF EndBatch, hubs
  <2>2. CASE polling[r] = "record"
    <3>1. /\ polling' = [polling EXCEPT ![r] = "broadcast"]
          /\ \E list \in ListAfter(r, "broadcast") : batch' = [batch EXCEPT ![r] = list]
      BY <1>10, <2>2 DEF EndBatch
    <3> QED BY <2>1, <3>1, PollKeeps
  <2>3. CASE polling[r] # "record"
    <3>1. polling' = [polling EXCEPT ![r] = "idle"] /\ batch' = batch
      BY <1>10, <2>3 DEF EndBatch
    <3> QED BY <2>1, <3>1, PollKeeps
  <2> QED BY <2>2, <2>3
<1>11. ASSUME NEW r \in Replicas, Restart(r) PROVE RealtimeInv'
  BY <1>11, RestartKeeps
<1>12. CASE UNCHANGED realtimeVars
  <2>1. UNCHANGED <<drawn, rows, handlers, start, last, polling, batch, home, buffer, taken, missed, since, passedBy>>
    BY <1>12 DEF realtimeVars, eventTables, fanout, hubs
  <2>2. RealtimeShape /\ IdsOK
    BY DEF RealtimeInv
  <2>3. RealtimeShape'
    BY <2>1, <2>2 DEF RealtimeShape
  <2>4. IdsOK'
    BY <2>1, <2>2 DEF IdsOK, Known
  <2>5. \A r \in Replicas : BatchOK(r)'
    BY <2>1 DEF RealtimeInv, BatchOK, Source, SourceOf
  <2>6. ASSUME NEW s \in Subscriptions PROVE StreamOK(s)'
    <3>1. StreamOK(s)
      BY DEF RealtimeInv
    <3> QED BY <2>1, <2>2, <3>1, StreamUnmoved
  <2> QED BY <2>3, <2>4, <2>5, <2>6 DEF RealtimeInv
<1> QED BY <1>1, <1>2, <1>3, <1>4, <1>5, <1>6, <1>7, <1>8, <1>9, <1>10, <1>11, <1>12
        DEF RealtimeNext, PollStep

\* apis/realtime.go, core/realtime_events.go: whatever the interleaving of requests and
\* polls on any number of replicas, a connection is sent no event twice, and those of other
\* replicas in the order of their ids.
THEOREM StreamsAreOnceInOrder == RealtimeSpec => []StreamOnceInOrder
<1>1. RealtimeInv => StreamOnceInOrder
  <2> SUFFICES ASSUME RealtimeInv, NEW s \in Subscriptions, home[s] # NoReplica,
                      NEW i \in DOMAIN Stream(s), NEW j \in DOMAIN Stream(s), i < j
               PROVE  /\ Stream(s)[i] # Stream(s)[j]
                      /\ Stream(s)[i].at # home[s] /\ Stream(s)[j].at # home[s]
                         => Stream(s)[i].id < Stream(s)[j].id
    BY DEF StreamOnceInOrder
  <2>1. InOrder(s, Stream(s))
    BY DEF RealtimeInv, StreamOK
  <2> QED BY <2>1 DEF InOrder, Source, SourceOf
<1> QED BY <1>1, RealtimeInitially, RealtimeStep, PTL DEF RealtimeSpec

\* apis/realtime.go, the poll loops: what a replica has passed went to everyone connected
\* since before, unless its buffer was full or the row was committed behind a later one.
THEOREM NothingIsSkipped == RealtimeSpec => []NothingSkipped
<1>1. RealtimeInv => NothingSkipped
  BY DEF RealtimeInv, StreamOK, PassedOK, NothingSkipped
<1> QED BY <1>1, RealtimeInitially, RealtimeStep, PTL DEF RealtimeSpec

\* Hubs and polls stay within their bounds, and no poll is ahead of the ids that were drawn.
HubsWithin ==
  /\ \A s \in Subscriptions : Len(buffer[s]) <= BufferSize
  /\ \A r \in Replicas : Len(batch[r]) <= PollLimit
  /\ \A r \in Replicas, k \in Kinds : last[r][k] <= drawn[k]

\* A replica's hub publishes, at most into the last free place of a buffer.
LEMMA PublishFits ==
  ASSUME RealtimeShape, HubsWithin, NEW r \in Replicas, NEW e \in AnyEvents, HubPublish(r, e),
         NEW s \in Subscriptions
  PROVE  Len(buffer'[s]) <= BufferSize
<1>1. buffer[s] \in Seq(AnyEvents) /\ BufferSize \in Nat /\ Len(buffer[s]) <= BufferSize
  BY RealtimeAssumption DEF RealtimeShape, HubsWithin
<1>2. CASE buffer'[s] = buffer[s]
  BY <1>1, <1>2
<1>3. CASE buffer'[s] # buffer[s]
  <2>1. Len(buffer[s]) < BufferSize /\ buffer'[s] = Append(buffer[s], e)
    BY <1>3 DEF HubPublish
  <2>2. Len(Append(buffer[s], e)) = Len(buffer[s]) + 1 /\ Len(buffer[s]) \in Nat
    BY <1>1
  <2> QED BY <1>1, <2>1, <2>2
<1> QED BY <1>2, <1>3

\* A poll reads no more rows than its query asks for.
LEMMA ListFits ==
  ASSUME RealtimeShape, NEW r \in Replicas, NEW k \in Kinds, NEW list \in ListAfter(r, k)
  PROVE  Len(list) <= PollLimit
<1> DEFINE found == Unpolled(r, k)
           n == IF Cardinality(found) < PollLimit THEN Cardinality(found) ELSE PollLimit
<1>1. IsFiniteSet(found)
  BY FS_Subset DEF RealtimeShape, Unpolled
<1>2. Cardinality(found) \in Nat
  BY <1>1, FS_CardinalityType
<1>3. n \in Nat /\ n <= PollLimit
  BY <1>2, RealtimeAssumption
<1>4. list \in [1 .. n -> found]
  BY DEF ListAfter
<1> HIDE DEF n, found
<1>5. Len(list) = n
  BY <1>3, <1>4
<1> QED BY <1>3, <1>5

LEMMA HubsWithinStep ==
  ASSUME RealtimeInv, HubsWithin, [RealtimeNext]_realtimeVars PROVE HubsWithin'
<1>1. RealtimeShape
  BY DEF RealtimeInv
<1>2. ASSUME UNCHANGED <<batch, last, drawn>>, NEW s \in Subscriptions,
             \A t \in Subscriptions \ {s} : buffer'[t] = buffer[t],
             buffer'[s] = <<>> \/ Len(buffer'[s]) <= BufferSize
      PROVE  HubsWithin'
  <2>1. Len(buffer'[s]) <= BufferSize
    BY <1>2, RealtimeAssumption
  <2> QED BY <1>2, <2>1 DEF HubsWithin
<1>3. ASSUME NEW s \in Subscriptions, NEW r \in Replicas, Subscribe(s, r) PROVE HubsWithin'
  BY <1>3 DEF Subscribe, fanout, eventTables, HubsWithin
<1>4. ASSUME NEW s \in Subscriptions, Unsubscribe(s) PROVE HubsWithin'
  <2>1. UNCHANGED <<batch, last, drawn>>
    BY <1>4 DEF Unsubscribe, fanout, eventTables
  <2>2. /\ \A t \in Subscriptions \ {s} : buffer'[t] = buffer[t]
        /\ buffer'[s] = <<>>
    BY <1>4 DEF Unsubscribe, Disconnected
  <2> QED BY <1>2, <2>1, <2>2
<1>5. ASSUME NEW s \in Subscriptions, Receive(s) PROVE HubsWithin'
  <2>1. UNCHANGED <<batch, last, drawn>> /\ buffer[s] # <<>> /\ buffer' = [buffer EXCEPT ![s] = Tail(@)]
    BY <1>5 DEF Receive, fanout, eventTables
  <2>2. buffer[s] \in Seq(AnyEvents) /\ Len(buffer[s]) <= BufferSize /\ BufferSize \in Nat
    BY <1>1, RealtimeAssumption DEF RealtimeShape, HubsWithin
  <2>3. Len(Tail(buffer[s])) <= BufferSize
    BY <2>1, <2>2
  <2>4. /\ \A t \in Subscriptions \ {s} : buffer'[t] = buffer[t]
        /\ Len(buffer'[s]) <= BufferSize
    BY <1>1, <2>1, <2>3 DEF RealtimeShape
  <2> QED BY <1>2, <2>1, <2>4
<1>6. ASSUME NEW r \in Replicas, NEW k \in Kinds, NEW t \in Topics, BeginInsert(r, k, t) PROVE HubsWithin'
  <2>1. UNCHANGED <<batch, last, buffer>> /\ drawn' = [drawn EXCEPT ![k] = @ + 1]
    BY <1>6 DEF BeginInsert, fanout, hubs
  <2>2. ASSUME NEW q \in Replicas, NEW j \in Kinds PROVE last'[q][j] <= drawn'[j]
    <3>1. last[q][j] \in Nat /\ drawn[j] \in Nat /\ last[q][j] <= drawn[j]
      BY <1>1 DEF RealtimeShape, HubsWithin
    <3>2. drawn'[j] = drawn[j] \/ drawn'[j] = drawn[j] + 1
      BY <1>1, <2>1 DEF RealtimeShape
    <3> QED BY <2>1, <3>1, <3>2
  <2> QED BY <2>1, <2>2 DEF HubsWithin
<1>7. ASSUME NEW h \in handlers, CommitInsert(h) \/ InsertEventFails(h) PROVE HubsWithin'
  BY <1>7 DEF CommitInsert, InsertEventFails, fanout, hubs, HubsWithin
<1>8. ASSUME NEW h \in handlers, PublishLocal(h) PROVE HubsWithin'
  <2>1. UNCHANGED <<batch, last, drawn>> /\ HubPublish(h.event.at, h.event)
    BY <1>8 DEF PublishLocal, fanout, eventTables
  <2>2. h.event \in AnyEvents /\ h.event.at \in Replicas
    BY <1>1 DEF RealtimeShape, AnyEvents
  <2>3. \A s \in Subscriptions : Len(buffer'[s]) <= BufferSize
    BY <1>1, <2>1, <2>2, PublishFits
  <2> QED BY <2>1, <2>3 DEF HubsWithin
<1>9. ASSUME NEW r \in Replicas, NEW k \in Kinds, UNCHANGED <<buffer, last, drawn>>,
             \E list \in ListAfter(r, k) : batch' = [batch EXCEPT ![r] = list]
      PROVE  HubsWithin'
  <2>1. PICK list \in ListAfter(r, k) : batch' = [batch EXCEPT ![r] = list]
    BY <1>9
  <2>2. Len(list) <= PollLimit
    BY <1>1, ListFits
  <2>3. batch'[r] = list /\ \A q \in Replicas \ {r} : batch'[q] = batch[q]
    BY <1>1, <2>1 DEF RealtimeShape
  <2> QED BY <1>9, <2>2, <2>3 DEF HubsWithin
<1>10. ASSUME NEW r \in Replicas, StartPoll(r) PROVE HubsWithin'
  BY <1>9, <1>10 DEF StartPoll, eventTables, hubs, Kinds
<1>11. ASSUME NEW r \in Replicas, PublishNext(r) PROVE HubsWithin'
  <2> DEFINE e == Head(batch[r])
  <2>1. /\ batch[r] # <<>> /\ HubPublish(r, e) /\ UNCHANGED drawn /\ batch' = [batch EXCEPT ![r] = Tail(@)]
        /\ last' = [last EXCEPT ![r][e.kind] = IF e.id > @ THEN e.id ELSE @]
    BY <1>11 DEF PublishNext, eventTables
  <2>2. batch[r] \in Seq(AnyEvents) /\ Len(batch[r]) <= PollLimit /\ PollLimit \in Nat
    BY <1>1, RealtimeAssumption DEF RealtimeShape, HubsWithin
  <2>3. e \in AnyEvents /\ Len(Tail(batch[r])) <= PollLimit /\ 1 \in DOMAIN batch[r] /\ e = batch[r][1]
    BY <2>1, <2>2
  <2>4. e.id <= drawn[e.kind] /\ e.kind \in Kinds /\ e.id \in Nat
    BY <1>1, <2>3, KnownAre DEF RealtimeInv, IdsOK, AnyEvents
  <2>5. \A s \in Subscriptions : Len(buffer'[s]) <= BufferSize
    BY <1>1, <2>1, <2>3, PublishFits
  <2>6. \A q \in Replicas : Len(batch'[q]) <= PollLimit
    <3>1. batch'[r] = Tail(batch[r]) /\ \A q \in Replicas \ {r} : batch'[q] = batch[q]
      BY <1>1, <2>1 DEF RealtimeShape
    <3> QED BY <2>3, <3>1 DEF HubsWithin
  <2> HIDE DEF e
  <2>7. ASSUME NEW q \in Replicas, NEW k \in Kinds PROVE last'[q][k] <= drawn[k]
    <3>1. last[q] \in [Kinds -> Nat] /\ last[q][k] <= drawn[k] /\ DOMAIN last = Replicas
      BY <1>1 DEF RealtimeShape, HubsWithin
    <3>2. last'[q][k] = last[q][k] \/ (k = e.kind /\ last'[q][k] = e.id)
      BY <2>1, <3>1
    <3> QED BY <2>4, <3>1, <3>2
  <2> QED BY <2>1, <2>5, <2>6, <2>7 DEF HubsWithin
<1>12. ASSUME NEW r \in Replicas, EndBatch(r) PROVE HubsWithin'
  <2>1. UNCHANGED <<buffer, last, drawn>>
    BY <1>12 DEF EndBatch, hubs
  <2>2. CASE batch' = batch
    BY <2>1, <2>2 DEF HubsWithin
  <2>3. CASE \E list \in ListAfter(r, "broadcast") : batch' = [batch EXCEPT ![r] = list]
    BY <1>9, <2>1, <2>3 DEF Kinds
  <2> QED BY <1>12, <2>2, <2>3 DEF EndBatch
<1>13. ASSUME NEW r \in Replicas, Restart(r) PROVE HubsWithin'
  <2>1. /\ UNCHANGED drawn /\ last' = [last EXCEPT ![r] = [k \in Kinds |-> 0]]
        /\ batch' = [batch EXCEPT ![r] = <<>>]
        /\ \A s \in Subscriptions : buffer'[s] = <<>> \/ buffer'[s] = buffer[s]
    BY <1>13 DEF Restart, Disconnected, eventTables
  <2>2. BufferSize \in Nat /\ PollLimit \in Nat /\ Len(<<>>) = 0
    BY RealtimeAssumption
  <2>3. \A s \in Subscriptions : Len(buffer'[s]) <= BufferSize
    BY <2>1, <2>2 DEF HubsWithin
  <2>4. \A q \in Replicas : Len(batch'[q]) <= PollLimit
    BY <1>1, <2>1, <2>2 DEF HubsWithin, RealtimeShape
  <2>5. \A q \in Replicas, k \in Kinds : last'[q][k] <= drawn[k]
    BY <1>1, <2>1 DEF HubsWithin, RealtimeShape
  <2> QED BY <2>1, <2>3, <2>4, <2>5 DEF HubsWithin
<1>14. CASE UNCHANGED realtimeVars
  BY <1>14 DEF realtimeVars, eventTables, fanout, hubs, HubsWithin
<1> QED BY <1>3, <1>4, <1>5, <1>6, <1>7, <1>8, <1>10, <1>11, <1>12, <1>13, <1>14 DEF RealtimeNext, PollStep

\* apis/realtime.go, core/realtime_events.go: publishing waits for nobody and yet no connection's
\* buffer and no poll's batch outgrows its bound, and no replica's cursor gets ahead of the ids that
\* were drawn, past which rows may still come.
THEOREM HubsStayWithin == RealtimeSpec => []HubsWithin
<1>1. RealtimeInit => HubsWithin
  BY RealtimeAssumption DEF RealtimeInit, HubsWithin
<1>2. RealtimeInv /\ HubsWithin /\ [RealtimeNext]_realtimeVars => HubsWithin'
  BY HubsWithinStep
<1> QED BY <1>1, <1>2, RealtimeInitially, RealtimeStep, PTL DEF RealtimeSpec

------------------------------------------------------------------------------
(* Rate limits *)

\* A key's hits: the recent ones are those that were let through since it was last forgotten, and
\* those of this tick are numbered.
HitsOK(hits, now) ==
  /\ IsFiniteSet(hits)
  /\ \A h \in hits : /\ h[1] \in Nat /\ h[1] <= now /\ h[2] \in Nat
                     /\ h[1] = now => h[2] <= Cardinality(OfTick(hits, now))

\* The table of a limiter.
TableOK(H) == IsFiniteSet(DOMAIN H) /\ \A k \in DOMAIN H : HitsOK(H[k], time)

\* A key that is in the table has in it the recent hits that were let through; the others have none.
KeysOK(l) ==
  /\ DOMAIN limiters[l] = {"hits", "lastSweep"} /\ TableOK(limiters[l].hits)
  /\ DOMAIN served[l] = LimiterKeys(l)
  /\ \A k \in LimiterKeys(l) :
       served[l][k] = IF k \in DOMAIN limiters[l].hits THEN Recent(limiters[l].hits[k], time) ELSE {}

ChecksOK == \A q \in ProjectRequests : checks[q] \in Checks \cup {NoCheck}

LimitInv ==
  /\ DOMAIN checks = ProjectRequests
  /\ LimitsTypeOK /\ DOMAIN limiters = Limiters /\ DOMAIN served = Limiters
  /\ \A l \in Limiters : KeysOK(l)

LEMMA LimitsInitially == LimitsInit => LimitInv
<1> SUFFICES ASSUME LimitsInit PROVE LimitInv
  OBVIOUS
<1>1. DOMAIN <<>> = {} /\ Cardinality({}) = 0 /\ IsFiniteSet({})
  BY FS_EmptySet
<1>2. LimitsTypeOK
  BY <1>1, LimitsAssumption DEF LimitsInit, LimitsTypeOK
<1>3. \A l \in Limiters : KeysOK(l)
  BY <1>1 DEF LimitsInit, KeysOK, TableOK
<1> QED BY <1>2, <1>3 DEF LimitsInit, LimitInv

\* What is left of a key's hits when some of them are dropped as too old.
LEMMA RecentOK ==
  ASSUME NEW hits, NEW now \in Nat, HitsOK(hits, now)
  PROVE  /\ HitsOK(Recent(hits, now), now) /\ Recent(Recent(hits, now), now) = Recent(hits, now)
         /\ Recent(hits, now + 1) = Recent(Recent(hits, now), now + 1)
         /\ OfTick(Recent(hits, now), now) = OfTick(hits, now)
<1>1. OfTick(Recent(hits, now), now) = OfTick(hits, now)
  BY LimitsAssumption DEF OfTick, Recent
<1>2. IsFiniteSet(Recent(hits, now))
  BY FS_Subset DEF HitsOK, Recent
<1>3. HitsOK(Recent(hits, now), now)
  BY <1>1, <1>2 DEF HitsOK, Recent
<1>4. Recent(hits, now + 1) = Recent(Recent(hits, now), now + 1)
  BY LimitsAssumption DEF HitsOK, Recent
<1>5. Recent(Recent(hits, now), now) = Recent(hits, now)
  BY DEF Recent
<1> QED BY <1>1, <1>3, <1>4, <1>5

LEMMA NoHits == ASSUME NEW now \in Nat PROVE HitsOK({}, now) /\ Recent({}, now) = {}
BY FS_EmptySet DEF HitsOK, Recent

\* One more hit is a new one.
LEMMA OneMore ==
  ASSUME NEW hits, time \in Nat, HitsOK(hits, time), Recent(hits, time) = hits
  PROVE  /\ HitsOK(WithHit(hits), time) /\ Recent(WithHit(hits), time) = WithHit(hits)
         /\ Cardinality(WithHit(hits)) = Cardinality(hits) + 1 /\ Cardinality(hits) \in Nat
<1> DEFINE n == Cardinality(OfTick(hits, time))
           h == <<time, n + 1>>
<1>1. IsFiniteSet(OfTick(hits, time)) /\ n \in Nat /\ Cardinality(hits) \in Nat
  BY FS_Subset, FS_CardinalityType DEF HitsOK, OfTick
<1>2. h \notin hits
  BY <1>1 DEF HitsOK
<1>3. IsFiniteSet(hits \cup {h}) /\ Cardinality(hits \cup {h}) = Cardinality(hits) + 1
  BY <1>2, FS_AddElement DEF HitsOK
<1>4. OfTick(hits \cup {h}, time) = OfTick(hits, time) \cup {h}
  BY DEF OfTick
<1>5. Cardinality(OfTick(hits \cup {h}, time)) = n + 1
  BY <1>1, <1>2, <1>4, FS_AddElement DEF OfTick
<1>6. HitsOK(hits \cup {h}, time)
  BY <1>1, <1>3, <1>5 DEF HitsOK
<1>7. Recent(hits \cup {h}, time) = hits \cup {h}
  BY LimitsAssumption DEF Recent
<1> QED BY <1>1, <1>3, <1>6, <1>7 DEF WithHit

\* What G keeps of the table H: no key with recent hits is dropped, unless the limiter was full of
\* such.
Trimmed(H, G) ==
  /\ TableOK(G) /\ DOMAIN G \subseteq DOMAIN H
  /\ \A k \in DOMAIN G : Recent(G[k], time) = Recent(H[k], time)
OnlyIdleGone(H, G) == \A k \in DOMAIN H \ DOMAIN G : Recent(H[k], time) = {}

LEMMA Sweeps ==
  ASSUME NEW H, time \in Nat, TableOK(H)
  PROVE  LET G == sweep(H, time)
         IN /\ Trimmed(H, G) /\ OnlyIdleGone(H, G)
            /\ \A k \in DOMAIN G : G[k] = Recent(H[k], time) /\ G[k] # {}
<1> DEFINE G == sweep(H, time)
<1>1. /\ DOMAIN G = {i \in DOMAIN H : Recent(H[i], time) # {}}
      /\ \A k \in DOMAIN G : G[k] = Recent(H[k], time)
  BY DEF sweep
<1> HIDE DEF G
<1>2. IsFiniteSet(DOMAIN G)
  BY <1>1, FS_Subset DEF TableOK
<1>3. \A k \in DOMAIN G : HitsOK(G[k], time) /\ Recent(G[k], time) = Recent(H[k], time)
  BY <1>1, RecentOK DEF TableOK
<1> QED BY <1>1, <1>2, <1>3 DEF Trimmed, TableOK, OnlyIdleGone, G

\* The table of limiter l when allowLimit has swept it and has made room.
LEMMA RoomMade ==
  ASSUME NEW l, NEW key, time \in Nat, TableOK(limiters[l].hits),
         NEW G \in WithRoom(Swept(l).hits, key)
  PROVE  LET H == limiters[l].hits
         IN /\ Trimmed(H, G)
            /\ OnlyIdleGone(H, G) \/ Cardinality(DOMAIN sweep(H, time)) >= MaxLimiterKeys
            /\ key \in DOMAIN H \ DOMAIN G => Recent(H[key], time) = {}
            /\ Cardinality(DOMAIN H) <= MaxLimiterKeys
                 => Cardinality(DOMAIN G \cup {key}) <= MaxLimiterKeys
<1> DEFINE H == limiters[l].hits
           W == Swept(l).hits
           K == sweep(W, time)
<1>1. Trimmed(H, W) /\ OnlyIdleGone(H, W) /\ (W = H \/ W = sweep(H, time))
  <2>1. CASE W = H
    BY <2>1 DEF Trimmed, OnlyIdleGone
  <2>2. CASE W = sweep(H, time)
    BY <2>2, Sweeps
  <2> QED BY <2>1, <2>2 DEF Swept
<1> HIDE DEF H, W
<1>2. Trimmed(W, K) /\ OnlyIdleGone(W, K)
  BY <1>1, Sweeps DEF Trimmed
<1>3. Trimmed(H, K) /\ OnlyIdleGone(H, K)
  BY <1>1, <1>2 DEF Trimmed, OnlyIdleGone
<1>4. DOMAIN K = DOMAIN sweep(H, time)
  <2>1. DOMAIN K = {k \in DOMAIN W : Recent(W[k], time) # {}}
    BY DEF sweep
  <2>2. DOMAIN sweep(H, time) = {k \in DOMAIN H : Recent(H[k], time) # {}}
    BY DEF sweep
  <2> QED BY <1>1, <2>1, <2>2 DEF Trimmed, OnlyIdleGone
<1>5. /\ IsFiniteSet(DOMAIN H) /\ IsFiniteSet(DOMAIN W) /\ IsFiniteSet(DOMAIN K)
      /\ Cardinality(DOMAIN W) <= Cardinality(DOMAIN H)
      /\ Cardinality(DOMAIN K) <= Cardinality(DOMAIN H)
      /\ Cardinality(DOMAIN H) \in Nat /\ Cardinality(DOMAIN W) \in Nat /\ Cardinality(DOMAIN K) \in Nat
  BY <1>1, <1>3, FS_Subset, FS_CardinalityType DEF Trimmed, TableOK, H
<1> HIDE DEF K
<1>6. MaxLimiterKeys \in Nat \ {0}
  BY LimitsAssumption
<1>7. CASE key \in DOMAIN W /\ G = W
  <2>1. DOMAIN G \cup {key} = DOMAIN W
    BY <1>7
  <2> QED BY <1>1, <1>5, <1>6, <1>7, <2>1 DEF H
<1>8. CASE key \notin DOMAIN W /\ Cardinality(DOMAIN W) < MaxLimiterKeys /\ G = W
  <2>1. Cardinality(DOMAIN G \cup {key}) = Cardinality(DOMAIN W) + 1
    BY <1>5, <1>8, FS_AddElement
  <2>2. key \in DOMAIN H => Recent(H[key], time) = {}
    BY <1>1, <1>8 DEF OnlyIdleGone
  <2> QED BY <1>1, <1>5, <1>6, <1>8, <2>1, <2>2 DEF H
<1>9. CASE key \notin DOMAIN W /\ ~(Cardinality(DOMAIN W) < MaxLimiterKeys)
  <2>1. (key \in DOMAIN H => Recent(H[key], time) = {}) /\ key \notin DOMAIN K
    BY <1>1, <1>2, <1>9 DEF OnlyIdleGone, Trimmed
  <2>2. CASE Cardinality(DOMAIN K) < MaxLimiterKeys /\ G = K
    <3>1. Cardinality(DOMAIN G \cup {key}) = Cardinality(DOMAIN K) + 1
      BY <1>5, <2>1, <2>2, FS_AddElement
    <3> QED BY <1>3, <1>5, <1>6, <2>1, <2>2, <3>1 DEF H
  <2>3. CASE Cardinality(DOMAIN K) >= MaxLimiterKeys /\ G \in evictOldest(K)
    <3>1. PICK k \in DOMAIN K : G = Only(K, DOMAIN K \ {k})
      BY <2>3 DEF evictOldest
    <3>2. DOMAIN G = DOMAIN K \ {k} /\ \A i \in DOMAIN G : G[i] = K[i]
      BY <3>1 DEF Only
    <3>3. Cardinality(DOMAIN G) = Cardinality(DOMAIN K) - 1 /\ IsFiniteSet(DOMAIN G)
      BY <1>5, <3>1, <3>2, FS_RemoveElement
    <3>4. Cardinality(DOMAIN G \cup {key}) = Cardinality(DOMAIN K)
      <4>1. key \notin DOMAIN G
        BY <2>1, <3>2
      <4>2. Cardinality(DOMAIN G \cup {key}) = Cardinality(DOMAIN G) + 1
        BY <3>3, <4>1, FS_AddElement
      <4> QED BY <1>5, <3>3, <4>2
    <3>5. Trimmed(H, G)
      BY <1>3, <3>2, <3>3 DEF Trimmed, TableOK
    <3> QED BY <1>4, <1>5, <1>6, <2>1, <2>3, <3>4, <3>5 DEF H
  <2> QED BY <1>5, <1>6, <1>9, <2>2, <2>3 DEF WithRoom, K, W
<1> QED BY <1>5, <1>6, <1>7, <1>8, <1>9 DEF WithRoom, W

\* A call of allowLimit with a limit, and what the history takes note of.
LEMMA CallKeeps ==
  ASSUME NEW l \in Limiters, NEW key \in LimiterKeys(l), NEW limit \in Nat \ {0}, time \in Nat,
         KeysOK(l), DOMAIN limiters[l].hits \subseteq LimiterKeys(l), NEW o \in allowLimit(l, key, limit)
  PROVE  LET H == limiters[l].hits
             F == o.limiter.hits
             after == Served(l, key, o)
         IN /\ DOMAIN o.limiter = {"hits", "lastSweep"} /\ DOMAIN F \subseteq LimiterKeys(l)
            /\ o.limiter.lastSweep \in {limiters[l].lastSweep, time}
            /\ DOMAIN after = LimiterKeys(l)
            /\ TableOK(F)
            /\ \A k \in LimiterKeys(l) :
                 /\ after[k] = IF k \in DOMAIN F THEN Recent(F[k], time) ELSE {}
                 /\ \/ Cardinality(after[k]) <= Cardinality(served[l][k])
                    \/ k = key /\ Cardinality(after[k]) <= limit
            /\ Cardinality(DOMAIN H) <= MaxLimiterKeys => Cardinality(DOMAIN F) <= MaxLimiterKeys
<1> DEFINE H == limiters[l].hits
           F == o.limiter.hits
           after == Served(l, key, o)
           Left(T, k) == IF k \in DOMAIN T THEN Recent(T[k], time) ELSE {}
<1>1. /\ DOMAIN H \subseteq LimiterKeys(l) /\ TableOK(H)
      /\ \A k \in LimiterKeys(l) : served[l][k] = Left(H, k)
  BY DEF KeysOK, TableOK
<1> DEFINE Kept(G) == IF key \in DOMAIN G THEN Recent(G[key], time) ELSE {}
           Full(G) == Cardinality(Kept(G)) >= limit
           Outcome(G) == [allowed |-> ~Full(G),
                          limiter |-> [hits |-> [k \in DOMAIN G \cup {key} |->
                                                   IF k # key THEN G[k]
                                                   ELSE IF Full(G) THEN Kept(G) ELSE WithHit(Kept(G))],
                                       lastSweep |-> Swept(l).lastSweep]]
<1>2. PICK G \in WithRoom(Swept(l).hits, key) : o = Outcome(G)
  <2>1. ~(limit <= 0)
    OBVIOUS
  <2>2. allowLimit(l, key, limit) = {Outcome(G) : G \in WithRoom(Swept(l).hits, key)}
    BY <2>1, Zenon DEF allowLimit
  <2> HIDE DEF Outcome
  <2> QED BY <2>2
<1> HIDE DEF Kept, Full
<1> DEFINE keep == Kept(G)
           full == Full(G)
<1>3. /\ DOMAIN o.limiter = {"hits", "lastSweep"} /\ o.allowed = ~full
      /\ o.limiter.lastSweep = Swept(l).lastSweep
      /\ DOMAIN F = DOMAIN G \cup {key} /\ F[key] = IF full THEN keep ELSE WithHit(keep)
      /\ \A k \in DOMAIN G \ {key} : F[k] = G[k]
  BY <1>2
<1>4. /\ Trimmed(H, G) /\ (OnlyIdleGone(H, G) \/ Cardinality(DOMAIN sweep(H, time)) >= MaxLimiterKeys)
      /\ key \in DOMAIN H \ DOMAIN G => Recent(H[key], time) = {}
      /\ Cardinality(DOMAIN H) <= MaxLimiterKeys => Cardinality(DOMAIN G \cup {key}) <= MaxLimiterKeys
  BY <1>1, RoomMade
<1>5. /\ DOMAIN after = LimiterKeys(l)
      /\ \A k \in LimiterKeys(l) : after[k] =
           IF k = key /\ o.allowed THEN WithHit(served[l][k])
           ELSE IF /\ k \in DOMAIN H \ DOMAIN F
                   /\ Cardinality(DOMAIN sweep(H, time)) >= MaxLimiterKeys THEN {}
           ELSE served[l][k]
  BY DEF Served
<1>6. HitsOK(keep, time) /\ Recent(keep, time) = keep /\ keep = served[l][key]
  BY <1>1, <1>4, RecentOK, NoHits DEF Trimmed, TableOK, Kept
<1> HIDE DEF H, F, after, keep, full
<1>7. /\ HitsOK(F[key], time) /\ Recent(F[key], time) = F[key]
      /\ after[key] = F[key] /\ (full \/ Cardinality(F[key]) <= limit)
  <2>1. /\ HitsOK(WithHit(keep), time) /\ Recent(WithHit(keep), time) = WithHit(keep)
        /\ Cardinality(WithHit(keep)) = Cardinality(keep) + 1 /\ Cardinality(keep) \in Nat
    BY <1>6, OneMore
  <2>2. after[key] = F[key]
    BY <1>3, <1>5, <1>6
  <2>3. full <=> Cardinality(keep) >= limit
    BY DEF full, keep, Full
  <2> QED BY <1>3, <1>6, <2>1, <2>2, <2>3
<1>8. ASSUME NEW k \in LimiterKeys(l), k # key
      PROVE  after[k] = Left(F, k) /\ (after[k] = served[l][k] \/ after[k] = {})
  BY <1>1, <1>3, <1>4, <1>5, <1>8 DEF Trimmed, OnlyIdleGone
<1>9. TableOK(F)
  <2>1. IsFiniteSet(DOMAIN F)
    BY <1>3, <1>4, FS_AddElement DEF Trimmed, TableOK
  <2> QED BY <1>3, <1>4, <1>7, <2>1 DEF Trimmed, TableOK
<1>10. ASSUME NEW k \in LimiterKeys(l)
       PROVE  \/ Cardinality(after[k]) <= Cardinality(served[l][k])
              \/ k = key /\ Cardinality(after[k]) <= limit
  <2>1. Cardinality(served[l][k]) \in Nat
    <3>1. IsFiniteSet(served[l][k])
      BY <1>1, RecentOK, NoHits DEF TableOK, HitsOK
    <3> QED BY <3>1, FS_CardinalityType
  <2>2. CASE k = key
    BY <1>3, <1>6, <1>7, <2>1, <2>2
  <2>3. CASE k # key
    <3>1. after[k] = served[l][k] \/ after[k] = {}
      BY <1>8, <2>3
    <3>2. Cardinality({}) = 0
      BY FS_EmptySet
    <3> QED BY <2>1, <3>1, <3>2
  <2> QED BY <2>2, <2>3
<1>11. \A k \in LimiterKeys(l) : after[k] = Left(F, k)
  BY <1>3, <1>7, <1>8
<1>12. DOMAIN F \subseteq LimiterKeys(l)
  BY <1>1, <1>3, <1>4 DEF Trimmed
<1>13. Swept(l).lastSweep \in {limiters[l].lastSweep, time}
  BY DEF Swept
<1> QED BY <1>3, <1>4, <1>5, <1>9, <1>10, <1>11, <1>12, <1>13 DEF H, F, after

\* What a step does to the hits that are let through.
WindowStep ==
  \A l \in Limiters : time' = time /\ served'[l] # served[l] =>
    \A k \in LimiterKeys(l) :
      \/ Cardinality(served'[l][k]) <= Cardinality(served[l][k])
      \/ \E n \in LimitsAsked(l, k) : Cardinality(served'[l][k]) <= n

\* A call, with its limit, of a request that asks for it.
LEMMA CallCounts ==
  ASSUME LimitInv, NEW l \in Limiters, NEW key \in LimiterKeys(l), NEW limit \in Nat \ {0},
         NEW o \in allowLimit(l, key, limit), limit \in LimitsAsked(l, key),
         limiters' = [limiters EXCEPT ![l] = o.limiter],
         served' = [served EXCEPT ![l] = Served(l, key, o)],
         UNCHANGED <<time, quota, storing, fileBytes>>, ChecksOK', DOMAIN checks' = ProjectRequests
  PROVE  LimitInv' /\ WindowStep
<1> DEFINE H == limiters[l].hits
           F == o.limiter.hits
           after == Served(l, key, o)
<1>1. /\ time \in Nat /\ KeysOK(l) /\ DOMAIN H \subseteq LimiterKeys(l)
      /\ Cardinality(DOMAIN H) <= MaxLimiterKeys /\ limiters[l].lastSweep \in -1 .. MaxTime
      /\ time \in 0 .. MaxTime
  BY DEF LimitInv, LimitsTypeOK
<1>2. /\ DOMAIN o.limiter = {"hits", "lastSweep"} /\ DOMAIN F \subseteq LimiterKeys(l)
      /\ o.limiter.lastSweep \in {limiters[l].lastSweep, time} /\ DOMAIN after = LimiterKeys(l)
      /\ TableOK(F) /\ Cardinality(DOMAIN F) <= MaxLimiterKeys
      /\ \A k \in LimiterKeys(l) :
           /\ after[k] = IF k \in DOMAIN F THEN Recent(F[k], time) ELSE {}
           /\ \/ Cardinality(after[k]) <= Cardinality(served[l][k])
              \/ k = key /\ Cardinality(after[k]) <= limit
  BY <1>1, CallKeeps
<1> HIDE DEF H, F, after
<1>3. /\ limiters'[l] = o.limiter /\ limiters'[l].hits = F /\ served'[l] = after
      /\ DOMAIN limiters' = Limiters /\ DOMAIN served' = Limiters /\ time' = time
      /\ \A m \in Limiters \ {l} : limiters'[m] = limiters[m] /\ served'[m] = served[m]
  BY DEF LimitInv, F, after
<1>4. ASSUME NEW m \in Limiters PROVE KeysOK(m)'
  <2>1. CASE m = l
    <3>1. TableOK(limiters[l].hits)'
      BY <1>2, <1>3 DEF TableOK
    <3> QED BY <1>2, <1>3, <2>1, <3>1 DEF KeysOK
  <2>2. CASE m # l
    BY <1>3, <2>2 DEF LimitInv, KeysOK, TableOK
  <2> QED BY <2>1, <2>2
<1>5. LimitsTypeOK'
  BY <1>1, <1>2, <1>3 DEF LimitInv, LimitsTypeOK, ChecksOK
<1>6. WindowStep
  BY <1>2, <1>3 DEF WindowStep
<1> QED BY <1>3, <1>4, <1>5, <1>6 DEF LimitInv

\* The limit of a check, and the check that follows it.
LEMMA LimitIsNat == ASSUME NEW c \in Checks, Limit(c) > 0 PROVE Limit(c) \in Nat \ {0}
<1>1. c.quota \in [requests : Nat, auth : Nat]
  BY LimitsAssumption DEF Checks
<1> QED BY <1>1 DEF Limit

LEMMA CheckedIs ==
  ASSUME NEW c \in Checks, NEW allowed
  PROVE  Checked(c, allowed) \in Checks \cup {NoCheck} /\ Checked(c, allowed) # c
<1>1. CASE allowed /\ c.part = "auth"
  <2>1. Checked(c, allowed) = [c EXCEPT !.part = "public"]
    BY <1>1 DEF Checked
  <2>2. c \in [part : QuotaParts, client : Clients, quota : QuotaLimits]
    BY DEF Checks
  <2>3. [c EXCEPT !.part = "public"] \in Checks /\ [c EXCEPT !.part = "public"].part = "public"
    BY <2>2 DEF Checks, QuotaParts
  <2> QED BY <1>1, <2>1, <2>3
<1>2. CASE ~(allowed /\ c.part = "auth")
  <2>1. Checked(c, allowed) = NoCheck
    BY <1>2 DEF Checked
  <2>2. c.part \in QuotaParts /\ NoCheck.part \notin QuotaParts
    BY DEF Checks, NoCheck, QuotaParts
  <2> QED BY <2>1, <2>2
<1> QED BY <1>1, <1>2

LEMMA LimitsPreserved ==
  ASSUME LimitInv, [LimitsNext]_limitVars
  PROVE  LimitInv' /\ WindowStep
<1>1. ASSUME UNCHANGED <<time, limiters, served>>, LimitsTypeOK', DOMAIN checks' = ProjectRequests
      PROVE  LimitInv' /\ WindowStep
  BY <1>1 DEF LimitInv, KeysOK, TableOK, WindowStep
<1>2. CASE UNCHANGED limitVars
  <2>1. LimitsTypeOK'
    BY <1>2 DEF limitVars, LimitInv, LimitsTypeOK
  <2>2. UNCHANGED <<time, limiters, served, checks>>
    BY <1>2 DEF limitVars
  <2> QED BY <1>1, <2>1, <2>2 DEF LimitInv
<1>3. CASE LimitTick
  <2>1. time \in Nat /\ time' = time + 1 /\ time' \in 0 .. MaxTime /\ UNCHANGED <<limiters, quota, checks, storing, fileBytes>>
    BY <1>3, LimitsAssumption DEF LimitTick, LimitInv, LimitsTypeOK
  <2>2. LimitsTypeOK'
    BY <2>1 DEF LimitInv, LimitsTypeOK
  <2>3. ASSUME NEW l \in Limiters PROVE KeysOK(l)'
    <3> DEFINE H == limiters[l].hits
    <3>1. TableOK(H) /\ KeysOK(l)
      BY DEF LimitInv, KeysOK
    <3>2. ASSUME NEW k \in DOMAIN H
          PROVE  HitsOK(H[k], time + 1) /\ Recent(H[k], time + 1) = Recent(Recent(H[k], time), time + 1)
      <4>1. HitsOK(H[k], time)
        BY <3>1 DEF TableOK
      <4>2. HitsOK(H[k], time + 1)
        BY <2>1, <4>1 DEF HitsOK
      <4> QED BY <2>1, <4>1, <4>2, RecentOK
    <3>3. \A k \in LimiterKeys(l) : served'[l][k] = Recent(served[l][k], time + 1)
      BY <1>3 DEF LimitTick
    <3>4. TableOK(H)'
      BY <2>1, <3>1, <3>2 DEF TableOK
    <3>5. \A k \in LimiterKeys(l) :
            served'[l][k] = IF k \in DOMAIN H THEN Recent(H[k], time + 1) ELSE {}
      BY <3>1, <3>2, <3>3 DEF KeysOK, Recent
    <3>6. DOMAIN served'[l] = LimiterKeys(l)
      BY <1>3 DEF LimitTick
    <3> QED BY <2>1, <3>1, <3>4, <3>5, <3>6 DEF KeysOK
  <2>4. WindowStep
    BY <2>1 DEF WindowStep
  <2>5. DOMAIN served' = Limiters
    BY <1>3 DEF LimitTick
  <2> QED BY <2>1, <2>2, <2>3, <2>4, <2>5 DEF LimitInv
<1>4. ASSUME NEW c \in Clients, limitByIP(c) PROVE LimitInv' /\ WindowStep
  <2>1. PICK o \in allowLimit("route", c, AuthLimit) :
          /\ limiters' = [limiters EXCEPT !["route"] = o.limiter]
          /\ served' = [served EXCEPT !["route"] = Served("route", c, o)]
    BY <1>4 DEF limitByIP
  <2>2. c \in LimiterKeys("route") /\ "route" \in Limiters /\ AuthLimit \in LimitsAsked("route", c)
    BY DEF LimiterKeys, RouteKeys, Limiters, LimitsAsked
  <2>3. UNCHANGED <<time, quota, checks, storing, fileBytes>>
    BY <1>4 DEF limitByIP
  <2>4. ChecksOK' /\ DOMAIN checks' = ProjectRequests
    BY <2>3 DEF LimitInv, LimitsTypeOK, ChecksOK
  <2>5. AuthLimit \in Nat \ {0}
    BY LimitsAssumption
  <2> HIDE DEF LimitsAsked
  <2> QED BY <2>1, <2>2, <2>3, <2>4, <2>5, CallCounts
<1>5. ASSUME NEW q \in ProjectRequests, checkQuota(q) PROVE LimitInv' /\ WindowStep
  <2> DEFINE key == <<checks[q].part, checks[q].client>>
             limit == Limit(checks[q])
  <2>1. PICK o \in allowLimit("quota", key, limit) :
          /\ limiters' = [limiters EXCEPT !["quota"] = o.limiter]
          /\ served' = [served EXCEPT !["quota"] = Served("quota", key, o)]
          /\ checks' = [checks EXCEPT ![q] = Checked(checks[q], o.allowed)]
    BY <1>5 DEF checkQuota
  <2>2. checks[q] \in Checks /\ limit > 0 /\ UNCHANGED <<time, quota, storing, fileBytes>>
    BY <1>5 DEF checkQuota, LimitInv, LimitsTypeOK
  <2>3. key \in LimiterKeys("quota") /\ "quota" \in Limiters
    BY <2>2 DEF LimiterKeys, QuotaKeys, Limiters, Checks
  <2>4. limit \in Nat \ {0}
    BY <2>2, LimitIsNat
  <2>5. Checked(checks[q], o.allowed) \in Checks \cup {NoCheck} /\ Checked(checks[q], o.allowed) # checks[q]
    BY <2>2, CheckedIs
  <2>6. checks'[q] # checks[q] /\ DOMAIN checks' = ProjectRequests /\ checks[q] # NoCheck
    BY <1>5, <2>1, <2>5 DEF LimitInv, checkQuota
  <2>7. ChecksOK'
    BY <2>1, <2>5 DEF LimitInv, LimitsTypeOK, ChecksOK
  <2>8. limit \in LimitsAsked("quota", key)
    BY <2>6 DEF LimitsAsked
  <2> HIDE DEF key, limit
  <2> QED BY <2>1, <2>2, <2>3, <2>4, <2>6, <2>7, <2>8, CallCounts
<1>10. ASSUME NEW q \in ProjectRequests, PassUnlimited(q) PROVE LimitInv' /\ WindowStep
  <2>1. checks[q] \in Checks /\ UNCHANGED <<time, limiters, quota, storing, fileBytes, served>>
    BY <1>10 DEF PassUnlimited, LimitInv, LimitsTypeOK
  <2>2. checks' = [checks EXCEPT ![q] = Checked(checks[q], TRUE)]
    BY <1>10 DEF PassUnlimited
  <2>3. ChecksOK' /\ DOMAIN checks' = ProjectRequests
    BY <2>1, <2>2, CheckedIs DEF LimitInv, LimitsTypeOK, ChecksOK
  <2> QED BY <1>1, <2>1, <2>3 DEF LimitInv, LimitsTypeOK, ChecksOK
<1>11. ASSUME NEW q \in ProjectRequests, NEW c \in Clients, NEW part \in QuotaParts, GetProjectQuotas(q, c, part)
       PROVE  LimitInv' /\ WindowStep
  <2>1. /\ checks' = [checks EXCEPT ![q] = [part |-> part, client |-> c, quota |-> quota]]
        /\ UNCHANGED <<time, limiters, quota, storing, fileBytes, served>>
    BY <1>11 DEF GetProjectQuotas
  <2>2. [part |-> part, client |-> c, quota |-> quota] \in Checks
    BY DEF Checks, LimitInv, LimitsTypeOK
  <2>3. ChecksOK' /\ DOMAIN checks' = ProjectRequests
    BY <2>1, <2>2 DEF LimitInv, LimitsTypeOK, ChecksOK
  <2> QED BY <1>1, <2>1, <2>3 DEF LimitInv, LimitsTypeOK, ChecksOK
<1>6. ASSUME NEW n \in QuotaLimits, ChangeQuota(n) PROVE LimitInv' /\ WindowStep
  BY <1>1, <1>6 DEF ChangeQuota, LimitInv, LimitsTypeOK
<1>7. ASSUME NEW u \in Uploaders, StoreFile(u) PROVE LimitInv' /\ WindowStep
  <2>1. storing' \in [Uploaders -> FileSizes \cup {0}] /\ fileBytes' \in Nat
    <3>1. storing \in [Uploaders -> FileSizes \cup {0}] /\ fileBytes \in Nat
      BY DEF LimitInv, LimitsTypeOK
    <3>2. storing[u] \in Nat
      <4>1. storing[u] \in FileSizes \/ storing[u] = 0
        BY <1>7, <3>1
      <4>2. FileSizes \subseteq Nat
        BY LimitsAssumption
      <4> QED BY <4>1, <4>2, 0 \in Nat
    <3>3. storing' \in [Uploaders -> FileSizes \cup {0}]
      BY <1>7, <3>1 DEF StoreFile
    <3> QED BY <1>7, <3>1, <3>2, <3>3 DEF StoreFile
  <2> QED BY <1>1, <1>7, <2>1 DEF StoreFile, LimitInv, LimitsTypeOK
<1>8. ASSUME NEW u \in Uploaders, NEW size \in FileSizes, EnsureStorage(u, size)
      PROVE  LimitInv' /\ WindowStep
  BY <1>1, <1>8 DEF EnsureStorage, LimitInv, LimitsTypeOK
<1>9. ASSUME NEW size \in FileSizes, RemoveFiles(size) PROVE LimitInv' /\ WindowStep
  <2>1. fileBytes' \in Nat
    BY <1>9, LimitsAssumption DEF RemoveFiles, LimitInv, LimitsTypeOK
  <2> QED BY <1>1, <1>9, <2>1 DEF RemoveFiles, LimitInv, LimitsTypeOK
<1> QED BY <1>2, <1>3, <1>4, <1>5, <1>6, <1>7, <1>8, <1>9, <1>10, <1>11 DEF LimitsNext

\* No request is let through beyond the limit it has read, for any keys, limits, windows and
\* changes of the quota between the read and the call: what the limiter has of a key it has not evicted is all it let through in
\* the window (allowLimit, sweep and evictOldest of apis/rate_limit.go).
THEOREM LimitsHold == LimitsSpec => WithinWindow
<1>1. LimitInv /\ [LimitsNext]_limitVars => LimitInv' /\ [WindowStep]_limitVars
  BY LimitsPreserved
<1> QED BY <1>1, LimitsInitially, PTL DEF LimitsSpec, WithinWindow, WindowStep

\* A limiter never holds more keys than it may, whoever calls (maxKeys of apis/rate_limit.go).
THEOREM LimiterBounded == LimitsSpec => []LimitsTypeOK
<1>1. LimitInv /\ [LimitsNext]_limitVars => LimitInv'
  BY LimitsPreserved
<1>2. LimitInv => LimitsTypeOK
  BY DEF LimitInv
<1> QED BY <1>1, <1>2, LimitsInitially, PTL DEF LimitsSpec
==============================================================================
