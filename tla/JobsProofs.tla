------------------------------ MODULE JobsProofs -------------------------------
(***************************************************************************)
(* Proofs about ScheduledJobs, for any jobs, schedules, workers, requests  *)
(* and faults.                                                             *)
(***************************************************************************)
EXTENDS ScheduledJobs, Extrema, TLAPS

JobRecords == [state : {"absent", "enabled", "disabled", "deleted"},
               sched : Schedules \cup {NoSchedule}, next : Nat]
RunRecords == [job : Jobs \cup {NoJob},
               status : {"none", "running", "success", "error", "deleted"},
               stamp : Times \cup {NoTime}]
WorkRecords == [job : Jobs \cup {NoJob}, attempt : 0 .. RetryCount + 1, row : Runs \cup {NoRun},
                stage : {"idle", "create", "running", "advance", "failed"},
                stamp : Times \cup {NoTime}, due : Nat]

\* Everything but the executors that were overtaken, which only a property is about.
StateOK ==
  /\ clock \in 0 .. MaxTime
  /\ job \in [Jobs -> JobRecords] /\ run \in [Runs -> RunRecords]
  /\ store \in [Keys -> Jobs \cup {NoJob}]
  /\ batch \in [Executors -> Batches] /\ work \in [Executors -> WorkRecords]
  /\ claimed \in [Jobs -> Nat]
  /\ repeated \in SUBSET Jobs /\ excused \in SUBSET Jobs /\ stale \in SUBSET Jobs
  /\ orphaned \in SUBSET Runs /\ faults \in 0 .. MaxFaults

\* A saved job has a schedule.
SavedOK == \A j \in Jobs : job[j].state # "absent" => job[j].sched \in Schedules

\* An executor works on a job of its batch, and writes into the row it inserted for that job.
WorkOK ==
  \A x \in Executors :
    /\ work[x].stage # "idle" => work[x].job \in Jobs /\ Held(x, work[x].job)
    /\ work[x].stage = "running" =>
         /\ work[x].row \in Runs
         /\ run[work[x].row].status # "none" /\ run[work[x].row].job = work[x].job

ExecutorsInv == StateOK /\ SavedOK /\ WorkOK

\* The dump of a backup is under its key from the moment it was stored.
StampsOK == \A k \in Runs : run[k].status = "success" /\ run[k].job \in BackupJobs => run[k].stamp \in Times
DumpsOK ==
  \A x \in Executors :
    /\ work[x].stage \in {"create", "running"} /\ work[x].job \in BackupJobs /\ work[x].stamp # NoTime
    /\ NameIsOwn(work[x].job)
    => store[<<work[x].stamp, KeyName(work[x].job)>>] = work[x].job

RunsInv == RunningIsExecuted /\ StampsOK /\ DumpsOK /\ DumpIsOwn

\* What was claimed was due; an occurrence that was claimed and stands is still being worked on.
ClaimedOK == \A j \in Jobs : claimed[j] <= clock
StillHeld ==
  \A j \in Jobs \ excused :
    Exists(j) /\ job[j].next # NoTime /\ job[j].next = claimed[j] => \E x \in Executors : Held(x, j)

ClaimsInv == ClaimedOK /\ StillHeld /\ OncePerOccurrence

\* An executor has a copy of the schedule of a job that was not saved over its head.
CopiesOK ==
  \A x \in Executors, j \in Jobs :
    Held(x, j) => job[j].state # "absent" /\ (j \notin stale => batch[x][j] = job[j].sched)

SchedulesInv == CopiesOK /\ ScheduleKept

\* The instant an executor has in mind is after any claim of its job but those that overlapped it,
\* not beyond its schedule, and not before what the job has already unless it was overtaken.
DuesInv ==
  \A x \in Executors : work[x].due # NoTime =>
    /\ work[x].stage \in {"advance", "failed"}
    /\ work[x].job \notin excused => claimed[work[x].job] < work[x].due
    /\ LET n == NextScheduledTime(batch[x][work[x].job], clock) IN n # NoTime => work[x].due <= n
    /\ x \notin late /\ work[x].job \notin stale /\ Exists(work[x].job) =>
         job[work[x].job].next <= work[x].due

JobsInv == ExecutorsInv /\ RunsInv /\ ClaimsInv /\ SchedulesInv /\ DuesInv

------------------------------------------------------------------------------
(* Schedules, batches and copies of jobs *)

LEMMA TypesAre ==
  StateOK <=> /\ clock \in 0 .. MaxTime
              /\ job \in [Jobs -> JobRecords] /\ run \in [Runs -> RunRecords]
              /\ store \in [Keys -> Jobs \cup {NoJob}]
              /\ batch \in [Executors -> Batches] /\ work \in [Executors -> WorkRecords]
              /\ claimed \in [Jobs -> Nat]
              /\ repeated \in SUBSET Jobs /\ excused \in SUBSET Jobs /\ stale \in SUBSET Jobs
              /\ orphaned \in SUBSET Runs /\ faults \in 0 .. MaxFaults
BY DEF StateOK

LEMMA TypesBecome ==
  ASSUME clock' \in 0 .. MaxTime,
         job' \in [Jobs -> JobRecords], run' \in [Runs -> RunRecords],
         store' \in [Keys -> Jobs \cup {NoJob}],
         batch' \in [Executors -> Batches], work' \in [Executors -> WorkRecords],
         claimed' \in [Jobs -> Nat],
         repeated' \in SUBSET Jobs, excused' \in SUBSET Jobs, stale' \in SUBSET Jobs,
         orphaned' \in SUBSET Runs, faults' \in 0 .. MaxFaults
  PROVE  StateOK'
BY DEF StateOK

\* NextScheduledTime is an interval from t, or the least instant after t if there is one.
LEMMA NextIs ==
  ASSUME ScheduleAssumption, NEW s \in Schedules \cup {NoSchedule}, NEW t \in 0 .. MaxTime
  PROVE  LET n == NextScheduledTime(s, t)
         IN /\ n \in Nat /\ (n # NoTime => n > t)
            /\ s.every \in Nat /\ (s.every # 0 => n = t + s.every)
            /\ s.every = 0 =>
                 /\ n # NoTime => n \in s.at /\ \A m \in s.at : m \in Nat /\ (m > t => n <= m)
                 /\ n = NoTime => \A m \in s.at : ~(m > t)
<1> DEFINE later == {m \in s.at : m > t}
<1>1. s.at \subseteq Times /\ s.every \in Nat
  BY DEF ScheduleAssumption, NoSchedule
<1>2. later \subseteq Nat /\ s.at \subseteq Nat
  <2>1. Times \subseteq Nat
    BY DEF Times
  <2> QED BY <1>1, <2>1
<1>3. CASE s.every # 0
  <2>1. NextScheduledTime(s, t) = t + s.every
    BY <1>3 DEF NextScheduledTime
  <2> QED BY <1>1, <1>3, <2>1 DEF NoTime
<1>4. CASE s.every = 0 /\ later = {}
  <2>1. \A m \in s.at : ~(m > t)
    BY <1>4
  <2>2. NextScheduledTime(s, t) = NoTime
    BY <1>4, <2>1 DEF NextScheduledTime
  <2> QED BY <1>4, <2>1, <2>2 DEF NoTime
<1>5. CASE s.every = 0 /\ later # {}
  <2>1. NextScheduledTime(s, t) = Min(later)
    BY <1>5 DEF NextScheduledTime
  <2>2. Min(later) \in later /\ \A m \in later : Min(later) <= m
    <3> HIDE DEF later
    <3> QED BY <1>2, <1>5, MinOf
  <2>3. Min(later) \in Nat /\ Min(later) > t /\ Min(later) # NoTime
    BY <1>2, <2>2 DEF NoTime
  <2> QED BY <1>2, <1>5, <2>1, <2>2, <2>3
<1> QED BY <1>1, <1>3, <1>4, <1>5

\* The later the clock, the later the next instant.
LEMMA NextGrows ==
  ASSUME ScheduleAssumption, NEW s \in Schedules \cup {NoSchedule},
         NEW t \in 0 .. MaxTime, NEW u \in 0 .. MaxTime, t <= u, NextScheduledTime(s, u) # NoTime
  PROVE  NextScheduledTime(s, t) # NoTime /\ NextScheduledTime(s, t) <= NextScheduledTime(s, u)
<1> DEFINE n == NextScheduledTime(s, t)
           m == NextScheduledTime(s, u)
<1>1. m > u /\ m > t /\ m \in Nat
  BY NextIs DEF NoTime
<1>2. CASE s.every # 0
  <2>1. n = t + s.every /\ m = u + s.every /\ s.every \in Nat
    BY <1>2, NextIs
  <2> QED BY <1>2, <2>1 DEF NoTime
<1>3. CASE s.every = 0
  <2>1. m \in s.at
    BY <1>3, NextIs
  <2>2. /\ n # NoTime => \A i \in s.at : i > t => n <= i
        /\ n = NoTime => \A i \in s.at : ~(i > t)
    BY <1>3, NextIs
  <2> QED BY <1>1, <2>1, <2>2
<1> QED BY <1>2, <1>3

LEMMA BatchOf ==
  ASSUME NEW B \in SUBSET Jobs, NEW f \in [B -> Schedules]
  PROVE  f \in Batches
BY DEF Batches

LEMMA BatchIs ==
  ASSUME NEW f \in Batches
  PROVE  /\ DOMAIN f \subseteq Jobs /\ f \in [DOMAIN f -> Schedules]
BY DEF Batches

LEMMA SmallerBatch ==
  ASSUME NEW f \in Batches, NEW j
  PROVE  LET g == Restrict(f, DOMAIN f \ {j})
         IN /\ g \in Batches /\ DOMAIN g = DOMAIN f \ {j}
            /\ \A i \in DOMAIN g : g[i] = f[i]
<1> DEFINE g == Restrict(f, DOMAIN f \ {j})
           B == DOMAIN f \ {j}
<1>1. B \in SUBSET Jobs /\ f \in [DOMAIN f -> Schedules]
  BY BatchIs
<1>2. g \in [B -> Schedules] /\ \A i \in B : g[i] = f[i]
  BY <1>1 DEF Restrict
<1>3. DOMAIN g = B
  BY DEF Restrict
<1> HIDE DEF g, B
<1>4. g \in Batches
  BY <1>1, <1>2, BatchOf
<1> QED BY <1>2, <1>3, <1>4 DEF B, g

LEMMA EmptyBatch == <<>> \in Batches /\ DOMAIN <<>> = {}
<1>1. <<>> \in [{} -> Schedules] /\ DOMAIN <<>> = {}
  OBVIOUS
<1>2. {} \in SUBSET Jobs
  OBVIOUS
<1> HIDE DEF Jobs
<1> QED BY <1>1, <1>2, BatchOf

LEMMA IdleIs ==
  ASSUME ScheduleAssumption
  PROVE  Idle \in WorkRecords /\ Idle.stage = "idle" /\ Idle.due = NoTime
BY DEF Idle, WorkRecords, ScheduleAssumption, NoTime, NoRun

LEMMA CopyIs ==
  ASSUME StateOK, NEW x \in Executors, NEW j, Held(x, j)
  PROVE  j \in Jobs /\ batch[x][j] \in Schedules
<1>1. batch[x] \in Batches
  BY TypesAre
<1> QED BY <1>1, BatchIs DEF Held

------------------------------------------------------------------------------
(* The executors *)

\* An executor is through with its job, or begins another attempt at it.
Eases(x) ==
  /\ batch' \in [Executors -> Batches] /\ work' \in [Executors -> WorkRecords]
  /\ DOMAIN batch'[x] \subseteq DOMAIN batch[x]
  /\ \A j \in DOMAIN batch'[x] : batch'[x][j] = batch[x][j]
  /\ \A o \in Executors \ {x} : batch'[o] = batch[o] /\ work'[o] = work[o]
  /\ work'[x].stage \in {"idle", "create"} /\ work'[x].due = NoTime
  /\ work'[x].stage = "create" =>
       work'[x].job = work[x].job /\ work[x].job \in CronJobs /\ DOMAIN batch'[x] = DOMAIN batch[x]

\* It keeps its other jobs.
Keeps(x) == DOMAIN batch[x] \ {work[x].job} \subseteq DOMAIN batch'[x]

LEMMA Left ==
  ASSUME ScheduleAssumption, StateOK, NEW x \in Executors, Leave(x)
  PROVE  Eases(x) /\ Keeps(x)
<1> DEFINE g == Restrict(batch[x], DOMAIN batch[x] \ {work[x].job})
<1>1. batch \in [Executors -> Batches] /\ work \in [Executors -> WorkRecords]
  BY TypesAre
<1>2. /\ g \in Batches /\ DOMAIN g = DOMAIN batch[x] \ {work[x].job}
      /\ \A j \in DOMAIN g : g[j] = batch[x][j]
  BY <1>1, SmallerBatch
<1>3. batch' = [batch EXCEPT ![x] = g] /\ work' = [work EXCEPT ![x] = Idle]
  BY DEF Leave
<1> HIDE DEF g
<1>4. /\ batch' \in [Executors -> Batches] /\ batch'[x] = g
      /\ \A o \in Executors \ {x} : batch'[o] = batch[o]
  BY <1>1, <1>2, <1>3
<1>5. /\ work' \in [Executors -> WorkRecords] /\ work'[x].stage = "idle" /\ work'[x].due = NoTime
      /\ \A o \in Executors \ {x} : work'[o] = work[o]
  BY <1>1, <1>3, IdleIs
<1> QED BY <1>2, <1>4, <1>5 DEF Eases, Keeps

LEMMA Continued ==
  ASSUME ScheduleAssumption, StateOK, NEW x \in Executors, Continue(x)
  PROVE  Eases(x) /\ Keeps(x)
<1>1. CASE ~Retries(x)
  BY <1>1, Left DEF Continue
<1>2. CASE Retries(x)
  <2> DEFINE w == [work[x] EXCEPT !.attempt = work[x].attempt + 1, !.row = NoRun, !.stage = "create",
                              !.due = NoTime]
  <2>1. batch \in [Executors -> Batches] /\ work \in [Executors -> WorkRecords]
    BY TypesAre
  <2>2. work' = [work EXCEPT ![x] = w] /\ batch' = batch
    BY <1>2 DEF Continue
  <2>3. /\ work[x] \in WorkRecords /\ work[x].attempt <= RetryCount /\ RetryCount \in Nat
        /\ work[x].job \in CronJobs
    BY <1>2, <2>1 DEF Retries, ScheduleAssumption
  <2> PICK n : n = work[x].attempt + 1
    OBVIOUS
  <2> PICK k : k = NoRun
    OBVIOUS
  <2> PICK d : d = NoTime
    OBVIOUS
  <2>4. w \in WorkRecords /\ w.stage = "create" /\ w.job = work[x].job /\ w.due = NoTime
    <3>1. n \in 0 .. RetryCount + 1
      BY <2>3 DEF WorkRecords
    <3>2. w = [work[x] EXCEPT !.attempt = n, !.row = k, !.stage = "create", !.due = d]
      OBVIOUS
    <3>3. k \in Runs \cup {NoRun} /\ d \in Nat /\ d = NoTime
      BY DEF NoTime
    <3> HIDE DEF w
    <3> QED BY <2>3, <3>1, <3>2, <3>3 DEF WorkRecords
  <2> HIDE DEF w
  <2>5. /\ work' \in [Executors -> WorkRecords] /\ work'[x] = w
        /\ \A o \in Executors \ {x} : work'[o] = work[o]
    BY <2>1, <2>2, <2>4
  <2> QED BY <2>1, <2>2, <2>3, <2>4, <2>5 DEF Eases, Keeps
<1> QED BY <1>1, <1>2

LEMMA EasedWork ==
  ASSUME WorkOK, NEW x \in Executors, Eases(x), UNCHANGED run,
         work[x].stage = "idle" => work'[x].stage = "idle"
  PROVE  WorkOK'
<1>1. ASSUME NEW o \in Executors
      PROVE  /\ work'[o].stage # "idle" => work'[o].job \in Jobs /\ Held(o, work[o].job)'
             /\ work'[o].stage = "running" =>
                  /\ work'[o].row \in Runs
                  /\ run'[work'[o].row].status # "none" /\ run'[work'[o].row].job = work'[o].job
  <2>1. CASE o = x
    BY <2>1 DEF WorkOK, Eases, Held
  <2>2. CASE o # x
    BY <2>2 DEF WorkOK, Eases, Held
  <2> QED BY <2>1, <2>2
<1> QED BY <1>1 DEF WorkOK

LEMMA ExecutorsInitially == ASSUME ScheduleAssumption, Init PROVE ExecutorsInv
<1>1. batch \in [Executors -> Batches] /\ work \in [Executors -> WorkRecords]
  BY EmptyBatch, IdleIs DEF Init
<1>2. job \in [Jobs -> JobRecords] /\ run \in [Runs -> RunRecords]
  <2>1. NoTime \in Nat /\ NoTime \in Times \cup {NoTime}
    BY DEF NoTime
  <2>2. [state |-> "absent", sched |-> NoSchedule, next |-> NoTime] \in JobRecords
    BY <2>1 DEF JobRecords
  <2>3. [job |-> NoJob, status |-> "none", stamp |-> NoTime] \in RunRecords
    BY <2>1 DEF RunRecords
  <2> QED BY <2>2, <2>3 DEF Init
<1>3. clock \in 0 .. MaxTime /\ faults \in 0 .. MaxFaults
  BY DEF Init, ScheduleAssumption
<1>4. store \in [Keys -> Jobs \cup {NoJob}] /\ claimed \in [Jobs -> Nat]
  BY DEF Init, NoTime
<1>5. StateOK
  BY <1>1, <1>2, <1>3, <1>4, TypesAre DEF Init
<1>6. WorkOK
  <2>1. \A x \in Executors : work[x].stage = "idle"
    BY IdleIs DEF Init
  <2> QED BY <2>1 DEF WorkOK
<1>7. SavedOK
  BY DEF Init, SavedOK
<1> QED BY <1>5, <1>6, <1>7 DEF ExecutorsInv

\* What a step leaves alone when it concerns no executor.
LEMMA WorkStands ==
  ASSUME WorkOK, UNCHANGED <<batch, work>>,
         \A k \in Runs : run[k].status # "none" => run'[k].status # "none" /\ run'[k].job = run[k].job
  PROVE  WorkOK'
BY DEF WorkOK, Held

LEMMA TickExecutors == ASSUME ScheduleAssumption, ExecutorsInv, Tick PROVE ExecutorsInv'
<1>1. clock' = clock + 1 /\ clock < MaxTime /\ UNCHANGED <<job, run, store, batch, work, history>>
  BY DEF Tick
<1>2. clock' \in 0 .. MaxTime
  BY <1>1 DEF ExecutorsInv, StateOK, ScheduleAssumption
<1>3. StateOK'
  BY <1>1, <1>2 DEF ExecutorsInv, StateOK, history
<1>4. SavedOK' /\ WorkOK'
  BY <1>1, WorkStands DEF ExecutorsInv, SavedOK
<1> QED BY <1>3, <1>4 DEF ExecutorsInv

\* A job is saved with a schedule and its next instant after now.
LEMMA Saved ==
  ASSUME ScheduleAssumption, StateOK, NEW j \in Jobs, NEW s \in Schedules,
         NEW to \in {"enabled", "disabled"}, SaveJob(j, s, to)
  PROVE  /\ job' \in [Jobs -> JobRecords]
         /\ job'[j].state = to /\ job'[j].sched = s /\ job'[j].next = NextScheduledTime(s, clock)
         /\ NextScheduledTime(s, clock) # NoTime
         /\ \A i \in Jobs \ {j} : job'[i] = job[i]
<1> PICK n : n = NextScheduledTime(s, clock)
  OBVIOUS
<1>1. clock \in 0 .. MaxTime /\ job \in [Jobs -> JobRecords]
  BY TypesAre
<1>2. n \in Nat
  BY <1>1, NextIs
<1>3. [state |-> to, sched |-> s, next |-> n] \in JobRecords
  BY <1>2 DEF JobRecords
<1>4. job' = [job EXCEPT ![j] = [state |-> to, sched |-> s, next |-> n]] /\ n # NoTime
  BY DEF SaveJob
<1> QED BY <1>1, <1>3, <1>4

LEMMA SaveExecutors ==
  ASSUME ScheduleAssumption, ExecutorsInv, NEW j \in Jobs, NEW s \in Schedules,
         NEW to \in {"enabled", "disabled"}, CreateJob(j, s, to) \/ UpdateCronJob(j, s, to)
  PROVE  ExecutorsInv'
<1>1. SaveJob(j, s, to)
  BY DEF CreateJob, UpdateCronJob
<1>2. UNCHANGED <<clock, run, store, batch, work, claimed, repeated, excused, orphaned, faults>>
  BY DEF CreateJob, UpdateCronJob, history
<1>3. stale' \in SUBSET Jobs
  BY DEF ExecutorsInv, StateOK, CreateJob, UpdateCronJob, history
<1>4. /\ job' \in [Jobs -> JobRecords] /\ job'[j].sched = s
      /\ \A i \in Jobs \ {j} : job'[i] = job[i]
  BY <1>1, Saved DEF ExecutorsInv
<1>5. StateOK'
  <2>1. /\ clock' \in 0 .. MaxTime /\ run' \in [Runs -> RunRecords]
        /\ store' \in [Keys -> Jobs \cup {NoJob}]
        /\ batch' \in [Executors -> Batches] /\ work' \in [Executors -> WorkRecords]
        /\ claimed' \in [Jobs -> Nat]
        /\ repeated' \in SUBSET Jobs /\ excused' \in SUBSET Jobs
        /\ orphaned' \in SUBSET Runs /\ faults' \in 0 .. MaxFaults
    BY <1>2, TypesAre DEF ExecutorsInv
  <2> QED BY <1>3, <1>4, <2>1, TypesBecome
<1>6. SavedOK'
  BY <1>4 DEF ExecutorsInv, SavedOK
<1>7. WorkOK'
  BY <1>2, WorkStands DEF ExecutorsInv
<1> QED BY <1>5, <1>6, <1>7 DEF ExecutorsInv

LEMMA Deleted ==
  ASSUME StateOK, NEW j \in Jobs, DeleteCronJob(j)
  PROVE  /\ job' \in [Jobs -> JobRecords] /\ run' \in [Runs -> RunRecords]
         /\ \A i \in Jobs : /\ job'[i].sched = job[i].sched /\ job'[i].next = job[i].next
                            /\ i # j => job'[i].state = job[i].state
         /\ job[j].state \in {"enabled", "disabled"} /\ job'[j].state = "deleted"
         /\ \A k \in Runs : /\ run'[k].job = run[k].job /\ run'[k].stamp = run[k].stamp
                            /\ run[k].job # j => run'[k].status = run[k].status
                            /\ run[k].job = j => run'[k].status = "deleted"
<1>1. job \in [Jobs -> JobRecords] /\ run \in [Runs -> RunRecords]
  BY TypesAre
<1>2. /\ job' = [job EXCEPT ![j].state = "deleted"]
      /\ run' = [k \in Runs |-> IF run[k].job = j THEN [run[k] EXCEPT !.status = "deleted"] ELSE run[k]]
      /\ job[j].state \in {"enabled", "disabled"}
  BY DEF DeleteCronJob, Exists
<1>3. job' \in [Jobs -> JobRecords]
  BY <1>1, <1>2 DEF JobRecords
<1>4. /\ \A i \in Jobs : /\ job'[i].sched = job[i].sched /\ job'[i].next = job[i].next
                         /\ i # j => job'[i].state = job[i].state
      /\ job'[j].state = "deleted"
  BY <1>1, <1>2 DEF JobRecords
<1>5. ASSUME NEW k \in Runs
      PROVE  /\ run'[k] \in RunRecords
             /\ run'[k].job = run[k].job /\ run'[k].stamp = run[k].stamp
             /\ run[k].job # j => run'[k].status = run[k].status
             /\ run[k].job = j => run'[k].status = "deleted"
  <2>1. run[k] \in RunRecords
    BY <1>1
  <2>2. CASE run[k].job = j
    <3>1. run'[k] = [run[k] EXCEPT !.status = "deleted"]
      BY <1>2, <2>2
    <3> QED BY <2>1, <2>2, <3>1 DEF RunRecords
  <2>3. CASE run[k].job # j
    BY <1>2, <2>1, <2>3
  <2> QED BY <2>2, <2>3
<1>6. run' \in [Runs -> RunRecords]
  BY <1>2, <1>5
<1> QED BY <1>2, <1>3, <1>4, <1>5, <1>6

\* What a step writes into no table of a job, a run or a clock leaves of their types.
LEMMA TypesStand ==
  ASSUME StateOK, UNCHANGED <<clock, store, history>>,
         job' \in [Jobs -> JobRecords], run' \in [Runs -> RunRecords],
         batch' \in [Executors -> Batches], work' \in [Executors -> WorkRecords]
  PROVE  StateOK'
<1>1. /\ clock' \in 0 .. MaxTime /\ store' \in [Keys -> Jobs \cup {NoJob}]
      /\ claimed' \in [Jobs -> Nat]
      /\ repeated' \in SUBSET Jobs /\ excused' \in SUBSET Jobs /\ stale' \in SUBSET Jobs
      /\ orphaned' \in SUBSET Runs /\ faults' \in 0 .. MaxFaults
  BY TypesAre DEF history
<1> QED BY <1>1, TypesBecome

LEMMA DeleteExecutors ==
  ASSUME ScheduleAssumption, ExecutorsInv, NEW j \in Jobs, DeleteCronJob(j) PROVE ExecutorsInv'
<1>1. UNCHANGED <<clock, store, batch, work, history>>
  BY DEF DeleteCronJob
<1>2. StateOK
  BY DEF ExecutorsInv
<1>3. /\ job' \in [Jobs -> JobRecords] /\ run' \in [Runs -> RunRecords]
      /\ \A i \in Jobs : /\ job'[i].sched = job[i].sched /\ job'[i].next = job[i].next
                         /\ i # j => job'[i].state = job[i].state
      /\ job[j].state \in {"enabled", "disabled"} /\ job'[j].state = "deleted"
      /\ \A k \in Runs : /\ run'[k].job = run[k].job /\ run'[k].stamp = run[k].stamp
                         /\ run[k].job # j => run'[k].status = run[k].status
                         /\ run[k].job = j => run'[k].status = "deleted"
  BY <1>2, Deleted
<1>4. StateOK'
  <2>1. batch' \in [Executors -> Batches] /\ work' \in [Executors -> WorkRecords]
    BY <1>1, <1>2, TypesAre
  <2> QED BY <1>1, <1>2, <1>3, <2>1, TypesStand
<1>5. SavedOK'
  BY <1>3 DEF ExecutorsInv, SavedOK
<1>6. WorkOK'
  <2>1. \A k \in Runs : run[k].status # "none" => run'[k].status # "none" /\ run'[k].job = run[k].job
    <3> TAKE k \in Runs
    <3>1. /\ run'[k].job = run[k].job
          /\ run[k].job # j => run'[k].status = run[k].status
          /\ run[k].job = j => run'[k].status = "deleted"
      BY <1>3
    <3> QED BY <3>1
  <2> QED BY <1>1, <2>1, WorkStands DEF ExecutorsInv
<1> QED BY <1>4, <1>5, <1>6 DEF ExecutorsInv

\* An executor without a batch takes one, a copy of each job's schedule.
Takes(x, B) ==
  /\ batch' \in [Executors -> Batches]
  /\ batch[x] = <<>> /\ DOMAIN batch'[x] = B /\ \A j \in B : batch'[x][j] = job[j].sched
  /\ \A o \in Executors \ {x} : batch'[o] = batch[o]
  /\ \A j \in B : Exists(j)

LEMMA Taken ==
  ASSUME ExecutorsInv, NEW x \in Executors, NEW B \in SUBSET Jobs, batch[x] = <<>>,
         \A j \in B : Exists(j), batch' = [batch EXCEPT ![x] = [j \in B |-> job[j].sched]]
  PROVE  Takes(x, B)
<1> DEFINE f == [j \in B |-> job[j].sched]
<1>1. \A j \in B : job[j].sched \in Schedules
  BY DEF ExecutorsInv, SavedOK, Exists
<1>2. f \in [B -> Schedules] /\ DOMAIN f = B /\ \A j \in B : f[j] = job[j].sched
  BY <1>1
<1>3. f \in Batches /\ batch \in [Executors -> Batches]
  BY <1>2, BatchOf, TypesAre DEF ExecutorsInv
<1>4. batch' = [batch EXCEPT ![x] = f]
  OBVIOUS
<1> HIDE DEF f
<1>5. batch' \in [Executors -> Batches] /\ batch'[x] = f /\ \A o \in Executors \ {x} : batch'[o] = batch[o]
  BY <1>3, <1>4
<1> QED BY <1>2, <1>5 DEF Takes

LEMMA TakenWork ==
  ASSUME WorkOK, NEW x \in Executors, NEW B \in SUBSET Jobs, Takes(x, B), UNCHANGED <<run, work>>
  PROVE  WorkOK'
<1>1. work[x].stage = "idle"
  <2>1. \A j : ~Held(x, j)
    BY EmptyBatch DEF Takes, Held
  <2> QED BY <2>1 DEF WorkOK
<1> QED BY <1>1 DEF WorkOK, Takes, Held

LEMMA TakeExecutors ==
  ASSUME ScheduleAssumption, ExecutorsInv, NEW x \in Executors, NEW B \in SUBSET Jobs, Takes(x, B),
         UNCHANGED <<clock, job, run, store, work, stale, orphaned, faults>>,
         claimed' \in [Jobs -> Nat],
         repeated' \in SUBSET Jobs, excused' \in SUBSET Jobs
  PROVE  ExecutorsInv'
<1>1. WorkOK'
  BY TakenWork DEF ExecutorsInv
<1>2. SavedOK'
  BY DEF ExecutorsInv, SavedOK
<1>3. StateOK'
  <2>1. batch' \in [Executors -> Batches]
    BY DEF Takes
  <2>2. /\ clock' \in 0 .. MaxTime
        /\ job' \in [Jobs -> JobRecords] /\ run' \in [Runs -> RunRecords]
        /\ store' \in [Keys -> Jobs \cup {NoJob}] /\ work' \in [Executors -> WorkRecords]
        /\ stale' \in SUBSET Jobs /\ orphaned' \in SUBSET Runs /\ faults' \in 0 .. MaxFaults
    BY TypesAre DEF ExecutorsInv
  <2> QED BY <2>1, <2>2, TypesBecome
<1> QED BY <1>1, <1>2, <1>3 DEF ExecutorsInv

LEMMA RunJobTakes ==
  ASSUME ExecutorsInv, NEW x \in Executors, NEW j \in Jobs, RunJob(x, j)
  PROVE  Takes(x, {j}) /\ UNCHANGED <<clock, job, run, store, work, history>>
<1>1. /\ batch[x] = <<>> /\ Exists(j) /\ batch' = [batch EXCEPT ![x] = [b \in {j} |-> job[j].sched]]
      /\ UNCHANGED <<clock, job, run, store, work, history>>
  BY DEF RunJob
<1>2. [b \in {j} |-> job[j].sched] = [i \in {j} |-> job[i].sched]
  OBVIOUS
<1>3. batch' = [batch EXCEPT ![x] = [i \in {j} |-> job[i].sched]]
  BY <1>1, <1>2
<1>4. {j} \in SUBSET Jobs /\ \A i \in {j} : Exists(i)
  BY <1>1
<1>5. Takes(x, {j})
  BY <1>1, <1>3, <1>4, Taken
<1> QED BY <1>1, <1>5

LEMMA RunJobExecutors ==
  ASSUME ScheduleAssumption, ExecutorsInv, NEW x \in Executors, NEW j \in Jobs, RunJob(x, j)
  PROVE  ExecutorsInv'
<1>1. Takes(x, {j}) /\ UNCHANGED <<clock, job, run, store, work, history>>
  BY RunJobTakes
<1>2. /\ claimed' \in [Jobs -> Nat]
      /\ repeated' \in SUBSET Jobs /\ excused' \in SUBSET Jobs
  BY <1>1 DEF ExecutorsInv, StateOK, history
<1>3. UNCHANGED <<clock, job, run, store, work, stale, orphaned, faults>>
  BY <1>1 DEF history
<1> QED BY <1>1, <1>2, <1>3, TakeExecutors

\* What a claim takes is due, and it notes the occurrence and who else has the job.
LEMMA ClaimTakes ==
  ASSUME ScheduleAssumption, ExecutorsInv, NEW x \in Executors,
         NEW kind \in {CronJobs, BackupJobs}, Claim(x, kind)
  PROVE  \E B \in SUBSET Jobs :
           /\ Takes(x, B) /\ \A j \in B : IsDue(j)
           /\ claimed' = [j \in Jobs |-> IF j \in B THEN job[j].next ELSE claimed[j]]
           /\ repeated' = repeated \cup {j \in B : job[j].next = claimed[j]}
           /\ excused' = excused \cup {j \in B : \E o \in Executors : o # x /\ Held(o, j)}
           /\ UNCHANGED <<clock, job, run, store, work, stale, orphaned, faults>>
<1>1. PICK B \in SUBSET kind :
        /\ Claimable(kind, B)
        /\ batch' = [batch EXCEPT ![x] = [j \in B |-> job[j].sched]]
        /\ claimed' = [j \in Jobs |-> IF j \in B THEN job[j].next ELSE claimed[j]]
        /\ repeated' = repeated \cup {j \in B : job[j].next = claimed[j]}
        /\ excused' = excused \cup {j \in B : \E o \in Executors : o # x /\ Held(o, j)}
  BY DEF Claim
<1>2. batch[x] = <<>> /\ UNCHANGED <<clock, job, run, store, work, stale, orphaned, faults>>
  BY DEF Claim
<1>3. B \in SUBSET Jobs
  BY DEF Jobs
<1>4. \A j \in B : IsDue(j) /\ Exists(j)
  BY <1>1 DEF Claimable, IsDue, Exists
<1>5. Takes(x, B)
  BY <1>1, <1>2, <1>3, <1>4, Taken
<1> QED BY <1>1, <1>2, <1>3, <1>4, <1>5

LEMMA ClaimExecutors ==
  ASSUME ScheduleAssumption, ExecutorsInv, NEW x \in Executors,
         NEW kind \in {CronJobs, BackupJobs}, Claim(x, kind)
  PROVE  ExecutorsInv'
<1>1. PICK B \in SUBSET Jobs :
        /\ Takes(x, B)
        /\ claimed' = [j \in Jobs |-> IF j \in B THEN job[j].next ELSE claimed[j]]
        /\ repeated' = repeated \cup {j \in B : job[j].next = claimed[j]}
        /\ excused' = excused \cup {j \in B : \E o \in Executors : o # x /\ Held(o, j)}
        /\ UNCHANGED <<clock, job, run, store, work, stale, orphaned, faults>>
  BY ClaimTakes
<1>2. /\ claimed' \in [Jobs -> Nat]
      /\ repeated' \in SUBSET Jobs /\ excused' \in SUBSET Jobs
  <2>1. \A j \in Jobs : job[j].next \in Nat /\ claimed[j] \in Nat
    BY TypesAre DEF ExecutorsInv, JobRecords
  <2> QED BY <1>1, <2>1 DEF ExecutorsInv, StateOK
<1> QED BY <1>1, <1>2, TakeExecutors

LEMMA Began ==
  ASSUME ScheduleAssumption, ExecutorsInv, NEW x \in Executors, Begin(x)
  PROVE  /\ work' \in [Executors -> WorkRecords]
         /\ work[x].stage = "idle" /\ work'[x].stage = "create" /\ work'[x].stamp = NoTime
         /\ work'[x].job \in Jobs /\ Held(x, work'[x].job)
         /\ \A o \in Executors \ {x} : work'[o] = work[o]
         /\ UNCHANGED <<clock, job, run, store, batch, history>>
<1>1. PICK j \in DOMAIN batch[x] :
        work' = [work EXCEPT ![x] = [Idle EXCEPT !.job = j, !.attempt = 1, !.stage = "create"]]
  BY DEF Begin
<1>2. j \in Jobs /\ Held(x, j)
  BY <1>1, CopyIs DEF ExecutorsInv, Held
<1> DEFINE w == [Idle EXCEPT !.job = j, !.attempt = 1, !.stage = "create"]
<1>3. w \in WorkRecords /\ w.stage = "create" /\ w.job = j /\ w.stamp = NoTime
  <2>1. 1 \in 0 .. RetryCount + 1
    BY DEF ScheduleAssumption
  <2>2. Idle \in WorkRecords /\ Idle.stamp = NoTime
    BY IdleIs DEF Idle
  <2> QED BY <1>2, <2>1, <2>2 DEF WorkRecords
<1>4. work \in [Executors -> WorkRecords] /\ work' = [work EXCEPT ![x] = w]
  BY <1>1, TypesAre DEF ExecutorsInv
<1> HIDE DEF w
<1>5. work' \in [Executors -> WorkRecords] /\ work'[x] = w /\ \A o \in Executors \ {x} : work'[o] = work[o]
  BY <1>3, <1>4
<1> QED BY <1>2, <1>3, <1>5 DEF Begin

LEMMA BeginExecutors ==
  ASSUME ScheduleAssumption, ExecutorsInv, NEW x \in Executors, Begin(x) PROVE ExecutorsInv'
<1>1. /\ work' \in [Executors -> WorkRecords]
      /\ work'[x].stage = "create" /\ work'[x].job \in Jobs /\ Held(x, work'[x].job)
      /\ \A o \in Executors \ {x} : work'[o] = work[o]
      /\ UNCHANGED <<clock, job, run, store, batch, history>>
  BY Began
<1>2. StateOK'
  <2>1. StateOK /\ job' \in [Jobs -> JobRecords] /\ run' \in [Runs -> RunRecords] /\ batch' \in [Executors -> Batches]
    BY <1>1, TypesAre DEF ExecutorsInv
  <2> QED BY <1>1, <2>1, TypesStand
<1>3. SavedOK' /\ WorkOK'
  BY <1>1 DEF ExecutorsInv, SavedOK, WorkOK, Held
<1> QED BY <1>2, <1>3 DEF ExecutorsInv

LEMMA RunCreated ==
  ASSUME ExecutorsInv, NEW x \in Executors, CreateRun(x)
  PROVE  \E k \in Runs :
           /\ run' \in [Runs -> RunRecords] /\ work' \in [Executors -> WorkRecords]
           /\ run[k].status = "none" /\ run'[k].job = work[x].job /\ run'[k].status = "running"
           /\ \A i \in Runs \ {k} : run'[i] = run[i]
           /\ work[x].stage = "create" /\ work'[x].stage = "running" /\ work'[x].row = k
           /\ work'[x].job = work[x].job /\ work'[x].stamp = work[x].stamp
           /\ \A o \in Executors \ {x} : work'[o] = work[o]
           /\ UNCHANGED <<clock, job, store, batch, history>>
<1>1. PICK k \in Runs :
        /\ run[k].status = "none"
        /\ run' = [run EXCEPT ![k] = [job |-> work[x].job, status |-> "running", stamp |-> NoTime]]
        /\ work' = [work EXCEPT ![x].row = k, ![x].stage = "running"]
  BY DEF CreateRun
<1>2. work[x].stage = "create" /\ UNCHANGED <<clock, job, store, batch, history>>
  BY DEF CreateRun
<1>3. run \in [Runs -> RunRecords] /\ work \in [Executors -> WorkRecords]
  BY TypesAre DEF ExecutorsInv
<1>4. [job |-> work[x].job, status |-> "running", stamp |-> NoTime] \in RunRecords
  BY <1>3 DEF RunRecords, WorkRecords
<1>5. /\ run' \in [Runs -> RunRecords] /\ run'[k].job = work[x].job /\ run'[k].status = "running"
      /\ \A i \in Runs \ {k} : run'[i] = run[i]
  BY <1>1, <1>3, <1>4
<1>6. /\ work' \in [Executors -> WorkRecords] /\ work'[x].stage = "running" /\ work'[x].row = k
      /\ work'[x].job = work[x].job /\ work'[x].stamp = work[x].stamp
      /\ \A o \in Executors \ {x} : work'[o] = work[o]
  BY <1>1, <1>3 DEF WorkRecords
<1> QED BY <1>1, <1>2, <1>5, <1>6

LEMMA CreateRunExecutors ==
  ASSUME ScheduleAssumption, ExecutorsInv, NEW x \in Executors, CreateRun(x) PROVE ExecutorsInv'
<1>1. PICK k \in Runs :
        /\ run' \in [Runs -> RunRecords] /\ work' \in [Executors -> WorkRecords]
        /\ run[k].status = "none" /\ run'[k].job = work[x].job /\ run'[k].status = "running"
        /\ \A i \in Runs \ {k} : run'[i] = run[i]
        /\ work[x].stage = "create" /\ work'[x].stage = "running" /\ work'[x].row = k
        /\ work'[x].job = work[x].job
        /\ \A o \in Executors \ {x} : work'[o] = work[o]
        /\ UNCHANGED <<clock, job, store, batch, history>>
  BY RunCreated
<1>2. StateOK'
  <2>1. StateOK /\ job' \in [Jobs -> JobRecords] /\ batch' \in [Executors -> Batches]
    BY <1>1, TypesAre DEF ExecutorsInv
  <2> QED BY <1>1, <2>1, TypesStand
<1>3. SavedOK'
  BY <1>1 DEF ExecutorsInv, SavedOK
<1>4. ASSUME NEW o \in Executors
      PROVE  /\ work'[o].stage # "idle" => work'[o].job \in Jobs /\ Held(o, work[o].job)'
             /\ work'[o].stage = "running" =>
                  /\ work'[o].row \in Runs
                  /\ run'[work'[o].row].status # "none" /\ run'[work'[o].row].job = work'[o].job
  <2>1. CASE o = x
    BY <1>1, <2>1 DEF ExecutorsInv, WorkOK, Held
  <2>2. CASE o # x
    <3>1. work'[o] = work[o] /\ batch' = batch
      BY <1>1, <2>2
    <3>2. work[o].stage = "running" => work[o].row \in Runs \ {k}
      BY <1>1 DEF ExecutorsInv, WorkOK
    <3> QED BY <1>1, <3>1, <3>2 DEF ExecutorsInv, WorkOK, Held
  <2> QED BY <2>1, <2>2
<1> QED BY <1>2, <1>3, <1>4 DEF ExecutorsInv, WorkOK

LEMMA EaseExecutors ==
  ASSUME ScheduleAssumption, ExecutorsInv, NEW x \in Executors, Eases(x),
         work[x].stage = "idle" => work'[x].stage = "idle",
         UNCHANGED <<clock, run, store, claimed, repeated, stale>>,
         job' \in [Jobs -> JobRecords], SavedOK',
         excused' \in SUBSET Jobs, orphaned' \in SUBSET Runs, faults' \in 0 .. MaxFaults
  PROVE  ExecutorsInv'
<1>1. WorkOK'
  BY EasedWork DEF ExecutorsInv
<1>2. StateOK'
  <2>1. /\ clock' \in 0 .. MaxTime /\ run' \in [Runs -> RunRecords]
        /\ store' \in [Keys -> Jobs \cup {NoJob}]
        /\ claimed' \in [Jobs -> Nat]
        /\ repeated' \in SUBSET Jobs /\ stale' \in SUBSET Jobs
    BY TypesAre DEF ExecutorsInv
  <2>2. batch' \in [Executors -> Batches] /\ work' \in [Executors -> WorkRecords]
    BY DEF Eases
  <2> QED BY <2>1, <2>2, TypesBecome
<1> QED BY <1>1, <1>2 DEF ExecutorsInv

\* A fault is counted, and excuses the job it hits.
LEMMA Faulted ==
  ASSUME ScheduleAssumption, ExecutorsInv, NEW x \in Executors, work[x].stage # "idle",
         NEW kind, Fault(kind, x)
  PROVE  /\ faults' \in 0 .. MaxFaults /\ excused' \in SUBSET Jobs
         /\ excused \subseteq excused' /\ work[x].job \in excused'
<1>1. faults' = faults + 1 /\ faults < MaxFaults /\ excused' = excused \cup {work[x].job}
  BY DEF Fault
<1>2. faults' \in 0 .. MaxFaults
  BY <1>1 DEF ExecutorsInv, StateOK, ScheduleAssumption
<1>3. work[x].job \in Jobs /\ excused \in SUBSET Jobs
  BY DEF ExecutorsInv, WorkOK, StateOK
<1> QED BY <1>1, <1>2, <1>3

LEMMA CreateRunFailed ==
  ASSUME ScheduleAssumption, ExecutorsInv, NEW x \in Executors, CreateRunFails(x)
  PROVE  /\ work[x].stage = "create" /\ Eases(x) /\ Keeps(x)
         /\ UNCHANGED <<clock, job, run, store, claimed, repeated, stale, orphaned>>
         /\ faults' \in 0 .. MaxFaults /\ excused' \in SUBSET Jobs /\ excused \subseteq excused'
         /\ Exists(work[x].job) => work[x].job \in excused'
<1>1. /\ work[x].stage = "create" /\ Leave(x)
      /\ UNCHANGED <<clock, job, run, store, claimed, repeated, stale, orphaned>>
  BY DEF CreateRunFails
<1>2. Eases(x) /\ Keeps(x)
  BY <1>1, Left DEF ExecutorsInv
<1>3. CASE ~Exists(work[x].job) /\ UNCHANGED <<excused, faults>>
  BY <1>1, <1>2, <1>3 DEF ExecutorsInv, StateOK
<1>4. CASE Fault("createFails", x)
  BY <1>1, <1>2, <1>4, Faulted
<1> QED BY <1>3, <1>4 DEF CreateRunFails

LEMMA FinishRunFailed ==
  ASSUME ScheduleAssumption, ExecutorsInv, NEW x \in Executors, FinishRunFails(x)
  PROVE  /\ work[x].stage = "running" /\ Eases(x) /\ Keeps(x)
         /\ UNCHANGED <<clock, job, run, store, claimed, repeated, stale>>
         /\ faults' \in 0 .. MaxFaults /\ excused' \in SUBSET Jobs
         /\ excused \subseteq excused' /\ work[x].job \in excused'
         /\ orphaned' = orphaned \cup {work[x].row} /\ orphaned' \in SUBSET Runs
<1>1. /\ work[x].stage = "running" /\ Leave(x) /\ Fault("finishFails", x)
      /\ orphaned' = orphaned \cup {work[x].row}
      /\ UNCHANGED <<clock, job, run, store, claimed, repeated, stale>>
  BY DEF FinishRunFails
<1>2. Eases(x) /\ Keeps(x)
  BY <1>1, Left DEF ExecutorsInv
<1>3. work[x].row \in Runs
  BY <1>1 DEF ExecutorsInv, WorkOK
<1>4. orphaned' \in SUBSET Runs
  BY <1>1, <1>3 DEF ExecutorsInv, StateOK
<1>5. /\ faults' \in 0 .. MaxFaults /\ excused' \in SUBSET Jobs
      /\ excused \subseteq excused' /\ work[x].job \in excused'
  BY <1>1, Faulted
<1> QED BY <1>1, <1>2, <1>4, <1>5

LEMMA AdvanceFailed ==
  ASSUME ScheduleAssumption, ExecutorsInv, NEW x \in Executors, AdvanceFails(x)
  PROVE  /\ work[x].stage \in {"advance", "failed"} /\ Eases(x) /\ Keeps(x)
         /\ UNCHANGED <<clock, job, run, store, claimed, repeated, stale, orphaned>>
         /\ faults' \in 0 .. MaxFaults /\ excused' \in SUBSET Jobs
         /\ excused \subseteq excused' /\ work[x].job \in excused'
<1>1. /\ work[x].stage \in {"advance", "failed"} /\ Continue(x) /\ Fault("advanceFails", x)
      /\ UNCHANGED <<clock, job, run, store, claimed, repeated, stale, orphaned>>
  BY DEF AdvanceFails
<1>2. Eases(x) /\ Keeps(x)
  BY <1>1, Continued DEF ExecutorsInv
<1> QED BY <1>1, <1>2, Faulted

\* The clock is read: an executor whose schedule has ended is through with its job, another one
\* keeps the next instant in mind.
ClockWasRead(x, j) ==
  /\ work' \in [Executors -> WorkRecords] /\ UNCHANGED <<batch, excused>> /\ late' = late \ {x}
  /\ work'[x].job = j /\ work'[x].stage = work[x].stage
  /\ work'[x].due = NextScheduledTime(batch[x][j], clock) /\ work'[x].due # NoTime
  /\ \A o \in Executors \ {x} : work'[o] = work[o]

LEMMA ClockRead ==
  ASSUME ScheduleAssumption, ExecutorsInv, NEW x \in Executors, ReadClock(x)
  PROVE  \E j \in Jobs :
           /\ j = work[x].job /\ Held(x, j) /\ work[x].stage \in {"advance", "failed"}
           /\ work[x].due = NoTime
           /\ UNCHANGED <<clock, job, run, store, claimed, repeated, stale, orphaned, faults>>
           /\ \/ /\ Eases(x) /\ Keeps(x) /\ late' = late
                 /\ excused' = excused \cup {j} /\ excused' \in SUBSET Jobs
              \/ ClockWasRead(x, j)
<1>1. work[x].job \in Jobs /\ Held(x, work[x].job)
  BY DEF ReadClock, ExecutorsInv, WorkOK
<1>2. PICK j \in Jobs : j = work[x].job
  BY <1>1
<1> PICK n : n = NextScheduledTime(batch[x][j], clock)
  OBVIOUS
<1>3. /\ work[x].stage \in {"advance", "failed"} /\ work[x].due = NoTime
      /\ UNCHANGED <<clock, job, run, store, claimed, repeated, stale, orphaned, faults>>
      /\ n = NoTime => Continue(x) /\ excused' = excused \cup {j} /\ late' = late
      /\ n # NoTime => /\ work' = [work EXCEPT ![x].due = n] /\ late' = late \ {x}
                       /\ UNCHANGED <<batch, excused>>
  BY <1>2 DEF ReadClock
<1>4. work \in [Executors -> WorkRecords] /\ clock \in 0 .. MaxTime /\ excused \in SUBSET Jobs
  BY TypesAre DEF ExecutorsInv
<1>5. CASE n = NoTime
  <2>1. Eases(x) /\ Keeps(x)
    BY <1>3, <1>5, Continued DEF ExecutorsInv
  <2>2. excused' = excused \cup {j} /\ excused' \in SUBSET Jobs
    BY <1>3, <1>4, <1>5
  <2> QED BY <1>1, <1>2, <1>3, <1>5, <2>1, <2>2
<1>6. CASE n # NoTime
  <2>1. n \in Nat
    <3>1. batch[x][j] \in Schedules
      BY <1>1, <1>2, CopyIs DEF ExecutorsInv
    <3> QED BY <1>4, <3>1, NextIs
  <2>2. /\ work' \in [Executors -> WorkRecords]
        /\ work'[x].job = j /\ work'[x].stage = work[x].stage /\ work'[x].due = n
        /\ \A o \in Executors \ {x} : work'[o] = work[o]
    BY <1>2, <1>3, <1>4, <1>6, <2>1 DEF WorkRecords
  <2>3. ClockWasRead(x, j)
    BY <1>3, <1>6, <2>2 DEF ClockWasRead
  <2> QED BY <1>1, <1>2, <1>3, <2>3
<1> QED BY <1>5, <1>6

\* The job moves on to the instant its executor has in mind, or is gone.
LEMMA Advanced ==
  ASSUME ScheduleAssumption, ExecutorsInv, NEW x \in Executors, Advance(x)
  PROVE  \E j \in Jobs :
           /\ j = work[x].job /\ Held(x, j) /\ work[x].stage \in {"advance", "failed"}
           /\ work[x].due # NoTime
           /\ Eases(x) /\ Keeps(x) /\ late' = late \cup Overtaken(x, j)
           /\ UNCHANGED <<clock, run, store, claimed, repeated, excused, stale, orphaned, faults>>
           /\ job' \in [Jobs -> JobRecords] /\ \A i \in Jobs \ {j} : job'[i] = job[i]
           /\ job'[j].state = job[j].state /\ job'[j].sched = job[j].sched
           /\ \/ Exists(j) /\ job'[j].next = work[x].due
              \/ job' = job /\ ~Exists(j)
<1>1. work[x].job \in Jobs /\ Held(x, work[x].job)
  BY DEF Advance, ExecutorsInv, WorkOK
<1>2. PICK j \in Jobs : j = work[x].job
  BY <1>1
<1> PICK n : n = work[x].due
  OBVIOUS
<1>3. /\ work[x].stage \in {"advance", "failed"} /\ n # NoTime /\ Continue(x)
      /\ job' = IF Exists(j) THEN [job EXCEPT ![j].next = n] ELSE job
      /\ late' = late \cup Overtaken(x, j)
      /\ UNCHANGED <<clock, run, store, claimed, repeated, excused, stale, orphaned, faults>>
  BY <1>2 DEF Advance
<1>4. Eases(x) /\ Keeps(x)
  BY <1>3, Continued DEF ExecutorsInv
<1>5. job \in [Jobs -> JobRecords] /\ work \in [Executors -> WorkRecords]
  BY TypesAre DEF ExecutorsInv
<1>6. n \in Nat
  BY <1>5 DEF WorkRecords
<1>7. CASE ~Exists(j)
  <2>1. job' = job
    BY <1>3, <1>7
  <2> QED BY <1>1, <1>2, <1>3, <1>4, <1>5, <1>7, <2>1
<1>8. CASE Exists(j)
  <2>1. job' = [job EXCEPT ![j].next = n]
    BY <1>3, <1>8
  <2>2. /\ job' \in [Jobs -> JobRecords] /\ \A i \in Jobs \ {j} : job'[i] = job[i]
        /\ job'[j].state = job[j].state /\ job'[j].sched = job[j].sched /\ job'[j].next = n
    BY <1>5, <1>6, <2>1 DEF JobRecords
  <2> QED BY <1>1, <1>2, <1>3, <1>4, <1>8, <2>2
<1> QED BY <1>7, <1>8

LEMMA Broken ==
  ASSUME ScheduleAssumption, ExecutorsInv, NEW x \in Executors, Interrupted(x)
  PROVE  /\ Eases(x) /\ work'[x].stage = "idle" /\ DOMAIN batch'[x] = {}
         /\ UNCHANGED <<clock, job, run, store, claimed, repeated, stale>>
         /\ faults' \in 0 .. MaxFaults
         /\ excused' = excused \cup DOMAIN batch[x] /\ excused' \in SUBSET Jobs
         /\ orphaned' \in SUBSET Runs /\ orphaned \subseteq orphaned'
         /\ work[x].stage = "running" => work[x].row \in orphaned'
<1>1. /\ faults' = faults + 1 /\ faults < MaxFaults /\ excused' = excused \cup DOMAIN batch[x]
      /\ orphaned' = IF work[x].stage = "running" THEN orphaned \cup {work[x].row} ELSE orphaned
      /\ batch' = [batch EXCEPT ![x] = <<>>] /\ work' = [work EXCEPT ![x] = Idle]
      /\ UNCHANGED <<clock, job, run, store, claimed, repeated, stale>>
  BY DEF Interrupted
<1>2. batch \in [Executors -> Batches] /\ work \in [Executors -> WorkRecords]
  BY TypesAre DEF ExecutorsInv
<1>3. /\ batch' \in [Executors -> Batches] /\ DOMAIN batch'[x] = {}
      /\ \A o \in Executors \ {x} : batch'[o] = batch[o]
  BY <1>1, <1>2, EmptyBatch
<1>4. /\ work' \in [Executors -> WorkRecords] /\ work'[x].stage = "idle" /\ work'[x].due = NoTime
      /\ \A o \in Executors \ {x} : work'[o] = work[o]
  BY <1>1, <1>2, IdleIs
<1>5. Eases(x)
  BY <1>3, <1>4 DEF Eases
<1>6. faults' \in 0 .. MaxFaults
  BY <1>1 DEF ExecutorsInv, StateOK, ScheduleAssumption
<1>7. excused' \in SUBSET Jobs
  BY <1>1, CopyIs DEF ExecutorsInv, StateOK, Held
<1>8. /\ orphaned' \in SUBSET Runs /\ orphaned \subseteq orphaned'
      /\ work[x].stage = "running" => work[x].row \in orphaned'
  BY <1>1 DEF ExecutorsInv, WorkOK, StateOK
<1> QED BY <1>1, <1>3, <1>4, <1>5, <1>6, <1>7, <1>8

LEMMA LeavingExecutors ==
  ASSUME ScheduleAssumption, ExecutorsInv, NEW x \in Executors,
         CreateRunFails(x) \/ FinishRunFails(x) \/ Advance(x) \/ AdvanceFails(x) \/ Interrupted(x)
  PROVE  ExecutorsInv'
<1>1. /\ job \in [Jobs -> JobRecords] /\ orphaned \in SUBSET Runs /\ faults \in 0 .. MaxFaults
      /\ excused \in SUBSET Jobs /\ SavedOK
  BY TypesAre DEF ExecutorsInv
<1>2. CASE CreateRunFails(x)
  <2>1. /\ work[x].stage = "create" /\ Eases(x)
        /\ UNCHANGED <<clock, job, run, store, claimed, repeated, stale, orphaned>>
        /\ faults' \in 0 .. MaxFaults /\ excused' \in SUBSET Jobs
    BY <1>2, CreateRunFailed
  <2>2. SavedOK' /\ job' \in [Jobs -> JobRecords] /\ orphaned' \in SUBSET Runs
    BY <1>1, <2>1 DEF SavedOK
  <2> QED BY <2>1, <2>2, EaseExecutors
<1>3. CASE FinishRunFails(x)
  <2>1. /\ work[x].stage = "running" /\ Eases(x)
        /\ UNCHANGED <<clock, job, run, store, claimed, repeated, stale>>
        /\ faults' \in 0 .. MaxFaults /\ excused' \in SUBSET Jobs /\ orphaned' \in SUBSET Runs
    BY <1>3, FinishRunFailed
  <2>2. SavedOK' /\ job' \in [Jobs -> JobRecords]
    BY <1>1, <2>1 DEF SavedOK
  <2> QED BY <2>1, <2>2, EaseExecutors
<1>4. CASE Advance(x)
  <2>1. PICK j \in Jobs :
          /\ work[x].stage \in {"advance", "failed"} /\ Eases(x)
          /\ UNCHANGED <<clock, run, store, claimed, repeated, excused, stale, orphaned, faults>>
          /\ job' \in [Jobs -> JobRecords] /\ \A i \in Jobs \ {j} : job'[i] = job[i]
          /\ job'[j].state = job[j].state /\ job'[j].sched = job[j].sched
    BY <1>4, Advanced
  <2>2. SavedOK' /\ orphaned' \in SUBSET Runs /\ faults' \in 0 .. MaxFaults /\ excused' \in SUBSET Jobs
    BY <1>1, <2>1 DEF SavedOK
  <2> QED BY <2>1, <2>2, EaseExecutors
<1>5. CASE AdvanceFails(x)
  <2>1. /\ work[x].stage \in {"advance", "failed"} /\ Eases(x)
        /\ UNCHANGED <<clock, job, run, store, claimed, repeated, stale, orphaned>>
        /\ faults' \in 0 .. MaxFaults /\ excused' \in SUBSET Jobs
    BY <1>5, AdvanceFailed
  <2>2. SavedOK' /\ job' \in [Jobs -> JobRecords] /\ orphaned' \in SUBSET Runs
    BY <1>1, <2>1 DEF SavedOK
  <2> QED BY <2>1, <2>2, EaseExecutors
<1>6. CASE Interrupted(x)
  <2>1. /\ work'[x].stage = "idle" /\ Eases(x)
        /\ UNCHANGED <<clock, job, run, store, claimed, repeated, stale>>
        /\ faults' \in 0 .. MaxFaults /\ excused' \in SUBSET Jobs /\ orphaned' \in SUBSET Runs
    BY <1>6, Broken
  <2>2. SavedOK' /\ job' \in [Jobs -> JobRecords]
    BY <1>1, <2>1 DEF SavedOK
  <2> QED BY <2>1, <2>2, EaseExecutors
<1> QED BY <1>2, <1>3, <1>4, <1>5, <1>6

LEMMA ClockExecutors ==
  ASSUME ScheduleAssumption, ExecutorsInv, NEW x \in Executors, ReadClock(x) PROVE ExecutorsInv'
<1>1. PICK j \in Jobs :
        /\ j = work[x].job /\ Held(x, j) /\ work[x].stage \in {"advance", "failed"}
        /\ UNCHANGED <<clock, job, run, store, claimed, repeated, stale, orphaned, faults>>
        /\ \/ Eases(x) /\ excused' \in SUBSET Jobs
           \/ ClockWasRead(x, j)
  BY ClockRead
<1>2. /\ job \in [Jobs -> JobRecords] /\ orphaned \in SUBSET Runs /\ faults \in 0 .. MaxFaults
      /\ excused \in SUBSET Jobs /\ SavedOK /\ batch \in [Executors -> Batches] /\ StateOK
  BY TypesAre DEF ExecutorsInv
<1>3. SavedOK'
  BY <1>1, <1>2 DEF SavedOK
<1>4. CASE Eases(x) /\ excused' \in SUBSET Jobs
  <2>1. job' \in [Jobs -> JobRecords] /\ orphaned' \in SUBSET Runs /\ faults' \in 0 .. MaxFaults
    BY <1>1, <1>2
  <2> QED BY <1>1, <1>3, <1>4, <2>1, EaseExecutors
<1>5. CASE ClockWasRead(x, j)
  <2>1. StateOK'
    BY <1>1, <1>2, <1>5 DEF StateOK, ClockWasRead
  <2>2. ASSUME NEW o \in Executors
        PROVE  /\ work'[o].stage # "idle" => work'[o].job \in Jobs /\ Held(o, work[o].job)'
               /\ work'[o].stage = "running" =>
                    /\ work'[o].row \in Runs
                    /\ run'[work'[o].row].status # "none" /\ run'[work'[o].row].job = work'[o].job
    <3>1. CASE o = x
      BY <1>1, <1>5, <3>1 DEF ClockWasRead, Held
    <3>2. CASE o # x
      BY <1>1, <1>5, <3>2 DEF ClockWasRead, ExecutorsInv, WorkOK, Held
    <3> QED BY <3>1, <3>2
  <2> QED BY <1>3, <2>1, <2>2 DEF ExecutorsInv, WorkOK
<1> QED BY <1>1, <1>4, <1>5

LEMMA Dumped ==
  ASSUME ScheduleAssumption, ExecutorsInv, NEW x \in Executors, DumpAndStore(x)
  PROVE  /\ work' \in [Executors -> WorkRecords] /\ store' \in [Keys -> Jobs \cup {NoJob}]
         /\ work[x].stage = "running" /\ work[x].job \in BackupJobs /\ clock \in Times
         /\ work'[x].stage = "running" /\ work'[x].job = work[x].job /\ work'[x].row = work[x].row
         /\ work'[x].stamp = clock
         /\ \A o \in Executors \ {x} : work'[o] = work[o]
         /\ store' = [store EXCEPT ![<<clock, KeyName(work[x].job)>>] = work[x].job]
         /\ UNCHANGED <<clock, job, run, batch, history>>
<1>1. /\ work[x].stage = "running" /\ work[x].job \in BackupJobs /\ clock \in Times
      /\ work' = [work EXCEPT ![x].stamp = clock]
      /\ store' = [store EXCEPT ![<<clock, KeyName(work[x].job)>>] = work[x].job]
      /\ UNCHANGED <<clock, job, run, batch, history>>
  BY DEF DumpAndStore
<1>2. /\ work \in [Executors -> WorkRecords] /\ store \in [Keys -> Jobs \cup {NoJob}]
  BY TypesAre DEF ExecutorsInv
<1>3. /\ work' \in [Executors -> WorkRecords]
      /\ work'[x].stage = work[x].stage /\ work'[x].job = work[x].job /\ work'[x].row = work[x].row
      /\ work'[x].stamp = clock
      /\ \A o \in Executors \ {x} : work'[o] = work[o]
  BY <1>1, <1>2 DEF WorkRecords
<1>4. store' \in [Keys -> Jobs \cup {NoJob}]
  <2>1. work[x].job \in Jobs
    BY <1>1 DEF Jobs
  <2> HIDE DEF Keys
  <2> QED BY <1>1, <1>2, <2>1
<1> QED BY <1>1, <1>3, <1>4

LEMMA DumpExecutors ==
  ASSUME ScheduleAssumption, ExecutorsInv, NEW x \in Executors, DumpAndStore(x) PROVE ExecutorsInv'
<1>1. /\ work' \in [Executors -> WorkRecords] /\ store' \in [Keys -> Jobs \cup {NoJob}]
      /\ work[x].stage = "running"
      /\ work'[x].stage = "running" /\ work'[x].job = work[x].job /\ work'[x].row = work[x].row
      /\ \A o \in Executors \ {x} : work'[o] = work[o]
      /\ UNCHANGED <<clock, job, run, batch, history>>
  BY Dumped
<1>2. StateOK'
  <2>1. /\ clock' \in 0 .. MaxTime
        /\ job' \in [Jobs -> JobRecords] /\ run' \in [Runs -> RunRecords] /\ batch' \in [Executors -> Batches]
        /\ claimed' \in [Jobs -> Nat]
        /\ repeated' \in SUBSET Jobs /\ excused' \in SUBSET Jobs /\ stale' \in SUBSET Jobs
        /\ orphaned' \in SUBSET Runs /\ faults' \in 0 .. MaxFaults
    BY <1>1, TypesAre DEF ExecutorsInv, history
  <2> QED BY <1>1, <2>1, TypesBecome
<1>3. SavedOK'
  BY <1>1 DEF ExecutorsInv, SavedOK
<1>4. WorkOK'
  <2>1. \A o \in Executors : /\ work'[o].stage = work[o].stage /\ work'[o].job = work[o].job
                             /\ work'[o].row = work[o].row
    BY <1>1
  <2> QED BY <1>1, <2>1 DEF ExecutorsInv, WorkOK, Held
<1> QED BY <1>2, <1>3, <1>4 DEF ExecutorsInv

\* The row of a run gets its result and its stamp, unless it went with its job.
LEMMA Finished ==
  ASSUME ExecutorsInv, NEW x \in Executors, FinishRun(x)
  PROVE  \E k \in Runs, result \in {"success", "error"} :
           /\ run' \in [Runs -> RunRecords] /\ work' \in [Executors -> WorkRecords]
           /\ work[x].stage = "running" /\ work[x].row = k /\ work'[x].stage \in {"advance", "failed"}
           /\ work'[x].job = work[x].job
           /\ work[x].job \in BackupJobs => (result = "success" <=> work[x].stamp # NoTime)
           /\ \A o \in Executors \ {x} : work'[o] = work[o]
           /\ run[k].job = work[x].job /\ run'[k].job = run[k].job
           /\ \/ run'[k].status = result /\ run'[k].stamp = work[x].stamp
              \/ run'[k].status = "deleted"
           /\ \A i \in Runs \ {k} : run'[i] = run[i]
           /\ UNCHANGED <<clock, job, store, batch, history>>
<1> PICK k : k = work[x].row
  OBVIOUS
<1> PICK stamp : stamp = work[x].stamp
  OBVIOUS
<1>1. PICK result \in {"success", "error"} :
        /\ work[x].job \in BackupJobs => (result = "success" <=> work[x].stamp # NoTime)
        /\ run' = [run EXCEPT ![k] =
                     IF run[k].status = "deleted" THEN run[k]
                     ELSE [run[k] EXCEPT !.status = result, !.stamp = stamp]]
        /\ work' = [work EXCEPT ![x].stage = IF result = "success" THEN "advance" ELSE "failed"]
  BY DEF FinishRun
<1>2. work[x].stage = "running" /\ UNCHANGED <<clock, job, store, batch, history>>
  BY DEF FinishRun
<1>3. run \in [Runs -> RunRecords] /\ work \in [Executors -> WorkRecords]
  BY TypesAre DEF ExecutorsInv
<1>4. k \in Runs /\ run[k].job = work[x].job
  BY <1>2 DEF ExecutorsInv, WorkOK
<1>5. stamp \in Times \cup {NoTime}
  BY <1>3 DEF WorkRecords
<1>6. PICK to \in {"advance", "failed"} : work' = [work EXCEPT ![x].stage = to]
  BY <1>1
<1>7. /\ work' \in [Executors -> WorkRecords] /\ work'[x].stage = to /\ work'[x].job = work[x].job
      /\ \A o \in Executors \ {x} : work'[o] = work[o]
  BY <1>3, <1>6 DEF WorkRecords
<1>8. CASE run[k].status = "deleted"
  <2>1. run' = run
    BY <1>1, <1>3, <1>4, <1>8
  <2> QED BY <1>1, <1>2, <1>3, <1>4, <1>7, <1>8, <2>1
<1>9. CASE run[k].status # "deleted"
  <2> DEFINE r == [run[k] EXCEPT !.status = result, !.stamp = stamp]
  <2>1. r \in RunRecords /\ r.job = run[k].job /\ r.status = result /\ r.stamp = stamp
    BY <1>3, <1>4, <1>5 DEF RunRecords
  <2>2. run' = [run EXCEPT ![k] = r]
    BY <1>1, <1>9
  <2> HIDE DEF r
  <2>3. run' \in [Runs -> RunRecords] /\ run'[k] = r /\ \A i \in Runs \ {k} : run'[i] = run[i]
    BY <1>3, <1>4, <2>1, <2>2
  <2> QED BY <1>1, <1>2, <1>4, <1>7, <2>1, <2>3
<1> QED BY <1>8, <1>9

LEMMA FinishExecutors ==
  ASSUME ScheduleAssumption, ExecutorsInv, NEW x \in Executors, FinishRun(x) PROVE ExecutorsInv'
<1>1. PICK k \in Runs, result \in {"success", "error"} :
        /\ run' \in [Runs -> RunRecords] /\ work' \in [Executors -> WorkRecords]
        /\ work[x].stage = "running" /\ work'[x].stage \in {"advance", "failed"}
        /\ work'[x].job = work[x].job
        /\ \A o \in Executors \ {x} : work'[o] = work[o]
        /\ run'[k].job = run[k].job /\ run'[k].status \in {result, "deleted"}
        /\ \A i \in Runs \ {k} : run'[i] = run[i]
        /\ UNCHANGED <<clock, job, store, batch, history>>
  BY Finished
<1>2. StateOK'
  <2>1. StateOK /\ job' \in [Jobs -> JobRecords] /\ batch' \in [Executors -> Batches]
    BY <1>1, TypesAre DEF ExecutorsInv
  <2> QED BY <1>1, <2>1, TypesStand
<1>3. SavedOK'
  BY <1>1 DEF ExecutorsInv, SavedOK
<1>4. WorkOK'
  <2>1. \A i \in Runs : run[i].status # "none" => run'[i].status # "none" /\ run'[i].job = run[i].job
    BY <1>1
  <2>2. /\ work'[x].stage # "running" /\ work[x].stage # "idle" /\ work'[x].job = work[x].job
        /\ batch' = batch /\ \A o \in Executors \ {x} : work'[o] = work[o]
    BY <1>1
  <2>3. ASSUME NEW o \in Executors
        PROVE  /\ work'[o].stage # "idle" => work'[o].job \in Jobs /\ Held(o, work[o].job)'
               /\ work'[o].stage = "running" =>
                    /\ work'[o].row \in Runs
                    /\ run'[work'[o].row].status # "none" /\ run'[work'[o].row].job = work'[o].job
    <3>1. CASE o = x
      BY <2>2, <3>1 DEF ExecutorsInv, WorkOK, Held
    <3>2. CASE o # x
      BY <2>1, <2>2, <3>2 DEF ExecutorsInv, WorkOK, Held
    <3> QED BY <3>1, <3>2
  <2> QED BY <2>3 DEF WorkOK
<1> QED BY <1>2, <1>3, <1>4 DEF ExecutorsInv

LEMMA ExecutorsStand == ASSUME ExecutorsInv, UNCHANGED vars PROVE ExecutorsInv'
<1>1. UNCHANGED <<clock, job, run, store, batch, work, history>>
  BY DEF vars
<1>2. StateOK' /\ SavedOK' /\ WorkOK'
  BY <1>1, WorkStands DEF ExecutorsInv, StateOK, SavedOK, history
<1> QED BY <1>2 DEF ExecutorsInv

LEMMA ExecutorsPreserved ==
  ASSUME ScheduleAssumption, ExecutorsInv, [Next]_vars PROVE ExecutorsInv'
<1>1. CASE Tick
  BY <1>1, TickExecutors
<1>2. ASSUME NEW j \in Jobs, NEW s \in Schedules, NEW to \in {"enabled", "disabled"},
             CreateJob(j, s, to) \/ UpdateCronJob(j, s, to)
      PROVE  ExecutorsInv'
  BY <1>2, SaveExecutors
<1>3. ASSUME NEW j \in Jobs, DeleteCronJob(j) PROVE ExecutorsInv'
  BY <1>3, DeleteExecutors
<1>4. ASSUME NEW x \in Executors, NEW j \in Jobs, RunJob(x, j) PROVE ExecutorsInv'
  BY <1>4, RunJobExecutors
<1>5. ASSUME NEW x \in Executors, NEW kind \in {CronJobs, BackupJobs}, Claim(x, kind) PROVE ExecutorsInv'
  BY <1>5, ClaimExecutors
<1>6. ASSUME NEW x \in Executors, Execute(x) \/ Interrupted(x) PROVE ExecutorsInv'
  BY <1>6, BeginExecutors, CreateRunExecutors, DumpExecutors, FinishExecutors, ClockExecutors,
     LeavingExecutors DEF Execute
<1>7. CASE UNCHANGED vars
  BY <1>7, ExecutorsStand
<1> QED BY <1>1, <1>2, <1>3, <1>4, <1>5, <1>6, <1>7 DEF Next

------------------------------------------------------------------------------
(* The runs and the dumps *)

LEMMA RunsInitially == ASSUME ScheduleAssumption, Init PROVE RunsInv
<1>1. \A k \in Runs : run[k].status = "none"
  BY DEF Init
<1>2. \A x \in Executors : work[x].stage = "idle"
  BY IdleIs DEF Init
<1> QED BY <1>1, <1>2 DEF RunsInv, RunningIsExecuted, StampsOK, DumpsOK, DumpIsOwn

LEMMA RunsStand ==
  ASSUME RunsInv, UNCHANGED <<store, work, orphaned>>,
         \A k \in Runs : run'[k] = run[k] \/ run'[k].status = "deleted"
  PROVE  RunsInv'
<1>1. RunningIsExecuted'
  BY DEF RunsInv, RunningIsExecuted
<1>2. StampsOK' /\ DumpsOK'
  BY DEF RunsInv, StampsOK, DumpsOK
<1>3. DumpIsOwn'
  BY DEF RunsInv, DumpIsOwn
<1> QED BY <1>1, <1>2, <1>3 DEF RunsInv

LEMMA RunsEased ==
  ASSUME ScheduleAssumption, RunsInv, NEW x \in Executors, Eases(x), UNCHANGED <<run, store>>,
         orphaned \subseteq orphaned', work[x].stage = "running" => work[x].row \in orphaned'
  PROVE  RunsInv'
<1>1. RunningIsExecuted'
  <2> SUFFICES ASSUME NEW k \in Runs, run'[k].status = "running", k \notin orphaned'
               PROVE  \E o \in Executors : work'[o].stage = "running" /\ work'[o].row = k
    BY DEF RunningIsExecuted
  <2>1. PICK o \in Executors : work[o].stage = "running" /\ work[o].row = k
    BY DEF RunsInv, RunningIsExecuted
  <2>2. o # x
    BY <2>1
  <2> QED BY <2>1, <2>2 DEF Eases
<1>2. StampsOK' /\ DumpIsOwn'
  BY DEF RunsInv, StampsOK, DumpIsOwn
<1>3. DumpsOK'
  <2> SUFFICES ASSUME NEW o \in Executors,
                      work'[o].stage \in {"create", "running"}, work'[o].job \in BackupJobs,
                      work'[o].stamp # NoTime, NameIsOwn(work'[o].job)
               PROVE  store'[<<work'[o].stamp, KeyName(work'[o].job)>>] = work'[o].job
    BY DEF DumpsOK
  <2>1. o # x
    BY DEF Eases, ScheduleAssumption
  <2> QED BY <2>1 DEF Eases, RunsInv, DumpsOK
<1> QED BY <1>1, <1>2, <1>3 DEF RunsInv

LEMMA BeginRuns ==
  ASSUME ScheduleAssumption, ExecutorsInv, RunsInv, NEW x \in Executors, Begin(x) PROVE RunsInv'
<1>1. /\ work[x].stage = "idle" /\ work'[x].stage = "create" /\ work'[x].stamp = NoTime
      /\ \A o \in Executors \ {x} : work'[o] = work[o]
      /\ UNCHANGED <<run, store, orphaned>>
  BY Began DEF history
<1>2. RunningIsExecuted'
  <2>1. \A o \in Executors : work[o].stage = "running" => work'[o] = work[o]
    BY <1>1
  <2> QED BY <1>1, <2>1 DEF RunsInv, RunningIsExecuted
<1>3. StampsOK' /\ DumpIsOwn'
  BY <1>1 DEF RunsInv, StampsOK, DumpIsOwn
<1>4. DumpsOK'
  <2>1. \A o \in Executors : work'[o].stamp # NoTime => work'[o] = work[o]
    BY <1>1
  <2> QED BY <1>1, <2>1 DEF RunsInv, DumpsOK
<1> QED BY <1>2, <1>3, <1>4 DEF RunsInv

LEMMA CreateRunRuns ==
  ASSUME ExecutorsInv, RunsInv, NEW x \in Executors, CreateRun(x) PROVE RunsInv'
<1>1. PICK k \in Runs :
        /\ run[k].status = "none" /\ run'[k].status = "running"
        /\ \A i \in Runs \ {k} : run'[i] = run[i]
        /\ work[x].stage = "create" /\ work'[x].stage = "running" /\ work'[x].row = k
        /\ work'[x].job = work[x].job /\ work'[x].stamp = work[x].stamp
        /\ \A o \in Executors \ {x} : work'[o] = work[o]
        /\ UNCHANGED <<store, orphaned>>
  BY RunCreated DEF history
<1>2. RunningIsExecuted'
  <2> SUFFICES ASSUME NEW i \in Runs, run'[i].status = "running", i \notin orphaned'
               PROVE  \E o \in Executors : work'[o].stage = "running" /\ work'[o].row = i
    BY DEF RunningIsExecuted
  <2>1. CASE i = k
    BY <1>1, <2>1
  <2>2. CASE i # k
    <3>1. PICK o \in Executors : work[o].stage = "running" /\ work[o].row = i
      BY <1>1, <2>2 DEF RunsInv, RunningIsExecuted
    <3>2. o # x
      BY <1>1, <3>1
    <3> QED BY <1>1, <3>1, <3>2
  <2> QED BY <2>1, <2>2
<1>3. StampsOK' /\ DumpIsOwn'
  <2>1. \A i \in Runs : run'[i].status = "success" => run'[i] = run[i]
    BY <1>1
  <2> QED BY <1>1, <2>1 DEF RunsInv, StampsOK, DumpIsOwn
<1>4. DumpsOK'
  <2> SUFFICES ASSUME NEW o \in Executors,
                      work'[o].stage \in {"create", "running"}, work'[o].job \in BackupJobs,
                      work'[o].stamp # NoTime, NameIsOwn(work'[o].job)
               PROVE  store'[<<work'[o].stamp, KeyName(work'[o].job)>>] = work'[o].job
    BY DEF DumpsOK
  <2>1. /\ work[o].stage \in {"create", "running"} /\ work'[o].job = work[o].job
        /\ work'[o].stamp = work[o].stamp
    BY <1>1
  <2> QED BY <1>1, <2>1 DEF RunsInv, DumpsOK
<1> QED BY <1>2, <1>3, <1>4 DEF RunsInv

\* A dump goes under a key of its own job, and overwrites none of another as long as names differ.
LEMMA DumpRuns ==
  ASSUME ScheduleAssumption, ExecutorsInv, RunsInv, NEW x \in Executors, DumpAndStore(x) PROVE RunsInv'
<1> PICK b : b = work[x].job
  OBVIOUS
<1>1. /\ work[x].stage = "running" /\ b \in BackupJobs /\ clock \in Times
      /\ work'[x].stage = "running" /\ work'[x].job = b /\ work'[x].row = work[x].row
      /\ work'[x].stamp = clock
      /\ \A o \in Executors \ {x} : work'[o] = work[o]
      /\ store' = [store EXCEPT ![<<clock, KeyName(b)>>] = b]
      /\ UNCHANGED <<run, orphaned>>
  BY Dumped DEF history
<1>2. store \in [Keys -> Jobs \cup {NoJob}]
  BY TypesAre DEF ExecutorsInv
<1>3. RunningIsExecuted'
  <2>1. \A o \in Executors : work'[o].stage = work[o].stage /\ work'[o].row = work[o].row
    BY <1>1
  <2> QED BY <1>1, <2>1 DEF RunsInv, RunningIsExecuted
<1>4. StampsOK'
  BY <1>1 DEF RunsInv, StampsOK
<1>5. ASSUME NEW a \in BackupJobs, NameIsOwn(a), NEW t \in Times, store[<<t, KeyName(a)>>] = a \/ (t = clock /\ a = b)
      PROVE  store'[<<t, KeyName(a)>>] = a
  <2>1. <<t, KeyName(a)>> \in Keys
    BY DEF Keys
  <2>2. CASE <<t, KeyName(a)>> = <<clock, KeyName(b)>>
    <3>1. a = b
      BY <1>1, <1>5, <2>2 DEF NameIsOwn
    <3> QED BY <1>1, <1>2, <2>1, <2>2, <3>1
  <2>3. CASE <<t, KeyName(a)>> # <<clock, KeyName(b)>>
    <3>1. store'[<<t, KeyName(a)>>] = store[<<t, KeyName(a)>>]
      BY <1>1, <1>2, <2>1, <2>3
    <3> QED BY <1>5, <2>3, <3>1
  <2> QED BY <2>2, <2>3
<1>6. DumpsOK'
  <2> SUFFICES ASSUME NEW o \in Executors,
                      work'[o].stage \in {"create", "running"}, work'[o].job \in BackupJobs,
                      work'[o].stamp # NoTime, NameIsOwn(work'[o].job)
               PROVE  store'[<<work'[o].stamp, KeyName(work'[o].job)>>] = work'[o].job
    BY DEF DumpsOK
  <2>1. CASE o = x
    BY <1>1, <1>5, <2>1
  <2>2. CASE o # x
    <3>1. work'[o] = work[o] /\ work[o].stamp \in Times
      BY <1>1, <2>2, TypesAre DEF ExecutorsInv, WorkRecords
    <3>2. store[<<work[o].stamp, KeyName(work[o].job)>>] = work[o].job
      BY <3>1 DEF RunsInv, DumpsOK
    <3> QED BY <1>5, <3>1, <3>2
  <2> QED BY <2>1, <2>2
<1>7. DumpIsOwn'
  <2> SUFFICES ASSUME NEW k \in Runs, run'[k].status = "success",
                      run'[k].job \in BackupJobs, NameIsOwn(run'[k].job)
               PROVE  store'[<<run'[k].stamp, KeyName(run'[k].job)>>] = run'[k].job
    BY DEF DumpIsOwn
  <2>1. run'[k] = run[k] /\ run[k].stamp \in Times
    BY <1>1 DEF RunsInv, StampsOK
  <2>2. store[<<run[k].stamp, KeyName(run[k].job)>>] = run[k].job
    BY <2>1 DEF RunsInv, DumpIsOwn
  <2> QED BY <1>5, <2>1, <2>2
<1> QED BY <1>3, <1>4, <1>6, <1>7 DEF RunsInv

LEMMA FinishRuns ==
  ASSUME ScheduleAssumption, ExecutorsInv, RunsInv, NEW x \in Executors, FinishRun(x) PROVE RunsInv'
<1>1. PICK k \in Runs, result \in {"success", "error"} :
        /\ work[x].stage = "running" /\ work[x].row = k /\ work'[x].stage \in {"advance", "failed"}
        /\ work[x].job \in BackupJobs => (result = "success" <=> work[x].stamp # NoTime)
        /\ \A o \in Executors \ {x} : work'[o] = work[o]
        /\ run[k].job = work[x].job /\ run'[k].job = run[k].job
        /\ \/ run'[k].status = result /\ run'[k].stamp = work[x].stamp
           \/ run'[k].status = "deleted"
        /\ \A i \in Runs \ {k} : run'[i] = run[i]
        /\ UNCHANGED <<store, orphaned>>
  BY Finished DEF history
<1>2. RunningIsExecuted'
  <2> SUFFICES ASSUME NEW i \in Runs, run'[i].status = "running", i \notin orphaned'
               PROVE  \E o \in Executors : work'[o].stage = "running" /\ work'[o].row = i
    BY DEF RunningIsExecuted
  <2>1. i # k
    BY <1>1
  <2>2. PICK o \in Executors : work[o].stage = "running" /\ work[o].row = i
    BY <1>1, <2>1 DEF RunsInv, RunningIsExecuted
  <2>3. o # x
    BY <1>1, <2>1, <2>2
  <2> QED BY <1>1, <2>2, <2>3
<1>3. ASSUME NEW i \in Runs, run'[i].status = "success", run'[i].job \in BackupJobs
      PROVE  \/ run'[i] = run[i]
             \/ /\ run'[i].stamp = work[x].stamp /\ run'[i].job = work[x].job
                /\ work[x].stamp # NoTime
  BY <1>1, <1>3
<1>4. work[x].stamp \in Times \cup {NoTime}
  BY TypesAre DEF ExecutorsInv, WorkRecords
<1>5. StampsOK'
  BY <1>3, <1>4 DEF RunsInv, StampsOK
<1>6. DumpsOK'
  <2>1. \A o \in Executors : work'[o].stage \in {"create", "running"} => work'[o] = work[o]
    BY <1>1
  <2> QED BY <1>1, <2>1 DEF RunsInv, DumpsOK
<1>7. DumpIsOwn'
  <2> SUFFICES ASSUME NEW i \in Runs, run'[i].status = "success",
                      run'[i].job \in BackupJobs, NameIsOwn(run'[i].job)
               PROVE  store'[<<run'[i].stamp, KeyName(run'[i].job)>>] = run'[i].job
    BY DEF DumpIsOwn
  <2>1. CASE run'[i] = run[i]
    BY <1>1, <2>1 DEF RunsInv, DumpIsOwn
  <2>2. CASE run'[i] # run[i]
    <3>1. run'[i].stamp = work[x].stamp /\ run'[i].job = work[x].job /\ work[x].stamp # NoTime
      BY <1>3, <2>2
    <3>2. store[<<work[x].stamp, KeyName(work[x].job)>>] = work[x].job
      BY <1>1, <3>1 DEF RunsInv, DumpsOK
    <3> QED BY <1>1, <3>1, <3>2
  <2> QED BY <2>1, <2>2
<1> QED BY <1>2, <1>5, <1>6, <1>7 DEF RunsInv

LEMMA ClockRuns ==
  ASSUME ScheduleAssumption, ExecutorsInv, RunsInv, NEW x \in Executors, ReadClock(x) PROVE RunsInv'
<1>1. PICK j \in Jobs :
        /\ work[x].stage \in {"advance", "failed"} /\ UNCHANGED <<run, store, orphaned>>
        /\ Eases(x) \/ ClockWasRead(x, j)
  BY ClockRead
<1>2. CASE Eases(x)
  BY <1>1, <1>2, RunsEased
<1>3. CASE ClockWasRead(x, j)
  <2>1. \A o \in Executors : work[o].stage \in {"create", "running"} \/ work'[o].stage \in {"create", "running"}
                               => work'[o] = work[o]
    BY <1>1, <1>3 DEF ClockWasRead
  <2>2. RunningIsExecuted' /\ DumpsOK'
    BY <1>1, <2>1 DEF RunsInv, RunningIsExecuted, DumpsOK
  <2>3. StampsOK' /\ DumpIsOwn'
    BY <1>1 DEF RunsInv, StampsOK, DumpIsOwn
  <2> QED BY <2>2, <2>3 DEF RunsInv
<1> QED BY <1>1, <1>2, <1>3

LEMMA RunsPreserved ==
  ASSUME ScheduleAssumption, ExecutorsInv, RunsInv, [Next]_vars PROVE RunsInv'
<1>1. CASE Tick
  BY <1>1, RunsStand DEF Tick, history
<1>2. ASSUME NEW j \in Jobs, NEW s \in Schedules, NEW to \in {"enabled", "disabled"},
             CreateJob(j, s, to) \/ UpdateCronJob(j, s, to)
      PROVE  RunsInv'
  <2>1. UNCHANGED <<run, store, work, orphaned>>
    BY <1>2 DEF CreateJob, UpdateCronJob, history
  <2> QED BY <2>1, RunsStand
<1>3. ASSUME NEW j \in Jobs, DeleteCronJob(j) PROVE RunsInv'
  <2>1. UNCHANGED <<store, work, orphaned>>
    BY <1>3 DEF DeleteCronJob, history
  <2>2. run' = [k \in Runs |-> IF run[k].job = j THEN [run[k] EXCEPT !.status = "deleted"] ELSE run[k]]
    BY <1>3 DEF DeleteCronJob
  <2>3. run \in [Runs -> RunRecords]
    BY TypesAre DEF ExecutorsInv
  <2>4. \A k \in Runs : run'[k] = run[k] \/ run'[k].status = "deleted"
    BY <2>2, <2>3 DEF RunRecords
  <2> QED BY <2>1, <2>4, RunsStand
<1>4. ASSUME NEW x \in Executors, NEW j \in Jobs, RunJob(x, j) PROVE RunsInv'
  BY <1>4, RunsStand DEF RunJob, history
<1>5. ASSUME NEW x \in Executors, NEW kind \in {CronJobs, BackupJobs}, Claim(x, kind) PROVE RunsInv'
  <2>1. UNCHANGED <<run, store, work, orphaned>>
    BY <1>5 DEF Claim
  <2> QED BY <2>1, RunsStand
<1>6. ASSUME NEW x \in Executors, Begin(x) \/ CreateRun(x) \/ DumpAndStore(x) \/ FinishRun(x) PROVE RunsInv'
  BY <1>6, BeginRuns, CreateRunRuns, DumpRuns, FinishRuns
<1>7. ASSUME NEW x \in Executors, CreateRunFails(x) PROVE RunsInv'
  BY <1>7, CreateRunFailed, RunsEased
<1>8. ASSUME NEW x \in Executors, FinishRunFails(x) PROVE RunsInv'
  BY <1>8, FinishRunFailed, RunsEased
<1>9. ASSUME NEW x \in Executors, Advance(x) PROVE RunsInv'
  <2>1. /\ work[x].stage \in {"advance", "failed"} /\ Eases(x) /\ UNCHANGED <<run, store, orphaned>>
    BY <1>9, Advanced
  <2> QED BY <2>1, RunsEased
<1>14. ASSUME NEW x \in Executors, ReadClock(x) PROVE RunsInv'
  BY <1>14, ClockRuns
<1>10. ASSUME NEW x \in Executors, AdvanceFails(x) PROVE RunsInv'
  BY <1>10, AdvanceFailed, RunsEased
<1>11. ASSUME NEW x \in Executors, Interrupted(x) PROVE RunsInv'
  BY <1>11, Broken, RunsEased
<1>12. CASE UNCHANGED vars
  BY <1>12, RunsStand DEF vars, history
<1>13. ASSUME NEW x \in Executors, Execute(x) PROVE RunsInv'
  BY <1>13, <1>6, <1>7, <1>8, <1>9, <1>10, <1>14 DEF Execute
<1> QED BY <1>1, <1>2, <1>3, <1>4, <1>5, <1>11, <1>12, <1>13 DEF Next

------------------------------------------------------------------------------
(* The claims *)

LEMMA ClaimsInitially == ASSUME ScheduleAssumption, Init PROVE ClaimsInv
BY DEF Init, ClaimsInv, ClaimedOK, StillHeld, OncePerOccurrence, NoTime, Exists

\* A step claims nothing, and no occurrence that was claimed is left to nobody.
LEMMA ClaimsStand ==
  ASSUME ExecutorsInv, ClaimsInv, clock' \in Nat, clock <= clock', UNCHANGED <<claimed, repeated>>,
         excused \subseteq excused',
         \A j \in Jobs \ excused' :
           Exists(j)' /\ job'[j].next # NoTime /\ job'[j].next = claimed[j] =>
             /\ Exists(j) /\ job[j].next = job'[j].next
             /\ \A x \in Executors : Held(x, j) => \E o \in Executors : Held(o, j)'
  PROVE  ClaimsInv'
<1>1. ClaimedOK'
  <2>1. \A j \in Jobs : claimed[j] \in Nat
    BY DEF ExecutorsInv, StateOK, Times, NoTime
  <2>2. clock \in Nat
    BY DEF ExecutorsInv, StateOK
  <2> QED BY <2>1, <2>2 DEF ClaimsInv, ClaimedOK
<1>2. OncePerOccurrence'
  BY DEF ClaimsInv, OncePerOccurrence
<1>3. StillHeld'
  <2> SUFFICES ASSUME NEW j \in Jobs \ excused', Exists(j)', job'[j].next # NoTime,
                      job'[j].next = claimed'[j]
               PROVE  \E o \in Executors : Held(o, j)'
    BY DEF StillHeld
  <2>1. \E x \in Executors : Held(x, j)
    BY DEF ClaimsInv, StillHeld
  <2> QED BY <2>1
<1> QED BY <1>1, <1>2, <1>3 DEF ClaimsInv

\* The next instant of a schedule is later than any occurrence that was claimed.
LEMMA NextIsNew ==
  ASSUME ScheduleAssumption, ExecutorsInv, ClaimsInv, NEW j \in Jobs, NEW s \in Schedules,
         NextScheduledTime(s, clock) # NoTime
  PROVE  claimed[j] < NextScheduledTime(s, clock)
<1>1. clock \in 0 .. MaxTime /\ claimed[j] \in Nat /\ claimed[j] <= clock
  BY DEF ExecutorsInv, StateOK, ClaimsInv, ClaimedOK
<1>2. NextScheduledTime(s, clock) > clock /\ NextScheduledTime(s, clock) \in Nat
  BY <1>1, NextIs
<1> QED BY <1>1, <1>2 DEF Times, NoTime

LEMMA SaveClaims ==
  ASSUME ScheduleAssumption, ExecutorsInv, ClaimsInv, NEW j \in Jobs, NEW s \in Schedules,
         NEW to \in {"enabled", "disabled"}, CreateJob(j, s, to) \/ UpdateCronJob(j, s, to)
  PROVE  ClaimsInv'
<1>1. SaveJob(j, s, to) /\ UNCHANGED <<clock, batch, claimed, repeated, excused>>
  BY DEF CreateJob, UpdateCronJob, history
<1>2. /\ job'[j].next = NextScheduledTime(s, clock) /\ NextScheduledTime(s, clock) # NoTime
      /\ \A i \in Jobs \ {j} : job'[i] = job[i]
  BY <1>1, Saved DEF ExecutorsInv
<1>3. job'[j].next # claimed[j]
  <2>1. claimed[j] < job'[j].next
    BY <1>2, NextIsNew
  <2> QED BY <2>1 DEF ExecutorsInv, StateOK
<1>4. clock' \in Nat /\ clock <= clock'
  BY <1>1 DEF ExecutorsInv, StateOK
<1> QED BY <1>1, <1>2, <1>3, <1>4, ClaimsStand DEF Exists, Held

\* An executor leaves a job that was moved on, is excused, or is gone.
LEMMA ClaimsEased ==
  ASSUME ExecutorsInv, ClaimsInv, NEW x \in Executors, Eases(x), Keeps(x),
         UNCHANGED <<clock, claimed, repeated>>, excused \subseteq excused',
         \A i \in Jobs \ {work[x].job} : job'[i] = job[i],
         \A j \in Jobs \ excused' : j = work[x].job /\ Exists(j)' => job'[j].next # claimed[j]
  PROVE  ClaimsInv'
<1>1. clock' \in Nat /\ clock <= clock'
  BY DEF ExecutorsInv, StateOK
<1>2. ASSUME NEW j \in Jobs \ excused', Exists(j)', job'[j].next = claimed[j]
      PROVE  /\ Exists(j) /\ job[j].next = job'[j].next
             /\ \A o \in Executors : Held(o, j) => Held(o, j)'
  <2>1. j # work[x].job
    BY <1>2
  <2>2. job'[j] = job[j]
    BY <2>1
  <2>3. \A o \in Executors : Held(o, j) => Held(o, j)'
    BY <2>1 DEF Eases, Keeps, Held
  <2> QED BY <1>2, <2>2, <2>3 DEF Exists
<1> QED BY <1>1, <1>2, ClaimsStand

LEMMA ClaimClaims ==
  ASSUME ScheduleAssumption, ExecutorsInv, ClaimsInv, NEW x \in Executors,
         NEW kind \in {CronJobs, BackupJobs}, Claim(x, kind)
  PROVE  ClaimsInv'
<1>1. PICK B \in SUBSET Jobs :
        /\ Takes(x, B) /\ \A j \in B : IsDue(j)
        /\ claimed' = [j \in Jobs |-> IF j \in B THEN job[j].next ELSE claimed[j]]
        /\ repeated' = repeated \cup {j \in B : job[j].next = claimed[j]}
        /\ excused' = excused \cup {j \in B : \E o \in Executors : o # x /\ Held(o, j)}
        /\ UNCHANGED <<clock, job, run, store, work, stale, orphaned, faults>>
  BY ClaimTakes
<1>2. /\ \A j : ~Held(x, j)
      /\ \A j \in B : Held(x, j)'
      /\ \A o \in Executors \ {x} : \A j : Held(o, j)' <=> Held(o, j)
  BY <1>1, EmptyBatch DEF Takes, Held
<1>3. ClaimedOK'
  BY <1>1 DEF ClaimsInv, ClaimedOK, IsDue
<1>4. StillHeld'
  <2> SUFFICES ASSUME NEW j \in Jobs \ excused', Exists(j)', job'[j].next # NoTime,
                      job'[j].next = claimed'[j]
               PROVE  \E o \in Executors : Held(o, j)'
    BY DEF StillHeld
  <2>1. CASE j \in B
    BY <1>2, <2>1
  <2>2. CASE j \notin B
    <3>1. claimed'[j] = claimed[j] /\ job' = job /\ Exists(j) /\ j \notin excused
      BY <1>1, <2>2 DEF Exists
    <3>2. PICK o \in Executors : Held(o, j)
      BY <3>1 DEF ClaimsInv, StillHeld
    <3>3. Held(o, j)'
      BY <1>2, <3>2
    <3> QED BY <3>3
  <2> QED BY <2>1, <2>2
<1>5. OncePerOccurrence'
  <2> SUFFICES ASSUME NEW j \in repeated', j \notin excused' PROVE FALSE
    BY DEF OncePerOccurrence
  <2>1. j \notin excused /\ j \in B /\ job[j].next = claimed[j]
    BY <1>1 DEF ClaimsInv, OncePerOccurrence
  <2>2. j \in Jobs /\ Exists(j) /\ job[j].next # NoTime
    BY <1>1, <2>1 DEF IsDue, Exists
  <2>3. PICK o \in Executors : Held(o, j)
    BY <2>1, <2>2 DEF ClaimsInv, StillHeld
  <2>4. o # x
    BY <1>2, <2>3
  <2> QED BY <1>1, <2>1, <2>3, <2>4
<1> QED BY <1>3, <1>4, <1>5 DEF ClaimsInv

LEMMA ClaimsPreserved ==
  ASSUME ScheduleAssumption, ExecutorsInv, ClaimsInv, DuesInv, [Next]_vars PROVE ClaimsInv'
<1> USE DEF history
<1>1. clock \in Nat
  BY DEF ExecutorsInv, StateOK
<1>2. CASE Tick
  <2>1. clock' \in Nat /\ clock <= clock' /\ UNCHANGED <<job, batch, claimed, repeated, excused>>
    BY <1>1, <1>2 DEF Tick
  <2> QED BY <2>1, ClaimsStand DEF Exists, Held
<1>3. ASSUME NEW j \in Jobs, NEW s \in Schedules, NEW to \in {"enabled", "disabled"},
             CreateJob(j, s, to) \/ UpdateCronJob(j, s, to)
      PROVE  ClaimsInv'
  BY <1>3, SaveClaims
<1>4. ASSUME NEW j \in Jobs, DeleteCronJob(j) PROVE ClaimsInv'
  <2>1. UNCHANGED <<clock, batch, claimed, repeated, excused>>
    BY <1>4 DEF DeleteCronJob
  <2>2. /\ \A i \in Jobs : job'[i].next = job[i].next /\ (i # j => job'[i].state = job[i].state)
        /\ job'[j].state = "deleted"
    BY <1>4, Deleted DEF ExecutorsInv
  <2>3. clock' \in Nat /\ clock <= clock'
    BY <1>1, <2>1
  <2> QED BY <2>1, <2>2, <2>3, ClaimsStand DEF Exists, Held
<1>5. ASSUME NEW x \in Executors, NEW j \in Jobs, RunJob(x, j) PROVE ClaimsInv'
  <2>1. Takes(x, {j}) /\ UNCHANGED <<clock, job, claimed, repeated, excused>>
    BY <1>5, RunJobTakes
  <2>2. clock' \in Nat /\ clock <= clock'
    BY <1>1, <2>1
  <2>3. \A i : \A o \in Executors : Held(o, i) => Held(o, i)'
    BY <2>1, EmptyBatch DEF Takes, Held
  <2> QED BY <2>1, <2>2, <2>3, ClaimsStand DEF Exists
<1>6. ASSUME NEW x \in Executors, NEW kind \in {CronJobs, BackupJobs}, Claim(x, kind) PROVE ClaimsInv'
  BY <1>6, ClaimClaims
<1>7. ASSUME NEW x \in Executors, Begin(x) \/ CreateRun(x) \/ DumpAndStore(x) \/ FinishRun(x) PROVE ClaimsInv'
  <2>1. UNCHANGED <<clock, job, batch, claimed, repeated, excused>>
    BY <1>7 DEF Begin, CreateRun, DumpAndStore, FinishRun
  <2>2. clock' \in Nat /\ clock <= clock'
    BY <1>1, <2>1
  <2> QED BY <2>1, <2>2, ClaimsStand DEF Exists, Held
<1>8. ASSUME NEW x \in Executors, CreateRunFails(x) PROVE ClaimsInv'
  <2>1. /\ Eases(x) /\ Keeps(x) /\ UNCHANGED <<clock, job, claimed, repeated>> /\ excused \subseteq excused'
        /\ Exists(work[x].job) => work[x].job \in excused'
    BY <1>8, CreateRunFailed
  <2> QED BY <2>1, ClaimsEased DEF Exists
<1>9. ASSUME NEW x \in Executors, FinishRunFails(x) PROVE ClaimsInv'
  <2>1. /\ Eases(x) /\ Keeps(x) /\ UNCHANGED <<clock, job, claimed, repeated>> /\ excused \subseteq excused'
        /\ work[x].job \in excused'
    BY <1>9, FinishRunFailed
  <2> QED BY <2>1, ClaimsEased
<1>10. ASSUME NEW x \in Executors, Advance(x) PROVE ClaimsInv'
  <2>1. PICK j \in Jobs :
          /\ j = work[x].job /\ work[x].due # NoTime
          /\ Eases(x) /\ Keeps(x) /\ UNCHANGED <<clock, claimed, repeated, excused>>
          /\ \A i \in Jobs \ {j} : job'[i] = job[i]
          /\ \/ job'[j].next = work[x].due
             \/ job' = job /\ ~Exists(j)
    BY <1>10, Advanced
  <2>2. j \notin excused => claimed[j] < work[x].due
    BY <2>1 DEF DuesInv
  <2>3. claimed[j] \in Nat
    BY DEF ExecutorsInv, StateOK
  <2>4. j \notin excused' /\ Exists(j)' => job'[j].next # claimed[j]
    BY <2>1, <2>2, <2>3 DEF Exists
  <2> QED BY <2>1, <2>4, ClaimsEased
<1>15. ASSUME NEW x \in Executors, ReadClock(x) PROVE ClaimsInv'
  <2>1. PICK j \in Jobs :
          /\ j = work[x].job /\ UNCHANGED <<clock, job, claimed, repeated>>
          /\ \/ Eases(x) /\ Keeps(x) /\ excused' = excused \cup {j}
             \/ ClockWasRead(x, j)
    BY <1>15, ClockRead
  <2>2. CASE Eases(x) /\ Keeps(x) /\ excused' = excused \cup {j}
    BY <2>1, <2>2, ClaimsEased
  <2>3. CASE ClockWasRead(x, j)
    <3>1. UNCHANGED <<batch, excused>> /\ clock' \in Nat /\ clock <= clock'
      BY <1>1, <2>1, <2>3 DEF ClockWasRead
    <3> QED BY <2>1, <3>1, ClaimsStand DEF Exists, Held
  <2> QED BY <2>1, <2>2, <2>3
<1>11. ASSUME NEW x \in Executors, AdvanceFails(x) PROVE ClaimsInv'
  <2>1. /\ Eases(x) /\ Keeps(x) /\ UNCHANGED <<clock, job, claimed, repeated>> /\ excused \subseteq excused'
        /\ work[x].job \in excused'
    BY <1>11, AdvanceFailed
  <2> QED BY <2>1, ClaimsEased
<1>12. ASSUME NEW x \in Executors, Interrupted(x) PROVE ClaimsInv'
  <2>1. /\ Eases(x) /\ UNCHANGED <<clock, job, claimed, repeated>>
        /\ excused' = excused \cup DOMAIN batch[x]
    BY <1>12, Broken
  <2>2. clock' \in Nat /\ clock <= clock' /\ excused \subseteq excused'
    BY <1>1, <2>1
  <2>3. \A j \in Jobs \ excused' : \A o \in Executors : Held(o, j) => Held(o, j)'
    BY <2>1 DEF Eases, Held
  <2> QED BY <2>1, <2>2, <2>3, ClaimsStand DEF Exists
<1>13. CASE UNCHANGED vars
  <2>1. UNCHANGED <<clock, job, batch, claimed, repeated, excused>>
    BY <1>13 DEF vars
  <2>2. clock' \in Nat /\ clock <= clock'
    BY <1>1, <2>1
  <2> QED BY <2>1, <2>2, ClaimsStand DEF Exists, Held
<1>14. ASSUME NEW x \in Executors, Execute(x) PROVE ClaimsInv'
  BY <1>14, <1>7, <1>8, <1>9, <1>10, <1>11, <1>15 DEF Execute
<1> QED BY <1>2, <1>3, <1>4, <1>5, <1>6, <1>12, <1>13, <1>14 DEF Next

------------------------------------------------------------------------------
(* The schedules *)

LEMMA SchedulesInitially == ASSUME ScheduleAssumption, Init PROVE SchedulesInv
<1>1. \A x \in Executors : \A j : ~Held(x, j)
  BY EmptyBatch DEF Init, Held
<1>2. \A j \in Jobs : ~Exists(j)
  BY DEF Init, Exists
<1> QED BY <1>1, <1>2 DEF SchedulesInv, CopiesOK, ScheduleKept

\* The schedule of a job is one that NextScheduledTime is about.
LEMMA ScheduleIs ==
  ASSUME ExecutorsInv, NEW j \in Jobs
  PROVE  /\ job[j].sched \in Schedules \cup {NoSchedule} /\ job[j].next \in Nat /\ clock \in 0 .. MaxTime
         /\ job[j] \in JobRecords
<1>1. job[j] \in JobRecords /\ clock \in 0 .. MaxTime
  BY TypesAre DEF ExecutorsInv
<1>2. Times \cup {NoTime} \subseteq Nat
  BY DEF Times, NoTime
<1> QED BY <1>1, <1>2 DEF JobRecords

\* No job is saved or moved, and executors get no other copies.
LEMMA SchedulesStand ==
  ASSUME SchedulesInv, UNCHANGED <<clock, stale>>,
         \A j \in Jobs :
           /\ job'[j].sched = job[j].sched /\ job'[j].next = job[j].next
           /\ Exists(j)' => Exists(j)
           /\ job'[j].state = "absent" => job[j].state = "absent",
         \A x \in Executors, j \in Jobs : Held(x, j)' => Held(x, j) /\ batch'[x][j] = batch[x][j]
  PROVE  SchedulesInv'
<1>1. CopiesOK'
  BY DEF SchedulesInv, CopiesOK
<1>2. ScheduleKept'
  BY DEF SchedulesInv, ScheduleKept, NotPutOff
<1> QED BY <1>1, <1>2 DEF SchedulesInv

LEMMA TickSchedules ==
  ASSUME ScheduleAssumption, ExecutorsInv, SchedulesInv, Tick PROVE SchedulesInv'
<1>1. clock' = clock + 1 /\ clock < MaxTime /\ UNCHANGED <<job, batch, stale>>
  BY DEF Tick, history
<1>2. CopiesOK'
  BY <1>1 DEF SchedulesInv, CopiesOK, Held
<1>3. ScheduleKept'
  <2> SUFFICES ASSUME NEW j \in Jobs, Exists(j)', j \notin stale',
                      NextScheduledTime(job'[j].sched, clock') # NoTime
               PROVE  job'[j].next <= NextScheduledTime(job'[j].sched, clock')
    BY DEF ScheduleKept, NotPutOff
  <2> PICK s \in Schedules \cup {NoSchedule} : s = job[j].sched
    BY ScheduleIs
  <2> PICK u \in 0 .. MaxTime : u = clock'
    BY <1>1, ScheduleIs DEF ScheduleAssumption
  <2>1. clock \in 0 .. MaxTime /\ clock <= u /\ job[j].next \in Nat
    BY <1>1, ScheduleIs DEF ScheduleAssumption
  <2>2. NextScheduledTime(s, u) # NoTime
    BY <1>1
  <2>3. NextScheduledTime(s, clock) # NoTime /\ NextScheduledTime(s, clock) <= NextScheduledTime(s, u)
    BY <2>1, <2>2, NextGrows
  <2>4. job[j].next <= NextScheduledTime(s, clock)
    BY <1>1, <2>3 DEF SchedulesInv, ScheduleKept, NotPutOff, Exists
  <2>5. NextScheduledTime(s, clock) \in Nat /\ NextScheduledTime(s, u) \in Nat
    BY <2>1, NextIs DEF Times, NoTime
  <2>6. job[j].next <= NextScheduledTime(s, u)
    BY <2>1, <2>3, <2>4, <2>5
  <2> QED BY <1>1, <2>6
<1> QED BY <1>2, <1>3 DEF SchedulesInv

LEMMA SaveSchedules ==
  ASSUME ScheduleAssumption, ExecutorsInv, SchedulesInv, NEW j \in Jobs, NEW s \in Schedules,
         NEW to \in {"enabled", "disabled"}, CreateJob(j, s, to) \/ UpdateCronJob(j, s, to)
  PROVE  SchedulesInv'
<1>1. SaveJob(j, s, to) /\ UNCHANGED <<clock, batch>>
  BY DEF CreateJob, UpdateCronJob
<1>2. /\ job'[j].state = to /\ job'[j].sched = s /\ job'[j].next = NextScheduledTime(s, clock)
      /\ NextScheduledTime(s, clock) # NoTime
      /\ \A i \in Jobs \ {j} : job'[i] = job[i]
  BY <1>1, Saved DEF ExecutorsInv
<1>3. stale \subseteq stale' /\ \A x \in Executors : Held(x, j) => j \in stale'
  <2>1. CASE CreateJob(j, s, to)
    BY <2>1 DEF CreateJob, SchedulesInv, CopiesOK, history
  <2>2. CASE UpdateCronJob(j, s, to)
    BY <2>2 DEF UpdateCronJob
  <2> QED BY <2>1, <2>2
<1>4. CopiesOK'
  <2>1. ASSUME NEW x \in Executors, NEW i \in Jobs, Held(x, i)'
        PROVE  job'[i].state # "absent" /\ (i \notin stale' => batch'[x][i] = job'[i].sched)
    <3>1. Held(x, i) /\ batch'[x][i] = batch[x][i]
      BY <1>1, <2>1 DEF Held
    <3>2. CASE i = j
      BY <1>2, <1>3, <3>1, <3>2
    <3>3. CASE i # j
      BY <1>2, <1>3, <3>1, <3>3 DEF SchedulesInv, CopiesOK
    <3> QED BY <3>2, <3>3
  <2> QED BY <2>1 DEF CopiesOK
<1>5. ScheduleKept'
  <2> SUFFICES ASSUME NEW i \in Jobs, Exists(i)', i \notin stale',
                      NextScheduledTime(job'[i].sched, clock') # NoTime
               PROVE  job'[i].next <= NextScheduledTime(job'[i].sched, clock')
    BY DEF ScheduleKept, NotPutOff
  <2>1. CASE i = j
    <3>1. job'[i].next = NextScheduledTime(job'[i].sched, clock')
      BY <1>1, <1>2, <2>1
    <3>2. NextScheduledTime(s, clock) \in Nat
      <4>1. clock \in 0 .. MaxTime
        BY ScheduleIs
      <4> QED BY <4>1, NextIs DEF Times, NoTime
    <3>3. job'[i].next \in Nat
      BY <1>2, <2>1, <3>2
    <3> QED BY <3>1, <3>3
  <2>2. CASE i # j
    BY <1>1, <1>2, <1>3, <2>2 DEF SchedulesInv, ScheduleKept, NotPutOff, Exists
  <2> QED BY <2>1, <2>2
<1> QED BY <1>4, <1>5 DEF SchedulesInv

LEMMA TakeSchedules ==
  ASSUME SchedulesInv, NEW x \in Executors, NEW B \in SUBSET Jobs, Takes(x, B), UNCHANGED <<clock, job, stale>>
  PROVE  SchedulesInv'
<1>1. ASSUME NEW o \in Executors, NEW j \in Jobs, Held(o, j)'
      PROVE  job'[j].state # "absent" /\ (j \notin stale' => batch'[o][j] = job'[j].sched)
  <2>1. CASE o = x
    BY <1>1, <2>1 DEF Takes, Held, Exists
  <2>2. CASE o # x
    BY <1>1, <2>2 DEF Takes, Held, SchedulesInv, CopiesOK
  <2> QED BY <2>1, <2>2
<1>2. CopiesOK'
  BY <1>1 DEF CopiesOK
<1>3. ScheduleKept'
  BY DEF SchedulesInv, ScheduleKept, NotPutOff, Exists
<1> QED BY <1>2, <1>3 DEF SchedulesInv

\* Whoever moves a job that was not saved over its head moves it no further than its next instant.
LEMMA AdvanceSchedules ==
  ASSUME ScheduleAssumption, ExecutorsInv, SchedulesInv, DuesInv, NEW x \in Executors, Advance(x)
  PROVE  SchedulesInv'
<1>1. PICK j \in Jobs :
        /\ j = work[x].job /\ Held(x, j) /\ work[x].due # NoTime
        /\ Eases(x) /\ UNCHANGED <<clock, stale>>
        /\ job' \in [Jobs -> JobRecords] /\ \A i \in Jobs \ {j} : job'[i] = job[i]
        /\ job'[j].state = job[j].state /\ job'[j].sched = job[j].sched
        /\ job'[j].next = work[x].due \/ job' = job
  BY Advanced
<1>2. j \notin stale => batch[x][j] = job[j].sched
  BY <1>1 DEF SchedulesInv, CopiesOK
<1>3. \A i \in Jobs : job'[i].state = job[i].state /\ job'[i].sched = job[i].sched
  BY <1>1
<1>4. CopiesOK'
  <2>1. \A o \in Executors, i \in Jobs : Held(o, i)' => Held(o, i) /\ batch'[o][i] = batch[o][i]
    BY <1>1 DEF Eases, Held
  <2> QED BY <1>1, <1>3, <2>1 DEF SchedulesInv, CopiesOK
<1>5. ScheduleKept'
  <2> SUFFICES ASSUME NEW i \in Jobs, Exists(i)', i \notin stale',
                      NextScheduledTime(job'[i].sched, clock') # NoTime
               PROVE  job'[i].next <= NextScheduledTime(job'[i].sched, clock')
    BY DEF ScheduleKept, NotPutOff
  <2>1. CASE job'[i] = job[i]
    BY <1>1, <1>3, <2>1 DEF SchedulesInv, ScheduleKept, NotPutOff, Exists
  <2>2. CASE job'[i] # job[i]
    <3>1. i = j /\ job'[i].next = work[x].due
      BY <1>1, <2>2
    <3>2. NextScheduledTime(batch[x][j], clock) = NextScheduledTime(job'[i].sched, clock')
      BY <1>1, <1>2, <1>3, <3>1
    <3>3. work[x].due <= NextScheduledTime(batch[x][j], clock)
      BY <1>1, <3>2 DEF DuesInv
    <3> QED BY <3>1, <3>2, <3>3
  <2> QED BY <2>1, <2>2
<1> QED BY <1>4, <1>5 DEF SchedulesInv

LEMMA SchedulesPreserved ==
  ASSUME ScheduleAssumption, ExecutorsInv, SchedulesInv, DuesInv, [Next]_vars PROVE SchedulesInv'
<1> USE DEF history
<1>1. CASE Tick
  BY <1>1, TickSchedules
<1>2. ASSUME NEW j \in Jobs, NEW s \in Schedules, NEW to \in {"enabled", "disabled"},
             CreateJob(j, s, to) \/ UpdateCronJob(j, s, to)
      PROVE  SchedulesInv'
  BY <1>2, SaveSchedules
<1>3. ASSUME NEW j \in Jobs, DeleteCronJob(j) PROVE SchedulesInv'
  <2>1. UNCHANGED <<clock, batch, stale>>
    BY <1>3 DEF DeleteCronJob
  <2>2. /\ \A i \in Jobs : /\ job'[i].sched = job[i].sched /\ job'[i].next = job[i].next
                           /\ i # j => job'[i].state = job[i].state
        /\ job'[j].state = "deleted"
    BY <1>3, Deleted DEF ExecutorsInv
  <2> QED BY <2>1, <2>2, SchedulesStand DEF Exists, Held
<1>4. ASSUME NEW x \in Executors, NEW j \in Jobs, RunJob(x, j) PROVE SchedulesInv'
  <2>1. Takes(x, {j}) /\ UNCHANGED <<clock, job, stale>> /\ {j} \in SUBSET Jobs
    BY <1>4, RunJobTakes
  <2> QED BY <2>1, TakeSchedules
<1>5. ASSUME NEW x \in Executors, NEW kind \in {CronJobs, BackupJobs}, Claim(x, kind) PROVE SchedulesInv'
  <2>1. PICK B \in SUBSET Jobs : Takes(x, B) /\ UNCHANGED <<clock, job, stale>>
    BY <1>5, ClaimTakes
  <2> QED BY <2>1, TakeSchedules
<1>6. ASSUME NEW x \in Executors, Begin(x) \/ CreateRun(x) \/ DumpAndStore(x) \/ FinishRun(x) PROVE SchedulesInv'
  <2>1. UNCHANGED <<clock, job, batch, stale>>
    BY <1>6 DEF Begin, CreateRun, DumpAndStore, FinishRun
  <2> QED BY <2>1, SchedulesStand DEF Exists, Held
<1>7. ASSUME NEW x \in Executors, Eases(x), UNCHANGED <<clock, job, stale>> PROVE SchedulesInv'
  <2>1. \A o \in Executors, j \in Jobs : Held(o, j)' => Held(o, j) /\ batch'[o][j] = batch[o][j]
    BY <1>7 DEF Eases, Held
  <2> QED BY <1>7, <2>1, SchedulesStand DEF Exists
<1>8. ASSUME NEW x \in Executors,
             CreateRunFails(x) \/ FinishRunFails(x) \/ AdvanceFails(x) \/ Interrupted(x)
      PROVE  SchedulesInv'
  BY <1>7, <1>8, CreateRunFailed, FinishRunFailed, AdvanceFailed, Broken
<1>9. ASSUME NEW x \in Executors, Advance(x) PROVE SchedulesInv'
  BY <1>9, AdvanceSchedules
<1>12. ASSUME NEW x \in Executors, ReadClock(x) PROVE SchedulesInv'
  <2>1. UNCHANGED <<clock, job, stale>> /\ (Eases(x) \/ UNCHANGED batch)
    BY <1>12, ClockRead DEF ClockWasRead
  <2>2. CASE UNCHANGED batch
    BY <2>1, <2>2, SchedulesStand DEF Exists, Held
  <2> QED BY <1>7, <2>1, <2>2
<1>10. CASE UNCHANGED vars
  <2>1. UNCHANGED <<clock, job, batch, stale>>
    BY <1>10 DEF vars
  <2> QED BY <2>1, SchedulesStand DEF Exists, Held
<1>11. ASSUME NEW x \in Executors, Execute(x) PROVE SchedulesInv'
  BY <1>11, <1>6, <1>8, <1>9, <1>12 DEF Execute
<1> QED BY <1>1, <1>2, <1>3, <1>4, <1>5, <1>8, <1>10, <1>11 DEF Next

------------------------------------------------------------------------------
(* The instants executors have in mind *)

LEMMA DuesInitially == ASSUME ScheduleAssumption, Init PROVE DuesInv
BY IdleIs DEF Init, DuesInv

\* An instant in mind stays good as long as claims, copies and the job stand as they are.
LEMMA DuesStand ==
  ASSUME ScheduleAssumption, ExecutorsInv, DuesInv, clock' \in 0 .. MaxTime, clock <= clock',
         excused \subseteq excused', stale \subseteq stale',
         \A x \in Executors : work'[x].due # NoTime =>
           /\ work'[x].due = work[x].due /\ work'[x].job = work[x].job
           /\ work'[x].stage \in {"advance", "failed"}
           /\ batch'[x][work[x].job] = batch[x][work[x].job]
           /\ work[x].job \in excused' \/ claimed'[work[x].job] = claimed[work[x].job]
           /\ x \in late => x \in late'
           /\ \/ x \in late' \/ work[x].job \in stale' \/ ~Exists(work[x].job)'
              \/ Exists(work[x].job) /\ job'[work[x].job].next = job[work[x].job].next
  PROVE  DuesInv'
<1> SUFFICES ASSUME NEW x \in Executors, work'[x].due # NoTime
             PROVE  /\ work'[x].stage \in {"advance", "failed"}
                    /\ work'[x].job \notin excused' => claimed'[work'[x].job] < work'[x].due
                    /\ LET n == NextScheduledTime(batch'[x][work'[x].job], clock')
                       IN n # NoTime => work'[x].due <= n
                    /\ x \notin late' /\ work'[x].job \notin stale' /\ Exists(work[x].job)' =>
                         job'[work'[x].job].next <= work'[x].due
  BY DEF DuesInv, Exists
<1> PICK j : j = work[x].job
  OBVIOUS
<1>1. /\ work'[x].due = work[x].due /\ work'[x].job = j /\ work'[x].stage \in {"advance", "failed"}
      /\ batch'[x][j] = batch[x][j] /\ (j \in excused' \/ claimed'[j] = claimed[j])
      /\ x \in late => x \in late'
      /\ \/ x \in late' \/ j \in stale' \/ ~Exists(j)'
         \/ Exists(j) /\ job'[j].next = job[j].next
  BY DEF Exists
<1>2. /\ work[x].stage \in {"advance", "failed"}
      /\ j \notin excused => claimed[j] < work[x].due
      /\ LET n == NextScheduledTime(batch[x][j], clock) IN n # NoTime => work[x].due <= n
      /\ x \notin late /\ j \notin stale /\ Exists(j) => job[j].next <= work[x].due
  BY <1>1 DEF DuesInv
<1>3. NextScheduledTime(batch[x][j], clock') # NoTime =>
        work[x].due <= NextScheduledTime(batch[x][j], clock')
  <2>1. batch[x][j] \in Schedules
    BY <1>2, CopyIs DEF ExecutorsInv, WorkOK
  <2> PICK s \in Schedules \cup {NoSchedule} : s = batch[x][j]
    BY <2>1
  <2> PICK t \in 0 .. MaxTime : t = clock
    BY DEF ExecutorsInv, StateOK
  <2> PICK u \in 0 .. MaxTime : u = clock'
    OBVIOUS
  <2>2. NextScheduledTime(s, u) # NoTime =>
          NextScheduledTime(s, t) # NoTime /\ NextScheduledTime(s, t) <= NextScheduledTime(s, u)
    BY NextGrows
  <2>3. NextScheduledTime(s, t) \in Nat /\ NextScheduledTime(s, u) \in Nat
    BY NextIs
  <2>4. work[x].due \in Nat
    BY TypesAre DEF ExecutorsInv, WorkRecords
  <2> QED BY <1>2, <2>2, <2>3, <2>4
<1> QED BY <1>1, <1>2, <1>3 DEF Exists

\* Only an executor that reads the clock gets another instant in mind.
LEMMA ClockDues ==
  ASSUME ScheduleAssumption, ExecutorsInv, ClaimsInv, SchedulesInv, DuesInv,
         NEW x \in Executors, ReadClock(x)
  PROVE  DuesInv'
<1>1. PICK j \in Jobs :
        /\ j = work[x].job /\ Held(x, j) /\ work[x].stage \in {"advance", "failed"}
        /\ UNCHANGED <<clock, job, run, store, claimed, repeated, stale, orphaned, faults>>
        /\ \/ Eases(x) /\ late' = late /\ excused' = excused \cup {j}
           \/ ClockWasRead(x, j)
  BY ClockRead
<1>2. clock \in 0 .. MaxTime
  BY DEF ExecutorsInv, StateOK
<1>3. CASE Eases(x) /\ late' = late /\ excused' = excused \cup {j}
  <2>1. \A o \in Executors : work'[o].due # NoTime => o # x
    BY <1>3 DEF Eases
  <2>2. \A o \in Executors : o # x => work'[o] = work[o] /\ batch'[o] = batch[o]
    BY <1>3 DEF Eases
  <2>3. \A o \in Executors : work[o].due # NoTime => work[o].stage \in {"advance", "failed"}
    BY DEF DuesInv
  <2>4. \A i : Exists(i)' <=> Exists(i)
    BY <1>1 DEF Exists
  <2> QED BY <1>1, <1>2, <1>3, <2>1, <2>2, <2>3, <2>4, DuesStand
<1>4. CASE ClockWasRead(x, j)
  <2>1. /\ UNCHANGED <<batch, excused>> /\ late' = late \ {x}
        /\ work'[x].job = j /\ work'[x].stage = work[x].stage
        /\ work'[x].due = NextScheduledTime(batch[x][j], clock) /\ work'[x].due # NoTime
        /\ \A o \in Executors \ {x} : work'[o] = work[o]
    BY <1>4 DEF ClockWasRead
  <2>2. batch[x][j] \in Schedules /\ job[j].next \in Nat
    BY <1>1, CopyIs, TypesAre DEF ExecutorsInv, JobRecords
  <2>3. claimed[j] < work'[x].due /\ work'[x].due \in Nat
    <3>1. NextScheduledTime(batch[x][j], clock) \in Nat
      BY <1>2, <2>2, NextIs
    <3> QED BY <2>1, <2>2, <3>1, NextIsNew
  <2>4. j \notin stale /\ Exists(j) => job[j].next <= work'[x].due
    <3>1. j \notin stale => batch[x][j] = job[j].sched
      BY <1>1 DEF SchedulesInv, CopiesOK
    <3> QED BY <2>1, <3>1 DEF SchedulesInv, ScheduleKept, NotPutOff
  <2>5. ASSUME NEW o \in Executors, work'[o].due # NoTime
        PROVE  /\ work'[o].stage \in {"advance", "failed"}
               /\ work'[o].job \notin excused => claimed[work'[o].job] < work'[o].due
               /\ LET n == NextScheduledTime(batch[o][work'[o].job], clock) IN n # NoTime => work'[o].due <= n
               /\ o \notin late' /\ work'[o].job \notin stale /\ Exists(work'[o].job) =>
                    job[work'[o].job].next <= work'[o].due
    <3>1. CASE o = x
      BY <1>1, <2>1, <2>3, <2>4, <3>1
    <3>2. CASE o # x
      BY <2>1, <2>5, <3>2 DEF DuesInv
    <3> QED BY <3>1, <3>2
  <2> QED BY <1>1, <2>1, <2>5 DEF DuesInv, Exists
<1> QED BY <1>1, <1>3, <1>4

\* Who moves the job overtakes the others that have an instant in mind for it.
LEMMA AdvanceDues ==
  ASSUME ScheduleAssumption, ExecutorsInv, DuesInv, NEW x \in Executors, Advance(x) PROVE DuesInv'
<1>1. PICK j \in Jobs :
        /\ j = work[x].job /\ Eases(x) /\ late' = late \cup Overtaken(x, j)
        /\ UNCHANGED <<clock, claimed, excused, stale>>
        /\ \A i \in Jobs \ {j} : job'[i] = job[i]
        /\ job'[j].state = job[j].state
  BY Advanced
<1>2. clock \in 0 .. MaxTime
  BY DEF ExecutorsInv, StateOK
<1>3. ASSUME NEW o \in Executors, work'[o].due # NoTime
      PROVE  /\ work'[o].due = work[o].due /\ work'[o].job = work[o].job
             /\ work'[o].stage \in {"advance", "failed"}
             /\ batch'[o][work[o].job] = batch[o][work[o].job]
             /\ o \in late => o \in late'
             /\ o \in late' \/ (job'[work[o].job].next = job[work[o].job].next
                               /\ (Exists(work[o].job)' => Exists(work[o].job)))
  <2>1. o # x
    BY <1>1, <1>3 DEF Eases
  <2>2. work'[o] = work[o] /\ batch'[o] = batch[o]
    BY <1>1, <2>1 DEF Eases
  <2>3. work[o].stage \in {"advance", "failed"} /\ work[o].job \in Jobs
    BY <1>3, <2>2 DEF DuesInv, ExecutorsInv, WorkOK
  <2>4. CASE work[o].job = j
    <3>1. o \in Overtaken(x, j)
      BY <1>3, <2>1, <2>2, <2>4 DEF Overtaken
    <3> QED BY <1>1, <2>2, <2>3, <3>1
  <2>5. CASE work[o].job # j
    BY <1>1, <2>2, <2>3, <2>5 DEF Exists
  <2> QED BY <2>4, <2>5
<1> QED BY <1>1, <1>2, <1>3, DuesStand

\* A saved job is stale to the executors that hold it.
LEMMA SaveDues ==
  ASSUME ScheduleAssumption, ExecutorsInv, SchedulesInv, DuesInv, NEW j \in Jobs, NEW s \in Schedules,
         NEW to \in {"enabled", "disabled"}, CreateJob(j, s, to) \/ UpdateCronJob(j, s, to)
  PROVE  DuesInv'
<1>1. SaveJob(j, s, to) /\ UNCHANGED <<clock, batch, work, claimed, excused, late>>
  BY DEF CreateJob, UpdateCronJob, history
<1>2. \A i \in Jobs \ {j} : job'[i] = job[i]
  BY <1>1, Saved DEF ExecutorsInv
<1>3. stale \subseteq stale' /\ \A x \in Executors : Held(x, j) => j \in stale'
  <2>1. CASE CreateJob(j, s, to)
    BY <2>1 DEF CreateJob, SchedulesInv, CopiesOK, history
  <2>2. CASE UpdateCronJob(j, s, to)
    BY <2>2 DEF UpdateCronJob
  <2> QED BY <2>1, <2>2
<1>4. clock \in 0 .. MaxTime
  BY DEF ExecutorsInv, StateOK
<1>5. ASSUME NEW x \in Executors, work[x].due # NoTime
      PROVE  /\ work[x].stage \in {"advance", "failed"}
             /\ work[x].job \in stale' \/ (job'[work[x].job].next = job[work[x].job].next
                                          /\ (Exists(work[x].job)' => Exists(work[x].job)))
  <2>1. work[x].stage \in {"advance", "failed"} /\ work[x].job \in Jobs /\ Held(x, work[x].job)
    BY <1>5 DEF DuesInv, ExecutorsInv, WorkOK
  <2>2. CASE work[x].job = j
    BY <1>3, <2>1, <2>2
  <2>3. CASE work[x].job # j
    BY <1>1, <1>2, <2>1, <2>3 DEF Exists
  <2> QED BY <2>1, <2>2, <2>3
<1> QED BY <1>1, <1>3, <1>4, <1>5, DuesStand

\* Who claims a job excuses it from the executors that have it.
LEMMA ClaimDues ==
  ASSUME ScheduleAssumption, ExecutorsInv, DuesInv, NEW x \in Executors,
         NEW kind \in {CronJobs, BackupJobs}, Claim(x, kind)
  PROVE  DuesInv'
<1>1. PICK B \in SUBSET Jobs :
        /\ Takes(x, B)
        /\ claimed' = [j \in Jobs |-> IF j \in B THEN job[j].next ELSE claimed[j]]
        /\ excused' = excused \cup {j \in B : \E o \in Executors : o # x /\ Held(o, j)}
        /\ UNCHANGED <<clock, job, work, stale>>
  BY ClaimTakes
<1>2. late' = late
  BY DEF Claim
<1>3. clock \in 0 .. MaxTime
  BY DEF ExecutorsInv, StateOK
<1>4. ASSUME NEW o \in Executors, work[o].due # NoTime
      PROVE  /\ work[o].stage \in {"advance", "failed"}
             /\ batch'[o][work[o].job] = batch[o][work[o].job]
             /\ work[o].job \in excused' \/ claimed'[work[o].job] = claimed[work[o].job]
  <2>1. work[o].stage \in {"advance", "failed"} /\ work[o].job \in Jobs /\ Held(o, work[o].job)
    BY <1>4 DEF DuesInv, ExecutorsInv, WorkOK
  <2>2. o # x
    BY <1>1, <2>1, EmptyBatch DEF Takes, Held
  <2>3. batch'[o] = batch[o]
    BY <1>1, <2>2 DEF Takes
  <2> QED BY <1>1, <2>1, <2>2, <2>3
<1>5. \A i : Exists(i)' <=> Exists(i)
  BY <1>1 DEF Exists
<1> QED BY <1>1, <1>2, <1>3, <1>4, <1>5, DuesStand

LEMMA DuesPreserved ==
  ASSUME ScheduleAssumption, ExecutorsInv, ClaimsInv, SchedulesInv, DuesInv, [Next]_vars PROVE DuesInv'
<1> USE DEF history
<1>1. clock \in 0 .. MaxTime /\ clock \in Nat
  BY DEF ExecutorsInv, StateOK
<1>2. ASSUME clock' \in 0 .. MaxTime, clock <= clock', UNCHANGED <<batch, work, claimed, excused, stale, late>>,
             \A j \in Jobs : job'[j].next = job[j].next /\ (Exists(j)' => Exists(j))
      PROVE  DuesInv'
  <2>1. \A x \in Executors : work[x].due # NoTime => work[x].stage \in {"advance", "failed"} /\ work[x].job \in Jobs
    BY DEF DuesInv, ExecutorsInv, WorkOK
  <2> QED BY <1>2, <2>1, DuesStand
<1>3. CASE Tick
  <2>1. clock' \in 0 .. MaxTime /\ clock <= clock' /\ UNCHANGED <<job, batch, work, claimed, excused, stale, late>>
    BY <1>1, <1>3 DEF Tick, ScheduleAssumption
  <2> QED BY <1>2, <2>1 DEF Exists
<1>4. ASSUME NEW j \in Jobs, NEW s \in Schedules, NEW to \in {"enabled", "disabled"},
             CreateJob(j, s, to) \/ UpdateCronJob(j, s, to)
      PROVE  DuesInv'
  BY <1>4, SaveDues
<1>5. ASSUME NEW j \in Jobs, DeleteCronJob(j) PROVE DuesInv'
  <2>1. UNCHANGED <<clock, batch, work, claimed, excused, stale, late>>
    BY <1>5 DEF DeleteCronJob
  <2>2. /\ \A i \in Jobs : job'[i].next = job[i].next /\ (i # j => job'[i].state = job[i].state)
        /\ job'[j].state = "deleted"
    BY <1>5, Deleted DEF ExecutorsInv
  <2> QED BY <1>1, <1>2, <2>1, <2>2 DEF Exists
<1>6. ASSUME NEW x \in Executors, NEW j \in Jobs, RunJob(x, j) PROVE DuesInv'
  <2>1. Takes(x, {j}) /\ UNCHANGED <<clock, job, work, claimed, excused, stale, late>>
    BY <1>6, RunJobTakes
  <2>2. ASSUME NEW o \in Executors, work[o].due # NoTime
        PROVE  work[o].stage \in {"advance", "failed"} /\ batch'[o][work[o].job] = batch[o][work[o].job]
    <3>1. work[o].stage \in {"advance", "failed"} /\ Held(o, work[o].job)
      BY <2>2 DEF DuesInv, ExecutorsInv, WorkOK
    <3>2. o # x
      BY <2>1, <3>1, EmptyBatch DEF Takes, Held
    <3> QED BY <2>1, <3>1, <3>2 DEF Takes
  <2>3. \A i : Exists(i)' <=> Exists(i)
    BY <2>1 DEF Exists
  <2> QED BY <1>1, <2>1, <2>2, <2>3, DuesStand
<1>7. ASSUME NEW x \in Executors, NEW kind \in {CronJobs, BackupJobs}, Claim(x, kind) PROVE DuesInv'
  BY <1>7, ClaimDues
\* An executor without an instant in mind goes on.
<1>8. ASSUME NEW x \in Executors, UNCHANGED <<clock, batch, claimed, excused, stale, late>>,
             \A j \in Jobs : job'[j].next = job[j].next /\ (Exists(j)' => Exists(j)),
             work'[x].due = NoTime, \A o \in Executors \ {x} : work'[o] = work[o]
      PROVE  DuesInv'
  <2>1. \A o \in Executors : work[o].due # NoTime => work[o].stage \in {"advance", "failed"} /\ work[o].job \in Jobs
    BY DEF DuesInv, ExecutorsInv, WorkOK
  <2> QED BY <1>1, <1>8, <2>1, DuesStand
<1>9. ASSUME NEW x \in Executors, Begin(x) \/ CreateRun(x) \/ DumpAndStore(x) \/ FinishRun(x) PROVE DuesInv'
  <2>1. work \in [Executors -> WorkRecords]
    BY TypesAre DEF ExecutorsInv
  <2>2. work[x].stage \in {"idle", "create", "running"}
    BY <1>9 DEF Begin, CreateRun, DumpAndStore, FinishRun
  <2>3. work[x].due = NoTime
    BY <2>2 DEF DuesInv
  <2>4. work'[x].due = NoTime /\ \A o \in Executors \ {x} : work'[o] = work[o]
    <3>1. CASE Begin(x)
      <4>1. PICK j \in DOMAIN batch[x] :
              work' = [work EXCEPT ![x] = [Idle EXCEPT !.job = j, !.attempt = 1, !.stage = "create"]]
        BY <3>1 DEF Begin
      <4> QED BY <2>1, <4>1, IdleIs DEF WorkRecords, Idle
    <3>2. CASE CreateRun(x)
      <4>1. PICK k \in Runs : work' = [work EXCEPT ![x].row = k, ![x].stage = "running"]
        BY <3>2 DEF CreateRun
      <4> QED BY <2>1, <2>3, <4>1 DEF WorkRecords
    <3>3. CASE DumpAndStore(x)
      <4>1. work' = [work EXCEPT ![x].stamp = clock]
        BY <3>3 DEF DumpAndStore
      <4> QED BY <2>1, <2>3, <4>1 DEF WorkRecords
    <3>4. CASE FinishRun(x)
      <4>1. PICK to : work' = [work EXCEPT ![x].stage = to]
        BY <3>4 DEF FinishRun
      <4> QED BY <2>1, <2>3, <4>1 DEF WorkRecords
    <3> QED BY <1>9, <3>1, <3>2, <3>3, <3>4
  <2>5. UNCHANGED <<clock, job, batch, claimed, excused, stale, late>>
    BY <1>9 DEF Begin, CreateRun, DumpAndStore, FinishRun
  <2> QED BY <1>8, <2>4, <2>5 DEF Exists
<1>10. ASSUME NEW x \in Executors, Eases(x), UNCHANGED <<clock, job, claimed, stale, late>>,
              excused \subseteq excused'
       PROVE  DuesInv'
  <2>1. \A o \in Executors : work'[o].due # NoTime =>
          /\ work'[o] = work[o] /\ batch'[o] = batch[o] /\ work[o].stage \in {"advance", "failed"}
    BY <1>10 DEF Eases, DuesInv
  <2>2. \A i : Exists(i)' <=> Exists(i)
    BY <1>10 DEF Exists
  <2> QED BY <1>1, <1>10, <2>1, <2>2, DuesStand
<1>11. ASSUME NEW x \in Executors,
              CreateRunFails(x) \/ FinishRunFails(x) \/ AdvanceFails(x) \/ Interrupted(x)
       PROVE  DuesInv'
  <2>1. late' = late
    BY <1>11 DEF CreateRunFails, FinishRunFails, AdvanceFails, Interrupted
  <2>2. Eases(x) /\ UNCHANGED <<clock, job, claimed, stale>> /\ excused \subseteq excused'
    BY <1>11, CreateRunFailed, FinishRunFailed, AdvanceFailed, Broken
  <2> QED BY <1>10, <2>1, <2>2
<1>12. ASSUME NEW x \in Executors, Execute(x) PROVE DuesInv'
  BY <1>12, <1>9, <1>11, AdvanceDues, ClockDues DEF Execute
<1>13. CASE UNCHANGED vars
  <2>1. UNCHANGED <<clock, job, batch, work, claimed, excused, stale, late>>
    BY <1>13 DEF vars
  <2> QED BY <1>1, <1>2, <2>1 DEF Exists
<1> QED BY <1>3, <1>4, <1>5, <1>6, <1>7, <1>11, <1>12, <1>13 DEF Next

\* A step that makes a job due earlier saves it, or is the update of an executor that was overtaken.
LEMMA MovesForward ==
  ASSUME ScheduleAssumption, ExecutorsInv, SchedulesInv, DuesInv, [Next]_vars,
         NEW j \in Jobs, job'[j].next < job[j].next, job'[j].sched = job[j].sched,
         job'[j].state = job[j].state, j \notin stale
  PROVE  \E x \in late : work[x].job = j /\ work[x].due = job'[j].next /\ work'[x].due = NoTime
<1> DEFINE Back == \E x \in late : work[x].job = j /\ work[x].due = job'[j].next /\ work'[x].due = NoTime
           n == NextScheduledTime(job[j].sched, clock)
<1>1. job[j].next \in Nat /\ job[j] \in JobRecords
  BY ScheduleIs
<1>2. ASSUME job'[j].next = job[j].next PROVE FALSE
  BY <1>1, <1>2
<1>3. ASSUME NEW i \in Jobs, NEW s \in Schedules, NEW to \in {"enabled", "disabled"},
             CreateJob(i, s, to) \/ UpdateCronJob(i, s, to)
      PROVE  FALSE
  <2>1. SaveJob(i, s, to)
    BY <1>3 DEF CreateJob, UpdateCronJob
  <2>2. /\ job'[i].state = to /\ job'[i].sched = s /\ job'[i].next = NextScheduledTime(s, clock)
        /\ NextScheduledTime(s, clock) # NoTime
        /\ \A k \in Jobs \ {i} : job'[k] = job[k]
    BY <2>1, Saved DEF ExecutorsInv
  <2>3. i = j
    BY <1>2, <2>2
  <2>4. job'[j].next = n /\ n # NoTime /\ Exists(j)
    BY <2>2, <2>3 DEF Exists
  <2>5. job[j].next <= n
    BY <2>4 DEF SchedulesInv, ScheduleKept, NotPutOff
  <2>6. n \in Nat
    BY ScheduleIs, NextIs
  <2> HIDE DEF n
  <2> QED BY <1>1, <2>4, <2>5, <2>6
<1>4. ASSUME NEW i \in Jobs, DeleteCronJob(i) PROVE FALSE
  BY <1>2, <1>4, Deleted DEF ExecutorsInv
<1>5. ASSUME NEW x \in Executors, Advance(x) PROVE Back
  <2>1. PICK i \in Jobs :
          /\ i = work[x].job /\ work[x].due # NoTime /\ Eases(x)
          /\ \A k \in Jobs \ {i} : job'[k] = job[k]
          /\ \/ Exists(i) /\ job'[i].next = work[x].due
             \/ job' = job
    BY <1>5, Advanced
  <2>2. i = j /\ Exists(j) /\ job'[j].next = work[x].due
    BY <1>2, <2>1
  <2>3. x \notin late => job[j].next <= work[x].due
    BY <2>1, <2>2 DEF DuesInv
  <2>4. work[x].due \in Nat
    BY TypesAre DEF ExecutorsInv, WorkRecords
  <2>5. x \in late
    BY <1>1, <2>2, <2>3, <2>4
  <2> QED BY <2>1, <2>2, <2>5 DEF Eases
<1>6. ASSUME NEW x \in Executors, Execute(x) \/ Interrupted(x), ~Advance(x) PROVE FALSE
  <2>1. job' = job
    BY <1>6 DEF Execute, Begin, CreateRun, CreateRunFails, DumpAndStore, FinishRun, FinishRunFails,
                ReadClock, AdvanceFails, Interrupted
  <2> QED BY <1>2, <2>1
<1>7. ASSUME Tick \/ (UNCHANGED vars) \/ (\E x \in Executors, i \in Jobs : RunJob(x, i))
             \/ (\E x \in Executors : \E kind \in {CronJobs, BackupJobs} : Claim(x, kind))
      PROVE  FALSE
  <2>1. job' = job
    BY <1>7 DEF Tick, vars, RunJob, Claim
  <2> QED BY <1>2, <2>1
<1> HIDE DEF Back
<1>8. Back
  BY <1>3, <1>4, <1>5, <1>6, <1>7 DEF Next
<1> QED BY <1>8 DEF Back

------------------------------------------------------------------------------
(* The theorems *)

LEMMA JobsInitially == ASSUME ScheduleAssumption, Init PROVE JobsInv
BY ExecutorsInitially, RunsInitially, ClaimsInitially, SchedulesInitially, DuesInitially DEF JobsInv

LEMMA JobsPreserved == ASSUME ScheduleAssumption, JobsInv, [Next]_vars PROVE JobsInv'
BY ExecutorsPreserved, RunsPreserved, ClaimsPreserved, SchedulesPreserved, DuesPreserved DEF JobsInv

\* The inductive invariant of the cron jobs and the backups holds of every behaviour of their
\* workers, requests and administrators (core/cron.go, core/backups.go).
THEOREM JobsInvHolds == ASSUME ScheduleAssumption PROVE Spec => []JobsInv
<1>1. Init => JobsInv
  BY JobsInitially
<1>2. JobsInv /\ [Next]_vars => JobsInv'
  BY JobsPreserved
<1> QED BY <1>1, <1>2, PTL DEF Spec

\* The jobs, the runs and the memory of the executors keep their types: no job is tried more than
\* retry_count + 1 times in a row, and what an executor holds is a job with a schedule.
THEOREM JobTypesHold == ASSUME ScheduleAssumption PROVE Spec => []TypeOK
<1>1. StateOK /\ late \in SUBSET Executors <=> TypeOK
  BY DEF StateOK, TypeOK, JobRecords, RunRecords, WorkRecords
<1>2. JobsInv => StateOK
  BY DEF JobsInv, ExecutorsInv
<1> DEFINE LateOK == late \in SUBSET Executors
<1>3. Init => LateOK
  BY DEF Init
<1>4. LateOK /\ [Next]_vars => LateOK'
  BY DEF Next, vars, history, Tick, CreateJob, UpdateCronJob, DeleteCronJob, RunJob, Claim, Execute, Begin,
         CreateRun, CreateRunFails, DumpAndStore, FinishRun, FinishRunFails, ReadClock, Advance, Overtaken,
         AdvanceFails, Interrupted
<1>5. JobsInv /\ LateOK => TypeOK
  BY <1>1, <1>2
<1> HIDE DEF LateOK
<1> QED BY <1>3, <1>4, <1>5, JobsInvHolds, PTL DEF Spec

\* A row of cron_runs or backup_runs that says running has its executor, or lost it to a fault: any
\* retries, deletions and executors that overlap.
THEOREM NoRunIsAbandoned == ASSUME ScheduleAssumption PROVE Spec => []RunningIsExecuted
<1>1. JobsInv => RunningIsExecuted
  BY DEF JobsInv, RunsInv
<1> QED BY <1>1, JobsInvHolds, PTL

\* Without a fault and without a second executor of the job, no occurrence is claimed twice
\* (RunDueCronJobs, RunDueBackupJobs), whatever the workers, the batches and the schedules.
THEOREM OccurrencesAreClaimedOnce == ASSUME ScheduleAssumption PROVE Spec => []OncePerOccurrence
<1>1. JobsInv => OncePerOccurrence
  BY DEF JobsInv, ClaimsInv
<1> QED BY <1>1, JobsInvHolds, PTL

\* A job that was not saved over the head of an executor is never put off beyond its schedule.
THEOREM SchedulesAreKept == ASSUME ScheduleAssumption PROVE Spec => []ScheduleKept
<1>1. JobsInv => ScheduleKept
  BY DEF JobsInv, SchedulesInv
<1> QED BY <1>1, JobsInvHolds, PTL

\* A backup whose scope and folded name no other has keeps its dumps (dumpAndStoreBackup): the key
\* of a successful run holds a dump of its own job, whatever the other names fold to.
THEOREM DumpsAreOwn == ASSUME ScheduleAssumption PROVE Spec => []DumpIsOwn
<1>1. JobsInv => DumpIsOwn
  BY DEF JobsInv, RunsInv
<1> QED BY <1>1, JobsInvHolds, PTL

\* Only an executor that was overtaken between reading the clock and its update moves a job back
\* (executeCronJob, executeBackupJob); alone with its job, however late, none does.
THEOREM JobsMoveForward == ASSUME ScheduleAssumption PROVE Spec => NeverMovedBack
<1>1. ASSUME JobsInv, [Next]_vars
      PROVE  [\A j \in Jobs :
                job'[j].next < job[j].next /\ job'[j].sched = job[j].sched /\ job'[j].state = job[j].state
                /\ j \notin stale =>
                  \E x \in late : work[x].job = j /\ work[x].due = job'[j].next
                                /\ work'[x].due = NoTime]_vars
  BY <1>1, MovesForward DEF JobsInv
<1> QED BY <1>1, JobsInvHolds, PTL DEF Spec, NeverMovedBack
===============================================================================
