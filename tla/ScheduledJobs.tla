---------------------------- MODULE ScheduledJobs ----------------------------
(***************************************************************************)
(* Scheduled work: the HTTP cron jobs (core/cron.go) and the database      *)
(* backups (core/backups.go).  The ops worker of every replica claims due  *)
(* jobs and executes them, an administrator may run a job at once, and may *)
(* change or delete a cron job while it runs.                              *)
(*                                                                         *)
(* A schedule is the set of its instants, or an interval.  An executor is  *)
(* an ops worker or an HTTP request; it works with the copy of the job     *)
(* that it read.  The advisory lock of RunDueCronJobs and RunDueBackupJobs *)
(* is gone when the jobs are executed, so a claim is one step and protects *)
(* nothing after it; an executor reads the clock in one step and moves the *)
(* job in another.                                                         *)
(***************************************************************************)
EXTENDS Naturals, FiniteSetsExt, Functions

CONSTANTS
  CronJobs, BackupJobs,
  Schedules,     \* the instants of a cron expression, or the interval of an @every
  RetryCount,    \* retry_count of every cron job; a backup has one attempt
  Name,          \* Name[j]: the name of backup job j, which nothing keeps unique
  Scope,         \* Scope[j]: its scope, the whole instance or a project
  Folded,        \* Folded[n]: name n in lower case, spaces and slashes made dashes
  Limit,         \* jobs of one claim: 5 cron jobs, 2 backups
  Workers,       \* ops workers, one per replica
  RunRequests,   \* requests that run a job at once, one job each
  MaxTime,       \* bound: the last instant
  MaxRuns,       \* bound: rows of cron_runs and backup_runs
  MaxFaults,     \* bound: faults
  Environment,
  NoJob

Behaviours ==
  { "createFails",  \* the row of a run cannot be inserted
    "finishFails",  \* ... or not be finished
    "advanceFails", \* next_run_at cannot be updated
    "interrupted" } \* an executor's context ends, or its process

Jobs == CronJobs \cup BackupJobs
Executors == Workers \cup RunRequests
Times == 1 .. MaxTime
NoTime == 0
Runs == 1 .. MaxRuns
NoRun == 0
NoSchedule == [at |-> {}, every |-> 0]

\* The key of a dump has the scope of the job and its name, folded, after the second.
KeyName(j) == <<Scope[j], Folded[Name[j]]>>
Keys == Times \X {KeyName(j) : j \in BackupJobs}

ASSUME ScheduleAssumption ==
  /\ CronJobs \cap BackupJobs = {} /\ NoJob \notin Jobs
  /\ Workers \cap RunRequests = {}
  /\ Schedules \subseteq [at : SUBSET Times, every : Nat]
  /\ BackupJobs \subseteq DOMAIN Name /\ BackupJobs \subseteq DOMAIN Scope
  /\ \A j \in BackupJobs : Name[j] \in DOMAIN Folded
  /\ RetryCount \in Nat /\ Limit \in Nat \ {0}
  /\ MaxTime \in Nat /\ MaxRuns \in Nat /\ MaxFaults \in Nat
  /\ Environment \subseteq Behaviours

VARIABLES
  clock,
  job,      \* cron_jobs, backup_jobs
  run,      \* cron_runs, backup_runs
  store,    \* the object store: whose dump a key holds
  batch,    \* the jobs an executor has still to do, with the schedules it read
  work,     \* the job it is executing
  (* history *)
  claimed,  \* the occurrence of a job that workers claimed last
  repeated, \* jobs with an occurrence that was claimed twice
  excused,  \* jobs that met a fault or overlapping executors
  stale,    \* jobs updated while an executor held an older copy
  orphaned, \* runs whose executor was lost
  late,     \* executors overtaken by another between their clock reading and their update
  faults

history == <<claimed, repeated, excused, stale, orphaned, late, faults>>
vars == <<clock, job, run, store, batch, work, history>>

Idle == [job |-> NoJob, attempt |-> 0, row |-> NoRun, stage |-> "idle", stamp |-> NoTime,
         due |-> NoTime]

Batches == UNION {[B -> Schedules] : B \in SUBSET Jobs}

TypeOK ==
  /\ clock \in 0 .. MaxTime
  /\ job \in [Jobs -> [state : {"absent", "enabled", "disabled", "deleted"},
                       sched : Schedules \cup {NoSchedule}, next : Nat]]
  /\ run \in [Runs -> [job : Jobs \cup {NoJob},
                       status : {"none", "running", "success", "error", "deleted"},
                       stamp : Times \cup {NoTime}]]
  /\ store \in [Keys -> Jobs \cup {NoJob}]
  /\ batch \in [Executors -> Batches]
  /\ work \in [Executors -> [job : Jobs \cup {NoJob}, attempt : 0 .. RetryCount + 1,
                             row : Runs \cup {NoRun},
                             stage : {"idle", "create", "running", "advance", "failed"},
                             stamp : Times \cup {NoTime}, due : Nat]]
  /\ claimed \in [Jobs -> Nat]
  /\ repeated \in SUBSET Jobs /\ excused \in SUBSET Jobs /\ stale \in SUBSET Jobs
  /\ orphaned \in SUBSET Runs /\ late \in SUBSET Executors
  /\ faults \in 0 .. MaxFaults

Init ==
  /\ clock = 0
  /\ job = [j \in Jobs |-> [state |-> "absent", sched |-> NoSchedule, next |-> NoTime]]
  /\ run = [k \in Runs |-> [job |-> NoJob, status |-> "none", stamp |-> NoTime]]
  /\ store = [key \in Keys |-> NoJob]
  /\ batch = [x \in Executors |-> <<>>]
  /\ work = [x \in Executors |-> Idle]
  /\ claimed = [j \in Jobs |-> NoTime]
  /\ repeated = {} /\ excused = {} /\ stale = {} /\ orphaned = {} /\ late = {}
  /\ faults = 0

------------------------------------------------------------------------------
(* Schedules *)

\* An interval from t, or the first instant after t; none when there is none within a year.
NextScheduledTime(s, t) ==
  IF s.every # 0 THEN t + s.every
  ELSE IF \E n \in s.at : n > t THEN Min({n \in s.at : n > t}) ELSE NoTime

Exists(j) == job[j].state \in {"enabled", "disabled"}

IsDue(j) == job[j].state = "enabled" /\ job[j].next # NoTime /\ job[j].next <= clock

Held(x, j) == j \in DOMAIN batch[x]

Tick ==
  /\ clock < MaxTime
  /\ clock' = clock + 1
  /\ UNCHANGED <<job, run, store, batch, work, history>>

------------------------------------------------------------------------------
(* The administrator *)

\* A schedule without a next instant is refused.
SaveJob(j, s, to) ==
  /\ NextScheduledTime(s, clock) # NoTime
  /\ job' = [job EXCEPT ![j] = [state |-> to, sched |-> s, next |-> NextScheduledTime(s, clock)]]

CreateJob(j, s, to) ==
  /\ job[j].state = "absent"
  /\ SaveJob(j, s, to)
  /\ UNCHANGED <<clock, run, store, batch, work, history>>

UpdateCronJob(j, s, to) ==
  /\ j \in CronJobs /\ Exists(j)
  /\ SaveJob(j, s, to)
  /\ stale' = IF \E x \in Executors : Held(x, j) THEN stale \cup {j} ELSE stale
  /\ UNCHANGED <<clock, run, store, batch, work, claimed, repeated, excused, orphaned, late, faults>>

\* The runs go with the job.
DeleteCronJob(j) ==
  /\ j \in CronJobs /\ Exists(j)
  /\ job' = [job EXCEPT ![j].state = "deleted"]
  /\ run' = [k \in Runs |-> IF run[k].job = j THEN [run[k] EXCEPT !.status = "deleted"] ELSE run[k]]
  /\ UNCHANGED <<clock, store, batch, work, history>>

\* RunCronJob, RunBackupJob: at once, enabled or not, due or not.
RunJob(x, j) ==
  /\ x \in RunRequests /\ batch[x] = <<>> /\ Exists(j)
  /\ batch' = [batch EXCEPT ![x] = [b \in {j} |-> job[j].sched]]
  /\ UNCHANGED <<clock, job, run, store, work, history>>

------------------------------------------------------------------------------
(* RunDueCronJobs, RunDueBackupJobs *)

\* The jobs of one kind that are due, the oldest first, as many as a claim takes.
Claimable(kind, B) ==
  LET due == {j \in kind : IsDue(j)} IN
  /\ B \subseteq due
  /\ Cardinality(B) = Limit \/ (B = due /\ Cardinality(B) < Limit)
  /\ \A b \in B, j \in due \ B : job[b].next <= job[j].next

Claim(x, kind) ==
  /\ x \in Workers /\ batch[x] = <<>>
  /\ \E B \in SUBSET kind :
       /\ Claimable(kind, B)
       /\ batch' = [batch EXCEPT ![x] = [j \in B |-> job[j].sched]]
       /\ claimed' = [j \in Jobs |-> IF j \in B THEN job[j].next ELSE claimed[j]]
       /\ repeated' = repeated \cup {j \in B : job[j].next = claimed[j]}
       /\ excused' = excused \cup {j \in B : \E o \in Executors : o # x /\ Held(o, j)}
  /\ UNCHANGED <<clock, job, run, store, work, stale, orphaned, late, faults>>

------------------------------------------------------------------------------
(* executeCronJob, executeBackupJob *)

\* The executor is through with its job.
Leave(x) ==
  /\ batch' = [batch EXCEPT ![x] = Restrict(@, DOMAIN @ \ {work[x].job})]
  /\ work' = [work EXCEPT ![x] = Idle]

\* A fault: what it costs is history.
Fault(kind, x) ==
  /\ kind \in Environment /\ faults < MaxFaults
  /\ faults' = faults + 1
  /\ excused' = excused \cup {work[x].job}

Begin(x) ==
  /\ work[x].stage = "idle"
  /\ \E j \in DOMAIN batch[x] :
       work' = [work EXCEPT ![x] = [Idle EXCEPT !.job = j, !.attempt = 1, !.stage = "create"]]
  /\ UNCHANGED <<clock, job, run, store, batch, history>>

CreateRun(x) ==
  /\ work[x].stage = "create" /\ Exists(work[x].job)
  /\ \E k \in Runs :
       /\ run[k].status = "none" /\ \A i \in Runs : run[i].status = "none" => k <= i
       /\ run' = [run EXCEPT ![k] = [job |-> work[x].job, status |-> "running", stamp |-> NoTime]]
       /\ work' = [work EXCEPT ![x].row = k, ![x].stage = "running"]
  /\ UNCHANGED <<clock, job, store, batch, history>>

\* Mutant: the executor tries the same job again.
CreateRunFails_Endless(x) ==
  /\ work[x].stage = "create"
  /\ \/ ~Exists(work[x].job) /\ UNCHANGED <<excused, faults>>
     \/ Fault("createFails", x)
  /\ work' = [work EXCEPT ![x] = Idle]
  /\ UNCHANGED <<clock, job, run, store, batch, claimed, repeated, stale, orphaned, late>>

\* The job was deleted meanwhile (the foreign key fails), or the database does.
CreateRunFails(x) ==
  /\ work[x].stage = "create"
  /\ \/ ~Exists(work[x].job) /\ UNCHANGED <<excused, faults>>
     \/ Fault("createFails", x)
  /\ Leave(x)
  /\ UNCHANGED <<clock, job, run, store, claimed, repeated, stale, orphaned, late>>

\* Mutant: the key is the second alone.
DumpAndStore_NamelessKey(x) ==
  /\ work[x].stage = "running" /\ work[x].stamp = NoTime
  /\ work[x].job \in BackupJobs /\ clock \in Times
  /\ work' = [work EXCEPT ![x].stamp = clock]
  /\ store' = [key \in Keys |-> IF key[1] = clock THEN work[x].job ELSE store[key]]
  /\ UNCHANGED <<clock, job, run, batch, history>>

\* dumpAndStoreBackup: what the key had before is replaced.
DumpAndStore(x) ==
  /\ work[x].stage = "running" /\ work[x].stamp = NoTime
  /\ work[x].job \in BackupJobs /\ clock \in Times
  /\ work' = [work EXCEPT ![x].stamp = clock]
  /\ store' = [store EXCEPT ![<<clock, KeyName(work[x].job)>>] = work[x].job]
  /\ UNCHANGED <<clock, job, run, batch, history>>

\* Mutant: the error of a run is not written.
FinishRun_SuccessOnly(x) ==
  /\ work[x].stage = "running"
  /\ \E result \in {"success", "error"} :
       /\ work[x].job \in BackupJobs => (result = "success" <=> work[x].stamp # NoTime)
       /\ run' = [run EXCEPT ![work[x].row] =
                    IF @.status = "deleted" \/ result = "error" THEN @
                    ELSE [run[work[x].row] EXCEPT !.status = result, !.stamp = work[x].stamp]]
       /\ work' = [work EXCEPT ![x].stage = IF result = "success" THEN "advance" ELSE "failed"]
  /\ UNCHANGED <<clock, job, store, batch, history>>

\* The HTTP call or the dump is over; a dump that was stored is a success.
FinishRun(x) ==
  /\ work[x].stage = "running"
  /\ \E result \in {"success", "error"} :
       /\ work[x].job \in BackupJobs => (result = "success" <=> work[x].stamp # NoTime)
       /\ run' = [run EXCEPT ![work[x].row] =
                    IF @.status = "deleted" THEN @
                    ELSE [run[work[x].row] EXCEPT !.status = result, !.stamp = work[x].stamp]]
       /\ work' = [work EXCEPT ![x].stage = IF result = "success" THEN "advance" ELSE "failed"]
  /\ UNCHANGED <<clock, job, store, batch, history>>

FinishRunFails(x) ==
  /\ work[x].stage = "running"
  /\ Fault("finishFails", x)
  /\ orphaned' = orphaned \cup {work[x].row}
  /\ Leave(x)
  /\ UNCHANGED <<clock, job, run, store, claimed, repeated, stale, late>>

\* Mutant: one attempt too many.
Retries_OneMore(x) ==
  work[x].stage = "failed" /\ work[x].job \in CronJobs /\ work[x].attempt <= RetryCount + 1

\* Another attempt at a cron job that failed, or the next job.
Retries(x) ==
  work[x].stage = "failed" /\ work[x].job \in CronJobs /\ work[x].attempt <= RetryCount

Continue(x) ==
  IF Retries(x)
  THEN /\ work' = [work EXCEPT ![x] =
                      [work[x] EXCEPT !.attempt = work[x].attempt + 1, !.row = NoRun, !.stage = "create",
                                !.due = NoTime]]
       /\ UNCHANGED batch
  ELSE Leave(x)

\* Mutant: the next run is computed from the occurrence, not from the clock.
ReadClock_FromOccurrence(x) ==
  /\ work[x].stage \in {"advance", "failed"} /\ work[x].due = NoTime
  /\ LET j == work[x].job  next == NextScheduledTime(batch[x][j], job[j].next) IN
       IF next = NoTime
       THEN Continue(x) /\ excused' = excused \cup {j} /\ UNCHANGED late
       ELSE /\ work' = [work EXCEPT ![x].due = next]
            /\ late' = late \ {x}
            /\ UNCHANGED <<batch, excused>>
  /\ UNCHANGED <<clock, job, run, store, claimed, repeated, stale, orphaned, faults>>

\* Mutant: the next run is computed from the occurrence that was claimed.
ReadClock_FromClaim(x) ==
  /\ work[x].stage \in {"advance", "failed"} /\ work[x].due = NoTime
  /\ LET j == work[x].job  next == NextScheduledTime(batch[x][j], claimed[j]) IN
       IF next = NoTime
       THEN Continue(x) /\ excused' = excused \cup {j} /\ UNCHANGED late
       ELSE /\ work' = [work EXCEPT ![x].due = next]
            /\ late' = late \ {x}
            /\ UNCHANGED <<batch, excused>>
  /\ UNCHANGED <<clock, job, run, store, claimed, repeated, stale, orphaned, faults>>

\* After every attempt the next run is computed from the clock and the schedule
\* that was read with the job.  A schedule that has no next instant leaves the job
\* as it is.
ReadClock(x) ==
  /\ work[x].stage \in {"advance", "failed"} /\ work[x].due = NoTime
  /\ LET j == work[x].job  next == NextScheduledTime(batch[x][j], clock) IN
       IF next = NoTime
       THEN Continue(x) /\ excused' = excused \cup {j} /\ UNCHANGED late
       ELSE /\ work' = [work EXCEPT ![x].due = next]
            /\ late' = late \ {x}
            /\ UNCHANGED <<batch, excused>>
  /\ UNCHANGED <<clock, job, run, store, claimed, repeated, stale, orphaned, faults>>

\* The other executors of job j that have read the clock already.
Overtaken(x, j) == {o \in Executors \ {x} : work[o].job = j /\ work[o].due # NoTime}

\* Mutant: only a success moves the job on.
Advance_OnSuccess(x) ==
  /\ work[x].stage \in {"advance", "failed"} /\ work[x].due # NoTime
  /\ LET j == work[x].job IN
       /\ job' = IF Exists(j) /\ work[x].stage = "advance"
                 THEN [job EXCEPT ![j].next = work[x].due] ELSE job
       /\ late' = late \cup Overtaken(x, j)
  /\ Continue(x)
  /\ UNCHANGED <<clock, run, store, claimed, repeated, excused, stale, orphaned, faults>>

\* The update says only which job, not what it was: whoever comes last wins.
Advance(x) ==
  /\ work[x].stage \in {"advance", "failed"} /\ work[x].due # NoTime
  /\ LET j == work[x].job IN
       /\ job' = IF Exists(j) THEN [job EXCEPT ![j].next = work[x].due] ELSE job
       /\ late' = late \cup Overtaken(x, j)
  /\ Continue(x)
  /\ UNCHANGED <<clock, run, store, claimed, repeated, excused, stale, orphaned, faults>>

\* The error of the update is dropped.
AdvanceFails(x) ==
  /\ work[x].stage \in {"advance", "failed"} /\ work[x].due # NoTime
  /\ Fault("advanceFails", x)
  /\ Continue(x)
  /\ UNCHANGED <<clock, job, run, store, claimed, repeated, stale, orphaned, late>>

\* The thirty minutes of a tick are over, the client of a request is gone, the
\* server shuts down or dies: whatever was under way stays as it is.
Interrupted(x) ==
  /\ "interrupted" \in Environment /\ faults < MaxFaults
  /\ batch[x] # <<>>
  /\ faults' = faults + 1
  /\ excused' = excused \cup DOMAIN batch[x]
  /\ orphaned' = IF work[x].stage = "running" THEN orphaned \cup {work[x].row} ELSE orphaned
  /\ batch' = [batch EXCEPT ![x] = <<>>]
  /\ work' = [work EXCEPT ![x] = Idle]
  /\ UNCHANGED <<clock, job, run, store, claimed, repeated, stale, late>>

\* An executor goes on with the job it has.
Execute(x) ==
  \/ Begin(x) \/ CreateRun(x) \/ CreateRunFails(x) \/ DumpAndStore(x)
  \/ FinishRun(x) \/ FinishRunFails(x) \/ ReadClock(x) \/ Advance(x) \/ AdvanceFails(x)

Next ==
  \/ Tick
  \/ \E j \in Jobs, s \in Schedules, to \in {"enabled", "disabled"} :
       CreateJob(j, s, to) \/ UpdateCronJob(j, s, to)
  \/ \E j \in Jobs : DeleteCronJob(j)
  \/ \E x \in Executors, j \in Jobs : RunJob(x, j)
  \/ \E x \in Executors : \E kind \in {CronJobs, BackupJobs} : Claim(x, kind)
  \/ \E x \in Executors : Execute(x) \/ Interrupted(x)

Spec == Init /\ [][Next]_vars

------------------------------------------------------------------------------
(* Properties *)

\* A run that says it is running is being executed, unless its executor was
\* lost: retries, deleted jobs and overlapping executors leave none behind.
RunningIsExecuted ==
  \A k \in Runs : run[k].status = "running" /\ k \notin orphaned =>
    \E x \in Executors : work[x].stage = "running" /\ work[x].row = k

\* Without a fault, without another executor of the same job and as long as its
\* schedule goes on, an occurrence of a job is claimed once.
OncePerOccurrence == repeated \subseteq excused

\* A job that runs on a copy of its current schedule is never put off beyond
\* that schedule, whoever executes it and however long it takes.
NotPutOff(j) ==
  LET next == NextScheduledTime(job[j].sched, clock) IN next # NoTime => job[j].next <= next
ScheduleKept == \A j \in Jobs : Exists(j) /\ j \notin stale => NotPutOff(j)

\* Only saving a job makes it due earlier, or an executor that another one of the
\* same job overtook between reading the clock and its update: nobody else makes an
\* occurrence due that was over.
NeverMovedBack ==
  [][\A j \in Jobs :
       job'[j].next < job[j].next /\ job'[j].sched = job[j].sched /\ job'[j].state = job[j].state
       /\ j \notin stale =>
         \E x \in late : work[x].job = j /\ work[x].due = job'[j].next /\ work'[x].due = NoTime]_vars

\* No backup but job j writes dumps under its folded name and scope.
NameIsOwn(j) == \A i \in BackupJobs \ {j} : KeyName(i) # KeyName(j)

\* The dump under the key of a successful run is one of its own job if no other
\* backup of that scope folds to its name, whatever else is stored in that second.
DumpIsOwn ==
  \A k \in Runs : run[k].status = "success" /\ run[k].job \in BackupJobs /\ NameIsOwn(run[k].job) =>
    store[<<run[k].stamp, KeyName(run[k].job)>>] = run[k].job

\* What core/cron.go says of UpdateCronJob: it corrects a wrong schedule.  Once
\* nobody executes the job it is due when the saved schedule says.
CorrectionHolds ==
  \A j \in CronJobs : Exists(j) /\ (\A x \in Executors : ~Held(x, j)) => NotPutOff(j)

------------------------------------------------------------------------------
(* Liveness: every tick claims jobs of both kinds if it has time for them, and *)
(* an executor goes on.  Nothing says that a job ever succeeds.                *)

Fairness ==
  /\ \A x \in Workers : SF_vars(Claim(x, CronJobs)) /\ SF_vars(Claim(x, BackupJobs))
  /\ \A x \in Executors : WF_vars(Execute(x))

FairSpec == Spec /\ Fairness

\* The bound on the rows of the runs is reached.
NoRunsLeft == \A k \in Runs : run[k].status # "none"

\* A due job is taken up and moved on, whatever happened to the executors that
\* had it before, unless its schedule has no instant left.
DueJobMovesOn ==
  \A j \in Jobs :
    IsDue(j) ~> (~IsDue(j) \/ NextScheduledTime(job[j].sched, clock) = NoTime \/ NoRunsLeft)
==============================================================================
