---------------------------- MODULE WebhookQueue -----------------------------
(***************************************************************************)
(* Outbound webhooks (core/webhooks.go): the calls that enqueue one        *)
(* delivery per matching hook, and the runners that send due deliveries,   *)
(* one on every replica, driven by the ops worker.                         *)
(*                                                                         *)
(* next_attempt_at is the function due: TRUE when it has passed.  The      *)
(* advisory lock of a runner belongs to the transaction that selects the   *)
(* batch and is gone when the batch is sent, so a claim is one step and    *)
(* protects nothing after it.                                              *)
(***************************************************************************)
EXTENDS Naturals, FiniteSetsExt, Functions

CONSTANTS
  Hooks,         \* webhooks, each created and deleted at most once
  Matches,       \* webhookMatchesEvent, as a set of <<hook, event>>
  Unreadable,    \* hooks whose secret no longer decrypts
  MaxAttempts,   \* max_attempts, the same for every hook
  Calls,         \* calls of EnqueueRecordWebhookDeliveries
  EventOf,       \* EventOf[c]: the event call c is about
  MaxDeliveries, \* bound: rows of webhook_deliveries
  Replicas,
  BatchSize,     \* limit 10
  MaxLost,       \* bound: sends of one delivery that nobody records
  Environment,
  NoHook, NoCall

Behaviours ==
  { "insertFails",   \* an insert of a delivery fails
    "recordFails",   \* the update after a send fails
    "interrupted" }  \* a runner's context ends, or its process

Deliveries == 1 .. MaxDeliveries
NoDelivery == 0

ASSUME WebhookAssumption ==
  /\ NoHook \notin Hooks /\ NoCall \notin Calls
  /\ Unreadable \subseteq Hooks
  /\ MaxAttempts \in Nat \ {0}
  /\ BatchSize \in Nat \ {0}
  /\ MaxDeliveries \in Nat /\ MaxLost \in Nat
  /\ Environment \subseteq Behaviours

VARIABLES
  hook,                          \* webhooks
  call, targets,                 \* the calls that enqueue
  dhook, status, attempts, due,  \* webhook_deliveries
  jobs, current, outcome,        \* the runners
  (* history: what a call saw, whose row it is, what the receivers got *)
  seen, dcall, sends, unrecorded, overlapped

calling == <<call, targets, seen>>
table == <<dhook, status, attempts, due, dcall>>
runners == <<jobs, current, outcome>>
received == <<sends, unrecorded>>
vars == <<hook, calling, table, runners, received, overlapped>>

\* The batch of a runner maps its deliveries to the attempts it read.
Batches == UNION {[B -> 0 .. MaxAttempts - 1] : B \in SUBSET Deliveries}

TypeOK ==
  /\ hook \in [Hooks -> {"absent", "enabled", "disabled", "deleted"}]
  /\ call \in [Calls -> {"idle", "inserting", "done", "failed"}]
  /\ targets \in [Calls -> SUBSET Hooks]
  /\ seen \in [Calls -> SUBSET Hooks]
  /\ dhook \in [Deliveries -> Hooks \cup {NoHook}]
  /\ dcall \in [Deliveries -> Calls \cup {NoCall}]
  /\ status \in [Deliveries -> {"none", "pending", "success", "error", "deleted"}]
  /\ attempts \in [Deliveries -> 0 .. MaxAttempts]
  /\ due \in [Deliveries -> BOOLEAN]
  /\ jobs \in [Replicas -> Batches]
  /\ current \in [Replicas -> Deliveries \cup {NoDelivery}]
  /\ outcome \in [Replicas -> {"none", "ok", "error"}]
  /\ sends \in [Deliveries -> Nat]
  /\ unrecorded \in [Deliveries -> 0 .. MaxLost]
  /\ overlapped \in SUBSET Deliveries

Init ==
  /\ hook = [h \in Hooks |-> "absent"]
  /\ call = [c \in Calls |-> "idle"]
  /\ targets = [c \in Calls |-> {}]
  /\ seen = [c \in Calls |-> {}]
  /\ dhook = [d \in Deliveries |-> NoHook]
  /\ dcall = [d \in Deliveries |-> NoCall]
  /\ status = [d \in Deliveries |-> "none"]
  /\ attempts = [d \in Deliveries |-> 0]
  /\ due = [d \in Deliveries |-> FALSE]
  /\ jobs = [r \in Replicas |-> <<>>]
  /\ current = [r \in Replicas |-> NoDelivery]
  /\ outcome = [r \in Replicas |-> "none"]
  /\ sends = [d \in Deliveries |-> 0]
  /\ unrecorded = [d \in Deliveries |-> 0]
  /\ overlapped = {}

------------------------------------------------------------------------------
(* Managing webhooks *)

CreateWebhook(h) ==
  /\ hook[h] = "absent"
  /\ \E to \in {"enabled", "disabled"} : hook' = [hook EXCEPT ![h] = to]
  /\ UNCHANGED <<calling, table, runners, received, overlapped>>

\* The deliveries go with their webhook (on delete cascade).
DeleteWebhook(h) ==
  /\ hook[h] \in {"enabled", "disabled"}
  /\ hook' = [hook EXCEPT ![h] = "deleted"]
  /\ status' = [d \in Deliveries |-> IF dhook[d] = h THEN "deleted" ELSE status[d]]
  /\ UNCHANGED <<calling, dhook, attempts, due, dcall, runners, received, overlapped>>

------------------------------------------------------------------------------
(* EnqueueRecordWebhookDeliveries: one query for the hooks, then one insert  *)
(* per target, each committed on its own                                     *)

Enabled == {h \in Hooks : hook[h] = "enabled"}

SelectTargets(c) ==
  /\ call[c] = "idle"
  /\ call' = [call EXCEPT ![c] = "inserting"]
  /\ targets' = [targets EXCEPT ![c] = {h \in Enabled : <<h, EventOf[c]>> \in Matches}]
  /\ seen' = [seen EXCEPT ![c] = Enabled]
  /\ UNCHANGED <<hook, table, runners, received, overlapped>>

InsertDelivery(c, h) ==
  /\ call[c] = "inserting" /\ h \in targets[c] /\ hook[h] # "deleted"
  /\ \E d \in Deliveries :
       /\ status[d] = "none"
       /\ \A b \in Deliveries : status[b] = "none" => d <= b
       /\ dhook' = [dhook EXCEPT ![d] = h]
       /\ dcall' = [dcall EXCEPT ![d] = c]
       /\ status' = [status EXCEPT ![d] = "pending"]
       /\ due' = [due EXCEPT ![d] = TRUE]
  /\ targets' = [targets EXCEPT ![c] = @ \ {h}]
  /\ UNCHANGED <<hook, call, seen, attempts, runners, received, overlapped>>

\* Mutant: the error is logged and the loop left.
InsertFails_Swallowed(c, h) ==
  /\ call[c] = "inserting" /\ h \in targets[c]
  /\ hook[h] = "deleted" \/ "insertFails" \in Environment
  /\ call' = [call EXCEPT ![c] = "done"]
  /\ targets' = [targets EXCEPT ![c] = {}]
  /\ UNCHANGED <<hook, seen, table, runners, received, overlapped>>

\* The hook is gone (its foreign key fails the insert) or the database fails:
\* the call returns the error and the targets that are left get nothing.
InsertFails(c, h) ==
  /\ call[c] = "inserting" /\ h \in targets[c]
  /\ hook[h] = "deleted" \/ "insertFails" \in Environment
  /\ call' = [call EXCEPT ![c] = "failed"]
  /\ targets' = [targets EXCEPT ![c] = {}]
  /\ UNCHANGED <<hook, seen, table, runners, received, overlapped>>

EnqueueDone(c) ==
  /\ call[c] = "inserting" /\ targets[c] = {}
  /\ call' = [call EXCEPT ![c] = "done"]
  /\ UNCHANGED <<hook, targets, seen, table, runners, received, overlapped>>

------------------------------------------------------------------------------
(* RunDueWebhookDeliveries *)

\* Mutant: the attempts are not compared with max_attempts.
Due_NoLimit ==
  {d \in Deliveries : status[d] \in {"pending", "error"} /\ due[d] /\ dhook[d] \in Enabled}

\* Mutant: a failed delivery is not selected again.
Due_PendingOnly ==
  {d \in Deliveries : /\ status[d] = "pending" /\ due[d]
                      /\ dhook[d] \in Enabled /\ attempts[d] < MaxAttempts}

Due ==
  {d \in Deliveries : /\ status[d] \in {"pending", "error"} /\ due[d]
                      /\ dhook[d] \in Enabled /\ attempts[d] < MaxAttempts}

\* One secret that does not decrypt ends the whole claim, with nothing changed.
Poisoned(B) == \E d \in B : dhook[d] \in Unreadable

Holds(r, d) == d \in DOMAIN jobs[r]

\* The batch is BatchSize of the due deliveries, or all of them.
Claim(r) ==
  /\ DOMAIN jobs[r] = {}
  /\ \E B \in SUBSET Due :
       /\ ~Poisoned(B)
       /\ Cardinality(B) = BatchSize \/ (B = Due /\ Cardinality(B) < BatchSize)
       /\ jobs' = [jobs EXCEPT ![r] = [d \in B |-> attempts[d]]]
       /\ overlapped' = overlapped \cup {d \in B : \E o \in Replicas : o # r /\ Holds(o, d)}
  /\ UNCHANGED <<hook, calling, table, current, outcome, received>>

\* sendWebhookDelivery: an error may still have reached the receiver.
Send(r) ==
  /\ current[r] = NoDelivery
  /\ \E d \in DOMAIN jobs[r], result \in {"ok", "error"} :
       /\ current' = [current EXCEPT ![r] = d]
       /\ outcome' = [outcome EXCEPT ![r] = result]
       /\ sends' = [sends EXCEPT ![d] = @ + 1]
  /\ UNCHANGED <<hook, calling, table, jobs, unrecorded, overlapped>>

\* The runner is through with its current delivery.
Release(r) ==
  /\ jobs' = [jobs EXCEPT ![r] = Restrict(@, DOMAIN @ \ {current[r]})]
  /\ current' = [current EXCEPT ![r] = NoDelivery]
  /\ outcome' = [outcome EXCEPT ![r] = "none"]

\* Mutant: a failed attempt is not counted.
Finish_Uncounted(r) ==
  /\ current[r] # NoDelivery
  /\ status' = [status EXCEPT ![current[r]] =
                  IF @ = "deleted" THEN @ ELSE IF outcome[r] = "ok" THEN "success" ELSE "error"]
  /\ attempts' = [attempts EXCEPT ![current[r]] =
                    IF status[current[r]] = "deleted" \/ outcome[r] = "error"
                    THEN @ ELSE jobs[r][current[r]] + 1]
  /\ due' = [due EXCEPT ![current[r]] = outcome[r] = "ok"]
  /\ Release(r)
  /\ UNCHANGED <<hook, calling, dhook, dcall, received, overlapped>>

\* finishWebhookDelivery writes what the runner read plus one, whatever the row
\* holds by now; a deleted row stays deleted.
Finish(r) ==
  /\ current[r] # NoDelivery
  /\ status' = [status EXCEPT ![current[r]] =
                  IF @ = "deleted" THEN @ ELSE IF outcome[r] = "ok" THEN "success" ELSE "error"]
  /\ attempts' = [attempts EXCEPT ![current[r]] =
                    IF status[current[r]] = "deleted" THEN @ ELSE jobs[r][current[r]] + 1]
  /\ due' = [due EXCEPT ![current[r]] = outcome[r] = "ok"]
  /\ Release(r)
  /\ UNCHANGED <<hook, calling, dhook, dcall, received, overlapped>>

\* A send the table never hears of.
LoseRecord(d) ==
  /\ d # NoDelivery => unrecorded[d] < MaxLost
  /\ unrecorded' = IF d = NoDelivery THEN unrecorded ELSE [unrecorded EXCEPT ![d] = @ + 1]

\* The error of the update is dropped as long as the context lives.
FinishFails(r) ==
  /\ "recordFails" \in Environment
  /\ current[r] # NoDelivery
  /\ LoseRecord(current[r])
  /\ Release(r)
  /\ UNCHANGED <<hook, calling, table, sends, overlapped>>

\* The thirty minutes of the tick are over, the server shuts down or it dies:
\* the batch is dropped, and nothing is written about the send under way.
Interrupted(r) ==
  /\ "interrupted" \in Environment
  /\ DOMAIN jobs[r] # {}
  /\ LoseRecord(current[r])
  /\ jobs' = [jobs EXCEPT ![r] = <<>>]
  /\ current' = [current EXCEPT ![r] = NoDelivery]
  /\ outcome' = [outcome EXCEPT ![r] = "none"]
  /\ UNCHANGED <<hook, calling, table, sends, overlapped>>

\* The backoff of a failed delivery is over.
Elapse(d) ==
  /\ status[d] = "error" /\ ~due[d]
  /\ due' = [due EXCEPT ![d] = TRUE]
  /\ UNCHANGED <<hook, calling, dhook, status, attempts, dcall, runners, received, overlapped>>

CallStep(c) ==
  \/ SelectTargets(c) \/ EnqueueDone(c)
  \/ \E h \in Hooks : InsertDelivery(c, h) \/ InsertFails(c, h)

RunnerStep(r) ==
  Claim(r) \/ Send(r) \/ Finish(r) \/ FinishFails(r) \/ Interrupted(r)

Next ==
  \/ \E h \in Hooks : CreateWebhook(h) \/ DeleteWebhook(h)
  \/ \E c \in Calls : CallStep(c)
  \/ \E r \in Replicas : RunnerStep(r)
  \/ \E d \in Deliveries : Elapse(d)

Spec == Init /\ [][Next]_vars

------------------------------------------------------------------------------
(* Properties *)

\* A call that reports success has left a delivery for every hook that was
\* enabled when it looked, matches, and has not been deleted since.
EnqueueComplete ==
  \A c \in Calls, h \in Hooks :
    /\ call[c] = "done" /\ h \in seen[c] /\ hook[h] # "deleted"
    /\ <<h, EventOf[c]>> \in Matches
    => \E d \in Deliveries : dcall[d] = c /\ dhook[d] = h

Sending(d) == {r \in Replicas : current[r] = d}

\* Unless two runners held it at once, a delivery's attempts count its sends:
\* all but those whose update was lost and the one under way.  So a receiver
\* is called at most max_attempts times, and the lost ones.
AttemptsCountSends ==
  \A d \in Deliveries : d \notin overlapped /\ status[d] # "deleted" =>
    sends[d] = attempts[d] + unrecorded[d] + (IF Sending(d) = {} THEN 0 ELSE 1)

\* What core/ops_worker.go says of the advisory locks, for webhooks: two
\* replicas never execute the same due job at once.
NoConcurrentSend == \A d \in Deliveries : \A a, b \in Sending(d) : a = b

------------------------------------------------------------------------------
(* Liveness: the ticker starts the runner of every replica again and again,  *)
(* a runner is not interrupted for ever before it sends, a backoff ends.     *)
(* Nothing says that a receiver answers.                                     *)

Blocked == Poisoned(Due)

Fairness ==
  /\ \A r \in Replicas :
       WF_vars(~Blocked /\ Claim(r)) /\ SF_vars(Send(r)) /\ WF_vars(Finish(r) \/ FinishFails(r))
  /\ \A d \in Deliveries : WF_vars(Elapse(d))

FairSpec == Spec /\ Fairness

Settled(d) == status[d] \in {"success", "deleted"} \/ attempts[d] = MaxAttempts

\* Every delivery succeeds, spends its attempts or goes with its webhook, even
\* if runners overlap and overwrite each other's attempts; only a secret that
\* does not decrypt holds the queue up, for every hook there is.
Settles ==
  \A d \in Deliveries : status[d] = "pending" ~> Settled(d) \/ Blocked
==============================================================================
