---------------------------- MODULE WebhookProofs -----------------------------
(***************************************************************************)
(* Proofs about WebhookQueue, for any hooks, calls, runners, batches and   *)
(* faults.                                                                 *)
(***************************************************************************)
EXTENDS WebhookQueue, TLAPS

\* Of every hook a call saw there is a delivery, or it is still a target.
CallsOK ==
  \A c \in Calls :
    /\ call[c] = "done" => targets[c] = {}
    /\ call[c] \in {"inserting", "done"} =>
         \A h \in seen[c] : hook[h] # "deleted" /\ <<h, EventOf[c]>> \in Matches =>
           h \in targets[c] \/ \E d \in Deliveries : dcall[d] = c /\ dhook[d] = h

\* A row that was not inserted is nobody's.
FreeRows == \A d \in Deliveries : status[d] = "none" => dcall[d] = NoCall

\* A runner sends a delivery of its batch.  A delivery that no two runners held at once is held
\* by one, which read the attempts that the row still has.
CurrentOK == \A r \in Replicas : current[r] # NoDelivery => Holds(r, current[r])
HeldOnce ==
  \A d \in Deliveries \ overlapped :
    /\ \A r, o \in Replicas : Holds(r, d) /\ Holds(o, d) => r = o
    /\ status[d] # "deleted" => \A r \in Replicas : Holds(r, d) => jobs[r][d] = attempts[d]

WebhookInv == TypeOK /\ CallsOK /\ FreeRows /\ CurrentOK /\ HeldOnce /\ AttemptsCountSends

------------------------------------------------------------------------------
(* Batches *)

LEMMA BatchOf ==
  ASSUME NEW B \in SUBSET Deliveries, NEW f \in [B -> 0 .. MaxAttempts - 1]
  PROVE  f \in Batches
BY DEF Batches

LEMMA BatchIs ==
  ASSUME NEW f \in Batches
  PROVE  /\ DOMAIN f \subseteq Deliveries /\ f \in [DOMAIN f -> 0 .. MaxAttempts - 1]
BY DEF Batches

LEMMA SmallerBatch ==
  ASSUME NEW f \in Batches, NEW d
  PROVE  LET g == Restrict(f, DOMAIN f \ {d})
         IN /\ g \in Batches /\ DOMAIN g = DOMAIN f \ {d}
            /\ \A x \in DOMAIN g : g[x] = f[x]
<1> DEFINE g == Restrict(f, DOMAIN f \ {d})
           B == DOMAIN f \ {d}
<1>1. B \in SUBSET Deliveries /\ f \in [DOMAIN f -> 0 .. MaxAttempts - 1]
  BY BatchIs
<1>2. g \in [B -> 0 .. MaxAttempts - 1] /\ \A x \in B : g[x] = f[x]
  BY <1>1 DEF Restrict
<1>3. DOMAIN g = B
  BY DEF Restrict
<1> HIDE DEF g, B
<1>4. g \in Batches
  BY <1>1, <1>2, BatchOf
<1> QED BY <1>2, <1>3, <1>4 DEF B, g

LEMMA EmptyBatch == <<>> \in Batches /\ DOMAIN <<>> = {}
<1>1. <<>> \in [{} -> 0 .. MaxAttempts - 1] /\ DOMAIN <<>> = {}
  OBVIOUS
<1>2. {} \in SUBSET Deliveries
  OBVIOUS
<1> HIDE DEF Deliveries
<1> QED BY <1>1, <1>2, BatchOf

\* What the end of a send leaves of the runners: the runner has its batch without the delivery.
LEMMA Released ==
  ASSUME TypeOK, NEW r \in Replicas, Release(r)
  PROVE  /\ jobs' \in [Replicas -> Batches] /\ current' \in [Replicas -> Deliveries \cup {NoDelivery}]
         /\ outcome' \in [Replicas -> {"none", "ok", "error"}]
         /\ DOMAIN jobs'[r] = DOMAIN jobs[r] \ {current[r]}
         /\ \A d \in DOMAIN jobs'[r] : jobs'[r][d] = jobs[r][d]
         /\ \A o \in Replicas \ {r} : jobs'[o] = jobs[o] /\ current'[o] = current[o]
         /\ current'[r] = NoDelivery
<1> DEFINE g == Restrict(jobs[r], DOMAIN jobs[r] \ {current[r]})
<1>1. jobs[r] \in Batches
  BY DEF TypeOK
<1>2. /\ g \in Batches /\ DOMAIN g = DOMAIN jobs[r] \ {current[r]}
      /\ \A x \in DOMAIN g : g[x] = jobs[r][x]
  BY <1>1, SmallerBatch
<1>3. jobs' = [jobs EXCEPT ![r] = g]
  BY DEF Release
<1> HIDE DEF g, Batches
<1>4. /\ jobs' \in [Replicas -> Batches] /\ jobs'[r] = g
      /\ \A o \in Replicas \ {r} : jobs'[o] = jobs[o]
  BY <1>2, <1>3 DEF TypeOK
<1>5. /\ current' \in [Replicas -> Deliveries \cup {NoDelivery}] /\ current'[r] = NoDelivery
      /\ outcome' \in [Replicas -> {"none", "ok", "error"}]
      /\ \A o \in Replicas \ {r} : current'[o] = current[o]
  BY DEF Release, TypeOK
<1> QED BY <1>2, <1>4, <1>5

------------------------------------------------------------------------------
(* The steps of webhooks and calls *)

LEMMA WebhooksInitially == ASSUME WebhookAssumption, Init PROVE WebhookInv
<1>1. TypeOK
  <2>1. jobs \in [Replicas -> Batches]
    BY EmptyBatch DEF Init
  <2> QED BY <2>1 DEF Init, TypeOK, WebhookAssumption
<1>2. CallsOK /\ FreeRows /\ CurrentOK
  BY DEF Init, CallsOK, FreeRows, CurrentOK
<1>3. \A r \in Replicas, d \in Deliveries : ~Holds(r, d)
  BY EmptyBatch DEF Init, Holds
<1>4. \A d \in Deliveries : Sending(d) = {}
  BY DEF Init, Sending, Deliveries, NoDelivery
<1>5. HeldOnce /\ AttemptsCountSends
  BY <1>3, <1>4 DEF Init, HeldOnce, AttemptsCountSends
<1> QED BY <1>1, <1>2, <1>5 DEF WebhookInv

\* The runners and what counts for them stand still; rows only come and go.
LEMMA RunnersStand ==
  ASSUME WebhookInv, UNCHANGED <<runners, received, overlapped, attempts>>,
         \A d \in Deliveries : status'[d] # "deleted" => status[d] # "deleted"
  PROVE  CurrentOK' /\ HeldOnce' /\ AttemptsCountSends'
<1>1. CurrentOK'
  BY DEF WebhookInv, CurrentOK, Holds, runners
<1>2. HeldOnce'
  BY DEF WebhookInv, HeldOnce, Holds, runners
<1>3. \A d \in Deliveries : Sending(d)' = Sending(d)
  BY DEF Sending, runners
<1>4. AttemptsCountSends'
  BY <1>3 DEF WebhookInv, AttemptsCountSends, received
<1> QED BY <1>1, <1>2, <1>4

LEMMA CreateWebhookStep ==
  ASSUME WebhookInv, NEW h \in Hooks, CreateWebhook(h) PROVE WebhookInv'
<1>1. PICK to \in {"enabled", "disabled"} : hook' = [hook EXCEPT ![h] = to]
  BY DEF CreateWebhook
<1>2. UNCHANGED <<calling, table, runners, received, overlapped>> /\ hook[h] = "absent"
  BY DEF CreateWebhook
<1>3. TypeOK'
  BY <1>1, <1>2 DEF WebhookInv, TypeOK, calling, table, runners, received
<1>4. CallsOK' /\ FreeRows'
  <2>1. \A c \in Calls : seen[c] \subseteq Hooks
    BY DEF WebhookInv, TypeOK
  <2>2. \A x \in Hooks : hook'[x] # "deleted" => hook[x] # "deleted"
    BY <1>1, <1>2 DEF WebhookInv, TypeOK
  <2> QED BY <1>2, <2>1, <2>2 DEF WebhookInv, CallsOK, FreeRows, calling, table
<1>5. CurrentOK' /\ HeldOnce' /\ AttemptsCountSends'
  BY <1>2, RunnersStand DEF table
<1> QED BY <1>3, <1>4, <1>5 DEF WebhookInv

LEMMA DeleteWebhookStep ==
  ASSUME WebhookInv, NEW h \in Hooks, DeleteWebhook(h) PROVE WebhookInv'
<1>1. /\ hook' = [hook EXCEPT ![h] = "deleted"]
      /\ status' = [d \in Deliveries |-> IF dhook[d] = h THEN "deleted" ELSE status[d]]
      /\ UNCHANGED <<calling, dhook, attempts, due, dcall, runners, received, overlapped>>
  BY DEF DeleteWebhook
<1>2. TypeOK'
  BY <1>1 DEF WebhookInv, TypeOK, calling, runners, received
<1>3. CallsOK' /\ FreeRows'
  <2>1. \A c \in Calls : seen[c] \subseteq Hooks
    BY DEF WebhookInv, TypeOK
  <2>2. \A x \in Hooks : hook'[x] # "deleted" => hook[x] # "deleted"
    BY <1>1 DEF WebhookInv, TypeOK
  <2> QED BY <1>1, <2>1, <2>2 DEF WebhookInv, CallsOK, FreeRows, calling
<1>4. CurrentOK' /\ HeldOnce' /\ AttemptsCountSends'
  BY <1>1, RunnersStand
<1> QED BY <1>2, <1>3, <1>4 DEF WebhookInv

LEMMA SelectTargetsStep ==
  ASSUME WebhookInv, NEW c \in Calls, SelectTargets(c) PROVE WebhookInv'
<1> DEFINE T == {h \in Enabled : <<h, EventOf[c]>> \in Matches}
<1>1. /\ call' = [call EXCEPT ![c] = "inserting"] /\ targets' = [targets EXCEPT ![c] = T]
      /\ seen' = [seen EXCEPT ![c] = Enabled]
      /\ UNCHANGED <<hook, table, runners, received, overlapped>>
  BY DEF SelectTargets
<1>2. /\ T \subseteq Hooks /\ Enabled \subseteq Hooks
      /\ \A h \in Enabled : <<h, EventOf[c]>> \in Matches => h \in T
  BY DEF Enabled
<1> HIDE DEF T
<1>3. TypeOK'
  BY <1>1, <1>2 DEF WebhookInv, TypeOK, table, runners, received
<1>4. CallsOK' /\ FreeRows'
  BY <1>1, <1>2 DEF WebhookInv, TypeOK, CallsOK, FreeRows, table
<1>5. CurrentOK' /\ HeldOnce' /\ AttemptsCountSends'
  BY <1>1, RunnersStand DEF table
<1> QED BY <1>3, <1>4, <1>5 DEF WebhookInv

LEMMA InsertDeliveryStep ==
  ASSUME WebhookAssumption, WebhookInv, NEW c \in Calls, NEW h \in Hooks, InsertDelivery(c, h)
  PROVE  WebhookInv'
<1>1. PICK d \in Deliveries :
        /\ status[d] = "none" /\ dhook' = [dhook EXCEPT ![d] = h] /\ dcall' = [dcall EXCEPT ![d] = c]
        /\ status' = [status EXCEPT ![d] = "pending"] /\ due' = [due EXCEPT ![d] = TRUE]
  BY DEF InsertDelivery
<1>2. /\ call[c] = "inserting" /\ targets' = [targets EXCEPT ![c] = targets[c] \ {h}]
      /\ UNCHANGED <<hook, call, seen, attempts, runners, received, overlapped>>
  BY DEF InsertDelivery
<1>3. TypeOK'
  BY <1>1, <1>2 DEF WebhookInv, TypeOK, runners, received
<1>4. FreeRows'
  BY <1>1 DEF WebhookInv, TypeOK, FreeRows
<1>5. CallsOK'
  <2>1. dcall[d] = NoCall
    BY <1>1 DEF WebhookInv, FreeRows
  <2>2. /\ dcall'[d] = c /\ dhook'[d] = h
        /\ \A b \in Deliveries \ {d} : dcall'[b] = dcall[b] /\ dhook'[b] = dhook[b]
    BY <1>1 DEF WebhookInv, TypeOK
  <2>3. \A x \in Calls, g \in Hooks :
          (\E b \in Deliveries : dcall[b] = x /\ dhook[b] = g)
            => \E b \in Deliveries : dcall'[b] = x /\ dhook'[b] = g
    <3> TAKE x \in Calls, g \in Hooks
    <3> HAVE \E b \in Deliveries : dcall[b] = x /\ dhook[b] = g
    <3>1. PICK b \in Deliveries : dcall[b] = x /\ dhook[b] = g
      OBVIOUS
    <3>2. b # d
      BY <2>1, <3>1 DEF WebhookAssumption
    <3> QED BY <2>2, <3>1, <3>2
  <2>4. /\ targets'[c] = targets[c] \ {h} /\ \A x \in Calls \ {c} : targets'[x] = targets[x]
        /\ \A x \in Calls : seen[x] \subseteq Hooks
    BY <1>2 DEF WebhookInv, TypeOK
  <2>5. ASSUME NEW x \in Calls
        PROVE  /\ call'[x] = "done" => targets'[x] = {}
               /\ call'[x] \in {"inserting", "done"} =>
                    \A g \in seen'[x] : hook'[g] # "deleted" /\ <<g, EventOf[x]>> \in Matches =>
                      g \in targets'[x] \/ \E b \in Deliveries : dcall'[b] = x /\ dhook'[b] = g
    BY <1>2, <2>2, <2>3, <2>4 DEF WebhookInv, CallsOK
  <2> QED BY <2>5 DEF CallsOK
<1>6. CurrentOK' /\ HeldOnce' /\ AttemptsCountSends'
  <2>1. \A b \in Deliveries : status'[b] # "deleted" => status[b] # "deleted"
    BY <1>1 DEF WebhookInv, TypeOK
  <2> QED BY <1>2, <2>1, RunnersStand
<1> QED BY <1>3, <1>4, <1>5, <1>6 DEF WebhookInv

LEMMA CallEndsStep ==
  ASSUME WebhookInv, NEW c \in Calls,
         EnqueueDone(c) \/ \E h \in Hooks : InsertFails(c, h)
  PROVE  WebhookInv'
<1>1. UNCHANGED <<hook, seen, table, runners, received, overlapped>>
  BY DEF EnqueueDone, InsertFails
<1>2. CASE EnqueueDone(c)
  <2>1. /\ call[c] = "inserting" /\ targets[c] = {} /\ call' = [call EXCEPT ![c] = "done"]
        /\ UNCHANGED targets
    BY <1>2 DEF EnqueueDone
  <2>2. TypeOK'
    BY <1>1, <2>1 DEF WebhookInv, TypeOK, table, runners, received
  <2>3. CallsOK' /\ FreeRows'
    BY <1>1, <2>1 DEF WebhookInv, TypeOK, CallsOK, FreeRows, table
  <2> QED BY <1>1, <2>2, <2>3, RunnersStand DEF WebhookInv, table
<1>3. CASE \E h \in Hooks : InsertFails(c, h)
  <2>1. call' = [call EXCEPT ![c] = "failed"] /\ targets' = [targets EXCEPT ![c] = {}]
    BY <1>3 DEF InsertFails
  <2>2. TypeOK'
    BY <1>1, <2>1 DEF WebhookInv, TypeOK, table, runners, received
  <2>3. CallsOK' /\ FreeRows'
    BY <1>1, <2>1 DEF WebhookInv, TypeOK, CallsOK, FreeRows, table
  <2> QED BY <1>1, <2>2, <2>3, RunnersStand DEF WebhookInv, table
<1> QED BY <1>2, <1>3

------------------------------------------------------------------------------
(* The steps of the runners *)

LEMMA CallsStand ==
  ASSUME WebhookInv, UNCHANGED <<hook, calling, dhook, dcall>>,
         \A d \in Deliveries : status'[d] = "none" => status[d] = "none"
  PROVE  CallsOK' /\ FreeRows'
BY DEF WebhookInv, CallsOK, FreeRows, calling

LEMMA NoDeliveryIsNone == NoDelivery \notin Deliveries
BY DEF NoDelivery, Deliveries

LEMMA ClaimStep ==
  ASSUME WebhookAssumption, WebhookInv, NEW r \in Replicas, Claim(r) PROVE WebhookInv'
<1>1. PICK B \in SUBSET Due :
        /\ jobs' = [jobs EXCEPT ![r] = [d \in B |-> attempts[d]]]
        /\ overlapped' = overlapped \cup {d \in B : \E o \in Replicas : o # r /\ Holds(o, d)}
  BY DEF Claim
<1>2. DOMAIN jobs[r] = {} /\ UNCHANGED <<hook, calling, table, current, outcome, received>>
  BY DEF Claim
<1> DEFINE f == [d \in B |-> attempts[d]]
<1>3. B \subseteq Deliveries /\ \A d \in B : attempts[d] \in 0 .. MaxAttempts /\ attempts[d] < MaxAttempts
  BY <1>1 DEF Due, WebhookInv, TypeOK
<1>4. f \in [B -> 0 .. MaxAttempts - 1]
  BY <1>3 DEF WebhookAssumption
<1>5. f \in Batches /\ DOMAIN f = B /\ \A d \in B : f[d] = attempts[d]
  BY <1>3, <1>4, BatchOf
<1>6. jobs' = [jobs EXCEPT ![r] = f]
  BY <1>1
<1> HIDE DEF f, Batches
<1>7. /\ jobs' \in [Replicas -> Batches] /\ jobs'[r] = f
      /\ \A o \in Replicas \ {r} : jobs'[o] = jobs[o]
  BY <1>5, <1>6 DEF WebhookInv, TypeOK
<1>8. overlapped' \subseteq Deliveries
  BY <1>1, <1>3 DEF WebhookInv, TypeOK
<1>9. TypeOK'
  BY <1>2, <1>7, <1>8 DEF WebhookInv, TypeOK, calling, table, received
<1>10. CallsOK' /\ FreeRows'
  BY <1>2, CallsStand DEF table
<1>11. /\ \A d : Holds(r, d)' <=> d \in B
       /\ \A o \in Replicas \ {r} : \A d : Holds(o, d)' <=> Holds(o, d)
  BY <1>5, <1>7 DEF Holds
<1>12. CurrentOK'
  <2>1. current[r] = NoDelivery
    BY <1>2 DEF WebhookInv, CurrentOK, Holds
  <2> QED BY <1>2, <1>11, <2>1 DEF WebhookInv, CurrentOK
<1>13. ASSUME NEW d \in Deliveries, d \notin overlapped'
       PROVE  /\ \A a, o \in Replicas : Holds(a, d)' /\ Holds(o, d)' => a = o
              /\ status'[d] # "deleted" => \A a \in Replicas : Holds(a, d)' => jobs'[a][d] = attempts'[d]
  <2>1. d \notin overlapped /\ (d \in B => \A o \in Replicas : o # r => ~Holds(o, d))
    BY <1>1, <1>13
  <2>2. \A a, o \in Replicas : Holds(a, d) /\ Holds(o, d) => a = o
    BY <2>1 DEF WebhookInv, HeldOnce
  <2>3. \A a, o \in Replicas : Holds(a, d)' /\ Holds(o, d)' => a = o
    BY <1>11, <2>1, <2>2
  <2>4. status'[d] # "deleted" => \A a \in Replicas : Holds(a, d)' => jobs'[a][d] = attempts'[d]
    <3> SUFFICES ASSUME status'[d] # "deleted", NEW a \in Replicas, Holds(a, d)'
                 PROVE  jobs'[a][d] = attempts'[d]
      OBVIOUS
    <3>1. CASE a = r
      BY <3>1, <1>2, <1>5, <1>7, <1>11 DEF table
    <3>2. CASE a # r
      BY <3>2, <1>2, <1>7, <1>11, <2>1 DEF WebhookInv, HeldOnce, table
    <3> QED BY <3>1, <3>2
  <2> QED BY <2>3, <2>4
<1>14. HeldOnce'
  BY <1>13 DEF HeldOnce
<1>15. AttemptsCountSends'
  <2>1. \A d \in Deliveries : Sending(d)' = Sending(d)
    BY <1>2 DEF Sending
  <2>2. \A d \in Deliveries : d \notin overlapped' => d \notin overlapped
    BY <1>1
  <2> QED BY <1>2, <2>1, <2>2 DEF WebhookInv, AttemptsCountSends, table, received
<1> QED BY <1>9, <1>10, <1>12, <1>14, <1>15 DEF WebhookInv

LEMMA SendStep == ASSUME WebhookInv, NEW r \in Replicas, Send(r) PROVE WebhookInv'
<1>1. PICK d \in DOMAIN jobs[r], result \in {"ok", "error"} :
        /\ current' = [current EXCEPT ![r] = d] /\ outcome' = [outcome EXCEPT ![r] = result]
        /\ sends' = [sends EXCEPT ![d] = sends[d] + 1]
  BY DEF Send
<1>2. current[r] = NoDelivery /\ UNCHANGED <<hook, calling, table, jobs, unrecorded, overlapped>>
  BY DEF Send
<1>3. d \in Deliveries
  <2>1. jobs[r] \in Batches
    BY DEF WebhookInv, TypeOK
  <2> QED BY <1>1, <2>1, BatchIs
<1>4. TypeOK'
  BY <1>1, <1>2, <1>3 DEF WebhookInv, TypeOK, calling, table
<1>5. CallsOK' /\ FreeRows'
  BY <1>2, CallsStand DEF table
<1>6. current'[r] = d /\ \A o \in Replicas \ {r} : current'[o] = current[o]
  BY <1>1 DEF WebhookInv, TypeOK
<1>7. CurrentOK'
  BY <1>1, <1>2, <1>6 DEF WebhookInv, CurrentOK, Holds
<1>8. HeldOnce'
  BY <1>2 DEF WebhookInv, HeldOnce, Holds, table
<1>9. ASSUME NEW x \in Deliveries, x \notin overlapped', status'[x] # "deleted"
      PROVE  sends'[x] = attempts'[x] + unrecorded'[x] + (IF Sending(x)' = {} THEN 0 ELSE 1)
  <2>1. /\ x \notin overlapped /\ attempts'[x] = attempts[x] /\ unrecorded'[x] = unrecorded[x]
        /\ attempts[x] \in Nat /\ unrecorded[x] \in Nat /\ status[x] # "deleted"
    BY <1>2, <1>9 DEF WebhookInv, TypeOK, table
  <2>2. sends[x] = attempts[x] + unrecorded[x] + (IF Sending(x) = {} THEN 0 ELSE 1)
    BY <2>1 DEF WebhookInv, AttemptsCountSends
  <2>3. CASE x = d
    <3>1. Sending(x) = {}
      <4>1. \A o \in Replicas : current[o] = d => o = r
        BY <1>1, <1>3, <2>1, <2>3, NoDeliveryIsNone DEF WebhookInv, CurrentOK, HeldOnce, Holds
      <4> QED BY <2>3, <4>1, <1>2, <1>3, NoDeliveryIsNone DEF Sending
    <3>2. Sending(x)' # {}
      BY <2>3, <1>6 DEF Sending
    <3>3. sends'[x] = sends[x] + 1
      BY <2>3, <1>1 DEF WebhookInv, TypeOK
    <3> QED BY <3>1, <3>2, <3>3, <2>1, <2>2
  <2>4. CASE x # d
    <3>1. Sending(x)' = Sending(x)
      BY <2>4, <1>2, <1>6, NoDeliveryIsNone DEF Sending
    <3>2. sends'[x] = sends[x]
      BY <2>4, <1>1 DEF WebhookInv, TypeOK
    <3> QED BY <3>1, <3>2, <2>1, <2>2
  <2> QED BY <2>3, <2>4
<1>10. AttemptsCountSends'
  BY <1>9 DEF AttemptsCountSends
<1> QED BY <1>4, <1>5, <1>7, <1>8, <1>10 DEF WebhookInv

\* A runner gives up deliveries, among them the one it sends.
Drops(r) ==
  /\ DOMAIN jobs'[r] \subseteq DOMAIN jobs[r] \ {current[r]}
  /\ \A d \in DOMAIN jobs'[r] : jobs'[r][d] = jobs[r][d]
  /\ \A o \in Replicas \ {r} : jobs'[o] = jobs[o] /\ current'[o] = current[o]
  /\ current'[r] = NoDelivery

LEMMA Dropped ==
  ASSUME WebhookInv, NEW r \in Replicas, Drops(r)
  PROVE  /\ CurrentOK'
         /\ \A a \in Replicas : \A d : Holds(a, d)' => Holds(a, d) /\ jobs'[a][d] = jobs[a][d]
         /\ \A d \in Deliveries \ {current[r]} : Sending(d)' = Sending(d)
         /\ \A d \in Deliveries \ overlapped : d = current[r] =>
              Sending(d)' = {} /\ \A a \in Replicas : ~Holds(a, d)'
<1>1. \A a \in Replicas : \A d : Holds(a, d)' => Holds(a, d) /\ jobs'[a][d] = jobs[a][d]
  BY DEF Drops, Holds
<1>2. CurrentOK'
  BY DEF WebhookInv, CurrentOK, Drops, Holds
<1>3. \A d \in Deliveries \ {current[r]} : Sending(d)' = Sending(d)
  BY NoDeliveryIsNone DEF Drops, Sending
<1>4. ASSUME NEW d \in Deliveries \ overlapped, d = current[r]
      PROVE  Sending(d)' = {} /\ \A a \in Replicas : ~Holds(a, d)'
  <2>1. Holds(r, d) /\ d # NoDelivery
    BY <1>4, NoDeliveryIsNone DEF WebhookInv, CurrentOK
  <2>2. \A a \in Replicas : Holds(a, d) => a = r
    BY <2>1 DEF WebhookInv, HeldOnce
  <2>3. \A a \in Replicas : ~Holds(a, d)'
    BY <1>1, <1>4, <2>2 DEF Drops, Holds
  <2>4. \A a \in Replicas : current'[a] # d
    BY <1>2, <2>1, <2>3 DEF CurrentOK
  <2> QED BY <2>3, <2>4 DEF Sending
<1> QED BY <1>1, <1>2, <1>3, <1>4

\* What a runner is sending counts as a send under way.
LEMMA UnderWay ==
  ASSUME WebhookInv, NEW r \in Replicas, current[r] # NoDelivery
  PROVE  /\ current[r] \in Deliveries /\ Holds(r, current[r])
         /\ jobs[r][current[r]] \in 0 .. MaxAttempts - 1
         /\ Sending(current[r]) # {}
<1>1. current[r] \in Deliveries /\ Holds(r, current[r])
  BY DEF WebhookInv, TypeOK, CurrentOK
<1>2. jobs[r] \in [DOMAIN jobs[r] -> 0 .. MaxAttempts - 1]
  <2>1. jobs[r] \in Batches
    BY DEF WebhookInv, TypeOK
  <2> QED BY <2>1, BatchIs
<1> QED BY <1>1, <1>2 DEF Holds, Sending

LEMMA FinishStep ==
  ASSUME WebhookAssumption, WebhookInv, NEW r \in Replicas, Finish(r) PROVE WebhookInv'
<1> PICK d : d = current[r]
  OBVIOUS
<1> PICK n : n = jobs[r][d] + 1
  OBVIOUS
<1>1. /\ current[r] # NoDelivery /\ Release(r)
      /\ UNCHANGED <<hook, calling, dhook, dcall, received, overlapped>>
  BY DEF Finish
<1>2. PICK to \in {"deleted", "success", "error"} :
        status' = [status EXCEPT ![d] = to] /\ (status[d] = "deleted" => to = "deleted")
  <2>1. CASE status[d] = "deleted"
    BY <2>1 DEF Finish
  <2>2. CASE status[d] # "deleted" /\ outcome[r] = "ok"
    BY <2>2 DEF Finish
  <2>3. CASE status[d] # "deleted" /\ outcome[r] # "ok"
    BY <2>3 DEF Finish
  <2> QED BY <2>1, <2>2, <2>3
<1>3. attempts' = [attempts EXCEPT ![d] = IF status[d] = "deleted" THEN attempts[d] ELSE n]
  BY DEF Finish
<1>4. PICK b \in BOOLEAN : due' = [due EXCEPT ![d] = b]
  BY DEF Finish
<1>5. d \in Deliveries /\ Holds(r, d) /\ Sending(d) # {}
  BY <1>1, UnderWay
<1>6. n \in 0 .. MaxAttempts
  <2>1. jobs[r][d] \in 0 .. MaxAttempts - 1
    BY <1>1, UnderWay
  <2> QED BY <2>1 DEF WebhookAssumption
<1>7. TypeOK'
  <2>1. /\ jobs' \in [Replicas -> Batches] /\ current' \in [Replicas -> Deliveries \cup {NoDelivery}]
        /\ outcome' \in [Replicas -> {"none", "ok", "error"}]
    BY <1>1, Released DEF WebhookInv
  <2> HIDE DEF Batches
  <2> QED BY <1>1, <1>2, <1>3, <1>4, <1>6, <2>1 DEF WebhookInv, TypeOK, calling, received
<1>8. CallsOK' /\ FreeRows'
  <2>1. \A x \in Deliveries : status'[x] = "none" => status[x] = "none"
    BY <1>2 DEF WebhookInv, TypeOK
  <2> QED BY <1>1, <2>1, CallsStand
<1>9. Drops(r)
  BY <1>1, Released DEF Drops, WebhookInv
<1>10. CurrentOK'
  BY <1>9, Dropped
<1>11. ASSUME NEW x \in Deliveries \ overlapped'
       PROVE  /\ \A a, o \in Replicas : Holds(a, x)' /\ Holds(o, x)' => a = o
              /\ status'[x] # "deleted" => \A a \in Replicas : Holds(a, x)' => jobs'[a][x] = attempts'[x]
  <2>1. x \in Deliveries \ overlapped
    BY <1>1
  <2>2. CASE x = d
    BY <1>9, <2>1, <2>2, Dropped
  <2>3. CASE x # d
    <3>1. status'[x] = status[x] /\ attempts'[x] = attempts[x]
      BY <1>2, <1>3, <2>3 DEF WebhookInv, TypeOK
    <3>2. \A a \in Replicas : Holds(a, x)' => Holds(a, x) /\ jobs'[a][x] = jobs[a][x]
      BY <1>9, Dropped
    <3> QED BY <2>1, <3>1, <3>2 DEF WebhookInv, HeldOnce
  <2> QED BY <2>2, <2>3
<1>12. HeldOnce'
  BY <1>11 DEF HeldOnce
<1>13. ASSUME NEW x \in Deliveries, x \notin overlapped', status'[x] # "deleted"
       PROVE  sends'[x] = attempts'[x] + unrecorded'[x] + (IF Sending(x)' = {} THEN 0 ELSE 1)
  <2>1. /\ x \notin overlapped /\ sends'[x] = sends[x] /\ unrecorded'[x] = unrecorded[x]
        /\ attempts[x] \in Nat /\ unrecorded[x] \in Nat /\ sends[x] \in Nat
    BY <1>1, <1>13 DEF WebhookInv, TypeOK, received
  <2>2. status[x] # "deleted"
    BY <1>2, <1>13 DEF WebhookInv, TypeOK
  <2>3. sends[x] = attempts[x] + unrecorded[x] + (IF Sending(x) = {} THEN 0 ELSE 1)
    BY <2>1, <2>2 DEF WebhookInv, AttemptsCountSends
  <2>4. CASE x = d
    <3>1. jobs[r][d] = attempts[d]
      BY <1>5, <2>1, <2>2, <2>4 DEF WebhookInv, HeldOnce
    <3>2. attempts'[d] = attempts[d] + 1
      BY <1>3, <1>5, <2>2, <2>4, <3>1 DEF WebhookInv, TypeOK
    <3>3. Sending(x)' = {}
      BY <1>9, <2>1, <2>4, Dropped
    <3> QED BY <1>5, <2>1, <2>3, <2>4, <3>2, <3>3
  <2>5. CASE x # d
    <3>1. attempts'[x] = attempts[x]
      BY <1>3, <2>5 DEF WebhookInv, TypeOK
    <3>2. Sending(x)' = Sending(x)
      BY <1>9, <2>5, Dropped
    <3> QED BY <2>1, <2>3, <3>1, <3>2
  <2> QED BY <2>4, <2>5
<1>14. AttemptsCountSends'
  BY <1>13 DEF AttemptsCountSends
<1> QED BY <1>7, <1>8, <1>10, <1>12, <1>14 DEF WebhookInv

\* The record of a send is lost, and its runner drops what it held.
LEMMA RecordLost ==
  ASSUME WebhookAssumption, WebhookInv, NEW r \in Replicas, LoseRecord(current[r]), Drops(r),
         jobs' \in [Replicas -> Batches], current' \in [Replicas -> Deliveries \cup {NoDelivery}],
         outcome' \in [Replicas -> {"none", "ok", "error"}],
         UNCHANGED <<hook, calling, table, sends, overlapped>>
  PROVE  WebhookInv'
<1> PICK d : d = current[r]
  OBVIOUS
<1>1. /\ d # NoDelivery => unrecorded[d] < MaxLost /\ unrecorded' = [unrecorded EXCEPT ![d] = unrecorded[d] + 1]
      /\ d = NoDelivery => unrecorded' = unrecorded
  BY DEF LoseRecord
<1>2. d \in Deliveries \cup {NoDelivery}
  BY DEF WebhookInv, TypeOK
<1>3. unrecorded' \in [Deliveries -> 0 .. MaxLost]
  BY <1>1, <1>2 DEF WebhookInv, TypeOK, WebhookAssumption
<1> HIDE DEF Batches
<1>4. TypeOK'
  BY <1>3 DEF WebhookInv, TypeOK, calling, table
<1>5. CallsOK' /\ FreeRows'
  BY CallsStand DEF table
<1>6. CurrentOK' /\ \A a \in Replicas : \A x : Holds(a, x)' => Holds(a, x) /\ jobs'[a][x] = jobs[a][x]
  BY Dropped
<1>7. HeldOnce'
  BY <1>6 DEF WebhookInv, HeldOnce, table
<1>8. ASSUME NEW x \in Deliveries, x \notin overlapped', status'[x] # "deleted"
      PROVE  sends'[x] = attempts'[x] + unrecorded'[x] + (IF Sending(x)' = {} THEN 0 ELSE 1)
  <2>1. /\ x \notin overlapped /\ sends'[x] = sends[x] /\ attempts'[x] = attempts[x]
        /\ attempts[x] \in Nat /\ unrecorded[x] \in Nat /\ sends[x] \in Nat /\ status[x] # "deleted"
    BY <1>8 DEF WebhookInv, TypeOK, table
  <2>2. sends[x] = attempts[x] + unrecorded[x] + (IF Sending(x) = {} THEN 0 ELSE 1)
    BY <2>1 DEF WebhookInv, AttemptsCountSends
  <2>3. CASE x = d
    <3>1. d # NoDelivery
      BY <2>3, NoDeliveryIsNone
    <3>2. unrecorded'[x] = unrecorded[x] + 1
      BY <1>1, <2>3, <3>1 DEF WebhookInv, TypeOK
    <3>3. Sending(x) # {}
      BY <2>3, <3>1, UnderWay
    <3>4. Sending(x)' = {}
      BY <2>1, <2>3, Dropped
    <3> QED BY <2>1, <2>2, <3>2, <3>3, <3>4
  <2>4. CASE x # d
    <3>1. unrecorded'[x] = unrecorded[x]
      BY <1>1, <2>4 DEF WebhookInv, TypeOK
    <3>2. Sending(x)' = Sending(x)
      BY <2>4, Dropped
    <3> QED BY <2>1, <2>2, <3>1, <3>2
  <2> QED BY <2>3, <2>4
<1>9. AttemptsCountSends'
  BY <1>8 DEF AttemptsCountSends
<1> QED BY <1>4, <1>5, <1>6, <1>7, <1>9 DEF WebhookInv

LEMMA FinishFailsStep ==
  ASSUME WebhookAssumption, WebhookInv, NEW r \in Replicas, FinishFails(r) PROVE WebhookInv'
<1>1. /\ LoseRecord(current[r]) /\ Release(r)
      /\ UNCHANGED <<hook, calling, table, sends, overlapped>>
  BY DEF FinishFails
<1>2. /\ jobs' \in [Replicas -> Batches] /\ current' \in [Replicas -> Deliveries \cup {NoDelivery}]
      /\ outcome' \in [Replicas -> {"none", "ok", "error"}] /\ Drops(r)
  BY <1>1, Released DEF Drops, WebhookInv
<1> QED BY <1>1, <1>2, RecordLost

LEMMA InterruptedStep ==
  ASSUME WebhookAssumption, WebhookInv, NEW r \in Replicas, Interrupted(r) PROVE WebhookInv'
<1>1. /\ LoseRecord(current[r]) /\ UNCHANGED <<hook, calling, table, sends, overlapped>>
      /\ jobs' = [jobs EXCEPT ![r] = <<>>] /\ current' = [current EXCEPT ![r] = NoDelivery]
      /\ outcome' = [outcome EXCEPT ![r] = "none"]
  BY DEF Interrupted
<1>2. jobs' \in [Replicas -> Batches] /\ jobs'[r] = <<>>
  BY <1>1, EmptyBatch DEF WebhookInv, TypeOK
<1>3. /\ current' \in [Replicas -> Deliveries \cup {NoDelivery}] /\ current'[r] = NoDelivery
      /\ outcome' \in [Replicas -> {"none", "ok", "error"}]
  BY <1>1 DEF WebhookInv, TypeOK
<1>4. \A o \in Replicas \ {r} : jobs'[o] = jobs[o] /\ current'[o] = current[o]
  BY <1>1 DEF WebhookInv, TypeOK
<1>5. Drops(r)
  BY <1>2, <1>3, <1>4, EmptyBatch DEF Drops
<1> QED BY <1>1, <1>2, <1>3, <1>5, RecordLost

LEMMA ElapseStep == ASSUME WebhookInv, NEW d \in Deliveries, Elapse(d) PROVE WebhookInv'
<1>1. /\ due' = [due EXCEPT ![d] = TRUE]
      /\ UNCHANGED <<hook, calling, dhook, status, attempts, dcall, runners, received, overlapped>>
  BY DEF Elapse
<1>2. TypeOK'
  BY <1>1 DEF WebhookInv, TypeOK, calling, runners, received
<1>3. CallsOK' /\ FreeRows'
  BY <1>1, CallsStand
<1> QED BY <1>1, <1>2, <1>3, RunnersStand DEF WebhookInv

------------------------------------------------------------------------------
(* The theorems *)

LEMMA WebhooksPreserved ==
  ASSUME WebhookAssumption, WebhookInv, [Next]_vars PROVE WebhookInv'
<1>1. CASE \E h \in Hooks : CreateWebhook(h) \/ DeleteWebhook(h)
  BY <1>1, CreateWebhookStep, DeleteWebhookStep
<1>2. ASSUME NEW c \in Calls, CallStep(c) PROVE WebhookInv'
  BY <1>2, SelectTargetsStep, InsertDeliveryStep, CallEndsStep DEF CallStep
<1>3. ASSUME NEW r \in Replicas, RunnerStep(r) PROVE WebhookInv'
  BY <1>3, ClaimStep, SendStep, FinishStep, FinishFailsStep, InterruptedStep DEF RunnerStep
<1>4. ASSUME NEW d \in Deliveries, Elapse(d) PROVE WebhookInv'
  BY <1>4, ElapseStep
<1>5. CASE UNCHANGED vars
  <2>1. UNCHANGED <<hook, calling, table, runners, received, overlapped>>
    BY <1>5 DEF vars
  <2>2. TypeOK'
    BY <2>1 DEF WebhookInv, TypeOK, calling, table, runners, received
  <2>3. CallsOK' /\ FreeRows'
    BY <2>1, CallsStand DEF table
  <2> QED BY <2>1, <2>2, <2>3, RunnersStand DEF WebhookInv, table
<1> QED BY <1>1, <1>2, <1>3, <1>4, <1>5 DEF Next

\* The inductive invariant holds of every behaviour of the calls and the runners
\* (EnqueueRecordWebhookDeliveries, RunDueWebhookDeliveries).
THEOREM WebhookInvHolds == ASSUME WebhookAssumption PROVE Spec => []WebhookInv
<1>1. Init => WebhookInv
  BY WebhooksInitially
<1>2. WebhookInv /\ [Next]_vars => WebhookInv'
  BY WebhooksPreserved
<1> QED BY <1>1, <1>2, PTL DEF Spec

\* The rows of webhook_deliveries and the memory of the runners keep their types: max_attempts
\* bounds the attempts of a row even while runners overwrite each other's.
THEOREM WebhookTypesHold == ASSUME WebhookAssumption PROVE Spec => []TypeOK
<1>1. WebhookInv => TypeOK
  BY DEF WebhookInv
<1> QED BY <1>1, WebhookInvHolds, PTL

\* A call of EnqueueRecordWebhookDeliveries that reports success has left a delivery for every
\* enabled hook it saw that matches and was not deleted since, whatever runs beside it.
THEOREM CallsEnqueueAll == ASSUME WebhookAssumption PROVE Spec => []EnqueueComplete
<1>1. WebhookInv => EnqueueComplete
  BY DEF WebhookInv, CallsOK, EnqueueComplete
<1> QED BY <1>1, WebhookInvHolds, PTL

\* The attempts of a delivery that no two runners held at once count its sends but for the one
\* under way and those whose update was lost: any replicas, batches, failures and interruptions.
THEOREM SendsAreCounted == ASSUME WebhookAssumption PROVE Spec => []AttemptsCountSends
<1>1. WebhookInv => AttemptsCountSends
  BY DEF WebhookInv
<1> QED BY <1>1, WebhookInvHolds, PTL
===============================================================================
