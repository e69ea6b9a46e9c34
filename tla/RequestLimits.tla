------------------------------ MODULE RequestLimits ------------------------------
(***************************************************************************)
(* How much a client may ask for: the rate limiter of a server process     *)
(* (apis/rate_limit.go), the request quotas of a project that use it       *)
(* (apis/project_quotas.go), and the storage quota of its uploads          *)
(* (core/project_quotas.go, files.go, file_uploads.go).                    *)
(*                                                                         *)
(* The limiter works under a mutex, so each of its calls is one step.  A   *)
(* request reads the quota of its project from the database and hands it   *)
(* to the limiter later, and a storage quota is read before the file is    *)
(* written: each in a step of its own.                                     *)
(* Time passes in ticks; a window is RateWindow of them.  A hit is the     *)
(* tick it came in and its number among those of its key in that tick: the *)
(* limiter's slice of times, whose order no operation looks at, is the set *)
(* of these.                                                               *)
(***************************************************************************)
EXTENDS Integers, FiniteSets, FiniteSetsExt

CONSTANTS
  Clients,        \* addresses, and the tokens they send
  ProjectRequests,  \* requests to a project
  Uploaders,      \* requests that store a file
  QuotaLimits,    \* what a project's quota can be; 0 is no limit, as is a quota not enabled
  RateWindow, AuthLimit, MaxLimiterKeys, MaxStorage, FileSizes,
  MaxTime         \* bound: ticks

ASSUME LimitsAssumption ==
  /\ RateWindow \in Nat \ {0} /\ MaxLimiterKeys \in Nat \ {0} /\ AuthLimit \in Nat \ {0}
  /\ QuotaLimits \subseteq [requests : Nat, auth : Nat] /\ FileSizes \subseteq Nat /\ MaxStorage \in Nat /\ MaxTime \in Nat

VARIABLES
  time,
  limiters,       \* by limiter: the hits of each key, and the time of the last sweep
  quota,          \* requests and auth requests per minute of the project
  checks,         \* by request: the check it is at, with the quota it has read
  storing,        \* by uploader, the size it was let store, or 0
  fileBytes,      \* bytes of the files that records name
  (* history *)
  served          \* by limiter and key, when it was let through since it was last forgotten

limitVars == <<time, limiters, quota, checks, storing, fileBytes, served>>

\* The limiter of a route, by address, and the one of all quotas, by address and principal
QuotaParts == {"auth", "public", "principal"}
RouteKeys == Clients
QuotaKeys == QuotaParts \X Clients
Limiters == {"route", "quota"}
LimiterKeys(l) == IF l = "route" THEN RouteKeys ELSE QuotaKeys

Recent(hits, now) == {h \in hits : h[1] > now - RateWindow}
Newest(hits) == IF hits = {} THEN -1 ELSE Max({h[1] : h \in hits})
OfTick(hits, now) == {h \in hits : h[1] = now}
WithHit(hits) == hits \cup {<<time, Cardinality(OfTick(hits, time)) + 1>>}

(***************************************************************************)
(* allowLimit                                                              *)
(***************************************************************************)
Only(hits, K) == [k \in K |-> hits[k]]

\* Every window's length the limiter drops the hits that left the window, and
\* the keys that have none left.
sweep_Everything(hits, now) == <<>>

sweep(hits, now) ==
  [k \in {i \in DOMAIN hits : Recent(hits[i], now) # {}} |-> Recent(hits[k], now)]

Swept(l) ==
  IF limiters[l].lastSweep = -1 \/ time - limiters[l].lastSweep >= RateWindow
  THEN [hits |-> sweep(limiters[l].hits, time), lastSweep |-> time] ELSE limiters[l]

\* The keys that may be evicted for a new one: those whose last hit is oldest
evictOldest_Never(hits) == {hits}

evictOldest(hits) ==
  {Only(hits, DOMAIN hits \ {k}) :
     k \in {i \in DOMAIN hits : \A j \in DOMAIN hits : Newest(hits[i]) <= Newest(hits[j])}}

WithRoom(hits, key) ==
  IF key \in DOMAIN hits \/ Cardinality(DOMAIN hits) < MaxLimiterKeys THEN {hits}
  ELSE LET kept == sweep(hits, time)
       IN IF Cardinality(DOMAIN kept) >= MaxLimiterKeys THEN evictOldest(kept) ELSE {kept}

\* allowLimit(l, key, limit): the outcomes, each with the limiter it leaves
allowLimit(l, key, limit) ==
  IF limit <= 0 THEN {[allowed |-> TRUE, limiter |-> limiters[l]]}
  ELSE {LET keep == IF key \in DOMAIN hits THEN Recent(hits[key], time) ELSE {}
            full == Cardinality(keep) >= limit
        IN [allowed |-> ~full,
            limiter |-> [hits |-> [k \in DOMAIN hits \cup {key} |->
                                     IF k # key THEN hits[k] ELSE IF full THEN keep ELSE WithHit(keep)],
                         lastSweep |-> Swept(l).lastSweep]] :
        hits \in WithRoom(Swept(l).hits, key)}

(***************************************************************************)
(* Types and initial state                                                 *)
(***************************************************************************)
NoCheck == [part |-> "none"]
Checks == [part : QuotaParts, client : Clients, quota : QuotaLimits]

LimitsTypeOK ==
  /\ time \in 0 .. MaxTime /\ quota \in QuotaLimits
  /\ \A l \in Limiters : /\ DOMAIN limiters[l].hits \subseteq LimiterKeys(l)
                         /\ Cardinality(DOMAIN limiters[l].hits) <= MaxLimiterKeys
                         /\ limiters[l].lastSweep \in -1 .. MaxTime
  /\ \A q \in ProjectRequests : checks[q] \in Checks \cup {NoCheck}
  /\ storing \in [Uploaders -> FileSizes \cup {0}] /\ fileBytes \in Nat

LimitsInit ==
  /\ time = 0 /\ quota \in QuotaLimits
  /\ limiters = [l \in Limiters |-> [hits |-> <<>>, lastSweep |-> -1]]
  /\ checks = [q \in ProjectRequests |-> NoCheck]
  /\ storing = [u \in Uploaders |-> 0] /\ fileBytes = 0
  /\ served = [l \in Limiters |-> [k \in LimiterKeys(l) |-> {}]]

(***************************************************************************)
(* Steps                                                                   *)
(***************************************************************************)
LimitTick ==
  /\ time < MaxTime /\ time' = time + 1
  /\ served' = [l \in Limiters |-> [k \in LimiterKeys(l) |-> Recent(served[l][k], time + 1)]]
  /\ UNCHANGED <<limiters, quota, checks, storing, fileBytes>>

\* A key that was evicted while it had recent hits starts again.
Served(l, key, outcome) ==
  [k \in LimiterKeys(l) |->
     IF k = key /\ outcome.allowed THEN WithHit(served[l][k])
     ELSE IF k \in DOMAIN limiters[l].hits \ DOMAIN outcome.limiter.hits
             /\ Cardinality(DOMAIN sweep(limiters[l].hits, time)) >= MaxLimiterKeys THEN {}
     ELSE served[l][k]]

limitByIP(c) ==
  /\ \E o \in allowLimit("route", c, AuthLimit) :
       /\ limiters' = [limiters EXCEPT !["route"] = o.limiter]
       /\ served' = [served EXCEPT !["route"] = Served("route", c, o)]
  /\ UNCHANGED <<time, quota, checks, storing, fileBytes>>

\* checkProjectQuota begins with the quota of its address, or on an endpoint that signs users in
\* with that of those; checkResolvedProjectQuota, later, reads again, for the principal.
GetProjectQuotas(q, c, part) ==
  /\ checks[q] = NoCheck
  /\ checks' = [checks EXCEPT ![q] = [part |-> part, client |-> c, quota |-> quota]]
  /\ UNCHANGED <<time, limiters, quota, storing, fileBytes, served>>

Limit(check) == IF check.part = "auth" THEN check.quota.auth ELSE check.quota.requests
Checked(check, allowed) ==
  IF allowed /\ check.part = "auth" THEN [check EXCEPT !.part = "public"] ELSE NoCheck

\* No limit is asked of the limiter.
PassUnlimited(q) ==
  /\ checks[q] # NoCheck /\ Limit(checks[q]) = 0
  /\ checks' = [checks EXCEPT ![q] = Checked(@, TRUE)]
  /\ UNCHANGED <<time, limiters, quota, storing, fileBytes, served>>

\* A refusal by a later check leaves the earlier ones counted.
checkQuota(q) ==
  /\ checks[q] # NoCheck /\ Limit(checks[q]) > 0
  /\ \E o \in allowLimit("quota", <<checks[q].part, checks[q].client>>, Limit(checks[q])) :
       /\ limiters' = [limiters EXCEPT !["quota"] = o.limiter]
       /\ served' = [served EXCEPT !["quota"] =
                       Served("quota", <<checks[q].part, checks[q].client>>, o)]
       /\ checks' = [checks EXCEPT ![q] = Checked(@, o.allowed)]
  /\ UNCHANGED <<time, quota, storing, fileBytes>>

ChangeQuota(n) ==
  /\ quota' = n /\ UNCHANGED <<time, limiters, checks, storing, fileBytes, served>>

\* EnsureProjectStorageQuota
EnsureStorage(u, size) ==
  /\ storing[u] = 0 /\ size > 0 /\ fileBytes + size <= MaxStorage
  /\ storing' = [storing EXCEPT ![u] = size]
  /\ UNCHANGED <<time, limiters, quota, checks, fileBytes, served>>

\* The record takes the file, or the request fails after the check.
StoreFile(u) ==
  /\ storing[u] # 0
  /\ fileBytes' \in {fileBytes, fileBytes + storing[u]}
  /\ storing' = [storing EXCEPT ![u] = 0]
  /\ UNCHANGED <<time, limiters, quota, checks, served>>

RemoveFiles(size) ==
  /\ fileBytes >= size /\ size > 0 /\ fileBytes' = fileBytes - size
  /\ UNCHANGED <<time, limiters, quota, checks, storing, served>>

LimitsNext ==
  \/ LimitTick
  \/ \E c \in Clients : limitByIP(c)
  \/ \E q \in ProjectRequests : \/ PassUnlimited(q) \/ checkQuota(q)
                            \/ \E c \in Clients, part \in QuotaParts : GetProjectQuotas(q, c, part)
  \/ \E n \in QuotaLimits : ChangeQuota(n)
  \/ \E u \in Uploaders : StoreFile(u) \/ \E size \in FileSizes : EnsureStorage(u, size)
  \/ \E size \in FileSizes : RemoveFiles(size)

LimitsSpec == LimitsInit /\ [][LimitsNext]_limitVars

(***************************************************************************)
(* Properties                                                              *)
(***************************************************************************)
\* The limits under which key k of limiter l is let through in this step
LimitsAsked(l, k) ==
  IF l = "route" THEN {AuthLimit}
  ELSE {Limit(checks[q]) : q \in {i \in ProjectRequests :
          /\ checks[i] # NoCheck /\ checks'[i] # checks[i]
          /\ k = <<checks[i].part, checks[i].client>>}}

\* Whenever the limiter lets a request through, no more than the limit which that request has
\* read went through in the window that ends then (a request that read a quota before it was
\* lowered passes under the old one, which the other requests of the window count against too),
\* except that a key which was evicted to make room for another starts again (allowLimit):
\* neither the sweep of idle keys, nor the trimming of old hits, nor requests whose quotas
\* differ let more pass.
WithinWindow ==
  [][\A l \in Limiters : time' = time /\ served'[l] # served[l] =>
       \A k \in LimiterKeys(l) :
         \/ Cardinality(served'[l][k]) <= Cardinality(served[l][k])
         \/ \E n \in LimitsAsked(l, k) : Cardinality(served'[l][k]) <= n]_limitVars
=============================================================================
