----------------------------- MODULE AccountsProofs -----------------------------
(***************************************************************************)
(* Proofs about the accounts of application users: AppSessions, and with   *)
(* it OAuthLogin and Organizations, for any users, addresses, requests and *)
(* bounds: the inductive invariant, what follows of it, the refinement of  *)
(* SessionFamilies, and the keys, types and quota.                         *)
(***************************************************************************)
EXTENDS OAuthLogin, Organizations, FiniteSetTheorems, TLAPS

OriginKinds == {"password", "signup", "oauth", "token", "challenge", "code", "refresh"}
UserRow == [email : Emails \cup {NoEmail}, verified : BOOLEAN, key : Nat]
SessionRow == [user : AppUsers, family : Nat, revoked : BOOLEAN, replacedBy : Nat,
               origin : OriginKinds \X Nat]
TokenRow == [user : AppUsers, type : TokenTypes, used : BOOLEAN, mailedTo : Emails]
ChallengeRow == [user : AppUsers, used : BOOLEAN]

TablesOK ==
  /\ appUsers \in [AppUsers -> UserRow]
  /\ appSessions \in Seq(SessionRow)
  /\ authTokens \in Seq(TokenRow)
  /\ mfaChallenges \in Seq(ChallengeRow)

\* What a request carries from its first step to its second, and holds locked meanwhile.
RequestOK(r) ==
  /\ r.op \in {"signup", "challenge"} \cup LoginOps \cup SweepOps => r.user \in AppUsers
  /\ r.op \in LoginOps =>
       /\ r.factor \in {"unread", "off", "none", "enabled"}
       /\ {"op", "user", "key", "factor", "enrolled", "locks"} \subseteq DOMAIN r
  /\ r.op = "login_otp" => "token" \in DOMAIN r
  /\ r.op = "oauth" => "callback" \in DOMAIN r
  /\ r.op = "signup" => r.email \in Emails
  /\ r.op = "refresh" =>
       /\ r.session \in DOMAIN appSessions /\ <<"session", r.session>> \in r.locks
       /\ Active(r.session) /\ appSessions[r.session].replacedBy = 0
       /\ r.user = appSessions[r.session].user
  /\ r.op \in SweepOps \cup {"replay"} => r.seen \subseteq DOMAIN appSessions
  /\ r.op \in SweepOps => <<"user", r.user>> \in r.locks
  /\ r.op \in {"login_otp", "password_reset", "email_change"} =>
       /\ r.token \in DOMAIN authTokens /\ ~authTokens[r.token].used
       /\ <<"token", r.token>> \in r.locks
  /\ r.op = "challenge" =>
       /\ r.challenge \in DOMAIN mfaChallenges /\ ~mfaChallenges[r.challenge].used
       /\ <<"challenge", r.challenge>> \in r.locks

RequestsOK ==
  /\ DOMAIN appRequests = AppRequests
  /\ \A q \in AppRequests : RequestOK(appRequests[q])

\* A row is locked by one request at a time.
LocksApart == \A p, q \in AppRequests : p # q => Held(p) \cap Held(q) = {}

\* The families there are began with a session; one of their sessions is alive at most.
FamilyInv ==
  /\ \A s \in DOMAIN appSessions : appSessions[s].family \in DOMAIN appSessions
  /\ OneLivePerFamily

\* Whatever a session came of is spent.
Spent(s) ==
  LET kind == appSessions[s].origin[1] id == appSessions[s].origin[2]
  IN /\ kind \in {"password", "signup"} => id = s
     /\ kind = "refresh" => id \in DOMAIN appSessions /\ appSessions[id].replacedBy = s
     /\ kind = "token" => id \in DOMAIN authTokens /\ authTokens[id].used
     /\ kind = "challenge" => id \in DOMAIN mfaChallenges /\ mfaChallenges[id].used
     /\ kind = "code" => /\ id <= enrolments[appSessions[s].user]
                         /\ id \notin recoveryCodes[appSessions[s].user]
CodesOK ==
  /\ enrolments \in [AppUsers -> Nat]
  /\ recoveryCodes \in [AppUsers -> SUBSET Nat]
  /\ \A u \in AppUsers : \A code \in recoveryCodes[u] : code <= enrolments[u]
OriginInv == CodesOK /\ (\A s \in DOMAIN appSessions : Spent(s)) /\ OpensOnce

AccountInv == TablesOK /\ RequestsOK /\ LocksApart /\ FamilyInv /\ OriginInv

\* A login that found no factor is right, or a factor was confirmed since.
AskedOK(r) ==
  r.op \in LoginOps =>
    /\ r.enrolled \in Nat /\ r.enrolled <= enrolments[r.user]
    /\ r.factor = "none" /\ r.enrolled = enrolments[r.user] => ~MfaRequired(r.user)

\* Nobody has a second factor before there is an account.
FactorInv == /\ mfaFactors \in [AppUsers -> SUBSET {"pending", "enabled"}]
             /\ \A u \in AppUsers : Known(u) \/ mfaFactors[u] = {}
             /\ \A q \in AppRequests : AskedOK(appRequests[q])

------------------------------------------------------------------------------
(* What the writes of the model do to a table *)

LEMMA AppendedRow ==
  ASSUME NEW S, NEW table \in Seq(S), NEW row \in S
  PROVE  LET n == Len(table) + 1
         IN /\ Append(table, row) \in Seq(S)
            /\ DOMAIN Append(table, row) = DOMAIN table \cup {n} /\ n \notin DOMAIN table /\ n \in Nat
            /\ \A i \in DOMAIN table : Append(table, row)[i] = table[i]
            /\ Append(table, row)[n] = row
OBVIOUS

\* A table whose rows are rewritten in place is a table.
LEMMA RewrittenTable ==
  ASSUME NEW S, NEW table \in Seq(S), NEW f, DOMAIN f = DOMAIN table, f = [i \in DOMAIN f |-> f[i]],
         \A i \in DOMAIN table : f[i] \in S
  PROVE  f \in Seq(S)
<1>1. Len(table) \in Nat /\ DOMAIN table = 1 .. Len(table)
  OBVIOUS
<1>2. f \in [1 .. Len(table) -> S]
  BY <1>1
<1> QED BY <1>1, <1>2

\* Revoking sessions changes nothing else of them.
LEMMA RevokedSessions ==
  ASSUME TablesOK, NEW S, appSessions' = Revoked(S)
  PROVE  /\ appSessions' \in Seq(SessionRow)
         /\ DOMAIN appSessions' = DOMAIN appSessions
         /\ \A s \in DOMAIN appSessions :
              /\ s \notin S => appSessions'[s] = appSessions[s]
              /\ s \in S => appSessions'[s].revoked
              /\ appSessions[s].revoked => appSessions'[s].revoked
              /\ appSessions'[s].family = appSessions[s].family
              /\ appSessions'[s].user = appSessions[s].user
              /\ appSessions'[s].origin = appSessions[s].origin
              /\ appSessions'[s].replacedBy = appSessions[s].replacedBy
<1>1. /\ DOMAIN appSessions' = DOMAIN appSessions
      /\ appSessions' = [s \in DOMAIN appSessions' |-> appSessions'[s]]
      /\ \A s \in DOMAIN appSessions :
           appSessions'[s] = IF s \in S THEN [appSessions[s] EXCEPT !.revoked = TRUE] ELSE appSessions[s]
  BY DEF Revoked
<1>2. \A s \in DOMAIN appSessions : appSessions[s] \in SessionRow
  BY DEF TablesOK
<1>3. ASSUME NEW row \in SessionRow
      PROVE  LET new == [row EXCEPT !.revoked = TRUE]
             IN /\ new \in SessionRow /\ new.revoked
                /\ new.family = row.family /\ new.user = row.user
                /\ new.origin = row.origin /\ new.replacedBy = row.replacedBy
  BY DEF SessionRow
<1> HIDE DEF SessionRow
<1>4. \A s \in DOMAIN appSessions : appSessions'[s] \in SessionRow
  BY <1>1, <1>2, <1>3
<1>5. appSessions' \in Seq(SessionRow)
  BY <1>1, <1>4, RewrittenTable DEF TablesOK
<1> QED BY <1>1, <1>2, <1>3, <1>5

\* A login or a signup opens a session of a family of its own.
LEMMA OpenedSession ==
  ASSUME TablesOK, NEW u \in AppUsers, NEW key, NEW kind \in OriginKinds, NEW id \in Nat,
         createAppSession(u, 0, key, <<kind, id>>)
  PROVE  LET n == Len(appSessions) + 1
         IN /\ appSessions' \in Seq(SessionRow)
            /\ DOMAIN appSessions' = DOMAIN appSessions \cup {n} /\ n \notin DOMAIN appSessions
            /\ n \in Nat
            /\ \A s \in DOMAIN appSessions : appSessions'[s] = appSessions[s]
            /\ appSessions'[n] = [user |-> u, family |-> n, revoked |-> FALSE, replacedBy |-> 0,
                                  origin |-> <<kind, id>>]
<1> DEFINE n == Len(appSessions) + 1
           row == [user |-> u, family |-> n, revoked |-> FALSE, replacedBy |-> 0,
                   origin |-> <<kind, id>>]
<1>1. appSessions' = Append(appSessions, row)
  BY DEF createAppSession
<1>2. Len(appSessions) \in Nat
  BY DEF TablesOK
<1>3. row \in SessionRow
  BY <1>2 DEF SessionRow
<1> HIDE DEF row
<1>4. QED BY <1>1, <1>3, AppendedRow DEF TablesOK, row

\* A refresh replaces a session by the next one of its family.
LEMMA RotatedSession ==
  ASSUME TablesOK, NEW q \in AppRequests, RequestOK(appRequests[q]), RefreshCommit(q)
  PROVE  LET n == Len(appSessions) + 1
             s == appRequests[q].session
         IN /\ appSessions' \in Seq(SessionRow)
            /\ DOMAIN appSessions' = DOMAIN appSessions \cup {n} /\ n \notin DOMAIN appSessions
            /\ n \in Nat \ {0} /\ s \in DOMAIN appSessions
            /\ \A x \in DOMAIN appSessions \ {s} : appSessions'[x] = appSessions[x]
            /\ appSessions'[s].revoked /\ appSessions'[s].replacedBy = n
            /\ appSessions'[s].family = appSessions[s].family
            /\ appSessions'[s].user = appSessions[s].user
            /\ appSessions'[s].origin = appSessions[s].origin
            /\ appSessions'[n] = [user |-> appSessions[s].user, family |-> appSessions[s].family,
                                  revoked |-> FALSE, replacedBy |-> 0, origin |-> <<"refresh", s>>]
<1> DEFINE n == Len(appSessions) + 1
           s == appRequests[q].session
           u == appRequests[q].user
           mid == [appSessions EXCEPT ![s].revoked = TRUE, ![s].replacedBy = n]
           row == [user |-> u, family |-> appSessions[s].family, revoked |-> FALSE,
                   replacedBy |-> 0, origin |-> <<"refresh", s>>]
<1>1. appSessions' = Append(mid, row)
  BY DEF RefreshCommit
<1>2. /\ s \in DOMAIN appSessions /\ u = appSessions[s].user
      /\ Len(appSessions) \in Nat /\ DOMAIN appSessions = 1 .. Len(appSessions)
  BY DEF RequestOK, RefreshCommit, TablesOK
<1>3. appSessions[s] \in SessionRow
  BY <1>2 DEF TablesOK
<1>4. row \in SessionRow
  <2>1. appSessions[s].user \in AppUsers /\ appSessions[s].family \in Nat
    BY <1>3 DEF SessionRow
  <2>2. u \in AppUsers /\ s \in Nat
    BY <1>2, <2>1
  <2> HIDE DEF u, s
  <2>3. <<"refresh", s>> \in OriginKinds \X Nat
    BY <2>2 DEF OriginKinds
  <2> QED BY <2>1, <2>2, <2>3 DEF SessionRow
<1>5. /\ DOMAIN mid = DOMAIN appSessions /\ mid = [x \in DOMAIN mid |-> mid[x]]
      /\ \A x \in DOMAIN appSessions \ {s} : mid[x] = appSessions[x]
      /\ mid[s] = [appSessions[s] EXCEPT !.revoked = TRUE, !.replacedBy = n]
  BY <1>2, <1>3 DEF SessionRow
<1>6. /\ mid[s] \in SessionRow
      /\ mid[s].revoked /\ mid[s].replacedBy = n /\ mid[s].family = appSessions[s].family
      /\ mid[s].user = appSessions[s].user /\ mid[s].origin = appSessions[s].origin
  <2>1. ASSUME NEW old \in SessionRow, NEW m \in Nat
        PROVE  LET new == [old EXCEPT !.revoked = TRUE, !.replacedBy = m]
               IN /\ new \in SessionRow /\ new.revoked /\ new.replacedBy = m
                  /\ new.family = old.family /\ new.user = old.user /\ new.origin = old.origin
    BY DEF SessionRow
  <2>2. n \in Nat
    BY <1>2
  <2> DEFINE new == [appSessions[s] EXCEPT !.revoked = TRUE, !.replacedBy = n]
  <2> HIDE DEF mid, s, n, SessionRow
  <2>3. /\ new \in SessionRow /\ new.revoked /\ new.replacedBy = n
        /\ new.family = appSessions[s].family /\ new.user = appSessions[s].user
        /\ new.origin = appSessions[s].origin
    BY <1>3, <2>1, <2>2
  <2>4. mid[s] = new
    BY <1>5
  <2> HIDE DEF new
  <2> QED BY <2>3, <2>4
<1> HIDE DEF mid, row
<1>7. mid \in Seq(SessionRow)
  <2>1. \A x \in DOMAIN appSessions : mid[x] \in SessionRow
    BY <1>5, <1>6 DEF TablesOK
  <2> QED BY <1>5, <2>1, RewrittenTable DEF TablesOK
<1>8. Len(mid) = Len(appSessions)
  BY <1>2, <1>5, <1>7
<1>9. /\ Append(mid, row) \in Seq(SessionRow)
      /\ DOMAIN Append(mid, row) = DOMAIN mid \cup {n} /\ n \notin DOMAIN mid /\ n \in Nat
      /\ \A i \in DOMAIN mid : Append(mid, row)[i] = mid[i]
      /\ Append(mid, row)[n] = row
  BY <1>4, <1>7, <1>8, AppendedRow
<1>10. appSessions'[n] = [user |-> appSessions[s].user, family |-> appSessions[s].family,
                          revoked |-> FALSE, replacedBy |-> 0, origin |-> <<"refresh", s>>]
  BY <1>1, <1>2, <1>9 DEF row
<1>11. n # 0 /\ n \in Nat
  BY <1>2
<1> HIDE DEF n, s
<1> QED BY <1>1, <1>2, <1>5, <1>6, <1>9, <1>10, <1>11 DEF n, s

\* Marking a token or a challenge used changes nothing else of it.
LEMMA ReplacedRow ==
  ASSUME NEW S, NEW table \in Seq(S), NEW i \in DOMAIN table, NEW row \in S
  PROVE  LET new == [table EXCEPT ![i] = row]
         IN /\ new \in Seq(S) /\ DOMAIN new = DOMAIN table
            /\ \A x \in DOMAIN table \ {i} : new[x] = table[x]
            /\ new[i] = row
OBVIOUS

LEMMA UsedToken ==
  ASSUME TablesOK, NEW t \in DOMAIN authTokens, UseToken(t)
  PROVE  /\ authTokens' \in Seq(TokenRow) /\ DOMAIN authTokens' = DOMAIN authTokens
         /\ \A x \in DOMAIN authTokens \ {t} : authTokens'[x] = authTokens[x]
         /\ authTokens'[t].used
<1>1. authTokens[t] \in TokenRow
  BY DEF TablesOK
<1> DEFINE row == [authTokens[t] EXCEPT !.used = TRUE]
<1>2. row \in TokenRow /\ row.used
  BY <1>1 DEF TokenRow
<1>3. authTokens' = [authTokens EXCEPT ![t] = row]
  BY DEF UseToken
<1> HIDE DEF row
<1> QED BY <1>2, <1>3, ReplacedRow DEF TablesOK

LEMMA UsedChallenge ==
  ASSUME TablesOK, NEW c \in DOMAIN mfaChallenges, NEW next,
         next = [mfaChallenges EXCEPT ![c].used = TRUE]
  PROVE  /\ next \in Seq(ChallengeRow) /\ DOMAIN next = DOMAIN mfaChallenges
         /\ \A x \in DOMAIN mfaChallenges \ {c} : next[x] = mfaChallenges[x]
         /\ next[c].used
<1>1. mfaChallenges[c] \in ChallengeRow
  BY DEF TablesOK
<1> DEFINE row == [mfaChallenges[c] EXCEPT !.used = TRUE]
           new == [mfaChallenges EXCEPT ![c] = row]
<1>2. row \in ChallengeRow /\ row.used
  BY <1>1 DEF ChallengeRow
<1>3. next = new
  OBVIOUS
<1> HIDE DEF row
<1>4. /\ new \in Seq(ChallengeRow) /\ DOMAIN new = DOMAIN mfaChallenges
      /\ \A x \in DOMAIN mfaChallenges \ {c} : new[x] = mfaChallenges[x]
      /\ new[c] = row
  BY <1>2, ReplacedRow DEF TablesOK
<1> HIDE DEF new
<1> QED BY <1>2, <1>3, <1>4

------------------------------------------------------------------------------
(* Requests and their locks *)

\* Tables only grow, and what p has locked stays as it is.
Undisturbed(p) ==
  /\ DOMAIN appSessions \subseteq DOMAIN appSessions'
  /\ DOMAIN authTokens \subseteq DOMAIN authTokens'
  /\ DOMAIN mfaChallenges \subseteq DOMAIN mfaChallenges'
  /\ \A s \in DOMAIN appSessions :
       <<"session", s>> \in Held(p) => appSessions'[s] = appSessions[s]
  /\ \A t \in DOMAIN authTokens :
       <<"token", t>> \in Held(p) => authTokens'[t] = authTokens[t]
  /\ \A c \in DOMAIN mfaChallenges :
       <<"challenge", c>> \in Held(p) => mfaChallenges'[c] = mfaChallenges[c]

LEMMA RequestStays ==
  ASSUME RequestsOK, NEW p \in AppRequests, Undisturbed(p), appRequests'[p] = appRequests[p]
  PROVE  RequestOK(appRequests[p])'
<1> DEFINE r == appRequests[p]
<1>1. RequestOK(r)
  BY DEF RequestsOK
<1>2. r.op # "none" => Held(p) = r.locks
  BY DEF Held, Pending
<1> HIDE DEF r
<1>3. RequestOK(r)'
  <2>1. r' = r
    BY DEF r
  <2>2. CASE r.op = "refresh"
    BY <1>1, <1>2, <2>1, <2>2 DEF RequestOK, Undisturbed, Active, SweepOps, LoginOps
  <2>3. CASE r.op \in {"login_otp", "password_reset", "email_change"}
    BY <1>1, <1>2, <2>1, <2>3 DEF RequestOK, Undisturbed, SweepOps, LoginOps
  <2>4. CASE r.op = "challenge"
    BY <1>1, <1>2, <2>1, <2>4 DEF RequestOK, Undisturbed, SweepOps, LoginOps
  <2>5. CASE r.op \notin {"refresh", "login_otp", "password_reset", "email_change", "challenge"}
    BY <1>1, <2>1, <2>5 DEF RequestOK, Undisturbed, SweepOps, LoginOps
  <2> QED BY <2>2, <2>3, <2>4, <2>5
<1> QED BY <1>3 DEF r

\* A request that begins or goes on, with locks that were its own or nobody's.
LEMMA RequestMoves ==
  ASSUME RequestsOK, LocksApart, NEW q \in AppRequests, NEW r,
         appRequests' = [appRequests EXCEPT ![q] = r],
         \A p \in AppRequests : Undisturbed(p),
         r.op # "none", RequestOK(r), RequestOK(r)',
         \A l \in r.locks : \A p \in AppRequests \ {q} : l \notin Held(p)
  PROVE  RequestsOK' /\ LocksApart'
<1>1. /\ DOMAIN appRequests' = AppRequests /\ appRequests'[q] = r
      /\ \A p \in AppRequests \ {q} : appRequests'[p] = appRequests[p]
  BY DEF RequestsOK
<1>2. RequestsOK'
  <2>1. ASSUME NEW p \in AppRequests PROVE RequestOK(appRequests[p])'
    <3>1. CASE p = q
      BY <1>1, <3>1 DEF RequestOK
    <3>2. CASE p # q
      BY <1>1, <3>2, RequestStays
    <3> QED BY <3>1, <3>2
  <2> QED BY <1>1, <2>1 DEF RequestsOK
<1>3. \A p \in AppRequests \ {q} : Held(p)' = Held(p)
  BY <1>1 DEF Held, Pending
<1>4. Held(q)' = r.locks
  BY <1>1 DEF Held, Pending
<1> QED BY <1>2, <1>3, <1>4 DEF LocksApart

LEMMA RequestEnds ==
  ASSUME RequestsOK, LocksApart, NEW q \in AppRequests, Done(q),
         \A p \in AppRequests \ {q} : Undisturbed(p)
  PROVE  RequestsOK' /\ LocksApart'
<1>1. /\ DOMAIN appRequests' = AppRequests /\ appRequests'[q] = NoRequestYet
      /\ \A p \in AppRequests \ {q} : appRequests'[p] = appRequests[p]
  BY DEF Done, RequestsOK
<1>2. RequestsOK'
  <2>1. ASSUME NEW p \in AppRequests PROVE RequestOK(appRequests[p])'
    <3>1. CASE p = q
      BY <1>1, <3>1 DEF RequestOK, NoRequestYet, SweepOps, LoginOps
    <3>2. CASE p # q
      BY <1>1, <3>2, RequestStays
    <3> QED BY <3>1, <3>2
  <2> QED BY <1>1, <2>1 DEF RequestsOK
<1>3. \A p \in AppRequests \ {q} : Held(p)' = Held(p)
  BY <1>1 DEF Held, Pending
<1>4. Held(q)' = {}
  BY <1>1 DEF Held, Pending, NoRequestYet
<1> QED BY <1>2, <1>3, <1>4 DEF LocksApart

LEMMA RequestsStand ==
  ASSUME RequestsOK, LocksApart, UNCHANGED appRequests, \A p \in AppRequests : Undisturbed(p)
  PROVE  RequestsOK' /\ LocksApart'
<1>1. RequestsOK'
  BY RequestStays DEF RequestsOK
<1>2. \A p \in AppRequests : Held(p)' = Held(p)
  BY DEF Held, Pending
<1> QED BY <1>1, <1>2 DEF LocksApart

------------------------------------------------------------------------------
(* Families *)

LEMMA FamiliesRevoked ==
  ASSUME TablesOK, FamilyInv, NEW S, appSessions' = Revoked(S)
  PROVE  FamilyInv'
BY RevokedSessions DEF FamilyInv, OneLivePerFamily, Active

LEMMA FamilyOpened ==
  ASSUME TablesOK, FamilyInv, NEW u \in AppUsers, NEW key, NEW kind \in OriginKinds, NEW id \in Nat,
         createAppSession(u, 0, key, <<kind, id>>)
  PROVE  FamilyInv'
<1> DEFINE n == Len(appSessions) + 1
<1>1. /\ DOMAIN appSessions' = DOMAIN appSessions \cup {n} /\ n \notin DOMAIN appSessions
      /\ \A s \in DOMAIN appSessions : appSessions'[s] = appSessions[s]
      /\ appSessions'[n].family = n
  <2>1. /\ DOMAIN appSessions' = DOMAIN appSessions \cup {n} /\ n \notin DOMAIN appSessions
        /\ \A s \in DOMAIN appSessions : appSessions'[s] = appSessions[s]
        /\ appSessions'[n] = [user |-> u, family |-> n, revoked |-> FALSE, replacedBy |-> 0,
                              origin |-> <<kind, id>>]
    BY OpenedSession
  <2> HIDE DEF n
  <2> QED BY <2>1
<1> HIDE DEF n
<1> QED BY <1>1 DEF FamilyInv, OneLivePerFamily, Active

LEMMA FamilyRotated ==
  ASSUME TablesOK, FamilyInv, NEW q \in AppRequests, RequestOK(appRequests[q]), RefreshCommit(q)
  PROVE  FamilyInv'
<1> DEFINE n == Len(appSessions) + 1
           s == appRequests[q].session
<1>1. /\ DOMAIN appSessions' = DOMAIN appSessions \cup {n} /\ n \notin DOMAIN appSessions
      /\ s \in DOMAIN appSessions
      /\ \A x \in DOMAIN appSessions \ {s} : appSessions'[x] = appSessions[x]
      /\ appSessions'[s].revoked /\ appSessions'[s].family = appSessions[s].family
      /\ appSessions'[n].family = appSessions[s].family
  <2>1. /\ DOMAIN appSessions' = DOMAIN appSessions \cup {n} /\ n \notin DOMAIN appSessions
        /\ s \in DOMAIN appSessions
        /\ \A x \in DOMAIN appSessions \ {s} : appSessions'[x] = appSessions[x]
        /\ appSessions'[s].revoked /\ appSessions'[s].family = appSessions[s].family
        /\ appSessions'[n] = [user |-> appSessions[s].user, family |-> appSessions[s].family,
                              revoked |-> FALSE, replacedBy |-> 0, origin |-> <<"refresh", s>>]
    BY RotatedSession
  <2> HIDE DEF n, s
  <2> QED BY <2>1
<1>2. Active(s)
  BY DEF RequestOK, RefreshCommit
<1> HIDE DEF n, s
<1> QED BY <1>1, <1>2 DEF FamilyInv, OneLivePerFamily, Active

------------------------------------------------------------------------------
(* Origins *)

SessionsKept ==
  /\ DOMAIN appSessions \subseteq DOMAIN appSessions'
  /\ \A s \in DOMAIN appSessions :
       /\ appSessions'[s].user = appSessions[s].user
       /\ appSessions'[s].origin = appSessions[s].origin
       /\ appSessions[s].replacedBy # 0 => appSessions'[s].replacedBy = appSessions[s].replacedBy
TokensKept ==
  /\ DOMAIN authTokens \subseteq DOMAIN authTokens'
  /\ \A t \in DOMAIN authTokens : authTokens[t].used => authTokens'[t].used
UsesKept ==
  /\ TokensKept
  /\ DOMAIN mfaChallenges \subseteq DOMAIN mfaChallenges'
  /\ \A c \in DOMAIN mfaChallenges : mfaChallenges[c].used => mfaChallenges'[c].used
CodesKept ==
  \A u \in AppUsers :
    /\ enrolments[u] <= enrolments'[u]
    /\ \A code \in Nat :
         code <= enrolments[u] /\ code \notin recoveryCodes[u] => code \notin recoveryCodes'[u]

\* What is spent stays spent.
LEMMA SpentStays ==
  ASSUME TablesOK, CodesOK, CodesOK', NEW s \in DOMAIN appSessions, Spent(s),
         SessionsKept, UsesKept, CodesKept
  PROVE  Spent(s)'
<1> DEFINE kind == appSessions[s].origin[1]
           id == appSessions[s].origin[2]
           u == appSessions[s].user
<1>1. u \in AppUsers /\ id \in Nat /\ s # 0
  <2>1. appSessions[s] \in SessionRow /\ DOMAIN appSessions = 1 .. Len(appSessions)
    BY DEF TablesOK
  <2>2. s \in 1 .. Len(appSessions) /\ Len(appSessions) \in Nat
    BY <2>1 DEF TablesOK
  <2> QED BY <2>1, <2>2 DEF SessionRow
<1>2. appSessions'[s].origin = appSessions[s].origin /\ appSessions'[s].user = u
  BY DEF SessionsKept
<1>3. kind \in {"password", "signup"} => id = s
  BY DEF Spent
<1>4. kind = "refresh" => id \in DOMAIN appSessions' /\ appSessions'[id].replacedBy = s
  BY <1>1 DEF Spent, SessionsKept
<1>5. kind = "token" => id \in DOMAIN authTokens' /\ authTokens'[id].used
  BY DEF Spent, UsesKept, TokensKept
<1>6. kind = "challenge" => id \in DOMAIN mfaChallenges' /\ mfaChallenges'[id].used
  BY DEF Spent, UsesKept, TokensKept
<1>7. kind = "code" => id <= enrolments'[u] /\ id \notin recoveryCodes'[u]
  <2>1. enrolments[u] \in Nat /\ enrolments'[u] \in Nat
    BY <1>1 DEF CodesOK
  <2>2. kind = "code" => id <= enrolments[u] /\ id \notin recoveryCodes[u]
    BY DEF Spent
  <2>3. enrolments[u] <= enrolments'[u]
    BY <1>1 DEF CodesKept
  <2>4. id <= enrolments[u] /\ id \notin recoveryCodes[u] => id \notin recoveryCodes'[u]
    BY <1>1 DEF CodesKept
  <2> HIDE DEF kind, id, u
  <2> QED BY <1>1, <2>1, <2>2, <2>3, <2>4
<1> QED BY <1>2, <1>3, <1>4, <1>5, <1>6, <1>7 DEF Spent

LEMMA OriginsKept ==
  ASSUME TablesOK, OriginInv, CodesOK', SessionsKept, UsesKept, CodesKept,
         DOMAIN appSessions' = DOMAIN appSessions
  PROVE  OriginInv'
<1>1. \A s \in DOMAIN appSessions : Spent(s)'
  BY SpentStays DEF OriginInv
<1>2. OpensOnce'
  BY DEF OriginInv, OpensOnce, SessionsKept
<1> QED BY <1>1, <1>2 DEF OriginInv

LEMMA OriginAdded ==
  ASSUME TablesOK, OriginInv, CodesOK', SessionsKept, UsesKept, CodesKept,
         NEW n, DOMAIN appSessions' = DOMAIN appSessions \cup {n}, Spent(n)',
         \A s \in DOMAIN appSessions :
           ~ (/\ appSessions[s].origin = appSessions'[n].origin
              /\ appSessions[s].user = appSessions'[n].user)
  PROVE  OriginInv'
<1>1. \A s \in DOMAIN appSessions : Spent(s)'
  BY SpentStays DEF OriginInv
<1>2. OpensOnce'
  BY DEF OriginInv, OpensOnce, SessionsKept
<1> QED BY <1>1, <1>2 DEF OriginInv

\* What opens a session was not spent before and is now.
Opens(u, kind, id) ==
  /\ kind \in {"password", "signup"} => id = Len(appSessions) + 1
  /\ kind = "token" => id \in DOMAIN authTokens /\ ~authTokens[id].used /\ authTokens'[id].used
  /\ kind = "challenge" =>
       id \in DOMAIN mfaChallenges /\ ~mfaChallenges[id].used /\ mfaChallenges'[id].used
  /\ kind = "code" =>
       id <= enrolments'[u] /\ id \in recoveryCodes[u] /\ id \notin recoveryCodes'[u]
  /\ kind = "oauth" => \A s \in DOMAIN appSessions : appSessions[s].origin # <<kind, id>>
  /\ kind # "refresh"

LEMMA SessionOpened ==
  ASSUME TablesOK, FamilyInv, OriginInv, CodesOK', UsesKept, CodesKept,
         NEW u \in AppUsers, NEW key, NEW kind \in OriginKinds, NEW id \in Nat,
         createAppSession(u, 0, key, <<kind, id>>), Opens(u, kind, id)
  PROVE  /\ appSessions' \in Seq(SessionRow)
         /\ DOMAIN appSessions \subseteq DOMAIN appSessions'
         /\ \A s \in DOMAIN appSessions : appSessions'[s] = appSessions[s]
         /\ FamilyInv' /\ OriginInv'
<1> PICK n : n = Len(appSessions) + 1
  OBVIOUS
<1>1. /\ appSessions' \in Seq(SessionRow)
      /\ DOMAIN appSessions' = DOMAIN appSessions \cup {n} /\ n \notin DOMAIN appSessions
      /\ \A s \in DOMAIN appSessions : appSessions'[s] = appSessions[s]
      /\ appSessions'[n] = [user |-> u, family |-> n, revoked |-> FALSE, replacedBy |-> 0,
                            origin |-> <<kind, id>>]
  BY OpenedSession
<1>2. kind \in {"password", "signup"} => id = n
  BY DEF Opens
<1>3. appSessions'[n].user = u /\ appSessions'[n].origin = <<kind, id>>
  BY <1>1
<1>4. SessionsKept
  BY <1>1 DEF SessionsKept
<1>5. Spent(n)'
  <2>1. /\ kind \in {"password", "signup"} => id = n
        /\ kind # "refresh"
        /\ kind = "token" => id \in DOMAIN authTokens' /\ authTokens'[id].used
        /\ kind = "challenge" => id \in DOMAIN mfaChallenges' /\ mfaChallenges'[id].used
        /\ kind = "code" => id <= enrolments'[u] /\ id \notin recoveryCodes'[u]
    BY <1>2 DEF Opens, UsesKept, TokensKept
  <2>2. appSessions'[n].origin[1] = kind /\ appSessions'[n].origin[2] = id
    BY <1>3
  <2> QED BY <1>3, <2>1, <2>2 DEF Spent
<1>6. ASSUME NEW s \in DOMAIN appSessions, appSessions[s].origin = <<kind, id>>,
             appSessions[s].user = u
      PROVE  FALSE
  <2>1. Spent(s)
    BY DEF OriginInv
  <2>2. appSessions[s].origin[1] = kind /\ appSessions[s].origin[2] = id
    BY <1>6
  <2>3. CASE kind \in {"password", "signup"}
    BY <1>1, <1>2, <2>1, <2>2, <2>3 DEF Spent
  <2>4. CASE kind = "token"
    BY <2>1, <2>2, <2>4 DEF Spent, Opens
  <2>5. CASE kind = "challenge"
    BY <2>1, <2>2, <2>5 DEF Spent, Opens
  <2>6. CASE kind = "code"
    BY <1>6, <2>1, <2>2, <2>6 DEF Spent, Opens
  <2>7. CASE kind = "oauth"
    BY <1>6, <2>7 DEF Opens
  <2>8. kind # "refresh"
    BY DEF Opens
  <2> QED BY <2>3, <2>4, <2>5, <2>6, <2>7, <2>8 DEF OriginKinds
<1>7. \A s \in DOMAIN appSessions :
        ~ (/\ appSessions[s].origin = appSessions'[n].origin
           /\ appSessions[s].user = appSessions'[n].user)
  BY <1>3, <1>6
<1>8. OriginInv'
  <2>1. DOMAIN appSessions' = DOMAIN appSessions \cup {n}
    BY <1>1
  <2> QED BY <1>4, <1>5, <1>7, <2>1, OriginAdded
<1>9. FamilyInv'
  BY FamilyOpened
<1> QED BY <1>1, <1>8, <1>9

------------------------------------------------------------------------------
(* First steps of requests *)

LEMMA SameTables ==
  ASSUME UNCHANGED <<appSessions, authTokens, mfaChallenges>>
  PROVE  /\ \A p \in AppRequests : Undisturbed(p)
         /\ \A r : RequestOK(r) => RequestOK(r)'
         /\ UsesKept /\ SessionsKept
BY DEF Undisturbed, RequestOK, UsesKept, TokensKept, SessionsKept, Active

LEMMA SameAccounts ==
  ASSUME AccountInv, UNCHANGED <<accounts, appSessions, authTokens, mfaChallenges>>
  PROVE  TablesOK' /\ FamilyInv' /\ OriginInv'
<1>1. TablesOK'
  BY DEF AccountInv, TablesOK, accounts
<1>2. FamilyInv'
  BY DEF AccountInv, FamilyInv, OneLivePerFamily, Active
<1>3. OriginInv'
  BY DEF AccountInv, OriginInv, CodesOK, Spent, OpensOnce, accounts
<1> QED BY <1>1, <1>2, <1>3

LEMMA MovePreserves ==
  ASSUME AccountInv, UNCHANGED <<accounts, appSessions, authTokens, mfaChallenges>>,
         NEW q \in AppRequests, NEW r, appRequests' = [appRequests EXCEPT ![q] = r],
         r.op # "none", RequestOK(r),
         \A l \in r.locks : \A p \in AppRequests \ {q} : l \notin Held(p)
  PROVE  AccountInv'
<1>1. RequestsOK' /\ LocksApart'
  <2>1. RequestOK(r)' /\ \A p \in AppRequests : Undisturbed(p)
    BY SameTables
  <2> QED BY <2>1, RequestMoves DEF AccountInv
<1> QED BY <1>1, SameAccounts DEF AccountInv

LEMMA BeginPreserves ==
  ASSUME AccountInv, UNCHANGED <<accounts, appSessions, authTokens, mfaChallenges>>,
         NEW q \in AppRequests, NEW r, Begin(q, r), r.op # "none", RequestOK(r),
         \A l \in r.locks : \A p \in AppRequests : l \notin Held(p)
  PROVE  AccountInv'
BY MovePreserves DEF Begin

\* A row that is not locked is held by nobody.
LEMMA NotHeld ==
  ASSUME NEW kind, NEW id, ~Locked(kind, id)
  PROVE  \A p \in AppRequests : <<kind, id>> \notin Held(p)
BY DEF Locked

LEMMA SignupBeginStep ==
  ASSUME AccountInv, NEW q \in AppRequests, NEW u \in AppUsers, NEW e \in Emails, SignupBegin(q, u, e)
  PROVE  AccountInv'
<1> DEFINE r == [op |-> "signup", user |-> u, email |-> e, locks |-> {<<"advisory", 0>>}]
<1>1. Begin(q, r) /\ UNCHANGED <<accounts, appSessions, authTokens, mfaChallenges>>
  BY DEF SignupBegin
<1>2. r.op # "none" /\ RequestOK(r)
  BY DEF RequestOK, SweepOps, LoginOps
<1>3. \A l \in r.locks : \A p \in AppRequests : l \notin Held(p)
  BY NotHeld DEF SignupBegin, CollectionLockFree
<1> HIDE DEF r
<1> QED BY <1>1, <1>2, <1>3, BeginPreserves

LEMMA LoginReadStep ==
  ASSUME AccountInv, NEW q \in AppRequests, NEW u \in AppUsers, LoginRead(q, u)
  PROVE  AccountInv'
<1> DEFINE r == [op |-> "login", user |-> u, key |-> appUsers[u].key,
                 factor |-> "unread", enrolled |-> 0, locks |-> {}]
<1>1. Begin(q, r) /\ UNCHANGED <<accounts, appSessions, authTokens, mfaChallenges>>
  BY DEF LoginRead
<1>2. r.op # "none" /\ RequestOK(r) /\ r.locks = {}
  BY DEF RequestOK, SweepOps, LoginOps
<1> HIDE DEF r
<1> QED BY <1>1, <1>2, BeginPreserves

\* A login that reads its user's factors takes the row of the user.
LEMMA FactorReadMoves ==
  ASSUME AccountInv, NEW q \in AppRequests, NEW on \in BOOLEAN, FactorRead(q, on)
  PROVE  \E f, w :
           /\ f \in {"off", "none", "enabled"}
           /\ appRequests' = [appRequests EXCEPT ![q] = w]
           /\ appRequests[q].op \in LoginOps /\ DOMAIN w = DOMAIN appRequests[q]
           /\ w.op = appRequests[q].op /\ w.user = appRequests[q].user
           /\ w.key = appRequests[q].key
           /\ w.factor = f /\ w.enrolled = enrolments[appRequests[q].user]
           /\ w.locks = appRequests[q].locks \cup {<<"user", appRequests[q].user>>}
           /\ appRequests[q].op = "login_otp" => w.token = appRequests[q].token
           /\ appRequests[q].op = "oauth" => w.callback = appRequests[q].callback
           /\ f = "none" => ~MfaRequired(appRequests[q].user)
<1>1. PICK f : f = IF ~on THEN "off"
                   ELSE IF MfaRequired(appRequests[q].user) THEN "enabled" ELSE "none"
  OBVIOUS
<1>2. PICK n : n = enrolments[appRequests[q].user]
  OBVIOUS
<1>3. PICK L : L = appRequests[q].locks \cup {<<"user", appRequests[q].user>>}
  OBVIOUS
<1>4. PICK r : r = appRequests[q]
  OBVIOUS
<1>5. PICK w : w = [r EXCEPT !.factor = f, !.enrolled = n, !.locks = L]
  OBVIOUS
<1>6. r.op \in LoginOps /\ appRequests' = [appRequests EXCEPT ![q] = w]
  BY <1>1, <1>2, <1>3, <1>4, <1>5 DEF FactorRead
<1>7. RequestOK(r)
  BY <1>4 DEF AccountInv, RequestsOK
<1>8. f \in {"off", "none", "enabled"} /\ (f = "none" => ~MfaRequired(appRequests[q].user))
  BY <1>1
<1>9. /\ DOMAIN w = DOMAIN r
      /\ w.op = r.op /\ w.user = r.user /\ w.key = r.key
      /\ w.factor = f /\ w.enrolled = n /\ w.locks = L
      /\ r.op = "login_otp" => w.token = r.token
      /\ r.op = "oauth" => w.callback = r.callback
  BY <1>5, <1>6, <1>7 DEF RequestOK
<1>10. w.locks = appRequests[q].locks \cup {<<"user", appRequests[q].user>>}
  BY <1>3, <1>9
<1>11. w.factor = f /\ w.enrolled = enrolments[appRequests[q].user]
  BY <1>2, <1>9
<1> DEFINE Moves(g, x) ==
             /\ g \in {"off", "none", "enabled"}
             /\ appRequests' = [appRequests EXCEPT ![q] = x]
             /\ appRequests[q].op \in LoginOps /\ DOMAIN x = DOMAIN appRequests[q]
             /\ x.op = appRequests[q].op /\ x.user = appRequests[q].user
             /\ x.key = appRequests[q].key
             /\ x.factor = g /\ x.enrolled = enrolments[appRequests[q].user]
             /\ x.locks = appRequests[q].locks \cup {<<"user", appRequests[q].user>>}
             /\ appRequests[q].op = "login_otp" => x.token = appRequests[q].token
             /\ appRequests[q].op = "oauth" => x.callback = appRequests[q].callback
             /\ g = "none" => ~MfaRequired(appRequests[q].user)
<1>12. Moves(f, w)
  BY <1>4, <1>6, <1>8, <1>9, <1>10, <1>11
<1> SUFFICES \E g, x : Moves(g, x)
  OBVIOUS
<1> HIDE DEF Moves
<1> QED BY <1>12

LEMMA FactorReadStep ==
  ASSUME AccountInv, NEW q \in AppRequests, NEW on \in BOOLEAN, FactorRead(q, on)
  PROVE  AccountInv'
<1> DEFINE r == appRequests[q]
<1>1. PICK f, w :
        /\ f \in {"off", "none", "enabled"}
        /\ appRequests' = [appRequests EXCEPT ![q] = w]
        /\ r.op \in LoginOps /\ DOMAIN w = DOMAIN r
        /\ w.op = r.op /\ w.user = r.user /\ w.key = r.key
        /\ w.factor = f
        /\ w.locks = r.locks \cup {<<"user", r.user>>}
        /\ r.op = "login_otp" => w.token = r.token
  BY FactorReadMoves
<1>2. UNCHANGED <<accounts, appSessions, authTokens, mfaChallenges>>
  BY DEF FactorRead
<1>3. RequestOK(r)
  BY DEF AccountInv, RequestsOK
<1>4. w.op # "none" /\ RequestOK(w)
  <2> HIDE DEF r
  <2> QED BY <1>1, <1>3 DEF RequestOK, LoginOps, SweepOps
<1>5. Held(q) = r.locks
  BY <1>1 DEF Held, Pending, LoginOps
<1>6. \A p \in AppRequests : <<"user", r.user>> \notin Held(p)
  BY NotHeld DEF FactorRead
<1>7. \A l \in w.locks : \A p \in AppRequests \ {q} : l \notin Held(p)
  BY <1>1, <1>5, <1>6 DEF AccountInv, LocksApart
<1> HIDE DEF r
<1> QED BY <1>1, <1>2, <1>4, <1>7, MovePreserves

LEMMA LogoutAllBeginStep ==
  ASSUME AccountInv, NEW q \in AppRequests, NEW u \in AppUsers, LogoutAllBegin(q, u)
  PROVE  AccountInv'
<1> DEFINE r == [op |-> "logout_all", user |-> u, seen |-> Sessions(u), locks |-> {<<"user", u>>}]
<1>1. Begin(q, r) /\ UNCHANGED <<accounts, appSessions, authTokens, mfaChallenges>>
  BY DEF LogoutAllBegin
<1>2. r.op # "none" /\ RequestOK(r)
  BY DEF RequestOK, SweepOps, LoginOps, Sessions
<1>3. \A l \in r.locks : \A p \in AppRequests : l \notin Held(p)
  BY NotHeld DEF LogoutAllBegin
<1> HIDE DEF r
<1> QED BY <1>1, <1>2, <1>3, BeginPreserves

LEMMA RefreshLockStep ==
  ASSUME AccountInv, NEW q \in AppRequests, NEW s \in DOMAIN appSessions, RefreshLock(q, s)
  PROVE  AccountInv'
<1> DEFINE row == appSessions[s]
           op == IF row.replacedBy # 0 THEN "replay" ELSE "refresh"
           family == {x \in DOMAIN appSessions : appSessions[x].family = row.family}
           r == [op |-> op, session |-> s, user |-> row.user, key |-> appUsers[row.user].key,
                 seen |-> family, locks |-> {<<"session", s>>}]
<1>1. Begin(q, r) /\ UNCHANGED <<accounts, appSessions, authTokens, mfaChallenges>>
  BY DEF RefreshLock
<1>2. r.op # "none" /\ RequestOK(r)
  <2>1. op = "refresh" => Active(s) /\ row.replacedBy = 0
    BY DEF RefreshLock
  <2>2. op \in {"refresh", "replay"} /\ family \subseteq DOMAIN appSessions
    OBVIOUS
  <2> HIDE DEF op, family
  <2> QED BY <2>1, <2>2 DEF RequestOK, SweepOps, LoginOps
<1>3. \A l \in r.locks : \A p \in AppRequests : l \notin Held(p)
  BY NotHeld DEF RefreshLock
<1> HIDE DEF r
<1> QED BY <1>1, <1>2, <1>3, BeginPreserves

LEMMA OTPLockStep ==
  ASSUME AccountInv, NEW q \in AppRequests, NEW t \in DOMAIN authTokens, OTPLock(q, t)
  PROVE  AccountInv'
<1> DEFINE u == authTokens[t].user
           r == [op |-> "login_otp", token |-> t, user |-> u, key |-> appUsers[u].key,
                 factor |-> "unread", enrolled |-> 0, locks |-> {<<"token", t>>}]
<1>1. Begin(q, r) /\ UNCHANGED <<accounts, appSessions, authTokens, mfaChallenges>>
  BY DEF OTPLock
<1>2. r.op # "none" /\ RequestOK(r)
  <2>1. u \in AppUsers
    <3>1. authTokens[t] \in TokenRow
      BY DEF AccountInv, TablesOK
    <3> QED BY <3>1 DEF TokenRow
  <2> QED BY <2>1 DEF RequestOK, SweepOps, LoginOps, OTPLock, Usable
<1>3. \A l \in r.locks : \A p \in AppRequests : l \notin Held(p)
  BY NotHeld DEF OTPLock, Usable
<1> HIDE DEF r
<1> QED BY <1>1, <1>2, <1>3, BeginPreserves

LEMMA ConfirmBeginStep ==
  ASSUME AccountInv, NEW q \in AppRequests, NEW t \in DOMAIN authTokens, ConfirmBegin(q, t)
  PROVE  AccountInv'
<1> DEFINE u == authTokens[t].user
           type == authTokens[t].type
           r == [op |-> type, token |-> t, user |-> u, seen |-> Sessions(u),
                 locks |-> {<<"user", u>>, <<"token", t>>}]
<1>1. Begin(q, r) /\ UNCHANGED <<accounts, appSessions, authTokens, mfaChallenges>>
  BY DEF ConfirmBegin
<1>2. r.op # "none" /\ RequestOK(r)
  <2>1. u \in AppUsers
    <3>1. authTokens[t] \in TokenRow
      BY DEF AccountInv, TablesOK
    <3> QED BY <3>1 DEF TokenRow
  <2>2. type \in {"password_reset", "email_change"} /\ ~authTokens[t].used
    BY DEF ConfirmBegin, Usable
  <2>3. Sessions(u) \subseteq DOMAIN appSessions
    BY DEF Sessions
  <2> HIDE DEF u, type
  <2> QED BY <2>1, <2>2, <2>3 DEF RequestOK, SweepOps, LoginOps
<1>3. \A l \in r.locks : \A p \in AppRequests : l \notin Held(p)
  BY NotHeld DEF ConfirmBegin, Usable
<1> HIDE DEF r
<1> QED BY <1>1, <1>2, <1>3, BeginPreserves

LEMMA ChallengeLockStep ==
  ASSUME AccountInv, NEW q \in AppRequests, NEW c \in DOMAIN mfaChallenges, ChallengeLock(q, c)
  PROVE  AccountInv'
<1> DEFINE u == mfaChallenges[c].user
           r == [op |-> "challenge", challenge |-> c, user |-> u, key |-> appUsers[u].key,
                 locks |-> {<<"challenge", c>>}]
<1>1. Begin(q, r) /\ UNCHANGED <<accounts, appSessions, authTokens, mfaChallenges>>
  BY DEF ChallengeLock
<1>2. r.op # "none" /\ RequestOK(r)
  <2>1. u \in AppUsers
    <3>1. mfaChallenges[c] \in ChallengeRow
      BY DEF AccountInv, TablesOK
    <3> QED BY <3>1 DEF ChallengeRow
  <2> QED BY <2>1 DEF RequestOK, SweepOps, LoginOps, ChallengeLock
<1>3. \A l \in r.locks : \A p \in AppRequests : l \notin Held(p)
  BY NotHeld DEF ChallengeLock
<1> HIDE DEF r
<1> QED BY <1>1, <1>2, <1>3, BeginPreserves

------------------------------------------------------------------------------
(* Second steps *)

\* A login ends in a session or in a challenge; both only add a row.
LEMMA LoggedIn ==
  ASSUME AccountInv, NEW r, NEW u \in AppUsers, u = r.user, NEW kind \in OriginKinds, NEW id \in Nat,
         SessionOrChallenge(r, <<kind, id>>), Opens(u, kind, id),
         CodesOK', CodesKept, TokensKept
  PROVE  /\ appSessions' \in Seq(SessionRow) /\ DOMAIN appSessions \subseteq DOMAIN appSessions'
         /\ \A s \in DOMAIN appSessions : appSessions'[s] = appSessions[s]
         /\ mfaChallenges' \in Seq(ChallengeRow)
         /\ DOMAIN mfaChallenges \subseteq DOMAIN mfaChallenges'
         /\ \A c \in DOMAIN mfaChallenges : mfaChallenges'[c] = mfaChallenges[c]
         /\ FamilyInv' /\ OriginInv'
<1>1. CASE r.factor = "enabled"
  <2> DEFINE row == [user |-> u, used |-> FALSE]
  <2>1. row \in ChallengeRow
    BY DEF ChallengeRow
  <2>2. mfaChallenges' = Append(mfaChallenges, row) /\ UNCHANGED appSessions
    BY <1>1 DEF SessionOrChallenge
  <2> HIDE DEF row
  <2>3. /\ mfaChallenges' \in Seq(ChallengeRow)
        /\ DOMAIN mfaChallenges \subseteq DOMAIN mfaChallenges'
        /\ \A c \in DOMAIN mfaChallenges : mfaChallenges'[c] = mfaChallenges[c]
    BY <2>1, <2>2, AppendedRow DEF AccountInv, TablesOK
  <2>4. UsesKept /\ SessionsKept
    BY <2>2, <2>3 DEF UsesKept, SessionsKept
  <2>5. FamilyInv' /\ OriginInv'
    <3>1. FamilyInv'
      BY <2>2 DEF AccountInv, FamilyInv, OneLivePerFamily, Active
    <3>2. OriginInv'
      BY <2>2, <2>4, OriginsKept DEF AccountInv
    <3> QED BY <3>1, <3>2
  <2> QED BY <2>2, <2>3, <2>5 DEF AccountInv, TablesOK
<1>2. CASE r.factor # "enabled"
  <2>1. createAppSession(u, 0, r.key, <<kind, id>>) /\ UNCHANGED mfaChallenges
    BY <1>2 DEF SessionOrChallenge
  <2>2. UsesKept
    BY <2>1 DEF UsesKept
  <2>3. /\ appSessions' \in Seq(SessionRow)
        /\ DOMAIN appSessions \subseteq DOMAIN appSessions'
        /\ \A s \in DOMAIN appSessions : appSessions'[s] = appSessions[s]
        /\ FamilyInv' /\ OriginInv'
    BY <2>1, <2>2, SessionOpened DEF AccountInv
  <2> QED BY <2>1, <2>3 DEF AccountInv, TablesOK
<1> QED BY <1>1, <1>2

LEMMA SameCodes ==
  ASSUME AccountInv, UNCHANGED <<enrolments, recoveryCodes>>
  PROVE  CodesOK' /\ CodesKept
<1>1. \A u \in AppUsers : enrolments[u] \in Nat
  BY DEF AccountInv, OriginInv, CodesOK
<1> QED BY <1>1 DEF AccountInv, OriginInv, CodesOK, CodesKept

LEMMA SignupCommitStep ==
  ASSUME AccountInv, NEW q \in AppRequests, SignupCommit(q)
  PROVE  AccountInv'
<1> DEFINE u == appRequests[q].user
           e == appRequests[q].email
           id == Len(appSessions) + 1
<1>1. u \in AppUsers /\ e \in Emails /\ id \in Nat
  <2>1. RequestOK(appRequests[q]) /\ appRequests[q].op = "signup"
    BY DEF AccountInv, RequestsOK, SignupCommit
  <2>2. u \in AppUsers /\ e \in Emails
    BY <2>1 DEF RequestOK
  <2>3. id \in Nat
    BY DEF AccountInv, TablesOK
  <2> QED BY <2>2, <2>3
<1>2. /\ createAppSession(u, 0, 0, <<"signup", id>>) /\ Done(q)
      /\ UNCHANGED <<enrolments, recoveryCodes, authTokens, mfaChallenges>>
      /\ appUsers' = [appUsers EXCEPT ![u].email = e]
  BY DEF SignupCommit
<1>3. Opens(u, "signup", id)
  BY DEF Opens
<1> HIDE DEF u, e, id
<1>4. CodesOK' /\ CodesKept /\ UsesKept
  BY <1>2, SameCodes DEF UsesKept, TokensKept
<1>5. /\ appSessions' \in Seq(SessionRow)
      /\ DOMAIN appSessions \subseteq DOMAIN appSessions'
      /\ \A s \in DOMAIN appSessions : appSessions'[s] = appSessions[s]
      /\ FamilyInv' /\ OriginInv'
  <2>1. "signup" \in OriginKinds
    BY DEF OriginKinds
  <2> QED BY <1>1, <1>2, <1>3, <1>4, <2>1, SessionOpened DEF AccountInv
<1>6. TablesOK'
  <2>1. appUsers' \in [AppUsers -> UserRow]
    BY <1>1, <1>2 DEF AccountInv, TablesOK, UserRow
  <2> QED BY <1>2, <1>5, <2>1 DEF AccountInv, TablesOK
<1>7. RequestsOK' /\ LocksApart'
  <2>1. \A p \in AppRequests : Undisturbed(p)
    BY <1>2, <1>5 DEF Undisturbed
  <2> QED BY <1>2, <2>1, RequestEnds DEF AccountInv
<1> QED BY <1>5, <1>6, <1>7 DEF AccountInv

LEMMA LoginCommitStep ==
  ASSUME AccountInv, NEW q \in AppRequests, LoginCommit(q)
  PROVE  AccountInv'
<1> DEFINE u == appRequests[q].user
           id == Len(appSessions) + 1
<1>1. u \in AppUsers /\ id \in Nat
  <2>1. RequestOK(appRequests[q]) /\ appRequests[q].op = "login"
    BY DEF AccountInv, RequestsOK, LoginCommit
  <2>2. u \in AppUsers
    BY <2>1 DEF RequestOK, LoginOps
  <2>3. id \in Nat
    BY DEF AccountInv, TablesOK
  <2> QED BY <2>2, <2>3
<1>2. /\ SessionOrChallenge(appRequests[q], <<"password", id>>) /\ Done(q)
      /\ UNCHANGED <<accounts, authTokens>>
  BY DEF LoginCommit
<1>3. Opens(u, "password", id) /\ u = appRequests[q].user
  BY DEF Opens
<1> HIDE DEF u, id
<1>4. CodesOK' /\ CodesKept /\ TokensKept
  BY <1>2, SameCodes DEF TokensKept, accounts
<1>5. /\ appSessions' \in Seq(SessionRow) /\ DOMAIN appSessions \subseteq DOMAIN appSessions'
      /\ \A s \in DOMAIN appSessions : appSessions'[s] = appSessions[s]
      /\ mfaChallenges' \in Seq(ChallengeRow)
      /\ DOMAIN mfaChallenges \subseteq DOMAIN mfaChallenges'
      /\ \A c \in DOMAIN mfaChallenges : mfaChallenges'[c] = mfaChallenges[c]
      /\ FamilyInv' /\ OriginInv'
  <2>1. "password" \in OriginKinds
    BY DEF OriginKinds
  <2> QED BY <1>1, <1>2, <1>3, <1>4, <2>1, LoggedIn
<1>6. TablesOK'
  BY <1>2, <1>5 DEF AccountInv, TablesOK, accounts
<1>7. RequestsOK' /\ LocksApart'
  <2>1. \A p \in AppRequests : Undisturbed(p)
    BY <1>2, <1>5 DEF Undisturbed
  <2> QED BY <1>2, <2>1, RequestEnds DEF AccountInv
<1> QED BY <1>5, <1>6, <1>7 DEF AccountInv

LEMMA OTPCommitStep ==
  ASSUME AccountInv, NEW q \in AppRequests, OTPCommit(q)
  PROVE  AccountInv'
<1> DEFINE u == appRequests[q].user
           t == appRequests[q].token
<1>1. /\ u \in AppUsers /\ t \in DOMAIN authTokens /\ t \in Nat
      /\ ~authTokens[t].used /\ <<"token", t>> \in Held(q)
  <2>1. RequestOK(appRequests[q]) /\ appRequests[q].op = "login_otp"
    BY DEF AccountInv, RequestsOK, OTPCommit
  <2>2. u \in AppUsers /\ t \in DOMAIN authTokens /\ ~authTokens[t].used
    BY <2>1 DEF RequestOK, LoginOps
  <2>3. <<"token", t>> \in Held(q)
    BY <2>1 DEF RequestOK, Held, Pending
  <2>4. t \in Nat
    BY <2>2 DEF AccountInv, TablesOK
  <2> QED BY <2>2, <2>3, <2>4
<1>2. /\ SessionOrChallenge(appRequests[q], <<"token", t>>) /\ Done(q)
      /\ UseToken(t) /\ UNCHANGED accounts /\ u = appRequests[q].user
  BY DEF OTPCommit
<1> HIDE DEF u, t
<1>3. /\ authTokens' \in Seq(TokenRow) /\ DOMAIN authTokens' = DOMAIN authTokens
      /\ \A x \in DOMAIN authTokens \ {t} : authTokens'[x] = authTokens[x]
      /\ authTokens'[t].used
  BY <1>1, <1>2, UsedToken DEF AccountInv
<1>4. Opens(u, "token", t)
  BY <1>1, <1>3 DEF Opens
<1>5. CodesOK' /\ CodesKept /\ TokensKept
  BY <1>2, <1>3, SameCodes DEF TokensKept, accounts
<1>6. /\ appSessions' \in Seq(SessionRow) /\ DOMAIN appSessions \subseteq DOMAIN appSessions'
      /\ \A s \in DOMAIN appSessions : appSessions'[s] = appSessions[s]
      /\ mfaChallenges' \in Seq(ChallengeRow)
      /\ DOMAIN mfaChallenges \subseteq DOMAIN mfaChallenges'
      /\ \A c \in DOMAIN mfaChallenges : mfaChallenges'[c] = mfaChallenges[c]
      /\ FamilyInv' /\ OriginInv'
  <2>1. "token" \in OriginKinds
    BY DEF OriginKinds
  <2> QED BY <1>1, <1>2, <1>4, <1>5, <2>1, LoggedIn
<1>7. TablesOK'
  BY <1>2, <1>3, <1>6 DEF AccountInv, TablesOK, accounts
<1>8. RequestsOK' /\ LocksApart'
  <2>1. ASSUME NEW p \in AppRequests \ {q} PROVE Undisturbed(p)
    <3>1. <<"token", t>> \notin Held(p)
      BY <1>1 DEF AccountInv, LocksApart
    <3> QED BY <1>3, <1>6, <3>1 DEF Undisturbed
  <2> QED BY <1>2, <2>1, RequestEnds DEF AccountInv
<1> QED BY <1>6, <1>7, <1>8 DEF AccountInv

LEMMA VerifyMFALoginStep ==
  ASSUME AccountInv, NEW q \in AppRequests, VerifyMFALogin(q)
  PROVE  AccountInv'
<1> DEFINE u == appRequests[q].user
           c == appRequests[q].challenge
           key == appRequests[q].key
<1>1. /\ u \in AppUsers /\ c \in DOMAIN mfaChallenges /\ c \in Nat
      /\ ~mfaChallenges[c].used /\ <<"challenge", c>> \in Held(q)
  <2>1. RequestOK(appRequests[q]) /\ appRequests[q].op = "challenge"
    BY DEF AccountInv, RequestsOK, VerifyMFALogin
  <2>2. u \in AppUsers /\ c \in DOMAIN mfaChallenges /\ ~mfaChallenges[c].used
    BY <2>1 DEF RequestOK
  <2>3. <<"challenge", c>> \in Held(q)
    BY <2>1 DEF RequestOK, Held, Pending
  <2>4. c \in Nat
    BY <2>2 DEF AccountInv, TablesOK
  <2> QED BY <2>2, <2>3, <2>4
<1>2. /\ \/ /\ createAppSession(u, 0, key, <<"challenge", c>>)
            /\ UNCHANGED recoveryCodes
         \/ \E code \in recoveryCodes[u] :
              /\ recoveryCodes' = [recoveryCodes EXCEPT ![u] = recoveryCodes[u] \ {code}]
              /\ createAppSession(u, 0, key, <<"code", code>>)
      /\ mfaChallenges' = [mfaChallenges EXCEPT ![c].used = TRUE]
      /\ Done(q) /\ UNCHANGED <<appUsers, enrolments, authTokens>>
  BY DEF VerifyMFALogin
<1> HIDE DEF u, c, key
<1>3. /\ mfaChallenges' \in Seq(ChallengeRow) /\ DOMAIN mfaChallenges' = DOMAIN mfaChallenges
      /\ \A x \in DOMAIN mfaChallenges \ {c} : mfaChallenges'[x] = mfaChallenges[x]
      /\ mfaChallenges'[c].used
  BY <1>1, <1>2, UsedChallenge DEF AccountInv
<1>4. UsesKept
  BY <1>2, <1>3 DEF UsesKept, TokensKept
<1>5. /\ appSessions' \in Seq(SessionRow)
      /\ DOMAIN appSessions \subseteq DOMAIN appSessions'
      /\ \A s \in DOMAIN appSessions : appSessions'[s] = appSessions[s]
      /\ FamilyInv' /\ OriginInv'
  <2>1. CASE createAppSession(u, 0, key, <<"challenge", c>>) /\ UNCHANGED recoveryCodes
    <3>1. "challenge" \in OriginKinds /\ Opens(u, "challenge", c)
      BY <1>1, <1>3 DEF Opens, OriginKinds
    <3>2. CodesOK' /\ CodesKept
      BY <1>2, <2>1, SameCodes
    <3> QED BY <1>1, <1>4, <2>1, <3>1, <3>2, SessionOpened DEF AccountInv
  <2>2. ASSUME NEW code \in recoveryCodes[u],
               recoveryCodes' = [recoveryCodes EXCEPT ![u] = recoveryCodes[u] \ {code}],
               createAppSession(u, 0, key, <<"code", code>>)
        PROVE  /\ appSessions' \in Seq(SessionRow)
               /\ DOMAIN appSessions \subseteq DOMAIN appSessions'
               /\ \A s \in DOMAIN appSessions : appSessions'[s] = appSessions[s]
               /\ FamilyInv' /\ OriginInv'
    <3>1. /\ enrolments' = enrolments /\ \A x \in AppUsers : enrolments[x] \in Nat
          /\ recoveryCodes \in [AppUsers -> SUBSET Nat]
          /\ code \in Nat /\ code <= enrolments[u]
      BY <1>1, <1>2 DEF AccountInv, OriginInv, CodesOK
    <3>2. /\ recoveryCodes'[u] = recoveryCodes[u] \ {code}
          /\ \A x \in AppUsers : recoveryCodes'[x] \subseteq recoveryCodes[x]
          /\ recoveryCodes' \in [AppUsers -> SUBSET Nat]
      BY <1>1, <2>2, <3>1
    <3>3. CodesOK' /\ CodesKept
      BY <3>1, <3>2 DEF AccountInv, OriginInv, CodesOK, CodesKept
    <3>4. "code" \in OriginKinds /\ Opens(u, "code", code)
      BY <3>1, <3>2 DEF Opens, OriginKinds
    <3> QED BY <1>1, <1>4, <2>2, <3>1, <3>3, <3>4, SessionOpened DEF AccountInv
  <2> QED BY <1>2, <2>1, <2>2
<1>6. TablesOK'
  BY <1>2, <1>3, <1>5 DEF AccountInv, TablesOK
<1>7. RequestsOK' /\ LocksApart'
  <2>1. ASSUME NEW p \in AppRequests \ {q} PROVE Undisturbed(p)
    <3>1. <<"challenge", c>> \notin Held(p)
      BY <1>1 DEF AccountInv, LocksApart
    <3> QED BY <1>2, <1>3, <1>5, <3>1 DEF Undisturbed
  <2> QED BY <1>2, <2>1, RequestEnds DEF AccountInv
<1> QED BY <1>5, <1>6, <1>7 DEF AccountInv

\* A refresh is of a session that was not replaced before.
LEMMA RefreshCommitStep ==
  ASSUME AccountInv, NEW q \in AppRequests, RefreshCommit(q)
  PROVE  AccountInv'
<1> PICK n : n = Len(appSessions) + 1
  OBVIOUS
<1> PICK s : s = appRequests[q].session
  OBVIOUS
<1>1. /\ RequestOK(appRequests[q]) /\ appRequests[q].op = "refresh"
      /\ <<"session", s>> \in Held(q) /\ appSessions[s].replacedBy = 0
      /\ Done(q) /\ UNCHANGED <<accounts, authTokens, mfaChallenges>>
  <2>1. RequestOK(appRequests[q]) /\ appRequests[q].op = "refresh"
    BY DEF AccountInv, RequestsOK, RefreshCommit
  <2> QED BY <2>1 DEF RequestOK, Held, Pending, RefreshCommit
<1>2. /\ appSessions' \in Seq(SessionRow)
      /\ DOMAIN appSessions' = DOMAIN appSessions \cup {n} /\ n \notin DOMAIN appSessions
      /\ n \in Nat \ {0} /\ s \in DOMAIN appSessions
      /\ \A x \in DOMAIN appSessions \ {s} : appSessions'[x] = appSessions[x]
      /\ appSessions'[s].replacedBy = n
      /\ appSessions'[s].user = appSessions[s].user
      /\ appSessions'[s].origin = appSessions[s].origin
      /\ appSessions'[n] = [user |-> appSessions[s].user, family |-> appSessions[s].family,
                            revoked |-> FALSE, replacedBy |-> 0, origin |-> <<"refresh", s>>]
  BY <1>1, RotatedSession DEF AccountInv
<1>3. FamilyInv'
  BY <1>1, FamilyRotated DEF AccountInv
<1>4. CodesOK' /\ CodesKept /\ UsesKept /\ SessionsKept
  <2>1. CodesOK' /\ CodesKept
    BY <1>1, SameCodes DEF accounts
  <2>2. SessionsKept
    BY <1>1, <1>2 DEF SessionsKept
  <2> QED BY <1>1, <2>1, <2>2 DEF UsesKept, TokensKept
<1>5. OriginInv'
  <2>1. appSessions'[n].origin = <<"refresh", s>> /\ appSessions'[n].replacedBy = 0
    BY <1>2
  <2>2. Spent(n)'
    <3>1. appSessions'[n].origin[1] = "refresh" /\ appSessions'[n].origin[2] = s
      BY <2>1
    <3> QED BY <1>2, <3>1 DEF Spent
  <2>3. ASSUME NEW x \in DOMAIN appSessions, appSessions[x].origin = <<"refresh", s>>
        PROVE  FALSE
    <3>1. appSessions[x].origin[1] = "refresh" /\ appSessions[x].origin[2] = s
      BY <2>3
    <3>2. appSessions[s].replacedBy = x
      BY <3>1 DEF AccountInv, OriginInv, Spent
    <3>3. x # 0
      BY DEF AccountInv, TablesOK
    <3> QED BY <1>1, <3>2, <3>3
  <2>4. \A x \in DOMAIN appSessions :
          ~ (/\ appSessions[x].origin = appSessions'[n].origin
             /\ appSessions[x].user = appSessions'[n].user)
    BY <2>1, <2>3
  <2> QED BY <1>2, <1>4, <2>2, <2>4, OriginAdded DEF AccountInv
<1>6. TablesOK'
  BY <1>1, <1>2 DEF AccountInv, TablesOK, accounts
<1>7. RequestsOK' /\ LocksApart'
  <2>1. ASSUME NEW p \in AppRequests \ {q} PROVE Undisturbed(p)
    <3>1. <<"session", s>> \notin Held(p)
      BY <1>1 DEF AccountInv, LocksApart
    <3> QED BY <1>1, <1>2, <3>1 DEF Undisturbed
  <2> QED BY <1>1, <2>1, RequestEnds DEF AccountInv
<1> QED BY <1>3, <1>5, <1>6, <1>7 DEF AccountInv

LEMMA Revocation ==
  ASSUME AccountInv, NEW S, appSessions' = Revoked(S), UsesKept,
         UNCHANGED <<enrolments, recoveryCodes>>
  PROVE  /\ appSessions' \in Seq(SessionRow) /\ DOMAIN appSessions' = DOMAIN appSessions
         /\ \A s \in DOMAIN appSessions : s \notin S => appSessions'[s] = appSessions[s]
         /\ FamilyInv' /\ OriginInv'
<1>1. /\ appSessions' \in Seq(SessionRow) /\ DOMAIN appSessions' = DOMAIN appSessions
      /\ \A s \in DOMAIN appSessions :
           /\ s \notin S => appSessions'[s] = appSessions[s]
           /\ appSessions'[s].user = appSessions[s].user
           /\ appSessions'[s].origin = appSessions[s].origin
           /\ appSessions'[s].replacedBy = appSessions[s].replacedBy
  BY RevokedSessions DEF AccountInv
<1>2. SessionsKept
  BY <1>1 DEF SessionsKept
<1>3. OriginInv'
  BY <1>1, <1>2, SameCodes, OriginsKept DEF AccountInv
<1> QED BY <1>1, <1>3, FamiliesRevoked DEF AccountInv

LEMMA ReplayCommitStep ==
  ASSUME AccountInv, NEW q \in AppRequests, ReplayCommit(q)
  PROVE  AccountInv'
<1> DEFINE S == appRequests[q].seen
<1>1. /\ appSessions' = Revoked(S) /\ Done(q) /\ ~OthersHold(q, S)
      /\ UNCHANGED <<accounts, authTokens, mfaChallenges>>
  BY DEF ReplayCommit
<1> HIDE DEF S
<1>2. UsesKept /\ UNCHANGED <<enrolments, recoveryCodes>>
  BY <1>1 DEF UsesKept, TokensKept, accounts
<1>3. /\ appSessions' \in Seq(SessionRow) /\ DOMAIN appSessions' = DOMAIN appSessions
      /\ \A s \in DOMAIN appSessions : s \notin S => appSessions'[s] = appSessions[s]
      /\ FamilyInv' /\ OriginInv'
  BY <1>1, <1>2, Revocation
<1>4. TablesOK'
  BY <1>1, <1>3 DEF AccountInv, TablesOK, accounts
<1>5. RequestsOK' /\ LocksApart'
  <2>1. \A p \in AppRequests \ {q} : Undisturbed(p)
    BY <1>1, <1>3 DEF Undisturbed, OthersHold
  <2> QED BY <1>1, <2>1, RequestEnds DEF AccountInv
<1> QED BY <1>3, <1>4, <1>5 DEF AccountInv

\* Logging out of one session, and revoking another of one's own.
LEMMA OneRevokedStep ==
  ASSUME AccountInv, NEW s \in DOMAIN appSessions,
         LogoutAppSession(s) \/ \E u \in AppUsers : RevokeAppSession(u, s)
  PROVE  AccountInv'
<1>1. /\ appSessions' = Revoked({s}) /\ ~Locked("session", s)
      /\ UNCHANGED <<accounts, authTokens, mfaChallenges, appRequests>>
  BY DEF LogoutAppSession, RevokeAppSession
<1>2. UsesKept /\ UNCHANGED <<enrolments, recoveryCodes>>
  BY <1>1 DEF UsesKept, TokensKept, accounts
<1>3. /\ appSessions' \in Seq(SessionRow) /\ DOMAIN appSessions' = DOMAIN appSessions
      /\ \A x \in DOMAIN appSessions : x \notin {s} => appSessions'[x] = appSessions[x]
      /\ FamilyInv' /\ OriginInv'
  BY <1>1, <1>2, Revocation
<1>4. TablesOK'
  BY <1>1, <1>3 DEF AccountInv, TablesOK, accounts
<1>5. RequestsOK' /\ LocksApart'
  <2>1. \A p \in AppRequests : Undisturbed(p)
    BY <1>1, <1>3, NotHeld DEF Undisturbed
  <2> QED BY <1>1, <2>1, RequestsStand DEF AccountInv
<1> QED BY <1>3, <1>4, <1>5 DEF AccountInv

LEMMA SweepCommitStep ==
  ASSUME AccountInv, NEW q \in AppRequests, SweepCommit(q)
  PROVE  AccountInv'
<1> DEFINE r == appRequests[q]
           u == r.user
           S == r.seen
<1>1. RequestOK(r) /\ r.op \in SweepOps
  BY DEF AccountInv, RequestsOK, SweepCommit
<1>2. u \in AppUsers
  BY <1>1 DEF RequestOK
<1>3. /\ appSessions' = Revoked(S) /\ Done(q) /\ ~OthersHold(q, S)
      /\ UNCHANGED <<enrolments, recoveryCodes, mfaChallenges>>
  BY DEF SweepCommit
<1>4. r.op # "logout_all" =>
        /\ r.token \in DOMAIN authTokens /\ <<"token", r.token>> \in Held(q) /\ UseToken(r.token)
  BY <1>1 DEF RequestOK, SweepOps, Held, Pending, SweepCommit
<1>5. r.op = "logout_all" => UNCHANGED authTokens
  BY DEF SweepCommit
<1>6. /\ authTokens' \in Seq(TokenRow) /\ DOMAIN authTokens' = DOMAIN authTokens
      /\ \A t \in DOMAIN authTokens :
           <<"token", t>> \in Held(q) \/ authTokens'[t] = authTokens[t]
      /\ TokensKept
  <2>1. CASE r.op = "logout_all"
    BY <1>5, <2>1 DEF AccountInv, TablesOK, TokensKept
  <2>2. CASE r.op # "logout_all"
    <3> DEFINE t == r.token
    <3>1. t \in DOMAIN authTokens /\ <<"token", t>> \in Held(q) /\ UseToken(t)
      BY <1>4, <2>2
    <3> HIDE DEF t, r
    <3>2. /\ authTokens' \in Seq(TokenRow) /\ DOMAIN authTokens' = DOMAIN authTokens
          /\ \A x \in DOMAIN authTokens \ {t} : authTokens'[x] = authTokens[x]
          /\ authTokens'[t].used
      BY <3>1, UsedToken DEF AccountInv
    <3> QED BY <3>1, <3>2 DEF TokensKept
  <2> QED BY <2>1, <2>2
<1>7. appUsers' \in [AppUsers -> UserRow]
  <2>1. appUsers[u] \in UserRow
    BY <1>2 DEF AccountInv, TablesOK
  <2>2. appUsers' = [appUsers EXCEPT ![u] =
          IF r.op = "email_change"
          THEN [email |-> authTokens[r.token].mailedTo, verified |-> TRUE,
                key |-> appUsers[u].key + 1]
          ELSE [appUsers[u] EXCEPT !.key = appUsers[u].key + 1]]
    BY DEF SweepCommit
  <2>3. CASE r.op = "email_change"
    <3> DEFINE row == [email |-> authTokens[r.token].mailedTo, verified |-> TRUE,
                       key |-> appUsers[u].key + 1]
    <3>1. authTokens[r.token] \in TokenRow
      BY <1>4, <2>3 DEF AccountInv, TablesOK
    <3>2. row \in UserRow
      BY <2>1, <3>1 DEF TokenRow, UserRow
    <3>3. appUsers' = [appUsers EXCEPT ![u] = row]
      BY <2>2, <2>3
    <3> HIDE DEF row, UserRow
    <3> QED BY <3>2, <3>3 DEF AccountInv, TablesOK
  <2>4. CASE r.op # "email_change"
    <3> DEFINE row == [appUsers[u] EXCEPT !.key = appUsers[u].key + 1]
    <3>1. row \in UserRow
      BY <2>1 DEF UserRow
    <3>2. appUsers' = [appUsers EXCEPT ![u] = row]
      BY <2>2, <2>4
    <3> HIDE DEF row, UserRow
    <3> QED BY <3>1, <3>2 DEF AccountInv, TablesOK
  <2> QED BY <2>3, <2>4
<1> HIDE DEF S
<1>8. UsesKept
  BY <1>3, <1>6 DEF UsesKept
<1>9. /\ appSessions' \in Seq(SessionRow) /\ DOMAIN appSessions' = DOMAIN appSessions
      /\ \A s \in DOMAIN appSessions : s \notin S => appSessions'[s] = appSessions[s]
      /\ FamilyInv' /\ OriginInv'
  BY <1>3, <1>8, Revocation
<1>10. TablesOK'
  BY <1>3, <1>6, <1>7, <1>9 DEF AccountInv, TablesOK
<1>11. RequestsOK' /\ LocksApart'
  <2>1. ASSUME NEW p \in AppRequests \ {q} PROVE Undisturbed(p)
    <3>1. \A l \in Held(q) : l \notin Held(p)
      BY DEF AccountInv, LocksApart
    <3> QED BY <1>3, <1>6, <1>9, <3>1 DEF Undisturbed, OthersHold
  <2> QED BY <1>3, <2>1, RequestEnds DEF AccountInv
<1> QED BY <1>9, <1>10, <1>11 DEF AccountInv

------------------------------------------------------------------------------
(* Steps on their own *)

LEMMA AppRequestFailsStep ==
  ASSUME AccountInv, NEW q \in AppRequests, AppRequestFails(q)
  PROVE  AccountInv'
<1>1. Done(q) /\ UNCHANGED <<accounts, appSessions, authTokens, mfaChallenges>>
  BY DEF AppRequestFails
<1>2. RequestsOK' /\ LocksApart'
  <2>1. \A p \in AppRequests \ {q} : Undisturbed(p)
    BY <1>1, SameTables
  <2> QED BY <1>1, <2>1, RequestEnds DEF AccountInv
<1> QED BY <1>1, <1>2, SameAccounts DEF AccountInv

\* An enrolment hands out a code of its own.
LEMMA FactorStep ==
  ASSUME AccountInv, NEW u \in AppUsers,
         StartMFAEnrollment(u) \/ ConfirmMFAEnrollment(u) \/ DisableMFA(u)
  PROVE  AccountInv'
<1>1. UNCHANGED <<appUsers, appSessions, authTokens, mfaChallenges, appRequests>>
  BY DEF StartMFAEnrollment, ConfirmMFAEnrollment, DisableMFA
<1>2. /\ \A x \in AppUsers : enrolments[x] \in Nat
      /\ enrolments \in [AppUsers -> Nat] /\ recoveryCodes \in [AppUsers -> SUBSET Nat]
      /\ \A x \in AppUsers : \A code \in recoveryCodes[x] : code <= enrolments[x]
  BY DEF AccountInv, OriginInv, CodesOK
<1>3. CodesOK' /\ CodesKept
  <2>1. CASE StartMFAEnrollment(u)
    BY <2>1, SameCodes DEF StartMFAEnrollment
  <2>2. CASE ConfirmMFAEnrollment(u)
    <3>1. /\ enrolments' = [enrolments EXCEPT ![u] = enrolments[u] + 1]
          /\ recoveryCodes' = [recoveryCodes EXCEPT ![u] = {enrolments[u] + 1}]
      BY <2>2 DEF ConfirmMFAEnrollment
    <3>2. /\ enrolments' \in [AppUsers -> Nat] /\ recoveryCodes' \in [AppUsers -> SUBSET Nat]
          /\ enrolments'[u] = enrolments[u] + 1 /\ recoveryCodes'[u] = {enrolments[u] + 1}
          /\ \A x \in AppUsers \ {u} :
               enrolments'[x] = enrolments[x] /\ recoveryCodes'[x] = recoveryCodes[x]
      BY <1>2, <3>1
    <3> QED BY <1>2, <3>2 DEF CodesOK, CodesKept
  <2>3. CASE DisableMFA(u)
    <3>1. enrolments' = enrolments /\ recoveryCodes' = [recoveryCodes EXCEPT ![u] = {}]
      BY <2>3 DEF DisableMFA
    <3>2. /\ recoveryCodes' \in [AppUsers -> SUBSET Nat] /\ recoveryCodes'[u] = {}
          /\ \A x \in AppUsers \ {u} : recoveryCodes'[x] = recoveryCodes[x]
      BY <1>2, <3>1
    <3> QED BY <1>2, <3>1, <3>2 DEF CodesOK, CodesKept
  <2> QED BY <2>1, <2>2, <2>3
<1>4. OriginInv'
  BY <1>1, <1>3, SameTables, OriginsKept DEF AccountInv
<1>5. FamilyInv' /\ TablesOK'
  BY <1>1 DEF AccountInv, TablesOK, FamilyInv, OneLivePerFamily, Active
<1>6. RequestsOK' /\ LocksApart'
  BY <1>1, SameTables, RequestsStand DEF AccountInv
<1> QED BY <1>4, <1>5, <1>6 DEF AccountInv

LEMMA RequestAuthTokenStep ==
  ASSUME AccountInv, NEW u \in AppUsers, NEW type \in TokenTypes, NEW e \in Emails,
         requestAuthToken(u, type, e)
  PROVE  AccountInv'
<1> DEFINE row == [user |-> u, type |-> type, used |-> FALSE, mailedTo |-> e]
<1>1. row \in TokenRow
  BY DEF TokenRow
<1>2. /\ authTokens' = Append(authTokens, row)
      /\ UNCHANGED <<accounts, appSessions, mfaChallenges, appRequests>>
  BY DEF requestAuthToken
<1> HIDE DEF row
<1>3. /\ authTokens' \in Seq(TokenRow) /\ DOMAIN authTokens \subseteq DOMAIN authTokens'
      /\ \A t \in DOMAIN authTokens : authTokens'[t] = authTokens[t]
  BY <1>1, <1>2, AppendedRow DEF AccountInv, TablesOK
<1>4. CodesOK' /\ CodesKept /\ UsesKept /\ SessionsKept
  <2>1. CodesOK' /\ CodesKept
    BY <1>2, SameCodes DEF accounts
  <2> QED BY <1>2, <1>3, <2>1 DEF UsesKept, TokensKept, SessionsKept
<1>5. OriginInv'
  BY <1>2, <1>4, OriginsKept DEF AccountInv
<1>6. FamilyInv' /\ TablesOK'
  BY <1>2, <1>3 DEF AccountInv, TablesOK, FamilyInv, OneLivePerFamily, Active, accounts
<1>7. RequestsOK' /\ LocksApart'
  <2>1. \A p \in AppRequests : Undisturbed(p)
    BY <1>2, <1>3 DEF Undisturbed
  <2> QED BY <1>2, <2>1, RequestsStand DEF AccountInv
<1> QED BY <1>5, <1>6, <1>7 DEF AccountInv

LEMMA ConfirmEmailVerificationStep ==
  ASSUME AccountInv, NEW t \in DOMAIN authTokens, ConfirmEmailVerification(t)
  PROVE  AccountInv'
<1> DEFINE u == authTokens[t].user
<1>1. /\ UseToken(t) /\ ~Locked("token", t) /\ appUsers' = [appUsers EXCEPT ![u].verified = TRUE]
      /\ UNCHANGED <<enrolments, recoveryCodes, appSessions, mfaChallenges, appRequests>>
  BY DEF ConfirmEmailVerification, Usable
<1>2. u \in AppUsers
  <2>1. authTokens[t] \in TokenRow
    BY DEF AccountInv, TablesOK
  <2> QED BY <2>1 DEF TokenRow
<1> HIDE DEF u
<1>3. /\ authTokens' \in Seq(TokenRow) /\ DOMAIN authTokens' = DOMAIN authTokens
      /\ \A x \in DOMAIN authTokens \ {t} : authTokens'[x] = authTokens[x]
      /\ authTokens'[t].used
  BY <1>1, UsedToken DEF AccountInv
<1>4. CodesOK' /\ CodesKept /\ UsesKept /\ SessionsKept
  <2>1. CodesOK' /\ CodesKept
    BY <1>1, SameCodes
  <2> QED BY <1>1, <1>3, <2>1 DEF UsesKept, TokensKept, SessionsKept
<1>5. OriginInv'
  BY <1>1, <1>4, OriginsKept DEF AccountInv
<1>6. FamilyInv' /\ TablesOK'
  <2>1. appUsers' \in [AppUsers -> UserRow]
    BY <1>1, <1>2 DEF AccountInv, TablesOK, UserRow
  <2> QED BY <1>1, <1>3, <2>1 DEF AccountInv, TablesOK, FamilyInv, OneLivePerFamily, Active
<1>7. RequestsOK' /\ LocksApart'
  <2>1. \A p \in AppRequests : Undisturbed(p)
    BY <1>1, <1>3, NotHeld DEF Undisturbed
  <2> QED BY <1>1, <2>1, RequestsStand DEF AccountInv
<1> QED BY <1>5, <1>6, <1>7 DEF AccountInv

------------------------------------------------------------------------------
LEMMA AccountsInitially == AppInit => AccountInv
<1> SUFFICES ASSUME AppInit PROVE AccountInv
  OBVIOUS
<1>1. TablesOK
  BY DEF AppInit, AppNothingElse, TablesOK, UserRow
<1>2. RequestsOK /\ LocksApart
  BY DEF AppInit, AppNothingElse, RequestsOK, RequestOK, LocksApart, Held, Pending, NoRequestYet,
         SweepOps, LoginOps
<1>3. DOMAIN appSessions = {}
  BY DEF AppInit
<1>4. FamilyInv
  BY <1>3 DEF FamilyInv, OneLivePerFamily
<1>5. OriginInv
  BY <1>3 DEF AppInit, AppNothingElse, OriginInv, CodesOK, OpensOnce
<1> QED BY <1>1, <1>2, <1>4, <1>5 DEF AccountInv

LEMMA AccountsPreserved == AccountInv /\ [AppNext]_appVars => AccountInv'
<1> SUFFICES ASSUME AccountInv, [AppNext]_appVars PROVE AccountInv'
  OBVIOUS
<1>1. ASSUME NEW q \in AppRequests, NEW u \in AppUsers, NEW e \in Emails, SignupBegin(q, u, e)
      PROVE  AccountInv'
  BY <1>1, SignupBeginStep
<1>2. ASSUME NEW q \in AppRequests, NEW u \in AppUsers, LoginRead(q, u) \/ LogoutAllBegin(q, u)
      PROVE  AccountInv'
  BY <1>2, LoginReadStep, LogoutAllBeginStep
<1>3. ASSUME NEW q \in AppRequests, NEW s \in DOMAIN appSessions, RefreshLock(q, s)
      PROVE  AccountInv'
  BY <1>3, RefreshLockStep
<1>4. ASSUME NEW q \in AppRequests, NEW t \in DOMAIN authTokens, OTPLock(q, t) \/ ConfirmBegin(q, t)
      PROVE  AccountInv'
  BY <1>4, OTPLockStep, ConfirmBeginStep
<1>5. ASSUME NEW q \in AppRequests, NEW c \in DOMAIN mfaChallenges, ChallengeLock(q, c)
      PROVE  AccountInv'
  BY <1>5, ChallengeLockStep
<1>6. ASSUME NEW q \in AppRequests,
             \/ SignupCommit(q) \/ LoginCommit(q) \/ RefreshCommit(q) \/ ReplayCommit(q)
             \/ OTPCommit(q) \/ SweepCommit(q) \/ VerifyMFALogin(q) \/ AppRequestFails(q)
             \/ \E on \in BOOLEAN : FactorRead(q, on)
      PROVE  AccountInv'
  BY <1>6, SignupCommitStep, LoginCommitStep, RefreshCommitStep, ReplayCommitStep, OTPCommitStep,
     SweepCommitStep, VerifyMFALoginStep, AppRequestFailsStep, FactorReadStep
<1>7. ASSUME NEW s \in DOMAIN appSessions,
             LogoutAppSession(s) \/ \E u \in AppUsers : RevokeAppSession(u, s)
      PROVE  AccountInv'
  BY <1>7, OneRevokedStep
<1>8. ASSUME NEW u \in AppUsers,
             \/ StartMFAEnrollment(u) \/ ConfirmMFAEnrollment(u) \/ DisableMFA(u)
             \/ \E type \in TokenTypes, e \in Emails : requestAuthToken(u, type, e)
      PROVE  AccountInv'
  BY <1>8, FactorStep, RequestAuthTokenStep
<1>9. ASSUME NEW t \in DOMAIN authTokens, ConfirmEmailVerification(t) PROVE AccountInv'
  BY <1>9, ConfirmEmailVerificationStep
<1>10. CASE UNCHANGED appVars
  <2>1. UNCHANGED <<accounts, appSessions, authTokens, mfaChallenges, appRequests>>
    BY <1>10 DEF appVars
  <2> QED BY <2>1, SameAccounts, SameTables, RequestsStand DEF AccountInv
<1> QED BY <1>1, <1>2, <1>3, <1>4, <1>5, <1>6, <1>7, <1>8, <1>9, <1>10 DEF AppNext

------------------------------------------------------------------------------
(* Organizations *)

InvitationRow == [org : Orgs, email : Emails, role : InviteRoles, accepted : BOOLEAN]
Roles == InviteRoles \cup {"owner", NoRole}

AcceptedBy(o, u) ==
  {k \in DOMAIN acceptances : acceptances[k][2] = u /\ invitations[acceptances[k][1]].org = o}

\* Rows are members' and invitations' of organizations there are; an invitation that was
\* accepted is marked so, and is accepted once; the last acceptance gave the role.
OrgTables ==
  /\ orgRole \in [Orgs -> [AppUsers -> Roles]]
  /\ invitations \in Seq(InvitationRow)
  /\ acceptances \in Seq(Nat \X AppUsers)
  /\ \A a \in accepting : a[1] \in DOMAIN invitations /\ a[2] \in AppUsers
OrgInv ==
  /\ OrgTables
  /\ \A o \in Orgs, u \in AppUsers : orgRole[o][u] # NoRole => o \in orgs
  /\ \A i \in DOMAIN invitations : invitations[i].org \in orgs
  /\ \A k \in DOMAIN acceptances :
       /\ acceptances[k][1] \in DOMAIN invitations
       /\ invitations[acceptances[k][1]].accepted
  /\ \A k, l \in DOMAIN acceptances : acceptances[k][1] = acceptances[l][1] => k = l
  /\ \A o \in Orgs, u \in AppUsers :
       AcceptedBy(o, u) # {} =>
         \E k \in AcceptedBy(o, u) :
           /\ \A l \in AcceptedBy(o, u) : l <= k
           /\ orgRole[o][u] = invitations[acceptances[k][1]].role

LEMMA OrgsInitially == OrgInit => OrgInv
<1> SUFFICES ASSUME OrgInit PROVE OrgInv
  OBVIOUS
<1>1. OrgTables
  BY DEF OrgInit, OrgTables, Roles
<1>2. DOMAIN acceptances = {} /\ DOMAIN invitations = {}
  BY DEF OrgInit
<1> QED BY <1>1, <1>2 DEF OrgInit, OrgInv, AcceptedBy

LEMMA OrgImplies == OrgInv => RoleIsLastAccepted
BY DEF OrgInv, AcceptedBy, RoleIsLastAccepted

\* Only members and invitations of other organizations, or none, change with a new one.
LEMMA CreateOrganizationStep ==
  ASSUME OrgInv, NEW o \in Orgs, NEW u \in AppUsers, CreateOrganization(o, u)
  PROVE  OrgInv'
<1>1. /\ o \notin orgs /\ orgs' = orgs \cup {o} /\ orgRole' = [orgRole EXCEPT ![o][u] = "owner"]
      /\ UNCHANGED <<invitations, accepting, acceptances>>
  BY DEF CreateOrganization
<1>2. /\ orgRole' \in [Orgs -> [AppUsers -> Roles]]
      /\ \A p \in Orgs \ {o} : orgRole'[p] = orgRole[p]
  BY <1>1 DEF OrgInv, OrgTables, Roles
<1>3. \A x \in AppUsers : AcceptedBy(o, x) = {}
  BY <1>1 DEF OrgInv, AcceptedBy
<1>4. \A p \in Orgs, x \in AppUsers : AcceptedBy(p, x)' = AcceptedBy(p, x)
  BY <1>1 DEF AcceptedBy
<1>5. OrgTables'
  BY <1>1, <1>2 DEF OrgInv, OrgTables
<1>6. \A p \in Orgs, x \in AppUsers : orgRole'[p][x] # NoRole => p \in orgs'
  BY <1>1, <1>2 DEF OrgInv
<1>7. \A p \in Orgs, x \in AppUsers :
        AcceptedBy(p, x)' # {} =>
          \E k \in AcceptedBy(p, x)' :
            /\ \A l \in AcceptedBy(p, x)' : l <= k
            /\ orgRole'[p][x] = invitations'[acceptances'[k][1]].role
  BY <1>1, <1>2, <1>3, <1>4 DEF OrgInv
<1> QED BY <1>1, <1>5, <1>6, <1>7 DEF OrgInv

LEMMA CreateInvitationStep ==
  ASSUME OrgInv, NEW o \in Orgs, NEW u \in AppUsers, NEW e \in Emails, NEW role \in InviteRoles,
         CreateOrganizationInvitation(o, u, e, role)
  PROVE  OrgInv'
<1> DEFINE row == [org |-> o, email |-> e, role |-> role, accepted |-> FALSE]
<1>1. row \in InvitationRow /\ row.org = o
  BY DEF InvitationRow
<1>2. /\ invitations' = Append(invitations, row) /\ Manages(o, u)
      /\ UNCHANGED <<orgs, orgRole, accepting, acceptances>>
  BY DEF CreateOrganizationInvitation
<1> HIDE DEF row
<1> PICK n : n = Len(invitations) + 1
  OBVIOUS
<1>3. /\ invitations' \in Seq(InvitationRow) /\ DOMAIN invitations' = DOMAIN invitations \cup {n}
      /\ \A i \in DOMAIN invitations : invitations'[i] = invitations[i]
      /\ invitations'[n] = row
  BY <1>1, <1>2, AppendedRow DEF OrgInv, OrgTables
<1>4. o \in orgs
  BY <1>2, OrganizationsAssumption DEF OrgInv, Manages
<1>5. \A p \in Orgs, x \in AppUsers : AcceptedBy(p, x)' = AcceptedBy(p, x)
  BY <1>2, <1>3 DEF OrgInv, AcceptedBy
<1>6. OrgTables'
  BY <1>2, <1>3 DEF OrgInv, OrgTables
<1>7. \A i \in DOMAIN invitations' : invitations'[i].org \in orgs'
  BY <1>1, <1>2, <1>3, <1>4 DEF OrgInv
<1>8. \A k \in DOMAIN acceptances' :
        /\ acceptances'[k][1] \in DOMAIN invitations'
        /\ invitations'[acceptances'[k][1]].accepted
        /\ invitations'[acceptances'[k][1]] = invitations[acceptances[k][1]]
  BY <1>2, <1>3 DEF OrgInv
<1>9. \A p \in Orgs, x \in AppUsers :
        AcceptedBy(p, x)' # {} =>
          \E k \in AcceptedBy(p, x)' :
            /\ \A l \in AcceptedBy(p, x)' : l <= k
            /\ orgRole'[p][x] = invitations'[acceptances'[k][1]].role
  <2>1. \A p \in Orgs, x \in AppUsers : \A k \in AcceptedBy(p, x) : k \in DOMAIN acceptances
    BY DEF AcceptedBy
  <2> QED BY <1>2, <1>5, <1>8, <2>1 DEF OrgInv
<1> QED BY <1>2, <1>6, <1>7, <1>8, <1>9 DEF OrgInv

LEMMA AcceptStep ==
  ASSUME OrgInv, NEW a \in accepting, AcceptOrganizationInvitation(a)
  PROVE  OrgInv'
<1> DEFINE i == a[1]
           u == a[2]
           o == invitations[i].org
           row == [invitations[i] EXCEPT !.accepted = TRUE]
<1>1. /\ orgRole' = [orgRole EXCEPT ![o][u] = invitations[i].role]
      /\ invitations' = [invitations EXCEPT ![i] = row]
      /\ acceptances' = Append(acceptances, <<i, u>>)
      /\ accepting' \subseteq accepting /\ orgs' = orgs /\ ~invitations[i].accepted
  BY DEF AcceptOrganizationInvitation, Join
<1>2. i \in DOMAIN invitations /\ u \in AppUsers /\ invitations[i] \in InvitationRow /\ i \in Nat
  BY DEF OrgInv, OrgTables
<1>3. o \in Orgs /\ invitations[i].role \in InviteRoles /\ o \in orgs
  BY <1>2 DEF InvitationRow, OrgInv
<1>4. /\ row \in InvitationRow /\ row.org = o /\ row.accepted /\ row.role = invitations[i].role
  BY <1>2 DEF InvitationRow
<1> PICK n : n = Len(acceptances) + 1
  OBVIOUS
<1>5. /\ acceptances' \in Seq(Nat \X AppUsers)
      /\ DOMAIN acceptances' = DOMAIN acceptances \cup {n} /\ n \notin DOMAIN acceptances
      /\ \A k \in DOMAIN acceptances : acceptances'[k] = acceptances[k]
      /\ acceptances'[n] = <<i, u>>
  BY <1>1, <1>2, AppendedRow DEF OrgInv, OrgTables
<1>6. n \in Nat /\ \A k \in DOMAIN acceptances : k \in Nat /\ k <= n
  BY DEF OrgInv, OrgTables
<1>7. /\ orgRole' \in [Orgs -> [AppUsers -> Roles]] /\ orgRole'[o][u] = invitations[i].role
      /\ \A p \in Orgs, x \in AppUsers : p # o \/ x # u => orgRole'[p][x] = orgRole[p][x]
  BY <1>1, <1>2, <1>3 DEF OrgInv, OrgTables, Roles
<1> HIDE DEF row
<1>8. /\ invitations' \in Seq(InvitationRow) /\ DOMAIN invitations' = DOMAIN invitations
      /\ \A j \in DOMAIN invitations \ {i} : invitations'[j] = invitations[j]
      /\ invitations'[i] = row
  BY <1>1, <1>2, <1>4, ReplacedRow DEF OrgInv, OrgTables
<1>9. \A j \in DOMAIN invitations :
        /\ invitations'[j].org = invitations[j].org /\ invitations'[j].role = invitations[j].role
        /\ invitations[j].accepted => invitations'[j].accepted
  BY <1>4, <1>8
<1>10. invitations'[i].accepted
  BY <1>4, <1>8
<1> HIDE DEF i, u, o
<1>11. OrgTables'
  BY <1>1, <1>5, <1>7, <1>8 DEF OrgInv, OrgTables
<1>12. \A k \in DOMAIN acceptances' :
         /\ acceptances'[k][1] \in DOMAIN invitations'
         /\ invitations'[acceptances'[k][1]].accepted
  BY <1>2, <1>5, <1>8, <1>9, <1>10 DEF OrgInv
<1>13. \A k \in DOMAIN acceptances : acceptances[k][1] # i
  BY <1>1 DEF OrgInv
<1>14. \A k, l \in DOMAIN acceptances' : acceptances'[k][1] = acceptances'[l][1] => k = l
  BY <1>5, <1>13 DEF OrgInv
<1>15. ASSUME NEW p \in Orgs, NEW x \in AppUsers
       PROVE  AcceptedBy(p, x)' # {} =>
                \E k \in AcceptedBy(p, x)' :
                  /\ \A l \in AcceptedBy(p, x)' : l <= k
                  /\ orgRole'[p][x] = invitations'[acceptances'[k][1]].role
  <2>1. CASE p = o /\ x = u
    <3>1. n \in AcceptedBy(p, x)'
      BY <1>2, <1>4, <1>5, <1>8, <2>1 DEF AcceptedBy, o
    <3>2. \A l \in AcceptedBy(p, x)' : l <= n
      BY <1>5, <1>6 DEF AcceptedBy
    <3>3. orgRole'[p][x] = invitations'[acceptances'[n][1]].role
      BY <1>2, <1>4, <1>5, <1>7, <1>8, <2>1
    <3> QED BY <3>1, <3>2, <3>3
  <2>2. CASE p # o \/ x # u
    <3>1. AcceptedBy(p, x)' = AcceptedBy(p, x)
      <4>1. n \notin AcceptedBy(p, x)'
        BY <1>2, <1>4, <1>5, <1>8, <2>2 DEF AcceptedBy, o
      <4> QED BY <1>5, <1>9, <4>1 DEF AcceptedBy, OrgInv
    <3>2. \A k \in AcceptedBy(p, x) :
            invitations'[acceptances'[k][1]].role = invitations[acceptances[k][1]].role
      BY <1>5, <1>9 DEF AcceptedBy, OrgInv
    <3> QED BY <1>7, <2>2, <3>1, <3>2 DEF OrgInv
  <2> QED BY <2>1, <2>2
<1>16. /\ \A p \in Orgs, x \in AppUsers : orgRole'[p][x] # NoRole => p \in orgs'
       /\ \A j \in DOMAIN invitations' : invitations'[j].org \in orgs'
  BY <1>1, <1>3, <1>7, <1>8, <1>9 DEF OrgInv
<1> QED BY <1>11, <1>12, <1>14, <1>15, <1>16 DEF OrgInv

LEMMA OrgsPreserved == OrgInv /\ (OrgNext \/ UNCHANGED orgVars) => OrgInv'
<1> SUFFICES ASSUME OrgInv, OrgNext \/ UNCHANGED orgVars PROVE OrgInv'
  OBVIOUS
<1>1. ASSUME NEW i \in DOMAIN invitations, NEW u \in AppUsers, AcceptRead(i, u) PROVE OrgInv'
  <2>1. /\ UNCHANGED <<orgs, orgRole, invitations, acceptances>>
        /\ \A a \in accepting' : a[1] \in DOMAIN invitations /\ a[2] \in AppUsers
    BY <1>1 DEF AcceptRead, OrgInv, OrgTables
  <2>2. OrgTables'
    BY <2>1 DEF OrgInv, OrgTables
  <2>3. \A o \in Orgs, x \in AppUsers : AcceptedBy(o, x)' = AcceptedBy(o, x)
    BY <2>1 DEF AcceptedBy
  <2> QED BY <2>1, <2>2, <2>3 DEF OrgInv
<1>2. ASSUME NEW a \in accepting, AcceptFails(a) PROVE OrgInv'
  BY <1>2 DEF AcceptFails, OrgInv, OrgTables, AcceptedBy
<1>3. CASE UNCHANGED orgVars
  BY <1>3 DEF orgVars, OrgInv, OrgTables, AcceptedBy
<1> QED BY <1>1, <1>2, <1>3, CreateOrganizationStep, CreateInvitationStep, AcceptStep DEF OrgNext

------------------------------------------------------------------------------
(* New sessions *)

\* What a login or a signup does to the sessions.
OpensSession(u, kind, id) ==
  LET n == Len(appSessions) + 1
  IN /\ n \in SessionIds /\ n \notin DOMAIN appSessions
     /\ DOMAIN appSessions' = DOMAIN appSessions \cup {n}
     /\ \A s \in DOMAIN appSessions : appSessions'[s] = appSessions[s]
     /\ appSessions'[n] = [user |-> u, family |-> n, revoked |-> FALSE, replacedBy |-> 0,
                           origin |-> <<kind, id>>]

LEMMA CreatedSession ==
  ASSUME TablesOK, NEW u \in AppUsers, NEW key, NEW kind \in OriginKinds, NEW id \in Nat,
         createAppSession(u, 0, key, <<kind, id>>)
  PROVE  OpensSession(u, kind, id)
<1>1. Len(appSessions) + 1 <= MaxAppSessions /\ Len(appSessions) + 1 \in Nat \ {0}
  BY DEF createAppSession, TablesOK
<1>2. Len(appSessions) + 1 \in SessionIds
  BY <1>1, AppSessionsAssumption DEF SessionIds
<1> QED BY <1>2, OpenedSession DEF OpensSession

\* A login of the user that ends in this step had no reason to ask for a factor.
Excused(u) == \E q \in AppRequests : Unasked(q) /\ appRequests[q].user = u

\* The end of a login opens a session, or a challenge.
LEMMA LoginEnds ==
  ASSUME AccountInv, FactorInv, NEW q \in AppRequests, appRequests[q].op \in LoginOps,
         appRequests[q].factor # "unread", NEW kind \in OriginKinds, NEW id \in Nat,
         SessionOrChallenge(appRequests[q], <<kind, id>>), Done(q)
  PROVE  \/ UNCHANGED <<appSessions, issuedKeys>>
         \/ /\ OpensSession(appRequests[q].user, kind, id)
            /\ createAppSession(appRequests[q].user, 0, appRequests[q].key, <<kind, id>>)
            /\ MfaRequired(appRequests[q].user) => Excused(appRequests[q].user)
<1> DEFINE r == appRequests[q]
<1>1. /\ RequestOK(r) /\ AskedOK(r) /\ appRequests'[q] = NoRequestYet
  BY DEF AccountInv, RequestsOK, FactorInv, Done
<1>2. r.user \in AppUsers /\ r.factor \in {"off", "none", "enabled"}
  BY <1>1 DEF RequestOK
<1>3. CASE r.factor = "enabled"
  BY <1>3 DEF SessionOrChallenge
<1>4. CASE r.factor # "enabled"
  <2>1. createAppSession(r.user, 0, r.key, <<kind, id>>)
    BY <1>4 DEF SessionOrChallenge
  <2>2. OpensSession(r.user, kind, id)
    BY <1>2, <2>1, CreatedSession DEF AccountInv
  <2>3. ASSUME MfaRequired(r.user) PROVE Excused(r.user)
    <3>1. enrolments[r.user] \in Nat
      BY <1>2 DEF AccountInv, OriginInv, CodesOK
    <3>2. r.factor = "off" \/ (r.factor = "none" /\ r.enrolled < enrolments[r.user])
      BY <1>1, <1>2, <1>4, <2>3, <3>1 DEF AskedOK
    <3>3. Unasked(q)
      BY <1>1, <3>2 DEF Unasked
    <3> QED BY <3>3 DEF Excused
  <2> QED BY <2>1, <2>2, <2>3
<1> QED BY <1>3, <1>4

\* What an account's step does to the sessions: it opens one, rotates one, revokes some, or does not
\* touch them.
LEMMA SessionSteps ==
  ASSUME AccountInv, FactorInv, AppNext
  PROVE  \/ \E u \in AppUsers, kind \in OriginKinds \ {"oauth", "refresh"}, id \in Nat :
              /\ OpensSession(u, kind, id)
              /\ MfaRequired(u) => kind \in {"challenge", "code"} \/ Excused(u)
         \/ \E q \in AppRequests : RefreshCommit(q)
         \/ \E S : appSessions' = Revoked(S)
         \/ UNCHANGED appSessions
<1> DEFINE ItOpens == \E u \in AppUsers, kind \in OriginKinds \ {"oauth", "refresh"}, id \in Nat :
                       /\ OpensSession(u, kind, id)
                       /\ MfaRequired(u) => kind \in {"challenge", "code"} \/ Excused(u)
<1>1. ASSUME NEW u \in AppUsers, NEW key, NEW kind \in OriginKinds \ {"oauth", "refresh"}, NEW id \in Nat,
             createAppSession(u, 0, key, <<kind, id>>),
             MfaRequired(u) => kind \in {"challenge", "code"}
      PROVE  ItOpens
  BY <1>1, CreatedSession DEF AccountInv
<1> HIDE DEF ItOpens
<1>2. ASSUME NEW q \in AppRequests, SignupCommit(q) PROVE ItOpens
  <2> DEFINE u == appRequests[q].user
             id == Len(appSessions) + 1
  <2>1. createAppSession(u, 0, 0, <<"signup", id>>) /\ ~Known(u)
    BY <1>2 DEF SignupCommit
  <2>2. u \in AppUsers /\ id \in Nat
    <3>1. RequestOK(appRequests[q]) /\ appRequests[q].op = "signup"
      BY <1>2 DEF AccountInv, RequestsOK, SignupCommit
    <3>2. u \in AppUsers
      BY <3>1 DEF RequestOK
    <3> QED BY <3>2 DEF AccountInv, TablesOK
  <2> HIDE DEF u, id
  <2>3. ~MfaRequired(u)
    BY <2>1, <2>2 DEF FactorInv, MfaRequired
  <2>4. "signup" \in OriginKinds \ {"oauth", "refresh"}
    BY DEF OriginKinds
  <2> QED BY <1>1, <2>1, <2>2, <2>3, <2>4
<1>3. ASSUME NEW q \in AppRequests, LoginCommit(q) \/ OTPCommit(q)
      PROVE  ItOpens \/ UNCHANGED appSessions
  <2> DEFINE u == appRequests[q].user
  <2>1. /\ appRequests[q].op \in LoginOps /\ appRequests[q].factor # "unread" /\ Done(q)
        /\ RequestOK(appRequests[q])
    BY <1>3 DEF AccountInv, RequestsOK, LoginCommit, OTPCommit, LoginOps
  <2>2. PICK kind \in {"password", "token"}, id \in Nat :
          SessionOrChallenge(appRequests[q], <<kind, id>>)
    <3>1. CASE LoginCommit(q)
      <4>1. SessionOrChallenge(appRequests[q], <<"password", Len(appSessions) + 1>>)
        BY <3>1 DEF LoginCommit
      <4>2. Len(appSessions) + 1 \in Nat
        BY DEF AccountInv, TablesOK
      <4> QED BY <4>1, <4>2
    <3>2. CASE OTPCommit(q)
      <4>1. SessionOrChallenge(appRequests[q], <<"token", appRequests[q].token>>)
        BY <3>2 DEF OTPCommit
      <4>2. appRequests[q].token \in Nat
        <5>1. appRequests[q].token \in DOMAIN authTokens
          BY <2>1, <3>2 DEF RequestOK, OTPCommit
        <5> QED BY <5>1 DEF AccountInv, TablesOK
      <4> QED BY <4>1, <4>2
    <3> QED BY <1>3, <3>1, <3>2
  <2>3. kind \in OriginKinds \ {"oauth", "refresh"} /\ u \in AppUsers
    BY <2>1 DEF OriginKinds, RequestOK
  <2>4. \/ UNCHANGED appSessions
        \/ OpensSession(u, kind, id) /\ (MfaRequired(u) => Excused(u))
    BY <2>1, <2>2, <2>3, LoginEnds
  <2> HIDE DEF u
  <2> QED BY <2>3, <2>4 DEF ItOpens
<1>4. ASSUME NEW q \in AppRequests, VerifyMFALogin(q) PROVE ItOpens
  <2> DEFINE u == appRequests[q].user
  <2>1. RequestOK(appRequests[q]) /\ appRequests[q].op = "challenge"
    BY <1>4 DEF AccountInv, RequestsOK, VerifyMFALogin
  <2>2. u \in AppUsers /\ appRequests[q].challenge \in Nat
    BY <2>1 DEF RequestOK, AccountInv, TablesOK
  <2>3. \A code \in recoveryCodes[u] : code \in Nat
    BY <2>2 DEF AccountInv, OriginInv, CodesOK
  <2>4. PICK kind \in {"challenge", "code"}, id \in Nat :
          createAppSession(u, 0, appRequests[q].key, <<kind, id>>)
    <3>1. \/ createAppSession(u, 0, appRequests[q].key, <<"challenge", appRequests[q].challenge>>)
          \/ \E code \in recoveryCodes[u] :
               createAppSession(u, 0, appRequests[q].key, <<"code", code>>)
      BY <1>4 DEF VerifyMFALogin
    <3> HIDE DEF u
    <3> QED BY <2>2, <2>3, <3>1
  <2>5. kind \in OriginKinds \ {"oauth", "refresh"}
    BY DEF OriginKinds
  <2> HIDE DEF u
  <2> QED BY <1>1, <2>2, <2>4, <2>5
<1>5. ASSUME NEW q \in AppRequests, ReplayCommit(q) \/ SweepCommit(q) PROVE \E S : appSessions' = Revoked(S)
  BY <1>5 DEF ReplayCommit, SweepCommit
<1>6. ASSUME NEW s \in DOMAIN appSessions,
             LogoutAppSession(s) \/ \E u \in AppUsers : RevokeAppSession(u, s)
      PROVE  \E S : appSessions' = Revoked(S)
  BY <1>6 DEF LogoutAppSession, RevokeAppSession
<1>7. CASE UNCHANGED appSessions
  BY <1>7
<1>8. CASE \E q \in AppRequests :
             \/ SignupCommit(q) \/ LoginCommit(q) \/ RefreshCommit(q) \/ ReplayCommit(q)
             \/ OTPCommit(q) \/ SweepCommit(q) \/ VerifyMFALogin(q)
  BY <1>2, <1>3, <1>4, <1>5, <1>8 DEF ItOpens
<1>9. CASE \E s \in DOMAIN appSessions :
             LogoutAppSession(s) \/ \E u \in AppUsers : RevokeAppSession(u, s)
  BY <1>6, <1>9
<1> QED BY <1>7, <1>8, <1>9
        DEF AppNext, SignupBegin, LoginRead, FactorRead, LogoutAllBegin, RefreshLock, OTPLock,
            ConfirmBegin, ChallengeLock, AppRequestFails, StartMFAEnrollment, ConfirmMFAEnrollment, DisableMFA,
            requestAuthToken, ConfirmEmailVerification

\* Sessions keep where they came from and whose they are.  Of what the accounts do on their own,
\* a login opens one without a challenge only when no factor is enabled, or it is excused.
LEMMA NewSessions ==
  ASSUME AccountInv, FactorInv, AppNext
  PROVE  /\ DOMAIN appSessions \subseteq DOMAIN appSessions'
         /\ \A s \in DOMAIN appSessions : appSessions'[s].origin = appSessions[s].origin
         /\ \A s \in DOMAIN appSessions' \ DOMAIN appSessions :
              /\ appSessions'[s].origin[1] # "oauth"
              /\ MfaRequired(appSessions'[s].user) =>
                   \/ appSessions'[s].origin[1] \in {"challenge", "code", "refresh"}
                   \/ Excused(appSessions'[s].user)
<1> DEFINE Kept == /\ DOMAIN appSessions \subseteq DOMAIN appSessions'
                   /\ \A s \in DOMAIN appSessions : appSessions'[s].origin = appSessions[s].origin
           New == \A s \in DOMAIN appSessions' \ DOMAIN appSessions :
                    /\ appSessions'[s].origin[1] # "oauth"
                    /\ MfaRequired(appSessions'[s].user) =>
                         \/ appSessions'[s].origin[1] \in {"challenge", "code", "refresh"}
                         \/ Excused(appSessions'[s].user)
<1> PICK n : n = Len(appSessions) + 1
  OBVIOUS
<1>1. ASSUME NEW u \in AppUsers, NEW kind \in OriginKinds \ {"oauth", "refresh"}, NEW id \in Nat,
             OpensSession(u, kind, id),
             MfaRequired(u) => kind \in {"challenge", "code"} \/ Excused(u)
      PROVE  Kept /\ New
  <2>1. /\ DOMAIN appSessions' = DOMAIN appSessions \cup {n}
        /\ \A s \in DOMAIN appSessions : appSessions'[s] = appSessions[s]
        /\ appSessions'[n].user = u /\ appSessions'[n].origin[1] = kind
    BY <1>1 DEF OpensSession
  <2> QED BY <1>1, <2>1
<1>2. ASSUME NEW q \in AppRequests, RefreshCommit(q) PROVE Kept /\ New
  <2> PICK s : s = appRequests[q].session
    OBVIOUS
  <2>1. /\ DOMAIN appSessions' = DOMAIN appSessions \cup {n} /\ s \in DOMAIN appSessions
        /\ \A x \in DOMAIN appSessions \ {s} : appSessions'[x] = appSessions[x]
        /\ appSessions'[s].origin = appSessions[s].origin
        /\ appSessions'[n] = [user |-> appSessions[s].user, family |-> appSessions[s].family,
                              revoked |-> FALSE, replacedBy |-> 0, origin |-> <<"refresh", s>>]
    BY <1>2, RotatedSession DEF AccountInv, RequestsOK
  <2>2. appSessions'[n].origin[1] = "refresh"
    BY <2>1
  <2> QED BY <2>1, <2>2
<1>3. ASSUME NEW S, appSessions' = Revoked(S) PROVE Kept /\ New
  BY <1>3, RevokedSessions DEF AccountInv
<1>4. ASSUME UNCHANGED appSessions PROVE Kept /\ New
  BY <1>4
<1> HIDE DEF Kept, New
<1>5. Kept /\ New
  <2>1. CASE \E u \in AppUsers, kind \in OriginKinds \ {"oauth", "refresh"}, id \in Nat :
               /\ OpensSession(u, kind, id)
               /\ MfaRequired(u) => kind \in {"challenge", "code"} \/ Excused(u)
    BY <1>1, <2>1
  <2>2. CASE \E q \in AppRequests : RefreshCommit(q)
    BY <1>2, <2>2
  <2>3. CASE \E S : appSessions' = Revoked(S)
    BY <1>3, <2>3
  <2> QED BY <1>4, <2>1, <2>2, <2>3, SessionSteps
<1> QED BY <1>5 DEF Kept, New

------------------------------------------------------------------------------
(* What the accounts' own steps do to a user's row *)

\* Only a sweep changes a key, and an account that is there stays.
LEMMA UserRows ==
  ASSUME AccountInv, AppNext
  PROVE  /\ \A u \in AppUsers : Known(u) => Known(u)'
         /\ \A u \in AppUsers :
              \/ appUsers'[u].key = appUsers[u].key
              \/ \E q \in AppRequests : SweepCommit(q) /\ appRequests[q].user = u
<1> DEFINE Goal == /\ \A u \in AppUsers : Known(u) => Known(u)'
                   /\ \A u \in AppUsers :
                        \/ appUsers'[u].key = appUsers[u].key
                        \/ \E q \in AppRequests : SweepCommit(q) /\ appRequests[q].user = u
<1>1. \A u \in AppUsers : appUsers[u] \in UserRow
  BY DEF AccountInv, TablesOK
<1>2. ASSUME NEW u \in AppUsers, NEW row, appUsers' = [appUsers EXCEPT ![u] = row],
             row.email = appUsers[u].email \/ row.email \in Emails,
             \/ row.key = appUsers[u].key
             \/ \E q \in AppRequests : SweepCommit(q) /\ appRequests[q].user = u
      PROVE  Goal
  <2>1. appUsers'[u] = row /\ \A x \in AppUsers \ {u} : appUsers'[x] = appUsers[x]
    BY <1>2 DEF AccountInv, TablesOK
  <2> QED BY <1>2, <2>1, AppSessionsAssumption DEF Known
<1>3. ASSUME UNCHANGED appUsers PROVE Goal
  BY <1>3 DEF Known
<1>4. ASSUME NEW q \in AppRequests, SignupCommit(q) PROVE Goal
  <2> DEFINE u == appRequests[q].user
             e == appRequests[q].email
             row == [appUsers[u] EXCEPT !.email = e]
  <2>1. RequestOK(appRequests[q]) /\ appRequests[q].op = "signup"
    BY <1>4 DEF AccountInv, RequestsOK, SignupCommit
  <2>2. u \in AppUsers /\ e \in Emails
    BY <2>1 DEF RequestOK
  <2>3. appUsers' = [appUsers EXCEPT ![u] = row]
    BY <1>4 DEF SignupCommit
  <2>4. row.email = e /\ row.key = appUsers[u].key
    BY <1>1, <2>2 DEF UserRow
  <2> HIDE DEF u, e, row, Goal
  <2> QED BY <1>2, <2>2, <2>3, <2>4
<1>5. ASSUME NEW t \in DOMAIN authTokens, ConfirmEmailVerification(t) PROVE Goal
  <2> DEFINE u == authTokens[t].user
             row == [appUsers[u] EXCEPT !.verified = TRUE]
  <2>1. u \in AppUsers
    <3>1. authTokens[t] \in TokenRow
      BY DEF AccountInv, TablesOK
    <3> QED BY <3>1 DEF TokenRow
  <2>2. appUsers' = [appUsers EXCEPT ![u] = row]
    BY <1>5 DEF ConfirmEmailVerification
  <2>3. row.email = appUsers[u].email /\ row.key = appUsers[u].key
    BY <1>1, <2>1 DEF UserRow
  <2> HIDE DEF u, row, Goal
  <2> QED BY <1>2, <2>1, <2>2, <2>3
<1>6. ASSUME NEW q \in AppRequests, SweepCommit(q) PROVE Goal
  <2> DEFINE r == appRequests[q]
             u == r.user
             row == IF r.op = "email_change"
                    THEN [email |-> authTokens[r.token].mailedTo, verified |-> TRUE,
                          key |-> appUsers[u].key + 1]
                    ELSE [appUsers[u] EXCEPT !.key = appUsers[u].key + 1]
  <2>1. RequestOK(r) /\ r.op \in SweepOps
    BY <1>6 DEF AccountInv, RequestsOK, SweepCommit
  <2>2. u \in AppUsers
    BY <2>1 DEF RequestOK
  <2>3. appUsers' = [appUsers EXCEPT ![u] = row]
    BY <1>6 DEF SweepCommit
  <2>4. row.email = appUsers[u].email \/ row.email \in Emails
    <3>1. CASE r.op = "email_change"
      <4>1. r.token \in DOMAIN authTokens
        BY <2>1, <3>1 DEF RequestOK
      <4>2. authTokens[r.token] \in TokenRow
        BY <4>1 DEF AccountInv, TablesOK
      <4> QED BY <3>1, <4>2 DEF TokenRow
    <3>2. CASE r.op # "email_change"
      BY <1>1, <2>2, <3>2 DEF UserRow
    <3> QED BY <3>1, <3>2
  <2>5. \E p \in AppRequests : SweepCommit(p) /\ appRequests[p].user = u
    BY <1>6
  <2> HIDE DEF u, row, Goal
  <2> QED BY <1>2, <2>2, <2>3, <2>4, <2>5
<1> HIDE DEF Goal
<1>7. Goal
  <2>1. CASE \E q \in AppRequests : SignupCommit(q) \/ SweepCommit(q)
    BY <1>4, <1>6, <2>1
  <2>2. CASE \E t \in DOMAIN authTokens : ConfirmEmailVerification(t)
    BY <1>5, <2>2
  <2>3. CASE UNCHANGED appUsers
    BY <1>3, <2>3
  <2> QED BY <2>1, <2>2, <2>3
          DEF AppNext, SignupBegin, LoginRead, FactorRead, LogoutAllBegin, RefreshLock, OTPLock,
              ConfirmBegin, ChallengeLock, AppRequestFails, StartMFAEnrollment, ConfirmMFAEnrollment, DisableMFA,
              requestAuthToken, LoginCommit, RefreshCommit, ReplayCommit, OTPCommit, VerifyMFALogin,
              LogoutAppSession, RevokeAppSession, accounts
<1> QED BY <1>7 DEF Goal

\* What a step of the accounts does to a request.
LEMMA RequestsChange ==
  ASSUME AccountInv, AppNext, NEW q \in AppRequests
  PROVE  \/ appRequests'[q] = appRequests[q]
         \/ appRequests'[q] = NoRequestYet
         \/ appRequests'[q].op \notin LoginOps
         \/ /\ appRequests'[q].op \in {"login", "login_otp"}
            /\ appRequests'[q].factor = "unread" /\ appRequests'[q].enrolled = 0
         \/ \E on \in BOOLEAN : FactorRead(q, on)
<1> DEFINE Goal == \/ appRequests'[q] = appRequests[q]
                   \/ appRequests'[q] = NoRequestYet
                   \/ appRequests'[q].op \notin LoginOps
                   \/ /\ appRequests'[q].op \in {"login", "login_otp"}
                      /\ appRequests'[q].factor = "unread" /\ appRequests'[q].enrolled = 0
                   \/ \E on \in BOOLEAN : FactorRead(q, on)
<1>1. ASSUME NEW p \in AppRequests, NEW r, Begin(p, r),
             \/ r.op \notin LoginOps
             \/ r.op \in {"login", "login_otp"} /\ r.factor = "unread" /\ r.enrolled = 0
      PROVE  Goal
  <2>1. appRequests'[p] = r /\ (p # q => appRequests'[q] = appRequests[q])
    BY <1>1 DEF Begin, AccountInv, RequestsOK
  <2> QED BY <1>1, <2>1
<1>2. ASSUME NEW p \in AppRequests, Done(p) PROVE Goal
  BY <1>2 DEF Done, AccountInv, RequestsOK
<1>3. ASSUME UNCHANGED appRequests PROVE Goal
  BY <1>3
<1>4. ASSUME NEW p \in AppRequests, NEW on \in BOOLEAN, FactorRead(p, on) PROVE Goal
  <2>1. \E w : appRequests' = [appRequests EXCEPT ![p] = w]
    BY <1>4 DEF FactorRead
  <2>2. p # q => appRequests'[q] = appRequests[q]
    BY <2>1 DEF AccountInv, RequestsOK
  <2> QED BY <1>4, <2>2
<1> HIDE DEF Goal
<1>5. ASSUME NEW p \in AppRequests, NEW u \in AppUsers,
             \/ \E e \in Emails : SignupBegin(p, u, e)
             \/ LoginRead(p, u) \/ LogoutAllBegin(p, u)
      PROVE  Goal
  <2>1. CASE \E e \in Emails : SignupBegin(p, u, e)
    BY <1>1, <2>1 DEF SignupBegin, LoginOps
  <2>2. CASE LoginRead(p, u)
    BY <1>1, <2>2 DEF LoginRead
  <2>3. CASE LogoutAllBegin(p, u)
    BY <1>1, <2>3 DEF LogoutAllBegin, LoginOps
  <2> QED BY <1>5, <2>1, <2>2, <2>3
<1>6. ASSUME NEW p \in AppRequests, NEW s \in DOMAIN appSessions, RefreshLock(p, s) PROVE Goal
  BY <1>1, <1>6 DEF RefreshLock, LoginOps
<1>7. ASSUME NEW p \in AppRequests, NEW t \in DOMAIN authTokens, OTPLock(p, t) \/ ConfirmBegin(p, t)
      PROVE  Goal
  <2>1. CASE OTPLock(p, t)
    BY <1>1, <2>1 DEF OTPLock
  <2>2. CASE ConfirmBegin(p, t)
    BY <1>1, <2>2 DEF ConfirmBegin, LoginOps
  <2> QED BY <1>7, <2>1, <2>2
<1>8. ASSUME NEW p \in AppRequests, NEW c \in DOMAIN mfaChallenges, ChallengeLock(p, c) PROVE Goal
  BY <1>1, <1>8 DEF ChallengeLock, LoginOps
<1>9. Goal
  BY <1>2, <1>3, <1>4, <1>5, <1>6, <1>7, <1>8
     DEF AppNext, SignupCommit, LoginCommit, RefreshCommit, ReplayCommit, OTPCommit, SweepCommit,
         VerifyMFALogin, AppRequestFails, LogoutAppSession, RevokeAppSession, StartMFAEnrollment,
         ConfirmMFAEnrollment, DisableMFA, requestAuthToken, ConfirmEmailVerification
<1> QED BY <1>9 DEF Goal

\* A login by a provider only begins with its callback, and keeps it to its end.
LEMMA RequestsKeepCallers ==
  ASSUME AccountInv, AppNext, NEW q \in AppRequests, appRequests'[q].op = "oauth"
  PROVE  appRequests[q].op = "oauth" /\ appRequests'[q].callback = appRequests[q].callback
<1>1. CASE appRequests'[q] = appRequests[q]
  BY <1>1
<1>2. ASSUME NEW on \in BOOLEAN, FactorRead(q, on)
      PROVE  appRequests[q].op = "oauth" /\ appRequests'[q].callback = appRequests[q].callback
  <2>1. PICK w : /\ appRequests' = [appRequests EXCEPT ![q] = w]
                 /\ w.op = appRequests[q].op
                 /\ appRequests[q].op = "oauth" => w.callback = appRequests[q].callback
    BY <1>2, FactorReadMoves
  <2>2. appRequests'[q] = w
    BY <2>1 DEF AccountInv, RequestsOK
  <2> QED BY <2>1, <2>2
<1>3. appRequests'[q] # NoRequestYet /\ "oauth" \in LoginOps
  BY DEF NoRequestYet, LoginOps
<1> QED BY <1>1, <1>2, <1>3, RequestsChange

\* What a login found stays right while nothing is enabled but by an enrolment that counts.
FactorsMove ==
  \A u \in AppUsers :
    \/ enrolments'[u] = enrolments[u] /\ (MfaRequired(u)' => MfaRequired(u))
    \/ enrolments'[u] = enrolments[u] + 1

LEMMA AskedStays ==
  ASSUME AccountInv, NEW r, RequestOK(r), AskedOK(r), FactorsMove
  PROVE  AskedOK(r)'
<1> SUFFICES ASSUME r.op \in LoginOps
             PROVE  /\ r.enrolled \in Nat /\ r.enrolled <= enrolments'[r.user]
                    /\ r.factor = "none" /\ r.enrolled = enrolments'[r.user] => ~MfaRequired(r.user)'
  BY DEF AskedOK
<1>1. r.user \in AppUsers
  BY DEF RequestOK
<1>2. enrolments[r.user] \in Nat
  BY <1>1 DEF AccountInv, OriginInv, CodesOK
<1>3. /\ r.enrolled \in Nat /\ r.enrolled <= enrolments[r.user]
      /\ r.factor = "none" /\ r.enrolled = enrolments[r.user] => ~MfaRequired(r.user)
  BY DEF AskedOK
<1>4. CASE enrolments'[r.user] = enrolments[r.user] /\ (MfaRequired(r.user)' => MfaRequired(r.user))
  BY <1>3, <1>4
<1>5. CASE enrolments'[r.user] = enrolments[r.user] + 1
  BY <1>2, <1>3, <1>5
<1> QED BY <1>1, <1>4, <1>5 DEF FactorsMove

LEMMA FactorsMoveStep ==
  ASSUME AccountInv, FactorInv, AppNext
  PROVE  FactorsMove
<1>1. ASSUME UNCHANGED <<enrolments, mfaFactors>> PROVE FactorsMove
  BY <1>1 DEF FactorsMove, MfaRequired
<1>2. /\ DOMAIN mfaFactors = AppUsers /\ \A u \in AppUsers : mfaFactors[u] \subseteq {"pending", "enabled"}
      /\ DOMAIN enrolments = AppUsers
  BY DEF FactorInv, AccountInv, OriginInv, CodesOK
<1>3. ASSUME NEW u \in AppUsers, StartMFAEnrollment(u) \/ DisableMFA(u) PROVE FactorsMove
  <2>1. /\ enrolments' = enrolments
        /\ \/ mfaFactors' = [mfaFactors EXCEPT ![u] = mfaFactors[u] \cup {"pending"}]
           \/ mfaFactors' = [mfaFactors EXCEPT ![u] = {"pending"}]
    BY <1>3 DEF StartMFAEnrollment, DisableMFA
  <2>2. \A x \in AppUsers : "enabled" \in mfaFactors'[x] => "enabled" \in mfaFactors[x]
    BY <1>2, <2>1
  <2> QED BY <2>1, <2>2 DEF FactorsMove, MfaRequired
<1>4. ASSUME NEW u \in AppUsers, ConfirmMFAEnrollment(u) PROVE FactorsMove
  <2>1. PICK set : /\ enrolments' = [enrolments EXCEPT ![u] = enrolments[u] + 1]
                   /\ mfaFactors' = [mfaFactors EXCEPT ![u] = set]
    BY <1>4 DEF ConfirmMFAEnrollment
  <2>2. /\ enrolments'[u] = enrolments[u] + 1
        /\ \A x \in AppUsers \ {u} : enrolments'[x] = enrolments[x] /\ mfaFactors'[x] = mfaFactors[x]
    BY <1>2, <2>1
  <2> QED BY <2>2 DEF FactorsMove, MfaRequired
<1> QED BY <1>1, <1>3, <1>4
        DEF AppNext, SignupBegin, LoginRead, FactorRead, LogoutAllBegin, RefreshLock, OTPLock,
            ConfirmBegin, ChallengeLock, AppRequestFails, requestAuthToken, SignupCommit, LoginCommit,
            RefreshCommit, ReplayCommit, OTPCommit, SweepCommit, VerifyMFALogin, LogoutAppSession,
            RevokeAppSession, ConfirmEmailVerification, accounts

LEMMA AskedPreserved ==
  ASSUME AccountInv, FactorInv, AppNext, NEW q \in AppRequests
  PROVE  AskedOK(appRequests[q])'
<1>1. RequestOK(appRequests[q]) /\ AskedOK(appRequests[q]) /\ FactorsMove
  BY FactorsMoveStep DEF AccountInv, RequestsOK, FactorInv
<1>2. CASE appRequests'[q] = appRequests[q]
  <2> DEFINE r == appRequests[q]
  <2>1. PICK w : w = r
    OBVIOUS
  <2>2. AskedOK(w)'
    BY <1>1, <2>1, AskedStays
  <2> QED BY <1>2, <2>1, <2>2 DEF AskedOK
<1>3. CASE appRequests'[q] = NoRequestYet \/ appRequests'[q].op \notin LoginOps
  BY <1>3 DEF AskedOK, NoRequestYet, LoginOps
<1>4. CASE /\ appRequests'[q].op \in {"login", "login_otp"}
           /\ appRequests'[q].factor = "unread" /\ appRequests'[q].enrolled = 0
  <2>1. AccountInv' /\ RequestOK(appRequests[q])'
    BY AccountsPreserved DEF AccountInv, RequestsOK
  <2>2. appRequests'[q].user \in AppUsers
    BY <1>4, <2>1 DEF RequestOK, LoginOps
  <2>3. enrolments'[appRequests'[q].user] \in Nat
    BY <2>1, <2>2 DEF AccountInv, OriginInv, CodesOK
  <2> QED BY <1>4, <2>3 DEF AskedOK
<1>5. ASSUME NEW on \in BOOLEAN, FactorRead(q, on) PROVE AskedOK(appRequests[q])'
  <2>1. PICK f, w :
          /\ appRequests' = [appRequests EXCEPT ![q] = w]
          /\ appRequests[q].op \in LoginOps
          /\ w.user = appRequests[q].user /\ w.factor = f
          /\ w.enrolled = enrolments[appRequests[q].user]
          /\ f = "none" => ~MfaRequired(appRequests[q].user)
    BY <1>5, FactorReadMoves
  <2>2. appRequests'[q] = w /\ enrolments' = enrolments /\ mfaFactors' = mfaFactors
    BY <1>5, <2>1 DEF FactorRead, accounts, AccountInv, RequestsOK
  <2>3. appRequests[q].user \in AppUsers
    BY <1>1, <2>1 DEF RequestOK
  <2>4. enrolments[appRequests[q].user] \in Nat
    BY <2>3 DEF AccountInv, OriginInv, CodesOK
  <2> QED BY <2>1, <2>2, <2>4 DEF AskedOK, MfaRequired
<1> QED BY <1>2, <1>3, <1>4, <1>5, RequestsChange

\* A factor is enrolled with an access token, and those are of accounts there are.
LEMMA FactorsPreserved ==
  ASSUME AccountInv, FactorInv, AppNext
  PROVE  FactorInv'
<1>1. \A u \in AppUsers : Known(u) => Known(u)'
  BY UserRows
<1>10. \A q \in AppRequests : AskedOK(appRequests[q])'
  BY AskedPreserved
<1>2. ASSUME UNCHANGED mfaFactors PROVE FactorInv'
  BY <1>1, <1>2, <1>10 DEF FactorInv
<1>3. ASSUME NEW u \in AppUsers,
             StartMFAEnrollment(u) \/ ConfirmMFAEnrollment(u) \/ DisableMFA(u)
      PROVE  FactorInv'
  <2>1. Known(u)
    BY <1>3 DEF StartMFAEnrollment, ConfirmMFAEnrollment, DisableMFA, AccessToken
  <2>2. mfaFactors[u] \in SUBSET {"pending", "enabled"}
    BY DEF FactorInv
  <2>3. PICK set \in SUBSET {"pending", "enabled"} : mfaFactors' = [mfaFactors EXCEPT ![u] = set]
    <3>1. CASE StartMFAEnrollment(u)
      BY <2>2, <3>1 DEF StartMFAEnrollment
    <3>2. CASE ConfirmMFAEnrollment(u)
      <4>1. PICK f \in mfaFactors[u] :
              mfaFactors' = [mfaFactors EXCEPT ![u] = (mfaFactors[u] \ {f}) \cup {"enabled"}]
        BY <3>2 DEF ConfirmMFAEnrollment
      <4>2. (mfaFactors[u] \ {f}) \cup {"enabled"} \in SUBSET {"pending", "enabled"}
        BY <2>2
      <4> QED BY <4>1, <4>2
    <3>3. CASE DisableMFA(u)
      BY <3>3 DEF DisableMFA
    <3> QED BY <1>3, <3>1, <3>2, <3>3
  <2>4. /\ mfaFactors' \in [AppUsers -> SUBSET {"pending", "enabled"}]
        /\ \A x \in AppUsers \ {u} : mfaFactors'[x] = mfaFactors[x]
    BY <2>3 DEF FactorInv
  <2> QED BY <1>1, <1>10, <2>1, <2>4 DEF FactorInv
<1> QED BY <1>2, <1>3
        DEF AppNext, SignupBegin, LoginRead, FactorRead, LogoutAllBegin, RefreshLock, OTPLock,
            ConfirmBegin, ChallengeLock, AppRequestFails, requestAuthToken, SignupCommit, LoginCommit,
            RefreshCommit, ReplayCommit, OTPCommit, SweepCommit, VerifyMFALogin, LogoutAppSession,
            RevokeAppSession, ConfirmEmailVerification, accounts

------------------------------------------------------------------------------
(* OAuth logins *)

\* A state is used up by the callback that came with it.  From then on it belongs to that callback,
\* to the request that logs in with it, or to the session that came of it.
Consumed(c) == c[1] \in DOMAIN oauthStates /\ oauthStates[c[1]] /\ c[2] \in Profiles
ByProvider(q) == appRequests[q].op = "oauth"
StateOf(q) == appRequests[q].callback[1]
CallbacksOK ==
  /\ \A c \in callbacks : Consumed(c)
  /\ \A c, d \in callbacks : c[1] = d[1] => c = d
ProvidersOK ==
  \A q \in AppRequests : ByProvider(q) =>
    /\ Consumed(appRequests[q].callback)
    /\ \A c \in callbacks : c[1] # StateOf(q)
    /\ \A p \in AppRequests \ {q} : ByProvider(p) => StateOf(p) # StateOf(q)
StatesSpent ==
  \A s \in DOMAIN appSessions :
    LET id == appSessions[s].origin[2]
    IN appSessions[s].origin[1] = "oauth" =>
         /\ id \in DOMAIN oauthStates /\ oauthStates[id]
         /\ \A c \in callbacks : c[1] # id
         /\ \A q \in AppRequests : ByProvider(q) => StateOf(q) # id
OAuthInv == oauthStates \in Seq(BOOLEAN) /\ CallbacksOK /\ ProvidersOK /\ StatesSpent

LEMMA OAuthInitially == AppInit /\ OAuthInit => OAuthInv
<1> SUFFICES ASSUME AppInit, OAuthInit PROVE OAuthInv
  OBVIOUS
<1>1. oauthStates \in Seq(BOOLEAN) /\ callbacks = {} /\ DOMAIN appSessions = {}
  BY DEF AppInit, OAuthInit
<1>2. \A q \in AppRequests : ~ByProvider(q)
  BY DEF AppInit, AppNothingElse, NoRequestYet, ByProvider
<1> QED BY <1>1, <1>2 DEF OAuthInv, CallbacksOK, ProvidersOK, StatesSpent

\* What takes no state from whom it belongs to.
StatesKept ==
  /\ oauthStates' \in Seq(BOOLEAN) /\ DOMAIN oauthStates \subseteq DOMAIN oauthStates'
  /\ \A i \in DOMAIN oauthStates : oauthStates[i] => oauthStates'[i]
CallersKept ==
  \A q \in AppRequests : ByProvider(q)' =>
    ByProvider(q) /\ appRequests'[q].callback = appRequests[q].callback
SpendersKept ==
  \A s \in DOMAIN appSessions' : appSessions'[s].origin[1] = "oauth" =>
    s \in DOMAIN appSessions /\ appSessions'[s].origin = appSessions[s].origin

LEMMA ConsumedStays ==
  ASSUME StatesKept, NEW c, Consumed(c)
  PROVE  c[1] \in DOMAIN oauthStates' /\ oauthStates'[c[1]] /\ c[2] \in Profiles
BY DEF Consumed, StatesKept

LEMMA StatesStay ==
  ASSUME OAuthInv, StatesKept, CallersKept, SpendersKept, callbacks' \subseteq callbacks
  PROVE  OAuthInv'
<1>1. CallbacksOK'
  BY ConsumedStays DEF OAuthInv, CallbacksOK, Consumed, Profiles
<1>2. ASSUME NEW q \in AppRequests, ByProvider(q)'
      PROVE  /\ Consumed(appRequests[q].callback)'
             /\ \A c \in callbacks' : c[1] # StateOf(q)'
             /\ \A p \in AppRequests \ {q} : ByProvider(p)' => StateOf(p)' # StateOf(q)'
  <2>1. ByProvider(q) /\ appRequests'[q].callback = appRequests[q].callback
    BY <1>2 DEF CallersKept
  <2>2. Consumed(appRequests[q].callback)
    BY <2>1 DEF OAuthInv, ProvidersOK
  <2>3. Consumed(appRequests[q].callback)'
    BY <2>1, <2>2, ConsumedStays DEF Consumed, Profiles
  <2>4. \A p \in AppRequests \ {q} : ByProvider(p)' => StateOf(p)' # StateOf(q)'
    BY <2>1 DEF OAuthInv, ProvidersOK, CallersKept, StateOf
  <2>5. \A c \in callbacks' : c[1] # StateOf(q)'
    BY <2>1 DEF OAuthInv, ProvidersOK, StateOf
  <2> QED BY <2>3, <2>4, <2>5
<1>3. ProvidersOK'
  BY <1>2 DEF ProvidersOK
<1>4. StatesSpent'
  <2> SUFFICES ASSUME NEW s \in DOMAIN appSessions', appSessions'[s].origin[1] = "oauth"
               PROVE  LET id == appSessions'[s].origin[2]
                      IN /\ id \in DOMAIN oauthStates' /\ oauthStates'[id]
                         /\ \A c \in callbacks' : c[1] # id
                         /\ \A q \in AppRequests : ByProvider(q)' => StateOf(q)' # id
    BY DEF StatesSpent
  <2>1. s \in DOMAIN appSessions /\ appSessions'[s].origin = appSessions[s].origin
    BY DEF SpendersKept
  <2> DEFINE id == appSessions[s].origin[2]
  <2>2. /\ id \in DOMAIN oauthStates /\ oauthStates[id]
        /\ \A c \in callbacks : c[1] # id
        /\ \A q \in AppRequests : ByProvider(q) => StateOf(q) # id
    BY <2>1 DEF OAuthInv, StatesSpent
  <2> HIDE DEF id
  <2>3. id \in DOMAIN oauthStates' /\ oauthStates'[id]
    BY <2>2 DEF StatesKept
  <2>4. \A q \in AppRequests : ByProvider(q)' => StateOf(q)' # id
    BY <2>2 DEF CallersKept, StateOf
  <2> QED BY <2>1, <2>2, <2>3, <2>4 DEF id
<1> QED BY <1>1, <1>3, <1>4 DEF OAuthInv, StatesKept

LEMMA StartOAuthLoginStep ==
  ASSUME OAuthInv, StartOAuthLogin
  PROVE  OAuthInv'
<1> PICK n : n = Len(oauthStates) + 1
  OBVIOUS
<1>1. /\ oauthStates' \in Seq(BOOLEAN) /\ DOMAIN oauthStates' = DOMAIN oauthStates \cup {n}
      /\ \A i \in DOMAIN oauthStates : oauthStates'[i] = oauthStates[i]
  <2>1. oauthStates' = Append(oauthStates, FALSE) /\ oauthStates \in Seq(BOOLEAN)
    BY DEF OAuthInv, StartOAuthLogin
  <2> DEFINE row == FALSE
  <2>2. row \in BOOLEAN
    OBVIOUS
  <2> HIDE DEF row
  <2>3. /\ Append(oauthStates, row) \in Seq(BOOLEAN)
        /\ DOMAIN Append(oauthStates, row) = DOMAIN oauthStates \cup {n}
        /\ \A i \in DOMAIN oauthStates : Append(oauthStates, row)[i] = oauthStates[i]
    BY <2>1, <2>2, AppendedRow
  <2> QED BY <2>1, <2>3 DEF row
<1>2. StatesKept
  BY <1>1 DEF StatesKept
<1>3. callbacks' = callbacks /\ appSessions' = appSessions /\ appRequests' = appRequests
  BY DEF StartOAuthLogin, appVars
<1> QED BY <1>2, <1>3, StatesStay DEF CallersKept, SpendersKept, ByProvider

LEMMA ConsumeStateStep ==
  ASSUME OAuthInv, NEW i \in DOMAIN oauthStates, NEW p \in Profiles, consumeOAuthState(i, p)
  PROVE  OAuthInv'
<1>1. /\ ~oauthStates[i] /\ callbacks' = callbacks \cup {<<i, p>>}
      /\ oauthStates' = [oauthStates EXCEPT ![i] = TRUE]
      /\ appSessions' = appSessions /\ appRequests' = appRequests
  BY DEF consumeOAuthState, appVars
<1>2. /\ oauthStates' \in Seq(BOOLEAN) /\ DOMAIN oauthStates' = DOMAIN oauthStates
      /\ oauthStates'[i] /\ \A j \in DOMAIN oauthStates \ {i} : oauthStates'[j] = oauthStates[j]
  BY <1>1 DEF OAuthInv
<1>3. \A c \in callbacks' : c \in callbacks \/ (c = <<i, p>> /\ c[1] = i /\ c[2] = p)
  BY <1>1
<1>4. ASSUME NEW c, Consumed(c) PROVE c[1] # i /\ Consumed(c)'
  BY <1>1, <1>2, <1>4 DEF Consumed, Profiles
<1>5. CallbacksOK'
  <2>1. \A c, d \in callbacks' : c[1] = d[1] => c = d
    BY <1>3, <1>4 DEF OAuthInv, CallbacksOK
  <2>2. \A c \in callbacks' : c[1] \in DOMAIN oauthStates' /\ oauthStates'[c[1]] /\ c[2] \in Profiles
    BY <1>2, <1>3, <1>4 DEF OAuthInv, CallbacksOK, Consumed
  <2> QED BY <2>1, <2>2 DEF CallbacksOK, Consumed, Profiles
<1>6. ProvidersOK'
  <2>1. \A q \in AppRequests : (ByProvider(q)' <=> ByProvider(q)) /\ StateOf(q)' = StateOf(q)
    BY <1>1 DEF ByProvider, StateOf
  <2>2. ASSUME NEW q \in AppRequests, ByProvider(q)
        PROVE  /\ Consumed(appRequests[q].callback)'
               /\ StateOf(q) # i /\ \A c \in callbacks : c[1] # StateOf(q)
               /\ \A x \in AppRequests \ {q} : ByProvider(x) => StateOf(x) # StateOf(q)
    <3> PICK w : w = appRequests[q].callback
      OBVIOUS
    <3>1. Consumed(w)
      BY <2>2 DEF OAuthInv, ProvidersOK
    <3>2. w[1] # i /\ Consumed(w)'
      BY <1>4, <3>1
    <3> QED BY <1>1, <2>2, <3>2 DEF OAuthInv, ProvidersOK, StateOf, Consumed
  <2>3. \A q \in AppRequests : ByProvider(q)' => Consumed(appRequests[q].callback)'
    BY <2>1, <2>2
  <2> QED BY <1>3, <2>1, <2>2, <2>3 DEF ProvidersOK
<1>7. ASSUME NEW s \in DOMAIN appSessions', appSessions'[s].origin[1] = "oauth"
      PROVE  LET id == appSessions'[s].origin[2]
             IN /\ id \in DOMAIN oauthStates' /\ oauthStates'[id]
                /\ \A c \in callbacks' : c[1] # id
                /\ \A q \in AppRequests : ByProvider(q)' => StateOf(q)' # id
  BY <1>1, <1>2, <1>3, <1>7 DEF OAuthInv, StatesSpent, ByProvider, StateOf
<1>8. StatesSpent'
  BY <1>7 DEF StatesSpent
<1> QED BY <1>2, <1>5, <1>6, <1>8 DEF OAuthInv

\* A state that is taken from its callback or its request belongs to the session then.
LEMMA StateSpent ==
  ASSUME OAuthInv, UNCHANGED oauthStates, callbacks' \subseteq callbacks, CallersKept,
         NEW id \in DOMAIN oauthStates, oauthStates[id],
         \A c \in callbacks' : c[1] # id, \A q \in AppRequests : ByProvider(q)' => StateOf(q)' # id,
         NEW n, DOMAIN appSessions' = DOMAIN appSessions \cup {n},
         \A s \in DOMAIN appSessions : appSessions'[s] = appSessions[s],
         n \notin DOMAIN appSessions, appSessions'[n].origin = <<"oauth", id>>
  PROVE  OAuthInv'
<1>1. CallbacksOK'
  BY DEF OAuthInv, CallbacksOK, Consumed, Profiles
<1>2. ProvidersOK'
  <2> SUFFICES ASSUME NEW q \in AppRequests, ByProvider(q)'
               PROVE  /\ Consumed(appRequests[q].callback)'
                      /\ \A c \in callbacks' : c[1] # StateOf(q)'
                      /\ \A p \in AppRequests \ {q} : ByProvider(p)' => StateOf(p)' # StateOf(q)'
    BY DEF ProvidersOK
  <2>1. ByProvider(q) /\ appRequests'[q].callback = appRequests[q].callback
    BY DEF CallersKept
  <2> QED BY <2>1 DEF OAuthInv, ProvidersOK, CallersKept, StateOf, Consumed, Profiles
<1>3. ASSUME NEW s \in DOMAIN appSessions', appSessions'[s].origin[1] = "oauth"
      PROVE  LET i == appSessions'[s].origin[2]
             IN /\ i \in DOMAIN oauthStates' /\ oauthStates'[i]
                /\ \A c \in callbacks' : c[1] # i
                /\ \A q \in AppRequests : ByProvider(q)' => StateOf(q)' # i
  <2>1. CASE s \in DOMAIN appSessions
    BY <1>3, <2>1 DEF OAuthInv, StatesSpent, CallersKept, StateOf
  <2>2. CASE s = n
    <3>1. appSessions'[s].origin[2] = id
      BY <2>2
    <3> QED BY <3>1
  <2> QED BY <2>1, <2>2
<1>4. StatesSpent'
  BY <1>3 DEF StatesSpent
<1> QED BY <1>1, <1>2, <1>4 DEF OAuthInv

\* A user that is created with a provider's login.
LEMMA OAuthRegisterStep ==
  ASSUME AccountInv, FactorInv, OAuthInv, NEW c \in callbacks, NEW u \in AppUsers,
         OAuthRegister(c, u)
  PROVE  /\ AccountInv' /\ FactorInv' /\ OAuthInv'
         /\ OpensSession(u, "oauth", c[1]) /\ ~MfaRequired(u)
         /\ \A x \in AppUsers \ {u} : appUsers'[x] = appUsers[x]
<1> DEFINE id == c[1]
           p == c[2]
           row == [email |-> p.email, verified |-> p.verified, key |-> 0]
<1>1. /\ createAppSession(u, 0, 0, <<"oauth", id>>) /\ callbacks' = callbacks \ {c}
      /\ UNCHANGED <<oauthStates, authTokens, mfaChallenges, appRequests, mfaFactors, recoveryCodes,
                     enrolments>>
      /\ appUsers' = [appUsers EXCEPT ![u] = row] /\ ~Known(u)
  BY DEF OAuthRegister, CreateOAuthUser
<1>2. id \in DOMAIN oauthStates /\ oauthStates[id] /\ p \in Profiles /\ id \in Nat
  BY DEF OAuthInv, CallbacksOK, Consumed
<1>3. row \in UserRow /\ row.email \in Emails
  BY <1>2 DEF Profiles, UserRow
<1> HIDE DEF row
<1>4. /\ appUsers' \in [AppUsers -> UserRow] /\ \A x \in AppUsers : Known(x) => Known(x)'
      /\ \A x \in AppUsers \ {u} : appUsers'[x] = appUsers[x]
  <2>1. /\ appUsers' \in [AppUsers -> UserRow] /\ appUsers'[u] = row
        /\ \A x \in AppUsers \ {u} : appUsers'[x] = appUsers[x]
    BY <1>1, <1>3 DEF AccountInv, TablesOK
  <2> QED BY <1>3, <2>1, AppSessionsAssumption DEF Known
<1> HIDE DEF id, p
<1>5. CodesOK' /\ CodesKept /\ UsesKept
  BY <1>1, SameCodes DEF UsesKept, TokensKept
<1>6. "oauth" \in OriginKinds /\ Opens(u, "oauth", id)
  <2>1. ASSUME NEW s \in DOMAIN appSessions, appSessions[s].origin = <<"oauth", id>> PROVE FALSE
    <3>1. appSessions[s].origin[1] = "oauth" /\ appSessions[s].origin[2] = id
      BY <2>1
    <3>2. c \in callbacks /\ c[1] = id
      BY DEF id
    <3> QED BY <3>1, <3>2 DEF OAuthInv, StatesSpent
  <2> QED BY <2>1 DEF Opens, OriginKinds
<1>7. /\ appSessions' \in Seq(SessionRow) /\ DOMAIN appSessions \subseteq DOMAIN appSessions'
      /\ \A s \in DOMAIN appSessions : appSessions'[s] = appSessions[s]
      /\ FamilyInv' /\ OriginInv'
  BY <1>1, <1>2, <1>5, <1>6, SessionOpened DEF AccountInv
<1>8. AccountInv'
  <2>1. TablesOK'
    BY <1>1, <1>4, <1>7 DEF AccountInv, TablesOK
  <2>2. RequestsOK' /\ LocksApart'
    <3>1. \A q \in AppRequests : Undisturbed(q)
      BY <1>1, <1>7 DEF Undisturbed
    <3> QED BY <1>1, <3>1, RequestsStand DEF AccountInv
  <2> QED BY <1>7, <2>1, <2>2 DEF AccountInv
<1>9. FactorInv'
  BY <1>1, <1>4 DEF FactorInv, AskedOK, MfaRequired
<1>10. OpensSession(u, "oauth", id)
  BY <1>1, <1>2, <1>6, CreatedSession DEF AccountInv
<1>11. OAuthInv'
  <2> PICK n : n = Len(appSessions) + 1
    OBVIOUS
  <2>1. /\ DOMAIN appSessions' = DOMAIN appSessions \cup {n} /\ n \notin DOMAIN appSessions
        /\ appSessions'[n].origin = <<"oauth", id>>
    BY <1>10 DEF OpensSession
  <2>2. CallersKept
    BY <1>1 DEF CallersKept, ByProvider
  <2>3. \A d \in callbacks' : d[1] # id
    BY <1>1 DEF OAuthInv, CallbacksOK, id
  <2>4. \A q \in AppRequests : ByProvider(q)' => StateOf(q)' # id
    BY <1>1 DEF OAuthInv, ProvidersOK, ByProvider, StateOf, id
  <2> QED BY <1>1, <1>2, <1>7, <2>1, <2>2, <2>3, <2>4, StateSpent
<1>12. ~MfaRequired(u)
  BY <1>1 DEF FactorInv, MfaRequired
<1> QED BY <1>4, <1>8, <1>9, <1>10, <1>11, <1>12 DEF id

\* A user that is there is read with its key, under the lock of the collection.
LEMMA OAuthReadStep ==
  ASSUME AccountInv, FactorInv, OAuthInv, NEW q \in AppRequests, NEW c \in callbacks,
         NEW u \in AppUsers, OAuthRead(q, c, u)
  PROVE  AccountInv' /\ FactorInv' /\ OAuthInv'
<1> DEFINE r == [op |-> "oauth", callback |-> c, user |-> u, key |-> appUsers[u].key,
                 factor |-> "unread", enrolled |-> 0, locks |-> {<<"advisory", 0>>}]
<1>1. /\ Begin(q, r) /\ UNCHANGED <<accounts, appSessions, authTokens, mfaChallenges>>
      /\ callbacks' = callbacks \ {c} /\ UNCHANGED oauthStates
  BY DEF OAuthRead
<1>2. /\ r.op # "none" /\ RequestOK(r) /\ r.op = "oauth" /\ r.callback = c /\ r.user = u
      /\ r.factor = "unread" /\ r.enrolled = 0 /\ "oauth" \in LoginOps
  BY DEF RequestOK, SweepOps, LoginOps
<1>3. \A l \in r.locks : \A p \in AppRequests : l \notin Held(p)
  BY NotHeld DEF OAuthRead, CollectionLockFree
<1> HIDE DEF r
<1>4. AccountInv'
  BY <1>1, <1>2, <1>3, BeginPreserves
<1>5. /\ appRequests'[q] = r /\ \A p \in AppRequests \ {q} : appRequests'[p] = appRequests[p]
      /\ ~ByProvider(q)
  BY <1>1 DEF Begin, Pending, ByProvider, AccountInv, RequestsOK
<1>6. FactorInv'
  <2>1. enrolments[u] \in Nat
    BY DEF AccountInv, OriginInv, CodesOK
  <2>2. enrolments' = enrolments /\ mfaFactors' = mfaFactors /\ appUsers' = appUsers
    BY <1>1 DEF accounts
  <2>3. AskedOK(appRequests[q])'
    BY <1>2, <1>5, <2>1, <2>2 DEF AskedOK
  <2>4. \A p \in AppRequests \ {q} : AskedOK(appRequests[p])'
    BY <1>5, <2>2 DEF AskedOK, FactorInv, MfaRequired
  <2> QED BY <2>2, <2>3, <2>4 DEF FactorInv, Known
<1>7. Consumed(c)
  BY DEF OAuthInv, CallbacksOK
<1>8. \A d \in callbacks' : d \in callbacks /\ d[1] # c[1]
  BY <1>1 DEF OAuthInv, CallbacksOK
<1>9. CallbacksOK'
  BY <1>1, <1>8 DEF OAuthInv, CallbacksOK, Consumed, Profiles
<1>10. /\ ByProvider(q)' /\ StateOf(q)' = c[1] /\ appRequests'[q].callback = c
       /\ \A p \in AppRequests \ {q} :
            /\ ByProvider(p)' <=> ByProvider(p)
            /\ appRequests'[p].callback = appRequests[p].callback /\ StateOf(p)' = StateOf(p)
  BY <1>2, <1>5 DEF ByProvider, StateOf
<1>11. \A p \in AppRequests : ByProvider(p) => StateOf(p) # c[1]
  BY DEF OAuthInv, ProvidersOK
<1>12. ProvidersOK'
  <2> SUFFICES ASSUME NEW p \in AppRequests, ByProvider(p)'
               PROVE  /\ Consumed(appRequests[p].callback)'
                      /\ \A d \in callbacks' : d[1] # StateOf(p)'
                      /\ \A x \in AppRequests \ {p} : ByProvider(x)' => StateOf(x)' # StateOf(p)'
    BY DEF ProvidersOK
  <2>1. CASE p = q
    <3>1. Consumed(appRequests[p].callback)'
      BY <1>1, <1>7, <1>10, <2>1 DEF Consumed, Profiles
    <3> QED BY <1>8, <1>10, <1>11, <2>1, <3>1
  <2>2. CASE p # q
    <3>1. Consumed(appRequests[p].callback)'
      BY <1>1, <1>10, <2>2 DEF OAuthInv, ProvidersOK, Consumed, Profiles
    <3>2. \A d \in callbacks' : d[1] # StateOf(p)'
      BY <1>8, <1>10, <2>2 DEF OAuthInv, ProvidersOK
    <3>3. \A x \in AppRequests \ {p} : ByProvider(x)' => StateOf(x)' # StateOf(p)'
      BY <1>10, <1>11, <2>2 DEF OAuthInv, ProvidersOK
    <3> QED BY <3>1, <3>2, <3>3
  <2> QED BY <2>1, <2>2
<1>13. StatesSpent'
  <2> SUFFICES ASSUME NEW s \in DOMAIN appSessions', appSessions'[s].origin[1] = "oauth"
               PROVE  LET id == appSessions'[s].origin[2]
                      IN /\ id \in DOMAIN oauthStates' /\ oauthStates'[id]
                         /\ \A d \in callbacks' : d[1] # id
                         /\ \A p \in AppRequests : ByProvider(p)' => StateOf(p)' # id
    BY DEF StatesSpent
  <2> PICK id : id = appSessions'[s].origin[2]
    OBVIOUS
  <2>1. appSessions' = appSessions
    BY <1>1
  <2>2. /\ id \in DOMAIN oauthStates /\ oauthStates[id] /\ \A d \in callbacks : d[1] # id
        /\ \A p \in AppRequests : ByProvider(p) => StateOf(p) # id
    BY <2>1 DEF OAuthInv, StatesSpent
  <2>3. c[1] # id
    BY <2>2
  <2> QED BY <1>1, <1>8, <1>10, <2>2, <2>3
<1> QED BY <1>1, <1>4, <1>6, <1>9, <1>12, <1>13 DEF OAuthInv

\* It ends as other logins do.
LEMMA OAuthCommitStep ==
  ASSUME AccountInv, FactorInv, OAuthInv, NEW q \in AppRequests, OAuthCommit(q)
  PROVE  /\ AccountInv' /\ FactorInv' /\ OAuthInv'
         /\ \/ UNCHANGED <<appSessions, issuedKeys>>
            \/ \E id \in Nat :
                 /\ OpensSession(appRequests[q].user, "oauth", id)
                 /\ createAppSession(appRequests[q].user, 0, appRequests[q].key, <<"oauth", id>>)
                 /\ MfaRequired(appRequests[q].user) => Excused(appRequests[q].user)
<1> DEFINE u == appRequests[q].user
           id == StateOf(q)
<1>1. /\ appRequests[q].op = "oauth" /\ appRequests[q].factor # "unread" /\ Done(q)
      /\ SessionOrChallenge(appRequests[q], <<"oauth", id>>)
      /\ UNCHANGED <<oauthStates, callbacks, accounts, authTokens>>
  BY DEF OAuthCommit, StateOf
<1>2. "oauth" \in LoginOps /\ "oauth" \in OriginKinds /\ ByProvider(q)
  BY <1>1 DEF LoginOps, OriginKinds, ByProvider
<1>3. u \in AppUsers
  BY <1>1, <1>2 DEF AccountInv, RequestsOK, RequestOK
<1>4. id \in DOMAIN oauthStates /\ oauthStates[id] /\ id \in Nat
  BY <1>2 DEF OAuthInv, ProvidersOK, Consumed, StateOf
<1>5. Opens(u, "oauth", id)
  <2>1. ASSUME NEW s \in DOMAIN appSessions, appSessions[s].origin = <<"oauth", id>> PROVE FALSE
    <3>1. appSessions[s].origin[1] = "oauth" /\ appSessions[s].origin[2] = id
      BY <2>1
    <3> QED BY <1>2, <3>1 DEF OAuthInv, StatesSpent
  <2> QED BY <2>1 DEF Opens
<1>6. /\ appRequests'[q] = NoRequestYet
      /\ \A p \in AppRequests \ {q} : appRequests'[p] = appRequests[p]
  BY <1>1 DEF Done, AccountInv, RequestsOK
<1>7. \/ UNCHANGED <<appSessions, issuedKeys>>
      \/ /\ OpensSession(u, "oauth", id)
         /\ createAppSession(u, 0, appRequests[q].key, <<"oauth", id>>)
         /\ MfaRequired(u) => Excused(u)
  BY <1>1, <1>2, <1>4, LoginEnds
<1>8. u = appRequests[q].user
  OBVIOUS
<1> HIDE DEF u, id
<1>9. CodesOK' /\ CodesKept /\ TokensKept
  BY <1>1, SameCodes DEF TokensKept, accounts
<1>10. /\ appSessions' \in Seq(SessionRow) /\ DOMAIN appSessions \subseteq DOMAIN appSessions'
       /\ \A s \in DOMAIN appSessions : appSessions'[s] = appSessions[s]
       /\ mfaChallenges' \in Seq(ChallengeRow)
       /\ DOMAIN mfaChallenges \subseteq DOMAIN mfaChallenges'
       /\ \A x \in DOMAIN mfaChallenges : mfaChallenges'[x] = mfaChallenges[x]
       /\ FamilyInv' /\ OriginInv'
  BY <1>1, <1>2, <1>3, <1>4, <1>5, <1>8, <1>9, LoggedIn
<1>11. AccountInv'
  <2>1. TablesOK'
    BY <1>1, <1>10 DEF AccountInv, TablesOK, accounts
  <2>2. RequestsOK' /\ LocksApart'
    <3>1. \A p \in AppRequests : Undisturbed(p)
      BY <1>1, <1>10 DEF Undisturbed
    <3> QED BY <1>1, <3>1, RequestEnds DEF AccountInv
  <2> QED BY <1>10, <2>1, <2>2 DEF AccountInv
<1>12. FactorInv'
  <2>1. enrolments' = enrolments /\ mfaFactors' = mfaFactors /\ appUsers' = appUsers
    BY <1>1 DEF accounts
  <2>2. AskedOK(appRequests[q])'
    BY <1>6 DEF AskedOK, NoRequestYet, LoginOps
  <2>3. \A p \in AppRequests \ {q} : AskedOK(appRequests[p])'
    BY <1>6, <2>1 DEF AskedOK, FactorInv, MfaRequired
  <2> QED BY <2>1, <2>2, <2>3 DEF FactorInv, Known
<1>13. OAuthInv'
  <2>1. CallersKept /\ ~ByProvider(q)'
    BY <1>6 DEF CallersKept, ByProvider, NoRequestYet
  <2>2. CASE UNCHANGED appSessions
    BY <1>1, <2>1, <2>2, StatesStay DEF StatesKept, SpendersKept, OAuthInv
  <2>3. CASE OpensSession(u, "oauth", id)
    <3> PICK n : n = Len(appSessions) + 1
      OBVIOUS
    <3>1. /\ DOMAIN appSessions' = DOMAIN appSessions \cup {n} /\ n \notin DOMAIN appSessions
          /\ appSessions'[n].origin = <<"oauth", id>>
      BY <2>3 DEF OpensSession
    <3>2. \A d \in callbacks' : d[1] # id
      BY <1>1, <1>2 DEF OAuthInv, ProvidersOK, id
    <3>3. \A p \in AppRequests : ByProvider(p)' => StateOf(p)' # id
      BY <1>2, <1>6, <2>1 DEF OAuthInv, ProvidersOK, ByProvider, StateOf, id
    <3> QED BY <1>1, <1>4, <1>10, <2>1, <3>1, <3>2, <3>3, StateSpent
  <2> QED BY <1>7, <2>2, <2>3
<1> QED BY <1>4, <1>7, <1>11, <1>12, <1>13 DEF u

------------------------------------------------------------------------------
(* All parts of the accounts at once *)

AccountsInit == AppInit /\ OAuthInit /\ OrgInit
AccountsNext == (OAuthNext /\ UNCHANGED orgVars) \/ (OrgNext /\ UNCHANGED oauthVars)
AccountsSpec == AccountsInit /\ [][AccountsNext]_<<accountVars, orgVars>>

AccountsInv == AccountInv /\ FactorInv /\ OAuthInv /\ OrgInv

LEMMA AccountsInvInitially == AccountsInit => AccountsInv
<1> SUFFICES ASSUME AppInit, OAuthInit, OrgInit PROVE AccountsInv
  BY DEF AccountsInit
<1>1. FactorInv
  BY DEF AppInit, AppNothingElse, FactorInv, AskedOK, NoRequestYet, LoginOps
<1> QED BY <1>1, AccountsInitially, OAuthInitially, OrgsInitially DEF AccountsInv

\* A step of the accounts is one of their own, a login by a provider, or touches none of them.
ProviderStep ==
  \/ \E c \in callbacks, u \in AppUsers : OAuthRegister(c, u)
  \/ \E q \in AppRequests, c \in callbacks, u \in AppUsers : OAuthRead(q, c, u)
  \/ \E q \in AppRequests : OAuthCommit(q)

LEMMA StepKinds ==
  ASSUME [AccountsNext]_<<accountVars, orgVars>>
  PROVE  \/ AppNext /\ UNCHANGED <<oauthVars, orgVars>>
         \/ ProviderStep /\ UNCHANGED orgVars
         \/ /\ \/ StartOAuthLogin
               \/ \E i \in DOMAIN oauthStates, p \in Profiles : consumeOAuthState(i, p)
               \/ \E c \in callbacks : CallbackFails(c)
            /\ UNCHANGED <<appVars, orgVars>>
         \/ (OrgNext \/ UNCHANGED orgVars) /\ UNCHANGED <<appVars, oauthVars>>
<1>1. CASE OAuthNext /\ UNCHANGED orgVars
  BY <1>1 DEF OAuthNext, StartOAuthLogin, consumeOAuthState, CallbackFails, ProviderStep
<1>2. CASE OrgNext /\ UNCHANGED oauthVars
  BY <1>2 DEF OrgNext, CreateOrganization, CreateOrganizationInvitation, AcceptRead,
              AcceptOrganizationInvitation, AcceptFails
<1>3. CASE UNCHANGED <<accountVars, orgVars>>
  BY <1>3 DEF accountVars
<1> QED BY <1>1, <1>2, <1>3 DEF AccountsNext

LEMMA SameApp ==
  ASSUME AccountInv, FactorInv, UNCHANGED appVars
  PROVE  AccountInv' /\ FactorInv'
<1>1. AccountInv'
  BY AccountsPreserved
<1>2. FactorInv'
  BY DEF FactorInv, appVars, accounts, Known, AskedOK, MfaRequired
<1> QED BY <1>1, <1>2

LEMMA AccountsInvPreserved ==
  ASSUME AccountsInv,
         [AccountsNext]_<<accountVars, orgVars>>
  PROVE  AccountsInv'
<1> USE DEF AccountsInv
<1>1. CASE AppNext /\ UNCHANGED <<oauthVars, orgVars>>
  <2>1. AccountInv' /\ FactorInv' /\ OrgInv'
    BY <1>1, AccountsPreserved, FactorsPreserved, OrgsPreserved
  <2>2. OAuthInv'
    <3>1. oauthStates' = oauthStates /\ callbacks' = callbacks
      BY <1>1 DEF oauthVars
    <3>2. SpendersKept
      BY <1>1, NewSessions DEF SpendersKept
    <3>3. StatesKept
      BY <3>1 DEF StatesKept, OAuthInv
    <3>4. CallersKept
      BY <1>1, RequestsKeepCallers DEF CallersKept, ByProvider
    <3> QED BY <3>1, <3>2, <3>3, <3>4, StatesStay
  <2> QED BY <2>1, <2>2
<1>2. CASE ProviderStep /\ UNCHANGED orgVars
  BY <1>2, OAuthRegisterStep, OAuthReadStep, OAuthCommitStep, OrgsPreserved DEF ProviderStep
<1>3. CASE /\ \/ StartOAuthLogin
              \/ \E i \in DOMAIN oauthStates, p \in Profiles : consumeOAuthState(i, p)
              \/ \E c \in callbacks : CallbackFails(c)
           /\ UNCHANGED <<appVars, orgVars>>
  <2>1. OAuthInv'
    <3>1. ASSUME NEW c \in callbacks, CallbackFails(c) PROVE OAuthInv'
      <4>1. /\ UNCHANGED <<oauthStates, appSessions, appRequests>> /\ callbacks' \subseteq callbacks
        BY <3>1 DEF CallbackFails, appVars
      <4> QED BY <4>1, StatesStay
              DEF StatesKept, SpendersKept, CallersKept, ByProvider, OAuthInv
    <3> QED BY <1>3, <3>1, StartOAuthLoginStep, ConsumeStateStep
  <2> QED BY <1>3, <2>1, SameApp, OrgsPreserved
<1>4. CASE (OrgNext \/ UNCHANGED orgVars) /\ UNCHANGED <<appVars, oauthVars>>
  <2>1. OAuthInv'
    <3>1. UNCHANGED <<oauthStates, callbacks, appSessions, appRequests>>
      BY <1>4 DEF oauthVars, appVars
    <3> QED BY <3>1, StatesStay DEF StatesKept, SpendersKept, CallersKept, ByProvider, OAuthInv
  <2> QED BY <1>4, <2>1, SameApp, OrgsPreserved
<1> QED BY <1>1, <1>2, <1>3, <1>4, StepKinds

\* The inductive invariant of sessions, factors, logins of providers and organizations holds of
\* every behaviour in which their handlers interleave (core/app_auth.go, mfa.go, oauth.go,
\* app_orgs.go): tables and requests fit, no two requests hold a lock, what opened a session is spent.
THEOREM AccountsInvHolds == AccountsSpec => []AccountsInv
<1>1. AccountsInit => AccountsInv
  BY AccountsInvInitially
<1>2. AccountsInv /\ [AccountsNext]_<<accountVars, orgVars>> => AccountsInv'
  BY AccountsInvPreserved
<1> QED BY <1>1, <1>2, PTL DEF AccountsSpec

\* A chain of refreshes never forks, whatever requests, logins of providers and organizations
\* go on: createAppSession and RefreshAppSession leave one live session in a family.
THEOREM FamiliesNeverFork == AccountsSpec => []OneLivePerFamily
<1>1. AccountsInv => OneLivePerFamily
  BY DEF AccountsInv, AccountInv, FamilyInv
<1> QED BY <1>1, AccountsInvHolds, PTL

\* A one-time token, an answered challenge, a recovery code or a provider's state is good for
\* one session.
THEOREM NothingOpensTwice == AccountsSpec => []OpensOnce
<1>1. AccountsInv => OpensOnce
  BY DEF AccountsInv, AccountInv, OriginInv
<1> QED BY <1>1, AccountsInvHolds, PTL

\* A role in an organization is that of the last invitation its user accepted.
THEOREM RolesAreLastAccepted == AccountsSpec => []RoleIsLastAccepted
<1>1. AccountsInv => RoleIsLastAccepted
  BY OrgImplies DEF AccountsInv
<1> QED BY <1>1, AccountsInvHolds, PTL

\* No login, not even by a provider, goes past an enabled factor, unless it was switched off when
\* the login looked or was confirmed after that: for any number of users, logins and enrolments.
THEOREM FactorsAreAsked == AccountsSpec => SecondFactorAsked
<1> DEFINE A == \A s \in DOMAIN appSessions' \ DOMAIN appSessions :
                  LET new == appSessions'[s]
                  IN MfaRequired(new.user) =>
                       \/ new.origin[1] \in {"challenge", "code", "refresh"}
                       \/ \E q \in AppRequests : Unasked(q) /\ appRequests[q].user = new.user
<1>1. AccountsInv /\ [AccountsNext]_<<accountVars, orgVars>> => [A]_appVars
  <2> SUFFICES ASSUME AccountsInv, [AccountsNext]_<<accountVars, orgVars>> PROVE [A]_appVars
    OBVIOUS
  <2>1. CASE AppNext
    BY <2>1, NewSessions DEF AccountsInv, Excused
  <2>2. ASSUME NEW u, NEW id, OpensSession(u, "oauth", id), MfaRequired(u) => Excused(u) PROVE A
    <3> PICK n : n = Len(appSessions) + 1
      OBVIOUS
    <3>1. DOMAIN appSessions' = DOMAIN appSessions \cup {n} /\ appSessions'[n].user = u
      BY <2>2 DEF OpensSession
    <3> QED BY <2>2, <3>1 DEF Excused
  <2>3. CASE UNCHANGED appSessions
    BY <2>3
  <2> HIDE DEF A
  <2>4. CASE ProviderStep
    BY <2>2, <2>3, <2>4, OAuthRegisterStep, OAuthCommitStep DEF ProviderStep, OAuthRead, AccountsInv
  <2>5. CASE UNCHANGED appVars
    BY <2>5
  <2> QED BY <2>1, <2>4, <2>5, StepKinds
<1> QED BY <1>1, AccountsInvHolds, PTL DEF AccountsSpec, SecondFactorAsked

------------------------------------------------------------------------------
(* Refinement: sessions implement SessionFamilies *)

\* The promise's variables, element by element.
LEMMA LiveAre ==
  ASSUME NEW z
  PROVE  z \in LiveTokens <=> \E s \in DOMAIN appSessions : Active(s) /\ z = LiveToken(s)
BY DEF LiveTokens

LEMMA CredentialsAre ==
  ASSUME NEW z
  PROVE  z \in Credentials <=> \E s \in DOMAIN appSessions : Opening(s) /\ z = Credential(s)
BY DEF Credentials

\* A step that only revokes ends some tokens.
LEMMA RevokingEnds ==
  ASSUME DOMAIN appSessions' = DOMAIN appSessions,
         \A s \in DOMAIN appSessions :
           /\ appSessions[s].revoked => appSessions'[s].revoked
           /\ appSessions'[s].user = appSessions[s].user
           /\ appSessions'[s].family = appSessions[s].family
           /\ appSessions'[s].origin = appSessions[s].origin
  PROVE  Families!FNext
<1>1. \A s \in DOMAIN appSessions :
        /\ LiveToken(s)' = LiveToken(s) /\ Credential(s)' = Credential(s)
        /\ Opening(s)' <=> Opening(s)
        /\ Active(s)' => Active(s)
  BY DEF LiveToken, Credential, Opening, Active
<1>2. LiveTokens' \subseteq LiveTokens
  BY <1>1 DEF LiveTokens
<1>3. Credentials' = Credentials
  BY <1>1 DEF Credentials
<1> QED BY <1>2, <1>3 DEF Families!FNext, Families!End

\* A refresh rotates the token that it found live.
LEMMA RefreshRotates ==
  ASSUME AccountInv, NEW q \in AppRequests, RefreshCommit(q)
  PROVE  Families!FNext
<1> PICK n : n = Len(appSessions) + 1
  OBVIOUS
<1> PICK s : s = appRequests[q].session
  OBVIOUS
<1>1. /\ DOMAIN appSessions' = DOMAIN appSessions \cup {n} /\ n \notin DOMAIN appSessions
      /\ n \in Nat \ {0} /\ s \in DOMAIN appSessions
      /\ \A x \in DOMAIN appSessions \ {s} : appSessions'[x] = appSessions[x]
      /\ appSessions'[s].revoked /\ appSessions'[s].origin = appSessions[s].origin
      /\ appSessions'[s].user = appSessions[s].user
      /\ appSessions'[n] = [user |-> appSessions[s].user, family |-> appSessions[s].family,
                            revoked |-> FALSE, replacedBy |-> 0, origin |-> <<"refresh", s>>]
  BY RotatedSession DEF AccountInv, RequestsOK
<1>2. Active(s)
  BY DEF AccountInv, RequestsOK, RequestOK, RefreshCommit
<1>3. n \in SessionIds
  BY <1>1, AppSessionsAssumption DEF RefreshCommit, SessionIds
<1>4. /\ Active(n)' /\ ~Opening(n)' /\ ~Active(s)'
      /\ LiveToken(n)' = [LiveToken(s) EXCEPT !.token = n]
  BY <1>1 DEF Active, Opening, LiveToken
<1>5. \A x \in DOMAIN appSessions :
        /\ Credential(x)' = Credential(x) /\ (Opening(x)' <=> Opening(x))
        /\ x # s => /\ Active(x)' <=> Active(x)
                    /\ LiveToken(x)' = LiveToken(x) /\ LiveToken(x) # LiveToken(s)
  BY <1>1 DEF Active, Opening, LiveToken, Credential
<1>6. LiveTokens' = (LiveTokens \ {LiveToken(s)}) \cup {[LiveToken(s) EXCEPT !.token = n]}
  <2>1. \A z : z \in LiveTokens' <=> \E x \in DOMAIN appSessions' : Active(x)' /\ z = LiveToken(x)'
    BY DEF LiveTokens
  <2> HIDE DEF Active, LiveToken
  <2> QED BY <1>1, <1>4, <1>5, <2>1, LiveAre
<1>7. Credentials' = Credentials
  <2>1. \A z : z \in Credentials' <=> \E x \in DOMAIN appSessions' : Opening(x)' /\ z = Credential(x)'
    BY DEF Credentials
  <2>2. ASSUME NEW z PROVE z \in Credentials' <=> \E x \in DOMAIN appSessions : Opening(x) /\ z = Credential(x)
    BY <1>1, <1>4, <1>5, <2>1
  <2> QED BY <2>2, CredentialsAre
<1>8. LiveToken(s) \in LiveTokens
  BY <1>1, <1>2 DEF LiveTokens
<1> QED BY <1>1, <1>3, <1>6, <1>7, <1>8 DEF Families!FNext, Families!Rotate

\* A login opens a family with a credential that nobody spent.
LEMMA LoginOpens ==
  ASSUME OpensOnce', NEW u \in AppUsers, NEW kind \in OriginKinds \ {"refresh"}, NEW id \in Nat,
         OpensSession(u, kind, id)
  PROVE  Families!FNext
<1> PICK n : n = Len(appSessions) + 1
  OBVIOUS
<1>1. /\ n \in SessionIds /\ n \notin DOMAIN appSessions
      /\ DOMAIN appSessions' = DOMAIN appSessions \cup {n}
      /\ \A s \in DOMAIN appSessions : appSessions'[s] = appSessions[s]
      /\ appSessions'[n] = [user |-> u, family |-> n, revoked |-> FALSE, replacedBy |-> 0,
                            origin |-> <<kind, id>>]
  BY DEF OpensSession
<1>2. /\ Active(n)' /\ Opening(n)' /\ Credential(n)' = <<u, <<kind, id>>>>
      /\ LiveToken(n)' = [user |-> u, family |-> n, token |-> n]
  BY <1>1 DEF Active, Opening, LiveToken, Credential
<1>3. \A x \in DOMAIN appSessions :
        /\ Credential(x)' = Credential(x) /\ (Opening(x)' <=> Opening(x))
        /\ (Active(x)' <=> Active(x)) /\ LiveToken(x)' = LiveToken(x)
  BY <1>1 DEF Active, Opening, LiveToken, Credential
<1>4. LiveTokens' = LiveTokens \cup {[user |-> u, family |-> n, token |-> n]}
  <2>1. \A z : z \in LiveTokens' <=> \E x \in DOMAIN appSessions' : Active(x)' /\ z = LiveToken(x)'
    BY DEF LiveTokens
  <2> QED BY <1>1, <1>2, <1>3, <2>1, LiveAre
<1>5. Credentials' = Credentials \cup {<<u, <<kind, id>>>>}
  <2>1. \A z : z \in Credentials' <=> \E x \in DOMAIN appSessions' : Opening(x)' /\ z = Credential(x)'
    BY DEF Credentials
  <2> QED BY <1>1, <1>2, <1>3, <2>1, CredentialsAre
<1>6. <<u, <<kind, id>>>> \notin Credentials
  <2>1. ASSUME NEW s \in DOMAIN appSessions, Credential(s) = <<u, <<kind, id>>>> PROVE FALSE
    <3>1. appSessions'[s].user = appSessions'[n].user /\ appSessions'[s].origin = appSessions'[n].origin
      BY <1>1, <2>1 DEF Credential
    <3> QED BY <1>1, <2>1, <3>1 DEF OpensOnce
  <2> QED BY <2>1, CredentialsAre
<1>7. \E uc \in Credentials' \ Credentials :
        /\ Credentials' = Credentials \cup {uc}
        /\ LiveTokens' = LiveTokens \cup {[user |-> uc[1], family |-> n, token |-> n]}
  <2> DEFINE uc == <<u, <<kind, id>>>>
  <2>1. uc \in Credentials' \ Credentials /\ uc[1] = u
    BY <1>5, <1>6
  <2> HIDE DEF uc
  <2> QED BY <1>4, <1>5, <2>1 DEF uc
<1> QED BY <1>1, <1>7 DEF Families!FNext, Families!Open

\* A login by a provider opens a family, or leaves the sessions alone.
LEMMA ProviderOpens ==
  ASSUME AccountInv, FactorInv, OAuthInv, ProviderStep
  PROVE  UNCHANGED appSessions \/ \E u \in AppUsers, id \in Nat : OpensSession(u, "oauth", id)
<1>1. ASSUME NEW c \in callbacks, NEW u \in AppUsers, OAuthRegister(c, u)
      PROVE  OpensSession(u, "oauth", c[1]) /\ c[1] \in Nat
  BY <1>1, OAuthRegisterStep DEF OAuthInv, CallbacksOK, Consumed
<1>2. ASSUME NEW q \in AppRequests, OAuthCommit(q)
      PROVE  UNCHANGED appSessions \/ \E u \in AppUsers, id \in Nat : OpensSession(u, "oauth", id)
  <2>1. appRequests[q].user \in AppUsers
    BY <1>2 DEF OAuthCommit, AccountInv, RequestsOK, RequestOK, LoginOps
  <2> QED BY <1>2, <2>1, OAuthCommitStep
<1> QED BY <1>1, <1>2 DEF ProviderStep, OAuthRead

LEMMA SameSessions == ASSUME UNCHANGED appSessions PROVE UNCHANGED Families!fvars
BY DEF Families!fvars, LiveTokens, LiveToken, Credentials, Credential, Opening, Active

LEMMA FamilySteps ==
  ASSUME AccountsInv, OpensOnce', [AccountsNext]_<<accountVars, orgVars>>
  PROVE  [Families!FNext]_Families!fvars
<1>1. CASE AppNext
  <2>1. CASE \E u \in AppUsers, kind \in OriginKinds \ {"oauth", "refresh"}, id \in Nat :
               /\ OpensSession(u, kind, id)
               /\ MfaRequired(u) => kind \in {"challenge", "code"} \/ Excused(u)
    BY <2>1, LoginOpens
  <2>2. CASE \E q \in AppRequests : RefreshCommit(q)
    BY <2>2, RefreshRotates DEF AccountsInv
  <2>3. ASSUME NEW S, appSessions' = Revoked(S) PROVE Families!FNext
    BY <2>3, RevokedSessions, RevokingEnds DEF AccountsInv, AccountInv
  <2>4. CASE UNCHANGED appSessions
    BY <2>4, SameSessions
  <2> QED BY <1>1, <2>1, <2>2, <2>3, <2>4, SessionSteps DEF AccountsInv
<1>2. CASE ProviderStep
  <2>1. "oauth" \in OriginKinds \ {"refresh"}
    BY DEF OriginKinds
  <2> QED BY <1>2, <2>1, ProviderOpens, LoginOpens, SameSessions DEF AccountsInv
<1>3. CASE UNCHANGED appVars
  BY <1>3, SameSessions DEF appVars
<1> QED BY <1>1, <1>2, <1>3, StepKinds

\* Sessions, logins by providers and organizations together implement SessionFamilies, for any
\* users, requests and bounds (createAppSession, RefreshAppSession and the revocations of
\* core/app_auth.go).
THEOREM SessionsKeepPromise == AccountsSpec => FamiliesAsPromised
<1>1. AccountsInit => Families!FInit
  BY DEF AccountsInit, AppInit, Families!FInit, LiveTokens
<1>2. AccountsInv /\ AccountsInv' /\ [AccountsNext]_<<accountVars, orgVars>>
        => [Families!FNext]_Families!fvars
  <2>1. AccountsInv' => OpensOnce'
    BY DEF AccountsInv, AccountInv, OriginInv
  <2> QED BY <2>1, FamilySteps
<1> QED BY <1>1, <1>2, AccountsInvHolds, PTL DEF AccountsSpec, FamiliesAsPromised, Families!FSpec

\* The promise is strong enough: whoever keeps it has one live token in a family at most.
THEOREM PromiseMeansOneToken == FamiliesAsPromised => []OneLivePerFamily
<1>1. Families!FInit /\ [Families!FNext]_Families!fvars => Families!FInit'
  <2> SUFFICES ASSUME Families!FInit, [Families!FNext]_Families!fvars PROVE Families!FInit'
    OBVIOUS
  <2> USE DEF Families!FInit
  <2>1. CASE Families!End
    BY <2>1 DEF Families!End
  <2>2. ASSUME NEW t \in SessionIds \ DOMAIN appSessions, Families!Rotate(t) PROVE Families!FInit'
    <3>1. PICK x \in LiveTokens :
            LiveTokens' = (LiveTokens \ {x}) \cup {[x EXCEPT !.token = t]}
      BY <2>2 DEF Families!Rotate
    <3>2. [x EXCEPT !.token = t].family = x.family /\ [x EXCEPT !.token = t].token = t
      BY DEF LiveTokens, LiveToken
    <3>3. DOMAIN appSessions' = DOMAIN appSessions \cup {t}
      BY <2>2 DEF Families!Rotate
    <3> QED BY <3>1, <3>2, <3>3
  <2>3. ASSUME NEW t \in SessionIds \ DOMAIN appSessions, Families!Open(t) PROVE Families!FInit'
    <3>1. PICK uc : LiveTokens' = LiveTokens \cup {[user |-> uc[1], family |-> t, token |-> t]}
      BY <2>3 DEF Families!Open
    <3>2. DOMAIN appSessions' = DOMAIN appSessions \cup {t}
      BY <2>3 DEF Families!Open
    <3> QED BY <3>1, <3>2
  <2>4. CASE UNCHANGED Families!fvars
    BY <2>4 DEF Families!fvars
  <2> QED BY <2>1, <2>2, <2>3, <2>4 DEF Families!FNext
<1>2. Families!FInit => OneLivePerFamily
  <2> SUFFICES ASSUME Families!FInit, NEW s \in DOMAIN appSessions, NEW x \in DOMAIN appSessions,
                      appSessions[s].family = appSessions[x].family, Active(s), Active(x)
               PROVE  s = x
    BY DEF OneLivePerFamily
  <2>1. LiveToken(s) \in LiveTokens /\ LiveToken(x) \in LiveTokens
    BY DEF LiveTokens
  <2>2. LiveToken(s).family = LiveToken(x).family /\ LiveToken(s).token = s /\ LiveToken(x).token = x
    BY DEF LiveToken
  <2> QED BY <2>1, <2>2 DEF Families!FInit
<1> QED BY <1>1, <1>2, PTL DEF FamiliesAsPromised, Families!FSpec

------------------------------------------------------------------------------
(* Access tokens: no key is above that of its user *)

\* The key a request will hand out is one its user had; who sweeps is known.
KeysOf(r) ==
  /\ r.op \in KeyOps => r.user \in AppUsers /\ r.key \in Nat /\ r.key <= appUsers[r.user].key
  /\ r.op \in SweepOps => r.user \in AppUsers /\ Known(r.user)
Issuable(i) == i \in AppUsers \X Nat /\ i[2] <= appUsers[i[1]].key
KeysInv ==
  /\ \A u \in AppUsers : appUsers[u].key <= MaxKeys /\ (Known(u) \/ appUsers[u].key = 0)
  /\ \A i \in issuedKeys : Issuable(i)
  /\ \A t \in DOMAIN authTokens : Known(authTokens[t].user)
  /\ \A q \in AppRequests : KeysOf(appRequests[q])

\* Keys only grow, and an account that is there stays.
UsersGrow ==
  \A u \in AppUsers :
    /\ Known(u) => Known(u)'
    /\ appUsers[u].key <= appUsers'[u].key /\ appUsers'[u].key <= MaxKeys
    /\ Known(u)' \/ appUsers'[u].key = 0
TokensOfKnown ==
  \A t \in DOMAIN authTokens' :
    \/ t \in DOMAIN authTokens /\ authTokens'[t].user = authTokens[t].user
    \/ Known(authTokens'[t].user)
KeysIssued == \A i \in issuedKeys' : i \in issuedKeys \/ Issuable(i)
RequestsMove ==
  \A q \in AppRequests :
    appRequests'[q] = appRequests[q] \/ KeysOf(appRequests'[q]) \/ appRequests'[q] = NoRequestYet

LEMMA TableUsers ==
  ASSUME TablesOK
  PROVE  /\ \A s \in DOMAIN appSessions : appSessions[s].user \in AppUsers
         /\ \A t \in DOMAIN authTokens : authTokens[t].user \in AppUsers
         /\ \A c \in DOMAIN mfaChallenges : mfaChallenges[c].user \in AppUsers
<1>1. \A s \in DOMAIN appSessions : appSessions[s] \in SessionRow
  BY DEF TablesOK
<1>2. \A t \in DOMAIN authTokens : authTokens[t] \in TokenRow
  BY DEF TablesOK
<1>3. \A c \in DOMAIN mfaChallenges : mfaChallenges[c] \in ChallengeRow
  BY DEF TablesOK
<1> QED BY <1>1, <1>2, <1>3 DEF SessionRow, TokenRow, ChallengeRow

LEMMA KeysKept ==
  ASSUME TablesOK, TablesOK', KeysInv, UsersGrow, TokensOfKnown, KeysIssued, RequestsMove
  PROVE  KeysInv'
<1>1. \A u \in AppUsers : appUsers[u].key \in Nat /\ appUsers'[u].key \in Nat
  BY DEF TablesOK, UserRow
<1>2. \A t \in DOMAIN authTokens : authTokens[t].user \in AppUsers
  BY TableUsers
<1>3. \A t \in DOMAIN authTokens' : authTokens'[t].user \in AppUsers
  <2>1. \A t \in DOMAIN authTokens' : authTokens'[t] \in TokenRow
    BY DEF TablesOK
  <2> QED BY <2>1 DEF TokenRow
<1>4. ASSUME NEW i, Issuable(i) PROVE Issuable(i)'
  <2>1. i[1] \in AppUsers /\ i[2] \in Nat
    BY <1>4 DEF Issuable
  <2> QED BY <1>1, <1>4, <2>1 DEF Issuable, UsersGrow
<1>5. ASSUME NEW r, KeysOf(r) PROVE KeysOf(r)'
  <2>1. ASSUME r.op \in KeyOps PROVE r.key <= appUsers'[r.user].key
    <3>1. r.user \in AppUsers /\ r.key \in Nat /\ r.key <= appUsers[r.user].key
      BY <1>5, <2>1 DEF KeysOf
    <3> QED BY <1>1, <3>1 DEF UsersGrow
  <2> QED BY <1>5, <2>1 DEF KeysOf, UsersGrow
<1>6. KeysOf(NoRequestYet)'
  BY DEF KeysOf, NoRequestYet, KeyOps, LoginOps, SweepOps
<1>7. \A q \in AppRequests : KeysOf(appRequests[q])'
  BY <1>5, <1>6 DEF KeysInv, RequestsMove
<1>8. \A u \in AppUsers : Known(u) => Known(u)'
  BY DEF UsersGrow
<1>9. \A t \in DOMAIN authTokens' : appUsers'[authTokens'[t].user].email # NoEmail
  <2> SUFFICES ASSUME NEW t \in DOMAIN authTokens'
               PROVE  appUsers'[authTokens'[t].user].email # NoEmail
    OBVIOUS
  <2>1. Known(authTokens'[t].user)
    BY DEF KeysInv, TokensOfKnown
  <2> QED BY <1>3, <1>8, <2>1 DEF Known
<1>10. (\A t \in DOMAIN authTokens : Known(authTokens[t].user))'
  BY <1>9 DEF Known
<1>11. (\A i \in issuedKeys : Issuable(i))'
  BY <1>4 DEF KeysInv, KeysIssued
<1>12. (\A u \in AppUsers : appUsers[u].key <= MaxKeys /\ (Known(u) \/ appUsers[u].key = 0))'
  BY DEF UsersGrow
<1> QED BY <1>7, <1>10, <1>11, <1>12 DEF KeysInv

\* A sweep takes the user's key on.
LEMMA SweepRaises ==
  ASSUME AccountInv, KeysInv, NEW u \in AppUsers, NEW q \in AppRequests, SweepCommit(q),
         appRequests[q].user = u
  PROVE  /\ appUsers'[u].key = appUsers[u].key + 1 /\ appUsers[u].key < MaxKeys
         /\ Known(u)
<1>1. /\ appUsers[u].key < MaxKeys /\ appRequests[q].op \in SweepOps
      /\ appUsers' = [appUsers EXCEPT ![u] =
             IF appRequests[q].op = "email_change"
             THEN [email |-> authTokens[appRequests[q].token].mailedTo, verified |-> TRUE,
                   key |-> appUsers[u].key + 1]
             ELSE [appUsers[u] EXCEPT !.key = appUsers[u].key + 1]]
  BY DEF SweepCommit
<1>2. Known(u)
  BY <1>1 DEF KeysInv, KeysOf
<1>3. appUsers \in [AppUsers -> UserRow] /\ appUsers[u] \in UserRow
  BY DEF AccountInv, TablesOK
<1>4. appUsers'[u] = IF appRequests[q].op = "email_change"
           THEN [email |-> authTokens[appRequests[q].token].mailedTo, verified |-> TRUE,
                 key |-> appUsers[u].key + 1]
           ELSE [appUsers[u] EXCEPT !.key = appUsers[u].key + 1]
  BY <1>1, <1>3
<1> QED BY <1>1, <1>2, <1>3, <1>4 DEF UserRow

\* What each step of an account does to keys.
LEMMA UsersGrowStep ==
  ASSUME AccountInv, KeysInv, AppNext
  PROVE  UsersGrow
<1>1. \A u \in AppUsers : Known(u) => Known(u)'
  BY UserRows
<1>2. \A u \in AppUsers : appUsers[u].key \in Nat /\ appUsers[u].key <= MaxKeys
  BY DEF AccountInv, TablesOK, UserRow, KeysInv
<1>3. ASSUME NEW u \in AppUsers, NEW q \in AppRequests, SweepCommit(q), appRequests[q].user = u
      PROVE  /\ appUsers'[u].key = appUsers[u].key + 1 /\ appUsers[u].key < MaxKeys
             /\ Known(u)
  BY <1>3, SweepRaises
<1>4. ASSUME NEW u \in AppUsers
      PROVE  /\ appUsers[u].key <= appUsers'[u].key /\ appUsers'[u].key <= MaxKeys
             /\ Known(u)' \/ appUsers'[u].key = 0
  <2>1. CASE appUsers'[u].key = appUsers[u].key
    BY <1>1, <1>2, <2>1 DEF KeysInv
  <2>2. CASE \E q \in AppRequests : SweepCommit(q) /\ appRequests[q].user = u
    BY <1>1, <1>2, <1>3, <2>2, AppSessionsAssumption
  <2> QED BY <2>1, <2>2, UserRows
<1> QED BY <1>1, <1>4 DEF UsersGrow

LEMMA TokensOfKnownStep ==
  ASSUME AccountInv, KeysInv, AppNext
  PROVE  TokensOfKnown
<1>1. ASSUME NEW t \in DOMAIN authTokens, UseToken(t) PROVE TokensOfKnown
  <2>1. authTokens' = [authTokens EXCEPT ![t].used = TRUE] /\ authTokens[t] \in TokenRow
    BY <1>1 DEF UseToken, AccountInv, TablesOK
  <2> QED BY <2>1 DEF TokensOfKnown, TokenRow
<1>2. ASSUME UNCHANGED authTokens PROVE TokensOfKnown
  BY <1>2 DEF TokensOfKnown
<1>3. ASSUME NEW u \in AppUsers, NEW type \in TokenTypes, NEW e \in Emails, requestAuthToken(u, type, e)
      PROVE  TokensOfKnown
  <2> DEFINE row == [user |-> u, type |-> type, used |-> FALSE, mailedTo |-> e]
  <2>1. authTokens' = Append(authTokens, row) /\ Known(u)
    BY <1>3 DEF requestAuthToken
  <2>2. row \in TokenRow /\ row.user = u
    BY DEF TokenRow
  <2> HIDE DEF row
  <2>3. \A t \in DOMAIN authTokens' :
          \/ t \in DOMAIN authTokens /\ authTokens'[t] = authTokens[t]
          \/ authTokens'[t] = row
    BY <2>1, <2>2, AppendedRow DEF AccountInv, TablesOK
  <2> QED BY <2>1, <2>2, <2>3 DEF TokensOfKnown
<1>4. ASSUME NEW q \in AppRequests, OTPCommit(q) \/ SweepCommit(q) PROVE TokensOfKnown
  <2>1. RequestOK(appRequests[q])
    BY DEF AccountInv, RequestsOK
  <2>2. CASE OTPCommit(q)
    <3>1. appRequests[q].token \in DOMAIN authTokens
      BY <2>1, <2>2 DEF RequestOK, OTPCommit
    <3> QED BY <1>1, <2>2, <3>1 DEF OTPCommit
  <2>3. CASE SweepCommit(q)
    <3>1. appRequests[q].op # "logout_all" => appRequests[q].token \in DOMAIN authTokens
      BY <2>1, <2>3 DEF RequestOK, SweepCommit, SweepOps
    <3> QED BY <1>1, <1>2, <2>3, <3>1 DEF SweepCommit
  <2> QED BY <1>4, <2>2, <2>3
<1>5. ASSUME NEW t \in DOMAIN authTokens, ConfirmEmailVerification(t) PROVE TokensOfKnown
  BY <1>1, <1>5 DEF ConfirmEmailVerification
<1> QED BY <1>2, <1>3, <1>4, <1>5
        DEF AppNext, SignupBegin, LoginRead, FactorRead, LogoutAllBegin, RefreshLock, OTPLock,
            ConfirmBegin, ChallengeLock, AppRequestFails, StartMFAEnrollment, ConfirmMFAEnrollment, DisableMFA,
            LoginCommit, SignupCommit, RefreshCommit, ReplayCommit, VerifyMFALogin,
            LogoutAppSession, RevokeAppSession

LEMMA KeysIssuedStep ==
  ASSUME AccountInv, KeysInv, AppNext
  PROVE  KeysIssued
<1>1. ASSUME NEW u \in AppUsers, NEW key \in Nat, NEW origin, createAppSession(u, 0, key, origin),
             key <= appUsers[u].key
      PROVE  KeysIssued
  <2>1. issuedKeys' = issuedKeys \cup {<<u, key>>} /\ Issuable(<<u, key>>)
    BY <1>1 DEF createAppSession, Issuable
  <2> QED BY <2>1 DEF KeysIssued
<1>2. ASSUME UNCHANGED issuedKeys PROVE KeysIssued
  BY <1>2 DEF KeysIssued
<1>3. ASSUME NEW q \in AppRequests, appRequests[q].op \in KeyOps
      PROVE  /\ appRequests[q].user \in AppUsers /\ appRequests[q].key \in Nat
             /\ appRequests[q].key <= appUsers[appRequests[q].user].key
  BY <1>3 DEF KeysInv, KeysOf
<1>4. ASSUME NEW q \in AppRequests, SignupCommit(q) PROVE KeysIssued
  <2>1. RequestOK(appRequests[q]) /\ appRequests[q].op = "signup"
    BY <1>4 DEF AccountInv, RequestsOK, SignupCommit
  <2>2. appRequests[q].user \in AppUsers
    BY <2>1 DEF RequestOK
  <2>3. 0 <= appUsers[appRequests[q].user].key
    BY <2>2 DEF AccountInv, TablesOK, UserRow
  <2>4. createAppSession(appRequests[q].user, 0, 0, <<"signup", Len(appSessions) + 1>>)
    BY <1>4 DEF SignupCommit
  <2> QED BY <1>1, <2>2, <2>3, <2>4
<1>5. ASSUME NEW q \in AppRequests, LoginCommit(q) \/ OTPCommit(q) PROVE KeysIssued
  <2>1. appRequests[q].op \in KeyOps
    BY <1>5 DEF LoginCommit, OTPCommit, KeyOps, LoginOps
  <2>2. PICK origin : SessionOrChallenge(appRequests[q], origin)
    BY <1>5 DEF LoginCommit, OTPCommit
  <2>3. \/ UNCHANGED issuedKeys
        \/ createAppSession(appRequests[q].user, 0, appRequests[q].key, origin)
    BY <2>2 DEF SessionOrChallenge
  <2> QED BY <1>1, <1>2, <1>3, <2>1, <2>3
<1>6. ASSUME NEW q \in AppRequests, VerifyMFALogin(q) PROVE KeysIssued
  <2>1. appRequests[q].op \in KeyOps
    BY <1>6 DEF VerifyMFALogin, KeyOps
  <2>2. PICK origin : createAppSession(appRequests[q].user, 0, appRequests[q].key, origin)
    BY <1>6 DEF VerifyMFALogin
  <2> QED BY <1>1, <1>3, <2>1, <2>2
<1>7. ASSUME NEW q \in AppRequests, RefreshCommit(q) PROVE KeysIssued
  <2>1. appRequests[q].op \in KeyOps
    BY <1>7 DEF RefreshCommit, KeyOps
  <2>2. issuedKeys' = issuedKeys \cup {<<appRequests[q].user, appRequests[q].key>>}
    BY <1>7 DEF RefreshCommit
  <2>3. Issuable(<<appRequests[q].user, appRequests[q].key>>)
    BY <1>3, <2>1 DEF Issuable
  <2> QED BY <2>2, <2>3 DEF KeysIssued
<1> QED BY <1>2, <1>4, <1>5, <1>6, <1>7
        DEF AppNext, SignupBegin, LoginRead, FactorRead, LogoutAllBegin, RefreshLock, OTPLock,
            ConfirmBegin, ChallengeLock, AppRequestFails, StartMFAEnrollment, ConfirmMFAEnrollment, DisableMFA,
            requestAuthToken, ReplayCommit, SweepCommit, LogoutAppSession, RevokeAppSession,
            ConfirmEmailVerification

LEMMA RequestsMoveStep ==
  ASSUME AccountInv, KeysInv, AppNext
  PROVE  RequestsMove
<1>1. ASSUME NEW q \in AppRequests, NEW r, Begin(q, r), KeysOf(r) PROVE RequestsMove
  BY <1>1 DEF Begin, RequestsMove, AccountInv, RequestsOK
<1>2. ASSUME NEW q \in AppRequests, Done(q) PROVE RequestsMove
  BY <1>2 DEF Done, RequestsMove, AccountInv, RequestsOK
<1>3. ASSUME UNCHANGED appRequests PROVE RequestsMove
  BY <1>3 DEF RequestsMove
<1>4. \A u \in AppUsers : appUsers[u].key \in Nat /\ appUsers[u].key <= appUsers[u].key
  BY DEF AccountInv, TablesOK, UserRow
<1>5. ASSUME NEW q \in AppRequests, NEW u \in AppUsers,
             \/ \E e \in Emails : SignupBegin(q, u, e)
             \/ LoginRead(q, u) \/ LogoutAllBegin(q, u)
      PROVE  RequestsMove
  <2>1. CASE \E e \in Emails : SignupBegin(q, u, e)
    BY <1>1, <2>1 DEF SignupBegin, KeysOf, KeyOps, LoginOps, SweepOps
  <2>2. CASE LoginRead(q, u)
    BY <1>1, <1>4, <2>2 DEF LoginRead, KeysOf, KeyOps, LoginOps, SweepOps
  <2>3. CASE LogoutAllBegin(q, u)
    BY <1>1, <2>3 DEF LogoutAllBegin, KeysOf, KeyOps, LoginOps, SweepOps, AccessToken
  <2> QED BY <1>5, <2>1, <2>2, <2>3
<1>6. ASSUME NEW q \in AppRequests, NEW s \in DOMAIN appSessions, RefreshLock(q, s) PROVE RequestsMove
  <2>1. appSessions[s].user \in AppUsers
    BY TableUsers DEF AccountInv
  <2>2. PICK op \in {"replay", "refresh"} :
          Begin(q, [op |-> op, session |-> s, user |-> appSessions[s].user,
                    key |-> appUsers[appSessions[s].user].key,
                    seen |-> {x \in DOMAIN appSessions : appSessions[x].family = appSessions[s].family},
                    locks |-> {<<"session", s>>}])
    BY <1>6 DEF RefreshLock
  <2> QED BY <1>1, <1>4, <2>1, <2>2 DEF KeysOf, KeyOps, LoginOps, SweepOps
<1>7. ASSUME NEW q \in AppRequests, NEW t \in DOMAIN authTokens, OTPLock(q, t) \/ ConfirmBegin(q, t)
      PROVE  RequestsMove
  <2>1. authTokens[t].user \in AppUsers /\ Known(authTokens[t].user)
    BY TableUsers DEF AccountInv, KeysInv
  <2>2. CASE OTPLock(q, t)
    BY <1>1, <1>4, <2>1, <2>2 DEF OTPLock, KeysOf, KeyOps, LoginOps, SweepOps
  <2>3. CASE ConfirmBegin(q, t)
    BY <1>1, <2>1, <2>3 DEF ConfirmBegin, KeysOf, KeyOps, LoginOps, SweepOps
  <2> QED BY <1>7, <2>2, <2>3
<1>8. ASSUME NEW q \in AppRequests, NEW c \in DOMAIN mfaChallenges, ChallengeLock(q, c)
      PROVE  RequestsMove
  <2>1. mfaChallenges[c].user \in AppUsers
    BY TableUsers DEF AccountInv
  <2> QED BY <1>1, <1>4, <1>8, <2>1 DEF ChallengeLock, KeysOf, KeyOps, LoginOps, SweepOps
<1>9. ASSUME NEW q \in AppRequests, NEW on \in BOOLEAN, FactorRead(q, on) PROVE RequestsMove
  <2>1. PICK w : /\ appRequests' = [appRequests EXCEPT ![q] = w]
                 /\ appRequests[q].op \in LoginOps /\ w.op = appRequests[q].op
                 /\ w.user = appRequests[q].user /\ w.key = appRequests[q].key
    BY <1>9, FactorReadMoves
  <2>2. /\ appRequests'[q] = w /\ \A p \in AppRequests \ {q} : appRequests'[p] = appRequests[p]
    BY <2>1 DEF AccountInv, RequestsOK
  <2>3. KeysOf(appRequests[q]) /\ appRequests[q].op \notin SweepOps
    BY <2>1 DEF KeysInv, LoginOps, SweepOps
  <2>4. KeysOf(w)
    BY <2>1, <2>3 DEF KeysOf, KeyOps
  <2> QED BY <2>2, <2>4 DEF RequestsMove
<1> QED BY <1>2, <1>3, <1>5, <1>6, <1>7, <1>8, <1>9
        DEF AppNext, SignupCommit, LoginCommit, RefreshCommit, ReplayCommit, OTPCommit, SweepCommit,
            VerifyMFALogin, AppRequestFails, LogoutAppSession, RevokeAppSession, StartMFAEnrollment,
            ConfirmMFAEnrollment, DisableMFA, requestAuthToken, ConfirmEmailVerification

\* A login by a provider creates a user with key 0, reads one with its key, or hands out what it read.
LEMMA ProviderKeys ==
  ASSUME AccountInv, FactorInv, OAuthInv, KeysInv, ProviderStep
  PROVE  UsersGrow /\ TokensOfKnown /\ KeysIssued /\ RequestsMove
<1>1. \A x \in AppUsers : appUsers[x].key \in Nat /\ appUsers[x].key <= MaxKeys
  BY DEF AccountInv, TablesOK, UserRow, KeysInv
<1>2. ASSUME UNCHANGED appUsers PROVE UsersGrow
  BY <1>1, <1>2 DEF UsersGrow, KeysInv, Known
<1>3. ASSUME NEW c \in callbacks, NEW u \in AppUsers, OAuthRegister(c, u)
      PROVE  UsersGrow /\ TokensOfKnown /\ KeysIssued /\ RequestsMove
  <2> DEFINE row == [email |-> c[2].email, verified |-> c[2].verified, key |-> 0]
  <2>1. /\ appUsers' = [appUsers EXCEPT ![u] = row] /\ ~Known(u)
        /\ issuedKeys' = issuedKeys \cup {<<u, 0>>} /\ UNCHANGED <<authTokens, appRequests>>
    BY <1>3 DEF OAuthRegister, CreateOAuthUser, createAppSession
  <2>2. row.email \in Emails /\ row.key = 0
    BY DEF OAuthInv, CallbacksOK, Consumed, Profiles
  <2> HIDE DEF row
  <2>3. appUsers'[u] = row /\ \A x \in AppUsers \ {u} : appUsers'[x] = appUsers[x]
    BY <2>1 DEF AccountInv, TablesOK
  <2>4. appUsers[u].key = 0
    BY <2>1 DEF KeysInv
  <2>5. Known(u)'
    BY <2>2, <2>3, AppSessionsAssumption DEF Known
  <2>6. \A x \in AppUsers \ {u} : (Known(x)' <=> Known(x)) /\ appUsers'[x].key = appUsers[x].key
    BY <2>3 DEF Known
  <2>7. appUsers'[u].key = 0 /\ 0 <= MaxKeys
    BY <2>2, <2>3, AppSessionsAssumption
  <2>8. UsersGrow
    BY <1>1, <2>4, <2>5, <2>6, <2>7 DEF UsersGrow, KeysInv
  <2>9. Issuable(<<u, 0>>)
    BY <1>1, <2>4 DEF Issuable
  <2> QED BY <2>1, <2>8, <2>9 DEF TokensOfKnown, KeysIssued, RequestsMove
<1>4. ASSUME NEW q \in AppRequests, NEW c \in callbacks, NEW u \in AppUsers, OAuthRead(q, c, u)
      PROVE  UsersGrow /\ TokensOfKnown /\ KeysIssued /\ RequestsMove
  <2> DEFINE r == [op |-> "oauth", callback |-> c, user |-> u, key |-> appUsers[u].key,
                   factor |-> "unread", enrolled |-> 0, locks |-> {<<"advisory", 0>>}]
  <2>1. /\ appRequests' = [appRequests EXCEPT ![q] = r]
        /\ UNCHANGED <<appUsers, authTokens, issuedKeys>>
    BY <1>4 DEF OAuthRead, Begin, accounts
  <2>2. KeysOf(r)
    BY <1>1 DEF KeysOf, KeyOps, LoginOps, SweepOps
  <2> HIDE DEF r
  <2>3. RequestsMove
    BY <2>1, <2>2 DEF RequestsMove, AccountInv, RequestsOK
  <2> QED BY <1>2, <2>1, <2>3 DEF TokensOfKnown, KeysIssued
<1>5. ASSUME NEW q \in AppRequests, OAuthCommit(q)
      PROVE  UsersGrow /\ TokensOfKnown /\ KeysIssued /\ RequestsMove
  <2>1. /\ UNCHANGED <<appUsers, authTokens>> /\ Done(q) /\ appRequests[q].op \in KeyOps
    BY <1>5 DEF OAuthCommit, accounts, KeyOps, LoginOps
  <2>2. \/ UNCHANGED issuedKeys
        \/ issuedKeys' = issuedKeys \cup {<<appRequests[q].user, appRequests[q].key>>}
    BY <1>5, OAuthCommitStep DEF createAppSession
  <2>3. Issuable(<<appRequests[q].user, appRequests[q].key>>)
    BY <2>1 DEF KeysInv, KeysOf, Issuable
  <2>4. RequestsMove
    BY <2>1 DEF Done, RequestsMove, AccountInv, RequestsOK
  <2> QED BY <1>2, <2>1, <2>2, <2>3, <2>4 DEF TokensOfKnown, KeysIssued
<1> QED BY <1>3, <1>4, <1>5 DEF ProviderStep

LEMMA KeysStand ==
  ASSUME TablesOK, KeysInv, UNCHANGED appVars
  PROVE  UsersGrow /\ TokensOfKnown /\ KeysIssued /\ RequestsMove
<1>1. /\ appUsers' = appUsers /\ issuedKeys' = issuedKeys /\ authTokens' = authTokens
      /\ appRequests' = appRequests
  BY DEF appVars, accounts
<1>2. \A x \in AppUsers : appUsers[x].key \in Nat
  BY DEF TablesOK, UserRow
<1>3. UsersGrow
  BY <1>1, <1>2 DEF UsersGrow, KeysInv, Known
<1> QED BY <1>1, <1>3 DEF TokensOfKnown, KeysIssued, RequestsMove

\* An account's step: one of the accounts' own, a login by a provider, or none.
LEMMA KeysMove ==
  ASSUME AccountsInv, KeysInv, [AccountsNext]_<<accountVars, orgVars>>
  PROVE  UsersGrow /\ TokensOfKnown /\ KeysIssued /\ RequestsMove
<1>1. CASE AppNext
  BY <1>1, UsersGrowStep, TokensOfKnownStep, KeysIssuedStep, RequestsMoveStep DEF AccountsInv
<1>2. CASE ProviderStep
  BY <1>2, ProviderKeys DEF AccountsInv
<1>3. CASE UNCHANGED appVars
  BY <1>3, KeysStand DEF AccountsInv, AccountInv
<1> QED BY <1>1, <1>2, <1>3, StepKinds

LEMMA KeysPreserved ==
  ASSUME AccountsInv, KeysInv, [AccountsNext]_<<accountVars, orgVars>>
  PROVE  KeysInv'
<1>1. TablesOK /\ TablesOK'
  BY AccountsInvPreserved DEF AccountsInv, AccountInv
<1> QED BY <1>1, KeysKept, KeysMove

LEMMA KeysInitially == AccountsInit => KeysInv
<1> SUFFICES ASSUME AppInit PROVE KeysInv
  BY DEF AccountsInit
<1>1. \A u \in AppUsers : appUsers[u].key = 0
  BY DEF AppInit
<1>2. \A q \in AppRequests : appRequests[q] = NoRequestYet
  BY DEF AppInit, AppNothingElse
<1>3. DOMAIN authTokens = {} /\ issuedKeys = {}
  BY DEF AppInit, AppNothingElse
<1>4. \A q \in AppRequests : KeysOf(appRequests[q])
  BY <1>2 DEF KeysOf, NoRequestYet, KeyOps, LoginOps, SweepOps
<1> QED BY <1>1, <1>3, <1>4, AppSessionsAssumption DEF KeysInv

KeysHold == AccountsInv /\ KeysInv

LEMMA KeysHoldAlways == AccountsSpec => []KeysHold
<1>1. AccountsInit => KeysHold
  BY AccountsInvInitially, KeysInitially DEF KeysHold
<1>2. KeysHold /\ [AccountsNext]_<<accountVars, orgVars>> => KeysHold'
  BY AccountsInvPreserved, KeysPreserved DEF KeysHold
<1> QED BY <1>1, <1>2, PTL DEF AccountsSpec

\* A sweep that is over and changed something was committed.
LEMMA WhoSwept ==
  ASSUME AccountInv, AppNext \/ ProviderStep, NEW q \in AppRequests, SweepDone(q)
  PROVE  SweepCommit(q)
<1>1. /\ appRequests[q].op \in SweepOps /\ appRequests'[q] = NoRequestYet
      /\ appRequests'[q] # appRequests[q] /\ Pending(q)
      /\ <<appUsers, appSessions, authTokens>>' # <<appUsers, appSessions, authTokens>>
  BY DEF SweepDone, SweepOps, NoRequestYet, Pending
<1>2. ASSUME NEW p \in AppRequests, NEW r, Begin(p, r) PROVE FALSE
  <2>1. p # q => appRequests'[q] = appRequests[q]
    BY <1>2 DEF Begin, AccountInv, RequestsOK
  <2> QED BY <1>1, <1>2, <2>1 DEF Begin
<1>3. ASSUME NEW p \in AppRequests, Done(p) PROVE p = q
  <2>1. p # q => appRequests'[q] = appRequests[q]
    BY <1>3 DEF Done, AccountInv, RequestsOK
  <2> QED BY <1>1, <2>1
<1>4. ASSUME UNCHANGED appRequests PROVE FALSE
  BY <1>1, <1>4
<1>5. ASSUME NEW p \in AppRequests, NEW on \in BOOLEAN, FactorRead(p, on) PROVE FALSE
  <2>1. appRequests[p].op \in LoginOps /\ \E w : appRequests' = [appRequests EXCEPT ![p] = w]
    BY <1>5 DEF FactorRead
  <2>2. p # q => appRequests'[q] = appRequests[q]
    BY <2>1 DEF AccountInv, RequestsOK
  <2> QED BY <1>1, <2>1, <2>2 DEF LoginOps, SweepOps
<1>6. ASSUME NEW p \in AppRequests, AppRequestFails(p) PROVE FALSE
  BY <1>1, <1>6 DEF AppRequestFails, accounts
<1>7. ASSUME NEW p \in AppRequests, NEW u \in AppUsers,
             \/ \E e \in Emails : SignupBegin(p, u, e)
             \/ LoginRead(p, u) \/ LogoutAllBegin(p, u)
             \/ \E c \in callbacks : OAuthRead(p, c, u)
      PROVE  FALSE
  BY <1>2, <1>7 DEF SignupBegin, LoginRead, LogoutAllBegin, OAuthRead
<1>8. ASSUME NEW p \in AppRequests,
             \/ \E s \in DOMAIN appSessions : RefreshLock(p, s)
             \/ \E x \in DOMAIN authTokens : OTPLock(p, x) \/ ConfirmBegin(p, x)
             \/ \E c \in DOMAIN mfaChallenges : ChallengeLock(p, c)
      PROVE  FALSE
  BY <1>2, <1>8 DEF RefreshLock, OTPLock, ConfirmBegin, ChallengeLock
<1>9. ASSUME NEW p \in AppRequests,
             \/ SignupCommit(p) \/ LoginCommit(p) \/ RefreshCommit(p) \/ ReplayCommit(p)
             \/ OTPCommit(p) \/ VerifyMFALogin(p) \/ OAuthCommit(p)
      PROVE  FALSE
  <2>1. p = q
    BY <1>3, <1>9 DEF SignupCommit, LoginCommit, RefreshCommit, ReplayCommit, OTPCommit,
                      VerifyMFALogin, OAuthCommit
  <2> QED BY <1>1, <1>9, <2>1
          DEF SweepOps, SignupCommit, LoginCommit, RefreshCommit, ReplayCommit, OTPCommit,
              VerifyMFALogin, OAuthCommit
<1>10. ASSUME NEW p \in AppRequests, SweepCommit(p) PROVE SweepCommit(q)
  <2>1. p = q
    BY <1>3, <1>10 DEF SweepCommit
  <2> QED BY <1>10, <2>1
<1>11. CASE AppNext
  BY <1>4, <1>5, <1>6, <1>7, <1>8, <1>9, <1>10, <1>11
     DEF AppNext, LogoutAppSession, RevokeAppSession, StartMFAEnrollment, ConfirmMFAEnrollment,
         DisableMFA, requestAuthToken, ConfirmEmailVerification
<1>12. CASE ProviderStep
  BY <1>4, <1>7, <1>9, <1>12 DEF ProviderStep, OAuthRegister
<1> QED BY <1>11, <1>12

\* LogoutAllAppSessions and a new password or email address (core/app_auth.go) end what was issued
\* as well: when they commit, no access token their user was ever given is good any more, nor is the
\* one a refresh or a login under way is about to hand out.
THEOREM AccessTokensAreEnded == AccountsSpec => AccessTokensEnd
<1> DEFINE A == \A q \in AppRequests, u \in AppUsers : (SweepDone(q) /\ appRequests[q].user = u) =>
                  /\ ~AccessToken(u)'
                  /\ \A p \in AppRequests :
                       (appRequests'[p].op \in KeyOps /\ appRequests'[p].user = u) =>
                         appRequests'[p].key # appUsers'[u].key
<1>1. ASSUME KeysHold, [AccountsNext]_<<accountVars, orgVars>>, AppNext \/ ProviderStep PROVE A
  <2> SUFFICES ASSUME NEW q \in AppRequests, NEW u \in AppUsers, SweepDone(q), appRequests[q].user = u
               PROVE  /\ ~AccessToken(u)'
                      /\ \A p \in AppRequests :
                           (appRequests'[p].op \in KeyOps /\ appRequests'[p].user = u) =>
                             appRequests'[p].key # appUsers'[u].key
    OBVIOUS
  <2>1. appUsers'[u].key = appUsers[u].key + 1
    BY <1>1, WhoSwept, SweepRaises DEF KeysHold, AccountsInv
  <2>2. KeysIssued /\ RequestsMove
    BY <1>1, KeysMove DEF KeysHold
  <2>3. \A i \in issuedKeys' : Issuable(i)
    BY <1>1, <2>2 DEF KeysIssued, KeysHold, KeysInv
  <2>4. appUsers[u].key \in Nat
    BY <1>1 DEF KeysHold, AccountsInv, AccountInv, TablesOK, UserRow
  <2>5. <<u, appUsers'[u].key>> \notin issuedKeys'
    BY <2>1, <2>3, <2>4 DEF Issuable
  <2>6. ASSUME NEW p \in AppRequests, appRequests'[p].op \in KeyOps, appRequests'[p].user = u
        PROVE  appRequests'[p].key # appUsers'[u].key
    <3>1. appRequests'[p] # NoRequestYet
      BY <2>6 DEF NoRequestYet, KeyOps, LoginOps
    <3>2. KeysOf(appRequests[p])
      BY <1>1 DEF KeysHold, KeysInv
    <3>3. appRequests'[p].key \in Nat /\ appRequests'[p].key <= appUsers[u].key
      BY <2>2, <2>6, <3>1, <3>2 DEF RequestsMove, KeysOf
    <3> QED BY <2>1, <2>4, <3>3
  <2> QED BY <2>5, <2>6 DEF AccessToken
<1> HIDE DEF A
<1>2. KeysHold /\ [AccountsNext]_<<accountVars, orgVars>> => [A]_appVars
  BY <1>1, StepKinds
<1>3. AccountsSpec => [][A]_appVars
  BY <1>2, KeysHoldAlways, PTL DEF AccountsSpec
<1> QED BY <1>3 DEF AccessTokensEnd, A

------------------------------------------------------------------------------
(* Bounds and types *)

RequestOps == SweepOps \cup {"none", "signup", "oauth", "login", "login_otp", "refresh", "replay",
                             "challenge"}
SessionsFit == \A s \in DOMAIN appSessions :
                 s \in SessionIds /\ appSessions[s].replacedBy \in 0 .. MaxAppSessions
TokensFit == \A t \in DOMAIN authTokens : t <= MaxAuthTokens
CodesFit == \A u \in AppUsers : /\ enrolments[u] <= MaxEnrolments
                                /\ \A code \in recoveryCodes[u] : code # 0
OpsFit == \A q \in AppRequests : appRequests[q].op \in RequestOps
SizesInv == SessionsFit /\ TokensFit /\ CodesFit /\ OpsFit

LEMMA SessionsFitOpened ==
  ASSUME SessionsFit, NEW u, NEW kind, NEW id, OpensSession(u, kind, id)
  PROVE  SessionsFit'
<1> PICK n : n = Len(appSessions) + 1
  OBVIOUS
<1>1. /\ n \in SessionIds /\ DOMAIN appSessions' = DOMAIN appSessions \cup {n}
      /\ \A s \in DOMAIN appSessions : appSessions'[s] = appSessions[s]
      /\ appSessions'[n].replacedBy = 0
  BY DEF OpensSession
<1>2. 0 \in 0 .. MaxAppSessions
  BY AppSessionsAssumption
<1>3. SessionIds' = SessionIds
  BY DEF SessionIds
<1> QED BY <1>1, <1>2, <1>3 DEF SessionsFit

LEMMA SessionsFitStep ==
  ASSUME AccountInv, FactorInv, SessionsFit, AppNext
  PROVE  SessionsFit'
<1>1. ASSUME NEW q \in AppRequests, RefreshCommit(q) PROVE SessionsFit'
  <2> PICK n, s : n = Len(appSessions) + 1 /\ s = appRequests[q].session
    OBVIOUS
  <2>1. /\ DOMAIN appSessions' = DOMAIN appSessions \cup {n} /\ n \in Nat \ {0}
        /\ s \in DOMAIN appSessions
        /\ \A x \in DOMAIN appSessions \ {s} : appSessions'[x] = appSessions[x]
        /\ appSessions'[s].replacedBy = n
        /\ appSessions'[n] = [user |-> appSessions[s].user, family |-> appSessions[s].family,
                              revoked |-> FALSE, replacedBy |-> 0, origin |-> <<"refresh", s>>]
    BY <1>1, RotatedSession DEF AccountInv, RequestsOK
  <2>2. n <= MaxAppSessions
    BY <1>1 DEF RefreshCommit
  <2>3. n \in SessionIds /\ n \in 0 .. MaxAppSessions /\ 0 \in 0 .. MaxAppSessions
    BY <2>1, <2>2, AppSessionsAssumption DEF SessionIds
  <2>4. appSessions'[n].replacedBy = 0
    BY <2>1
  <2> QED BY <2>1, <2>3, <2>4 DEF SessionsFit, SessionIds
<1>2. ASSUME NEW S, appSessions' = Revoked(S) PROVE SessionsFit'
  BY <1>2, RevokedSessions DEF AccountInv, SessionsFit, SessionIds
<1>3. CASE UNCHANGED appSessions
  BY <1>3 DEF SessionsFit, SessionIds
<1> QED BY <1>1, <1>2, <1>3, SessionsFitOpened, SessionSteps

LEMMA TokensFitStep ==
  ASSUME AccountInv, TokensFit, AppNext
  PROVE  TokensFit'
<1>1. ASSUME NEW t \in DOMAIN authTokens, UseToken(t) PROVE TokensFit'
  BY <1>1 DEF UseToken, TokensFit
<1>2. ASSUME UNCHANGED authTokens PROVE TokensFit'
  BY <1>2 DEF TokensFit
<1>3. ASSUME NEW u \in AppUsers, NEW type \in TokenTypes, NEW e \in Emails, requestAuthToken(u, type, e)
      PROVE  TokensFit'
  <2> DEFINE row == [user |-> u, type |-> type, used |-> FALSE, mailedTo |-> e]
  <2>1. authTokens' = Append(authTokens, row) /\ Len(authTokens) < MaxAuthTokens
    BY <1>3 DEF requestAuthToken
  <2>2. row \in TokenRow /\ Len(authTokens) \in Nat
    BY DEF TokenRow, AccountInv, TablesOK
  <2> HIDE DEF row
  <2>3. \A t \in DOMAIN authTokens' : t \in DOMAIN authTokens \/ t = Len(authTokens) + 1
    BY <2>1, <2>2, AppendedRow DEF AccountInv, TablesOK
  <2>4. Len(authTokens) + 1 <= MaxAuthTokens
    BY <2>1, <2>2, AppSessionsAssumption
  <2> QED BY <2>3, <2>4 DEF TokensFit
<1>4. ASSUME NEW q \in AppRequests, OTPCommit(q) \/ SweepCommit(q) PROVE TokensFit'
  <2>1. RequestOK(appRequests[q])
    BY DEF AccountInv, RequestsOK
  <2>2. CASE OTPCommit(q)
    <3>1. appRequests[q].token \in DOMAIN authTokens
      BY <2>1, <2>2 DEF RequestOK, OTPCommit
    <3> QED BY <1>1, <2>2, <3>1 DEF OTPCommit
  <2>3. CASE SweepCommit(q)
    <3>1. appRequests[q].op # "logout_all" => appRequests[q].token \in DOMAIN authTokens
      BY <2>1, <2>3 DEF RequestOK, SweepCommit, SweepOps
    <3> QED BY <1>1, <1>2, <2>3, <3>1 DEF SweepCommit
  <2> QED BY <1>4, <2>2, <2>3
<1>5. ASSUME NEW t \in DOMAIN authTokens, ConfirmEmailVerification(t) PROVE TokensFit'
  BY <1>1, <1>5 DEF ConfirmEmailVerification
<1> QED BY <1>2, <1>3, <1>4, <1>5
        DEF AppNext, SignupBegin, LoginRead, FactorRead, LogoutAllBegin, RefreshLock, OTPLock,
            ConfirmBegin, ChallengeLock, AppRequestFails, StartMFAEnrollment, ConfirmMFAEnrollment, DisableMFA,
            LoginCommit, SignupCommit, RefreshCommit, ReplayCommit, VerifyMFALogin,
            LogoutAppSession, RevokeAppSession

LEMMA CodesFitStep ==
  ASSUME AccountInv, CodesFit, AppNext
  PROVE  CodesFit'
<1>1. ASSUME UNCHANGED <<recoveryCodes, enrolments>> PROVE CodesFit'
  BY <1>1 DEF CodesFit
<1>2. ASSUME NEW u \in AppUsers, NEW set, recoveryCodes' = [recoveryCodes EXCEPT ![u] = set],
             \A code \in set : code # 0, UNCHANGED enrolments
      PROVE  CodesFit'
  BY <1>2 DEF CodesFit, AccountInv, OriginInv, CodesOK
<1>3. ASSUME NEW u \in AppUsers, DisableMFA(u) PROVE CodesFit'
  BY <1>2, <1>3 DEF DisableMFA
<1>4. ASSUME NEW u \in AppUsers, ConfirmMFAEnrollment(u) PROVE CodesFit'
  <2>1. /\ enrolments[u] < MaxEnrolments /\ enrolments' = [enrolments EXCEPT ![u] = enrolments[u] + 1]
        /\ recoveryCodes' = [recoveryCodes EXCEPT ![u] = {enrolments[u] + 1}]
    BY <1>4 DEF ConfirmMFAEnrollment
  <2>2. /\ enrolments \in [AppUsers -> Nat] /\ recoveryCodes \in [AppUsers -> SUBSET Nat]
    BY DEF AccountInv, OriginInv, CodesOK
  <2>3. enrolments[u] + 1 <= MaxEnrolments /\ enrolments[u] + 1 # 0
    BY <2>1, <2>2, AppSessionsAssumption
  <2> QED BY <2>1, <2>2, <2>3 DEF CodesFit
<1>5. ASSUME NEW q \in AppRequests, VerifyMFALogin(q) PROVE CodesFit'
  <2> PICK u : u = appRequests[q].user
    OBVIOUS
  <2>1. RequestOK(appRequests[q]) /\ appRequests[q].op = "challenge"
    BY <1>5 DEF AccountInv, RequestsOK, VerifyMFALogin
  <2>2. u \in AppUsers
    BY <2>1 DEF RequestOK
  <2>3. UNCHANGED enrolments
    BY <1>5 DEF VerifyMFALogin
  <2>4. \/ UNCHANGED recoveryCodes
        \/ \E code \in recoveryCodes[u] :
             recoveryCodes' = [recoveryCodes EXCEPT ![u] = recoveryCodes[u] \ {code}]
    BY <1>5 DEF VerifyMFALogin
  <2> QED BY <1>1, <1>2, <2>2, <2>3, <2>4 DEF CodesFit
<1> QED BY <1>1, <1>3, <1>4, <1>5
        DEF AppNext, SignupBegin, LoginRead, FactorRead, LogoutAllBegin, RefreshLock, OTPLock,
            ConfirmBegin, ChallengeLock, AppRequestFails, StartMFAEnrollment, requestAuthToken, LoginCommit,
            SignupCommit, RefreshCommit, ReplayCommit, OTPCommit, SweepCommit, LogoutAppSession,
            RevokeAppSession, ConfirmEmailVerification, accounts

LEMMA OpsFitStep ==
  ASSUME AccountInv, OpsFit, AppNext
  PROVE  OpsFit'
<1>1. ASSUME NEW q \in AppRequests, NEW r, Begin(q, r), r.op \in RequestOps PROVE OpsFit'
  BY <1>1 DEF Begin, OpsFit, AccountInv, RequestsOK, RequestOps, SweepOps
<1>2. ASSUME NEW q \in AppRequests, Done(q) PROVE OpsFit'
  BY <1>2 DEF Done, OpsFit, AccountInv, RequestsOK, RequestOps, NoRequestYet, SweepOps
<1>3. ASSUME UNCHANGED appRequests PROVE OpsFit'
  BY <1>3 DEF OpsFit, RequestOps, SweepOps
<1>4. ASSUME NEW q \in AppRequests, NEW u \in AppUsers,
             \/ \E e \in Emails : SignupBegin(q, u, e)
             \/ LoginRead(q, u) \/ LogoutAllBegin(q, u)
      PROVE  OpsFit'
  BY <1>1, <1>4 DEF SignupBegin, LoginRead, LogoutAllBegin, RequestOps, SweepOps
<1>5. ASSUME NEW q \in AppRequests, NEW s \in DOMAIN appSessions, RefreshLock(q, s) PROVE OpsFit'
  BY <1>1, <1>5 DEF RefreshLock, RequestOps
<1>6. ASSUME NEW q \in AppRequests, NEW t \in DOMAIN authTokens, OTPLock(q, t) \/ ConfirmBegin(q, t)
      PROVE  OpsFit'
  BY <1>1, <1>6 DEF OTPLock, ConfirmBegin, RequestOps, SweepOps
<1>7. ASSUME NEW q \in AppRequests, NEW c \in DOMAIN mfaChallenges, ChallengeLock(q, c)
      PROVE  OpsFit'
  BY <1>1, <1>7 DEF ChallengeLock, RequestOps
<1>8. ASSUME NEW q \in AppRequests, NEW on \in BOOLEAN, FactorRead(q, on) PROVE OpsFit'
  <2>1. PICK w : /\ appRequests' = [appRequests EXCEPT ![q] = w]
                 /\ appRequests[q].op \in LoginOps /\ w.op = appRequests[q].op
    BY <1>8, FactorReadMoves
  <2>2. /\ appRequests'[q] = w /\ \A p \in AppRequests \ {q} : appRequests'[p] = appRequests[p]
    BY <2>1 DEF AccountInv, RequestsOK
  <2> QED BY <2>1, <2>2 DEF OpsFit, RequestOps, SweepOps
<1> QED BY <1>2, <1>3, <1>4, <1>5, <1>6, <1>7, <1>8
        DEF AppNext, SignupCommit, LoginCommit, RefreshCommit, ReplayCommit, OTPCommit, SweepCommit,
            VerifyMFALogin, AppRequestFails, LogoutAppSession, RevokeAppSession, StartMFAEnrollment,
            ConfirmMFAEnrollment, DisableMFA, requestAuthToken, ConfirmEmailVerification

LEMMA SizesStand == ASSUME SizesInv, UNCHANGED appVars PROVE SizesInv'
<1>1. /\ appSessions' = appSessions /\ authTokens' = authTokens /\ appRequests' = appRequests
      /\ recoveryCodes' = recoveryCodes /\ enrolments' = enrolments
  BY DEF appVars, accounts
<1> QED BY <1>1
    DEF SizesInv, SessionsFit, TokensFit, CodesFit, OpsFit, SessionIds, RequestOps, SweepOps

LEMMA ProviderSizes ==
  ASSUME AccountsInv, SizesInv, ProviderStep
  PROVE  SizesInv'
<1>1. UNCHANGED <<authTokens, recoveryCodes, enrolments>>
  BY DEF ProviderStep, OAuthRegister, OAuthRead, OAuthCommit, accounts
<1>2. TokensFit' /\ CodesFit'
  BY <1>1 DEF SizesInv, TokensFit, CodesFit
<1>3. OpsFit'
  <2>1. \A q \in AppRequests : appRequests'[q].op \in {appRequests[q].op, "oauth", "none"}
    <3>1. DOMAIN appRequests = AppRequests
      BY DEF AccountsInv, AccountInv, RequestsOK
    <3> DEFINE Goal == \A q \in AppRequests : appRequests'[q].op \in {appRequests[q].op, "oauth", "none"}
    <3>2. ASSUME NEW p \in AppRequests, NEW r, appRequests' = [appRequests EXCEPT ![p] = r],
                 r.op \in {"oauth", "none"}
          PROVE  Goal
      BY <3>1, <3>2
    <3>3. CASE UNCHANGED appRequests
      BY <3>3
    <3>4. ASSUME NEW p \in AppRequests, NEW c \in callbacks, NEW u \in AppUsers, OAuthRead(p, c, u)
          PROVE  Goal
      <4> DEFINE r == [op |-> "oauth", callback |-> c, user |-> u, key |-> appUsers[u].key,
                       factor |-> "unread", enrolled |-> 0, locks |-> {<<"advisory", 0>>}]
      <4>1. appRequests' = [appRequests EXCEPT ![p] = r]
        BY <3>4 DEF OAuthRead, Begin
      <4>2. r.op = "oauth"
        OBVIOUS
      <4> HIDE DEF r, Goal
      <4> QED BY <4>1, <4>2, <3>2
    <3>5. ASSUME NEW p \in AppRequests, OAuthCommit(p) PROVE Goal
      <4>1. appRequests' = [appRequests EXCEPT ![p] = NoRequestYet]
        BY <3>5 DEF OAuthCommit, Done
      <4>2. NoRequestYet.op = "none"
        BY DEF NoRequestYet
      <4> HIDE DEF Goal
      <4> QED BY <4>1, <4>2, <3>2
    <3> QED BY <3>2, <3>3, <3>4, <3>5 DEF ProviderStep, OAuthRegister
  <2> QED BY <2>1 DEF SizesInv, OpsFit, RequestOps, SweepOps
<1>4. SessionsFit'
  <2>1. CASE UNCHANGED appSessions
    BY <2>1 DEF SizesInv, SessionsFit, SessionIds
  <2>2. CASE \E u \in AppUsers, id \in Nat : OpensSession(u, "oauth", id)
    BY <2>2, SessionsFitOpened DEF SizesInv
  <2> QED BY <2>1, <2>2, ProviderOpens DEF AccountsInv
<1> QED BY <1>2, <1>3, <1>4 DEF SizesInv

LEMMA SizesPreserved ==
  ASSUME AccountsInv, SizesInv, [AccountsNext]_<<accountVars, orgVars>>
  PROVE  SizesInv'
<1>1. CASE AppNext
  BY <1>1, SessionsFitStep, TokensFitStep, CodesFitStep, OpsFitStep DEF AccountsInv, SizesInv
<1> QED BY <1>1, ProviderSizes, SizesStand, StepKinds

LEMMA SizesInitially == AccountsInit => SizesInv
<1> SUFFICES ASSUME AppInit PROVE SizesInv
  BY DEF AccountsInit
<1>1. DOMAIN appSessions = {} /\ DOMAIN authTokens = {}
  BY DEF AppInit, AppNothingElse
<1>2. \A u \in AppUsers : enrolments[u] = 0 /\ recoveryCodes[u] = {}
  BY DEF AppInit, AppNothingElse
<1>3. \A q \in AppRequests : appRequests[q].op = "none"
  BY DEF AppInit, AppNothingElse, NoRequestYet
<1> QED BY <1>1, <1>2, <1>3, AppSessionsAssumption
    DEF SizesInv, SessionsFit, TokensFit, CodesFit, OpsFit, RequestOps

OAuthSizes ==
  /\ DOMAIN oauthStates \subseteq 1 .. MaxOAuthStates
  /\ oauthAccounts \in [ProviderUsers -> AppUsers \cup {NoAppUser}]
  /\ callbacks \subseteq (1 .. MaxOAuthStates) \X Profiles
OrgSizes ==
  /\ orgs \subseteq Orgs
  /\ DOMAIN invitations \subseteq 1 .. MaxInvitations
  /\ accepting \subseteq (1 .. MaxInvitations) \X AppUsers \X Emails

LEMMA OAuthSizesPreserved ==
  ASSUME AccountsInv, OAuthSizes, [AccountsNext]_<<accountVars, orgVars>>
  PROVE  OAuthSizes'
<1>1. CASE ProviderStep
  <2>1. /\ oauthStates' = oauthStates /\ callbacks' \subseteq callbacks
    BY <1>1 DEF ProviderStep, OAuthRegister, OAuthRead, OAuthCommit
  <2>2. \/ oauthAccounts' = oauthAccounts
        \/ \E u \in AppUsers : \E p : oauthAccounts' = [oauthAccounts EXCEPT ![p] = u]
    <3>1. \A q \in AppRequests : OAuthCommit(q) => appRequests[q].user \in AppUsers
      BY DEF OAuthCommit, AccountsInv, AccountInv, RequestsOK, RequestOK, LoginOps
    <3> QED BY <1>1, <3>1 DEF ProviderStep, OAuthRegister, OAuthRead, OAuthCommit
  <2> QED BY <2>1, <2>2 DEF OAuthSizes, Profiles
<1>2. CASE StartOAuthLogin
  <2>1. /\ oauthStates' = Append(oauthStates, FALSE) /\ oauthStates \in Seq(BOOLEAN)
        /\ Len(oauthStates) < MaxOAuthStates
        /\ UNCHANGED <<oauthAccounts, callbacks>>
    BY <1>2 DEF StartOAuthLogin, AccountsInv, OAuthInv
  <2>2. Len(oauthStates') = Len(oauthStates) + 1 /\ DOMAIN oauthStates' = 1 .. Len(oauthStates')
    BY <2>1
  <2>3. DOMAIN oauthStates' \subseteq 1 .. MaxOAuthStates
    BY <2>1, <2>2, OAuthAssumption
  <2> QED BY <2>1, <2>3 DEF OAuthSizes, Profiles
<1>3. ASSUME NEW i \in DOMAIN oauthStates, NEW p \in Profiles, consumeOAuthState(i, p) PROVE OAuthSizes'
  <2>1. /\ oauthStates' = [oauthStates EXCEPT ![i] = TRUE] /\ oauthAccounts' = oauthAccounts
        /\ callbacks' = callbacks \cup {<<i, p>>}
    BY <1>3 DEF consumeOAuthState
  <2> QED BY <2>1 DEF OAuthSizes, Profiles
<1>4. ASSUME NEW c \in callbacks, CallbackFails(c) PROVE OAuthSizes'
  BY <1>4 DEF CallbackFails, OAuthSizes, Profiles
<1>5. CASE UNCHANGED oauthVars
  BY <1>5 DEF oauthVars, OAuthSizes, Profiles
<1> QED BY <1>1, <1>2, <1>3, <1>4, <1>5, StepKinds

LEMMA OrgSizesPreserved ==
  ASSUME AccountsInv, OrgSizes, [AccountsNext]_<<accountVars, orgVars>>
  PROVE  OrgSizes'
<1>1. ASSUME NEW o \in Orgs, NEW u \in AppUsers, CreateOrganization(o, u) PROVE OrgSizes'
  BY <1>1 DEF CreateOrganization, OrgSizes
<1>2. ASSUME NEW o \in Orgs, NEW u \in AppUsers, NEW e \in Emails, NEW role \in InviteRoles,
             CreateOrganizationInvitation(o, u, e, role)
      PROVE  OrgSizes'
  <2> DEFINE row == [org |-> o, email |-> e, role |-> role, accepted |-> FALSE]
  <2>1. /\ invitations' = Append(invitations, row) /\ Len(invitations) < MaxInvitations
        /\ UNCHANGED <<orgs, accepting>>
    BY <1>2 DEF CreateOrganizationInvitation
  <2>2. row \in InvitationRow /\ invitations \in Seq(InvitationRow)
    BY DEF InvitationRow, AccountsInv, OrgInv, OrgTables
  <2> HIDE DEF row
  <2>3. Len(invitations') = Len(invitations) + 1 /\ DOMAIN invitations' = 1 .. Len(invitations')
    BY <2>1, <2>2
  <2>4. DOMAIN invitations' \subseteq 1 .. MaxInvitations
    BY <2>1, <2>2, <2>3, OrganizationsAssumption
  <2> QED BY <2>1, <2>4 DEF OrgSizes
<1>3. ASSUME NEW i \in DOMAIN invitations, NEW u \in AppUsers, AcceptRead(i, u) PROVE OrgSizes'
  <2>1. appUsers[u].email \in Emails
    <3>1. appUsers[u] \in UserRow /\ appUsers[u].email # NoEmail
      BY <1>3 DEF AcceptRead, AccessToken, Known, AccountsInv, AccountInv, TablesOK
    <3> QED BY <3>1 DEF UserRow
  <2>2. /\ accepting' = accepting \cup {<<i, u, appUsers[u].email>>}
        /\ UNCHANGED <<orgs, invitations>>
    BY <1>3 DEF AcceptRead
  <2> QED BY <2>1, <2>2 DEF OrgSizes
<1>4. ASSUME NEW a \in accepting, AcceptOrganizationInvitation(a) PROVE OrgSizes'
  <2>1. /\ \E row : invitations' = [invitations EXCEPT ![a[1]] = row]
        /\ accepting' = accepting \ {a} /\ orgs' = orgs
    BY <1>4 DEF AcceptOrganizationInvitation, Join
  <2> QED BY <2>1 DEF OrgSizes
<1>5. ASSUME NEW a \in accepting, AcceptFails(a) PROVE OrgSizes'
  BY <1>5 DEF AcceptFails, OrgSizes
<1>6. CASE UNCHANGED orgVars
  BY <1>6 DEF orgVars, OrgSizes
<1> QED BY <1>1, <1>2, <1>3, <1>4, <1>5, <1>6, StepKinds DEF OrgNext

TypesInv == AccountsInv /\ KeysInv /\ SizesInv /\ OAuthSizes /\ OrgSizes

LEMMA TypesFollow == TypesInv => AppTypeOK /\ OAuthTypeOK /\ OrgTypeOK
<1> SUFFICES ASSUME TypesInv PROVE AppTypeOK /\ OAuthTypeOK /\ OrgTypeOK
  OBVIOUS
<1>1. TablesOK /\ FactorInv /\ CodesOK /\ OAuthInv /\ OrgInv
  BY DEF TypesInv, AccountsInv, AccountInv, OriginInv
<1>2. appUsers \in [AppUsers -> [email : Emails \cup {NoEmail}, verified : BOOLEAN, key : 0 .. MaxKeys]]
  <2>1. ASSUME NEW u \in AppUsers
        PROVE  appUsers[u] \in [email : Emails \cup {NoEmail}, verified : BOOLEAN, key : 0 .. MaxKeys]
    <3>1. appUsers[u] \in UserRow /\ appUsers[u].key <= MaxKeys
      BY <1>1 DEF TablesOK, TypesInv, KeysInv
    <3> QED BY <3>1, AppSessionsAssumption DEF UserRow
  <2>2. appUsers \in [AppUsers -> UserRow]
    BY <1>1 DEF TablesOK
  <2> QED BY <2>1, <2>2
<1>3. /\ Len(appSessions) <= MaxAppSessions
      /\ \A s \in DOMAIN appSessions :
           appSessions[s] \in [user : AppUsers, family : SessionIds, revoked : BOOLEAN,
                               replacedBy : 0 .. MaxAppSessions,
                               origin : {"password", "signup", "oauth", "token", "challenge", "code",
                                         "refresh"} \X Nat]
  <2>1. appSessions \in Seq(SessionRow) /\ DOMAIN appSessions \subseteq SessionIds
    BY <1>1 DEF TablesOK, TypesInv, SizesInv, SessionsFit
  <2>2. Len(appSessions) <= MaxAppSessions
    BY <2>1, AppSessionsAssumption DEF SessionIds
  <2>3. ASSUME NEW s \in DOMAIN appSessions
        PROVE  appSessions[s] \in [user : AppUsers, family : SessionIds, revoked : BOOLEAN,
                                   replacedBy : 0 .. MaxAppSessions, origin : OriginKinds \X Nat]
    <3>1. /\ appSessions[s] \in SessionRow /\ appSessions[s].replacedBy \in 0 .. MaxAppSessions
          /\ appSessions[s].family \in SessionIds
      BY <2>1 DEF TypesInv, SizesInv, SessionsFit, AccountsInv, AccountInv, FamilyInv
    <3> QED BY <3>1 DEF SessionRow
  <2> QED BY <2>2, <2>3 DEF OriginKinds
<1>4. /\ Len(authTokens) <= MaxAuthTokens
      /\ \A t \in DOMAIN authTokens :
           authTokens[t] \in [user : AppUsers, type : TokenTypes, used : BOOLEAN, mailedTo : Emails]
  <2>1. authTokens \in Seq(TokenRow) /\ \A t \in DOMAIN authTokens : t <= MaxAuthTokens
    BY <1>1 DEF TablesOK, TypesInv, SizesInv, TokensFit
  <2>2. Len(authTokens) <= MaxAuthTokens
    BY <2>1, AppSessionsAssumption
  <2>3. \A t \in DOMAIN authTokens : authTokens[t] \in TokenRow
    BY <2>1
  <2> QED BY <2>2, <2>3 DEF TokenRow
<1>5. \A c \in DOMAIN mfaChallenges : mfaChallenges[c] \in [user : AppUsers, used : BOOLEAN]
  <2>1. \A c \in DOMAIN mfaChallenges : mfaChallenges[c] \in ChallengeRow
    BY <1>1 DEF TablesOK
  <2> QED BY <2>1 DEF ChallengeRow
<1>6. /\ recoveryCodes \in [AppUsers -> SUBSET (1 .. MaxEnrolments)]
      /\ enrolments \in [AppUsers -> 0 .. MaxEnrolments]
  <2>1. /\ enrolments \in [AppUsers -> Nat] /\ recoveryCodes \in [AppUsers -> SUBSET Nat]
        /\ \A u \in AppUsers : \A code \in recoveryCodes[u] : code <= enrolments[u]
        /\ \A u \in AppUsers : /\ enrolments[u] <= MaxEnrolments
                               /\ \A code \in recoveryCodes[u] : code # 0
    BY <1>1 DEF CodesOK, TypesInv, SizesInv, CodesFit
  <2>2. \A u \in AppUsers : enrolments[u] \in 0 .. MaxEnrolments
    BY <2>1, AppSessionsAssumption
  <2>3. ASSUME NEW u \in AppUsers PROVE recoveryCodes[u] \subseteq 1 .. MaxEnrolments
    <3>1. \A code \in recoveryCodes[u] : code \in Nat /\ code # 0 /\ code <= enrolments[u]
      BY <2>1
    <3>2. enrolments[u] \in Nat /\ enrolments[u] <= MaxEnrolments
      BY <2>1
    <3> QED BY <3>1, <3>2, AppSessionsAssumption
  <2> QED BY <2>1, <2>2, <2>3
<1>7. issuedKeys \subseteq AppUsers \X (0 .. MaxKeys)
  <2>1. ASSUME NEW i \in issuedKeys PROVE i \in AppUsers \X (0 .. MaxKeys)
    <3>1. i \in AppUsers \X Nat /\ i[2] <= appUsers[i[1]].key
      BY DEF TypesInv, KeysInv, Issuable
    <3>2. appUsers[i[1]].key \in 0 .. MaxKeys
      BY <1>2, <3>1
    <3> QED BY <3>1, <3>2, AppSessionsAssumption
  <2> QED BY <2>1
<1>8. AppTypeOK
  BY <1>1, <1>2, <1>3, <1>4, <1>5, <1>6, <1>7
     DEF AppTypeOK, FactorInv, TypesInv, SizesInv, OpsFit, RequestOps
<1>9. OAuthTypeOK
  <2>1. oauthStates \in Seq(BOOLEAN) /\ DOMAIN oauthStates \subseteq 1 .. MaxOAuthStates
    BY <1>1 DEF OAuthInv, TypesInv, OAuthSizes
  <2>2. Len(oauthStates) <= MaxOAuthStates
    BY <2>1, OAuthAssumption
  <2> QED BY <2>1, <2>2 DEF OAuthTypeOK, TypesInv, OAuthSizes
<1>10. OrgTypeOK
  <2>1. /\ invitations \in Seq(InvitationRow) /\ DOMAIN invitations \subseteq 1 .. MaxInvitations
        /\ acceptances \in Seq(Nat \X AppUsers)
        /\ \A k \in DOMAIN acceptances : acceptances[k][1] \in DOMAIN invitations
    BY <1>1 DEF OrgInv, OrgTables, TypesInv, OrgSizes
  <2>2. Len(invitations) <= MaxInvitations
    BY <2>1, OrganizationsAssumption
  <2>3. \A i \in DOMAIN acceptances : acceptances[i] \in (1 .. MaxInvitations) \X AppUsers
    BY <2>1
  <2>4. \A i \in DOMAIN invitations :
          invitations[i] \in [org : Orgs, email : Emails, role : InviteRoles, accepted : BOOLEAN]
    <3>1. \A i \in DOMAIN invitations : invitations[i] \in InvitationRow
      BY <2>1
    <3> QED BY <3>1 DEF InvitationRow
  <2> QED BY <1>1, <2>2, <2>3, <2>4 DEF OrgTypeOK, OrgInv, OrgTables, Roles, TypesInv, OrgSizes
<1> QED BY <1>8, <1>9, <1>10

\* Every table of the accounts (core/app_auth.go, mfa.go, oauth.go, app_orgs.go) keeps to its
\* columns: a family is a session there is or was, a session's successor is one, the recovery codes
\* of a user are of its last enrolment at most, an address that accepts is one of the project's.
THEOREM AccountsTyped == AccountsSpec => [](AppTypeOK /\ OAuthTypeOK /\ OrgTypeOK)
<1>1. AccountsInit => TypesInv
  <2> SUFFICES ASSUME AccountsInit PROVE TypesInv
    OBVIOUS
  <2>1. OAuthSizes /\ OrgSizes
    BY DEF AccountsInit, OAuthInit, OrgInit, OAuthSizes, OrgSizes
  <2> QED BY <2>1, AccountsInvInitially, KeysInitially, SizesInitially DEF TypesInv
<1>2. TypesInv /\ [AccountsNext]_<<accountVars, orgVars>> => TypesInv'
  BY AccountsInvPreserved, KeysPreserved, SizesPreserved, OAuthSizesPreserved, OrgSizesPreserved
     DEF TypesInv
<1> QED BY <1>1, <1>2, TypesFollow, PTL DEF AccountsSpec

------------------------------------------------------------------------------
(* The quota of users *)

KnownUsers == {u \in AppUsers : Known(u)}

\* Signups and providers' logins never take a project past its quota of users: a signup holds the
\* collection's lock from counting them (enforceMaxAppUsersQuotaTx in core/app_auth.go) to its commit,
\* and a provider's login that creates a user (core/oauth.go) waits for it.
UsersInQuota == Cardinality(KnownUsers) <= MaxAppUsers

QuotaInv ==
  /\ IsFiniteSet(KnownUsers) /\ UsersInQuota
  /\ \A q \in AppRequests : appRequests[q].op = "signup" =>
       QuotaLeft /\ <<"advisory", 0>> \in appRequests[q].locks

NoSignup(S) == \A q \in S : appRequests[q].op # "signup"

\* Nobody else becomes a user, and of the signups under way only those that counted are there.
NobodyNew ==
  /\ \A u \in AppUsers : Known(u)' <=> Known(u)
  /\ \A q \in AppRequests : appRequests'[q].op = "signup" =>
       \/ appRequests'[q] = appRequests[q]
       \/ QuotaLeft /\ <<"advisory", 0>> \in appRequests'[q].locks
OneNew ==
  /\ QuotaLeft /\ NoSignup(AppRequests)'
  /\ \E u \in AppUsers : \A x \in AppUsers : Known(x)' <=> Known(x) \/ x = u

LEMMA QuotaFromSteps ==
  ASSUME QuotaInv, NobodyNew \/ OneNew
  PROVE  QuotaInv'
<1>1. CASE NobodyNew
  <2>1. KnownUsers' = KnownUsers
    BY <1>1 DEF NobodyNew, KnownUsers
  <2>2. QuotaLeft' <=> QuotaLeft
    BY <2>1 DEF QuotaLeft, KnownUsers
  <2> QED BY <1>1, <2>1, <2>2 DEF QuotaInv, NobodyNew, UsersInQuota
<1>2. CASE OneNew
  <2>1. PICK u \in AppUsers : \A x \in AppUsers : Known(x)' <=> Known(x) \/ x = u
    BY <1>2 DEF OneNew
  <2>2. KnownUsers' = KnownUsers \cup {u}
    BY <2>1 DEF KnownUsers
  <2>3. /\ IsFiniteSet(KnownUsers')
        /\ Cardinality(KnownUsers') = Cardinality(KnownUsers)
           \/ Cardinality(KnownUsers') = Cardinality(KnownUsers) + 1
    BY <2>2, FS_AddElement DEF QuotaInv
  <2>4. Cardinality(KnownUsers) \in Nat
    BY FS_CardinalityType DEF QuotaInv
  <2>5. Cardinality(KnownUsers) < MaxAppUsers
    BY <1>2 DEF OneNew, QuotaLeft, KnownUsers
  <2>6. UsersInQuota'
    BY <2>3, <2>4, <2>5, AppSessionsAssumption DEF UsersInQuota
  <2> QED BY <1>2, <2>3, <2>6 DEF QuotaInv, OneNew, NoSignup
<1> QED BY <1>1, <1>2

\* Who has the collection's lock is the only one to sign up.
LEMMA SignupAlone ==
  ASSUME AccountInv, QuotaInv, NEW S \in SUBSET AppRequests,
         \A q \in S : <<"advisory", 0>> \notin Held(q)
  PROVE  NoSignup(S)
BY DEF QuotaInv, NoSignup, Held, Pending

\* An account's own steps make a user known in a signup only.
LEMMA KnownRows ==
  ASSUME AccountInv, KeysInv, AppNext, NEW u \in AppUsers, Known(u)'
  PROVE  Known(u) \/ \E q \in AppRequests : SignupCommit(q) /\ appRequests[q].user = u
<1>1. \A x \in AppUsers : appUsers[x] \in UserRow
  BY DEF AccountInv, TablesOK
<1>2. ASSUME NEW v, NEW row, v # u \/ Known(u), appUsers' = [appUsers EXCEPT ![v] = row] PROVE Known(u)
  BY <1>2 DEF Known, AccountInv, TablesOK
<1>3. ASSUME NEW t \in DOMAIN authTokens, ConfirmEmailVerification(t) PROVE Known(u)
  <2> PICK v : v = authTokens[t].user
    OBVIOUS
  <2>1. appUsers' = [appUsers EXCEPT ![v] = [appUsers[v] EXCEPT !.verified = TRUE]] /\ Known(v)
    BY <1>3 DEF ConfirmEmailVerification, KeysInv
  <2> QED BY <1>2, <2>1
<1>4. ASSUME NEW q \in AppRequests, SweepCommit(q) PROVE Known(u)
  <2> PICK v : v = appRequests[q].user
    OBVIOUS
  <2>1. appRequests[q].op \in SweepOps /\ \E row : appUsers' = [appUsers EXCEPT ![v] = row]
    BY <1>4 DEF SweepCommit
  <2>2. Known(v)
    BY <2>1 DEF KeysInv, KeysOf
  <2> QED BY <1>2, <2>1, <2>2
<1>5. ASSUME NEW q \in AppRequests, SignupCommit(q)
      PROVE  Known(u) \/ appRequests[q].user = u
  <2> PICK v : v = appRequests[q].user
    OBVIOUS
  <2>1. \E row : appUsers' = [appUsers EXCEPT ![v] = row]
    <3>1. appUsers' = [appUsers EXCEPT ![v] = [appUsers[v] EXCEPT !.email = appRequests[q].email]]
      BY <1>5 DEF SignupCommit
    <3> QED BY <3>1
  <2> QED BY <1>2, <2>1
<1>6. CASE UNCHANGED appUsers
  BY <1>6 DEF Known
<1> QED BY <1>3, <1>4, <1>5, <1>6
        DEF AppNext, SignupBegin, LoginRead, FactorRead, LogoutAllBegin, RefreshLock, OTPLock,
            ConfirmBegin, ChallengeLock, AppRequestFails, StartMFAEnrollment, ConfirmMFAEnrollment, DisableMFA,
            requestAuthToken, LoginCommit, RefreshCommit, ReplayCommit, OTPCommit, VerifyMFALogin,
            LogoutAppSession, RevokeAppSession, accounts

LEMMA SignupCounts ==
  ASSUME AccountInv, KeysInv, QuotaInv, NEW q \in AppRequests, SignupCommit(q), AppNext
  PROVE  NobodyNew \/ OneNew
<1> PICK v : v = appRequests[q].user
  OBVIOUS
<1>1. /\ appRequests[q].op = "signup" /\ RequestOK(appRequests[q])
      /\ appRequests' = [appRequests EXCEPT ![q] = NoRequestYet]
  BY DEF SignupCommit, Done, AccountInv, RequestsOK
<1>2. v \in AppUsers
  BY <1>1 DEF RequestOK
<1>3. QuotaLeft /\ <<"advisory", 0>> \in Held(q)
  BY <1>1 DEF QuotaInv, Held, Pending
<1>4. \A p \in AppRequests \ {q} : <<"advisory", 0>> \notin Held(p)
  BY <1>3 DEF AccountInv, LocksApart
<1>5. NoSignup(AppRequests \ {q})
  BY <1>4, SignupAlone
<1>6. NoSignup(AppRequests)'
  BY <1>1, <1>5 DEF NoSignup, NoRequestYet, AccountInv, RequestsOK
<1>7. /\ \E row : appUsers' = [appUsers EXCEPT ![v] = row] /\ row.email \in Emails
  <2> DEFINE row == [appUsers[v] EXCEPT !.email = appRequests[q].email]
  <2>1. appUsers' = [appUsers EXCEPT ![v] = row]
    BY DEF SignupCommit
  <2>2. appUsers[v] \in UserRow /\ appRequests[q].email \in Emails
    BY <1>1, <1>2 DEF RequestOK, AccountInv, TablesOK
  <2>3. row.email \in Emails
    BY <2>2 DEF UserRow
  <2> HIDE DEF row
  <2> QED BY <2>1, <2>3
<1>8. \A x \in AppUsers : Known(x)' <=> Known(x) \/ x = v
  BY <1>2, <1>7, AppSessionsAssumption DEF Known, AccountInv, TablesOK
<1> QED BY <1>2, <1>3, <1>6, <1>8 DEF OneNew

LEMMA QuotaAppStep ==
  ASSUME AccountInv, KeysInv, QuotaInv, AppNext
  PROVE  NobodyNew \/ OneNew
<1> DEFINE Counted == \A q \in AppRequests : appRequests'[q].op = "signup" =>
                        \/ appRequests'[q] = appRequests[q]
                        \/ QuotaLeft /\ <<"advisory", 0>> \in appRequests'[q].locks
<1>1. ASSUME NEW q \in AppRequests, NEW r, Begin(q, r),
             r.op # "signup" \/ (QuotaLeft /\ <<"advisory", 0>> \in r.locks)
      PROVE  Counted
  BY <1>1 DEF Begin, AccountInv, RequestsOK
<1>2. ASSUME NEW q \in AppRequests, Done(q) PROVE Counted
  BY <1>2 DEF Done, NoRequestYet, AccountInv, RequestsOK
<1>3. ASSUME UNCHANGED appRequests PROVE Counted
  BY <1>3
<1> HIDE DEF Counted
<1>4. ASSUME NEW q \in AppRequests, NEW u \in AppUsers,
             \/ \E e \in Emails : SignupBegin(q, u, e)
             \/ LoginRead(q, u) \/ LogoutAllBegin(q, u)
      PROVE  Counted
  BY <1>1, <1>4 DEF SignupBegin, LoginRead, LogoutAllBegin
<1>5. ASSUME NEW q \in AppRequests, NEW s \in DOMAIN appSessions, RefreshLock(q, s) PROVE Counted
  BY <1>1, <1>5 DEF RefreshLock
<1>6. ASSUME NEW q \in AppRequests, NEW t \in DOMAIN authTokens, OTPLock(q, t) \/ ConfirmBegin(q, t)
      PROVE  Counted
  BY <1>1, <1>6 DEF OTPLock, ConfirmBegin
<1>7. ASSUME NEW q \in AppRequests, NEW c \in DOMAIN mfaChallenges, ChallengeLock(q, c)
      PROVE  Counted
  BY <1>1, <1>7 DEF ChallengeLock
<1>10. ASSUME NEW q \in AppRequests, NEW on \in BOOLEAN, FactorRead(q, on) PROVE Counted
  <2>1. PICK w : /\ appRequests' = [appRequests EXCEPT ![q] = w]
                 /\ appRequests[q].op \in LoginOps /\ w.op = appRequests[q].op
    BY <1>10, FactorReadMoves
  <2>2. /\ appRequests'[q] = w /\ \A p \in AppRequests \ {q} : appRequests'[p] = appRequests[p]
    BY <2>1 DEF AccountInv, RequestsOK
  <2>3. w.op # "signup"
    BY <2>1 DEF LoginOps
  <2> QED BY <2>2, <2>3 DEF Counted
<1>8. Counted
  BY <1>2, <1>3, <1>4, <1>5, <1>6, <1>7, <1>10
     DEF AppNext, SignupCommit, LoginCommit, RefreshCommit, ReplayCommit, OTPCommit, SweepCommit,
         VerifyMFALogin, AppRequestFails, LogoutAppSession, RevokeAppSession, StartMFAEnrollment,
         ConfirmMFAEnrollment, DisableMFA, requestAuthToken, ConfirmEmailVerification
<1>9. CASE \A q \in AppRequests : ~SignupCommit(q)
  BY <1>8, <1>9, KnownRows, UserRows DEF NobodyNew, Counted
<1> QED BY <1>9, SignupCounts

LEMMA QuotaPreserved ==
  ASSUME AccountsInv, KeysInv, QuotaInv, [AccountsNext]_<<accountVars, orgVars>>
  PROVE  QuotaInv'
<1>1. CASE AppNext
  BY <1>1, QuotaAppStep, QuotaFromSteps DEF AccountsInv
<1>2. ASSUME NEW c \in callbacks, NEW u \in AppUsers, OAuthRegister(c, u) PROVE QuotaInv'
  <2>1. \A q \in AppRequests : <<"advisory", 0>> \notin Held(q)
    BY <1>2 DEF OAuthRegister, CollectionLockFree, Locked
  <2>2. NoSignup(AppRequests)
    BY <2>1, SignupAlone DEF AccountsInv
  <2> DEFINE row == [email |-> c[2].email, verified |-> c[2].verified, key |-> 0]
  <2>3. row.email \in Emails
    BY DEF AccountsInv, OAuthInv, CallbacksOK, Consumed, Profiles
  <2>4. QuotaLeft /\ appUsers' = [appUsers EXCEPT ![u] = row] /\ UNCHANGED appRequests
    BY <1>2 DEF OAuthRegister, CreateOAuthUser
  <2> HIDE DEF row
  <2>5. \A x \in AppUsers : Known(x)' <=> Known(x) \/ x = u
    BY <2>3, <2>4, AppSessionsAssumption DEF Known, AccountsInv, AccountInv, TablesOK
  <2>6. OneNew
    BY <2>2, <2>4, <2>5 DEF OneNew, NoSignup
  <2> QED BY <2>6, QuotaFromSteps
<1>4. ASSUME NEW q \in AppRequests,
             OAuthCommit(q) \/ \E c \in callbacks, u \in AppUsers : OAuthRead(q, c, u)
      PROVE  QuotaInv'
  <2>1. /\ UNCHANGED appUsers /\ DOMAIN appRequests = AppRequests
        /\ \E r : r.op # "signup" /\ appRequests' = [appRequests EXCEPT ![q] = r]
    BY <1>4 DEF OAuthCommit, OAuthRead, Begin, Done, NoRequestYet, accounts, AccountsInv, AccountInv,
               RequestsOK
  <2>2. NobodyNew
    BY <2>1 DEF NobodyNew, Known
  <2> QED BY <2>2, QuotaFromSteps
<1>3. CASE UNCHANGED appVars
  <2>1. NobodyNew
    BY <1>3 DEF NobodyNew, Known, appVars, accounts
  <2> QED BY <2>1, QuotaFromSteps
<1> QED BY <1>1, <1>2, <1>3, <1>4, StepKinds DEF ProviderStep

\* However many signups and providers' logins count the users at once, those the quota has no room
\* for are refused.
THEOREM QuotaHolds == AccountsSpec => []UsersInQuota
<1>1. AccountsInit => QuotaInv
  <2> SUFFICES ASSUME AppInit PROVE QuotaInv
    BY DEF AccountsInit
  <2>1. KnownUsers = {}
    BY DEF AppInit, KnownUsers, Known
  <2>2. \A q \in AppRequests : appRequests[q].op # "signup"
    BY DEF AppInit, AppNothingElse, NoRequestYet
  <2> QED BY <2>1, <2>2, FS_EmptySet, AppSessionsAssumption DEF QuotaInv, UsersInQuota
<1>2. KeysHold /\ QuotaInv /\ [AccountsNext]_<<accountVars, orgVars>> => QuotaInv'
  BY QuotaPreserved DEF KeysHold
<1>3. QuotaInv => UsersInQuota
  BY DEF QuotaInv
<1> QED BY <1>1, <1>2, <1>3, KeysHoldAlways, PTL DEF AccountsSpec
=============================================================================
