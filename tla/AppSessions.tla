------------------------------ MODULE AppSessions ----------------------------
(***************************************************************************)
(* Accounts of a project's application users (core/app_auth.go,            *)
(* core/app_users.go, core/mfa.go): signup, password and one-time-token    *)
(* logins with a second factor, refresh sessions that rotate, access tokens *)
(* bound to the user's token key, and mailed tokens.                       *)
(*                                                                         *)
(* A request is a transaction under READ COMMITTED.  It is one step, or    *)
(* two where a lock it holds or a value it read outlives a wait: a locked  *)
(* row keeps others out until the second step commits, and the rows an     *)
(* UPDATE over many sessions will touch are those it saw at its start,     *)
(* each taken once its lock is free.  A request that fails rolls back.     *)
(*                                                                         *)
(* Expiry only makes a request fail, so time is left out, as are settings  *)
(* that switch a kind of login off and disabled_at, which nothing sets.    *)
(* The second factor may be switched on and off at any time: a login sees  *)
(* either.                                                                 *)
(* Key rotations, sessions, tokens and enrolments are bounded.             *)
(***************************************************************************)
EXTENDS Naturals, Sequences, FiniteSets

CONSTANTS
  AppUsers, Emails, NoEmail,
  AppRequests,
  MaxAppUsers,       \* the quota maxAppUsers
  MaxKeys, MaxAppSessions, MaxAuthTokens, MaxEnrolments \* bounds

ASSUME AppSessionsAssumption ==
  /\ NoEmail \notin Emails
  /\ MaxAppUsers \in Nat \ {0} /\ MaxKeys \in Nat /\ MaxAppSessions \in Nat
  /\ MaxAuthTokens \in Nat /\ MaxEnrolments \in Nat

VARIABLES
  appUsers,       \* rows of users: email (NoEmail: no row), verified, token key
  appSessions,    \* rows of _dbo.sessions, the id is the position
  authTokens,     \* rows of _dbo.auth_tokens
  mfaFactors,     \* mfaFactors[u]: whether there are "pending" or "enabled" factors
  mfaChallenges,  \* rows of _dbo.mfa_challenges
  recoveryCodes,  \* recoveryCodes[u]: the unused codes
  appRequests,    \* requests between their two steps
  (* history *)
  enrolments,     \* enrolments[u]: how often codes were handed out
  issuedKeys      \* <<user, key>>: a client has an access token with that key

accounts == <<appUsers, mfaFactors, recoveryCodes, enrolments>>
appVars == <<accounts, appSessions, authTokens, mfaChallenges, appRequests, issuedKeys>>

TokenTypes == {"verify_email", "password_reset", "login_otp", "email_change"}
SweepOps == {"logout_all", "password_reset", "email_change"}
NoRequestYet == [op |-> "none"]
SessionIds == 1 .. MaxAppSessions

AppTypeOK ==
  /\ appUsers \in [AppUsers -> [email : Emails \cup {NoEmail}, verified : BOOLEAN,
                                key : 0 .. MaxKeys]]
  /\ Len(appSessions) <= MaxAppSessions
  /\ \A s \in DOMAIN appSessions :
       appSessions[s] \in [user : AppUsers, family : SessionIds, revoked : BOOLEAN,
                           replacedBy : 0 .. MaxAppSessions,
                           origin : {"password", "signup", "oauth", "token", "challenge", "code",
                                     "refresh"} \X Nat]
  /\ Len(authTokens) <= MaxAuthTokens
  /\ \A t \in DOMAIN authTokens :
       authTokens[t] \in [user : AppUsers, type : TokenTypes, used : BOOLEAN, mailedTo : Emails]
  /\ mfaFactors \in [AppUsers -> SUBSET {"pending", "enabled"}]
  /\ \A c \in DOMAIN mfaChallenges : mfaChallenges[c] \in [user : AppUsers, used : BOOLEAN]
  /\ recoveryCodes \in [AppUsers -> SUBSET (1 .. MaxEnrolments)]
  /\ enrolments \in [AppUsers -> 0 .. MaxEnrolments]
  /\ issuedKeys \subseteq AppUsers \X (0 .. MaxKeys)
  /\ \A q \in AppRequests :
       appRequests[q].op \in SweepOps \cup {"none", "signup", "oauth", "login", "login_otp",
                                            "refresh", "replay", "challenge"}

AppNothingElse ==
  /\ authTokens = <<>> /\ mfaChallenges = <<>>
  /\ mfaFactors = [u \in AppUsers |-> {}]
  /\ recoveryCodes = [u \in AppUsers |-> {}]
  /\ appRequests = [q \in AppRequests |-> NoRequestYet]
  /\ enrolments = [u \in AppUsers |-> 0]

AppInit ==
  /\ appUsers = [u \in AppUsers |-> [email |-> NoEmail, verified |-> FALSE, key |-> 0]]
  /\ appSessions = <<>> /\ issuedKeys = {}
  /\ AppNothingElse

------------------------------------------------------------------------------
(* Rows and locks *)

Known(u) == appUsers[u].email # NoEmail
EmailFree(e) == \A u \in AppUsers : appUsers[u].email # e
Active(s) == ~appSessions[s].revoked
AccessToken(u) == Known(u) /\ <<u, appUsers[u].key>> \in issuedKeys
MfaRequired(u) == "enabled" \in mfaFactors[u]

Pending(q) == appRequests[q].op # "none"
Held(q) == IF Pending(q) THEN appRequests[q].locks ELSE {}
Locked(kind, id) == \E q \in AppRequests : <<kind, id>> \in Held(q)

\* Held by a signup, to the end of its transaction.
CollectionLockFree == ~Locked("advisory", 0)

Begin(q, r) == ~Pending(q) /\ appRequests' = [appRequests EXCEPT ![q] = r]
Done(q) == appRequests' = [appRequests EXCEPT ![q] = NoRequestYet]

AppRequestFails(q) ==
  /\ Pending(q)
  /\ Done(q)
  /\ UNCHANGED <<accounts, appSessions, authTokens, mfaChallenges, issuedKeys>>

\* Family 0 asks for a new one; the access token in the answer carries the key that was read.
createAppSession(u, family, key, origin) ==
  LET s == Len(appSessions) + 1
  IN /\ s <= MaxAppSessions
     /\ appSessions' = Append(appSessions,
          [user |-> u, family |-> IF family = 0 THEN s ELSE family, revoked |-> FALSE,
           replacedBy |-> 0, origin |-> origin])
     /\ issuedKeys' = issuedKeys \cup {<<u, key>>}

LoginOps == {"login", "login_otp", "oauth"}

\* A login records itself in the user's row, which it locks to its end, and then looks for an
\* enabled factor, unless the project's settings switch the factors off.  The factors are not
\* locked.
FactorRead(q, on) ==
  LET r == appRequests[q] u == r.user
  IN /\ r.op \in LoginOps /\ r.factor = "unread" /\ ~Locked("user", u)
     /\ appRequests' = [appRequests EXCEPT ![q] =
          [r EXCEPT !.factor = IF ~on THEN "off" ELSE IF MfaRequired(u) THEN "enabled" ELSE "none",
                    !.enrolled = enrolments[u],
                    !.locks = r.locks \cup {<<"user", u>>}]]
     /\ UNCHANGED <<accounts, appSessions, authTokens, mfaChallenges, issuedKeys>>

\* It ends in a session, or in a challenge when it found an enabled factor.
SessionOrChallenge_NoFactor(r, origin) ==
  /\ createAppSession(r.user, 0, r.key, origin)
  /\ UNCHANGED mfaChallenges

SessionOrChallenge(r, origin) ==
  IF r.factor = "enabled"
  THEN /\ Len(mfaChallenges) < MaxAppSessions \* bound
       /\ mfaChallenges' = Append(mfaChallenges, [user |-> r.user, used |-> FALSE])
       /\ UNCHANGED <<appSessions, issuedKeys>>
  ELSE /\ createAppSession(r.user, 0, r.key, origin)
       /\ UNCHANGED mfaChallenges

------------------------------------------------------------------------------
(* Signup and password login *)

QuotaLeft == Cardinality({u \in AppUsers : Known(u)}) < MaxAppUsers

\* The users collection is ensured first, under the collection lock.
SignupBegin(q, u, e) ==
  /\ ~Known(u) /\ CollectionLockFree /\ QuotaLeft
  /\ Begin(q, [op |-> "signup", user |-> u, email |-> e, locks |-> {<<"advisory", 0>>}])
  /\ UNCHANGED <<accounts, appSessions, authTokens, mfaChallenges, issuedKeys>>

SignupCommit(q) ==
  /\ appRequests[q].op = "signup"
  /\ LET u == appRequests[q].user e == appRequests[q].email
     IN /\ ~Known(u) /\ EmailFree(e)
        /\ appUsers' = [appUsers EXCEPT ![u].email = e]
        /\ createAppSession(u, 0, 0, <<"signup", Len(appSessions) + 1>>)
  /\ Done(q)
  /\ UNCHANGED <<mfaFactors, recoveryCodes, enrolments, authTokens, mfaChallenges>>

\* The password is compared before the transaction begins.
LoginRead(q, u) ==
  /\ Known(u)
  /\ Begin(q, [op |-> "login", user |-> u, key |-> appUsers[u].key,
               factor |-> "unread", enrolled |-> 0, locks |-> {}])
  /\ UNCHANGED <<accounts, appSessions, authTokens, mfaChallenges, issuedKeys>>

LoginCommit(q) ==
  /\ appRequests[q].op = "login" /\ appRequests[q].factor # "unread"
  /\ SessionOrChallenge(appRequests[q], <<"password", Len(appSessions) + 1>>)
  /\ Done(q)
  /\ UNCHANGED <<accounts, authTokens>>

------------------------------------------------------------------------------
(* Refresh sessions *)

RefreshLock_Unlocked(q, s) ==
  LET row == appSessions[s]
      op == IF row.replacedBy # 0 THEN "replay" ELSE "refresh"
  IN /\ op = "refresh" => Active(s)
     /\ Begin(q, [op |-> op, session |-> s, user |-> row.user, key |-> appUsers[row.user].key,
                  seen |-> {x \in DOMAIN appSessions : appSessions[x].family = row.family},
                  locks |-> {}])
     /\ UNCHANGED <<accounts, appSessions, authTokens, mfaChallenges, issuedKeys>>

\* The token's session is locked, the user is read with it.  A token that was rotated before
\* is a replay, whatever else became of its session.
RefreshLock(q, s) ==
  LET row == appSessions[s]
      op == IF row.replacedBy # 0 THEN "replay" ELSE "refresh"
  IN /\ ~Locked("session", s)
     /\ op = "refresh" => Active(s)
     /\ Begin(q, [op |-> op, session |-> s, user |-> row.user, key |-> appUsers[row.user].key,
                  seen |-> {x \in DOMAIN appSessions : appSessions[x].family = row.family},
                  locks |-> {<<"session", s>>}])
     /\ UNCHANGED <<accounts, appSessions, authTokens, mfaChallenges, issuedKeys>>

RefreshCommit(q) ==
  /\ appRequests[q].op = "refresh"
  /\ LET s == appRequests[q].session u == appRequests[q].user n == Len(appSessions) + 1
     IN /\ n <= MaxAppSessions
        /\ appSessions' = Append([appSessions EXCEPT ![s].revoked = TRUE, ![s].replacedBy = n],
             [user |-> u, family |-> appSessions[s].family, revoked |-> FALSE,
              replacedBy |-> 0, origin |-> <<"refresh", s>>])
        /\ issuedKeys' = issuedKeys \cup {<<u, appRequests[q].key>>}
  /\ Done(q)
  /\ UNCHANGED <<accounts, authTokens, mfaChallenges>>

\* What an UPDATE waits for before it has all the rows it saw.
OthersHold(q, S) ==
  \E p \in AppRequests \ {q} : \E s \in S : <<"session", s>> \in Held(p)

Revoked(S) ==
  [s \in DOMAIN appSessions |->
     IF s \in S THEN [appSessions[s] EXCEPT !.revoked = TRUE] ELSE appSessions[s]]

\* A replayed token revokes its family.
ReplayCommit(q) ==
  /\ appRequests[q].op = "replay"
  /\ ~OthersHold(q, appRequests[q].seen)
  /\ appSessions' = Revoked(appRequests[q].seen)
  /\ Done(q)
  /\ UNCHANGED <<accounts, authTokens, mfaChallenges, issuedKeys>>

LogoutAppSession(s) ==
  /\ Active(s) /\ ~Locked("session", s)
  /\ appSessions' = Revoked({s})
  /\ UNCHANGED <<accounts, authTokens, mfaChallenges, appRequests, issuedKeys>>

RevokeAppSession(u, s) ==
  /\ AccessToken(u)
  /\ appSessions[s].user = u /\ ~Locked("session", s)
  /\ appSessions' = Revoked({s})
  /\ UNCHANGED <<accounts, authTokens, mfaChallenges, appRequests, issuedKeys>>

------------------------------------------------------------------------------
(* Mailed tokens *)

\* A token of one of the four types, mailed to the user, or for a change of email to the new
\* address, which must be free when it is asked for.
requestAuthToken(u, type, e) ==
  /\ Known(u) /\ Len(authTokens) < MaxAuthTokens
  /\ IF type = "email_change" THEN AccessToken(u) /\ EmailFree(e) ELSE e = appUsers[u].email
  /\ authTokens' = Append(authTokens, [user |-> u, type |-> type, used |-> FALSE, mailedTo |-> e])
  /\ UNCHANGED <<accounts, appSessions, mfaChallenges, appRequests, issuedKeys>>

Usable_Unlocked(t) == ~authTokens[t].used
Usable(t) == ~authTokens[t].used /\ ~Locked("token", t)
UseToken(t) == authTokens' = [authTokens EXCEPT ![t].used = TRUE]

ConfirmEmailVerification(t) ==
  /\ authTokens[t].type = "verify_email" /\ Usable(t)
  /\ LET u == authTokens[t].user
     IN /\ ~Locked("user", u)
        /\ appUsers' = [appUsers EXCEPT ![u].verified = TRUE]
  /\ UseToken(t)
  /\ UNCHANGED <<mfaFactors, recoveryCodes, enrolments, appSessions, mfaChallenges, appRequests,
                 issuedKeys>>

OTPLock(q, t) ==
  /\ authTokens[t].type = "login_otp" /\ Usable(t)
  /\ LET u == authTokens[t].user
     IN Begin(q, [op |-> "login_otp", token |-> t, user |-> u, key |-> appUsers[u].key,
                  factor |-> "unread", enrolled |-> 0, locks |-> {<<"token", t>>}])
  /\ UNCHANGED <<accounts, appSessions, authTokens, mfaChallenges, issuedKeys>>

OTPCommit(q) ==
  /\ appRequests[q].op = "login_otp" /\ appRequests[q].factor # "unread"
  /\ SessionOrChallenge(appRequests[q], <<"token", appRequests[q].token>>)
  /\ UseToken(appRequests[q].token)
  /\ Done(q)
  /\ UNCHANGED accounts

------------------------------------------------------------------------------
(* What ends the user's sessions: log out everywhere, a new password, a new email *)

Sessions(u) == {s \in DOMAIN appSessions : appSessions[s].user = u /\ Active(s)}

\* Both writers update the user first and hold its row to the end.
LogoutAllBegin(q, u) ==
  /\ AccessToken(u) /\ ~Locked("user", u)
  /\ Begin(q, [op |-> "logout_all", user |-> u, seen |-> Sessions(u), locks |-> {<<"user", u>>}])
  /\ UNCHANGED <<accounts, appSessions, authTokens, mfaChallenges, issuedKeys>>

ConfirmBegin(q, t) ==
  /\ authTokens[t].type \in {"password_reset", "email_change"} /\ Usable(t)
  /\ LET u == authTokens[t].user
     IN /\ ~Locked("user", u)
        /\ Begin(q, [op |-> authTokens[t].type, token |-> t, user |-> u, seen |-> Sessions(u),
                     locks |-> {<<"user", u>>, <<"token", t>>}])
  /\ UNCHANGED <<accounts, appSessions, authTokens, mfaChallenges, issuedKeys>>

SweepCommit_KeepsKey(q) ==
  LET r == appRequests[q] u == r.user
  IN /\ r.op \in SweepOps /\ ~OthersHold(q, r.seen)
     /\ r.op = "email_change" => EmailFree(authTokens[r.token].mailedTo)
     /\ appUsers' = IF r.op = "email_change"
                    THEN [appUsers EXCEPT ![u].email = authTokens[r.token].mailedTo,
                                          ![u].verified = TRUE]
                    ELSE appUsers
     /\ IF r.op = "logout_all" THEN UNCHANGED authTokens ELSE UseToken(r.token)
     /\ appSessions' = Revoked(r.seen)
     /\ Done(q)
     /\ UNCHANGED <<mfaFactors, recoveryCodes, enrolments, mfaChallenges, issuedKeys>>

SweepCommit(q) ==
  LET r == appRequests[q] u == r.user
  IN /\ r.op \in SweepOps /\ ~OthersHold(q, r.seen)
     /\ appUsers[u].key < MaxKeys
     /\ r.op = "email_change" => EmailFree(authTokens[r.token].mailedTo)
     /\ appUsers' = [appUsers EXCEPT ![u] =
          IF r.op = "email_change"
          THEN [email |-> authTokens[r.token].mailedTo, verified |-> TRUE,
                key |-> appUsers[u].key + 1]
          ELSE [appUsers[u] EXCEPT !.key = @ + 1]]
     /\ IF r.op = "logout_all" THEN UNCHANGED authTokens ELSE UseToken(r.token)
     /\ appSessions' = Revoked(r.seen)
     /\ Done(q)
     /\ UNCHANGED <<mfaFactors, recoveryCodes, enrolments, mfaChallenges, issuedKeys>>

------------------------------------------------------------------------------
(* The second factor *)

\* Factors that were never confirmed, and disabled ones, make room for the new one.
StartMFAEnrollment(u) ==
  /\ AccessToken(u)
  /\ mfaFactors' = [mfaFactors EXCEPT ![u] = @ \cup {"pending"}]
  /\ UNCHANGED <<appUsers, recoveryCodes, enrolments, appSessions, authTokens,
                 mfaChallenges, appRequests, issuedKeys>>

\* Confirms a pending factor, or an enabled one again, and replaces the recovery codes: ten in
\* the code, one here.
ConfirmMFAEnrollment(u) ==
  /\ AccessToken(u) /\ enrolments[u] < MaxEnrolments
  /\ \E f \in mfaFactors[u] : mfaFactors' = [mfaFactors EXCEPT ![u] = (@ \ {f}) \cup {"enabled"}]
  /\ enrolments' = [enrolments EXCEPT ![u] = @ + 1]
  /\ recoveryCodes' = [recoveryCodes EXCEPT ![u] = {enrolments[u] + 1}]
  /\ UNCHANGED <<appUsers, appSessions, authTokens, mfaChallenges, appRequests, issuedKeys>>

\* A disabled factor is a pending one again.
DisableMFA(u) ==
  /\ AccessToken(u) /\ MfaRequired(u)
  /\ mfaFactors' = [mfaFactors EXCEPT ![u] = {"pending"}]
  /\ recoveryCodes' = [recoveryCodes EXCEPT ![u] = {}]
  /\ UNCHANGED <<appUsers, enrolments, appSessions, authTokens, mfaChallenges,
                 appRequests, issuedKeys>>

ChallengeLock(q, c) ==
  /\ ~mfaChallenges[c].used /\ ~Locked("challenge", c)
  /\ LET u == mfaChallenges[c].user
     IN Begin(q, [op |-> "challenge", challenge |-> c, user |-> u, key |-> appUsers[u].key,
                  locks |-> {<<"challenge", c>>}])
  /\ UNCHANGED <<accounts, appSessions, authTokens, mfaChallenges, issuedKeys>>

\* Answered with the code of an enabled factor, or with a recovery code.
VerifyMFALogin(q) ==
  /\ appRequests[q].op = "challenge"
  /\ LET u == appRequests[q].user c == appRequests[q].challenge
     IN /\ \/ /\ MfaRequired(u)
              /\ createAppSession(u, 0, appRequests[q].key, <<"challenge", c>>)
              /\ UNCHANGED recoveryCodes
           \/ \E code \in recoveryCodes[u] :
                /\ recoveryCodes' = [recoveryCodes EXCEPT ![u] = @ \ {code}]
                /\ createAppSession(u, 0, appRequests[q].key, <<"code", code>>)
        /\ mfaChallenges' = [mfaChallenges EXCEPT ![c].used = TRUE]
  /\ Done(q)
  /\ UNCHANGED <<appUsers, mfaFactors, enrolments, authTokens>>

------------------------------------------------------------------------------
AppNext ==
  \/ \E q \in AppRequests :
       \/ \E u \in AppUsers, e \in Emails : SignupBegin(q, u, e)
       \/ \E u \in AppUsers : LoginRead(q, u) \/ LogoutAllBegin(q, u)
       \/ \E s \in DOMAIN appSessions : RefreshLock(q, s)
       \/ \E t \in DOMAIN authTokens : OTPLock(q, t) \/ ConfirmBegin(q, t)
       \/ \E c \in DOMAIN mfaChallenges : ChallengeLock(q, c)
       \/ \E on \in BOOLEAN : FactorRead(q, on)
       \/ SignupCommit(q) \/ LoginCommit(q) \/ RefreshCommit(q) \/ ReplayCommit(q)
       \/ OTPCommit(q) \/ SweepCommit(q) \/ VerifyMFALogin(q) \/ AppRequestFails(q)
  \/ \E s \in DOMAIN appSessions :
       LogoutAppSession(s) \/ \E u \in AppUsers : RevokeAppSession(u, s)
  \/ \E u \in AppUsers :
       \/ StartMFAEnrollment(u) \/ ConfirmMFAEnrollment(u) \/ DisableMFA(u)
       \/ \E type \in TokenTypes, e \in Emails : requestAuthToken(u, type, e)
  \/ \E t \in DOMAIN authTokens : ConfirmEmailVerification(t)

AppSpec == AppInit /\ [][AppNext]_appVars

------------------------------------------------------------------------------
(* Properties *)

\* A chain of refreshes never forks: of a family, one token at most works, however many
\* requests present the same one at once.
OneLivePerFamily ==
  \A s, x \in DOMAIN appSessions :
    (appSessions[s].family = appSessions[x].family /\ Active(s) /\ Active(x)) => s = x

\* A one-time token, a challenge or a recovery code opens one session at most.
OpensOnce ==
  \A s, x \in DOMAIN appSessions :
    /\ appSessions[s].origin = appSessions[x].origin
    /\ appSessions[s].user = appSessions[x].user
    => s = x

\* A request that opened a session and was entitled to ask for no factor: it found the factors
\* switched off, or the user had none when it looked and confirmed one before its commit.
Unasked(q) ==
  LET r == appRequests[q]
  IN /\ r.op \in LoginOps /\ appRequests'[q] = NoRequestYet
     /\ r.factor = "off" \/ (r.factor = "none" /\ r.enrolled < enrolments[r.user])

\* While a user has an enabled factor no login opens a session for it without one, whatever is
\* confirmed, disabled and logged in at once: sessions that are new without an answered challenge
\* continue one that was there, or their login looked before the factor was confirmed.
SecondFactorAsked ==
  [][\A s \in DOMAIN appSessions' \ DOMAIN appSessions :
       LET new == appSessions'[s]
       IN MfaRequired(new.user) =>
            \/ new.origin[1] \in {"challenge", "code", "refresh"}
            \/ \E q \in AppRequests : Unasked(q) /\ appRequests[q].user = new.user]_appVars

\* A request to log out everywhere, or to change the password or email, that did so.
SweepDone(q) ==
  /\ appRequests[q].op \in SweepOps /\ appRequests'[q] = NoRequestYet
  /\ <<appUsers, appSessions, authTokens>>' # <<appUsers, appSessions, authTokens>>

KeyOps == LoginOps \cup {"refresh", "challenge"}

\* Once everything was logged out, or the password or email changed, no access token the user was
\* ever given is good, nor is the one a refresh or login that is under way will still hand out.
AccessTokensEnd ==
  [][\A q \in AppRequests, u \in AppUsers : (SweepDone(q) /\ appRequests[q].user = u) =>
       /\ ~AccessToken(u)'
       /\ \A p \in AppRequests :
            (appRequests'[p].op \in KeyOps /\ appRequests'[p].user = u) =>
              appRequests'[p].key # appUsers'[u].key]_appVars

------------------------------------------------------------------------------
(* Refresh sessions keep the promise of SessionFamilies. *)

LiveToken(s) == [user |-> appSessions[s].user, family |-> appSessions[s].family, token |-> s]
LiveTokens == {LiveToken(s) : s \in {x \in DOMAIN appSessions : Active(x)}}

\* A rotation takes no credential but the token it replaces.
Credential(s) == <<appSessions[s].user, appSessions[s].origin>>
Opening(s) == appSessions[s].origin[1] # "refresh"
Credentials == {Credential(s) : s \in {x \in DOMAIN appSessions : Opening(x)}}

Families == INSTANCE SessionFamilies WITH
  Tokens <- SessionIds, live <- LiveTokens, issued <- DOMAIN appSessions, opened <- Credentials

\* Whatever logins, providers, refreshes, replays, sweeps and organizations do at once, a session
\* begins with a credential that was not used before, a refresh replaces the token that was live by
\* one for the same user and family, and no token that was revoked or replaced works again.
FamiliesAsPromised == Families!FSpec
==============================================================================
