------------------------------ MODULE AdminAuth ------------------------------
(***************************************************************************)
(* Administrators (core/admin_auth.go, core/seed.go, apis/admin_auth.go,   *)
(* apis/auth_middleware.go, cmd/admin.go): the first one is created over   *)
(* HTTP or at start-up, logs in, changes its password or email and creates *)
(* others; the CLI resets a password without the old one.                  *)
(*                                                                         *)
(* A login compares the password and then stores its session with nothing  *)
(* held between the two; a password change locks the row and revokes the   *)
(* sessions it sees.  The middleware resolves a session before the handler *)
(* runs, which acts on what was true then.  Expired sessions and disabled  *)
(* admins are refused like unknown ones; nothing disables an admin.        *)
(***************************************************************************)
EXTENDS Naturals, Sequences, FiniteSets

CONSTANTS
  Admins, AdminEmails, NoAdminEmail,
  AdminRequests,
  MaxPasswords, MaxAdminSessions \* bounds

ASSUME AdminAssumption ==
  /\ NoAdminEmail \notin AdminEmails
  /\ MaxPasswords \in Nat \ {0} /\ MaxAdminSessions \in Nat

VARIABLES
  admins,         \* rows of _dbo.admins: email (NoAdminEmail: no row), role, password, mustChange
  adminSessions,  \* rows of _dbo.admin_sessions; password: the one proved last (history)
  adminRequests,  \* requests that have read something and not yet acted
  (* history *)
  racedLogins     \* sessions stored after the password they proved was replaced, or meanwhile

adminVars == <<admins, adminSessions, adminRequests, racedLogins>>

NoAdminRequest == [op |-> "none"]

AdminTypeOK ==
  /\ admins \in [Admins -> [email : AdminEmails \cup {NoAdminEmail},
                            role : {"owner", "super_admin"}, password : 0 .. MaxPasswords,
                            mustChange : BOOLEAN]]
  /\ \A s \in DOMAIN adminSessions :
       adminSessions[s] \in [admin : Admins, revoked : BOOLEAN, password : 0 .. MaxPasswords]
  /\ Len(adminSessions) <= MaxAdminSessions
  /\ \A q \in AdminRequests :
       adminRequests[q].op \in {"none", "setup", "login", "create", "change", "reset"}
  /\ racedLogins \subseteq 1 .. MaxAdminSessions

AdminInit ==
  /\ admins = [a \in Admins |-> [email |-> NoAdminEmail, role |-> "super_admin", password |-> 0,
                                 mustChange |-> FALSE]]
  /\ adminSessions = <<>>
  /\ adminRequests = [q \in AdminRequests |-> NoAdminRequest]
  /\ racedLogins = {}

------------------------------------------------------------------------------
AdminKnown(a) == admins[a].email # NoAdminEmail
AdminEmailFree(e) == \A a \in Admins : admins[a].email # e
SignedIn(s) == ~adminSessions[s].revoked
Waiting(q) == adminRequests[q].op # "none"
Changing(a) == \E q \in AdminRequests : adminRequests[q].op \in {"change", "reset"}
                                        /\ adminRequests[q].admin = a
SetupLockFree_Ignored == TRUE
SetupLockFree == \A q \in AdminRequests : adminRequests[q].op # "setup"

Start(q, r) == ~Waiting(q) /\ adminRequests' = [adminRequests EXCEPT ![q] = r]
End(q) == adminRequests' = [adminRequests EXCEPT ![q] = NoAdminRequest]

AdminRequestFails(q) ==
  /\ Waiting(q)
  /\ End(q)
  /\ UNCHANGED <<admins, adminSessions, racedLogins>>

------------------------------------------------------------------------------
(* The first admin: by /setup with an address of choice, or seeded when a replica starts, *)
(* with a password that must be changed.                                                  *)

SetupBegin(q, a, e, bootstrap) ==
  /\ SetupLockFree /\ \A x \in Admins : ~AdminKnown(x)
  /\ Start(q, [op |-> "setup", admin |-> a, email |-> e, mustChange |-> bootstrap])
  /\ UNCHANGED <<admins, adminSessions, racedLogins>>

SetupCommit(q) ==
  LET r == adminRequests[q]
  IN /\ r.op = "setup" /\ ~AdminKnown(r.admin) /\ AdminEmailFree(r.email)
     /\ admins' = [admins EXCEPT ![r.admin] = [email |-> r.email, role |-> "owner", password |-> 1,
                                               mustChange |-> r.mustChange]]
     /\ End(q)
     /\ UNCHANGED <<adminSessions, racedLogins>>

LoginAdminRead(q, a) ==
  /\ AdminKnown(a)
  /\ Start(q, [op |-> "login", admin |-> a, password |-> admins[a].password])
  /\ UNCHANGED <<admins, adminSessions, racedLogins>>

LoginAdminInsert(q) ==
  LET r == adminRequests[q] s == Len(adminSessions) + 1
  IN /\ r.op = "login" /\ s <= MaxAdminSessions
     /\ adminSessions' = Append(adminSessions,
          [admin |-> r.admin, revoked |-> FALSE, password |-> r.password])
     /\ racedLogins' = IF r.password # admins[r.admin].password \/ Changing(r.admin)
                       THEN racedLogins \cup {s} ELSE racedLogins
     /\ End(q)
     /\ UNCHANGED admins

RevokeAdminSession(s) ==
  /\ SignedIn(s)
  /\ adminSessions' = [adminSessions EXCEPT ![s].revoked = TRUE]
  /\ UNCHANGED <<admins, adminRequests, racedLogins>>

------------------------------------------------------------------------------
(* Behind requireAdminReady: not before a password that must be changed was *)

CreateAdminBegin(q, s, a, e) ==
  /\ SignedIn(s)
  /\ LET actor == admins[adminSessions[s].admin]
     IN actor.role = "owner" /\ ~actor.mustChange
  /\ Start(q, [op |-> "create", admin |-> a, email |-> e])
  /\ UNCHANGED <<admins, adminSessions, racedLogins>>

CreateSuperAdmin(q) ==
  LET r == adminRequests[q]
  IN /\ r.op = "create" /\ ~AdminKnown(r.admin) /\ AdminEmailFree(r.email)
     /\ admins' = [admins EXCEPT ![r.admin] = [email |-> r.email, role |-> "super_admin",
                                               password |-> 1, mustChange |-> TRUE]]
     /\ End(q)
     /\ UNCHANGED <<adminSessions, racedLogins>>

\* With the current password in hand.
ChangeAdminEmail(s, e) ==
  LET a == adminSessions[s].admin
  IN /\ SignedIn(s) /\ ~Changing(a) /\ AdminEmailFree(e)
     /\ admins' = [admins EXCEPT ![a].email = e]
     /\ UNCHANGED <<adminSessions, adminRequests, racedLogins>>

SignedInOf(a) == {s \in DOMAIN adminSessions : adminSessions[s].admin = a /\ SignedIn(s)}

\* Of a signed-in admin, who enters the current password; its own session stays.
ChangePasswordBegin(q, s) ==
  LET a == adminSessions[s].admin
  IN /\ SignedIn(s) /\ ~Changing(a) /\ admins[a].password < MaxPasswords
     /\ Start(q, [op |-> "change", admin |-> a, own |-> {s}, seen |-> SignedInOf(a) \ {s}])
     /\ UNCHANGED <<admins, adminSessions, racedLogins>>

\* From the command line: every session goes, and the password must be changed again.
ResetPasswordBegin(q, a) ==
  /\ AdminKnown(a) /\ ~Changing(a) /\ admins[a].password < MaxPasswords
  /\ Start(q, [op |-> "reset", admin |-> a, own |-> {}, seen |-> SignedInOf(a)])
  /\ UNCHANGED <<admins, adminSessions, racedLogins>>

PasswordCommit_ResetKeepsSessions(q) ==
  LET r == adminRequests[q]
  IN /\ r.op \in {"change", "reset"}
     /\ admins' = [admins EXCEPT ![r.admin] =
          [admins[r.admin] EXCEPT !.password = @ + 1, !.mustChange = r.op = "reset"]]
     /\ adminSessions' = [s \in DOMAIN adminSessions |->
          [adminSessions[s] EXCEPT !.revoked = @ \/ (r.op = "change" /\ s \in r.seen),
                                   !.password = IF s \in r.own THEN admins[r.admin].password + 1
                                                ELSE @]]
     /\ End(q)
     /\ UNCHANGED racedLogins

PasswordCommit(q) ==
  LET r == adminRequests[q]
  IN /\ r.op \in {"change", "reset"}
     /\ admins' = [admins EXCEPT ![r.admin] =
          [admins[r.admin] EXCEPT !.password = @ + 1, !.mustChange = r.op = "reset"]]
     /\ adminSessions' = [s \in DOMAIN adminSessions |->
          [adminSessions[s] EXCEPT !.revoked = @ \/ s \in r.seen,
                                   !.password = IF s \in r.own THEN admins[r.admin].password + 1
                                                ELSE @]]
     /\ End(q)
     /\ UNCHANGED racedLogins

AdminNext ==
  \/ \E q \in AdminRequests :
       \/ \E a \in Admins, e \in AdminEmails :
            \/ \E bootstrap \in BOOLEAN : SetupBegin(q, a, e, bootstrap)
            \/ \E s \in DOMAIN adminSessions : CreateAdminBegin(q, s, a, e)
       \/ \E a \in Admins : LoginAdminRead(q, a) \/ ResetPasswordBegin(q, a)
       \/ \E s \in DOMAIN adminSessions : ChangePasswordBegin(q, s)
       \/ SetupCommit(q) \/ LoginAdminInsert(q) \/ CreateSuperAdmin(q) \/ PasswordCommit(q)
       \/ AdminRequestFails(q)
  \/ \E s \in DOMAIN adminSessions :
       RevokeAdminSession(s) \/ \E e \in AdminEmails : ChangeAdminEmail(s, e)

AdminSpec == AdminInit /\ [][AdminNext]_adminVars

------------------------------------------------------------------------------
\* However many replicas start and however many setups arrive at once, one owner comes of it,
\* and there is no admin without an owner.
OneOwner ==
  /\ Cardinality({a \in Admins : AdminKnown(a) /\ admins[a].role = "owner"}) <= 1
  /\ \A a \in Admins : AdminKnown(a) => \E x \in Admins : AdminKnown(x) /\ admins[x].role = "owner"

\* After a change or a reset nobody stays signed in with the old password, except a login that
\* compared it before and stored its session after.
SignedInWithCurrentPassword ==
  \A s \in DOMAIN adminSessions : SignedIn(s) =>
    \/ adminSessions[s].password = admins[adminSessions[s].admin].password
    \/ s \in racedLogins
==============================================================================
