----------------------------- MODULE AccessProofs ------------------------------
(***************************************************************************)
(* Proofs about AdminAuth, for any admins, addresses, requests and bounds, *)
(* and about RecordAccess, for any rules, filters, rows, callers and       *)
(* interleavings of their statements.                                      *)
(***************************************************************************)
EXTENDS AdminAuth, RecordAccess, FiniteSetTheorems, TLAPS

AdminRow == [email : AdminEmails \cup {NoAdminEmail}, role : {"owner", "super_admin"},
             password : Nat, mustChange : BOOLEAN]
SessionRow == [admin : Admins, revoked : BOOLEAN, password : Nat]
RowsOK == admins \in [Admins -> AdminRow] /\ adminSessions \in Seq(SessionRow)

\* What a request carries from its first step to its second.
RequestOK(r) ==
  /\ r.op = "setup" => r.admin \in Admins /\ r.email \in AdminEmails /\ r.mustChange \in BOOLEAN
  /\ r.op = "create" => r.admin \in Admins /\ r.email \in AdminEmails
  /\ r.op = "login" => r.admin \in Admins /\ r.password \in Nat
  /\ r.op \in {"change", "reset"} => r.admin \in Admins
RequestsOK ==
  DOMAIN adminRequests = AdminRequests /\ \A q \in AdminRequests : RequestOK(adminRequests[q])

SettingUp(q) == adminRequests[q].op = "setup"

\* The first admin is set up once: while that is under way there is nobody, and whoever logs in or
\* creates another one presupposes somebody.
SetupInv ==
  /\ \A p, q \in AdminRequests : SettingUp(p) /\ SettingUp(q) => p = q
  /\ (\E q \in AdminRequests : SettingUp(q)) => \A a \in Admins : ~AdminKnown(a)
  /\ \A q \in AdminRequests : adminRequests[q].op = "login" => AdminKnown(adminRequests[q].admin)
  /\ \A q \in AdminRequests : adminRequests[q].op = "create" => \E a \in Admins : AdminKnown(a)
  /\ \A s \in DOMAIN adminSessions : AdminKnown(adminSessions[s].admin)

Owner(a) == AdminKnown(a) /\ admins[a].role = "owner"
OwnerInv ==
  /\ \A a, b \in Admins : Owner(a) /\ Owner(b) => a = b
  /\ \A a \in Admins : AdminKnown(a) => \E b \in Admins : Owner(b)

AdminInv == RowsOK /\ RequestsOK /\ SetupInv /\ OwnerInv

\* The invariant gives the property: a set with at most one element has at most one.
LEMMA OwnersCounted == OwnerInv => OneOwner
<1> SUFFICES ASSUME OwnerInv PROVE OneOwner
  OBVIOUS
<1> DEFINE Owners == {a \in Admins : AdminKnown(a) /\ admins[a].role = "owner"}
<1>1. Cardinality(Owners) <= 1
  <2>1. CASE Owners = {}
    BY <2>1, FS_EmptySet
  <2>2. CASE Owners # {}
    <3>1. PICK a : a \in Owners
      BY <2>2
    <3>2. Owners = {a}
      BY <3>1 DEF OwnerInv, Owner
    <3>3. Cardinality({a}) = 1
      BY FS_Singleton
    <3> HIDE DEF Owners
    <3> QED BY <3>2, <3>3
  <2> QED BY <2>1, <2>2
<1>2. \A a \in Admins : AdminKnown(a) => \E x \in Admins : AdminKnown(x) /\ admins[x].role = "owner"
  BY DEF OwnerInv, Owner
<1> QED BY <1>1, <1>2 DEF OneOwner

\* A session is of an admin.
LEMMA SessionsAdmin ==
  ASSUME RowsOK, NEW s \in DOMAIN adminSessions
  PROVE  adminSessions[s] \in SessionRow /\ adminSessions[s].admin \in Admins
<1>1. adminSessions[s] \in SessionRow
  BY DEF RowsOK
<1> QED BY <1>1 DEF SessionRow

\* A step that rewrites sessions in place leaves a sequence of them.
LEMMA SessionsRewritten ==
  ASSUME RowsOK, NEW f, DOMAIN f = DOMAIN adminSessions, f = [s \in DOMAIN f |-> f[s]],
         \A s \in DOMAIN adminSessions : f[s] \in SessionRow
  PROVE  f \in Seq(SessionRow)
<1>1. PICK n \in Nat : DOMAIN adminSessions = 1 .. n
  <2>1. adminSessions \in Seq(SessionRow)
    BY DEF RowsOK
  <2> HIDE DEF SessionRow
  <2>2. Len(adminSessions) \in Nat /\ DOMAIN adminSessions = 1 .. Len(adminSessions)
    BY <2>1
  <2> QED BY <2>2
<1>2. f \in [1 .. n -> SessionRow]
  BY <1>1
<1> QED BY <1>1, <1>2

\* A new password leaves who the admin is.
LEMMA RowWithPassword ==
  ASSUME NEW m \in AdminRow, NEW b \in BOOLEAN
  PROVE  LET row == [m EXCEPT !.password = @ + 1, !.mustChange = b]
         IN row \in AdminRow /\ row.email = m.email /\ row.role = m.role
<1> DEFINE row == [m EXCEPT !.password = @ + 1, !.mustChange = b]
<1>1. DOMAIN row = {"email", "role", "password", "mustChange"} /\ DOMAIN row = DOMAIN m
  BY DEF AdminRow
<1>2. row.email = m.email /\ row.role = m.role
  BY DEF AdminRow
<1>3. row.password = m.password + 1 /\ row.password \in Nat
  BY DEF AdminRow
<1>4. row.mustChange = b
  BY DEF AdminRow
<1>5. row \in AdminRow
  BY <1>1, <1>2, <1>3, <1>4 DEF AdminRow
<1> QED BY <1>2, <1>5

LEMMA AdminInitially == ASSUME AdminAssumption, AdminInit PROVE AdminInv
<1> USE DEF AdminInit, NoAdminRequest, AdminKnown
<1>1. RowsOK
  BY DEF RowsOK, AdminRow, SessionRow
<1>2. RequestsOK
  BY DEF RequestsOK, RequestOK
<1>3. SetupInv
  BY DEF SetupInv, SettingUp
<1>4. OwnerInv
  BY DEF OwnerInv, Owner
<1> QED BY <1>1, <1>2, <1>3, <1>4 DEF AdminInv

\* A step that changes no row of an admin or a session, and replaces the request q by r.
LEMMA RequestMoves ==
  ASSUME AdminInv, NEW q \in AdminRequests, NEW r,
         adminRequests' = [adminRequests EXCEPT ![q] = r],
         UNCHANGED <<admins, adminSessions>>,
         RequestOK(r),
         r.op = "setup" => /\ \A p \in AdminRequests : ~SettingUp(p)
                           /\ \A a \in Admins : ~AdminKnown(a),
         r.op = "login" => AdminKnown(r.admin),
         r.op = "create" => \E a \in Admins : AdminKnown(a)
  PROVE  AdminInv'
<1>1. /\ DOMAIN adminRequests' = AdminRequests
      /\ \A p \in AdminRequests : adminRequests'[p] = IF p = q THEN r ELSE adminRequests[p]
  BY DEF AdminInv, RequestsOK
<1>2. RowsOK'
  BY DEF AdminInv, RowsOK
<1>3. RequestsOK'
  BY <1>1 DEF AdminInv, RequestsOK, RequestOK
<1>4. SetupInv'
  BY <1>1 DEF AdminInv, SetupInv, SettingUp, AdminKnown
<1>5. OwnerInv'
  BY DEF AdminInv, OwnerInv, Owner, AdminKnown
<1> QED BY <1>2, <1>3, <1>4, <1>5 DEF AdminInv

\* The request that ends is one of those that neither set up, log in nor create.
LEMMA Ended == RequestOK(NoAdminRequest) /\ NoAdminRequest.op = "none"
BY DEF RequestOK, NoAdminRequest

LEMMA Preserved == ASSUME AdminAssumption, AdminInv, [AdminNext]_adminVars PROVE AdminInv'
<1>1. CASE UNCHANGED adminVars
  BY <1>1 DEF adminVars, AdminInv, RowsOK, RequestsOK, SetupInv, SettingUp, OwnerInv, Owner, AdminKnown
<1>2. ASSUME NEW q \in AdminRequests, NEW a \in Admins, NEW e \in AdminEmails, NEW b \in BOOLEAN,
             SetupBegin(q, a, e, b)
      PROVE  AdminInv'
  <2> DEFINE r == [op |-> "setup", admin |-> a, email |-> e, mustChange |-> b]
  <2>1. RequestOK(r) /\ r.op = "setup"
    BY DEF RequestOK
  <2>2. adminRequests' = [adminRequests EXCEPT ![q] = r] /\ UNCHANGED <<admins, adminSessions>>
    BY <1>2 DEF SetupBegin, Start
  <2>3. (\A p \in AdminRequests : ~SettingUp(p)) /\ \A x \in Admins : ~AdminKnown(x)
    BY <1>2 DEF SetupBegin, SetupLockFree, SettingUp
  <2> HIDE DEF r
  <2> QED BY <2>1, <2>2, <2>3, RequestMoves
<1>3. ASSUME NEW q \in AdminRequests, NEW s \in DOMAIN adminSessions, NEW a \in Admins,
             NEW e \in AdminEmails, CreateAdminBegin(q, s, a, e)
      PROVE  AdminInv'
  <2> DEFINE r == [op |-> "create", admin |-> a, email |-> e]
  <2>1. RequestOK(r) /\ r.op = "create"
    BY DEF RequestOK
  <2>2. adminRequests' = [adminRequests EXCEPT ![q] = r] /\ UNCHANGED <<admins, adminSessions>>
    BY <1>3 DEF CreateAdminBegin, Start
  <2>3. \E x \in Admins : AdminKnown(x)
    <3>1. adminSessions[s].admin \in Admins
      BY SessionsAdmin DEF AdminInv
    <3> QED BY <3>1 DEF AdminInv, SetupInv
  <2> HIDE DEF r
  <2> QED BY <2>1, <2>2, <2>3, RequestMoves
<1>4. ASSUME NEW q \in AdminRequests, NEW a \in Admins, LoginAdminRead(q, a) PROVE AdminInv'
  <2> DEFINE r == [op |-> "login", admin |-> a, password |-> admins[a].password]
  <2>1. RequestOK(r) /\ r.op = "login" /\ r.admin = a
    BY DEF RequestOK, AdminInv, RowsOK, AdminRow
  <2>2. adminRequests' = [adminRequests EXCEPT ![q] = r] /\ UNCHANGED <<admins, adminSessions>>
    BY <1>4 DEF LoginAdminRead, Start
  <2>3. AdminKnown(a)
    BY <1>4 DEF LoginAdminRead
  <2> HIDE DEF r
  <2> QED BY <2>1, <2>2, <2>3, RequestMoves
<1>5. ASSUME NEW q \in AdminRequests, NEW s \in DOMAIN adminSessions, ChangePasswordBegin(q, s)
      PROVE  AdminInv'
  <2> DEFINE a == adminSessions[s].admin
             r == [op |-> "change", admin |-> a, own |-> {s}, seen |-> SignedInOf(a) \ {s}]
  <2>1. RequestOK(r) /\ r.op = "change"
    BY SessionsAdmin DEF RequestOK, AdminInv
  <2>2. adminRequests' = [adminRequests EXCEPT ![q] = r] /\ UNCHANGED <<admins, adminSessions>>
    BY <1>5 DEF ChangePasswordBegin, Start
  <2> HIDE DEF r
  <2> QED BY <2>1, <2>2, RequestMoves
<1>6. ASSUME NEW q \in AdminRequests, NEW a \in Admins, ResetPasswordBegin(q, a) PROVE AdminInv'
  <2> DEFINE r == [op |-> "reset", admin |-> a, own |-> {}, seen |-> SignedInOf(a)]
  <2>1. RequestOK(r) /\ r.op = "reset"
    BY DEF RequestOK
  <2>2. adminRequests' = [adminRequests EXCEPT ![q] = r] /\ UNCHANGED <<admins, adminSessions>>
    BY <1>6 DEF ResetPasswordBegin, Start
  <2> HIDE DEF r
  <2> QED BY <2>1, <2>2, RequestMoves
<1>7. ASSUME NEW q \in AdminRequests, AdminRequestFails(q) PROVE AdminInv'
  <2>1. adminRequests' = [adminRequests EXCEPT ![q] = NoAdminRequest]
        /\ UNCHANGED <<admins, adminSessions>>
    BY <1>7 DEF AdminRequestFails, End
  <2> QED BY <2>1, Ended, RequestMoves
<1>8. ASSUME NEW q \in AdminRequests, SetupCommit(q) PROVE AdminInv'
  <2>1. PICK a \in Admins : /\ a = adminRequests[q].admin /\ SettingUp(q)
                            /\ \A x \in Admins : ~AdminKnown(x)
    BY <1>8 DEF SetupCommit, SettingUp, AdminInv, RequestsOK, RequestOK, SetupInv
  <2>2. /\ admins' \in [Admins -> AdminRow]
        /\ \A x \in Admins : x # a => admins'[x] = admins[x]
        /\ admins'[a].email \in AdminEmails /\ admins'[a].role = "owner"
    BY <1>8, <2>1 DEF SetupCommit, AdminInv, RowsOK, RequestsOK, RequestOK, AdminRow
  <2>3. /\ DOMAIN adminRequests' = AdminRequests
        /\ \A p \in AdminRequests :
             adminRequests'[p] = IF p = q THEN NoAdminRequest ELSE adminRequests[p]
        /\ UNCHANGED adminSessions
    BY <1>8 DEF SetupCommit, End, AdminInv, RequestsOK
  <2>4. RequestsOK'
    BY <2>3, Ended DEF AdminInv, RequestsOK, RequestOK
  <2>5. Owner(a)' /\ \A x \in Admins : x # a => ~AdminKnown(x)'
    BY <2>1, <2>2, AdminAssumption DEF Owner, AdminKnown, AdminAssumption
  <2>6. SetupInv'
    <3>1. \A p \in AdminRequests : ~SettingUp(p)'
      BY <2>1, <2>3, Ended DEF AdminInv, SetupInv, SettingUp
    <3>2. \A p \in AdminRequests : adminRequests'[p].op # "login"
      BY <2>1, <2>3, Ended DEF AdminInv, SetupInv, RequestsOK, RequestOK
    <3>3. DOMAIN adminSessions = {}
      BY <2>1, SessionsAdmin DEF AdminInv, SetupInv
    <3> QED BY <2>1, <2>3, <2>5, <3>1, <3>2, <3>3 DEF SetupInv, Owner
  <2>7. OwnerInv'
    BY <2>1, <2>5 DEF OwnerInv, Owner
  <2> QED BY <2>2, <2>3, <2>4, <2>6, <2>7 DEF AdminInv, RowsOK
<1>9. ASSUME NEW q \in AdminRequests, CreateSuperAdmin(q) PROVE AdminInv'
  <2>1. PICK a \in Admins : /\ a = adminRequests[q].admin /\ ~AdminKnown(a)
                            /\ \E x \in Admins : AdminKnown(x)
    BY <1>9 DEF CreateSuperAdmin, AdminInv, RequestsOK, RequestOK, SetupInv
  <2>2. /\ admins' \in [Admins -> AdminRow]
        /\ \A x \in Admins : x # a => admins'[x] = admins[x]
        /\ admins'[a].email \in AdminEmails /\ admins'[a].role = "super_admin"
    BY <1>9, <2>1 DEF CreateSuperAdmin, AdminInv, RowsOK, RequestsOK, RequestOK, AdminRow
  <2>3. /\ DOMAIN adminRequests' = AdminRequests
        /\ \A p \in AdminRequests :
             adminRequests'[p] = IF p = q THEN NoAdminRequest ELSE adminRequests[p]
        /\ UNCHANGED adminSessions
    BY <1>9 DEF CreateSuperAdmin, End, AdminInv, RequestsOK
  <2>4. RequestsOK'
    BY <2>3, Ended DEF AdminInv, RequestsOK, RequestOK
  <2>5. \A x \in Admins : /\ AdminKnown(x)' <=> x = a \/ AdminKnown(x)
                          /\ Owner(x)' <=> Owner(x)
    BY <2>1, <2>2, AdminAssumption DEF Owner, AdminKnown, AdminAssumption
  <2>6. SetupInv'
    <3>1. \A p \in AdminRequests : ~SettingUp(p)'
      BY <2>1, <2>3, Ended DEF AdminInv, SetupInv, SettingUp
    <3>2. \A p \in AdminRequests : (adminRequests[p].op = "login")' => AdminKnown(adminRequests[p].admin)'
      BY <2>3, <2>5, Ended DEF AdminInv, SetupInv, RequestsOK, RequestOK, AdminKnown
    <3>3. \A s \in DOMAIN adminSessions' : AdminKnown(adminSessions[s].admin)'
      BY <2>3, <2>5, SessionsAdmin DEF AdminInv, SetupInv, AdminKnown
    <3> QED BY <2>1, <2>5, <3>1, <3>2, <3>3 DEF SetupInv
  <2>7. OwnerInv'
    BY <2>1, <2>5 DEF AdminInv, OwnerInv
  <2> QED BY <2>2, <2>3, <2>4, <2>6, <2>7 DEF AdminInv, RowsOK
<1>10. ASSUME NEW q \in AdminRequests, LoginAdminInsert(q) PROVE AdminInv'
  <2> DEFINE r == adminRequests[q]
             row == [admin |-> r.admin, revoked |-> FALSE, password |-> r.password]
  <2>1. row \in SessionRow /\ AdminKnown(row.admin)
    BY <1>10 DEF LoginAdminInsert, AdminInv, RequestsOK, RequestOK, SetupInv, SessionRow
  <2>2. adminSessions' = Append(adminSessions, row) /\ UNCHANGED admins
    BY <1>10 DEF LoginAdminInsert
  <2>3. /\ DOMAIN adminRequests' = AdminRequests
        /\ \A p \in AdminRequests :
             adminRequests'[p] = IF p = q THEN NoAdminRequest ELSE adminRequests[p]
    BY <1>10 DEF LoginAdminInsert, End, AdminInv, RequestsOK
  <2> HIDE DEF row
  <2>4. /\ adminSessions' \in Seq(SessionRow)
        /\ \A s \in DOMAIN adminSessions' : \/ adminSessions'[s] = row
                                            \/ s \in DOMAIN adminSessions /\ adminSessions'[s] = adminSessions[s]
    BY <2>1, <2>2 DEF AdminInv, RowsOK
  <2>5. RequestsOK'
    BY <2>3, Ended DEF AdminInv, RequestsOK, RequestOK
  <2>6. SetupInv'
    BY <2>1, <2>2, <2>3, <2>4, Ended DEF AdminInv, SetupInv, SettingUp, AdminKnown
  <2>7. OwnerInv'
    BY <2>2 DEF AdminInv, OwnerInv, Owner, AdminKnown
  <2> QED BY <2>2, <2>4, <2>5, <2>6, <2>7 DEF AdminInv, RowsOK
<1>11. ASSUME NEW q \in AdminRequests, PasswordCommit(q) PROVE AdminInv'
  <2> DEFINE r == adminRequests[q]
  <2>0. r.admin \in Admins /\ admins[r.admin] \in AdminRow
    BY <1>11 DEF PasswordCommit, AdminInv, RequestsOK, RequestOK, RowsOK
  <2>1. /\ admins' \in [Admins -> AdminRow]
        /\ \A a \in Admins : admins'[a].email = admins[a].email /\ admins'[a].role = admins[a].role
    <3> DEFINE forced == r.op = "reset"
               row == [admins[r.admin] EXCEPT !.password = @ + 1, !.mustChange = forced]
    <3>1. admins' = [admins EXCEPT ![r.admin] = row]
      BY <1>11 DEF PasswordCommit
    <3>2. forced \in BOOLEAN
      OBVIOUS
    <3> HIDE DEF forced
    <3>3. /\ row \in AdminRow
          /\ row.email = admins[r.admin].email /\ row.role = admins[r.admin].role
      BY <2>0, <3>2, RowWithPassword
    <3> HIDE DEF row
    <3> QED BY <2>0, <3>1, <3>3 DEF AdminInv, RowsOK
  <2>2. /\ DOMAIN adminRequests' = AdminRequests
        /\ \A p \in AdminRequests :
             adminRequests'[p] = IF p = q THEN NoAdminRequest ELSE adminRequests[p]
    BY <1>11 DEF PasswordCommit, End, AdminInv, RequestsOK
  <2>3. /\ adminSessions' \in Seq(SessionRow)
        /\ DOMAIN adminSessions' = DOMAIN adminSessions
        /\ \A s \in DOMAIN adminSessions : adminSessions'[s].admin = adminSessions[s].admin
    <3> DEFINE row(s) == [adminSessions[s] EXCEPT !.revoked = @ \/ s \in r.seen,
                            !.password = IF s \in r.own THEN admins[r.admin].password + 1 ELSE @]
    <3>1. adminSessions' = [s \in DOMAIN adminSessions |-> row(s)]
      BY <1>11 DEF PasswordCommit
    <3>2. ASSUME NEW s \in DOMAIN adminSessions
          PROVE  row(s) \in SessionRow /\ row(s).admin = adminSessions[s].admin
      <4>1. adminSessions[s] \in SessionRow
        BY SessionsAdmin DEF AdminInv
      <4>2. s \in r.own => admins[r.admin].password + 1 \in Nat
        BY <2>0 DEF AdminRow
      <4> QED BY <4>1, <4>2 DEF SessionRow
    <3> HIDE DEF row
    <3> QED BY <3>1, <3>2, SessionsRewritten DEF AdminInv
  <2>4. \A a \in Admins : /\ AdminKnown(a)' <=> AdminKnown(a)
                          /\ Owner(a)' <=> Owner(a)
    BY <2>1 DEF AdminKnown, Owner
  <2>5. RequestsOK'
    BY <2>2, Ended DEF AdminInv, RequestsOK, RequestOK
  <2>6. SetupInv'
    <3>1. \A p \in AdminRequests : (adminRequests[p].op = "login")' => AdminKnown(adminRequests[p].admin)'
      BY <2>2, <2>4, Ended DEF AdminInv, SetupInv, RequestsOK, RequestOK, AdminKnown
    <3>2. \A s \in DOMAIN adminSessions' : AdminKnown(adminSessions[s].admin)'
      BY <2>3, <2>4, SessionsAdmin DEF AdminInv, SetupInv, AdminKnown
    <3> QED BY <2>2, <2>4, <3>1, <3>2, Ended DEF AdminInv, SetupInv, SettingUp
  <2>7. OwnerInv'
    BY <2>4 DEF AdminInv, OwnerInv
  <2> QED BY <2>1, <2>3, <2>5, <2>6, <2>7 DEF AdminInv, RowsOK
<1>12. ASSUME NEW s \in DOMAIN adminSessions, RevokeAdminSession(s) PROVE AdminInv'
  <2>1. /\ adminSessions' \in Seq(SessionRow)
        /\ DOMAIN adminSessions' = DOMAIN adminSessions
        /\ \A x \in DOMAIN adminSessions : adminSessions'[x].admin = adminSessions[x].admin
    <3> DEFINE row == [adminSessions[s] EXCEPT !.revoked = TRUE]
    <3>1. adminSessions' = [adminSessions EXCEPT ![s] = row]
      BY <1>12 DEF RevokeAdminSession
    <3>2. row \in SessionRow /\ row.admin = adminSessions[s].admin
      BY SessionsAdmin DEF AdminInv, SessionRow
    <3> HIDE DEF row
    <3>3. adminSessions \in Seq(SessionRow)
      BY DEF AdminInv, RowsOK
    <3> QED BY <3>1, <3>2, <3>3
  <2> QED BY <1>12, <2>1 DEF RevokeAdminSession, AdminInv, RowsOK, RequestsOK, SetupInv, SettingUp,
                             OwnerInv, Owner, AdminKnown
<1>13. ASSUME NEW s \in DOMAIN adminSessions, NEW e \in AdminEmails, ChangeAdminEmail(s, e)
       PROVE  AdminInv'
  <2>1. PICK a \in Admins : a = adminSessions[s].admin /\ AdminKnown(a)
    BY SessionsAdmin DEF AdminInv, SetupInv
  <2>2. /\ admins' \in [Admins -> AdminRow]
        /\ \A x \in Admins : x # a => admins'[x] = admins[x]
        /\ admins'[a].email = e /\ admins'[a].role = admins[a].role
    BY <1>13, <2>1 DEF ChangeAdminEmail, AdminInv, RowsOK, AdminRow
  <2>3. \A x \in Admins : /\ AdminKnown(x)' <=> AdminKnown(x)
                          /\ Owner(x)' <=> Owner(x)
    BY <2>1, <2>2, AdminAssumption DEF Owner, AdminKnown, AdminAssumption
  <2>4. UNCHANGED <<adminSessions, adminRequests>>
    BY <1>13 DEF ChangeAdminEmail
  <2>5. SetupInv'
    <3>1. \A p \in AdminRequests :
            (adminRequests[p].op = "login" => AdminKnown(adminRequests[p].admin))'
      BY <2>3, <2>4 DEF AdminInv, SetupInv, RequestsOK, RequestOK, AdminKnown
    <3>2. \A x \in DOMAIN adminSessions : AdminKnown(adminSessions[x].admin)'
      BY <2>3, <2>4, SessionsAdmin DEF AdminInv, SetupInv, AdminKnown
    <3> QED BY <2>3, <2>4, <3>1, <3>2 DEF AdminInv, SetupInv, SettingUp
  <2>6. OwnerInv'
    BY <2>3 DEF AdminInv, OwnerInv
  <2> QED BY <2>2, <2>4, <2>5, <2>6 DEF AdminInv, RowsOK, RequestsOK
<1> QED BY <1>1, <1>2, <1>3, <1>4, <1>5, <1>6, <1>7, <1>8, <1>9, <1>10, <1>11, <1>12, <1>13
        DEF AdminNext

\* However many setups race, over HTTP and at the start of replicas, and whatever is created,
\* changed and reset afterwards, there is one owner as soon as there is an admin: for any number
\* of requests and admins (createFirstAdminWithOptions, CreateSuperAdmin).
THEOREM OneOwnerAlways == ASSUME AdminAssumption PROVE AdminSpec => []OneOwner
<1>1. AdminInit => AdminInv
  BY AdminInitially
<1>2. AdminInv /\ [AdminNext]_adminVars => AdminInv'
  BY Preserved
<1>3. AdminInv => OneOwner
  BY OwnersCounted DEF AdminInv
<1> QED BY <1>1, <1>2, <1>3, PTL DEF AdminSpec

------------------------------------------------------------------------------
(* Passwords *)

Changes(q, a) == adminRequests[q].op \in {"change", "reset"} /\ adminRequests[q].admin = a

\* One change of an admin's password is under way at most; whoever is signed in and no login
\* that raced it is seen by it, or is its own session.
PasswordInv ==
  /\ \A p, q \in AdminRequests : \A a \in Admins : Changes(p, a) /\ Changes(q, a) => p = q
  /\ \A q \in AdminRequests, a \in Admins : Changes(q, a) =>
       /\ \A s \in adminRequests[q].own :
            s \in DOMAIN adminSessions /\ adminSessions[s].admin = a
       /\ \A s \in SignedInOf(a) \ racedLogins :
            s \in adminRequests[q].seen \cup adminRequests[q].own
  /\ SignedInWithCurrentPassword

\* Sessions end and rows keep their passwords.
LEMMA FewerSignedIn ==
  ASSUME AdminInv, PasswordInv, UNCHANGED racedLogins,
         DOMAIN adminSessions' = DOMAIN adminSessions,
         \A s \in DOMAIN adminSessions :
           /\ adminSessions'[s].admin = adminSessions[s].admin
           /\ SignedIn(s)' => SignedIn(s)
           /\ adminSessions'[s].password = adminSessions[s].password,
         \A s \in DOMAIN adminSessions :
           LET a == adminSessions[s].admin IN admins'[a].password = admins[a].password,
         \A p \in AdminRequests :
           \/ adminRequests'[p] = adminRequests[p]
           \/ adminRequests'[p].op \notin {"change", "reset"}
  PROVE  PasswordInv'
<1>1. \A p \in AdminRequests, a \in Admins : Changes(p, a)' =>
        Changes(p, a) /\ adminRequests'[p] = adminRequests[p]
  BY DEF Changes
<1>2. \A a \in Admins : SignedInOf(a)' \subseteq SignedInOf(a)
  BY DEF SignedInOf
<1>3. SignedInWithCurrentPassword'
  BY DEF PasswordInv, SignedInWithCurrentPassword
<1> QED BY <1>1, <1>2, <1>3 DEF PasswordInv

\* A new change begins with what it sees.
LEMMA ChangeBegins ==
  ASSUME AdminInv, PasswordInv, NEW q \in AdminRequests, NEW a \in Admins, NEW op, NEW own,
         ~Changing(a), own \subseteq SignedInOf(a),
         adminRequests' = [adminRequests EXCEPT ![q] =
           [op |-> op, admin |-> a, own |-> own, seen |-> SignedInOf(a) \ own]],
         UNCHANGED <<admins, adminSessions, racedLogins>>
  PROVE  PasswordInv'
<1> DEFINE r == [op |-> op, admin |-> a, own |-> own, seen |-> SignedInOf(a) \ own]
<1>1. /\ r.admin = a /\ r.own = own /\ r.seen = SignedInOf(a) \ own
  OBVIOUS
<1>2. /\ adminRequests'[q] = r
      /\ \A p \in AdminRequests \ {q} : adminRequests'[p] = adminRequests[p]
  BY DEF AdminInv, RequestsOK
<1> HIDE DEF r
<1>3. \A p \in AdminRequests : ~Changes(p, a)
  BY DEF Changing, Changes
<1>4. \A p \in AdminRequests, b \in Admins :
        Changes(p, b)' => (p = q /\ b = a) \/ (p # q /\ b # a /\ Changes(p, b))
  BY <1>1, <1>2, <1>3 DEF Changes
<1>5. \A b \in Admins : SignedInOf(b)' = SignedInOf(b)
  BY DEF SignedInOf, SignedIn
<1>6. SignedInWithCurrentPassword'
  BY DEF PasswordInv, SignedInWithCurrentPassword, SignedIn
<1>7. \A s \in own : s \in DOMAIN adminSessions /\ adminSessions[s].admin = a
  BY DEF SignedInOf
<1>8. ASSUME NEW p \in AdminRequests, NEW b \in Admins, Changes(p, b)'
      PROVE  /\ \A s \in adminRequests'[p].own :
                  s \in DOMAIN adminSessions' /\ adminSessions'[s].admin = b
             /\ \A s \in SignedInOf(b)' \ racedLogins' :
                  s \in adminRequests'[p].seen \cup adminRequests'[p].own
  <2>1. CASE p = q /\ b = a
    BY <1>1, <1>2, <1>5, <1>7, <2>1
  <2>2. CASE p # q /\ Changes(p, b)
    BY <1>2, <1>5, <2>2 DEF PasswordInv
  <2> QED BY <1>4, <1>8, <2>1, <2>2
<1>9. \A p, x \in AdminRequests : \A b \in Admins : Changes(p, b)' /\ Changes(x, b)' => p = x
  BY <1>4 DEF PasswordInv
<1> QED BY <1>6, <1>8, <1>9 DEF PasswordInv

\* A login that compared an old password, or meets a change under way, is one that raced it.
LEMMA LoginInserted ==
  ASSUME AdminInv, PasswordInv, NEW q \in AdminRequests, LoginAdminInsert(q)
  PROVE  PasswordInv'
<1> DEFINE r == adminRequests[q]
           a == r.admin
           row == [admin |-> a, revoked |-> FALSE, password |-> r.password]
<1> PICK n : n = Len(adminSessions) + 1
  OBVIOUS
<1>1. RequestOK(r) /\ r.op = "login"
  BY DEF AdminInv, RequestsOK, LoginAdminInsert
<1>2. /\ a \in Admins /\ row \in SessionRow /\ row.admin = a /\ row.password = r.password
  BY <1>1 DEF RequestOK, SessionRow
<1>3. /\ adminSessions' = Append(adminSessions, row) /\ UNCHANGED admins
      /\ racedLogins' = IF r.password # admins[a].password \/ Changing(a)
                        THEN racedLogins \cup {n} ELSE racedLogins
  BY DEF LoginAdminInsert
<1>4. \A p \in AdminRequests :
        adminRequests'[p] = IF p = q THEN NoAdminRequest ELSE adminRequests[p]
  BY DEF LoginAdminInsert, End, AdminInv, RequestsOK
<1> HIDE DEF row, r, a
<1>5. /\ DOMAIN adminSessions' = DOMAIN adminSessions \cup {n} /\ n \notin DOMAIN adminSessions
      /\ \A s \in DOMAIN adminSessions : adminSessions'[s] = adminSessions[s]
      /\ adminSessions'[n] = row
  <2>1. adminSessions \in Seq(SessionRow)
    BY DEF AdminInv, RowsOK
  <2> HIDE DEF SessionRow
  <2> QED BY <1>2, <1>3, <2>1
<1>6. racedLogins \subseteq racedLogins'
  BY <1>3
<1>7. n \notin racedLogins' => r.password = admins[a].password /\ ~Changing(a)
  BY <1>3
<1>8. \A p \in AdminRequests, b \in Admins :
        Changes(p, b)' => Changes(p, b) /\ adminRequests'[p] = adminRequests[p]
  BY <1>4, Ended DEF Changes
<1>9. \A b \in Admins : SignedInOf(b)' \subseteq
        SignedInOf(b) \cup (IF b = a THEN {n} ELSE {})
  BY <1>2, <1>5 DEF SignedInOf, SignedIn
<1>10. SignedInWithCurrentPassword'
  BY <1>2, <1>3, <1>5, <1>6, <1>7 DEF PasswordInv, SignedInWithCurrentPassword, SignedIn
<1>11. ASSUME NEW p \in AdminRequests, NEW b \in Admins, Changes(p, b)'
       PROVE  /\ \A s \in adminRequests'[p].own :
                   s \in DOMAIN adminSessions' /\ adminSessions'[s].admin = b
              /\ \A s \in SignedInOf(b)' \ racedLogins' :
                   s \in adminRequests'[p].seen \cup adminRequests'[p].own
  <2>1. Changes(p, b) /\ adminRequests'[p] = adminRequests[p]
    BY <1>8, <1>11
  <2>2. b = a => n \in racedLogins'
    BY <1>7, <2>1 DEF Changing, Changes
  <2> QED BY <1>5, <1>6, <1>9, <2>1, <2>2 DEF PasswordInv
<1> QED BY <1>8, <1>10, <1>11 DEF PasswordInv

\* What a change did not see is its own session, or raced it.
LEMMA PasswordCommitted ==
  ASSUME AdminInv, PasswordInv, NEW q \in AdminRequests, PasswordCommit(q)
  PROVE  PasswordInv'
<1> DEFINE r == adminRequests[q]
           a == r.admin
<1>1. RequestOK(r) /\ r.op \in {"change", "reset"}
  BY DEF AdminInv, RequestsOK, PasswordCommit
<1>2. a \in Admins /\ admins[a] \in AdminRow /\ Changes(q, a)
  BY <1>1 DEF RequestOK, AdminInv, RowsOK, Changes
<1>3. /\ admins'[a].password = admins[a].password + 1
      /\ \A b \in Admins \ {a} : admins'[b] = admins[b]
  <2> DEFINE forced == r.op = "reset"
             row == [admins[a] EXCEPT !.password = @ + 1, !.mustChange = forced]
  <2>1. admins' = [admins EXCEPT ![a] = row]
    BY DEF PasswordCommit
  <2>2. row.password = admins[a].password + 1
    BY <1>2 DEF AdminRow
  <2> HIDE DEF row
  <2> QED BY <1>2, <2>1, <2>2 DEF AdminInv, RowsOK
<1>4. UNCHANGED racedLogins /\ \A p \in AdminRequests :
        adminRequests'[p] = IF p = q THEN NoAdminRequest ELSE adminRequests[p]
  BY DEF PasswordCommit, End, AdminInv, RequestsOK
<1>5. /\ DOMAIN adminSessions' = DOMAIN adminSessions
      /\ \A s \in DOMAIN adminSessions :
           /\ adminSessions'[s].admin = adminSessions[s].admin
           /\ adminSessions'[s].revoked = (adminSessions[s].revoked \/ s \in r.seen)
           /\ adminSessions'[s].password =
                IF s \in r.own THEN admins[a].password + 1 ELSE adminSessions[s].password
  <2> DEFINE row(s) == [adminSessions[s] EXCEPT !.revoked = @ \/ s \in r.seen,
                          !.password = IF s \in r.own THEN admins[a].password + 1 ELSE @]
  <2>1. adminSessions' = [s \in DOMAIN adminSessions |-> row(s)]
    BY DEF PasswordCommit
  <2>2. ASSUME NEW s \in DOMAIN adminSessions
        PROVE  /\ row(s).admin = adminSessions[s].admin
               /\ row(s).revoked = (adminSessions[s].revoked \/ s \in r.seen)
               /\ row(s).password =
                    IF s \in r.own THEN admins[a].password + 1 ELSE adminSessions[s].password
    <3>1. adminSessions[s] \in SessionRow
      BY SessionsAdmin DEF AdminInv
    <3> QED BY <3>1 DEF SessionRow
  <2> HIDE DEF row
  <2> QED BY <2>1, <2>2
<1> HIDE DEF r, a
<1>6. \A p \in AdminRequests, b \in Admins :
        Changes(p, b)' => Changes(p, b) /\ adminRequests'[p] = adminRequests[p] /\ b # a
  <2>1. \A p \in AdminRequests \ {q} : ~Changes(p, a)
    BY <1>2 DEF PasswordInv
  <2> QED BY <1>4, <2>1, Ended DEF Changes
<1>7. \A b \in Admins : SignedInOf(b)' \subseteq SignedInOf(b)
  BY <1>5 DEF SignedInOf, SignedIn
<1>8. ASSUME NEW s \in DOMAIN adminSessions, SignedIn(s)', s \notin racedLogins
      PROVE  adminSessions'[s].password = admins'[adminSessions'[s].admin].password
  <2>1. SignedIn(s) /\ s \notin r.seen /\ adminSessions[s].admin \in Admins
    BY <1>5, <1>8, SessionsAdmin DEF SignedIn, AdminInv
  <2>2. CASE adminSessions[s].admin = a
    <3>1. s \in SignedInOf(a) \ racedLogins
      BY <1>8, <2>1, <2>2 DEF SignedInOf
    <3>2. s \in r.own
      BY <1>2, <2>1, <3>1 DEF PasswordInv, r
    <3> QED BY <1>3, <1>5, <2>2, <3>2
  <2>3. CASE adminSessions[s].admin # a
    <3>1. s \notin r.own
      BY <1>2, <2>3 DEF PasswordInv, r
    <3>2. adminSessions[s].password = admins[adminSessions[s].admin].password
      BY <1>8, <2>1 DEF PasswordInv, SignedInWithCurrentPassword
    <3> QED BY <1>3, <1>5, <2>1, <2>3, <3>1, <3>2
  <2> QED BY <2>2, <2>3
<1>9. SignedInWithCurrentPassword'
  BY <1>4, <1>5, <1>8 DEF SignedInWithCurrentPassword
<1>10. ASSUME NEW p \in AdminRequests, NEW b \in Admins, Changes(p, b)'
       PROVE  /\ \A s \in adminRequests'[p].own :
                   s \in DOMAIN adminSessions' /\ adminSessions'[s].admin = b
              /\ \A s \in SignedInOf(b)' \ racedLogins' :
                   s \in adminRequests'[p].seen \cup adminRequests'[p].own
  BY <1>4, <1>5, <1>6, <1>7, <1>10 DEF PasswordInv
<1> QED BY <1>6, <1>9, <1>10 DEF PasswordInv

LEMMA PasswordsPreserved ==
  ASSUME AdminAssumption, AdminInv, PasswordInv, [AdminNext]_adminVars
  PROVE  PasswordInv'
<1>1. CASE UNCHANGED adminVars
  BY <1>1, FewerSignedIn DEF adminVars, SignedIn
<1>2. ASSUME NEW q \in AdminRequests, NEW r, adminRequests' = [adminRequests EXCEPT ![q] = r],
             r.op \notin {"change", "reset"}
      PROVE  \A p \in AdminRequests : \/ adminRequests'[p] = adminRequests[p]
                                       \/ adminRequests'[p].op \notin {"change", "reset"}
  BY <1>2 DEF AdminInv, RequestsOK
<1>3. ASSUME NEW q \in AdminRequests, NEW r, adminRequests' = [adminRequests EXCEPT ![q] = r],
             r.op \notin {"change", "reset"}, UNCHANGED <<admins, adminSessions, racedLogins>>
      PROVE  PasswordInv'
  <2>1. \A p \in AdminRequests : \/ adminRequests'[p] = adminRequests[p]
                                 \/ adminRequests'[p].op \notin {"change", "reset"}
    BY <1>2, <1>3
  <2> QED BY <1>3, <2>1, FewerSignedIn DEF SignedIn
<1>4. ASSUME NEW q \in AdminRequests, NEW a \in Admins, NEW e \in AdminEmails, NEW b \in BOOLEAN,
             SetupBegin(q, a, e, b)
      PROVE  PasswordInv'
  <2> DEFINE r == [op |-> "setup", admin |-> a, email |-> e, mustChange |-> b]
  <2>1. adminRequests' = [adminRequests EXCEPT ![q] = r] /\ UNCHANGED <<admins, adminSessions, racedLogins>>
    BY <1>4 DEF SetupBegin, Start
  <2>2. r.op \notin {"change", "reset"}
    OBVIOUS
  <2> HIDE DEF r
  <2> QED BY <1>3, <2>1, <2>2
<1>11. ASSUME NEW q \in AdminRequests, NEW a \in Admins, NEW e \in AdminEmails,
              NEW s \in DOMAIN adminSessions, CreateAdminBegin(q, s, a, e)
       PROVE  PasswordInv'
  <2> DEFINE r == [op |-> "create", admin |-> a, email |-> e]
  <2>1. adminRequests' = [adminRequests EXCEPT ![q] = r] /\ UNCHANGED <<admins, adminSessions, racedLogins>>
    BY <1>11 DEF CreateAdminBegin, Start
  <2>2. r.op \notin {"change", "reset"}
    OBVIOUS
  <2> HIDE DEF r
  <2> QED BY <1>3, <2>1, <2>2
<1>12. ASSUME NEW q \in AdminRequests, NEW a \in Admins, LoginAdminRead(q, a) PROVE PasswordInv'
  <2> DEFINE r == [op |-> "login", admin |-> a, password |-> admins[a].password]
  <2>1. adminRequests' = [adminRequests EXCEPT ![q] = r] /\ UNCHANGED <<admins, adminSessions, racedLogins>>
    BY <1>12 DEF LoginAdminRead, Start
  <2>2. r.op \notin {"change", "reset"}
    OBVIOUS
  <2> HIDE DEF r
  <2> QED BY <1>3, <2>1, <2>2
<1>5. ASSUME NEW q \in AdminRequests, AdminRequestFails(q) PROVE PasswordInv'
  BY <1>3, <1>5, Ended DEF AdminRequestFails, End
<1>6. ASSUME NEW q \in AdminRequests, NEW s \in DOMAIN adminSessions, ChangePasswordBegin(q, s)
      PROVE  PasswordInv'
  <2> DEFINE a == adminSessions[s].admin
             own == {s}
  <2>1. a \in Admins /\ own \subseteq SignedInOf(a) /\ ~Changing(a)
    BY <1>6, SessionsAdmin DEF AdminInv, SignedInOf, ChangePasswordBegin
  <2>2. /\ adminRequests' = [adminRequests EXCEPT ![q] =
              [op |-> "change", admin |-> a, own |-> own, seen |-> SignedInOf(a) \ own]]
        /\ UNCHANGED <<admins, adminSessions, racedLogins>>
    BY <1>6 DEF ChangePasswordBegin, Start
  <2> HIDE DEF a, own
  <2> QED BY <2>1, <2>2, ChangeBegins
<1>7. ASSUME NEW q \in AdminRequests, NEW a \in Admins, ResetPasswordBegin(q, a)
      PROVE  PasswordInv'
  <2> DEFINE own == {}
  <2>1. own \subseteq SignedInOf(a) /\ ~Changing(a) /\ SignedInOf(a) \ own = SignedInOf(a)
    BY <1>7 DEF ResetPasswordBegin
  <2>2. /\ adminRequests' = [adminRequests EXCEPT ![q] =
              [op |-> "reset", admin |-> a, own |-> own, seen |-> SignedInOf(a)]]
        /\ UNCHANGED <<admins, adminSessions, racedLogins>>
    BY <1>7 DEF ResetPasswordBegin, Start
  <2> HIDE DEF own
  <2> QED BY <2>1, <2>2, ChangeBegins
<1>8. ASSUME NEW q \in AdminRequests, SetupCommit(q) \/ CreateSuperAdmin(q) PROVE PasswordInv'
  <2> DEFINE a == adminRequests[q].admin
  <2>1. a \in Admins /\ ~AdminKnown(a)
    BY <1>8 DEF SetupCommit, CreateSuperAdmin, AdminInv, RequestsOK, RequestOK
  <2>2. \A b \in Admins \ {a} : admins'[b] = admins[b]
    BY <1>8 DEF SetupCommit, CreateSuperAdmin, AdminInv, RowsOK
  <2>3. \A s \in DOMAIN adminSessions : adminSessions[s].admin \in Admins \ {a}
    BY <2>1, SessionsAdmin DEF AdminInv, SetupInv
  <2>4. /\ adminRequests' = [adminRequests EXCEPT ![q] = NoAdminRequest]
        /\ UNCHANGED <<adminSessions, racedLogins>>
    BY <1>8 DEF SetupCommit, CreateSuperAdmin, End
  <2>5. \A p \in AdminRequests : \/ adminRequests'[p] = adminRequests[p]
                                 \/ adminRequests'[p].op \notin {"change", "reset"}
    BY <1>2, <2>4, Ended
  <2> HIDE DEF a
  <2> QED BY <2>2, <2>3, <2>4, <2>5, FewerSignedIn DEF SignedIn
<1>9. ASSUME NEW s \in DOMAIN adminSessions, RevokeAdminSession(s) PROVE PasswordInv'
  <2> DEFINE row == [adminSessions[s] EXCEPT !.revoked = TRUE]
  <2>1. /\ adminSessions' = [adminSessions EXCEPT ![s] = row]
        /\ UNCHANGED <<admins, adminRequests, racedLogins>>
    BY <1>9 DEF RevokeAdminSession
  <2>2. /\ row.admin = adminSessions[s].admin /\ row.password = adminSessions[s].password
        /\ row.revoked
    BY SessionsAdmin DEF AdminInv, SessionRow
  <2> HIDE DEF row
  <2>3. /\ DOMAIN adminSessions' = DOMAIN adminSessions /\ adminSessions'[s] = row
        /\ \A x \in DOMAIN adminSessions \ {s} : adminSessions'[x] = adminSessions[x]
    BY <2>1 DEF AdminInv, RowsOK
  <2> QED BY <2>1, <2>2, <2>3, FewerSignedIn DEF SignedIn
<1>10. ASSUME NEW s \in DOMAIN adminSessions, NEW e \in AdminEmails, ChangeAdminEmail(s, e)
       PROVE  PasswordInv'
  <2> DEFINE a == adminSessions[s].admin
             row == [admins[a] EXCEPT !.email = e]
  <2>1. admins' = [admins EXCEPT ![a] = row] /\ UNCHANGED <<adminSessions, adminRequests, racedLogins>>
    BY <1>10 DEF ChangeAdminEmail
  <2>2. a \in Admins /\ row.password = admins[a].password
    BY SessionsAdmin DEF AdminInv, RowsOK, AdminRow
  <2> HIDE DEF a, row
  <2>3. \A b \in Admins : admins'[b].password = admins[b].password
    BY <2>1, <2>2 DEF AdminInv, RowsOK
  <2>4. \A x \in DOMAIN adminSessions : adminSessions[x].admin \in Admins
    BY SessionsAdmin DEF AdminInv
  <2> QED BY <2>1, <2>3, <2>4, FewerSignedIn DEF SignedIn
<1>13. ASSUME NEW q \in AdminRequests, LoginAdminInsert(q) PROVE PasswordInv'
  BY <1>13, LoginInserted
<1>14. ASSUME NEW q \in AdminRequests, PasswordCommit(q) PROVE PasswordInv'
  BY <1>14, PasswordCommitted
<1>15. ASSUME NEW q \in AdminRequests, SetupCommit(q) PROVE PasswordInv'
  BY <1>8, <1>15
<1>16. ASSUME NEW q \in AdminRequests, CreateSuperAdmin(q) PROVE PasswordInv'
  BY <1>8, <1>16
<1> QED BY <1>1, <1>4, <1>5, <1>6, <1>7, <1>9, <1>10, <1>11, <1>12, <1>13, <1>14, <1>15, <1>16
        DEF AdminNext

\* After a change or a reset of a password nobody stays signed in with the old one, whatever
\* logins, changes and resets of however many admins overlap (ChangeAdminPassword,
\* ResetAdminPassword), but for the login that compared the old one before it was replaced.
THEOREM OldPasswordsSignNobodyIn ==
  ASSUME AdminAssumption PROVE AdminSpec => []SignedInWithCurrentPassword
<1>1. AdminInit => AdminInv /\ PasswordInv
  <2> SUFFICES ASSUME AdminInit PROVE AdminInv /\ PasswordInv
    OBVIOUS
  <2>1. DOMAIN adminSessions = {} /\ \A q \in AdminRequests : adminRequests[q].op = "none"
    BY DEF AdminInit, NoAdminRequest
  <2>2. PasswordInv
    BY <2>1 DEF PasswordInv, Changes, SignedInWithCurrentPassword
  <2> QED BY <2>2, AdminInitially
<1>2. AdminInv /\ PasswordInv /\ [AdminNext]_adminVars => AdminInv' /\ PasswordInv'
  BY Preserved, PasswordsPreserved
<1>3. PasswordInv => SignedInWithCurrentPassword
  BY DEF PasswordInv
<1> QED BY <1>1, <1>2, <1>3, PTL DEF AdminSpec

------------------------------------------------------------------------------
(* Types of the administrators' state *)

AdminOps == {"none", "setup", "login", "create", "change", "reset"}

\* No password is past the bound, that of a change under way included.
RequestFits(r) ==
  /\ r.op \in AdminOps
  /\ r.op = "login" => r.password <= MaxPasswords
  /\ r.op \in {"change", "reset"} =>
       AdminKnown(r.admin) /\ admins[r.admin].password < MaxPasswords
AdminSizes ==
  /\ \A a \in Admins : admins[a].password <= MaxPasswords
  /\ \A s \in DOMAIN adminSessions :
       s <= MaxAdminSessions /\ adminSessions[s].password <= MaxPasswords
  /\ racedLogins \subseteq 1 .. MaxAdminSessions
  /\ \A q \in AdminRequests : RequestFits(adminRequests[q])

LEMMA RequestFitsMoves ==
  ASSUME AdminInv, AdminSizes, NEW q \in AdminRequests, NEW r, RequestFits(r),
         adminRequests' = [adminRequests EXCEPT ![q] = r],
         UNCHANGED <<admins, adminSessions, racedLogins>>
  PROVE  AdminSizes'
<1>1. \A p \in AdminRequests : adminRequests'[p] = IF p = q THEN r ELSE adminRequests[p]
  BY DEF AdminInv, RequestsOK
<1>2. \A p \in AdminRequests : RequestFits(adminRequests[p])'
  BY <1>1 DEF AdminSizes, RequestFits, AdminKnown, AdminOps
<1> QED BY <1>2 DEF AdminSizes

\* The requests that are left when q has ended fit, if the rows of those that change a password do.
LEMMA RequestsFit ==
  ASSUME AdminInv, AdminSizes, NEW q \in AdminRequests, End(q),
         \A p \in AdminRequests \ {q} : adminRequests[p].op \in {"change", "reset"} =>
           /\ admins'[adminRequests[p].admin].email # NoAdminEmail
           /\ admins'[adminRequests[p].admin].password < MaxPasswords
  PROVE  (\A p \in AdminRequests : RequestFits(adminRequests[p]))'
<1>1. \A p \in AdminRequests : adminRequests'[p] = IF p = q THEN NoAdminRequest ELSE adminRequests[p]
  BY DEF End, AdminInv, RequestsOK
<1>2. RequestFits(NoAdminRequest)'
  BY DEF RequestFits, NoAdminRequest, AdminOps
<1>3. ASSUME NEW p \in AdminRequests \ {q} PROVE RequestFits(adminRequests[p])'
  BY <1>1 DEF AdminSizes, RequestFits, AdminKnown, AdminOps
<1> QED BY <1>1, <1>2, <1>3 DEF RequestFits, AdminKnown

LEMMA CreatedFits ==
  ASSUME AdminAssumption, AdminInv, AdminSizes, NEW q \in AdminRequests,
         SetupCommit(q) \/ CreateSuperAdmin(q)
  PROVE  AdminSizes'
<1> DEFINE a == adminRequests[q].admin
<1>1. a \in Admins /\ ~AdminKnown(a)
  BY DEF SetupCommit, CreateSuperAdmin, AdminInv, RequestsOK, RequestOK
<1>2. \E row : admins' = [admins EXCEPT ![a] = row] /\ row.password = 1
  <2>1. CASE SetupCommit(q)
    <3> DEFINE row == [email |-> adminRequests[q].email, role |-> "owner", password |-> 1,
                       mustChange |-> adminRequests[q].mustChange]
    <3>1. admins' = [admins EXCEPT ![a] = row] /\ row.password = 1
      BY <2>1 DEF SetupCommit
    <3> HIDE DEF row
    <3> QED BY <3>1
  <2>2. CASE CreateSuperAdmin(q)
    <3> DEFINE row == [email |-> adminRequests[q].email, role |-> "super_admin", password |-> 1,
                       mustChange |-> TRUE]
    <3>1. admins' = [admins EXCEPT ![a] = row] /\ row.password = 1
      BY <2>2 DEF CreateSuperAdmin
    <3> HIDE DEF row
    <3> QED BY <3>1
  <2> QED BY <2>1, <2>2
<1>3. End(q) /\ UNCHANGED <<adminSessions, racedLogins>>
  BY DEF SetupCommit, CreateSuperAdmin
<1> HIDE DEF a
<1>4. admins'[a].password = 1 /\ \A b \in Admins \ {a} : admins'[b] = admins[b]
  BY <1>1, <1>2 DEF AdminInv, RowsOK
<1>5. \A p \in AdminRequests : adminRequests[p].op \in {"change", "reset"} =>
        adminRequests[p].admin \in Admins \ {a}
  BY <1>1 DEF AdminSizes, RequestFits, AdminInv, RequestsOK, RequestOK
<1>6. \A p \in AdminRequests : adminRequests[p].op \in {"change", "reset"} =>
        /\ admins'[adminRequests[p].admin].email # NoAdminEmail
        /\ admins'[adminRequests[p].admin].password < MaxPasswords
  BY <1>4, <1>5 DEF AdminSizes, RequestFits, AdminKnown
<1>7. (\A p \in AdminRequests : RequestFits(adminRequests[p]))'
  BY <1>3, <1>6, RequestsFit
<1>8. \A b \in Admins : admins'[b].password <= MaxPasswords
  BY <1>1, <1>4, AdminAssumption DEF AdminSizes
<1> QED BY <1>3, <1>7, <1>8 DEF AdminSizes

LEMMA InsertedFits ==
  ASSUME AdminAssumption, AdminInv, AdminSizes, NEW q \in AdminRequests, LoginAdminInsert(q)
  PROVE  AdminSizes'
<1> DEFINE r == adminRequests[q]
           row == [admin |-> r.admin, revoked |-> FALSE, password |-> r.password]
<1> PICK n : n = Len(adminSessions) + 1
  OBVIOUS
<1>1. /\ adminSessions' = Append(adminSessions, row) /\ n <= MaxAdminSessions
      /\ racedLogins' \subseteq racedLogins \cup {n} /\ End(q) /\ admins' = admins
      /\ r.op = "login"
  BY DEF LoginAdminInsert
<1>2. r.admin \in Admins /\ r.password \in Nat /\ r.password <= MaxPasswords
  BY <1>1 DEF AdminInv, RequestsOK, RequestOK, AdminSizes, RequestFits
<1>3. row \in SessionRow /\ row.password <= MaxPasswords
  BY <1>2 DEF SessionRow
<1> HIDE DEF row
<1>4. adminSessions \in Seq(SessionRow) /\ Len(adminSessions) \in Nat
  BY DEF AdminInv, RowsOK
<1>5. \A s \in DOMAIN adminSessions' :
        (s \in DOMAIN adminSessions /\ adminSessions'[s] = adminSessions[s])
        \/ (s = n /\ adminSessions'[s] = row)
  BY <1>1, <1>3, <1>4
<1>6. \A s \in DOMAIN adminSessions' :
        s <= MaxAdminSessions /\ adminSessions'[s].password <= MaxPasswords
  BY <1>1, <1>3, <1>5 DEF AdminSizes
<1>7. racedLogins' \subseteq 1 .. MaxAdminSessions
  BY <1>1, <1>4, AdminAssumption DEF AdminSizes
<1>8. (\A p \in AdminRequests : RequestFits(adminRequests[p]))'
  <2>1. \A p \in AdminRequests : adminRequests[p].op \in {"change", "reset"} =>
          /\ admins'[adminRequests[p].admin].email # NoAdminEmail
          /\ admins'[adminRequests[p].admin].password < MaxPasswords
    BY <1>1 DEF AdminSizes, RequestFits, AdminKnown
  <2> QED BY <1>1, <2>1, RequestsFit
<1> QED BY <1>1, <1>6, <1>7, <1>8 DEF AdminSizes

LEMMA ChangedFits ==
  ASSUME AdminAssumption, AdminInv, PasswordInv, AdminSizes, NEW q \in AdminRequests, PasswordCommit(q)
  PROVE  AdminSizes'
<1> DEFINE r == adminRequests[q]
           a == r.admin
           n == admins[a].password + 1
<1>1. r.op \in {"change", "reset"} /\ a \in Admins /\ Changes(q, a)
  BY DEF PasswordCommit, Changes, AdminInv, RequestsOK, RequestOK
<1>2. admins[a] \in AdminRow /\ n \in Nat /\ n <= MaxPasswords
  <2>1. admins[a] \in AdminRow
    BY <1>1 DEF AdminInv, RowsOK
  <2>2. admins[a].password < MaxPasswords
    BY <1>1 DEF AdminSizes, RequestFits
  <2> QED BY <2>1, <2>2, AdminAssumption DEF AdminRow
<1>3. /\ admins' = [admins EXCEPT ![a] =
             [admins[a] EXCEPT !.password = @ + 1, !.mustChange = r.op = "reset"]]
      /\ adminSessions' = [s \in DOMAIN adminSessions |->
             [adminSessions[s] EXCEPT !.revoked = @ \/ s \in r.seen,
                                      !.password = IF s \in r.own THEN n ELSE @]]
      /\ End(q) /\ racedLogins' = racedLogins
  BY DEF PasswordCommit
<1>4. admins'[a].password = n /\ \A b \in Admins \ {a} : admins'[b] = admins[b]
  <2>1. /\ admins'[a] = [admins[a] EXCEPT !.password = @ + 1, !.mustChange = r.op = "reset"]
        /\ \A b \in Admins \ {a} : admins'[b] = admins[b]
    BY <1>1, <1>3 DEF AdminInv, RowsOK
  <2> QED BY <1>2, <2>1 DEF AdminRow
<1>5. /\ DOMAIN adminSessions' = DOMAIN adminSessions
      /\ \A s \in DOMAIN adminSessions :
           adminSessions'[s].password = n \/ adminSessions'[s].password = adminSessions[s].password
  <2>1. \A s \in DOMAIN adminSessions : adminSessions[s] \in SessionRow
    BY SessionsAdmin DEF AdminInv
  <2>2. \A s \in DOMAIN adminSessions :
          adminSessions'[s] = [adminSessions[s] EXCEPT !.revoked = @ \/ s \in r.seen,
                                                       !.password = IF s \in r.own THEN n ELSE @]
    BY <1>3
  <2> HIDE DEF r, n
  <2> QED BY <1>3, <2>1, <2>2 DEF SessionRow
<1>6. \A p \in AdminRequests \ {q} : adminRequests[p].op \in {"change", "reset"} =>
        adminRequests[p].admin \in Admins \ {a}
  BY <1>1 DEF PasswordInv, Changes, AdminInv, RequestsOK, RequestOK
<1> HIDE DEF r, a, n
<1>7. (\A p \in AdminRequests : RequestFits(adminRequests[p]))'
  <2>1. \A p \in AdminRequests \ {q} : adminRequests[p].op \in {"change", "reset"} =>
          /\ admins'[adminRequests[p].admin].email # NoAdminEmail
          /\ admins'[adminRequests[p].admin].password < MaxPasswords
    BY <1>4, <1>6 DEF AdminSizes, RequestFits, AdminKnown
  <2> QED BY <1>3, <2>1, RequestsFit
<1>8. /\ \A b \in Admins : admins'[b].password <= MaxPasswords
      /\ \A s \in DOMAIN adminSessions' :
           s <= MaxAdminSessions /\ adminSessions'[s].password <= MaxPasswords
  BY <1>2, <1>4, <1>5 DEF AdminSizes
<1> QED BY <1>3, <1>7, <1>8 DEF AdminSizes

LEMMA AdminSizesPreserved ==
  ASSUME AdminAssumption, AdminInv, PasswordInv, AdminSizes, [AdminNext]_adminVars
  PROVE  AdminSizes'
<1>1. CASE UNCHANGED adminVars
  BY <1>1 DEF adminVars, AdminSizes, RequestFits, AdminKnown
<1>2. ASSUME NEW q \in AdminRequests, NEW r, Start(q, r), RequestFits(r),
             UNCHANGED <<admins, adminSessions, racedLogins>>
      PROVE  AdminSizes'
  BY <1>2, RequestFitsMoves DEF Start
<1>3. \A a \in Admins : admins[a].password <= MaxPasswords
  BY DEF AdminSizes
<1>4. ASSUME NEW q \in AdminRequests, NEW a \in Admins, NEW e \in AdminEmails,
             \/ \E b \in BOOLEAN : SetupBegin(q, a, e, b)
             \/ \E s \in DOMAIN adminSessions : CreateAdminBegin(q, s, a, e)
      PROVE  AdminSizes'
  BY <1>2, <1>4 DEF SetupBegin, CreateAdminBegin, RequestFits, AdminOps
<1>5. ASSUME NEW q \in AdminRequests, NEW a \in Admins, LoginAdminRead(q, a) \/ ResetPasswordBegin(q, a)
      PROVE  AdminSizes'
  BY <1>2, <1>3, <1>5 DEF LoginAdminRead, ResetPasswordBegin, RequestFits, AdminOps
<1>6. ASSUME NEW q \in AdminRequests, NEW s \in DOMAIN adminSessions, ChangePasswordBegin(q, s)
      PROVE  AdminSizes'
  <2>1. AdminKnown(adminSessions[s].admin)
    BY DEF AdminInv, SetupInv
  <2> QED BY <1>2, <1>6, <2>1 DEF ChangePasswordBegin, RequestFits, AdminOps
<1>7. ASSUME NEW q \in AdminRequests, AdminRequestFails(q) PROVE AdminSizes'
  <2>1. RequestFits(NoAdminRequest)
    BY DEF RequestFits, NoAdminRequest, AdminOps
  <2> QED BY <1>7, <2>1, RequestFitsMoves DEF AdminRequestFails, End
<1>8. ASSUME NEW s \in DOMAIN adminSessions, RevokeAdminSession(s) PROVE AdminSizes'
  <2> DEFINE row == [adminSessions[s] EXCEPT !.revoked = TRUE]
  <2>1. /\ adminSessions' = [adminSessions EXCEPT ![s] = row]
        /\ UNCHANGED <<admins, adminRequests, racedLogins>>
    BY <1>8 DEF RevokeAdminSession
  <2>2. row.password = adminSessions[s].password
    BY SessionsAdmin DEF AdminInv, SessionRow
  <2> HIDE DEF row
  <2> QED BY <2>1, <2>2 DEF AdminSizes, RequestFits, AdminKnown, AdminInv, RowsOK
<1>9. ASSUME NEW s \in DOMAIN adminSessions, NEW e \in AdminEmails, ChangeAdminEmail(s, e)
      PROVE  AdminSizes'
  <2> DEFINE a == adminSessions[s].admin
             row == [admins[a] EXCEPT !.email = e]
  <2>1. admins' = [admins EXCEPT ![a] = row] /\ UNCHANGED <<adminSessions, adminRequests, racedLogins>>
    BY <1>9 DEF ChangeAdminEmail
  <2>2. a \in Admins /\ row.password = admins[a].password /\ row.email = e
    BY SessionsAdmin DEF AdminInv, RowsOK, AdminRow
  <2> HIDE DEF a, row
  <2>3. \A b \in Admins : /\ admins'[b].password = admins[b].password
                          /\ AdminKnown(b) => AdminKnown(b)'
    BY <2>1, <2>2, AdminAssumption DEF AdminInv, RowsOK, AdminKnown
  <2>4. \A p \in AdminRequests : adminRequests[p].op \in {"change", "reset"} =>
          adminRequests[p].admin \in Admins
    BY DEF AdminInv, RequestsOK, RequestOK
  <2>5. (\A p \in AdminRequests : RequestFits(adminRequests[p]))'
    BY <2>1, <2>3, <2>4 DEF AdminSizes, RequestFits, AdminOps
  <2> QED BY <2>1, <2>3, <2>5 DEF AdminSizes
<1> QED BY <1>1, <1>4, <1>5, <1>6, <1>7, <1>8, <1>9, CreatedFits, InsertedFits, ChangedFits
        DEF AdminNext

\* The tables of administrators keep to their columns (core/admin_auth.go): a password is replaced
\* by one change at a time, so none is counted twice.
THEOREM AdminsTyped == ASSUME AdminAssumption PROVE AdminSpec => []AdminTypeOK
<1> DEFINE Inv == AdminInv /\ PasswordInv /\ AdminSizes
<1>1. AdminInit => Inv
  <2> SUFFICES ASSUME AdminInit PROVE Inv
    OBVIOUS
  <2>1. DOMAIN adminSessions = {} /\ \A q \in AdminRequests : adminRequests[q].op = "none"
    BY DEF AdminInit, NoAdminRequest
  <2>2. PasswordInv
    BY <2>1 DEF PasswordInv, Changes, SignedInWithCurrentPassword
  <2>3. AdminSizes
    BY <2>1, AdminAssumption DEF AdminInit, AdminSizes, RequestFits, AdminOps
  <2> QED BY <2>2, <2>3, AdminInitially
<1>2. Inv /\ [AdminNext]_adminVars => Inv'
  BY Preserved, PasswordsPreserved, AdminSizesPreserved
<1>3. Inv => AdminTypeOK
  <2> SUFFICES ASSUME Inv PROVE AdminTypeOK
    OBVIOUS
  <2>1. /\ admins \in [Admins -> AdminRow] /\ adminSessions \in Seq(SessionRow)
    BY DEF AdminInv, RowsOK
  <2>2. \A a \in Admins : admins[a] \in [email : AdminEmails \cup {NoAdminEmail},
          role : {"owner", "super_admin"}, password : 0 .. MaxPasswords, mustChange : BOOLEAN]
    <3>1. \A a \in Admins : admins[a] \in AdminRow /\ admins[a].password <= MaxPasswords
      BY <2>1 DEF AdminSizes
    <3> QED BY <3>1, AdminAssumption DEF AdminRow
  <2>3. \A s \in DOMAIN adminSessions :
          adminSessions[s] \in [admin : Admins, revoked : BOOLEAN, password : 0 .. MaxPasswords]
    <3>1. \A s \in DOMAIN adminSessions :
            adminSessions[s] \in SessionRow /\ adminSessions[s].password <= MaxPasswords
      BY <2>1 DEF AdminSizes
    <3> QED BY <3>1, AdminAssumption DEF SessionRow
  <2>4. Len(adminSessions) <= MaxAdminSessions
    BY <2>1, AdminAssumption DEF AdminSizes
  <2> QED BY <2>1, <2>2, <2>3, <2>4 DEF AdminTypeOK, AdminSizes, RequestFits, AdminOps
<1> HIDE DEF Inv
<1> QED BY <1>1, <1>2, <1>3, PTL DEF AdminSpec

------------------------------------------------------------------------------
(* Rules and filters: the compiled form decides as the written one *)

LEMMA CompareDecides ==
  ASSUME NEW n, CompareForm(n), NEW row, NEW auth
  PROVE  /\ compileCompare(n).sql \in {"is null", "is not null", "=", "!="}
         /\ EvaluateCompare(compileCompare(n), row, auth) \in {"true", "false", "unknown"}
         /\ EvaluateCompare(compileCompare(n), row, auth) = "true" <=> CompareHolds(n, row, auth)
<1> DEFINE a == ValueOf(n.left, row, auth)
           b == ValueOf(n.right, row, auth)
           test == IF n.op = "=" THEN "is null" ELSE "is not null"
           asks(x, y) == y = NullLiteral \/ (isAuthIDRef(x) /\ y = Text(""))
<1>1. n.op \in {"=", "!="} /\ test \in {"is null", "is not null"} /\ (test = "is null" <=> n.op = "=")
  BY DEF CompareForm
<1>2. ~isAuthIDRef(NullLiteral) /\ ~isAuthIDRef(Text("")) /\ NullLiteral # Text("")
  BY DEF isAuthIDRef, NullLiteral, Text
<1>3. ValueOf(NullLiteral, row, auth) = Missing
  BY DEF ValueOf, NullLiteral
<1> DEFINE tested(m) == [sql |-> test, of |-> m]
           compared == [sql |-> n.op, of |-> n.left, with |-> n.right]
\* the four forms
<1>4. /\ n.left = NullLiteral => compileCompare(n) = tested(n.right)
      /\ n.left # NullLiteral /\ asks(n.left, n.right) => compileCompare(n) = tested(n.left)
      /\ n.left # NullLiteral /\ ~asks(n.left, n.right) /\ asks(n.right, n.left)
         => compileCompare(n) = tested(n.right)
      /\ ~asks(n.left, n.right) /\ ~asks(n.right, n.left)
         => compileCompare(n) = compared
  BY <1>2 DEF compileCompare
<1>5. /\ asks(n.left, n.right) => (CompareHolds(n, row, auth) <=> (a = Missing <=> n.op = "="))
      /\ ~asks(n.left, n.right) /\ asks(n.right, n.left)
         => (CompareHolds(n, row, auth) <=> (b = Missing <=> n.op = "="))
      /\ ~asks(n.left, n.right) /\ ~asks(n.right, n.left)
         => (CompareHolds(n, row, auth) <=> Missing \notin {a, b} /\ (a = b <=> n.op = "="))
  BY DEF CompareHolds
<1> HIDE DEF test, asks
<1>10. ASSUME NEW m
       PROVE  /\ tested(m).sql \in {"is null", "is not null", "=", "!="}
              /\ EvaluateCompare(tested(m), row, auth) \in {"true", "false", "unknown"}
              /\ EvaluateCompare(tested(m), row, auth) = "true" <=> (ValueOf(m, row, auth) = Missing <=> n.op = "=")
  <2>1. CASE n.op = "="
    <3>1. tested(m) = [sql |-> "is null", of |-> m]
      BY <2>1 DEF test
    <3>2. EvaluateCompare(tested(m), row, auth) = Truth(ValueOf(m, row, auth) = Missing)
      BY <3>1 DEF EvaluateCompare
    <3> QED BY <2>1, <3>1, <3>2 DEF Truth
  <2>2. CASE n.op = "!="
    <3>1. tested(m) = [sql |-> "is not null", of |-> m]
      BY <2>2 DEF test
    <3>2. EvaluateCompare(tested(m), row, auth) = Truth(ValueOf(m, row, auth) # Missing)
      BY <3>1 DEF EvaluateCompare
    <3> QED BY <2>2, <3>1, <3>2 DEF Truth
  <2> QED BY <1>1, <2>1, <2>2
<1>11. /\ compared.sql \in {"is null", "is not null", "=", "!="}
       /\ EvaluateCompare(compared, row, auth) \in {"true", "false", "unknown"}
       /\ EvaluateCompare(compared, row, auth) = "true" <=> Missing \notin {a, b} /\ (a = b <=> n.op = "=")
  <2>1. CASE n.op = "="
    <3>1. compared = [sql |-> "=", of |-> n.left, with |-> n.right]
      BY <2>1
    <3>2. EvaluateCompare(compared, row, auth) = Equal(a, b)
      BY <3>1 DEF EvaluateCompare
    <3> QED BY <2>1, <3>1, <3>2 DEF Equal, Truth
  <2>2. CASE n.op = "!="
    <3>1. compared = [sql |-> "!=", of |-> n.left, with |-> n.right]
      BY <2>2
    <3>2. EvaluateCompare(compared, row, auth) = NotTrue(Equal(a, b))
      BY <3>1 DEF EvaluateCompare
    <3> QED BY <2>2, <3>1, <3>2 DEF Equal, Truth, NotTrue
  <2> QED BY <1>1, <2>1, <2>2
<1> HIDE DEF tested, compared
<1>6. CASE n.left = NullLiteral
  <2>1. asks(n.right, n.left)
    BY <1>6 DEF asks
  <2>2. CASE asks(n.left, n.right)
    <3>1. n.right = NullLiteral
      BY <1>2, <1>6, <2>2 DEF asks
    <3> QED BY <1>3, <1>4, <1>5, <1>6, <2>2, <3>1, <1>10
  <2>3. CASE ~asks(n.left, n.right)
    BY <1>4, <1>5, <1>6, <2>1, <2>3, <1>10
  <2> QED BY <2>2, <2>3
<1>7. CASE n.left # NullLiteral /\ asks(n.left, n.right)
  BY <1>4, <1>5, <1>7, <1>10
<1>8. CASE n.left # NullLiteral /\ ~asks(n.left, n.right) /\ asks(n.right, n.left)
  BY <1>4, <1>5, <1>8, <1>10
<1>9. CASE n.left # NullLiteral /\ ~asks(n.left, n.right) /\ ~asks(n.right, n.left)
  BY <1>4, <1>5, <1>9, <1>11
<1> QED BY <1>6, <1>7, <1>8, <1>9

LEMMA RuleDecides ==
  ASSUME NEW rule, RuleForm(rule), NEW row, NEW auth
  PROVE  auth.role = "service" \/ Evaluate(compilePolicyRule(rule), row, auth) = "true"
         <=> RuleHolds(rule, row, auth)
<1>1. CASE rule = NoRule
  BY <1>1, FormsAssumption DEF compilePolicyRule, Evaluate, RuleHolds
<1>2. CASE rule # NoRule /\ rule = Everyone
  BY <1>2 DEF compilePolicyRule, Evaluate, RuleHolds
<1>3. CASE rule \notin {NoRule, Everyone} /\ CompareForm(rule)
  <2>1. compilePolicyRule(rule) = compileCompare(rule)
    BY <1>3 DEF compilePolicyRule, CompareForm
  <2>2. RuleHolds(rule, row, auth) <=> auth.role = "service" \/ CompareHolds(rule, row, auth)
    BY <1>3 DEF RuleHolds, CompareForm
  <2>3. compileCompare(rule).sql \in {"is null", "is not null", "=", "!="}
        /\ (EvaluateCompare(compileCompare(rule), row, auth) = "true" <=> CompareHolds(rule, row, auth))
    BY <1>3, CompareDecides
  <2>4. Evaluate(compileCompare(rule), row, auth) = EvaluateCompare(compileCompare(rule), row, auth)
    BY <2>3 DEF Evaluate
  <2> QED BY <2>1, <2>2, <2>3, <2>4
<1>4. CASE rule \notin {NoRule, Everyone} /\ rule.op \in {"and", "or"} /\ CompareForm(rule.left) /\ CompareForm(rule.right)
  <2> DEFINE l == EvaluateCompare(compileCompare(rule.left), row, auth)
             r == EvaluateCompare(compileCompare(rule.right), row, auth)
  <2>1. /\ l \in {"true", "false", "unknown"} /\ (l = "true" <=> CompareHolds(rule.left, row, auth))
        /\ r \in {"true", "false", "unknown"} /\ (r = "true" <=> CompareHolds(rule.right, row, auth))
    BY <1>4, CompareDecides
  <2>2. compilePolicyRule(rule) = [sql |-> rule.op, of |-> compileCompare(rule.left),
                                   with |-> compileCompare(rule.right)]
    BY <1>4 DEF compilePolicyRule
  <2>3. Evaluate(compilePolicyRule(rule), row, auth) = IF rule.op = "and" THEN AndTrue(l, r) ELSE OrTrue(l, r)
    BY <1>4, <2>2 DEF Evaluate
  <2>4. RuleHolds(rule, row, auth) <=>
          \/ auth.role = "service"
          \/ IF rule.op = "and" THEN CompareHolds(rule.left, row, auth) /\ CompareHolds(rule.right, row, auth)
             ELSE CompareHolds(rule.left, row, auth) \/ CompareHolds(rule.right, row, auth)
    BY <1>4 DEF RuleHolds
  <2> HIDE DEF l, r
  <2>5. (AndTrue(l, r) = "true" <=> l = "true" /\ r = "true") /\ (OrTrue(l, r) = "true" <=> l = "true" \/ r = "true")
    BY <2>1 DEF AndTrue, OrTrue
  <2> QED BY <2>1, <2>3, <2>4, <2>5
<1> QED BY <1>1, <1>2, <1>3, <1>4 DEF RuleForm

\* What a filter asks of one value
Asks(f, v) ==
  CASE f.op = "_eq" -> v = f.value
    [] f.op = "_in" -> v # Missing /\ v \in f.value
    [] f.op = "_neq" -> v # f.value /\ (v # Missing \/ f.value = Missing)
    [] f.op = "_nin" -> v \notin f.value /\ (v # Missing \/ f.value = {})
    [] f.op = "_empty" -> v \in {Missing, ""}
    [] f.op = "_ncontains" -> v \notin {Missing, f.value}
    [] f.op = "_nicontains" -> v # f.value
Undecided(f, v) ==
  v = Missing /\ \/ f.op \in {"_eq", "_neq"} /\ f.value # Missing
                 \/ f.op \in {"_in", "_nin"} /\ f.value # {}
                 \/ f.op = "_ncontains"

LEMMA PredicateDecides ==
  ASSUME NEW f, FilterForm(f), NEW v
  PROVE  /\ compilePredicateColumn(f, v) \in {"true", "false", "unknown"}
         /\ compilePredicateColumn(f, v) = "true" <=> Asks(f, v)
         /\ compilePredicateColumn(f, v) = "unknown" <=> Undecided(f, v)
<1>1. CASE f.op = "_eq"
  BY <1>1 DEF compilePredicateColumn, Asks, Undecided, Truth, Equal
<1>2. CASE f.op = "_neq"
  BY <1>2 DEF compilePredicateColumn, Asks, Undecided, Truth, Equal, NotTrue
<1>3. CASE f.op = "_in"
  BY <1>3 DEF compilePredicateColumn, Asks, Undecided, Truth
<1>4. CASE f.op = "_nin"
  BY <1>4 DEF compilePredicateColumn, Asks, Undecided, Truth
<1>5. CASE f.op = "_empty"
  BY <1>5 DEF compilePredicateColumn, Asks, Undecided, Truth
<1>6. CASE f.op = "_ncontains"
  BY <1>6 DEF compilePredicateColumn, Asks, Undecided, Truth, Equal, NotTrue, FilterForm
<1>7. CASE f.op = "_nicontains"
  BY <1>7 DEF compilePredicateColumn, Asks, Undecided, Truth
<1> QED BY <1>1, <1>2, <1>3, <1>4, <1>5, <1>6, <1>7 DEF FilterForm

LEMMA FilterDecides ==
  ASSUME NEW f \in RecordFilters, NEW row, NEW auth
  PROVE  EvaluateFilter(f, row, auth, "list") = "true" <=> FilterHolds(f, row, auth)
<1>1. FilterForm(f) /\ RuleForm(FolderRules["list"])
  BY FormsAssumption DEF Operations
<1>2. CASE f.path
  <2> DEFINE w == FolderRows[row.folder]
             v == w[f.field]
             shown == SelectPolicy(FolderRules, "list", w, auth)
  <2>1. /\ compilePredicateColumn(f, v) \in {"true", "false", "unknown"}
        /\ compilePredicateColumn(f, v) = "true" <=> Asks(f, v)
    BY <1>1, PredicateDecides
  <2>2. shown <=> RuleHolds(FolderRules["list"], w, auth)
    BY <1>1, RuleDecides DEF SelectPolicy
  <2>3. FilterHolds(f, row, auth) <=>
          (((row.folder # Missing /\ RuleHolds(FolderRules["list"], w, auth)) /\ Asks(f, v)) # f.negated)
    BY <1>2 DEF FilterHolds, Asks
  <2>4. CASE row.folder = Missing
    <3>1. EvaluateFilter(f, row, auth, "list") = IF f.negated THEN "true" ELSE "false"
      BY <1>2, <2>4 DEF EvaluateFilter, NotTrue
    <3> QED BY <1>1, <2>3, <2>4, <3>1 DEF FilterForm
  <2>5. CASE row.folder # Missing
    <3> DEFINE b == shown /\ compilePredicateColumn(f, v) = "true"
    <3>1. EvaluateFilter(f, row, auth, "list") = IF f.negated THEN NotTrue(Truth(b)) ELSE Truth(b)
      BY <1>2, <2>5 DEF EvaluateFilter
    <3>2. EvaluateFilter(f, row, auth, "list") = "true" <=> (IF f.negated THEN ~b ELSE b)
      <4>1. CASE b
        BY <3>1, <4>1 DEF Truth, NotTrue
      <4>2. CASE ~b
        BY <3>1, <4>2 DEF Truth, NotTrue
      <4> QED BY <4>1, <4>2
    <3> QED BY <1>1, <2>1, <2>2, <2>3, <2>5, <3>2 DEF FilterForm
  <2> QED BY <2>4, <2>5
<1>3. CASE ~f.path
  <2> DEFINE v == row[f.field]
  <2>1. /\ compilePredicateColumn(f, v) \in {"true", "false", "unknown"}
        /\ compilePredicateColumn(f, v) = "true" <=> Asks(f, v)
        /\ compilePredicateColumn(f, v) = "unknown" <=> Undecided(f, v)
    BY <1>1, PredicateDecides
  <2>2. FilterHolds(f, row, auth) <=> (IF f.negated THEN ~Asks(f, v) /\ ~Undecided(f, v) ELSE Asks(f, v))
    BY <1>3 DEF FilterHolds, Asks, Undecided
  <2>3. EvaluateFilter(f, row, auth, "list") =
          IF f.negated THEN NotTrue(compilePredicateColumn(f, v)) ELSE compilePredicateColumn(f, v)
    BY <1>3 DEF EvaluateFilter
  <2> HIDE DEF v
  <2> QED BY <2>1, <2>2, <2>3 DEF NotTrue
<1> QED BY <1>1, <1>2, <1>3

\* A request that was not answered yet runs as what it is; drafts are documents.
Shown == NewDocuments \cup {NoDocument}
RequestForm(r) ==
  /\ {"auth", "kind", "operation", "draft", "statements", "decision"} \subseteq DOMAIN r
  /\ \A d \in DOMAIN r.draft : r.draft[d] \in Shown
  /\ r.kind \in {"list", "view"} => \/ r.operation = r.kind
                                    \/ r.decision \in Expansions
  /\ r.kind \in {"list", "view"} /\ r.decision # NoDecision =>
       "groups" \in DOMAIN r.decision \/ r.decision.items \subseteq DocumentIds
AccessInv ==
  /\ rules \in RuleSets /\ documents \in [DocumentIds -> Shown]
  /\ DOMAIN requests = Readers
  /\ \A q \in Readers : requests[q] = NoRequest \/ RequestForm(requests[q])

\* A step leaves the decision of a reader alone, or it is right.
Decides(q) ==
  requests'[q] # NoRequest /\ requests'[q].decision # NoDecision /\ requests'[q] # requests[q]
  => DecidedRight(q)

LEMMA AccessInitially == AccessInit => AccessInv
  BY DEF AccessInit, AccessInv, Shown

LEMMA SelectDecides ==
  ASSUME rules \in RuleSets, NEW op \in Operations, NEW row, NEW auth
  PROVE  /\ SelectPolicy(rules, op, row, auth) <=> RuleHolds(rules[op], row, auth)
         /\ UsingPolicy(op, row, auth) <=> RuleHolds(rules[op], row, auth)
<1>1. RuleForm(rules[op])
  BY FormsAssumption
<1> QED BY <1>1, RuleDecides DEF SelectPolicy, UsingPolicy

\* What a step makes of one request
LEMMA OneRequest ==
  ASSUME AccessInv, NEW q \in Readers, NEW y, DOMAIN requests' = Readers, requests'[q] = y,
         \A p \in Readers \ {q} : requests'[p] = requests[p],
         rules' = rules, documents' \in [DocumentIds -> Shown], y = NoRequest \/ RequestForm(y),
         Decides(q)
  PROVE  AccessInv' /\ \A p \in Readers : Decides(p)
<1>1. \A p \in Readers : requests'[p] = NoRequest \/ RequestForm(requests'[p])
  BY DEF AccessInv
<1>2. AccessInv'
  BY <1>1 DEF AccessInv
<1>3. \A p \in Readers : Decides(p)
  <2>1. ASSUME NEW p \in Readers, p # q PROVE Decides(p)
    BY <2>1 DEF Decides
  <2> QED BY <2>1
<1> QED BY <1>2, <1>3

LEMMA AnswerRight ==
  ASSUME AccessInv, NEW q \in Readers, NEW f \in RecordFilters, NEW c, Answer(q, c),
         \/ c = [filter |-> f, items |-> RowsFor(requests[q], f)]
         \/ c = [filter |-> f, groups |-> CountByState(RowsFor(requests[q], f))]
  PROVE  AccessInv' /\ \A p \in Readers : Decides(p)
<1> DEFINE r == requests[q]
<1>1. /\ r # NoRequest /\ r.kind = "list" /\ r.decision = NoDecision
      /\ requests' = [requests EXCEPT ![q].decision = c] /\ UNCHANGED <<rules, documents>>
  BY DEF Answer
<1>2. RequestForm(r) /\ DOMAIN requests = Readers /\ rules \in RuleSets
  BY <1>1 DEF AccessInv
<1>3. r.operation = "list"
  BY <1>1, <1>2, ExpansionsAssumption DEF RequestForm
<1>4. PICK y : y = [r EXCEPT !.decision = c]
  OBVIOUS
<1>5. /\ y.decision = c /\ y.auth = r.auth /\ y.kind = r.kind /\ y.operation = r.operation
      /\ y.draft = r.draft /\ DOMAIN y = DOMAIN r
  BY <1>2, <1>4 DEF RequestForm
<1>6. /\ DOMAIN requests' = Readers /\ requests'[q] = y
      /\ \A p \in Readers \ {q} : requests'[p] = requests[p]
  BY <1>1, <1>2, <1>4
<1> DEFINE selected == {d \in DocumentIds : /\ documents[d] # NoDocument
                                            /\ RuleHolds(rules["list"], documents[d], r.auth)
                                            /\ FilterHolds(f, documents[d], r.auth)}
<1>7. RowsFor(r, f) = selected
  <2>1. ASSUME NEW d \in DocumentIds
        PROVE  /\ SelectPolicy(rules, "list", documents[d], r.auth)
                  <=> RuleHolds(rules["list"], documents[d], r.auth)
               /\ EvaluateFilter(f, documents[d], r.auth, "list") = "true"
                  <=> FilterHolds(f, documents[d], r.auth)
    BY <1>2, SelectDecides, FilterDecides DEF Operations
  <2> QED BY <1>3, <2>1 DEF RowsFor
<1> HIDE DEF r
<1>8. RequestForm(y)
  <2>1. "groups" \in DOMAIN c \/ c.items \subseteq DocumentIds
    <3>1. CASE c = [filter |-> f, items |-> RowsFor(r, f)]
      BY <1>7, <3>1
    <3>2. CASE c = [filter |-> f, groups |-> CountByState(RowsFor(r, f))]
      BY <3>2
    <3> QED BY <3>1, <3>2 DEF r
  <2> QED BY <1>1, <1>2, <1>3, <1>5, <2>1 DEF RequestForm
<1>9. DecidedRight(q)
  <2>1. CASE c = [filter |-> f, items |-> RowsFor(r, f)]
    <3>1. /\ c.filter = f /\ c.items = selected
          /\ "groups" \notin DOMAIN c /\ {"filter", "items"} \subseteq DOMAIN c
          /\ "looked" \notin DOMAIN c /\ "expanded" \notin DOMAIN c
      BY <1>7, <2>1
    <3> HIDE DEF selected
    <3>2. DecidedRight(q) <=> c.items = selected
      BY <1>5, <1>6, <3>1 DEF DecidedRight, selected
    <3> QED BY <3>1, <3>2
  <2>2. CASE c = [filter |-> f, groups |-> CountByState(RowsFor(r, f))]
    <3>1. c.filter = f /\ c.groups = CountByState(selected) /\ DOMAIN c = {"filter", "groups"}
      BY <1>7, <2>2
    <3> QED BY <1>5, <1>6, <3>1 DEF DecidedRight
  <2> QED BY <2>1, <2>2 DEF r
<1>10. documents' \in [DocumentIds -> Shown] /\ Decides(q)
  BY <1>1, <1>9 DEF AccessInv, Decides
<1> QED BY <1>1, <1>6, <1>8, <1>10, OneRequest

LEMMA ResolveRight ==
  ASSUME AccessInv, NEW q \in Readers, NEW token, NEW org, resolveRecordAuth(q, token, org)
  PROVE  AccessInv' /\ \A p \in Readers : Decides(p)
<1> DEFINE auth == ResolveRecordAuthForOrg(token, org)
           y(kind) == [auth |-> auth, kind |-> kind, operation |-> IF kind = "batch" THEN "create" ELSE kind,
                       draft |-> <<>>, statements |-> 0, decision |-> NoDecision]
<1>1. PICK kind \in {"list", "view", "batch"} : requests' = [requests EXCEPT ![q] = y(kind)]
  BY DEF resolveRecordAuth
<1>2. UNCHANGED <<rules, documents>>
  BY DEF resolveRecordAuth
<1>3. /\ y(kind).decision = NoDecision /\ y(kind).kind = kind /\ y(kind).draft = <<>>
      /\ y(kind).operation = (IF kind = "batch" THEN "create" ELSE kind)
      /\ {"auth", "kind", "operation", "draft", "statements", "decision"} \subseteq DOMAIN y(kind)
  OBVIOUS
<1> HIDE DEF y
<1>4. RequestForm(y(kind))
  BY <1>1, <1>3 DEF RequestForm
<1>5. /\ DOMAIN requests' = Readers /\ requests'[q] = y(kind)
      /\ \A p \in Readers \ {q} : requests'[p] = requests[p]
  BY <1>1 DEF AccessInv
<1>6. documents' \in [DocumentIds -> Shown] /\ Decides(q)
  BY <1>2, <1>3, <1>5 DEF AccessInv, Decides
<1> QED BY <1>2, <1>4, <1>5, <1>6, OneRequest

LEMMA ExpandRight ==
  ASSUME AccessInv, NEW q \in Readers, expandRecords(q)
  PROVE  AccessInv' /\ \A p \in Readers : Decides(p)
<1> DEFINE r == requests[q]
           named == {documents[d].folder : d \in {i \in r.decision.items : documents[i] # NoDocument}} \ {Missing}
           expanded == {f \in named : SelectPolicy(FolderRules, "view", FolderRows[f], r.auth)}
           c == [items |-> r.decision.items, named |-> named, expanded |-> expanded]
<1>1. /\ r # NoRequest /\ r.kind \in {"list", "view"} /\ r.decision # NoDecision
      /\ {"expanded", "groups"} \cap DOMAIN r.decision = {}
      /\ requests' = [requests EXCEPT ![q].operation = "view", ![q].decision = c]
      /\ UNCHANGED <<rules, documents>>
  BY DEF expandRecords
<1>2. RequestForm(r) /\ DOMAIN requests = Readers /\ documents \in [DocumentIds -> Shown]
  BY <1>1 DEF AccessInv
<1>3. r.decision.items \subseteq DocumentIds
  BY <1>1, <1>2 DEF RequestForm
<1>4. named \subseteq DOMAIN FolderRows
  <2> SUFFICES ASSUME NEW d \in r.decision.items, documents[d] # NoDocument, documents[d].folder # Missing
               PROVE  documents[d].folder \in DOMAIN FolderRows
    OBVIOUS
  <2>1. documents[d] \in Documents
    BY <1>2, <1>3, ExpansionsAssumption DEF Shown
  <2> QED BY <2>1 DEF Documents
<1> HIDE DEF named
<1>5. expanded = {f \in named : RuleHolds(FolderRules["view"], FolderRows[f], r.auth)}
  <2>1. RuleForm(FolderRules["view"])
    BY FormsAssumption DEF Operations
  <2>2. ASSUME NEW f PROVE SelectPolicy(FolderRules, "view", FolderRows[f], r.auth)
                           <=> RuleHolds(FolderRules["view"], FolderRows[f], r.auth)
    BY <2>1, RuleDecides DEF SelectPolicy
  <2> QED BY <2>2
<1>6. c \in Expansions
  BY <1>3, <1>4 DEF Expansions
<1>7. /\ c.named = named /\ c.expanded = expanded /\ DOMAIN c = {"items", "named", "expanded"}
      /\ c.items = r.decision.items
  OBVIOUS
<1> HIDE DEF c, expanded
<1>8. PICK y : y = [[r EXCEPT !.operation = "view"] EXCEPT !.decision = c]
  OBVIOUS
<1>9. /\ y.decision = c /\ y.auth = r.auth /\ y.kind = r.kind /\ y.draft = r.draft /\ DOMAIN y = DOMAIN r
  BY <1>2, <1>8 DEF RequestForm
<1>10. /\ DOMAIN requests' = Readers /\ requests'[q] = y
       /\ \A p \in Readers \ {q} : requests'[p] = requests[p]
  BY <1>1, <1>2, <1>8
<1> HIDE DEF r
<1>11. RequestForm(y)
  BY <1>2, <1>3, <1>6, <1>7, <1>9 DEF RequestForm
<1>12. DecidedRight(q)
  <2>1. /\ "groups" \notin DOMAIN c /\ "filter" \notin DOMAIN c /\ "looked" \notin DOMAIN c
        /\ "expanded" \in DOMAIN c
    BY <1>7
  <2>2. DecidedRight(q) <=> c.expanded = {f \in c.named : RuleHolds(FolderRules["view"], FolderRows[f], r.auth)}
    BY <1>9, <1>10, <2>1 DEF DecidedRight
  <2> QED BY <1>5, <1>7, <2>2
<1>13. documents' \in [DocumentIds -> Shown] /\ Decides(q)
  BY <1>1, <1>2, <1>12 DEF Decides
<1> QED BY <1>1, <1>10, <1>11, <1>13, OneRequest

LEMMA FinishRight ==
  ASSUME AccessInv, NEW q \in Readers, FinishRequest(q)
  PROVE  AccessInv' /\ \A p \in Readers : Decides(p)
<1>1. /\ requests[q] # NoRequest /\ requests' = [requests EXCEPT ![q] = NoRequest]
      /\ UNCHANGED rules /\ documents' \in {documents, Seen(q)}
  BY DEF FinishRequest
<1>2. RequestForm(requests[q]) /\ DOMAIN requests = Readers
  BY <1>1 DEF AccessInv
<1>3. documents' \in [DocumentIds -> Shown]
  BY <1>1, <1>2 DEF AccessInv, Seen, RequestForm
<1>4. /\ DOMAIN requests' = Readers /\ requests'[q] = NoRequest
      /\ \A p \in Readers \ {q} : requests'[p] = requests[p]
  BY <1>1, <1>2
<1>5. Decides(q)
  BY <1>4 DEF Decides
<1> QED BY <1>1, <1>3, <1>4, <1>5, OneRequest

LEMMA GetRight ==
  ASSUME AccessInv, NEW q \in Readers, NEW d \in DocumentIds, GetRecord(q, d)
  PROVE  AccessInv' /\ \A p \in Readers : Decides(p)
<1> DEFINE r == requests[q]
           operation == IF r.kind = "batch" THEN "view" ELSE r.operation
           found == Seen(q)[d] # NoDocument /\ SelectPolicy(rules, operation, Seen(q)[d], r.auth)
           c == [looked |-> d, items |-> IF found THEN {d} ELSE {}]
           n == IF r.kind = "batch" THEN r.statements + 1 ELSE r.statements
<1>1. /\ r # NoRequest /\ r.kind \in {"view", "batch"} /\ (r.kind = "view" => r.decision = NoDecision)
      /\ UNCHANGED <<rules, documents>>
      /\ IF found \/ r.kind = "view"
         THEN requests' = [requests EXCEPT ![q].operation = operation,
                ![q].statements = IF r.kind = "batch" THEN @ + 1 ELSE @, ![q].decision = c]
         ELSE requests' = [requests EXCEPT ![q] = NoRequest]
  BY DEF GetRecord, OperationSet
<1>2. RequestForm(r) /\ DOMAIN requests = Readers /\ rules \in RuleSets
  BY <1>1 DEF AccessInv
<1>3. operation = "view"
  BY <1>1, <1>2, ExpansionsAssumption DEF RequestForm
<1>4. documents' \in [DocumentIds -> Shown]
  BY <1>1 DEF AccessInv
<1>5. CASE found \/ r.kind = "view"
  <2>1. found <=> Seen(q)[d] # NoDocument /\ RuleHolds(rules["view"], Seen(q)[d], r.auth)
    BY <1>2, <1>3, SelectDecides DEF Operations
  <2>2. PICK y : y = [r EXCEPT !.operation = operation, !.statements = n, !.decision = c]
    OBVIOUS
  <2>3. /\ y.decision = c /\ y.auth = r.auth /\ y.kind = r.kind /\ y.operation = operation
        /\ y.draft = r.draft /\ DOMAIN y = DOMAIN r
    BY <1>2, <2>2 DEF RequestForm
  <2>4. /\ c.looked = d /\ (c.items # {} <=> found) /\ c.items \subseteq DocumentIds
        /\ "groups" \notin DOMAIN c /\ "filter" \notin DOMAIN c /\ "looked" \in DOMAIN c
        /\ "expanded" \notin DOMAIN c
    OBVIOUS
  <2>5. /\ DOMAIN requests' = Readers /\ requests'[q] = y
        /\ \A p \in Readers \ {q} : requests'[p] = requests[p]
    BY <1>1, <1>2, <1>5, <2>2
  <2> HIDE DEF c, r, found
  <2>6. RequestForm(y)
    BY <1>1, <1>2, <1>3, <2>3, <2>4 DEF RequestForm
  <2>7. DecidedRight(q)
    <3>1. DecidedRight(q) <=> (c.items # {} <=> /\ Seen(q)[c.looked] # NoDocument
                                                /\ RuleHolds(rules["view"], Seen(q)[c.looked], r.auth))
      BY <2>3, <2>4, <2>5 DEF DecidedRight
    <3> QED BY <2>1, <2>4, <3>1
  <2> QED BY <1>1, <1>4, <2>5, <2>6, <2>7, OneRequest DEF Decides
<1>6. CASE ~(found \/ r.kind = "view")
  <2>1. /\ DOMAIN requests' = Readers /\ requests'[q] = NoRequest
        /\ \A p \in Readers \ {q} : requests'[p] = requests[p]
    BY <1>1, <1>2, <1>6
  <2>2. Decides(q)
    BY <2>1 DEF Decides
  <2> QED BY <1>1, <1>4, <2>1, <2>2, OneRequest
<1> QED BY <1>5, <1>6

LEMMA WriteRight ==
  ASSUME AccessInv, NEW q \in Readers, NEW command \in {"create", "update", "delete"},
         NEW d \in DocumentIds, NEW row \in Shown, WriteRecord(q, command, d, row)
  PROVE  AccessInv' /\ \A p \in Readers : Decides(p)
<1> DEFINE r == requests[q]
           before == Seen(q)[d]
           after == IF command = "delete" THEN NoDocument ELSE row
           done == Admitted(command, command, before, after, r.auth)
           drafts == IF done THEN [i \in DOMAIN r.draft \cup {d} |-> IF i = d THEN after ELSE r.draft[i]] ELSE r.draft
           c == [command |-> command, before |-> before, after |-> after, done |-> done]
           y == [r EXCEPT !.operation = command, !.statements = @ + 1, !.draft = drafts, !.decision = c]
<1>1. /\ r # NoRequest /\ r.kind = "batch" /\ UNCHANGED <<rules, documents>>
      /\ requests' = [requests EXCEPT ![q] = y]
  BY DEF WriteRecord, OperationSet
<1>2. /\ RequestForm(r) /\ DOMAIN requests = Readers /\ rules \in RuleSets
      /\ documents' \in [DocumentIds -> Shown]
  BY <1>1 DEF AccessInv
<1>3. /\ y.decision = c /\ y.auth = r.auth /\ y.kind = "batch" /\ y.draft = drafts /\ DOMAIN y = DOMAIN r
  BY <1>1, <1>2 DEF RequestForm
<1>4. after \in Shown
  BY DEF Shown
<1>5. \A i \in DOMAIN drafts : drafts[i] \in Shown
  BY <1>2, <1>4 DEF RequestForm
<1>6. done <=> \A w \in {before, after} \ {NoDocument} : RuleHolds(rules[command], w, r.auth)
  <2>1. ASSUME NEW w PROVE /\ SelectPolicy(rules, command, w, r.auth) <=> RuleHolds(rules[command], w, r.auth)
                           /\ UsingPolicy(command, w, r.auth) <=> RuleHolds(rules[command], w, r.auth)
    BY <1>2, SelectDecides DEF Operations
  <2> QED BY <2>1 DEF Admitted, CheckPolicy
<1>7. /\ c.command = command /\ c.before = before /\ c.after = after /\ c.done = done
      /\ DOMAIN c = {"command", "before", "after", "done"}
  OBVIOUS
<1>8. /\ DOMAIN requests' = Readers /\ requests'[q] = y
      /\ \A p \in Readers \ {q} : requests'[p] = requests[p]
  BY <1>1, <1>2
<1> HIDE DEF y, c, drafts, done, before, after, r
<1>9. RequestForm(y)
  BY <1>2, <1>3, <1>5 DEF RequestForm
<1>10. DecidedRight(q)
  <2>1. /\ "groups" \notin DOMAIN c /\ "filter" \notin DOMAIN c /\ "looked" \notin DOMAIN c
        /\ "expanded" \notin DOMAIN c
    BY <1>7
  <2>2. DecidedRight(q) <=>
          (c.done <=> \A w \in {c.before, c.after} \ {NoDocument} : RuleHolds(rules[c.command], w, r.auth))
    BY <1>3, <1>8, <2>1 DEF DecidedRight
  <2> QED BY <1>6, <1>7, <2>2
<1> QED BY <1>1, <1>2, <1>8, <1>9, <1>10, OneRequest DEF Decides

LEMMA AccessStep ==
  ASSUME AccessInv, [AccessNext]_accessVars
  PROVE  AccessInv' /\ \A q \in Readers : Decides(q)
<1>1. CASE UNCHANGED <<rules, documents, requests>>
  BY <1>1 DEF AccessInv, Decides
<1>2. ASSUME NEW k \in ApiKeys, RevokeAPIKey(k) \/ \E type \in {"anon", "service"} : CreateAPIKey(k, type)
      PROVE  UNCHANGED <<rules, documents, requests>>
  BY <1>2 DEF RevokeAPIKey, CreateAPIKey
<1>3. ASSUME NEW u \in Subjects, NEW t \in Tenants, ChangeMembership(u, t)
      PROVE  UNCHANGED <<rules, documents, requests>>
  BY <1>3 DEF ChangeMembership
<1>4. ASSUME NEW q \in Readers, NEW token \in Tokens, NEW org \in Tenants \cup {Missing},
             resolveRecordAuth(q, token, org)
      PROVE  AccessInv' /\ \A p \in Readers : Decides(p)
  BY <1>4, ResolveRight
<1>5. ASSUME NEW q \in Readers, NEW f \in RecordFilters, ListRecords(q, f)
      PROVE  AccessInv' /\ \A p \in Readers : Decides(p)
  BY <1>5, AnswerRight DEF ListRecords
<1>6. ASSUME NEW q \in Readers, NEW f \in RecordFilters, AggregateRecords(q, f)
      PROVE  AccessInv' /\ \A p \in Readers : Decides(p)
  BY <1>6, AnswerRight DEF AggregateRecords
<1>7. ASSUME NEW q \in Readers, expandRecords(q) \/ FinishRequest(q)
      PROVE  AccessInv' /\ \A p \in Readers : Decides(p)
  BY <1>7, ExpandRight, FinishRight
<1>8. ASSUME NEW q \in Readers, NEW d \in DocumentIds, GetRecord(q, d)
      PROVE  AccessInv' /\ \A p \in Readers : Decides(p)
  BY <1>8, GetRight
<1>9. ASSUME NEW q \in Readers, NEW d \in DocumentIds, NEW row \in NewDocuments,
             WriteRecord(q, "create", d, row) \/ WriteRecord(q, "update", d, row)
      PROVE  AccessInv' /\ \A p \in Readers : Decides(p)
  BY <1>9, WriteRight DEF Shown
<1>10. ASSUME NEW q \in Readers, NEW d \in DocumentIds, WriteRecord(q, "delete", d, NoDocument)
       PROVE  AccessInv' /\ \A p \in Readers : Decides(p)
  BY <1>10, WriteRight DEF Shown
<1>11. CASE UNCHANGED accessVars
  BY <1>1, <1>11 DEF accessVars
<1> QED BY <1>1, <1>2, <1>3, <1>4, <1>5, <1>6, <1>7, <1>8, <1>9, <1>10, <1>11 DEF AccessNext

\* core/rules.go, rls.go, record_filters.go, records.go, record_batch.go: for any rules, filters,
\* rows and callers, and any statements before it, what PostgreSQL decides of a statement, with
\* its three truth values and the operation that the transaction carries, is what the
\* rule of its own operation says in two.
THEOREM RulesAlwaysDecide == AccessSpec => RulesDecide
<1>1. AccessInv /\ [AccessNext]_accessVars => AccessInv'
  BY AccessStep
<1>2. AccessInv /\ [AccessNext]_accessVars =>
        [\A q \in Readers :
           requests'[q] # NoRequest /\ requests'[q].decision # NoDecision /\ requests'[q] # requests[q]
             => DecidedRight(q)]_accessVars
  BY AccessStep DEF Decides
<1> QED BY <1>1, <1>2, AccessInitially, PTL DEF AccessSpec, RulesDecide
------------------------------------------------------------------------------
(* Transactions: what they write stays apart *)

\* A transaction writes known rows and stays within its statements.
WithinBatch(r) ==
  /\ r.operation \in Operations /\ DOMAIN r.draft \subseteq DocumentIds /\ r.statements \in 0 .. MaxStatements
\* A row that a running transaction has written is locked: no other one has written it.
WritesApart ==
  \A p, q \in Readers : p # q /\ requests[p] # NoRequest /\ requests[q] # NoRequest
    => DOMAIN requests[p].draft \cap DOMAIN requests[q].draft = {}
BatchInv ==
  /\ apiKeys \in [ApiKeys -> {"absent", "anon", "service", "revoked"}]
  /\ members \in [Subjects -> [Tenants -> {"admin", Missing}]] /\ grants \in 0 .. MaxGrants
  /\ \A q \in Readers : requests[q] = NoRequest \/ WithinBatch(requests[q])
  /\ WritesApart

\* What a step commits of the rows that a transaction has written: nothing, or all as it ends.
CommitsWhole(q) ==
  requests[q] # NoRequest =>
    \/ \A d \in DOMAIN requests[q].draft : documents'[d] = documents[d]
    \/ requests'[q] = NoRequest /\ \A d \in DOMAIN requests[q].draft : documents'[d] = requests[q].draft[d]

LEMMA BatchInitially == AccessInit => BatchInv
  BY AccessAssumption DEF AccessInit, BatchInv, WritesApart

LEMMA OneBatch ==
  ASSUME AccessInv, BatchInv, NEW q \in Readers, NEW y, requests'[q] = y,
         \A p \in Readers \ {q} : requests'[p] = requests[p],
         UNCHANGED <<apiKeys, members, grants>>,
         y = NoRequest \/ WithinBatch(y),
         y # NoRequest => \A d \in DOMAIN y.draft : Unlocked(q, d)
  PROVE  BatchInv'
<1>1. \A p \in Readers : requests'[p] = NoRequest \/ WithinBatch(requests'[p])
  BY DEF BatchInv
<1>2. ASSUME NEW p \in Readers, NEW s \in Readers, p # s, requests'[p] # NoRequest, requests'[s] # NoRequest
      PROVE  DOMAIN requests'[p].draft \cap DOMAIN requests'[s].draft = {}
  <2>1. CASE p # q /\ s # q
    BY <1>2, <2>1 DEF BatchInv, WritesApart
  <2>2. CASE p = q
    <3>1. requests'[p] = y /\ requests'[s] = requests[s] /\ s # q
      BY <1>2, <2>2
    <3> QED BY <1>2, <3>1 DEF Unlocked
  <2>3. CASE s = q
    <3>1. requests'[s] = y /\ requests'[p] = requests[p] /\ p # q
      BY <1>2, <2>3
    <3> QED BY <1>2, <3>1 DEF Unlocked
  <2> QED BY <2>1, <2>2, <2>3
<1>3. apiKeys' = apiKeys /\ members' = members /\ grants' = grants
  OBVIOUS
<1> QED BY <1>1, <1>2, <1>3 DEF BatchInv, WritesApart

\* What a transaction has written is its own.
LEMMA DraftIsLocked ==
  ASSUME BatchInv, NEW q \in Readers, requests[q] # NoRequest, NEW d \in DOMAIN requests[q].draft
  PROVE  Unlocked(q, d)
BY DEF BatchInv, WritesApart, Unlocked

\* A statement that leaves the drafts alone
LEMMA SameDraft ==
  ASSUME AccessInv, BatchInv, NEW q \in Readers, requests[q] # NoRequest, NEW y,
         y.draft = requests[q].draft, y.operation \in Operations, y.statements \in 0 .. MaxStatements,
         requests' = [requests EXCEPT ![q] = y], UNCHANGED <<documents, apiKeys, members, grants>>
  PROVE  BatchInv' /\ \A p \in Readers : CommitsWhole(p)
<1>1. requests'[q] = y /\ \A p \in Readers \ {q} : requests'[p] = requests[p]
  BY DEF AccessInv
<1>2. WithinBatch(y)
  BY DEF BatchInv, WithinBatch
<1>3. BatchInv'
  BY <1>1, <1>2, DraftIsLocked, OneBatch
<1> QED BY <1>3 DEF CommitsWhole

LEMMA GrantSteps ==
  ASSUME AccessInv, BatchInv,
         \/ \E k \in ApiKeys : RevokeAPIKey(k) \/ \E type \in {"anon", "service"} : CreateAPIKey(k, type)
         \/ \E u \in Subjects, t \in Tenants : ChangeMembership(u, t)
  PROVE  BatchInv' /\ \A p \in Readers : CommitsWhole(p)
<1>1. /\ UNCHANGED <<requests, documents>> /\ grants < MaxGrants /\ grants' = grants + 1
  BY DEF RevokeAPIKey, CreateAPIKey, ChangeMembership
<1>2. grants' \in 0 .. MaxGrants
  BY <1>1, AccessAssumption DEF BatchInv
<1>3. apiKeys' \in [ApiKeys -> {"absent", "anon", "service", "revoked"}]
  <2>1. CASE apiKeys' = apiKeys
    BY <2>1 DEF BatchInv
  <2>2. CASE \E k \in ApiKeys, type \in {"anon", "service", "revoked"} : apiKeys' = [apiKeys EXCEPT ![k] = type]
    BY <2>2 DEF BatchInv
  <2> QED BY <2>1, <2>2 DEF RevokeAPIKey, CreateAPIKey, ChangeMembership
<1>4. members' \in [Subjects -> [Tenants -> {"admin", Missing}]]
  <2>1. CASE members' = members
    BY <2>1 DEF BatchInv
  <2>2. ASSUME NEW u \in Subjects, NEW t \in Tenants, ChangeMembership(u, t)
        PROVE  members' \in [Subjects -> [Tenants -> {"admin", Missing}]]
    <3>1. PICK w : /\ w = [members[u] EXCEPT ![t] = IF @ = Missing THEN "admin" ELSE Missing]
                   /\ members' = [members EXCEPT ![u] = w]
      BY <2>2 DEF ChangeMembership
    <3>2. w \in [Tenants -> {"admin", Missing}]
      BY <3>1 DEF BatchInv
    <3> QED BY <3>1, <3>2 DEF BatchInv
  <2> QED BY <2>1, <2>2 DEF RevokeAPIKey, CreateAPIKey
<1>5. (\A q \in Readers : requests'[q] = NoRequest \/ WithinBatch(requests'[q])) /\ WritesApart'
  BY <1>1 DEF BatchInv, WritesApart
<1>6. BatchInv'
  BY <1>2, <1>3, <1>4, <1>5 DEF BatchInv
<1> QED BY <1>1, <1>6 DEF CommitsWhole

LEMMA ResolveBatch ==
  ASSUME AccessInv, BatchInv, NEW q \in Readers, NEW token, NEW org, resolveRecordAuth(q, token, org)
  PROVE  BatchInv' /\ \A p \in Readers : CommitsWhole(p)
<1> DEFINE auth == ResolveRecordAuthForOrg(token, org)
           y(kind) == [auth |-> auth, kind |-> kind, operation |-> IF kind = "batch" THEN "create" ELSE kind,
                       draft |-> <<>>, statements |-> 0, decision |-> NoDecision]
<1>1. PICK kind \in {"list", "view", "batch"} : requests' = [requests EXCEPT ![q] = y(kind)]
  BY DEF resolveRecordAuth
<1>2. UNCHANGED <<documents, apiKeys, members, grants>> /\ requests[q] = NoRequest
  BY DEF resolveRecordAuth
<1>3. /\ y(kind).draft = <<>> /\ y(kind).operation \in Operations /\ y(kind).statements = 0
      /\ DOMAIN y(kind).draft = {}
  BY DEF Operations
<1> HIDE DEF y
<1>4. WithinBatch(y(kind))
  BY <1>3, AccessAssumption DEF WithinBatch
<1>5. requests'[q] = y(kind) /\ \A p \in Readers \ {q} : requests'[p] = requests[p]
  BY <1>1 DEF AccessInv
<1>6. BatchInv'
  BY <1>2, <1>3, <1>4, <1>5, OneBatch
<1> QED BY <1>2, <1>6 DEF CommitsWhole

LEMMA AnswerBatch ==
  ASSUME AccessInv, BatchInv, NEW q \in Readers, NEW c, Answer(q, c)
  PROVE  BatchInv' /\ \A p \in Readers : CommitsWhole(p)
<1> DEFINE r == requests[q]
<1>1. /\ r # NoRequest /\ UNCHANGED <<documents, apiKeys, members, grants>>
      /\ requests' = [requests EXCEPT ![q] = [r EXCEPT !.decision = c]]
  BY DEF Answer
<1>2. RequestForm(r) /\ WithinBatch(r)
  BY <1>1 DEF AccessInv, BatchInv
<1>3. PICK y : y = [r EXCEPT !.decision = c]
  OBVIOUS
<1>4. y.draft = r.draft /\ y.operation \in Operations /\ y.statements \in 0 .. MaxStatements
  BY <1>2, <1>3 DEF RequestForm, WithinBatch
<1> QED BY <1>1, <1>3, <1>4, SameDraft

LEMMA ExpandBatch ==
  ASSUME AccessInv, BatchInv, NEW q \in Readers, expandRecords(q)
  PROVE  BatchInv' /\ \A p \in Readers : CommitsWhole(p)
<1> DEFINE r == requests[q]
<1>1. PICK c : /\ r # NoRequest /\ UNCHANGED <<documents, apiKeys, members, grants>>
               /\ requests' = [requests EXCEPT ![q] = [[r EXCEPT !.operation = "view"] EXCEPT !.decision = c]]
  BY DEF expandRecords
<1>2. RequestForm(r) /\ WithinBatch(r)
  BY <1>1 DEF AccessInv, BatchInv
<1>3. PICK y : y = [[r EXCEPT !.operation = "view"] EXCEPT !.decision = c]
  OBVIOUS
<1>4. y.draft = r.draft /\ y.operation \in Operations /\ y.statements \in 0 .. MaxStatements
  BY <1>2, <1>3 DEF RequestForm, WithinBatch, Operations
<1> QED BY <1>1, <1>3, <1>4, SameDraft

LEMMA FinishBatch ==
  ASSUME AccessInv, BatchInv, NEW q \in Readers, FinishRequest(q)
  PROVE  BatchInv' /\ \A p \in Readers : CommitsWhole(p)
<1>1. /\ requests[q] # NoRequest /\ requests' = [requests EXCEPT ![q] = NoRequest]
      /\ UNCHANGED <<apiKeys, members, grants>> /\ documents' \in {documents, Seen(q)}
  BY DEF FinishRequest
<1>2. requests'[q] = NoRequest /\ \A p \in Readers \ {q} : requests'[p] = requests[p]
  BY <1>1 DEF AccessInv
<1>3. BatchInv'
  BY <1>1, <1>2, OneBatch
<1>4. CASE documents' = documents
  BY <1>3, <1>4 DEF CommitsWhole
<1>5. CASE documents' = Seen(q)
  <2>1. /\ \A d \in DOMAIN requests[q].draft : documents'[d] = requests[q].draft[d]
        /\ \A d \in DocumentIds \ DOMAIN requests[q].draft : documents'[d] = documents[d]
    BY <1>1, <1>5 DEF Seen, BatchInv, WithinBatch
  <2>2. CommitsWhole(q)
    BY <1>2, <2>1 DEF CommitsWhole
  <2>3. ASSUME NEW p \in Readers, p # q, requests[p] # NoRequest, NEW d \in DOMAIN requests[p].draft
        PROVE  documents'[d] = documents[d]
    <3>1. d \in DocumentIds
      BY <2>3 DEF BatchInv, WithinBatch
    <3>2. d \notin DOMAIN requests[q].draft
      BY <1>1, <2>3 DEF BatchInv, WritesApart
    <3> QED BY <2>1, <3>1, <3>2
  <2>4. ASSUME NEW p \in Readers, p # q PROVE CommitsWhole(p)
    BY <2>3, <2>4 DEF CommitsWhole
  <2> QED BY <1>3, <2>2, <2>4
<1> QED BY <1>1, <1>4, <1>5

LEMMA GetBatch ==
  ASSUME AccessInv, BatchInv, NEW q \in Readers, NEW d \in DocumentIds, GetRecord(q, d)
  PROVE  BatchInv' /\ \A p \in Readers : CommitsWhole(p)
<1> DEFINE r == requests[q]
           operation == IF r.kind = "batch" THEN "view" ELSE r.operation
           n == IF r.kind = "batch" THEN r.statements + 1 ELSE r.statements
<1>1. /\ r # NoRequest /\ (r.kind # "view" => r.statements < MaxStatements) /\ r.kind \in {"view", "batch"}
      /\ UNCHANGED <<documents, apiKeys, members, grants>>
      /\ \/ \E c : requests' = [requests EXCEPT ![q].operation = operation, ![q].statements = n, ![q].decision = c]
         \/ requests' = [requests EXCEPT ![q] = NoRequest]
  BY DEF GetRecord, OperationSet
<1>2. RequestForm(r) /\ WithinBatch(r)
  BY <1>1 DEF AccessInv, BatchInv
<1>3. CASE requests' = [requests EXCEPT ![q] = NoRequest]
  <2>1. requests'[q] = NoRequest /\ \A p \in Readers \ {q} : requests'[p] = requests[p]
    BY <1>3 DEF AccessInv
  <2>2. BatchInv'
    BY <1>1, <2>1, OneBatch
  <2> QED BY <1>1, <2>2 DEF CommitsWhole
<1>4. ASSUME NEW c, requests' = [requests EXCEPT ![q].operation = operation, ![q].statements = n, ![q].decision = c]
      PROVE  BatchInv' /\ \A p \in Readers : CommitsWhole(p)
  <2>1. PICK y : y = [[[r EXCEPT !.operation = operation] EXCEPT !.statements = n] EXCEPT !.decision = c]
    OBVIOUS
  <2>2. requests' = [requests EXCEPT ![q] = y]
    BY <1>4, <2>1 DEF AccessInv
  <2>3. y.draft = r.draft /\ y.operation = operation /\ y.statements = n
    BY <1>2, <2>1 DEF RequestForm
  <2>4. operation \in Operations /\ n \in 0 .. MaxStatements
    BY <1>1, <1>2, AccessAssumption DEF WithinBatch, Operations
  <2> QED BY <1>1, <2>2, <2>3, <2>4, SameDraft
<1> QED BY <1>1, <1>3, <1>4

LEMMA WriteBatch ==
  ASSUME AccessInv, BatchInv, NEW q \in Readers, NEW command \in {"create", "update", "delete"},
         NEW d \in DocumentIds, NEW row, WriteRecord(q, command, d, row)
  PROVE  BatchInv' /\ \A p \in Readers : CommitsWhole(p)
<1> DEFINE r == requests[q]
           before == Seen(q)[d]
           after == IF command = "delete" THEN NoDocument ELSE row
           done == Admitted(command, command, before, after, r.auth)
           drafts == IF done THEN [i \in DOMAIN r.draft \cup {d} |-> IF i = d THEN after ELSE r.draft[i]] ELSE r.draft
           c == [command |-> command, before |-> before, after |-> after, done |-> done]
           y == [r EXCEPT !.operation = command, !.statements = @ + 1, !.draft = drafts, !.decision = c]
<1>1. /\ r # NoRequest /\ r.statements < MaxStatements /\ Unlocked(q, d)
      /\ UNCHANGED <<documents, apiKeys, members, grants>> /\ requests' = [requests EXCEPT ![q] = y]
  BY DEF WriteRecord, OperationSet
<1>2. RequestForm(r) /\ WithinBatch(r)
  BY <1>1 DEF AccessInv, BatchInv
<1>3. y.operation = command /\ y.statements = r.statements + 1 /\ y.draft = drafts
  BY <1>2 DEF RequestForm
<1>4. DOMAIN drafts \subseteq DOMAIN r.draft \cup {d}
  OBVIOUS
<1>5. requests'[q] = y /\ \A p \in Readers \ {q} : requests'[p] = requests[p]
  BY <1>1 DEF AccessInv
<1> HIDE DEF y, drafts
<1>6. WithinBatch(y)
  BY <1>1, <1>2, <1>3, <1>4, AccessAssumption DEF WithinBatch, Operations
<1>7. \A i \in DOMAIN y.draft : Unlocked(q, i)
  BY <1>1, <1>3, <1>4, DraftIsLocked
<1>8. BatchInv'
  BY <1>1, <1>5, <1>6, <1>7, OneBatch
<1> QED BY <1>1, <1>8 DEF CommitsWhole

LEMMA BatchStep ==
  ASSUME AccessInv, BatchInv, [AccessNext]_accessVars
  PROVE  BatchInv' /\ \A p \in Readers : CommitsWhole(p)
<1>1. CASE UNCHANGED accessVars
  <2>1. UNCHANGED <<documents, apiKeys, members, requests, grants>>
    BY <1>1 DEF accessVars
  <2> QED BY <2>1 DEF BatchInv, WritesApart, CommitsWhole
<1>2. ASSUME NEW q \in Readers, NEW d \in DocumentIds, NEW row \in NewDocuments,
             WriteRecord(q, "create", d, row) \/ WriteRecord(q, "update", d, row)
      PROVE  BatchInv' /\ \A p \in Readers : CommitsWhole(p)
  BY <1>2, WriteBatch
<1>3. ASSUME NEW q \in Readers, NEW d \in DocumentIds, WriteRecord(q, "delete", d, NoDocument)
      PROVE  BatchInv' /\ \A p \in Readers : CommitsWhole(p)
  BY <1>3, WriteBatch
<1>4. ASSUME NEW q \in Readers, NEW d \in DocumentIds, GetRecord(q, d)
      PROVE  BatchInv' /\ \A p \in Readers : CommitsWhole(p)
  BY <1>4, GetBatch
<1>5. ASSUME NEW q \in Readers, NEW token \in Tokens, NEW org \in Tenants \cup {Missing},
             resolveRecordAuth(q, token, org)
      PROVE  BatchInv' /\ \A p \in Readers : CommitsWhole(p)
  BY <1>5, ResolveBatch
<1>6. ASSUME NEW q \in Readers, FinishRequest(q)
      PROVE  BatchInv' /\ \A p \in Readers : CommitsWhole(p)
  BY <1>6, FinishBatch
<1>7. ASSUME NEW q \in Readers, expandRecords(q)
      PROVE  BatchInv' /\ \A p \in Readers : CommitsWhole(p)
  BY <1>7, ExpandBatch
<1>8. ASSUME NEW q \in Readers, NEW f \in RecordFilters, ListRecords(q, f) \/ AggregateRecords(q, f)
      PROVE  BatchInv' /\ \A p \in Readers : CommitsWhole(p)
  BY <1>8, AnswerBatch DEF ListRecords, AggregateRecords
<1> QED BY <1>1, <1>2, <1>3, <1>4, <1>5, <1>6, <1>7, <1>8, GrantSteps DEF AccessNext

\* core/record_batch.go (RunAtomicBatch, runBatchOpInTx): two batches that run at the same time
\* never both hold writes of one row, the rows are documents, and each batch stays within its
\* statements.
THEOREM BatchesApart == AccessSpec => [](AccessTypeOK /\ WritesApart)
<1>1. AccessInv /\ BatchInv /\ [AccessNext]_accessVars => AccessInv' /\ BatchInv'
  BY AccessStep, BatchStep
<1>2. AccessInv /\ BatchInv => AccessTypeOK /\ WritesApart
  BY ExpansionsAssumption DEF AccessInv, BatchInv, AccessTypeOK, WithinBatch, Shown
<1> QED BY <1>1, <1>2, AccessInitially, BatchInitially, PTL DEF AccessSpec

\* core/record_batch.go (RunAtomicBatch): the rows that a batch has written keep their committed
\* values, whatever the other batches commit, until a step ends it; then all of them have what the
\* batch wrote, or none has.
THEOREM BatchesCommitWhole == AccessSpec => [][\A q \in Readers : CommitsWhole(q)]_accessVars
<1>1. AccessInv /\ BatchInv /\ [AccessNext]_accessVars => AccessInv' /\ BatchInv'
  BY AccessStep, BatchStep
<1>2. AccessInv /\ BatchInv /\ [AccessNext]_accessVars => [\A q \in Readers : CommitsWhole(q)]_accessVars
  BY BatchStep
<1> QED BY <1>1, <1>2, AccessInitially, BatchInitially, PTL DEF AccessSpec
==============================================================================
