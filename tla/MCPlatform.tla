----------------------------- MODULE MCPlatform ------------------------------
(* The parts of the server around its outbox, webhooks and jobs, for TLC.  An initial  *)
(* state picks a scenario: one part, and bounds on what can be stored in it and who    *)
(* acts; the state of the other parts then stands still.                               *)
EXTENDS OAuthLogin, Organizations, AdminAuth, RealtimeFanout, FileUploads, RecordWrites,
        FieldValues, ServerLogs, Collections, Settings, RecordAccess, RequestLimits, TLC

CONSTANTS u1, u2, e1, e2, e3, \* users and addresses
          ad2, m1, r1, r2, w1, f1, p1, p2, ch2, \* an admin, an address, replicas, uploads and records
          qr2, cl2, \* a request to a project, and its address
          n1, n2, c1, c2, open, owned, \* fields, collections, rules
          unique, long, short, search, s1, s2, s3, \* a check, three indexes, servers
          a1, b1, k1, g1, o1, \* secrets and an origin
          x1, x2, t1, d1, d2, i2       \* subjects, a tenant, folders and a record
VARIABLE scenario

Scenarios == {"sessions", "tokens", "factors", "providers", "organizations", "admins",
              "realtime", "files", "chunks", "batches", "moves", "values", "logs",
              "restores", "edits", "instance", "auth", "quotas", "access",
              "route", "rates", "storage"}

------------------------------------------------------------------------------
(* Accounts: one user has signed up; in organizations two, who are logged in. *)

AtMost(sessions, tokens, states) ==
  Len(appSessions) <= sessions /\ Len(authTokens) <= tokens /\ Len(oauthStates) <= states
Running(ops) == \A q \in AppRequests : appRequests[q].op \in ops \cup {"none"}
NoFactors == \A u \in AppUsers : mfaFactors[u] = {}
TwoEmails == /\ \A t \in DOMAIN authTokens : authTokens[t].mailedTo # e3
             /\ \A q \in AppRequests : appRequests[q].op = "signup" => appRequests[q].email # e3
             /\ \A i \in DOMAIN invitations : invitations[i].email # e3

AccountBounds ==
  /\ scenario # "providers" => TwoEmails
  /\ CASE scenario = "sessions" -> /\ AtMost(4, 0, 0) /\ NoFactors
                                  /\ Running({"login", "refresh", "replay", "logout_all"})
       [] scenario = "tokens" -> /\ AtMost(2, 2, 0) /\ NoFactors
                                /\ Running({"login", "login_otp", "password_reset", "email_change", "refresh"})
       [] scenario = "factors" -> /\ AtMost(3, 0, 0) /\ Len(mfaChallenges) <= 2
                                 /\ Running({"login", "refresh", "challenge"})
       [] scenario = "providers" -> AtMost(2, 0, 2) /\ NoFactors /\ Running({"signup", "oauth"})
       [] scenario = "organizations" -> AtMost(0, 1, 0) /\ NoFactors /\ Running({"email_change"})
       [] OTHER -> TRUE

AdminBounds == admins[ad2].email # m1

SignedUp == IF scenario = "organizations" THEN {u1, u2} ELSE {u1}

AccountsInit ==
  /\ appUsers = [u \in AppUsers |->
       [email |-> IF u \notin SignedUp THEN NoEmail ELSE IF u = u1 THEN e1 ELSE e2,
        verified |-> FALSE, key |-> 0]]
  /\ issuedKeys = {<<u, 0>> : u \in SignedUp}
  /\ appSessions = IF scenario \in {"sessions", "factors"}
                   THEN <<[user |-> u1, family |-> 1, revoked |-> FALSE, replacedBy |-> 0,
                           origin |-> <<"signup", 1>>]>>
                   ELSE <<>>
  /\ AppNothingElse
  /\ OAuthInit /\ OrgInit

------------------------------------------------------------------------------
(* Realtime, files and records *)

RecordsOnly == [s \in Subscriptions |-> "record"]
Everything == [s \in Subscriptions |-> {}]
\* One thing goes wrong, and of the replicas only r1 restarts.
RealtimeBounds ==
  insertFailures + start[r1] <= 1 /\ start[r2] = 0 /\ drawn["broadcast"] = 0

FileBounds ==
  CASE scenario = "files" ->
         /\ \A w \in ChunkRequests \ {w1} : chunkRequests[w] = Idle
         /\ chunkRequests[w1] # Idle => chunkRequests[w1].content = Declared
         /\ uploads[f1] # NoUpload => uploads[f1].declared
    [] scenario = "chunks" ->
         /\ \A f \in Directs : work[f] = Idle
         /\ deleting = {} /\ unsure = {}
         /\ uploads[f1] # NoUpload => ~uploads[f1].declared /\ uploads[f1].mode = "append"
    [] OTHER -> TRUE

\* Batches on one parent, or single writes that move children between two.
WriteBounds ==
  CASE scenario = "batches" -> \A t \in Transactions : Live(t) =>
         /\ p2 \notin DOMAIN xacts[t].wrote /\ xacts[t].expected \in {<<>>} \cup ({p1} \X Nat)
         /\ \A c \in DOMAIN xacts[t].wrote \ Parents : xacts[t].wrote[c].parent # p2
    [] scenario = "moves" -> \A t \in Transactions : Live(t) =>
         xacts[t].ops <= 1 /\ ch2 \notin DOMAIN xacts[t].wrote
    [] OTHER -> TRUE

\* Texts, editors and urls are validated alike, but for the least length of an editor.
SomeFields ==
  {d \in FieldDefinitions : /\ ValidateField(d) /\ d.min < MaxSize /\ d.max # 1
                            /\ d.type \notin {"editor", "url"}}
SomeField == CHOOSE d \in SomeFields : TRUE
\* A rename keeps the type of the column.
ValueBounds == ddl.type = ColumnType(field)

------------------------------------------------------------------------------
(* Collections and the rules of their records *)

\* The second collection is named as the first, a and more: of a and a_b the indexes b_t_trgm and
\* t_trgm, and the search index of a field t.
IndexNames ==
  [p \in CollectionNames \X {long, short, search} |->
     IF p \in {<<c1, long>>, <<c2, short>>, <<c2, search>>} THEN "a_b_t_trgm"
     ELSE IF p[1] = c1 THEN "a_t_trgm" ELSE "a_b_b_t_trgm"]

FieldOf(type, computed, target, old) ==
  [type |-> type, computed |-> computed, target |-> target, onDelete |-> "restrict",
   oldName |-> old]
OneField(type, target) ==
  [[f \in FieldNames |-> NoField] EXCEPT ![n1] =
     [type |-> type, computed |-> FALSE, target |-> target, onDelete |-> "restrict"]]
TextOnly == OneField("text", NoTarget)
InputOf(type, target, rule, constraints) ==
  [fields |-> OneField(type, target), rule |-> rule, constraints |-> constraints]
EditOf(name, rule, constraints, set, fields, drop) ==
  [name |-> name, rule |-> rule, constraints |-> constraints, fieldsSet |-> set,
   fields |-> fields, dropMissing |-> drop]

Names(rule) == IF rule = owned THEN {n1} ELSE {}
AllNames == [r \in Rules |-> Names(r)]
TwoInputs == {InputOf("text", NoTarget, owned, {unique, long}),
              InputOf("relation", c1, open, {unique, short, search})}
FewEdits ==
  {EditOf(n, r, {unique, short}, FALSE, [f \in FieldNames |-> NoField], FALSE) :
     n \in CollectionNames, r \in Rules}
  \cup {EditOf(c1, open, {}, TRUE, [f \in FieldNames |->
                 IF f = n2 THEN FieldOf("text", FALSE, NoTarget, n1) ELSE NoField], FALSE),
        EditOf(c2, open, {unique}, TRUE, [f \in FieldNames |->
                 FieldOf("text", f = n2, NoTarget, NoField)], FALSE),
        EditOf(c1, open, {unique}, TRUE, [f \in FieldNames |-> NoField], TRUE)}

SchemaBounds ==
  CASE scenario = "restores" ->
         /\ importing = {} /\ schemaChanges <= 2 /\ (schemaChanges = 1 => ~Defined(c2))
         /\ servers[s1].phase # "down" => servers[s2].phase # "down" /\ servers[s3].phase = "down"
         /\ Cardinality({n \in TableNames : tables[n] # NoTable}) <= 2
         /\ Cardinality({n \in CollectionNames : Defined(n)}) <= 1
         /\ \A n \in CollectionNames :
              Defined(n) => tables[n] # NoTable /\ collections[n].fields = TextOnly
    [] OTHER -> archive = {} /\ servers = [s \in Servers |-> [phase |-> "serving"]]

Folders == (d1 :> [owner |-> x1, org |-> Missing, state |-> "open"])
        @@ (d2 :> [owner |-> Missing, org |-> t1, state |-> "closed"])
RuleSet(l, v, c, u, d) == [list |-> l, view |-> v, create |-> c, update |-> u, delete |-> d]
Own1 == Compare("=", Field("owner"), Ref("sub"))
NotOwn == Compare("!=", Field("owner"), Ref("sub"))
Known1 == Compare("!=", Ref("sub"), Text(""))
OwnOrg == Compare("=", Field("org"), Ref("orgId"))
NotClosed == Compare("!=", Field("state"), Text("closed"))
ThreeRuleSets ==
  {RuleSet(Own1, Known1, Both(Known1, Own1), Own1, NoRule),
   RuleSet(Everyone, Either(OwnOrg, NotClosed), OwnOrg, Both(OwnOrg, NotClosed),
           Compare("=", Ref("orgRole"), Text("admin"))),
   RuleSet(NotOwn, Compare("=", Field("state"), NullLiteral), Everyone,
           Compare("=", Ref("sub"), Text("")), NotClosed)}
FolderRuleSet ==
  RuleSet(Compare("=", Field("owner"), NullLiteral), NotClosed, NoRule, NoRule, NoRule)
FilterOf(op, value, path, negated) ==
  [op |-> op, field |-> "state", value |-> value, path |-> path, negated |-> negated]
SomeFilters ==
  {FilterOf("_eq", "open", FALSE, n) : n \in BOOLEAN}
  \cup {FilterOf("_nin", {"open"}, FALSE, FALSE), FilterOf("_nin", {}, FALSE, FALSE),
        FilterOf("_neq", "open", TRUE, FALSE), FilterOf("_eq", "closed", TRUE, TRUE),
        FilterOf("_empty", Missing, FALSE, TRUE), FilterOf("_ncontains", "open", FALSE, FALSE),
        FilterOf("_nicontains", "open", FALSE, FALSE)}
ThreeDocuments ==
  {[owner |-> x1, org |-> t1, state |-> "open", folder |-> d1],
   [owner |-> x2, org |-> Missing, state |-> "closed", folder |-> d2],
   [owner |-> Missing, org |-> t1, state |-> Missing, folder |-> Missing]}

\* A second grant is a revocation, and the second record has no owner.
AccessBounds ==
  /\ grants = 2 => \E k \in ApiKeys : apiKeys[k] = "revoked"
  /\ documents[i2] # NoDocument => documents[i2].owner = Missing

------------------------------------------------------------------------------
(* Settings and limits *)

Environs ==
  {[jwtSecret |-> k, mailHost |-> TRUE, mailUser |-> TRUE, mailPassword |-> k # ShortSecret,
    storage |-> "local", s3Secret |-> FALSE] : k \in JwtSecrets \cup {ShortSecret}}
Smtp(on, secret, clear) ==
  [enabled |-> on, host |-> on, user |-> ~clear, secret |-> secret, clear |-> clear]
Bucket(type, secret) == [type |-> type, bucket |-> TRUE, secret |-> secret, clear |-> FALSE]
Templates(text) == "templates" :> text
FewRequests ==
  [instance |-> One("smtp", {Smtp(TRUE, a1, FALSE), Smtp(TRUE, Blank, FALSE),
                             Smtp(TRUE, Blank, TRUE), Smtp(FALSE, Blank, FALSE)})
     \cup One("storage", {Bucket("s3", a1), Bucket("s3", Blank), Bucket("local", Blank)})
     \cup One("cors", {[origins |-> {o1}, allowWildcard |-> FALSE]}) \cup One("logs", {"other"}),
   auth |-> {Templates("custom"), Templates(Blank) @@ ("lifetimes" :> "other")}
     \cup {Templates(Blank) @@ ("providers" :> [p \in LoginProviders |-> i]) :
             i \in {NoProvider, [secret |-> a1, clear |-> FALSE]}
                     \cup [secret : {Blank}, clear : BOOLEAN]},
   quotas |-> {("limits" :> n) : n \in {"valid", "other"}}
     \cup {("limits" :> "valid") @@ ("enforced" :> b) : b \in BOOLEAN}]

SettingBounds ==
  /\ \A a \in Editors : updates[a] # NoUpdate => updates[a].document = scenario
  /\ scenario = "instance" => \E a \in Editors : updates[a] = NoUpdate
  /\ scenario # "quotas" => asked["projectCors"] = Unset

QuotaOf(r, a) == [requests |-> r, auth |-> a]
NoLimits == QuotaOf(0, 0)
FewQuotas == {NoLimits, QuotaOf(1, 0), QuotaOf(2, 1)}

LimitBounds ==
  CASE scenario = "route" -> checks = [q \in ProjectRequests |-> NoCheck] /\ quota = NoLimits /\ fileBytes = 0
                             /\ \A u \in Uploaders : storing[u] = 0
    [] scenario = "rates" -> /\ time <= 3 /\ limiters["route"].hits = <<>> /\ fileBytes = 0
                             /\ quota # NoLimits /\ \A u \in Uploaders : storing[u] = 0
                             /\ checks[qr2].part \in {"none", "public"}
                             /\ \A q \in ProjectRequests : checks[q] # NoCheck =>
                                  (checks[q].client = cl2 <=> checks[q].part = "principal")
    [] OTHER -> /\ time = 0 /\ quota = NoLimits /\ checks = [q \in ProjectRequests |-> NoCheck]
                /\ limiters["route"].hits = <<>>

------------------------------------------------------------------------------
PlatformInit ==
  /\ scenario \in Scenarios
  /\ AccountsInit /\ AdminInit /\ RealtimeInit /\ FilesInit("s3") /\ WritesInit /\ LogsInit
  /\ ValuesInit /\ (scenario # "values" => field = SomeField)
  /\ CollectionsInit /\ (scenario # "restores" => SchemaBounds)
  /\ SettingsInit /\ (scenario \notin {"instance", "auth", "quotas"} =>
                        environment = CHOOSE e \in Deployments : Validate(e))
  /\ AccessInit /\ AccessBounds /\ (scenario # "access" =>
                      /\ rules = CHOOSE r \in RuleSets : TRUE
                      /\ documents = [d \in DocumentIds |-> NoDocument])
  /\ LimitsInit /\ (scenario # "rates" <=> quota = NoLimits)

\* Whatever the scenario is not about stands still.
Elsewhere(part) ==
  /\ IF part = "accounts" THEN TRUE ELSE UNCHANGED appVars
  /\ IF part = "accounts" THEN TRUE ELSE UNCHANGED oauthVars
  /\ IF part = "accounts" THEN TRUE ELSE UNCHANGED orgVars
  /\ IF part = "admins" THEN TRUE ELSE UNCHANGED adminVars
  /\ IF part = "realtime" THEN TRUE ELSE UNCHANGED realtimeVars
  /\ IF part = "files" THEN TRUE ELSE UNCHANGED filesVars
  /\ IF part = "writes" THEN TRUE ELSE UNCHANGED writeVars
  /\ IF part = "values" THEN TRUE ELSE UNCHANGED valueVars
  /\ IF part = "logs" THEN TRUE ELSE UNCHANGED logVars
  /\ IF part = "collections" THEN TRUE ELSE UNCHANGED collectionVars
  /\ IF part = "settings" THEN TRUE ELSE UNCHANGED settingVars
  /\ IF part = "access" THEN TRUE ELSE UNCHANGED accessVars
  /\ IF part = "limits" THEN TRUE ELSE UNCHANGED limitVars

Among(scenarios, part) == scenario \in scenarios /\ UNCHANGED scenario /\ Elsewhere(part)

AccountStep ==
  /\ Among({"sessions", "tokens", "factors"}, "accounts")
  /\ AppNext /\ UNCHANGED <<oauthVars, orgVars>> /\ AccountBounds'
ProviderStep ==
  Among({"providers"}, "accounts") /\ OAuthNext /\ UNCHANGED orgVars /\ AccountBounds'
OrganizationStep ==
  Among({"organizations"}, "accounts") /\ OrgNext /\ UNCHANGED oauthVars /\ AccountBounds'
AdminStep == Among({"admins"}, "admins") /\ AdminNext /\ AdminBounds'
RealtimeStep == Among({"realtime"}, "realtime") /\ RealtimeNext /\ RealtimeBounds'
FileStep == Among({"files", "chunks"}, "files") /\ FilesNext /\ FileBounds'
WriteStep == Among({"batches", "moves"}, "writes") /\ WritesNext /\ WriteBounds'
ValueStep == Among({"values"}, "values") /\ ValuesNext /\ ValueBounds'
LogStep == Among({"logs"}, "logs") /\ LogsNext
CollectionStep == Among({"restores", "edits"}, "collections") /\ CollectionsNext /\ SchemaBounds'
SettingStep ==
  Among({"instance", "auth", "quotas"}, "settings") /\ SettingsNext /\ SettingBounds'
AccessStep == Among({"access"}, "access") /\ AccessNext /\ AccessBounds'
LimitStep == Among({"route", "rates", "storage"}, "limits") /\ LimitsNext /\ LimitBounds'

PlatformNext ==
  \/ AccountStep \/ ProviderStep \/ OrganizationStep \/ AdminStep
  \/ RealtimeStep \/ FileStep \/ WriteStep \/ ValueStep
  \/ LogStep \/ CollectionStep \/ SettingStep \/ AccessStep \/ LimitStep

platformVars == <<scenario, accountVars, orgVars, adminVars, realtimeVars, filesVars, writeVars,
                  valueVars, logVars, collectionVars, settingVars, accessVars, limitVars>>

PlatformSpec == PlatformInit /\ [][PlatformNext]_platformVars

\* The state of every module has its type: no limiter holds more keys than it may, no buffer
\* and no queue more than fits.
PlatformTypeOK ==
  /\ AppTypeOK /\ OAuthTypeOK /\ OrgTypeOK /\ AdminTypeOK
  /\ RealtimeTypeOK /\ FilesTypeOK /\ WritesTypeOK /\ ValuesTypeOK /\ LogsTypeOK
  /\ CollectionsTypeOK /\ SettingsTypeOK /\ AccessTypeOK /\ LimitsTypeOK
==============================================================================
