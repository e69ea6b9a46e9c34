------------------------------ MODULE RecordAccess ------------------------------
(***************************************************************************)
(* Who may do what to the records of a collection: the rules of the        *)
(* collection compiled to row-level security (core/rules.go, rls.go), the  *)
(* caller that a request resolves to (record_auth.go, api_keys.go), and    *)
(* the statements that run under that caller (records.go, record_batch.go, *)
(* record_filters.go, filter_relations.go, record_aggregate.go,            *)
(* record_export.go).                                                      *)
(*                                                                         *)
(* PostgreSQL decides each row with three-valued logic, from the compiled  *)
(* policies, the claims and the request.operation that the transaction     *)
(* carries.  The reference is two-valued: a comparison with a missing      *)
(* value does not hold.  A collection "documents" relates to a collection  *)
(* of folders that do not change.  Values are opaque: the text of a uuid   *)
(* is the uuid.                                                            *)
(***************************************************************************)
EXTENDS Integers, FiniteSets, Functions

CONSTANTS
  DocumentIds, FolderRows, \* FolderRows: the rows of the other collection, by id
  Subjects, Tenants, ApiKeys,
  RuleSets,       \* rules that a collection may have, by operation
  FolderRules,
  RecordFilters, NewDocuments,
  Readers,        \* requests
  Missing, Nobody, NoDocument, NoRule, Everyone, NoRequest, NoDecision,
  MaxStatements, MaxGrants \* bounds: statements of a batch, changes of keys and memberships

ASSUME AccessAssumption ==
  /\ Missing \notin Subjects \cup Tenants \cup DocumentIds \cup DOMAIN FolderRows
  /\ NoDocument \notin NewDocuments /\ MaxStatements \in Nat /\ MaxGrants \in Nat

VARIABLES
  rules,          \* the rules of documents, as compiled into its policies
  documents,      \* the committed rows
  apiKeys,        \* API keys: absent, live with a type, or revoked
  members,        \* by subject and tenant, the role there
  requests,       \* by request: its caller and its transaction
  grants

accessVars == <<rules, documents, apiKeys, members, requests, grants>>

Operations == {"list", "view", "create", "update", "delete"}
Documents == [owner : Subjects \cup {Missing}, org : Tenants \cup {Missing},
              state : {"open", "closed", "", Missing}, folder : DOMAIN FolderRows \cup {Missing}]

\* The rules and the filters looked at here: comparisons by equality, two of them joined, and
\* operators of a text field.  A text that is looked for is never null.
CompareForm(n) == n.op \in {"=", "!="}
RuleForm(rule) ==
  \/ rule \in {NoRule, Everyone}
  \/ CompareForm(rule)
  \/ rule.op \in {"and", "or"} /\ CompareForm(rule.left) /\ CompareForm(rule.right)
FilterForm(f) ==
  /\ f.op \in {"_eq", "_neq", "_in", "_nin", "_empty", "_ncontains", "_nicontains"}
  /\ f.op = "_ncontains" => f.value # Missing
  /\ f.path \in BOOLEAN /\ f.negated \in BOOLEAN

ASSUME FormsAssumption ==
  /\ NoRule # Everyone
  /\ \A ruleset \in RuleSets \cup {FolderRules} : \A op \in Operations : RuleForm(ruleset[op])
  /\ \A f \in RecordFilters : FilterForm(f)

\* Answers with the related rows of the records that were found
Expansions == [items : SUBSET DocumentIds, named : SUBSET DOMAIN FolderRows,
               expanded : SUBSET DOMAIN FolderRows]

ASSUME ExpansionsAssumption == NoDecision \notin Expansions /\ NewDocuments \subseteq Documents

(***************************************************************************)
(* Callers                                                                 *)
(***************************************************************************)
newRecordAuth(role, sub) == [role |-> role, sub |-> sub, orgId |-> Missing, orgRole |-> Missing]
NoToken == [kind |-> "none"]
Tokens == {NoToken} \cup [kind : {"admin"}, mustChange : BOOLEAN]
          \cup [kind : {"key"}, key : ApiKeys, project : {"own", "other"}] \cup [kind : {"app"}, sub : Subjects]

resolveRecordAuthBase(token) ==
  CASE token.kind = "none" -> newRecordAuth("anon", Missing)
    [] token.kind = "admin" -> IF token.mustChange THEN Nobody ELSE newRecordAuth("service", Missing)
    [] token.kind = "key" -> IF apiKeys[token.key] \in {"anon", "service"} /\ token.project = "own"
                             THEN newRecordAuth(apiKeys[token.key], Missing) ELSE Nobody
    [] token.kind = "app" -> newRecordAuth("authenticated", token.sub)

\* The organization of a request is the caller's word; for a signed-in user it
\* is looked up, a service key gets it as asked, and nobody else may name one.
ResolveRecordAuthForOrg(token, org) ==
  LET auth == resolveRecordAuthBase(token) IN
  IF auth = Nobody \/ org = Missing THEN auth
  ELSE CASE auth.role = "authenticated" ->
              IF members[auth.sub][org] = Missing THEN Nobody
              ELSE [auth EXCEPT !.orgId = org, !.orgRole = members[auth.sub][org]]
         [] auth.role = "service" -> [auth EXCEPT !.orgId = org, !.orgRole = "owner"]
         [] OTHER -> Nobody

(***************************************************************************)
(* Rules: a comparison, or two joined by "and" or "or".  Operands are      *)
(* fields, @request references, text and null.                             *)
(***************************************************************************)
Field(name) == [is |-> "field", name |-> name]
Ref(name) == [is |-> "ref", name |-> name]
Text(value) == [is |-> "text", name |-> value]
NullLiteral == [is |-> "null", name |-> Missing]
Compare(op, left, right) == [op |-> op, left |-> left, right |-> right]
Both(a, b) == [op |-> "and", left |-> a, right |-> b]
Either(a, b) == [op |-> "or", left |-> a, right |-> b]

isAuthIDRef(n) == n.is = "ref" /\ n.name \in {"sub", "orgId"}
isText(n) == n.is = "text" \/ (n.is = "ref" /\ ~isAuthIDRef(n)) \/ (n.is = "field" /\ n.name # "owner")

compileCompare(n) ==
  LET other == IF isAuthIDRef(n.left) THEN n.right ELSE n.left
      ref == IF isAuthIDRef(n.left) THEN n.left ELSE n.right
      test == IF n.op = "=" THEN "is null" ELSE "is not null"
  IN
  IF n.left = NullLiteral THEN [sql |-> test, of |-> n.right]
  ELSE IF n.right = NullLiteral THEN [sql |-> test, of |-> n.left]
  ELSE IF isAuthIDRef(ref) /\ other = Text("") THEN [sql |-> test, of |-> ref]
  ELSE [sql |-> n.op, of |-> n.left, with |-> n.right] \* a uuid reference cast to text if need be

compilePolicyRule(rule) ==
  IF rule = NoRule THEN [sql |-> "false"]
  ELSE IF rule = Everyone THEN [sql |-> "true"]
  ELSE IF rule.op \in {"and", "or"}
  THEN [sql |-> rule.op, of |-> compileCompare(rule.left), with |-> compileCompare(rule.right)]
  ELSE compileCompare(rule)

\* ValidateCollectionRules and PostgreSQL refuse an ordering of uuids with text
\* and a uuid that is compared with a text that is none.
CompareAccepted(n) ==
  \/ NullLiteral \in {n.left, n.right}
  \/ isText(n.left) /\ isText(n.right)
  \/ ~isText(n.left) /\ ~isText(n.right)
  \/ \E r \in {n.left, n.right} : isAuthIDRef(r) /\
       \E o \in {n.left, n.right} : (o.is = "field" /\ isText(o)) \/ o = Text("")
RuleAccepted(rule) ==
  IF rule \in {NoRule, Everyone} THEN TRUE
  ELSE IF rule.op \in {"and", "or"} THEN CompareAccepted(rule.left) /\ CompareAccepted(rule.right)
  ELSE CompareAccepted(rule)

(***************************************************************************)
(* Evaluation by PostgreSQL                                                *)
(***************************************************************************)
compileRequestRef(name, auth) == \* request_auth_id, request_role, request_org_id, request_org_role
  CASE name = "sub" -> auth.sub [] name = "role" -> auth.role
    [] name = "orgId" -> auth.orgId [] name = "orgRole" -> auth.orgRole
ValueOf(n, row, auth) ==
  CASE n.is = "field" -> row[n.name] [] n.is = "ref" -> compileRequestRef(n.name, auth) [] OTHER -> n.name

Truth(b) == IF b THEN "true" ELSE "false"
Equal(a, b) == IF Missing \in {a, b} THEN "unknown" ELSE Truth(a = b)
NotTrue(t) == CASE t = "true" -> "false" [] t = "false" -> "true" [] OTHER -> t
AndTrue(s, t) == IF "false" \in {s, t} THEN "false" ELSE IF "unknown" \in {s, t} THEN "unknown" ELSE "true"
OrTrue(s, t) == IF "true" \in {s, t} THEN "true" ELSE IF "unknown" \in {s, t} THEN "unknown" ELSE "false"

EvaluateCompare(s, row, auth) ==
  CASE s.sql = "is null" -> Truth(ValueOf(s.of, row, auth) = Missing)
    [] s.sql = "is not null" -> Truth(ValueOf(s.of, row, auth) # Missing)
    [] s.sql = "=" -> Equal(ValueOf(s.of, row, auth), ValueOf(s.with, row, auth))
    [] s.sql = "!=" -> NotTrue(Equal(ValueOf(s.of, row, auth), ValueOf(s.with, row, auth)))
Evaluate(s, row, auth) ==
  CASE s.sql \in {"true", "false"} -> s.sql
    [] s.sql = "and" -> AndTrue(EvaluateCompare(s.of, row, auth), EvaluateCompare(s.with, row, auth))
    [] s.sql = "or" -> OrTrue(EvaluateCompare(s.of, row, auth), EvaluateCompare(s.with, row, auth))
    [] OTHER -> EvaluateCompare(s, row, auth)

\* syncCollectionPolicies: the service role passes; for the others the select
\* policy is the rule of the transaction's operation, and each write has its own.
SelectPolicy(ruleset, operation, row, auth) ==
  auth.role = "service" \/ Evaluate(compilePolicyRule(ruleset[operation]), row, auth) = "true"
UsingPolicy(command, row, auth) ==
  auth.role = "service" \/ Evaluate(compilePolicyRule(rules[command]), row, auth) = "true"

CheckPolicy(command, row, auth) == UsingPolicy(command, row, auth)

(***************************************************************************)
(* Filters: an operator on a field, on a field of the folder (through a    *)
(* subquery under the same role and operation), negated or not             *)
(***************************************************************************)
compilePredicateColumn(f, v) ==
  CASE f.op = "_eq" -> IF f.value = Missing THEN Truth(v = Missing) ELSE Equal(v, f.value)
    [] f.op = "_neq" -> IF f.value = Missing THEN Truth(v # Missing) ELSE NotTrue(Equal(v, f.value))
    [] f.op = "_in" -> IF f.value = {} THEN "false"
                       ELSE IF v = Missing THEN "unknown" ELSE Truth(v \in f.value)
    [] f.op = "_nin" -> IF f.value = {} THEN "true"
                        ELSE IF v = Missing THEN "unknown" ELSE Truth(v \notin f.value)
    [] f.op = "_empty" -> Truth(v \in {Missing, ""})
    [] f.op = "_ncontains" -> NotTrue(Equal(v, f.value))   \* the text of the field and of the
    [] f.op = "_nicontains" -> Truth(v # f.value)          \* filter match as a whole here

EvaluateFilter(f, row, auth, operation) ==
  LET column == IF f.path
        THEN IF row.folder = Missing THEN "false"
             ELSE Truth(/\ SelectPolicy(FolderRules, operation, FolderRows[row.folder], auth)
                        /\ compilePredicateColumn(f, FolderRows[row.folder][f.field]) = "true")
        ELSE compilePredicateColumn(f, row[f.field])
  IN IF f.negated THEN NotTrue(column) ELSE column

(***************************************************************************)
(* Types and initial state                                                 *)
(***************************************************************************)
AccessTypeOK ==
  /\ rules \in RuleSets /\ documents \in [DocumentIds -> Documents \cup {NoDocument}]
  /\ apiKeys \in [ApiKeys -> {"absent", "anon", "service", "revoked"}]
  /\ members \in [Subjects -> [Tenants -> {"admin", Missing}]]
  /\ \A q \in Readers : requests[q] = NoRequest \/
       /\ requests[q].operation \in Operations
       /\ DOMAIN requests[q].draft \subseteq DocumentIds /\ requests[q].statements \in 0 .. MaxStatements
  /\ grants \in 0 .. MaxGrants

AccessInit ==
  /\ rules \in {r \in RuleSets : \A op \in Operations : RuleAccepted(r[op])}
  /\ documents \in [DocumentIds -> NewDocuments \cup {NoDocument}]
  /\ apiKeys = [k \in ApiKeys |-> "absent"]
  /\ members = [u \in Subjects |-> [t \in Tenants |-> Missing]]
  /\ requests = [q \in Readers |-> NoRequest] /\ grants = 0

(***************************************************************************)
(* Steps.  A transaction sees the committed rows and its own writes; a row *)
(* it has written is locked until it ends.                                 *)
(***************************************************************************)
Seen(q) == [d \in DocumentIds |-> IF d \in DOMAIN requests[q].draft THEN requests[q].draft[d] ELSE documents[d]]
Unlocked(q, d) == \A p \in Readers \ {q} : requests[p] # NoRequest => d \notin DOMAIN requests[p].draft

CreateAPIKey(k, type) ==
  /\ apiKeys[k] = "absent" /\ grants < MaxGrants
  /\ apiKeys' = [apiKeys EXCEPT ![k] = type] /\ grants' = grants + 1
  /\ UNCHANGED <<rules, documents, members, requests>>

RevokeAPIKey(k) ==
  /\ apiKeys[k] \notin {"absent", "revoked"} /\ grants < MaxGrants
  /\ apiKeys' = [apiKeys EXCEPT ![k] = "revoked"] /\ grants' = grants + 1
  /\ UNCHANGED <<rules, documents, members, requests>>

\* Members join and leave between two requests, and during one.
ChangeMembership(u, t) ==
  /\ grants < MaxGrants /\ grants' = grants + 1
  /\ members' = [members EXCEPT ![u][t] = IF @ = Missing THEN "admin" ELSE Missing]
  /\ UNCHANGED <<rules, documents, apiKeys, requests>>

\* A request resolves its caller, before the transaction of its records begins.
resolveRecordAuth(q, token, org) ==
  LET auth == ResolveRecordAuthForOrg(token, org) IN
  /\ requests[q] = NoRequest /\ auth # Nobody
  /\ \E kind \in {"list", "view", "batch"} :
       requests' = [requests EXCEPT ![q] =
         [auth |-> auth, kind |-> kind, operation |-> IF kind = "batch" THEN "create" ELSE kind,
          draft |-> <<>>, statements |-> 0, decision |-> NoDecision]]
  /\ UNCHANGED <<rules, documents, apiKeys, members, grants>>

\* A statement that PostgreSQL refused aborts its transaction.
WasRefused(r) == r.decision # NoDecision /\ "done" \in DOMAIN r.decision /\ ~r.decision.done

\* The rows that the policy and the filter let through, of which a list returns a
\* page and an export all (ExportRows)
RowsFor(r, filter) ==
  {d \in DocumentIds : /\ documents[d] # NoDocument
                       /\ SelectPolicy(rules, r.operation, documents[d], r.auth)
                       /\ EvaluateFilter(filter, documents[d], r.auth, r.operation) = "true"}

Answer(q, decision) ==
  /\ requests[q] # NoRequest /\ requests[q].kind = "list" /\ requests[q].decision = NoDecision
  /\ requests' = [requests EXCEPT ![q].decision = decision]
  /\ UNCHANGED <<rules, documents, apiKeys, members, grants>>

ListRecords(q, filter) == Answer(q, [filter |-> filter, items |-> RowsFor(requests[q], filter)])

\* The number of records of each state
CountByState(rows) ==
  [s \in {documents[d].state : d \in rows} |-> Cardinality({d \in rows : documents[d].state = s})]
AggregateRecords(q, filter) ==
  Answer(q, [filter |-> filter, groups |-> CountByState(RowsFor(requests[q], filter))])

\* The related rows are fetched in a transaction of their own, for viewing.
expandRecords(q) ==
  LET r == requests[q]
      named == {documents[d].folder : d \in {i \in r.decision.items : documents[i] # NoDocument}} \ {Missing}
  IN
  /\ r # NoRequest /\ r.kind \in {"list", "view"} /\ r.decision # NoDecision
  /\ {"expanded", "groups"} \cap DOMAIN r.decision = {}
  /\ requests' = [requests EXCEPT ![q].operation = "view", ![q].decision =
       [items |-> r.decision.items,
        named |-> named,
        expanded |-> {f \in named : SelectPolicy(FolderRules, "view", FolderRows[f], r.auth)}]]
  /\ UNCHANGED <<rules, documents, apiKeys, members, grants>>

\* The operation that a statement of a batch runs as
OperationSet_Once(current, method) == current

OperationSet(current, method) == method

GetRecord(q, d) ==
  LET r == requests[q]
      operation == IF r.kind = "batch" THEN OperationSet(r.operation, "view") ELSE r.operation
      found == Seen(q)[d] # NoDocument /\ SelectPolicy(rules, operation, Seen(q)[d], r.auth)
  IN
  /\ r # NoRequest /\ r.kind \in {"view", "batch"}
  /\ IF r.kind = "view" THEN r.decision = NoDecision ELSE r.statements < MaxStatements /\ ~WasRefused(r)
  /\ IF found \/ r.kind = "view"
     THEN requests' = [requests EXCEPT ![q].operation = operation,
            ![q].statements = IF r.kind = "batch" THEN @ + 1 ELSE @,
            ![q].decision = [looked |-> d, items |-> IF found THEN {d} ELSE {}]]
     ELSE requests' = [requests EXCEPT ![q] = NoRequest]
  /\ UNCHANGED <<rules, documents, apiKeys, members, grants>>

\* One write: createRecordInTx, updateRecordInTx or deleteRecordInTx, returning
\* the row, so the select policy applies to what is read and to what is left.
Admitted(operation, command, before, after, auth) ==
  /\ before # NoDocument => UsingPolicy(command, before, auth) /\ SelectPolicy(rules, operation, before, auth)
  /\ after # NoDocument => CheckPolicy(command, after, auth) /\ SelectPolicy(rules, operation, after, auth)

WriteRecord(q, command, d, row) ==
  LET r == requests[q]
      operation == OperationSet(r.operation, command)
      before == Seen(q)[d]
      after == IF command = "delete" THEN NoDocument ELSE row
      done == Admitted(operation, command, before, after, r.auth)
  IN
  /\ r # NoRequest /\ r.kind = "batch" /\ r.statements < MaxStatements /\ ~WasRefused(r)
  /\ Unlocked(q, d) /\ (command = "create" <=> before = NoDocument)
  /\ requests' = [requests EXCEPT ![q] =
       [r EXCEPT !.operation = operation, !.statements = @ + 1,
                 !.draft = IF done THEN [i \in DOMAIN r.draft \cup {d} |-> IF i = d THEN after ELSE r.draft[i]] ELSE r.draft,
                 !.decision = [command |-> command, before |-> before, after |-> after, done |-> done]]]
  /\ UNCHANGED <<rules, documents, apiKeys, members, grants>>

\* RunAtomicBatch commits all its writes, or none when one of them was refused,
\* failed for another reason or the client left.
FinishRequest(q) ==
  LET r == requests[q] IN
  /\ r # NoRequest
  /\ documents' \in {documents} \cup IF WasRefused(r) THEN {} ELSE {Seen(q)}
  /\ requests' = [requests EXCEPT ![q] = NoRequest]
  /\ UNCHANGED <<rules, apiKeys, members, grants>>

AccessNext ==
  \/ \E k \in ApiKeys : RevokeAPIKey(k) \/ \E type \in {"anon", "service"} : CreateAPIKey(k, type)
  \/ \E u \in Subjects, t \in Tenants : ChangeMembership(u, t)
  \/ \E q \in Readers :
       \/ \E token \in Tokens, org \in Tenants \cup {Missing} : resolveRecordAuth(q, token, org)
       \/ \E f \in RecordFilters : ListRecords(q, f) \/ AggregateRecords(q, f)
       \/ expandRecords(q) \/ FinishRequest(q)
       \/ \E d \in DocumentIds :
            \/ GetRecord(q, d)
            \/ \E row \in NewDocuments : WriteRecord(q, "create", d, row) \/ WriteRecord(q, "update", d, row)
            \/ WriteRecord(q, "delete", d, NoDocument)

AccessSpec == AccessInit /\ [][AccessNext]_accessVars

(***************************************************************************)
(* Properties                                                              *)
(***************************************************************************)
\* The reference: what a rule says, in two values
CompareHolds(n, row, auth) ==
  LET a == ValueOf(n.left, row, auth)
      b == ValueOf(n.right, row, auth)
      asks(x, y) == y = NullLiteral \/ (isAuthIDRef(x) /\ y = Text(""))
      same == IF asks(n.left, n.right) THEN a = Missing
              ELSE IF asks(n.right, n.left) THEN b = Missing ELSE a = b
      known == asks(n.left, n.right) \/ asks(n.right, n.left) \/ Missing \notin {a, b}
  IN known /\ (same <=> n.op = "=")

RuleHolds(rule, row, auth) ==
  \/ auth.role = "service"
  \/ rule = Everyone
  \/ /\ rule \notin {NoRule, Everyone}
     /\ CASE rule.op = "and" -> CompareHolds(rule.left, row, auth) /\ CompareHolds(rule.right, row, auth)
          [] rule.op = "or" -> CompareHolds(rule.left, row, auth) \/ CompareHolds(rule.right, row, auth)
          [] OTHER -> CompareHolds(rule, row, auth)

FilterHolds(f, row, auth) ==
  LET v == IF f.path THEN FolderRows[row.folder][f.field] ELSE row[f.field]
      holds == CASE f.op = "_eq" -> v = f.value
                 [] f.op = "_in" -> v # Missing /\ v \in f.value
                 [] f.op = "_neq" -> v # f.value /\ (v # Missing \/ f.value = Missing)
                 [] f.op = "_nin" -> v \notin f.value /\ (v # Missing \/ f.value = {})
                 [] f.op = "_empty" -> v \in {Missing, ""}
                 [] f.op = "_ncontains" -> v \notin {Missing, f.value}
                 [] f.op = "_nicontains" -> v # f.value
      undecided == v = Missing /\ \/ f.op \in {"_eq", "_neq"} /\ f.value # Missing
                                  \/ f.op \in {"_in", "_nin"} /\ f.value # {}
                                  \/ f.op = "_ncontains"
      reached == row.folder # Missing /\ RuleHolds(FolderRules["list"], FolderRows[row.folder], auth)
  IN IF f.path THEN (reached /\ holds) # f.negated ELSE IF f.negated THEN ~holds /\ ~undecided ELSE holds

DecidedRight(q) ==
  LET r == requests'[q]
      c == r.decision
      selected == {d \in DocumentIds : /\ documents[d] # NoDocument
                                       /\ RuleHolds(rules["list"], documents[d], r.auth)
                                       /\ FilterHolds(c.filter, documents[d], r.auth)}
  IN
  CASE "groups" \in DOMAIN c -> c.groups = CountByState(selected)
    [] {"filter", "items"} \subseteq DOMAIN c -> c.items = selected
    [] "looked" \in DOMAIN c -> (c.items # {}) <=> /\ Seen(q)[c.looked] # NoDocument
                                                   /\ RuleHolds(rules["view"], Seen(q)[c.looked], r.auth)
    [] "expanded" \in DOMAIN c -> c.expanded = {f \in c.named : RuleHolds(FolderRules["view"], FolderRows[f], r.auth)}
    [] OTHER -> c.done <=> \A row \in {c.before, c.after} \ {NoDocument} : RuleHolds(rules[c.command], row, r.auth)

\* Every statement does exactly what the collection's rule for that operation
\* says of its caller: a list returns, and an aggregate counts, the rows that the
\* list rule and the filter select, a get finds the row that the view rule shows,
\* also inside a batch, and a write is done exactly when its own rule holds of the
\* row that was there and of the row it leaves, whatever the earlier statements of
\* its transaction were.
\* A comparison with a value that is missing, of the row or of the caller, does
\* not hold (ruleCompiler, syncCollectionPolicies, runBatchOpInTx).
RulesDecide ==
  [][\A q \in Readers :
       requests'[q] # NoRequest /\ requests'[q].decision # NoDecision /\ requests'[q] # requests[q]
         => DecidedRight(q)]_accessVars
=============================================================================
