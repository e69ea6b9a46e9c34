------------------------------ MODULE Collections ------------------------------
(***************************************************************************)
(* Collections and the tables behind them (core/collections.go, rules.go,  *)
(* constraints.go, cross_row.go, schema_discovery.go), and what a start of *)
(* the server repairs of them after a restore (core/reconcile.go,          *)
(* migrate.go, backups.go, cmd/serve.go).                                  *)
(*                                                                         *)
(* Every change of a collection is one transaction under                   *)
(* collectionAdvisoryLock, so it is one step.  The rebuild of a starting   *)
(* server takes no such lock: it reads the collections in one statement    *)
(* and writes their policies in later ones, and an import reads what is    *)
(* there before it takes the lock.  Checks, indexes, exclusion constraints *)
(* and consistency triggers are kept alike, each named after its           *)
(* collection and itself: Constraint stands for any of them.  Indexes and  *)
(* the functions of the triggers share their names with the whole schema,  *)
(* and the name is the two names put together, so that those of two        *)
(* collections can be one.                                                 *)
(***************************************************************************)
EXTENDS Integers, FiniteSets, Functions

CONSTANTS
  CollectionNames,
  SourceTables,    \* tables of the database that Dublyobase did not make
  FieldNames,
  Rules, Mentions, \* Mentions[rule] is the set of fields that a rule names
  Constraints,
  SchemaWide,      \* of them, indexes and triggers, whose object has a name of the schema ...
  ObjectName,      \* ... which is ObjectName[<<collection, constraint>>]
  SearchIndexes,   \* of those, the indexes that fields are given for search
  CollectionInputs, CollectionEdits, \* requests to create and to update, of the shape below
  DefaultDeny,     \* policies of a table that has none
  NoCollection, NoTable, NoField, NoTarget, Own,
  Servers,
  Unmigrated,      \* servers with MIGRATE_ON_START off
  MaxSchemaChanges \* bound: changes of collections between two restores

ASSUME CollectionsAssumption ==
  /\ \A r \in Rules : Mentions[r] \subseteq FieldNames
  /\ SearchIndexes \subseteq SchemaWide /\ SchemaWide \subseteq Constraints
  /\ DefaultDeny \notin Rules /\ Own \notin SourceTables /\ NoTarget \notin CollectionNames
  /\ MaxSchemaChanges \in Nat

VARIABLES
  collections,  \* _dbo.collections by name
  tables,       \* by name: their columns, policies, grants, constraints and foreign keys
  rolesExist,   \* the project's roles are in the cluster
  servers,      \* down, starting, rebuilding with the collections read, or serving
  importing,    \* what an import read before it takes the lock, or {}
  archive,      \* a full backup
  schemaChanges,
  (* history *)
  overtaken     \* collections changed between a rebuild's read and its writes, or
                \* restored from a backup of a database that had no policies

collectionVars == <<collections, tables, rolesExist, servers, importing, archive, schemaChanges,
                    overtaken>>

TableNames == CollectionNames \cup SourceTables
Types == {"text", "number", "relation"}
FieldDefs == [type : Types, computed : BOOLEAN, target : CollectionNames \cup {NoTarget},
              onDelete : {"restrict", "cascade"}]
Columns == [type : Types, computed : BOOLEAN]
ForeignKeys == [named : CollectionNames \X FieldNames, column : FieldNames, to : CollectionNames,
                onDelete : {"restrict", "cascade"}]

CollectionRows == [fields : [FieldNames -> FieldDefs \cup {NoField}], rule : Rules,
                   constraints : SUBSET Constraints, source : SourceTables \cup {Own}]

EditDefs == [type : Types, computed : BOOLEAN, target : CollectionNames \cup {NoTarget},
             onDelete : {"restrict", "cascade"}, oldName : FieldNames \cup {NoField}]

ASSUME SchemaRequestsAssumption ==
  /\ CollectionInputs \subseteq [fields : [FieldNames -> FieldDefs \cup {NoField}], rule : Rules,
                                 constraints : SUBSET Constraints]
  /\ CollectionEdits \subseteq [name : CollectionNames, rule : Rules, constraints : SUBSET Constraints,
                                fieldsSet : BOOLEAN, dropMissing : BOOLEAN,
                                fields : [FieldNames -> EditDefs \cup {NoField}]]

CollectionsTypeOK ==
  /\ \A n \in CollectionNames : collections[n] = NoCollection \/ collections[n] \in CollectionRows
  /\ \A n \in TableNames :
       tables[n] = NoTable \/
       /\ DOMAIN tables[n] = {"columns", "policies", "granted", "constraints", "keys"}
       /\ tables[n].policies \in Rules \cup {DefaultDeny}
       /\ tables[n].constraints \subseteq CollectionNames \X Constraints
       /\ tables[n].keys \subseteq ForeignKeys
  /\ rolesExist \in BOOLEAN
  /\ \A s \in Servers : servers[s].phase \in {"down", "starting", "rebuilding", "serving"}
  /\ schemaChanges \in 0 .. MaxSchemaChanges
  /\ overtaken \subseteq CollectionNames

Down == [phase |-> "down"]
SourceTable == [columns |-> [f \in FieldNames |-> [type |-> "text", computed |-> FALSE]],
                policies |-> DefaultDeny, granted |-> FALSE, constraints |-> {}, keys |-> {}]

CollectionsInit ==
  /\ collections = [n \in CollectionNames |-> NoCollection]
  /\ tables = [n \in TableNames |-> IF n \in SourceTables THEN SourceTable ELSE NoTable]
  /\ rolesExist = TRUE
  /\ servers \in [Servers -> {Down, [phase |-> "serving"]}]
  /\ importing = {} /\ archive = {}
  /\ schemaChanges = 0
  /\ overtaken = {}

------------------------------------------------------------------------------
(* What a definition asks of its table *)

Defined(n) == collections[n] # NoCollection
IsOwn(n) == Defined(n) /\ collections[n].source = Own
Present(fields) == {f \in FieldNames : fields[f] # NoField}
Computed(def) == def.computed /\ def.type # "relation"

\* ValidateCollectionRules, ValidateFields: a rule names fields there are.
Valid(fields, rule) ==
  /\ Mentions[rule] \subseteq Present(fields)
  /\ \A f \in Present(fields) : (fields[f].target = NoTarget) <=> (fields[f].type # "relation")

\* Of a new table, the columns of its fields; computed ones are generated.
ColumnsOf(fields) == [f \in FieldNames |->
  IF fields[f] = NoField THEN NoField ELSE [type |-> fields[f].type, computed |-> Computed(fields[f])]]

\* The foreign keys of fields, whose targets must be collections with uuid keys of their own.
Relations(fields) == {f \in Present(fields) : fields[f].type = "relation"}
TargetsExist(n, fields) == \A f \in Relations(fields) : fields[f].target = n \/ Defined(fields[f].target)
KeysOf(n, fields) ==
  {[named |-> <<n, f>>, column |-> f, to |-> fields[f].target, onDelete |-> fields[f].onDelete] :
     f \in {g \in Relations(fields) : fields[g].target = n \/ IsOwn(fields[g].target)}}

\* syncRelationForeignKeys: drops what the last fields were named for under the table's last
\* name, and adds the next.
SyncKeys(keys, lastName, lastFields, n, fields) ==
  {k \in keys : k.named \notin {<<lastName, f>> : f \in Relations(lastFields)} \cup
                               {<<n, f>> : f \in Relations(fields)}}
  \cup KeysOf(n, fields)

\* A search index, which comes last, takes the name of an index of its own collection.
Shadowed(n, wanted) ==
  {c \in (wanted \cap SchemaWide) \ SearchIndexes :
     \E d \in wanted \cap SearchIndexes : ObjectName[<<n, d>>] = ObjectName[<<n, c>>]}

SyncConstraints_ByName(n, owned, wanted) ==
  {c \in owned : c[1] # n} \cup {<<n, c>> : c \in wanted \ Shadowed(n, wanted)}

\* syncCollectionConstraints, syncCrossRowRules: every owned name of the table that is no longer
\* asked for goes, whatever collection it was named after.
SyncConstraints(n, owned, wanted) == {<<n, c>> : c \in wanted \ Shadowed(n, wanted)}

\* What they leave of another table: an index is dropped by its name before it is made, and the
\* function of a trigger is replaced, whosever it was.
Untaken(owned, n, wanted) ==
  {c \in owned : c[2] \in SchemaWide =>
     \A w \in wanted \cap SchemaWide : ObjectName[<<n, w>>] # ObjectName[c]}
Bereft(table, n, wanted) ==
  IF table = NoTable THEN NoTable ELSE [table EXCEPT !.constraints = Untaken(@, n, wanted)]

\* syncCollectionPolicies and the other syncs that every create and update ends with.
Synced(table, n, rule, wanted) ==
  [table EXCEPT !.policies = rule, !.granted = TRUE,
                !.constraints = SyncConstraints(n, @, wanted)]

------------------------------------------------------------------------------
(* Requests, to a server that serves *)

SchemaRequest ==
  /\ \E s \in Servers : servers[s].phase = "serving"
  /\ schemaChanges < MaxSchemaChanges
  /\ schemaChanges' = schemaChanges + 1

CreateCollection(n, input) ==
  /\ SchemaRequest
  /\ ~Defined(n) /\ tables[n] = NoTable /\ rolesExist
  /\ Valid(input.fields, input.rule) /\ TargetsExist(n, input.fields)
  /\ collections' = [collections EXCEPT ![n] =
       [fields |-> input.fields, rule |-> input.rule, constraints |-> input.constraints,
        source |-> Own]]
  /\ tables' = [t \in TableNames |->
       IF t = n
       THEN Synced([columns |-> ColumnsOf(input.fields), policies |-> DefaultDeny,
                    granted |-> FALSE, constraints |-> {}, keys |-> KeysOf(n, input.fields)],
                   n, input.rule, input.constraints)
       ELSE Bereft(tables[t], n, input.constraints)]
  /\ UNCHANGED <<rolesExist, servers, importing, archive, overtaken>>

\* applyFieldDiff.  Renamed fields name an old field that is there, and are not there themselves;
\* the DDL of a field that stays must stay; a computed expression may change, and a field may be
\* missing, if the request confirms that its column goes.
OldName(next, f) == next[f].oldName
RenamedFields(next) == {f \in Present(next) : OldName(next, f) \notin {NoField, f}}
OldNames(next) == {OldName(next, f) : f \in RenamedFields(next)}
Kept(now, next) == {f \in Present(next) \ RenamedFields(next) : now[f] # NoField}
Rebuilt(now, next) == {f \in Kept(now, next) : Computed(now[f]) # Computed(next[f])}
Dropped(now, next) == Present(now) \ (Present(next) \cup OldNames(next))

DiffAllowed(now, next, dropMissing) ==
  /\ OldNames(next) \subseteq Present(now) /\ RenamedFields(next) \cap Present(now) = {}
  /\ Cardinality(OldNames(next)) = Cardinality(RenamedFields(next))
  /\ \A f \in Kept(now, next) : now[f].type = next[f].type
  /\ dropMissing \/ Rebuilt(now, next) \cup Dropped(now, next) = {}

\* A renamed column is not compared, and a new one is not generated whatever its field says.
ColumnsAfter(columns, now, next) == [f \in FieldNames |->
  IF f \in RenamedFields(next) THEN columns[OldName(next, f)]
  ELSE IF f \in Dropped(now, next) \/ (f \in OldNames(next) /\ f \notin Present(next) \ Kept(now, next))
       THEN NoField
  ELSE IF f \in Rebuilt(now, next) THEN [type |-> next[f].type, computed |-> Computed(next[f])]
  ELSE IF f \in Present(next) \ Kept(now, next) THEN [type |-> next[f].type, computed |-> FALSE]
  ELSE columns[f]]

\* PostgreSQL renames what refers to a table or column with it, and refuses to drop a column that
\* a policy depends on.
Stripped(next) == [f \in FieldNames |-> IF next[f] = NoField THEN NoField ELSE
  [type |-> next[f].type, computed |-> next[f].computed, target |-> next[f].target,
   onDelete |-> next[f].onDelete]]

UpdateCollection(n, edit) ==
  LET now == collections[n]
      fields == IF edit.fieldsSet THEN Stripped(edit.fields) ELSE now.fields
      place == IF now.source = Own THEN n ELSE now.source
      to == IF now.source = Own THEN edit.name ELSE now.source
      old == tables[place]
      Pointed(keys) == {[k EXCEPT !.to = IF @ = n THEN edit.name ELSE @] : k \in keys}
      moved == [old EXCEPT
        !.columns = IF edit.fieldsSet THEN ColumnsAfter(@, now.fields, edit.fields) ELSE @,
        !.keys = Pointed(@)]
      rekeyed == IF edit.fieldsSet
                 THEN [moved EXCEPT !.keys = SyncKeys(@, n, now.fields, edit.name, fields)] ELSE moved
  IN /\ SchemaRequest
     /\ Defined(n) /\ old # NoTable /\ rolesExist
     /\ edit.name = n \/ (~Defined(edit.name) /\ (now.source = Own => tables[edit.name] = NoTable))
     /\ Valid(fields, edit.rule)
     /\ edit.fieldsSet =>
          /\ now.source = Own
          /\ DiffAllowed(now.fields, edit.fields, edit.dropMissing)
          /\ \A f \in Present(now.fields) : old.columns[f] # NoField
          /\ (Dropped(now.fields, edit.fields) \cup Rebuilt(now.fields, edit.fields))
               \cap (IF old.policies = DefaultDeny THEN {} ELSE Mentions[old.policies]) = {}
          /\ TargetsExist(n, fields)
     /\ collections' = [collections EXCEPT
          ![n] = IF edit.name = n THEN [now EXCEPT !.fields = fields, !.rule = edit.rule,
                                                   !.constraints = edit.constraints]
                 ELSE NoCollection,
          ![edit.name] = [now EXCEPT !.fields = fields, !.rule = edit.rule,
                                     !.constraints = edit.constraints]]
     /\ tables' = [t \in TableNames |->
          IF t = to /\ now.source = Own THEN Synced(rekeyed, edit.name, edit.rule, edit.constraints)
          ELSE IF t = n /\ now.source = Own THEN NoTable
          ELSE IF tables[t] = NoTable THEN NoTable
          ELSE [Bereft(tables[t], edit.name, IF now.source = Own THEN edit.constraints ELSE {})
                  EXCEPT !.keys = Pointed(@)]]
     /\ overtaken' = IF now.source = Own THEN overtaken \ {n, edit.name} ELSE overtaken
     /\ UNCHANGED <<rolesExist, servers, importing, archive>>

\* Not while another table has a foreign key to it.  An imported table is left alone.
DeleteCollection(n) ==
  /\ SchemaRequest
  /\ Defined(n)
  /\ IsOwn(n) => tables[n] # NoTable
       /\ \A t \in TableNames \ {n} : tables[t] # NoTable => \A k \in tables[t].keys : k.to # n
  /\ collections' = [collections EXCEPT ![n] = NoCollection]
  /\ tables' = IF IsOwn(n) THEN [tables EXCEPT ![n] = NoTable] ELSE tables
  /\ overtaken' = overtaken \ {n}
  /\ UNCHANGED <<rolesExist, servers, importing, archive>>

\* What an import takes to be imported already is read here ...
ImportRead ==
  /\ \E s \in Servers : servers[s].phase = "serving"
  /\ importing = {}
  /\ \E t \in SourceTables, n \in CollectionNames :
       /\ ~Defined(n) /\ \A m \in CollectionNames : Defined(m) => collections[m].source # t
       /\ importing' = {[name |-> n, table |-> t]}
  /\ UNCHANGED <<collections, tables, rolesExist, servers, archive, schemaChanges, overtaken>>

\* ... and under the lock only its name is compared again.
ImportCommit(rule) ==
  /\ SchemaRequest
  /\ importing # {}
  /\ \A i \in importing : ~Defined(i.name)
  /\ collections' = [n \in CollectionNames |->
       IF \E i \in importing : i.name = n
       THEN [fields |-> [f \in FieldNames |-> [type |-> "text", computed |-> FALSE,
                                               target |-> NoTarget, onDelete |-> "restrict"]],
             rule |-> rule, constraints |-> {},
             source |-> (CHOOSE i \in importing : i.name = n).table]
       ELSE collections[n]]
  /\ importing' = {}
  /\ UNCHANGED <<tables, rolesExist, servers, archive, overtaken>>

------------------------------------------------------------------------------
(* Backups, restores and starts *)

\* pg_dump, run by a server: one snapshot, of a database without policies while it has no roles.
TakeBackup ==
  /\ \E s \in Servers : servers[s].phase = "serving"
  /\ archive = {}
  /\ archive' = {[collections |-> collections, tables |-> tables,
                   overtaken |-> IF rolesExist THEN overtaken ELSE CollectionNames]}
  /\ UNCHANGED <<collections, tables, rolesExist, servers, importing, schemaChanges, overtaken>>

\* pg_restore --clean --no-privileges: the grants are gone, and a policy that names a role that
\* is not there is not made.
Restored(roles) ==
  /\ \E a \in archive :
       /\ collections' = a.collections
       /\ tables' = [n \in TableNames |-> IF a.tables[n] = NoTable THEN NoTable
            ELSE [a.tables[n] EXCEPT !.granted = FALSE,
                                     !.policies = IF roles THEN @ ELSE DefaultDeny]]
       /\ overtaken' = IF roles THEN a.overtaken ELSE {}
  /\ rolesExist' = roles
  /\ archive' = {} /\ schemaChanges' = 0

\* Into this cluster, through a server that serves.
RunRestoreFile ==
  /\ \E s \in Servers : servers[s].phase = "serving"
  /\ Restored(rolesExist)
  /\ UNCHANGED <<servers, importing>>

\* Into a fresh one, by an operator: no role, hence no policy, is restored.
RestoreElsewhere ==
  /\ \A s \in Servers : servers[s].phase = "down"
  /\ Restored(FALSE)
  /\ importing' = {}
  /\ UNCHANGED servers

Phase(s, phase) == servers' = [servers EXCEPT ![s] = [phase |-> phase]]

\* Migrations, one process at a time under their lock, and the shared grants.
StartServer(s) ==
  /\ servers[s].phase = "down"
  /\ Phase(s, "starting")
  /\ UNCHANGED <<collections, tables, rolesExist, importing, archive, schemaChanges, overtaken>>

\* MIGRATE_ON_START=false: a server that serves whatever it finds.
ServeUnmigrated(s) ==
  /\ servers[s].phase = "starting" /\ s \in Unmigrated
  /\ Phase(s, "serving")
  /\ UNCHANGED <<collections, tables, rolesExist, importing, archive, schemaChanges, overtaken>>

\* ReconcileProjectSecurity finds the roles, and the server serves.
ServeWithRoles_Unchecked(s) ==
  /\ servers[s].phase = "starting" /\ s \notin Unmigrated
  /\ Phase(s, "serving")
  /\ UNCHANGED <<collections, tables, rolesExist, importing, archive, schemaChanges, overtaken>>

ServeWithRoles(s) ==
  /\ servers[s].phase = "starting" /\ s \notin Unmigrated /\ rolesExist
  /\ Phase(s, "serving")
  /\ UNCHANGED <<collections, tables, rolesExist, importing, archive, schemaChanges, overtaken>>

\* It does not: it makes them, and reads the collections.  The roles may be another server's by
\* now, whose rebuild was quicker; one that has not committed makes this one wait.
RebuildRead(s) ==
  /\ servers[s].phase = "starting" /\ s \notin Unmigrated
  /\ \A r \in Servers : servers[r].phase # "rebuilding"
  /\ ~rolesExist \/ \E r \in Servers \ (Unmigrated \cup {s}) : servers[r].phase = "serving"
  /\ servers' = [servers EXCEPT ![s] = [phase |-> "rebuilding", read |-> collections]]
  /\ UNCHANGED <<collections, tables, rolesExist, importing, archive, schemaChanges, overtaken>>

\* The policies of all of its own collections, or of none: the first statement that fails aborts
\* the transaction, though the loop goes on.
Rebuilds(s) == {n \in CollectionNames : servers[s].read[n] # NoCollection /\ servers[s].read[n].source = Own}

RebuildCommit(s) ==
  /\ servers[s].phase = "rebuilding"
  /\ \A n \in Rebuilds(s) : tables[n] # NoTable
  /\ rolesExist' = TRUE
  /\ tables' = [n \in TableNames |->
       IF n \in Rebuilds(s)
       THEN [tables[n] EXCEPT !.policies = servers[s].read[n].rule, !.granted = TRUE]
       ELSE tables[n]]
  /\ overtaken' = overtaken \cup {n \in CollectionNames :
       collections[n] # servers[s].read[n] /\ (n \in Rebuilds(s) \/ ~rolesExist)}
  /\ Phase(s, "serving")
  /\ UNCHANGED <<collections, importing, archive, schemaChanges>>

\* A crash, a shutdown, or a start that failed.
StopServer(s) ==
  /\ servers[s].phase # "down"
  /\ Phase(s, "down")
  /\ UNCHANGED <<collections, tables, rolesExist, importing, archive, schemaChanges, overtaken>>

\* A table dropped behind the server's back, in the SQL console.
DropByHand(n) ==
  /\ IsOwn(n) /\ tables[n] # NoTable
  /\ \A t \in TableNames \ {n} : tables[t] # NoTable => \A k \in tables[t].keys : k.to # n
  /\ tables' = [tables EXCEPT ![n] = NoTable]
  /\ UNCHANGED <<collections, rolesExist, servers, importing, archive, schemaChanges, overtaken>>

CollectionsNext ==
  \/ \E n \in CollectionNames, input \in CollectionInputs : CreateCollection(n, input)
  \/ \E n \in CollectionNames, edit \in CollectionEdits : UpdateCollection(n, edit)
  \/ \E n \in CollectionNames : DeleteCollection(n) \/ DropByHand(n)
  \/ ImportRead \/ \E rule \in Rules : ImportCommit(rule)
  \/ TakeBackup \/ RunRestoreFile \/ RestoreElsewhere
  \/ \E s \in Servers : StartServer(s) \/ ServeUnmigrated(s) \/ ServeWithRoles(s)
                        \/ RebuildRead(s) \/ RebuildCommit(s) \/ StopServer(s)

CollectionsSpec == CollectionsInit /\ [][CollectionsNext]_collectionVars

------------------------------------------------------------------------------
(* Properties *)

\* From when there are roles, and while any server serves that migrates on start, the policies of
\* every collection of its own are those of the rules its definition holds, through renames, edits,
\* backups, restores and starts that fail half-way; save for a collection that was changed between
\* the read and the writes of a rebuild, or restored from a backup that a server without
\* MIGRATE_ON_START made before the policies were there.
PoliciesFollowRules ==
  (rolesExist \/ \E s \in Servers \ Unmigrated : servers[s].phase = "serving") =>
    \A n \in CollectionNames \ overtaken : IsOwn(n) /\ tables[n] # NoTable =>
      tables[n].policies = collections[n].rule

\* Another index or trigger, of this collection or another, that would have the same name.
HasNamesake(n, c) ==
  c \in SchemaWide /\ \E m \in CollectionNames, d \in SchemaWide :
    <<m, d>> # <<n, c>> /\ ObjectName[<<m, d>>] = ObjectName[<<n, c>>]

AreDeclared(n, owned, wanted) ==
  /\ owned \subseteq {<<n, c>> : c \in wanted}
  /\ \A c \in wanted : <<n, c>> \in owned \/ HasNamesake(n, c)

\* The constraints of a table are those of its definition: renaming, dropping and creating
\* collections leaves none behind on the wrong table, and takes none away but an index or a
\* trigger that another one can share its name with.
ConstraintsAreDeclared ==
  \A n \in CollectionNames : IsOwn(n) /\ tables[n] # NoTable =>
    AreDeclared(n, tables[n].constraints, collections[n].constraints)
===============================================================================
