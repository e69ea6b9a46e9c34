----------------------------- MODULE FieldValues -------------------------------
(***************************************************************************)
(* The value of one field of one record (core/fields.go, core/records.go,  *)
(* core/decimal.go, core/vector.go, core/collections.go): which            *)
(* definitions of a field are valid, which JSON bodies its type and        *)
(* options accept on create and on update, which column stores it, and     *)
(* which later definitions the same column may get.                        *)
(*                                                                         *)
(* A field may be renamed with a new definition, which is not compared     *)
(* with the old one: the column stays as it was, so its DDL is state of    *)
(* its own.  A value whose type is not the column's is then stored as it   *)
(* is, or refused.                                                         *)
(*                                                                         *)
(* A JSON value is its kind, its size (characters of a string, elements of *)
(* an array or object, a number itself) and whether it is good: of the     *)
(* form its field's type asks for (an address, a URL, a date, an UUID, a   *)
(* listed choice, a match of the pattern, a whole number, a literal with   *)
(* digits the column has), an array when all its elements are.             *)
(***************************************************************************)
EXTENDS Naturals

CONSTANTS
  MaxSize,   \* bound: sizes and limits
  Absent,    \* no record, or a field its body does not name
  AnyField   \* definitions to explore

Strings == {"text", "editor", "password", "email", "url"}
FieldTypes == Strings \cup
  {"decimal", "vector", "number", "bool", "date", "json", "file", "autodate", "select", "relation"}
JsonKinds == {"null", "string", "number", "bool", "array", "object"}

Json == {v \in [json : JsonKinds, size : 0 .. MaxSize, good : BOOLEAN] :
           v.json \in {"null", "bool"} => v.size = 0 /\ v.good}
Null == [json |-> "null", size |-> 0, good |-> TRUE]

\* A limit of 0 is none.  Options a type does not have are not given: min and max are
\* lengths, values, sizes, dimensions or numbers of choices, as the type has it.
FieldDefinitions ==
  [type : FieldTypes, required : BOOLEAN, min : 0 .. MaxSize, max : 0 .. MaxSize,
   multiple : BOOLEAN, onlyInt : BOOLEAN, onCreate : BOOLEAN, owned : BOOLEAN]

\* A field owned by the database is computed from its row, or a roll-up.
ValidateField(d) ==
  /\ d.max > 0 => d.min <= d.max
  /\ d.min > 0 => d.type \in {"text", "password", "url", "number", "decimal", "select", "relation"}
  /\ d.max > 0 => d.type \in FieldTypes \ {"email", "bool", "date", "autodate", "file"}
  /\ d.type = "vector" => d.max > 0
  /\ d.multiple => d.type \in {"select", "relation", "file"}
  /\ d.type \in {"select", "relation"} /\ d.min + d.max > 0 => d.multiple
  /\ d.onlyInt => d.type = "number"
  /\ d.onCreate => d.type = "autodate"
  /\ d.owned => ~d.required /\ d.type \in {"number", "decimal"}

ASSUME FieldAssumption ==
  /\ Absent \notin Json /\ AnyField \subseteq {d \in FieldDefinitions : ValidateField(d)}
  /\ MaxSize \in Nat \ {0}

VARIABLES
  field,   \* the definition in _dbo.collections
  ddl,     \* the column, as it was created
  column,  \* its value in the record, Absent without one
  (* history *)
  lax      \* the value did not have to fill a required field: a rename has made it one of such

valueVars == <<field, ddl, column, lax>>

------------------------------------------------------------------------------
(* Columns *)

ColumnType(d) ==
  CASE d.type \in Strings -> "text"
    [] d.type \in {"date", "autodate"} -> "timestamptz"
    [] d.type \in {"json", "file"} -> "jsonb"
    [] d.type = "select" -> IF d.multiple THEN "text[]" ELSE "text"
    [] d.type = "relation" -> IF d.multiple THEN "uuid[]" ELSE "uuid"
    [] OTHER -> d.type

ColumnTypes == {"text", "timestamptz", "jsonb", "text[]", "uuid[]", "uuid",
                "decimal", "vector", "number", "bool"}

ColumnDDL_Nullable(d) ==
  [type |-> ColumnType(d), size |-> IF d.type = "vector" THEN d.max ELSE 0,
   notNull |-> d.type \in {"json", "bool"},
   default |-> IF d.type = "json" \/ (d.type = "bool" /\ ~d.required) THEN d.type ELSE "null"]

ColumnDDL(d) ==
  [type |-> ColumnType(d), size |-> IF d.type = "vector" THEN d.max ELSE 0,
   notNull |-> d.type \in {"json", "bool"} \/ (d.required /\ d.type # "file"),
   default |-> IF d.type = "json" \/ (d.type = "bool" /\ ~d.required) THEN d.type ELSE "null"]

\* What an INSERT that does not name the column leaves in it, and ALTER TABLE in the rows there are.
Default(col) == CASE col.default = "json" -> [json |-> "object", size |-> 0, good |-> TRUE]
                  [] col.default = "bool" -> [json |-> "bool", size |-> 0, good |-> TRUE]
                  [] OTHER -> Null

Storable(col, v) == v = Null => ~col.notNull

ValuesTypeOK ==
  /\ field \in FieldDefinitions /\ ValidateField(field)
  /\ ddl \in [type : ColumnTypes, size : 0 .. MaxSize, notNull : BOOLEAN,
              default : {"null", "json", "bool"}]
  /\ column \in Json \cup {Absent}
  /\ lax \in BOOLEAN

------------------------------------------------------------------------------
(* Bodies *)

Below(d, n) == d.max = 0 \/ n <= d.max

\* validateStringField: an empty string has no other constraint than required.
StringFits(d, v) ==
  IF v.size = 0 THEN ~d.required ELSE v.size >= d.min /\ Below(d, v.size) /\ v.good

validateSelectedCount(d, n) == n >= d.min /\ (d.required => n >= 1) /\ Below(d, n)

\* A choice of a single select is one of its values even when none is required; an empty
\* relation is refused by its column.
Chosen(d, v) ==
  IF d.multiple
  THEN v.json = "array" /\ validateSelectedCount(d, v.size) /\ (v.size > 0 => v.good)
  ELSE v.json = "string" /\ v.size > 0 /\ v.good

fieldCanBeNull(d) == ~d.required /\ d.type \notin {"bool", "json", "file", "autodate"}
fieldRequiredOnCreate(d) == d.required /\ d.type \notin {"json", "file", "autodate"}
EmptyJson(v) == v.json = "null" \/ (v.json \in {"string", "array", "object"} /\ v.size = 0)

\* normalizeRecordValue: whether a body is accepted.
Accepts(d, v) ==
  /\ ~d.owned
  /\ IF v = Null THEN fieldCanBeNull(d)
     ELSE CASE d.type \in {"text", "url", "editor", "password"} ->
                 v.json = "string" /\ StringFits(d, v)
            [] d.type = "email" ->
                 v.json = "string" /\ IF v.size = 0 THEN ~d.required ELSE v.good
            [] d.type = "number" ->
                 v.json = "number" /\ v.size >= d.min /\ Below(d, v.size) /\ (d.onlyInt => v.good)
            [] d.type = "decimal" ->
                 IF v.json = "string" /\ v.size = 0 THEN ~d.required
                 ELSE v.json \in {"string", "number"} /\ v.good /\ v.size >= d.min /\ Below(d, v.size)
            [] d.type = "vector" -> v.json = "array" /\ v.good /\ v.size = d.max
            [] d.type = "bool" -> v.json = "bool"
            [] d.type = "date" -> v.json = "string" /\ v.good /\ v.size > 0
            [] d.type = "json" -> (d.required => ~EmptyJson(v)) /\ Below(d, v.size)
            [] d.type \in {"select", "relation"} -> Chosen(d, v)
            [] OTHER -> FALSE

\* What is stored: an empty decimal is null.
Normal(d, v) == IF d.type = "decimal" /\ v.json = "string" /\ v.size = 0 THEN Null ELSE v
Now == [json |-> "string", size |-> 1, good |-> TRUE]

------------------------------------------------------------------------------
ValuesInit == field \in AnyField /\ ddl = ColumnDDL(field) /\ column = Absent /\ lax = FALSE

CreateRow(body) ==
  /\ column = Absent
  /\ IF body = Absent THEN ~fieldRequiredOnCreate(field) ELSE Accepts(field, body)
  /\ LET v == IF field.type = "autodate" /\ field.onCreate THEN Now
              ELSE IF body = Absent THEN Default(ddl) ELSE Normal(field, body)
     IN /\ Storable(ddl, v)
        /\ column' = v
  /\ lax' = (body = Absent /\ ddl # ColumnDDL(field))
  /\ UNCHANGED <<field, ddl>>

PatchRow(body) ==
  /\ column # Absent
  /\ Accepts(field, body)
  /\ Storable(ddl, Normal(field, body))
  /\ column' = Normal(field, body) /\ lax' = FALSE
  /\ UNCHANGED <<field, ddl>>

\* Another field of the record is updated: an autodate that is not set on creation is set by that.
TouchRow ==
  /\ column # Absent /\ field.type = "autodate" /\ ~field.onCreate
  /\ column' = Now /\ lax' = FALSE
  /\ UNCHANGED <<field, ddl>>

\* A file field is written by its own endpoint, which leaves a required one a file.
UploadFile(n) ==
  /\ column # Absent /\ field.type = "file"
  /\ (~field.multiple => n <= 1) /\ (field.required => n >= 1)
  /\ column' = [json |-> "array", size |-> n, good |-> TRUE] /\ lax' = FALSE
  /\ UNCHANGED <<field, ddl>>

DeleteRow ==
  /\ column # Absent
  /\ column' = Absent /\ lax' = FALSE
  /\ UNCHANGED <<field, ddl>>

\* applyFieldDiff: a definition whose DDL is that of the old one replaces it.
EditField(d) ==
  /\ d.owned = field.owned
  /\ ColumnDDL(d) = ColumnDDL(field)
  /\ field' = d
  /\ UNCHANGED <<ddl, column, lax>>

\* Under another name, with options.oldName, any definition does.
RenameField(d) ==
  /\ field' = d
  /\ lax' = (column # Absent /\ (lax \/ ~field.required \/ field.type \in {"file", "json"}))
  /\ UNCHANGED <<ddl, column>>

\* Otherwise it takes a new column: the old one is dropped, and the rows get the default.
ReplaceColumn(d) ==
  /\ column # Absent => Storable(ColumnDDL(d), Default(ColumnDDL(d)))
  /\ field' = d /\ ddl' = ColumnDDL(d)
  /\ column' = IF column = Absent THEN Absent ELSE Default(ColumnDDL(d))
  /\ lax' = FALSE

ValuesNext ==
  \/ \E body \in Json \cup {Absent} : CreateRow(body)
  \/ \E body \in Json : PatchRow(body)
  \/ TouchRow \/ DeleteRow
  \/ \E n \in 0 .. MaxSize : UploadFile(n)
  \/ \E d \in AnyField : EditField(d) \/ RenameField(d) \/ ReplaceColumn(d)

ValuesSpec == ValuesInit /\ [][ValuesNext]_valueVars

------------------------------------------------------------------------------
(* Properties *)

\* While a field is required no record is without a value for it, whether it was created,
\* patched, or was there before its field was redefined; save for a value that was stored as one
\* of an optional field, which a rename with another definition made required, and for what the
\* column of such a field stores when a body names none.  A file is uploaded after its record is
\* created, and a json column starts as an empty object.
RequiredFilled ==
  column # Absent /\ field.required /\ field.type \notin {"file", "json"} /\ ~lax
    => ~EmptyJson(column)
==============================================================================
