----------------------------- MODULE IdMigration -----------------------------
(***************************************************************************)
(* The migration from integer to partitioned identifiers: the revision     *)
(* alembic/versions/0012_partitioned_ids.py, the script that runs it       *)
(* (scripts/migrate_partitioned_ids.py) and the modes an app starts in     *)
(* (app/main.py).                                                          *)
(*                                                                         *)
(* The revision is one transaction.  Its SELECTs lock nothing, and its     *)
(* ALTER TABLEs lock a table until it ends, so that an app which was not   *)
(* stopped still writes to the tables the revision has not come to.        *)
(*                                                                         *)
(* What is abstracted.                                                     *)
(*  - A table has an identifier column, or none, and refers to at most one *)
(*    other by a foreign key.  Logs name a row of any table by its type    *)
(*    and identifier, without a foreign key; the identifiers they keep as  *)
(*    JSON are the same.                                                   *)
(*  - An old identifier is a number, unique in its table; a new one is a   *)
(*    function of the table and the number, or made when the row is        *)
(*    written after the migration: a pair in both cases.                   *)
(*  - A request is one step, and rows that refer to a row are deleted      *)
(*    before it.  A deadlock with a request aborts the revision.           *)
(*  - The backup and the files of the mapping; validation is one step.     *)
(***************************************************************************)
EXTENDS Naturals, Sequences, SequencesExt

CONSTANTS
    Row,             \* the rows ever written (bound)
    Table,
    Tables,          \* PRIMARY_TABLES: those with an identifier, in order
    FkTables,        \* FK_COLUMNS: those with a foreign key, in order
    Log,             \* the table of activities
    TableOf, Number, \* of a row
    Parent,          \* of a table: the one its foreign key refers to
    Nullable,        \* the tables whose foreign key may be NULL
    NoRow, NoTable,
    MaxAborts        \* how often a revision is interrupted (bound)

ASSUME NullAssumption == NoRow \notin Row /\ NoTable \notin Table
ASSUME SchemaAssumption ==
    /\ TableOf \in [Row -> Table]
    /\ Number \in [Row -> Nat]
    /\ \A q, r \in Row : TableOf[q] = TableOf[r] /\ Number[q] = Number[r] => q = r
    /\ Tables \in Seq(Table) /\ Log \in ToSet(Tables)
    /\ Parent \in [Table -> ToSet(Tables) \cup {NoTable}]
    /\ FkTables \in Seq(Table) /\ FkTables # <<>>
    /\ ToSet(FkTables) = {t \in Table : Parent[t] # NoTable}
    /\ Nullable \subseteq Table
ASSUME BoundAssumption == MaxAborts \in Nat

VARIABLES
    app,            \* how the app runs: "off", "old", "indexing", "new"
    schema,         \* what alembic_version says: "integer", "partitioned"
    rows, born,     \* the rows there are, and history: that ever were
    id, ref, soft,  \* of a row: its identifier and those it refers to
    target, subject,      \* history: the rows these are meant to be
    script,         \* "idle", "upgrade", "validate", "failed", "exported"
    phase, at,      \* where the revision is
    map,            \* id_migration_map, as the revision sees it
    locked,         \* the tables it has altered
    newId, newRef, newSoft,  \* what it has put into their columns
    aborts,
    report          \* the rows the last validation has complained about

database == <<schema, rows, born, id, ref, soft, target, subject>>
revision == <<phase, at, map, locked, newId, newRef, newSoft>>
vars     == <<app, database, script, revision, aborts, report>>

Null == <<>>
NoValues == [r \in Row |-> Null]
Of(t) == {r \in rows : TableOf[r] = t}
OldId(r) == <<NoTable, Number[r]>>
generate_entity_id(r) == <<TableOf[r], Number[r]>>
deterministic_legacy_id(t, v) == <<t, v[2]>>

(* What an identifier v means where a row of table t is expected.          *)
Meant(t, v) == {r \in Of(t) : id[r] = v}

Init ==
    /\ app \in {"off", "old"}
    /\ schema = "integer"
    /\ rows = {} /\ born = {}
    /\ id = NoValues /\ ref = NoValues /\ soft = NoValues
    /\ target = [r \in Row |-> NoRow] /\ subject = [r \in Row |-> NoRow]
    /\ script = "idle" /\ phase = "none" /\ at = 1 /\ map = {} /\ locked = {}
    /\ newId = NoValues /\ newRef = NoValues /\ newSoft = NoValues
    /\ aborts = 0 /\ report = {}

-----------------------------------------------------------------------------
(* The app.  The release before this one writes integers, and its requests *)
(* fail once the columns are no longer integers; this one does not start   *)
(* before, and in indexing mode it answers no request.                     *)

Serves == <<app, schema>> \in {<<"old", "integer">>, <<"new", "partitioned">>}

Insert(r, p, s) ==
    /\ Serves
    /\ r \notin born
    /\ {TableOf[r], Parent[TableOf[r]]} \cap locked = {}
    /\ IF p = NoRow THEN Parent[TableOf[r]] = NoTable \/ TableOf[r] \in Nullable
                    ELSE p \in Of(Parent[TableOf[r]])
    /\ s # NoRow => TableOf[r] = Log /\ s \in rows /\ id[s] # Null /\ TableOf[s] # Log
    /\ rows' = rows \cup {r} /\ born' = born \cup {r}
    /\ id' = [id EXCEPT ![r] =
         IF TableOf[r] \notin ToSet(Tables) THEN Null
         ELSE IF schema = "integer" THEN OldId(r) ELSE generate_entity_id(r)]
    /\ ref' = [ref EXCEPT ![r] = IF p = NoRow THEN Null ELSE id[p]]
    /\ soft' = [soft EXCEPT ![r] = IF s = NoRow THEN Null ELSE id[s]]
    /\ target' = [target EXCEPT ![r] = p]
    /\ subject' = [subject EXCEPT ![r] = s]
    /\ UNCHANGED <<app, schema, script, revision, aborts, report>>

(* A delete looks for rows that refer to the row; logs keep naming it.     *)
Delete(r) ==
    /\ Serves
    /\ r \in rows
    /\ \A q \in rows : target[q] # r
    /\ ({TableOf[r]} \cup {t \in Table : Parent[t] = TableOf[r]}) \cap locked = {}
    /\ rows' = rows \ {r}
    /\ UNCHANGED <<app, schema, born, id, ref, soft, target, subject, script,
                   revision, aborts, report>>

(* lifespan: the schema is asked for only outside of indexing mode.        *)
Start ==
    /\ app = "off"
    /\ \/ app' = "indexing"
       \/ schema = "integer" /\ app' = "old"
       \/ schema = "partitioned" /\ app' = "new"
    /\ UNCHANGED <<database, script, revision, aborts, report>>

Stop ==
    /\ app # "off"
    /\ app' = "off"
    /\ UNCHANGED <<database, script, revision, aborts, report>>

-----------------------------------------------------------------------------
(* The revision.                                                           *)

(* The transaction is over.                                                *)
End ==
    /\ phase' = "none" /\ at' = 1 /\ map' = {} /\ locked' = {}
    /\ newId' = NoValues /\ newRef' = NoValues /\ newSoft' = NoValues

Fail ==
    /\ script' = "failed"
    /\ End
    /\ UNCHANGED <<app, database, aborts, report>>

(* To the next table of a list, or to the next phase.                      *)
Advance(list, next) ==
    IF at < Len(list)
    THEN at' = at + 1 /\ phase' = phase
    ELSE at' = 1 /\ phase' = next

Private == <<app, database, script, aborts, report>>

SeedTable ==
    /\ phase = "seed"
    /\ map' = map \cup
         {[table |-> Tables[at], legacy |-> id[r],
           new |-> deterministic_legacy_id(Tables[at], id[r])] : r \in Of(Tables[at])}
    /\ Advance(Tables, "primary")
    /\ UNCHANGED <<Private, locked, newId, newRef, newSoft>>

Mapped(t, v) == {m \in map : m.table = t /\ m.legacy = v}

NewIn(t, v) ==
    IF Mapped(t, v) = {} THEN Null ELSE (CHOOSE m \in Mapped(t, v) : TRUE).new

(* ALTER TABLE has the table's lock from here on.                          *)
StageId ==
    /\ phase = "primary"
    /\ LET t == Tables[at] IN
       IF \A r \in Of(t) : Mapped(t, id[r]) # {}
       THEN /\ locked' = locked \cup {t}
            /\ newId' = [r \in Row |-> IF r \in Of(t) THEN NewIn(t, id[r]) ELSE newId[r]]
            /\ Advance(Tables, "fk")
            /\ UNCHANGED <<Private, map, newRef, newSoft>>
       ELSE Fail

(* Mutant: a foreign key is mapped in the table that has it.               *)
RefTable_Own(t) == t

RefTable(t) == Parent[t]

StageRef ==
    /\ phase = "fk"
    /\ LET t == FkTables[at] IN
       IF \A r \in Of(t) : IF ref[r] = Null THEN t \in Nullable
                                            ELSE Mapped(RefTable(t), ref[r]) # {}
       THEN /\ locked' = locked \cup {t}
            /\ newRef' = [r \in Row |->
                 IF r \in Of(t) /\ ref[r] # Null THEN NewIn(RefTable(t), ref[r])
                                                 ELSE newRef[r]]
            /\ Advance(FkTables, "soft")
            /\ UNCHANGED <<Private, map, newId, newSoft>>
       ELSE Fail

(* Mutant: a type is missing in ACTIVITY_TARGET_TYPES.                     *)
ActivityTargets_Short == {t \in ToSet(Tables) : Parent[t] = NoTable}

ActivityTargets == ToSet(Tables)

(* Mutant: every target is mapped like the log's actor.                    *)
TargetTable_Actor(r) == Parent[Log]

TargetTable(r) == TableOf[subject[r]]

(* A log whose row the mapping does not know is left as it is.             *)
RewriteSoftReferences ==
    /\ phase = "soft"
    /\ newSoft' = [r \in Row |->
         IF r \notin Of(Log) \/ subject[r] = NoRow THEN newSoft[r]
         ELSE LET t == TargetTable(r) IN
              IF t \in ActivityTargets /\ Mapped(t, soft[r]) # {}
              THEN NewIn(t, soft[r]) ELSE soft[r]]
    /\ phase' = "commit" /\ at' = 1
    /\ UNCHANGED <<Private, map, locked, newId, newRef>>

(* The foreign keys that are made again hold.                              *)
ConstraintsHold ==
    \A r \in rows : newRef[r] # Null =>
        \E q \in Of(Parent[TableOf[r]]) : newId[q] = newRef[r]

(* The new columns take the place of the old ones.                         *)
Commit ==
    /\ phase = "commit"
    /\ IF ConstraintsHold
       THEN /\ schema' = "partitioned"
            /\ id' = newId /\ ref' = newRef /\ soft' = newSoft
            /\ script' = "validate"
            /\ End
            /\ UNCHANGED <<app, rows, born, target, subject, aborts, report>>
       ELSE Fail

(* A crash, a lost connection or a deadlock rolls everything back.         *)
Abort ==
    /\ phase # "none"
    /\ aborts < MaxAborts
    /\ aborts' = aborts + 1
    /\ script' = "failed"
    /\ End
    /\ UNCHANGED <<app, database, report>>

Upgrade ==
    \/ SeedTable
    \/ StageId
    \/ StageRef
    \/ RewriteSoftReferences
    \/ Commit

-----------------------------------------------------------------------------
(* The script.  It looks at its own settings, and not at whether the app   *)
(* was stopped.  A second run finds the revision applied.                  *)

Run ==
    /\ script \in {"idle", "failed"}
    /\ IF schema = "integer"
       THEN script' = "upgrade" /\ phase' = "seed"
       ELSE script' = "validate" /\ UNCHANGED phase
    /\ UNCHANGED <<app, database, at, map, locked, newId, newRef, newSoft, aborts,
                   report>>

(* --validate-only: without the revision there is no mapping to count.     *)
RunValidateOnly ==
    /\ script \in {"idle", "failed", "exported"}
    /\ script' = IF schema = "integer" THEN "failed" ELSE "validate"
    /\ UNCHANGED <<app, database, revision, aborts, report>>

(* FK_CHECKS and SOFT_TARGET_CHECKS: references that lead nowhere.         *)
Orphans == {r \in rows : ref[r] # Null /\ Meant(Parent[TableOf[r]], ref[r]) = {}}
SoftOrphans ==
    {r \in rows : soft[r] # Null /\ Meant(TableOf[subject[r]], soft[r]) = {}}

(* validate_partitioned_ids, and export_mapping if it does not raise.      *)
Validate ==
    /\ script = "validate"
    /\ report' = Orphans \cup SoftOrphans
    /\ script' = IF report' = {} THEN "exported" ELSE "failed"
    /\ UNCHANGED <<app, database, revision, aborts>>

Next ==
    \/ \E r \in Row : \E p, s \in rows \cup {NoRow} : Insert(r, p, s)
    \/ \E r \in Row : Delete(r)
    \/ Start \/ Stop
    \/ Upgrade \/ Abort
    \/ Run \/ RunValidateOnly \/ Validate

(* The database works on, and the operator runs the script until the       *)
(* revision is applied.                                                    *)
Spec ==
    /\ Init /\ [][Next]_vars
    /\ WF_vars(Upgrade)
    /\ WF_vars(Run)

-----------------------------------------------------------------------------
Value == {Null} \cup ((Table \cup {NoTable}) \X Nat)

TypeOK ==
    /\ app \in {"off", "old", "indexing", "new"}
    /\ schema \in {"integer", "partitioned"}
    /\ rows \subseteq born /\ born \subseteq Row
    /\ {id, ref, soft, newId, newRef, newSoft} \subseteq [Row -> Value]
    /\ {target, subject} \subseteq [Row -> Row \cup {NoRow}]
    /\ script \in {"idle", "upgrade", "validate", "failed", "exported"}
    /\ phase \in {"none", "seed", "primary", "fk", "soft", "commit"}
    /\ at \in 1..Len(IF phase = "fk" THEN FkTables ELSE Tables)
    /\ map \subseteq [table : ToSet(Tables), legacy : Value, new : Value]
    /\ locked \subseteq Table
    /\ aborts \in 0..MaxAborts
    /\ report \subseteq born

(* Whatever the app writes meanwhile and wherever the revision stops, a    *)
(* foreign key leads to the row it was written for, and so does a log      *)
(* while that row exists; a log of a deleted row leads nowhere: never to   *)
(* another row that had the same number.                                   *)
ReferencesFollow ==
    \A r \in rows :
        /\ target[r] # NoRow => Meant(Parent[TableOf[r]], ref[r]) = {target[r]}
        /\ subject[r] # NoRow =>
             Meant(TableOf[subject[r]], soft[r]) = {subject[r]} \cap rows

(* The validation complains about nothing but logs of rows that are gone.  *)
(* (About those it does, each time: it cannot pass before they are.)       *)
ValidationFindsOnlyDanglers ==
    \A r \in report : TableOf[r] = Log /\ subject[r] \notin rows

(* With finitely many writes and interruptions the revision is applied.    *)
MigrationSettles == <>(schema = "partitioned")
=============================================================================
