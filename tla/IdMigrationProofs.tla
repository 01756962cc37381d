--------------------------- MODULE IdMigrationProofs ---------------------------
(***************************************************************************)
(* For any tables, rows and interruptions, and beside an app that may or   *)
(* may not have been stopped: references lead to the rows they were        *)
(* written for before the revision and after it, and the validation finds  *)
(* nothing but logs of rows that are gone.                                 *)
(***************************************************************************)
EXTENDS IdMigration, TLAPS

-----------------------------------------------------------------------------
(* The inductive invariant                                                  *)

(* A row's identifier after the migration.                                  *)
New(r) == <<TableOf[r], Number[r]>>

(* What identifies a row, under the schema there is.                        *)
Name(r) ==
  IF TableOf[r] \notin ToSet(Tables) THEN Null
  ELSE IF schema = "integer" THEN OldId(r) ELSE New(r)

-----------------------------------------------------------------------------
(* The rows                                                                 *)

IdInv == \A r \in rows : id[r] = Name(r)

RefInv ==
  \A r \in rows :
    IF target[r] = NoRow THEN ref[r] = Null
    ELSE target[r] \in Of(Parent[TableOf[r]]) /\ ref[r] = Name(target[r])

(* A log keeps the old identifier of a row that was gone before it could be *)
(* mapped.                                                                  *)
Logged(r, v, name) == v = name \/ (subject[r] \notin rows /\ v = OldId(subject[r]))

SoftInv ==
  \A r \in rows :
    IF subject[r] = NoRow THEN soft[r] = Null
    ELSE /\ TableOf[r] = Log /\ subject[r] \in born
         /\ TableOf[subject[r]] \in ToSet(Tables)
         /\ Logged(r, soft[r], Name(subject[r]))

ReportInv == \A r \in report : TableOf[r] = Log /\ subject[r] \in born \ rows

-----------------------------------------------------------------------------
(* The revision                                                             *)

(* Between its first statement and its last the schema is the old one; at   *)
(* any other time there is nothing left of it.                              *)
TransactionInv ==
  IF phase = "none"
  THEN /\ script # "upgrade" /\ at = 1 /\ map = {} /\ locked = {}
       /\ newId = NoValues /\ newRef = NoValues /\ newSoft = NoValues
  ELSE script = "upgrade" /\ schema = "integer"

MapInv == \A m \in map : m.new = deterministic_legacy_id(m.table, m.legacy)

(* The tables whose identifiers, and whose references, are mapped.          *)
IdsStaged ==
  IF phase = "primary" THEN {Tables[i] : i \in 1..(at - 1)}
  ELSE IF phase \in {"fk", "soft", "commit"} THEN ToSet(Tables) ELSE {}
RefsStaged ==
  IF phase = "fk" THEN {FkTables[i] : i \in 1..(at - 1)}
  ELSE IF phase \in {"soft", "commit"} THEN ToSet(FkTables) ELSE {}

LockInv == IdsStaged \cup RefsStaged \subseteq locked

NewIdInv ==
  /\ \A r \in rows : TableOf[r] \in IdsStaged =>
       newId[r] = New(r) /\ Mapped(TableOf[r], OldId(r)) # {}
  /\ \A r \in Row : TableOf[r] \notin ToSet(Tables) => newId[r] = Null

NewRefInv ==
  /\ \A r \in rows : TableOf[r] \in RefsStaged =>
       newRef[r] = IF target[r] = NoRow THEN Null ELSE New(target[r])
  /\ \A r \in Row : TableOf[r] \notin RefsStaged => newRef[r] = Null

NewSoftInv ==
  /\ phase # "commit" => newSoft = NoValues
  /\ \A r \in Row : TableOf[r] # Log => newSoft[r] = Null
  /\ phase = "commit" => \A r \in rows :
       IF subject[r] = NoRow THEN newSoft[r] = Null
       ELSE Logged(r, newSoft[r], New(subject[r]))

IInv ==
  /\ TypeOK
  /\ IdInv /\ RefInv /\ SoftInv /\ ReportInv
  /\ TransactionInv /\ MapInv /\ LockInv
  /\ NewIdInv /\ NewRefInv /\ NewSoftInv

RowsInv  == IdInv /\ RefInv /\ SoftInv
StageInv == MapInv /\ LockInv /\ NewIdInv /\ NewRefInv /\ NewSoftInv

-----------------------------------------------------------------------------
(* Identifiers                                                              *)

(* Within a table an identifier names one row, old ones are not new ones,   *)
(* and the mapping takes the one to the other.                              *)
LEMMA Names ==
  ASSUME NEW r \in Row
  PROVE  /\ OldId(r) # Null /\ New(r) # Null
         /\ OldId(r) \in Value /\ New(r) \in Value
         /\ deterministic_legacy_id(TableOf[r], OldId(r)) = New(r)
         /\ generate_entity_id(r) = New(r)
         /\ TableOf[r] \in Table
         /\ \A q \in Row :
              /\ New(q) # OldId(r)
              /\ TableOf[q] = TableOf[r] /\ OldId(q) = OldId(r) => q = r
              /\ TableOf[q] = TableOf[r] /\ New(q) = New(r) => q = r
  <1>1. TableOf[r] \in Table /\ Number[r] \in Nat
    BY SchemaAssumption
  <1>2. OldId(r) # Null /\ New(r) # Null
    BY DEF OldId, New, Null
  <1>3. OldId(r) \in Value /\ New(r) \in Value
    BY <1>1 DEF OldId, New, Value
  <1>4. deterministic_legacy_id(TableOf[r], OldId(r)) = New(r) /\ generate_entity_id(r) = New(r)
    BY DEF deterministic_legacy_id, OldId, New, generate_entity_id
  <1>5. ASSUME NEW q \in Row
        PROVE  /\ New(q) # OldId(r)
               /\ TableOf[q] = TableOf[r] /\ OldId(q) = OldId(r) => q = r
               /\ TableOf[q] = TableOf[r] /\ New(q) = New(r) => q = r
    <2>1. TableOf[q] \in Table /\ TableOf[q] # NoTable
      BY SchemaAssumption, NullAssumption
    <2>2. New(q) # OldId(r)
      BY <2>1 DEF New, OldId
    <2>3. (OldId(q) = OldId(r) => Number[q] = Number[r]) /\ (New(q) = New(r) => Number[q] = Number[r])
      BY DEF New, OldId
    <2> QED
      BY <2>2, <2>3, SchemaAssumption
  <1> QED
    BY <1>1, <1>2, <1>3, <1>4, <1>5

(* Tables that rows refer to by a foreign key have identifiers.             *)
LEMMA Parents ==
  ASSUME NEW t \in Table
  PROVE  /\ Parent[t] # NoTable => Parent[t] \in ToSet(Tables) /\ t \in ToSet(FkTables)
         /\ t \in ToSet(FkTables) => Parent[t] # NoTable
  BY SchemaAssumption

LEMMA Lists ==
  /\ ToSet(Tables) = {Tables[i] : i \in 1..Len(Tables)} /\ ToSet(Tables) \subseteq Table
  /\ ToSet(FkTables) = {FkTables[i] : i \in 1..Len(FkTables)}
  /\ Len(Tables) \in Nat /\ Len(FkTables) \in Nat /\ Len(FkTables) > 0 /\ Len(Tables) > 0
  /\ NoTable \notin ToSet(Tables)
  <1>1. /\ Tables \in Seq(Table) /\ FkTables \in Seq(Table) /\ FkTables # <<>>
        /\ Log \in ToSet(Tables)
    BY SchemaAssumption
  <1>2. /\ ToSet(Tables) = {Tables[i] : i \in 1..Len(Tables)}
        /\ ToSet(FkTables) = {FkTables[i] : i \in 1..Len(FkTables)}
    BY <1>1 DEF ToSet
  <1>3. Len(Tables) \in Nat /\ Len(FkTables) \in Nat /\ Len(FkTables) > 0
    BY <1>1
  <1>4. Len(Tables) > 0
    BY <1>1, <1>2, <1>3
  <1>5. ToSet(Tables) \subseteq Table
    BY <1>1, <1>2
  <1> QED
    BY <1>2, <1>3, <1>4, <1>5, NullAssumption

LEMMA Types ==
  ASSUME TypeOK
  PROVE  /\ id \in [Row -> Value] /\ ref \in [Row -> Value] /\ soft \in [Row -> Value]
         /\ newId \in [Row -> Value] /\ newRef \in [Row -> Value] /\ newSoft \in [Row -> Value]
         /\ target \in [Row -> Row \cup {NoRow}] /\ subject \in [Row -> Row \cup {NoRow}]
         /\ rows \subseteq born /\ born \subseteq Row
  BY DEF TypeOK

LEMMA NewInMapped ==
  ASSUME MapInv, NEW t, NEW v, Mapped(t, v) # {}
  PROVE  NewIn(t, v) = deterministic_legacy_id(t, v)
  <1>1. (CHOOSE m \in Mapped(t, v) : TRUE) \in Mapped(t, v)
    OBVIOUS
  <1>2. PICK m \in Mapped(t, v) : NewIn(t, v) = m.new
    BY <1>1 DEF NewIn
  <1>3. m \in map /\ m.table = t /\ m.legacy = v
    BY DEF Mapped
  <1> QED
    BY <1>2, <1>3 DEF MapInv

-----------------------------------------------------------------------------
(* Steps that leave the rows, the revision or both as they are              *)

LEMMA SameRows == RowsInv /\ UNCHANGED database => RowsInv'
  BY DEF RowsInv, IdInv, RefInv, SoftInv, Logged, Name, Of, database, OldId, New

LEMMA SameRevision ==
  StageInv /\ UNCHANGED <<revision, rows, target, subject>> => StageInv'
  BY DEF StageInv, MapInv, LockInv, IdsStaged, RefsStaged, NewIdInv, NewRefInv, NewSoftInv,
         Logged, Mapped, revision

LEMMA NothingStaged ==
  ASSUME phase \in {"none", "seed"}, locked = {}, newId = NoValues, newRef = NoValues,
         newSoft = NoValues
  PROVE  LockInv /\ NewIdInv /\ NewRefInv /\ NewSoftInv
  <1>1. IdsStaged = {} /\ RefsStaged = {}
    BY DEF IdsStaged, RefsStaged
  <1> QED
    BY <1>1 DEF LockInv, NewIdInv, NewRefInv, NewSoftInv, NoValues

LEMMA Starts == Init => IInv
  <1> SUFFICES ASSUME Init PROVE IInv
    OBVIOUS
  <1> USE DEF Init
  <1>1. NoValues \in [Row -> Value]
    BY DEF NoValues, Value
  <1>2. [r \in Row |-> NoRow] \in [Row -> Row \cup {NoRow}]
    OBVIOUS
  <1>3. at \in 1..Len(IF phase = "fk" THEN FkTables ELSE Tables)
    BY Lists
  <1>4. TypeOK
    BY <1>1, <1>2, <1>3, BoundAssumption DEF TypeOK
  <1>5. IdInv /\ RefInv /\ SoftInv /\ ReportInv
    BY DEF IdInv, RefInv, SoftInv, ReportInv
  <1>6. TransactionInv /\ MapInv
    BY DEF TransactionInv, MapInv
  <1>7. LockInv /\ NewIdInv /\ NewRefInv /\ NewSoftInv
    BY NothingStaged
  <1> QED
    BY <1>4, <1>5, <1>6, <1>7 DEF IInv

(* The script, the app's mode, the end of a transaction.                    *)
LEMMA EndStep ==
  ASSUME IInv, End, script' = "failed", UNCHANGED <<app, database, report>>, aborts' \in 0..MaxAborts
  PROVE  IInv'
  <1>0. TypeOK /\ RowsInv /\ ReportInv
    BY DEF IInv, RowsInv
  <1>1. /\ phase' = "none" /\ at' = 1 /\ map' = {} /\ locked' = {}
        /\ newId' = NoValues /\ newRef' = NoValues /\ newSoft' = NoValues
    BY DEF End
  <1>2. NoValues \in [Row -> Value] /\ Len(Tables) > 0 /\ Len(Tables) \in Nat
    BY Lists DEF NoValues, Value
  <1>3. TypeOK'
    <2>1. UNCHANGED <<app, schema, rows, born, id, ref, soft, target, subject, report>>
      BY DEF database
    <2> QED
      BY <1>0, <1>1, <1>2, <2>1 DEF TypeOK
  <1>4. RowsInv'
    BY <1>0, SameRows
  <1>5. ReportInv'
    BY <1>0 DEF ReportInv, database
  <1>6. TransactionInv' /\ MapInv'
    BY <1>1 DEF TransactionInv, MapInv
  <1>7. LockInv' /\ NewIdInv' /\ NewRefInv' /\ NewSoftInv'
    <2>1. IdsStaged' = {} /\ RefsStaged' = {}
      BY <1>1 DEF IdsStaged, RefsStaged
    <2> QED
      BY <1>1, <2>1 DEF LockInv, NewIdInv, NewRefInv, NewSoftInv, NoValues
  <1> QED
    BY <1>3, <1>4, <1>5, <1>6, <1>7 DEF IInv, RowsInv

LEMMA FailStep == IInv /\ Fail => IInv'
  BY EndStep DEF Fail, IInv, TypeOK

LEMMA AbortStep == IInv /\ Abort => IInv'
  <1> SUFFICES ASSUME IInv, Abort PROVE IInv'
    OBVIOUS
  <1>1. aborts' \in 0..MaxAborts
    BY BoundAssumption DEF Abort, IInv, TypeOK
  <1> QED
    BY <1>1, EndStep DEF Abort

LEMMA ModeStep == IInv /\ (Start \/ Stop) => IInv'
  <1> SUFFICES ASSUME IInv, Start \/ Stop PROVE IInv'
    OBVIOUS
  <1>1. /\ UNCHANGED <<database, script, revision, aborts, report>>
        /\ app' \in {"off", "old", "indexing", "new"}
    BY DEF Start, Stop
  <1>2. TypeOK'
    BY <1>1 DEF IInv, TypeOK, database, revision
  <1>3. RowsInv' /\ StageInv'
    BY <1>1, SameRows, SameRevision DEF IInv, RowsInv, StageInv, database
  <1>4. ReportInv' /\ TransactionInv'
    BY <1>1 DEF IInv, ReportInv, TransactionInv, database, revision
  <1> QED
    BY <1>2, <1>3, <1>4 DEF IInv, RowsInv, StageInv

-----------------------------------------------------------------------------
(* The app                                                                  *)

LEMMA InsertRows ==
  ASSUME TypeOK, RowsInv, NEW r \in Row, NEW p \in rows \cup {NoRow}, NEW s \in rows \cup {NoRow},
         Insert(r, p, s)
  PROVE  RowsInv'
  <1>0. IdInv /\ RefInv /\ SoftInv
    BY DEF RowsInv
  <1>1. /\ r \notin born /\ rows' = rows \cup {r} /\ born' = born \cup {r}
        /\ IF p = NoRow THEN TRUE ELSE p \in Of(Parent[TableOf[r]])
        /\ s # NoRow => TableOf[r] = Log /\ s \in rows /\ id[s] # Null
        /\ id' = [id EXCEPT ![r] =
             IF TableOf[r] \notin ToSet(Tables) THEN Null
             ELSE IF schema = "integer" THEN OldId(r) ELSE generate_entity_id(r)]
        /\ ref' = [ref EXCEPT ![r] = IF p = NoRow THEN Null ELSE id[p]]
        /\ soft' = [soft EXCEPT ![r] = IF s = NoRow THEN Null ELSE id[s]]
        /\ target' = [target EXCEPT ![r] = p]
        /\ subject' = [subject EXCEPT ![r] = s]
        /\ schema' = schema
    BY DEF Insert
  <1>2. /\ id \in [Row -> Value] /\ ref \in [Row -> Value] /\ soft \in [Row -> Value]
        /\ target \in [Row -> Row \cup {NoRow}] /\ subject \in [Row -> Row \cup {NoRow}]
        /\ rows \subseteq born /\ born \subseteq Row
    BY Types
  <1>3. r \notin rows /\ NoRow \notin rows
    BY <1>1, <1>2, NullAssumption
  <1>4. \A q : Name(q)' = Name(q)
    BY <1>1 DEF Name, OldId, New
  <1>5. /\ id'[r] = Name(r)
        /\ \A q \in rows : id'[q] = id[q] /\ ref'[q] = ref[q] /\ soft'[q] = soft[q]
        /\ \A q \in rows : target'[q] = target[q] /\ subject'[q] = subject[q]
        /\ target'[r] = p /\ subject'[r] = s
        /\ ref'[r] = IF p = NoRow THEN Null ELSE id[p]
        /\ soft'[r] = IF s = NoRow THEN Null ELSE id[s]
    BY <1>1, <1>2, <1>3, Names DEF Name
  <1>6. IdInv'
    BY <1>0, <1>1, <1>4, <1>5 DEF IdInv
  <1>7. \A t : Of(t) \subseteq Of(t)'
    BY <1>1 DEF Of
  <1>8. RefInv'
    <2>1. ASSUME NEW q \in rows
          PROVE  IF target'[q] = NoRow THEN ref'[q] = Null
                 ELSE target'[q] \in Of(Parent[TableOf[q]])' /\ ref'[q] = Name(target'[q])
      BY <1>0, <1>5, <1>7 DEF RefInv
    <2>2. IF p = NoRow THEN ref'[r] = Null
          ELSE p \in Of(Parent[TableOf[r]])' /\ ref'[r] = Name(p)
      BY <1>0, <1>1, <1>3, <1>5, <1>7 DEF IdInv
    <2>3. \A q \in rows' : IF target'[q] = NoRow THEN ref'[q] = Null
            ELSE target'[q] \in Of(Parent[TableOf[q]])' /\ ref'[q] = Name(target'[q])
      BY <1>1, <1>5, <2>1, <2>2
    <2> QED
      BY <1>4, <2>3 DEF RefInv
  <1>9. SoftInv'
    <2>1. ASSUME NEW q \in rows
          PROVE  IF subject'[q] = NoRow THEN soft'[q] = Null
                 ELSE /\ TableOf[q] = Log /\ subject'[q] \in born'
                      /\ TableOf[subject'[q]] \in ToSet(Tables)
                      /\ \/ soft'[q] = Name(subject'[q])
                         \/ subject'[q] \notin rows' /\ soft'[q] = OldId(subject'[q])
      BY <1>0, <1>1, <1>5 DEF SoftInv, Logged
    <2>2. s # NoRow => /\ TableOf[s] \in ToSet(Tables) /\ id[s] = Name(s)
                       /\ TableOf[r] = Log /\ s \in born'
      BY <1>0, <1>1, <1>2 DEF IdInv, Name
    <2>3. \A q \in rows' : IF subject'[q] = NoRow THEN soft'[q] = Null
                 ELSE /\ TableOf[q] = Log /\ subject'[q] \in born'
                      /\ TableOf[subject'[q]] \in ToSet(Tables)
                      /\ \/ soft'[q] = Name(subject'[q])
                         \/ subject'[q] \notin rows' /\ soft'[q] = OldId(subject'[q])
      BY <1>1, <1>5, <2>1, <2>2
    <2>4. \A q : OldId(q)' = OldId(q)
      BY DEF OldId
    <2> QED
      BY <1>4, <2>3, <2>4 DEF SoftInv, Logged
  <1> QED
    BY <1>6, <1>8, <1>9 DEF RowsInv

LEMMA InsertStep ==
  ASSUME IInv, NEW r \in Row, NEW p \in rows \cup {NoRow}, NEW s \in rows \cup {NoRow},
         Insert(r, p, s)
  PROVE  IInv'
  <1>0. TypeOK /\ RowsInv /\ ReportInv /\ TransactionInv /\ StageInv
    BY DEF IInv, RowsInv, StageInv
  <1>1. /\ r \notin born /\ rows' = rows \cup {r} /\ born' = born \cup {r}
        /\ TableOf[r] \notin locked /\ Parent[TableOf[r]] \notin locked
        /\ IF p = NoRow THEN TRUE ELSE p \in Of(Parent[TableOf[r]])
        /\ s # NoRow => TableOf[r] = Log /\ s \in rows /\ id[s] # Null
        /\ id' = [id EXCEPT ![r] =
             IF TableOf[r] \notin ToSet(Tables) THEN Null
             ELSE IF schema = "integer" THEN OldId(r) ELSE generate_entity_id(r)]
        /\ ref' = [ref EXCEPT ![r] = IF p = NoRow THEN Null ELSE id[p]]
        /\ soft' = [soft EXCEPT ![r] = IF s = NoRow THEN Null ELSE id[s]]
        /\ target' = [target EXCEPT ![r] = p]
        /\ subject' = [subject EXCEPT ![r] = s]
        /\ UNCHANGED <<app, schema, script, revision, aborts, report>>
    BY DEF Insert
  <1>2. /\ id \in [Row -> Value] /\ ref \in [Row -> Value] /\ soft \in [Row -> Value]
        /\ target \in [Row -> Row \cup {NoRow}] /\ subject \in [Row -> Row \cup {NoRow}]
        /\ rows \subseteq born /\ born \subseteq Row
    BY <1>0, Types
  <1>3. TypeOK'
    <2>1. /\ Null \in Value /\ OldId(r) \in Value /\ generate_entity_id(r) \in Value
          /\ p = NoRow \/ id[p] \in Value
          /\ s = NoRow \/ id[s] \in Value
          /\ p \in Row \cup {NoRow} /\ s \in Row \cup {NoRow}
      BY <1>2, Names DEF Value
    <2>2. id' \in [Row -> Value] /\ ref' \in [Row -> Value] /\ soft' \in [Row -> Value]
      BY <1>1, <1>2, <2>1
    <2>3. target' \in [Row -> Row \cup {NoRow}] /\ subject' \in [Row -> Row \cup {NoRow}]
      BY <1>1, <1>2, <2>1
    <2>4. rows' \subseteq born' /\ born' \subseteq Row /\ report' \subseteq born'
      BY <1>0, <1>1, <1>2 DEF TypeOK
    <2>5. UNCHANGED <<phase, at, map, locked, newId, newRef, newSoft>>
      BY <1>1 DEF revision
    <2> QED
      BY <1>0, <1>1, <2>2, <2>3, <2>4, <2>5 DEF TypeOK
  <1>4. RowsInv'
    BY <1>0, InsertRows
  <1>5. ReportInv' /\ TransactionInv'
    <2>1. \A q \in report : subject'[q] = subject[q]
      BY <1>0, <1>1, <1>2 DEF TypeOK
    <2>2. ReportInv'
      BY <1>0, <1>1, <2>1 DEF ReportInv
    <2>3. TransactionInv'
      BY <1>0, <1>1 DEF TransactionInv, revision
    <2> QED
      BY <2>2, <2>3
  <1>6. /\ \A q \in rows : target'[q] = target[q] /\ subject'[q] = subject[q]
        /\ target'[r] = p /\ subject'[r] = s /\ r \notin rows
    BY <1>1, <1>2
  <1>7. UNCHANGED <<phase, at, map, locked, newId, newRef, newSoft>>
    BY <1>1 DEF revision
  <1>8. MapInv' /\ LockInv'
    BY <1>0, <1>7 DEF StageInv, MapInv, LockInv, IdsStaged, RefsStaged
  <1>9. IdsStaged' = IdsStaged /\ RefsStaged' = RefsStaged
    BY <1>7 DEF IdsStaged, RefsStaged
  <1>10. TableOf[r] \notin IdsStaged /\ TableOf[r] \notin RefsStaged
    BY <1>0, <1>1 DEF StageInv, LockInv
  <1>11. NewIdInv'
    BY <1>0, <1>1, <1>7, <1>9, <1>10 DEF StageInv, NewIdInv, Mapped
  <1>12. NewRefInv'
    BY <1>0, <1>1, <1>6, <1>7, <1>9, <1>10 DEF StageInv, NewRefInv
  <1>13. NewSoftInv'
    <2>0. NewSoftInv
      BY <1>0 DEF StageInv
    <2>1. CASE phase = "commit"
      <3>1. Log \in locked
        BY <1>0, <2>1, SchemaAssumption DEF StageInv, LockInv, IdsStaged
      <3>2. TableOf[r] # Log /\ s = NoRow
        BY <1>1, <3>1
      <3>3. newSoft'[r] = Null
        BY <1>7, <2>0, <3>2 DEF NewSoftInv
      <3>4. \A q \in rows : subject[q] # NoRow => subject[q] \in born
        BY <1>0 DEF RowsInv, SoftInv
      <3>5. \A q \in rows : IF subject'[q] = NoRow THEN newSoft'[q] = Null
                            ELSE Logged(q, newSoft[q], New(subject[q]))'
        BY <1>1, <1>6, <1>7, <2>0, <2>1, <3>4 DEF NewSoftInv, Logged, OldId, New
      <3>6. \A q \in rows' : IF subject'[q] = NoRow THEN newSoft'[q] = Null
                             ELSE Logged(q, newSoft[q], New(subject[q]))'
        BY <1>1, <1>6, <3>2, <3>3, <3>5
      <3> QED
        BY <1>7, <2>0, <3>6 DEF NewSoftInv
    <2>2. CASE phase # "commit"
      BY <1>7, <2>0, <2>2 DEF NewSoftInv, NoValues
    <2> QED
      BY <2>1, <2>2
  <1> QED
    BY <1>3, <1>4, <1>5, <1>8, <1>11, <1>12, <1>13 DEF IInv, RowsInv

LEMMA DeleteStep ==
  ASSUME IInv, NEW r \in Row, Delete(r)
  PROVE  IInv'
  <1>0. TypeOK /\ RowsInv /\ ReportInv /\ TransactionInv /\ StageInv
    BY DEF IInv, RowsInv, StageInv
  <1>1. /\ r \in rows /\ rows' = rows \ {r}
        /\ \A q \in rows : target[q] # r
        /\ UNCHANGED <<app, schema, born, id, ref, soft, target, subject, script>>
        /\ UNCHANGED <<phase, at, map, locked, newId, newRef, newSoft, aborts, report>>
    BY DEF Delete, revision
  <1>2. TypeOK'
    BY <1>0, <1>1 DEF TypeOK
  <1>3. \A q : Name(q)' = Name(q) /\ OldId(q)' = OldId(q) /\ New(q)' = New(q)
    BY <1>1 DEF Name, OldId, New
  <1>4. RowsInv'
    <2>1. IdInv'
      BY <1>0, <1>1, <1>3 DEF RowsInv, IdInv
    <2>2. RefInv'
      BY <1>0, <1>1, <1>3 DEF RowsInv, RefInv, Of
    <2>3. SoftInv'
      BY <1>0, <1>1, <1>3 DEF RowsInv, SoftInv, Logged
    <2> QED
      BY <2>1, <2>2, <2>3 DEF RowsInv
  <1>5. ReportInv' /\ TransactionInv'
    BY <1>0, <1>1 DEF ReportInv, TransactionInv
  <1>6. IdsStaged' = IdsStaged /\ RefsStaged' = RefsStaged
    BY <1>1 DEF IdsStaged, RefsStaged
  <1>7. MapInv' /\ LockInv'
    BY <1>0, <1>1, <1>6 DEF StageInv, MapInv, LockInv
  <1>8. NewIdInv' /\ NewRefInv'
    BY <1>0, <1>1, <1>3, <1>6 DEF StageInv, NewIdInv, NewRefInv, Mapped
  <1>9. NewSoftInv'
    BY <1>0, <1>1, <1>3 DEF StageInv, NewSoftInv, Logged
  <1> QED
    BY <1>2, <1>4, <1>5, <1>7, <1>8, <1>9 DEF IInv, RowsInv

-----------------------------------------------------------------------------
(* The revision                                                             *)

(* A step of the revision that ends nothing: only the transaction sees it.  *)
LEMMA PrivateStep ==
  ASSUME IInv, UNCHANGED Private
  PROVE  /\ RowsInv' /\ ReportInv'
         /\ UNCHANGED <<app, schema, rows, born, id, ref, soft, target, subject>>
         /\ UNCHANGED <<script, aborts, report>>
         /\ \A q : OldId(q)' = OldId(q) /\ New(q)' = New(q)
  <1>1. UNCHANGED database /\ UNCHANGED <<app, script, aborts, report>>
    BY DEF Private
  <1>2. RowsInv'
    BY <1>1, SameRows DEF IInv, RowsInv
  <1>3. UNCHANGED <<app, schema, rows, born, id, ref, soft, target, subject>>
    BY <1>1 DEF database
  <1>4. ReportInv'
    BY <1>1, <1>3 DEF IInv, ReportInv
  <1> QED
    BY <1>1, <1>2, <1>3, <1>4 DEF OldId, New

(* What a row's identifier is while the revision runs.                      *)
LEMMA OldNames ==
  ASSUME IInv, phase # "none", NEW r \in rows
  PROVE  /\ r \in Row /\ script = "upgrade" /\ schema = "integer"
         /\ TableOf[r] \in ToSet(Tables) => id[r] = OldId(r)
         /\ IF target[r] = NoRow THEN ref[r] = Null
            ELSE /\ target[r] \in Row /\ target[r] \in rows
                 /\ TableOf[target[r]] = Parent[TableOf[r]]
                 /\ Parent[TableOf[r]] \in ToSet(Tables)
                 /\ ref[r] = OldId(target[r]) /\ ref[r] # Null
         /\ IF subject[r] = NoRow THEN soft[r] = Null
            ELSE /\ subject[r] \in Row /\ TableOf[r] = Log
                 /\ TableOf[subject[r]] \in ToSet(Tables) /\ soft[r] = OldId(subject[r])
  <1>1. r \in Row /\ script = "upgrade" /\ schema = "integer" /\ rows \subseteq Row /\ born \subseteq Row
    BY DEF IInv, TypeOK, TransactionInv
  <1>2. TableOf[r] \in ToSet(Tables) => id[r] = OldId(r)
    BY <1>1 DEF IInv, IdInv, Name
  <1>3. ASSUME target[r] # NoRow
        PROVE  /\ target[r] \in Row /\ target[r] \in rows
               /\ TableOf[target[r]] = Parent[TableOf[r]]
               /\ Parent[TableOf[r]] \in ToSet(Tables)
               /\ ref[r] = OldId(target[r]) /\ ref[r] # Null
    <2>1. target[r] \in Of(Parent[TableOf[r]]) /\ ref[r] = Name(target[r])
      BY <1>3 DEF IInv, RefInv
    <2>2. target[r] \in Row /\ target[r] \in rows /\ TableOf[target[r]] = Parent[TableOf[r]]
      BY <1>1, <2>1 DEF Of
    <2>3. TableOf[r] \in Table /\ TableOf[target[r]] \in Table
      BY <1>1, <2>2, Names
    <2>4. Parent[TableOf[r]] \in ToSet(Tables)
      BY <2>2, <2>3, Parents, NullAssumption
    <2>5. ref[r] = OldId(target[r])
      BY <1>1, <2>1, <2>2, <2>4 DEF Name
    <2> QED
      BY <2>2, <2>4, <2>5, Names
  <1>4. ASSUME subject[r] # NoRow
        PROVE  /\ subject[r] \in Row /\ TableOf[r] = Log
               /\ TableOf[subject[r]] \in ToSet(Tables) /\ soft[r] = OldId(subject[r])
    <2>1. /\ TableOf[r] = Log /\ subject[r] \in born
          /\ TableOf[subject[r]] \in ToSet(Tables)
          /\ Logged(r, soft[r], Name(subject[r]))
      BY <1>4 DEF IInv, SoftInv
    <2>2. Name(subject[r]) = OldId(subject[r])
      BY <1>1, <2>1 DEF Name
    <2> QED
      BY <1>1, <2>1, <2>2 DEF Logged
  <1> QED
    BY <1>1, <1>2, <1>3, <1>4 DEF IInv, RefInv, SoftInv

LEMMA SeedTableStep == IInv /\ SeedTable => IInv'
  <1> SUFFICES ASSUME IInv, SeedTable PROVE IInv'
    OBVIOUS
  <1> DEFINE t == Tables[at]
             added == {[table |-> t, legacy |-> id[r],
                        new |-> deterministic_legacy_id(t, id[r])] : r \in Of(t)}
  <1>0. TypeOK /\ TransactionInv /\ StageInv
    BY DEF IInv, StageInv
  <1>1. /\ phase = "seed" /\ map' = map \cup added /\ Advance(Tables, "primary")
        /\ UNCHANGED Private /\ UNCHANGED <<locked, newId, newRef, newSoft>>
    BY DEF SeedTable
  <1>2. at \in 1..Len(Tables) /\ t \in ToSet(Tables)
    BY <1>0, <1>1, Lists DEF TypeOK
  <1>3. /\ phase' \in {"seed", "primary"} /\ at' \in 1..Len(Tables)
        /\ phase' = "primary" => at' = 1
    BY <1>1, <1>2, Lists DEF Advance
  <1>4. added \subseteq [table : ToSet(Tables), legacy : Value, new : Value]
    <2> SUFFICES ASSUME NEW r \in Of(t)
                 PROVE  id[r] \in Value /\ deterministic_legacy_id(t, id[r]) \in Value
      BY <1>2
    <2>1. r \in rows /\ TableOf[r] = t
      BY DEF Of
    <2>2. r \in Row /\ id[r] = OldId(r)
      BY <1>1, <1>2, <2>1, OldNames
    <2> QED
      BY <2>1, <2>2, Names
  <1>5. \A m \in added : m.new = deterministic_legacy_id(m.table, m.legacy)
    OBVIOUS
  <1> HIDE DEF added, t
  <1>6. /\ RowsInv' /\ ReportInv'
        /\ UNCHANGED <<app, schema, rows, born, id, ref, soft, target, subject>>
        /\ UNCHANGED <<script, aborts, report>>
    BY <1>1, PrivateStep
  <1>7. TypeOK'
    BY <1>0, <1>1, <1>3, <1>4, <1>6 DEF TypeOK
  <1>8. MapInv'
    <2>1. \A m : deterministic_legacy_id(m.table, m.legacy)' = deterministic_legacy_id(m.table, m.legacy)
      BY DEF deterministic_legacy_id
    <2> QED
      BY <1>0, <1>1, <1>5, <2>1 DEF StageInv, MapInv
  <1>9. TransactionInv'
    BY <1>0, <1>1, <1>3, <1>6 DEF TransactionInv
  <1>10. IdsStaged' = {} /\ RefsStaged' = {}
    <2>1. phase' = "primary" => 1..(at' - 1) = {}
      BY <1>3
    <2> QED
      BY <1>3, <2>1 DEF IdsStaged, RefsStaged
  <1>11. LockInv' /\ NewIdInv'
    BY <1>0, <1>1, <1>10 DEF StageInv, LockInv, NewIdInv
  <1>12. NewRefInv'
    <2>1. RefsStaged = {}
      BY <1>1 DEF RefsStaged
    <2> QED
      BY <1>0, <1>1, <1>10, <2>1 DEF StageInv, NewRefInv
  <1>13. NewSoftInv'
    BY <1>0, <1>1, <1>3 DEF StageInv, NewSoftInv, NoValues
  <1> QED
    BY <1>6, <1>7, <1>8, <1>9, <1>11, <1>12, <1>13 DEF IInv, RowsInv

LEMMA StageIdStep == IInv /\ StageId => IInv'
  <1> SUFFICES ASSUME IInv, StageId, ~Fail PROVE IInv'
    BY FailStep
  <1>0. TypeOK /\ TransactionInv /\ StageInv
    BY DEF IInv, StageInv
  <1>1. PICK t : t = Tables[at]
    OBVIOUS
  <1>2. /\ phase = "primary"
        /\ \A r \in Of(t) : Mapped(t, id[r]) # {}
        /\ locked' = locked \cup {t}
        /\ newId' = [r \in Row |-> IF r \in Of(t) THEN NewIn(t, id[r]) ELSE newId[r]]
        /\ Advance(Tables, "fk")
        /\ UNCHANGED Private /\ UNCHANGED <<map, newRef, newSoft>>
    BY <1>1 DEF StageId
  <1>3. at \in 1..Len(Tables) /\ t \in ToSet(Tables) /\ ToSet(Tables) \subseteq Table
    BY <1>0, <1>1, <1>2, Lists DEF TypeOK
  <1>4. /\ phase' \in {"primary", "fk"} /\ at' \in Nat /\ at' > 0
        /\ phase' = "primary" => at' = at + 1 /\ at' <= Len(Tables)
        /\ phase' = "fk" => at' = 1 /\ at = Len(Tables)
    BY <1>2, <1>3, Lists DEF Advance
  <1>5. IdsStaged' \subseteq IdsStaged \cup {t} /\ RefsStaged' = {} /\ RefsStaged = {}
    <2>1. IdsStaged = {Tables[i] : i \in 1..(at - 1)} /\ RefsStaged = {}
      BY <1>2 DEF IdsStaged, RefsStaged
    <2>2. CASE phase' = "primary"
      <3>1. IdsStaged' = {Tables[i] : i \in 1..(at' - 1)} /\ RefsStaged' = {}
        BY <2>2 DEF IdsStaged, RefsStaged
      <3>2. \A i \in 1..(at' - 1) : i \in 1..(at - 1) \/ i = at
        BY <1>3, <1>4, <2>2, Lists
      <3> QED
        BY <1>1, <2>1, <3>1, <3>2
    <2>3. CASE phase' = "fk"
      <3>1. IdsStaged' = ToSet(Tables) /\ RefsStaged' = {FkTables[i] : i \in 1..(at' - 1)}
        BY <2>3 DEF IdsStaged, RefsStaged
      <3>2. 1..(at' - 1) = {}
        BY <1>4, <2>3
      <3>3. \A i \in 1..Len(Tables) : i \in 1..(at - 1) \/ i = at
        BY <1>3, <1>4, <2>3, Lists
      <3> QED
        BY <1>1, <2>1, <3>1, <3>2, <3>3, Lists
    <2> QED
      BY <1>4, <2>2, <2>3
  <1>6. /\ RowsInv' /\ ReportInv'
        /\ UNCHANGED <<app, schema, rows, born, id, ref, soft, target, subject>>
        /\ UNCHANGED <<script, aborts, report>>
        /\ \A q : OldId(q)' = OldId(q) /\ New(q)' = New(q)
    BY <1>2, PrivateStep
  <1>7. /\ \A r \in rows : TableOf[r] = t => newId'[r] = New(r) /\ Mapped(t, OldId(r)) # {}
        /\ \A r \in Row : ~(r \in rows /\ TableOf[r] = t) => newId'[r] = newId[r]
        /\ newId' \in [Row -> Value]
    <2>1. ASSUME NEW r \in rows, TableOf[r] = t
          PROVE  r \in Row /\ NewIn(t, id[r]) = New(r) /\ Mapped(t, OldId(r)) # {}
      <3>1. r \in Row /\ id[r] = OldId(r)
        BY <1>2, <1>3, <2>1, OldNames
      <3>2. Mapped(t, OldId(r)) # {}
        BY <1>2, <2>1, <3>1 DEF Of
      <3>3. NewIn(t, OldId(r)) = deterministic_legacy_id(TableOf[r], OldId(r))
        BY <1>0, <2>1, <3>2, NewInMapped DEF StageInv
      <3> QED
        BY <3>1, <3>2, <3>3, Names
    <2>2. \A r \in Row : newId'[r] = IF r \in Of(t) THEN NewIn(t, id[r]) ELSE newId[r]
      BY <1>2
    <2>3. \A r : r \in Of(t) <=> r \in rows /\ TableOf[r] = t
      BY DEF Of
    <2>4. \A r \in Row : newId'[r] \in Value
      BY <1>0, <2>1, <2>2, <2>3, Types, Names
    <2> QED
      BY <1>2, <2>1, <2>2, <2>3, <2>4
  <1>8. TypeOK'
    <2>1. at' \in 1..Len(IF phase' = "fk" THEN FkTables ELSE Tables)
      BY <1>3, <1>4, Lists
    <2> QED
      BY <1>0, <1>2, <1>3, <1>4, <1>6, <1>7, <2>1 DEF TypeOK
  <1>9. TransactionInv' /\ MapInv'
    BY <1>0, <1>2, <1>4, <1>6 DEF TransactionInv, StageInv, MapInv, deterministic_legacy_id
  <1>10. LockInv'
    BY <1>0, <1>2, <1>5 DEF StageInv, LockInv
  <1>11. NewIdInv'
    <2>1. \A x, v : Mapped(x, v)' = Mapped(x, v)
      BY <1>2 DEF Mapped
    <2>2. ASSUME NEW r \in rows, TableOf[r] \in IdsStaged'
          PROVE  newId'[r] = New(r) /\ Mapped(TableOf[r], OldId(r)) # {}
      <3>1. r \in Row
        BY <1>0 DEF TypeOK
      <3>2. CASE TableOf[r] = t
        BY <1>7, <3>2
      <3>3. CASE TableOf[r] # t
        BY <1>0, <1>5, <1>7, <2>2, <3>1, <3>3 DEF StageInv, NewIdInv
      <3> QED
        BY <3>2, <3>3
    <2>3. \A r \in Row : TableOf[r] \notin ToSet(Tables) => newId'[r] = Null
      BY <1>0, <1>3, <1>7 DEF StageInv, NewIdInv
    <2> QED
      BY <1>6, <2>1, <2>2, <2>3 DEF NewIdInv
  <1>12. NewRefInv'
    BY <1>0, <1>2, <1>5 DEF StageInv, NewRefInv
  <1>13. NewSoftInv'
    BY <1>0, <1>2, <1>4 DEF StageInv, NewSoftInv, NoValues
  <1> QED
    BY <1>6, <1>8, <1>9, <1>10, <1>11, <1>12, <1>13 DEF IInv, RowsInv

LEMMA StageRefStep == IInv /\ StageRef => IInv'
  <1> SUFFICES ASSUME IInv, StageRef, ~Fail PROVE IInv'
    BY FailStep
  <1>0. TypeOK /\ TransactionInv /\ StageInv
    BY DEF IInv, StageInv
  <1>1. PICK t : t = FkTables[at]
    OBVIOUS
  <1>2. /\ phase = "fk"
        /\ \A r \in Of(t) : ref[r] # Null => Mapped(Parent[t], ref[r]) # {}
        /\ locked' = locked \cup {t}
        /\ newRef' = [r \in Row |->
             IF r \in Of(t) /\ ref[r] # Null THEN NewIn(Parent[t], ref[r]) ELSE newRef[r]]
        /\ Advance(FkTables, "soft")
        /\ UNCHANGED Private /\ UNCHANGED <<map, newId, newSoft>>
    BY <1>1 DEF StageRef, RefTable
  <1>3. at \in 1..Len(FkTables) /\ t \in ToSet(FkTables) /\ t \in Table
    BY <1>0, <1>1, <1>2, Lists, SchemaAssumption DEF TypeOK
  <1>4. /\ phase' \in {"fk", "soft"} /\ at' \in Nat /\ at' > 0
        /\ phase' = "fk" => at' = at + 1 /\ at' <= Len(FkTables)
        /\ phase' = "soft" => at' = 1 /\ at = Len(FkTables)
    BY <1>2, <1>3, Lists DEF Advance
  <1>5. RefsStaged' = RefsStaged \cup {t} /\ IdsStaged' = IdsStaged
    <2>1. RefsStaged = {FkTables[i] : i \in 1..(at - 1)} /\ IdsStaged = ToSet(Tables)
      BY <1>2 DEF IdsStaged, RefsStaged
    <2>2. CASE phase' = "fk"
      <3>1. RefsStaged' = {FkTables[i] : i \in 1..(at' - 1)} /\ IdsStaged' = ToSet(Tables)
        BY <2>2 DEF IdsStaged, RefsStaged
      <3>2. \A i : i \in 1..(at' - 1) <=> i \in 1..(at - 1) \/ i = at
        BY <1>3, <1>4, <2>2, Lists
      <3> QED
        BY <1>1, <2>1, <3>1, <3>2
    <2>3. CASE phase' = "soft"
      <3>1. RefsStaged' = ToSet(FkTables) /\ IdsStaged' = ToSet(Tables)
        BY <2>3 DEF IdsStaged, RefsStaged
      <3>2. \A i : i \in 1..Len(FkTables) <=> i \in 1..(at - 1) \/ i = at
        BY <1>3, <1>4, <2>3, Lists
      <3> QED
        BY <1>1, <2>1, <3>1, <3>2, Lists
    <2> QED
      BY <1>4, <2>2, <2>3
  <1>6. /\ RowsInv' /\ ReportInv'
        /\ UNCHANGED <<app, schema, rows, born, id, ref, soft, target, subject>>
        /\ UNCHANGED <<script, aborts, report>>
        /\ \A q : OldId(q)' = OldId(q) /\ New(q)' = New(q)
    BY <1>2, PrivateStep
  <1>7. /\ \A r \in rows : TableOf[r] = t /\ target[r] # NoRow => newRef'[r] = New(target[r])
        /\ \A r \in rows : TableOf[r] = t /\ target[r] = NoRow => newRef'[r] = newRef[r]
        /\ \A r \in Row : TableOf[r] # t => newRef'[r] = newRef[r]
        /\ newRef' \in [Row -> Value]
    <2>1. ASSUME NEW r \in rows, TableOf[r] = t, ref[r] # Null
          PROVE  target[r] # NoRow /\ target[r] \in Row /\ NewIn(Parent[t], ref[r]) = New(target[r])
      <3>1. /\ target[r] # NoRow /\ target[r] \in Row
            /\ TableOf[target[r]] = Parent[t] /\ ref[r] = OldId(target[r])
        BY <1>2, <2>1, OldNames
      <3>2. Mapped(Parent[t], ref[r]) # {}
        BY <1>2, <2>1 DEF Of
      <3>3. NewIn(Parent[t], ref[r]) = deterministic_legacy_id(TableOf[target[r]], OldId(target[r]))
        BY <1>0, <3>1, <3>2, NewInMapped DEF StageInv
      <3> QED
        BY <3>1, <3>3, Names
    <2>2. \A r \in Row :
            newRef'[r] = IF r \in Of(t) /\ ref[r] # Null THEN NewIn(Parent[t], ref[r]) ELSE newRef[r]
      BY <1>2
    <2>3. \A r : r \in Of(t) <=> r \in rows /\ TableOf[r] = t
      BY DEF Of
    <2>4. \A r \in Row : newRef'[r] \in Value
      BY <1>0, <2>1, <2>2, <2>3, Types, Names
    <2>5. \A r \in rows : r \in Row /\ (target[r] = NoRow <=> ref[r] = Null)
      BY <1>2, OldNames
    <2>6. \A r \in rows : TableOf[r] = t /\ target[r] # NoRow => newRef'[r] = New(target[r])
      BY <2>1, <2>2, <2>3, <2>5
    <2>7. \A r \in rows : TableOf[r] = t /\ target[r] = NoRow => newRef'[r] = newRef[r]
      BY <2>2, <2>5
    <2> QED
      BY <1>2, <2>2, <2>3, <2>4, <2>6, <2>7
  <1>8. TypeOK'
    <2>1. at' \in 1..Len(IF phase' = "fk" THEN FkTables ELSE Tables)
      BY <1>3, <1>4, Lists
    <2> QED
      BY <1>0, <1>2, <1>3, <1>4, <1>6, <1>7, <2>1 DEF TypeOK
  <1>9. TransactionInv' /\ MapInv'
    BY <1>0, <1>2, <1>4, <1>6 DEF TransactionInv, StageInv, MapInv, deterministic_legacy_id
  <1>10. LockInv'
    BY <1>0, <1>2, <1>5 DEF StageInv, LockInv
  <1>11. NewIdInv'
    BY <1>0, <1>2, <1>5, <1>6 DEF StageInv, NewIdInv, Mapped
  <1>12. NewRefInv'
    <2>1. ASSUME NEW r \in rows, TableOf[r] \in RefsStaged \cup {t}
          PROVE  newRef'[r] = IF target[r] = NoRow THEN Null ELSE New(target[r])
      <3>1. r \in Row
        BY <1>0 DEF TypeOK
      <3>2. TableOf[r] \notin RefsStaged => newRef[r] = Null
        BY <1>0, <3>1 DEF StageInv, NewRefInv
      <3>3. TableOf[r] \in RefsStaged => newRef[r] = IF target[r] = NoRow THEN Null ELSE New(target[r])
        BY <1>0 DEF StageInv, NewRefInv
      <3> QED
        BY <1>7, <2>1, <3>1, <3>2, <3>3
    <2>2. \A r \in Row : TableOf[r] \notin RefsStaged \cup {t} => newRef'[r] = Null
      BY <1>0, <1>7 DEF StageInv, NewRefInv
    <2> QED
      BY <1>5, <1>6, <2>1, <2>2 DEF NewRefInv
  <1>13. NewSoftInv'
    BY <1>0, <1>2, <1>4 DEF StageInv, NewSoftInv, NoValues
  <1> QED
    BY <1>6, <1>8, <1>9, <1>10, <1>11, <1>12, <1>13 DEF IInv, RowsInv

LEMMA RewriteStep == IInv /\ RewriteSoftReferences => IInv'
  <1> SUFFICES ASSUME IInv, RewriteSoftReferences PROVE IInv'
    OBVIOUS
  <1>0. TypeOK /\ TransactionInv /\ StageInv
    BY DEF IInv, StageInv
  <1>1. /\ phase = "soft" /\ phase' = "commit" /\ at' = 1
        /\ newSoft' = [r \in Row |->
             IF r \notin Of(Log) \/ subject[r] = NoRow THEN newSoft[r]
             ELSE LET t == TargetTable(r) IN
                  IF t \in ActivityTargets /\ Mapped(t, soft[r]) # {}
                  THEN NewIn(t, soft[r]) ELSE soft[r]]
        /\ UNCHANGED Private /\ UNCHANGED <<map, locked, newId, newRef>>
    BY DEF RewriteSoftReferences
  <1>2. /\ RowsInv' /\ ReportInv'
        /\ UNCHANGED <<app, schema, rows, born, id, ref, soft, target, subject>>
        /\ UNCHANGED <<script, aborts, report>>
        /\ \A q : OldId(q)' = OldId(q) /\ New(q)' = New(q)
    BY <1>1, PrivateStep
  <1>3. newSoft = NoValues /\ \A r \in Row : newSoft[r] = Null
    BY <1>0, <1>1 DEF StageInv, NewSoftInv, NoValues
  <1>4. \A r \in Row : newSoft'[r] =
          IF r \notin Of(Log) \/ subject[r] = NoRow THEN newSoft[r]
          ELSE IF TableOf[subject[r]] \in ToSet(Tables)
                  /\ Mapped(TableOf[subject[r]], soft[r]) # {}
               THEN NewIn(TableOf[subject[r]], soft[r]) ELSE soft[r]
    BY <1>1 DEF TargetTable, ActivityTargets
  <1>5. \A r : r \in Of(Log) <=> r \in rows /\ TableOf[r] = Log
    BY DEF Of
  <1>6. ASSUME NEW r \in rows, subject[r] # NoRow
        PROVE  /\ r \in Row /\ newSoft'[r] \in Value
               /\ \/ newSoft'[r] = New(subject[r])
                  \/ subject[r] \notin rows /\ newSoft'[r] = OldId(subject[r])
    <2>1. /\ r \in Row /\ subject[r] \in Row /\ TableOf[r] = Log
          /\ TableOf[subject[r]] \in ToSet(Tables) /\ soft[r] = OldId(subject[r])
      BY <1>1, <1>6, OldNames
    <2>2. newSoft'[r] = IF Mapped(TableOf[subject[r]], soft[r]) # {}
                        THEN NewIn(TableOf[subject[r]], soft[r]) ELSE soft[r]
      BY <1>4, <1>5, <1>6, <2>1
    <2>3. CASE Mapped(TableOf[subject[r]], soft[r]) # {}
      <3>1. newSoft'[r] = deterministic_legacy_id(TableOf[subject[r]], OldId(subject[r]))
        BY <1>0, <2>1, <2>2, <2>3, NewInMapped DEF StageInv
      <3> QED
        BY <2>1, <3>1, Names
    <2>4. CASE Mapped(TableOf[subject[r]], soft[r]) = {}
      <3>1. IdsStaged = ToSet(Tables)
        BY <1>1 DEF IdsStaged
      <3>2. subject[r] \notin rows
        BY <1>0, <2>1, <2>4, <3>1 DEF StageInv, NewIdInv
      <3> QED
        BY <2>1, <2>2, <2>4, <3>2, Names
    <2> QED
      BY <2>3, <2>4
  <1>7. \A r \in Row : ~(r \in rows /\ subject[r] # NoRow) => newSoft'[r] = Null
    BY <1>3, <1>4, <1>5
  <1>8. newSoft' \in [Row -> Value]
    <2>1. \A r \in Row : newSoft'[r] \in Value
      BY <1>6, <1>7 DEF Value
    <2> QED
      BY <1>1, <2>1
  <1>9. NewSoftInv'
    <2>1. \A r \in Row : TableOf[r] # Log => newSoft'[r] = Null
      BY <1>3, <1>4, <1>5
    <2>2. \A r \in rows : IF subject[r] = NoRow THEN newSoft'[r] = Null
                          ELSE \/ newSoft'[r] = New(subject[r])
                               \/ subject[r] \notin rows /\ newSoft'[r] = OldId(subject[r])
      BY <1>0, <1>6, <1>7 DEF TypeOK
    <2> QED
      BY <1>1, <1>2, <2>1, <2>2 DEF NewSoftInv, Logged
  <1>10. TypeOK'
    <2>1. at' \in 1..Len(IF phase' = "fk" THEN FkTables ELSE Tables)
      BY <1>1, Lists
    <2> QED
      BY <1>0, <1>1, <1>2, <1>8, <2>1 DEF TypeOK
  <1>11. IdsStaged' = IdsStaged /\ RefsStaged' = RefsStaged
    BY <1>1 DEF IdsStaged, RefsStaged
  <1>12. TransactionInv' /\ MapInv' /\ LockInv'
    BY <1>0, <1>1, <1>2, <1>11
    DEF TransactionInv, StageInv, MapInv, LockInv, deterministic_legacy_id
  <1>13. NewIdInv' /\ NewRefInv'
    BY <1>0, <1>1, <1>2, <1>11 DEF StageInv, NewIdInv, NewRefInv, Mapped
  <1> QED
    BY <1>2, <1>9, <1>10, <1>12, <1>13 DEF IInv, RowsInv

(* All tables are staged, and what was staged are the rows' new names.      *)
LEMMA CommitStep == IInv /\ Commit => IInv'
  <1> SUFFICES ASSUME IInv, Commit, ~Fail PROVE IInv'
    BY FailStep
  <1>0. TypeOK /\ TransactionInv /\ StageInv /\ RowsInv /\ ReportInv
    BY DEF IInv, RowsInv, StageInv
  <1>1. /\ phase = "commit" /\ schema' = "partitioned"
        /\ id' = newId /\ ref' = newRef /\ soft' = newSoft
        /\ script' = "validate" /\ End
        /\ UNCHANGED <<app, rows, born, target, subject, aborts, report>>
    BY DEF Commit
  <1>2. /\ phase' = "none" /\ at' = 1 /\ map' = {} /\ locked' = {}
        /\ newId' = NoValues /\ newRef' = NoValues /\ newSoft' = NoValues
    BY <1>1 DEF End
  <1>3. IdsStaged = ToSet(Tables) /\ RefsStaged = ToSet(FkTables)
    BY <1>1 DEF IdsStaged, RefsStaged
  <1>4. NoValues \in [Row -> Value] /\ Len(Tables) > 0 /\ Len(Tables) \in Nat
    BY Lists DEF NoValues, Value
  <1>5. TypeOK'
    BY <1>0, <1>1, <1>2, <1>4 DEF TypeOK
  <1>6. \A r : Name(r)' = IF TableOf[r] \notin ToSet(Tables) THEN Null ELSE New(r)
    BY <1>1 DEF Name, New
  <1>7. IdInv'
    <2>1. \A r \in rows : newId[r] = IF TableOf[r] \notin ToSet(Tables) THEN Null ELSE New(r)
      BY <1>0, <1>3 DEF StageInv, NewIdInv, TypeOK
    <2> QED
      BY <1>1, <1>6, <2>1 DEF IdInv
  <1>8. RefInv'
    <2>1. ASSUME NEW r \in rows
          PROVE  IF target[r] = NoRow THEN newRef[r] = Null
                 ELSE /\ target[r] \in Of(Parent[TableOf[r]])'
                      /\ TableOf[target[r]] \in ToSet(Tables) /\ newRef[r] = New(target[r])
      <3>1. r \in Row /\ TableOf[r] \in Table
        BY <1>0, Names DEF TypeOK
      <3>2. CASE target[r] = NoRow
        BY <1>0, <3>1, <3>2 DEF StageInv, NewRefInv
      <3>3. CASE target[r] # NoRow
        <4>1. /\ target[r] \in rows /\ TableOf[target[r]] = Parent[TableOf[r]]
              /\ Parent[TableOf[r]] \in ToSet(Tables)
          BY <1>1, <3>3, OldNames
        <4>2. TableOf[r] \in RefsStaged
          BY <1>3, <3>1, <4>1, Parents, Lists
        <4>3. newRef[r] = New(target[r])
          BY <1>0, <3>3, <4>2 DEF StageInv, NewRefInv
        <4>4. target[r] \in Of(Parent[TableOf[r]])'
          BY <1>1, <4>1 DEF Of
        <4> QED
          BY <3>3, <4>1, <4>3, <4>4
      <3> QED
        BY <3>2, <3>3
    <2> QED
      BY <1>1, <1>6, <2>1 DEF RefInv
  <1>9. SoftInv'
    <2>1. ASSUME NEW r \in rows
          PROVE  IF subject[r] = NoRow THEN newSoft[r] = Null
                 ELSE /\ TableOf[r] = Log /\ subject[r] \in born
                      /\ TableOf[subject[r]] \in ToSet(Tables)
                      /\ \/ newSoft[r] = New(subject[r])
                         \/ subject[r] \notin rows /\ newSoft[r] = OldId(subject[r])
      <3>1. IF subject[r] = NoRow THEN newSoft[r] = Null
            ELSE \/ newSoft[r] = New(subject[r])
                 \/ subject[r] \notin rows /\ newSoft[r] = OldId(subject[r])
        BY <1>0, <1>1 DEF StageInv, NewSoftInv, Logged
      <3>2. subject[r] # NoRow => /\ TableOf[r] = Log /\ subject[r] \in born
                                  /\ TableOf[subject[r]] \in ToSet(Tables)
        BY <1>0 DEF RowsInv, SoftInv
      <3> QED
        BY <3>1, <3>2
    <2>2. \A q : OldId(q)' = OldId(q)
      BY DEF OldId
    <2> QED
      BY <1>1, <1>6, <2>1, <2>2 DEF SoftInv, Logged
  <1>10. ReportInv' /\ TransactionInv' /\ MapInv'
    BY <1>0, <1>1, <1>2 DEF ReportInv, TransactionInv, MapInv
  <1>11. LockInv' /\ NewIdInv' /\ NewRefInv' /\ NewSoftInv'
    <2>1. IdsStaged' = {} /\ RefsStaged' = {}
      BY <1>2 DEF IdsStaged, RefsStaged
    <2> QED
      BY <1>2, <2>1 DEF LockInv, NewIdInv, NewRefInv, NewSoftInv, NoValues
  <1> QED
    BY <1>5, <1>7, <1>8, <1>9, <1>10, <1>11 DEF IInv

-----------------------------------------------------------------------------
(* The script                                                               *)

LEMMA RunStep == IInv /\ (Run \/ RunValidateOnly) => IInv'
  <1> SUFFICES ASSUME IInv, Run \/ RunValidateOnly PROVE IInv'
    OBVIOUS
  <1>0. TypeOK /\ TransactionInv /\ StageInv /\ RowsInv /\ ReportInv
    BY DEF IInv, RowsInv, StageInv
  <1>1. /\ UNCHANGED <<app, database, at, map, locked, newId, newRef, newSoft, aborts, report>>
        /\ script \in {"idle", "failed", "exported"}
        /\ \/ schema = "integer" /\ script' = "upgrade" /\ phase' = "seed"
           \/ script' \in {"validate", "failed"} /\ phase' = phase
    BY DEF Run, RunValidateOnly, revision
  <1>2. /\ phase = "none" /\ at = 1 /\ map = {} /\ locked = {}
        /\ newId = NoValues /\ newRef = NoValues /\ newSoft = NoValues
        /\ phase' \in {"none", "seed"}
    BY <1>0, <1>1 DEF TransactionInv
  <1>3. UNCHANGED <<app, schema, rows, born, id, ref, soft, target, subject, report>>
    BY <1>1 DEF database
  <1>4. TypeOK'
    <2>1. phase' # "fk" /\ 1 \in 1..Len(Tables)
      BY <1>2, Lists
    <2> QED
      BY <1>0, <1>1, <1>2, <1>3, <2>1 DEF TypeOK
  <1>5. RowsInv' /\ ReportInv'
    BY <1>0, <1>1, <1>3, SameRows DEF ReportInv
  <1>6. TransactionInv' /\ MapInv'
    BY <1>1, <1>2, <1>3 DEF TransactionInv, MapInv
  <1>7. LockInv' /\ NewIdInv' /\ NewRefInv' /\ NewSoftInv'
    <2>1. IdsStaged' = {} /\ RefsStaged' = {}
      BY <1>2 DEF IdsStaged, RefsStaged
    <2> QED
      BY <1>1, <1>2, <2>1 DEF LockInv, NewIdInv, NewRefInv, NewSoftInv, NoValues
  <1> QED
    BY <1>4, <1>5, <1>6, <1>7 DEF IInv, RowsInv

(* An identifier of a row that is there means that row.                     *)
LEMMA Meaning ==
  ASSUME IInv, NEW q \in rows, TableOf[q] \in ToSet(Tables)
  PROVE  Meant(TableOf[q], Name(q)) = {q}
  <1>1. \A r \in rows : r \in Row /\ id[r] = Name(r)
    BY DEF IInv, TypeOK, IdInv
  <1>2. q \in Meant(TableOf[q], Name(q))
    BY <1>1 DEF Meant, Of
  <1>3. ASSUME NEW r \in Meant(TableOf[q], Name(q))
        PROVE  r = q
    <2>1. r \in rows /\ TableOf[r] = TableOf[q] /\ id[r] = Name(q)
      BY DEF Meant, Of
    <2>2. Name(r) = Name(q) /\ r \in Row /\ q \in Row
      BY <1>1, <2>1
    <2>3. OldId(r) = OldId(q) \/ New(r) = New(q)
      BY <2>1, <2>2 DEF Name
    <2> QED
      BY <2>1, <2>2, <2>3, Names
  <1> QED
    BY <1>2, <1>3

(* An identifier of a row that is gone means no row.                        *)
LEMMA NoMeaning ==
  ASSUME IInv, NEW q \in Row \ rows, NEW v \in {Name(q), OldId(q)},
         TableOf[q] \in ToSet(Tables)
  PROVE  Meant(TableOf[q], v) = {}
  <1> SUFFICES ASSUME NEW r \in Meant(TableOf[q], v) PROVE FALSE
    OBVIOUS
  <1>1. r \in rows /\ TableOf[r] = TableOf[q] /\ id[r] = v
    BY DEF Meant, Of
  <1>2. r \in Row /\ id[r] \in {OldId(r), New(r)} /\ (schema = "integer" => id[r] = OldId(r))
    BY <1>1 DEF IInv, TypeOK, IdInv, Name
  <1>3. v \in {OldId(q), New(q)}
    BY DEF Name
  <1>4. New(r) # OldId(q) /\ OldId(r) # New(q)
    BY <1>2, Names
  <1>5. OldId(r) = OldId(q) \/ New(r) = New(q)
    BY <1>1, <1>2, <1>3, <1>4
  <1> QED
    BY <1>1, <1>2, <1>5, Names

LEMMA FollowInv == IInv => ReferencesFollow
  <1> SUFFICES ASSUME IInv, NEW r \in rows
               PROVE  /\ target[r] # NoRow => Meant(Parent[TableOf[r]], ref[r]) = {target[r]}
                      /\ subject[r] # NoRow =>
                           Meant(TableOf[subject[r]], soft[r]) = {subject[r]} \cap rows
    BY DEF ReferencesFollow
  <1>0. rows \subseteq Row /\ born \subseteq Row
    BY DEF IInv, TypeOK
  <1>1. ASSUME target[r] # NoRow
        PROVE  Meant(Parent[TableOf[r]], ref[r]) = {target[r]}
    <2>1. /\ target[r] \in rows /\ TableOf[target[r]] = Parent[TableOf[r]]
          /\ ref[r] = Name(target[r])
      BY <1>1 DEF IInv, RefInv, Of
    <2>2. TableOf[target[r]] \in ToSet(Tables)
      BY <1>0, <2>1, Names, Parents, NullAssumption
    <2>3. PICK q \in rows : q = target[r]
      BY <2>1
    <2>4. Meant(TableOf[q], Name(q)) = {q}
      BY <2>2, <2>3, Meaning
    <2> QED
      BY <2>1, <2>3, <2>4
  <1>2. ASSUME subject[r] # NoRow
        PROVE  Meant(TableOf[subject[r]], soft[r]) = {subject[r]} \cap rows
    <2>1. PICK q \in Row : q = subject[r]
      BY <1>0, <1>2 DEF IInv, SoftInv
    <2>2. TableOf[q] \in ToSet(Tables) /\ Logged(r, soft[r], Name(q))
      BY <1>2, <2>1 DEF IInv, SoftInv
    <2>3. CASE q \in rows
      <3>1. soft[r] = Name(q)
        BY <2>1, <2>2, <2>3 DEF Logged
      <3>2. Meant(TableOf[q], Name(q)) = {q}
        BY <2>2, <2>3, Meaning
      <3> QED
        BY <2>1, <2>3, <3>1, <3>2
    <2>4. CASE q \notin rows
      <3>1. soft[r] \in {Name(q), OldId(q)}
        BY <2>1, <2>2 DEF Logged
      <3>2. Meant(TableOf[q], soft[r]) = {}
        BY <2>2, <2>4, <3>1, NoMeaning
      <3> QED
        BY <2>1, <2>4, <3>2
    <2> QED
      BY <2>3, <2>4
  <1> QED
    BY <1>1, <1>2

(* What follows leads somewhere, so that only logs of rows that are gone    *)
(* are complained about.                                                    *)
LEMMA ValidateStep == IInv /\ Validate => IInv'
  <1> SUFFICES ASSUME IInv, Validate PROVE IInv'
    OBVIOUS
  <1>0. TypeOK /\ TransactionInv /\ StageInv /\ RowsInv /\ RefInv /\ SoftInv
    BY DEF IInv, RowsInv, StageInv
  <1>1. /\ script = "validate" /\ report' = Orphans \cup SoftOrphans
        /\ script' \in {"exported", "failed"}
        /\ UNCHANGED <<app, database, revision, aborts>>
    BY DEF Validate
  <1>2. UNCHANGED <<app, schema, rows, born, id, ref, soft, target, subject>>
    BY <1>1 DEF database
  <1>3. ASSUME NEW r \in report'
        PROVE  r \in rows /\ TableOf[r] = Log /\ subject[r] \in born \ rows
    <2>1. ReferencesFollow
      BY FollowInv
    <2>2. r \in rows
      BY <1>1 DEF Orphans, SoftOrphans
    <2>3. r \notin Orphans
      <3>1. target[r] = NoRow => ref[r] = Null
        BY <1>0, <2>2 DEF RefInv
      <3>2. target[r] # NoRow => Meant(Parent[TableOf[r]], ref[r]) # {}
        BY <2>1, <2>2 DEF ReferencesFollow
      <3> QED
        BY <3>1, <3>2 DEF Orphans
    <2>4. soft[r] # Null /\ Meant(TableOf[subject[r]], soft[r]) = {}
      BY <1>1, <2>3 DEF SoftOrphans
    <2>5. subject[r] # NoRow /\ TableOf[r] = Log /\ subject[r] \in born
      BY <1>0, <2>2, <2>4 DEF SoftInv
    <2>6. {subject[r]} \cap rows = {}
      BY <2>1, <2>2, <2>4, <2>5 DEF ReferencesFollow
    <2> QED
      BY <2>2, <2>5, <2>6
  <1>4. ReportInv'
    BY <1>2, <1>3 DEF ReportInv
  <1>5. phase = "none" /\ UNCHANGED <<phase, at, map, locked, newId, newRef, newSoft>>
    BY <1>0, <1>1 DEF TransactionInv, revision
  <1>6. TypeOK'
    <2>1. report' \subseteq born
      BY <1>0, <1>3 DEF TypeOK
    <2> QED
      BY <1>0, <1>1, <1>2, <1>5, <2>1 DEF TypeOK
  <1>7. RowsInv' /\ StageInv'
    BY <1>0, <1>1, <1>2, SameRows, SameRevision
  <1>8. TransactionInv'
    BY <1>0, <1>1, <1>2, <1>5 DEF TransactionInv
  <1> QED
    BY <1>4, <1>6, <1>7, <1>8 DEF IInv, RowsInv, StageInv

-----------------------------------------------------------------------------
LEMMA Preserved == IInv /\ [Next]_vars => IInv'
  <1> SUFFICES ASSUME IInv, [Next]_vars PROVE IInv'
    OBVIOUS
  <1>1. ASSUME NEW r \in Row, NEW p \in rows \cup {NoRow}, NEW s \in rows \cup {NoRow},
               Insert(r, p, s)
        PROVE  IInv'
    BY <1>1, InsertStep
  <1>2. ASSUME NEW r \in Row, Delete(r) PROVE IInv'
    BY <1>2, DeleteStep
  <1>3. CASE Start \/ Stop
    BY <1>3, ModeStep
  <1>4. CASE Upgrade
    BY <1>4, SeedTableStep, StageIdStep, StageRefStep, RewriteStep, CommitStep DEF Upgrade
  <1>5. CASE Abort
    BY <1>5, AbortStep
  <1>6. CASE Run \/ RunValidateOnly
    BY <1>6, RunStep
  <1>7. CASE Validate
    BY <1>7, ValidateStep
  <1>8. CASE UNCHANGED vars
    <2>1. /\ UNCHANGED <<app, database, script, revision, aborts, report>>
          /\ UNCHANGED <<schema, rows, born, id, ref, soft, target, subject>>
          /\ UNCHANGED <<phase, at, map, locked, newId, newRef, newSoft>>
      BY <1>8 DEF vars, database, revision
    <2>2. TypeOK'
      BY <2>1 DEF IInv, TypeOK
    <2>3. RowsInv' /\ StageInv'
      BY <2>1, SameRows, SameRevision DEF IInv, RowsInv, StageInv
    <2>4. ReportInv' /\ TransactionInv'
      BY <2>1 DEF IInv, ReportInv, TransactionInv
    <2> QED
      BY <2>2, <2>3, <2>4 DEF IInv, RowsInv, StageInv
  <1> QED
    BY <1>1, <1>2, <1>3, <1>4, <1>5, <1>6, <1>7, <1>8 DEF Next

(* The foreign keys of the new columns lead somewhere.                      *)
LEMMA ConstraintsInv == IInv /\ phase = "commit" => ConstraintsHold
  <1> SUFFICES ASSUME IInv, phase = "commit", NEW r \in rows, newRef[r] # Null
               PROVE  \E q \in Of(Parent[TableOf[r]]) : newId[q] = newRef[r]
    BY DEF ConstraintsHold
  <1>1. IdsStaged = ToSet(Tables) /\ r \in Row
    BY DEF IdsStaged, IInv, TypeOK
  <1>2. TableOf[r] \in RefsStaged
    BY <1>1 DEF IInv, NewRefInv
  <1>3. target[r] # NoRow /\ newRef[r] = New(target[r])
    BY <1>2 DEF IInv, NewRefInv
  <1>4. PICK q \in rows : q = target[r] /\ TableOf[q] = Parent[TableOf[r]]
                         /\ Parent[TableOf[r]] \in ToSet(Tables)
    BY <1>3, OldNames
  <1>5. newId[q] = New(q)
    BY <1>1, <1>4 DEF IInv, NewIdInv
  <1> QED
    BY <1>3, <1>4, <1>5 DEF Of

LEMMA Inductive == Spec => []IInv
  BY Starts, Preserved, PTL DEF Spec

(* The type invariant of the migration.                                     *)
THEOREM TypeCorrect == Spec => []TypeOK
  <1>1. IInv => TypeOK
    BY DEF IInv
  <1> QED
    BY <1>1, Inductive, PTL

(* However requests of an app that was not stopped, interruptions, starts   *)
(* and runs of the script interleave, a reference leads to the row it was   *)
(* written for, and the reference of a log to a deleted row to none.        *)
THEOREM Follow == Spec => []ReferencesFollow
  BY FollowInv, Inductive, PTL

(* Whatever validate_partitioned_ids complains about is a log of a row that *)
(* was deleted: it misses its aim, but never finds a reference the revision *)
(* has broken, since it breaks none.                                        *)
THEOREM Validation == Spec => []ValidationFindsOnlyDanglers
  <1>1. IInv => ValidationFindsOnlyDanglers
    BY DEF IInv, ReportInv, ValidationFindsOnlyDanglers
  <1> QED
    BY <1>1, Inductive, PTL

(* Where the revision makes the foreign keys again (_recreate_constraints), *)
(* they hold: whatever the app wrote meanwhile, no revision that has come   *)
(* so far is turned back by one.                                            *)
THEOREM Constraints == Spec => [](phase = "commit" => ConstraintsHold)
  BY ConstraintsInv, Inductive, PTL
=============================================================================
