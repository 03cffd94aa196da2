------------------------- MODULE ReceiptStoreProofs -------------------------
(***************************************************************************)
(* Theorems about ReceiptStore, for any set of threads and archived        *)
(* versions and any bounds.                                                *)
(*                                                                         *)
(* FrontierAgrees is not inductive: a rollback restores the frontier from  *)
(* a frame and the rows from a savepoint, so the two stacks must agree     *)
(* level by level, and a commit at the outermost level must find the rows  *)
(* it began with still in the file.                                        *)
(***************************************************************************)
EXTENDS ReceiptStore, SequenceTheorems, TLAPS

(* The rows chain from the anchor and end at t; the schema is s. *)
Good(d, t, s) ==
    /\ Linked(d.rows, d.anchor)
    /\ d.rows = <<>> => d.anchor = Genesis
    /\ t = StreamHash(d)
    /\ s = d.schema

Savepoint == [name : Nat, image : Database, outermost : BOOLEAN]
Frame == [tip : Hash, schema : Nat]

(* Savepoint k was taken for block k, when the frontier was what frame k saved. *)
StacksAgree ==
    /\ Len(savepoints) = Len(frames)
    /\ \A k \in 1..Len(frames) :
          /\ savepoints[k].name = k
          /\ savepoints[k].outermost = (k = 1)
          /\ Good(savepoints[k].image, frames[k].tip, frames[k].schema)

(* With no block open nothing is pending; the outermost savepoint is the file. *)
FileAgrees ==
    /\ frames = <<>> => working = durable /\ inTx = FALSE /\ owner = NoOne
    /\ frames # <<>> => savepoints[1].image = durable /\ inTx = TRUE

IInv ==
    /\ TypeOK
    /\ Good(working, tip, schemaHash)
    /\ Linked(durable.rows, durable.anchor)
    /\ durable.rows = <<>> => durable.anchor = Genesis
    /\ StacksAgree
    /\ FileAgrees
    /\ OnlyReportedIsDurable

(***************************************************************************)
(* Every chain the file ever holds verifies from its anchor: what          *)
(* verify_stream_hash and verify_from_seal check on reopening.             *)
(***************************************************************************)
DurableVerifies == Linked(durable.rows, durable.anchor)

-----------------------------------------------------------------------------
(* Lemmas about databases.                                                  *)

Ops == {"receipt", "schema_migrated", "epoch_sealed", "epoch_pruned"}

(* Hashes of stored rows are hashes. *)
LEMMA HashesTyped ==
    ASSUME NEW d \in Database
    PROVE  /\ \A i \in 1..Len(d.rows) : d.rows[i].hr \in Hash
           /\ Hashes(d) \subseteq Hash
<1>1. d.rows \in Seq(Row)
  BY DEF Database
<1>2. \A i \in 1..Len(d.rows) : d.rows[i] \in Row
  BY <1>1
<1>3. \A i \in 1..Len(d.rows) : d.rows[i].hr \in Hash
  BY <1>2 DEF Row
<1> QED  BY <1>3, Zenon DEF Hashes

(* Archiving leaves the rest of the database as it was. *)
LEMMA UpdateArchive ==
    ASSUME NEW d \in Database, NEW a, NEW e, e = [d EXCEPT !.archive = a]
    PROVE  e = [rows |-> d.rows, schema |-> d.schema, archive |-> a, anchor |-> d.anchor]
BY DEF Database

(* The same for the rows and the anchor together. *)
LEMMA UpdateRows ==
    ASSUME NEW d \in Database, NEW r, NEW x, NEW e,
           e = [d EXCEPT !.rows = r, !.anchor = x]
    PROVE  e = [rows |-> r, schema |-> d.schema, archive |-> d.archive, anchor |-> x]
BY DEF Database

(***************************************************************************)
(* The INSERT of write(): a row whose parent is the frontier extends a     *)
(* good chain to a good chain that ends at the new row.                    *)
(***************************************************************************)
LEMMA InsertGood ==
    ASSUME NEW d \in Database, NEW t, NEW s, Good(d, t, s),
           NEW h \in Hash, NEW op \in Ops, NEW ref \in Hash
    PROVE  /\ Insert(d, h, t, op, ref) \in Database
           /\ Good(Insert(d, h, t, op, ref), h, s)
           /\ Hashes(Insert(d, h, t, op, ref)) = Hashes(d) \cup {h}
<1> DEFINE row == [hr |-> h, parent |-> t, op |-> op, ref |-> ref]
           e == Insert(d, h, t, op, ref)
<1>1. t \in Hash
  <2>1. d.rows \in Seq(Row)
    BY DEF Database
  <2>2. CASE d.rows = <<>>
    BY <2>2 DEF Good, StreamHash, Hash, Genesis
  <2>3. CASE d.rows # <<>>
    <3>1. d.rows[Len(d.rows)] \in Row
      BY <2>1, <2>3
    <3> QED  BY <2>3, <3>1 DEF Good, StreamHash, Row
  <2> QED  BY <2>2, <2>3
<1>2. row \in Row
  BY <1>1 DEF Row, Ops
<1>3. e = [rows |-> Append(d.rows, row), schema |-> d.schema,
           archive |-> d.archive, anchor |-> d.anchor]
  <2> DEFINE rs == Append(d.rows, row)
  <2>1. e = [d EXCEPT !.rows = rs]
    BY DEF Insert
  <2> HIDE DEF e, rs
  <2>2. e = [rows |-> rs, schema |-> d.schema, archive |-> d.archive, anchor |-> d.anchor]
    BY <2>1 DEF Database
  <2> QED  BY <2>2 DEF rs
<1>4. e \in Database
  BY <1>2, <1>3 DEF Database
<1>5. /\ Len(e.rows) = Len(d.rows) + 1
      /\ Len(d.rows) \in Nat
      /\ e.rows[Len(d.rows) + 1] = row
      /\ \A i \in 1..Len(d.rows) : e.rows[i] = d.rows[i]
  BY <1>2, <1>3 DEF Database
<1>6. Linked(e.rows, e.anchor)
  <2> SUFFICES ASSUME NEW i \in 1..Len(e.rows)
               PROVE  e.rows[i].parent = IF i = 1 THEN e.anchor ELSE e.rows[i - 1].hr
    BY DEF Linked
  <2>1. CASE i \in 1..Len(d.rows)
    <3>1. d.rows[i].parent = IF i = 1 THEN d.anchor ELSE d.rows[i - 1].hr
      BY <2>1 DEF Good, Linked
    <3>2. i # 1 => i - 1 \in 1..Len(d.rows)
      BY <1>5, <2>1
    <3> QED  BY <1>3, <1>5, <2>1, <3>1, <3>2
  <2>2. CASE i = Len(d.rows) + 1
    <3>1. e.rows[i].parent = t
      BY <1>5, <2>2
    <3>2. CASE d.rows = <<>>
      BY <1>3, <1>5, <2>2, <3>1, <3>2 DEF Good, StreamHash
    <3>3. CASE d.rows # <<>>
      <4>1. Len(d.rows) \in 1..Len(d.rows)
        BY <3>3 DEF Database
      <4>2. t = d.rows[Len(d.rows)].hr
        BY <3>3 DEF Good, StreamHash
      <4> QED  BY <1>5, <2>2, <3>1, <4>1, <4>2
    <3> QED  BY <3>2, <3>3
  <2> QED  BY <1>5, <2>1, <2>2
<1>7. e.rows # <<>>
  BY <1>5
<1>8. Good(e, h, s)
  BY <1>3, <1>5, <1>6, <1>7 DEF Good, StreamHash
<1>9. Hashes(e) = Hashes(d) \cup {h}
  BY <1>5, SMTT(30) DEF Hashes
<1> QED  BY <1>4, <1>8, <1>9

(***************************************************************************)
(* Deleting the prefix up to a seal: if the retained rows chain from the   *)
(* seal and are not empty, the database is good from its new anchor.       *)
(***************************************************************************)
LEMMA PruneGood ==
    ASSUME NEW d \in Database, NEW t, NEW s, Good(d, t, s),
           NEW i \in Nat, i < Len(d.rows), NEW e,
           e.rows = SubSeq(d.rows, i + 1, Len(d.rows)), e.schema = d.schema,
           Linked(e.rows, e.anchor)
    PROVE  Good(e, t, s)
<1>1. d.rows \in Seq(Row) /\ Len(d.rows) \in Nat
  BY DEF Database
<1>2. /\ Len(e.rows) = Len(d.rows) - i
      /\ \A j \in 1..(Len(d.rows) - i) : e.rows[j] = d.rows[i + j]
  BY <1>1
<1>3. Len(e.rows) \in 1..(Len(d.rows) - i) /\ i + Len(e.rows) = Len(d.rows)
  BY <1>1, <1>2
<1>4. e.rows[Len(e.rows)] = d.rows[Len(d.rows)]
  BY <1>2, <1>3
<1>5. Len(e.rows) # 0 /\ Len(d.rows) # 0
  BY <1>1, <1>3
<1>6. e.rows # <<>> /\ d.rows # <<>>
  <2>1. Len(<<>>) = 0
    OBVIOUS
  <2> QED  BY <1>5, <2>1, Zenon
<1> QED  BY <1>4, <1>6 DEF Good, StreamHash

-----------------------------------------------------------------------------
(* The steps.                                                               *)

(***************************************************************************)
(* A write or governed transition that moves the connection to a good      *)
(* database db, at once when no block is open and deferred when one is,    *)
(* keeps the invariant if what becomes durable has been reported.          *)
(***************************************************************************)
LEMMA Advance ==
    ASSUME IInv, NEW db \in Database, Good(db, tip', schemaHash'),
           tip' \in Hash, schemaHash' \in Nat, hashes' \in Nat,
           IF frames = <<>> THEN Commit(db) ELSE Defer(db),
           UNCHANGED <<frames, owner>>,
           told' \in SUBSET Hash, told \subseteq told',
           frames = <<>> => Hashes(db) \subseteq told'
    PROVE  IInv'
<1>1. working' = db
  BY DEF Commit, Defer
<1>2. CASE frames = <<>>
  <2>1. durable' = db /\ inTx' = FALSE /\ savepoints' = <<>> /\ frames' = <<>>
    BY <1>2 DEF Commit
  <2>2. TypeOK'
    <3>1. savepoints' \in Seq(Savepoint)
      BY <2>1
    <3> QED  BY <1>1, <2>1, <3>1 DEF IInv, TypeOK, Savepoint
  <2>3. StacksAgree'
    BY <2>1 DEF StacksAgree
  <2>4. FileAgrees'
    BY <1>1, <1>2, <2>1 DEF IInv, FileAgrees
  <2>5. OnlyReportedIsDurable'
    BY <1>2, <2>1 DEF OnlyReportedIsDurable, Hashes
  <2>6. Good(working, tip, schemaHash)'
    BY <1>1 DEF Good, Linked, StreamHash, Genesis
  <2>7. Linked(durable.rows, durable.anchor)' /\ (durable.rows = <<>> => durable.anchor = Genesis)'
    BY <2>1 DEF Good, Linked, Genesis
  <2> QED  BY <2>2, <2>3, <2>4, <2>5, <2>6, <2>7 DEF IInv
<1>3. CASE frames # <<>>
  <2>1. /\ durable' = durable /\ inTx' = TRUE
        /\ savepoints' = savepoints /\ frames' = frames /\ owner' = owner
    BY <1>3 DEF Defer
  <2>2. TypeOK'
    BY <1>1, <2>1 DEF IInv, TypeOK
  <2>3. StacksAgree'
    BY <2>1 DEF IInv, StacksAgree, Good, Linked, StreamHash, Genesis
  <2>4. FileAgrees'
    BY <1>3, <2>1 DEF IInv, FileAgrees
  <2>5. OnlyReportedIsDurable'
    BY <2>1 DEF IInv, OnlyReportedIsDurable, Hashes
  <2>6. Good(working, tip, schemaHash)'
    BY <1>1 DEF Good, Linked, StreamHash, Genesis
  <2>7. Linked(durable.rows, durable.anchor)' /\ (durable.rows = <<>> => durable.anchor = Genesis)'
    BY <2>1 DEF IInv, Linked, Genesis
  <2> QED  BY <2>2, <2>3, <2>4, <2>5, <2>6, <2>7 DEF IInv
<1> QED  BY <1>2, <1>3

(* write() extends the chain by one receipt at the frontier. *)
LEMMA WriteStep == ASSUME IInv, NEW t \in Threads, Write(t) PROVE IInv'
<1> DEFINE h == hashes + 1
           db == Insert(working, h, tip, "receipt", Genesis)
<1>1. working \in Database /\ Good(working, tip, schemaHash) /\ h \in Hash
      /\ told \in SUBSET Hash /\ schemaHash \in Nat
  BY DEF IInv, TypeOK, Hash
<1>2. /\ db \in Database
      /\ Good(db, h, schemaHash)
      /\ Hashes(db) = Hashes(working) \cup {h}
  <2> HIDE DEF h
  <2>1. "receipt" \in Ops /\ Genesis \in Hash
    BY DEF Ops, Genesis, Hash
  <2> QED  BY <1>1, <2>1, InsertGood
<1>3. /\ IF frames = <<>> THEN Commit(db) ELSE Defer(db)
      /\ told' = IF owner = t THEN told ELSE told \cup {h}
      /\ tip' = h /\ hashes' = h
      /\ UNCHANGED <<schemaHash, frames, owner>>
  BY DEF Write
<1> HIDE DEF db
<1>4. frames = <<>> => Hashes(db) \subseteq told'
  <2> SUFFICES ASSUME frames = <<>> PROVE Hashes(db) \subseteq told'
    OBVIOUS
  <2>1. owner # t /\ working = durable
    BY NoOneAssumption DEF IInv, FileAgrees
  <2> QED  BY <1>2, <1>3, <2>1 DEF IInv, OnlyReportedIsDurable
<1>5. told' \in SUBSET Hash /\ told \subseteq told'
  BY <1>1, <1>3
<1> HIDE DEF h
<1>6. Good(db, tip', schemaHash') /\ tip' \in Hash /\ hashes' \in Nat /\ schemaHash' \in Nat
  BY <1>1, <1>2, <1>3 DEF Hash
<1> QED  BY <1>2, <1>3, <1>4, <1>5, <1>6, Advance

(* migrate_schema: the altered database is good, and so is its extension. *)
LEMMA MigrateStep == ASSUME IInv, NEW t \in Threads, MigrateSchema(t) PROVE IInv'
<1> DEFINE h == hashes + 1
           altered == [working EXCEPT !.schema = @ + 1]
           db == Insert(altered, h, tip, "schema_migrated", Genesis)
<1>1. working \in Database /\ Good(working, tip, schemaHash) /\ h \in Hash
      /\ told \in SUBSET Hash
  BY DEF IInv, TypeOK, Hash
<1>2. altered = [rows |-> working.rows, schema |-> working.schema + 1,
                 archive |-> working.archive, anchor |-> working.anchor]
  BY <1>1 DEF Database
<1>3. /\ altered.rows = working.rows
      /\ altered.anchor = working.anchor
      /\ altered.schema = working.schema + 1
  BY <1>2
<1>4. altered \in Database
  BY <1>1, <1>2 DEF Database
<1>5. /\ Seam(db) /\ Report(db)
      /\ tip' = h /\ hashes' = h /\ schemaHash' = db.schema
      /\ UNCHANGED <<frames, owner>>
  BY DEF MigrateSchema
<1> HIDE DEF altered
<1>6. Good(altered, tip, altered.schema)
  BY <1>1, <1>3 DEF Good, StreamHash
<1>7. /\ db \in Database
      /\ Good(db, h, altered.schema)
      /\ Hashes(db) = Hashes(altered) \cup {h}
  <2> HIDE DEF h
  <2>1. "schema_migrated" \in Ops /\ Genesis \in Hash
    BY DEF Ops, Genesis, Hash
  <2> QED  BY <1>1, <1>4, <1>6, <2>1, InsertGood
<1> HIDE DEF db, h
<1>8. Good(db, tip', schemaHash') /\ tip' \in Hash /\ schemaHash' \in Nat /\ hashes' \in Nat
  BY <1>1, <1>5, <1>7 DEF Good, Database, Hash
<1>9. IF frames = <<>> THEN Commit(db) ELSE Defer(db)
  BY <1>5 DEF Seam, IInv, FileAgrees
<1>10. Hashes(db) \subseteq Hash
  BY <1>7, HashesTyped
<1>11. /\ told' \in SUBSET Hash /\ told \subseteq told'
       /\ frames = <<>> => Hashes(db) \subseteq told'
  BY <1>1, <1>5, <1>10 DEF Report
<1> QED  BY <1>5, <1>7, <1>8, <1>9, <1>11, Advance

(* seal_and_prune_epoch commits only a retained chain that verifies from the seal. *)
LEMMA PruneStep ==
    ASSUME IInv, NEW t \in Threads, NEW i \in 1..Len(working.rows),
           SealAndPruneEpoch(t, i)
    PROVE  IInv'
<1> DEFINE seal == working.rows[i].hr
           h == hashes + 1
           sealed == Insert(working, h, tip, "epoch_sealed", seal)
           pruned == Insert(sealed, h + 1, h, "epoch_pruned", seal)
           kept == SubSeq(pruned.rows, i + 1, Len(pruned.rows))
           db == [pruned EXCEPT !.rows = kept, !.anchor = seal]
<1>1. working \in Database /\ Good(working, tip, schemaHash) /\ h \in Hash /\ h + 1 \in Hash
      /\ told \in SUBSET Hash /\ schemaHash \in Nat
  BY DEF IInv, TypeOK, Hash
<1>2. seal \in Hash
  BY <1>1, HashesTyped
<1>3. "epoch_sealed" \in Ops /\ "epoch_pruned" \in Ops
  BY DEF Ops
<1>4. /\ Linked(kept, seal) /\ Seam(db) /\ Report(db)
      /\ tip' = h + 1 /\ hashes' = h + 1
      /\ UNCHANGED <<schemaHash, frames, owner>>
  BY DEF SealAndPruneEpoch
<1> HIDE DEF h, seal
<1>5. sealed \in Database /\ Good(sealed, h, schemaHash) /\ Len(sealed.rows) = Len(working.rows) + 1
  <2>1. sealed \in Database /\ Good(sealed, h, schemaHash)
    BY <1>1, <1>2, <1>3, InsertGood
  <2>2. sealed.rows = Append(working.rows, [hr |-> h, parent |-> tip, op |-> "epoch_sealed", ref |-> seal])
    BY <1>1 DEF Insert, Database
  <2>3. working.rows \in Seq(Row)
    BY <1>1 DEF Database
  <2> HIDE DEF sealed
  <2> QED  BY <2>1, <2>2, <2>3
<1> HIDE DEF sealed
<1>6. pruned \in Database /\ Good(pruned, h + 1, schemaHash) /\ Len(pruned.rows) = Len(sealed.rows) + 1
  <2>1. pruned \in Database /\ Good(pruned, h + 1, schemaHash)
    BY <1>1, <1>2, <1>3, <1>5, InsertGood
  <2>2. pruned.rows = Append(sealed.rows, [hr |-> h + 1, parent |-> h, op |-> "epoch_pruned", ref |-> seal])
    BY <1>5 DEF Insert, Database
  <2>3. sealed.rows \in Seq(Row)
    BY <1>5 DEF Database
  <2> HIDE DEF pruned
  <2> QED  BY <2>1, <2>2, <2>3
<1> HIDE DEF pruned
<1>7. i \in Nat /\ i < Len(pruned.rows)
  BY <1>1, <1>5, <1>6 DEF Database
<1>8. db = [rows |-> kept, schema |-> pruned.schema, archive |-> pruned.archive, anchor |-> seal]
  <2> HIDE DEF kept
  <2> QED  BY <1>6, UpdateRows
<1>9. db \in Database /\ Good(db, h + 1, schemaHash)
  <2>1. kept \in Seq(Row)
    BY <1>6, <1>7 DEF Database
  <2>2. db \in Database
    <3> HIDE DEF kept
    <3> QED  BY <1>2, <1>6, <1>8, <2>1 DEF Database
  <2>3. db.rows = kept /\ db.schema = pruned.schema /\ db.anchor = seal
    BY <1>8
  <2>4. db.rows = SubSeq(pruned.rows, i + 1, Len(pruned.rows)) /\ Linked(db.rows, db.anchor)
    BY <1>4, <2>3
  <2> HIDE DEF db, kept
  <2> QED  BY <1>6, <1>7, <2>2, <2>3, <2>4, PruneGood
<1> HIDE DEF db
<1>10. Good(db, tip', schemaHash') /\ tip' \in Hash /\ schemaHash' \in Nat /\ hashes' \in Nat
  BY <1>1, <1>4, <1>9 DEF Hash
<1>11. IF frames = <<>> THEN Commit(db) ELSE Defer(db)
  BY <1>4 DEF Seam, IInv, FileAgrees
<1>12. Hashes(db) \subseteq Hash
  BY <1>9, HashesTyped
<1>13. /\ told' \in SUBSET Hash /\ told \subseteq told'
       /\ frames = <<>> => Hashes(db) \subseteq told'
  BY <1>1, <1>4, <1>12 DEF Report
<1> QED  BY <1>4, <1>9, <1>10, <1>11, <1>13, Advance

(* The archives touch no receipt. *)
LEMMA ArchiveStep ==
    ASSUME IInv, NEW t \in Threads, NEW a \in Archived, SealArchive(t, a) PROVE IInv'
<1> DEFINE db == [working EXCEPT !.archive = @ \cup {a}]
<1>1. working \in Database /\ Good(working, tip, schemaHash)
      /\ told \in SUBSET Hash /\ tip \in Hash /\ schemaHash \in Nat /\ hashes \in Nat
  BY DEF IInv, TypeOK
<1>2. db = [rows |-> working.rows, schema |-> working.schema,
            archive |-> working.archive \cup {a}, anchor |-> working.anchor]
  <2> DEFINE new == working.archive \cup {a}
  <2>1. db = [working EXCEPT !.archive = new]
    OBVIOUS
  <2> HIDE DEF new, db
  <2>2. db = [rows |-> working.rows, schema |-> working.schema,
              archive |-> new, anchor |-> working.anchor]
    BY <1>1, <2>1, UpdateArchive
  <2> QED  BY <2>2 DEF new
<1>3. db.rows = working.rows /\ db.schema = working.schema /\ db.anchor = working.anchor
  BY <1>2
<1>4. db \in Database
  BY <1>1, <1>2 DEF Database
<1>5. /\ frames = <<>> /\ Commit(db)
      /\ UNCHANGED <<tip, schemaHash, frames, owner, hashes, told>>
  BY DEF SealArchive
<1> HIDE DEF db
<1>6. Good(db, tip', schemaHash')
  BY <1>1, <1>3, <1>5 DEF Good, StreamHash
<1>7. Hashes(db) \subseteq told'
  BY <1>3, <1>5 DEF IInv, OnlyReportedIsDurable, FileAgrees, Hashes
<1> QED  BY <1>1, <1>4, <1>5, <1>6, <1>7, Advance

(* Entering a block saves the rows and the frontier together. *)
LEMMA EnterStep == ASSUME IInv, NEW t \in Threads, Enter(t) PROVE IInv'
<1> DEFINE sp == [name |-> Depth + 1, image |-> working, outermost |-> ~inTx]
           fr == [tip |-> tip, schema |-> schemaHash]
<1>1. /\ savepoints' = Append(savepoints, sp)
      /\ frames' = Append(frames, fr)
      /\ inTx' = TRUE /\ owner' = t
      /\ UNCHANGED <<durable, working, tip, schemaHash, hashes, told>>
  BY DEF Enter
<1>2. /\ TypeOK /\ StacksAgree /\ FileAgrees
      /\ savepoints \in Seq(Savepoint) /\ frames \in Seq(Frame)
      /\ Len(frames) \in Nat /\ Len(savepoints) = Len(frames)
  BY DEF IInv, TypeOK, StacksAgree, Savepoint, Frame
<1>3. sp \in Savepoint /\ fr \in Frame
  BY <1>2 DEF TypeOK, Depth, Savepoint, Frame
<1>4. sp.name = Len(frames) + 1 /\ sp.image = working /\ sp.outermost = ~inTx
      /\ fr.tip = tip /\ fr.schema = schemaHash
  BY DEF Depth
<1> HIDE DEF sp, fr
<1>5. savepoints' \in Seq(Savepoint) /\ frames' \in Seq(Frame)
  BY <1>1, <1>2, <1>3
<1>6. TypeOK'
  BY <1>1, <1>2, <1>5 DEF TypeOK, Savepoint, Frame
<1>7. /\ Len(frames') = Len(frames) + 1 /\ Len(savepoints') = Len(frames) + 1
      /\ savepoints'[Len(frames) + 1] = sp /\ frames'[Len(frames) + 1] = fr
      /\ \A k \in 1..Len(frames) : savepoints'[k] = savepoints[k] /\ frames'[k] = frames[k]
  BY <1>1, <1>2, <1>3
<1>8. ~inTx <=> Len(frames) = 0
  BY <1>2 DEF FileAgrees
<1>9. StacksAgree'
  <2> SUFFICES ASSUME NEW k \in 1..Len(frames')
               PROVE  /\ savepoints'[k].name = k
                      /\ savepoints'[k].outermost = (k = 1)
                      /\ Good(savepoints'[k].image, frames'[k].tip, frames'[k].schema)
    BY <1>7 DEF StacksAgree
  <2>1. CASE k \in 1..Len(frames)
    BY <1>2, <1>7, <2>1 DEF StacksAgree
  <2>2. CASE k = Len(frames) + 1
    <3>1. savepoints'[k] = sp /\ frames'[k] = fr
      BY <1>7, <2>2
    <3>2. (k = 1) <=> ~inTx
      BY <1>2, <1>8, <2>2
    <3>3. sp.outermost = (k = 1)
      BY <1>3, <1>4, <3>2 DEF Savepoint
    <3>4. Good(sp.image, fr.tip, fr.schema)
      BY <1>4 DEF IInv
    <3> QED  BY <1>4, <2>2, <3>1, <3>3, <3>4
  <2> QED  BY <1>2, <1>7, <2>1, <2>2
<1>10. FileAgrees'
  <2>1. frames' # <<>>
    BY <1>2, <1>7
  <2>2. savepoints'[1].image = durable
    <3>1. CASE Len(frames) = 0
      <4>1. savepoints'[1] = sp /\ frames = <<>>
        BY <1>2, <1>7, <3>1
      <4> QED  BY <1>2, <1>4, <4>1 DEF FileAgrees
    <3>2. CASE Len(frames) # 0
      <4>1. frames # <<>> /\ 1 \in 1..Len(frames)
        BY <1>2, <3>2
      <4>2. savepoints'[1] = savepoints[1]
        BY <1>7, <4>1
      <4> QED  BY <1>2, <4>1, <4>2 DEF FileAgrees
    <3> QED  BY <3>1, <3>2
  <2> QED  BY <1>1, <2>1, <2>2 DEF FileAgrees
<1>11. Good(working, tip, schemaHash)'
  BY <1>1 DEF IInv, Good, Linked, StreamHash, Genesis
<1>12. /\ OnlyReportedIsDurable' /\ Linked(durable.rows, durable.anchor)'
       /\ (durable.rows = <<>> => durable.anchor = Genesis)'
  BY <1>1 DEF IInv, OnlyReportedIsDurable, Hashes, Linked, Genesis
<1> QED  BY <1>6, <1>9, <1>10, <1>11, <1>12 DEF IInv

(* Both exits pop one savepoint and one frame, and keep what lies below. *)
LEMMA PopStacks ==
    ASSUME IInv, SavepointLive,
           savepoints' = SubSeq(savepoints, 1, Len(savepoints) - 1),
           frames' = SubSeq(frames, 1, Depth - 1)
    PROVE  /\ Len(frames) \in Nat /\ Len(frames) > 0 /\ Len(savepoints) = Len(frames)
           /\ savepoints' \in Seq(Savepoint) /\ frames' \in Seq(Frame)
           /\ StacksAgree'
           /\ frames' = <<>> <=> Len(frames) = 1
           /\ frames' # <<>> => savepoints'[1] = savepoints[1]
<1>1. /\ savepoints \in Seq(Savepoint) /\ frames \in Seq(Frame)
      /\ Len(frames) \in Nat /\ Len(savepoints) = Len(frames) /\ StacksAgree
  BY DEF IInv, TypeOK, StacksAgree, Savepoint, Frame
<1>2. Len(frames) > 0
  BY <1>1 DEF SavepointLive
<1>3. /\ Len(frames') = Len(frames) - 1 /\ Len(savepoints') = Len(frames) - 1
      /\ savepoints' \in Seq(Savepoint) /\ frames' \in Seq(Frame)
      /\ \A k \in 1..(Len(frames) - 1) : savepoints'[k] = savepoints[k] /\ frames'[k] = frames[k]
  BY <1>1, <1>2 DEF Depth
<1>4. StacksAgree'
  <2> SUFFICES ASSUME NEW k \in 1..Len(frames')
               PROVE  /\ savepoints'[k].name = k
                      /\ savepoints'[k].outermost = (k = 1)
                      /\ Good(savepoints'[k].image, frames'[k].tip, frames'[k].schema)
    BY <1>3 DEF StacksAgree
  <2>1. k \in 1..Len(frames) /\ savepoints'[k] = savepoints[k] /\ frames'[k] = frames[k]
    BY <1>1, <1>3
  <2> QED  BY <1>1, <2>1 DEF StacksAgree
<1>5. frames' = <<>> <=> Len(frames) = 1
  <2> DEFINE f == frames'
  <2>1. f \in Seq(Frame)
    BY <1>3
  <2> HIDE DEF f
  <2>2. f = <<>> <=> Len(f) = 0
    BY <2>1
  <2>3. Len(f) = Len(frames) - 1
    BY <1>3 DEF f
  <2>4. f = <<>> <=> Len(frames) = 1
    <3>1. Len(f) = 0 <=> Len(frames) = 1
      BY <1>1, <2>3
    <3> QED  BY <2>2, <3>1, Zenon
  <2> QED  BY <2>4 DEF f
<1>6. frames' # <<>> => savepoints'[1] = savepoints[1]
  BY <1>1, <1>2, <1>3, <1>5
<1> QED  BY <1>1, <1>2, <1>3, <1>4, <1>5, <1>6

(* Leaving a block cleanly: only the outermost RELEASE reaches the file. *)
LEMMA ExitCleanStep == ASSUME IInv, NEW t \in Threads, ExitClean(t) PROVE IInv'
<1> DEFINE n == Len(frames)
<1>1. /\ SavepointLive
      /\ savepoints' = SubSeq(savepoints, 1, Len(savepoints) - 1)
      /\ frames' = SubSeq(frames, 1, Depth - 1)
      /\ owner' = IF Depth = 1 THEN NoOne ELSE owner
      /\ durable' = IF savepoints[Len(savepoints)].outermost THEN working ELSE durable
      /\ inTx' = ~savepoints[Len(savepoints)].outermost
      /\ told' = IF Depth = 1 THEN told \cup Hashes(working) ELSE told
      /\ UNCHANGED <<working, tip, schemaHash, hashes>>
  BY DEF ExitClean, PopFrame
<1>2. /\ n \in Nat /\ n > 0 /\ Len(savepoints) = n
      /\ savepoints' \in Seq(Savepoint) /\ frames' \in Seq(Frame)
      /\ StacksAgree'
      /\ frames' = <<>> <=> n = 1
      /\ frames' # <<>> => savepoints'[1] = savepoints[1]
  BY <1>1, PopStacks
<1>3. savepoints \in Seq(Savepoint) /\ n \in 1..Len(savepoints)
  BY <1>2 DEF IInv, TypeOK, Savepoint
<1>4. /\ durable' = IF n = 1 THEN working ELSE durable
      /\ inTx' = (n # 1)
      /\ told' = IF n = 1 THEN told \cup Hashes(working) ELSE told
      /\ owner' = IF n = 1 THEN NoOne ELSE owner
  <2>1. savepoints[n] \in Savepoint
    <3> HIDE DEF n
    <3> QED  BY <1>3
  <2>2. savepoints[n].outermost = (n = 1)
    BY <1>2 DEF IInv, StacksAgree
  <2> QED  BY <1>1, <1>2, <2>1, <2>2 DEF Depth
<1> HIDE DEF n
<1>5. working \in Database /\ Hashes(working) \subseteq Hash
  BY HashesTyped DEF IInv, TypeOK
<1>6. TypeOK'
  <2>1. durable' \in Database /\ inTx' \in BOOLEAN /\ told' \in SUBSET Hash
        /\ owner' \in Threads \cup {NoOne}
    BY <1>4, <1>5 DEF IInv, TypeOK
  <2> QED  BY <1>1, <1>2, <2>1 DEF IInv, TypeOK, Savepoint, Frame
<1>7. FileAgrees'
  <2>1. CASE n = 1
    BY <1>1, <1>2, <1>4, <2>1 DEF FileAgrees
  <2>2. CASE n # 1
    <3>1. frames # <<>>
      BY <1>2 DEF n
    <3> QED  BY <1>1, <1>2, <1>4, <2>2, <3>1 DEF IInv, FileAgrees
  <2> QED  BY <2>1, <2>2
<1>8. Good(working, tip, schemaHash)'
  BY <1>1 DEF IInv, Good, Linked, StreamHash, Genesis
<1>9. /\ Linked(durable.rows, durable.anchor)'
      /\ (durable.rows = <<>> => durable.anchor = Genesis)'
  BY <1>4 DEF IInv, Good, Linked, Genesis
<1>10. OnlyReportedIsDurable'
  BY <1>4 DEF IInv, OnlyReportedIsDurable, Hashes
<1> QED  BY <1>2, <1>6, <1>7, <1>8, <1>9, <1>10 DEF IInv

(* Rolling a block back restores rows and frontier to one moment. *)
LEMMA ExitRollbackStep == ASSUME IInv, NEW t \in Threads, ExitRollback(t) PROVE IInv'
<1> DEFINE n == Len(frames)
<1>1. /\ SavepointLive
      /\ savepoints' = SubSeq(savepoints, 1, Len(savepoints) - 1)
      /\ frames' = SubSeq(frames, 1, Depth - 1)
      /\ owner' = IF Depth = 1 THEN NoOne ELSE owner
      /\ working' = savepoints[Len(savepoints)].image
      /\ inTx' = ~savepoints[Len(savepoints)].outermost
      /\ tip' = frames[Depth].tip
      /\ schemaHash' = frames[Depth].schema
      /\ UNCHANGED <<durable, hashes, told>>
  BY DEF ExitRollback, PopFrame, RestoreFrontier
<1>2. /\ n \in Nat /\ n > 0 /\ Len(savepoints) = n
      /\ savepoints' \in Seq(Savepoint) /\ frames' \in Seq(Frame)
      /\ StacksAgree'
      /\ frames' = <<>> <=> n = 1
      /\ frames' # <<>> => savepoints'[1] = savepoints[1]
  BY <1>1, PopStacks
<1>3. /\ savepoints[n].outermost = (n = 1)
      /\ Good(savepoints[n].image, frames[n].tip, frames[n].schema)
  BY <1>2 DEF IInv, StacksAgree
<1>4. savepoints[n] \in Savepoint /\ frames[n] \in Frame
  <2>1. savepoints \in Seq(Savepoint) /\ frames \in Seq(Frame)
    BY DEF IInv, TypeOK, Savepoint, Frame
  <2>2. n \in 1..Len(savepoints) /\ n \in 1..Len(frames)
    BY <1>2
  <2> HIDE DEF n
  <2> QED  BY <2>1, <2>2
<1>5. /\ working' = savepoints[n].image /\ tip' = frames[n].tip /\ schemaHash' = frames[n].schema
      /\ inTx' = (n # 1)
      /\ owner' = IF n = 1 THEN NoOne ELSE owner
  BY <1>1, <1>2, <1>3, <1>4 DEF Depth
<1>6. frames # <<>>
  BY <1>2
<1> HIDE DEF n
<1>7. TypeOK'
  <2>1. working' \in Database /\ tip' \in Hash /\ schemaHash' \in Nat
        /\ inTx' \in BOOLEAN /\ owner' \in Threads \cup {NoOne}
    BY <1>4, <1>5 DEF IInv, TypeOK, Savepoint, Frame
  <2> QED  BY <1>1, <1>2, <2>1 DEF IInv, TypeOK, Savepoint, Frame
<1>8. FileAgrees'
  <2>1. CASE n = 1
    BY <1>1, <1>2, <1>5, <1>6, <2>1 DEF IInv, FileAgrees
  <2>2. CASE n # 1
    BY <1>1, <1>2, <1>5, <1>6, <2>2 DEF IInv, FileAgrees
  <2> QED  BY <2>1, <2>2
<1>9. Good(working, tip, schemaHash)'
  BY <1>3, <1>5 DEF Good, Linked, StreamHash, Genesis
<1>10. /\ OnlyReportedIsDurable' /\ Linked(durable.rows, durable.anchor)'
       /\ (durable.rows = <<>> => durable.anchor = Genesis)'
  BY <1>1 DEF IInv, OnlyReportedIsDurable, Hashes, Linked, Genesis
<1> QED  BY <1>2, <1>7, <1>8, <1>9, <1>10 DEF IInv

(* A restart finds the file and rebuilds the frontier from it. *)
LEMMA CrashStep == ASSUME IInv, CrashReopen PROVE IInv'
<1>1. /\ working' = durable /\ durable' = durable /\ inTx' = FALSE
      /\ savepoints' = <<>> /\ frames' = <<>>
      /\ tip' = StreamHash(durable) /\ schemaHash' = durable.schema
      /\ owner' = NoOne /\ hashes' = hashes /\ told' = told
  BY DEF CrashReopen
<1>2. durable \in Database
  BY DEF IInv, TypeOK
<1>3. StreamHash(durable) \in Hash /\ durable.schema \in Nat
  <2>1. durable.rows \in Seq(Row) /\ durable.schema \in Nat
    BY <1>2 DEF Database
  <2>2. CASE durable.rows = <<>>
    BY <2>1, <2>2 DEF StreamHash, Hash, Genesis
  <2>3. CASE durable.rows # <<>>
    <3>1. Len(durable.rows) \in 1..Len(durable.rows)
      BY <2>1, <2>3
    <3> QED  BY <1>2, <2>1, <2>3, <3>1, HashesTyped DEF StreamHash
  <2> QED  BY <2>2, <2>3
<1>4. TypeOK'
  <2>1. savepoints' \in Seq(Savepoint) /\ frames' \in Seq(Frame)
    BY <1>1
  <2> QED  BY <1>1, <1>2, <1>3, <2>1 DEF IInv, TypeOK, Savepoint, Frame
<1>5. StacksAgree'
  BY <1>1 DEF StacksAgree
<1>6. FileAgrees'
  BY <1>1 DEF FileAgrees
<1>7. Good(working, tip, schemaHash)'
  BY <1>1 DEF IInv, Good, Linked, StreamHash, Genesis
<1>8. /\ OnlyReportedIsDurable' /\ Linked(durable.rows, durable.anchor)'
      /\ (durable.rows = <<>> => durable.anchor = Genesis)'
  BY <1>1 DEF IInv, OnlyReportedIsDurable, Hashes, Linked, Genesis
<1> QED  BY <1>4, <1>5, <1>6, <1>7, <1>8 DEF IInv

-----------------------------------------------------------------------------
(* The theorems.                                                            *)

(* An empty database satisfies the invariant. *)
LEMMA InitIInv == Init => IInv
<1> SUFFICES ASSUME Init PROVE IInv
  OBVIOUS
<1>1. EmptyDatabase \in Database
  BY DEF EmptyDatabase, Database, Genesis, Hash
<1>2. EmptyDatabase.rows = <<>> /\ EmptyDatabase.schema = 0 /\ EmptyDatabase.anchor = Genesis
  BY DEF EmptyDatabase
<1>3. TypeOK
  <2>1. savepoints \in Seq(Savepoint) /\ frames \in Seq(Frame)
    BY DEF Init
  <2> QED  BY <1>1, <2>1 DEF Init, TypeOK, Savepoint, Frame, Hash, Genesis
<1>4. Good(working, tip, schemaHash)
  BY <1>2 DEF Init, Good, Linked, StreamHash
<1>5. Linked(durable.rows, durable.anchor) /\ durable.anchor = Genesis
  BY <1>2 DEF Init, Linked
<1>6. StacksAgree /\ FileAgrees
  BY DEF Init, StacksAgree, FileAgrees
<1>7. OnlyReportedIsDurable
  BY <1>2 DEF Init, OnlyReportedIsDurable, Hashes
<1> QED  BY <1>3, <1>4, <1>5, <1>6, <1>7 DEF IInv

(* Every operation of the store, and every restart, keeps the invariant. *)
LEMMA NextIInv == IInv /\ [Next]_vars => IInv'
<1> SUFFICES ASSUME IInv, [Next]_vars PROVE IInv'
  OBVIOUS
<1>1. CASE CrashReopen
  BY <1>1, CrashStep
<1>2. ASSUME NEW t \in Threads, StoreCall(t) PROVE IInv'
  <2>1. CASE Write(t)
    BY <2>1, WriteStep
  <2>2. CASE Enter(t)
    BY <2>2, EnterStep
  <2>3. CASE ExitClean(t)
    BY <2>3, ExitCleanStep
  <2>4. CASE ExitRollback(t)
    BY <2>4, ExitRollbackStep
  <2>5. CASE MigrateSchema(t)
    BY <2>5, MigrateStep
  <2>6. CASE \E i \in 1..Len(working.rows) : SealAndPruneEpoch(t, i)
    BY <2>6, PruneStep
  <2>7. CASE \E a \in Archived : SealArchive(t, a)
    BY <2>7, ArchiveStep
  <2> QED  BY <1>2, <2>1, <2>2, <2>3, <2>4, <2>5, <2>6, <2>7 DEF StoreCall
<1>3. CASE UNCHANGED vars
  BY <1>3 DEF vars, IInv, TypeOK, Good, Linked, StreamHash, Genesis, StacksAgree,
              FileAgrees, OnlyReportedIsDurable, Hashes
<1> QED  BY <1>1, <1>2, <1>3 DEF Next

(* The inductive invariant holds in every reachable state of the store. *)
THEOREM Invariance == Spec => []IInv
<1>1. Init => IInv
  BY InitIInv
<1>2. IInv /\ [Next]_vars => IInv'
  BY NextIInv
<1> QED  BY <1>1, <1>2, PTL DEF Spec

(* Every variable of the store keeps its type, whatever the interleaving. *)
THEOREM TypeCorrect == Spec => []TypeOK
<1>1. IInv => TypeOK
  BY DEF IInv
<1> QED  BY <1>1, Invariance, PTL

(***************************************************************************)
(* After every write, block exit, failed RELEASE, migration, prune and     *)
(* restart, _prior_h_r and _schema_hash are those of the rows the          *)
(* connection sees: no interleaving of threads and no nesting of blocks    *)
(* makes the next receipt name a parent that was rolled back.              *)
(***************************************************************************)
THEOREM FrontierNeverDiverges == Spec => []FrontierAgrees
<1>1. IInv => FrontierAgrees
  BY DEF IInv, Good, FrontierAgrees
<1> QED  BY <1>1, Invariance, PTL

(***************************************************************************)
(* transaction() leaves nothing in the file of a block that raised: every  *)
(* receipt in the file was reported to a caller as written.                *)
(***************************************************************************)
THEOREM NothingUnreportedIsDurable == Spec => []OnlyReportedIsDurable
<1>1. IInv => OnlyReportedIsDurable
  BY DEF IInv
<1> QED  BY <1>1, Invariance, PTL

(***************************************************************************)
(* Whatever was pending when the process died, the file it leaves verifies *)
(* from Genesis, or from the seal of its newest pruned epoch.              *)
(***************************************************************************)
THEOREM FileAlwaysVerifies == Spec => []DurableVerifies
<1>1. IInv => DurableVerifies
  BY DEF IInv, DurableVerifies
<1> QED  BY <1>1, Invariance, PTL

-----------------------------------------------------------------------------
(***************************************************************************)
(* What the file promises from one commit to the next: ReceiptStore        *)
(* implements ReceiptChain, keeps what it reported and receipts every      *)
(* change of schema.                                                       *)
(*                                                                         *)
(* Only the outermost commit reaches the file, so each of these is about   *)
(* two databases: the file as it is, and the view that may replace it.     *)
(* The invariant IInv is extended to hold that relation between the file   *)
(* and the connection's view, and between the file and the image of every  *)
(* savepoint a rollback may return to.                                     *)
(***************************************************************************)

(* One database.                                                            *)

(* Hashes grow along the chain from the anchor, and none exceeds n. *)
Ordered(d, n) ==
    /\ \A i, j \in 1..Len(d.rows) : i < j => d.rows[i].hr < d.rows[j].hr
    /\ \A i \in 1..Len(d.rows) : d.anchor < d.rows[i].hr /\ d.rows[i].hr <= n
    /\ d.anchor <= n

(* The newest epoch_pruned receipt names the anchor. *)
AnchorNamed(d) ==
    LET pruned == {i \in 1..Len(d.rows) : d.rows[i].op = "epoch_pruned"}
    IN  IF pruned = {} THEN d.anchor = Genesis
        ELSE \E i \in pruned : (\A j \in pruned : j <= i) /\ d.rows[i].ref = d.anchor

-----------------------------------------------------------------------------
(* Two databases: d, the file, and e, a view that may replace it.           *)

(* e has lost the k oldest rows of d to a seal, and has the others, in order, first. *)
LosesPrefix(d, e, k) ==
    /\ Len(e.rows) >= Len(d.rows) - k
    /\ \A j \in 1..(Len(d.rows) - k) : e.rows[j] = d.rows[j + k]
    /\ \A j \in 1..k : d.rows[j].hr <= e.anchor
    /\ k > 0 => e.anchor # d.anchor

Follows(d, e) ==
    /\ d.anchor <= e.anchor
    /\ \E k \in 0..Len(d.rows) : LosesPrefix(d, e, k)

(* A schema that differs was migrated by a receipt d has not, or pruned with it. *)
SchemaExplained(d, e) ==
    e.schema # d.schema =>
        \/ e.anchor # d.anchor
        \/ \E i \in 1..Len(e.rows) : e.rows[i].op = "schema_migrated" /\ e.rows[i].hr \notin Hashes(d)

MayReplace(d, e, n) ==
    /\ Ordered(e, n)
    /\ AnchorNamed(e)
    /\ Follows(d, e)
    /\ SchemaExplained(d, e)

-----------------------------------------------------------------------------
ChainInv ==
    /\ IInv
    /\ MayReplace(durable, durable, hashes)
    /\ MayReplace(durable, working, hashes)
    /\ \A k \in 1..Len(savepoints) : MayReplace(durable, savepoints[k].image, hashes)
    /\ frames # <<>> => owner # NoOne
    /\ ReportedNotLost
-----------------------------------------------------------------------------
(* Inserting a row.                                                         *)

(* A database, without the sets it comes from. *)
LEMMA DatabaseShape ==
    ASSUME NEW d \in Database
    PROVE  /\ d.rows \in Seq(Row) /\ Len(d.rows) \in Nat /\ d.anchor \in Nat /\ d.schema \in Nat
           /\ \A i \in 1..Len(d.rows) : d.rows[i].hr \in Nat
  <1>1. d.rows \in Seq(Row) /\ d.anchor \in Nat /\ d.schema \in Nat
    BY DEF Database, Hash
  <1>2. Len(d.rows) \in Nat
    BY <1>1
  <1>3. \A i \in 1..Len(d.rows) : d.rows[i].hr \in Nat
    BY HashesTyped DEF Hash
  <1> QED BY <1>1, <1>2, <1>3

(* e is d with one more row, of hash h. *)
OneMore(d, e, h, op, ref) ==
    /\ e \in Database
    /\ Len(e.rows) = Len(d.rows) + 1
    /\ \A i \in 1..Len(d.rows) : e.rows[i] = d.rows[i]
    /\ e.rows[Len(d.rows) + 1].hr = h
    /\ e.rows[Len(d.rows) + 1].op = op
    /\ e.rows[Len(d.rows) + 1].ref = ref
    /\ e.anchor = d.anchor /\ e.schema = d.schema

(* What the INSERT of write() changes. *)
LEMMA InsertShape ==
    ASSUME NEW d \in Database, NEW h \in Hash, NEW t \in Hash, NEW op \in Ops, NEW ref \in Hash
    PROVE  OneMore(d, Insert(d, h, t, op, ref), h, op, ref)
  <1>1. PICK row : row = [hr |-> h, parent |-> t, op |-> op, ref |-> ref]
    OBVIOUS
  <1>2. PICK rs : rs = Append(d.rows, row)
    OBVIOUS
  <1>3. PICK e : e = Insert(d, h, t, op, ref)
    OBVIOUS
  <1>4. row \in Row /\ row.hr = h /\ row.op = op /\ row.ref = ref
    BY <1>1 DEF Row, Ops
  <1>5. e = [d EXCEPT !.rows = rs]
    BY <1>1, <1>2, <1>3 DEF Insert
  <1>6. e.rows = rs /\ e.schema = d.schema /\ e.anchor = d.anchor /\ e.archive = d.archive
        /\ e = [rows |-> rs, schema |-> d.schema, archive |-> d.archive, anchor |-> d.anchor]
    BY <1>5 DEF Database
  <1>7. d.rows \in Seq(Row) /\ d.schema \in Nat /\ d.anchor \in Hash /\ d.archive \in SUBSET Archived
    BY DEF Database
  <1>8. /\ rs \in Seq(Row) /\ Len(rs) = Len(d.rows) + 1 /\ rs[Len(d.rows) + 1] = row
        /\ \A i \in 1..Len(d.rows) : rs[i] = d.rows[i]
    BY <1>2, <1>4, <1>7
  <1>9. e \in Database
    BY <1>6, <1>7, <1>8 DEF Database
  <1> QED BY <1>3, <1>4, <1>6, <1>8, <1>9 DEF OneMore

(* A new hash keeps the chain ordered. *)
LEMMA MoreOrdered ==
    ASSUME NEW d \in Database, NEW e, NEW h \in Nat, NEW op, NEW ref, OneMore(d, e, h, op, ref),
           NEW n \in Nat, n < h, Ordered(d, n)
    PROVE  Ordered(e, h)
  <1>1. PICK l : l = Len(d.rows)
    OBVIOUS
  <1>2. /\ l \in Nat /\ d.anchor \in Nat /\ \A i \in 1..l : d.rows[i].hr \in Nat
    BY <1>1, DatabaseShape
  <1>3. /\ Len(e.rows) = l + 1 /\ e.rows[l + 1].hr = h /\ e.anchor = d.anchor
        /\ \A i \in 1..l : e.rows[i].hr = d.rows[i].hr
    BY <1>1 DEF OneMore
  <1>4. /\ \A i, j \in 1..l : i < j => d.rows[i].hr < d.rows[j].hr
        /\ \A i \in 1..l : d.anchor < d.rows[i].hr /\ d.rows[i].hr <= n
        /\ d.anchor <= n
    BY <1>1 DEF Ordered
  <1>5. \A i \in 1..(l + 1) : i \in 1..l \/ i = l + 1
    BY <1>2
  <1>6. ASSUME NEW i \in 1..l
        PROVE  e.rows[i].hr < h /\ e.anchor < e.rows[i].hr /\ e.rows[i].hr <= h
    <2>1. PICK x : x = d.rows[i].hr
      OBVIOUS
    <2>2. x \in Nat /\ d.anchor < x /\ x <= n
      BY <1>2, <1>4, <2>1
    <2>3. x < h /\ x <= h
      BY <2>2
    <2>4. e.rows[i].hr = x
      BY <1>3, <2>1
    <2> QED BY <1>3, <2>2, <2>3, <2>4
  <1>7. ASSUME NEW i \in 1..(l + 1), NEW j \in 1..(l + 1), i < j PROVE e.rows[i].hr < e.rows[j].hr
    <2>1. i \in 1..l
      BY <1>2, <1>7
    <2>2. CASE j \in 1..l
      BY <1>3, <1>4, <1>7, <2>1, <2>2
    <2>3. CASE j = l + 1
      BY <1>3, <1>6, <2>1, <2>3
    <2> QED BY <1>5, <2>2, <2>3
  <1>8. ASSUME NEW i \in 1..(l + 1) PROVE e.anchor < e.rows[i].hr /\ e.rows[i].hr <= h
    <2>1. CASE i \in 1..l
      BY <1>6, <2>1
    <2>2. CASE i = l + 1
      BY <1>2, <1>3, <1>4, <2>2
    <2> QED BY <1>5, <2>1, <2>2
  <1>9. e.anchor <= h
    BY <1>2, <1>3, <1>4
  <1> QED BY <1>3, <1>7, <1>8, <1>9 DEF Ordered

(* A row that prunes nothing leaves the anchor named. *)
LEMMA MoreNamed ==
    ASSUME NEW d \in Database, NEW e, NEW h, NEW op, NEW ref, OneMore(d, e, h, op, ref),
           op # "epoch_pruned", AnchorNamed(d)
    PROVE  AnchorNamed(e)
  <1>1. PICK l : l = Len(d.rows)
    OBVIOUS
  <1>2. l \in Nat
    BY <1>1, DatabaseShape
  <1>3. /\ Len(e.rows) = l + 1 /\ e.rows[l + 1].op = op /\ e.anchor = d.anchor
        /\ \A i \in 1..l : e.rows[i] = d.rows[i]
    BY <1>1 DEF OneMore
  <1>4. PICK P : P = {i \in 1..Len(d.rows) : d.rows[i].op = "epoch_pruned"}
    OBVIOUS
  <1>5. {i \in 1..Len(e.rows) : e.rows[i].op = "epoch_pruned"} = P
    BY <1>1, <1>2, <1>3, <1>4
  <1>6. P \subseteq 1..l
    BY <1>1, <1>4
  <1>7. IF P = {} THEN d.anchor = Genesis
        ELSE \E i \in P : (\A j \in P : j <= i) /\ d.rows[i].ref = d.anchor
    BY <1>4, Zenon DEF AnchorNamed
  <1>8. IF P = {} THEN e.anchor = Genesis
        ELSE \E i \in P : (\A j \in P : j <= i) /\ e.rows[i].ref = e.anchor
    BY <1>3, <1>6, <1>7
  <1> QED BY <1>5, <1>8, Zenon DEF AnchorNamed

(* A row at the tail keeps what the file still has first. *)
LEMMA MoreFollows ==
    ASSUME NEW f \in Database, NEW d \in Database, NEW e, NEW h, NEW op, NEW ref,
           OneMore(d, e, h, op, ref), Follows(f, d)
    PROVE  Follows(f, e)
  <1>1. PICK k \in 0..Len(f.rows) : LosesPrefix(f, d, k)
    BY DEF Follows
  <1>2. PICK l, m : l = Len(d.rows) /\ m = Len(f.rows)
    OBVIOUS
  <1>3. l \in Nat /\ m \in Nat
    BY <1>2, DatabaseShape
  <1>4. /\ Len(e.rows) = l + 1 /\ e.anchor = d.anchor /\ \A i \in 1..l : e.rows[i] = d.rows[i]
    BY <1>2 DEF OneMore
  <1>5. /\ l >= m - k /\ \A j \in 1..(m - k) : d.rows[j] = f.rows[j + k]
        /\ \A j \in 1..k : f.rows[j].hr <= d.anchor
        /\ k > 0 => d.anchor # f.anchor
    BY <1>1, <1>2 DEF LosesPrefix
  <1>6. /\ l + 1 >= m - k /\ \A j \in 1..(m - k) : e.rows[j] = f.rows[j + k]
    <2>1. \A j \in 1..(m - k) : j \in 1..l
      BY <1>1, <1>2, <1>3, <1>5
    <2> QED BY <1>1, <1>2, <1>3, <1>4, <1>5, <2>1
  <1>7. LosesPrefix(f, e, k)
    BY <1>2, <1>4, <1>5, <1>6 DEF LosesPrefix
  <1> QED BY <1>1, <1>4, <1>7 DEF Follows

(* A row more explains what was explained. *)
LEMMA MoreExplained ==
    ASSUME NEW f \in Database, NEW d \in Database, NEW e, NEW h, NEW op, NEW ref,
           OneMore(d, e, h, op, ref), SchemaExplained(f, d)
    PROVE  SchemaExplained(f, e)
  <1>1. Len(d.rows) \in Nat
    BY DatabaseShape
  <1>2. /\ Len(e.rows) = Len(d.rows) + 1 /\ e.anchor = d.anchor /\ e.schema = d.schema
        /\ \A i \in 1..Len(d.rows) : e.rows[i] = d.rows[i] /\ i \in 1..Len(e.rows)
    BY <1>1 DEF OneMore
  <1> QED BY <1>2 DEF SchemaExplained
-----------------------------------------------------------------------------
(* Deleting a sealed prefix.                                                *)

(* e is d without its first i rows, anchored at the last of them. *)
CutAt(d, e, i) ==
    /\ Len(e.rows) = Len(d.rows) - i
    /\ \A j \in 1..(Len(d.rows) - i) : e.rows[j] = d.rows[j + i]
    /\ e.anchor = d.rows[i].hr

(* What the DELETE of seal_and_prune_epoch leaves. *)
LEMMA CutShape ==
    ASSUME NEW d \in Database, NEW i \in 1..Len(d.rows), NEW e,
           e.rows = SubSeq(d.rows, i + 1, Len(d.rows)), e.anchor = d.rows[i].hr
    PROVE  CutAt(d, e, i)
  <1>1. PICK l : l = Len(d.rows)
    OBVIOUS
  <1>2. d.rows \in Seq(Row) /\ l \in Nat
    BY <1>1, DatabaseShape
  <1>3. /\ Len(e.rows) = l - i
        /\ \A j \in 1..(l - i) : e.rows[j] = d.rows[i + j]
    BY <1>1, <1>2
  <1>4. \A j \in 1..(l - i) : i + j = j + i
    BY <1>1, <1>2
  <1> QED BY <1>1, <1>3, <1>4 DEF CutAt

(* The retained rows are above the seal. *)
LEMMA CutOrdered ==
    ASSUME NEW d \in Database, NEW e, NEW i \in 1..Len(d.rows), CutAt(d, e, i),
           NEW n \in Nat, Ordered(d, n)
    PROVE  Ordered(e, n) /\ d.anchor < e.anchor
  <1>1. PICK l : l = Len(d.rows)
    OBVIOUS
  <1>2. l \in Nat /\ i \in 1..l
    BY <1>1, DatabaseShape
  <1>3. /\ Len(e.rows) = l - i /\ e.anchor = d.rows[i].hr
        /\ \A j \in 1..(l - i) : e.rows[j] = d.rows[j + i]
    BY <1>1 DEF CutAt
  <1>4. /\ \A a, b \in 1..l : a < b => d.rows[a].hr < d.rows[b].hr
        /\ \A a \in 1..l : d.anchor < d.rows[a].hr /\ d.rows[a].hr <= n
    BY <1>1 DEF Ordered
  <1>5. \A j \in 1..(l - i) : j + i \in 1..l /\ i < j + i
    BY <1>2
  <1>6. ASSUME NEW a \in 1..(l - i), NEW b \in 1..(l - i), a < b PROVE e.rows[a].hr < e.rows[b].hr
    <2>1. a + i < b + i
      BY <1>2, <1>6
    <2>2. d.rows[a + i].hr < d.rows[b + i].hr
      BY <1>4, <1>5, <2>1
    <2> QED BY <1>3, <2>2
  <1>7. ASSUME NEW a \in 1..(l - i) PROVE e.anchor < e.rows[a].hr /\ e.rows[a].hr <= n
    <2>1. d.rows[i].hr < d.rows[a + i].hr /\ d.rows[a + i].hr <= n
      BY <1>2, <1>4, <1>5
    <2> QED BY <1>3, <2>1
  <1>8. d.anchor < e.anchor /\ e.anchor <= n
    BY <1>2, <1>3, <1>4
  <1> QED BY <1>3, <1>6, <1>7, <1>8 DEF Ordered

(* The newest row, which records the prune, names the seal. *)
LEMMA CutNamed ==
    ASSUME NEW d \in Database, NEW e, NEW i \in 1..Len(d.rows), CutAt(d, e, i), i < Len(d.rows),
           d.rows[Len(d.rows)].op = "epoch_pruned", d.rows[Len(d.rows)].ref = d.rows[i].hr
    PROVE  AnchorNamed(e)
  <1>1. PICK l : l = Len(d.rows)
    OBVIOUS
  <1>2. l \in Nat /\ i \in 1..l /\ l - i \in 1..(l - i) /\ (l - i) + i = l
    BY <1>1, DatabaseShape
  <1>3. /\ Len(e.rows) = l - i /\ e.anchor = d.rows[i].hr
        /\ e.rows[l - i] = d.rows[l]
    BY <1>1, <1>2 DEF CutAt
  <1>4. PICK P : P = {k \in 1..Len(e.rows) : e.rows[k].op = "epoch_pruned"}
    OBVIOUS
  <1>5. l - i \in P /\ e.rows[l - i].ref = e.anchor /\ \A k \in P : k <= l - i
    BY <1>1, <1>2, <1>3, <1>4
  <1>6. P # {} /\ \E k \in P : (\A j \in P : j <= k) /\ e.rows[k].ref = e.anchor
    BY <1>5
  <1> QED BY <1>4, <1>6, Zenon DEF AnchorNamed

(* The file's rows that the cut took are sealed. *)
LEMMA CutFollows ==
    ASSUME NEW f \in Database, NEW d \in Database, NEW e \in Database,
           NEW i \in 1..Len(d.rows), CutAt(d, e, i),
           NEW n \in Nat, Ordered(d, n), Follows(f, d)
    PROVE  Follows(f, e) /\ e.anchor # f.anchor
  <1>1. PICK k \in 0..Len(f.rows) : LosesPrefix(f, d, k)
    BY DEF Follows
  <1>2. PICK l, m : l = Len(d.rows) /\ m = Len(f.rows)
    OBVIOUS
  <1>3. /\ l \in Nat /\ m \in Nat /\ i \in 1..l /\ k \in 0..m
        /\ f.anchor \in Nat /\ d.anchor \in Nat /\ e.anchor \in Nat
        /\ \A j \in 1..m : f.rows[j].hr \in Nat
        /\ \A j \in 1..l : d.rows[j].hr \in Nat
    BY <1>1, <1>2, DatabaseShape
  <1>4. /\ Len(e.rows) = l - i /\ e.anchor = d.rows[i].hr
        /\ \A j \in 1..(l - i) : e.rows[j] = d.rows[j + i]
    BY <1>2 DEF CutAt
  <1>5. /\ l >= m - k /\ \A j \in 1..(m - k) : d.rows[j] = f.rows[j + k]
        /\ \A j \in 1..k : f.rows[j].hr <= d.anchor
    BY <1>1, <1>2 DEF LosesPrefix
  <1>6. d.anchor < e.anchor /\ f.anchor <= d.anchor
    BY CutOrdered DEF Follows
  <1>7. f.anchor <= e.anchor /\ e.anchor # f.anchor
    BY <1>3, <1>6
  <1>8. \A j \in 1..k : f.rows[j].hr <= e.anchor
    <2> SUFFICES ASSUME NEW j \in 1..k PROVE f.rows[j].hr <= e.anchor
      OBVIOUS
    <2>1. PICK x : x = f.rows[j].hr
      OBVIOUS
    <2>2. x \in Nat /\ x <= d.anchor
      BY <1>3, <1>5, <2>1
    <2> QED BY <1>3, <1>6, <2>1, <2>2
  <1>9. ASSUME NEW j \in (k + 1)..m, j - k <= i PROVE f.rows[j].hr <= e.anchor
    <2>1. PICK b : b = j - k
      OBVIOUS
    <2>2. b \in 1..(m - k) /\ b + k = j /\ b \in 1..l /\ b <= i
      BY <1>3, <1>5, <1>9, <2>1
    <2>3. d.rows[b] = f.rows[j]
      BY <1>5, <2>2
    <2>4. CASE b = i
      <3>1. f.rows[j].hr = e.anchor
        BY <1>4, <2>3, <2>4
      <3>2. e.anchor <= e.anchor
        BY <1>3
      <3> QED BY <3>1, <3>2
    <2>5. CASE b < i
      <3>1. d.rows[b].hr < d.rows[i].hr
        BY <1>2, <1>3, <2>2, <2>5 DEF Ordered
      <3>2. d.rows[b].hr \in Nat /\ d.rows[i].hr \in Nat
        BY <1>3, <2>2
      <3>3. d.rows[b].hr <= d.rows[i].hr
        BY <3>1, <3>2
      <3> QED BY <1>4, <2>3, <3>3
    <2> QED BY <1>3, <2>2, <2>4, <2>5
  <1>10. CASE k + i <= m
    <2>1. PICK q : q = k + i
      OBVIOUS
    <2>2. q \in 0..m /\ l - i >= m - q
      BY <1>3, <1>5, <1>10, <2>1
    <2>3. ASSUME NEW j \in 1..(m - q) PROVE e.rows[j] = f.rows[j + q]
      <3>1. j \in 1..(l - i) /\ j + i \in 1..(m - k) /\ (j + i) + k = j + q
        BY <1>3, <1>5, <1>10, <2>1, <2>2
      <3>2. e.rows[j] = d.rows[j + i]
        BY <1>4, <3>1
      <3>3. d.rows[j + i] = f.rows[(j + i) + k]
        BY <1>5, <3>1
      <3> QED BY <3>1, <3>2, <3>3
    <2>4. ASSUME NEW j \in 1..q PROVE f.rows[j].hr <= e.anchor
      <3>1. j \in 1..k \/ (j \in (k + 1)..m /\ j - k <= i)
        BY <1>3, <1>10, <2>1
      <3> QED BY <1>8, <1>9, <3>1
    <2>5. LosesPrefix(f, e, q)
      BY <1>2, <1>4, <1>7, <2>2, <2>3, <2>4 DEF LosesPrefix
    <2> QED BY <1>2, <1>7, <2>2, <2>5 DEF Follows
  <1>11. CASE k + i > m
    <2>1. m \in 0..m /\ l - i >= m - m /\ m - m = 0
      BY <1>3
    <2>2. ASSUME NEW j \in 1..m PROVE f.rows[j].hr <= e.anchor
      <3>1. j \in 1..k \/ (j \in (k + 1)..m /\ j - k <= i)
        BY <1>3, <1>11
      <3> QED BY <1>8, <1>9, <3>1
    <2>3. \A j \in 1..(m - m) : e.rows[j] = f.rows[j + m]
      BY <2>1
    <2>4. LosesPrefix(f, e, m)
      BY <1>2, <1>4, <1>7, <2>1, <2>2, <2>3 DEF LosesPrefix
    <2> QED BY <1>2, <1>7, <2>1, <2>4 DEF Follows
  <1> QED BY <1>3, <1>7, <1>10, <1>11
-----------------------------------------------------------------------------
(* Views that may replace the file.                                         *)

(* The file may be replaced by itself. *)
LEMMA ReplaceSelf ==
    ASSUME NEW e \in Database, NEW n, Ordered(e, n), AnchorNamed(e)
    PROVE  MayReplace(e, e, n)
  <1>1. Len(e.rows) \in Nat /\ e.anchor \in Nat
    BY DatabaseShape
  <1>2. 0 \in 0..Len(e.rows) /\ e.anchor <= e.anchor
    BY <1>1
  <1>3. LosesPrefix(e, e, 0)
    BY <1>1 DEF LosesPrefix
  <1>4. Follows(e, e)
    BY <1>2, <1>3 DEF Follows
  <1> QED BY <1>4 DEF MayReplace, SchemaExplained

(* The bound on hashes may grow. *)
LEMMA ReplaceLater ==
    ASSUME NEW d, NEW e \in Database, NEW n \in Nat, NEW m \in Nat, n <= m, MayReplace(d, e, n)
    PROVE  MayReplace(d, e, m)
  <1>1. e.anchor \in Nat /\ \A i \in 1..Len(e.rows) : e.rows[i].hr \in Nat
    BY DatabaseShape
  <1>2. e.anchor <= n /\ \A i \in 1..Len(e.rows) : e.rows[i].hr <= n
    BY DEF MayReplace, Ordered
  <1>3. e.anchor <= m
    BY <1>1, <1>2
  <1>4. ASSUME NEW i \in 1..Len(e.rows) PROVE e.rows[i].hr <= m
    <2>1. PICK x : x = e.rows[i].hr
      OBVIOUS
    <2>2. x \in Nat /\ x <= n
      BY <1>1, <1>2, <2>1
    <2> QED BY <2>1, <2>2
  <1>5. Ordered(e, m)
    BY <1>3, <1>4 DEF MayReplace, Ordered
  <1> QED BY <1>5 DEF MayReplace

(* One more row, of a new hash. *)
LEMMA ReplaceMore ==
    ASSUME NEW f \in Database, NEW d \in Database, NEW e, NEW h \in Nat, NEW op, NEW ref,
           OneMore(d, e, h, op, ref), op # "epoch_pruned", NEW n \in Nat, n < h, MayReplace(f, d, n)
    PROVE  MayReplace(f, e, h)
  <1>1. Ordered(d, n) /\ AnchorNamed(d) /\ Follows(f, d) /\ SchemaExplained(f, d)
    BY DEF MayReplace
  <1>2. Ordered(e, h)
    BY <1>1, MoreOrdered
  <1>3. AnchorNamed(e)
    BY <1>1, MoreNamed
  <1>4. Follows(f, e)
    BY <1>1, MoreFollows
  <1>5. SchemaExplained(f, e)
    BY <1>1, MoreExplained
  <1> QED BY <1>2, <1>3, <1>4, <1>5 DEF MayReplace

(* The properties of the chain do not depend on what is beside it. *)
LEMMA ReplaceBeside ==
    ASSUME NEW f, NEW d, NEW e, NEW n, e.rows = d.rows, e.anchor = d.anchor, MayReplace(f, d, n)
    PROVE  /\ Ordered(e, n) /\ AnchorNamed(e) /\ Follows(f, e)
           /\ e.schema = d.schema => MayReplace(f, e, n)
  <1>1. Ordered(e, n)
    BY DEF MayReplace, Ordered
  <1>2. AnchorNamed(e)
    BY Zenon DEF MayReplace, AnchorNamed
  <1>3. Follows(f, e)
    BY DEF MayReplace, Follows, LosesPrefix
  <1>4. e.schema = d.schema => SchemaExplained(f, e)
    BY DEF MayReplace, SchemaExplained
  <1> QED BY <1>1, <1>2, <1>3, <1>4 DEF MayReplace

(* A migration adds the receipt that explains it. *)
LEMMA ReplaceMigrated ==
    ASSUME NEW f \in Database, NEW d \in Database, NEW a \in Database, NEW e, NEW h \in Nat, NEW ref,
           a.rows = d.rows, a.anchor = d.anchor, OneMore(a, e, h, "schema_migrated", ref),
           NEW n \in Nat, n < h, MayReplace(f, d, n), Ordered(f, n)
    PROVE  MayReplace(f, e, h)
  <1>1. Ordered(a, n) /\ AnchorNamed(a) /\ Follows(f, a)
    BY ReplaceBeside
  <1>2. Ordered(e, h)
    BY <1>1, MoreOrdered
  <1>3. AnchorNamed(e)
    BY <1>1, MoreNamed
  <1>4. Follows(f, e)
    BY <1>1, MoreFollows
  <1>5. SchemaExplained(f, e)
    <2>1. Len(a.rows) \in Nat /\ \A i \in 1..Len(f.rows) : f.rows[i].hr \in Nat /\ f.rows[i].hr <= n
      BY DatabaseShape DEF Ordered
    <2>2. PICK l : l = Len(a.rows) + 1
      OBVIOUS
    <2>3. l \in 1..Len(e.rows) /\ e.rows[l].op = "schema_migrated" /\ e.rows[l].hr = h
      BY <2>1, <2>2 DEF OneMore
    <2>4. \A i \in 1..Len(f.rows) : f.rows[i].hr # h
      BY <2>1
    <2>5. h \notin Hashes(f)
      BY <2>4 DEF Hashes
    <2> QED BY <2>3, <2>5 DEF SchemaExplained
  <1> QED BY <1>2, <1>3, <1>4, <1>5 DEF MayReplace

(* A prune: two rows more, and the sealed prefix gone. *)
LEMMA ReplacePruned ==
    ASSUME NEW f \in Database, NEW d \in Database, NEW s \in Database, NEW p \in Database,
           NEW e \in Database, NEW h \in Nat, NEW i \in 1..Len(d.rows),
           OneMore(d, s, h, "epoch_sealed", d.rows[i].hr),
           OneMore(s, p, h + 1, "epoch_pruned", d.rows[i].hr),
           CutAt(p, e, i), NEW n \in Nat, n < h, MayReplace(f, d, n)
    PROVE  MayReplace(f, e, h + 1)
  <1>1. PICK l : l = Len(d.rows)
    OBVIOUS
  <1>2. l \in Nat /\ i \in 1..l
    BY <1>1, DatabaseShape
  <1>3. MayReplace(f, s, h)
    BY ReplaceMore
  <1>4. Ordered(s, h) /\ Follows(f, s)
    BY <1>3 DEF MayReplace
  <1>5. h + 1 \in Nat /\ h < h + 1
    OBVIOUS
  <1>6. Ordered(p, h + 1)
    BY <1>4, <1>5, MoreOrdered
  <1>7. Follows(f, p)
    BY <1>4, MoreFollows
  <1>8. /\ Len(s.rows) = l + 1 /\ Len(p.rows) = (l + 1) + 1 /\ s.rows[i] = d.rows[i]
        /\ p.rows[(l + 1) + 1].op = "epoch_pruned" /\ p.rows[(l + 1) + 1].ref = d.rows[i].hr
    BY <1>1 DEF OneMore
  <1>9. i \in 1..Len(s.rows) /\ i \in 1..Len(p.rows) /\ i < Len(p.rows)
    BY <1>2, <1>8
  <1>10. p.rows[i] = d.rows[i]
    BY <1>8, <1>9 DEF OneMore
  <1>11. Ordered(e, h + 1)
    BY <1>5, <1>6, <1>9, CutOrdered
  <1>12. AnchorNamed(e)
    <2>1. p.rows[Len(p.rows)].op = "epoch_pruned" /\ p.rows[Len(p.rows)].ref = p.rows[i].hr
      BY <1>8, <1>10
    <2> QED BY <1>9, <2>1, CutNamed
  <1>13. Follows(f, e) /\ e.anchor # f.anchor
    BY <1>5, <1>6, <1>7, <1>9, CutFollows
  <1> QED BY <1>11, <1>12, <1>13 DEF MayReplace, SchemaExplained

(* What was in the file, or sealed below its anchor, still is. *)
LEMMA FollowsKeeps ==
    ASSUME NEW f \in Database, NEW e \in Database, Follows(f, e), NEW x \in Nat,
           x \in Hashes(f) \/ x <= f.anchor
    PROVE  x \in Hashes(e) \/ x <= e.anchor
  <1>1. Len(f.rows) \in Nat /\ Len(e.rows) \in Nat /\ f.anchor \in Nat /\ e.anchor \in Nat
    BY DatabaseShape
  <1>2. CASE x <= f.anchor
    BY <1>1, <1>2 DEF Follows
  <1>3. CASE x \in Hashes(f)
    <2>1. PICK j \in 1..Len(f.rows) : f.rows[j].hr = x
      BY <1>3 DEF Hashes
    <2>2. PICK k \in 0..Len(f.rows) : LosesPrefix(f, e, k)
      BY DEF Follows
    <2>3. CASE j <= k
      <3>1. j \in 1..k
        BY <1>1, <2>3
      <3> QED BY <2>1, <2>2, <3>1 DEF LosesPrefix
    <2>4. CASE j > k
      <3>1. PICK b : b = j - k
        OBVIOUS
      <3>2. b \in 1..(Len(f.rows) - k) /\ b + k = j
        BY <1>1, <2>4, <3>1
      <3>3. e.rows[b] = f.rows[j] /\ Len(e.rows) >= Len(f.rows) - k
        BY <2>2, <3>2 DEF LosesPrefix
      <3>4. b \in 1..Len(e.rows) /\ e.rows[b].hr = x
        BY <1>1, <2>1, <3>2, <3>3
      <3> QED BY <3>4 DEF Hashes
    <2> QED BY <1>1, <2>3, <2>4
  <1> QED BY <1>2, <1>3
-----------------------------------------------------------------------------
(* The steps.                                                               *)

(* The file is left alone, or replaced by a view that may replace it. *)
FileStep == durable' = durable \/ MayReplace(durable, durable', hashes')

(* The databases of the store are databases. *)
LEMMA ViewsTyped ==
    ASSUME IInv
    PROVE  /\ durable \in Database /\ working \in Database /\ hashes \in Nat /\ told \subseteq Nat
           /\ tip \in Hash /\ Len(savepoints) \in Nat
           /\ \A k \in 1..Len(savepoints) : savepoints[k].image \in Database
  <1>1. /\ durable \in Database /\ working \in Database /\ hashes \in Nat /\ told \subseteq Nat
        /\ tip \in Hash
    BY DEF IInv, TypeOK, Hash
  <1>2. savepoints \in Seq(Savepoint)
    BY DEF IInv, TypeOK, Savepoint
  <1>3. \A k \in 1..Len(savepoints) : savepoints[k] \in Savepoint
    BY <1>2, ElementOfSeq
  <1>4. \A k \in 1..Len(savepoints) : savepoints[k].image \in Database
    BY <1>3 DEF Savepoint
  <1>5. Len(savepoints) \in Nat
    BY <1>2, LenProperties
  <1> QED BY <1>1, <1>4, <1>5

(* A view that may replace the file still may when hashes have grown. *)
LEMMA ViewsLater ==
    ASSUME ChainInv, NEW n \in Nat, hashes <= n
    PROVE  /\ MayReplace(durable, durable, n)
           /\ MayReplace(durable, working, n)
           /\ \A k \in 1..Len(savepoints) : MayReplace(durable, savepoints[k].image, n)
  <1>1. IInv
    BY DEF ChainInv
  <1>2. /\ durable \in Database /\ working \in Database /\ hashes \in Nat
        /\ \A k \in 1..Len(savepoints) : savepoints[k].image \in Database
    BY <1>1, ViewsTyped
  <1>3. /\ MayReplace(durable, durable, hashes) /\ MayReplace(durable, working, hashes)
        /\ \A k \in 1..Len(savepoints) : MayReplace(durable, savepoints[k].image, hashes)
    BY DEF ChainInv
  <1>4. MayReplace(durable, durable, n)
    BY <1>2, <1>3, ReplaceLater
  <1>5. MayReplace(durable, working, n)
    BY <1>2, <1>3, ReplaceLater
  <1>6. ASSUME NEW k \in 1..Len(savepoints) PROVE MayReplace(durable, savepoints[k].image, n)
    BY <1>2, <1>3, ReplaceLater
  <1> QED BY <1>4, <1>5, <1>6

(* The next state's views, named by the databases they are. *)
LEMMA ViewsNext ==
    ASSUME NEW d, NEW e, NEW n, MayReplace(d, e, n), d = durable', n = hashes'
    PROVE  /\ e = durable' => MayReplace(durable, durable, hashes)'
           /\ e = working' => MayReplace(durable, working, hashes)'
           /\ \A k : e = savepoints'[k].image => MayReplace(durable, savepoints[k].image, hashes)'
  <1>1. Ordered(e, n) /\ AnchorNamed(e) /\ Follows(d, e) /\ SchemaExplained(d, e)
    BY DEF MayReplace
  <1>2. e = durable' => MayReplace(durable, durable, hashes)'
    <2> SUFFICES ASSUME e = durable' PROVE MayReplace(durable, durable, hashes)'
      OBVIOUS
    <2>1. Ordered(durable, hashes)'
      BY <1>1 DEF Ordered
    <2>2. AnchorNamed(durable)'
      BY <1>1, Zenon DEF AnchorNamed, Genesis
    <2>3. Follows(durable, durable)'
      BY <1>1 DEF Follows, LosesPrefix
    <2>4. SchemaExplained(durable, durable)'
      BY <1>1 DEF SchemaExplained, Hashes
    <2> QED BY <2>1, <2>2, <2>3, <2>4 DEF MayReplace
  <1>3. e = working' => MayReplace(durable, working, hashes)'
    <2> SUFFICES ASSUME e = working' PROVE MayReplace(durable, working, hashes)'
      OBVIOUS
    <2>1. Ordered(working, hashes)'
      BY <1>1 DEF Ordered
    <2>2. AnchorNamed(working)'
      BY <1>1, Zenon DEF AnchorNamed, Genesis
    <2>3. Follows(durable, working)'
      BY <1>1 DEF Follows, LosesPrefix
    <2>4. SchemaExplained(durable, working)'
      BY <1>1 DEF SchemaExplained, Hashes
    <2> QED BY <2>1, <2>2, <2>3, <2>4 DEF MayReplace
  <1>4. ASSUME NEW k, e = savepoints'[k].image PROVE MayReplace(durable, savepoints[k].image, hashes)'
    <2>1. Ordered(savepoints[k].image, hashes)'
      BY <1>1, <1>4 DEF Ordered
    <2>2. AnchorNamed(savepoints[k].image)'
      BY <1>1, <1>4, Zenon DEF AnchorNamed, Genesis
    <2>3. Follows(durable, savepoints[k].image)'
      BY <1>1, <1>4 DEF Follows, LosesPrefix
    <2>4. SchemaExplained(durable, savepoints[k].image)'
      BY <1>1, <1>4 DEF SchemaExplained, Hashes
    <2> QED BY <2>1, <2>2, <2>3, <2>4 DEF MayReplace
  <1> QED BY <1>2, <1>3, <1>4

(* The invariant of the next state, from databases that are its views. *)
LEMMA ChainInvNext ==
    ASSUME IInv', NEW n, n = hashes', NEW f, f = durable', NEW w, w = working',
           MayReplace(f, f, n), MayReplace(f, w, n),
           \A k \in 1..Len(savepoints') : MayReplace(f, savepoints'[k].image, n),
           frames' # <<>> => owner' # NoOne, ReportedNotLost'
    PROVE  ChainInv'
  <1>1. MayReplace(durable, durable, hashes)' /\ MayReplace(durable, working, hashes)'
    BY ViewsNext
  <1>2. ASSUME NEW k \in 1..Len(savepoints') PROVE MayReplace(durable, savepoints[k].image, hashes)'
    <2>1. PICK e : e = savepoints'[k].image
      OBVIOUS
    <2>2. MayReplace(f, e, n)
      BY <2>1
    <2> QED BY <2>1, <2>2, ViewsNext
  <1> QED BY <1>1, <1>2 DEF ChainInv

(* A write or a governed transition moves the connection to db. *)
LEMMA AdvanceChain ==
    ASSUME ChainInv, IInv', NEW db \in Database, NEW n \in Nat, n = hashes', hashes <= n,
           MayReplace(durable, db, n),
           IF frames = <<>> THEN Commit(db) ELSE Defer(db),
           UNCHANGED <<frames, owner>>,
           told' \subseteq told \cup Hashes(db), frames # <<>> => told' = told
    PROVE  ChainInv' /\ FileStep
  <1>0. IInv /\ (frames # <<>> => owner # NoOne) /\ ReportedNotLost
    BY DEF ChainInv
  <1>1. /\ durable \in Database /\ told \subseteq Nat
    BY <1>0, ViewsTyped
  <1>2. working' = db
    BY DEF Commit, Defer
  <1>3. frames' # <<>> => owner' # NoOne
    BY <1>0
  <1>4. CASE frames = <<>>
    <2>1. durable' = db /\ savepoints' = <<>>
      BY <1>4 DEF Commit
    <2>2. MayReplace(db, db, n)
      BY ReplaceSelf DEF MayReplace
    <2>3. Follows(durable, db)
      BY DEF MayReplace
    <2>4. ASSUME NEW x \in told' PROVE x \in Hashes(db) \/ x <= db.anchor
      <3>1. CASE x \in Hashes(db)
        BY <3>1
      <3>2. CASE x \in told
        <4>1. x \in Nat /\ (x \in Hashes(durable) \/ x <= durable.anchor)
          BY <1>0, <1>1, <3>2 DEF ReportedNotLost
        <4> QED BY <1>1, <2>3, <4>1, FollowsKeeps
      <3> QED BY <2>4, <3>1, <3>2
    <2>5. ReportedNotLost'
      BY <2>1, <2>4 DEF ReportedNotLost, Hashes
    <2>6. \A k \in 1..Len(savepoints') : MayReplace(db, savepoints'[k].image, n)
      BY <2>1
    <2>7. ChainInv'
      BY <1>2, <1>3, <2>1, <2>2, <2>5, <2>6, ChainInvNext
    <2> QED BY <2>1, <2>7 DEF FileStep
  <1>5. CASE frames # <<>>
    <2>1. durable' = durable /\ savepoints' = savepoints /\ told' = told
      BY <1>5 DEF Defer
    <2>2. /\ MayReplace(durable, durable, n)
          /\ \A k \in 1..Len(savepoints) : MayReplace(durable, savepoints[k].image, n)
      BY ViewsLater
    <2>3. ReportedNotLost'
      BY <1>0, <2>1 DEF ReportedNotLost, Hashes
    <2>4. ChainInv'
      BY <1>2, <1>3, <2>1, <2>2, <2>3, ChainInvNext
    <2> QED BY <2>1, <2>4 DEF FileStep
  <1> QED BY <1>4, <1>5

(* Whoever may enter while a block is open holds the lock. *)
LEMMA EntersOwnBlock ==
    ASSUME ChainInv, NEW t \in Threads, MayEnter(t), frames # <<>>
    PROVE  owner = t
  BY DEF ChainInv, MayEnter

(* write() *)
LEMMA WriteChain ==
    ASSUME ChainInv, NEW t \in Threads, Write(t)
    PROVE  ChainInv' /\ FileStep
  <1>0. IInv
    BY DEF ChainInv
  <1>1. /\ durable \in Database /\ working \in Database /\ hashes \in Nat /\ told \subseteq Nat
        /\ tip \in Hash
    BY <1>0, ViewsTyped
  <1>2. PICK h, db : h = hashes + 1 /\ db = Insert(working, h, tip, "receipt", Genesis)
    OBVIOUS
  <1>3. /\ MayEnter(t) /\ hashes' = h
        /\ IF frames = <<>> THEN Commit(db) ELSE Defer(db)
        /\ told' = IF owner = t THEN told ELSE told \cup {h}
        /\ UNCHANGED <<frames, owner>>
    BY <1>2 DEF Write
  <1>4. h \in Nat /\ h \in Hash /\ hashes < h /\ hashes <= h
    BY <1>1, <1>2 DEF Hash
  <1>5. OneMore(working, db, h, "receipt", Genesis)
    <2>1. "receipt" \in Ops /\ Genesis \in Hash
      BY DEF Ops, Genesis, Hash
    <2> QED BY <1>1, <1>2, <1>4, <2>1, InsertShape
  <1>6. db \in Database /\ Len(working.rows) + 1 \in 1..Len(db.rows) /\ db.rows[Len(working.rows) + 1].hr = h
    <2>1. Len(working.rows) \in Nat
      BY <1>1, DatabaseShape
    <2> QED BY <1>5, <2>1 DEF OneMore
  <1>7. h \in Hashes(db)
    BY <1>6 DEF Hashes
  <1>8. MayReplace(durable, working, hashes)
    BY DEF ChainInv
  <1>9. MayReplace(durable, db, h)
    BY <1>1, <1>4, <1>5, <1>8, ReplaceMore
  <1>10. told' \subseteq told \cup Hashes(db)
    BY <1>3, <1>7
  <1>11. frames # <<>> => told' = told
    BY <1>3, EntersOwnBlock
  <1>12. IInv'
    BY <1>0, WriteStep
  <1> QED BY <1>3, <1>4, <1>6, <1>9, <1>10, <1>11, <1>12, AdvanceChain

(* migrate_schema *)
LEMMA MigrateChain ==
    ASSUME ChainInv, NEW t \in Threads, MigrateSchema(t)
    PROVE  ChainInv' /\ FileStep
  <1>0. IInv
    BY DEF ChainInv
  <1>1. /\ durable \in Database /\ working \in Database /\ hashes \in Nat /\ tip \in Hash
    BY <1>0, ViewsTyped
  <1>2. PICK h, a, db : /\ h = hashes + 1 /\ a = [working EXCEPT !.schema = @ + 1]
                        /\ db = Insert(a, h, tip, "schema_migrated", Genesis)
    OBVIOUS
  <1>3. /\ MayEnter(t) /\ hashes' = h /\ Seam(db) /\ Report(db)
        /\ UNCHANGED <<frames, owner>>
    BY <1>2 DEF MigrateSchema
  <1>4. h \in Nat /\ h \in Hash /\ hashes < h /\ hashes <= h
    BY <1>1, <1>2 DEF Hash
  <1>5. a \in Database /\ a.rows = working.rows /\ a.anchor = working.anchor
    <2>1. a = [rows |-> working.rows, schema |-> working.schema + 1,
               archive |-> working.archive, anchor |-> working.anchor]
      BY <1>1, <1>2 DEF Database
    <2> QED BY <1>1, <2>1 DEF Database
  <1>6. OneMore(a, db, h, "schema_migrated", Genesis)
    <2>1. "schema_migrated" \in Ops /\ Genesis \in Hash
      BY DEF Ops, Genesis, Hash
    <2> QED BY <1>1, <1>2, <1>4, <1>5, <2>1, InsertShape
  <1>7. db \in Database
    BY <1>6 DEF OneMore
  <1>8. MayReplace(durable, working, hashes) /\ Ordered(durable, hashes)
    BY DEF ChainInv, MayReplace
  <1>9. MayReplace(durable, db, h)
    BY <1>1, <1>4, <1>5, <1>6, <1>8, ReplaceMigrated
  <1>10. told' \subseteq told \cup Hashes(db) /\ (frames # <<>> => told' = told)
    BY <1>3 DEF Report
  <1>11. IF frames = <<>> THEN Commit(db) ELSE Defer(db)
    BY <1>0, <1>3 DEF Seam, IInv, FileAgrees
  <1>12. IInv'
    BY <1>0, MigrateStep
  <1> QED BY <1>3, <1>4, <1>7, <1>9, <1>10, <1>11, <1>12, AdvanceChain

(* seal_and_prune_epoch *)
LEMMA PruneChain ==
    ASSUME ChainInv, NEW t \in Threads, NEW i \in 1..Len(working.rows), SealAndPruneEpoch(t, i)
    PROVE  ChainInv' /\ FileStep
  <1>0. IInv
    BY DEF ChainInv
  <1>1. /\ durable \in Database /\ working \in Database /\ hashes \in Nat /\ tip \in Hash
    BY <1>0, ViewsTyped
  <1>2. PICK h, x, s, p : /\ h = hashes + 1 /\ x = working.rows[i].hr
                          /\ s = Insert(working, h, tip, "epoch_sealed", x)
                          /\ p = Insert(s, h + 1, h, "epoch_pruned", x)
    OBVIOUS
  <1>3. PICK rs, db : rs = SubSeq(p.rows, i + 1, Len(p.rows)) /\ db = [p EXCEPT !.rows = rs, !.anchor = x]
    OBVIOUS
  <1>4. /\ MayEnter(t) /\ hashes' = h + 1 /\ Seam(db) /\ Report(db)
        /\ UNCHANGED <<frames, owner>>
    BY <1>2, <1>3 DEF SealAndPruneEpoch
  <1>5. h \in Nat /\ h + 1 \in Nat /\ hashes < h /\ hashes <= h + 1 /\ x \in Hash
    BY <1>1, <1>2, DatabaseShape DEF Hash
  <1>6. OneMore(working, s, h, "epoch_sealed", x)
    <2>1. "epoch_sealed" \in Ops /\ h \in Hash
      BY <1>5 DEF Ops, Hash
    <2> QED BY <1>1, <1>2, <1>5, <2>1, InsertShape
  <1>7. s \in Database
    BY <1>6 DEF OneMore
  <1>8. OneMore(s, p, h + 1, "epoch_pruned", x)
    <2>1. "epoch_pruned" \in Ops /\ h \in Hash /\ h + 1 \in Hash
      BY <1>5 DEF Ops, Hash
    <2> QED BY <1>2, <1>5, <1>7, <2>1, InsertShape
  <1>9. p \in Database
    BY <1>8 DEF OneMore
  <1>10. i \in 1..Len(s.rows) /\ i \in 1..Len(p.rows) /\ p.rows[i] = working.rows[i]
    <2>1. Len(working.rows) \in Nat
      BY <1>1, DatabaseShape
    <2>2. i \in 1..Len(s.rows) /\ s.rows[i] = working.rows[i] /\ Len(s.rows) \in Nat
      BY <1>6, <2>1 DEF OneMore
    <2> QED BY <1>8, <2>2 DEF OneMore
  <1>11. db.rows = rs /\ db.anchor = x /\ db \in Database
    <2>1. db = [rows |-> rs, schema |-> p.schema, archive |-> p.archive, anchor |-> x]
      BY <1>3, <1>9, UpdateRows
    <2>2. rs \in Seq(Row)
      <3>1. p.rows \in Seq(Row) /\ Len(p.rows) \in Nat
        BY <1>9, DatabaseShape
      <3> QED BY <1>3, <1>10, <3>1
    <2> QED BY <1>5, <1>9, <2>1, <2>2 DEF Database
  <1>12. CutAt(p, db, i)
    BY <1>2, <1>3, <1>9, <1>10, <1>11, CutShape
  <1>13. MayReplace(durable, working, hashes)
    BY DEF ChainInv
  <1>14. MayReplace(durable, db, h + 1)
    <2>1. /\ OneMore(working, s, h, "epoch_sealed", working.rows[i].hr)
          /\ OneMore(s, p, h + 1, "epoch_pruned", working.rows[i].hr)
      BY <1>2, <1>6, <1>8
    <2>2. db \in Database
      BY <1>11
    <2>3. h \in Nat /\ hashes < h
      BY <1>5
    <2> QED BY <1>1, <1>7, <1>9, <1>12, <1>13, <2>1, <2>2, <2>3, ReplacePruned, ZenonT(30)
  <1>15. told' \subseteq told \cup Hashes(db) /\ (frames # <<>> => told' = told)
    BY <1>4 DEF Report
  <1>16. IF frames = <<>> THEN Commit(db) ELSE Defer(db)
    BY <1>0, <1>4 DEF Seam, IInv, FileAgrees
  <1>17. IInv'
    BY <1>0, PruneStep
  <1> QED BY <1>4, <1>5, <1>11, <1>14, <1>15, <1>16, <1>17, AdvanceChain

(* seal_legend and its like *)
LEMMA ArchiveChain ==
    ASSUME ChainInv, NEW t \in Threads, NEW a \in Archived, SealArchive(t, a)
    PROVE  ChainInv' /\ FileStep
  <1>0. IInv
    BY DEF ChainInv
  <1>1. /\ durable \in Database /\ working \in Database /\ hashes \in Nat
    BY <1>0, ViewsTyped
  <1>2. PICK s, db : s = working.archive \cup {a} /\ db = [working EXCEPT !.archive = s]
    OBVIOUS
  <1>3. /\ frames = <<>> /\ Commit(db) /\ UNCHANGED <<frames, owner>> /\ told' = told /\ hashes' = hashes
    BY <1>2 DEF SealArchive
  <1>4. /\ db.rows = working.rows /\ db.anchor = working.anchor /\ db.schema = working.schema
        /\ db \in Database
    <2>1. db = [rows |-> working.rows, schema |-> working.schema, archive |-> s, anchor |-> working.anchor]
      BY <1>1, <1>2, UpdateArchive
    <2> QED BY <1>1, <1>2, <2>1 DEF Database
  <1>5. MayReplace(durable, working, hashes)
    BY DEF ChainInv
  <1>6. MayReplace(durable, db, hashes)
    BY <1>4, <1>5, ReplaceBeside
  <1>7. hashes <= hashes /\ told' \subseteq told \cup Hashes(db) /\ (frames # <<>> => told' = told)
        /\ IF frames = <<>> THEN Commit(db) ELSE Defer(db)
    BY <1>1, <1>3
  <1>8. IInv'
    BY <1>0, ArchiveStep
  <1> QED BY <1>1, <1>3, <1>4, <1>6, <1>7, <1>8, AdvanceChain

(* The file, the hashes and what was reported stay, and the views are old ones. *)
LEMMA ViewsKept ==
    ASSUME ChainInv, IInv', durable' = durable, hashes' = hashes, told' = told,
           NEW w, w = working',
           \/ w = durable
           \/ w = working
           \/ \E k \in 1..Len(savepoints) : w = savepoints[k].image,
           \A k \in 1..Len(savepoints') :
              \/ savepoints'[k].image = working
              \/ k \in 1..Len(savepoints) /\ savepoints'[k] = savepoints[k],
           frames' # <<>> => owner' # NoOne
    PROVE  ChainInv' /\ FileStep
  <1>0. /\ MayReplace(durable, durable, hashes) /\ MayReplace(durable, working, hashes)
        /\ \A k \in 1..Len(savepoints) : MayReplace(durable, savepoints[k].image, hashes)
        /\ ReportedNotLost
    BY DEF ChainInv
  <1>1. MayReplace(durable, w, hashes)
    BY <1>0
  <1>2. \A k \in 1..Len(savepoints') : MayReplace(durable, savepoints'[k].image, hashes)
    BY <1>0
  <1>3. ReportedNotLost'
    BY <1>0 DEF ReportedNotLost, Hashes
  <1>4. ChainInv'
    BY <1>0, <1>1, <1>2, <1>3, ChainInvNext
  <1> QED BY <1>4 DEF FileStep

(* Entering a block. *)
LEMMA EnterChain ==
    ASSUME ChainInv, NEW t \in Threads, Enter(t)
    PROVE  ChainInv' /\ FileStep
  <1>0. IInv
    BY DEF ChainInv
  <1>1. PICK sp : sp = [name |-> Depth + 1, image |-> working, outermost |-> ~inTx]
    OBVIOUS
  <1>2. /\ savepoints' = Append(savepoints, sp) /\ owner' = t
        /\ durable' = durable /\ working' = working /\ hashes' = hashes /\ told' = told
    BY <1>1 DEF Enter
  <1>3. sp \in Savepoint /\ savepoints \in Seq(Savepoint) /\ sp.image = working
    <2>1. Depth \in Nat /\ savepoints \in Seq(Savepoint)
      BY <1>0 DEF IInv, TypeOK, Depth, Savepoint
    <2>2. working \in Database /\ inTx \in BOOLEAN
      BY <1>0 DEF IInv, TypeOK
    <2> QED BY <1>1, <2>1, <2>2 DEF Savepoint
  <1>4. PICK l : l = Len(savepoints)
    OBVIOUS
  <1>5. /\ l \in Nat /\ Len(savepoints') = l + 1 /\ savepoints'[l + 1] = sp
        /\ \A k \in 1..l : savepoints'[k] = savepoints[k]
    BY <1>2, <1>3, <1>4
  <1>6. \A k \in 1..Len(savepoints') :
           \/ savepoints'[k].image = working
           \/ k \in 1..Len(savepoints) /\ savepoints'[k] = savepoints[k]
    <2>1. \A k \in 1..(l + 1) : k \in 1..l \/ k = l + 1
      BY <1>5
    <2> QED BY <1>3, <1>4, <1>5, <2>1
  <1>7. IInv'
    BY <1>0, EnterStep
  <1>8. owner' # NoOne
    BY <1>2, NoOneAssumption
  <1> QED BY <1>2, <1>6, <1>7, <1>8, ViewsKept

(* What an exit leaves of the stacks. *)
LEMMA PopViews ==
    ASSUME ChainInv, SavepointLive, savepoints' = SubSeq(savepoints, 1, Len(savepoints) - 1),
           NEW n, n = Len(savepoints)
    PROVE  /\ n \in Nat \ {0} /\ Len(savepoints') = n - 1 /\ n = Depth
           /\ savepoints[n].outermost <=> n = 1
           /\ \A k \in 1..Len(savepoints') : k \in 1..Len(savepoints) /\ savepoints'[k] = savepoints[k]
  <1>0. IInv
    BY DEF ChainInv
  <1>1. savepoints \in Seq(Savepoint) /\ Len(savepoints) = Len(frames) /\ n \in Nat
    <2>1. savepoints \in Seq(Savepoint)
      BY <1>0 DEF IInv, TypeOK, Savepoint
    <2> QED BY <1>0, <2>1, LenProperties DEF IInv, StacksAgree
  <1>2. n # 0
    BY <1>1, EmptySeq DEF SavepointLive
  <1>3. 1 \in Nat /\ n - 1 \in 0..Len(savepoints)
    BY <1>1, <1>2
  <1>4. Len(savepoints') = n - 1 /\ \A k \in 1..(n - 1) : savepoints'[k] = savepoints[k]
    BY <1>1, <1>2, <1>3, SubSeqProperties
  <1>5. savepoints[n].outermost <=> n = 1
    <2>1. n \in 1..Len(frames)
      BY <1>1, <1>2
    <2>2. savepoints[n].outermost = (n = 1)
      BY <1>0, <2>1 DEF IInv, StacksAgree
    <2> QED BY <2>2
  <1>6. \A k \in 1..(n - 1) : k \in 1..n
    BY <1>1
  <1> QED BY <1>1, <1>2, <1>4, <1>5, <1>6 DEF Depth

(* Leaving a block cleanly: the outermost one replaces the file. *)
LEMMA ExitCleanChain ==
    ASSUME ChainInv, NEW t \in Threads, ExitClean(t)
    PROVE  ChainInv' /\ FileStep
  <1>0. IInv /\ ReportedNotLost /\ MayReplace(durable, working, hashes)
    BY DEF ChainInv
  <1>1. PICK n : n = Len(savepoints)
    OBVIOUS
  <1>2. /\ owner = t /\ SavepointLive /\ savepoints' = SubSeq(savepoints, 1, Len(savepoints) - 1)
        /\ durable' = IF savepoints[n].outermost THEN working ELSE durable
        /\ told' = IF Depth = 1 THEN told \cup Hashes(working) ELSE told
        /\ owner' = IF Depth = 1 THEN NoOne ELSE owner
        /\ frames' = SubSeq(frames, 1, Depth - 1)
        /\ working' = working /\ hashes' = hashes
    BY <1>1 DEF ExitClean, PopFrame
  <1>3. /\ n \in Nat \ {0} /\ Len(savepoints') = n - 1 /\ n = Depth
        /\ savepoints[n].outermost <=> n = 1
        /\ \A k \in 1..Len(savepoints') : k \in 1..Len(savepoints) /\ savepoints'[k] = savepoints[k]
    BY <1>1, <1>2, PopViews
  <1>4. IInv'
    BY <1>0, ExitCleanStep
  <1>5. frames' = <<>> <=> n = 1
    <2>1. frames' = <<>> <=> Len(frames) = 1
      BY <1>0, <1>2, PopStacks
    <2> QED BY <1>3, <2>1 DEF Depth
  <1>6. frames' # <<>> => owner' # NoOne
    BY <1>2, <1>3, <1>5, NoOneAssumption
  <1>7. CASE n = 1
    <2>1. durable' = working /\ told' = told \cup Hashes(working) /\ Len(savepoints') = 0
      BY <1>2, <1>3, <1>7
    <2>2. durable \in Database /\ working \in Database /\ told \subseteq Nat
      BY <1>0, ViewsTyped
    <2>3. MayReplace(working, working, hashes)
      BY <1>0, <2>2, ReplaceSelf DEF MayReplace
    <2>4. Follows(durable, working)
      BY <1>0 DEF MayReplace
    <2>5. ASSUME NEW x \in told' PROVE x \in Hashes(working) \/ x <= working.anchor
      <3>1. CASE x \in told
        <4>1. x \in Nat /\ (x \in Hashes(durable) \/ x <= durable.anchor)
          BY <1>0, <2>2, <3>1 DEF ReportedNotLost
        <4> QED BY <2>2, <2>4, <4>1, FollowsKeeps
      <3> QED BY <2>1, <2>5, <3>1
    <2>6. ReportedNotLost'
      BY <2>1, <2>5 DEF ReportedNotLost, Hashes
    <2>7. \A k \in 1..Len(savepoints') : MayReplace(working, savepoints'[k].image, hashes)
      BY <2>1
    <2>8. ChainInv'
      BY <1>2, <1>4, <1>6, <2>1, <2>3, <2>6, <2>7, ChainInvNext
    <2> QED BY <1>0, <1>2, <2>1, <2>8 DEF FileStep
  <1>8. CASE n # 1
    <2>1. durable' = durable /\ told' = told
      BY <1>2, <1>3, <1>8
    <2> QED BY <1>2, <1>3, <1>4, <1>6, <2>1, ViewsKept
  <1> QED BY <1>7, <1>8

(* Rolling a block back. *)
LEMMA ExitRollbackChain ==
    ASSUME ChainInv, NEW t \in Threads, ExitRollback(t)
    PROVE  ChainInv' /\ FileStep
  <1>0. IInv
    BY DEF ChainInv
  <1>1. PICK n : n = Len(savepoints)
    OBVIOUS
  <1>2. /\ owner = t /\ SavepointLive /\ savepoints' = SubSeq(savepoints, 1, Len(savepoints) - 1)
        /\ working' = savepoints[n].image
        /\ owner' = IF Depth = 1 THEN NoOne ELSE owner
        /\ frames' = SubSeq(frames, 1, Depth - 1)
        /\ durable' = durable /\ hashes' = hashes /\ told' = told
    BY <1>1 DEF ExitRollback, PopFrame
  <1>3. /\ n \in Nat \ {0} /\ Len(savepoints') = n - 1 /\ n = Depth
        /\ \A k \in 1..Len(savepoints') : k \in 1..Len(savepoints) /\ savepoints'[k] = savepoints[k]
    BY <1>1, <1>2, PopViews
  <1>4. IInv'
    BY <1>0, ExitRollbackStep
  <1>5. frames' = <<>> <=> n = 1
    <2>1. frames' = <<>> <=> Len(frames) = 1
      BY <1>0, <1>2, PopStacks
    <2> QED BY <1>3, <2>1 DEF Depth
  <1>6. frames' # <<>> => owner' # NoOne
    BY <1>2, <1>3, <1>5, NoOneAssumption
  <1>7. \E k \in 1..Len(savepoints) : working' = savepoints[k].image
    <2>1. n \in 1..Len(savepoints)
      BY <1>1, <1>3
    <2> QED BY <1>2, <2>1
  <1> QED BY <1>2, <1>3, <1>4, <1>6, <1>7, ViewsKept

(* A restart. *)
LEMMA CrashChain ==
    ASSUME ChainInv, CrashReopen
    PROVE  ChainInv' /\ FileStep
  <1>0. IInv
    BY DEF ChainInv
  <1>1. /\ working' = durable /\ savepoints' = <<>> /\ frames' = <<>>
        /\ durable' = durable /\ hashes' = hashes /\ told' = told
    BY DEF CrashReopen
  <1>2. IInv'
    BY <1>0, CrashStep
  <1>3. Len(savepoints') = 0
    BY <1>1
  <1>4. \A k \in 1..Len(savepoints') :
           \/ savepoints'[k].image = working
           \/ k \in 1..Len(savepoints) /\ savepoints'[k] = savepoints[k]
    BY <1>3
  <1> QED BY <1>1, <1>2, <1>4, ViewsKept
-----------------------------------------------------------------------------
(* The theorems.                                                            *)

(* An empty store satisfies the invariant. *)
LEMMA ChainInit == Init => ChainInv
  <1> SUFFICES ASSUME Init PROVE ChainInv
    OBVIOUS
  <1>1. IInv
    BY InitIInv
  <1>2. /\ durable = EmptyDatabase /\ working = EmptyDatabase /\ savepoints = <<>> /\ frames = <<>>
        /\ hashes = 0 /\ told = {}
    BY DEF Init
  <1>3. EmptyDatabase.rows = <<>> /\ EmptyDatabase.anchor = 0 /\ Len(EmptyDatabase.rows) = 0
    BY DEF EmptyDatabase, Genesis
  <1>4. Ordered(EmptyDatabase, 0)
    BY <1>3 DEF Ordered
  <1>5. AnchorNamed(EmptyDatabase)
    BY <1>3 DEF AnchorNamed, Genesis
  <1>6. EmptyDatabase \in Database
    BY <1>1, <1>2, ViewsTyped
  <1>7. MayReplace(EmptyDatabase, EmptyDatabase, 0)
    BY <1>4, <1>5, <1>6, ReplaceSelf
  <1>8. Len(savepoints) = 0
    BY <1>2
  <1> QED BY <1>1, <1>2, <1>7, <1>8 DEF ChainInv, ReportedNotLost

(* Every step keeps the invariant and replaces the file by a view that may replace it. *)
LEMMA ChainNext == ChainInv /\ [Next]_vars => ChainInv' /\ FileStep
  <1> SUFFICES ASSUME ChainInv, [Next]_vars PROVE ChainInv' /\ FileStep
    OBVIOUS
  <1>1. CASE CrashReopen
    BY <1>1, CrashChain
  <1>2. ASSUME NEW t \in Threads, StoreCall(t) PROVE ChainInv' /\ FileStep
    BY <1>2, WriteChain, EnterChain, ExitCleanChain, ExitRollbackChain, MigrateChain, PruneChain,
       ArchiveChain DEF StoreCall
  <1>3. CASE UNCHANGED vars
    <2>1. IInv /\ IInv'
      BY <1>3, NextIInv DEF ChainInv
    <2>2. /\ durable' = durable /\ working' = working /\ savepoints' = savepoints
          /\ frames' = frames /\ owner' = owner /\ hashes' = hashes /\ told' = told
      BY <1>3 DEF vars
    <2>3. frames # <<>> => owner # NoOne
      BY DEF ChainInv
    <2> QED BY <2>1, <2>2, <2>3, ViewsKept
  <1> QED BY <1>1, <1>2, <1>3 DEF Next

(* The file and every view that may replace it stay in that relation. *)
THEOREM ChainInvariance == Spec => []ChainInv
  <1>1. ChainInv /\ [Next]_vars => ChainInv'
    BY ChainNext
  <1> QED BY <1>1, ChainInit, PTL DEF Spec

(***************************************************************************)
(* A receipt a caller was given is in the file or below its anchor, after  *)
(* every rollback, failed RELEASE, prune and restart.                      *)
(***************************************************************************)
THEOREM ReportedIsKept == Spec => []ReportedNotLost
  <1>1. ChainInv => ReportedNotLost
    BY DEF ChainInv
  <1> QED BY <1>1, ChainInvariance, PTL

(* The newest epoch_pruned receipt in the file names the anchor it verifies from. *)
THEOREM AnchorIsRecoverable == Spec => []AnchorRecoverable
  <1>1. ChainInv => AnchorRecoverable
    BY Zenon DEF ChainInv, MayReplace, AnchorNamed, AnchorRecoverable
  <1> QED BY <1>1, ChainInvariance, PTL

(***************************************************************************)
(* No commit alters the schema without a schema_migrated receipt the file  *)
(* had not, unless the same commit prunes.                                 *)
(***************************************************************************)
THEOREM SchemaChangesAreReceipted == Spec => SchemaChangeReceipted
  <1>1. ASSUME ChainInv, [Next]_vars
        PROVE  [durable'.schema # durable.schema =>
                  \/ durable'.anchor # durable.anchor
                  \/ \E i \in 1..Len(durable'.rows) :
                        /\ durable'.rows[i].op = "schema_migrated"
                        /\ durable'.rows[i].hr \notin Hashes(durable)]_durable
    <2>1. FileStep
      BY <1>1, ChainNext
    <2>2. CASE durable' = durable
      BY <2>2
    <2>3. CASE MayReplace(durable, durable', hashes')
      BY <2>3 DEF MayReplace, SchemaExplained
    <2> QED BY <2>1, <2>2, <2>3 DEF FileStep
  <1> QED BY <1>1, ChainInvariance, PTL DEF Spec, SchemaChangeReceipted

(* A file replaced by a view that may replace it: one commit of the abstract chain. *)
LEMMA CommitRefines ==
    ASSUME ChainInv, IInv', MayReplace(durable, durable', hashes')
    PROVE  Chain!Commit
  <1>1. PICK d, e : d = durable /\ e = durable'
    OBVIOUS
  <1>2. d \in Database /\ e \in Database
    BY <1>1 DEF ChainInv, IInv, TypeOK, Database, Hash, Row
  <1>3. d.rows \in Seq(Row) /\ e.rows \in Seq(Row) /\ Len(d.rows) \in Nat /\ Len(e.rows) \in Nat
        /\ d.anchor \in Nat /\ e.anchor \in Nat
    BY <1>2, DatabaseShape
  <1>4. Follows(d, e) /\ AnchorNamed(e)
    BY <1>1 DEF MayReplace
  <1>5. PICK k \in 0..Len(d.rows) : LosesPrefix(d, e, k)
    BY <1>4 DEF Follows
  <1>6. PICK n : n = Len(d.rows) - k
    OBVIOUS
  <1>7. n \in 0..Len(d.rows) /\ n <= Len(e.rows) /\ k + n = Len(d.rows)
    BY <1>3, <1>5, <1>6 DEF LosesPrefix
  <1>8. SubSeq(e.rows, 1, n) = SubSeq(d.rows, k + 1, Len(d.rows))
    <2>1. PICK u, v : u = SubSeq(e.rows, 1, n) /\ v = SubSeq(d.rows, k + 1, Len(d.rows))
      OBVIOUS
    <2>2. u \in Seq(Row) /\ Len(u) = n /\ \A j \in 1..n : u[j] = e.rows[j]
      BY <1>3, <1>7, <2>1
    <2>3. v \in Seq(Row) /\ Len(v) = n /\ \A j \in 1..n : v[j] = d.rows[j + k]
      BY <1>3, <1>5, <1>6, <1>7, <2>1, SMTT(30)
    <2>4. \A j \in 1..n : e.rows[j] = d.rows[j + k]
      BY <1>5, <1>6 DEF LosesPrefix
    <2>5. \A j \in 1..Len(u) : u[j] = v[j]
      BY <2>2, <2>3, <2>4
    <2>6. u = v
      BY <2>2, <2>3, <2>5, SeqEqual
    <2> QED BY <2>1, <2>6
  <1>9. \A i \in 1..Len(e.rows) : e.rows[i].parent = IF i = 1 THEN e.anchor ELSE e.rows[i - 1].hr
    BY <1>1 DEF IInv, Linked
  <1>10. k > 0 => e.anchor # d.anchor
    BY <1>5 DEF LosesPrefix
  <1>11. e.anchor # d.anchor =>
            \E j \in 1..Len(e.rows) : e.rows[j].op = "epoch_pruned" /\ e.rows[j].ref = e.anchor
    <2> SUFFICES ASSUME e.anchor # d.anchor
                 PROVE  \E j \in 1..Len(e.rows) : e.rows[j].op = "epoch_pruned" /\ e.rows[j].ref = e.anchor
      OBVIOUS
    <2>1. e.anchor # Genesis
      BY <1>3, <1>4 DEF Follows, Genesis
    <2> QED BY <1>4, <2>1 DEF AnchorNamed
  <1>12. Len(e.rows) >= Len(d.rows) - k
    BY <1>5 DEF LosesPrefix
  <1> QED BY <1>1, <1>5, <1>6, <1>8, <1>9, <1>10, <1>11, <1>12 DEF Chain!Commit, Chain!Linked

(***************************************************************************)
(* Refinement: seen through the file alone, the store with its threads,    *)
(* blocks, savepoints, rollbacks and restarts is the abstract receipt      *)
(* chain, whose every commit keeps a verifiable suffix and grows it.       *)
(***************************************************************************)
THEOREM StoreImplementsChain == Spec => ImplementsReceiptChain
  <1>1. Init => Chain!Init
    BY DEF Init, Chain!Init, EmptyDatabase
  <1>2. ASSUME ChainInv, [Next]_vars PROVE [Chain!Commit]_<<durable.rows, durable.anchor>>
    <2>1. ChainInv' /\ FileStep
      BY <1>2, ChainNext
    <2>2. CASE durable' = durable
      BY <2>2
    <2>3. CASE MayReplace(durable, durable', hashes')
      <3>1. IInv'
        BY <2>1 DEF ChainInv
      <3> QED BY <1>2, <2>3, <3>1, CommitRefines
    <2> QED BY <2>1, <2>2, <2>3 DEF FileStep
  <1> QED BY <1>1, <1>2, ChainInvariance, PTL DEF Spec, ImplementsReceiptChain, Chain!Spec
=============================================================================
