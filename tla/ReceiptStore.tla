---------------------------- MODULE ReceiptStore ----------------------------
(***************************************************************************)
(* UGKReceiptStore: the receipt chain over one shared SQLite connection.   *)
(*                                                                         *)
(* Three views of the chain must agree: what the file holds, what the      *)
(* connection sees (uncommitted rows included), and the Python-side        *)
(* frontier _prior_h_r that the next receipt will name as its parent.  No  *)
(* SAVEPOINT can revert the last one.                                      *)
(*                                                                         *)
(* A receipt's h_r commits to its content, its timestamp and its parent,   *)
(* so it is modelled as a name never used before: the n-th hash computed.  *)
(***************************************************************************)
EXTENDS Naturals, Sequences

CONSTANTS
    Threads,     \* threads sharing the store object
    NoOne,       \* the lock is free
    Archived,    \* legend, scope and authority-model versions to archive
    MaxHashes,   \* bound: receipts ever written
    MaxDepth,    \* bound: nesting of store.transaction()
    MaxSchema    \* bound: schema migrations

ASSUME NoOneAssumption == NoOne \notin Threads
ASSUME BoundsAssumption ==
    MaxHashes \in Nat /\ MaxDepth \in Nat /\ MaxSchema \in Nat

VARIABLES
    durable,     \* the database file
    working,     \* the database as the connection sees it
    inTx,        \* an SQLite transaction is open on the connection
    savepoints,  \* SQLite's savepoint stack
    tip,         \* _prior_h_r
    schemaHash,  \* _schema_hash
    frames,      \* the open store.transaction() blocks: what each saved
    owner,       \* holder of _lock between two calls
    hashes,      \* hashes computed so far
    told         \* receipts whose write or transaction was reported a success

vars == <<durable, working, inTx, savepoints, tip, schemaHash, frames, owner,
          hashes, told>>

Genesis == 0
Hash == Nat
Row == [hr : Hash, parent : Hash, ref : Hash,
        op : {"receipt", "schema_migrated", "epoch_sealed", "epoch_pruned"}]

(***************************************************************************)
(* anchor is no column: it is the seal_hash recorded by the newest         *)
(* epoch_pruned receipt, which an operator hands to verify_from_seal.      *)
(***************************************************************************)
Database == [rows : Seq(Row), schema : Nat, archive : SUBSET Archived, anchor : Hash]

EmptyDatabase == [rows |-> <<>>, schema |-> 0, archive |-> {}, anchor |-> Genesis]

Hashes(db) == {db.rows[i].hr : i \in 1..Len(db.rows)}

(* Faulty StreamHash: ORDER BY without DESC. *)
StreamHashOldest(db) ==
    IF db.rows = <<>> THEN Genesis ELSE db.rows[1].hr

(* The h_r of the newest row: what __init__ hydrates and stream_hash() reads. *)
StreamHash(db) ==
    IF db.rows = <<>> THEN Genesis ELSE db.rows[Len(db.rows)].hr

(* _verify_segment *)
Linked(rs, a) ==
    \A i \in 1..Len(rs) : rs[i].parent = IF i = 1 THEN a ELSE rs[i - 1].hr

(* The state of the store object and of the database under it. *)
TypeOK ==
    /\ durable \in Database
    /\ working \in Database
    /\ inTx \in BOOLEAN
    /\ savepoints \in Seq([name : Nat, image : Database, outermost : BOOLEAN])
    /\ tip \in Hash
    /\ schemaHash \in Nat
    /\ frames \in Seq([tip : Hash, schema : Nat])
    /\ owner \in Threads \cup {NoOne}
    /\ hashes \in Nat
    /\ told \in SUBSET Hash

Init ==
    /\ durable = EmptyDatabase
    /\ working = EmptyDatabase
    /\ inTx = FALSE
    /\ savepoints = <<>>
    /\ tip = Genesis
    /\ schemaHash = 0
    /\ frames = <<>>
    /\ owner = NoOne
    /\ hashes = 0
    /\ told = {}

-----------------------------------------------------------------------------
(* The connection.                                                          *)

(* conn.commit(): everything pending becomes durable, all savepoints vanish. *)
Commit(db) ==
    /\ durable' = db
    /\ working' = db
    /\ inTx' = FALSE
    /\ savepoints' = <<>>

(* Faulty Defer: write() commits at any depth. *)
DeferByCommitting(db) == Commit(db)

(* A statement inside an open transaction; sqlite3 opens one if need be. *)
Defer(db) ==
    /\ working' = db
    /\ inTx' = TRUE
    /\ UNCHANGED <<durable, savepoints>>

(* A whole SAVEPOINT ... RELEASE: durable only if it began the transaction. *)
Seam(db) == IF inTx THEN Defer(db) ELSE Commit(db)

(* Faulty INSERTs: a stale parent, a lost seal reference, a generic op. *)
InsertStaleParent(db, h, parent, op, ref) ==
    [db EXCEPT !.rows =
        Append(@, [hr |-> h, parent |-> parent - 1, op |-> op, ref |-> ref])]

InsertUnreferenced(db, h, parent, op, ref) ==
    [db EXCEPT !.rows =
        Append(@, [hr |-> h, parent |-> parent, op |-> op, ref |-> Genesis])]

InsertGeneric(db, h, parent, op, ref) ==
    [db EXCEPT !.rows =
        Append(@, [hr |-> h, parent |-> parent, op |-> "receipt", ref |-> ref])]

(* The INSERT of write(): the new row's parent is the in-memory frontier. *)
Insert(db, h, parent, op, ref) ==
    [db EXCEPT !.rows =
        Append(@, [hr |-> h, parent |-> parent, op |-> op, ref |-> ref])]

(* Faulty MayEnter: no lock. *)
AnyoneMayEnter(t) == t \in Threads

(* The RLock: free, or already held by this thread. *)
MayEnter(t) == owner \in {NoOne, t}

-----------------------------------------------------------------------------
(* write().  A caller outside any block of its own has its receipt at once.  *)

Write(t) ==
    /\ MayEnter(t)
    /\ hashes < MaxHashes
    /\ LET h == hashes + 1
           db == Insert(working, h, tip, "receipt", Genesis)
       IN  /\ IF frames = <<>> THEN Commit(db) ELSE Defer(db)
           /\ told' = IF owner = t THEN told ELSE told \cup {h}
           /\ tip' = h
           /\ hashes' = h
    /\ UNCHANGED <<schemaHash, frames, owner>>

-----------------------------------------------------------------------------
(* transaction(): SAVEPOINT plus a snapshot of the in-memory frontier.      *)

Depth == Len(frames)

Enter(t) ==
    /\ MayEnter(t)
    /\ Depth < MaxDepth
    /\ savepoints' = Append(savepoints,
           [name |-> Depth + 1, image |-> working, outermost |-> ~inTx])
    /\ inTx' = TRUE
    /\ frames' = Append(frames, [tip |-> tip, schema |-> schemaHash])
    /\ owner' = t
    /\ UNCHANGED <<durable, working, tip, schemaHash, hashes, told>>

(* The innermost block's savepoint still exists. *)
SavepointLive ==
    /\ savepoints # <<>>
    /\ savepoints[Len(savepoints)].name = Depth

PopFrame ==
    /\ frames' = SubSeq(frames, 1, Depth - 1)
    /\ owner' = IF Depth = 1 THEN NoOne ELSE owner

(* Faulty RestoreFrontier: SQLite rolls back, the Python attributes do not. *)
KeepFrontier == UNCHANGED <<tip, schemaHash>>

RestoreFrontier ==
    /\ tip' = frames[Depth].tip
    /\ schemaHash' = frames[Depth].schema

(* Clean exit: RELEASE, which commits when the savepoint began the transaction. *)
ExitClean(t) ==
    /\ owner = t
    /\ SavepointLive
    /\ LET outermost == savepoints[Len(savepoints)].outermost
       IN  /\ durable' = IF outermost THEN working ELSE durable
           /\ inTx' = ~outermost
           /\ told' = IF Depth = 1 THEN told \cup Hashes(working) ELSE told
    /\ savepoints' = SubSeq(savepoints, 1, Len(savepoints) - 1)
    /\ PopFrame
    /\ UNCHANGED <<working, tip, schemaHash, hashes>>

(***************************************************************************)
(* ROLLBACK TO + RELEASE, then the snapshot is restored: the exit of a     *)
(* block whose body raised, and of one whose RELEASE failed.  The caller   *)
(* sees an exception, and an enclosing block may catch it and go on.       *)
(***************************************************************************)
ExitRollback(t) ==
    /\ owner = t
    /\ SavepointLive
    /\ working' = savepoints[Len(savepoints)].image
    /\ inTx' = ~savepoints[Len(savepoints)].outermost
    /\ savepoints' = SubSeq(savepoints, 1, Len(savepoints) - 1)
    /\ RestoreFrontier
    /\ PopFrame
    /\ UNCHANGED <<durable, hashes, told>>

-----------------------------------------------------------------------------
(* Governed transitions that the store runs in a block of its own.  Their  *)
(* lock is held throughout, so a failure leaves no trace at all.           *)

(* Rows reported to the caller once the outermost block has committed. *)
Report(db) == told' = IF frames = <<>> THEN told \cup Hashes(db) ELSE told

MigrateSchema(t) ==
    /\ MayEnter(t)
    /\ hashes < MaxHashes
    /\ working.schema < MaxSchema
    /\ LET h == hashes + 1
           altered == [working EXCEPT !.schema = @ + 1]
           db == Insert(altered, h, tip, "schema_migrated", Genesis)
       IN  /\ Seam(db)
           /\ Report(db)
           /\ tip' = h
           /\ hashes' = h
           /\ schemaHash' = db.schema
    /\ UNCHANGED <<frames, owner>>

(***************************************************************************)
(* seal_and_prune_epoch(seal_hash of row i): refuses unless the frontier   *)
(* chains from the seal, appends two provenance receipts, deletes the      *)
(* prefix, and commits only if the retained chain verifies from the seal.  *)
(***************************************************************************)
SealAndPruneEpoch(t, i) ==
    /\ MayEnter(t)
    /\ hashes + 1 < MaxHashes
    /\ LET rs == working.rows
           seal == rs[i].hr
           h == hashes + 1
           frontier == SubSeq(rs, i + 1, Len(rs))
           sealed == Insert(working, h, tip, "epoch_sealed", seal)
           pruned == Insert(sealed, h + 1, h, "epoch_pruned", seal)
           kept == SubSeq(pruned.rows, i + 1, Len(pruned.rows))
           db == [pruned EXCEPT !.rows = kept, !.anchor = seal]
       IN  /\ \A j \in 1..(i - 1) : rs[j].hr # seal
           /\ Linked(frontier, seal)
           /\ StreamHash(db) = StreamHash(pruned)
           /\ Linked(kept, seal)
           /\ Seam(db)
           /\ Report(db)
           /\ tip' = h + 1
           /\ hashes' = h + 1
    /\ UNCHANGED <<schemaHash, frames, owner>>

(* seal_legend, seal_scope, seal_authority_model: INSERT OR IGNORE + commit. *)
SealArchive(t, a) ==
    /\ MayEnter(t)
    /\ frames = <<>>
    /\ Commit([working EXCEPT !.archive = @ \cup {a}])
    /\ UNCHANGED <<tip, schemaHash, frames, owner, hashes, told>>

(* The process dies with whatever was pending; __init__ opens the file again. *)
CrashReopen ==
    /\ working' = durable
    /\ inTx' = FALSE
    /\ savepoints' = <<>>
    /\ tip' = StreamHash(durable)
    /\ schemaHash' = durable.schema
    /\ frames' = <<>>
    /\ owner' = NoOne
    /\ UNCHANGED <<durable, hashes, told>>

StoreCall(t) ==
    \/ Write(t)
    \/ Enter(t)
    \/ ExitClean(t)
    \/ ExitRollback(t)
    \/ MigrateSchema(t)
    \/ \E i \in 1..Len(working.rows) : SealAndPruneEpoch(t, i)
    \/ \E a \in Archived : SealArchive(t, a)

Next == CrashReopen \/ \E t \in Threads : StoreCall(t)

Spec == Init /\ [][Next]_vars

-----------------------------------------------------------------------------
(* The same store when code running inside a block archives something: the  *)
(* archive's own conn.commit() ends the block's transaction under it.       *)

SealArchiveInBlock(t, a) ==
    /\ owner = t
    /\ Commit([working EXCEPT !.archive = @ \cup {a}])
    /\ UNCHANGED <<tip, schemaHash, frames, owner, hashes, told>>

(***************************************************************************)
(* Leaving a block whose savepoint is gone: RELEASE and ROLLBACK TO both   *)
(* raise, the caller sees an exception, and only the snapshot is restored. *)
(***************************************************************************)
ExitLost(t) ==
    /\ owner = t
    /\ ~SavepointLive
    /\ RestoreFrontier
    /\ PopFrame
    /\ UNCHANGED <<durable, working, inTx, savepoints, hashes, told>>

SpecArchiveInBlock ==
    Init /\ [][\E t \in Threads : \/ StoreCall(t)
                                  \/ \E a \in Archived : SealArchiveInBlock(t, a)
                                  \/ ExitLost(t)]_vars

-----------------------------------------------------------------------------
(* Properties.                                                              *)

(***************************************************************************)
(* The in-memory frontier and schema pin are those of the rows the         *)
(* connection sees, after every commit, rollback, failed RELEASE, nested   *)
(* exit and restart: the next receipt links to the row before it.          *)
(***************************************************************************)
FrontierAgrees ==
    /\ tip = StreamHash(working)
    /\ schemaHash = working.schema

(***************************************************************************)
(* transaction() "rolls back together on ANY exception": the file never    *)
(* holds a receipt whose write or enclosing block was not reported a       *)
(* success.                                                                *)
(***************************************************************************)
OnlyReportedIsDurable == Hashes(durable) \subseteq told

(***************************************************************************)
(* The same, once every block has been left: what store.py states of       *)
(* transaction(), "the whole block commits together on clean exit and      *)
(* rolls back together on ANY exception".                                  *)
(***************************************************************************)
BlockRollsBackTogether == frames = <<>> => Hashes(durable) \subseteq told

(***************************************************************************)
(* A receipt a caller was given survives every rollback of another block   *)
(* and every restart; it leaves the file only below a sealed anchor.       *)
(***************************************************************************)
ReportedNotLost ==
    \A h \in told : h \in Hashes(durable) \/ h <= durable.anchor

(***************************************************************************)
(* The anchor that verify_from_seal needs can be read back from the        *)
(* retained chain: the newest epoch_pruned receipt names it.               *)
(***************************************************************************)
AnchorRecoverable ==
    LET pruned == {i \in 1..Len(durable.rows) : durable.rows[i].op = "epoch_pruned"}
    IN  IF pruned = {}
        THEN durable.anchor = Genesis
        ELSE \E i \in pruned : /\ \A j \in pruned : j <= i
                               /\ durable.rows[i].ref = durable.anchor

(***************************************************************************)
(* migrate_schema: "always intent-bearing and receipted".  A commit that   *)
(* alters the schema also commits a new schema_migrated receipt, unless    *)
(* the same commit prunes.                                                 *)
(***************************************************************************)
SchemaChangeReceipted ==
    [][durable'.schema # durable.schema =>
          \/ durable'.anchor # durable.anchor
          \/ \E i \in 1..Len(durable'.rows) :
                /\ durable'.rows[i].op = "schema_migrated"
                /\ durable'.rows[i].hr \notin Hashes(durable)]_durable

Chain == INSTANCE ReceiptChain WITH rows <- durable.rows, anchor <- durable.anchor

(***************************************************************************)
(* The file, as any later process will find it, is the abstract receipt    *)
(* chain: it always verifies from its anchor, grows only at the tail, and  *)
(* shrinks only by a receipted prefix prune.                               *)
(***************************************************************************)
ImplementsReceiptChain == Chain!Spec
=============================================================================
