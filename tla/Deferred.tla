------------------------------ MODULE Deferred ------------------------------
(***************************************************************************)
(* Deferred operations: defer_operation() writes a HELD continuation, and  *)
(* resume_continuation() re-enters execute() on it (ugk/kernel.py), with   *)
(* the lookup and the expiry rule of ugk/storage/store.py.                 *)
(*                                                                         *)
(* resume_continuation() takes no lock: it looks the continuation up, runs *)
(* the operation and appends the marker in separate steps, between which   *)
(* other threads, an epoch prune and a crash may come.                     *)
(***************************************************************************)
EXTENDS Integers, Sequences, FiniteSets

CONSTANTS
    CtThreads,      \* callers of the library
    CtIds,          \* continuation ids: operation and anchor, hashed
    CtHeights,      \* values of receipt_height expiry bases
    CtMaxReceipts   \* bound: receipts written

ASSUME CtAssumption ==
    /\ "none" \notin CtIds
    /\ CtHeights \subseteq Nat
    /\ CtMaxReceipts \in Nat

VARIABLES
    ctLog,      \* the receipts in the store, oldest first
    ctPruned,   \* receipts that epoch prunes took out of it
    ctPc,       \* for each thread, its place in resume_continuation()
    ctSettled,  \* history: ids marked RESOLVED, EXPIRED or REFUSED since they were last held
    ctOutcomes  \* history: outcomes of execute() per id since it was last held

ctVars == <<ctLog, ctPruned, ctPc, ctSettled, ctOutcomes>>

(* What a receipt says of a continuation; most say nothing (id "none").     *)
(* An explicit_trigger basis is the value -1: the kernel passes no          *)
(* committed triggers, so it never expires.                                 *)
CtBasis == CtHeights \cup {-1}

CtReceipt ==
    [id : CtIds \cup {"none"}, state : {"HELD", "RESOLVED", "EXPIRED", "REFUSED", "none"},
     basis : CtBasis]

CtPlain == [id |-> "none", state |-> "none", basis |-> -1]

CtIdle == [at |-> "idle", rec |-> CtPlain]

CtTypeOK ==
    /\ ctLog \in Seq(CtReceipt) /\ ctPruned \in 0..CtMaxReceipts
    /\ ctPc \in [CtThreads -> [at : {"idle", "refuse", "expire", "run", "mark"}, rec : CtReceipt]]
    /\ ctSettled \subseteq CtIds
    /\ ctOutcomes \in [CtIds -> 0..CtMaxReceipts]

----------------------------------------------------------------------------
CtHeight == Len(ctLog)      \* committed_height(): the rows of the table

CtRoom(n) == ctPruned + Len(ctLog) + n <= CtMaxReceipts

CtPositions(id) == {i \in DOMAIN ctLog : ctLog[i].id = id}

(* Mutant of CtFind: the scan stops at the first receipt of the id. *)
CtFindFirst(id) ==
    IF CtPositions(id) = {} THEN CtPlain
    ELSE ctLog[CHOOSE i \in CtPositions(id) : \A j \in CtPositions(id) : i <= j]

(* find_continuation(): the latest receipt of the id, if there is one. *)
CtFind(id) ==
    IF CtPositions(id) = {} THEN CtPlain
    ELSE ctLog[CHOOSE i \in CtPositions(id) : \A j \in CtPositions(id) : j <= i]

CtExpired(rec) == rec.basis # -1 /\ CtHeight >= rec.basis

(* defer_operation().  A caller that passes an anchor chooses the id, and    *)
(* two calls at one chain head compute the same id: it may be in use.        *)
CtDefer(id, basis) ==
    /\ CtRoom(1)
    /\ ctLog' = Append(ctLog, [id |-> id, state |-> "HELD", basis |-> basis])
    /\ ctSettled' = ctSettled \ {id} /\ ctOutcomes' = [ctOutcomes EXCEPT ![id] = 0]
    /\ UNCHANGED <<ctPruned, ctPc>>

(* Any receipt that is not about a continuation: emit_bridge(), execute()... *)
CtOther ==
    /\ CtRoom(1) /\ ctLog' = Append(ctLog, CtPlain)
    /\ UNCHANGED <<ctPruned, ctPc, ctSettled, ctOutcomes>>

(* resume_continuation(): the lookup and the two early exits.  An unknown id *)
(* raises and writes nothing.                                                *)
CtLookUp(t, id) ==
    LET rec == CtFind(id)
    IN  /\ ctPc[t] = CtIdle /\ rec # CtPlain
        /\ ctPc' = [ctPc EXCEPT ![t] =
                [rec |-> rec, at |-> IF rec.state # "HELD" THEN "refuse"
                                     ELSE IF CtExpired(rec) THEN "expire" ELSE "run"]]
        /\ UNCHANGED <<ctLog, ctPruned, ctSettled, ctOutcomes>>

(* _continuation_marker(): a later receipt of the same id and basis. *)
CtMarker(t, at, state) ==
    /\ ctPc[t].at = at /\ CtRoom(1)
    /\ ctLog' = Append(ctLog, [ctPc[t].rec EXCEPT !.state = state])
    /\ ctPc' = [ctPc EXCEPT ![t] = CtIdle]
    /\ ctSettled' = ctSettled \cup {ctPc[t].rec.id}
    /\ UNCHANGED <<ctPruned, ctOutcomes>>

CtRefuse(t) == CtMarker(t, "refuse", "REFUSED")

CtExpire(t) == CtMarker(t, "expire", "EXPIRED")

CtResolve(t) == CtMarker(t, "mark", "RESOLVED")

CtCount(t) == ctOutcomes' = [ctOutcomes EXCEPT ![ctPc[t].rec.id] = @ + 1]

(* execute() on the captured operation: admitted and successful (gate_admit  *)
(* and the operation's receipt) ...                                          *)
CtRunAdmitted(t) ==
    /\ ctPc[t].at = "run" /\ CtRoom(2) /\ CtCount(t)
    /\ ctLog' = ctLog \o <<CtPlain, CtPlain>>
    /\ ctPc' = [ctPc EXCEPT ![t].at = "mark"]
    /\ UNCHANGED <<ctPruned, ctSettled>>

(* ... or refused or failed: it leaves a receipt and raises, no marker is     *)
(* written and the continuation is still HELD.                                *)
CtRunRaises(t) ==
    /\ ctPc[t].at = "run" /\ CtRoom(1) /\ CtCount(t)
    /\ ctLog' = Append(ctLog, CtPlain)
    /\ ctPc' = [ctPc EXCEPT ![t] = CtIdle]
    /\ UNCHANGED <<ctPruned, ctSettled>>

(* seal_and_prune_epoch() of module ReceiptStore: a prefix goes, the anchor   *)
(* and the archive record are appended.                                       *)
CtPrune(i) ==
    /\ CtRoom(2)
    /\ ctLog' = SubSeq(ctLog, i + 1, Len(ctLog)) \o <<CtPlain, CtPlain>>
    /\ ctPruned' = ctPruned + i
    /\ UNCHANGED <<ctPc, ctSettled, ctOutcomes>>

(* The process dies; the receipts written so far are committed. *)
CtCrash ==
    /\ ctPc' = [t \in CtThreads |-> CtIdle] /\ ctPc' # ctPc
    /\ UNCHANGED <<ctLog, ctPruned, ctSettled, ctOutcomes>>

CtInit ==
    /\ ctLog = <<>> /\ ctPruned = 0 /\ ctPc = [t \in CtThreads |-> CtIdle]
    /\ ctSettled = {} /\ ctOutcomes = [id \in CtIds |-> 0]

CtNext ==
    \/ \E id \in CtIds, b \in CtBasis : CtDefer(id, b)
    \/ CtOther
    \/ \E t \in CtThreads :
        \/ \E id \in CtIds : CtLookUp(t, id)
        \/ CtRefuse(t) \/ CtExpire(t) \/ CtRunAdmitted(t) \/ CtRunRaises(t) \/ CtResolve(t)
    \/ \E i \in DOMAIN ctLog : CtPrune(i)
    \/ CtCrash

CtSpec == CtInit /\ [][CtNext]_ctVars

----------------------------------------------------------------------------
(* A continuation that was marked RESOLVED, EXPIRED or REFUSED and not held  *)
(* again since is never re-entered, whatever other threads marked, whatever  *)
(* a prune deleted and wherever a crash came (DEFER-S-01, already terminal). *)
CtSettledNotReentered ==
    [][\A t \in CtThreads :
        ctPc[t].at # "run" /\ ctPc'[t].at = "run" => ctPc'[t].rec.id \notin ctSettled]_ctVars

(* The resumed operation's ordinary outcome, admission, refusal or failure,  *)
(* is the resolution: a held continuation has at most one (DEFER-S-01).      *)
CtOneOutcome == \A id \in CtIds : ctOutcomes[id] <= 1
=============================================================================
