------------------------------- MODULE Scale --------------------------------
(***************************************************************************)
(* The opt-in scale lane: the dependency oracle and the commit lane        *)
(* (ugk/scale/oracle.py) and the governed scheduler that orders a batch by *)
(* priority without reordering dependent candidates                        *)
(* (ugk/scale/scheduler.py).                                               *)
(*                                                                         *)
(* The oracle is asked while the batch is sorted, and the chain it judges  *)
(* by grows while the batch is committed: a verdict is used after the      *)
(* state it was given for has changed.                                     *)
(***************************************************************************)
EXTENDS Integers, Sequences

CONSTANTS
    ScCands,        \* candidates that callers may submit
    ScSeed,         \* the chain a scheduler starts with
    ScCapacity,     \* the scheduler's capacity
    ScBatches,      \* the batches that callers may submit
    ScMaxLog,       \* bound: entries of the I5 log when a batch is submitted
    ScMaxQueue      \* bound: candidates in the durable queue

ScPostureOps ==
    {"authority_model_set", "a1_posture_set", "rho_posture_set", "constitution_set"}

ScSafetyOps ==
    {"gate_refuse", "invariant_violation", "replay_detect", "rollback", "corruption_alert"}

(***************************************************************************)
(* A candidate.  Receipt hashes, effects and binding keys are names; an    *)
(* absent or ALL_PENDING refusal subject is a name no chain holds; absent  *)
(* input_refs and empty ones are the empty set, which the oracle treats    *)
(* alike.  warrants = {} with grounded is an empty warrant_basis_refs.     *)
(***************************************************************************)
ScCandidate ==
    [id : STRING, op : STRING, session : STRING,
     marker    : BOOLEAN,           \* opens or closes its session
     posture   : BOOLEAN,           \* declared posture_affecting
     aggregate : BOOLEAN,           \* an aggregate with a member range
     grant     : BOOLEAN,           \* grant_class
     subject   : STRING,
     inputs    : SUBSET STRING,
     grounded  : BOOLEAN,           \* warrant_basis_refs is not None
     warrants  : SUBSET STRING,
     binding   : SUBSET STRING,
     effects   : SUBSET STRING]

ScReceipt ==
    [hash : STRING, effects : SUBSET STRING, grant : BOOLEAN, fired : BOOLEAN]

ASSUME ScAssumption ==
    /\ ScCands \subseteq ScCandidate /\ ScSeed \in Seq(ScReceipt)
    /\ ScBatches \subseteq Seq(ScCands)
    /\ \A b \in ScBatches : \A i, j \in DOMAIN b : b[i].id = b[j].id => i = j
    /\ ScCapacity \in Nat /\ ScMaxLog \in Nat /\ ScMaxQueue \in Nat

VARIABLES
    scChain,    \* the chain of receipts, with the lane's effect_fired flags
    scQueue,    \* length of durable_queue: nothing reads a candidate in it but admit_fn
    scI5,       \* the log of scheduler operations
    scPc,       \* where schedule() is
    scBatch,    \* the batch being scheduled
    scOrder,    \* the commit order, as positions in the batch
    scAt,       \* next comparison of a pass, or next candidate to commit
    scPass,     \* passes begun
    scSwapped   \* changed

scSort == <<scBatch, scOrder, scPass, scSwapped>>

scVars == <<scChain, scQueue, scI5, scPc, scAt, scSort>>

(* SCALE_OPS, which emit() asserts every logged operation to be one of; of   *)
(* an entry's detail only the candidate it names, if any, is kept.           *)
ScScaleOps ==
    {"scheduler_policy_set", "independence_set_computed", "priority_class_assigned",
     "backpressure_engaged", "backpressure_released", "queue_overflow_refused",
     "batch_envelope_created", "worker_pool_scaled", "lane_paused", "lane_resumed"}
ScLogEntry == [op : ScScaleOps, cand : {c.id : c \in ScCands} \cup {""}]

ScTypeOK ==
    /\ scChain \in Seq(ScReceipt) /\ scQueue \in 0..ScMaxQueue
    /\ scI5 \in Seq(ScLogEntry)
    /\ scPc \in {"idle", "sort", "commit", "effect"}
    /\ scBatch \in Seq(ScCands)
    /\ scOrder \in [1..Len(scBatch) -> 1..Len(scBatch)]
    /\ \A p, q \in 1..Len(scBatch) : scOrder[p] = scOrder[q] => p = q
    /\ scAt \in Nat \ {0} /\ scPass \in Nat /\ scSwapped \in BOOLEAN

----------------------------------------------------------------------------
(* What the chain can verify: has_hash() and has_effect(), and the receipts  *)
(* that may stand in a warrant.                                              *)
ScKnown == UNION {{scChain[i].hash} \cup scChain[i].effects : i \in DOMAIN scChain}

ScGrants == {scChain[i].hash : i \in {j \in DOMAIN scChain : scChain[j].grant}}

(* _is_barrier(): also the underdeclared posture operation for which         *)
(* _posture_check() raises, since its callers then answer "not independent". *)
ScBarrier(c) ==
    \/ c.posture \/ c.op \in ScPostureOps
    \/ c.op \in ScSafetyOps /\ c.subject \notin ScKnown

(* The conjuncts of independent() that are about each candidate alone ... *)
ScDeclared(c) ==
    /\ ~c.aggregate /\ ~ScBarrier(c)
    /\ c.binding # {}
    /\ c.inputs # {} /\ c.inputs \subseteq ScKnown
    /\ c.grounded /\ c.warrants \subseteq ScGrants

(* ... and those about the two, which independent() tests in both directions. *)
ScApart(c, d) ==
    /\ c.op \in ScSafetyOps => c.subject \notin d.effects \cup d.binding
    /\ c.binding \cap d.binding = {}
    /\ c.inputs \cap d.effects = {}
    /\ c.marker => c.session # d.session

ScIndependent(c, d) ==
    /\ ScDeclared(c) /\ ScDeclared(d)
    /\ ScApart(c, d) /\ ScApart(d, c)

ScPriority(c) ==
    IF c.op \in {"gate_refuse", "invariant_violation", "replay_detect"} THEN 0
    ELSE IF c.op \in {"authority_model_set", "a1_posture_set", "session_open"} THEN 1
    ELSE IF c.op = "bulk" THEN 3 ELSE 2

----------------------------------------------------------------------------
ScEntry(op, c) == [op |-> op, cand |-> c]

(* A receipt's hash covers its position; here it is the candidate's id, so a  *)
(* candidate is submitted again only while it has no receipt.                 *)
ScFresh(b) == \A i \in DOMAIN b : b[i].id \notin ScKnown

ScOverflowed(b) ==
    [i \in 1..(Len(b) - ScCapacity) |->
        ScEntry("queue_overflow_refused", b[ScCapacity + i].id)]

(* schedule() up to the sort: the overflow is refused and receipted, the      *)
(* independence set is computed and receipted.                                *)
ScSchedule(b) ==
    LET over == Len(b) > ScCapacity
        kept == IF over THEN SubSeq(b, 1, ScCapacity) ELSE b
    IN  /\ scPc = "idle" /\ ScFresh(b) /\ Len(scI5) <= ScMaxLog
        /\ scI5' = scI5
                \o (IF over THEN <<ScEntry("backpressure_engaged", "")>> \o ScOverflowed(b)
                                 \o <<ScEntry("backpressure_released", "")>> ELSE <<>>)
                \o <<ScEntry("independence_set_computed", "")>>
        /\ scBatch' = kept /\ scOrder' = [p \in 1..Len(kept) |-> p]
        /\ scPc' = "sort" /\ scAt' = 1 /\ scPass' = 0 /\ scSwapped' = TRUE
        /\ UNCHANGED <<scChain, scQueue>>

(* Mutant of ScPassLength: the last pair is left out. *)
ScPassLengthShort == Len(scBatch) - 2

ScPassLength == Len(scBatch) - 1

(* while changed and passes < n: a pass begins ... *)
ScBeginPass ==
    /\ scPc = "sort" /\ scAt = 1 /\ scSwapped /\ scPass < Len(scBatch)
    /\ scPass' = scPass + 1 /\ scSwapped' = FALSE /\ scAt' = 2
    /\ UNCHANGED <<scChain, scQueue, scI5, scPc, scBatch, scOrder>>

(* Mutant of ScCompare: priority alone decides. *)
ScCompareUnchecked ==
    LET k == scAt - 1
        swap == ScPriority(scBatch[scOrder[k + 1]]) < ScPriority(scBatch[scOrder[k]])
    IN  /\ scPc = "sort" /\ scAt > 1 /\ k <= ScPassLength
        /\ scOrder' = IF swap THEN [scOrder EXCEPT ![k] = scOrder[k + 1], ![k + 1] = scOrder[k]]
                      ELSE scOrder
        /\ scSwapped' = (scSwapped \/ swap)
        /\ scAt' = scAt + 1
        /\ UNCHANGED <<scChain, scQueue, scI5, scPc, scBatch, scPass>>

(* ... compares each adjacent pair (scAt - 1 is the code's k + 1) ... *)
ScCompare ==
    LET k == scAt - 1
        a == scBatch[scOrder[k]]
        b == scBatch[scOrder[k + 1]]
        swap == ScPriority(b) < ScPriority(a) /\ ScIndependent(a, b)
    IN  /\ scPc = "sort" /\ scAt > 1 /\ k <= ScPassLength
        /\ scOrder' = IF swap THEN [scOrder EXCEPT ![k] = scOrder[k + 1], ![k + 1] = scOrder[k]]
                      ELSE scOrder
        /\ scSwapped' = (scSwapped \/ swap)
        /\ scAt' = scAt + 1
        /\ UNCHANGED <<scChain, scQueue, scI5, scPc, scBatch, scPass>>

(* ... and ends. *)
ScEndPass ==
    /\ scPc = "sort" /\ scAt > 1 /\ scAt - 1 > ScPassLength
    /\ scAt' = 1
    /\ UNCHANGED <<scChain, scQueue, scI5, scPc, scSort>>

ScSorted ==
    /\ scPc = "sort" /\ scAt = 1 /\ ~(scSwapped /\ scPass < Len(scBatch))
    /\ scPc' = "commit"
    /\ UNCHANGED <<scChain, scQueue, scI5, scAt, scSort>>

ScCurrent == scBatch[scOrder[scAt]]

(* commit_and_effect(): refused by admit_fn, the caller's function, which may *)
(* answer either way; schedule() receipts the refusal and goes on ...         *)
ScRefuse ==
    /\ scPc = "commit" /\ scAt <= Len(scBatch)
    /\ scI5' = scI5 \o <<ScEntry("priority_class_assigned", ScCurrent.id),
                         ScEntry("queue_overflow_refused", ScCurrent.id)>>
    /\ scAt' = scAt + 1
    /\ UNCHANGED <<scChain, scQueue, scPc, scSort>>

(* ... or admitted: the receipt is appended before the effect. *)
ScCommit ==
    /\ scPc = "commit" /\ scAt <= Len(scBatch)
    /\ scI5' = Append(scI5, ScEntry("priority_class_assigned", ScCurrent.id))
    /\ scChain' = Append(scChain, [hash |-> ScCurrent.id, effects |-> ScCurrent.effects,
                                   grant |-> ScCurrent.grant, fired |-> FALSE])
    /\ scPc' = "effect"
    /\ UNCHANGED <<scQueue, scAt, scSort>>

ScEffect ==
    /\ scPc = "effect"
    /\ scChain' = [scChain EXCEPT ![Len(scChain)].fired = TRUE]
    /\ scPc' = "commit" /\ scAt' = scAt + 1
    /\ UNCHANGED <<scQueue, scI5, scSort>>

(* schedule() is left, by return or by exception: its locals are gone. *)
ScIdle ==
    /\ scPc' = "idle" /\ scAt' = 1
    /\ scBatch' = <<>> /\ scOrder' = <<>> /\ scPass' = 0 /\ scSwapped' = FALSE
    /\ UNCHANGED <<scChain, scQueue>>

ScDone == scPc = "commit" /\ scAt > Len(scBatch) /\ ScIdle /\ UNCHANGED scI5

(* admit_fn raises something else than a refusal: schedule() ends there, and  *)
(* the rest of the batch is neither committed nor receipted.                  *)
ScAdmitRaises ==
    /\ scPc = "commit" /\ scAt <= Len(scBatch)
    /\ scI5' = Append(scI5, ScEntry("priority_class_assigned", ScCurrent.id))
    /\ ScIdle

(* effect_fn raises, and the receipt stands all the same: a refusal of its    *)
(* own is receipted like the lane's and the batch goes on ...                 *)
ScEffectRefuses ==
    /\ scPc = "effect"
    /\ scI5' = Append(scI5, ScEntry("queue_overflow_refused", ScCurrent.id))
    /\ scPc' = "commit" /\ scAt' = scAt + 1
    /\ UNCHANGED <<scChain, scQueue, scSort>>

(* ... anything else ends schedule().                                         *)
ScEffectRaises == scPc = "effect" /\ ScIdle /\ UNCHANGED scI5

(* enqueue() and recover_after_crash(), which empties the queue and hands the *)
(* candidates that admit_fn admits back to the caller: no receipt is written. *)
ScEnqueue ==
    /\ scPc = "idle" /\ scQueue < ScMaxQueue /\ scQueue' = scQueue + 1
    /\ UNCHANGED <<scChain, scI5, scPc, scAt, scSort>>

ScRecover ==
    /\ scPc = "idle" /\ scQueue > 0 /\ scQueue' = 0
    /\ UNCHANGED <<scChain, scI5, scPc, scAt, scSort>>

ScInit ==
    /\ scChain = ScSeed /\ scQueue = 0 /\ scI5 = <<ScEntry("scheduler_policy_set", "")>>
    /\ scPc = "idle" /\ scBatch = <<>> /\ scOrder = <<>> /\ scAt = 1
    /\ scPass = 0 /\ scSwapped = FALSE

ScNext ==
    \/ \E b \in ScBatches : ScSchedule(b)
    \/ ScBeginPass \/ ScCompare \/ ScEndPass \/ ScSorted
    \/ ScRefuse \/ ScCommit \/ ScEffect \/ ScDone
    \/ ScAdmitRaises \/ ScEffectRefuses \/ ScEffectRaises
    \/ ScEnqueue \/ ScRecover

ScSpec == ScInit /\ [][ScNext]_scVars

----------------------------------------------------------------------------
(* Two candidates that change places relative to the submitted order are     *)
(* independent, and still are by the chain as it stands when they are        *)
(* committed: a verdict given before the batch's own receipts were appended  *)
(* is not stale ("a dependent pair is never swapped",                        *)
(* _safe_priority_order).                                                    *)
ScDependentOrderKept ==
    \A p, q \in 1..Len(scBatch) :
        p < q /\ scOrder[q] < scOrder[p]
            => ScIndependent(scBatch[scOrder[p]], scBatch[scOrder[q]])

(* The bound on the passes never cuts the sort short: when it ends, no       *)
(* candidate could still be promoted past its neighbour, however the         *)
(* dependencies between the others held them up.                             *)
ScPrioritySettled ==
    scPc = "commit" /\ scAt = 1 =>
        \A k \in 1..(Len(scBatch) - 1) :
            LET a == scBatch[scOrder[k]]
                b == scBatch[scOrder[k + 1]]
            IN  ScPriority(b) < ScPriority(a) => ~ScIndependent(a, b)
=============================================================================
