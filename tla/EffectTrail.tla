----------------------------- MODULE EffectTrail -----------------------------
(***************************************************************************)
(* The receipt trails of external effects: PREPARE, the act, COMMIT or     *)
(* ABORT; for the reversible class also COMPENSATE, the offset, and        *)
(* COMPENSATED or COMPENSATION_FAILED.  The act lies outside the store, so *)
(* nothing can roll it back: what the trail says of it must be true, or    *)
(* must leave it visibly in doubt.                                         *)
(*                                                                         *)
(* A store write is one atomic append here, as ReceiptStore establishes    *)
(* for writes outside a transaction() block.  h_r of the i-th receipt is   *)
(* its position i.  A kernel call is a sequence of steps of a process: the *)
(* store's lock covers one write and never a check and the write after it. *)
(***************************************************************************)
EXTENDS Naturals, Sequences, FiniteSets

CONSTANTS
    Procs,          \* kernel calls that can be under way together
    Keys, NoKey,    \* idempotency keys
    Grades,         \* "none" (recorded), "verified" (a warrant backs it)
    MaxAttempts,    \* MAX_OUTCOME_WRITE_ATTEMPTS
    MaxTrail        \* bound: receipts in the trail

ASSUME ProcsAssumption == IsFiniteSet(Procs)
ASSUME NoKeyAssumption == NoKey \notin Keys
ASSUME GradesAssumption == Grades \subseteq {"none", "verified"}
ASSUME AttemptsAssumption == MaxAttempts \in Nat \ {0} /\ MaxTrail \in Nat

VARIABLES
    trail,      \* durable effect receipts, in append order
    base,       \* how many of them an epoch prune has deleted
    performed,  \* prepares whose act really took place
    offset,     \* COMPENSATE receipts whose offset really took place
    call        \* what each process is doing

vars == <<trail, base, performed, offset, call>>

Class == {"irreversible", "reversible"}
ForwardTerminal == {"commit", "abort"}
OffsetTerminal == {"compensated", "compensation_failed"}
Terminal == ForwardTerminal \cup OffsetTerminal
Ref == 0..MaxTrail

Receipt ==
    [phase : {"prepare", "compensate"} \cup Terminal, class : Class,
     key : Keys, prepareRef : Ref, compensateRef : Ref,
     compKey : Keys \cup {NoKey}, by : {"in_band", "reconciled"},
     grade : {"none", "verified"}]

Idle == [step |-> "idle"]

(***************************************************************************)
(* acting: the effect runs; recording: its outcome is known and the        *)
(* terminal is being written; cleared: compensation was found admissible   *)
(* and its COMPENSATE is not yet written; offsetting: the offset runs.     *)
(***************************************************************************)
Call ==
    {Idle}
    \cup [step : {"acting"}, ref : 1..MaxTrail]
    \cup [step : {"cleared"}, ref : 1..MaxTrail, compKey : Keys]
    \cup [step : {"offsetting"}, ref : 1..MaxTrail]
    \cup [step : {"recording"}, receipt : Receipt, left : 1..MaxAttempts]

(* The shape of the trail, of the ghost facts and of the calls under way. *)
TypeOK ==
    /\ trail \in Seq(Receipt)
    /\ base \in 0..Len(trail)
    /\ performed \subseteq 1..Len(trail)
    /\ offset \subseteq 1..Len(trail)
    /\ call \in [Procs -> Call]

Init ==
    /\ trail = <<>>
    /\ base = 0
    /\ performed = {}
    /\ offset = {}
    /\ call = [p \in Procs |-> Idle]

-----------------------------------------------------------------------------
(* What the pure detectors read off the receipts still in the store.        *)

Stored == (base + 1)..Len(trail)

Matches(t, i) ==
    /\ trail[t].phase \in ForwardTerminal
    /\ trail[t].class = trail[i].class
    /\ trail[t].key = trail[i].key
    /\ trail[t].prepareRef = i

(* Faulty detectors: one that looks for COMMIT only, one that pairs by key only. *)
OrphanPreparesCommitOnly ==
    {i \in Stored : /\ trail[i].phase = "prepare"
                    /\ ~\E t \in Stored : Matches(t, i) /\ trail[t].phase = "commit"}

OrphanPreparesByKey ==
    {i \in Stored : /\ trail[i].phase = "prepare"
                    /\ ~\E t \in Stored : /\ trail[t].phase \in ForwardTerminal
                                           /\ trail[t].class = trail[i].class
                                           /\ trail[t].key = trail[i].key}

OrphanPrepares ==
    {i \in Stored : /\ trail[i].phase = "prepare"
                    /\ ~\E t \in Stored : Matches(t, i)}

MatchesOffset(t, c) ==
    /\ trail[t].phase \in OffsetTerminal
    /\ trail[t].compensateRef = trail[c].compensateRef
    /\ trail[t].compKey = trail[c].compKey

OrphanCompensates ==
    {c \in Stored : /\ trail[c].phase = "compensate"
                    /\ ~\E t \in Stored : MatchesOffset(t, c)}

(* Faulty find_committed_forward: an earlier COMPENSATE is overlooked. *)
CommittedForwardAgain(ref) ==
    {t \in Stored : /\ trail[t].phase = "commit"
                    /\ trail[t].class = "reversible"
                    /\ trail[t].prepareRef = ref}

(* find_committed_forward(receipts, ref): the COMMIT receipts it would return. *)
CommittedForward(ref) ==
    {t \in Stored : /\ trail[t].phase = "commit"
                    /\ trail[t].class = "reversible"
                    /\ trail[t].prepareRef = ref
                    /\ ~\E u \in Stored : \/ /\ trail[u].phase = "abort"
                                             /\ trail[u].class = "reversible"
                                             /\ trail[u].prepareRef = ref
                                          \/ /\ trail[u].phase = "compensate"
                                             /\ trail[u].compensateRef = ref}

-----------------------------------------------------------------------------
(* Steps shared by the arcs.                                                *)

Become(p, c) == call' = [call EXCEPT ![p] = c]

(* Receipts that the calls under way have yet to append. *)
Owed ==
    Cardinality({p \in Procs : call[p] # Idle})
    + Cardinality({p \in Procs : call[p].step = "cleared"})

(* Bound: a call starts only if its n receipts will fit. *)
Room(n) == Len(trail) + Owed + n <= MaxTrail

ForwardReceipt(i, phase, by, grade) ==
    [trail[i] EXCEPT !.phase = phase, !.prepareRef = i, !.by = by, !.grade = grade]

OffsetReceipt(c, phase, by, grade) ==
    [trail[c] EXCEPT !.phase = phase, !.by = by, !.grade = grade]

(* The outcome is known: enter the bounded retry of the terminal's write. *)
Recording(r) == [step |-> "recording", receipt |-> r, left |-> MaxAttempts]

RecordWritten(p) ==
    /\ call[p].step = "recording"
    /\ trail' = Append(trail, call[p].receipt)
    /\ Become(p, Idle)
    /\ UNCHANGED <<base, performed, offset>>

(* Faulty retries: one attempt too many, and a count that starts over. *)
RetryPastLimit(p) ==
    /\ call[p].step = "recording"
    /\ call[p].left > 0
    /\ Become(p, [call[p] EXCEPT !.left = @ - 1])
    /\ UNCHANGED <<trail, base, performed, offset>>

RetryRestarts(p) ==
    /\ call[p].step = "recording"
    /\ Become(p, [call[p] EXCEPT !.left = IF @ = 1 THEN MaxAttempts ELSE @ - 1])
    /\ UNCHANGED <<trail, base, performed, offset>>

(* A locked or busy database: try again, up to MaxAttempts writes in all. *)
RecordTransientError(p) ==
    /\ call[p].step = "recording"
    /\ Become(p, IF call[p].left = 1 THEN Idle ELSE [call[p] EXCEPT !.left = @ - 1])
    /\ UNCHANGED <<trail, base, performed, offset>>

(* Any other error is raised at once: no terminal. *)
RecordFatalError(p) ==
    /\ call[p].step = "recording"
    /\ Become(p, Idle)
    /\ UNCHANGED <<trail, base, performed, offset>>

-----------------------------------------------------------------------------
(* The forward arc, the same for both classes.                              *)

Prepare(p, class, key) ==
    /\ call[p] = Idle
    /\ Room(2)
    /\ trail' = Append(trail,
           [phase |-> "prepare", class |-> class, key |-> key,
            prepareRef |-> 0, compensateRef |-> 0, compKey |-> NoKey,
            by |-> "in_band", grade |-> "none"])
    /\ Become(p, [step |-> "acting", ref |-> Len(trail) + 1])
    /\ UNCHANGED <<base, performed, offset>>

EffectReturns(p) ==
    /\ call[p].step = "acting"
    /\ performed' = performed \cup {call[p].ref}
    /\ Become(p, Recording(ForwardReceipt(call[p].ref, "commit", "in_band", "none")))
    /\ UNCHANGED <<trail, base, offset>>

(* ExternalEffectNotPerformed: the effect vouches that nothing happened. *)
EffectNotPerformed(p) ==
    /\ call[p].step = "acting"
    /\ Become(p, Recording(ForwardReceipt(call[p].ref, "abort", "in_band", "none")))
    /\ UNCHANGED <<trail, base, performed, offset>>

(* Faulty EffectRaises: an ambiguous exception is taken for non-performance. *)
EffectRaisesAborts(p) ==
    /\ call[p].step = "acting"
    /\ \/ performed' = performed
       \/ performed' = performed \cup {call[p].ref}
    /\ Become(p, Recording(ForwardReceipt(call[p].ref, "abort", "in_band", "none")))
    /\ UNCHANGED <<trail, base, offset>>

(* Any other exception says nothing about the act, and no terminal is written. *)
EffectRaises(p) ==
    /\ call[p].step = "acting"
    /\ \/ performed' = performed
       \/ performed' = performed \cup {call[p].ref}
    /\ Become(p, Idle)
    /\ UNCHANGED <<trail, base, offset>>

(***************************************************************************)
(* reconcile_external_irreversible / _reversible_forward: the operator has *)
(* checked the outside world, and the orphan test has passed.  The write   *)
(* is a later step.  grade is "verified" when a warrant backs the call.    *)
(***************************************************************************)
ReconcileForward(p, i, grade) ==
    /\ call[p] = Idle
    /\ Room(1)
    /\ i \in OrphanPrepares
    /\ LET phase == IF i \in performed THEN "commit" ELSE "abort"
       IN  Become(p, Recording(ForwardReceipt(i, phase, "reconciled", grade)))
    /\ UNCHANGED <<trail, base, performed, offset>>

-----------------------------------------------------------------------------
(* The compensation arc.                                                    *)

CompensateCheck(p, i, compKey) ==
    /\ call[p] = Idle
    /\ Room(2)
    /\ \E t \in CommittedForward(i) : compKey # trail[t].key
    /\ Become(p, [step |-> "cleared", ref |-> i, compKey |-> compKey])
    /\ UNCHANGED <<trail, base, performed, offset>>

CompensateIntent(p) ==
    /\ call[p].step = "cleared"
    /\ trail' = Append(trail,
           [phase |-> "compensate", class |-> "reversible",
            key |-> trail[call[p].ref].key, prepareRef |-> 0,
            compensateRef |-> call[p].ref, compKey |-> call[p].compKey,
            by |-> "in_band", grade |-> "none"])
    /\ Become(p, [step |-> "offsetting", ref |-> Len(trail) + 1])
    /\ UNCHANGED <<base, performed, offset>>

(* The COMPENSATE cannot be written: the error is raised, nothing is offset. *)
CompensateIntentFails(p) ==
    /\ call[p].step = "cleared"
    /\ Become(p, Idle)
    /\ UNCHANGED <<trail, base, performed, offset>>

OffsetReturns(p) ==
    /\ call[p].step = "offsetting"
    /\ offset' = offset \cup {call[p].ref}
    /\ Become(p, Recording(OffsetReceipt(call[p].ref, "compensated", "in_band", "none")))
    /\ UNCHANGED <<trail, base, performed>>

(* Faulty OffsetRaises: the offset is presumed done. *)
OffsetRaisesCompensated(p) ==
    /\ call[p].step = "offsetting"
    /\ \/ offset' = offset
       \/ offset' = offset \cup {call[p].ref}
    /\ Become(p, Recording(OffsetReceipt(call[p].ref, "compensated", "in_band", "none")))
    /\ UNCHANGED <<trail, base, performed>>

(* Every exception of the offset, an ambiguous one too, is recorded as a failure, *)
(* whether the offset took place before it or not.                                *)
OffsetRaises(p) ==
    /\ call[p].step = "offsetting"
    /\ \/ offset' = offset
       \/ offset' = offset \cup {call[p].ref}
    /\ Become(p, Recording(OffsetReceipt(call[p].ref, "compensation_failed", "in_band", "none")))
    /\ UNCHANGED <<trail, base, performed>>

ReconcileCompensation(p, c, grade) ==
    /\ call[p] = Idle
    /\ Room(1)
    /\ c \in OrphanCompensates
    /\ LET phase == IF c \in offset THEN "compensated" ELSE "compensation_failed"
       IN  Become(p, Recording(OffsetReceipt(c, phase, "reconciled", grade)))
    /\ UNCHANGED <<trail, base, performed, offset>>

-----------------------------------------------------------------------------
InFlight(step) == {call[p].ref : p \in {q \in Procs : call[q].step = step}}

(* The process dies; an act then under way may or may not take place. *)
Crash ==
    /\ \E done \in SUBSET InFlight("acting") : performed' = performed \cup done
    /\ \E done \in SUBSET InFlight("offsetting") : offset' = offset \cup done
    /\ call' = [p \in Procs |-> Idle]
    /\ UNCHANGED <<trail, base>>

Step(p) ==
    \/ RecordWritten(p)
    \/ RecordTransientError(p)
    \/ RecordFatalError(p)
    \/ EffectReturns(p)
    \/ EffectNotPerformed(p)
    \/ EffectRaises(p)
    \/ CompensateIntent(p)
    \/ CompensateIntentFails(p)
    \/ OffsetReturns(p)
    \/ OffsetRaises(p)

Execute(p) == \E class \in Class, key \in Keys : Prepare(p, class, key)

(* The out-of-band calls on forward effect i. *)
OutOfBand(p, i) ==
    \/ \E grade \in Grades : ReconcileForward(p, i, grade)
    \/ \E compKey \in Keys : CompensateCheck(p, i, compKey)
    \/ \E c \in Stored, grade \in Grades :
          trail[c].compensateRef = i /\ ReconcileCompensation(p, c, grade)

(* Nothing in the code keeps an out-of-band call off an effect in flight. *)
Next ==
    \/ Crash
    \/ \E p \in Procs : Step(p) \/ Execute(p) \/ \E i \in Stored : OutOfBand(p, i)

Spec == Init /\ [][Next]_vars

-----------------------------------------------------------------------------
(* The discipline left to the operator: reconcile or compensate an effect   *)
(* only when no other call is still at work on it.                          *)

WorksOn(c, i) ==
    \/ c.step \in {"acting", "cleared"} /\ c.ref = i
    \/ c.step = "offsetting" /\ trail[c.ref].compensateRef = i
    \/ c.step = "recording" /\ i \in {c.receipt.prepareRef, c.receipt.compensateRef}

Unattended(i) == \A p \in Procs : ~WorksOn(call[p], i)

QuietNext ==
    \/ Crash
    \/ \E p \in Procs : \/ Step(p)
                        \/ Execute(p)
                        \/ \E i \in Stored : Unattended(i) /\ OutOfBand(p, i)

(* A call under way goes on: effects return or raise, and SQLite answers. *)
QuietSpec ==
    /\ Init
    /\ [][QuietNext]_vars
    /\ \A p \in Procs : WF_vars(Step(p))

-----------------------------------------------------------------------------
(* seal_and_prune_epoch deletes a prefix of the receipts, whatever they say. *)

PruneEpoch(k) ==
    /\ k \in Stored
    /\ base' = k
    /\ UNCHANGED <<trail, performed, offset, call>>

SpecPruning == Init /\ [][QuietNext \/ \E k \in Stored : PruneEpoch(k)]_vars

-----------------------------------------------------------------------------
(* verify_receipt_bodies: h_body, a collision-free hash, commits to every   *)
(* field when written, and is recomputed without the reconciliation grade.  *)

HBody(r) == [h_body |-> r]
RecomputedHBody(r) == HBody([r EXCEPT !.grade = "none"])
VerifyReceiptBodies == \A i \in Stored : RecomputedHBody(trail[i]) = HBody(trail[i])

-----------------------------------------------------------------------------
(* Properties.                                                              *)

Positions == 1..Len(trail)

(***************************************************************************)
(* reconcile_external_irreversible guarantees "AT MOST ONE terminal per    *)
(* (key, prepare_ref)": no interleaving of the in-band write, its retries, *)
(* crashes and reconciliations records two outcomes for one attempt.       *)
(***************************************************************************)
AtMostOneTerminal ==
    \A i \in Positions : \A t, u \in Positions :
        Matches(t, i) /\ Matches(u, i) => t = u

(***************************************************************************)
(* Every terminal is true of the outside world: COMMIT only of an act that *)
(* took place, ABORT only of one that never did, in band or reconciled,    *)
(* with retries, ambiguous exceptions and crashes in between.              *)
(***************************************************************************)
TerminalsTruthful ==
    \A t \in Positions :
        /\ trail[t].phase = "commit" => trail[t].prepareRef \in performed
        /\ trail[t].phase = "abort" => trail[t].prepareRef \notin performed

(***************************************************************************)
(* "The kernel NEVER infers success or failure": an act that took place is *)
(* either confirmed by a COMMIT or still reported by the orphan detector,  *)
(* at every moment, whatever failed between the act and its receipt.       *)
(***************************************************************************)
NoUnaccountedAct ==
    \A i \in performed :
        \/ i \in OrphanPrepares
        \/ \E t \in Stored : Matches(t, i) /\ trail[t].phase = "commit"

(***************************************************************************)
(* An offset takes place only for a forward act that took place and was    *)
(* committed, and at most once: find_committed_forward allows "at most one *)
(* compensation arc per forward commit".                                   *)
(***************************************************************************)
OffsetAtMostOnce ==
    \A c \in offset :
        /\ trail[c].compensateRef \in performed
        /\ \E t \in 1..(c - 1) : /\ trail[t].phase = "commit"
                                 /\ trail[t].prepareRef = trail[c].compensateRef
        /\ \A d \in Positions :
              trail[d].phase = "compensate"
                /\ trail[d].compensateRef = trail[c].compensateRef => d = c

(***************************************************************************)
(* The compensation arc is on record at most once and as it went: a        *)
(* COMPENSATE has at most one terminal, COMPENSATED only if the offset     *)
(* took place, and a reconciling COMPENSATION_FAILED (the operator found   *)
(* "not_performed") only if it did not, with retries, crashes and          *)
(* reconciliations in between.  An in-band COMPENSATION_FAILED says no     *)
(* more than that the offset raised: see FailedOffsetNotDone.              *)
(***************************************************************************)
OffsetTerminalsTruthful ==
    \A c \in Positions : trail[c].phase = "compensate" =>
        /\ \A t, u \in Positions : MatchesOffset(t, c) /\ MatchesOffset(u, c) => t = u
        /\ \A t \in Positions : MatchesOffset(t, c) =>
              /\ trail[t].phase = "compensated" => c \in offset
              /\ trail[t].phase = "compensation_failed" /\ trail[t].by = "reconciled"
                    => c \notin offset

(***************************************************************************)
(* compensate_external_reversible on COMPENSATION_FAILED: "the forward     *)
(* effect happened and the offset did not"; detect_orphan_compensates: it  *)
(* is "not in-doubt".  An offset recorded as failed has not taken place.   *)
(***************************************************************************)
FailedOffsetNotDone ==
    \A c, t \in Positions :
        /\ trail[c].phase = "compensate" /\ trail[t].phase = "compensation_failed"
        /\ MatchesOffset(t, c)
        => c \notin offset

(***************************************************************************)
(* The retry of a terminal write is bounded and every path returns: a call *)
(* under way ends (or dies in a crash), it never spins on a busy database. *)
(***************************************************************************)
CallsReturn == \A p \in Procs : call[p] # Idle ~> call[p] = Idle

(***************************************************************************)
(* store.py on seal_and_prune_epoch: "pruning is observationally           *)
(* equivalent to retaining the prefix".  The orphan detector reports what  *)
(* it would report had nothing been deleted.                               *)
(***************************************************************************)
PruneUnobservable ==
    OrphanPrepares = {i \in Positions : /\ trail[i].phase = "prepare"
                                        /\ ~\E t \in Positions : Matches(t, i)}

(***************************************************************************)
(* verify_chain "Fails closed (corruption set) on any committed-field      *)
(* tamper"; receipts nobody tampered with verify.                          *)
(***************************************************************************)
HonestChainVerifies == VerifyReceiptBodies
=============================================================================
