------------------------------- MODULE Kernel -------------------------------
(***************************************************************************)
(* GovernanceKernel.execute(): one governed call from the protocol         *)
(* preflight to its terminal receipt, for every effect class, and the      *)
(* calls an effect makes of the same kernel while it runs.                 *)
(*                                                                         *)
(* The receipt store is reduced to what ReceiptStore establishes: writes   *)
(* append; inside an open transaction() they become durable when the       *)
(* outermost block is released and vanish when their block is rolled back. *)
(* The store's lock makes a seam exclusive, so one thread is modelled; the *)
(* races of external effects between threads are in EffectTrail.           *)
(***************************************************************************)
EXTENDS Naturals, Sequences, FiniteSetsExt

CONSTANTS
    Requests,   \* the calls of execute() that callers and effects may make
    Configs,    \* the enforcement settings an operator may choose
    MaxCalls,       \* bound: admitted calls
    MaxRefusals,    \* bound: refusals in the chain
    MaxCeremonies   \* bound: ceremonies, over all restarts

VARIABLES
    status,     \* governance status
    config,     \* enforcement settings of this process
    chain,      \* receipts the connection sees, deferred ones included
    marks,      \* for each open seam, the chain's length when it began
    stack,      \* executes under way: an effect may call execute() again
    calls,      \* every admitted execute() so far
    acts,       \* calls whose effect has begun
    warrants    \* calls with a durable decision warrant

vars == <<status, config, chain, marks, stack, calls, acts, warrants>>

EffectClass == {"none", "NON_ATOMIC", "ATOMIC", "EXTERNAL"}

(***************************************************************************)
(* A call, by what execute() asks of it.  ATOMIC stands for PURE and       *)
(* STORE_LOCAL, EXTERNAL for both external classes, which differ only      *)
(* after COMMIT.                                                           *)
(***************************************************************************)
Request ==
    [tier       : {"kernel", "universal", "governed", "undeclared"},
     wellFormed : BOOLEAN,   \* passes the preflight
     signed     : BOOLEAN,   \* carries a valid governor signature
     gate       : {"absent", "true", "false", "raises"},
     warrant    : BOOLEAN,   \* declares a warrant_basis
     capable    : BOOLEAN,   \* not in an enforced scope, or proven sufficient
     local      : BOOLEAN,   \* required_locality absent or satisfied
     covered    : BOOLEAN,   \* intent_ref or active declarations cover the op
     class      : EffectClass]

Config ==
    [governorSig : BOOLEAN, requireGate : BOOLEAN,
     requireWarrant : BOOLEAN, requireIntent : BOOLEAN]

ASSUME RequestsAssumption == Requests \subseteq Request
ASSUME ConfigsAssumption == Configs \subseteq Config
ASSUME BoundsAssumption == 
    MaxCalls \in Nat /\ MaxRefusals \in Nat /\ MaxCeremonies \in Nat

(* __init__: no authority model, no will store, no interposition. *)
Permissive ==
    [governorSig |-> FALSE, requireGate |-> FALSE,
     requireWarrant |-> FALSE, requireIntent |-> FALSE]

Kind == {"legend_seal", "protocol_error", "gate_refuse", "gate_admit", "success",
         "failed", "abort", "prepare", "commit", "effect"}

Step == {"admitted", "ready", "effect", "succeeding", "releasing", "aborting",
         "failing", "committing"}

(* The shape of the kernel, its chain and its stack of calls. *)
TypeOK ==
    /\ status \in {"UNINITIALIZED", "ACTIVE"}
    /\ config \in Config
    /\ chain \in Seq([call : 0..MaxCalls, kind : Kind])
    /\ marks \in Seq(0..Len(chain))
    /\ stack \in Seq([call : 1..Len(calls), step : Step])
    /\ calls \in Seq([parent : 0..MaxCalls, governed : BOOLEAN, class : EffectClass,
                      warrant : BOOLEAN, strict : BOOLEAN,
                      result : {"open", "returned", "raised"}])
    /\ acts \subseteq 1..Len(calls)
    /\ warrants \subseteq 1..Len(calls)

Init ==
    /\ status = "UNINITIALIZED"
    /\ config = Permissive
    /\ chain = <<>>
    /\ marks = <<>>
    /\ stack = <<>>
    /\ calls = <<>>
    /\ acts = {}
    /\ warrants = {}

-----------------------------------------------------------------------------
(* Admission: the refusal horizon, in the order execute() walks it.         *)

(* The authority model and the will layer exempt kernel and universal ops. *)
Enforced(r) == r.tier \notin {"kernel", "universal"}

(* Steps 1 to 4: what makes the call a protocol error. *)
ProtocolChecks(r) ==
    <<[verdict |-> "malformed",       fails |-> ~r.wellFormed],
      [verdict |-> "protocol_error",  fails |-> r.tier = "kernel"],
      [verdict |-> "protocol_error",
       fails |-> r.tier # "universal" /\ status = "UNINITIALIZED"],
      [verdict |-> "protocol_error",
       fails |-> /\ config.governorSig
                 /\ r.tier # "universal"
                 /\ status = "ACTIVE"
                 /\ ~r.signed],
      [verdict |-> "protocol_error",  fails |-> r.tier = "undeclared"],
      [verdict |-> "protocol_error",
       fails |-> Enforced(r) /\ config.requireGate /\ r.gate = "absent"],
      [verdict |-> "protocol_error",
       fails |-> Enforced(r) /\ config.requireWarrant /\ ~r.warrant],
      [verdict |-> "protocol_error",  fails |-> r.gate = "raises"]>>

(* The constitutional refusals: gate, capability, locality and will. *)
RefusalChecks(r) ==
    <<[verdict |-> "gate_refuse",     fails |-> r.gate = "false"],
      [verdict |-> "gate_refuse",     fails |-> ~r.capable],
      [verdict |-> "gate_refuse",     fails |-> ~r.local],
      [verdict |-> "gate_refuse",
       fails |-> Enforced(r) /\ config.requireIntent /\ ~r.covered]>>

Checks(r) == ProtocolChecks(r) \o RefusalChecks(r)

(* Faulty Verdict: the UNINITIALIZED fail-close is missing. *)
VerdictUnfounded(r) ==
    LET checks == Checks(r)
        failing == {k \in DOMAIN checks \ {3} : checks[k].fails}
    IN  IF failing = {} THEN "gate_admit" ELSE checks[Min(failing)].verdict

(* The first check that fails decides. *)
Verdict(r) ==
    LET checks == Checks(r)
        failing == {k \in DOMAIN checks : checks[k].fails}
    IN  IF failing = {} THEN "gate_admit" ELSE checks[Min(failing)].verdict

-----------------------------------------------------------------------------
(* Store writes and the stack of calls.                                     *)

Top == stack[Len(stack)]
Me == Top.call
Class == calls[Me].class

At(step) == stack # <<>> /\ Top.step = step

Emit(kind) == chain' = Append(chain, [call |-> Me, kind |-> kind])

Goto(step) ==
    /\ stack' = [stack EXCEPT ![Len(stack)].step = step]
    /\ calls' = calls

(* Leave execute(), to the caller or to the effect that made the call. *)
Finish(result) ==
    /\ stack' = SubSeq(stack, 1, Len(stack) - 1)
    /\ calls' = [calls EXCEPT ![Me].result = result]

(* Faulty rollbacks: one receipt too far, and of nothing but the stack. *)
RollBackTooFar ==
    /\ chain' = SubSeq(chain, 1, marks[Len(marks)] - 1)
    /\ marks' = SubSeq(marks, 1, Len(marks) - 1)

RollBackNothing ==
    /\ chain' = chain
    /\ marks' = SubSeq(marks, 1, Len(marks) - 1)

(* ROLLBACK TO the innermost seam: its rows and those of nested calls vanish. *)
RollBackSeam ==
    /\ chain' = SubSeq(chain, 1, marks[Len(marks)])
    /\ marks' = SubSeq(marks, 1, Len(marks) - 1)

(* What a reopened file would show. *)
Durable == IF marks = <<>> THEN chain ELSE SubSeq(chain, 1, marks[1])

(* A caller outside the kernel, or the effect now running, may call in. *)
MayCall == stack # <<>> => Top.step = "effect"

(* Receipts of the given kinds now in the chain. *)
Count(kinds) == Cardinality({k \in 1..Len(chain) : chain[k].kind \in kinds})

-----------------------------------------------------------------------------
(* The decision.                                                            *)

Admit(r) ==
    /\ MayCall
    /\ Len(calls) < MaxCalls
    /\ Verdict(r) = "gate_admit"
    /\ chain' = Append(chain, [call |-> Len(calls) + 1, kind |-> "gate_admit"])
    /\ calls' = Append(calls,
           [parent |-> IF stack = <<>> THEN 0 ELSE Me, governed |-> Enforced(r),
            class |-> r.class, warrant |-> r.warrant,
            strict |-> Enforced(r) /\ config.requireWarrant, result |-> "open"])
    /\ stack' = Append(stack, [call |-> Len(calls) + 1, step |-> "admitted"])
    /\ UNCHANGED <<status, config, marks, acts, warrants>>

(***************************************************************************)
(* A protocol error or a constitutional refusal is receipted, then raised. *)
(* A malformed call, and one whose decision cannot be written, raises and  *)
(* changes nothing.                                                        *)
(***************************************************************************)
Refuse(r) ==
    /\ MayCall
    /\ Verdict(r) \in {"protocol_error", "gate_refuse"}
    /\ Count({"protocol_error", "gate_refuse"}) < MaxRefusals
    /\ chain' = Append(chain, [call |-> 0, kind |-> Verdict(r)])
    /\ UNCHANGED <<status, config, marks, stack, calls, acts, warrants>>

(***************************************************************************)
(* The decision warrant: written and read back, or the failure is          *)
(* swallowed, unless the model in force at admission requires a warrant.   *)
(***************************************************************************)
MaterialiseWarrant ==
    /\ At("admitted")
    /\ Goto("ready")
    /\ warrants' = IF calls[Me].warrant THEN warrants \cup {Me} ELSE warrants
    /\ UNCHANGED <<status, config, chain, marks, acts>>

(* Faulty WarrantFails: swallowed under every model. *)
WarrantFailureSwallowed ==
    /\ At("admitted")
    /\ calls[Me].warrant
    /\ Goto("ready")
    /\ UNCHANGED <<status, config, chain, marks, acts, warrants>>

WarrantFails ==
    /\ At("admitted")
    /\ calls[Me].warrant
    /\ IF calls[Me].strict THEN Finish("raised") ELSE Goto("ready")
    /\ UNCHANGED <<status, config, chain, marks, acts, warrants>>

-----------------------------------------------------------------------------
(* The effect classes.  Any write but the ones in EffectTrail may fail, and *)
(* the error propagates.                                                    *)

(* NON_ATOMIC and no effect: the success receipt comes first. *)
LegacySuccess ==
    /\ At("ready")
    /\ Class \in {"none", "NON_ATOMIC"}
    /\ Emit("success")
    /\ IF Class = "none" THEN Finish("returned") ELSE Goto("effect")
    /\ acts' = IF Class = "none" THEN acts ELSE acts \cup {Me}
    /\ UNCHANGED <<status, config, marks, warrants>>

ExternalPrepare ==
    /\ At("ready")
    /\ Class = "EXTERNAL"
    /\ Emit("prepare")
    /\ Goto("effect")
    /\ acts' = acts \cup {Me}
    /\ UNCHANGED <<status, config, marks, warrants>>

EnterSeam ==
    /\ At("ready")
    /\ Class = "ATOMIC"
    /\ marks' = Append(marks, Len(chain))
    /\ Goto("effect")
    /\ acts' = acts \cup {Me}
    /\ UNCHANGED <<status, config, chain, warrants>>

(* The first write after the decision fails: success, PREPARE or SAVEPOINT. *)
StartFails ==
    /\ At("ready")
    /\ Finish("raised")
    /\ UNCHANGED <<status, config, chain, marks, acts, warrants>>

(* The effect writes to the store (bound: one receipt per effect). *)
EffectWrites ==
    /\ At("effect")
    /\ \A k \in 1..Len(chain) : chain[k] # [call |-> Me, kind |-> "effect"]
    /\ Emit("effect")
    /\ UNCHANGED <<status, config, marks, stack, calls, acts, warrants>>

EffectReturns ==
    /\ At("effect")
    /\ CASE Class = "ATOMIC" -> Goto("succeeding")
         [] Class = "EXTERNAL" -> Goto("committing")
         [] Class = "NON_ATOMIC" -> Finish("returned")
    /\ UNCHANGED <<status, config, chain, marks, acts, warrants>>

(* Whatever an ATOMIC effect raises, its seam is rolled back first. *)
AtomicEffectRaises ==
    /\ At("effect")
    /\ Class = "ATOMIC"
    /\ RollBackSeam
    /\ Goto("aborting")
    /\ UNCHANGED <<status, config, acts, warrants>>

(* An Exception of a NON_ATOMIC effect, or ExternalEffectNotPerformed. *)
EffectFails ==
    /\ At("effect")
    /\ Class \in {"NON_ATOMIC", "EXTERNAL"}
    /\ Goto("failing")
    /\ UNCHANGED <<status, config, chain, marks, acts, warrants>>

(* A BaseException of a NON_ATOMIC effect; an ambiguous one of an EXTERNAL effect. *)
EffectRaisesThrough ==
    /\ At("effect")
    /\ Class \in {"NON_ATOMIC", "EXTERNAL"}
    /\ Finish("raised")
    /\ UNCHANGED <<status, config, chain, marks, acts, warrants>>

(* Inside the seam, after the effect. *)
SeamSuccess ==
    /\ At("succeeding")
    /\ Emit("success")
    /\ Goto("releasing")
    /\ UNCHANGED <<status, config, marks, acts, warrants>>

Release ==
    /\ At("releasing")
    /\ marks' = SubSeq(marks, 1, Len(marks) - 1)
    /\ Finish("returned")
    /\ UNCHANGED <<status, config, chain, acts, warrants>>

(* Faulty SeamFails: the error is swallowed, or the release retried for ever. *)
SeamFailureSwallowed ==
    /\ At("succeeding") \/ At("releasing")
    /\ RollBackSeam
    /\ Finish("returned")
    /\ UNCHANGED <<status, config, acts, warrants>>

SeamRetries ==
    /\ At("releasing")
    /\ chain' = SubSeq(chain, 1, Len(chain) - 1)
    /\ Goto("succeeding")
    /\ UNCHANGED <<status, config, marks, acts, warrants>>

(* The success write or the RELEASE fails: TransactionCommitError or the error. *)
SeamFails ==
    /\ At("succeeding") \/ At("releasing")
    /\ RollBackSeam
    /\ Goto("aborting")
    /\ UNCHANGED <<status, config, acts, warrants>>

(* _emit_effect_abort, the failed receipt, and the external terminals. *)
WriteOutcome ==
    /\ \/ At("aborting") /\ Emit("abort") /\ Finish("raised")
       \/ At("failing") /\ Finish("raised")
             /\ Emit(IF Class = "EXTERNAL" THEN "abort" ELSE "failed")
       \/ At("committing") /\ Emit("commit") /\ Finish("returned")
    /\ UNCHANGED <<status, config, marks, acts, warrants>>

OutcomeUnwritten ==
    /\ At("aborting") \/ At("failing") \/ At("committing")
    /\ Finish("raised")
    /\ UNCHANGED <<status, config, chain, marks, acts, warrants>>

-----------------------------------------------------------------------------
(* Around the calls.                                                        *)

(* _ceremony: the legend receipt first; ACTIVE only if _activate_csh returns. *)
Ceremony ==
    /\ stack = <<>>
    /\ Count({"legend_seal"}) < MaxCeremonies
    /\ chain' = Append(chain, [call |-> 0, kind |-> "legend_seal"])
    /\ status' \in {status, "ACTIVE"}
    /\ UNCHANGED <<config, marks, stack, calls, acts, warrants>>

(* set_authority_model, set_will_store, the interposition flag. *)
Configure(c) ==
    /\ stack = <<>>
    /\ config' = c
    /\ UNCHANGED <<status, chain, marks, stack, calls, acts, warrants>>

(* The process dies; the next one has a fresh kernel over the same file. *)
Crash ==
    /\ chain' = Durable
    /\ marks' = <<>>
    /\ stack' = <<>>
    /\ status' = "UNINITIALIZED"
    /\ config' = Permissive
    /\ calls' = [i \in DOMAIN calls |->
                   IF calls[i].result = "open" THEN [calls[i] EXCEPT !.result = "raised"]
                   ELSE calls[i]]
    /\ UNCHANGED <<acts, warrants>>

Proceed ==
    \/ MaterialiseWarrant
    \/ WarrantFails
    \/ LegacySuccess
    \/ ExternalPrepare
    \/ EnterSeam
    \/ StartFails
    \/ EffectReturns
    \/ AtomicEffectRaises
    \/ EffectFails
    \/ EffectRaisesThrough
    \/ SeamSuccess
    \/ Release
    \/ SeamFails
    \/ WriteOutcome
    \/ OutcomeUnwritten

Call(r) == Admit(r) \/ Refuse(r)

(* Calls that may run inside a seam: what they do can be rolled back with it. *)
Revocable(r) == marks = <<>> \/ r.class \in {"none", "ATOMIC"}

Next ==
    \/ Proceed
    \/ EffectWrites
    \/ Ceremony
    \/ \E c \in Configs : Configure(c)
    \/ Crash
    \/ \E r \in Requests : Revocable(r) /\ Call(r)

(* A call under way goes on: effects return or raise, and the store answers. *)
Spec == Init /\ [][Next]_vars /\ WF_vars(Proceed)

(* The code does not keep an effect in a seam from making any governed call. *)
SpecNested ==
    Init /\ [][Proceed \/ Ceremony \/ Crash \/ \E r \in Requests : Call(r)]_vars

-----------------------------------------------------------------------------
(* Properties.                                                              *)

Receipted(rows, i, kind) ==
    \E k \in 1..Len(rows) : rows[k] = [call |-> i, kind |-> kind]

(***************************************************************************)
(* "A durable DECISION receipt precedes the effect on every path": once an *)
(* effect that no rollback can undo has begun, its gate_admit is in the    *)
(* file and stays there, whatever enclosing calls, failures or crashes do. *)
(***************************************************************************)
DecisionBeforeEffect ==
    \A i \in acts :
        calls[i].class # "ATOMIC" \/ calls[i].parent = 0
            => Receipted(Durable, i, "gate_admit")

(***************************************************************************)
(* The AD-38 seam: effect writes, the receipts of nested calls and the     *)
(* success receipt of an ATOMIC call reach the file together or not at     *)
(* all, at every depth of nesting and wherever the process dies.           *)
(***************************************************************************)
OutcomeAtomic ==
    \A i \in 1..Len(calls) :
        calls[i].class = "ATOMIC" =>
            /\ Receipted(Durable, i, "effect") => Receipted(Durable, i, "success")
            /\ \A k \in 1..Len(Durable) :
                  LET c == Durable[k].call
                  IN  c > 0 /\ calls[c].parent = i => Receipted(Durable, i, "success")
            /\ ~(Receipted(Durable, i, "success") /\ Receipted(Durable, i, "abort"))

(***************************************************************************)
(* "a failed effect leaves a durable structural abort, no false success":  *)
(* a success or COMMIT in the file means the call returned, and a call     *)
(* that returned to an outside caller has one; a call that raised after    *)
(* an ATOMIC effect never shows a success.  NON_ATOMIC is exempt, as       *)
(* documented: its success precedes the effect.                            *)
(***************************************************************************)
NoFalseSuccess ==
    \A i \in 1..Len(calls) :
        LET succeeded == Receipted(Durable, i, "success") \/ Receipted(Durable, i, "commit")
        IN  /\ succeeded /\ calls[i].class # "NON_ATOMIC" => calls[i].result = "returned"
            /\ calls[i].result = "returned" /\ calls[i].parent = 0 => succeeded

(***************************************************************************)
(* UNINITIALIZED is fail-closed for Tier 2 operations: below every         *)
(* governed admission the chain holds a legend_seal, whatever ceremony     *)
(* failed half way before it.                                              *)
(***************************************************************************)
FoundedBeforeGoverned ==
    \A k \in 1..Len(chain) :
        /\ chain[k].kind = "gate_admit"
        /\ calls[chain[k].call].governed
        => \E j \in 1..(k - 1) : chain[j].kind = "legend_seal"

(***************************************************************************)
(* CM-S-03: under require_warrant no effect begins and no success is       *)
(* written without a durable decision warrant; a materialisation failure   *)
(* after gate_admit stops the call.                                        *)
(***************************************************************************)
WarrantBeforeEffect ==
    \A i \in 1..Len(calls) :
        calls[i].strict /\ (i \in acts \/ Receipted(chain, i, "success"))
            => i \in warrants

(***************************************************************************)
(* Every execute() returns or raises: no path leaves a call, or the seam   *)
(* it holds open, waiting for ever.                                        *)
(***************************************************************************)
CallsEnd == stack # <<>> ~> stack = <<>> /\ marks = <<>>
=============================================================================
