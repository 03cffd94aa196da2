----------------------------- MODULE Transport ------------------------------
(***************************************************************************)
(* The thin adapters in front of the kernel: the in-process broker         *)
(* (ugk/transport/broker.py), the JSON-RPC server with its nonces          *)
(* (ugk/transport/rpc.py) and the agent surface with its lazily created    *)
(* default kernel (ugk/transport/agent.py).                                *)
(*                                                                         *)
(* None of them locks the kernel: an adapter runs execute(), and reads the *)
(* chain's tip for its answer in a later step; the default kernel is       *)
(* published before its ceremony.  execute() is reduced to the receipts it *)
(* leaves (module Kernel) and to how it ends: it returns, a gate refuses,  *)
(* it raises one of the four exceptions of the protocol boundary, or it    *)
(* raises anything else.                                                   *)
(***************************************************************************)
EXTENDS Integers, Sequences, FiniteSets

CONSTANTS
    TrThreads,      \* client threads
    TrNonces,       \* nonces of RPC requests; an omitted one is a nonce like any other
    TrMaxCalls,     \* bound: calls
    TrMaxKernels,   \* bound: kernels, the RPC server's own first
    TrMaxChain      \* bound: a chain this long gets no session or phase receipt

ASSUME TrAssumption ==
    TrMaxCalls \in Nat /\ TrMaxKernels \in Nat \ {0} /\ TrMaxChain \in Nat

VARIABLES
    trKernels,  \* the kernels of the process, in the order of construction
    trDefault,  \* _default_kernel: 0 is None
    trBroker,   \* _default_broker: 0 is None
    trSeen,     \* _seen_nonces of the RPC server
    trRan,      \* history: <<nonce, call>> executed since the server started
    trCalls,    \* calls so far
    trPc,       \* for each thread, where it is
    trAnswers   \* history: the answers with a chain hash in them

trVars == <<trKernels, trDefault, trBroker, trSeen, trRan, trCalls, trPc, trAnswers>>

TrNoNonce == "none"

TrPlaces ==
    {"idle", "default", "ceremony", "session", "broker", "got",
     "exec", "outcome", "seam", "undone", "tip"}

(* How execute() ended, as far as it matters to an answer with a hash. *)
TrKinds == {"refused", "admitted", "error"}

(* A thread's place; the kernel it uses, its call, its nonce ("none" for a   *)
(* broker call) and how its call ended.                                      *)
TrFrame ==
    [at : TrPlaces, kernel : 0..TrMaxKernels, call : 0..TrMaxCalls,
     nonce : TrNonces \cup {TrNoNonce}, kind : TrKinds]

TrFree == [at |-> "idle", kernel |-> 0, call |-> 0, nonce |-> TrNoNonce, kind |-> "refused"]

(* A committed receipt is the call it belongs to; 0 is the kernel's own. *)
TrKernel == [founded : BOOLEAN, chain : Seq(0..TrMaxCalls)]

TrTypeOK ==
    /\ trKernels \in Seq(TrKernel) /\ Len(trKernels) <= TrMaxKernels
    /\ trDefault \in 0..Len(trKernels) /\ trBroker \in 0..Len(trKernels)
    /\ trSeen \subseteq TrNonces /\ trRan \subseteq TrNonces \X (1..TrMaxCalls)
    /\ trCalls \in 0..TrMaxCalls /\ trPc \in [TrThreads -> TrFrame]
    /\ trAnswers \subseteq
        [call : 1..TrMaxCalls, kernel : 1..TrMaxKernels, tip : Nat, kind : TrKinds]

----------------------------------------------------------------------------
TrMove(t, at) == trPc' = [trPc EXCEPT ![t].at = at]

TrAppend(k, call) == trKernels' = [trKernels EXCEPT ![k].chain = Append(@, call)]

(* The store's lock is held through a seam: until it ends nobody else writes. *)
TrLocked(k) == \E t \in TrThreads : trPc[t].at = "seam" /\ trPc[t].kernel = k

TrReceipt(k, call) == ~TrLocked(k) /\ TrAppend(k, call)

TrTip(k) == Len(trKernels[k].chain)

TrCallFrame(k, nonce) ==
    [at |-> "exec", kernel |-> k, call |-> trCalls + 1, nonce |-> nonce, kind |-> "refused"]

(* Mutant of TrGovern: the nonce is looked up and not recorded. *)
TrGovernForgetting(t, nonce) ==
    /\ trPc[t] = TrFree /\ trCalls < TrMaxCalls
    /\ nonce \notin trSeen /\ UNCHANGED trSeen
    /\ trCalls' = trCalls + 1 /\ trPc' = [trPc EXCEPT ![t] = TrCallFrame(1, nonce)]
    /\ UNCHANGED <<trKernels, trDefault, trBroker, trRan, trAnswers>>

(* _handle_govern(): the nonce is tested and recorded under the lock, before *)
(* execute(); a seen nonce is answered replay_detected.                      *)
TrGovern(t, nonce) ==
    /\ trPc[t] = TrFree /\ trCalls < TrMaxCalls
    /\ nonce \notin trSeen /\ trSeen' = trSeen \cup {nonce}
    /\ trCalls' = trCalls + 1 /\ trPc' = [trPc EXCEPT ![t] = TrCallFrame(1, nonce)]
    /\ UNCHANGED <<trKernels, trDefault, trBroker, trRan, trAnswers>>

(* submit() on the broker of a kernel the caller holds. *)
TrSubmit(t, k) ==
    /\ trPc[t] = TrFree /\ trCalls < TrMaxCalls
    /\ trCalls' = trCalls + 1 /\ trPc' = [trPc EXCEPT ![t] = TrCallFrame(k, TrNoNonce)]
    /\ UNCHANGED <<trKernels, trDefault, trBroker, trSeen, trRan, trAnswers>>

(* submit() of an effect without an atomicity class: the broker writes the   *)
(* refusal itself and answers with that receipt's own hash.                  *)
TrSubmitUndeclared(t, k) ==
    /\ trPc[t] = TrFree /\ trCalls < TrMaxCalls
    /\ trCalls' = trCalls + 1 /\ TrReceipt(k, trCalls + 1)
    /\ trAnswers' = trAnswers \cup
        {[call |-> trCalls + 1, kernel |-> k, tip |-> TrTip(k) + 1, kind |-> "refused"]}
    /\ UNCHANGED <<trDefault, trBroker, trSeen, trRan, trPc>>

(* _get_default_kernel(): no lock.  A thread that sees None builds a kernel  *)
(* and publishes it ...                                                      *)
TrDefaultMissing(t) ==
    /\ trPc[t] = TrFree /\ trDefault = 0 /\ Len(trKernels) < TrMaxKernels
    /\ trPc' = [trPc EXCEPT ![t].at = "default"]
    /\ UNCHANGED <<trKernels, trDefault, trBroker, trSeen, trRan, trCalls, trAnswers>>

TrDefaultBuilt(t) ==
    /\ trPc[t].at = "default" /\ Len(trKernels) < TrMaxKernels
    /\ trKernels' = Append(trKernels, [founded |-> FALSE, chain |-> <<>>])
    /\ trDefault' = Len(trKernels) + 1 /\ TrMove(t, "ceremony")
    /\ UNCHANGED <<trBroker, trSeen, trRan, trCalls, trAnswers>>

(* ... and then founds it, opens its session and publishes a broker: each    *)
(* time on whatever _default_kernel now is.                                  *)
TrDefaultFounded(t) ==
    /\ trPc[t].at = "ceremony" /\ TrMove(t, "session") /\ ~TrLocked(trDefault)
    /\ trKernels' = [trKernels EXCEPT ![trDefault].founded = TRUE,
                                      ![trDefault].chain = Append(@, 0)]
    /\ UNCHANGED <<trDefault, trBroker, trSeen, trRan, trCalls, trAnswers>>

TrDefaultSession(t) ==
    /\ trPc[t].at = "session" /\ TrMove(t, "broker") /\ TrReceipt(trDefault, 0)
    /\ UNCHANGED <<trDefault, trBroker, trSeen, trRan, trCalls, trAnswers>>

TrDefaultBroker(t) ==
    /\ trPc[t].at = "broker" /\ TrMove(t, "got") /\ trBroker' = trDefault
    /\ UNCHANGED <<trKernels, trDefault, trSeen, trRan, trCalls, trAnswers>>

TrDefaultThere(t) ==
    /\ trPc[t] = TrFree /\ trDefault # 0 /\ TrMove(t, "got")
    /\ UNCHANGED <<trKernels, trDefault, trBroker, trSeen, trRan, trCalls, trAnswers>>

(* ugk_govern(): the call goes to the published broker; while there is none, *)
(* the attribute lookup on None raises.                                      *)
TrAgentGovern(t) ==
    /\ trPc[t].at = "got" /\ trCalls < TrMaxCalls /\ trBroker # 0
    /\ trCalls' = trCalls + 1 /\ trPc' = [trPc EXCEPT ![t] = TrCallFrame(trBroker, TrNoNonce)]
    /\ UNCHANGED <<trKernels, trDefault, trBroker, trSeen, trRan, trAnswers>>

TrAgentRaises(t) ==
    /\ trPc[t].at = "got" /\ trBroker = 0 /\ trPc' = [trPc EXCEPT ![t] = TrFree]
    /\ UNCHANGED <<trKernels, trDefault, trBroker, trSeen, trRan, trCalls, trAnswers>>

----------------------------------------------------------------------------
TrRuns(t) ==
    trRan' = IF trPc[t].nonce = TrNoNonce THEN trRan
             ELSE trRan \cup {<<trPc[t].nonce, trPc[t].call>>}

(* execute(): admitted, first receipt; before the ceremony too, if the        *)
(* operation is universal ...                                                 *)
TrAdmit(t) ==
    /\ trPc[t].at = "exec" /\ TrRuns(t) /\ TrReceipt(trPc[t].kernel, trPc[t].call)
    /\ TrMove(t, "outcome")
    /\ UNCHANGED <<trDefault, trBroker, trSeen, trCalls, trAnswers>>

(* ... a receipt more, of a phase of the effect ... *)
TrPhase(t) ==
    /\ trPc[t].at = "outcome" /\ TrTip(trPc[t].kernel) < TrMaxChain
    /\ TrReceipt(trPc[t].kernel, trPc[t].call)
    /\ UNCHANGED <<trDefault, trBroker, trSeen, trRan, trCalls, trPc, trAnswers>>

(* ... its outcome, and execute() returns ... *)
TrOutcome(t) ==
    /\ trPc[t].at = "outcome" /\ TrReceipt(trPc[t].kernel, trPc[t].call)
    /\ trPc' = [trPc EXCEPT ![t].at = "tip", ![t].kind = "admitted"]
    /\ UNCHANGED <<trDefault, trBroker, trSeen, trRan, trCalls, trAnswers>>

(* ... which is written inside a seam if the effect is PURE or STORE_LOCAL:   *)
(* its row is visible before the seam commits it or takes it back ...         *)
TrSeam(t) ==
    /\ trPc[t].at = "outcome" /\ ~TrLocked(trPc[t].kernel) /\ TrMove(t, "seam")
    /\ UNCHANGED <<trKernels, trDefault, trBroker, trSeen, trRan, trCalls, trAnswers>>

TrSeamCommits(t) ==
    /\ trPc[t].at = "seam" /\ TrAppend(trPc[t].kernel, trPc[t].call)
    /\ trPc' = [trPc EXCEPT ![t].at = "tip", ![t].kind = "admitted"]
    /\ UNCHANGED <<trDefault, trBroker, trSeen, trRan, trCalls, trAnswers>>

TrSeamRollsBack(t) ==
    /\ trPc[t].at = "seam" /\ TrMove(t, "undone")
    /\ UNCHANGED <<trKernels, trDefault, trBroker, trSeen, trRan, trCalls, trAnswers>>

(* ... or refused by a gate, with a receipt ... *)
TrRefuse(t) ==
    /\ trPc[t].at = "exec" /\ TrRuns(t) /\ TrReceipt(trPc[t].kernel, trPc[t].call)
    /\ TrMove(t, "tip")
    /\ UNCHANGED <<trDefault, trBroker, trSeen, trCalls, trAnswers>>

(* ... or not to be done.  What raises leaves one more receipt (protocol_error, *)
(* an abort, a failure), or none: the preflight writes none, and whatever       *)
(* _emit_protocol_error() meets is swallowed.                                   *)
TrFails(t) ==
    /\ trPc[t].at \in {"exec", "outcome", "undone"} /\ TrRuns(t)
    /\ TrReceipt(trPc[t].kernel, trPc[t].call) \/ UNCHANGED trKernels
    /\ UNCHANGED <<trDefault, trBroker, trSeen, trCalls, trAnswers>>

(* KernelInternalOp, GovernanceNotFounded, UndeclaredOp and ProtocolError are *)
(* answered without a hash, although the call may have left receipts.         *)
TrTurnAway(t) == TrFails(t) /\ trPc' = [trPc EXCEPT ![t] = TrFree]

(* Any other exception is answered with the tip, although the call may have   *)
(* left no receipt at all.                                                    *)
TrRaise(t) == TrFails(t) /\ trPc' = [trPc EXCEPT ![t].at = "tip", ![t].kind = "error"]

(* Mutant of TrAnswerTip: the tip is the one before the last receipt. *)
TrAnswerTipStale(k) == TrTip(k) - 1

TrAnswerTip(k) == TrTip(k)

(* The answer: stream_hash() is the tip now, which another thread may have    *)
(* moved.  It is read without the lock: while a seam of another thread is     *)
(* open the hash is of its row, which may still be taken back; tip counts the *)
(* receipts committed before it.  The RPC server puts a hash only in the      *)
(* answer of an admitted call.                                                *)
TrAnswer(t) ==
    /\ trPc[t].at = "tip" /\ trPc' = [trPc EXCEPT ![t] = TrFree]
    /\ trAnswers' = IF trPc[t].nonce # TrNoNonce /\ trPc[t].kind # "admitted" THEN trAnswers
                    ELSE trAnswers \cup
                        {[call |-> trPc[t].call, kernel |-> trPc[t].kernel,
                          tip |-> TrAnswerTip(trPc[t].kernel), kind |-> trPc[t].kind]}
    /\ UNCHANGED <<trKernels, trDefault, trBroker, trSeen, trRan, trCalls>>

(* ugk_session() on a kernel: open_session() and close_session() write a      *)
(* receipt each; the body's calls come in between.                            *)
TrSession(k) ==
    /\ TrTip(k) < TrMaxChain /\ trKernels[k].founded /\ TrReceipt(k, 0)
    /\ UNCHANGED <<trDefault, trBroker, trSeen, trRan, trCalls, trPc, trAnswers>>

(* The server is started again, with a kernel on the same store: the nonces   *)
(* were in memory.                                                            *)
TrRestart ==
    /\ \A t \in TrThreads : trPc[t].nonce = TrNoNonce
    /\ trSeen # {} /\ trSeen' = {} /\ trRan' = {}
    /\ UNCHANGED <<trKernels, trDefault, trBroker, trCalls, trPc, trAnswers>>

TrInit ==
    /\ trKernels = <<[founded |-> TRUE, chain |-> <<0>>]>>
    /\ trDefault = 0 /\ trBroker = 0 /\ trSeen = {} /\ trRan = {} /\ trCalls = 0
    /\ trPc = [t \in TrThreads |-> TrFree] /\ trAnswers = {}

TrNext ==
    \/ \E t \in TrThreads :
        \/ \E n \in TrNonces : TrGovern(t, n)
        \/ TrSubmit(t, 1) \/ TrSubmitUndeclared(t, 1)
        \/ TrDefaultMissing(t) \/ TrDefaultBuilt(t) \/ TrDefaultFounded(t)
        \/ TrDefaultSession(t) \/ TrDefaultBroker(t) \/ TrDefaultThere(t)
        \/ TrAgentGovern(t) \/ TrAgentRaises(t)
        \/ TrAdmit(t) \/ TrPhase(t) \/ TrOutcome(t) \/ TrRefuse(t)
        \/ TrSeam(t) \/ TrSeamCommits(t) \/ TrSeamRollsBack(t)
        \/ TrTurnAway(t) \/ TrRaise(t) \/ TrAnswer(t)
    \/ TrSession(1)
    \/ TrRestart

TrSpec == TrInit /\ [][TrNext]_trVars

----------------------------------------------------------------------------
(* A nonce is executed at most once in a server's life, whatever two threads *)
(* send at once ("rejects requests with a previously seen nonce").           *)
TrNonceOnce == \A x, y \in trRan : x[1] = y[1] => x = y

(* When an answer with a hash is given, the receipts of its call are on the  *)
(* chain already, all of them, and if the call was admitted or refused there *)
(* is one: no receipt of a call comes after its answer, and the chain up to  *)
(* the hash, which may be of another call, accounts for it.  Only the answer *)
(* to an unexpected exception may have no receipt of its own behind its hash.*)
TrAnswerCovers ==
    \A a \in trAnswers :
        LET own == {i \in 1..TrTip(a.kernel) : trKernels[a.kernel].chain[i] = a.call}
        IN  (a.kind # "error" => own # {}) /\ \A i \in own : i <= a.tip
=============================================================================
