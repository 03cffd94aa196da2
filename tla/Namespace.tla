----------------------------- MODULE Namespace -----------------------------
(***************************************************************************)
(* Namespace ownership (ugk/namespace_governance.py).  There is no table:  *)
(* the holder of a name is a fold over the receipt chain, recomputed by    *)
(* every gate.  execute() runs a gate and writes the receipt in two steps  *)
(* with no lock around them, so a request may be written after the holding *)
(* it was admitted on has changed.                                         *)
(*                                                                         *)
(* The gate_admit and gate_refuse receipts of execute() (module Kernel)    *)
(* carry no name, are skipped by the fold and are left out of the chain.   *)
(***************************************************************************)
EXTENDS Naturals, Sequences, FiniteSets

CONSTANTS
    NsThreads,      \* callers of the library
    NsNames,        \* canonical names; "" is none of them
    NsSpellings,    \* spellings a caller may pass
    NsCanon,        \* canonicalize(), as a function of the spelling
    NsAuthorities,  \* authority strings
    NsGovernor,     \* kernel._mosaic_root
    NsDefault,      \* kernel._authority, used when no authority is passed
    NsMaxLog        \* bound: ownership receipts written

ASSUME NsAssumption ==
    /\ "" \notin NsNames
    /\ NsCanon \in [NsSpellings -> NsNames \cup {""}]
    /\ {NsGovernor, NsDefault} \subseteq NsAuthorities
    /\ "None" \notin NsAuthorities
    /\ NsMaxLog \in Nat

VARIABLES
    nsLog,      \* the successful ownership receipts in the store, oldest first
    nsPending,  \* for each thread, the receipt its admitted call is about to write
    nsPruned    \* receipts that epoch prunes took out of the store

nsVars == <<nsLog, nsPending, nsPruned>>

NsOps == {"claim", "allocate", "delegate", "revoke", "invalidate", "supersede",
          "adjudicate"}

(* The authority argument; None is the default of every function. *)
NsArgs == NsAuthorities \cup {"None"}

NsReceipt == [op : NsOps, name : NsNames, authority : NsAuthorities, who : NsArgs]

NsIdle == <<>>

NsTypeOK ==
    /\ nsLog \in Seq(NsReceipt) /\ Len(nsLog) <= NsMaxLog
    /\ nsPending \in [NsThreads -> {NsIdle} \cup NsReceipt]
    /\ nsPruned \in 0..NsMaxLog

----------------------------------------------------------------------------
(* The projection.  A name is held by an authority or by nobody ("None").   *)

NsEmpty ==
    [owner     |-> [n \in NsNames |-> "None"],
     revoked   |-> {},
     delegates |-> [n \in NsNames |-> {}]]

(* One receipt folded into the holdings: the branches of _project's loop.   *)
(* owns: the signer holds the name; barred: names no award can give away;   *)
(* heirs: the delegates a new holder starts with.                           *)
NsFold(st, r, owns, barred, heirs) ==
    LET given(o) == [st EXCEPT !.owner[r.name] = o, !.delegates[r.name] = heirs]
    IN  CASE r.op = "allocate" /\ st.owner[r.name] = "None" /\ r.name \notin st.revoked ->
                [st EXCEPT !.owner[r.name] = r.authority]
          [] r.op = "delegate" /\ owns ->
                [st EXCEPT !.delegates[r.name] = @ \cup {r.who}]
          [] r.op \in {"revoke", "invalidate"} /\ owns ->
                [given("None") EXCEPT !.revoked = @ \cup {r.name}]
          [] r.op = "supersede" /\ owns -> given(r.who)
          [] r.op = "adjudicate" /\ r.name \notin barred -> given(r.who)
          [] OTHER -> st

NsHolds(st, r) == st.owner[r.name] # "None" /\ r.authority = st.owner[r.name]

(* Mutants of NsApply: an owner's act believed because its gate passed, an   *)
(* award that revives a revoked name, delegates carried over a transfer.     *)
NsApplyTrustingGate(st, r) == NsFold(st, r, st.owner[r.name] # "None", st.revoked, {})
NsApplyReviving(st, r) == NsFold(st, r, NsHolds(st, r), {}, {})
NsApplyKeeping(st, r) == NsFold(st, r, NsHolds(st, r), st.revoked, st.delegates[r.name])

NsApply(st, r) == NsFold(st, r, NsHolds(st, r), st.revoked, {})

NsProject(log) ==
    LET upTo[k \in 0..Len(log)] ==
            IF k = 0 THEN NsEmpty ELSE NsApply(upTo[k - 1], log[k])
    IN  upTo[Len(log)]

NsOwnerOf(n) == NsProject(nsLog).owner[n]
NsRevoked == NsProject(nsLog).revoked
NsDelegatesOf(n) == NsProject(nsLog).delegates[n]
NsHasAuthority(n, a) == a = NsOwnerOf(n) \/ a \in NsDelegatesOf(n)

----------------------------------------------------------------------------
(* The operations.  Each is one execute(): here its gate has passed and the *)
(* receipt is not written yet.  A refused gate leaves the chain's ownership *)
(* receipts as they are and needs no action.                                *)

(* Receipts written or about to be written; the bound is on these. *)
NsReceipts == nsPruned + Len(nsLog) + Cardinality({t \in NsThreads : nsPending[t] # NsIdle})

NsAdmit(t, op, spelling, authority, who) ==
    /\ nsPending[t] = NsIdle /\ NsReceipts < NsMaxLog
    /\ NsCanon[spelling] # ""
    /\ nsPending' = [nsPending EXCEPT ![t] =
            [op |-> op, name |-> NsCanon[spelling], who |-> who,
             authority |-> IF authority = "None" THEN NsDefault ELSE authority]]
    /\ UNCHANGED <<nsLog, nsPruned>>

(* owner_of() == authority: both are None when nobody holds the name.       *)
NsOwnerGate(spelling, authority) ==
    NsCanon[spelling] # "" /\ NsOwnerOf(NsCanon[spelling]) = authority

NsClaim(t, s, a) == NsAdmit(t, "claim", s, a, "None")

NsAllocate(t, s, a) ==
    /\ NsCanon[s] # ""
    /\ NsOwnerOf(NsCanon[s]) = "None" /\ NsCanon[s] \notin NsRevoked
    /\ NsAdmit(t, "allocate", s, a, "None")

NsDelegate(t, s, a, to) == NsOwnerGate(s, a) /\ NsAdmit(t, "delegate", s, a, to)

NsRevoke(t, s, a) == NsOwnerGate(s, a) /\ NsAdmit(t, "revoke", s, a, "None")

NsInvalidate(t, s, a) == NsOwnerGate(s, a) /\ NsAdmit(t, "invalidate", s, a, "None")

NsSupersede(t, s, a, to) == NsOwnerGate(s, a) /\ NsAdmit(t, "supersede", s, a, to)

NsAdjudicate(t, s, a, to) ==
    /\ a = NsGovernor
    /\ NsCanon[s] \notin NsRevoked
    /\ NsAdmit(t, "adjudicate", s, a, to)

(* execute() writes the success receipt of an admitted call. *)
NsWrite(t) ==
    /\ nsPending[t] # NsIdle
    /\ nsLog' = Append(nsLog, nsPending[t])
    /\ nsPending' = [nsPending EXCEPT ![t] = NsIdle]
    /\ UNCHANGED nsPruned

(* An epoch prune deletes a prefix of the table the fold reads. *)
NsPrune(i) ==
    /\ nsLog' = SubSeq(nsLog, i + 1, Len(nsLog)) /\ nsPruned' = nsPruned + i
    /\ UNCHANGED nsPending

NsInit ==
    /\ nsLog = <<>> /\ nsPending = [t \in NsThreads |-> NsIdle] /\ nsPruned = 0

NsNext ==
    \/ \E t \in NsThreads, s \in NsSpellings, a \in NsArgs :
        \/ NsClaim(t, s, a)
        \/ NsAllocate(t, s, a)
        \/ NsRevoke(t, s, a)
        \/ NsInvalidate(t, s, a)
        \/ \E to \in NsAuthorities :
            \/ NsDelegate(t, s, a, to)
            \/ NsSupersede(t, s, a, to)
            \/ NsAdjudicate(t, s, a, to)
    \/ \E t \in NsThreads : NsWrite(t)
    \/ \E i \in DOMAIN nsLog : NsPrune(i)

NsSpec == NsInit /\ [][NsNext]_nsVars

----------------------------------------------------------------------------
(* The receipt that a step added, when it added one. *)
NsNewest == nsLog'[Len(nsLog')]

(* The holder of a name changes only by a receipt its present holder signed, *)
(* by an award of the Governor, or by the first allocation of a name nobody  *)
(* holds and nobody gave up - whatever was true when the call was admitted.  *)
(* (Re-checked by _project: two admitted allocations, a transfer and a       *)
(* revocation admitted on the same holding.)                                 *)
NsOnlyHolderActs ==
    [][nsLog' # nsLog /\ nsPruned' = nsPruned =>
        \A n \in NsNames :
            LET before == NsOwnerOf(n)
                after == NsProject(nsLog').owner[n]
            IN  after # before =>
                    \/ before # "None" /\ NsNewest.authority = before
                    \/ NsNewest.op = "adjudicate" /\ NsNewest.authority = NsGovernor
                    \/ before = "None" /\ NsNewest.op = "allocate" /\ n \notin NsRevoked]_nsVars

(* A name that was revoked or invalidated is never held again and has no    *)
(* delegates, even if an allocation, transfer or award was admitted before  *)
(* the revocation was written.  (A prune of the chain is another matter.)   *)
NsRevocationPermanent ==
    [][nsLog' # nsLog /\ nsPruned' = nsPruned =>
        \A n \in NsRevoked :
            LET st == NsProject(nsLog')
            IN  n \in st.revoked /\ st.owner[n] = "None" /\ st.delegates[n] = {}]_nsVars

(* Every delegate of a name was appointed by its present holder: a transfer, *)
(* an award or a revocation leaves no delegate of an earlier holder behind.  *)
NsDelegatesOfHolder ==
    \A n \in NsNames : \A d \in NsDelegatesOf(n) :
        \E i \in DOMAIN nsLog :
            /\ nsLog[i].op = "delegate" /\ nsLog[i].name = n /\ nsLog[i].who = d
            /\ nsLog[i].authority = NsOwnerOf(n)
            /\ \A j \in i..Len(nsLog) : NsProject(SubSeq(nsLog, 1, j)).owner[n] = NsOwnerOf(n)
=============================================================================
