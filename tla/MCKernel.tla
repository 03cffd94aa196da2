------------------------------ MODULE MCKernel ------------------------------
(* Kernel with requests that differ from an ordinary governed call in one   *)
(* respect: each refusal of execute() then has a request of its own.        *)
EXTENDS Kernel

Ordinary ==
    [tier |-> "governed", wellFormed |-> TRUE, signed |-> TRUE, gate |-> "true",
     warrant |-> TRUE, capable |-> TRUE, local |-> TRUE, covered |-> TRUE,
     class |-> "ATOMIC"]

MCRequests ==
    {[Ordinary EXCEPT !.class = c] : c \in EffectClass}
    \cup {[Ordinary EXCEPT !.tier = t, !.class = "none"] :
             t \in {"kernel", "universal", "undeclared"}}
    \cup {[Ordinary EXCEPT !.gate = g] : g \in {"absent", "false", "raises"}}
    \cup {[Ordinary EXCEPT !.wellFormed = FALSE], [Ordinary EXCEPT !.signed = FALSE],
          [Ordinary EXCEPT !.warrant = FALSE], [Ordinary EXCEPT !.capable = FALSE],
          [Ordinary EXCEPT !.local = FALSE], [Ordinary EXCEPT !.covered = FALSE]}

Strict ==
    [governorSig |-> TRUE, requireGate |-> TRUE,
     requireWarrant |-> TRUE, requireIntent |-> TRUE]

MCConfigs == {Strict}
=============================================================================
