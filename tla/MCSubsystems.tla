---------------------------- MODULE MCSubsystems ----------------------------
(***************************************************************************)
(* The subsystems around the receipt store and the kernel, on one small    *)
(* instance each.  They share no state: a behaviour chooses one of them    *)
(* (focus) and the others stay in their initial states, so the run         *)
(* explores the union of their state spaces, not the product.              *)
(***************************************************************************)
EXTENDS Namespace, MCWill, Deferred, Amendments, Transport, Csh, Provenance,
        Scale, Release, MCFrontier, Detached, Deployment, TLC

VARIABLE focus      \* the subsystem this behaviour explores

-----------------------------------------------------------------------------
(* Values of the constants.                                                *)

MCCanon == [s \in NsSpellings |-> IF s = "blank" THEN "" ELSE "n"]

\* The genesis record; moves of the law, one that nobody signed; a move of the leg away from a
\* value that is not the live one.
MCRecord(id, priorLaw, law, priorLeg, leg, signed, prev) ==
    [id |-> id, priorLaw |-> priorLaw, law |-> law, priorLeg |-> priorLeg, leg |-> leg,
     signed |-> signed, prev |-> prev]
MCRecords ==
    {AmGenesis, MCRecord(2, "l1", "l0", "", "", TRUE, 1), MCRecord(3, "l1", "l0", "", "", FALSE, 1),
     MCRecord(4, "l0", "l0", "g1", "g0", TRUE, 2)}

MCEdges ==
    {[issuer |-> "Governor", caps |-> {}, until |-> 1, good |-> TRUE],
     [issuer |-> "Governor", caps |-> PvCaps, until |-> 0, good |-> TRUE],
     [issuer |-> "a", caps |-> PvCaps, until |-> 1, good |-> TRUE]}

MCCand(id, op, inputs, binding, effects) ==
    [id |-> id, op |-> op, session |-> id, marker |-> FALSE, posture |-> FALSE, aggregate |-> FALSE,
     grant |-> FALSE, subject |-> "ALL_PENDING", inputs |-> inputs, grounded |-> TRUE,
     warrants |-> {"g"}, binding |-> binding, effects |-> effects]
MCSeed ==
    <<[hash |-> "g", effects |-> {}, grant |-> TRUE, fired |-> TRUE],
      [hash |-> "s", effects |-> {"e0"}, grant |-> FALSE, fired |-> TRUE]>>
MCCands ==
    {MCCand("bulk1", "bulk", {"s"}, {"k1"}, {"e1"}),
     MCCand("write2", "app_write", {"s"}, {"k2"}, {"e2"}),
     MCCand("write1", "app_write", {"s"}, {"k1", "k3"}, {"e3"}),
     MCCand("reader", "app_write", {"e1"}, {"k4"}, {"e4"}),
     [MCCand("refuse0", "gate_refuse", {"s"}, {"k5"}, {}) EXCEPT !.subject = "e0"],
     [MCCand("model", "authority_model_set", {"s"}, {"k7"}, {}) EXCEPT !.posture = TRUE, !.grant = TRUE]}
MCNamed(id) == CHOOSE c \in MCCands : c.id = id
MCOrders ==
    {<<"bulk1">>, <<"model">>, <<"bulk1", "write1", "reader">>, <<"reader", "bulk1", "write1">>,
     <<"bulk1", "model", "write1">>, <<"model", "bulk1", "write2">>, <<"write2", "model", "reader">>,
     <<"bulk1", "write2", "refuse0">>, <<"write2", "bulk1", "refuse0">>, <<"refuse0", "bulk1", "write2">>,
     <<"bulk1", "write1", "write2", "refuse0">>, <<"bulk1", "write2", "write1", "reader", "refuse0">>}
MCBatches == {[i \in DOMAIN o |-> MCNamed(o[i])] : o \in MCOrders}

MCArchives ==
    ("a1" :> ("t" :> 1 @@ "u" :> 1)) @@ ("a2" :> ("t" :> 1 @@ "u" :> 2)) @@ ("a3" :> ("u" :> 2))
MCMembers ==
    ("quick" :> <<"hygiene", "frame", "ugk_confinement", "nodrift">>)
    @@ ("compose" :> <<"hygiene", "grbsa_forest", "compose">>)
MCKind ==
    ("hygiene" :> "marked") @@ ("frame" :> "frame") @@ ("ugk_confinement" :> "confinement")
    @@ ("nodrift" :> "nodrift") @@ ("grbsa_forest" :> "forest") @@ ("compose" :> "bounded")
MCTool == [n \in {"hygiene", "compose"} |-> "t"]
MCPriors == {RlNone, "a1"}
MCWorktrees == {RlNone, MCArchives["a2"]}

-----------------------------------------------------------------------------
(* The composition.                                                        *)

Subsystems ==
    {"namespace", "will", "deferred", "amendments", "transport", "csh", "provenance",
     "scale", "release", "frontier", "detached", "deployment"}

SubsystemsInit ==
    /\ focus \in Subsystems
    /\ NsInit /\ WlInit /\ CtInit /\ AmInit /\ TrInit /\ CshInit /\ PvInit /\ ScInit
    /\ RlInit /\ FrInit /\ RdInit /\ DpInit
    /\ focus # "will" => wlPosture = [intent |-> TRUE, scoped |-> FALSE] /\ wlSession = "s1"
    /\ focus # "frontier" => frCorpus = MCFullCorpus
    /\ focus # "deployment" => \A f \in DpNames : ~DpExists(f)

SubsystemsNext ==
    /\ UNCHANGED focus
    /\ IF focus = "namespace" THEN NsNext ELSE UNCHANGED nsVars
    /\ IF focus = "will" THEN WlNext ELSE UNCHANGED wlVars
    /\ IF focus = "deferred" THEN CtNext ELSE UNCHANGED ctVars
    /\ IF focus = "amendments" THEN AmNext ELSE UNCHANGED amVars
    /\ IF focus = "transport" THEN TrNext ELSE UNCHANGED trVars
    /\ IF focus = "csh" THEN CshNext ELSE UNCHANGED cshVars
    /\ IF focus = "provenance" THEN PvNext ELSE UNCHANGED pvVars
    /\ IF focus = "scale" THEN ScNext ELSE UNCHANGED scVars
    /\ IF focus = "release" THEN RlNext ELSE UNCHANGED rlVars
    /\ IF focus = "frontier" THEN FrNext ELSE UNCHANGED frVars
    /\ IF focus = "detached" THEN RdNext ELSE UNCHANGED rdVars
    /\ IF focus = "deployment" THEN DpNext ELSE UNCHANGED dpVars

SubsystemsSpec ==
    SubsystemsInit /\ [][SubsystemsNext]_<<focus, nsVars, wlVars, ctVars, amVars, trVars, cshVars,
                                          pvVars, scVars, rlVars, frVars, rdVars, dpVars>>

\* The state of every subsystem has its type.
SubsystemsTypeOK ==
    /\ NsTypeOK /\ WlTypeOK /\ CtTypeOK /\ AmTypeOK /\ TrTypeOK /\ CshTypeOK
    /\ PvTypeOK /\ ScTypeOK /\ RlTypeOK /\ FrTypeOK /\ RdTypeOK /\ DpTypeOK
=============================================================================
