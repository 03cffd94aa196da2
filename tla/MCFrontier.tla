----------------------------- MODULE MCFrontier -----------------------------
(* The instance of Frontier: an attested link a -> b, a successor c that may *)
(* be pinned or not, a fork d, and directories in which b.tgz or c.tgz was   *)
(* replaced or is missing.                                                   *)
EXTENDS Frontier

MCLink(label, baseFile, base, candFile, cand) ==
    [label |-> label, baseFile |-> baseFile, base |-> base, candFile |-> candFile, cand |-> cand]
MCOld == MCLink("ab", "a.tgz", "z", "b.tgz", "h")
MCSurfaces ==
    {<<MCOld>>, <<MCOld, MCLink("bc", "b.tgz", "h", "c.tgz", "x")>>,
     <<MCOld, MCLink("bd", "b.tgz", "h", "d.tgz", "y"), MCLink("bc", "b.tgz", "h", "c.tgz", FrNone)>>}
MCAttested(cand) == [composed |-> TRUE, links |-> <<[label |-> "ab", base |-> "z", cand |-> cand, verdict |-> "HOLD"]>>]
MCAttestations == {FrNone, MCAttested("h"), MCAttested("y")}
MCUgk == [c \in FrContents |-> IF c = "y" THEN "h" ELSE c]
MCHolds == {<<"h", "x">>, <<"y", "x">>}
MCFullCorpus == ("b.tgz" :> "h") @@ ("c.tgz" :> "x") @@ ("d.tgz" :> "y")
MCCorpora ==
    {MCFullCorpus, ("b.tgz" :> "y") @@ ("c.tgz" :> "x"), ("b.tgz" :> "h") @@ ("c.tgz" :> "z"), ("c.tgz" :> "x")}
=============================================================================
