------------------------------- MODULE MCWill -------------------------------
(* The instance of Will: an open declaration, a wider one for the session    *)
(* "s1" and one for another session.                                         *)
EXTENDS Will

MCDecls ==
    {[ops |-> {"a"}, scope |-> ""], [ops |-> {"a", "b"}, scope |-> "s1"], [ops |-> {"c"}, scope |-> "s2"]}
=============================================================================
