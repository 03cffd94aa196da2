-------------------------------- MODULE Will --------------------------------
(***************************************************************************)
(* The will layer: IntentStore (ugk/intent.py), WillChecker (ugk/will.py)  *)
(* and steps C1-C3 of GovernanceKernel.execute(), which admit an           *)
(* application operation only if a declared intent covers it.              *)
(*                                                                         *)
(* A declaration is identified by the hash of its content; here it is the  *)
(* content: the operations it names and its scope ("" is open scope).      *)
(***************************************************************************)
EXTENDS Naturals, FiniteSets

CONSTANTS
    WlOps,          \* application operations
    WlScopes,       \* session_dkn values a declaration may name; "" is open
    WlDecls,        \* the declarations that may be made
    WlNone,         \* no declaration: intent_ref is empty
    WlMaxCalls      \* bound: calls of execute()

WlDeclaration == [ops : SUBSET WlOps, scope : WlScopes \cup {""}]

ASSUME WlAssumption ==
    /\ "" \notin WlScopes
    /\ WlDecls \subseteq WlDeclaration /\ WlNone \notin WlDecls
    /\ WlMaxCalls \in Nat

VARIABLES
    wlDeclared,     \* rows of intent_declarations
    wlFlagged,      \* declarations whose row has revoked = 1
    wlRevocations,  \* declarations named by a row of intent_revocations
    wlPosture,      \* set_will_store(): require_intent, require_scoped_intent
    wlSession,      \* session_dkn of the open session
    wlEver,         \* history: declarations that a revocation has flagged
    wlCalls         \* calls of execute() with a will store attached, as a set

wlVars ==
    <<wlDeclared, wlFlagged, wlRevocations, wlEver, wlPosture, wlSession, wlCalls>>

(* A call: what it asked, how the will check ended, the declaration that    *)
(* execute() wrote as intent_ref, and whether that declaration was already  *)
(* revoked when the check ran.                                              *)
WlCall ==
    [no : 1..WlMaxCalls, op : WlOps, named : WlDecls \cup {WlNone}, strict : BOOLEAN,
     verdict : {"admit", "WL-001", "WL-002", "WL-005"},
     ref : WlDecls \cup {WlNone}, revoked : BOOLEAN]

WlTypeOK ==
    /\ wlDeclared \subseteq WlDecls /\ wlFlagged \subseteq wlDeclared
    /\ wlRevocations \subseteq WlDecls /\ wlEver \subseteq WlDecls
    /\ wlPosture \in [intent : BOOLEAN, scoped : BOOLEAN]
    /\ wlSession \in WlScopes
    /\ wlCalls \subseteq WlCall

----------------------------------------------------------------------------
(* IntentStore *)

(* Mutant of WlDeclare: INSERT OR REPLACE, which resets the row's flag. *)
WlDeclareReplacing(d) ==
    /\ wlDeclared' = wlDeclared \cup {d} /\ wlFlagged' = wlFlagged \ {d}
    /\ UNCHANGED <<wlRevocations, wlEver, wlPosture, wlSession, wlCalls>>

(* declare(): INSERT OR IGNORE; an error is swallowed and nothing is stored. *)
WlDeclare(d) ==
    /\ wlDeclared' \in {wlDeclared, wlDeclared \cup {d}}
    /\ UNCHANGED <<wlFlagged, wlRevocations, wlEver, wlPosture, wlSession, wlCalls>>

(* revoke(): record the revocation, then flag the declaration's row, if it   *)
(* has one.  Errors are swallowed: of the first statement, nothing is left;  *)
(* of the second, the revocation row stays in the open transaction, which    *)
(* the next commit on the connection makes durable.                          *)
WlRevoke(d) ==
    /\ \/ /\ wlRevocations' = wlRevocations \cup {d}
          /\ wlFlagged' = wlFlagged \cup ({d} \cap wlDeclared)
       \/ wlRevocations' = wlRevocations \cup {d} /\ UNCHANGED wlFlagged
       \/ UNCHANGED <<wlRevocations, wlFlagged>>
    /\ wlEver' = wlEver \cup wlFlagged'
    /\ UNCHANGED <<wlDeclared, wlPosture, wlSession, wlCalls>>

WlIsRevoked(d) == d \in wlFlagged

(* active_declarations(): unrevoked, of open scope or of the given scope. *)
WlActiveDeclarations(scope) ==
    {d \in wlDeclared \ wlFlagged : d.scope \in {"", scope}}

----------------------------------------------------------------------------
(* WillChecker *)

(* _closure(): the operations reachable from the seed along the production  *)
(* edges in at most the given number of rounds (the loop stops earlier when *)
(* a round adds nothing, which changes nothing).                            *)
WlClosure(seed, edges, rounds) ==
    LET covered[k \in 0..rounds] ==
            IF k = 0 THEN seed
            ELSE covered[k - 1] \cup UNION {edges[s] : s \in covered[k - 1]}
    IN  covered[rounds]

WlNoEdges == [op \in WlOps |-> {}]

(* covers(): the verdict, by the seed and the closure. *)
WlCovers(op, active, edges, rounds) ==
    LET seed == UNION {d.ops : d \in active}
    IN  IF seed = {} THEN "WL-005"
        ELSE IF op \in WlClosure(seed, edges, rounds) THEN "COVERED" ELSE "WL-001"

(* _find_cover(): a smallest declaration that names the operation, else a   *)
(* smallest one whose closure has it.                                       *)
WlFindCover(op, active, edges, rounds) ==
    LET direct == {d \in active : op \in d.ops}
        derived == {d \in active : op \in WlClosure(d.ops, edges, rounds)}
        from == IF direct # {} THEN direct ELSE derived
    IN  {d \in from : \A e \in from : Cardinality(d.ops) <= Cardinality(e.ops)}

----------------------------------------------------------------------------
(* execute(), steps C1-C3 *)

(* C1: under require_scoped_intent, open-scope declarations do not count. *)
WlActive ==
    {d \in WlActiveDeclarations(wlSession) : wlPosture.scoped => d.scope # ""}

(* C2: the ways the check may end, as a verdict and the receipt's            *)
(* intent_ref.  A named declaration is looked up with get(), which does not  *)
(* ask whether it is revoked.  The kernel passes no production edges.        *)
WlCheck(op, named) ==
    LET covers == WlCovers(op, WlActive, WlNoEdges, 0)
        covered == {[verdict |-> "admit", ref |-> d] :
                        d \in WlFindCover(op, WlActive, WlNoEdges, 0)}
    IN  CASE named # WlNone /\ named \in wlDeclared /\ op \in named.ops ->
                {[verdict |-> "admit", ref |-> named]}
          [] named # WlNone /\ ~(named \in wlDeclared /\ op \in named.ops) ->
                IF wlPosture.intent THEN {[verdict |-> "WL-002", ref |-> WlNone]}
                ELSE {[verdict |-> "admit", ref |-> named]}
          [] named = WlNone /\ covers = "COVERED" -> covered
          [] OTHER ->
                IF wlPosture.intent THEN {[verdict |-> covers, ref |-> WlNone]}
                ELSE {[verdict |-> "admit", ref |-> WlNone]}

WlExecute(op, named) ==
    /\ Cardinality(wlCalls) < WlMaxCalls
    /\ \E c \in WlCheck(op, named) :
        wlCalls' = wlCalls \cup
            {[no |-> Cardinality(wlCalls) + 1, op |-> op, named |-> named,
              strict |-> wlPosture.intent, verdict |-> c.verdict, ref |-> c.ref,
              revoked |-> c.ref \in wlEver]}
    /\ UNCHANGED <<wlDeclared, wlFlagged, wlRevocations, wlEver, wlPosture, wlSession>>

(* set_will_store() again, with other flags; and a new session. *)
WlSetPosture(p) ==
    /\ wlPosture' = p /\ p # wlPosture
    /\ UNCHANGED <<wlDeclared, wlFlagged, wlRevocations, wlEver, wlSession, wlCalls>>

WlOpenSession(s) ==
    /\ wlSession' = s /\ s # wlSession
    /\ UNCHANGED <<wlDeclared, wlFlagged, wlRevocations, wlEver, wlPosture, wlCalls>>

WlInit ==
    /\ wlDeclared = {} /\ wlFlagged = {} /\ wlRevocations = {} /\ wlEver = {}
    /\ wlPosture \in [intent : BOOLEAN, scoped : BOOLEAN]
    /\ wlSession \in WlScopes /\ wlCalls = {}

WlNext ==
    \/ \E d \in WlDecls : WlDeclare(d) \/ WlRevoke(d)
    \/ \E op \in WlOps, named \in WlDecls \cup {WlNone} : WlExecute(op, named)
    \/ \E p \in [intent : BOOLEAN, scoped : BOOLEAN] : WlSetPosture(p)
    \/ \E s \in WlScopes : WlOpenSession(s)

WlSpec == WlInit /\ [][WlNext]_wlVars

----------------------------------------------------------------------------
(* A revocation that flagged its declaration is permanent: whatever is       *)
(* declared again, reopened or re-scoped afterwards, a call that names no    *)
(* declaration is never covered by it (WILL-S-04, INSERT OR IGNORE).  Calls  *)
(* that name a declaration are the subject of WlRevokedNeverCovers.          *)
WlRevokedNeverSeeds ==
    \A c \in wlCalls : c.named = WlNone => ~c.revoked

(* The declared intent a receipt names was not revoked when the operation    *)
(* was checked: intent.py says that revoked declarations never seed the      *)
(* covered set, and WL-003 is the refusal for them.                          *)
WlRevokedNeverCovers ==
    \A c \in wlCalls : c.strict /\ c.verdict = "admit" => ~c.revoked
=============================================================================
