----------------------------- MODULE Deployment -----------------------------
(***************************************************************************)
(* The genesis directory of a deployment and the commands that share it:   *)
(* ugk charter, ugk authority-model --set, ugk govern, ugk attest, and the *)
(* conformance suite, which founds an unfounded tree with a public key and *)
(* restores the directory afterwards.                                      *)
(*                                                                         *)
(* Every file is written by open("w") and a write: between the two it is   *)
(* empty, and a process that dies or runs out of disk leaves it so.  A     *)
(* process reads its governor key once, when it imports the kernel.        *)
(***************************************************************************)
EXTENDS Naturals, Sequences

CONSTANTS
    DpProcs,      \* processes
    DpKeys,       \* governor key pairs of the operator
    DpFixture,    \* the public development key of the conformance suite
    DpMaxStarts   \* bound: commands started

ASSUME DpAssumption == DpFixture \notin DpKeys /\ DpMaxStarts \in Nat

VARIABLES
    dpFile,       \* the genesis directory
    dpProc,       \* the processes
    dpStarts      \* commands started

dpVars == <<dpFile, dpProc, dpStarts>>

(* GENESIS_KEY.pub, DEPLOYMENT_MANIFEST.json, GENESIS_PRIVKEY.hex,           *)
(* VALIDATOR_SET.json, LAUNCH_IC.json, GENESIS_SEAL.json.                    *)
DpNames == {"pub", "manifest", "priv", "set", "ic", "seal"}

(* All that is told apart in a file is the governor it names: of a validator *)
(* set its one validator, of an inception certificate the validator of its   *)
(* set.                                                                      *)
DpAllKeys == DpKeys \cup {DpFixture}
DpGone == {"absent", "empty"}
DpContents == DpGone \cup DpAllKeys

(* key: the identity bound at import; todo: the writes before the next step; *)
(* opened: the first of them has been truncated; pub, priv, set: what        *)
(* _activate_csh has read; was: the directory when the suite began.          *)
DpIdle ==
    [cmd |-> "none", pc |-> "idle", key |-> "absent", want |-> "absent", todo |-> <<>>,
     opened |-> FALSE, pub |-> "absent", priv |-> "absent", set |-> "absent",
     quorum |-> FALSE, was |-> [f \in DpNames |-> "absent"], doomed |-> {}]

DpTypeOK ==
    /\ dpFile \in [DpNames -> DpContents]
    /\ dpStarts \in 0..DpMaxStarts
    /\ DOMAIN dpProc = DpProcs
    /\ \A p \in DpProcs :
          /\ dpProc[p].cmd \in {"none", "charter", "set", "govern", "attest", "suite"}
          /\ dpProc[p].key \in DpContents /\ dpProc[p].want \in DpContents
          /\ dpProc[p].pub \in DpContents /\ dpProc[p].set \in DpContents
          /\ dpProc[p].quorum \in BOOLEAN /\ dpProc[p].doomed \subseteq DpNames

(* An operator may have placed a key or a signed seal before anything ran. *)
DpInit ==
    /\ \E s \in {"absent"} \cup DpKeys, k \in {"absent"} \cup DpKeys :
          dpFile = [[f \in DpNames |-> "absent"] EXCEPT !["seal"] = s, !["priv"] = k]
    /\ dpProc = [p \in DpProcs |-> DpIdle]
    /\ dpStarts = 0

-----------------------------------------------------------------------------
(* Files.                                                                   *)

DpExists(f) == dpFile[f] # "absent"

(* json.loads succeeds. *)
DpReadable(f) == dpFile[f] \notin DpGone

DpPut(f, v) == [file |-> f, value |-> v]

(* write_charter_artifacts: the key, then the manifest that names it. *)
DpCharterWrites(k) == <<DpPut("pub", k), DpPut("manifest", k)>>

DpSet(p, r) == dpProc' = [dpProc EXCEPT ![p] = r]
DpEnd(p) == DpSet(p, DpIdle)
DpReady(p, pc) == dpProc[p].pc = pc /\ dpProc[p].todo = <<>>

(* open(path, "w") *)
DpTruncate(p) ==
    /\ dpProc[p].todo # <<>> /\ ~dpProc[p].opened
    /\ dpFile' = [dpFile EXCEPT ![Head(dpProc[p].todo).file] = "empty"]
    /\ DpSet(p, [dpProc[p] EXCEPT !.opened = TRUE])
    /\ UNCHANGED dpStarts

DpFill(p) ==
    /\ dpProc[p].opened
    /\ LET w == Head(dpProc[p].todo)
       IN  dpFile' = [dpFile EXCEPT ![w.file] = w.value]
    /\ DpSet(p, [dpProc[p] EXCEPT !.opened = FALSE, !.todo = Tail(@)])
    /\ UNCHANGED dpStarts

-----------------------------------------------------------------------------
(* Starting a command.  The operator's discipline: what rewrites the        *)
(* charter runs alone, except for the commands that the suite itself runs.  *)

DpRewrites == {"charter", "set", "suite"}

DpMayStart(p, cmd) ==
    /\ dpProc[p] = DpIdle
    /\ dpStarts < DpMaxStarts
    /\ \A q \in DpProcs \ {p} :
          \/ dpProc[q] = DpIdle
          \/ cmd \notin DpRewrites /\ dpProc[q].cmd \notin DpRewrites
          \/ cmd \notin DpRewrites /\ DpReady(q, "gates")

DpStart(p, cmd, r) ==
    /\ DpMayStart(p, cmd)
    /\ DpSet(p, [r EXCEPT !.cmd = cmd])
    /\ dpStarts' = dpStarts + 1
    /\ UNCHANGED dpFile

(* ugk charter: refuses without --force when either artifact exists. *)
DpCharter(p) ==
    \E k \in DpKeys, force \in BOOLEAN :
        /\ force \/ (~DpExists("pub") /\ ~DpExists("manifest"))
        /\ DpStart(p, "charter", [DpIdle EXCEPT !.pc = "written", !.todo = DpCharterWrites(k)])

(* ugk authority-model --set: loads the manifest, then imports the kernel. *)
DpAuthorityModel(p) ==
    /\ DpReadable("manifest")
    /\ DpStart(p, "set", [DpIdle EXCEPT !.pc = "import", !.want = dpFile["manifest"]])

DpGovern(p) == DpStart(p, "govern", [DpIdle EXCEPT !.pc = "import"])

DpAttest(p) == DpStart(p, "attest", [DpIdle EXCEPT !.pc = "import"])

(* The suite on an unfounded tree.  A leftover manifest stops it.  The       *)
(* private key is written whether or not there is one.                       *)
DpSuite(p) ==
    /\ ~DpExists("pub") /\ ~DpExists("manifest")
    /\ DpStart(p, "suite",
           [DpIdle EXCEPT !.pc = "gates", !.was = dpFile,
                          !.todo = Append(DpCharterWrites(DpFixture), DpPut("priv", DpFixture))])

-----------------------------------------------------------------------------
(* Founding a kernel.                                                       *)

(* _load_governor_identity, at import: "absent" is the unset sentinel, and   *)
(* the content of an empty file is a key like any other.                     *)
DpImport(p) ==
    /\ DpReady(p, "import")
    /\ DpSet(p, [dpProc[p] EXCEPT !.key = dpFile["pub"], !.pc = "ceremony"])
    /\ UNCHANGED <<dpFile, dpStarts>>

(* A seal that cannot be read is taken for no seal. *)
DpSealHolds(key) == DpReadable("seal") => dpFile["seal"] = key

(* _ceremony up to _activate_csh; its receipt is in Kernel. *)
DpCeremony(p) ==
    /\ DpReady(p, "ceremony") /\ dpProc[p].cmd # "attest"
    /\ IF dpProc[p].key # "absent" /\ DpSealHolds(dpProc[p].key)
       THEN DpSet(p, [dpProc[p] EXCEPT !.pc = "csh"])
       ELSE DpEnd(p)
    /\ UNCHANGED <<dpFile, dpStarts>>

(* hydrate_readonly up to _activate_csh: it does not look at the seal. *)
DpHydrateReadonly(p) ==
    /\ DpReady(p, "ceremony") /\ dpProc[p].cmd = "attest"
    /\ IF dpProc[p].key # "absent"
       THEN DpSet(p, [dpProc[p] EXCEPT !.pc = "csh"])
       ELSE DpEnd(p)
    /\ UNCHANGED <<dpFile, dpStarts>>

(* _activate_csh as far as the validator set: loaded, or sealed over the     *)
(* process's own root and written.  An unreadable set raises.                *)
DpActivateCsh(p) ==
    /\ DpReady(p, "csh")
    /\ LET attest == dpProc[p].cmd = "attest"
           r == [dpProc[p] EXCEPT !.pub = dpFile["pub"], !.priv = dpFile["priv"], !.pc = "ic"]
       IN  \/ /\ \/ ~DpExists("priv") \/ ~DpExists("pub")
                 \/ attest /\ ~(DpExists("set") /\ DpExists("ic"))
              /\ DpSet(p, [dpProc[p] EXCEPT !.pc = "active"])
           \/ /\ DpExists("priv") /\ DpExists("pub")
              /\ attest => DpExists("set") /\ DpExists("ic")
              /\ \/ DpReadable("set") /\ DpSet(p, [r EXCEPT !.set = dpFile["set"]])
                 \/ dpFile["set"] = "empty" /\ DpEnd(p)
                 \/ /\ ~DpExists("set")
                    /\ DpSet(p, [r EXCEPT !.set = r.key, !.todo = <<DpPut("set", r.key)>>])
    /\ UNCHANGED <<dpFile, dpStarts>>

(* The launch certificate, and the rest of _activate_csh. *)
DpLaunchIc(p) ==
    /\ DpReady(p, "ic")
    /\ \/ DpReadable("ic") /\ DpSet(p, [dpProc[p] EXCEPT !.pc = "finality"])
       \/ dpFile["ic"] = "empty" /\ DpEnd(p)
       \/ /\ ~DpExists("ic")
          /\ DpSet(p, [dpProc[p] EXCEPT !.pc = "finality", !.todo = <<DpPut("ic", dpProc[p].set)>>])
    /\ UNCHANGED <<dpFile, dpStarts>>

(* Mutant of DpAttested: the signature is checked, the membership is not. *)
DpAttestedByAnyone(r) == r.priv = r.pub /\ r.pub # "empty"

(* achieve_finality of the one attestation, signed with the private key on   *)
(* disk for the public key on disk: a validator of the set, and a signature  *)
(* that verifies under a key of the right length.                            *)
DpAttested(r) == r.pub = r.set /\ r.priv = r.pub /\ r.pub # "empty"

DpFinality(p) ==
    /\ DpReady(p, "finality")
    /\ DpSet(p, [dpProc[p] EXCEPT !.quorum = DpAttested(dpProc[p]), !.pc = "active"])
    /\ UNCHANGED <<dpFile, dpStarts>>

-----------------------------------------------------------------------------
(* What an active kernel does, and the end of a command.                    *)

(* execute() of the command, after _make_kernel has attached the manifest's  *)
(* model and opened a session (Kernel models both).  authority_model_set may *)
(* be refused; its effect rewrites the charter with the governor that was    *)
(* loaded at the start.                                                      *)
DpRun(p) ==
    /\ DpReady(p, "active")
    /\ \/ DpEnd(p)
       \/ /\ dpProc[p].cmd = "set"
          /\ DpSet(p, [dpProc[p] EXCEPT !.pc = "written", !.todo = DpCharterWrites(dpProc[p].want)])
    /\ UNCHANGED <<dpFile, dpStarts>>

DpReturn(p) ==
    /\ DpReady(p, "written") \/ DpReady(p, "restored")
    /\ DpEnd(p)
    /\ UNCHANGED <<dpFile, dpStarts>>

(* The suite's finally: every file whose name was not there before. *)
DpRestore(p) ==
    /\ DpReady(p, "gates")
    /\ DpSet(p, [dpProc[p] EXCEPT !.pc = "restore",
           !.doomed = {f \in DpNames : DpExists(f) /\ dpProc[p].was[f] = "absent"}])
    /\ UNCHANGED <<dpFile, dpStarts>>

DpUnlink(p) ==
    /\ dpProc[p].pc = "restore"
    /\ \/ \E f \in dpProc[p].doomed :
             /\ dpFile' = [dpFile EXCEPT ![f] = "absent"]
             /\ DpSet(p, [dpProc[p] EXCEPT !.doomed = @ \ {f}])
       \/ /\ dpProc[p].doomed = {}
          /\ DpSet(p, [dpProc[p] EXCEPT !.pc = "restored"])
          /\ UNCHANGED dpFile
    /\ UNCHANGED dpStarts

(* The process is killed, or a write of it fails and nothing catches that. *)
DpDie(p) ==
    /\ dpProc[p] # DpIdle
    /\ DpEnd(p)
    /\ UNCHANGED <<dpFile, dpStarts>>

(* The operator puts a private key into the directory. *)
DpPlaceKey(k) ==
    /\ \A p \in DpProcs : dpProc[p] = DpIdle
    /\ dpFile' = [dpFile EXCEPT !["priv"] = k]
    /\ UNCHANGED <<dpProc, dpStarts>>

DpNext ==
    \/ \E k \in DpKeys : DpPlaceKey(k)
    \/ \E p \in DpProcs :
          \/ DpCharter(p) \/ DpAuthorityModel(p) \/ DpGovern(p) \/ DpAttest(p) \/ DpSuite(p)
          \/ DpTruncate(p) \/ DpFill(p) \/ DpImport(p) \/ DpCeremony(p) \/ DpHydrateReadonly(p)
          \/ DpActivateCsh(p) \/ DpLaunchIc(p) \/ DpFinality(p) \/ DpRun(p) \/ DpReturn(p)
          \/ DpRestore(p) \/ DpUnlink(p) \/ DpDie(p)

DpSpec == DpInit /\ [][DpNext]_dpVars

-----------------------------------------------------------------------------
(* Properties.                                                              *)

(***************************************************************************)
(* A kernel that reports CSH quorum has it from the governor it was        *)
(* founded under: the identity bound at import, the key file, the private  *)
(* key and the sealed validator set all name one key.  The set may have    *)
(* been sealed by an earlier governor, by the suite, or by a process that  *)
(* died, and no kernel founded on an empty key file ever has quorum.       *)
(***************************************************************************)
DpQuorumIsOwn ==
    \A p \in DpProcs : dpProc[p].quorum =>
        /\ dpProc[p].key \in DpAllKeys
        /\ dpProc[p].key = dpProc[p].set
        /\ dpProc[p].key = dpProc[p].priv
=============================================================================
