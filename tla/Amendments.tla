----------------------------- MODULE Amendments -----------------------------
(***************************************************************************)
(* The amendment ledger (ugk/amendment.py) and its reader, the chain walk  *)
(* of ugk/conformance/amendment_admissibility_gate.py.  A process loads    *)
(* the archive; append() takes any record, and rewrites the whole file     *)
(* from the process's own list.  A crash in the middle leaves a file that  *)
(* does not parse.                                                         *)
(*                                                                         *)
(* A frame has the law leg, which every record commits, and one other leg, *)
(* which a record commits only when it moves (the code has two such legs,  *)
(* legend and schema, and treats them alike).  amendment_hash is the       *)
(* record's number; signed is that the body hash matches and that the      *)
(* installed key signed: the walk passes no succession lineage, so no      *)
(* other key is authorised.                                                *)
(***************************************************************************)
EXTENDS Integers, Sequences, FiniteSetsExt

CONSTANTS
    AmProcs,            \* processes that hold an archive open
    AmLaws,             \* law hashes
    AmLaw0, AmLaw1,     \* the genesis record leads from the one to the other
    AmLegs,             \* hashes of the other leg
    AmLeg0,             \* its live value
    AmRecords,          \* records append() is given, any of them, any number of times
    AmMaxLen            \* bound: records in a list

(* "" as a leg is a leg the record does not commit; prev is the              *)
(* prior_amendment_hash, 0 when it is not committed.                         *)
AmRecord ==
    [id : Nat \ {0}, priorLaw : AmLaws, law : AmLaws,
     priorLeg : AmLegs \cup {""}, leg : AmLegs \cup {""}, signed : BOOLEAN, prev : Nat]

(* The walk pins the genesis record's hash. *)
AmGenesis ==
    [id |-> 1, priorLaw |-> AmLaw0, law |-> AmLaw1, priorLeg |-> "", leg |-> "",
     signed |-> TRUE, prev |-> 0]

ASSUME AmAssumption ==
    /\ AmLaw0 \in AmLaws /\ AmLaw1 \in AmLaws
    /\ AmLeg0 \in AmLegs /\ "" \notin AmLegs
    /\ AmRecords \subseteq AmRecord
    /\ AmMaxLen \in Nat \ {0}

VARIABLES
    amDisk,     \* the records in AMENDMENTS.json, when it parses
    amTorn,     \* the file does not parse
    amMem,      \* for each process, _records
    amPassed    \* history: the lists that passed the walk when their last record was appended

amVars == <<amDisk, amTorn, amMem, amPassed>>

AmTypeOK ==
    /\ amDisk \in Seq(AmRecord) /\ amTorn \in BOOLEAN
    /\ amMem \in [AmProcs -> Seq(AmRecord)]
    /\ amPassed \subseteq Seq(AmRecord)

----------------------------------------------------------------------------
(* The chain walk, up to its comparison of the head with the live frame.     *)

AmStarting(records) == {j \in DOMAIN records : records[j].priorLeg # ""}

(* Where the leg starts: at what the first record to commit a prior value    *)
(* says it was, however late that record comes; at the live value when none  *)
(* does.                                                                     *)
AmStartLeg(records) ==
    IF AmStarting(records) = {} THEN AmLeg0
    ELSE records[Min(AmStarting(records))].priorLeg

(* The records among the first n that move the leg. *)
AmMoves(records, n) == {j \in DOMAIN records : j <= n /\ records[j].leg # ""}

(* The frame after the first n records: a leg not committed is carried. *)
AmFrame(records, n) ==
    [law |-> IF n = 0 THEN AmLaw0 ELSE records[n].law,
     leg |-> IF AmMoves(records, n) = {} THEN AmStartLeg(records)
             ELSE records[Max(AmMoves(records, n))].leg]

(* is_admissible() of the i-th record, between the frames of the walk: it    *)
(* commits the transition; it is signed; its successor frame is new; it      *)
(* names its predecessor, or none.                                           *)
AmIsAdmissible(records, i) ==
    /\ records[i].signed
    /\ records[i].priorLaw = AmFrame(records, i - 1).law
    /\ records[i].leg # "" => records[i].priorLeg = AmFrame(records, i - 1).leg
    /\ \A j \in 1..(i - 1) : AmFrame(records, j) # AmFrame(records, i)
    /\ records[i].prev # 0 => i # 1 /\ records[i].prev = records[i - 1].id

AmHasGenesis(records) == \E i \in DOMAIN records : records[i] = AmGenesis

(* Mutant of AmPasses: the verdict is that of the last record. *)
AmPassesAtHead(records) ==
    /\ AmHasGenesis(records)
    /\ AmIsAdmissible(records, Len(records))

AmPasses(records) ==
    /\ AmHasGenesis(records)
    /\ \A i \in DOMAIN records : AmIsAdmissible(records, i)

----------------------------------------------------------------------------
(* AmendmentArchive(): a file that does not parse loads as no records. *)
AmOpen(p) ==
    /\ amMem' = [amMem EXCEPT ![p] = IF amTorn THEN <<>> ELSE amDisk]
    /\ UNCHANGED <<amDisk, amTorn, amPassed>>

AmLedgers == {amMem[p] : p \in AmProcs} \cup {amDisk}

AmNote(records) == amPassed' = IF AmPasses(records) THEN amPassed \cup {records} ELSE amPassed

(* append(): in memory, and then the whole file. *)
AmAppend(p, r) ==
    /\ Len(amMem[p]) < AmMaxLen    \* bound
    /\ amMem' = [amMem EXCEPT ![p] = Append(@, r)]
    /\ amDisk' = Append(amMem[p], r) /\ amTorn' = FALSE
    /\ AmNote(Append(amMem[p], r))

(* write_text() truncates the file and does not fill it: it raises, with the *)
(* record in memory, or the process dies.                                    *)
AmTear(p, r) ==
    /\ Len(amMem[p]) < AmMaxLen    \* bound
    /\ amDisk' = <<>> /\ amTorn' = TRUE
    /\ \E left \in {Append(amMem[p], r), <<>>} :
          amMem' = [amMem EXCEPT ![p] = left] /\ AmNote(left)

AmInit ==
    /\ amDisk = <<AmGenesis>> /\ amTorn = FALSE /\ amMem = [p \in AmProcs |-> <<>>]
    /\ amPassed = {<<AmGenesis>>}

AmNext ==
    \E p \in AmProcs :
        \/ AmOpen(p)
        \/ \E r \in AmRecords : AmAppend(p, r) \/ AmTear(p, r)

AmSpec == AmInit /\ [][AmNext]_amVars

----------------------------------------------------------------------------
(* A ledger that passes the walk, in memory or on disk, passed it after each *)
(* of its appends from the genesis record on: no later record, although the  *)
(* walk takes the start of a leg from one, no overwriting by another process *)
(* and no crash makes good a ledger that was not.  (Nothing is said of       *)
(* records that an overwriting loses: append() loses them, and what is left  *)
(* may pass.)                                                                *)
AmPassedThroughout ==
    \A records \in AmLedgers :
        AmPasses(records) =>
            \A i \in DOMAIN records :
                AmHasGenesis(SubSeq(records, 1, i)) => SubSeq(records, 1, i) \in amPassed
=============================================================================
