-------------------------- MODULE EffectTrailProofs --------------------------
(***************************************************************************)
(* Theorems about EffectTrail, for any set of calls, keys and grades and   *)
(* any bounds.                                                             *)
(*                                                                         *)
(* Types hold of every behaviour, pruning included, and so does the truth  *)
(* of a confirmation: that a COMMIT or an offset on record has happened in *)
(* the world needs no discipline (the last section).  The other properties *)
(* of the trail hold where an operator leaves an effect alone while a call *)
(* is at work on it (QuietSpec).  None of them is inductive: what a call   *)
(* is about to write must already be true of the trail and of the world,   *)
(* and stays true only because no second call works on the same effect.    *)
(***************************************************************************)
EXTENDS EffectTrail, FiniteSetTheorems, SequenceTheorems, TLAPS

(* The receipts owed by the calls under way have been given room. *)
Fits == Len(trail) + Owed <= MaxTrail

(* The receipt a call refers to is in the trail. *)
RefOK(c) == c.step \in {"acting", "cleared", "offsetting"} => c.ref \in Positions

TypeInv == TypeOK /\ Fits /\ \A p \in Procs : RefOK(call[p])

-----------------------------------------------------------------------------
(* The inductive invariant of the quiet system.                             *)

(* A PREPARE, a COMPENSATE and their terminals refer to what came before them. *)
ReceiptOK(t) ==
    LET r == trail[t]
    IN  /\ r.phase = "prepare" => r.prepareRef = 0 /\ r.compensateRef = 0
        /\ r.phase \in ForwardTerminal =>
              /\ r.compensateRef = 0
              /\ r.prepareRef \in 1..(t - 1)
              /\ trail[r.prepareRef].phase = "prepare"
              /\ Matches(t, r.prepareRef)
        /\ r.phase = "compensate" =>
              /\ r.prepareRef = 0
              /\ r.compensateRef \in 1..(t - 1)
              /\ trail[r.compensateRef].phase = "prepare"
              /\ \E u \in 1..(t - 1) : /\ trail[u].phase = "commit"
                                       /\ trail[u].prepareRef = r.compensateRef
        /\ r.phase \in OffsetTerminal =>
              /\ r.prepareRef = 0
              /\ \E c \in 1..(t - 1) : /\ trail[c].phase = "compensate"
                                       /\ MatchesOffset(t, c)

TrailOK == \A t \in Positions : ReceiptOK(t)

(* A forward effect has at most one COMPENSATE. *)
OneCompensate ==
    \A c, d \in Positions :
        /\ trail[c].phase = "compensate" /\ trail[d].phase = "compensate"
        /\ trail[c].compensateRef = trail[d].compensateRef
        => c = d

(* Only prepared acts take place, and only declared offsets. *)
WorldOK ==
    /\ \A i \in performed : trail[i].phase = "prepare"
    /\ \A c \in offset : trail[c].phase = "compensate"

(* A position that is the PREPARE of an effect with no terminal. *)
Open(i) ==
    /\ i \in Positions
    /\ trail[i].phase = "prepare"
    /\ \A t \in Positions : ~Matches(t, i)

(* A position that is a COMPENSATE with no terminal. *)
OpenOffset(c) ==
    /\ c \in Positions
    /\ trail[c].phase = "compensate"
    /\ \A t \in Positions : ~MatchesOffset(t, c)

(* r, as the terminal of COMPENSATE c, says no more than is so. *)
TrueOf(r, c) ==
    /\ r.phase = "compensated" => c \in offset
    /\ r.phase = "compensation_failed" /\ r.by = "reconciled" => c \notin offset

(* The terminals a call is about to write: true if written now. *)
ForwardDue(r) ==
    /\ r.phase \in ForwardTerminal
    /\ Open(r.prepareRef)
    /\ r.compensateRef = 0
    /\ r.class = trail[r.prepareRef].class
    /\ r.key = trail[r.prepareRef].key
    /\ r.phase = "commit" <=> r.prepareRef \in performed

OffsetDue(r) ==
    /\ r.phase \in OffsetTerminal
    /\ r.prepareRef = 0
    /\ \E c \in Positions : /\ OpenOffset(c)
                            /\ r.compensateRef = trail[c].compensateRef
                            /\ r.compKey = trail[c].compKey
                            /\ TrueOf(r, c)

(* What each call under way may rely on. *)
CallOK(c) ==
    /\ c.step = "acting" => Open(c.ref) /\ c.ref \notin performed
    /\ c.step = "cleared" =>
          /\ c.ref \in Positions
          /\ trail[c.ref].phase = "prepare"
          /\ \E t \in Positions : /\ trail[t].phase = "commit"
                                  /\ trail[t].prepareRef = c.ref
          /\ \A d \in Positions : trail[d].phase = "compensate"
                                    => trail[d].compensateRef # c.ref
    /\ c.step = "offsetting" => OpenOffset(c.ref)
    /\ c.step = "recording" => ForwardDue(c.receipt) \/ OffsetDue(c.receipt)

CallsOK == \A p \in Procs : CallOK(call[p])

(* No two calls work on one effect. *)
Exclusive ==
    \A p, q \in Procs : \A i \in Positions :
        WorksOn(call[p], i) /\ WorksOn(call[q], i) => p = q

TrailInv ==
    /\ TypeInv
    /\ base = 0
    /\ TrailOK
    /\ OneCompensate
    /\ WorldOK
    /\ OffsetTerminalsTruthful
    /\ CallsOK
    /\ Exclusive
    /\ AtMostOneTerminal
    /\ TerminalsTruthful

-----------------------------------------------------------------------------
(* Types.                                                                   *)

(* Receipts a call in step c.step has yet to append. *)
Weight(c) == IF c.step = "idle" THEN 0 ELSE IF c.step = "cleared" THEN 2 ELSE 1

(* What a call's step says of its other fields. *)
LEMMA CallFields ==
    ASSUME NEW c \in Call
    PROVE  /\ c.step = "idle" <=> c = Idle
           /\ c.step \in {"idle", "acting", "cleared", "offsetting", "recording"}
           /\ c.step \in {"acting", "cleared", "offsetting"} => c.ref \in 1..MaxTrail
           /\ c.step = "cleared" => c.compKey \in Keys
           /\ c.step = "recording" => c.receipt \in Receipt /\ c.left \in 1..MaxAttempts
           /\ Weight(c) \in 0..2
  <1>1. CASE c = Idle
    BY <1>1 DEF Idle, Weight
  <1>2. CASE c \in [step : {"acting"}, ref : 1..MaxTrail]
    BY <1>2 DEF Idle, Weight
  <1>3. CASE c \in [step : {"cleared"}, ref : 1..MaxTrail, compKey : Keys]
    BY <1>3 DEF Idle, Weight
  <1>4. CASE c \in [step : {"offsetting"}, ref : 1..MaxTrail]
    BY <1>4 DEF Idle, Weight
  <1>5. CASE c \in [step : {"recording"}, receipt : Receipt, left : 1..MaxAttempts]
    BY <1>5 DEF Idle, Weight
  <1> QED BY <1>1, <1>2, <1>3, <1>4, <1>5 DEF Call

(* Sets of processes are finite, and adding or removing one counts one. *)
LEMMA ProcsCount ==
    ASSUME NEW S \in SUBSET Procs, NEW T \in SUBSET Procs, NEW p \in Procs,
           \A q \in Procs : q # p => (q \in T <=> q \in S)
    PROVE  /\ Cardinality(S) \in Nat
           /\ p \in S /\ p \notin T => Cardinality(T) = Cardinality(S) - 1
           /\ p \notin S /\ p \in T => Cardinality(T) = Cardinality(S) + 1
           /\ (p \in S <=> p \in T) => Cardinality(T) = Cardinality(S)
  <1>1. IsFiniteSet(S)
    BY ProcsAssumption, FS_Subset
  <1>2. Cardinality(S) \in Nat
    BY <1>1, FS_CardinalityType
  <1>3. Cardinality(S \cup {p}) = IF p \in S THEN Cardinality(S) ELSE Cardinality(S) + 1
    BY <1>1, FS_AddElement
  <1>4. Cardinality(S \ {p}) = IF p \in S THEN Cardinality(S) - 1 ELSE Cardinality(S)
    BY <1>1, FS_RemoveElement
  <1>5. ASSUME p \in S, p \notin T PROVE Cardinality(T) = Cardinality(S) - 1
    <2>1. T = S \ {p}
      BY <1>5
    <2> QED BY <1>4, <1>5, <2>1, Zenon
  <1>6. ASSUME p \notin S, p \in T PROVE Cardinality(T) = Cardinality(S) + 1
    <2>1. T = S \cup {p}
      BY <1>6
    <2> QED BY <1>3, <1>6, <2>1, Zenon
  <1>7. ASSUME p \in S <=> p \in T PROVE Cardinality(T) = Cardinality(S)
    <2>1. T = S
      BY <1>7
    <2> QED BY <2>1, Zenon
  <1> QED BY <1>2, <1>5, <1>6, <1>7

(* A step of one process changes what is owed by the weight of its call. *)
LEMMA OwedChange ==
    ASSUME call \in [Procs -> Call], NEW p \in Procs, NEW c \in Call, Become(p, c)
    PROVE  /\ Owed \in Nat
           /\ Owed' = Owed + Weight(c) - Weight(call[p])
  <1> DEFINE B == {q \in Procs : call[q] # Idle}
             C == {q \in Procs : call[q].step = "cleared"}
             Bn == {q \in Procs : call'[q] # Idle}
             Cn == {q \in Procs : call'[q].step = "cleared"}
  <1>1. /\ Owed = Cardinality(B) + Cardinality(C)
        /\ Owed' = Cardinality(Bn) + Cardinality(Cn)
    BY DEF Owed
  <1>2. call'[p] = c /\ \A q \in Procs : q # p => call'[q] = call[q]
    BY DEF Become
  <1>3. /\ p \in B <=> call[p].step # "idle"
        /\ p \in C <=> call[p].step = "cleared"
        /\ p \in Bn <=> c.step # "idle"
        /\ p \in Cn <=> c.step = "cleared"
    <2>1. /\ call[p].step = "idle" <=> call[p] = Idle
          /\ c.step = "idle" <=> c = Idle
      BY CallFields
    <2> QED BY <1>2, <2>1
  <1>4. /\ B \in SUBSET Procs /\ Bn \in SUBSET Procs
        /\ C \in SUBSET Procs /\ Cn \in SUBSET Procs
        /\ \A q \in Procs : q # p => (q \in Bn <=> q \in B)
        /\ \A q \in Procs : q # p => (q \in Cn <=> q \in C)
    BY <1>2
  <1> HIDE DEF B, C, Bn, Cn
  <1>5. /\ Cardinality(B) \in Nat
        /\ p \in B /\ p \notin Bn => Cardinality(Bn) = Cardinality(B) - 1
        /\ p \notin B /\ p \in Bn => Cardinality(Bn) = Cardinality(B) + 1
        /\ (p \in B <=> p \in Bn) => Cardinality(Bn) = Cardinality(B)
    BY <1>4, ProcsCount
  <1>6. /\ Cardinality(C) \in Nat
        /\ p \in C /\ p \notin Cn => Cardinality(Cn) = Cardinality(C) - 1
        /\ p \notin C /\ p \in Cn => Cardinality(Cn) = Cardinality(C) + 1
        /\ (p \in C <=> p \in Cn) => Cardinality(Cn) = Cardinality(C)
    BY <1>4, ProcsCount
  <1>7. Owed \in Nat
    BY <1>1, <1>5, <1>6
  <1> QED BY <1>1, <1>3, <1>5, <1>6, <1>7 DEF Weight

(* A call under way owes at least one receipt. *)
LEMMA OwedBusy == Owed \in Nat /\ \A p \in Procs : call[p] # Idle => Owed >= 1
  <1> DEFINE B == {q \in Procs : call[q] # Idle}
             C == {q \in Procs : call[q].step = "cleared"}
  <1>1. IsFiniteSet(B) /\ IsFiniteSet(C)
    <2>1. B \in SUBSET Procs /\ C \in SUBSET Procs
      OBVIOUS
    <2> QED BY <2>1, ProcsAssumption, FS_Subset
  <1>2. Cardinality(B) \in Nat /\ Cardinality(C) \in Nat
    BY <1>1, FS_CardinalityType
  <1>3. \A p \in Procs : call[p] # Idle => Cardinality(B) # 0
    BY <1>1, FS_EmptySet
  <1>4. Owed = Cardinality(B) + Cardinality(C)
    BY DEF Owed
  <1> HIDE DEF B, C
  <1> QED BY <1>2, <1>3, <1>4

(* With no call under way nothing is owed. *)
LEMMA OwedNothing ==
    ASSUME NEW f, f = [p \in Procs |-> Idle]
    PROVE  /\ Cardinality({p \in Procs : f[p] # Idle}) = 0
           /\ Cardinality({p \in Procs : f[p].step = "cleared"}) = 0
  <1>1. {p \in Procs : f[p] # Idle} = {} /\ {p \in Procs : f[p].step = "cleared"} = {}
    BY DEF Idle
  <1> QED BY <1>1, FS_EmptySet

(* A step that writes nothing keeps the types, if what it will write fits. *)
LEMMA TypeKept ==
    ASSUME TypeInv, NEW p \in Procs, NEW c \in Call, Become(p, c),
           \/ Weight(c) <= Weight(call[p])
           \/ call[p] = Idle /\ Room(Weight(c)),
           RefOK(c), trail' = trail, base' = base,
           performed' \subseteq Positions, offset' \subseteq Positions
    PROVE  TypeInv'
  <1>1. Owed \in Nat /\ Owed' = Owed + Weight(c) - Weight(call[p])
    BY OwedChange DEF TypeInv, TypeOK
  <1>2. /\ call[p] \in Call /\ Weight(c) \in 0..2 /\ Weight(call[p]) \in 0..2
        /\ call[p] = Idle => Weight(call[p]) = 0
    BY CallFields DEF TypeInv, TypeOK, Weight, Idle
  <1>3. Len(trail) \in Nat /\ MaxTrail \in Nat
    BY AttemptsAssumption DEF TypeInv, TypeOK
  <1>4. Fits'
    BY <1>1, <1>2, <1>3 DEF Fits, Room, TypeInv
  <1>5. TypeOK'
    BY DEF TypeInv, TypeOK, Become, Positions
  <1>6. \A q \in Procs : RefOK(call[q])'
    BY DEF TypeInv, TypeOK, Become, RefOK, Positions
  <1> QED BY <1>4, <1>5, <1>6 DEF TypeInv

(* A step that appends keeps the types, if the append was owed or fits. *)
LEMMA TypeAppend ==
    ASSUME TypeInv, NEW p \in Procs, NEW c \in Call, Become(p, c), NEW r \in Receipt,
           \/ Weight(c) + 1 <= Weight(call[p])
           \/ call[p] = Idle /\ Room(Weight(c) + 1),
           c.step \in {"acting", "cleared", "offsetting"} => c.ref \in 1..(Len(trail) + 1),
           trail' = Append(trail, r), base' = base,
           performed' = performed, offset' = offset
    PROVE  TypeInv'
  <1>1. Owed \in Nat /\ Owed' = Owed + Weight(c) - Weight(call[p])
    BY OwedChange DEF TypeInv, TypeOK
  <1>2. /\ call[p] \in Call /\ Weight(c) \in 0..2 /\ Weight(call[p]) \in 0..2
        /\ call[p] = Idle => Weight(call[p]) = 0
    BY CallFields DEF TypeInv, TypeOK, Weight, Idle
  <1>3. /\ Len(trail) \in Nat /\ MaxTrail \in Nat
        /\ trail' \in Seq(Receipt) /\ Len(trail') = Len(trail) + 1
    BY AttemptsAssumption DEF TypeInv, TypeOK
  <1>4. Fits'
    BY <1>1, <1>2, <1>3, SMTT(30) DEF Fits, Room, TypeInv
  <1>5. TypeOK'
    BY <1>3 DEF TypeInv, TypeOK, Become
  <1>6. \A q \in Procs : RefOK(call[q])'
    BY <1>3 DEF TypeInv, TypeOK, Become, RefOK, Positions
  <1> QED BY <1>4, <1>5, <1>6 DEF TypeInv

(* The terminals that calls record are receipts. *)
LEMMA TerminalTypes ==
    ASSUME TypeInv, NEW i \in Positions,
           NEW by \in {"in_band", "reconciled"}, NEW grade \in {"none", "verified"}
    PROVE  /\ trail[i] \in Receipt
           /\ \A phase \in ForwardTerminal :
                 /\ ForwardReceipt(i, phase, by, grade) \in Receipt
                 /\ Recording(ForwardReceipt(i, phase, by, grade)) \in Call
                 /\ Weight(Recording(ForwardReceipt(i, phase, by, grade))) = 1
           /\ \A phase \in OffsetTerminal :
                 /\ OffsetReceipt(i, phase, by, grade) \in Receipt
                 /\ Recording(OffsetReceipt(i, phase, by, grade)) \in Call
                 /\ Weight(Recording(OffsetReceipt(i, phase, by, grade))) = 1
  <1>1. trail[i] \in Receipt /\ i \in Ref
    <2>1. Len(trail) \in Nat /\ Owed \in Nat
      BY OwedBusy DEF TypeInv, TypeOK
    <2> QED BY <2>1, AttemptsAssumption DEF TypeInv, TypeOK, Fits, Positions, Ref
  <1>2. ASSUME NEW phase \in ForwardTerminal
        PROVE  ForwardReceipt(i, phase, by, grade) \in Receipt
    BY <1>1 DEF ForwardReceipt, Receipt, Terminal
  <1>3. ASSUME NEW phase \in OffsetTerminal
        PROVE  OffsetReceipt(i, phase, by, grade) \in Receipt
    BY <1>1 DEF OffsetReceipt, Receipt, Terminal
  <1>4. ASSUME NEW r \in Receipt PROVE Recording(r) \in Call /\ Weight(Recording(r)) = 1
    BY AttemptsAssumption DEF Recording, Call, Weight
  <1> QED BY <1>1, <1>2, <1>3, <1>4

(* Every step of a call under way keeps the types. *)
LEMMA TypeStep ==
    ASSUME TypeInv, NEW p \in Procs, Step(p)
    PROVE  TypeInv'
  <1>1. /\ call[p] \in Call /\ Idle \in Call /\ Weight(Idle) = 0 /\ RefOK(Idle)
        /\ performed \subseteq Positions /\ offset \subseteq Positions
        /\ Len(trail) \in Nat /\ trail \in Seq(Receipt) /\ MaxTrail \in Nat
        /\ Positions = 1..Len(trail)
    BY AttemptsAssumption DEF TypeInv, TypeOK, Call, Idle, Weight, RefOK, Positions
  <1>2. /\ call[p].step \in {"acting", "cleared", "offsetting"} => call[p].ref \in Positions
        /\ call[p].step = "cleared" => call[p].compKey \in Keys
        /\ call[p].step = "recording" =>
              call[p].receipt \in Receipt /\ call[p].left \in 1..MaxAttempts
    BY <1>1, CallFields DEF TypeInv, RefOK
  <1>3. ASSUME NEW c \in Call, Weight(c) = 1, c.step = "recording",
               call[p].step # "idle", Become(p, c), trail' = trail, base' = base,
               performed' \subseteq Positions, offset' \subseteq Positions
        PROVE  TypeInv'
    BY <1>1, <1>3, CallFields, TypeKept DEF Weight, RefOK
  <1>4. CASE RecordWritten(p)
    BY <1>1, <1>2, <1>4, TypeAppend DEF RecordWritten, Weight, Idle
  <1>5. CASE RecordTransientError(p)
    <2> DEFINE c == IF call[p].left = 1 THEN Idle ELSE [call[p] EXCEPT !.left = @ - 1]
    <2>1. call[p].step = "recording" /\ Become(p, c)
      BY <1>5 DEF RecordTransientError
    <2>2. call[p].left # 1 => /\ [call[p] EXCEPT !.left = @ - 1] \in Call
                              /\ [call[p] EXCEPT !.left = @ - 1].step = "recording"
      <3>1. call[p] \in [step : {"recording"}, receipt : Receipt, left : 1..MaxAttempts]
        BY <1>1, <2>1 DEF Call, Idle
      <3> QED BY <3>1, AttemptsAssumption DEF Call
    <2>3. c \in Call /\ Weight(c) <= Weight(call[p]) /\ RefOK(c)
      BY <1>1, <2>1, <2>2 DEF Weight, RefOK
    <2> QED BY <1>1, <1>5, <2>1, <2>3, TypeKept DEF RecordTransientError
  <1>6. CASE RecordFatalError(p)
    BY <1>1, <1>6, TypeKept DEF RecordFatalError, Weight
  <1>7. ASSUME NEW i \in Positions
        PROVE  /\ \A phase \in ForwardTerminal :
                    LET c == Recording(ForwardReceipt(i, phase, "in_band", "none"))
                    IN  c \in Call /\ Weight(c) = 1 /\ c.step = "recording"
               /\ \A phase \in OffsetTerminal :
                    LET c == Recording(OffsetReceipt(i, phase, "in_band", "none"))
                    IN  c \in Call /\ Weight(c) = 1 /\ c.step = "recording"
    BY TerminalTypes DEF Recording
  <1>8. CASE EffectReturns(p)
    BY <1>1, <1>2, <1>3, <1>7, <1>8 DEF EffectReturns, ForwardTerminal
  <1>9. CASE EffectNotPerformed(p)
    BY <1>1, <1>2, <1>3, <1>7, <1>9 DEF EffectNotPerformed, ForwardTerminal
  <1>10. CASE EffectRaises(p)
    <2>1. performed' \subseteq Positions
      BY <1>1, <1>2, <1>10 DEF EffectRaises
    <2> QED BY <1>1, <1>10, <2>1, TypeKept DEF EffectRaises, Weight
  <1>11. CASE CompensateIntent(p)
    <2> DEFINE r == [phase |-> "compensate", class |-> "reversible",
                     key |-> trail[call[p].ref].key, prepareRef |-> 0,
                     compensateRef |-> call[p].ref, compKey |-> call[p].compKey,
                     by |-> "in_band", grade |-> "none"]
               c == [step |-> "offsetting", ref |-> Len(trail) + 1]
    <2>1. /\ call[p].step = "cleared" /\ trail' = Append(trail, r) /\ Become(p, c)
          /\ base' = base /\ performed' = performed /\ offset' = offset
      BY <1>11 DEF CompensateIntent
    <2>2. /\ Weight(call[p]) = 2 /\ Weight(c) = 1 /\ c.step = "offsetting"
          /\ c.ref = Len(trail) + 1
      BY <2>1 DEF Weight
    <2>3. /\ r \in Receipt
          /\ Len(trail) + 1 \in 1..MaxTrail
      <3>1. trail[call[p].ref] \in Receipt /\ call[p].ref \in Ref
        BY <1>1, <1>2, <2>1, TerminalTypes DEF Ref, TypeInv, TypeOK, Call, Idle
      <3>2. trail[call[p].ref].key \in Keys
        BY <3>1 DEF Receipt
      <3>3. r \in Receipt
        BY <1>1, <1>2, <2>1, <3>1, <3>2 DEF Receipt, Class, Ref
      <3>4. Owed \in Nat /\ Owed >= 1
        BY <2>1, OwedBusy DEF Idle
      <3> QED BY <1>1, <3>3, <3>4 DEF TypeInv, Fits
    <2>4. c \in Call
      BY <2>3 DEF Call
    <2> QED BY <1>1, <2>1, <2>2, <2>3, <2>4, TypeAppend, SMTT(30)
  <1>12. CASE OffsetReturns(p)
    BY <1>1, <1>2, <1>3, <1>7, <1>12 DEF OffsetReturns, OffsetTerminal
  <1>13. CASE OffsetRaises(p)
    <2>1. offset' \subseteq Positions
      BY <1>1, <1>2, <1>13 DEF OffsetRaises
    <2> QED BY <1>1, <1>2, <1>3, <1>7, <1>13, <2>1 DEF OffsetRaises, OffsetTerminal
  <1>14. CASE CompensateIntentFails(p)
    BY <1>1, <1>14, TypeKept DEF CompensateIntentFails, Weight
  <1> QED BY <1>4, <1>5, <1>6, <1>8, <1>9, <1>10, <1>11, <1>12, <1>13, <1>14 DEF Step

(* A fresh execute() keeps the types. *)
LEMMA TypeExecute ==
    ASSUME TypeInv, NEW p \in Procs, Execute(p)
    PROVE  TypeInv'
  <1>1. PICK class \in Class, key \in Keys : Prepare(p, class, key)
    BY DEF Execute
  <1> DEFINE r == [phase |-> "prepare", class |-> class, key |-> key,
                   prepareRef |-> 0, compensateRef |-> 0, compKey |-> NoKey,
                   by |-> "in_band", grade |-> "none"]
             c == [step |-> "acting", ref |-> Len(trail) + 1]
  <1>2. /\ call[p] = Idle /\ Room(2) /\ trail' = Append(trail, r) /\ Become(p, c)
        /\ base' = base /\ performed' = performed /\ offset' = offset
    BY <1>1 DEF Prepare
  <1>3. Len(trail) \in Nat /\ MaxTrail \in Nat /\ Owed \in Nat
    BY OwedBusy, AttemptsAssumption DEF TypeInv, TypeOK
  <1>4. r \in Receipt
    BY <1>3 DEF Receipt, Ref
  <1>5. c \in Call /\ Weight(c) = 1 /\ c.ref = Len(trail) + 1
    <2>1. Len(trail) + 1 \in 1..MaxTrail
      BY <1>2, <1>3 DEF Room
    <2> QED BY <2>1 DEF Call, Weight
  <1> QED BY <1>2, <1>3, <1>4, <1>5, TypeAppend

(* An out-of-band call keeps the types. *)
LEMMA TypeOutOfBand ==
    ASSUME TypeInv, NEW p \in Procs, NEW i \in Stored, OutOfBand(p, i)
    PROVE  TypeInv'
  <1>1. /\ i \in Positions /\ Stored \subseteq Positions
        /\ performed \subseteq Positions /\ offset \subseteq Positions
        /\ Grades \subseteq {"none", "verified"}
        /\ Positions \subseteq 1..MaxTrail
    BY OwedBusy, GradesAssumption, AttemptsAssumption
       DEF TypeInv, TypeOK, Stored, Positions, Fits
  <1>2. CASE \E grade \in Grades : ReconcileForward(p, i, grade)
    <2>1. PICK grade \in Grades : ReconcileForward(p, i, grade)
      BY <1>2
    <2>2. PICK phase \in ForwardTerminal :
             Become(p, Recording(ForwardReceipt(i, phase, "reconciled", grade)))
      BY <2>1 DEF ReconcileForward, ForwardTerminal
    <2> DEFINE c == Recording(ForwardReceipt(i, phase, "reconciled", grade))
    <2>3. c \in Call /\ Weight(c) = 1
      BY <1>1, TerminalTypes
    <2>4. RefOK(c)
      BY DEF Recording, RefOK
    <2> HIDE DEF c
    <2> QED BY <1>1, <2>1, <2>2, <2>3, <2>4, TypeKept DEF ReconcileForward, c
  <1>3. CASE \E compKey \in Keys : CompensateCheck(p, i, compKey)
    <2>1. PICK compKey \in Keys : CompensateCheck(p, i, compKey)
      BY <1>3
    <2> DEFINE c == [step |-> "cleared", ref |-> i, compKey |-> compKey]
    <2>2. c \in Call /\ Weight(c) = 2 /\ RefOK(c)
      BY <1>1 DEF Call, Weight, RefOK
    <2> HIDE DEF c
    <2> QED BY <1>1, <2>1, <2>2, TypeKept DEF CompensateCheck, c
  <1>4. CASE \E d \in Stored, grade \in Grades :
                trail[d].compensateRef = i /\ ReconcileCompensation(p, d, grade)
    <2>1. PICK d \in Stored, grade \in Grades : ReconcileCompensation(p, d, grade)
      BY <1>4
    <2>2. PICK phase \in OffsetTerminal :
             Become(p, Recording(OffsetReceipt(d, phase, "reconciled", grade)))
      BY <2>1 DEF ReconcileCompensation, OffsetTerminal
    <2> DEFINE c == Recording(OffsetReceipt(d, phase, "reconciled", grade))
    <2>3. c \in Call /\ Weight(c) = 1
      BY <1>1, TerminalTypes
    <2>4. RefOK(c)
      BY DEF Recording, RefOK
    <2> HIDE DEF c
    <2> QED BY <1>1, <2>1, <2>2, <2>3, <2>4, TypeKept DEF ReconcileCompensation, c
  <1> QED BY <1>2, <1>3, <1>4 DEF OutOfBand

(* A crash keeps the types: what was in flight may take place, and is owed no more. *)
LEMMA TypeCrash ==
    ASSUME TypeInv, Crash
    PROVE  TypeInv'
  <1>1. Owed' = 0
    <2>1. /\ Cardinality({p \in Procs : call'[p] # Idle}) = 0
          /\ Cardinality({p \in Procs : call'[p].step = "cleared"}) = 0
      BY OwedNothing DEF Crash
    <2> QED BY <2>1 DEF Owed
  <1>2. /\ InFlight("acting") \subseteq Positions
        /\ InFlight("offsetting") \subseteq Positions
    BY DEF InFlight, TypeInv, RefOK
  <1>3. /\ trail' = trail /\ base' = base
        /\ performed' \subseteq Positions /\ offset' \subseteq Positions
    BY <1>2 DEF Crash, TypeInv, TypeOK, Positions
  <1>4. Fits'
    <2>1. Owed \in Nat /\ Len(trail) \in Nat /\ Len(trail') = Len(trail) /\ MaxTrail \in Nat
      BY <1>3, OwedBusy, AttemptsAssumption DEF TypeInv, TypeOK
    <2> QED BY <1>1, <2>1 DEF TypeInv, Fits
  <1>5. TypeOK' /\ \A p \in Procs : RefOK(call[p])'
    BY <1>3 DEF Crash, TypeInv, TypeOK, Positions, Call, Idle, RefOK
  <1> QED BY <1>4, <1>5 DEF TypeInv

(* The types of every behaviour, with or without the discipline and prunes. *)
LEMMA TypeInductive ==
    /\ Init => TypeInv
    /\ TypeInv /\ [Next \/ QuietNext \/ \E k \in Stored : PruneEpoch(k)]_vars => TypeInv'
  <1>1. ASSUME Init PROVE TypeInv
    <2>1. Owed = 0
      BY <1>1, OwedNothing DEF Init, Owed
    <2> QED BY <1>1, <2>1, AttemptsAssumption
            DEF Init, TypeInv, TypeOK, Fits, RefOK, Call, Idle, Positions
  <1>2. ASSUME TypeInv, NEW k \in Stored, PruneEpoch(k) PROVE TypeInv'
    <2>1. Owed' = Owed
      BY <1>2 DEF PruneEpoch, Owed
    <2> QED BY <1>2, <2>1 DEF PruneEpoch, TypeInv, TypeOK, Fits, RefOK, Positions, Stored
  <1>3. ASSUME TypeInv, UNCHANGED vars PROVE TypeInv'
    <2>1. Owed' = Owed
      BY <1>3 DEF vars, Owed
    <2> QED BY <1>3, <2>1 DEF vars, TypeInv, TypeOK, Fits, RefOK, Positions
  <1>4. Next \/ QuietNext =>
           \/ Crash
           \/ \E p \in Procs : \/ Step(p) \/ Execute(p)
                               \/ \E i \in Stored : OutOfBand(p, i)
    BY DEF Next, QuietNext
  <1> QED BY <1>1, <1>2, <1>3, <1>4, TypeStep, TypeExecute, TypeOutOfBand, TypeCrash

(***************************************************************************)
(* The trail, the ghost facts and the calls keep their types, with and     *)
(* without the operator's discipline and under epoch prunes, and the       *)
(* receipts of the calls under way always fit the bound.                   *)
(***************************************************************************)
THEOREM TrailTypeCorrect ==
    /\ Spec => []TypeOK
    /\ QuietSpec => []TypeOK
    /\ SpecPruning => []TypeOK
  <1>1. TypeInv => TypeOK
    BY DEF TypeInv
  <1>2. Init => TypeInv
    BY TypeInductive
  <1>3. TypeInv /\ [Next]_vars => TypeInv'
    BY TypeInductive
  <1>4. TypeInv /\ [QuietNext]_vars => TypeInv'
    BY TypeInductive
  <1>5. TypeInv /\ [QuietNext \/ \E k \in Stored : PruneEpoch(k)]_vars => TypeInv'
    BY TypeInductive
  <1> QED BY <1>1, <1>2, <1>3, <1>4, <1>5, PTL DEF Spec, QuietSpec, SpecPruning

-----------------------------------------------------------------------------
(* The quiet system.                                                        *)

(* What the types say of receipts and calls, without the sets they come from. *)
LEMMA Shapes ==
    ASSUME TypeInv
    PROVE  /\ Len(trail) \in Nat /\ Positions = 1..Len(trail)
           /\ performed \subseteq Positions /\ offset \subseteq Positions
           /\ call \in [Procs -> Call]
           /\ \A t \in Positions : /\ trail[t] \in Receipt
                                   /\ trail[t].prepareRef \in Nat
                                   /\ trail[t].compensateRef \in Nat
           /\ \A p \in Procs :
                 /\ call[p].step \in {"acting", "cleared", "offsetting"} => call[p].ref \in Positions
                 /\ call[p].step = "recording" => /\ call[p].receipt \in Receipt
                                                  /\ call[p].receipt.prepareRef \in Nat
                                                  /\ call[p].receipt.compensateRef \in Nat
  <1>1. \A r \in Receipt : r.prepareRef \in Nat /\ r.compensateRef \in Nat
    BY AttemptsAssumption DEF Receipt, Ref
  <1>2. \A p \in Procs : call[p] \in Call
    BY DEF TypeInv, TypeOK
  <1> QED BY <1>1, <1>2, CallFields DEF TypeInv, TypeOK, Positions, RefOK

(***************************************************************************)
(* A step of call p that appends nothing: the act or the offset p runs may *)
(* take place, and p goes on with what it worked on, or with what nobody   *)
(* worked on.                                                              *)
(***************************************************************************)
LEMMA QuietNoAppend ==
    ASSUME TrailInv, TypeInv', NEW p \in Procs, NEW c, Become(p, c), CallOK(c)',
           trail' = trail, base' = base,
           \/ performed' = performed
           \/ call[p].step = "acting" /\ performed' = performed \cup {call[p].ref},
           \/ offset' = offset
           \/ call[p].step = "offsetting" /\ offset' = offset \cup {call[p].ref},
           \A i \in Positions : WorksOn(c, i) => WorksOn(call[p], i) \/ Unattended(i)
    PROVE  TrailInv'
  <1>1. /\ TypeInv /\ TrailOK /\ OneCompensate /\ WorldOK /\ CallsOK
        /\ OffsetTerminalsTruthful
        /\ Exclusive /\ AtMostOneTerminal /\ TerminalsTruthful /\ base = 0
    BY DEF TrailInv
  <1>2. /\ call'[p] = c /\ \A q \in Procs : q # p => call'[q] = call[q]
        /\ Positions' = Positions
    BY <1>1, Shapes DEF Become, Positions
  <1>3. /\ \A t, i : Matches(t, i)' = Matches(t, i)
        /\ \A t, i : MatchesOffset(t, i)' = MatchesOffset(t, i)
        /\ \A d, i : WorksOn(d, i)' = WorksOn(d, i)
        /\ \A i : Open(i)' = Open(i) /\ OpenOffset(i)' = OpenOffset(i)
    BY <1>2 DEF Matches, MatchesOffset, WorksOn, Open, OpenOffset
  <1>4. CallOK(call[p]) /\ \A q \in Procs : CallOK(call[q])
    BY <1>1 DEF CallsOK
  <1>5. TrailOK' /\ OneCompensate' /\ AtMostOneTerminal'
    <2>1. TrailOK'
      BY <1>1, <1>2, <1>3 DEF TrailOK, ReceiptOK
    <2>2. OneCompensate'
      BY <1>1, <1>2 DEF OneCompensate
    <2>3. AtMostOneTerminal'
      BY <1>1, <1>2, <1>3 DEF AtMostOneTerminal
    <2> QED BY <2>1, <2>2, <2>3
  <1>6. WorldOK'
    BY <1>1, <1>4 DEF WorldOK, CallOK, Open, OpenOffset
  <1>7. OffsetTerminalsTruthful'
    <2>1. \A d, t \in Positions : MatchesOffset(t, d) => (d \in offset' <=> d \in offset)
      BY <1>4 DEF CallOK, OpenOffset
    <2> QED BY <1>1, <1>2, <1>3, <2>1 DEF OffsetTerminalsTruthful
  <1>8. TerminalsTruthful'
    <2>1. performed' = performed \cup {call[p].ref} /\ call[p].step = "acting"
            => \A t \in Positions : trail[t].phase \in ForwardTerminal
                                      => trail[t].prepareRef # call[p].ref
      BY <1>1, <1>4 DEF CallOK, Open, TrailOK, ReceiptOK
    <2> QED BY <1>1, <1>2, <2>1 DEF TerminalsTruthful, ForwardTerminal
  <1>9. ASSUME NEW q \in Procs, q # p PROVE CallOK(call[q])'
    <2>1. CallOK(call[q]) /\ call'[q] = call[q]
      BY <1>2, <1>4, <1>9
    <2>2. call[p].step = "acting" => call[p].ref \in Positions /\ WorksOn(call[p], call[p].ref)
      BY <1>1, Shapes DEF WorksOn
    <2>3. \A i \in Positions : WorksOn(call[q], i) => (i \in performed' <=> i \in performed)
      BY <1>1, <1>9, <2>2 DEF Exclusive
    <2>4. call[q].step = "acting" => call[q].ref \in Positions /\ WorksOn(call[q], call[q].ref)
      BY <1>1, Shapes DEF WorksOn
    <2>5. call[q].step = "recording" => WorksOn(call[q], call[q].receipt.prepareRef)
      BY DEF WorksOn
    <2>6. call[q].step = "recording" /\ ForwardDue(call[q].receipt) => ForwardDue(call[q].receipt)'
      BY <1>3, <2>1, <2>3, <2>5 DEF ForwardDue, Open
    <2>7. ASSUME call[q].step = "recording", OffsetDue(call[q].receipt)
          PROVE  OffsetDue(call[q].receipt)'
      <3>1. PICK d \in Positions : /\ OpenOffset(d)
                                   /\ call[q].receipt.compensateRef = trail[d].compensateRef
                                   /\ call[q].receipt.compKey = trail[d].compKey
                                   /\ TrueOf(call[q].receipt, d)
        BY <2>7 DEF OffsetDue
      <3>2. /\ WorksOn(call[q], trail[d].compensateRef)
            /\ trail[d].compensateRef \in Positions
        BY <1>1, <2>7, <3>1, Shapes DEF WorksOn, OpenOffset, TrailOK, ReceiptOK
      <3>3. call[p].step = "offsetting" => call[p].ref # d
        BY <1>1, <1>9, <3>2 DEF Exclusive, WorksOn
      <3>4. TrueOf(call[q].receipt, d)'
        BY <2>1, <3>1, <3>3 DEF TrueOf
      <3> QED BY <1>2, <1>3, <2>1, <2>7, <3>1, <3>4 DEF OffsetDue
    <2> QED BY <1>2, <1>3, <2>1, <2>3, <2>4, <2>6, <2>7 DEF CallOK
  <1>10. CallsOK'
    BY <1>2, <1>9 DEF CallsOK
  <1>11. Exclusive'
    <2>1. \A q \in Procs : \A i \in Positions :
             q # p /\ WorksOn(call[q], i) => ~WorksOn(c, i)
      BY <1>1 DEF Exclusive, Unattended
    <2> QED BY <1>1, <1>2, <1>3, <2>1 DEF Exclusive
  <1> QED BY <1>1, <1>5, <1>6, <1>7, <1>8, <1>10, <1>11 DEF TrailInv

(***************************************************************************)
(* A step of call p that appends r: r is well formed and true, no other    *)
(* call works on the effect r is about, and p goes on with what it worked  *)
(* on, or with r itself.                                                   *)
(***************************************************************************)
LEMMA QuietAppend ==
    ASSUME TrailInv, TypeInv', NEW p \in Procs, NEW c, NEW r \in Receipt,
           NEW n, n = Len(trail) + 1, Become(p, c), CallOK(c)', ReceiptOK(n)',
           trail' = Append(trail, r), base' = base,
           performed' = performed, offset' = offset,
           r.phase \in ForwardTerminal =>
               Open(r.prepareRef) /\ (r.phase = "commit" <=> r.prepareRef \in performed),
           \A d \in Positions :
               /\ trail[d].phase = "compensate"
               /\ trail[d].compensateRef = r.compensateRef
               => /\ r.phase # "compensate"
                  /\ r.phase \in OffsetTerminal /\ r.compKey = trail[d].compKey
                        => OpenOffset(d) /\ TrueOf(r, d),
           \A q \in Procs : \A i \in Positions \cap {r.prepareRef, r.compensateRef} :
               q # p => ~WorksOn(call[q], i),
           \A i \in Positions : WorksOn(c, i)' => WorksOn(call[p], i)
    PROVE  TrailInv'
  <1>1. /\ TypeInv /\ TrailOK /\ OneCompensate /\ WorldOK /\ CallsOK
        /\ OffsetTerminalsTruthful
        /\ Exclusive /\ AtMostOneTerminal /\ TerminalsTruthful /\ base = 0
    BY DEF TrailInv
  <1>2. call'[p] = c /\ \A q \in Procs : q # p => call'[q] = call[q]
    BY <1>1, Shapes DEF Become
  <1>3. /\ Len(trail) \in Nat /\ Len(trail') = n
        /\ Positions = 1..Len(trail) /\ Positions' = 1..n
        /\ trail'[n] = r /\ \A t \in Positions : trail'[t] = trail[t]
        /\ \A t \in Positions : t < n /\ t \in Positions'
        /\ \A t \in Positions' : t \in Positions \/ t = n
    BY <1>1, Shapes DEF TypeInv, TypeOK, Positions
  <1>4. \A t \in Positions : /\ trail[t].prepareRef \in Nat /\ trail[t].compensateRef \in Nat
                             /\ ReceiptOK(t)
    BY <1>1, Shapes DEF TrailOK
  <1>5. \A t, i \in Positions : /\ Matches(t, i)' <=> Matches(t, i)
                                /\ MatchesOffset(t, i)' <=> MatchesOffset(t, i)
    BY <1>3 DEF Matches, MatchesOffset
  <1>6. \A t \in Positions : ~Matches(t, n)' /\ ~Matches(n, n)'
    <2>1. \A t \in Positions : trail[t].phase \in ForwardTerminal => trail[t].prepareRef \in 1..(t - 1)
      BY <1>4 DEF ReceiptOK
    <2>2. r.phase \in ForwardTerminal => r.prepareRef \in Positions
      BY DEF Open
    <2> QED BY <1>3, <2>1, <2>2 DEF Matches
  <1>7. \A i \in Positions : Matches(n, i)' => r.phase \in ForwardTerminal /\ i = r.prepareRef
    BY <1>3 DEF Matches
  <1>8. TrailOK'
    <2>1. ASSUME NEW t \in Positions PROVE ReceiptOK(t)'
      <3>1. \A u \in 1..(t - 1) : u \in Positions /\ trail'[u] = trail[u]
        BY <1>3
      <3>2. trail'[t] = trail[t] /\ ReceiptOK(t)
        BY <1>3, <1>4
      <3>3. trail[t].phase \in ForwardTerminal =>
               /\ trail[t].compensateRef = 0
               /\ trail[t].prepareRef \in 1..(t - 1)
               /\ trail'[trail[t].prepareRef].phase = "prepare"
               /\ Matches(t, trail[t].prepareRef)'
        <4>1. \A i \in Positions : trail[t].prepareRef = i /\ Matches(t, i)
                => i = trail'[t].prepareRef /\ Matches(t, i)'
          BY <1>5, <3>2
        <4> QED BY <3>1, <3>2, <4>1 DEF ReceiptOK
      <3>4. ASSUME trail[t].phase = "compensate"
            PROVE  /\ trail[t].prepareRef = 0
                   /\ trail[t].compensateRef \in 1..(t - 1)
                   /\ trail'[trail[t].compensateRef].phase = "prepare"
                   /\ \E u \in 1..(t - 1) : /\ trail'[u].phase = "commit"
                                            /\ trail'[u].prepareRef = trail[t].compensateRef
        <4>1. PICK u \in 1..(t - 1) : /\ trail[u].phase = "commit"
                                      /\ trail[u].prepareRef = trail[t].compensateRef
          BY <3>2, <3>4 DEF ReceiptOK
        <4>2. /\ trail[t].prepareRef = 0 /\ trail[t].compensateRef \in 1..(t - 1)
              /\ trail[trail[t].compensateRef].phase = "prepare"
          BY <3>2, <3>4 DEF ReceiptOK
        <4>3. trail'[u] = trail[u] /\ trail'[trail[t].compensateRef] = trail[trail[t].compensateRef]
          BY <3>1, <4>1, <4>2
        <4> QED BY <4>1, <4>2, <4>3, Zenon
      <3>5. ASSUME trail[t].phase \in OffsetTerminal
            PROVE  /\ trail[t].prepareRef = 0
                   /\ \E d \in 1..(t - 1) : trail'[d].phase = "compensate" /\ MatchesOffset(t, d)'
        <4>1. PICK d \in 1..(t - 1) : trail[d].phase = "compensate" /\ MatchesOffset(t, d)
          BY <3>2, <3>5 DEF ReceiptOK
        <4>2. trail[t].prepareRef = 0
          BY <3>2, <3>5 DEF ReceiptOK
        <4>3. trail'[d] = trail[d] /\ MatchesOffset(t, d)'
          BY <1>5, <3>1, <4>1
        <4> QED BY <4>1, <4>2, <4>3, Zenon
      <3>6. trail[t].phase = "prepare" => trail[t].prepareRef = 0 /\ trail[t].compensateRef = 0
        BY <3>2 DEF ReceiptOK
      <3>7. trail'[t].phase \in ForwardTerminal =>
               /\ trail'[t].compensateRef = 0
               /\ trail'[t].prepareRef \in 1..(t - 1)
               /\ trail'[trail'[t].prepareRef].phase = "prepare"
               /\ Matches(t, trail[t].prepareRef)'
        BY <3>2, <3>3, Zenon
      <3>8. trail'[t].phase = "compensate" =>
               /\ trail'[t].prepareRef = 0
               /\ trail'[t].compensateRef \in 1..(t - 1)
               /\ trail'[trail'[t].compensateRef].phase = "prepare"
               /\ \E u \in 1..(t - 1) : /\ trail'[u].phase = "commit"
                                        /\ trail'[u].prepareRef = trail'[t].compensateRef
        BY <3>2, <3>4, Zenon
      <3>9. trail'[t].phase \in OffsetTerminal =>
               /\ trail'[t].prepareRef = 0
               /\ \E d \in 1..(t - 1) : trail'[d].phase = "compensate" /\ MatchesOffset(t, d)'
        BY <3>2, <3>5, Zenon
      <3>10. trail'[t].phase = "prepare" => trail'[t].prepareRef = 0 /\ trail'[t].compensateRef = 0
        BY <3>2, <3>6, Zenon
      <3> QED BY <3>7, <3>8, <3>9, <3>10, Zenon DEF ReceiptOK
    <2> QED BY <1>3, <2>1 DEF TrailOK
  <1>9. OneCompensate'
    BY <1>1, <1>3 DEF OneCompensate
  <1>10. WorldOK'
    BY <1>1, <1>3, Shapes DEF WorldOK
  <1>11. OffsetTerminalsTruthful'
    <2>1. ASSUME NEW t \in Positions, r.phase = "compensate"
          PROVE  ~MatchesOffset(t, n)'
      <3>1. SUFFICES ASSUME trail[t].phase \in OffsetTerminal PROVE ~MatchesOffset(t, n)'
        BY <1>3 DEF MatchesOffset
      <3>2. PICK d \in 1..(t - 1) : trail[d].phase = "compensate" /\ MatchesOffset(t, d)
        BY <1>4, <3>1 DEF ReceiptOK
      <3>3. d \in Positions
        BY <1>3, <3>2
      <3>4. trail[d].compensateRef # r.compensateRef
        BY <2>1, <3>2, <3>3
      <3> QED BY <1>3, <3>2, <3>4 DEF MatchesOffset
    <2>2. ASSUME NEW d \in Positions, trail[d].phase = "compensate", MatchesOffset(n, d)'
          PROVE  TrueOf(r, d) /\ \A t \in Positions : ~MatchesOffset(t, d)
      <3>1. OpenOffset(d) /\ TrueOf(r, d)
        BY <1>3, <2>2 DEF MatchesOffset
      <3> QED BY <3>1 DEF OpenOffset
    <2>3. r.phase = "compensate" => ~MatchesOffset(n, n)'
      BY <1>3 DEF MatchesOffset, OffsetTerminal
    <2>4. ASSUME NEW d \in Positions', trail'[d].phase = "compensate",
                 NEW t \in Positions', MatchesOffset(t, d)'
          PROVE  /\ d \in Positions
                 /\ t = n => TrueOf(r, d) /\ \A u \in Positions : ~MatchesOffset(u, d)
                 /\ t \in Positions => MatchesOffset(t, d)
      <3>1. d \in Positions
        BY <1>3, <2>1, <2>3, <2>4
      <3>2. trail[d].phase = "compensate"
        BY <1>3, <2>4, <3>1
      <3>3. t = n => TrueOf(r, d) /\ \A u \in Positions : ~MatchesOffset(u, d)
        BY <2>2, <2>4, <3>1, <3>2
      <3> QED BY <1>5, <2>4, <3>1, <3>3
    <2>5. ASSUME NEW d \in Positions', trail'[d].phase = "compensate",
                 NEW t \in Positions', MatchesOffset(t, d)'
          PROVE  /\ \A u \in Positions' : MatchesOffset(u, d)' => t = u
                 /\ trail'[t].phase = "compensated" => d \in offset'
                 /\ trail'[t].phase = "compensation_failed" /\ trail'[t].by = "reconciled"
                       => d \notin offset'
      <3>1. d \in Positions /\ trail[d].phase = "compensate"
        BY <1>3, <2>4, <2>5
      <3>2. CASE t = n
        <4>1. TrueOf(r, d) /\ \A u \in Positions : ~MatchesOffset(u, d)
          BY <2>4, <2>5, <3>2
        <4>2. \A u \in Positions' : MatchesOffset(u, d)' => u = n
          BY <1>3, <1>5, <3>1, <4>1
        <4> QED BY <1>3, <3>2, <4>1, <4>2 DEF TrueOf
      <3>3. CASE t \in Positions
        <4>1. MatchesOffset(t, d)
          BY <2>4, <2>5, <3>3
        <4>2. \A u \in Positions' : MatchesOffset(u, d)' => u \in Positions /\ MatchesOffset(u, d)
          BY <1>3, <1>5, <2>2, <3>1, <3>3, <4>1
        <4>3. \A u \in Positions : MatchesOffset(u, d) => t = u
          BY <1>1, <3>1, <3>3, <4>1 DEF OffsetTerminalsTruthful
        <4>4. /\ trail[t].phase = "compensated" => d \in offset
              /\ trail[t].phase = "compensation_failed" /\ trail[t].by = "reconciled"
                    => d \notin offset
          BY <1>1, <3>1, <3>3, <4>1 DEF OffsetTerminalsTruthful
        <4> QED BY <1>3, <3>3, <4>2, <4>3, <4>4
      <3> QED BY <1>3, <3>2, <3>3
    <2> QED BY <2>5 DEF OffsetTerminalsTruthful
  <1>12. AtMostOneTerminal'
    <2>1. \A i, t, u \in Positions : Matches(t, i) /\ Matches(u, i) => t = u
      BY <1>1 DEF AtMostOneTerminal
    <2>2. \A i, t \in Positions : Matches(n, i)' => ~Matches(t, i)
      BY <1>7 DEF Open
    <2> QED BY <1>3, <1>5, <1>6, <2>1, <2>2 DEF AtMostOneTerminal
  <1>13. TerminalsTruthful'
    BY <1>1, <1>3 DEF TerminalsTruthful, ForwardTerminal
  <1>14. ASSUME NEW i \in Positions, Open(i), ~(r.phase \in ForwardTerminal /\ i = r.prepareRef)
         PROVE  Open(i)'
    BY <1>3, <1>5, <1>7, <1>14 DEF Open
  <1>19. ASSUME NEW d \in Positions, OpenOffset(d), r.compensateRef # trail[d].compensateRef
         PROVE  OpenOffset(d)'
    <2>1. ~MatchesOffset(n, d)'
      BY <1>3, <1>19 DEF MatchesOffset
    <2> QED BY <1>3, <1>5, <1>19, <2>1 DEF OpenOffset
  <1>15. ASSUME NEW q \in Procs, q # p PROVE CallOK(call[q])'
    <2>1. CallOK(call[q]) /\ call'[q] = call[q]
      BY <1>1, <1>2, <1>15 DEF CallsOK
    <2>2. \A i \in Positions : WorksOn(call[q], i) => i # r.prepareRef /\ i # r.compensateRef
      BY <1>15
    <2>3. call[q].step \in {"acting", "cleared"}
            => call[q].ref \in Positions /\ WorksOn(call[q], call[q].ref)
      BY <1>1, Shapes DEF WorksOn
    <2>4. call[q].step = "acting" => Open(call[q].ref)' /\ call[q].ref \notin performed'
      BY <1>14, <2>1, <2>2, <2>3 DEF CallOK
    <2>5. call[q].step = "cleared" =>
             /\ call[q].ref \in Positions'
             /\ trail'[call[q].ref].phase = "prepare"
             /\ \E t \in Positions' : /\ trail'[t].phase = "commit"
                                      /\ trail'[t].prepareRef = call[q].ref
             /\ \A d \in Positions' : trail'[d].phase = "compensate"
                                        => trail'[d].compensateRef # call[q].ref
      BY <1>3, <2>1, <2>2, <2>3 DEF CallOK
    <2>6. ASSUME call[q].step = "offsetting" PROVE OpenOffset(call[q].ref)'
      <3>1. OpenOffset(call[q].ref) /\ call[q].ref \in Positions
        BY <2>1, <2>6 DEF CallOK, OpenOffset
      <3>2. trail[call[q].ref].compensateRef \in Positions
        BY <1>3, <1>4, <3>1 DEF OpenOffset, ReceiptOK
      <3>3. WorksOn(call[q], trail[call[q].ref].compensateRef)
        BY <2>6 DEF WorksOn
      <3>4. PICK d : d = call[q].ref
        OBVIOUS
      <3>5. OpenOffset(d)'
        BY <1>19, <2>2, <3>1, <3>2, <3>3, <3>4
      <3> QED BY <2>1, <3>4, <3>5
    <2>7. call[q].step = "recording" /\ ForwardDue(call[q].receipt) => ForwardDue(call[q].receipt)'
      <3>1. call[q].step = "recording" => WorksOn(call[q], call[q].receipt.prepareRef)
        BY DEF WorksOn
      <3>2. SUFFICES ASSUME call[q].step = "recording", ForwardDue(call[q].receipt)
                     PROVE  ForwardDue(call[q].receipt)'
        OBVIOUS
      <3>3. call[q].receipt.prepareRef \in Positions /\ Open(call[q].receipt.prepareRef)
        BY <3>2 DEF ForwardDue, Open
      <3>4. Open(call[q].receipt.prepareRef)'
        BY <1>14, <2>1, <2>2, <3>1, <3>2, <3>3
      <3> QED BY <1>3, <2>1, <3>2, <3>3, <3>4 DEF ForwardDue
    <2>8. ASSUME call[q].step = "recording", OffsetDue(call[q].receipt)
          PROVE  OffsetDue(call[q].receipt)'
      <3>1. PICK d \in Positions : /\ OpenOffset(d)
                                   /\ call[q].receipt.compensateRef = trail[d].compensateRef
                                   /\ call[q].receipt.compKey = trail[d].compKey
                                   /\ TrueOf(call[q].receipt, d)
        BY <2>8 DEF OffsetDue
      <3>2. /\ WorksOn(call[q], trail[d].compensateRef)
            /\ trail[d].compensateRef \in Positions
        BY <1>3, <1>4, <2>8, <3>1 DEF WorksOn, OpenOffset, ReceiptOK
      <3>3. OpenOffset(d)'
        BY <1>19, <2>2, <3>1, <3>2
      <3>4. TrueOf(call[q].receipt, d)'
        BY <2>1, <3>1 DEF TrueOf
      <3> QED BY <1>3, <2>1, <2>8, <3>1, <3>3, <3>4 DEF OffsetDue
    <2> QED BY <2>1, <2>4, <2>5, <2>6, <2>7, <2>8 DEF CallOK
  <1>16. CallsOK'
    BY <1>2, <1>15 DEF CallsOK
  <1>17. ASSUME NEW q \in Procs, q # p
         PROVE  /\ \A i \in Positions : WorksOn(call[q], i)' <=> WorksOn(call[q], i)
                /\ ~WorksOn(call[q], n)'
    <2>1. /\ call'[q] = call[q] /\ CallOK(call[q])
          /\ call[q].step \in {"acting", "cleared", "offsetting"} => call[q].ref \in Positions
      BY <1>1, <1>2, <1>17, Shapes DEF CallsOK
    <2>2. call[q].step = "offsetting" =>
             /\ trail'[call[q].ref].compensateRef = trail[call[q].ref].compensateRef
             /\ trail[call[q].ref].compensateRef \in Positions
      BY <1>3, <1>4, <2>1 DEF CallOK, OpenOffset, ReceiptOK
    <2>3. call[q].step = "recording" => n \notin {call[q].receipt.prepareRef, call[q].receipt.compensateRef}
      <3>1. n \notin Positions /\ n # 0
        BY <1>3
      <3>2. call[q].step = "recording" /\ ForwardDue(call[q].receipt)
              => /\ call[q].receipt.prepareRef \in Positions
                 /\ call[q].receipt.compensateRef = 0
        BY DEF ForwardDue, Open
      <3>3. call[q].step = "recording" /\ OffsetDue(call[q].receipt)
              => /\ call[q].receipt.prepareRef = 0
                 /\ call[q].receipt.compensateRef \in Positions
        BY <1>3, <1>4 DEF OffsetDue, OpenOffset, ReceiptOK
      <3> QED BY <2>1, <3>1, <3>2, <3>3 DEF CallOK
    <2>4. n \notin Positions
      BY <1>3
    <2> QED BY <2>1, <2>2, <2>3, <2>4 DEF WorksOn
  <1>18. Exclusive'
    <2>1. \A q \in Procs : \A i \in Positions' :
             q # p /\ WorksOn(call[q], i)' => ~WorksOn(c, i)'
      BY <1>1, <1>3, <1>17 DEF Exclusive
    <2>2. \A q, s \in Procs : \A i \in Positions' :
             q # p /\ s # p /\ WorksOn(call[q], i)' /\ WorksOn(call[s], i)' => q = s
      BY <1>1, <1>3, <1>17 DEF Exclusive
    <2> QED BY <1>2, <2>1, <2>2 DEF Exclusive
  <1> QED BY <1>1, <1>8, <1>9, <1>10, <1>11, <1>12, <1>13, <1>16, <1>18 DEF TrailInv

(* The fields of the terminals, as the builders set or copy them. *)
LEMMA TerminalFields ==
    ASSUME TypeInv, NEW i \in Positions, NEW phase, NEW by, NEW grade
    PROVE  /\ LET r == ForwardReceipt(i, phase, by, grade)
              IN  /\ r.phase = phase /\ r.prepareRef = i
                  /\ r.class = trail[i].class /\ r.key = trail[i].key
                  /\ r.compensateRef = trail[i].compensateRef
           /\ LET r == OffsetReceipt(i, phase, by, grade)
              IN  /\ r.phase = phase /\ r.prepareRef = trail[i].prepareRef
                  /\ r.compensateRef = trail[i].compensateRef
                  /\ r.compKey = trail[i].compKey /\ r.by = by
  <1>1. trail[i] \in Receipt
    BY Shapes
  <1> QED BY <1>1 DEF ForwardReceipt, OffsetReceipt, Receipt

(* The in-band outcome of an act, as known to the call that ran it. *)
LEMMA QuietOutcome ==
    ASSUME TrailInv, TypeInv', NEW p \in Procs, NEW i, NEW r, NEW c,
           c = Recording(r), Become(p, c), trail' = trail, base' = base,
           \/ /\ call[p].step = "acting" /\ i = call[p].ref /\ offset' = offset
              /\ \/ /\ r = ForwardReceipt(i, "commit", "in_band", "none")
                    /\ performed' = performed \cup {i}
                 \/ /\ r = ForwardReceipt(i, "abort", "in_band", "none")
                    /\ performed' = performed
           \/ /\ call[p].step = "offsetting" /\ i = call[p].ref /\ performed' = performed
              /\ \/ /\ r = OffsetReceipt(i, "compensated", "in_band", "none")
                    /\ offset' = offset \cup {i}
                 \/ /\ r = OffsetReceipt(i, "compensation_failed", "in_band", "none")
                    /\ offset' = offset \/ offset' = offset \cup {i}
    PROVE  TrailInv'
  <1>1. /\ TypeInv /\ CallOK(call[p]) /\ TrailOK
        /\ c.step = "recording" /\ c.receipt = r
    BY DEF TrailInv, CallsOK, Recording
  <1>2. i \in Positions
    BY <1>1, Shapes
  <1>3. /\ Positions' = Positions
        /\ \A j : Open(j)' = Open(j) /\ OpenOffset(j)' = OpenOffset(j)
    BY DEF Positions, Open, OpenOffset, Matches, MatchesOffset
  <1>4. CASE call[p].step = "acting"
    <2>1. /\ Open(i) /\ i \notin performed /\ trail[i].compensateRef = 0
      BY <1>1, <1>2, <1>4 DEF CallOK, Open, TrailOK, ReceiptOK
    <2>2. /\ r.prepareRef = i /\ r.class = trail[i].class /\ r.key = trail[i].key
          /\ r.compensateRef = 0
          /\ \/ r.phase = "commit" /\ performed' = performed \cup {i}
             \/ r.phase = "abort" /\ performed' = performed
      BY <1>1, <1>2, <1>4, <2>1, TerminalFields
    <2>3. ForwardDue(r)'
      BY <1>3, <2>1, <2>2 DEF ForwardDue, ForwardTerminal
    <2>4. CallOK(c)'
      BY <1>1, <2>3 DEF CallOK
    <2>5. \A j \in Positions : WorksOn(c, j) => WorksOn(call[p], j)
      BY <1>1, <1>2, <1>4, <2>2, Shapes DEF WorksOn
    <2> QED BY <1>4, <2>4, <2>5, QuietNoAppend
  <1>5. CASE call[p].step = "offsetting"
    <2>1. OpenOffset(i) /\ trail[i].prepareRef = 0
      BY <1>1, <1>2, <1>5 DEF CallOK, OpenOffset, TrailOK, ReceiptOK
    <2>2. /\ r.prepareRef = 0 /\ r.compensateRef = trail[i].compensateRef
          /\ r.compKey = trail[i].compKey /\ r.by = "in_band"
          /\ \/ r.phase = "compensated" /\ offset' = offset \cup {i}
             \/ r.phase = "compensation_failed"
      BY <1>1, <1>2, <1>5, <2>1, TerminalFields
    <2>3. OffsetDue(r)'
      BY <1>2, <1>3, <2>1, <2>2 DEF OffsetDue, OffsetTerminal, TrueOf
    <2>4. CallOK(c)'
      BY <1>1, <2>3 DEF CallOK
    <2>5. \A j \in Positions : WorksOn(c, j) => WorksOn(call[p], j)
      BY <1>1, <1>2, <1>5, <2>2, Shapes DEF WorksOn
    <2> QED BY <1>5, <2>4, <2>5, QuietNoAppend
  <1> QED BY <1>4, <1>5

(* Back to idle with nothing written: an error, or an ambiguous exception. *)
LEMMA QuietGiveUp ==
    ASSUME TrailInv, TypeInv', NEW p \in Procs, Become(p, Idle),
           trail' = trail, base' = base, offset' = offset,
           \/ performed' = performed
           \/ call[p].step = "acting" /\ performed' = performed \cup {call[p].ref}
    PROVE  TrailInv'
  <1>1. CallOK(Idle)' /\ \A i \in Positions : ~WorksOn(Idle, i)
    BY DEF CallOK, WorksOn, Idle
  <1> QED BY <1>1, QuietNoAppend

(* The terminal reaches the trail. *)
LEMMA QuietRecord ==
    ASSUME TrailInv, TypeInv', NEW p \in Procs, RecordWritten(p)
    PROVE  TrailInv'
  <1>1. PICK r, n : r = call[p].receipt /\ n = Len(trail) + 1
    OBVIOUS
  <1>2. /\ TypeInv /\ TrailOK /\ OneCompensate /\ CallOK(call[p]) /\ Exclusive
    BY DEF TrailInv, CallsOK
  <1>3. /\ call[p].step = "recording" /\ trail' = Append(trail, r) /\ Become(p, Idle)
        /\ base' = base /\ performed' = performed /\ offset' = offset
    BY <1>1 DEF RecordWritten
  <1>4. r \in Receipt /\ r.prepareRef \in Nat /\ r.compensateRef \in Nat
    BY <1>1, <1>2, <1>3, Shapes
  <1>5. /\ Len(trail) \in Nat /\ Positions = 1..Len(trail) /\ Positions = 1..(n - 1)
        /\ trail'[n] = r /\ \A t \in Positions : trail'[t] = trail[t]
    BY <1>1, <1>2, <1>3, <1>4, Shapes DEF TypeInv, TypeOK
  <1>6. ForwardDue(r) \/ OffsetDue(r)
    BY <1>1, <1>2, <1>3 DEF CallOK
  <1>7. CallOK(Idle)' /\ \A i \in Positions : ~WorksOn(Idle, i)'
    BY DEF CallOK, WorksOn, Idle
  <1>8. \A i \in {r.prepareRef, r.compensateRef} : WorksOn(call[p], i)
    BY <1>1, <1>3 DEF WorksOn
  <1>9. \A q \in Procs : \A i \in Positions \cap {r.prepareRef, r.compensateRef} :
           q # p => ~WorksOn(call[q], i)
    BY <1>2, <1>8 DEF Exclusive
  <1>10. CASE ForwardDue(r)
    <2>1. /\ r.phase \in ForwardTerminal /\ r.prepareRef \in Positions /\ r.compensateRef = 0
          /\ trail[r.prepareRef].phase = "prepare" /\ Open(r.prepareRef)
          /\ r.class = trail[r.prepareRef].class /\ r.key = trail[r.prepareRef].key
          /\ r.phase = "commit" <=> r.prepareRef \in performed
      BY <1>10 DEF ForwardDue, Open
    <2>2. r.phase \notin {"prepare", "compensate"} \cup OffsetTerminal
      BY <2>1 DEF ForwardTerminal, OffsetTerminal
    <2>3. Matches(n, r.prepareRef)'
      BY <1>5, <2>1 DEF Matches
    <2>4. trail'[r.prepareRef] = trail[r.prepareRef] /\ r.prepareRef \in 1..(n - 1)
      BY <1>5, <2>1
    <2>5. trail'[n].prepareRef = r.prepareRef /\ Matches(n, trail[n].prepareRef)'
      BY <1>5, <2>3, Zenon
    <2>6. ReceiptOK(n)'
      BY <1>5, <2>1, <2>2, <2>4, <2>5 DEF ReceiptOK
    <2>7. r.phase # "compensate" /\ r.phase \notin OffsetTerminal
      BY <2>2
    <2> QED BY <1>1, <1>3, <1>4, <1>7, <1>9, <2>1, <2>6, <2>7, QuietAppend
  <1>11. CASE OffsetDue(r)
    <2>1. PICK d \in Positions : /\ OpenOffset(d)
                                 /\ trail[d].phase = "compensate"
                                 /\ r.compensateRef = trail[d].compensateRef
                                 /\ r.compKey = trail[d].compKey
                                 /\ TrueOf(r, d)
      BY <1>11 DEF OffsetDue, OpenOffset
    <2>2. r.phase \in OffsetTerminal /\ r.prepareRef = 0
      BY <1>11 DEF OffsetDue
    <2>3. r.phase \notin {"prepare", "compensate"} \cup ForwardTerminal
      BY <2>2 DEF ForwardTerminal, OffsetTerminal
    <2>4. /\ trail'[d].phase = "compensate" /\ d \in 1..(n - 1) /\ MatchesOffset(n, d)'
      BY <1>5, <2>1, <2>2 DEF MatchesOffset
    <2>5. ReceiptOK(n)'
      BY <1>5, <2>2, <2>3, <2>4 DEF ReceiptOK
    <2>6. \A e \in Positions :
             trail[e].phase = "compensate" /\ trail[e].compensateRef = r.compensateRef => e = d
      BY <1>2, <2>1 DEF OneCompensate
    <2> QED BY <1>1, <1>3, <1>4, <1>7, <1>9, <2>1, <2>3, <2>5, <2>6, QuietAppend
  <1> QED BY <1>6, <1>10, <1>11

(* A locked database: the call waits with the same terminal, or gives up. *)
LEMMA QuietRetry ==
    ASSUME TrailInv, TypeInv', NEW p \in Procs, RecordTransientError(p)
    PROVE  TrailInv'
  <1>1. /\ call[p].step = "recording" /\ trail' = trail /\ base' = base
        /\ performed' = performed /\ offset' = offset
    BY DEF RecordTransientError
  <1>2. CASE Become(p, Idle)
    BY <1>1, <1>2, QuietGiveUp
  <1>3. CASE Become(p, [call[p] EXCEPT !.left = @ - 1])
    <2>1. PICK c : c = [call[p] EXCEPT !.left = @ - 1]
      OBVIOUS
    <2>2. CallOK(call[p]) /\ TypeInv
      BY DEF TrailInv, CallsOK
    <2>3. call[p] \in [step : {"recording"}, receipt : Receipt, left : 1..MaxAttempts]
      BY <1>1, <2>2 DEF TypeInv, TypeOK, Call, Idle
    <2>4. c.step = "recording" /\ c.receipt = call[p].receipt
      BY <2>1, <2>3
    <2>5. ForwardDue(c.receipt) \/ OffsetDue(c.receipt)
      BY <1>1, <2>2, <2>4 DEF CallOK
    <2>6. ForwardDue(c.receipt)' \/ OffsetDue(c.receipt)'
      BY <1>1, <2>5 DEF ForwardDue, OffsetDue, Open, OpenOffset, TrueOf, Matches,
                        MatchesOffset, Positions
    <2>7. CallOK(c)' /\ \A i \in Positions : WorksOn(c, i) => WorksOn(call[p], i)
      BY <1>1, <2>4, <2>6 DEF CallOK, WorksOn
    <2> QED BY <1>1, <1>3, <2>1, <2>7, QuietNoAppend
  <1> QED BY <1>2, <1>3 DEF RecordTransientError

(* PREPARE: the new position is nobody's yet. *)
LEMMA QuietExecute ==
    ASSUME TrailInv, TypeInv', NEW p \in Procs, Execute(p)
    PROVE  TrailInv'
  <1>1. PICK class \in Class, key \in Keys : Prepare(p, class, key)
    BY DEF Execute
  <1>2. PICK r, c, n :
           /\ n = Len(trail) + 1
           /\ r = [phase |-> "prepare", class |-> class, key |-> key,
                   prepareRef |-> 0, compensateRef |-> 0, compKey |-> NoKey,
                   by |-> "in_band", grade |-> "none"]
           /\ c = [step |-> "acting", ref |-> n]
    OBVIOUS
  <1>3. /\ trail' = Append(trail, r) /\ Become(p, c)
        /\ base' = base /\ performed' = performed /\ offset' = offset
    BY <1>1, <1>2 DEF Prepare
  <1>4. TypeInv /\ TrailOK
    BY DEF TrailInv
  <1>5. r \in Receipt
    BY <1>2, AttemptsAssumption DEF Receipt, Ref
  <1>6. /\ r.phase = "prepare" /\ r.prepareRef = 0 /\ r.compensateRef = 0
        /\ r.phase \notin {"compensate", "compensated"} \cup ForwardTerminal \cup OffsetTerminal
        /\ c.step = "acting" /\ c.ref = n
    BY <1>2 DEF ForwardTerminal, OffsetTerminal
  <1>7. /\ Len(trail) \in Nat /\ Positions = 1..Len(trail) /\ Positions' = 1..n
        /\ trail'[n] = r /\ \A t \in Positions : trail'[t] = trail[t]
        /\ n \notin Positions /\ 0 \notin Positions /\ performed \subseteq Positions
    BY <1>2, <1>3, <1>4, <1>5, Shapes DEF TypeInv, TypeOK, Positions
  <1>8. ReceiptOK(n)'
    BY <1>6, <1>7 DEF ReceiptOK
  <1>9. \A t \in Positions' : ~Matches(t, n)'
    <2>1. \A t \in Positions : trail[t].phase \in ForwardTerminal => trail[t].prepareRef \in Positions
      BY <1>4, <1>7 DEF TrailOK, ReceiptOK
    <2> QED BY <1>2, <1>6, <1>7, <2>1 DEF Matches
  <1>10. CallOK(c)'
    <2>1. n \in Positions' /\ trail'[n].phase = "prepare" /\ n \notin performed'
      BY <1>2, <1>3, <1>6, <1>7
    <2>2. Open(n)'
      BY <1>9, <2>1 DEF Open
    <2> QED BY <1>6, <2>1, <2>2 DEF CallOK
  <1>11. \A i \in Positions : ~WorksOn(c, i)'
    BY <1>6, <1>7 DEF WorksOn
  <1> QED BY <1>2, <1>3, <1>5, <1>6, <1>7, <1>8, <1>10, <1>11, QuietAppend

(* COMPENSATE: cleared and still alone, so it is the effect's first. *)
LEMMA QuietIntent ==
    ASSUME TrailInv, TypeInv', NEW p \in Procs, CompensateIntent(p)
    PROVE  TrailInv'
  <1>1. PICK r, c, n, i :
           /\ n = Len(trail) + 1
           /\ i = call[p].ref
           /\ r = [phase |-> "compensate", class |-> "reversible",
                   key |-> trail[i].key, prepareRef |-> 0,
                   compensateRef |-> i, compKey |-> call[p].compKey,
                   by |-> "in_band", grade |-> "none"]
           /\ c = [step |-> "offsetting", ref |-> n]
    OBVIOUS
  <1>2. /\ call[p].step = "cleared" /\ trail' = Append(trail, r) /\ Become(p, c)
        /\ base' = base /\ performed' = performed /\ offset' = offset
    BY <1>1 DEF CompensateIntent
  <1>3. TypeInv /\ TrailOK /\ CallOK(call[p]) /\ Exclusive
    BY DEF TrailInv, CallsOK
  <1>4. i \in Positions /\ WorksOn(call[p], i)
    BY <1>1, <1>2, <1>3, Shapes DEF WorksOn
  <1>5. /\ Len(trail) \in Nat /\ Positions = 1..Len(trail) /\ Positions' = 1..n
        /\ trail'[n] = r /\ \A t \in Positions : trail'[t] = trail[t]
        /\ Positions = 1..(n - 1) /\ 0 \notin Positions
    BY <1>1, <1>2, <1>3, Shapes DEF TypeInv, TypeOK, Positions
  <1>6. r \in Receipt
    <2>1. n \in 1..Len(trail') /\ trail' \in Seq(Receipt)
      BY <1>1, <1>2, <1>5 DEF TypeInv, TypeOK
    <2>2. trail'[n] \in Receipt
      BY <2>1
    <2> QED BY <1>5, <2>2
  <1>7. /\ r.phase = "compensate" /\ r.prepareRef = 0 /\ r.compensateRef = i
        /\ r.phase \notin {"prepare", "compensated"} \cup ForwardTerminal \cup OffsetTerminal
        /\ c.step = "offsetting" /\ c.ref = n
    BY <1>1 DEF ForwardTerminal, OffsetTerminal
  <1>8. /\ trail[i].phase = "prepare"
        /\ \A d \in Positions : trail[d].phase = "compensate" => trail[d].compensateRef # i
    BY <1>1, <1>2, <1>3 DEF CallOK
  <1>9. PICK t \in Positions : trail[t].phase = "commit" /\ trail[t].prepareRef = i
    BY <1>1, <1>2, <1>3 DEF CallOK
  <1>10. ReceiptOK(n)'
    <2>1. trail'[t] = trail[t] /\ t \in 1..(n - 1) /\ trail'[i] = trail[i] /\ i \in 1..(n - 1)
      BY <1>4, <1>5
    <2> QED BY <1>5, <1>7, <1>8, <1>9, <2>1 DEF ReceiptOK
  <1>11. CallOK(c)'
    <2>1. \A u \in Positions : trail[u].phase \in OffsetTerminal => trail[u].compensateRef # i
      BY <1>3, <1>5, <1>8 DEF TrailOK, ReceiptOK, MatchesOffset
    <2>2. \A u \in Positions' : ~MatchesOffset(u, n)'
      BY <1>1, <1>5, <1>7, <2>1 DEF MatchesOffset
    <2>3. OpenOffset(n)'
      BY <1>1, <1>5, <1>7, <2>2 DEF OpenOffset
    <2> QED BY <1>7, <2>3 DEF CallOK
  <1>12. \A j \in Positions : WorksOn(c, j)' => WorksOn(call[p], j)
    BY <1>4, <1>5, <1>7 DEF WorksOn
  <1>13. \A q \in Procs : \A j \in Positions \cap {r.prepareRef, r.compensateRef} :
            q # p => ~WorksOn(call[q], j)
    BY <1>3, <1>4, <1>5, <1>7 DEF Exclusive
  <1> QED BY <1>1, <1>2, <1>6, <1>7, <1>8, <1>10, <1>11, <1>12, <1>13, QuietAppend

(* An out-of-band call on an effect nobody works on. *)
LEMMA QuietOutOfBand ==
    ASSUME TrailInv, TypeInv', NEW p \in Procs, NEW i \in Stored,
           Unattended(i), OutOfBand(p, i)
    PROVE  TrailInv'
  <1>1. /\ TypeInv /\ TrailOK /\ base = 0 /\ Stored = Positions /\ i \in Positions
        /\ 0 \notin Positions
    <2>1. TypeInv /\ TrailOK /\ base = 0
      BY DEF TrailInv
    <2> QED BY <2>1 DEF Stored, Positions, TypeInv, TypeOK
  <1>2. CASE \E grade \in Grades : ReconcileForward(p, i, grade)
    <2>1. PICK grade \in Grades : ReconcileForward(p, i, grade)
      BY <1>2
    <2>2. PICK phase, r, c :
             /\ phase = IF i \in performed THEN "commit" ELSE "abort"
             /\ r = ForwardReceipt(i, phase, "reconciled", grade)
             /\ c = Recording(r)
      OBVIOUS
    <2>3. /\ Become(p, c) /\ i \in OrphanPrepares /\ trail' = trail /\ base' = base
          /\ performed' = performed /\ offset' = offset
      BY <2>1, <2>2 DEF ReconcileForward
    <2>4. Open(i) /\ trail[i].compensateRef = 0
      BY <1>1, <2>3 DEF OrphanPrepares, Open, TrailOK, ReceiptOK
    <2>5. /\ r.phase = phase /\ r.prepareRef = i /\ r.compensateRef = 0
          /\ r.class = trail[i].class /\ r.key = trail[i].key
          /\ c.step = "recording" /\ c.receipt = r
      BY <1>1, <2>2, <2>4, TerminalFields DEF Recording
    <2>6. Open(i)'
      BY <2>3, <2>4 DEF Open, Matches, Positions
    <2>7. ForwardDue(r)'
      BY <2>2, <2>3, <2>5, <2>6 DEF ForwardDue, ForwardTerminal
    <2>8. CallOK(c)' /\ \A j \in Positions : WorksOn(c, j) => Unattended(j)
      BY <1>1, <2>5, <2>7 DEF CallOK, WorksOn
    <2> QED BY <2>3, <2>8, QuietNoAppend
  <1>3. CASE \E compKey \in Keys : CompensateCheck(p, i, compKey)
    <2>1. PICK compKey \in Keys : CompensateCheck(p, i, compKey)
      BY <1>3
    <2>2. PICK c : c = [step |-> "cleared", ref |-> i, compKey |-> compKey]
      OBVIOUS
    <2>3. /\ Become(p, c) /\ trail' = trail /\ base' = base
          /\ performed' = performed /\ offset' = offset
          /\ c.step = "cleared" /\ c.ref = i
      BY <2>1, <2>2 DEF CompensateCheck
    <2>4. PICK t \in Positions : /\ trail[t].phase = "commit" /\ trail[t].prepareRef = i
                                 /\ \A u \in Positions : trail[u].phase = "compensate"
                                                           => trail[u].compensateRef # i
      BY <1>1, <2>1 DEF CompensateCheck, CommittedForward
    <2>5. trail[i].phase = "prepare"
      BY <1>1, <2>4 DEF TrailOK, ReceiptOK, ForwardTerminal
    <2>6. CallOK(c)'
      BY <1>1, <2>3, <2>4, <2>5 DEF CallOK, Positions
    <2>7. \A j \in Positions : WorksOn(c, j) => Unattended(j)
      BY <2>3 DEF WorksOn
    <2> QED BY <2>3, <2>6, <2>7, QuietNoAppend
  <1>4. CASE \E d \in Stored, grade \in Grades :
                trail[d].compensateRef = i /\ ReconcileCompensation(p, d, grade)
    <2>1. PICK d \in Stored, grade \in Grades :
             trail[d].compensateRef = i /\ ReconcileCompensation(p, d, grade)
      BY <1>4
    <2>2. PICK phase, r, c :
             /\ phase = IF d \in offset THEN "compensated" ELSE "compensation_failed"
             /\ r = OffsetReceipt(d, phase, "reconciled", grade)
             /\ c = Recording(r)
      OBVIOUS
    <2>3. /\ Become(p, c) /\ d \in OrphanCompensates /\ trail' = trail /\ base' = base
          /\ performed' = performed /\ offset' = offset
      BY <2>1, <2>2 DEF ReconcileCompensation
    <2>4. d \in Positions /\ OpenOffset(d) /\ trail[d].prepareRef = 0
      BY <1>1, <2>3 DEF OrphanCompensates, OpenOffset, TrailOK, ReceiptOK
    <2>5. /\ r.phase = phase /\ r.prepareRef = 0 /\ r.compensateRef = i
          /\ r.compKey = trail[d].compKey
          /\ c.step = "recording" /\ c.receipt = r
      BY <1>1, <2>1, <2>2, <2>4, TerminalFields DEF Recording
    <2>6. OffsetDue(r)'
      <3>1. OpenOffset(d)' /\ TrueOf(r, d)'
        BY <2>2, <2>3, <2>4, <2>5 DEF OpenOffset, TrueOf, MatchesOffset, Positions
      <3> QED BY <2>1, <2>2, <2>3, <2>4, <2>5, <3>1 DEF OffsetDue, OffsetTerminal, Positions
    <2>7. CallOK(c)' /\ \A j \in Positions : WorksOn(c, j) => Unattended(j)
      BY <1>1, <2>5, <2>6 DEF CallOK, WorksOn
    <2> QED BY <2>3, <2>7, QuietNoAppend
  <1> QED BY <1>2, <1>3, <1>4 DEF OutOfBand

(* A crash: what may have taken place has no terminal, so nothing written lies. *)
LEMMA QuietCrash ==
    ASSUME TrailInv, TypeInv', Crash
    PROVE  TrailInv'
  <1>1. /\ TypeInv /\ TrailOK /\ OneCompensate /\ WorldOK /\ CallsOK
        /\ OffsetTerminalsTruthful
        /\ AtMostOneTerminal /\ TerminalsTruthful /\ base = 0
    BY DEF TrailInv
  <1>2. PICK done \in SUBSET InFlight("acting") : performed' = performed \cup done
    BY DEF Crash
  <1>3. PICK undone \in SUBSET InFlight("offsetting") : offset' = offset \cup undone
    BY DEF Crash
  <1>4. /\ trail' = trail /\ base' = base /\ Positions' = Positions
        /\ \A p \in Procs : call'[p] = Idle
    BY DEF Crash, Positions
  <1>5. /\ \A i \in done : Open(i)
        /\ \A d \in undone : OpenOffset(d)
    BY <1>1, <1>2, <1>3 DEF InFlight, CallsOK, CallOK
  <1>6. TrailOK' /\ OneCompensate' /\ AtMostOneTerminal'
    BY <1>1, <1>4 DEF TrailOK, ReceiptOK, OneCompensate, AtMostOneTerminal, Matches,
                      MatchesOffset
  <1>7. WorldOK'
    BY <1>1, <1>2, <1>3, <1>4, <1>5 DEF WorldOK, Open, OpenOffset
  <1>8. OffsetTerminalsTruthful'
    <2>1. \A d, t \in Positions : MatchesOffset(t, d) => (d \in offset' <=> d \in offset)
      BY <1>3, <1>5 DEF OpenOffset
    <2>2. \A d, t : MatchesOffset(t, d)' = MatchesOffset(t, d)
      BY <1>4 DEF MatchesOffset
    <2> QED BY <1>1, <1>4, <2>1, <2>2 DEF OffsetTerminalsTruthful
  <1>9. TerminalsTruthful'
    <2>1. \A t \in Positions : trail[t].phase \in ForwardTerminal => trail[t].prepareRef \notin done
      BY <1>1, <1>5 DEF Open, TrailOK, ReceiptOK
    <2> QED BY <1>1, <1>2, <1>4, <2>1 DEF TerminalsTruthful, ForwardTerminal
  <1>10. CallsOK' /\ Exclusive'
    BY <1>4 DEF CallsOK, CallOK, Exclusive, WorksOn, Idle
  <1> QED BY <1>1, <1>4, <1>6, <1>7, <1>8, <1>9, <1>10 DEF TrailInv

(* Every step of a call under way. *)
LEMMA QuietStep ==
    ASSUME TrailInv, TypeInv', NEW p \in Procs, Step(p)
    PROVE  TrailInv'
  <1>1. CASE RecordFatalError(p) \/ EffectRaises(p) \/ CompensateIntentFails(p)
    BY <1>1, QuietGiveUp DEF RecordFatalError, EffectRaises, CompensateIntentFails
  <1>2. CASE EffectReturns(p)
    BY <1>2, QuietOutcome DEF EffectReturns
  <1>3. CASE EffectNotPerformed(p)
    BY <1>3, QuietOutcome DEF EffectNotPerformed
  <1>4. CASE OffsetReturns(p)
    BY <1>4, QuietOutcome DEF OffsetReturns
  <1>5. CASE OffsetRaises(p)
    BY <1>5, QuietOutcome DEF OffsetRaises
  <1> QED BY <1>1, <1>2, <1>3, <1>4, <1>5, QuietRecord, QuietRetry, QuietIntent DEF Step

(* The inductive invariant of the quiet system. *)
LEMMA TrailInductive == QuietSpec => []TrailInv
  <1>1. ASSUME Init PROVE TrailInv
    <2>1. TypeInv
      BY <1>1, TypeInductive
    <2>2. Positions = {}
      BY <1>1 DEF Init, Positions
    <2> QED BY <1>1, <2>1, <2>2
            DEF Init, TrailInv, TrailOK, OneCompensate, WorldOK, OffsetTerminalsTruthful,
                CallsOK, CallOK, Exclusive, AtMostOneTerminal, TerminalsTruthful, Idle
  <1>2. ASSUME TrailInv, [QuietNext]_vars PROVE TrailInv'
    <2>1. TypeInv'
      BY <1>2, TypeInductive DEF TrailInv
    <2>2. CASE UNCHANGED vars
      <3>1. /\ trail' = trail /\ base' = base /\ performed' = performed
            /\ offset' = offset /\ call' = call
        BY <2>2 DEF vars
      <3>2. TrailOK' /\ OneCompensate' /\ AtMostOneTerminal'
        BY <1>2, <3>1 DEF TrailInv, TrailOK, ReceiptOK, OneCompensate, AtMostOneTerminal,
                          Matches, MatchesOffset, Positions
      <3>3. WorldOK' /\ OffsetTerminalsTruthful' /\ TerminalsTruthful'
        BY <1>2, <3>1 DEF TrailInv, WorldOK, OffsetTerminalsTruthful, TerminalsTruthful,
                          MatchesOffset, Positions
      <3>4. CallsOK'
        BY <1>2, <3>1 DEF TrailInv, CallsOK, CallOK, ForwardDue, OffsetDue, Open, OpenOffset,
                          TrueOf, Matches, MatchesOffset, Positions
      <3>5. Exclusive'
        BY <1>2, <3>1 DEF TrailInv, Exclusive, WorksOn, Positions
      <3> QED BY <1>2, <2>1, <3>1, <3>2, <3>3, <3>4, <3>5 DEF TrailInv
    <2>3. CASE QuietNext
      BY <1>2, <2>1, <2>3, QuietCrash, QuietStep, QuietExecute, QuietOutOfBand DEF QuietNext
    <2> QED BY <1>2, <2>2, <2>3
  <1> QED BY <1>1, <1>2, PTL DEF QuietSpec

(***************************************************************************)
(* No interleaving of in-band writes, retries, crashes and out-of-band     *)
(* calls that leaves attended effects alone records two outcomes of one    *)
(* attempt.                                                                *)
(***************************************************************************)
THEOREM OneOutcomePerAttempt == QuietSpec => []AtMostOneTerminal
  <1>1. TrailInv => AtMostOneTerminal
    BY DEF TrailInv
  <1> QED BY <1>1, TrailInductive, PTL

(***************************************************************************)
(* Every COMMIT tells of an act that took place, every ABORT of one that   *)
(* did not and never will.                                                 *)
(***************************************************************************)
THEOREM TerminalsNeverLie == QuietSpec => []TerminalsTruthful
  <1>1. TrailInv => TerminalsTruthful
    BY DEF TrailInv
  <1> QED BY <1>1, TrailInductive, PTL

(***************************************************************************)
(* An act that took place is confirmed by a COMMIT or reported in doubt by *)
(* the orphan detector, whatever failed between the act and its receipt.   *)
(***************************************************************************)
THEOREM ActsAccountedFor == QuietSpec => []NoUnaccountedAct
  <1>1. ASSUME TrailInv, NEW i \in performed,
               NEW t \in Positions, Matches(t, i), trail[t].phase # "commit"
        PROVE  FALSE
    BY <1>1 DEF TrailInv, TerminalsTruthful, Matches, ForwardTerminal
  <1>2. ASSUME TrailInv PROVE NoUnaccountedAct
    <2>1. Stored = Positions /\ performed \subseteq Positions
      BY <1>2, Shapes DEF TrailInv, Stored, Positions
    <2>2. \A i \in performed : trail[i].phase = "prepare"
      BY <1>2 DEF TrailInv, WorldOK
    <2> QED BY <1>1, <1>2, <2>1, <2>2 DEF NoUnaccountedAct, OrphanPrepares
  <1> QED BY <1>2, TrailInductive, PTL

(***************************************************************************)
(* An offset takes place only after its forward act was committed, and a   *)
(* forward effect never gets a second COMPENSATE.                          *)
(***************************************************************************)
THEOREM OffsetsHappenOnce == QuietSpec => []OffsetAtMostOnce
  <1>1. ASSUME TrailInv, NEW c \in offset
        PROVE  /\ trail[c].compensateRef \in performed
               /\ \E t \in 1..(c - 1) : /\ trail[t].phase = "commit"
                                        /\ trail[t].prepareRef = trail[c].compensateRef
               /\ \A d \in Positions :
                     trail[d].phase = "compensate"
                       /\ trail[d].compensateRef = trail[c].compensateRef => d = c
    <2>1. c \in Positions /\ trail[c].phase = "compensate" /\ ReceiptOK(c)
      BY <1>1, Shapes DEF TrailInv, WorldOK, TrailOK
    <2>2. PICK t \in 1..(c - 1) : /\ trail[t].phase = "commit"
                                  /\ trail[t].prepareRef = trail[c].compensateRef
      BY <2>1 DEF ReceiptOK
    <2>3. t \in Positions
      BY <1>1, <2>1, Shapes DEF TrailInv
    <2>4. trail[c].compensateRef \in performed
      BY <1>1, <2>2, <2>3 DEF TrailInv, TerminalsTruthful
    <2>5. \A d \in Positions : trail[d].phase = "compensate"
             /\ trail[d].compensateRef = trail[c].compensateRef => d = c
      BY <1>1, <2>1 DEF TrailInv, OneCompensate
    <2> QED BY <2>2, <2>4, <2>5
  <1>2. TrailInv => OffsetAtMostOnce
    BY <1>1 DEF OffsetAtMostOnce
  <1> QED BY <1>2, TrailInductive, PTL

(***************************************************************************)
(* A COMPENSATE gets at most one terminal; COMPENSATED tells of an offset  *)
(* that took place, and a reconciling COMPENSATION_FAILED of one that did  *)
(* not and never will.                                                     *)
(***************************************************************************)
THEOREM OffsetTerminalsNeverLie == QuietSpec => []OffsetTerminalsTruthful
  <1>1. TrailInv => OffsetTerminalsTruthful
    BY DEF TrailInv
  <1> QED BY <1>1, TrailInductive, PTL
-----------------------------------------------------------------------------
(* The system without the discipline.                                       *)

(* What r says has happened did happen, given a trail and the truth. *)
Confirms(r, rows, acted, undone) ==
    /\ r.phase = "commit" => r.prepareRef \in acted
    /\ r.phase = "compensated" =>
          \E c \in undone : rows[c].compensateRef = r.compensateRef /\ rows[c].compKey = r.compKey

(***************************************************************************)
(* What no race, crash or prune can spoil: a COMMIT is of an act that took *)
(* place and a COMPENSATED of an offset that did, and only an act that     *)
(* took place is ever offset, after its COMPENSATE.                        *)
(***************************************************************************)
ConfirmationsTrue ==
    /\ \A t \in Positions : Confirms(trail[t], trail, performed, offset)
    /\ \A c \in offset : trail[c].phase = "compensate" /\ trail[c].compensateRef \in performed

(* A call under way has established what it will go on from. *)
CallTrue(c, rows, acted, undone) ==
    /\ c.step = "recording" => c.receipt.phase \in Terminal /\ Confirms(c.receipt, rows, acted, undone)
    /\ c.step = "cleared" => c.ref \in acted
    /\ c.step = "offsetting" => rows[c.ref].phase = "compensate"

RaceInv ==
    /\ TypeInv
    /\ \A t \in Positions : Confirms(trail[t], trail, performed, offset)
    /\ \A t \in Positions : trail[t].phase = "compensate" => trail[t].compensateRef \in performed
    /\ \A c \in offset : trail[c].phase = "compensate"
    /\ \A p \in Procs : CallTrue(call[p], trail, performed, offset)

(* The world goes on and the trail stays: what was confirmed stays so. *)
LEMMA ConfirmsStays ==
    ASSUME RaceInv, performed \subseteq performed', offset \subseteq offset',
           \A t \in Positions : trail'[t] = trail[t], NEW r, Confirms(r, trail, performed, offset)
    PROVE  Confirms(r, trail', performed', offset')
  <1>1. offset \subseteq Positions
    BY Shapes DEF RaceInv
  <1> QED BY <1>1 DEF Confirms

(* A step of call p that appends nothing. *)
LEMMA RaceMove ==
    ASSUME RaceInv, TypeInv', trail' = trail, performed \subseteq performed', offset \subseteq offset',
           \A o \in offset' : o \in offset \/ trail[o].phase = "compensate",
           \A q \in Procs : call'[q] = call[q] \/ CallTrue(call'[q], trail', performed', offset')
    PROVE  RaceInv'
  <1>1. \A r : Confirms(r, trail, performed, offset) => Confirms(r, trail', performed', offset')
    BY ConfirmsStays
  <1>2. Positions' = Positions
    BY DEF Positions
  <1>3. \A t \in Positions : Confirms(trail'[t], trail', performed', offset')
    BY <1>1 DEF RaceInv
  <1>4. \A q \in Procs : CallTrue(call'[q], trail', performed', offset')
    <2> SUFFICES ASSUME NEW q \in Procs, call'[q] = call[q] PROVE CallTrue(call'[q], trail', performed', offset')
      OBVIOUS
    <2>1. CallTrue(call[q], trail, performed, offset)
      BY DEF RaceInv
    <2>2. PICK c : c = call[q]
      OBVIOUS
    <2>3. CallTrue(c, trail', performed', offset')
      BY <1>1, <2>1, <2>2 DEF CallTrue
    <2> QED BY <2>2, <2>3
  <1>5. \A t \in Positions : trail'[t].phase = "compensate" => trail'[t].compensateRef \in performed'
    BY DEF RaceInv
  <1>6. \A c \in offset' : trail'[c].phase = "compensate"
    BY DEF RaceInv
  <1> QED BY <1>2, <1>3, <1>4, <1>5, <1>6 DEF RaceInv

(* A step of call p that appends receipt r. *)
LEMMA RaceAppend ==
    ASSUME RaceInv, TypeInv', NEW p \in Procs, NEW c, Become(p, c), NEW r \in Receipt,
           trail' = Append(trail, r), performed' = performed, offset' = offset,
           Confirms(r, trail, performed, offset), r.phase = "compensate" => r.compensateRef \in performed,
           \/ c = Idle
           \/ c.step = "acting"
           \/ c.step = "offsetting" /\ c.ref = Len(trail) + 1 /\ r.phase = "compensate"
    PROVE  RaceInv'
  <1>1. /\ Len(trail) \in Nat /\ Positions = 1..Len(trail) /\ offset \subseteq Positions
        /\ \A q \in Procs : call[q].step = "offsetting" => call[q].ref \in Positions
    BY Shapes DEF RaceInv
  <1>2. trail \in Seq(Receipt) /\ call \in [Procs -> Call]
    BY DEF RaceInv, TypeInv, TypeOK
  <1>3. /\ Len(trail') = Len(trail) + 1 /\ trail'[Len(trail) + 1] = r
        /\ \A t \in Positions : trail'[t] = trail[t]
    <2> HIDE DEF Receipt
    <2> QED BY <1>1, <1>2, AppendProperties
  <1>4. Positions' = Positions \cup {Len(trail) + 1}
    BY <1>1, <1>3 DEF Positions
  <1>5. \A x : Confirms(x, trail, performed, offset) => Confirms(x, trail', performed', offset')
    BY <1>3, ConfirmsStays
  <1>6. \A t \in Positions' : Confirms(trail'[t], trail', performed', offset')
    BY <1>3, <1>4, <1>5 DEF RaceInv
  <1>7. \A t \in Positions' : trail'[t].phase = "compensate" => trail'[t].compensateRef \in performed'
    BY <1>3, <1>4 DEF RaceInv
  <1>8. \A o \in offset' : trail'[o].phase = "compensate"
    BY <1>1, <1>3 DEF RaceInv
  <1>9. ASSUME NEW q \in Procs PROVE CallTrue(call'[q], trail', performed', offset')
    <2>1. CASE q # p
      <3>1. PICK d : d = call[q]
        OBVIOUS
      <3>2. call'[q] = d /\ CallTrue(d, trail, performed, offset) /\ (d.step = "offsetting" => d.ref \in Positions)
        BY <1>1, <1>2, <2>1, <3>1 DEF RaceInv, Become
      <3>3. CallTrue(d, trail', performed', offset')
        BY <1>3, <1>5, <3>2 DEF CallTrue
      <3> QED BY <3>2, <3>3
    <2>2. CASE q = p
      <3>1. call'[q] = c
        BY <1>2, <2>2 DEF Become
      <3>2. CallTrue(c, trail', performed', offset')
        BY <1>3 DEF CallTrue, Idle
      <3> QED BY <3>1, <3>2
    <2> QED BY <2>1, <2>2
  <1> QED BY <1>6, <1>7, <1>8, <1>9 DEF RaceInv

(* A call becomes what it may become, and no other call is touched. *)
LEMMA RaceBecomes ==
    ASSUME RaceInv, TypeInv', NEW p \in Procs, NEW c, Become(p, c), trail' = trail,
           performed \subseteq performed', offset \subseteq offset',
           \A o \in offset' : o \in offset \/ trail[o].phase = "compensate",
           CallTrue(c, trail', performed', offset')
    PROVE  RaceInv'
  <1>1. call \in [Procs -> Call]
    BY DEF RaceInv, TypeInv, TypeOK
  <1>2. \A q \in Procs : call'[q] = call[q] \/ call'[q] = c
    BY <1>1 DEF Become
  <1> QED BY <1>2, RaceMove

(* A terminal that is about to be written is true, if it confirms anything. *)
LEMMA RaceTerminal ==
    ASSUME RaceInv, trail' = trail, NEW i \in Positions, NEW by, NEW grade, NEW r,
           \/ r = ForwardReceipt(i, "commit", by, grade) /\ i \in performed'
           \/ r = ForwardReceipt(i, "abort", by, grade)
           \/ r = OffsetReceipt(i, "compensated", by, grade) /\ i \in offset'
           \/ r = OffsetReceipt(i, "compensation_failed", by, grade)
    PROVE  CallTrue(Recording(r), trail', performed', offset')
  <1>1. PICK phase : /\ r = ForwardReceipt(i, phase, by, grade) \/ r = OffsetReceipt(i, phase, by, grade)
                     /\ \/ r = ForwardReceipt(i, phase, by, grade) /\ phase = "commit" /\ i \in performed'
                        \/ r = OffsetReceipt(i, phase, by, grade) /\ phase = "compensated" /\ i \in offset'
                        \/ phase \in {"abort", "compensation_failed"}
    OBVIOUS
  <1>2. TypeInv
    BY DEF RaceInv
  <1>3. /\ r.phase = phase
        /\ r = ForwardReceipt(i, phase, by, grade) => r.prepareRef = i
        /\ r = OffsetReceipt(i, phase, by, grade) =>
              r.compensateRef = trail[i].compensateRef /\ r.compKey = trail[i].compKey
    BY <1>1, <1>2, TerminalFields
  <1>4. Confirms(r, trail', performed', offset')
    BY <1>1, <1>3 DEF Confirms
  <1>5. r.phase \in Terminal
    BY <1>1, <1>3 DEF Terminal, ForwardTerminal, OffsetTerminal
  <1> QED BY <1>4, <1>5 DEF CallTrue, Recording

(* Every step of a call under way. *)
LEMMA RaceStep ==
    ASSUME RaceInv, TypeInv', NEW p \in Procs, Step(p)
    PROVE  RaceInv'
  <1>1. /\ call[p] \in Call /\ Len(trail) \in Nat /\ Positions = 1..Len(trail)
        /\ call[p].step \in {"acting", "cleared", "offsetting"} => call[p].ref \in Positions
        /\ call[p].step = "recording" => call[p].receipt \in Receipt
        /\ CallTrue(call[p], trail, performed, offset)
    BY Shapes DEF RaceInv
  <1>2. PICK i, me : i = call[p].ref /\ me = call[p]
    OBVIOUS
  <1>3. CallTrue(Idle, trail', performed', offset')
    BY DEF CallTrue, Idle
  <1>4. CASE RecordWritten(p)
    <2>1. Confirms(me.receipt, trail, performed, offset) /\ me.receipt \in Receipt
      BY <1>1, <1>2, <1>4 DEF RecordWritten, CallTrue
    <2>2. me.receipt.phase = "compensate" => me.receipt.compensateRef \in performed
      BY <1>1, <1>2, <1>4 DEF RecordWritten, CallTrue, Terminal, ForwardTerminal, OffsetTerminal
    <2> QED BY <1>2, <1>4, <2>1, <2>2, RaceAppend DEF RecordWritten
  <1>5. CASE RecordTransientError(p)
    <2>1. PICK c : c = IF me.left = 1 THEN Idle ELSE [me EXCEPT !.left = @ - 1]
      OBVIOUS
    <2>2. Become(p, c) /\ me.step = "recording" /\ trail' = trail /\ performed' = performed /\ offset' = offset
      BY <1>2, <1>5, <2>1 DEF RecordTransientError
    <2>3. Confirms(me.receipt, trail, performed, offset) /\ me.receipt.phase \in Terminal
      BY <1>1, <1>2, <2>2 DEF CallTrue
    <2>4. Confirms(me.receipt, trail', performed', offset')
      BY <2>2, <2>3 DEF Confirms
    <2>5. c = Idle \/ (c.step = "recording" /\ c.receipt = me.receipt)
      BY <1>1, <1>2, <2>1, <2>2, CallFields DEF Call
    <2>6. CallTrue(c, trail', performed', offset')
      BY <1>3, <2>3, <2>4, <2>5 DEF CallTrue
    <2> QED BY <2>2, <2>6, RaceBecomes
  <1>6. CASE RecordFatalError(p)
    BY <1>3, <1>6, RaceBecomes DEF RecordFatalError
  <1>7. CASE EffectReturns(p) \/ EffectNotPerformed(p)
    <2>1. PICK r : /\ Become(p, Recording(r)) /\ trail' = trail /\ performed \subseteq performed' /\ offset' = offset
                   /\ \/ r = ForwardReceipt(i, "commit", "in_band", "none") /\ i \in performed'
                      \/ r = ForwardReceipt(i, "abort", "in_band", "none")
      BY <1>2, <1>7 DEF EffectReturns, EffectNotPerformed
    <2>2. i \in Positions
      BY <1>1, <1>2, <1>7 DEF EffectReturns, EffectNotPerformed
    <2>3. CallTrue(Recording(r), trail', performed', offset')
      BY <2>1, <2>2, RaceTerminal
    <2>4. PICK c : c = Recording(r)
      OBVIOUS
    <2>5. Become(p, c) /\ CallTrue(c, trail', performed', offset')
      BY <2>1, <2>3, <2>4 DEF Recording
    <2> QED BY <2>1, <2>5, RaceBecomes
  <1>8. CASE EffectRaises(p)
    BY <1>3, <1>8, RaceBecomes DEF EffectRaises
  <1>9. CASE CompensateIntent(p)
    <2>1. PICK r : r = [phase |-> "compensate", class |-> "reversible",
                        key |-> trail[call[p].ref].key, prepareRef |-> 0,
                        compensateRef |-> call[p].ref, compKey |-> call[p].compKey,
                        by |-> "in_band", grade |-> "none"]
      OBVIOUS
    <2>2. trail' = Append(trail, r) /\ performed' = performed /\ offset' = offset
          /\ Become(p, [step |-> "offsetting", ref |-> Len(trail) + 1])
      BY <1>9, <2>1 DEF CompensateIntent
    <2>3. r.phase = "compensate" /\ r.compensateRef = i /\ Confirms(r, trail, performed, offset)
      BY <1>2, <2>1 DEF Confirms
    <2>4. i \in performed
      BY <1>1, <1>2, <1>9 DEF CompensateIntent, CallTrue
    <2>5. r \in Receipt
      <3>1. trail[i] \in Receipt /\ i \in Positions
        BY <1>1, <1>2, <1>9, Shapes DEF CompensateIntent, RaceInv
      <3>2. trail[i].key \in Keys
        BY <3>1 DEF Receipt
      <3>3. call[p].compKey \in Keys /\ i \in 1..MaxTrail
        BY <1>1, <1>2, <1>9, CallFields DEF CompensateIntent
      <3>4. i \in Ref /\ 0 \in Ref
        BY <3>3, AttemptsAssumption DEF Ref
      <3> QED BY <1>2, <2>1, <3>2, <3>3, <3>4 DEF Receipt, Class
    <2>6. PICK c : c = [step |-> "offsetting", ref |-> Len(trail) + 1]
      OBVIOUS
    <2> QED BY <2>2, <2>3, <2>4, <2>5, <2>6, RaceAppend
  <1>10. CASE OffsetReturns(p) \/ OffsetRaises(p)
    <2>1. PICK r : /\ Become(p, Recording(r)) /\ trail' = trail /\ performed' = performed
                   /\ offset \subseteq offset' /\ offset' \subseteq offset \cup {i}
                   /\ \/ r = OffsetReceipt(i, "compensated", "in_band", "none") /\ i \in offset'
                      \/ r = OffsetReceipt(i, "compensation_failed", "in_band", "none")
      BY <1>2, <1>10 DEF OffsetReturns, OffsetRaises
    <2>2. i \in Positions /\ trail[i].phase = "compensate"
      BY <1>1, <1>2, <1>10 DEF OffsetReturns, OffsetRaises, CallTrue
    <2>3. CallTrue(Recording(r), trail', performed', offset')
      BY <2>1, <2>2, RaceTerminal
    <2>4. PICK c : c = Recording(r)
      OBVIOUS
    <2>5. Become(p, c) /\ CallTrue(c, trail', performed', offset')
      BY <2>1, <2>3, <2>4 DEF Recording
    <2> QED BY <2>1, <2>2, <2>5, RaceBecomes
  <1>11. CASE CompensateIntentFails(p)
    BY <1>3, <1>11, RaceBecomes DEF CompensateIntentFails
  <1> QED BY <1>4, <1>5, <1>6, <1>7, <1>8, <1>9, <1>10, <1>11 DEF Step

(* The calls that begin: a governed effect, or one out of band. *)
LEMMA RaceBegins ==
    ASSUME RaceInv, TypeInv', NEW p \in Procs, Execute(p) \/ \E i \in Stored : OutOfBand(p, i)
    PROVE  RaceInv'
  <1>0. Stored \subseteq Positions /\ Len(trail) \in Nat
    <2>1. base \in Nat /\ Len(trail) \in Nat
      BY Shapes DEF RaceInv, TypeInv, TypeOK
    <2> QED BY <2>1 DEF Stored, Positions
  <1>1. ASSUME NEW class \in Class, NEW key \in Keys, Prepare(p, class, key) PROVE RaceInv'
    <2>1. PICK r : r = [phase |-> "prepare", class |-> class, key |-> key,
                        prepareRef |-> 0, compensateRef |-> 0, compKey |-> NoKey,
                        by |-> "in_band", grade |-> "none"]
      OBVIOUS
    <2>2. trail' = Append(trail, r) /\ performed' = performed /\ offset' = offset
          /\ Become(p, [step |-> "acting", ref |-> Len(trail) + 1])
      BY <1>1, <2>1 DEF Prepare
    <2>3. r.phase = "prepare" /\ Confirms(r, trail, performed, offset)
      BY <2>1 DEF Confirms
    <2>4. 0 \in Ref
      BY AttemptsAssumption DEF Ref
    <2>5. r \in Receipt
      BY <2>1, <2>4 DEF Receipt
    <2>6. PICK c : c = [step |-> "acting", ref |-> Len(trail) + 1]
      OBVIOUS
    <2> QED BY <2>2, <2>3, <2>5, <2>6, RaceAppend
  <1>2. ASSUME NEW i \in Stored, NEW grade \in Grades, ReconcileForward(p, i, grade) PROVE RaceInv'
    <2>1. PICK r : /\ Become(p, Recording(r)) /\ trail' = trail /\ performed' = performed /\ offset' = offset
                   /\ \/ r = ForwardReceipt(i, "commit", "reconciled", grade) /\ i \in performed'
                      \/ r = ForwardReceipt(i, "abort", "reconciled", grade)
      BY <1>2 DEF ReconcileForward
    <2>2. CallTrue(Recording(r), trail', performed', offset')
      BY <1>0, <2>1, RaceTerminal
    <2>3. PICK c : c = Recording(r)
      OBVIOUS
    <2>4. Become(p, c) /\ CallTrue(c, trail', performed', offset')
      BY <2>1, <2>2, <2>3 DEF Recording
    <2> QED BY <2>1, <2>4, RaceBecomes
  <1>3. ASSUME NEW i \in Stored, NEW key \in Keys, CompensateCheck(p, i, key) PROVE RaceInv'
    <2>1. PICK t \in CommittedForward(i) : TRUE
      BY <1>3 DEF CompensateCheck
    <2>2. t \in Positions /\ trail[t].phase = "commit" /\ trail[t].prepareRef = i
      BY <1>0, <2>1 DEF CommittedForward
    <2>3. i \in performed
      BY <2>2 DEF RaceInv, Confirms
    <2>4. PICK c : c = [step |-> "cleared", ref |-> i, compKey |-> key]
      OBVIOUS
    <2>5. Become(p, c) /\ trail' = trail /\ performed' = performed /\ offset' = offset
      BY <1>3, <2>4 DEF CompensateCheck
    <2>6. CallTrue(c, trail', performed', offset')
      BY <2>3, <2>4, <2>5 DEF CallTrue
    <2> QED BY <2>5, <2>6, RaceBecomes
  <1>4. ASSUME NEW i \in Stored, NEW grade \in Grades, ReconcileCompensation(p, i, grade) PROVE RaceInv'
    <2>1. PICK r : /\ Become(p, Recording(r)) /\ trail' = trail /\ performed' = performed /\ offset' = offset
                   /\ \/ r = OffsetReceipt(i, "compensated", "reconciled", grade) /\ i \in offset'
                      \/ r = OffsetReceipt(i, "compensation_failed", "reconciled", grade)
      BY <1>4 DEF ReconcileCompensation
    <2>2. CallTrue(Recording(r), trail', performed', offset')
      BY <1>0, <2>1, RaceTerminal
    <2>3. PICK c : c = Recording(r)
      OBVIOUS
    <2>4. Become(p, c) /\ CallTrue(c, trail', performed', offset')
      BY <2>1, <2>2, <2>3 DEF Recording
    <2> QED BY <2>1, <2>4, RaceBecomes
  <1> QED BY <1>1, <1>2, <1>3, <1>4 DEF Execute, OutOfBand

(* The process dies while acts and offsets are under way. *)
LEMMA RaceCrash ==
    ASSUME RaceInv, TypeInv', Crash
    PROVE  RaceInv'
  <1>1. \A o \in InFlight("offsetting") : trail[o].phase = "compensate"
    BY DEF InFlight, RaceInv, CallTrue
  <1>2. /\ trail' = trail /\ performed \subseteq performed' /\ offset \subseteq offset'
        /\ \A o \in offset' : o \in offset \/ o \in InFlight("offsetting")
    BY DEF Crash
  <1>3. CallTrue(Idle, trail', performed', offset')
    BY DEF CallTrue, Idle
  <1>4. \A q \in Procs : call'[q] = Idle
    BY DEF Crash
  <1> QED BY <1>1, <1>2, <1>3, <1>4, RaceMove

(***************************************************************************)
(* With no discipline at all, and prunes at any moment, the trail never    *)
(* confirms what did not happen: reconciliations and compensations that    *)
(* race with calls under way can leave a second terminal, or an ABORT of   *)
(* an act that took place, but no COMMIT or COMPENSATED is false.          *)
(***************************************************************************)
THEOREM ConfirmationsNeverLie ==
    Init /\ [][Next \/ \E k \in Stored : PruneEpoch(k)]_vars => []ConfirmationsTrue
  <1>1. ASSUME Init PROVE RaceInv
    <2>1. TypeInv
      BY <1>1, TypeInductive
    <2>2. Positions = {} /\ offset = {} /\ \A p \in Procs : call[p] = Idle
      BY <1>1 DEF Init, Positions
    <2> QED BY <2>1, <2>2 DEF RaceInv, CallTrue, Idle
  <1>2. ASSUME RaceInv, [Next \/ \E k \in Stored : PruneEpoch(k)]_vars PROVE RaceInv'
    <2>1. TypeInv'
      BY <1>2, TypeInductive DEF RaceInv
    <2>2. ASSUME UNCHANGED <<trail, performed, offset, call>> PROVE RaceInv'
      BY <1>2, <2>1, <2>2, RaceMove
    <2>3. CASE \E k \in Stored : PruneEpoch(k)
      BY <2>2, <2>3 DEF PruneEpoch
    <2>4. CASE UNCHANGED vars
      BY <2>2, <2>4 DEF vars
    <2>5. CASE Next
      BY <1>2, <2>1, <2>5, RaceCrash, RaceStep, RaceBegins DEF Next
    <2> QED BY <1>2, <2>3, <2>4, <2>5
  <1>3. ASSUME RaceInv PROVE ConfirmationsTrue
    BY <1>3, Shapes DEF RaceInv, ConfirmationsTrue
  <1> QED BY <1>1, <1>2, <1>3, PTL
=============================================================================
