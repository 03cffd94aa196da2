---------------------------- MODULE KernelProofs ----------------------------
(***************************************************************************)
(* Theorems about Kernel, for any requests, settings and bounds.           *)
(*                                                                         *)
(* What a reopened file shows is the chain up to the outermost open seam,  *)
(* so a property of the file is not inductive: each seam must be ready to  *)
(* be rolled back to, with the seams below it still open.  The invariant   *)
(* therefore speaks of every level, the prefix of the chain at each mark   *)
(* and the whole chain, and names the calls that hold the seams.           *)
(*                                                                         *)
(* All but one of the theorems hold whatever calls an effect makes from    *)
(* inside a seam (FreeSpec); that decisions precede effects needs the      *)
(* restriction to revocable calls, in Next.                                *)
(***************************************************************************)
EXTENDS Kernel, SequenceTheorems, TLAPS

-----------------------------------------------------------------------------
(* The calls that hold the seams.                                           *)

CallAt(k) == stack[k].call
ClassAt(k) == calls[stack[k].call].class

Holds(k) == ClassAt(k) = "ATOMIC" /\ stack[k].step \in {"effect", "succeeding", "releasing"}

(* The calls own hold the seams, one each, outer ones first. *)
SeamsOK(own) ==
    /\ own \in Seq(Nat) /\ Len(own) = Len(marks)
    /\ \A j \in 1..Len(own) : \A h \in 1..(j - 1) : own[h] < own[j]
    /\ \A j \in 1..Len(own) : \E k \in 1..Len(stack) : Holds(k) /\ CallAt(k) = own[j]
    /\ \A k \in 1..Len(stack) : Holds(k) => \E j \in 1..Len(own) : own[j] = CallAt(k)

(* Which steps a call of each class goes through. *)
StepFits(step, class) ==
    /\ step = "effect" => class # "none"
    /\ step \in {"succeeding", "releasing", "aborting"} => class = "ATOMIC"
    /\ step = "committing" => class = "EXTERNAL"
    /\ step = "failing" => class \in {"NON_ATOMIC", "EXTERNAL"}

(* The stack: each call was made by the effect of the one below it. *)
StackOK ==
    /\ \A k \in 1..Len(stack) :
          /\ calls[CallAt(k)].result = "open"
          /\ calls[CallAt(k)].parent = IF k = 1 THEN 0 ELSE CallAt(k - 1)
          /\ k < Len(stack) => stack[k].step = "effect"
          /\ StepFits(stack[k].step, ClassAt(k))
          /\ stack[k].step # "admitted" /\ calls[CallAt(k)].strict => CallAt(k) \in warrants
          /\ \A j \in 1..(k - 1) : CallAt(j) < CallAt(k)
    /\ \A i \in 1..Len(calls) :
          calls[i].result = "open" => \E k \in 1..Len(stack) : CallAt(k) = i

(* Marks are chain lengths, outer seams first. *)
MarksOK ==
    /\ \A j \in 1..Len(marks) : marks[j] <= Len(chain)
    /\ \A j \in 1..Len(marks) : \A k \in 1..j : marks[k] <= marks[j]

-----------------------------------------------------------------------------
(* What the rows say.                                                       *)

(* The row of call i of the given kind is among the first n. *)
Written(n, i, kind) == \E k \in 1..n : chain[k] = [call |-> i, kind |-> kind]

(* Call i, or a call its effect made, has left more than its decision there. *)
Touched(n, i) ==
    \/ Written(n, i, "effect")
    \/ \E k \in 1..n : chain[k].call > 0 /\ calls[chain[k].call].parent = i

(* Of call i the first n rows hold its decision at most. *)
OnlyDecided(n, i) == \A k \in 1..n : chain[k].call = i => chain[k].kind = "gate_admit"

(* The first n rows tell a consistent story of call i. *)
Settled(n, i) ==
    /\ calls[i].class = "ATOMIC" =>
          /\ Touched(n, i) => Written(n, i, "success")
          /\ ~(Written(n, i, "success") /\ Written(n, i, "abort"))
    /\ calls[i].class # "NON_ATOMIC" /\ (Written(n, i, "success") \/ Written(n, i, "commit"))
          => calls[i].result = "returned"

(* Level j is what a rollback to seam j would leave; the last level is the chain. *)
LevelEnd(j) == IF j <= Len(marks) THEN marks[j] ELSE Len(chain)

(* Every level settles every call but those that hold the seams below it. *)
LevelsOK(own) ==
    \A j \in 1..(Len(marks) + 1) : \A i \in 1..Len(calls) :
        (\A h \in 1..(j - 1) : own[h] # i) => Settled(LevelEnd(j), i)

(* Rows name calls made, and decisions are of calls. *)
RowCallsOK ==
    \A k \in 1..Len(chain) : /\ chain[k].call <= Len(calls)
                             /\ chain[k].kind = "gate_admit" => chain[k].call > 0

(* A call that holds a seam has written nothing but its decision below it. *)
SeamRowsOK(own) ==
    \A j \in 1..Len(marks) : /\ OnlyDecided(marks[j], own[j])
                             /\ ~Written(Len(chain), own[j], "abort")

(* What the call now under way has written. *)
TopRowsOK ==
    stack # <<>> =>
        /\ Top.step \in {"admitted", "ready", "aborting"} => OnlyDecided(Len(chain), Me)
        /\ Top.step \in {"admitted", "ready"} => Written(Len(chain), Me, "gate_admit")
        /\ Top.step = "releasing" => Written(Len(chain), Me, "success")

RowsOK == RowCallsOK /\ TopRowsOK

(* What the file, the first level, shows. *)
FileOK ==
    /\ \A k \in 1..Len(stack) :
          calls[CallAt(k)].parent = 0 /\ ClassAt(k) = "NON_ATOMIC" /\ stack[k].step \in {"effect", "failing"}
              => Written(LevelEnd(1), CallAt(k), "success")
    /\ \A i \in 1..Len(calls) :
          calls[i].result = "returned" /\ calls[i].parent = 0
              => Written(LevelEnd(1), i, "success") \/ Written(LevelEnd(1), i, "commit")
    /\ status = "ACTIVE" => \E k \in 1..LevelEnd(1) : chain[k].kind = "legend_seal"

(* The terms of admission that outlive it. *)
AdmissionOK ==
    /\ Len(calls) <= MaxCalls
    /\ \A i \in 1..Len(calls) : calls[i].parent < i /\ (calls[i].strict => calls[i].warrant)

(* The invariant, given the calls that hold the seams. *)
InvOf(own) ==
    /\ TypeOK
    /\ AdmissionOK
    /\ StackOK
    /\ SeamsOK(own)
    /\ MarksOK
    /\ RowsOK
    /\ SeamRowsOK(own)
    /\ LevelsOK(own)
    /\ FileOK
    /\ FoundedBeforeGoverned
    /\ WarrantBeforeEffect

KernelInv == \E own : InvOf(own)

-----------------------------------------------------------------------------
(* Shapes, without the sets they come from.                                 *)

(* What the types say of rows, frames, calls and marks. *)
LEMMA KernelShapes ==
    ASSUME TypeOK
    PROVE  /\ Len(chain) \in Nat /\ Len(marks) \in Nat /\ Len(stack) \in Nat /\ Len(calls) \in Nat
           /\ \A k \in 1..Len(chain) : /\ chain[k].call \in Nat /\ chain[k].kind \in Kind
                                       /\ chain[k] = [call |-> chain[k].call, kind |-> chain[k].kind]
           /\ \A j \in 1..Len(marks) : marks[j] \in 0..Len(chain)
           /\ \A k \in 1..Len(stack) : /\ stack[k].call \in 1..Len(calls) /\ stack[k].step \in Step
                                       /\ stack[k] = [call |-> stack[k].call, step |-> stack[k].step]
           /\ \A i \in 1..Len(calls) :
                 /\ calls[i].parent \in Nat /\ calls[i].class \in EffectClass
                 /\ calls[i].governed \in BOOLEAN /\ calls[i].warrant \in BOOLEAN
                 /\ calls[i].strict \in BOOLEAN
                 /\ calls[i].result \in {"open", "returned", "raised"}
           /\ stack = <<>> <=> Len(stack) = 0
           /\ marks = <<>> <=> Len(marks) = 0
  <1>1. /\ chain \in Seq([call : 0..MaxCalls, kind : Kind]) /\ MaxCalls \in Nat
        /\ marks \in Seq(0..Len(chain))
        /\ stack \in Seq([call : 1..Len(calls), step : Step])
        /\ calls \in Seq([parent : 0..MaxCalls, governed : BOOLEAN, class : EffectClass,
                          warrant : BOOLEAN, strict : BOOLEAN,
                          result : {"open", "returned", "raised"}])
    BY BoundsAssumption DEF TypeOK
  <1>2. /\ stack = <<>> <=> Len(stack) = 0
        /\ marks = <<>> <=> Len(marks) = 0
    BY <1>1, EmptySeq
  <1>3. \A k \in 1..Len(chain) : chain[k] \in [call : 0..MaxCalls, kind : Kind]
    BY <1>1, ElementOfSeq, Zenon
  <1>4. \A k \in 1..Len(stack) : stack[k] \in [call : 1..Len(calls), step : Step]
    BY <1>1, ElementOfSeq, Zenon
  <1>5. \A i \in 1..Len(calls) :
           calls[i] \in [parent : 0..MaxCalls, governed : BOOLEAN, class : EffectClass,
                         warrant : BOOLEAN, strict : BOOLEAN,
                         result : {"open", "returned", "raised"}]
    BY <1>1, ElementOfSeq, Zenon
  <1>6. \A j \in 1..Len(marks) : marks[j] \in 0..Len(chain)
    BY <1>1
  <1> QED BY <1>1, <1>2, <1>3, <1>4, <1>5, <1>6, SMTT(20)

(* Levels lie in the chain, outer ones first. *)
LEMMA LevelBounds ==
    ASSUME TypeOK, MarksOK
    PROVE  /\ \A j \in 1..(Len(marks) + 1) : LevelEnd(j) \in 0..Len(chain)
           /\ \A j \in 1..(Len(marks) + 1) : LevelEnd(1) <= LevelEnd(j)
           /\ LevelEnd(Len(marks) + 1) = Len(chain)
           /\ Len(marks) = 0 => LevelEnd(1) = Len(chain)
  <1>1. /\ Len(chain) \in Nat /\ Len(marks) \in Nat
        /\ \A j \in 1..Len(marks) : marks[j] \in 0..Len(chain)
    BY KernelShapes
  <1>2. \A j \in 1..Len(marks) : marks[1] <= marks[j]
    BY <1>1 DEF MarksOK
  <1> QED BY <1>1, <1>2 DEF LevelEnd

-----------------------------------------------------------------------------
(* What a step keeps.                                                       *)

(* A call keeps its terms for ever, and its result once it has one. *)
CallsEvolve ==
    /\ Len(calls') \in Nat /\ Len(calls) <= Len(calls')
    /\ \A i \in 1..Len(calls) :
          /\ calls'[i].class = calls[i].class
          /\ calls'[i].parent = calls[i].parent
          /\ calls'[i].governed = calls[i].governed
          /\ calls'[i].warrant = calls[i].warrant
          /\ calls'[i].strict = calls[i].strict
          /\ calls'[i].result = calls[i].result \/ calls[i].result = "open"

(* The first n rows stay. *)
RowsStay(n) == \A k \in 1..n : chain'[k] = chain[k]

(* Rows that stay say what they said. *)
LEMMA WrittenKept ==
    ASSUME NEW n, RowsStay(n), NEW i, NEW kind
    PROVE  /\ Written(n, i, kind)' <=> Written(n, i, kind)
           /\ OnlyDecided(n, i)' <=> OnlyDecided(n, i)
  BY DEF RowsStay, Written, OnlyDecided

(* A level that stays goes on to settle what it settled. *)
LEMMA SettledKept ==
    ASSUME TypeOK, RowsOK, CallsEvolve, NEW n \in 0..Len(chain), RowsStay(n),
           NEW i \in 1..Len(calls), Settled(n, i)
    PROVE  Settled(n, i)'
  <1>1. \A k \in 1..n : /\ chain'[k] = chain[k] /\ chain[k].call \in Nat
                        /\ chain[k].call > 0 => chain[k].call \in 1..Len(calls)
    <2>1. \A k \in 1..Len(chain) : chain[k].call \in Nat /\ chain[k].call <= Len(calls)
      BY KernelShapes DEF RowsOK, RowCallsOK
    <2>2. Len(chain) \in Nat /\ Len(calls) \in Nat
      BY KernelShapes
    <2> QED BY <2>1, <2>2 DEF RowsStay
  <1>2. Touched(n, i)' => Touched(n, i)
    <2>1. Written(n, i, "effect")' => Written(n, i, "effect")
      BY WrittenKept
    <2>2. ASSUME NEW k \in 1..n, chain'[k].call > 0, calls'[chain'[k].call].parent = i
          PROVE  chain[k].call > 0 /\ calls[chain[k].call].parent = i
      BY <1>1, <2>2 DEF CallsEvolve
    <2> QED BY <2>1, <2>2 DEF Touched
  <1>3. /\ Written(n, i, "success")' <=> Written(n, i, "success")
        /\ Written(n, i, "abort")' <=> Written(n, i, "abort")
        /\ Written(n, i, "commit")' <=> Written(n, i, "commit")
    BY WrittenKept
  <1>4. calls'[i].class = calls[i].class /\ (calls'[i].result = calls[i].result \/ calls[i].result = "open")
    BY DEF CallsEvolve
  <1> QED BY <1>2, <1>3, <1>4 DEF Settled

(* A call admitted after the first n rows were written is settled by them. *)
LEMMA SettledFresh ==
    ASSUME TypeOK, RowsOK, AdmissionOK, CallsEvolve, NEW n \in 0..Len(chain), RowsStay(n),
           NEW i \in Nat, i > Len(calls)
    PROVE  Settled(n, i)'
  <1>1. \A k \in 1..n : /\ chain'[k] = chain[k] /\ chain[k].call \in 0..Len(calls)
                        /\ chain[k].call > 0 => chain[k].call \in 1..Len(calls)
    <2>1. \A k \in 1..Len(chain) : chain[k].call \in Nat /\ chain[k].call <= Len(calls)
      BY KernelShapes DEF RowsOK, RowCallsOK
    <2>2. Len(chain) \in Nat /\ Len(calls) \in Nat
      BY KernelShapes
    <2> QED BY <2>1, <2>2 DEF RowsStay
  <1>2. \A kind : ~Written(n, i, kind)'
    BY <1>1, KernelShapes DEF Written
  <1>3. ASSUME NEW k \in 1..n, chain'[k].call > 0 PROVE calls'[chain'[k].call].parent # i
    <2>1. Len(calls) \in Nat /\ \A c \in 1..Len(calls) : calls[c].parent \in Nat
      BY KernelShapes
    <2>2. \A c \in 1..Len(calls) : calls'[c].parent # i
      BY <2>1 DEF CallsEvolve, AdmissionOK
    <2> QED BY <1>1, <1>3, <2>2
  <1> QED BY <1>2, <1>3 DEF Settled, Touched

-----------------------------------------------------------------------------
(* The stack.                                                               *)

CallRecord ==
    [parent : 0..MaxCalls, governed : BOOLEAN, class : EffectClass, warrant : BOOLEAN,
     strict : BOOLEAN, result : {"open", "returned", "raised"}]

(* The stack and the calls after the top call moved to another step. *)
LEMMA GotoShape ==
    ASSUME TypeOK, stack # <<>>, NEW s \in Step, NEW m, m = Me, NEW L, L = Len(stack), Goto(s)
    PROVE  /\ L \in Nat \ {0} /\ m \in 1..Len(calls) /\ stack[L].call = m /\ Top.step = stack[L].step
           /\ Len(stack') = L /\ stack'[L].call = m /\ stack'[L].step = s
           /\ \A k \in 1..(L - 1) : stack'[k] = stack[k]
           /\ stack' \in Seq([call : 1..Len(calls'), step : Step])
           /\ calls' = calls /\ CallsEvolve
  <1>1. stack \in Seq([call : 1..Len(calls), step : Step])
    BY DEF TypeOK
  <1>2. L \in Nat \ {0} /\ m = stack[L].call /\ stack[L] \in [call : 1..Len(calls), step : Step]
    <2>1. L \in Nat \ {0}
      BY KernelShapes
    <2>2. L \in 1..Len(stack)
      BY <2>1
    <2>3. stack[L] \in [call : 1..Len(calls), step : Step]
      BY <1>1, <2>2, ElementOfSeq, Zenon
    <2> QED BY <2>1, <2>3 DEF Me, Top
  <1>3. /\ stack' = [stack EXCEPT ![L] = [stack[L] EXCEPT !.step = s]] /\ calls' = calls
    BY DEF Goto
  <1>4. PICK f : f = [stack[L] EXCEPT !.step = s]
    OBVIOUS
  <1>5. f \in [call : 1..Len(calls), step : Step] /\ f.call = m /\ f.step = s
    BY <1>2, <1>4
  <1>6. /\ Len(stack') = L /\ stack'[L] = f /\ \A k \in 1..(L - 1) : stack'[k] = stack[k]
        /\ stack' \in Seq([call : 1..Len(calls), step : Step])
    <2> DEFINE F == [call : 1..Len(calls), step : Step]
    <2>1. stack \in Seq(F) /\ f \in F /\ L \in 1..Len(stack) /\ Len(stack) = L
      BY <1>1, <1>2, <1>5
    <2>2. stack' = [stack EXCEPT ![L] = f]
      BY <1>3, <1>4
    <2> HIDE DEF F
    <2>3. stack' \in Seq(F) /\ Len(stack') = L /\ stack'[L] = f
          /\ \A k \in 1..(L - 1) : stack'[k] = stack[k]
      BY <2>1, <2>2
    <2> QED BY <2>3 DEF F
  <1>7. CallsEvolve
    BY <1>3, KernelShapes DEF CallsEvolve
  <1> QED BY <1>2, <1>3, <1>5, <1>6, <1>7 DEF Top

(* The stack and the calls after the top call left execute(). *)
LEMMA FinishShape ==
    ASSUME TypeOK, stack # <<>>, NEW res \in {"returned", "raised"},
           NEW m, m = Me, NEW L, L = Len(stack), calls[m].result = "open", Finish(res)
    PROVE  /\ L \in Nat \ {0} /\ m \in 1..Len(calls) /\ stack[L].call = m /\ Top.step = stack[L].step
           /\ Len(stack') = L - 1
           /\ \A k \in 1..(L - 1) : stack'[k] = stack[k]
           /\ stack' \in Seq([call : 1..Len(calls'), step : Step])
           /\ calls' \in Seq(CallRecord) /\ Len(calls') = Len(calls)
           /\ calls'[m].result = res
           /\ \A i \in 1..Len(calls) : i # m => calls'[i] = calls[i]
           /\ CallsEvolve
  <1> DEFINE F == [call : 1..Len(calls), step : Step]
  <1>1. stack \in Seq(F) /\ calls \in Seq(CallRecord)
    BY DEF TypeOK, CallRecord
  <1>2. L \in Nat \ {0} /\ m = stack[L].call /\ stack[L] \in F
    <2>1. L \in Nat \ {0}
      BY KernelShapes
    <2>2. L \in 1..Len(stack)
      BY <2>1
    <2>3. stack[L] \in F
      BY <1>1, <2>2, ElementOfSeq, Zenon
    <2> QED BY <2>1, <2>3 DEF Me, Top
  <1>3. m \in 1..Len(calls)
    BY <1>2
  <1>4. /\ stack' = SubSeq(stack, 1, L - 1)
        /\ calls' = [calls EXCEPT ![m] = [calls[m] EXCEPT !.result = res]]
    BY DEF Finish
  <1>5. PICK c : c = [calls[m] EXCEPT !.result = res]
    OBVIOUS
  <1>6. calls[m] \in CallRecord
    BY <1>1, <1>3, ElementOfSeq
  <1>7. /\ c \in CallRecord /\ c.result = res /\ c.parent = calls[m].parent
        /\ c.class = calls[m].class /\ c.governed = calls[m].governed
        /\ c.warrant = calls[m].warrant /\ c.strict = calls[m].strict
    BY <1>5, <1>6 DEF CallRecord
  <1> HIDE DEF F
  <1>8. /\ calls' \in Seq(CallRecord) /\ Len(calls') = Len(calls) /\ calls'[m] = c
        /\ \A i \in 1..Len(calls) : i # m => calls'[i] = calls[i]
    <2>1. calls' = [calls EXCEPT ![m] = c]
      BY <1>4, <1>5, Zenon
    <2>2. c \in CallRecord /\ calls \in Seq(CallRecord)
      BY <1>1, <1>7
    <2> QED BY <1>3, <2>1, <2>2
  <1>9. /\ Len(stack') = L - 1 /\ stack' \in Seq(F)
        /\ \A k \in 1..(L - 1) : stack'[k] = stack[k]
    <2>1. 1 \in Nat /\ L - 1 \in 0..Len(stack)
      BY <1>2
    <2> QED BY <1>1, <1>2, <1>4, <2>1, SubSeqProperties
  <1>10. stack' \in Seq([call : 1..Len(calls'), step : Step])
    BY <1>8, <1>9 DEF F
  <1>11. CallsEvolve
    BY <1>1, <1>3, <1>7, <1>8 DEF CallsEvolve
  <1> QED BY <1>2, <1>3, <1>7, <1>8, <1>9, <1>10, <1>11 DEF Top

(* A move of the top call keeps the stack in order. *)
LEMMA StackGoto ==
    ASSUME TypeOK, StackOK, stack # <<>>, NEW s \in Step, Goto(s), StepFits(s, Class),
           warrants \subseteq warrants',
           s # "admitted" /\ calls[Me].strict => Me \in warrants'
    PROVE  StackOK'
  <1>1. PICK m, L : m = Me /\ L = Len(stack)
    OBVIOUS
  <1>2. /\ L \in Nat \ {0} /\ m \in 1..Len(calls) /\ stack[L].call = m
        /\ Len(stack') = L /\ stack'[L].call = m /\ stack'[L].step = s
        /\ \A k \in 1..(L - 1) : stack'[k] = stack[k]
        /\ calls' = calls
    BY <1>1, GotoShape
  <1>3. \A k \in 1..L : /\ CallAt(k)' = CallAt(k) /\ ClassAt(k)' = ClassAt(k)
                        /\ k # L => stack'[k] = stack[k]
    BY <1>2 DEF CallAt, ClassAt
  <1>4. ClassAt(L) = Class /\ CallAt(L) = m
    BY <1>1, <1>2 DEF ClassAt, CallAt, Class
  <1>5. ASSUME NEW k \in 1..L
        PROVE  /\ calls'[CallAt(k)'].result = "open"
               /\ calls'[CallAt(k)'].parent = IF k = 1 THEN 0 ELSE CallAt(k - 1)'
               /\ k < L => stack'[k].step = "effect"
               /\ StepFits(stack'[k].step, ClassAt(k)')
               /\ stack'[k].step # "admitted" /\ calls'[CallAt(k)'].strict => CallAt(k)' \in warrants'
               /\ \A j \in 1..(k - 1) : CallAt(j)' < CallAt(k)'
    <2>1. \A j \in 1..(k - 1) : j \in 1..L
      BY <1>2
    <2>2. CASE k = L
      BY <1>1, <1>2, <1>3, <1>4, <2>1, <2>2 DEF StackOK
    <2>3. CASE k # L
      BY <1>1, <1>2, <1>3, <2>1, <2>3 DEF StackOK
    <2> QED BY <2>2, <2>3
  <1>6. \A i \in 1..Len(calls) : calls[i].result = "open" => \E k \in 1..L : CallAt(k)' = i
    BY <1>1, <1>3 DEF StackOK
  <1> QED BY <1>2, <1>5, <1>6 DEF StackOK

(* Leaving execute() keeps the stack in order. *)
LEMMA StackFinish ==
    ASSUME TypeOK, StackOK, stack # <<>>, NEW res \in {"returned", "raised"}, Finish(res),
           warrants \subseteq warrants'
    PROVE  StackOK'
  <1>1. PICK m, L : m = Me /\ L = Len(stack)
    OBVIOUS
  <1>2. L \in 1..Len(stack) /\ CallAt(L) = m /\ calls[m].result = "open"
    <2>1. L \in 1..Len(stack)
      BY <1>1, KernelShapes
    <2> QED BY <1>1, <2>1 DEF StackOK, CallAt, Me, Top
  <1>3. /\ L \in Nat \ {0} /\ m \in 1..Len(calls)
        /\ Len(stack') = L - 1 /\ Len(calls') = Len(calls)
        /\ \A k \in 1..(L - 1) : stack'[k] = stack[k]
        /\ calls'[m].result = res
        /\ \A i \in 1..Len(calls) : i # m => calls'[i] = calls[i]
    BY <1>1, <1>2, FinishShape
  <1>4. \A k \in 1..(L - 1) : /\ k \in 1..L /\ CallAt(k)' = CallAt(k) /\ CallAt(k) \in 1..Len(calls)
                              /\ CallAt(k) # m
                              /\ ClassAt(k)' = ClassAt(k) /\ stack'[k] = stack[k]
                              /\ calls'[CallAt(k)] = calls[CallAt(k)]
    <2>1. \A k \in 1..(L - 1) : CallAt(k) < CallAt(L)
      BY <1>1, <1>2 DEF StackOK
    <2>2. \A k \in 1..(L - 1) : CallAt(k) \in 1..Len(calls)
      <3>1. \A k \in 1..Len(stack) : stack[k].call \in 1..Len(calls)
        BY KernelShapes
      <3> QED BY <1>1, <1>3, <3>1 DEF CallAt
    <2>3. \A k \in 1..(L - 1) : CallAt(k) # m
      BY <1>2, <1>3, <2>1, <2>2
    <2> QED BY <1>3, <2>2, <2>3 DEF CallAt, ClassAt
  <1>5. ASSUME NEW k \in 1..(L - 1)
        PROVE  /\ calls'[CallAt(k)'].result = "open"
               /\ calls'[CallAt(k)'].parent = IF k = 1 THEN 0 ELSE CallAt(k - 1)'
               /\ stack'[k].step = "effect"
               /\ StepFits(stack'[k].step, ClassAt(k)')
               /\ stack'[k].step # "admitted" /\ calls'[CallAt(k)'].strict => CallAt(k)' \in warrants'
               /\ \A j \in 1..(k - 1) : CallAt(j)' < CallAt(k)'
    <2>1. /\ k \in 1..L /\ k < L
          /\ \A j \in 1..(k - 1) : j \in 1..(L - 1)
          /\ k # 1 => k - 1 \in 1..(L - 1)
      BY <1>3
    <2>2. /\ calls[CallAt(k)].result = "open"
          /\ calls[CallAt(k)].parent = IF k = 1 THEN 0 ELSE CallAt(k - 1)
          /\ stack[k].step = "effect"
          /\ StepFits(stack[k].step, ClassAt(k))
          /\ stack[k].step # "admitted" /\ calls[CallAt(k)].strict => CallAt(k) \in warrants
          /\ \A j \in 1..(k - 1) : CallAt(j) < CallAt(k)
      BY <1>1, <2>1 DEF StackOK
    <2>3. /\ CallAt(k)' = CallAt(k) /\ ClassAt(k)' = ClassAt(k) /\ stack'[k] = stack[k]
          /\ calls'[CallAt(k)] = calls[CallAt(k)]
          /\ \A j \in 1..(k - 1) : CallAt(j)' = CallAt(j)
          /\ k # 1 => CallAt(k - 1)' = CallAt(k - 1)
      BY <1>4, <2>1
    <2> QED BY <2>2, <2>3
  <1>6. ASSUME NEW i \in 1..Len(calls), calls'[i].result = "open"
        PROVE  \E k \in 1..(L - 1) : CallAt(k)' = i
    <2>1. i # m
      BY <1>3, <1>6
    <2>2. PICK k \in 1..L : CallAt(k) = i
      BY <1>1, <1>3, <1>6, <2>1 DEF StackOK
    <2>3. k \in 1..(L - 1)
      BY <1>2, <1>3, <2>1, <2>2
    <2> QED BY <1>4, <2>2, <2>3
  <1> QED BY <1>3, <1>5, <1>6 DEF StackOK

-----------------------------------------------------------------------------
(* The seams.                                                               *)

HoldSteps == {"effect", "succeeding", "releasing"}

(* The top call and the seams. *)
LEMMA TopAndSeams ==
    ASSUME TypeOK, StackOK, NEW own, SeamsOK(own), stack # <<>>,
           NEW L, L = Len(stack), NEW M, M = Len(marks), NEW m, m = Me
    PROVE  /\ L \in Nat \ {0} /\ m = stack[L].call /\ m \in 1..Len(calls)
           /\ M \in Nat /\ Len(own) = M /\ \A j \in 1..M : own[j] \in Nat /\ own[j] <= m
           /\ calls[m].result = "open" /\ ClassAt(L) = Class /\ calls[m].class = Class
           /\ Holds(L) => M > 0 /\ own[M] = m
           /\ ~Holds(L) => \A j \in 1..M : own[j] # m
           /\ \A j \in 1..(M - 1) : own[j] # m
           /\ calls[m].parent = 0 <=> L = 1
           /\ ~Holds(L) /\ L = 1 => M = 0
           /\ Holds(L) /\ L = 1 => M = 1
           /\ calls[m].parent \in 1..Len(calls) /\ calls[calls[m].parent].class = "ATOMIC"
                => \E h \in 1..M : own[h] = calls[m].parent /\ own[h] # m
  <1>1. /\ L \in Nat \ {0} /\ M \in Nat /\ m = stack[L].call /\ Len(calls) \in Nat
        /\ \A k \in 1..L : CallAt(k) \in 1..Len(calls)
    BY KernelShapes DEF Me, Top, CallAt
  <1>2. L \in 1..Len(stack) /\ CallAt(L) = m
    BY <1>1 DEF CallAt
  <1>3. m \in 1..Len(calls) /\ calls[m].result = "open" /\ ClassAt(L) = Class /\ calls[m].class = Class
    BY <1>1, <1>2 DEF StackOK, CallAt, ClassAt, Class
  <1>4. \A k \in 1..L : k # L => CallAt(k) < m
    <2>1. \A j \in 1..(L - 1) : CallAt(j) < CallAt(L)
      BY <1>2 DEF StackOK
    <2> QED BY <1>1, <1>2, <2>1
  <1>5. /\ Len(own) = M /\ own \in Seq(Nat)
        /\ \A j \in 1..M : own[j] \in Nat
        /\ \A j \in 1..M : \A h \in 1..(j - 1) : own[h] < own[j]
        /\ \A j \in 1..M : \E k \in 1..L : Holds(k) /\ CallAt(k) = own[j]
        /\ \A k \in 1..L : Holds(k) => \E j \in 1..M : own[j] = CallAt(k)
    BY ElementOfSeq DEF SeamsOK
  <1>6. \A j \in 1..M : own[j] <= m
    <2>1. \A k \in 1..L : CallAt(k) <= m
      BY <1>1, <1>2, <1>3, <1>4
    <2> QED BY <1>5, <2>1
  <1>7. ASSUME Holds(L) PROVE M > 0 /\ own[M] = m
    <2>1. PICK j \in 1..M : own[j] = m
      BY <1>2, <1>5, <1>7
    <2>2. M \in 1..M /\ (j # M => j \in 1..(M - 1))
      BY <1>1, <2>1
    <2>3. j # M => own[j] < own[M]
      BY <1>5, <2>2
    <2>4. own[M] <= m /\ own[M] \in Nat /\ own[j] \in Nat
      BY <1>5, <1>6, <2>2
    <2> QED BY <1>1, <2>1, <2>2, <2>3, <2>4
  <1>8. ASSUME ~Holds(L), NEW j \in 1..M PROVE own[j] # m
    <2>1. PICK k \in 1..L : Holds(k) /\ CallAt(k) = own[j]
      BY <1>5
    <2>2. k # L
      BY <1>8, <2>1
    <2>3. own[j] < m /\ own[j] \in Nat
      BY <1>4, <1>5, <2>1, <2>2
    <2> QED BY <1>3, <2>3
  <1>9. \A j \in 1..(M - 1) : own[j] # m
    <2>1. ASSUME NEW j \in 1..(M - 1) PROVE own[j] # m
      <3>1. M \in 1..M /\ j \in 1..M
        BY <1>1
      <3>2. own[j] < own[M] /\ own[M] <= m /\ own[j] \in Nat /\ own[M] \in Nat
        BY <1>5, <1>6, <3>1
      <3> QED BY <1>3, <3>2
    <2> QED BY <2>1
  <1>10. calls[m].parent = IF L = 1 THEN 0 ELSE CallAt(L - 1)
    BY <1>2 DEF StackOK
  <1>11. calls[m].parent = 0 <=> L = 1
    <2>1. L # 1 => CallAt(L - 1) \in 1..Len(calls)
      BY <1>1
    <2> QED BY <1>10, <2>1
  <1>12. ASSUME L = 1, M > 0 PROVE Holds(L) /\ M = 1
    <2>1. \A j \in 1..M : Holds(L) /\ own[j] = m
      BY <1>2, <1>5, <1>12
    <2>2. 1 \in 1..M /\ (M # 1 => 2 \in 1..M /\ 1 \in 1..(2 - 1))
      BY <1>1, <1>12
    <2>3. M # 1 => own[1] < own[2]
      BY <1>5, <2>2
    <2> QED BY <1>3, <2>1, <2>2, <2>3
  <1>13. ASSUME calls[m].parent \in 1..Len(calls), calls[calls[m].parent].class = "ATOMIC"
         PROVE  \E h \in 1..M : own[h] = calls[m].parent /\ own[h] # m
    <2>1. L # 1 /\ calls[m].parent = CallAt(L - 1) /\ L - 1 \in 1..Len(stack) /\ L - 1 < Len(stack)
      <3>1. L # 1
        BY <1>1, <1>11, <1>13
      <3> QED BY <1>1, <1>10, <3>1
    <2>2. Holds(L - 1)
      <3>1. stack[L - 1].step = "effect"
        BY <2>1 DEF StackOK
      <3> QED BY <1>13, <2>1, <3>1 DEF Holds, ClassAt, CallAt
    <2>3. PICK h \in 1..M : own[h] = CallAt(L - 1)
      BY <1>5, <2>1, <2>2
    <2>4. CallAt(L - 1) < m
      BY <1>1, <1>4, <2>1
    <2>5. CallAt(L - 1) # m
      BY <1>1, <1>3, <2>1, <2>4
    <2> QED BY <2>1, <2>3, <2>5
  <1>14. (~Holds(L) /\ L = 1 => M = 0) /\ (Holds(L) /\ L = 1 => M = 1)
    BY <1>1, <1>7, <1>12
  <1> QED BY <1>1, <1>3, <1>5, <1>6, <1>7, <1>8, <1>9, <1>11, <1>13, <1>14

(* Frame k goes on with its call, holding its seam or not as before. *)
Stays(k) == CallAt(k)' = CallAt(k) /\ (Holds(k)' <=> Holds(k))

(* No seam opens or closes: the calls that held the seams hold them still. *)
LEMMA SeamsKept ==
    ASSUME NEW own, SeamsOK(own), Len(marks') = Len(marks),
           Len(stack) \in Nat, Len(stack') \in Nat,
           \A k \in 1..Len(stack) : Holds(k) => k <= Len(stack') /\ Stays(k),
           \A k \in 1..Len(stack') : Holds(k)' => k <= Len(stack) /\ Stays(k)
    PROVE  SeamsOK(own)'
  <1>1. /\ own \in Seq(Nat) /\ Len(own) = Len(marks')
        /\ \A j \in 1..Len(own) : \A h \in 1..(j - 1) : own[h] < own[j]
    BY DEF SeamsOK
  <1>2. ASSUME NEW j \in 1..Len(own)
        PROVE  \E k \in 1..Len(stack') : Holds(k)' /\ CallAt(k)' = own[j]
    <2>1. PICK k \in 1..Len(stack) : Holds(k) /\ CallAt(k) = own[j]
      BY DEF SeamsOK
    <2> QED BY <2>1 DEF Stays
  <1>3. ASSUME NEW k \in 1..Len(stack'), Holds(k)'
        PROVE  \E j \in 1..Len(own) : own[j] = CallAt(k)'
    <2>1. k \in 1..Len(stack) /\ Holds(k) /\ CallAt(k)' = CallAt(k)
      BY <1>3 DEF Stays
    <2> QED BY <2>1 DEF SeamsOK
  <1> QED BY <1>1, <1>2, <1>3 DEF SeamsOK

(* The innermost seam closes: its call no longer holds one, or leaves. *)
SeamCloses ==
    /\ Holds(Len(stack)) /\ Len(marks') = Len(marks) - 1
    /\ Len(stack') \in Nat /\ Len(stack) - 1 <= Len(stack')
    /\ \A k \in 1..(Len(stack) - 1) : Stays(k)
    /\ \A k \in 1..Len(stack') : Holds(k)' => k <= Len(stack) - 1

(* The calls below it hold the seams that are left. *)
LEMMA SeamsClosed ==
    ASSUME TypeOK, StackOK, NEW own, SeamsOK(own), stack # <<>>, SeamCloses
    PROVE  \E new : SeamsOK(new)' /\ \A j \in 1..(Len(marks) - 1) : new[j] = own[j]
  <1>len. PICK L, M : L = Len(stack) /\ M = Len(marks)
    OBVIOUS
  <1>sc. /\ Holds(L) /\ Len(marks') = M - 1
         /\ Len(stack') \in Nat /\ L - 1 <= Len(stack')
         /\ \A k \in 1..(L - 1) : Stays(k)
         /\ \A k \in 1..Len(stack') : Holds(k)' => k <= L - 1
    BY <1>len DEF SeamCloses
  <1>1. PICK m : m = Me
    OBVIOUS
  <1>2. /\ L \in Nat \ {0} /\ M \in Nat \ {0} /\ m = stack[L].call /\ Len(own) = M /\ own[M] = m
        /\ \A j \in 1..(M - 1) : own[j] # m
    <2>1. /\ L \in Nat \ {0} /\ m = stack[L].call /\ M \in Nat /\ Len(own) = M /\ M > 0 /\ own[M] = m
          /\ \A j \in 1..(M - 1) : own[j] # m
      BY <1>len, <1>sc, <1>1, TopAndSeams
    <2> QED BY <2>1
  <1>3. /\ own \in Seq(Nat)
        /\ \A j \in 1..M : \A h \in 1..(j - 1) : own[h] < own[j]
        /\ \A j \in 1..M : \E k \in 1..L : Holds(k) /\ CallAt(k) = own[j]
        /\ \A k \in 1..L : Holds(k) => \E j \in 1..M : own[j] = CallAt(k)
    BY <1>len, <1>2 DEF SeamsOK
  <1>4. PICK new : new = SubSeq(own, 1, M - 1)
    OBVIOUS
  <1>5. /\ new \in Seq(Nat) /\ Len(new) = M - 1 /\ \A j \in 1..(M - 1) : new[j] = own[j]
    <2>0. own \in Seq(Nat)
      BY <1>3
    <2>1. 1 \in Nat /\ M - 1 \in 0..Len(own) /\ \A j \in 1..(M - 1) : own[j] \in Nat
      <3>1. \A j \in 1..Len(own) : own[j] \in Nat
        BY <2>0, ElementOfSeq, Zenon
      <3>2. M \in Nat \ {0} /\ Len(own) = M
        BY <1>2
      <3> QED BY <3>1, <3>2
    <2>2. /\ new \in Seq(Nat) /\ Len(new) = (IF 1 <= M - 1 THEN M - 1 - 1 + 1 ELSE 0)
          /\ \A j \in 1..(M - 1 - 1 + 1) : new[j] = own[1 + j - 1]
      BY <1>3, <1>4, <2>1, SubSeqProperties
    <2> QED BY <1>2, <2>2
  <1>6. \A j \in 1..(M - 1) : \A h \in 1..(j - 1) : new[h] < new[j]
    <2>1. \A j \in 1..(M - 1) : j \in 1..M /\ \A h \in 1..(j - 1) : h \in 1..(M - 1)
      BY <1>2
    <2> QED BY <1>3, <1>5, <2>1
  <1>7. ASSUME NEW j \in 1..(M - 1)
        PROVE  \E k \in 1..Len(stack') : Holds(k)' /\ CallAt(k)' = new[j]
    <2>1. j \in 1..M /\ own[j] # m
      BY <1>2
    <2>2. PICK k \in 1..L : Holds(k) /\ CallAt(k) = own[j]
      BY <1>3, <2>1
    <2>3. k \in 1..(L - 1) /\ k \in 1..Len(stack')
      BY <1>sc, <1>2, <2>1, <2>2 DEF CallAt
    <2> QED BY <1>sc, <1>5, <2>2, <2>3 DEF Stays
  <1>8. ASSUME NEW k \in 1..Len(stack'), Holds(k)'
        PROVE  \E j \in 1..(M - 1) : new[j] = CallAt(k)'
    <2>1. k \in 1..(L - 1) /\ k \in 1..L
      BY <1>sc, <1>2, <1>8
    <2>2. Holds(k) /\ CallAt(k)' = CallAt(k)
      BY <1>sc, <1>8, <2>1 DEF Stays
    <2>3. PICK j \in 1..M : own[j] = CallAt(k)
      BY <1>3, <2>1, <2>2
    <2>4. CallAt(k) < CallAt(L) /\ CallAt(L) = m /\ CallAt(k) \in Nat
      <3>1. L \in 1..Len(stack)
        BY <1>len, <1>2
      <3>2. \A i \in 1..Len(stack) : stack[i].call \in 1..Len(calls)
        BY KernelShapes
      <3> QED BY <1>2, <2>1, <3>1, <3>2 DEF StackOK, CallAt
    <2>5. own[M] = m /\ M \in Nat \ {0}
      BY <1>2
    <2>6. j \in 1..(M - 1)
      BY <2>3, <2>4, <2>5
    <2>7. new[j] = own[j]
      BY <1>5, <2>6
    <2> QED BY <2>2, <2>3, <2>6, <2>7
  <1>9. SeamsOK(new)'
    BY <1>sc, <1>5, <1>6, <1>7, <1>8 DEF SeamsOK
  <1> WITNESS new
  <1> QED BY <1>len, <1>5, <1>9

(* The top call opens a seam. *)
LEMMA SeamsOpened ==
    ASSUME TypeOK, StackOK, NEW own, SeamsOK(own), stack # <<>>,
           NEW L, L = Len(stack), NEW M, M = Len(marks), ~Holds(L), Len(marks') = M + 1,
           Len(stack') = L, \A k \in 1..(L - 1) : Stays(k), Holds(L)', CallAt(L)' = CallAt(L)
    PROVE  \E new : SeamsOK(new)' /\ (\A j \in 1..M : new[j] = own[j]) /\ new[M + 1] = Me
  <1>1. PICK m : m = Me
    OBVIOUS
  <1>2. /\ L \in Nat \ {0} /\ M \in Nat /\ m = stack[L].call /\ m \in 1..Len(calls) /\ Len(own) = M
        /\ \A j \in 1..M : own[j] \in Nat /\ own[j] <= m /\ own[j] # m
    BY <1>1, TopAndSeams
  <1>3. /\ own \in Seq(Nat)
        /\ \A j \in 1..M : \A h \in 1..(j - 1) : own[h] < own[j]
        /\ \A j \in 1..M : \E k \in 1..L : Holds(k) /\ CallAt(k) = own[j]
        /\ \A k \in 1..L : Holds(k) => \E j \in 1..M : own[j] = CallAt(k)
    BY <1>2 DEF SeamsOK
  <1>4. PICK new : new = Append(own, m)
    OBVIOUS
  <1>nat. m \in Nat /\ \A j \in 1..M : own[j] < m
    <2>1. m \in Nat
      BY <1>2, KernelShapes
    <2> QED BY <1>2, <2>1
  <1>5. /\ new \in Seq(Nat) /\ Len(new) = M + 1 /\ new[M + 1] = m /\ \A j \in 1..M : new[j] = own[j]
    BY <1>2, <1>3, <1>4, <1>nat, AppendProperties
  <1>6. ASSUME NEW j \in 1..(M + 1), NEW h \in 1..(j - 1) PROVE new[h] < new[j]
    <2>1. h \in 1..M /\ (j \in 1..M \/ j = M + 1)
      BY <1>2
    <2> QED BY <1>3, <1>5, <1>nat, <2>1
  <1>7. CallAt(L) = m /\ L \in 1..Len(stack') /\ CallAt(L)' = m
    BY <1>2 DEF CallAt
  <1>8. ASSUME NEW j \in 1..(M + 1)
        PROVE  \E k \in 1..Len(stack') : Holds(k)' /\ CallAt(k)' = new[j]
    <2>1. CASE j = M + 1
      BY <1>5, <1>7, <2>1
    <2>2. CASE j \in 1..M
      <3>1. PICK k \in 1..L : Holds(k) /\ CallAt(k) = own[j]
        BY <1>3, <2>2
      <3>2. k \in 1..(L - 1) /\ k \in 1..Len(stack')
        BY <1>2, <3>1
      <3> QED BY <1>5, <2>2, <3>1, <3>2 DEF Stays
    <2> QED BY <1>2, <2>1, <2>2
  <1>9. ASSUME NEW k \in 1..Len(stack'), Holds(k)'
        PROVE  \E j \in 1..(M + 1) : new[j] = CallAt(k)'
    <2>1. CASE k = L
      BY <1>2, <1>5, <1>7, <2>1
    <2>2. CASE k # L
      <3>1. k \in 1..(L - 1) /\ k \in 1..L
        BY <1>2, <2>2
      <3>2. PICK j \in 1..M : own[j] = CallAt(k)
        BY <1>3, <1>9, <3>1 DEF Stays
      <3> QED BY <1>2, <1>5, <3>1, <3>2 DEF Stays
    <2> QED BY <2>1, <2>2
  <1>10. SeamsOK(new)'
    BY <1>5, <1>6, <1>8, <1>9 DEF SeamsOK
  <1> QED BY <1>1, <1>5, <1>10

(* The seams that stay open stay with the calls that hold them. *)
SameHolders(own, new) == \A j \in 1..Len(marks') : j <= Len(marks) => new[j] = own[j]

(* The top call goes to step s: h and a say whether it holds a seam before and after. *)
SeamMoves(s, h, a) ==
    /\ s \in Step /\ h \in {0, 1} /\ a \in {0, 1}
    /\ Holds(Len(stack)) <=> h = 1
    /\ Class = "ATOMIC" /\ s \in HoldSteps <=> a = 1
    /\ Len(marks') \in Nat /\ Len(marks') = Len(marks) + a - h

(* The top call moves, and takes or gives up a seam. *)
LEMMA SeamsGoto ==
    ASSUME TypeOK, StackOK, NEW own, SeamsOK(own), stack # <<>>,
           NEW s, NEW h, NEW a, SeamMoves(s, h, a), Goto(s)
    PROVE  \E new : /\ SeamsOK(new)' /\ SameHolders(own, new)
                    /\ Len(marks') = Len(marks) + 1 => new[Len(marks')] = Me
  <1>len. PICK L, M, N : L = Len(stack) /\ M = Len(marks) /\ N = Len(marks')
    OBVIOUS
  <1>mv. /\ s \in Step /\ h \in {0, 1} /\ a \in {0, 1}
         /\ Holds(L) <=> h = 1
         /\ Class = "ATOMIC" /\ s \in HoldSteps <=> a = 1
         /\ N \in Nat /\ N = M + a - h
    BY <1>len DEF SeamMoves
  <1>1. PICK m : m = Me
    OBVIOUS
  <1>2. /\ L \in Nat \ {0} /\ stack[L].call = m
        /\ Len(stack') = L /\ stack'[L].call = m /\ stack'[L].step = s
        /\ \A k \in 1..(L - 1) : stack'[k] = stack[k]
        /\ calls' = calls
    BY <1>len, <1>mv, <1>1, GotoShape
  <1>3. M \in Nat /\ ClassAt(L) = Class
    BY <1>len, <1>1, TopAndSeams
  <1>4. CallAt(L)' = CallAt(L) /\ (Holds(L)' <=> a = 1)
    BY <1>mv, <1>2, <1>3 DEF Holds, ClassAt, CallAt, HoldSteps
  <1>5. \A k \in 1..(L - 1) : Stays(k)
    BY <1>2 DEF Stays, Holds, ClassAt, CallAt
  <1>6. CASE a = h
    <2>1. \A k \in 1..L : Stays(k)
      BY <1>mv, <1>2, <1>4, <1>5, <1>6 DEF Stays
    <2>2. Len(marks') = Len(marks) /\ N = M
      BY <1>len, <1>mv, <1>3, <1>6
    <2>3. SeamsOK(own)'
      BY <1>len, <1>2, <2>1, <2>2, SeamsKept
    <2>4. SameHolders(own, own) /\ Len(marks') # Len(marks) + 1
      BY <1>len, <1>3, <2>2 DEF SameHolders
    <2> WITNESS own
    <2> QED BY <2>3, <2>4
  <1>7. CASE h = 1 /\ a = 0
    <2>1. \A k \in 1..Len(stack') : Holds(k)' => k <= L - 1
      BY <1>2, <1>4, <1>7
    <2>2. Holds(L) /\ Len(marks') = M - 1 /\ Len(stack') \in Nat /\ L - 1 <= Len(stack')
      BY <1>len, <1>mv, <1>2, <1>3, <1>7
    <2>c. SeamCloses
      BY <1>len, <1>5, <2>1, <2>2 DEF SeamCloses
    <2>3. PICK new : SeamsOK(new)' /\ \A j \in 1..(Len(marks) - 1) : new[j] = own[j]
      BY <2>c, SeamsClosed
    <2>4. SameHolders(own, new) /\ Len(marks') # Len(marks) + 1
      BY <1>len, <1>3, <2>2, <2>3 DEF SameHolders
    <2> WITNESS new
    <2> QED BY <2>3, <2>4
  <1>8. CASE h = 0 /\ a = 1
    <2>1. ~Holds(L) /\ Len(marks') = M + 1 /\ Holds(L)'
      BY <1>len, <1>mv, <1>3, <1>4, <1>8
    <2>2. PICK new : SeamsOK(new)' /\ (\A j \in 1..M : new[j] = own[j]) /\ new[M + 1] = Me
      BY <1>len, <1>2, <1>4, <1>5, <2>1, SeamsOpened
    <2>3. SameHolders(own, new)
      BY <1>len, <1>3, <2>1, <2>2 DEF SameHolders
    <2>4. new[Len(marks')] = Me
      BY <2>1, <2>2
    <2> WITNESS new
    <2> QED BY <2>2, <2>3, <2>4
  <1> QED BY <1>mv, <1>6, <1>7, <1>8

(* The top call leaves: h says whether it holds a seam until then. *)
SeamLeaves(res, h) ==
    /\ res \in {"returned", "raised"} /\ h \in {0, 1}
    /\ Holds(Len(stack)) <=> h = 1
    /\ Len(marks') \in Nat /\ Len(marks') = Len(marks) - h

(* The top call leaves, with its seam if it holds one. *)
LEMMA SeamsFinish ==
    ASSUME TypeOK, StackOK, NEW own, SeamsOK(own), stack # <<>>,
           NEW res, NEW h, SeamLeaves(res, h), Finish(res)
    PROVE  \E new : SeamsOK(new)' /\ SameHolders(own, new)
  <1>len. PICK L, M : L = Len(stack) /\ M = Len(marks)
    OBVIOUS
  <1>mv. /\ res \in {"returned", "raised"} /\ h \in {0, 1}
         /\ Holds(L) <=> h = 1
         /\ Len(marks') \in Nat /\ Len(marks') = M - h
    BY <1>len DEF SeamLeaves
  <1>1. PICK m : m = Me
    OBVIOUS
  <1>2. M \in Nat /\ L \in Nat \ {0} /\ calls[m].result = "open"
    BY <1>len, <1>1, TopAndSeams
  <1>3. /\ Len(stack') = L - 1 /\ CallsEvolve
        /\ \A k \in 1..(L - 1) : stack'[k] = stack[k]
    BY <1>len, <1>mv, <1>1, <1>2, FinishShape
  <1>4. ASSUME NEW k \in 1..(L - 1) PROVE Stays(k)
    <2>1. \A n \in 1..Len(stack) : stack[n].call \in 1..Len(calls)
      BY KernelShapes
    <2>2. stack'[k] = stack[k] /\ stack[k].call \in 1..Len(calls)
      <3>1. k \in 1..Len(stack)
        BY <1>len, <1>2
      <3>2. stack'[k] = stack[k]
        BY <1>3
      <3> QED BY <2>1, <3>1, <3>2
    <2>3. calls'[stack[k].call].class = calls[stack[k].call].class
      BY <1>3, <2>2 DEF CallsEvolve
    <2> QED BY <2>2, <2>3 DEF Stays, CallAt, ClassAt, Holds
  <1>5. CASE h = 0
    <2>1. \A k \in 1..Len(stack) : Holds(k) => k <= Len(stack') /\ Stays(k)
      <3>1. \A k \in 1..Len(stack) : Holds(k) => k \in 1..(L - 1)
        BY <1>len, <1>mv, <1>2, <1>5
      <3> QED BY <1>2, <1>3, <1>4, <3>1
    <2>2. \A k \in 1..Len(stack') : Holds(k)' => k <= Len(stack) /\ Stays(k)
      BY <1>len, <1>2, <1>3, <1>4
    <2>3. Len(marks') = Len(marks) /\ Len(stack) \in Nat /\ Len(stack') \in Nat
      BY <1>len, <1>mv, <1>2, <1>3, <1>5
    <2>4. SeamsOK(own)'
      BY <2>1, <2>2, <2>3, SeamsKept
    <2>5. SameHolders(own, own)
      BY DEF SameHolders
    <2> WITNESS own
    <2> QED BY <2>4, <2>5
  <1>6. CASE h = 1
    <2>1. /\ Holds(L) /\ Len(marks') = M - 1 /\ Len(stack') \in Nat /\ L - 1 <= Len(stack')
          /\ \A k \in 1..Len(stack') : Holds(k)' => k <= L - 1
      BY <1>mv, <1>2, <1>3, <1>6
    <2>c. SeamCloses
      BY <1>len, <1>4, <2>1 DEF SeamCloses
    <2>2. PICK new : SeamsOK(new)' /\ \A j \in 1..(Len(marks) - 1) : new[j] = own[j]
      BY <2>c, SeamsClosed
    <2>3. SameHolders(own, new)
      BY <1>len, <2>1, <2>2 DEF SameHolders
    <2> WITNESS new
    <2> QED BY <2>2, <2>3
  <1> QED BY <1>mv, <1>5, <1>6

(* What an admission does to the stack, the calls and the seams. *)
Pushed(own, r, L, M, n) ==
    /\ L \in Nat /\ n \in Nat \ {0} /\ Len(calls') = n /\ Len(stack') = L + 1
    /\ \A k \in 1..L : stack'[k] = stack[k]
    /\ stack'[L + 1].call = n /\ stack'[L + 1].step = "admitted"
    /\ stack' \in Seq([call : 1..Len(calls'), step : Step])
    /\ calls' \in Seq(CallRecord) /\ n <= MaxCalls
    /\ calls'[n].parent = (IF L = 0 THEN 0 ELSE stack[L].call) /\ calls'[n].result = "open"
    /\ calls'[n].class = r.class /\ calls'[n].governed = Enforced(r)
    /\ calls'[n].warrant = r.warrant
    /\ calls'[n].strict = (Enforced(r) /\ config.requireWarrant)
    /\ CallsEvolve /\ StackOK' /\ SeamsOK(own)'
    /\ calls'[n].parent \in 1..Len(calls) /\ calls[calls'[n].parent].class = "ATOMIC"
         => \E j \in 1..M : own[j] = calls'[n].parent

(* A call is admitted: by a caller outside, or by the effect of the top call. *)
LEMMA SeamsPush ==
    ASSUME TypeOK, AdmissionOK, StackOK, NEW own, SeamsOK(own), NEW r \in Requests, Admit(r),
           NEW L, L = Len(stack), NEW M, M = Len(marks), NEW n, n = Len(calls) + 1
    PROVE  Pushed(own, r, L, M, n)
  <1> DEFINE F == [call : 1..Len(calls), step : Step]
             G == [call : 1..n, step : Step]
  <1>1. /\ L \in Nat /\ M \in Nat /\ Len(calls) \in Nat /\ (stack = <<>> <=> L = 0)
        /\ \A k \in 1..L : stack[k].call \in 1..Len(calls)
    BY KernelShapes
  <1>2. PICK f, c :
           /\ f = [call |-> n, step |-> "admitted"]
           /\ c = [parent |-> IF stack = <<>> THEN 0 ELSE Me, governed |-> Enforced(r),
                   class |-> r.class, warrant |-> r.warrant,
                   strict |-> Enforced(r) /\ config.requireWarrant, result |-> "open"]
    OBVIOUS
  <1>3. /\ stack' = Append(stack, f) /\ calls' = Append(calls, c) /\ Len(calls) < MaxCalls
        /\ marks' = marks /\ warrants' = warrants /\ MayCall
    BY <1>2 DEF Admit
  <1>4. /\ c.parent = (IF L = 0 THEN 0 ELSE stack[L].call) /\ c.result = "open"
        /\ c.class = r.class /\ c.governed = Enforced(r) /\ c.warrant = r.warrant
        /\ c.strict = (Enforced(r) /\ config.requireWarrant)
    BY <1>1, <1>2 DEF Me, Top
  <1>5. c \in CallRecord
    <2>1. r.class \in EffectClass /\ r.warrant \in BOOLEAN
      BY RequestsAssumption DEF Request
    <2>2. (IF stack = <<>> THEN 0 ELSE Me) \in 0..MaxCalls
      <3>1. L # 0 => stack[L].call \in 1..Len(calls)
        BY <1>1
      <3> QED BY <1>1, <1>3, <3>1, BoundsAssumption DEF Me, Top
    <2>3. Enforced(r) \in BOOLEAN /\ (Enforced(r) /\ config.requireWarrant) \in BOOLEAN
      BY DEF Enforced
    <2> QED BY <1>2, <2>1, <2>2, <2>3 DEF CallRecord
  <1>6. stack \in Seq(F) /\ calls \in Seq(CallRecord)
    BY DEF TypeOK, CallRecord
  <1>7. /\ Len(calls') = n /\ calls' \in Seq(CallRecord) /\ calls'[n] = c
        /\ \A i \in 1..Len(calls) : calls'[i] = calls[i]
    <2> HIDE DEF F, G
    <2> QED BY <1>3, <1>5, <1>6
  <1>8. /\ Len(stack') = L + 1 /\ stack'[L + 1] = f /\ \A k \in 1..L : stack'[k] = stack[k]
        /\ stack' \in Seq(G)
    <2>1. F \subseteq G
      BY <1>1
    <2>2. f \in G
      BY <1>1, <1>2 DEF Step
    <2>3. stack \in Seq(G)
      <3> HIDE DEF F, G
      <3> QED BY <1>6, <2>1
    <2> HIDE DEF F, G
    <2> QED BY <1>3, <2>2, <2>3
  <1>9. CallsEvolve
    BY <1>1, <1>7 DEF CallsEvolve
  <1>10. /\ \A k \in 1..L : CallAt(k)' = CallAt(k) /\ ClassAt(k)' = ClassAt(k) /\ (Holds(k)' <=> Holds(k))
         /\ CallAt(L + 1)' = n /\ ClassAt(L + 1)' = r.class /\ ~Holds(L + 1)'
    <2>1. \A k \in 1..L : CallAt(k)' = CallAt(k) /\ ClassAt(k)' = ClassAt(k)
      BY <1>1, <1>7, <1>8 DEF CallAt, ClassAt
    <2>2. \A k \in 1..L : Holds(k)' <=> Holds(k)
      BY <1>8, <2>1 DEF Holds
    <2>3. f.call = n /\ f.step = "admitted"
      BY <1>2
    <2>4. CallAt(L + 1)' = n
      BY <1>8, <2>3 DEF CallAt
    <2>5. ClassAt(L + 1)' = r.class
      BY <1>4, <1>7, <1>8, <2>3 DEF ClassAt
    <2>6. ~Holds(L + 1)'
      BY <1>8, <2>3 DEF Holds
    <2> QED BY <2>1, <2>2, <2>4, <2>5, <2>6
  <1>11. L > 0 => stack[L].step = "effect"
    BY <1>1, <1>3 DEF MayCall, Top
  <1>12. StackOK'
    <2>1. ASSUME NEW k \in 1..L
          PROVE  /\ calls'[CallAt(k)'].result = "open"
                 /\ calls'[CallAt(k)'].parent = IF k = 1 THEN 0 ELSE CallAt(k - 1)'
                 /\ stack'[k].step = "effect"
                 /\ StepFits(stack'[k].step, ClassAt(k)')
                 /\ stack'[k].step # "admitted" /\ calls'[CallAt(k)'].strict => CallAt(k)' \in warrants'
                 /\ \A j \in 1..(k - 1) : CallAt(j)' < CallAt(k)'
      <3>1. /\ calls[CallAt(k)].result = "open"
            /\ calls[CallAt(k)].parent = IF k = 1 THEN 0 ELSE CallAt(k - 1)
            /\ k < L => stack[k].step = "effect"
            /\ StepFits(stack[k].step, ClassAt(k))
            /\ stack[k].step # "admitted" /\ calls[CallAt(k)].strict => CallAt(k) \in warrants
            /\ \A j \in 1..(k - 1) : CallAt(j) < CallAt(k)
        BY DEF StackOK
      <3>2. /\ CallAt(k)' = CallAt(k) /\ ClassAt(k)' = ClassAt(k) /\ stack'[k] = stack[k]
            /\ \A j \in 1..(k - 1) : CallAt(j)' = CallAt(j)
            /\ k # 1 => CallAt(k - 1)' = CallAt(k - 1)
        BY <1>1, <1>8, <1>10
      <3>3. calls'[CallAt(k)] = calls[CallAt(k)]
        BY <1>1, <1>7 DEF CallAt
      <3>4. stack[k].step = "effect"
        BY <1>1, <1>11, <3>1
      <3> QED BY <1>3, <3>1, <3>2, <3>3, <3>4
    <2>2. /\ calls'[CallAt(L + 1)'].result = "open"
          /\ calls'[CallAt(L + 1)'].parent = IF L + 1 = 1 THEN 0 ELSE CallAt(L)'
          /\ stack'[L + 1].step = "admitted"
          /\ StepFits("admitted", ClassAt(L + 1)')
          /\ \A j \in 1..L : CallAt(j)' < CallAt(L + 1)'
      <3>1. L > 0 => CallAt(L)' = stack[L].call
        BY <1>1, <1>10 DEF CallAt
      <3>2. \A j \in 1..L : CallAt(j)' < n
        BY <1>1, <1>10 DEF CallAt
      <3> QED BY <1>1, <1>2, <1>4, <1>7, <1>8, <1>10, <3>1, <3>2 DEF StepFits
    <2>3. ASSUME NEW i \in 1..n, calls'[i].result = "open"
          PROVE  \E k \in 1..(L + 1) : CallAt(k)' = i
      <3>1. CASE i = n
        BY <1>1, <1>10, <3>1
      <3>2. CASE i # n
        <4>1. i \in 1..Len(calls) /\ calls[i].result = "open"
          BY <1>1, <1>7, <2>3, <3>2
        <4>2. PICK k \in 1..L : CallAt(k) = i
          BY <4>1 DEF StackOK
        <4> QED BY <1>1, <1>10, <4>2
      <3> QED BY <3>1, <3>2
    <2>4. \A k \in 1..(L + 1) : k \in 1..L \/ k = L + 1
      BY <1>1
    <2> QED BY <1>1, <1>7, <1>8, <2>1, <2>2, <2>3, <2>4, SMTT(20) DEF StackOK
  <1>16. SeamsOK(own)'
    <2>1. \A k \in 1..L : Stays(k) /\ k <= L + 1
      BY <1>1, <1>10 DEF Stays
    <2>2. \A k \in 1..(L + 1) : Holds(k)' => k \in 1..L
      <3>1. ~Holds(L + 1)'
        BY <1>10
      <3>2. \A k \in 1..(L + 1) : k \in 1..L \/ k = L + 1
        BY <1>1
      <3> QED BY <3>1, <3>2, Zenon
    <2> QED BY <1>1, <1>3, <1>8, <2>1, <2>2, SeamsKept
  <1>18. ASSUME c.parent \in 1..Len(calls), calls[c.parent].class = "ATOMIC"
         PROVE  \E j \in 1..M : own[j] = c.parent
    <2>1. L > 0 /\ c.parent = stack[L].call
      BY <1>1, <1>4, <1>18
    <2>2. ClassAt(L) = "ATOMIC"
      BY <1>18, <2>1 DEF ClassAt
    <2>3. Holds(L)
      BY <1>11, <2>1, <2>2 DEF Holds
    <2>4. M > 0 /\ own[M] = stack[L].call
      BY <1>1, <2>1, <2>3, TopAndSeams
    <2> QED BY <1>1, <2>1, <2>4
  <1>19. stack' \in Seq([call : 1..Len(calls'), step : Step])
    BY <1>7, <1>8
  <1>20. stack'[L + 1].call = n /\ stack'[L + 1].step = "admitted" /\ n \in Nat \ {0} /\ n <= MaxCalls
    BY <1>1, <1>2, <1>3, <1>8, BoundsAssumption
  <1>21. /\ calls'[n].parent = (IF L = 0 THEN 0 ELSE stack[L].call) /\ calls'[n].result = "open"
         /\ calls'[n].class = r.class /\ calls'[n].governed = Enforced(r)
         /\ calls'[n].warrant = r.warrant
         /\ calls'[n].strict = (Enforced(r) /\ config.requireWarrant)
    <2>1. calls'[n] = c
      BY <1>7
    <2> QED BY <1>4, <2>1, Zenon
  <1>22. calls'[n].parent = c.parent
    BY <1>7, Zenon
  <1> HIDE DEF F, G
  <1>23. /\ L \in Nat /\ Len(calls') = n /\ Len(stack') = L + 1 /\ \A k \in 1..L : stack'[k] = stack[k]
         /\ calls' \in Seq(CallRecord)
    BY <1>1, <1>7, <1>8
  <1> QED BY <1>9, <1>12, <1>16, <1>18, <1>19, <1>20, <1>21, <1>22, <1>23, Zenon DEF Pushed
-----------------------------------------------------------------------------
(* A step as the chain and the seams see it.                                *)

RowRecord == [call : 0..MaxCalls, kind : Kind]

(* The chain is cut after p rows, and may then gain the row of c. *)
Rewritten(p, c, kind) ==
    /\ chain' \in Seq(RowRecord)
    /\ p \in 0..Len(chain) /\ RowsStay(p)
    /\ Len(chain') \in {p, p + 1}
    /\ Len(chain') = p + 1 => chain'[p + 1] = [call |-> c, kind |-> kind]

(* Levels up to the open seams stay, and the chain is rewritten above level q. *)
LevelStep(p, q, c, kind) ==
    /\ Rewritten(p, c, kind)
    /\ q \in 1..(Len(marks) + 1) /\ p = LevelEnd(q)
    /\ marks' \in Seq(Nat) /\ Len(marks') <= q
    /\ \A j \in 1..Len(marks') : marks'[j] = LevelEnd(j)

(* A chain left alone. *)
LEMMA ChainSame ==
    ASSUME TypeOK, chain' = chain
    PROVE  Rewritten(Len(chain), 0, "legend_seal")
  <1>1. chain \in Seq(RowRecord) /\ Len(chain) \in Nat
    BY KernelShapes DEF TypeOK, RowRecord
  <1> QED BY <1>1 DEF Rewritten, RowsStay

(* A row is appended. *)
LEMMA ChainAppend ==
    ASSUME TypeOK, NEW c \in 0..MaxCalls, NEW kind \in Kind,
           chain' = Append(chain, [call |-> c, kind |-> kind])
    PROVE  Rewritten(Len(chain), c, kind) /\ Len(chain') = Len(chain) + 1
  <1>1. chain \in Seq(RowRecord) /\ Len(chain) \in Nat
    BY KernelShapes DEF TypeOK, RowRecord
  <1>2. PICK r : r = [call |-> c, kind |-> kind]
    OBVIOUS
  <1>3. r \in RowRecord
    BY <1>2 DEF RowRecord
  <1>4. chain' = Append(chain, r)
    BY <1>2
  <1>5. /\ chain' \in Seq(RowRecord) /\ Len(chain') = Len(chain) + 1
        /\ chain'[Len(chain) + 1] = r /\ \A k \in 1..Len(chain) : chain'[k] = chain[k]
    BY <1>1, <1>3, <1>4
  <1> QED BY <1>1, <1>2, <1>5 DEF Rewritten, RowsStay

(* The chain is cut. *)
LEMMA ChainCut ==
    ASSUME TypeOK, NEW p \in 0..Len(chain), chain' = SubSeq(chain, 1, p)
    PROVE  Rewritten(p, 0, "legend_seal") /\ Len(chain') = p
  <1>1. chain \in Seq(RowRecord) /\ Len(chain) \in Nat
    BY KernelShapes DEF TypeOK, RowRecord
  <1>2. \A k \in 1..p : chain[k] \in RowRecord
    BY <1>1, ElementOfSeq
  <1>3. /\ chain' \in Seq(RowRecord) /\ Len(chain') = (IF 1 <= p THEN p - 1 + 1 ELSE 0)
        /\ \A k \in 1..(p - 1 + 1) : chain'[k] = chain[1 + k - 1]
    BY <1>1, <1>2, SubSeqProperties
  <1>4. Len(chain') = p /\ \A k \in 1..p : chain'[k] = chain[k]
    BY <1>1, <1>3
  <1> QED BY <1>1, <1>3, <1>4 DEF Rewritten, RowsStay

(* The rows after such a step: those that stayed, and the new one. *)
LEMMA RowsAfter ==
    ASSUME TypeOK, NEW p, NEW c \in Nat, NEW kind, Rewritten(p, c, kind), NEW n, n = Len(chain')
    PROVE  /\ p \in Nat /\ n \in Nat /\ p <= n /\ n <= p + 1
           /\ \A k \in 1..n : \/ k \in 1..p /\ k \in 1..Len(chain) /\ chain'[k] = chain[k]
                              \/ /\ n = p + 1 /\ k = p + 1
                                 /\ chain'[k] = [call |-> c, kind |-> kind]
                                 /\ chain'[k].call = c /\ chain'[k].kind = kind
  <1>1. p \in Nat /\ Len(chain) \in Nat /\ p <= Len(chain) /\ (n = p \/ n = p + 1)
    BY KernelShapes DEF Rewritten
  <1>2. \A k \in 1..p : chain'[k] = chain[k]
    BY DEF Rewritten, RowsStay
  <1>3. n = p + 1 => chain'[p + 1] = [call |-> c, kind |-> kind]
    BY DEF Rewritten
  <1> QED BY <1>1, <1>2, <1>3

(* What they say. *)
LEMMA WrittenAfter ==
    ASSUME TypeOK, NEW p, NEW c \in Nat, NEW kind, Rewritten(p, c, kind), NEW n, n = Len(chain')
    PROVE  /\ \A i, x : Written(p, i, x) => Written(n, i, x)'
           /\ \A i, x : Written(n, i, x)' => Written(p, i, x) \/ (n = p + 1 /\ i = c /\ x = kind)
           /\ n = p + 1 => Written(n, c, kind)'
           /\ \A i : OnlyDecided(n, i)' <=> OnlyDecided(p, i) /\ (n = p + 1 /\ c = i => kind = "gate_admit")
  <1>1. p \in Nat /\ n \in Nat /\ p <= n /\ n <= p + 1
    BY RowsAfter
  <1>2. \A k \in 1..p : chain'[k] = chain[k]
    BY DEF Rewritten, RowsStay
  <1>3. n = p + 1 => chain'[p + 1] = [call |-> c, kind |-> kind]
    BY DEF Rewritten
  <1>4. \A k \in 1..n : \/ k \in 1..p /\ chain'[k] = chain[k]
                        \/ /\ n = p + 1 /\ k = p + 1
                           /\ chain'[k] = [call |-> c, kind |-> kind]
                           /\ chain'[k].call = c /\ chain'[k].kind = kind
    BY <1>1, <1>2, <1>3
  <1>5. /\ \A k \in 1..p : k \in 1..n
        /\ n = p + 1 => p + 1 \in 1..n
    BY <1>1
  <1>6. ASSUME NEW i, NEW x, Written(p, i, x) PROVE Written(n, i, x)'
    BY <1>2, <1>5, <1>6 DEF Written
  <1>7. ASSUME NEW i, NEW x, Written(n, i, x)'
        PROVE  Written(p, i, x) \/ (n = p + 1 /\ i = c /\ x = kind)
    <2>1. PICK k \in 1..n : chain'[k] = [call |-> i, kind |-> x]
      BY <1>7 DEF Written
    <2>2. CASE k \in 1..p /\ chain'[k] = chain[k]
      BY <2>1, <2>2 DEF Written
    <2>3. CASE n = p + 1 /\ chain'[k] = [call |-> c, kind |-> kind]
      BY <2>1, <2>3
    <2> QED BY <1>4, <2>2, <2>3
  <1>8. n = p + 1 => Written(n, c, kind)'
    BY <1>3, <1>5 DEF Written
  <1>9. ASSUME NEW i
        PROVE  OnlyDecided(n, i)' <=> OnlyDecided(p, i) /\ (n = p + 1 /\ c = i => kind = "gate_admit")
    <2>1. OnlyDecided(n, i)' => OnlyDecided(p, i)
      BY <1>2, <1>5 DEF OnlyDecided
    <2>2. OnlyDecided(n, i)' => (n = p + 1 /\ c = i => kind = "gate_admit")
      BY <1>3, <1>5 DEF OnlyDecided
    <2>3. OnlyDecided(p, i) /\ (n = p + 1 /\ c = i => kind = "gate_admit") => OnlyDecided(n, i)'
      BY <1>4 DEF OnlyDecided
    <2> QED BY <2>1, <2>2, <2>3
  <1> QED BY <1>6, <1>7, <1>8, <1>9

(* The marks and the levels after such a step. *)
LEMMA LevelsAfter ==
    ASSUME TypeOK, MarksOK,
           NEW p, NEW q, NEW c \in Nat, NEW kind, LevelStep(p, q, c, kind),
           NEW M, M = Len(marks), NEW N, N = Len(marks')
    PROVE  /\ M \in Nat /\ N \in Nat /\ q \in Nat /\ N <= q /\ q <= M + 1
           /\ marks' \in Seq(0..Len(chain')) /\ (marks' = <<>> <=> N = 0)
           /\ MarksOK'
           /\ \A j \in 1..N : /\ LevelEnd(j)' = LevelEnd(j) /\ marks'[j] = LevelEnd(j)
                              /\ LevelEnd(j) \in 0..Len(chain)
                              /\ RowsStay(LevelEnd(j)) /\ j \in 1..(M + 1)
           /\ LevelEnd(N + 1)' = Len(chain') /\ (N = 0 => LevelEnd(1)' = Len(chain'))
           /\ LevelEnd(1) \in 0..Len(chain) /\ LevelEnd(1)' \in Nat
           /\ LevelEnd(1) <= LevelEnd(1)' /\ RowsStay(LevelEnd(1))
           /\ LevelEnd(1)' <= Len(chain')
  <1>1. /\ M \in Nat /\ N \in Nat /\ q \in 1..(M + 1) /\ N <= q
        /\ Len(chain) \in Nat /\ p = LevelEnd(q) /\ marks' \in Seq(Nat)
        /\ \A j \in 1..N : marks'[j] = LevelEnd(j)
    <2>1. marks' \in Seq(Nat)
      BY DEF LevelStep
    <2> QED BY <2>1, KernelShapes, LenProperties DEF LevelStep
  <1>2. /\ p \in Nat /\ p <= Len(chain) /\ p <= Len(chain') /\ Len(chain') \in Nat /\ RowsStay(p)
    BY RowsAfter DEF LevelStep, Rewritten
  <1>3. /\ \A j \in 1..(M + 1) : LevelEnd(j) \in 0..Len(chain)
        /\ \A j \in 1..(M + 1) : LevelEnd(1) <= LevelEnd(j)
    BY LevelBounds
  <1>4. \A j \in 1..(M + 1) : \A k \in 1..j : LevelEnd(k) <= LevelEnd(j)
    <2>1. ASSUME NEW j \in 1..(M + 1), NEW k \in 1..j PROVE LevelEnd(k) <= LevelEnd(j)
      <3>1. CASE j <= M
        BY <1>1, <3>1 DEF LevelEnd, MarksOK
      <3>2. CASE j > M
        <4>1. k \in 1..(M + 1) /\ LevelEnd(j) = Len(chain)
          BY <1>1, <3>2 DEF LevelEnd
        <4> QED BY <1>1, <1>3, <4>1
      <3> QED BY <1>1, <3>1, <3>2
    <2> QED BY <2>1
  <1>5. \A j \in 1..N : /\ j \in 1..(M + 1) /\ j \in 1..q /\ LevelEnd(j) \in 0..Len(chain)
                        /\ LevelEnd(j) <= p
    BY <1>1, <1>3, <1>4
  <1>6. \A j \in 1..N : LevelEnd(j)' = LevelEnd(j) /\ RowsStay(LevelEnd(j))
    <2>1. ASSUME NEW j \in 1..N PROVE LevelEnd(j)' = LevelEnd(j)
      BY <1>1 DEF LevelEnd
    <2>2. ASSUME NEW j \in 1..N PROVE RowsStay(LevelEnd(j))
      BY <1>2, <1>5 DEF RowsStay
    <2> QED BY <2>1, <2>2
  <1>7. LevelEnd(N + 1)' = Len(chain') /\ (N = 0 => LevelEnd(1)' = Len(chain'))
    BY <1>1 DEF LevelEnd
  <1>8. /\ 1 \in 1..(M + 1) /\ LevelEnd(1) <= p /\ LevelEnd(1) \in 0..Len(chain)
    BY <1>1, <1>3
  <1>9. LevelEnd(1)' \in Nat /\ LevelEnd(1) <= LevelEnd(1)' /\ LevelEnd(1)' <= Len(chain')
    <2>1. CASE N = 0
      BY <1>2, <1>7, <1>8, <2>1
    <2>2. CASE N > 0
      <3>1. 1 \in 1..N
        BY <1>1, <2>2
      <3> QED BY <1>2, <1>5, <1>6, <1>8, <3>1
    <2> QED BY <1>1, <2>1, <2>2
  <1>10. RowsStay(LevelEnd(1))
    BY <1>2, <1>8 DEF RowsStay
  <1>11. \A j \in 1..N : marks'[j] \in 0..Len(chain')
    BY <1>1, <1>2, <1>5
  <1>12. marks' \in Seq(0..Len(chain')) /\ (marks' = <<>> <=> N = 0)
    <2> DEFINE S == 0..Len(chain')
    <2>1. \A j \in 1..N : marks'[j] \in S
      BY <1>11
    <2> HIDE DEF S
    <2>2. marks' \in Seq(S)
      <3>1. marks' \in [1..N -> Nat]
        BY <1>1, LenProperties
      <3>2. marks' \in [1..N -> S]
        BY <2>1, <3>1
      <3> QED BY <1>1, <3>2, SeqDef, SMTT(20)
    <2> QED BY <1>1, <2>2, EmptySeq DEF S
  <1>13. MarksOK'
    <2>1. \A j \in 1..N : marks'[j] <= Len(chain')
      BY <1>11
    <2>2. \A j \in 1..N : \A k \in 1..j : marks'[k] <= marks'[j]
      <3>1. ASSUME NEW j \in 1..N, NEW k \in 1..j PROVE marks'[k] <= marks'[j]
        <4>1. k \in 1..N
          BY <1>1
        <4> QED BY <1>1, <1>4, <1>5, <4>1
      <3> QED BY <3>1
    <2> QED BY <2>1, <2>2 DEF MarksOK
  <1> QED BY <1>1, <1>5, <1>6, <1>7, <1>8, <1>9, <1>10, <1>12, <1>13
-----------------------------------------------------------------------------
(* What each part of the invariant asks of a step.                          *)

(* The row of c suits a call that holds no seam. *)
RowFits(c, kind) ==
    /\ kind = "effect" => calls'[c].class # "ATOMIC"
    /\ kind \in {"success", "commit"} =>
          \/ calls'[c].class = "NON_ATOMIC"
          \/ calls'[c].class # "ATOMIC" /\ calls'[c].result = "returned"
    /\ kind = "abort" /\ calls'[c].class = "ATOMIC" => ~Written(Len(chain), c, "success")

(* A row that suits its call leaves every call settled. *)
LEMMA SettledAfter ==
    ASSUME TypeOK, NEW p, NEW c \in Nat, NEW kind, Rewritten(p, c, kind),
           NEW i \in Nat \ {0}, Settled(p, i)',
           c = i => RowFits(c, kind),
           c > 0 /\ calls'[i].class = "ATOMIC" => calls'[c].parent # i
    PROVE  Settled(Len(chain), i)'
  <1>1. PICK n : n = Len(chain')
    OBVIOUS
  <1>2. /\ p \in Nat /\ n \in Nat /\ p <= n /\ n <= p + 1 /\ p <= Len(chain) /\ Len(chain) \in Nat
    BY <1>1, RowsAfter, KernelShapes DEF Rewritten
  <1>3. \A k \in 1..n : \/ k \in 1..p
                        \/ /\ n = p + 1 /\ k = p + 1
                           /\ chain'[k] = [call |-> c, kind |-> kind]
                           /\ chain'[k].call = c /\ chain'[k].kind = kind
    BY <1>1, RowsAfter
  <1>4. \A x : Written(n, i, x)' => Written(p, i, x)' \/ (i = c /\ x = kind)
    <2>1. ASSUME NEW x, Written(n, i, x)' PROVE Written(p, i, x)' \/ (i = c /\ x = kind)
      <3>1. PICK k \in 1..n : chain'[k] = [call |-> i, kind |-> x]
        BY <2>1 DEF Written
      <3>2. CASE k \in 1..p
        BY <3>1, <3>2 DEF Written
      <3>3. CASE chain'[k] = [call |-> c, kind |-> kind]
        BY <3>1, <3>3
      <3> QED BY <1>3, <3>2, <3>3
    <2> QED BY <2>1
  <1>5. \A x : Written(p, i, x)' => Written(n, i, x)'
    BY <1>2 DEF Written
  <1>6. ASSUME calls'[i].class = "ATOMIC", Touched(n, i)' PROVE Written(n, i, "success")'
    <2>1. CASE Written(n, i, "effect")'
      <3>1. ~(i = c /\ kind = "effect")
        BY <1>6 DEF RowFits
      <3>2. Touched(p, i)'
        BY <1>4, <2>1, <3>1 DEF Touched
      <3> QED BY <1>5, <1>6, <3>2 DEF Settled
    <2>2. CASE \E k \in 1..n : chain'[k].call > 0 /\ calls'[chain'[k].call].parent = i
      <3>1. PICK k \in 1..n : chain'[k].call > 0 /\ calls'[chain'[k].call].parent = i
        BY <2>2
      <3>2. k \in 1..p
        BY <1>3, <1>6, <3>1
      <3>3. Touched(p, i)'
        BY <3>1, <3>2 DEF Touched
      <3> QED BY <1>5, <1>6, <3>3 DEF Settled
    <2> QED BY <1>6, <2>1, <2>2 DEF Touched
  <1>7. ASSUME calls'[i].class = "ATOMIC", Written(n, i, "success")', Written(n, i, "abort")'
        PROVE  FALSE
    <2>1. ~(i = c /\ kind = "success")
      BY <1>7 DEF RowFits
    <2>2. Written(p, i, "success")'
      BY <1>4, <1>7, <2>1
    <2>3. i = c /\ kind = "abort"
      BY <1>4, <1>7, <2>2 DEF Settled
    <2>4. ~Written(Len(chain), i, "success")
      BY <1>7, <2>3 DEF RowFits
    <2>5. Written(p, i, "success")
      BY <2>2, WrittenKept DEF Rewritten
    <2> QED BY <1>2, <2>4, <2>5 DEF Written
  <1>8. ASSUME calls'[i].class # "NON_ATOMIC", Written(n, i, "success")' \/ Written(n, i, "commit")'
        PROVE  calls'[i].result = "returned"
    <2>1. CASE i = c /\ kind \in {"success", "commit"}
      BY <1>8, <2>1 DEF RowFits
    <2>2. CASE ~(i = c /\ kind \in {"success", "commit"})
      <3>1. Written(p, i, "success")' \/ Written(p, i, "commit")'
        BY <1>4, <1>8, <2>2
      <3> QED BY <1>8, <3>1 DEF Settled
    <2> QED BY <2>1, <2>2
  <1>9. Settled(n, i)'
    BY <1>6, <1>7, <1>8 DEF Settled
  <1> QED BY <1>1, <1>9 DEF Settled, Touched, Written

(* Levels stay settled: the ones below by themselves, the top one by its new row. *)
LEMMA LevelsStep ==
    ASSUME TypeOK, AdmissionOK, MarksOK, RowsOK, NEW own, NEW new, LevelsOK(own), CallsEvolve, AdmissionOK',
           NEW p, NEW q, NEW c \in Nat, NEW kind, LevelStep(p, q, c, kind), SameHolders(own, new),
           NEW N, N = Len(marks'), c <= Len(calls'),
           \A i \in 1..Len(calls') :
              (\A h \in 1..N : new[h] # i)
                 => \/ \A h \in 1..(q - 1) : own[h] # i
                    \/ Settled(Len(chain), i)',
           c > 0 => RowFits(c, kind) \/ \E h \in 1..N : new[h] = c,
           c > 0 /\ calls'[c].parent > 0 /\ calls'[calls'[c].parent].class = "ATOMIC"
              => \E h \in 1..N : new[h] = calls'[c].parent
    PROVE  LevelsOK(new)'
  <1>1. PICK M : M = Len(marks)
    OBVIOUS
  <1>2. /\ M \in Nat /\ N \in Nat /\ q \in Nat /\ N <= q /\ q <= M + 1
        /\ \A j \in 1..N : /\ LevelEnd(j)' = LevelEnd(j) /\ LevelEnd(j) \in 0..Len(chain)
                           /\ RowsStay(LevelEnd(j)) /\ j \in 1..(M + 1)
        /\ LevelEnd(N + 1)' = Len(chain')
    BY <1>1, LevelsAfter
  <1>same. \A j \in 1..N : j <= M => new[j] = own[j]
    BY <1>1 DEF SameHolders
  <1>3. Len(calls) \in Nat /\ Len(calls') \in Nat /\ \A i \in 1..Len(calls') : i \in Nat
    BY KernelShapes DEF CallsEvolve
  <1>4. /\ p \in 0..Len(chain) /\ RowsStay(p) /\ Rewritten(p, c, kind) /\ p = LevelEnd(q) /\ q \in 1..(M + 1)
    BY <1>1 DEF LevelStep, Rewritten
  <1>5. ASSUME NEW j \in 1..N, NEW i \in 1..Len(calls'), \A h \in 1..(j - 1) : new[h] # i
        PROVE  Settled(LevelEnd(j), i)'
    <2>1. PICK n : n = LevelEnd(j)
      OBVIOUS
    <2>2. n \in 0..Len(chain) /\ RowsStay(n) /\ LevelEnd(j)' = n
      BY <1>2, <2>1
    <2>3. \A h \in 1..(j - 1) : own[h] # i
      <3>1. M \in Nat /\ N \in Nat /\ N <= M + 1
        <4>1. M \in Nat /\ N \in Nat /\ q \in Nat /\ N <= q /\ q <= M + 1
          BY <1>2
        <4> QED BY <4>1
      <3>2. \A h \in 1..(j - 1) : h \in 1..N /\ h <= M
        BY <3>1
      <3> QED BY <1>same, <1>5, <3>2
    <2>4. Settled(n, i)'
      <3>1. CASE i \in 1..Len(calls)
        <4>1. j \in 1..(Len(marks) + 1)
          BY <1>1, <1>2
        <4>2. Settled(n, i)
          BY <2>1, <2>3, <3>1, <4>1 DEF LevelsOK
        <4> QED BY <2>2, <3>1, <4>2, SettledKept
      <3>2. CASE i > Len(calls)
        BY <1>3, <2>2, <3>2, SettledFresh
      <3> QED BY <1>3, <3>1, <3>2
    <2> QED BY <2>2, <2>4 DEF Settled, Touched, Written
  <1>6. ASSUME NEW i \in 1..Len(calls'), \A h \in 1..N : new[h] # i
        PROVE  Settled(Len(chain), i)'
    <2>1. SUFFICES ASSUME \A h \in 1..(q - 1) : own[h] # i PROVE Settled(Len(chain), i)'
      BY <1>6
    <2>2. Settled(p, i)'
      <3>1. CASE i \in 1..Len(calls)
        <4>1. Settled(p, i)
          BY <1>1, <1>4, <2>1, <3>1 DEF LevelsOK
        <4> QED BY <1>4, <3>1, <4>1, SettledKept
      <3>2. CASE i > Len(calls)
        BY <1>3, <1>4, <3>2, SettledFresh
      <3> QED BY <1>3, <3>1, <3>2
    <2>3. c = i => RowFits(c, kind)
      BY <1>3, <1>6
    <2>4. c > 0 /\ calls'[i].class = "ATOMIC" => calls'[c].parent # i
      BY <1>3, <1>6
    <2>5. i \in Nat \ {0}
      BY <1>3
    <2> QED BY <1>4, <2>2, <2>3, <2>4, <2>5, SettledAfter
  <1>7. ASSUME NEW j \in 1..(N + 1), NEW i \in 1..Len(calls'), \A h \in 1..(j - 1) : new[h] # i
        PROVE  Settled(LevelEnd(j), i)'
    <2>1. CASE j \in 1..N
      BY <1>5, <1>7, <2>1
    <2>2. CASE j = N + 1
      <3>0. \A h \in 1..N : new[h] # i
        <4>1. 1..(j - 1) = 1..N
          BY <1>2, <2>2
        <4> QED BY <1>7, <4>1, Zenon
      <3>1. Settled(Len(chain), i)'
        BY <1>6, <3>0, Zenon
      <3>2. PICK n : n = Len(chain')
        OBVIOUS
      <3>3. Settled(n, i)'
        BY <3>1, <3>2 DEF Settled, Touched, Written
      <3>4. LevelEnd(j)' = n
        BY <1>2, <2>2, <3>2
      <3> QED BY <3>3, <3>4 DEF Settled, Touched, Written
    <2>3. j \in 1..N \/ j = N + 1
      <3>1. N \in Nat
        BY <1>2
      <3> QED BY <3>1
    <2> QED BY <2>1, <2>2, <2>3, Zenon
  <1> QED BY <1>7 DEF LevelsOK

(* The file only grows, so what it shows of old calls it goes on to show. *)
LEMMA FileStep ==
    ASSUME TypeOK, MarksOK, FileOK, CallsEvolve,
           NEW p, NEW q, NEW c \in Nat, NEW kind, LevelStep(p, q, c, kind),
           \A k \in 1..Len(stack') :
              calls'[CallAt(k)'].parent = 0 /\ ClassAt(k)' = "NON_ATOMIC" /\ stack'[k].step \in {"effect", "failing"}
                 => \/ /\ k <= Len(stack) /\ CallAt(k)' = CallAt(k) /\ ClassAt(k) = "NON_ATOMIC"
                       /\ stack[k].step \in {"effect", "failing"}
                    \/ Written(LevelEnd(1), CallAt(k), "success")',
           \A i \in 1..Len(calls') :
              calls'[i].result = "returned" /\ calls'[i].parent = 0
                 => \/ i <= Len(calls) /\ calls[i].result = "returned"
                    \/ Written(LevelEnd(1), i, "success")'
                    \/ Written(LevelEnd(1), i, "commit")',
           status' = "ACTIVE" =>
              status = "ACTIVE" \/ \E k \in 1..LevelEnd(1)' : chain'[k].kind = "legend_seal"
    PROVE  FileOK'
  <1>1. PICK e, n : e = LevelEnd(1) /\ n = LevelEnd(1)'
    OBVIOUS
  <1>2. e \in Nat /\ n \in Nat /\ e <= n /\ \A k \in 1..e : chain'[k] = chain[k]
    <2>1. /\ LevelEnd(1) \in 0..Len(chain) /\ LevelEnd(1)' \in Nat
          /\ LevelEnd(1) <= LevelEnd(1)' /\ RowsStay(LevelEnd(1))
      BY LevelsAfter
    <2> QED BY <1>1, <2>1 DEF RowsStay
  <1>3. \A i, x : Written(e, i, x) => Written(n, i, x)'
    BY <1>2 DEF Written
  <1>4. \A i, x : Written(n, i, x)' => Written(LevelEnd(1), i, x)'
    BY <1>1 DEF Written
  <1>5. \A i, x : Written(LevelEnd(1), i, x) => Written(LevelEnd(1), i, x)'
    BY <1>1, <1>3, <1>4
  <1>6. Len(stack) \in Nat /\ Len(calls) \in Nat /\ Len(calls') \in Nat
    BY KernelShapes DEF CallsEvolve
  <1>7. ASSUME NEW k \in 1..Len(stack'), calls'[CallAt(k)'].parent = 0, ClassAt(k)' = "NON_ATOMIC",
               stack'[k].step \in {"effect", "failing"}
        PROVE  Written(LevelEnd(1), CallAt(k), "success")'
    <2>1. CASE /\ k <= Len(stack) /\ CallAt(k)' = CallAt(k) /\ ClassAt(k) = "NON_ATOMIC"
               /\ stack[k].step \in {"effect", "failing"}
      <3>1. k \in 1..Len(stack) /\ calls[CallAt(k)].parent = 0
        <4>1. k \in 1..Len(stack)
          BY <1>6, <2>1
        <4>2. CallAt(k) \in 1..Len(calls)
          BY <4>1, KernelShapes DEF CallAt
        <4> QED BY <1>7, <2>1, <4>1, <4>2 DEF CallsEvolve
      <3>2. Written(LevelEnd(1), CallAt(k), "success")
        BY <2>1, <3>1 DEF FileOK
      <3>3. PICK i : i = CallAt(k)
        OBVIOUS
      <3>4. Written(LevelEnd(1), i, "success")'
        BY <1>5, <3>2, <3>3
      <3> QED BY <2>1, <3>3, <3>4 DEF Written
    <2> QED BY <1>7, <2>1
  <1>8. ASSUME NEW i \in 1..Len(calls'), calls'[i].result = "returned", calls'[i].parent = 0
        PROVE  Written(LevelEnd(1), i, "success")' \/ Written(LevelEnd(1), i, "commit")'
    <2>1. CASE i <= Len(calls) /\ calls[i].result = "returned"
      <3>1. i \in 1..Len(calls) /\ calls[i].parent = 0
        BY <1>6, <1>8, <2>1 DEF CallsEvolve
      <3>2. Written(LevelEnd(1), i, "success") \/ Written(LevelEnd(1), i, "commit")
        BY <2>1, <3>1 DEF FileOK
      <3> QED BY <1>5, <3>2
    <2> QED BY <1>8, <2>1
  <1>9. status' = "ACTIVE" => \E k \in 1..LevelEnd(1)' : chain'[k].kind = "legend_seal"
    BY <1>1, <1>2 DEF FileOK
  <1> QED BY <1>7, <1>8, <1>9 DEF FileOK

(* A governed decision is written over a legend_seal. *)
LEMMA FoundedStep ==
    ASSUME TypeOK, RowsOK, FoundedBeforeGoverned, CallsEvolve,
           NEW p, NEW c \in Nat, NEW kind, Rewritten(p, c, kind),
           kind = "gate_admit" /\ calls'[c].governed
              => \E j \in 1..p : chain[j].kind = "legend_seal"
    PROVE  FoundedBeforeGoverned'
  <1>1. PICK n : n = Len(chain')
    OBVIOUS
  <1>2. /\ p \in Nat /\ n \in Nat
        /\ \A k \in 1..n : \/ k \in 1..p /\ k \in 1..Len(chain) /\ chain'[k] = chain[k]
                           \/ /\ n = p + 1 /\ k = p + 1
                              /\ chain'[k].call = c /\ chain'[k].kind = kind
        /\ \A j \in 1..p : chain'[j] = chain[j]
    BY <1>1, RowsAfter DEF Rewritten, RowsStay
  <1>3. ASSUME NEW k \in 1..n, chain'[k].kind = "gate_admit", calls'[chain'[k].call].governed
        PROVE  \E j \in 1..(k - 1) : chain'[j].kind = "legend_seal"
    <2>1. CASE k \in 1..p /\ k \in 1..Len(chain) /\ chain'[k] = chain[k]
      <3>1. chain[k].kind = "gate_admit" /\ chain[k].call \in Nat /\ chain[k].call <= Len(calls)
            /\ chain[k].call > 0 /\ Len(calls) \in Nat
        BY <1>3, <2>1, KernelShapes DEF RowsOK, RowCallsOK
      <3>2. calls[chain[k].call].governed
        BY <1>3, <2>1, <3>1 DEF CallsEvolve
      <3>3. PICK j \in 1..(k - 1) : chain[j].kind = "legend_seal"
        BY <2>1, <3>1, <3>2 DEF FoundedBeforeGoverned
      <3>4. j \in 1..p
        BY <1>2, <2>1
      <3> QED BY <1>2, <3>3, <3>4
    <2>2. CASE n = p + 1 /\ k = p + 1 /\ chain'[k].call = c /\ chain'[k].kind = kind
      <3>1. PICK j \in 1..p : chain[j].kind = "legend_seal"
        BY <1>3, <2>2
      <3> QED BY <1>2, <2>2, <3>1
    <2> QED BY <1>2, <2>1, <2>2
  <1> QED BY <1>1, <1>3 DEF FoundedBeforeGoverned

(* Rows name the calls that were made. *)
LEMMA RowCallsStep ==
    ASSUME TypeOK, RowsOK, CallsEvolve, NEW p, NEW c \in Nat, NEW kind, Rewritten(p, c, kind),
           c <= Len(calls'), kind = "gate_admit" => c > 0
    PROVE  RowCallsOK'
  <1>1. PICK n : n = Len(chain')
    OBVIOUS
  <1>2. \A k \in 1..n : \/ k \in 1..Len(chain) /\ chain'[k] = chain[k]
                        \/ chain'[k].call = c /\ chain'[k].kind = kind
    <2>1. p \in Nat /\ Len(chain) \in Nat /\ p <= Len(chain) /\ (n = p \/ n = p + 1)
      BY <1>1, KernelShapes DEF Rewritten
    <2>2. \A k \in 1..p : chain'[k] = chain[k]
      BY DEF Rewritten, RowsStay
    <2>3. n = p + 1 => chain'[p + 1] = [call |-> c, kind |-> kind]
      BY <1>1 DEF Rewritten
    <2> QED BY <2>1, <2>2, <2>3
  <1>3. Len(calls) \in Nat /\ Len(calls') \in Nat /\ Len(calls) <= Len(calls')
    BY KernelShapes DEF CallsEvolve
  <1>4. ASSUME NEW k \in 1..n
        PROVE  chain'[k].call <= Len(calls') /\ (chain'[k].kind = "gate_admit" => chain'[k].call > 0)
    <2>1. CASE k \in 1..Len(chain) /\ chain'[k] = chain[k]
      <3>1. chain[k].call \in Nat /\ chain[k].call <= Len(calls)
            /\ (chain[k].kind = "gate_admit" => chain[k].call > 0)
        BY <2>1, KernelShapes DEF RowsOK, RowCallsOK
      <3> QED BY <1>3, <2>1, <3>1
    <2>2. CASE chain'[k].call = c /\ chain'[k].kind = kind
      BY <2>2
    <2> QED BY <1>2, <2>1, <2>2
  <1> QED BY <1>1, <1>4 DEF RowCallsOK

(* The calls that hold seams write no abort. *)
LEMMA SeamRowsStep ==
    ASSUME TypeOK, MarksOK, RowsOK, NEW own, NEW new, SeamRowsOK(own),
           NEW p, NEW q, NEW c \in Nat, NEW kind, LevelStep(p, q, c, kind), SameHolders(own, new),
           NEW M, M = Len(marks), NEW N, N = Len(marks'),
           kind = "abort" => \A j \in 1..N : new[j] # c,
           N > M => OnlyDecided(Len(chain), new[N])
    PROVE  SeamRowsOK(new)'
  <1>1. PICK n : n = Len(chain')
    OBVIOUS
  <1>2. Rewritten(p, c, kind) /\ p \in Nat /\ p <= Len(chain) /\ Len(chain) \in Nat
    BY KernelShapes DEF LevelStep, Rewritten
  <1>3. ASSUME NEW i, ~Written(p, i, "abort"), Written(n, i, "abort")'
        PROVE  i = c /\ kind = "abort"
    <2>1. PICK k \in 1..n : chain'[k] = [call |-> i, kind |-> "abort"]
      BY <1>3 DEF Written
    <2>2. \A j \in 1..p : chain'[j] = chain[j]
      BY <1>2 DEF Rewritten, RowsStay
    <2>3. k \notin 1..p
      BY <1>3, <2>1, <2>2 DEF Written
    <2>4. n = p + 1 /\ k = p + 1
      BY <1>1, <1>2, <2>3 DEF Rewritten
    <2>5. chain'[k] = [call |-> c, kind |-> kind]
      BY <1>1, <1>2, <2>4 DEF Rewritten
    <2> QED BY <2>1, <2>5
  <1>4. /\ M \in Nat /\ N \in Nat /\ N <= M + 1
        /\ \A j \in 1..N : marks'[j] = LevelEnd(j) /\ RowsStay(LevelEnd(j))
    <2>1. /\ M \in Nat /\ N \in Nat /\ q \in Nat /\ N <= q /\ q <= M + 1
          /\ \A j \in 1..N : marks'[j] = LevelEnd(j) /\ RowsStay(LevelEnd(j))
      BY LevelsAfter
    <2> QED BY <2>1
  <1>same. \A j \in 1..N : j <= M => new[j] = own[j]
    BY DEF SameHolders
  <1>5. ASSUME NEW j \in 1..N
        PROVE  OnlyDecided(marks[j], new[j])' /\ ~Written(Len(chain), new[j], "abort")'
    <2>1. PICK a, b : a = marks'[j] /\ b = new[j]
      OBVIOUS
    <2>2. /\ OnlyDecided(a, b) /\ ~Written(p, b, "abort") /\ RowsStay(a)
      <3>1. CASE j <= M
        <4>1. j \in 1..Len(marks) /\ a = marks[j] /\ b = own[j]
          BY <1>same, <1>4, <2>1, <3>1 DEF LevelEnd
        <4>2. OnlyDecided(marks[j], own[j]) /\ ~Written(Len(chain), own[j], "abort")
          BY <4>1 DEF SeamRowsOK
        <4>3. ~Written(p, b, "abort")
          BY <1>2, <4>1, <4>2 DEF Written
        <4> QED BY <1>4, <2>1, <4>1, <4>2, <4>3
      <3>2. CASE j > M
        <4>1. j = N /\ N > M /\ a = Len(chain)
          BY <1>4, <2>1, <3>2 DEF LevelEnd
        <4>2. OnlyDecided(Len(chain), b)
          BY <2>1, <4>1
        <4>3. ~Written(p, b, "abort")
          BY <1>2, <4>2 DEF Written, OnlyDecided
        <4> QED BY <1>4, <2>1, <4>1, <4>2, <4>3
      <3> QED BY <1>4, <3>1, <3>2
    <2>3. OnlyDecided(a, b)'
      BY <2>2, WrittenKept
    <2>4. ~Written(n, b, "abort")'
      BY <1>3, <2>1, <2>2
    <2> QED BY <1>1, <2>1, <2>3, <2>4 DEF OnlyDecided, Written
  <1> QED BY <1>5 DEF SeamRowsOK

(* Strict calls have their warrant before they act or succeed. *)
LEMMA WarrantStep ==
    ASSUME TypeOK, RowsOK, WarrantBeforeEffect, CallsEvolve,
           NEW p, NEW c \in Nat, NEW kind, Rewritten(p, c, kind),
           warrants \subseteq warrants', acts \subseteq 1..Len(calls),
           \A i \in acts' : i \notin acts /\ calls'[i].strict => i \in warrants',
           kind = "success" /\ calls'[c].strict => c \in warrants'
    PROVE  WarrantBeforeEffect'
  <1>1. PICK n : n = Len(chain')
    OBVIOUS
  <1>2. /\ p \in Nat /\ Len(chain) \in Nat /\ p <= Len(chain) /\ Len(calls) \in Nat
        /\ \A i, x : Written(n, i, x)' => Written(p, i, x) \/ (n = p + 1 /\ i = c /\ x = kind)
    <2>1. p \in Nat /\ Len(chain) \in Nat /\ p <= Len(chain) /\ Len(calls) \in Nat
      BY KernelShapes DEF Rewritten
    <2>2. \A i, x : Written(n, i, x)' => Written(p, i, x) \/ (n = p + 1 /\ i = c /\ x = kind)
      BY <1>1, WrittenAfter
    <2> QED BY <2>1, <2>2
  <1>3. ASSUME NEW i \in 1..Len(calls'), calls'[i].strict, i \in acts PROVE i \in warrants'
    <2>1. calls[i].strict
      BY <1>3 DEF CallsEvolve
    <2> QED BY <1>3, <2>1 DEF WarrantBeforeEffect
  <1>4. ASSUME NEW i \in 1..Len(calls'), calls'[i].strict, Written(n, i, "success")'
        PROVE  i \in warrants'
    <2>1. CASE Written(p, i, "success")
      <3>1. PICK k \in 1..p : chain[k] = [call |-> i, kind |-> "success"]
        BY <2>1 DEF Written
      <3>2. k \in 1..Len(chain) /\ chain[k].call = i
        BY <1>2, <3>1
      <3>3. i \in 1..Len(calls)
        BY <1>2, <3>2 DEF RowsOK, RowCallsOK
      <3>4. calls[i].strict
        BY <1>4, <3>3 DEF CallsEvolve
      <3>5. Receipted(chain, i, "success")
        BY <3>1, <3>2 DEF Receipted
      <3> QED BY <3>3, <3>4, <3>5 DEF WarrantBeforeEffect
    <2>2. CASE i = c /\ kind = "success"
      BY <1>4, <2>2
    <2> QED BY <1>2, <1>4, <2>1, <2>2
  <1>5. \A i : Receipted(chain', i, "success") => Written(n, i, "success")'
    BY <1>1 DEF Receipted, Written
  <1> QED BY <1>3, <1>4, <1>5 DEF WarrantBeforeEffect
-----------------------------------------------------------------------------
(* Steps of the top call, by what they do to the stack.                     *)

(* Calls keep their terms. *)
LEMMA AdmissionKept ==
    ASSUME TypeOK, AdmissionOK, CallsEvolve, Len(calls') = Len(calls)
    PROVE  AdmissionOK'
  BY DEF AdmissionOK, CallsEvolve

(* The top call moves to step s; h and a: whether it holds a seam before and after. *)
TopMoves(s, h, a, q) ==
    /\ stack # <<>> /\ s \in Step /\ Goto(s)
    /\ h \in {0, 1} /\ (Holds(Len(stack)) <=> h = 1)
    /\ a \in {0, 1} /\ (Class = "ATOMIC" /\ s \in HoldSteps <=> a = 1)
    /\ marks' \in Seq(Nat) /\ Len(marks') = Len(marks) + a - h
    /\ q \in 1..(Len(marks) + 1) /\ Len(marks') <= q /\ q - 1 <= Len(marks')
    /\ \A j \in 1..Len(marks') : marks'[j] = LevelEnd(j)

(* The row such a step may append is the top call's, and neither decides nor aborts. *)
TopWrites(q, h, a, c, kind) ==
    /\ Rewritten(LevelEnd(q), c, kind)
    /\ c \in {0, Me} /\ kind \notin {"gate_admit", "abort"}
    /\ c = Me => RowFits(Me, kind) \/ (h = 1 /\ a = 1)
    /\ kind = "success" => c = Me /\ (calls[Me].strict => Me \in warrants')

(* What the call has written by the time it is at step s. *)
RowsFitStep(s, m) ==
    /\ s \in {"admitted", "ready", "aborting"} => OnlyDecided(Len(chain), m)
    /\ s \in {"admitted", "ready"} => Written(Len(chain), m, "gate_admit")
    /\ s = "releasing" => Written(Len(chain), m, "success")

(* Its warrant and its effect. *)
WarrantAndAct(s, m) ==
    /\ StepFits(s, Class) /\ (s # "admitted" /\ calls[m].strict => m \in warrants')
    /\ warrants \subseteq warrants' /\ warrants' \subseteq warrants \cup {m}
    /\ acts' \subseteq acts \cup {m}
    /\ m \in acts' /\ m \notin acts /\ calls[m].strict => m \in warrants'
    /\ calls[m].parent = 0 /\ Class = "NON_ATOMIC" /\ s \in {"effect", "failing"} =>
          Top.step \in {"effect", "failing"} \/ Written(LevelEnd(1), m, "success")'
    /\ status' = status /\ config' = config

(* A move of the top call keeps the invariant. *)
LEMMA GotoKeeps ==
    ASSUME KernelInv, NEW s, NEW h, NEW a, NEW q, TopMoves(s, h, a, q),
           NEW c, NEW kind, TopWrites(q, h, a, c, kind),
           NEW m, m = Me, RowsFitStep(s, m)', WarrantAndAct(s, m),
           Len(marks') > Len(marks) => OnlyDecided(Len(chain), m)
    PROVE  KernelInv'
  <1>inv. PICK own : InvOf(own)
    BY DEF KernelInv
  <1>0. /\ TypeOK /\ AdmissionOK /\ StackOK /\ SeamsOK(own) /\ MarksOK /\ RowsOK /\ SeamRowsOK(own)
        /\ LevelsOK(own) /\ FileOK /\ FoundedBeforeGoverned /\ WarrantBeforeEffect
    BY <1>inv DEF InvOf
  <1>len. PICK L, M, N : L = Len(stack) /\ M = Len(marks) /\ N = Len(marks')
    OBVIOUS
  <1>top. stack # <<>> /\ s \in Step /\ Goto(s)
    BY DEF TopMoves
  <1>1. /\ L \in Nat \ {0} /\ m \in 1..Len(calls) /\ stack[L].call = m /\ Top.step = stack[L].step
        /\ Len(stack') = L /\ stack'[L].call = m /\ stack'[L].step = s
        /\ \A k \in 1..(L - 1) : stack'[k] = stack[k]
        /\ stack' \in Seq([call : 1..Len(calls'), step : Step])
        /\ calls' = calls /\ CallsEvolve
    BY <1>0, <1>len, <1>top, GotoShape
  <1>2. StackOK'
    <2>1. StepFits(s, Class) /\ warrants \subseteq warrants' /\ (s # "admitted" /\ calls[Me].strict => Me \in warrants')
      BY DEF WarrantAndAct
    <2> QED BY <1>0, <1>top, <2>1, StackGoto
  <1>3. /\ h \in {0, 1} /\ (Holds(L) <=> h = 1)
        /\ a \in {0, 1} /\ (Class = "ATOMIC" /\ s \in HoldSteps <=> a = 1)
        /\ marks' \in Seq(Nat) /\ N \in Nat /\ N = M + a - h
        /\ q \in 1..(M + 1) /\ N <= q /\ q - 1 <= N
        /\ \A j \in 1..N : marks'[j] = LevelEnd(j)
        /\ marks' = <<>> <=> N = 0
    BY <1>len, LenProperties, EmptySeq DEF TopMoves
  <1>4. PICK new : /\ SeamsOK(new)' /\ SameHolders(own, new)
                   /\ Len(marks') = Len(marks) + 1 => new[Len(marks')] = Me
    <2>1. SeamMoves(s, h, a)
      BY <1>len, <1>top, <1>3 DEF SeamMoves
    <2> QED BY <1>0, <1>top, <2>1, SeamsGoto
  <1>same. /\ \A j \in 1..N : j <= M => new[j] = own[j]
           /\ N = M + 1 => new[N] = m
    BY <1>len, <1>4 DEF SameHolders
  <1>5. /\ M \in Nat /\ calls[m].class = Class
        /\ Holds(L) => M > 0 /\ own[M] = m
        /\ calls[m].parent \in 1..Len(calls) /\ calls[calls[m].parent].class = "ATOMIC"
             => \E g \in 1..M : own[g] = calls[m].parent /\ own[g] # m
    BY <1>0, <1>len, <1>top, TopAndSeams, KernelShapes
  <1>6. PICK p : p = LevelEnd(q)
    OBVIOUS
  <1>7. /\ Rewritten(p, c, kind) /\ c \in {0, m} /\ kind \notin {"gate_admit", "abort"}
        /\ c = m => RowFits(m, kind) \/ (h = 1 /\ a = 1)
        /\ kind = "success" => c = m /\ (calls[m].strict => m \in warrants')
    BY <1>6 DEF TopWrites
  <1>8. c \in Nat /\ c <= Len(calls') /\ Len(calls) \in Nat /\ (c > 0 => c = m)
    <2>1. Len(calls) \in Nat
      BY <1>0, KernelShapes
    <2> QED BY <1>1, <1>7, <2>1
  <1>9. LevelStep(p, q, c, kind)
    BY <1>len, <1>3, <1>6, <1>7 DEF LevelStep
  <1>10. /\ marks' \in Seq(0..Len(chain')) /\ MarksOK'
    BY <1>0, <1>8, <1>9, LevelsAfter
  <1>11. AdmissionOK'
    BY <1>0, <1>1, AdmissionKept
  <1>12. TypeOK'
    <2>1. chain' \in Seq([call : 0..MaxCalls, kind : Kind])
      BY <1>7 DEF Rewritten, RowRecord
    <2>2. acts' \subseteq 1..Len(calls') /\ warrants' \subseteq 1..Len(calls')
      <3>1. acts \subseteq 1..Len(calls) /\ warrants \subseteq 1..Len(calls)
        BY <1>0 DEF TypeOK
      <3>2. acts' \subseteq acts \cup {m} /\ warrants' \subseteq warrants \cup {m}
        BY DEF WarrantAndAct
      <3> QED BY <1>1, <3>1, <3>2
    <2>3. status' \in {"UNINITIALIZED", "ACTIVE"} /\ config' \in Config
      BY <1>0 DEF TypeOK, WarrantAndAct
    <2>4. calls' \in Seq([parent : 0..MaxCalls, governed : BOOLEAN, class : EffectClass,
                          warrant : BOOLEAN, strict : BOOLEAN,
                          result : {"open", "returned", "raised"}])
      BY <1>0, <1>1 DEF TypeOK
    <2>5. stack' \in Seq([call : 1..Len(calls'), step : Step])
      BY <1>1
    <2> QED BY <1>10, <2>1, <2>2, <2>3, <2>4, <2>5 DEF TypeOK
  <1>13. LevelsOK(new)'
    <2>1. ASSUME NEW i \in 1..Len(calls'), \A g \in 1..N : new[g] # i
          PROVE  \A g \in 1..(q - 1) : own[g] # i
      <3>1. \A g \in 1..(q - 1) : g \in 1..N /\ g <= M
        BY <1>3, <1>5
      <3> QED BY <1>same, <1>4, <2>1, <3>1
    <2>2. M <= N => \A g \in 1..M : g \in 1..N /\ new[g] = own[g]
      BY <1>3, <1>same, <1>4, <1>5
    <2>3. c > 0 => RowFits(c, kind) \/ \E g \in 1..N : new[g] = c
      <3>1. h = 1 /\ a = 1 => M \in 1..M /\ own[M] = m /\ M <= N
        BY <1>3, <1>5
      <3> QED BY <1>7, <1>8, <2>2, <3>1
    <2>4. c > 0 /\ calls'[c].parent > 0 /\ calls'[calls'[c].parent].class = "ATOMIC"
             => \E g \in 1..N : new[g] = calls'[c].parent
      <3>1. SUFFICES ASSUME c > 0, calls[m].parent > 0, calls[calls[m].parent].class = "ATOMIC"
                     PROVE  \E g \in 1..N : new[g] = calls[m].parent
        BY <1>1, <1>8
      <3>2. calls[m].parent \in 1..Len(calls)
        <4>1. calls[m].parent \in Nat
          BY <1>0, <1>1, KernelShapes
        <4>2. calls[m].parent < m
          BY <1>0, <1>1 DEF AdmissionOK
        <4> QED BY <1>1, <1>8, <3>1, <4>1, <4>2
      <3>3. PICK g \in 1..M : own[g] = calls[m].parent /\ own[g] # m
        BY <1>5, <3>1, <3>2
      <3>4. CASE M <= N
        BY <2>2, <3>3, <3>4
      <3>5. CASE N < M
        <4>1. h = 1 /\ N = M - 1
          BY <1>3, <1>5, <3>5
        <4>2. g # M
          BY <1>3, <1>5, <3>3, <4>1
        <4>3. g \in 1..N /\ g <= M
          BY <1>5, <4>1, <4>2
        <4> QED BY <1>same, <1>4, <3>3, <4>3
      <3> QED BY <1>3, <1>5, <3>4, <3>5
    <2>5. \A i \in 1..Len(calls') :
             (\A g \in 1..N : new[g] # i)
                => \/ \A g \in 1..(q - 1) : own[g] # i
                   \/ Settled(Len(chain), i)'
      BY <2>1
    <2>6. CallsEvolve
      BY <1>1
    <2> QED BY <1>4, <1>0, <1>len, <1>8, <1>9, <1>11, <2>3, <2>4, <2>5, <2>6, LevelsStep, SMTT(20)
  <1>14. TopRowsOK'
    <2>1. Top'.step = s /\ Me' = m
      BY <1>1 DEF Top, Me
    <2> QED BY <2>1 DEF TopRowsOK, RowsFitStep, OnlyDecided, Written
  <1>15. RowsOK'
    <2>1. kind # "gate_admit" /\ kind # "abort" /\ CallsEvolve
      BY <1>1, <1>7
    <2>2. RowCallsOK'
      BY <1>0, <1>7, <1>8, <2>1, RowCallsStep
    <2> QED BY <1>14, <2>2 DEF RowsOK
  <1>seam. SeamRowsOK(new)'
    <2>1. kind # "abort"
      BY <1>7
    <2>3. N > M => OnlyDecided(Len(chain), new[N])
      <3>1. N > M => N = M + 1
        BY <1>3, <1>5
      <3> QED BY <1>len, <1>same, <1>4, <3>1
    <2> QED BY <1>4, <1>0, <1>len, <1>8, <1>9, <2>1, <2>3, SeamRowsStep
  <1>16. FileOK'
    <2>1. ASSUME NEW k \in 1..Len(stack'), calls'[CallAt(k)'].parent = 0, ClassAt(k)' = "NON_ATOMIC",
                 stack'[k].step \in {"effect", "failing"}
          PROVE  \/ /\ k <= Len(stack) /\ CallAt(k)' = CallAt(k) /\ ClassAt(k) = "NON_ATOMIC"
                    /\ stack[k].step \in {"effect", "failing"}
                 \/ Written(LevelEnd(1), CallAt(k), "success")'
      <3>1. CASE k \in 1..(L - 1)
        <4>1. stack'[k] = stack[k] /\ calls' = calls /\ k <= Len(stack)
          BY <1>len, <1>1, <3>1
        <4> QED BY <2>1, <4>1 DEF CallAt, ClassAt
      <3>2. CASE k = L
        <4>1. CallAt(k)' = CallAt(k) /\ CallAt(k) = m /\ k <= Len(stack)
          BY <1>len, <1>1, <3>2 DEF CallAt
        <4>2. /\ ClassAt(k) = Class /\ Class = "NON_ATOMIC" /\ s \in {"effect", "failing"}
              /\ calls[m].parent = 0
          BY <1>1, <1>5, <2>1, <3>2, <4>1 DEF ClassAt
        <4>3. CASE Top.step \in {"effect", "failing"}
          BY <1>1, <3>2, <4>1, <4>2, <4>3
        <4>4. CASE Written(LevelEnd(1), m, "success")'
          BY <4>1, <4>4 DEF Written
        <4> QED BY <4>2, <4>3, <4>4 DEF WarrantAndAct
      <3> QED BY <1>1, <3>1, <3>2
    <2>4. \A i \in 1..Len(calls') :
              calls'[i].result = "returned" /\ calls'[i].parent = 0
                 => \/ i <= Len(calls) /\ calls[i].result = "returned"
                    \/ Written(LevelEnd(1), i, "success")'
                    \/ Written(LevelEnd(1), i, "commit")'
      BY <1>1, <1>8
    <2>5. status' = "ACTIVE" =>
              status = "ACTIVE" \/ \E k \in 1..LevelEnd(1)' : chain'[k].kind = "legend_seal"
      BY DEF WarrantAndAct
    <2>6. CallsEvolve
      BY <1>1
    <2> QED BY <1>0, <1>8, <1>9, <2>1, <2>4, <2>5, <2>6, FileStep
  <1>17. FoundedBeforeGoverned'
    <2>1. kind = "gate_admit" /\ calls'[c].governed => \E j \in 1..p : chain[j].kind = "legend_seal"
      BY <1>7
    <2> QED BY <1>0, <1>1, <1>7, <1>8, <2>1, FoundedStep
  <1>18. WarrantBeforeEffect'
    <2>1. acts \subseteq 1..Len(calls) /\ warrants \subseteq warrants'
      BY <1>0 DEF TypeOK, WarrantAndAct
    <2>2. \A i \in acts' : i \notin acts /\ calls'[i].strict => i \in warrants'
      BY <1>1 DEF WarrantAndAct
    <2>3. kind = "success" /\ calls'[c].strict => c \in warrants'
      BY <1>1, <1>7
    <2> QED BY <1>0, <1>1, <1>7, <1>8, <2>1, <2>2, <2>3, WarrantStep
  <1> QED BY <1>2, <1>same, <1>4, <1>10, <1>11, <1>12, <1>13, <1>15, <1>seam, <1>16, <1>17, <1>18 DEF KernelInv, InvOf

(* The top call leaves; h: whether it holds a seam, which it then releases. *)
TopLeaves(res, h) ==
    /\ stack # <<>> /\ res \in {"returned", "raised"} /\ Finish(res)
    /\ h \in {0, 1} /\ (Holds(Len(stack)) <=> h = 1)
    /\ marks' \in Seq(Nat) /\ Len(marks') = Len(marks) - h
    /\ \A j \in 1..Len(marks') : marks'[j] = marks[j]
    /\ h = 1 => res = "returned" /\ chain' = chain /\ Written(Len(chain), Me, "success")
    /\ UNCHANGED <<status, config, acts, warrants>>

(* The outcome it may write. *)
OutcomeWritten(res, h, c, kind, m) ==
    /\ Rewritten(Len(chain), c, kind)
    /\ c \in {0, m} /\ kind # "gate_admit"
    /\ c = m => h = 0 /\ RowFits(m, kind)
    /\ kind = "abort" => c = m
    /\ kind = "success" => c = m /\ (calls[m].strict => m \in warrants)
    /\ res = "returned" /\ calls[m].parent = 0
          => Written(LevelEnd(1), m, "success")' \/ Written(LevelEnd(1), m, "commit")'

(* Leaving execute() keeps the invariant. *)
LEMMA FinishKeeps ==
    ASSUME KernelInv, NEW res, NEW h, TopLeaves(res, h),
           NEW c, NEW kind, NEW m, m = Me, OutcomeWritten(res, h, c, kind, m)
    PROVE  KernelInv'
  <1>inv. PICK own : InvOf(own)
    BY DEF KernelInv
  <1>0. /\ TypeOK /\ AdmissionOK /\ StackOK /\ SeamsOK(own) /\ MarksOK /\ RowsOK /\ SeamRowsOK(own)
        /\ LevelsOK(own) /\ FileOK /\ FoundedBeforeGoverned /\ WarrantBeforeEffect
    BY <1>inv DEF InvOf
  <1>len. PICK L, M, N, p : L = Len(stack) /\ M = Len(marks) /\ N = Len(marks') /\ p = Len(chain)
    OBVIOUS
  <1>top. stack # <<>> /\ res \in {"returned", "raised"} /\ Finish(res)
    BY DEF TopLeaves
  <1>1. /\ L \in Nat \ {0} /\ M \in Nat /\ m \in 1..Len(calls) /\ calls[m].result = "open"
        /\ calls[m].class = Class
        /\ Holds(L) => M > 0 /\ own[M] = m
        /\ ~Holds(L) => \A j \in 1..M : own[j] # m
        /\ \A j \in 1..(M - 1) : own[j] # m
        /\ calls[m].parent \in 1..Len(calls) /\ calls[calls[m].parent].class = "ATOMIC"
             => \E g \in 1..M : own[g] = calls[m].parent /\ own[g] # m
    BY <1>0, <1>len, <1>top, TopAndSeams, KernelShapes
  <1>2. /\ Len(stack') = L - 1 /\ stack[L].call = m
        /\ \A k \in 1..(L - 1) : stack'[k] = stack[k]
        /\ stack' \in Seq([call : 1..Len(calls'), step : Step])
        /\ calls' \in Seq(CallRecord) /\ Len(calls') = Len(calls)
        /\ calls'[m].result = res
        /\ \A i \in 1..Len(calls) : i # m => calls'[i] = calls[i]
        /\ CallsEvolve
    <2>1. TypeOK /\ calls[m].result = "open"
      BY <1>0, <1>1
    <2> QED BY <1>len, <1>top, <2>1, FinishShape, ZenonT(30)
  <1>ev. CallsEvolve
    BY <1>2
  <1>3. /\ h \in {0, 1} /\ (Holds(L) <=> h = 1)
        /\ marks' \in Seq(Nat) /\ N \in Nat /\ N = M - h
        /\ \A j \in 1..N : marks'[j] = marks[j]
        /\ marks' = <<>> <=> N = 0
        /\ h = 1 => res = "returned" /\ chain' = chain /\ Written(p, m, "success")
        /\ status' = status /\ config' = config /\ acts' = acts /\ warrants' = warrants
    BY <1>len, LenProperties, EmptySeq DEF TopLeaves
  <1>4. StackOK'
    <2>1. warrants \subseteq warrants'
      BY <1>3
    <2> QED BY <1>0, <1>top, <2>1, StackFinish
  <1>5. PICK new : SeamsOK(new)' /\ SameHolders(own, new)
    <2>1. SeamLeaves(res, h)
      BY <1>len, <1>top, <1>3 DEF SeamLeaves
    <2> QED BY <1>0, <1>top, <2>1, SeamsFinish
  <1>same. \A j \in 1..N : j <= M /\ new[j] = own[j]
    BY <1>len, <1>1, <1>3, <1>5 DEF SameHolders
  <1>6. /\ Rewritten(p, c, kind) /\ c \in {0, m} /\ kind # "gate_admit"
        /\ c = m => h = 0 /\ RowFits(m, kind)
        /\ kind = "abort" => c = m
        /\ kind = "success" => c = m /\ (calls[m].strict => m \in warrants)
    BY <1>len DEF OutcomeWritten
  <1>7. c \in Nat /\ c <= Len(calls') /\ Len(calls) \in Nat /\ (c > 0 => c = m)
    <2>1. Len(calls) \in Nat
      BY <1>0, KernelShapes
    <2> QED BY <1>1, <1>2, <1>6, <2>1
  <1>8. PICK q : q = M + 1
    OBVIOUS
  <1>9. LevelStep(p, q, c, kind)
    <2>1. LevelEnd(q) = p
      BY <1>len, <1>1, <1>8 DEF LevelEnd
    <2>2. \A j \in 1..N : marks'[j] = LevelEnd(j)
      BY <1>len, <1>3, <1>same, <1>5 DEF LevelEnd
    <2>3. q \in 1..(M + 1) /\ N <= q
      BY <1>1, <1>3, <1>8
    <2> QED BY <1>len, <1>3, <1>6, <2>1, <2>2, <2>3 DEF LevelStep
  <1>10. /\ marks' \in Seq(0..Len(chain')) /\ MarksOK'
    BY <1>0, <1>7, <1>9, LevelsAfter
  <1>11. AdmissionOK'
    BY <1>0, <1>2, AdmissionKept
  <1>12. TypeOK'
    <2>1. chain' \in Seq([call : 0..MaxCalls, kind : Kind])
      BY <1>6 DEF Rewritten, RowRecord
    <2>2. acts' \subseteq 1..Len(calls') /\ warrants' \subseteq 1..Len(calls')
      BY <1>0, <1>2, <1>3 DEF TypeOK
    <2>3. status' \in {"UNINITIALIZED", "ACTIVE"} /\ config' \in Config
      BY <1>0, <1>3 DEF TypeOK
    <2>4. calls' \in Seq([parent : 0..MaxCalls, governed : BOOLEAN, class : EffectClass,
                          warrant : BOOLEAN, strict : BOOLEAN,
                          result : {"open", "returned", "raised"}])
      BY <1>2 DEF CallRecord
    <2>5. stack' \in Seq([call : 1..Len(calls'), step : Step])
      BY <1>2
    <2> QED BY <1>10, <2>1, <2>2, <2>3, <2>4, <2>5 DEF TypeOK
  <1>13. LevelsOK(new)'
    <2>1. ASSUME NEW i \in 1..Len(calls'), \A g \in 1..N : new[g] # i
          PROVE  \/ \A g \in 1..(q - 1) : own[g] # i
                 \/ Settled(Len(chain), i)'
      <3>1. CASE h = 0
        BY <1>1, <1>3, <1>same, <1>5, <1>8, <2>1, <3>1
      <3>2. CASE h = 1 /\ i # m
        <4>1. \A g \in 1..(q - 1) : g \in 1..N \/ g = M
          BY <1>1, <1>3, <1>8, <3>2
        <4>2. own[M] # i
          BY <1>1, <1>3, <3>2
        <4> QED BY <1>same, <1>5, <2>1, <4>1, <4>2
      <3>3. CASE h = 1 /\ i = m
        <4>1. chain' = chain /\ Written(p, m, "success") /\ calls'[m].result = "returned"
          BY <1>2, <1>3, <3>3
        <4>2. ~Written(p, m, "abort")
          <5>1. M \in 1..Len(marks) /\ own[M] = m
            BY <1>len, <1>1, <1>3, <3>3
          <5> QED BY <1>0, <1>len, <5>1 DEF SeamRowsOK
        <4>3. Written(Len(chain), m, "success")' /\ ~Written(Len(chain), m, "abort")'
          BY <1>len, <4>1, <4>2 DEF Written
        <4> QED BY <3>3, <4>1, <4>3 DEF Settled
      <3> QED BY <1>3, <3>1, <3>2, <3>3
    <2>2. c > 0 => RowFits(c, kind) \/ \E g \in 1..N : new[g] = c
      BY <1>6, <1>7
    <2>3. c > 0 /\ calls'[c].parent > 0 /\ calls'[calls'[c].parent].class = "ATOMIC"
             => \E g \in 1..N : new[g] = calls'[c].parent
      <3>1. SUFFICES ASSUME c > 0, calls'[m].parent > 0, calls'[calls'[m].parent].class = "ATOMIC"
                     PROVE  \E g \in 1..N : new[g] = calls'[m].parent
        BY <1>7
      <3>2. calls'[m].parent = calls[m].parent /\ h = 0
        BY <1>ev, <1>1, <1>6, <1>7, <3>1 DEF CallsEvolve
      <3>3. calls[m].parent \in 1..Len(calls)
        <4>1. calls[m].parent \in Nat
          BY <1>0, <1>1, KernelShapes
        <4>2. calls[m].parent < m
          BY <1>0, <1>1 DEF AdmissionOK
        <4> QED BY <1>1, <1>7, <3>1, <3>2, <4>1, <4>2
      <3>4. calls[calls[m].parent].class = "ATOMIC"
        BY <1>ev, <3>1, <3>2, <3>3 DEF CallsEvolve
      <3>5. PICK g \in 1..M : own[g] = calls[m].parent /\ own[g] # m
        BY <1>1, <3>3, <3>4
      <3>6. g \in 1..N
        BY <1>1, <1>3, <3>2
      <3> QED BY <1>same, <1>5, <3>2, <3>5, <3>6
    <2>4. \A i \in 1..Len(calls') :
             (\A g \in 1..N : new[g] # i)
                => \/ \A g \in 1..(q - 1) : own[g] # i
                   \/ Settled(Len(chain), i)'
      BY <2>1
    <2> QED BY <1>5, <1>0, <1>len, <1>ev, <1>7, <1>9, <1>11, <2>2, <2>3, <2>4, LevelsStep, SMTT(30)
  <1>14. TopRowsOK'
    <2>1. SUFFICES ASSUME stack' # <<>> PROVE Top'.step = "effect"
      BY DEF TopRowsOK
    <2>2. L - 1 \in 1..(L - 1) /\ L - 1 \in 1..Len(stack) /\ L - 1 < Len(stack)
      <3>1. Len(stack') # 0
        BY <1>2, <2>1, EmptySeq
      <3> QED BY <1>len, <1>1, <1>2, <3>1
    <2>3. stack[L - 1].step = "effect"
      BY <1>0, <2>2 DEF StackOK
    <2> QED BY <1>2, <2>2, <2>3 DEF Top
  <1>15. RowsOK'
    <2>1. RowCallsOK'
      <3>1. kind # "gate_admit"
        BY <1>6
      <3> QED BY <1>0, <1>ev, <1>6, <1>7, <3>1, RowCallsStep
    <2> QED BY <1>14, <2>1 DEF RowsOK
  <1>seam. SeamRowsOK(new)'
    <2>2. kind = "abort" => \A j \in 1..N : new[j] # c
      <3>1. kind = "abort" => c = m /\ h = 0
        BY <1>6
      <3>2. h = 0 => \A j \in 1..M : own[j] # m
        BY <1>1, <1>3
      <3> QED BY <1>1, <1>3, <1>same, <1>5, <3>1, <3>2
    <2>3. N > M => OnlyDecided(Len(chain), new[N])
      BY <1>1, <1>3
    <2> QED BY <1>5, <1>0, <1>len, <1>7, <1>9, <2>2, <2>3, SeamRowsStep
  <1>16. FileOK'
    <2>1. ASSUME NEW k \in 1..Len(stack'), calls'[CallAt(k)'].parent = 0, ClassAt(k)' = "NON_ATOMIC",
                 stack'[k].step \in {"effect", "failing"}
          PROVE  /\ k <= Len(stack) /\ CallAt(k)' = CallAt(k) /\ ClassAt(k) = "NON_ATOMIC"
                 /\ stack[k].step \in {"effect", "failing"}
      <3>1. k \in 1..Len(stack) /\ stack'[k] = stack[k]
        <4>1. L \in Nat \ {0} /\ Len(stack') = L - 1
          BY <1>1, <1>2
        <4>2. k \in 1..(L - 1) /\ k \in 1..L
          BY <4>1
        <4>3. stack'[k] = stack[k]
          BY <1>2, <4>2, Zenon
        <4> QED BY <1>len, <4>2, <4>3, Zenon
      <3>2. stack[k].call \in 1..Len(calls)
        BY <1>0, <3>1, KernelShapes
      <3>3. calls'[stack[k].call].class = calls[stack[k].call].class
        BY <1>ev, <3>2 DEF CallsEvolve
      <3> QED BY <2>1, <3>1, <3>3 DEF CallAt, ClassAt
    <2>4. \A i \in 1..Len(calls') :
              calls'[i].result = "returned" /\ calls'[i].parent = 0
                 => \/ i <= Len(calls) /\ calls[i].result = "returned"
                    \/ Written(LevelEnd(1), i, "success")'
                    \/ Written(LevelEnd(1), i, "commit")'
      <3>1. ASSUME NEW i \in 1..Len(calls'), calls'[i].result = "returned", calls'[i].parent = 0
            PROVE  \/ i <= Len(calls) /\ calls[i].result = "returned"
                   \/ Written(LevelEnd(1), i, "success")'
                   \/ Written(LevelEnd(1), i, "commit")'
        <4>1. CASE i = m
          <5>1. res = "returned" /\ calls[m].parent = 0
            BY <1>ev, <1>1, <1>2, <3>1, <4>1 DEF CallsEvolve
          <5> QED BY <4>1, <5>1 DEF OutcomeWritten
        <4>2. CASE i # m
          BY <1>2, <1>7, <3>1, <4>2
        <4> QED BY <4>1, <4>2
      <3> QED BY <3>1
    <2>5. status' = "ACTIVE" =>
              status = "ACTIVE" \/ \E k \in 1..LevelEnd(1)' : chain'[k].kind = "legend_seal"
      BY <1>3
    <2>6. \A k \in 1..Len(stack') :
              calls'[CallAt(k)'].parent = 0 /\ ClassAt(k)' = "NON_ATOMIC" /\ stack'[k].step \in {"effect", "failing"}
                 => \/ /\ k <= Len(stack) /\ CallAt(k)' = CallAt(k) /\ ClassAt(k) = "NON_ATOMIC"
                       /\ stack[k].step \in {"effect", "failing"}
                    \/ Written(LevelEnd(1), CallAt(k), "success")'
      BY <2>1
    <2> QED BY <1>0, <1>ev, <1>7, <1>9, <2>4, <2>5, <2>6, FileStep
  <1>17. FoundedBeforeGoverned'
    <2>1. kind = "gate_admit" /\ calls'[c].governed => \E j \in 1..p : chain[j].kind = "legend_seal"
      BY <1>6
    <2> QED BY <1>0, <1>ev, <1>6, <1>7, <2>1, FoundedStep
  <1>18. WarrantBeforeEffect'
    <2>1. acts \subseteq 1..Len(calls) /\ warrants \subseteq warrants'
      BY <1>0, <1>3 DEF TypeOK
    <2>2. \A i \in acts' : i \notin acts /\ calls'[i].strict => i \in warrants'
      BY <1>3
    <2>3. kind = "success" /\ calls'[c].strict => c \in warrants'
      BY <1>ev, <1>1, <1>3, <1>6 DEF CallsEvolve
    <2> QED BY <1>0, <1>ev, <1>6, <1>7, <2>1, <2>2, <2>3, WarrantStep
  <1> QED BY <1>4, <1>same, <1>5, <1>10, <1>11, <1>12, <1>13, <1>15, <1>seam, <1>16, <1>17, <1>18 DEF KernelInv, InvOf
-----------------------------------------------------------------------------
(* Admission.                                                               *)

(* The least of a few numbers. *)
LEMMA MinIsMember ==
    ASSUME NEW S \in SUBSET (1..12), S # {}
    PROVE  Min(S) \in S
  <1>1. \E x \in S : \A y \in S : x <= y
    <2>0. SUFFICES ASSUME \A x \in S : \E y \in S : y < x PROVE FALSE
      OBVIOUS
    <2>1. 1 \notin S /\ 2 \notin S /\ 3 \notin S
      BY <2>0
    <2>2. 4 \notin S /\ 5 \notin S /\ 6 \notin S
      BY <2>0, <2>1
    <2>3. 7 \notin S /\ 8 \notin S /\ 9 \notin S
      BY <2>0, <2>1, <2>2
    <2>4. 10 \notin S /\ 11 \notin S /\ 12 \notin S
      BY <2>0, <2>1, <2>2, <2>3
    <2>5. ASSUME NEW x \in S PROVE FALSE
      <3>1. x \in 1..12
        OBVIOUS
      <3>2. \/ x = 1 \/ x = 2 \/ x = 3 \/ x = 4 \/ x = 5 \/ x = 6
            \/ x = 7 \/ x = 8 \/ x = 9 \/ x = 10 \/ x = 11 \/ x = 12
        BY <3>1
      <3> QED BY <2>1, <2>2, <2>3, <2>4, <3>2
    <2> QED BY <2>5
  <1> QED BY <1>1 DEF Min

(* An admitted call failed no check. *)
LEMMA AdmittedTerms ==
    ASSUME NEW r \in Requests, Verdict(r) = "gate_admit"
    PROVE  /\ Enforced(r) => status # "UNINITIALIZED"
           /\ Enforced(r) /\ config.requireWarrant => r.warrant
  <1> DEFINE C == Checks(r)
             failing == {k \in DOMAIN C : C[k].fails}
  <1>1. /\ DOMAIN C = 1..12
        /\ \A k \in 1..12 : C[k].verdict # "gate_admit"
        /\ C[3].fails = (r.tier # "universal" /\ status = "UNINITIALIZED")
        /\ C[7].fails = (Enforced(r) /\ config.requireWarrant /\ ~r.warrant)
    BY DEF Checks, ProtocolChecks, RefusalChecks
  <1>2. Verdict(r) = IF failing = {} THEN "gate_admit" ELSE C[Min(failing)].verdict
    BY DEF Verdict
  <1>3. failing = {}
    <2>1. SUFFICES ASSUME failing # {} PROVE FALSE
      OBVIOUS
    <2>2. Min(failing) \in 1..12
      <3>1. failing \subseteq 1..12
        BY <1>1
      <3> HIDE DEF failing
      <3> QED BY <2>1, <3>1, MinIsMember
    <2>3. C[Min(failing)].verdict = "gate_admit"
      BY <1>2, <2>1
    <2> HIDE DEF C, failing
    <2> QED BY <1>1, <2>2, <2>3
  <1>4. ~C[3].fails /\ ~C[7].fails
    <2> HIDE DEF C
    <2>1. 3 \in DOMAIN C /\ 7 \in DOMAIN C
      BY <1>1
    <2> QED BY <1>3, <2>1
  <1> HIDE DEF C, failing
  <1> QED BY <1>1, <1>4 DEF Enforced
-----------------------------------------------------------------------------
(* Around the calls.                                                        *)

(* A step that makes no call and moves none keeps the invariant. *)
LEMMA OutsideKeeps ==
    ASSUME KernelInv, MayCall, UNCHANGED <<marks, stack, calls, acts, warrants>>,
           NEW kind, Rewritten(Len(chain), 0, kind),
           kind # "gate_admit", kind # "abort", kind # "success",
           status' \in {"UNINITIALIZED", "ACTIVE"}, config' \in Config,
           status' = "ACTIVE" =>
              status = "ACTIVE" \/ \E k \in 1..LevelEnd(1)' : chain'[k].kind = "legend_seal"
    PROVE  KernelInv'
  <1>inv. PICK own : InvOf(own)
    BY DEF KernelInv
  <1>0. /\ TypeOK /\ AdmissionOK /\ StackOK /\ SeamsOK(own) /\ MarksOK /\ RowsOK /\ SeamRowsOK(own)
        /\ LevelsOK(own) /\ FileOK /\ FoundedBeforeGoverned /\ WarrantBeforeEffect
    BY <1>inv DEF InvOf
  <1>1. PICK M, p, q : M = Len(marks) /\ p = Len(chain) /\ q = M + 1
    OBVIOUS
  <1>2. /\ M \in Nat /\ Len(calls) \in Nat /\ Len(marks') = M /\ marks' \in Seq(Nat)
    <2>1. marks \in Seq(0..Len(chain)) /\ Len(chain) \in Nat
      BY <1>0, KernelShapes DEF TypeOK
    <2>2. marks \in Seq(Nat)
      BY <2>1, SeqMonotonic
    <2> QED BY <1>0, <1>1, <2>2, KernelShapes
  <1>3. CallsEvolve
    BY <1>2 DEF CallsEvolve
  <1>4. StackOK' /\ SeamsOK(own)' /\ AdmissionOK'
    <2>1. StackOK'
      BY <1>0 DEF StackOK, CallAt, ClassAt
    <2>2. SeamsOK(own)'
      <3>1. Len(stack) \in Nat /\ Len(marks') = Len(marks) /\ stack' = stack
        BY <1>0, KernelShapes
      <3>2. \A k \in 1..Len(stack) : k <= Len(stack) /\ Stays(k)
        BY <3>1 DEF Stays, CallAt, ClassAt, Holds
      <3> QED BY <1>0, <3>1, <3>2, SeamsKept
    <2>3. AdmissionOK'
      BY <1>0 DEF AdmissionOK
    <2> QED BY <2>1, <2>2, <2>3
  <1>5. \A j : CallAt(j)' = CallAt(j) /\ ClassAt(j)' = ClassAt(j)
    BY DEF CallAt, ClassAt
  <1>6. Rewritten(p, 0, kind)
    BY <1>1
  <1>7. LevelStep(p, q, 0, kind)
    <2>1. LevelEnd(q) = p
      BY <1>1, <1>2 DEF LevelEnd
    <2>2. \A j \in 1..M : marks'[j] = LevelEnd(j)
      BY <1>1, <1>2 DEF LevelEnd
    <2>3. q \in 1..(M + 1) /\ M <= q
      BY <1>1, <1>2
    <2> QED BY <1>1, <1>2, <1>6, <2>1, <2>2, <2>3 DEF LevelStep
  <1>same. SameHolders(own, own)
    BY DEF SameHolders
  <1>8. marks' \in Seq(0..Len(chain')) /\ MarksOK'
    BY <1>0, <1>7, LevelsAfter
  <1>9. TypeOK'
    <2>1. chain' \in Seq([call : 0..MaxCalls, kind : Kind])
      BY <1>6 DEF Rewritten, RowRecord
    <2> QED BY <1>0, <1>8, <2>1 DEF TypeOK
  <1>10. LevelsOK(own)'
    <2>1. \A i \in 1..Len(calls') :
             (\A g \in 1..M : own[g] # i)
                => \/ \A g \in 1..(q - 1) : own[g] # i
                   \/ Settled(Len(chain), i)'
      BY <1>1, <1>2, <1>5
    <2>2. 0 <= Len(calls') /\ M = Len(marks')
      BY <1>2
    <2> QED BY <1>same, <1>0, <1>3, <1>4, <1>7, <2>1, <2>2, LevelsStep
  <1>11. RowsOK' /\ SeamRowsOK(own)'
    <2>1. RowCallsOK'
      BY <1>0, <1>2, <1>3, <1>6, RowCallsStep
    <2>2. SeamRowsOK(own)'
      <3>1. PICK N : N = Len(marks')
        OBVIOUS
      <3>2. /\ kind = "abort" => \A j \in 1..N : own[j] # 0
            /\ N > M => OnlyDecided(Len(chain), own[N])
        BY <1>2, <3>1
      <3> QED BY <1>same, <1>0, <1>1, <1>7, <3>1, <3>2, SeamRowsStep
    <2>3. TopRowsOK'
      BY DEF TopRowsOK, MayCall, Top
    <2> QED BY <2>1, <2>2, <2>3 DEF RowsOK
  <1>12. FileOK'
    <2>2. \A k \in 1..Len(stack') :
              calls'[CallAt(k)'].parent = 0 /\ ClassAt(k)' = "NON_ATOMIC" /\ stack'[k].step \in {"effect", "failing"}
                 => \/ /\ k <= Len(stack) /\ CallAt(k)' = CallAt(k) /\ ClassAt(k) = "NON_ATOMIC"
                       /\ stack[k].step \in {"effect", "failing"}
                    \/ Written(LevelEnd(1), CallAt(k), "success")'
      <3>1. Len(stack) \in Nat
        BY <1>0, KernelShapes
      <3> QED BY <1>5, <3>1
    <2>4. \A i \in 1..Len(calls') :
              calls'[i].result = "returned" /\ calls'[i].parent = 0
                 => \/ i <= Len(calls) /\ calls[i].result = "returned"
                    \/ Written(LevelEnd(1), i, "success")'
                    \/ Written(LevelEnd(1), i, "commit")'
      BY <1>2
    <2> QED BY <1>0, <1>3, <1>7, <2>2, <2>4, FileStep
  <1>13. FoundedBeforeGoverned'
    BY <1>0, <1>3, <1>6, FoundedStep
  <1>14. WarrantBeforeEffect'
    <2>1. acts \subseteq 1..Len(calls)
      BY <1>0 DEF TypeOK
    <2> QED BY <1>0, <1>3, <1>6, <2>1, WarrantStep
  <1> QED BY <1>4, <1>8, <1>9, <1>10, <1>11, <1>12, <1>13, <1>14 DEF KernelInv, InvOf

(* A refusal leaves only its receipt. *)
LEMMA RefuseKeeps ==
    ASSUME KernelInv, NEW r, Refuse(r)
    PROVE  KernelInv'
  <1>1. PICK kind : kind = Verdict(r)
    OBVIOUS
  <1>2. /\ kind \in {"protocol_error", "gate_refuse"} /\ MayCall
        /\ chain' = Append(chain, [call |-> 0, kind |-> kind])
        /\ UNCHANGED <<marks, stack, calls, acts, warrants>> /\ UNCHANGED <<status, config>>
    BY <1>1 DEF Refuse
  <1>3. Rewritten(Len(chain), 0, kind)
    <2>1. kind \in Kind /\ 0 \in 0..MaxCalls /\ TypeOK
      <3>1. TypeOK
        BY DEF KernelInv, InvOf
      <3>2. kind \in Kind /\ 0 \in 0..MaxCalls
        BY <1>2, BoundsAssumption DEF Kind
      <3> QED BY <3>1, <3>2
    <2> QED BY <1>2, <2>1, ChainAppend
  <1>4. status' \in {"UNINITIALIZED", "ACTIVE"} /\ config' \in Config
    BY <1>2 DEF KernelInv, InvOf, TypeOK
  <1>5. kind # "gate_admit" /\ kind # "abort" /\ kind # "success"
    BY <1>2
  <1> QED BY <1>2, <1>3, <1>4, <1>5, OutsideKeeps

(* A ceremony founds the chain: no seam is open, so its receipt is in the file. *)
LEMMA CeremonyKeeps ==
    ASSUME KernelInv, Ceremony
    PROVE  KernelInv'
  <1>inv. PICK own : InvOf(own)
    BY DEF KernelInv
  <1>0. TypeOK /\ SeamsOK(own) /\ MayCall
    BY <1>inv DEF InvOf, Ceremony, MayCall
  <1>1. /\ chain' = Append(chain, [call |-> 0, kind |-> "legend_seal"]) /\ stack = <<>>
        /\ UNCHANGED <<marks, stack, calls, acts, warrants>> /\ config' = config
        /\ status' \in {status, "ACTIVE"}
    BY DEF Ceremony
  <1>2. Rewritten(Len(chain), 0, "legend_seal") /\ Len(chain') = Len(chain) + 1 /\ Len(chain) \in Nat
    <2>1. "legend_seal" \in Kind /\ 0 \in 0..MaxCalls
      BY BoundsAssumption DEF Kind
    <2>2. Len(chain) \in Nat
      BY <1>0, KernelShapes
    <2> QED BY <1>0, <1>1, <2>1, <2>2, ChainAppend
  <1>3. status' \in {"UNINITIALIZED", "ACTIVE"} /\ config' \in Config
    BY <1>0, <1>1 DEF TypeOK
  <1>4. \E k \in 1..LevelEnd(1)' : chain'[k].kind = "legend_seal"
    <2>1. Len(marks) = 0
      <3>1. Len(stack) = 0 /\ Len(marks) \in Nat
        BY <1>0, <1>1, KernelShapes
      <3> QED BY <1>0, <1>1, <3>1 DEF SeamsOK
    <2>2. LevelEnd(1)' = Len(chain) + 1
      BY <1>1, <1>2, <2>1 DEF LevelEnd
    <2>3. chain'[Len(chain) + 1].kind = "legend_seal"
      BY <1>2 DEF Rewritten
    <2> QED BY <1>2, <2>2, <2>3
  <1> QED BY <1>0, <1>1, <1>2, <1>3, <1>4, OutsideKeeps

(* Enforcement settings change between calls. *)
LEMMA ConfigureKeeps ==
    ASSUME KernelInv, NEW c \in Configs, Configure(c)
    PROVE  KernelInv'
  <1>1. TypeOK /\ MayCall /\ chain' = chain /\ UNCHANGED <<marks, stack, calls, acts, warrants>>
        /\ status' = status
    BY DEF KernelInv, InvOf, Configure, MayCall
  <1>2. status' \in {"UNINITIALIZED", "ACTIVE"} /\ config' \in Config
    BY <1>1, ConfigsAssumption DEF TypeOK, Configure
  <1>3. Rewritten(Len(chain), 0, "legend_seal")
    BY <1>1, ChainSame
  <1> QED BY <1>1, <1>2, <1>3, OutsideKeeps

(* An admission keeps the invariant. *)
LEMMA AdmitKeeps ==
    ASSUME KernelInv, NEW r \in Requests, Admit(r)
    PROVE  KernelInv'
  <1>inv. PICK own : InvOf(own)
    BY DEF KernelInv
  <1>0. /\ TypeOK /\ AdmissionOK /\ StackOK /\ SeamsOK(own) /\ MarksOK /\ RowsOK /\ SeamRowsOK(own)
        /\ LevelsOK(own) /\ FileOK /\ FoundedBeforeGoverned /\ WarrantBeforeEffect
    BY <1>inv DEF InvOf
  <1>pre. TypeOK /\ AdmissionOK /\ StackOK /\ SeamsOK(own)
    BY <1>0
  <1>len. PICK L, M, n, p, q : /\ L = Len(stack) /\ M = Len(marks) /\ n = Len(calls) + 1
                               /\ p = Len(chain) /\ q = M + 1
    OBVIOUS
  <1>push. Pushed(own, r, L, M, n)
    BY <1>pre, <1>len, SeamsPush
  <1>1. /\ L \in Nat /\ n \in Nat \ {0} /\ Len(calls') = n /\ Len(stack') = L + 1
        /\ \A k \in 1..L : stack'[k] = stack[k]
        /\ stack'[L + 1].call = n /\ stack'[L + 1].step = "admitted"
        /\ stack' \in Seq([call : 1..Len(calls'), step : Step])
        /\ calls' \in Seq(CallRecord) /\ n <= MaxCalls
    BY <1>push DEF Pushed
  <1>2. /\ calls'[n].parent = (IF L = 0 THEN 0 ELSE stack[L].call) /\ calls'[n].result = "open"
        /\ calls'[n].governed = Enforced(r) /\ calls'[n].warrant = r.warrant
        /\ calls'[n].strict = (Enforced(r) /\ config.requireWarrant)
    BY <1>push DEF Pushed
  <1>3. /\ CallsEvolve /\ StackOK' /\ SeamsOK(own)'
        /\ calls'[n].parent \in 1..Len(calls) /\ calls[calls'[n].parent].class = "ATOMIC"
             => \E j \in 1..M : own[j] = calls'[n].parent
    BY <1>push DEF Pushed
  <1>4. /\ chain' = Append(chain, [call |-> n, kind |-> "gate_admit"])
        /\ marks' = marks /\ acts' = acts /\ warrants' = warrants
        /\ status' = status /\ config' = config /\ Verdict(r) = "gate_admit"
    BY <1>len DEF Admit
  <1>5. /\ M \in Nat /\ p \in Nat /\ Len(calls) \in Nat /\ marks' \in Seq(Nat)
    <2>1. marks \in Seq(0..Len(chain)) /\ Len(chain) \in Nat
      BY <1>0, KernelShapes DEF TypeOK
    <2>2. marks \in Seq(Nat)
      BY <2>1, SeqMonotonic
    <2>3. M \in Nat /\ Len(calls) \in Nat
      BY <1>0, <1>len, KernelShapes
    <2> QED BY <1>len, <1>4, <2>1, <2>2, <2>3
  <1>6. Rewritten(p, n, "gate_admit") /\ Len(chain') = p + 1
    <2>1. n \in 0..MaxCalls /\ "gate_admit" \in Kind
      BY <1>1, BoundsAssumption DEF Kind
    <2> QED BY <1>0, <1>len, <1>4, <2>1, ChainAppend
  <1>7. \A i \in 1..Len(calls) : calls'[i] = calls[i]
    <2>1. calls \in Seq(CallRecord)
      BY <1>0 DEF TypeOK, CallRecord
    <2>2. PICK x : calls' = Append(calls, x)
      BY DEF Admit
    <2> QED BY <1>5, <2>1, <2>2
  <1>8. LevelStep(p, q, n, "gate_admit")
    <2>1. LevelEnd(q) = p
      BY <1>len, <1>5 DEF LevelEnd
    <2>2. \A j \in 1..M : marks'[j] = LevelEnd(j)
      BY <1>len, <1>4, <1>5 DEF LevelEnd
    <2>3. q \in 1..(M + 1) /\ M <= q /\ Len(marks') = M
      BY <1>len, <1>4, <1>5
    <2> QED BY <1>len, <1>3, <1>5, <1>6, <2>1, <2>2, <2>3 DEF LevelStep
  <1>same. SameHolders(own, own)
    BY DEF SameHolders
  <1>9. marks' \in Seq(0..Len(chain')) /\ MarksOK'
    BY <1>0, <1>1, <1>8, LevelsAfter
  <1>10. AdmissionOK'
    <2>1. calls'[n].parent < n
      <3>1. L # 0 => stack[L].call \in 1..Len(calls)
        <4>1. \A k \in 1..Len(stack) : stack[k].call \in 1..Len(calls)
          BY <1>0, KernelShapes
        <4>2. L # 0 => L \in 1..Len(stack)
          BY <1>len, <1>1
        <4> QED BY <4>1, <4>2
      <3> QED BY <1>len, <1>2, <1>5, <3>1
    <2>2. calls'[n].strict => calls'[n].warrant
      BY <1>2, <1>4, AdmittedTerms
    <2>3. ASSUME NEW i \in 1..n PROVE calls'[i].parent < i /\ (calls'[i].strict => calls'[i].warrant)
      <3>1. CASE i \in 1..Len(calls)
        BY <1>0, <1>7, <3>1 DEF AdmissionOK
      <3>2. CASE i = n
        BY <2>1, <2>2, <3>2
      <3> QED BY <1>len, <1>5, <3>1, <3>2
    <2> QED BY <1>1, <2>3 DEF AdmissionOK
  <1>11. TypeOK'
    <2>1. chain' \in Seq([call : 0..MaxCalls, kind : Kind])
      BY <1>6 DEF Rewritten, RowRecord
    <2>2. acts' \subseteq 1..Len(calls') /\ warrants' \subseteq 1..Len(calls')
      <3>1. acts \subseteq 1..Len(calls) /\ warrants \subseteq 1..Len(calls)
        BY <1>0 DEF TypeOK
      <3>2. 1..Len(calls) \subseteq 1..n
        BY <1>len, <1>5
      <3> QED BY <1>1, <1>4, <3>1, <3>2
    <2>3. status' \in {"UNINITIALIZED", "ACTIVE"} /\ config' \in Config
      BY <1>0, <1>4 DEF TypeOK
    <2>4. calls' \in Seq([parent : 0..MaxCalls, governed : BOOLEAN, class : EffectClass,
                          warrant : BOOLEAN, strict : BOOLEAN,
                          result : {"open", "returned", "raised"}])
      BY <1>1 DEF CallRecord
    <2>5. stack' \in Seq([call : 1..Len(calls'), step : Step])
      BY <1>1
    <2> QED BY <1>9, <2>1, <2>2, <2>3, <2>4, <2>5 DEF TypeOK
  <1>12. LevelsOK(own)'
    <2>1. \A i \in 1..Len(calls') :
             (\A g \in 1..M : own[g] # i)
                => \/ \A g \in 1..(q - 1) : own[g] # i
                   \/ Settled(Len(chain), i)'
      BY <1>len, <1>3, <1>5
    <2>2. RowFits(n, "gate_admit")
      BY DEF RowFits
    <2>3. ASSUME calls'[n].parent > 0, calls'[calls'[n].parent].class = "ATOMIC"
          PROVE  \E g \in 1..M : own[g] = calls'[n].parent
      <3>1. L # 0 => stack[L].call \in 1..Len(calls)
        <4>1. \A k \in 1..Len(stack) : stack[k].call \in 1..Len(calls)
          BY <1>0, KernelShapes
        <4>2. L # 0 => L \in 1..Len(stack)
          BY <1>len, <1>1
        <4> QED BY <4>1, <4>2
      <3>2. calls'[n].parent \in 1..Len(calls)
        BY <1>2, <2>3, <3>1
      <3>3. calls[calls'[n].parent].class = "ATOMIC"
        BY <1>7, <2>3, <3>2
      <3> QED BY <1>3, <3>2, <3>3
    <2>4. n \in Nat /\ n <= Len(calls') /\ M = Len(marks')
      BY <1>len, <1>1, <1>4
    <2>5. CallsEvolve
      BY <1>3
    <2> QED BY <1>same, <1>0, <1>8, <1>10, <2>1, <2>2, <2>3, <2>4, <2>5, LevelsStep
  <1>13. RowsOK' /\ SeamRowsOK(own)'
    <2>1. CallsEvolve /\ n \in Nat /\ n <= Len(calls') /\ n > 0
      BY <1>1, <1>3
    <2>2. RowCallsOK'
      BY <1>0, <1>6, <2>1, RowCallsStep
    <2>3. SeamRowsOK(own)'
      <3>1. PICK N : N = Len(marks')
        OBVIOUS
      <3>2. N > M => OnlyDecided(Len(chain), own[N])
        BY <1>len, <1>4, <1>5, <3>1
      <3> QED BY <1>same, <1>0, <1>len, <1>8, <2>1, <3>1, <3>2, SeamRowsStep
    <2>4. TopRowsOK'
      <3>1. Top'.step = "admitted" /\ Me' = n
        BY <1>1 DEF Top, Me
      <3>2. PICK e : e = Len(chain')
        OBVIOUS
      <3>3. OnlyDecided(p, n)
        BY <1>0, <1>len, <1>5 DEF OnlyDecided, RowsOK, RowCallsOK
      <3>4. OnlyDecided(e, n)' /\ Written(e, n, "gate_admit")'
        BY <1>0, <1>6, <2>1, <3>2, <3>3, WrittenAfter
      <3> QED BY <3>1, <3>2, <3>4 DEF TopRowsOK, OnlyDecided, Written
    <2> QED BY <2>2, <2>3, <2>4 DEF RowsOK
  <1>14. FileOK'
    <2>2. \A k \in 1..Len(stack') :
              calls'[CallAt(k)'].parent = 0 /\ ClassAt(k)' = "NON_ATOMIC" /\ stack'[k].step \in {"effect", "failing"}
                 => \/ /\ k <= Len(stack) /\ CallAt(k)' = CallAt(k) /\ ClassAt(k) = "NON_ATOMIC"
                       /\ stack[k].step \in {"effect", "failing"}
                    \/ Written(LevelEnd(1), CallAt(k), "success")'
      <3>1. ASSUME NEW k \in 1..Len(stack'), calls'[CallAt(k)'].parent = 0, ClassAt(k)' = "NON_ATOMIC",
                   stack'[k].step \in {"effect", "failing"}
            PROVE  /\ k <= Len(stack) /\ CallAt(k)' = CallAt(k) /\ ClassAt(k) = "NON_ATOMIC"
                   /\ stack[k].step \in {"effect", "failing"}
        <4>1. k \in 1..(L + 1) /\ k # L + 1
          BY <1>1, <3>1
        <4>2. k \in 1..Len(stack) /\ stack'[k] = stack[k]
          BY <1>len, <1>1, <4>1
        <4>3. stack[k].call \in 1..Len(calls)
          BY <1>0, <4>2, KernelShapes
        <4>4. calls'[stack[k].call] = calls[stack[k].call]
          BY <1>7, <4>3
        <4> QED BY <3>1, <4>2, <4>4 DEF CallAt, ClassAt
      <3> QED BY <3>1
    <2>4. \A i \in 1..Len(calls') :
              calls'[i].result = "returned" /\ calls'[i].parent = 0
                 => \/ i <= Len(calls) /\ calls[i].result = "returned"
                    \/ Written(LevelEnd(1), i, "success")'
                    \/ Written(LevelEnd(1), i, "commit")'
      BY <1>len, <1>1, <1>2, <1>5, <1>7, SMTT(20)
    <2>5. status' = "ACTIVE" =>
              status = "ACTIVE" \/ \E k \in 1..LevelEnd(1)' : chain'[k].kind = "legend_seal"
      BY <1>4
    <2>6. CallsEvolve /\ n \in Nat
      BY <1>1, <1>3
    <2> QED BY <1>0, <1>8, <2>2, <2>4, <2>5, <2>6, FileStep
  <1>15. FoundedBeforeGoverned'
    <2>1. ASSUME calls'[n].governed PROVE \E j \in 1..p : chain[j].kind = "legend_seal"
      <3>1. status = "ACTIVE"
        BY <1>0, <1>2, <1>4, <2>1, AdmittedTerms DEF TypeOK
      <3>2. PICK j \in 1..LevelEnd(1) : chain[j].kind = "legend_seal"
        BY <1>0, <3>1 DEF FileOK
      <3>3. LevelEnd(1) \in 0..p
        <4>1. 1 \in 1..(M + 1)
          BY <1>5
        <4> QED BY <1>0, <1>len, <4>1, LevelBounds
      <3> QED BY <1>5, <3>2, <3>3
    <2>2. CallsEvolve /\ n \in Nat
      BY <1>1, <1>3
    <2> QED BY <1>0, <1>6, <2>1, <2>2, FoundedStep
  <1>16. WarrantBeforeEffect'
    <2>1. acts \subseteq 1..Len(calls) /\ warrants \subseteq warrants' /\ CallsEvolve /\ n \in Nat
      BY <1>0, <1>1, <1>3, <1>4 DEF TypeOK
    <2>2. \A i \in acts' : i \notin acts /\ calls'[i].strict => i \in warrants'
      BY <1>4
    <2>3. PICK x : x = "gate_admit"
      OBVIOUS
    <2>4. x = "success" /\ calls'[n].strict => n \in warrants'
      BY <2>3
    <2>5. Rewritten(p, n, x)
      BY <1>6, <2>3
    <2> QED BY <1>0, <2>1, <2>2, <2>4, <2>5, WarrantStep
  <1> QED BY <1>3, <1>9, <1>10, <1>11, <1>12, <1>13, <1>14, <1>15, <1>16 DEF KernelInv, InvOf

(* A crash leaves what the file shows. *)
LEMMA CrashKeeps ==
    ASSUME KernelInv, Crash
    PROVE  KernelInv'
  <1>inv. PICK own : InvOf(own)
    BY DEF KernelInv
  <1>0. /\ TypeOK /\ AdmissionOK /\ StackOK /\ SeamsOK(own) /\ MarksOK /\ RowsOK /\ SeamRowsOK(own)
        /\ LevelsOK(own) /\ FileOK /\ FoundedBeforeGoverned /\ WarrantBeforeEffect
    BY <1>inv DEF InvOf
  <1>len. PICK n, M, p : n = Len(calls) /\ M = Len(marks) /\ p = LevelEnd(1)
    OBVIOUS
  <1>1. /\ marks' = <<>> /\ stack' = <<>> /\ status' = "UNINITIALIZED" /\ config' = Permissive
        /\ acts' = acts /\ warrants' = warrants /\ chain' = Durable
        /\ calls' = [i \in DOMAIN calls |->
                       IF calls[i].result = "open" THEN [calls[i] EXCEPT !.result = "raised"]
                       ELSE calls[i]]
    BY DEF Crash
  <1>2. /\ n \in Nat /\ M \in Nat /\ Len(chain) \in Nat /\ (marks = <<>> <=> M = 0)
        /\ \A j \in 1..M : marks[j] \in 0..Len(chain)
    BY <1>0, <1>len, KernelShapes
  <1>3. Rewritten(p, 0, "legend_seal") /\ Len(chain') = p /\ p \in 0..Len(chain)
    <2>1. CASE M = 0
      <3>1. p = Len(chain) /\ chain' = chain
        BY <1>len, <1>1, <1>2, <2>1 DEF Durable, LevelEnd
      <3> QED BY <1>0, <1>2, <3>1, ChainSame
    <2>2. CASE M # 0
      <3>1. p = marks[1] /\ chain' = SubSeq(chain, 1, p) /\ p \in 0..Len(chain)
        BY <1>len, <1>1, <1>2, <2>2 DEF Durable, LevelEnd
      <3> QED BY <1>0, <3>1, ChainCut
    <2> QED BY <2>1, <2>2
  <1>4. /\ calls' \in Seq(CallRecord) /\ Len(calls') = n
        /\ \A i \in 1..n : /\ calls'[i].class = calls[i].class /\ calls'[i].parent = calls[i].parent
                           /\ calls'[i].governed = calls[i].governed
                           /\ calls'[i].warrant = calls[i].warrant /\ calls'[i].strict = calls[i].strict
                           /\ calls'[i].result = IF calls[i].result = "open" THEN "raised"
                                                 ELSE calls[i].result
    <2>1. calls \in Seq(CallRecord)
      BY <1>0 DEF TypeOK, CallRecord
    <2>2. DOMAIN calls = 1..n /\ \A i \in 1..n : calls[i] \in CallRecord
      BY <1>len, <2>1, ElementOfSeq, LenProperties
    <2>3. ASSUME NEW i \in 1..n
          PROVE  /\ calls'[i] \in CallRecord
                 /\ calls'[i].class = calls[i].class /\ calls'[i].parent = calls[i].parent
                 /\ calls'[i].governed = calls[i].governed
                 /\ calls'[i].warrant = calls[i].warrant /\ calls'[i].strict = calls[i].strict
                 /\ calls'[i].result = IF calls[i].result = "open" THEN "raised"
                                       ELSE calls[i].result
      <3>1. calls[i] \in CallRecord
        BY <2>2
      <3>2. calls'[i] = IF calls[i].result = "open" THEN [calls[i] EXCEPT !.result = "raised"]
                        ELSE calls[i]
        BY <1>1, <2>2
      <3>3. CASE calls[i].result = "open"
        BY <3>1, <3>2, <3>3 DEF CallRecord
      <3>4. CASE calls[i].result # "open"
        BY <3>1, <3>2, <3>4 DEF CallRecord
      <3> QED BY <3>3, <3>4
    <2>4. calls' \in [1..n -> CallRecord]
      <3>1. DOMAIN calls' = 1..n /\ calls' = [i \in 1..n |-> calls'[i]]
        BY <1>1, <2>2
      <3> QED BY <2>3, <3>1
    <2>5. calls' \in Seq(CallRecord) /\ Len(calls') = n
      BY <1>2, <2>4, SeqDef
    <2> QED BY <2>3, <2>5
  <1>ev. CallsEvolve
    BY <1>len, <1>2, <1>4 DEF CallsEvolve
  <1>5. Len(stack') = 0 /\ Len(marks') = 0 /\ marks' \in Seq(Nat) /\ \A i \in 1..n : calls'[i].result # "open"
    BY <1>1, <1>4, EmptySeq
  <1>new. PICK new : new = <<>>
    OBVIOUS
  <1>6. StackOK' /\ SeamsOK(new)' /\ AdmissionOK'
    <2>1. StackOK'
      BY <1>4, <1>5 DEF StackOK
    <2>2. SeamsOK(new)'
      BY <1>1, <1>5, <1>new DEF SeamsOK
    <2>3. AdmissionOK'
      BY <1>0, <1>len, <1>ev, <1>4, AdmissionKept
    <2> QED BY <2>1, <2>2, <2>3
  <1>7. LevelStep(p, 1, 0, "legend_seal")
    BY <1>len, <1>2, <1>3, <1>5 DEF LevelStep
  <1>same. SameHolders(own, new)
    BY <1>5 DEF SameHolders
  <1>8. marks' \in Seq(0..Len(chain')) /\ MarksOK'
    BY <1>0, <1>7, LevelsAfter
  <1>9. TypeOK'
    <2>1. chain' \in Seq([call : 0..MaxCalls, kind : Kind])
      BY <1>3 DEF Rewritten, RowRecord
    <2>2. acts' \subseteq 1..Len(calls') /\ warrants' \subseteq 1..Len(calls')
      BY <1>0, <1>len, <1>1, <1>4 DEF TypeOK
    <2>3. status' \in {"UNINITIALIZED", "ACTIVE"} /\ config' \in Config
      BY <1>1 DEF Config, Permissive
    <2>4. calls' \in Seq([parent : 0..MaxCalls, governed : BOOLEAN, class : EffectClass,
                          warrant : BOOLEAN, strict : BOOLEAN,
                          result : {"open", "returned", "raised"}])
      BY <1>4 DEF CallRecord
    <2>5. stack' \in Seq([call : 1..Len(calls'), step : Step])
      BY <1>1, EmptySeq
    <2> QED BY <1>8, <2>1, <2>2, <2>3, <2>4, <2>5 DEF TypeOK
  <1>10. LevelsOK(new)'
    <2>1. \A i \in 1..Len(calls') :
             (\A g \in 1..0 : new[g] # i)
                => \/ \A g \in 1..(1 - 1) : own[g] # i
                   \/ Settled(Len(chain), i)'
      OBVIOUS
    <2>2. 0 <= Len(calls')
      BY <1>2, <1>4
    <2> QED BY <1>same, <1>0, <1>ev, <1>5, <1>6, <1>7, <2>1, <2>2, LevelsStep
  <1>11. RowsOK' /\ SeamRowsOK(new)'
    <2>1. RowCallsOK'
      <3>1. 0 <= Len(calls')
        BY <1>2, <1>4
      <3> QED BY <1>0, <1>ev, <1>3, <3>1, RowCallsStep
    <2>2. SeamRowsOK(new)' /\ TopRowsOK'
      BY <1>1, <1>5 DEF SeamRowsOK, TopRowsOK
    <2> QED BY <2>1, <2>2 DEF RowsOK
  <1>12. FileOK'
    <2>2. \A k \in 1..Len(stack') :
              calls'[CallAt(k)'].parent = 0 /\ ClassAt(k)' = "NON_ATOMIC" /\ stack'[k].step \in {"effect", "failing"}
                 => \/ /\ k <= Len(stack) /\ CallAt(k)' = CallAt(k) /\ ClassAt(k) = "NON_ATOMIC"
                       /\ stack[k].step \in {"effect", "failing"}
                    \/ Written(LevelEnd(1), CallAt(k), "success")'
      BY <1>5
    <2>4. \A i \in 1..Len(calls') :
              calls'[i].result = "returned" /\ calls'[i].parent = 0
                 => \/ i <= Len(calls) /\ calls[i].result = "returned"
                    \/ Written(LevelEnd(1), i, "success")'
                    \/ Written(LevelEnd(1), i, "commit")'
      BY <1>len, <1>2, <1>4
    <2>5. status' = "ACTIVE" =>
              status = "ACTIVE" \/ \E k \in 1..LevelEnd(1)' : chain'[k].kind = "legend_seal"
      BY <1>1
    <2> QED BY <1>0, <1>ev, <1>7, <2>2, <2>4, <2>5, FileStep
  <1>13. FoundedBeforeGoverned'
    BY <1>0, <1>ev, <1>3, FoundedStep
  <1>14. WarrantBeforeEffect'
    <2>1. acts \subseteq 1..Len(calls) /\ warrants \subseteq warrants'
          /\ \A i \in acts' : i \notin acts /\ calls'[i].strict => i \in warrants'
      BY <1>0, <1>1 DEF TypeOK
    <2> QED BY <1>0, <1>ev, <1>3, <2>1, WarrantStep
  <1> QED BY <1>6, <1>8, <1>9, <1>10, <1>11, <1>12, <1>13, <1>14 DEF KernelInv, InvOf
-----------------------------------------------------------------------------
(* The steps of execute().                                                  *)

(* What the invariant says of the call now under way. *)
LEMMA TopFacts ==
    ASSUME KernelInv, stack # <<>>, NEW m, m = Me, NEW L, L = Len(stack)
    PROVE  /\ TypeOK /\ AdmissionOK /\ m \in 1..Len(calls) /\ m \in 0..MaxCalls
           /\ calls[m].class = Class /\ Class \in EffectClass
           /\ StepFits(Top.step, Class)
           /\ Top.step # "admitted" /\ calls[m].strict => m \in warrants
           /\ Holds(L) <=> Class = "ATOMIC" /\ Top.step \in HoldSteps
           /\ calls[m].result = "open"
           /\ calls[m].parent = 0 /\ ~Holds(L) => Len(marks) = 0
           /\ calls[m].parent = 0 /\ Holds(L) => Len(marks) = 1
           /\ Holds(L) => Len(marks) > 0 /\ OnlyDecided(marks[Len(marks)], m)
           /\ RowsFitStep(Top.step, m)
           /\ calls[m].parent = 0 /\ Class = "NON_ATOMIC" /\ Top.step \in {"effect", "failing"}
                => Written(LevelEnd(1), m, "success")
  <1>inv. PICK own : InvOf(own)
    BY DEF KernelInv
  <1>0. TypeOK /\ AdmissionOK /\ StackOK /\ SeamsOK(own) /\ RowsOK /\ SeamRowsOK(own) /\ FileOK
    BY <1>inv DEF InvOf
  <1>1. PICK M : M = Len(marks)
    OBVIOUS
  <1>2. /\ L \in Nat \ {0} /\ m = stack[L].call /\ m \in 1..Len(calls)
        /\ ClassAt(L) = Class /\ calls[m].class = Class
        /\ Holds(L) => M > 0 /\ own[M] = m
        /\ calls[m].result = "open" /\ M \in Nat
        /\ calls[m].parent = 0 <=> L = 1
        /\ ~Holds(L) /\ L = 1 => M = 0
        /\ Holds(L) /\ L = 1 => M = 1
    BY <1>0, <1>1, TopAndSeams
  <1>3. Class \in EffectClass
    BY <1>0, <1>2, KernelShapes
  <1>4. m \in 0..MaxCalls
    <2>1. Len(calls) \in Nat /\ Len(calls) <= MaxCalls
      BY <1>0, KernelShapes DEF AdmissionOK
    <2> QED BY <1>2, <2>1, BoundsAssumption
  <1>5. L \in 1..Len(stack) /\ CallAt(L) = m /\ Top.step = stack[L].step
    BY <1>2 DEF CallAt, Top
  <1>6. /\ StepFits(Top.step, Class)
        /\ Top.step # "admitted" /\ calls[m].strict => m \in warrants
    BY <1>0, <1>2, <1>5 DEF StackOK
  <1>7. Holds(L) <=> Class = "ATOMIC" /\ Top.step \in HoldSteps
    BY <1>2, <1>5 DEF Holds, HoldSteps
  <1>8. RowsFitStep(Top.step, m)
    BY <1>0 DEF RowsOK, TopRowsOK, RowsFitStep
  <1>9. calls[m].parent = 0 /\ Class = "NON_ATOMIC" /\ Top.step \in {"effect", "failing"} => Written(LevelEnd(1), m, "success")
    BY <1>0, <1>2, <1>5 DEF FileOK
  <1>10. /\ calls[m].result = "open"
         /\ calls[m].parent = 0 /\ ~Holds(L) => Len(marks) = 0
         /\ calls[m].parent = 0 /\ Holds(L) => Len(marks) = 1
         /\ Holds(L) => Len(marks) > 0 /\ OnlyDecided(marks[Len(marks)], m)
    <2>1. Holds(L) => M \in 1..M /\ OnlyDecided(marks[M], own[M])
      BY <1>0, <1>1, <1>2 DEF SeamRowsOK
    <2> QED BY <1>1, <1>2, <2>1
  <1>11. m \in 1..Len(calls) /\ calls[m].class = Class
    BY <1>2
  <1> QED BY <1>0, <1>3, <1>4, <1>6, <1>7, <1>8, <1>9, <1>10, <1>11

(* The top call moves and no seam opens or closes. *)
LEMMA SeamsStay ==
    ASSUME KernelInv, stack # <<>>, NEW s \in Step, Goto(s), marks' = marks,
           NEW h \in {0, 1}, Holds(Len(stack)) <=> h = 1,
           Class = "ATOMIC" /\ s \in HoldSteps <=> h = 1,
           NEW q, q = Len(marks) + 1
    PROVE  TopMoves(s, h, h, q) /\ LevelEnd(q) = Len(chain) /\ ~(Len(marks') > Len(marks))
  <1>1. TypeOK
    BY DEF KernelInv, InvOf
  <1>2. Len(marks) \in Nat /\ marks \in Seq(Nat)
    <2>1. marks \in Seq(0..Len(chain)) /\ Len(chain) \in Nat
      BY <1>1, KernelShapes DEF TypeOK
    <2>2. marks \in Seq(Nat)
      BY <2>1, SeqMonotonic
    <2> QED BY <2>2, LenProperties
  <1>3. /\ Len(marks') = Len(marks) + h - h
        /\ q \in 1..(Len(marks) + 1) /\ Len(marks') <= q /\ q - 1 <= Len(marks')
        /\ ~(Len(marks') > Len(marks))
    BY <1>2
  <1>4. /\ \A j \in 1..Len(marks') : marks'[j] = LevelEnd(j)
        /\ LevelEnd(q) = Len(chain)
    BY <1>2 DEF LevelEnd
  <1> QED BY <1>2, <1>3, <1>4 DEF TopMoves

(* The top call moves and writes nothing. *)
LEMMA MoveSilently ==
    ASSUME KernelInv, stack # <<>>, NEW s \in Step, Goto(s), marks' = marks, chain' = chain,
           Holds(Len(stack)) <=> Class = "ATOMIC" /\ s \in HoldSteps,
           NEW m, m = Me, RowsFitStep(s, m), WarrantAndAct(s, m)
    PROVE  KernelInv'
  <1>1. PICK q : q = Len(marks) + 1
    OBVIOUS
  <1>2. PICK h \in {0, 1} : Holds(Len(stack)) <=> h = 1
    <2>1. CASE Holds(Len(stack))
      BY <2>1
    <2>2. CASE ~Holds(Len(stack))
      BY <2>2
    <2> QED BY <2>1, <2>2
  <1>3. TopMoves(s, h, h, q) /\ LevelEnd(q) = Len(chain) /\ ~(Len(marks') > Len(marks))
    BY <1>1, <1>2, SeamsStay
  <1>4. TopWrites(q, h, h, 0, "legend_seal")
    <2>1. TypeOK /\ m \in 1..Len(calls)
      BY TopFacts
    <2>2. Rewritten(Len(chain), 0, "legend_seal")
      BY <2>1, ChainSame
    <2>3. Rewritten(LevelEnd(q), 0, "legend_seal")
      BY <1>3, <2>2
    <2>4. m # 0
      BY <2>1, KernelShapes
    <2> QED BY <2>3, <2>4 DEF TopWrites
  <1>5. RowsFitStep(s, m)'
    BY DEF RowsFitStep, OnlyDecided, Written
  <1> QED BY <1>3, <1>4, <1>5, GotoKeeps

(* The top call writes a row of its own and moves on. *)
LEMMA MoveWriting ==
    ASSUME KernelInv, stack # <<>>, NEW s \in Step, Goto(s), marks' = marks,
           NEW kind \in Kind, Emit(kind), kind # "gate_admit", kind # "abort",
           Holds(Len(stack)) <=> Class = "ATOMIC" /\ s \in HoldSteps,
           NEW m, m = Me, RowFits(m, kind) \/ Holds(Len(stack)),
           kind = "success" /\ calls[m].strict => m \in warrants,
           s \notin {"admitted", "ready", "aborting"}, s = "releasing" => kind = "success",
           WarrantAndAct(s, m)
    PROVE  KernelInv'
  <1>1. PICK q, p : q = Len(marks) + 1 /\ p = Len(chain)
    OBVIOUS
  <1>2. PICK h \in {0, 1} : Holds(Len(stack)) <=> h = 1
    <2>1. CASE Holds(Len(stack))
      BY <2>1
    <2>2. CASE ~Holds(Len(stack))
      BY <2>2
    <2> QED BY <2>1, <2>2
  <1>3. TopMoves(s, h, h, q) /\ LevelEnd(q) = Len(chain) /\ ~(Len(marks') > Len(marks))
    BY <1>1, <1>2, SeamsStay
  <1>4. TypeOK /\ m \in 0..MaxCalls /\ m \in Nat
    <2>1. TypeOK /\ m \in 0..MaxCalls
      BY TopFacts
    <2> QED BY <2>1, BoundsAssumption
  <1>5. Rewritten(p, m, kind) /\ Len(chain') = p + 1
    <2>1. chain' = Append(chain, [call |-> m, kind |-> kind])
      BY DEF Emit
    <2> QED BY <1>1, <1>4, <2>1, ChainAppend
  <1>6. TopWrites(q, h, h, m, kind)
    <2>1. Rewritten(LevelEnd(q), m, kind)
      BY <1>1, <1>3, <1>5
    <2>2. warrants \subseteq warrants'
      BY DEF WarrantAndAct
    <2> QED BY <1>2, <2>1, <2>2 DEF TopWrites
  <1>7. RowsFitStep(s, m)'
    <2>1. chain'[p + 1] = [call |-> m, kind |-> kind] /\ p + 1 \in 1..Len(chain')
      <3>1. p \in Nat
        BY <1>1, <1>4, KernelShapes
      <3> QED BY <1>5, <3>1 DEF Rewritten
    <2>2. Written(Len(chain), m, kind)'
      BY <2>1 DEF Written
    <2> QED BY <2>2 DEF RowsFitStep
  <1> QED BY <1>3, <1>6, <1>7, GotoKeeps

(* A call that holds no seam leaves. *)
LEMMA LeavesOpenly ==
    ASSUME KernelInv, stack # <<>>, NEW res \in {"returned", "raised"}, Finish(res), marks' = marks,
           ~Holds(Len(stack)), UNCHANGED <<status, config, acts, warrants>>
    PROVE  TopLeaves(res, 0)
  <1>1. TypeOK
    BY DEF KernelInv, InvOf
  <1>2. Len(marks) \in Nat /\ marks \in Seq(Nat)
    <2>1. marks \in Seq(0..Len(chain)) /\ Len(chain) \in Nat
      BY <1>1, KernelShapes DEF TypeOK
    <2>2. marks \in Seq(Nat)
      BY <2>1, SeqMonotonic
    <2> QED BY <2>2, LenProperties
  <1>3. Len(marks') = Len(marks) - 0
    BY <1>2
  <1> QED BY <1>2, <1>3 DEF TopLeaves

(* It raises without a receipt. *)
LEMMA RaisesSilently ==
    ASSUME KernelInv, stack # <<>>, Finish("raised"), marks' = marks, chain' = chain,
           ~Holds(Len(stack)), UNCHANGED <<status, config, acts, warrants>>
    PROVE  KernelInv'
  <1>1. PICK m : m = Me
    OBVIOUS
  <1>2. TopLeaves("raised", 0)
    BY LeavesOpenly
  <1>3. OutcomeWritten("raised", 0, 0, "legend_seal", m)
    <2>1. TypeOK /\ m \in 1..Len(calls)
      BY <1>1, TopFacts
    <2>2. Rewritten(Len(chain), 0, "legend_seal") /\ m # 0
      BY <2>1, ChainSame, KernelShapes
    <2> QED BY <2>2 DEF OutcomeWritten
  <1> QED BY <1>1, <1>2, <1>3, FinishKeeps

(* It leaves with a receipt of its outcome. *)
LEMMA LeavesWriting ==
    ASSUME KernelInv, stack # <<>>, NEW res \in {"returned", "raised"}, Finish(res), marks' = marks,
           ~Holds(Len(stack)), UNCHANGED <<status, config, acts, warrants>>,
           NEW kind \in Kind, Emit(kind), kind # "gate_admit", NEW m, m = Me, RowFits(m, kind),
           kind = "success" /\ calls[m].strict => m \in warrants,
           res = "returned" => kind \in {"success", "commit"}
    PROVE  KernelInv'
  <1>1. PICK p : p = Len(chain)
    OBVIOUS
  <1>2. TopLeaves(res, 0)
    BY LeavesOpenly
  <1>3. /\ TypeOK /\ m \in 0..MaxCalls /\ (calls[m].parent = 0 => Len(marks) = 0)
    BY TopFacts
  <1>4. Rewritten(p, m, kind) /\ Len(chain') = p + 1
    <2>1. chain' = Append(chain, [call |-> m, kind |-> kind])
      BY DEF Emit
    <2> QED BY <1>1, <1>3, <2>1, ChainAppend
  <1>5. calls[m].parent = 0 => Written(LevelEnd(1), m, kind)'
    <2>1. chain'[p + 1] = [call |-> m, kind |-> kind] /\ p + 1 \in 1..Len(chain')
      <3>1. p \in Nat
        BY <1>1, <1>3, KernelShapes
      <3> QED BY <1>4, <3>1 DEF Rewritten
    <2>2. calls[m].parent = 0 => LevelEnd(1)' = Len(chain')
      BY <1>3 DEF LevelEnd
    <2> QED BY <2>1, <2>2 DEF Written
  <1>6. OutcomeWritten(res, 0, m, kind, m)
    <2>1. Rewritten(Len(chain), m, kind)
      BY <1>1, <1>4
    <2>2. res = "returned" /\ calls[m].parent = 0
             => Written(LevelEnd(1), m, "success")' \/ Written(LevelEnd(1), m, "commit")'
      BY <1>5
    <2> QED BY <2>1, <2>2 DEF OutcomeWritten
  <1> QED BY <1>2, <1>6, FinishKeeps

(* The decision warrant. *)
LEMMA MaterialiseWarrantKeeps ==
    ASSUME KernelInv, MaterialiseWarrant
    PROVE  KernelInv'
  <1>1. PICK m, L : m = Me /\ L = Len(stack)
    OBVIOUS
  <1>2. /\ stack # <<>> /\ Top.step = "admitted" /\ Goto("ready") /\ marks' = marks /\ chain' = chain
        /\ warrants' = (IF calls[m].warrant THEN warrants \cup {m} ELSE warrants)
        /\ acts' = acts /\ status' = status /\ config' = config
    BY <1>1 DEF MaterialiseWarrant, At
  <1>3. /\ AdmissionOK /\ m \in 1..Len(calls) /\ RowsFitStep("admitted", m)
        /\ (Holds(L) <=> Class = "ATOMIC" /\ Top.step \in HoldSteps)
    BY <1>1, <1>2, TopFacts
  <1>4. calls[m].strict => m \in warrants'
    BY <1>2, <1>3 DEF AdmissionOK
  <1>5. WarrantAndAct("ready", m)
    BY <1>2, <1>4 DEF WarrantAndAct, StepFits
  <1>6. RowsFitStep("ready", m)
    BY <1>3 DEF RowsFitStep
  <1>7. "ready" \in Step /\ (Holds(Len(stack)) <=> Class = "ATOMIC" /\ "ready" \in HoldSteps)
    BY <1>1, <1>2, <1>3 DEF Step, HoldSteps
  <1> QED BY <1>1, <1>2, <1>5, <1>6, <1>7, MoveSilently

(* Its failure, which a strict model raises and a lenient one swallows. *)
LEMMA WarrantFailsKeeps ==
    ASSUME KernelInv, WarrantFails
    PROVE  KernelInv'
  <1>1. PICK m, L : m = Me /\ L = Len(stack)
    OBVIOUS
  <1>2. /\ stack # <<>> /\ Top.step = "admitted" /\ marks' = marks /\ chain' = chain
        /\ warrants' = warrants /\ acts' = acts /\ status' = status /\ config' = config
        /\ IF calls[m].strict THEN Finish("raised") ELSE Goto("ready")
    BY <1>1 DEF WarrantFails, At
  <1>3. /\ RowsFitStep("admitted", m)
        /\ (Holds(L) <=> Class = "ATOMIC" /\ Top.step \in HoldSteps)
    BY <1>1, <1>2, TopFacts
  <1>4. ~Holds(Len(stack))
    BY <1>1, <1>2, <1>3 DEF HoldSteps
  <1>5. CASE calls[m].strict
    BY <1>2, <1>4, <1>5, RaisesSilently
  <1>6. CASE ~calls[m].strict
    <2>1. WarrantAndAct("ready", m)
      BY <1>2, <1>6 DEF WarrantAndAct, StepFits
    <2>2. RowsFitStep("ready", m)
      BY <1>3 DEF RowsFitStep
    <2>3. "ready" \in Step /\ (Holds(Len(stack)) <=> Class = "ATOMIC" /\ "ready" \in HoldSteps)
      BY <1>4 DEF Step, HoldSteps
    <2> QED BY <1>1, <1>2, <1>6, <2>1, <2>2, <2>3, MoveSilently
  <1> QED BY <1>5, <1>6

(* Errors that leave execute() with no receipt of their own. *)
LEMMA SilentRaiseKeeps ==
    ASSUME KernelInv, StartFails \/ EffectRaisesThrough \/ OutcomeUnwritten
    PROVE  KernelInv'
  <1>1. PICK m, L : m = Me /\ L = Len(stack)
    OBVIOUS
  <1>2. /\ stack # <<>> /\ marks' = marks /\ chain' = chain /\ Finish("raised")
        /\ UNCHANGED <<status, config, acts, warrants>>
        /\ Top.step \notin HoldSteps \/ Class # "ATOMIC"
    BY DEF StartFails, EffectRaisesThrough, OutcomeUnwritten, At, HoldSteps
  <1>3. Holds(L) <=> Class = "ATOMIC" /\ Top.step \in HoldSteps
    BY <1>1, <1>2, TopFacts
  <1>4. ~Holds(Len(stack))
    BY <1>1, <1>2, <1>3
  <1> QED BY <1>2, <1>4, RaisesSilently

(* A row just appended is in the file when no seam is open. *)
LEMMA EmittedIsDurable ==
    ASSUME TypeOK, Len(marks) = 0, marks' = marks, NEW kind \in Kind, Emit(kind),
           NEW m, m = Me, m \in 0..MaxCalls
    PROVE  /\ Written(LevelEnd(1), m, kind)'
           /\ \A x : Written(Len(chain), m, x) => Written(LevelEnd(1), m, x)'
  <1>1. PICK p : p = Len(chain)
    OBVIOUS
  <1>2. Rewritten(p, m, kind) /\ Len(chain') = p + 1 /\ p \in Nat
    <2>1. chain' = Append(chain, [call |-> m, kind |-> kind])
      BY DEF Emit
    <2> QED BY <1>1, <2>1, ChainAppend, KernelShapes
  <1>3. LevelEnd(1)' = Len(chain')
    BY DEF LevelEnd
  <1>4. chain'[p + 1] = [call |-> m, kind |-> kind] /\ p + 1 \in 1..Len(chain')
    BY <1>2 DEF Rewritten
  <1>5. \A k \in 1..p : chain'[k] = chain[k] /\ k \in 1..Len(chain')
    BY <1>2 DEF Rewritten, RowsStay
  <1> QED BY <1>1, <1>3, <1>4, <1>5 DEF Written

(* NON_ATOMIC and no effect: the success receipt first. *)
LEMMA LegacySuccessKeeps ==
    ASSUME KernelInv, LegacySuccess
    PROVE  KernelInv'
  <1>1. PICK m, L : m = Me /\ L = Len(stack)
    OBVIOUS
  <1>2. /\ stack # <<>> /\ Top.step = "ready" /\ marks' = marks /\ Emit("success")
        /\ Class \in {"none", "NON_ATOMIC"}
        /\ IF Class = "none" THEN Finish("returned") ELSE Goto("effect")
        /\ acts' = (IF Class = "none" THEN acts ELSE acts \cup {m})
        /\ warrants' = warrants /\ status' = status /\ config' = config
    BY <1>1 DEF LegacySuccess, At
  <1>3. /\ TypeOK /\ m \in 1..Len(calls) /\ m \in 0..MaxCalls /\ RowsFitStep("ready", m)
        /\ calls[m].class = Class /\ (calls[m].strict => m \in warrants)
        /\ (Holds(L) <=> Class = "ATOMIC" /\ Top.step \in HoldSteps)
        /\ calls[m].parent = 0 /\ ~Holds(L) => Len(marks) = 0
    BY <1>1, <1>2, TopFacts
  <1>4. ~Holds(Len(stack)) /\ "success" \in Kind /\ "effect" \in Step
    BY <1>1, <1>2, <1>3 DEF HoldSteps, Kind, Step
  <1>5. CASE Class = "none"
    <2>1. calls[m].result = "open"
      BY <1>1, <1>2, TopFacts
    <2>2. calls'[m].class = calls[m].class /\ calls'[m].result = "returned"
      BY <1>1, <1>2, <1>3, <1>5, <2>1, FinishShape DEF CallsEvolve
    <2>3. RowFits(m, "success")
      BY <1>3, <1>5, <2>2 DEF RowFits
    <2>4. UNCHANGED <<status, config, acts, warrants>> /\ Finish("returned")
      BY <1>2, <1>5
    <2> QED BY <1>1, <1>2, <1>3, <1>4, <2>3, <2>4, LeavesWriting
  <1>6. CASE Class = "NON_ATOMIC"
    <2>1. Goto("effect") /\ calls' = calls /\ acts' = acts \cup {m}
      BY <1>2, <1>6 DEF Goto
    <2>2. RowFits(m, "success")
      BY <1>3, <1>6, <2>1 DEF RowFits
    <2>3. calls[m].parent = 0 => Written(LevelEnd(1), m, "success")'
      BY <1>1, <1>2, <1>3, <1>4, EmittedIsDurable
    <2>5. WarrantAndAct("effect", m)
      BY <1>2, <1>3, <1>6, <2>1, <2>3 DEF WarrantAndAct, StepFits
    <2>6. Holds(Len(stack)) <=> Class = "ATOMIC" /\ "effect" \in HoldSteps
      BY <1>4, <1>6
    <2> QED BY <1>1, <1>2, <1>3, <1>4, <2>1, <2>2, <2>5, <2>6, MoveWriting
  <1> QED BY <1>2, <1>5, <1>6

(* PREPARE, then the external effect. *)
LEMMA ExternalPrepareKeeps ==
    ASSUME KernelInv, ExternalPrepare
    PROVE  KernelInv'
  <1>1. PICK m, L : m = Me /\ L = Len(stack)
    OBVIOUS
  <1>2. /\ stack # <<>> /\ Top.step = "ready" /\ marks' = marks /\ Emit("prepare")
        /\ Class = "EXTERNAL" /\ Goto("effect") /\ acts' = acts \cup {m}
        /\ warrants' = warrants /\ status' = status /\ config' = config
    BY <1>1 DEF ExternalPrepare, At
  <1>3. /\ TypeOK /\ m \in 1..Len(calls) /\ m \in 0..MaxCalls /\ RowsFitStep("ready", m)
        /\ (calls[m].strict => m \in warrants)
        /\ (Holds(L) <=> Class = "ATOMIC" /\ Top.step \in HoldSteps)
    BY <1>1, <1>2, TopFacts
  <1>4. "prepare" \in Kind /\ "effect" \in Step /\ (Holds(Len(stack)) <=> Class = "ATOMIC" /\ "effect" \in HoldSteps)
    BY <1>1, <1>2, <1>3 DEF HoldSteps, Kind, Step
  <1>5. RowFits(m, "prepare")
    BY DEF RowFits
  <1>8. WarrantAndAct("effect", m)
    BY <1>2, <1>3 DEF WarrantAndAct, StepFits
  <1> QED BY <1>1, <1>2, <1>3, <1>4, <1>5, <1>8, MoveWriting

(* The seam of an ATOMIC call opens over its decision. *)
LEMMA EnterSeamKeeps ==
    ASSUME KernelInv, EnterSeam
    PROVE  KernelInv'
  <1>1. PICK m, L, M, q : m = Me /\ L = Len(stack) /\ M = Len(marks) /\ q = Len(marks) + 1
    OBVIOUS
  <1>2. /\ stack # <<>> /\ Top.step = "ready" /\ marks' = Append(marks, Len(chain))
        /\ Class = "ATOMIC" /\ Goto("effect") /\ acts' = acts \cup {m} /\ chain' = chain
        /\ warrants' = warrants /\ status' = status /\ config' = config
    BY <1>1 DEF EnterSeam, At
  <1>3. /\ TypeOK /\ m \in 1..Len(calls) /\ RowsFitStep("ready", m)
        /\ (calls[m].strict => m \in warrants)
        /\ (Holds(L) <=> Class = "ATOMIC" /\ Top.step \in HoldSteps)
    BY <1>1, <1>2, TopFacts
  <1>4. ~Holds(Len(stack)) /\ "effect" \in Step /\ "effect" \in HoldSteps
    BY <1>1, <1>2, <1>3 DEF HoldSteps, Step
  <1>5. /\ M \in Nat /\ Len(chain) \in Nat /\ marks' \in Seq(Nat) /\ Len(marks') = M + 1
        /\ marks'[M + 1] = Len(chain) /\ \A j \in 1..M : marks'[j] = marks[j]
    <2>1. marks \in Seq(0..Len(chain)) /\ Len(chain) \in Nat
      BY <1>3, KernelShapes DEF TypeOK
    <2>2. marks \in Seq(Nat)
      BY <2>1, SeqMonotonic
    <2> QED BY <1>1, <1>2, <2>1, <2>2, LenProperties
  <1>6. \A j \in 1..Len(marks') : marks'[j] = LevelEnd(j)
    BY <1>1, <1>5 DEF LevelEnd
  <1>7. TopMoves("effect", 0, 1, q)
    <2>1. q \in 1..(Len(marks) + 1) /\ Len(marks') <= q /\ q - 1 <= Len(marks') /\ Len(marks') = Len(marks) + 1 - 0
      BY <1>1, <1>5
    <2> QED BY <1>2, <1>4, <1>5, <1>6, <2>1 DEF TopMoves
  <1>8. TopWrites(q, 0, 1, 0, "legend_seal")
    <2>1. Rewritten(Len(chain), 0, "legend_seal") /\ m # 0
      BY <1>2, <1>3, ChainSame, KernelShapes
    <2>2. LevelEnd(q) = Len(chain)
      BY <1>1, <1>5 DEF LevelEnd
    <2> QED BY <1>1, <2>1, <2>2 DEF TopWrites
  <1>9. Written(Len(chain), m, "gate_admit") /\ OnlyDecided(Len(chain), m)
    BY <1>3 DEF RowsFitStep
  <1>11. WarrantAndAct("effect", m)
    BY <1>2, <1>3 DEF WarrantAndAct, StepFits
  <1>12. RowsFitStep("effect", m)'
    BY DEF RowsFitStep
  <1> QED BY <1>1, <1>7, <1>8, <1>9, <1>11, <1>12, GotoKeeps

(* The effect writes to the store. *)
LEMMA EffectWritesKeeps ==
    ASSUME KernelInv, EffectWrites
    PROVE  KernelInv'
  <1>1. PICK m, L : m = Me /\ L = Len(stack)
    OBVIOUS
  <1>2. /\ stack # <<>> /\ Top.step = "effect" /\ marks' = marks /\ Emit("effect")
        /\ stack' = stack /\ calls' = calls /\ acts' = acts
        /\ warrants' = warrants /\ status' = status /\ config' = config
    BY <1>1 DEF EffectWrites, At
  <1>3. /\ TypeOK /\ m \in 1..Len(calls) /\ StepFits("effect", Class) /\ calls[m].class = Class
        /\ (calls[m].strict => m \in warrants)
        /\ (Holds(L) <=> Class = "ATOMIC" /\ Top.step \in HoldSteps)
    BY <1>1, <1>2, TopFacts
  <1>4. Goto("effect")
    <2>1. L \in 1..Len(stack) /\ stack[L] = [call |-> stack[L].call, step |-> "effect"]
      BY <1>1, <1>2, <1>3, KernelShapes DEF Top
    <2>2. [stack[L] EXCEPT !.step = "effect"] = stack[L]
      BY <2>1
    <2>3. stack \in Seq([call : 1..Len(calls), step : Step])
      BY <1>3 DEF TypeOK
    <2>4. [stack EXCEPT ![L] = stack[L]] = stack
      BY <2>1, <2>3
    <2>5. stack' = [stack EXCEPT ![L] = [stack[L] EXCEPT !.step = "effect"]]
      BY <1>2, <2>2, <2>4
    <2> QED BY <1>1, <1>2, <2>5 DEF Goto
  <1>5. RowFits(m, "effect") \/ Holds(Len(stack))
    BY <1>1, <1>2, <1>3 DEF RowFits, HoldSteps
  <1>6. WarrantAndAct("effect", m)
    BY <1>2, <1>3 DEF WarrantAndAct
  <1>7. "effect" \in Kind /\ "effect" \in Step
        /\ (Holds(Len(stack)) <=> Class = "ATOMIC" /\ "effect" \in HoldSteps)
    BY <1>1, <1>2, <1>3 DEF Kind, Step
  <1> QED BY <1>1, <1>2, <1>4, <1>5, <1>6, <1>7, MoveWriting

(* A NON_ATOMIC or an EXTERNAL effect fails and says so. *)
LEMMA EffectFailsKeeps ==
    ASSUME KernelInv, EffectFails
    PROVE  KernelInv'
  <1>1. PICK m, L : m = Me /\ L = Len(stack)
    OBVIOUS
  <1>2. /\ stack # <<>> /\ Top.step = "effect" /\ marks' = marks /\ chain' = chain
        /\ Class \in {"NON_ATOMIC", "EXTERNAL"} /\ Goto("failing") /\ acts' = acts
        /\ warrants' = warrants /\ status' = status /\ config' = config
    BY <1>1 DEF EffectFails, At
  <1>3. /\ (calls[m].strict => m \in warrants)
        /\ (Holds(L) <=> Class = "ATOMIC" /\ Top.step \in HoldSteps)
    BY <1>1, <1>2, TopFacts
  <1>4. WarrantAndAct("failing", m)
    BY <1>2, <1>3 DEF WarrantAndAct, StepFits
  <1>5. RowsFitStep("failing", m)
    BY DEF RowsFitStep
  <1>6. "failing" \in Step /\ (Holds(Len(stack)) <=> Class = "ATOMIC" /\ "failing" \in HoldSteps)
    BY <1>1, <1>2, <1>3 DEF Step, HoldSteps
  <1> QED BY <1>1, <1>2, <1>4, <1>5, <1>6, MoveSilently

(* The effect returns. *)
LEMMA EffectReturnsKeeps ==
    ASSUME KernelInv, EffectReturns
    PROVE  KernelInv'
  <1>1. PICK m, L : m = Me /\ L = Len(stack)
    OBVIOUS
  <1>2. /\ stack # <<>> /\ Top.step = "effect" /\ marks' = marks /\ chain' = chain /\ acts' = acts
        /\ warrants' = warrants /\ status' = status /\ config' = config
    BY <1>1 DEF EffectReturns, At
  <1>3. /\ TypeOK /\ m \in 1..Len(calls) /\ StepFits("effect", Class) /\ Class \in EffectClass
        /\ (calls[m].strict => m \in warrants)
        /\ (Holds(L) <=> Class = "ATOMIC" /\ Top.step \in HoldSteps)
        /\ calls[m].parent = 0 /\ Class = "NON_ATOMIC" => Written(LevelEnd(1), m, "success")
    BY <1>1, <1>2, TopFacts
  <1>4. CASE Class = "ATOMIC"
    <2>1. Goto("succeeding")
      BY <1>4 DEF EffectReturns
    <2>2. WarrantAndAct("succeeding", m)
      BY <1>2, <1>3, <1>4 DEF WarrantAndAct, StepFits
    <2>3. RowsFitStep("succeeding", m)
      BY DEF RowsFitStep
    <2>4. "succeeding" \in Step /\ (Holds(Len(stack)) <=> Class = "ATOMIC" /\ "succeeding" \in HoldSteps)
      BY <1>1, <1>2, <1>3, <1>4 DEF Step, HoldSteps
    <2> QED BY <1>1, <1>2, <2>1, <2>2, <2>3, <2>4, MoveSilently
  <1>5. CASE Class = "EXTERNAL"
    <2>1. Goto("committing")
      BY <1>5 DEF EffectReturns
    <2>2. WarrantAndAct("committing", m)
      BY <1>2, <1>3, <1>5 DEF WarrantAndAct, StepFits
    <2>3. RowsFitStep("committing", m)
      BY DEF RowsFitStep
    <2>4. "committing" \in Step /\ (Holds(Len(stack)) <=> Class = "ATOMIC" /\ "committing" \in HoldSteps)
      BY <1>1, <1>2, <1>3, <1>5 DEF Step, HoldSteps
    <2> QED BY <1>1, <1>2, <2>1, <2>2, <2>3, <2>4, MoveSilently
  <1>6. CASE Class = "NON_ATOMIC"
    <2>1. Finish("returned")
      BY <1>6 DEF EffectReturns
    <2>2. TopLeaves("returned", 0)
      BY <1>1, <1>2, <1>3, <1>6, <2>1, LeavesOpenly
    <2>3. OutcomeWritten("returned", 0, 0, "legend_seal", m)
      <3>1. Rewritten(Len(chain), 0, "legend_seal") /\ m # 0
        BY <1>2, <1>3, ChainSame, KernelShapes
      <3>2. calls[m].parent = 0 => Written(LevelEnd(1), m, "success")'
        BY <1>2, <1>3, <1>6 DEF Written, LevelEnd
      <3> QED BY <3>1, <3>2 DEF OutcomeWritten
    <2> QED BY <1>1, <2>2, <2>3, FinishKeeps
  <1> QED BY <1>3, <1>4, <1>5, <1>6 DEF StepFits, EffectClass

(* The seam is rolled back: the effect raised, or the success or the RELEASE failed. *)
LEMMA RollBackKeeps ==
    ASSUME KernelInv, AtomicEffectRaises \/ SeamFails
    PROVE  KernelInv'
  <1>1. PICK m, L, M : m = Me /\ L = Len(stack) /\ M = Len(marks)
    OBVIOUS
  <1>2. /\ stack # <<>> /\ Top.step \in HoldSteps /\ Goto("aborting")
        /\ chain' = SubSeq(chain, 1, marks[M]) /\ marks' = SubSeq(marks, 1, M - 1)
        /\ acts' = acts /\ warrants' = warrants /\ status' = status /\ config' = config
        /\ Top.step = "effect" => Class = "ATOMIC"
    BY <1>1 DEF AtomicEffectRaises, SeamFails, RollBackSeam, At, HoldSteps
  <1>3. /\ TypeOK /\ m \in 1..Len(calls) /\ StepFits(Top.step, Class)
        /\ (Top.step # "admitted" /\ calls[m].strict => m \in warrants)
        /\ (Holds(L) <=> Class = "ATOMIC" /\ Top.step \in HoldSteps)
        /\ (Holds(L) => Len(marks) > 0 /\ OnlyDecided(marks[Len(marks)], m))
    BY <1>1, <1>2, TopFacts
  <1>4. Class = "ATOMIC" /\ Holds(Len(stack)) /\ OnlyDecided(marks[M], m) /\ M \in Nat \ {0}
    <2>1. Class = "ATOMIC"
      BY <1>2, <1>3 DEF StepFits, HoldSteps
    <2>2. Holds(L)
      BY <1>2, <1>3, <2>1
    <2>3. Len(marks) \in Nat
      BY <1>3, KernelShapes
    <2> QED BY <1>1, <1>3, <2>1, <2>2, <2>3
  <1>5. /\ marks[M] \in 0..Len(chain) /\ marks' \in Seq(Nat) /\ Len(marks') = M - 1
        /\ \A j \in 1..(M - 1) : marks'[j] = marks[j]
    <2>1. marks \in Seq(0..Len(chain)) /\ Len(chain) \in Nat /\ marks[M] \in 0..Len(chain)
      BY <1>1, <1>3, <1>4, KernelShapes DEF TypeOK
    <2>2. marks \in Seq(Nat)
      BY <2>1, SeqMonotonic
    <2>3. 1 \in Nat /\ M - 1 \in 0..Len(marks)
      BY <1>1, <1>4
    <2> QED BY <1>1, <1>2, <1>4, <2>1, <2>2, <2>3, SubSeqProperties, SMTT(20)
  <1>6. LevelEnd(M) = marks[M] /\ \A j \in 1..Len(marks') : marks'[j] = LevelEnd(j)
    BY <1>1, <1>4, <1>5 DEF LevelEnd
  <1>7. TopMoves("aborting", 1, 0, M)
    <2>1. /\ M \in 1..(Len(marks) + 1) /\ Len(marks') <= M /\ M - 1 <= Len(marks')
          /\ Len(marks') = Len(marks) + 0 - 1
      BY <1>1, <1>4, <1>5
    <2>2. "aborting" \in Step /\ "aborting" \notin HoldSteps
      BY DEF Step, HoldSteps
    <2> QED BY <1>2, <1>4, <1>5, <1>6, <2>1, <2>2 DEF TopMoves
  <1>8. Rewritten(marks[M], 0, "legend_seal") /\ Len(chain') = marks[M]
    BY <1>2, <1>3, <1>5, ChainCut
  <1>9. TopWrites(M, 1, 0, 0, "legend_seal")
    <2>1. Rewritten(LevelEnd(M), 0, "legend_seal") /\ m # 0
      BY <1>3, <1>6, <1>8, KernelShapes
    <2> QED BY <1>1, <2>1 DEF TopWrites
  <1>10. RowsFitStep("aborting", m)'
    <2>1. OnlyDecided(marks[M], m)
      BY <1>4
    <2>2. \A k \in 1..Len(chain') : chain'[k] = chain[k] /\ k \in 1..marks[M]
      BY <1>8 DEF Rewritten, RowsStay
    <2>3. OnlyDecided(Len(chain), m)'
      BY <2>1, <2>2 DEF OnlyDecided
    <2> QED BY <2>3 DEF RowsFitStep
  <1>11. WarrantAndAct("aborting", m)
    BY <1>2, <1>3, <1>4 DEF WarrantAndAct, StepFits, HoldSteps
  <1>12. ~(Len(marks') > Len(marks))
    BY <1>1, <1>4, <1>5
  <1> QED BY <1>1, <1>7, <1>9, <1>10, <1>11, <1>12, GotoKeeps

(* The success receipt of an ATOMIC call, inside its seam. *)
LEMMA SeamSuccessKeeps ==
    ASSUME KernelInv, SeamSuccess
    PROVE  KernelInv'
  <1>1. PICK m, L : m = Me /\ L = Len(stack)
    OBVIOUS
  <1>2. /\ stack # <<>> /\ Top.step = "succeeding" /\ marks' = marks /\ Emit("success")
        /\ Goto("releasing") /\ acts' = acts
        /\ warrants' = warrants /\ status' = status /\ config' = config
    BY DEF SeamSuccess, At
  <1>3. /\ StepFits("succeeding", Class)
        /\ (calls[m].strict => m \in warrants)
        /\ (Holds(L) <=> Class = "ATOMIC" /\ Top.step \in HoldSteps)
    BY <1>1, <1>2, TopFacts
  <1>4. Class = "ATOMIC" /\ Holds(Len(stack)) /\ "success" \in Kind /\ "releasing" \in Step
        /\ "releasing" \in HoldSteps
    BY <1>1, <1>2, <1>3 DEF StepFits, HoldSteps, Kind, Step
  <1>5. WarrantAndAct("releasing", m)
    BY <1>2, <1>3, <1>4 DEF WarrantAndAct, StepFits
  <1> QED BY <1>1, <1>2, <1>3, <1>4, <1>5, MoveWriting

(* RELEASE. *)
LEMMA ReleaseKeeps ==
    ASSUME KernelInv, Release
    PROVE  KernelInv'
  <1>1. PICK m, L, M : m = Me /\ L = Len(stack) /\ M = Len(marks)
    OBVIOUS
  <1>2. /\ stack # <<>> /\ Top.step = "releasing" /\ marks' = SubSeq(marks, 1, M - 1)
        /\ Finish("returned") /\ chain' = chain /\ UNCHANGED <<status, config, acts, warrants>>
    BY <1>1 DEF Release, At
  <1>3. /\ TypeOK /\ m \in 1..Len(calls) /\ StepFits("releasing", Class) /\ RowsFitStep("releasing", m)
        /\ (Holds(L) <=> Class = "ATOMIC" /\ Top.step \in HoldSteps)
        /\ (Holds(L) => Len(marks) > 0)
        /\ calls[m].parent = 0 /\ Holds(L) => Len(marks) = 1
    BY <1>1, <1>2, TopFacts
  <1>4. Holds(Len(stack)) /\ M \in Nat \ {0} /\ (calls[m].parent = 0 => M = 1)
    <2>1. Len(marks) \in Nat
      BY <1>3, KernelShapes
    <2> QED BY <1>1, <1>2, <1>3, <2>1 DEF StepFits, HoldSteps
  <1>5. /\ marks' \in Seq(Nat) /\ Len(marks') = M - 1
        /\ \A j \in 1..(M - 1) : marks'[j] = marks[j]
    <2>1. marks \in Seq(0..Len(chain)) /\ Len(chain) \in Nat
      BY <1>3, KernelShapes DEF TypeOK
    <2>2. marks \in Seq(Nat)
      BY <2>1, SeqMonotonic
    <2>3. 1 \in Nat /\ M - 1 \in 0..Len(marks)
      BY <1>1, <1>4
    <2> QED BY <1>1, <1>2, <1>4, <2>2, <2>3, SubSeqProperties
  <1>6. Written(Len(chain), m, "success")
    BY <1>3 DEF RowsFitStep
  <1>7. TopLeaves("returned", 1)
    <2>1. Len(marks') = Len(marks) - 1
      BY <1>1, <1>5
    <2> QED BY <1>1, <1>2, <1>4, <1>5, <1>6, <2>1 DEF TopLeaves
  <1>8. calls[m].parent = 0 => Written(LevelEnd(1), m, "success")'
    <2>1. calls[m].parent = 0 => LevelEnd(1)' = Len(chain)
      BY <1>2, <1>4, <1>5 DEF LevelEnd
    <2> QED BY <1>2, <1>6, <2>1 DEF Written
  <1>9. OutcomeWritten("returned", 1, 0, "legend_seal", m)
    <2>1. Rewritten(Len(chain), 0, "legend_seal") /\ m # 0
      BY <1>2, <1>3, ChainSame, KernelShapes
    <2> QED BY <1>8, <2>1 DEF OutcomeWritten
  <1> QED BY <1>1, <1>7, <1>9, FinishKeeps

(* The abort, the failed receipt and the external terminals. *)
LEMMA WriteOutcomeKeeps ==
    ASSUME KernelInv, WriteOutcome
    PROVE  KernelInv'
  <1>1. PICK m, L : m = Me /\ L = Len(stack)
    OBVIOUS
  <1>2. PICK res \in {"returned", "raised"}, kind \in {"abort", "failed", "commit"} :
           /\ Finish(res) /\ Emit(kind)
           /\ At("aborting") \/ At("failing") \/ At("committing")
           /\ At("aborting") => kind = "abort"
           /\ kind = "commit" => At("committing")
           /\ res = "returned" => At("committing") /\ kind = "commit"
           /\ kind = "commit" => res = "returned"
    <2>1. CASE At("aborting") /\ Emit("abort") /\ Finish("raised")
      BY <2>1 DEF At
    <2>2. CASE At("failing") /\ Finish("raised") /\ Emit(IF Class = "EXTERNAL" THEN "abort" ELSE "failed")
      <3>1. CASE Class = "EXTERNAL"
        BY <2>2, <3>1 DEF At
      <3>2. CASE Class # "EXTERNAL"
        BY <2>2, <3>2 DEF At
      <3> QED BY <3>1, <3>2
    <2>3. CASE At("committing") /\ Emit("commit") /\ Finish("returned")
      BY <2>3 DEF At
    <2> QED BY <2>1, <2>2, <2>3 DEF WriteOutcome
  <1>3. /\ stack # <<>> /\ Top.step \in {"aborting", "failing", "committing"} /\ marks' = marks
        /\ UNCHANGED <<status, config, acts, warrants>>
    BY <1>2 DEF WriteOutcome, At
  <1>4. /\ TypeOK /\ m \in 1..Len(calls) /\ StepFits(Top.step, Class) /\ calls[m].class = Class
        /\ RowsFitStep(Top.step, m)
        /\ (Holds(L) <=> Class = "ATOMIC" /\ Top.step \in HoldSteps)
    BY <1>1, <1>3, TopFacts
  <1>5. ~Holds(Len(stack)) /\ kind \in Kind /\ kind # "gate_admit" /\ kind # "success"
    BY <1>1, <1>2, <1>3, <1>4 DEF HoldSteps, Kind
  <1>6. calls'[m].class = calls[m].class /\ calls'[m].result = res
    <2>1. calls[m].result = "open"
      BY <1>1, <1>3, TopFacts
    <2> QED BY <1>1, <1>2, <1>3, <1>4, <2>1, FinishShape DEF CallsEvolve
  <1>7. RowFits(m, kind)
    <2>1. kind = "commit" => Class = "EXTERNAL" /\ res = "returned"
      BY <1>2, <1>4 DEF At, StepFits
    <2>2. kind = "abort" /\ Class = "ATOMIC" => ~Written(Len(chain), m, "success")
      <3>1. Class = "ATOMIC" => Top.step = "aborting"
        BY <1>3, <1>4 DEF StepFits
      <3>2. Top.step = "aborting" => OnlyDecided(Len(chain), m)
        BY <1>4 DEF RowsFitStep
      <3> QED BY <3>1, <3>2 DEF OnlyDecided, Written
    <2> QED BY <1>2, <1>4, <1>6, <2>1, <2>2 DEF RowFits
  <1> QED BY <1>1, <1>2, <1>3, <1>5, <1>7, LeavesWriting

-----------------------------------------------------------------------------
(* The theorems.                                                            *)

(* A fresh kernel satisfies the invariant. *)
LEMMA KernelInit == Init => KernelInv
  <1> SUFFICES ASSUME Init PROVE KernelInv
    OBVIOUS
  <1>1. /\ status = "UNINITIALIZED" /\ config = Permissive /\ chain = <<>> /\ marks = <<>>
        /\ stack = <<>> /\ calls = <<>> /\ acts = {} /\ warrants = {}
    BY DEF Init
  <1>2. Len(chain) = 0 /\ Len(marks) = 0 /\ Len(stack) = 0 /\ Len(calls) = 0
    BY <1>1
  <1>3. TypeOK
    BY <1>1 DEF TypeOK, Permissive, Config
  <1>4. AdmissionOK /\ StackOK /\ MarksOK
    BY <1>1, <1>2, BoundsAssumption DEF AdmissionOK, StackOK, MarksOK
  <1>5. SeamsOK(<<>>)
    BY <1>1, <1>2 DEF SeamsOK
  <1>6. RowsOK /\ SeamRowsOK(<<>>) /\ FoundedBeforeGoverned
    BY <1>1, <1>2 DEF RowsOK, RowCallsOK, SeamRowsOK, TopRowsOK, FoundedBeforeGoverned
  <1>7. LevelsOK(<<>>) /\ FileOK /\ WarrantBeforeEffect
    BY <1>1, <1>2 DEF LevelsOK, FileOK, WarrantBeforeEffect
  <1> QED BY <1>3, <1>4, <1>5, <1>6, <1>7 DEF KernelInv, InvOf

(* A stuttering step keeps the invariant. *)
LEMMA KernelStutter ==
    ASSUME KernelInv, UNCHANGED vars
    PROVE  KernelInv'
  <1>0. PICK own : InvOf(own)
    BY DEF KernelInv
  <1>1. /\ status' = status /\ config' = config /\ chain' = chain /\ marks' = marks
        /\ stack' = stack /\ calls' = calls /\ acts' = acts /\ warrants' = warrants
    BY DEF vars
  <1>2. TypeOK' /\ AdmissionOK' /\ StackOK' /\ MarksOK'
    BY <1>0, <1>1 DEF InvOf, TypeOK, AdmissionOK, StackOK, MarksOK, CallAt, ClassAt
  <1>3. SeamsOK(own)'
    BY <1>0, <1>1 DEF InvOf, SeamsOK, Holds, ClassAt, CallAt
  <1>4. RowsOK' /\ SeamRowsOK(own)'
    BY <1>0, <1>1 DEF InvOf, RowsOK, RowCallsOK, SeamRowsOK, TopRowsOK, OnlyDecided, Written, Top, Me
  <1>5. LevelsOK(own)'
    <2>1. \A j : LevelEnd(j)' = LevelEnd(j)
      BY <1>1 DEF LevelEnd
    <2>2. \A n, i, kind : Written(n, i, kind)' <=> Written(n, i, kind)
      BY <1>1 DEF Written
    <2>3. \A n, i : Touched(n, i)' <=> Touched(n, i)
      BY <1>1, <2>2 DEF Touched
    <2>4. \A n, i : Settled(n, i)' <=> Settled(n, i)
      BY <1>1, <2>2, <2>3 DEF Settled
    <2>5. ASSUME NEW j, NEW i, Settled(LevelEnd(j), i) PROVE Settled(LevelEnd(j), i)'
      <3>1. PICK n : n = LevelEnd(j)
        OBVIOUS
      <3>2. Settled(n, i)'
        BY <2>4, <2>5, <3>1
      <3>3. n = LevelEnd(j)'
        BY <2>1, <3>1
      <3> QED BY <3>2, <3>3 DEF Settled, Touched, Written
    <2> QED BY <1>0, <1>1, <2>1, <2>5 DEF InvOf, LevelsOK
  <1>6. FileOK' /\ FoundedBeforeGoverned' /\ WarrantBeforeEffect'
    BY <1>0, <1>1 DEF InvOf, FileOK, FoundedBeforeGoverned, WarrantBeforeEffect, Receipted, Written,
                LevelEnd, ClassAt, CallAt
  <1> QED BY <1>2, <1>3, <1>4, <1>5, <1>6 DEF KernelInv, InvOf

(***************************************************************************)
(* Every step the code allows.  An effect in a seam may make any governed  *)
(* call, one whose own effect no rollback can undo included; Next keeps to *)
(* the calls that can be revoked with the seam.                            *)
(***************************************************************************)
FreeNext == Next \/ \E r \in Requests : Call(r)

FreeSpec == Init /\ [][FreeNext]_vars

(* Both of the kernel's specifications are cases of it. *)
LEMMA SpecIsFree == (Spec => FreeSpec) /\ (SpecNested => FreeSpec)
  <1>1. [Next]_vars => [FreeNext]_vars
    BY DEF FreeNext
  <1>2. [Proceed \/ Ceremony \/ Crash \/ \E r \in Requests : Call(r)]_vars => [FreeNext]_vars
    BY DEF FreeNext, Next
  <1> QED BY <1>1, <1>2, PTL DEF Spec, SpecNested, FreeSpec

(* Every step of the kernel keeps the invariant. *)
LEMMA KernelNext == KernelInv /\ [FreeNext]_vars => KernelInv'
  <1> SUFFICES ASSUME KernelInv, [FreeNext]_vars PROVE KernelInv'
    OBVIOUS
  <1>1. CASE Proceed
    BY <1>1, MaterialiseWarrantKeeps, WarrantFailsKeeps, SilentRaiseKeeps, LegacySuccessKeeps,
       ExternalPrepareKeeps, EnterSeamKeeps, EffectReturnsKeeps, RollBackKeeps, EffectFailsKeeps,
       SeamSuccessKeeps, ReleaseKeeps, WriteOutcomeKeeps DEF Proceed
  <1>2. CASE EffectWrites
    BY <1>2, EffectWritesKeeps
  <1>3. CASE Ceremony
    BY <1>3, CeremonyKeeps
  <1>4. CASE \E c \in Configs : Configure(c)
    BY <1>4, ConfigureKeeps
  <1>5. CASE Crash
    BY <1>5, CrashKeeps
  <1>6. CASE \E r \in Requests : Call(r)
    BY <1>6, AdmitKeeps, RefuseKeeps DEF Call
  <1>7. CASE UNCHANGED vars
    BY <1>7, KernelStutter
  <1> QED BY <1>1, <1>2, <1>3, <1>4, <1>5, <1>6, <1>7 DEF FreeNext, Next

(* Every level of the chain tells a consistent story, for ever. *)
THEOREM KernelInvariance == FreeSpec => []KernelInv
  BY KernelInit, KernelNext, PTL DEF FreeSpec

(* The file is the first level of the chain. *)
LEMMA FileIsFirstLevel ==
    ASSUME KernelInv
    PROVE  /\ Len(Durable) = LevelEnd(1) /\ LevelEnd(1) \in 0..Len(chain)
           /\ \A k \in 1..LevelEnd(1) : Durable[k] = chain[k]
           /\ \A i, kind : Receipted(Durable, i, kind) <=> Written(LevelEnd(1), i, kind)
  <1>1. TypeOK /\ MarksOK
    BY DEF KernelInv, InvOf
  <1>2. Len(marks) \in Nat /\ Len(chain) \in Nat /\ (marks = <<>> <=> Len(marks) = 0)
        /\ LevelEnd(1) \in 0..Len(chain)
    BY <1>1, KernelShapes, LevelBounds
  <1>3. Len(Durable) = LevelEnd(1) /\ \A k \in 1..LevelEnd(1) : Durable[k] = chain[k]
    <2>1. CASE Len(marks) = 0
      BY <1>2, <2>1 DEF Durable, LevelEnd
    <2>2. CASE Len(marks) > 0
      <3>1. Durable = SubSeq(chain, 1, marks[1]) /\ LevelEnd(1) = marks[1]
        BY <1>2, <2>2 DEF Durable, LevelEnd
      <3>2. chain \in Seq(RowRecord) /\ 1 \in Nat /\ marks[1] \in 0..Len(chain)
        BY <1>1, <1>2, <3>1 DEF TypeOK, RowRecord
      <3>3. \A k \in 1..marks[1] : chain[k] \in RowRecord
        BY <1>2, <3>2, ElementOfSeq
      <3>4. /\ Len(SubSeq(chain, 1, marks[1])) = (IF 1 <= marks[1] THEN marks[1] - 1 + 1 ELSE 0)
            /\ \A k \in 1..(marks[1] - 1 + 1) : SubSeq(chain, 1, marks[1])[k] = chain[1 + k - 1]
        BY <3>2, <3>3, SubSeqProperties
      <3> QED BY <1>2, <3>1, <3>2, <3>4
    <2> QED BY <1>2, <2>1, <2>2
  <1> QED BY <1>2, <1>3 DEF Receipted, Written

(* The first level settles every call. *)
LEMMA FileSettles ==
    ASSUME KernelInv, NEW i \in 1..Len(calls)
    PROVE  Settled(LevelEnd(1), i)
  <1>1. Len(marks) \in Nat
    BY KernelShapes DEF KernelInv, InvOf
  <1>2. PICK own : InvOf(own)
    BY DEF KernelInv
  <1>3. 1 \in 1..(Len(marks) + 1) /\ \A h \in 1..(1 - 1) : own[h] # i
    BY <1>1
  <1> QED BY <1>2, <1>3 DEF InvOf, LevelsOK

(* The first level settles the ATOMIC calls and the successes: so does the file. *)
LEMMA FileIsSettled == KernelInv => OutcomeAtomic /\ NoFalseSuccess
  <1>1. ASSUME KernelInv, NEW i \in 1..Len(calls), calls[i].class = "ATOMIC"
        PROVE  /\ Receipted(Durable, i, "effect") => Receipted(Durable, i, "success")
               /\ \A k \in 1..Len(Durable) :
                     Durable[k].call > 0 /\ calls[Durable[k].call].parent = i
                        => Receipted(Durable, i, "success")
               /\ ~(Receipted(Durable, i, "success") /\ Receipted(Durable, i, "abort"))
    <2>1. Settled(LevelEnd(1), i)
      BY <1>1, FileSettles
    <2> QED BY <1>1, <2>1, FileIsFirstLevel DEF Settled, Touched
  <1>2. ASSUME KernelInv, NEW i \in 1..Len(calls)
        PROVE  /\ (Receipted(Durable, i, "success") \/ Receipted(Durable, i, "commit"))
                     /\ calls[i].class # "NON_ATOMIC" => calls[i].result = "returned"
               /\ calls[i].result = "returned" /\ calls[i].parent = 0
                     => Receipted(Durable, i, "success") \/ Receipted(Durable, i, "commit")
    <2>1. Settled(LevelEnd(1), i)
      BY <1>2, FileSettles
    <2>2. calls[i].result = "returned" /\ calls[i].parent = 0
             => Written(LevelEnd(1), i, "success") \/ Written(LevelEnd(1), i, "commit")
      BY <1>2 DEF KernelInv, InvOf, FileOK
    <2> QED BY <1>2, <2>1, <2>2, FileIsFirstLevel DEF Settled
  <1>3. KernelInv => OutcomeAtomic
    BY <1>1 DEF OutcomeAtomic
  <1>4. KernelInv => NoFalseSuccess
    BY <1>2 DEF NoFalseSuccess
  <1> QED BY <1>3, <1>4

(***************************************************************************)
(* However deep effects call back into execute(), and whatever classes the *)
(* nested calls have: seams stay atomic, no success is false, governed     *)
(* admissions are founded, and warrants precede the effects that need one. *)
(***************************************************************************)
THEOREM NestingIsSafe ==
    FreeSpec => []( /\ TypeOK /\ OutcomeAtomic /\ NoFalseSuccess
                    /\ FoundedBeforeGoverned /\ WarrantBeforeEffect )
  <1>1. KernelInv => TypeOK /\ FoundedBeforeGoverned /\ WarrantBeforeEffect
    BY DEF KernelInv, InvOf
  <1> QED BY <1>1, FileIsSettled, KernelInvariance, PTL

(* The chain, the seams and the stack of calls keep their types. *)
THEOREM KernelTypeCorrect == Spec => []TypeOK
  BY NestingIsSafe, SpecIsFree, PTL

(***************************************************************************)
(* The effect writes, the nested receipts and the success of an ATOMIC     *)
(* call reach the file together or not at all.                             *)
(***************************************************************************)
THEOREM SeamsAreAtomic == Spec => []OutcomeAtomic
  BY NestingIsSafe, SpecIsFree, PTL

(***************************************************************************)
(* A success or a COMMIT in the file means the call returned, and a call   *)
(* that returned to an outside caller has one there.                       *)
(***************************************************************************)
THEOREM SuccessIsTrue == Spec => []NoFalseSuccess
  BY NestingIsSafe, SpecIsFree, PTL

(***************************************************************************)
(* Below every governed admission the chain holds a legend_seal, also      *)
(* after ceremonies that failed half way, rollbacks and crashes.           *)
(***************************************************************************)
THEOREM GovernedIsFounded == Spec => []FoundedBeforeGoverned
  BY NestingIsSafe, SpecIsFree, PTL

(***************************************************************************)
(* Under a model that requires a warrant no effect begins and no success   *)
(* is written without one.                                                 *)
(***************************************************************************)
THEOREM WarrantsPrecedeEffects == Spec => []WarrantBeforeEffect
  BY NestingIsSafe, SpecIsFree, PTL
-----------------------------------------------------------------------------
(* The file, from one commit to the next.                                    *)

(* The rows that the file shows stay, and others only follow them. *)
FileGrows == LevelEnd(1)' \in Nat /\ LevelEnd(1) <= LevelEnd(1)' /\ RowsStay(LevelEnd(1))

(* The seams stay open and the chain stays or grows. *)
LEMMA GrowsOutsideSeams ==
    ASSUME KernelInv, marks' = marks, Len(chain') \in Nat, Len(chain) <= Len(chain'), RowsStay(Len(chain))
    PROVE  FileGrows
  <1>1. TypeOK /\ MarksOK
    BY DEF KernelInv, InvOf
  <1>2. Len(chain) \in Nat /\ Len(marks) \in Nat /\ LevelEnd(1) \in 0..Len(chain)
    BY <1>1, KernelShapes, LevelBounds
  <1>3. RowsStay(LevelEnd(1))
    BY <1>2 DEF RowsStay
  <1>4. LevelEnd(1)' = IF 1 <= Len(marks) THEN marks[1] ELSE Len(chain')
    BY DEF LevelEnd
  <1>5. LevelEnd(1) = IF 1 <= Len(marks) THEN marks[1] ELSE Len(chain)
    BY DEF LevelEnd
  <1> QED BY <1>2, <1>3, <1>4, <1>5 DEF FileGrows

(* A row is appended, or none. *)
LEMMA GrowsByRow ==
    ASSUME KernelInv, marks' = marks,
           \/ chain' = chain
           \/ \E c \in 0..MaxCalls, kind \in Kind : chain' = Append(chain, [call |-> c, kind |-> kind])
    PROVE  FileGrows
  <1>1. TypeOK
    BY DEF KernelInv, InvOf
  <1>2. Len(chain) \in Nat
    BY <1>1, KernelShapes
  <1>3. CASE chain' = chain
    BY <1>2, <1>3, GrowsOutsideSeams DEF RowsStay
  <1>4. ASSUME NEW c \in 0..MaxCalls, NEW kind \in Kind, chain' = Append(chain, [call |-> c, kind |-> kind])
        PROVE  FileGrows
    <2>1. Rewritten(Len(chain), c, kind) /\ Len(chain') = Len(chain) + 1
      BY <1>1, <1>4, ChainAppend
    <2>2. RowsStay(Len(chain))
      BY <2>1 DEF Rewritten
    <2> QED BY <1>2, <2>1, <2>2, GrowsOutsideSeams
  <1> QED BY <1>3, <1>4

(* A seam is opened. *)
LEMMA GrowsAtSeam ==
    ASSUME KernelInv, chain' = chain, marks' = Append(marks, Len(chain))
    PROVE  FileGrows
  <1>1. TypeOK /\ MarksOK
    BY DEF KernelInv, InvOf
  <1>2. Len(chain) \in Nat /\ Len(marks) \in Nat /\ LevelEnd(1) \in 0..Len(chain)
        /\ marks \in Seq(0..Len(chain)) /\ Len(chain) \in 0..Len(chain)
    BY <1>1, KernelShapes, LevelBounds DEF TypeOK
  <1>3. Len(marks') = Len(marks) + 1 /\ marks'[1] = IF 1 <= Len(marks) THEN marks[1] ELSE Len(chain)
    BY <1>2, AppendProperties
  <1>4. LevelEnd(1)' = LevelEnd(1)
    BY <1>2, <1>3 DEF LevelEnd
  <1> QED BY <1>2, <1>4 DEF FileGrows, RowsStay

(* The innermost seam is closed: rolled back, or released. *)
LEMMA GrowsAtClose ==
    ASSUME KernelInv, Len(marks) > 0, marks' = SubSeq(marks, 1, Len(marks) - 1),
           chain' = chain \/ chain' = SubSeq(chain, 1, marks[Len(marks)])
    PROVE  FileGrows
  <1>1. TypeOK /\ MarksOK
    BY DEF KernelInv, InvOf
  <1>2. PICK M : M = Len(marks)
    OBVIOUS
  <1>3. /\ Len(chain) \in Nat /\ M \in Nat \ {0} /\ marks \in Seq(0..Len(chain))
        /\ \A j \in 1..M : marks[j] \in 0..Len(chain) /\ marks[1] <= marks[j]
    BY <1>1, <1>2, KernelShapes DEF TypeOK, MarksOK
  <1>4. LevelEnd(1) = marks[1]
    BY <1>2, <1>3 DEF LevelEnd
  <1>5. Len(marks') = M - 1 /\ (M > 1 => marks'[1] = marks[1])
    BY <1>2, <1>3, SubSeqProperties
  <1>6. Len(chain') \in Nat /\ marks[M] <= Len(chain') /\ RowsStay(marks[M])
    <2>1. CASE chain' = chain
      BY <1>3, <2>1 DEF RowsStay
    <2>2. CASE chain' = SubSeq(chain, 1, marks[M])
      <3>1. PICK e : e = marks[M]
        OBVIOUS
      <3>2. e \in 0..Len(chain) /\ chain' = SubSeq(chain, 1, e)
        BY <1>3, <2>2, <3>1
      <3>3. Rewritten(e, 0, "legend_seal") /\ Len(chain') = e
        BY <1>1, <3>2, ChainCut
      <3> QED BY <1>3, <3>1, <3>2, <3>3 DEF Rewritten
    <2> QED BY <1>2, <2>1, <2>2
  <1>7. RowsStay(marks[1])
    BY <1>3, <1>6 DEF RowsStay
  <1>8. LevelEnd(1)' = IF M > 1 THEN marks[1] ELSE Len(chain')
    BY <1>3, <1>5 DEF LevelEnd
  <1> QED BY <1>3, <1>4, <1>6, <1>7, <1>8 DEF FileGrows

(* The process dies: what is left is the file. *)
LEMMA GrowsAtCrash ==
    ASSUME KernelInv, Crash
    PROVE  FileGrows
  <1>1. /\ Len(Durable) = LevelEnd(1) /\ LevelEnd(1) \in 0..Len(chain)
        /\ \A k \in 1..LevelEnd(1) : Durable[k] = chain[k]
    BY FileIsFirstLevel
  <1>2. chain' = Durable /\ marks' = <<>>
    BY DEF Crash
  <1>3. LevelEnd(1)' = Len(chain')
    BY <1>2 DEF LevelEnd
  <1>4. Len(chain) \in Nat
    BY KernelShapes DEF KernelInv, InvOf
  <1> QED BY <1>1, <1>2, <1>3, <1>4 DEF FileGrows, RowsStay

(* A call under way has its number, and a seam if it holds one. *)
LEMMA UnderWay ==
    ASSUME KernelInv, stack # <<>>
    PROVE  /\ Me \in 0..MaxCalls
           /\ Top.step \in {"succeeding", "releasing"} => Class = "ATOMIC"
           /\ Class = "ATOMIC" /\ Top.step \in {"effect", "succeeding", "releasing"} => Len(marks) > 0
  <1>1. PICK m, L : m = Me /\ L = Len(stack)
    OBVIOUS
  <1>2. /\ m \in 0..MaxCalls /\ StepFits(Top.step, Class)
        /\ Holds(L) <=> Class = "ATOMIC" /\ Top.step \in HoldSteps
        /\ Holds(L) => Len(marks) > 0
    BY <1>1, TopFacts
  <1> QED BY <1>1, <1>2 DEF StepFits, HoldSteps

(* No step takes a row from the file or changes one in it. *)
LEMMA FileNeverShrinks ==
    ASSUME KernelInv, [FreeNext]_vars
    PROVE  FileGrows
  <1>1. ASSUME marks' = marks, chain' = chain PROVE FileGrows
    BY <1>1, GrowsByRow
  <1>2. ASSUME stack # <<>>, marks' = marks, NEW kind \in Kind, Emit(kind) PROVE FileGrows
    BY <1>2, UnderWay, GrowsByRow DEF Emit
  <1>3. CASE MaterialiseWarrant \/ WarrantFails \/ StartFails \/ EffectReturns \/ EffectFails
             \/ EffectRaisesThrough \/ OutcomeUnwritten
    BY <1>1, <1>3
    DEF MaterialiseWarrant, WarrantFails, StartFails, EffectReturns, EffectFails, EffectRaisesThrough,
        OutcomeUnwritten
  <1>4. CASE LegacySuccess \/ ExternalPrepare \/ SeamSuccess \/ EffectWrites
    BY <1>2, <1>4 DEF LegacySuccess, ExternalPrepare, SeamSuccess, EffectWrites, At, Kind
  <1>5. CASE WriteOutcome
    BY <1>2, <1>5 DEF WriteOutcome, At, Kind
  <1>6. CASE EnterSeam
    BY <1>6, GrowsAtSeam DEF EnterSeam
  <1>7. CASE AtomicEffectRaises \/ SeamFails \/ Release
    <2>1. stack # <<>> /\ Len(marks) > 0
      BY <1>7, UnderWay DEF AtomicEffectRaises, SeamFails, Release, At
    <2>2. /\ marks' = SubSeq(marks, 1, Len(marks) - 1)
          /\ chain' = chain \/ chain' = SubSeq(chain, 1, marks[Len(marks)])
      BY <1>7 DEF AtomicEffectRaises, SeamFails, Release, RollBackSeam
    <2> QED BY <2>1, <2>2, GrowsAtClose
  <1>8. ASSUME NEW r \in Requests, Call(r) PROVE FileGrows
    <2>1. CASE Admit(r)
      <3>1. Len(calls) + 1 \in 0..MaxCalls
        <4>1. Len(calls) \in Nat /\ MaxCalls \in Nat /\ Len(calls) < MaxCalls
          BY <2>1, KernelShapes, BoundsAssumption DEF Admit, KernelInv, InvOf
        <4> QED BY <4>1
      <3>2. marks' = marks /\ chain' = Append(chain, [call |-> Len(calls) + 1, kind |-> "gate_admit"])
        BY <2>1 DEF Admit
      <3> QED BY <3>1, <3>2, GrowsByRow DEF Kind
    <2>2. CASE Refuse(r)
      <3>1. 0 \in 0..MaxCalls
        BY BoundsAssumption
      <3>2. PICK v \in {"protocol_error", "gate_refuse"} : chain' = Append(chain, [call |-> 0, kind |-> v])
        BY <2>2 DEF Refuse
      <3>3. marks' = marks
        BY <2>2 DEF Refuse
      <3> QED BY <3>1, <3>2, <3>3, GrowsByRow DEF Kind
    <2> QED BY <1>8, <2>1, <2>2 DEF Call
  <1>9. CASE Ceremony
    <2>1. 0 \in 0..MaxCalls
      BY BoundsAssumption
    <2>2. marks' = marks /\ chain' = Append(chain, [call |-> 0, kind |-> "legend_seal"])
      BY <1>9 DEF Ceremony
    <2> QED BY <2>1, <2>2, GrowsByRow DEF Kind
  <1>10. ASSUME NEW c, Configure(c) PROVE FileGrows
    BY <1>1, <1>10 DEF Configure
  <1>11. CASE Crash
    BY <1>11, GrowsAtCrash
  <1>12. CASE UNCHANGED vars
    BY <1>1, <1>12 DEF vars
  <1> QED
    BY <1>3, <1>4, <1>5, <1>6, <1>7, <1>8, <1>9, <1>10, <1>11, <1>12 DEF FreeNext, Next, Proceed

(***************************************************************************)
(* The file, as whoever reopens it reads it: a receipt's hash is known by  *)
(* its place in the chain, and commits to the one before it.               *)
(***************************************************************************)
FileRows ==
    [k \in 1..Len(Durable) |->
        [hr |-> k, parent |-> k - 1, op |-> Durable[k].kind, ref |-> Durable[k].call]]

FileChain == INSTANCE ReceiptChain WITH Genesis <- 0, rows <- FileRows, anchor <- 0

(* The file is the chain up to the first level. *)
FileIsRead == Len(Durable) = LevelEnd(1) /\ \A k \in 1..LevelEnd(1) : Durable[k] = chain[k]

(* It is so in every state. *)
LEMMA FileReads == KernelInv => FileIsRead
  BY FileIsFirstLevel DEF FileIsRead

(* What the file has kept, read again. *)
LEMMA FileRowsGrow ==
    ASSUME KernelInv, KernelInv', FileGrows
    PROVE  [FileChain!Commit]_<<FileRows, 0>>
  <1>1. PICK n, N, old, new :
            n = Len(Durable) /\ N = Len(Durable)' /\ old = FileRows /\ new = FileRows'
    OBVIOUS
  <1>2. /\ n = LevelEnd(1) /\ n \in Nat /\ \A k \in 1..n : Durable[k] = chain[k]
    <2>1. /\ Len(Durable) = LevelEnd(1) /\ LevelEnd(1) \in 0..Len(chain)
          /\ \A k \in 1..LevelEnd(1) : Durable[k] = chain[k]
      BY FileIsFirstLevel
    <2>2. Len(chain) \in Nat
      BY KernelShapes DEF KernelInv, InvOf
    <2> QED BY <1>1, <2>1, <2>2
  <1>3. N = LevelEnd(1)' /\ \A k \in 1..N : Durable'[k] = chain'[k]
    <2>1. KernelInv' => FileIsRead'
      BY FileReads, PTL
    <2> QED BY <1>1, <2>1 DEF FileIsRead
  <1>4. N \in Nat /\ n <= N /\ \A k \in 1..n : chain'[k] = chain[k]
    BY <1>2, <1>3 DEF FileGrows, RowsStay
  <1>5. \A k \in 1..n : Durable'[k] = Durable[k]
    BY <1>2, <1>3, <1>4
  <1>6. /\ old = [k \in 1..n |-> [hr |-> k, parent |-> k - 1, op |-> Durable[k].kind, ref |-> Durable[k].call]]
        /\ new = [k \in 1..N |-> [hr |-> k, parent |-> k - 1, op |-> Durable'[k].kind, ref |-> Durable'[k].call]]
    BY <1>1 DEF FileRows
  <1>7. Len(old) = n /\ Len(new) = N /\ \A k \in 1..n : new[k] = old[k]
    BY <1>2, <1>4, <1>5, <1>6
  <1>8. \A k \in 1..N : new[k].hr = k /\ new[k].parent = k - 1
    BY <1>6
  <1> QED
    <2>1. PICK R : R = {old[k] : k \in 1..n} \cup {new[k] : k \in 1..N}
      OBVIOUS
    <2>2. (\A k \in 1..n : old[k] \in R) /\ (\A k \in 1..N : new[k] \in R)
      BY <2>1
    <2>3. SubSeq(new, 1, n) = SubSeq(old, 1, n)
      <3>1. PICK u, v : u = SubSeq(new, 1, n) /\ v = SubSeq(old, 1, n)
        OBVIOUS
      <3>2. \A k \in 1..n : new[k] \in R
        BY <1>2, <1>4, <2>2
      <3>3. u \in Seq(R) /\ Len(u) = (IF 1 <= n THEN n - 1 + 1 ELSE 0)
            /\ \A k \in 1..(n - 1 + 1) : u[k] = new[1 + k - 1]
        BY <1>2, <3>1, <3>2, SubSeqProperties
      <3>4. v \in Seq(R) /\ Len(v) = (IF 1 <= n THEN n - 1 + 1 ELSE 0)
            /\ \A k \in 1..(n - 1 + 1) : v[k] = old[1 + k - 1]
        BY <1>2, <2>2, <3>1, SubSeqProperties
      <3>5. Len(u) = n /\ Len(v) = n /\ \A k \in 1..n : u[k] = new[k] /\ v[k] = old[k]
        BY <1>2, <3>3, <3>4
      <3>6. u = v
        BY <1>7, <3>3, <3>4, <3>5, SeqEqual
      <3> QED BY <3>1, <3>6
    <2>4. \A k \in 1..N : new[k].parent = IF k = 1 THEN 0 ELSE new[k - 1].hr
      <3>1. \A k \in 1..N : k = 1 \/ k - 1 \in 1..N
        BY <1>4
      <3> QED BY <1>4, <1>8, <3>1
    <2>5. FileChain!Commit
      <3>1. /\ 0 \in 0..Len(old) /\ Len(old) - 0 = n /\ 0 + 1 = 1
            /\ Len(new) >= Len(old) - 0
        BY <1>2, <1>4, <1>7
      <3>2. SubSeq(new, 1, Len(old) - 0) = SubSeq(old, 0 + 1, Len(old))
        BY <1>7, <2>3, <3>1
      <3> QED BY <1>1, <1>7, <2>4, <3>1, <3>2 DEF FileChain!Commit, FileChain!Linked
    <2> QED BY <2>5

(***************************************************************************)
(* The kernel's file is a receipt chain, and an append-only one: through   *)
(* effects that raise, seams released or rolled back at any depth, writes  *)
(* that fail and crashes, no receipt that the file shows is lost, changed  *)
(* or moved, and new ones only follow it.  This asks nothing of the calls  *)
(* that effects make.                                                      *)
(***************************************************************************)
THEOREM NestedImplementsChain == FreeSpec => FileChain!Spec
  <1>1. Init => FileChain!Init
    <2> SUFFICES ASSUME Init PROVE FileChain!Init
      OBVIOUS
    <2>1. Durable = <<>>
      BY DEF Init, Durable
    <2>2. FileRows = <<>>
      BY <2>1 DEF FileRows
    <2> QED BY <2>2 DEF FileChain!Init
  <1>2. ASSUME KernelInv, [FreeNext]_vars PROVE [FileChain!Commit]_<<FileRows, 0>>
    <2>1. KernelInv' /\ FileGrows
      BY <1>2, KernelNext, FileNeverShrinks
    <2> QED BY <1>2, <2>1, FileRowsGrow
  <1> QED BY <1>1, <1>2, KernelInvariance, PTL DEF FreeSpec, FileChain!Spec

(* In particular the kernel as specified implements the receipt chain. *)
THEOREM KernelImplementsChain == Spec => FileChain!Spec
  BY NestedImplementsChain, SpecIsFree, PTL
-----------------------------------------------------------------------------
(* Decisions, under the restriction to revocable calls.                      *)

(* Only calls that a rollback undoes run inside a seam. *)
InSeamOK ==
    \A k \in 1..Len(stack) : \A j \in 1..(k - 1) :
        ClassAt(j) = "ATOMIC" => ClassAt(k) \in {"none", "ATOMIC"}

(* The file shows the decision on every effect begun that none undoes. *)
DecidedInFile ==
    \A i \in acts :
        calls[i].class # "ATOMIC" \/ calls[i].parent = 0
            => Written(LevelEnd(1), i, "gate_admit")

(* What no step changes of a call. *)
TermsKept ==
    \A i \in 1..Len(calls) :
        /\ calls'[i].class = calls[i].class
        /\ calls'[i].parent = calls[i].parent

(* The calls that remain under way are the ones that were. *)
StackCut ==
    /\ Len(stack') \in Nat /\ Len(stack') <= Len(stack)
    /\ \A k \in 1..Len(stack') : stack'[k].call = stack[k].call

(* Every step of a call goes on with it or ends it. *)
LEMMA ProceedShape ==
    ASSUME KernelInv, Proceed
    PROVE  TermsKept /\ StackCut
  <1>1. PICK m, L : m = Me /\ L = Len(stack)
    OBVIOUS
  <1>2. stack # <<>> /\ ((\E s \in Step : Goto(s)) \/ (\E res \in {"returned", "raised"} : Finish(res)))
    <2>1. CASE EffectReturns
      <3>1. stack # <<>> /\ Top.step = "effect"
        BY <2>1 DEF EffectReturns, At
      <3>2. Class \in EffectClass /\ StepFits(Top.step, Class)
        BY <3>1, TopFacts
      <3>3. Class \in {"ATOMIC", "EXTERNAL", "NON_ATOMIC"}
        BY <3>1, <3>2 DEF EffectClass, StepFits
      <3> QED BY <2>1, <3>1, <3>3 DEF EffectReturns, Step
    <2>2. CASE ~EffectReturns
      BY <2>2
      DEF Proceed, MaterialiseWarrant, WarrantFails, LegacySuccess, ExternalPrepare, EnterSeam, StartFails,
          AtomicEffectRaises, EffectFails, EffectRaisesThrough, SeamSuccess, Release, SeamFails,
          WriteOutcome, OutcomeUnwritten, At, Step
    <2> QED BY <2>1, <2>2
  <1>3. TypeOK /\ calls[m].result = "open"
    BY <1>1, <1>2, TopFacts
  <1>4. ASSUME NEW s \in Step, Goto(s) PROVE TermsKept /\ StackCut
    <2>1. /\ L \in Nat \ {0} /\ stack[L].call = m /\ Len(stack') = L /\ stack'[L].call = m
          /\ \A k \in 1..(L - 1) : stack'[k] = stack[k]
          /\ calls' = calls
      BY <1>1, <1>2, <1>3, <1>4, GotoShape
    <2>2. \A k \in 1..L : stack'[k].call = stack[k].call
      BY <2>1
    <2> QED BY <1>1, <2>1, <2>2 DEF TermsKept, StackCut
  <1>5. ASSUME NEW res \in {"returned", "raised"}, Finish(res) PROVE TermsKept /\ StackCut
    <2>1. /\ L \in Nat \ {0} /\ Len(stack') = L - 1 /\ CallsEvolve
          /\ \A k \in 1..(L - 1) : stack'[k] = stack[k]
      BY <1>1, <1>2, <1>3, <1>5, FinishShape
    <2>2. TermsKept
      BY <2>1 DEF TermsKept, CallsEvolve
    <2> QED BY <1>1, <2>1, <2>2 DEF StackCut
  <1> QED BY <1>2, <1>4, <1>5

(* A step that admits nothing leaves the seams to the calls that ran in them. *)
LEMMA InSeamCut ==
    ASSUME TypeOK, InSeamOK, TermsKept, StackCut
    PROVE  InSeamOK'
  <1>1. Len(stack) \in Nat /\ \A k \in 1..Len(stack) : stack[k].call \in 1..Len(calls)
    BY KernelShapes
  <1>2. \A k \in 1..Len(stack') : k \in 1..Len(stack) /\ ClassAt(k)' = ClassAt(k)
    BY <1>1 DEF StackCut, TermsKept, ClassAt
  <1>3. \A k \in 1..Len(stack') : \A j \in 1..(k - 1) : j \in 1..Len(stack')
    BY DEF StackCut
  <1> QED BY <1>2, <1>3 DEF InSeamOK

(* An admission into a seam is of a call that can be revoked with it. *)
LEMMA InSeamAdmit ==
    ASSUME KernelInv, InSeamOK, NEW r \in Requests, Revocable(r), Admit(r)
    PROVE  TermsKept /\ InSeamOK'
  <1>inv. PICK own : InvOf(own)
    BY DEF KernelInv
  <1>0. TypeOK /\ AdmissionOK /\ StackOK /\ SeamsOK(own)
    BY <1>inv DEF InvOf
  <1>len. PICK L, M, n : L = Len(stack) /\ M = Len(marks) /\ n = Len(calls) + 1
    OBVIOUS
  <1>1. Pushed(own, r, L, M, n)
    BY <1>0, <1>len, SeamsPush
  <1>2. /\ L \in Nat /\ Len(stack') = L + 1
        /\ \A k \in 1..L : stack'[k] = stack[k]
        /\ stack'[L + 1].call = n /\ calls'[n].class = r.class
    BY <1>1 DEF Pushed
  <1>3. TermsKept
    BY <1>1 DEF Pushed, TermsKept, CallsEvolve
  <1>4. /\ \A k \in 1..L : ClassAt(k)' = ClassAt(k)
        /\ ClassAt(L + 1)' = r.class
    <2>1. \A k \in 1..L : stack[k].call \in 1..Len(calls)
      BY <1>0, <1>len, KernelShapes
    <2> QED BY <1>2, <1>3, <2>1 DEF ClassAt, TermsKept
  <1>5. ASSUME NEW j \in 1..L, ClassAt(j) = "ATOMIC" PROVE r.class \in {"none", "ATOMIC"}
    <2>1. stack[j].step = "effect"
      <3>1. MayCall /\ stack # <<>>
        BY <1>0, <1>2, <1>len, <1>5, KernelShapes DEF Admit
      <3>2. stack[L].step = "effect"
        BY <1>len, <3>1 DEF MayCall, Top
      <3>3. j = L \/ j < L
        BY <1>2
      <3> QED BY <1>0, <1>len, <3>2, <3>3 DEF StackOK
    <2>2. Holds(j)
      BY <1>5, <2>1 DEF Holds
    <2>3. PICK h \in 1..Len(own) : own[h] = CallAt(j)
      BY <1>0, <1>len, <2>2 DEF SeamsOK
    <2>4. Len(own) = Len(marks) /\ Len(marks) \in Nat /\ (marks = <<>> <=> Len(marks) = 0)
      BY <1>0, KernelShapes DEF SeamsOK
    <2>5. marks # <<>>
      BY <2>3, <2>4
    <2> QED BY <2>5 DEF Revocable
  <1>6. ASSUME NEW k \in 1..(L + 1), NEW j \in 1..(k - 1), ClassAt(j)' = "ATOMIC"
        PROVE  ClassAt(k)' \in {"none", "ATOMIC"}
    <2>1. j \in 1..L /\ ClassAt(j) = "ATOMIC"
      BY <1>2, <1>4, <1>6
    <2>2. CASE k = L + 1
      BY <1>4, <1>5, <2>1, <2>2
    <2>3. CASE k # L + 1
      <3>1. k \in 1..L
        BY <1>2, <2>3
      <3> QED BY <1>4, <1>len, <2>1, <3>1 DEF InSeamOK
    <2> QED BY <2>2, <2>3
  <1>7. InSeamOK'
    BY <1>2, <1>6 DEF InSeamOK
  <1> QED BY <1>3, <1>7

(* Whatever step is taken, calls keep their terms and seams what runs in them. *)
LEMMA InSeamStep ==
    ASSUME KernelInv, InSeamOK, [Next]_vars
    PROVE  TermsKept /\ InSeamOK'
  <1>0. TypeOK
    BY DEF KernelInv, InvOf
  <1>1. ASSUME stack' = stack, calls' = calls PROVE TermsKept /\ InSeamOK'
    <2>1. Len(stack) \in Nat
      BY <1>0, KernelShapes
    <2>2. TermsKept /\ StackCut
      BY <1>1, <2>1 DEF TermsKept, StackCut
    <2> QED BY <1>0, <2>2, InSeamCut
  <1>2. CASE Proceed
    BY <1>0, <1>2, ProceedShape, InSeamCut
  <1>3. CASE EffectWrites \/ Ceremony \/ (\E c \in Configs : Configure(c)) \/ UNCHANGED vars
    BY <1>1, <1>3 DEF EffectWrites, Ceremony, Configure, vars
  <1>4. CASE Crash
    <2>1. stack' = <<>> /\ \A i \in DOMAIN calls :
             calls'[i] = IF calls[i].result = "open" THEN [calls[i] EXCEPT !.result = "raised"] ELSE calls[i]
      BY <1>4 DEF Crash
    <2>2. calls \in Seq(CallRecord)
      BY <1>0 DEF TypeOK, CallRecord
    <2>3. DOMAIN calls = 1..Len(calls) /\ \A i \in 1..Len(calls) : calls[i] \in CallRecord
      BY <2>2, LenProperties, ElementOfSeq
    <2>4. TermsKept
      BY <2>1, <2>3 DEF TermsKept, CallRecord
    <2>5. Len(stack') = 0 /\ Len(stack) \in Nat
      BY <1>0, <2>1, KernelShapes
    <2>6. StackCut
      BY <2>5 DEF StackCut
    <2> QED BY <1>0, <2>4, <2>6, InSeamCut
  <1>5. ASSUME NEW r \in Requests, Revocable(r), Call(r) PROVE TermsKept /\ InSeamOK'
    <2>1. CASE Admit(r)
      BY <1>5, <2>1, InSeamAdmit
    <2>2. CASE Refuse(r)
      BY <1>1, <2>2 DEF Refuse
    <2> QED BY <1>5, <2>1, <2>2 DEF Call
  <1> QED BY <1>2, <1>3, <1>4, <1>5 DEF Next

(* A call whose effect no rollback undoes runs outside every seam. *)
LEMMA OutsideSeams ==
    ASSUME KernelInv, InSeamOK, stack # <<>>, Class \in {"NON_ATOMIC", "EXTERNAL"}
    PROVE  Len(marks) = 0
  <1>inv. PICK own : InvOf(own)
    BY DEF KernelInv
  <1>0. TypeOK /\ StackOK /\ SeamsOK(own)
    BY <1>inv DEF InvOf
  <1>1. PICK L, M, m : L = Len(stack) /\ M = Len(marks) /\ m = Me
    OBVIOUS
  <1>2. L \in Nat \ {0} /\ M \in Nat /\ Len(own) = M /\ ClassAt(L) = Class
    BY <1>0, <1>1, TopAndSeams
  <1>3. SUFFICES ASSUME M > 0 PROVE FALSE
    BY <1>1, <1>2
  <1>4. 1 \in 1..Len(own)
    BY <1>2, <1>3
  <1>5. PICK k \in 1..L : Holds(k)
    BY <1>0, <1>1, <1>4 DEF SeamsOK
  <1>6. ClassAt(k) = "ATOMIC"
    BY <1>5 DEF Holds
  <1>7. CASE k = L
    BY <1>2, <1>6, <1>7
  <1>8. CASE k # L
    <2>1. L \in 1..Len(stack) /\ k \in 1..(L - 1)
      BY <1>1, <1>2, <1>5, <1>8
    <2> QED BY <1>2, <1>6, <2>1 DEF InSeamOK
  <1> QED BY <1>7, <1>8

(* An effect begins after its decision. *)
LEMMA ActsDecided ==
    ASSUME KernelInv, InSeamOK, [Next]_vars, NEW i \in acts', i \notin acts,
           calls'[i].class # "ATOMIC" \/ calls'[i].parent = 0
    PROVE  Written(LevelEnd(1), i, "gate_admit")'
  <1>1. PICK m, L : m = Me /\ L = Len(stack)
    OBVIOUS
  <1>2. /\ stack # <<>> /\ Top.step = "ready" /\ i = m /\ calls' = calls
        /\ \/ /\ Class \in {"NON_ATOMIC", "EXTERNAL"} /\ marks' = marks
              /\ \E kind \in Kind : Emit(kind)
           \/ Class = "ATOMIC" /\ marks' = Append(marks, Len(chain)) /\ chain' = chain
    <2>1. LegacySuccess \/ ExternalPrepare \/ EnterSeam
      BY DEF Next, Proceed, MaterialiseWarrant, WarrantFails, StartFails, EffectWrites, Call, Admit, Refuse,
             EffectReturns, AtomicEffectRaises, EffectFails, EffectRaisesThrough, SeamSuccess, Release,
             SeamFails, WriteOutcome, OutcomeUnwritten, Ceremony, Configure, Crash, vars
    <2> QED BY <1>1, <2>1 DEF LegacySuccess, ExternalPrepare, EnterSeam, At, Goto, Kind
  <1>3. /\ TypeOK /\ m \in 1..Len(calls) /\ m \in 0..MaxCalls /\ calls[m].class = Class
        /\ RowsFitStep("ready", m)
        /\ (Holds(L) <=> Class = "ATOMIC" /\ Top.step \in HoldSteps)
        /\ calls[m].parent = 0 /\ ~Holds(L) => Len(marks) = 0
    BY <1>1, <1>2, TopFacts
  <1>4. Written(Len(chain), m, "gate_admit") /\ ~Holds(L)
    BY <1>2, <1>3 DEF RowsFitStep, HoldSteps
  <1>5. CASE Class \in {"NON_ATOMIC", "EXTERNAL"}
    <2>1. Len(marks) = 0
      BY <1>2, <1>5, OutsideSeams
    <2>2. PICK kind \in Kind : Emit(kind)
      BY <1>2, <1>5
    <2>3. marks' = marks
      BY <1>2, <1>5
    <2>4. Written(LevelEnd(1), m, "gate_admit")'
      BY <1>1, <1>3, <1>4, <2>1, <2>2, <2>3, EmittedIsDurable
    <2> QED BY <1>2, <2>4
  <1>6. CASE Class = "ATOMIC"
    <2>1. Len(marks) = 0 /\ chain' = chain /\ marks' = Append(marks, Len(chain))
      BY <1>2, <1>3, <1>4, <1>6
    <2>2. marks = <<>>
      BY <1>3, <2>1, KernelShapes
    <2>3. LevelEnd(1)' = Len(chain)
      BY <2>1, <2>2 DEF LevelEnd
    <2> QED BY <1>2, <1>4, <2>1, <2>3 DEF Written
  <1> QED BY <1>2, <1>5, <1>6

(* The decisions that the file shows stay, and every new effect has one. *)
LEMMA DecidedStep ==
    ASSUME KernelInv, InSeamOK, DecidedInFile, [Next]_vars
    PROVE  DecidedInFile'
  <1>1. ASSUME NEW i \in acts', calls'[i].class # "ATOMIC" \/ calls'[i].parent = 0
        PROVE  Written(LevelEnd(1), i, "gate_admit")'
    <2>1. CASE i \in acts
      <3>1. i \in 1..Len(calls)
        BY <2>1 DEF KernelInv, InvOf, TypeOK
      <3>2. calls'[i].class = calls[i].class /\ calls'[i].parent = calls[i].parent
        BY <3>1, InSeamStep DEF TermsKept
      <3>3. Written(LevelEnd(1), i, "gate_admit")
        BY <1>1, <2>1, <3>2 DEF DecidedInFile
      <3>4. FileGrows
        BY FileNeverShrinks DEF FreeNext
      <3>5. LevelEnd(1) \in Nat
        <4>1. LevelEnd(1) \in 0..Len(chain)
          BY FileIsFirstLevel
        <4> QED BY <4>1
      <3> QED BY <3>3, <3>4, <3>5 DEF FileGrows, RowsStay, Written
    <2>2. CASE i \notin acts
      BY <1>1, <2>2, ActsDecided
    <2> QED BY <2>1, <2>2
  <1> QED BY <1>1 DEF DecidedInFile

(***************************************************************************)
(* Once an effect that no rollback can undo has begun, its gate_admit is   *)
(* in the file, whatever seams are open around it.  This one needs Next's  *)
(* restriction: only calls that can be revoked with a seam run inside it.  *)
(***************************************************************************)
THEOREM DecisionsPrecedeEffects == Spec => []DecisionBeforeEffect
  <1>1. Init => InSeamOK /\ DecidedInFile
    BY DEF Init, InSeamOK, DecidedInFile
  <1>2. KernelInv /\ InSeamOK /\ DecidedInFile /\ [Next]_vars => InSeamOK' /\ DecidedInFile'
    BY InSeamStep, DecidedStep
  <1>3. KernelInv /\ DecidedInFile => DecisionBeforeEffect
    BY FileIsFirstLevel DEF DecidedInFile, DecisionBeforeEffect
  <1> QED BY <1>1, <1>2, <1>3, KernelInvariance, SpecIsFree, PTL DEF Spec
=============================================================================
