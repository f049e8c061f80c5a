------------------------------ MODULE VMProofs ------------------------------
(***************************************************************************)
(* Theorems about the interpreter, for every image and every limit.        *)
(*                                                                         *)
(* The evaluation cost: the instruction count passes the limit at most     *)
(* once and by one, and once it has, the EvalCostError reaches the driver  *)
(* with nothing else executed.  Nothing is assumed about the compiled      *)
(* code: a bad jump, a stack underflow or a wild slot number cannot break  *)
(* either of them.                                                         *)
(*                                                                         *)
(* The operand stack: when every image has a stack map (StackMaps), the    *)
(* stacks of run() are as the map says.  That hypothesis is about the code *)
(* alone; Machine checks it on what the code generator makes.              *)
(***************************************************************************)
EXTENDS StackMaps, SequenceTheorems, WellFoundedInduction, TLAPS

-----------------------------------------------------------------------------
(* The evaluation cost *)

\* What the count depends on: frames is a sequence, an exception is only in
\* flight while an activation is there to carry it, and past the limit the
\* exception is the EvalCostError.
VMInv ==
    /\ \E S : frames \in Seq(S)
    /\ frames = <<>> => exc = NoExc
    /\ evalCost \in Nat
    /\ evalCost <= MaxEvalCost + 1
    /\ evalCost > MaxEvalCost => exc = EvalCostErr \/ Done

\* What one instruction may do to the activations: leave them, rewrite the
\* innermost one, enter a call, go back to the caller, or end the driver's
\* call without an exception.
FramesStep ==
    \/ frames' = frames
    \/ \E f : frames' = WithTop(f)
    \/ \E f, g : frames' = Append(WithTop(f), g)
    \/ Len(frames) # 1 /\ \E f : frames' = Append(SubSeq(frames, 1, Len(frames) - 2), f)
    \/ frames' = <<>> /\ exc' = exc

\* The loop header: an activation runs, no exception is in flight, and the
\* instruction is charged below the limit.
Charged ==
    /\ frames # <<>> /\ exc = NoExc
    /\ evalCost < MaxEvalCost
    /\ evalCost' = evalCost + 1
    /\ pending' = pending

LEMMA ExceptionsDiffer == EvalCostErr # NoExc /\ RuntimeErr # NoExc /\ RuntimeErr # EvalCostErr
  BY DEF EvalCostErr, NoExc, RuntimeErr

LEMMA FetchCharges ==
  ASSUME NEW ops, Fetch(ops)
  PROVE  Charged
  BY DEF Fetch, Charged

LEMMA FinishFrames ==
  ASSUME NEW n, NEW sound, NEW res, Finish(n, sound, res)
  PROVE  FramesStep
  BY DEF Finish, FramesStep

LEMMA RewriteFrames ==
  ASSUME NEW sound, NEW f, Rewrite(sound, f)
  PROVE  FramesStep
  BY DEF Rewrite, FramesStep

LEMMA CompoundFrames ==
  ASSUME NEW n, NEW cell, MakeCompound(n, cell)
  PROVE  FramesStep
  BY DEF MakeCompound, FramesStep

LEMMA EnterFrames ==
  ASSUME NEW argc, NEW ref, NEW obj, NEW args, Enter(argc, ref, obj, args)
  PROVE  FramesStep
  BY DEF Enter, FramesStep

LEMMA EfunFrames ==
  ASSUME NEW argc, NEW res, EfunDone(argc, res)
  PROVE  FramesStep
  BY DEF EfunDone, FramesStep

LEMMA ByNameFrames ==
  ASSUME NEW argc, NEW name, NEW args, CallEfunByName(argc, name, args)
  PROVE  FramesStep
  BY EnterFrames, EfunFrames DEF CallEfunByName, callClosure

LEMMA BadCountFrames == BadArgCount => FramesStep
  BY DEF BadArgCount, FramesStep

LEMMA CallFrames == Call => FramesStep
  BY BadCountFrames, EnterFrames, ByNameFrames DEF Call, WithArguments

LEMMA CallParentFrames == CallParent => FramesStep
  BY BadCountFrames, EnterFrames, EfunFrames DEF CallParent, WithArguments

LEMMA CallEfunFrames == CallEfun => FramesStep
  BY BadCountFrames, ByNameFrames DEF CallEfun, WithArguments

LEMMA ReturnFrames == Return => FramesStep
  BY DEF Return, FramesStep

\* Every instruction is charged and moves the activations in one of the five
\* ways above.
LEMMA InstructionStep == Instruction => Charged /\ FramesStep
<1> USE FetchCharges
<1>1. CASE PushConst \/ PushLocal \/ PushObjectVar \/ Binary \/ Not \/ BitNot \/ Dup
  BY <1>1, FinishFrames
     DEF PushConst, PushLocal, PushObjectVar, Binary, Not, BitNot, Dup
<1>2. CASE StoreLocal \/ Pop \/ Jump \/ JumpIfFalse \/ PushCatchFrame \/ PopCatchFrame
           \/ TimeExpressionStart
  BY <1>2, RewriteFrames
     DEF StoreLocal, Pop, Jump, JumpIfFalse, PushCatchFrame, PopCatchFrame,
         TimeExpressionStart
<1>3. CASE StoreObjectVar
  BY <1>3, RewriteFrames DEF StoreObjectVar
<1>4. CASE ForeachKeys \/ Index \/ RangeIndex \/ PushClosure \/ TimeExpressionEnd
  BY <1>4, FinishFrames
     DEF ForeachKeys, Index, RangeIndex, PushClosure, TimeExpressionEnd
<1>5. CASE IndexAssign
  BY <1>5 DEF IndexAssign, FramesStep
<1>6. CASE ExpandVarargs
  BY <1>6 DEF ExpandVarargs, FramesStep
<1>7. CASE MakeArray \/ MakeMapping
  BY <1>7, CompoundFrames DEF MakeArray, MakeMapping
<1>8. CASE Call
  BY <1>8, CallFrames DEF Call
<1>9. CASE CallParent
  BY <1>9, CallParentFrames DEF CallParent
<1>10. CASE CallEfun
  BY <1>10, CallEfunFrames DEF CallEfun
<1>11. CASE Return
  BY <1>11, ReturnFrames DEF Return
<1> QED
  BY <1>1, <1>2, <1>3, <1>4, <1>5, <1>6, <1>7, <1>8, <1>9, <1>10, <1>11
     DEF Instruction

\* An activation stack stays one, and only Return's last disjunct and
\* nothing else empties it.
LEMMA FramesStepSeq ==
  ASSUME NEW S, frames \in Seq(S), frames # <<>>, FramesStep
  PROVE  /\ \E T : frames' \in Seq(T)
         /\ frames' # <<>> \/ exc' = exc
<1>1. CASE frames' = frames
  BY <1>1
<1>2. ASSUME NEW f, frames' = WithTop(f)
      PROVE  frames' \in Seq(S \union {f}) /\ frames' # <<>>
  BY <1>2 DEF WithTop
<1>3. ASSUME NEW f, NEW g, frames' = Append(WithTop(f), g)
      PROVE  frames' \in Seq(S \union {f, g}) /\ frames' # <<>>
  <2>1. WithTop(f) \in Seq(S \union {f, g})
    BY DEF WithTop
  <2> QED
    BY <1>3, <2>1
<1>4. ASSUME Len(frames) # 1,
             NEW f, frames' = Append(SubSeq(frames, 1, Len(frames) - 2), f)
      PROVE  frames' \in Seq(S \union {f}) /\ frames' # <<>>
  <2>1. SubSeq(frames, 1, Len(frames) - 2) \in Seq(S \union {f})
    BY <1>4
  <2> QED
    BY <1>4, <2>1
<1>5. CASE frames' = <<>> /\ exc' = exc
  BY <1>5
<1> QED
  BY <1>1, <1>2, <1>3, <1>4, <1>5 DEF FramesStep

LEMMA FrontSeq ==
  ASSUME NEW S, NEW s \in Seq(S), s # <<>>
  PROVE  /\ Front(s) \in Seq(S)
         /\ Len(Front(s)) = Len(s) - 1
         /\ Len(s) # 1 <=> Front(s) # <<>>
<1> DEFINE n == Len(s) - 1
<1>1. n \in Nat /\ 1 \in Int /\ n \in Int
  OBVIOUS
<1>2. \A i \in 1 .. n : s[i] \in S
  OBVIOUS
<1>3. /\ SubSeq(s, 1, n) \in Seq(S)
      /\ Len(SubSeq(s, 1, n)) = IF 1 <= n THEN n - 1 + 1 ELSE 0
  BY <1>1, <1>2, SubSeqProperties
<1>4. Front(s) = SubSeq(s, 1, n)
  BY DEF Front
<1>5. ASSUME NEW t \in Seq(S) PROVE t = <<>> <=> Len(t) = 0
  OBVIOUS
<1>6. n = 0 <=> Len(s) = 1
  OBVIOUS
<1>7. n = Len(s) - 1
  OBVIOUS
<1> HIDE DEF n
<1>8. Front(s) \in Seq(S) /\ Len(Front(s)) = n
  BY <1>1, <1>3, <1>4
<1> QED
  BY <1>5, <1>6, <1>7, <1>8

LEMMA VMInvInit == Init => VMInv
  BY MaxEvalCostAssumption, ExceptionsDiffer DEF Init, VMInv, Done

LEMMA VMInvNext == VMInv /\ [Next]_vmVars => VMInv'
<1> SUFFICES ASSUME VMInv, [Next]_vmVars
             PROVE  VMInv'
  OBVIOUS
<1>0. PICK S : frames \in Seq(S)
  BY DEF VMInv
<1> USE MaxEvalCostAssumption, ExceptionsDiffer
<1>1. CASE Instruction
  <2>1. Charged /\ FramesStep
    BY <1>1, InstructionStep
  <2>2. (\E T : frames' \in Seq(T)) /\ (frames' # <<>> \/ exc' = exc)
    BY <1>0, <2>1, FramesStepSeq DEF Charged
  <2> QED
    BY <2>1, <2>2 DEF VMInv, Charged, Done
<1>2. CASE DriverCall
  <2> DEFINE f == NewFrame(Head(pending), "self", <<>>, Void)
  <2>1. frames' = <<f>>
    BY <1>2 DEF DriverCall
  <2> HIDE DEF f
  <2>2. frames' \in Seq({f}) /\ frames' # <<>>
    BY <2>1
  <2> QED
    BY <1>2, <2>2 DEF DriverCall, VMInv, Done
<1>3. CASE EvalCostExceeded
  BY <1>3 DEF EvalCostExceeded, VMInv, Done
<1>4. CASE CatchError
  <2>1. PICK f : frames' = WithTop(f)
    BY <1>4 DEF CatchError
  <2>2. (\E T : frames' \in Seq(T)) /\ frames' # <<>>
    <3>1. frames' \in Seq(S \union {f}) /\ frames' # <<>>
      BY <1>0, <1>4, <2>1 DEF CatchError, WithTop
    <3> QED
      BY <3>1
  <2>3. exc # EvalCostErr
    BY <1>4 DEF CatchError, EvalCostErr
  <2> QED
    BY <1>4, <2>2, <2>3 DEF CatchError, VMInv, Done
<1>5. CASE Unwind
  <2>1. /\ frames' \in Seq(S)
        /\ Len(frames) # 1 => frames' # <<>>
        /\ Len(frames) = 1 => frames' = <<>>
    BY <1>0, <1>5, FrontSeq DEF Unwind
  <2> QED
    BY <1>5, <2>1 DEF Unwind, VMInv, Done
<1>6. CASE UNCHANGED vmVars
  BY <1>6 DEF vmVars, VMInv, Done
<1> QED
  BY <1>1, <1>2, <1>3, <1>4, <1>5, <1>6 DEF Next

THEOREM VMInvariant == Spec => []VMInv
  BY VMInvInit, VMInvNext, PTL DEF Spec

\* The limit is passed at most once and by one (VM.cpp's loop header): the
\* count never exceeds MaxEvalCost + 1, and no call of the load is made and
\* no catch() resumes after that.
THEOREM EvalCostIsBounded == Spec => []EvalCostBounded
<1>1. VMInv => EvalCostBounded
  BY MaxEvalCostAssumption DEF VMInv, EvalCostBounded
<1> QED
  BY <1>1, VMInvariant, PTL

\* An EvalCostError only unwinds: catch() never takes it, and no variable or
\* heap cell changes until the driver has it.
THEOREM EvalCostIsFinal == Spec => EvalCostFinal
<1>1. VMInv /\ [Next]_vmVars
      => [exc = EvalCostErr =>
           /\ exc' = EvalCostErr \/ (frames' = <<>> /\ result' = EvalCostErr)
           /\ Len(frames') < Len(frames)
           /\ UNCHANGED <<heap, vars, evalCost>>]_vmVars
  <2> SUFFICES ASSUME VMInv, Next, exc = EvalCostErr
               PROVE  /\ exc' = EvalCostErr \/ (frames' = <<>> /\ result' = EvalCostErr)
                      /\ Len(frames') < Len(frames)
                      /\ UNCHANGED <<heap, vars, evalCost>>
    OBVIOUS
  <2>0. PICK S : frames \in Seq(S)
    BY DEF VMInv
  <2>1. frames # <<>> /\ exc # NoExc
    BY ExceptionsDiffer DEF VMInv
  <2>2. ~Instruction
    BY <2>1, InstructionStep DEF Charged
  <2>3. ~DriverCall /\ ~EvalCostExceeded /\ ~CatchError
    BY <2>1 DEF DriverCall, EvalCostExceeded, CatchError, EvalCostErr
  <2>4. Unwind
    BY <2>2, <2>3 DEF Next
  <2>5. Len(frames') < Len(frames) /\ (Len(frames) = 1 => frames' = <<>>)
    BY <2>0, <2>1, <2>4, FrontSeq DEF Unwind
  <2> QED
    BY <2>4, <2>5 DEF Unwind
<1> QED
  BY <1>1, VMInvariant, PTL DEF Spec, EvalCostFinal

-----------------------------------------------------------------------------
(* Induction: what is least among counterexamples, and functions by recursion *)

\* A set of naturals that is not empty has a least member.
LEMMA LeastNatural ==
    ASSUME NEW X, X \subseteq Nat, X # {}
    PROVE  \E n \in X : \A m \in X : n <= m
<1> DEFINE R == OpToRel(<, Nat)
<1>1. IsWellFoundedOn(R, Nat)
  BY NatLessThanWellFounded
<1>2. R = {ss \in Nat \X Nat : ss[1] < ss[2]}
  BY Zenon DEF OpToRel
<1> HIDE DEF R
<1>3. PICK x \in X : \A y \in X : ~(<<y, x>> \in R)
  BY <1>1, WFMin
<1>4. ASSUME NEW y \in X PROVE ~(y < x)
  <2> SUFFICES ASSUME y < x PROVE <<y, x>> \in {ss \in Nat \X Nat : ss[1] < ss[2]}
    BY <1>2, <1>3
  <2> QED OBVIOUS
<1> QED BY <1>4

\* Strong induction on the members of a set of naturals.
LEMMA StrongInduction ==
    ASSUME NEW D, D \subseteq Nat, NEW X,
           \A p \in D : (\A q \in D : q < p => q \in X) => p \in X
    PROVE  \A p \in D : p \in X
<1> SUFFICES ASSUME NEW r \in D, r \notin X PROVE FALSE
  OBVIOUS
<1> DEFINE Y == {p \in D : p \notin X}
<1>1. Y \subseteq Nat /\ Y # {}
  OBVIOUS
<1>2. PICK p \in Y : \A q \in Y : p <= q
  <2> HIDE DEF Y
  <2> QED BY <1>1, LeastNatural
<1>3. \A q \in D : q < p => q \in X
  BY <1>2
<1> QED BY <1>2, <1>3

\* The value at p, Step[p][f], is of type T and taken from the values of f
\* below p.
Recursive(D, T, Step) ==
    /\ \A p \in D : \A f \in [D -> T] : Step[p][f] \in T
    /\ \A p \in D : \A f, g \in [D -> T] :
         (\A q \in D : q < p => f[q] = g[q]) => Step[p][f] = Step[p][g]

Fixpoint(D, T, Step, f) == f \in [D -> T] /\ \A p \in D : f[p] = Step[p][f]

\* A function defined by recursion exists.
LEMMA RecursiveFunction ==
    ASSUME NEW n \in Nat, NEW D, D \subseteq 0..n, NEW T, NEW t \in T, NEW Step,
           Recursive(D, T, Step)
    PROVE  \E f : Fixpoint(D, T, Step, f)
<1> DEFINE Upto(m) == \E f \in [D -> T] : \A p \in D : p < m => f[p] = Step[p][f]
<1> DEFINE Y == {m \in Nat : ~Upto(m)}
<1> SUFFICES ASSUME Y # {} PROVE FALSE
  <2>1. n + 1 \in Nat /\ \A p \in D : p < n + 1
    OBVIOUS
  <2>2. Upto(n + 1)
    <3> HIDE DEF Upto
    <3> QED BY <2>1
  <2>3. PICK f \in [D -> T] : \A p \in D : p < n + 1 => f[p] = Step[p][f]
    BY <2>2
  <2> QED BY <2>1, <2>3 DEF Fixpoint
<1>1. PICK m \in Y : \A k \in Y : m <= k
  <2>1. Y \subseteq Nat
    OBVIOUS
  <2> HIDE DEF Y
  <2> QED BY <2>1, LeastNatural
<1>2. m # 0
  <2>1. [p \in D |-> t] \in [D -> T] /\ \A p \in D : ~(p < 0)
    OBVIOUS
  <2>2. Upto(0)
    BY <2>1
  <2> QED BY <1>1, <2>2
<1>3. m - 1 \in Nat /\ Upto(m - 1)
  <2>1. m \in Nat /\ (m - 1 \in Nat => m - 1 \notin Y)
    <3> HIDE DEF Upto
    <3> QED BY <1>1
  <2>2. m - 1 \in Nat
    BY <1>2, <2>1
  <2> HIDE DEF Upto
  <2> QED BY <2>1, <2>2
<1>4. PICK f \in [D -> T] : \A p \in D : p < m - 1 => f[p] = Step[p][f]
  BY <1>3
<1> DEFINE g == [p \in D |-> IF p = m - 1 THEN Step[p][f] ELSE f[p]]
<1>5. g \in [D -> T]
  BY DEF Recursive
<1>6. ASSUME NEW p \in D, p < m PROVE g[p] = Step[p][g]
  <2>0. m \in Nat /\ \A q \in D : q \in Nat
    BY <1>1
  <2>1. \A q \in D : q < p => f[q] = g[q]
    BY <2>0, <1>6
  <2>2. Step[p][f] = Step[p][g]
    BY <1>5, <2>1 DEF Recursive
  <2>3. g[p] = Step[p][f]
    <3>1. p < m - 1 \/ p = m - 1
      BY <2>0, <1>6
    <3>2. p < m - 1 => p # m - 1
      BY <2>0
    <3> QED BY <1>4, <3>1, <3>2
  <2> QED BY <2>2, <2>3
<1>7. Upto(m)
  BY <1>5, <1>6
<1> QED BY <1>1, <1>7

LEMMA MinOf ==
    ASSUME NEW X, X \subseteq Nat, X # {}
    PROVE  Min(X) \in X
<1>1. \E n \in X : \A m \in X : n <= m
  BY LeastNatural
<1> QED BY <1>1 DEF Min

LEMMA MaxOf ==
    ASSUME NEW n \in Nat, NEW X, X \subseteq 1..n, X # {}
    PROVE  Max(X) \in X
<1> DEFINE Y == {n - x : x \in X}
<1>1. Y \subseteq Nat /\ Y # {}
  OBVIOUS
<1>2. PICK y \in Y : \A z \in Y : y <= z
  <2> HIDE DEF Y
  <2> QED BY <1>1, LeastNatural
<1>3. PICK x \in X : y = n - x
  BY <1>2
<1>4. ASSUME NEW z \in X PROVE x >= z
  <2>1. n - z \in Y
    OBVIOUS
  <2>2. y <= n - z
    BY <1>2, <2>1
  <2> QED BY <1>3, <2>2
<1>5. \E w \in X : \A z \in X : w >= z
  BY <1>4
<1> QED BY <1>5 DEF Max

-----------------------------------------------------------------------------
(* The recursive operators of Values on sequences of a set *)

\* The position of a mapping's key is one of its entries', or 0.
LEMMA KeyIndexRange ==
    ASSUME NEW S, NEW entries \in Seq(S), NEW key
    PROVE  KeyIndex(entries, key) = 0 \/ KeyIndex(entries, key) \in DOMAIN entries
<1> DEFINE hit == {i \in DOMAIN entries : valuesEqual(entries[i][1], key)}
<1>1. KeyIndex(entries, key) = IF hit = {} THEN 0 ELSE Min(hit)
  BY DEF KeyIndex
<1>2. hit \subseteq Nat /\ hit \subseteq DOMAIN entries
  OBVIOUS
<1> HIDE DEF hit
<1> QED BY <1>1, <1>2, MinOf

LEMMA WithEntryTyped ==
    ASSUME NEW S, NEW entries \in Seq(S \X S), NEW key \in S, NEW value \in S
    PROVE  WithEntry(entries, key, value) \in Seq(S \X S)
<1> DEFINE i == KeyIndex(entries, key)
<1>1. i = 0 \/ i \in DOMAIN entries
  BY KeyIndexRange
<1>2. WithEntry(entries, key, value) =
        IF i = 0 THEN Append(entries, <<key, value>>)
        ELSE [entries EXCEPT ![i] = <<entries[i][1], value>>]
  BY DEF WithEntry
<1> HIDE DEF i
<1>3. CASE i = 0
  BY <1>2, <1>3
<1>4. CASE i \in DOMAIN entries
  <2>1. entries[i] \in S \X S
    BY <1>4
  <2>2. <<entries[i][1], value>> \in S \X S
    BY <2>1
  <2>3. i # 0
    BY <1>4
  <2> QED BY <1>2, <1>4, <2>2, <2>3
<1> QED BY <1>1, <1>3, <1>4

LEMMA MergeTyped ==
    ASSUME NEW S, NEW left \in Seq(S \X S), NEW right \in Seq(S \X S)
    PROVE  MergeEntries(left, right) \in Seq(S \X S)
<1> DEFINE n == Len(right)
           D == 0..n
           T == Seq(S \X S)
           Next1(m, i) == IF i = 0 THEN left
                          ELSE WithEntry(m[i - 1], right[i][1], right[i][2])
           merged == CHOOSE m : m = [i \in D |-> Next1(m, i)]
           Step == [i \in D |-> [m \in [D -> T] |-> Next1(m, i)]]
<1>0. n \in Nat /\ \A i \in 1..n : right[i][1] \in S /\ right[i][2] \in S
  OBVIOUS
<1>1. MergeEntries(left, right) = merged[n]
  BY DEF MergeEntries
<1>2. ASSUME NEW i \in D, NEW m, i # 0 => m[i - 1] \in T
      PROVE  Next1(m, i) \in T
  <2>1. CASE i = 0
    BY <2>1
  <2>2. CASE i # 0
    <3>1. i \in 1..n /\ m[i - 1] \in Seq(S \X S)
      BY <1>0, <1>2, <2>2
    <3>2. right[i][1] \in S /\ right[i][2] \in S
      BY <1>0, <3>1
    <3>3. WithEntry(m[i - 1], right[i][1], right[i][2]) \in Seq(S \X S)
      BY <3>1, <3>2, WithEntryTyped
    <3> QED BY <2>2, <3>3
  <2> QED BY <2>1, <2>2
<1>3. \A i \in D : \A m \in [D -> T] : Step[i][m] = Next1(m, i) /\ Next1(m, i) \in T
  <2> SUFFICES ASSUME NEW i \in D, NEW m \in [D -> T]
               PROVE  Step[i][m] = Next1(m, i) /\ Next1(m, i) \in T
    OBVIOUS
  <2>1. i # 0 => i - 1 \in D
    BY <1>0
  <2>2. Next1(m, i) \in T
    BY <1>2, <2>1
  <2> HIDE DEF Next1, T
  <2> QED BY <2>2
<1>4. \A i \in D : \A f, g \in [D -> T] :
         (\A q \in D : q < i => f[q] = g[q]) => Step[i][f] = Step[i][g]
  <2> SUFFICES ASSUME NEW i \in D, NEW f \in [D -> T], NEW g \in [D -> T],
                      \A q \in D : q < i => f[q] = g[q]
               PROVE  Step[i][f] = Step[i][g]
    OBVIOUS
  <2>1. i # 0 => f[i - 1] = g[i - 1]
    BY <1>0
  <2>2. Next1(f, i) = Next1(g, i)
    BY <2>1
  <2> HIDE DEF Next1, T, Step
  <2> QED BY <1>3, <2>2
<1>5. \E m : m = [i \in D |-> Next1(m, i)]
  <2>1. PICK m : Fixpoint(D, T, Step, m)
    <3>1. left \in T /\ n \in Nat /\ D \subseteq 0..n
      BY <1>0
    <3>2. \A i \in D : \A m \in [D -> T] : Step[i][m] \in T
      BY <1>3
    <3>3. Recursive(D, T, Step)
      <4> HIDE DEF Step, T, Next1, n, D
      <4> QED BY <1>4, <3>2 DEF Recursive
    <3> HIDE DEF Step, T, Next1, n, D
    <3> QED BY <3>1, <3>3, RecursiveFunction
  <2> HIDE DEF Step, T, Next1
  <2>2. m = [i \in D |-> Next1(m, i)]
    BY <1>3, <2>1 DEF Fixpoint
  <2> QED BY <2>2
<1>6. merged = [i \in D |-> Next1(merged, i)]
  <2> HIDE DEF Next1, n
  <2> QED BY <1>5, Zenon
<1> HIDE DEF merged
<1>7. \A i \in D : i \in {j \in D : merged[j] \in T}
  <2> DEFINE X == {j \in D : merged[j] \in T}
  <2>1. ASSUME NEW i \in D, \A q \in D : q < i => q \in X
        PROVE  i \in X
    <3>1. i # 0 => i - 1 \in D /\ i - 1 < i
      BY <1>0
    <3> HIDE DEF Next1, T
    <3>2. i # 0 => merged[i - 1] \in T
      BY <2>1, <3>1
    <3>3. Next1(merged, i) \in T
      BY <1>2, <3>2
    <3>4. merged[i] = Next1(merged, i)
      BY <1>6
    <3> QED BY <3>3, <3>4
  <2>0. D \subseteq Nat
    OBVIOUS
  <2> HIDE DEF X, n, D
  <2>2. \A i \in D : i \in X
    BY <2>0, <2>1, StrongInduction
  <2> QED BY <2>2 DEF X
<1> HIDE DEF T
<1> QED BY <1>0, <1>1, <1>7 DEF T
LEMMA FilteredTyped ==
    ASSUME NEW S, NEW items \in Seq(S), NEW others, NEW occurs
    PROVE  Filtered(items, others, occurs) \in Seq(S)
<1> DEFINE n == Len(items)
           D == 0..n
           T == Seq(S)
           Next1(m, i) == IF i = 0 THEN <<>>
                          ELSE IF Includes(others, items[i]) = occurs
                               THEN Append(m[i - 1], items[i]) ELSE m[i - 1]
           kept == CHOOSE m : m = [i \in D |-> Next1(m, i)]
           Step == [i \in D |-> [m \in [D -> T] |-> Next1(m, i)]]
<1>0. n \in Nat /\ \A i \in 1..n : items[i] \in S
  OBVIOUS
<1>1. Filtered(items, others, occurs) = kept[n]
  BY DEF Filtered
<1>2. ASSUME NEW i \in D, NEW m, i # 0 => m[i - 1] \in T
      PROVE  Next1(m, i) \in T
  <2>1. CASE i = 0
    BY <2>1
  <2>2. CASE i # 0
    <3>1. i \in 1..n /\ m[i - 1] \in Seq(S)
      BY <1>0, <1>2, <2>2
    <3>2. Append(m[i - 1], items[i]) \in Seq(S)
      BY <1>0, <3>1
    <3> QED BY <2>2, <3>1, <3>2
  <2> QED BY <2>1, <2>2
<1>3. \A i \in D : \A m \in [D -> T] : Step[i][m] = Next1(m, i) /\ Next1(m, i) \in T
  <2> SUFFICES ASSUME NEW i \in D, NEW m \in [D -> T]
               PROVE  Step[i][m] = Next1(m, i) /\ Next1(m, i) \in T
    OBVIOUS
  <2>1. i # 0 => i - 1 \in D
    BY <1>0
  <2>2. Next1(m, i) \in T
    BY <1>2, <2>1
  <2> HIDE DEF Next1, T
  <2> QED BY <2>2
<1>4. \A i \in D : \A f, g \in [D -> T] :
         (\A q \in D : q < i => f[q] = g[q]) => Step[i][f] = Step[i][g]
  <2> SUFFICES ASSUME NEW i \in D, NEW f \in [D -> T], NEW g \in [D -> T],
                      \A q \in D : q < i => f[q] = g[q]
               PROVE  Step[i][f] = Step[i][g]
    OBVIOUS
  <2>1. i # 0 => f[i - 1] = g[i - 1]
    BY <1>0
  <2>2. Next1(f, i) = Next1(g, i)
    BY <2>1
  <2> HIDE DEF Next1, T, Step
  <2> QED BY <1>3, <2>2
<1>5. \E m : m = [i \in D |-> Next1(m, i)]
  <2>1. PICK m : Fixpoint(D, T, Step, m)
    <3>1. <<>> \in T /\ n \in Nat /\ D \subseteq 0..n
      BY <1>0
    <3>2. \A i \in D : \A m \in [D -> T] : Step[i][m] \in T
      BY <1>3
    <3>3. Recursive(D, T, Step)
      <4> HIDE DEF Step, T, Next1, n, D
      <4> QED BY <1>4, <3>2 DEF Recursive
    <3> HIDE DEF Step, T, Next1, n, D
    <3> QED BY <3>1, <3>3, RecursiveFunction
  <2> HIDE DEF Step, T, Next1
  <2>2. m = [i \in D |-> Next1(m, i)]
    BY <1>3, <2>1 DEF Fixpoint
  <2> QED BY <2>2
<1>6. kept = [i \in D |-> Next1(kept, i)]
  <2> HIDE DEF Next1, n
  <2> QED BY <1>5, Zenon
<1> HIDE DEF kept
<1>7. \A i \in D : i \in {j \in D : kept[j] \in T}
  <2> DEFINE X == {j \in D : kept[j] \in T}
  <2>1. ASSUME NEW i \in D, \A q \in D : q < i => q \in X
        PROVE  i \in X
    <3>1. i # 0 => i - 1 \in D /\ i - 1 < i
      BY <1>0
    <3> HIDE DEF Next1, T
    <3>2. i # 0 => kept[i - 1] \in T
      BY <2>1, <3>1
    <3>3. Next1(kept, i) \in T
      BY <1>2, <3>2
    <3>4. kept[i] = Next1(kept, i)
      BY <1>6
    <3> QED BY <3>3, <3>4
  <2>0. D \subseteq Nat
    OBVIOUS
  <2> HIDE DEF X, n, D
  <2>2. \A i \in D : i \in X
    BY <2>0, <2>1, StrongInduction
  <2> QED BY <2>2 DEF X
<1> HIDE DEF T
<1> QED BY <1>0, <1>1, <1>7 DEF T

LEMMA SliceTyped ==
    ASSUME NEW S, NEW items \in Seq(S), NEW first, NEW last
    PROVE  Slice(items, first, last) \in Seq(S)
<1> DEFINE span == {i \in DOMAIN items : first < i /\ i <= last + 1}
<1>1. Slice(items, first, last) =
        IF span = {} THEN <<>> ELSE SubSeq(items, Min(span), Max(span))
  BY DEF Slice
<1>2. span \subseteq 1..Len(items) /\ span \subseteq Nat /\ Len(items) \in Nat
  OBVIOUS
<1> HIDE DEF span
<1>3. ASSUME span # {} PROVE SubSeq(items, Min(span), Max(span)) \in Seq(S)
  <2>1. Min(span) \in 1..Len(items) /\ Max(span) \in 1..Len(items)
    BY <1>2, <1>3, MinOf, MaxOf
  <2> QED BY <2>1
<1> QED BY <1>1, <1>3

-----------------------------------------------------------------------------
(* Values, heap cells, and what the operators of the language return *)

References == {"arr", "map", "fun"}

\* A reference leads to a cell of its kind.
GoodValue(v, cells) ==
    Tag(v) \in References => v[2] \in DOMAIN cells /\ cells[v[2]].kind = Tag(v)

\* A cell holds values of S, a closure one of the objects.
CellOk(c, S, objs) ==
    \/ c.kind = "arr" /\ c.items \in Seq(S)
    \/ c.kind = "map" /\ c.items \in Seq(S \X S)
    \/ c.kind = "fun" /\ c.items \in Seq(S) /\ c.owner \in objs

\* S holds the values, C the cells.
HeapOk(cells, S, C, objs) ==
    /\ cells \in Seq(C)
    /\ \A c \in C : CellOk(c, S, objs)
    /\ \A v \in S : GoodValue(v, cells)

\* An operator hands back a value of S, a cell to be made, or an error.
OutcomeOk(res, cells, S, objs) ==
    \/ res.kind = "fail"
    \/ res.kind = "ok" /\ GoodValue(res.value, cells)
    \/ res.kind = "alloc" /\ CellOk(res.cell, S, objs)

\* What a reference leads to.
LEMMA Deref ==
    ASSUME NEW S, NEW C, NEW cells, NEW objs, HeapOk(cells, S, C, objs), NEW v \in S
    PROVE  /\ IsTag(v, "arr") => /\ v[2] \in DOMAIN cells
                                 /\ cells[v[2]].kind = "arr"
                                 /\ cells[v[2]].items \in Seq(S)
           /\ IsTag(v, "map") => /\ v[2] \in DOMAIN cells
                                 /\ cells[v[2]].kind = "map"
                                 /\ cells[v[2]].items \in Seq(S \X S)
           /\ IsTag(v, "fun") => /\ v[2] \in DOMAIN cells
                                 /\ cells[v[2]].kind = "fun"
                                 /\ cells[v[2]].items \in Seq(S)
                                 /\ cells[v[2]].owner \in objs
<1>1. \A r \in DOMAIN cells : CellOk(cells[r], S, objs)
  BY DEF HeapOk
<1>2. GoodValue(v, cells)
  BY DEF HeapOk
<1>3. ASSUME Tag(v) \in References
      PROVE  v[2] \in DOMAIN cells /\ cells[v[2]].kind = Tag(v) /\ CellOk(cells[v[2]], S, objs)
  BY <1>1, <1>2, <1>3 DEF GoodValue
<1>4. Tag(v) \in References \/ (Tag(v) # "arr" /\ Tag(v) # "map" /\ Tag(v) # "fun")
  BY DEF References
<1> QED BY <1>3, <1>4 DEF CellOk, IsTag

LEMMA Immediate ==
    ASSUME NEW cells, NEW d
    PROVE  GoodValue(Num(d), cells) /\ GoodValue(Str(d), cells) /\ GoodValue(Void, cells)
  BY DEF GoodValue, References, Num, Str, Void, Tag

LEMMA BoolGood ==
    ASSUME NEW cells, NEW d
    PROVE  GoodValue(Bool(d), cells)
  BY Immediate DEF Bool

LEMMA OkOk ==
    ASSUME NEW cells, NEW S, NEW objs, NEW v, GoodValue(v, cells)
    PROVE  OutcomeOk(Ok(v), cells, S, objs)
  BY DEF OutcomeOk, Ok

LEMMA FailOk ==
    ASSUME NEW cells, NEW S, NEW objs
    PROVE  OutcomeOk(Fail, cells, S, objs)
  BY DEF OutcomeOk, Fail

LEMMA ArrayOk ==
    ASSUME NEW cells, NEW S, NEW objs, NEW items \in Seq(S)
    PROVE  OutcomeOk(Alloc(ArrayCell(items)), cells, S, objs)
  BY DEF OutcomeOk, Alloc, ArrayCell, CellOk

LEMMA MappingOk ==
    ASSUME NEW cells, NEW S, NEW objs, NEW items \in Seq(S \X S)
    PROVE  OutcomeOk(Alloc(MappingCell(items)), cells, S, objs)
  BY DEF OutcomeOk, Alloc, MappingCell, CellOk

LEMMA AddOk ==
    ASSUME NEW S, NEW C, NEW cells, NEW objs, HeapOk(cells, S, C, objs),
           NEW l \in S, NEW r \in S
    PROVE  OutcomeOk(AddResult(l, r, cells), cells, S, objs)
<1>1. ASSUME NEW d PROVE OutcomeOk(Ok(Str(d)), cells, S, objs) /\ OutcomeOk(Ok(Num(d)), cells, S, objs)
  BY Immediate, OkOk
<1>2. CASE IsTag(l, "arr") /\ IsTag(r, "arr")
  <2>1. cells[l[2]].items \o cells[r[2]].items \in Seq(S)
    <3>1. cells[l[2]].items \in Seq(S) /\ cells[r[2]].items \in Seq(S)
      BY <1>2, Deref
    <3> QED BY <3>1
  <2>2. AddResult(l, r, cells) = Alloc(ArrayCell(cells[l[2]].items \o cells[r[2]].items))
    BY <1>2 DEF AddResult, IsTag, asArithmeticOperand
  <2> QED BY <2>1, <2>2, ArrayOk
<1>3. CASE IsTag(l, "map") /\ IsTag(r, "map")
  <2>1. MergeEntries(cells[l[2]].items, cells[r[2]].items) \in Seq(S \X S)
    <3>1. cells[l[2]].items \in Seq(S \X S) /\ cells[r[2]].items \in Seq(S \X S)
      BY <1>3, Deref
    <3> QED BY <3>1, MergeTyped
  <2>2. AddResult(l, r, cells) = Alloc(MappingCell(MergeEntries(cells[l[2]].items, cells[r[2]].items)))
    BY <1>3 DEF AddResult, IsTag, asArithmeticOperand
  <2> QED BY <2>1, <2>2, MappingOk
<1>4. CASE ~(IsTag(l, "arr") /\ IsTag(r, "arr")) /\ ~(IsTag(l, "map") /\ IsTag(r, "map"))
  <2>1. AddResult(l, r, cells) = Fail \/ \E d : AddResult(l, r, cells) \in {Ok(Str(d)), Ok(Num(d))}
    BY <1>4 DEF AddResult
  <2> QED BY <1>1, <2>1, FailOk
<1> QED BY <1>2, <1>3, <1>4

LEMMA ArithmeticOk ==
    ASSUME NEW S, NEW C, NEW cells, NEW objs, HeapOk(cells, S, C, objs),
           NEW l \in S, NEW r \in S, NEW op \in {"Sub", "Mul", "Div", "Mod"}
    PROVE  OutcomeOk(ArithmeticResult(op, l, r, cells), cells, S, objs)
<1>1. ASSUME NEW d PROVE OutcomeOk(Ok(Num(d)), cells, S, objs)
  BY Immediate, OkOk
<1>2. CASE op = "Sub" /\ IsTag(l, "arr") /\ IsTag(r, "arr")
  <2>1. Filtered(cells[l[2]].items, cells[r[2]].items, FALSE) \in Seq(S)
    <3>1. cells[l[2]].items \in Seq(S)
      BY <1>2, Deref
    <3> QED BY <3>1, FilteredTyped
  <2>2. ArithmeticResult(op, l, r, cells) =
          Alloc(ArrayCell(Filtered(cells[l[2]].items, cells[r[2]].items, FALSE)))
    BY <1>2 DEF ArithmeticResult
  <2> QED BY <2>1, <2>2, ArrayOk
<1>3. CASE ~(op = "Sub" /\ IsTag(l, "arr") /\ IsTag(r, "arr"))
  <2>1. ArithmeticResult(op, l, r, cells) = Fail \/ \E d : ArithmeticResult(op, l, r, cells) = Ok(Num(d))
    BY <1>3 DEF ArithmeticResult
  <2> QED BY <1>1, <2>1, FailOk
<1> QED BY <1>2, <1>3

LEMMA BitOk ==
    ASSUME NEW S, NEW C, NEW cells, NEW objs, HeapOk(cells, S, C, objs),
           NEW l \in S, NEW r \in S, NEW op
    PROVE  OutcomeOk(BitResult(op, l, r, cells), cells, S, objs)
<1>1. ASSUME NEW d PROVE OutcomeOk(Ok(Num(d)), cells, S, objs)
  BY Immediate, OkOk
<1>2. CASE op = "BitAnd" /\ IsTag(l, "arr") /\ IsTag(r, "arr")
  <2>1. Filtered(cells[l[2]].items, cells[r[2]].items, TRUE) \in Seq(S)
    <3>1. cells[l[2]].items \in Seq(S)
      BY <1>2, Deref
    <3> QED BY <3>1, FilteredTyped
  <2>2. BitResult(op, l, r, cells) =
          Alloc(ArrayCell(Filtered(cells[l[2]].items, cells[r[2]].items, TRUE)))
    BY <1>2 DEF BitResult
  <2> QED BY <2>1, <2>2, ArrayOk
<1>3. CASE ~(op = "BitAnd" /\ IsTag(l, "arr") /\ IsTag(r, "arr"))
  <2>1. BitResult(op, l, r, cells) = Fail \/ \E d : BitResult(op, l, r, cells) = Ok(Num(d))
    BY <1>3 DEF BitResult
  <2> QED BY <1>1, <2>1, FailOk
<1> QED BY <1>2, <1>3

\* Every binary operator gives a value, a new cell or an error.
LEMMA BinaryOk ==
    ASSUME NEW S, NEW C, NEW cells, NEW objs, HeapOk(cells, S, C, objs),
           NEW l \in S, NEW r \in S, NEW op \in BinaryOps
    PROVE  OutcomeOk(BinaryResult(op, l, r, cells), cells, S, objs)
<1>1. ASSUME NEW d PROVE OutcomeOk(Ok(Bool(d)), cells, S, objs)
  BY BoolGood, OkOk
<1>2. CASE op \in {"Eq", "Neq"}
  <2>1. \E d : BinaryResult(op, l, r, cells) = Ok(Bool(d))
    BY <1>2 DEF BinaryResult, EqualityResult, BitOps
  <2> QED BY <1>1, <2>1
<1>3. CASE op \in {"Lt", "Lte", "Gt", "Gte"}
  <2>1. BinaryResult(op, l, r, cells) = CompareResult(op, l, r)
    BY <1>3 DEF BinaryResult, BitOps
  <2>2. CompareResult(op, l, r) = Fail \/ \E d : CompareResult(op, l, r) = Ok(Bool(d))
    BY Zenon DEF CompareResult
  <2> QED BY <1>1, <2>1, <2>2, FailOk
<1>4. CASE op = "Add"
  <2>1. BinaryResult(op, l, r, cells) = AddResult(l, r, cells)
    BY <1>4 DEF BinaryResult, BitOps
  <2> QED BY <2>1, AddOk
<1>5. CASE op \in BitOps
  <2>1. BinaryResult(op, l, r, cells) = BitResult(op, l, r, cells)
    BY <1>5 DEF BinaryResult, BitOps
  <2> QED BY <2>1, BitOk
<1>6. CASE op \in {"Sub", "Mul", "Div", "Mod"}
  <2>1. BinaryResult(op, l, r, cells) = ArithmeticResult(op, l, r, cells)
    BY <1>6 DEF BinaryResult, BitOps
  <2> QED BY <1>6, <2>1, ArithmeticOk
<1> QED BY <1>2, <1>3, <1>4, <1>5, <1>6 DEF BinaryOps

LEMMA BitNotOk ==
    ASSUME NEW S, NEW cells, NEW objs, NEW v
    PROVE  OutcomeOk(BitNotResult(v), cells, S, objs)
<1>1. BitNotResult(v) = Fail \/ BitNotResult(v) = Ok(Num(-v[2] - 1))
  BY DEF BitNotResult
<1> QED BY <1>1, Immediate, OkOk, FailOk

LEMMA IndexOk ==
    ASSUME NEW S, NEW C, NEW cells, NEW objs, HeapOk(cells, S, C, objs),
           NEW target \in S, NEW index \in S, NEW fromEnd
    PROVE  OutcomeOk(IndexResult(target, index, fromEnd, cells), cells, S, objs)
<1>1. ASSUME NEW v \in S PROVE OutcomeOk(Ok(v), cells, S, objs)
  BY OkOk DEF HeapOk
<1>2. CASE IsTag(target, "arr") /\ IsTag(index, "int")
  <2> DEFINE items == cells[target[2]].items
             i == IF fromEnd THEN Len(items) - index[2] ELSE index[2]
  <2>1. items \in Seq(S)
    BY <1>2, Deref
  <2>2. IndexResult(target, index, fromEnd, cells) =
          IF i \in 0 .. Len(items) - 1 THEN Ok(items[i + 1]) ELSE Fail
    BY <1>2 DEF IndexResult, IsTag
  <2> HIDE DEF items, i
  <2>3. CASE i \in 0 .. Len(items) - 1
    <3>1. items[i + 1] \in S
      BY <2>1, <2>3
    <3> QED BY <1>1, <2>2, <2>3, <3>1
  <2>4. CASE i \notin 0 .. Len(items) - 1
    BY <2>2, <2>4, FailOk
  <2> QED BY <2>3, <2>4
<1>3. CASE IsTag(target, "map")
  <2> DEFINE entries == cells[target[2]].items
             i == KeyIndex(entries, index)
  <2>1. entries \in Seq(S \X S)
    BY <1>3, Deref
  <2>2. IndexResult(target, index, fromEnd, cells) = Ok(IF i = 0 THEN Void ELSE entries[i][2])
    BY <1>3 DEF IndexResult, IsTag
  <2>3. i = 0 \/ i \in DOMAIN entries
    BY <2>1, KeyIndexRange
  <2> HIDE DEF entries, i
  <2>4. CASE i = 0
    BY <2>2, <2>4, OkOk, Immediate
  <2>5. CASE i # 0
    <3>1. entries[i] \in S \X S
      BY <2>1, <2>3, <2>5
    <3>2. entries[i][2] \in S
      BY <3>1
    <3> QED BY <1>1, <2>2, <2>5, <3>2
  <2> QED BY <2>4, <2>5
<1>4. CASE ~(IsTag(target, "arr") /\ IsTag(index, "int")) /\ ~IsTag(target, "map")
  BY <1>4, FailOk DEF IndexResult
<1> QED BY <1>2, <1>3, <1>4

LEMMA RangeOk ==
    ASSUME NEW S, NEW C, NEW cells, NEW objs, HeapOk(cells, S, C, objs),
           NEW target \in S, NEW start, NEW end, NEW startFromEnd, NEW endFromEnd
    PROVE  OutcomeOk(RangeResult(target, start, end, startFromEnd, endFromEnd, cells),
                     cells, S, objs)
<1> DEFINE res == RangeResult(target, start, end, startFromEnd, endFromEnd, cells)
<1>1. CASE IsTag(target, "arr")
  <2> DEFINE items == cells[target[2]].items
             first == IF startFromEnd THEN Len(items) - start[2] ELSE start[2]
             last  == IF endFromEnd THEN Len(items) - end[2] ELSE end[2]
  <2>1. items \in Seq(S)
    BY <1>1, Deref
  <2>2. Slice(items, first, last) \in Seq(S)
    <3> HIDE DEF items, first, last
    <3> QED BY <2>1, SliceTyped
  <2>3. res = Fail \/ res = Alloc(ArrayCell(Slice(items, first, last)))
    BY <1>1, Zenon DEF RangeResult, IsTag
  <2> HIDE DEF items, first, last
  <2> QED BY <2>2, <2>3, ArrayOk, FailOk
<1>2. CASE IsTag(target, "str")
  <2>1. ~IsTag(target, "arr")
    BY <1>2 DEF IsTag
  <2>2. res = Fail \/ \E d : res = Ok(Str(d))
    BY <1>2, <2>1 DEF RangeResult
  <2> QED BY <2>2, Immediate, OkOk, FailOk
<1>3. CASE ~IsTag(target, "arr") /\ ~IsTag(target, "str")
  <2>1. res = Fail
    BY <1>3 DEF RangeResult
  <2> QED BY <2>1, FailOk
<1> QED BY <1>1, <1>2, <1>3

LEMMA ForeachKeysOk ==
    ASSUME NEW S, NEW C, NEW cells, NEW objs, HeapOk(cells, S, C, objs), NEW v \in S
    PROVE  OutcomeOk(ForeachKeysResult(v, cells), cells, S, objs)
<1>1. CASE IsTag(v, "arr")
  <2>1. ForeachKeysResult(v, cells) = Ok(v)
    BY <1>1 DEF ForeachKeysResult, IsTag
  <2> QED BY <2>1, OkOk DEF HeapOk
<1>2. CASE IsTag(v, "map")
  <2> DEFINE entries == cells[v[2]].items
             keys == [i \in DOMAIN entries |-> entries[i][1]]
  <2>1. entries \in Seq(S \X S)
    BY <1>2, Deref
  <2>2. ForeachKeysResult(v, cells) = Alloc(ArrayCell(keys))
    BY <1>2 DEF ForeachKeysResult, IsTag
  <2> HIDE DEF entries
  <2>3. keys \in Seq(S)
    BY <2>1
  <2> HIDE DEF keys
  <2> QED BY <2>2, <2>3, ArrayOk
<1>3. CASE ~IsTag(v, "arr") /\ ~IsTag(v, "map")
  BY <1>3, FailOk DEF ForeachKeysResult
<1> QED BY <1>1, <1>2, <1>3

\* The changed cell is one of the same kind.
LEMMA IndexAssignOk ==
    ASSUME NEW S, NEW C, NEW cells, NEW objs, HeapOk(cells, S, C, objs),
           NEW target \in S, NEW index \in S, NEW value \in S
    PROVE  LET res == IndexAssignResult(target, index, value, cells)
           IN  \/ res.kind = "fail"
               \/ /\ res.kind = "alloc"
                  /\ CellOk(res.cell, S, objs)
                  /\ target[2] \in DOMAIN cells
                  /\ res.cell.kind = cells[target[2]].kind
<1> DEFINE res == IndexAssignResult(target, index, value, cells)
<1>1. CASE IsTag(target, "arr") /\ IsTag(index, "int")
  <2> DEFINE cell == cells[target[2]]
             new == [cell EXCEPT !.items[index[2] + 1] = value]
  <2>1. cell.kind = "arr" /\ cell.items \in Seq(S) /\ target[2] \in DOMAIN cells
    <3>1. target[2] \in DOMAIN cells
      BY <1>1, Deref
    <3>2. cells[target[2]].kind = "arr"
      BY <1>1 DEF HeapOk, GoodValue, References, IsTag
    <3>3. cells[target[2]].items \in Seq(S)
      BY <1>1, Deref
    <3> QED BY <3>1, <3>2, <3>3
  <2>2. res = IF index[2] \in 0 .. Len(cell.items) - 1 THEN Alloc(new) ELSE Fail
    BY <1>1 DEF IndexAssignResult, IsTag
  <2>3. CASE index[2] \in 0 .. Len(cell.items) - 1
    <3>1. new.kind = cell.kind /\ new.items = [cell.items EXCEPT ![index[2] + 1] = value]
      <4> HIDE DEF cell
      <4> QED BY <2>1
    <3>2. new.items \in Seq(S)
      <4> HIDE DEF new, cell
      <4> QED BY <2>1, <2>3, <3>1
    <3>3. res = Alloc(new)
      BY <2>2, <2>3
    <3> HIDE DEF new, cell, res
    <3>4. res.kind = "alloc" /\ res.cell = new
      BY <3>3 DEF Alloc
    <3>5. CellOk(new, S, objs) /\ new.kind = cell.kind
      BY <2>1, <3>1, <3>2 DEF CellOk
    <3> QED BY <2>1, <3>4, <3>5 DEF res, cell
  <2>4. CASE index[2] \notin 0 .. Len(cell.items) - 1
    BY <2>2, <2>4 DEF Fail
  <2> QED BY <2>3, <2>4
<1>2. CASE IsTag(target, "map")
  <2> DEFINE new == WithEntry(cells[target[2]].items, index, value)
  <2>1. cells[target[2]].kind = "map" /\ cells[target[2]].items \in Seq(S \X S)
        /\ target[2] \in DOMAIN cells
    <3>1. target[2] \in DOMAIN cells
      BY <1>2, Deref
    <3>2. cells[target[2]].kind = "map"
      BY <1>2 DEF HeapOk, GoodValue, References, IsTag
    <3>3. cells[target[2]].items \in Seq(S \X S)
      BY <1>2, Deref
    <3> QED BY <3>1, <3>2, <3>3
  <2>2. new \in Seq(S \X S)
    BY <2>1, WithEntryTyped
  <2>3. res = Alloc(MappingCell(new))
    BY <1>2 DEF IndexAssignResult, IsTag
  <2> HIDE DEF new
  <2> QED BY <2>1, <2>2, <2>3 DEF Alloc, MappingCell, CellOk
<1>3. CASE ~(IsTag(target, "arr") /\ IsTag(index, "int")) /\ ~IsTag(target, "map")
  BY <1>3 DEF IndexAssignResult, Fail
<1> QED BY <1>1, <1>2, <1>3

-----------------------------------------------------------------------------
(* Programs and their parents: the search for a function *)

\* Parents before heirs, as ProgramFits has it.
Ordered(programs) ==
    /\ programs \in Seq(Range(programs))
    /\ \A p \in DOMAIN programs :
         /\ programs[p].functions \in Seq(Range(programs[p].functions))
         /\ programs[p].inherits \in Seq(1 .. p - 1)

\* L holds the parents of its programs.
ClosedChain(programs, L) ==
    /\ L \subseteq DOMAIN programs
    /\ \A p \in L : Range(programs[p].inherits) \subseteq L

\* The functions of the programs of L.
FunctionRefs(programs, L) ==
    {r \in Nat \X Nat : r[1] \in L /\ r[2] \in DOMAIN programs[r[1]].functions}

LEMMA EntryIndexRange ==
    ASSUME NEW F, NEW fns \in Seq(F), NEW name
    PROVE  EntryIndex(fns, name) = 0 \/ EntryIndex(fns, name) \in DOMAIN fns
<1> DEFINE hit == {i \in DOMAIN fns : fns[i].name = name}
<1>1. EntryIndex(fns, name) = IF hit = {} THEN 0 ELSE Min(hit)
  BY DEF EntryIndex
<1>2. hit \subseteq Nat /\ hit \subseteq DOMAIN fns
  OBVIOUS
<1> HIDE DEF hit
<1> QED BY <1>1, <1>2, MinOf

LEMMA ParentsBelow ==
    ASSUME NEW programs, Ordered(programs), NEW p \in DOMAIN programs,
           NEW i \in DOMAIN programs[p].inherits
    PROVE  /\ programs[p].inherits[i] \in DOMAIN programs
           /\ programs[p].inherits[i] < p
           /\ programs[p].inherits[i] \in Nat
           /\ i \in Nat
           /\ programs[p].inherits[i] \in Range(programs[p].inherits)
<1> DEFINE parents == programs[p].inherits
<1>1. parents \in Seq(1 .. p - 1) /\ p \in 1 .. Len(programs) /\ Len(programs) \in Nat
  BY DEF Ordered
<1>2. parents[i] \in Range(parents)
  BY DEF Range
<1>3. programs \in Seq(Range(programs)) /\ DOMAIN programs = 1 .. Len(programs)
  BY DEF Ordered
<1> HIDE DEF parents
<1>4. i \in DOMAIN parents
  BY DEF parents
<1>5. parents[i] \in 1 .. p - 1 /\ i \in Nat
  BY <1>1, <1>4
<1> QED BY <1>1, <1>2, <1>3, <1>5 DEF parents

\* One level of the search: where the parents' results come from does not
\* matter beyond the parents.
LEMMA OwnOrInheritedCases ==
    ASSUME NEW programs, Ordered(programs), NEW p \in DOMAIN programs, NEW name, NEW find
    PROVE  LET res == OwnOrInherited(programs, name, find, p)
           IN  \/ res = NotFound
               \/ \E j \in DOMAIN programs[p].functions : res = <<p, j>>
               \/ \E i \in DOMAIN programs[p].inherits :
                    res = find[programs[p].inherits[i]] /\ res # NotFound
<1> DEFINE own == EntryIndex(programs[p].functions, name)
           parents == programs[p].inherits
           hit == {i \in DOMAIN parents : find[parents[i]] # NotFound}
           res == OwnOrInherited(programs, name, find, p)
<1>1. res = IF own # 0 THEN <<p, own>>
            ELSE IF hit # {} THEN find[parents[Min(hit)]] ELSE NotFound
  BY DEF OwnOrInherited
<1>2. own = 0 \/ own \in DOMAIN programs[p].functions
  BY EntryIndexRange DEF Ordered
<1>3. hit # {} => Min(hit) \in hit
  <2>1. hit \subseteq Nat
    BY ParentsBelow
  <2> HIDE DEF hit
  <2> QED BY <2>1, MinOf
<1>4. hit # {} => Min(hit) \in DOMAIN parents /\ find[parents[Min(hit)]] # NotFound
  BY <1>3
<1> HIDE DEF own, hit, res
<1>5. CASE own # 0
  BY <1>1, <1>2, <1>5 DEF res
<1>6. CASE own = 0 /\ hit # {}
  BY <1>1, <1>4, <1>6 DEF res
<1>7. CASE own = 0 /\ hit = {}
  BY <1>1, <1>7 DEF res
<1> QED BY <1>5, <1>6, <1>7

LEMMA OwnOrInheritedLocal ==
    ASSUME NEW programs, Ordered(programs), NEW p \in DOMAIN programs, NEW name,
           NEW f, NEW g, \A q \in DOMAIN programs : q < p => f[q] = g[q]
    PROVE  OwnOrInherited(programs, name, f, p) = OwnOrInherited(programs, name, g, p)
<1> DEFINE parents == programs[p].inherits
           own == EntryIndex(programs[p].functions, name)
           Hit(h) == {i \in DOMAIN parents : h[parents[i]] # NotFound}
<1>1. \A i \in DOMAIN parents : f[parents[i]] = g[parents[i]]
  BY ParentsBelow
<1>2. Hit(f) = Hit(g)
  BY <1>1
<1>3. Hit(f) # {} => Min(Hit(f)) \in DOMAIN parents
  <2>1. Hit(f) \subseteq Nat /\ Hit(f) \subseteq DOMAIN parents
    BY ParentsBelow
  <2> HIDE DEF Hit
  <2> QED BY <2>1, MinOf
<1>4. ASSUME NEW h
      PROVE  OwnOrInherited(programs, name, h, p) =
               IF own # 0 THEN <<p, own>>
               ELSE IF Hit(h) # {} THEN h[parents[Min(Hit(h))]] ELSE NotFound
  BY DEF OwnOrInherited
<1> HIDE DEF Hit, own, parents
<1>5. CASE own # 0
  BY <1>4, <1>5
<1>6. CASE own = 0 /\ Hit(f) # {}
  <2>1. f[parents[Min(Hit(f))]] = g[parents[Min(Hit(f))]]
    BY <1>1, <1>3, <1>6
  <2> QED BY <1>2, <1>4, <1>6, <2>1
<1>7. CASE own = 0 /\ Hit(f) = {}
  BY <1>2, <1>4, <1>7
<1> QED BY <1>5, <1>6, <1>7

\* The search ends in a function of the chain, or finds none.
LEMMA FoundInChain ==
    ASSUME NEW programs, Ordered(programs), NEW L, ClosedChain(programs, L),
           NEW program \in L, NEW name
    PROVE  findFunctionInChain(programs, program, name)
             \in {NotFound} \union FunctionRefs(programs, L)
<1> DEFINE D == DOMAIN programs
           n == Len(programs)
           T == Nat \X Nat
           Next1(m, p) == OwnOrInherited(programs, name, m, p)
           find == CHOOSE m : m = [p \in D |-> Next1(m, p)]
           Step == [p \in D |-> [m \in [D -> T] |-> Next1(m, p)]]
<1>0. n \in Nat /\ D \subseteq 0 .. n /\ D \subseteq Nat /\ program \in D /\ D = 1 .. n
  BY DEF Ordered, ClosedChain
<1>1. findFunctionInChain(programs, program, name) = find[program]
  BY DEF findFunctionInChain
<1>2. ASSUME NEW p \in D, NEW m \in [D -> T] PROVE Next1(m, p) \in T
  <2>1. \A i \in DOMAIN programs[p].inherits : m[programs[p].inherits[i]] \in T
    BY ParentsBelow
  <2>2. \A j \in DOMAIN programs[p].functions : <<p, j>> \in T
    BY <1>0 DEF Ordered
  <2>3. NotFound \in T
    BY DEF NotFound
  <2> HIDE DEF T, D
  <2> QED BY <2>1, <2>2, <2>3, OwnOrInheritedCases DEF D
<1>3. \A p \in D : \A m \in [D -> T] : Step[p][m] = Next1(m, p) /\ Next1(m, p) \in T
  <2> SUFFICES ASSUME NEW p \in D, NEW m \in [D -> T]
               PROVE  Step[p][m] = Next1(m, p) /\ Next1(m, p) \in T
    OBVIOUS
  <2>1. Next1(m, p) \in T
    BY <1>2
  <2> HIDE DEF Next1, T, D
  <2> QED BY <2>1
<1>4. \A p \in D : \A f, g \in [D -> T] :
         (\A q \in D : q < p => f[q] = g[q]) => Step[p][f] = Step[p][g]
  <2> SUFFICES ASSUME NEW p \in D, NEW f \in [D -> T], NEW g \in [D -> T],
                      \A q \in D : q < p => f[q] = g[q]
               PROVE  Step[p][f] = Step[p][g]
    OBVIOUS
  <2>1. Next1(f, p) = Next1(g, p)
    BY OwnOrInheritedLocal
  <2> HIDE DEF Next1, T, Step, D
  <2> QED BY <1>3, <2>1
<1>5. \E m : m = [p \in D |-> Next1(m, p)]
  <2>1. PICK m : Fixpoint(D, T, Step, m)
    <3>1. NotFound \in T
      BY DEF NotFound
    <3>2. Recursive(D, T, Step)
      <4> HIDE DEF Step, T, Next1, D
      <4> QED BY <1>3, <1>4 DEF Recursive
    <3> HIDE DEF Step, T, Next1, n, D
    <3> QED BY <1>0, <3>1, <3>2, RecursiveFunction
  <2> HIDE DEF Step, T, Next1, D
  <2>2. m = [p \in D |-> Next1(m, p)]
    BY <1>3, <2>1 DEF Fixpoint
  <2> QED BY <2>2
<1>6. find = [p \in D |-> Next1(find, p)]
  <2> HIDE DEF Next1, D
  <2> QED BY <1>5, Zenon
<1> HIDE DEF find
<1> DEFINE F == {NotFound} \union FunctionRefs(programs, L)
           X == {p \in D : p \in L => find[p] \in F}
<1>7. ASSUME NEW p \in D, \A q \in D : q < p => q \in X
      PROVE  p \in X
  <2> SUFFICES ASSUME p \in L PROVE find[p] \in F
    OBVIOUS
  <2>1. find[p] = Next1(find, p)
    <3> HIDE DEF Next1
    <3> QED BY <1>6
  <2>2. ASSUME NEW i \in DOMAIN programs[p].inherits
        PROVE  find[programs[p].inherits[i]] \in F
    <3>1. programs[p].inherits[i] \in L
      BY ParentsBelow DEF ClosedChain
    <3>2. programs[p].inherits[i] \in X
      BY <1>7, ParentsBelow
    <3> QED BY <3>1, <3>2
  <2>3. ASSUME NEW j \in DOMAIN programs[p].functions
        PROVE  <<p, j>> \in F
    <3>1. p \in Nat /\ j \in Nat
      BY <1>0 DEF Ordered
    <3> QED BY <3>1 DEF FunctionRefs
  <2>4. NotFound \in F
    OBVIOUS
  <2> HIDE DEF F, X, D
  <2> QED BY <2>1, <2>2, <2>3, <2>4, OwnOrInheritedCases DEF D
<1> HIDE DEF X, D
<1>8. \A p \in D : p \in X
  BY <1>0, <1>7, StrongInduction
<1> HIDE DEF F
<1>9. find[program] \in F
  BY <1>0, <1>8 DEF X
<1> QED BY <1>1, <1>9 DEF F

LEMMA FoundInParents ==
    ASSUME NEW programs, Ordered(programs), NEW L, ClosedChain(programs, L),
           NEW program \in L, NEW name, NEW qualifier
    PROVE  findParentFunction(programs, program, name, qualifier)
             \in {NotFound} \union FunctionRefs(programs, L)
<1> DEFINE parents == programs[program].inherits
           Usable(i) == IF qualifier = 0
                        THEN findFunctionInChain(programs, parents[i], name) # NotFound
                        ELSE parents[i] = qualifier
           usable == {i \in DOMAIN parents : Usable(i)}
<1>1. findParentFunction(programs, program, name, qualifier) =
        IF usable = {} THEN NotFound
        ELSE findFunctionInChain(programs, parents[Min(usable)], name)
  BY DEF findParentFunction
<1>2. program \in DOMAIN programs
  BY DEF ClosedChain
<1>3. usable # {} => Min(usable) \in DOMAIN parents
  <2>1. usable \subseteq Nat /\ usable \subseteq DOMAIN parents
    BY <1>2, ParentsBelow
  <2> HIDE DEF usable
  <2> QED BY <2>1, MinOf
<1>4. \A i \in DOMAIN parents : parents[i] \in L
  BY <1>2, ParentsBelow DEF ClosedChain
<1> HIDE DEF usable, parents
<1>5. CASE usable = {}
  BY <1>1, <1>5
<1>6. CASE usable # {}
  <2>1. parents[Min(usable)] \in L
    BY <1>3, <1>4, <1>6
  <2> QED BY <1>1, <1>6, <2>1, FoundInChain
<1> QED BY <1>5, <1>6

LEMMA FlattenTyped ==
    ASSUME NEW T, NEW seqs \in Seq(Seq(T))
    PROVE  FlattenSeq(seqs) \in Seq(T)
<1> DEFINE n == Len(seqs)
           D == 1 .. n
           U == Seq(T)
           Next1(m, i) == IF i = 1 THEN seqs[i] ELSE m[i - 1] \o seqs[i]
           flatten == CHOOSE m : m = [i \in D |-> Next1(m, i)]
           Step == [i \in D |-> [m \in [D -> U] |-> Next1(m, i)]]
<1>0. n \in Nat /\ D \subseteq 0 .. n /\ D \subseteq Nat /\ \A i \in D : seqs[i] \in U
  OBVIOUS
<1>a. CASE n = 0
  BY <1>a DEF FlattenSeq
<1>b. CASE n # 0
  <2>1. FlattenSeq(seqs) = flatten[n]
    BY <1>b DEF FlattenSeq
  <2>2. ASSUME NEW i \in D, NEW m, i # 1 => m[i - 1] \in U
        PROVE  Next1(m, i) \in U
    <3>1. seqs[i] \in Seq(T)
      BY <1>0
    <3>2. CASE i = 1
      BY <3>1, <3>2
    <3>3. CASE i # 1
      <4>1. m[i - 1] \in Seq(T)
        BY <2>2, <3>3
      <4>2. m[i - 1] \o seqs[i] \in Seq(T)
        BY <3>1, <4>1
      <4> QED BY <3>3, <4>2
    <3> QED BY <3>2, <3>3
  <2>3. \A i \in D : \A m \in [D -> U] : Step[i][m] = Next1(m, i) /\ Next1(m, i) \in U
    <3> SUFFICES ASSUME NEW i \in D, NEW m \in [D -> U]
                 PROVE  Step[i][m] = Next1(m, i) /\ Next1(m, i) \in U
      OBVIOUS
    <3>1. i # 1 => i - 1 \in D
      BY <1>0
    <3>2. Next1(m, i) \in U
      BY <2>2, <3>1
    <3> HIDE DEF Next1, U
    <3> QED BY <3>2
  <2>4. \A i \in D : \A f, g \in [D -> U] :
           (\A q \in D : q < i => f[q] = g[q]) => Step[i][f] = Step[i][g]
    <3> SUFFICES ASSUME NEW i \in D, NEW f \in [D -> U], NEW g \in [D -> U],
                        \A q \in D : q < i => f[q] = g[q]
                 PROVE  Step[i][f] = Step[i][g]
      OBVIOUS
    <3>1. i # 1 => f[i - 1] = g[i - 1]
      BY <1>0
    <3>2. Next1(f, i) = Next1(g, i)
      BY <3>1
    <3> HIDE DEF Next1, U, Step
    <3> QED BY <2>3, <3>2
  <2>5. \E m : m = [i \in D |-> Next1(m, i)]
    <3>1. PICK m : Fixpoint(D, U, Step, m)
      <4>1. <<>> \in U
        OBVIOUS
      <4>2. Recursive(D, U, Step)
        <5> HIDE DEF Step, U, Next1, n, D
        <5> QED BY <2>3, <2>4 DEF Recursive
      <4> HIDE DEF Step, U, Next1, n, D
      <4> QED BY <1>0, <4>1, <4>2, RecursiveFunction
    <3> HIDE DEF Step, U, Next1
    <3>2. m = [i \in D |-> Next1(m, i)]
      BY <2>3, <3>1 DEF Fixpoint
    <3> QED BY <3>2
  <2>6. flatten = [i \in D |-> Next1(flatten, i)]
    <3> HIDE DEF Next1, n
    <3> QED BY <2>5, Zenon
  <2> HIDE DEF flatten
  <2> DEFINE X == {j \in D : flatten[j] \in U}
  <2>7. ASSUME NEW i \in D, \A q \in D : q < i => q \in X
        PROVE  i \in X
    <3>1. i # 1 => i - 1 \in D /\ i - 1 < i
      BY <1>0
    <3> HIDE DEF Next1, U
    <3>2. i # 1 => flatten[i - 1] \in U
      BY <2>7, <3>1
    <3>3. Next1(flatten, i) \in U
      BY <2>2, <3>2
    <3>4. flatten[i] = Next1(flatten, i)
      BY <2>6
    <3> QED BY <3>3, <3>4
  <2>8. \A i \in D : i \in X
    <3> HIDE DEF X, n, D
    <3> QED BY <1>0, <2>7, StrongInduction
  <2>9. n \in D
    BY <1>0, <1>b
  <2> HIDE DEF U, D
  <2> QED BY <2>1, <2>8, <2>9 DEF U
<1> QED BY <1>a, <1>b

LEMMA OwnAfterInheritedTyped ==
    ASSUME NEW programs, Ordered(programs), NEW p \in DOMAIN programs, NEW walk, NEW T,
           \A i \in DOMAIN programs[p].inherits : walk[programs[p].inherits[i]] \in Seq(T),
           \A j \in DOMAIN programs[p].functions : <<p, j>> \in T
    PROVE  OwnAfterInherited(programs, walk, p) \in Seq(T)
<1> DEFINE own == EntryIndex(programs[p].functions, "$objvarinit")
           parents == programs[p].inherits
           inherited == [i \in DOMAIN parents |-> walk[parents[i]]]
           last == IF own = 0 THEN <<>> ELSE << <<p, own>> >>
<1>1. OwnAfterInherited(programs, walk, p) = FlattenSeq(inherited) \o last
  BY DEF OwnAfterInherited
<1>2. own = 0 \/ own \in DOMAIN programs[p].functions
  BY EntryIndexRange DEF Ordered
<1>3. last \in Seq(T)
  <2> HIDE DEF own
  <2>1. CASE own = 0
    BY <2>1
  <2>2. CASE own # 0
    <3>1. <<p, own>> \in T
      BY <1>2, <2>2
    <3> QED BY <2>2, <3>1
  <2> QED BY <2>1, <2>2
<1>4. inherited \in Seq(Seq(T))
  <2>1. parents \in Seq(1 .. p - 1)
    BY DEF Ordered
  <2>2. \A i \in DOMAIN parents : walk[parents[i]] \in Seq(T)
    OBVIOUS
  <2> DEFINE Q == Seq(T)
             W(i) == walk[parents[i]]
  <2>3. \A i \in DOMAIN parents : W(i) \in Q
    BY <2>2
  <2>4. DOMAIN parents = 1 .. Len(parents) /\ Len(parents) \in Nat
    BY <2>1
  <2> HIDE DEF parents, Q, W
  <2>5. [i \in DOMAIN parents |-> W(i)] \in Seq(Q)
    BY <2>3, <2>4
  <2> QED BY <2>5 DEF Q, W
<1>5. FlattenSeq(inherited) \in Seq(T)
  BY <1>4, FlattenTyped
<1> HIDE DEF last, inherited
<1> QED BY <1>1, <1>3, <1>5

LEMMA OwnAfterInheritedLocal ==
    ASSUME NEW programs, Ordered(programs), NEW p \in DOMAIN programs,
           NEW f, NEW g, \A q \in DOMAIN programs : q < p => f[q] = g[q]
    PROVE  OwnAfterInherited(programs, f, p) = OwnAfterInherited(programs, g, p)
<1> DEFINE parents == programs[p].inherits
<1>1. \A i \in DOMAIN parents : f[parents[i]] = g[parents[i]]
  BY ParentsBelow
<1>2. [i \in DOMAIN parents |-> f[parents[i]]] = [i \in DOMAIN parents |-> g[parents[i]]]
  BY <1>1
<1> QED BY <1>2, Zenon DEF OwnAfterInherited

\* The initialisers that loadObject() calls are functions of the chain.
LEMMA InitializersInChain ==
    ASSUME NEW programs, Ordered(programs), NEW L, ClosedChain(programs, L), NEW program \in L
    PROVE  InitializerCalls(programs, program) \in Seq(FunctionRefs(programs, L))
<1> DEFINE D == DOMAIN programs
           n == Len(programs)
           T == Seq(Nat \X Nat)
           Next1(m, p) == OwnAfterInherited(programs, m, p)
           walk == CHOOSE m : m = [p \in D |-> Next1(m, p)]
           Step == [p \in D |-> [m \in [D -> T] |-> Next1(m, p)]]
<1>0. n \in Nat /\ D \subseteq 0 .. n /\ D \subseteq Nat /\ program \in D /\ D = 1 .. n
  BY DEF Ordered, ClosedChain
<1>1. InitializerCalls(programs, program) = walk[program]
  BY DEF InitializerCalls
<1>e. ASSUME NEW p \in D, NEW j \in DOMAIN programs[p].functions
      PROVE  <<p, j>> \in Nat \X Nat
  BY <1>0 DEF Ordered
<1>2. ASSUME NEW p \in D, NEW m \in [D -> T] PROVE Next1(m, p) \in T
  <2>1. \A i \in DOMAIN programs[p].inherits : m[programs[p].inherits[i]] \in T
    <3> HIDE DEF T
    <3> QED BY ParentsBelow
  <2>2. \A j \in DOMAIN programs[p].functions : <<p, j>> \in Nat \X Nat
    BY <1>e
  <2> DEFINE R == Nat \X Nat
  <2>3. \A i \in DOMAIN programs[p].inherits : m[programs[p].inherits[i]] \in Seq(R)
    BY <2>1
  <2>4. \A j \in DOMAIN programs[p].functions : <<p, j>> \in R
    BY <2>2
  <2>5. p \in DOMAIN programs
    OBVIOUS
  <2> HIDE DEF R, D, T
  <2>6. OwnAfterInherited(programs, m, p) \in Seq(R)
    BY <2>3, <2>4, <2>5, OwnAfterInheritedTyped
  <2> QED BY <2>6 DEF R, T
<1>3. \A p \in D : \A m \in [D -> T] : Step[p][m] = Next1(m, p) /\ Next1(m, p) \in T
  <2> SUFFICES ASSUME NEW p \in D, NEW m \in [D -> T]
               PROVE  Step[p][m] = Next1(m, p) /\ Next1(m, p) \in T
    OBVIOUS
  <2>1. Next1(m, p) \in T
    BY <1>2
  <2> HIDE DEF Next1, T, D
  <2> QED BY <2>1
<1>4. \A p \in D : \A f, g \in [D -> T] :
         (\A q \in D : q < p => f[q] = g[q]) => Step[p][f] = Step[p][g]
  <2> SUFFICES ASSUME NEW p \in D, NEW f \in [D -> T], NEW g \in [D -> T],
                      \A q \in D : q < p => f[q] = g[q]
               PROVE  Step[p][f] = Step[p][g]
    OBVIOUS
  <2>1. Next1(f, p) = Next1(g, p)
    BY OwnAfterInheritedLocal
  <2> HIDE DEF Next1, T, Step, D
  <2> QED BY <1>3, <2>1
<1>5. \E m : m = [p \in D |-> Next1(m, p)]
  <2>1. PICK m : Fixpoint(D, T, Step, m)
    <3>1. <<>> \in T
      OBVIOUS
    <3>2. Recursive(D, T, Step)
      <4> HIDE DEF Step, T, Next1, D
      <4> QED BY <1>3, <1>4 DEF Recursive
    <3> HIDE DEF Step, T, Next1, n, D
    <3> QED BY <1>0, <3>1, <3>2, RecursiveFunction
  <2> HIDE DEF Step, T, Next1, D
  <2>2. m = [p \in D |-> Next1(m, p)]
    BY <1>3, <2>1 DEF Fixpoint
  <2> QED BY <2>2
<1>6. walk = [p \in D |-> Next1(walk, p)]
  <2> HIDE DEF Next1, D
  <2> QED BY <1>5, Zenon
<1> HIDE DEF walk
<1> DEFINE F == Seq(FunctionRefs(programs, L))
           X == {p \in D : p \in L => walk[p] \in F}
<1>7. ASSUME NEW p \in D, \A q \in D : q < p => q \in X
      PROVE  p \in X
  <2> SUFFICES ASSUME p \in L PROVE walk[p] \in F
    OBVIOUS
  <2>1. walk[p] = Next1(walk, p)
    <3> HIDE DEF Next1
    <3> QED BY <1>6
  <2>2. ASSUME NEW i \in DOMAIN programs[p].inherits
        PROVE  walk[programs[p].inherits[i]] \in F
    <3>1. programs[p].inherits[i] \in L
      BY ParentsBelow DEF ClosedChain
    <3>2. programs[p].inherits[i] \in X
      BY <1>7, ParentsBelow
    <3> HIDE DEF F
    <3> QED BY <3>1, <3>2
  <2>3. ASSUME NEW j \in DOMAIN programs[p].functions
        PROVE  <<p, j>> \in FunctionRefs(programs, L)
    <3>1. p \in Nat /\ j \in Nat
      BY <1>0 DEF Ordered
    <3> QED BY <3>1 DEF FunctionRefs
  <2> HIDE DEF X, D
  <2> QED BY <2>1, <2>2, <2>3, OwnAfterInheritedTyped DEF D
<1> HIDE DEF X, D
<1>8. \A p \in D : p \in X
  BY <1>0, <1>7, StrongInduction
<1> HIDE DEF F
<1>9. walk[program] \in F
  BY <1>0, <1>8 DEF X
<1> QED BY <1>1, <1>9 DEF F

-----------------------------------------------------------------------------
(* Activations against their stack map *)

\* A stack map of a verified image, and the programs of its objects.
MapsOf(im)   == CHOOSE maps : \E linked : Fits(im, maps, linked)
LinkedOf(im) == CHOOSE linked : Fits(im, MapsOf(im), linked)

ShapeAt(im, f) == MapsOf(im)[f.prog][f.ip]
InstrAt(im, f) == im.programs[f.prog].code[f.ip]

\* Activations whose values are those of S.
Frames(im, S) ==
    [prog : Nat, obj : ObjectsOf(im), ip : Nat, stack : Seq(S), locals : Seq(S),
     catches : Seq(CatchFrames), delta : Int]

\* The activation is at a position of the map, and has its locals and catch
\* frames.
Placed(im, f) ==
    /\ f.prog \in LinkedOf(im)[f.obj]
    /\ f.ip \in DOMAIN MapsOf(im)[f.prog]
    /\ f.catches = ShapeAt(im, f).catches
    /\ Len(f.locals) = ShapeAt(im, f).slots

\* The operand stack is as deep as the map says, but for the spreads.
Running(im, f) ==
    /\ Len(f.stack) = ShapeAt(im, f).depth + f.delta
    /\ -ShapeAt(im, f).spread <= f.delta
    /\ ShapeAt(im, f).spread = 0 => f.delta = 0

\* The arguments are popped and the callee runs.
Waiting(im, f) ==
    /\ InstrAt(im, f).op \in Calls
    /\ Len(f.stack) + InstrAt(im, f).n = ShapeAt(im, f).depth
    /\ f.delta = 0

CatchesHold(f) == f.catches # <<>> => Last(f.catches).stackDepth <= Len(f.stack)

TopOk(im, f, e) ==
    /\ Placed(im, f)
    /\ CatchesHold(f)
    /\ e = NoExc => Running(im, f)
    /\ e.kind = "error" => f.delta = 0 \/ f.catches = <<>>

FramesOk(im, S, fs, e) ==
    /\ fs \in Seq(Frames(im, S))
    /\ fs # <<>> => TopOk(im, fs[Len(fs)], e)
    /\ \A k \in 1 .. Len(fs) - 1 : Placed(im, fs[k]) /\ Waiting(im, fs[k])

\* b[k] timestamps are older than activation k; it and its callees find those
\* that the map promises above them.
TimersOk(im, fs, b, n) ==
    /\ b \in Seq(Nat)
    /\ Len(b) = Len(fs)
    /\ \A k \in 1 .. Len(fs) :
         b[k] + ShapeAt(im, fs[k]).timers <= IF k = Len(fs) THEN n ELSE b[k + 1]

\* f goes on as g after its instruction.
Follows(im, f, g) ==
    LET a == After(ShapeAt(im, f), InstrAt(im, f))
    IN  /\ g.prog = f.prog /\ g.obj = f.obj
        /\ g.ip \in Targets(InstrAt(im, f), f.ip)
        /\ g.catches = a.catches
        /\ Len(g.locals) = Len(f.locals)
        /\ Len(g.stack) = a.depth + g.delta
        /\ -a.spread <= g.delta
        /\ a.spread = 0 => g.delta = 0

LEMMA VerifiedFits ==
    ASSUME NEW im, Verified(im)
    PROVE  Fits(im, MapsOf(im), LinkedOf(im))
<1>1. \E linked : Fits(im, MapsOf(im), linked)
  BY Zenon DEF Verified, MapsOf
<1> QED BY <1>1, Zenon DEF LinkedOf

LEMMA VerifiedOrdered ==
    ASSUME NEW im, Verified(im)
    PROVE  /\ Ordered(im.programs)
           /\ \A o \in ObjectsOf(im) : /\ ClosedChain(im.programs, LinkedOf(im)[o])
                                       /\ Main(im, o) \in LinkedOf(im)[o]
<1>1. Fits(im, MapsOf(im), LinkedOf(im))
  BY VerifiedFits
<1>2. Ordered(im.programs)
  BY <1>1 DEF Fits, ProgramFits, Ordered
<1>3. ASSUME NEW o \in ObjectsOf(im)
      PROVE  ClosedChain(im.programs, LinkedOf(im)[o]) /\ Main(im, o) \in LinkedOf(im)[o]
  <2>1. LinkFits(im, MapsOf(im), o, LinkedOf(im)[o])
    BY <1>1 DEF Fits
  <2> QED BY <2>1 DEF LinkFits, ClosedChain
<1> QED BY <1>2, <1>3

\* What the map says of the instruction an activation is at.
LEMMA AtInstruction ==
    ASSUME NEW im, Verified(im), NEW f, f.obj \in ObjectsOf(im), Placed(im, f)
    PROVE  /\ f.prog \in DOMAIN im.programs
           /\ FitsAt(im.programs[f.prog].code, MapsOf(im)[f.prog], f.ip)
           /\ im.programs[f.prog].code \in Seq(Range(im.programs[f.prog].code))
<1>1. Fits(im, MapsOf(im), LinkedOf(im))
  BY VerifiedFits
<1>2. LinkFits(im, MapsOf(im), f.obj, LinkedOf(im)[f.obj])
  BY <1>1 DEF Fits
<1>3. f.prog \in DOMAIN im.programs
  BY <1>2 DEF LinkFits, Placed
<1>4. ProgramFits(im.programs, f.prog, MapsOf(im)[f.prog])
  BY <1>1, <1>3 DEF Fits
<1> QED BY <1>3, <1>4 DEF ProgramFits, Placed

LEMMA ShapeTyped ==
    ASSUME NEW im, Verified(im), NEW f, f.obj \in ObjectsOf(im), Placed(im, f)
    PROVE  /\ ShapeAt(im, f) \in Shapes
           /\ InstrAt(im, f).n \in Nat
           /\ f.ip \in Nat
           /\ f.ip \in DOMAIN im.programs[f.prog].code
           /\ Needs(InstrAt(im, f)) <= ShapeAt(im, f).depth
           /\ NeedsMet(ShapeAt(im, f), InstrAt(im, f))
<1>1. FitsAt(im.programs[f.prog].code, MapsOf(im)[f.prog], f.ip)
  BY AtInstruction
<1>2. im.programs[f.prog].code \in Seq(Range(im.programs[f.prog].code))
  BY AtInstruction
<1>3. f.ip \in DOMAIN im.programs[f.prog].code
  BY <1>1 DEF FitsAt
<1>4. f.ip \in Nat
  BY <1>2, <1>3
<1> QED BY <1>1, <1>3, <1>4 DEF FitsAt, ShapeAt, InstrAt

LEMMA ShapeFields ==
    ASSUME NEW m \in Shapes
    PROVE  m.depth \in Nat /\ m.spread \in Nat /\ m.slots \in Nat /\ m.timers \in Nat
           /\ m.catches \in Seq(CatchFrames)
  BY DEF Shapes

LEMMA PopsNat ==
    ASSUME NEW i, i.n \in Nat
    PROVE  /\ Pops(i) \in Nat
           /\ Pushes(i) \in {0, 1}
           /\ i.op \in SpreadTakers => Pops(i) = i.n
<1>1. Pops(i) \in {0, 1, 2, 3, i.n, 2 * i.n}
  BY Zenon DEF Pops
<1>2. i.op \in SpreadTakers => Pops(i) = i.n
  BY Zenon DEF Pops, SpreadTakers, Calls, BinaryOps, BitOps
<1> QED BY <1>1, <1>2 DEF Pushes

LEMMA LastCatch ==
    ASSUME NEW c \in Seq(CatchFrames), c # <<>>
    PROVE  /\ Last(c) = c[Len(c)]
           /\ Len(c) \in DOMAIN c
           /\ Last(c) \in CatchFrames
           /\ Last(c).stackDepth \in Nat
           /\ Last(c).resumeIp \in Nat
<1>1. Last(c) = c[Len(c)]
  BY DEF Last
<1>2. Len(c) \in DOMAIN c
  OBVIOUS
<1>3. c[Len(c)] \in CatchFrames
  BY <1>2
<1>4. c[Len(c)].stackDepth \in Nat /\ c[Len(c)].resumeIp \in Nat
  BY <1>3 DEF CatchFrames
<1> QED BY <1>1, <1>2, <1>3, <1>4

\* The stack of a running activation reaches down to its catch frames.
LEMMA RunningHolds ==
    ASSUME NEW im, Verified(im), NEW f, f.obj \in ObjectsOf(im), f.delta \in Int,
           Placed(im, f), Running(im, f)
    PROVE  CatchesHold(f)
<1> DEFINE m == ShapeAt(im, f)
           i == InstrAt(im, f)
<1>1. m.depth \in Nat /\ m.spread \in Nat /\ m.catches \in Seq(CatchFrames) /\ i.n \in Nat
  BY ShapeTyped, ShapeFields
<1>2. f.catches = m.catches /\ Len(f.stack) = m.depth + f.delta /\ -m.spread <= f.delta
      /\ (m.spread = 0 => f.delta = 0)
  BY DEF Placed, Running
<1>3. NeedsMet(m, i)
  BY ShapeTyped
<1>4. m.catches # <<>> => Last(m.catches).stackDepth + Pops(i) <= m.depth
  BY AtInstruction DEF FitsAt, ShapeAt, InstrAt
<1>5. Pops(i) \in Nat /\ (i.op \in SpreadTakers => Pops(i) = i.n)
  BY <1>1, PopsNat
<1>6. m.catches # <<>> => Last(m.catches).stackDepth \in Nat
  BY <1>1, LastCatch
<1> HIDE DEF m, i
<1> SUFFICES ASSUME m.catches # <<>> PROVE Last(m.catches).stackDepth <= Len(f.stack)
  BY <1>2 DEF CatchesHold
<1>7. CASE m.spread = 0
  BY <1>1, <1>2, <1>4, <1>5, <1>6, <1>7
<1>8. CASE m.spread > 0
  <2>1. i.op \in SpreadTakers /\ m.spread <= i.n
    BY <1>3, <1>8 DEF NeedsMet
  <2> QED BY <1>1, <1>2, <1>4, <1>5, <1>6, <1>8, <2>1
<1> QED BY <1>1, <1>7, <1>8

LEMMA WaitingHolds ==
    ASSUME NEW im, Verified(im), NEW f, f.obj \in ObjectsOf(im), Len(f.stack) \in Nat,
           Placed(im, f), Waiting(im, f)
    PROVE  CatchesHold(f)
<1> DEFINE m == ShapeAt(im, f)
           i == InstrAt(im, f)
<1>1. m.depth \in Nat /\ m.catches \in Seq(CatchFrames) /\ i.n \in Nat
  BY ShapeTyped, ShapeFields
<1>2. f.catches = m.catches /\ Len(f.stack) + i.n = m.depth /\ i.op \in SpreadTakers
  BY DEF Placed, Waiting, SpreadTakers
<1>4. m.catches # <<>> => Last(m.catches).stackDepth + Pops(i) <= m.depth
  BY AtInstruction DEF FitsAt, ShapeAt, InstrAt
<1>5. Pops(i) = i.n
  BY <1>1, <1>2, PopsNat
<1>6. m.catches # <<>> => Last(m.catches).stackDepth \in Nat
  BY <1>1, LastCatch
<1> HIDE DEF m, i
<1> SUFFICES ASSUME m.catches # <<>> PROVE Last(m.catches).stackDepth <= Len(f.stack)
  BY <1>2 DEF CatchesHold
<1> QED BY <1>1, <1>2, <1>4, <1>5, <1>6

\* A position that the map leads to expects what is there.
LEMMA FollowsOk ==
    ASSUME NEW im, Verified(im), NEW f, f.obj \in ObjectsOf(im), Placed(im, f),
           NEW g, g.delta \in Int, Follows(im, f, g)
    PROVE  /\ TopOk(im, g, NoExc)
           /\ ShapeAt(im, g).timers <= TimersAfter(ShapeAt(im, f), InstrAt(im, f))
           /\ ShapeAt(im, g).timers \in Nat
<1> DEFINE m == ShapeAt(im, f)
           i == InstrAt(im, f)
           a == After(m, i)
           map == MapsOf(im)[f.prog]
<1>1. FitsAt(im.programs[f.prog].code, map, f.ip)
  BY AtInstruction
<1>2. Expects(map, g.ip, a)
  BY <1>1 DEF FitsAt, Follows, ShapeAt, InstrAt
<1>3. ShapeAt(im, g) = map[g.ip] /\ g.prog = f.prog /\ g.obj = f.obj
  BY DEF ShapeAt, Follows
<1>4. a.slots = m.slots /\ a.timers = TimersAfter(m, i)
  BY DEF After
<1>5. Len(f.locals) = m.slots /\ f.prog \in LinkedOf(im)[f.obj]
  BY DEF Placed
<1>6. /\ g.catches = a.catches /\ Len(g.locals) = Len(f.locals)
      /\ Len(g.stack) = a.depth + g.delta /\ -a.spread <= g.delta
      /\ a.spread = 0 => g.delta = 0
  BY DEF Follows
<1> HIDE DEF m, i, a
<1>7. Placed(im, g)
  BY <1>2, <1>3, <1>4, <1>5, <1>6 DEF Placed, Expects
<1>8. Running(im, g)
  BY <1>2, <1>3, <1>6 DEF Running, Expects
<1>9. CatchesHold(g)
  BY <1>3, <1>7, <1>8, RunningHolds
<1>10. ShapeAt(im, g).timers \in Nat
  BY <1>3, <1>7, ShapeTyped, ShapeFields
<1>11. ShapeAt(im, g).timers <= TimersAfter(m, i)
  BY <1>2, <1>3, <1>4 DEF Expects
<1> QED BY <1>7, <1>8, <1>9, <1>10, <1>11 DEF TopOk, NoExc, m, i

-----------------------------------------------------------------------------
(* The invariant *)

\* An exception carries a value of S.
ExcOk(e, S) == e = NoExc \/ e = EvalCostErr \/ (e.kind = "error" /\ e.value \in S)

\* Every object has a value for each of its program's variables.
VarsOk(im, S, vs) ==
    /\ DOMAIN vs = {"self", "simul"}
    /\ \A o \in ObjectsOf(im) : vs[o] \in [DOMAIN im.programs[Main(im, o)].names -> S]

\* The calls that the load has still to make are of functions of the chain.
PendingOk(im, pd) == pd \in Seq(FunctionRefs(im.programs, LinkedOf(im)["self"]))

\* The run in order: S holds every value there is, C every heap cell, and b
\* says which activation owns which of the open timestamps.
RunOk(im, S, C, b, pd, fs, h, vs, e, ts) ==
    /\ {Void, Num(0), ErrorText} \subseteq S
    /\ HeapOk(h, S, C, ObjectsOf(im))
    /\ FramesOk(im, S, fs, e)
    /\ ExcOk(e, S)
    /\ VarsOk(im, S, vs)
    /\ PendingOk(im, pd)
    /\ ts \in Seq(Nat \X Nat)
    /\ TimersOk(im, fs, b, Len(ts))

-----------------------------------------------------------------------------
(* More values *)

LEMMA SeqWider ==
    ASSUME NEW S, NEW T, S \subseteq T, NEW s \in Seq(S)
    PROVE  s \in Seq(T)
  OBVIOUS

LEMMA PairSeqWider ==
    ASSUME NEW S, NEW T, S \subseteq T, NEW s \in Seq(S \X S)
    PROVE  s \in Seq(T \X T)
<1>1. S \X S \subseteq T \X T
  OBVIOUS
<1> DEFINE P == S \X S
           Q == T \X T
<1>2. P \subseteq Q /\ s \in Seq(P)
  BY <1>1
<1> HIDE DEF P, Q
<1>3. s \in Seq(Q)
  BY <1>2, SeqWider
<1> QED BY <1>3 DEF Q

LEMMA CellWider ==
    ASSUME NEW S, NEW T, S \subseteq T, NEW c, NEW objs, CellOk(c, S, objs)
    PROVE  CellOk(c, T, objs)
<1>1. c.items \in Seq(S) => c.items \in Seq(T)
  BY SeqWider
<1>2. c.items \in Seq(S \X S) => c.items \in Seq(T \X T)
  BY PairSeqWider
<1> QED BY <1>1, <1>2 DEF CellOk

LEMMA FramesWider ==
    ASSUME NEW im, NEW S, NEW T, S \subseteq T, NEW f \in Frames(im, S)
    PROVE  f \in Frames(im, T)
<1>1. /\ f.stack \in Seq(S) /\ f.locals \in Seq(S)
  BY DEF Frames
<1>2. f.stack \in Seq(T) /\ f.locals \in Seq(T)
  BY <1>1, SeqWider
<1> QED BY <1>2 DEF Frames

LEMMA FrameSeqWider ==
    ASSUME NEW im, NEW S, NEW T, S \subseteq T, NEW fs \in Seq(Frames(im, S))
    PROVE  fs \in Seq(Frames(im, T))
<1>1. Frames(im, S) \subseteq Frames(im, T)
  BY FramesWider
<1> QED BY <1>1, SeqWider

LEMMA VarsWider ==
    ASSUME NEW im, NEW S, NEW T, S \subseteq T, NEW vs, VarsOk(im, S, vs)
    PROVE  VarsOk(im, T, vs)
<1>1. ASSUME NEW o \in ObjectsOf(im)
      PROVE  vs[o] \in [DOMAIN im.programs[Main(im, o)].names -> T]
  BY DEF VarsOk
<1> QED BY <1>1 DEF VarsOk

LEMMA HeapWithValue ==
    ASSUME NEW S, NEW C, NEW h, NEW objs, HeapOk(h, S, C, objs), NEW v, GoodValue(v, h)
    PROVE  HeapOk(h, S \union {v}, C, objs)
<1>1. S \subseteq S \union {v}
  OBVIOUS
<1> DEFINE T == S \union {v}
<1>2. \A w \in T : GoodValue(w, h)
  BY DEF HeapOk
<1> HIDE DEF T
<1>3. \A c \in C : CellOk(c, T, objs)
  BY <1>1, CellWider DEF HeapOk, T
<1> QED BY <1>2, <1>3 DEF HeapOk, T

LEMMA HeapWithCell ==
    ASSUME NEW S, NEW C, NEW h, NEW objs, HeapOk(h, S, C, objs),
           NEW c, CellOk(c, S, objs)
    PROVE  HeapOk(Append(h, c), S \union {<<c.kind, Len(h) + 1>>}, C \union {c}, objs)
<1> DEFINE v == <<c.kind, Len(h) + 1>>
           T == S \union {v}
           g == Append(h, c)
<1>1. h \in Seq(C)
  BY DEF HeapOk
<1>2. /\ g \in Seq(C \union {c})
      /\ DOMAIN g = 1 .. Len(h) + 1 /\ Len(h) \in Nat
      /\ g[Len(h) + 1] = c
      /\ \A r \in DOMAIN h : g[r] = h[r] /\ r \in DOMAIN g
  BY <1>1
<1>3. S \subseteq T
  OBVIOUS
<1>4. GoodValue(v, g)
  <2>1. Len(h) + 1 \in DOMAIN g
    BY <1>2
  <2>2. Tag(v) = c.kind /\ v[2] = Len(h) + 1
    BY DEF Tag
  <2> HIDE DEF v, g
  <2> QED BY <1>2, <2>1, <2>2 DEF GoodValue
<1>5. ASSUME NEW w \in S PROVE GoodValue(w, g)
  <2>1. GoodValue(w, h)
    BY DEF HeapOk
  <2> HIDE DEF g
  <2> QED BY <1>2, <2>1 DEF GoodValue
<1> HIDE DEF g, v
<1>6. \A w \in T : GoodValue(w, g)
  BY <1>4, <1>5
<1> HIDE DEF T
<1>7. \A d \in C \union {c} : CellOk(d, T, objs)
  BY <1>3, CellWider DEF HeapOk
<1> QED BY <1>2, <1>6, <1>7 DEF HeapOk, T, g, v

LEMMA HeapCellChanged ==
    ASSUME NEW S, NEW C, NEW h, NEW objs, HeapOk(h, S, C, objs), NEW r \in DOMAIN h,
           NEW c, CellOk(c, S, objs), c.kind = h[r].kind
    PROVE  HeapOk([h EXCEPT ![r] = c], S, C \union {c}, objs)
<1> DEFINE g == [h EXCEPT ![r] = c]
<1>1. h \in Seq(C)
  BY DEF HeapOk
<1>2. g \in Seq(C \union {c}) /\ DOMAIN g = DOMAIN h
  BY <1>1
<1>3. ASSUME NEW k \in DOMAIN h PROVE g[k].kind = h[k].kind
  <2>1. CASE k = r
    BY <2>1
  <2>2. CASE k # r
    BY <2>2
  <2> QED BY <2>1, <2>2
<1> HIDE DEF g
<1>4. ASSUME NEW w \in S PROVE GoodValue(w, g)
  <2>1. GoodValue(w, h)
    BY DEF HeapOk
  <2> QED BY <1>2, <1>3, <2>1 DEF GoodValue
<1>5. \A d \in C \union {c} : CellOk(d, S, objs)
  BY DEF HeapOk
<1> QED BY <1>2, <1>4, <1>5 DEF HeapOk, g

-----------------------------------------------------------------------------
(* Activations *)

LEMMA TopTyped ==
    ASSUME NEW im, NEW S, NEW fs, NEW e, FramesOk(im, S, fs, e), fs # <<>>
    PROVE  /\ Len(fs) \in Nat \ {0}
           /\ Len(fs) \in DOMAIN fs
           /\ fs[Len(fs)] \in Frames(im, S)
           /\ TopOk(im, fs[Len(fs)], e)
<1>1. fs \in Seq(Frames(im, S))
  BY DEF FramesOk
<1>2. Len(fs) \in Nat \ {0} /\ Len(fs) \in DOMAIN fs
  BY <1>1
<1>3. fs[Len(fs)] \in Frames(im, S)
  BY <1>1, <1>2
<1> QED BY <1>2, <1>3 DEF FramesOk

LEMMA FrameFields ==
    ASSUME NEW im, NEW S, NEW f \in Frames(im, S)
    PROVE  /\ f.prog \in Nat /\ f.obj \in ObjectsOf(im) /\ f.ip \in Nat
           /\ f.stack \in Seq(S) /\ f.locals \in Seq(S)
           /\ f.catches \in Seq(CatchFrames) /\ f.delta \in Int
  BY DEF Frames

LEMMA TopReplaced ==
    ASSUME NEW im, NEW S, NEW fs, NEW e, FramesOk(im, S, fs, e), fs # <<>>,
           NEW T, S \subseteq T, NEW g \in Frames(im, T), NEW e2, TopOk(im, g, e2)
    PROVE  FramesOk(im, T, [fs EXCEPT ![Len(fs)] = g], e2)
<1> DEFINE gs == [fs EXCEPT ![Len(fs)] = g]
           F == Frames(im, T)
<1>1. fs \in Seq(F)
  BY FrameSeqWider DEF FramesOk
<1>2. g \in F
  OBVIOUS
<1> HIDE DEF F
<1>3. /\ gs \in Seq(F) /\ Len(gs) = Len(fs) /\ gs[Len(fs)] = g
      /\ \A k \in 1 .. Len(fs) - 1 : gs[k] = fs[k]
  BY <1>1, <1>2
<1> HIDE DEF gs
<1>4. \A k \in 1 .. Len(gs) - 1 : Placed(im, gs[k]) /\ Waiting(im, gs[k])
  BY <1>3 DEF FramesOk
<1> QED BY <1>3, <1>4 DEF FramesOk, gs, F

LEMMA TimersReplaced ==
    ASSUME NEW im, NEW F, NEW fs \in Seq(F), fs # <<>>, NEW b, NEW n \in Nat,
           TimersOk(im, fs, b, n), NEW g, NEW n2 \in Nat,
           ShapeAt(im, fs[Len(fs)]).timers \in Nat, ShapeAt(im, g).timers \in Nat,
           ShapeAt(im, g).timers + n <= ShapeAt(im, fs[Len(fs)]).timers + n2
    PROVE  TimersOk(im, [fs EXCEPT ![Len(fs)] = g], b, n2)
<1> DEFINE gs == [fs EXCEPT ![Len(fs)] = g]
<1>1. /\ Len(gs) = Len(fs) /\ gs[Len(fs)] = g /\ Len(fs) \in Nat
      /\ \A k \in 1 .. Len(fs) : k # Len(fs) => gs[k] = fs[k]
  OBVIOUS
<1> HIDE DEF gs
<1>2. b \in Seq(Nat) /\ Len(b) = Len(fs)
  BY DEF TimersOk
<1>3. ASSUME NEW k \in 1 .. Len(gs)
      PROVE  b[k] + ShapeAt(im, gs[k]).timers <= IF k = Len(gs) THEN n2 ELSE b[k + 1]
  <2>1. b[k] \in Nat /\ k \in 1 .. Len(fs)
    BY <1>1, <1>2
  <2>2. CASE k = Len(gs)
    <3>1. b[k] + ShapeAt(im, fs[Len(fs)]).timers <= n
      BY <1>1, <2>1, <2>2 DEF TimersOk
    <3>2. gs[k] = g
      BY <1>1, <2>2
    <3> QED BY <2>1, <2>2, <3>1, <3>2
  <2>3. CASE k # Len(gs)
    <3>1. gs[k] = fs[k] /\ k # Len(fs)
      BY <1>1, <2>1, <2>3
    <3> QED BY <2>1, <2>3, <3>1 DEF TimersOk
  <2> QED BY <2>2, <2>3
<1> QED BY <1>1, <1>2, <1>3 DEF TimersOk, gs

LEMMA TimersAfterInt ==
    ASSUME NEW m, m.timers \in Nat, NEW i
    PROVE  TimersAfter(m, i) \in Int
<1>1. TimersAfter(m, i) \in {m.timers + 1, m.timers - 1, m.timers}
  BY Zenon DEF TimersAfter
<1> QED BY <1>1

\* An instruction that goes on in its activation.
LEMMA Moved ==
    ASSUME NEW im, Verified(im), NEW S, NEW C, NEW b, NEW pd, NEW fs, NEW h, NEW vs, NEW ts,
           RunOk(im, S, C, b, pd, fs, h, vs, NoExc, ts), fs # <<>>,
           NEW T, S \subseteq T, NEW D, NEW h2, HeapOk(h2, T, D, ObjectsOf(im)),
           NEW vs2, VarsOk(im, T, vs2),
           NEW g \in Frames(im, T), Follows(im, fs[Len(fs)], g),
           NEW ts2 \in Seq(Nat \X Nat),
           Len(ts2) - Len(ts) =
             TimersAfter(ShapeAt(im, fs[Len(fs)]), InstrAt(im, fs[Len(fs)]))
               - ShapeAt(im, fs[Len(fs)]).timers
    PROVE  RunOk(im, T, D, b, pd, [fs EXCEPT ![Len(fs)] = g], h2, vs2, NoExc, ts2)
<1> DEFINE f == fs[Len(fs)]
<1>1. FramesOk(im, S, fs, NoExc) /\ fs \in Seq(Frames(im, S))
      /\ ts \in Seq(Nat \X Nat) /\ TimersOk(im, fs, b, Len(ts)) /\ PendingOk(im, pd)
      /\ {Void, Num(0), ErrorText} \subseteq S
  BY DEF RunOk, FramesOk
<1>2. f \in Frames(im, S) /\ TopOk(im, f, NoExc)
  BY <1>1, TopTyped
<1>3. f.obj \in ObjectsOf(im) /\ Placed(im, f) /\ g.delta \in Int
  BY <1>2, FrameFields DEF TopOk
<1>4. /\ TopOk(im, g, NoExc)
      /\ ShapeAt(im, g).timers <= TimersAfter(ShapeAt(im, f), InstrAt(im, f))
      /\ ShapeAt(im, g).timers \in Nat
  BY <1>3, FollowsOk
<1>5. ShapeAt(im, f).timers \in Nat
  BY <1>3, ShapeTyped, ShapeFields
<1>6. FramesOk(im, T, [fs EXCEPT ![Len(fs)] = g], NoExc)
  BY <1>1, <1>4, TopReplaced
<1>7. Len(ts) \in Nat /\ Len(ts2) \in Nat
  BY <1>1
<1>8. TimersAfter(ShapeAt(im, f), InstrAt(im, f)) \in Int
  BY <1>5, TimersAfterInt
<1>9. ShapeAt(im, g).timers + Len(ts) <= ShapeAt(im, f).timers + Len(ts2)
  <2>1. Len(ts2) - Len(ts) =
          TimersAfter(ShapeAt(im, f), InstrAt(im, f)) - ShapeAt(im, f).timers
    OBVIOUS
  <2> HIDE DEF f
  <2> QED BY <1>4, <1>5, <1>7, <1>8, <2>1
<1>10. TimersOk(im, [fs EXCEPT ![Len(fs)] = g], b, Len(ts2))
  BY <1>1, <1>4, <1>5, <1>7, <1>9, TimersReplaced
<1> QED BY <1>1, <1>6, <1>10 DEF RunOk, ExcOk

\* An instruction that throws from its activation, its operands popped or not.
LEMMA Failed ==
    ASSUME NEW im, Verified(im), NEW S, NEW C, NEW b, NEW pd, NEW fs, NEW h, NEW vs, NEW ts,
           RunOk(im, S, C, b, pd, fs, h, vs, NoExc, ts), fs # <<>>,
           NEW g \in Frames(im, S), NEW v \in S,
           g.prog = fs[Len(fs)].prog, g.obj = fs[Len(fs)].obj, g.ip = fs[Len(fs)].ip,
           g.catches = fs[Len(fs)].catches, g.locals = fs[Len(fs)].locals,
           CatchesHold(g), g.delta = 0 \/ g.catches = <<>>
    PROVE  RunOk(im, S, C, b, pd, [fs EXCEPT ![Len(fs)] = g], h, vs, Thrown(v), ts)
<1> DEFINE f == fs[Len(fs)]
           e == Thrown(v)
<1>1. FramesOk(im, S, fs, NoExc) /\ fs \in Seq(Frames(im, S))
      /\ ts \in Seq(Nat \X Nat) /\ TimersOk(im, fs, b, Len(ts)) /\ PendingOk(im, pd)
      /\ {Void, Num(0), ErrorText} \subseteq S
  BY DEF RunOk, FramesOk
<1>2. f \in Frames(im, S) /\ TopOk(im, f, NoExc)
  BY <1>1, TopTyped
<1>3. f.obj \in ObjectsOf(im) /\ Placed(im, f)
  BY <1>2, FrameFields DEF TopOk
<1>4. ShapeAt(im, g) = ShapeAt(im, f) /\ Placed(im, g)
  BY <1>3 DEF ShapeAt, Placed
<1>5. ShapeAt(im, f).timers \in Nat
  BY <1>3, ShapeTyped, ShapeFields
<1>6. e.kind = "error" /\ e.value = v /\ e # NoExc
  BY DEF Thrown, NoExc
<1> HIDE DEF e
<1>7. TopOk(im, g, e)
  BY <1>4, <1>6 DEF TopOk
<1>8. FramesOk(im, S, [fs EXCEPT ![Len(fs)] = g], e)
  BY <1>1, <1>7, TopReplaced
<1>9. Len(ts) \in Nat
  BY <1>1
<1>10. TimersOk(im, [fs EXCEPT ![Len(fs)] = g], b, Len(ts))
  <2>1. /\ ShapeAt(im, g).timers \in Nat
        /\ ShapeAt(im, g).timers + Len(ts) <= ShapeAt(im, fs[Len(fs)]).timers + Len(ts)
    BY <1>4, <1>5, <1>9
  <2> QED BY <1>1, <1>5, <1>9, <2>1, TimersReplaced
<1> QED BY <1>1, <1>6, <1>8, <1>10 DEF RunOk, ExcOk, e

-----------------------------------------------------------------------------
(* Calls, returns and exceptions *)

\* A sequence but its last element.
LEMMA FrontProperties ==
    ASSUME NEW S, NEW s \in Seq(S), s # <<>>
    PROVE  /\ Front(s) \in Seq(S)
           /\ Len(Front(s)) = Len(s) - 1
           /\ \A k \in 1 .. Len(s) - 1 : Front(s)[k] = s[k]
<1> DEFINE n == Len(s) - 1
<1>1. n \in Nat /\ n = Len(s) - 1
  OBVIOUS
<1>2. \A i \in 1 .. n : s[i] \in S
  OBVIOUS
<1>3. Front(s) = SubSeq(s, 1, n)
  BY DEF Front
<1> HIDE DEF n
<1>4. /\ SubSeq(s, 1, n) \in Seq(S)
      /\ Len(SubSeq(s, 1, n)) = n
      /\ \A k \in 1 .. n : SubSeq(s, 1, n)[k] = s[k]
  BY <1>1, <1>2
<1> QED BY <1>1, <1>3, <1>4

LEMMA AppendFacts ==
    ASSUME NEW F, NEW s \in Seq(F), NEW g \in F
    PROVE  /\ Append(s, g) \in Seq(F)
           /\ Len(s) \in Nat
           /\ Len(Append(s, g)) = Len(s) + 1
           /\ Append(s, g)[Len(s) + 1] = g
           /\ \A k \in 1 .. Len(s) : Append(s, g)[k] = s[k]
           /\ Append(s, g) # <<>>
  OBVIOUS

LEMMA SumBelow ==
    ASSUME NEW x \in Int, NEW y \in Int, NEW z \in Int, NEW t \in Int, NEW u \in Nat,
           NEW n \in Int, x + t <= y, y + u <= n, z <= t
    PROVE  x + z <= n
  OBVIOUS

\* The callee's timestamps are left, the caller goes on.
LEMMA TimersPopped ==
    ASSUME NEW im, NEW F, NEW fs \in Seq(F), Len(fs) > 1, NEW b, NEW n \in Nat,
           TimersOk(im, fs, b, n),
           \A k \in 1 .. Len(fs) : ShapeAt(im, fs[k]).timers \in Nat,
           NEW gs \in Seq(F), Len(gs) = Len(fs) - 1,
           \A k \in 1 .. Len(gs) - 1 : gs[k] = fs[k],
           ShapeAt(im, gs[Len(gs)]).timers \in Nat,
           ShapeAt(im, gs[Len(gs)]).timers <= ShapeAt(im, fs[Len(fs) - 1]).timers
    PROVE  TimersOk(im, gs, Front(b), n)
<1>1. b \in Seq(Nat) /\ Len(b) = Len(fs) /\ Len(fs) \in Nat /\ b # <<>>
  BY DEF TimersOk
<1> DEFINE c == Front(b)
<1>2. c \in Seq(Nat) /\ Len(c) = Len(gs) /\ \A k \in 1 .. Len(fs) - 1 : c[k] = b[k]
  BY <1>1, FrontProperties
<1> HIDE DEF c
<1> DEFINE K == Len(gs)
<1>4. K \in Nat /\ Len(gs) = K /\ Len(fs) = K + 1 /\ Len(fs) - 1 = K
  BY <1>1
<1> HIDE DEF K
<1>3. ASSUME NEW k \in 1 .. Len(gs)
      PROVE  c[k] + ShapeAt(im, gs[k]).timers <= IF k = Len(gs) THEN n ELSE c[k + 1]
  <2>1. k \in 1 .. K /\ k + 1 \in 1 .. K + 1 /\ k \in 1 .. K + 1 /\ k # K + 1
    BY <1>4
  <2>2. c[k] = b[k] /\ b[k] \in Nat /\ b[k + 1] \in Nat
    BY <1>1, <1>2, <1>4, <2>1
  <2>3. b[k] + ShapeAt(im, fs[k]).timers <= b[k + 1]
    BY <1>4, <2>1 DEF TimersOk
  <2>4. CASE k = K
    <3>1. b[k + 1] + ShapeAt(im, fs[K + 1]).timers <= n
      BY <1>4, <2>1, <2>4 DEF TimersOk
    <3>2. ShapeAt(im, fs[K + 1]).timers \in Nat
      BY <1>4, <2>1, <2>4
    <3>3. ShapeAt(im, fs[k]).timers \in Nat
      BY <1>4, <2>1
    <3>4. Len(fs) - 1 = k /\ Len(gs) = k
      BY <1>4, <2>4
    <3>5. ShapeAt(im, gs[k]).timers <= ShapeAt(im, fs[k]).timers
          /\ ShapeAt(im, gs[k]).timers \in Nat
      BY <3>4
    <3>6. b[k] + ShapeAt(im, gs[k]).timers <= n
      BY <2>2, <2>3, <3>1, <3>2, <3>3, <3>5, SumBelow
    <3> QED BY <1>4, <2>2, <2>4, <3>6
  <2>5. CASE k # K
    <3>0. k \in 1 .. K - 1 /\ k + 1 \in 1 .. K
      BY <1>4, <2>1, <2>5
    <3>1. gs[k] = fs[k]
      BY <1>4, <3>0
    <3>2. c[k + 1] = b[k + 1]
      BY <1>2, <1>4, <3>0
    <3> QED BY <1>4, <2>2, <2>3, <2>5, <3>1, <3>2
  <2> QED BY <2>4, <2>5
<1> QED BY <1>2, <1>3 DEF TimersOk, c

LEMMA AllTimersNat ==
    ASSUME NEW im, Verified(im), NEW S, NEW fs, NEW e, FramesOk(im, S, fs, e)
    PROVE  \A k \in 1 .. Len(fs) :
             fs[k] \in Frames(im, S) /\ Placed(im, fs[k]) /\ ShapeAt(im, fs[k]).timers \in Nat
<1> SUFFICES ASSUME NEW k \in 1 .. Len(fs)
             PROVE fs[k] \in Frames(im, S) /\ Placed(im, fs[k])
                   /\ ShapeAt(im, fs[k]).timers \in Nat
  OBVIOUS
<1>1. fs \in Seq(Frames(im, S)) /\ Len(fs) \in Nat /\ fs # <<>>
  BY DEF FramesOk
<1>2. fs[k] \in Frames(im, S)
  BY <1>1
<1>3. Placed(im, fs[k])
  <2>1. CASE k = Len(fs)
    BY <1>1, <2>1 DEF FramesOk, TopOk
  <2>2. CASE k # Len(fs)
    BY <1>1, <2>2 DEF FramesOk
  <2> QED BY <2>1, <2>2
<1>4. fs[k].obj \in ObjectsOf(im)
  BY <1>2, FrameFields
<1> QED BY <1>2, <1>3, <1>4, ShapeTyped, ShapeFields

\* A call: the caller waits, the callee starts.
LEMMA Called ==
    ASSUME NEW im, Verified(im), NEW S, NEW C, NEW b, NEW pd, NEW fs, NEW h, NEW vs, NEW ts,
           RunOk(im, S, C, b, pd, fs, h, vs, NoExc, ts), fs # <<>>,
           NEW T, S \subseteq T, NEW D, NEW h2, HeapOk(h2, T, D, ObjectsOf(im)),
           NEW c \in Frames(im, T), Placed(im, c), Waiting(im, c),
           ShapeAt(im, c) = ShapeAt(im, fs[Len(fs)]),
           NEW g \in Frames(im, T), TopOk(im, g, NoExc), ShapeAt(im, g).timers = 0
    PROVE  RunOk(im, T, D, Append(b, Len(ts)), pd,
                 Append([fs EXCEPT ![Len(fs)] = c], g), h2, vs, NoExc, ts)
<1> DEFINE F == Frames(im, T)
           gs == Append([fs EXCEPT ![Len(fs)] = c], g)
           d == Append(b, Len(ts))
           n == Len(ts)
<1>1. FramesOk(im, S, fs, NoExc) /\ ts \in Seq(Nat \X Nat) /\ TimersOk(im, fs, b, n)
      /\ PendingOk(im, pd) /\ {Void, Num(0), ErrorText} \subseteq S
  BY DEF RunOk
<1>2. fs \in Seq(F) /\ c \in F /\ g \in F
  BY <1>1, FrameSeqWider DEF FramesOk
<1> HIDE DEF F
<1>3. /\ gs \in Seq(F) /\ Len(gs) = Len(fs) + 1 /\ Len(fs) \in Nat \ {0}
      /\ gs[Len(gs)] = g /\ gs[Len(fs)] = c
      /\ \A k \in 1 .. Len(fs) - 1 : gs[k] = fs[k]
      /\ gs # <<>>
  BY <1>2
<1> HIDE DEF gs
<1>4. ASSUME NEW k \in 1 .. Len(gs) - 1 PROVE Placed(im, gs[k]) /\ Waiting(im, gs[k])
  <2>1. CASE k = Len(fs)
    BY <1>3, <2>1
  <2>2. CASE k # Len(fs)
    <3>1. k \in 1 .. Len(fs) - 1
      BY <1>3, <2>2
    <3> QED BY <1>1, <1>3, <3>1 DEF FramesOk
  <2> QED BY <2>1, <2>2
<1>5. FramesOk(im, T, gs, NoExc)
  BY <1>3, <1>4 DEF FramesOk, F
<1>6. b \in Seq(Nat) /\ Len(b) = Len(fs) /\ n \in Nat
  BY <1>1 DEF TimersOk
<1> HIDE DEF n
<1>7. /\ Append(b, n) \in Seq(Nat) /\ Len(Append(b, n)) = Len(gs)
      /\ Append(b, n)[Len(gs)] = n /\ \A k \in 1 .. Len(fs) : Append(b, n)[k] = b[k]
  BY <1>3, <1>6
<1> DEFINE a == Append(b, n)
<1> HIDE DEF a
<1>8. ASSUME NEW k \in 1 .. Len(gs)
      PROVE  a[k] + ShapeAt(im, gs[k]).timers <= IF k = Len(gs) THEN n ELSE a[k + 1]
  <2>1. CASE k = Len(gs)
    BY <1>3, <1>6, <1>7, <2>1 DEF a
  <2>2. CASE k = Len(fs)
    <3>1. a[k] = b[k] /\ a[k + 1] = n /\ k # Len(gs) /\ gs[k] = c
      BY <1>3, <1>7, <2>2 DEF a
    <3>2. b[k] + ShapeAt(im, fs[k]).timers <= n
      BY <1>1, <1>3, <2>2 DEF TimersOk
    <3>3. ShapeAt(im, gs[k]) = ShapeAt(im, fs[k])
      BY <2>2, <3>1
    <3> QED BY <3>1, <3>2, <3>3
  <2>3. CASE k # Len(gs) /\ k # Len(fs)
    <3>1. k \in 1 .. Len(fs) - 1 /\ k \in 1 .. Len(fs) /\ k + 1 \in 1 .. Len(fs)
      BY <1>3, <2>3
    <3>2. a[k] = b[k] /\ a[k + 1] = b[k + 1] /\ gs[k] = fs[k]
      BY <1>3, <1>7, <3>1 DEF a
    <3>3. b[k] + ShapeAt(im, fs[k]).timers <= b[k + 1]
      BY <1>1, <2>3, <3>1 DEF TimersOk
    <3> QED BY <2>3, <3>2, <3>3
  <2> QED BY <2>1, <2>2, <2>3
<1>9. TimersOk(im, gs, a, n)
  BY <1>7, <1>8 DEF TimersOk, a
<1>10. VarsOk(im, T, vs)
  BY VarsWider DEF RunOk
<1> QED BY <1>1, <1>5, <1>9, <1>10 DEF RunOk, ExcOk, a, n, gs

\* The callee is gone, the caller goes on as g.
LEMMA Returned ==
    ASSUME NEW im, Verified(im), NEW S, NEW C, NEW b, NEW pd, NEW fs, NEW h, NEW vs, NEW ts,
           RunOk(im, S, C, b, pd, fs, h, vs, NoExc, ts), Len(fs) > 1,
           NEW g \in Frames(im, S), Follows(im, fs[Len(fs) - 1], g),
           TimersAfter(ShapeAt(im, fs[Len(fs) - 1]), InstrAt(im, fs[Len(fs) - 1]))
             = ShapeAt(im, fs[Len(fs) - 1]).timers
    PROVE  RunOk(im, S, C, Front(b), pd, Append(SubSeq(fs, 1, Len(fs) - 2), g), h, vs,
                 NoExc, ts)
<1> DEFINE F == Frames(im, S)
           gs == Append(SubSeq(fs, 1, Len(fs) - 2), g)
           c == fs[Len(fs) - 1]
<1>1. FramesOk(im, S, fs, NoExc) /\ ts \in Seq(Nat \X Nat) /\ TimersOk(im, fs, b, Len(ts))
  BY DEF RunOk
<1>2. fs \in Seq(F) /\ Len(fs) \in Nat /\ g \in F
  BY <1>1 DEF FramesOk
<1> HIDE DEF F
<1>3. /\ gs \in Seq(F) /\ Len(gs) = Len(fs) - 1 /\ gs[Len(gs)] = g
      /\ \A k \in 1 .. Len(gs) - 1 : gs[k] = fs[k]
      /\ gs # <<>>
  <2> DEFINE n == Len(fs) - 2
             s == SubSeq(fs, 1, n)
  <2>1. n \in Nat /\ \A i \in 1 .. n : fs[i] \in F
    BY <1>2
  <2>2. n + 1 = Len(fs) - 1
    BY <1>2
  <2> HIDE DEF n
  <2>3. s \in Seq(F) /\ Len(s) = n /\ \A k \in 1 .. n : s[k] = fs[k]
    BY <1>2, <2>1
  <2> HIDE DEF s
  <2>4. /\ Append(s, g) \in Seq(F) /\ Len(Append(s, g)) = n + 1 /\ Append(s, g)[n + 1] = g
        /\ \A k \in 1 .. n : Append(s, g)[k] = s[k]
        /\ Append(s, g) # <<>>
    BY <1>2, <2>3, AppendFacts
  <2>5. gs = Append(s, g)
    BY DEF s, n
  <2> HIDE DEF gs
  <2> QED BY <2>1, <2>2, <2>3, <2>4, <2>5
<1> HIDE DEF gs
<1>4. c \in Frames(im, S) /\ Placed(im, c) /\ ShapeAt(im, c).timers \in Nat
  BY <1>1, <1>2, AllTimersNat
<1>5. c.obj \in ObjectsOf(im) /\ g.delta \in Int
  BY <1>4, FrameFields
<1>6. /\ TopOk(im, g, NoExc)
      /\ ShapeAt(im, g).timers <= TimersAfter(ShapeAt(im, c), InstrAt(im, c))
      /\ ShapeAt(im, g).timers \in Nat
  BY <1>4, <1>5, FollowsOk
<1>7. ShapeAt(im, g).timers <= ShapeAt(im, c).timers
  BY <1>6
<1>8. \A k \in 1 .. Len(gs) - 1 : Placed(im, gs[k]) /\ Waiting(im, gs[k])
  BY <1>1, <1>2, <1>3 DEF FramesOk
<1>9. FramesOk(im, S, gs, NoExc)
  BY <1>3, <1>6, <1>8 DEF FramesOk, F
<1>10. \A k \in 1 .. Len(fs) : ShapeAt(im, fs[k]).timers \in Nat
  BY <1>1, AllTimersNat
<1>11. Len(ts) \in Nat
  BY <1>1
<1>12. TimersOk(im, gs, Front(b), Len(ts))
  BY <1>1, <1>2, <1>3, <1>6, <1>7, <1>10, <1>11, TimersPopped
<1> QED BY <1>9, <1>12 DEF RunOk, gs

\* An exception leaves an activation that has a caller.
LEMMA Unwound ==
    ASSUME NEW im, Verified(im), NEW S, NEW C, NEW b, NEW pd, NEW fs, NEW h, NEW vs, NEW e,
           NEW ts, RunOk(im, S, C, b, pd, fs, h, vs, e, ts), Len(fs) > 1, e # NoExc
    PROVE  RunOk(im, S, C, Front(b), pd, Front(fs), h, vs, e, ts)
<1> DEFINE F == Frames(im, S)
           gs == Front(fs)
<1>1. FramesOk(im, S, fs, e) /\ ts \in Seq(Nat \X Nat) /\ TimersOk(im, fs, b, Len(ts))
  BY DEF RunOk
<1>2. fs \in Seq(F) /\ Len(fs) \in Nat /\ fs # <<>>
  BY <1>1 DEF FramesOk
<1> HIDE DEF F
<1>3. gs \in Seq(F) /\ Len(gs) = Len(fs) - 1 /\ \A k \in 1 .. Len(gs) : gs[k] = fs[k]
  BY <1>2, FrontProperties
<1> HIDE DEF gs
<1>4. \A k \in 1 .. Len(gs) : Placed(im, gs[k]) /\ Waiting(im, gs[k])
  BY <1>1, <1>2, <1>3 DEF FramesOk
<1>5. Len(gs) \in 1 .. Len(gs) /\ gs[Len(gs)] = fs[Len(fs) - 1] /\ gs # <<>>
  BY <1>2, <1>3
<1>6. TopOk(im, gs[Len(gs)], e)
  <2>1. gs[Len(gs)] \in Frames(im, S)
    BY <1>3, <1>5 DEF F
  <2>2. /\ gs[Len(gs)].obj \in ObjectsOf(im) /\ gs[Len(gs)].stack \in Seq(S)
    BY <2>1, FrameFields
  <2>3. Len(gs[Len(gs)].stack) \in Nat
    BY <2>2
  <2>4. Placed(im, gs[Len(gs)]) /\ Waiting(im, gs[Len(gs)])
    BY <1>4, <1>5
  <2>5. CatchesHold(gs[Len(gs)])
    BY <2>2, <2>3, <2>4, WaitingHolds
  <2> QED BY <2>4, <2>5 DEF TopOk, Waiting
<1>7. FramesOk(im, S, gs, e)
  <2>1. \A k \in 1 .. Len(gs) - 1 : k \in 1 .. Len(gs)
    BY <1>2, <1>3
  <2> QED BY <1>3, <1>4, <1>6, <2>1 DEF FramesOk, F
<1>8. \A k \in 1 .. Len(fs) : ShapeAt(im, fs[k]).timers \in Nat
  BY <1>1, AllTimersNat
<1>9. /\ ShapeAt(im, gs[Len(gs)]).timers \in Nat
      /\ ShapeAt(im, gs[Len(gs)]).timers <= ShapeAt(im, fs[Len(fs) - 1]).timers
      /\ \A k \in 1 .. Len(gs) - 1 : gs[k] = fs[k]
  <2>1. Len(fs) - 1 \in 1 .. Len(fs)
    BY <1>2
  <2>2. ShapeAt(im, fs[Len(fs) - 1]).timers \in Nat
    BY <1>8, <2>1
  <2>3. \A k \in 1 .. Len(gs) - 1 : k \in 1 .. Len(gs)
    BY <1>2, <1>3
  <2> QED BY <1>3, <1>5, <2>2, <2>3
<1>10. Len(ts) \in Nat
  BY <1>1
<1>11. TimersOk(im, gs, Front(b), Len(ts))
  BY <1>1, <1>2, <1>3, <1>8, <1>9, <1>10, TimersPopped
<1> QED BY <1>7, <1>11 DEF RunOk, gs

\* No activation is left.
LEMMA Emptied ==
    ASSUME NEW im, NEW S, NEW C, NEW b, NEW pd, NEW fs, NEW h, NEW vs, NEW e, NEW ts,
           RunOk(im, S, C, b, pd, fs, h, vs, e, ts), NEW pd2, PendingOk(im, pd2)
    PROVE  RunOk(im, S, C, <<>>, pd2, <<>>, h, vs, NoExc, ts)
<1>1. FramesOk(im, S, <<>>, NoExc)
  BY DEF FramesOk
<1>2. TimersOk(im, <<>>, <<>>, Len(ts))
  BY DEF TimersOk
<1> QED BY <1>1, <1>2 DEF RunOk, ExcOk

-----------------------------------------------------------------------------
(* The inductive invariant, and the loop header *)

\* There are such S, C and b, the image has a stack map, and none of run()'s
\* internal checks has fired.
StackInv ==
    /\ Verified(image)
    /\ ~internal
    /\ \E S, C, b : RunOk(image, S, C, b, pending, frames, heap, vars, exc, times)

\* The loop header finds the activations in order.
Ready(S, C, b) ==
    /\ Verified(image)
    /\ frames # <<>> /\ exc = NoExc
    /\ RunOk(image, S, C, b, pending, frames, heap, vars, exc, times)

\* What the map says of the position the loop is at.
Shape == ShapeAt(image, Top)

-----------------------------------------------------------------------------
(* The table of StackMaps, instruction by instruction *)

LEMMA GoesOn ==
    ASSUME NEW i, NEW m, NEW ip
    PROVE  /\ i.op \notin {"Jump", "JumpIfFalse", "CallParent", "Return"}
                => Targets(i, ip) = {ip + 1}
           /\ i.op \notin {"PushCatchFrame", "PopCatchFrame"} => CatchesAfter(m, i) = m.catches
           /\ i.op \notin {"TimeExpressionStart", "TimeExpressionEnd"}
                => TimersAfter(m, i) = m.timers
<1>1. i.op \notin {"Jump", "JumpIfFalse", "CallParent", "Return"} => Targets(i, ip) = {ip + 1}
  BY Zenon DEF Targets
<1>2. i.op \notin {"PushCatchFrame", "PopCatchFrame"} => CatchesAfter(m, i) = m.catches
  BY Zenon DEF CatchesAfter
<1>3. i.op \notin {"TimeExpressionStart", "TimeExpressionEnd"} => TimersAfter(m, i) = m.timers
  BY Zenon DEF TimersAfter
<1> QED BY <1>1, <1>2, <1>3

LEMMA PopsNone ==
    ASSUME NEW i,
           i.op \in {"PushConst", "PushInt", "PushLocal", "PushObjectVar", "Dup", "Jump",
                     "ExpandVarargs", "Return", "PushCatchFrame", "PopCatchFrame",
                     "TimeExpressionStart", "TimeExpressionEnd"}
    PROVE  Pops(i) = 0
  BY Zenon DEF Pops, SpreadTakers, Calls, BinaryOps, BitOps

LEMMA PopsOne ==
    ASSUME NEW i, i.op \in {"StoreLocal", "StoreObjectVar", "Not", "BitNot", "Pop",
                            "JumpIfFalse", "ForeachKeys"}
    PROVE  Pops(i) = 1
  BY Zenon DEF Pops, SpreadTakers, Calls, BinaryOps, BitOps

LEMMA PopsTwo ==
    ASSUME NEW i, i.op \in BinaryOps \union {"Index"}
    PROVE  Pops(i) = 2
  BY Zenon DEF Pops, SpreadTakers, Calls, BinaryOps, BitOps

LEMMA PopsThree ==
    ASSUME NEW i, i.op \in {"RangeIndex", "IndexAssign"}
    PROVE  Pops(i) = 3
  BY Zenon DEF Pops, SpreadTakers, Calls, BinaryOps, BitOps

LEMMA PopsMany ==
    ASSUME NEW i
    PROVE  /\ i.op \in SpreadTakers \union {"PushClosure"} => Pops(i) = i.n
           /\ i.op = "MakeMapping" => Pops(i) = 2 * i.n
<1>1. i.op \in SpreadTakers \union {"PushClosure"} => Pops(i) = i.n
  BY Zenon DEF Pops, SpreadTakers, Calls, BinaryOps, BitOps
<1>2. i.op = "MakeMapping" => Pops(i) = 2 * i.n
  BY Zenon DEF Pops, SpreadTakers, Calls, BinaryOps, BitOps
<1> QED BY <1>1, <1>2

LEMMA FollowsBy ==
    ASSUME NEW im, NEW f, NEW g, g.prog = f.prog, g.obj = f.obj,
           g.ip \in Targets(InstrAt(im, f), f.ip),
           g.catches = CatchesAfter(ShapeAt(im, f), InstrAt(im, f)),
           Len(g.locals) = Len(f.locals),
           ShapeAt(im, f).depth \in Nat, Pops(InstrAt(im, f)) \in Nat,
           Pushes(InstrAt(im, f)) \in Nat,
           Len(g.stack) = ShapeAt(im, f).depth - Pops(InstrAt(im, f)) + Pushes(InstrAt(im, f)),
           g.delta = 0, InstrAt(im, f).op # "ExpandVarargs"
    PROVE  Follows(im, f, g)
<1> DEFINE m == ShapeAt(im, f)
           i == InstrAt(im, f)
           a == After(m, i)
<1>1. a.depth = m.depth - Pops(i) + Pushes(i) /\ a.catches = CatchesAfter(m, i) /\ a.spread = 0
  BY DEF After
<1>2. a.depth \in Int
  BY <1>1
<1>3. a.depth + g.delta = a.depth /\ -a.spread <= g.delta
  BY <1>1, <1>2
<1> HIDE DEF a
<1> QED BY <1>1, <1>3 DEF Follows, a

-----------------------------------------------------------------------------
(* The innermost activation *)

LEMMA TopFacts ==
    ASSUME NEW S, NEW C, NEW b, Ready(S, C, b)
    PROVE  /\ Top \in Frames(image, S)
           /\ Placed(image, Top) /\ Running(image, Top) /\ CatchesHold(Top)
           /\ Instr = InstrAt(image, Top)
           /\ Shape \in Shapes /\ Instr.n \in Nat
           /\ Needs(Instr) <= Shape.depth
           /\ NeedsMet(Shape, Instr)
           /\ Top.obj \in ObjectsOf(image)
<1>1. FramesOk(image, S, frames, NoExc)
  BY DEF Ready, RunOk
<1>2. Top \in Frames(image, S) /\ TopOk(image, Top, NoExc)
  BY <1>1, TopTyped DEF Top, Ready
<1>3. Placed(image, Top) /\ Running(image, Top) /\ CatchesHold(Top)
  BY <1>2 DEF TopOk
<1>4. Top.obj \in ObjectsOf(image)
  BY <1>2, FrameFields
<1>5. Instr = InstrAt(image, Top)
  BY DEF Instr, InstrAt, Code, Programs
<1> QED BY <1>2, <1>3, <1>4, <1>5, ShapeTyped DEF Shape, Ready

LEMMA TopRecord ==
    ASSUME NEW S, NEW C, NEW b, Ready(S, C, b)
    PROVE  /\ Top.prog \in Nat /\ Top.obj \in ObjectsOf(image) /\ Top.ip \in Nat
           /\ Top.stack \in Seq(S) /\ Top.locals \in Seq(S)
           /\ Top.catches \in Seq(CatchFrames) /\ Top.delta \in Int
           /\ Len(Top.stack) \in Nat
           /\ Top.catches = Shape.catches
           /\ Len(Top.locals) = Shape.slots
           /\ Shape.depth \in Nat /\ Shape.spread \in Nat /\ Shape.timers \in Nat
           /\ Shape.slots \in Nat /\ Shape.catches \in Seq(CatchFrames)
           /\ Len(Top.stack) = Shape.depth + Top.delta
           /\ -Shape.spread <= Top.delta
           /\ Shape.spread = 0 => Top.delta = 0
<1>1. Top \in Frames(image, S) /\ Placed(image, Top) /\ Running(image, Top) /\ Shape \in Shapes
  BY TopFacts
<1>2. /\ Top.prog \in Nat /\ Top.obj \in ObjectsOf(image) /\ Top.ip \in Nat
      /\ Top.stack \in Seq(S) /\ Top.locals \in Seq(S)
      /\ Top.catches \in Seq(CatchFrames) /\ Top.delta \in Int
  BY <1>1, FrameFields
<1>3. Len(Top.stack) \in Nat
  BY <1>2
<1>4. /\ Shape.depth \in Nat /\ Shape.spread \in Nat /\ Shape.timers \in Nat
      /\ Shape.slots \in Nat /\ Shape.catches \in Seq(CatchFrames)
  BY <1>1, ShapeFields
<1> QED BY <1>1, <1>2, <1>3, <1>4 DEF Placed, Running, Shape

\* Outside an argument list the stack is exactly as deep as the map says.
LEMMA NoSpread ==
    ASSUME NEW S, NEW C, NEW b, Ready(S, C, b),
           Instr.op \notin SpreadTakers \union {"ExpandVarargs"}
    PROVE  Top.delta = 0 /\ Len(Top.stack) = Shape.depth
<1>1. NeedsMet(Shape, Instr)
  BY TopFacts
<1>2. ~(Shape.spread > 0)
  BY <1>1 DEF NeedsMet
<1>3. Shape.spread \in Nat
  BY TopRecord
<1>4. Shape.spread = 0
  BY <1>2, <1>3
<1>5. Top.delta = 0 /\ Len(Top.stack) = Shape.depth + Top.delta /\ Shape.depth \in Nat
  BY <1>4, TopRecord
<1> QED BY <1>5

LEMMA Cut ==
    ASSUME NEW S, NEW s \in Seq(S), NEW n \in Nat, n <= Len(s)
    PROVE  /\ SubSeq(s, 1, Len(s) - n) \in Seq(S)
           /\ Len(SubSeq(s, 1, Len(s) - n)) = Len(s) - n
           /\ SubSeq(s, Len(s) - n + 1, Len(s)) \in Seq(S)
           /\ Len(SubSeq(s, Len(s) - n + 1, Len(s))) = n
           /\ \A k \in 1 .. n : SubSeq(s, Len(s) - n + 1, Len(s))[k] \in S
<1> DEFINE m == Len(s) - n
           t == SubSeq(s, 1, m)
           u == SubSeq(s, m + 1, Len(s))
<1>1. m \in Nat /\ Len(s) \in Nat /\ m <= Len(s) /\ n = Len(s) - m
  OBVIOUS
<1> HIDE DEF m
<1>2. t \in Seq(S) /\ Len(t) = m
  BY <1>1
<1>3. u \in Seq(S) /\ Len(u) = Len(s) - m
  BY <1>1
<1> HIDE DEF t, u
<1>4. \A k \in 1 .. n : u[k] \in S
  BY <1>1, <1>3
<1> QED BY <1>1, <1>2, <1>3, <1>4 DEF t, u, m

LEMMA BelowFacts ==
    ASSUME NEW S, NEW C, NEW b, Ready(S, C, b), NEW n \in Nat, n <= Len(Top.stack)
    PROVE  /\ Below(n) \in Seq(S) /\ Len(Below(n)) = Len(Top.stack) - n
           /\ Operands(n) \in Seq(S) /\ Len(Operands(n)) = n
           /\ \A k \in 1 .. n : Operands(n)[k] \in S
  BY TopRecord, Cut DEF Below, Operands

\* The operands of an instruction are on the stack.
LEMMA Supplied ==
    ASSUME NEW S, NEW C, NEW b, Ready(S, C, b),
           Instr.op \notin SpreadTakers \union {"ExpandVarargs", "Dup"}
    PROVE  /\ Pops(Instr) \in Nat /\ Pops(Instr) <= Len(Top.stack)
           /\ Holds(Pops(Instr))
           /\ Pushes(Instr) \in Nat
<1>1. Needs(Instr) <= Shape.depth /\ Instr.n \in Nat
  BY TopFacts
<1>2. Needs(Instr) = Pops(Instr)
  BY DEF Needs
<1>3. Pops(Instr) \in Nat /\ Pushes(Instr) \in {0, 1}
  BY <1>1, PopsNat
<1>4. Len(Top.stack) = Shape.depth /\ Shape.depth \in Nat
  BY NoSpread, TopRecord
<1> QED BY <1>1, <1>2, <1>3, <1>4 DEF Holds

\* An error that pops the operands leaves the catch frames' part of the stack.
LEMMA PoppedHolds ==
    ASSUME NEW S, NEW C, NEW b, Ready(S, C, b)
    PROVE  Shape.catches # <<>> =>
             /\ Last(Shape.catches).stackDepth + Pops(Instr) <= Shape.depth
             /\ Last(Shape.catches).stackDepth \in Nat
<1>1. FitsAt(image.programs[Top.prog].code, MapsOf(image)[Top.prog], Top.ip)
  BY TopFacts, AtInstruction DEF Ready
<1>2. Instr = image.programs[Top.prog].code[Top.ip] /\ Shape = MapsOf(image)[Top.prog][Top.ip]
  BY DEF Instr, Code, Programs, Shape, ShapeAt
<1>3. Shape.catches # <<>> => Last(Shape.catches).stackDepth \in Nat
  BY TopRecord, LastCatch
<1> QED BY <1>1, <1>2, <1>3 DEF FitsAt

-----------------------------------------------------------------------------
(* Instructions that stay in their activation *)

\* The activation at ip, with stack s.
At(f, ip, s) == [f EXCEPT !.ip = ip, !.stack = s]

LEMMA AtFields ==
    ASSUME NEW im, NEW T, NEW f \in Frames(im, T), NEW s \in Seq(T), NEW ip \in Nat
    PROVE  /\ At(f, ip, s) \in Frames(im, T)
           /\ At(f, ip, s).prog = f.prog /\ At(f, ip, s).obj = f.obj
           /\ At(f, ip, s).ip = ip /\ At(f, ip, s).stack = s
           /\ At(f, ip, s).locals = f.locals /\ At(f, ip, s).catches = f.catches
           /\ At(f, ip, s).delta = f.delta
  BY DEF Frames, At

\* The instruction moves its activation on.
LEMMA MovesOn ==
    ASSUME NEW S, NEW C, NEW b, Ready(S, C, b), ~internal',
           image' = image, pending' = pending, exc' = exc,
           NEW T, S \subseteq T, NEW D, HeapOk(heap', T, D, ObjectsOf(image)),
           VarsOk(image, T, vars'),
           NEW g \in Frames(image, T), Follows(image, Top, g), frames' = WithTop(g),
           times' \in Seq(Nat \X Nat),
           Len(times') - Len(times) = TimersAfter(Shape, Instr) - Shape.timers
    PROVE  StackInv'
<1>1. Instr = InstrAt(image, Top) /\ Shape = ShapeAt(image, frames[Len(frames)])
      /\ Top = frames[Len(frames)]
  BY TopFacts DEF Shape, Top
<1>2. Verified(image) /\ frames # <<>> /\ exc = NoExc
      /\ RunOk(image, S, C, b, pending, frames, heap, vars, NoExc, times)
  BY DEF Ready
<1>3. RunOk(image, T, D, b, pending, [frames EXCEPT ![Len(frames)] = g], heap', vars', NoExc,
            times')
  BY <1>1, <1>2, Moved
<1>4. RunOk(image', T, D, b, pending', frames', heap', vars', exc', times')
  BY <1>2, <1>3 DEF WithTop
<1> QED BY <1>2, <1>4 DEF StackInv

\* The instruction throws; g is what its activation looks like then.
LEMMA Throws ==
    ASSUME NEW S, NEW C, NEW b, Ready(S, C, b), ~internal',
           image' = image, pending' = pending, heap' = heap, vars' = vars, times' = times,
           NEW v \in S, exc' = Thrown(v),
           NEW g \in Frames(image, S), frames' = WithTop(g),
           g.prog = Top.prog, g.obj = Top.obj, g.ip = Top.ip, g.catches = Top.catches,
           g.locals = Top.locals, CatchesHold(g), g.delta = 0 \/ g.catches = <<>>
    PROVE  StackInv'
<1>1. Verified(image) /\ frames # <<>>
      /\ RunOk(image, S, C, b, pending, frames, heap, vars, NoExc, times)
  BY DEF Ready
<1>2. Top = frames[Len(frames)]
  BY DEF Top
<1>3. RunOk(image, S, C, b, pending, [frames EXCEPT ![Len(frames)] = g], heap, vars, Thrown(v),
            times)
  BY <1>1, <1>2, Failed
<1>4. RunOk(image', S, C, b, pending', frames', heap', vars', exc', times')
  BY <1>3 DEF WithTop
<1> QED BY <1>1, <1>4 DEF StackInv

LEMMA BasicValues ==
    ASSUME NEW S, NEW C, NEW b, Ready(S, C, b)
    PROVE  /\ Void \in S /\ Num(0) \in S /\ ErrorText \in S
           /\ RuntimeErr = Thrown(ErrorText)
           /\ HeapOk(heap, S, C, ObjectsOf(image)) /\ VarsOk(image, S, vars)
           /\ times \in Seq(Nat \X Nat) /\ Len(times) \in Nat
<1>1. RunOk(image, S, C, b, pending, frames, heap, vars, exc, times)
  BY DEF Ready
<1>2. times \in Seq(Nat \X Nat)
  BY <1>1 DEF RunOk
<1>3. Len(times) \in Nat
  BY <1>2
<1> QED BY <1>1, <1>2, <1>3 DEF RunOk, RuntimeErr, Thrown

\* The operands are popped, then the error is thrown.
LEMMA PopsAndThrows ==
    ASSUME NEW S, NEW C, NEW b, Ready(S, C, b), ~internal',
           image' = image, pending' = pending, heap' = heap, vars' = vars, times' = times,
           NEW v \in S, exc' = Thrown(v),
           Instr.op \notin SpreadTakers \union {"ExpandVarargs", "Dup"},
           frames' = WithTop([Top EXCEPT !.stack = Below(Pops(Instr))])
    PROVE  StackInv'
<1> DEFINE n == Pops(Instr)
           g == [Top EXCEPT !.stack = Below(n)]
<1>1. n \in Nat /\ n <= Len(Top.stack)
  BY Supplied
<1>2. Below(n) \in Seq(S) /\ Len(Below(n)) = Len(Top.stack) - n
  BY <1>1, BelowFacts
<1>3. Top \in Frames(image, S)
  BY TopFacts
<1>4. /\ g \in Frames(image, S) /\ g.prog = Top.prog /\ g.obj = Top.obj /\ g.ip = Top.ip
      /\ g.catches = Top.catches /\ g.locals = Top.locals /\ g.delta = Top.delta
      /\ g.stack = Below(n)
  <2> HIDE DEF n
  <2> QED BY <1>2, <1>3 DEF Frames
<1>5. Top.delta = 0 /\ Len(Top.stack) = Shape.depth /\ Top.catches = Shape.catches
      /\ Shape.depth \in Nat
  BY NoSpread, TopRecord
<1>6. Shape.catches # <<>> =>
        Last(Shape.catches).stackDepth + n <= Shape.depth /\ Last(Shape.catches).stackDepth \in Nat
  BY PoppedHolds
<1> HIDE DEF n
<1>7. Shape.catches # <<>> => Last(Shape.catches).stackDepth <= Len(Below(n))
  BY <1>1, <1>2, <1>5, <1>6
<1> HIDE DEF g
<1>8. CatchesHold(g)
  BY <1>4, <1>5, <1>7 DEF CatchesHold
<1> QED BY <1>4, <1>5, <1>8, Throws DEF g, n

\* The others replace their operands by at most one value and go on.
Special == SpreadTakers \union {"ExpandVarargs", "Jump", "JumpIfFalse", "Return",
                                "TimeExpressionStart", "TimeExpressionEnd",
                                "PushCatchFrame", "PopCatchFrame"}

\* Instructions that replace their operands by one value.
LEMMA FinishOk ==
    ASSUME NEW S, NEW C, NEW b, Ready(S, C, b), ~internal,
           image' = image, pending' = pending, vars' = vars, times' = times,
           NEW n, NEW res, Finish(n, TRUE, res), n = Pops(Instr),
           Instr.op \notin Special,
           Pushes(Instr) = 1, Instr.op = "Dup" => res.kind = "ok",
           OutcomeOk(res, heap, S, ObjectsOf(image))
    PROVE  StackInv'
<1>0. ~internal'
  BY DEF Finish
<1> USE <1>0
<1>b. /\ Void \in S /\ Num(0) \in S /\ ErrorText \in S /\ RuntimeErr = Thrown(ErrorText)
      /\ HeapOk(heap, S, C, ObjectsOf(image)) /\ VarsOk(image, S, vars)
      /\ times \in Seq(Nat \X Nat) /\ Len(times) \in Nat
  BY BasicValues
<1>1. CASE res.kind = "fail"
  <2>1. Instr.op # "Dup" /\ Instr.op \notin SpreadTakers \union {"ExpandVarargs"}
    BY <1>1 DEF Special
  <2>2. exc' = RuntimeErr /\ frames' = WithTop([Top EXCEPT !.stack = Below(n)]) /\ heap' = heap
    BY <1>1 DEF Finish
  <2> QED BY <1>b, <2>1, <2>2, PopsAndThrows
<1>2. CASE res.kind # "fail"
  <2> DEFINE pushed == IF res.kind = "alloc" THEN <<res.cell.kind, Len(heap) + 1>> ELSE res.value
             g == [Top EXCEPT !.ip = @ + 1, !.stack = Append(Below(n), pushed)]
             T == S \union {pushed}
  <2>1. /\ frames' = WithTop(g)
        /\ heap' = IF res.kind = "alloc" THEN Append(heap, res.cell) ELSE heap
        /\ exc' = exc
    BY <1>2 DEF Finish
  <2>2. \E D : HeapOk(heap', T, D, ObjectsOf(image))
    <3>1. CASE res.kind = "alloc"
      <4>1. CellOk(res.cell, S, ObjectsOf(image))
        BY <3>1 DEF OutcomeOk
      <4>2. HeapOk(Append(heap, res.cell), S \union {<<res.cell.kind, Len(heap) + 1>>},
                   C \union {res.cell}, ObjectsOf(image))
        BY <1>b, <4>1, HeapWithCell
      <4> QED BY <2>1, <3>1, <4>2
    <3>2. CASE res.kind # "alloc"
      <4>1. GoodValue(res.value, heap)
        BY <1>2, <3>2 DEF OutcomeOk
      <4>2. HeapOk(heap, S \union {res.value}, C, ObjectsOf(image))
        BY <1>b, <4>1, HeapWithValue
      <4> QED BY <2>1, <3>2, <4>2
    <3> QED BY <3>1, <3>2
  <2>3. PICK D : HeapOk(heap', T, D, ObjectsOf(image))
    BY <2>2
  <2> HIDE DEF pushed
  <2>4. S \subseteq T /\ pushed \in T
    OBVIOUS
  <2> HIDE DEF T
  <2>5. n \in Nat /\ n <= Len(Top.stack) /\ Len(Top.stack) = Shape.depth /\ Top.delta = 0
        /\ Shape.depth \in Nat
    <3>1. Len(Top.stack) = Shape.depth /\ Top.delta = 0 /\ Shape.depth \in Nat
      BY NoSpread, TopRecord DEF Special
    <3>2. CASE Instr.op = "Dup"
      BY <3>1, <3>2, PopsNone
    <3>3. CASE Instr.op # "Dup"
      BY <3>1, <3>3, Supplied DEF Special
    <3> QED BY <3>2, <3>3
  <2>6. Below(n) \in Seq(S) /\ Len(Below(n)) = Len(Top.stack) - n
    BY <2>5, BelowFacts
  <2>7. Below(n) \in Seq(T)
    BY <2>4, <2>6, SeqWider
  <2>8. /\ Append(Below(n), pushed) \in Seq(T)
        /\ Len(Append(Below(n), pushed)) = Shape.depth - n + 1
    <3> DEFINE s == Below(n)
    <3>1. s \in Seq(T) /\ Len(s) = Shape.depth - n
      BY <2>5, <2>6, <2>7
    <3> HIDE DEF s
    <3>2. Append(s, pushed) \in Seq(T) /\ Len(Append(s, pushed)) = Len(s) + 1
      BY <2>4, <3>1, AppendFacts
    <3> QED BY <3>1, <3>2 DEF s
  <2>9. Top \in Frames(image, T)
    BY <2>4, TopFacts, FramesWider
  <2> DEFINE s == Append(Below(n), pushed)
  <2>10. s \in Seq(T) /\ Len(s) = Shape.depth - n + 1
    BY <2>8
  <2> HIDE DEF s
  <2>11. /\ g \in Frames(image, T) /\ g.prog = Top.prog /\ g.obj = Top.obj /\ g.ip = Top.ip + 1
         /\ g.catches = Top.catches /\ g.locals = Top.locals /\ g.delta = Top.delta
         /\ g.stack = s
    <3>1. g = At(Top, Top.ip + 1, s)
      BY DEF s, At
    <3>2. Top.ip + 1 \in Nat
      BY TopRecord
    <3> HIDE DEF g
    <3> QED BY <2>9, <2>10, <3>1, <3>2, AtFields
  <2> HIDE DEF g
  <2>12. Follows(image, Top, g)
    <3>0. Instr.op # "ExpandVarargs"
      BY DEF Special
    <3>1. Instr = InstrAt(image, Top) /\ Shape = ShapeAt(image, Top)
      BY TopFacts DEF Shape
    <3>2. g.ip \in Targets(Instr, Top.ip)
      <4>1. Instr.op \notin {"Jump", "JumpIfFalse", "CallParent", "Return"}
        BY DEF Special, SpreadTakers, Calls
      <4>2. Targets(Instr, Top.ip) = {Top.ip + 1}
        BY <4>1, GoesOn
      <4> QED BY <2>11, <4>2
    <3>3. g.catches = CatchesAfter(Shape, Instr)
      BY <2>11, GoesOn, TopRecord DEF Special
    <3>4. Len(g.stack) = Shape.depth - Pops(Instr) + Pushes(Instr)
      BY <2>10, <2>11
    <3>5. Len(g.locals) = Len(Top.locals) /\ g.delta = 0 /\ g.prog = Top.prog /\ g.obj = Top.obj
      BY <2>5, <2>11
    <3> QED BY <2>5, <3>0, <3>1, <3>2, <3>3, <3>4, <3>5, FollowsBy
  <2>13. TimersAfter(Shape, Instr) = Shape.timers /\ Shape.timers \in Nat
    BY GoesOn, TopRecord DEF Special
  <2>14. Len(times') - Len(times) = TimersAfter(Shape, Instr) - Shape.timers
    BY <1>b, <2>13
  <2>15. VarsOk(image, T, vars')
    BY <1>b, <2>4, VarsWider
  <2>16. times' \in Seq(Nat \X Nat)
    BY <1>b
  <2> QED BY <2>1, <2>3, <2>4, <2>11, <2>12, <2>14, <2>15, <2>16, MovesOn
<1> QED BY <1>1, <1>2

-----------------------------------------------------------------------------
(* Constants, variables and operators *)

LEMMA FetchKeeps ==
    ASSUME NEW ops, Fetch(ops)
    PROVE  image' = image /\ pending' = pending /\ Instr.op \in ops
           /\ frames # <<>> /\ exc = NoExc
  BY DEF Fetch

LEMMA PushConstOk ==
    ASSUME NEW S, NEW C, NEW b, Ready(S, C, b), ~internal, PushConst
    PROVE  StackInv'
<1>1. image' = image /\ pending' = pending /\ Instr.op \in {"PushConst", "PushInt"}
  BY FetchKeeps DEF PushConst
<1>2. Finish(0, TRUE, Ok(Instr.a)) /\ vars' = vars /\ times' = times
  BY DEF PushConst
<1>3. Pops(Instr) = 0 /\ Pushes(Instr) = 1
  BY <1>1, PopsNone DEF Pushes
<1>4. GoodValue(Instr.a, heap)
  BY <1>1, TopFacts DEF NeedsMet, GoodValue, References
<1>5. OutcomeOk(Ok(Instr.a), heap, S, ObjectsOf(image)) /\ Ok(Instr.a).kind = "ok"
  BY <1>4, OkOk DEF Ok
<1>6. Instr.op \notin Special
  BY <1>1 DEF Special, SpreadTakers, Calls
<1> QED BY <1>1, <1>2, <1>3, <1>5, <1>6, FinishOk

LEMMA OkInS ==
    ASSUME NEW S, NEW C, NEW b, Ready(S, C, b), NEW v \in S
    PROVE  OutcomeOk(Ok(v), heap, S, ObjectsOf(image)) /\ Ok(v).kind = "ok"
<1>1. GoodValue(v, heap)
  BY BasicValues DEF HeapOk
<1> QED BY <1>1, OkOk DEF Ok

LEMMA PushLocalOk ==
    ASSUME NEW S, NEW C, NEW b, Ready(S, C, b), ~internal, PushLocal
    PROVE  StackInv'
<1>1. image' = image /\ pending' = pending /\ Instr.op = "PushLocal"
  BY FetchKeeps DEF PushLocal
<1>2. Instr.a \in DOMAIN Top.locals /\ Top.locals[Instr.a] \in S
  <2>1. Instr.a \in 1 .. Shape.slots
    BY <1>1, TopFacts DEF NeedsMet
  <2> QED BY <2>1, TopRecord
<1>3. Finish(0, TRUE, Ok(Top.locals[Instr.a])) /\ vars' = vars /\ times' = times
  BY <1>2 DEF PushLocal
<1>4. Pops(Instr) = 0 /\ Pushes(Instr) = 1
  BY <1>1, PopsNone DEF Pushes
<1>5. OutcomeOk(Ok(Top.locals[Instr.a]), heap, S, ObjectsOf(image))
      /\ Ok(Top.locals[Instr.a]).kind = "ok"
  BY <1>2, OkInS
<1>6. Instr.op \notin Special
  BY <1>1 DEF Special, SpreadTakers, Calls
<1> QED BY <1>1, <1>3, <1>4, <1>5, <1>6, FinishOk

\* An object variable's slot is one of the object's.
LEMMA SlotThere ==
    ASSUME NEW S, NEW C, NEW b, Ready(S, C, b), Instr.op \in {"PushObjectVar", "StoreObjectVar"}
    PROVE  /\ ObjectVarBase(Top) + Instr.a \in DOMAIN vars[Top.obj]
           /\ vars[Top.obj] \in [DOMAIN vars[Top.obj] -> S]
           /\ Top.obj \in DOMAIN vars
<1>1. Fits(image, MapsOf(image), LinkedOf(image))
  BY VerifiedFits DEF Ready
<1>2. Top.obj \in ObjectsOf(image) /\ Placed(image, Top) /\ Instr = InstrAt(image, Top)
  BY TopFacts
<1>3. LinkFits(image, MapsOf(image), Top.obj, LinkedOf(image)[Top.obj])
  BY <1>1, <1>2 DEF Fits
<1>4. VarSlot(image, Top.obj, Top.prog, Instr.a)
        \in DOMAIN image.programs[Main(image, Top.obj)].names
  BY <1>2, <1>3 DEF LinkFits, Placed, InstrAt
<1>5. VarSlot(image, Top.obj, Top.prog, Instr.a) = ObjectVarBase(Top) + Instr.a
  BY DEF VarSlot, ObjectVarBase, Main, ProgramOf, Programs
<1>6. vars[Top.obj] \in [DOMAIN image.programs[Main(image, Top.obj)].names -> S]
      /\ DOMAIN vars = {"self", "simul"}
  BY <1>2, BasicValues DEF VarsOk
<1>7. Top.obj \in {"self", "simul"}
  BY <1>2 DEF ObjectsOf
<1> QED BY <1>4, <1>5, <1>6, <1>7

LEMMA PushObjectVarOk ==
    ASSUME NEW S, NEW C, NEW b, Ready(S, C, b), ~internal, PushObjectVar
    PROVE  StackInv'
<1> DEFINE slot == ObjectVarBase(Top) + Instr.a
           v == vars[Top.obj][slot]
<1>1. image' = image /\ pending' = pending /\ Instr.op = "PushObjectVar"
  BY FetchKeeps DEF PushObjectVar
<1>2. slot \in DOMAIN vars[Top.obj] /\ v \in S
  <2>1. slot \in DOMAIN vars[Top.obj] /\ vars[Top.obj] \in [DOMAIN vars[Top.obj] -> S]
    BY <1>1, SlotThere
  <2> HIDE DEF slot
  <2> QED BY <2>1
<1>3. Finish(0, TRUE, Ok(v)) /\ vars' = vars /\ times' = times
  BY <1>2 DEF PushObjectVar
<1> HIDE DEF v
<1>4. Pops(Instr) = 0 /\ Pushes(Instr) = 1
  BY <1>1, PopsNone DEF Pushes
<1>5. OutcomeOk(Ok(v), heap, S, ObjectsOf(image)) /\ Ok(v).kind = "ok"
  BY <1>2, OkInS
<1>6. Instr.op \notin Special
  BY <1>1 DEF Special, SpreadTakers, Calls
<1> QED BY <1>1, <1>3, <1>4, <1>5, <1>6, FinishOk

LEMMA BinaryStepOk ==
    ASSUME NEW S, NEW C, NEW b, Ready(S, C, b), ~internal, Binary
    PROVE  StackInv'
<1> DEFINE res == BinaryResult(Instr.op, Operands(2)[1], Operands(2)[2], heap)
<1>1. image' = image /\ pending' = pending /\ Instr.op \in BinaryOps
  BY FetchKeeps DEF Binary
<1>2. Instr.op \notin Special \union {"Dup"}
  BY <1>1 DEF Special, SpreadTakers, Calls, BinaryOps, BitOps
<1>3. Pops(Instr) = 2 /\ Pushes(Instr) = 1
  BY <1>1, PopsTwo DEF Pushes, BinaryOps, BitOps
<1>4. Holds(2) /\ 2 <= Len(Top.stack)
  BY <1>2, <1>3, Supplied DEF Special
<1>5. Operands(2)[1] \in S /\ Operands(2)[2] \in S
  BY <1>4, BelowFacts
<1>6. OutcomeOk(res, heap, S, ObjectsOf(image))
  BY <1>1, <1>5, BasicValues, BinaryOk
<1>7. Finish(2, TRUE, res) /\ vars' = vars /\ times' = times
  BY <1>4 DEF Binary
<1> HIDE DEF res
<1> QED BY <1>1, <1>2, <1>3, <1>6, <1>7, FinishOk

LEMMA NotStepOk ==
    ASSUME NEW S, NEW C, NEW b, Ready(S, C, b), ~internal, Not
    PROVE  StackInv'
<1> DEFINE res == Ok(Bool(~isTruthy(Operands(1)[1])))
<1>1. image' = image /\ pending' = pending /\ Instr.op = "Not"
  BY FetchKeeps DEF Not
<1>2. Instr.op \notin Special \union {"Dup"}
  BY <1>1 DEF Special, SpreadTakers, Calls
<1>3. Pops(Instr) = 1 /\ Pushes(Instr) = 1
  BY <1>1, PopsOne DEF Pushes
<1>4. Holds(1) /\ 1 <= Len(Top.stack)
  BY <1>2, <1>3, Supplied DEF Special
<1>5. Operands(1)[1] \in S
  BY <1>4, BelowFacts
<1>6. OutcomeOk(res, heap, S, ObjectsOf(image))
  BY BoolGood, OkOk
<1>7. Finish(1, TRUE, res) /\ vars' = vars /\ times' = times
  BY <1>4 DEF Not
<1> HIDE DEF res
<1> QED BY <1>1, <1>2, <1>3, <1>6, <1>7, FinishOk

LEMMA BitNotStepOk ==
    ASSUME NEW S, NEW C, NEW b, Ready(S, C, b), ~internal, BitNot
    PROVE  StackInv'
<1> DEFINE res == BitNotResult(Operands(1)[1])
<1>1. image' = image /\ pending' = pending /\ Instr.op = "BitNot"
  BY FetchKeeps DEF BitNot
<1>2. Instr.op \notin Special \union {"Dup"}
  BY <1>1 DEF Special, SpreadTakers, Calls
<1>3. Pops(Instr) = 1 /\ Pushes(Instr) = 1
  BY <1>1, PopsOne DEF Pushes
<1>4. Holds(1) /\ 1 <= Len(Top.stack)
  BY <1>2, <1>3, Supplied DEF Special
<1>5. Operands(1)[1] \in S
  BY <1>4, BelowFacts
<1>6. OutcomeOk(res, heap, S, ObjectsOf(image))
  BY BitNotOk
<1>7. Finish(1, TRUE, res) /\ vars' = vars /\ times' = times
  BY <1>4 DEF BitNot
<1> HIDE DEF res
<1> QED BY <1>1, <1>2, <1>3, <1>6, <1>7, FinishOk

LEMMA ForeachKeysStepOk ==
    ASSUME NEW S, NEW C, NEW b, Ready(S, C, b), ~internal, ForeachKeys
    PROVE  StackInv'
<1> DEFINE res == ForeachKeysResult(Operands(1)[1], heap)
<1>1. image' = image /\ pending' = pending /\ Instr.op = "ForeachKeys"
  BY FetchKeeps DEF ForeachKeys
<1>2. Instr.op \notin Special \union {"Dup"}
  BY <1>1 DEF Special, SpreadTakers, Calls
<1>3. Pops(Instr) = 1 /\ Pushes(Instr) = 1
  BY <1>1, PopsOne DEF Pushes
<1>4. Holds(1) /\ 1 <= Len(Top.stack)
  BY <1>2, <1>3, Supplied DEF Special
<1>5. Operands(1)[1] \in S
  BY <1>4, BelowFacts
<1>6. OutcomeOk(res, heap, S, ObjectsOf(image))
  BY <1>5, BasicValues, ForeachKeysOk
<1>7. Finish(1, TRUE, res) /\ vars' = vars /\ times' = times
  BY <1>4 DEF ForeachKeys
<1> HIDE DEF res
<1> QED BY <1>1, <1>2, <1>3, <1>6, <1>7, FinishOk

LEMMA IndexStepOk ==
    ASSUME NEW S, NEW C, NEW b, Ready(S, C, b), ~internal, Index
    PROVE  StackInv'
<1> DEFINE res == IndexResult(Operands(2)[1], Operands(2)[2], Instr.n = 1, heap)
<1>1. image' = image /\ pending' = pending /\ Instr.op = "Index"
  BY FetchKeeps DEF Index
<1>2. Instr.op \notin Special \union {"Dup"}
  BY <1>1 DEF Special, SpreadTakers, Calls
<1>3. Pops(Instr) = 2 /\ Pushes(Instr) = 1
  BY <1>1, PopsTwo DEF Pushes
<1>4. Holds(2) /\ 2 <= Len(Top.stack)
  BY <1>2, <1>3, Supplied DEF Special
<1>5. Operands(2)[1] \in S /\ Operands(2)[2] \in S
  BY <1>4, BelowFacts
<1>6. OutcomeOk(res, heap, S, ObjectsOf(image))
  BY <1>5, BasicValues, IndexOk
<1>7. Finish(2, TRUE, res) /\ vars' = vars /\ times' = times
  BY <1>4 DEF Index
<1> HIDE DEF res
<1> QED BY <1>1, <1>2, <1>3, <1>6, <1>7, FinishOk

LEMMA RangeIndexStepOk ==
    ASSUME NEW S, NEW C, NEW b, Ready(S, C, b), ~internal, RangeIndex
    PROVE  StackInv'
<1> DEFINE res == RangeResult(Operands(3)[1], Operands(3)[2], Operands(3)[3],
                           Instr.n \in {1, 3}, Instr.n \in {2, 3}, heap)
<1>1. image' = image /\ pending' = pending /\ Instr.op = "RangeIndex"
  BY FetchKeeps DEF RangeIndex
<1>2. Instr.op \notin Special \union {"Dup"}
  BY <1>1 DEF Special, SpreadTakers, Calls
<1>3. Pops(Instr) = 3 /\ Pushes(Instr) = 1
  BY <1>1, PopsThree DEF Pushes
<1>4. Holds(3) /\ 3 <= Len(Top.stack)
  BY <1>2, <1>3, Supplied DEF Special
<1>5. Operands(3)[1] \in S /\ Operands(3)[2] \in S /\ Operands(3)[3] \in S
  BY <1>4, BelowFacts
<1>6. OutcomeOk(res, heap, S, ObjectsOf(image))
  BY <1>5, BasicValues, RangeOk
<1>7. Finish(3, TRUE, res) /\ vars' = vars /\ times' = times
  BY <1>4 DEF RangeIndex
<1> HIDE DEF res
<1> QED BY <1>1, <1>2, <1>3, <1>6, <1>7, FinishOk

LEMMA DupOk ==
    ASSUME NEW S, NEW C, NEW b, Ready(S, C, b), ~internal, Dup
    PROVE  StackInv'
<1> DEFINE v == Top.stack[Len(Top.stack)]
<1>1. image' = image /\ pending' = pending /\ Instr.op = "Dup"
  BY FetchKeeps DEF Dup
<1>2. Instr.op \notin Special
  BY <1>1 DEF Special, SpreadTakers, Calls
<1>3. Pops(Instr) = 0 /\ Pushes(Instr) = 1
  BY <1>1, PopsNone DEF Pushes
<1>4. Holds(1) /\ v \in S
  <2>1. 1 <= Shape.depth
    BY <1>1, TopFacts DEF Needs
  <2>2. Len(Top.stack) = Shape.depth
    BY <1>2, NoSpread DEF Special
  <2>3. Top.stack \in Seq(S)
    BY TopRecord
  <2> QED BY <2>1, <2>2, <2>3 DEF Holds
<1>5. Finish(0, TRUE, Ok(v)) /\ vars' = vars /\ times' = times
  BY <1>4 DEF Dup
<1> HIDE DEF v
<1>6. OutcomeOk(Ok(v), heap, S, ObjectsOf(image)) /\ Ok(v).kind = "ok"
  BY <1>4, OkInS
<1> QED BY <1>1, <1>2, <1>3, <1>5, <1>6, FinishOk

LEMMA PushClosureOk ==
    ASSUME NEW S, NEW C, NEW b, Ready(S, C, b), ~internal, PushClosure
    PROVE  StackInv'
<1> DEFINE n == Instr.n
           cell == ClosureCell(Top.obj, Instr.a, Operands(n), Top.prog)
           res == Alloc(cell)
<1>1. image' = image /\ pending' = pending /\ Instr.op = "PushClosure"
  BY FetchKeeps DEF PushClosure
<1>2. Instr.op \notin Special \union {"Dup"}
  BY <1>1 DEF Special, SpreadTakers, Calls
<1>3. Pops(Instr) = n /\ Pushes(Instr) = 1
  BY <1>1, PopsMany DEF Pushes
<1>4. Holds(n) /\ n <= Len(Top.stack) /\ n \in Nat
  BY <1>2, <1>3, Supplied DEF Special
<1>5. Operands(n) \in Seq(S) /\ Top.obj \in ObjectsOf(image)
  BY <1>4, BelowFacts, TopRecord
<1>6. OutcomeOk(res, heap, S, ObjectsOf(image))
  BY <1>5 DEF OutcomeOk, Alloc, ClosureCell, CellOk
<1>7. Finish(n, TRUE, res) /\ vars' = vars /\ times' = times
  BY <1>4 DEF PushClosure
<1> HIDE DEF res, n
<1> QED BY <1>1, <1>2, <1>3, <1>6, <1>7, FinishOk

-----------------------------------------------------------------------------
(* Stores and jumps *)

LEMMA RewriteOk ==
    ASSUME NEW S, NEW C, NEW b, Ready(S, C, b), ~internal,
           image' = image, pending' = pending, VarsOk(image, S, vars'),
           NEW g \in Frames(image, S), Follows(image, Top, g), Rewrite(TRUE, g),
           times' \in Seq(Nat \X Nat),
           Len(times') - Len(times) = TimersAfter(Shape, Instr) - Shape.timers
    PROVE  StackInv'
<1>1. ~internal' /\ frames' = WithTop(g) /\ exc' = exc /\ heap' = heap
  BY DEF Rewrite
<1>2. HeapOk(heap', S, C, ObjectsOf(image))
  BY <1>1, BasicValues
<1> QED BY <1>1, <1>2, MovesOn

\* Times are left alone by all but two instructions.
LEMMA TimesKept ==
    ASSUME NEW S, NEW C, NEW b, Ready(S, C, b), times' = times,
           Instr.op \notin {"TimeExpressionStart", "TimeExpressionEnd"}
    PROVE  /\ times' \in Seq(Nat \X Nat)
           /\ Len(times') - Len(times) = TimersAfter(Shape, Instr) - Shape.timers
<1>1. TimersAfter(Shape, Instr) = Shape.timers /\ Shape.timers \in Nat
  BY GoesOn, TopRecord
<1>2. times \in Seq(Nat \X Nat) /\ Len(times) \in Nat
  BY BasicValues
<1>3. Len(times') - Len(times) = 0
  BY <1>2
<1>4. TimersAfter(Shape, Instr) - Shape.timers = 0
  BY <1>1
<1> QED BY <1>2, <1>3, <1>4

\* Follows, for an instruction that takes nothing of a spread.
LEMMA TopFollows ==
    ASSUME NEW S, NEW C, NEW b, Ready(S, C, b),
           Instr.op # "ExpandVarargs", NEW g, g.prog = Top.prog, g.obj = Top.obj,
           g.ip \in Targets(Instr, Top.ip), g.catches = CatchesAfter(Shape, Instr),
           Len(g.locals) = Len(Top.locals), g.delta = 0,
           Len(g.stack) = Shape.depth - Pops(Instr) + Pushes(Instr)
    PROVE  Follows(image, Top, g)
<1>1. Instr = InstrAt(image, Top) /\ Shape = ShapeAt(image, Top) /\ Shape.depth \in Nat
      /\ Instr.n \in Nat
  BY TopFacts, TopRecord DEF Shape
<1>2. Pops(Instr) \in Nat /\ Pushes(Instr) \in Nat
  BY <1>1, PopsNat
<1> QED BY <1>1, <1>2, FollowsBy

\* The activation f with everything but its program and object replaced.
Changed(f, ip, s, ls, cs, d) ==
    [prog |-> f.prog, obj |-> f.obj, ip |-> ip, stack |-> s, locals |-> ls, catches |-> cs,
     delta |-> d]

LEMMA ChangedFields ==
    ASSUME NEW im, NEW T, NEW f, f \in Frames(im, T), NEW ip, ip \in Nat, NEW s, s \in Seq(T),
           NEW ls, ls \in Seq(T), NEW cs, cs \in Seq(CatchFrames), NEW d, d \in Int,
           NEW g, g = Changed(f, ip, s, ls, cs, d)
    PROVE  /\ g \in Frames(im, T) /\ g.prog = f.prog /\ g.obj = f.obj /\ g.ip = ip
           /\ g.stack = s /\ g.locals = ls /\ g.catches = cs /\ g.delta = d
  BY DEF Changed, Frames

LEMMA NextIp ==
    ASSUME NEW S, NEW C, NEW b, Ready(S, C, b)
    PROVE  /\ Top.ip + 1 \in Nat
           /\ Instr.op \notin {"Jump", "JumpIfFalse", "CallParent", "Return"}
                => Top.ip + 1 \in Targets(Instr, Top.ip)
<1>1. Top.ip \in Nat
  BY TopRecord
<1>2. Instr.op \notin {"Jump", "JumpIfFalse", "CallParent", "Return"}
        => Targets(Instr, Top.ip) = {Top.ip + 1}
  BY GoesOn
<1> QED BY <1>1, <1>2

LEMMA StoreLocalOk ==
    ASSUME NEW S, NEW C, NEW b, Ready(S, C, b), ~internal, StoreLocal
    PROVE  StackInv'
<1> DEFINE v == Top.stack[Len(Top.stack)]
           ls == [Top.locals EXCEPT ![Instr.a] = v]
           g == [Top EXCEPT !.ip = @ + 1, !.stack = Below(1), !.locals[Instr.a] = v]
<1>1. image' = image /\ pending' = pending /\ Instr.op = "StoreLocal"
  BY FetchKeeps DEF StoreLocal
<1>2. Pops(Instr) = 1 /\ Pushes(Instr) = 0
  BY <1>1, PopsOne DEF Pushes
<1>3. Instr.op \notin SpreadTakers \union {"ExpandVarargs", "Dup"}
  BY <1>1 DEF SpreadTakers, Calls
<1>4. Holds(1) /\ 1 <= Len(Top.stack) /\ Top.delta = 0 /\ Len(Top.stack) = Shape.depth
  BY <1>2, <1>3, Supplied, NoSpread
<1>5. Below(1) \in Seq(S) /\ Len(Below(1)) = Shape.depth - 1
  BY <1>4, BelowFacts
<1>6. v \in S
  BY <1>4, TopRecord
<1>7. Instr.a \in DOMAIN Top.locals
  <2>1. Instr.a \in 1 .. Shape.slots
    BY <1>1, TopFacts DEF NeedsMet
  <2> QED BY <2>1, TopRecord
<1>8. Rewrite(TRUE, g) /\ vars' = vars /\ times' = times
  BY <1>4, <1>7 DEF StoreLocal
<1> HIDE DEF v
<1>9. ls \in Seq(S) /\ Len(ls) = Len(Top.locals)
  BY <1>6, <1>7, TopRecord
<1>10. g = Changed(Top, Top.ip + 1, Below(1), ls, Top.catches, Top.delta)
  <2>1. g = [Top EXCEPT !.ip = @ + 1, !.stack = Below(1), !.locals = ls]
    OBVIOUS
  <2> HIDE DEF ls, g
  <2> QED BY <2>1, TopFacts DEF Changed, Frames
<1> HIDE DEF ls, g
<1>11. /\ g \in Frames(image, S) /\ g.prog = Top.prog /\ g.obj = Top.obj /\ g.ip = Top.ip + 1
       /\ g.stack = Below(1) /\ g.locals = ls /\ g.catches = Top.catches /\ g.delta = Top.delta
  <2>1. Top \in Frames(image, S) /\ Top.ip + 1 \in Nat /\ Top.catches \in Seq(CatchFrames)
        /\ Top.delta \in Int
    BY TopFacts, TopRecord, NextIp
  <2>2. Below(1) \in Seq(S) /\ ls \in Seq(S)
    BY <1>5, <1>9
  <2> QED BY <1>10, <2>1, <2>2, ChangedFields
<1>12. g.ip \in Targets(Instr, Top.ip) /\ g.catches = CatchesAfter(Shape, Instr)
  BY <1>1, <1>11, GoesOn, TopRecord
<1>13. Len(g.stack) = Shape.depth - Pops(Instr) + Pushes(Instr)
  BY <1>2, <1>5, <1>11, TopRecord
<1>14. Follows(image, Top, g)
  BY <1>1, <1>4, <1>9, <1>11, <1>12, <1>13, TopFollows
<1>15. VarsOk(image, S, vars')
  BY <1>8, BasicValues
<1>16. /\ times' \in Seq(Nat \X Nat)
       /\ Len(times') - Len(times) = TimersAfter(Shape, Instr) - Shape.timers
  BY <1>1, <1>8, TimesKept
<1> QED BY <1>1, <1>8, <1>11, <1>14, <1>15, <1>16, RewriteOk

\* The activation goes to ip with stack s, delta and catch frames as they are.
LEMMA GoesTo ==
    ASSUME NEW S, NEW C, NEW b, Ready(S, C, b), ~internal,
           image' = image, pending' = pending, VarsOk(image, S, vars'), times' = times,
           Instr.op \notin {"TimeExpressionStart", "TimeExpressionEnd", "PushCatchFrame",
                            "PopCatchFrame"} \union SpreadTakers \union {"ExpandVarargs"},
           NEW g, NEW ip \in Nat, NEW s \in Seq(S), g = At(Top, ip, s), Rewrite(TRUE, g),
           ip \in Targets(Instr, Top.ip),
           Len(s) = Shape.depth - Pops(Instr) + Pushes(Instr)
    PROVE  StackInv'
<1>1. /\ g \in Frames(image, S) /\ g.prog = Top.prog /\ g.obj = Top.obj /\ g.ip = ip
      /\ g.stack = s /\ g.locals = Top.locals /\ g.catches = Top.catches
      /\ g.delta = Top.delta
  BY TopFacts, AtFields
<1>2. g.catches = CatchesAfter(Shape, Instr) /\ g.delta = 0
  BY <1>1, GoesOn, TopRecord, NoSpread
<1>3. Follows(image, Top, g)
  BY <1>1, <1>2, TopFollows
<1>4. /\ times' \in Seq(Nat \X Nat)
      /\ Len(times') - Len(times) = TimersAfter(Shape, Instr) - Shape.timers
  BY TimesKept
<1> QED BY <1>1, <1>3, <1>4, RewriteOk

LEMMA StoreObjectVarOk ==
    ASSUME NEW S, NEW C, NEW b, Ready(S, C, b), ~internal, StoreObjectVar
    PROVE  StackInv'
<1> DEFINE v == Top.stack[Len(Top.stack)]
           slot == ObjectVarBase(Top) + Instr.a
           g == [Top EXCEPT !.ip = @ + 1, !.stack = Below(1)]
<1>1. image' = image /\ pending' = pending /\ Instr.op = "StoreObjectVar"
  BY FetchKeeps DEF StoreObjectVar
<1>2. Pops(Instr) = 1 /\ Pushes(Instr) = 0
  BY <1>1, PopsOne DEF Pushes
<1>3. Instr.op \notin SpreadTakers \union {"ExpandVarargs", "Dup"}
  BY <1>1 DEF SpreadTakers, Calls
<1>4. Holds(1) /\ 1 <= Len(Top.stack) /\ Len(Top.stack) = Shape.depth
  BY <1>2, <1>3, Supplied, NoSpread
<1>5. Below(1) \in Seq(S) /\ Len(Below(1)) = Shape.depth - 1
  BY <1>4, BelowFacts
<1>6. v \in S
  BY <1>4, TopRecord
<1>7. slot \in DOMAIN vars[Top.obj] /\ vars[Top.obj] \in [DOMAIN vars[Top.obj] -> S]
      /\ Top.obj \in DOMAIN vars
  BY <1>1, SlotThere
<1>8. Rewrite(TRUE, g) /\ times' = times /\ vars' = [vars EXCEPT ![Top.obj][slot] = v]
  BY <1>4, <1>7 DEF StoreObjectVar
<1> HIDE DEF v, slot
<1>9. VarsOk(image, S, vars')
  <2>1. VarsOk(image, S, vars)
    BY BasicValues
  <2>2. DOMAIN vars' = DOMAIN vars
    BY <1>8
  <2>3. ASSUME NEW o \in ObjectsOf(image)
        PROVE  vars'[o] \in [DOMAIN image.programs[Main(image, o)].names -> S]
    <3>1. vars[o] \in [DOMAIN image.programs[Main(image, o)].names -> S] /\ o \in DOMAIN vars
      BY <2>1 DEF VarsOk, ObjectsOf
    <3>2. CASE o = Top.obj
      <4>1. vars'[o] = [vars[o] EXCEPT ![slot] = v]
        BY <1>8, <3>1, <3>2
      <4> QED BY <1>6, <3>1, <4>1
    <3>3. CASE o # Top.obj
      <4>1. vars'[o] = vars[o]
        BY <1>8, <3>1, <3>3
      <4> QED BY <3>1, <4>1
    <3> QED BY <3>2, <3>3
  <2> QED BY <2>1, <2>2, <2>3 DEF VarsOk
<1>10. g = At(Top, Top.ip + 1, Below(1))
  BY DEF At
<1> HIDE DEF g
<1>11. Top.ip + 1 \in Nat /\ Top.ip + 1 \in Targets(Instr, Top.ip)
  BY <1>1, NextIp
<1>12. Len(Below(1)) = Shape.depth - Pops(Instr) + Pushes(Instr)
  BY <1>2, <1>5, TopRecord
<1>13. Instr.op \notin {"TimeExpressionStart", "TimeExpressionEnd", "PushCatchFrame",
                        "PopCatchFrame"} \union SpreadTakers \union {"ExpandVarargs"}
  BY <1>1, <1>3
<1> QED BY <1>1, <1>5, <1>8, <1>9, <1>10, <1>11, <1>12, <1>13, GoesTo

LEMMA PopOk ==
    ASSUME NEW S, NEW C, NEW b, Ready(S, C, b), ~internal, Pop
    PROVE  StackInv'
<1> DEFINE g == [Top EXCEPT !.ip = @ + 1, !.stack = Below(1)]
<1>1. image' = image /\ pending' = pending /\ Instr.op = "Pop"
  BY FetchKeeps DEF Pop
<1>2. Pops(Instr) = 1 /\ Pushes(Instr) = 0
  BY <1>1, PopsOne DEF Pushes
<1>3. Instr.op \notin SpreadTakers \union {"ExpandVarargs", "Dup"}
  BY <1>1 DEF SpreadTakers, Calls
<1>4. Holds(1) /\ 1 <= Len(Top.stack) /\ Len(Top.stack) = Shape.depth
  BY <1>2, <1>3, Supplied, NoSpread
<1>5. Below(1) \in Seq(S) /\ Len(Below(1)) = Shape.depth - 1
  BY <1>4, BelowFacts
<1>6. Rewrite(TRUE, g) /\ times' = times /\ vars' = vars
  BY <1>4 DEF Pop
<1>7. VarsOk(image, S, vars')
  BY <1>6, BasicValues
<1>8. g = At(Top, Top.ip + 1, Below(1))
  BY DEF At
<1> HIDE DEF g
<1>9. Top.ip + 1 \in Nat /\ Top.ip + 1 \in Targets(Instr, Top.ip)
  BY <1>1, NextIp
<1>10. Len(Below(1)) = Shape.depth - Pops(Instr) + Pushes(Instr)
  BY <1>2, <1>5, TopRecord
<1>11. Instr.op \notin {"TimeExpressionStart", "TimeExpressionEnd", "PushCatchFrame",
                        "PopCatchFrame"} \union SpreadTakers \union {"ExpandVarargs"}
  BY <1>1, <1>3
<1> QED BY <1>1, <1>5, <1>6, <1>7, <1>8, <1>9, <1>10, <1>11, GoesTo

\* Where an instruction goes is a position of its program's code.
LEMMA TargetInCode ==
    ASSUME NEW S, NEW C, NEW b, Ready(S, C, b), NEW t \in Targets(Instr, Top.ip)
    PROVE  /\ t \in DOMAIN MapsOf(image)[Top.prog]
           /\ InCode(t) /\ t \in Nat
<1>1. Verified(image) /\ Top.obj \in ObjectsOf(image) /\ Placed(image, Top)
      /\ Instr = InstrAt(image, Top)
  BY TopFacts DEF Ready
<1>2. FitsAt(image.programs[Top.prog].code, MapsOf(image)[Top.prog], Top.ip)
  BY <1>1, AtInstruction
<1>3. t \in DOMAIN MapsOf(image)[Top.prog]
  BY <1>1, <1>2 DEF FitsAt, Expects, InstrAt
<1>4. t \in DOMAIN Code /\ Code \in Seq(Range(Code))
  <2>1. ProgramFits(image.programs, Top.prog, MapsOf(image)[Top.prog])
    BY <1>1, VerifiedFits, AtInstruction DEF Fits
  <2> QED BY <1>3, <2>1 DEF ProgramFits, FitsAt, Code, Programs
<1>5. t \in 1 .. Len(Code) /\ Len(Code) \in Nat
  BY <1>4
<1> QED BY <1>3, <1>5 DEF InCode

LEMMA JumpOk ==
    ASSUME NEW S, NEW C, NEW b, Ready(S, C, b), ~internal, Jump
    PROVE  StackInv'
<1> DEFINE g == [Top EXCEPT !.ip = Instr.a]
<1>1. image' = image /\ pending' = pending /\ Instr.op = "Jump"
  BY FetchKeeps DEF Jump
<1>2. Pops(Instr) = 0 /\ Pushes(Instr) = 0
  BY <1>1, PopsNone DEF Pushes
<1>3. Instr.op \notin SpreadTakers \union {"ExpandVarargs", "Dup"}
  BY <1>1 DEF SpreadTakers, Calls
<1>4. Targets(Instr, Top.ip) = {Instr.a}
  BY <1>1, Zenon DEF Targets
<1>5. InCode(Instr.a) /\ Instr.a \in Nat
  BY <1>4, TargetInCode
<1>6. Rewrite(TRUE, g) /\ times' = times /\ vars' = vars
  BY <1>5 DEF Jump
<1>7. VarsOk(image, S, vars')
  BY <1>6, BasicValues
<1>8. g = At(Top, Instr.a, Top.stack)
  BY TopFacts DEF At, Frames
<1> HIDE DEF g
<1>9. Len(Top.stack) = Shape.depth - Pops(Instr) + Pushes(Instr) /\ Top.stack \in Seq(S)
  BY <1>2, <1>3, NoSpread, TopRecord
<1>10. Instr.op \notin {"TimeExpressionStart", "TimeExpressionEnd", "PushCatchFrame",
                        "PopCatchFrame"} \union SpreadTakers \union {"ExpandVarargs"}
  BY <1>1, <1>3
<1> QED BY <1>1, <1>4, <1>5, <1>6, <1>7, <1>8, <1>9, <1>10, GoesTo

LEMMA JumpIfFalseOk ==
    ASSUME NEW S, NEW C, NEW b, Ready(S, C, b), ~internal, JumpIfFalse
    PROVE  StackInv'
<1> DEFINE taken == ~isTruthy(Operands(1)[1])
           ip == IF taken THEN Instr.a ELSE Top.ip + 1
           g == [Top EXCEPT !.stack = Below(1), !.ip = IF taken THEN Instr.a ELSE @ + 1]
<1>1. image' = image /\ pending' = pending /\ Instr.op = "JumpIfFalse"
  BY FetchKeeps DEF JumpIfFalse
<1>2. Pops(Instr) = 1 /\ Pushes(Instr) = 0
  BY <1>1, PopsOne DEF Pushes
<1>3. Instr.op \notin SpreadTakers \union {"ExpandVarargs", "Dup"}
  BY <1>1 DEF SpreadTakers, Calls
<1>4. Holds(1) /\ 1 <= Len(Top.stack) /\ Len(Top.stack) = Shape.depth
  BY <1>2, <1>3, Supplied, NoSpread
<1>5. Below(1) \in Seq(S) /\ Len(Below(1)) = Shape.depth - 1
  BY <1>4, BelowFacts
<1>6. Targets(Instr, Top.ip) = {Instr.a, Top.ip + 1}
  BY <1>1, Zenon DEF Targets
<1>7. InCode(Instr.a) /\ Instr.a \in Nat /\ Top.ip + 1 \in Nat
  BY <1>6, TargetInCode, TopRecord
<1>8. Rewrite(TRUE, g) /\ times' = times /\ vars' = vars
  BY <1>4, <1>7 DEF JumpIfFalse
<1>9. VarsOk(image, S, vars')
  BY <1>8, BasicValues
<1>10. g = At(Top, ip, Below(1))
  BY TopFacts DEF At, Frames
<1>11. ip \in Nat /\ ip \in Targets(Instr, Top.ip)
  <2> HIDE DEF taken
  <2> QED BY <1>6, <1>7
<1> HIDE DEF g, ip
<1>12. Len(Below(1)) = Shape.depth - Pops(Instr) + Pushes(Instr)
  BY <1>2, <1>5, TopRecord
<1>13. Instr.op \notin {"TimeExpressionStart", "TimeExpressionEnd", "PushCatchFrame",
                        "PopCatchFrame"} \union SpreadTakers \union {"ExpandVarargs"}
  BY <1>1, <1>3
<1> QED BY <1>1, <1>5, <1>8, <1>9, <1>10, <1>11, <1>12, <1>13, GoesTo

-----------------------------------------------------------------------------
(* catch() and time_expression *)

\* Values for the fields of an activation.
Parts(T, ip, s, ls, cs, d) ==
    /\ ip \in Nat /\ s \in Seq(T) /\ ls \in Seq(T) /\ cs \in Seq(CatchFrames) /\ d \in Int

LEMMA ChangedParts ==
    ASSUME NEW im, NEW T, NEW f, f \in Frames(im, T), NEW ip, NEW s, NEW ls, NEW cs, NEW d,
           Parts(T, ip, s, ls, cs, d), NEW g, g = Changed(f, ip, s, ls, cs, d)
    PROVE  /\ g \in Frames(im, T) /\ g.prog = f.prog /\ g.obj = f.obj /\ g.ip = ip
           /\ g.stack = s /\ g.locals = ls /\ g.catches = cs /\ g.delta = d
  BY DEF Changed, Frames, Parts

\* The activation goes on as `Changed` says.
LEMMA Continues ==
    ASSUME NEW S, NEW C, NEW b, Ready(S, C, b), ~internal',
           image' = image, pending' = pending, exc' = exc,
           NEW T, S \subseteq T, NEW D, HeapOk(heap', T, D, ObjectsOf(image)),
           VarsOk(image, T, vars'), NEW g, g \in Frames(image, T), frames' = WithTop(g),
           g.prog = Top.prog, g.obj = Top.obj,
           Instr.op # "ExpandVarargs", g.ip \in Targets(Instr, Top.ip),
           g.catches = CatchesAfter(Shape, Instr), Len(g.locals) = Len(Top.locals), g.delta = 0,
           Len(g.stack) = Shape.depth - Pops(Instr) + Pushes(Instr),
           times' \in Seq(Nat \X Nat),
           Len(times') - Len(times) = TimersAfter(Shape, Instr) - Shape.timers
    PROVE  StackInv'
<1>1. Follows(image, Top, g)
  BY TopFollows
<1> QED BY <1>1, MovesOn

\* The end of a catch() is a position of its program's code.
LEMMA ResumeInCode ==
    ASSUME NEW S, NEW C, NEW b, Ready(S, C, b), Instr.op = "PushCatchFrame"
    PROVE  InCode(Instr.a) /\ Instr.a \in Nat
<1> DEFINE map == MapsOf(image)[Top.prog]
           code == image.programs[Top.prog].code
           j == Top.ip + 1
           c == [resumeIp |-> Instr.a, stackDepth |-> Shape.depth]
<1>1. Verified(image) /\ Top.obj \in ObjectsOf(image) /\ Placed(image, Top)
      /\ Instr = InstrAt(image, Top)
  BY TopFacts DEF Ready
<1>2. FitsAt(code, map, Top.ip) /\ Top.prog \in DOMAIN image.programs
  BY <1>1, AtInstruction
<1>3. j \in Targets(Instr, Top.ip)
  BY NextIp
<1>4. Instr = code[Top.ip] /\ Shape = map[Top.ip]
  BY DEF Instr, Code, Programs, Shape, ShapeAt
<1>5. Expects(map, j, After(Shape, Instr))
  BY <1>2, <1>3, <1>4 DEF FitsAt
<1>6. CatchesAfter(Shape, Instr) = Append(Shape.catches, c)
  BY Zenon DEF CatchesAfter
<1>7. j \in DOMAIN map /\ map[j].catches = Append(Shape.catches, c)
  BY <1>5, <1>6 DEF Expects, After
<1>8. ProgramFits(image.programs, Top.prog, map)
  BY <1>1, <1>2, VerifiedFits DEF Fits
<1> HIDE DEF map, code, j
<1>9. FitsAt(code, map, j) /\ map[j] \in Shapes
  BY <1>7, <1>8 DEF ProgramFits, code, FitsAt
<1>10. map[j].catches \in Seq(CatchFrames)
  BY <1>9, ShapeFields
<1> DEFINE cs == Append(Shape.catches, c)
<1>11. Shape.catches \in Seq(CatchFrames) /\ cs \in Seq(CatchFrames)
  BY <1>7, <1>10, TopRecord
<1>12. cs # <<>> /\ cs[Len(cs)] = c
  <2>1. Shape.catches \in Seq(CatchFrames \union {c}) /\ c \in CatchFrames \union {c}
    BY <1>11, SeqWider
  <2> HIDE DEF c
  <2>2. Len(cs) = Len(Shape.catches) + 1 /\ cs[Len(Shape.catches) + 1] = c /\ cs # <<>>
    BY <2>1, AppendFacts
  <2> QED BY <2>2
<1> HIDE DEF cs, c
<1>13. Last(cs) = c
  BY <1>12 DEF Last
<1>14. map[j].catches = cs
  BY <1>7 DEF cs
<1>15. Expects(map, Last(map[j].catches).resumeIp, Resumed(map[j]))
  BY <1>9, <1>12, <1>14 DEF FitsAt
<1>16. Last(map[j].catches).resumeIp = Instr.a
  BY <1>13, <1>14 DEF c
<1>17. Instr.a \in DOMAIN map
  BY <1>15, <1>16 DEF Expects
<1>18. Instr.a \in DOMAIN code /\ code \in Seq(Range(code))
  BY <1>8, <1>17 DEF ProgramFits, FitsAt, code
<1>19. Instr.a \in 1 .. Len(code) /\ Len(code) \in Nat
  BY <1>18
<1>20. code = Code
  BY DEF code, Code, Programs
<1> QED BY <1>19, <1>20 DEF InCode

LEMMA PushCatchFrameOk ==
    ASSUME NEW S, NEW C, NEW b, Ready(S, C, b), ~internal, PushCatchFrame
    PROVE  StackInv'
<1> DEFINE c == [resumeIp |-> Instr.a, stackDepth |-> Len(Top.stack)]
           cs == Append(Top.catches, c)
           g == [Top EXCEPT !.ip = @ + 1, !.catches = Append(@, c)]
           ip == Top.ip + 1
<1>1. image' = image /\ pending' = pending /\ Instr.op = "PushCatchFrame"
  BY FetchKeeps DEF PushCatchFrame
<1>2. Pops(Instr) = 0 /\ Pushes(Instr) = 0
  BY <1>1, PopsNone DEF Pushes
<1>3. Instr.op \notin SpreadTakers \union {"ExpandVarargs", "Dup"}
  BY <1>1 DEF SpreadTakers, Calls
<1>4. InCode(Instr.a) /\ Instr.a \in Nat
  BY <1>1, ResumeInCode
<1>5. Rewrite(TRUE, g) /\ vars' = vars /\ times' = times
  BY <1>4 DEF PushCatchFrame
<1>6. frames' = WithTop(g) /\ exc' = exc /\ heap' = heap /\ ~internal'
  BY <1>5 DEF Rewrite
<1>7. Top.delta = 0 /\ Len(Top.stack) = Shape.depth /\ Shape.depth \in Nat
      /\ Top.catches = Shape.catches /\ Top.catches \in Seq(CatchFrames)
      /\ Top.stack \in Seq(S) /\ Top.locals \in Seq(S)
  BY <1>3, NoSpread, TopRecord
<1>8. c \in CatchFrames
  BY <1>4, <1>7 DEF CatchFrames
<1>9. cs = CatchesAfter(Shape, Instr)
  <2>1. c = [resumeIp |-> Instr.a, stackDepth |-> Shape.depth]
    BY <1>7
  <2>2. CatchesAfter(Shape, Instr)
          = Append(Shape.catches, [resumeIp |-> Instr.a, stackDepth |-> Shape.depth])
    BY <1>1, Zenon DEF CatchesAfter
  <2> QED BY <1>7, <2>1, <2>2
<1> HIDE DEF c
<1>10. cs \in Seq(CatchFrames)
  BY <1>7, <1>8, AppendFacts
<1>11. g = Changed(Top, ip, Top.stack, Top.locals, cs, Top.delta)
  <2>1. g = [Top EXCEPT !.ip = ip, !.catches = cs]
    OBVIOUS
  <2> HIDE DEF g, cs, ip
  <2>2. Top \in Frames(image, S)
    BY TopFacts
  <2> QED BY <1>7, <2>1, <2>2 DEF Changed, Frames
<1>12. ip \in Nat /\ ip \in Targets(Instr, Top.ip)
  BY <1>1, NextIp
<1>13. /\ times' \in Seq(Nat \X Nat)
       /\ Len(times') - Len(times) = TimersAfter(Shape, Instr) - Shape.timers
  BY <1>1, <1>5, TimesKept
<1>14. VarsOk(image, S, vars') /\ HeapOk(heap', S, C, ObjectsOf(image))
  BY <1>5, <1>6, BasicValues
<1>15. Len(Top.stack) = Shape.depth - Pops(Instr) + Pushes(Instr)
  BY <1>2, <1>7
<1> HIDE DEF g, cs, ip
<1>16. /\ g \in Frames(image, S) /\ g.prog = Top.prog /\ g.obj = Top.obj /\ g.ip = ip
       /\ g.stack = Top.stack /\ g.locals = Top.locals /\ g.catches = cs /\ g.delta = Top.delta
  <2>1. Top \in Frames(image, S) /\ Top.delta \in Int
    BY TopFacts, TopRecord
  <2>2. Top.stack \in Seq(S) /\ Top.locals \in Seq(S) /\ cs \in Seq(CatchFrames) /\ ip \in Nat
    BY <1>4, <1>7, <1>9, <1>10, <1>12
  <2>3. Parts(S, ip, Top.stack, Top.locals, cs, Top.delta)
    BY <2>1, <2>2 DEF Parts
  <2> QED BY <1>11, <2>1, <2>3, ChangedParts
<1> QED BY <1>1, <1>3, <1>6, <1>7, <1>9, <1>10, <1>12, <1>13, <1>14, <1>15, <1>16, Continues

LEMMA PopCatchFrameOk ==
    ASSUME NEW S, NEW C, NEW b, Ready(S, C, b), ~internal, PopCatchFrame
    PROVE  StackInv'
<1> DEFINE s == Append(Top.stack, Num(0))
           cs == Front(Top.catches)
           g == [Top EXCEPT !.ip = @ + 1, !.catches = Front(@), !.stack = Append(@, Num(0))]
           ip == Top.ip + 1
<1>1. image' = image /\ pending' = pending /\ Instr.op = "PopCatchFrame"
  BY FetchKeeps DEF PopCatchFrame
<1>2. Pops(Instr) = 0 /\ Pushes(Instr) = 1
  BY <1>1, PopsNone DEF Pushes
<1>3. Instr.op \notin SpreadTakers \union {"ExpandVarargs", "Dup"}
  BY <1>1 DEF SpreadTakers, Calls
<1>4. Top.delta = 0 /\ Len(Top.stack) = Shape.depth /\ Shape.depth \in Nat
      /\ Top.catches = Shape.catches /\ Top.catches \in Seq(CatchFrames)
      /\ Top.stack \in Seq(S) /\ Top.locals \in Seq(S)
  BY <1>3, NoSpread, TopRecord
<1>5. Top.catches # <<>>
  BY <1>1, <1>4, TopFacts DEF NeedsMet
<1>6. Rewrite(TRUE, g) /\ vars' = vars /\ times' = times
  BY <1>5 DEF PopCatchFrame
<1>7. frames' = WithTop(g) /\ exc' = exc /\ heap' = heap /\ ~internal'
  BY <1>6 DEF Rewrite
<1>8. cs = CatchesAfter(Shape, Instr)
  <2>1. CatchesAfter(Shape, Instr) = Front(Shape.catches)
    BY <1>1, Zenon DEF CatchesAfter
  <2> QED BY <1>4, <2>1
<1>9. cs \in Seq(CatchFrames)
  BY <1>4, <1>5, FrontProperties
<1>10. s \in Seq(S) /\ Len(s) = Shape.depth + 1
  <2>1. Num(0) \in S
    BY BasicValues
  <2> QED BY <1>4, <2>1, AppendFacts
<1>11. g = Changed(Top, ip, s, Top.locals, cs, Top.delta)
  <2>1. g = [Top EXCEPT !.ip = ip, !.catches = cs, !.stack = s]
    OBVIOUS
  <2> HIDE DEF g, cs, ip, s
  <2>2. Top \in Frames(image, S)
    BY TopFacts
  <2> QED BY <1>4, <2>1, <2>2 DEF Changed, Frames
<1>12. ip \in Nat /\ ip \in Targets(Instr, Top.ip)
  BY <1>1, NextIp
<1>13. /\ times' \in Seq(Nat \X Nat)
       /\ Len(times') - Len(times) = TimersAfter(Shape, Instr) - Shape.timers
  BY <1>1, <1>6, TimesKept
<1>14. VarsOk(image, S, vars') /\ HeapOk(heap', S, C, ObjectsOf(image))
  BY <1>6, <1>7, BasicValues
<1>15. Len(s) = Shape.depth - Pops(Instr) + Pushes(Instr)
  BY <1>2, <1>4, <1>10
<1> HIDE DEF g, cs, ip, s
<1>16. /\ g \in Frames(image, S) /\ g.prog = Top.prog /\ g.obj = Top.obj /\ g.ip = ip
       /\ g.stack = s /\ g.locals = Top.locals /\ g.catches = cs /\ g.delta = Top.delta
  <2>1. Top \in Frames(image, S) /\ Top.delta \in Int
    BY TopFacts, TopRecord
  <2>2. s \in Seq(S) /\ Top.locals \in Seq(S) /\ cs \in Seq(CatchFrames) /\ ip \in Nat
    BY <1>4, <1>7, <1>9, <1>10, <1>12
  <2>3. Parts(S, ip, s, Top.locals, cs, Top.delta)
    BY <2>1, <2>2 DEF Parts
  <2> QED BY <1>11, <2>1, <2>3, ChangedParts
<1> QED BY <1>1, <1>3, <1>4, <1>7, <1>8, <1>9, <1>10, <1>12, <1>13, <1>14, <1>15, <1>16, Continues

LEMMA TimeExpressionStartOk ==
    ASSUME NEW S, NEW C, NEW b, Ready(S, C, b), ~internal, TimeExpressionStart
    PROVE  StackInv'
<1> DEFINE g == [Top EXCEPT !.ip = @ + 1]
           ip == Top.ip + 1
           t == <<Len(frames), Top.ip>>
<1>1. image' = image /\ pending' = pending /\ Instr.op = "TimeExpressionStart"
  BY FetchKeeps DEF TimeExpressionStart
<1>2. Pops(Instr) = 0 /\ Pushes(Instr) = 0
  BY <1>1, PopsNone DEF Pushes
<1>3. Instr.op \notin SpreadTakers \union {"ExpandVarargs", "Dup"}
  BY <1>1 DEF SpreadTakers, Calls
<1>4. Top.delta = 0 /\ Len(Top.stack) = Shape.depth /\ Shape.depth \in Nat
      /\ Top.catches = Shape.catches /\ Top.catches \in Seq(CatchFrames)
      /\ Top.stack \in Seq(S) /\ Top.locals \in Seq(S) /\ Top.ip \in Nat
  BY <1>3, NoSpread, TopRecord
<1>6. Rewrite(TRUE, g) /\ vars' = vars /\ times' = Append(times, t)
  BY DEF TimeExpressionStart
<1>7. frames' = WithTop(g) /\ exc' = exc /\ heap' = heap /\ ~internal'
  BY <1>6 DEF Rewrite
<1>8. Top.catches = CatchesAfter(Shape, Instr)
  BY <1>1, <1>4, GoesOn
<1>9. t \in Nat \X Nat
  <2>1. FramesOk(image, S, frames, NoExc) /\ frames # <<>>
    BY DEF Ready, RunOk
  <2>2. Len(frames) \in Nat
    BY <2>1, TopTyped
  <2> QED BY <1>4, <2>2
<1> HIDE DEF t
<1>10. times' \in Seq(Nat \X Nat) /\ Len(times') = Len(times) + 1 /\ Len(times) \in Nat
  <2> DEFINE P == Nat \X Nat
  <2>1. times \in Seq(P) /\ t \in P
    BY <1>9, BasicValues
  <2> HIDE DEF P
  <2>2. Append(times, t) \in Seq(P) /\ Len(Append(times, t)) = Len(times) + 1
        /\ Len(times) \in Nat
    BY <2>1, AppendFacts
  <2> QED BY <1>6, <2>2 DEF P
<1>11. g = Changed(Top, ip, Top.stack, Top.locals, Top.catches, Top.delta)
  BY <1>4, TopFacts DEF Changed, Frames
<1>12. ip \in Nat /\ ip \in Targets(Instr, Top.ip)
  BY <1>1, NextIp
<1>13. Len(times') - Len(times) = TimersAfter(Shape, Instr) - Shape.timers
  <2>1. TimersAfter(Shape, Instr) = Shape.timers + 1
    BY <1>1, Zenon DEF TimersAfter
  <2>2. Shape.timers \in Nat
    BY TopRecord
  <2> QED BY <1>10, <2>1, <2>2
<1>14. VarsOk(image, S, vars') /\ HeapOk(heap', S, C, ObjectsOf(image))
  BY <1>6, <1>7, BasicValues
<1>15. Len(Top.stack) = Shape.depth - Pops(Instr) + Pushes(Instr)
  BY <1>2, <1>4
<1> HIDE DEF g, ip
<1>16. /\ g \in Frames(image, S) /\ g.prog = Top.prog /\ g.obj = Top.obj /\ g.ip = ip
       /\ g.stack = Top.stack /\ g.locals = Top.locals /\ g.catches = Top.catches /\ g.delta = Top.delta
  <2>1. Top \in Frames(image, S) /\ Top.delta \in Int
    BY TopFacts, TopRecord
  <2>2. Top.stack \in Seq(S) /\ Top.locals \in Seq(S) /\ Top.catches \in Seq(CatchFrames) /\ ip \in Nat
    BY <1>4, <1>7, <1>9, <1>10, <1>12
  <2>3. Parts(S, ip, Top.stack, Top.locals, Top.catches, Top.delta)
    BY <2>1, <2>2 DEF Parts
  <2> QED BY <1>11, <2>1, <2>3, ChangedParts
<1> QED BY <1>1, <1>3, <1>4, <1>7, <1>8, <1>10, <1>12, <1>13, <1>14, <1>15, <1>16, Continues

LEMMA TimeExpressionEndOk ==
    ASSUME NEW S, NEW C, NEW b, Ready(S, C, b), ~internal, TimeExpressionEnd
    PROVE  StackInv'
<1> DEFINE s == Append(Below(0), Num(0))
           g == [Top EXCEPT !.ip = @ + 1, !.stack = s]
           ip == Top.ip + 1
<1>1. image' = image /\ pending' = pending /\ Instr.op = "TimeExpressionEnd"
  BY FetchKeeps DEF TimeExpressionEnd
<1>2. Pops(Instr) = 0 /\ Pushes(Instr) = 1
  BY <1>1, PopsNone DEF Pushes
<1>3. Instr.op \notin SpreadTakers \union {"ExpandVarargs", "Dup"}
  BY <1>1 DEF SpreadTakers, Calls
<1>4. Top.delta = 0 /\ Len(Top.stack) = Shape.depth /\ Shape.depth \in Nat
      /\ Top.catches = Shape.catches /\ Top.catches \in Seq(CatchFrames)
      /\ Top.stack \in Seq(S) /\ Top.locals \in Seq(S)
  BY <1>3, NoSpread, TopRecord
<1>5. times # <<>>
  <2>1. TimersOk(image, frames, b, Len(times)) /\ FramesOk(image, S, frames, NoExc)
        /\ frames # <<>>
    BY DEF Ready, RunOk
  <2>2. Len(frames) \in Nat \ {0}
    BY <2>1, TopTyped
  <2>3. b[Len(frames)] + Shape.timers <= Len(times) /\ b \in Seq(Nat) /\ Len(b) = Len(frames)
    BY <2>1, <2>2 DEF TimersOk, Shape, Top
  <2>4. b[Len(frames)] \in Nat
    BY <2>2, <2>3
  <2>5. Shape.timers > 0 /\ Shape.timers \in Nat
    BY <1>1, TopFacts, TopRecord DEF NeedsMet
  <2>6. Len(times) # 0
    BY <2>3, <2>4, <2>5
  <2> QED BY <2>6
<1>6. Finish(0, TRUE, Ok(Num(0))) /\ vars' = vars /\ times' = Front(times)
  BY <1>5 DEF TimeExpressionEnd
<1>7. frames' = WithTop(g) /\ exc' = exc /\ heap' = heap /\ ~internal'
  <2>1. Ok(Num(0)).kind = "ok" /\ Ok(Num(0)).value = Num(0)
    BY DEF Ok
  <2> QED BY <1>6, <2>1 DEF Finish
<1>8. Top.catches = CatchesAfter(Shape, Instr)
  BY <1>1, <1>4, GoesOn
<1>9. times' \in Seq(Nat \X Nat) /\ Len(times') = Len(times) - 1 /\ Len(times) \in Nat
  <2> DEFINE P == Nat \X Nat
  <2>1. times \in Seq(P) /\ Len(times) \in Nat
    BY BasicValues
  <2> HIDE DEF P
  <2>2. Front(times) \in Seq(P) /\ Len(Front(times)) = Len(times) - 1
    BY <1>5, <2>1, FrontProperties
  <2> QED BY <1>6, <2>1, <2>2 DEF P
<1>10. s \in Seq(S) /\ Len(s) = Shape.depth + 1
  <2>1. Num(0) \in S
    BY BasicValues
  <2>2. Below(0) \in Seq(S) /\ Len(Below(0)) = Shape.depth
    <3>1. 0 \in Nat /\ 0 <= Len(Top.stack)
      BY <1>4
    <3>2. Below(0) \in Seq(S) /\ Len(Below(0)) = Len(Top.stack) - 0
      BY <3>1, BelowFacts
    <3> QED BY <1>4, <3>2
  <2> QED BY <1>4, <2>1, <2>2, AppendFacts
<1> HIDE DEF s
<1>11. g = Changed(Top, ip, s, Top.locals, Top.catches, Top.delta)
  <2>1. g = [Top EXCEPT !.ip = ip, !.stack = s]
    OBVIOUS
  <2> HIDE DEF g, ip
  <2>2. Top \in Frames(image, S)
    BY TopFacts
  <2> QED BY <1>4, <2>1, <2>2 DEF Changed, Frames
<1>12. ip \in Nat /\ ip \in Targets(Instr, Top.ip)
  BY <1>1, NextIp
<1>13. Len(times') - Len(times) = TimersAfter(Shape, Instr) - Shape.timers
  <2>1. TimersAfter(Shape, Instr) = Shape.timers - 1
    BY <1>1, Zenon DEF TimersAfter
  <2>2. Shape.timers \in Nat
    BY TopRecord
  <2> QED BY <1>9, <2>1, <2>2
<1>14. VarsOk(image, S, vars') /\ HeapOk(heap', S, C, ObjectsOf(image))
  BY <1>6, <1>7, BasicValues
<1>15. Len(s) = Shape.depth - Pops(Instr) + Pushes(Instr)
  BY <1>2, <1>4, <1>10
<1> HIDE DEF g, ip
<1>16. /\ g \in Frames(image, S) /\ g.prog = Top.prog /\ g.obj = Top.obj /\ g.ip = ip
       /\ g.stack = s /\ g.locals = Top.locals /\ g.catches = Top.catches /\ g.delta = Top.delta
  <2>1. Top \in Frames(image, S) /\ Top.delta \in Int
    BY TopFacts, TopRecord
  <2>2. s \in Seq(S) /\ Top.locals \in Seq(S) /\ Top.catches \in Seq(CatchFrames) /\ ip \in Nat
    BY <1>4, <1>7, <1>9, <1>10, <1>12
  <2>3. Parts(S, ip, s, Top.locals, Top.catches, Top.delta)
    BY <2>1, <2>2 DEF Parts
  <2> QED BY <1>11, <2>1, <2>3, ChangedParts
<1> QED BY <1>1, <1>3, <1>4, <1>7, <1>8, <1>9, <1>10, <1>12, <1>13, <1>14, <1>15, <1>16, Continues

-----------------------------------------------------------------------------
(* Arrays, mappings and spread arguments *)

LEMMA IndexAssignStepOk ==
    ASSUME NEW S, NEW C, NEW b, Ready(S, C, b), ~internal, IndexAssign
    PROVE  StackInv'
<1> DEFINE target == Operands(3)[1]
           res == IndexAssignResult(target, Operands(3)[2], Operands(3)[3], heap)
           s == Below(3)
           g == [Top EXCEPT !.ip = @ + 1, !.stack = s]
           ip == Top.ip + 1
<1>1. image' = image /\ pending' = pending /\ Instr.op = "IndexAssign"
  BY FetchKeeps DEF IndexAssign
<1>2. Pops(Instr) = 3 /\ Pushes(Instr) = 0
  BY <1>1, PopsThree DEF Pushes
<1>3. Instr.op \notin SpreadTakers \union {"ExpandVarargs", "Dup"}
  BY <1>1 DEF SpreadTakers, Calls
<1>4. Holds(3) /\ 3 <= Len(Top.stack)
  BY <1>2, <1>3, Supplied
<1>5. target \in S /\ Operands(3)[2] \in S /\ Operands(3)[3] \in S
      /\ s \in Seq(S) /\ Len(s) = Len(Top.stack) - 3
  BY <1>4, BelowFacts
<1>6. /\ ~internal' /\ vars' = vars /\ times' = times
      /\ IF res.kind = "fail"
         THEN exc' = RuntimeErr /\ frames' = WithTop([Top EXCEPT !.stack = Below(3)])
              /\ heap' = heap
         ELSE /\ heap' = [heap EXCEPT ![target[2]] = res.cell]
              /\ frames' = WithTop(g) /\ exc' = exc
  BY <1>4 DEF IndexAssign
<1>7. \/ res.kind = "fail"
      \/ /\ res.kind = "alloc"
         /\ CellOk(res.cell, S, ObjectsOf(image))
         /\ target[2] \in DOMAIN heap
         /\ res.cell.kind = heap[target[2]].kind
  BY <1>5, BasicValues, IndexAssignOk
<1> HIDE DEF target, res
<1>8. CASE res.kind = "fail"
  <2>1. exc' = Thrown(ErrorText) /\ ErrorText \in S /\ heap' = heap
        /\ frames' = WithTop([Top EXCEPT !.stack = Below(Pops(Instr))])
    BY <1>2, <1>6, <1>8, BasicValues
  <2> QED BY <1>1, <1>3, <1>6, <2>1, PopsAndThrows
<1>9. CASE res.kind # "fail"
  <2>1. heap' = [heap EXCEPT ![target[2]] = res.cell] /\ frames' = WithTop(g) /\ exc' = exc
    BY <1>6, <1>9
  <2>2. HeapOk(heap', S, C \union {res.cell}, ObjectsOf(image))
    BY <1>7, <1>9, <2>1, BasicValues, HeapCellChanged
  <2>3. g = Changed(Top, ip, s, Top.locals, Top.catches, Top.delta)
    <3>1. g = [Top EXCEPT !.ip = ip, !.stack = s]
      OBVIOUS
    <3> HIDE DEF g, ip, s
    <3>2. Top \in Frames(image, S)
      BY TopFacts
    <3> QED BY <3>1, <3>2 DEF Changed, Frames
  <2>4. ip \in Nat /\ ip \in Targets(Instr, Top.ip)
    BY <1>1, NextIp
  <2>5. Top.delta = 0 /\ Len(Top.stack) = Shape.depth /\ Shape.depth \in Nat
        /\ Top.catches = Shape.catches
    BY <1>3, NoSpread, TopRecord
  <2>6. Len(s) = Shape.depth - Pops(Instr) + Pushes(Instr)
    BY <1>2, <1>5, <2>5
  <2> HIDE DEF g, ip, s
  <2>7. /\ g \in Frames(image, S) /\ g.prog = Top.prog /\ g.obj = Top.obj /\ g.ip = ip
        /\ g.stack = s /\ g.locals = Top.locals /\ g.catches = Top.catches /\ g.delta = Top.delta
    <3>1. Top \in Frames(image, S)
      BY TopFacts
    <3>2. Parts(S, ip, s, Top.locals, Top.catches, Top.delta)
      BY <1>5, <2>4, TopRecord DEF Parts
    <3> QED BY <2>3, <3>1, <3>2, ChangedParts
  <2>8. g.catches = CatchesAfter(Shape, Instr)
    BY <1>1, <2>5, <2>7, GoesOn
  <2>9. VarsOk(image, S, vars')
    BY <1>6, BasicValues
  <2>10. /\ times' \in Seq(Nat \X Nat)
         /\ Len(times') - Len(times) = TimersAfter(Shape, Instr) - Shape.timers
    BY <1>1, <1>6, TimesKept
  <2> QED BY <1>1, <1>3, <1>6, <2>1, <2>2, <2>4, <2>5, <2>6, <2>7, <2>8, <2>9, <2>10, Continues
<1> QED BY <1>8, <1>9

\* A stack with the items in place of one of its values.
Spliced(s, slot, items) == SubSeq(s, 1, slot - 1) \o items \o SubSeq(s, slot + 1, Len(s))

LEMMA SplicedFacts ==
    ASSUME NEW S, NEW s \in Seq(S), NEW slot \in 1 .. Len(s), NEW items \in Seq(S)
    PROVE  /\ Spliced(s, slot, items) \in Seq(S)
           /\ Len(Spliced(s, slot, items)) = Len(s) + Len(items) - 1
<1> DEFINE m == slot - 1
           k == slot + 1
           t == SubSeq(s, 1, m)
           u == SubSeq(s, k, Len(s))
<1>1. slot \in Nat /\ Len(s) \in Nat /\ Len(items) \in Nat /\ m \in Nat /\ m <= Len(s)
      /\ k \in Nat /\ 1 <= k /\ k <= Len(s) + 1
  OBVIOUS
<1>2. m = slot - 1 /\ k = slot + 1 /\ Spliced(s, slot, items) = t \o items \o u
  BY DEF Spliced
<1> HIDE DEF m, k
<1>3. t \in Seq(S) /\ Len(t) = m
  BY <1>1
<1>4. u \in Seq(S) /\ Len(u) = Len(s) - k + 1
  BY <1>1
<1> HIDE DEF t, u
<1>5. t \o items \in Seq(S) /\ Len(t \o items) = Len(t) + Len(items)
  BY <1>3
<1> DEFINE w == t \o items
<1>6. w \in Seq(S) /\ Len(w) = Len(t) + Len(items)
  BY <1>5
<1> HIDE DEF w
<1>7. w \o u \in Seq(S) /\ Len(w \o u) = Len(w) + Len(u)
  <2>1. w \in Seq(S) /\ u \in Seq(S)
    BY <1>4, <1>6
  <2> QED BY <2>1
<1>8. Spliced(s, slot, items) = w \o u
  BY <1>2 DEF w
<1> QED BY <1>1, <1>2, <1>3, <1>4, <1>6, <1>7, <1>8

LEMMA ExpandVarargsOk ==
    ASSUME NEW S, NEW C, NEW b, Ready(S, C, b), ~internal, ExpandVarargs
    PROVE  StackInv'
<1> DEFINE slot == Len(Top.stack) - Instr.a
           v == Top.stack[slot]
           items == heap[v[2]].items
           s == Spliced(Top.stack, slot, items)
           d == Top.delta + Len(items) - 1
           ip == Top.ip + 1
<1>1. image' = image /\ pending' = pending /\ Instr.op = "ExpandVarargs"
  BY FetchKeeps DEF ExpandVarargs
<1>2. /\ Instr.a \in Nat /\ Shape.spread + Instr.a < Shape.depth
      /\ Shape.spread > 0 => Shape.catches = <<>>
  BY <1>1, TopFacts DEF NeedsMet
<1>3. slot \in 1 .. Len(Top.stack) /\ slot >= 1
  BY <1>2, TopRecord
<1>4. /\ ~internal' /\ vars' = vars /\ times' = times /\ heap' = heap
      /\ IF IsTag(v, "arr")
         THEN /\ frames' = WithTop([Top EXCEPT !.ip = @ + 1,
                                      !.delta = @ + Len(items) - 1,
                                      !.stack = SubSeq(@, 1, slot - 1) \o items
                                         \o SubSeq(@, slot + 1, Len(@))])
              /\ exc' = exc
         ELSE exc' = RuntimeErr /\ frames' = frames
  BY <1>3 DEF ExpandVarargs
<1>5. v \in S
  BY <1>3, TopRecord
<1>6. CASE IsTag(v, "arr")
  <2> DEFINE g == [Top EXCEPT !.ip = @ + 1,
                              !.delta = @ + Len(items) - 1,
                              !.stack = SubSeq(@, 1, slot - 1) \o items
                                         \o SubSeq(@, slot + 1, Len(@))]
  <2>1. frames' = WithTop(g) /\ exc' = exc
    BY <1>4, <1>6
  <2>2. items \in Seq(S)
    BY <1>5, <1>6, BasicValues, Deref
  <2>3. g = [Top EXCEPT !.ip = ip, !.delta = d, !.stack = s]
    BY DEF Spliced
  <2> HIDE DEF g, v, slot
  <2>4. Len(items) \in Nat
    BY <2>2
  <2> HIDE DEF items
  <2>5. s \in Seq(S) /\ Len(s) = Len(Top.stack) + Len(items) - 1
    BY <1>3, <2>2, TopRecord, SplicedFacts
  <2>6. d \in Int /\ d = Top.delta + Len(items) - 1
    BY <2>4, TopRecord
  <2>7. ip \in Nat /\ ip \in Targets(Instr, Top.ip)
    BY <1>1, NextIp
  <2> HIDE DEF s, d, ip
  <2>8. Top \in Frames(image, S)
    BY TopFacts
  <2>9. g = Changed(Top, ip, s, Top.locals, Top.catches, d)
    BY <2>3, <2>8 DEF Changed, Frames
  <2>10. Parts(S, ip, s, Top.locals, Top.catches, d)
    BY <2>5, <2>6, <2>7, TopRecord DEF Parts
  <2>11. /\ g \in Frames(image, S) /\ g.prog = Top.prog /\ g.obj = Top.obj /\ g.ip = ip
         /\ g.stack = s /\ g.locals = Top.locals /\ g.catches = Top.catches /\ g.delta = d
    BY <2>8, <2>9, <2>10, ChangedParts
  <2>12. Follows(image, Top, g)
    <3> DEFINE a == After(Shape, Instr)
    <3>1. Pops(Instr) = 0 /\ Pushes(Instr) = 0
      BY <1>1, PopsNone DEF Pushes
    <3>2. a.depth = Shape.depth - 0 + 0 /\ a.spread = Shape.spread + 1
          /\ a.catches = CatchesAfter(Shape, Instr)
      BY <1>1, <3>1 DEF After
    <3>3. CatchesAfter(Shape, Instr) = Shape.catches
      BY <1>1, GoesOn
    <3> HIDE DEF a
    <3>4. Instr = InstrAt(image, Top) /\ Shape = ShapeAt(image, Top)
      BY TopFacts DEF Shape
    <3>5. Len(s) = a.depth + d /\ -a.spread <= d /\ a.spread # 0
      <4>1. Top.delta \in Int /\ Shape.depth \in Nat /\ Shape.spread \in Nat
            /\ Len(Top.stack) = Shape.depth + Top.delta /\ -Shape.spread <= Top.delta
        BY TopRecord
      <4> QED BY <2>4, <2>5, <2>6, <3>2, <4>1
    <3>6. g.catches = a.catches
      BY <2>11, <3>2, <3>3, TopRecord
    <3> QED BY <2>7, <2>11, <3>4, <3>5, <3>6 DEF Follows, a
  <2>13. VarsOk(image, S, vars') /\ HeapOk(heap', S, C, ObjectsOf(image))
    BY <1>4, BasicValues
  <2>14. /\ times' \in Seq(Nat \X Nat)
         /\ Len(times') - Len(times) = TimersAfter(Shape, Instr) - Shape.timers
    BY <1>1, <1>4, TimesKept
  <2> QED BY <1>1, <1>4, <2>1, <2>11, <2>12, <2>13, <2>14, MovesOn
<1>7. CASE ~IsTag(v, "arr")
  <2>1. exc' = Thrown(ErrorText) /\ ErrorText \in S /\ frames' = frames
    BY <1>4, <1>7, BasicValues
  <2>2. FramesOk(image, S, frames, NoExc) /\ frames # <<>>
    BY DEF Ready, RunOk
  <2>3. frames' = WithTop(Top)
    <3>1. frames \in Seq(Frames(image, S))
      BY <2>2 DEF FramesOk
    <3>2. [frames EXCEPT ![Len(frames)] = frames[Len(frames)]] = frames
      BY <3>1
    <3> QED BY <2>1, <3>2 DEF WithTop, Top
  <2>4. Top.delta = 0 \/ Top.catches = <<>>
    <3>1. CASE Shape.spread = 0
      BY <3>1, TopRecord
    <3>2. CASE Shape.spread # 0
      BY <1>2, <3>2, TopRecord
    <3> QED BY <3>1, <3>2
  <2>5. Top \in Frames(image, S) /\ CatchesHold(Top)
    BY TopFacts
  <2> QED BY <1>1, <1>4, <2>1, <2>3, <2>4, <2>5, Throws
<1> QED BY <1>6, <1>7

\* The spread's count and the arguments it counts are on the stack.
LEMMA ArgumentsThere ==
    ASSUME NEW S, NEW C, NEW b, Ready(S, C, b), Instr.op \in SpreadTakers
    PROVE  /\ ArgCount \in Nat /\ Holds(ArgCount) /\ ArgCount <= Len(Top.stack)
           /\ Len(Top.stack) - ArgCount = Shape.depth - Pops(Instr)
           /\ Pops(Instr) = Instr.n /\ Instr.n \in Nat
<1>1. Needs(Instr) <= Shape.depth /\ Instr.n \in Nat /\ NeedsMet(Shape, Instr)
  BY TopFacts
<1>2. Pops(Instr) = Instr.n
  BY <1>1, PopsNat
<1>3. Needs(Instr) = Instr.n
  BY <1>2 DEF Needs, SpreadTakers, Calls
<1>4. Shape.spread <= Instr.n
  BY <1>1 DEF NeedsMet
<1>5. ArgCount = Instr.n + Top.delta
  BY DEF ArgCount
<1>6. /\ Top.delta \in Int /\ Shape.depth \in Nat /\ Shape.spread \in Nat
      /\ Len(Top.stack) = Shape.depth + Top.delta
      /\ -Shape.spread <= Top.delta
  BY TopRecord
<1> QED BY <1>1, <1>2, <1>3, <1>4, <1>5, <1>6 DEF Holds

LEMMA MakeCompoundOk ==
    ASSUME NEW S, NEW C, NEW b, Ready(S, C, b), ~internal,
           image' = image, pending' = pending, vars' = vars, times' = times,
           NEW n, n \in Nat, n <= Len(Top.stack), ArgCount >= 0,
           NEW cell, CellOk(cell, S, ObjectsOf(image)), MakeCompound(n, cell),
           Len(Top.stack) - n = Shape.depth - Pops(Instr),
           Instr.op \in {"MakeArray", "MakeMapping"}
    PROVE  StackInv'
<1> DEFINE v == <<cell.kind, Len(heap) + 1>>
           T == S \union {v}
           s == Append(Below(n), v)
           ip == Top.ip + 1
           g == [SpreadTaken EXCEPT !.ip = @ + 1, !.stack = s]
<1>1. Holds(n)
  BY TopRecord DEF Holds
<1>2. heap' = Append(heap, cell) /\ frames' = WithTop(g) /\ exc' = exc /\ ~internal'
  BY <1>1 DEF MakeCompound
<1>3. HeapOk(heap', T, C \union {cell}, ObjectsOf(image))
  BY <1>2, BasicValues, HeapWithCell
<1> HIDE DEF v
<1>4. S \subseteq T /\ v \in T
  OBVIOUS
<1> HIDE DEF T
<1>5. Below(n) \in Seq(T) /\ Len(Below(n)) = Len(Top.stack) - n
  <2>1. Below(n) \in Seq(S) /\ Len(Below(n)) = Len(Top.stack) - n
    BY BelowFacts
  <2> QED BY <1>4, <2>1, SeqWider
<1>6. s \in Seq(T) /\ Len(s) = Shape.depth - Pops(Instr) + 1
  BY <1>4, <1>5, AppendFacts
<1>7. Top \in Frames(image, T)
  <2>1. Top \in Frames(image, S)
    BY TopFacts
  <2> QED BY <1>4, <2>1, FramesWider
<1>8. g = Changed(Top, ip, s, Top.locals, Top.catches, 0)
  <2> HIDE DEF s
  <2>1. SpreadTaken = [Top EXCEPT !.delta = 0]
    BY DEF SpreadTaken
  <2>2. g = [Top EXCEPT !.ip = ip, !.stack = s, !.delta = 0]
    BY <1>7, <2>1 DEF Frames
  <2> HIDE DEF g, ip
  <2> QED BY <1>7, <2>2 DEF Changed, Frames
<1>9. ip \in Nat /\ ip \in Targets(Instr, Top.ip)
  BY NextIp
<1>10. Pushes(Instr) = 1 /\ Instr.op # "ExpandVarargs"
  BY DEF Pushes
<1>11. Parts(T, ip, s, Top.locals, Top.catches, 0)
  <2>1. Top.locals \in Seq(T) /\ Top.catches \in Seq(CatchFrames)
    BY <1>7, FrameFields
  <2> QED BY <1>6, <1>9, <2>1 DEF Parts
<1> HIDE DEF g, s, ip
<1>12. /\ g \in Frames(image, T) /\ g.prog = Top.prog /\ g.obj = Top.obj /\ g.ip = ip
       /\ g.stack = s /\ g.locals = Top.locals /\ g.catches = Top.catches /\ g.delta = 0
  BY <1>7, <1>8, <1>11, ChangedParts
<1>13. g.catches = CatchesAfter(Shape, Instr)
  BY <1>12, GoesOn, TopRecord
<1>14. Len(g.stack) = Shape.depth - Pops(Instr) + Pushes(Instr)
  BY <1>6, <1>10, <1>12
<1>15. VarsOk(image, T, vars')
  BY <1>4, BasicValues, VarsWider
<1>16. /\ times' \in Seq(Nat \X Nat)
       /\ Len(times') - Len(times) = TimersAfter(Shape, Instr) - Shape.timers
  BY TimesKept
<1> QED BY <1>2, <1>3, <1>4, <1>9, <1>10, <1>12, <1>13, <1>14, <1>15, <1>16, Continues

LEMMA MakeArrayOk ==
    ASSUME NEW S, NEW C, NEW b, Ready(S, C, b), ~internal, MakeArray
    PROVE  StackInv'
<1> DEFINE n == ArgCount
           cell == ArrayCell(Operands(n))
<1>1. image' = image /\ pending' = pending /\ Instr.op = "MakeArray"
  BY FetchKeeps DEF MakeArray
<1>2. n \in Nat /\ n <= Len(Top.stack) /\ Len(Top.stack) - n = Shape.depth - Pops(Instr)
  BY <1>1, ArgumentsThere DEF SpreadTakers
<1>3. Operands(n) \in Seq(S)
  BY <1>2, BelowFacts
<1>4. CellOk(cell, S, ObjectsOf(image))
  BY <1>3 DEF CellOk, ArrayCell
<1>5. MakeCompound(n, cell) /\ vars' = vars /\ times' = times
  BY DEF MakeArray
<1>6. ArgCount >= 0
  BY <1>2
<1> HIDE DEF n, cell
<1> QED BY <1>1, <1>2, <1>4, <1>5, <1>6, MakeCompoundOk

LEMMA PairsTyped ==
    ASSUME NEW S, NEW n \in Nat, NEW s \in Seq(S), Len(s) = 2 * n
    PROVE  [i \in 1 .. n |-> <<s[2 * i - 1], s[2 * i]>>] \in Seq(S \X S)
<1>1. ASSUME NEW i \in 1 .. n PROVE <<s[2 * i - 1], s[2 * i]>> \in S \X S
  <2>1. 2 * i - 1 \in 1 .. Len(s) /\ 2 * i \in 1 .. Len(s)
    OBVIOUS
  <2> QED BY <2>1
<1> QED BY <1>1

LEMMA MakeMappingOk ==
    ASSUME NEW S, NEW C, NEW b, Ready(S, C, b), ~internal, MakeMapping
    PROVE  StackInv'
<1> DEFINE n == 2 * ArgCount
           s == Operands(n)
           cell == MappingCell([i \in 1 .. ArgCount |-> <<s[2 * i - 1], s[2 * i]>>])
<1>1. image' = image /\ pending' = pending /\ Instr.op = "MakeMapping"
  BY FetchKeeps DEF MakeMapping
<1>2. Instr.op \notin SpreadTakers \union {"ExpandVarargs", "Dup"}
  BY <1>1 DEF SpreadTakers, Calls
<1>3. ArgCount = Instr.n /\ Instr.n \in Nat /\ Pops(Instr) = 2 * Instr.n
  BY <1>1, <1>2, NoSpread, TopFacts, PopsMany DEF ArgCount
<1>4. Len(Top.stack) = Shape.depth /\ Shape.depth \in Nat
  BY <1>2, NoSpread, TopRecord
<1>5. n \in Nat /\ n <= Len(Top.stack) /\ Len(Top.stack) - n = Shape.depth - Pops(Instr)
  BY <1>2, <1>3, <1>4, Supplied
<1>6. s \in Seq(S) /\ Len(s) = n
  BY <1>5, BelowFacts
<1>7. MakeCompound(n, cell) /\ vars' = vars /\ times' = times
  BY DEF MakeMapping
<1>8. CellOk(cell, S, ObjectsOf(image))
  <2> DEFINE es == [i \in 1 .. ArgCount |-> <<s[2 * i - 1], s[2 * i]>>]
  <2> HIDE DEF s
  <2>1. es \in Seq(S \X S)
    BY <1>3, <1>6, PairsTyped
  <2> HIDE DEF es
  <2>2. MappingCell(es).kind = "map" /\ MappingCell(es).items = es
    BY DEF MappingCell
  <2>3. CellOk(MappingCell(es), S, ObjectsOf(image))
    BY <2>1, <2>2 DEF CellOk
  <2> QED BY <2>3 DEF es
<1>9. ArgCount >= 0
  BY <1>3
<1> HIDE DEF n, cell
<1> QED BY <1>1, <1>5, <1>7, <1>8, <1>9, MakeCompoundOk

-----------------------------------------------------------------------------
(* Entering a function *)

\* The caller's activation while its callee runs, or when the call throws.
CallerOf(argc) == [SpreadTaken EXCEPT !.stack = Below(argc)]

LEMMA CallerWaits ==
    ASSUME NEW S, NEW C, NEW b, Ready(S, C, b), Instr.op \in Calls
    PROVE  /\ CallerOf(ArgCount) \in Frames(image, S)
           /\ CallerOf(ArgCount) = Changed(Top, Top.ip, Below(ArgCount), Top.locals,
                                           Top.catches, 0)
           /\ CallerOf(ArgCount).prog = Top.prog /\ CallerOf(ArgCount).obj = Top.obj
           /\ CallerOf(ArgCount).ip = Top.ip /\ CallerOf(ArgCount).stack = Below(ArgCount)
           /\ CallerOf(ArgCount).locals = Top.locals /\ CallerOf(ArgCount).delta = 0
           /\ CallerOf(ArgCount).catches = Top.catches
           /\ Placed(image, CallerOf(ArgCount)) /\ Waiting(image, CallerOf(ArgCount))
           /\ CatchesHold(CallerOf(ArgCount))
           /\ ShapeAt(image, CallerOf(ArgCount)) = Shape
           /\ Below(ArgCount) \in Seq(S) /\ Len(Below(ArgCount)) = Shape.depth - Pops(Instr)
           /\ Operands(ArgCount) \in Seq(S)
<1> DEFINE s == Below(ArgCount)
           g == CallerOf(ArgCount)
<1>1. /\ ArgCount \in Nat /\ ArgCount <= Len(Top.stack)
      /\ Len(Top.stack) - ArgCount = Shape.depth - Pops(Instr)
      /\ Pops(Instr) = Instr.n /\ Instr.n \in Nat
  BY ArgumentsThere DEF SpreadTakers
<1>2. s \in Seq(S) /\ Len(s) = Len(Top.stack) - ArgCount /\ Operands(ArgCount) \in Seq(S)
  BY <1>1, BelowFacts
<1>3. Top \in Frames(image, S) /\ Placed(image, Top)
  BY TopFacts
<1>4. g = Changed(Top, Top.ip, s, Top.locals, Top.catches, 0)
  <2>1. SpreadTaken = [Top EXCEPT !.delta = 0]
    BY DEF SpreadTaken
  <2> HIDE DEF s
  <2>2. g = [Top EXCEPT !.stack = s, !.delta = 0]
    BY <1>3, <2>1 DEF Frames, CallerOf, s
  <2> HIDE DEF g
  <2> QED BY <1>3, <2>2 DEF Changed, Frames
<1>5. Parts(S, Top.ip, s, Top.locals, Top.catches, 0)
  BY <1>2, TopRecord DEF Parts
<1> HIDE DEF g, s
<1>6. /\ g \in Frames(image, S) /\ g.prog = Top.prog /\ g.obj = Top.obj /\ g.ip = Top.ip
      /\ g.stack = s /\ g.locals = Top.locals /\ g.catches = Top.catches /\ g.delta = 0
  BY <1>3, <1>4, <1>5, ChangedParts
<1>7. ShapeAt(image, g) = Shape /\ InstrAt(image, g) = Instr
  BY <1>6, TopFacts DEF ShapeAt, InstrAt, Shape
<1>8. Placed(image, g)
  BY <1>3, <1>6, <1>7 DEF Placed, Shape
<1>9. Len(s) = Shape.depth - Pops(Instr) /\ Shape.depth \in Nat
  BY <1>1, <1>2, TopRecord
<1>10. Waiting(image, g)
  BY <1>1, <1>6, <1>7, <1>9 DEF Waiting
<1>11. CatchesHold(g)
  <2>1. Verified(image) /\ g.obj \in ObjectsOf(image) /\ Len(g.stack) \in Nat
    BY <1>2, <1>6, TopRecord DEF Ready
  <2> QED BY <1>8, <1>10, <2>1, WaitingHolds
<1> QED BY <1>2, <1>4, <1>6, <1>7, <1>8, <1>9, <1>10, <1>11 DEF g, s

-----------------------------------------------------------------------------
(* The callee *)

LEMMA EntryFits ==
    ASSUME NEW im, Verified(im), NEW o \in ObjectsOf(im),
           NEW r \in FunctionRefs(im.programs, LinkedOf(im)[o])
    PROVE  /\ r[1] \in LinkedOf(im)[o] /\ r[1] \in Nat
           /\ im.programs[r[1]].functions[r[2]].numLocals \in Nat
           /\ im.programs[r[1]].functions[r[2]].numArgs \in Nat
           /\ Expects(MapsOf(im)[r[1]], im.programs[r[1]].functions[r[2]].entryPoint,
                      Entered(im.programs[r[1]].functions[r[2]]))
<1>1. r[1] \in LinkedOf(im)[o] /\ r[1] \in Nat /\ r[2] \in DOMAIN im.programs[r[1]].functions
  BY DEF FunctionRefs
<1>2. Fits(im, MapsOf(im), LinkedOf(im))
  BY VerifiedFits
<1>3. r[1] \in DOMAIN im.programs
  <2>1. LinkFits(im, MapsOf(im), o, LinkedOf(im)[o])
    BY <1>2 DEF Fits
  <2> QED BY <1>1, <2>1 DEF LinkFits
<1>4. ProgramFits(im.programs, r[1], MapsOf(im)[r[1]])
  BY <1>2, <1>3 DEF Fits
<1> QED BY <1>1, <1>4 DEF ProgramFits

LEMMA BindTyped ==
    ASSUME NEW T, Num(0) \in T, NEW fn, fn.numLocals \in Nat, NEW args \in Seq(T), NEW rest,
           fn.isVarargs /\ fn.numArgs > 0 => rest \in T
    PROVE  /\ BindArguments(fn, args, rest) \in Seq(T)
           /\ Len(BindArguments(fn, args, rest)) = fn.numLocals
<1> DEFINE p == IF fn.isVarargs /\ fn.numArgs > 0 THEN fn.numArgs - 1 ELSE Len(args)
           Local(i) == CASE i <= p /\ i <= Len(args) -> args[i]
                         [] fn.isVarargs /\ fn.numArgs > 0 /\ i = fn.numArgs -> rest
                         [] OTHER -> Num(0)
           n == fn.numLocals
<1>1. BindArguments(fn, args, rest) = [i \in 1 .. n |-> Local(i)]
  BY Zenon DEF BindArguments
<1>2. ASSUME NEW i \in 1 .. n PROVE Local(i) \in T
  <2>1. i <= Len(args) => args[i] \in T
    OBVIOUS
  <2> HIDE DEF p
  <2> QED BY <2>1, Zenon
<1> HIDE DEF Local
<1>3. n \in Nat
  OBVIOUS
<1> HIDE DEF n
<1>4. [i \in 1 .. n |-> Local(i)] \in Seq(T) /\ Len([i \in 1 .. n |-> Local(i)]) = n
  BY <1>2, <1>3
<1> QED BY <1>1, <1>4 DEF n

LEMMA CalleeOk ==
    ASSUME Verified(image), NEW o \in ObjectsOf(image),
           NEW r \in FunctionRefs(image.programs, LinkedOf(image)[o]),
           NEW T, Num(0) \in T, NEW args \in Seq(T), NEW rest,
           Programs[r[1]].functions[r[2]].isVarargs
             /\ Programs[r[1]].functions[r[2]].numArgs > 0 => rest \in T
    PROVE  /\ NewFrame(r, o, args, rest) \in Frames(image, T)
           /\ TopOk(image, NewFrame(r, o, args, rest), NoExc)
           /\ ShapeAt(image, NewFrame(r, o, args, rest)).timers = 0
<1> DEFINE fn == Programs[r[1]].functions[r[2]]
           f == NewFrame(r, o, args, rest)
           ls == BindArguments(fn, args, rest)
           map == MapsOf(image)[r[1]]
           m == map[fn.entryPoint]
<1>1. /\ r[1] \in LinkedOf(image)[o] /\ r[1] \in Nat
      /\ fn.numLocals \in Nat /\ fn.numArgs \in Nat
      /\ Expects(map, fn.entryPoint, Entered(fn))
  BY EntryFits DEF Programs
<1>2. ls \in Seq(T) /\ Len(ls) = fn.numLocals
  BY <1>1, BindTyped
<1>3. f = [prog |-> r[1], obj |-> o, ip |-> fn.entryPoint, stack |-> <<>>, locals |-> ls,
           catches |-> <<>>, delta |-> 0]
  BY DEF NewFrame
<1> HIDE DEF fn, ls, f
<1>4. /\ f.prog = r[1] /\ f.obj = o /\ f.ip = fn.entryPoint /\ f.stack = <<>>
      /\ f.locals = ls /\ f.catches = <<>> /\ f.delta = 0
  BY <1>3
<1>5. /\ fn.entryPoint \in DOMAIN map /\ m.depth = 0 /\ m.catches = <<>> /\ m.spread = 0
      /\ m.slots = fn.numLocals /\ m.timers <= 0
  BY <1>1 DEF Expects, Entered
<1>6. ShapeAt(image, f) = m
  BY <1>4 DEF ShapeAt
<1> HIDE DEF m
<1>7. Placed(image, f)
  BY <1>1, <1>2, <1>4, <1>5, <1>6 DEF Placed
<1>8. f.ip \in Nat /\ m.timers \in Nat
  BY <1>4, <1>6, <1>7, ShapeTyped, ShapeFields
<1>9. Running(image, f)
  <2>1. Len(f.stack) = 0
    BY <1>4
  <2> QED BY <1>4, <1>5, <1>6, <2>1 DEF Running
<1>10. CatchesHold(f)
  BY <1>4 DEF CatchesHold
<1>11. TopOk(image, f, NoExc)
  BY <1>7, <1>9, <1>10 DEF TopOk, NoExc
<1>12. f \in Frames(image, T)
  <2>1. fn.entryPoint \in Nat
    BY <1>4, <1>8
  <2> QED BY <1>1, <1>2, <1>3, <2>1 DEF Frames
<1>13. m.timers = 0
  BY <1>5, <1>8
<1> QED BY <1>6, <1>11, <1>12, <1>13 DEF f

LEMMA CalleeStarts ==
    ASSUME NEW S, NEW C, NEW b, Ready(S, C, b), ~internal',
           image' = image, pending' = pending, vars' = vars, times' = times, exc' = exc,
           NEW T, S \subseteq T, NEW D, HeapOk(heap', T, D, ObjectsOf(image)),
           NEW o \in ObjectsOf(image),
           NEW r \in FunctionRefs(image.programs, LinkedOf(image)[o]),
           NEW args \in Seq(S), NEW rest,
           Programs[r[1]].functions[r[2]].isVarargs
             /\ Programs[r[1]].functions[r[2]].numArgs > 0 => rest \in T,
           Instr.op \in Calls,
           frames' = Append(WithTop(CallerOf(ArgCount)), NewFrame(r, o, args, rest))
    PROVE  StackInv'
<1> DEFINE c == CallerOf(ArgCount)
           g == NewFrame(r, o, args, rest)
<1>1. Verified(image) /\ frames # <<>> /\ exc = NoExc
      /\ RunOk(image, S, C, b, pending, frames, heap, vars, NoExc, times)
  BY DEF Ready
<1>2. c \in Frames(image, S) /\ Placed(image, c) /\ Waiting(image, c)
      /\ ShapeAt(image, c) = ShapeAt(image, frames[Len(frames)])
  BY CallerWaits DEF Shape, Top
<1>3. c \in Frames(image, T) /\ Num(0) \in T /\ args \in Seq(T)
  <2>1. Num(0) \in S
    BY BasicValues
  <2> QED BY <1>2, <2>1, FramesWider, SeqWider
<1>4. g \in Frames(image, T) /\ TopOk(image, g, NoExc) /\ ShapeAt(image, g).timers = 0
  BY <1>1, <1>3, CalleeOk
<1> HIDE DEF c, g
<1>5. RunOk(image, T, D, Append(b, Len(times)), pending,
            Append([frames EXCEPT ![Len(frames)] = c], g), heap', vars, NoExc, times)
  BY <1>1, <1>2, <1>3, <1>4, Called
<1>6. RunOk(image', T, D, Append(b, Len(times)), pending', frames', heap', vars', exc', times')
  BY <1>1, <1>5 DEF WithTop, c, g
<1> QED BY <1>1, <1>6 DEF StackInv

\* A call binds its arguments and starts the callee at its entry.
LEMMA EnterOk ==
    ASSUME NEW S, NEW C, NEW b, Ready(S, C, b), ~internal,
           image' = image, pending' = pending, vars' = vars, times' = times,
           NEW o \in ObjectsOf(image),
           NEW r \in FunctionRefs(image.programs, LinkedOf(image)[o]),
           NEW args \in Seq(S), Instr.op \in Calls, Enter(ArgCount, r, o, args)
    PROVE  StackInv'
<1> DEFINE fn == Programs[r[1]].functions[r[2]]
           hasRest == fn.isVarargs /\ fn.numArgs > 0
           rest == Arr(Len(heap) + 1)
           cell == ArrayCell(RestArguments(fn, args))
<1>1. /\ ~internal' /\ exc' = exc
      /\ heap' = IF hasRest THEN Append(heap, cell) ELSE heap
      /\ frames' = Append(WithTop(CallerOf(ArgCount)), NewFrame(r, o, args, rest))
  BY DEF Enter, CallerOf
<1>2. HeapOk(heap, S, C, ObjectsOf(image)) /\ Verified(image)
  BY BasicValues DEF Ready
<1>3. CASE hasRest
  <2>1. fn.numArgs \in Nat /\ fn.numArgs > 0
    BY <1>2, <1>3, EntryFits DEF Programs
  <2>2. RestArguments(fn, args) \in Seq(S)
    <3> DEFINE k == fn.numArgs
    <3>1. k \in Nat /\ k > 0 /\ RestArguments(fn, args) = SubSeq(args, k, Len(args))
      BY <2>1 DEF RestArguments
    <3> HIDE DEF k
    <3>2. SubSeq(args, k, Len(args)) \in Seq(S)
      BY <3>1
    <3> QED BY <3>1, <3>2
  <2>3. CellOk(cell, S, ObjectsOf(image)) /\ cell.kind = "arr"
    BY <2>2 DEF CellOk, ArrayCell
  <2>4. HeapOk(Append(heap, cell), S \union {<<cell.kind, Len(heap) + 1>>}, C \union {cell},
               ObjectsOf(image))
    BY <1>2, <2>3, HeapWithCell
  <2>5. rest = <<cell.kind, Len(heap) + 1>>
    BY <2>3 DEF Arr
  <2>6. heap' = Append(heap, cell)
    BY <1>1, <1>3
  <2> DEFINE T == S \union {rest}
  <2>7. S \subseteq T /\ rest \in T
    OBVIOUS
  <2>8. HeapOk(heap', T, C \union {cell}, ObjectsOf(image))
    BY <2>4, <2>5, <2>6
  <2> HIDE DEF T, rest, cell
  <2> QED BY <1>1, <2>7, <2>8, CalleeStarts
<1>4. CASE ~hasRest
  <2>1. heap' = heap
    BY <1>1, <1>4
  <2>2. hasRest => rest \in S
    BY <1>4
  <2> HIDE DEF rest, cell
  <2> QED BY <1>1, <1>2, <2>1, <2>2, CalleeStarts
<1> QED BY <1>3, <1>4

-----------------------------------------------------------------------------
(* The call instructions *)

\* What an efun hands back.
EfunOk(res, S) ==
    \/ res.kind = "ok" /\ GoodValue(res.value, heap)
    \/ res.kind = "throw" /\ res.value \in S
    \/ res.kind = "fail"

LEMMA EfunDoneOk ==
    ASSUME NEW S, NEW C, NEW b, Ready(S, C, b), ~internal,
           image' = image, pending' = pending, vars' = vars, times' = times,
           Instr.op \in Calls, NEW res, EfunOk(res, S),
           Instr.op = "CallParent" => res.kind = "fail", EfunDone(ArgCount, res)
    PROVE  StackInv'
<1> DEFINE c == CallerOf(ArgCount)
<1>1. /\ frames' = WithTop(IF res.kind = "ok"
                           THEN [c EXCEPT !.ip = @ + 1, !.stack = Append(@, res.value)]
                           ELSE c)
      /\ exc' = CASE res.kind = "ok"    -> exc
                  [] res.kind = "throw" -> Thrown(res.value)
                  [] OTHER              -> RuntimeErr
      /\ heap' = heap /\ ~internal'
  BY Zenon DEF EfunDone, CallerOf
<1>2. /\ c \in Frames(image, S)
      /\ c = Changed(Top, Top.ip, Below(ArgCount), Top.locals, Top.catches, 0)
      /\ c.prog = Top.prog /\ c.obj = Top.obj /\ c.ip = Top.ip /\ c.stack = Below(ArgCount)
      /\ c.locals = Top.locals /\ c.delta = 0 /\ c.catches = Top.catches
      /\ CatchesHold(c)
  BY CallerWaits
<1>3. Below(ArgCount) \in Seq(S) /\ Len(Below(ArgCount)) = Shape.depth - Pops(Instr)
  BY CallerWaits
<1>4. ErrorText \in S /\ RuntimeErr = Thrown(ErrorText)
      /\ HeapOk(heap, S, C, ObjectsOf(image)) /\ VarsOk(image, S, vars)
  BY BasicValues
<1> HIDE DEF c
<1>5. CASE res.kind = "ok"
  <2> DEFINE T == S \union {res.value}
             s == Append(Below(ArgCount), res.value)
             g == [c EXCEPT !.ip = @ + 1, !.stack = Append(@, res.value)]
             ip == Top.ip + 1
  <2>1. frames' = WithTop(g)
    BY <1>1, <1>5
  <2>2. exc' = exc
    BY <1>1, <1>5, Zenon
  <2>3. HeapOk(heap', T, C, ObjectsOf(image))
    <3>1. GoodValue(res.value, heap)
      BY <1>5 DEF EfunOk
    <3> QED BY <1>1, <1>4, <3>1, HeapWithValue
  <2>4. S \subseteq T /\ res.value \in T
    OBVIOUS
  <2> HIDE DEF T
  <2>5. s \in Seq(T) /\ Len(s) = Shape.depth - Pops(Instr) + 1
    <3>1. Below(ArgCount) \in Seq(T)
      BY <1>3, <2>4, SeqWider
    <3> QED BY <1>3, <2>4, <3>1, AppendFacts
  <2>6. c \in Frames(image, T)
    BY <1>2, <2>4, FramesWider
  <2>7. ip \in Nat /\ ip \in Targets(Instr, Top.ip)
    <3>1. Instr.op \notin {"Jump", "JumpIfFalse", "CallParent", "Return"}
      BY <1>5 DEF Calls
    <3> QED BY <3>1, NextIp
  <2>8. g = Changed(c, ip, s, c.locals, c.catches, c.delta)
    <3>1. g = [c EXCEPT !.ip = ip, !.stack = s]
      BY <1>2, <2>6 DEF Frames
    <3> HIDE DEF g, ip, s
    <3> QED BY <2>6, <3>1 DEF Changed, Frames
  <2>9. Parts(T, ip, s, c.locals, c.catches, c.delta)
    BY <2>5, <2>6, <2>7, FrameFields DEF Parts
  <2> HIDE DEF g, s, ip
  <2>10. /\ g \in Frames(image, T) /\ g.prog = c.prog /\ g.obj = c.obj /\ g.ip = ip
         /\ g.stack = s /\ g.locals = c.locals /\ g.catches = c.catches /\ g.delta = c.delta
    BY <2>6, <2>8, <2>9, ChangedParts
  <2>11. Pushes(Instr) = 1 /\ Instr.op # "ExpandVarargs"
    BY DEF Pushes, Calls
  <2>12. g.catches = CatchesAfter(Shape, Instr)
    BY <1>2, <2>10, GoesOn, TopRecord DEF Calls
  <2>13. Len(g.stack) = Shape.depth - Pops(Instr) + Pushes(Instr)
    BY <2>5, <2>10, <2>11
  <2>14. VarsOk(image, T, vars')
    BY <1>4, <2>4, VarsWider
  <2>15. /\ times' \in Seq(Nat \X Nat)
         /\ Len(times') - Len(times) = TimersAfter(Shape, Instr) - Shape.timers
    BY TimesKept DEF Calls
  <2>16. /\ g.prog = Top.prog /\ g.obj = Top.obj /\ g.ip \in Targets(Instr, Top.ip)
         /\ Len(g.locals) = Len(Top.locals) /\ g.delta = 0
    BY <1>2, <2>7, <2>10
  <2> QED BY <1>1, <2>1, <2>2, <2>3, <2>4, <2>10, <2>11, <2>12, <2>13, <2>14, <2>15, <2>16,
             Continues
<1>6. CASE res.kind # "ok"
  <2>1. frames' = WithTop(c)
    BY <1>1, <1>6
  <2>2. \E v \in S : exc' = Thrown(v)
    <3>1. CASE res.kind = "throw"
      <4>1. exc' = Thrown(res.value)
        BY <1>1, <3>1, Zenon
      <4>2. res.value \in S
        BY <3>1 DEF EfunOk
      <4> QED BY <4>1, <4>2
    <3>2. CASE res.kind # "throw"
      <4>1. exc' = RuntimeErr
        BY <1>1, <1>6, <3>2, Zenon
      <4> QED BY <1>4, <4>1
    <3> QED BY <3>1, <3>2
  <2>3. PICK v \in S : exc' = Thrown(v)
    BY <2>2
  <2> QED BY <1>1, <1>2, <2>1, <2>3, Throws
<1> QED BY <1>5, <1>6

LEMMA EfunResultOk ==
    ASSUME NEW S, NEW name, NEW args \in Seq(S)
    PROVE  EfunOk(EfunResult(name, args), S)
<1> DEFINE ok == Ok(sizeofImpl(args, heap))
           thrown == [kind |-> "throw", value |-> args[1]]
<1>1. \/ EfunResult(name, args) = ok
      \/ EfunResult(name, args) = thrown /\ Len(args) = 1
      \/ EfunResult(name, args) = Fail
  BY Zenon DEF EfunResult
<1>2. EfunOk(ok, S)
  <2> DEFINE d == IF args = <<>> THEN 0
                  ELSE CASE Tag(args[1]) \in {"arr", "map"} -> Len(heap[args[1][2]].items)
                         [] IsTag(args[1], "str") -> Len(args[1][2])
                         [] OTHER -> 0
  <2>1. sizeofImpl(args, heap) = Num(d)
    BY Zenon DEF sizeofImpl
  <2> HIDE DEF d
  <2>2. GoodValue(sizeofImpl(args, heap), heap)
    BY <2>1, Immediate
  <2> QED BY <2>2 DEF EfunOk, Ok
<1>3. Len(args) = 1 => EfunOk(thrown, S)
  <2>1. Len(args) = 1 => args[1] \in S
    OBVIOUS
  <2> QED BY <2>1 DEF EfunOk
<1>4. EfunOk(Fail, S)
  BY DEF EfunOk, Fail
<1> HIDE DEF ok, thrown
<1> QED BY <1>1, <1>2, <1>3, <1>4

\* A bare call finds a function of the object's chain or the simul_efun's.
LEMMA Resolved ==
    ASSUME Verified(image), NEW o \in ObjectsOf(image), NEW name,
           ResolveCall(o, name).ref # NotFound
    PROVE  /\ ResolveCall(o, name).obj \in ObjectsOf(image)
           /\ ResolveCall(o, name).ref
                \in FunctionRefs(image.programs, LinkedOf(image)[ResolveCall(o, name).obj])
<1> DEFINE own == findFunctionInChain(Programs, ProgramOf(o), name)
           chain == findFunctionInChain(Programs, image.simul, name)
           simul == IF image.simul = 0 THEN NotFound ELSE chain
           call == ResolveCall(o, name)
<1>1. call = IF own # NotFound THEN [obj |-> o, ref |-> own]
             ELSE [obj |-> "simul", ref |-> simul]
  BY DEF ResolveCall
<1>2. ASSUME NEW q \in ObjectsOf(image)
      PROVE  findFunctionInChain(Programs, Main(image, q), name)
               \in {NotFound} \union FunctionRefs(image.programs, LinkedOf(image)[q])
  <2>1. Ordered(image.programs) /\ ClosedChain(image.programs, LinkedOf(image)[q])
        /\ Main(image, q) \in LinkedOf(image)[q]
    BY VerifiedOrdered
  <2> QED BY <2>1, FoundInChain DEF Programs
<1>3. ProgramOf(o) = Main(image, o)
  BY DEF ProgramOf, Main
<1>4. own # NotFound => own \in FunctionRefs(image.programs, LinkedOf(image)[o])
  BY <1>2, <1>3
<1>5. simul # NotFound => /\ "simul" \in ObjectsOf(image)
                          /\ simul \in FunctionRefs(image.programs, LinkedOf(image)["simul"])
  <2> SUFFICES ASSUME image.simul # 0, simul # NotFound
               PROVE /\ "simul" \in ObjectsOf(image)
                     /\ simul \in FunctionRefs(image.programs, LinkedOf(image)["simul"])
    OBVIOUS
  <2>1. "simul" \in ObjectsOf(image) /\ Main(image, "simul") = image.simul
    BY DEF ObjectsOf, Main
  <2> QED BY <1>2, <2>1
<1> HIDE DEF own, simul, call
<1>6. CASE own # NotFound
  <2>1. call.obj = o /\ call.ref = own
    BY <1>1, <1>6
  <2> QED BY <1>4, <1>6, <2>1 DEF call
<1>7. CASE own = NotFound
  <2>1. call.obj = "simul" /\ call.ref = simul
    BY <1>1, <1>7
  <2>2. simul # NotFound
    BY <2>1 DEF call
  <2> QED BY <1>5, <2>1, <2>2 DEF call
<1> QED BY <1>6, <1>7

LEMMA CallClosureOk ==
    ASSUME NEW S, NEW C, NEW b, Ready(S, C, b), ~internal,
           image' = image, pending' = pending, vars' = vars, times' = times,
           Instr.op \in Calls, Instr.op # "CallParent",
           NEW closure, closure.items \in Seq(S), closure.owner \in ObjectsOf(image),
           NEW extra \in Seq(S), callClosure(ArgCount, closure, extra)
    PROVE  StackInv'
<1> DEFINE args == closure.items \o extra
           call == ResolveCall(closure.owner, closure.name)
<1>1. args \in Seq(S)
  OBVIOUS
<1>2. CASE call.ref # NotFound
  <2>1. Enter(ArgCount, call.ref, call.obj, args)
    BY <1>2 DEF callClosure
  <2>2. call.obj \in ObjectsOf(image)
        /\ call.ref \in FunctionRefs(image.programs, LinkedOf(image)[call.obj])
    BY <1>2, Resolved DEF Ready
  <2> HIDE DEF args, call
  <2> QED BY <1>1, <2>1, <2>2, EnterOk
<1>3. CASE call.ref = NotFound
  <2>1. EfunDone(ArgCount, EfunResult(closure.name, args))
    BY <1>3 DEF callClosure
  <2> HIDE DEF args, call
  <2> QED BY <1>1, <2>1, EfunResultOk, EfunDoneOk
<1> QED BY <1>2, <1>3

LEMMA TailTyped ==
    ASSUME NEW S, NEW s \in Seq(S), s # <<>>
    PROVE  Tail(s) \in Seq(S) /\ s[1] \in S
  OBVIOUS

LEMMA CallEfunByNameOk ==
    ASSUME NEW S, NEW C, NEW b, Ready(S, C, b), ~internal,
           image' = image, pending' = pending, vars' = vars, times' = times,
           Instr.op \in Calls, Instr.op # "CallParent",
           NEW name, NEW args \in Seq(S), CallEfunByName(ArgCount, name, args)
    PROVE  StackInv'
<1>1. CASE name # "evaluate"
  <2>1. EfunDone(ArgCount, EfunResult(name, args))
    BY <1>1 DEF CallEfunByName
  <2> QED BY <2>1, EfunResultOk, EfunDoneOk
<1>2. CASE name = "evaluate" /\ (args = <<>> \/ ~IsTag(args[1], "fun"))
  <2>1. EfunDone(ArgCount, Ok(Void))
    BY <1>2 DEF CallEfunByName
  <2>2. EfunOk(Ok(Void), S)
    BY Immediate DEF EfunOk, Ok
  <2> QED BY <2>1, <2>2, EfunDoneOk
<1>3. CASE name = "evaluate" /\ args # <<>> /\ IsTag(args[1], "fun")
  <2> DEFINE closure == heap[args[1][2]]
  <2>1. callClosure(ArgCount, closure, Tail(args))
    BY <1>3 DEF CallEfunByName
  <2>2. Tail(args) \in Seq(S) /\ args[1] \in S
    BY <1>3, TailTyped
  <2>3. closure.items \in Seq(S) /\ closure.owner \in ObjectsOf(image)
    <3> DEFINE v == args[1]
    <3>1. v \in S /\ IsTag(v, "fun") /\ closure = heap[v[2]]
          /\ HeapOk(heap, S, C, ObjectsOf(image))
      BY <1>3, <2>2, BasicValues
    <3> HIDE DEF v, closure
    <3>2. heap[v[2]].items \in Seq(S) /\ heap[v[2]].owner \in ObjectsOf(image)
      BY <3>1, Deref
    <3> QED BY <3>1, <3>2
  <2> HIDE DEF closure
  <2> QED BY <2>1, <2>2, <2>3, CallClosureOk
<1> QED BY <1>1, <1>2, <1>3

\* The three call instructions take counted or spread arguments from the
\* stack, and call a function, an efun or a closure.
LEMMA CallOk ==
    ASSUME NEW S, NEW C, NEW b, Ready(S, C, b), ~internal, Call
    PROVE  StackInv'
<1> DEFINE call == ResolveCall(Top.obj, Instr.a)
           args == Operands(ArgCount)
<1>1. image' = image /\ pending' = pending /\ Instr.op = "Call"
  BY FetchKeeps DEF Call, WithArguments
<1>2. Instr.op \in Calls /\ Instr.op # "CallParent" /\ Instr.op \in SpreadTakers
  BY <1>1 DEF Calls, SpreadTakers
<1>3. ArgCount \in Nat /\ Holds(ArgCount)
  BY <1>2, ArgumentsThere
<1>4. ArgCount >= 0 /\ args \in Seq(S)
  BY <1>2, <1>3, CallerWaits
<1>5. /\ vars' = vars /\ times' = times
      /\ IF call.ref # NotFound THEN Enter(ArgCount, call.ref, call.obj, args)
         ELSE CallEfunByName(ArgCount, Instr.a, args)
  BY <1>3, <1>4 DEF Call, WithArguments
<1>6. CASE call.ref # NotFound
  <2>1. call.obj \in ObjectsOf(image)
        /\ call.ref \in FunctionRefs(image.programs, LinkedOf(image)[call.obj])
    BY <1>6, TopRecord, Resolved DEF Ready
  <2>2. Enter(ArgCount, call.ref, call.obj, args)
    BY <1>5, <1>6
  <2> HIDE DEF args, call
  <2> QED BY <1>1, <1>2, <1>4, <1>5, <2>1, <2>2, EnterOk
<1>7. CASE call.ref = NotFound
  <2>1. CallEfunByName(ArgCount, Instr.a, args)
    BY <1>5, <1>7
  <2> HIDE DEF args, call
  <2> QED BY <1>1, <1>2, <1>4, <1>5, <2>1, CallEfunByNameOk
<1> QED BY <1>6, <1>7

LEMMA CallEfunOk ==
    ASSUME NEW S, NEW C, NEW b, Ready(S, C, b), ~internal, CallEfun
    PROVE  StackInv'
<1> DEFINE args == Operands(ArgCount)
<1>1. image' = image /\ pending' = pending /\ Instr.op = "CallEfun"
  BY FetchKeeps DEF CallEfun, WithArguments
<1>2. Instr.op \in Calls /\ Instr.op # "CallParent" /\ Instr.op \in SpreadTakers
  BY <1>1 DEF Calls, SpreadTakers
<1>3. ArgCount \in Nat /\ Holds(ArgCount)
  BY <1>2, ArgumentsThere
<1>4. ArgCount >= 0 /\ args \in Seq(S)
  BY <1>2, <1>3, CallerWaits
<1>5. vars' = vars /\ times' = times /\ CallEfunByName(ArgCount, Instr.a, args)
  BY <1>3, <1>4 DEF CallEfun, WithArguments
<1> HIDE DEF args
<1> QED BY <1>1, <1>2, <1>4, <1>5, CallEfunByNameOk

LEMMA CallParentOk ==
    ASSUME NEW S, NEW C, NEW b, Ready(S, C, b), ~internal, CallParent
    PROVE  StackInv'
<1> DEFINE ref == findParentFunction(Programs, Top.prog, Instr.a, Code[Top.ip + 1].a)
           args == Operands(ArgCount)
<1>1. image' = image /\ pending' = pending /\ Instr.op = "CallParent"
  BY FetchKeeps DEF CallParent, WithArguments
<1>2. Instr.op \in Calls /\ Instr.op \in SpreadTakers
  BY <1>1 DEF Calls, SpreadTakers
<1>3. ArgCount \in Nat /\ Holds(ArgCount)
  BY <1>2, ArgumentsThere
<1>4. ArgCount >= 0 /\ args \in Seq(S)
  BY <1>2, <1>3, CallerWaits
<1>5. /\ vars' = vars /\ times' = times
      /\ IF ref # NotFound THEN Enter(ArgCount, ref, Top.obj, args)
         ELSE EfunDone(ArgCount, Fail)
  BY <1>3, <1>4 DEF CallParent, WithArguments
<1>6. CASE ref # NotFound
  <2>1. Top.obj \in ObjectsOf(image) /\ Verified(image) /\ Placed(image, Top)
    BY TopFacts DEF Ready
  <2>2. Ordered(image.programs) /\ ClosedChain(image.programs, LinkedOf(image)[Top.obj])
        /\ Top.prog \in LinkedOf(image)[Top.obj]
    BY <2>1, VerifiedOrdered DEF Placed
  <2>3. ref \in FunctionRefs(image.programs, LinkedOf(image)[Top.obj])
    BY <1>6, <2>2, FoundInParents DEF Programs
  <2>4. Enter(ArgCount, ref, Top.obj, args)
    BY <1>5, <1>6
  <2> HIDE DEF args, ref
  <2> QED BY <1>1, <1>2, <1>4, <1>5, <2>1, <2>3, <2>4, EnterOk
<1>7. CASE ref = NotFound
  <2>1. EfunDone(ArgCount, Fail)
    BY <1>5, <1>7
  <2>2. EfunOk(Fail, S) /\ Fail.kind = "fail"
    BY DEF EfunOk, Fail
  <2> HIDE DEF args, ref
  <2> QED BY <1>1, <1>2, <1>5, <2>1, <2>2, EfunDoneOk
<1> QED BY <1>6, <1>7

-----------------------------------------------------------------------------
(* Return, exceptions and the calls of the driver *)

LEMMA MoreThanOne ==
    ASSUME NEW n, n \in Nat \ {0}, n # 1
    PROVE  n > 1 /\ n - 1 \in 1 .. n - 1 /\ n - 1 \in 1 .. n
  OBVIOUS

\* Return leaves an activation whose stack and catch frames are its own.
LEMMA ReturnOk ==
    ASSUME NEW S, NEW C, NEW b, Ready(S, C, b), ~internal, Return
    PROVE  StackInv'
<1> DEFINE value == IF Top.stack = <<>> THEN Void ELSE Top.stack[Len(Top.stack)]
           c == frames[Len(frames) - 1]
           op == Programs[c.prog].code[c.ip].op
           step == IF op = "CallParent" THEN 2 ELSE 1
           g == [c EXCEPT !.stack = Append(@, value),
                          !.ip = @ + (IF op = "CallParent" THEN 2 ELSE 1)]
           ip == c.ip + step
           s == Append(c.stack, value)
<1>1. image' = image /\ pending' = pending
  BY FetchKeeps DEF Return
<1>2. /\ heap' = heap /\ vars' = vars /\ exc' = exc /\ times' = times /\ internal' = internal
      /\ IF Len(frames) = 1 THEN frames' = <<>>
         ELSE frames' = Append(SubSeq(frames, 1, Len(frames) - 2), g)
  BY DEF Return
<1>3. Verified(image) /\ frames # <<>> /\ exc = NoExc
      /\ RunOk(image, S, C, b, pending, frames, heap, vars, NoExc, times)
      /\ FramesOk(image, S, frames, NoExc)
  BY DEF Ready, RunOk
<1>4. Len(frames) \in Nat \ {0}
  BY <1>3, TopTyped
<1>5. value \in S
  <2>1. Void \in S /\ Top.stack \in Seq(S)
    BY BasicValues, TopRecord
  <2> QED BY <2>1
<1>6. CASE Len(frames) = 1
  <2>1. PendingOk(image, pending)
    BY <1>3 DEF RunOk
  <2>2. RunOk(image, S, C, <<>>, pending, <<>>, heap, vars, NoExc, times)
    BY <1>3, <2>1, Emptied
  <2>3. RunOk(image', S, C, <<>>, pending', frames', heap', vars', exc', times')
    BY <1>1, <1>2, <1>3, <1>6, <2>2
  <2>4. ~internal' /\ Verified(image')
    BY <1>1, <1>2, <1>3
  <2> QED BY <2>3, <2>4 DEF StackInv
<1>7. CASE Len(frames) # 1
  <2> HIDE DEF value
  <2>1. Len(frames) > 1 /\ Len(frames) - 1 \in 1 .. Len(frames) - 1
        /\ Len(frames) - 1 \in 1 .. Len(frames)
    BY <1>4, <1>7, MoreThanOne
  <2>2. c \in Frames(image, S) /\ Placed(image, c) /\ Waiting(image, c)
    BY <1>3, <2>1, AllTimersNat DEF FramesOk
  <2> HIDE DEF c
  <2>3. /\ c.prog \in Nat /\ c.obj \in ObjectsOf(image) /\ c.ip \in Nat
        /\ c.stack \in Seq(S) /\ c.locals \in Seq(S)
        /\ c.catches \in Seq(CatchFrames) /\ c.delta \in Int
    BY <2>2, FrameFields
  <2>4. g = Changed(c, ip, s, c.locals, c.catches, c.delta)
    <3>1. g = [c EXCEPT !.stack = s, !.ip = ip]
      BY <2>2 DEF Frames
    <3> HIDE DEF g, s, ip
    <3> QED BY <2>2, <3>1 DEF Changed, Frames
  <2>5. s \in Seq(S) /\ Len(s) = Len(c.stack) + 1 /\ Len(c.stack) \in Nat
    BY <1>5, <2>3, AppendFacts
  <2>6. op = InstrAt(image, c).op
    BY DEF InstrAt, Programs
  <2>7. ip \in Nat /\ ip \in Targets(InstrAt(image, c), c.ip)
    <3>1. step \in {1, 2}
      OBVIOUS
    <3>2. ip \in Nat
      BY <2>3, <3>1
    <3>3. CASE op = "CallParent"
      <4>1. Targets(InstrAt(image, c), c.ip) = {c.ip + 2}
        BY <2>6, <3>3, Zenon DEF Targets
      <4> QED BY <3>2, <3>3, <4>1
    <3>4. CASE op # "CallParent"
      <4>1. InstrAt(image, c).op \notin {"Jump", "JumpIfFalse", "CallParent", "Return"}
        BY <2>2, <2>6, <3>4 DEF Waiting, Calls
      <4>2. Targets(InstrAt(image, c), c.ip) = {c.ip + 1}
        BY <4>1, GoesOn
      <4> QED BY <3>2, <3>4, <4>2
    <3> QED BY <3>3, <3>4
  <2>8. Parts(S, ip, s, c.locals, c.catches, c.delta)
    BY <2>3, <2>5, <2>7 DEF Parts
  <2> HIDE DEF g, s, ip, op
  <2>9. /\ g \in Frames(image, S) /\ g.prog = c.prog /\ g.obj = c.obj /\ g.ip = ip
        /\ g.stack = s /\ g.locals = c.locals /\ g.catches = c.catches /\ g.delta = c.delta
    BY <2>2, <2>4, <2>8, ChangedParts
  <2> DEFINE m == ShapeAt(image, c)
             i == InstrAt(image, c)
  <2>10. m \in Shapes /\ i.n \in Nat
    BY <1>3, <2>2, <2>3, ShapeTyped
  <2>11. m.depth \in Nat
    BY <2>10, ShapeFields
  <2>12. i.op \in Calls /\ Len(c.stack) + i.n = m.depth /\ c.delta = 0 /\ c.catches = m.catches
    BY <2>2 DEF Waiting, Placed
  <2>13. i.op \in SpreadTakers /\ Pushes(i) = 1 /\ i.op # "ExpandVarargs"
         /\ i.op \notin {"PushCatchFrame", "PopCatchFrame", "TimeExpressionStart",
                         "TimeExpressionEnd"}
    BY <2>12 DEF SpreadTakers, Pushes, Calls
  <2>14. Pops(i) = i.n /\ CatchesAfter(m, i) = m.catches /\ TimersAfter(m, i) = m.timers
    BY <2>10, <2>13, PopsNat, GoesOn
  <2>15. Len(g.stack) = m.depth - Pops(i) + Pushes(i)
    BY <2>5, <2>9, <2>10, <2>11, <2>12, <2>13, <2>14
  <2>16. Follows(image, c, g)
    <3>1. g.ip \in Targets(i, c.ip) /\ g.catches = CatchesAfter(m, i)
          /\ Len(g.locals) = Len(c.locals) /\ g.delta = 0 /\ g.prog = c.prog /\ g.obj = c.obj
      BY <2>7, <2>9, <2>12, <2>14
    <3>2. Pops(i) \in Nat /\ Pushes(i) \in Nat
      BY <2>10, <2>13, <2>14
    <3> QED BY <2>11, <2>13, <2>15, <3>1, <3>2, FollowsBy
  <2>17. RunOk(image, S, C, Front(b), pending, Append(SubSeq(frames, 1, Len(frames) - 2), g),
               heap, vars, NoExc, times)
    BY <1>3, <2>1, <2>9, <2>14, <2>16, Returned DEF c
  <2>18. RunOk(image', S, C, Front(b), pending', frames', heap', vars', exc', times')
    BY <1>1, <1>2, <1>3, <1>7, <2>17 DEF c
  <2>19. ~internal' /\ Verified(image')
    BY <1>1, <1>2, <1>3
  <2> QED BY <2>18, <2>19 DEF StackInv
<1> QED BY <1>6, <1>7

LEMMA EvalCostExceededOk ==
    ASSUME StackInv, EvalCostExceeded
    PROVE  StackInv'
<1>1. PICK S, C, b : RunOk(image, S, C, b, pending, frames, heap, vars, exc, times)
  BY DEF StackInv
<1>2. /\ image' = image /\ pending' = pending /\ frames' = frames /\ heap' = heap
      /\ vars' = vars /\ times' = times /\ internal' = internal /\ exc' = EvalCostErr
      /\ exc = NoExc
  BY DEF EvalCostExceeded
<1>3. FramesOk(image, S, frames, EvalCostErr)
  <2>1. EvalCostErr # NoExc /\ EvalCostErr.kind # "error"
    BY DEF EvalCostErr, NoExc
  <2>2. FramesOk(image, S, frames, NoExc)
    BY <1>1, <1>2 DEF RunOk
  <2> QED BY <2>1, <2>2 DEF FramesOk, TopOk
<1>4. RunOk(image, S, C, b, pending, frames, heap, vars, EvalCostErr, times)
  BY <1>1, <1>3 DEF RunOk, ExcOk
<1>5. RunOk(image', S, C, b, pending', frames', heap', vars', exc', times')
  BY <1>2, <1>4
<1>6. ~internal' /\ Verified(image')
  BY <1>2 DEF StackInv
<1> QED BY <1>5, <1>6 DEF StackInv

LEMMA ResizeTyped ==
    ASSUME NEW S, Void \in S, NEW s \in Seq(S), NEW n \in Nat
    PROVE  Resize(s, n) \in Seq(S) /\ Len(Resize(s, n)) = n
<1>1. ASSUME NEW i \in 1 .. n PROVE (IF i <= Len(s) THEN s[i] ELSE Void) \in S
  OBVIOUS
<1> QED BY <1>1 DEF Resize

\* What catch() leaves fits the shape at its end.
LEMMA ResumedOk ==
    ASSUME NEW im, Verified(im), NEW f, f.obj \in ObjectsOf(im), Placed(im, f),
           f.catches \in Seq(CatchFrames), f.catches # <<>>,
           NEW g, g.prog = f.prog, g.obj = f.obj, g.ip = Last(f.catches).resumeIp,
           g.catches = Front(f.catches), g.locals = f.locals, g.delta = 0,
           Len(g.stack) = Last(f.catches).stackDepth + 1
    PROVE  /\ TopOk(im, g, NoExc)
           /\ ShapeAt(im, g).timers <= ShapeAt(im, f).timers
           /\ ShapeAt(im, g).timers \in Nat
<1> DEFINE m == ShapeAt(im, f)
           i == InstrAt(im, f)
           map == MapsOf(im)[f.prog]
           c == Last(m.catches)
<1>1. FitsAt(im.programs[f.prog].code, map, f.ip)
  BY AtInstruction
<1>2. f.catches = m.catches /\ Len(f.locals) = m.slots /\ f.prog \in LinkedOf(im)[f.obj]
  BY DEF Placed
<1>3. Expects(map, c.resumeIp, Resumed(m))
  BY <1>1, <1>2 DEF FitsAt, ShapeAt
<1>4. m \in Shapes
  BY ShapeTyped
<1>5. /\ Resumed(m).depth = c.stackDepth + 1 /\ Resumed(m).catches = Front(m.catches)
      /\ Resumed(m).spread = 0 /\ Resumed(m).slots = m.slots /\ Resumed(m).timers = m.timers
  BY <1>4 DEF Resumed, Shapes
<1>6. c.stackDepth \in Nat
  BY <1>2, LastCatch
<1>7. ShapeAt(im, g) = map[g.ip] /\ g.ip = c.resumeIp
  BY <1>2 DEF ShapeAt
<1> HIDE DEF c
<1>8. /\ g.ip \in DOMAIN map /\ ShapeAt(im, g).depth = c.stackDepth + 1
      /\ ShapeAt(im, g).catches = Front(m.catches) /\ ShapeAt(im, g).spread = 0
      /\ ShapeAt(im, g).slots = m.slots /\ ShapeAt(im, g).timers <= m.timers
  BY <1>3, <1>5, <1>7 DEF Expects
<1>9. Placed(im, g)
  BY <1>2, <1>8 DEF Placed
<1>10. Running(im, g)
  <2>1. Len(g.stack) = c.stackDepth + 1
    BY <1>2 DEF c
  <2> QED BY <1>6, <1>8, <2>1 DEF Running
<1>11. CatchesHold(g)
  BY <1>9, <1>10, RunningHolds
<1>12. ShapeAt(im, g).timers \in Nat
  BY <1>9, ShapeTyped, ShapeFields
<1> QED BY <1>8, <1>9, <1>10, <1>11, <1>12 DEF TopOk, NoExc

\* An error caught cuts the stack to the depth the catch frame recorded.
LEMMA CatchErrorOk ==
    ASSUME StackInv, CatchError
    PROVE  StackInv'
<1>1. PICK S, C, b : RunOk(image, S, C, b, pending, frames, heap, vars, exc, times)
  BY DEF StackInv
<1> DEFINE c == Last(Top.catches)
           cs == Front(Top.catches)
           s == Append(Resize(Top.stack, c.stackDepth), exc.value)
           g == [Top EXCEPT !.ip = c.resumeIp, !.catches = Front(@),
                            !.stack = Append(Resize(@, c.stackDepth), exc.value)]
<1>2. /\ image' = image /\ pending' = pending /\ frames' = WithTop(g) /\ heap' = heap
      /\ vars' = vars /\ times' = times /\ internal' = internal /\ exc' = NoExc
      /\ frames # <<>> /\ exc.kind = "error" /\ Top.catches # <<>>
  BY DEF CatchError
<1>3. Verified(image) /\ ~internal
  BY DEF StackInv
<1>4. /\ FramesOk(image, S, frames, exc) /\ {Void, Num(0), ErrorText} \subseteq S
      /\ ExcOk(exc, S) /\ TimersOk(image, frames, b, Len(times)) /\ times \in Seq(Nat \X Nat)
      /\ frames \in Seq(Frames(image, S))
  BY <1>1 DEF RunOk, FramesOk
<1>5. Top \in Frames(image, S) /\ TopOk(image, Top, exc)
  BY <1>2, <1>4, TopTyped DEF Top
<1>6. Placed(image, Top) /\ Top.delta = 0
  BY <1>2, <1>5 DEF TopOk
<1>7. /\ Top.prog \in Nat /\ Top.obj \in ObjectsOf(image)
      /\ Top.stack \in Seq(S) /\ Top.locals \in Seq(S) /\ Top.catches \in Seq(CatchFrames)
  BY <1>5, FrameFields
<1>8. c.stackDepth \in Nat /\ c.resumeIp \in Nat
  BY <1>2, <1>7, LastCatch
<1>9. exc.value \in S
  BY <1>2, <1>4 DEF ExcOk, NoExc, EvalCostErr
<1>10. cs \in Seq(CatchFrames)
  BY <1>2, <1>7, FrontProperties
<1>11. g = [Top EXCEPT !.ip = c.resumeIp, !.catches = cs, !.stack = s]
  OBVIOUS
<1> HIDE DEF c
<1>12. s \in Seq(S) /\ Len(s) = c.stackDepth + 1
  <2> DEFINE r == Resize(Top.stack, c.stackDepth)
  <2>1. r \in Seq(S) /\ Len(r) = c.stackDepth
    BY <1>4, <1>7, <1>8, ResizeTyped
  <2> HIDE DEF r
  <2>2. Append(r, exc.value) \in Seq(S) /\ Len(Append(r, exc.value)) = Len(r) + 1
    BY <1>9, <2>1, AppendFacts
  <2> QED BY <2>1, <2>2 DEF r
<1> HIDE DEF g, cs, s
<1>13. g = Changed(Top, c.resumeIp, s, Top.locals, cs, 0)
  BY <1>5, <1>6, <1>11 DEF Changed, Frames
<1>14. Parts(S, c.resumeIp, s, Top.locals, cs, 0)
  BY <1>7, <1>8, <1>10, <1>12 DEF Parts
<1>15. /\ g \in Frames(image, S) /\ g.prog = Top.prog /\ g.obj = Top.obj /\ g.ip = c.resumeIp
       /\ g.stack = s /\ g.locals = Top.locals /\ g.catches = cs /\ g.delta = 0
  BY <1>5, <1>13, <1>14, ChangedParts
<1>16. /\ TopOk(image, g, NoExc)
       /\ ShapeAt(image, g).timers <= ShapeAt(image, Top).timers
       /\ ShapeAt(image, g).timers \in Nat
  BY <1>2, <1>3, <1>6, <1>7, <1>12, <1>15, ResumedOk DEF c, cs
<1>17. FramesOk(image, S, [frames EXCEPT ![Len(frames)] = g], NoExc)
  BY <1>2, <1>4, <1>15, <1>16, TopReplaced
<1>18. ShapeAt(image, Top).timers \in Nat /\ Len(times) \in Nat
  BY <1>3, <1>4, <1>6, <1>7, ShapeTyped, ShapeFields
<1>19. TimersOk(image, [frames EXCEPT ![Len(frames)] = g], b, Len(times))
  <2> DEFINE n == Len(times)
  <2>1. n \in Nat /\ TimersOk(image, frames, b, n) /\ Top = frames[Len(frames)]
    BY <1>4, <1>18 DEF Top
  <2>2. ShapeAt(image, g).timers + n <= ShapeAt(image, Top).timers + n
    BY <1>16, <1>18, <2>1
  <2> HIDE DEF n
  <2>3. TimersOk(image, [frames EXCEPT ![Len(frames)] = g], b, n)
    BY <1>2, <1>4, <1>16, <1>18, <2>1, <2>2, TimersReplaced
  <2> QED BY <2>3 DEF n
<1>20. RunOk(image, S, C, b, pending, [frames EXCEPT ![Len(frames)] = g], heap, vars, NoExc,
             times)
  BY <1>1, <1>17, <1>19 DEF RunOk, ExcOk
<1>21. RunOk(image', S, C, b, pending', frames', heap', vars', exc', times')
  BY <1>2, <1>20 DEF WithTop
<1>22. ~internal' /\ Verified(image')
  BY <1>2, <1>3
<1> QED BY <1>21, <1>22 DEF StackInv

\* An error not caught here leaves the activation, and its caller is as its
\* call left it.
LEMMA UnwindOk ==
    ASSUME StackInv, Unwind
    PROVE  StackInv'
<1>1. PICK S, C, b : RunOk(image, S, C, b, pending, frames, heap, vars, exc, times)
  BY DEF StackInv
<1>2. /\ image' = image /\ frames' = Front(frames) /\ heap' = heap
      /\ vars' = vars /\ times' = times /\ internal' = internal
      /\ frames # <<>> /\ exc # NoExc
      /\ IF Len(frames) = 1 THEN exc' = NoExc /\ pending' = <<>>
         ELSE exc' = exc /\ pending' = pending
  BY DEF Unwind
<1>3. Verified(image) /\ ~internal
  BY DEF StackInv
<1>4. frames \in Seq(Frames(image, S)) /\ Len(frames) \in Nat \ {0}
  BY <1>1, <1>2, TopTyped DEF RunOk, FramesOk
<1>5. ~internal' /\ Verified(image')
  BY <1>2, <1>3
<1>6. CASE Len(frames) = 1
  <2>1. frames' = <<>>
    <3>1. frames' \in Seq(Frames(image, S)) /\ Len(frames') = 0
      BY <1>2, <1>4, <1>6, FrontProperties
    <3> QED BY <3>1
  <2>2. PendingOk(image, <<>>)
    BY DEF PendingOk
  <2>3. RunOk(image, S, C, <<>>, <<>>, <<>>, heap, vars, NoExc, times)
    BY <1>1, <2>2, Emptied
  <2>4. RunOk(image', S, C, <<>>, pending', frames', heap', vars', exc', times')
    BY <1>2, <1>6, <2>1, <2>3
  <2> QED BY <1>5, <2>4 DEF StackInv
<1>7. CASE Len(frames) # 1
  <2>1. Len(frames) > 1
    BY <1>4, <1>7, MoreThanOne
  <2>2. RunOk(image, S, C, Front(b), pending, Front(frames), heap, vars, exc, times)
    BY <1>1, <1>2, <1>3, <2>1, Unwound
  <2>3. RunOk(image', S, C, Front(b), pending', frames', heap', vars', exc', times')
    BY <1>2, <1>7, <2>2
  <2> QED BY <1>5, <2>3 DEF StackInv
<1> QED BY <1>6, <1>7

LEMMA DriverCallOk ==
    ASSUME StackInv, DriverCall
    PROVE  StackInv'
<1>1. PICK S, C, b : RunOk(image, S, C, b, pending, frames, heap, vars, exc, times)
  BY DEF StackInv
<1> DEFINE r == Head(pending)
           f == NewFrame(r, "self", <<>>, Void)
<1>2. /\ image' = image /\ frames' = <<f>> /\ pending' = Tail(pending) /\ heap' = heap
      /\ vars' = vars /\ exc' = exc /\ times' = times /\ internal' = internal
      /\ pending # <<>>
  BY DEF DriverCall
<1>3. Verified(image) /\ ~internal
  BY DEF StackInv
<1>4. "self" \in ObjectsOf(image)
  BY DEF ObjectsOf
<1>5. r \in FunctionRefs(image.programs, LinkedOf(image)["self"])
      /\ PendingOk(image, Tail(pending))
  <2> DEFINE R == FunctionRefs(image.programs, LinkedOf(image)["self"])
  <2>1. pending \in Seq(R)
    BY <1>1 DEF RunOk, PendingOk
  <2> HIDE DEF R
  <2>2. r \in R /\ Tail(pending) \in Seq(R)
    BY <1>2, <2>1
  <2> QED BY <2>2 DEF PendingOk, R
<1>6. Void \in S /\ Num(0) \in S
  BY <1>1 DEF RunOk
<1> HIDE DEF r
<1>7. f \in Frames(image, S) /\ TopOk(image, f, NoExc) /\ ShapeAt(image, f).timers = 0
  <2>1. <<>> \in Seq(S)
    OBVIOUS
  <2> QED BY <1>3, <1>4, <1>5, <1>6, <2>1, CalleeOk
<1>8. f.delta = 0
  BY DEF NewFrame
<1> HIDE DEF f
<1>9. TopOk(image, f, exc)
  BY <1>7, <1>8 DEF TopOk
<1>10. FramesOk(image, S, <<f>>, exc)
  <2>1. /\ <<f>> \in Seq(Frames(image, S)) /\ Len(<<f>>) = 1 /\ <<f>>[1] = f
    BY <1>7
  <2>2. 1 .. Len(<<f>>) - 1 = {}
    BY <2>1
  <2> QED BY <1>9, <2>1, <2>2 DEF FramesOk
<1>11. TimersOk(image, <<f>>, <<0>>, Len(times))
  <2>1. Len(times) \in Nat
    BY <1>1 DEF RunOk
  <2>2. Len(<<f>>) = 1 /\ <<f>>[1] = f /\ <<0>> \in Seq(Nat) /\ Len(<<0>>) = 1 /\ <<0>>[1] = 0
    OBVIOUS
  <2>3. ASSUME NEW k \in 1 .. Len(<<f>>)
        PROVE  <<0>>[k] + ShapeAt(image, <<f>>[k]).timers
                 <= IF k = Len(<<f>>) THEN Len(times) ELSE <<0>>[k + 1]
    <3>1. k = 1
      BY <2>2
    <3> QED BY <1>7, <2>1, <2>2, <3>1
  <2> QED BY <2>2, <2>3 DEF TimersOk
<1>12. RunOk(image, S, C, <<0>>, Tail(pending), <<f>>, heap, vars, exc, times)
  BY <1>1, <1>5, <1>10, <1>11 DEF RunOk
<1>13. RunOk(image', S, C, <<0>>, pending', frames', heap', vars', exc', times')
  BY <1>2, <1>12
<1>14. ~internal' /\ Verified(image')
  BY <1>2, <1>3
<1> QED BY <1>13, <1>14 DEF StackInv

-----------------------------------------------------------------------------
(* Every step, and what follows *)

LEMMA LoadCallsOk ==
    ASSUME Verified(image)
    PROVE  PendingOk(image, LoadCalls)
<1> DEFINE L == LinkedOf(image)["self"]
           R == FunctionRefs(image.programs, L)
           inits == InitializerCalls(Programs, image.object)
           create == findFunctionInChain(Programs, image.object, "create")
<1>1. "self" \in ObjectsOf(image) /\ Main(image, "self") = image.object
  BY DEF ObjectsOf, Main
<1>2. Ordered(image.programs) /\ ClosedChain(image.programs, L) /\ image.object \in L
  BY <1>1, VerifiedOrdered
<1>3. inits \in Seq(R)
  BY <1>2, InitializersInChain DEF Programs
<1>4. create # NotFound => create \in R
  BY <1>2, FoundInChain DEF Programs
<1>5. LoadCalls = inits \o (IF create = NotFound THEN <<>> ELSE <<create>>)
  BY DEF LoadCalls
<1> HIDE DEF R, inits, create
<1>6. (IF create = NotFound THEN <<>> ELSE <<create>>) \in Seq(R)
  BY <1>4
<1>7. LoadCalls \in Seq(R)
  <2> DEFINE t == IF create = NotFound THEN <<>> ELSE <<create>>
  <2>1. t \in Seq(R) /\ LoadCalls = inits \o t
    BY <1>5, <1>6
  <2> HIDE DEF t
  <2> QED BY <1>3, <2>1
<1> QED BY <1>7 DEF PendingOk, R

\* An image with a stack map starts in order.
LEMMA InitOk ==
    ASSUME \A i \in DOMAIN ImageTable : Verified(ImageTable[i]), Init
    PROVE  StackInv
<1> DEFINE S == {Void, Num(0), ErrorText}
<1>1. Verified(image) /\ frames = <<>> /\ heap = <<>> /\ exc = NoExc /\ times = <<>>
      /\ pending = LoadCalls /\ internal = FALSE
  BY DEF Init
<1>2. PendingOk(image, pending)
  BY <1>1, LoadCallsOk
<1>3. HeapOk(heap, S, {}, ObjectsOf(image))
  <2>1. GoodValue(Void, heap) /\ GoodValue(Num(0), heap) /\ GoodValue(ErrorText, heap)
    BY Immediate DEF ErrorText
  <2>2. heap \in Seq({})
    BY <1>1
  <2> QED BY <2>1, <2>2 DEF HeapOk
<1>4. VarsOk(image, S, vars)
  <2>1. vars = [o \in {"self", "simul"} |->
                 IF o = "simul" /\ image.simul = 0 THEN <<>>
                 ELSE [i \in DOMAIN Programs[ProgramOf(o)].names |-> Num(0)]]
    BY DEF Init
  <2>2. DOMAIN vars = {"self", "simul"}
    BY <2>1
  <2>3. ASSUME NEW o \in ObjectsOf(image)
        PROVE  vars[o] \in [DOMAIN image.programs[Main(image, o)].names -> S]
    <3>1. o \in {"self", "simul"} /\ ~(o = "simul" /\ image.simul = 0)
      BY DEF ObjectsOf
    <3>2. vars[o] = [i \in DOMAIN Programs[ProgramOf(o)].names |-> Num(0)]
      BY <2>1, <3>1
    <3>3. Programs[ProgramOf(o)] = image.programs[Main(image, o)]
      BY DEF Programs, ProgramOf, Main
    <3>4. Num(0) \in S
      OBVIOUS
    <3> HIDE DEF S
    <3> QED BY <3>2, <3>3, <3>4
  <2> QED BY <2>2, <2>3 DEF VarsOk
<1>5. FramesOk(image, S, <<>>, NoExc) /\ TimersOk(image, <<>>, <<>>, Len(times))
  BY DEF FramesOk, TimersOk
<1>6. times \in Seq(Nat \X Nat)
  BY <1>1
<1> HIDE DEF S
<1>7. {Void, Num(0), ErrorText} \subseteq S
  BY DEF S
<1>8. RunOk(image, S, {}, <<>>, pending, frames, heap, vars, exc, times)
  BY <1>1, <1>2, <1>3, <1>4, <1>5, <1>6, <1>7 DEF RunOk, ExcOk
<1> QED BY <1>1, <1>8 DEF StackInv

\* Each instruction of run() keeps the run in order.
LEMMA InstructionOk ==
    ASSUME StackInv, Instruction
    PROVE  StackInv'
<1>1. PICK S, C, b : RunOk(image, S, C, b, pending, frames, heap, vars, exc, times)
  BY DEF StackInv
<1>2. Verified(image) /\ ~internal
  BY DEF StackInv
<1>3. frames # <<>> /\ exc = NoExc
  BY FetchKeeps DEF Instruction, PushConst, PushLocal, StoreLocal, PushObjectVar, StoreObjectVar,
     Binary, Not, BitNot, Pop, Dup, Jump, JumpIfFalse, ForeachKeys, Index, RangeIndex,
     IndexAssign, ExpandVarargs, MakeArray, MakeMapping, PushClosure, Call, CallParent, CallEfun,
     WithArguments, Return, PushCatchFrame, PopCatchFrame, TimeExpressionStart,
     TimeExpressionEnd
<1>4. Ready(S, C, b)
  BY <1>1, <1>2, <1>3 DEF Ready
<1> QED
  BY <1>2, <1>4, PushConstOk, PushLocalOk, StoreLocalOk, PushObjectVarOk, StoreObjectVarOk,
     BinaryStepOk, NotStepOk, BitNotStepOk, PopOk, DupOk, JumpOk, JumpIfFalseOk,
     ForeachKeysStepOk, IndexStepOk, RangeIndexStepOk, IndexAssignStepOk, ExpandVarargsOk,
     MakeArrayOk, MakeMappingOk, PushClosureOk, CallOk, CallParentOk, CallEfunOk, ReturnOk,
     PushCatchFrameOk, PopCatchFrameOk, TimeExpressionStartOk, TimeExpressionEndOk, Zenon
     DEF Instruction

\* So does every step: instructions, exceptions and the calls of the load.
LEMMA NextOk ==
    ASSUME StackInv, [Next]_vmVars
    PROVE  StackInv'
<1>1. CASE UNCHANGED vmVars
  <2>1. PICK S, C, b : RunOk(image, S, C, b, pending, frames, heap, vars, exc, times)
    BY DEF StackInv
  <2>2. /\ image' = image /\ pending' = pending /\ frames' = frames /\ heap' = heap
        /\ vars' = vars /\ times' = times /\ internal' = internal /\ exc' = exc
    BY <1>1 DEF vmVars
  <2>3. RunOk(image', S, C, b, pending', frames', heap', vars', exc', times')
    BY <2>1, <2>2
  <2>4. ~internal' /\ Verified(image')
    BY <2>2 DEF StackInv
  <2> QED BY <2>3, <2>4 DEF StackInv
<1>2. CASE Next
  BY <1>2, DriverCallOk, InstructionOk, EvalCostExceededOk, CatchErrorOk, UnwindOk, Zenon DEF Next
<1> QED BY <1>1, <1>2

\* The catch frames of an activation, innermost last, ask for no more stack
\* than there is.
LEMMA CatchesOrdered ==
    ASSUME NEW im, Verified(im), NEW S, NEW f \in Frames(im, S), Placed(im, f), CatchesHold(f),
           NEW i \in DOMAIN f.catches
    PROVE  /\ f.catches[i].stackDepth <= Len(f.stack)
           /\ i > 1 => f.catches[i - 1].stackDepth <= f.catches[i].stackDepth
<1> DEFINE cs == f.catches
           n == Len(cs)
<1>1. /\ f.obj \in ObjectsOf(im) /\ f.stack \in Seq(S) /\ cs \in Seq(CatchFrames)
  BY FrameFields
<1>2. Len(f.stack) \in Nat
  BY <1>1
<1>3. \A j, k \in DOMAIN cs : j <= k => cs[j].stackDepth <= cs[k].stackDepth
  BY <1>1, AtInstruction DEF FitsAt, Placed, ShapeAt
<1> HIDE DEF cs
<1>4. i \in 1 .. n /\ n \in Nat /\ cs # <<>> /\ DOMAIN cs = 1 .. n
  BY <1>1 DEF cs
<1>5. cs[n].stackDepth <= Len(f.stack)
  <2>1. Last(cs).stackDepth <= Len(f.stack)
    BY <1>4 DEF CatchesHold, cs
  <2> QED BY <1>1, <1>4, <2>1, LastCatch
<1>6. cs[i].stackDepth \in Nat /\ cs[n].stackDepth \in Nat
  <2>1. cs[i] \in CatchFrames /\ cs[n] \in CatchFrames
    BY <1>1, <1>4
  <2> QED BY <2>1 DEF CatchFrames
<1>7. cs[i].stackDepth <= cs[n].stackDepth
  <2>1. i \in DOMAIN cs /\ n \in DOMAIN cs /\ i <= n
    BY <1>4
  <2> QED BY <1>3, <2>1
<1>8. i > 1 => cs[i - 1].stackDepth <= cs[i].stackDepth
  <2> SUFFICES ASSUME i > 1 PROVE cs[i - 1].stackDepth <= cs[i].stackDepth
    OBVIOUS
  <2>1. i - 1 \in DOMAIN cs /\ i \in DOMAIN cs /\ i - 1 <= i
    BY <1>4
  <2> QED BY <1>3, <2>1
<1>9. cs[i].stackDepth <= Len(f.stack)
  BY <1>2, <1>5, <1>6, <1>7
<1> QED BY <1>8, <1>9 DEF cs

\* What StackDiscipline asks is part of the map.
LEMMA InvDisciplined ==
    ASSUME StackInv
    PROVE  StackDiscipline
<1>1. PICK S, C, b : RunOk(image, S, C, b, pending, frames, heap, vars, exc, times)
  BY DEF StackInv
<1>2. Verified(image) /\ ~internal
  BY DEF StackInv
<1>3. FramesOk(image, S, frames, exc) /\ frames \in Seq(Frames(image, S))
  BY <1>1 DEF RunOk, FramesOk
<1>4. ASSUME NEW k \in DOMAIN frames, NEW i \in DOMAIN frames[k].catches
      PROVE  /\ frames[k].catches[i].stackDepth <= Len(frames[k].stack)
             /\ i > 1 => frames[k].catches[i - 1].stackDepth <= frames[k].catches[i].stackDepth
  <2> DEFINE f == frames[k]
  <2>1. k \in 1 .. Len(frames) /\ Len(frames) \in Nat /\ frames # <<>>
    BY <1>3
  <2>2. f \in Frames(image, S) /\ Placed(image, f)
    BY <1>2, <1>3, <2>1, AllTimersNat
  <2>3. CatchesHold(f)
    <3>1. CASE k = Len(frames)
      BY <1>3, <2>1, <3>1 DEF FramesOk, TopOk
    <3>2. CASE k # Len(frames)
      <4>1. k \in 1 .. Len(frames) - 1
        BY <2>1, <3>2
      <4>2. Waiting(image, f)
        BY <1>3, <4>1 DEF FramesOk
      <4>3. f.obj \in ObjectsOf(image) /\ f.stack \in Seq(S)
        BY <2>2, FrameFields
      <4>4. Len(f.stack) \in Nat
        BY <4>3
      <4> QED BY <1>2, <2>2, <4>2, <4>3, <4>4, WaitingHolds
    <3> QED BY <3>1, <3>2
  <2> HIDE DEF f
  <2>4. \A j \in DOMAIN f.catches :
          /\ f.catches[j].stackDepth <= Len(f.stack)
          /\ j > 1 => f.catches[j - 1].stackDepth <= f.catches[j].stackDepth
    BY <1>2, <2>2, <2>3, CatchesOrdered
  <2> QED BY <2>4 DEF f
<1>5. ASSUME frames # <<>>, exc = NoExc, Instr.op = "Return"
      PROVE  Len(Top.stack) <= 1 /\ Top.catches = <<>>
  <2>1. Ready(S, C, b)
    BY <1>1, <1>2, <1>5 DEF Ready
  <2>2. Shape.depth <= 1 /\ Shape.catches = <<>>
    BY <1>5, <2>1, TopFacts DEF NeedsMet
  <2>3. Instr.op \notin SpreadTakers \union {"ExpandVarargs"}
    BY <1>5 DEF SpreadTakers, Calls
  <2>4. Len(Top.stack) = Shape.depth /\ Top.catches = Shape.catches
    BY <2>1, <2>3, NoSpread, TopRecord
  <2> QED BY <2>2, <2>4
<1> QED BY <1>2, <1>4, <1>5 DEF StackDiscipline

\* Every reference on an operand stack, in a local or in an object variable
\* leads to a heap cell of its kind: the interpreter never reads an array as
\* a mapping, nor a cell that is not there.
ReferencesLead ==
    /\ \A k \in DOMAIN frames :
         /\ \A i \in DOMAIN frames[k].stack : GoodValue(frames[k].stack[i], heap)
         /\ \A i \in DOMAIN frames[k].locals : GoodValue(frames[k].locals[i], heap)
    /\ \A o \in ObjectsOf(image) :
         \A i \in DOMAIN vars[o] : GoodValue(vars[o][i], heap)

LEMMA InvLeads ==
    ASSUME StackInv
    PROVE  ReferencesLead
<1>1. PICK S, C, b : RunOk(image, S, C, b, pending, frames, heap, vars, exc, times)
  BY DEF StackInv
<1>2. \A v \in S : GoodValue(v, heap)
  BY <1>1 DEF RunOk, HeapOk
<1>3. frames \in Seq(Frames(image, S)) /\ VarsOk(image, S, vars)
  BY <1>1 DEF RunOk, FramesOk
<1>4. ASSUME NEW k \in DOMAIN frames
      PROVE  /\ \A i \in DOMAIN frames[k].stack : GoodValue(frames[k].stack[i], heap)
             /\ \A i \in DOMAIN frames[k].locals : GoodValue(frames[k].locals[i], heap)
  <2>1. frames[k] \in Frames(image, S)
    BY <1>3
  <2>2. frames[k].stack \in Seq(S) /\ frames[k].locals \in Seq(S)
    BY <2>1, FrameFields
  <2>3. /\ \A i \in DOMAIN frames[k].stack : frames[k].stack[i] \in S
        /\ \A i \in DOMAIN frames[k].locals : frames[k].locals[i] \in S
    BY <2>2
  <2> QED BY <1>2, <2>3
<1>5. ASSUME NEW o \in ObjectsOf(image), NEW i \in DOMAIN vars[o]
      PROVE  GoodValue(vars[o][i], heap)
  <2>1. vars[o] \in [DOMAIN image.programs[Main(image, o)].names -> S]
    BY <1>3 DEF VarsOk
  <2>2. vars[o][i] \in S
    BY <2>1
  <2> QED BY <1>2, <2>2
<1> QED BY <1>4, <1>5 DEF ReferencesLead

\* Whatever verified code the driver loads, the activations stay as their
\* stack maps say through every instruction, call, return, catch() and
\* unwinding of VM::run() (VM.cpp's interpreter loop), and its values and heap
\* stay typed.
THEOREM StackInvariant ==
    ASSUME \A i \in DOMAIN ImageTable : Verified(ImageTable[i])
    PROVE  Spec => []StackInv
<1>1. Init => StackInv
  BY InitOk
<1>2. StackInv /\ [Next]_vmVars => StackInv'
  BY NextOk
<1> QED BY <1>1, <1>2, PTL DEF Spec

\* In verified code catch frames never point above the operand stack nor out
\* of order, a Return leaves nothing behind, and none of run()'s internal
\* checks ("StoreLocal: stack underflow" and its like, VM.cpp) ever fires.
THEOREM StackIsDisciplined ==
    ASSUME \A i \in DOMAIN ImageTable : Verified(ImageTable[i])
    PROVE  Spec => []StackDiscipline
<1>1. StackInv => StackDiscipline
  BY InvDisciplined
<1> QED BY <1>1, StackInvariant, PTL

\* In verified code no step of run() leaves a value whose array, mapping or
\* closure is not there or of another kind (in VM.cpp the shared_ptr of a
\* Value's variant; in the model an index into the heap).
THEOREM ReferencesAreSound ==
    ASSUME \A i \in DOMAIN ImageTable : Verified(ImageTable[i])
    PROVE  Spec => []ReferencesLead
<1>1. StackInv => ReferencesLead
  BY InvLeads
<1> QED BY <1>1, StackInvariant, PTL

=============================================================================
