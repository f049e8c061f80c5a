------------------------------- MODULE Values -------------------------------
(***************************************************************************)
(* The run-time values of the driver's bytecode machine (Value.hpp,        *)
(* Value.cpp) and the operators VM::run() applies to them.                 *)
(*                                                                         *)
(* A value is a pair <<tag, data>>.  Ints and strings are immediate; an    *)
(* array, a mapping and a closure are shared_ptrs in the code, so here     *)
(* they are references into a heap and two variables can alias one cell.   *)
(* A string is a sequence of opaque pieces: "+" on strings is              *)
(* concatenation, a formatted number is one piece.                         *)
(*                                                                         *)
(* Left out: double, Symbol, Nil, Buffer and object values, class          *)
(* instances, mappings with more than one value column, and the 64-bit     *)
(* width of ints (the programs checked stay far inside it).                *)
(***************************************************************************)
EXTENDS Integers, Sequences, SequencesExt, TLC

Void    == <<"void", 0>>        \* std::monostate
Num(n)  == <<"int", n>>
Str(s)  == <<"str", s>>
Arr(r)  == <<"arr", r>>
Bool(b) == Num(IF b THEN 1 ELSE 0)

\* The value catch() yields for an LpcRuntimeError: its message, one piece.
ErrorText == Str(<<"error">>)

Tag(v) == v[1]

IsTag(v, t) == Tag(v) = t

\* Heap cells: what a shared_ptr<Array>, <Mapping> or <Closure> points at.
ArrayCell(items)     == [kind |-> "arr", items |-> items]
MappingCell(entries) == [kind |-> "map", items |-> entries]
ClosureCell(owner, name, bound, home) ==
    [kind |-> "fun", items |-> bound, owner |-> owner, name |-> name,
     home |-> home]

\* An empty string is falsy here; an empty array or mapping is not.
isTruthy(v) ==
    CASE Tag(v) = "void" -> FALSE
      [] Tag(v) = "int"  -> v[2] # 0
      [] Tag(v) = "str"  -> v[2] # <<>>
      [] OTHER           -> TRUE

\* valuesEqual() has no case for arrays and mappings: they fall through to
\* its final "return false", the same array compared with itself included.
valuesEqual(a, b) ==
    /\ Tag(a) = Tag(b)
    /\ Tag(a) \notin {"arr", "map"}
    /\ Tag(a) = "void" \/ a[2] = b[2]

asArithmeticOperand(v) == Tag(v) \in {"int", "void"}

Numeric(v) == IF Tag(v) = "int" THEN v[2] ELSE 0

formatNumberForConcat(v) == <<ToString(Numeric(v))>>

-----------------------------------------------------------------------------
(***************************************************************************)
(* Operator results.  Ok(v) pushes v; Alloc(c) pushes a reference to the   *)
(* new heap cell c; Fail throws an LpcRuntimeError.                        *)
(***************************************************************************)
Ok(v)    == [kind |-> "ok", value |-> v]
Alloc(c) == [kind |-> "alloc", cell |-> c]
Fail     == [kind |-> "fail"]

\* C++ division of two ints: truncation towards zero.
Quotient(a, b) ==
    LET q == (IF a < 0 THEN -a ELSE a) \div (IF b < 0 THEN -b ELSE b)
    IN  IF (a < 0) = (b < 0) THEN q ELSE -q

Remainder(a, b) == a - b * Quotient(a, b)

Includes(items, v) == \E i \in DOMAIN items : valuesEqual(items[i], v)

\* Position of a key in a mapping cell, 0 when it is missing.
KeyIndex(entries, key) ==
    LET hit == {i \in DOMAIN entries : valuesEqual(entries[i][1], key)}
    IN  IF hit = {} THEN 0 ELSE Min(hit)

WithEntry(entries, key, value) ==
    LET i == KeyIndex(entries, key)
    IN  IF i = 0 THEN Append(entries, <<key, value>>)
        ELSE [entries EXCEPT ![i] = <<entries[i][1], value>>]

\* Right entries replace left entries of the same key, in the left's
\* position; new keys follow.
MergeEntries(left, right) ==
    LET merged[i \in 0 .. Len(right)] ==
          IF i = 0 THEN left
          ELSE WithEntry(merged[i - 1], right[i][1], right[i][2])
    IN  merged[Len(right)]

\* The items that occur, or do not occur, among the others.
Filtered(items, others, occurs) ==
    LET kept[i \in 0 .. Len(items)] ==
          IF i = 0 THEN <<>>
          ELSE IF Includes(others, items[i]) = occurs
               THEN Append(kept[i - 1], items[i]) ELSE kept[i - 1]
    IN  kept[Len(items)]

AddResult(l, r, heap) ==
    CASE IsTag(l, "str") /\ IsTag(r, "str") -> Ok(Str(l[2] \o r[2]))
      [] IsTag(l, "str") /\ asArithmeticOperand(r) ->
            Ok(Str(l[2] \o formatNumberForConcat(r)))
      [] asArithmeticOperand(l) /\ IsTag(r, "str") ->
            Ok(Str(formatNumberForConcat(l) \o r[2]))
      [] IsTag(l, "arr") /\ IsTag(r, "arr") ->
            Alloc(ArrayCell(heap[l[2]].items \o heap[r[2]].items))
      [] asArithmeticOperand(l) /\ asArithmeticOperand(r) ->
            Ok(Num(Numeric(l) + Numeric(r)))
      [] IsTag(l, "map") /\ IsTag(r, "map") ->
            Alloc(MappingCell(MergeEntries(heap[l[2]].items, heap[r[2]].items)))
      [] OTHER -> Fail

\* Sub, Mul, Div and Mod; Sub of two arrays is set difference.
ArithmeticResult(op, l, r, heap) ==
    IF op = "Sub" /\ IsTag(l, "arr") /\ IsTag(r, "arr")
    THEN Alloc(ArrayCell(Filtered(heap[l[2]].items, heap[r[2]].items, FALSE)))
    ELSE IF ~(asArithmeticOperand(l) /\ asArithmeticOperand(r)) THEN Fail
    ELSE IF op \in {"Div", "Mod"} /\ Numeric(r) = 0 THEN Fail
    ELSE Ok(Num(CASE op = "Sub" -> Numeric(l) - Numeric(r)
                  [] op = "Mul" -> Numeric(l) * Numeric(r)
                  [] op = "Div" -> Quotient(Numeric(l), Numeric(r))
                  [] op = "Mod" -> Remainder(Numeric(l), Numeric(r))))

\* Two's complement, cut to a width the programs checked fit in.
WordBits == 16

Bit(n, k) == (n \div 2^k) % 2

BitwiseInt(op, a, b) ==
    LET bit(k) == CASE op = "BitAnd" -> Bit(a, k) * Bit(b, k)
                    [] op = "BitOr"  -> Max({Bit(a, k), Bit(b, k)})
                    [] op = "BitXor" -> (Bit(a, k) + Bit(b, k)) % 2
    IN  MapThenSumSet(LAMBDA k : 2^k * bit(k), 0 .. WordBits - 2)
          - 2^(WordBits - 1) * bit(WordBits - 1)

\* "&", "|", "^" and the shifts; "&" of two arrays is set intersection.  A
\* shift count outside 0..63 is undefined in the code: no program has one.
BitResult(op, l, r, heap) ==
    IF op = "BitAnd" /\ IsTag(l, "arr") /\ IsTag(r, "arr")
    THEN Alloc(ArrayCell(Filtered(heap[l[2]].items, heap[r[2]].items, TRUE)))
    ELSE IF ~(IsTag(l, "int") /\ IsTag(r, "int")) THEN Fail
    ELSE Ok(Num(CASE op = "Shl" -> l[2] * 2^r[2]
                  [] op = "Shr" -> l[2] \div 2^r[2]
                  [] OTHER      -> BitwiseInt(op, l[2], r[2])))

BitNotResult(v) == IF IsTag(v, "int") THEN Ok(Num(-v[2] - 1)) ELSE Fail

BitOps == {"BitAnd", "BitOr", "BitXor", "Shl", "Shr"}

CompareResult(op, l, r) ==
    IF ~(asArithmeticOperand(l) /\ asArithmeticOperand(r)) THEN Fail
    ELSE LET a == Numeric(l)  b == Numeric(r)
         IN  Ok(Bool(CASE op = "Lt"  -> a < b
                       [] op = "Lte" -> a <= b
                       [] op = "Gt"  -> a > b
                       [] op = "Gte" -> a >= b))

EqualityResult(op, l, r) == Ok(Bool(valuesEqual(l, r) = (op = "Eq")))

BinaryResult(op, l, r, heap) ==
    CASE op \in {"Eq", "Neq"}               -> EqualityResult(op, l, r)
      [] op \in {"Lt", "Lte", "Gt", "Gte"}  -> CompareResult(op, l, r)
      [] op = "Add"                         -> AddResult(l, r, heap)
      [] op \in BitOps                      -> BitResult(op, l, r, heap)
      [] OTHER                              -> ArithmeticResult(op, l, r, heap)

BinaryOps == {"Eq", "Neq", "Lt", "Lte", "Gt", "Gte", "Add", "Sub", "Mul",
              "Div", "Mod"} \union BitOps

\* target[index]; fromEnd is the "<" of target[<index].  Array positions are
\* 0-based in LPC.  A missing mapping key reads as monostate.
IndexResult(target, index, fromEnd, heap) ==
    CASE IsTag(target, "arr") /\ IsTag(index, "int") ->
            LET items == heap[target[2]].items
                i     == IF fromEnd THEN Len(items) - index[2] ELSE index[2]
            IN  IF i \in 0 .. Len(items) - 1 THEN Ok(items[i + 1]) ELSE Fail
      [] IsTag(target, "map") ->
            LET entries == heap[target[2]].items
                i       == KeyIndex(entries, index)
            IN  Ok(IF i = 0 THEN Void ELSE entries[i][2])
      [] OTHER -> Fail

\* target[index] = value: the changed cell, or Fail.
IndexAssignResult(target, index, value, heap) ==
    CASE IsTag(target, "arr") /\ IsTag(index, "int") ->
            IF index[2] \in 0 .. Len(heap[target[2]].items) - 1
            THEN Alloc([heap[target[2]] EXCEPT !.items[index[2] + 1] = value])
            ELSE Fail
      [] IsTag(target, "map") ->
            Alloc(MappingCell(WithEntry(heap[target[2]].items, index, value)))
      [] OTHER -> Fail

\* target[start..end] on arrays and strings: the positions that exist.
Slice(items, first, last) ==
    LET span == {i \in DOMAIN items : first < i /\ i <= last + 1}
    IN  IF span = {} THEN <<>> ELSE SubSeq(items, Min(span), Max(span))

RangeResult(target, start, end, startFromEnd, endFromEnd, heap) ==
    IF ~(IsTag(start, "int") /\ IsTag(end, "int")) THEN Fail
    ELSE IF ~startFromEnd /\ start[2] < 0 THEN Fail
    ELSE LET items == IF IsTag(target, "arr") THEN heap[target[2]].items
                      ELSE target[2]
             slice == Slice(items,
                            IF startFromEnd THEN Len(items) - start[2] ELSE start[2],
                            IF endFromEnd THEN Len(items) - end[2] ELSE end[2])
         IN  CASE IsTag(target, "arr") -> Alloc(ArrayCell(slice))
               [] IsTag(target, "str") -> Ok(Str(slice))
               [] OTHER                -> Fail

\* What foreach walks: the array itself, or a new array of the keys.
ForeachKeysResult(v, heap) ==
    CASE IsTag(v, "arr") -> Ok(v)
      [] IsTag(v, "map") ->
            Alloc(ArrayCell([i \in DOMAIN heap[v[2]].items |->
                               heap[v[2]].items[i][1]]))
      [] OTHER -> Fail
=============================================================================
