--------------------------- MODULE TransferProofs ---------------------------
(***************************************************************************)
(* Proofs about Transfer, for every width of the registers and every       *)
(* count and stride: the type invariant, and the three properties the run  *)
(* checks.  No byte is misplaced because the two addresses are equal, as   *)
(* offsets, at all times.  For what is copied and what is outside of the   *)
(* arrays the offsets are undone: every byte has a signed distance from    *)
(* the first element (Lo .. Hi), every turn a signed one from the turn     *)
(* before (Pace), and the invariant March says that the turns so far were  *)
(* in the arrays by those distances, not only modulo the registers' width. *)
(***************************************************************************)
EXTENDS Transfer, TLAPS

\* The two addresses advance together.
Aligned == x0 = x1

IInv == TypeOK /\ Aligned /\ NoMisplacedByte

----------------------------------------------------------------------------
(* The functions and the arrays *)

\* What the proofs need of a function: its sizes are numbers, what a turn
\* moves and what its step counts are neither nothing nor more than the element.
Sized(f) ==
    /\ f.unit \in Nat /\ f.scale \in Nat /\ f.size \in Nat
    /\ f.unit > 0 /\ f.scale > 0 /\ f.unit <= f.size /\ f.scale <= f.size

\* The functions of one row are sized if the row is.
LEMMA FunctionsSized ==
    ASSUME NEW op, NEW nbs, NEW types, NEW unit \in Nat \ {0},
           NEW scale \in Nat \ {0}, NEW size \in Nat, NEW lp, unit <= size, scale <= size,
           NEW f \in Functions(op, nbs, types, unit, scale, size, lp)
    PROVE  Sized(f)
BY DEF Functions, Sized

\* So are the functions of the rows that hold both forms of a call.
LEMMA BothSized ==
    ASSUME NEW op, NEW types, NEW unit \in Nat \ {0}, NEW size \in Nat, unit <= size,
           NEW f \in Both(op, types, unit, size)
    PROVE  Sized(f)
BY FunctionsSized DEF Both

\* Those of the blocking rows are sized ...
LEMMA BlockingSized ==
    ASSUME NEW op, NEW types, NEW unit \in Nat \ {0},
           NEW scale \in Nat \ {0}, NEW size \in Nat, NEW lp, unit <= size, scale <= size,
           NEW f \in Blocking(op, types, unit, scale, size, lp)
    PROVE  Sized(f)
BY FunctionsSized DEF Blocking

\* ... and those of the others.
LEMMA NonBlockingSized ==
    ASSUME NEW op, NEW types, NEW unit \in Nat \ {0},
           NEW scale \in Nat \ {0}, NEW size \in Nat, NEW lp, unit <= size, scale <= size,
           NEW f \in NonBlocking(op, types, unit, scale, size, lp)
    PROVE  Sized(f)
BY FunctionsSized DEF NonBlocking

\* Every function of the model is sized.
LEMMA FunctionSized ==
    ASSUME NEW f \in Function
    PROVE  Sized(f)
<1>1. CASE f \in FloatPuts
    BY <1>1, BothSized DEF FloatPuts
<1>2. CASE f \in CharPuts
    BY <1>2, BothSized DEF CharPuts
<1>3. CASE f \in IntPuts
    BY <1>3, BothSized, BlockingSized, NonBlockingSized DEF IntPuts
<1>4. CASE f \in UnsignedPuts
    BY <1>4, BothSized DEF UnsignedPuts
<1>5. CASE f \in UlongPuts
    BY <1>5, BothSized DEF UlongPuts
<1>6. CASE f \in FixedPuts
    BY <1>6, BothSized DEF FixedPuts
<1>7. CASE f \in UfixedPuts
    BY <1>7, BothSized DEF UfixedPuts
<1>8. CASE f \in WidePuts
    BY <1>8, BothSized DEF WidePuts
<1>9. CASE f \in FloatGets
    BY <1>9, BothSized DEF FloatGets
<1>10. CASE f \in CharGets
    BY <1>10, BothSized, BlockingSized, NonBlockingSized DEF CharGets
<1>11. CASE f \in IntGets
    BY <1>11, BothSized, BlockingSized, NonBlockingSized DEF IntGets
<1>12. CASE f \in UnsignedGets
    BY <1>12, BothSized DEF UnsignedGets
<1>13. CASE f \in UlongGets
    BY <1>13, BothSized DEF UlongGets
<1>14. CASE f \in FixedGets
    BY <1>14, BothSized DEF FixedGets
<1>15. CASE f \in UfixedGets
    BY <1>15, BothSized DEF UfixedGets
<1>16. CASE f \in WideGets
    BY <1>16, BothSized DEF WideGets
<1>17. CASE f \in UNION {RuntimeUlonglongGet, RuntimeLonglongGet,
                         RuntimeLonglongPut, RuntimeIntGet, RuntimeIntPut}
    BY <1>17, BlockingSized DEF RuntimeUlonglongGet, RuntimeLonglongGet,
       RuntimeLonglongPut, RuntimeIntGet, RuntimeIntPut
<1>18. CASE f \in UNION {OneQueueUlonglongGet, Oct18UlonglongGet,
                         Oct18LonglongGet, Oct18LonglongPut,
                         Oct22UlonglongGet, Oct22LonglongGet, Oct22LonglongPut}
    BY <1>18, BlockingSized DEF OneQueueUlonglongGet, Oct18UlonglongGet,
       Oct18LonglongGet, Oct18LonglongPut, Oct22UlonglongGet,
       Oct22LonglongGet, Oct22LonglongPut
<1> QED
    BY <1>1, <1>2, <1>3, <1>4, <1>5, <1>6, <1>7, <1>8, <1>9, <1>10, <1>11,
       <1>12, <1>13, <1>14, <1>15, <1>16, <1>17, <1>18 DEF Function

\* What the properties say of a function's type, its sizes say too ...
Kind(f) ==
    /\ f.unit < f.size <=> f.type \in Halved
    /\ f.lp = "none" <=> f \in RuntimeLonglongPut
    /\ f.scale < f.size => f.type = "int"
    /\ f.lp = "lone" => f.type = "char" /\ f.op = "get"

\* ... and whether it blocks, for the types that mix it up.
Blocks(f) ==
    /\ f.type = "int" => (f.scale < f.size <=> f.nb)
    /\ f.type = "char" /\ f.op = "get" => (f.lp = "lone" <=> ~f.nb)

\* The fields of the functions of one row.
LEMMA RowFields ==
    ASSUME NEW op, NEW nbs, NEW types, NEW unit, NEW scale, NEW size, NEW lp,
           NEW f \in Functions(op, nbs, types, unit, scale, size, lp)
    PROVE  /\ f.op = op /\ f.nb \in nbs /\ f.type \in types /\ f.lp = lp
           /\ f.unit = unit /\ f.scale = scale /\ f.size = size
BY DEF Functions

\* The same, row by row: those with both forms of a call ...
LEMMA BothFields ==
    ASSUME NEW op, NEW types, NEW unit, NEW size, NEW f \in Both(op, types, unit, size)
    PROVE  /\ f.op = op /\ f.type \in types /\ f.lp = "both"
           /\ f.unit = unit /\ f.scale = size /\ f.size = size
BY RowFields DEF Both

\* ... with the blocking form ...
LEMMA BlockingFields ==
    ASSUME NEW op, NEW types, NEW unit, NEW scale, NEW size, NEW lp,
           NEW f \in Blocking(op, types, unit, scale, size, lp)
    PROVE  /\ f.op = op /\ f.type \in types /\ f.lp = lp
           /\ f.unit = unit /\ f.scale = scale /\ f.size = size
           /\ ~f.nb
<1>1. PICK nbs : nbs = {FALSE} /\ f \in Functions(op, nbs, types, unit, scale, size, lp)
  BY Zenon DEF Blocking
<1>2. f \in Functions(op, nbs, types, unit, scale, size, lp)
  BY <1>1, Zenon
<1>3. /\ f.op = op /\ f.nb \in nbs /\ f.type \in types /\ f.lp = lp
      /\ f.unit = unit /\ f.scale = scale /\ f.size = size
  BY <1>2, RowFields
<1> DEFINE nb == f.nb
<1> HIDE DEF nb
<1>4. nb \in nbs
  BY <1>3, Zenon DEF nb
<1>5. ~nb
  BY <1>1, <1>4, Zenon
<1>6. ~f.nb
  BY <1>5, Zenon DEF nb
<1> QED
  BY <1>3, <1>6, Zenon

\* ... and with the other.
LEMMA NonBlockingFields ==
    ASSUME NEW op, NEW types, NEW unit, NEW scale, NEW size, NEW lp,
           NEW f \in NonBlocking(op, types, unit, scale, size, lp)
    PROVE  /\ f.op = op /\ f.type \in types /\ f.lp = lp
           /\ f.unit = unit /\ f.scale = scale /\ f.size = size
           /\ f.nb
<1>1. PICK nbs : nbs = {TRUE} /\ f \in Functions(op, nbs, types, unit, scale, size, lp)
  BY Zenon DEF NonBlocking
<1>2. f \in Functions(op, nbs, types, unit, scale, size, lp)
  BY <1>1, Zenon
<1>3. /\ f.op = op /\ f.nb \in nbs /\ f.type \in types /\ f.lp = lp
      /\ f.unit = unit /\ f.scale = scale /\ f.size = size
  BY <1>2, RowFields
<1> DEFINE nb == f.nb
<1> HIDE DEF nb
<1>4. nb \in nbs
  BY <1>3, Zenon DEF nb
<1>5. nb
  BY <1>1, <1>4, Zenon
<1>6. f.nb
  BY <1>5, Zenon DEF nb
<1> QED
  BY <1>3, <1>6, Zenon

\* Every function of the model has them right.
LEMMA FunctionKind ==
    ASSUME NEW f \in Function
    PROVE  Kind(f) /\ Blocks(f)
<1> DEFINE Plain == f.type # "int" /\ ~(f.type = "char" /\ f.op = "get")
<1>0. f \in RuntimeLonglongPut => f.lp = "none"
    BY BlockingFields DEF RuntimeLonglongPut
<1>a. Plain => Blocks(f)
    BY Zenon DEF Blocks
<1> USE DEF Kind, Halved
<1>1. CASE f \in FloatPuts
    BY <1>0, <1>a, <1>1, BothFields DEF FloatPuts
<1>2. CASE f \in CharPuts
    BY <1>0, <1>a, <1>2, BothFields DEF CharPuts
<1>3. CASE f \in IntPuts
  <2>1. CASE f \in Blocking("put", {"int"}, 4, 4, 4, "both")
    <3>1. Kind(f) /\ f.type = "int" /\ ~(f.scale < f.size)
      BY <1>0, <2>1, BlockingFields
    <3>2. ~f.nb
      BY <2>1, BlockingFields
    <3> QED
      BY <3>1, <3>2, Zenon DEF Blocks
  <2>2. CASE f \in NonBlocking("put", {"int"}, 4, 2, 4, "both")
    <3>1. Kind(f) /\ f.type = "int" /\ f.scale < f.size
      BY <1>0, <2>2, NonBlockingFields
    <3>2. f.nb
      BY <2>2, NonBlockingFields
    <3> QED
      BY <3>1, <3>2, Zenon DEF Blocks
  <2>3. CASE f \in Both("put", {"long"}, 4, 8)
    BY <1>0, <1>a, <2>3, BothFields
  <2>4. CASE f \in Both("put", {"longlong"}, 8, 8)
    BY <1>0, <1>a, <2>4, BothFields
  <2> QED
    BY <1>3, <2>1, <2>2, <2>3, <2>4, Zenon DEF IntPuts
<1>4. CASE f \in UnsignedPuts
    BY <1>0, <1>a, <1>4, BothFields DEF UnsignedPuts
<1>5. CASE f \in UlongPuts
    BY <1>0, <1>a, <1>5, BothFields DEF UlongPuts
<1>6. CASE f \in FixedPuts
    BY <1>0, <1>a, <1>6, BothFields DEF FixedPuts
<1>7. CASE f \in UfixedPuts
    BY <1>0, <1>a, <1>7, BothFields DEF UfixedPuts
<1>8. CASE f \in WidePuts
    BY <1>0, <1>a, <1>8, BothFields DEF WidePuts
<1>9. CASE f \in FloatGets
    BY <1>0, <1>a, <1>9, BothFields DEF FloatGets
<1>10. CASE f \in CharGets
  <2>1. CASE f \in Both("get", {"schar"}, 1, 1)
    BY <1>0, <1>a, <2>1, BothFields
  <2>2. CASE f \in Blocking("get", {"char"}, 1, 1, 1, "lone")
    <3>1. Kind(f) /\ f.type # "int" /\ f.lp = "lone"
      BY <1>0, <2>2, BlockingFields
    <3>2. ~f.nb
      BY <2>2, BlockingFields
    <3> QED
      BY <3>1, <3>2, Zenon DEF Blocks
  <2>3. CASE f \in NonBlocking("get", {"char"}, 1, 1, 1, "both")
    <3>1. Kind(f) /\ f.type # "int" /\ f.lp # "lone"
      BY <1>0, <2>3, NonBlockingFields
    <3>2. f.nb
      BY <2>3, NonBlockingFields
    <3> QED
      BY <3>1, <3>2, Zenon DEF Blocks
  <2>4. CASE f \in Both("get", {"short"}, 2, 2)
    BY <1>0, <1>a, <2>4, BothFields
  <2> QED
    BY <1>10, <2>1, <2>2, <2>3, <2>4, Zenon DEF CharGets
<1>11. CASE f \in IntGets
  <2>1. CASE f \in Blocking("get", {"int"}, 4, 4, 4, "both")
    <3>1. Kind(f) /\ f.type = "int" /\ ~(f.scale < f.size)
      BY <1>0, <2>1, BlockingFields
    <3>2. ~f.nb
      BY <2>1, BlockingFields
    <3> QED
      BY <3>1, <3>2, Zenon DEF Blocks
  <2>2. CASE f \in NonBlocking("get", {"int"}, 4, 2, 4, "both")
    <3>1. Kind(f) /\ f.type = "int" /\ f.scale < f.size
      BY <1>0, <2>2, NonBlockingFields
    <3>2. f.nb
      BY <2>2, NonBlockingFields
    <3> QED
      BY <3>1, <3>2, Zenon DEF Blocks
  <2>3. CASE f \in Both("get", {"long"}, 4, 8)
    BY <1>0, <1>a, <2>3, BothFields
  <2>4. CASE f \in Both("get", {"longlong"}, 8, 8)
    BY <1>0, <1>a, <2>4, BothFields
  <2> QED
    BY <1>11, <2>1, <2>2, <2>3, <2>4, Zenon DEF IntGets
<1>12. CASE f \in UnsignedGets
    BY <1>0, <1>a, <1>12, BothFields DEF UnsignedGets
<1>13. CASE f \in UlongGets
    BY <1>0, <1>a, <1>13, BothFields DEF UlongGets
<1>14. CASE f \in FixedGets
    BY <1>0, <1>a, <1>14, BothFields DEF FixedGets
<1>15. CASE f \in UfixedGets
    BY <1>0, <1>a, <1>15, BothFields DEF UfixedGets
<1>16. CASE f \in WideGets
    BY <1>0, <1>a, <1>16, BothFields DEF WideGets
<1>17. CASE f \in RuntimeLonglongPut
    BY <1>0, <1>a, <1>17, BlockingFields DEF RuntimeLonglongPut
<1>18. CASE f \in RuntimeIntGet \cup RuntimeIntPut
  <2>1. Kind(f) /\ f.type = "int" /\ ~(f.scale < f.size)
    BY <1>0, <1>18, BlockingFields DEF RuntimeIntGet, RuntimeIntPut
  <2>2. ~f.nb
    BY <1>18, BlockingFields DEF RuntimeIntGet, RuntimeIntPut
  <2> QED
    BY <2>1, <2>2, Zenon DEF Blocks
<1>19. CASE f \in UNION {RuntimeUlonglongGet, OneQueueUlonglongGet, Oct18UlonglongGet,
                         Oct22UlonglongGet}
    BY <1>0, <1>a, <1>19, BlockingFields DEF RuntimeUlonglongGet, OneQueueUlonglongGet,
       Oct18UlonglongGet, Oct22UlonglongGet
<1>20. CASE f \in UNION {RuntimeLonglongGet, Oct18LonglongGet, Oct22LonglongGet}
    BY <1>0, <1>a, <1>20, BlockingFields DEF RuntimeLonglongGet, Oct18LonglongGet,
       Oct22LonglongGet
<1>21. CASE f \in Oct18LonglongPut \cup Oct22LonglongPut
    BY <1>0, <1>a, <1>21, BlockingFields DEF Oct18LonglongPut, Oct22LonglongPut
<1> HIDE DEF Kind
<1> QED
    BY <1>1, <1>2, <1>3, <1>4, <1>5, <1>6, <1>7, <1>8, <1>9, <1>10, <1>11,
       <1>12, <1>13, <1>14, <1>15, <1>16, <1>17, <1>18, <1>19, <1>20, <1>21
    DEF Function

\* The arrays of a call lie within the address space.
LEMMA OwnedOffsets ==
    ASSUME NEW c \in Calls
    PROVE  Owned(c) \subseteq 0 .. REG - 1
<1>1. c.fn.size \in Nat /\ c.nelems \in Nat /\ c.stride \in Int
    BY FunctionSized, InputAssumption DEF Calls, Sized
<1>2. Abs(c.stride) \in Nat
    BY <1>1 DEF Abs
<1>3. Span(c) \in Int
  <2>1. CASE c.nelems = 0
    BY <2>1, <1>1 DEF Span
  <2>2. CASE c.nelems # 0
    <3>1. (c.nelems - 1) * Abs(c.stride) \in Int
        BY <1>1, <1>2
    <3>2. ((c.nelems - 1) * Abs(c.stride) + 1) * c.fn.size \in Int
        BY <3>1, <1>1
    <3> QED
        BY <2>2, <3>2 DEF Span
  <2> QED
    BY <2>1, <2>2
<1>4. Span(c) <= MaxArray /\ MaxArray \in Int /\ MaxArray <= REG /\ REG \in Nat /\ REG > 0
    BY WidthAssumption DEF Calls
<1>5. CASE c.stride >= 0
    BY <1>3, <1>4, <1>5 DEF Owned
<1>6. CASE ~(c.stride >= 0)
    BY <1>1, <1>3, <1>4, <1>6 DEF Owned
<1> QED
    BY <1>5, <1>6

\* A register holds a number of the register's width.
LEMMA PassedInRegister ==
    ASSUME NEW v \in Int
    PROVE  Passed(v) \subseteq 0 .. REG - 1
BY WidthAssumption DEF Passed

\* Where the addresses agree, a byte arrives at the place it came from.
LEMMA SameOffset ==
    ASSUME NEW x \in 0 .. REG - 1, NEW o \in 0 .. REG - 1
    PROVE  (x + (o - x)) % REG = o
<1>1. REG \in Nat /\ REG > 0
    BY WidthAssumption
<1>2. x + (o - x) = o
    OBVIOUS
<1> QED
    BY <1>1, <1>2

----------------------------------------------------------------------------
(* The invariant *)

\* The initial states satisfy the invariant.
LEMMA InitIInv == Init => IInv
<1> SUFFICES ASSUME Init PROVE IInv
    OBVIOUS
<1>1. REG \in Nat /\ REG > 0
    BY WidthAssumption
<1>2. call.fn.scale \in Nat /\ call.nelems \in Nat /\ call.stride \in Int
    BY FunctionSized, InputAssumption DEF Init, Calls, Sized
<1>3. x2 \in 0 .. REG - 1
    BY <1>2, PassedInRegister DEF Init
<1>4. call.stride * call.fn.scale \in Int
    BY <1>2
<1>5. x3 \in 0 .. REG - 1
    BY <1>4, PassedInRegister DEF Init
<1> QED
    BY <1>1, <1>3, <1>5 DEF Init, IInv, TypeOK, Aligned, NoMisplacedByte

\* The wrapper's step keeps it.
LEMMA BeginIInv == IInv /\ Begin => IInv'
BY DEF Begin, IInv, TypeOK, Aligned, NoMisplacedByte

\* So does leaving the arrays.
LEMMA StrayIInv == IInv /\ Stray => IInv'
BY DEF Stray, IInv, TypeOK, Aligned, NoMisplacedByte

\* A turn of the loop keeps it: what it stores comes from the same offset, and
\* both addresses advance by the same step.
LEMMA TurnIInv == IInv /\ Turn => IInv'
<1> SUFFICES ASSUME IInv, Turn PROVE IInv'
    OBVIOUS
<1>1. REG \in Nat /\ REG > 0
    BY WidthAssumption
<1>2. call \in Calls /\ call' = call /\ Owned(call)' = Owned(call)
    BY DEF IInv, TypeOK, Turn, Owned, Span
<1>3. /\ x0 = x1 /\ x0 \in 0 .. REG - 1 /\ x3 \in 0 .. REG - 1
      /\ x12 \in 0 .. REG - 1
    BY DEF IInv, TypeOK, Aligned
<1>4. x0' = x1' /\ x0' \in 0 .. REG - 1 /\ x12' \in 0 .. REG - 1
    BY <1>1, <1>3 DEF Turn, Advance
<1>5. Owned(call) \subseteq 0 .. REG - 1
    BY <1>2, OwnedOffsets
<1>6. \A o \in Owned(call) : (x0 + (o - x1)) % REG = o
    BY <1>3, <1>5, SameOffset
<1>7. dest' = [o \in Owned(call) |->
                  IF (o - x1) % REG < call.fn.unit THEN o ELSE dest[o]]
    BY <1>6 DEF Turn
<1>8. dest' \in [Owned(call) -> Owned(call) \cup {Old}]
    BY <1>7 DEF IInv, TypeOK
<1>9. NoMisplacedByte'
    BY <1>2, <1>7 DEF IInv, NoMisplacedByte
<1>10. TypeOK'
    BY <1>2, <1>4, <1>8 DEF IInv, TypeOK, Turn
<1> QED
    BY <1>4, <1>9, <1>10 DEF IInv, Aligned

\* The invariant is inductive.
LEMMA NextIInv == IInv /\ [Next]_vars => IInv'
<1> SUFFICES ASSUME IInv, [Next]_vars PROVE IInv'
    OBVIOUS
<1>1. CASE Begin
    BY <1>1, BeginIInv
<1>2. CASE Turn
    BY <1>2, TurnIInv
<1>3. CASE Stray
    BY <1>3, StrayIInv
<1>4. CASE UNCHANGED vars
    BY <1>4 DEF vars, IInv, TypeOK, Aligned, NoMisplacedByte
<1> QED
    BY <1>1, <1>2, <1>3, <1>4 DEF Next

\* The invariant holds in every behaviour of a transfer.
THEOREM SpecIInv == Spec => []IInv
BY InitIInv, NextIInv, PTL DEF Spec

\* The loop's registers stay registers and the destination keeps its shape.
THEOREM SpecTypeOK == Spec => []TypeOK
<1>1. IInv => TypeOK
    BY DEF IInv
<1> QED
    BY <1>1, SpecIInv, PTL

\* No transfer of this runtime, whatever its count, its stride and the width
\* of the registers, stores a byte at another place of the destination than it
\* has in the source.
THEOREM SpecNoMisplacedByte == Spec => []NoMisplacedByte
<1>1. IInv => NoMisplacedByte
    BY DEF IInv
<1> QED
    BY <1>1, SpecIInv, PTL

----------------------------------------------------------------------------
(* Arithmetic *)

\* A product grows with each of its factors.
LEMMA TimesMonotone ==
    ASSUME NEW a \in Nat, NEW b \in Nat, NEW c \in Nat, NEW d \in Nat,
           a <= b, c <= d
    PROVE  a * c \in Nat /\ b * d \in Nat /\ a * c <= b * d
<1>1. a * c \in Nat /\ b * c \in Nat /\ b * d \in Nat
    OBVIOUS
<1>2. a * c <= b * c
    OBVIOUS
<1>3. b * c <= b * d
    OBVIOUS
<1> QED
    BY <1>1, <1>2, <1>3

\* What is left of a number less than twice the address space away.
LEMMA Offset ==
    ASSUME NEW p \in Int
    PROVE  /\ p \in 0 .. REG - 1 => p % REG = p
           /\ p < 0 /\ p >= -REG => p % REG = p + REG
           /\ p >= REG /\ p < 2 * REG => p % REG = p - REG
           /\ p >= 2 * REG /\ p < 3 * REG => p % REG = p - 2 * REG
<1>1. REG \in Nat /\ REG > 0
  BY WidthAssumption
<1>2. p \in 0 .. REG - 1 => p % REG = p
  BY <1>1
<1>3. p < 0 /\ p >= -REG => p % REG = p + REG
  BY <1>1
<1>4. p >= REG /\ p < 2 * REG => p % REG = p - REG
  BY <1>1
<1>5. p >= 2 * REG /\ p < 3 * REG => p % REG = p - 2 * REG
  BY <1>1
<1> QED
  BY <1>2, <1>3, <1>4, <1>5

\* Going b bytes from x is undone by taking the difference.
LEMMA Difference ==
    ASSUME NEW x \in 0 .. REG - 1, NEW o \in 0 .. REG - 1, NEW b \in 0 .. REG - 1
    PROVE  (o - x) % REG = b <=> o = (x + b) % REG
<1>1. REG \in Nat /\ REG > 0
  BY WidthAssumption
<1>2. (o - x) % REG = IF o >= x THEN o - x ELSE o - x + REG
  BY <1>1, Offset
<1>3. (x + b) % REG = IF x + b < REG THEN x + b ELSE x + b - REG
  BY <1>1, Offset
<1> QED
  BY <1>1, <1>2, <1>3

----------------------------------------------------------------------------
(* Where the elements are *)

\* The bytes from the first element of a call to the last.
Far == (call.nelems - 1) * (Abs(call.stride) * call.fn.size)

\* The arrays, with the signed distances from their first elements.
Lo == IF call.stride >= 0 THEN 0 ELSE -Far
Hi == Lo + Far + call.fn.size - 1

\* What the sizes of a call have to do with each other.
LEMMA CallFacts ==
    ASSUME call \in Calls, call.nelems # 0
    PROVE  /\ call.nelems \in Nat /\ call.nelems >= 1 /\ call.stride \in Int
           /\ call.fn.unit \in Nat /\ call.fn.scale \in Nat /\ call.fn.size \in Nat
           /\ call.fn.unit > 0 /\ call.fn.scale > 0
           /\ call.fn.unit <= call.fn.size /\ call.fn.scale <= call.fn.size
           /\ Far \in Nat /\ Span(call) = Far + call.fn.size
           /\ REG \in Nat /\ WORD \in Nat /\ WORD >= 2 /\ 2 * WORD <= REG
           /\ 2 * (Far + call.fn.size) <= REG
<1>0. call.fn \in Function /\ call.nelems \in Counts /\ call.stride \in Strides
  BY DEF Calls
<1>1. /\ call.fn \in Function /\ call.stride \in Int
      /\ call.nelems \in Nat /\ call.nelems >= 1
  <2>1. call.nelems \in Nat /\ call.stride \in Int
    BY <1>0, InputAssumption
  <2> QED
    BY <1>0, <2>1
<1>8. Span(call) <= MaxArray
  BY DEF Calls
<1>2. /\ call.fn.unit \in Nat /\ call.fn.scale \in Nat /\ call.fn.size \in Nat
      /\ call.fn.unit > 0 /\ call.fn.scale > 0
      /\ call.fn.unit <= call.fn.size /\ call.fn.scale <= call.fn.size
  BY <1>1, FunctionSized DEF Sized
<1> DEFINE m == call.nelems - 1
           d == Abs(call.stride)
           z == call.fn.size
<1>3. m \in Nat /\ d \in Nat /\ z \in Nat /\ d * z \in Nat
  <2>1. m \in Nat /\ d \in Nat /\ z \in Nat
    BY <1>1, <1>2 DEF Abs
  <2> HIDE DEF m, d, z
  <2> QED
    BY <2>1
<1>4. m * (d * z) \in Nat /\ (m * d + 1) * z = m * (d * z) + z
  <2> HIDE DEF m, d, z
  <2> QED
    BY <1>3
<1>5. Span(call) = Far + z /\ Far \in Nat
  <2>1. Span(call) = (m * d + 1) * z
    BY <1>1 DEF Span
  <2> QED
    BY <1>4, <2>1, Zenon DEF Far
<1>6. /\ REG \in Nat /\ WORD \in Nat /\ WORD >= 2 /\ 2 * WORD <= REG
      /\ MaxArray \in Nat /\ 2 * MaxArray <= REG
  BY WidthAssumption
<1>7. 2 * (Far + z) <= REG
  BY <1>8, <1>3, <1>5, <1>6
<1> QED
  BY <1>1, <1>2, <1>5, <1>6, <1>7

\* With two elements apart the last is at least a step away.
LEMMA FarApart ==
    ASSUME call \in Calls, call.nelems >= 2, call.stride # 0
    PROVE  /\ Abs(call.stride) \in Nat /\ Abs(call.stride) >= 1
           /\ Abs(call.stride) * call.fn.scale \in Nat
           /\ Abs(call.stride) * call.fn.scale > 0
           /\ Abs(call.stride) * call.fn.scale <= Abs(call.stride) * call.fn.size
           /\ Abs(call.stride) * call.fn.size <= Far /\ call.fn.size <= Far
<1>1. call.nelems \in Nat
  BY InputAssumption DEF Calls
<1>2. /\ call.stride \in Int /\ call.fn.size \in Nat /\ call.fn.scale \in Nat
      /\ call.fn.scale > 0 /\ call.fn.scale <= call.fn.size
  BY <1>1, CallFacts
<1> DEFINE m == call.nelems - 1
           d == Abs(call.stride)
           z == call.fn.size
           q == call.fn.scale
<1>3. /\ m \in Nat /\ m >= 1 /\ d \in Nat /\ d >= 1
      /\ z \in Nat /\ q \in Nat /\ q > 0 /\ q <= z
  BY <1>1, <1>2 DEF Abs
<1> HIDE DEF m, d, z, q
<1>4. d * q \in Nat /\ d * z \in Nat /\ d * q <= d * z
  BY <1>3, TimesMonotone
<1>5. 1 * q <= d * q /\ 1 * z <= d * z
  BY <1>3, TimesMonotone
<1>6. 1 * (d * z) <= m * (d * z)
  BY <1>3, <1>4, TimesMonotone
<1>7. /\ d \in Nat /\ d >= 1 /\ d * q \in Nat /\ d * q > 0 /\ d * q <= d * z
      /\ d * z <= m * (d * z) /\ z <= m * (d * z)
  BY <1>3, <1>4, <1>5, <1>6
<1> QED
  BY <1>7, Zenon DEF Far, m, d, z, q

\* The arrays are the bytes at those distances.
LEMMA OwnedSigned ==
    ASSUME call \in Calls, call.nelems # 0
    PROVE  Owned(call) = {p % REG : p \in Lo .. Hi}
<1>1. /\ Far \in Nat /\ Span(call) = Far + call.fn.size /\ call.fn.size \in Nat
      /\ REG \in Nat /\ 2 * (Far + call.fn.size) <= REG /\ call.stride \in Int
  BY CallFacts
<1>2. CASE call.stride >= 0
  <2>1. Lo = 0 /\ Hi = Far + call.fn.size - 1
    BY <1>1, <1>2 DEF Lo, Hi
  <2>2. \A p \in Lo .. Hi : p % REG = p
    BY <1>1, <2>1, Offset
  <2>3. Owned(call) = Lo .. Hi
    BY <1>1, <1>2, <2>1 DEF Owned
  <2> QED
    BY <2>2, <2>3
<1>3. CASE ~(call.stride >= 0)
  <2>1. Lo = call.fn.size - Span(call) /\ Hi = call.fn.size - 1
    BY <1>1, <1>3 DEF Lo, Hi
  <2> QED
    BY <1>3, <2>1, Zenon DEF Owned
<1> QED
  BY <1>2, <1>3

\* No two of those bytes are the same offset.
LEMMA SignedApart ==
    ASSUME call \in Calls, call.nelems # 0, NEW p \in Lo .. Hi, NEW r \in Lo .. Hi,
           p % REG = r % REG
    PROVE  p = r
<1>1. /\ Far \in Nat /\ call.fn.size \in Nat
      /\ REG \in Nat /\ 2 * (Far + call.fn.size) <= REG /\ call.stride \in Int
  BY CallFacts
<1>2. /\ Lo \in Int /\ Hi \in Int /\ -Lo <= Far /\ Hi < Far + call.fn.size
      /\ p \in Int /\ r \in Int
      /\ Hi - Lo = Far + call.fn.size - 1
  BY <1>1 DEF Lo, Hi
<1>3. \A k \in Lo .. Hi : /\ k \in Int /\ -Far <= k /\ k < Far + call.fn.size
                          /\ -REG <= k /\ (k >= 0 => k \in 0 .. REG - 1)
  BY <1>1, <1>2
<1>4. \A k \in Lo .. Hi : k % REG = IF k < 0 THEN k + REG ELSE k
  BY <1>3, Offset
<1>5. p % REG = (IF p < 0 THEN p + REG ELSE p) /\ r % REG = (IF r < 0 THEN r + REG ELSE r)
  BY <1>4
<1>6. p >= -Far /\ r >= -Far /\ p < Far + call.fn.size /\ r < Far + call.fn.size
  BY <1>3
<1>7. (IF p < 0 THEN p + REG ELSE p) = (IF r < 0 THEN r + REG ELSE r)
  BY <1>5, Zenon
<1> QED
  BY <1>1, <1>2, <1>6, <1>7

----------------------------------------------------------------------------
(* The steps *)

\* What a register may hold.
Given == x2 \in Passed(call.nelems) /\ x3 \in Passed(call.stride * call.fn.scale)

\* The signed distance from one turn's unit to the next: the register's value,
\* or what is left of a negative step in a register that holds all of it.
Pace == IF call.stride < 0 /\ x3 >= WORD THEN x3 - REG ELSE x3

\* What a register holds is never more than what was passed.
LEMMA PassedBelow ==
    ASSUME NEW v \in Nat, NEW u \in Passed(v)
    PROVE  u \in Nat /\ u <= v
<1>1. WORD \in Nat /\ WORD > 0 /\ REG \in Nat /\ REG > 0
    BY WidthAssumption
<1>2. \A d \in Nat : d > 0 => v % d \in Nat /\ v % d <= v
    OBVIOUS
<1> QED
    BY <1>1, <1>2 DEF Passed

\* Forward the step is no more than was asked for; with its upper half cut it
\* is less than that.  Backward it is exact, or cut and forward.
LEMMA Paces ==
    ASSUME call \in Calls, Given, call.nelems >= 2
    PROVE  /\ Pace \in Int /\ x3 \in Nat /\ x3 < REG
           /\ x3 = Pace \/ (x3 = Pace + REG /\ Pace < 0)
           /\ call.stride = 0 => Pace = 0
           /\ call.stride > 0 => 0 <= Pace /\ Pace <= Abs(call.stride) * call.fn.scale
           /\ call.stride < 0 => \/ /\ Pace = -(Abs(call.stride) * call.fn.scale)
                                    /\ x3 = (call.stride * call.fn.scale) % REG
                                 \/ /\ 0 <= Pace /\ Pace < WORD
                                    /\ x3 # (call.stride * call.fn.scale) % REG
           /\ call.stride >= 0 => (x3 = (call.stride * call.fn.scale) % REG <=>
                                     Pace = Abs(call.stride) * call.fn.scale)
<1>1. call.nelems \in Nat /\ call.nelems # 0
  <2>1. call.nelems \in Nat
    BY InputAssumption DEF Calls
  <2> QED
    BY <2>1
<1>2. /\ call.stride \in Int /\ Far \in Nat
      /\ call.fn.scale \in Nat /\ call.fn.size \in Nat
      /\ REG \in Nat /\ WORD \in Nat /\ WORD >= 2 /\ 2 * WORD <= REG
      /\ 2 * (Far + call.fn.size) <= REG
      /\ call.fn.scale <= call.fn.size /\ call.fn.scale > 0
  BY <1>1, CallFacts
<1> DEFINE v == call.stride * call.fn.scale
           w == Abs(call.stride) * call.fn.scale
<1>3. v \in Int /\ w \in Nat /\ v = (IF call.stride < 0 THEN -w ELSE w)
  <2> DEFINE s == call.stride
             q == call.fn.scale
  <2>1. s \in Int /\ q \in Nat
    BY <1>2
  <2> HIDE DEF s, q
  <2>2. s * q \in Int /\ (-s) * q = -(s * q)
    BY <2>1
  <2>3. s >= 0 => s * q \in Nat
    BY <2>1
  <2>4. s < 0 => (-s) * q \in Nat
    BY <2>1
  <2> QED
    BY <2>1, <2>2, <2>3, <2>4 DEF s, q, Abs
<1>4. call.stride # 0 => w > 0 /\ w <= Far
  BY <1>2, FarApart
<1>5. x3 = v % WORD \/ x3 = v % REG
  BY DEF Given, Passed
<1> HIDE DEF v, w
<1>6. v % WORD \in 0 .. WORD - 1 /\ v % REG \in 0 .. REG - 1
  BY <1>2, <1>3
<1>7. x3 \in Nat /\ x3 < REG
  BY <1>2, <1>5, <1>6
<1>8. Pace \in Int /\ (x3 = Pace \/ (x3 = Pace + REG /\ Pace < 0))
  BY <1>2, <1>7 DEF Pace
<1>9. call.stride >= 0 => Pace = x3 /\ v \in Nat /\ v < REG /\ v % REG = v /\ x3 <= v
  <2> SUFFICES ASSUME call.stride >= 0
               PROVE  Pace = x3 /\ v \in Nat /\ v < REG /\ v % REG = v /\ x3 <= v
    OBVIOUS
  <2>1. v = w /\ v \in Nat
    BY <1>2, <1>3
  <2>2. v < REG
    <3>1. CASE call.stride = 0
      <4>1. v = 0
        BY <1>2, <3>1 DEF v
      <4> QED
        BY <1>2, <4>1
    <3>2. CASE call.stride # 0
      BY <1>2, <1>4, <2>1, <3>2
    <3> QED
      BY <3>1, <3>2
  <2>3. x3 <= v
    BY <2>1, PassedBelow DEF Given, v
  <2> QED
    BY <1>2, <2>1, <2>2, <2>3, Offset DEF Pace
<1>10. call.stride < 0 => v % REG = REG - w /\ REG - w >= WORD
  <2> SUFFICES ASSUME call.stride < 0 PROVE v % REG = REG - w /\ REG - w >= WORD
    OBVIOUS
  <2>1. v = -w /\ w > 0 /\ w <= Far
    BY <1>2, <1>3, <1>4
  <2>2. REG - w >= WORD /\ v < 0 /\ v >= -REG /\ v + REG = REG - w
    BY <1>2, <1>3, <2>1
  <2> QED
    BY <1>3, <2>2, Offset
<1>11. call.stride < 0 => \/ Pace = -w /\ x3 = v % REG
                          \/ 0 <= Pace /\ Pace < WORD /\ x3 # v % REG
  BY <1>2, <1>3, <1>5, <1>6, <1>7, <1>10 DEF Pace
<1>12. call.stride = 0 => Pace = 0
  <2> SUFFICES ASSUME call.stride = 0 PROVE Pace = 0
    OBVIOUS
  <2>1. v = 0
    BY <1>2 DEF v
  <2> QED
    BY <1>2, <1>7, <1>9, <2>1
<1>13. call.stride >= 0 => v = w
  BY <1>2, <1>3
<1> QED
  BY <1>2, <1>7, <1>8, <1>9, <1>11, <1>12, <1>13 DEF v, w

----------------------------------------------------------------------------
(* The turns *)

\* Turn k's unit is in the arrays.
Inside(k) == \A b \in 0 .. call.fn.unit - 1 : k * Pace + b \in Lo .. Hi

\* A turn that follows turns in the arrays is no more than a step out of them.
LEMMA Near ==
    ASSUME call \in Calls, Given, call.nelems >= 2, Pace # 0, NEW k \in Nat,
           \A i \in 0 .. k - 1 : Inside(i)
    PROVE  /\ k * Pace \in Int /\ (k + 1) * Pace = k * Pace + Pace
           /\ Pace > 0 => 0 <= k * Pace /\ k * Pace + call.fn.unit - 1 <= Hi + Pace
           /\ Pace < 0 => k * Pace <= 0 /\ k * Pace >= Lo + Pace
<1>1. /\ call.fn.unit \in Nat /\ call.fn.unit > 0 /\ call.fn.size \in Nat /\ Far \in Nat
      /\ call.fn.unit <= call.fn.size /\ call.stride \in Int /\ Pace \in Int
  <2>1. call.nelems # 0
    <3>1. call.nelems \in Nat
      BY InputAssumption DEF Calls
    <3> QED
      BY <3>1
  <2> QED
    BY <2>1, CallFacts, Paces
<1>2. Lo \in Int /\ Hi \in Int /\ Lo <= 0 /\ Hi >= call.fn.size - 1
  BY <1>1 DEF Lo, Hi
<1> DEFINE c == Pace
<1> HIDE DEF c
<1>3. c \in Int /\ k * c \in Int /\ (k + 1) * c = k * c + c /\ (k - 1) * c = k * c - c
  BY <1>1 DEF c
<1>4. /\ c > 0 => k * c >= 0
      /\ c < 0 => k * c <= 0
  <2>1. c > 0 => c \in Nat
    BY <1>1 DEF c
  <2>2. c < 0 => -c \in Nat /\ k * c = -(k * (-c))
    BY <1>1 DEF c
  <2>3. \A d \in Nat : k * d \in Nat
    OBVIOUS
  <2> QED
    BY <2>1, <2>2, <2>3
<1>5. CASE k = 0
  <2>1. k * c = 0
    BY <1>1, <1>5 DEF c
  <2>2. /\ c > 0 => 0 <= k * c /\ k * c + call.fn.unit - 1 <= Hi + c
        /\ c < 0 => k * c <= 0 /\ k * c >= Lo + c
    <3>1. c > 0 => call.fn.unit - 1 <= Hi + c
      BY <1>1, <1>2, <1>3
    <3>2. c < 0 => 0 >= Lo + c
      BY <1>1, <1>2, <1>3
    <3> QED
      BY <1>1, <1>2, <2>1, <3>1, <3>2
  <2> QED
    BY <1>3, <2>2 DEF c
<1>6. CASE k # 0
  <2>1. Inside(k - 1)
    BY <1>6
  <2>2. 0 \in 0 .. call.fn.unit - 1 /\ call.fn.unit - 1 \in 0 .. call.fn.unit - 1
    BY <1>1
  <2>3. (k - 1) * c + 0 \in Lo .. Hi /\ (k - 1) * c + (call.fn.unit - 1) \in Lo .. Hi
    BY <2>1, <2>2 DEF Inside, c
  <2>4. k * c - c >= Lo /\ k * c - c + call.fn.unit - 1 <= Hi
    BY <1>1, <1>2, <1>3, <2>3
  <2> QED
    BY <1>1, <1>2, <1>3, <1>4, <2>4 DEF c
<1> QED
  BY <1>5, <1>6

\* A number less than a register's width away from 0, in a register.
LEMMA Wraps ==
    ASSUME NEW e \in Int, -REG <= e, e < REG
    PROVE  /\ e % REG = IF e < 0 THEN e + REG ELSE e
           /\ (e + REG) % REG = e % REG /\ (e + 2 * REG) % REG = e % REG
<1>1. REG \in Nat /\ REG > 0
  BY WidthAssumption
<1>2. e % REG = IF e < 0 THEN e + REG ELSE e
  BY <1>1, Offset
<1>3. (e + REG) % REG = IF e < 0 THEN e + REG ELSE e
  BY <1>1, Offset
<1>4. (e + 2 * REG) % REG = IF e < 0 THEN e + REG ELSE e
  <2> DEFINE f == e + 2 * REG
  <2>1. /\ f \in Int
        /\ e < 0 => f >= REG /\ f < 2 * REG /\ f - REG = e + REG
        /\ ~(e < 0) => f >= 2 * REG /\ f < 3 * REG /\ f - 2 * REG = e
    BY <1>1
  <2> HIDE DEF f
  <2>2. /\ f >= REG /\ f < 2 * REG => f % REG = f - REG
        /\ f >= 2 * REG /\ f < 3 * REG => f % REG = f - 2 * REG
    BY <2>1, Offset
  <2>3. f % REG = IF e < 0 THEN e + REG ELSE e
    BY <2>1, <2>2
  <2> QED
    BY <2>3 DEF f
<1> QED
  BY <1>2, <1>3, <1>4

\* A turn that follows turns in the arrays is not a register's width away.
LEMMA NearBounds ==
    ASSUME call \in Calls, Given, call.nelems >= 2, Pace # 0, NEW k \in Nat,
           \A i \in 0 .. k - 1 : Inside(i), NEW b \in 0 .. call.fn.unit - 1
    PROVE  /\ k * Pace + b \in Int /\ -REG < k * Pace /\ k * Pace + b < REG
           /\ \A r \in Lo .. Hi :
                /\ r \in Int /\ -REG < r /\ r < REG
                /\ k * Pace + b # r + REG /\ k * Pace + b # r - REG
<1>1. /\ call.fn.unit \in Nat /\ call.fn.unit > 0 /\ call.fn.size \in Nat /\ Far \in Nat
      /\ call.fn.unit <= call.fn.size /\ call.stride \in Int /\ Pace \in Int
      /\ REG \in Nat /\ WORD \in Nat /\ 2 * WORD <= REG
      /\ 2 * (Far + call.fn.size) <= REG
  <2>1. call.nelems # 0
    <3>1. call.nelems \in Nat
      BY InputAssumption DEF Calls
    <3> QED
      BY <3>1
  <2> QED
    BY <2>1, CallFacts, Paces
<1>2. call.stride # 0
  BY Paces
<1> DEFINE p == k * Pace
           w == Abs(call.stride) * call.fn.scale
<1>3. w \in Nat /\ w <= Far /\ call.fn.size <= Far
  BY <1>1, <1>2, FarApart
<1>4. /\ p \in Int
      /\ Pace > 0 => 0 <= p /\ p + call.fn.unit - 1 <= Hi + Pace
      /\ Pace < 0 => p <= 0 /\ p >= Lo + Pace
  BY Near
<1>5. \/ call.stride > 0 /\ 0 <= Pace /\ Pace <= w
      \/ call.stride < 0 /\ (Pace = -w \/ (0 <= Pace /\ Pace < WORD))
  BY <1>1, <1>2, Paces
<1> HIDE DEF p, w
<1>6. b \in Int /\ 0 <= b /\ b <= call.fn.unit - 1
  BY <1>1
<1>7. CASE call.stride > 0
  <2>1. Lo = 0 /\ Hi = Far + call.fn.size - 1
    BY <1>1, <1>7 DEF Lo, Hi
  <2>2. 0 <= p + b /\ p + b < REG /\ 0 <= p
    BY <1>1, <1>3, <1>4, <1>5, <1>6, <1>7, <2>1
  <2>3. \A r \in Lo .. Hi : r \in Int /\ 0 <= r /\ r < REG
    BY <1>1, <2>1
  <2> QED
    BY <1>1, <1>4, <1>6, <2>2, <2>3 DEF p
<1>8. CASE call.stride < 0
  <2>1. Lo = -Far /\ Hi = call.fn.size - 1
    BY <1>1, <1>8 DEF Lo, Hi
  <2>2. \A r \in Lo .. Hi : r \in Int /\ -Far <= r /\ r < call.fn.size
    BY <1>1, <2>1
  <2>3. CASE Pace = -w
    <3>1. p >= -(2 * Far) /\ p <= 0
      BY <1>1, <1>3, <1>4, <2>1, <2>3
    <3>2. -REG < p /\ p + b < call.fn.size /\ p + b >= -(2 * Far)
      BY <1>1, <1>4, <1>6, <3>1, <1>3
    <3> QED
      BY <1>1, <1>3, <1>4, <1>6, <2>2, <3>2 DEF p
  <2>4. CASE 0 <= Pace /\ Pace < WORD
    <3>1. 0 <= p /\ p + b < call.fn.size + WORD
      BY <1>1, <1>4, <1>6, <2>1, <2>4
    <3> QED
      BY <1>1, <1>3, <1>4, <1>6, <2>2, <3>1 DEF p
  <2> QED
    BY <1>5, <1>8, <2>3, <2>4, <1>1
<1> QED
  BY <1>1, <1>2, <1>7, <1>8

\* So a turn whose unit is in the arrays modulo that width is in them.
LEMMA TurnInside ==
    ASSUME call \in Calls, Given, call.nelems >= 2, Pace # 0, NEW k \in Nat,
           \A i \in 0 .. k - 1 : Inside(i), x0 = (k * Pace) % REG
    PROVE  /\ \A b \in 0 .. call.fn.unit - 1 : (x0 + b) % REG = (k * Pace + b) % REG
           /\ UnitAt(x0) \subseteq Owned(call) => Inside(k)
<1>1. /\ call.fn.unit \in Nat /\ call.fn.unit > 0 /\ REG \in Nat /\ call.nelems # 0
  <2>1. call.nelems # 0
    <3>1. call.nelems \in Nat
      BY InputAssumption DEF Calls
    <3> QED
      BY <3>1
  <2> QED
    BY <2>1, CallFacts
<1> DEFINE p == k * Pace
<1>2. \A b \in 0 .. call.fn.unit - 1 :
        /\ p + b \in Int /\ -REG < p /\ p + b < REG
        /\ \A r \in Lo .. Hi : /\ r \in Int /\ -REG < r /\ r < REG
                               /\ p + b # r + REG /\ p + b # r - REG
  BY NearBounds
<1>3. p \in Int /\ -REG < p /\ p < REG
  <2>1. 0 \in 0 .. call.fn.unit - 1
    BY <1>1
  <2>2. p \in Int
    BY Near
  <2>3. p + 0 < REG /\ -REG < p
    BY <1>2, <2>1
  <2> HIDE DEF p
  <2> QED
    BY <2>2, <2>3
<1>4. x0 = p % REG
  OBVIOUS
<1> HIDE DEF p
<1>5. x0 = IF p < 0 THEN p + REG ELSE p
  <2>1. -REG <= p
    BY <1>1, <1>3
  <2> QED
    BY <1>3, <1>4, <2>1, Wraps
<1>6. ASSUME NEW b \in 0 .. call.fn.unit - 1 PROVE (x0 + b) % REG = (p + b) % REG
  <2>1. b \in Nat /\ p + b \in Int /\ -REG <= p + b /\ p + b < REG
    BY <1>1, <1>2, <1>3
  <2>2. ((p + b) + REG) % REG = (p + b) % REG
    BY <2>1, Wraps
  <2>3. x0 + b = p + b \/ x0 + b = (p + b) + REG
    BY <1>1, <1>3, <1>5, <2>1
  <2> QED
    BY <2>2, <2>3
<1>7. ASSUME UnitAt(x0) \subseteq Owned(call), NEW b \in 0 .. call.fn.unit - 1
      PROVE  p + b \in Lo .. Hi
  <2>1. (p + b) % REG \in Owned(call)
    BY <1>6, <1>7 DEF UnitAt
  <2>2. PICK r \in Lo .. Hi : (p + b) % REG = r % REG
    BY <1>1, <2>1, OwnedSigned
  <2>3. /\ p + b \in Int /\ -REG <= p + b /\ p + b < REG
        /\ r \in Int /\ -REG <= r /\ r < REG /\ p + b # r + REG /\ p + b # r - REG
    BY <1>1, <1>2, <1>3
  <2>4. /\ (p + b) % REG = (IF p + b < 0 THEN (p + b) + REG ELSE p + b)
        /\ r % REG = IF r < 0 THEN r + REG ELSE r
    BY <2>3, Wraps
  <2>5. (IF p + b < 0 THEN (p + b) + REG ELSE p + b) = (IF r < 0 THEN r + REG ELSE r)
    BY <2>2, <2>4, Zenon
  <2>6. p + b = r
    BY <1>1, <2>3, <2>5
  <2> QED
    BY <2>2, <2>6
<1> QED
  BY <1>6, <1>7 DEF Inside, p

\* The turns a step ahead are counted, for the step is not 0.
LEMMA TurnsBounded ==
    ASSUME call \in Calls, Given, call.nelems >= 2, Pace # 0, NEW k \in Nat, Inside(k)
    PROVE  k + 1 < REG
<1>1. /\ call.fn.unit \in Nat /\ call.fn.unit > 0 /\ call.fn.size \in Nat /\ Far \in Nat
      /\ REG \in Nat /\ 2 * (Far + call.fn.size) <= REG /\ call.stride \in Int
      /\ Pace \in Int /\ call.fn.unit <= call.fn.size
  <2>1. call.nelems # 0
    <3>1. call.nelems \in Nat
      BY InputAssumption DEF Calls
    <3> QED
      BY <3>1
  <2> QED
    BY <2>1, CallFacts, Paces
<1>2. Lo \in Int /\ Hi \in Int /\ -Lo <= Far /\ Hi < Far + call.fn.size
  BY <1>1 DEF Lo, Hi
<1> DEFINE p == k * Pace
<1>3. p + 0 \in Lo .. Hi
  <2>1. 0 \in 0 .. call.fn.unit - 1
    BY <1>1
  <2> QED
    BY <2>1 DEF Inside
<1>4. k <= p \/ k <= -p
  <2> DEFINE c == Pace
  <2>1. c \in Int /\ c # 0
    BY <1>1
  <2> HIDE DEF c
  <2>2. CASE c > 0
    <3>1. 1 \in Nat /\ c \in Nat /\ 1 <= c /\ k <= k
      BY <2>1, <2>2
    <3>2. k * 1 <= k * c
      BY <3>1, TimesMonotone
    <3> QED
      BY <3>2 DEF c
  <2>3. CASE c < 0
    <3>1. 1 \in Nat /\ -c \in Nat /\ 1 <= -c /\ k <= k
      BY <2>1, <2>3
    <3>2. k * 1 <= k * (-c)
      BY <3>1, TimesMonotone
    <3>3. k * (-c) = -(k * c)
      BY <2>1
    <3> QED
      BY <3>2, <3>3 DEF c
  <2> QED
    BY <2>1, <2>2, <2>3
<1>5. p \in Int
  BY <1>1
<1> HIDE DEF p
<1> QED
  BY <1>1, <1>2, <1>3, <1>4, <1>5

\* The offsets of the first k turns' units.
Reached(k) == {(i * Pace + b) % REG : i \in 0 .. k - 1, b \in 0 .. call.fn.unit - 1}

\* One turn more reaches its unit more.
LEMMA ReachedGrows ==
    ASSUME NEW k \in Nat, NEW x \in 0 .. REG - 1, NEW o \in 0 .. REG - 1,
           call.fn.unit \in Nat, call.fn.unit <= REG,
           \A b \in 0 .. call.fn.unit - 1 : (x + b) % REG = (k * Pace + b) % REG
    PROVE  o \in Reached(k + 1) <=> o \in Reached(k) \/ (o - x) % REG < call.fn.unit
<1>1. REG \in Nat /\ REG > 0
  BY WidthAssumption
<1>2. (o - x) % REG \in 0 .. REG - 1
  BY <1>1
<1>3. (o - x) % REG < call.fn.unit <=>
        \E b \in 0 .. call.fn.unit - 1 : o = (k * Pace + b) % REG
  <2>1. ASSUME (o - x) % REG < call.fn.unit
        PROVE  \E b \in 0 .. call.fn.unit - 1 : o = (k * Pace + b) % REG
    <3> DEFINE b == (o - x) % REG
    <3>1. b \in 0 .. REG - 1 /\ b \in 0 .. call.fn.unit - 1
      BY <1>1, <1>2, <2>1
    <3>2. o = (x + b) % REG
      BY <3>1, Difference
    <3> QED
      BY <3>1, <3>2
  <2>2. ASSUME NEW b \in 0 .. call.fn.unit - 1, o = (k * Pace + b) % REG
        PROVE  (o - x) % REG < call.fn.unit
    <3>1. b \in 0 .. REG - 1 /\ o = (x + b) % REG
      BY <1>1, <2>2
    <3>2. (o - x) % REG = b
      BY <3>1, Difference
    <3> QED
      BY <3>2
  <2> QED
    BY <2>1, <2>2
<1>4. \A i : i \in 0 .. (k + 1) - 1 <=> i \in 0 .. k - 1 \/ i = k
  OBVIOUS
<1> QED
  BY <1>3, <1>4 DEF Reached

----------------------------------------------------------------------------
(* What the loop has copied *)

\* The call is the loop's to make, and nothing is copied without it.
Called ==
    /\ Given
    /\ at \in {"loop", "stray"} => Moves(call)
    /\ at = "begin" \/ ~Moves(call) => \A o \in Owned(call) : dest[o] = Old

\* The turns so far were in the arrays, one step after the other, no more of
\* them than the count, and copied their units.
March ==
    call.nelems >= 2 /\ Pace # 0 =>
        /\ at = "begin" => x12 = 0 /\ x0 = 0
        /\ at \in {"loop", "stray"} => x0 = (x12 * Pace) % REG /\ (x2 # 0 => x12 < x2)
        /\ at = "done" /\ Moves(call) => x12 = x2 /\ x2 # 0
        /\ \A i \in 0 .. x12 - 1 : Inside(i)
        /\ \A o \in Owned(call) : dest[o] # Old <=> o \in Reached(x12)

\* A single element, or the same one again and again.
Still ==
    Moves(call) /\ (call.nelems = 1 \/ Pace = 0) =>
        /\ at # "done" => x0 = 0 /\ (Pace # 0 => x12 = 0)
        /\ at # "done" => \A o \in Owned(call) : dest[o] # Old => o < call.fn.unit
        /\ at = "done" => \A o \in Owned(call) : dest[o] # Old <=> o < call.fn.unit

\* A turn copies its unit and nothing else.
LEMMA TurnCopies ==
    ASSUME IInv, Turn
    PROVE  /\ call' = call /\ x2' = x2 /\ x3' = x3 /\ Owned(call)' = Owned(call)
           /\ \A o \in Owned(call) :
                /\ o \in 0 .. REG - 1
                /\ dest'[o] # Old <=> dest[o] # Old \/ (o - x0) % REG < call.fn.unit
<1>1. /\ call \in Calls /\ call' = call /\ x2' = x2 /\ x3' = x3
      /\ Owned(call)' = Owned(call) /\ x0 = x1 /\ x0 \in 0 .. REG - 1
  BY DEF IInv, TypeOK, Aligned, Turn, Owned, Span
<1>2. Owned(call) \subseteq 0 .. REG - 1
  BY <1>1, OwnedOffsets
<1>3. \A o \in Owned(call) : (x0 + (o - x1)) % REG = o
  BY <1>1, <1>2, SameOffset
<1>4. dest' = [o \in Owned(call) |->
                 IF (o - x0) % REG < call.fn.unit THEN o ELSE dest[o]]
  BY <1>1, <1>3 DEF Turn
<1>5. Old \notin Owned(call)
  BY <1>2, WidthAssumption
<1> QED
  BY <1>1, <1>2, <1>4, <1>5

\* At the call nothing is copied and the registers hold what was passed.
LEMMA CalledInit == Init => Called
<1> SUFFICES ASSUME Init PROVE Called
  OBVIOUS
<1> QED
  BY DEF Init, Called, Given

\* No step changes what was passed, and only a call that reaches a loop copies.
LEMMA CalledStep == IInv /\ Called /\ [Next]_vars => Called'
<1> SUFFICES ASSUME IInv, Called, [Next]_vars PROVE Called'
  OBVIOUS
<1>1. CASE Begin
  <2>1. /\ UNCHANGED <<call, x2, x3, dest>>
        /\ at = "begin" /\ at' = IF Moves(call) THEN "loop" ELSE "done"
    BY <1>1 DEF Begin
  <2>2. Given' /\ Moves(call)' = Moves(call) /\ Owned(call)' = Owned(call)
    BY <2>1 DEF Called, Given, Passed, Moves, Owned, Span
  <2> QED
    BY <2>1, <2>2 DEF Called
<1>2. CASE Turn
  <2>1. UNCHANGED <<call, x2, x3>> /\ at = "loop" /\ at' \in {"loop", "done"}
    BY <1>2 DEF Turn
  <2>2. Given' /\ Moves(call)' = Moves(call) /\ Moves(call)
    BY <2>1 DEF Called, Given, Passed, Moves
  <2> QED
    BY <2>1, <2>2 DEF Called
<1>3. CASE Stray \/ UNCHANGED vars
  <2>1. UNCHANGED <<call, x2, x3, dest>> /\ (at' = at \/ (at = "loop" /\ at' = "stray"))
    BY <1>3 DEF Stray, vars
  <2>2. Given' /\ Moves(call)' = Moves(call) /\ Owned(call)' = Owned(call)
    BY <2>1 DEF Called, Given, Passed, Moves, Owned, Span
  <2> QED
    BY <2>1, <2>2 DEF Called
<1> QED
  BY <1>1, <1>2, <1>3 DEF Next

\* March holds before the first turn.
LEMMA MarchInit == Init => March
<1> SUFFICES ASSUME Init PROVE March
  OBVIOUS
<1>1. Reached(0) = {}
  BY DEF Reached
<1>2. \A i \in 0 .. 0 - 1 : Inside(i)
  OBVIOUS
<1> QED
  BY <1>1, <1>2 DEF Init, March

\* The pace does not change.
LEMMA SamePace ==
    ASSUME UNCHANGED <<call, x3>>
    PROVE  /\ Pace' = Pace /\ Moves(call)' = Moves(call) /\ Owned(call)' = Owned(call)
           /\ \A k : Inside(k)' = Inside(k) /\ Reached(k)' = Reached(k)
BY DEF Pace, Moves, Owned, Span, Inside, Reached, Lo, Hi, Far

\* A turn keeps it: it was in the arrays, is counted, copies its unit, and
\* leaves the address one step on.
LEMMA MarchTurn ==
    ASSUME IInv, Called, March, Turn, call.nelems >= 2, Pace # 0
    PROVE  March'
<1> DEFINE k == x12
<1>1. /\ call \in Calls /\ Given
      /\ x0 \in 0 .. REG - 1 /\ x12 \in Nat /\ x3 \in 0 .. REG - 1
      /\ x2 \in Nat /\ REG \in Nat
  BY WidthAssumption DEF IInv, TypeOK, Called
<1>2. /\ x0 = (x12 * Pace) % REG /\ (x2 # 0 => x12 < x2)
      /\ UnitAt(x0) \subseteq Owned(call)
      /\ \A i \in 0 .. x12 - 1 : Inside(i)
      /\ \A o \in Owned(call) : dest[o] # Old <=> o \in Reached(x12)
  BY DEF March, Turn
<1>3. /\ Inside(x12)
      /\ \A b \in 0 .. call.fn.unit - 1 : (x0 + b) % REG = (x12 * Pace + b) % REG
  BY <1>1, <1>2, TurnInside
<1>4. x12 + 1 < REG
  BY <1>1, <1>3, TurnsBounded
<1>5. x12' = x12 + 1
  BY <1>1, <1>4, Offset DEF Turn, Advance
<1>6. \A i \in 0 .. (x12 + 1) - 1 : Inside(i)
  BY <1>1, <1>2, <1>3
<1>7. x0' = ((x12 + 1) * Pace) % REG
  <2> DEFINE p == x12 * Pace
             e == (x12 + 1) * Pace
  <2>1. p \in Int /\ e = p + Pace /\ e \in Int
    <3>1. p \in Int /\ e = p + Pace
      BY <1>1, <1>2, Near
    <3>2. x12 + 1 \in Nat
      BY <1>1
    <3>3. e \in Int
      BY <1>1, <1>6, <3>2, Near
    <3> QED
      BY <3>1, <3>3
  <2>2. 0 \in 0 .. call.fn.unit - 1
    <3>1. call.nelems # 0
      <4>1. call.nelems \in Nat
        BY <1>1, InputAssumption DEF Calls
      <4> QED
        BY <4>1
    <3>2. call.fn.unit \in Nat /\ call.fn.unit > 0
      BY <1>1, <3>1, CallFacts
    <3> QED
      BY <3>2
  <2>3. -REG < p /\ p + 0 < REG /\ -REG < e /\ e + 0 < REG
    <3>1. x12 + 1 \in Nat
      BY <1>1
    <3>2. -REG < p /\ p + 0 < REG
      BY <1>1, <1>2, <2>2, NearBounds
    <3>3. -REG < e /\ e + 0 < REG
      BY <1>1, <1>6, <2>2, <3>1, NearBounds
    <3> QED
      BY <3>2, <3>3
  <2>4. Pace \in Int /\ (x3 = Pace \/ x3 = Pace + REG)
    BY <1>1, Paces
  <2>5. x0 = p % REG /\ x0' = (x0 + x3) % REG
    BY <1>2 DEF Turn, Advance
  <2> HIDE DEF p, e
  <2>6. -REG <= p /\ p < REG /\ -REG <= e /\ e < REG
    BY <1>1, <2>1, <2>3
  <2>7. x0 = p \/ x0 = p + REG
    BY <2>1, <2>5, <2>6, Wraps
  <2>8. x0 + x3 = e \/ x0 + x3 = e + REG \/ x0 + x3 = e + 2 * REG
    BY <1>1, <2>1, <2>4, <2>7
  <2>9. (e + REG) % REG = e % REG /\ (e + 2 * REG) % REG = e % REG
    BY <2>1, <2>6, Wraps
  <2>10. x0' = e % REG
    BY <2>5, <2>8, <2>9, Zenon
  <2> QED
    BY <2>10 DEF e
<1>8. \A o \in Owned(call) : dest'[o] # Old <=> o \in Reached(x12 + 1)
  <2>1. call.fn.unit \in Nat /\ call.fn.unit <= REG
    <3>1. call.nelems # 0
      <4>1. call.nelems \in Nat
        BY <1>1, InputAssumption DEF Calls
      <4> QED
        BY <4>1
    <3>2. /\ call.fn.unit \in Nat /\ call.fn.size \in Nat
          /\ call.fn.unit <= call.fn.size /\ Far \in Nat
          /\ 2 * (Far + call.fn.size) <= REG
      BY <1>1, <3>1, CallFacts
    <3> QED
      BY <1>1, <3>2
  <2>2. \A o \in Owned(call) :
          /\ o \in 0 .. REG - 1
          /\ dest'[o] # Old <=> dest[o] # Old \/ (o - x0) % REG < call.fn.unit
    BY TurnCopies
  <2>3. \A o \in 0 .. REG - 1 :
          o \in Reached(x12 + 1) <=> o \in Reached(x12) \/ (o - x0) % REG < call.fn.unit
    BY <1>1, <1>3, <2>1, ReachedGrows
  <2> QED
    BY <1>2, <2>2, <2>3
<1>9. UNCHANGED <<call, x2, x3>> /\ at' = IF x12' = x2 THEN "done" ELSE "loop"
  BY DEF Turn, Finished
<1>10. /\ Pace' = Pace /\ Moves(call)' = Moves(call) /\ Owned(call)' = Owned(call)
       /\ \A i : Inside(i)' = Inside(i) /\ Reached(i)' = Reached(i)
  BY <1>9, SamePace
<1>11. (\A i \in 0 .. x12 - 1 : Inside(i))'
  <2>1. x12' = x12 + 1
    BY <1>5
  <2> QED
    BY <1>6, <1>10, <2>1
<1>12. (\A o \in Owned(call) : dest[o] # Old <=> o \in Reached(x12))'
  BY <1>5, <1>8, <1>10
<1>13. at' = "loop" => x0' = (x12' * Pace') % REG /\ (x2' # 0 => x12' < x2')
  BY <1>1, <1>2, <1>5, <1>7, <1>9, <1>10
<1>14. at' = "done" => x12' = x2' /\ x2' # 0
  BY <1>1, <1>5, <1>9
<1> QED
  BY <1>9, <1>11, <1>12, <1>13, <1>14 DEF March

\* The calls whose turns march through the arrays keep March.
LEMMA MarchStep == IInv /\ Called /\ March /\ [Next]_vars => March'
<1> SUFFICES ASSUME IInv, Called, March, [Next]_vars PROVE March'
  OBVIOUS
<1>1. CASE Begin
  <2>1. /\ UNCHANGED <<call, x0, x2, x3, x12, dest>> /\ at = "begin"
        /\ at' = IF Moves(call) THEN "loop" ELSE "done"
    BY <1>1 DEF Begin
  <2>2. /\ Pace' = Pace /\ Moves(call)' = Moves(call) /\ Owned(call)' = Owned(call)
        /\ \A i : Inside(i)' = Inside(i) /\ Reached(i)' = Reached(i)
    BY <2>1, SamePace
  <2> SUFFICES ASSUME call.nelems >= 2, Pace # 0
               PROVE  March'
    BY <2>1, <2>2 DEF March
  <2>3. /\ x12 = 0 /\ x0 = 0 /\ \A i \in 0 .. x12 - 1 : Inside(i)
        /\ \A o \in Owned(call) : dest[o] # Old <=> o \in Reached(x12)
    BY <2>1 DEF March
  <2>4. call \in Calls /\ Given /\ x2 \in Nat /\ REG \in Nat /\ REG > 0
    BY WidthAssumption DEF IInv, TypeOK, Called
  <2>5. x0 = (x12 * Pace) % REG /\ (x2 # 0 => x12 < x2)
    <3>1. Pace \in Int
      BY <2>4, Paces
    <3>2. x12 * Pace = 0 /\ 0 % REG = 0
      BY <2>3, <2>4, <3>1
    <3> QED
      BY <2>3, <2>4, <3>2
  <2>6. at' = "done" => ~Moves(call)'
    BY <2>1, <2>2
  <2> QED
    BY <2>1, <2>2, <2>3, <2>5, <2>6 DEF March
<1>2. CASE Turn
  <2>1. CASE call.nelems >= 2 /\ Pace # 0
    BY <1>2, <2>1, MarchTurn
  <2>2. CASE ~(call.nelems >= 2 /\ Pace # 0)
    <3>1. UNCHANGED <<call, x3>>
      BY <1>2 DEF Turn
    <3>2. call' = call /\ Pace' = Pace
      BY <3>1, SamePace
    <3> QED
      BY <2>2, <3>2 DEF March
  <2> QED
    BY <2>1, <2>2
<1>3. CASE Stray \/ UNCHANGED vars
  <2>1. /\ UNCHANGED <<call, x0, x2, x3, x12, dest>>
        /\ at' = at \/ (at = "loop" /\ at' = "stray")
    BY <1>3 DEF Stray, vars
  <2>2. /\ Pace' = Pace /\ Moves(call)' = Moves(call) /\ Owned(call)' = Owned(call)
        /\ \A i : Inside(i)' = Inside(i) /\ Reached(i)' = Reached(i)
    BY <2>1, SamePace
  <2> QED
    BY <2>1, <2>2 DEF March
<1> QED
  BY <1>1, <1>2, <1>3 DEF Next

\* Still holds before the first turn.
LEMMA StillInit == Init => Still
BY DEF Init, Still

\* A turn that stays where it is copies the first unit again.
LEMMA StillTurn ==
    ASSUME IInv, Called, Still, Turn, call.nelems = 1 \/ Pace = 0
    PROVE  Still'
<1>1. /\ call \in Calls /\ x3 \in 0 .. REG - 1 /\ Given /\ x12 \in 0 .. REG - 1
      /\ REG \in Nat /\ WORD \in Nat /\ WORD >= 2 /\ 2 * WORD <= REG
      /\ at = "loop" /\ Moves(call)
  BY WidthAssumption DEF IInv, TypeOK, Called, Turn
<1>2. /\ x0 = 0 /\ (Pace # 0 => x12 = 0)
      /\ \A o \in Owned(call) : dest[o] # Old => o < call.fn.unit
  BY <1>1 DEF Still
<1>3. /\ UNCHANGED <<call, x2, x3>> /\ Owned(call)' = Owned(call)
      /\ \A o \in Owned(call) :
            /\ o \in 0 .. REG - 1
            /\ dest'[o] # Old <=> dest[o] # Old \/ (o - x0) % REG < call.fn.unit
  BY TurnCopies
<1>4. /\ x0' = (x0 + x3) % REG /\ x12' = (x12 + 1) % REG
      /\ at' = IF x12' = x2 THEN "done" ELSE "loop"
  BY DEF Turn, Advance, Finished
<1>5. Pace' = Pace /\ Moves(call)' = Moves(call)
  BY <1>3, SamePace
<1>6. \A o \in Owned(call) : dest'[o] # Old <=> o < call.fn.unit
  BY <1>1, <1>2, <1>3
<1>7. CASE Pace = 0
  <2>1. x3 = 0
    BY <1>1, <1>7 DEF Pace
  <2>2. x0' = 0
    BY <1>1, <1>2, <1>4, <2>1
  <2> QED
    BY <1>3, <1>5, <1>6, <1>7, <2>2 DEF Still
<1>8. CASE Pace # 0
  <2>1. x2 = 1
    <3>1. call.nelems = 1
      BY <1>8
    <3>2. 1 % WORD = 1 /\ 1 % REG = 1
      BY <1>1
    <3> QED
      BY <1>1, <3>1, <3>2 DEF Given, Passed
  <2>2. at' = "done"
    BY <1>1, <1>2, <1>4, <1>8, <2>1
  <2> QED
    BY <1>3, <1>6, <2>2 DEF Still
<1> QED
  BY <1>7, <1>8

\* The calls that copy one element keep Still.
LEMMA StillStep == IInv /\ Called /\ Still /\ [Next]_vars => Still'
<1> SUFFICES ASSUME IInv, Called, Still, [Next]_vars PROVE Still'
  OBVIOUS
<1>1. CASE Begin
  <2>1. /\ UNCHANGED <<call, x0, x2, x3, x12, dest>> /\ at = "begin"
        /\ at' = IF Moves(call) THEN "loop" ELSE "done"
    BY <1>1 DEF Begin
  <2>2. Pace' = Pace /\ Moves(call)' = Moves(call) /\ Owned(call)' = Owned(call)
    BY <2>1, SamePace
  <2> QED
    BY <2>1, <2>2 DEF Still
<1>2. CASE Turn
  <2>1. CASE call.nelems = 1 \/ Pace = 0
    BY <1>2, <2>1, StillTurn
  <2>2. CASE ~(call.nelems = 1 \/ Pace = 0)
    <3>1. UNCHANGED <<call, x3>>
      BY <1>2 DEF Turn
    <3>2. call' = call /\ Pace' = Pace
      BY <3>1, SamePace
    <3> QED
      BY <2>2, <3>2 DEF Still
  <2> QED
    BY <2>1, <2>2
<1>3. CASE Stray \/ UNCHANGED vars
  <2>1. /\ UNCHANGED <<call, x0, x2, x3, x12, dest>>
        /\ at' = at \/ (at = "loop" /\ at' = "stray")
    BY <1>3 DEF Stray, vars
  <2>2. Pace' = Pace /\ Moves(call)' = Moves(call) /\ Owned(call)' = Owned(call)
    BY <2>1, SamePace
  <2> QED
    BY <2>1, <2>2 DEF Still
<1> QED
  BY <1>1, <1>2, <1>3 DEF Next

\* The inductive invariant of what a transfer copies.
Copying == IInv /\ Called /\ March /\ Still

\* It holds in every behaviour.
LEMMA SpecCopying == Spec => []Copying
<1>1. Init => Copying
  BY InitIInv, CalledInit, MarchInit, StillInit DEF Copying
<1>2. Copying /\ [Next]_vars => Copying'
  BY NextIInv, CalledStep, MarchStep, StillStep DEF Copying
<1> QED
  BY <1>1, <1>2, PTL DEF Spec

----------------------------------------------------------------------------
(* Leaving the arrays *)

\* A transfer that has left the arrays was about to read or write outside.
Out == at = "stray" => ~(UnitAt(x0) \cup UnitAt(x1) \subseteq Owned(call))

\* It did not move since.
LEMMA SpecOut == Spec => []Out
<1>1. Init => Out
  BY DEF Init, Out
<1>2. Out /\ [Next]_vars => Out'
  BY DEF Out, Next, Begin, Turn, Stray, vars, UnitAt, Owned, Span
<1> QED
  BY <1>1, <1>2, PTL DEF Spec

\* The first element is in the arrays.
LEMMA FirstOwned ==
    ASSUME call \in Calls, call.nelems # 0
    PROVE  UnitAt(0) \subseteq Owned(call)
<1>1. \A b \in 0 .. call.fn.unit - 1 : b \in Lo .. Hi
  BY CallFacts DEF Lo, Hi
<1>2. UnitAt(0) = {b % REG : b \in 0 .. call.fn.unit - 1}
  <2>1. \A b \in 0 .. call.fn.unit - 1 : 0 + b = b
    BY CallFacts
  <2> QED
    BY <2>1 DEF UnitAt
<1> QED
  BY <1>1, <1>2, OwnedSigned

\* A turn within the count of elements is in the arrays if the step is no
\* larger than asked for and goes the way asked for.
LEMMA CountedInside ==
    ASSUME call \in Calls, Given, call.nelems >= 2, NEW k \in Nat, k < call.nelems,
           call.stride >= 0 \/ x3 >= WORD
    PROVE  Inside(k)
<1> DEFINE w == Abs(call.stride) * call.fn.size
           n == call.nelems - 1
<1>0. call.nelems \in Nat /\ call.stride \in Int
  BY InputAssumption DEF Calls
<1>1. call.nelems \in Nat /\ call.stride \in Int /\ call.nelems # 0
  BY <1>0
<1>2. /\ call.fn.unit \in Nat /\ call.fn.scale \in Nat /\ call.fn.size \in Nat
      /\ call.fn.unit > 0 /\ call.fn.unit <= call.fn.size /\ Far \in Nat
      /\ call.fn.scale <= call.fn.size /\ WORD \in Nat /\ REG \in Nat
  BY <1>1, CallFacts
<1>3. Abs(call.stride) \in Nat
  BY <1>1 DEF Abs
<1>4. /\ w \in Nat /\ Abs(call.stride) * call.fn.scale \in Nat
      /\ Abs(call.stride) * call.fn.scale <= w
  BY <1>2, <1>3, TimesMonotone
<1>5. Far = n * w
  BY DEF Far
<1>6. n \in Nat /\ k <= n
  BY <1>1
<1> HIDE DEF w, n
<1>7. CASE 0 <= Pace /\ call.stride >= 0
  <2>1. Pace \in Nat /\ Pace <= w
    BY <1>1, <1>4, <1>7, Paces
  <2>2. k * Pace \in Nat /\ k * Pace <= Far
    BY <1>4, <1>5, <1>6, <2>1, TimesMonotone
  <2> QED
    BY <1>2, <1>7, <2>2 DEF Inside, Lo, Hi
<1>8. CASE call.stride < 0 /\ x3 >= WORD
  <2>1. Pace = -(Abs(call.stride) * call.fn.scale)
    <3>1. Pace = x3 - REG /\ x3 \in Nat /\ x3 < REG
      BY <1>8, Paces DEF Pace
    <3> QED
      BY <1>2, <1>8, <3>1, Paces
  <2>2. PICK m \in Nat : Pace = -m /\ m <= w
    BY <1>4, <2>1
  <2>3. k * m \in Nat /\ k * m <= Far
    BY <1>4, <1>5, <1>6, <2>2, TimesMonotone
  <2>4. k * Pace = -(k * m)
    BY <2>2
  <2> QED
    BY <1>1, <1>2, <1>8, <2>3, <2>4 DEF Inside, Lo, Hi
<1> QED
  BY <1>1, <1>7, <1>8, Paces

\* A transfer leaves the caller's arrays only with a count cut to 0 or with a
\* negative step that lost its upper half, for every count, every stride and
\* every pair of register widths.
THEOREM SpecStrayExplained == Spec => []StrayExplained
<1>1. Copying /\ Out => StrayExplained
  <2> SUFFICES ASSUME Copying, Out, at = "stray", x2 # 0,
                      call.stride >= 0 \/ x3 >= WORD
               PROVE  FALSE
    <3>1. ASSUME Copying, at = "stray"
          PROVE  call.nelems # 0 /\ call.stride \in Int /\ x3 \in Int /\ WORD \in Int
      BY <3>1, InputAssumption, WidthAssumption
      DEF Copying, IInv, TypeOK, Calls, Called, Moves
    <3> QED
      BY <3>1 DEF StrayExplained
  <2>1. /\ call \in Calls /\ x0 = x1 /\ Given /\ Moves(call) /\ call.nelems # 0
        /\ x12 \in 0 .. REG - 1 /\ REG \in Nat /\ x2 \in 0 .. REG - 1
    BY WidthAssumption DEF Copying, IInv, TypeOK, Aligned, Called, Moves
  <2>2. ~(UnitAt(x0) \subseteq Owned(call))
    BY <2>1 DEF Out
  <2>3. call.nelems \in Nat
    BY <2>1, InputAssumption DEF Calls
  <2>4. CASE call.nelems = 1 \/ Pace = 0
    <3>1. x0 = 0
      BY <2>1, <2>4 DEF Copying, Still
    <3> QED
      BY <2>1, <2>2, <3>1, FirstOwned
  <2>5. CASE call.nelems >= 2 /\ Pace # 0
    <3>1. x0 = (x12 * Pace) % REG /\ x12 < x2 /\ \A i \in 0 .. x12 - 1 : Inside(i)
      BY <2>5 DEF Copying, March
    <3>2. x2 \in Nat /\ x2 <= call.nelems
      BY <2>1, <2>3, PassedBelow DEF Given
    <3>3. Inside(x12)
      BY <2>1, <2>3, <2>5, <3>1, <3>2, CountedInside
    <3>4. \A b \in 0 .. call.fn.unit - 1 : (x0 + b) % REG = (x12 * Pace + b) % REG
      BY <2>1, <2>5, <3>1, TurnInside
    <3>5. \A b \in 0 .. call.fn.unit - 1 : (x0 + b) % REG \in Owned(call)
      BY <2>1, <3>3, <3>4, OwnedSigned DEF Inside
    <3> QED
      BY <2>2, <3>5 DEF UnitAt
  <2> QED
    BY <2>1, <2>3, <2>4, <2>5
<1> QED
  BY <1>1, SpecCopying, SpecOut, PTL

----------------------------------------------------------------------------
(* What was asked for *)

\* The offsets of the bytes of the elements.
Wanted ==
    {(i * call.stride * call.fn.size + b) % REG :
        i \in 0 .. call.nelems - 1, b \in 0 .. call.fn.size - 1}

\* The destination is as asked for when the bytes of the elements are copied
\* and no others are.
LEMMA Agree ==
    ASSUME IInv
    PROVE  dest = Reference <=> \A o \in Owned(call) : dest[o] # Old <=> o \in Wanted
<1>1. /\ call \in Calls /\ dest \in [Owned(call) -> Owned(call) \cup {Old}]
      /\ \A o \in Owned(call) : dest[o] \in {Old, o}
  BY DEF IInv, TypeOK, NoMisplacedByte
<1>2. Old \notin Owned(call)
  BY <1>1, OwnedOffsets, WidthAssumption
<1>3. Reference = [o \in Owned(call) |-> IF o \in Wanted THEN o ELSE Old]
  <2>1. \A o : o \in Wanted <=>
          \E i \in 0 .. call.nelems - 1, b \in 0 .. call.fn.size - 1 :
              o = (i * call.stride * call.fn.size + b) % REG
    BY DEF Wanted
  <2> QED
    BY <2>1, Zenon DEF Reference
<1>4. ASSUME dest = Reference, NEW o \in Owned(call)
      PROVE  dest[o] # Old <=> o \in Wanted
  BY <1>2, <1>3, <1>4
<1>5. ASSUME \A o \in Owned(call) : dest[o] # Old <=> o \in Wanted
      PROVE  dest = Reference
  <2>1. \A o \in Owned(call) : dest[o] = IF o \in Wanted THEN o ELSE Old
    BY <1>1, <1>5
  <2>2. dest = [o \in Owned(call) |-> dest[o]]
    BY <1>1
  <2> QED
    BY <1>3, <2>1, <2>2
<1> QED
  BY <1>4, <1>5

\* The first bytes, the last byte of the first element, and the byte furthest
\* from them are asked for.
LEMMA EndsWanted ==
    ASSUME call \in Calls, call.nelems # 0
    PROVE  /\ \A b \in 0 .. call.fn.size - 1 :
                b \in Lo .. Hi /\ b \in 0 .. REG - 1 /\ b \in Wanted
           /\ call.stride > 0 => Hi % REG \in Wanted
           /\ call.stride < 0 => Lo % REG \in Wanted
           /\ Lo \in Lo .. Hi /\ Hi \in Lo .. Hi
           /\ \A p \in Lo .. Hi : p \in Int /\ p % REG \in Owned(call)
<1> DEFINE n == call.nelems - 1
           s == call.stride
           z == call.fn.size
           a == Abs(call.stride)
<1>1. /\ call.nelems \in Nat /\ call.nelems >= 1 /\ s \in Int
      /\ z \in Nat /\ z > 0 /\ Far \in Nat /\ REG \in Nat /\ 2 * (Far + z) <= REG
  BY CallFacts
<1>2. a \in Nat /\ (s >= 0 => a = s) /\ (s < 0 => s = -a)
  BY <1>1 DEF Abs
<1>3. Far = n * (a * z) /\ n \in Nat /\ n \in 0 .. call.nelems - 1
  BY <1>1 DEF Far
<1>4. Lo \in Int /\ Hi \in Int /\ Lo <= 0 /\ z - 1 <= Hi /\ Lo <= Hi
  BY <1>1 DEF Lo, Hi
<1>5. ASSUME NEW b \in 0 .. z - 1
      PROVE  b \in Lo .. Hi /\ b \in 0 .. REG - 1 /\ b \in Wanted
  <2>1. b \in Lo .. Hi /\ b \in 0 .. REG - 1
    BY <1>1, <1>4, <1>5
  <2>2. 0 * s * z + b = b /\ b % REG = b
    BY <1>1, <2>1, Offset
  <2>3. 0 \in 0 .. call.nelems - 1
    BY <1>1
  <2> QED
    BY <2>1, <2>2, <2>3 DEF Wanted
<1>6. \A p \in Lo .. Hi : p \in Int /\ p % REG \in Owned(call)
  <2>1. Owned(call) = {p % REG : p \in Lo .. Hi}
    BY OwnedSigned
  <2>2. \A p \in Lo .. Hi : p \in Int
    BY <1>4
  <2> QED
    BY <2>1, <2>2, Zenon
<1>7. ASSUME s > 0
      PROVE  Hi % REG \in Wanted
  <2>1. n * s * z = Far
    BY <1>1, <1>2, <1>3, <1>7
  <2>2. Hi = n * s * z + (z - 1)
    BY <1>1, <1>7, <2>1 DEF Hi, Lo
  <2>3. z - 1 \in 0 .. call.fn.size - 1
    BY <1>1
  <2> HIDE DEF n
  <2> QED
    BY <1>3, <2>2, <2>3 DEF Wanted
<1>8. ASSUME s < 0
      PROVE  Lo % REG \in Wanted
  <2>1. n * (-a) * z = -(n * (a * z))
    <3> HIDE DEF n, a, z
    <3>1. \A x, y, u \in Int : x * (-y) * u = -(x * (y * u))
      OBVIOUS
    <3> QED
      BY <1>1, <1>2, <1>3, <3>1
  <2>2. n * s * z = -Far
    BY <1>2, <1>3, <1>8, <2>1
  <2>3. Lo = n * s * z + 0
    BY <1>1, <1>8, <2>2 DEF Lo
  <2>4. 0 \in 0 .. call.fn.size - 1
    BY <1>1
  <2> HIDE DEF n
  <2> QED
    BY <1>3, <2>3, <2>4 DEF Wanted
<1> QED
  BY <1>4, <1>5, <1>6, <1>7, <1>8

\* Of a call that reaches a loop, the function tells whether it is lossy.
LEMMA MovingLossy ==
    ASSUME call \in Calls, Moves(call), call.nelems \in Nat
    PROVE  Lossy <=> \/ call.fn.unit < call.fn.size
                     \/ /\ call.fn.scale < call.fn.size
                        /\ call.nelems > 1 /\ call.stride # 0
<1>1. call.fn \in Function
  BY DEF Calls
<1>2. Kind(call.fn) /\ Blocks(call.fn)
  BY <1>1, FunctionKind
<1>3. /\ call.nelems # 0 /\ call.fn.lp # "none"
      /\ call.fn.lp = "lone" => call.stride # 1 \/ call.nelems = 1
  BY DEF Moves
<1>4. call.nelems > 0
  BY <1>3
<1>5. call.fn \notin RuntimeLonglongPut
  BY <1>2, <1>3 DEF Kind
<1>6. call.fn.type \in Halved <=> call.fn.unit < call.fn.size
  BY <1>2 DEF Kind
<1>7. call.fn.type = "int" /\ call.fn.nb <=> call.fn.scale < call.fn.size
  BY <1>2, Zenon DEF Kind, Blocks
<1>8. ~(/\ call.fn.type = "char" /\ call.fn.op = "get" /\ ~call.fn.nb
        /\ call.stride = 1 /\ call.nelems > 1)
  <2>1. ASSUME call.fn.type = "char", call.fn.op = "get", ~call.fn.nb
        PROVE  call.fn.lp = "lone"
    BY <1>2, <2>1, Zenon DEF Blocks
  <2>2. ~(1 > 1)
    OBVIOUS
  <2> QED
    BY <1>3, <2>1, <2>2, Zenon
<1> QED
  BY <1>4, <1>5, <1>6, <1>7, <1>8, Zenon DEF Lossy

\* Fewer steps, or shorter ones, do not reach as far.
LEMMA Short ==
    ASSUME NEW k \in Nat, NEW m \in Nat, NEW v \in Nat, NEW w \in Nat,
           k <= m, v <= w, m > 0, w > 0, k < m \/ v < w
    PROVE  k * v \in Nat /\ k * v < m * w
<1>1. CASE k < m
  <2>1. m - 1 \in Nat /\ k <= m - 1
    BY <1>1
  <2>2. k * v \in Nat /\ k * v <= (m - 1) * w /\ m * w \in Nat
    BY <2>1, TimesMonotone
  <2>3. (m - 1) * w = m * w - w
    OBVIOUS
  <2> QED
    BY <2>2, <2>3
<1>2. CASE v < w
  <2>1. w - 1 \in Nat /\ v <= w - 1
    BY <1>2
  <2>2. k * v \in Nat /\ k * v <= m * (w - 1) /\ m * w \in Nat
    BY <2>1, TimesMonotone
  <2>3. m * (w - 1) = m * w - m
    OBVIOUS
  <2> QED
    BY <2>2, <2>3
<1> QED
  BY <1>1, <1>2

----------------------------------------------------------------------------
(* What a transfer loses *)

\* A call that stays on one element copies what it should when it is asked for
\* that element alone and moves all of it.
LEMMA StillAgrees ==
    ASSUME IInv, call.nelems # 0, call.nelems = 1 \/ Pace = 0, Given,
           \A o \in Owned(call) : dest[o] # Old <=> o < call.fn.unit
    PROVE  dest = Reference <=> /\ call.fn.unit = call.fn.size
                                /\ call.nelems = 1 \/ call.stride = 0
<1> DEFINE u == call.fn.unit
           z == call.fn.size
<1>1. call \in Calls
  BY DEF IInv, TypeOK
<1>2. /\ call.nelems \in Nat /\ call.nelems >= 1 /\ call.stride \in Int
      /\ u \in Nat /\ z \in Nat /\ 0 < u /\ u <= z /\ REG \in Nat
      /\ Far \in Nat /\ 2 * (Far + z) <= REG
  BY <1>1, CallFacts
<1>3. \A b \in 0 .. z - 1 : b \in Lo .. Hi /\ b \in 0 .. REG - 1 /\ b \in Wanted
  BY <1>1, EndsWanted
<1>4. \A p \in Lo .. Hi : p \in Int /\ p % REG \in Owned(call)
  BY <1>1, EndsWanted
<1>5. ASSUME u < z
      PROVE  dest # Reference
  <2>1. z - 1 \in 0 .. z - 1 /\ ~(z - 1 < u) /\ (z - 1) % REG = z - 1
    BY <1>2, <1>5
  <2>2. z - 1 \in Owned(call) /\ z - 1 \in Wanted
    BY <1>3, <1>4, <2>1
  <2>3. dest[z - 1] = Old
    BY <2>1, <2>2
  <2> QED
    BY <2>2, <2>3, Agree
<1>6. ASSUME u = z, call.nelems = 1 \/ call.stride = 0
      PROVE  dest = Reference
  <2>1. \A i \in 0 .. call.nelems - 1 : i * call.stride * z = 0
    <3>1. CASE call.nelems = 1
      <4>1. \A i \in 0 .. call.nelems - 1 : i = 0
        BY <3>1
      <4>2. 0 * call.stride * z = 0
        BY <1>2
      <4> QED
        BY <4>1, <4>2
    <3>2. CASE call.stride = 0
      <4>1. \A i \in Int : i * 0 * z = 0
        BY <1>2
      <4> QED
        BY <1>2, <3>2, <4>1
    <3> QED
      BY <1>6, <3>1, <3>2
  <2>2. \A b \in 0 .. z - 1 : (0 + b) % REG = b
    BY <1>2
  <2>3. \A o \in Wanted : o \in 0 .. z - 1
    BY <2>1, <2>2 DEF Wanted
  <2>4. Owned(call) \subseteq 0 .. REG - 1
    BY <1>1, OwnedOffsets
  <2>5. \A o \in Owned(call) : dest[o] # Old <=> o \in Wanted
    BY <1>2, <1>3, <1>6, <2>3, <2>4
  <2> QED
    BY <2>5, Agree
<1>7. ASSUME call.nelems # 1, call.stride # 0
      PROVE  dest # Reference
  <2>1. call.nelems >= 2
    BY <1>2, <1>7
  <2>2. z <= Far
    BY <1>1, <1>7, <2>1, FarApart
  <2>3. CASE call.stride > 0
    <3>1. Hi = Far + z - 1 /\ Hi % REG = Hi /\ ~(Hi < u)
      BY <1>2, <2>2, <2>3 DEF Hi, Lo
    <3>2. Hi \in Owned(call) /\ Hi \in Wanted
      BY <1>1, <1>4, <2>3, <3>1, EndsWanted
    <3>3. dest[Hi] = Old
      BY <3>1, <3>2
    <3> QED
      BY <3>2, <3>3, Agree
  <2>4. CASE call.stride < 0
    <3>1. Lo % REG = REG - Far /\ ~(REG - Far < u)
      <4>1. Lo = -Far /\ -Far < 0 /\ -Far >= -REG /\ -Far \in Int
        BY <1>2, <2>2, <2>4 DEF Lo
      <4>2. (-Far) % REG = -Far + REG
        BY <4>1, Offset
      <4> QED
        BY <1>2, <2>2, <4>1, <4>2
    <3>2. Lo % REG \in Owned(call) /\ Lo % REG \in Wanted
      BY <1>1, <1>4, <2>4, EndsWanted
    <3>3. dest[Lo % REG] = Old
      BY <3>1, <3>2
    <3> QED
      BY <3>2, <3>3, Agree
  <2> QED
    BY <1>2, <1>7, <2>3, <2>4
<1> QED
  BY <1>2, <1>5, <1>6, <1>7

\* With all turns, exact steps and whole elements, exactly what was asked for
\* is reached.
LEMMA AllReached ==
    ASSUME call \in Calls, call.nelems # 0,
           call.fn.unit = call.fn.size, Pace = call.stride * call.fn.size
    PROVE  Reached(call.nelems) = Wanted
<1>1. call.stride \in Int /\ call.fn.size \in Nat /\ call.nelems \in Nat
  BY CallFacts
<1>2. \A i, s, z \in Int : i * (s * z) = i * s * z
  OBVIOUS
<1>3. \A i \in 0 .. call.nelems - 1 : i * Pace = i * call.stride * call.fn.size
  BY <1>1, <1>2
<1> QED
  BY <1>3 DEF Reached, Wanted

\* With fewer turns, shorter steps, steps the other way or parts of elements, a
\* byte that was asked for is not in any turn's unit.
LEMMA Missed ==
    ASSUME call \in Calls, Given, call.nelems >= 2, Pace # 0, x2 # 0,
           \/ call.fn.unit < call.fn.size \/ call.fn.scale < call.fn.size
           \/ x2 # call.nelems \/ x3 # (call.stride * call.fn.scale) % REG
    PROVE  \E p \in Lo .. Hi :
              /\ p % REG \in Wanted
              /\ \A k \in 0 .. x2 - 1, b \in 0 .. call.fn.unit - 1 : p # k * Pace + b
<1> DEFINE n == call.nelems - 1
           a == Abs(call.stride)
           u == call.fn.unit
           z == call.fn.size
           w == a * z
           v == a * call.fn.scale
<1>0. call.nelems \in Nat
  BY InputAssumption DEF Calls
<1>1. /\ call.nelems # 0 /\ n \in Nat /\ n >= 1
  BY <1>0
<1>2. /\ u \in Nat /\ z \in Nat /\ call.fn.scale \in Nat /\ u > 0 /\ u <= z
      /\ call.fn.scale <= z /\ Far \in Nat /\ REG \in Nat /\ call.stride \in Int
  BY <1>1, CallFacts
<1>3. call.stride # 0
  BY Paces
<1>4. /\ a \in Nat /\ a >= 1 /\ v \in Nat /\ v > 0 /\ v <= w /\ w <= Far /\ z <= Far
  BY <1>3, FarApart
<1>5. w \in Nat /\ w > 0 /\ Far = n * w
  BY <1>2, <1>4 DEF Far
<1>6. call.fn.scale < z => v < w
  <2>1. \A x, y, t \in Nat : x >= 1 /\ y < t => x * y < x * t
    <3> TAKE x, y, t \in Nat
    <3> HAVE x >= 1 /\ y < t
    <3>1. t - y \in Nat /\ x * (t - y) >= 1 * 1
      <4>1. t - y \in Nat /\ 1 <= t - y
        OBVIOUS
      <4> QED
        BY <4>1, TimesMonotone
    <3>2. x * (t - y) = x * t - x * y /\ x * t \in Nat /\ x * y \in Nat
      <4>1. x * (t - y) = x * t - x * y
        BY <3>1
      <4> QED
        BY <4>1, TimesMonotone
    <3> QED
      BY <3>1, <3>2
  <2> QED
    BY <1>2, <1>4, <2>1
<1>7. x2 \in Nat /\ x2 <= call.nelems
  BY <1>0, PassedBelow DEF Given
<1>8. \A k \in 0 .. x2 - 1 : k \in Nat /\ k <= n /\ (x2 # call.nelems => k < n)
  BY <1>0, <1>7
<1>9. /\ Lo \in Lo .. Hi /\ Hi \in Lo .. Hi
      /\ \A b \in 0 .. z - 1 : b \in Lo .. Hi /\ b \in 0 .. REG - 1 /\ b \in Wanted
      /\ call.stride > 0 => Hi % REG \in Wanted
      /\ call.stride < 0 => Lo % REG \in Wanted
  BY <1>1, EndsWanted
<1> HIDE DEF n, a, w, v
<1>10. CASE call.stride > 0
  <2>1. Pace \in Nat /\ Pace <= v /\ Hi = Far + z - 1
    BY <1>2, <1>10, Paces DEF Hi, Lo, v, a
  <2>2. x3 # (call.stride * call.fn.scale) % REG => Pace < v
    <3>1. v = Abs(call.stride) * call.fn.scale
      BY DEF v, a
    <3>2. call.stride >= 0
      BY <1>2, <1>10
    <3>3. x3 = (call.stride * call.fn.scale) % REG <=> Pace = v
      BY <3>1, <3>2, Paces
    <3> QED
      BY <1>4, <2>1, <3>3
  <2>3. ASSUME NEW k \in 0 .. x2 - 1
        PROVE  /\ k * Pace \in Nat /\ k * Pace <= Far
               /\ u < z \/ k * Pace < Far
    <3>1. k \in Nat /\ k <= n /\ Pace <= w
      BY <1>4, <1>5, <1>8, <2>1
    <3>2. k * Pace \in Nat /\ k * Pace <= Far
      BY <1>1, <1>5, <2>1, <3>1, TimesMonotone
    <3>3. ASSUME ~(u < z)
          PROVE  k * Pace < Far
      <4>1. k < n \/ Pace < w
        BY <1>4, <1>5, <1>6, <1>8, <2>1, <2>2, <3>3
      <4> QED
        BY <1>1, <1>5, <2>1, <3>1, <4>1, Short
    <3> QED
      BY <3>2, <3>3
  <2>4. \A k \in 0 .. x2 - 1, b \in 0 .. u - 1 : Hi # k * Pace + b
    BY <1>2, <2>1, <2>3
  <2> QED
    BY <1>9, <1>10, <2>4
<1>11. CASE call.stride < 0
  <2>1. CASE x3 # (call.stride * call.fn.scale) % REG
    <3>1. Pace \in Nat /\ Lo = -Far
      <4>1. 0 <= Pace /\ Pace \in Int
        BY <1>11, <2>1, Paces
      <4> QED
        BY <1>2, <1>11, <4>1 DEF Lo
    <3>2. \A k \in 0 .. x2 - 1 : k * Pace \in Nat
      BY <1>8, <3>1, TimesMonotone
    <3>3. \A k \in 0 .. x2 - 1, b \in 0 .. u - 1 : Lo # k * Pace + b
      BY <1>2, <1>4, <1>5, <3>1, <3>2
    <3> QED
      BY <1>9, <1>11, <3>3
  <2>2. CASE x3 = (call.stride * call.fn.scale) % REG
    <3>1. Pace = -v /\ Lo = -Far
      <4>1. Pace = -v
        BY <1>11, <2>2, Paces DEF v, a
      <4> QED
        BY <1>2, <1>11, <4>1 DEF Lo
    <3>2. \A k \in 0 .. x2 - 1 : k * Pace = -(k * v) /\ k * v \in Nat
      <4>1. \A k \in 0 .. x2 - 1 : k * Pace = -(k * v)
        BY <1>4, <1>8, <3>1
      <4> QED
        BY <1>4, <1>8, <4>1, TimesMonotone
    <3>3. CASE u < z
      <4>1. \A k \in 0 .. x2 - 1, b \in 0 .. u - 1 : z - 1 # k * Pace + b
        BY <1>2, <3>2, <3>3
      <4>2. z - 1 \in 0 .. z - 1
        BY <1>2
      <4>3. z - 1 \in Lo .. Hi /\ z - 1 \in 0 .. REG - 1 /\ z - 1 \in Wanted
        BY <1>9, <4>2, Zenon
      <4>4. (z - 1) % REG = z - 1
        BY <1>2, <4>3, Offset
      <4> QED
        BY <4>1, <4>3, <4>4
    <3>4. CASE ~(u < z)
      <4>1. ASSUME NEW k \in 0 .. x2 - 1
            PROVE  k * v < Far
        <5>1. k \in Nat /\ k <= n /\ (k < n \/ v < w)
          BY <1>6, <1>8, <2>2, <3>4
        <5> QED
          BY <1>1, <1>4, <1>5, <5>1, Short
      <4>2. \A k \in 0 .. x2 - 1, b \in 0 .. u - 1 : Lo # k * Pace + b
        BY <1>2, <3>1, <3>2, <4>1
      <4> QED
        BY <1>9, <1>11, <4>2
    <3> QED
      BY <3>3, <3>4
  <2> QED
    BY <2>1, <2>2
<1> QED
  BY <1>2, <1>3, <1>10, <1>11

\* A call for no elements copies none and is not cut.
LEMMA LossOfNothing ==
    ASSUME Copying, at = "done", call.nelems = 0
    PROVE  dest = Reference /\ ~Lossy /\ ~Cut
<1>1. IInv /\ ~Moves(call) /\ x2 \in Passed(0)
  BY DEF Copying, Called, Given, Moves
<1>2. \A o \in Owned(call) : dest[o] = Old
  BY <1>1 DEF Copying, Called
<1>3. Wanted = {}
  BY DEF Wanted
<1>4. dest = Reference
  BY <1>1, <1>2, <1>3, Agree
<1>5. x2 = 0
  BY <1>1, WidthAssumption DEF Passed
<1> QED
  BY <1>4, <1>5 DEF Lossy, Cut

\* A call that never reaches a loop is one of the lossy ones.
LEMMA LossOfAll ==
    ASSUME Copying, at = "done", call.nelems # 0, ~Moves(call)
    PROVE  dest # Reference /\ Lossy
<1>1. IInv /\ call \in Calls
  BY DEF Copying, IInv, TypeOK
<1>2. \A o \in Owned(call) : dest[o] = Old
  BY DEF Copying, Called
<1>3. call.nelems \in Nat /\ call.fn.size \in Nat /\ call.fn.size > 0
  BY <1>1, CallFacts
<1>4. 0 \in 0 .. call.fn.size - 1
  BY <1>3
<1>5. 0 \in Lo .. Hi /\ 0 \in 0 .. REG - 1 /\ 0 \in Wanted
  BY <1>1, <1>4, EndsWanted
<1>6. 0 % REG \in Owned(call)
  BY <1>1, <1>5, EndsWanted
<1>7. 0 \in Owned(call)
  BY <1>5, <1>6, Offset
<1>8. dest # Reference
  BY <1>1, <1>2, <1>5, <1>7, Agree
<1>9. call.fn \in Function
  BY <1>1 DEF Calls
<1>10. Kind(call.fn) /\ Blocks(call.fn)
  BY <1>9, FunctionKind
<1>11. \/ call.fn.lp = "none"
       \/ call.fn.lp = "lone" /\ call.stride = 1 /\ call.nelems # 1
  BY DEF Moves
<1>12. CASE call.fn.lp = "none"
  <2>1. call.fn \in RuntimeLonglongPut
    BY <1>10, <1>12, Zenon DEF Kind
  <2> QED
    BY <1>3, <1>8, <2>1 DEF Lossy
<1>13. CASE call.fn.lp = "lone" /\ call.stride = 1 /\ call.nelems # 1
  <2>1. call.fn.type = "char" /\ call.fn.op = "get"
    BY <1>10, <1>13, Zenon DEF Kind
  <2>2. ~call.fn.nb
    BY <1>10, <1>13, <2>1, Zenon DEF Blocks
  <2>3. call.nelems > 0 /\ call.nelems > 1
    BY <1>3, <1>13
  <2>4. Lossy
    BY <1>13, <2>1, <2>2, <2>3, Zenon DEF Lossy
  <2> QED
    BY <1>8, <2>4
<1> QED
  BY <1>11, <1>12, <1>13

\* A call whose turns stay on one element loses something when the element is
\* not moved whole, or when they were to go on to others.
LEMMA LossOfStill ==
    ASSUME Copying, at = "done", Moves(call), call.nelems = 1 \/ Pace = 0
    PROVE  dest # Reference <=> Lossy \/ Cut
<1>1. /\ IInv /\ call \in Calls /\ Given /\ call.nelems # 0
      /\ x3 \in 0 .. REG - 1 /\ REG \in Nat /\ WORD \in Nat /\ WORD >= 2 /\ REG > WORD
  BY WidthAssumption DEF Copying, IInv, TypeOK, Called, Moves
<1>2. /\ call.nelems \in Nat /\ call.nelems >= 1 /\ call.stride \in Int
      /\ call.fn.unit \in Nat /\ call.fn.size \in Nat /\ call.fn.unit <= call.fn.size
      /\ call.fn.scale \in Nat /\ call.fn.scale > 0
  BY <1>1, CallFacts
<1>3. dest = Reference <=> /\ call.fn.unit = call.fn.size
                           /\ call.nelems = 1 \/ call.stride = 0
  <2>1. \A o \in Owned(call) : dest[o] # Old <=> o < call.fn.unit
    BY DEF Copying, Still
  <2> QED
    BY <1>1, <2>1, StillAgrees
<1>4. Lossy <=> \/ call.fn.unit < call.fn.size
                \/ call.fn.scale < call.fn.size /\ call.nelems > 1 /\ call.stride # 0
  BY <1>1, <1>2, MovingLossy
<1>5. CASE call.nelems = 1
  <2>1. 1 % WORD = 1 /\ 1 % REG = 1
    BY <1>1
  <2>2. x2 = 1
    BY <1>1, <1>5, <2>1 DEF Given, Passed
  <2>3. ~Cut
    BY <1>5, <2>2 DEF Cut
  <2> QED
    BY <1>2, <1>3, <1>4, <1>5, <2>3
<1>6. CASE call.nelems # 1 /\ call.stride = 0
  <2>1. Pace = 0 /\ x3 = 0
    BY <1>1, <1>6 DEF Pace
  <2>2. 0 * call.fn.scale = 0 /\ 0 % REG = 0
    BY <1>1, <1>2
  <2>3. ~Cut
    BY <1>6, <2>1, <2>2 DEF Cut
  <2> QED
    BY <1>2, <1>3, <1>4, <1>6, <2>3
<1>7. CASE call.nelems # 1 /\ call.stride # 0
  <2>1. call.nelems >= 2 /\ call.nelems > 1 /\ Pace = 0
    BY <1>2, <1>7
  <2>2. Abs(call.stride) * call.fn.scale \in Nat /\ Abs(call.stride) * call.fn.scale > 0
    BY <1>1, <1>7, <2>1, FarApart
  <2>3. x3 # (call.stride * call.fn.scale) % REG
    <3>1. CASE call.stride > 0
      <4>1. call.stride >= 0
        BY <1>2, <3>1
      <4>2. x3 = (call.stride * call.fn.scale) % REG <=>
              Pace = Abs(call.stride) * call.fn.scale
        BY <1>1, <2>1, <4>1, Paces
      <4> QED
        BY <2>1, <2>2, <4>2
    <3>2. CASE call.stride < 0
      <4>1. \/ Pace = -(Abs(call.stride) * call.fn.scale)
            \/ x3 # (call.stride * call.fn.scale) % REG
        BY <1>1, <2>1, <3>2, Paces
      <4> QED
        BY <2>1, <2>2, <4>1
    <3> QED
      BY <1>2, <1>7, <3>1, <3>2
  <2>4. Cut
    BY <2>1, <2>3 DEF Cut
  <2> QED
    BY <1>3, <1>7, <2>4
<1> QED
  BY <1>5, <1>6, <1>7

\* A call whose turns move on loses something when there are fewer of them than
\* elements, when they go less far or the other way, or when an element is not
\* moved whole; otherwise nothing.
LEMMA LossOfMarch ==
    ASSUME Copying, at = "done", Moves(call), call.nelems # 1, Pace # 0
    PROVE  dest # Reference <=> Lossy \/ Cut
<1>1. /\ IInv /\ call \in Calls /\ Given /\ call.nelems # 0
      /\ x2 \in 0 .. REG - 1 /\ REG \in Nat
  BY WidthAssumption DEF Copying, IInv, TypeOK, Called, Moves
<1>2. /\ call.nelems \in Nat /\ call.nelems >= 1 /\ call.stride \in Int
      /\ call.fn.unit \in Nat /\ call.fn.size \in Nat /\ call.fn.unit <= call.fn.size
      /\ call.fn.scale \in Nat /\ call.fn.scale <= call.fn.size
  BY <1>1, CallFacts
<1>3. call.nelems >= 2 /\ call.nelems > 1
  BY <1>2
<1>4. /\ x12 = x2 /\ x2 # 0 /\ \A i \in 0 .. x2 - 1 : Inside(i)
      /\ \A o \in Owned(call) : dest[o] # Old <=> o \in Reached(x2)
  BY <1>3 DEF Copying, March
<1>5. call.stride # 0
  BY <1>1, <1>3, Paces
<1>6. Lossy <=> call.fn.unit < call.fn.size \/ call.fn.scale < call.fn.size
  BY <1>1, <1>2, <1>3, <1>5, MovingLossy
<1>7. Cut <=> x2 # call.nelems \/ x3 # (call.stride * call.fn.scale) % REG
  BY <1>3, <1>5 DEF Cut
<1>8. ASSUME Lossy \/ Cut
      PROVE  dest # Reference
  <2>1. PICK p \in Lo .. Hi :
            /\ p % REG \in Wanted
            /\ \A k \in 0 .. x2 - 1, b \in 0 .. call.fn.unit - 1 : p # k * Pace + b
    BY <1>1, <1>3, <1>4, <1>6, <1>7, <1>8, Missed
  <2>2. p % REG \in Owned(call)
    BY <1>1, EndsWanted
  <2>3. p % REG \notin Reached(x2)
    <3>1. SUFFICES ASSUME NEW k \in 0 .. x2 - 1, NEW b \in 0 .. call.fn.unit - 1,
                          p % REG = (k * Pace + b) % REG
                   PROVE  FALSE
      BY DEF Reached
    <3>2. k * Pace + b \in Lo .. Hi
      BY <1>4 DEF Inside
    <3>3. p = k * Pace + b
      BY <1>1, <3>1, <3>2, SignedApart
    <3> QED
      BY <2>1, <3>3
  <2>4. dest[p % REG] = Old
    BY <1>4, <2>2, <2>3
  <2> QED
    BY <1>1, <2>1, <2>2, <2>4, Agree
<1>9. ASSUME ~Lossy, ~Cut
      PROVE  dest = Reference
  <2>1. /\ call.fn.unit = call.fn.size /\ call.fn.scale = call.fn.size
        /\ x2 = call.nelems /\ x3 = (call.stride * call.fn.scale) % REG
    BY <1>2, <1>6, <1>7, <1>9
  <2>2. Pace = call.stride * call.fn.size
    <3>1. CASE call.stride > 0
      <4>1. call.stride >= 0 /\ Abs(call.stride) = call.stride
        BY <1>2, <3>1 DEF Abs
      <4>2. Pace = Abs(call.stride) * call.fn.scale
        BY <1>1, <1>3, <2>1, <4>1, Paces
      <4> QED
        BY <2>1, <4>1, <4>2
    <3>2. CASE call.stride < 0
      <4>1. Pace = -(Abs(call.stride) * call.fn.scale)
        BY <1>1, <1>3, <2>1, <3>2, Paces
      <4>2. \A s, z \in Int : -((-s) * z) = s * z
        OBVIOUS
      <4>3. Abs(call.stride) = -call.stride
        BY <3>2 DEF Abs
      <4> QED
        BY <1>2, <2>1, <4>1, <4>2, <4>3
    <3> QED
      BY <1>2, <1>5, <3>1, <3>2
  <2>3. Reached(x2) = Wanted
    BY <1>1, <2>1, <2>2, AllReached
  <2> QED
    BY <1>1, <1>4, <2>3, Agree
<1> QED
  BY <1>8, <1>9

\* A transfer that returns copied exactly what was asked for, unless its
\* function is one of the known lossy ones or its count or step was cut to 32
\* bits: for every count, stride and width, and whatever is in the registers.
THEOREM SpecLossExplained == Spec => []LossExplained
<1>1. Copying => LossExplained
  <2> SUFFICES ASSUME Copying, at = "done"
               PROVE  dest # Reference <=> Lossy \/ Cut
    BY DEF LossExplained
  <2>1. CASE call.nelems = 0
    BY <2>1, LossOfNothing
  <2>2. CASE call.nelems # 0 /\ ~Moves(call)
    BY <2>2, LossOfAll
  <2>3. CASE Moves(call) /\ (call.nelems = 1 \/ Pace = 0)
    BY <2>3, LossOfStill
  <2>4. CASE Moves(call) /\ call.nelems # 1 /\ Pace # 0
    BY <2>4, LossOfMarch
  <2> QED
    BY <2>1, <2>2, <2>3, <2>4
<1> QED
  BY <1>1, SpecCopying, PTL
=============================================================================
