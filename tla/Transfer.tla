------------------------------ MODULE Transfer ------------------------------
(***************************************************************************)
(* The one-sided transfers: the get and put wrappers of                    *)
(* runtime/xbrtime_morello.h and of the archived runtimes, those of        *)
(* archived/xbMrtime_api.c (23 types, blocking and not), and the copy      *)
(* loops of runtime/xbMrtime_api_asm.s they call.  One call is one         *)
(* behaviour; its arguments are chosen in Init.                            *)
(*                                                                         *)
(* Addresses are offsets from the start of an array, modulo REG: source    *)
(* and destination are two arrays of the same shape that do not overlap,   *)
(* just large enough for the call.  A byte of the destination holds Old or *)
(* the offset of the source byte that was stored in it.                    *)
(*                                                                         *)
(* The count and the step are 32-bit parameters, the loops read 64-bit     *)
(* registers, and the calling convention leaves the upper half of such a   *)
(* register unspecified: a register holds the truncated value or all of    *)
(* the value it was computed from.                                         *)
(*                                                                         *)
(* The archived file is part of no build.  Its calls pass the PE, which    *)
(* the loops' prototypes have commented out, and its _agg routines are     *)
(* nowhere in the repository: they are taken to move what the _seq loop    *)
(* moves.  The fences are left out: memory is sequentially consistent.     *)
(***************************************************************************)
EXTENDS Integers

CONSTANTS
    REG,        \* the values of a 64-bit register: 2^64
    WORD,       \* the values of a uint32_t: 2^32
    Counts,     \* bound of the model: the values of nelems
    Strides,    \* bound of the model: the values of stride
    MaxArray,   \* bound of the model: the bytes of an array
    Old         \* what a byte of the destination holds before the call

\* The two arrays are in the address space and do not overlap.
ASSUME WidthAssumption ==
    /\ WORD \in Nat \ {0, 1} /\ REG \in Nat
    /\ 2 * WORD <= REG
    /\ MaxArray \in Nat /\ MaxArray >= 16 /\ 2 * MaxArray <= REG
    /\ Old \notin 0 .. REG - 1
ASSUME InputAssumption == Counts \subseteq Nat /\ Strides \subseteq Int

VARIABLES
    call,   \* the call: its function, nelems and stride
    at,     \* "begin", "loop", "done", or "stray": left the arrays
    x0,     \* source address
    x1,     \* destination address
    x2,     \* nelems, as the loop sees it
    x3,     \* bytes from one element to the next, as the loop sees it
    x12,    \* turns of the loop so far
    dest    \* the destination array

vars == <<call, at, x0, x1, x2, x3, x12, dest>>

----------------------------------------------------------------------------
(* The functions: the bytes one turn of the loop moves (unit), the size in *)
(* the step's expression, and the size of the type.  lp is the copy loop   *)
(* that runs: "both" (_seq or _agg), "seq", "lone" or "none".              *)

Functions(op, nbs, types, unit, scale, size, lp) ==
    [type : types, op : {op}, nb : nbs, unit : {unit}, scale : {scale},
     size : {size}, lp : {lp}]

Both(op, types, unit, size) ==
    Functions(op, BOOLEAN, types, unit, size, size, "both")

Blocking(op, types, unit, scale, size, lp) ==
    Functions(op, {FALSE}, types, unit, scale, size, lp)

NonBlocking(op, types, unit, scale, size, lp) ==
    Functions(op, {TRUE}, types, unit, scale, size, lp)

FloatPuts == Both("put", {"float"}, 4, 4) \cup Both("put", {"double"}, 8, 8)
    \cup Both("put", {"longdouble"}, 8, 16)

CharPuts == Both("put", {"schar", "char"}, 1, 1) \cup Both("put", {"short"}, 2, 2)

\* xbrtime_int_put_nb steps by sizeof(short).
IntPuts == Blocking("put", {"int"}, 4, 4, 4, "both")
    \cup NonBlocking("put", {"int"}, 4, 2, 4, "both")
    \cup Both("put", {"long"}, 4, 8) \cup Both("put", {"longlong"}, 8, 8)

UnsignedPuts == Both("put", {"uchar"}, 1, 1) \cup Both("put", {"ushort"}, 2, 2)
    \cup Both("put", {"uint"}, 4, 4)

UlongPuts == Both("put", {"ulong"}, 4, 8) \cup Both("put", {"ulonglong"}, 8, 8)
    \cup Both("put", {"int8"}, 1, 1)

FixedPuts == Both("put", {"int16"}, 2, 2) \cup Both("put", {"int32"}, 4, 4)
    \cup Both("put", {"int64"}, 8, 8)

UfixedPuts == Both("put", {"uint8"}, 1, 1) \cup Both("put", {"uint16"}, 2, 2)
    \cup Both("put", {"uint32"}, 4, 4)

WidePuts == Both("put", {"uint64"}, 8, 8) \cup Both("put", {"size", "ptrdiff"}, 4, 8)

FloatGets == Both("get", {"float"}, 4, 4) \cup Both("get", {"double"}, 8, 8)
    \cup Both("get", {"longdouble"}, 8, 16)

\* xbrtime_char_get lost its _seq branch: it copies only in that branch's case.
CharGets == Both("get", {"schar"}, 1, 1)
    \cup Blocking("get", {"char"}, 1, 1, 1, "lone")
    \cup NonBlocking("get", {"char"}, 1, 1, 1, "both") \cup Both("get", {"short"}, 2, 2)

IntGets == Blocking("get", {"int"}, 4, 4, 4, "both")
    \cup NonBlocking("get", {"int"}, 4, 2, 4, "both")
    \cup Both("get", {"long"}, 4, 8) \cup Both("get", {"longlong"}, 8, 8)

\* uint is stepped like ushort.
Bug_UnsignedGets == Both("get", {"uchar"}, 1, 1) \cup Both("get", {"ushort"}, 2, 2)
    \cup Functions("get", BOOLEAN, {"uint"}, 4, 2, 4, "both")

UnsignedGets == Both("get", {"uchar"}, 1, 1) \cup Both("get", {"ushort"}, 2, 2)
    \cup Both("get", {"uint"}, 4, 4)

UlongGets == Both("get", {"ulong"}, 4, 8) \cup Both("get", {"ulonglong"}, 8, 8)
    \cup Both("get", {"int8"}, 1, 1)

FixedGets == Both("get", {"int16"}, 2, 2) \cup Both("get", {"int32"}, 4, 4)
    \cup Both("get", {"int64"}, 8, 8)

UfixedGets == Both("get", {"uint8"}, 1, 1) \cup Both("get", {"uint16"}, 2, 2)
    \cup Both("get", {"uint32"}, 4, 4)

WideGets == Both("get", {"uint64"}, 8, 8) \cup Both("get", {"size", "ptrdiff"}, 4, 8)

\* The runtime's own, which always call the _seq loop.
RuntimeUlonglongGet == Blocking("get", {"ulonglong"}, 8, 8, 8, "seq")
RuntimeLonglongGet == Blocking("get", {"longlong"}, 8, 8, 8, "seq")
\* "dest = *src;" stores in the parameter.
RuntimeLonglongPut == Blocking("put", {"longlong"}, 8, 8, 8, "none")
RuntimeIntGet == Blocking("get", {"int"}, 4, 4, 4, "seq")
RuntimeIntPut == Blocking("put", {"int"}, 4, 4, 4, "seq")

\* Those of the archived runtimes, whose long long put stores.
OneQueueUlonglongGet == Blocking("get", {"ulonglong"}, 8, 8, 8, "seq")
Oct18UlonglongGet == Blocking("get", {"ulonglong"}, 8, 8, 8, "seq")
Oct18LonglongGet == Blocking("get", {"longlong"}, 8, 8, 8, "seq")
Oct18LonglongPut == Blocking("put", {"longlong"}, 8, 8, 8, "seq")
Oct22UlonglongGet == Blocking("get", {"ulonglong"}, 8, 8, 8, "seq")
Oct22LonglongGet == Blocking("get", {"longlong"}, 8, 8, 8, "seq")
Oct22LonglongPut == Blocking("put", {"longlong"}, 8, 8, 8, "seq")

Function ==
    UNION {FloatPuts, CharPuts, IntPuts, UnsignedPuts, UlongPuts, FixedPuts,
           UfixedPuts, WidePuts, FloatGets, CharGets, IntGets, UnsignedGets,
           UlongGets, FixedGets, UfixedGets, WideGets, RuntimeUlonglongGet,
           RuntimeLonglongGet, RuntimeLonglongPut, RuntimeIntGet, RuntimeIntPut,
           OneQueueUlonglongGet, Oct18UlonglongGet, Oct18LonglongGet,
           Oct18LonglongPut, Oct22UlonglongGet, Oct22LonglongGet,
           Oct22LonglongPut}

----------------------------------------------------------------------------
(* Calls *)

Abs(n) == IF n < 0 THEN -n ELSE n

\* The bytes from the first to the last element of a call.
Span(c) == IF c.nelems = 0 THEN c.fn.size
           ELSE ((c.nelems - 1) * Abs(c.stride) + 1) * c.fn.size

Calls == {c \in [fn : Function, nelems : Counts, stride : Strides] :
            Span(c) <= MaxArray}

\* The offsets of the arrays' bytes; with a negative stride the elements lie
\* below the first one.
Owned(c) ==
    IF c.stride >= 0 THEN 0 .. Span(c) - 1
    ELSE {o % REG : o \in c.fn.size - Span(c) .. c.fn.size - 1}

\* What a register may hold for the 32-bit parameter computed as v.
Passed(v) == {v % WORD, v % REG}

TypeOK ==
    /\ call \in Calls
    /\ at \in {"begin", "loop", "done", "stray"}
    /\ x0 \in 0 .. REG - 1 /\ x1 \in 0 .. REG - 1
    /\ x2 \in 0 .. REG - 1 /\ x3 \in 0 .. REG - 1
    /\ x12 \in 0 .. REG - 1
    /\ dest \in [Owned(call) -> Owned(call) \cup {Old}]

Init ==
    /\ call \in Calls
    /\ at = "begin"
    /\ x0 = 0 /\ x1 = 0 /\ x12 = 0
    /\ x2 \in Passed(call.nelems)
    /\ x3 \in Passed(call.stride * call.fn.scale)
    /\ dest = [o \in Owned(call) |-> Old]

\* Whether the wrapper calls a loop at all.
Moves(c) ==
    c.nelems # 0 /\
    CASE c.fn.lp = "none" -> FALSE
      [] c.fn.lp = "lone" -> c.stride # 1 \/ c.nelems = 1
      [] OTHER -> TRUE

\* The wrapper, up to its call of the loop.
Begin ==
    /\ at = "begin"
    /\ at' = IF Moves(call) THEN "loop" ELSE "done"
    /\ UNCHANGED <<call, x0, x1, x2, x3, x12, dest>>

\* The offsets of the unit at address x.
UnitAt(x) == {(x + b) % REG : b \in 0 .. call.fn.unit - 1}

\* The destination is not advanced.
Bug_Advance ==
    /\ x0' = (x0 + x3) % REG
    /\ x1' = x1
    /\ x12' = (x12 + 1) % REG

Advance ==
    /\ x0' = (x0 + x3) % REG
    /\ x1' = (x1 + x3) % REG
    /\ x12' = (x12 + 1) % REG

\* The loop runs once too often.
Bug_Finished == x12 = x2

\* CMP X12, X2 after the turn.
Finished == x12' = x2

\* One turn: load a unit, store it, advance, compare.
Turn ==
    /\ at = "loop"
    /\ UnitAt(x0) \cup UnitAt(x1) \subseteq Owned(call)
    /\ dest' = [o \in Owned(call) |->
                    IF (o - x1) % REG < call.fn.unit
                    THEN (x0 + (o - x1)) % REG ELSE dest[o]]
    /\ Advance
    /\ at' = IF Finished THEN "done" ELSE "loop"
    /\ UNCHANGED <<call, x2, x3>>

\* A load or a store outside of the arrays; what it does is not followed.
Stray ==
    /\ at = "loop"
    /\ ~(UnitAt(x0) \cup UnitAt(x1) \subseteq Owned(call))
    /\ at' = "stray"
    /\ UNCHANGED <<call, x0, x1, x2, x3, x12, dest>>

Next == Begin \/ Turn \/ Stray

Spec == Init /\ [][Next]_vars

----------------------------------------------------------------------------
(* Properties *)

\* The copy the call asks for: every byte of every element.
Reference ==
    [o \in Owned(call) |->
        IF \E i \in 0 .. call.nelems - 1, b \in 0 .. call.fn.size - 1 :
            o = (i * call.stride * call.fn.size + b) % REG
        THEN o ELSE Old]

\* Types whose loop moves fewer bytes than an element has.
Halved == {"long", "ulong", "size", "ptrdiff", "longdouble"}

\* The calls that lose data whatever their arrays are.
Lossy ==
    /\ call.nelems > 0
    /\ \/ call.fn.type \in Halved
       \/ call.fn.type = "int" /\ call.fn.nb /\ call.nelems > 1 /\ call.stride # 0
       \/ call.fn \in RuntimeLonglongPut
       \/ /\ call.fn.type = "char" /\ call.fn.op = "get" /\ ~call.fn.nb
          /\ call.stride = 1 /\ call.nelems > 1

\* Whether the count or the step reached the loop cut to 32 bits, and it matters:
\* not when every turn copies the same element, nor when there is one turn.
Cut ==
    \/ x2 # call.nelems /\ call.stride # 0
    \/ x3 # (call.stride * call.fn.scale) % REG /\ call.nelems > 1

\* A call that returns copied exactly what was asked for, unless it is one of
\* the known lossy ones or its count or step was cut: five types move the
\* first part of each element, int_*_nb step by half an element, char_get does
\* nothing for contiguous data, and the runtime's longlong_put stores nothing.
LossExplained ==
    at = "done" => (dest # Reference <=> Lossy \/ Cut)

\* A transfer leaves the caller's arrays only if the loop, which tests at its
\* end, was given a count cut to 0, or an unsigned step for a negative stride.
StrayExplained ==
    at = "stray" => (x2 = 0 /\ call.nelems # 0) \/ (call.stride < 0 /\ x3 < WORD)

\* The two addresses advance together, so no byte arrives at another place of
\* the destination than it has in the source, however the registers wrap.
NoMisplacedByte ==
    \A o \in Owned(call) : dest[o] \in {Old, o}
=============================================================================
