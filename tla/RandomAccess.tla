---------------------------- MODULE RandomAccess ----------------------------
(***************************************************************************)
(* The arithmetic of the RandomAccess benchmarks: the random sequence      *)
(* (starts and the step of the update loops) and the table indices of      *)
(* bench/SHMEMRandomAccess.c ("pool"), bench/gups/SHMEMRandomAccess.c      *)
(* ("flat") and bench/xbrtime_gups.c ("gups").  What their tasks do to the *)
(* pool is in Programs.                                                    *)
(*                                                                         *)
(* A word of W bits is the set of its bits, a polynomial over GF(2) as the *)
(* set of its exponents: XOR is the symmetric difference, and the step is  *)
(* the multiplication by x modulo x^W + x^2 + x + 1.                       *)
(*                                                                         *)
(* xbrtime_mype gives the main thread 0, so every program is PE 0.  Only   *)
(* ran[0] is initialised; logNumProcs, and with it the shift that selects  *)
(* the PE, is not.                                                         *)
(***************************************************************************)
EXTENDS Integers, FiniteSetsExt

CONSTANTS
    W,          \* bits of a word: 64
    PERIOD,     \* the period of the sequence
    Args,       \* bound of the model: arguments of starts on its own
    Procs,      \* bound of the model: numbers of PEs
    MemWords,   \* bound of the model: words of memory of a PE, 2500000
    Tables,     \* bound of the model: TABLE_SIZE of xbrtime_gups.c
    None

ASSUME SizesAssumption ==
    /\ W \in Nat /\ W > 3
    /\ Args \subseteq Nat /\ Procs \subseteq Nat \ {0}
    /\ MemWords \subseteq Nat \ {0, 1} /\ Tables \subseteq Nat \ {0}
    /\ \A procs \in Procs, mem \in MemWords : procs * mem < 2 ^ W     \* TotalMem
ASSUME NoneAssumption == None \notin Int

VARIABLES
    job,        \* the routine or program, and its sizes
    at,         \* where it is
    n,          \* the argument of starts
    i,          \* the bits of n still to be looked at
    ran,        \* the random word
    pe,         \* currentPE
    iterate,    \* updates made on this PE
    index,      \* the table index of the latest update, or None
    remote      \* the PE it is for, or None

vars == <<job, at, n, i, ran, pe, iterate, index, remote>>

----------------------------------------------------------------------------
(* Words *)

Bits == 0 .. W - 1
Word == SUBSET Bits
POLY == {0, 1, 2}

Xor(a, b) == (a \ b) \cup (b \ a)

Bit(k, m) == (m \div 2 ^ k) % 2 = 1

BitsOf(m) == {k \in Bits : Bit(k, m)}

\* The number a word stands for, from its lowest bit on.
Value(w) ==
    LET low[k \in Nat] ==
            IF k = 0 THEN 0
            ELSE low[k - 1] + (IF k - 1 \in w THEN 2 ^ (k - 1) ELSE 0)
    IN  low[W]

\* ran << 1, and ^ POLY if the sign bit was set
Step(w) ==
    LET shifted == {k + 1 : k \in w} \cap Bits
    IN  IF W - 1 \in w THEN Xor(shifted, POLY) ELSE shifted

\* m2[k]: two steps from one to the next.
m2[k \in Bits] == IF k = 0 THEN {0} ELSE Step(Step(m2[k - 1]))

\* The XOR of the m2[j] for the bits j of w.
Square(w) == {k \in Bits : Cardinality({j \in w : k \in m2[j]}) % 2 = 1}

\* x^m, one step at a time: the m-th word of the sequence.
Power[m \in Nat] == IF m = 0 THEN {0} ELSE Step(Power[m - 1])

\* The sequence repeats after PERIOD words, which is less than a signed word holds.
ASSUME PeriodAssumption ==
    /\ PERIOD \in 1 .. 2 ^ (W - 1) - 1
    /\ Power[PERIOD] = {0}

----------------------------------------------------------------------------
(* The programs *)

Jobs ==
    [prog : {"starts"}, arg : Args]
        \cup [prog : {"pool", "flat"}, procs : Procs, mem : MemWords]
        \cup [prog : {"gups"}, procs : Procs, size : Tables]

\* The largest power of two in the memory of all PEs.
TableSize == CHOOSE t \in {2 ^ k : k \in 0 .. W - 1} :
                t <= job.procs * job.mem /\ job.procs * job.mem < 2 * t

LocalTableSize == TableSize \div job.procs

ProcNumUpdates == 4 * LocalTableSize

\* The words HPCC_Table has.
Allocated == IF job.prog = "pool" THEN job.procs * LocalTableSize
             ELSE LocalTableSize

\* The PEs the update loop is run for.
Streams == IF job.prog = "pool" THEN job.procs ELSE 1

TypeOK ==
    /\ job \in Jobs
    /\ at \in {"starts", "loop", "pe", "update", "draw", "done"}
    /\ n \in Nat /\ i \in 0 .. W - 1
    /\ ran \in Word
    /\ pe \in Nat /\ iterate \in Nat
    /\ index \in Nat \cup {None} /\ remote \in Nat \cup {None}

\* GlobalStartMyProc is 0.
Init ==
    /\ job \in Jobs
    /\ at = IF job.prog = "gups" THEN "draw" ELSE "starts"
    /\ n = IF job.prog = "starts" THEN job.arg ELSE 0
    /\ ran = {} /\ i = 0 /\ pe = 0 /\ iterate = 0
    /\ index = None /\ remote = None

----------------------------------------------------------------------------
(* starts *)

\* while (n > PERIOD) n -= PERIOD
Reduce ==
    /\ at = "starts" /\ n > PERIOD
    /\ n' = n - PERIOD
    /\ UNCHANGED <<job, at, i, ran, pe, iterate, index, remote>>

\* The search for the highest bit starts one too low.
Bug_TopBit(m) == Max({0} \cup {k \in 0 .. W - 3 : Bit(k, m)})

TopBit(m) == Max({k \in 0 .. W - 2 : Bit(k, m)})

Return == IF job.prog = "starts" THEN "done" ELSE "pe"

Prepare ==
    /\ at = "starts" /\ n <= PERIOD
    /\ IF n = 0
       THEN ran' = {0} /\ at' = Return /\ i' = i
       ELSE ran' = {1} /\ at' = "loop" /\ i' = TopBit(n)
    /\ UNCHANGED <<job, n, pe, iterate, index, remote>>

\* Square, and multiply by x if the next bit of n is set.
Multiply ==
    /\ at = "loop" /\ i > 0
    /\ i' = i - 1
    /\ ran' = IF Bit(i - 1, n) THEN Step(Square(ran)) ELSE Square(ran)
    /\ UNCHANGED <<job, at, n, pe, iterate, index, remote>>

LeaveStarts ==
    /\ at = "loop" /\ i = 0
    /\ at' = Return
    /\ UNCHANGED <<job, n, i, ran, pe, iterate, index, remote>>

----------------------------------------------------------------------------
(* The update loops of RandomAccess *)

\* ran[pe] is what starts returned or what xbrtime_malloc left there.
BeginPE ==
    /\ at = "pe" /\ pe < Streams
    /\ ran' \in IF pe = 0 THEN {ran} ELSE Word
    /\ iterate' = 0
    /\ at' = "update"
    /\ UNCHANGED <<job, n, i, pe, index, remote>>

\* The shift of the signed word keeps its sign; (numNodes - 1) is the mask.
Selected(w, shift) ==
    LET sign == IF W - 1 \in w THEN W - shift .. W - 1 ELSE {}
        shifted == ({k - shift : k \in w} \cap Bits) \cup sign
    IN  Value(shifted \cap BitsOf(job.procs - 1))

\* The pool's loop keeps what it selected.
Bug_Target(p) == IF job.prog = "pool" THEN p ELSE (p + 1) \div job.procs

\* remote_proc == MyProc is replaced by the next PE; the flat loop divides, which
\* gives 0 again, or 1 on a single PE.
Target(p) ==
    IF p # 0 THEN p
    ELSE IF job.prog = "pool" THEN (p + 1) % job.procs
    ELSE (p + 1) \div job.procs

\* The stride between the PEs' parts is what they have allocated.
Bug_TableIndex(w) ==
    pe * LocalTableSize + Value(w \cap BitsOf(LocalTableSize - 1))

\* The stride between the PEs' parts is niterate, not LocalTableSize.
TableIndex(w) ==
    pe * ProcNumUpdates + Value(w \cap BitsOf(LocalTableSize - 1))

Update ==
    /\ at = "update" /\ iterate < ProcNumUpdates
    /\ ran' = Step(ran)
    /\ \E shift \in Bits : remote' = Target(Selected(ran', shift))
    /\ index' = TableIndex(ran')
    /\ iterate' = iterate + 1
    /\ UNCHANGED <<job, at, n, i, pe>>

EndPE ==
    /\ at = "update" /\ iterate = ProcNumUpdates
    /\ pe' = pe + 1
    /\ at' = "pe"
    /\ UNCHANGED <<job, n, i, ran, iterate, index, remote>>

EndLoop ==
    /\ at = "pe" /\ pe = Streams
    /\ at' = "done"
    /\ UNCHANGED <<job, n, i, ran, pe, iterate, index, remote>>

----------------------------------------------------------------------------
(* xbrtime_gups.c *)

\* The test is off by one.
Bug_Refused(r) == r > job.size \div job.procs

\* The bounds check of update_remote_value.
Refused(r) == r >= job.size \div job.procs

\* One turn of its loop, for the random number drawn, and its task.
Draw ==
    /\ at = "draw"
    /\ \E drawn \in 0 .. job.size - 1 :
        /\ n' = drawn
        /\ remote' = drawn % job.procs
        /\ index' = IF Refused(drawn \div job.procs) THEN None
                    ELSE drawn \div job.procs
    /\ at' = "done"
    /\ UNCHANGED <<job, i, ran, pe, iterate>>

Next ==
    \/ Reduce \/ Prepare \/ Multiply \/ LeaveStarts
    \/ BeginPE \/ Update \/ EndPE \/ EndLoop
    \/ Draw

Spec == Init /\ [][Next]_vars

----------------------------------------------------------------------------
(* Properties *)

\* starts raises x to the part of n it has looked at and returns the n-th word
\* of the sequence, whatever multiple of PERIOD it dropped; the updates of PE 0
\* go on from there, the k-th one with the k-th word, never with 0, on which
\* the sequence would stay for ever.
SequenceCorrect ==
    /\ at = "loop" => ran = Power[n \div 2 ^ i]
    /\ at = "done" /\ job.prog = "starts" => ran = Power[job.arg]
    /\ at = "update" /\ pe = 0 => ran = Power[iterate] /\ ran # {}

\* The pool's loop goes beyond the table for every PE from a quarter of the
\* PEs on, and for no other; the flat loop never does.
OutsideExplained ==
    at = "update" /\ iterate > 0 =>
        (index >= Allocated <=> 4 * pe >= job.procs)

\* "Forces updates to remote PE only" (bench/SHMEMRandomAccess.c:320): the pool's
\* loop names an existing PE, and never its own if there is another.
RemoteForced ==
    at = "update" /\ iterate > 0 /\ job.prog = "pool" =>
        remote < job.procs /\ (remote = 0 <=> job.procs = 1)

\* xbrtime_gups.c's check "for capability safety" refuses drawn indices that
\* are in the table: what is left of it after npes equal parts.
RefusesRemainder ==
    at = "done" /\ job.prog = "gups" =>
        (index = None <=> n >= (job.size \div job.procs) * job.procs)
=============================================================================
