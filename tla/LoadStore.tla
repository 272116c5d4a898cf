------------------------------ MODULE LoadStore -------------------------------
(***************************************************************************)
(* What Recompile of XenonRecomp/recompiler.cpp prints for loads and       *)
(* stores, with the macros of XenonUtils/ppc_context.h, run by several     *)
(* threads on a little-endian host.                                        *)
(*                                                                         *)
(* Guest memory is the host's, byte by byte; what a scalar access reads is *)
(* turned around.  A vector register holds the whole vector turned around: *)
(* u8[0] is the last byte of the guest's.  A reservation is the raw value  *)
(* that was read, and a conditional store compares and swaps.              *)
(*                                                                         *)
(* The base register is not the one loaded or stored, and an index         *)
(* register is what the instruction says it holds.  An access outside of   *)
(* the guest's 4 GiB ends the thread.  The loops of stvlx and stvrx are    *)
(* taken as one step: vector stores are not atomic for the guest either.   *)
(***************************************************************************)
EXTENDS HostVectors

VARIABLES
  program,  \* what the threads run
  pc,       \* the next instruction of each thread
  mem,      \* host memory from base on
  gpr,      \* an integer register of each thread
  fpr,      \* a floating-point register
  vr,       \* three vector registers, PPCVRegister::u8
  ra,       \* the base register, u32
  reserved, \* ctx.reserved
  eq,       \* cr0.eq
  resv,     \* ghost: the bytes a thread has reserved
  gaveBack, \* ghost: conditional stores done without a reservation: [t, at]
  outside   \* ghost: accesses that left the guest space: [t, i, base]

accessVars == <<program, pc, mem, gpr, fpr, vr, ra, reserved, eq, resv, gaveBack, outside>>

Wrapped(n) == n % Size

AccessInit ==
  /\ program \in Programs /\ ra \in Bases
  /\ pc = [t \in Thread |-> 1]
  /\ mem = [a \in Address |-> <<"mem", a>>]
  /\ gpr = [t \in Thread |-> [k \in 1 .. 8 |-> <<"gpr", k, t>>]]
  /\ fpr = [t \in Thread |-> [k \in 1 .. 8 |-> <<"fpr", k, t>>]]
  /\ vr = [t \in Thread |-> [n \in VR |-> [k \in Lane |-> <<"vr", n, k, t>>]]]
  /\ reserved = [t \in Thread |-> Fill(ZeroByte, 8)]
  /\ eq = [t \in Thread |-> FALSE]
  /\ resv = [t \in Thread |-> {}] /\ gaveBack = {} /\ outside = {}

Current(t) == program[t][pc[t]]

-----------------------------------------------------------------------------
(* Addresses.                                                              *)

PlainSum(t, i) == IF i.based THEN ra[t] + i.at ELSE i.at

(* Variant: the sum is not brought back to 32 bits.                        *)
EA_Wide(t, i) == PlainSum(t, i)

(* base + (ra.u32 + d): the sum is unsigned; a displacement that stands    *)
(* alone is an int.  In base + ra.u32 + rb.u32, which the reservations     *)
(* have, both are added to the pointer.                                    *)
EA(t, i) ==
  IF i.op \in Reserve \cup Conditional \/ (i.form = "D" /\ ~i.based)
  THEN PlainSum(t, i)
  ELSE Wrapped(PlainSum(t, i))

Aligned(t, i, n) == EA(t, i) - (EA(t, i) % n)
Block(t, i) == Aligned(t, i, Vector)
Shift(t, i) == EA(t, i) % Vector

Inside(t, i) == i.op \in DOMAIN Width => EA(t, i) >= 0 /\ EA(t, i) + Width[i.op] <= Size

-----------------------------------------------------------------------------
(* The host's accesses.                                                    *)

HostRead(a, n) == [k \in 1 .. n |-> mem[a + n - k]]

PPC_LOAD(a, n) == Turn(HostRead(a, n))

HostBytes(a, s) == [b \in Address |-> IF b \in a .. a + Len(s) - 1 THEN s[a + Len(s) - b] ELSE mem[b]]

(* What a store does to the reservations, for the architecture.            *)
Reach(a, n) == a .. a + n - 1
LoseTo(t, a, n) ==
  resv' = [u \in Thread |-> IF u # t /\ resv[u] \cap Reach(a, n) # {} THEN {} ELSE resv[u]]

HostWrite(t, a, s) == mem' = HostBytes(a, s) /\ LoseTo(t, a, Len(s))

PPC_STORE(t, a, s) == HostWrite(t, a, Turn(s))

Advance(t, i) ==
  /\ pc' = [pc EXCEPT ![t] = @ + 1]
  /\ ra' = IF Updates(i) THEN [ra EXCEPT ![t] = EA(t, i)] ELSE ra
  /\ UNCHANGED <<program, outside>>

-----------------------------------------------------------------------------
(* Integer and floating-point accesses.                                    *)

LoadImmediate(t, i) ==
  /\ i.op = "li"
  /\ gpr' = [gpr EXCEPT ![t] = Immediate(i.at)]
  /\ UNCHANGED <<mem, fpr, vr, reserved, eq, resv, gaveBack>>

LoadInteger(t, i) ==
  /\ i.op \in IntegerLoad
  /\ LET s == PPC_LOAD(EA(t, i), Width[i.op])
     IN  gpr' = [gpr EXCEPT ![t] = CASE i.op \in {"lha", "lwa"} -> SignExtend(s)
                                     [] i.op = "lwbrx" -> ZeroExtend(Turn(s))
                                     [] OTHER -> ZeroExtend(s)]
  /\ UNCHANGED <<mem, fpr, vr, reserved, eq, resv, gaveBack>>

LoadFloat(t, i) ==
  /\ i.op \in FloatLoad
  /\ LET s == PPC_LOAD(EA(t, i), Width[i.op])
     IN  fpr' = [fpr EXCEPT ![t] = IF i.op = "lfs" THEN Widened(s) ELSE s]
  /\ UNCHANGED <<mem, gpr, vr, reserved, eq, resv, gaveBack>>

StoreInteger(t, i) ==
  /\ i.op \in IntegerStore
  /\ LET s == Low(gpr[t], Width[i.op])
     IN  PPC_STORE(t, EA(t, i), IF i.op \in {"sthbrx", "stwbrx"} THEN Turn(s) ELSE s)
  /\ UNCHANGED <<gpr, fpr, vr, reserved, eq, gaveBack>>

StoreFloat(t, i) ==
  /\ i.op \in FloatStore
  /\ PPC_STORE(t, EA(t, i), IF i.op = "stfs" THEN Narrowed(fpr[t]) ELSE Low(fpr[t], Width[i.op]))
  /\ UNCHANGED <<gpr, fpr, vr, reserved, eq, gaveBack>>

(* lwarx sets the low word of reserved only.                               *)
LoadReserved(t, i) ==
  /\ i.op \in Reserve
  /\ LET raw == HostRead(EA(t, i), Width[i.op])
     IN  /\ reserved' = [reserved EXCEPT ![t] = SubSeq(@, 1, 8 - Len(raw)) \o raw]
         /\ gpr' = [gpr EXCEPT ![t] = ZeroExtend(Turn(raw))]
  /\ resv' = [resv EXCEPT ![t] = Reach(EA(t, i), Width[i.op])]
  /\ UNCHANGED <<mem, fpr, vr, eq, gaveBack>>

(* Variant: the store goes through whatever is there.                      *)
Swaps_Always(t, i) == TRUE

(* __sync_bool_compare_and_swap                                            *)
Swaps(t, i) == HostRead(EA(t, i), Width[i.op]) = Low(reserved[t], Width[i.op])

StoreConditional(t, i) ==
  /\ i.op \in Conditional
  /\ eq' = [eq EXCEPT ![t] = Swaps(t, i)]
  /\ IF Swaps(t, i)
     THEN /\ mem' = HostBytes(EA(t, i), Turn(Low(gpr[t], Width[i.op])))
          /\ gaveBack' = IF resv[t] = {} THEN gaveBack \cup {[t |-> t, at |-> pc[t]]} ELSE gaveBack
          /\ resv' = [u \in Thread |->
                        IF u = t \/ resv[u] \cap Reach(EA(t, i), Width[i.op]) # {} THEN {} ELSE resv[u]]
     ELSE resv' = [resv EXCEPT ![t] = {}] /\ UNCHANGED <<mem, gaveBack>>
  /\ UNCHANGED <<gpr, fpr, vr, reserved>>

-----------------------------------------------------------------------------
(* Vector accesses.                                                        *)

(* Variant: the right part starts one byte late.                           *)
VectorMaskR_Late(k) == [j \in Lane |-> IF j <= k THEN k - j ELSE -1]

(* VectorMaskL and VectorMaskR: row k turns the block around and moves it; *)
(* -1 stands for the entries that clear a byte.                            *)
VectorMaskL(k) == [j \in Lane |-> IF j < k THEN -1 ELSE Vector - 1 - (j - k)]
VectorMaskR(k) == [j \in Lane |-> IF j < k THEN k - 1 - j ELSE -1]

Shuffle(a, mask) == [j \in Lane |-> IF mask[j] < 0 THEN ZeroByte ELSE mem[a + mask[j]]]

(* u16[7 - n] and u32[3 - n], from the most significant byte down.         *)
LaneOf(t, i, n) == (Vector \div n) - 1 - (Shift(t, i) \div n)

(* lvewx loads all of the vector.                                          *)
LoadVector(t, i) ==
  /\ i.op \in VectorLoad
  /\ LET half == PPC_LOAD(Aligned(t, i, 2), 2)  first == 2 * LaneOf(t, i, 2)
     IN  vr' = [vr EXCEPT ![t][i.v] =
                  CASE i.op \in {"lvx", "lvewx"} -> Shuffle(Block(t, i), VectorMaskL(0))
                    [] i.op = "lvlx" -> Shuffle(Block(t, i), VectorMaskL(Shift(t, i)))
                    [] i.op = "lvrx" -> Shuffle(Block(t, i), VectorMaskR(Shift(t, i)))
                    [] i.op = "lvehx" -> [@ EXCEPT ![first] = half[2], ![first + 1] = half[1]]]
  /\ UNCHANGED <<mem, gpr, fpr, reserved, eq, resv, gaveBack>>

(* The store of one element.                                               *)
StoreLane(t, i, n) ==
  LET first == n * LaneOf(t, i, n)
  IN  PPC_STORE(t, Aligned(t, i, n), [k \in 1 .. n |-> vr[t][i.v][first + n - k]])

(* for (i < 16 - (ea & 0xF)) store u8[15 - i] at ea + i;                   *)
(* for (i < (ea & 0xF)) store u8[i] at ea - i - 1.                         *)
StoreVector(t, i) ==
  /\ i.op \in VectorStore
  /\ LET left == Vector - Shift(t, i)
     IN  CASE i.op = "stvx" ->
                HostWrite(t, Block(t, i), [k \in 1 .. Vector |-> vr[t][i.v][VectorMaskL(0)[Vector - k]]])
           [] i.op = "stvehx" -> StoreLane(t, i, 2)
           [] i.op = "stvewx" -> StoreLane(t, i, 4)
           [] i.op = "stvlx" -> HostWrite(t, EA(t, i), [k \in 1 .. left |-> vr[t][i.v][Vector - 1 - (left - k)]])
           [] i.op = "stvrx" -> HostWrite(t, Block(t, i), [k \in 1 .. Shift(t, i) |-> vr[t][i.v][k - 1]])
  /\ UNCHANGED <<gpr, fpr, vr, reserved, eq, gaveBack>>

(* A row of VectorShiftTableL or VectorShiftTableR.                        *)
LoadControl(t, i) ==
  /\ i.op \in VectorControl
  /\ LET k == Shift(t, i)
     IN  vr' = [vr EXCEPT ![t][i.v] =
                  [j \in Lane |-> Numeral(IF i.op = "lvsl" THEN Vector - 1 - j + k
                                        ELSE 2 * Vector - 1 - j - k)]]
  /\ UNCHANGED <<mem, gpr, fpr, reserved, eq, resv, gaveBack>>

(* An instruction on vectors only.                                         *)
Permute(t, i) ==
  /\ i.form = "V"
  /\ vr' = [vr EXCEPT ![t] = Permuted(@, i)]
  /\ UNCHANGED <<mem, gpr, fpr, reserved, eq, resv, gaveBack>>

-----------------------------------------------------------------------------
Leave(t, i) ==
  /\ ~Inside(t, i)
  /\ pc' = [pc EXCEPT ![t] = Len(program[t]) + 1]
  /\ outside' = outside \cup {[t |-> t, i |-> i, base |-> ra[t]]}
  /\ UNCHANGED <<program, mem, gpr, fpr, vr, ra, reserved, eq, resv, gaveBack>>

(* i is the instruction at pc.                                             *)
Step(t, i) ==
  \/ /\ Inside(t, i)
     /\ Advance(t, i)
     /\ \/ LoadImmediate(t, i) \/ LoadInteger(t, i) \/ LoadFloat(t, i)
        \/ StoreInteger(t, i) \/ StoreFloat(t, i)
        \/ LoadReserved(t, i) \/ StoreConditional(t, i)
        \/ LoadVector(t, i) \/ StoreVector(t, i) \/ LoadControl(t, i) \/ Permute(t, i)
  \/ Leave(t, i)

AccessNext ==
  \E t \in Thread : pc[t] <= Len(program[t]) /\ \E i \in {Current(t)} : Step(t, i)

AccessSpec == AccessInit /\ [][AccessNext]_accessVars

-----------------------------------------------------------------------------
AccessTypes ==
  /\ DOMAIN program = Thread
  /\ \A t \in Thread :
       /\ pc[t] \in 1 .. Len(program[t]) + 1
       /\ DOMAIN gpr[t] = 1 .. 8 /\ DOMAIN fpr[t] = 1 .. 8 /\ DOMAIN reserved[t] = 1 .. 8
       /\ \A n \in VR : DOMAIN vr[t][n] = Lane
       /\ ra[t] \in Address /\ eq[t] \in BOOLEAN /\ resv[t] \subseteq Address
  /\ DOMAIN mem = Address

(* The guest sees the architecture's big-endian machine: every load, store *)
(* and conditional store does to memory and registers what PowerPC says,   *)
(* through all the turning around, and vectors are permuted, merged,       *)
(* packed and unpacked as there.  Conditional stores are exact as long as  *)
(* no word is given its old value back while a thread has it reserved,     *)
(* packs as long as the result is not the second operand (see Overwrites). *)
Power ==
  INSTANCE PowerMemory WITH
    vr <- [t \in Thread |-> [n \in VR |-> [k \in 1 .. Vector |-> vr[t][n][Vector - k]]]]

Packs ==
  \E t \in Thread : pc'[t] # pc[t] /\ Current(t).form = "V" /\ Overwrites(Current(t))

PowerPC ==
  [][gaveBack' # gaveBack \/ outside' # outside \/ Packs \/ Power!Next]_
    <<program, pc, mem, gpr, fpr, vr, ra, eq, resv>>

(* Accesses leave the guest space in three cases only: a negative          *)
(* displacement without a base register, a reservation whose index takes   *)
(* the sum past 2^32, and an access that runs over the end.                *)
InGuest ==
  \A x \in outside :
    \/ x.i.form = "D" /\ ~x.i.based /\ x.i.at < 0
    \/ x.i.op \in Reserve \cup Conditional /\ x.i.based /\ x.base + x.i.at >= Size
    \/ (((IF x.i.based THEN x.base ELSE 0) + x.i.at) % Size) + Width[x.i.op] > Size

Stored == IntegerStore \cup Conditional

(* What thread t has in its register at n is from the li at m, or is the   *)
(* register's first value if m is 0, and has not been stored.              *)
Fresh(t, m, n) ==
  /\ m > 0 => program[t][m].op = "li"
  /\ \A k \in m + 1 .. n - 1 : program[t][k].op \notin {"li"} \cup IntegerLoad \cup Reserve \cup Stored

(* Threads store new values each time, and no value twice.  The bytes of   *)
(* two values all differ here: they are known by where they came from.     *)
NewValues ==
  \A t \in Thread : \A n \in 1 .. pc[t] - 1 :
    /\ program[t][n].op \notin FloatStore \cup VectorStore
    /\ program[t][n].op \in Stored =>
         /\ \E m \in 0 .. n - 1 : Fresh(t, m, n)
         /\ \A u \in Thread : \A l \in 1 .. pc[u] - 1 : \A m \in 1 .. n - 1, k \in 1 .. l - 1 :
              /\ program[u][l].op \in Stored /\ Fresh(t, m, n) /\ Fresh(u, k, l)
              /\ program[t][m].at = program[u][k].at
              => t = u /\ n = l

(* The latest reservation before n is the one at m, and it is known by the *)
(* same registers.                                                         *)
Reserves(t, m, n) ==
  /\ program[t][m].op \in Reserve
  /\ \A k \in m + 1 .. n - 1 :
       program[t][k].op \notin Reserve /\ (program[t][m].based => ~Updates(program[t][k]))

Matches(i, r) == Width[i.op] = Width[r.op] /\ i.at = r.at /\ i.based = r.based

(* Conditional stores are to what has been reserved.                       *)
Paired ==
  \A t \in Thread : \A n \in 1 .. pc[t] - 1 :
    program[t][n].op \in Conditional =>
      \E m \in 1 .. n - 1 : Reserves(t, m, n) /\ Matches(program[t][n], program[t][m])

(* A conditional store goes through without a reservation only after some  *)
(* word was given an old value back: threads that store new values each    *)
(* time, as counters do, and reserve what they store to lose no update to  *)
(* the comparison of values.                                               *)
OnlyOldValues == NewValues /\ Paired => gaveBack = {}
===============================================================================
