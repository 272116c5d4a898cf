-------------------------- MODULE MemoryInstructions --------------------------
(***************************************************************************)
(* The loads and stores of PowerPC that Recompile of                       *)
(* XenonRecomp/recompiler.cpp has a case for, and values of registers.     *)
(* (Not dcbz and dcbzl, which clear 32 and 128 bytes of a cache line.)     *)
(*                                                                         *)
(* An instruction is [op, form, based, at].  With a base register it adds  *)
(* at to it: in the forms D and DU at is the displacement, in X and XU     *)
(* what the index register holds.  DU and XU write the sum back.           *)
(*                                                                         *)
(* v is the vector register that is loaded or stored.                      *)
(*                                                                         *)
(* An instruction on vectors is [op, form |-> "V", d, a, b, c, imm]: the   *)
(* registers it writes and reads, and its immediate; that of vrlimi is a   *)
(* mask and a rotation.                                                    *)
(*                                                                         *)
(* A register is its eight bytes, the most significant one first.  Bytes   *)
(* are only moved, so that a byte is known by where it came from; zeroes,  *)
(* the controls of vperm and small constants are numbers.                  *)
(***************************************************************************)
EXTENDS Integers, Sequences

CONSTANTS
  Thread,
  Programs, \* what the threads may run: sequences of instructions, by thread
  Bases,    \* what the base registers hold at first: addresses, by thread
  Size,     \* of the guest address space, 2^32
  Vector    \* bytes in a vector register

ASSUME AccessAssumption ==
  /\ Vector = 16 /\ Size \in Nat \ {0} /\ Size % Vector = 0
  /\ \A b \in Bases : b \in [Thread -> 0 .. Size - 1]

Address == 0 .. Size - 1

(* Integer and floating-point accesses, with the bytes they move.          *)
Width ==
  [lbz |-> 1, lhz |-> 2, lha |-> 2, lwz |-> 4, lwa |-> 4, lwbrx |-> 4, ld |-> 8,
   lfs |-> 4, lfd |-> 8, lwarx |-> 4, ldarx |-> 8,
   stb |-> 1, sth |-> 2, sthbrx |-> 2, stw |-> 4, stwbrx |-> 4, std |-> 8,
   stfs |-> 4, stfd |-> 8, stfiwx |-> 4, stwcx |-> 4, stdcx |-> 8]

IntegerLoad == {"lbz", "lhz", "lha", "lwz", "lwa", "lwbrx", "ld"}
FloatLoad == {"lfs", "lfd"}
IntegerStore == {"stb", "sth", "sthbrx", "stw", "stwbrx", "std"}
FloatStore == {"stfs", "stfd", "stfiwx"}
Reserve == {"lwarx", "ldarx"}
Conditional == {"stwcx", "stdcx"}
Reversed == {"lwbrx", "sthbrx", "stwbrx"}
VectorLoad == {"lvx", "lvewx", "lvehx", "lvlx", "lvrx"}
VectorControl == {"lvsl", "lvsr"}
VectorStore == {"stvx", "stvehx", "stvewx", "stvlx", "stvrx"}

(* The forms there is a case for, of the accesses modelled.                *)
Forms ==
  [op \in DOMAIN Width \cup VectorLoad \cup VectorControl \cup VectorStore \cup {"li"} |->
     CASE op \in {"lbz", "lhz", "lwz", "ld", "lfs", "stb", "sth", "stw", "std", "stfs"}
            -> {"D", "DU", "X", "XU"}
       [] op \in {"lha", "lfd", "stfd"} -> {"D", "DU", "X"}
       [] op = "lwa" -> {"D", "X"}
       [] op = "li" -> {"D"}
       [] OTHER -> {"X"}]

Updates(i) == i.form \in {"DU", "XU"}

VR == 1 .. 3

(* The accesses with some displacements, contents of the index register    *)
(* and vector registers; an access that updates has a base.                *)
Instruction(displacements, indexes, registers) ==
  {i \in UNION {[op : {op}, form : Forms[op], based : BOOLEAN,
                 at : displacements \cup indexes, v : registers] : op \in DOMAIN Forms} :
     /\ Updates(i) => i.based
     /\ i.at \in (IF i.form \in {"D", "DU"} THEN displacements ELSE indexes)}

(* The bytes of an element of a merge or a splat, and of a pack's and an   *)
(* unpack's source.                                                        *)
Merge == [vmrghb |-> 1, vmrghh |-> 2, vmrghw |-> 4, vmrglb |-> 1, vmrglh |-> 2, vmrglw |-> 4]
Splat == [vspltb |-> 1, vsplth |-> 2, vspltw |-> 4]
SplatImmediate == [vspltisb |-> 1, vspltish |-> 2, vspltisw |-> 4]
Pack == [vpkshus |-> 2, vpkshss |-> 2, vpkuhus |-> 2, vpkuwum |-> 4, vpkswss |-> 4, vpkswus |-> 4]
Unpack == [vupkhsb |-> 1, vupkhsh |-> 2, vupklsb |-> 1, vupklsh |-> 2]

VectorOps ==
  {"vor", "vxor", "vperm", "vsldoi", "vpermwi", "vrlimi"} \cup DOMAIN Merge \cup DOMAIN Splat
    \cup DOMAIN SplatImmediate \cup DOMAIN Pack \cup DOMAIN Unpack

(* The immediates an instruction on vectors can have.                      *)
Immediates(op) ==
  CASE op = "vsldoi" -> 0 .. Vector - 1
    [] op \in DOMAIN Splat -> 0 .. (Vector \div Splat[op]) - 1
    [] op \in DOMAIN SplatImmediate -> -16 .. 15
    [] op = "vpermwi" -> 0 .. 255
    [] op = "vrlimi" -> (0 .. 15) \X (0 .. 3)
    [] OTHER -> {0}

VectorInstruction ==
  UNION {[op : {op}, form : {"V"}, d : VR, a : VR, b : VR, c : VR, imm : Immediates(op)] :
           op \in VectorOps}

(* A displacement is shorter than an address, an index register holds one. *)
ASSUME ProgramAssumption ==
  \A p \in Programs :
    p \in [Thread -> Seq(Instruction(-Size .. Size - 1, Address, VR) \cup VectorInstruction)]

-----------------------------------------------------------------------------
(* Values.                                                                 *)

Numeral(n) == <<"number", n % 256>>
ZeroByte == Numeral(0)

(* The number a byte is; of a byte known by where it came from, some one.  *)
ByteValue(b) ==
  CHOOSE n \in 0 .. 255 : b = Numeral(n) \/ \A m \in 0 .. 255 : b # Numeral(m)

(* Bit e of a number, and the e-th two bits, counted from the lowest.      *)
OneBit(n, e) == (n \div <<1, 2, 4, 8>>[e + 1]) % 2
TwoBits(n, e) == (n \div <<1, 4, 16, 64>>[e + 1]) % 4

Fill(b, n) == [k \in 1 .. n |-> b]
Turn(s) == [k \in DOMAIN s |-> s[Len(s) + 1 - k]]

(* Variant: the high word is left out.                                     *)
ZeroExtend_Word(s) == Fill(ZeroByte, 4 - Len(s)) \o s

(* uint64_t(x), int64_t(x)                                                 *)
ZeroExtend(s) == Fill(ZeroByte, 8 - Len(s)) \o s
SignExtend(s) == Fill(<<"sign", s[1]>>, 8 - Len(s)) \o s

(* The low n bytes.                                                        *)
Low(v, n) == SubSeq(v, 9 - n, 8)

(* li, lis: the immediate at, sign-extended.                               *)
Immediate(n) == [k \in 1 .. 8 |-> <<"imm", k, n>>]

(* A float as a double, and the way back: exact for a double that was a    *)
(* float.                                                                  *)
Widened(s) == [k \in 1 .. 8 |-> <<"double", k, s>>]
Narrowed(v) ==
  [j \in 1 .. 4 |->
     IF \A k \in 1 .. 8 : v[k][1] = "double" /\ v[k] = <<"double", k, v[1][3]>>
     THEN v[1][3][j]
     ELSE <<"float", j, v>>]

(* A byte for two, of which one is zero or the same where it matters.      *)
Or(x, y) ==
  CASE x = ZeroByte \/ x = y -> y
    [] y = ZeroByte -> x
    [] OTHER -> <<"or", {x, y}>>
Xor(x, y) ==
  CASE x = y -> ZeroByte
    [] x = ZeroByte -> y
    [] y = ZeroByte -> x
    [] OTHER -> <<"xor", {x, y}>>

(* An element at half its width: modulo, or saturated by the kind of pack. *)
Narrow(op, s) ==
  IF op = "vpkuwum" THEN SubSeq(s, 3, 4)
  ELSE [k \in 1 .. (Len(s) \div 2) |-> <<op, k, s>>]

(* At twice its width.                                                     *)
Widen(s) == Fill(<<"sign", s[1]>>, Len(s)) \o s

SignedBytes(imm, n) == Fill(Numeral(IF imm < 0 THEN 255 ELSE 0), n - 1) \o <<Numeral(imm)>>
===============================================================================
