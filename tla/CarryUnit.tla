------------------------------ MODULE CarryUnit ------------------------------
(***************************************************************************)
(* The integer additions and subtractions that XenonRecomp prints          *)
(* (recompiler.cpp, the switch of Recompile): a 64-bit result, and the     *)
(* carry of the low word in xer.ca, which the C++ has to find by           *)
(* comparisons of 32-bit words because it has no carry flag.               *)
(*                                                                         *)
(* A register is a pair of words, as the union PPCRegister is read: .u32   *)
(* is lo, .u64 and .s64 are both.  Half is the weight of a word's sign     *)
(* bit, 2^31 in the program.                                               *)
(*                                                                         *)
(* The ghost variable last is what the PowerPC definition of the latest    *)
(* instruction makes of its operands: a result modulo 2^64 and a carry.    *)
(* long is the sum that a chain of instructions linked by the carry has    *)
(* come to so far; a subtraction is in it as the sum ~a + b + 1.           *)
(***************************************************************************)
EXTENDS Integers

CONSTANTS
  Half,     \* half a word
  GPR,      \* the registers of the program
  Start,    \* what a register may hold at first
  Imm,      \* immediates, sign-extended
  Ops,      \* instructions of the program
  Record,   \* whether the forms with a dot are used: a subset of BOOLEAN
  Length    \* bound: instructions of the program

W == 2 * Half
Words == 0 .. W - 1
Register == [hi : Words, lo : Words]
Bit == {0, 1}

ASSUME CarryAssumption ==
  /\ Half \in Nat \ {0, 1}
  /\ GPR # {}
  /\ Start \subseteq Register
  /\ Imm \subseteq -Half .. Half - 1
  /\ Record \subseteq BOOLEAN
  /\ Length \in Nat \ {0}

VARIABLES
  r,     \* the registers
  xer,   \* the carry and the summary overflow
  cr0,   \* what the forms with a dot compare
  count, \* instructions executed
  long,  \* ghost: x + y + c, the result and the weight of its next word
  last   \* ghost: what the latest instruction should leave, and where

vars == <<r, xer, cr0, count, long, last>>

-----------------------------------------------------------------------------
(* Arithmetic of the generated C++.                                        *)

(* A uint32_t that has at most wrapped once.                               *)
Word(n) == IF n >= W THEN n - W ELSE n

Truth(p) == IF p THEN 1 ELSE 0

Complement(w) == W - 1 - w

(* ~r.u64                                                                  *)
Flipped(x) == [hi |-> Complement(x.hi), lo |-> Complement(x.lo)]

(* x.u64 + y.u64 + c                                                       *)
Sum(x, y, c) ==
  [hi |-> Word(x.hi + y.hi + Truth(x.lo + y.lo + c >= W)),
   lo |-> Word(x.lo + y.lo + c)]

Zero == [hi |-> 0, lo |-> 0]

(* int32_t(imm) as a .s64                                                  *)
Extended(i) ==
  IF i < 0 THEN [hi |-> W - 1, lo |-> i + W] ELSE [hi |-> 0, lo |-> i]

(* The same immediate as PowerPC extends it, for the ghost variable long.  *)
Signed(i) ==
  [hi |-> IF i < 0 THEN W - 1 ELSE 0, lo |-> IF i < 0 THEN W + i ELSE i]

(* compare<int32_t>(w, 0, xer), w the .s32 of a word                       *)
CompareZero(w, so) ==
  [lt |-> Truth(w >= Half), gt |-> Truth(0 < w /\ w < Half),
   eq |-> Truth(w = 0), so |-> so]

-----------------------------------------------------------------------------
(* The definitions of the PowerPC architecture, on integers: an operand is *)
(* the number in the register or the signed immediate, and its low word.   *)
Number(x) == x.hi * W + x.lo

Held(x) == [all |-> Number(x), low |-> x.lo]

Given(i) == [all |-> i, low |-> i % W]

(* What is added up, before it is cut to the width of a register.          *)
Exact(op, a, b, ca) ==
  CASE op \in {"add", "addi", "addc", "addic"} -> a + b
    [] op \in {"subf", "subfc", "subfic"} -> b - a
    [] op = "neg" -> -a
    [] op = "adde" -> a + b + ca
    [] op = "subfe" -> b - a - 1 + ca
    [] op = "addze" -> a + ca
    [] op = "addme" -> a + ca - 1
    [] op = "subfze" -> -a - 1 + ca

(* An addition carries when it does not fit into the low word; one that    *)
(* takes something away, when there is nothing to borrow.                  *)
CarryOut(op, a, b, ca) ==
  CASE op \in {"addc", "addic", "adde", "addze"} -> Truth(Exact(op, a, b, ca) >= W)
    [] op \in {"subfc", "subfic", "subfe", "subfze", "addme"} ->
         Truth(Exact(op, a, b, ca) >= 0)
    [] op \in {"add", "addi", "subf", "neg"} -> ca

(* What op on a and b should leave in register d and in xer.ca.            *)
Due(d, op, a, b) ==
  [at |-> d, result |-> Exact(op, a.all, b.all, xer.ca) % (W * W),
   carry |-> CarryOut(op, a.low, b.low, xer.ca)]

-----------------------------------------------------------------------------
NoChain(c) == [x |-> 0, y |-> 0, c |-> c, result |-> 0, weight |-> 1]

(* The context of a thread before its first instruction.                   *)
Init ==
  /\ r \in [GPR -> Start]
  /\ xer \in [ca : Bit, so : Bit]
  /\ cr0 = CompareZero(0, 0)
  /\ count = 0
  /\ long = NoChain(xer.ca)
  /\ \E g \in GPR : last = [at |-> g, result |-> Number(r[g]), carry |-> xer.ca]

(* println("{} = ...") and, where the name has a dot, the compare.         *)
Write(d, value, dot) ==
  /\ count < Length
  /\ count' = count + 1
  /\ r' = [r EXCEPT ![d] = value]
  /\ cr0' = IF dot THEN CompareZero(value.lo, xer.so) ELSE cr0

(* An instruction that starts a chain: nothing comes in from xer.ca.       *)
Begin(d, x, y, c) ==
  long' = [x |-> x.lo, y |-> y.lo, c |-> c, result |-> r'[d].lo, weight |-> W]

(* One that goes on with it.                                               *)
Continue(d, x, y) ==
  long' = [x |-> long.x + long.weight * x.lo,
           y |-> long.y + long.weight * y.lo,
           c |-> long.c,
           result |-> long.result + long.weight * r'[d].lo,
           weight |-> long.weight * W]

(* One whose carry is not the sum's: what follows is a chain of its own.   *)
Abandon == long' = NoChain(xer'.ca)

(* One that has nothing to do with the carry.                              *)
Aside == UNCHANGED <<xer, long>>

-----------------------------------------------------------------------------
Add(d, a, b, dot) ==
  /\ "add" \in Ops
  /\ Write(d, Sum(r[a], r[b], 0), dot)
  /\ Aside
  /\ last' = Due(d, "add", Held(r[a]), Held(r[b]))

AddC(d, a, b, dot) ==
  /\ "addc" \in Ops
  /\ xer' = [xer EXCEPT !.ca = Truth(Word(r[a].lo + r[b].lo) < r[a].lo)]
  /\ Write(d, Sum(r[a], r[b], 0), dot)
  /\ Begin(d, r[a], r[b], 0)
  /\ last' = Due(d, "addc", Held(r[a]), Held(r[b]))

AddE_One(d, a, b, dot) ==
  /\ "adde" \in Ops
  /\ Write(d, Sum(r[a], r[b], xer.ca), dot)
  /\ xer' = [xer EXCEPT !.ca = Truth(Word(r[a].lo + r[b].lo + xer.ca) < r[a].lo)]
  /\ Continue(d, r[a], r[b])
  /\ last' = Due(d, "adde", Held(r[a]), Held(r[b]))

AddE(d, a, b, dot) ==
  /\ "adde" \in Ops
  /\ Write(d, Sum(r[a], r[b], xer.ca), dot)
  /\ xer' = [xer EXCEPT !.ca =
               Truth(\/ Word(r[a].lo + r[b].lo) < r[a].lo
                     \/ Word(r[a].lo + r[b].lo + xer.ca) < xer.ca)]
  /\ Continue(d, r[a], r[b])
  /\ last' = Due(d, "adde", Held(r[a]), Held(r[b]))

(* addi and addis differ in where the immediate comes from; with register  *)
(* 0 as the base only the immediate is printed.                            *)
AddI(d, a, i) ==
  /\ "addi" \in Ops
  /\ \E base \in {r[a], Zero} :
       /\ Write(d, Sum(base, Extended(i), 0), FALSE)
       /\ Aside
       /\ last' = Due(d, "addi", Held(base), Given(i))

AddIC(d, a, i, dot) ==
  /\ "addic" \in Ops
  /\ xer' = [xer EXCEPT !.ca = Truth(r[a].lo > Complement(Extended(i).lo))]
  /\ Write(d, Sum(r[a], Extended(i), 0), dot)
  /\ Begin(d, r[a], Signed(i), 0)
  /\ last' = Due(d, "addic", Held(r[a]), Given(i))

AddZE(d, a, dot) ==
  /\ "addze" \in Ops
  /\ LET temp == Sum(r[a], Zero, xer.ca)
     IN  /\ xer' = [xer EXCEPT !.ca = Truth(temp.lo < r[a].lo)]
         /\ Write(d, temp, dot)
  /\ Continue(d, r[a], Zero)
  /\ last' = Due(d, "addze", Held(r[a]), Given(0))

AddME(d, a, dot) ==
  /\ "addme" \in Ops
  /\ LET temp == Sum(r[a], Flipped(Zero), xer.ca)
     IN  /\ xer' = [xer EXCEPT !.ca = Truth(temp.lo < r[a].lo)]
         /\ Write(d, temp, dot)
  /\ LET should == Due(d, "addme", Held(r[a]), Given(0)) IN
     \/ xer.ca = 0 /\ Continue(d, r[a], Flipped(Zero)) /\ last' = should
     \/ xer.ca = 1 /\ Abandon /\ last' = [should EXCEPT !.carry = xer'.ca]

-----------------------------------------------------------------------------
SubF(d, a, b, dot) ==
  /\ "subf" \in Ops
  /\ Write(d, Sum(r[b], Flipped(r[a]), 1), dot)
  /\ Aside
  /\ last' = Due(d, "subf", Held(r[a]), Held(r[b]))

Neg(d, a, dot) ==
  /\ "neg" \in Ops
  /\ Write(d, Sum(Zero, Flipped(r[a]), 1), dot)
  /\ Aside
  /\ last' = Due(d, "neg", Held(r[a]), Given(0))

SubFC(d, a, b, dot) ==
  /\ "subfc" \in Ops
  /\ xer' = [xer EXCEPT !.ca = Truth(r[b].lo >= r[a].lo)]
  /\ Write(d, Sum(r[b], Flipped(r[a]), 1), dot)
  /\ Begin(d, Flipped(r[a]), r[b], 1)
  /\ last' = Due(d, "subfc", Held(r[a]), Held(r[b]))

SubFE(d, a, b, dot) ==
  /\ "subfe" \in Ops
  /\ LET rest == Complement(r[a].lo)
     IN  xer' = [xer EXCEPT !.ca =
                   Truth(\/ Word(rest + r[b].lo) < rest
                         \/ Word(rest + r[b].lo + xer.ca) < xer.ca)]
  /\ Write(d, Sum(Flipped(r[a]), r[b], xer.ca), dot)
  /\ Continue(d, Flipped(r[a]), r[b])
  /\ last' = Due(d, "subfe", Held(r[a]), Held(r[b]))

SubFZE(d, a, dot) ==
  /\ "subfze" \in Ops
  /\ xer' = [xer EXCEPT !.ca =
               Truth(Word(Complement(r[a].lo) + xer.ca) < Complement(r[a].lo))]
  /\ Write(d, Sum(Flipped(r[a]), Zero, xer.ca), dot)
  /\ Continue(d, Flipped(r[a]), Zero)
  /\ last' = Due(d, "subfze", Held(r[a]), Given(0))

SubFIC(d, a, i) ==
  /\ "subfic" \in Ops
  /\ xer' = [xer EXCEPT !.ca = Truth(r[a].lo <= Extended(i).lo)]
  /\ Write(d, Sum(Extended(i), Flipped(r[a]), 1), FALSE)
  /\ Begin(d, Flipped(r[a]), Signed(i), 1)
  /\ last' = Due(d, "subfic", Held(r[a]), Given(i))

-----------------------------------------------------------------------------
Next ==
  \E d, a \in GPR :
    \/ \E dot \in Record :
         \/ \E b \in GPR : \/ Add(d, a, b, dot)
                           \/ AddC(d, a, b, dot)
                           \/ AddE(d, a, b, dot)
                           \/ SubF(d, a, b, dot)
                           \/ SubFC(d, a, b, dot)
                           \/ SubFE(d, a, b, dot)
         \/ AddZE(d, a, dot)
         \/ AddME(d, a, dot)
         \/ SubFZE(d, a, dot)
         \/ Neg(d, a, dot)
         \/ \E i \in Imm : AddIC(d, a, i, dot)
    \/ \E i \in Imm : AddI(d, a, i) \/ SubFIC(d, a, i)

Spec == Init /\ [][Next]_vars

-----------------------------------------------------------------------------
Numbers == [x : Nat, y : Nat, c : Bit, result : Nat, weight : Nat \ {0}]

(* Registers stay words, the carry a bit, and a record form leaves one of  *)
(* the three orders in cr0: what the C++ types of PPCContext hold.         *)
TypeOK ==
  /\ r \in [GPR -> Register]
  /\ xer \in [ca : Bit, so : Bit]
  /\ cr0 \in [lt : Bit, gt : Bit, eq : Bit, so : Bit]
  /\ count \in 0 .. Length
  /\ long \in Numbers
  /\ last \in [at : GPR, result : 0 .. W * W - 1, carry : Bit]

(* Instructions linked by the carry compute the sum or the difference of   *)
(* integers of any number of words, whatever else runs between them and    *)
(* whatever register they write: what is in xer.ca is what is missing from *)
(* the words written.  (addme after a carry is left out, see              *)
(* AddMeCarries.)  It fails if one comparison misses a wrap-around, or     *)
(* reads an operand after it was overwritten.                              *)
LongSum == long.result + long.weight * xer.ca = long.x + long.y + long.c

(* Each instruction leaves the 64-bit result and the carry of its PowerPC  *)
(* definition (addme the carry only when none comes in, see AddMeCarries), *)
(* also when the register written is one of the operands: what the C++     *)
(* adds and compares comes to what the instruction adds, takes away,       *)
(* rotates or shifts.                                                      *)
ResultRight == Number(r[last.at]) = last.result /\ xer.ca = last.carry

(* addme adds the carry and minus one: its carry out is that of the word   *)
(* plus 2^32 - 1 plus the carry.  STATUS.md names addme among the carry    *)
(* instructions that are implemented; recompiler.cpp:618 compares the      *)
(* result with the operand, which are equal when a carry comes in.         *)
AddMeCarries ==
  [][\A d, a \in GPR, dot \in Record :
       AddME(d, a, dot) => xer'.ca = Truth(r[a].lo + (W - 1) + xer.ca >= W)]_vars
===============================================================================
