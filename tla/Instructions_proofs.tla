-------------------------- MODULE Instructions_proofs --------------------------
(***************************************************************************)
(* Proofs about the C++ that the recompiler prints for instructions.       *)
(*                                                                         *)
(* CarryUnit, for words of every width and programs of every length: what  *)
(* the comparisons of the generated C++ find is the carry.                 *)
(*                                                                         *)
(* LoadStore, for every guest memory, number of threads and programs: each *)
(* step is a step of PowerMemory on what the guest sees, a vector's bytes  *)
(* from the left being the host's lanes from the right, and conditional    *)
(* stores, which compare values, go through without a reservation only     *)
(* where an old value has come back.                                       *)
(***************************************************************************)
EXTENDS CarryUnit, LoadStore, FiniteSetTheorems, SequenceTheorems, TLAPS

LEMMA WordSize == W \in Nat /\ W > 3 /\ W = 2 * Half /\ Half \in Nat
BY CarryAssumption DEF W

LEMMA TruthType == ASSUME NEW p PROVE Truth(p) \in Bit
BY DEF Truth, Bit

(* A word wrapped once is a word.                                          *)
LEMMA WordType ==
  ASSUME NEW n \in Int, 0 <= n, n < 2 * W
  PROVE  Word(n) \in Words
BY WordSize DEF Word, Words

LEMMA ComplementType ==
  ASSUME NEW w \in Words
  PROVE  Complement(w) \in Words
BY WordSize DEF Complement, Words

LEMMA ZeroType == Zero \in Register /\ Flipped(Zero) \in Register /\ Flipped(Zero).lo = W - 1
BY WordSize DEF Zero, Flipped, Complement, Register, Words

LEMMA NotType ==
  ASSUME NEW x \in Register
  PROVE  Flipped(x) \in Register /\ Flipped(x).lo = Complement(x.lo)
BY ComplementType DEF Flipped, Register

LEMMA SumType ==
  ASSUME NEW x \in Register, NEW y \in Register, NEW c \in Bit
  PROVE  Sum(x, y, c) \in Register /\ Sum(x, y, c).lo = Word(x.lo + y.lo + c)
<1> DEFINE t == Truth(x.lo + y.lo + c >= W)
<1>1. x.hi \in Words /\ y.hi \in Words /\ x.lo \in Words /\ y.lo \in Words
  BY DEF Register
<1>2. t \in Bit
  BY TruthType
<1>3. Word(x.lo + y.lo + c) \in Words
  BY <1>1, WordType, WordSize DEF Words, Bit
<1>4. Word(x.hi + y.hi + t) \in Words
  <2> HIDE DEF t
  <2> QED  BY <1>1, <1>2, WordType, WordSize DEF Words, Bit
<1> QED  BY <1>3, <1>4 DEF Sum, Register

LEMMA ExtendedType ==
  ASSUME NEW i \in Imm
  PROVE  Extended(i) \in Register /\ Extended(i) = Signed(i)
<1>1. i \in -Half .. Half - 1
  BY CarryAssumption
<1> QED  BY <1>1, WordSize DEF Extended, Signed, Register, Words

LEMMA CompareType ==
  ASSUME NEW w, NEW so \in Bit
  PROVE  CompareZero(w, so) \in [lt : Bit, gt : Bit, eq : Bit, so : Bit]
BY TruthType DEF CompareZero

-----------------------------------------------------------------------------
(* The comparisons, one lemma per form that recompiler.cpp prints.  Each   *)
(* says: the word written and the carry make up the sum of the operands.   *)

(* addc: a + b < a                                                         *)
LEMMA CarryOfAddC ==
  ASSUME NEW a \in Words, NEW b \in Words
  PROVE  Word(a + b + 0) + W * Truth(Word(a + b) < a) = a + b + 0
BY WordSize DEF Word, Words, Truth

(* adde: a + b < a or a + b + ca < ca                                      *)
LEMMA CarryOfAddE ==
  ASSUME NEW a \in Words, NEW b \in Words, NEW c \in Bit
  PROVE  Word(a + b + c)
           + W * Truth(Word(a + b) < a \/ Word(a + b + c) < c) = a + b + c
BY WordSize DEF Word, Words, Truth, Bit

(* addic: a > ~imm                                                         *)
LEMMA CarryOfAddIC ==
  ASSUME NEW a \in Words, NEW b \in Words
  PROVE  Word(a + b + 0) + W * Truth(a > Complement(b)) = a + b + 0
BY WordSize DEF Word, Words, Truth, Complement

(* addze and subfze: a + ca < a                                            *)
LEMMA CarryOfAddZE ==
  ASSUME NEW a \in Words, NEW c \in Bit
  PROVE  Word(a + 0 + c) + W * Truth(Word(a + 0 + c) < a) = a + 0 + c
BY WordSize DEF Word, Words, Truth, Bit

(* addme without a carry: a - 1 < a                                        *)
LEMMA CarryOfAddME ==
  ASSUME NEW a \in Words
  PROVE  Word(a + (W - 1) + 0) + W * Truth(Word(a + (W - 1) + 0) < a)
           = a + (W - 1) + 0
BY WordSize DEF Word, Words, Truth

(* subfc and subfic: b >= a                                                *)
LEMMA CarryOfSubFC ==
  ASSUME NEW a \in Words, NEW b \in Words
  PROVE  Word(b + Complement(a) + 1) + W * Truth(b >= a)
           = Complement(a) + b + 1
BY WordSize DEF Word, Words, Truth, Complement

-----------------------------------------------------------------------------
(* The two words of a sum.                                                 *)

(* The sum of two words and a carry, and the carry out of it.              *)
LEMMA WordSplits ==
  ASSUME NEW a \in Words, NEW b \in Words, NEW c \in Bit
  PROVE  /\ Word(a + b + c) \in Words
         /\ Word(a + b + c) + W * Truth(a + b + c >= W) = a + b + c
<1>1. Word(a + b + c) \in Words
  BY WordType, WordSize DEF Words, Bit
<1>2. Word(a + b + c) + W * Truth(a + b + c >= W) = a + b + c
  BY WordSize DEF Word, Words, Truth, Bit
<1> QED  BY <1>1, <1>2

(* A word and a bit that make up a number are its low word and its carry.  *)
LEMMA CarryFound ==
  ASSUME NEW v \in Words, NEW carry \in Bit, NEW n \in Int, v + W * carry = n
  PROVE  carry = Truth(n >= W)
BY WordSize DEF Words, Bit, Truth

LEMMA Natural ==
  ASSUME NEW x \in Register
  PROVE  x.lo \in Nat
BY WordSize DEF Register, Words

LEMMA Distribute ==
  ASSUME NEW v \in Int, NEW a \in Int, NEW b \in Int, NEW c \in Int
  PROVE  /\ v * (a + b + c) = v * a + v * b + v * c
         /\ v * a \in Int /\ v * b \in Int /\ v * c \in Int
OBVIOUS

LEMMA Regroup ==
  ASSUME NEW v \in Int, NEW w \in Int, NEW a \in Int, NEW c \in Int
  PROVE  /\ v * (a + w * c) = v * a + (v * w) * c
         /\ v * a \in Int /\ (v * w) * c \in Int
OBVIOUS

LEMMA Below ==
  ASSUME NEW w \in Nat, NEW h \in 0 .. w - 1, NEW l \in 0 .. w - 1
  PROVE  h * w + l \in Nat /\ h * w + l < w * w
<1>1. h * w <= (w - 1) * w /\ (w - 1) * w = w * w - w /\ h * w \in Nat /\ w * w \in Nat
  OBVIOUS
<1>2. \A hw, ww \in Int : hw <= ww - w => hw + l < ww
  OBVIOUS
<1> QED  BY <1>1, <1>2

LEMMA OneRemainder ==
  ASSUME NEW m \in Nat \ {0}, NEW p \in Int, NEW q \in Int,
         NEW s \in 0 .. m - 1, NEW t \in 0 .. m - 1, m * p + s = m * q + t
  PROVE  s = t
<1>1. ASSUME NEW k \in Int, NEW l \in Int, k < l PROVE m * l >= m * k + m
  <2>1. l - (k + 1) \in Nat
    BY <1>1
  <2>2. m * (l - (k + 1)) >= 0
    BY <2>1
  <2>3. m * (l - (k + 1)) = m * l - (m * k + m)
    OBVIOUS
  <2>4. m * l \in Int /\ m * k \in Int
    OBVIOUS
  <2> QED  BY <2>2, <2>3, <2>4
<1>2. m * p \in Int /\ m * q \in Int
  OBVIOUS
<1>3. p < q => m * q >= m * p + m
  BY <1>1
<1>4. q < p => m * p >= m * q + m
  BY <1>1
<1>5. p = q => m * p = m * q
  OBVIOUS
<1> QED  BY <1>2, <1>3, <1>4, <1>5

LEMMA Division ==
  ASSUME NEW m \in Nat \ {0}, NEW n \in Int
  PROVE  n % m \in 0 .. m - 1 /\ n \div m \in Int /\ m * (n \div m) + (n % m) = n
OBVIOUS

(* Whole ranges of a register do not count.                                *)
LEMMA Remainder ==
  ASSUME NEW m \in Nat \ {0}, NEW n \in Int, NEW q \in {0, 1, 2}
  PROVE  /\ (n + q * m) % m = n % m
         /\ n % m \in 0 .. m - 1
         /\ n \in 0 .. m - 1 => n % m = n
<1> DEFINE k == n + q * m
           d == n \div m
           e == k \div m
<1>1. k \in Int
  OBVIOUS
<1>2. n % m \in 0 .. m - 1 /\ d \in Int /\ m * d + (n % m) = n
  BY Division
<1>3. k % m \in 0 .. m - 1 /\ e \in Int /\ m * e + (k % m) = k
  BY <1>1, Division
<1>4. m * (d + q) = m * d + q * m /\ d + q \in Int /\ m * d \in Int /\ q * m \in Int
  BY <1>2
<1>5. m * (d + q) + (n % m) = m * e + (k % m)
  <2> HIDE DEF d, e
  <2> QED  BY <1>2, <1>3, <1>4
<1> HIDE DEF d, e
<1>6. n % m = k % m
  <2> HIDE DEF k
  <2> QED  BY <1>2, <1>3, <1>4, <1>5, OneRemainder
<1>7. n \in 0 .. m - 1 => n % m = n
  <2>1. m * 0 + n = n
    OBVIOUS
  <2> QED  BY <1>2, <2>1, OneRemainder
<1> QED  BY <1>2, <1>6, <1>7

(* Sum adds numbers of two words modulo the square of a word's range.      *)
LEMMA SumIsSum ==
  ASSUME NEW x \in Register, NEW y \in Register, NEW c \in Bit
  PROVE  Number(Sum(x, y, c)) = (Number(x) + Number(y) + c) % (W * W)
<1> DEFINE k == Truth(x.lo + y.lo + c >= W)
           l == Word(x.lo + y.lo + c)
           q == Truth(x.hi + y.hi + k >= W)
           h == Word(x.hi + y.hi + k)
<1>1. x.hi \in Words /\ y.hi \in Words /\ x.lo \in Words /\ y.lo \in Words
  BY DEF Register
<1>2. k \in Bit /\ q \in Bit
  BY TruthType
<1>3. l \in Words /\ l + W * k = x.lo + y.lo + c
  BY <1>1, WordSplits
<1>4. h \in Words /\ h + W * q = x.hi + y.hi + k
  <2> HIDE DEF k
  <2> QED  BY <1>1, <1>2, WordSplits
<1>5. Sum(x, y, c).hi = h /\ Sum(x, y, c).lo = l
  BY DEF Sum
<1> HIDE DEF k, l, q, h
<1>6. (h * W + l) + (W * W) * q = (x.hi * W + x.lo) + (y.hi * W + y.lo) + c
  <2>1. /\ W \in Nat /\ c \in Int /\ k \in {0, 1} /\ q \in {0, 1} /\ h \in Int /\ l \in Int
        /\ x.hi \in Int /\ y.hi \in Int /\ x.lo \in Int /\ y.lo \in Int
    BY <1>1, <1>2, <1>3, <1>4, WordSize DEF Words, Bit
  <2>2. /\ W * (x.hi + y.hi + k) = W * x.hi + W * y.hi + W * k
        /\ W * x.hi \in Int /\ W * y.hi \in Int /\ W * k \in Int
    BY <2>1, Distribute
  <2>3. /\ W * (h + W * q) = W * h + (W * W) * q
        /\ W * h \in Int /\ (W * W) * q \in Int
    BY <2>1, Regroup
  <2>4. h * W = W * h /\ x.hi * W = W * x.hi /\ y.hi * W = W * y.hi
    BY <2>1
  <2>5. W * h + (W * W) * q = W * x.hi + W * y.hi + W * k
    BY <1>4, <2>2, <2>3
  <2>6. (W * h + l) + (W * W) * q = (W * x.hi + x.lo) + (W * y.hi + y.lo) + c
    <3> DEFINE wh == W * h
               wwq == (W * W) * q
               wA == W * x.hi
               wB == W * y.hi
               wk == W * k
    <3>1. wh \in Int /\ wwq \in Int /\ wA \in Int /\ wB \in Int /\ wk \in Int
      BY <2>2, <2>3
    <3>2. wh + wwq = wA + wB + wk /\ l + wk = x.lo + y.lo + c
      BY <1>3, <2>5
    <3> HIDE DEF wh, wwq, wA, wB, wk
    <3>3. (wh + l) + wwq = (wA + x.lo) + (wB + y.lo) + c
      BY <2>1, <3>1, <3>2
    <3> QED  BY <3>3 DEF wh, wwq, wA, wB
  <2> QED  BY <2>4, <2>6
<1>7. h * W + l \in 0 .. W * W - 1 /\ W * W \in Nat \ {0}
  BY <1>3, <1>4, WordSize, Below DEF Words
<1>8. ((h * W + l) + (W * W) * q) % (W * W) = h * W + l
  <2>1. PICK m \in Nat \ {0} : m = W * W
    BY <1>7
  <2>2. PICK n \in 0 .. m - 1 : n = h * W + l
    BY <1>7, <2>1
  <2>3. m * q = q * m /\ q \in {0, 1, 2} /\ n \in Int
    BY <1>2 DEF Bit
  <2>4. (n + m * q) % m = n
    BY <2>3, Remainder
  <2> QED  BY <2>1, <2>2, <2>4
<1> QED  BY <1>5, <1>6, <1>8 DEF Number

(* The number in a register, in its complement and in an immediate.        *)
LEMMA NumberType ==
  ASSUME NEW x \in Register
  PROVE  /\ Number(x) \in 0 .. W * W - 1 /\ W * W \in Nat \ {0}
         /\ Number(Flipped(x)) = (W * W) - 1 - Number(x)
         /\ Number(Zero) = 0 /\ Number(Flipped(Zero)) = (W * W) - 1
<1>1. x.hi \in 0 .. W - 1 /\ x.lo \in 0 .. W - 1 /\ W \in Nat /\ W > 3
  BY WordSize DEF Register, Words
<1>2. x.hi * W + x.lo \in 0 .. W * W - 1 /\ W * W \in Nat \ {0}
  BY <1>1, Below
<1>3. (W - 1 - x.hi) * W + (W - 1 - x.lo) = (W * W) - 1 - (x.hi * W + x.lo)
  <2>1. \A w, h, l \in Int : (w - 1 - h) * w + (w - 1 - l) = (w * w) - 1 - (h * w + l)
    <3> TAKE w, h, l \in Int
    <3>1. (w - 1 - h) * w = w * w - w - h * w /\ w * w \in Int /\ h * w \in Int
      OBVIOUS
    <3> QED  BY <3>1
  <2>2. W \in Int /\ x.hi \in Int /\ x.lo \in Int
    BY <1>1
  <2> QED  BY ONLY <2>1, <2>2
<1>4. 0 * W + 0 = 0 /\ (W - 1 - 0) * W + (W - 1 - 0) = (W * W) - 1
  BY <1>1
<1>5. Number(Flipped(x)) = (W - 1 - x.hi) * W + (W - 1 - x.lo)
  BY DEF Number, Flipped, Complement
<1>6. Number(Zero) = 0 * W + 0 /\ Number(Flipped(Zero)) = (W - 1 - 0) * W + (W - 1 - 0)
  BY DEF Number, Flipped, Complement, Zero
<1>7. Number(x) = x.hi * W + x.lo
  BY DEF Number
<1> QED  BY <1>2, <1>3, <1>4, <1>5, <1>6, <1>7

LEMMA ImmediateType ==
  ASSUME NEW i \in Imm
  PROVE  /\ i \in Int /\ Extended(i).lo = i % W
         /\ \/ Number(Extended(i)) = i
            \/ Number(Extended(i)) = i + (W * W)
<1>1. i \in -Half .. Half - 1 /\ W \in Nat /\ W > 3 /\ W = 2 * Half /\ Half \in Nat
  BY WordSize, CarryAssumption
<1>2. i < 0 => i % W = i + W
  <2>1. i \in Int /\ 1 \in {0, 1, 2} /\ W \in Nat \ {0} /\ i + 1 * W = i + W /\ i + W \in Int
    BY <1>1
  <2>2. (i + 1 * W) % W = i % W
    BY <2>1, Remainder
  <2>3. i < 0 => i + W \in 0 .. W - 1
    BY <1>1
  <2>4. i < 0 => (i + W) % W = i + W
    BY <2>1, <2>3, Remainder
  <2> QED  BY <2>1, <2>2, <2>4
<1>3. i >= 0 => i % W = i
  <2>1. i \in Int /\ W \in Nat \ {0} /\ (i >= 0 => i \in 0 .. W - 1)
    BY <1>1
  <2> QED  BY <2>1, Remainder
<1>4. (W - 1) * W + (i + W) = i + (W * W)
  BY <1>1
<1> QED  BY <1>1, <1>2, <1>3, <1>4 DEF Extended, Number

-----------------------------------------------------------------------------
(* What the definitions of the architecture yield.                         *)

Operands == [all : Int, low : Int]
Latest == [at : GPR, result : 0 .. W * W - 1, carry : Bit]
Names == {"add", "addi", "addc", "addic", "subf", "subfc", "subfic", "neg",
          "adde", "subfe", "addze", "addme", "subfze"}

LEMMA HeldType ==
  ASSUME NEW x \in Register
  PROVE  Held(x) \in Operands /\ Held(x).all = Number(x) /\ Held(x).low = x.lo
BY NumberType, WordSize DEF Held, Operands, Register, Words

LEMMA GivenType ==
  ASSUME NEW i \in Int
  PROVE  Given(i) \in Operands /\ Given(i).all = i /\ Given(i).low = i % W
BY WordSize DEF Given, Operands

LEMMA ExactType ==
  ASSUME NEW op \in Names, NEW a \in Int, NEW b \in Int, NEW ca \in Bit
  PROVE  Exact(op, a, b, ca) \in Int /\ CarryOut(op, a, b, ca) \in Bit
<1>1. Exact(op, a, b, ca) \in Int
  BY DEF Exact, Names, Bit
<1>2. Truth(Exact(op, a, b, ca) >= W) \in Bit /\ Truth(Exact(op, a, b, ca) >= 0) \in Bit
  BY TruthType
<1>3. CarryOut(op, a, b, ca) \in Bit
  <2> HIDE DEF Exact
  <2> QED  BY <1>2 DEF CarryOut, Names
<1> QED  BY <1>1, <1>3

LEMMA LatestType ==
  ASSUME NEW d \in GPR, NEW op \in Names, NEW a \in Operands, NEW b \in Operands, xer.ca \in Bit
  PROVE  /\ Due(d, op, a, b) \in Latest
         /\ Exact(op, a.all, b.all, xer.ca) \in Int
<1>1. a.all \in Int /\ b.all \in Int /\ a.low \in Int /\ b.low \in Int
  BY DEF Operands
<1>2. Exact(op, a.all, b.all, xer.ca) \in Int /\ CarryOut(op, a.low, b.low, xer.ca) \in Bit
  BY <1>1, ExactType
<1>3. W * W \in Nat \ {0}
  BY WordSize
<1>4. Exact(op, a.all, b.all, xer.ca) % (W * W) \in 0 .. W * W - 1
  BY <1>2, <1>3, Remainder
<1> QED  BY <1>2, <1>4 DEF Due, Latest

-----------------------------------------------------------------------------
Inv == TypeOK /\ LongSum /\ ResultRight

(* What every instruction does to the registers, cr0 and the count.        *)
LEMMA WriteStep ==
  ASSUME TypeOK, NEW d \in GPR, NEW value \in Register, NEW dot,
         Write(d, value, dot)
  PROVE  /\ r' \in [GPR -> Register]
         /\ r'[d] = value
         /\ cr0' \in [lt : Bit, gt : Bit, eq : Bit, so : Bit]
         /\ count' \in 0 .. Length
<1>1. r' \in [GPR -> Register] /\ r'[d] = value
  BY DEF TypeOK, Write
<1>2. CompareZero(value.lo, xer.so) \in [lt : Bit, gt : Bit, eq : Bit, so : Bit]
  BY CompareType DEF TypeOK
<1>3. cr0' \in [lt : Bit, gt : Bit, eq : Bit, so : Bit]
  BY <1>2 DEF TypeOK, Write
<1>4. count' \in 0 .. Length
  BY CarryAssumption DEF TypeOK, Write
<1> QED  BY <1>1, <1>3, <1>4

(* The result is right when the words added differ from what the           *)
(* instruction adds or takes away by whole ranges of a register.           *)
LEMMA RightStep ==
  ASSUME TypeOK, NEW d \in GPR, NEW dot, NEW op \in Names, NEW a \in Operands, NEW b \in Operands,
         NEW x \in Register, NEW y \in Register, NEW c \in Bit, NEW q \in {0, 1, 2},
         Number(x) + Number(y) + c = Exact(op, a.all, b.all, xer.ca) + q * (W * W),
         Write(d, Sum(x, y, c), dot),
         last' = [Due(d, op, a, b) EXCEPT !.carry = xer'.ca]
  PROVE  ResultRight'
<1>1. r'[d] = Sum(x, y, c)
  BY DEF Write, TypeOK
<1>2. xer.ca \in Bit
  BY DEF TypeOK
<1>3. Exact(op, a.all, b.all, xer.ca) \in Int /\ W * W \in Nat \ {0}
  BY <1>2, LatestType, NumberType
<1>4. Number(Sum(x, y, c)) = Exact(op, a.all, b.all, xer.ca) % (W * W)
  BY <1>3, SumIsSum, Remainder
<1>5. /\ last'.at = d /\ last'.carry = xer'.ca
      /\ last'.result = Exact(op, a.all, b.all, xer.ca) % (W * W)
  BY DEF Due
<1> QED  BY <1>1, <1>4, <1>5 DEF ResultRight, Number

(* The carry is the one that the definition asks for.                      *)
LEMMA CarryStep ==
  ASSUME NEW d, NEW op, NEW a, NEW b, last' = Due(d, op, a, b),
         xer'.ca = CarryOut(op, a.low, b.low, xer.ca)
  PROVE  last' = [Due(d, op, a, b) EXCEPT !.carry = xer'.ca]
BY DEF Due

LEMMA NumbersType ==
  ASSUME NEW x \in Nat, NEW y \in Nat, NEW c \in Bit, NEW result \in Nat,
         NEW weight \in Nat \ {0}
  PROVE  [x |-> x, y |-> y, c |-> c, result |-> result, weight |-> weight]
           \in Numbers
BY DEF Numbers

LEMMA BeginStep ==
  ASSUME TypeOK, NEW d \in GPR, NEW x \in Register, NEW y \in Register,
         NEW c \in Bit, NEW value \in Register, NEW dot, NEW carry \in Bit,
         Write(d, value, dot), Begin(d, x, y, c), last' \in Latest,
         xer' = [xer EXCEPT !.ca = carry],
         value.lo + W * carry = x.lo + y.lo + c
  PROVE  TypeOK' /\ LongSum'
<1>1. /\ r' \in [GPR -> Register] /\ r'[d] = value /\ count' \in 0 .. Length
      /\ cr0' \in [lt : Bit, gt : Bit, eq : Bit, so : Bit]
  BY WriteStep
<1>2. xer' \in [ca : Bit, so : Bit] /\ xer'.ca = carry
  BY DEF TypeOK
<1>3. x.lo \in Nat /\ y.lo \in Nat /\ value.lo \in Nat
  BY Natural
<1>4. long' = [x |-> x.lo, y |-> y.lo, c |-> c, result |-> value.lo, weight |-> W]
  BY <1>1 DEF Begin
<1>5. W \in Nat \ {0}
  BY WordSize
<1>6. long' \in Numbers
  BY <1>3, <1>4, <1>5, NumbersType
<1>8. LongSum'
  BY <1>2, <1>4 DEF LongSum
<1> QED  BY <1>1, <1>2, <1>6, <1>8 DEF TypeOK, Latest

LEMMA ContinueStep ==
  ASSUME TypeOK, LongSum, NEW d \in GPR, NEW x \in Register,
         NEW y \in Register, NEW value \in Register, NEW dot, NEW carry \in Bit,
         Write(d, value, dot), Continue(d, x, y), last' \in Latest,
         xer' = [xer EXCEPT !.ca = carry],
         value.lo + W * carry = x.lo + y.lo + xer.ca
  PROVE  TypeOK' /\ LongSum'
<1>1. /\ r' \in [GPR -> Register] /\ r'[d] = value /\ count' \in 0 .. Length
      /\ cr0' \in [lt : Bit, gt : Bit, eq : Bit, so : Bit]
  BY WriteStep
<1>2. xer' \in [ca : Bit, so : Bit] /\ xer'.ca = carry
  BY DEF TypeOK
<1>3. x.lo \in Nat /\ y.lo \in Nat /\ value.lo \in Nat
  BY Natural
<1>4. /\ long.x \in Nat /\ long.y \in Nat /\ long.c \in Bit /\ long.c \in Nat
      /\ long.result \in Nat /\ long.weight \in Nat \ {0} /\ long.weight \in Nat
  BY DEF TypeOK, Numbers, Bit
<1>5. xer.ca \in Bit /\ xer.ca \in Nat /\ carry \in Nat
  BY DEF TypeOK, Bit
<1>6. long' = [x |-> long.x + long.weight * x.lo,
               y |-> long.y + long.weight * y.lo,
               c |-> long.c,
               result |-> long.result + long.weight * value.lo,
               weight |-> long.weight * W]
  BY <1>1 DEF Continue
<1>7. W \in Nat /\ W # 0
  BY WordSize
<1>8. /\ long.weight * x.lo \in Nat /\ long.weight * y.lo \in Nat
      /\ long.weight * value.lo \in Nat /\ long.weight * W \in Nat \ {0}
  BY <1>3, <1>4, <1>7
<1>9. /\ long.x + long.weight * x.lo \in Nat
      /\ long.y + long.weight * y.lo \in Nat
      /\ long.result + long.weight * value.lo \in Nat
  BY <1>4, <1>8
<1>10. long' \in Numbers
  BY <1>4, <1>6, <1>8, <1>9, NumbersType
<1>12. (long.result + long.weight * value.lo) + (long.weight * W) * carry
         = (long.x + long.weight * x.lo) + (long.y + long.weight * y.lo) + long.c
  <2>1. long.result + long.weight * xer.ca = long.x + long.y + long.c
    BY DEF LongSum
  <2>0. value.lo + W * carry = x.lo + y.lo + xer.ca
    OBVIOUS
  <2>2. long.weight * (value.lo + W * carry)
          = long.weight * (x.lo + y.lo + xer.ca)
    BY <2>0
  <2>3. /\ long.weight * (x.lo + y.lo + xer.ca)
             = long.weight * x.lo + long.weight * y.lo + long.weight * xer.ca
        /\ long.weight * x.lo \in Int /\ long.weight * y.lo \in Int
        /\ long.weight * xer.ca \in Int
    <3>1. /\ long.weight \in Int /\ x.lo \in Int /\ y.lo \in Int /\ xer.ca \in Int
      BY <1>3, <1>4, <1>5
    <3> QED  BY ONLY <3>1, Distribute
  <2>4. /\ long.weight * (value.lo + W * carry)
             = long.weight * value.lo + (long.weight * W) * carry
        /\ long.weight * value.lo \in Int /\ (long.weight * W) * carry \in Int
    <3>1. /\ long.weight \in Int /\ value.lo \in Int /\ W \in Int /\ carry \in Int
      BY <1>3, <1>4, <1>5, <1>7
    <3> QED  BY ONLY <3>1, Regroup
  <2>5. \A lr, lx, ly, lc, a, b, e, f, g \in Int :
          lr + e = lx + ly + lc /\ f + g = a + b + e
            => (lr + f) + g = (lx + a) + (ly + b) + lc
    OBVIOUS
  <2>6. /\ long.x \in Int /\ long.y \in Int /\ long.c \in Int /\ long.result \in Int
    BY <1>4
  <2>7. long.weight * value.lo + (long.weight * W) * carry
          = long.weight * x.lo + long.weight * y.lo + long.weight * xer.ca
    BY <2>2, <2>3, <2>4
  <2> QED  BY ONLY <2>1, <2>3, <2>4, <2>5, <2>6, <2>7
<1>13. LongSum'
  BY <1>2, <1>6, <1>12 DEF LongSum
<1> QED  BY <1>1, <1>2, <1>10, <1>13 DEF TypeOK, Latest

LEMMA AbandonStep ==
  ASSUME TypeOK, NEW d \in GPR, NEW value \in Register, NEW dot, NEW carry \in Bit,
         Write(d, value, dot), Abandon, last' \in Latest,
         xer' = [xer EXCEPT !.ca = carry]
  PROVE  TypeOK' /\ LongSum'
<1>1. /\ r' \in [GPR -> Register] /\ count' \in 0 .. Length
      /\ cr0' \in [lt : Bit, gt : Bit, eq : Bit, so : Bit]
  BY WriteStep
<1>2. xer' \in [ca : Bit, so : Bit] /\ xer'.ca = carry
  BY DEF TypeOK
<1>3. long' = [x |-> 0, y |-> 0, c |-> carry, result |-> 0, weight |-> 1]
  BY <1>2 DEF Abandon, NoChain
<1>4. long' \in Numbers
  BY <1>3, NumbersType
<1>5. LongSum'
  BY <1>2, <1>3 DEF LongSum, Bit
<1> QED  BY <1>1, <1>2, <1>4, <1>5 DEF TypeOK, Latest

LEMMA AsideStep ==
  ASSUME TypeOK, LongSum, NEW d \in GPR, NEW value \in Register, NEW dot,
         Write(d, value, dot), Aside, last' \in Latest
  PROVE  TypeOK' /\ LongSum'
<1>1. /\ r' \in [GPR -> Register] /\ count' \in 0 .. Length
      /\ cr0' \in [lt : Bit, gt : Bit, eq : Bit, so : Bit]
  BY WriteStep
<1>2. xer' = xer /\ long' = long
  BY DEF Aside
<1> QED  BY <1>1, <1>2 DEF TypeOK, LongSum, Latest

-----------------------------------------------------------------------------
LEMMA InitInv == Init => Inv
<1> SUFFICES ASSUME Init PROVE Inv
  OBVIOUS
<1>1. r \in [GPR -> Register]
  BY CarryAssumption DEF Init
<1>2. xer \in [ca : Bit, so : Bit]
  BY DEF Init
<1>3. cr0 \in [lt : Bit, gt : Bit, eq : Bit, so : Bit]
  BY CompareType DEF Init, Bit
<1>4. count \in 0 .. Length
  BY CarryAssumption DEF Init
<1>5. long = [x |-> 0, y |-> 0, c |-> xer.ca, result |-> 0, weight |-> 1]
  BY DEF Init, NoChain
<1>6. long \in Numbers
  BY <1>2, <1>5, NumbersType
<1>7. PICK g \in GPR : last = [at |-> g, result |-> Number(r[g]), carry |-> xer.ca]
  BY DEF Init
<1>8. Number(r[g]) \in 0 .. W * W - 1
  BY <1>1, NumberType
<1>9. LongSum /\ ResultRight
  BY <1>2, <1>5, <1>7 DEF LongSum, ResultRight, Bit
<1> QED  BY <1>1, <1>2, <1>3, <1>4, <1>6, <1>7, <1>8, <1>9 DEF Inv, TypeOK

(* A register operand, and its complement.                                 *)
LEMMA Operand ==
  ASSUME TypeOK, NEW a \in GPR
  PROVE  /\ r[a] \in Register /\ r[a].lo \in Words
         /\ Flipped(r[a]) \in Register /\ Flipped(r[a]).lo = Complement(r[a].lo)
         /\ Complement(r[a].lo) \in Words
         /\ xer.ca \in Bit
BY NotType, ComplementType DEF TypeOK, Register

LEMMA AddCStep ==
  ASSUME Inv, NEW d \in GPR, NEW a \in GPR, NEW b \in GPR, NEW dot, AddC(d, a, b, dot)
  PROVE  Inv'
<1> DEFINE value == Sum(r[a], r[b], 0)
           carry == Truth(Word(r[a].lo + r[b].lo) < r[a].lo)
<1>1. TypeOK /\ LongSum
  BY DEF Inv
<1>2. r[a] \in Register /\ r[b] \in Register /\ r[a].lo \in Words /\ r[b].lo \in Words /\ xer.ca \in Bit /\ 0 \in Bit
  BY <1>1, Operand DEF Bit
<1>3. value \in Register /\ value.lo = Word(r[a].lo + r[b].lo + 0)
  <2>1. value \in Register /\ value.lo = Word(r[a].lo + r[b].lo + 0)
    BY <1>2, SumType
  <2> QED  BY <1>2, <2>1
<1>4. carry \in Bit
  BY TruthType
<1>5. value.lo + W * carry = r[a].lo + r[b].lo + 0
  BY <1>2, <1>3, CarryOfAddC
<1>6. /\ Write(d, value, dot) /\ Begin(d, r[a], r[b], 0)
      /\ xer' = [xer EXCEPT !.ca = carry]
      /\ last' = Due(d, "addc", Held(r[a]), Held(r[b]))
  BY DEF AddC
<1>7. /\ Held(r[a]) \in Operands /\ Held(r[b]) \in Operands
      /\ Held(r[a]).low = r[a].lo /\ Held(r[b]).low = r[b].lo
  BY <1>2, HeldType DEF Operands
<1>8. last' \in Latest
  BY <1>1, <1>2, <1>6, <1>7, LatestType DEF Names
<1>9. xer'.ca = CarryOut("addc", Held(r[a]).low, Held(r[b]).low, xer.ca)
  <2>1. PICK n \in Int : n = r[a].lo + r[b].lo + 0
    BY <1>2, WordSize DEF Words, Bit
  <2>2. value.lo \in Words /\ value.lo + W * carry = n
    BY <1>2, <1>3, <1>5, <2>1, ZeroType DEF Register, Zero
  <2>3. xer'.ca = carry
    BY <1>1, <1>6 DEF TypeOK
  <2> HIDE DEF value, carry
  <2>4. carry = Truth(n >= W)
    BY <1>4, <2>2, CarryFound
  <2> QED  BY <1>2, <1>7, <2>1, <2>3, <2>4, WordSize DEF CarryOut, Exact, Truth, Complement, Words, Bit
<1>10. \E q \in {0, 1, 2} : Number(r[a]) + Number(r[b]) + 0
           = Exact("addc", Held(r[a]).all, Held(r[b]).all, xer.ca) + q * (W * W)
  <2>1. PICK m \in Nat : m = W * W
    BY NumberType, <1>2
  <2>2. Exact("addc", Held(r[a]).all, Held(r[b]).all, xer.ca)
          = Number(r[a]) + Number(r[b])
    BY <1>2, HeldType, NumberType DEF Exact
  <2>3. /\ Number(r[a]) \in Int /\ 0 * m = 0 /\ 1 * m = m /\ 2 * m = m + m
        /\ Number(r[b]) \in Int
    BY <1>2, HeldType, NumberType, <2>1
  <2> QED  BY ONLY <1>2, <2>1, <2>2, <2>3, Z3 DEF Bit
<1>11. ResultRight'
  <2>1. last' = [Due(d, "addc", Held(r[a]), Held(r[b])) EXCEPT !.carry = xer'.ca]
    BY <1>6, <1>9, CarryStep
  <2>2. "addc" \in Names
    BY DEF Names
  <2>3. Write(d, Sum(r[a], r[b], 0), dot)
    BY <1>6
  <2> QED  BY <1>1, <1>2, <1>7, <1>10, <2>1, <2>2, <2>3, RightStep
<1> HIDE DEF value, carry
<1> QED  BY <1>1, <1>2, <1>3, <1>4, <1>5, <1>6, <1>8, <1>11, BeginStep DEF Inv

LEMMA AddEStep ==
  ASSUME Inv, NEW d \in GPR, NEW a \in GPR, NEW b \in GPR, NEW dot, AddE(d, a, b, dot)
  PROVE  Inv'
<1> DEFINE value == Sum(r[a], r[b], xer.ca)
           carry == Truth(\/ Word(r[a].lo + r[b].lo) < r[a].lo
                          \/ Word(r[a].lo + r[b].lo + xer.ca) < xer.ca)
<1>1. TypeOK /\ LongSum
  BY DEF Inv
<1>2. r[a] \in Register /\ r[b] \in Register /\ r[a].lo \in Words /\ r[b].lo \in Words /\ xer.ca \in Bit
  BY <1>1, Operand
<1>3. value \in Register /\ value.lo = Word(r[a].lo + r[b].lo + xer.ca)
  <2>1. value \in Register /\ value.lo = Word(r[a].lo + r[b].lo + xer.ca)
    BY <1>2, SumType
  <2> QED  BY <1>2, <2>1
<1>4. carry \in Bit
  BY TruthType
<1>5. value.lo + W * carry = r[a].lo + r[b].lo + xer.ca
  BY <1>2, <1>3, CarryOfAddE DEF Truth
<1>6. /\ Write(d, value, dot) /\ Continue(d, r[a], r[b])
      /\ xer' = [xer EXCEPT !.ca = carry]
      /\ last' = Due(d, "adde", Held(r[a]), Held(r[b]))
  BY DEF AddE
<1>7. /\ Held(r[a]) \in Operands /\ Held(r[b]) \in Operands
      /\ Held(r[a]).low = r[a].lo /\ Held(r[b]).low = r[b].lo
  BY <1>2, HeldType DEF Operands
<1>8. last' \in Latest
  BY <1>1, <1>2, <1>6, <1>7, LatestType DEF Names
<1>9. xer'.ca = CarryOut("adde", Held(r[a]).low, Held(r[b]).low, xer.ca)
  <2>1. PICK n \in Int : n = r[a].lo + r[b].lo + xer.ca
    BY <1>2, WordSize DEF Words, Bit
  <2>2. value.lo \in Words /\ value.lo + W * carry = n
    BY <1>2, <1>3, <1>5, <2>1, ZeroType DEF Register, Zero
  <2>3. xer'.ca = carry
    BY <1>1, <1>6 DEF TypeOK
  <2> HIDE DEF value, carry
  <2>4. carry = Truth(n >= W)
    BY <1>4, <2>2, CarryFound
  <2> QED  BY <1>2, <1>7, <2>1, <2>3, <2>4, WordSize DEF CarryOut, Exact, Truth, Complement, Words, Bit
<1>10. \E q \in {0, 1, 2} : Number(r[a]) + Number(r[b]) + xer.ca
           = Exact("adde", Held(r[a]).all, Held(r[b]).all, xer.ca) + q * (W * W)
  <2>1. PICK m \in Nat : m = W * W
    BY NumberType, <1>2
  <2>2. Exact("adde", Held(r[a]).all, Held(r[b]).all, xer.ca)
          = Number(r[a]) + Number(r[b]) + xer.ca
    BY <1>2, HeldType, NumberType DEF Exact
  <2>3. /\ Number(r[a]) \in Int /\ 0 * m = 0 /\ 1 * m = m /\ 2 * m = m + m
        /\ Number(r[b]) \in Int
    BY <1>2, HeldType, NumberType, <2>1
  <2> QED  BY ONLY <1>2, <2>1, <2>2, <2>3, Z3 DEF Bit
<1>11. ResultRight'
  <2>1. last' = [Due(d, "adde", Held(r[a]), Held(r[b])) EXCEPT !.carry = xer'.ca]
    BY <1>6, <1>9, CarryStep
  <2>2. "adde" \in Names
    BY DEF Names
  <2>3. Write(d, Sum(r[a], r[b], xer.ca), dot)
    BY <1>6
  <2> QED  BY <1>1, <1>2, <1>7, <1>10, <2>1, <2>2, <2>3, RightStep
<1> HIDE DEF value, carry
<1> QED  BY <1>1, <1>2, <1>3, <1>4, <1>5, <1>6, <1>8, <1>11, ContinueStep DEF Inv

LEMMA AddICStep ==
  ASSUME Inv, NEW d \in GPR, NEW a \in GPR, NEW i \in Imm, NEW dot, AddIC(d, a, i, dot)
  PROVE  Inv'
<1> DEFINE value == Sum(r[a], Extended(i), 0)
           carry == Truth(r[a].lo > Complement(Extended(i).lo))
<1>1. TypeOK /\ LongSum
  BY DEF Inv
<1>2. r[a] \in Register /\ r[a].lo \in Words /\ Extended(i) \in Register /\ Extended(i).lo \in Words
      /\ Signed(i) = Extended(i) /\ 0 \in Bit /\ xer.ca \in Bit
  BY <1>1, Operand, ExtendedType DEF Bit, Register
<1>3. value \in Register /\ value.lo = Word(r[a].lo + Extended(i).lo + 0)
  <2>1. value \in Register /\ value.lo = Word(r[a].lo + Extended(i).lo + 0)
    BY <1>2, SumType
  <2> QED  BY <1>2, <2>1
<1>4. carry \in Bit
  BY TruthType
<1>5. value.lo + W * carry = r[a].lo + Signed(i).lo + 0
  BY <1>2, <1>3, CarryOfAddIC
<1>6. /\ Write(d, value, dot) /\ Begin(d, r[a], Signed(i), 0)
      /\ xer' = [xer EXCEPT !.ca = carry]
      /\ last' = Due(d, "addic", Held(r[a]), Given(i))
  BY DEF AddIC
<1>7. /\ Held(r[a]) \in Operands /\ Given(i) \in Operands
      /\ Held(r[a]).low = r[a].lo /\ Given(i).low = Extended(i).lo
  BY <1>2, HeldType, GivenType, ImmediateType DEF Operands
<1>8. last' \in Latest
  BY <1>1, <1>2, <1>6, <1>7, LatestType DEF Names
<1>9. xer'.ca = CarryOut("addic", Held(r[a]).low, Given(i).low, xer.ca)
  <2>1. PICK n \in Int : n = r[a].lo + Extended(i).lo + 0
    BY <1>2, WordSize DEF Words, Bit
  <2>2. value.lo \in Words /\ value.lo + W * carry = n
    BY <1>2, <1>3, <1>5, <2>1, ZeroType DEF Register, Zero
  <2>3. xer'.ca = carry
    BY <1>1, <1>6 DEF TypeOK
  <2> HIDE DEF value, carry
  <2>4. carry = Truth(n >= W)
    BY <1>4, <2>2, CarryFound
  <2> QED  BY <1>2, <1>7, <2>1, <2>3, <2>4, WordSize DEF CarryOut, Exact, Truth, Complement, Words, Bit
<1>10. \E q \in {0, 1, 2} : Number(r[a]) + Number(Extended(i)) + 0
           = Exact("addic", Held(r[a]).all, Given(i).all, xer.ca) + q * (W * W)
  <2>1. PICK m \in Nat : m = W * W
    BY NumberType, <1>2
  <2>2. Exact("addic", Held(r[a]).all, Given(i).all, xer.ca)
          = Number(r[a]) + i
    BY <1>2, HeldType, NumberType, GivenType, ImmediateType DEF Exact
  <2>3. /\ Number(r[a]) \in Int /\ 0 * m = 0 /\ 1 * m = m /\ 2 * m = m + m
        /\ i \in Int /\ Number(Extended(i)) \in {i, i + m}
    BY <1>2, HeldType, NumberType, GivenType, ImmediateType, <2>1
  <2> QED  BY ONLY <1>2, <2>1, <2>2, <2>3, Z3 DEF Bit
<1>11. ResultRight'
  <2>1. last' = [Due(d, "addic", Held(r[a]), Given(i)) EXCEPT !.carry = xer'.ca]
    BY <1>6, <1>9, CarryStep
  <2>2. "addic" \in Names
    BY DEF Names
  <2>3. Write(d, Sum(r[a], Extended(i), 0), dot)
    BY <1>6
  <2> QED  BY <1>1, <1>2, <1>7, <1>10, <2>1, <2>2, <2>3, RightStep
<1> HIDE DEF value, carry
<1> QED  BY <1>1, <1>2, <1>3, <1>4, <1>5, <1>6, <1>8, <1>11, BeginStep DEF Inv

LEMMA AddZEStep ==
  ASSUME Inv, NEW d \in GPR, NEW a \in GPR, NEW dot, AddZE(d, a, dot)
  PROVE  Inv'
<1> DEFINE value == Sum(r[a], Zero, xer.ca)
           carry == Truth(value.lo < r[a].lo)
<1>1. TypeOK /\ LongSum
  BY DEF Inv
<1>2. r[a] \in Register /\ r[a].lo \in Words /\ Zero \in Register /\ Zero.lo = 0 /\ xer.ca \in Bit
  BY <1>1, Operand, ZeroType DEF Zero
<1>3. value \in Register /\ value.lo = Word(r[a].lo + 0 + xer.ca)
  <2>1. value \in Register /\ value.lo = Word(r[a].lo + Zero.lo + xer.ca)
    BY <1>2, SumType
  <2> QED  BY <1>2, <2>1
<1>4. carry \in Bit
  BY TruthType
<1>5. value.lo + W * carry = r[a].lo + Zero.lo + xer.ca
  BY <1>2, <1>3, CarryOfAddZE
<1>6. /\ Write(d, value, dot) /\ Continue(d, r[a], Zero)
      /\ xer' = [xer EXCEPT !.ca = carry]
      /\ last' = Due(d, "addze", Held(r[a]), Given(0))
  BY DEF AddZE
<1>7. /\ Held(r[a]) \in Operands /\ Given(0) \in Operands
      /\ Held(r[a]).low = r[a].lo /\ Given(0).low \in Int
  BY <1>2, HeldType, GivenType DEF Operands
<1>8. last' \in Latest
  BY <1>1, <1>2, <1>6, <1>7, LatestType DEF Names
<1>9. xer'.ca = CarryOut("addze", Held(r[a]).low, Given(0).low, xer.ca)
  <2>1. PICK n \in Int : n = r[a].lo + 0 + xer.ca
    BY <1>2, WordSize DEF Words, Bit
  <2>2. value.lo \in Words /\ value.lo + W * carry = n
    BY <1>2, <1>3, <1>5, <2>1, ZeroType DEF Register, Zero
  <2>3. xer'.ca = carry
    BY <1>1, <1>6 DEF TypeOK
  <2> HIDE DEF value, carry
  <2>4. carry = Truth(n >= W)
    BY <1>4, <2>2, CarryFound
  <2> QED  BY <1>2, <1>7, <2>1, <2>3, <2>4, WordSize DEF CarryOut, Exact, Truth, Complement, Words, Bit
<1>10. \E q \in {0, 1, 2} : Number(r[a]) + Number(Zero) + xer.ca
           = Exact("addze", Held(r[a]).all, Given(0).all, xer.ca) + q * (W * W)
  <2>1. PICK m \in Nat : m = W * W
    BY NumberType, <1>2
  <2>2. Exact("addze", Held(r[a]).all, Given(0).all, xer.ca)
          = Number(r[a]) + xer.ca
    BY <1>2, HeldType, NumberType, GivenType DEF Exact
  <2>3. /\ Number(r[a]) \in Int /\ 0 * m = 0 /\ 1 * m = m /\ 2 * m = m + m
        /\ Number(Zero) = 0
    BY <1>2, HeldType, NumberType, GivenType, <2>1
  <2> QED  BY ONLY <1>2, <2>1, <2>2, <2>3, Z3 DEF Bit
<1>11. ResultRight'
  <2>1. last' = [Due(d, "addze", Held(r[a]), Given(0)) EXCEPT !.carry = xer'.ca]
    BY <1>6, <1>9, CarryStep
  <2>2. "addze" \in Names
    BY DEF Names
  <2>3. Write(d, Sum(r[a], Zero, xer.ca), dot)
    BY <1>6
  <2> QED  BY <1>1, <1>2, <1>7, <1>10, <2>1, <2>2, <2>3, RightStep
<1> HIDE DEF value, carry
<1> QED  BY <1>1, <1>2, <1>3, <1>4, <1>5, <1>6, <1>8, <1>11, ContinueStep DEF Inv

LEMMA SubFCStep ==
  ASSUME Inv, NEW d \in GPR, NEW a \in GPR, NEW b \in GPR, NEW dot, SubFC(d, a, b, dot)
  PROVE  Inv'
<1> DEFINE value == Sum(r[b], Flipped(r[a]), 1)
           carry == Truth(r[b].lo >= r[a].lo)
<1>1. TypeOK /\ LongSum
  BY DEF Inv
<1>2. r[a] \in Register /\ r[b] \in Register /\ r[a].lo \in Words /\ r[b].lo \in Words /\ xer.ca \in Bit
      /\ Flipped(r[a]) \in Register /\ Flipped(r[a]).lo = Complement(r[a].lo)
      /\ Complement(r[a].lo) \in Words /\ 1 \in Bit
  BY <1>1, Operand DEF Bit
<1>3. value \in Register /\ value.lo = Word(r[b].lo + Complement(r[a].lo) + 1)
  <2>1. value \in Register /\ value.lo = Word(r[b].lo + Flipped(r[a]).lo + 1)
    BY <1>2, SumType
  <2> QED  BY <1>2, <2>1
<1>4. carry \in Bit
  BY TruthType
<1>5. value.lo + W * carry = Flipped(r[a]).lo + r[b].lo + 1
  BY <1>2, <1>3, CarryOfSubFC
<1>6. /\ Write(d, value, dot) /\ Begin(d, Flipped(r[a]), r[b], 1)
      /\ xer' = [xer EXCEPT !.ca = carry]
      /\ last' = Due(d, "subfc", Held(r[a]), Held(r[b]))
  BY DEF SubFC
<1>7. /\ Held(r[a]) \in Operands /\ Held(r[b]) \in Operands
      /\ Held(r[a]).low = r[a].lo /\ Held(r[b]).low = r[b].lo
  BY <1>2, HeldType DEF Operands
<1>8. last' \in Latest
  BY <1>1, <1>2, <1>6, <1>7, LatestType DEF Names
<1>9. xer'.ca = CarryOut("subfc", Held(r[a]).low, Held(r[b]).low, xer.ca)
  <2>1. PICK n \in Int : n = Complement(r[a].lo) + r[b].lo + 1
    BY <1>2, WordSize DEF Words, Bit
  <2>2. value.lo \in Words /\ value.lo + W * carry = n
    BY <1>2, <1>3, <1>5, <2>1, ZeroType DEF Register, Zero
  <2>3. xer'.ca = carry
    BY <1>1, <1>6 DEF TypeOK
  <2> HIDE DEF value, carry
  <2>4. carry = Truth(n >= W)
    BY <1>4, <2>2, CarryFound
  <2> QED  BY <1>2, <1>7, <2>1, <2>3, <2>4, WordSize DEF CarryOut, Exact, Truth, Complement, Words, Bit
<1>10. \E q \in {0, 1, 2} : Number(r[b]) + Number(Flipped(r[a])) + 1
           = Exact("subfc", Held(r[a]).all, Held(r[b]).all, xer.ca) + q * (W * W)
  <2>1. PICK m \in Nat : m = W * W
    BY NumberType, <1>2
  <2>2. Exact("subfc", Held(r[a]).all, Held(r[b]).all, xer.ca)
          = Number(r[b]) - Number(r[a])
    BY <1>2, HeldType, NumberType DEF Exact
  <2>3. /\ Number(r[a]) \in Int /\ 0 * m = 0 /\ 1 * m = m /\ 2 * m = m + m
        /\ Number(r[b]) \in Int
        /\ Number(Flipped(r[a])) = m - 1 - Number(r[a])
    BY <1>2, HeldType, NumberType, <2>1
  <2> QED  BY ONLY <1>2, <2>1, <2>2, <2>3, Z3 DEF Bit
<1>11. ResultRight'
  <2>1. last' = [Due(d, "subfc", Held(r[a]), Held(r[b])) EXCEPT !.carry = xer'.ca]
    BY <1>6, <1>9, CarryStep
  <2>2. "subfc" \in Names
    BY DEF Names
  <2>3. Write(d, Sum(r[b], Flipped(r[a]), 1), dot)
    BY <1>6
  <2> QED  BY <1>1, <1>2, <1>7, <1>10, <2>1, <2>2, <2>3, RightStep
<1> HIDE DEF value, carry
<1> QED  BY <1>1, <1>2, <1>3, <1>4, <1>5, <1>6, <1>8, <1>11, BeginStep DEF Inv

LEMMA SubFEStep ==
  ASSUME Inv, NEW d \in GPR, NEW a \in GPR, NEW b \in GPR, NEW dot, SubFE(d, a, b, dot)
  PROVE  Inv'
<1> DEFINE value == Sum(Flipped(r[a]), r[b], xer.ca)
           carry == Truth(\/ Word(Complement(r[a].lo) + r[b].lo) < Complement(r[a].lo)
                          \/ Word(Complement(r[a].lo) + r[b].lo + xer.ca) < xer.ca)
<1>1. TypeOK /\ LongSum
  BY DEF Inv
<1>2. r[a] \in Register /\ r[b] \in Register /\ r[a].lo \in Words /\ r[b].lo \in Words /\ xer.ca \in Bit
      /\ Flipped(r[a]) \in Register /\ Flipped(r[a]).lo = Complement(r[a].lo)
      /\ Complement(r[a].lo) \in Words
  BY <1>1, Operand
<1>3. value \in Register /\ value.lo = Word(Complement(r[a].lo) + r[b].lo + xer.ca)
  <2>1. value \in Register /\ value.lo = Word(Flipped(r[a]).lo + r[b].lo + xer.ca)
    BY <1>2, SumType
  <2> QED  BY <1>2, <2>1
<1>4. carry \in Bit
  BY TruthType
<1>5. value.lo + W * carry = Flipped(r[a]).lo + r[b].lo + xer.ca
  BY <1>2, <1>3, CarryOfAddE DEF Truth
<1>6. /\ Write(d, value, dot) /\ Continue(d, Flipped(r[a]), r[b])
      /\ xer' = [xer EXCEPT !.ca = carry]
      /\ last' = Due(d, "subfe", Held(r[a]), Held(r[b]))
  BY DEF SubFE
<1>7. /\ Held(r[a]) \in Operands /\ Held(r[b]) \in Operands
      /\ Held(r[a]).low = r[a].lo /\ Held(r[b]).low = r[b].lo
  BY <1>2, HeldType DEF Operands
<1>8. last' \in Latest
  BY <1>1, <1>2, <1>6, <1>7, LatestType DEF Names
<1>9. xer'.ca = CarryOut("subfe", Held(r[a]).low, Held(r[b]).low, xer.ca)
  <2>1. PICK n \in Int : n = Complement(r[a].lo) + r[b].lo + xer.ca
    BY <1>2, WordSize DEF Words, Bit
  <2>2. value.lo \in Words /\ value.lo + W * carry = n
    BY <1>2, <1>3, <1>5, <2>1, ZeroType DEF Register, Zero
  <2>3. xer'.ca = carry
    BY <1>1, <1>6 DEF TypeOK
  <2> HIDE DEF value, carry
  <2>4. carry = Truth(n >= W)
    BY <1>4, <2>2, CarryFound
  <2> QED  BY <1>2, <1>7, <2>1, <2>3, <2>4, WordSize DEF CarryOut, Exact, Truth, Complement, Words, Bit
<1>10. \E q \in {0, 1, 2} : Number(Flipped(r[a])) + Number(r[b]) + xer.ca
           = Exact("subfe", Held(r[a]).all, Held(r[b]).all, xer.ca) + q * (W * W)
  <2>1. PICK m \in Nat : m = W * W
    BY NumberType, <1>2
  <2>2. Exact("subfe", Held(r[a]).all, Held(r[b]).all, xer.ca)
          = Number(r[b]) - Number(r[a]) - 1 + xer.ca
    BY <1>2, HeldType, NumberType DEF Exact
  <2>3. /\ Number(r[a]) \in Int /\ 0 * m = 0 /\ 1 * m = m /\ 2 * m = m + m
        /\ Number(r[b]) \in Int
        /\ Number(Flipped(r[a])) = m - 1 - Number(r[a])
    BY <1>2, HeldType, NumberType, <2>1
  <2> QED  BY ONLY <1>2, <2>1, <2>2, <2>3, Z3 DEF Bit
<1>11. ResultRight'
  <2>1. last' = [Due(d, "subfe", Held(r[a]), Held(r[b])) EXCEPT !.carry = xer'.ca]
    BY <1>6, <1>9, CarryStep
  <2>2. "subfe" \in Names
    BY DEF Names
  <2>3. Write(d, Sum(Flipped(r[a]), r[b], xer.ca), dot)
    BY <1>6
  <2> QED  BY <1>1, <1>2, <1>7, <1>10, <2>1, <2>2, <2>3, RightStep
<1> HIDE DEF value, carry
<1> QED  BY <1>1, <1>2, <1>3, <1>4, <1>5, <1>6, <1>8, <1>11, ContinueStep DEF Inv

LEMMA CarryOfSubFZE ==
  ASSUME NEW a \in Words, NEW c \in Bit
  PROVE  Word(a + 0 + c) + W * Truth(Word(a + c) < a) = a + 0 + c
BY WordSize DEF Word, Words, Truth, Bit

LEMMA SubFZEStep ==
  ASSUME Inv, NEW d \in GPR, NEW a \in GPR, NEW dot, SubFZE(d, a, dot)
  PROVE  Inv'
<1> DEFINE value == Sum(Flipped(r[a]), Zero, xer.ca)
           carry == Truth(Word(Complement(r[a].lo) + xer.ca) < Complement(r[a].lo))
<1>1. TypeOK /\ LongSum
  BY DEF Inv
<1>2. r[a] \in Register /\ r[a].lo \in Words /\ Zero \in Register /\ Zero.lo = 0 /\ xer.ca \in Bit
      /\ Flipped(r[a]) \in Register /\ Flipped(r[a]).lo = Complement(r[a].lo)
      /\ Complement(r[a].lo) \in Words
  BY <1>1, Operand, ZeroType DEF Zero
<1>3. value \in Register /\ value.lo = Word(Complement(r[a].lo) + 0 + xer.ca)
  <2>1. value \in Register /\ value.lo = Word(Flipped(r[a]).lo + Zero.lo + xer.ca)
    BY <1>2, SumType
  <2> QED  BY <1>2, <2>1
<1>4. carry \in Bit
  BY TruthType
<1>5. value.lo + W * carry = Flipped(r[a]).lo + Zero.lo + xer.ca
  BY <1>2, <1>3, CarryOfSubFZE
<1>6. /\ Write(d, value, dot) /\ Continue(d, Flipped(r[a]), Zero)
      /\ xer' = [xer EXCEPT !.ca = carry]
      /\ last' = Due(d, "subfze", Held(r[a]), Given(0))
  BY DEF SubFZE
<1>7. /\ Held(r[a]) \in Operands /\ Given(0) \in Operands
      /\ Held(r[a]).low = r[a].lo /\ Given(0).low \in Int
  BY <1>2, HeldType, GivenType DEF Operands
<1>8. last' \in Latest
  BY <1>1, <1>2, <1>6, <1>7, LatestType DEF Names
<1>9. xer'.ca = CarryOut("subfze", Held(r[a]).low, Given(0).low, xer.ca)
  <2>1. PICK n \in Int : n = Complement(r[a].lo) + 0 + xer.ca
    BY <1>2, WordSize DEF Words, Bit
  <2>2. value.lo \in Words /\ value.lo + W * carry = n
    BY <1>2, <1>3, <1>5, <2>1, ZeroType DEF Register, Zero
  <2>3. xer'.ca = carry
    BY <1>1, <1>6 DEF TypeOK
  <2> HIDE DEF value, carry
  <2>4. carry = Truth(n >= W)
    BY <1>4, <2>2, CarryFound
  <2> QED  BY <1>2, <1>7, <2>1, <2>3, <2>4, WordSize DEF CarryOut, Exact, Truth, Complement, Words, Bit
<1>10. \E q \in {0, 1, 2} : Number(Flipped(r[a])) + Number(Zero) + xer.ca
           = Exact("subfze", Held(r[a]).all, Given(0).all, xer.ca) + q * (W * W)
  <2>1. PICK m \in Nat : m = W * W
    BY NumberType, <1>2
  <2>2. Exact("subfze", Held(r[a]).all, Given(0).all, xer.ca)
          = -Number(r[a]) - 1 + xer.ca
    BY <1>2, HeldType, NumberType, GivenType DEF Exact
  <2>3. /\ Number(r[a]) \in Int /\ 0 * m = 0 /\ 1 * m = m /\ 2 * m = m + m
        /\ Number(Flipped(r[a])) = m - 1 - Number(r[a])
        /\ Number(Zero) = 0
    BY <1>2, HeldType, NumberType, GivenType, <2>1
  <2> QED  BY ONLY <1>2, <2>1, <2>2, <2>3, Z3 DEF Bit
<1>11. ResultRight'
  <2>1. last' = [Due(d, "subfze", Held(r[a]), Given(0)) EXCEPT !.carry = xer'.ca]
    BY <1>6, <1>9, CarryStep
  <2>2. "subfze" \in Names
    BY DEF Names
  <2>3. Write(d, Sum(Flipped(r[a]), Zero, xer.ca), dot)
    BY <1>6
  <2> QED  BY <1>1, <1>2, <1>7, <1>10, <2>1, <2>2, <2>3, RightStep
<1> HIDE DEF value, carry
<1> QED  BY <1>1, <1>2, <1>3, <1>4, <1>5, <1>6, <1>8, <1>11, ContinueStep DEF Inv

LEMMA CarryOfSubFIC ==
  ASSUME NEW a \in Words, NEW b \in Words
  PROVE  Word(b + Complement(a) + 1) + W * Truth(a <= b)
           = Complement(a) + b + 1
BY WordSize DEF Word, Words, Truth, Complement

LEMMA SubFICStep ==
  ASSUME Inv, NEW d \in GPR, NEW a \in GPR, NEW i \in Imm, SubFIC(d, a, i)
  PROVE  Inv'
<1> DEFINE value == Sum(Extended(i), Flipped(r[a]), 1)
           carry == Truth(r[a].lo <= Extended(i).lo)
<1>1. TypeOK /\ LongSum
  BY DEF Inv
<1>2. r[a] \in Register /\ r[a].lo \in Words /\ Extended(i) \in Register /\ Extended(i).lo \in Words
      /\ Flipped(r[a]) \in Register /\ Flipped(r[a]).lo = Complement(r[a].lo)
      /\ Complement(r[a].lo) \in Words /\ Signed(i) = Extended(i) /\ 1 \in Bit /\ xer.ca \in Bit
  BY <1>1, Operand, ExtendedType DEF Bit, Register
<1>3. value \in Register /\ value.lo = Word(Extended(i).lo + Complement(r[a].lo) + 1)
  <2>1. value \in Register /\ value.lo = Word(Extended(i).lo + Flipped(r[a]).lo + 1)
    BY <1>2, SumType
  <2> QED  BY <1>2, <2>1
<1>4. carry \in Bit
  BY TruthType
<1>5. value.lo + W * carry = Flipped(r[a]).lo + Signed(i).lo + 1
  BY <1>2, <1>3, CarryOfSubFIC
<1>6. /\ Write(d, value, FALSE) /\ Begin(d, Flipped(r[a]), Signed(i), 1)
      /\ xer' = [xer EXCEPT !.ca = carry]
      /\ last' = Due(d, "subfic", Held(r[a]), Given(i))
  BY DEF SubFIC
<1>7. /\ Held(r[a]) \in Operands /\ Given(i) \in Operands
      /\ Held(r[a]).low = r[a].lo /\ Given(i).low = Extended(i).lo
  BY <1>2, HeldType, GivenType, ImmediateType DEF Operands
<1>8. last' \in Latest
  BY <1>1, <1>2, <1>6, <1>7, LatestType DEF Names
<1>9. xer'.ca = CarryOut("subfic", Held(r[a]).low, Given(i).low, xer.ca)
  <2>1. PICK n \in Int : n = Complement(r[a].lo) + Extended(i).lo + 1
    BY <1>2, WordSize DEF Words, Bit
  <2>2. value.lo \in Words /\ value.lo + W * carry = n
    BY <1>2, <1>3, <1>5, <2>1, ZeroType DEF Register, Zero
  <2>3. xer'.ca = carry
    BY <1>1, <1>6 DEF TypeOK
  <2> HIDE DEF value, carry
  <2>4. carry = Truth(n >= W)
    BY <1>4, <2>2, CarryFound
  <2> QED  BY <1>2, <1>7, <2>1, <2>3, <2>4, WordSize DEF CarryOut, Exact, Truth, Complement, Words, Bit
<1>10. \E q \in {0, 1, 2} : Number(Extended(i)) + Number(Flipped(r[a])) + 1
           = Exact("subfic", Held(r[a]).all, Given(i).all, xer.ca) + q * (W * W)
  <2>1. PICK m \in Nat : m = W * W
    BY NumberType, <1>2
  <2>2. Exact("subfic", Held(r[a]).all, Given(i).all, xer.ca)
          = i - Number(r[a])
    BY <1>2, HeldType, NumberType, GivenType, ImmediateType DEF Exact
  <2>3. /\ Number(r[a]) \in Int /\ 0 * m = 0 /\ 1 * m = m /\ 2 * m = m + m
        /\ i \in Int /\ Number(Extended(i)) \in {i, i + m}
        /\ Number(Flipped(r[a])) = m - 1 - Number(r[a])
    BY <1>2, HeldType, NumberType, GivenType, ImmediateType, <2>1
  <2> QED  BY ONLY <1>2, <2>1, <2>2, <2>3, Z3 DEF Bit
<1>11. ResultRight'
  <2>1. last' = [Due(d, "subfic", Held(r[a]), Given(i)) EXCEPT !.carry = xer'.ca]
    BY <1>6, <1>9, CarryStep
  <2>2. "subfic" \in Names
    BY DEF Names
  <2>3. Write(d, Sum(Extended(i), Flipped(r[a]), 1), FALSE)
    BY <1>6
  <2> QED  BY <1>1, <1>2, <1>7, <1>10, <2>1, <2>2, <2>3, RightStep
<1> HIDE DEF value, carry
<1> QED  BY <1>1, <1>2, <1>3, <1>4, <1>5, <1>6, <1>8, <1>11, BeginStep DEF Inv

LEMMA AddStep ==
  ASSUME Inv, NEW d \in GPR, NEW a \in GPR, NEW b \in GPR, NEW dot, Add(d, a, b, dot)
  PROVE  Inv'
<1> DEFINE value == Sum(r[a], r[b], 0)
<1>1. TypeOK /\ LongSum
  BY DEF Inv
<1>2. r[a] \in Register /\ r[b] \in Register /\ 0 \in Bit /\ xer.ca \in Bit
  BY <1>1, Operand DEF Bit
<1>3. value \in Register
  BY <1>2, SumType
<1>4. /\ Write(d, value, dot) /\ Aside
      /\ last' = Due(d, "add", Held(r[a]), Held(r[b]))
  BY DEF Add
<1>5. Held(r[a]) \in Operands /\ Held(r[b]) \in Operands
  BY <1>2, HeldType, GivenType
<1>6. last' \in Latest
  BY <1>2, <1>4, <1>5, LatestType DEF Names
<1>7. xer'.ca = CarryOut("add", Held(r[a]).low, Held(r[b]).low, xer.ca)
  BY <1>4 DEF Aside, CarryOut
<1>8. \E q \in {0, 1, 2} : Number(r[a]) + Number(r[b]) + 0
           = Exact("add", Held(r[a]).all, Held(r[b]).all, xer.ca) + q * (W * W)
  BY <1>2, HeldType, GivenType, NumberType DEF Exact
<1>9. ResultRight'
  <2>1. last' = [Due(d, "add", Held(r[a]), Held(r[b])) EXCEPT !.carry = xer'.ca]
    BY <1>4, <1>7, CarryStep
  <2>2. "add" \in Names
    BY DEF Names
  <2>3. Write(d, Sum(r[a], r[b], 0), dot)
    BY <1>4
  <2> QED  BY <1>1, <1>2, <1>5, <1>8, <2>1, <2>2, <2>3, RightStep
<1> HIDE DEF value
<1> QED  BY <1>1, <1>3, <1>4, <1>6, <1>9, AsideStep DEF Inv

LEMMA SubFStep ==
  ASSUME Inv, NEW d \in GPR, NEW a \in GPR, NEW b \in GPR, NEW dot, SubF(d, a, b, dot)
  PROVE  Inv'
<1> DEFINE value == Sum(r[b], Flipped(r[a]), 1)
<1>1. TypeOK /\ LongSum
  BY DEF Inv
<1>2. /\ r[a] \in Register /\ r[b] \in Register /\ Flipped(r[a]) \in Register
      /\ 1 \in Bit /\ xer.ca \in Bit
  BY <1>1, Operand DEF Bit
<1>3. value \in Register
  BY <1>2, SumType
<1>4. /\ Write(d, value, dot) /\ Aside
      /\ last' = Due(d, "subf", Held(r[a]), Held(r[b]))
  BY DEF SubF
<1>5. Held(r[a]) \in Operands /\ Held(r[b]) \in Operands
  BY <1>2, HeldType, GivenType
<1>6. last' \in Latest
  BY <1>2, <1>4, <1>5, LatestType DEF Names
<1>7. xer'.ca = CarryOut("subf", Held(r[a]).low, Held(r[b]).low, xer.ca)
  BY <1>4 DEF Aside, CarryOut
<1>8. \E q \in {0, 1, 2} : Number(r[b]) + Number(Flipped(r[a])) + 1
           = Exact("subf", Held(r[a]).all, Held(r[b]).all, xer.ca) + q * (W * W)
  BY <1>2, HeldType, GivenType, NumberType DEF Exact
<1>9. ResultRight'
  <2>1. last' = [Due(d, "subf", Held(r[a]), Held(r[b])) EXCEPT !.carry = xer'.ca]
    BY <1>4, <1>7, CarryStep
  <2>2. "subf" \in Names
    BY DEF Names
  <2>3. Write(d, Sum(r[b], Flipped(r[a]), 1), dot)
    BY <1>4
  <2> QED  BY <1>1, <1>2, <1>5, <1>8, <2>1, <2>2, <2>3, RightStep
<1> HIDE DEF value
<1> QED  BY <1>1, <1>3, <1>4, <1>6, <1>9, AsideStep DEF Inv

LEMMA NegStep ==
  ASSUME Inv, NEW d \in GPR, NEW a \in GPR, NEW dot, Neg(d, a, dot)
  PROVE  Inv'
<1> DEFINE value == Sum(Zero, Flipped(r[a]), 1)
<1>1. TypeOK /\ LongSum
  BY DEF Inv
<1>2. /\ r[a] \in Register /\ Zero \in Register /\ Flipped(r[a]) \in Register
      /\ 1 \in Bit /\ xer.ca \in Bit
  BY <1>1, Operand, ZeroType DEF Bit
<1>3. value \in Register
  BY <1>2, SumType
<1>4. /\ Write(d, value, dot) /\ Aside
      /\ last' = Due(d, "neg", Held(r[a]), Given(0))
  BY DEF Neg
<1>5. Held(r[a]) \in Operands /\ Given(0) \in Operands
  BY <1>2, HeldType, GivenType
<1>6. last' \in Latest
  BY <1>2, <1>4, <1>5, LatestType DEF Names
<1>7. xer'.ca = CarryOut("neg", Held(r[a]).low, Given(0).low, xer.ca)
  BY <1>4 DEF Aside, CarryOut
<1>8. \E q \in {0, 1, 2} : Number(Zero) + Number(Flipped(r[a])) + 1
           = Exact("neg", Held(r[a]).all, Given(0).all, xer.ca) + q * (W * W)
  <2>1. Exact("neg", Held(r[a]).all, Given(0).all, xer.ca) = -Number(r[a])
    BY <1>2, HeldType DEF Exact
  <2>2. /\ Number(Zero) = 0 /\ W * W \in Nat /\ Number(r[a]) \in Int
        /\ Number(Flipped(r[a])) = (W * W) - 1 - Number(r[a])
    BY <1>2, NumberType
  <2>3. PICK m \in Nat : m = W * W
    BY <2>2
  <2>4. 0 + (m - 1 - Number(r[a])) + 1 = -Number(r[a]) + 1 * m
    BY <2>2
  <2> QED  BY <2>1, <2>2, <2>3, <2>4
<1>9. ResultRight'
  <2>1. last' = [Due(d, "neg", Held(r[a]), Given(0)) EXCEPT !.carry = xer'.ca]
    BY <1>4, <1>7, CarryStep
  <2>2. "neg" \in Names
    BY DEF Names
  <2>3. Write(d, Sum(Zero, Flipped(r[a]), 1), dot)
    BY <1>4
  <2> QED  BY <1>1, <1>2, <1>5, <1>8, <2>1, <2>2, <2>3, RightStep
<1> HIDE DEF value
<1> QED  BY <1>1, <1>3, <1>4, <1>6, <1>9, AsideStep DEF Inv

LEMMA AddIStep ==
  ASSUME Inv, NEW d \in GPR, NEW a \in GPR, NEW i \in Imm, AddI(d, a, i)
  PROVE  Inv'
<1>1. TypeOK /\ LongSum
  BY DEF Inv
<1>2. PICK base \in {r[a], Zero} :
        /\ Write(d, Sum(base, Extended(i), 0), FALSE)
        /\ Aside
        /\ last' = Due(d, "addi", Held(base), Given(i))
  BY DEF AddI
<1>3. base \in Register /\ Extended(i) \in Register /\ 0 \in Bit /\ xer.ca \in Bit
  BY <1>1, Operand, ZeroType, ExtendedType DEF Bit
<1>4. Sum(base, Extended(i), 0) \in Register
  BY <1>3, SumType
<1>5. Held(base) \in Operands /\ Given(i) \in Operands
  BY <1>3, HeldType, GivenType, ImmediateType
<1>6. last' \in Latest
  BY <1>2, <1>3, <1>5, LatestType DEF Names
<1>7. xer'.ca = CarryOut("addi", Held(base).low, Given(i).low, xer.ca)
  BY <1>2 DEF Aside, CarryOut
<1>8. \E q \in {0, 1, 2} : Number(base) + Number(Extended(i)) + 0
           = Exact("addi", Held(base).all, Given(i).all, xer.ca) + q * (W * W)
  BY <1>3, HeldType, GivenType, NumberType, ImmediateType DEF Exact
<1>9. ResultRight'
  <2>1. last' = [Due(d, "addi", Held(base), Given(i)) EXCEPT !.carry = xer'.ca]
    BY <1>2, <1>7, CarryStep
  <2>2. "addi" \in Names
    BY DEF Names
  <2>3. Write(d, Sum(base, Extended(i), 0), FALSE)
    BY <1>2
  <2> QED  BY <1>1, <1>3, <1>5, <1>8, <2>1, <2>2, <2>3, RightStep
<1> QED  BY <1>1, <1>2, <1>4, <1>6, <1>9, AsideStep DEF Inv

(* The carry of addme is right when none comes in; when one does, the      *)
(* definition is taken to ask for the carry that is found.                 *)
LEMMA AddMEStep ==
  ASSUME Inv, NEW d \in GPR, NEW a \in GPR, NEW dot, AddME(d, a, dot)
  PROVE  Inv'
<1> DEFINE ones == Flipped(Zero)
           value == Sum(r[a], ones, xer.ca)
           carry == Truth(value.lo < r[a].lo)
           should == Due(d, "addme", Held(r[a]), Given(0))
<1>1. TypeOK /\ LongSum
  BY DEF Inv
<1>2. r[a] \in Register /\ r[a].lo \in Words /\ xer.ca \in Bit /\ ones \in Register /\ ones.lo = W - 1
  BY <1>1, Operand, ZeroType
<1>3. value \in Register /\ value.lo = Word(r[a].lo + (W - 1) + xer.ca)
  <2>1. value \in Register /\ value.lo = Word(r[a].lo + ones.lo + xer.ca)
    BY <1>2, SumType
  <2> QED  BY <1>2, <2>1
<1>4. carry \in Bit
  BY TruthType
<1>5. Write(d, value, dot) /\ xer' = [xer EXCEPT !.ca = carry] /\ xer'.ca = carry
  BY <1>1 DEF AddME, TypeOK
<1>6. Held(r[a]) \in Operands /\ Given(0) \in Operands /\ Held(r[a]).low = r[a].lo
  BY <1>2, HeldType, GivenType
<1>7. \E q \in {0, 1, 2} : Number(r[a]) + Number(ones) + xer.ca
           = Exact("addme", Held(r[a]).all, Given(0).all, xer.ca) + q * (W * W)
  BY <1>2, HeldType, GivenType, NumberType DEF Exact, Bit
<1>8. should \in Latest
  BY <1>2, <1>6, LatestType DEF Names
<1>9. ASSUME last' = [should EXCEPT !.carry = xer'.ca]
      PROVE  last' \in Latest /\ ResultRight'
  <2>1. last' \in Latest
    BY <1>4, <1>5, <1>8, <1>9 DEF Latest
  <2>2. ResultRight'
    BY <1>1, <1>2, <1>5, <1>6, <1>7, <1>9, RightStep DEF Names
  <2> QED  BY <2>1, <2>2
<1>10. CASE xer.ca = 1 /\ Abandon /\ last' = [should EXCEPT !.carry = xer'.ca]
  <2> HIDE DEF value, carry, should
  <2> QED  BY <1>1, <1>3, <1>4, <1>5, <1>9, <1>10, AbandonStep DEF Inv
<1>11. CASE xer.ca = 0 /\ Continue(d, r[a], ones) /\ last' = should
  <2>1. value.lo + W * carry = r[a].lo + ones.lo + xer.ca
    BY <1>2, <1>3, <1>11, CarryOfAddME
  <2>2. xer'.ca = CarryOut("addme", Held(r[a]).low, Given(0).low, xer.ca)
    <3>1. PICK n \in Int : n = r[a].lo + (W - 1) + 0
      BY <1>2, WordSize DEF Words
    <3>2. value.lo \in Words /\ value.lo + W * carry = n
      BY <1>2, <1>3, <1>11, <2>1, <3>1 DEF Register
    <3> HIDE DEF value, carry
    <3>3. carry = Truth(n >= W)
      BY <1>4, <3>2, CarryFound
    <3> QED  BY <1>2, <1>5, <1>6, <1>11, <3>1, <3>3, WordSize DEF CarryOut, Exact, Truth, Words
  <2>3. last' = [should EXCEPT !.carry = xer'.ca]
    BY <1>11, <2>2, CarryStep
  <2> HIDE DEF value, carry, should
  <2> QED  BY <1>1, <1>2, <1>3, <1>4, <1>5, <1>9, <1>11, <2>1, <2>3, ContinueStep DEF Inv
<1> QED  BY <1>10, <1>11 DEF AddME

LEMMA StepInv == Inv /\ [Next]_vars => Inv'
<1> SUFFICES ASSUME Inv, [Next]_vars PROVE Inv'
  OBVIOUS
<1>1. CASE UNCHANGED vars
  BY <1>1 DEF Inv, TypeOK, LongSum, ResultRight, vars
<1>2. CASE Next
  <2>1. PICK d \in GPR, a \in GPR :
          \/ \E dot \in Record :
               \/ \E b \in GPR : \/ Add(d, a, b, dot)
                                 \/ AddC(d, a, b, dot)
                                 \/ AddE(d, a, b, dot)
                                 \/ SubF(d, a, b, dot)
                                 \/ SubFC(d, a, b, dot)
                                 \/ SubFE(d, a, b, dot)
               \/ AddZE(d, a, dot)
               \/ AddME(d, a, dot)
               \/ SubFZE(d, a, dot)
               \/ Neg(d, a, dot)
               \/ \E i \in Imm : AddIC(d, a, i, dot)
          \/ \E i \in Imm : AddI(d, a, i) \/ SubFIC(d, a, i)
    BY <1>2, Zenon DEF Next
  <2>2. ASSUME NEW dot \in Record, NEW b \in GPR,
               \/ Add(d, a, b, dot) \/ AddC(d, a, b, dot) \/ AddE(d, a, b, dot)
               \/ SubF(d, a, b, dot) \/ SubFC(d, a, b, dot) \/ SubFE(d, a, b, dot)
        PROVE  Inv'
    BY <2>2, AddStep, AddCStep, AddEStep, SubFStep, SubFCStep, SubFEStep
  <2>3. ASSUME NEW dot \in Record,
               AddZE(d, a, dot) \/ AddME(d, a, dot) \/ SubFZE(d, a, dot) \/ Neg(d, a, dot)
        PROVE  Inv'
    BY <2>3, AddZEStep, AddMEStep, SubFZEStep, NegStep
  <2>4. ASSUME NEW dot \in Record, NEW i \in Imm, AddIC(d, a, i, dot)
        PROVE  Inv'
    BY <2>4, AddICStep
  <2>5. ASSUME NEW i \in Imm, AddI(d, a, i) \/ SubFIC(d, a, i)
        PROVE  Inv'
    BY <2>5, AddIStep, SubFICStep
  <2> QED  BY <2>1, <2>2, <2>3, <2>4, <2>5
<1> QED  BY <1>1, <1>2

(* Registers, flags and ghost variables keep their types for words of      *)
(* every width: what recompiler.cpp prints never leaves a carry other than *)
(* 0 or 1 in xer.ca.                                                       *)
THEOREM CarryTypes == Spec => []TypeOK
<1>1. Inv => TypeOK
  BY DEF Inv
<1> QED  BY <1>1, InitInv, StepInv, PTL DEF Spec

(* Chains of any length compute integers of any number of words: the       *)
(* comparisons printed for addc, adde, addic, addze, subfc, subfe, subfze  *)
(* and subfic (and addme when no carry comes in) find the carry whatever   *)
(* the width of a word.                                                    *)
THEOREM CarriesAdd == Spec => []LongSum
<1>1. Inv => LongSum
  BY DEF Inv
<1> QED  BY <1>1, InitInv, StepInv, PTL DEF Spec

(* Each instruction leaves the result and the carry of its PowerPC         *)
(* definition, for words of every width and programs of every length: an   *)
(* addition that is printed for a subtraction, a carry lost between two    *)
(* words, or an operand read after the result replaced it, would show.     *)
THEOREM ResultsRight == Spec => []ResultRight
<1>1. Inv => ResultRight
  BY DEF Inv
<1> QED  BY <1>1, InitInv, StepInv, PTL DEF Spec

-----------------------------------------------------------------------------
(* Loads, stores and vectors: what a program holds.                        *)

LEMMA VectorSize == Vector \in {16} /\ Vector \in Nat /\ Size \in Nat /\ Size > 0 /\ Size % Vector = 0
BY AccessAssumption

(* What is known of an access, and of an instruction on vectors.           *)
IsAccess(i) ==
  /\ i.op \in DOMAIN Forms /\ i.form \in Forms[i.op] /\ i.based \in BOOLEAN /\ i.v \in VR
  /\ i.at \in (IF i.form \in {"D", "DU"} THEN -Size .. Size - 1 ELSE Address)
  /\ Updates(i) => i.based

IsVectorOp(i) ==
  /\ i.op \in VectorOps /\ i.form = "V" /\ {i.d, i.a, i.b, i.c} \subseteq VR
  /\ i.imm \in Immediates(i.op)

LEMMA Programmed ==
  ASSUME NEW p \in Programs, NEW t \in Thread
  PROVE  /\ Len(p[t]) \in Nat
         /\ \A k \in 1 .. Len(p[t]) : IsAccess(p[t][k]) \/ IsVectorOp(p[t][k])
<1> DEFINE S == Instruction(-Size .. Size - 1, Address, VR) \cup VectorInstruction
<1>1. p[t] \in Seq(S)
  BY ProgramAssumption
<1>2. ASSUME NEW k \in 1 .. Len(p[t]) PROVE p[t][k] \in S
  <2> HIDE DEF S
  <2> QED  BY <1>1
<1>3. Len(p[t]) \in Nat
  <2> HIDE DEF S
  <2> QED  BY <1>1
<1>4. ASSUME NEW i \in Instruction(-Size .. Size - 1, Address, VR) PROVE IsAccess(i)
  BY DEF Instruction, IsAccess
<1>5. ASSUME NEW i \in VectorInstruction PROVE IsVectorOp(i)
  BY DEF VectorInstruction, IsVectorOp
<1> QED  BY <1>2, <1>3, <1>4, <1>5

(* The ops of each kind of access; only some of them have other forms than *)
(* X.                                                                      *)
LEMMA OnlyX ==
  \A op \in VectorLoad \cup VectorStore \cup VectorControl \cup Reserve \cup Conditional :
     op \in DOMAIN Forms => Forms[op] = {"X"}
BY DEF Forms, VectorLoad, VectorStore, VectorControl, Reserve, Conditional

LEMMA FormsAre == \A op \in DOMAIN Forms : Forms[op] \subseteq {"D", "DU", "X", "XU"}
BY DEF Forms

LEMMA WidthIs ==
  /\ IntegerLoad \cup FloatLoad \cup IntegerStore \cup FloatStore \cup Reserve \cup Conditional
       = DOMAIN Width
  /\ \A op \in DOMAIN Width : Width[op] \in {1, 2, 4, 8}
BY DEF Width, IntegerLoad, FloatLoad, IntegerStore, FloatStore, Reserve, Conditional

LEMMA Disjoint ==
  /\ VectorOps \cap (DOMAIN Forms) = {}
  /\ DOMAIN Width \cap (VectorLoad \cup VectorStore \cup VectorControl \cup {"li"}) = {}
BY DEF VectorOps, Forms, Width, VectorLoad, VectorStore, VectorControl, Merge, Splat, SplatImmediate, Pack, Unpack

-----------------------------------------------------------------------------
(* Addresses.                                                              *)

LEMMA WrappedType == ASSUME NEW n \in Int PROVE Wrapped(n) \in Address
BY VectorSize DEF Wrapped, Address

LEMMA WrappedAddress == ASSUME NEW n \in Address PROVE n % Size = n
BY VectorSize DEF Address

AccessesWithin(t, i) ==
  i.op \in DOMAIN Width \cup VectorLoad \cup VectorStore \cup VectorControl \/ Updates(i)

LEMMA AddressType ==
  ASSUME NEW t \in Thread, NEW i, IsAccess(i), ra[t] \in Address, Inside(t, i),
         AccessesWithin(t, i)
  PROVE  /\ EA(t, i) \in Address
         /\ EA(t, i) = Power!EA(t, i)
         /\ i.op \in DOMAIN Width => EA(t, i) + Width[i.op] <= Size
<1>1. i.at \in Int /\ ra[t] \in Int /\ PlainSum(t, i) \in Int
  BY VectorSize DEF IsAccess, Address, PlainSum
<1>2. Power!EA(t, i) = Wrapped(PlainSum(t, i))
  BY DEF Power!EA, Wrapped, PlainSum
<1>3. i.op \in DOMAIN Width => Width[i.op] \in Nat /\ Width[i.op] > 0
  BY WidthIs
<1>4. CASE i.op \in Reserve \cup Conditional \/ (i.form = "D" /\ ~i.based)
  <2>1. EA(t, i) = PlainSum(t, i)
    BY <1>4 DEF EA
  <2>2. i.op \in DOMAIN Width
    <3>1. CASE i.op \in Reserve \cup Conditional
      BY <3>1, WidthIs
    <3>2. CASE i.form = "D" /\ ~i.based
      <4>1. ~Updates(i) /\ i.op \notin VectorLoad \cup VectorStore \cup VectorControl
        BY <3>2, OnlyX DEF Updates, IsAccess
      <4> QED  BY <4>1 DEF AccessesWithin
    <3> QED  BY <1>4, <3>1, <3>2
  <2>3. EA(t, i) >= 0 /\ EA(t, i) + Width[i.op] <= Size
    BY <2>2 DEF Inside
  <2>4. EA(t, i) \in Address
    BY <1>1, <1>3, <2>1, <2>2, <2>3, VectorSize DEF Address
  <2> QED  BY <1>2, <2>1, <2>3, <2>4, WrappedAddress DEF Wrapped
<1>5. CASE ~(i.op \in Reserve \cup Conditional \/ (i.form = "D" /\ ~i.based))
  <2>1. EA(t, i) = Wrapped(PlainSum(t, i))
    BY <1>5 DEF EA
  <2> QED  BY <1>1, <1>2, <2>1, WrappedType DEF Inside
<1> QED  BY <1>4, <1>5

LEMMA NoUpdate == ASSUME NEW i, IsVectorOp(i) PROVE ~Updates(i)
BY DEF IsVectorOp, Updates

-----------------------------------------------------------------------------
(* Types.                                                                  *)

(* Eight bytes, and vectors.                                               *)
IsRegister(x) == x = [k \in 1 .. 8 |-> x[k]]

LEMMA RegisterIs ==
  ASSUME NEW x, IsRegister(x)
  PROVE  DOMAIN x = 1 .. 8 /\ Len(x) = 8 /\ x \in Seq({x[k] : k \in 1 .. 8})
BY DEF IsRegister

LEMMA SequenceIs ==
  ASSUME NEW S, NEW s \in Seq(S)
  PROVE  s = [k \in 1 .. Len(s) |-> s[k]]
BY LenProperties

LEMMA SubSeqIs ==
  ASSUME NEW s, NEW m \in Int, NEW n \in Int, m <= n + 1
  PROVE  SubSeq(s, m, n) = [k \in 1 .. n - m + 1 |-> s[m + k - 1]]
<1> DEFINE S == {s[k] : k \in m .. n}
<1>1. \A k \in m .. n : s[k] \in S
  OBVIOUS
<1> HIDE DEF S
<1>2. /\ SubSeq(s, m, n) \in Seq(S)
      /\ Len(SubSeq(s, m, n)) = n - m + 1
      /\ \A k \in 1 .. n - m + 1 : SubSeq(s, m, n)[k] = s[m + k - 1]
  BY <1>1, SubSeqProperties
<1> QED  BY <1>2, SequenceIs

LEMMA LowIs ==
  ASSUME NEW x, NEW n \in {1, 2, 4, 8}
  PROVE  Low(x, n) = [k \in 1 .. n |-> x[8 - n + k]]
<1>1. Low(x, n) = [k \in 1 .. 8 - (9 - n) + 1 |-> x[(9 - n) + k - 1]]
  BY SubSeqIs DEF Low
<1> QED  BY <1>1

LEMMA FunctionIs ==
  ASSUME NEW f, NEW n \in Nat, f = [k \in 1 .. n |-> f[k]]
  PROVE  /\ f \in Seq({f[k] : k \in 1 .. n})
         /\ Len(f) = n
<1>1. f \in [1 .. n -> {f[k] : k \in 1 .. n}]
  OBVIOUS
<1>2. f \in Seq({f[k] : k \in 1 .. n})
  BY <1>1, SeqDef
<1> QED  BY <1>1, <1>2, LenProperties

LEMMA Concatenation ==
  ASSUME NEW f, NEW g, NEW m \in Nat, NEW n \in Nat,
         f = [k \in 1 .. m |-> f[k]], g = [k \in 1 .. n |-> g[k]]
  PROVE  f \o g = [k \in 1 .. m + n |-> IF k <= m THEN f[k] ELSE g[k - m]]
<1> DEFINE S == {f[k] : k \in 1 .. m} \cup {g[k] : k \in 1 .. n}
<1>1. f \in Seq(S) /\ g \in Seq(S) /\ Len(f) = m /\ Len(g) = n
  <2> DEFINE F == {f[k] : k \in 1 .. m}  G == {g[k] : k \in 1 .. n}
  <2>1. F \subseteq S /\ G \subseteq S
    OBVIOUS
  <2>2. f \in Seq(F) /\ g \in Seq(G) /\ Len(f) = m /\ Len(g) = n
    BY FunctionIs
  <2> HIDE DEF F, G, S
  <2> QED  BY <2>1, <2>2, SeqMonotonic
<1> HIDE DEF S
<1>2. /\ f \o g \in Seq(S) /\ Len(f \o g) = m + n
      /\ \A k \in 1 .. m + n : (f \o g)[k] = IF k <= m THEN f[k] ELSE g[k - m]
  BY <1>1, ConcatProperties, ZenonT(60)
<1>3. f \o g = [k \in 1 .. m + n |-> (f \o g)[k]]
  BY <1>2, SequenceIs
<1> QED  BY <1>2, <1>3

LEMMA ExtendType ==
  ASSUME NEW n \in {1, 2, 4, 8}, NEW s, s = [k \in 1 .. n |-> s[k]]
  PROVE  IsRegister(ZeroExtend(s)) /\ IsRegister(SignExtend(s))
<1>1. Len(s) = n
  BY FunctionIs
<1>2. ASSUME NEW b PROVE IsRegister(Fill(b, 8 - n) \o s)
  <2> DEFINE m == 8 - n  f == Fill(b, m)
  <2>1. f = [k \in 1 .. m |-> f[k]] /\ m \in Nat /\ m + n = 8
    BY DEF Fill
  <2> HIDE DEF m, f
  <2>2. f \o s = [k \in 1 .. m + n |-> IF k <= m THEN f[k] ELSE s[k - m]]
    BY <2>1, Concatenation, SMTT(40)
  <2>3. IsRegister(f \o s)
    BY <2>1, <2>2 DEF IsRegister
  <2> QED  BY <2>3 DEF f, m
<1> QED  BY <1>1, <1>2 DEF ZeroExtend, SignExtend

-----------------------------------------------------------------------------
(* What an instruction on vectors leaves is vectors.                       *)

IsVectors(regs) == DOMAIN regs = VR /\ \A n \in VR : DOMAIN regs[n] = Lane

LEMMA OpsAre ==
  /\ DOMAIN Merge = {"vmrghb", "vmrghh", "vmrghw", "vmrglb", "vmrglh", "vmrglw"}
  /\ DOMAIN Splat = {"vspltb", "vsplth", "vspltw"}
  /\ DOMAIN SplatImmediate = {"vspltisb", "vspltish", "vspltisw"}
  /\ DOMAIN Pack = {"vpkshus", "vpkshss", "vpkuhus", "vpkuwum", "vpkswss", "vpkswus"}
  /\ DOMAIN Unpack = {"vupkhsb", "vupkhsh", "vupklsb", "vupklsh"}
BY DEF Merge, Splat, SplatImmediate, Pack, Unpack

LEMMA IntrinsicType ==
  ASSUME NEW regs, IsVectors(regs), NEW i, IsVectorOp(i), i.op \notin Loops
  PROVE  DOMAIN Intrinsic(regs, i) = Lane
<1> USE DEF IsVectors, IsVectorOp, Intrinsic
<1>1. CASE i.op = "vor"
  BY <1>1, OpsAre
<1>2. CASE i.op = "vxor"
  BY <1>2, OpsAre
<1>3. CASE i.op = "vperm"
  BY <1>3, OpsAre DEF perm8
<1>4. CASE i.op = "vsldoi"
  BY <1>4, OpsAre DEF alignr
<1>5. CASE i.op \in {"vmrghb", "vmrghh", "vmrghw"}
  BY <1>5, OpsAre DEF unpackhi, FromElements
<1>6. CASE i.op \in {"vmrglb", "vmrglh", "vmrglw"}
  BY <1>6, OpsAre DEF unpacklo, FromElements
<1>7. CASE i.op \in DOMAIN Splat
  BY <1>7, OpsAre DEF Splatted, FromElements
<1>8. CASE i.op \in DOMAIN SplatImmediate
  BY <1>8, OpsAre DEF FromElements
<1>9. CASE i.op = "vpermwi"
  BY <1>9, OpsAre DEF shuffle32, FromElements
<1>10. CASE i.op = "vrlimi"
  BY <1>10, OpsAre DEF blend, FromElements
<1>11. CASE i.op = "vpkshus"
  BY <1>11, OpsAre DEF packus, FromElements
<1>12. CASE i.op \in {"vupkhsb", "vupkhsh"}
  BY <1>12, OpsAre DEF convert, FromElements
<1>13. CASE i.op \in {"vupklsb", "vupklsh"}
  BY <1>13, OpsAre DEF convert, FromElements
<1> QED
  BY <1>1, <1>2, <1>3, <1>4, <1>5, <1>6, <1>7, <1>8, <1>9, <1>10, <1>11, <1>12, <1>13, OpsAre
     DEF VectorOps, Loops

LEMMA LeastNatural ==
  ASSUME NEW T, T \subseteq Nat, T # {}
  PROVE  \E x \in T : \A y \in T : x <= y
<1> DEFINE R == OpToRel(<, Nat)
<1>1. IsWellFoundedOn(R, Nat)
  BY NatLessThanWellFounded, Zenon
<1>2. \A x, y \in Nat : x < y => <<x, y>> \in R
  BY Zenon DEF OpToRel
<1> HIDE DEF R
<1>3. PICK x \in T : \A y \in T : ~ (<<y, x>> \in R)
  BY <1>1, WFMin
<1>4. \A y \in T : ~ (y < x)
  BY <1>2, <1>3, Zenon
<1>5. \A y \in T : x <= y
  BY <1>4
<1> QED
  BY <1>5

(* The registers after each turn of a pack's loops.                        *)
Turns(after, regs, i, stop) ==
  after = [k \in 0 .. stop |-> IF k = 0 THEN regs ELSE PackElement(after[k - 1], i, k)]

LEMMA TurnsExist ==
  ASSUME NEW regs, NEW i, NEW stop \in Nat
  PROVE  \E after : Turns(after, regs, i, stop)
<1> DEFINE Missing == {m \in Nat : ~ \E after : Turns(after, regs, i, m)}
<1>1. SUFFICES ASSUME Missing # {} PROVE FALSE
  OBVIOUS
<1>2. PICK m \in Missing : \A x \in Missing : m <= x
  <2> Missing \subseteq Nat
    OBVIOUS
  <2> HIDE DEF Missing
  <2> QED  BY <1>1, LeastNatural
<1>3. m # 0
  <2> DEFINE f == [k \in 0 .. 0 |-> regs]
  <2>1. f = [k \in 0 .. 0 |-> IF k = 0 THEN regs ELSE PackElement(f[k - 1], i, k)]
    OBVIOUS
  <2>2. Turns(f, regs, i, 0)
    BY <2>1 DEF Turns
  <2> QED  BY <2>2
<1>4. m \in Nat /\ m - 1 \in Nat /\ m - 1 \notin Missing
  BY <1>2, <1>3
<1>5. PICK g : Turns(g, regs, i, m - 1)
  BY <1>4
<1> DEFINE f == [k \in 0 .. m |-> IF k = m THEN PackElement(g[m - 1], i, m) ELSE g[k]]
<1>6. f = [k \in 0 .. m |-> IF k = 0 THEN regs ELSE PackElement(f[k - 1], i, k)]
  <2>1. ASSUME NEW k \in 0 .. m
        PROVE  f[k] = IF k = 0 THEN regs ELSE PackElement(f[k - 1], i, k)
    <3>1. CASE k = m
      BY <1>3, <1>4, <3>1
    <3>2. CASE k # m
      <4>1. k \in 0 .. m - 1 /\ f[k] = g[k] /\ (k # 0 => f[k - 1] = g[k - 1])
        BY <1>4, <3>2
      <4>2. g[k] = IF k = 0 THEN regs ELSE PackElement(g[k - 1], i, k)
        BY <1>5, <4>1 DEF Turns
      <4> HIDE DEF f
      <4> QED  BY <4>1, <4>2
    <3> QED  BY <3>1, <3>2
  <2> QED  BY <2>1
<1>7. Turns(f, regs, i, m)
  <2> HIDE DEF f
  <2> QED  BY <1>6 DEF Turns
<1> QED  BY <1>2, <1>7

LEMMA PackedIs ==
  ASSUME NEW regs, NEW i, NEW stop \in Nat, stop = 2 * (Vector \div Pack[i.op])
  PROVE  \E after : Turns(after, regs, i, stop) /\ Packed(regs, i) = after[stop]
<1> DEFINE after == CHOOSE after :
             after = [k \in 0 .. stop |-> IF k = 0 THEN regs ELSE PackElement(after[k - 1], i, k)]
<1>1. Packed(regs, i) = after[stop]
  BY DEF Packed
<1>2. Turns(after, regs, i, stop)
  BY TurnsExist DEF Turns
<1> QED  BY <1>1, <1>2

LEMMA LastTurn ==
  ASSUME NEW op \in DOMAIN Pack
  PROVE  /\ Vector \div Pack[op] \in {2, 4, 8} /\ Pack[op] \in {2, 4}
         /\ Pack[op] * (Vector \div Pack[op]) = Vector
<1>1. Pack[op] \in {2, 4}
  BY DEF Pack
<1>2. CASE Pack[op] = 2
  BY <1>2, VectorSize
<1>3. CASE Pack[op] = 4
  BY <1>3, VectorSize
<1> QED  BY <1>1, <1>2, <1>3

LEMMA PackedType ==
  ASSUME NEW regs, IsVectors(regs), NEW i, IsVectorOp(i), i.op \in Loops
  PROVE  IsVectors(Packed(regs, i))
<1> DEFINE stop == 2 * (Vector \div Pack[i.op])
<1>1. stop \in Nat
  BY LastTurn DEF Loops
<1> HIDE DEF stop
<1>2. PICK after : Turns(after, regs, i, stop) /\ Packed(regs, i) = after[stop]
  BY <1>1, PackedIs DEF stop
<1> DEFINE Wrong == {k \in 0 .. stop : ~IsVectors(after[k])}
<1>3. SUFFICES ASSUME Wrong # {} PROVE FALSE
  BY <1>1, <1>2
<1>4. PICK k \in Wrong : \A x \in Wrong : k <= x
  <2> Wrong \subseteq Nat
    BY <1>1
  <2> HIDE DEF Wrong
  <2> QED  BY <1>3, LeastNatural
<1>5. after[k] = IF k = 0 THEN regs ELSE PackElement(after[k - 1], i, k)
  BY <1>2, <1>4 DEF Turns
<1>6. k # 0 /\ k - 1 \in 0 .. stop /\ IsVectors(after[k - 1])
  BY <1>1, <1>4, <1>5
<1>7. IsVectors(PackElement(after[k - 1], i, k))
  BY <1>6 DEF PackElement, IsVectors, WithElement
<1> QED  BY <1>4, <1>5, <1>6, <1>7

LEMMA PermutedType ==
  ASSUME NEW regs, IsVectors(regs), NEW i, IsVectorOp(i)
  PROVE  IsVectors(Permuted(regs, i))
<1>1. CASE i.op \in Loops
  BY <1>1, PackedType DEF Permuted
<1>2. CASE i.op \notin Loops
  BY <1>2, IntrinsicType DEF Permuted, IsVectors
<1> QED  BY <1>1, <1>2

-----------------------------------------------------------------------------
(* An invariant for the types, and for what the ghosts have recorded.      *)

Registers ==
  /\ DOMAIN gpr = Thread /\ DOMAIN fpr = Thread /\ DOMAIN reserved = Thread
  /\ \A t \in Thread : IsRegister(gpr[t]) /\ IsRegister(fpr[t]) /\ IsRegister(reserved[t])

Vectors == DOMAIN vr = Thread /\ \A t \in Thread : IsVectors(vr[t])

Positions ==
  /\ program \in Programs
  /\ DOMAIN pc = Thread /\ \A t \in Thread : pc[t] \in 1 .. Len(program[t]) + 1

TypeInv ==
  /\ Positions /\ Registers /\ Vectors
  /\ ra \in [Thread -> Address] /\ eq \in [Thread -> BOOLEAN]
  /\ resv \in [Thread -> SUBSET Address]
  /\ DOMAIN mem = Address

LEMMA TypeInit == AccessInit => TypeInv
<1> SUFFICES ASSUME AccessInit PROVE TypeInv
  OBVIOUS
<1> USE DEF AccessInit
<1>1. Positions
  <2>1. \A t \in Thread : Len(program[t]) \in Nat
    BY Programmed
  <2> QED  BY <2>1 DEF Positions
<1>2. Registers
  BY DEF Registers, IsRegister, Fill
<1>3. Vectors
  BY DEF Vectors, IsVectors
<1>4. ra \in [Thread -> Address]
  BY AccessAssumption DEF Address
<1> QED  BY <1>1, <1>2, <1>3, <1>4 DEF TypeInv

LEMMA CurrentIs ==
  ASSUME Positions, NEW t \in Thread, pc[t] <= Len(program[t])
  PROVE  IsAccess(Current(t)) \/ IsVectorOp(Current(t))
<1>1. pc[t] \in 1 .. Len(program[t])
  BY Programmed DEF Positions
<1> QED  BY <1>1, Programmed DEF Current, Positions

LEMMA AdvanceTypes ==
  ASSUME TypeInv, NEW t \in Thread, NEW i, IsAccess(i) \/ IsVectorOp(i),
         pc[t] <= Len(program[t]), Inside(t, i), Advance(t, i)
  PROVE  Positions' /\ ra' \in [Thread -> Address]
<1>1. Positions'
  <2>1. Len(program[t]) \in Nat
    BY Programmed DEF TypeInv, Positions
  <2> QED  BY <2>1 DEF Advance, TypeInv, Positions
<1>2. Updates(i) => EA(t, i) \in Address
  <2>1. Updates(i) => IsAccess(i) /\ AccessesWithin(t, i)
    BY NoUpdate DEF AccessesWithin
  <2>2. ra[t] \in Address
    BY DEF TypeInv
  <2> QED  BY <2>1, <2>2, AddressType
<1> QED  BY <1>1, <1>2 DEF Advance, TypeInv

(* Everything but where the thread is.                                     *)
DataTypes ==
  /\ Registers /\ Vectors
  /\ eq \in [Thread -> BOOLEAN] /\ resv \in [Thread -> SUBSET Address]
  /\ DOMAIN mem = Address

LEMMA ReadIs ==
  ASSUME NEW a \in Int, NEW n \in Nat
  PROVE  /\ HostRead(a, n) = [k \in 1 .. n |-> mem[a + n - k]]
         /\ Turn(HostRead(a, n)) = [k \in 1 .. n |-> mem[a + k - 1]]
         /\ Len(HostRead(a, n)) = n
<1> DEFINE s == HostRead(a, n)
<1>1. s = [k \in 1 .. n |-> mem[a + n - k]]
  BY DEF HostRead
<1>2. Len(s) = n
  <2>1. s = [k \in 1 .. n |-> s[k]]
    BY <1>1
  <2> HIDE DEF s
  <2> QED  BY <2>1, FunctionIs
<1> HIDE DEF s
<1>3. Turn(s) = [k \in 1 .. n |-> s[n + 1 - k]]
  BY <1>1, <1>2 DEF Turn
<1>4. \A k \in 1 .. n : s[n + 1 - k] = mem[a + k - 1]
  BY <1>1
<1> QED  BY <1>1, <1>2, <1>3, <1>4 DEF s

LEMMA TurnIs ==
  ASSUME NEW n \in Nat, NEW s, s = [k \in 1 .. n |-> s[k]]
  PROVE  /\ Turn(s) = [k \in 1 .. n |-> s[n + 1 - k]]
         /\ Len(s) = n /\ Len(Turn(s)) = n
<1>1. Len(s) = n
  BY FunctionIs
<1>2. Turn(s) = [k \in 1 .. n |-> s[n + 1 - k]]
  BY <1>1 DEF Turn
<1>3. Turn(s) = [k \in 1 .. n |-> Turn(s)[k]]
  BY <1>2
<1> QED  BY <1>1, <1>2, <1>3, FunctionIs

LEMMA LoadTypes ==
  ASSUME TypeInv, NEW t \in Thread, NEW i, IsAccess(i), Inside(t, i),
         LoadImmediate(t, i) \/ LoadInteger(t, i) \/ LoadFloat(t, i) \/ LoadReserved(t, i)
  PROVE  DataTypes'
<1>1. (i.op \in DOMAIN Width) =>
        /\ EA(t, i) \in Int /\ EA(t, i) + Width[i.op] <= Size /\ EA(t, i) >= 0
        /\ Width[i.op] \in {1, 2, 4, 8}
  <2>1. ra[t] \in Address
    BY DEF TypeInv
  <2> QED  BY <2>1, AddressType, WidthIs DEF AccessesWithin, Address
<1>2. (i.op \in DOMAIN Width) =>
        LET s == PPC_LOAD(EA(t, i), Width[i.op])
        IN  /\ s = [k \in 1 .. Width[i.op] |-> s[k]]
            /\ Turn(s) = [k \in 1 .. Width[i.op] |-> Turn(s)[k]]
            /\ HostRead(EA(t, i), Width[i.op]) = [k \in 1 .. Width[i.op] |-> HostRead(EA(t, i), Width[i.op])[k]]
            /\ Len(HostRead(EA(t, i), Width[i.op])) = Width[i.op]
  <2> SUFFICES ASSUME i.op \in DOMAIN Width
               PROVE  LET s == PPC_LOAD(EA(t, i), Width[i.op])
                      IN  /\ s = [k \in 1 .. Width[i.op] |-> s[k]]
                          /\ Turn(s) = [k \in 1 .. Width[i.op] |-> Turn(s)[k]]
                          /\ HostRead(EA(t, i), Width[i.op]) = [k \in 1 .. Width[i.op] |-> HostRead(EA(t, i), Width[i.op])[k]]
                          /\ Len(HostRead(EA(t, i), Width[i.op])) = Width[i.op]
    OBVIOUS
  <2> DEFINE n == Width[i.op]  raw == HostRead(EA(t, i), n)  s == PPC_LOAD(EA(t, i), n)
  <2>1. n \in Nat /\ EA(t, i) \in Int
    BY <1>1
  <2>2. raw = [k \in 1 .. n |-> raw[k]] /\ Len(raw) = n /\ s = [k \in 1 .. n |-> s[k]]
    <3> HIDE DEF n
    <3> QED  BY <2>1, ReadIs DEF PPC_LOAD
  <2>3. Turn(s) = [k \in 1 .. n |-> Turn(s)[k]]
    <3>1. n \in Nat /\ s = [k \in 1 .. n |-> s[k]]
      BY <2>1, <2>2
    <3> HIDE DEF n, s
    <3>2. Turn(s) = [k \in 1 .. n |-> s[n + 1 - k]]
      BY <3>1, TurnIs
    <3> QED  BY <3>2
  <2> QED  BY <2>2, <2>3
<1>3. DOMAIN gpr = Thread /\ DOMAIN fpr = Thread /\ DOMAIN reserved = Thread
  BY DEF TypeInv, Registers
<1>4. CASE LoadImmediate(t, i)
  BY <1>4 DEF LoadImmediate, Immediate, DataTypes, TypeInv, Registers, Vectors, IsRegister
<1>5. CASE LoadInteger(t, i)
  <2> DEFINE s == PPC_LOAD(EA(t, i), Width[i.op])
  <2>1. i.op \in DOMAIN Width
    BY <1>5, WidthIs DEF LoadInteger
  <2>2. Width[i.op] \in {1, 2, 4, 8} /\ s = [k \in 1 .. Width[i.op] |-> s[k]]
        /\ Turn(s) = [k \in 1 .. Width[i.op] |-> Turn(s)[k]]
    BY <1>1, <1>2, <2>1
  <2> HIDE DEF s
  <2>3. IsRegister(ZeroExtend(s)) /\ IsRegister(SignExtend(s)) /\ IsRegister(ZeroExtend(Turn(s)))
    BY <2>2, ExtendType
  <2>4. PICK x : IsRegister(x) /\ gpr' = [gpr EXCEPT ![t] = x]
    BY <1>5, <2>3 DEF LoadInteger, s
  <2> QED  BY <1>5, <2>4 DEF LoadInteger, DataTypes, TypeInv, Registers, Vectors
<1>6. CASE LoadFloat(t, i)
  <2> DEFINE s == PPC_LOAD(EA(t, i), Width[i.op])
  <2>1. i.op \in DOMAIN Width /\ (i.op # "lfs" => Width[i.op] = 8)
    BY <1>6, WidthIs DEF LoadFloat, FloatLoad, Width
  <2>2. i.op # "lfs" => s = [k \in 1 .. 8 |-> s[k]]
    BY <1>2, <2>1
  <2> HIDE DEF s
  <2>3. IsRegister(Widened(s)) /\ (i.op # "lfs" => IsRegister(s))
    BY <2>2 DEF IsRegister, Widened
  <2>4. PICK x : IsRegister(x) /\ fpr' = [fpr EXCEPT ![t] = x]
    BY <1>6, <2>3 DEF LoadFloat, s
  <2> QED  BY <1>6, <2>4 DEF LoadFloat, DataTypes, TypeInv, Registers, Vectors
<1>7. CASE LoadReserved(t, i)
  <2> DEFINE n == Width[i.op]  raw == HostRead(EA(t, i), n)
  <2>1. i.op \in DOMAIN Width
    BY <1>7, WidthIs DEF LoadReserved
  <2>2. /\ n \in {1, 2, 4, 8} /\ raw = [k \in 1 .. n |-> raw[k]] /\ Len(raw) = n
        /\ Turn(raw) = [k \in 1 .. n |-> Turn(raw)[k]]
    <3>1. Turn(raw) = PPC_LOAD(EA(t, i), n)
      BY DEF PPC_LOAD
    <3>2. Turn(raw) = [k \in 1 .. n |-> Turn(raw)[k]]
      BY <1>2, <2>1, <3>1
    <3> QED  BY <1>1, <1>2, <2>1, <3>2
  <2>3. Reach(EA(t, i), n) \subseteq Address
    <3> DEFINE a == EA(t, i)
    <3>1. a \in Int /\ a >= 0 /\ n \in Int /\ a + n <= Size /\ Size \in Int
      BY <1>1, <2>1, VectorSize
    <3> HIDE DEF a, n
    <3>2. a .. a + n - 1 \subseteq 0 .. Size - 1
      BY <3>1
    <3> QED  BY <3>2 DEF Reach, Address, a
  <2>4. /\ reserved' = [reserved EXCEPT ![t] = SubSeq(@, 1, 8 - Len(raw)) \o raw]
        /\ gpr' = [gpr EXCEPT ![t] = ZeroExtend(Turn(raw))]
        /\ resv' = [resv EXCEPT ![t] = Reach(EA(t, i), n)]
        /\ UNCHANGED <<mem, fpr, vr, eq>>
    BY <1>7 DEF LoadReserved
  <2> DEFINE top == SubSeq(reserved[t], 1, 8 - n)  turned == Turn(raw)
  <2>5. top = [k \in 1 .. 8 - n |-> top[k]] /\ 8 - n \in Nat
    <3> HIDE DEF n
    <3>1. SubSeq(reserved[t], 1, 8 - n) = [k \in 1 .. (8 - n) - 1 + 1 |-> reserved[t][1 + k - 1]]
      BY <2>2, SubSeqIs
    <3> QED  BY <2>2, <3>1
  <2> HIDE DEF top, raw, n, turned
  <2>6. top \o raw = [k \in 1 .. (8 - n) + n |-> IF k <= 8 - n THEN top[k] ELSE raw[k - (8 - n)]]
    <3> DEFINE m == 8 - n
    <3>1. m \in Nat /\ n \in Nat /\ top = [k \in 1 .. m |-> top[k]]
      BY <2>2, <2>5
    <3> HIDE DEF m
    <3>2. top \o raw = [k \in 1 .. m + n |-> IF k <= m THEN top[k] ELSE raw[k - m]]
      BY <2>2, <3>1, Concatenation
    <3> QED  BY <3>2 DEF m
  <2>7. IsRegister(top \o raw)
    <3>1. (8 - n) + n = 8
      BY <2>2
    <3> QED  BY <2>6, <3>1 DEF IsRegister
  <2>8. IsRegister(ZeroExtend(turned))
    BY <2>2, ExtendType DEF turned
  <2>9. reserved' = [reserved EXCEPT ![t] = top \o raw]
    BY <2>2, <2>4 DEF top
  <2>10. Registers'
    BY <1>3, <2>4, <2>7, <2>8, <2>9 DEF Registers, TypeInv, turned
  <2> QED  BY <2>3, <2>4, <2>10 DEF DataTypes, TypeInv, Vectors
<1> QED  BY <1>4, <1>5, <1>6, <1>7

LEMMA WriteTypes ==
  ASSUME TypeInv, NEW t \in Thread, NEW a, NEW s, HostWrite(t, a, s)
  PROVE  DOMAIN mem' = Address /\ resv' \in [Thread -> SUBSET Address]
BY DEF HostWrite, HostBytes, LoseTo, TypeInv

LEMMA StoreTypes ==
  ASSUME TypeInv, NEW t \in Thread, NEW i,
         StoreInteger(t, i) \/ StoreFloat(t, i) \/ StoreVector(t, i)
  PROVE  DataTypes'
<1>1. UNCHANGED <<gpr, fpr, vr, reserved, eq>>
  BY DEF StoreInteger, StoreFloat, StoreVector
<1>2. \E a, s : HostWrite(t, a, s)
  <2>1. CASE StoreInteger(t, i)
    BY <2>1 DEF StoreInteger, PPC_STORE
  <2>2. CASE StoreFloat(t, i)
    BY <2>2 DEF StoreFloat, PPC_STORE
  <2>3. CASE StoreVector(t, i)
    <3>1. i.op \in VectorStore
      BY <2>3 DEF StoreVector
    <3>2. i.op = "stvx" => \E a, s : HostWrite(t, a, s)
      BY <2>3 DEF StoreVector
    <3>3. i.op = "stvehx" => \E a, s : HostWrite(t, a, s)
      BY <2>3 DEF StoreVector, StoreLane, PPC_STORE
    <3>4. i.op = "stvewx" => \E a, s : HostWrite(t, a, s)
      BY <2>3 DEF StoreVector, StoreLane, PPC_STORE
    <3>5. i.op = "stvlx" => \E a, s : HostWrite(t, a, s)
      BY <2>3 DEF StoreVector
    <3>6. i.op = "stvrx" => \E a, s : HostWrite(t, a, s)
      BY <2>3 DEF StoreVector
    <3> QED  BY <3>1, <3>2, <3>3, <3>4, <3>5, <3>6 DEF VectorStore
  <2> QED  BY <2>1, <2>2, <2>3
<1>3. DOMAIN mem' = Address /\ resv' \in [Thread -> SUBSET Address]
  BY <1>2, WriteTypes
<1> QED  BY <1>1, <1>3 DEF DataTypes, TypeInv, Registers, Vectors

LEMMA ConditionalTypes ==
  ASSUME TypeInv, NEW t \in Thread, NEW i, StoreConditional(t, i)
  PROVE  DataTypes'
<1>1. eq' \in [Thread -> BOOLEAN]
  BY DEF StoreConditional, TypeInv, Swaps
<1>2. DOMAIN mem' = Address /\ resv' \in [Thread -> SUBSET Address]
  <2>1. CASE Swaps(t, i)
    BY <2>1 DEF StoreConditional, HostBytes, TypeInv
  <2>2. CASE ~Swaps(t, i)
    BY <2>2 DEF StoreConditional, TypeInv
  <2> QED  BY <2>1, <2>2
<1> QED  BY <1>1, <1>2 DEF StoreConditional, DataTypes, TypeInv, Registers, Vectors

LEMMA VectorTypes ==
  ASSUME TypeInv, NEW t \in Thread, NEW i, IsAccess(i) \/ IsVectorOp(i),
         LoadVector(t, i) \/ LoadControl(t, i) \/ Permute(t, i)
  PROVE  DataTypes'
<1>1. UNCHANGED <<mem, gpr, fpr, reserved, eq, resv>>
  BY DEF LoadVector, LoadControl, Permute
<1>2. Vectors'
  <2>1. DOMAIN vr = Thread /\ DOMAIN vr[t] = VR /\ \A n \in VR : DOMAIN vr[t][n] = Lane
    BY DEF TypeInv, Vectors, IsVectors
  <2>2. ASSUME NEW x, DOMAIN x = Lane, vr' = [vr EXCEPT ![t][i.v] = x]
        PROVE  Vectors'
    BY <2>1, <2>2 DEF TypeInv, Vectors, IsVectors
  <2>3. CASE LoadVector(t, i)
    <3> DEFINE half == PPC_LOAD(Aligned(t, i, 2), 2)
               first == 2 * LaneOf(t, i, 2)
               new == CASE i.op \in {"lvx", "lvewx"} -> Shuffle(Block(t, i), VectorMaskL(0))
                        [] i.op = "lvlx" -> Shuffle(Block(t, i), VectorMaskL(Shift(t, i)))
                        [] i.op = "lvrx" -> Shuffle(Block(t, i), VectorMaskR(Shift(t, i)))
                        [] i.op = "lvehx" -> [vr[t][i.v] EXCEPT ![first] = half[2], ![first + 1] = half[1]]
    <3>1. i.op \in VectorLoad /\ vr' = [vr EXCEPT ![t][i.v] = new]
      BY <2>1, <2>3 DEF LoadVector
    <3>2. i.v \in VR
      <4>1. i.op \in DOMAIN Forms
        BY <3>1 DEF VectorLoad, Forms
      <4> QED  BY <4>1, Disjoint DEF IsAccess, IsVectorOp
    <3>3. DOMAIN new = Lane
      <4>1. DOMAIN vr[t][i.v] = Lane
        BY <2>1, <3>2
      <4>2. i.op \in {"lvx", "lvewx", "lvehx", "lvlx", "lvrx"}
        BY <3>1 DEF VectorLoad
      <4> QED  BY <4>1, <4>2 DEF Shuffle
    <3> HIDE DEF new
    <3> QED  BY <2>2, <3>1, <3>3
  <2>4. CASE LoadControl(t, i)
    <3>1. PICK x : DOMAIN x = Lane /\ vr' = [vr EXCEPT ![t][i.v] = x]
      BY <2>4 DEF LoadControl
    <3> QED  BY <2>2, <3>1
  <2>5. CASE Permute(t, i)
    <3>1. IsVectorOp(i)
      <4>1. i.form = "V"
        BY <2>5 DEF Permute
      <4> QED  BY <4>1, FormsAre DEF IsAccess
    <3>2. IsVectors(Permuted(vr[t], i))
      BY <2>1, <3>1, PermutedType DEF IsVectors
    <3>3. vr' = [vr EXCEPT ![t] = Permuted(vr[t], i)]
      BY <2>5 DEF Permute
    <3> QED  BY <3>2, <3>3 DEF TypeInv, Vectors
  <2> QED  BY <2>3, <2>4, <2>5
<1> QED  BY <1>1, <1>2 DEF DataTypes, TypeInv, Registers

LEMMA TypeNext == TypeInv /\ [AccessNext]_accessVars => TypeInv'
<1> SUFFICES ASSUME TypeInv, [AccessNext]_accessVars PROVE TypeInv'
  OBVIOUS
<1>1. CASE UNCHANGED accessVars
  BY <1>1 DEF accessVars, TypeInv, Positions, Registers, Vectors
<1>2. CASE AccessNext
  <2>1. PICK t \in Thread : \E i \in {Current(t)} : pc[t] <= Len(program[t]) /\ Step(t, i)
    BY <1>2, Zenon DEF AccessNext
  <2>5. PICK i : i = Current(t) /\ pc[t] <= Len(program[t]) /\ Step(t, i)
    BY <2>1, Zenon
  <2>2. IsAccess(i) \/ IsVectorOp(i)
    BY <2>5, CurrentIs DEF TypeInv
  <2>3. CASE Leave(t, i)
    <3>1. Positions'
      BY <2>3, Programmed DEF Leave, TypeInv, Positions
    <3> QED  BY <2>3, <3>1 DEF Leave, TypeInv, Registers, Vectors
  <2>4. CASE ~Leave(t, i)
    <3>1. /\ Inside(t, i) /\ Advance(t, i)
          /\ \/ LoadImmediate(t, i) \/ LoadInteger(t, i) \/ LoadFloat(t, i) \/ LoadReserved(t, i)
             \/ StoreInteger(t, i) \/ StoreFloat(t, i) \/ StoreVector(t, i)
             \/ StoreConditional(t, i)
             \/ LoadVector(t, i) \/ LoadControl(t, i) \/ Permute(t, i)
      BY <2>5, <2>4, Zenon DEF Step
    <3>2. DataTypes'
      <4>1. CASE LoadImmediate(t, i) \/ LoadInteger(t, i) \/ LoadFloat(t, i) \/ LoadReserved(t, i)
        <5>1. i.op \in DOMAIN Forms
          BY <4>1 DEF LoadImmediate, LoadInteger, LoadFloat, LoadReserved, Forms, Width,
               IntegerLoad, FloatLoad, Reserve
        <5>2. IsAccess(i)
          BY <2>2, <5>1, Disjoint DEF IsVectorOp
        <5> QED  BY <3>1, <4>1, <5>2, LoadTypes
      <4> QED  BY <2>2, <3>1, <4>1, StoreTypes, ConditionalTypes, VectorTypes
    <3>3. Positions' /\ ra' \in [Thread -> Address]
      BY <2>5, <2>2, <3>1, AdvanceTypes
    <3> QED  BY <3>2, <3>3 DEF DataTypes, TypeInv
  <2> QED  BY <2>3, <2>4
<1> QED  BY <1>1, <1>2

LEMMA TypeInvariant == AccessSpec => []TypeInv
BY TypeInit, TypeNext, PTL DEF AccessSpec

(* Every thread stays within its program and next to it, every register    *)
(* keeps its eight bytes, every vector its lanes, and memory its           *)
(* addresses, whatever the instructions are (the instructions that         *)
(* recompiler.cpp prints C++ for write registers in parts).                *)
THEOREM AccessTypesHold == AccessSpec => []AccessTypes
<1>1. TypeInv => AccessTypes
  BY ProgramAssumption
     DEF TypeInv, AccessTypes, Positions, Registers, Vectors, IsVectors, IsRegister
<1> QED  BY <1>1, TypeInvariant, PTL

-----------------------------------------------------------------------------
(* Accesses outside of the guest space.                                    *)

(* The cases of InGuest, for one access.                                   *)
Strays(x) ==
  \/ x.i.form = "D" /\ ~x.i.based /\ x.i.at < 0
  \/ x.i.op \in Reserve \cup Conditional /\ x.i.based /\ x.base + x.i.at >= Size
  \/ (((IF x.i.based THEN x.base ELSE 0) + x.i.at) % Size) + Width[x.i.op] > Size

LEMMA LeaveStrays ==
  ASSUME NEW t \in Thread, NEW i, IsAccess(i), ra[t] \in Address, ~Inside(t, i)
  PROVE  Strays([t |-> t, i |-> i, base |-> ra[t]])
<1> DEFINE x == [t |-> t, i |-> i, base |-> ra[t]]
<1>0. x.i = i /\ x.base = ra[t]
  OBVIOUS
<1> HIDE DEF x
<1>1. i.op \in DOMAIN Width /\ (EA(t, i) < 0 \/ EA(t, i) + Width[i.op] > Size)
  <2>1. i.op \in DOMAIN Width /\ ~(EA(t, i) >= 0 /\ EA(t, i) + Width[i.op] <= Size)
    BY DEF Inside
  <2>2. EA(t, i) \in Int
    <3>1. i.at \in Int /\ ra[t] \in Int /\ PlainSum(t, i) \in Int
      BY VectorSize DEF IsAccess, Address, PlainSum
    <3>2. Wrapped(PlainSum(t, i)) \in Int
      BY <3>1, WrappedType, VectorSize DEF Address
    <3> QED  BY <3>1, <3>2 DEF EA
  <2>3. Width[i.op] \in Nat
    BY <2>1, WidthIs
  <2> QED  BY <2>1, <2>2, <2>3, VectorSize
<1>2. i.at \in Int /\ ra[t] \in Int /\ PlainSum(t, i) \in Int /\ Width[i.op] \in Nat
  BY <1>1, WidthIs, VectorSize DEF IsAccess, Address, PlainSum
<1>3. PlainSum(t, i) = (IF i.based THEN ra[t] ELSE 0) + i.at
  BY <1>2 DEF PlainSum
<1>4. CASE i.op \in Reserve \cup Conditional \/ (i.form = "D" /\ ~i.based)
  <2>1. EA(t, i) = PlainSum(t, i)
    BY <1>4 DEF EA
  <2>2. CASE PlainSum(t, i) \in Address
    <3>1. PlainSum(t, i) % Size = PlainSum(t, i) /\ PlainSum(t, i) >= 0
      BY <2>2, WrappedAddress DEF Address
    <3>2. PlainSum(t, i) + Width[i.op] > Size
      BY <1>1, <1>2, <2>1, <3>1
    <3> QED  BY <1>0, <1>3, <3>1, <3>2 DEF Strays, x
  <2>3. CASE PlainSum(t, i) \notin Address
    <3>1. CASE i.op \in Reserve \cup Conditional
      <4>1. i.form = "X" /\ i.at \in Address
        <5>1. Forms[i.op] = {"X"}
          BY <3>1, OnlyX DEF IsAccess
        <5>2. i.form = "X"
          BY <5>1 DEF IsAccess
        <5> QED  BY <5>2 DEF IsAccess
      <4>2. i.based
        BY <2>3, <4>1 DEF PlainSum
      <4>3. ra[t] + i.at >= Size
        BY <1>2, <2>3, <4>1, <4>2, VectorSize DEF PlainSum, Address
      <4> QED  BY <1>0, <3>1, <4>2, <4>3 DEF Strays, x
    <3>2. CASE i.form = "D" /\ ~i.based
      <4>1. i.at \in -Size .. Size - 1 /\ PlainSum(t, i) = i.at
        BY <3>2 DEF IsAccess, PlainSum
      <4>2. i.at < 0
        BY <2>3, <4>1, VectorSize DEF Address
      <4> QED  BY <1>0, <3>2, <4>2 DEF Strays, x
    <3> QED  BY <1>4, <3>1, <3>2
  <2> QED  BY <2>2, <2>3
<1>5. CASE ~(i.op \in Reserve \cup Conditional \/ (i.form = "D" /\ ~i.based))
  <2>1. EA(t, i) = PlainSum(t, i) % Size
    BY <1>5 DEF EA, Wrapped
  <2>2. EA(t, i) \in Address
    BY <1>2, <2>1, WrappedType DEF Wrapped
  <2>3. (PlainSum(t, i) % Size) + Width[i.op] > Size
    BY <1>1, <1>2, <2>1, <2>2, VectorSize DEF Address
  <2> QED  BY <1>0, <1>3, <2>3 DEF Strays, x
<1> QED  BY <1>4, <1>5 DEF x

(* A thread is at its end after an access outside, and past a conditional  *)
(* store that was done without a reservation.                              *)
GhostInv ==
  /\ \A x \in outside : Strays(x) /\ x.t \in Thread /\ pc[x.t] > Len(program[x.t])
  /\ \A x \in gaveBack : x.t \in Thread /\ x.at \in Nat /\ x.at < pc[x.t]

LEMMA GhostNext == TypeInv /\ GhostInv /\ [AccessNext]_accessVars => GhostInv'
<1> SUFFICES ASSUME TypeInv, GhostInv, [AccessNext]_accessVars PROVE GhostInv'
  OBVIOUS
<1>1. CASE UNCHANGED accessVars
  BY <1>1 DEF accessVars, GhostInv, Strays
<1>2. CASE AccessNext
  <2>0. PICK t \in Thread : \E i \in {Current(t)} : pc[t] <= Len(program[t]) /\ Step(t, i)
    BY <1>2, Zenon DEF AccessNext
  <2>6. PICK i : i = Current(t) /\ pc[t] <= Len(program[t]) /\ Step(t, i)
    BY <2>0, Zenon
  <2>1. /\ pc[t] <= Len(program[t]) /\ i = Current(t)
        /\ \/ /\ Inside(t, i)
              /\ Advance(t, i)
              /\ UNCHANGED gaveBack \/ StoreConditional(t, i)
           \/ Leave(t, i)
    BY <2>6 DEF Step, LoadImmediate, LoadInteger, LoadFloat, StoreInteger, StoreFloat,
         LoadReserved, LoadVector, StoreVector, LoadControl, Permute
  <2>2. UNCHANGED program /\ \A u \in Thread : Len(program[u]) \in Nat /\ pc[u] \in Nat
    BY <2>1, Programmed DEF Advance, Leave, TypeInv, Positions
  <2>3. DOMAIN pc = Thread
    BY DEF TypeInv, Positions
  <2>4. CASE Inside(t, i) /\ Advance(t, i)
    <3>1. UNCHANGED outside /\ pc' = [pc EXCEPT ![t] = @ + 1]
      BY <2>4 DEF Advance
    <3>2. \A x \in outside : x.t # t
      BY <2>1, <2>2 DEF GhostInv
    <3>3. \A u \in Thread : pc'[u] >= pc[u] /\ (u # t => pc'[u] = pc[u])
      BY <2>2, <2>3, <3>1
    <3>4. pc'[t] = pc[t] + 1
      BY <2>3, <3>1
    <3>5. gaveBack' \subseteq gaveBack \cup {[t |-> t, at |-> pc[t]]}
      BY <2>1, <2>4 DEF StoreConditional, Leave
    <3>6. \A x \in outside' : Strays(x)' /\ x.t \in Thread /\ pc'[x.t] > Len(program'[x.t])
      BY <2>2, <3>1, <3>2, <3>3 DEF GhostInv, Strays
    <3>7. \A x \in gaveBack : x.t \in Thread /\ x.at \in Nat /\ x.at < pc'[x.t]
      BY <2>2, <2>3, <3>1, <3>3 DEF GhostInv
    <3>8. \A x \in gaveBack' : x.t \in Thread /\ x.at \in Nat /\ x.at < pc'[x.t]
      BY <2>2, <3>4, <3>5, <3>7
    <3> QED  BY <3>6, <3>8 DEF GhostInv
  <2>5. CASE Leave(t, i)
    <3> DEFINE new == [t |-> t, i |-> i, base |-> ra[t]]
    <3>1. pc' = [pc EXCEPT ![t] = Len(program[t]) + 1] /\ UNCHANGED gaveBack
          /\ outside' = outside \cup {new} /\ ~Inside(t, i)
      BY <2>5 DEF Leave
    <3>2. \A u \in Thread : pc'[u] >= pc[u] /\ (u # t => pc'[u] = pc[u])
      BY <2>1, <2>2, <2>3, <3>1
    <3>3. pc'[t] > Len(program[t])
      BY <2>2, <2>3, <3>1
    <3>4. IsAccess(i)
      <4>1. IsAccess(i) \/ IsVectorOp(i)
        BY <2>1, CurrentIs DEF TypeInv
      <4>2. i.op \in DOMAIN Width
        BY <3>1 DEF Inside
      <4>3. i.op \notin VectorOps
        BY <4>2, Disjoint, WidthIs DEF Forms
      <4> QED  BY <4>1, <4>3 DEF IsVectorOp
    <3>5. Strays(new)
      <4>1. ra[t] \in Address
        BY DEF TypeInv
      <4> QED  BY <3>1, <3>4, <4>1, LeaveStrays
    <3>6. new.t = t
      OBVIOUS
    <3> HIDE DEF new
    <3>7. \A x \in outside' : Strays(x) /\ x.t \in Thread /\ pc'[x.t] > Len(program[x.t])
      BY <2>2, <3>1, <3>2, <3>3, <3>5, <3>6 DEF GhostInv
    <3>8. \A x \in gaveBack' : x.t \in Thread /\ x.at \in Nat /\ x.at < pc'[x.t]
      BY <2>2, <2>3, <3>1, <3>2 DEF GhostInv
    <3> QED  BY <2>2, <3>7, <3>8 DEF GhostInv, Strays
  <2> QED  BY <2>1, <2>4, <2>5
<1> QED  BY <1>1, <1>2

LEMMA GhostInvariant == AccessSpec => []GhostInv
<1>1. AccessInit => GhostInv
  BY DEF AccessInit, GhostInv
<1> QED  BY <1>1, GhostNext, TypeInvariant, PTL DEF AccessSpec

(* The addresses that the printed PPC_LOAD and PPC_STORE are given lie in  *)
(* guest memory but for the three cases of InGuest, with any program and   *)
(* any base registers.                                                     *)
THEOREM AccessesInGuest == AccessSpec => []InGuest
<1>1. GhostInv => InGuest
  BY DEF GhostInv, InGuest, Strays
<1> QED  BY <1>1, GhostInvariant, PTL

-----------------------------------------------------------------------------
(* Every step is one of the architecture's.                                *)

LEMMA SameTables ==
  /\ Power!Width = Width
  /\ Power!IntegerLoad = IntegerLoad /\ Power!FloatLoad = FloatLoad
  /\ Power!IntegerStore = IntegerStore /\ Power!FloatStore = FloatStore
  /\ Power!Reserve = Reserve /\ Power!Conditional = Conditional /\ Power!Reversed = Reversed
  /\ Power!VectorLoad = VectorLoad /\ Power!VectorStore = VectorStore
  /\ Power!VectorControl = VectorControl
  /\ Power!Address = Address
  /\ \A i : Power!Updates(i) = Updates(i)
BY DEF Power!Width, Width, Power!IntegerLoad, IntegerLoad, Power!FloatLoad, FloatLoad,
   Power!IntegerStore, IntegerStore, Power!FloatStore, FloatStore, Power!Reserve, Reserve,
   Power!Conditional, Conditional, Power!Reversed, Reversed, Power!VectorLoad, VectorLoad,
   Power!VectorStore, VectorStore, Power!VectorControl, VectorControl, Power!Address, Address,
   Power!Updates, Updates

LEMMA SameValues ==
  /\ \A s : /\ Power!Turn(s) = Turn(s)
            /\ Power!ZeroExtend(s) = ZeroExtend(s) /\ Power!SignExtend(s) = SignExtend(s)
            /\ Power!Widened(s) = Widened(s) /\ Power!Narrowed(s) = Narrowed(s)
            /\ Power!Immediate(s) = Immediate(s) /\ Power!Numeral(s) = Numeral(s)
  /\ \A s, n : Power!Low(s, n) = Low(s, n) /\ Power!Fill(s, n) = Fill(s, n)
  /\ Power!ZeroByte = ZeroByte
BY DEF Power!Turn, Turn, Power!ZeroExtend, ZeroExtend, Power!SignExtend, SignExtend,
   Power!Widened, Widened, Power!Narrowed, Narrowed, Power!Immediate, Immediate,
   Power!Low, Low, Power!Fill, Fill, Power!ZeroByte, ZeroByte, Power!Numeral, Numeral

LEMMA AdvancePower ==
  ASSUME TypeInv, NEW t \in Thread, NEW i, IsAccess(i) \/ IsVectorOp(i),
         Inside(t, i), Advance(t, i)
  PROVE  Power!Advance(t, i)
<1>1. Updates(i) => EA(t, i) = Power!EA(t, i)
  <2>1. Updates(i) => IsAccess(i) /\ AccessesWithin(t, i)
    BY NoUpdate DEF AccessesWithin
  <2>2. ra[t] \in Address
    BY DEF TypeInv
  <2> QED  BY <2>1, <2>2, AddressType
<1> QED  BY <1>1, SameTables DEF Advance, Power!Advance

(* What an access reaches.                                                 *)
LEMMA Reaches ==
  ASSUME TypeInv, NEW t \in Thread, NEW i, IsAccess(i), Inside(t, i), i.op \in DOMAIN Width
  PROVE  /\ EA(t, i) \in Int /\ EA(t, i) >= 0 /\ EA(t, i) + Width[i.op] <= Size
         /\ Width[i.op] \in {1, 2, 4, 8}
         /\ EA(t, i) = Power!EA(t, i)
<1>1. ra[t] \in Address
  BY DEF TypeInv
<1> QED  BY <1>1, AddressType, WidthIs DEF AccessesWithin, Address

LEMMA BytesAre ==
  ASSUME NEW a \in Int, NEW n \in Nat
  PROVE  /\ Power!Bytes(a, n) = PPC_LOAD(a, n)
         /\ Power!Bytes(a, n) = [k \in 1 .. n |-> mem[a + k - 1]]
BY ReadIs DEF Power!Bytes, PPC_LOAD

LEMMA NothingAdded ==
  ASSUME NEW s, s = [k \in 1 .. 8 |-> s[k]]
  PROVE  ZeroExtend(s) = s
<1> DEFINE n == 8  m == n - Len(s)  f == Fill(ZeroByte, m)
<1>1. Len(s) = n
  BY FunctionIs
<1>2. f = [k \in 1 .. m |-> f[k]]
  BY DEF Fill
<1>3. m = 0 /\ s = [k \in 1 .. n |-> s[k]] /\ ZeroExtend(s) = f \o s
  BY <1>1 DEF ZeroExtend
<1>4. n \in Nat
  OBVIOUS
<1> HIDE DEF f, m, n
<1>5. m \in Nat
  BY <1>3
<1>6. f \o s = [k \in 1 .. m + n |-> IF k <= m THEN f[k] ELSE s[k - m]]
  BY <1>2, <1>3, <1>4, <1>5, Concatenation
<1>7. m + n = n /\ \A k \in 1 .. n : ~(k <= m) /\ k - m = k
  BY <1>3, <1>4
<1> QED  BY <1>3, <1>6, <1>7

LEMMA LoadPower ==
  ASSUME TypeInv, NEW t \in Thread, NEW i, IsAccess(i), Inside(t, i),
         LoadInteger(t, i) \/ LoadFloat(t, i) \/ LoadReserved(t, i)
  PROVE  Power!Load(t, i)
<1> DEFINE a == EA(t, i)  n == Width[i.op]  s == PPC_LOAD(a, n)
<1>1. i.op \in DOMAIN Width
  BY WidthIs DEF LoadInteger, LoadFloat, LoadReserved
<1>2. a \in Int /\ n \in {1, 2, 4, 8} /\ a = Power!EA(t, i)
  BY <1>1, Reaches
<1>3. s = [k \in 1 .. n |-> s[k]] /\ Power!Bytes(Power!EA(t, i), Power!Width[i.op]) = s
  <2>1. Power!Width[i.op] = n
    BY SameTables
  <2>0. a \in Int /\ n \in Nat
    BY <1>2
  <2> HIDE DEF a, n
  <2>2. s = [k \in 1 .. n |-> mem[a + k - 1]] /\ Power!Bytes(a, n) = s
    BY <2>0, BytesAre
  <2> QED  BY <1>2, <2>1, <2>2
<1> HIDE DEF s
<1>4. Power!LoadedValue(t, i) =
        LET o == IF i.op \in Reversed THEN Turn(s) ELSE s
        IN  CASE i.op \in {"lha", "lwa"} -> SignExtend(o)
              [] i.op = "lfs" -> Widened(o)
              [] OTHER -> ZeroExtend(o)
  <2>1. Power!Ordered(i, s) = IF i.op \in Reversed THEN Turn(s) ELSE s
    BY SameTables, SameValues DEF Power!Ordered
  <2> QED  BY <1>3, <2>1, SameValues DEF Power!LoadedValue
<1>5. CASE LoadInteger(t, i)
  <2>1. i.op \in IntegerLoad /\ i.op \notin FloatLoad \cup Reserve
    BY <1>5 DEF LoadInteger, IntegerLoad, FloatLoad, Reserve
  <2>2. gpr' = [gpr EXCEPT ![t] = CASE i.op \in {"lha", "lwa"} -> SignExtend(s)
                                     [] i.op = "lwbrx" -> ZeroExtend(Turn(s))
                                     [] OTHER -> ZeroExtend(s)]
        /\ UNCHANGED <<mem, fpr, vr, eq, resv>>
    BY <1>5 DEF LoadInteger, s
  <2>3. Power!LoadedValue(t, i) = CASE i.op \in {"lha", "lwa"} -> SignExtend(s)
                                     [] i.op = "lwbrx" -> ZeroExtend(Turn(s))
                                     [] OTHER -> ZeroExtend(s)
    BY <1>4, <2>1 DEF Reversed, IntegerLoad
  <2> QED  BY <2>1, <2>2, <2>3, SameTables DEF Power!Load
<1>6. CASE LoadFloat(t, i)
  <2>1. i.op \in FloatLoad /\ i.op \notin Reserve
    BY <1>6 DEF LoadFloat, FloatLoad, Reserve
  <2>2. fpr' = [fpr EXCEPT ![t] = IF i.op = "lfs" THEN Widened(s) ELSE s]
        /\ UNCHANGED <<mem, gpr, vr, eq, resv>>
    BY <1>6 DEF LoadFloat, s
  <2>3. i.op # "lfs" => ZeroExtend(s) = s
    <3>1. i.op # "lfs" => n = 8
      BY <2>1 DEF FloatLoad, Width
    <3> QED  BY <1>3, <3>1, NothingAdded
  <2>4. Power!LoadedValue(t, i) = IF i.op = "lfs" THEN Widened(s) ELSE s
    BY <1>4, <2>1, <2>3 DEF Reversed, FloatLoad
  <2> QED  BY <2>1, <2>2, <2>4, SameTables DEF Power!Load
<1>7. CASE LoadReserved(t, i)
  <2>1. i.op \in Reserve /\ i.op \notin FloatLoad
    BY <1>7 DEF LoadReserved, FloatLoad, Reserve
  <2>2. gpr' = [gpr EXCEPT ![t] = ZeroExtend(s)] /\ resv' = [resv EXCEPT ![t] = Reach(a, n)]
        /\ UNCHANGED <<mem, fpr, vr, eq>>
    BY <1>7 DEF LoadReserved, PPC_LOAD, s
  <2>3. Power!LoadedValue(t, i) = ZeroExtend(s)
    BY <1>4, <2>1 DEF Reversed, Reserve
  <2>4. Power!Reach(Power!EA(t, i), Power!Width[i.op]) = Reach(a, n)
    BY <1>2, SameTables DEF Power!Reach, Reach
  <2> QED  BY <2>1, <2>2, <2>3, <2>4, SameTables DEF Power!Load
<1> QED  BY <1>5, <1>6, <1>7

(* A value turned around twice is stored as it is.                         *)
LEMMA PutIs ==
  ASSUME NEW t \in Thread, NEW a \in Int, NEW n \in Nat, NEW s, s = [k \in 1 .. n |-> s[k]],
         HostWrite(t, a, Turn(s))
  PROVE  Power!Put(t, a, s)
<1>1. Len(s) = n /\ Len(Turn(s)) = n /\ Turn(s) = [k \in 1 .. n |-> s[n + 1 - k]]
  BY TurnIs
<1>2. mem' = [b \in Address |-> IF b \in a .. a + n - 1 THEN Turn(s)[a + n - b] ELSE mem[b]]
  BY <1>1 DEF HostWrite, HostBytes
<1>3. \A b \in a .. a + n - 1 : Turn(s)[a + n - b] = s[b - a + 1]
  <2> SUFFICES ASSUME NEW b \in a .. a + n - 1 PROVE Turn(s)[a + n - b] = s[b - a + 1]
    OBVIOUS
  <2>1. a + n - b \in 1 .. n /\ n + 1 - (a + n - b) = b - a + 1
    OBVIOUS
  <2> QED  BY <1>1, <2>1
<1>4. mem' = [b \in Address |-> IF b \in a .. a + n - 1 THEN s[b - a + 1] ELSE mem[b]]
  BY <1>2, <1>3
<1>5. LoseTo(t, a, n)
  BY <1>1 DEF HostWrite
<1> QED  BY <1>1, <1>4, <1>5, SameTables DEF Power!Put, Power!Reach, LoseTo, Reach

LEMMA StorePower ==
  ASSUME TypeInv, NEW t \in Thread, NEW i, IsAccess(i), Inside(t, i),
         StoreInteger(t, i) \/ StoreFloat(t, i)
  PROVE  Power!Store(t, i)
<1> DEFINE a == EA(t, i)  n == Width[i.op]
<1>1. i.op \in DOMAIN Width /\ i.op \in IntegerStore \cup FloatStore
  BY WidthIs DEF StoreInteger, StoreFloat
<1>2. a \in Int /\ n \in {1, 2, 4, 8} /\ a = Power!EA(t, i)
  BY <1>1, Reaches
<1> DEFINE v == Power!StoredValue(t, i)
<1>3. v = [k \in 1 .. n |-> v[k]] /\ HostWrite(t, a, Turn(v))
  <2>1. CASE StoreInteger(t, i)
    <3> DEFINE s == Low(gpr[t], n)
    <3>1. i.op \in IntegerStore /\ i.op \notin FloatStore
      BY <2>1 DEF StoreInteger, IntegerStore, FloatStore
    <3>2. s = [k \in 1 .. n |-> s[k]]
      <4> HIDE DEF n
      <4>1. s = [k \in 1 .. n |-> gpr[t][8 - n + k]]
        BY <1>2, LowIs
      <4> QED  BY <4>1
    <3>3. v = IF i.op \in Reversed THEN Turn(s) ELSE s
      BY <3>1, SameTables, SameValues DEF Power!StoredValue, Power!Ordered, IntegerStore
    <3>4. PPC_STORE(t, a, IF i.op \in {"sthbrx", "stwbrx"} THEN Turn(s) ELSE s)
      BY <2>1 DEF StoreInteger
    <3>5. i.op \in Reversed <=> i.op \in {"sthbrx", "stwbrx"}
      BY <3>1 DEF Reversed, IntegerStore
    <3>6. Turn(s) = [k \in 1 .. n |-> Turn(s)[k]]
      <4>0. n \in Nat
        BY <1>2
      <4> HIDE DEF n, s
      <4>1. Turn(s) = [k \in 1 .. n |-> s[n + 1 - k]]
        BY <4>0, <3>2, TurnIs
      <4> QED  BY <4>1
    <3> HIDE DEF v, s, n
    <3>7. HostWrite(t, a, Turn(v))
      BY <3>3, <3>4, <3>5 DEF PPC_STORE
    <3> QED  BY <3>2, <3>3, <3>6, <3>7
  <2>2. CASE StoreFloat(t, i)
    <3> DEFINE s == IF i.op = "stfs" THEN Narrowed(fpr[t]) ELSE Low(fpr[t], n)
    <3>1. i.op \in FloatStore
      BY <2>2 DEF StoreFloat
    <3>2. s = [k \in 1 .. n |-> s[k]]
      <4>1. CASE i.op = "stfs"
        <5>1. n = 4
          BY <4>1 DEF Width
        <5> QED  BY <4>1, <5>1 DEF Narrowed
      <4>2. CASE i.op # "stfs"
        <5> HIDE DEF n
        <5>1. Low(fpr[t], n) = [k \in 1 .. n |-> fpr[t][8 - n + k]]
          BY <1>2, LowIs
        <5> QED  BY <4>2, <5>1
      <4> QED  BY <4>1, <4>2
    <3>3. v = s
      <4>1. CASE i.op = "stfs"
        BY <4>1, SameTables, SameValues DEF Power!StoredValue
      <4>2. CASE i.op # "stfs"
        <5>1. v = Power!Low(fpr[t], Power!Width[i.op])
          BY <3>1, <4>2, SameTables DEF Power!StoredValue
        <5> QED  BY <4>2, <5>1, SameTables, SameValues
      <4> QED  BY <4>1, <4>2
    <3>4. HostWrite(t, a, Turn(s))
      BY <2>2 DEF StoreFloat, PPC_STORE
    <3> HIDE DEF v, s, n
    <3> QED  BY <3>2, <3>3, <3>4
  <2> HIDE DEF v, n
  <2> QED  BY <2>1, <2>2
<1>4. Power!Put(t, Power!EA(t, i), v)
  <2> HIDE DEF v, n, a
  <2> QED  BY <1>2, <1>3, PutIs
<1> QED  BY <1>1, <1>4, SameTables DEF Power!Store, StoreInteger, StoreFloat

LEMMA ConditionalPower ==
  ASSUME TypeInv, GhostInv, NEW t \in Thread, NEW i, IsAccess(i), Inside(t, i),
         StoreConditional(t, i)
  PROVE  gaveBack' # gaveBack \/ Power!StoreConditional(t, i)
<1> DEFINE a == EA(t, i)  n == Width[i.op]  s == Low(gpr[t], n)
<1>1. i.op \in Conditional /\ i.op \in DOMAIN Width
  BY WidthIs DEF StoreConditional
<1>2. a \in Int /\ n \in {1, 2, 4, 8} /\ a = Power!EA(t, i)
  BY <1>1, Reaches
<1>3. a \in Int /\ n \in Nat
  BY <1>2
<1>8. s = [k \in 1 .. n |-> s[k]]
  <2> HIDE DEF n
  <2>1. s = [k \in 1 .. n |-> gpr[t][8 - n + k]]
    BY <1>2, LowIs
  <2> QED  BY <2>1
<1>9. Swaps(t, i) = TRUE \/ Swaps(t, i) = FALSE
  BY DEF Swaps
<1>4. Power!Low(gpr[t], Power!Width[i.op]) = s
  BY SameTables, SameValues
<1>5. CASE Swaps(t, i) /\ resv[t] # {}
  <2>2. /\ eq' = [eq EXCEPT ![t] = TRUE] /\ mem' = HostBytes(a, Turn(s))
        /\ resv' = [u \in Thread |->
                      IF u = t \/ resv[u] \cap Reach(a, n) # {} THEN {} ELSE resv[u]]
        /\ UNCHANGED <<gpr, fpr, vr>>
    <3>1. eq' = [eq EXCEPT ![t] = TRUE]
      BY <1>5, <1>9 DEF StoreConditional
    <3> QED  BY <1>5, <3>1 DEF StoreConditional
  <2> HIDE DEF a, n, s
  <2>3. Len(s) = n /\ Len(Turn(s)) = n /\ Turn(s) = [k \in 1 .. n |-> s[n + 1 - k]]
    BY <1>3, <1>8, TurnIs
  <2>4. mem' = [b \in Address |-> IF b \in a .. a + n - 1 THEN Turn(s)[a + n - b] ELSE mem[b]]
    BY <2>2, <2>3 DEF HostBytes
  <2>5. \A b \in a .. a + n - 1 : Turn(s)[a + n - b] = s[b - a + 1]
    <3> SUFFICES ASSUME NEW b \in a .. a + n - 1 PROVE Turn(s)[a + n - b] = s[b - a + 1]
      OBVIOUS
    <3>1. a + n - b \in 1 .. n /\ n + 1 - (a + n - b) = b - a + 1
      BY <1>3
    <3> QED  BY <2>3, <3>1
  <2>6. mem' = [b \in Address |-> IF b \in Reach(a, n) THEN s[b - a + 1] ELSE mem[b]]
    BY <2>4, <2>5 DEF Reach
  <2>7. Power!Reach(a, n) = Reach(a, n)
    BY DEF Power!Reach, Reach
  <2> QED
    BY <1>1, <1>2, <1>4, <1>5, <2>2, <2>3, <2>6, <2>7, SameTables DEF Power!StoreConditional
<1>6. CASE Swaps(t, i) /\ resv[t] = {}
  <2>1. gaveBack' = gaveBack \cup {[t |-> t, at |-> pc[t]]}
    BY <1>6 DEF StoreConditional
  <2>2. [t |-> t, at |-> pc[t]] \notin gaveBack
    <3>1. pc[t] \in Nat
      BY Programmed DEF TypeInv, Positions
    <3>2. ~([t |-> t, at |-> pc[t]].at < pc[[t |-> t, at |-> pc[t]].t])
      BY <3>1
    <3> QED  BY <3>2 DEF GhostInv
  <2> QED  BY <2>1, <2>2
<1>7. CASE ~Swaps(t, i)
  <2>1. eq' = [eq EXCEPT ![t] = FALSE]
    BY <1>7, <1>9 DEF StoreConditional
  <2>2. i.op \in Power!Conditional /\ UNCHANGED <<mem, gpr, fpr, vr>>
        /\ resv' = [resv EXCEPT ![t] = {}]
    BY <1>1, <1>7, SameTables DEF StoreConditional
  <2> QED  BY <2>1, <2>2 DEF Power!StoreConditional
<1> QED  BY <1>5, <1>6, <1>7

-----------------------------------------------------------------------------
(* Vectors, as the guest sees them.                                        *)

Seen(x) == [k \in 1 .. Vector |-> x[Vector - k]]
GuestVectors == [t \in Thread |-> [n \in VR |-> Seen(vr[t][n])]]

LEMMA Written ==
  ASSUME TypeInv, NEW t \in Thread, NEW n \in VR, NEW x, vr' = [vr EXCEPT ![t][n] = x]
  PROVE  /\ GuestVectors' = [GuestVectors EXCEPT ![t][n] = Seen(x)]
         /\ GuestVectors'[t][n] = Seen(x)
         /\ GuestVectors' = [GuestVectors EXCEPT ![t][n] = GuestVectors'[t][n]]
<1>1. DOMAIN vr = Thread /\ \A u \in Thread : DOMAIN vr[u] = VR
  BY DEF TypeInv, Vectors, IsVectors
<1>2. \A u \in Thread : \A m \in VR : vr'[u][m] = IF u = t /\ m = n THEN x ELSE vr[u][m]
  <2>1. vr'[t] = [vr[t] EXCEPT ![n] = x] /\ \A u \in Thread \ {t} : vr'[u] = vr[u]
    BY <1>1
  <2>2. \A m \in VR : vr'[t][m] = IF m = n THEN x ELSE vr[t][m]
    BY <1>1, <2>1
  <2> QED  BY <2>1, <2>2
<1>3. GuestVectors' = [u \in Thread |-> [m \in VR |-> IF u = t /\ m = n THEN Seen(x) ELSE Seen(vr[u][m])]]
  BY <1>2 DEF GuestVectors
<1>4. [GuestVectors EXCEPT ![t][n] = Seen(x)] =
        [u \in Thread |-> [m \in VR |-> IF u = t /\ m = n THEN Seen(x) ELSE Seen(vr[u][m])]]
  BY DEF GuestVectors
<1>5. GuestVectors'[t][n] = Seen(x)
  BY <1>3
<1> QED  BY <1>3, <1>4, <1>5

(* Where vectors and elements lie.                                         *)
LEMMA BlockIs ==
  ASSUME TypeInv, NEW t \in Thread, NEW i, IsAccess(i), Inside(t, i),
         i.op \in VectorLoad \cup VectorStore \cup VectorControl
  PROVE  /\ EA(t, i) \in Address /\ EA(t, i) \in Nat /\ Power!EA(t, i) = EA(t, i)
         /\ Shift(t, i) \in 0 .. Vector - 1 /\ Power!Offset(t, i) = Shift(t, i)
         /\ Block(t, i) \in Nat /\ Block(t, i) + Shift(t, i) = EA(t, i)
         /\ Power!Block(t, i) = Block(t, i)
         /\ \A n \in {2, 4} :
              /\ Aligned(t, i, n) \in Nat /\ Power!Element(t, i, n) = Aligned(t, i, n)
              /\ Power!Element(t, i, n) % Vector \in 0 .. Vector - n
              /\ Block(t, i) + (Power!Element(t, i, n) % Vector) = Aligned(t, i, n)
              /\ n * LaneOf(t, i, n) + n = Vector - (Power!Element(t, i, n) % Vector)
<1> DEFINE a == EA(t, i)
<1>1. ra[t] \in Address
  BY DEF TypeInv
<1>2. a \in Address /\ a \in Nat /\ Power!EA(t, i) = a
  BY <1>1, AddressType DEF AccessesWithin, Address
<1> HIDE DEF a
<1>3. Shift(t, i) = a % Vector /\ Power!Offset(t, i) = a % Vector
      /\ Block(t, i) = a - (a % Vector) /\ Power!Block(t, i) = a - (a % Vector)
  BY <1>2 DEF Shift, Power!Offset, Block, Power!Block, Aligned, a
<1>4. a % Vector \in 0 .. Vector - 1 /\ a - (a % Vector) \in Nat
  BY <1>2, VectorSize
<1>5. ASSUME NEW n \in {2, 4}
      PROVE  /\ Aligned(t, i, n) = a - (a % n) /\ Power!Element(t, i, n) = a - (a % n)
             /\ LaneOf(t, i, n) = (Vector \div n) - 1 - ((a % Vector) \div n)
  BY <1>2, <1>3 DEF Aligned, Power!Element, LaneOf, a
<1>6. ASSUME NEW n \in {2, 4}
      PROVE  /\ a - (a % n) \in Nat
             /\ (a - (a % n)) % Vector \in 0 .. Vector - n
             /\ (a - (a % Vector)) + ((a - (a % n)) % Vector) = a - (a % n)
             /\ n * ((Vector \div n) - 1 - ((a % Vector) \div n)) + n
                  = Vector - ((a - (a % n)) % Vector)
  <2>1. CASE n = 2 /\ Vector = 8
    BY <1>2, <2>1
  <2>2. CASE n = 2 /\ Vector = 16
    BY <1>2, <2>2
  <2>3. CASE n = 4 /\ Vector = 8
    BY <1>2, <2>3
  <2>4. CASE n = 4 /\ Vector = 16
    BY <1>2, <2>4
  <2> QED  BY <1>6, <2>1, <2>2, <2>3, <2>4, VectorSize
<1> QED  BY <1>2, <1>3, <1>4, <1>5, <1>6 DEF a

LEMMA LeftPart ==
  ASSUME NEW b \in Int, NEW k \in 0 .. Vector - 1
  PROVE  Seen(Shuffle(b, VectorMaskL(k))) =
           [j \in 1 .. Vector |-> IF j <= Vector - k THEN mem[b + k + j - 1] ELSE ZeroByte]
<1> SUFFICES ASSUME NEW j \in 1 .. Vector
             PROVE  Shuffle(b, VectorMaskL(k))[Vector - j] =
                      IF j <= Vector - k THEN mem[b + k + j - 1] ELSE ZeroByte
  BY DEF Seen
<1>1. Vector - j \in Lane /\ Vector \in Nat
  BY VectorSize DEF Lane
<1>2. Shuffle(b, VectorMaskL(k))[Vector - j] =
        IF VectorMaskL(k)[Vector - j] < 0 THEN ZeroByte ELSE mem[b + VectorMaskL(k)[Vector - j]]
  BY <1>1 DEF Shuffle
<1>3. VectorMaskL(k)[Vector - j] = IF Vector - j < k THEN -1 ELSE Vector - 1 - (Vector - j - k)
  BY <1>1 DEF VectorMaskL
<1>4. CASE Vector - j < k
  BY <1>1, <1>2, <1>3, <1>4
<1>5. CASE ~(Vector - j < k)
  <2>1. VectorMaskL(k)[Vector - j] = k + j - 1 /\ k + j - 1 >= 0 /\ j <= Vector - k
    BY <1>1, <1>3, <1>5
  <2>2. b + (k + j - 1) = b + k + j - 1
    OBVIOUS
  <2> QED  BY <1>2, <2>1, <2>2
<1> QED  BY <1>4, <1>5

LEMMA RightPart ==
  ASSUME NEW b \in Int, NEW k \in 0 .. Vector - 1
  PROVE  Seen(Shuffle(b, VectorMaskR(k))) =
           [j \in 1 .. Vector |->
              IF j <= Vector - k THEN ZeroByte ELSE mem[b + (j - (Vector - k)) - 1]]
<1> SUFFICES ASSUME NEW j \in 1 .. Vector
             PROVE  Shuffle(b, VectorMaskR(k))[Vector - j] =
                      IF j <= Vector - k THEN ZeroByte ELSE mem[b + (j - (Vector - k)) - 1]
  BY DEF Seen
<1>1. Vector - j \in Lane /\ Vector \in Nat
  BY VectorSize DEF Lane
<1>2. Shuffle(b, VectorMaskR(k))[Vector - j] =
        IF VectorMaskR(k)[Vector - j] < 0 THEN ZeroByte ELSE mem[b + VectorMaskR(k)[Vector - j]]
  BY <1>1 DEF Shuffle
<1>3. VectorMaskR(k)[Vector - j] = IF Vector - j < k THEN k - 1 - (Vector - j) ELSE -1
  BY <1>1 DEF VectorMaskR
<1>4. CASE ~(Vector - j < k)
  BY <1>1, <1>2, <1>3, <1>4
<1>5. CASE Vector - j < k
  <2> DEFINE m == (j - (Vector - k)) - 1
  <2>1. VectorMaskR(k)[Vector - j] = m /\ m >= 0 /\ m \in Int /\ ~(j <= Vector - k)
    BY <1>1, <1>3, <1>5
  <2>2. b + m = b + (j - (Vector - k)) - 1
    BY <1>1
  <2> HIDE DEF m
  <2>3. ~(VectorMaskR(k)[Vector - j] < 0)
    BY <2>1
  <2> QED  BY <1>2, <2>1, <2>2, <2>3
<1> QED  BY <1>4, <1>5

(* One element of a vector loaded over the old one.                        *)
LEMMA LoadVectorPower ==
  ASSUME TypeInv, NEW t \in Thread, NEW i, IsAccess(i), Inside(t, i), LoadVector(t, i)
  PROVE  Power!LoadVector(t, i)
<1> DEFINE half == PPC_LOAD(Aligned(t, i, 2), 2)
           first == 2 * LaneOf(t, i, 2)
           new == CASE i.op \in {"lvx", "lvewx"} -> Shuffle(Block(t, i), VectorMaskL(0))
                    [] i.op = "lvlx" -> Shuffle(Block(t, i), VectorMaskL(Shift(t, i)))
                    [] i.op = "lvrx" -> Shuffle(Block(t, i), VectorMaskR(Shift(t, i)))
                    [] i.op = "lvehx" -> [vr[t][i.v] EXCEPT ![first] = half[2], ![first + 1] = half[1]]
<1>1. i.op \in VectorLoad /\ i.v \in VR /\ UNCHANGED <<mem, gpr, fpr, eq, resv>>
  BY DEF LoadVector, IsAccess
<1>2. /\ DOMAIN vr = Thread /\ DOMAIN vr[t] = VR /\ DOMAIN vr[t][i.v] = Lane
  BY <1>1 DEF TypeInv, Vectors, IsVectors
<1>3. vr' = [vr EXCEPT ![t][i.v] = new]
  BY <1>1, <1>2 DEF LoadVector
<1> DEFINE a == EA(t, i)  k == Shift(t, i)  b == Block(t, i)  seen == GuestVectors'[t][i.v]
<1>4. /\ GuestVectors' = [GuestVectors EXCEPT ![t][i.v] = seen]
      /\ seen = Seen(new)
  <2> HIDE DEF new
  <2> QED  BY <1>1, <1>3, Written
<1>5. /\ a \in Nat /\ Power!EA(t, i) = a /\ k \in 0 .. Vector - 1 /\ Power!Offset(t, i) = k
      /\ b \in Nat /\ b + k = a /\ Power!Block(t, i) = b
      /\ \A n \in {2, 4} :
           /\ Aligned(t, i, n) \in Nat /\ Power!Element(t, i, n) = Aligned(t, i, n)
           /\ Power!Element(t, i, n) % Vector \in 0 .. Vector - n
           /\ b + (Power!Element(t, i, n) % Vector) = Aligned(t, i, n)
           /\ n * LaneOf(t, i, n) + n = Vector - (Power!Element(t, i, n) % Vector)
  BY <1>1, BlockIs
<1>6. Vector \in Nat /\ Vector - k \in Nat /\ 0 \in 0 .. Vector - 1
  BY <1>5, VectorSize
<1>7. i.op = "lvx" => seen = Power!Bytes(Power!Block(t, i), Vector)
  <2> SUFFICES ASSUME i.op = "lvx" PROVE seen = Power!Bytes(b, Vector)
    BY <1>5
  <2>1. new = Shuffle(b, VectorMaskL(0))
    OBVIOUS
  <2> HIDE DEF new, seen, a, k, b
  <2>2. seen = [j \in 1 .. Vector |-> IF j <= Vector - 0 THEN mem[b + 0 + j - 1] ELSE ZeroByte]
    <3>1. b \in Int
      BY <1>5
    <3>2. Seen(Shuffle(b, VectorMaskL(0))) =
            [j \in 1 .. Vector |-> IF j <= Vector - 0 THEN mem[b + 0 + j - 1] ELSE ZeroByte]
      BY <1>6, <3>1, LeftPart
    <3> QED  BY <1>4, <2>1, <3>2
  <2>3. \A j \in 1 .. Vector : j <= Vector - 0 /\ b + 0 + j - 1 = b + j - 1
    BY <1>5, <1>6
  <2>4. Power!Bytes(b, Vector) = [j \in 1 .. Vector |-> mem[b + j - 1]]
    BY DEF Power!Bytes
  <2> QED  BY <2>2, <2>3, <2>4
<1>8. i.op = "lvlx" => seen = Power!Bytes(Power!EA(t, i), Vector - Power!Offset(t, i))
                                \o Power!Fill(Power!ZeroByte, Power!Offset(t, i))
  <2> SUFFICES ASSUME i.op = "lvlx"
               PROVE  seen = Power!Bytes(a, Vector - k) \o Fill(ZeroByte, k)
    BY <1>5, SameValues
  <2>1. new = Shuffle(b, VectorMaskL(k))
    OBVIOUS
  <2> DEFINE f == Power!Bytes(a, Vector - k)  g == Fill(ZeroByte, k)
  <2>2. /\ f = [j \in 1 .. Vector - k |-> mem[a + j - 1]]
        /\ g = [j \in 1 .. k |-> ZeroByte]
    BY DEF Power!Bytes, Fill
  <2> HIDE DEF new, seen, a, k, b, f, g
  <2>3. seen = [j \in 1 .. Vector |-> IF j <= Vector - k THEN mem[b + k + j - 1] ELSE ZeroByte]
    <3>1. b \in Int /\ k \in 0 .. Vector - 1
      BY <1>5
    <3>2. Seen(Shuffle(b, VectorMaskL(k))) =
            [j \in 1 .. Vector |-> IF j <= Vector - k THEN mem[b + k + j - 1] ELSE ZeroByte]
      BY <3>1, LeftPart
    <3> QED  BY <1>4, <2>1, <3>2
  <2> DEFINE m == Vector - k
  <2>4. m \in Nat /\ k \in Nat /\ m + k = Vector /\ f = [j \in 1 .. m |-> f[j]]
        /\ g = [j \in 1 .. k |-> g[j]]
    BY <1>5, <1>6, <2>2
  <2>5. \A j \in 1 .. m : f[j] = mem[b + k + j - 1]
    BY <1>5, <2>2
  <2>6. \A j \in 1 .. Vector : ~(j <= m) => g[j - m] = ZeroByte
    <3>1. \A j \in 1 .. Vector : ~(j <= m) => j - m \in 1 .. k
      BY <2>4
    <3> QED  BY <2>2, <3>1
  <2>7. seen = [j \in 1 .. m + k |-> IF j <= m THEN mem[b + k + j - 1] ELSE ZeroByte]
    BY <2>3, <2>4
  <2> HIDE DEF m
  <2>8. f \o g = [j \in 1 .. m + k |-> IF j <= m THEN f[j] ELSE g[j - m]]
    BY <2>4, Concatenation
  <2>9. \A j \in 1 .. m + k :
           (IF j <= m THEN f[j] ELSE g[j - m]) = (IF j <= m THEN mem[b + k + j - 1] ELSE ZeroByte)
    BY <2>4, <2>5, <2>6
  <2>10. f \o g = seen
    BY <2>7, <2>8, <2>9
  <2> QED  BY <2>10 DEF f, g
<1>9. i.op = "lvrx" => seen = Power!Fill(Power!ZeroByte, Vector - Power!Offset(t, i))
                                \o Power!Bytes(Power!Block(t, i), Power!Offset(t, i))
  <2> SUFFICES ASSUME i.op = "lvrx"
               PROVE  seen = Fill(ZeroByte, Vector - k) \o Power!Bytes(b, k)
    BY <1>5, SameValues
  <2>1. new = Shuffle(b, VectorMaskR(k))
    OBVIOUS
  <2> DEFINE f == Fill(ZeroByte, Vector - k)  g == Power!Bytes(b, k)
  <2>2. /\ f = [j \in 1 .. Vector - k |-> ZeroByte]
        /\ g = [j \in 1 .. k |-> mem[b + j - 1]]
    BY DEF Power!Bytes, Fill
  <2> HIDE DEF new, seen, a, k, b, f, g
  <2> DEFINE m == Vector - k
  <2>3. seen = [j \in 1 .. Vector |-> IF j <= m THEN ZeroByte ELSE mem[b + (j - m) - 1]]
    BY <1>4, <1>5, <2>1, RightPart
  <2>4. m \in Nat /\ k \in Nat /\ m + k = Vector /\ f = [j \in 1 .. m |-> f[j]]
        /\ g = [j \in 1 .. k |-> g[j]]
    BY <1>5, <1>6, <2>2
  <2>5. \A j \in 1 .. m : f[j] = ZeroByte
    BY <2>2
  <2>6. \A j \in 1 .. Vector : ~(j <= m) => g[j - m] = mem[b + (j - m) - 1]
    <3>1. \A j \in 1 .. Vector : ~(j <= m) => j - m \in 1 .. k
      BY <2>4
    <3> QED  BY <2>2, <3>1
  <2>7. seen = [j \in 1 .. m + k |-> IF j <= m THEN ZeroByte ELSE mem[b + (j - m) - 1]]
    BY <2>3, <2>4
  <2> HIDE DEF m
  <2>8. f \o g = [j \in 1 .. m + k |-> IF j <= m THEN f[j] ELSE g[j - m]]
    BY <2>4, Concatenation
  <2>9. \A j \in 1 .. m + k :
           (IF j <= m THEN f[j] ELSE g[j - m]) = (IF j <= m THEN ZeroByte ELSE mem[b + (j - m) - 1])
    <3> SUFFICES ASSUME NEW j \in 1 .. m + k
                 PROVE  /\ j <= m => f[j] = ZeroByte
                        /\ ~(j <= m) => g[j - m] = mem[b + (j - m) - 1]
      OBVIOUS
    <3>1. j \in 1 .. Vector /\ (j <= m => j \in 1 .. m)
      BY <2>4
    <3> QED  BY <2>5, <2>6, <3>1
  <2>10. f \o g = seen
    BY <2>7, <2>8, <2>9
  <2> QED  BY <2>10 DEF f, g
<1> DEFINE Partial(n) ==
      LET f == Power!Element(t, i, n) % Vector
      IN  SubSeq(seen, f + 1, f + n) = Power!Bytes(Power!Element(t, i, n), n)
<1>10. ASSUME NEW n \in {2, 4},
              \A j \in 1 .. n :
                 seen[(Power!Element(t, i, n) % Vector) + j] = mem[Aligned(t, i, n) + j - 1]
       PROVE  Partial(n)
  <2> DEFINE f == Power!Element(t, i, n) % Vector
  <2>1. f \in Int /\ Power!Element(t, i, n) = Aligned(t, i, n)
    BY <1>5, <1>6
  <2>2. Power!Bytes(Aligned(t, i, n), n) = [j \in 1 .. n |-> mem[Aligned(t, i, n) + j - 1]]
    BY DEF Power!Bytes
  <2>3. \A j \in 1 .. n : seen[f + j] = mem[Aligned(t, i, n) + j - 1]
    BY <1>10
  <2> HIDE DEF f, seen
  <2>4. SubSeq(seen, f + 1, f + n) = [j \in 1 .. (f + n) - (f + 1) + 1 |-> seen[(f + 1) + j - 1]]
    <3>1. f + 1 \in Int /\ f + n \in Int /\ f + 1 <= f + n + 1
      BY <2>1
    <3> QED  BY <3>1, SubSeqIs
  <2>5. (f + n) - (f + 1) + 1 = n /\ \A j \in 1 .. n : (f + 1) + j - 1 = f + j
    BY <2>1
  <2>6. SubSeq(seen, f + 1, f + n) = Power!Bytes(Aligned(t, i, n), n)
    BY <2>2, <2>3, <2>4, <2>5
  <2> QED  BY <2>1, <2>6 DEF f
<1>11. i.op = "lvewx" => Partial(4)
  <2> SUFFICES ASSUME i.op = "lvewx"
               PROVE  \A j \in 1 .. 4 :
                        seen[(Power!Element(t, i, 4) % Vector) + j] = mem[Aligned(t, i, 4) + j - 1]
    <3> HIDE DEF seen
    <3> QED  BY <1>10
  <2>1. new = Shuffle(b, VectorMaskL(0))
    OBVIOUS
  <2> DEFINE f == Power!Element(t, i, 4) % Vector
  <2>2. f \in 0 .. Vector - 4 /\ b + f = Aligned(t, i, 4) /\ b \in Nat
    BY <1>5
  <2> HIDE DEF new, seen, a, k, b, f
  <2>3. seen = [j \in 1 .. Vector |-> IF j <= Vector - 0 THEN mem[b + 0 + j - 1] ELSE ZeroByte]
    <3>1. b \in Int
      BY <1>5
    <3>2. Seen(Shuffle(b, VectorMaskL(0))) =
            [j \in 1 .. Vector |-> IF j <= Vector - 0 THEN mem[b + 0 + j - 1] ELSE ZeroByte]
      BY <1>6, <3>1, LeftPart
    <3> QED  BY <1>4, <2>1, <3>2
  <2>4. ASSUME NEW j \in 1 .. 4 PROVE seen[f + j] = mem[Aligned(t, i, 4) + j - 1]
    <3>1. f + j \in 1 .. Vector /\ f + j <= Vector - 0 /\ b + 0 + (f + j) - 1 = (b + f) + j - 1
      BY <1>6, <2>2
    <3>2. seen[f + j] = mem[b + 0 + (f + j) - 1]
      BY <2>3, <3>1
    <3> QED  BY <2>2, <3>1, <3>2
  <2> QED  BY <2>4 DEF f
<1>12. i.op = "lvehx" => Partial(2)
  <2> SUFFICES ASSUME i.op = "lvehx"
               PROVE  \A j \in 1 .. 2 :
                        seen[(Power!Element(t, i, 2) % Vector) + j] = mem[Aligned(t, i, 2) + j - 1]
    <3> HIDE DEF seen
    <3> QED  BY <1>10
  <2>1. new = [vr[t][i.v] EXCEPT ![first] = half[2], ![first + 1] = half[1]]
    OBVIOUS
  <2> DEFINE f == Power!Element(t, i, 2) % Vector
  <2>2. f \in 0 .. Vector - 2 /\ first + 2 = Vector - f /\ Aligned(t, i, 2) \in Nat
    BY <1>5
  <2>3. half = [j \in 1 .. 2 |-> mem[Aligned(t, i, 2) + j - 1]]
    <3>1. Aligned(t, i, 2) \in Int /\ 2 \in Nat
      BY <1>5
    <3> QED  BY <3>1, BytesAre
  <2>4. first \in Int
    <3>1. LaneOf(t, i, 2) \in Int
      BY <1>5, VectorSize DEF LaneOf
    <3> QED  BY <3>1
  <2> HIDE DEF new, seen, a, k, b, f, half, first
  <2>5. first = Vector - f - 2 /\ first \in Lane /\ first + 1 \in Lane
    BY <1>6, <2>2, <2>4 DEF Lane
  <2>6. new[first] = half[2] /\ new[first + 1] = half[1]
    BY <1>2, <2>1, <2>4, <2>5
  <2>7. seen[f + 1] = new[first + 1] /\ seen[f + 2] = new[first]
    <3>1. /\ f + 1 \in 1 .. Vector /\ f + 2 \in 1 .. Vector
          /\ Vector - (f + 1) = first + 1 /\ Vector - (f + 2) = first
      BY <1>6, <2>2, <2>5
    <3> QED  BY <1>4, <3>1 DEF Seen
  <2>8. half[1] = mem[Aligned(t, i, 2) + 1 - 1] /\ half[2] = mem[Aligned(t, i, 2) + 2 - 1]
    BY <2>3
  <2>9. \A j \in 1 .. 2 : seen[f + j] = mem[Aligned(t, i, 2) + j - 1]
    BY <2>6, <2>7, <2>8
  <2> QED  BY <2>9 DEF f
<1> HIDE DEF seen, new, a, b, k
<1>13. CASE ~(i.op \in {"lvx", "lvlx", "lvrx"})
  BY <1>1, <1>4, <1>11, <1>12, <1>13, SameTables
     DEF Power!LoadVector, VectorLoad, GuestVectors, Seen, seen
<1>14. CASE i.op \in {"lvx", "lvlx", "lvrx"}
  BY <1>1, <1>4, <1>7, <1>8, <1>9, <1>14, SameTables
     DEF Power!LoadVector, VectorLoad, GuestVectors, Seen, seen
<1> QED  BY <1>13, <1>14

(* A part of a vector, from the guest's byte f + 1 on, and the host's      *)
(* order of its bytes.                                                     *)
LEMMA PartIs ==
  ASSUME NEW t \in Thread, NEW a \in Int, NEW n \in Nat, NEW f \in Nat, f + n <= Vector,
         NEW x, NEW g, g = [k \in 1 .. n |-> x[Vector - f - n - 1 + k]],
         HostWrite(t, a, g)
  PROVE  Power!Put(t, a, SubSeq(Seen(x), f + 1, f + n))
<1> DEFINE s == SubSeq(Seen(x), f + 1, f + n)
<1>1. s = [k \in 1 .. n |-> Seen(x)[f + k]]
  <2>1. f + 1 \in Int /\ f + n \in Int /\ f + 1 <= f + n + 1
    OBVIOUS
  <2>2. s = [k \in 1 .. (f + n) - (f + 1) + 1 |-> Seen(x)[(f + 1) + k - 1]]
    BY <2>1, SubSeqIs
  <2>3. (f + n) - (f + 1) + 1 = n /\ \A k \in 1 .. n : (f + 1) + k - 1 = f + k
    OBVIOUS
  <2> HIDE DEF s
  <2> QED  BY <2>2, <2>3
<1>2. \A k \in 1 .. n : s[k] = x[Vector - f - k]
  <2> SUFFICES ASSUME NEW k \in 1 .. n PROVE s[k] = x[Vector - f - k]
    OBVIOUS
  <2>1. f + k \in 1 .. Vector /\ Vector - (f + k) = Vector - f - k
    BY VectorSize
  <2> HIDE DEF s
  <2> QED  BY <1>1, <2>1 DEF Seen
<1> HIDE DEF s
<1>3. s = [k \in 1 .. n |-> s[k]]
  BY <1>1
<1>4. Turn(s) = [k \in 1 .. n |-> s[n + 1 - k]]
  BY <1>3, TurnIs
<1>5. \A k \in 1 .. n : s[n + 1 - k] = x[Vector - f - n - 1 + k]
  <2> SUFFICES ASSUME NEW k \in 1 .. n PROVE s[n + 1 - k] = x[Vector - f - n - 1 + k]
    OBVIOUS
  <2>1. n + 1 - k \in 1 .. n /\ Vector - f - (n + 1 - k) = Vector - f - n - 1 + k
    BY VectorSize
  <2> QED  BY <1>2, <2>1
<1>6. Turn(s) = g
  BY <1>4, <1>5
<1> QED  BY <1>3, <1>6, PutIs DEF s

LEMMA WholeIs ==
  ASSUME NEW x
  PROVE  SubSeq(Seen(x), 0 + 1, 0 + Vector) = Seen(x)
<1> DEFINE m == 0 + 1  n == 0 + Vector
<1>1. m \in Int /\ n \in Int /\ m <= n + 1 /\ n - m + 1 = Vector
      /\ \A k \in 1 .. Vector : m + k - 1 = k
  BY VectorSize
<1> HIDE DEF m, n
<1>2. SubSeq(Seen(x), m, n) = [k \in 1 .. n - m + 1 |-> Seen(x)[m + k - 1]]
  BY <1>1, SubSeqIs
<1>3. Seen(x) = [k \in 1 .. Vector |-> Seen(x)[k]]
  BY DEF Seen
<1> QED  BY <1>1, <1>2, <1>3 DEF m, n

LEMMA StoreVectorPower ==
  ASSUME TypeInv, NEW t \in Thread, NEW i, IsAccess(i), Inside(t, i), StoreVector(t, i)
  PROVE  Power!StoreVector(t, i)
<1> DEFINE a == EA(t, i)  k == Shift(t, i)  b == Block(t, i)  x == vr[t][i.v]
           seen == GuestVectors[t][i.v]
<1>1. i.op \in VectorStore /\ i.v \in VR /\ UNCHANGED <<gpr, fpr, vr, eq>>
  BY DEF StoreVector, IsAccess
<1>2. seen = Seen(x)
  BY <1>1 DEF GuestVectors
<1>3. /\ a \in Nat /\ Power!EA(t, i) = a /\ k \in 0 .. Vector - 1 /\ Power!Offset(t, i) = k
      /\ b \in Nat /\ b + k = a /\ Power!Block(t, i) = b
      /\ \A n \in {2, 4} :
           /\ Aligned(t, i, n) \in Nat /\ Power!Element(t, i, n) = Aligned(t, i, n)
           /\ Power!Element(t, i, n) % Vector \in 0 .. Vector - n
           /\ n * LaneOf(t, i, n) + n = Vector - (Power!Element(t, i, n) % Vector)
  BY <1>1, BlockIs
<1>4. Vector \in Nat /\ Vector - k \in Nat
  BY <1>3, VectorSize
<1>5. i.op = "stvx" => Power!Put(t, Power!Block(t, i), seen)
  <2> SUFFICES ASSUME i.op = "stvx" PROVE Power!Put(t, b, seen)
    BY <1>3
  <2> DEFINE g == [j \in 1 .. Vector |-> x[VectorMaskL(0)[Vector - j]]]
  <2>1. HostWrite(t, b, g)
    BY <1>1 DEF StoreVector
  <2>2. g = [j \in 1 .. Vector |-> x[Vector - 0 - Vector - 1 + j]]
    <3> SUFFICES ASSUME NEW j \in 1 .. Vector
                 PROVE  VectorMaskL(0)[Vector - j] = Vector - 0 - Vector - 1 + j
      OBVIOUS
    <3>1. Vector - j \in Lane /\ ~(Vector - j < 0)
          /\ Vector - 1 - ((Vector - j) - 0) = Vector - 0 - Vector - 1 + j
      BY <1>4 DEF Lane
    <3> QED  BY <3>1 DEF VectorMaskL
  <2> HIDE DEF g, x, b, seen
  <2>3. b \in Int /\ 0 \in Nat /\ 0 + Vector <= Vector
    BY <1>3, <1>4
  <2>4. Power!Put(t, b, SubSeq(Seen(x), 0 + 1, 0 + Vector))
    BY <1>4, <2>1, <2>2, <2>3, PartIs
  <2> QED  BY <1>2, <2>4, WholeIs
<1>6. i.op = "stvlx" =>
        Power!Put(t, Power!EA(t, i), SubSeq(seen, 1, Vector - Power!Offset(t, i)))
  <2> SUFFICES ASSUME i.op = "stvlx" PROVE Power!Put(t, a, SubSeq(seen, 1, Vector - k))
    BY <1>3
  <2> DEFINE n == Vector - k  g == [j \in 1 .. n |-> x[Vector - 1 - (n - j)]]
  <2>1. HostWrite(t, a, g)
    BY <1>1 DEF StoreVector
  <2>2. g = [j \in 1 .. n |-> x[Vector - 0 - n - 1 + j]]
    <3>1. n \in Nat
      BY <1>4
    <3> HIDE DEF n
    <3>2. \A j \in 1 .. n : Vector - 1 - (n - j) = Vector - 0 - n - 1 + j
      BY <1>4, <3>1
    <3> QED  BY <3>2
  <2>3. a \in Int /\ 0 \in Nat /\ n \in Nat /\ 0 + n <= Vector /\ 0 + 1 = 1 /\ 0 + n = n
    BY <1>3, <1>4
  <2> HIDE DEF g, x, a, seen, n
  <2>4. Power!Put(t, a, SubSeq(Seen(x), 0 + 1, 0 + n))
    BY <2>1, <2>2, <2>3, PartIs
  <2> QED  BY <1>2, <2>3, <2>4 DEF n
<1>7. i.op = "stvrx" =>
        Power!Put(t, Power!Block(t, i), SubSeq(seen, Vector - Power!Offset(t, i) + 1, Vector))
  <2> SUFFICES ASSUME i.op = "stvrx" PROVE Power!Put(t, b, SubSeq(seen, Vector - k + 1, Vector))
    BY <1>3
  <2> DEFINE f == Vector - k  g == [j \in 1 .. k |-> x[j - 1]]
  <2>1. HostWrite(t, b, g)
    BY <1>1 DEF StoreVector
  <2>2. g = [j \in 1 .. k |-> x[Vector - f - k - 1 + j]]
    <3> SUFFICES ASSUME NEW j \in 1 .. k PROVE Vector - f - k - 1 + j = j - 1
      OBVIOUS
    <3> HIDE DEF k
    <3> QED  BY <1>3, <1>4
  <2>3. b \in Int /\ f \in Nat /\ k \in Nat /\ f + k <= Vector /\ f + k = Vector
    <3> HIDE DEF k, b
    <3> QED  BY <1>3, <1>4
  <2> HIDE DEF g, x, b, seen, f, k
  <2>4. Power!Put(t, b, SubSeq(Seen(x), f + 1, f + k))
    BY <2>1, <2>2, <2>3, PartIs
  <2> QED  BY <1>2, <2>3, <2>4 DEF f
<1>8. ASSUME NEW n \in {2, 4}, StoreLane(t, i, n)
      PROVE  LET f == Power!Element(t, i, n) % Vector
             IN  Power!Put(t, Power!Element(t, i, n), SubSeq(seen, f + 1, f + n))
  <2> DEFINE f == Power!Element(t, i, n) % Vector
             first == n * LaneOf(t, i, n)
             g == [j \in 1 .. n |-> x[first + n - j]]
             p == Aligned(t, i, n)
  <2>1. p \in Int /\ Power!Element(t, i, n) = p /\ f \in Nat /\ f + n <= Vector
        /\ first + n = Vector - f
    BY <1>3, VectorSize
  <2>2. HostWrite(t, p, Turn(g))
    BY <1>8 DEF StoreLane, PPC_STORE
  <2>3. n \in Nat /\ first \in Int
    <3>1. LaneOf(t, i, n) \in Int
      BY <1>3, VectorSize DEF LaneOf
    <3> QED  BY <3>1
  <2> HIDE DEF f, first, p
  <2>4. Turn(g) = [j \in 1 .. n |-> g[n + 1 - j]]
    <3>1. g = [j \in 1 .. n |-> g[j]]
      OBVIOUS
    <3> HIDE DEF g
    <3> QED  BY <2>3, <3>1, TurnIs
  <2>5. \A j \in 1 .. n : g[n + 1 - j] = x[Vector - f - n - 1 + j]
    <3> SUFFICES ASSUME NEW j \in 1 .. n PROVE g[n + 1 - j] = x[Vector - f - n - 1 + j]
      OBVIOUS
    <3>1. n + 1 - j \in 1 .. n /\ first + n - (n + 1 - j) = Vector - f - n - 1 + j
      BY <1>4, <2>1, <2>3
    <3> QED  BY <3>1
  <2>6. Turn(g) = [j \in 1 .. n |-> x[Vector - f - n - 1 + j]]
    BY <2>4, <2>5
  <2> HIDE DEF g, x, seen
  <2>7. Power!Put(t, p, SubSeq(Seen(x), f + 1, f + n))
    BY <2>1, <2>2, <2>3, <2>6, PartIs
  <2> QED  BY <1>2, <2>1, <2>7 DEF f
<1>9. i.op = "stvehx" => StoreLane(t, i, 2)
  BY DEF StoreVector
<1>10. i.op = "stvewx" => StoreLane(t, i, 4)
  BY DEF StoreVector
<1> HIDE DEF seen, a, b, k, x
<1>12. CASE i.op \in {"stvx", "stvlx", "stvrx"}
  BY <1>1, <1>5, <1>6, <1>7, <1>12, SameTables
     DEF Power!StoreVector, VectorStore, GuestVectors, Seen, seen
<1>13. CASE i.op = "stvehx"
  <2>1. LET f == Power!Element(t, i, 2) % Vector
        IN  Power!Put(t, Power!Element(t, i, 2), SubSeq(seen, f + 1, f + 2))
    BY <1>8, <1>9, <1>13
  <2> QED  BY <1>1, <1>13, <2>1, SameTables
           DEF Power!StoreVector, VectorStore, GuestVectors, Seen, seen
<1>14. CASE i.op = "stvewx"
  <2>1. LET f == Power!Element(t, i, 4) % Vector
        IN  Power!Put(t, Power!Element(t, i, 4), SubSeq(seen, f + 1, f + 4))
    BY <1>8, <1>10, <1>14
  <2> QED  BY <1>1, <1>14, <2>1, SameTables
           DEF Power!StoreVector, VectorStore, GuestVectors, Seen, seen
<1> QED  BY <1>1, <1>12, <1>13, <1>14 DEF VectorStore

LEMMA LoadControlPower ==
  ASSUME TypeInv, NEW t \in Thread, NEW i, IsAccess(i), Inside(t, i), LoadControl(t, i)
  PROVE  Power!LoadControl(t, i)
<1> DEFINE k == Shift(t, i)
           new == [j \in Lane |-> Numeral(IF i.op = "lvsl" THEN Vector - 1 - j + k
                                          ELSE 2 * Vector - 1 - j - k)]
           first == IF i.op = "lvsl" THEN k ELSE Vector - k
<1>1. i.op \in VectorControl /\ i.v \in VR /\ UNCHANGED <<mem, gpr, fpr, eq, resv>>
  BY DEF LoadControl, IsAccess
<1>2. vr' = [vr EXCEPT ![t][i.v] = new]
  BY DEF LoadControl
<1>3. k \in 0 .. Vector - 1 /\ Power!Offset(t, i) = k /\ Vector \in Nat
  BY <1>1, BlockIs, VectorSize
<1>4. GuestVectors' = [GuestVectors EXCEPT ![t][i.v] = Seen(new)]
  <2> HIDE DEF new
  <2> QED  BY <1>1, <1>2, Written, ZenonT(60)
<1>5. Seen(new) = [j \in 1 .. Vector |-> Numeral(first + j - 1)]
  <2> HIDE DEF k
  <2> SUFFICES ASSUME NEW j \in 1 .. Vector PROVE new[Vector - j] = Numeral(first + j - 1)
    BY DEF Seen
  <2>1. Vector - j \in Lane
    BY <1>3 DEF Lane
  <2>2. Vector - 1 - (Vector - j) + k = k + j - 1
        /\ 2 * Vector - 1 - (Vector - j) - k = (Vector - k) + j - 1
    BY <1>3
  <2> QED  BY <2>1, <2>2
<1>6. first = IF i.op = "lvsl" THEN Power!Offset(t, i) ELSE Vector - Power!Offset(t, i)
  BY <1>3
<1> HIDE DEF new, first, k
<1> QED
  BY <1>1, <1>4, <1>5, <1>6, SameTables, SameValues DEF Power!LoadControl, GuestVectors, Seen

-----------------------------------------------------------------------------
(* Instructions on vectors.  Elements are counted from the left by the     *)
(* guest and from the right by the host: element e of total is the host's  *)
(* total - e, and Flat of the one order is FromElements of the other.      *)

(* An element's width and how many of them a vector has.                   *)
Shape(n, total) == <<n, total>> \in {<<1, 16>>, <<2, 8>>, <<4, 4>>}

LEMMA Shapes ==
  ASSUME NEW n, NEW total, Shape(n, total)
  PROVE  /\ n \in {1, 2, 4} /\ total \in {4, 8, 16} /\ n * total = Vector
         /\ n \in Nat /\ total \in Nat /\ Vector = 16 /\ Vector \div n = total
         /\ 1 \in 1 .. total
<1>1. Vector = 16
  BY AccessAssumption
<1>2. CASE n = 1 /\ total = 16
  BY <1>1, <1>2
<1>3. CASE n = 2 /\ total = 8
  BY <1>1, <1>3
<1>4. CASE n = 4 /\ total = 4
  BY <1>1, <1>4
<1> QED  BY <1>2, <1>3, <1>4, Zenon DEF Shape

LEMMA HasShape == ASSUME NEW n \in {1, 2, 4} PROVE Shape(n, Vector \div n)
BY AccessAssumption DEF Shape

LEMMA Places ==
  ASSUME NEW n, NEW total, Shape(n, total), NEW k \in 1 .. Vector
  PROVE  /\ (k - 1) \div n \in 0 .. total - 1 /\ (k - 1) % n \in 0 .. n - 1
         /\ (Vector - k) \div n = total - 1 - ((k - 1) \div n)
         /\ (Vector - k) % n = n - 1 - ((k - 1) % n)
<1>1. Vector = 16
  BY AccessAssumption
<1>2. CASE n = 1 /\ total = 16
  BY <1>1, <1>2
<1>3. CASE n = 2 /\ total = 8
  BY <1>1, <1>3
<1>4. CASE n = 4 /\ total = 4
  BY <1>1, <1>4
<1> QED  BY <1>2, <1>3, <1>4, Zenon DEF Shape

LEMMA Lanes ==
  ASSUME NEW n, NEW total, Shape(n, total), NEW j \in Lane
  PROVE  j \div n \in 0 .. total - 1 /\ j % n \in 0 .. n - 1 /\ n - (j % n) \in 1 .. n
<1>1. Vector = 16 /\ j \in 0 .. 15
  BY AccessAssumption DEF Lane
<1>2. CASE n = 1 /\ total = 16
  BY <1>1, <1>2
<1>3. CASE n = 2 /\ total = 8
  BY <1>1, <1>3
<1>4. CASE n = 4 /\ total = 4
  BY <1>1, <1>4
<1> QED  BY <1>2, <1>3, <1>4, Zenon DEF Shape

Counted(x, n) == x = [k \in 1 .. n |-> x[k]]

Parted(h, n, total) == Counted(h, total) /\ \A e \in 1 .. total : Counted(h[e], n)

LEMMA FlatIs ==
  ASSUME NEW n, NEW total, Shape(n, total), NEW h, Parted(h, n, total)
  PROVE  Power!Flat(h) =
           [k \in 1 .. Vector |-> h[((k - 1) \div n) + 1][((k - 1) % n) + 1]]
<1>1. total \in Nat /\ 1 \in 1 .. total /\ n \in Nat /\ n * total = Vector
  BY Shapes, Zenon
<1>2. Len(h) = total
  BY <1>1, FunctionIs, Zenon DEF Counted, Parted
<1>3. Len(h[1]) = n
  BY <1>1, FunctionIs, Zenon DEF Counted, Parted
<1>4. Power!Flat(h) =
        [k \in 1 .. (n * total) |-> h[((k - 1) \div n) + 1][((k - 1) % n) + 1]]
  BY <1>2, <1>3, Zenon DEF Power!Flat
<1> QED  BY <1>1, <1>4, Zenon

LEMMA FlatSeen ==
  ASSUME NEW n, NEW total, Shape(n, total),
         NEW h, Parted(h, n, total),
         NEW z, \A j \in Lane : z[j] = h[total - (j \div n)][n - (j % n)]
  PROVE  Seen(z) = Power!Flat(h)
<1>1. Power!Flat(h) = [k \in 1 .. Vector |-> h[((k - 1) \div n) + 1][((k - 1) % n) + 1]]
  BY FlatIs, ZenonT(60)
<1>2. ASSUME NEW k \in 1 .. Vector
      PROVE  z[Vector - k] = h[((k - 1) \div n) + 1][((k - 1) % n) + 1]
  <2> DEFINE j == Vector - k  e == (k - 1) \div n  m == (k - 1) % n
  <2>1. /\ total \in Nat /\ n \in Nat /\ e \in 0 .. total - 1 /\ m \in 0 .. n - 1
        /\ j \div n = total - 1 - e /\ j % n = n - 1 - m
    BY Shapes, Places, Zenon
  <2>2. j \in Lane
    BY VectorSize DEF Lane
  <2> HIDE DEF e, m, j
  <2>3. z[j] = h[total - (j \div n)][n - (j % n)]
    BY <2>2, Zenon
  <2>4. total - (total - 1 - e) = e + 1 /\ n - (n - 1 - m) = m + 1
    BY <2>1
  <2>5. total - (j \div n) = e + 1 /\ n - (j % n) = m + 1
    BY <2>1, <2>4, Zenon
  <2>6. z[j] = h[e + 1][m + 1]
    BY <2>3, <2>5, Zenon
  <2> QED  BY <2>6, Zenon DEF e, m, j
<1> QED  BY <1>1, <1>2, Zenon DEF Seen

(* The guest's element of a vector is the host's of the register.          *)
LEMMA ElementIs ==
  ASSUME NEW n, NEW total, Shape(n, total), NEW x
  PROVE  /\ \A e \in 1 .. total :
               /\ Power!Elements(Seen(x), n)[e] = Element(x, n, total - e)
               /\ Counted(Power!Elements(Seen(x), n)[e], n)
         /\ \A e : Counted(Element(x, n, e), n)
         /\ Counted(Power!Elements(Seen(x), n), total)
<1>1. total \in {4, 8, 16} /\ n * total = Vector /\ n \in {1, 2, 4} /\ Vector \div n = total
      /\ Vector = 16
  BY Shapes, Zenon
<1>2. Len(Seen(x)) = Vector
  <2> DEFINE s == Seen(x)
  <2>1. s = [k \in 1 .. Vector |-> s[k]] /\ Vector \in Nat
    BY VectorSize DEF Seen
  <2> HIDE DEF s
  <2>2. Len(s) = Vector
    BY <2>1, FunctionIs
  <2> QED  BY <2>2 DEF s
<1>3. Power!Elements(Seen(x), n) =
        [d \in 1 .. total |-> SubSeq(Seen(x), n * (d - 1) + 1, n * d)]
  BY <1>1, <1>2, Zenon DEF Power!Elements
<1>4. \A e : Counted(Element(x, n, e), n)
  BY DEF Element, Counted
<1>5. ASSUME NEW e \in 1 .. total
      PROVE  Power!Elements(Seen(x), n)[e] = Element(x, n, total - e)
  <2> DEFINE p == n * (e - 1) + 1  q == n * e  c == n * (total - e)
  <2>1. p \in Int /\ q \in Int /\ q - p + 1 = n /\ p >= 1 /\ q <= Vector /\ p <= q + 1
        /\ c \in Int /\ c + n = Vector - p + 1
    <3>1. CASE n = 1
      BY <1>1, <3>1
    <3>2. CASE n = 2
      BY <1>1, <3>2
    <3>3. CASE n = 4
      BY <1>1, <3>3
    <3> QED  BY <1>1, <3>1, <3>2, <3>3, Zenon
  <2>2. Element(x, n, total - e) = [k \in 1 .. n |-> x[c + n - k]]
    BY Zenon DEF Element
  <2>3. Power!Elements(Seen(x), n)[e] = SubSeq(Seen(x), p, q)
    BY <1>3, Zenon
  <2> HIDE DEF p, q, c
  <2>4. SubSeq(Seen(x), p, q) = [k \in 1 .. q - p + 1 |-> Seen(x)[p + k - 1]]
    BY <2>1, SubSeqIs, ZenonT(60)
  <2>5. ASSUME NEW k \in 1 .. n
        PROVE  Seen(x)[p + k - 1] = x[c + n - k]
    <3>1. p + k - 1 \in 1 .. Vector /\ Vector - (p + k - 1) = c + n - k
      BY <1>1, <2>1
    <3>2. Seen(x)[p + k - 1] = x[Vector - (p + k - 1)]
      BY <3>1, Zenon DEF Seen
    <3> QED  BY <3>1, <3>2, Zenon
  <2>6. SubSeq(Seen(x), p, q) = [k \in 1 .. n |-> Seen(x)[p + k - 1]]
    BY <2>1, <2>4, Zenon
  <2> QED  BY <2>2, <2>3, <2>5, <2>6, Zenon
<1>6. Counted(Power!Elements(Seen(x), n), total)
  BY <1>3, Zenon DEF Counted
<1>7. ASSUME NEW e \in 1 .. total PROVE Counted(Power!Elements(Seen(x), n)[e], n)
  BY <1>4, <1>5
<1> QED  BY <1>4, <1>5, <1>6, <1>7, Zenon

-----------------------------------------------------------------------------
(* The operations on bytes and the tables are the architecture's.          *)
LEMMA SameOps ==
  /\ \A x, y : Power!Or(x, y) = Or(x, y) /\ Power!Xor(x, y) = Xor(x, y)
  /\ \A x, y : Power!Narrow(x, y) = Narrow(x, y) /\ Power!SignedBytes(x, y) = SignedBytes(x, y)
  /\ \A x, y : Power!OneBit(x, y) = OneBit(x, y) /\ Power!TwoBits(x, y) = TwoBits(x, y)
  /\ \A x : Power!Widen(x) = Widen(x) /\ Power!ByteValue(x) = ByteValue(x)
  /\ Power!Merge = Merge /\ Power!Splat = Splat /\ Power!SplatImmediate = SplatImmediate
  /\ Power!Pack = Pack /\ Power!Unpack = Unpack
BY DEF Power!Or, Or, Power!Xor, Xor, Power!Narrow, Narrow, Power!SignedBytes, SignedBytes,
   Power!OneBit, OneBit, Power!TwoBits, TwoBits, Power!Widen, Widen, Power!ByteValue, ByteValue,
   Power!Merge, Merge, Power!Splat, Splat, Power!SplatImmediate, SplatImmediate,
   Power!Pack, Pack, Power!Unpack, Unpack, Power!Fill, Fill, Power!Numeral, Numeral,
   Power!ZeroByte, ZeroByte

View(regs) == [n \in VR |-> Seen(regs[n])]

(* Byte k from the left is byte Vector - k of the register.                *)
LEMMA SeenByte ==
  ASSUME NEW x, NEW k \in 1 .. Vector
  PROVE  Vector - k \in Lane /\ Seen(x)[k] = x[Vector - k]
BY VectorSize DEF Seen, Lane

LEMMA SeenIs ==
  ASSUME NEW z, NEW s, Counted(s, Vector), \A k \in 1 .. Vector : z[Vector - k] = s[k]
  PROVE  Seen(z) = s
BY Zenon DEF Seen, Counted

LEMMA Both ==
  ASSUME NEW x, NEW y
  PROVE  /\ Counted(Seen(x) \o Seen(y), 2 * Vector)
         /\ \A k \in 1 .. 2 * Vector :
              (Seen(x) \o Seen(y))[k] = IF k <= Vector THEN x[Vector - k] ELSE y[2 * Vector - k]
<1> DEFINE f == Seen(x)  g == Seen(y)  n == Vector
<1>0. n = 16
  BY AccessAssumption
<1>1. f = [k \in 1 .. n |-> f[k]] /\ g = [k \in 1 .. n |-> g[k]] /\ n \in Nat
  BY VectorSize DEF Seen
<1>2. \A k \in 1 .. n : f[k] = x[n - k] /\ g[k] = y[n - k]
  BY DEF Seen
<1> HIDE DEF f, g, n
<1>3. f \o g = [k \in 1 .. n + n |-> IF k <= n THEN f[k] ELSE g[k - n]]
  BY <1>1, Concatenation
<1>4. n + n = 2 * n
  BY <1>1
<1>5. ASSUME NEW k \in 1 .. 2 * n
      PROVE  (IF k <= n THEN f[k] ELSE g[k - n]) = IF k <= n THEN x[n - k] ELSE y[2 * n - k]
  <2>1. CASE k <= n
    BY <1>1, <1>2, <2>1
  <2>2. CASE ~(k <= n)
    <3>1. k - n \in 1 .. n /\ n - (k - n) = 2 * n - k
      BY <1>0, <2>2
    <3> QED  BY <1>2, <2>2, <3>1, Zenon
  <2> QED  BY <2>1, <2>2
<1>6. f \o g = [k \in 1 .. 2 * n |-> IF k <= n THEN x[n - k] ELSE y[2 * n - k]]
  BY <1>3, <1>4, <1>5
<1>7. Counted(f \o g, 2 * n)
      /\ \A k \in 1 .. 2 * n : (f \o g)[k] = IF k <= n THEN x[n - k] ELSE y[2 * n - k]
  BY <1>6, Zenon DEF Counted
<1> QED  BY <1>7, Zenon DEF f, g, n

LEMMA OrSeen ==
  ASSUME NEW x, NEW y
  PROVE  /\ Seen([j \in Lane |-> Or(x[j], y[j])]) =
              [k \in 1 .. Vector |-> Power!Or(Seen(x)[k], Seen(y)[k])]
         /\ Seen(x) = [k \in 1 .. Vector |-> Power!Or(Seen(x)[k], Seen(x)[k])]
<1>1. \A b : Or(b, b) = b
  BY DEF Or
<1> QED  BY <1>1, SeenByte, SameOps, Zenon DEF Seen

LEMMA XorSeen ==
  ASSUME NEW x, NEW y
  PROVE  /\ Seen([j \in Lane |-> Xor(x[j], y[j])]) =
              [k \in 1 .. Vector |-> Power!Xor(Seen(x)[k], Seen(y)[k])]
         /\ Seen([j \in Lane |-> ZeroByte]) =
              [k \in 1 .. Vector |-> Power!Xor(Seen(x)[k], Seen(x)[k])]
<1>1. \A b : Xor(b, b) = ZeroByte
  BY DEF Xor
<1> QED  BY <1>1, SeenByte, SameOps, Zenon DEF Seen

(* Some byte: what bits 4 and 0 to 3 of a control select.                  *)
LEMMA ByteIs == ASSUME NEW b PROVE ByteValue(b) \in 0 .. 255
<1>1. CASE \E n \in 0 .. 255 : b = Numeral(n)
  BY <1>1, Zenon DEF ByteValue
<1>2. CASE \A n \in 0 .. 255 : b # Numeral(n)
  <2>1. 0 \in 0 .. 255
    OBVIOUS
  <2> QED  BY <1>2, <2>1, Zenon DEF ByteValue
<1> QED  BY <1>1, <1>2, Zenon

SelectedBytes(x, y, c) ==
  [k \in 1 .. Vector |-> (Seen(x) \o Seen(y))[(Power!ByteValue(Seen(c)[k]) % (2 * Vector)) + 1]]

LEMMA PermSeen ==
  ASSUME NEW x, NEW y, NEW c
  PROVE  Seen(perm8(x, y, c)) = SelectedBytes(x, y, c)
<1> DEFINE both == Seen(x) \o Seen(y)
           s == [k \in 1 .. Vector |-> both[(Power!ByteValue(Seen(c)[k]) % (2 * Vector)) + 1]]
           z == perm8(x, y, c)
<1>1. ASSUME NEW k \in 1 .. Vector
      PROVE  z[Vector - k] = s[k]
  <2> DEFINE n == ByteValue(c[Vector - k])  at == Vector - 1 - (n % Vector)
             m == (n % (2 * Vector)) + 1
  <2>1. s[k] = both[m]
    BY SeenByte, SameOps, Zenon
  <2>2. z[Vector - k] = IF (n \div Vector) % 2 = 1 THEN y[at] ELSE x[at]
    BY SeenByte, Zenon DEF perm8
  <2>3. /\ m \in 1 .. 2 * Vector
        /\ (n \div Vector) % 2 = 1 => ~(m <= Vector) /\ 2 * Vector - m = at
        /\ (n \div Vector) % 2 # 1 => m <= Vector /\ Vector - m = at
    <3>1. n \in 0 .. 255 /\ Vector = 16
      BY ByteIs, AccessAssumption
    <3> HIDE DEF n
    <3> QED  BY <3>1
  <2>4. both[m] = IF m <= Vector THEN x[Vector - m] ELSE y[2 * Vector - m]
    BY <2>3, Both, Zenon
  <2> HIDE DEF n, at, m, both, s, z
  <2> QED  BY <2>1, <2>2, <2>3, <2>4, Zenon
<1>2. Counted(s, Vector)
  BY Zenon DEF Counted
<1> HIDE DEF s, z
<1>3. Seen(z) = s
  BY <1>1, <1>2, SeenIs, Zenon
<1> QED  BY <1>3, Zenon DEF s, z, SelectedBytes

LEMMA ShiftSeen ==
  ASSUME NEW x, NEW y, NEW n \in 0 .. Vector - 1
  PROVE  Seen(alignr(x, y, Vector - n)) = SubSeq(Seen(x) \o Seen(y), n + 1, n + Vector)
<1> DEFINE both == Seen(x) \o Seen(y)
           z == alignr(x, y, Vector - n)
           s == [k \in 1 .. Vector |-> both[n + k]]
<1>1. Vector = 16 /\ n \in 0 .. 15
  BY AccessAssumption
<1>2. SubSeq(both, n + 1, n + Vector) = s
  <2> DEFINE p == n + 1  q == n + Vector
  <2>1. p \in Int /\ q \in Int /\ p <= q + 1 /\ q - p + 1 = Vector
    BY <1>1
  <2>2. \A k \in 1 .. Vector : p + k - 1 = n + k
    BY <1>1
  <2> HIDE DEF both, p, q
  <2>3. SubSeq(both, p, q) = [k \in 1 .. q - p + 1 |-> both[p + k - 1]]
    BY <2>1, SubSeqIs
  <2>4. SubSeq(both, p, q) = [k \in 1 .. Vector |-> both[n + k]]
    BY <2>1, <2>2, <2>3, Zenon
  <2> QED  BY <2>4, Zenon DEF p, q
<1>3. ASSUME NEW k \in 1 .. Vector PROVE z[Vector - k] = s[k]
  <2> DEFINE j == Vector - k  m == n + k
  <2> SUFFICES z[j] = s[k]
    OBVIOUS
  <2>1. z[j] = IF j + (Vector - n) < Vector THEN y[j + (Vector - n)] ELSE x[j + (Vector - n) - Vector]
    BY SeenByte, Zenon DEF alignr
  <2>2. /\ m \in 1 .. 2 * Vector
        /\ j + (Vector - n) < Vector <=> ~(m <= Vector)
        /\ ~(m <= Vector) => j + (Vector - n) = 2 * Vector - m
        /\ m <= Vector => j + (Vector - n) - Vector = Vector - m
    BY <1>1
  <2>3. both[m] = IF m <= Vector THEN x[Vector - m] ELSE y[2 * Vector - m]
    BY <2>2, Both, Zenon
  <2>4. s[k] = both[m]
    BY Zenon
  <2> HIDE DEF j, m, both, s, z
  <2>5. CASE m <= Vector
    BY <2>1, <2>2, <2>3, <2>4, <2>5, Zenon
  <2>6. CASE ~(m <= Vector)
    BY <2>1, <2>2, <2>3, <2>4, <2>6, Zenon
  <2> QED  BY <2>5, <2>6, Zenon
<1>4. Counted(s, Vector)
  BY Zenon DEF Counted
<1> HIDE DEF s, z
<1>5. Seen(z) = s
  BY <1>3, <1>4, SeenIs, Zenon
<1> QED  BY <1>2, <1>5 DEF z

-----------------------------------------------------------------------------
(* Elements that are moved.                                                *)

(* Elements of a register, put in another order, are elements again.       *)
LEMMA PartedIs ==
  ASSUME NEW n, NEW total, Shape(n, total),
         NEW h, Counted(h, total), \A e \in 1 .. total : \E x, d : h[e] = Element(x, n, d)
  PROVE  Parted(h, n, total)
BY Zenon DEF Parted, Element, Counted

(* z takes the elements of y and of x in turn, from the given one on.      *)
Interleaves(z, x, y, n, from) ==
  \A j \in Lane :
    z[j] = Element(IF (j \div n) % 2 = 0 THEN y ELSE x, n, from + ((j \div n) \div 2))[n - (j % n)]

Interleaved(x, y, n, total, first) ==
  Power!Flat([e \in 1 .. total |->
    Power!Elements(IF e % 2 = 1 THEN Seen(x) ELSE Seen(y), n)[first + ((e + 1) \div 2)]])

LEMMA MergeMoves ==
  ASSUME NEW n, NEW total, Shape(n, total), NEW first \in {0, total \div 2},
         NEW x, NEW y, NEW z, Interleaves(z, x, y, n, (total \div 2) - first)
  PROVE  Seen(z) = Interleaved(x, y, n, total, first)
<1> DEFINE h == [e \in 1 .. total |->
             Power!Elements(IF e % 2 = 1 THEN Seen(x) ELSE Seen(y), n)[first + ((e + 1) \div 2)]]
           half == total \div 2
           From(d) == Element(IF d % 2 = 0 THEN y ELSE x, n, (half - first) + (d \div 2))
<1>1. ASSUME NEW d \in 0 .. total - 1 PROVE h[total - d] = From(d)
  <2> DEFINE e == total - d  p == first + ((e + 1) \div 2)
  <2>1. /\ e \in 1 .. total /\ p \in 1 .. total /\ (e % 2 = 1 <=> ~(d % 2 = 0))
        /\ total - p = (half - first) + (d \div 2)
    <3>1. total \in {4, 8, 16}
      BY Shapes, Zenon
    <3>2. CASE total = 4
      BY <3>2
    <3>3. CASE total = 8
      BY <3>3
    <3>4. CASE total = 16
      BY <3>4
    <3> QED  BY <3>1, <3>2, <3>3, <3>4, Zenon
  <2>2. h[e] = Power!Elements(IF e % 2 = 1 THEN Seen(x) ELSE Seen(y), n)[p]
    BY <2>1, Zenon
  <2>3. /\ Power!Elements(Seen(x), n)[p] = Element(x, n, total - p)
        /\ Power!Elements(Seen(y), n)[p] = Element(y, n, total - p)
    BY <2>1, ElementIs
  <2> HIDE DEF e, p, h, half
  <2>4. h[e] = Element(IF d % 2 = 0 THEN y ELSE x, n, total - p)
    <3>1. CASE d % 2 = 0
      BY <2>1, <2>2, <2>3, <3>1, Zenon
    <3>2. CASE ~(d % 2 = 0)
      BY <2>1, <2>2, <2>3, <3>2, Zenon
    <3> QED  BY <3>1, <3>2
  <2>5. h[e] = From(d)
    BY <2>1, <2>4, Zenon
  <2> QED  BY <2>5 DEF e
<1>2. ASSUME NEW j \in Lane PROVE z[j] = h[total - (j \div n)][n - (j % n)]
  <2> HIDE DEF h
  <2>1. j \div n \in 0 .. total - 1
    BY Lanes, Zenon
  <2>2. z[j] = From(j \div n)[n - (j % n)]
    BY Zenon DEF Interleaves
  <2> HIDE DEF From
  <2> QED  BY <1>1, <2>1, <2>2, Zenon
<1>3. \A e \in 1 .. total : \E v, d : h[e] = Element(v, n, d)
  <2> SUFFICES ASSUME NEW e \in 1 .. total PROVE \E v, d : h[e] = Element(v, n, d)
    BY Zenon
  <2>1. total - e \in 0 .. total - 1 /\ total - (total - e) = e
    <3> total \in Nat
      BY Shapes, Zenon
    <3> QED  OBVIOUS
  <2> HIDE DEF h
  <2>2. h[total - (total - e)] = From(total - e)
    BY <1>1, <2>1, Zenon
  <2> QED  BY <2>1, <2>2, Zenon
<1>4. Counted(h, total)
  BY Zenon DEF Counted
<1> HIDE DEF h
<1>5. Parted(h, n, total)
  BY <1>3, <1>4, PartedIs, Zenon
<1>6. Seen(z) = Power!Flat(h)
  BY <1>2, <1>5, FlatSeen
<1> QED  BY <1>6 DEF h, Interleaved

LEMMA MergeSeen ==
  ASSUME NEW n \in {1, 2, 4}, NEW x, NEW y
  PROVE  /\ Seen(unpackhi(y, x, n)) = Power!Merged(Seen(x), Seen(y), n, FALSE)
         /\ Seen(unpacklo(y, x, n)) = Power!Merged(Seen(x), Seen(y), n, TRUE)
<1> DEFINE total == Vector \div n  half == total \div 2
<1>1. Shape(n, total)
  BY HasShape
<1>2. /\ half - 0 = half /\ half \in Nat /\ Vector \div (2 * n) = half
      /\ \A d \in 0 .. total - 1 : (half - half) + (d \div 2) = d \div 2
  BY AccessAssumption
<1>3. Interleaves(unpackhi(y, x, n), x, y, n, half - 0)
  BY <1>2, Zenon DEF unpackhi, FromElements, Interleaves
<1>4. Interleaves(unpacklo(y, x, n), x, y, n, half - half)
  <2> SUFFICES ASSUME NEW j \in Lane
               PROVE  unpacklo(y, x, n)[j] =
                        Element(IF (j \div n) % 2 = 0 THEN y ELSE x, n,
                                (half - half) + ((j \div n) \div 2))[n - (j % n)]
    BY Zenon DEF Interleaves
  <2>1. (half - half) + ((j \div n) \div 2) = (j \div n) \div 2
    BY <1>1, <1>2, Lanes, Zenon
  <2>2. unpacklo(y, x, n)[j] =
          Element(IF (j \div n) % 2 = 0 THEN y ELSE x, n, (j \div n) \div 2)[n - (j % n)]
    BY Zenon DEF unpacklo, FromElements
  <2> QED  BY <2>1, <2>2, Zenon
<1>5. 0 \in {0, half} /\ half \in {0, half}
  OBVIOUS
<1> HIDE DEF total
<1>6. Seen(unpackhi(y, x, n)) = Interleaved(x, y, n, total, 0)
  BY <1>1, <1>3, <1>5, MergeMoves
<1>7. Seen(unpacklo(y, x, n)) = Interleaved(x, y, n, total, half)
  BY <1>1, <1>4, <1>5, MergeMoves, ZenonT(60)
<1> QED  BY <1>6, <1>7, Zenon DEF Power!Merged, Interleaved, total

LEMMA SplatSeen ==
  ASSUME NEW n, NEW total, Shape(n, total), NEW imm \in 0 .. total - 1, NEW x
  PROVE  Seen(Splatted(x, n, imm)) =
           Power!Flat([e \in 1 .. total |-> Power!Elements(Seen(x), n)[imm + 1]])
<1> DEFINE one == Power!Elements(Seen(x), n)[imm + 1]
           h == [e \in 1 .. total |-> one]
           z == Splatted(x, n, imm)
<1>1. total \in Nat /\ Vector \div n = total
  BY Shapes, Zenon
<1>2. imm + 1 \in 1 .. total /\ total - (imm + 1) = total - 1 - imm
  BY <1>1
<1>3. one = Element(x, n, total - 1 - imm)
  BY <1>2, ElementIs
<1> HIDE DEF one
<1>4. Parted(h, n, total)
  <2>1. Counted(h, total) /\ \A e \in 1 .. total : h[e] = one
    BY Zenon DEF Counted
  <2> HIDE DEF h
  <2> QED  BY <1>3, <2>1, PartedIs, Zenon
<1>5. ASSUME NEW j \in Lane PROVE z[j] = h[total - (j \div n)][n - (j % n)]
  <2>1. total - (j \div n) \in 1 .. total
    <3>1. j \div n \in 0 .. total - 1
      BY Lanes, Zenon
    <3> QED  BY <1>1, <3>1
  <2>2. z[j] = one[n - (j % n)]
    BY <1>1, <1>3, Zenon DEF Splatted, FromElements
  <2> QED  BY <2>1, <2>2, Zenon
<1> HIDE DEF h, z
<1>6. Seen(z) = Power!Flat(h)
  BY <1>4, <1>5, FlatSeen
<1> QED  BY <1>6 DEF h, z, one

Repeating(one, n) == [j \in Lane |-> one[n - (j % n)]]

LEMMA ImmediateSeen ==
  ASSUME NEW n, NEW total, Shape(n, total), NEW one, Counted(one, n)
  PROVE  Seen(Repeating(one, n)) = Power!Flat(Fill(one, total))
<1> DEFINE h == Fill(one, total)  z == Repeating(one, n)
<1>1. Parted(h, n, total)
  BY Zenon DEF Parted, Counted, Fill
<1>2. ASSUME NEW j \in Lane PROVE z[j] = h[total - (j \div n)][n - (j % n)]
  <2>1. total - (j \div n) \in 1 .. total
    <3>1. j \div n \in 0 .. total - 1 /\ total \in Nat
      BY Lanes, Shapes, Zenon
    <3> QED  BY <3>1
  <2> QED  BY <2>1, Zenon DEF Repeating, Fill
<1> HIDE DEF h, z
<1>3. Seen(z) = Power!Flat(h)
  BY <1>1, <1>2, FlatSeen
<1> QED  BY <1>3 DEF h, z

LEMMA SignedBytesAre ==
  ASSUME NEW n \in {1, 2, 4}, NEW imm
  PROVE  Counted(SignedBytes(imm, n), n)
<1> DEFINE f == Fill(Numeral(IF imm < 0 THEN 255 ELSE 0), n - 1)  g == <<Numeral(imm)>>
           m == n - 1  one == 1
<1>1. f = [k \in 1 .. m |-> f[k]] /\ m \in Nat /\ m + one = n
  BY DEF Fill
<1>2. g = [k \in 1 .. one |-> g[k]] /\ one \in Nat
  OBVIOUS
<1>3. SignedBytes(imm, n) = f \o g
  BY Zenon DEF SignedBytes
<1> HIDE DEF f, g, m, one
<1>4. f \o g = [k \in 1 .. m + one |-> IF k <= m THEN f[k] ELSE g[k - m]]
  BY <1>1, <1>2, Concatenation
<1>5. Counted(f \o g, n)
  BY <1>1, <1>4, Zenon DEF Counted
<1> QED  BY <1>3, <1>5, Zenon

(* Two bits at a time, the complement of imm.                              *)
LEMMA TwoBitsAre ==
  ASSUME NEW imm \in 0 .. 255, NEW e \in 0 .. 3
  PROVE  /\ TwoBits(imm, e) \in 0 .. 3
         /\ LET part(k) == 3 - TwoBits(imm, k)
            IN  TwoBits(part(0) + 4 * part(1) + 16 * part(2) + 64 * part(3), e) = part(e)
<1> DEFINE b(k) == TwoBits(imm, k)
           all == (3 - b(0)) + 4 * (3 - b(1)) + 16 * (3 - b(2)) + 64 * (3 - b(3))
<1>1. b(0) \in 0 .. 3 /\ b(1) \in 0 .. 3 /\ b(2) \in 0 .. 3 /\ b(3) \in 0 .. 3
  BY DEF TwoBits
<1>2. \A n \in 0 .. 255 :
        /\ TwoBits(n, 0) = n % 4 /\ TwoBits(n, 1) = (n \div 4) % 4
        /\ TwoBits(n, 2) = (n \div 16) % 4 /\ TwoBits(n, 3) = (n \div 64) % 4
  BY DEF TwoBits
<1> HIDE DEF b
<1>3. all \in 0 .. 255
  BY <1>1
<1>4. /\ all % 4 = 3 - b(0) /\ (all \div 4) % 4 = 3 - b(1)
      /\ (all \div 16) % 4 = 3 - b(2) /\ (all \div 64) % 4 = 3 - b(3)
  BY <1>1
<1> HIDE DEF all
<1>5. /\ TwoBits(all, 0) = 3 - b(0) /\ TwoBits(all, 1) = 3 - b(1)
      /\ TwoBits(all, 2) = 3 - b(2) /\ TwoBits(all, 3) = 3 - b(3)
  BY <1>2, <1>3, <1>4, Zenon
<1>6. b(e) \in 0 .. 3 /\ TwoBits(all, e) = 3 - b(e)
  <2>1. e \in {0, 1, 2, 3}
    OBVIOUS
  <2> QED  BY <1>1, <1>5, <2>1, Zenon
<1> QED  BY <1>6, Zenon DEF b, all

LEMMA PermuteWordsSeen ==
  ASSUME NEW x, NEW imm \in 0 .. 255
  PROVE  LET part(k) == 3 - TwoBits(imm, k)
         IN  Seen(shuffle32(x, part(0) + 4 * part(1) + 16 * part(2) + 64 * part(3))) =
               Power!Flat([e \in 1 .. 4 |-> Power!Elements(Seen(x), 4)[TwoBits(imm, 4 - e) + 1]])
<1> DEFINE part(k) == 3 - TwoBits(imm, k)
           all == part(0) + 4 * part(1) + 16 * part(2) + 64 * part(3)
           z == shuffle32(x, all)
           h == [e \in 1 .. 4 |-> Power!Elements(Seen(x), 4)[TwoBits(imm, 4 - e) + 1]]
<1>1. Shape(4, 4)
  BY DEF Shape
<1>2. ASSUME NEW e \in 1 .. 4 PROVE h[e] = Element(x, 4, part(4 - e))
  <2>1. 4 - e \in 0 .. 3
    OBVIOUS
  <2>2. TwoBits(imm, 4 - e) \in 0 .. 3
    BY <2>1, TwoBitsAre, Zenon
  <2>3. TwoBits(imm, 4 - e) + 1 \in 1 .. 4 /\ 4 - (TwoBits(imm, 4 - e) + 1) = part(4 - e)
    BY <2>2
  <2>4. Power!Elements(Seen(x), 4)[TwoBits(imm, 4 - e) + 1] =
          Element(x, 4, 4 - (TwoBits(imm, 4 - e) + 1))
    BY <1>1, <2>3, ElementIs
  <2> QED  BY <2>3, <2>4, Zenon
<1>3. ASSUME NEW j \in Lane PROVE z[j] = h[4 - (j \div 4)][4 - (j % 4)]
  <2> DEFINE d == j \div 4
  <2>1. d \in 0 .. 3
    <3>1. d \in 0 .. 4 - 1
      BY <1>1, Lanes
    <3> QED  BY <3>1
  <2> HIDE DEF d
  <2>2. TwoBits(all, d) = part(d)
    BY <2>1, TwoBitsAre, Zenon
  <2>3. z[j] = Element(x, 4, TwoBits(all, d))[4 - (j % 4)]
    BY Zenon DEF shuffle32, FromElements, d
  <2>4. 4 - d \in 1 .. 4 /\ 4 - (4 - d) = d
    BY <2>1
  <2> HIDE DEF h, z, all
  <2>5. h[4 - d] = Element(x, 4, part(d))
    BY <1>2, <2>4, Zenon
  <2> HIDE DEF part
  <2>6. z[j] = h[4 - d][4 - (j % 4)]
    BY <2>2, <2>3, <2>5, Zenon
  <2> QED  BY <2>6, Zenon DEF d
<1>4. Counted(h, 4)
  BY Zenon DEF Counted
<1>5. Parted(h, 4, 4)
  <2> HIDE DEF h, part
  <2>1. \A e \in 1 .. 4 : \E v, d : h[e] = Element(v, 4, d)
    BY <1>2, Zenon
  <2> QED  BY <1>1, <1>4, <2>1, PartedIs
<1> HIDE DEF h, z, all, part
<1>6. Seen(z) = Power!Flat(h)
  BY <1>1, <1>3, <1>5, FlatSeen
<1> QED  BY <1>6, Zenon DEF h, z, all, part

(* Which word the rotations take.                                          *)
LEMMA RotationsAre ==
  ASSUME NEW rot \in 0 .. 3, NEW e \in 0 .. 3
  PROVE  TwoBits(Rotations[rot + 1], e) = 3 - ((3 - e + rot) % 4)
<1>1. rot \in {0, 1, 2, 3} /\ e \in {0, 1, 2, 3}
  OBVIOUS
<1>2. CASE rot = 0
  BY <1>1, <1>2 DEF TwoBits, Rotations
<1>3. CASE rot = 1
  BY <1>1, <1>3 DEF TwoBits, Rotations
<1>4. CASE rot = 2
  BY <1>1, <1>4 DEF TwoBits, Rotations
<1>5. CASE rot = 3
  BY <1>1, <1>5 DEF TwoBits, Rotations
<1> QED  BY <1>1, <1>2, <1>3, <1>4, <1>5, Zenon

InsertedWords(x, y, mask, rot) ==
  [e \in 1 .. 4 |-> IF OneBit(mask, 4 - e) = 1
                   THEN Power!Elements(Seen(x), 4)[((e - 1 + rot) % 4) + 1]
                   ELSE Power!Elements(Seen(y), 4)[e]]

LEMMA RotateWordsSeen ==
  ASSUME NEW x, NEW y, NEW mask, NEW rot \in 0 .. 3
  PROVE  Seen(blend(y, shuffle32(x, Rotations[rot + 1]), mask)) =
           Power!Flat(InsertedWords(x, y, mask, rot))
<1> DEFINE turned == shuffle32(x, Rotations[rot + 1])
           z == blend(y, turned, mask)
           h == [e \in 1 .. 4 |->
             IF OneBit(mask, 4 - e) = 1
             THEN Power!Elements(Seen(x), 4)[((e - 1 + rot) % 4) + 1]
             ELSE Power!Elements(Seen(y), 4)[e]]
           From(d) == TwoBits(Rotations[rot + 1], d)
<1>1. Shape(4, 4)
  BY DEF Shape
<1>2. ASSUME NEW d \in 0 .. 3 PROVE Element(turned, 4, d) = Element(x, 4, From(d))
  <2> SUFFICES ASSUME NEW k \in 1 .. 4
               PROVE  turned[4 * d + 4 - k] = Element(x, 4, From(d))[k]
    BY Zenon DEF Element
  <2> DEFINE j == 4 * d + 4 - k
  <2>1. j \in 0 .. 15 /\ j \div 4 = d /\ 4 - (j % 4) = k
    OBVIOUS
  <2>2. j \in Lane
    BY <2>1, AccessAssumption DEF Lane
  <2> HIDE DEF j
  <2>3. turned[j] = Element(x, 4, TwoBits(Rotations[rot + 1], j \div 4))[4 - (j % 4)]
    BY <2>2, Zenon DEF shuffle32, FromElements
  <2>4. turned[j] = Element(x, 4, From(d))[k]
    BY <2>1, <2>3, Zenon
  <2> QED  BY <2>4, Zenon DEF j
<1>3. ASSUME NEW e \in 1 .. 4
      PROVE  h[e] = Element(IF OneBit(mask, 4 - e) = 1 THEN turned ELSE y, 4, 4 - e)
  <2> DEFINE p == ((e - 1 + rot) % 4) + 1
  <2>1. 4 - e \in 0 .. 3 /\ p \in 1 .. 4 /\ 4 - p = 3 - ((3 - (4 - e) + rot) % 4)
    OBVIOUS
  <2>2. From(4 - e) = 4 - p
    BY <2>1, RotationsAre, Zenon
  <2>3. /\ Power!Elements(Seen(x), 4)[p] = Element(x, 4, 4 - p)
        /\ Power!Elements(Seen(y), 4)[e] = Element(y, 4, 4 - e)
    <3> HIDE DEF p
    <3> QED  BY <1>1, <2>1, ElementIs
  <2>4. h[e] = IF OneBit(mask, 4 - e) = 1 THEN Power!Elements(Seen(x), 4)[p]
               ELSE Power!Elements(Seen(y), 4)[e]
    BY Zenon
  <2>5. Element(turned, 4, 4 - e) = Element(x, 4, From(4 - e))
    BY <1>2, <2>1, Zenon
  <2> HIDE DEF p, h, turned, From
  <2> QED  BY <2>2, <2>3, <2>4, <2>5, Zenon
<1>4. ASSUME NEW j \in Lane PROVE z[j] = h[4 - (j \div 4)][4 - (j % 4)]
  <2> DEFINE d == j \div 4
  <2>1. d \in 0 .. 3
    <3>1. d \in 0 .. 4 - 1
      BY <1>1, Lanes
    <3> QED  BY <3>1
  <2>2. z[j] = Element(IF OneBit(mask, d) = 1 THEN turned ELSE y, 4, d)[4 - (j % 4)]
    BY Zenon DEF blend, FromElements
  <2> HIDE DEF d, h, z, turned
  <2>3. 4 - d \in 1 .. 4 /\ 4 - (4 - d) = d
    BY <2>1
  <2>4. h[4 - d] = Element(IF OneBit(mask, d) = 1 THEN turned ELSE y, 4, d)
    BY <1>3, <2>3, Zenon
  <2>5. z[j] = h[4 - d][4 - (j % 4)]
    BY <2>2, <2>4, Zenon
  <2> QED  BY <2>5, Zenon DEF d
<1>5. Counted(h, 4)
  BY Zenon DEF Counted
<1>6. Parted(h, 4, 4)
  <2> HIDE DEF h, turned
  <2>1. \A e \in 1 .. 4 : \E v, d : h[e] = Element(v, 4, d)
    BY <1>3, Zenon
  <2> QED  BY <1>1, <1>5, <2>1, PartedIs
<1> HIDE DEF h, z
<1>7. Seen(z) = Power!Flat(h)
  BY <1>1, <1>4, <1>6, FlatSeen
<1> QED  BY <1>7, Zenon DEF h, z, InsertedWords

-----------------------------------------------------------------------------
(* Elements that become narrower or wider.                                 *)

LEMMA PartsAre ==
  ASSUME NEW n \in {1, 2, 4}, NEW m \in {8, 32}, NEW s, Counted(s, m)
  PROVE  Power!Elements(s, n) =
           [e \in 1 .. (m \div n) |-> [k \in 1 .. n |-> s[n * (e - 1) + k]]]
<1>1. Len(s) = m
  BY FunctionIs DEF Counted
<1>2. ASSUME NEW e \in 1 .. (m \div n)
      PROVE  SubSeq(s, n * (e - 1) + 1, n * e) = [k \in 1 .. n |-> s[n * (e - 1) + k]]
  <2> DEFINE b == n * (e - 1)  p == b + 1  q == n * e
  <2>1. b \in Int /\ p \in Int /\ q \in Int /\ p <= q + 1 /\ q - p + 1 = n
    <3>1. CASE n = 1
      BY <3>1
    <3>2. CASE n = 2
      BY <3>2
    <3>3. CASE n = 4
      BY <3>3
    <3> QED  BY <3>1, <3>2, <3>3
  <2>2. \A k \in 1 .. n : p + k - 1 = b + k
    <3> HIDE DEF b
    <3> QED  BY <2>1
  <2> HIDE DEF b, p, q
  <2>3. SubSeq(s, p, q) = [k \in 1 .. q - p + 1 |-> s[p + k - 1]]
    BY <2>1, SubSeqIs
  <2>4. SubSeq(s, p, q) = [k \in 1 .. n |-> s[b + k]]
    BY <2>1, <2>2, <2>3, Zenon
  <2> QED  BY <2>4, Zenon DEF b, p, q
<1> QED  BY <1>1, <1>2, Zenon DEF Power!Elements

(* Elements of two vectors, one behind the other.                          *)
Gathered(x, y, n, total, e) ==
  IF e <= total THEN Element(x, n, total - e) ELSE Element(y, n, (2 * total) - e)

LEMMA BothElements ==
  ASSUME NEW n, NEW total, Shape(n, total), NEW x, NEW y, NEW e \in 1 .. 2 * total
  PROVE  /\ Power!Elements(Seen(x) \o Seen(y), n)[e] = Gathered(x, y, n, total, e)
         /\ Counted(Gathered(x, y, n, total, e), n)
<1> DEFINE both == Seen(x) \o Seen(y)
<1>1. n \in {1, 2, 4} /\ total \in {4, 8, 16} /\ n * total = Vector /\ Vector = 16
  BY Shapes, Zenon
<1>2. Counted(both, 32)
  <2>1. 2 * Vector = 32
    BY <1>1
  <2> QED  BY <2>1, Both, Zenon
<1> HIDE DEF both
<1>3. 32 \div n = 2 * total
  <2>1. CASE n = 1
    BY <1>1, <2>1
  <2>2. CASE n = 2
    BY <1>1, <2>2
  <2>3. CASE n = 4
    BY <1>1, <2>3
  <2> QED  BY <1>1, <2>1, <2>2, <2>3, Zenon
<1>4. Power!Elements(both, n)[e] = [k \in 1 .. n |-> both[n * (e - 1) + k]]
  <2>1. Power!Elements(both, n) =
          [d \in 1 .. (32 \div n) |-> [k \in 1 .. n |-> both[n * (d - 1) + k]]]
    <3>1. n \in {1, 2, 4} /\ 32 \in {8, 32}
      BY <1>1
    <3> QED  BY <1>2, <3>1, PartsAre, ZenonT(60)
  <2> QED  BY <1>3, <2>1, Zenon
<1>5. ASSUME NEW k \in 1 .. n
      PROVE  both[n * (e - 1) + k] = Gathered(x, y, n, total, e)[k]
  <2> DEFINE p == n * (e - 1) + k  a == n * (total - e) + n - k
             b == n * ((2 * total) - e) + n - k
  <2>1. /\ p \in 1 .. 2 * Vector /\ (p <= Vector <=> e <= total)
        /\ Vector - p = a /\ 2 * Vector - p = b
    <3>1. CASE n = 1
      BY <1>1, <3>1
    <3>2. CASE n = 2
      BY <1>1, <3>2
    <3>3. CASE n = 4
      BY <1>1, <3>3
    <3> QED  BY <1>1, <3>1, <3>2, <3>3, Zenon
  <2>2. both[p] = IF p <= Vector THEN x[Vector - p] ELSE y[2 * Vector - p]
    BY <2>1, Both, Zenon DEF both
  <2>3. Element(x, n, total - e)[k] = x[a] /\ Element(y, n, (2 * total) - e)[k] = y[b]
    BY Zenon DEF Element
  <2> HIDE DEF p, a, b
  <2>4. CASE e <= total
    <3>1. both[p] = Gathered(x, y, n, total, e)[k]
      BY <2>1, <2>2, <2>3, <2>4, Zenon DEF Gathered
    <3> QED  BY <3>1 DEF p
  <2>5. CASE ~(e <= total)
    <3>1. both[p] = Gathered(x, y, n, total, e)[k]
      BY <2>1, <2>2, <2>3, <2>5, Zenon DEF Gathered
    <3> QED  BY <3>1 DEF p
  <2> QED  BY <2>4, <2>5, Zenon
<1>6. Counted(Gathered(x, y, n, total, e), n)
  BY Zenon DEF Gathered, Element, Counted
<1>7. Power!Elements(both, n)[e] = Gathered(x, y, n, total, e)
  BY <1>4, <1>5, <1>6, Zenon DEF Counted
<1> QED  BY <1>6, <1>7, Zenon DEF both

LEMMA NarrowIs ==
  ASSUME NEW op \in DOMAIN Pack, NEW s, Counted(s, Pack[op])
  PROVE  Counted(Narrow(op, s), Pack[op] \div 2)
<1>1. CASE op = "vpkuwum"
  <2>1. Pack[op] = 4
    BY <1>1 DEF Pack
  <2>2. Pack[op] \div 2 = 2
    BY <2>1
  <2> DEFINE m == 3  n == 4
  <2>3. m \in Int /\ n \in Int /\ m <= n + 1 /\ n - m + 1 = 2
    OBVIOUS
  <2> HIDE DEF m, n
  <2>4. SubSeq(s, m, n) = [k \in 1 .. n - m + 1 |-> s[m + k - 1]]
    BY <2>3, SubSeqIs
  <2>5. Counted(SubSeq(s, m, n), 2)
    BY <2>3, <2>4, Zenon DEF Counted
  <2>6. Counted(SubSeq(s, 3, 4), 2)
    BY <2>5, Zenon DEF m, n
  <2> QED  BY <1>1, <2>2, <2>6, Zenon DEF Narrow
<1>2. CASE op # "vpkuwum"
  <2>1. Pack[op] \in {2, 4}
    BY DEF Pack
  <2>2. Pack[op] \in Nat
    BY <2>1
  <2>3. Len(s) = Pack[op]
    BY <2>2, FunctionIs DEF Counted
  <2> QED  BY <1>2, <2>3, Zenon DEF Narrow, Counted
<1> QED  BY <1>1, <1>2

(* The bytes of what a pack leaves.                                        *)
PackByte(op, x, y, j) ==
  LET n == Pack[op]
      m == n \div 2
      total == Vector \div n
  IN  Narrow(op, Gathered(x, y, n, total, (2 * total) - (j \div m)))[m - (j % m)]

IsPack(z, op, x, y) == \A j \in Lane : z[j] = PackByte(op, x, y, j)

PackedElements(op, x, y) ==
  [e \in 1 .. (2 * (Vector \div Pack[op])) |->
     Narrow(op, Power!Elements(Seen(x) \o Seen(y), Pack[op])[e])]

LEMMA PackSeen ==
  ASSUME NEW op \in DOMAIN Pack, NEW x, NEW y, NEW z, IsPack(z, op, x, y)
  PROVE  Seen(z) = Power!Flat(PackedElements(op, x, y))
<1> DEFINE n == Pack[op]  total == Vector \div n  m == n \div 2  all == 2 * total
           h == [e \in 1 .. all |-> Narrow(op, Power!Elements(Seen(x) \o Seen(y), n)[e])]
<1>1. n \in {2, 4}
  BY DEF Pack
<1>2. Shape(n, total) /\ Shape(m, all)
  BY <1>1, AccessAssumption DEF Shape
<1>3. ASSUME NEW e \in 1 .. all PROVE h[e] = Narrow(op, Gathered(x, y, n, total, e))
                                      /\ Counted(h[e], m)
  <2>1. /\ Power!Elements(Seen(x) \o Seen(y), n)[e] = Gathered(x, y, n, total, e)
        /\ Counted(Gathered(x, y, n, total, e), n)
    BY <1>2, BothElements
  <2>2. h[e] = Narrow(op, Gathered(x, y, n, total, e))
    BY <2>1, Zenon
  <2>3. Counted(Narrow(op, Gathered(x, y, n, total, e)), m)
    BY <2>1, NarrowIs, Zenon
  <2> HIDE DEF h
  <2> QED  BY <2>2, <2>3, Zenon
<1>4. Parted(h, m, all)
  <2>1. Counted(h, all)
    BY Zenon DEF Counted
  <2> QED  BY <1>3, <2>1, Zenon DEF Parted
<1>5. ASSUME NEW j \in Lane PROVE z[j] = h[all - (j \div m)][m - (j % m)]
  <2>1. all - (j \div m) \in 1 .. all
    <3>1. j \div m \in 0 .. all - 1 /\ all \in Nat
      BY <1>2, Lanes, Shapes, Zenon
    <3> HIDE DEF all, m
    <3> QED  BY <3>1
  <2>2. h[all - (j \div m)] = Narrow(op, Gathered(x, y, n, total, all - (j \div m)))
    BY <1>3, <2>1, Zenon
  <2>3. z[j] = Narrow(op, Gathered(x, y, n, total, all - (j \div m)))[m - (j % m)]
    BY Zenon DEF IsPack, PackByte
  <2> QED  BY <2>2, <2>3, Zenon
<1> HIDE DEF h, m, all, n, total
<1>6. Seen(z) = Power!Flat(h)
  BY <1>2, <1>4, <1>5, FlatSeen
<1> QED  BY <1>6, Zenon DEF h, all, total, n, PackedElements

LEMMA PackUnsignedSeen ==
  ASSUME NEW x, NEW y
  PROVE  IsPack(packus(y, x), "vpkshus", x, y)
<1> SUFFICES ASSUME NEW j \in Lane PROVE packus(y, x)[j] = PackByte("vpkshus", x, y, j)
  BY Zenon DEF IsPack
<1>1. Vector = 16 /\ Pack["vpkshus"] = 2
  BY AccessAssumption DEF Pack
<1> DEFINE d == j \div 1
<1>2. 2 \div 2 = 1 /\ Vector \div 2 = 8 /\ 2 * 8 = 16
  BY <1>1
<1>3. /\ d < 8 <=> ~(16 - d <= 8)
      /\ 16 - (16 - d) = d /\ 8 - (16 - d) = d - 8
  <2>1. d \in 0 .. 15
    BY <1>1 DEF Lane
  <2> HIDE DEF d
  <2> QED  BY <2>1
<1>4. PackByte("vpkshus", x, y, j) = Narrow("vpkshus", Gathered(x, y, 2, 8, 16 - d))[1 - (j % 1)]
  BY <1>1, <1>2, Zenon DEF PackByte
<1>5. packus(y, x)[j] =
        Narrow("vpkshus", IF d < 8 THEN Element(y, 2, d) ELSE Element(x, 2, d - 8))[1 - (j % 1)]
  BY <1>2, Zenon DEF packus, FromElements
<1>6. Gathered(x, y, 2, 8, 16 - d) =
        IF 16 - d <= 8 THEN Element(x, 2, 8 - (16 - d)) ELSE Element(y, 2, 16 - (16 - d))
  BY <1>2, Zenon DEF Gathered
<1> HIDE DEF d
<1>7. Gathered(x, y, 2, 8, 16 - d) = IF d < 8 THEN Element(y, 2, d) ELSE Element(x, 2, d - 8)
  <2>1. CASE d < 8
    BY <1>3, <1>6, <2>1, Zenon
  <2>2. CASE ~(d < 8)
    BY <1>3, <1>6, <2>2, Zenon
  <2> QED  BY <2>1, <2>2, Zenon
<1> QED  BY <1>4, <1>5, <1>7, Zenon

(* The loops: after k turns the result's last k elements from the top are  *)
(* in place, and what is still to be read has not been written.            *)
PackedSoFar(now, regs, i, k) ==
  LET n == Pack[i.op]
      m == n \div 2
      total == Vector \div n
  IN  /\ DOMAIN now = VR
      /\ \A g \in VR \ {i.d} : now[g] = regs[g]
      /\ \A j \in Lane :
           now[i.d][j] = IF (2 * total) - (j \div m) <= k
                         THEN PackByte(i.op, regs[i.a], regs[i.b], j) ELSE regs[i.d][j]

LEMMA OneTurn ==
  ASSUME NEW regs, NEW i, IsVectorOp(i), i.op \in Loops, i.d # i.b,
         NEW k \in 1 .. (2 * (Vector \div Pack[i.op])), NEW now, PackedSoFar(now, regs, i, k - 1)
  PROVE  PackedSoFar(PackElement(now, i, k), regs, i, k)
<1> DEFINE n == Pack[i.op]  m == n \div 2  total == Vector \div n
           g == IF k <= total THEN i.a ELSE i.b
           e == total - 1 - ((k - 1) % total)
           s == Narrow(i.op, Element(now[g], n, e))
           after == PackElement(now, i, k)
<1>1. i.d \in VR /\ i.a \in VR /\ i.b \in VR /\ i.op \in DOMAIN Pack
  BY DEF IsVectorOp, Loops
<1>2. n \in {2, 4} /\ Vector = 16
  BY <1>1, AccessAssumption DEF Pack
<1>3. /\ total \in {4, 8} /\ k \in 1 .. 2 * total /\ n * total = 16
      /\ e = IF k <= total THEN total - k ELSE (2 * total) - k
  <2>1. CASE n = 2
    BY <1>2, <2>1
  <2>2. CASE n = 4
    BY <1>2, <2>2
  <2> QED  BY <1>2, <2>1, <2>2, Zenon
<1>4. after = [now EXCEPT ![i.d] = WithElement(@, m, (2 * total) - k, s)]
  BY Zenon DEF PackElement
<1>5. DOMAIN now = VR /\ \A q \in VR \ {i.d} : now[q] = regs[q]
  BY Zenon DEF PackedSoFar
<1>6. DOMAIN after = VR /\ (\A q \in VR \ {i.d} : after[q] = regs[q])
      /\ after[i.d] = WithElement(now[i.d], m, (2 * total) - k, s)
  <2> HIDE DEF m, total, s, after
  <2> QED  BY <1>1, <1>4, <1>5
(* The element that is read is still the operand's.                        *)
<1>7. Element(now[g], n, e) = Gathered(regs[i.a], regs[i.b], n, total, k)
  <2>1. CASE k <= total
    <3>1. Gathered(regs[i.a], regs[i.b], n, total, k) = Element(regs[i.a], n, e)
      BY <1>3, <2>1, Zenon DEF Gathered
    <3>2. CASE i.a # i.d
      BY <1>1, <1>5, <2>1, <3>1, <3>2, Zenon
    <3>3. CASE i.a = i.d
      <4>1. ASSUME NEW p \in 1 .. n
            PROVE  now[i.d][n * e + n - p] = regs[i.d][n * e + n - p]
        <5> DEFINE j == n * e + n - p
        <5>1. j \in 0 .. 15 /\ ~((2 * total) - (j \div m) <= k - 1)
          <6>1. e = total - k
            BY <1>3, <2>1, Zenon
          <6>2. CASE n = 2
            BY <1>2, <1>3, <2>1, <6>1, <6>2
          <6>3. CASE n = 4
            BY <1>2, <1>3, <2>1, <6>1, <6>3
          <6> QED  BY <1>2, <6>2, <6>3, Zenon
        <5>2. j \in Lane
          BY <1>2, <5>1 DEF Lane
        <5> HIDE DEF j
        <5>3. now[i.d][j] = regs[i.d][j]
          BY <5>1, <5>2, Zenon DEF PackedSoFar
        <5> QED  BY <5>3 DEF j
      <4>2. Element(now[i.d], n, e) = Element(regs[i.d], n, e)
        BY <4>1, Zenon DEF Element
      <4> QED  BY <2>1, <3>1, <3>3, <4>2, Zenon
    <3> QED  BY <3>2, <3>3, Zenon
  <2>2. CASE ~(k <= total)
    <3>1. Gathered(regs[i.a], regs[i.b], n, total, k) = Element(regs[i.b], n, e)
      BY <1>3, <2>2, Zenon DEF Gathered
    <3>2. now[i.b] = regs[i.b]
      BY <1>1, <1>5, Zenon
    <3> QED  BY <2>2, <3>1, <3>2, Zenon
  <2> QED  BY <2>1, <2>2, Zenon
<1>8. ASSUME NEW j \in Lane
      PROVE  after[i.d][j] = IF (2 * total) - (j \div m) <= k
                             THEN PackByte(i.op, regs[i.a], regs[i.b], j) ELSE regs[i.d][j]
  <2> DEFINE d == j \div m  byte == PackByte(i.op, regs[i.a], regs[i.b], j)
  <2>1. d \in Int
    <3>1. j \in Int /\ m \in Nat \ {0}
      BY <1>2 DEF Lane
    <3> HIDE DEF m
    <3> QED  BY <3>1
  <2>2. after[i.d][j] = IF d = (2 * total) - k THEN s[m - (j % m)] ELSE now[i.d][j]
    BY <1>6, Zenon DEF WithElement
  <2>3. now[i.d][j] = IF (2 * total) - d <= k - 1 THEN byte ELSE regs[i.d][j]
    BY Zenon DEF PackedSoFar
  <2>4. d = (2 * total) - k => s[m - (j % m)] = byte
    <3>1. ASSUME d = (2 * total) - k PROVE (2 * total) - d = k
      <4> HIDE DEF d, total
      <4> QED  BY <1>3, <3>1
    <3>2. byte = Narrow(i.op, Gathered(regs[i.a], regs[i.b], n, total, (2 * total) - d))[m - (j % m)]
      BY Zenon DEF PackByte
    <3> HIDE DEF byte, d, total, m, n, e, g
    <3> QED  BY <1>7, <3>1, <3>2, Zenon
  <2>5. (d = (2 * total) - k \/ (2 * total) - d <= k - 1) <=> (2 * total) - d <= k
    <3> HIDE DEF d, total
    <3> QED  BY <1>3, <2>1
  <2> HIDE DEF byte, d, total, m, after, s
  <2>6. after[i.d][j] = IF (2 * total) - d <= k THEN byte ELSE regs[i.d][j]
    <3>1. CASE (2 * total) - d <= k
      BY <2>2, <2>3, <2>4, <2>5, <3>1, Zenon
    <3>2. CASE ~((2 * total) - d <= k)
      BY <2>2, <2>3, <2>5, <3>2, Zenon
    <3> QED  BY <3>1, <3>2, Zenon
  <2> QED  BY <2>6, Zenon DEF d, byte
<1> HIDE DEF after
<1> QED  BY <1>6, <1>8, Zenon DEF PackedSoFar, after

LEMMA LoopSeen ==
  ASSUME NEW regs, IsVectors(regs), NEW i, IsVectorOp(i), i.op \in Loops, i.d # i.b
  PROVE  /\ DOMAIN Packed(regs, i) = VR
         /\ \A g \in VR \ {i.d} : Packed(regs, i)[g] = regs[g]
         /\ IsPack(Packed(regs, i)[i.d], i.op, regs[i.a], regs[i.b])
<1> DEFINE stop == 2 * (Vector \div Pack[i.op])  m == Pack[i.op] \div 2
<1>1. stop \in Nat
  BY LastTurn DEF Loops
<1>2. \A j \in Lane : stop - (j \div m) <= stop
  <2>1. Pack[i.op] \in {2, 4}
    BY LastTurn DEF Loops
  <2>2. m \in {1, 2}
    BY <2>1
  <2> HIDE DEF stop, m
  <2>3. ASSUME NEW j \in Lane PROVE stop - (j \div m) <= stop
    <3>1. j \in Nat
      BY VectorSize DEF Lane
    <3>2. CASE m = 1
      BY <1>1, <3>1, <3>2
    <3>3. CASE m = 2
      BY <1>1, <3>1, <3>3
    <3> QED  BY <2>2, <3>2, <3>3
  <2> QED  BY <2>3
<1> HIDE DEF stop
<1>3. PICK after : Turns(after, regs, i, stop) /\ Packed(regs, i) = after[stop]
  BY <1>1, PackedIs DEF stop
<1> DEFINE Wrong == {k \in 0 .. stop : ~PackedSoFar(after[k], regs, i, k)}
<1>4. Wrong = {}
  <2> SUFFICES ASSUME Wrong # {} PROVE FALSE
    OBVIOUS
  <2>1. PICK k \in Wrong : \A x \in Wrong : k <= x
    <3> Wrong \subseteq Nat
      BY <1>1
    <3> HIDE DEF Wrong
    <3> QED  BY LeastNatural
  <2>2. after[k] = IF k = 0 THEN regs ELSE PackElement(after[k - 1], i, k)
    BY <1>3, <2>1 DEF Turns
  <2>3. PackedSoFar(regs, regs, i, 0)
    <3>1. \A j \in Lane : ~(stop - (j \div m) <= 0)
      <4> SUFFICES ASSUME NEW j \in Lane PROVE ~(stop - (j \div m) <= 0)
        OBVIOUS
      <4>1. Pack[i.op] \in {2, 4} /\ Vector = 16 /\ j \in 0 .. 15
        BY LastTurn, AccessAssumption DEF Loops, Lane
      <4>2. CASE Pack[i.op] = 2
        BY <4>1, <4>2 DEF stop
      <4>3. CASE Pack[i.op] = 4
        BY <4>1, <4>3 DEF stop
      <4> QED  BY <4>1, <4>2, <4>3
    <3> QED  BY <3>1, Zenon DEF PackedSoFar, IsVectors, stop
  <2>4. k # 0
    BY <2>1, <2>2, <2>3
  <2>5. k \in 1 .. stop /\ k - 1 \in 0 .. stop /\ k - 1 \notin Wrong
    <3>1. k \in 0 .. stop
      BY <2>1
    <3>2. k \in 1 .. stop /\ k - 1 \in 0 .. stop /\ ~(k <= k - 1)
      BY <1>1, <2>4, <3>1
    <3> HIDE DEF Wrong
    <3> QED  BY <2>1, <3>2
  <2>6. PackedSoFar(after[k - 1], regs, i, k - 1)
    BY <2>5
  <2> HIDE DEF Wrong
  <2>7. PackedSoFar(PackElement(after[k - 1], i, k), regs, i, k)
    BY <2>5, <2>6, OneTurn, Zenon DEF stop
  <2>8. PackedSoFar(after[k], regs, i, k)
    BY <2>2, <2>4, <2>7, Zenon
  <2> QED  BY <2>1, <2>8 DEF Wrong
<1>5. PackedSoFar(after[stop], regs, i, stop)
  BY <1>1, <1>4
<1> HIDE DEF Wrong
<1> QED  BY <1>2, <1>3, <1>5, Zenon DEF PackedSoFar, IsPack, stop

(* Half of a vector, and its elements.                                     *)
LEMMA HalfIs ==
  ASSUME NEW x, NEW low \in BOOLEAN
  PROVE  Power!Half(Seen(x), low) =
           [k \in 1 .. 8 |-> IF low THEN x[8 - k] ELSE x[16 - k]]
<1> DEFINE p == IF low THEN (Vector \div 2) + 1 ELSE 1
           q == IF low THEN Vector ELSE Vector \div 2
<1>1. Vector = 16
  BY AccessAssumption
<1>2. /\ p \in Int /\ q \in Int /\ p <= q + 1 /\ q - p + 1 = 8
      /\ \A k \in 1 .. 8 : /\ p + k - 1 \in 1 .. Vector
                           /\ Vector - (p + k - 1) = IF low THEN 8 - k ELSE 16 - k
  BY <1>1
<1> HIDE DEF p, q
<1>3. SubSeq(Seen(x), p, q) = [k \in 1 .. q - p + 1 |-> Seen(x)[p + k - 1]]
  BY <1>2, SubSeqIs
<1>4. SubSeq(Seen(x), p, q) = [k \in 1 .. 8 |-> Seen(x)[p + k - 1]]
  BY <1>2, <1>3, Zenon
<1>5. \A k \in 1 .. 8 : Seen(x)[p + k - 1] = IF low THEN x[8 - k] ELSE x[16 - k]
  <2> SUFFICES ASSUME NEW k \in 1 .. 8
               PROVE  Seen(x)[p + k - 1] = IF low THEN x[8 - k] ELSE x[16 - k]
    OBVIOUS
  <2>1. Seen(x)[p + k - 1] = x[Vector - (p + k - 1)]
    BY <1>2, Zenon DEF Seen
  <2>2. CASE low
    BY <1>2, <2>1, <2>2, Zenon
  <2>3. CASE ~low
    BY <1>2, <2>1, <2>3, Zenon
  <2> QED  BY <2>2, <2>3, Zenon
<1> QED  BY <1>4, <1>5, Zenon DEF Power!Half, p, q

LEMMA HalfElements ==
  ASSUME NEW n \in {1, 2, 4}, NEW half, Counted(half, 8)
  PROVE  Power!Elements(half, n) =
           [d \in 1 .. (8 \div n) |-> [k \in 1 .. n |-> half[n * (d - 1) + k]]]
<1>1. 8 \in {8, 32}
  OBVIOUS
<1> QED  BY <1>1, PartsAre, ZenonT(60)

LEMMA UnpackSeen ==
  ASSUME NEW n \in {1, 2}, NEW x, NEW y, NEW low \in BOOLEAN,
         \A j \in 0 .. 7 : y[j] = IF low THEN x[j] ELSE x[8 + j]
  PROVE  LET half == Power!Half(Seen(x), low)
         IN  Seen(convert(y, n)) =
               Power!Flat([e \in 1 .. (Len(half) \div n) |-> Widen(Power!Elements(half, n)[e])])
<1> DEFINE half == Power!Half(Seen(x), low)
           total == 8 \div n
           h == [e \in 1 .. total |-> Widen(Power!Elements(half, n)[e])]
           z == convert(y, n)
<1>1. half = [k \in 1 .. 8 |-> IF low THEN x[8 - k] ELSE x[16 - k]]
  BY HalfIs
<1>2. Counted(half, 8)
  BY <1>1, Zenon DEF Counted
<1>3. Len(half) = 8
  <2> HIDE DEF half
  <2> QED  BY <1>2, FunctionIs DEF Counted
<1>4. Shape(2 * n, total) /\ total \in {4, 8} /\ n * total = 8
  BY DEF Shape
<1>5. ASSUME NEW e \in 1 .. total PROVE Power!Elements(half, n)[e] = Element(y, n, total - e)
  <2>1. Power!Elements(half, n)[e] = [k \in 1 .. n |-> half[n * (e - 1) + k]]
    <3>2. Power!Elements(half, n) =
            [d \in 1 .. (8 \div n) |-> [k \in 1 .. n |-> half[n * (d - 1) + k]]]
      <4>1. n \in {1, 2, 4}
        OBVIOUS
      <4> HIDE DEF half
      <4> QED  BY <1>2, <4>1, HalfElements, ZenonT(60)
    <3> QED  BY <3>2, Zenon
  <2>2. ASSUME NEW k \in 1 .. n PROVE half[n * (e - 1) + k] = y[n * (total - e) + n - k]
    <3> DEFINE p == n * (e - 1) + k  j == n * (total - e) + n - k
    <3>1. p \in 1 .. 8 /\ j \in 0 .. 7 /\ 8 - p = j /\ 16 - p = 8 + j
      <4>1. CASE n = 1
        BY <1>4, <4>1
      <4>2. CASE n = 2
        BY <1>4, <4>2
      <4> QED  BY <4>1, <4>2
    <3> HIDE DEF p, j, half
    <3>2. half[p] = IF low THEN x[8 - p] ELSE x[16 - p]
      BY <1>1, <3>1, Zenon
    <3>3. y[j] = IF low THEN x[j] ELSE x[8 + j]
      BY <3>1, Zenon
    <3>4. half[p] = y[j]
      BY <3>1, <3>2, <3>3, Zenon
    <3> QED  BY <3>4, Zenon DEF p, j
  <2> QED  BY <2>1, <2>2, Zenon DEF Element
<1>6. ASSUME NEW s, Counted(s, n) PROVE Counted(Widen(s), 2 * n)
  <2> DEFINE f == Fill(<<"sign", s[1]>>, n)
  <2>0. n + n = 2 * n
    OBVIOUS
  <2>1. n \in Nat /\ f = [k \in 1 .. n |-> f[k]] /\ s = [k \in 1 .. n |-> s[k]]
    BY <1>6 DEF Counted, Fill
  <2>2. Len(s) = n
    BY <2>1, FunctionIs
  <2>3. Widen(s) = f \o s
    BY <2>2, Zenon DEF Widen
  <2> HIDE DEF f
  <2>4. f \o s = [k \in 1 .. n + n |-> IF k <= n THEN f[k] ELSE s[k - n]]
    BY <2>1, Concatenation
  <2> QED  BY <2>0, <2>3, <2>4, Zenon DEF Counted
<1>7. ASSUME NEW e \in 1 .. total
      PROVE  h[e] = Widen(Element(y, n, total - e)) /\ Counted(h[e], 2 * n)
  <2>1. h[e] = Widen(Element(y, n, total - e))
    BY <1>5, Zenon
  <2>2. Counted(Element(y, n, total - e), n)
    BY Zenon DEF Counted, Element
  <2> HIDE DEF h, total
  <2> QED  BY <1>6, <2>1, <2>2, Zenon
<1>8. Parted(h, 2 * n, total)
  <2>1. Counted(h, total)
    BY Zenon DEF Counted
  <2> QED  BY <1>7, <2>1, Zenon DEF Parted
<1>9. ASSUME NEW j \in Lane PROVE z[j] = h[total - (j \div (2 * n))][(2 * n) - (j % (2 * n))]
  <2> DEFINE d == j \div (2 * n)
  <2>1. d \in 0 .. total - 1
    BY <1>4, Lanes, Zenon
  <2>2. z[j] = Widen(Element(y, n, d))[(2 * n) - (j % (2 * n))]
    BY Zenon DEF convert, FromElements
  <2> HIDE DEF d, h, z, total
  <2>3. total - d \in 1 .. total /\ total - (total - d) = d
    BY <1>4, <2>1
  <2>4. h[total - d] = Widen(Element(y, n, d))
    BY <1>7, <2>3, Zenon
  <2>5. z[j] = h[total - d][(2 * n) - (j % (2 * n))]
    BY <2>2, <2>4, Zenon
  <2> QED  BY <2>5, Zenon DEF d
<1> HIDE DEF h, z, total, half
<1>10. Seen(z) = Power!Flat(h)
  <2> DEFINE w == 2 * n
  <2>1. /\ Shape(w, total) /\ Parted(h, w, total)
        /\ \A j \in Lane : z[j] = h[total - (j \div w)][w - (j % w)]
    BY <1>4, <1>8, <1>9, Zenon
  <2> HIDE DEF w
  <2> QED  BY <2>1, FlatSeen
<1> QED  BY <1>3, <1>10, Zenon DEF h, z, total, half

-----------------------------------------------------------------------------
(* Both values of each instruction.                                        *)

LEMMA BitwiseSeen ==
  ASSUME NEW regs, NEW i, IsVectorOp(i), i.op \in {"vor", "vxor"}
  PROVE  Seen(Intrinsic(regs, i)) = Power!PermutedValue(View(regs), i)
<1> DEFINE x == regs[i.a]  y == regs[i.b]
<1>1. View(regs)[i.a] = Seen(x) /\ View(regs)[i.b] = Seen(y)
  BY Zenon DEF View, IsVectorOp
<1>2. CASE i.op = "vor"
  <2>1. Intrinsic(regs, i) = IF i.a # i.b THEN [j \in Lane |-> Or(x[j], y[j])] ELSE x
    BY <1>2, OpsAre DEF Intrinsic
  <2>2. Power!PermutedValue(View(regs), i) = [k \in 1 .. Vector |-> Power!Or(Seen(x)[k], Seen(y)[k])]
    BY <1>1, <1>2, OpsAre, SameOps DEF Power!PermutedValue
  <2> HIDE DEF x, y
  <2>3. i.a = i.b => x = y
    BY Zenon DEF x, y
  <2>4. /\ Seen([j \in Lane |-> Or(x[j], y[j])]) =
             [k \in 1 .. Vector |-> Power!Or(Seen(x)[k], Seen(y)[k])]
        /\ Seen(x) = [k \in 1 .. Vector |-> Power!Or(Seen(x)[k], Seen(x)[k])]
    BY OrSeen
  <2>5. CASE i.a = i.b
    BY <2>1, <2>2, <2>3, <2>4, <2>5, Zenon
  <2>6. CASE i.a # i.b
    BY <2>1, <2>2, <2>4, <2>6, Zenon
  <2> QED  BY <2>5, <2>6
<1>3. CASE i.op = "vxor"
  <2>1. Intrinsic(regs, i) = IF i.a # i.b THEN [j \in Lane |-> Xor(x[j], y[j])]
                             ELSE [j \in Lane |-> ZeroByte]
    BY <1>3, OpsAre DEF Intrinsic
  <2>2. Power!PermutedValue(View(regs), i) = [k \in 1 .. Vector |-> Power!Xor(Seen(x)[k], Seen(y)[k])]
    BY <1>1, <1>3, OpsAre, SameOps DEF Power!PermutedValue
  <2> HIDE DEF x, y
  <2>3. i.a = i.b => x = y
    BY Zenon DEF x, y
  <2>4. /\ Seen([j \in Lane |-> Xor(x[j], y[j])]) =
             [k \in 1 .. Vector |-> Power!Xor(Seen(x)[k], Seen(y)[k])]
        /\ Seen([j \in Lane |-> ZeroByte]) =
             [k \in 1 .. Vector |-> Power!Xor(Seen(x)[k], Seen(x)[k])]
    BY XorSeen
  <2>5. CASE i.a = i.b
    BY <2>1, <2>2, <2>3, <2>4, <2>5, Zenon
  <2>6. CASE i.a # i.b
    BY <2>1, <2>2, <2>4, <2>6, Zenon
  <2> QED  BY <2>5, <2>6
<1> QED  BY <1>2, <1>3

LEMMA BytesMovedSeen ==
  ASSUME NEW regs, NEW i, IsVectorOp(i), i.op \in {"vperm", "vsldoi"}
  PROVE  Seen(Intrinsic(regs, i)) = Power!PermutedValue(View(regs), i)
<1> DEFINE x == regs[i.a]  y == regs[i.b]  c == regs[i.c]
<1>1. View(regs)[i.a] = Seen(x) /\ View(regs)[i.b] = Seen(y) /\ View(regs)[i.c] = Seen(c)
  BY Zenon DEF View, IsVectorOp
<1>2. CASE i.op = "vperm"
  <2>1. Intrinsic(regs, i) = perm8(x, y, c)
    BY <1>2, OpsAre DEF Intrinsic
  <2>2. Power!PermutedValue(View(regs), i) =
          [k \in 1 .. Vector |->
             (Seen(x) \o Seen(y))[(Power!ByteValue(Seen(c)[k]) % (2 * Vector)) + 1]]
    BY <1>1, <1>2, OpsAre, SameOps DEF Power!PermutedValue
  <2> HIDE DEF x, y, c
  <2>3. Seen(perm8(x, y, c)) = SelectedBytes(x, y, c)
    BY PermSeen
  <2> QED  BY <2>1, <2>2, <2>3, Zenon DEF SelectedBytes
<1>3. CASE i.op = "vsldoi"
  <2>1. Intrinsic(regs, i) = alignr(x, y, Vector - i.imm)
    BY <1>3, OpsAre DEF Intrinsic
  <2>2. Power!PermutedValue(View(regs), i) = SubSeq(Seen(x) \o Seen(y), i.imm + 1, i.imm + Vector)
    BY <1>1, <1>3, OpsAre, SameOps DEF Power!PermutedValue
  <2>3. i.imm \in 0 .. Vector - 1
    BY <1>3, OpsAre DEF IsVectorOp, Immediates
  <2> HIDE DEF x, y
  <2>4. Seen(alignr(x, y, Vector - i.imm)) =
          SubSeq(Seen(x) \o Seen(y), i.imm + 1, i.imm + Vector)
    BY <2>3, ShiftSeen
  <2> QED  BY <2>1, <2>2, <2>4, Zenon
<1> QED  BY <1>2, <1>3

LEMMA MergedSeen ==
  ASSUME NEW regs, NEW i, IsVectorOp(i), i.op \in DOMAIN Merge
  PROVE  Seen(Intrinsic(regs, i)) = Power!PermutedValue(View(regs), i)
<1> DEFINE x == regs[i.a]  y == regs[i.b]  n == Merge[i.op]
           low == i.op \in {"vmrglb", "vmrglh", "vmrglw"}
<1>1. View(regs)[i.a] = Seen(x) /\ View(regs)[i.b] = Seen(y)
  BY Zenon DEF View, IsVectorOp
<1>2. n \in {1, 2, 4}
  BY DEF Merge
<1>3. Power!PermutedValue(View(regs), i) = Power!Merged(Seen(x), Seen(y), n, low)
  BY <1>1, OpsAre, SameOps DEF Power!PermutedValue
<1>4. Intrinsic(regs, i) = IF low THEN unpacklo(y, x, n) ELSE unpackhi(y, x, n)
  <2>1. CASE i.op \in {"vmrghb", "vmrghh", "vmrghw"}
    BY <2>1, OpsAre DEF Intrinsic
  <2>2. CASE i.op \in {"vmrglb", "vmrglh", "vmrglw"}
    BY <2>2, OpsAre DEF Intrinsic
  <2> QED  BY <2>1, <2>2, OpsAre
<1> HIDE DEF x, y, n, low
<1>5. low \in BOOLEAN
  BY DEF low
<1>8. /\ Seen(unpackhi(y, x, n)) = Power!Merged(Seen(x), Seen(y), n, FALSE)
      /\ Seen(unpacklo(y, x, n)) = Power!Merged(Seen(x), Seen(y), n, TRUE)
  BY <1>2, MergeSeen, ZenonT(60)
<1>6. CASE low = TRUE
  BY <1>3, <1>4, <1>6, <1>8, Zenon
<1>7. CASE low = FALSE
  BY <1>3, <1>4, <1>7, <1>8, Zenon
<1> QED  BY <1>5, <1>6, <1>7

LEMMA SplattedSeen ==
  ASSUME NEW regs, NEW i, IsVectorOp(i), i.op \in DOMAIN Splat \cup DOMAIN SplatImmediate
  PROVE  Seen(Intrinsic(regs, i)) = Power!PermutedValue(View(regs), i)
<1> DEFINE x == regs[i.a]
<1>1. View(regs)[i.a] = Seen(x)
  BY Zenon DEF View, IsVectorOp
<1>2. CASE i.op \in DOMAIN Splat
  <2> DEFINE n == Splat[i.op]  total == Vector \div n
  <2>1. Intrinsic(regs, i) = Splatted(x, n, i.imm)
    BY <1>2, OpsAre DEF Intrinsic
  <2>2. Power!PermutedValue(View(regs), i) =
          Power!Flat([e \in 1 .. total |-> Power!Elements(Seen(x), n)[i.imm + 1]])
    BY <1>1, <1>2, OpsAre, SameOps DEF Power!PermutedValue
  <2>3. n \in {1, 2, 4}
    BY <1>2 DEF Splat
  <2>4. Shape(n, total)
    BY <2>3, HasShape, Zenon
  <2>5. i.imm \in 0 .. total - 1
    BY <1>2, OpsAre DEF IsVectorOp, Immediates
  <2> HIDE DEF x, n, total
  <2>6. Seen(Splatted(x, n, i.imm)) =
          Power!Flat([e \in 1 .. total |-> Power!Elements(Seen(x), n)[i.imm + 1]])
    BY <2>4, <2>5, SplatSeen, Zenon
  <2> QED  BY <2>1, <2>2, <2>6, Zenon
<1>3. CASE i.op \in DOMAIN SplatImmediate
  <2> DEFINE n == SplatImmediate[i.op]  total == Vector \div n  one == SignedBytes(i.imm, n)
             z == [j \in Lane |-> one[n - (j % n)]]
  <2>1. Intrinsic(regs, i) = z
    BY <1>3, OpsAre DEF Intrinsic, FromElements
  <2>2. Power!PermutedValue(View(regs), i) = Power!Flat([e \in 1 .. total |-> one])
    BY <1>3, OpsAre, SameOps DEF Power!PermutedValue
  <2>3. n \in {1, 2, 4}
    BY <1>3 DEF SplatImmediate
  <2>4. Shape(n, total) /\ Counted(one, n)
    BY <2>3, HasShape, SignedBytesAre, Zenon
  <2> HIDE DEF n, total, one
  <2>5. Seen(Repeating(one, n)) = Power!Flat(Fill(one, total))
    BY <2>4, ImmediateSeen, Zenon
  <2> QED  BY <2>1, <2>2, <2>5, Zenon DEF Repeating, Fill
<1> QED  BY <1>2, <1>3

LEMMA WordsSeen ==
  ASSUME NEW regs, NEW i, IsVectorOp(i), i.op \in {"vpermwi", "vrlimi"}
  PROVE  Seen(Intrinsic(regs, i)) = Power!PermutedValue(View(regs), i)
<1> DEFINE x == regs[i.a]  y == regs[i.d]
<1>1. View(regs)[i.a] = Seen(x) /\ View(regs)[i.d] = Seen(y)
  BY Zenon DEF View, IsVectorOp
<1>2. CASE i.op = "vpermwi"
  <2> DEFINE part(k) == 3 - TwoBits(i.imm, k)
             all == part(0) + 4 * part(1) + 16 * part(2) + 64 * part(3)
  <2>1. Intrinsic(regs, i) = shuffle32(x, all)
    BY <1>2, OpsAre DEF Intrinsic
  <2>2. Power!PermutedValue(View(regs), i) =
          Power!Flat([e \in 1 .. 4 |-> Power!Elements(Seen(x), 4)[TwoBits(i.imm, 4 - e) + 1]])
    BY <1>1, <1>2, OpsAre, SameOps DEF Power!PermutedValue
  <2>3. i.imm \in 0 .. 255
    BY <1>2, OpsAre DEF IsVectorOp, Immediates
  <2> QED  BY <2>1, <2>2, <2>3, PermuteWordsSeen, Zenon
<1>3. CASE i.op = "vrlimi"
  <2> DEFINE mask == i.imm[1]  rot == i.imm[2]
  <2>1. Intrinsic(regs, i) = blend(y, shuffle32(x, Rotations[rot + 1]), mask)
    BY <1>3, OpsAre DEF Intrinsic
  <2>2. Power!PermutedValue(View(regs), i) =
          Power!Flat([e \in 1 .. 4 |->
            IF OneBit(mask, 4 - e) = 1
            THEN Power!Elements(Seen(x), 4)[((e - 1 + rot) % 4) + 1]
            ELSE Power!Elements(Seen(y), 4)[e]])
    BY <1>1, <1>3, OpsAre, SameOps DEF Power!PermutedValue
  <2>3. rot \in 0 .. 3
    BY <1>3, OpsAre DEF IsVectorOp, Immediates
  <2> HIDE DEF x, y, mask, rot
  <2>4. Seen(blend(y, shuffle32(x, Rotations[rot + 1]), mask)) =
          Power!Flat(InsertedWords(x, y, mask, rot))
    BY <2>3, RotateWordsSeen, Zenon
  <2> QED  BY <2>1, <2>2, <2>4, Zenon DEF InsertedWords
<1> QED  BY <1>2, <1>3

LEMMA PackValue ==
  ASSUME NEW regs, NEW i, IsVectorOp(i), i.op \in DOMAIN Pack
  PROVE  Power!PermutedValue(View(regs), i) = Power!Flat(PackedElements(i.op, regs[i.a], regs[i.b]))
<1> DEFINE x == regs[i.a]  y == regs[i.b]
<1>1. View(regs)[i.a] = Seen(x) /\ View(regs)[i.b] = Seen(y)
  BY Zenon DEF View, IsVectorOp
<1>2. Power!PermutedValue(View(regs), i) =
        Power!Flat([e \in 1 .. (2 * (Vector \div Pack[i.op])) |->
          Narrow(i.op, Power!Elements(Seen(x) \o Seen(y), Pack[i.op])[e])])
  BY <1>1, OpsAre, SameOps DEF Power!PermutedValue
<1> QED  BY <1>2, Zenon DEF PackedElements

LEMMA PackedSeen ==
  ASSUME NEW regs, IsVectors(regs), NEW i, IsVectorOp(i), i.op \in DOMAIN Pack,
         i.op \in Loops => i.d # i.b
  PROVE  Seen(Permuted(regs, i)[i.d]) = Power!PermutedValue(View(regs), i)
<1> DEFINE x == regs[i.a]  y == regs[i.b]  z == Permuted(regs, i)[i.d]
<1>1. IsPack(z, i.op, x, y)
  <2>1. CASE i.op \in Loops
    <3>1. z = Packed(regs, i)[i.d]
      BY <2>1, Zenon DEF Permuted
    <3>2. IsPack(Packed(regs, i)[i.d], i.op, x, y)
      BY <2>1, LoopSeen, Zenon
    <3> HIDE DEF z, x, y
    <3> QED  BY <3>1, <3>2, Zenon
  <2>2. CASE i.op \notin Loops
    <3>1. i.op = "vpkshus" /\ i.d \in VR /\ DOMAIN regs = VR
      BY <2>2, Zenon DEF Loops, IsVectorOp, IsVectors
    <3>2. Intrinsic(regs, i) = packus(y, x)
      BY <3>1, OpsAre DEF Intrinsic
    <3>3. z = packus(y, x)
      <4>1. Permuted(regs, i) = [regs EXCEPT ![i.d] = Intrinsic(regs, i)]
        BY <2>2, Zenon DEF Permuted
      <4> QED  BY <3>1, <3>2, <4>1, Zenon
    <3> HIDE DEF z, x, y
    <3> QED  BY <3>1, <3>3, PackUnsignedSeen, Zenon
  <2> QED  BY <2>1, <2>2, Zenon
<1> HIDE DEF x, y, z
<1>2. Seen(z) = Power!Flat(PackedElements(i.op, x, y))
  BY <1>1, PackSeen, Zenon
<1> QED  BY <1>2, PackValue, Zenon DEF x, y, z

WidenedElements(half, n) ==
  [e \in 1 .. (Len(half) \div n) |-> Widen(Power!Elements(half, n)[e])]

LEMMA UnpackedSeen ==
  ASSUME NEW regs, NEW i, IsVectorOp(i), i.op \in DOMAIN Unpack
  PROVE  Seen(Intrinsic(regs, i)) = Power!PermutedValue(View(regs), i)
<1> DEFINE x == regs[i.a]  n == Unpack[i.op]  low == i.op \in {"vupklsb", "vupklsh"}
           high == [j \in Lane |-> x[(Vector \div 2) + (j % (Vector \div 2))]]
           y == IF low THEN x ELSE high
           half == Power!Half(Seen(x), low)
<1>1. View(regs)[i.a] = Seen(x)
  BY Zenon DEF View, IsVectorOp
<1>2. n \in {1, 2} /\ low \in BOOLEAN
  BY DEF Unpack
<1>3. \A j \in 0 .. 7 : y[j] = IF low THEN x[j] ELSE x[8 + j]
  <2> SUFFICES ASSUME NEW j \in 0 .. 7 PROVE y[j] = IF low THEN x[j] ELSE x[8 + j]
    BY Zenon
  <2>1. j \in Lane /\ (Vector \div 2) + (j % (Vector \div 2)) = 8 + j
    BY AccessAssumption DEF Lane
  <2>2. high[j] = x[8 + j]
    BY <2>1, Zenon
  <2> HIDE DEF high, low, x
  <2> QED  BY <2>2, Zenon
<1>4. Intrinsic(regs, i) = convert(y, n)
  <2>1. CASE low
    BY <2>1, OpsAre DEF Intrinsic
  <2>2. CASE ~low
    <3>1. i.op \in {"vupkhsb", "vupkhsh"}
      BY <2>2, OpsAre
    <3>2. Intrinsic(regs, i) = convert(high, n)
      BY <3>1, OpsAre DEF Intrinsic
    <3> QED  BY <2>2, <3>2, Zenon
  <2> QED  BY <2>1, <2>2, Zenon
<1>5. Power!PermutedValue(View(regs), i) = Power!Flat(WidenedElements(half, n))
  <2>1. Power!PermutedValue(View(regs), i) =
          Power!Flat([e \in 1 .. (Len(half) \div n) |-> Widen(Power!Elements(half, n)[e])])
    BY <1>1, OpsAre, SameOps DEF Power!PermutedValue
  <2> HIDE DEF half, n
  <2> QED  BY <2>1, Zenon DEF WidenedElements
<1> HIDE DEF x, n, low, y
<1>6. Seen(convert(y, n)) = Power!Flat(WidenedElements(half, n))
  BY <1>2, <1>3, UnpackSeen, Zenon DEF WidenedElements
<1> QED  BY <1>4, <1>5, <1>6, Zenon

(* The registers after an instruction on vectors, seen by the guest.       *)
LEMMA PermutedIs ==
  ASSUME NEW regs, IsVectors(regs), NEW i, IsVectorOp(i), ~Overwrites(i)
  PROVE  /\ Seen(Permuted(regs, i)[i.d]) = Power!PermutedValue(View(regs), i)
         /\ \A g \in VR \ {i.d} : Permuted(regs, i)[g] = regs[g]
<1>1. i.op \in Loops => i.d # i.b
  BY Zenon DEF Overwrites
<1>2. i.d \in VR /\ DOMAIN regs = VR
  BY Zenon DEF IsVectorOp, IsVectors
<1>3. ASSUME i.op \notin Loops
      PROVE  /\ Permuted(regs, i)[i.d] = Intrinsic(regs, i)
             /\ \A g \in VR \ {i.d} : Permuted(regs, i)[g] = regs[g]
  <2>1. Permuted(regs, i) = [regs EXCEPT ![i.d] = Intrinsic(regs, i)]
    BY <1>3, Zenon DEF Permuted
  <2> QED  BY <1>2, <2>1
<1>4. \A g \in VR \ {i.d} : Permuted(regs, i)[g] = regs[g]
  <2>1. CASE i.op \in Loops
    BY <1>1, <2>1, LoopSeen, Zenon DEF Permuted
  <2>2. CASE i.op \notin Loops
    BY <1>3, <2>2, Zenon
  <2> QED  BY <2>1, <2>2
<1>5. CASE i.op \in DOMAIN Pack
  BY <1>1, <1>4, <1>5, PackedSeen, Zenon
<1>6. CASE i.op \notin DOMAIN Pack
  <2>1. i.op \notin Loops
    BY <1>6, Zenon DEF Loops
  <2>2. Permuted(regs, i)[i.d] = Intrinsic(regs, i)
    BY <1>3, <2>1, Zenon
  <2>3. i.op \in VectorOps
    BY Zenon DEF IsVectorOp
  <2>4. Seen(Intrinsic(regs, i)) = Power!PermutedValue(View(regs), i)
    <3>1. CASE i.op \in {"vor", "vxor"}
      BY <3>1, BitwiseSeen, Zenon
    <3>2. CASE i.op \in {"vperm", "vsldoi"}
      BY <3>2, BytesMovedSeen, Zenon
    <3>3. CASE i.op \in DOMAIN Merge
      BY <3>3, MergedSeen, Zenon
    <3>4. CASE i.op \in DOMAIN Splat \cup DOMAIN SplatImmediate
      BY <3>4, SplattedSeen, Zenon
    <3>5. CASE i.op \in {"vpermwi", "vrlimi"}
      BY <3>5, WordsSeen, Zenon
    <3>6. CASE i.op \in DOMAIN Unpack
      BY <3>6, UnpackedSeen, Zenon
    <3> QED  BY <1>6, <2>3, <3>1, <3>2, <3>3, <3>4, <3>5, <3>6, Zenon DEF VectorOps
  <2> QED  BY <1>4, <2>2, <2>4, Zenon
<1> QED  BY <1>5, <1>6

LEMMA PermutePower ==
  ASSUME TypeInv, NEW t \in Thread, NEW i, IsVectorOp(i), ~Overwrites(i), Permute(t, i)
  PROVE  Power!Permute(t, i)
<1> DEFINE regs == vr[t]  new == Permuted(regs, i)
<1>1. i.form = "V" /\ i.d \in VR /\ UNCHANGED <<mem, gpr, fpr, eq, resv>>
  BY Zenon DEF Permute, IsVectorOp
<1>2. DOMAIN vr = Thread /\ IsVectors(regs)
  BY Zenon DEF TypeInv, Vectors
<1>3. vr' = [vr EXCEPT ![t] = new]
  BY DEF Permute
<1>4. vr'[t] = new /\ \A u \in Thread \ {t} : vr'[u] = vr[u]
  <2> HIDE DEF new, regs
  <2> QED  BY <1>2, <1>3
<1>5. /\ Seen(new[i.d]) = Power!PermutedValue(View(regs), i)
      /\ \A g \in VR \ {i.d} : new[g] = regs[g]
  BY <1>2, PermutedIs, Zenon
<1>6. View(regs) = GuestVectors[t]
  BY Zenon DEF View, GuestVectors
<1> HIDE DEF new
<1>7. GuestVectors' = [u \in Thread |-> [g \in VR |-> Seen(vr'[u][g])]]
  BY Zenon DEF GuestVectors
<1>8. [GuestVectors EXCEPT ![t][i.d] = Seen(new[i.d])] =
        [u \in Thread |-> [g \in VR |-> IF u = t /\ g = i.d THEN Seen(new[i.d]) ELSE Seen(vr[u][g])]]
  BY DEF GuestVectors
<1>9. ASSUME NEW u \in Thread, NEW g \in VR
      PROVE  Seen(vr'[u][g]) = IF u = t /\ g = i.d THEN Seen(new[i.d]) ELSE Seen(vr[u][g])
  <2>1. CASE u # t
    BY <1>4, <2>1, Zenon
  <2>2. CASE u = t /\ g = i.d
    BY <1>4, <2>2, Zenon
  <2>3. CASE u = t /\ g # i.d
    BY <1>4, <1>5, <2>3, Zenon
  <2> QED  BY <2>1, <2>2, <2>3
<1>10. GuestVectors' = [GuestVectors EXCEPT ![t][i.d] = Seen(new[i.d])]
  BY <1>7, <1>8, <1>9
<1>11. GuestVectors' = [GuestVectors EXCEPT ![t][i.d] = Power!PermutedValue(GuestVectors[t], i)]
  BY <1>5, <1>6, <1>10, Zenon
<1> QED  BY <1>1, <1>11 DEF Power!Permute, GuestVectors, Seen

-----------------------------------------------------------------------------
(* All of the steps.                                                       *)

LEMMA ImmediatePower ==
  ASSUME NEW t \in Thread, NEW i, LoadImmediate(t, i)
  PROVE  Power!LoadImmediate(t, i)
BY SameValues DEF LoadImmediate, Power!LoadImmediate

Excused == gaveBack' # gaveBack \/ outside' # outside \/ Packs

LEMMA LeaveRecords ==
  ASSUME TypeInv, GhostInv, NEW t \in Thread, NEW i, pc[t] <= Len(program[t]), Leave(t, i)
  PROVE  outside' # outside
<1> DEFINE x == [t |-> t, i |-> i, base |-> ra[t]]
<1>1. pc[t] \in Nat /\ Len(program[t]) \in Nat
  BY Programmed DEF TypeInv, Positions
<1>2. ~(pc[x.t] > Len(program[x.t]))
  BY <1>1
<1>3. x \notin outside
  <2> HIDE DEF x
  <2> QED  BY <1>2, Zenon DEF GhostInv
<1>4. x \in outside'
  BY DEF Leave
<1> HIDE DEF x
<1> QED  BY <1>3, <1>4, Zenon

LEMMA OpIs ==
  ASSUME NEW t \in Thread, NEW i, IsAccess(i) \/ IsVectorOp(i),
         \/ LoadImmediate(t, i) \/ LoadInteger(t, i) \/ LoadFloat(t, i)
         \/ StoreInteger(t, i) \/ StoreFloat(t, i) \/ LoadReserved(t, i) \/ StoreConditional(t, i)
         \/ LoadVector(t, i) \/ StoreVector(t, i) \/ LoadControl(t, i)
  PROVE  IsAccess(i)
<1>1. i.op \in DOMAIN Forms
  BY Zenon DEF LoadImmediate, LoadInteger, LoadFloat, StoreInteger, StoreFloat,
     LoadReserved, StoreConditional, LoadVector, StoreVector, LoadControl, Forms,
     Width, IntegerLoad, FloatLoad, IntegerStore, FloatStore, Reserve, Conditional
<1> QED  BY <1>1, Disjoint DEF IsVectorOp

LEMMA PowerStep ==
  ASSUME TypeInv, GhostInv, AccessNext
  PROVE  Excused \/ Power!Next
<1>1. PICK t \in Thread : pc[t] <= Len(program[t]) /\ \E i \in {Current(t)} : Step(t, i)
  BY Zenon DEF AccessNext
<1>2. PICK i : i = Current(t) /\ pc[t] <= Len(program[t]) /\ Step(t, i)
  BY <1>1, Zenon
<1>3. CASE Leave(t, i)
  BY <1>2, <1>3, LeaveRecords, Zenon DEF Excused
<1>4. CASE ~Leave(t, i)
  <2>1. /\ Inside(t, i) /\ Advance(t, i)
        /\ \/ LoadImmediate(t, i) \/ LoadInteger(t, i) \/ LoadFloat(t, i)
           \/ StoreInteger(t, i) \/ StoreFloat(t, i) \/ LoadReserved(t, i) \/ StoreConditional(t, i)
           \/ LoadVector(t, i) \/ StoreVector(t, i) \/ LoadControl(t, i) \/ Permute(t, i)
    BY <1>2, <1>4, Zenon DEF Step
  <2>2. IsAccess(i) \/ IsVectorOp(i)
    BY <1>2, CurrentIs, Zenon DEF TypeInv
  <2>3. Power!Advance(t, i) /\ i \in {Power!Current(t)}
    <3>1. Power!Advance(t, i)
      BY <2>1, <2>2, AdvancePower, Zenon
    <3>2. i \in {Power!Current(t)}
      BY <1>2 DEF Power!Current, Current
    <3> QED  BY <3>1, <3>2
  <2>4. CASE Permute(t, i)
    <3>1. i.form = "V"
      BY <2>4, Zenon DEF Permute
    <3>2. IsVectorOp(i)
      BY <2>2, <3>1, FormsAre DEF IsAccess
    <3>3. CASE Overwrites(i)
      <4>1. pc[t] \in Nat /\ DOMAIN pc = Thread
        BY Programmed DEF TypeInv, Positions
      <4>2. pc' = [pc EXCEPT ![t] = @ + 1]
        BY <2>1, Zenon DEF Advance
      <4>3. pc'[t] # pc[t]
        BY <4>1, <4>2
      <4> QED  BY <1>2, <3>1, <3>3, <4>3, Zenon DEF Excused, Packs
    <3>4. CASE ~Overwrites(i)
      <4>1. Power!Permute(t, i)
        BY <2>4, <3>2, <3>4, PermutePower, Zenon
      <4> QED  BY <1>2, <2>3, <4>1, Zenon DEF Power!Next
    <3> QED  BY <3>3, <3>4
  <2>5. CASE ~Permute(t, i)
    <3>1. IsAccess(i)
      BY <2>1, <2>2, <2>5, OpIs, Zenon
    <3>2. CASE LoadImmediate(t, i)
      <4>1. Power!LoadImmediate(t, i)
        BY <3>2, ImmediatePower, Zenon
      <4> QED  BY <1>2, <2>3, <4>1, Zenon DEF Power!Next
    <3>3. CASE LoadInteger(t, i) \/ LoadFloat(t, i) \/ LoadReserved(t, i)
      <4>1. Power!Load(t, i)
        BY <2>1, <3>1, <3>3, LoadPower, Zenon
      <4> QED  BY <1>2, <2>3, <4>1, Zenon DEF Power!Next
    <3>4. CASE StoreInteger(t, i) \/ StoreFloat(t, i)
      <4>1. Power!Store(t, i)
        BY <2>1, <3>1, <3>4, StorePower, Zenon
      <4> QED  BY <1>2, <2>3, <4>1, Zenon DEF Power!Next
    <3>5. CASE StoreConditional(t, i)
      <4>1. gaveBack' # gaveBack \/ Power!StoreConditional(t, i)
        BY <2>1, <3>1, <3>5, ConditionalPower, Zenon
      <4> QED  BY <1>2, <2>3, <4>1, Zenon DEF Excused, Power!Next
    <3>6. CASE LoadVector(t, i)
      <4>1. Power!LoadVector(t, i)
        BY <2>1, <3>1, <3>6, LoadVectorPower, Zenon
      <4> QED  BY <1>2, <2>3, <4>1, Zenon DEF Power!Next
    <3>7. CASE StoreVector(t, i)
      <4>1. Power!StoreVector(t, i)
        BY <2>1, <3>1, <3>7, StoreVectorPower, Zenon
      <4> QED  BY <1>2, <2>3, <4>1, Zenon DEF Power!Next
    <3>8. CASE LoadControl(t, i)
      <4>1. Power!LoadControl(t, i)
        BY <2>1, <3>1, <3>8, LoadControlPower, Zenon
      <4> QED  BY <1>2, <2>3, <4>1, Zenon DEF Power!Next
    <3> QED  BY <2>1, <2>5, <3>2, <3>3, <3>4, <3>5, <3>6, <3>7, <3>8
  <2> QED  BY <2>4, <2>5
<1> QED  BY <1>3, <1>4

(* The printed C++ does what PowerPC says: each instruction of each thread *)
(* that recompiler.cpp translates, accesses with byte order, reservations, *)
(* partial vector loads and stores and the vector permutations alike,      *)
(* changes what the guest sees as the architecture's instruction would,    *)
(* apart from the three excuses PowerPC names.                             *)
THEOREM GuestSeesPowerPC == AccessSpec => PowerPC
<1> DEFINE seen == <<program, pc, mem, gpr, fpr, vr, ra, eq, resv>>
<1>1. TypeInv /\ GhostInv /\ [AccessNext]_accessVars =>
        [gaveBack' # gaveBack \/ outside' # outside \/ Packs \/ Power!Next]_seen
  <2>1. CASE UNCHANGED accessVars
    BY <2>1, Zenon DEF accessVars
  <2>2. CASE TypeInv /\ GhostInv /\ AccessNext
    BY <2>2, PowerStep, Zenon DEF Excused
  <2> QED  BY <2>1, <2>2, Zenon
<1>2. AccessSpec => [][AccessNext]_accessVars
  BY PTL DEF AccessSpec
<1> QED  BY <1>1, <1>2, TypeInvariant, GhostInvariant, PTL DEF PowerPC

-----------------------------------------------------------------------------
(* Conditional stores compare values: for threads that store new values    *)
(* each time, a byte that was overwritten never comes back.                *)

(* What the li at m of thread t puts into its register.                    *)
Value(t, m) ==
  IF m = 0 THEN [k \in 1 .. 8 |-> <<"gpr", k, t>>] ELSE Immediate(program[t][m].at)

(* Bytes that are, or were, somewhere in memory.                           *)
Spent(b) ==
  \/ \E a \in Address : b = <<"mem", a>>
  \/ \E t \in Thread, n \in Nat, m \in Nat, k \in 1 .. 8 :
       /\ n \in 1 .. pc[t] - 1 /\ m \in 0 .. n - 1
       /\ program[t][n].op \in Stored /\ Fresh(t, m, n) /\ b = Value(t, m)[k]

Holds(t) == \A m \in 0 .. pc[t] - 1 : Fresh(t, m, pc[t]) => gpr[t] = Value(t, m)

(* Thread t still has what it reserved with held, or the bytes it read     *)
(* have changed.                                                           *)
Watches(t, held) ==
  LET a == EA(t, held)  w == Width[held.op]  raw == Low(reserved[t], w) IN
  /\ Inside(t, held)
  /\ resv[t] = {} \/ resv[t] = Reach(a, w)
  /\ \A j \in 1 .. w : Spent(raw[j])
  /\ resv[t] = {} => \E j \in 1 .. w : mem[a + w - j] # raw[j]

Follows(t) ==
  /\ Holds(t)
  /\ \A m \in 1 .. pc[t] - 1 : Reserves(t, m, pc[t]) => Watches(t, program[t][m])

ValuesInv ==
  NewValues /\ Paired =>
    /\ gaveBack = {}
    /\ \A a \in Address : Spent(mem[a])
    /\ \A t \in Thread : pc[t] <= Len(program[t]) => Follows(t)

LEMMA FreshStep ==
  ASSUME NEW t, NEW n \in Nat \ {0}, NEW m \in 0 .. n, Fresh(t, m, n + 1)
  PROVE  \/ /\ m \in 0 .. n - 1 /\ Fresh(t, m, n)
            /\ program[t][n].op \notin {"li"} \cup IntegerLoad \cup Reserve \cup Stored
         \/ m = n /\ program[t][n].op = "li"
<1>1. CASE m = n
  BY <1>1 DEF Fresh
<1>2. CASE m # n
  <2>1. m \in 0 .. n - 1 /\ n \in m + 1 .. (n + 1) - 1 /\ m + 1 .. n - 1 \subseteq m + 1 .. (n + 1) - 1
    BY <1>2
  <2> QED  BY <2>1 DEF Fresh
<1> QED  BY <1>1, <1>2

LEMMA ReservesStep ==
  ASSUME NEW t, NEW n \in Nat \ {0}, NEW m \in 1 .. n, Reserves(t, m, n + 1)
  PROVE  \/ /\ m \in 1 .. n - 1 /\ Reserves(t, m, n)
            /\ program[t][n].op \notin Reserve /\ (program[t][m].based => ~Updates(program[t][n]))
         \/ m = n /\ program[t][n].op \in Reserve
<1>1. CASE m = n
  BY <1>1 DEF Reserves
<1>2. CASE m # n
  <2>1. m \in 1 .. n - 1 /\ n \in m + 1 .. (n + 1) - 1 /\ m + 1 .. n - 1 \subseteq m + 1 .. (n + 1) - 1
    BY <1>2
  <2> QED  BY <2>1 DEF Reserves
<1> QED  BY <1>1, <1>2

(* There is one latest reservation.                                        *)
LEMMA OneReservation ==
  ASSUME NEW t, NEW n \in Nat, NEW m \in 1 .. n - 1, NEW l \in 1 .. n - 1,
         Reserves(t, m, n), Reserves(t, l, n)
  PROVE  m = l
<1>1. ~(m < l)
  BY DEF Reserves
<1>2. ~(l < m)
  BY DEF Reserves
<1> QED  BY <1>1, <1>2

(* The more has run, the less the two conditions hold and the more bytes   *)
(* have been in memory.                                                    *)
Forward == UNCHANGED program /\ \A u \in Thread : pc[u] \in Nat /\ pc'[u] \in Nat /\ pc[u] <= pc'[u]

LEMMA Earlier ==
  ASSUME Forward
  PROVE  /\ NewValues' => NewValues
         /\ Paired' => Paired
         /\ \A b : Spent(b) => Spent(b)'
<1>1. \A u \in Thread : 1 .. pc[u] - 1 \subseteq 1 .. pc'[u] - 1
  BY DEF Forward
<1>2. UNCHANGED program
  BY DEF Forward
<1>3. /\ \A t, m, n : Fresh(t, m, n)' <=> Fresh(t, m, n)
      /\ \A t, m, n : Reserves(t, m, n)' <=> Reserves(t, m, n)
      /\ \A t, m : Value(t, m)' = Value(t, m)
  BY <1>2 DEF Fresh, Reserves, Value
<1>4. NewValues' => NewValues
  BY <1>1, <1>2, <1>3 DEF NewValues
<1>5. Paired' => Paired
  BY <1>1, <1>2, <1>3 DEF Paired
<1>6. ASSUME NEW b, Spent(b) PROVE Spent(b)'
  <2>1. CASE \E a \in Address : b = <<"mem", a>>
    BY <2>1 DEF Spent
  <2>2. ASSUME NEW t \in Thread, NEW n \in Nat, NEW m \in Nat, NEW k \in 1 .. 8,
               n \in 1 .. pc[t] - 1, m \in 0 .. n - 1,
               program[t][n].op \in Stored, Fresh(t, m, n), b = Value(t, m)[k]
        PROVE  Spent(b)'
    <3>1. n \in 1 .. pc'[t] - 1
      BY <1>1, <2>2
    <3>2. program'[t][n].op \in Stored /\ Fresh(t, m, n)' /\ b = Value(t, m)'[k]
      BY <1>2, <1>3, <2>2
    <3> QED  BY <2>2, <3>1, <3>2 DEF Spent
  <2> QED  BY <1>6, <2>1, <2>2 DEF Spent
<1> QED  BY <1>4, <1>5, <1>6

LEMMA ValueIs ==
  ASSUME NEW t, NEW m, NEW k \in 1 .. 8
  PROVE  Value(t, m)[k] = IF m = 0 THEN <<"gpr", k, t>> ELSE <<"imm", k, program[t][m].at>>
BY DEF Value, Immediate

LEMMA Origins ==
  /\ \A a, k, t : <<"mem", a>> # <<"gpr", k, t>> /\ <<"mem", a>> # <<"imm", k, t>>
  /\ \A k, l, t, u : <<"gpr", k, t>> # <<"imm", l, u>>
  /\ \A k, l, t, u : <<"gpr", k, t>> = <<"gpr", l, u>> => t = u
  /\ \A k, l, t, u : <<"imm", k, t>> = <<"imm", l, u>> => t = u
OBVIOUS

(* A store stores bytes that have not been in memory.                      *)
LEMMA NewBytes ==
  ASSUME Forward, NewValues', NEW t \in Thread, pc[t] \in Nat \ {0}, pc'[t] > pc[t],
         program[t][pc[t]].op \in Stored, Holds(t)
  PROVE  \A k \in 1 .. 8 : \A b : b = gpr[t][k] => ~Spent(b) /\ Spent(b)'
<1>0. PICK n \in Nat : n = pc[t]
  OBVIOUS
<1>1. /\ n \in Nat /\ n \in 1 .. pc'[t] - 1
      /\ UNCHANGED program /\ \A u \in Thread : 1 .. pc[u] - 1 \subseteq 1 .. pc'[u] - 1
  BY <1>0 DEF Forward
<1>2. \A u, m, l : Fresh(u, m, l)' <=> Fresh(u, m, l)
  BY <1>1 DEF Fresh
<1>3. /\ \E m \in 0 .. n - 1 : Fresh(t, m, n)
      /\ \A u \in Thread : \A l \in 1 .. pc[u] - 1 : \A m \in 1 .. n - 1, k \in 1 .. l - 1 :
            /\ program[u][l].op \in Stored /\ Fresh(t, m, n) /\ Fresh(u, k, l)
            /\ program[t][m].at = program[u][k].at
            => t = u /\ n = l
  BY <1>0, <1>1, <1>2 DEF NewValues
<1>4. PICK m \in 0 .. n - 1 : Fresh(t, m, n)
  BY <1>3
<1>5. gpr[t] = Value(t, m)
  BY <1>0, <1>4 DEF Holds
<1>6. ASSUME NEW k \in 1 .. 8, Spent(gpr[t][k]) PROVE FALSE
  <2>1. gpr[t][k] = IF m = 0 THEN <<"gpr", k, t>> ELSE <<"imm", k, program[t][m].at>>
    <3>1. Value(t, m)[k] = IF m = 0 THEN <<"gpr", k, t>> ELSE <<"imm", k, program[t][m].at>>
      BY ValueIs, Zenon
    <3> QED  BY <1>5, <3>1
  <2>2. ~ \E a \in Address : gpr[t][k] = <<"mem", a>>
    BY <2>1, Origins
  <2>3. PICK u \in Thread, l \in Nat, q \in Nat, j \in 1 .. 8 :
          /\ l \in 1 .. pc[u] - 1 /\ q \in 0 .. l - 1
          /\ program[u][l].op \in Stored /\ Fresh(u, q, l) /\ gpr[t][k] = Value(u, q)[j]
    BY <1>6, <2>2 DEF Spent
  <2>4. gpr[t][k] = IF q = 0 THEN <<"gpr", j, u>> ELSE <<"imm", j, program[u][q].at>>
    BY <2>3, ValueIs, Zenon
  <2>5. CASE m = 0 /\ q = 0
    <3>1. t = u
      BY <2>1, <2>4, <2>5, Origins
    <3>2. l \in m + 1 .. n - 1
      BY <1>0, <1>1, <2>3, <2>5, <3>1
    <3> QED  BY <1>4, <2>3, <3>1, <3>2 DEF Fresh
  <2>6. CASE m # 0 /\ q # 0
    <3>1. program[t][m].at = program[u][q].at
      BY <2>1, <2>4, <2>6, Origins
    <3>2. m \in 1 .. n - 1 /\ q \in 1 .. l - 1
      BY <1>1, <2>3, <2>6
    <3>3. t = u /\ n = l
      BY <1>3, <1>4, <2>3, <3>1, <3>2
    <3> QED  BY <1>0, <1>1, <2>3, <3>3
  <2> QED  BY <2>1, <2>4, <2>5, <2>6, Origins
<1>7. ASSUME NEW k \in 1 .. 8, NEW b, b = gpr[t][k] PROVE Spent(b)'
  <2>1. /\ program'[t][n].op \in Stored /\ Fresh(t, m, n)' /\ m \in Nat
        /\ Value(t, m)' = Value(t, m)
    BY <1>0, <1>1, <1>2, <1>4 DEF Value
  <2>2. b = Value(t, m)'[k]
    BY <1>5, <1>7, <2>1
  <2> QED  BY <1>1, <1>4, <2>1, <2>2 DEF Spent
<1> QED  BY <1>6, <1>7

(* What a step does to memory: the bytes of A are new ones.                *)
Renews(A) ==
  \A b \in Address : IF b \in A THEN ~Spent(mem'[b]) ELSE mem'[b] = mem[b]

(* A thread's reservation is lost if it is written to.                     *)
LEMMA StillWatches ==
  ASSUME NEW t \in Thread, NEW held, Watches(t, held), Width[held.op] \in 1 .. 8,
         EA(t, held) \in Int,
         EA(t, held)' = EA(t, held), reserved'[t] = reserved[t], NEW A, Renews(A),
         \/ resv'[t] = resv[t]
         \/ resv'[t] = {} /\ resv[t] \cap A # {},
         \A b : Spent(b) => Spent(b)', held.op \in DOMAIN Width
  PROVE  Watches(t, held)'
<1> DEFINE a == EA(t, held)  w == Width[held.op]  raw == Low(reserved[t], w)
<1>1. a \in Int /\ w \in 1 .. 8 /\ a >= 0 /\ a + w <= Size
  BY DEF Watches, Inside
<1>2. \A j \in 1 .. w : Spent(raw[j])
  BY DEF Watches
<1>3. resv[t] = {} => \E j \in 1 .. w : mem[a + w - j] # raw[j]
  BY DEF Watches
<1>4. resv[t] = {} \/ resv[t] = a .. a + w - 1
  BY DEF Watches, Reach
<1>5. Inside(t, held)'
  BY DEF Watches, Inside
<1>6. /\ a' = a /\ w' = w /\ raw' = raw
  OBVIOUS
<1>7. \A j \in 1 .. w : a + w - j \in Address
  <2> HIDE DEF a, w
  <2> QED  BY <1>1, VectorSize DEF Address
<1>8. resv'[t] = {} => \E j \in 1 .. w : mem'[a + w - j] # raw[j]
  <2> SUFFICES ASSUME resv'[t] = {} PROVE \E j \in 1 .. w : mem'[a + w - j] # raw[j]
    OBVIOUS
  <2> HIDE DEF a, w, raw
  <2>1. CASE resv[t] = {}
    <3>1. PICK j \in 1 .. w : mem[a + w - j] # raw[j]
      BY <1>3, <2>1
    <3>2. a + w - j \in Address /\ Spent(raw[j])
      BY <1>2, <1>7
    <3>3. mem'[a + w - j] # raw[j]
      BY <3>1, <3>2 DEF Renews
    <3> QED  BY <3>3
  <2>2. CASE resv[t] # {}
    <3>1. PICK b \in a .. a + w - 1 : b \in A
      BY <1>4, <2>2
    <3>2. a + w - b \in 1 .. w /\ a + w - (a + w - b) = b
      BY <1>1
    <3>3. b \in Address /\ Spent(raw[a + w - b])
      BY <1>2, <1>7, <3>2
    <3>4. mem'[b] # raw[a + w - b]
      BY <3>1, <3>3 DEF Renews
    <3> QED  BY <3>2, <3>4
  <2> QED  BY <2>1, <2>2
<1>9. (resv[t] = {} \/ resv[t] = Reach(a, w))'
  BY <1>6 DEF Watches, Reach
<1>10. (\A j \in 1 .. w : Spent(raw[j]))'
  <2>1. (\A j \in 1 .. w : Spent(raw[j]))' <=> \A j \in 1 .. w : Spent(raw[j])'
    OBVIOUS
  <2>2. \A j \in 1 .. w : (raw[j])' = raw[j]
    BY <1>6
  <2> QED  BY <1>2
<1>11. (resv[t] = {} => \E j \in 1 .. w : mem[a + w - j] # raw[j])'
  BY <1>6, <1>8
<1> QED  BY <1>5, <1>9, <1>10, <1>11 DEF Watches

(* The effect of a step of thread t on memory and on the other threads.    *)
Effect(t, A) ==
  /\ Renews(A) /\ UNCHANGED program
  /\ \A u \in Thread \ {t} :
       /\ pc'[u] = pc[u] /\ gpr'[u] = gpr[u] /\ reserved'[u] = reserved[u] /\ ra'[u] = ra[u]
       /\ resv'[u] = resv[u] \/ (resv'[u] = {} /\ resv[u] \cap A # {})

LEMMA ReservedType ==
  ASSUME TypeInv, NEW t \in Thread, NEW m \in 1 .. Len(program[t]), program[t][m].op \in Reserve
  PROVE  /\ IsAccess(program[t][m])
         /\ Width[program[t][m].op] \in 1 .. 8 /\ program[t][m].op \in DOMAIN Width
         /\ EA(t, program[t][m]) \in Int
         /\ EA(t, program[t][m]) =
              IF program[t][m].based THEN ra[t] + program[t][m].at ELSE program[t][m].at
<1> DEFINE held == program[t][m]
<1>1. IsAccess(held) \/ IsVectorOp(held)
  BY Programmed DEF TypeInv, Positions
<1>2. held.op \in DOMAIN Width /\ held.op \in DOMAIN Forms
  BY DEF Forms, Width, Reserve
<1>3. IsAccess(held)
  BY <1>1, <1>2, Disjoint DEF IsVectorOp
<1>4. Width[held.op] \in {1, 2, 4, 8}
  BY <1>2, WidthIs
<1>5. held.at \in Int /\ ra[t] \in Int
  <2>1. held.form = "X"
    BY <1>2, <1>3, OnlyX DEF IsAccess
  <2>2. ra[t] \in Address
    BY DEF TypeInv
  <2> QED  BY <1>3, <2>1, <2>2, VectorSize DEF IsAccess, Address
<1>6. EA(t, held) = IF held.based THEN ra[t] + held.at ELSE held.at
  BY DEF EA, PlainSum
<1> HIDE DEF held
<1>7. EA(t, held) \in Int
  BY <1>5, <1>6
<1>8. Width[held.op] \in 1 .. 8
  BY <1>4
<1> QED  BY <1>2, <1>3, <1>6, <1>7, <1>8 DEF held

LEMMA SameProgram ==
  ASSUME UNCHANGED program
  PROVE  /\ \A t, m, n : Fresh(t, m, n)' <=> Fresh(t, m, n)
         /\ \A t, m, n : Reserves(t, m, n)' <=> Reserves(t, m, n)
         /\ \A t, m : Value(t, m)' = Value(t, m)
BY DEF Fresh, Reserves, Value

LEMMA SameAddress ==
  ASSUME NEW t, NEW held, held.based => ra'[t] = ra[t], held.op \in Reserve
  PROVE  EA(t, held)' = EA(t, held)
BY DEF EA, PlainSum

LEMMA OtherFollows ==
  ASSUME TypeInv, Forward, NEW t, NEW A, Effect(t, A), NEW u \in Thread \ {t},
         pc[u] <= Len(program[u]), Follows(u)
  PROVE  Follows(u)'
<1>0. PICK n \in Nat : n = pc[u]
  BY DEF Forward
<1>1. pc'[u] = n /\ gpr'[u] = gpr[u] /\ UNCHANGED program
  BY <1>0 DEF Effect
<1>2. Holds(u)'
  BY <1>0, <1>1, SameProgram DEF Follows, Holds
<1>3. ASSUME NEW m \in 1 .. n - 1, Reserves(u, m, n)
      PROVE  Watches(u, program[u][m])'
  <2>1. PICK held : held = program[u][m]
    OBVIOUS
  <2>2. Watches(u, held) /\ held.op \in Reserve
    BY <1>0, <1>3, <2>1 DEF Follows, Reserves
  <2>3. m \in 1 .. Len(program[u])
    BY <1>0, Programmed DEF TypeInv, Positions
  <2>4. Width[held.op] \in 1 .. 8 /\ held.op \in DOMAIN Width /\ EA(u, held) \in Int
    BY <2>1, <2>2, <2>3, ReservedType
  <2>5. EA(u, held)' = EA(u, held)
    BY <2>2, SameAddress DEF Effect
  <2>6. Watches(u, held)'
    BY <2>2, <2>4, <2>5, StillWatches, Earlier DEF Effect
  <2> QED  BY <1>1, <2>1, <2>6
<1>4. \A m \in 1 .. pc'[u] - 1 : Reserves(u, m, pc[u])' => Watches(u, program[u][m])'
  <2>1. \A m : Reserves(u, m, pc[u])' <=> Reserves(u, m, n)
    BY <1>1, SameProgram DEF Reserves
  <2> QED  BY <1>1, <1>3, <2>1
<1> QED  BY <1>2, <1>4 DEF Follows

(* The thread that took the step.                                          *)
LEMMA HoldsOn ==
  ASSUME UNCHANGED program, NEW t, NEW n \in Nat \ {0}, pc[t] = n, pc'[t] = n + 1, Holds(t),
         program[t][n].op = "li" => gpr'[t] = Immediate(program[t][n].at),
         program[t][n].op \notin {"li"} \cup IntegerLoad \cup Reserve \cup Stored
           => gpr'[t] = gpr[t]
  PROVE  Holds(t)'
<1> SUFFICES ASSUME NEW m \in 0 .. n, Fresh(t, m, n + 1) PROVE gpr'[t] = Value(t, m)
  BY SameProgram DEF Holds, Fresh
<1>1. \/ /\ m \in 0 .. n - 1 /\ Fresh(t, m, n)
         /\ program[t][n].op \notin {"li"} \cup IntegerLoad \cup Reserve \cup Stored
      \/ m = n /\ program[t][n].op = "li"
  BY FreshStep
<1>2. CASE m = n /\ program[t][n].op = "li"
  BY <1>2 DEF Value
<1>3. CASE m \in 0 .. n - 1 /\ Fresh(t, m, n)
           /\ program[t][n].op \notin {"li"} \cup IntegerLoad \cup Reserve \cup Stored
  BY <1>3 DEF Holds
<1> QED  BY <1>1, <1>2, <1>3

LEMMA FollowsOn ==
  ASSUME TypeInv, Forward, NEW t \in Thread, NEW n \in Nat \ {0}, pc[t] = n, pc'[t] = n + 1,
         n <= Len(program[t]), Follows(t), Holds(t)',
         \A m \in 1 .. n : Reserves(t, m, n + 1) => Watches(t, program[t][m])'
  PROVE  Follows(t)'
<1>1. UNCHANGED program
  BY DEF Forward
<1>2. \A m : Reserves(t, m, pc[t])' <=> Reserves(t, m, n + 1)
  BY <1>1, SameProgram DEF Reserves
<1>3. 1 .. pc'[t] - 1 = 1 .. n
  OBVIOUS
<1>4. \A m \in 1 .. pc'[t] - 1 : Reserves(t, m, pc[t])' => Watches(t, program[t][m])'
  BY <1>2, <1>3
<1> QED  BY <1>4 DEF Follows

(* Where the step neither makes a reservation nor uses one.                *)
LEMMA WatchesOn ==
  ASSUME TypeInv, Forward, NEW t \in Thread, NEW n \in Nat \ {0}, pc[t] = n,
         n <= Len(program[t]), Follows(t), NEW A, Renews(A),
         program[t][n].op \notin Reserve, reserved'[t] = reserved[t], resv'[t] = resv[t],
         ~Updates(program[t][n]) => ra'[t] = ra[t]
  PROVE  \A m \in 1 .. n : Reserves(t, m, n + 1) => Watches(t, program[t][m])'
<1> SUFFICES ASSUME NEW m \in 1 .. n, Reserves(t, m, n + 1)
             PROVE  Watches(t, program[t][m])'
  OBVIOUS
<1>1. /\ m \in 1 .. n - 1 /\ Reserves(t, m, n)
      /\ program[t][m].based => ~Updates(program[t][n])
  BY ReservesStep
<1>2. PICK held : held = program[t][m]
  OBVIOUS
<1>3. Watches(t, held) /\ held.op \in Reserve
  BY <1>1, <1>2 DEF Follows, Reserves
<1>4. m \in 1 .. Len(program[t]) /\ UNCHANGED program
  BY <1>1, Programmed DEF TypeInv, Positions, Forward
<1>5. Width[held.op] \in 1 .. 8 /\ held.op \in DOMAIN Width /\ EA(t, held) \in Int
  BY <1>2, <1>3, <1>4, ReservedType
<1>6. EA(t, held)' = EA(t, held)
  BY <1>1, <1>2, <1>3, SameAddress
<1>7. Watches(t, held)'
  BY <1>3, <1>5, <1>6, StillWatches, Earlier
<1> QED  BY <1>2, <1>4, <1>7

(* The bytes that an integer store or a conditional store puts into        *)
(* memory.                                                                 *)
FromRegister(s, w, t) ==
  s = [k \in 1 .. w |-> s[k]] /\ \A k \in 1 .. w : \E l \in 1 .. 8 : s[k] = gpr[t][l]

LEMMA LowFromRegister ==
  ASSUME NEW t, NEW w \in {1, 2, 4, 8}
  PROVE  FromRegister(Low(gpr[t], w), w, t)
<1>1. Low(gpr[t], w) = [k \in 1 .. w |-> gpr[t][8 - w + k]]
  BY LowIs
<1>2. \A k \in 1 .. w : 8 - w + k \in 1 .. 8
  OBVIOUS
<1> QED  BY <1>1, <1>2 DEF FromRegister

LEMMA TurnFromRegister ==
  ASSUME NEW t, NEW w \in {1, 2, 4, 8}, NEW s, FromRegister(s, w, t)
  PROVE  FromRegister(Turn(s), w, t)
<1>0. w \in Nat /\ s = [k \in 1 .. w |-> s[k]]
  BY DEF FromRegister
<1>1. Turn(s) = [k \in 1 .. w |-> s[w + 1 - k]]
  BY <1>0, TurnIs
<1>2. \A k \in 1 .. w : w + 1 - k \in 1 .. w
  OBVIOUS
<1>3. ASSUME NEW k \in 1 .. w PROVE \E l \in 1 .. 8 : Turn(s)[k] = gpr[t][l]
  <2>1. Turn(s)[k] = s[w + 1 - k]
    BY <1>1
  <2>2. \E l \in 1 .. 8 : s[w + 1 - k] = gpr[t][l]
    BY <1>2 DEF FromRegister
  <2> QED  BY <2>1, <2>2
<1>4. Turn(s) = [k \in 1 .. w |-> Turn(s)[k]]
  BY <1>1
<1> QED  BY <1>3, <1>4 DEF FromRegister

LEMMA SpentThen ==
  ASSUME NEW b, NEW c, c = mem'[b], Spent(c)'
  PROVE  Spent(mem[b])'
BY DEF Spent

LEMMA StoreRenews ==
  ASSUME TypeInv, NEW t \in Thread, NEW a \in Int, NEW w \in {1, 2, 4, 8}, NEW s,
         FromRegister(s, w, t), mem' = HostBytes(a, s),
         \A k \in 1 .. 8 : \A b : b = gpr[t][k] => ~Spent(b) /\ Spent(b)',
         \A b : Spent(b) => Spent(b)', \A b \in Address : Spent(mem[b])
  PROVE  /\ Renews(Reach(a, w))
         /\ \A b \in Address : Spent(mem[b])'
<1>1. Len(s) = w
  BY FunctionIs DEF FromRegister
<1>2. mem' = [b \in Address |-> IF b \in a .. a + w - 1 THEN s[a + w - b] ELSE mem[b]]
  BY <1>1 DEF HostBytes
<1>3. ASSUME NEW b \in Address, b \in a .. a + w - 1
      PROVE  ~Spent(mem'[b]) /\ \A c : c = mem'[b] => Spent(c)'
  <2>1. a + w - b \in 1 .. w
    BY <1>3 DEF Address
  <2>2. PICK l \in 1 .. 8 : s[a + w - b] = gpr[t][l]
    BY <2>1 DEF FromRegister
  <2>3. mem'[b] = gpr[t][l]
    BY <1>2, <1>3, <2>2
  <2> QED  BY <2>3
<1>4. ASSUME NEW b \in Address, b \notin a .. a + w - 1
      PROVE  mem'[b] = mem[b]
  BY <1>2, <1>4
<1>5. Renews(Reach(a, w))
  BY <1>3, <1>4 DEF Renews, Reach
<1>6. ASSUME NEW b \in Address PROVE Spent(mem[b])'
  <2>1. \A c : c = mem'[b] => Spent(c)'
    <3>1. CASE b \in a .. a + w - 1
      BY <1>3, <3>1
    <3>2. CASE b \notin a .. a + w - 1
      BY <1>4, <3>2
    <3> QED  BY <3>1, <3>2
  <2>2. PICK c : c = mem'[b]
    OBVIOUS
  <2>3. Spent(c)'
    BY <2>1, <2>2
  <2> QED  BY <2>2, <2>3, SpentThen
<1> QED  BY <1>5, <1>6

LEMMA NothingRenewed ==
  ASSUME mem' = mem, \A b : Spent(b) => Spent(b)', \A b \in Address : Spent(mem[b])
  PROVE  Renews({}) /\ \A b \in Address : Spent(mem[b])'
<1>1. ASSUME NEW b \in Address PROVE Spent(mem[b])'
  <2>1. PICK c : c = mem[b]
    OBVIOUS
  <2>2. Spent(c)'
    BY <2>1
  <2> QED  BY <2>1, <2>2 DEF Spent
<1> QED  BY <1>1 DEF Renews

LEMMA ReadSpent ==
  ASSUME NEW t, NEW w, NEW raw, Low(reserved[t], w)' = raw, \A j \in 1 .. w : Spent(raw[j])'
  PROVE  (\A j \in 1 .. w : Spent(Low(reserved[t], w)[j]))'
BY DEF Spent

(* What a reservation has read is what memory holds.                       *)
LEMMA ReserveWatches ==
  ASSUME TypeInv, NEW t \in Thread, NEW i, i.op \in Reserve, IsAccess(i), Inside(t, i),
         LoadReserved(t, i), ra'[t] = ra[t],
         \A b : Spent(b) => Spent(b)', \A b \in Address : Spent(mem[b])
  PROVE  Watches(t, i)'
<1>1. PICK w \in {4, 8} : w = Width[i.op] /\ i.op \in DOMAIN Width
  BY DEF Width, Reserve
<1>2. PICK a \in Address : a = EA(t, i) /\ a + w <= Size /\ EA(t, i)' = a
  <2>1. ra[t] \in Address
    BY DEF TypeInv
  <2>2. EA(t, i) \in Address /\ EA(t, i) + w <= Size
    BY <1>1, <2>1, AddressType DEF AccessesWithin
  <2> QED  BY <2>2, SameAddress
<1>3. a \in Int /\ w \in Nat /\ 8 - w \in Nat /\ w \in {1, 2, 4, 8}
  BY VectorSize DEF Address
<1>4. PICK raw : raw = HostRead(a, w)
  OBVIOUS
<1>5. raw = [k \in 1 .. w |-> mem[a + w - k]] /\ Len(raw) = w
  BY <1>3, <1>4, ReadIs
<1>6. reserved'[t] = SubSeq(reserved[t], 1, 8 - w) \o raw
  BY <1>1, <1>2, <1>4, <1>5 DEF LoadReserved, TypeInv, Registers
<1>7. Low(reserved[t], w)' = raw
  <2>1. SubSeq(reserved[t], 1, 8 - w) = [k \in 1 .. 8 - w |-> reserved[t][k]]
    <3>1. SubSeq(reserved[t], 1, 8 - w) = [k \in 1 .. (8 - w) - 1 + 1 |-> reserved[t][1 + k - 1]]
      BY <1>3, SubSeqIs
    <3> QED  BY <1>3, <3>1
  <2>2. PICK s : s = SubSeq(reserved[t], 1, 8 - w)
    OBVIOUS
  <2>3. s = [k \in 1 .. 8 - w |-> s[k]] /\ raw = [k \in 1 .. w |-> raw[k]]
    BY <1>5, <2>1, <2>2
  <2>4. PICK both : both = s \o raw
    OBVIOUS
  <2>5. both = [k \in 1 .. (8 - w) + w |-> IF k <= 8 - w THEN s[k] ELSE raw[k - (8 - w)]]
    BY <1>3, <2>3, <2>4, Concatenation, SMTT(20)
  <2>6. Low(both, w) = [k \in 1 .. w |-> both[8 - w + k]]
    BY <1>3, LowIs
  <2>7. ASSUME NEW k \in 1 .. w PROVE both[8 - w + k] = raw[k]
    <3>1. /\ 8 - w + k \in 1 .. (8 - w) + w /\ ~(8 - w + k <= 8 - w)
          /\ (8 - w + k) - (8 - w) = k
      BY <1>3
    <3> QED  BY <2>5, <3>1
  <2>8. Low(both, w) = raw
    BY <2>3, <2>6, <2>7
  <2> QED  BY <1>6, <2>2, <2>4, <2>8 DEF Low
<1>8. resv'[t] = a .. a + w - 1 /\ resv'[t] # {}
  BY <1>1, <1>2, <1>3 DEF LoadReserved, TypeInv, Reach
<1>9. \A j \in 1 .. w : Spent(raw[j])'
  <2> SUFFICES ASSUME NEW j \in 1 .. w PROVE Spent(raw[j])'
    OBVIOUS
  <2>1. a + w - j \in Address /\ raw[j] = mem[a + w - j]
    BY <1>2, <1>3, <1>5, VectorSize DEF Address
  <2> QED  BY <2>1
<1>10. (\A j \in 1 .. w : Spent(Low(reserved[t], w)[j]))'
  BY <1>7, <1>9, ReadSpent
<1>11. Inside(t, i)'
  BY <1>1, <1>2, <1>3 DEF Inside, Address
<1>12. Reach(EA(t, i), Width[i.op])' = a .. a + w - 1
  BY <1>1, <1>2 DEF Reach
<1> QED  BY <1>1, <1>8, <1>10, <1>11, <1>12 DEF Watches

(* A conditional store goes through only if nobody wrote to what it        *)
(* reserved, and then the bytes it reserved have changed.                  *)
LEMMA ConditionalFollows ==
  ASSUME TypeInv, Forward, NEW t \in Thread, NEW n \in Nat \ {0}, pc[t] = n, pc'[t] = n + 1,
         n <= Len(program[t]), Follows(t), Paired', NEW i, i = program[t][n],
         StoreConditional(t, i), ra'[t] = ra[t],
         \A k \in 1 .. 8 : \A b : b = gpr[t][k] => ~Spent(b) /\ Spent(b)',
         \A b \in Address : Spent(mem[b])
  PROVE  /\ gaveBack' = gaveBack
         /\ \A b \in Address : Spent(mem[b])'
         /\ \A m \in 1 .. n : Reserves(t, m, n + 1) => Watches(t, program[t][m])'
         /\ \E A : /\ Renews(A)
                   /\ \A u \in Thread \ {t} :
                        resv'[u] = resv[u] \/ (resv'[u] = {} /\ resv[u] \cap A # {})
<1>0. i.op \in Conditional /\ UNCHANGED program /\ reserved' = reserved
  BY DEF StoreConditional, Forward
<1>1. PICK l \in 1 .. n - 1 : Reserves(t, l, n) /\ Matches(i, program[t][l])
  <2>1. n \in 1 .. pc'[t] - 1 /\ program'[t][n].op \in Conditional
    BY <1>0
  <2>2. \E l \in 1 .. n - 1 : Reserves(t, l, n)' /\ Matches(program[t][n], program[t][l])'
    BY <2>1 DEF Paired
  <2>3. \A l : Reserves(t, l, n)' <=> Reserves(t, l, n)
    BY <1>0, SameProgram
  <2>4. \A l : Matches(program[t][n], program[t][l])' <=> Matches(program[t][n], program[t][l])
    BY <1>0 DEF Matches
  <2> QED  BY <2>2, <2>3, <2>4
<1>2. PICK held : held = program[t][l]
  OBVIOUS
<1>3. Watches(t, held) /\ held.op \in Reserve
  BY <1>1, <1>2 DEF Follows, Reserves
<1>4. PICK w \in {4, 8} : w = Width[held.op] /\ w = Width[i.op] /\ held.op \in DOMAIN Width
  BY <1>1, <1>2, <1>3, SMTT(20) DEF Width, Reserve, Matches
<1>5. PICK a \in Int : a = EA(t, held) /\ a = EA(t, i) /\ EA(t, held)' = a
  <2>1. l \in 1 .. Len(program[t])
    BY <1>1, Programmed DEF TypeInv, Positions
  <2>2. EA(t, held) \in Int
    BY <1>2, <1>3, <2>1, ReservedType
  <2>3. EA(t, i) = EA(t, held)
    BY <1>0, <1>1, <1>2, <1>3 DEF EA, PlainSum, Matches
  <2>4. EA(t, held)' = EA(t, held)
    BY <1>3, SameAddress
  <2> QED  BY <2>2, <2>3, <2>4
<1>6. PICK raw : raw = Low(reserved[t], w)
  OBVIOUS
<1>7. /\ a >= 0 /\ a + w <= Size /\ w \in {1, 2, 4, 8} /\ w \in Nat
      /\ \A j \in 1 .. w : Spent(raw[j])
      /\ resv[t] = {} => \E j \in 1 .. w : mem[a + w - j] # raw[j]
  <2>1. a >= 0 /\ a + w <= Size
    BY <1>3, <1>4, <1>5 DEF Watches, Inside
  <2>2. \A j \in 1 .. w : Spent(raw[j])
    BY <1>3, <1>4, <1>6 DEF Watches
  <2>3. resv[t] = {} => \E j \in 1 .. w : mem[a + w - j] # raw[j]
    BY <1>3, <1>4, <1>5, <1>6 DEF Watches
  <2>4. w \in {1, 2, 4, 8} /\ w \in Nat
    OBVIOUS
  <2> QED  BY <2>1, <2>2, <2>3, <2>4, Zenon
<1>8. raw = [k \in 1 .. w |-> raw[k]]
  <2>1. raw = [k \in 1 .. w |-> reserved[t][8 - w + k]]
    <3>1. w \in {1, 2, 4, 8}
      BY <1>7
    <3> QED  BY <1>6, <3>1, LowIs, Zenon
  <2> QED  BY <2>1
<1>9. Swaps(t, i) <=> \A j \in 1 .. w : mem[a + w - j] = raw[j]
  <2>1. PICK seen : seen = HostRead(a, w)
    OBVIOUS
  <2>2. seen = [k \in 1 .. w |-> mem[a + w - k]]
    BY <1>7, <2>1, ReadIs
  <2>3. Swaps(t, i) <=> seen = raw
    BY <1>4, <1>5, <1>6, <2>1 DEF Swaps
  <2> QED  BY <1>8, <2>2, <2>3
<1>10. Swaps(t, i) => resv[t] # {}
  BY <1>7, <1>9
<1>11. gaveBack' = gaveBack
  BY <1>10 DEF StoreConditional
<1>12. resv'[t] = {}
  BY DEF StoreConditional, TypeInv
<1>13. /\ \A b \in Address : Spent(mem[b])'
       /\ \E j \in 1 .. w : mem'[a + w - j] # raw[j]
       /\ \E A : /\ Renews(A)
                 /\ \A u \in Thread \ {t} :
                      resv'[u] = resv[u] \/ (resv'[u] = {} /\ resv[u] \cap A # {})
  <2>1. CASE Swaps(t, i)
    <3>1. PICK s : s = Turn(Low(gpr[t], w))
      OBVIOUS
    <3>2. FromRegister(s, w, t)
      BY <1>7, <3>1, LowFromRegister, TurnFromRegister
    <3>3. mem' = HostBytes(a, s)
      BY <1>4, <1>5, <2>1, <3>1 DEF StoreConditional
    <3>4. Renews(Reach(a, w)) /\ \A b \in Address : Spent(mem[b])'
      BY <1>7, <3>2, <3>3, StoreRenews, Earlier
    <3>5. mem'[a + w - 1] # raw[1]
      <4>1. a >= 0 /\ a + w <= Size /\ w \in Nat /\ w > 0 /\ a \in Int
        BY <1>7
      <4>2. a + w - 1 \in Address
        BY <4>1, VectorSize, SMTT(20) DEF Address
      <4>3. a + w - 1 \in Reach(a, w) /\ 1 \in 1 .. w
        BY <4>1 DEF Reach
      <4>4. ~Spent(mem'[a + w - 1]) /\ Spent(raw[1])
        BY <1>7, <3>4, <4>2, <4>3 DEF Renews
      <4> QED  BY <4>4
    <3>6. \A u \in Thread \ {t} :
            resv'[u] = resv[u] \/ (resv'[u] = {} /\ resv[u] \cap Reach(a, w) # {})
      <4>1. resv' = [u \in Thread |->
                       IF u = t \/ resv[u] \cap Reach(a, w) # {} THEN {} ELSE resv[u]]
        BY <1>4, <1>5, <2>1, SMTT(20) DEF StoreConditional
      <4> QED  BY <4>1
    <3>7. 1 \in 1 .. w
      BY <1>7
    <3> QED  BY <3>4, <3>5, <3>6, <3>7
  <2>2. CASE ~Swaps(t, i)
    <3>1. mem' = mem /\ \A u \in Thread \ {t} : resv'[u] = resv[u]
      BY <2>2 DEF StoreConditional, TypeInv
    <3>2. Renews({}) /\ \A b \in Address : Spent(mem[b])'
      BY <3>1, NothingRenewed, Earlier
    <3>3. \E j \in 1 .. w : mem'[a + w - j] # raw[j]
      BY <1>9, <2>2, <3>1
    <3> QED  BY <3>1, <3>2, <3>3
  <2> QED  BY <2>1, <2>2
<1>14. Watches(t, held)'
  <2>1. Inside(t, held)'
    BY <1>4, <1>5, <1>7 DEF Inside
  <2>2. Low(reserved[t], w)' = raw
    BY <1>0, <1>6
  <2>3. (\A j \in 1 .. w : Spent(Low(reserved[t], w)[j]))'
    <3>1. \A j \in 1 .. w : Spent(raw[j])'
      BY <1>7, Earlier
    <3> QED  BY <2>2, <3>1, ReadSpent
  <2>4. (\E j \in 1 .. w : mem[a + w - j] # Low(reserved[t], w)[j])'
    BY <1>13, <2>2
  <2> QED  BY <1>4, <1>5, <1>12, <2>1, <2>3, <2>4 DEF Watches
<1>15. ASSUME NEW m \in 1 .. n, Reserves(t, m, n + 1)
       PROVE  Watches(t, program[t][m])'
  <2>1. program[t][n].op \notin Reserve
    BY <1>0 DEF Conditional, Reserve
  <2>2. m \in 1 .. n - 1 /\ Reserves(t, m, n)
    BY <1>15, <2>1, ReservesStep
  <2>3. m = l
    BY <1>1, <2>2, OneReservation
  <2>4. program'[t][m] = held
    BY <1>0, <1>2, <2>3
  <2> QED  BY <1>14, <2>4
<1> QED  BY <1>11, <1>13, <1>15

LEMMA ValuesInit == AccessInit => ValuesInv
<1> SUFFICES ASSUME AccessInit PROVE ValuesInv
  OBVIOUS
<1>1. gaveBack = {} /\ \A a \in Address : Spent(mem[a])
  BY DEF AccessInit, Spent
<1>2. ASSUME NEW t \in Thread PROVE Follows(t)
  <2>1. pc[t] = 1 /\ gpr[t] = [k \in 1 .. 8 |-> <<"gpr", k, t>>]
    BY DEF AccessInit
  <2>2. Holds(t)
    BY <2>1 DEF Holds, Value
  <2> QED  BY <2>1, <2>2 DEF Follows
<1> QED  BY <1>1, <1>2 DEF ValuesInv

(* What the kinds of steps do to the reservations and registers.           *)
LEMMA Operations ==
  ASSUME TypeInv, NEW t \in Thread, NEW i, IsAccess(i) \/ IsVectorOp(i),
         \/ LoadImmediate(t, i) \/ LoadInteger(t, i) \/ LoadFloat(t, i)
         \/ LoadVector(t, i) \/ LoadControl(t, i) \/ Permute(t, i)
  PROVE  /\ UNCHANGED <<mem, reserved, resv, gaveBack>>
         /\ i.op \notin Reserve \cup Stored
         /\ \A u \in Thread \ {t} : gpr'[u] = gpr[u]
         /\ i.op = "li" => gpr'[t] = Immediate(i.at)
         /\ i.op \notin {"li"} \cup IntegerLoad => gpr'[t] = gpr[t]
<1>1. CASE LoadImmediate(t, i)
  BY <1>1 DEF LoadImmediate, TypeInv, Registers, Reserve, Stored, IntegerStore, Conditional
<1>2. CASE LoadInteger(t, i)
  <2>1. /\ i.op \in IntegerLoad /\ UNCHANGED <<mem, reserved, resv, gaveBack>>
        /\ \E s : gpr' = [gpr EXCEPT ![t] = s]
    BY <1>2, Zenon DEF LoadInteger
  <2>2. i.op \notin Reserve \cup Stored /\ i.op # "li"
    BY <2>1 DEF IntegerLoad, Reserve, Stored, IntegerStore, Conditional
  <2> QED  BY <2>1, <2>2 DEF TypeInv, Registers
<1>3. CASE LoadFloat(t, i)
  BY <1>3 DEF LoadFloat, FloatLoad, Reserve, Stored, IntegerStore, Conditional
<1>4. CASE LoadVector(t, i)
  BY <1>4 DEF LoadVector, VectorLoad, Reserve, Stored, IntegerStore, Conditional
<1>5. CASE LoadControl(t, i)
  BY <1>5 DEF LoadControl, VectorControl, Reserve, Stored, IntegerStore, Conditional
<1>6. CASE Permute(t, i)
  <2>1. i.op \in VectorOps
    <3>1. i.form = "V"
      BY <1>6 DEF Permute
    <3>2. ~IsAccess(i)
      BY <3>1, FormsAre DEF IsAccess
    <3> QED  BY <3>2 DEF IsVectorOp
  <2>2. i.op \notin Reserve \cup Stored /\ i.op # "li"
    BY <2>1, Disjoint DEF Forms, Width, Reserve, Stored, IntegerStore, Conditional
  <2> QED  BY <1>6, <2>2 DEF Permute
<1> QED  BY <1>1, <1>2, <1>3, <1>4, <1>5, <1>6

LEMMA IntegerStoreRenews ==
  ASSUME TypeInv, NEW t \in Thread, NEW i, IsAccess(i), Inside(t, i), StoreInteger(t, i),
         \A k \in 1 .. 8 : \A b : b = gpr[t][k] => ~Spent(b) /\ Spent(b)',
         \A b : Spent(b) => Spent(b)', \A b \in Address : Spent(mem[b])
  PROVE  /\ \A b \in Address : Spent(mem[b])'
         /\ \E A : /\ Renews(A) /\ resv'[t] = resv[t]
                   /\ \A u \in Thread \ {t} :
                        resv'[u] = resv[u] \/ (resv'[u] = {} /\ resv[u] \cap A # {})
<1>1. i.op \in IntegerStore /\ i.op \in DOMAIN Width
  BY DEF StoreInteger, IntegerStore, Width
<1>2. PICK w \in {1, 2, 4, 8} : w = Width[i.op]
  BY <1>1, WidthIs
<1>3. PICK a \in Address : a = EA(t, i)
  BY <1>1, AddressType DEF AccessesWithin, TypeInv
<1>4. PICK s : /\ s = (IF i.op \in {"sthbrx", "stwbrx"} THEN Turn(Low(gpr[t], w)) ELSE Low(gpr[t], w))
               /\ PPC_STORE(t, a, s)
  BY <1>2, <1>3 DEF StoreInteger
<1>5. FromRegister(s, w, t)
  BY <1>4, LowFromRegister, TurnFromRegister
<1>6. PICK turned : turned = Turn(s)
  OBVIOUS
<1>7. FromRegister(turned, w, t)
  BY <1>5, <1>6, TurnFromRegister
<1>8. Len(turned) = w /\ a \in Int /\ w \in Nat
  BY <1>7, FunctionIs, VectorSize DEF FromRegister, Address
<1>9. mem' = HostBytes(a, turned) /\ LoseTo(t, a, w)
  BY <1>4, <1>6, <1>8 DEF PPC_STORE, HostWrite
<1>10. Renews(Reach(a, w)) /\ \A b \in Address : Spent(mem[b])'
  BY <1>7, <1>8, <1>9, StoreRenews
<1>11. /\ resv'[t] = resv[t]
       /\ \A u \in Thread \ {t} :
            resv'[u] = resv[u] \/ (resv'[u] = {} /\ resv[u] \cap Reach(a, w) # {})
  BY <1>9 DEF LoseTo
<1> QED  BY <1>10, <1>11

(* What the step of the thread that takes it comes to.                     *)
Renewal(t) ==
  /\ gaveBack' = gaveBack
  /\ \A b \in Address : Spent(mem[b])'
  /\ Follows(t)'
  /\ \E A : /\ Renews(A)
            /\ \A u \in Thread \ {t} :
                 /\ gpr'[u] = gpr[u] /\ reserved'[u] = reserved[u]
                 /\ resv'[u] = resv[u] \/ (resv'[u] = {} /\ resv[u] \cap A # {})

LEMMA QuietRenewal ==
  ASSUME TypeInv, Forward, NEW t \in Thread, NEW n \in Nat \ {0}, pc[t] = n, pc'[t] = n + 1,
         n <= Len(program[t]), Follows(t), \A b \in Address : Spent(mem[b]),
         NEW i, i = program[t][n], IsAccess(i) \/ IsVectorOp(i), ~Updates(i) => ra'[t] = ra[t],
         \/ LoadImmediate(t, i) \/ LoadInteger(t, i) \/ LoadFloat(t, i)
         \/ LoadVector(t, i) \/ LoadControl(t, i) \/ Permute(t, i)
  PROVE  Renewal(t)
<1>1. /\ UNCHANGED <<mem, reserved, resv, gaveBack>>
      /\ i.op \notin Reserve \cup Stored
      /\ \A u \in Thread \ {t} : gpr'[u] = gpr[u]
      /\ i.op = "li" => gpr'[t] = Immediate(i.at)
      /\ i.op \notin {"li"} \cup IntegerLoad => gpr'[t] = gpr[t]
  BY Operations
<1>2. Renews({}) /\ \A b \in Address : Spent(mem[b])'
  BY <1>1, NothingRenewed, Earlier
<1>3. Holds(t)'
  BY <1>1, HoldsOn DEF Forward, Follows
<1>4. \A m \in 1 .. n : Reserves(t, m, n + 1) => Watches(t, program[t][m])'
  BY <1>1, <1>2, WatchesOn
<1>5. Follows(t)'
  BY <1>3, <1>4, FollowsOn
<1>6. \A u \in Thread \ {t} : reserved'[u] = reserved[u] /\ resv'[u] = resv[u]
  BY <1>1
<1> QED  BY <1>1, <1>2, <1>5, <1>6 DEF Renewal

LEMMA StoreRenewal ==
  ASSUME TypeInv, Forward, NewValues', NEW t \in Thread, NEW n \in Nat \ {0}, pc[t] = n,
         pc'[t] = n + 1, n <= Len(program[t]), Follows(t), \A b \in Address : Spent(mem[b]),
         NEW i, i = program[t][n], IsAccess(i), ~Updates(i) => ra'[t] = ra[t], Inside(t, i),
         StoreInteger(t, i)
  PROVE  Renewal(t)
<1>1. i.op \in IntegerStore /\ UNCHANGED <<gpr, reserved, gaveBack>>
  BY DEF StoreInteger
<1>2. i.op \in Stored /\ i.op \notin {"li"} \cup Reserve
  BY <1>1 DEF Stored, IntegerStore, Reserve
<1>3. \A k \in 1 .. 8 : \A b : b = gpr[t][k] => ~Spent(b) /\ Spent(b)'
  <2>1. /\ Holds(t) /\ pc[t] \in Nat \ {0} /\ pc'[t] > pc[t]
        /\ program[t][pc[t]].op \in Stored
    BY <1>2 DEF Follows
  <2> QED  BY <2>1, NewBytes, Zenon
<1>4. /\ \A b \in Address : Spent(mem[b])'
      /\ \E A : /\ Renews(A) /\ resv'[t] = resv[t]
                /\ \A u \in Thread \ {t} :
                     resv'[u] = resv[u] \/ (resv'[u] = {} /\ resv[u] \cap A # {})
  BY <1>3, IntegerStoreRenews, Earlier
<1>5. PICK A : /\ Renews(A) /\ resv'[t] = resv[t]
               /\ \A u \in Thread \ {t} :
                    resv'[u] = resv[u] \/ (resv'[u] = {} /\ resv[u] \cap A # {})
  BY <1>4
<1>6. Holds(t)'
  BY <1>1, <1>2, HoldsOn DEF Forward, Follows
<1>7. \A m \in 1 .. n : Reserves(t, m, n + 1) => Watches(t, program[t][m])'
  BY <1>1, <1>2, <1>5, WatchesOn
<1>8. Follows(t)'
  BY <1>6, <1>7, FollowsOn
<1> QED  BY <1>1, <1>4, <1>5, <1>8 DEF Renewal

LEMMA ReserveRenewal ==
  ASSUME TypeInv, Forward, NEW t \in Thread, NEW n \in Nat \ {0}, pc[t] = n, pc'[t] = n + 1,
         n <= Len(program[t]), Follows(t), \A b \in Address : Spent(mem[b]),
         NEW i, i = program[t][n], IsAccess(i), ra'[t] = ra[t], Inside(t, i), LoadReserved(t, i)
  PROVE  Renewal(t)
<1>1. i.op \in Reserve /\ UNCHANGED <<mem, gaveBack>>
  BY DEF LoadReserved
<1>2. Renews({}) /\ \A b \in Address : Spent(mem[b])'
  BY <1>1, NothingRenewed, Earlier
<1>3. /\ \E x : reserved' = [reserved EXCEPT ![t] = x]
      /\ \E x : gpr' = [gpr EXCEPT ![t] = x]
      /\ \E x : resv' = [resv EXCEPT ![t] = x]
  BY DEF LoadReserved
<1>4. \A u \in Thread \ {t} : gpr'[u] = gpr[u] /\ reserved'[u] = reserved[u] /\ resv'[u] = resv[u]
  BY <1>3 DEF TypeInv, Registers
<1>5. Holds(t)'
  <2>1. i.op # "li" /\ i.op \in {"li"} \cup IntegerLoad \cup Reserve \cup Stored
    BY <1>1 DEF Reserve
  <2> QED  BY <2>1, HoldsOn DEF Forward, Follows
<1>6. ASSUME NEW m \in 1 .. n, Reserves(t, m, n + 1)
      PROVE  Watches(t, program[t][m])'
  <2>1. m = n
    BY <1>1, <1>6, ReservesStep
  <2>2. Watches(t, i)'
    BY <1>1, ReserveWatches, Earlier
  <2>3. program'[t][m] = i
    BY <2>1 DEF Forward
  <2> QED  BY <2>2, <2>3
<1>7. Follows(t)'
  BY <1>5, <1>6, FollowsOn
<1> QED  BY <1>1, <1>2, <1>4, <1>7 DEF Renewal

LEMMA ConditionalRenewal ==
  ASSUME TypeInv, Forward, NewValues', Paired', NEW t \in Thread, NEW n \in Nat \ {0},
         pc[t] = n, pc'[t] = n + 1, n <= Len(program[t]), Follows(t),
         \A b \in Address : Spent(mem[b]), NEW i, i = program[t][n], ra'[t] = ra[t],
         StoreConditional(t, i)
  PROVE  Renewal(t)
<1>1. i.op \in Conditional /\ UNCHANGED <<gpr, reserved>>
  BY DEF StoreConditional
<1>2. i.op \in Stored /\ i.op # "li"
  BY <1>1 DEF Stored, Conditional
<1>3. \A k \in 1 .. 8 : \A b : b = gpr[t][k] => ~Spent(b) /\ Spent(b)'
  <2>1. /\ Holds(t) /\ pc[t] \in Nat \ {0} /\ pc'[t] > pc[t]
        /\ program[t][pc[t]].op \in Stored
    BY <1>2 DEF Follows
  <2> QED  BY <2>1, NewBytes, Zenon
<1>4. /\ gaveBack' = gaveBack
      /\ \A b \in Address : Spent(mem[b])'
      /\ \A m \in 1 .. n : Reserves(t, m, n + 1) => Watches(t, program[t][m])'
      /\ \E A : /\ Renews(A)
                /\ \A u \in Thread \ {t} :
                     resv'[u] = resv[u] \/ (resv'[u] = {} /\ resv[u] \cap A # {})
  BY <1>3, ConditionalFollows
<1>5. Holds(t)'
  BY <1>1, <1>2, HoldsOn DEF Forward, Follows
<1>6. Follows(t)'
  BY <1>4, <1>5, FollowsOn
<1> QED  BY <1>1, <1>4, <1>6 DEF Renewal

(* Reservations and their stores have no update of the base register.      *)
LEMMA BaseStays ==
  ASSUME NEW t, NEW i, IsAccess(i), i.op \in Reserve \cup Conditional, Advance(t, i)
  PROVE  ra' = ra
<1>1. i.form = "X"
  BY OnlyX DEF IsAccess
<1> QED  BY <1>1 DEF Advance, Updates

LEMMA StepRenewal ==
  ASSUME TypeInv, Forward, NewValues', Paired', NEW t \in Thread, NEW n \in Nat \ {0},
         pc[t] = n, pc'[t] = n + 1, n <= Len(program[t]), Follows(t),
         \A b \in Address : Spent(mem[b]), NEW i, i = program[t][n],
         IsAccess(i) \/ IsVectorOp(i), Inside(t, i), Advance(t, i), Step(t, i)
  PROVE  Renewal(t)
<1>1. ~Updates(i) => ra'[t] = ra[t]
  BY DEF Advance
<1>2. i.op \notin FloatStore \cup VectorStore
  <2>1. n \in 1 .. pc'[t] - 1 /\ program'[t][n] = i
    BY DEF Forward
  <2> QED  BY <2>1 DEF NewValues
<1>3. i.op \in IntegerStore \cup Reserve \cup Conditional => IsAccess(i)
  <2>1. IntegerStore \cup Reserve \cup Conditional \subseteq DOMAIN Forms
    BY WidthIs DEF Forms
  <2> QED  BY <2>1, Disjoint DEF IsVectorOp
<1>4. CASE \/ LoadImmediate(t, i) \/ LoadInteger(t, i) \/ LoadFloat(t, i)
           \/ LoadVector(t, i) \/ LoadControl(t, i) \/ Permute(t, i)
  BY <1>1, <1>4, QuietRenewal
<1>5. CASE StoreInteger(t, i)
  <2>1. IsAccess(i)
    BY <1>3, <1>5 DEF StoreInteger
  <2> QED  BY <1>1, <1>5, <2>1, StoreRenewal
<1>6. CASE LoadReserved(t, i)
  <2>1. IsAccess(i) /\ i.op \in Reserve
    BY <1>3, <1>6 DEF LoadReserved
  <2> QED  BY <1>6, <2>1, BaseStays, ReserveRenewal
<1>7. CASE StoreConditional(t, i)
  <2>1. IsAccess(i) /\ i.op \in Conditional
    BY <1>3, <1>7 DEF StoreConditional
  <2> QED  BY <1>7, <2>1, BaseStays, ConditionalRenewal
<1>8. ~StoreFloat(t, i) /\ ~StoreVector(t, i)
  BY <1>2 DEF StoreFloat, StoreVector
<1>9. CASE Leave(t, i)
  BY <1>9 DEF Leave
<1> QED  BY <1>4, <1>5, <1>6, <1>7, <1>8, <1>9, Zenon DEF Step

LEMMA ValuesNext == TypeInv /\ ValuesInv /\ [AccessNext]_accessVars => ValuesInv'
<1> SUFFICES ASSUME TypeInv, ValuesInv, [AccessNext]_accessVars, NewValues', Paired'
             PROVE  /\ gaveBack' = {}
                    /\ \A a \in Address : Spent(mem[a])'
                    /\ \A t \in Thread : pc'[t] <= Len(program'[t]) => Follows(t)'
  BY DEF ValuesInv
<1>1. \A t \in Thread : pc[t] \in Nat \ {0} /\ Len(program[t]) \in Nat
  BY Programmed DEF TypeInv, Positions
<1>2. CASE UNCHANGED accessVars
  <2>1. UNCHANGED <<program, pc, mem, gpr, ra, reserved, resv, gaveBack>>
    BY <1>2 DEF accessVars
  <2>2. Forward
    BY <1>1, <2>1 DEF Forward
  <2>3. NewValues /\ Paired
    BY <2>2, Earlier
  <2>4. Renews({}) /\ \A b \in Address : Spent(mem[b])'
    BY <2>1, <2>2, <2>3, NothingRenewed, Earlier DEF ValuesInv
  <2>5. ASSUME NEW u \in Thread, pc[u] <= Len(program[u]) PROVE Follows(u)'
    <3>1. PICK t \in {1, 2} : t # u
      OBVIOUS
    <3>2. Effect(t, {})
      BY <2>1, <2>4 DEF Effect
    <3>3. Follows(u) /\ u \in Thread \ {t}
      BY <2>3, <2>5, <3>1 DEF ValuesInv
    <3> QED  BY <2>2, <2>5, <3>2, <3>3, OtherFollows
  <2> QED  BY <2>1, <2>3, <2>4, <2>5 DEF ValuesInv
<1>3. CASE AccessNext
  <2>1. PICK t \in Thread : \E i \in {Current(t)} : pc[t] <= Len(program[t]) /\ Step(t, i)
    BY <1>3, Zenon DEF AccessNext
  <2>2. PICK i : i = Current(t) /\ pc[t] <= Len(program[t]) /\ Step(t, i)
    BY <2>1, Zenon
  <2>3. PICK n \in Nat \ {0} : n = pc[t]
    BY <1>1
  <2>4. i = program[t][n] /\ n <= Len(program[t])
    BY <2>2, <2>3 DEF Current
  <2>5. IsAccess(i) \/ IsVectorOp(i)
    BY <2>2, CurrentIs DEF TypeInv
  <2>6. DOMAIN pc = Thread /\ ra \in [Thread -> Address]
    BY DEF TypeInv, Positions
  <2>7. CASE Inside(t, i) /\ Advance(t, i)
    <3>1. /\ UNCHANGED program /\ pc'[t] = n + 1
          /\ \A u \in Thread \ {t} : pc'[u] = pc[u] /\ ra'[u] = ra[u]
      BY <2>3, <2>6, <2>7 DEF Advance
    <3>2. Forward
      BY <1>1, <2>3, <3>1 DEF Forward
    <3>3. NewValues /\ Paired
      BY <3>2, Earlier
    <3>4. Follows(t) /\ gaveBack = {} /\ \A b \in Address : Spent(mem[b])
      BY <2>2, <3>3 DEF ValuesInv
    <3>5. Renewal(t)
      BY <2>2, <2>3, <2>4, <2>5, <2>7, <3>1, <3>2, <3>4, StepRenewal
    <3>6. PICK A : Effect(t, A)
      BY <3>1, <3>5 DEF Renewal, Effect
    <3>7. ASSUME NEW u \in Thread \ {t}, pc'[u] <= Len(program'[u]) PROVE Follows(u)'
      <4>1. pc[u] <= Len(program[u]) /\ Follows(u)
        BY <3>1, <3>3, <3>7 DEF ValuesInv
      <4> QED  BY <3>2, <3>6, <4>1, OtherFollows
    <3> QED  BY <3>4, <3>5, <3>7 DEF Renewal
  <2>8. CASE Leave(t, i)
    <3>1. /\ UNCHANGED <<program, mem, gpr, ra, reserved, resv, gaveBack>>
          /\ pc'[t] = Len(program[t]) + 1
          /\ \A u \in Thread \ {t} : pc'[u] = pc[u]
      BY <2>6, <2>8 DEF Leave
    <3>2. Forward
      BY <1>1, <2>3, <2>4, <3>1 DEF Forward
    <3>3. NewValues /\ Paired
      BY <3>2, Earlier
    <3>4. Renews({}) /\ \A b \in Address : Spent(mem[b])'
      BY <3>1, <3>2, <3>3, NothingRenewed, Earlier DEF ValuesInv
    <3>5. Effect(t, {})
      BY <3>1, <3>4 DEF Effect
    <3>6. ASSUME NEW u \in Thread, pc'[u] <= Len(program'[u]) PROVE Follows(u)'
      <4>1. u # t
        BY <1>1, <3>1, <3>6
      <4>2. pc[u] <= Len(program[u]) /\ Follows(u)
        BY <3>1, <3>3, <3>6, <4>1 DEF ValuesInv
      <4> QED  BY <3>2, <3>5, <4>1, <4>2, OtherFollows
    <3> QED  BY <3>1, <3>3, <3>4, <3>6 DEF ValuesInv
  <2> QED  BY <2>2, <2>7, <2>8, Zenon DEF Step
<1> QED  BY <1>2, <1>3

(* A conditional store goes through without a reservation only after some  *)
(* word was given an old value back.  The stwcx. and stdcx. of             *)
(* recompiler.cpp:1872 compare values, with __sync_bool_compare_and_swap:  *)
(* whatever the programs of however many threads are, while those store    *)
(* new values each time and to what they reserved, no conditional store is *)
(* done that PowerPC would refuse.                                         *)
THEOREM OnlyOldValuesGiveBack == AccessSpec => []OnlyOldValues
<1>1. ValuesInv => OnlyOldValues
  BY DEF ValuesInv, OnlyOldValues
<1> QED  BY <1>1, ValuesInit, ValuesNext, TypeInit, TypeNext, PTL DEF AccessSpec
===============================================================================
