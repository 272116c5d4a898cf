-------------------------------- MODULE BitUnit --------------------------------
(***************************************************************************)
(* The rest of the integer unit that XenonRecomp prints: logical           *)
(* instructions, rotates under a mask, shifts, sign extensions and leading *)
(* zeroes.  The C++ works on integers; the PowerPC definitions, with which *)
(* the ghost variable last is filled, number the bits of a register from   *)
(* the left, so a register is here the set of positions that hold a one.   *)
(*                                                                         *)
(* The algebraic shifts write xer.ca, which a following instruction of     *)
(* CarryUnit adds.                                                         *)
(***************************************************************************)
EXTENDS CarryUnit, Bitwise, FiniteSetsExt

CONSTANTS
  WordBits,  \* the bits of a word, 32 in the program
  Parts      \* the bits that extsb and extsh keep

ASSUME BitAssumption ==
  /\ W = 2 ^ WordBits
  /\ \E n \in 0 .. WordBits : WordBits = 2 ^ n
  /\ Parts \subseteq 1 .. WordBits - 1

Bits == 2 * WordBits
Largest == W * W - 1                    \* UINT64_MAX
HalfWord == 2 ^ (WordBits \div 2)

Places == 0 .. Bits - 1

-----------------------------------------------------------------------------
(* Arithmetic of the generated C++.                                        *)

U64(n) == [hi |-> n \div W, lo |-> n % W]

S64(n) == U64(n % (W * W))

(* x.s32 and x.s64                                                         *)
SignedWord(x) == IF x.lo >= Half THEN x.lo - W ELSE x.lo
SignedNumber(x) == IF x.hi >= Half THEN Number(x) - W * W ELSE Number(x)

RotateLeft64(n, k) == ((n * 2 ^ k) % (W * W)) + n \div 2 ^ (Bits - k)
RotateLeft32(n, k) == ((n * 2 ^ k) % W) + n \div 2 ^ (WordBits - k)

(* Variant: a mask that wraps is not inverted.                             *)
ComputeMask_Straight(mstart, mstop) ==
  LET first == mstart % Bits
      final == mstop % Bits
  IN  (Largest \div 2 ^ first) ^^ (Largest \div 2 ^ (final + 1))

ComputeMask(mstart, mstop) ==
  LET first == mstart % Bits
      final == mstop % Bits
      value == (Largest \div 2 ^ first)
                 ^^ (IF final >= Bits - 1 THEN 0 ELSE Largest \div 2 ^ (final + 1))
  IN  IF first <= final THEN value ELSE Largest - value

-----------------------------------------------------------------------------
(* The definitions of the PowerPC architecture.                            *)

Ones(x) == {p \in Places : (Number(x) \div 2 ^ (Bits - 1 - p)) % 2 = 1}

Holding(ones) == U64(MapThenSumSet(LAMBDA p : 2 ^ (Bits - 1 - p), ones))

LowPlaces == {p \in Places : p >= WordBits}

MASK(mb, me) == IF mb <= me THEN mb .. me ELSE Places \ ((me + 1) .. (mb - 1))

ROTL64(ones, n) == {(p - n) % Bits : p \in ones}

(* The low word, rotated, in both halves.                                  *)
ROTL32(ones, n) ==
  {p \in Places : WordBits + ((p + n) % WordBits) \in ones}

(* A right shift by n of the last bits of a register under its sign.       *)
Shifted(x, n, bits) ==
  LET ones == Ones(x)
      first == Bits - bits
      rotated == IF bits = Bits THEN ROTL64(ones, Bits - n) ELSE ROTL32(ones, Bits - n)
      mask == IF n < bits THEN MASK(first + n, Bits - 1) ELSE {}
      sign == IF first \in ones THEN Places ELSE {}
  IN  [result |-> Holding((rotated \cap mask) \cup (sign \ mask)),
       carry |-> Truth(sign # {} /\ (rotated \ mask) \cap (first .. Bits - 1) # {})]

-----------------------------------------------------------------------------
(* These leave xer alone, so that they matter as the last instruction of a *)
(* program only (bound).                                                   *)
Compute(d, value, ones, dot) ==
  /\ count = Length - 1
  /\ Write(d, value, dot)
  /\ Aside
  /\ last' = [at |-> d, result |-> Number(Holding(ones)), carry |-> xer.ca]

(* The printed operators, and which of them look for a dot in the name.    *)
Logic(op, n, m) ==
  CASE op = "and"  -> n & m
    [] op = "andc" -> n & (Largest - m)
    [] op = "eqv"  -> Largest - (n ^^ m)
    [] op = "nand" -> Largest - (n & m)
    [] op = "nor"  -> Largest - (n | m)
    [] op = "or"   -> n | m
    [] op = "orc"  -> n | (Largest - m)
    [] op = "xor"  -> n ^^ m
    [] op = "not"  -> Largest - n

Dots(op) == IF op \in {"nand", "nor", "orc"} THEN {FALSE} ELSE Record

LogicBit ==
  [and  |-> {<<1, 1>>}, andc |-> {<<1, 0>>}, eqv |-> {<<0, 0>>, <<1, 1>>},
   nand |-> {<<0, 0>>, <<0, 1>>, <<1, 0>>}, nor |-> {<<0, 0>>},
   or   |-> {<<0, 1>>, <<1, 0>>, <<1, 1>>}, orc |-> {<<0, 0>>, <<1, 0>>, <<1, 1>>},
   xor  |-> {<<0, 1>>, <<1, 0>>}, not |-> {<<0, 0>>, <<0, 1>>}]

LogicOnes(op, x, y) ==
  {p \in Places : <<Truth(p \in Ones(x)), Truth(p \in Ones(y))>> \in LogicBit[op]}

Logical(d, a, b) ==
  \E op \in DOMAIN LogicBit : \E dot \in Dots(op) :
    Compute(d, U64(Logic(op, Number(r[a]), Number(r[b]))), LogicOnes(op, r[a], r[b]), dot)

(* ori, xori, andi. and the forms that shift the immediate.                *)
LogicalImmediate(d, a) ==
  \E op \in {"or", "xor", "and"}, imm \in 0 .. HalfWord - 1, shift \in {1, HalfWord} :
    Compute(d, U64(Logic(op, Number(r[a]), imm * shift)),
            LogicOnes(op, r[a], U64(imm * shift)), op = "and")

-----------------------------------------------------------------------------
(* Rotates *)

RLWINM(d, a, dot) ==
  \E sh, mb, me \in 0 .. WordBits - 1 :
    Compute(d,
            U64(RotateLeft64(r[a].lo | ((Number(r[a]) * W) % (W * W)), sh)
                  & ComputeMask(mb + WordBits, me + WordBits)),
            ROTL32(Ones(r[a]), sh) \cap MASK(mb + WordBits, me + WordBits), dot)

(* A mask that wraps takes the rotated word in the upper half as well,     *)
(* where the C++ has zeroes; a 32-bit program does not look there.         *)
RLWIMI(d, a) ==
  \E sh, mb, me \in 0 .. WordBits - 1 :
    LET mask == ComputeMask(mb + WordBits, me + WordBits)
        value == U64((RotateLeft32(r[a].lo, sh) & mask) | (Number(r[d]) & (Largest - mask)))
        places == MASK(mb + WordBits, me + WordBits)
        ones == (ROTL32(Ones(r[a]), sh) \cap places) \cup (Ones(r[d]) \ places)
    IN  Compute(d, value,
                IF mb <= me THEN ones
                ELSE (ones \cap LowPlaces) \cup (Ones(value) \ LowPlaces),
                FALSE)

RLDICL(d, a) ==
  \E sh, mb \in Places :
    Compute(d, U64(RotateLeft64(Number(r[a]), sh) & ComputeMask(mb, Bits - 1)),
            ROTL64(Ones(r[a]), sh) \cap MASK(mb, Bits - 1), FALSE)

RLDICR(d, a) ==
  \E sh, me \in Places :
    Compute(d, U64(RotateLeft64(Number(r[a]), sh) & ComputeMask(0, me)),
            ROTL64(Ones(r[a]), sh) \cap MASK(0, me), FALSE)

RLDIMI(d, a) ==
  \E sh, mb \in Places :
    LET mask == ComputeMask(mb, -sh - 1)
        places == MASK(mb, Bits - 1 - sh)
    IN  Compute(d,
                U64((RotateLeft64(Number(r[a]), sh) & mask) | (Number(r[d]) & (Largest - mask))),
                (ROTL64(Ones(r[a]), sh) \cap places) \cup (Ones(r[d]) \ places), FALSE)

(* clrldi by nothing is the rotate by nothing.                             *)
CLRLDI(d, a) ==
  \E n \in Places \ {0} :
    Compute(d, U64(Number(r[a]) & (2 ^ (Bits - n) - 1)), Ones(r[a]) \cap MASK(n, Bits - 1), FALSE)

CLRLWI(d, a, dot) ==
  \E n \in 0 .. WordBits - 1 :
    Compute(d, U64(r[a].lo & (2 ^ (WordBits - n) - 1)),
            Ones(r[a]) \cap MASK(WordBits + n, Bits - 1), dot)

ROTLDI(d, a) ==
  \E sh \in Places : Compute(d, U64(RotateLeft64(Number(r[a]), sh)), ROTL64(Ones(r[a]), sh), FALSE)

ROTLW(d, a, b) ==
  Compute(d, U64(RotateLeft32(r[a].lo, Number(r[b]) & (WordBits - 1))),
          ROTL32(Ones(r[a]), Number(r[b]) % WordBits) \cap LowPlaces, FALSE)

ROTLWI(d, a, dot) ==
  \E sh \in 0 .. WordBits - 1 :
    Compute(d, U64(RotateLeft32(r[a].lo, sh)), ROTL32(Ones(r[a]), sh) \cap LowPlaces, dot)

-----------------------------------------------------------------------------
(* Shifts: a count has one bit more than a shift of the register needs.    *)

SLW(d, a, b, dot) ==
  LET n == Number(r[b]) % Bits IN
  Compute(d,
          IF Number(r[b]) & WordBits # 0 THEN Zero
          ELSE U64((r[a].lo * 2 ^ (Number(r[b]) & (Bits - 1))) % W),
          IF n >= WordBits THEN {}
          ELSE ROTL32(Ones(r[a]), n) \cap MASK(WordBits, Bits - 1 - n), dot)

SRW(d, a, b, dot) ==
  LET n == Number(r[b]) % Bits IN
  Compute(d,
          IF Number(r[b]) & WordBits # 0 THEN Zero
          ELSE U64(r[a].lo \div 2 ^ (Number(r[b]) & (Bits - 1))),
          IF n >= WordBits THEN {}
          ELSE ROTL32(Ones(r[a]), Bits - n) \cap MASK(WordBits + n, Bits - 1), dot)

SLD(d, a, b) ==
  LET n == Number(r[b]) % (2 * Bits) IN
  Compute(d,
          IF Number(r[b]) & Bits # 0 THEN Zero
          ELSE U64((Number(r[a]) * 2 ^ (Number(r[b]) & (2 * Bits - 1))) % (W * W)),
          IF n >= Bits THEN {} ELSE ROTL64(Ones(r[a]), n) \cap MASK(0, Bits - 1 - n), FALSE)

SRD(d, a, b) ==
  LET n == Number(r[b]) % (2 * Bits) IN
  Compute(d,
          IF Number(r[b]) & Bits # 0 THEN Zero
          ELSE U64(Number(r[a]) \div 2 ^ (Number(r[b]) & (2 * Bits - 1))),
          IF n >= Bits THEN {} ELSE ROTL64(Ones(r[a]), Bits - n) \cap MASK(n, Bits - 1), FALSE)

-----------------------------------------------------------------------------
(* Algebraic shifts: what they leave in xer.ca begins a chain.             *)

Algebraic(d, value, ca, want, dot) ==
  /\ Write(d, value, dot)
  /\ xer' = [xer EXCEPT !.ca = Truth(ca)]
  /\ long' = NoChain(want.carry)
  /\ last' = [at |-> d, result |-> Number(want.result), carry |-> want.carry]

(* A count past the sign is cut down to the place of the sign.  Then the   *)
(* smallest number seems to lose nothing, and the carry that PowerPC sets  *)
(* is lost: what follows is a chain of its own.                            *)
Cut(s, least, shift, max, want) ==
  IF s = least /\ shift > max THEN [want EXCEPT !.carry = 0] ELSE want

SRAW(d, a, b, dot) ==
  LET shift == Number(r[b]) & (Bits - 1)
      temp == IF shift > WordBits - 1 THEN WordBits - 1 ELSE shift
      s == SignedWord(r[a])
  IN  Algebraic(d, S64(s \div 2 ^ temp), s < 0 /\ (s \div 2 ^ temp) * 2 ^ temp # s,
                Cut(s, -Half, shift, WordBits - 1, Shifted(r[a], Number(r[b]) % Bits, WordBits)),
                dot)

SRAWI(d, a, dot) ==
  \E n \in 0 .. WordBits - 1 :
    LET s == SignedWord(r[a]) IN
    Algebraic(d, S64(s \div 2 ^ n),
              n # 0 /\ s < 0 /\ r[a].lo & ComputeMask(Bits - n, Bits - 1) # 0,
              Shifted(r[a], n, WordBits), dot)

SRAD(d, a, b) ==
  LET shift == Number(r[b]) & (2 * Bits - 1)
      temp == IF shift > Bits - 1 THEN Bits - 1 ELSE shift
      s == SignedNumber(r[a])
  IN  Algebraic(d, S64(s \div 2 ^ temp), s < 0 /\ (s \div 2 ^ temp) * 2 ^ temp # s,
                Cut(s, -Half * W, shift, Bits - 1,
                    Shifted(r[a], Number(r[b]) % (2 * Bits), Bits)),
                FALSE)

SRADI(d, a) ==
  \E n \in Places :
    LET s == SignedNumber(r[a]) IN
    Algebraic(d, S64(s \div 2 ^ n),
              n # 0 /\ s < 0 /\ Number(r[a]) & ComputeMask(Bits - n, Bits - 1) # 0,
              Shifted(r[a], n, Bits), FALSE)

-----------------------------------------------------------------------------
(* extsb, extsh and extsw                                                  *)
Extend(d, a, dot) ==
  \E n \in Parts \cup {WordBits} :
    LET part == Number(r[a]) % 2 ^ n
        ones == Ones(r[a])
    IN  Compute(d, S64(IF part >= 2 ^ (n - 1) THEN part - 2 ^ n ELSE part),
                (ones \cap MASK(Bits - n, Bits - 1))
                  \cup (IF Bits - n \in ones THEN MASK(0, Bits - n) ELSE {}), dot)

(* cntlzw and cntlzd: the builtin is not called with zero.                 *)
CountZeroes(d, a) ==
  \E bits \in {WordBits, Bits} :
    LET n == Number(r[a]) % 2 ^ bits
        clz == CHOOSE k \in 0 .. bits : n < 2 ^ (bits - k) /\ n >= 2 ^ (bits - k - 1)
        ones == {p - (Bits - bits) : p \in Ones(r[a]) \cap MASK(Bits - bits, Bits - 1)}
    IN  Compute(d, U64(IF n = 0 THEN bits ELSE clz), Ones(U64(Min(ones \cup {bits}))), FALSE)

-----------------------------------------------------------------------------
BitNext ==
  count < Length /\ \E d, a \in GPR :
    \/ \E b \in GPR :
         \/ Logical(d, a, b) \/ ROTLW(d, a, b) \/ SLD(d, a, b) \/ SRD(d, a, b) \/ SRAD(d, a, b)
         \/ \E dot \in Record : SLW(d, a, b, dot) \/ SRW(d, a, b, dot) \/ SRAW(d, a, b, dot)
    \/ \E dot \in Record :
         \/ RLWINM(d, a, dot) \/ CLRLWI(d, a, dot) \/ ROTLWI(d, a, dot)
         \/ SRAWI(d, a, dot) \/ Extend(d, a, dot)
    \/ LogicalImmediate(d, a) \/ RLWIMI(d, a) \/ RLDICL(d, a) \/ RLDICR(d, a) \/ RLDIMI(d, a)
    \/ CLRLDI(d, a) \/ ROTLDI(d, a) \/ SRADI(d, a) \/ CountZeroes(d, a)

(* Programs of both kinds of instructions.                                 *)
IntegerSpec == Init /\ [][Next \/ BitNext]_vars
================================================================================
