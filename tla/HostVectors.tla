----------------------------- MODULE HostVectors ------------------------------
(***************************************************************************)
(* The instructions on vectors that Recompile of                           *)
(* XenonRecomp/recompiler.cpp prints as intrinsics and as loops over       *)
(* elements, on registers that hold their vector turned around:            *)
(* "we reverse the whole vector instead of individual elements"            *)
(* (recompiler.cpp:1281).                                                  *)
(*                                                                         *)
(* An intrinsic makes a register from registers.  A loop writes its        *)
(* result element by element while it still reads the operands.            *)
(***************************************************************************)
EXTENDS MemoryInstructions

Lane == 0 .. Vector - 1

(* u8[e], u16[e] or u32[e], the most significant byte first.               *)
Element(x, n, e) == [k \in 1 .. n |-> x[n * e + n - k]]

WithElement(x, n, e, s) ==
  [j \in Lane |-> IF j \div n = e THEN s[n - (j % n)] ELSE x[j]]

FromElements(n, Value(_)) == [j \in Lane |-> Value(j \div n)[n - (j % n)]]

-----------------------------------------------------------------------------
(* Intrinsics.                                                             *)

unpacklo(x, y, n) ==
  FromElements(n, LAMBDA e : Element(IF e % 2 = 0 THEN x ELSE y, n, e \div 2))

unpackhi(x, y, n) ==
  FromElements(n, LAMBDA e : Element(IF e % 2 = 0 THEN x ELSE y, n,
                                     (Vector \div (2 * n)) + (e \div 2)))

alignr(x, y, n) ==
  [j \in Lane |-> IF j + n < Vector THEN y[j + n] ELSE x[j + n - Vector]]

(* shuffle_epi32 and permute_ps: two bits of perm for each word.           *)
shuffle32(x, perm) == FromElements(4, LAMBDA e : Element(x, 4, TwoBits(perm, e)))

blend(x, y, mask) ==
  FromElements(4, LAMBDA e : Element(IF OneBit(mask, e) = 1 THEN y ELSE x, 4, e))

(* simde_mm_perm_epi8_: the low bits of the control count from the other   *)
(* end, the next one selects the second operand.                           *)
perm8(x, y, c) ==
  [j \in Lane |->
     LET n == ByteValue(c[j])
         at == Vector - 1 - (n % Vector)
     IN  IF (n \div Vector) % 2 = 1 THEN y[at] ELSE x[at]]

(* packus_epi16: the first operand becomes the lower half.                 *)
packus(x, y) ==
  LET count == Vector \div 2
  IN  FromElements(1, LAMBDA e :
        Narrow("vpkshus", IF e < count THEN Element(x, 2, e) ELSE Element(y, 2, e - count)))

(* cvtepi8_epi16 and cvtepi16_epi32 of the lower half.                     *)
convert(x, n) == FromElements(2 * n, LAMBDA e : Widen(Element(x, n, e)))

-----------------------------------------------------------------------------
(* What is printed for an instruction on registers regs.                   *)

(* SIMDE_MM_SHUFFLE(3, 2, 1, 0) and its rotations.                         *)
Rotations == <<228, 147, 78, 57>>

Splatted(x, n, imm) == FromElements(n, LAMBDA e : Element(x, n, (Vector \div n) - 1 - imm))

Intrinsic(regs, i) ==
  LET x == regs[i.a]  y == regs[i.b]
  IN  CASE i.op = "vor" -> IF i.a # i.b THEN [j \in Lane |-> Or(x[j], y[j])] ELSE x
        [] i.op = "vxor" -> IF i.a # i.b THEN [j \in Lane |-> Xor(x[j], y[j])]
                            ELSE [j \in Lane |-> ZeroByte]
        [] i.op = "vperm" -> perm8(x, y, regs[i.c])
        [] i.op = "vsldoi" -> alignr(x, y, Vector - i.imm)
        [] i.op \in {"vmrghb", "vmrghh", "vmrghw"} -> unpackhi(y, x, Merge[i.op])
        [] i.op \in {"vmrglb", "vmrglh", "vmrglw"} -> unpacklo(y, x, Merge[i.op])
        [] i.op \in DOMAIN Splat -> Splatted(x, Splat[i.op], i.imm)
        [] i.op \in DOMAIN SplatImmediate ->
             FromElements(SplatImmediate[i.op],
                          LAMBDA e : SignedBytes(i.imm, SplatImmediate[i.op]))
        [] i.op = "vpermwi" ->
             LET part(k) == 3 - TwoBits(i.imm, k)
             IN  shuffle32(x, part(0) + 4 * part(1) + 16 * part(2) + 64 * part(3))
        [] i.op = "vrlimi" ->
             blend(regs[i.d], shuffle32(x, Rotations[i.imm[2] + 1]), i.imm[1])
        [] i.op = "vpkshus" -> packus(y, x)
        [] i.op \in {"vupkhsb", "vupkhsh"} ->
             LET high == [j \in Lane |-> x[(Vector \div 2) + (j % (Vector \div 2))]]
             IN  convert(high, Unpack[i.op])
        [] i.op \in {"vupklsb", "vupklsh"} -> convert(x, Unpack[i.op])

(* The other packs: element after element from the left, each read from    *)
(* the register as it is by then.                                          *)
Loops == DOMAIN Pack \ {"vpkshus"}

PackElement(regs, i, k) ==
  LET n == Pack[i.op]
      count == Vector \div n
      source == regs[IF k <= count THEN i.a ELSE i.b]
      read == Element(source, n, count - 1 - ((k - 1) % count))
  IN  [regs EXCEPT ![i.d] = WithElement(@, n \div 2, 2 * count - k, Narrow(i.op, read))]

Packed(regs, i) ==
  LET last == 2 * (Vector \div Pack[i.op])
      after[k \in 0 .. last] == IF k = 0 THEN regs ELSE PackElement(after[k - 1], i, k)
  IN  after[last]

Permuted(regs, i) ==
  IF i.op \in Loops THEN Packed(regs, i) ELSE [regs EXCEPT ![i.d] = Intrinsic(regs, i)]

(* A loop whose result is its second operand reads there what it wrote.    *)
Overwrites(i) == i.op \in Loops /\ i.d = i.b
===============================================================================
