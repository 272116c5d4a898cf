----------------------------- MODULE PowerMemory ------------------------------
(***************************************************************************)
(* The loads and stores as the PowerPC architecture defines them: memory   *)
(* is big-endian, effective addresses are taken modulo Size, byte 0 of a   *)
(* vector is its leftmost.  A store conditional is performed only while    *)
(* the thread holds its reservation, which a store of another thread to    *)
(* the same bytes takes away.                                              *)
(***************************************************************************)
EXTENDS MemoryInstructions

VARIABLES
  program, \* what the threads run
  pc,      \* the next instruction of each thread
  mem,     \* guest memory
  gpr,     \* an integer register of each thread
  fpr,     \* a floating-point register
  vr,      \* three vector registers, leftmost byte first
  ra,      \* the base register
  eq,      \* cr0.eq
  resv     \* the bytes a thread has reserved

powerVars == <<program, pc, mem, gpr, fpr, vr, ra, eq, resv>>

Current(t) == program[t][pc[t]]
EA(t, i) == (IF i.based THEN ra[t] + i.at ELSE i.at) % Size

Bytes(a, n) == [k \in 1 .. n |-> mem[a + k - 1]]
Reach(a, n) == a .. a + n - 1

(* A store by t of the bytes s to a and what follows.                      *)
Put(t, a, s) ==
  /\ mem' = [b \in Address |-> IF b \in Reach(a, Len(s)) THEN s[b - a + 1] ELSE mem[b]]
  /\ resv' = [u \in Thread |-> IF u # t /\ resv[u] \cap Reach(a, Len(s)) # {} THEN {} ELSE resv[u]]

Advance(t, i) ==
  /\ pc' = [pc EXCEPT ![t] = @ + 1]
  /\ ra' = IF Updates(i) THEN [ra EXCEPT ![t] = EA(t, i)] ELSE ra
  /\ UNCHANGED program

Ordered(i, s) == IF i.op \in Reversed THEN Turn(s) ELSE s

LoadedValue(t, i) ==
  LET s == Ordered(i, Bytes(EA(t, i), Width[i.op]))
  IN  CASE i.op \in {"lha", "lwa"} -> SignExtend(s)
        [] i.op = "lfs" -> Widened(s)
        [] OTHER -> ZeroExtend(s)

LoadImmediate(t, i) ==
  /\ i.op = "li"
  /\ gpr' = [gpr EXCEPT ![t] = Immediate(i.at)]
  /\ UNCHANGED <<mem, fpr, vr, eq, resv>>

Load(t, i) ==
  /\ i.op \in IntegerLoad \cup FloatLoad \cup Reserve
  /\ IF i.op \in FloatLoad
     THEN fpr' = [fpr EXCEPT ![t] = LoadedValue(t, i)] /\ UNCHANGED gpr
     ELSE gpr' = [gpr EXCEPT ![t] = LoadedValue(t, i)] /\ UNCHANGED fpr
  /\ resv' = IF i.op \in Reserve
             THEN [resv EXCEPT ![t] = Reach(EA(t, i), Width[i.op])] ELSE resv
  /\ UNCHANGED <<mem, vr, eq>>

StoredValue(t, i) ==
  CASE i.op = "stfs" -> Narrowed(fpr[t])
    [] i.op \in FloatStore \ {"stfs"} -> Low(fpr[t], Width[i.op])
    [] OTHER -> Ordered(i, Low(gpr[t], Width[i.op]))

Store(t, i) ==
  /\ i.op \in IntegerStore \cup FloatStore
  /\ Put(t, EA(t, i), StoredValue(t, i))
  /\ UNCHANGED <<gpr, fpr, vr, eq>>

(* A reservation may also be lost for no reason.                           *)
StoreConditional(t, i) ==
  /\ i.op \in Conditional
  /\ \/ /\ resv[t] # {} /\ eq' = [eq EXCEPT ![t] = TRUE]
        /\ LET put == Low(gpr[t], Width[i.op])  a == EA(t, i)
           IN  /\ mem' = [b \in Address |-> IF b \in Reach(a, Len(put)) THEN put[b - a + 1] ELSE mem[b]]
               /\ resv' = [u \in Thread |->
                             IF u = t \/ resv[u] \cap Reach(a, Len(put)) # {} THEN {} ELSE resv[u]]
     \/ eq' = [eq EXCEPT ![t] = FALSE] /\ resv' = [resv EXCEPT ![t] = {}] /\ UNCHANGED mem
  /\ UNCHANGED <<gpr, fpr, vr>>

Offset(t, i) == EA(t, i) % Vector
Block(t, i) == EA(t, i) - Offset(t, i)
Element(t, i, n) == EA(t, i) - (EA(t, i) % n)

(* The element loads leave the other bytes open.                           *)
LoadVector(t, i) ==
  /\ i.op \in VectorLoad
  /\ vr' = [vr EXCEPT ![t][i.v] = vr'[t][i.v]]
  /\ CASE i.op = "lvx" -> vr'[t][i.v] = Bytes(Block(t, i), Vector)
       [] i.op = "lvlx" -> vr'[t][i.v] = Bytes(EA(t, i), Vector - Offset(t, i)) \o Fill(ZeroByte, Offset(t, i))
       [] i.op = "lvrx" -> vr'[t][i.v] = Fill(ZeroByte, Vector - Offset(t, i)) \o Bytes(Block(t, i), Offset(t, i))
       [] OTHER ->
            LET n == IF i.op = "lvehx" THEN 2 ELSE 4
                first == Element(t, i, n) % Vector
            IN  SubSeq(vr'[t][i.v], first + 1, first + n) = Bytes(Element(t, i, n), n)
  /\ UNCHANGED <<mem, gpr, fpr, eq, resv>>

StoreVector(t, i) ==
  /\ i.op \in VectorStore
  /\ LET n == IF i.op = "stvehx" THEN 2 ELSE 4
         first == Element(t, i, n) % Vector
     IN  CASE i.op = "stvx" -> Put(t, Block(t, i), vr[t][i.v])
           [] i.op = "stvlx" -> Put(t, EA(t, i), SubSeq(vr[t][i.v], 1, Vector - Offset(t, i)))
           [] i.op = "stvrx" -> Put(t, Block(t, i), SubSeq(vr[t][i.v], Vector - Offset(t, i) + 1, Vector))
           [] OTHER -> Put(t, Element(t, i, n), SubSeq(vr[t][i.v], first + 1, first + n))
  /\ UNCHANGED <<gpr, fpr, vr, eq>>

(* The control for a vperm that lines a vector up.                         *)
LoadControl(t, i) ==
  /\ i.op \in VectorControl
  /\ LET first == IF i.op = "lvsl" THEN Offset(t, i) ELSE Vector - Offset(t, i)
     IN  vr' = [vr EXCEPT ![t][i.v] = [k \in 1 .. Vector |-> Numeral(first + k - 1)]]
  /\ UNCHANGED <<mem, gpr, fpr, eq, resv>>

-----------------------------------------------------------------------------
(* Instructions on vectors.                                                *)

(* The elements of n bytes, from the left, and back.                       *)
Elements(s, n) == [e \in 1 .. (Len(s) \div n) |-> SubSeq(s, n * (e - 1) + 1, n * e)]
Flat(elements) ==
  LET n == Len(elements[1])
  IN  [k \in 1 .. (n * Len(elements)) |-> elements[((k - 1) \div n) + 1][((k - 1) % n) + 1]]

Merged(x, y, n, low) ==
  LET count == Vector \div n
      first == IF low THEN count \div 2 ELSE 0
  IN  Flat([e \in 1 .. count |->
              Elements(IF e % 2 = 1 THEN x ELSE y, n)[first + ((e + 1) \div 2)]])

Half(s, low) ==
  SubSeq(s, IF low THEN (Vector \div 2) + 1 ELSE 1, IF low THEN Vector ELSE Vector \div 2)

PermutedValue(regs, i) ==
  LET x == regs[i.a]  y == regs[i.b]  both == x \o y
  IN  CASE i.op = "vor"  -> [k \in 1 .. Vector |-> Or(x[k], y[k])]
        [] i.op = "vxor" -> [k \in 1 .. Vector |-> Xor(x[k], y[k])]
        [] i.op = "vperm" -> [k \in 1 .. Vector |-> both[(ByteValue(regs[i.c][k]) % (2 * Vector)) + 1]]
        [] i.op = "vsldoi" -> SubSeq(both, i.imm + 1, i.imm + Vector)
        [] i.op \in DOMAIN Merge ->
             Merged(x, y, Merge[i.op], i.op \in {"vmrglb", "vmrglh", "vmrglw"})
        [] i.op \in DOMAIN Splat ->
             LET n == Splat[i.op]
             IN  Flat([e \in 1 .. (Vector \div n) |-> Elements(x, n)[i.imm + 1]])
        [] i.op \in DOMAIN SplatImmediate ->
             LET n == SplatImmediate[i.op]
             IN  Flat([e \in 1 .. (Vector \div n) |-> SignedBytes(i.imm, n)])
        (* The word that becomes the last is in the last two bits.         *)
        [] i.op = "vpermwi" ->
             Flat([e \in 1 .. 4 |-> Elements(x, 4)[TwoBits(i.imm, 4 - e) + 1]])
        (* imm is a pair: a mask, the first word in its highest bit, and   *)
        (* by how many words the source is rotated to the left.            *)
        [] i.op = "vrlimi" ->
             Flat([e \in 1 .. 4 |->
                     IF OneBit(i.imm[1], 4 - e) = 1
                     THEN Elements(x, 4)[((e - 1 + i.imm[2]) % 4) + 1]
                     ELSE Elements(regs[i.d], 4)[e]])
        [] i.op \in DOMAIN Pack ->
             Flat([e \in 1 .. (2 * (Vector \div Pack[i.op])) |->
                     Narrow(i.op, Elements(both, Pack[i.op])[e])])
        [] i.op \in DOMAIN Unpack ->
             LET half == Half(x, i.op \in {"vupklsb", "vupklsh"})
             IN  Flat([e \in 1 .. (Len(half) \div Unpack[i.op]) |->
                         Widen(Elements(half, Unpack[i.op])[e])])

Permute(t, i) ==
  /\ i.form = "V"
  /\ vr' = [vr EXCEPT ![t][i.d] = PermutedValue(vr[t], i)]
  /\ UNCHANGED <<mem, gpr, fpr, eq, resv>>

Next ==
  \E t \in Thread :
    /\ pc[t] <= Len(program[t])
    /\ \E i \in {Current(t)} :
         /\ Advance(t, i)
         /\ \/ LoadImmediate(t, i) \/ Load(t, i) \/ Store(t, i) \/ StoreConditional(t, i)
            \/ LoadVector(t, i) \/ StoreVector(t, i) \/ LoadControl(t, i) \/ Permute(t, i)
===============================================================================
