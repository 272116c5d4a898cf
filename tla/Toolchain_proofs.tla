--------------------------- MODULE Toolchain_proofs ---------------------------
(***************************************************************************)
(* Proofs about XexImage, for files of every size with any number of       *)
(* blocks: XexPatcher::apply undoes basic compression in place, it and the *)
(* loader stay inside their buffers, and the file that it writes loads to  *)
(* the patched image.  Then the same of the Toolchain: what the other      *)
(* tools do leaves the file and its image alone.  At the end, the tables   *)
(* that XenonAnalyse finds and the switches that Recompile prints for      *)
(* them: TablesInv is about the file of tables, PrintInv about the bctr    *)
(* that each entry is printed at, RunInv about the printed function from a *)
(* comparison to the jump that it guards, ScanInv about the search, which  *)
(* misses nothing.                                                         *)
(***************************************************************************)
EXTENDS Toolchain, SequenceTheorems, WellFoundedInduction, TLAPS

N == Len(base.blocks)
At == Offsets[base]
Plain == Decrypted(base.words, base.enc)
Words == Padded(Plain)

(* The file's words are in the buffer, and it has room for them.           *)
Filled(words) == out = Padded(words) /\ Len(base.words) <= Size

(* Up to the n-th, blocks lie one behind the other, and none further to    *)
(* the front in the image than in the file.                                *)
Ordered(n) ==
  \A m \in 1 .. n :
    /\ At[m].src <= At[m].dst
    /\ \A l \in 1 .. m : At[l].src <= At[m].src /\ At[l].dst <= At[m].dst

Cursors == i \in 0 .. N /\ src = At[i + 1].src /\ dst = At[i + 1].dst

(* Why the blocks still to be moved are untouched: Ordered, which the      *)
(* first pass over the blocks shows one block at a time.                   *)
UnpackInv ==
  /\ base \in Bases /\ patch \in Patches
  /\ phase \in {"validate", "copy", "decrypt"} => i = 0 /\ src = 0 /\ dst = 0
  /\ phase = "decrypt" => Filled(base.words)
  /\ phase \in {"sum", "chain"} => Filled(Plain)
  /\ phase = "sum" => Cursors /\ Ordered(i + 1)
  /\ phase = "unpack" =>
       Cursors /\ Ordered(N + 1) /\ DOMAIN out = 1 .. Size /\ At[N + 1].dst <= Size
  /\ UnpackInPlace

-----------------------------------------------------------------------------
LEMMA Element ==
  ASSUME NEW S, NEW list \in Seq(S), NEW n \in 1 .. Len(list)
  PROVE  list[n] \in S
OBVIOUS

LEMMA Types ==
  ASSUME base \in Bases, patch \in Patches
  PROVE  /\ N \in Nat /\ Size \in Nat /\ Len(base.words) \in Nat
         /\ DOMAIN base.words = 1 .. Len(base.words)
         /\ \A m \in 1 .. N : base.blocks[m].data \in Nat /\ base.blocks[m].zero \in Nat
         /\ \A m \in 1 .. (N + 1) : At[m].src \in Nat /\ At[m].dst \in Nat
<1>1. base.words \in Seq(Int) /\ base.blocks \in Seq([data : Nat, zero : Nat])
  BY XexAssumption
<1>2. At \in [1 .. (N + 1) -> [src : Nat, dst : Nat]]
  BY OffsetAssumption DEF At, N
<1>3. Size \in Nat
  BY PatchAssumption DEF Size
<1>4. N \in Nat /\ Len(base.words) \in Nat /\ DOMAIN base.words = 1 .. Len(base.words)
  BY <1>1 DEF N
<1>5. ASSUME NEW m \in 1 .. N
      PROVE  base.blocks[m].data \in Nat /\ base.blocks[m].zero \in Nat
  <2>1. base.blocks[m] \in [data : Nat, zero : Nat]
    BY <1>1, <1>5, Element DEF N
  <2> QED
    BY <2>1
<1>6. ASSUME NEW m \in 1 .. (N + 1)
      PROVE  At[m].src \in Nat /\ At[m].dst \in Nat
  <2>1. At[m] \in [src : Nat, dst : Nat]
    BY <1>2, <1>6
  <2> QED
    BY <2>1
<1> QED
  BY <1>3, <1>4, <1>5, <1>6

LEMMA NextOffset ==
  ASSUME base \in Bases, NEW m \in 1 .. N
  PROVE  /\ At[1].src = 0 /\ At[1].dst = 0
         /\ At[m + 1].src = At[m].src + base.blocks[m].data
         /\ At[m + 1].dst = At[m].dst + base.blocks[m].data + base.blocks[m].zero
<1>1. At[1] = [src |-> 0, dst |-> 0]
  BY OffsetAssumption DEF At
<1>2. At[m + 1] = [src |-> At[m].src + base.blocks[m].data,
                   dst |-> At[m].dst + base.blocks[m].data + base.blocks[m].zero]
  BY OffsetAssumption DEF At, N
<1> QED
  BY <1>1, <1>2

LEMMA FirstOffset ==
  ASSUME base \in Bases
  PROVE  At[1].src = 0 /\ At[1].dst = 0
BY OffsetAssumption DEF At

(* The next block keeps the order.                                         *)
LEMMA OrderedGrows ==
  ASSUME base \in Bases, patch \in Patches, NEW n \in 1 .. N, Ordered(n)
  PROVE  Ordered(n + 1)
<1>1. ASSUME NEW m \in 1 .. (n + 1)
      PROVE  /\ At[m].src <= At[m].dst
             /\ \A l \in 1 .. m : At[l].src <= At[m].src /\ At[l].dst <= At[m].dst
  <2>1. CASE m \in 1 .. n
    BY <2>1 DEF Ordered
  <2>2. CASE m = n + 1
    <3>1. /\ At[n].src <= At[n].dst
          /\ \A l \in 1 .. n : At[l].src <= At[n].src /\ At[l].dst <= At[n].dst
      BY DEF Ordered
    <3>2. /\ At[m].src = At[n].src + base.blocks[n].data
          /\ At[m].dst = At[n].dst + base.blocks[n].data + base.blocks[n].zero
      BY <2>2, NextOffset
    <3>3. /\ base.blocks[n].data \in Nat /\ base.blocks[n].zero \in Nat
          /\ \A l \in 1 .. (n + 1) : At[l].src \in Nat /\ At[l].dst \in Nat
      BY Types
    <3>4. n \in 1 .. (n + 1)
      BY Types
    <3> QED
      BY <2>2, <3>1, <3>2, <3>3, <3>4
  <2> QED
    BY <2>1, <2>2, Types
<1> QED
  BY <1>1 DEF Ordered

LEMMA LengthOfFunction ==
  ASSUME NEW n \in Nat, NEW words, words = [k \in 1 .. n |-> words[k]]
  PROVE  Len(words) = n
<1> DEFINE S == {words[k] : k \in 1 .. n}
<1>1. words \in [1 .. n -> S]
  OBVIOUS
<1>2. words \in Seq(S)
  BY <1>1
<1> QED
  BY <1>1, <1>2

(* The file's words, decrypted.                                            *)
LEMMA PlainWords ==
  ASSUME base \in Bases
  PROVE  /\ Len(base.words) \in Nat /\ Len(Plain) = Len(base.words)
         /\ DOMAIN base.words = 1 .. Len(base.words)
         /\ DOMAIN Plain = 1 .. Len(base.words)
         /\ \A k \in 1 .. Len(base.words) :
              /\ Plain[k] \in Int
              /\ Plain[k] = IF base.enc = "normal" THEN Crypt(base.words[k]) ELSE base.words[k]
<1>1. base.words \in Seq(Int)
  BY XexAssumption
<1>2. /\ Len(base.words) \in Nat /\ DOMAIN base.words = 1 .. Len(base.words)
      /\ \A k \in 1 .. Len(base.words) : base.words[k] \in Int
  BY <1>1
<1>3. /\ DOMAIN Plain = 1 .. Len(base.words)
      /\ \A k \in 1 .. Len(base.words) :
           /\ Plain[k] \in Int
           /\ Plain[k] = IF base.enc = "normal" THEN Crypt(base.words[k]) ELSE base.words[k]
  BY <1>2 DEF Plain, Decrypted, Crypt
<1>4. Plain = [k \in 1 .. Len(base.words) |-> Plain[k]]
  <2>1. base.words = [k \in 1 .. Len(base.words) |-> base.words[k]]
    BY <1>1
  <2>2. CASE base.enc = "normal"
    BY <1>2, <2>2 DEF Plain, Decrypted
  <2>3. CASE base.enc # "normal"
    BY <2>1, <2>3 DEF Plain, Decrypted
  <2> QED
    BY <2>2, <2>3
<1>5. Len(Plain) = Len(base.words)
  BY <1>2, <1>4, LengthOfFunction
<1> QED
  BY <1>2, <1>3, <1>5

LEMMA PaddedIsImage ==
  ASSUME base \in Bases, Size \in Nat
  PROVE  Padded(Plain) \in Images /\ Padded(base.words) \in Images
<1>1. base.words \in Seq(Int)
  BY XexAssumption
<1>2. \A k \in 1 .. Len(base.words) : base.words[k] \in Int
  BY <1>1
<1> QED
  BY <1>2, PlainWords DEF Padded, Images

LEMMA LengthOfSlice ==
  ASSUME NEW words, NEW from, NEW n \in Nat
  PROVE  Len(Slice(words, from, n)) = n
<1>1. Slice(words, from, n) = [k \in 1 .. n |-> Slice(words, from, n)[k]]
  BY DEF Slice
<1> QED
  BY <1>1, LengthOfFunction

(* Decryption in the buffer is decryption of the file.                     *)
LEMMA DecryptPads ==
  ASSUME base \in Bases, out = Padded(base.words),
         NEW new,
         new = [k \in DOMAIN out |->
                  IF base.enc = "normal" /\ k <= Len(base.words) THEN Crypt(out[k]) ELSE out[k]]
  PROVE  new = Words
<1>1. DOMAIN out = 1 .. Size
  BY DEF Padded
<1>2. ASSUME NEW k \in 1 .. Size
      PROVE  (IF base.enc = "normal" /\ k <= Len(base.words) THEN Crypt(out[k]) ELSE out[k])
             = IF k <= Len(Plain) THEN Plain[k] ELSE 0
  <2>1. out[k] = IF k <= Len(base.words) THEN base.words[k] ELSE 0
    BY DEF Padded
  <2>2. k <= Len(base.words) => k \in 1 .. Len(base.words)
    BY PlainWords
  <2> QED
    BY <2>1, <2>2, PlainWords
<1> QED
  BY <1>1, <1>2 DEF Padded, Words

(* memset and memmove, word by word.                                       *)
IsPlaced(placed, words, size, block, from, to) ==
  /\ DOMAIN placed = 1 .. size
  /\ \A d \in 1 .. block.data : placed[to + d] = words[from + d]
  /\ \A d \in 1 .. block.zero : placed[to + block.data + d] = 0
  /\ \A k \in 1 .. size :
       k <= to \/ k > to + block.data + block.zero => placed[k] = words[k]

LEMMA PlacedWords ==
  ASSUME NEW words, NEW size \in Nat, DOMAIN words = 1 .. size,
         NEW block \in [data : Nat, zero : Nat],
         NEW from \in Nat, NEW to \in Nat, from <= to,
         to + block.data + block.zero <= size
  PROVE  IsPlaced(Placed(words, block, from, to), words, size, block, from, to)
<1> DEFINE zeroed == [k \in DOMAIN words |->
                        IF k \in (to + block.data + 1) .. (to + block.data + block.zero)
                        THEN 0 ELSE words[k]]
           placed == [k \in DOMAIN words |->
                        IF k \in (to + 1) .. (to + block.data)
                        THEN zeroed[from + k - to] ELSE zeroed[k]]
<1>1. placed = Placed(words, block, from, to)
  BY DEF Placed
<1>2. block.data \in Nat /\ block.zero \in Nat
  OBVIOUS
<1>3. ASSUME NEW d \in 1 .. block.data
      PROVE  placed[to + d] = words[from + d]
  <2>1. to + d \in DOMAIN words /\ from + d \in DOMAIN words
    BY <1>2
  <2>2. to + d \in (to + 1) .. (to + block.data)
    BY <1>2
  <2>3. from + d \notin (to + block.data + 1) .. (to + block.data + block.zero)
    BY <1>2
  <2>4. from + (to + d) - to = from + d
    BY <1>2
  <2>5. zeroed[from + d] = words[from + d]
    BY <2>1, <2>3
  <2> QED
    BY <2>1, <2>2, <2>4, <2>5
<1>4. ASSUME NEW d \in 1 .. block.zero
      PROVE  placed[to + block.data + d] = 0
  BY <1>2
<1>5. ASSUME NEW k \in 1 .. size, k <= to \/ k > to + block.data + block.zero
      PROVE  placed[k] = words[k]
  BY <1>2, <1>5
<1>6. DOMAIN placed = 1 .. size
  OBVIOUS
<1> HIDE DEF placed
<1> QED
  BY <1>1, <1>3, <1>4, <1>5, <1>6 DEF IsPlaced

-----------------------------------------------------------------------------
LEMMA UnpackInit == XexInit => UnpackInv
BY DEF XexInit, UnpackInv, UnpackInPlace

LEMMA CopyKeeps ==
  ASSUME UnpackInv, CopyBase
  PROVE  UnpackInv'
<1>1. Size' = Size /\ base' = base /\ patch' = patch /\ phase = "copy"
  BY DEF CopyBase, Size
<1>2. phase' = "done" \/ phase' = "decrypt"
  BY DEF CopyBase, Return, Overrun
<1>3. CASE phase' = "done"
  BY <1>1, <1>3 DEF UnpackInv, UnpackInPlace
<1>4. CASE phase' = "decrypt"
  <2>1. Len(base.words) <= Size
    <3>1. ~(Len(base.words) > Size)
      BY <1>4 DEF CopyBase, Overrun
    <3> QED
      BY <3>1, Types DEF UnpackInv
  <2>2. out' = Padded(base.words) /\ Padded(base.words)' = Padded(base.words)
    BY <1>1 DEF CopyBase, Padded
  <2>4. Filled(base.words)'
    BY <1>1, <2>1, <2>2 DEF Filled
  <2>5. i' = 0 /\ src' = 0 /\ dst' = 0
    BY DEF CopyBase, cursors, UnpackInv
  <2> QED
    BY <1>1, <1>4, <2>4, <2>5 DEF UnpackInv, UnpackInPlace
<1> QED
  BY <1>2, <1>3, <1>4

LEMMA DecryptKeeps ==
  ASSUME UnpackInv, DecryptBase
  PROVE  UnpackInv'
<1>1. Size' = Size /\ base' = base /\ patch' = patch /\ phase = "decrypt"
  BY DEF DecryptBase, Size
<1>2. CASE base.enc = "other" \/ base.comp = "absent"
  <2>1. phase' = "done"
    BY <1>2 DEF DecryptBase, Return
  <2> QED
    BY <1>1, <2>1 DEF UnpackInv, UnpackInPlace
<1>3. CASE ~(base.enc = "other" \/ base.comp = "absent")
  <2>1. phase' = Decompression
    BY <1>3 DEF DecryptBase
  <2>2. phase' \in {"header", "sum", "chain", "done"}
    BY <2>1 DEF Decompression
  <2>3. Filled(Plain)'
    <3>1. out = Padded(base.words) /\ Len(base.words) <= Size
      BY <1>1 DEF UnpackInv, Filled
    <3>2. out' = Words
      BY <1>3, <3>1, DecryptPads DEF UnpackInv, DecryptBase
    <3>3. Words' = Words
      BY <1>1 DEF Words, Plain, Padded
    <3> QED
      BY <1>1, <3>1, <3>2, <3>3 DEF Filled, Words
  <2>6. CASE phase' # "sum"
    BY <1>1, <2>2, <2>3, <2>6 DEF UnpackInv, UnpackInPlace
  <2>4. CASE phase' = "sum"
    <3>5. i = 0 /\ src = 0 /\ dst = 0 /\ UNCHANGED cursors
      BY <1>1 DEF UnpackInv, DecryptBase
    <3>6. Cursors'
      BY <1>1, <3>5, FirstOffset, Types DEF UnpackInv, Cursors, cursors, N, At
    <3>7. Ordered(i + 1)'
      BY <1>1, <3>5, FirstOffset DEF UnpackInv, Ordered, cursors, At
    <3> QED
      BY <1>1, <2>3, <2>4, <3>6, <3>7 DEF UnpackInv, UnpackInPlace
  <2> QED
    BY <2>4, <2>6
<1> QED
  BY <1>2, <1>3

LEMMA SumBlockKeeps ==
  ASSUME UnpackInv, SumBlock
  PROVE  UnpackInv'
<1>1. /\ UNCHANGED <<base, patch, phase, out>> /\ phase = "sum"
      /\ i < N /\ i' = i + 1
      /\ src' = src + base.blocks[i + 1].data
      /\ dst' = dst + base.blocks[i + 1].data + base.blocks[i + 1].zero
  BY DEF SumBlock, N
<1>2. i \in 0 .. N /\ src = At[i + 1].src /\ dst = At[i + 1].dst /\ Ordered(i + 1)
  BY <1>1 DEF UnpackInv, Cursors
<1>3. i + 1 \in 1 .. N /\ i' \in 0 .. N
  BY <1>1, <1>2, Types DEF UnpackInv
<1>4. src' = At[i' + 1].src /\ dst' = At[i' + 1].dst
  BY <1>1, <1>2, <1>3, NextOffset DEF UnpackInv
<1>5. Ordered(i' + 1)
  BY <1>1, <1>2, <1>3, OrderedGrows DEF UnpackInv
<1>6. N' = N /\ At' = At /\ Words' = Words /\ Size' = Size
  BY <1>1 DEF N, At, Words, Plain, Padded, Size
<1>7. Ordered(i + 1)'
  BY <1>5, <1>6 DEF Ordered
<1>8. Cursors'
  BY <1>3, <1>4, <1>6 DEF Cursors
<1>9. Filled(Plain)'
  BY <1>1, <1>6 DEF UnpackInv, Filled, Words
<1> QED
  BY <1>1, <1>7, <1>8, <1>9 DEF UnpackInv, UnpackInPlace

LEMMA SumDoneKeeps ==
  ASSUME UnpackInv, SumDone
  PROVE  UnpackInv'
<1>1. UNCHANGED <<base, patch, out, src, dst, i>> /\ phase = "sum" /\ i = N
  BY DEF SumDone, cursors, N
<1>2. phase' = "done" \/ phase' = "unpack"
  BY DEF SumDone, Return
<1>3. CASE phase' = "done"
  BY <1>1, <1>3 DEF UnpackInv, UnpackInPlace
<1>4. CASE phase' = "unpack"
  <2>1. ~(Size < dst)
    BY <1>4 DEF SumDone, Return
  <2>2. Cursors /\ Ordered(N + 1) /\ Filled(Plain) /\ dst = At[N + 1].dst /\ src = At[N + 1].src
    BY <1>1 DEF UnpackInv, Cursors
  <2>3. N + 1 \in 1 .. (N + 1)
    BY Types DEF UnpackInv
  <2>4. At[N + 1].dst <= Size
    BY <2>1, <2>2, <2>3, Types DEF UnpackInv
  <2>5. out = Words /\ Words' = Words
    BY <1>1, <2>2 DEF Filled, Words, Plain, Padded, Size
  <2>6. (i + 1) .. Len(base.blocks) = {}
    BY <1>1, Types DEF UnpackInv, N
  <2>7. UnpackInPlace'
    BY <1>1, <2>2, <2>5, <2>6 DEF UnpackInPlace, Words, Plain, At
  <2>8. N' = N /\ At' = At /\ Size' = Size
    BY <1>1 DEF N, At, Size
  <2>9. Cursors' /\ Ordered(N + 1)'
    BY <1>1, <2>2, <2>8 DEF Cursors, Ordered
  <2> QED
    BY <1>1, <1>4, <2>2, <2>4, <2>7, <2>8, <2>9 DEF UnpackInv, Filled, Padded
<1> QED
  BY <1>2, <1>3, <1>4

(* A block goes to its place: the blocks in front of it are not touched,   *)
(* since its place begins no further to the front than its data, and those *)
(* behind it are not, since it ends where the next one begins.             *)
LEMMA UnpackBlockKeeps ==
  ASSUME UnpackInv, UnpackBlock
  PROVE  UnpackInv'
<1> DEFINE block == base.blocks[i]
<1>1. /\ UNCHANGED <<base, patch, phase>> /\ phase = "unpack"
      /\ i > 0 /\ i' = i - 1
      /\ src' = src - block.data
      /\ dst' = dst - block.zero - block.data
      /\ out' = Placed(out, block, src', dst')
  BY DEF UnpackBlock
<1>2. /\ i \in 0 .. N /\ src = At[i + 1].src /\ dst = At[i + 1].dst
      /\ Ordered(N + 1) /\ DOMAIN out = 1 .. Size /\ At[N + 1].dst <= Size
  BY <1>1 DEF UnpackInv, Cursors
<1>3. /\ N \in Nat /\ N + 1 \in 1 .. (N + 1)
      /\ i \in 1 .. N /\ i' \in 0 .. N /\ i' + 1 = i
  BY <1>1, <1>2, Types, SMTT(20) DEF UnpackInv
<1>4. N' = N /\ At' = At /\ Words' = Words /\ Size' = Size
  BY <1>1 DEF N, At, Words, Plain, Padded, Size
<1>5. block.data \in Nat /\ block.zero \in Nat /\ block \in [data : Nat, zero : Nat]
  <2>1. base.blocks \in Seq([data : Nat, zero : Nat])
    BY XexAssumption DEF UnpackInv
  <2>2. block \in [data : Nat, zero : Nat]
    BY <1>3, <2>1, Element DEF N
  <2> QED
    BY <2>2
<1>6. /\ At[i].src \in Nat /\ At[i].dst \in Nat
      /\ At[i + 1].src = At[i].src + block.data
      /\ At[i + 1].dst = At[i].dst + block.data + block.zero
  <2>1. base \in Bases /\ patch \in Patches /\ i \in 1 .. (N + 1)
    BY <1>3 DEF UnpackInv
  <2>2. At[i].src \in Nat /\ At[i].dst \in Nat
    BY <2>1, Types
  <2> QED
    BY <1>3, <2>1, <2>2, NextOffset
<1>7. src' = At[i].src /\ dst' = At[i].dst
  <2>1. src' = src - block.data /\ dst' = dst - block.zero - block.data
    BY <1>1
  <2>2. src = At[i + 1].src /\ dst = At[i + 1].dst
    BY <1>2
  <2>3. block.data \in Nat /\ block.zero \in Nat
    BY <1>5
  <2> HIDE DEF block
  <2> QED
    BY <2>1, <2>2, <2>3, <1>6
<1> HIDE DEF block
<1>8. /\ At[i].src <= At[i].dst
      /\ At[i + 1].dst <= At[N + 1].dst
  <2>1. i \in 1 .. (N + 1) /\ i + 1 \in 1 .. (N + 1)
    BY <1>3
  <2>2. Ordered(N + 1)
    BY <1>2
  <2>3. At[i].src <= At[i].dst
    BY <2>1, <2>2 DEF Ordered
  <2>4. \A l \in 1 .. (N + 1) : At[l].dst <= At[N + 1].dst
    BY <1>3, <2>2 DEF Ordered
  <2> QED
    BY <2>1, <2>3, <2>4
<1>9. Size \in Nat /\ At[N + 1].dst \in Nat
  BY <1>3, Types DEF UnpackInv
<1>10. At[i].dst + block.data + block.zero <= Size
  BY <1>2, <1>5, <1>6, <1>8, <1>9
<1>11. /\ DOMAIN out' = 1 .. Size
       /\ \A d \in 1 .. block.data : out'[At[i].dst + d] = out[At[i].src + d]
       /\ \A d \in 1 .. block.zero : out'[At[i].dst + block.data + d] = 0
       /\ \A k \in 1 .. Size :
            k <= At[i].dst \/ k > At[i + 1].dst => out'[k] = out[k]
  <2>1. At[i].src <= At[i].dst /\ Size \in Nat
    BY <1>8, <1>9
  <2>2. IsPlaced(Placed(out, block, At[i].src, At[i].dst), out, Size, block, At[i].src, At[i].dst)
    BY <1>2, <1>5, <1>6, <1>10, <2>1, PlacedWords
  <2>3. out' = Placed(out, block, At[i].src, At[i].dst)
    BY <1>1, <1>7 DEF block
  <2>4. At[i + 1].dst = At[i].dst + block.data + block.zero
    BY <1>6
  <2> QED
    BY <2>2, <2>3, <2>4 DEF IsPlaced
<1>12. /\ \A k \in 1 .. src : out[k] = Words[k]
       /\ \A m \in (i + 1) .. N :
            /\ \A d \in 1 .. base.blocks[m].data : out[At[m].dst + d] = Words[At[m].src + d]
            /\ \A d \in 1 .. base.blocks[m].zero :
                 out[At[m].dst + base.blocks[m].data + d] = 0
  BY <1>1 DEF UnpackInv, UnpackInPlace, Words, Plain, At, N
<1>13. \A k \in 1 .. src' : out'[k] = Words[k]
  <2> SUFFICES ASSUME NEW k \in 1 .. At[i].src PROVE out'[k] = Words[k]
    BY <1>7
  <2>1. k \in 1 .. src /\ k \in 1 .. Size /\ k <= At[i].dst
    <3>1. src = At[i + 1].src /\ At[i + 1].dst <= Size
      BY <1>2, <1>6, <1>10
    <3>2. block.data \in Nat /\ block.zero \in Nat
      BY <1>5
    <3> QED
      BY <1>6, <1>8, <1>9, <3>1, <3>2
  <2> QED
    BY <2>1, <1>11, <1>12
<1>14. ASSUME NEW m \in i .. N
       PROVE  /\ \A d \in 1 .. base.blocks[m].data : out'[At[m].dst + d] = Words[At[m].src + d]
              /\ \A d \in 1 .. base.blocks[m].zero :
                   out'[At[m].dst + base.blocks[m].data + d] = 0
  <2>1. CASE m = i
    <3>1. \A d \in 1 .. block.data : out[At[i].src + d] = Words[At[i].src + d]
      <4>1. \A d \in 1 .. block.data : At[i].src + d \in 1 .. src
        <5>1. src = At[i + 1].src /\ block.data \in Nat
          BY <1>2, <1>5
        <5> QED
          BY <1>6, <5>1
      <4> QED
        BY <4>1, <1>12
    <3> QED
      BY <1>11, <2>1, <3>1 DEF block
  <2>2. CASE m \in (i + 1) .. N
    <3>1. /\ m \in 1 .. N /\ m + 1 \in 1 .. (N + 1) /\ m \in 1 .. (N + 1)
          /\ i + 1 \in 1 .. m
      BY <1>3, <2>2
    <3>2. /\ At[m].dst \in Nat /\ At[i + 1].dst \in Nat
          /\ base.blocks[m].data \in Nat /\ base.blocks[m].zero \in Nat
      <4>1. base \in Bases /\ patch \in Patches
        BY DEF UnpackInv
      <4>2. /\ \A l \in 1 .. N : base.blocks[l].data \in Nat /\ base.blocks[l].zero \in Nat
            /\ \A l \in 1 .. (N + 1) : At[l].src \in Nat /\ At[l].dst \in Nat
        BY <4>1, Types
      <4>3. i + 1 \in 1 .. (N + 1)
        BY <1>3
      <4> QED
        BY <3>1, <4>2, <4>3
    <3>3. At[i + 1].dst <= At[m].dst /\ At[m + 1].dst <= At[N + 1].dst
      BY <1>2, <1>3, <3>1 DEF Ordered
    <3>4. At[m + 1].dst = At[m].dst + base.blocks[m].data + base.blocks[m].zero
      BY <3>1, NextOffset DEF UnpackInv
    <3>5. At[m].dst + base.blocks[m].data + base.blocks[m].zero <= Size
      BY <1>2, <1>9, <3>2, <3>3, <3>4, SMTT(20)
    <3>6. ASSUME NEW d \in 1 .. (base.blocks[m].data + base.blocks[m].zero)
          PROVE  out'[At[m].dst + d] = out[At[m].dst + d]
      <4>1. At[m].dst + d \in 1 .. Size /\ At[m].dst + d > At[i + 1].dst
        BY <1>9, <3>2, <3>3, <3>5
      <4> QED
        BY <4>1, <1>11
    <3>7. ASSUME NEW d \in 1 .. base.blocks[m].data
          PROVE  out'[At[m].dst + d] = Words[At[m].src + d]
      <4>1. d \in 1 .. (base.blocks[m].data + base.blocks[m].zero)
        BY <3>2
      <4> QED
        BY <1>12, <2>2, <3>6, <4>1
    <3>8. ASSUME NEW d \in 1 .. base.blocks[m].zero
          PROVE  out'[At[m].dst + base.blocks[m].data + d] = 0
      <4>1. base.blocks[m].data + d \in 1 .. (base.blocks[m].data + base.blocks[m].zero)
        BY <3>2
      <4>2. At[m].dst + (base.blocks[m].data + d) = At[m].dst + base.blocks[m].data + d
        BY <3>2
      <4> QED
        BY <1>12, <2>2, <3>6, <4>1, <4>2
    <3> QED
      BY <3>7, <3>8
  <2> QED
    BY <1>3, <2>1, <2>2
<1>15. UnpackInPlace'
  BY <1>1, <1>3, <1>4, <1>7, <1>13, <1>14 DEF UnpackInPlace, Words, Plain, At, N
<1>16. Cursors' /\ Ordered(N + 1)'
  BY <1>2, <1>3, <1>4, <1>7 DEF Cursors, Ordered
<1> QED
  BY <1>1, <1>2, <1>4, <1>11, <1>15, <1>16 DEF UnpackInv

(* The rest of apply, and the loader, come before or after.                *)
LEMMA OthersKeep ==
  ASSUME UnpackInv,
         \/ Validate \/ InputMissing \/ UnpackDone \/ ChainBlock \/ ExpandChain
         \/ PatchHeader \/ CheckBlock \/ ApplyEntry \/ EndBlock \/ Applied
         \/ WriteFile \/ WriteFails \/ CloseFails \/ LoadFile
  PROVE  UnpackInv'
<1>1. UNCHANGED <<base, patch>>
  BY DEF Validate, InputMissing, UnpackDone, ChainBlock, ExpandChain, PatchHeader,
         CheckBlock, ApplyEntry, EndBlock, Applied, WriteFile, WriteFails, CloseFails, LoadFile
<1>2. CASE Validate \/ InputMissing
  <2>1. phase = "validate" /\ UNCHANGED <<src, dst, i>>
    BY <1>2 DEF Validate, InputMissing, cursors
  <2>2. phase' \in {"copy", "write", "done"}
    BY <1>2 DEF Validate, InputMissing, Return, Overrun
  <2> QED
    BY <1>1, <2>1, <2>2 DEF UnpackInv, UnpackInPlace
<1>3. CASE ~(Validate \/ InputMissing)
  <2>1. /\ phase' \in {"chain", "header", "delta", "write", "load", "done"}
        /\ phase' = "chain" => phase = "chain" /\ UNCHANGED out
    BY <1>3 DEF UnpackDone, ChainBlock, ExpandChain, PatchHeader, CheckBlock, ApplyEntry,
                EndBlock, Applied, WriteFile, WriteFails, CloseFails, LoadFile, Return, Overrun
  <2>2. Filled(Plain) /\ UNCHANGED out => Filled(Plain)'
    BY <1>1 DEF Filled, Padded, Plain, Size
  <2> QED
    BY <1>1, <2>1, <2>2 DEF UnpackInv, UnpackInPlace
<1> QED
  BY <1>2, <1>3

LEMMA UnpackStep == UnpackInv /\ [XexNext]_xexVars => UnpackInv'
<1> SUFFICES ASSUME UnpackInv, [XexNext]_xexVars PROVE UnpackInv'
  OBVIOUS
<1>1. CASE UNCHANGED xexVars
  <2>1. UNCHANGED <<base, patch, phase, out, src, dst, i>>
    BY <1>1 DEF xexVars, cursors
  <2>2. N' = N /\ At' = At /\ Size' = Size /\ Words' = Words
    BY <2>1 DEF N, At, Size, Words, Plain, Padded
  <2>3. Cursors' = Cursors /\ Ordered(i + 1)' = Ordered(i + 1) /\ Ordered(N + 1)' = Ordered(N + 1)
    BY <2>1, <2>2 DEF Cursors, Ordered
  <2>4. Filled(Plain)' = Filled(Plain) /\ Filled(base.words)' = Filled(base.words)
    BY <2>1, <2>2 DEF Filled, Padded, Words
  <2>5. UnpackInPlace' = UnpackInPlace
    BY <2>1, <2>2 DEF UnpackInPlace, Words, Plain, At
  <2> QED
    BY <2>1, <2>2, <2>3, <2>4, <2>5 DEF UnpackInv
<1>2. CASE XexNext
  BY <1>2, CopyKeeps, DecryptKeeps, SumBlockKeeps, SumDoneKeeps, UnpackBlockKeeps, OthersKeep
    DEF XexNext, Apply
<1> QED
  BY <1>1, <1>2

(* "Reverse iteration allows to perform this decompression in place"       *)
(* (xex_patcher.cpp:394), for every list of blocks: while XexPatcher::apply *)
(* undoes basic compression, the blocks to come are as in the file and     *)
(* those behind as the loader makes them.                                  *)
THEOREM UnpackedInPlace == XexSpec => []UnpackInPlace
<1>1. UnpackInv => UnpackInPlace
  BY DEF UnpackInv
<1> QED
  BY UnpackInit, UnpackStep, <1>1, PTL DEF XexSpec

-----------------------------------------------------------------------------
LEMMA ChainOffsets ==
  ASSUME base \in Bases
  PROVE  /\ Len(base.chain) \in Nat
         /\ \A m \in 1 .. (Len(base.chain) + 1) :
              base.chainAt[m] \in Nat /\ base.dataAt[m] \in Nat
         /\ base.chainAt[1] = 0 /\ base.dataAt[1] = 0
         /\ \A m \in 1 .. Len(base.chain) :
              /\ base.chainAt[m + 1] = base.chainAt[m] + base.chain[m].size
              /\ base.dataAt[m + 1] = base.dataAt[m] + base.chain[m].data
              /\ base.chain[m].size \in Nat /\ base.chain[m].reach \in Nat
              /\ base.chain[m].data \in Nat
<1> DEFINE ChainLink == [size : Nat, reach : Nat, data : Nat, hash : Seq(Int)]
<1>1. base.chain \in Seq(ChainLink)
  BY XexAssumption
<1>2. ASSUME NEW m \in 1 .. Len(base.chain)
      PROVE  base.chain[m].size \in Nat /\ base.chain[m].reach \in Nat /\ base.chain[m].data \in Nat
  <2> HIDE DEF ChainLink
  <2>1. base.chain[m] \in ChainLink
    BY <1>1, Element
  <2> QED
    BY <2>1 DEF ChainLink
<1>3. /\ base.chainAt \in [1 .. (Len(base.chain) + 1) -> Nat] /\ base.chainAt[1] = 0
      /\ base.dataAt \in [1 .. (Len(base.chain) + 1) -> Nat] /\ base.dataAt[1] = 0
      /\ \A m \in 1 .. Len(base.chain) :
           /\ base.chainAt[m + 1] = base.chainAt[m] + base.chain[m].size
           /\ base.dataAt[m + 1] = base.dataAt[m] + base.chain[m].data
  BY ChainAssumption
<1>4. Len(base.chain) \in Nat
  BY <1>1
<1> QED
  BY <1>2, <1>3, <1>4

LEMMA SliceIsWords ==
  ASSUME NEW words, \A k \in DOMAIN words : words[k] \in Int, NEW from \in Nat, NEW n \in Nat
  PROVE  Slice(words, from, n) \in Seq(Int) /\ Len(Slice(words, from, n)) = n
<1>1. Slice(words, from, n) \in [1 .. n -> Int]
  BY DEF Slice
<1>2. Slice(words, from, n) \in Seq(Int)
  BY <1>1
<1> QED
  BY <1>2, LengthOfSlice

LEMMA EntryType ==
  ASSUME patch \in Patches
  PROVE  /\ Len(patch.blocks) \in Nat
         /\ \A m \in 1 .. Len(patch.blocks) :
              /\ patch.blocks[m].entries \in Seq(DeltaEntry)
              /\ Len(patch.blocks[m].entries) \in Nat
              /\ \A n \in 1 .. Len(patch.blocks[m].entries) :
                   patch.blocks[m].entries[n] \in DeltaEntry
              /\ patch.blocks[m].size \in Nat /\ patch.blocks[m].reach \in Nat
              /\ patch.blockAt[m] \in Nat
              /\ patch.blockAt[m + 1] = patch.blockAt[m] + patch.blocks[m].step
         /\ patch.blockAt[1] = 0 /\ patch.dataSize \in Nat
<1> DEFINE PatchBlock ==
             [entries : Seq(DeltaEntry), intact : BOOLEAN, size : Nat, reach : Nat, step : Nat]
<1>1. patch.blocks \in Seq(PatchBlock)
  BY PatchAssumption
<1>2. ASSUME NEW m \in 1 .. Len(patch.blocks)
      PROVE  /\ patch.blocks[m].entries \in Seq(DeltaEntry)
             /\ patch.blocks[m].size \in Nat /\ patch.blocks[m].reach \in Nat
  <2> HIDE DEF PatchBlock
  <2>1. patch.blocks[m] \in PatchBlock
    BY <1>1, Element
  <2> QED
    BY <2>1 DEF PatchBlock
<1>3. ASSUME NEW list \in Seq(DeltaEntry)
      PROVE  Len(list) \in Nat /\ \A n \in 1 .. Len(list) : list[n] \in DeltaEntry
  BY Element
<1>4. /\ patch.blockAt \in [1 .. (Len(patch.blocks) + 1) -> Nat]
      /\ patch.blockAt[1] = 0 /\ patch.dataSize \in Nat
      /\ \A m \in 1 .. Len(patch.blocks) :
           patch.blockAt[m + 1] = patch.blockAt[m] + patch.blocks[m].step
  BY PatchAssumption
<1>5. Len(patch.blocks) \in Nat
  BY <1>1
<1>6. ASSUME NEW m \in 1 .. Len(patch.blocks)
      PROVE  /\ patch.blockAt[m] \in Nat
             /\ Len(patch.blocks[m].entries) \in Nat
             /\ \A n \in 1 .. Len(patch.blocks[m].entries) : patch.blocks[m].entries[n] \in DeltaEntry
  <2>1. m \in 1 .. (Len(patch.blocks) + 1)
    BY <1>5
  <2> QED
    BY <1>2, <1>3, <1>4, <2>1
<1> QED
  BY <1>2, <1>4, <1>5, <1>6

IsWords(words) == words = [k \in 1 .. Size |-> words[k]]

(* Where apply is in the chain of an lzx base, and in the patch.           *)
ChainCursors ==
  /\ base.comp = "normal" /\ i \in 0 .. Len(base.chain)
  /\ src = base.chainAt[i + 1]
  /\ stream \in Seq(Int) /\ Len(stream) = base.dataAt[i + 1]

DeltaCursors == i \in 1 .. (Len(patch.blocks) + 1) /\ src = patch.blockAt[i]

(* The buffer keeps its size, and so does the file made of it; each block  *)
(* is read where the blocks before it end.                                 *)
BufferInv ==
  /\ phase \in {"validate", "copy"} => ~outside
  /\ phase \in {"validate", "copy", "decrypt"} => stream = <<>>
  /\ ~outside /\ phase \notin {"validate", "copy", "done"} => IsWords(out)
  /\ phase = "chain" => ChainCursors
  /\ phase = "delta" => DeltaCursors
  /\ phase = "load" /\ ~late /\ ~outside => IsWords(disk.words) /\ disk.imageSize = Size
  /\ StaysInside

(* A function over 1 .. Size is a sequence of that length.                 *)
LEMMA LengthOfWords ==
  ASSUME Size \in Nat, NEW words, IsWords(words)
  PROVE  Len(words) = Size
<1> DEFINE S == {words[k] : k \in 1 .. Size}
<1>1. words \in [1 .. Size -> S]
  BY DEF IsWords
<1>2. words \in Seq(S)
  BY <1>1
<1> QED
  BY <1>1, <1>2

LEMMA PlacedIsWords ==
  ASSUME NEW words, IsWords(words), NEW b, NEW from, NEW to
  PROVE  IsWords(Placed(words, b, from, to))
<1>1. DOMAIN words = 1 .. Size
  BY DEF IsWords
<1> QED
  BY <1>1 DEF Placed, IsWords

LEMMA CopiesAreWords ==
  ASSUME NEW words, IsWords(words), NEW to, NEW from, NEW n,
         NEW copy \in Copies(words, to, from, n)
  PROVE  IsWords(copy)
<1>1. DOMAIN words = 1 .. Size
  BY DEF IsWords
<1> QED
  BY <1>1 DEF Copies, IsWords

LEMMA PatchedAreWords ==
  ASSUME NEW words, IsWords(words), NEW e, e.op \in {"zero", "move", "lzx"},
         NEW patched \in Patched(words, e)
  PROVE  IsWords(patched)
<1>1. DOMAIN words = 1 .. Size
  BY DEF IsWords
<1>2. CASE e.op = "zero"
  BY <1>1, <1>2 DEF Patched, IsWords
<1>3. CASE e.op = "move"
  BY <1>3, CopiesAreWords DEF Patched
<1>4. CASE e.op = "lzx"
  BY <1>1, <1>4 DEF Patched, IsWords
<1> QED
  BY <1>2, <1>3, <1>4

LEMMA HeaderConstants ==
  ASSUME UNCHANGED <<base, patch>>
  PROVE  Size' = Size /\ HeaderStrays' = HeaderStrays /\ Agree' = Agree
<1>1. Size' = Size /\ HeaderStrays' = HeaderStrays /\ HeaderGap' = HeaderGap
  BY DEF Size, HeaderStrays, LongerHeader, HeaderGap
<1>2. HeadersAgree' = HeadersAgree /\ ChainAgrees' = ChainAgrees
  BY <1>1 DEF HeadersAgree, ChainAgrees
<1>3. PatchAgrees' = PatchAgrees
  BY <1>1 DEF PatchAgrees, Strays, Reach
<1> QED
  BY <1>1, <1>2, <1>3 DEF Agree

(* Steps that leave the buffer and the file alone.                         *)
LEMMA QuietKeeps ==
  ASSUME BufferInv,
         \/ InputMissing \/ SumBlock \/ SumDone \/ UnpackDone \/ Applied \/ WriteFails
  PROVE  BufferInv'
<1>1. UNCHANGED <<base, patch, out, disk, outside, late>>
  BY DEF InputMissing, SumBlock, SumDone, UnpackDone, Applied, WriteFails
<1>2. Size' = Size /\ Agree' = Agree
  BY <1>1, HeaderConstants
<1>3. StaysInside'
  BY <1>1, <1>2 DEF BufferInv, StaysInside
<1>4. CASE InputMissing
  BY <1>1, <1>3, <1>4 DEF BufferInv, InputMissing, Return
<1>5. CASE SumBlock \/ SumDone \/ UnpackDone
  <2>1. phase \in {"sum", "unpack"} /\ phase' \in {"sum", "unpack", "header", "done"}
    BY <1>5 DEF SumBlock, SumDone, UnpackDone, Return
  <2> QED
    BY <1>1, <1>2, <1>3, <2>1 DEF BufferInv, IsWords
<1>6. CASE Applied \/ WriteFails
  <2>1. phase \in {"delta", "write"} /\ phase' \in {"write", "done"}
    BY <1>6 DEF Applied, WriteFails, Return
  <2> QED
    BY <1>1, <1>2, <1>3, <2>1 DEF BufferInv, IsWords
<1> QED
  BY <1>4, <1>5, <1>6

LEMMA ValidateStaysInside ==
  ASSUME BufferInv, Validate
  PROVE  BufferInv'
<1>1. UNCHANGED <<base, patch, disk, late, stream>> /\ phase = "validate" /\ ~outside
  BY DEF Validate, cursors, BufferInv
<1>2. Size' = Size /\ Agree' = Agree
  BY <1>1, HeaderConstants
<1>3. /\ phase' \in {"copy", "done"}
      /\ phase' = "copy" => ~outside'
      /\ outside' => HeaderStrays
  <2>1. CASE Refusal # ""
    BY <1>1, <2>1, Zenon DEF Validate, Return, Refusal
  <2>2. CASE Refusal = "" /\ HeaderStrays
    BY <2>2 DEF Validate, Overrun
  <2>3. CASE Refusal = "" /\ ~HeaderStrays
    BY <1>1, <2>3 DEF Validate, Return
  <2> QED
    BY <2>1, <2>2, <2>3
<1>4. StaysInside'
  BY <1>2, <1>3 DEF StaysInside, Agree, HeadersAgree
<1> QED
  BY <1>1, <1>3, <1>4 DEF BufferInv

LEMMA FirstStepsKeep ==
  ASSUME UnpackInv, BufferInv, CopyBase \/ DecryptBase
  PROVE  BufferInv'
<1>1. UNCHANGED <<base, patch, disk, late>> /\ Size' = Size /\ Agree' = Agree
  BY HeaderConstants DEF CopyBase, DecryptBase
<1>2. CASE CopyBase
  <2>1. phase = "copy" /\ ~outside /\ phase' \in {"done", "decrypt"}
    BY <1>2 DEF CopyBase, Overrun, Return, BufferInv
  <2>2. Len(base.words) > Size \/ ~outside'
    BY <1>2, <2>1 DEF CopyBase
  <2>3. Agree => ~(Len(base.words) > Size)
    BY Types DEF Agree, HeadersAgree, UnpackInv
  <2>4. IsWords(out')
    BY <1>2 DEF CopyBase, IsWords, Padded
  <2>5. stream' = stream /\ stream = <<>>
    BY <1>2, <2>1 DEF CopyBase, cursors, BufferInv
  <2> QED
    BY <1>1, <2>5, <2>1, <2>2, <2>3, <2>4 DEF BufferInv, StaysInside, IsWords
<1>3. CASE DecryptBase
  <2>1. /\ phase = "decrypt" /\ phase' \in {"header", "sum", "chain", "done"}
        /\ phase' = "chain" => base.comp = "normal"
        /\ outside' = outside
    BY <1>3 DEF DecryptBase, Return, Decompression
  <2>2. ~outside => IsWords(out')
    <3> SUFFICES ASSUME ~outside PROVE IsWords(out')
      OBVIOUS
    <3>1. IsWords(out)
      BY <2>1 DEF BufferInv
    <3>2. DOMAIN out = 1 .. Size
      BY <3>1 DEF IsWords
    <3> QED
      BY <1>3, <3>1, <3>2 DEF DecryptBase, IsWords
  <2>3. phase' = "chain" => ChainCursors'
    <3>1. /\ UNCHANGED <<i, src, stream>> /\ i = 0 /\ src = 0 /\ stream = <<>>
          /\ base \in Bases
      BY <1>3, <2>1 DEF DecryptBase, cursors, UnpackInv, BufferInv
    <3>2. Len(base.chain) \in Nat /\ base.chainAt[1] = 0 /\ base.dataAt[1] = 0
      BY <3>1, ChainOffsets
    <3>3. <<>> \in Seq(Int) /\ Len(<<>>) = 0
      OBVIOUS
    <3> QED
      BY <1>1, <2>1, <3>1, <3>2, <3>3 DEF ChainCursors
  <2> QED
    BY <1>1, <2>1, <2>2, <2>3 DEF BufferInv, StaysInside, IsWords
<1> QED
  BY <1>2, <1>3

LEMMA UnpackStaysInside ==
  ASSUME UnpackInv, BufferInv, UnpackBlock
  PROVE  BufferInv'
<1>1. /\ UNCHANGED <<base, patch, disk, late, phase>> /\ phase = "unpack"
      /\ outside' = (outside \/ dst > Size)
  BY DEF UnpackBlock
<1>2. Size' = Size /\ Agree' = Agree
  BY <1>1, HeaderConstants
<1>3. ~(dst > Size)
  <2>1. /\ Cursors /\ Ordered(N + 1) /\ At[N + 1].dst <= Size
        /\ base \in Bases /\ patch \in Patches
    BY <1>1 DEF UnpackInv
  <2>2. N + 1 \in 1 .. (N + 1) /\ i + 1 \in 1 .. (N + 1)
    BY <2>1, Types DEF Cursors
  <2>3. dst = At[i + 1].dst /\ At[i + 1].dst <= At[N + 1].dst
    BY <2>1, <2>2 DEF Cursors, Ordered
  <2>4. At[i + 1].dst \in Nat /\ At[N + 1].dst \in Nat /\ Size \in Nat
    BY <2>1, <2>2, Types
  <2> QED
    BY <2>1, <2>3, <2>4
<1>4. ~outside => IsWords(out')
  <2>1. ~outside => IsWords(out)
    BY <1>1 DEF BufferInv
  <2> QED
    BY <1>1, <2>1, PlacedIsWords DEF UnpackBlock
<1> QED
  BY <1>1, <1>2, <1>3, <1>4 DEF BufferInv, StaysInside, IsWords

(* A block of the chain is read where the blocks before it end, and its    *)
(* data is put behind theirs.                                              *)
LEMMA ChainStaysInside ==
  ASSUME UnpackInv, BufferInv, ChainBlock
  PROVE  BufferInv'
<1> DEFINE block == base.chain[i + 1]
           piece == Slice(out, src, block.data)
<1>1. UNCHANGED <<base, patch, out, disk, late>> /\ phase = "chain" /\ i < Len(base.chain)
  BY DEF ChainBlock
<1>2. Size' = Size /\ Agree' = Agree /\ base \in Bases /\ patch \in Patches /\ Size \in Nat
  BY <1>1, HeaderConstants, Types DEF UnpackInv
<1>3. ChainCursors
  BY <1>1 DEF BufferInv
<1>4. i + 1 \in 1 .. Len(base.chain) /\ i + 1 \in 1 .. (Len(base.chain) + 1) /\ i \in Nat
  BY <1>1, <1>2, <1>3, ChainOffsets DEF ChainCursors
<1>5. /\ src \in Nat /\ block.size \in Nat /\ block.reach \in Nat /\ block.data \in Nat
      /\ src = base.chainAt[i + 1] /\ base.chainAt[(i + 1) + 1] = src + block.size
      /\ Len(stream) = base.dataAt[i + 1] /\ base.dataAt[(i + 1) + 1] = Len(stream) + block.data
      /\ Len(stream) \in Nat /\ Len(base.words) \in Nat
  BY <1>2, <1>3, <1>4, ChainOffsets, PlainWords DEF ChainCursors
<1>6. \/ /\ UNCHANGED <<stream, src, i>> /\ phase' = "done"
         /\ \/ outside' = outside
            \/ src + block.size > Size \/ src + block.reach > Size
               \/ Len(stream) + block.data > Len(base.words)
      \/ /\ UNCHANGED <<phase, outside>> /\ stream' = stream \o piece
         /\ src' = src + block.size /\ i' = i + 1
  BY DEF ChainBlock, Return, Overrun
<1> HIDE DEF block
<1>7. Agree => /\ ~(src + block.size > Size) /\ ~(src + block.reach > Size)
               /\ ~(Len(stream) + block.data > Len(base.words))
  <2> SUFFICES ASSUME Agree
               PROVE  /\ ~(src + block.size > Size) /\ ~(src + block.reach > Size)
                      /\ ~(Len(stream) + block.data > Len(base.words))
    OBVIOUS
  <2>1. /\ base.chainAt[(i + 1) + 1] <= Size
        /\ base.chainAt[i + 1] + block.reach <= Size
        /\ base.dataAt[(i + 1) + 1] <= Len(base.words)
    BY <1>3, <1>4 DEF Agree, ChainAgrees, ChainCursors, block
  <2> QED
    BY <1>2, <1>5, <2>1
<1>8. StaysInside'
  BY <1>1, <1>2, <1>6, <1>7 DEF StaysInside, BufferInv
<1>9. CASE phase' = "done"
  BY <1>1, <1>8, <1>9 DEF BufferInv
<1>10. CASE phase' # "done"
  <2>1. out \in Images
    BY <1>1, <1>2, PaddedIsImage DEF UnpackInv, Filled
  <2>2. piece \in Seq(Int) /\ Len(piece) = block.data
    BY <1>5, <2>1, SliceIsWords DEF Images
  <2>3. stream \in Seq(Int) /\ stream' = stream \o piece
    BY <1>3, <1>6, <1>10 DEF ChainCursors
  <2> HIDE DEF piece
  <2>4. stream' \in Seq(Int) /\ Len(stream') = Len(stream) + block.data
    BY <2>2, <2>3, ConcatProperties
  <2>5. i' + 1 = (i + 1) + 1 /\ i' \in 0 .. Len(base.chain) /\ src' = src + block.size
    BY <1>2, <1>4, <1>6, <1>10, ChainOffsets
  <2>6. ChainCursors'
    BY <1>1, <1>3, <1>5, <2>4, <2>5 DEF ChainCursors
  <2>7. phase' = "chain" /\ outside' = outside
    BY <1>1, <1>6, <1>10
  <2>8. ~outside' => IsWords(out)'
    BY <1>1, <1>2, <2>7 DEF BufferInv, IsWords
  <2> QED
    BY <1>8, <2>6, <2>7, <2>8 DEF BufferInv
<1> QED
  BY <1>9, <1>10

LEMMA ExpandStaysInside ==
  ASSUME UnpackInv, BufferInv, ExpandChain
  PROVE  BufferInv'
<1>1. UNCHANGED <<base, patch, disk, late>> /\ phase = "chain"
  BY DEF ExpandChain
<1>2. Size' = Size /\ Agree' = Agree
  BY <1>1, HeaderConstants
<1>3. Agree => ~(HeaderGap + base.imageSize > Size)
  <2>1. HeaderGap \in Nat /\ base.imageSize \in Nat /\ Size \in Nat
    BY XexAssumption, PatchAssumption DEF UnpackInv, HeaderGap, Size
  <2> QED
    BY <1>1, <2>1 DEF Agree, ChainAgrees, BufferInv, ChainCursors
<1>4. ~outside => IsWords(out')
  <2> SUFFICES ASSUME ~outside PROVE IsWords(out')
    OBVIOUS
  <2>1. IsWords(out)
    BY <1>1 DEF BufferInv
  <2>2. DOMAIN out = 1 .. Size
    BY <2>1 DEF IsWords
  <2>3. CASE 2 * Len(stream) < base.imageSize
    BY <2>1, <2>3 DEF ExpandChain
  <2>4. CASE ~(2 * Len(stream) < base.imageSize)
    BY <2>2, <2>4 DEF ExpandChain, IsWords
  <2> QED
    BY <2>3, <2>4
<1>5. phase' \in {"header", "done"}
  BY DEF ExpandChain, Return, Overrun
<1>6. \/ outside' = outside
      \/ outside' = TRUE /\ HeaderGap + base.imageSize > Size
  BY DEF ExpandChain, Return, Overrun
<1> QED
  BY <1>1, <1>2, <1>3, <1>4, <1>5, <1>6 DEF BufferInv, StaysInside, IsWords

LEMMA PatchStaysInside ==
  ASSUME UnpackInv, BufferInv, PatchHeader \/ ApplyEntry
  PROVE  BufferInv'
<1>1. UNCHANGED <<base, patch, disk, late>> /\ phase \in {"header", "delta"}
  BY DEF PatchHeader, ApplyEntry
<1>2. Size' = Size /\ Agree' = Agree /\ patch \in Patches
  BY <1>1, HeaderConstants DEF UnpackInv
<1>3. ~outside => IsWords(out)
  BY <1>1 DEF BufferInv
<1>4. CASE PatchHeader
  <2>1. phase' \in {"delta", "done"} /\ i' = 1 /\ src' = 0
    BY <1>4 DEF PatchHeader, Return, Overrun
  <2>2. \/ outside' = outside
        \/ outside' = TRUE /\ patch.move.old # 0 /\ Strays(patch.move)
    BY <1>4 DEF PatchHeader, Return, Overrun
  <2>3. Agree => ~(patch.move.old # 0 /\ Strays(patch.move))
    BY <1>2, PatchAssumption DEF Agree, PatchAgrees, DeltaEntry
  <2>4. out' = out \/ out' \in Copies(out, patch.move.new, patch.move.old, patch.move.n)
    BY <1>4 DEF PatchHeader
  <2>5. ~outside => IsWords(out')
    BY <1>3, <2>4, CopiesAreWords
  <2>6. DeltaCursors'
    BY <1>1, <1>2, <2>1, EntryType DEF DeltaCursors
  <2> QED
    BY <1>1, <1>2, <2>1, <2>2, <2>3, <2>5, <2>6 DEF BufferInv, StaysInside, IsWords
<1>5. CASE ApplyEntry
  <2> DEFINE e == Block.entries[j]
  <2>1. /\ phase = "delta" /\ phase' \in {"delta", "done"} /\ i' = i /\ src' = src
        /\ i <= Len(patch.blocks) /\ j \in 1 .. Len(Block.entries)
        /\ outside' = outside \/ (outside' = TRUE /\ Strays(e))
        /\ out' = out \/ out' \in Patched(out, e)
    BY <1>5 DEF ApplyEntry, Return, Overrun
  <2>2. i \in 1 .. Len(patch.blocks)
    BY <1>2, <2>1, EntryType DEF BufferInv, DeltaCursors
  <2>3. e \in DeltaEntry
    BY <1>2, <2>1, <2>2, EntryType DEF Block
  <2>4. Agree => ~Strays(e)
    BY <2>1, <2>2 DEF Agree, PatchAgrees, Block
  <2>5. ~outside => IsWords(out')
    <3> HIDE DEF e
    <3> QED
      BY <1>3, <2>1, <2>3, PatchedAreWords DEF DeltaEntry
  <2>6. DeltaCursors'
    BY <1>1, <2>1 DEF BufferInv, DeltaCursors
  <2> HIDE DEF e
  <2> QED
    BY <1>1, <1>2, <2>1, <2>4, <2>5, <2>6 DEF BufferInv, StaysInside, IsWords
<1> QED
  BY <1>4, <1>5

(* So is a block of the patch.                                             *)
LEMMA BlockStaysInside ==
  ASSUME UnpackInv, BufferInv, CheckBlock \/ EndBlock
  PROVE  BufferInv'
<1>1. /\ UNCHANGED <<base, patch, out, disk, late>> /\ phase = "delta"
      /\ i <= Len(patch.blocks)
  BY DEF CheckBlock, EndBlock
<1>2. Size' = Size /\ Agree' = Agree /\ patch \in Patches /\ DeltaCursors
  BY <1>1, HeaderConstants DEF UnpackInv, BufferInv
<1>3. i \in 1 .. Len(patch.blocks) /\ Len(patch.blocks) \in Nat
  BY <1>1, <1>2, EntryType DEF DeltaCursors
<1>4. CASE CheckBlock
  <2>1. /\ phase' \in {"delta", "done"} /\ UNCHANGED <<i, src>>
        /\ \/ outside' = outside
           \/ src + Block.size > patch.dataSize \/ src + Block.reach > patch.dataSize
    BY <1>1, <1>4 DEF CheckBlock, Return, Overrun
  <2>2. /\ src \in Nat /\ Block.size \in Nat /\ Block.reach \in Nat /\ patch.dataSize \in Nat
        /\ src = patch.blockAt[i]
    BY <1>2, <1>3, EntryType DEF DeltaCursors, Block
  <2>3. Agree => ~(src + Block.size > patch.dataSize) /\ ~(src + Block.reach > patch.dataSize)
    <3>1. Agree => src + Block.size <= patch.dataSize /\ src + Block.reach <= patch.dataSize
      BY <1>3, <2>2 DEF Agree, PatchAgrees, Block
    <3> QED
      BY <2>2, <3>1
  <2>4. Agree /\ outside' => outside
    BY <2>1, <2>2, <2>3
  <2>5. DeltaCursors'
    BY <1>1, <1>2, <2>1 DEF DeltaCursors
  <2>6. outside => outside'
    BY <1>4 DEF CheckBlock, Overrun
  <2> QED
    BY <1>1, <1>2, <2>1, <2>4, <2>5, <2>6 DEF BufferInv, StaysInside, IsWords
<1>5. CASE EndBlock
  <2>1. UNCHANGED <<phase, outside>> /\ i' = i + 1 /\ src' = src + Block.step
    BY <1>5 DEF EndBlock
  <2>2. DeltaCursors'
    BY <1>1, <1>2, <1>3, <2>1, EntryType DEF DeltaCursors, Block
  <2> QED
    BY <1>1, <1>2, <2>1, <2>2 DEF BufferInv, StaysInside, IsWords
<1> QED
  BY <1>4, <1>5

LEMMA FileStaysInside ==
  ASSUME UnpackInv, BufferInv, WriteFile \/ CloseFails \/ LoadFile
  PROVE  BufferInv'
<1>1. UNCHANGED <<base, patch>>
  BY DEF WriteFile, CloseFails, LoadFile
<1>2. Size' = Size /\ Agree' = Agree
  BY <1>1, HeaderConstants
<1>3. CASE WriteFile
  <2>1. /\ phase = "write" /\ phase' = "load" /\ UNCHANGED <<out, outside, late>>
        /\ disk'.words = out /\ disk'.imageSize = Size
    BY <1>3 DEF WriteFile, NewFile, cursors
  <2> QED
    BY <1>2, <2>1 DEF BufferInv, StaysInside, IsWords
<1>4. CASE CloseFails
  <2>1. /\ phase = "write" /\ phase' = "load" /\ UNCHANGED <<out, outside>> /\ late'
    BY <1>4 DEF CloseFails
  <2> QED
    BY <1>2, <2>1 DEF BufferInv, StaysInside, IsWords
<1>5. CASE LoadFile
  <2>1. /\ phase = "load" /\ phase' = "done" /\ UNCHANGED late
        /\ outside' = (outside \/ Len(disk.words) < disk.imageSize)
    BY <1>5 DEF LoadFile
  <2>2. Size \in Nat
    BY Types DEF UnpackInv
  <2>3. ~late /\ ~outside => ~(Len(disk.words) < disk.imageSize)
    BY <2>1, <2>2, LengthOfWords DEF BufferInv
  <2> QED
    BY <1>2, <2>1, <2>3 DEF BufferInv, StaysInside
<1> QED
  BY <1>3, <1>4, <1>5

LEMMA BufferStep ==
  ASSUME UnpackInv, BufferInv, [XexNext]_xexVars
  PROVE  BufferInv'
<1>1. CASE UNCHANGED xexVars
  BY <1>1, HeaderConstants
    DEF xexVars, cursors, BufferInv, StaysInside, IsWords, ChainCursors, DeltaCursors
<1>2. CASE XexNext
  BY <1>2, QuietKeeps, ValidateStaysInside, FirstStepsKeep, UnpackStaysInside, ChainStaysInside,
     ExpandStaysInside, PatchStaysInside, BlockStaysInside, FileStaysInside DEF XexNext, Apply
<1> QED
  BY <1>1, <1>2

(* XexPatcher::apply reads and writes inside outBytes, compressBuffer,     *)
(* patchData and the window of the decompressor, and Xex2LoadImage reads   *)
(* inside the file that apply wrote, for executables and patches of every  *)
(* size and with any number of blocks, if the two agree in what apply does *)
(* not check and the file was written whole.  How the sizes of headers,    *)
(* blocks, chunks and entries must agree for that is what Agree says.      *)
THEOREM BuffersKept == XexSpec => []StaysInside
<1>1. XexInit => UnpackInv /\ BufferInv
  BY UnpackInit DEF XexInit, BufferInv, StaysInside
<1>2. UnpackInv /\ BufferInv /\ [XexNext]_xexVars => UnpackInv' /\ BufferInv'
  BY UnpackStep, BufferStep
<1>3. BufferInv => StaysInside
  BY DEF BufferInv
<1> QED
  BY <1>1, <1>2, <1>3, PTL DEF XexSpec
-----------------------------------------------------------------------------
(* The patched file against the patched image *)

(* Every set of natural numbers has a least element.                       *)
LEMMA LeastNatural ==
  ASSUME NEW T, T \subseteq Nat, T # {}
  PROVE  \E x \in T : \A y \in T : x <= y
<1> DEFINE R == OpToRel(<, Nat)
<1>1. IsWellFoundedOn(R, Nat)
  BY NatLessThanWellFounded, Zenon
<1>2. \A x, y \in Nat : x < y => <<x, y>> \in R
  BY Zenon DEF OpToRel
<1> HIDE DEF R
<1>3. PICK x \in T : \A y \in T : ~ (<<y, x>> \in R)
  BY <1>1, WFMin
<1>4. \A y \in T : ~ (y < x)
  BY <1>2, <1>3, Zenon
<1> QED
  BY <1>4

(* The stages exist up to each of the counts, so they obey the equation    *)
(* they are defined by.                                                    *)
Follows(list, step, count, words) ==
  list[0] = words /\ \A n \in 1 .. count : list[n] = step[n][list[n - 1]]

LEMMA StagesFollow ==
  ASSUME NEW step, NEW count \in Nat, NEW words
  PROVE  Follows(Stages(step, count, words), step, count, words)
<1> DEFINE Is(f, c) == f = [n \in 0 .. c |-> IF n = 0 THEN words ELSE step[n][f[n - 1]]]
           Missing == {c \in Nat : ~ \E f : Is(f, c)}
<1>1. Missing = {}
  <2> SUFFICES ASSUME Missing # {} PROVE FALSE
    OBVIOUS
  <2>1. PICK c \in Missing : \A d \in Missing : c <= d
    <3>1. Missing \subseteq Nat
      OBVIOUS
    <3> HIDE DEF Missing
    <3> QED
      BY <3>1, LeastNatural
  <2>2. CASE c = 0
    <3>1. Is([n \in 0 .. 0 |-> words], 0)
      OBVIOUS
    <3> QED
      BY <2>2, <3>1
  <2>3. CASE c # 0
    <3>1. c \in Nat /\ c - 1 \in Nat /\ c - 1 \notin Missing
      BY <2>1, <2>3, SMTT(30)
    <3>2. PICK f : Is(f, c - 1)
      BY <3>1
    <3> DEFINE g == [n \in 0 .. c |-> IF n = c THEN step[c][f[c - 1]] ELSE f[n]]
    <3>3. ASSUME NEW n \in 0 .. c
          PROVE  g[n] = IF n = 0 THEN words ELSE step[n][g[n - 1]]
      <4>1. CASE n = c
        <5>1. c - 1 \in 0 .. c /\ c - 1 # c
          BY <3>1
        <5>2. g[c - 1] = f[c - 1]
          BY <5>1
        <5> QED
          BY <2>3, <4>1, <5>2
      <4>2. CASE n = 0
        <5>1. f[0] = words
          BY <3>1, <3>2
        <5> QED
          BY <2>3, <4>2, <5>1
      <4>3. CASE n # c /\ n # 0
        <5>1. n \in 0 .. (c - 1) /\ n - 1 \in 0 .. c /\ n - 1 # c
          BY <3>1, <4>3
        <5>2. f[n] = step[n][f[n - 1]]
          BY <3>2, <4>3, <5>1
        <5>3. g[n] = f[n] /\ g[n - 1] = f[n - 1]
          BY <4>3, <5>1
        <5> QED
          BY <4>3, <5>2, <5>3
      <4> QED
        BY <4>1, <4>2, <4>3
    <3>4. g = [n \in 0 .. c |-> g[n]]
      OBVIOUS
    <3>5. Is(g, c)
      <4> HIDE DEF g
      <4> QED
        BY <3>3, <3>4
    <3> QED
      BY <2>1, <3>5
  <2> QED
    BY <2>2, <2>3
<1>2. \E f : Is(f, count)
  BY <1>1
<1>3. Stages(step, count, words) = CHOOSE f : Is(f, count)
  BY DEF Stages
<1>4. Is(Stages(step, count, words), count)
  <2> HIDE DEF Is
  <2> QED
    BY <1>2, <1>3
<1> DEFINE f == Stages(step, count, words)
<1>5. f = [n \in 0 .. count |-> IF n = 0 THEN words ELSE step[n][f[n - 1]]]
  BY <1>4
<1> HIDE DEF f
<1>6. f[0] = words
  <2>1. 0 \in 0 .. count
    OBVIOUS
  <2> QED
    BY <1>5, <2>1
<1>7. ASSUME NEW n \in 1 .. count PROVE f[n] = step[n][f[n - 1]]
  <2>1. n \in 0 .. count /\ n # 0
    OBVIOUS
  <2> QED
    BY <1>5, <2>1
<1> QED
  BY <1>6, <1>7 DEF f, Follows

LEMMA SmallRemainder ==
  ASSUME NEW x \in Nat, NEW m \in Nat, x < m
  PROVE  x % m = x
OBVIOUS

Copied(words, to, from, n) ==
  [k \in DOMAIN words |->
     IF k \in (to + 1) .. (to + n) THEN words[from + (k - to)] ELSE words[k]]

(* Of an entry whose parts do not overlap, memcpy has one result.          *)
LEMMA OneCopy ==
  ASSUME NEW words, NEW to \in Nat, NEW from \in Nat, NEW n \in Nat,
         to + n <= from \/ from + n <= to \/ from = to
  PROVE  Copies(words, to, from, n) = {Copied(words, to, from, n)}
<1> DEFINE Upward(d)   == IF to > from THEN ((d - 1) % (to - from)) + 1 ELSE d
           Downward(d) == IF from > to THEN n - ((n - d) % (from - to)) ELSE d
<1>1. ASSUME NEW d \in 1 .. n PROVE Upward(d) = d
  <2>1. CASE to > from
    <3>1. d - 1 \in Nat /\ to - from \in Nat /\ d - 1 < to - from
      BY <2>1
    <3>2. (d - 1) % (to - from) = d - 1
      BY <3>1, SmallRemainder
    <3> QED
      BY <2>1, <3>2
  <2> QED
    BY <2>1
<1>2. ASSUME NEW d \in 1 .. n PROVE Downward(d) = d
  <2>1. CASE from > to
    <3>1. n - d \in Nat /\ from - to \in Nat /\ n - d < from - to
      BY <2>1
    <3>2. (n - d) % (from - to) = n - d
      BY <3>1, SmallRemainder
    <3> QED
      BY <2>1, <3>2
  <2> QED
    BY <2>1
<1>3. \A k \in (to + 1) .. (to + n) : k - to \in 1 .. n
  OBVIOUS
<1>4. Copies(words, to, from, n) =
        {Copied(words, to, from, n),
         [k \in DOMAIN words |->
            IF k \in (to + 1) .. (to + n) THEN words[from + Upward(k - to)] ELSE words[k]],
         [k \in DOMAIN words |->
            IF k \in (to + 1) .. (to + n) THEN words[from + Downward(k - to)] ELSE words[k]]}
  BY DEF Copies, Copied
<1> HIDE DEF Upward, Downward
<1>5. [k \in DOMAIN words |->
         IF k \in (to + 1) .. (to + n) THEN words[from + Upward(k - to)] ELSE words[k]]
      = Copied(words, to, from, n)
  BY <1>1, <1>3 DEF Copied
<1>6. [k \in DOMAIN words |->
         IF k \in (to + 1) .. (to + n) THEN words[from + Downward(k - to)] ELSE words[k]]
      = Copied(words, to, from, n)
  BY <1>2, <1>3 DEF Copied
<1> QED
  BY <1>4, <1>5, <1>6

(* So has every entry that apply does not refuse.                          *)
LEMMA OnePatched ==
  ASSUME Size \in Nat, NEW words \in Images, NEW e \in DeltaEntry, Apart(e), Reach(e) <= Size,
         e.op = "lzx" => ~(2 * Len(e.words) < e.n),
         NEW patched \in Patched(words, e)
  PROVE  patched = One(words, e) /\ patched \in Images
<1>1. /\ e.op \in {"zero", "move", "lzx"} /\ e.new \in Nat /\ e.old \in Nat /\ e.n \in Nat
      /\ e.words \in Seq(Int)
  BY DEF DeltaEntry
<1>2. DOMAIN words = 1 .. Size /\ \A k \in 1 .. Size : words[k] \in Int
  BY DEF Images
<1>3. CASE e.op = "zero"
  <2> DEFINE w == [k \in DOMAIN words |-> IF k \in (e.new + 1) .. (e.new + e.n) THEN 0 ELSE words[k]]
  <2>1. Patched(words, e) = {w}
    BY <1>3 DEF Patched
  <2>2. w \in Images
    BY <1>2 DEF Images
  <2> HIDE DEF w
  <2> QED
    BY <2>1, <2>2 DEF One
<1>4. CASE e.op = "move"
  <2> DEFINE w == Copied(words, e.new, e.old, e.n)
  <2>1. Patched(words, e) = {w}
    <3>1. Copies(words, e.new, e.old, e.n) = {w}
      <4>1. e.new + e.n <= e.old \/ e.old + e.n <= e.new \/ e.old = e.new
        BY <1>4 DEF Apart
      <4>2. e.new \in Nat /\ e.old \in Nat /\ e.n \in Nat
        BY <1>1
      <4> QED
        BY <4>1, <4>2, OneCopy
    <3> QED
      BY <1>4, <3>1 DEF Patched
  <2>2. e.old + e.n <= Size
    BY Size \in Nat, Reach(e) <= Size, <1>1, <1>4 DEF Reach
  <2>3. ASSUME NEW k \in 1 .. Size, k \in (e.new + 1) .. (e.new + e.n)
        PROVE  e.old + (k - e.new) \in 1 .. Size
    BY ONLY Size \in Nat, <1>1, <2>2, <2>3, SMTT(30)
  <2>4. w \in Images
    BY <1>2, <2>3 DEF Images, Copied
  <2> HIDE DEF w
  <2> QED
    BY <2>1, <2>4 DEF One
<1>5. CASE e.op = "lzx"
  <2> DEFINE x == Expanded(e.words, e.n, Slice(words, e.old, e.n))
             w == [k \in DOMAIN words |->
                     IF k \in (e.new + 1) .. (e.new + e.n) THEN x[k - e.new] ELSE words[k]]
  <2>1. Patched(words, e) = {w}
    BY <1>5 DEF Patched
  <2>2. ASSUME NEW k \in 1 .. e.n PROVE x[k] \in Int
    <3>1. (k + 1) \div 2 \in 1 .. Len(e.words)
      BY <1>1, <1>5
    <3>2. e.words[(k + 1) \div 2] \in Int
      BY <1>1, <3>1
    <3>3. Slice(words, e.old, e.n)[k] \in Int
      BY <1>1, <1>2 DEF Slice
    <3> QED
      BY <3>2, <3>3 DEF Expanded
  <2> HIDE DEF x
  <2>3. \A k \in (e.new + 1) .. (e.new + e.n) : k - e.new \in 1 .. e.n
    BY <1>1
  <2>4. w \in Images
    BY <1>2, <2>2, <2>3 DEF Images
  <2> HIDE DEF w
  <2> QED
    BY <2>1, <2>4 DEF One
<1> QED
  BY <1>1, <1>3, <1>4, <1>5

(* The end of a block, when the loop comes to it.                          *)
LEMMA EffectiveIs ==
  ASSUME NEW entries, Len(entries) \in Nat, NEW n \in 0 .. Len(entries),
         \A k \in 1 .. n : ~IsEnd(entries[k]),
         n < Len(entries) => IsEnd(entries[n + 1])
  PROVE  Effective(entries) = n
<1> DEFINE Is(m) == /\ \A k \in 1 .. m : ~IsEnd(entries[k])
                    /\ m < Len(entries) => IsEnd(entries[m + 1])
<1>1. ASSUME NEW m \in 0 .. Len(entries), Is(m) PROVE m = n
  <2>1. ~(m < n)
    <3> SUFFICES ASSUME m < n PROVE FALSE
      OBVIOUS
    <3>1. m + 1 \in 1 .. n /\ m < Len(entries)
      OBVIOUS
    <3> QED
      BY <1>1, <3>1
  <2>2. ~(n < m)
    <3> SUFFICES ASSUME n < m PROVE FALSE
      OBVIOUS
    <3>1. n + 1 \in 1 .. m /\ n < Len(entries)
      OBVIOUS
    <3> QED
      BY <1>1, <3>1
  <2> QED
    BY <2>1, <2>2
<1>2. Is(n)
  OBVIOUS
<1>3. Effective(entries) = CHOOSE m \in 0 .. Len(entries) : Is(m)
  BY DEF Effective
<1> HIDE DEF Is
<1> QED
  BY <1>1, <1>2, <1>3

-----------------------------------------------------------------------------
Start == Padded(BaseImage(base))

(* The stream holds the data of the blocks so far, whose hashes are right. *)
ChainRead ==
  /\ stream = Collected(Plain, base)[i]
  /\ \A m \in 1 .. i : Slice(Plain, base.chainAt[m], base.chain[m].size) = base.chain[m].hash

(* j entries of the i-th block, none of them its end, have been applied.   *)
EntriesApplied ==
  /\ i <= Len(patch.blocks) /\ j \in 1 .. (Len(Block.entries) + 1)
  /\ \A k \in 1 .. (j - 1) : ~IsEnd(Block.entries[k])
  /\ out = EntryStages(Block.entries, BlockStages[i - 1])[j - 1]

BlocksApplied ==
  /\ i \in 1 .. (Len(patch.blocks) + 1)
  /\ out \in Images /\ BlockStages[i - 1] \in Images
  /\ IF j = 0 THEN out = BlockStages[i - 1] ELSE EntriesApplied

(* What the buffer holds in each phase, if base and patch are ordinary.    *)
Contents ==
  /\ phase = "sum" => base.comp = "basic"
  /\ phase = "unpack" =>
       base.comp = "basic" /\ \A k \in (At[N + 1].dst + 1) .. Size : out[k] = 0
  /\ phase = "chain" => ChainRead
  /\ phase = "header" => out = Start /\ out \in Images
  /\ phase = "delta" => BlocksApplied
  /\ phase = "write" => out = Expected /\ out \in Images
  /\ phase = "load" /\ ~late => disk = NewFile(Expected) /\ Expected \in Images

PatchInv ==
  /\ phase \notin {"load", "done"} => disk = NoFile /\ ~late
  /\ Ordinary => Contents
  /\ PatchThenLoad

-----------------------------------------------------------------------------
(* The three formats *)

LEMMA PlainStart ==
  ASSUME base \in Bases, patch \in Patches, Ordinary, base.comp = "none"
  PROVE  Padded(Plain) = Start
<1> DEFINE n == base.imageSize
<1>1. n \in Nat /\ Size \in Nat
  BY XexAssumption, Types
<1>2. BaseImage(base) = Slice(Plain, 0, n)
  BY DEF BaseImage, Plain
<1> HIDE DEF n
<1>3. Len(BaseImage(base)) = n /\ Len(base.words) <= n
  BY <1>1, <1>2, LengthOfSlice DEF Ordinary
<1>4. ASSUME NEW k \in 1 .. Size
      PROVE  (IF k <= Len(Plain) THEN Plain[k] ELSE 0) = (IF k <= n THEN BaseImage(base)[k] ELSE 0)
  <2>1. k <= n => BaseImage(base)[k] = IF k \in DOMAIN Plain THEN Plain[k] ELSE 0
    BY <1>1, <1>2 DEF Slice
  <2>2. k \in DOMAIN Plain <=> k <= Len(Plain)
    BY <1>1, PlainWords
  <2> QED
    BY <1>1, <1>3, <2>1, <2>2, PlainWords
<1> QED
  BY <1>3, <1>4 DEF Padded, Start

(* The image of basic blocks is a function on its words.                   *)
LEMMA UnpackedIs ==
  ASSUME NEW words, NEW blocks, NEW at
  PROVE  Unpacked(words, blocks, at)
           = [k \in 1 .. at[Len(blocks) + 1].dst |-> Unpacked(words, blocks, at)[k]]
<1> DEFINE S == 1 .. at[Len(blocks) + 1].dst
           Word(k) == LET m == CHOOSE m \in 1 .. Len(blocks) : k \in (at[m].dst + 1) .. at[m + 1].dst
                      IN  IF k <= at[m].dst + blocks[m].data THEN words[at[m].src + k - at[m].dst] ELSE 0
<1>1. Unpacked(words, blocks, at) = [k \in S |-> Word(k)]
  BY Zenon DEF Unpacked
<1> HIDE DEF S, Word
<1>2. [k \in S |-> Word(k)] = [k \in S |-> [n \in S |-> Word(n)][k]]
  OBVIOUS
<1>3. Unpacked(words, blocks, at) = [k \in S |-> Unpacked(words, blocks, at)[k]]
  BY <1>1, <1>2
<1> QED
  BY <1>3 DEF S

(* When all basic blocks are in place, the buffer is the loader's image:   *)
(* each of its words lies in a block.                                      *)
LEMMA BasicStart ==
  ASSUME UnpackInv, IsWords(out), Ordinary, base.comp = "basic", phase = "unpack", i = 0,
         \A k \in (At[N + 1].dst + 1) .. Size : out[k] = 0
  PROVE  out = Start /\ out \in Images
<1> DEFINE L == At[N + 1].dst
           Within(m, k) == k \in (At[m].dst + 1) .. At[m + 1].dst
<1>1. /\ base \in Bases /\ patch \in Patches /\ Ordered(N + 1) /\ L <= Size
      /\ N \in Nat /\ Size \in Nat /\ N + 1 \in 1 .. (N + 1)
  BY Types DEF UnpackInv
<1>2. /\ \A m \in 1 .. N : base.blocks[m].data \in Nat /\ base.blocks[m].zero \in Nat
      /\ \A m \in 1 .. (N + 1) : At[m].src \in Nat /\ At[m].dst \in Nat
      /\ At[N + 1].src <= Len(base.words)
  BY <1>1, Types DEF Ordinary, Loadable, At, N
<1>3. ASSUME NEW m \in 1 .. N
      PROVE  /\ \A d \in 1 .. base.blocks[m].data : out[At[m].dst + d] = Words[At[m].src + d]
             /\ \A d \in 1 .. base.blocks[m].zero :
                  out[At[m].dst + base.blocks[m].data + d] = 0
  BY <1>3 DEF UnpackInv, UnpackInPlace, Words, Plain, At, N
<1>4. BaseImage(base) = Unpacked(Plain, base.blocks, At)
  BY DEF BaseImage, Plain, At
<1>5. DOMAIN BaseImage(base) = 1 .. L
  BY <1>4 DEF Unpacked, N
<1>6. Len(BaseImage(base)) = L
  <2>1. Unpacked(Plain, base.blocks, At) = [k \in 1 .. L |-> Unpacked(Plain, base.blocks, At)[k]]
    BY UnpackedIs DEF N
  <2>2. L \in Nat
    BY <1>1, <1>2
  <2> HIDE DEF L
  <2> QED
    BY <1>4, <2>1, <2>2, LengthOfFunction
<1>7. ASSUME NEW k \in 1 .. L
      PROVE  \E m \in 1 .. N : Within(m, k)
  <2> DEFINE T == {m \in 1 .. (N + 1) : k <= At[m].dst}
  <2>1. T \subseteq Nat /\ N + 1 \in T
    BY <1>1
  <2>2. PICK m \in T : \A l \in T : m <= l
    <3> HIDE DEF T
    <3> QED
      BY <2>1, LeastNatural
  <2>3. At[1].dst = 0
    BY <1>1, FirstOffset
  <2>4. m # 1
    BY <2>2, <2>3
  <2>5. m - 1 \in 1 .. N /\ m - 1 \in 1 .. (N + 1) /\ (m - 1) + 1 = m
    BY <1>1, <2>2, <2>4
  <2>6. m - 1 \notin T
    BY <2>2, <2>5
  <2>7. Within(m - 1, k)
    BY <1>2, <2>2, <2>5, <2>6
  <2> HIDE DEF Within
  <2> QED
    BY <2>5, <2>7
<1>8. ASSUME NEW k \in 1 .. L
      PROVE  out[k] = BaseImage(base)[k] /\ out[k] \in Int
  <2> DEFINE m == CHOOSE m \in 1 .. N : Within(m, k)
  <2>1. m \in 1 .. N /\ Within(m, k)
    <3> HIDE DEF Within
    <3> QED
      BY <1>7
  <2>2. BaseImage(base)[k] =
          IF k <= At[m].dst + base.blocks[m].data THEN Plain[At[m].src + k - At[m].dst] ELSE 0
    BY <1>4 DEF Unpacked, N
  <2> HIDE DEF m
  <2>3. /\ m \in 1 .. (N + 1) /\ m + 1 \in 1 .. (N + 1)
        /\ At[m + 1].src = At[m].src + base.blocks[m].data
        /\ At[m + 1].dst = At[m].dst + base.blocks[m].data + base.blocks[m].zero
    BY <1>1, <2>1, NextOffset
  <2>4. At[m + 1].src <= At[N + 1].src
    BY <1>1, <2>3 DEF Ordered
  <2>7. /\ base.blocks[m].data \in Nat /\ base.blocks[m].zero \in Nat
        /\ At[m].src \in Nat /\ At[m].dst \in Nat /\ At[m + 1].dst \in Nat
        /\ At[N + 1].src \in Nat /\ Len(base.words) \in Nat
    BY <1>1, <1>2, <2>1, <2>3, PlainWords
  <2>8. k > At[m].dst /\ k <= At[m + 1].dst /\ k \in Int
    BY <2>1, <2>7
  <2>5. CASE k <= At[m].dst + base.blocks[m].data
    <3> DEFINE d == k - At[m].dst
    <3>1. d \in 1 .. base.blocks[m].data /\ At[m].dst + d = k
      BY ONLY <2>7, <2>8, <2>5
    <3>2. At[m].src + k - At[m].dst = At[m].src + d
      BY ONLY <2>7, <2>8
    <3>3. At[m].src + d \in 1 .. Len(base.words)
      <4>1. At[m].src + base.blocks[m].data <= Len(base.words)
        BY <1>2, <2>7, <2>3, <2>4
      <4> HIDE DEF d
      <4> QED
        BY ONLY <2>7, <3>1, <4>1, SMTT(30)
    <3>4. out[At[m].dst + d] = Plain[At[m].src + d]
      <4>1. out[At[m].dst + d] = Words[At[m].src + d]
        BY <1>3, <2>1, <3>1
      <4>2. Len(base.words) <= Size
        BY <1>1, Types DEF Ordinary, Agree, HeadersAgree
      <4>3. Len(Plain) = Len(base.words)
        BY <1>1, PlainWords
      <4>4. At[m].src + d \in 1 .. Size /\ At[m].src + d <= Len(Plain)
        BY ONLY <1>1, <2>7, <3>3, <4>2, <4>3
      <4> QED
        BY <4>1, <4>4 DEF Words, Padded
    <3> HIDE DEF d
    <3> QED
      BY <1>1, <2>2, <2>5, <3>1, <3>2, <3>3, <3>4, PlainWords
  <2>6. CASE ~(k <= At[m].dst + base.blocks[m].data)
    <3> DEFINE d == k - (At[m].dst + base.blocks[m].data)
    <3>1. d \in 1 .. base.blocks[m].zero /\ At[m].dst + base.blocks[m].data + d = k
      <4>1. k <= At[m].dst + base.blocks[m].data + base.blocks[m].zero
        BY <2>3, <2>8
      <4> QED
        BY ONLY <2>7, <2>8, <2>6, <4>1
    <3>2. out[At[m].dst + base.blocks[m].data + d] = 0
      BY <1>3, <2>1, <3>1
    <3> HIDE DEF d
    <3> QED
      BY <2>2, <2>6, <3>1, <3>2
  <2> QED
    BY <2>5, <2>6
<1>9. ASSUME NEW k \in 1 .. Size
      PROVE  out[k] = (IF k <= Len(BaseImage(base)) THEN BaseImage(base)[k] ELSE 0) /\ out[k] \in Int
  <2>1. L \in Nat
    BY <1>1, <1>2
  <2>2. CASE k <= L
    BY <1>6, <1>8, <2>1, <2>2
  <2>3. CASE ~(k <= L)
    BY <1>1, <1>6, <2>1, <2>3
  <2> QED
    BY <2>2, <2>3
<1> QED
  BY <1>9 DEF Padded, Start, Images, IsWords

(* A block of the chain is the same in the buffer and in the file.         *)
LEMMA SameSlice ==
  ASSUME base \in Bases, Size \in Nat, Len(base.words) <= Size, NEW from \in Nat, NEW n \in Nat
  PROVE  Slice(Words, from, n) = Slice(Plain, from, n)
<1>1. ASSUME NEW k \in 1 .. n
      PROVE  (IF from + k \in DOMAIN Words THEN Words[from + k] ELSE 0)
             = (IF from + k \in DOMAIN Plain THEN Plain[from + k] ELSE 0)
  BY PlainWords DEF Words, Padded
<1> QED
  BY <1>1 DEF Slice

(* What the loader has collected after a block.                            *)
LEMMA CollectedStage ==
  ASSUME base \in Bases
  PROVE  /\ Collected(Plain, base)[0] = <<>>
         /\ \A m \in 1 .. Len(base.chain) : Collected(Plain, base)[m - 1] \in Seq(Int) =>
              Collected(Plain, base)[m] =
                Collected(Plain, base)[m - 1]
                  \o Slice(Plain, base.chainAt[m], base.chain[m].data)
<1> DEFINE count == Len(base.chain)
           steps == [m \in 1 .. Len(base.chain) |->
                       [stage0 \in Seq(Int) |->
                          stage0 \o Slice(Plain, base.chainAt[m], base.chain[m].data)]]
           list == Stages(steps, count, <<>>)
<1>1. count \in Nat
  BY ChainOffsets
<1>2. Collected(Plain, base) = list
  BY DEF Collected
<1>3. ASSUME NEW m \in 1 .. count, NEW before \in Seq(Int)
      PROVE  steps[m][before] = before \o Slice(Plain, base.chainAt[m], base.chain[m].data)
  OBVIOUS
<1> HIDE DEF count, steps
<1>4. Follows(list, steps, count, <<>>)
  BY <1>1, StagesFollow
<1> HIDE DEF list
<1> QED
  BY <1>2, <1>3, <1>4 DEF Follows, count

(* The whole chain, expanded, is the loader's image.                       *)
LEMMA ChainStart ==
  ASSUME base \in Bases, patch \in Patches, Ordinary,
         ChainCursors, ChainRead, i = Len(base.chain), out = Words,
         ~(2 * Len(stream) < base.imageSize),
         NEW new,
         new = [k \in DOMAIN out |->
                  IF k - HeaderGap \in 1 .. base.imageSize
                  THEN Expanded(stream, base.imageSize, [l \in 1 .. base.imageSize |-> 0])[k - HeaderGap]
                  ELSE out[k]]
  PROVE  new = Start /\ new \in Images
<1> DEFINE n == base.imageSize
           zeroes == [l \in 1 .. n |-> 0]
           image0 == Expanded(stream, n, zeroes)
<1>1. n \in Nat /\ Size \in Nat /\ HeaderGap = 0
  BY XexAssumption, Types DEF Ordinary, ChainCursors
<1>2. stream \in Seq(Int) /\ Len(stream) \in Nat /\ 2 * Len(stream) >= n
  <2>1. stream \in Seq(Int)
    BY DEF ChainCursors
  <2> QED
    BY <1>1, <2>1
<1>3. BaseImage(base) = image0
  <2>1. \A m \in 1 .. Len(base.chain) :
          Slice(Plain, base.chainAt[m], base.chain[m].size) = base.chain[m].hash
    BY DEF ChainRead
  <2>2. stream = Collected(Plain, base)[Len(base.chain)]
    BY DEF ChainRead
  <2> QED
    BY <1>2, <2>1, <2>2 DEF BaseImage, Plain, ChainCursors
<1>4. Len(image0) = n
  <2>1. image0 = [k \in 1 .. n |-> image0[k]]
    BY DEF Expanded
  <2> HIDE DEF image0, n
  <2> QED
    BY <1>1, <2>1, LengthOfFunction
<1>5. Len(base.words) <= n
  <2> HIDE DEF image0, n
  <2> QED
    BY <1>3, <1>4 DEF Ordinary
<1>6. ASSUME NEW k \in 1 .. n PROVE image0[k] \in Int
  <2> DEFINE l == (k + 1) \div 2
  <2>1. l \in 1 .. Len(stream)
    <3> HIDE DEF n
    <3> QED
      BY <1>1, <1>2, SMTT(30)
  <2>2. image0[k] = IF stream[l] = 0 THEN 0 ELSE stream[l]
    BY DEF Expanded
  <2> HIDE DEF l
  <2>3. stream[l] \in Int
    BY <1>2, <2>1
  <2> QED
    BY <2>2, <2>3
<1>7. DOMAIN out = 1 .. Size
  BY DEF Words, Padded
<1> HIDE DEF image0, n, zeroes
<1>8. ASSUME NEW k \in 1 .. Size
      PROVE  new[k] = (IF k <= n THEN image0[k] ELSE 0) /\ new[k] \in Int
  <2>1. CASE k <= n
    <3>1. k - HeaderGap = k /\ k \in 1 .. n
      BY <1>1, <2>1
    <3>2. new[k] = image0[k]
      BY <1>7, <3>1 DEF n, zeroes, image0
    <3> QED
      BY <1>6, <2>1, <3>1, <3>2
  <2>2. CASE ~(k <= n)
    <3>1. k - HeaderGap \notin 1 .. n
      BY <1>1, <2>2
    <3>2. new[k] = out[k]
      BY <1>7, <3>1 DEF n
    <3>3. ~(k <= Len(Plain))
      BY <1>1, <1>5, <2>2, PlainWords
    <3> QED
      BY <2>2, <3>2, <3>3 DEF Words, Padded
  <2> QED
    BY <2>1, <2>2
<1>9. new = [k \in 1 .. Size |-> new[k]]
  BY <1>7
<1> QED
  BY <1>3, <1>4, <1>8, <1>9 DEF Padded, Start, Images

-----------------------------------------------------------------------------
(* What is made of base and patch alone.                                   *)
LEMMA SameFiles ==
  ASSUME UNCHANGED <<base, patch>>
  PROVE  /\ Size' = Size /\ Ordinary' = Ordinary /\ Start' = Start
         /\ Images' = Images /\ BlockStages' = BlockStages /\ Expected' = Expected
<1>1. BlockSteps' = BlockSteps
  BY DEF BlockSteps, EntryStages, EntrySteps, Images, Size
<1>2. Start' = Start
  BY DEF Start, Padded, Size
<1>3. Moved(Start)' = Moved(Start)
  BY <1>2 DEF Moved
<1>4. Agree' = Agree /\ Loadable' = Loadable /\ HeaderGap' = HeaderGap
  BY HeaderConstants DEF Loadable, HeaderGap
<1> QED
  BY <1>1, <1>2, <1>3, <1>4 DEF Size, Ordinary, Images, BlockStages, Expected, Start

LEMMA SameBase ==
  ASSUME UNCHANGED <<base, patch>>
  PROVE  N' = N /\ At' = At /\ Plain' = Plain /\ Words' = Words
BY DEF N, At, Plain, Words, Padded, Size

(* Until the file is written there is none, and nothing to compare.        *)
LEMMA NoFileYet ==
  ASSUME disk = NoFile
  PROVE  PatchThenLoad
BY DEF PatchThenLoad

(* When apply ends without a file, nothing is left to show.                *)
LEMMA EndsWithoutFile ==
  ASSUME PatchInv, phase \notin {"load", "done"}, UNCHANGED disk, phase' = "done"
  PROVE  PatchInv'
<1>1. disk' = NoFile
  BY DEF PatchInv
<1>2. PatchThenLoad'
  BY <1>1 DEF PatchThenLoad
<1>3. Contents'
  BY DEF Contents
<1> QED
  BY <1>2, <1>3 DEF PatchInv

LEMMA FirstPatch ==
  ASSUME UnpackInv, PatchInv, Validate \/ InputMissing \/ CopyBase \/ SumBlock \/ WriteFails
  PROVE  PatchInv'
<1>1. UNCHANGED <<base, patch, disk, late>> /\ phase \in {"validate", "copy", "sum", "write"}
  BY DEF Validate, InputMissing, CopyBase, SumBlock, WriteFails
<1>2. CASE phase' = "done"
  BY <1>1, <1>2, EndsWithoutFile
<1>3. CASE phase' # "done"
  <2>1. disk = NoFile /\ ~late /\ PatchThenLoad'
    <3>1. disk = NoFile /\ ~late
      BY <1>1 DEF PatchInv
    <3> QED
      BY <1>1, <3>1 DEF PatchThenLoad
  <2>2. Ordinary' = Ordinary
    BY <1>1, SameFiles
  <2>3. CASE Validate \/ InputMissing
    <3>1. phase' = "copy" /\ UNCHANGED stream /\ phase = "validate"
      <4>1. phase' \in {"copy", "done"}
        <5>1. CASE InputMissing
          BY <5>1 DEF InputMissing, Return
        <5>2. CASE Validate /\ Refusal # ""
          BY <5>2, Zenon DEF Validate, Return, Refusal
        <5>3. CASE Validate /\ Refusal = ""
          BY <5>3 DEF Validate, Return, Overrun
        <5> QED
          BY <2>3, <5>1, <5>2, <5>3
      <4> QED
        BY <1>3, <2>3, <4>1 DEF Validate, InputMissing, cursors
    <3> QED
      BY <1>1, <2>1, <3>1 DEF PatchInv, Contents
  <2>4. CASE CopyBase
    <3>1. phase' = "decrypt" /\ UNCHANGED stream /\ phase = "copy"
      BY <1>3, <2>4 DEF CopyBase, Return, Overrun, cursors
    <3> QED
      BY <1>1, <2>1, <3>1 DEF PatchInv, Contents
  <2>5. CASE SumBlock
    <3>1. phase' = "sum" /\ phase = "sum" /\ UNCHANGED out
      BY <2>5 DEF SumBlock
    <3> QED
      BY <1>1, <2>1, <2>2, <3>1 DEF PatchInv, Contents
  <2>6. CASE WriteFails
    BY <1>3, <2>6 DEF WriteFails, Return
  <2> QED
    BY <2>3, <2>4, <2>5, <2>6
<1> QED
  BY <1>2, <1>3

LEMMA DecryptPatch ==
  ASSUME UnpackInv, BufferInv, PatchInv, DecryptBase
  PROVE  PatchInv'
<1>1. UNCHANGED <<base, patch, disk, late, src, dst, i, stream>> /\ phase = "decrypt"
  BY DEF DecryptBase, cursors
<1>2. CASE phase' = "done"
  BY <1>1, <1>2, EndsWithoutFile
<1>3. CASE phase' # "done"
  <2>1. disk = NoFile /\ ~late /\ stream = <<>> /\ PatchThenLoad'
    <3>1. disk = NoFile /\ ~late /\ stream = <<>>
      BY <1>1 DEF PatchInv, BufferInv
    <3> QED
      BY <1>1, <3>1 DEF PatchThenLoad
  <2>2. /\ base \in Bases /\ patch \in Patches /\ i = 0 /\ src = 0
        /\ out = Padded(base.words) /\ Size \in Nat
    BY <1>1, Types DEF UnpackInv, Filled
  <2>3. base.enc # "other" /\ base.comp # "absent" /\ phase' = Decompression
    BY <1>3 DEF DecryptBase, Return
  <2>4. /\ phase' = "header" => base.comp = "none"
        /\ phase' = "sum" => base.comp = "basic"
        /\ phase' = "chain" => base.comp = "normal"
        /\ phase' \in {"header", "sum", "chain"}
    BY <1>3, <2>3 DEF Decompression
  <2>5. out' = Words
    BY <2>2, <2>3, DecryptPads DEF DecryptBase
  <2>6. Words \in Images
    BY <2>2, PaddedIsImage DEF Words
  <2>7. Ordinary => Contents'
    <3> SUFFICES ASSUME Ordinary PROVE Contents'
      OBVIOUS
    <3>1. CASE phase' = "header"
      <4>1. out' = Start /\ out' \in Images
        BY <2>2, <2>4, <2>5, <2>6, <3>1, PlainStart DEF Words
      <4> QED
        BY <1>1, <3>1, <4>1, SameFiles DEF Contents
    <3>2. CASE phase' = "sum"
      BY <1>1, <2>4, <3>2 DEF Contents
    <3>3. CASE phase' = "chain"
      <4>1. 1 .. 0 = {} /\ Collected(Plain, base)[0] = <<>>
        BY <2>2, CollectedStage
      <4>2. ChainRead'
        BY <1>1, <2>1, <2>2, <4>1, SameBase DEF ChainRead
      <4> QED
        BY <3>3, <4>2 DEF Contents
    <3> QED
      BY <2>4, <3>1, <3>2, <3>3
  <2> QED
    BY <1>1, <1>3, <2>1, <2>4, <2>7, SameFiles DEF PatchInv
<1> QED
  BY <1>2, <1>3

(* The image of a base of basic blocks is as long as they are together.    *)
LEMMA BasicLength ==
  ASSUME base \in Bases, patch \in Patches, base.comp = "basic"
  PROVE  Len(BaseImage(base)) = At[N + 1].dst
<1> DEFINE L == At[N + 1].dst
<1>1. BaseImage(base) = Unpacked(Plain, base.blocks, At)
  BY DEF BaseImage, Plain, At
<1>2. Unpacked(Plain, base.blocks, At) = [k \in 1 .. L |-> Unpacked(Plain, base.blocks, At)[k]]
  BY UnpackedIs DEF N
<1>3. L \in Nat
  <2>1. N + 1 \in 1 .. (N + 1)
    BY Types
  <2> QED
    BY <2>1, Types
<1> HIDE DEF L
<1>4. Len(BaseImage(base)) = L
  BY <1>1, <1>2, <1>3, LengthOfFunction
<1> QED
  BY <1>4 DEF L

LEMMA SumDonePatch ==
  ASSUME UnpackInv, PatchInv, SumDone
  PROVE  PatchInv'
<1>1. UNCHANGED <<base, patch, out, disk, late>> /\ phase = "sum"
  BY DEF SumDone
<1>2. CASE phase' = "done"
  BY <1>1, <1>2, EndsWithoutFile
<1>3. CASE phase' # "done"
  <2>1. phase' = "unpack"
    BY <1>3 DEF SumDone, Return
  <2>2. disk = NoFile /\ ~late
    BY <1>1 DEF PatchInv
  <2>3. base \in Bases /\ patch \in Patches
    BY DEF UnpackInv
  <2>4. ASSUME Ordinary
        PROVE  base.comp = "basic" /\ \A k \in (At[N + 1].dst + 1) .. Size : out[k] = 0
    <3>1. base.comp = "basic" /\ out = Padded(Plain)
      BY <1>1, <2>4 DEF PatchInv, Contents, UnpackInv, Filled
    <3>2. Len(base.words) <= At[N + 1].dst
      BY <2>3, <2>4, <3>1, BasicLength DEF Ordinary
    <3>3. At[N + 1].dst \in Nat /\ Len(base.words) \in Nat /\ Size \in Nat
      <4>1. N + 1 \in 1 .. (N + 1)
        BY <2>3, Types
      <4> QED
        BY <2>3, <4>1, Types
    <3>4. ASSUME NEW k \in (At[N + 1].dst + 1) .. Size PROVE out[k] = 0
      <4>1. k \in 1 .. Size /\ ~(k <= Len(base.words))
        BY <3>2, <3>3
      <4> QED
        BY <2>3, <3>1, <4>1, PlainWords DEF Padded
    <3> QED
      BY <3>1, <3>4
  <2>5. Ordinary' => Contents'
    BY <1>1, <2>1, <2>4, SameFiles, SameBase DEF Contents
  <2> QED
    BY <1>1, <2>1, <2>2, <2>5, NoFileYet DEF PatchInv, PatchThenLoad
<1> QED
  BY <1>2, <1>3

LEMMA UnpackPatch ==
  ASSUME UnpackInv, PatchInv, UnpackBlock
  PROVE  PatchInv'
<1> DEFINE block == base.blocks[i]
<1>1. /\ UNCHANGED <<base, patch, disk, late>> /\ phase = "unpack" /\ phase' = "unpack" /\ i > 0
      /\ src' = src - block.data /\ dst' = dst - block.zero - block.data
      /\ out' = Placed(out, block, src', dst')
  BY DEF UnpackBlock
<1>2. disk = NoFile /\ ~late
  BY <1>1 DEF PatchInv
<1>3. /\ base \in Bases /\ patch \in Patches /\ Cursors /\ Ordered(N + 1) /\ DOMAIN out = 1 .. Size
  BY <1>1 DEF UnpackInv
<1>4. /\ N \in Nat /\ i \in 1 .. N /\ i + 1 \in 1 .. (N + 1) /\ N + 1 \in 1 .. (N + 1)
  BY <1>1, <1>3, Types DEF Cursors
<1>5. /\ block.data \in Nat /\ block.zero \in Nat /\ Size \in Nat
      /\ dst = At[i + 1].dst /\ dst <= At[N + 1].dst /\ dst \in Nat /\ At[N + 1].dst \in Nat
  BY <1>3, <1>4, Types DEF Cursors, Ordered
<1> HIDE DEF block
<1>6. ASSUME NEW k \in (At[N + 1].dst + 1) .. Size PROVE out'[k] = out[k]
  <2>1. k \in 1 .. Size /\ k > dst
    BY <1>5
  <2>2. k \notin (dst' + block.data + 1) .. (dst' + block.data + block.zero)
    BY <1>1, <1>5, <2>1
  <2>3. k \notin (dst' + 1) .. (dst' + block.data)
    BY <1>1, <1>5, <2>1
  <2>4. Placed(out, block, src', dst')[k] = out[k]
    BY <1>3, <2>1, <2>2, <2>3 DEF Placed
  <2> QED
    BY <1>1, <2>4
<1>7. Ordinary' => Contents'
  <2>1. Ordinary =>
          base.comp = "basic" /\ \A k \in (At[N + 1].dst + 1) .. Size : out[k] = 0
    BY <1>1 DEF PatchInv, Contents
  <2> QED
    BY <1>1, <1>6, <2>1, SameFiles, SameBase DEF Contents
<1> QED
  BY <1>1, <1>2, <1>7, SameFiles DEF PatchInv, PatchThenLoad

(* Ordinary files are read and written inside the buffer.                  *)
LEMMA BufferHolds ==
  ASSUME BufferInv, PatchInv, Ordinary, phase \notin {"validate", "copy", "load", "done"}
  PROVE  IsWords(out)
BY DEF BufferInv, PatchInv, StaysInside, Ordinary

LEMMA UnpackDonePatch ==
  ASSUME UnpackInv, BufferInv, PatchInv, UnpackDone
  PROVE  PatchInv'
<1>1. /\ UNCHANGED <<base, patch, out, disk, late>>
      /\ phase = "unpack" /\ phase' = "header" /\ i = 0
  BY DEF UnpackDone
<1>2. disk = NoFile /\ ~late
  BY <1>1 DEF PatchInv
<1>3. Ordinary => out = Start /\ out \in Images
  <2> SUFFICES ASSUME Ordinary PROVE out = Start /\ out \in Images
    OBVIOUS
  <2>1. base.comp = "basic" /\ \A k \in (At[N + 1].dst + 1) .. Size : out[k] = 0
    BY <1>1 DEF PatchInv, Contents
  <2>2. IsWords(out)
    BY <1>1, BufferHolds
  <2> QED
    BY <1>1, <2>1, <2>2, BasicStart
<1>4. Ordinary' => Contents'
  BY <1>1, <1>3, SameFiles DEF Contents
<1> QED
  BY <1>1, <1>2, <1>4 DEF PatchInv, PatchThenLoad

LEMMA ChainPatch ==
  ASSUME UnpackInv, BufferInv, PatchInv, ChainBlock
  PROVE  PatchInv'
<1>1. UNCHANGED <<base, patch, out, disk, late>> /\ phase = "chain" /\ i < Len(base.chain)
  BY DEF ChainBlock
<1>2. CASE phase' = "done"
  BY <1>1, <1>2, EndsWithoutFile
<1>3. CASE phase' # "done"
  <2> DEFINE block == base.chain[i + 1]
  <2>1. /\ Slice(out, src, block.size) = block.hash
        /\ stream' = stream \o Slice(out, src, block.data)
        /\ i' = i + 1 /\ phase' = "chain"
    BY <1>1, <1>3 DEF ChainBlock, Return, Overrun
  <2>2. /\ disk = NoFile /\ ~late /\ base \in Bases /\ patch \in Patches /\ ChainCursors
        /\ out = Words /\ Len(base.words) <= Size
    BY <1>1 DEF PatchInv, UnpackInv, BufferInv, Filled, Words
  <2>3. /\ i + 1 \in 1 .. Len(base.chain) /\ i + 1 \in 1 .. (Len(base.chain) + 1)
        /\ (i + 1) - 1 = i /\ i \in Nat /\ Size \in Nat
    BY <1>1, <2>2, ChainOffsets, Types DEF ChainCursors
  <2>4. src \in Nat /\ src = base.chainAt[i + 1] /\ block.size \in Nat /\ block.data \in Nat
    BY <2>2, <2>3, ChainOffsets DEF ChainCursors
  <2> HIDE DEF block
  <2>5. /\ Slice(out, src, block.size) = Slice(Plain, base.chainAt[i + 1], block.size)
        /\ Slice(out, src, block.data) = Slice(Plain, base.chainAt[i + 1], block.data)
    BY <2>2, <2>3, <2>4, SameSlice
  <2>6. ASSUME Ordinary PROVE ChainRead'
    <3>1. ChainRead
      BY <1>1, <2>6 DEF PatchInv, Contents
    <3>2. stream \in Seq(Int) /\ stream = Collected(Plain, base)[(i + 1) - 1]
      BY <2>2, <2>3, <3>1 DEF ChainRead, ChainCursors
    <3>3. Collected(Plain, base)[i + 1] = stream \o Slice(Plain, base.chainAt[i + 1], block.data)
      BY <2>2, <2>3, <3>2, CollectedStage DEF block
    <3>4. stream' = Collected(Plain, base)[i']
      BY <2>1, <2>5, <3>3
    <3>5. \A m \in 1 .. (i + 1) :
             Slice(Plain, base.chainAt[m], base.chain[m].size) = base.chain[m].hash
      <4> SUFFICES ASSUME NEW m \in 1 .. (i + 1)
                   PROVE  Slice(Plain, base.chainAt[m], base.chain[m].size) = base.chain[m].hash
        OBVIOUS
      <4>1. CASE m \in 1 .. i
        BY <3>1, <4>1 DEF ChainRead
      <4>2. CASE m = i + 1
        BY <2>1, <2>5, <4>2 DEF block
      <4> QED
        BY <2>3, <4>1, <4>2
    <3> QED
      BY <1>1, <2>1, <3>4, <3>5, SameBase DEF ChainRead
  <2>7. Ordinary' => Contents'
    BY <1>1, <2>1, <2>6, SameFiles DEF Contents
  <2> QED
    BY <1>1, <2>1, <2>2, <2>7 DEF PatchInv, PatchThenLoad
<1> QED
  BY <1>2, <1>3

LEMMA ExpandPatch ==
  ASSUME UnpackInv, BufferInv, PatchInv, ExpandChain
  PROVE  PatchInv'
<1>1. UNCHANGED <<base, patch, disk, late>> /\ phase = "chain" /\ i = Len(base.chain)
  BY DEF ExpandChain
<1>2. CASE phase' = "done"
  BY <1>1, <1>2, EndsWithoutFile
<1>3. CASE phase' # "done"
  <2>1. ~(2 * Len(stream) < base.imageSize) /\ phase' = "header"
    BY <1>3 DEF ExpandChain, Return, Overrun
  <2>2. out' = [k \in DOMAIN out |->
                  IF k - HeaderGap \in 1 .. base.imageSize
                  THEN Expanded(stream, base.imageSize, [l \in 1 .. base.imageSize |-> 0])[k - HeaderGap]
                  ELSE out[k]]
    BY <2>1 DEF ExpandChain
  <2>3. /\ disk = NoFile /\ ~late /\ base \in Bases /\ patch \in Patches
        /\ ChainCursors /\ out = Words
    BY <1>1 DEF PatchInv, UnpackInv, BufferInv, Filled, Words
  <2>4. ASSUME Ordinary
        PROVE  out' = Start /\ out' \in Images
    <3>1. ChainRead
      BY <1>1, <2>4 DEF PatchInv, Contents
    <3> QED
      BY <1>1, <2>1, <2>2, <2>3, <2>4, <3>1, ChainStart
  <2>5. Ordinary' => Contents'
    BY <1>1, <2>1, <2>4, SameFiles DEF Contents
  <2> QED
    BY <1>1, <2>1, <2>3, <2>5 DEF PatchInv, PatchThenLoad
<1> QED
  BY <1>2, <1>3

(* The stages of the patch, block by block and entry by entry.             *)
LEMMA BlockStage ==
  ASSUME patch \in Patches
  PROVE  /\ BlockStages[0] = Moved(Start)
         /\ \A m \in 1 .. Len(patch.blocks) : BlockStages[m - 1] \in Images =>
              BlockStages[m] =
                EntryStages(patch.blocks[m].entries, BlockStages[m - 1])
                  [Effective(patch.blocks[m].entries)]
<1> DEFINE count == Len(patch.blocks)
           moved == Moved(Start)
           list == Stages(BlockSteps, count, moved)
<1>1. count \in Nat
  BY EntryType
<1>2. BlockStages = list
  BY DEF BlockStages, Start
<1> HIDE DEF count, moved
<1>3. Follows(list, BlockSteps, count, moved)
  BY <1>1, StagesFollow
<1> HIDE DEF list
<1>4. \A m \in 1 .. count : BlockStages[m] = BlockSteps[m][BlockStages[m - 1]]
  BY <1>2, <1>3 DEF Follows
<1>5. ASSUME NEW m \in 1 .. Len(patch.blocks), BlockStages[m - 1] \in Images
      PROVE  BlockStages[m] = EntryStages(patch.blocks[m].entries, BlockStages[m - 1])
                                [Effective(patch.blocks[m].entries)]
  <2>1. BlockStages[m] = BlockSteps[m][BlockStages[m - 1]]
    BY <1>4 DEF count
  <2> QED
    BY <1>5, <2>1 DEF BlockSteps
<1> QED
  BY <1>2, <1>3, <1>5 DEF moved, Follows

LEMMA EntryStage ==
  ASSUME NEW entries \in Seq(DeltaEntry), NEW words
  PROVE  /\ EntryStages(entries, words)[0] = words
         /\ \A n \in 1 .. Len(entries) :
              EntryStages(entries, words)[n - 1] \in Images =>
                EntryStages(entries, words)[n] = One(EntryStages(entries, words)[n - 1], entries[n])
<1> DEFINE steps == EntrySteps(entries)
           count == Len(entries)
           list == Stages(steps, count, words)
<1>1. count \in Nat
  OBVIOUS
<1> HIDE DEF steps, count
<1>2. Follows(list, steps, count, words)
  BY <1>1, StagesFollow
<1> HIDE DEF list
<1>3. ASSUME NEW n \in 1 .. Len(entries), list[n - 1] \in Images
      PROVE  list[n] = One(list[n - 1], entries[n])
  <2>1. list[n] = steps[n][list[n - 1]]
    BY <1>2 DEF count, Follows
  <2>2. steps[n][list[n - 1]] = One(list[n - 1], entries[n])
    BY <1>3 DEF steps, EntrySteps
  <2> QED
    BY <2>1, <2>2
<1> QED
  BY <1>2, <1>3 DEF EntryStages, list, steps, count, Follows

LEMMA NotStraying ==
  ASSUME Size \in Nat, NEW e \in DeltaEntry, ~Strays(e)
  PROVE  Reach(e) <= Size
<1>1. Reach(e) \in Nat
  BY DEF Reach, DeltaEntry
<1> QED
  BY <1>1 DEF Strays

LEMMA HeaderPatch ==
  ASSUME UnpackInv, PatchInv, PatchHeader
  PROVE  PatchInv'
<1> DEFINE e == patch.move
<1>1. UNCHANGED <<base, patch, disk, late>> /\ phase = "header" /\ i' = 1 /\ j' = 0
  BY DEF PatchHeader
<1>2. CASE phase' = "done"
  BY <1>1, <1>2, EndsWithoutFile
<1>3. CASE phase' # "done"
  <2>1. /\ phase' = "delta"
        /\ IF e.old = 0 THEN out' = out ELSE out' \in Copies(out, e.new, e.old, e.n)
    BY <1>1, <1>3 DEF PatchHeader, Return, Overrun
  <2>2. disk = NoFile /\ ~late /\ patch \in Patches /\ Size \in Nat
    BY <1>1, Types DEF PatchInv, UnpackInv
  <2>3. ASSUME Ordinary PROVE BlocksApplied'
    <3>1. out = Start /\ out \in Images
      BY <1>1, <2>3 DEF PatchInv, Contents
    <3>2. e \in DeltaEntry /\ e.op = "move" /\ e.old \in Nat
      BY <2>2, PatchAssumption DEF DeltaEntry
    <3>3. Apart(e) /\ (e.old > 0 => Reach(e) <= Size)
      BY <2>2, <2>3, <3>2, NotStraying DEF Ordinary, Agree, PatchAgrees
    <3>4. out' = Moved(Start) /\ out' \in Images
      <4>1. CASE e.old = 0
        BY <2>1, <3>1, <4>1 DEF Moved
      <4>2. CASE e.old # 0
        <5>1. out' \in Patched(out, e) /\ Reach(e) <= Size
          BY <2>1, <3>2, <3>3, <4>2 DEF Patched
        <5> HIDE DEF e
        <5>2. out' = One(out, e) /\ out' \in Images
          BY <2>2, <3>1, <3>2, <3>3, <5>1, OnePatched
        <5> QED
          BY <3>1, <4>2, <5>2 DEF Moved, e
      <4> QED
        BY <4>1, <4>2
    <3>5. Len(patch.blocks) \in Nat
      BY <2>2, EntryType
    <3>6. out' = BlockStages[i' - 1] /\ i' \in 1 .. (Len(patch.blocks) + 1)
      BY <1>1, <2>2, <3>4, <3>5, BlockStage
    <3> QED
      BY <1>1, <3>4, <3>6, SameFiles DEF BlocksApplied
  <2>4. Ordinary' => Contents'
    BY <1>1, <2>1, <2>3, SameFiles DEF Contents
  <2> QED
    BY <1>1, <2>1, <2>2, <2>4 DEF PatchInv, PatchThenLoad
<1> QED
  BY <1>2, <1>3

LEMMA CheckPatch ==
  ASSUME UnpackInv, PatchInv, CheckBlock
  PROVE  PatchInv'
<1>1. /\ UNCHANGED <<base, patch, out, i, disk, late>>
      /\ phase = "delta" /\ i <= Len(patch.blocks) /\ j = 0
  BY DEF CheckBlock
<1>2. CASE phase' = "done"
  BY <1>1, <1>2, EndsWithoutFile
<1>3. CASE phase' # "done"
  <2>1. phase' = "delta" /\ j' = 1
    BY <1>1, <1>3 DEF CheckBlock, Return, Overrun
  <2>2. disk = NoFile /\ ~late /\ patch \in Patches
    BY <1>1 DEF PatchInv, UnpackInv
  <2>3. ASSUME Ordinary PROVE BlocksApplied'
    <3>1. /\ i \in 1 .. (Len(patch.blocks) + 1) /\ out = BlockStages[i - 1]
          /\ out \in Images /\ BlockStages[i - 1] \in Images
      BY <1>1, <2>3 DEF PatchInv, Contents, BlocksApplied
    <3>2. i \in 1 .. Len(patch.blocks) /\ Len(patch.blocks) \in Nat
      BY <1>1, <2>2, <3>1, EntryType
    <3>3. Block.entries \in Seq(DeltaEntry)
      BY <2>2, <3>2, EntryType DEF Block
    <3>4. Len(Block.entries) \in Nat /\ 1 .. (1 - 1) = {} /\ 1 - 1 = 0
      BY <3>3
    <3>5. out = EntryStages(Block.entries, BlockStages[i - 1])[0]
      BY <3>1, <3>3, EntryStage
    <3>6. Block' = Block /\ UNCHANGED <<BlockStages, Images>>
      BY <1>1, SameFiles DEF Block
    <3>7. EntryStages(Block.entries, BlockStages[i - 1])'
            = EntryStages(Block.entries, BlockStages[i - 1])
      BY <1>1, <3>6 DEF EntryStages, EntrySteps
    <3>8. EntriesApplied'
      BY <1>1, <2>1, <3>4, <3>5, <3>6, <3>7 DEF EntriesApplied
    <3> QED
      BY <1>1, <2>1, <3>1, <3>6, <3>8 DEF BlocksApplied
  <2>4. Ordinary' => Contents'
    BY <1>1, <2>1, <2>3, SameFiles DEF Contents
  <2> QED
    BY <1>1, <2>1, <2>2, <2>4 DEF PatchInv, PatchThenLoad
<1> QED
  BY <1>2, <1>3

LEMMA EntryPatch ==
  ASSUME UnpackInv, BufferInv, PatchInv, ApplyEntry
  PROVE  PatchInv'
<1> DEFINE e == Block.entries[j]
<1>1. /\ UNCHANGED <<base, patch, i, disk, late>> /\ phase = "delta"
      /\ i <= Len(patch.blocks) /\ j \in 1 .. Len(Block.entries) /\ ~IsEnd(e)
  BY DEF ApplyEntry
<1>2. CASE phase' = "done"
  BY <1>1, <1>2, EndsWithoutFile
<1>3. CASE phase' # "done"
  <2>1. /\ phase' = "delta" /\ j' = j + 1 /\ out' \in Patched(out, e)
        /\ e.op = "lzx" => ~(2 * Len(e.words) < e.n)
    BY <1>1, <1>3 DEF ApplyEntry, Return, Overrun
  <2>2. disk = NoFile /\ ~late /\ base \in Bases /\ patch \in Patches /\ Size \in Nat
    BY <1>1, Types DEF PatchInv, UnpackInv
  <2>3. ASSUME Ordinary PROVE BlocksApplied'
    <3>1. /\ i \in 1 .. (Len(patch.blocks) + 1) /\ EntriesApplied
          /\ out \in Images /\ BlockStages[i - 1] \in Images
      BY <1>1, <2>3 DEF PatchInv, Contents, BlocksApplied
    <3>2. i \in 1 .. Len(patch.blocks) /\ Len(patch.blocks) \in Nat
      BY <1>1, <2>2, <3>1, EntryType
    <3>3. Block.entries \in Seq(DeltaEntry)
      BY <2>2, <3>2, EntryType DEF Block
    <3>4. e \in DeltaEntry /\ Len(Block.entries) \in Nat
      BY <1>1, <3>3, Element
    <3>5. Apart(e) /\ Reach(e) <= Size
      <4>1. Apart(e) /\ ~Strays(e)
        BY <1>1, <2>3, <3>2 DEF Ordinary, Agree, PatchAgrees, Block
      <4> HIDE DEF e
      <4> QED
        BY <2>2, <3>4, <4>1, NotStraying
    <3> DEFINE list == EntryStages(Block.entries, BlockStages[i - 1])
    <3>6. out = list[j - 1] /\ \A k \in 1 .. (j - 1) : ~IsEnd(Block.entries[k])
      BY <3>1 DEF EntriesApplied
    <3>7. out' = One(out, e) /\ out' \in Images
      <4> HIDE DEF e
      <4> QED
        BY <2>1, <2>2, <3>1, <3>4, <3>5, OnePatched
    <3>8. out' = list[j]
      BY <1>1, <3>1, <3>3, <3>6, <3>7, EntryStage
    <3>9. Block' = Block /\ UNCHANGED <<BlockStages, Images>>
      BY <1>1, SameFiles DEF Block
    <3>10. list' = list
      BY <1>1, <3>9 DEF EntryStages, EntrySteps
    <3>11. /\ j' - 1 = j /\ j' \in 1 .. (Len(Block.entries) + 1) /\ j' # 0
           /\ \A k \in 1 .. j : ~IsEnd(Block.entries[k])
      <4>1. j' - 1 = j /\ j' \in 1 .. (Len(Block.entries) + 1) /\ j' # 0
        BY <1>1, <2>1, <3>4
      <4>2. ASSUME NEW k \in 1 .. j PROVE ~IsEnd(Block.entries[k])
        <5>1. k = j \/ k \in 1 .. (j - 1)
          BY <1>1, <3>4
        <5> QED
          BY <1>1, <3>6, <5>1
      <4> QED
        BY <4>1, <4>2
    <3> HIDE DEF list
    <3>12. EntriesApplied'
      BY <1>1, <3>8, <3>9, <3>10, <3>11 DEF EntriesApplied, list
    <3> QED
      BY <1>1, <3>1, <3>7, <3>9, <3>11, <3>12 DEF BlocksApplied
  <2>4. Ordinary' => Contents'
    BY <1>1, <2>1, <2>3, SameFiles DEF Contents
  <2> QED
    BY <1>1, <2>1, <2>2, <2>4 DEF PatchInv, PatchThenLoad
<1> QED
  BY <1>2, <1>3

LEMMA EndBlockPatch ==
  ASSUME UnpackInv, PatchInv, EndBlock
  PROVE  PatchInv'
<1>1. /\ UNCHANGED <<base, patch, out, disk, late>> /\ phase = "delta" /\ phase' = "delta"
      /\ i <= Len(patch.blocks) /\ j > 0 /\ i' = i + 1 /\ j' = 0
      /\ j <= Len(Block.entries) => IsEnd(Block.entries[j])
  BY DEF EndBlock
<1>2. disk = NoFile /\ ~late /\ patch \in Patches
  BY <1>1 DEF PatchInv, UnpackInv
<1>3. ASSUME Ordinary PROVE BlocksApplied'
  <2>1. /\ i \in 1 .. (Len(patch.blocks) + 1) /\ EntriesApplied
        /\ out \in Images /\ BlockStages[i - 1] \in Images
    BY <1>1, <1>3 DEF PatchInv, Contents, BlocksApplied
  <2>2. i \in 1 .. Len(patch.blocks) /\ Len(patch.blocks) \in Nat
    BY <1>1, <1>2, <2>1, EntryType
  <2>3. Len(Block.entries) \in Nat
    BY <1>2, <2>2, EntryType DEF Block
  <2>4. /\ j - 1 \in 0 .. Len(Block.entries) /\ (j - 1) + 1 = j
        /\ j - 1 < Len(Block.entries) => j <= Len(Block.entries)
    BY <2>1, <2>3 DEF EntriesApplied
  <2>5. Effective(Block.entries) = j - 1
    BY <1>1, <2>1, <2>3, <2>4, EffectiveIs DEF EntriesApplied
  <2>6. out = BlockStages[i]
    BY <1>2, <2>1, <2>2, <2>5, BlockStage DEF EntriesApplied, Block
  <2>7. i' \in 1 .. (Len(patch.blocks) + 1) /\ i' - 1 = i
    BY <1>1, <2>2
  <2> QED
    BY <1>1, <2>1, <2>6, <2>7, SameFiles DEF BlocksApplied
<1>4. Ordinary' => Contents'
  BY <1>1, <1>3, SameFiles DEF Contents
<1> QED
  BY <1>1, <1>2, <1>4 DEF PatchInv, PatchThenLoad

LEMMA AppliedPatch ==
  ASSUME UnpackInv, PatchInv, Applied
  PROVE  PatchInv'
<1>1. /\ UNCHANGED <<base, patch, out, disk, late>>
      /\ phase = "delta" /\ phase' = "write" /\ i > Len(patch.blocks)
  BY DEF Applied, Return
<1>2. disk = NoFile /\ ~late /\ patch \in Patches
  BY <1>1 DEF PatchInv, UnpackInv
<1>3. ASSUME Ordinary PROVE out = Expected /\ out \in Images
  <2>1. BlocksApplied
    BY <1>1, <1>3 DEF PatchInv, Contents
  <2>2. Len(patch.blocks) \in Nat
    BY <1>2, EntryType
  <2>3. i - 1 = Len(patch.blocks) /\ ~(i <= Len(patch.blocks))
    BY <1>1, <2>1, <2>2 DEF BlocksApplied
  <2> QED
    BY <2>1, <2>3 DEF BlocksApplied, EntriesApplied, Expected
<1>4. Ordinary' => Contents'
  BY <1>1, <1>3, SameFiles DEF Contents
<1> QED
  BY <1>1, <1>2, <1>4 DEF PatchInv, PatchThenLoad

LEMMA FilePatch ==
  ASSUME UnpackInv, PatchInv, WriteFile \/ CloseFails \/ LoadFile
  PROVE  PatchInv'
<1>1. UNCHANGED <<base, patch>>
  BY DEF WriteFile, CloseFails, LoadFile
<1>2. CASE WriteFile
  <2>1. /\ phase = "write" /\ phase' = "load" /\ UNCHANGED late /\ disk' = NewFile(out)
    BY <1>2 DEF WriteFile
  <2>2. Ordinary => out = Expected /\ out \in Images
    BY <2>1 DEF PatchInv, Contents
  <2>3. NewFile(Expected)' = NewFile(Expected)
    BY <1>1, SameFiles DEF NewFile
  <2>4. Ordinary' => disk' = NewFile(Expected)' /\ (Expected \in Images)'
    <3>1. Ordinary' = Ordinary /\ Expected' = Expected /\ Images' = Images
      BY <1>1, SameFiles
    <3>2. Ordinary => disk' = NewFile(Expected)
      BY <2>1, <2>2, Zenon
    <3>3. (Expected \in Images)' = (Expected \in Images)
      BY <3>1
    <3> QED
      BY <2>2, <2>3, <3>1, <3>2, <3>3
  <2>5. Ordinary' => Contents'
    BY <2>1, <2>4 DEF Contents
  <2> QED
    BY <2>1, <2>5 DEF PatchInv, PatchThenLoad
<1>3. CASE CloseFails
  <2>1. phase' = "load" /\ late'
    BY <1>3 DEF CloseFails
  <2> QED
    BY <2>1 DEF PatchInv, PatchThenLoad, Contents
<1>4. CASE LoadFile
  <2>1. /\ phase = "load" /\ phase' = "done" /\ UNCHANGED <<late, disk>>
        /\ image' = Slice(Decrypted(disk.words, disk.enc), 0, disk.imageSize)
    BY <1>4 DEF LoadFile
  <2>2. ASSUME Ordinary, ~late PROVE image' = Expected
    <3>1. disk = NewFile(Expected) /\ Expected \in Images
      BY <2>1, <2>2 DEF PatchInv, Contents
    <3>2. image' = Slice(Expected, 0, Size)
      BY <2>1, <3>1 DEF NewFile, Decrypted
    <3>3. \A k \in 1 .. Size : 0 + k = k
      OBVIOUS
    <3>4. Expected = [k \in 1 .. Size |-> Expected[k]]
      BY <3>1 DEF Images
    <3>5. DOMAIN Expected = 1 .. Size
      BY <3>1 DEF Images
    <3> QED
      BY <3>2, <3>3, <3>4, <3>5 DEF Slice
  <2>3. PatchThenLoad'
    BY <1>1, <2>1, <2>2, SameFiles DEF PatchThenLoad
  <2> QED
    BY <2>1, <2>3 DEF PatchInv, Contents
<1> QED
  BY <1>2, <1>3, <1>4

LEMMA PatchStep ==
  ASSUME UnpackInv, BufferInv, PatchInv, [XexNext]_xexVars
  PROVE  PatchInv'
<1>1. CASE UNCHANGED xexVars
  <2>1. /\ UNCHANGED <<base, patch, phase, out, src, i, j, stream, disk, image, late>>
    BY <1>1 DEF xexVars, cursors
  <2>3. Block' = Block /\ UNCHANGED <<BlockStages, Images>>
    BY <2>1, SameFiles DEF Block
  <2>4. EntryStages(Block.entries, BlockStages[i - 1])'
          = EntryStages(Block.entries, BlockStages[i - 1])
    BY <2>1, <2>3 DEF EntryStages, EntrySteps
  <2>5. ChainRead' = ChainRead /\ EntriesApplied' = EntriesApplied
    BY <2>1, <2>3, <2>4, SameBase DEF ChainRead, EntriesApplied
  <2>6. BlocksApplied' = BlocksApplied
    BY <2>1, <2>3, <2>5 DEF BlocksApplied
  <2>7. NewFile(Expected)' = NewFile(Expected)
    BY <2>1, SameFiles DEF NewFile
  <2>8. Contents' = Contents
    BY <2>1, <2>5, <2>6, <2>7, SameFiles, SameBase DEF Contents
  <2> QED
    BY <2>1, <2>8, SameFiles DEF PatchInv, PatchThenLoad
<1>2. CASE XexNext
  BY <1>2, FirstPatch, DecryptPatch, SumDonePatch, UnpackPatch, UnpackDonePatch, ChainPatch,
     ExpandPatch, HeaderPatch, CheckPatch, EntryPatch, EndBlockPatch, AppliedPatch, FilePatch
    DEF XexNext, Apply
<1> QED
  BY <1>1, <1>2

(* XexPatcher::apply, which decrypts, decompresses and patches in one      *)
(* buffer, and Xex2LoadImage on the file it writes give the image that the *)
(* patch makes of the base's image, for executables of every format and    *)
(* size and patches with any number of blocks and entries.                 *)
THEOREM PatchedFileLoads == XexSpec => []PatchThenLoad
<1>1. XexInit => UnpackInv /\ BufferInv /\ PatchInv
  <2>1. XexInit => UnpackInv
    BY UnpackInit
  <2>2. XexInit => BufferInv
    BY DEF XexInit, BufferInv, StaysInside
  <2>3. XexInit => PatchInv
    BY DEF XexInit, PatchInv, PatchThenLoad, Contents
  <2> QED
    BY <2>1, <2>2, <2>3
<1>2. UnpackInv /\ BufferInv /\ PatchInv /\ [XexNext]_xexVars
        => UnpackInv' /\ BufferInv' /\ PatchInv'
  BY UnpackStep, BufferStep, PatchStep
<1>3. PatchInv => PatchThenLoad
  BY DEF PatchInv
<1> QED
  BY <1>1, <1>2, <1>3, PTL DEF XexSpec

-----------------------------------------------------------------------------
(* The tools one after the other *)

(* The search for tables, the translation and its run change neither the   *)
(* buffers nor the image that was loaded.                                  *)
LEMMA TranslateLeavesFile ==
  ASSUME Translate
  PROVE  UNCHANGED xexVars
<1>1. UNCHANGED fileVars
  BY DEF Translate
<1>2. image' = image
  <2>1. CASE Switches!Start({BaseImage(base), image} \ {<<>>})
    BY <2>1 DEF Switches!Start
  <2>2. CASE Switches!Analyse
    BY <2>2 DEF Switches!Analyse, Switches!Find, Switches!NextSection, Switches!NextPattern,
                Switches!WriteTables
  <2>3. CASE Switches!PrintLine \/ Switches!Call
    BY <2>3 DEF Switches!PrintLine, Switches!Call
  <2>4. CASE Switches!Execute
    BY <2>4 DEF Switches!Execute, Switches!Compute, Switches!Compare, Switches!Branch,
                Switches!MoveToCtr, Switches!Pass, Switches!ReturnToCaller, Switches!Switch,
                Switches!CallIndirect
  <2> QED
    BY <2>1, <2>2, <2>3, <2>4 DEF Translate, Switches!SwitchNext
<1> QED
  BY <1>1, <1>2 DEF fileVars, xexVars, cursors

(* To the patcher and the loader, the tools that work on the image they    *)
(* made are not there: the toolchain implements XexSpec.                   *)
THEOREM ToolchainLoads == ToolSpec => XexSpec
<1>1. ToolInit => XexInit
  BY DEF ToolInit
<1>2. [ToolNext]_toolVars => [XexNext]_xexVars
  <2>1. CASE Prepare
    BY <2>1 DEF Prepare
  <2>2. CASE Translate
    BY <2>2, TranslateLeavesFile
  <2>3. CASE UNCHANGED toolVars
    BY <2>3 DEF toolVars
  <2> QED
    BY <2>1, <2>2, <2>3 DEF ToolNext
<1> QED
  BY <1>1, <1>2, PTL DEF ToolSpec, XexSpec

(* While XexPatcher::apply moves the blocks of an executable apart in      *)
(* place (xex_patcher.cpp:394), those still to be moved are as they were   *)
(* in the file, with the other tools at work as well.                      *)
THEOREM ToolchainUnpacks == ToolSpec => []UnpackInPlace
BY ToolchainLoads, UnpackedInPlace, PTL

(* Nor do apply and Xex2LoadImage leave their buffers in the toolchain.    *)
THEOREM ToolchainKeepsBuffers == ToolSpec => []StaysInside
BY ToolchainLoads, BuffersKept, PTL

(* And the image in which XenonAnalyse looks for tables and which          *)
(* XenonRecomp translates (recompiler.cpp:31 and 92) is the base's image   *)
(* with the patch applied.                                                 *)
THEOREM ToolchainPatches == ToolSpec => []PatchThenLoad
BY ToolchainLoads, PatchedFileLoads, PTL

-----------------------------------------------------------------------------
(* The printed switches, for code as the compiler writes it                *)

Insn(k) == Switches!Insn(image, k)

(* Pattern t is found at word k, behind a comparison and a branch.         *)
Match(t, k) ==
  /\ t \in DOMAIN Switches!Pattern /\ k \in DOMAIN analysed /\ k \in Int
  /\ Switches!Fits(t, k) /\ Switches!Compares(k) # {}

(* The branch and the comparison that ScanTable finds.                     *)
GuardOf(k) == k - Switches!Min(Switches!Branches(k))
CompareOf(k) == k - Switches!Min(Switches!Compares(k))

(* Min of a set of natural numbers.                                        *)
LEMMA MinIs ==
  ASSUME NEW S, S \subseteq Nat, S # {}
  PROVE  Switches!Min(S) \in S /\ \A x \in S : Switches!Min(S) <= x
<1>1. \E x \in S : \A y \in S : x <= y
  BY LeastNatural
<1> QED
  BY <1>1 DEF Switches!Min

(* The branch is the nearest before the pattern, the comparison the        *)
(* nearest before the branch for its field.                                *)
LEMMA Where ==
  ASSUME NEW t, NEW k, Match(t, k)
  PROVE  /\ CompareOf(k) \in Int /\ GuardOf(k) \in Int
         /\ CompareOf(k) < GuardOf(k) /\ GuardOf(k) <= k
         /\ LET Ins(m) == Switches!Insn(analysed, m)
                g == GuardOf(k)
                c == CompareOf(k)
            IN  /\ Ins(g).op \in Switches!Guards
                /\ Ins(c).op = "cmplwi" /\ Ins(c).d = Ins(g).d /\ Ins(c) = Switches!Comparison(k)
                /\ \A m \in (g + 1) .. k : Ins(m).op \notin Switches!Guards
                /\ \A m \in (c + 1) .. (g - 1) : Ins(m).op = "cmplwi" => Ins(m).d # Ins(g).d
<1> DEFINE B == Switches!Branches(k)
           C == Switches!Compares(k)
           Ins(m) == Switches!Insn(analysed, m)
<1>1. k \in Int /\ C # {} /\ B # {} /\ Back \in Nat
  BY ScanAssumption DEF Match, Switches!Compares
<1>2. B \subseteq Nat /\ C \subseteq Nat
  BY DEF Switches!Branches, Switches!Compares
<1>3. PICK b \in Nat : b = Switches!Min(B) /\ b \in B /\ \A x \in B : b <= x
  <2> HIDE DEF B
  <2> QED
    BY <1>1, <1>2, MinIs
<1>4. PICK a \in Nat : a = Switches!Min(C) /\ a \in C /\ \A x \in C : a <= x
  <2> HIDE DEF C
  <2> QED
    BY <1>1, <1>2, MinIs
<1>5. b <= Back - 1 /\ Ins(k - b).op \in Switches!Guards
  BY <1>1, <1>3 DEF Switches!Branches
<1>6. a <= Back - 1 /\ a > b /\ Ins(k - a).op = "cmplwi" /\ Ins(k - a).d = Ins(k - b).d
  BY <1>1, <1>3, <1>4 DEF Switches!Compares
<1>7. GuardOf(k) = k - b /\ CompareOf(k) = k - a /\ Ins(k - a) = Switches!Comparison(k)
  BY <1>1, <1>3, <1>4 DEF GuardOf, CompareOf, Switches!Comparison
<1>8. ASSUME NEW m \in (k - b + 1) .. k PROVE Ins(m).op \notin Switches!Guards
  <2>1. k - m \in 0 .. (Back - 1) /\ k - m < b /\ k - (k - m) = m
    BY <1>1, <1>5
  <2>2. k - m \notin B
    BY <1>3, <2>1
  <2> QED
    BY <2>1, <2>2 DEF Switches!Branches
<1>9. ASSUME NEW m \in (k - a + 1) .. (k - b - 1), Ins(m).op = "cmplwi" PROVE Ins(m).d # Ins(k - b).d
  <2>1. k - m \in 0 .. (Back - 1) /\ k - m < a /\ k - m > b /\ k - (k - m) = m
    BY <1>1, <1>6
  <2>2. k - m \notin C
    BY <1>4, <2>1
  <2> QED
    BY <1>1, <1>3, <1>9, <2>1, <2>2 DEF Switches!Compares
<1> HIDE DEF B, C
<1> QED
  BY <1>1, <1>5, <1>6, <1>7, <1>8, <1>9

(* What ReadTable makes, and what is entered by hand.                      *)
FoundTables == {Switches!Table(s[1], s[2]) : s \in {s \in (1 .. 4) \X Int : Match(s[1], s[2])}}

HandTables == [base : Int, r : Switches!Register, labels : Seq(Int)]

(* What is entered by hand is behind what is found.                        *)
Manual == Layout(image).manual

Fixed == UNCHANGED <<image, analysed>>

(* The file of tables, from the scan on: every entry that was not made by  *)
(* hand is one that ReadTable makes where a pattern is.                    *)
TablesInv ==
  /\ phase # "done" => stage = "wait"
  /\ stage = "wait" => tables = <<>> /\ type = 1 /\ section = 1
  /\ stage \in {"wait", "scan"} => armed = 0
  /\ stage = "scan" /\ Switches!TypedLayout =>
       /\ type \in 1 .. 4 /\ section \in Nat \ {0}
       /\ section <= Len(Switches!Sections) => data \in Int
       /\ tables \in Seq(FoundTables)
  /\ stage \in {"print", "run", "done"} /\ Switches!TypedLayout =>
       /\ tables \in Seq(FoundTables \cup HandTables)
       /\ Switches!Found \in Nat
       /\ \A n \in 1 .. Switches!Found : tables[n] \in FoundTables

LEMMA SameTables ==
  ASSUME Fixed
  PROVE  /\ FoundTables' = FoundTables /\ Switches!TypedLayout' = Switches!TypedLayout
         /\ Switches!Sections' = Switches!Sections /\ Manual' = Manual
BY DEF Fixed, FoundTables, Match, Switches!Fits, Switches!Compares, Switches!Branches,
       Switches!Table, Switches!Comparison, Switches!Label, Switches!Constant, Manual,
       Switches!TypedLayout, Switches!Sections, Switches!Function

LEMMA XexRuns == XexNext => phase # "done"
BY DEF XexNext, Apply, Validate, InputMissing, CopyBase, DecryptBase, SumBlock, SumDone,
       UnpackBlock, UnpackDone, ChainBlock, ExpandChain, PatchHeader, CheckBlock, ApplyEntry,
       EndBlock, Applied, WriteFile, WriteFails, CloseFails, LoadFile

(* Min of a set of integers with a bound, as the hits of SearchMask are.   *)
LEMMA MinOfRange ==
  ASSUME NEW S, NEW lo \in Int, \A x \in S : x \in Int /\ lo <= x, S # {}
  PROVE  Switches!Min(S) \in S /\ \A x \in S : Switches!Min(S) <= x
<1> DEFINE T == {x - lo : x \in S}
<1>1. T \subseteq Nat /\ T # {}
  OBVIOUS
<1>2. PICK y \in T : \A z \in T : y <= z
  <2> HIDE DEF T
  <2> QED
    BY <1>1, LeastNatural
<1>3. PICK x \in S : y = x - lo
  BY <1>2
<1>4. \A z \in S : x <= z
  <2> SUFFICES ASSUME NEW z \in S PROVE x <= z
    OBVIOUS
  <2>1. z - lo \in T
    OBVIOUS
  <2> QED
    BY <1>2, <1>3, <2>1
<1>5. \E w \in S : \A z \in S : w <= z
  BY <1>4
<1> QED
  BY <1>5 DEF Switches!Min

LEMMA PatternIs ==
  /\ DOMAIN Switches!Pattern = 1 .. 4
  /\ Len(Switches!Pattern) = 4
  /\ \A t \in 1 .. 4 : 1 \in DOMAIN Switches!Pattern[t] /\ Switches!Pattern[t][1] = "lis"
BY DEF Switches!Pattern

(* scanPattern adds what ReadTable makes at a hit.                         *)
LEMMA FindTables ==
  ASSUME TablesInv, Switches!Find, Switches!TypedLayout
  PROVE  tables' \in Seq(FoundTables)
<1> DEFINE hits == Switches!Matches(type, data, Switches!Sections[section].last)
           k == Switches!Min(hits)
<1>1. /\ type \in 1 .. 4 /\ section \in Nat \ {0} /\ data \in Int
      /\ tables \in Seq(FoundTables)
      /\ hits # {}
      /\ tables' = IF Switches!Comparison(k) = Switches!Nothing THEN tables
                   ELSE Append(tables, Switches!Table(type, k))
  BY DEF TablesInv, Switches!Find
<1>2. CASE Switches!Comparison(k) = Switches!Nothing
  <2> HIDE DEF k
  <2> QED
    BY <1>1, <1>2
<1>3. CASE Switches!Comparison(k) # Switches!Nothing
  <2>1. \A x \in hits : x \in Int /\ data <= x /\ Switches!Fits(type, x)
    BY <1>1 DEF Switches!Matches
  <2>2. k \in hits
    <3> HIDE DEF hits
    <3> QED
      BY <1>1, <2>1, MinOfRange
  <2> HIDE DEF hits, k
  <2>3. k \in Int /\ Switches!Fits(type, k) /\ Switches!Compares(k) # {}
    BY <1>3, <2>1, <2>2 DEF Switches!Comparison
  <2>4. Switches!Insn(analysed, k).op = "lis"
    <3>1. Switches!Insn(analysed, k + 1 - 1).op = "lis"
      BY <1>1, <2>3, PatternIs DEF Switches!Fits
    <3>2. k + 1 - 1 = k
      BY <2>3
    <3> QED
      BY <3>1, <3>2
  <2>5. k \in DOMAIN analysed
    BY <2>4 DEF Switches!Insn, Switches!Nothing
  <2>6. Match(type, k)
    BY <1>1, <2>3, <2>5, PatternIs DEF Match
  <2>7. Switches!Table(type, k) \in FoundTables
    <3>1. <<type, k>> \in {s \in (1 .. 4) \X Int : Match(s[1], s[2])}
      BY <1>1, <2>3, <2>6
    <3>2. \A s \in {s \in (1 .. 4) \X Int : Match(s[1], s[2])} : Switches!Table(s[1], s[2]) \in FoundTables
      BY DEF FoundTables
    <3> QED
      BY <3>1, <3>2
  <2>8. tables' = Append(tables, Switches!Table(type, k))
    BY <1>1, <1>3
  <2> QED
    BY <1>1, <2>7, <2>8, AppendProperties
<1> QED
  BY <1>2, <1>3

LEMMA Members ==
  ASSUME NEW S, NEW q \in Seq(S)
  PROVE  Len(q) \in Nat /\ \A n \in 1 .. Len(q) : q[n] \in S
OBVIOUS

LEMMA TablesInit == ToolInit => TablesInv
BY DEF ToolInit, XexInit, Switches!SwitchInit, TablesInv

(* Entries made by hand come last.                                         *)
LEMMA WriteTablesMakes ==
  ASSUME TablesInv, Switches!WriteTables, Switches!TypedLayout
  PROVE  /\ tables' \in Seq(FoundTables \cup HandTables)
         /\ Len(tables') - Len(Manual) \in Nat
         /\ \A n \in 1 .. (Len(tables') - Len(Manual)) : tables'[n] \in FoundTables
<1>1. /\ tables \in Seq(FoundTables) /\ tables' = tables \o Manual /\ Manual \in Seq(HandTables)
  BY DEF TablesInv, Switches!WriteTables, Manual, Switches!TypedLayout, HandTables
<1> DEFINE S == FoundTables
           H == HandTables
           s == tables
           m == Manual
<1> HIDE DEF S, H, s, m
<1>2. s \in Seq(S) /\ m \in Seq(H) /\ tables' = s \o m
  BY <1>1 DEF S, H, s, m
<1>3. s \in Seq(S \cup H) /\ m \in Seq(S \cup H)
  BY <1>2
<1>4. /\ s \o m \in Seq(S \cup H) /\ Len(s \o m) = Len(s) + Len(m)
      /\ \A n \in 1 .. Len(s) : (s \o m)[n] = s[n]
  BY <1>3, ConcatProperties
<1>5. Len(s) \in Nat /\ Len(m) \in Nat /\ \A n \in 1 .. Len(s) : s[n] \in S
  BY <1>2
<1>6. Len(s \o m) - Len(m) = Len(s)
  BY <1>4, <1>5
<1>7. /\ tables' \in Seq(S \cup H) /\ Len(tables') - Len(m) \in Nat
      /\ \A n \in 1 .. (Len(tables') - Len(m)) : tables'[n] \in S
  BY <1>2, <1>4, <1>5, <1>6
<1> QED
  BY <1>7 DEF S, H, m

LEMMA ScanTables ==
  ASSUME TablesInv, stage = "scan", Switches!Analyse, phase = "done", UNCHANGED phase
  PROVE  TablesInv'
<1>1. Fixed /\ armed = 0 /\ UNCHANGED armed
  BY DEF Switches!Analyse, Switches!Find, Switches!NextSection, Switches!NextPattern,
         Switches!WriteTables, Switches!printVars, Fixed, TablesInv
<1>2. /\ FoundTables' = FoundTables /\ Switches!TypedLayout' = Switches!TypedLayout
      /\ Switches!Sections' = Switches!Sections /\ Manual' = Manual
  BY <1>1, SameTables
<1>3. Switches!TypedLayout =>
        /\ type \in 1 .. 4 /\ section \in Nat \ {0}
        /\ section <= Len(Switches!Sections) => data \in Int
        /\ tables \in Seq(FoundTables)
        /\ Switches!Sections \in Seq([first : Int, last : Int, code : BOOLEAN])
  BY DEF TablesInv, Switches!TypedLayout
<1>4. Switches!TypedLayout =>
        /\ \A s \in 1 .. Len(Switches!Sections) : Switches!Sections[s].first \in Int
        /\ Len(Switches!Sections) \in Nat
        /\ Len(Switches!Sections) >= 1 => Switches!FirstWord \in Int
  <2>1. ASSUME NEW q, q \in Seq([first : Int, last : Int, code : BOOLEAN])
        PROVE  /\ Len(q) \in Nat /\ \A s \in 1 .. Len(q) : q[s].first \in Int
               /\ Len(q) >= 1 => (IF q = <<>> THEN 0 ELSE q[1].first) \in Int
    <3>1. Len(q) \in Nat /\ \A s \in 1 .. Len(q) : q[s] \in [first : Int, last : Int, code : BOOLEAN]
      BY <2>1, Members, Zenon
    <3> QED
      BY <3>1
  <2> QED
    BY <1>3, <2>1 DEF Switches!FirstWord
<1>5. CASE Switches!Find
  <2>1. /\ stage' = "scan" /\ UNCHANGED <<type, section>>
        /\ data' = Switches!Min(Switches!Matches(type, data, Switches!Sections[section].last)) + 1
        /\ Switches!Matches(type, data, Switches!Sections[section].last) # {}
        /\ section <= Len(Switches!Sections)
    BY <1>5 DEF Switches!Find
  <2>2. Switches!TypedLayout => tables' \in Seq(FoundTables)
    BY <1>5, FindTables
  <2>3. Switches!TypedLayout => data' \in Int
    <3> SUFFICES ASSUME Switches!TypedLayout PROVE data' \in Int
      OBVIOUS
    <3> DEFINE S == Switches!Matches(type, data, Switches!Sections[section].last)
    <3>1. data \in Int /\ \A x \in S : x \in Int /\ data <= x
      BY <1>3, <2>1 DEF Switches!Matches
    <3>2. Switches!Min(S) \in S
      <4> HIDE DEF S
      <4>1. S # {}
        BY <2>1 DEF S
      <4> QED
        BY <3>1, <4>1, MinOfRange
    <3> HIDE DEF S
    <3>3. data' = Switches!Min(S) + 1
      BY <2>1 DEF S
    <3> QED
      BY <3>1, <3>2, <3>3
  <2> QED
    BY <1>1, <1>2, <1>3, <2>1, <2>2, <2>3 DEF TablesInv
<1>6. CASE Switches!NextSection
  <2>1. /\ stage' = "scan" /\ UNCHANGED <<type, tables>> /\ section' = section + 1
        /\ data' = IF section < Len(Switches!Sections) THEN Switches!Sections[section + 1].first ELSE 0
    BY <1>6 DEF Switches!NextSection
  <2>2. Switches!TypedLayout => data' \in Int /\ section' \in Nat \ {0}
    BY <1>3, <1>4, <2>1
  <2> QED
    BY <1>1, <1>2, <1>3, <2>1, <2>2 DEF TablesInv
<1>7. CASE Switches!NextPattern
  <2>1. /\ stage' = "scan" /\ UNCHANGED tables /\ section' = 1 /\ type' = type + 1 /\ type < 4
        /\ data' = Switches!FirstWord
    BY <1>7, PatternIs DEF Switches!NextPattern
  <2>2. Switches!TypedLayout => type' \in 1 .. 4
    BY <1>3, <2>1
  <2> QED
    BY <1>1, <1>2, <1>3, <1>4, <2>1, <2>2 DEF TablesInv
<1>8. CASE Switches!WriteTables
  <2>1. stage' = "print"
    BY <1>8 DEF Switches!WriteTables
  <2>2. Switches!TypedLayout =>
         /\ tables' \in Seq(FoundTables \cup HandTables)
         /\ Len(tables') - Len(Manual) \in Nat
         /\ \A n \in 1 .. (Len(tables') - Len(Manual)) : tables'[n] \in FoundTables
    BY <1>8, WriteTablesMakes
  <2>3. HandTables' = HandTables /\ Switches!Found' = Len(tables') - Len(Manual)
    BY <1>2 DEF HandTables, Switches!Found, Manual
  <2> QED
    BY <1>1, <1>2, <2>1, <2>2, <2>3 DEF TablesInv
<1> QED
  BY <1>5, <1>6, <1>7, <1>8 DEF Switches!Analyse

(* The file is not written again.                                          *)
LEMMA LaterTables ==
  ASSUME TablesInv, stage \in {"print", "run"}, Switches!PrintLine \/ Switches!Call \/ Switches!Execute,
         phase = "done", UNCHANGED phase
  PROVE  TablesInv' /\ Fixed /\ UNCHANGED tables /\ stage' \in {"print", "run", "done"}
<1>1. Fixed /\ UNCHANGED tables /\ stage' \in {"print", "run", "done"}
  <2>1. CASE Switches!PrintLine \/ Switches!Call
    BY <2>1 DEF Switches!PrintLine, Switches!Call, Switches!scanVars, Fixed
  <2>2. CASE Switches!Compute \/ Switches!Compare \/ Switches!MoveToCtr
    BY <2>2 DEF Switches!Compute, Switches!Compare, Switches!MoveToCtr, Switches!scanVars, Fixed
  <2>3. CASE Switches!Branch \/ Switches!Pass \/ Switches!ReturnToCaller \/ Switches!Switch \/ Switches!CallIndirect
    BY <2>3 DEF Switches!Branch, Switches!Pass, Switches!ReturnToCaller, Switches!Switch,
         Switches!CallIndirect, Switches!scanVars, Fixed, Switches!Go, Switches!Return
  <2> QED
    BY <2>1, <2>2, <2>3 DEF Switches!Execute
<1>2. /\ FoundTables' = FoundTables /\ Switches!TypedLayout' = Switches!TypedLayout
      /\ Manual' = Manual /\ HandTables' = HandTables /\ Switches!Found' = Switches!Found
  BY <1>1, SameTables DEF HandTables, Switches!Found, Manual
<1> QED
  BY <1>1, <1>2 DEF TablesInv

LEMMA TablesNext == TablesInv /\ [ToolNext]_toolVars => TablesInv'
<1> SUFFICES ASSUME TablesInv, [ToolNext]_toolVars PROVE TablesInv'
  OBVIOUS
<1>1. CASE UNCHANGED toolVars
  <2>1. Fixed /\ UNCHANGED <<phase, stage, type, section, data, tables, armed>>
    BY <1>1 DEF toolVars, xexVars, switchVars, Fixed
  <2>2. /\ FoundTables' = FoundTables /\ Switches!TypedLayout' = Switches!TypedLayout
        /\ Switches!Sections' = Switches!Sections
        /\ Manual' = Manual /\ HandTables' = HandTables /\ Switches!Found' = Switches!Found
    BY <2>1, SameTables DEF HandTables, Switches!Found, Manual
  <2> QED
    BY <2>1, <2>2 DEF TablesInv
<1>2. CASE Prepare
  <2>1. stage = "wait" /\ UNCHANGED <<stage, tables, type, section, armed>>
    BY <1>2, XexRuns DEF TablesInv, Prepare, switchVars
  <2> QED
    BY <2>1 DEF TablesInv
<1>3. CASE Translate
  <2>1. phase = "done" /\ UNCHANGED phase
    BY <1>3 DEF Translate, fileVars
  <2>2. CASE Switches!Start({BaseImage(base), image} \ {<<>>})
    <3>1. /\ stage = "wait" /\ stage' = "scan" /\ UNCHANGED <<type, section, tables, armed>>
          /\ data' = Layout(analysed').sections[1].first
      BY <2>2 DEF Switches!Start, Switches!printVars
    <3>2. tables = <<>> /\ type = 1 /\ section = 1 /\ armed = 0
      BY <3>1 DEF TablesInv
    <3>3. Switches!TypedLayout' => (1 <= Len(Switches!Sections') => data' \in Int)
      <4>1. ASSUME NEW q, q \in Seq([first : Int, last : Int, code : BOOLEAN]), 1 <= Len(q)
            PROVE  q[1].first \in Int
        <5>1. Len(q) \in Nat /\ \A s \in 1 .. Len(q) : q[s] \in [first : Int, last : Int, code : BOOLEAN]
          BY <4>1, Members, Zenon
        <5> QED
          BY <4>1, <5>1
      <4>2. Switches!Sections' = Layout(analysed').sections
        BY DEF Switches!Sections
      <4> QED
        BY <3>1, <4>1, <4>2 DEF Switches!TypedLayout
    <3> QED
      BY <2>1, <3>1, <3>2, <3>3 DEF TablesInv
  <2>3. CASE Switches!Analyse
    <3>1. stage = "scan"
      BY <2>3 DEF Switches!Analyse, Switches!Find, Switches!NextSection, Switches!NextPattern,
             Switches!WriteTables
    <3> QED
      BY <2>1, <2>3, <3>1, ScanTables
  <2>4. CASE Switches!PrintLine \/ Switches!Call \/ Switches!Execute
    <3>1. stage \in {"print", "run"}
      BY <2>4 DEF Switches!PrintLine, Switches!Call, Switches!Execute, Switches!Compute,
         Switches!Compare, Switches!MoveToCtr, Switches!Branch, Switches!Pass,
         Switches!ReturnToCaller, Switches!Switch, Switches!CallIndirect, Switches!Running
    <3> QED
      BY <2>1, <2>4, <3>1, LaterTables
  <2> QED
    BY <1>3, <2>2, <2>3, <2>4 DEF Translate, Switches!SwitchNext
<1> QED
  BY <1>1, <1>2, <1>3 DEF ToolNext

(* Entry n is for a jump that is at word l, and none before it.            *)
Shows(n, l) ==
  /\ n \in DOMAIN tables /\ tables[n].base \in Int /\ tables[n].base <= l
  /\ \A m \in tables[n].base .. (l - 1) : Insn(m).op # "bctr"

(* Every entry that is armed or printed is for the next bctr behind its    *)
(* base.                                                                   *)
PrintInv ==
  Switches!TypedLayout =>
    /\ stage = "print" => line \in Int /\ (armed # 0 => Shows(armed, line))
    /\ stage \in {"print", "run", "done"} =>
         /\ DOMAIN printed = DOMAIN image
         /\ \A l \in DOMAIN printed : printed[l] # 0 => Shows(printed[l], l)

LEMMA SameShows ==
  ASSUME UNCHANGED <<image, tables>>
  PROVE  \A n, l : Shows(n, l)' <=> Shows(n, l)
BY DEF Shows, Insn, Switches!Insn

(* An entry that Recompile finds at a word is for the next bctr.           *)
LEMMA ArmedShows ==
  ASSUME TablesInv, PrintInv, Switches!TypedLayout, stage = "print", Switches!Armed # 0
  PROVE  Shows(Switches!Armed, line)
<1>1. line \in Int /\ (armed # 0 => Shows(armed, line))
  BY DEF PrintInv
<1>2. CASE armed # 0
  BY <1>1, <1>2 DEF Switches!Armed
<1>3. CASE armed = 0
  <2>1. Switches!Entries(line) # {} /\ Switches!Armed = Switches!Min(Switches!Entries(line))
    BY <1>3 DEF Switches!Armed, Switches!Entry
  <2>2. Switches!Entries(line) \subseteq Nat
    <3>1. tables \in Seq(FoundTables \cup HandTables)
      BY DEF TablesInv
    <3>2. DOMAIN tables \subseteq Nat
      <4> DEFINE S == FoundTables \cup HandTables
      <4> HIDE DEF S
      <4>1. tables \in Seq(S)
        BY <3>1 DEF S
      <4> QED
        BY <4>1
    <3> QED
      BY <3>2 DEF Switches!Entries
  <2>3. Switches!Armed \in Switches!Entries(line)
    BY <2>1, <2>2, MinIs
  <2>4. Switches!Armed \in DOMAIN tables /\ tables[Switches!Armed].base = line
    BY <2>3 DEF Switches!Entries
  <2> HIDE DEF Switches!Armed
  <2> QED
    BY <1>1, <2>4 DEF Shows
<1> QED
  BY <1>2, <1>3

LEMMA PrintInit == ToolInit => PrintInv
BY DEF ToolInit, Switches!SwitchInit, PrintInv

LEMMA ShowsNext ==
  ASSUME NEW n, NEW l \in Int, Shows(n, l), Insn(l).op # "bctr"
  PROVE  Shows(n, l + 1)
<1> DEFINE b == tables[n].base
<1>1. n \in DOMAIN tables /\ b \in Int /\ b <= l /\ \A m \in b .. (l - 1) : Insn(m).op # "bctr"
  BY DEF Shows
<1>2. b <= l + 1 /\ l + 1 - 1 = l
  BY <1>1
<1>3. \A m \in b .. l : Insn(m).op # "bctr"
  BY <1>1
<1>4. \A m \in b .. (l + 1 - 1) : Insn(m).op # "bctr"
  BY <1>2, <1>3
<1> QED
  BY <1>1, <1>2, <1>4 DEF Shows

LEMMA PrintLinePrints ==
  ASSUME TablesInv, PrintInv, Switches!TypedLayout, Switches!PrintLine
  PROVE  /\ line' \in Int /\ (armed' # 0 => Shows(armed', line'))
         /\ DOMAIN printed' = DOMAIN image
         /\ \A l \in DOMAIN printed : printed'[l] # 0 => Shows(printed'[l], l)
<1>1. /\ stage = "print" /\ line \in Int /\ line' = line + 1
      /\ DOMAIN printed = DOMAIN image
      /\ \A l \in DOMAIN printed : printed[l] # 0 => Shows(printed[l], l)
  BY DEF PrintInv, Switches!PrintLine
<1>2. PICK n : n = Switches!Armed
  OBVIOUS
<1>3. n # 0 => Shows(n, line)
  BY <1>1, <1>2, ArmedShows
<1>4. CASE Insn(line).op = "bctr"
  <2>1. printed' = [printed EXCEPT ![line] = n] /\ armed' = 0
    BY <1>2, <1>4 DEF Switches!PrintLine, Insn
  <2> QED
    BY <1>1, <1>3, <2>1
<1>5. CASE Insn(line).op # "bctr"
  <2>1. printed' = printed /\ armed' = n
    BY <1>2, <1>5 DEF Switches!PrintLine, Insn
  <2>2. n # 0 => Shows(n, line + 1)
    BY <1>1, <1>3, <1>5, ShowsNext
  <2>3. line + 1 \in Int
    BY <1>1
  <2> QED
    BY <1>1, <2>1, <2>2, <2>3
<1> QED
  BY <1>4, <1>5

LEMMA PrintNext == TablesInv /\ PrintInv /\ [ToolNext]_toolVars => PrintInv'
<1> SUFFICES ASSUME TablesInv, PrintInv, [ToolNext]_toolVars PROVE PrintInv'
  OBVIOUS
<1>1. CASE UNCHANGED toolVars
  <2>1. Fixed /\ UNCHANGED <<image, tables, stage, line, armed, printed>>
    BY <1>1 DEF toolVars, xexVars, switchVars, Fixed
  <2> QED
    BY <2>1, SameTables, SameShows DEF PrintInv
<1>2. CASE Prepare
  <2>1. stage = "wait" /\ UNCHANGED stage
    BY <1>2, XexRuns DEF TablesInv, Prepare, switchVars
  <2> QED
    BY <2>1 DEF PrintInv
<1>3. CASE Translate
  <2>1. CASE Switches!Start({BaseImage(base), image} \ {<<>>}) \/ Switches!Find \/ Switches!NextSection \/ Switches!NextPattern
    <3>1. stage' = "scan"
      BY <2>1 DEF Switches!Start, Switches!Find, Switches!NextSection, Switches!NextPattern
    <3> QED
      BY <3>1 DEF PrintInv
  <2>2. CASE Switches!WriteTables
    <3>1. /\ Fixed /\ stage' = "print" /\ line' = Switches!Function.first /\ armed' = 0
          /\ printed' = [k \in DOMAIN image |-> 0]
      BY <2>2 DEF Switches!WriteTables, TablesInv, Fixed
    <3>2. Switches!TypedLayout' => line' \in Int
      BY <3>1, SameTables DEF Switches!TypedLayout
    <3>3. image' = image
      BY <3>1 DEF Fixed
    <3> QED
      BY <3>1, <3>2, <3>3 DEF PrintInv
  <2>3. CASE Switches!PrintLine
    <3>1. Fixed /\ UNCHANGED <<image, tables>> /\ stage = "print" /\ stage' = "print"
      BY <2>3 DEF Switches!PrintLine, Switches!scanVars, Fixed
    <3>2. Switches!TypedLayout' = Switches!TypedLayout /\ \A n, l : Shows(n, l)' <=> Shows(n, l)
      BY <3>1, SameTables, SameShows
    <3>3. Switches!TypedLayout => DOMAIN printed = DOMAIN image
      BY <3>1 DEF PrintInv
    <3>4. Switches!TypedLayout =>
           /\ line' \in Int /\ (armed' # 0 => Shows(armed', line'))
           /\ DOMAIN printed' = DOMAIN image
           /\ \A l \in DOMAIN printed : printed'[l] # 0 => Shows(printed'[l], l)
      BY <2>3, PrintLinePrints
    <3> SUFFICES ASSUME Switches!TypedLayout
                 PROVE  /\ line' \in Int /\ (armed' # 0 => Shows(armed, line)')
                        /\ DOMAIN printed' = DOMAIN image'
                        /\ \A l \in DOMAIN printed' : printed'[l] # 0 => Shows(printed[l], l)'
      BY <3>1, <3>2 DEF PrintInv
    <3>5. armed' # 0 => Shows(armed, line)'
      BY <3>1, <3>4 DEF Shows, Insn, Switches!Insn
    <3>6. \A l \in DOMAIN printed' : printed'[l] # 0 => Shows(printed[l], l)'
      <4> SUFFICES ASSUME NEW l \in DOMAIN printed', printed'[l] # 0 PROVE Shows(printed[l], l)'
        OBVIOUS
      <4>1. Shows(printed'[l], l)
        BY <3>3, <3>4
      <4> QED
        BY <3>1, <4>1 DEF Shows, Insn, Switches!Insn
    <3> QED
      BY <3>1, <3>4, <3>5, <3>6
  <2>4. CASE Switches!Call \/ Switches!Execute
    <3>1. stage \in {"print", "run"} /\ UNCHANGED printed
      <4>1. CASE Switches!Call \/ Switches!Compute \/ Switches!Compare \/ Switches!MoveToCtr
        BY <4>1 DEF Switches!Call, Switches!Compute, Switches!Compare, Switches!MoveToCtr,
             Switches!printVars, Switches!Running
      <4>2. CASE Switches!Branch \/ Switches!Pass \/ Switches!ReturnToCaller \/ Switches!Switch \/ Switches!CallIndirect
        BY <4>2 DEF Switches!Branch, Switches!Pass, Switches!ReturnToCaller, Switches!Switch,
             Switches!CallIndirect, Switches!printVars, Switches!Running
      <4> QED
        BY <2>4, <4>1, <4>2 DEF Switches!Execute
    <3>2. stage' # "print"
      <4>1. CASE Switches!Call \/ Switches!Compute \/ Switches!Compare \/ Switches!MoveToCtr
        BY <4>1 DEF Switches!Call, Switches!Compute, Switches!Compare, Switches!MoveToCtr, Switches!Running
      <4>2. CASE Switches!Branch \/ Switches!Pass \/ Switches!ReturnToCaller \/ Switches!Switch \/ Switches!CallIndirect
        BY <4>2 DEF Switches!Branch, Switches!Pass, Switches!ReturnToCaller, Switches!Switch,
             Switches!CallIndirect, Switches!Running, Switches!Go, Switches!Return
      <4> QED
        BY <2>4, <4>1, <4>2 DEF Switches!Execute
    <3>3. Fixed /\ UNCHANGED tables
      BY <1>3, <2>4, <3>1, LaterTables DEF Translate, fileVars
    <3>4. Switches!TypedLayout' = Switches!TypedLayout /\ UNCHANGED <<image, tables>>
      BY <3>3, SameTables DEF Fixed
    <3>5. \A n, l : Shows(n, l)' <=> Shows(n, l)
      BY <3>4, SameShows
    <3> QED
      BY <3>1, <3>2, <3>4, <3>5 DEF PrintInv
  <2> QED
    BY <1>3, <2>1, <2>2, <2>3, <2>4 DEF Translate, Switches!SwitchNext, Switches!Analyse
<1> QED
  BY <1>1, <1>2, <1>3 DEF ToolNext

-----------------------------------------------------------------------------
(* What the instructions of a pattern compute                              *)

Nth(k, n) == Switches!Insn(analysed, k + n - 1)

Built(k, lis, addi) == Nth(k, lis).b * High + Nth(k, addi).b

Read(address, n) == Switches!Value(analysed, address, n)

Scaled(k, x) == x * 2 ^ Nth(k, 3).b
ByteOf(k, x) == Read(Built(k, 1, 2) + x, 1)
ShortOf(k, x) == Read(Built(k, 1, 2) + Scaled(k, x), 2)

(* The values that the instructions of pattern t give, for the index x.    *)
Steps(t, k, x) ==
  << <<Nth(k, 1).b * High, Built(k, 1, 2), Scaled(k, x), Read(Built(k, 1, 2) + Scaled(k, x), 4)>>,
     <<Nth(k, 1).b * High, Built(k, 1, 2), ByteOf(k, x), ByteOf(k, x) * 2 ^ Nth(k, 4).b,
       Nth(k, 5).b * High, Built(k, 5, 6), Built(k, 5, 6) + ByteOf(k, x) * 2 ^ Nth(k, 4).b>>,
     <<Nth(k, 1).b * High, Built(k, 1, 2), ByteOf(k, x),
       Nth(k, 4).b * High, Built(k, 4, 5), Built(k, 4, 5) + ByteOf(k, x)>>,
     <<Nth(k, 1).b * High, Built(k, 1, 2), Scaled(k, x), ShortOf(k, x),
       Nth(k, 5).b * High, Built(k, 5, 6), Built(k, 5, 6) + ShortOf(k, x)>> >>[t]

(* After n instructions, each register holds what was written to it last.  *)
Computed(t, k, n, x) ==
  \A e \in 1 .. n :
    (\A d \in (e + 1) .. n : Nth(k, d).d # Nth(k, e).d) => reg[Nth(k, e).d] = Steps(t, k, x)[e]

LEMMA LastIs ==
  ASSUME NEW t \in 1 .. 4
  PROVE  /\ Switches!Last[t] \in 5 .. 8
         /\ \A n \in 1 .. Switches!Last[t] : n \in DOMAIN Switches!Pattern[t]
         /\ Switches!Pattern[t][Switches!Last[t]] = "mtctr"
         /\ \A n \in 1 .. (Switches!Last[t] - 1) :
              Switches!Pattern[t][n] \in {"lis", "addi", "rlwinm", "add", "lbzx", "lhzx", "lwzx"}
<1>1. t = 1 \/ t = 2 \/ t = 3 \/ t = 4
  OBVIOUS
<1>2. CASE t = 1
  BY <1>2 DEF Switches!Last, Switches!Pattern
<1>3. CASE t = 2
  BY <1>3 DEF Switches!Last, Switches!Pattern
<1>4. CASE t = 3
  BY <1>4 DEF Switches!Last, Switches!Pattern
<1>5. CASE t = 4
  BY <1>5 DEF Switches!Last, Switches!Pattern
<1> QED
  BY <1>1, <1>2, <1>3, <1>4, <1>5

LEMMA FlowIs ==
  ASSUME NEW t \in 1 .. 4, NEW f \in Switches!Flow[t]
  PROVE  f[1] \in Nat /\ f[1] >= 1 /\ f[2] \in Nat /\ f[1] < f[2]
<1>1. t = 1 \/ t = 2 \/ t = 3 \/ t = 4
  OBVIOUS
<1>2. CASE t = 1
  BY <1>2 DEF Switches!Flow
<1>3. CASE t = 2
  BY <1>3 DEF Switches!Flow
<1>4. CASE t = 3
  BY <1>4 DEF Switches!Flow
<1>5. CASE t = 4
  BY <1>5 DEF Switches!Flow
<1> QED
  BY <1>1, <1>2, <1>3, <1>4, <1>5

(* An operand holds what the instruction that it comes from has computed.  *)
LEMMA Operand ==
  ASSUME NEW t \in 1 .. 4, NEW k \in Int, NEW r, NEW x, NEW n \in Nat, NEW f \in Switches!Flow[t],
         Switches!Computes(t, k, r), f[2] = n, Computed(t, k, n - 1, x)
  PROVE  reg[Nth(k, n)[f[3]]] = Steps(t, k, x)[f[1]]
<1>1. f[1] \in Nat /\ f[1] >= 1 /\ f[1] < n
  BY FlowIs
<1>2. /\ Nth(k, n)[f[3]] = Nth(k, f[1]).d
      /\ \A d \in (f[1] + 1) .. (n - 1) : Nth(k, d).d # Nth(k, f[1]).d
  BY DEF Switches!Computes, Nth
<1>3. f[1] \in 1 .. (n - 1)
  BY <1>1
<1>4. reg[Nth(k, f[1]).d] = Steps(t, k, x)[f[1]]
  BY <1>2, <1>3 DEF Computed
<1> QED
  BY <1>2, <1>4

(* The words of a found pattern.                                           *)
LEMMA PatternWord ==
  ASSUME NEW t, NEW k, Match(t, k), NEW n \in 1 .. Switches!Last[t]
  PROVE  Nth(k, n).op = Switches!Pattern[t][n]
BY PatternIs, LastIs DEF Match, Switches!Fits, Nth

(* The index is where a pattern reads it.                                  *)
LEMMA IndexIs ==
  ASSUME NEW t \in 1 .. 4, NEW k, NEW r, Switches!Computes(t, k, r)
  PROVE  Nth(k, 3)[IF t \in {1, 4} THEN "a" ELSE "b"] = r
<1>1. Switches!IndexAt[t][1] = 3 /\ Switches!IndexAt[t][2] = IF t \in {1, 4} THEN "a" ELSE "b"
  BY DEF Switches!IndexAt
<1>2. Nth(k, Switches!IndexAt[t][1])[Switches!IndexAt[t][2]] = r
  BY DEF Switches!Computes, Nth
<1> QED
  BY <1>1, <1>2

LEMMA Result1 ==
  ASSUME NEW k, NEW r, NEW n \in 1 .. 4, Match(1, k), Switches!Computes(1, k, r),
         analysed = image, Computed(1, k, n - 1, reg[r]), pc = k + n - 1
  PROVE  Switches!Result = Steps(1, k, reg[r])[n]
<1> DEFINE x == reg[r]
<1>1. k \in Int /\ Switches!Last[1] = 5
  BY DEF Match, Switches!Last
<1>2. Switches!I = Nth(k, n) /\ Switches!I.op = Switches!Pattern[1][n]
  BY <1>1, PatternWord DEF Switches!I, Nth
<1>3. ASSUME NEW f \in Switches!Flow[1], f[2] = n
      PROVE  reg[Nth(k, n)[f[3]]] = Steps(1, k, x)[f[1]]
  <2> HIDE DEF x
  <2> QED
    BY <1>1, <1>3, Operand DEF x
<1>4. reg[Nth(k, 3)[IF 1 \in {1, 4} THEN "a" ELSE "b"]] = x
  BY <1>1, IndexIs
<1> HIDE DEF x
<1>5. CASE n = 1
  <2>1. Switches!Result = Nth(k, 1).b * High
    BY <1>2, <1>5, analysed = image DEF Switches!Result, Switches!Pattern, Read
  <2> QED
    BY <1>5, <2>1 DEF Steps, Built, Scaled, ByteOf, ShortOf, x
<1>6. CASE n = 2
  <2>1. Switches!Result = reg[Nth(k, 2).a] + Nth(k, 2).b
    BY <1>2, <1>6, analysed = image DEF Switches!Result, Switches!Pattern, Read
  <2>2. reg[Nth(k, 2).a] = Steps(1, k, x)[1]
    BY <1>3, <1>6 DEF Switches!Flow
  <2> QED
    BY <1>6, <2>1, <2>2 DEF Steps, Built, Scaled, ByteOf, ShortOf, x
<1>7. CASE n = 3
  <2>1. Switches!Result = reg[Nth(k, 3).a] * 2 ^ Nth(k, 3).b
    BY <1>2, <1>7, analysed = image DEF Switches!Result, Switches!Pattern, Read
  <2>2. reg[Nth(k, 3).a] = x
    BY <1>4
  <2> QED
    BY <1>7, <2>1, <2>2 DEF Steps, Built, Scaled, ByteOf, ShortOf, x
<1>8. CASE n = 4
  <2>1. Switches!Result = Read(reg[Nth(k, 4).a] + reg[Nth(k, 4).b], 4)
    BY <1>2, <1>8, analysed = image DEF Switches!Result, Switches!Pattern, Read
  <2>2. reg[Nth(k, 4).a] = Steps(1, k, x)[2]
    BY <1>3, <1>8 DEF Switches!Flow
  <2>3. reg[Nth(k, 4).b] = Steps(1, k, x)[3]
    BY <1>3, <1>8 DEF Switches!Flow
  <2> QED
    BY <1>8, <2>1, <2>2, <2>3 DEF Steps, Built, Scaled, ByteOf, ShortOf, x
<1> QED
  BY <1>5, <1>6, <1>7, <1>8

LEMMA Result2 ==
  ASSUME NEW k, NEW r, NEW n \in 1 .. 7, Match(2, k), Switches!Computes(2, k, r),
         analysed = image, Computed(2, k, n - 1, reg[r]), pc = k + n - 1
  PROVE  Switches!Result = Steps(2, k, reg[r])[n]
<1> DEFINE x == reg[r]
<1>1. k \in Int /\ Switches!Last[2] = 8
  BY DEF Match, Switches!Last
<1>2. Switches!I = Nth(k, n) /\ Switches!I.op = Switches!Pattern[2][n]
  BY <1>1, PatternWord DEF Switches!I, Nth
<1>3. ASSUME NEW f \in Switches!Flow[2], f[2] = n
      PROVE  reg[Nth(k, n)[f[3]]] = Steps(2, k, x)[f[1]]
  <2> HIDE DEF x
  <2> QED
    BY <1>1, <1>3, Operand DEF x
<1>4. reg[Nth(k, 3)[IF 2 \in {1, 4} THEN "a" ELSE "b"]] = x
  BY <1>1, IndexIs
<1> HIDE DEF x
<1>5. CASE n = 1
  <2>1. Switches!Result = Nth(k, 1).b * High
    BY <1>2, <1>5, analysed = image DEF Switches!Result, Switches!Pattern, Read
  <2> QED
    BY <1>5, <2>1 DEF Steps, Built, Scaled, ByteOf, ShortOf, x
<1>6. CASE n = 2
  <2>1. Switches!Result = reg[Nth(k, 2).a] + Nth(k, 2).b
    BY <1>2, <1>6, analysed = image DEF Switches!Result, Switches!Pattern, Read
  <2>2. reg[Nth(k, 2).a] = Steps(2, k, x)[1]
    BY <1>3, <1>6 DEF Switches!Flow
  <2> QED
    BY <1>6, <2>1, <2>2 DEF Steps, Built, Scaled, ByteOf, ShortOf, x
<1>7. CASE n = 3
  <2>1. Switches!Result = Read(reg[Nth(k, 3).a] + reg[Nth(k, 3).b], 1)
    BY <1>2, <1>7, analysed = image DEF Switches!Result, Switches!Pattern, Read
  <2>2. reg[Nth(k, 3).a] = Steps(2, k, x)[2]
    BY <1>3, <1>7 DEF Switches!Flow
  <2>3. reg[Nth(k, 3).b] = x
    BY <1>4
  <2> QED
    BY <1>7, <2>1, <2>2, <2>3 DEF Steps, Built, Scaled, ByteOf, ShortOf, x
<1>8. CASE n = 4
  <2>1. Switches!Result = reg[Nth(k, 4).a] * 2 ^ Nth(k, 4).b
    BY <1>2, <1>8, analysed = image DEF Switches!Result, Switches!Pattern, Read
  <2>2. reg[Nth(k, 4).a] = Steps(2, k, x)[3]
    BY <1>3, <1>8 DEF Switches!Flow
  <2> QED
    BY <1>8, <2>1, <2>2 DEF Steps, Built, Scaled, ByteOf, ShortOf, x
<1>9. CASE n = 5
  <2>1. Switches!Result = Nth(k, 5).b * High
    BY <1>2, <1>9, analysed = image DEF Switches!Result, Switches!Pattern, Read
  <2> QED
    BY <1>9, <2>1 DEF Steps, Built, Scaled, ByteOf, ShortOf, x
<1>10. CASE n = 6
  <2>1. Switches!Result = reg[Nth(k, 6).a] + Nth(k, 6).b
    BY <1>2, <1>10, analysed = image DEF Switches!Result, Switches!Pattern, Read
  <2>2. reg[Nth(k, 6).a] = Steps(2, k, x)[5]
    BY <1>3, <1>10 DEF Switches!Flow
  <2> QED
    BY <1>10, <2>1, <2>2 DEF Steps, Built, Scaled, ByteOf, ShortOf, x
<1>11. CASE n = 7
  <2>1. Switches!Result = reg[Nth(k, 7).a] + reg[Nth(k, 7).b]
    BY <1>2, <1>11, analysed = image DEF Switches!Result, Switches!Pattern, Read
  <2>2. reg[Nth(k, 7).a] = Steps(2, k, x)[6]
    BY <1>3, <1>11 DEF Switches!Flow
  <2>3. reg[Nth(k, 7).b] = Steps(2, k, x)[4]
    BY <1>3, <1>11 DEF Switches!Flow
  <2> QED
    BY <1>11, <2>1, <2>2, <2>3 DEF Steps, Built, Scaled, ByteOf, ShortOf, x
<1> QED
  BY <1>5, <1>6, <1>7, <1>8, <1>9, <1>10, <1>11

LEMMA Result3 ==
  ASSUME NEW k, NEW r, NEW n \in 1 .. 6, Match(3, k), Switches!Computes(3, k, r),
         analysed = image, Computed(3, k, n - 1, reg[r]), pc = k + n - 1
  PROVE  Switches!Result = Steps(3, k, reg[r])[n]
<1> DEFINE x == reg[r]
<1>1. k \in Int /\ Switches!Last[3] = 7
  BY DEF Match, Switches!Last
<1>2. Switches!I = Nth(k, n) /\ Switches!I.op = Switches!Pattern[3][n]
  BY <1>1, PatternWord DEF Switches!I, Nth
<1>3. ASSUME NEW f \in Switches!Flow[3], f[2] = n
      PROVE  reg[Nth(k, n)[f[3]]] = Steps(3, k, x)[f[1]]
  <2> HIDE DEF x
  <2> QED
    BY <1>1, <1>3, Operand DEF x
<1>4. reg[Nth(k, 3)[IF 3 \in {1, 4} THEN "a" ELSE "b"]] = x
  BY <1>1, IndexIs
<1> HIDE DEF x
<1>5. CASE n = 1
  <2>1. Switches!Result = Nth(k, 1).b * High
    BY <1>2, <1>5, analysed = image DEF Switches!Result, Switches!Pattern, Read
  <2> QED
    BY <1>5, <2>1 DEF Steps, Built, Scaled, ByteOf, ShortOf, x
<1>6. CASE n = 2
  <2>1. Switches!Result = reg[Nth(k, 2).a] + Nth(k, 2).b
    BY <1>2, <1>6, analysed = image DEF Switches!Result, Switches!Pattern, Read
  <2>2. reg[Nth(k, 2).a] = Steps(3, k, x)[1]
    BY <1>3, <1>6 DEF Switches!Flow
  <2> QED
    BY <1>6, <2>1, <2>2 DEF Steps, Built, Scaled, ByteOf, ShortOf, x
<1>7. CASE n = 3
  <2>1. Switches!Result = Read(reg[Nth(k, 3).a] + reg[Nth(k, 3).b], 1)
    BY <1>2, <1>7, analysed = image DEF Switches!Result, Switches!Pattern, Read
  <2>2. reg[Nth(k, 3).a] = Steps(3, k, x)[2]
    BY <1>3, <1>7 DEF Switches!Flow
  <2>3. reg[Nth(k, 3).b] = x
    BY <1>4
  <2> QED
    BY <1>7, <2>1, <2>2, <2>3 DEF Steps, Built, Scaled, ByteOf, ShortOf, x
<1>8. CASE n = 4
  <2>1. Switches!Result = Nth(k, 4).b * High
    BY <1>2, <1>8, analysed = image DEF Switches!Result, Switches!Pattern, Read
  <2> QED
    BY <1>8, <2>1 DEF Steps, Built, Scaled, ByteOf, ShortOf, x
<1>9. CASE n = 5
  <2>1. Switches!Result = reg[Nth(k, 5).a] + Nth(k, 5).b
    BY <1>2, <1>9, analysed = image DEF Switches!Result, Switches!Pattern, Read
  <2>2. reg[Nth(k, 5).a] = Steps(3, k, x)[4]
    BY <1>3, <1>9 DEF Switches!Flow
  <2> QED
    BY <1>9, <2>1, <2>2 DEF Steps, Built, Scaled, ByteOf, ShortOf, x
<1>10. CASE n = 6
  <2>1. Switches!Result = reg[Nth(k, 6).a] + reg[Nth(k, 6).b]
    BY <1>2, <1>10, analysed = image DEF Switches!Result, Switches!Pattern, Read
  <2>2. reg[Nth(k, 6).a] = Steps(3, k, x)[5]
    BY <1>3, <1>10 DEF Switches!Flow
  <2>3. reg[Nth(k, 6).b] = Steps(3, k, x)[3]
    BY <1>3, <1>10 DEF Switches!Flow
  <2> QED
    BY <1>10, <2>1, <2>2, <2>3 DEF Steps, Built, Scaled, ByteOf, ShortOf, x
<1> QED
  BY <1>5, <1>6, <1>7, <1>8, <1>9, <1>10

LEMMA Result4 ==
  ASSUME NEW k, NEW r, NEW n \in 1 .. 7, Match(4, k), Switches!Computes(4, k, r),
         analysed = image, Computed(4, k, n - 1, reg[r]), pc = k + n - 1
  PROVE  Switches!Result = Steps(4, k, reg[r])[n]
<1> DEFINE x == reg[r]
<1>1. k \in Int /\ Switches!Last[4] = 8
  BY DEF Match, Switches!Last
<1>2. Switches!I = Nth(k, n) /\ Switches!I.op = Switches!Pattern[4][n]
  BY <1>1, PatternWord DEF Switches!I, Nth
<1>3. ASSUME NEW f \in Switches!Flow[4], f[2] = n
      PROVE  reg[Nth(k, n)[f[3]]] = Steps(4, k, x)[f[1]]
  <2> HIDE DEF x
  <2> QED
    BY <1>1, <1>3, Operand DEF x
<1>4. reg[Nth(k, 3)[IF 4 \in {1, 4} THEN "a" ELSE "b"]] = x
  BY <1>1, IndexIs
<1> HIDE DEF x
<1>5. CASE n = 1
  <2>1. Switches!Result = Nth(k, 1).b * High
    BY <1>2, <1>5, analysed = image DEF Switches!Result, Switches!Pattern, Read
  <2> QED
    BY <1>5, <2>1 DEF Steps, Built, Scaled, ByteOf, ShortOf, x
<1>6. CASE n = 2
  <2>1. Switches!Result = reg[Nth(k, 2).a] + Nth(k, 2).b
    BY <1>2, <1>6, analysed = image DEF Switches!Result, Switches!Pattern, Read
  <2>2. reg[Nth(k, 2).a] = Steps(4, k, x)[1]
    BY <1>3, <1>6 DEF Switches!Flow
  <2> QED
    BY <1>6, <2>1, <2>2 DEF Steps, Built, Scaled, ByteOf, ShortOf, x
<1>7. CASE n = 3
  <2>1. Switches!Result = reg[Nth(k, 3).a] * 2 ^ Nth(k, 3).b
    BY <1>2, <1>7, analysed = image DEF Switches!Result, Switches!Pattern, Read
  <2>2. reg[Nth(k, 3).a] = x
    BY <1>4
  <2> QED
    BY <1>7, <2>1, <2>2 DEF Steps, Built, Scaled, ByteOf, ShortOf, x
<1>8. CASE n = 4
  <2>1. Switches!Result = Read(reg[Nth(k, 4).a] + reg[Nth(k, 4).b], 2)
    BY <1>2, <1>8, analysed = image DEF Switches!Result, Switches!Pattern, Read
  <2>2. reg[Nth(k, 4).a] = Steps(4, k, x)[2]
    BY <1>3, <1>8 DEF Switches!Flow
  <2>3. reg[Nth(k, 4).b] = Steps(4, k, x)[3]
    BY <1>3, <1>8 DEF Switches!Flow
  <2> QED
    BY <1>8, <2>1, <2>2, <2>3 DEF Steps, Built, Scaled, ByteOf, ShortOf, x
<1>9. CASE n = 5
  <2>1. Switches!Result = Nth(k, 5).b * High
    BY <1>2, <1>9, analysed = image DEF Switches!Result, Switches!Pattern, Read
  <2> QED
    BY <1>9, <2>1 DEF Steps, Built, Scaled, ByteOf, ShortOf, x
<1>10. CASE n = 6
  <2>1. Switches!Result = reg[Nth(k, 6).a] + Nth(k, 6).b
    BY <1>2, <1>10, analysed = image DEF Switches!Result, Switches!Pattern, Read
  <2>2. reg[Nth(k, 6).a] = Steps(4, k, x)[5]
    BY <1>3, <1>10 DEF Switches!Flow
  <2> QED
    BY <1>10, <2>1, <2>2 DEF Steps, Built, Scaled, ByteOf, ShortOf, x
<1>11. CASE n = 7
  <2>1. Switches!Result = reg[Nth(k, 7).a] + reg[Nth(k, 7).b]
    BY <1>2, <1>11, analysed = image DEF Switches!Result, Switches!Pattern, Read
  <2>2. reg[Nth(k, 7).a] = Steps(4, k, x)[6]
    BY <1>3, <1>11 DEF Switches!Flow
  <2>3. reg[Nth(k, 7).b] = Steps(4, k, x)[4]
    BY <1>3, <1>11 DEF Switches!Flow
  <2> QED
    BY <1>11, <2>1, <2>2, <2>3 DEF Steps, Built, Scaled, ByteOf, ShortOf, x
<1> QED
  BY <1>5, <1>6, <1>7, <1>8, <1>9, <1>10, <1>11


(* What the last instruction but one of a pattern gives is the label that  *)
(* ReadTable reads.                                                        *)
LEMMA JumpIs ==
  ASSUME NEW t \in 1 .. 4, NEW k \in Int, NEW r, Switches!Computes(t, k, r), NEW x \in Int
  PROVE  Steps(t, k, x)[Switches!Last[t] - 1] = Switches!Label(t, k, x)
<1>1. /\ k + 1 - 1 = k /\ k + 2 - 1 = k + 1 /\ k + 4 - 1 = k + 3
      /\ k + 5 - 1 = k + 4 /\ k + 6 - 1 = k + 5
  OBVIOUS
<1>2. /\ Switches!Constant(k, k + 1) = Built(k, 1, 2)
      /\ Switches!Constant(k + 3, k + 4) = Built(k, 4, 5)
      /\ Switches!Constant(k + 4, k + 5) = Built(k, 5, 6)
      /\ Switches!Insn(analysed, k + 3).b = Nth(k, 4).b
  BY <1>1 DEF Switches!Constant, Built, Nth
<1>3. t \in {1, 4} => Scaled(k, x) = Switches!EntrySize[t] * x
  <2>1. t \in {1, 4} => 2 ^ Nth(k, 3).b = Switches!EntrySize[t]
    BY DEF Switches!Computes, Nth
  <2>2. t \in {1, 4} => Switches!EntrySize[t] \in {2, 4}
    BY DEF Switches!EntrySize
  <2>3. t \in {1, 4} => Scaled(k, x) = x * Switches!EntrySize[t]
    BY <2>1 DEF Scaled
  <2> QED
    BY <2>2, <2>3
<1>4. CASE t = 1
  <2>1. Scaled(k, x) = 4 * x /\ Switches!Last[t] - 1 = 4
    BY <1>3, <1>4 DEF Switches!EntrySize, Switches!Last
  <2> QED
    BY <1>2, <1>4, <2>1 DEF Steps, Switches!Label, Read
<1>5. CASE t = 2
  <2>1. Switches!Last[t] - 1 = 7
    BY <1>5 DEF Switches!Last
  <2> QED
    BY <1>2, <1>5, <2>1 DEF Steps, Switches!Label, Read, ByteOf
<1>6. CASE t = 3
  <2>1. Switches!Last[t] - 1 = 6
    BY <1>6 DEF Switches!Last
  <2> QED
    BY <1>2, <1>6, <2>1 DEF Steps, Switches!Label, Read, ByteOf
<1>7. CASE t = 4
  <2>1. Scaled(k, x) = 2 * x /\ Switches!Last[t] - 1 = 7
    BY <1>3, <1>7 DEF Switches!EntrySize, Switches!Last
  <2> QED
    BY <1>2, <1>7, <2>1 DEF Steps, Switches!Label, Read, ShortOf
<1> QED
  BY <1>4, <1>5, <1>6, <1>7

LEMMA ResultIs ==
  ASSUME NEW t \in 1 .. 4, NEW k, NEW r, NEW n \in 1 .. (Switches!Last[t] - 1), Match(t, k),
         Switches!Computes(t, k, r), analysed = image, Computed(t, k, n - 1, reg[r]), pc = k + n - 1
  PROVE  Switches!Result = Steps(t, k, reg[r])[n]
<1>1. CASE t = 1
  <2>1. n \in 1 .. 4
    BY <1>1 DEF Switches!Last
  <2> QED
    BY <1>1, <2>1, Result1
<1>2. CASE t = 2
  <2>1. n \in 1 .. 7
    BY <1>2 DEF Switches!Last
  <2> QED
    BY <1>2, <2>1, Result2
<1>3. CASE t = 3
  <2>1. n \in 1 .. 6
    BY <1>3 DEF Switches!Last
  <2> QED
    BY <1>3, <2>1, Result3
<1>4. CASE t = 4
  <2>1. n \in 1 .. 7
    BY <1>4 DEF Switches!Last
  <2> QED
    BY <1>4, <2>1, Result4
<1> QED
  BY <1>1, <1>2, <1>3, <1>4

(* One more instruction of a pattern.                                      *)
LEMMA ComputedNext ==
  ASSUME NEW t \in 1 .. 4, NEW k, NEW r \in DOMAIN reg, NEW n \in 1 .. (Switches!Last[t] - 1),
         Match(t, k), Switches!Computes(t, k, r), analysed = image,
         Computed(t, k, n - 1, reg[r]), pc = k + n - 1,
         reg' = [reg EXCEPT ![Switches!I.d] = Switches!Result], DOMAIN reg = Switches!Register
  PROVE  /\ reg'[r] = reg[r]
         /\ \A e \in 1 .. n :
              (\A d \in (e + 1) .. n : Nth(k, d).d # Nth(k, e).d)
                => reg'[Nth(k, e).d] = Steps(t, k, reg[r])[e]
<1>0. Switches!Last[t] \in 5 .. 8
  BY LastIs
<1>1. Switches!I = Nth(k, n)
  BY DEF Switches!I, Nth
<1>2. \A e \in 1 .. (Switches!Last[t] - 1) : Nth(k, e).d \in DOMAIN reg /\ Nth(k, e).d # r
  BY DEF Switches!Computes, Nth
<1>3. Nth(k, n).d \in DOMAIN reg /\ Nth(k, n).d # r
  BY <1>2
<1>4. reg'[r] = reg[r]
  BY <1>1, <1>3
<1>5. Switches!Result = Steps(t, k, reg[r])[n]
  BY ResultIs
<1>6. ASSUME NEW e \in 1 .. n, \A d \in (e + 1) .. n : Nth(k, d).d # Nth(k, e).d
      PROVE  reg'[Nth(k, e).d] = Steps(t, k, reg[r])[e]
  <2>1. CASE e = n
    BY <1>1, <1>3, <1>5, <2>1
  <2>2. CASE e # n
    <3>1. e \in 1 .. (n - 1) /\ n \in (e + 1) .. n
      BY <2>2
    <3>2. Nth(k, n).d # Nth(k, e).d
      BY <1>6, <3>1
    <3>3. \A d \in (e + 1) .. (n - 1) : Nth(k, d).d # Nth(k, e).d
      BY <1>6, <3>1
    <3>4. reg[Nth(k, e).d] = Steps(t, k, reg[r])[e]
      BY <3>1, <3>3 DEF Computed
    <3>5. Nth(k, e).d \in DOMAIN reg
      BY <1>0, <1>2, <3>1
    <3> QED
      BY <1>1, <3>2, <3>4, <3>5
  <2> QED
    BY <2>1, <2>2
<1> QED
  BY <1>4, <1>6

-----------------------------------------------------------------------------
(* The run of the printed function                                         *)

Computing == {"lis", "addi", "rlwinm", "add", "mr", "lbzx", "lhzx", "lwzx"}

(* Where a step of the function leads to.                                  *)
LEMMA Leads ==
  ASSUME Switches!Execute, stage' = "run", NEW op, op = Switches!I.op
  PROVE  \/ pc' = pc + 1
         \/ op \in {"bgt", "ble"} /\ pc' = Switches!I.b
         \/ /\ op = "bctr" /\ printed[pc] # 0
            /\ \E m \in DOMAIN tables[printed[pc]].labels :
                 pc' = tables[printed[pc]].labels[m] \div 4
<1>1. CASE Switches!Compute \/ Switches!Compare \/ Switches!MoveToCtr
  BY <1>1 DEF Switches!Compute, Switches!Compare, Switches!MoveToCtr
<1>2. CASE Switches!Branch
  BY <1>2 DEF Switches!Branch, Switches!Go, Switches!Return
<1>3. CASE Switches!Pass
  BY <1>3 DEF Switches!Pass, Switches!Go, Switches!Return
<1>4. CASE Switches!ReturnToCaller \/ Switches!CallIndirect
  BY <1>4 DEF Switches!ReturnToCaller, Switches!CallIndirect, Switches!Return
<1>5. CASE Switches!Switch
  <2> DEFINE t == tables[printed[pc]]
             m == reg[t.r] + 1
  <2>1. op = "bctr" /\ printed[pc] # 0
    BY <1>5 DEF Switches!Switch, Switches!Running
  <2>2. m \in DOMAIN t.labels /\ pc' = t.labels[m] \div 4
    BY <1>5 DEF Switches!Switch, Switches!Return, Switches!Go
  <2> QED
    BY <2>1, <2>2
<1> QED
  BY <1>1, <1>2, <1>3, <1>4, <1>5 DEF Switches!Execute

(* What a step of the function changes.                                    *)
LEMMA Changes ==
  ASSUME Switches!Execute, NEW op, op = Switches!I.op
  PROVE  /\ IF op \in {"cmplwi", "cmpwi"}
            THEN compared' = [compared EXCEPT ![Switches!I.d] =
                   [r |-> IF op = "cmplwi" THEN Switches!I.a ELSE -1, b |-> Switches!I.b,
                    v |-> reg[Switches!I.a]]]
            ELSE compared' = compared
         /\ guard' = IF op \in Switches!Guards THEN compared[Switches!I.d] ELSE guard
         /\ reg' = IF op \in Computing THEN [reg EXCEPT ![Switches!I.d] = Switches!Result] ELSE reg
         /\ op = "mtctr" => ctr' = reg[Switches!I.d]
<1>1. CASE Switches!Compute
  BY <1>1 DEF Switches!Compute, Switches!Running, Switches!Guards, Computing
<1>2. CASE Switches!Compare
  BY <1>2 DEF Switches!Compare, Switches!Running, Switches!Guards, Computing
<1>3. CASE Switches!Branch
  BY <1>3 DEF Switches!Branch, Switches!Running, Switches!Guards, Computing
<1>4. CASE Switches!MoveToCtr
  BY <1>4 DEF Switches!MoveToCtr, Switches!Running, Switches!Guards, Computing
<1>5. CASE Switches!Pass \/ Switches!ReturnToCaller
  BY <1>5 DEF Switches!Pass, Switches!ReturnToCaller, Switches!Running, Switches!Guards, Computing
<1>6. CASE Switches!Switch \/ Switches!CallIndirect
  BY <1>6 DEF Switches!Switch, Switches!CallIndirect, Switches!Running, Switches!Guards, Computing
<1> QED
  BY <1>1, <1>2, <1>3, <1>4, <1>5, <1>6 DEF Switches!Execute

(* A pattern whose comparison and branch are found, in code as the         *)
(* compiler writes it.                                                     *)
Compiled(t, k) ==
  LET cmp == Switches!Comparison(k) IN
  /\ Match(t, k) /\ analysed = image
  /\ cmp.d \in Switches!Field /\ cmp.b \in Int
  /\ \A m \in (CompareOf(k) + 1) .. (GuardOf(k) - 1) : ~(Insn(m).op = "cmpwi" /\ Insn(m).d = cmp.d)
  /\ Switches!Computes(t, k, cmp.a)
  /\ Switches!OneWayIn(CompareOf(k) + 1, k + Switches!Last[t], GuardOf(k), k)

LEMMA CompiledIs ==
  ASSUME Switches!CompiledCode, analysed = image, NEW t, NEW k, Match(t, k)
  PROVE  Compiled(t, k)
BY DEF Switches!CompiledCode, Compiled, Match, Insn, CompareOf, GuardOf

(* While the function runs from the comparison to the jump: the comparison *)
(* stays, then it is the one behind the last branch, and each instruction  *)
(* of the pattern adds its value.                                          *)
Guarded(t, k) ==
  LET cmp == Switches!Comparison(k) IN
  /\ pc \in (CompareOf(k) + 1) .. GuardOf(k) => compared[cmp.d].r = cmp.a /\ compared[cmp.d].b = cmp.b
  /\ pc \in (GuardOf(k) + 1) .. (k + Switches!Last[t]) => guard.r = cmp.a /\ guard.b = cmp.b

Valued(t, k) ==
  LET r == Switches!Comparison(k).a
      l == Switches!Last[t]
  IN
  r \in Switches!Register =>
    /\ \A n \in 1 .. (l - 1) : pc = k + n => Computed(t, k, n, reg[r])
    /\ pc = k + l => ctr = Steps(t, k, reg[r])[l - 1]

(* In code as the compiler writes it, wherever the function runs between   *)
(* a comparison and the jump behind it, it came there from the comparison. *)
RunInv ==
  /\ DOMAIN reg = Switches!Register /\ DOMAIN compared = Switches!Field
  /\ stage = "run" /\ pc # 0 /\ Switches!CompiledCode /\ analysed = image =>
       /\ pc \in Int
       /\ \A t \in DOMAIN Switches!Pattern, k \in DOMAIN analysed :
            Match(t, k) => Guarded(t, k) /\ Valued(t, k)

LEMMA InImage == Switches!I.op # "undecodable" => pc \in DOMAIN image
BY DEF Switches!I, Switches!Insn, Switches!Nothing

(* One way in.                                                             *)
LEMMA CameFrom ==
  ASSUME NEW t, NEW k, Compiled(t, k), PrintInv, Switches!TypedLayout,
         Switches!Execute, stage' = "run", pc \in Int,
         pc' \in (CompareOf(k) + 1) .. (k + Switches!Last[t])
  PROVE  \/ pc' = pc + 1
         \/ pc = GuardOf(k) /\ pc' \in (GuardOf(k) + 1) .. k
<1>1. stage = "run"
  BY DEF Switches!Execute, Switches!Compute, Switches!Compare, Switches!MoveToCtr, Switches!Branch,
     Switches!Pass, Switches!ReturnToCaller, Switches!Switch, Switches!CallIndirect, Switches!Running
<1>2. CASE Switches!I.op \in {"bgt", "ble"} /\ pc' = Switches!I.b
  <2>1. pc \in DOMAIN image
    BY <1>2, InImage
  <2>2. pc = GuardOf(k) /\ Switches!I.b \in (GuardOf(k) + 1) .. k
    BY <1>2, <2>1 DEF Compiled, Switches!OneWayIn, Switches!I
  <2> QED
    BY <1>2, <2>2
<1>3. CASE /\ Switches!I.op = "bctr" /\ printed[pc] # 0
           /\ \E m \in DOMAIN tables[printed[pc]].labels :
                 pc' = tables[printed[pc]].labels[m] \div 4
  <2>1. printed[pc] \in DOMAIN tables
    BY <1>1, <1>3, InImage DEF PrintInv, Shows
  <2> QED
    BY <1>3, <2>1 DEF Compiled, Switches!OneWayIn
<1> QED
  BY <1>2, <1>3, Leads

LEMMA SameComparison ==
  ASSUME Fixed, NEW k
  PROVE  /\ Switches!Comparison(k)' = Switches!Comparison(k)
         /\ CompareOf(k)' = CompareOf(k) /\ GuardOf(k)' = GuardOf(k)
<1>1. Switches!Branches(k)' = Switches!Branches(k)
  BY DEF Fixed, Switches!Branches, Switches!Insn
<1>2. Switches!Min(Switches!Branches(k))' = Switches!Min(Switches!Branches(k))
  BY <1>1 DEF Switches!Min
<1>3. Switches!Compares(k)' = Switches!Compares(k)
  BY <1>1, <1>2 DEF Fixed, Switches!Compares, Switches!Insn
<1>4. Switches!Min(Switches!Compares(k))' = Switches!Min(Switches!Compares(k))
  BY <1>3 DEF Switches!Min
<1> QED
  BY <1>2, <1>3, <1>4 DEF Fixed, Switches!Comparison, Switches!Insn, CompareOf, GuardOf

(* A step keeps the comparison, or hands it to the branch.                 *)
LEMMA GuardedNext ==
  ASSUME NEW t, NEW k, Compiled(t, k), PrintInv, Switches!TypedLayout, Guarded(t, k),
         Switches!Execute, stage' = "run", pc \in Int, DOMAIN compared = Switches!Field, Fixed
  PROVE  Guarded(t, k)'
<1> DEFINE cmp == Switches!Comparison(k)
<1>1. PICK c \in Int, g \in Int : c = CompareOf(k) /\ g = GuardOf(k)
  BY Where DEF Compiled
<1>2. PICK l \in Nat : l = Switches!Last[t] /\ l \in 5 .. 8
  BY LastIs, PatternIs DEF Compiled, Match
<1>3. t \in 1 .. 4 /\ k \in Int /\ c < g /\ g <= k
  BY <1>1, Where, PatternIs DEF Compiled, Match
<1>4. /\ Insn(g).op \in Switches!Guards
      /\ Insn(c).op = "cmplwi" /\ Insn(c).d = cmp.d /\ Insn(g).d = cmp.d /\ Insn(c) = cmp
      /\ \A m \in (g + 1) .. k : Insn(m).op \notin Switches!Guards
      /\ \A m \in (c + 1) .. (g - 1) : Insn(m).op = "cmplwi" => Insn(m).d # cmp.d
      /\ \A m \in (c + 1) .. (g - 1) : ~(Insn(m).op = "cmpwi" /\ Insn(m).d = cmp.d)
      /\ cmp.d \in Switches!Field
  BY <1>1, Where DEF Compiled, Insn
<1>5. \A m \in (g + 1) .. (k + l - 1) : Insn(m).op \notin Switches!Guards
  <2> SUFFICES ASSUME NEW m \in (g + 1) .. (k + l - 1), m > k PROVE Insn(m).op \notin Switches!Guards
    BY <1>2, <1>3, <1>4
  <2>1. m - k + 1 \in 1 .. l /\ k + (m - k + 1) - 1 = m
    BY <1>2, <1>3
  <2>2. Insn(m).op = Switches!Pattern[t][m - k + 1]
    BY <1>2, <2>1, PatternWord DEF Compiled, Nth, Insn
  <2>3. Switches!Pattern[t][m - k + 1] \notin Switches!Guards
    <3>1. m - k + 1 = l \/ m - k + 1 \in 1 .. (l - 1)
      BY <1>2, <2>1
    <3> QED
      BY <1>2, <1>3, <3>1, LastIs DEF Switches!Guards
  <2> QED
    BY <2>2, <2>3
<1>6. /\ cmp' = cmp /\ CompareOf(k)' = c /\ GuardOf(k)' = g /\ Switches!Last[t]' = l
  BY <1>1, <1>2, SameComparison DEF Switches!Last
<1>7. pc' \in (c + 1) .. (k + l) => pc' = pc + 1 \/ (pc = g /\ pc' \in (g + 1) .. k)
  BY <1>1, <1>2, CameFrom
<1>8. /\ pc \in (c + 1) .. g => compared[cmp.d].r = cmp.a /\ compared[cmp.d].b = cmp.b
      /\ pc \in (g + 1) .. (k + l) => guard.r = cmp.a /\ guard.b = cmp.b
  BY <1>1, <1>2 DEF Guarded
<1>9. Switches!I = Insn(pc)
  BY DEF Switches!I, Insn
<1> HIDE DEF cmp
<1>10. pc' \in (c + 1) .. g => compared'[cmp.d].r = cmp.a /\ compared'[cmp.d].b = cmp.b
  <2> SUFFICES ASSUME pc' \in (c + 1) .. g PROVE compared'[cmp.d].r = cmp.a /\ compared'[cmp.d].b = cmp.b
    OBVIOUS
  <2>1. pc' = pc + 1
    BY <1>2, <1>3, <1>7
  <2>2. CASE pc = c
    <3>1. compared' = [compared EXCEPT ![cmp.d] = [r |-> cmp.a, b |-> cmp.b, v |-> reg[cmp.a]]]
      BY <1>4, <1>9, <2>2, Changes
    <3> QED
      BY <1>4, <3>1
  <2>3. CASE pc # c
    <3>1. pc \in (c + 1) .. (g - 1)
      BY <2>1, <2>3
    <3>2. compared[cmp.d].r = cmp.a /\ compared[cmp.d].b = cmp.b
      BY <1>8, <3>1
    <3>3. Insn(pc).op \in {"cmplwi", "cmpwi"} => Insn(pc).d # cmp.d
      BY <1>4, <3>1
    <3>4. compared'[cmp.d] = compared[cmp.d]
      BY <1>4, <1>9, <3>3, Changes
    <3> QED
      BY <3>2, <3>4
  <2> QED
    BY <2>2, <2>3
<1>11. pc' \in (g + 1) .. (k + l) => guard'.r = cmp.a /\ guard'.b = cmp.b
  <2> SUFFICES ASSUME pc' \in (g + 1) .. (k + l) PROVE guard'.r = cmp.a /\ guard'.b = cmp.b
    OBVIOUS
  <2>1. pc' = pc + 1 \/ pc = g
    BY <1>3, <1>7
  <2>2. CASE pc = g
    <3>1. guard' = compared[cmp.d]
      BY <1>4, <1>9, <2>2, Changes
    <3>2. pc \in (c + 1) .. g
      BY <1>3, <2>2
    <3> QED
      BY <1>8, <3>1, <3>2
  <2>3. CASE pc # g
    <3>1. pc \in (g + 1) .. (k + l - 1) /\ pc \in (g + 1) .. (k + l)
      BY <1>2, <1>3, <2>1, <2>3
    <3>2. guard' = guard
      BY <1>5, <1>9, <3>1, Changes
    <3> QED
      BY <1>8, <3>1, <3>2
  <2> QED
    BY <2>2, <2>3
<1>12. pc' \in (CompareOf(k)' + 1) .. GuardOf(k)' => compared'[cmp'.d].r = cmp'.a /\ compared'[cmp'.d].b = cmp'.b
  BY <1>6, <1>10
<1>13. pc' \in (GuardOf(k)' + 1) .. (k + Switches!Last[t]') => guard'.r = cmp'.a /\ guard'.b = cmp'.b
  BY <1>6, <1>11
<1> QED
  BY <1>12, <1>13 DEF Guarded, cmp

LEMMA SameSteps ==
  ASSUME Fixed, NEW t, NEW k, NEW r
  PROVE  Steps(t, k, reg[r])' = Steps(t, k, reg'[r])
BY DEF Fixed, Steps, Built, Scaled, ByteOf, ShortOf, Read, Nth, Switches!Insn, Switches!Value,
       Switches!Byte

LEMMA SameNth ==
  ASSUME Fixed, NEW k, NEW n
  PROVE  Nth(k, n)' = Nth(k, n)
BY DEF Fixed, Nth, Switches!Insn

(* The mtctr reads what the instruction before it gives.                   *)
LEMMA CtrReads ==
  ASSUME NEW t \in 1 .. 4
  PROVE  <<Switches!Last[t] - 1, Switches!Last[t], "d">> \in Switches!Flow[t]
<1>1. t = 1 \/ t = 2 \/ t = 3 \/ t = 4
  OBVIOUS
<1>2. CASE t = 1
  BY <1>2 DEF Switches!Last, Switches!Flow
<1>3. CASE t = 2
  BY <1>3 DEF Switches!Last, Switches!Flow
<1>4. CASE t = 3
  BY <1>4 DEF Switches!Last, Switches!Flow
<1>5. CASE t = 4
  BY <1>5 DEF Switches!Last, Switches!Flow
<1> QED
  BY <1>1, <1>2, <1>3, <1>4, <1>5

(* A step in a pattern adds the value of its instruction.                  *)
LEMMA ValuedNext ==
  ASSUME NEW t, NEW k, Compiled(t, k), PrintInv, Switches!TypedLayout, Valued(t, k),
         Switches!Execute, stage' = "run", pc \in Int, DOMAIN reg = Switches!Register, Fixed
  PROVE  Valued(t, k)'
<1>1. PICK l \in Nat : l = Switches!Last[t] /\ l \in 5 .. 8
  BY LastIs, PatternIs DEF Compiled, Match
<1>2. PICK r : r = Switches!Comparison(k).a
  OBVIOUS
<1>3. /\ t \in 1 .. 4 /\ k \in Int /\ Match(t, k) /\ Switches!Computes(t, k, r) /\ analysed = image
      /\ CompareOf(k) \in Int /\ CompareOf(k) < k
  BY <1>2, Where, PatternIs DEF Compiled, Match
<1>4. Switches!Comparison(k).a' = r /\ Switches!Last[t]' = l
  BY <1>1, <1>2, SameComparison DEF Switches!Last
<1>5. ASSUME NEW n \in 1 .. l, pc' = k + n
      PROVE  /\ pc = k + n - 1 /\ Switches!I = Nth(k, n)
             /\ Switches!I.op = Switches!Pattern[t][n]
  <2>1. pc' \in (CompareOf(k) + 1) .. (k + Switches!Last[t]) /\ pc' > k
    BY <1>1, <1>3, <1>5
  <2>2. pc' = pc + 1
    BY <1>3, <2>1, CameFrom
  <2>3. pc = k + n - 1
    BY <1>3, <1>5, <2>2
  <2> QED
    BY <1>1, <1>3, <2>3, PatternWord DEF Switches!I, Nth
<1>6. ASSUME r \in Switches!Register, NEW n \in 1 .. l, pc = k + n - 1
      PROVE  Computed(t, k, n - 1, reg[r])
  <2>1. CASE n = 1
    BY <2>1 DEF Computed
  <2>2. CASE n # 1
    <3>1. n - 1 \in 1 .. (l - 1) /\ pc = k + (n - 1)
      BY <1>1, <1>3, <1>6, <2>2
    <3> QED
      BY <1>1, <1>2, <1>6, <3>1 DEF Valued
  <2> QED
    BY <2>1, <2>2
<1>7. ASSUME r \in Switches!Register, NEW n \in 1 .. (l - 1), pc' = k + n
      PROVE  Computed(t, k, n, reg[r])'
  <2>1. n \in 1 .. l
    BY <1>1
  <2>2. /\ pc = k + n - 1 /\ Switches!I = Nth(k, n)
        /\ Switches!I.op = Switches!Pattern[t][n]
    BY <1>5, <1>7, <2>1
  <2>3. Computed(t, k, n - 1, reg[r])
    BY <1>6, <1>7, <2>1, <2>2
  <2>4. reg' = [reg EXCEPT ![Switches!I.d] = Switches!Result]
    <3>1. Switches!I.op \in Computing
      BY <1>1, <1>3, <2>2, LastIs DEF Computing
    <3> QED
      BY <3>1, Changes
  <2>5. /\ reg'[r] = reg[r]
        /\ \A e \in 1 .. n :
             (\A d \in (e + 1) .. n : Nth(k, d).d # Nth(k, e).d)
               => reg'[Nth(k, e).d] = Steps(t, k, reg[r])[e]
    BY <1>1, <1>3, <1>7, <2>2, <2>3, <2>4, ComputedNext
  <2>6. Steps(t, k, reg[r])' = Steps(t, k, reg[r])
    BY <2>5, SameSteps
  <2> QED
    BY <2>5, <2>6, SameNth DEF Computed
<1>8. ASSUME r \in Switches!Register, pc' = k + l
      PROVE  ctr' = Steps(t, k, reg[r])'[l - 1]
  <2>1. /\ pc = k + l - 1 /\ Switches!I = Nth(k, l)
        /\ Switches!I.op = "mtctr"
    BY <1>1, <1>3, <1>5, <1>8, LastIs
  <2>2. Computed(t, k, l - 1, reg[r])
    BY <1>1, <1>6, <1>8, <2>1
  <2>3. ctr' = reg[Nth(k, l).d] /\ reg' = reg
    BY <2>1, Changes DEF Computing
  <2>4. reg[Nth(k, l)["d"]] = Steps(t, k, reg[r])[l - 1]
    <3>1. PICK x : x = reg[r]
      OBVIOUS
    <3>2. PICK f \in Switches!Flow[t] : f = <<l - 1, l, "d">>
      BY <1>1, <1>3, CtrReads
    <3> QED
      BY <1>1, <1>3, <2>2, <3>1, <3>2, Operand
  <2>5. Steps(t, k, reg[r])' = Steps(t, k, reg[r])
    BY <2>3, SameSteps
  <2> QED
    BY <2>3, <2>4, <2>5
<1> QED
  BY <1>4, <1>7, <1>8 DEF Valued, Switches!Register

-----------------------------------------------------------------------------
LEMMA SameCode ==
  ASSUME Fixed, UNCHANGED tables
  PROVE  /\ Switches!CompiledCode' = Switches!CompiledCode
         /\ Switches!TypedLayout' = Switches!TypedLayout
         /\ \A t, k : Match(t, k)' <=> Match(t, k)
<1>1. Switches!TypedLayout' = Switches!TypedLayout
  BY SameTables
<1>2. \A t, k : Match(t, k)' <=> Match(t, k)
  BY DEF Fixed, Match, Switches!Fits, Switches!Compares, Switches!Branches, Switches!Insn
<1>3. \A t, k : Switches!Fits(t, k)' <=> Switches!Fits(t, k)
  BY DEF Fixed, Switches!Fits, Switches!Insn
<1>4. /\ \A k : Switches!Branches(k)' = Switches!Branches(k)
      /\ \A k : Switches!Comparison(k)' = Switches!Comparison(k)
      /\ \A k : Switches!Compares(k)' = Switches!Compares(k)
      /\ \A k : Switches!Insn(image, k)' = Switches!Insn(image, k)
      /\ analysed' = analysed /\ image' = image
  BY SameComparison DEF Fixed, Switches!Branches, Switches!Compares, Switches!Insn
<1>5. ASSUME NEW t, NEW k
      PROVE  LET c == k - Switches!Min(Switches!Compares(k))
                 g == k - Switches!Min(Switches!Branches(k))
                 l == k + Switches!Last[t]
                 r == Switches!Comparison(k).a
             IN  /\ (k - Switches!Min(Switches!Compares(k)))' = c
                 /\ (k - Switches!Min(Switches!Branches(k)))' = g
                 /\ (Switches!Computes(t, k, Switches!Comparison(k).a))' <=> Switches!Computes(t, k, r)
                 /\ Switches!OneWayIn(c + 1, l, g, k)' <=> Switches!OneWayIn(c + 1, l, g, k)
  <2>1. /\ (k - Switches!Min(Switches!Compares(k)))' = k - Switches!Min(Switches!Compares(k))
        /\ (k - Switches!Min(Switches!Branches(k)))' = k - Switches!Min(Switches!Branches(k))
    BY <1>4
  <2>2. (Switches!Computes(t, k, Switches!Comparison(k).a))'
          <=> Switches!Computes(t, k, Switches!Comparison(k).a)
    BY <1>4 DEF Switches!Computes
  <2>3. Switches!OneWayIn(k - Switches!Min(Switches!Compares(k)) + 1, k + Switches!Last[t],
                          k - Switches!Min(Switches!Branches(k)), k)'
          <=> Switches!OneWayIn(k - Switches!Min(Switches!Compares(k)) + 1, k + Switches!Last[t],
                                k - Switches!Min(Switches!Branches(k)), k)
    BY <1>4, <2>1 DEF Switches!OneWayIn, Switches!Function, Switches!Last
  <2> QED
    BY <2>1, <2>2, <2>3
<1>6. Switches!CompiledCode' = Switches!CompiledCode
  BY <1>1, <1>3, <1>4, <1>5 DEF Switches!CompiledCode
<1> QED
  BY <1>1, <1>2, <1>6

(* The function is called at its first word, which no pattern covers.      *)
LEMMA RunCall ==
  ASSUME Switches!Call, Switches!CompiledCode', analysed' = image', RunInv
  PROVE  RunInv'
<1>1. Fixed /\ UNCHANGED <<tables, compared>> /\ pc' = Switches!Function.first
  BY DEF Switches!Call, Switches!scanVars, Fixed
<1>2. DOMAIN reg' = Switches!Register /\ DOMAIN compared' = Switches!Field
  <2>1. PICK input \in Inputs : reg' = [r \in Switches!Register |-> input.reg[r]]
    BY DEF Switches!Call
  <2>2. DOMAIN compared = Switches!Field
    BY DEF RunInv
  <2> QED
    BY <1>1, <2>1, <2>2
<1>3. Switches!CompiledCode /\ analysed = image /\ Switches!TypedLayout
  BY <1>1, SameCode DEF Fixed, Switches!CompiledCode
<1>4. pc' \in Int
  BY <1>1, <1>3 DEF Switches!TypedLayout
<1>5. ASSUME NEW t \in DOMAIN Switches!Pattern, NEW k \in DOMAIN analysed', Match(t, k)'
      PROVE  Guarded(t, k)' /\ Valued(t, k)'
  <2>1. Match(t, k)
    BY <1>1, <1>5, SameCode
  <2>2. Compiled(t, k)
    BY <1>3, <2>1, CompiledIs
  <2>3. PICK c \in Int, g \in Int, l \in Nat :
          c = CompareOf(k) /\ g = GuardOf(k) /\ l = Switches!Last[t] /\ l \in 5 .. 8
    BY <2>1, LastIs, PatternIs, Where DEF Match
  <2>4. k \in Int /\ c < g /\ g <= k
    BY <2>1, <2>3, Where DEF Match
  <2>5. pc' \notin (c + 1) .. (k + l)
    BY <1>1, <2>2, <2>3 DEF Compiled, Switches!OneWayIn
  <2>6. /\ CompareOf(k)' = c /\ GuardOf(k)' = g /\ Switches!Last[t]' = l
    BY <1>1, <2>3, SameComparison DEF Switches!Last
  <2>7. Guarded(t, k)'
    <3>1. pc' \notin (c + 1) .. g /\ pc' \notin (g + 1) .. (k + l)
      BY <2>3, <2>4, <2>5
    <3>2. pc' \notin (CompareOf(k)' + 1) .. GuardOf(k)' /\ pc' \notin (GuardOf(k)' + 1) .. (k + Switches!Last[t]')
      BY <2>6, <3>1
    <3> QED
      BY <3>2 DEF Guarded
  <2>8. Valued(t, k)'
    <3>1. /\ \A n \in 1 .. (l - 1) : pc' # k + n
          /\ pc' # k + l
      BY <2>3, <2>4, <2>5
    <3> QED
      BY <2>6, <3>1 DEF Valued
  <2> QED
    BY <2>7, <2>8
<1> QED
  BY <1>2, <1>4, <1>5 DEF RunInv

LEMMA RunExecute ==
  ASSUME TablesInv, PrintInv, RunInv, Switches!Execute, Fixed, UNCHANGED tables
  PROVE  RunInv'
<1>1. stage = "run" /\ pc # 0
  BY DEF Switches!Execute, Switches!Compute, Switches!Compare, Switches!MoveToCtr, Switches!Branch,
     Switches!Pass, Switches!ReturnToCaller, Switches!Switch, Switches!CallIndirect, Switches!Running
<1>2. PICK op : op = Switches!I.op
  OBVIOUS
<1>3. DOMAIN reg' = Switches!Register /\ DOMAIN compared' = Switches!Field
  <2>1. DOMAIN reg = Switches!Register /\ DOMAIN compared = Switches!Field
    BY DEF RunInv
  <2>2. DOMAIN reg' = DOMAIN reg
    <3>1. reg' = [reg EXCEPT ![Switches!I.d] = Switches!Result] \/ reg' = reg
      BY <1>2, Changes
    <3> QED
      BY <3>1
  <2>3. DOMAIN compared' = DOMAIN compared
    <3>1. \/ compared' = compared
          \/ compared' = [compared EXCEPT ![Switches!I.d] =
                   [r |-> IF op = "cmplwi" THEN Switches!I.a ELSE -1, b |-> Switches!I.b,
                    v |-> reg[Switches!I.a]]]
      BY <1>2, Changes
    <3> QED
      BY <3>1
  <2> QED
    BY <2>1, <2>2, <2>3
<1>4. SUFFICES ASSUME stage' = "run", Switches!CompiledCode', analysed' = image'
               PROVE  /\ pc' \in Int
                      /\ \A t \in DOMAIN Switches!Pattern, k \in DOMAIN analysed' :
                           Match(t, k)' => Guarded(t, k)' /\ Valued(t, k)'
  BY <1>3 DEF RunInv
<1>5. Switches!CompiledCode /\ analysed = image /\ Switches!TypedLayout
  BY <1>4, SameCode DEF Fixed, Switches!CompiledCode
<1>6. /\ DOMAIN reg = Switches!Register /\ DOMAIN compared = Switches!Field /\ pc \in Int
      /\ \A t \in DOMAIN Switches!Pattern, k \in DOMAIN analysed :
           Match(t, k) => Guarded(t, k) /\ Valued(t, k)
  BY <1>1, <1>5 DEF RunInv
<1>7. pc' \in Int
  <2>1. CASE op \in {"bgt", "ble"} /\ pc' = Switches!I.b
    <3>1. pc \in DOMAIN image
      BY <1>2, <2>1, InImage
    <3> QED
      BY <1>2, <1>5, <2>1, <3>1 DEF Switches!CompiledCode, Switches!I
  <2>2. CASE /\ op = "bctr" /\ printed[pc] # 0
             /\ \E m \in DOMAIN tables[printed[pc]].labels :
                  pc' = tables[printed[pc]].labels[m] \div 4
    <3>1. printed[pc] \in DOMAIN tables
      BY <1>1, <1>2, <1>5, <2>2, InImage DEF PrintInv, Shows
    <3>2. PICK m \in DOMAIN tables[printed[pc]].labels, x \in Int :
            x = tables[printed[pc]].labels[m] /\ pc' = x \div 4
      BY <1>5, <2>2, <3>1 DEF Switches!CompiledCode
    <3> QED
      BY <3>2
  <2> QED
    BY <1>2, <1>4, <1>6, <2>1, <2>2, Leads
<1>8. ASSUME NEW t \in DOMAIN Switches!Pattern, NEW k \in DOMAIN analysed', Match(t, k)'
      PROVE  Guarded(t, k)' /\ Valued(t, k)'
  <2>1. Match(t, k)
    BY <1>8, SameCode
  <2>2. Compiled(t, k)
    BY <1>5, <2>1, CompiledIs
  <2>3. Guarded(t, k) /\ Valued(t, k)
    BY <1>6, <2>1 DEF Match
  <2> QED
    BY <1>4, <1>5, <1>6, <2>2, <2>3, GuardedNext, ValuedNext
<1> QED
  BY <1>7, <1>8

LEMMA RunInit == ToolInit => RunInv
BY DEF ToolInit, Switches!SwitchInit, RunInv

LEMMA RunNext == TablesInv /\ PrintInv /\ RunInv /\ [ToolNext]_toolVars => RunInv'
<1> SUFFICES ASSUME TablesInv, PrintInv, RunInv, [ToolNext]_toolVars PROVE RunInv'
  OBVIOUS
<1>1. CASE UNCHANGED toolVars
  <2>1. Fixed /\ UNCHANGED <<tables, stage, pc, reg, compared, guard, ctr>>
    BY <1>1 DEF toolVars, xexVars, switchVars, Fixed
  <2>2. /\ Switches!CompiledCode' = Switches!CompiledCode
        /\ \A t, k : Match(t, k)' <=> Match(t, k)
    BY <2>1, SameCode
  <2>3. ASSUME NEW t, NEW k, Guarded(t, k), Valued(t, k)
        PROVE  Guarded(t, k)' /\ Valued(t, k)'
    <3>1. /\ Switches!Comparison(k)' = Switches!Comparison(k)
          /\ CompareOf(k)' = CompareOf(k) /\ GuardOf(k)' = GuardOf(k)
          /\ \A n : Nth(k, n)' = Nth(k, n)
          /\ \A r : Steps(t, k, reg[r])' = Steps(t, k, reg[r])
          /\ Switches!Last[t]' = Switches!Last[t] /\ Switches!Register' = Switches!Register
      BY <2>1, SameComparison, SameNth, SameSteps DEF Switches!Last, Switches!Register
    <3>2. Guarded(t, k)'
      BY <2>1, <2>3, <3>1 DEF Guarded
    <3>3. Valued(t, k)'
      BY <2>1, <2>3, <3>1 DEF Valued, Computed
    <3> QED
      BY <3>2, <3>3
  <2> QED
    BY <2>1, <2>2, <2>3 DEF RunInv, Fixed
<1>2. CASE Prepare
  <2>1. stage = "wait" /\ UNCHANGED <<stage, reg, compared>>
    BY <1>2, XexRuns DEF TablesInv, Prepare, switchVars
  <2> QED
    BY <2>1 DEF RunInv
<1>3. CASE Translate
  <2>1. CASE Switches!Start({BaseImage(base), image} \ {<<>>}) \/ Switches!Analyse \/ Switches!PrintLine
    <3>1. stage' # "run" /\ UNCHANGED <<reg, compared>>
      BY <2>1 DEF Switches!Start, Switches!Analyse, Switches!Find, Switches!NextSection,
           Switches!NextPattern, Switches!WriteTables, Switches!PrintLine, Switches!runVars
    <3> QED
      BY <3>1 DEF RunInv
  <2>2. CASE Switches!Call
    <3>1. CASE Switches!CompiledCode' /\ analysed' = image'
      BY <2>2, <3>1, RunCall
    <3>2. CASE ~(Switches!CompiledCode' /\ analysed' = image')
      <4>1. PICK input \in Inputs : reg' = [r \in Switches!Register |-> input.reg[r]]
        BY <2>2 DEF Switches!Call
      <4>2. compared' = compared
        BY <2>2 DEF Switches!Call
      <4> QED
        BY <3>2, <4>1, <4>2 DEF RunInv
    <3> QED
      BY <3>1, <3>2
  <2>3. CASE Switches!Execute
    <3>1. stage = "run"
      BY <2>3 DEF Switches!Execute, Switches!Compute, Switches!Compare, Switches!MoveToCtr,
         Switches!Branch, Switches!Pass, Switches!ReturnToCaller, Switches!Switch,
         Switches!CallIndirect, Switches!Running
    <3>2. Fixed /\ UNCHANGED tables
      BY <1>3, <2>3, <3>1, LaterTables DEF Translate, fileVars
    <3> QED
      BY <2>3, <3>2, RunExecute
  <2> QED
    BY <1>3, <2>1, <2>2, <2>3 DEF Translate, Switches!SwitchNext
<1> QED
  BY <1>1, <1>2, <1>3 DEF ToolNext

(* The bctr that a found table is printed at is the one that its pattern   *)
(* computes the jump for.                                                  *)
LEMMA AtJump ==
  ASSUME TablesInv, PrintInv, Switches!CompiledCode,
         Switches!Running({"bctr"}), printed[pc] # 0,
         Switches!Straight(tables[printed[pc]]), pc \in Int
  PROVE  \E t \in 1 .. 4, k \in Int :
           /\ Match(t, k) /\ tables[printed[pc]] = Switches!Table(t, k)
           /\ pc = k + Switches!Last[t]
<1> DEFINE n == printed[pc]
<1>1. Switches!TypedLayout /\ stage = "run" /\ Insn(pc).op = "bctr" /\ analysed = image
  BY DEF Switches!CompiledCode, Switches!Running, Switches!Straight, Switches!I, Insn
<1>2. pc \in DOMAIN printed
  BY <1>1 DEF PrintInv, Insn, Switches!Insn, Switches!Nothing
<1>3. /\ n \in DOMAIN tables /\ tables[n].base \in Int /\ tables[n].base <= pc
      /\ \A m \in tables[n].base .. (pc - 1) : Insn(m).op # "bctr"
  BY <1>1, <1>2 DEF PrintInv, Shows
<1>4. tables[n] \in FoundTables
  <2>1. /\ tables \in Seq(FoundTables \cup HandTables)
        /\ Switches!Found \in Nat
        /\ \A m \in 1 .. Switches!Found : tables[m] \in FoundTables
    BY <1>1 DEF TablesInv
  <2>2. n <= Switches!Found
    BY DEF Switches!Straight, Switches!Found, Manual
  <2>3. n \in Nat /\ n >= 1
    <3> DEFINE S == FoundTables \cup HandTables
    <3> HIDE DEF S
    <3>1. tables \in Seq(S)
      BY <2>1 DEF S
    <3>2. Len(tables) \in Nat /\ DOMAIN tables = 1 .. Len(tables)
      BY <3>1
    <3> QED
      BY <1>3, <3>2
  <2> QED
    BY <2>1, <2>2, <2>3
<1> HIDE DEF n
<1>5. PICK s \in {s \in (1 .. 4) \X Int : Match(s[1], s[2])} : tables[n] = Switches!Table(s[1], s[2])
  BY <1>4 DEF FoundTables
<1>6. PICK t \in 1 .. 4, k \in Int : Match(t, k) /\ tables[n] = Switches!Table(t, k)
  BY <1>5
<1>7. tables[n].base = k
  BY <1>6 DEF Switches!Table
<1>8. PICK l \in Nat : l = Switches!Last[t] /\ l \in 5 .. 8
  BY LastIs
<1>9. Insn(k + l).op \in {"bctr", "bctrl"}
  <2>1. Compiled(t, k)
    BY <1>1, <1>6, CompiledIs
  <2>2. Switches!Insn(analysed, k + (l + 1) - 1).op \in {"bctr", "bctrl"}
    BY <1>8, <2>1 DEF Compiled, Switches!Computes
  <2>3. k + (l + 1) - 1 = k + l
    BY <1>6, <1>8
  <2> QED
    BY <1>1, <2>2, <2>3 DEF Insn
<1>10. \A m \in k .. (pc - 1) : Insn(m).op \notin {"bctr", "bctrl"}
  BY <1>3, <1>7 DEF Switches!Straight, Insn, n
<1>11. ~(k + l < pc)
  BY <1>8, <1>9, <1>10
<1>12. ~(pc < k + l)
  <2> SUFFICES ASSUME pc < k + l PROVE FALSE
    OBVIOUS
  <2>1. pc - k + 1 \in 1 .. l /\ k + (pc - k + 1) - 1 = pc
    BY <1>3, <1>7, <1>8
  <2>2. Insn(pc).op = Switches!Pattern[t][pc - k + 1]
    BY <1>1, <1>6, <1>8, <2>1, PatternWord DEF Nth, Insn
  <2>3. pc - k + 1 = l \/ pc - k + 1 \in 1 .. (l - 1)
    BY <1>8, <2>1
  <2>4. Switches!Pattern[t][pc - k + 1] # "bctr"
    BY <1>8, <2>3, LastIs
  <2> QED
    BY <1>1, <2>2, <2>4
<1>13. pc = k + l
  BY <1>8, <1>11, <1>12
<1> QED
  BY <1>6, <1>8, <1>13 DEF n

(* The three invariants are enough.                                        *)
LEMMA FollowsTable ==
  ASSUME TablesInv, PrintInv, RunInv, Switches!CompiledCode
  PROVE  SwitchFollowsTable
<1> SUFFICES ASSUME Switches!Running({"bctr"}), printed[pc] # 0, Switches!Straight(tables[printed[pc]])
             PROVE  /\ tables[printed[pc]].r \notin upper
                    /\ reg[tables[printed[pc]].r] + 1 \in DOMAIN tables[printed[pc]].labels
                    /\ tables[printed[pc]].labels[reg[tables[printed[pc]].r] + 1] = ctr
  BY DEF SwitchFollowsTable, Switches!SwitchFollowsTable
<1>1. stage = "run" /\ pc # 0 /\ analysed = image
  BY DEF Switches!Running, Switches!Straight
<1>2. /\ pc \in Int
      /\ \A t \in DOMAIN Switches!Pattern, k \in DOMAIN analysed :
           Match(t, k) => Guarded(t, k) /\ Valued(t, k)
  BY <1>1 DEF RunInv
<1>3. PICK t \in 1 .. 4, k \in Int :
        /\ Match(t, k) /\ tables[printed[pc]] = Switches!Table(t, k)
        /\ pc = k + Switches!Last[t]
  BY <1>2, AtJump
<1>4. PICK c : c = Switches!Comparison(k)
  OBVIOUS
<1>5. Guarded(t, k) /\ Valued(t, k) /\ Compiled(t, k)
  BY <1>1, <1>2, <1>3, CompiledIs DEF Match
<1>6. c.b \in Int /\ Switches!Computes(t, k, c.a)
  BY <1>4, <1>5 DEF Compiled
<1>7. guard.r = c.a /\ guard.b = c.b
  <2>1. pc \in (GuardOf(k) + 1) .. (k + Switches!Last[t])
    BY <1>3, LastIs, Where
  <2> QED
    BY <1>4, <1>5, <2>1 DEF Guarded
<1>8. PICK x \in Int : x = reg[c.a] /\ x \in 0 .. c.b
  BY <1>6, <1>7 DEF Switches!Straight
<1>9. c.a \in Switches!Register /\ c.a \notin upper
  BY <1>7 DEF Switches!Straight
<1>10. ctr = Switches!Label(t, k, x)
  <2>1. ctr = Steps(t, k, x)[Switches!Last[t] - 1]
    BY <1>3, <1>4, <1>5, <1>8, <1>9 DEF Valued
  <2> QED
    BY <1>6, <2>1, JumpIs
<1>11. /\ tables[printed[pc]].r = c.a
       /\ tables[printed[pc]].labels = [n \in 1 .. (c.b + 1) |-> Switches!Label(t, k, n - 1)]
  BY <1>3, <1>4 DEF Switches!Table
<1>12. x + 1 \in 1 .. (c.b + 1) /\ x + 1 - 1 = x
  BY <1>6, <1>8
<1>13. tables[printed[pc]].labels[x + 1] = ctr
  BY <1>10, <1>11, <1>12
<1> QED
  BY <1>8, <1>9, <1>11, <1>12, <1>13

(* For code as the compiler writes it (CompiledCode), every switch that    *)
(* Recompile prints for a bctr, from a table that XenonAnalyse's ScanTable *)
(* and ReadTable found, goes where the guest's bctr would go.              *)
THEOREM SwitchesFollowTables == ToolSpec => [](Switches!CompiledCode => SwitchFollowsTable)
<1> DEFINE All == TablesInv /\ PrintInv /\ RunInv
<1>1. ToolInit => All
  BY TablesInit, PrintInit, RunInit
<1>2. All /\ [ToolNext]_toolVars => All'
  BY TablesNext, PrintNext, RunNext
<1>3. All => (Switches!CompiledCode => SwitchFollowsTable)
  BY FollowsTable
<1> HIDE DEF All
<1> QED
  BY <1>1, <1>2, <1>3, PTL DEF ToolSpec
-----------------------------------------------------------------------------
(* The search of XenonAnalyse is complete                                  *)

(* What the search has come past.                                          *)
Passed(t, s, k) == t < type \/ (t = type /\ (s < section \/ (s = section /\ k < data)))

Places(t, s, k) ==
  /\ t \in DOMAIN Switches!Pattern /\ s \in DOMAIN Switches!Sections /\ k \in DOMAIN analysed
  /\ Switches!Hit(t, s, k)

(* In the first n entries, there is a table for each place passed, and for *)
(* no other place.                                                         *)
Complete(n) ==
  /\ \A m \in 1 .. n : \E t, s, k : Places(t, s, k) /\ tables[m] = Switches!Table(t, k)
  /\ \A t, s, k : Places(t, s, k) /\ Passed(t, s, k) =>
       \E m \in 1 .. n : tables[m] = Switches!Table(t, k)

(* The search goes on at or behind the start of its section.               *)
Ahead ==
  section <= Len(Switches!Sections) => data \in Int /\ Switches!Sections[section].first <= data

(* The tables so far are those of the places passed; when the file is      *)
(* written all places are passed.                                          *)
ScanInv ==
  Switches!TypedLayout =>
    /\ stage = "scan" => Complete(Len(tables)) /\ Ahead
    /\ stage = "print" => Complete(Switches!Found) /\ \A t, s, k : Places(t, s, k) => Passed(t, s, k)

LEMMA TypedSections ==
  ASSUME Switches!TypedLayout
  PROVE  /\ Len(Switches!Sections) \in Nat
         /\ DOMAIN Switches!Sections = 1 .. Len(Switches!Sections)
         /\ \A n \in 1 .. Len(Switches!Sections) :
              Switches!Sections[n].first \in Int /\ Switches!Sections[n].last \in Int
<1>1. ASSUME NEW q, q \in Seq([first : Int, last : Int, code : BOOLEAN])
      PROVE  /\ Len(q) \in Nat /\ DOMAIN q = 1 .. Len(q)
             /\ \A n \in 1 .. Len(q) : q[n].first \in Int /\ q[n].last \in Int
  <2>1. Len(q) \in Nat /\ \A n \in 1 .. Len(q) : q[n] \in [first : Int, last : Int, code : BOOLEAN]
    BY <1>1, Members, Zenon
  <2> QED
    BY <1>1, <2>1
<1> QED
  BY <1>1 DEF Switches!TypedLayout

LEMMA PlaceIs ==
  ASSUME Switches!TypedLayout, NEW t, NEW s, NEW k, Places(t, s, k)
  PROVE  /\ t \in 1 .. 4 /\ s \in Nat /\ s >= 1 /\ s <= Len(Switches!Sections)
         /\ Switches!Sections[s].code /\ Switches!Sections[s].first \in Int
         /\ Switches!Sections[s].last \in Int
         /\ k \in Switches!Sections[s].first .. Switches!Sections[s].last /\ k \in Int
         /\ Switches!Fits(t, k) /\ Match(t, k) /\ Switches!Comparison(k) # Switches!Nothing
<1>1. /\ t \in 1 .. 4 /\ s \in DOMAIN Switches!Sections /\ k \in DOMAIN analysed
      /\ Switches!Sections[s].code /\ k \in Switches!Sections[s].first .. Switches!Sections[s].last
      /\ Switches!Fits(t, k) /\ Switches!Compares(k) # {}
  BY PatternIs DEF Places, Switches!Hit
<1>3. /\ s \in Nat /\ s >= 1 /\ s <= Len(Switches!Sections)
      /\ Switches!Sections[s].first \in Int /\ Switches!Sections[s].last \in Int
  BY <1>1, TypedSections
<1>4. k \in Int
  BY <1>1, <1>3
<1>5. Match(t, k)
  BY <1>1, <1>4, PatternIs DEF Match
<1>6. Switches!Comparison(k) # Switches!Nothing
  BY <1>5, Where DEF Switches!Nothing
<1> QED
  BY <1>1, <1>3, <1>4, <1>5, <1>6

LEMMA SamePlaces ==
  ASSUME Fixed
  PROVE  /\ \A t, s, k : Places(t, s, k)' <=> Places(t, s, k)
         /\ \A t, k : Switches!Table(t, k)' = Switches!Table(t, k)
<1>1. /\ Switches!Sections' = Switches!Sections
      /\ \A t, k : Switches!Fits(t, k)' <=> Switches!Fits(t, k)
      /\ \A k : Switches!Compares(k)' = Switches!Compares(k)
      /\ \A k : Switches!Comparison(k)' = Switches!Comparison(k)
      /\ \A t, k, n : Switches!Label(t, k, n)' = Switches!Label(t, k, n)
      /\ analysed' = analysed
  BY SameTables, SameComparison DEF Fixed, Switches!Fits, Switches!Compares, Switches!Branches,
     Switches!Insn, Switches!Label, Switches!Constant
<1>2. \A t, s, k : Places(t, s, k)' <=> Places(t, s, k)
  BY <1>1 DEF Places, Switches!Hit, Switches!Pattern
<1>3. \A t, k : Switches!Table(t, k)' = Switches!Table(t, k)
  BY <1>1 DEF Switches!Table
<1> QED
  BY <1>2, <1>3

LEMMA CompleteThen ==
  ASSUME Fixed, NEW n, n = Len(tables'),
         \A m \in 1 .. n : \E t, s, k : Places(t, s, k) /\ tables'[m] = Switches!Table(t, k),
         \A t, s, k : Places(t, s, k) /\ Passed(t, s, k)' =>
           \E m \in 1 .. n : tables'[m] = Switches!Table(t, k)
  PROVE  Complete(Len(tables))'
<1>1. ASSUME NEW m \in 1 .. n
      PROVE  \E t, s, k : Places(t, s, k)' /\ tables'[m] = Switches!Table(t, k)'
  <2>1. PICK t, s, k : Places(t, s, k) /\ tables'[m] = Switches!Table(t, k)
    OBVIOUS
  <2>2. Places(t, s, k)' /\ Switches!Table(t, k)' = Switches!Table(t, k)
    BY <2>1, SamePlaces
  <2> QED
    BY <2>1, <2>2
<1>2. ASSUME NEW t, NEW s, NEW k, Places(t, s, k)', Passed(t, s, k)'
      PROVE  \E m \in 1 .. n : tables'[m] = Switches!Table(t, k)'
  <2>1. Places(t, s, k) /\ Switches!Table(t, k)' = Switches!Table(t, k)
    BY <1>2, SamePlaces
  <2>2. PICK m \in 1 .. n : tables'[m] = Switches!Table(t, k)
    BY <1>2, <2>1
  <2> QED
    BY <2>1, <2>2
<1> QED
  BY <1>1, <1>2 DEF Complete

(* SearchMask stops at the first hit, so that nothing before it is lost.   *)
LEMMA FindComplete ==
  ASSUME TablesInv, Switches!TypedLayout, Switches!Find, Complete(Len(tables)), Ahead, Fixed
  PROVE  Complete(Len(tables))' /\ Ahead'
<1> DEFINE hits == Switches!Matches(type, data, Switches!Sections[section].last)
<1>1. PICK k0 : k0 = Switches!Min(hits)
  OBVIOUS
<1>2. /\ type \in 1 .. 4 /\ section \in Nat \ {0} /\ section <= Len(Switches!Sections) /\ data \in Int
      /\ tables \in Seq(FoundTables) /\ hits # {} /\ Switches!Sections[section].code
      /\ tables' = IF Switches!Comparison(k0) = Switches!Nothing THEN tables
                   ELSE Append(tables, Switches!Table(type, k0))
      /\ data' = k0 + 1 /\ UNCHANGED <<type, section>>
  BY <1>1 DEF TablesInv, Switches!Find
<1>3. \A x \in hits : x \in Int /\ data <= x
  BY <1>2 DEF Switches!Matches
<1>4. k0 \in hits /\ \A x \in hits : k0 <= x
  <2> HIDE DEF hits
  <2> QED
    BY <1>1, <1>2, <1>3, MinOfRange
<1>5. k0 \in Int /\ data <= k0 /\ Switches!Fits(type, k0)
  BY <1>3, <1>4 DEF Switches!Matches
<1>6. \A t, s, k : Places(t, s, k) /\ Passed(t, s, k)' =>
        Passed(t, s, k) \/ (t = type /\ k = k0)
  <2> SUFFICES ASSUME NEW t, NEW s, NEW k, Places(t, s, k), Passed(t, s, k)', ~Passed(t, s, k)
               PROVE  t = type /\ k = k0
    OBVIOUS
  <2>1. /\ t \in 1 .. 4 /\ s \in Nat /\ k \in Int /\ Switches!Fits(t, k)
        /\ k <= Switches!Sections[s].last /\ Switches!Sections[s].last \in Int
    BY PlaceIs
  <2>2. t = type /\ s = section /\ data <= k /\ k <= k0
    BY <1>2, <1>5, <2>1 DEF Passed
  <2>3. k \in hits
    BY <1>2, <2>1, <2>2 DEF Switches!Matches
  <2> HIDE DEF hits
  <2> QED
    BY <1>4, <1>5, <2>1, <2>2, <2>3
<1> HIDE DEF hits
<1>7. /\ Len(tables) \in Nat
      /\ \A m \in 1 .. Len(tables) : tables[m] \in FoundTables
  BY <1>2, Members, Zenon
<1>8. ASSUME Switches!Comparison(k0) = Switches!Nothing PROVE Complete(Len(tables))'
  <2>1. tables' = tables
    BY <1>2, <1>8
  <2>2. \A t, s, k : Places(t, s, k) /\ Passed(t, s, k)' => Passed(t, s, k)
    BY <1>6, <1>8, PlaceIs
  <2>3. PICK n : n = Len(tables) /\ n = Len(tables')
    BY <2>1
  <2>4. \A m \in 1 .. n : \E t, s, k : Places(t, s, k) /\ tables'[m] = Switches!Table(t, k)
    BY <2>1, <2>3 DEF Complete
  <2>5. \A t, s, k : Places(t, s, k) /\ Passed(t, s, k)' =>
          \E m \in 1 .. n : tables'[m] = Switches!Table(t, k)
    BY <2>1, <2>2, <2>3 DEF Complete
  <2> QED
    BY <2>3, <2>4, <2>5, CompleteThen
<1>9. ASSUME Switches!Comparison(k0) # Switches!Nothing PROVE Complete(Len(tables))'
  <2>1. tables' = Append(tables, Switches!Table(type, k0))
    BY <1>2, <1>9
  <2>2. PICK n \in Nat : n = Len(tables)
    BY <1>7
  <2>3. /\ Len(tables') = n + 1 /\ tables'[n + 1] = Switches!Table(type, k0)
        /\ \A m \in 1 .. n : tables'[m] = tables[m]
    <3> DEFINE S == FoundTables \cup {Switches!Table(type, k0)}
               e == Switches!Table(type, k0)
    <3>1. tables \in Seq(S) /\ e \in S
      <4>1. FoundTables \subseteq S
        OBVIOUS
      <4> HIDE DEF S
      <4>2. tables \in Seq(S)
        BY <1>2, <4>1
      <4> QED
        BY <4>2 DEF S
    <3> HIDE DEF S, e
    <3>2. tables' = Append(tables, e)
      BY <2>1 DEF e
    <3>3. /\ Len(tables') = n + 1 /\ tables'[n + 1] = e
          /\ \A m \in 1 .. n : tables'[m] = tables[m]
      BY <2>2, <3>1, <3>2, AppendProperties
    <3> QED
      BY <3>3 DEF e
  <2>4. Places(type, section, k0)
    <3>1. Switches!Compares(k0) # {}
      BY <1>9 DEF Switches!Comparison
    <3>2. k0 \in DOMAIN analysed
      <4>1. Switches!Insn(analysed, k0 + 1 - 1).op = "lis"
        BY <1>2, <1>5, PatternIs DEF Switches!Fits
      <4>2. k0 + 1 - 1 = k0
        BY <1>5
      <4> QED
        BY <4>1, <4>2 DEF Switches!Insn, Switches!Nothing
    <3>3. k0 \in Switches!Sections[section].first .. Switches!Sections[section].last
      <4>1. /\ Switches!Sections[section].first \in Int /\ Switches!Sections[section].first <= data
            /\ k0 \in data .. Switches!Sections[section].last
        BY <1>2, <1>4, TypedSections DEF Ahead, Switches!Matches, hits
      <4> QED
        BY <1>2, <1>5, <4>1, TypedSections
    <3> QED
      BY <1>2, <1>5, <3>1, <3>2, <3>3, PatternIs DEF Places, Switches!Hit
  <2>5. ASSUME NEW m \in 1 .. (n + 1)
        PROVE  \E t, s, k : Places(t, s, k) /\ tables'[m] = Switches!Table(t, k)
    <3>1. m = n + 1 \/ m \in 1 .. n
      BY <2>2
    <3> QED
      BY <2>2, <2>3, <2>4, <3>1 DEF Complete
  <2>6. ASSUME NEW t, NEW s, NEW k, Places(t, s, k), Passed(t, s, k)'
        PROVE  \E m \in 1 .. (n + 1) : tables'[m] = Switches!Table(t, k)
    <3>1. CASE Passed(t, s, k)
      <4>1. PICK m \in 1 .. n : tables[m] = Switches!Table(t, k)
        BY <2>2, <2>6, <3>1 DEF Complete
      <4>2. m \in 1 .. (n + 1) /\ tables'[m] = Switches!Table(t, k)
        BY <2>2, <2>3, <4>1
      <4> QED
        BY <4>2
    <3>2. CASE ~Passed(t, s, k)
      <4>1. t = type /\ k = k0
        BY <1>6, <2>6, <3>2
      <4>2. n + 1 \in 1 .. (n + 1) /\ tables'[n + 1] = Switches!Table(t, k)
        BY <2>2, <2>3, <4>1
      <4> QED
        BY <4>2
    <3> QED
      BY <3>1, <3>2
  <2> QED
    BY <2>3, <2>5, <2>6, CompleteThen
<1>10. Complete(Len(tables))'
  BY <1>8, <1>9
<1>11. Ahead'
  <2>1. Switches!Sections' = Switches!Sections /\ Switches!Sections[section].first \in Int
    BY <1>2, SameTables, TypedSections
  <2>2. Switches!Sections[section].first <= k0 + 1 /\ k0 + 1 \in Int
    BY <1>2, <1>5, <2>1 DEF Ahead
  <2> QED
    BY <1>2, <2>1, <2>2 DEF Ahead
<1> QED
  BY <1>10, <1>11

(* A section is left when it has no more hits, a pattern after all         *)
(* sections.                                                               *)
LEMMA ScanComplete ==
  ASSUME TablesInv, ScanInv, stage = "scan", Switches!Analyse, Fixed
  PROVE  ScanInv'
<1>1. /\ Switches!TypedLayout' = Switches!TypedLayout
      /\ Switches!Sections' = Switches!Sections
      /\ \A t, s, k : Places(t, s, k)' <=> Places(t, s, k)
      /\ \A t, k : Switches!Table(t, k)' = Switches!Table(t, k)
  BY SameTables, SamePlaces
<1> SUFFICES ASSUME Switches!TypedLayout
             PROVE  /\ stage' = "scan" => Complete(Len(tables))' /\ Ahead'
                    /\ stage' = "print" => /\ Complete(Switches!Found)'
                                           /\ \A t, s, k : Places(t, s, k) => Passed(t, s, k)'
  BY <1>1 DEF ScanInv
<1>2. /\ Complete(Len(tables)) /\ Ahead
      /\ type \in 1 .. 4 /\ section \in Nat \ {0}
      /\ section <= Len(Switches!Sections) => data \in Int
      /\ tables \in Seq(FoundTables)
  BY DEF ScanInv, TablesInv
<1>3. PICK w \in Nat : w = Len(Switches!Sections)
  BY TypedSections
<1>4. CASE Switches!Find
  <2>1. stage' = "scan"
    BY <1>4 DEF Switches!Find
  <2> QED
    BY <1>2, <1>4, <2>1, FindComplete
<1>5. CASE Switches!NextSection
  <2>1. /\ stage' = "scan" /\ UNCHANGED <<type, tables>> /\ section' = section + 1
        /\ data' = IF section < w THEN Switches!Sections[section + 1].first ELSE 0
        /\ section <= w
        /\ Switches!Sections[section].code => Switches!Matches(type, data, Switches!Sections[section].last) = {}
    BY <1>3, <1>5 DEF Switches!NextSection
  <2>2. ASSUME NEW t, NEW s, NEW k, Places(t, s, k), Passed(t, s, k)'
        PROVE  Passed(t, s, k)
    <3>1. /\ t \in 1 .. 4 /\ s \in Nat /\ s >= 1 /\ s <= w
          /\ Switches!Sections[s].code /\ Switches!Sections[s].first \in Int
          /\ Switches!Sections[s].last \in Int
          /\ k \in Switches!Sections[s].first .. Switches!Sections[s].last /\ k \in Int
          /\ Switches!Fits(t, k)
      BY <1>3, <2>2, PlaceIs
    <3>2. t < type \/ (t = type /\ s < section) \/ (t = type /\ s = section)
          \/ (t = type /\ s = section + 1 /\ k < data')
      BY <1>2, <2>1, <2>2, <3>1 DEF Passed
    <3>3. CASE t = type /\ s = section
      <4>1. k \notin Switches!Matches(type, data, Switches!Sections[section].last)
        BY <2>1, <3>1, <3>3
      <4>2. k < data
        BY <1>2, <1>3, <2>1, <3>1, <3>3, <4>1 DEF Switches!Matches
      <4> QED
        BY <3>3, <4>2 DEF Passed
    <3>4. ~(t = type /\ s = section + 1 /\ k < data')
      BY <1>2, <2>1, <3>1
    <3> QED
      BY <3>2, <3>3, <3>4 DEF Passed
  <2>3. Complete(Len(tables))'
    BY <1>1, <1>2, <2>1, <2>2 DEF Complete
  <2>4. Ahead'
    <3> SUFFICES ASSUME section' <= w
                 PROVE  data' \in Int /\ Switches!Sections[section'].first <= data'
      BY <1>1, <1>3 DEF Ahead
    <3>1. section + 1 \in 1 .. w /\ section < w
      BY <1>2, <2>1
    <3>2. Switches!Sections[section + 1].first \in Int
      BY <1>3, <3>1, TypedSections
    <3> QED
      BY <2>1, <3>1, <3>2
  <2> QED
    BY <2>1, <2>3, <2>4
<1>6. CASE Switches!NextPattern
  <2>1. /\ stage' = "scan" /\ UNCHANGED tables /\ section' = 1 /\ type' = type + 1 /\ type < 4
        /\ data' = Switches!FirstWord /\ section > w
    BY <1>3, <1>6, PatternIs DEF Switches!NextPattern
  <2>2. w >= 1 => data' = Switches!Sections[1].first /\ data' \in Int
    BY <1>3, <2>1, TypedSections DEF Switches!FirstWord
  <2>3. ASSUME NEW t, NEW s, NEW k, Places(t, s, k), Passed(t, s, k)'
        PROVE  Passed(t, s, k)
    <3>1. /\ t \in 1 .. 4 /\ s \in Nat /\ s >= 1 /\ s <= w
          /\ k \in Switches!Sections[s].first .. Switches!Sections[s].last /\ k \in Int
          /\ Switches!Sections[s].first \in Int
      BY <1>3, <2>3, PlaceIs
    <3>2. t < type + 1
      BY <1>2, <2>1, <2>2, <2>3, <3>1 DEF Passed
    <3> QED
      BY <1>2, <2>1, <3>1, <3>2 DEF Passed
  <2>4. Complete(Len(tables))'
    BY <1>1, <1>2, <2>1, <2>3 DEF Complete
  <2>5. Ahead'
    BY <1>1, <1>3, <2>1, <2>2 DEF Ahead
  <2> QED
    BY <2>1, <2>4, <2>5
<1>7. CASE Switches!WriteTables
  <2>1. /\ stage' = "print" /\ UNCHANGED <<type, section, data>> /\ type = 4 /\ section > w
        /\ tables' = tables \o Manual
    BY <1>3, <1>7, PatternIs DEF Switches!WriteTables, Manual
  <2>2. ASSUME NEW t, NEW s, NEW k, Places(t, s, k)
        PROVE  Passed(t, s, k) /\ Passed(t, s, k)'
    <3>1. t \in 1 .. 4 /\ s \in Nat /\ s <= w
      BY <1>3, <2>2, PlaceIs
    <3> QED
      BY <1>2, <2>1, <3>1 DEF Passed
  <2>3. PICK n \in Nat : n = Len(tables)
    BY <1>2
  <2>4. /\ Switches!Found' = n
        /\ \A m \in 1 .. n : tables'[m] = tables[m]
    <3>1. Manual \in Seq(HandTables) /\ Manual' = Manual
      BY SameTables DEF Manual, Switches!TypedLayout, HandTables
    <3> DEFINE S == FoundTables
               H == HandTables
    <3> HIDE DEF S, H
    <3>2. tables \in Seq(S) /\ Manual \in Seq(H)
      BY <1>2, <3>1 DEF S, H
    <3>3. tables \in Seq(S \cup H) /\ Manual \in Seq(S \cup H)
      BY <3>2
    <3>4. /\ Len(tables \o Manual) = Len(tables) + Len(Manual) /\ Len(Manual) \in Nat
          /\ \A m \in 1 .. Len(tables) : (tables \o Manual)[m] = tables[m]
      BY <3>3, ConcatProperties
    <3>5. Switches!Found' = Len(tables') - Len(Manual)
      BY <3>1 DEF Switches!Found, Manual
    <3> QED
      BY <2>1, <2>3, <3>4, <3>5
  <2>5. /\ \A m \in 1 .. n : \E t, s, k : Places(t, s, k) /\ tables'[m] = Switches!Table(t, k)
        /\ \A t, s, k : Places(t, s, k) => \E m \in 1 .. n : tables'[m] = Switches!Table(t, k)
    <3>1. /\ \A m \in 1 .. n : \E t, s, k : Places(t, s, k) /\ tables[m] = Switches!Table(t, k)
          /\ \A t, s, k : Places(t, s, k) => \E m \in 1 .. n : tables[m] = Switches!Table(t, k)
      BY <1>2, <2>2, <2>3 DEF Complete
    <3>2. ASSUME NEW t, NEW s, NEW k, Places(t, s, k)
          PROVE  \E m \in 1 .. n : tables'[m] = Switches!Table(t, k)
      BY <2>4, <3>1, <3>2
    <3>3. \A m \in 1 .. n : \E t, s, k : Places(t, s, k) /\ tables'[m] = Switches!Table(t, k)
      BY <2>4, <3>1
    <3> QED
      BY <3>2, <3>3
  <2>6. Complete(Switches!Found)'
    BY <1>1, <2>2, <2>4, <2>5 DEF Complete
  <2> QED
    BY <2>1, <2>2, <2>6
<1> QED
  BY <1>4, <1>5, <1>6, <1>7 DEF Switches!Analyse

LEMMA ScanInit == ToolInit => ScanInv
BY DEF ToolInit, Switches!SwitchInit, ScanInv

LEMMA ScanStart ==
  ASSUME TablesInv, Switches!Start({BaseImage(base), image} \ {<<>>})
  PROVE  ScanInv'
<1>1. /\ stage' = "scan" /\ tables' = <<>> /\ type' = 1 /\ section' = 1
      /\ data' = Layout(analysed').sections[1].first
  BY DEF Switches!Start, TablesInv
<1>2. SUFFICES ASSUME Switches!TypedLayout' PROVE Complete(Len(tables))' /\ Ahead'
  BY <1>1 DEF ScanInv
<1>3. PICK q : q = Layout(analysed').sections /\ q = Switches!Sections'
  BY DEF Switches!Sections
<1>4. /\ Len(q) \in Nat /\ DOMAIN q = 1 .. Len(q)
      /\ \A n \in 1 .. Len(q) : q[n].first \in Int
  <2>1. q \in Seq([first : Int, last : Int, code : BOOLEAN])
    BY <1>2, <1>3 DEF Switches!TypedLayout
  <2>2. Len(q) \in Nat /\ \A n \in 1 .. Len(q) : q[n] \in [first : Int, last : Int, code : BOOLEAN]
    BY <2>1, Members, Zenon
  <2> QED
    BY <2>1, <2>2
<1>5. Ahead'
  BY <1>1, <1>3, <1>4 DEF Ahead
<1>6. ASSUME NEW t, NEW s, NEW k, Places(t, s, k)' PROVE ~Passed(t, s, k)'
  <2>1. /\ t \in 1 .. 4 /\ s \in 1 .. Len(q)
        /\ k \in q[s].first .. q[s].last
    BY <1>3, <1>4, <1>6, PatternIs DEF Places, Switches!Hit, Switches!Pattern
  <2>2. q[s].first \in Int
    BY <1>4, <2>1
  <2>3. k >= q[s].first /\ k \in Int
    BY <2>1, <2>2
  <2> QED
    BY <1>1, <1>3, <1>4, <2>1, <2>2, <2>3 DEF Passed
<1>7. Complete(Len(tables))'
  BY <1>1, <1>6 DEF Complete
<1> QED
  BY <1>5, <1>7

LEMMA ScanNext == TablesInv /\ ScanInv /\ [ToolNext]_toolVars => ScanInv'
<1> SUFFICES ASSUME TablesInv, ScanInv, [ToolNext]_toolVars PROVE ScanInv'
  OBVIOUS
<1>1. ASSUME Fixed, UNCHANGED <<stage, tables, type, section, data>> PROVE ScanInv'
  <2>1. /\ Switches!TypedLayout' = Switches!TypedLayout
        /\ Switches!Sections' = Switches!Sections
        /\ \A t, s, k : Places(t, s, k)' <=> Places(t, s, k)
        /\ \A t, k : Switches!Table(t, k)' = Switches!Table(t, k)
        /\ Manual' = Manual
    BY <1>1, SameTables, SamePlaces
  <2>2. Switches!Found' = Switches!Found /\ Ahead' = Ahead
    BY <1>1, <2>1 DEF Switches!Found, Ahead, Manual
  <2>3. \A t, s, k : Passed(t, s, k)' <=> Passed(t, s, k)
    BY <1>1 DEF Passed
  <2>4. /\ Complete(Len(tables))' <=> Complete(Len(tables))
        /\ Complete(Switches!Found)' <=> Complete(Switches!Found)
    BY <1>1, <2>1, <2>2, <2>3 DEF Complete
  <2> QED
    BY <1>1, <2>1, <2>2, <2>3, <2>4 DEF ScanInv
<1>2. CASE UNCHANGED toolVars
  BY <1>1, <1>2 DEF toolVars, xexVars, switchVars, Fixed
<1>3. CASE Prepare
  <2>1. stage = "wait" /\ UNCHANGED stage
    BY <1>3, XexRuns DEF TablesInv, Prepare, switchVars
  <2> QED
    BY <2>1 DEF ScanInv
<1>4. CASE Translate
  <2>1. CASE Switches!Start({BaseImage(base), image} \ {<<>>})
    BY <2>1, ScanStart
  <2>2. CASE Switches!Analyse
    <3>1. stage = "scan" /\ Fixed
      BY <2>2 DEF Switches!Analyse, Switches!Find, Switches!NextSection, Switches!NextPattern,
             Switches!WriteTables, Fixed
    <3> QED
      BY <2>2, <3>1, ScanComplete
  <2>3. CASE Switches!PrintLine
    <3>1. Fixed /\ UNCHANGED <<stage, tables, type, section, data>>
      BY <2>3 DEF Switches!PrintLine, Switches!scanVars, Fixed
    <3> QED
      BY <1>1, <3>1
  <2>4. CASE Switches!Call \/ Switches!Execute
    <3>1. stage' \notin {"scan", "print"}
      <4>1. CASE Switches!Call \/ Switches!Compute \/ Switches!Compare \/ Switches!MoveToCtr
        BY <4>1 DEF Switches!Call, Switches!Compute, Switches!Compare, Switches!MoveToCtr, Switches!Running
      <4>2. CASE Switches!Branch \/ Switches!Pass \/ Switches!ReturnToCaller \/ Switches!Switch \/ Switches!CallIndirect
        BY <4>2 DEF Switches!Branch, Switches!Pass, Switches!ReturnToCaller, Switches!Switch,
             Switches!CallIndirect, Switches!Running, Switches!Go, Switches!Return
      <4> QED
        BY <2>4, <4>1, <4>2 DEF Switches!Execute
    <3> QED
      BY <3>1 DEF ScanInv
  <2> QED
    BY <1>4, <2>1, <2>2, <2>3, <2>4 DEF Translate, Switches!SwitchNext
<1> QED
  BY <1>2, <1>3, <1>4 DEF ToolNext

(* The search is complete: the file that Recompile reads has the table of  *)
(* each place in a code section where SearchMask can find a pattern and    *)
(* ScanTable a comparison, as ReadTable reads it, and no other.            *)
THEOREM SearchIsComplete == ToolSpec => [](Switches!TypedLayout => EveryTableFound)
<1> DEFINE All == TablesInv /\ ScanInv
<1>1. ToolInit => All
  BY TablesInit, ScanInit
<1>2. All /\ [ToolNext]_toolVars => All'
  BY TablesNext, ScanNext
<1>3. All => (Switches!TypedLayout => EveryTableFound)
  <2> SUFFICES ASSUME ScanInv, Switches!TypedLayout, stage = "print" PROVE EveryTableFound
    BY DEF EveryTableFound, Switches!EveryTableFound
  <2>1. Complete(Switches!Found) /\ \A t, s, k : Places(t, s, k) => Passed(t, s, k)
    BY DEF ScanInv
  <2> QED
    BY <2>1 DEF Complete, Places, EveryTableFound, Switches!EveryTableFound
<1> HIDE DEF All
<1> QED
  BY <1>1, <1>2, <1>3, PTL DEF ToolSpec
===============================================================================
