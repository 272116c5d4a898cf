------------------------------- MODULE XexImage -------------------------------
(***************************************************************************)
(* An executable on its way to the analyzers.                              *)
(*                                                                         *)
(*   XexPatcher::apply   XenonUtils/xex_patcher.cpp  base + patch -> file  *)
(*   Xex2LoadImage       XenonUtils/xex.cpp          file -> image         *)
(*                                                                         *)
(* apply works in one buffer, outBytes: the header, then the executable,   *)
(* which is decrypted, decompressed and patched in place.  The model       *)
(* counts in words and keeps the part behind the header; of headers it     *)
(* keeps what both programs read.  Crypt stands for AES: it changes every  *)
(* word and is its own inverse.  A hash is the words it was made from.     *)
(***************************************************************************)
EXTENDS Integers, Sequences

CONSTANTS
  Bases,     \* base executables
  Patches,   \* patch files
  Offsets    \* by base: where each basic block starts in the file and in the image

(* Of a file: the sizes and formats in its header, its words, and for the  *)
(* two compressions its blocks.  A basic block is some data and some       *)
(* zeroes.  A normal block has a size and a hash over so many words; its   *)
(* chunks hand on some data and end wherever the first empty chunk is,     *)
(* which need not lie in the block, nor in the file.                       *)
ASSUME XexAssumption ==
  \A b \in Bases :
    /\ b.header \in Nat /\ b.imageSize \in Nat
    /\ b.words \in Seq(Int)
    /\ b.blocks \in Seq([data : Nat, zero : Nat])
    /\ b.chain \in Seq([size : Nat, reach : Nat, data : Nat, hash : Seq(Int)])
    /\ \A m \in 1 .. Len(b.chain) : b.chain[m].data <= b.chain[m].reach

(* The compressed size of an entry says what the entry does; words is what *)
(* it has to decompress.                                                   *)
DeltaEntry ==
  [op : {"zero", "move", "lzx"}, new : Nat, old : Nat, n : Nat, words : Seq(Int)]

(* Of a patch: the size of the header it makes, how far its delta for the  *)
(* header reads and writes and how much reference data that takes, the     *)
(* window of the decompressor, the words behind its own header, and its    *)
(* blocks.  The entries of a block are read up to reach, the next block    *)
(* begins step words on: that is its size, but the 32 bits of              *)
(* blockSize - 24 wrap in a block that does not hold its own header.       *)
ASSUME PatchAssumption ==
  \A p \in Patches :
    /\ p.imageSize \in Nat /\ p.target \in Nat /\ p.dataSize \in Nat
    /\ p.headerReach \in Nat /\ p.headerWindow \in Nat /\ p.window \in Nat
    /\ p.move \in DeltaEntry /\ p.move.op = "move"
    /\ p.blocks \in Seq([entries : Seq(DeltaEntry), intact : BOOLEAN,
                          size : Nat, reach : Nat, step : Nat])
    /\ p.blockAt \in [1 .. (Len(p.blocks) + 1) -> Nat]
    /\ p.blockAt[1] = 0
    /\ \A m \in 1 .. Len(p.blocks) : p.blockAt[m + 1] = p.blockAt[m] + p.blocks[m].step

(* Offsets adds up the blocks before each block.                           *)
ASSUME OffsetAssumption ==
  \A b \in Bases :
    /\ Offsets[b] \in [1 .. (Len(b.blocks) + 1) -> [src : Nat, dst : Nat]]
    /\ Offsets[b][1] = [src |-> 0, dst |-> 0]
    /\ \A m \in 1 .. Len(b.blocks) :
         Offsets[b][m + 1] =
           [src |-> Offsets[b][m].src + b.blocks[m].data,
            dst |-> Offsets[b][m].dst + b.blocks[m].data + b.blocks[m].zero]

(* chainAt and dataAt add up the sizes and the data before each block of a *)
(* chain.                                                                  *)
ASSUME ChainAssumption ==
  \A b \in Bases :
    /\ b.chainAt \in [1 .. (Len(b.chain) + 1) -> Nat] /\ b.chainAt[1] = 0
    /\ b.dataAt \in [1 .. (Len(b.chain) + 1) -> Nat] /\ b.dataAt[1] = 0
    /\ \A m \in 1 .. Len(b.chain) :
         /\ b.chainAt[m + 1] = b.chainAt[m] + b.chain[m].size
         /\ b.dataAt[m + 1] = b.dataAt[m] + b.chain[m].data

VARIABLES
  base,      \* the base executable
  patch,     \* the patch file
  phase,     \* where apply is
  out,       \* outBytes behind the header
  src,       \* srcDataCursor; where a block of a chain, or of the patch, begins
  dst,       \* outDataCursor
  i,         \* the block the current loop has come to
  j,         \* the entry of a patch block it has come to
  stream,    \* compressBuffer
  result,    \* apply's result
  disk,      \* the file at newXexPath
  image,     \* what Xex2LoadImage made of it
  outside,   \* history: something outside a buffer was read or written
  late       \* history: an error came up only when the file was closed

cursors == <<src, dst, i, j, stream>>
xexVars == <<base, patch, phase, out, cursors, result, disk, image, outside, late>>

NoFile == [comp |-> "none", enc |-> "none", imageSize |-> 0, words |-> <<>>]

Size == patch.imageSize   \* newSecurityInfo->imageSize

(* newXexHeaderSize, the size of outBytes while the header is made.        *)
LongerHeader == IF base.header > patch.target THEN base.header ELSE patch.target

(* There lzxDecompress puts the executable, this far behind                *)
(* headerTargetSize, where the executable begins.                          *)
HeaderGap == IF base.header > patch.target THEN base.header - patch.target ELSE 0

Crypt(w) == -w - 1

(* AES over a whole buffer, if the file says it is encrypted.              *)
Decrypted(words, enc) ==
  IF enc = "normal" THEN [k \in DOMAIN words |-> Crypt(words[k])] ELSE words

(* lzxDecompress over a stream: a literal, or a match in the reference     *)
(* data; every word of the stream stands for two of the result.            *)
Expanded(words, n, window) ==
  [k \in 1 .. n |-> IF words[(k + 1) \div 2] = 0 THEN window[k] ELSE words[(k + 1) \div 2]]

Slice(words, from, n) ==
  [k \in 1 .. n |-> IF from + k \in DOMAIN words THEN words[from + k] ELSE 0]

Padded(words) == [k \in 1 .. Size |-> IF k <= Len(words) THEN words[k] ELSE 0]

XexInit ==
  /\ base \in Bases /\ patch \in Patches
  /\ phase = "validate" /\ result = ""
  /\ out = <<>> /\ stream = <<>>
  /\ src = 0 /\ dst = 0 /\ i = 0 /\ j = 0
  /\ disk = NoFile /\ image = <<>>
  /\ outside = FALSE /\ late = FALSE

-----------------------------------------------------------------------------
(* XexPatcher::apply *)

Return(r) ==
  /\ result' = r
  /\ phase' = IF r = "Success" THEN "write" ELSE "done"

(* What follows a read or a write outside a buffer is not modelled.        *)
Overrun == outside' = TRUE /\ phase' = "done" /\ UNCHANGED result

(* The checks on the two headers, in the order of the code.                *)
Refusal ==
  CASE ~base.magic -> "XexFileInvalid"
    [] ~patch.magic \/ ~patch.isPatch \/ ~patch.descriptor -> "PatchFileInvalid"
    [] patch.comp # "delta" -> "PatchFileInvalid"
    [] patch.sourceOffset > base.header -> "PatchIncompatible"
    [] patch.sourceSize > base.header - patch.sourceOffset -> "PatchIncompatible"
    [] patch.targetOffset > patch.target -> "PatchIncompatible"
    [] patch.sourceSize > patch.target - patch.targetOffset -> "PatchIncompatible"
    [] OTHER -> ""

(* The new header begins as so many bytes of the base as it will have, the *)
(* delta for it works in the longer of the two headers, and its fields are *)
(* read even if there is nothing left of it.                               *)
HeaderStrays ==
  \/ patch.target > base.header + Len(base.words)
  \/ patch.headerReach > LongerHeader \/ patch.headerWindow > patch.window
  \/ patch.headerFits /\ patch.target = 0

Validate ==
  /\ phase = "validate"
  /\ IF Refusal # ""
     THEN Return(Refusal) /\ UNCHANGED outside
     ELSE IF HeaderStrays
     THEN Overrun
     ELSE /\ IF patch.headerFits
             THEN phase' = "copy" /\ UNCHANGED result
             ELSE Return("PatchFailed")
          /\ UNCHANGED outside
  /\ UNCHANGED <<base, patch, out, cursors, disk, image, late>>

(* MemoryMappedFile does not open one of the two.                          *)
InputMissing ==
  /\ phase = "validate"
  /\ Return("FileOpenFailed")
  /\ UNCHANGED <<base, patch, out, cursors, disk, image, outside, late>>

(* The buffer takes its new size, the base's words go behind the header    *)
(* without a look at that size, then the keys are compared.                *)
CopyBase ==
  /\ phase = "copy"
  /\ out' = Padded(base.words)
  /\ IF Len(base.words) > Size
     THEN Overrun
     ELSE /\ IF patch.key # base.key
             THEN Return("PatchIncompatible")
             ELSE phase' = "decrypt" /\ UNCHANGED result
          /\ UNCHANGED outside
  /\ UNCHANGED <<base, patch, cursors, disk, image, late>>

(* How the base is decompressed; another format ends apply.                *)
Decompression ==
  CASE base.comp = "none"   -> "header"
    [] base.comp = "basic"  -> "sum"
    [] base.comp = "normal" -> "chain"
    [] OTHER                -> "done"

DecryptBase ==
  /\ phase = "decrypt"
  /\ IF base.enc = "other" \/ base.comp = "absent"
     THEN Return("XexFileInvalid") /\ UNCHANGED out
     ELSE /\ out' = [k \in DOMAIN out |->
                       IF base.enc = "normal" /\ k <= Len(base.words)
                       THEN Crypt(out[k]) ELSE out[k]]
          /\ phase' = Decompression
          /\ result' = CASE base.comp = "delta" -> "XexFileUnsupported"
                         [] Decompression = "done" -> "XexFileInvalid"
                         [] OTHER -> result
  /\ UNCHANGED <<base, patch, cursors, disk, image, outside, late>>

-----------------------------------------------------------------------------
(* Basic compression: the sizes are added up, then the blocks are moved    *)
(* into place from the last to the first.                                  *)

SumBlock ==
  /\ phase = "sum" /\ i < Len(base.blocks)
  /\ i' = i + 1
  /\ src' = src + base.blocks[i + 1].data
  /\ dst' = dst + base.blocks[i + 1].data + base.blocks[i + 1].zero
  /\ UNCHANGED <<base, patch, phase, out, j, stream, result, disk, image, outside, late>>

(* Variant: the image is not compared with the buffer.                     *)
SumDone_Unchecked ==
  /\ phase = "sum" /\ i = Len(base.blocks)
  /\ phase' = "unpack"
  /\ UNCHANGED <<base, patch, out, cursors, result, disk, image, outside, late>>

SumDone ==
  /\ phase = "sum" /\ i = Len(base.blocks)
  /\ IF Size < dst
     THEN Return("XexFileInvalid")
     ELSE phase' = "unpack" /\ UNCHANGED result
  /\ UNCHANGED <<base, patch, out, cursors, disk, image, outside, late>>

(* memset, then memmove.                                                   *)
Placed(words, block, from, to) ==
  LET zeroed == [k \in DOMAIN words |->
                   IF k \in (to + block.data + 1) .. (to + block.data + block.zero)
                   THEN 0 ELSE words[k]]
  IN  [k \in DOMAIN words |->
         IF k \in (to + 1) .. (to + block.data) THEN zeroed[from + k - to] ELSE zeroed[k]]

(* Variant: the zeroes are cleared at the front of the block.              *)
UnpackBlock_ZerosFirst ==
  LET block == base.blocks[i] IN
  /\ phase = "unpack" /\ i > 0
  /\ out' = Placed(out, [block EXCEPT !.zero = 0], src - block.data, dst - block.data)
  /\ src' = src - block.data
  /\ dst' = dst - block.data - block.zero
  /\ i' = i - 1
  /\ UNCHANGED <<base, patch, phase, j, stream, result, disk, image, outside, late>>

UnpackBlock ==
  LET block == base.blocks[i] IN
  /\ phase = "unpack" /\ i > 0
  /\ src' = src - block.data
  /\ dst' = dst - block.zero - block.data
  /\ out' = Placed(out, block, src', dst')
  /\ outside' = (outside \/ dst > Size)
  /\ i' = i - 1
  /\ UNCHANGED <<base, patch, phase, j, stream, result, disk, image, late>>

UnpackDone ==
  /\ phase = "unpack" /\ i = 0
  /\ phase' = "header"
  /\ UNCHANGED <<base, patch, out, cursors, result, disk, image, outside, late>>

-----------------------------------------------------------------------------
(* Normal compression: a chain of hashed blocks, collected and expanded.   *)
(* Neither the sizes of blocks nor those of chunks are checked; what is    *)
(* collected goes to a buffer as long as the base's words.                 *)

ChainBlock ==
  LET block == base.chain[i + 1] IN
  /\ phase = "chain" /\ i < Len(base.chain)
  /\ IF src + block.size > Size
     THEN Overrun /\ UNCHANGED <<stream, src, i>>
     ELSE IF Slice(out, src, block.size) # block.hash
     THEN Return("PatchFailed") /\ UNCHANGED <<stream, src, i, outside>>
     ELSE IF src + block.reach > Size \/ Len(stream) + block.data > Len(base.words)
     THEN Overrun /\ UNCHANGED <<stream, src, i>>
     ELSE /\ stream' = stream \o Slice(out, src, block.data)
          /\ src' = src + block.size
          /\ i' = i + 1
          /\ UNCHANGED <<result, phase, outside>>
  /\ UNCHANGED <<base, patch, out, dst, j, disk, image, late>>

(* lzxDecompress writes the old image's size at newXexHeaderSize.          *)
ExpandChain ==
  LET n == base.imageSize
      fresh == Expanded(stream, n, [k \in 1 .. n |-> 0])
  IN
  /\ phase = "chain" /\ i = Len(base.chain)
  /\ IF 2 * Len(stream) < n
     THEN Return("PatchFailed") /\ UNCHANGED <<out, outside>>
     ELSE /\ out' = [k \in DOMAIN out |->
                       IF k - HeaderGap \in 1 .. n THEN fresh[k - HeaderGap] ELSE out[k]]
          /\ IF HeaderGap + n > Size
             THEN Overrun
             ELSE phase' = "header" /\ UNCHANGED <<result, outside>>
  /\ UNCHANGED <<base, patch, cursors, disk, image, late>>

-----------------------------------------------------------------------------
(* The patch *)

(* memcpy(to, from, n): when the ranges overlap, the direction of the copy *)
(* is up to the library.                                                   *)
Copies(words, to, from, n) ==
  LET Copy(at(_)) == [k \in DOMAIN words |->
                        IF k \in (to + 1) .. (to + n) THEN words[from + at(k - to)] ELSE words[k]]
      Upward(d)   == IF to > from THEN ((d - 1) % (to - from)) + 1 ELSE d
      Downward(d) == IF from > to THEN n - ((n - d) % (from - to)) ELSE d
  IN  {Copy(LAMBDA d : d), Copy(Upward), Copy(Downward)}

(* The end of what an entry of the patch reads and writes.                 *)
Reach(e) == e.n + (IF e.op # "zero" /\ e.old > e.new THEN e.old ELSE e.new)

(* The reference data of a decompression is copied to the end of a window  *)
(* whose size is not compared with it.                                     *)
Strays(e) == Reach(e) > Size \/ (e.op = "lzx" /\ e.n > patch.window)

(* The new header says that the executable is plain; the patch's own       *)
(* encryption is looked at; the image is moved if the patch says so.       *)
PatchHeader ==
  LET m == patch.move IN
  /\ phase = "header"
  /\ src' = 0 /\ i' = 1 /\ j' = 0
  /\ IF ~patch.keepsFormat
     THEN Return("PatchFailed") /\ UNCHANGED <<out, outside>>
     ELSE IF patch.enc = "other"
     THEN Return("PatchFileInvalid") /\ UNCHANGED <<out, outside>>
     ELSE IF m.old = 0
     THEN phase' = "delta" /\ UNCHANGED <<out, result, outside>>
     ELSE IF Strays(m)
     THEN Overrun /\ UNCHANGED out
     ELSE /\ out' \in Copies(out, m.new, m.old, m.n)
          /\ phase' = "delta" /\ UNCHANGED <<result, outside>>
  /\ UNCHANGED <<base, patch, dst, stream, disk, image, late>>

Block == patch.blocks[i]

(* The hash over a block, which is wrong if the block was changed or was   *)
(* encrypted with another key than the one derived from the two headers.   *)
(* Neither the block nor its entries are compared with patchData's size.   *)
CheckBlock ==
  /\ phase = "delta" /\ i <= Len(patch.blocks) /\ j = 0
  /\ IF src + Block.size > patch.dataSize
     THEN Overrun /\ UNCHANGED j
     ELSE IF ~(Block.intact /\ (patch.enc = "none" \/ patch.keyFits))
     THEN Return("PatchFailed") /\ UNCHANGED <<j, outside>>
     ELSE IF src + Block.reach > patch.dataSize
     THEN Overrun /\ UNCHANGED j
     ELSE j' = 1 /\ UNCHANGED <<result, phase, outside>>
  /\ UNCHANGED <<base, patch, out, src, dst, i, stream, disk, image, late>>

IsEnd(e) == e.op = "zero" /\ e.n = 0 /\ e.old = 0 /\ e.new = 0

(* What one Xex2DeltaPatch makes of the image.                             *)
Patched(words, e) ==
  CASE e.op = "zero" -> {[k \in DOMAIN words |-> IF k \in (e.new + 1) .. (e.new + e.n) THEN 0 ELSE words[k]]}
    [] e.op = "move" -> Copies(words, e.new, e.old, e.n)
    [] e.op = "lzx"  -> {[k \in DOMAIN words |->
                            IF k \in (e.new + 1) .. (e.new + e.n)
                            THEN Expanded(e.words, e.n, Slice(words, e.old, e.n))[k - e.new]
                            ELSE words[k]]}

(* lzxDeltaApplyPatch, one entry.                                          *)
ApplyEntry ==
  LET e == Block.entries[j] IN
  /\ phase = "delta" /\ i <= Len(patch.blocks) /\ j \in 1 .. Len(Block.entries)
  /\ ~IsEnd(e)
  /\ IF Strays(e)
     THEN Overrun /\ UNCHANGED <<out, j>>
     ELSE IF e.op = "lzx" /\ 2 * Len(e.words) < e.n
     THEN Return("PatchFailed") /\ UNCHANGED <<out, j, outside>>
     ELSE /\ out' \in Patched(out, e)
          /\ j' = j + 1
          /\ UNCHANGED <<result, phase, outside>>
  /\ UNCHANGED <<base, patch, src, dst, i, stream, disk, image, late>>

(* The end of the block's data, or an entry of zeroes.                     *)
EndBlock ==
  /\ phase = "delta" /\ i <= Len(patch.blocks) /\ j > 0
  /\ j <= Len(Block.entries) => IsEnd(Block.entries[j])
  /\ src' = src + Block.step /\ i' = i + 1 /\ j' = 0
  /\ UNCHANGED <<base, patch, phase, out, dst, stream, result, disk, image, outside, late>>

Applied ==
  /\ phase = "delta" /\ i > Len(patch.blocks)
  /\ Return("Success")
  /\ UNCHANGED <<base, patch, out, cursors, disk, image, outside, late>>

-----------------------------------------------------------------------------
(* The file *)

(* Variant: the header goes on saying that the executable is encrypted.    *)
NewFile_KeepsEncryption(words) ==
  [comp |-> "none", enc |-> base.enc, imageSize |-> Size, words |-> words]

(* "Update the header to indicate no encryption or compression is used"    *)
(* (xex_patcher.cpp:477).                                                  *)
NewFile(words) == [comp |-> "none", enc |-> "none", imageSize |-> Size, words |-> words]

WriteFile ==
  /\ phase = "write"
  /\ disk' = NewFile(out)
  /\ phase' = "load"
  /\ UNCHANGED <<base, patch, out, cursors, result, image, outside, late>>

(* The stream does not open, or a write fails and the file is removed.     *)
WriteFails ==
  /\ phase = "write"
  /\ \E r \in {"FileOpenFailed", "FileWriteFailed"} : Return(r)
  /\ UNCHANGED <<base, patch, out, cursors, disk, image, outside, late>>

(* The last words fail while the stream is closed.  That sets failbit, and *)
(* bad() asks for badbit.                                                  *)
CloseFails ==
  /\ phase = "write" /\ Size > 0
  /\ disk' = NewFile(SubSeq(out, 1, Size - 1))
  /\ late' = TRUE
  /\ phase' = "load"
  /\ UNCHANGED <<base, patch, out, cursors, result, image, outside>>

-----------------------------------------------------------------------------
(* Xex2LoadImage *)

(* The image of a file with basic blocks that start at the offsets at.     *)
Unpacked(words, blocks, at) ==
  [k \in 1 .. at[Len(blocks) + 1].dst |->
     LET m == CHOOSE m \in 1 .. Len(blocks) : k \in (at[m].dst + 1) .. at[m + 1].dst
     IN  IF k <= at[m].dst + blocks[m].data THEN words[at[m].src + k - at[m].dst] ELSE 0]

(* After each of a number of steps, which are functions on sequences.      *)
Stages(step, count, words) ==
  LET stage[n \in 0 .. count] == IF n = 0 THEN words ELSE step[n][stage[n - 1]]
  IN  stage

(* What the loader has collected after each block of a chain.              *)
Collected(words, b) ==
  Stages([m \in 1 .. Len(b.chain) |->
            [stage \in Seq(Int) |-> stage \o Slice(words, b.chainAt[m], b.chain[m].data)]],
         Len(b.chain), <<>>)

(* The image of a base executable, as the loader makes it; no words if a   *)
(* hash or the decompression fails.                                        *)
BaseImage(b) ==
  LET words == Decrypted(b.words, b.enc) IN
  CASE b.comp = "none"   -> Slice(words, 0, b.imageSize)
    [] b.comp = "basic"  -> Unpacked(words, b.blocks, Offsets[b])
    [] b.comp = "normal" ->
         LET whole == Collected(words, b)[Len(b.chain)] IN
         IF /\ \A m \in 1 .. Len(b.chain) :
                 Slice(words, b.chainAt[m], b.chain[m].size) = b.chain[m].hash
            /\ 2 * Len(whole) >= b.imageSize
         THEN Expanded(whole, b.imageSize, [k \in 1 .. b.imageSize |-> 0])
         ELSE <<>>

(* The loader on the new file, which is plain.                             *)
LoadFile ==
  /\ phase = "load"
  /\ image' = Slice(Decrypted(disk.words, disk.enc), 0, disk.imageSize)
  /\ outside' = (outside \/ Len(disk.words) < disk.imageSize)
  /\ phase' = "done"
  /\ UNCHANGED <<base, patch, out, cursors, result, disk, late>>

-----------------------------------------------------------------------------
Apply ==
  \/ Validate \/ InputMissing \/ CopyBase \/ DecryptBase
  \/ SumBlock \/ SumDone \/ UnpackBlock \/ UnpackDone
  \/ ChainBlock \/ ExpandChain
  \/ PatchHeader \/ CheckBlock \/ ApplyEntry \/ EndBlock \/ Applied
  \/ WriteFile \/ WriteFails \/ CloseFails

XexNext == Apply \/ LoadFile

XexSpec == XexInit /\ [][XexNext]_xexVars

-----------------------------------------------------------------------------
(* Properties *)

(* "Reverse iteration allows to perform this decompression in place"       *)
(* (xex_patcher.cpp:394): the blocks still to be moved are as they were in *)
(* the file, all behind them is as the loader would make it.               *)
UnpackInPlace ==
  phase = "unpack" =>
    LET words == Padded(Decrypted(base.words, base.enc))
        at == Offsets[base]
    IN  /\ src = at[i + 1].src /\ dst = at[i + 1].dst
        /\ \A k \in 1 .. src : out[k] = words[k]
        /\ \A m \in (i + 1) .. Len(base.blocks) :
             /\ \A d \in 1 .. base.blocks[m].data :
                  out[at[m].dst + d] = words[at[m].src + d]
             /\ \A d \in 1 .. base.blocks[m].zero :
                  out[at[m].dst + base.blocks[m].data + d] = 0

(* What a base and a patch must agree on besides what apply checks.        *)

(* The new header is no longer than the base, is not empty, and its delta  *)
(* stays in it; the base's words fit the new image.                        *)
HeadersAgree == ~HeaderStrays /\ Len(base.words) <= Size

(* The blocks of an lzx base and their chunks lie in the buffer, they hand *)
(* on no more than the base has, and the executable fits the new image     *)
(* behind the longer of the two headers.                                   *)
ChainAgrees ==
  base.comp = "normal" =>
    /\ \A m \in 1 .. Len(base.chain) :
         /\ base.chainAt[m + 1] <= Size
         /\ base.chainAt[m] + base.chain[m].reach <= Size
         /\ base.dataAt[m + 1] <= Len(base.words)
    /\ HeaderGap + base.imageSize <= Size

(* The blocks of the patch and their entries lie in the patch file, and    *)
(* what they do stays in the image and in the window.                      *)
PatchAgrees ==
  /\ patch.move.old > 0 => ~Strays(patch.move)
  /\ \A m \in 1 .. Len(patch.blocks) :
       /\ patch.blockAt[m] + patch.blocks[m].size <= patch.dataSize
       /\ patch.blockAt[m] + patch.blocks[m].reach <= patch.dataSize
       /\ \A n \in 1 .. Len(patch.blocks[m].entries) : ~Strays(patch.blocks[m].entries[n])

Agree == HeadersAgree /\ ChainAgrees /\ PatchAgrees

(* apply stays inside outBytes, its header included, inside                *)
(* compressBuffer, patchData and the window, and the loader inside the     *)
(* file, if base and patch agree and the file was written whole.  The      *)
(* fields of the headers and their tables are not covered.                 *)
StaysInside == Agree /\ ~late => ~outside

-----------------------------------------------------------------------------
(* The patch applied from buffer to buffer, to the image that the loader   *)
(* makes of the base.                                                      *)

Images == [1 .. Size -> Int]

One(words, e) == CHOOSE w \in Patched(words, e) : TRUE

(* The entries of a block up to its end.                                   *)
Effective(entries) ==
  CHOOSE n \in 0 .. Len(entries) :
    /\ \A k \in 1 .. n : ~IsEnd(entries[k])
    /\ n < Len(entries) => IsEnd(entries[n + 1])

EntrySteps(entries) ==
  [n \in 1 .. Len(entries) |-> [words \in Images |-> One(words, entries[n])]]

EntryStages(entries, words) == Stages(EntrySteps(entries), Len(entries), words)

BlockSteps ==
  [m \in 1 .. Len(patch.blocks) |->
     [words \in Images |->
        LET entries == patch.blocks[m].entries
        IN  EntryStages(entries, words)[Effective(entries)]]]

Moved(words) == IF patch.move.old = 0 THEN words ELSE One(words, patch.move)

BlockStages == Stages(BlockSteps, Len(patch.blocks), Moved(Padded(BaseImage(base))))

Expected == BlockStages[Len(patch.blocks)]

Apart(e) == e.op # "move" \/ e.new + e.n <= e.old \/ e.old + e.n <= e.new \/ e.old = e.new

(* What the loader reads of a base lies in its file.                       *)
Loadable ==
  /\ base.comp = "none" => base.imageSize <= Len(base.words)
  /\ base.comp = "basic" => Offsets[base][Len(base.blocks) + 1].src <= Len(base.words)
  /\ base.comp = "normal" =>
       \A m \in 1 .. Len(base.chain) :
         /\ base.chainAt[m + 1] <= Len(base.words)
         /\ base.chainAt[m] + base.chain[m].reach <= Len(base.words)

(* memcpy has one result, an lzx base begins where the header ends, and no *)
(* word of the file lies behind the base's image.                          *)
Ordinary ==
  /\ Agree /\ Loadable /\ Apart(patch.move)
  /\ \A m \in 1 .. Len(patch.blocks) : \A n \in 1 .. Len(patch.blocks[m].entries) :
       Apart(patch.blocks[m].entries[n])
  /\ base.comp = "normal" => HeaderGap = 0
  /\ Len(base.words) <= Len(BaseImage(base))

(* Loading the patched file gives the patched image: apply, which          *)
(* decrypts, decompresses and patches in place, and the loader, which does *)
(* it from buffer to buffer, agree about every format; and whatever can be *)
(* refused or fail leaves no file that is taken for a whole one.           *)
PatchThenLoad ==
  phase = "done" /\ disk # NoFile /\ Ordinary /\ ~late => image = Expected
===============================================================================
