------------------------------ MODULE MCXexImage ------------------------------
(***************************************************************************)
(* Base executables of every format with up to four words, and patches     *)
(* that zero, move and decompress a few of them.                           *)
(***************************************************************************)
EXTENDS XexImage, SequencesExt, FiniteSets

Some == {[data |-> d, zero |-> z] : d \in 0 .. 2, z \in 0 .. 1}
BlockLists == {<<>>} \cup {<<a>> : a \in Some} \cup {<<a, b>> : a, b \in Some}

Sum(f(_), list) == FoldLeft(LAMBDA n, b : n + f(b), 0, list)
DataOf(b) == b.data
ZeroOf(b) == b.zero
SizeOf(b) == b.size

(* The words 1, 2, ... as they are in the file.                            *)
Words(n, enc) == Decrypted([k \in 1 .. n |-> k], enc)

Base(comp, enc, words, size) ==
  [magic |-> TRUE, key |-> "k", header |-> 1, comp |-> comp, enc |-> enc,
   words |-> words, imageSize |-> size, blocks |-> <<>>, chain |-> <<>>, chainAt |-> <<0>>, dataAt |-> <<0>>]

PlainBases == {Base("none", enc, Words(n, enc), m) : enc \in {"none", "normal"}, n \in 0 .. 2, m \in 0 .. 2}

(* With and without a word of padding at the end of the file.              *)
BasicBases ==
  {[Base("basic", enc, Words(Sum(DataOf, list) + pad, enc),
         Sum(DataOf, list) + Sum(ZeroOf, list)) EXCEPT !.blocks = list] :
     enc \in {"none", "normal"}, list \in BlockLists, pad \in 0 .. 1}

Before(f(_), list) == [m \in 1 .. (Len(list) + 1) |-> Sum(f, SubSeq(list, 1, m - 1))]

Chained(b, list) ==
  [b EXCEPT !.chain = list, !.chainAt = Before(SizeOf, list), !.dataAt = Before(DataOf, list)]

(* A block whose chunks hand on all of it but a word of its header.        *)
Link(size, first, wrong) ==
  [size |-> size, reach |-> size, data |-> IF size > 1 THEN size - 1 ELSE size,
   hash |-> [d \in 1 .. size |-> first + d + wrong]]

(* Chains of one or two blocks, also with a wrong hash, a wrong size, and  *)
(* a header longer than the new one.                                       *)
SoundChains ==
  {Chained([Base("normal", enc, Words(Sum(LAMBDA k : k, sizes), enc), size) EXCEPT !.header = header],
           [m \in DOMAIN sizes |->
              Link(sizes[m], Sum(LAMBDA k : k, SubSeq(sizes, 1, m - 1)), wrong)]) :
     enc \in {"none", "normal"}, sizes \in {<<>>, <<1>>, <<2>>, <<1, 1>>, <<2, 1>>},
     size \in {1, 2, 4}, header \in {1, 2}, wrong \in {0, 1}}

(* A block behind the file, chunks that run on, more data than words.      *)
StrayChains ==
  LET two == Base("normal", "none", Words(2, "none"), 1)
      whole == Link(2, 0, 0)
  IN  {Chained(two, <<[whole EXCEPT !.size = n, !.hash = [d \in 1 .. n |-> IF d < 3 THEN d ELSE 0]]>>) :
         n \in 3 .. 4}
      \cup {Chained(two, <<[whole EXCEPT !.reach = n, !.data = d]>>) : n \in 3 .. 4, d \in {1, 3}}
      \cup {Chained(two, <<[Link(1, 0, 0) EXCEPT !.reach = 2, !.data = 2], Link(1, 1, 0)>>)}

ChainBases == SoundChains \cup StrayChains

BadBases == {[Base("none", "none", <<1>>, 1) EXCEPT !.magic = FALSE],
             Base("absent", "none", <<1>>, 1), Base("delta", "none", <<1>>, 1),
             Base("lzx2", "none", <<1>>, 1), Base("none", "other", <<1>>, 1)}

MCBases == PlainBases \cup BasicBases \cup ChainBases \cup BadBases

OffsetsOf(b) ==
  [m \in 1 .. (Len(b.blocks) + 1) |->
     LET before == SubSeq(b.blocks, 1, m - 1) IN
     [src |-> Sum(DataOf, before), dst |-> Sum(DataOf, before) + Sum(ZeroOf, before)]]

-----------------------------------------------------------------------------
Entry(op, new, old, n, words) == [op |-> op, new |-> new, old |-> old, n |-> n, words |-> words]
Still == Entry("move", 0, 0, 0, <<>>)
End == Entry("zero", 0, 0, 0, <<>>)

Intact(entries) == [entries |-> entries, intact |-> TRUE, size |-> 1, reach |-> 1, step |-> 1]

StepOf(b) == b.step

Patch(size, blocks) ==
  [magic |-> TRUE, isPatch |-> TRUE, descriptor |-> TRUE, comp |-> "delta", enc |-> "none",
   sourceOffset |-> 0, sourceSize |-> 1, targetOffset |-> 0, target |-> 1,
   headerFits |-> TRUE, key |-> "k", keyFits |-> TRUE, keepsFormat |-> TRUE,
   headerReach |-> 1, headerWindow |-> 0, window |-> 2, dataSize |-> Sum(StepOf, blocks),
   imageSize |-> size, move |-> Still, blocks |-> blocks, blockAt |-> Before(StepOf, blocks)]

Entries == {Entry("zero", 1, 0, 1, <<>>), Entry("move", 2, 0, 1, <<>>),
            Entry("move", 1, 0, 2, <<>>), Entry("lzx", 0, 1, 2, <<9>>),
            Entry("lzx", 1, 0, 2, <<0>>), Entry("lzx", 0, 0, 2, <<>>)}

Deltas == {<<>>} \cup {<<Intact(<<e>>)>> : e \in Entries}
          \cup {<<Intact(<<Entry("lzx", 0, 1, 2, <<0>>), End, Entry("zero", 0, 0, 1, <<>>)>>),
                  Intact(<<Entry("move", 2, 0, 1, <<>>), Entry("zero", 0, 0, 1, <<>>)>>)>>}

GoodPatches ==
  {[Patch(size, blocks) EXCEPT !.move = move] :
     size \in 2 .. 4, blocks \in Deltas,
     move \in {Still, Entry("move", 1, 0, 1, <<>>), Entry("move", 0, 1, 2, <<>>), Entry("move", 0, 2, 1, <<>>)}}

BadPatches ==
  LET p == Patch(3, <<Intact(<<Entry("zero", 1, 0, 1, <<>>)>>)>>) IN
  {[p EXCEPT !.magic = FALSE], [p EXCEPT !.comp = "none"],
   [p EXCEPT !.sourceOffset = 3], [p EXCEPT !.sourceSize = 3],
   [p EXCEPT !.targetOffset = 2], [p EXCEPT !.targetOffset = 1],
   [p EXCEPT !.headerFits = FALSE], [p EXCEPT !.key = "other"],
   [p EXCEPT !.enc = "normal"], [p EXCEPT !.enc = "normal", !.keyFits = FALSE],
   [p EXCEPT !.enc = "other"], [p EXCEPT !.keepsFormat = FALSE],
   [p EXCEPT !.blocks[1].intact = FALSE]}

(* A header that is empty or longer than the base, a delta or reference    *)
(* data too long for the header or the window, blocks and entries behind   *)
(* the file.                                                               *)
StrayPatches ==
  LET clear == Entry("zero", 1, 0, 1, <<>>)
      p == Patch(3, <<Intact(<<clear>>), Intact(<<Entry("lzx", 0, 1, 2, <<0>>)>>)>>)
      Blocks(q, list) == [q EXCEPT !.blocks = list, !.blockAt = Before(StepOf, list)]
      first == p.blocks[1]
  IN  {[p EXCEPT !.target = 0, !.sourceSize = 0], [p EXCEPT !.target = 4],
       [p EXCEPT !.headerReach = 3], [p EXCEPT !.headerWindow = 3], [p EXCEPT !.headerWindow = 2],
       [p EXCEPT !.window = 1], [p EXCEPT !.dataSize = 1],
       Blocks(p, <<[first EXCEPT !.size = 3]>>),
       Blocks(p, <<[first EXCEPT !.reach = 3]>>), Blocks(p, <<[first EXCEPT !.reach = 2]>>),
       Blocks(p, <<[first EXCEPT !.step = 9], p.blocks[2]>>), Blocks(p, <<[first EXCEPT !.step = 9]>>)}

MCPatches == GoodPatches \cup BadPatches \cup StrayPatches
===============================================================================
