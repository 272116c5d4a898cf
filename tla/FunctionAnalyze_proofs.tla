------------------------ MODULE FunctionAnalyze_proofs ------------------------
(***************************************************************************)
(* Proofs about FunctionAnalyze, for every code and length.                *)
(*                                                                         *)
(*   Inv       the assertion of the analyzer's loop never fails, and an    *)
(*             unconditional branch never takes the analysis in front of   *)
(*             the function;                                               *)
(*   LoopInv   in ordinary code the blocks hold only words that control    *)
(*             reaches, and where control goes from a block that is done   *)
(*             is held as well: the size is what control reaches;          *)
(*   TypeInv   there is a block, so that the size is a number of words;    *)
(*   WorkInv   blocks are told apart by the word their scan was pushed for *)
(*             and the word they start at: there is a bound on them.       *)
(*                                                                         *)
(* Inductions over numbers are by a least counterexample, LeastNatural.    *)
(***************************************************************************)
EXTENDS FunctionAnalyze, FiniteSetTheorems, TLAPS

(* How far in front of the function a block can start: only conditional    *)
(* branches take the analysis there.                                       *)
Lowest == IF Conditional \subseteq Nat THEN 0 ELSE -Before

LEMMA LowestBound == Lowest \in Int /\ Lowest <= 0 /\ -Before <= Lowest
BY CodeAssumption DEF Lowest

(* Blocks start no earlier than branches lead; the stack names blocks.     *)
BlocksType ==
  /\ blocks \in Seq(BlockType)
  /\ \A i \in DOMAIN blocks : Lowest <= blocks[i].base

StackType ==
  /\ stack \in Seq(Nat)
  /\ \A k \in DOMAIN stack : stack[k] \in DOMAIN blocks

Inv ==
  /\ code \in [Word -> Instruction]
  /\ BlocksType
  /\ StackType
  /\ data \in Int
  /\ SanityCheck

(* A list of blocks and a stack into it.                                   *)
WellFormed(bs, st) ==
  /\ bs \in Seq(BlockType)
  /\ \A i \in DOMAIN bs : Lowest <= bs[i].base
  /\ st \in Seq(Nat)
  /\ \A k \in DOMAIN st : st[k] \in DOMAIN bs

(* The block on top of a stack that is not empty is a block.               *)
LEMMA TopIsBlock ==
  ASSUME NEW bs, NEW st, WellFormed(bs, st), st # <<>>
  PROVE  /\ Len(st) \in DOMAIN st
         /\ st[Len(st)] \in DOMAIN bs
         /\ st[Len(st)] \in Nat
         /\ bs[st[Len(st)]] \in BlockType
         /\ End(bs[st[Len(st)]]) \in Int
         /\ Lowest <= End(bs[st[Len(st)]])
<1>1. Len(st) \in DOMAIN st
  BY DEF WellFormed
<1>2. st[Len(st)] \in DOMAIN bs /\ st[Len(st)] \in Nat
  BY <1>1 DEF WellFormed
<1>3. bs[st[Len(st)]] \in BlockType /\ Lowest <= bs[st[Len(st)]].base
  BY <1>2 DEF WellFormed
<1>4. /\ bs[st[Len(st)]].base \in Int
      /\ bs[st[Len(st)]].size \in Nat
  BY <1>3 DEF BlockType
<1>5. \A b, s, m \in Int : s >= 0 /\ m <= b => b + s \in Int /\ m <= b + s
  OBVIOUS
<1>6. Lowest \in Int
  BY LowestBound
<1> QED
  BY <1>1, <1>2, <1>3, <1>4, <1>5, <1>6 DEF End

(* Growing the top block keeps the list well formed.                       *)
LEMMA GrownWellFormed ==
  ASSUME Inv, stack # <<>>
  PROVE  /\ WellFormed(Grown, stack)
         /\ WellFormed(Grown, Popped)
         /\ WellFormed(blocks, Popped)
         /\ DOMAIN Grown = DOMAIN blocks
<1> DEFINE i == stack[Len(stack)]
<1>1. WellFormed(blocks, stack)
  BY DEF Inv, BlocksType, StackType, WellFormed
<1>2. i \in DOMAIN blocks /\ blocks[i] \in BlockType
  BY <1>1, TopIsBlock
<1>3. [blocks[i] EXCEPT !.size = @ + 1] \in BlockType
  BY <1>2 DEF BlockType
<1>4. Grown \in Seq(BlockType) /\ DOMAIN Grown = DOMAIN blocks
  BY <1>1, <1>2, <1>3 DEF Grown, WellFormed
<1>5. \A j \in DOMAIN Grown : Grown[j].base = blocks[j].base
  BY <1>1, <1>2, <1>3, <1>4 DEF Grown, WellFormed, BlockType
<1>6. /\ Popped \in Seq(Nat)
      /\ \A k \in DOMAIN Popped : Popped[k] \in DOMAIN blocks
  <2>1. /\ stack \in Seq(Nat) /\ Len(stack) >= 1
        /\ \A k \in DOMAIN stack : stack[k] \in DOMAIN blocks
    BY <1>1 DEF WellFormed
  <2>2. /\ Popped \in Seq(Nat)
        /\ \A k \in DOMAIN Popped : k \in DOMAIN stack /\ Popped[k] = stack[k]
    BY <2>1 DEF Popped
  <2> QED
    BY <2>1, <2>2
<1> QED
  BY <1>1, <1>4, <1>5, <1>6 DEF WellFormed

(* So does pushing a block that starts where a branch leads.               *)
LEMMA PushWellFormed ==
  ASSUME NEW bs, NEW st, WellFormed(bs, st),
         NEW b \in BlockType, Lowest <= b.base
  PROVE  WellFormed(Push(bs, b), Pushed(bs, st))
BY DEF WellFormed, Push, Pushed

(* Resuming a well-formed state keeps the invariant.                       *)
LEMMA ResumeKeeps ==
  ASSUME Inv, NEW bs, NEW st, WellFormed(bs, st), Resume(bs, st)
  PROVE  Inv'
<1>1. blocks' = bs /\ stack' = st /\ code' = code
  BY DEF Resume
<1>2. data' = IF st = <<>> THEN data + 1 ELSE End(bs[st[Len(st)]])
  BY DEF Resume
<1>3. data' \in Int
  BY <1>2, TopIsBlock DEF Inv
<1>4. SanityCheck'
  BY <1>1, <1>2 DEF SanityCheck, Top, End
<1> QED
  BY <1>1, <1>3, <1>4 DEF Inv, BlocksType, StackType, WellFormed

(* Wherever the loop reads, there is code.                                 *)
LEMMA ReadsCode ==
  ASSUME Inv, Scanning
  PROVE  /\ data \in Word
         /\ code[data] \in Instruction
         /\ data + 1 \in Int
         /\ Lowest <= data + 1
<1>1. WellFormed(blocks, stack) /\ stack # <<>>
  BY DEF Inv, BlocksType, StackType, WellFormed, Scanning
<1>2. data = End(Top) /\ data \in Int
  BY DEF Inv, SanityCheck, Scanning
<1>3. Lowest <= data
  BY <1>1, <1>2, TopIsBlock DEF Top
<1>4. data \in Word
  BY <1>2, <1>3, LowestBound, CodeAssumption DEF Scanning, Word
<1>5. Lowest \in Int
  BY LowestBound
<1>6. \A d, m \in Int : m <= d => d + 1 \in Int /\ m <= d + 1
  OBVIOUS
<1> QED
  BY <1>2, <1>3, <1>4, <1>5, <1>6 DEF Inv

LEMMA BlockTyped ==
  ASSUME NEW w \in Int, NEW p \in Nat \cup {NoProjection}
  PROVE  Block(w, p) \in BlockType /\ Block(w, p).base = w
BY DEF Block, BlockType

LEMMA PlainKeeps ==
  ASSUME Inv, Plain
  PROVE  Inv'
<1> DEFINE i == stack[Len(stack)]
<1>1. stack # <<>> /\ phase = "scan" /\ Scanning
  BY DEF Plain, Reads, Scanning
<1>2. WellFormed(Grown, stack) /\ WellFormed(blocks, stack)
  BY <1>1, GrownWellFormed DEF Inv, BlocksType, StackType, WellFormed
<1>3. blocks' = Grown /\ stack' = stack /\ code' = code /\ data' = data + 1
  BY DEF Plain
<1>4. i \in DOMAIN blocks /\ blocks[i] \in BlockType
  BY <1>1, <1>2, TopIsBlock
<1>5. Grown[i] = [blocks[i] EXCEPT !.size = @ + 1]
  BY <1>4 DEF Grown
<1>6. Grown[i].base = blocks[i].base /\ Grown[i].size = blocks[i].size + 1
  BY <1>4, <1>5 DEF BlockType
<1>7. data = blocks[i].base + blocks[i].size
  BY <1>1 DEF Inv, SanityCheck, Top, End
<1>8. \A b, s \in Int : b + (s + 1) = (b + s) + 1
  OBVIOUS
<1>9. data' = End(Grown[i])
  BY <1>3, <1>4, <1>6, <1>7, <1>8 DEF End, BlockType
<1>10. SanityCheck'
  BY <1>3, <1>9 DEF SanityCheck, Top, End
<1>11. data' \in Int
  BY <1>3 DEF Inv
<1> QED
  BY <1>2, <1>3, <1>10, <1>11 DEF Inv, BlocksType, StackType, WellFormed

LEMMA CondReturnKeeps ==
  ASSUME Inv, CondReturn
  PROVE  Inv'
<1>1. Scanning /\ stack # <<>>
  BY DEF CondReturn, Reads, Scanning
<1>2. LET b == Block(data + 1, NoProjection)
      IN b \in BlockType /\ Lowest <= b.base
  BY <1>1, ReadsCode, BlockTyped
<1>3. WellFormed(Grown, Popped)
  BY <1>1, GrownWellFormed
<1>4. WellFormed(Push(Grown, Block(data + 1, NoProjection)), Pushed(Grown, Popped))
  BY <1>2, <1>3, PushWellFormed
<1> QED
  BY <1>4, ResumeKeeps DEF CondReturn

(* Where a branch leads is known to the assumption.                        *)
LEMMA TargetTyped ==
  ASSUME Inv, Scanning, code[data].op \in {"bc", "b"}
  PROVE  /\ code[data].to \in Int
         /\ code[data].op = "bc" => Lowest <= code[data].to
<1>1. code[data] \in Instruction
  BY ReadsCode
<1>2. code[data].to \in Conditional \cup Goto
  BY <1>1 DEF Instruction
<1>3. code[data].op = "bc" => code[data].to \in Conditional
  BY <1>1 DEF Instruction
<1> QED
  BY <1>2, <1>3, CodeAssumption DEF Lowest

LEMMA BranchConditionalKeeps ==
  ASSUME Inv, BranchConditional
  PROVE  Inv'
<1> DEFINE to == code[data].to
           i == stack[Len(stack)]
           ended == [Grown EXCEPT ![i].projected = NoProjection]
           false == Block(data + 1, FalseProjection(to))
           newL == ~Held(ended, data + 1)
           bsL == IF newL THEN Push(ended, false) ELSE ended
           stL == IF newL THEN Pushed(ended, Popped) ELSE Popped
           true == Block(to, NoProjection)
           newR == ~Held(bsL, to)
<1>1. Scanning /\ stack # <<>> /\ code[data].op = "bc"
  BY DEF BranchConditional, Reads, Scanning
<1>2. to \in Int /\ Lowest <= to /\ data + 1 \in Int /\ Lowest <= data + 1
  BY <1>1, TargetTyped, ReadsCode
<1>3. FalseProjection(to) \in Nat \cup {NoProjection}
  BY <1>2 DEF FalseProjection
<1>4. false \in BlockType /\ Lowest <= false.base /\ true \in BlockType /\ Lowest <= true.base
  BY <1>2, <1>3, BlockTyped
<1>5. WellFormed(ended, Popped)
  <2> DEFINE bs == Grown
             new == [bs[i] EXCEPT !.projected = NoProjection]
  <2>1. WellFormed(bs, Popped) /\ WellFormed(bs, stack)
    BY <1>1, GrownWellFormed
  <2>2. i \in DOMAIN bs /\ bs[i] \in BlockType
    BY <1>1, <2>1, TopIsBlock
  <2>3. new \in BlockType /\ new.base = bs[i].base
    BY <2>2 DEF BlockType
  <2>4. ended = [bs EXCEPT ![i] = new]
    OBVIOUS
  <2> HIDE DEF new, bs, i, ended
  <2>5. ended \in Seq(BlockType) /\ DOMAIN ended = DOMAIN bs
    BY <2>1, <2>2, <2>3, <2>4 DEF WellFormed
  <2>6. \A j \in DOMAIN ended : ended[j].base = bs[j].base
    BY <2>2, <2>3, <2>4, <2>5
  <2> QED
    BY <2>1, <2>5, <2>6 DEF WellFormed
<1>6. WellFormed(bsL, stL)
  <2>1. CASE newL
    BY <1>4, <1>5, <2>1, PushWellFormed
  <2>2. CASE ~newL
    BY <1>5, <2>2
  <2> QED
    BY <2>1, <2>2
<1>7. CASE newR
  <2>1. WellFormed(Push(bsL, true), Pushed(bsL, stL))
    BY <1>4, <1>6, PushWellFormed
  <2>2. Resume(Push(bsL, true), Pushed(bsL, stL))
    BY <1>7 DEF BranchConditional
  <2> QED
    BY <2>1, <2>2, ResumeKeeps
<1>8. CASE ~newR
  <2>1. Resume(bsL, stL)
    BY <1>8 DEF BranchConditional
  <2> QED
    BY <1>6, <2>1, ResumeKeeps
<1> QED
  BY <1>7, <1>8

(* The projection that a branch carries over is one.                       *)
LEMMA CarriedTyped ==
  ASSUME Inv, Scanning, ~Projected, NEW to
  PROVE  Carried(Grown[stack[Len(stack)]], to) \in Nat \cup {NoProjection}
<1> DEFINE i == stack[Len(stack)]
           ended == Grown[i]
<1>1. WellFormed(blocks, stack)
  BY DEF Inv, BlocksType, StackType, WellFormed
<1>2. i \in DOMAIN blocks /\ blocks[i] \in BlockType
  BY <1>1, TopIsBlock DEF Scanning
<1>3. ended = [blocks[i] EXCEPT !.size = @ + 1]
  BY <1>2 DEF Grown
<1>4. ended.projected = blocks[i].projected /\ ended.size = blocks[i].size + 1
  BY <1>2, <1>3 DEF BlockType
<1>5. \/ blocks[i].projected = NoProjection
      \/ blocks[i].size < blocks[i].projected
  BY <1>2 DEF Projected, Top, BlockType
<1>6. \A p, s \in Nat : s < p => p - (s + 1) \in Nat
  OBVIOUS
<1> QED
  BY <1>2, <1>4, <1>5, <1>6 DEF Carried, BlockType

LEMMA BranchKeeps ==
  ASSUME Inv, Branch
  PROVE  Inv'
<1> DEFINE to == code[data].to
           ended == Grown[stack[Len(stack)]]
           next == Block(to, Carried(ended, to))
<1>1. Scanning /\ stack # <<>> /\ code[data].op = "b" /\ ~Projected
  BY DEF Branch, Reads, Scanning
<1>2. to \in Int /\ (to >= 0 => Lowest <= to)
  BY <1>1, TargetTyped, LowestBound
<1>3. WellFormed(Grown, Popped)
  BY <1>1, GrownWellFormed
<1>4. Carried(ended, to) \in Nat \cup {NoProjection}
  BY <1>1, CarriedTyped
<1>5. CASE to >= 0
  <2>1. next \in BlockType /\ Lowest <= next.base
    BY <1>2, <1>4, <1>5, BlockTyped
  <2>2. WellFormed(Push(Grown, next), Pushed(Grown, Popped))
    BY <1>3, <2>1, PushWellFormed
  <2>3. \/ Resume(Grown, Popped)
        \/ Resume(Push(Grown, next), Pushed(Grown, Popped))
    BY DEF Branch
  <2> QED
    BY <1>3, <2>2, <2>3, ResumeKeeps
<1>6. CASE ~(to >= 0)
  <2>1. to < 0
    BY <1>2, <1>6
  <2>2. Resume(Grown, Popped)
    BY <2>1 DEF Branch
  <2> QED
    BY <1>3, <2>2, ResumeKeeps
<1> QED
  BY <1>5, <1>6

LEMMA InvInit == Init => Inv
<1> SUFFICES ASSUME Init PROVE Inv
  OBVIOUS
<1>1. code \in [Word -> Instruction] /\ data \in Int
  BY DEF Init
<1>2. CASE blocks = <<>> /\ stack = <<>>
  BY <1>1, <1>2 DEF Inv, BlocksType, StackType, SanityCheck
<1>3. CASE blocks = <<Block(0, NoProjection)>> /\ stack = <<1>>
  <2>1. Block(0, NoProjection) \in BlockType /\ Block(0, NoProjection).base = 0
    BY DEF Block, BlockType
  <2>2. BlocksType
    BY <1>3, <2>1, LowestBound DEF BlocksType
  <2>3. StackType
    BY <1>3 DEF StackType
  <2>4. data = 0 /\ Top = Block(0, NoProjection)
    BY <1>3 DEF Init, Top
  <2>5. SanityCheck
    BY <2>4 DEF SanityCheck, End, Block
  <2> QED
    BY <1>1, <2>2, <2>3, <2>5 DEF Inv
<1> QED
  BY <1>2, <1>3 DEF Init

LEMMA InvNext == Inv /\ [Next]_vars => Inv'
<1> SUFFICES ASSUME Inv, [Next]_vars PROVE Inv'
  OBVIOUS
<1>1. CASE FallThrough
  BY <1>1, GrownWellFormed, ResumeKeeps DEF FallThrough, Scanning
<1>2. CASE Plain
  BY <1>2, PlainKeeps
<1>3. CASE Return
  BY <1>3, GrownWellFormed, ResumeKeeps DEF Return, Reads, Scanning
<1>4. CASE CondReturn
  BY <1>4, CondReturnKeeps
<1>5. CASE BranchConditional
  BY <1>5, BranchConditionalKeeps
<1>6. CASE Branch
  BY <1>6, BranchKeeps
<1>7. CASE Finish
  BY <1>7 DEF Finish, Inv, BlocksType, StackType, SanityCheck
<1>8. CASE UNCHANGED vars
  BY <1>8 DEF vars, Inv, BlocksType, StackType, SanityCheck, Top, End
<1> QED
  BY <1>1, <1>2, <1>3, <1>4, <1>5, <1>6, <1>7, <1>8 DEF Next

LEMMA AnalysisInvariant == Spec => []Inv
BY InvInit, InvNext, PTL DEF Spec

(* assert(addr == base + curBlock.base + curBlock.size) of function.cpp:85 *)
(* holds at every turn of the loop, for every code.                        *)
THEOREM AssertionHolds == Spec => []SanityCheck
<1>1. Inv => SanityCheck
  BY DEF Inv
<1> QED
  BY <1>1, AnalysisInvariant, PTL

(* When no conditional branch of the code leads before the function, the   *)
(* analysis never does: unconditional ones are taken for tail calls.       *)
THEOREM StaysBehindStart ==
  ASSUME Conditional \subseteq Nat
  PROVE  Spec => []ChasesNothingBefore
<1>1. Inv => ChasesNothingBefore
  <2> SUFFICES ASSUME Inv, NEW i \in DOMAIN blocks PROVE blocks[i].base >= 0
    BY DEF ChasesNothingBefore
  <2>1. blocks[i] \in BlockType /\ Lowest <= blocks[i].base
    BY DEF Inv, BlocksType
  <2>2. blocks[i].base \in Int
    BY <2>1 DEF BlockType
  <2>3. Lowest = 0
    BY DEF Lowest
  <2> QED
    BY ONLY <2>1, <2>2, <2>3
<1> QED
  BY <1>1, AnalysisInvariant, PTL
-----------------------------------------------------------------------------
(* What the analyzer finds: the words that control reaches.                *)

(* Every set of natural numbers has a least element.                       *)
LEMMA LeastNatural ==
  ASSUME NEW T, T \subseteq Nat, T # {}
  PROVE  \E x \in T : \A y \in T : x <= y
<1> DEFINE R == OpToRel(<, Nat)
<1>1. IsWellFoundedOn(R, Nat)
  BY NatLessThanWellFounded, Zenon
<1>2. \A x, y \in Nat : x < y => <<x, y>> \in R
  BY Zenon DEF OpToRel
<1> HIDE DEF R
<1>3. PICK x \in T : \A y \in T : ~ (<<y, x>> \in R)
  BY <1>1, WFMin
<1>4. \A y \in T : ~ (y < x)
  BY <1>2, <1>3, Zenon
<1>5. \A y \in T : x <= y
  BY <1>4
<1> QED
  BY <1>5

(* Control stays in the section, and where it reaches it goes on reaching. *)
LEMMA ReachedIsClosed ==
  ASSUME OrdinaryCode
  PROVE  /\ 0 \in Reached
         /\ Reached \subseteq 0 .. Length - 1
         /\ \A w \in Reached : \A s \in Successors(w) : s \in Reached
<1>1. 0 \in Reached
  BY CodeAssumption DEF Reached
<1>2. ASSUME NEW w \in Reached, w # Length, NEW s \in Successors(w)
      PROVE  s \in Reached /\ s # Length
  <2>1. s \in 0 .. Length - 1
    BY <1>2 DEF OrdinaryCode
  <2>2. s \in 0 .. Length /\ s # Length
    BY <2>1, CodeAssumption
  <2>3. ASSUME NEW S \in SUBSET (0 .. Length), 0 \in S, Closed(S)
        PROVE  s \in S
    <3>1. w \in S
      BY <2>3 DEF Reached
    <3> QED
      BY <2>2, <2>3, <3>1 DEF Closed
  <2> QED
    BY <2>2, <2>3 DEF Reached
<1>3. Length \notin Reached
  <2> DEFINE S == Reached \ {Length}
  <2>1. 0 \in S /\ S \subseteq 0 .. Length
    BY <1>1, CodeAssumption DEF Reached
  <2>2. Closed(S)
    BY <1>2 DEF Closed
  <2>3. Length \in Reached => Length \in S
    BY <2>1, <2>2 DEF Reached
  <2> QED
    BY <2>3
<1>4. Reached \subseteq 0 .. Length - 1
  <2>1. Reached \subseteq 0 .. Length
    BY DEF Reached
  <2> QED
    BY <1>3, <2>1, CodeAssumption
<1> QED
  BY <1>1, <1>2, <1>3, <1>4

(* A set that holds the start and is closed holds all that is reached.     *)
LEMMA ReachedIsLeast ==
  ASSUME NEW S \in SUBSET (0 .. Length), 0 \in S, Closed(S)
  PROVE  Reached \subseteq S
BY DEF Reached

Contains(b, w) == b.base <= w /\ w < End(b)

Fresh(b) == b.size = 0

(* The blocks hold words that control reaches.                             *)
Sound(bs) ==
  \A i \in DOMAIN bs :
    /\ bs[i].base \in Reached
    /\ \A w \in Int : Contains(bs[i], w) => w \in Reached

(* Fresh blocks wait on the stack, each once; cur is the block in          *)
(* progress, or 0.                                                         *)
Waiting(bs, st, cur) ==
  /\ \A k, l \in DOMAIN st : st[k] = st[l] => k = l
  /\ \A k \in DOMAIN st : st[k] = cur \/ Fresh(bs[st[k]])
  /\ \A i \in DOMAIN bs : Fresh(bs[i]) => \E k \in DOMAIN st : st[k] = i
  /\ cur # 0 => st # <<>> /\ cur = st[Len(st)] /\ End(bs[cur]) \in Reached

(* Only its last word can end a block.                                     *)
PlainInside(bs, cur) ==
  \A i \in DOMAIN bs : \A w \in Int :
    Contains(bs[i], w) /\ (w + 1 < End(bs[i]) \/ i = cur) => code[w].op = "plain"

(* A block that starts behind b starts at e or holds it.                   *)
Meets(bs, b, e) ==
  \E j \in DOMAIN bs :
    b < bs[j].base /\ bs[j].base <= e /\ (bs[j].base = e \/ e < End(bs[j]))

(* A projection leads to such a block, or to one of the words T that are   *)
(* about to be looked up.                                                  *)
Projections(bs, T) ==
  \A i \in DOMAIN bs : bs[i].projected # NoProjection =>
    /\ 0 < bs[i].projected /\ bs[i].size <= bs[i].projected
    /\ \/ Meets(bs, bs[i].base, bs[i].base + bs[i].projected)
       \/ bs[i].base + bs[i].projected \in T

(* A block that is done ended with its last word or at its projection, and *)
(* where control goes from there is held, or about to be looked up.        *)
Followed(bs, cur, S) ==
  \A i \in DOMAIN bs : i # cur /\ ~Fresh(bs[i]) =>
    /\ code[End(bs[i]) - 1].op = "plain" => bs[i].size = bs[i].projected
    /\ \A w \in Successors(End(bs[i]) - 1) : Held(bs, w) \/ w \in S

Analysis(bs, st, cur, S, T) ==
  /\ WellFormed(bs, st)
  /\ Sound(bs)
  /\ Waiting(bs, st, cur)
  /\ PlainInside(bs, cur)
  /\ Projections(bs, T)
  /\ Followed(bs, cur, S)
  /\ Held(bs, 0)

LEMMA BlockFacts ==
  ASSUME NEW bs \in Seq(BlockType), NEW i \in DOMAIN bs
  PROVE  /\ bs[i].base \in Int /\ bs[i].size \in Nat /\ bs[i].projected \in Int
         /\ bs[i].projected # NoProjection => bs[i].projected \in Nat
         /\ End(bs[i]) = bs[i].base + bs[i].size /\ End(bs[i]) \in Int
<1>1. bs[i] \in BlockType
  OBVIOUS
<1>2. bs[i].base \in Int /\ bs[i].size \in Nat /\ bs[i].projected \in Nat \cup {NoProjection}
  BY <1>1 DEF BlockType
<1> QED
  BY <1>2 DEF End, NoProjection

(* What SearchBlock finds.                                                 *)
LEMMA HeldBy ==
  ASSUME NEW bs \in Seq(BlockType), NEW w \in Int
  PROVE  Held(bs, w) <=>
           /\ w >= 0
           /\ \E i \in DOMAIN bs :
                \/ Fresh(bs[i]) /\ w = bs[i].base
                \/ Contains(bs[i], w)
<1>1. \A i \in DOMAIN bs :
        (IF bs[i].size = 0 THEN w = bs[i].base ELSE bs[i].base <= w /\ w < End(bs[i]))
          <=> (Fresh(bs[i]) /\ w = bs[i].base) \/ Contains(bs[i], w)
  BY BlockFacts DEF Fresh, Contains
<1> QED
  BY <1>1 DEF Held

(* Blocks only grow.                                                       *)
Extends(bs, more) ==
  \A i \in DOMAIN bs :
    i \in DOMAIN more /\ more[i].base = bs[i].base /\ bs[i].size <= more[i].size

LEMMA HeldStays ==
  ASSUME NEW bs \in Seq(BlockType), NEW more \in Seq(BlockType), Extends(bs, more),
         NEW w \in Int, Held(bs, w)
  PROVE  Held(more, w)
<1>1. w >= 0
  BY HeldBy
<1>2. PICK i \in DOMAIN bs : (Fresh(bs[i]) /\ w = bs[i].base) \/ Contains(bs[i], w)
  BY HeldBy
<1>3. /\ i \in DOMAIN more /\ more[i].base = bs[i].base /\ bs[i].size <= more[i].size
      /\ bs[i].base \in Int /\ bs[i].size \in Nat /\ more[i].size \in Nat
      /\ End(bs[i]) = bs[i].base + bs[i].size /\ End(more[i]) = more[i].base + more[i].size
  BY BlockFacts DEF Extends
<1>4. (Fresh(more[i]) /\ w = more[i].base) \/ Contains(more[i], w)
  BY <1>2, <1>3 DEF Fresh, Contains
<1> QED
  BY <1>1, <1>3, <1>4, HeldBy

LEMMA MeetsStays ==
  ASSUME NEW bs \in Seq(BlockType), NEW more \in Seq(BlockType), Extends(bs, more),
         NEW b \in Int, NEW e \in Int, Meets(bs, b, e)
  PROVE  Meets(more, b, e)
<1>1. PICK j \in DOMAIN bs :
        b < bs[j].base /\ bs[j].base <= e /\ (bs[j].base = e \/ e < End(bs[j]))
  BY DEF Meets
<1>2. /\ j \in DOMAIN more /\ more[j].base = bs[j].base /\ bs[j].size <= more[j].size
      /\ bs[j].base \in Int /\ bs[j].size \in Nat /\ more[j].size \in Nat
      /\ End(bs[j]) = bs[j].base + bs[j].size /\ End(more[j]) = more[j].base + more[j].size
  BY BlockFacts DEF Extends
<1>3. more[j].base = e \/ e < End(more[j])
  BY <1>1, <1>2
<1> QED
  BY <1>1, <1>2, <1>3 DEF Meets

(* Held at its end, a projected block meets the block that holds it.       *)
LEMMA MeetsHolds ==
  ASSUME NEW bs \in Seq(BlockType), NEW b \in Nat, NEW e \in Int, Meets(bs, b, e)
  PROVE  Held(bs, e)
<1>1. PICK j \in DOMAIN bs :
        b < bs[j].base /\ bs[j].base <= e /\ (bs[j].base = e \/ e < End(bs[j]))
  BY DEF Meets
<1>2. /\ bs[j].base \in Int /\ bs[j].size \in Nat /\ End(bs[j]) = bs[j].base + bs[j].size
  BY BlockFacts
<1>3. e >= 0 /\ ((Fresh(bs[j]) /\ e = bs[j].base) \/ Contains(bs[j], e))
  BY <1>1, <1>2 DEF Fresh, Contains
<1> QED
  BY <1>3, HeldBy

(* A block that holds what lies behind b, but not b + 1, starts behind.    *)
LEMMA HeldMeets ==
  ASSUME NEW bs \in Seq(BlockType), NEW b \in Nat, NEW e \in Int, b <= e,
         ~Held(bs, b), Held(bs, e)
  PROVE  Meets(bs, b, e)
<1>1. PICK j \in DOMAIN bs : (Fresh(bs[j]) /\ e = bs[j].base) \/ Contains(bs[j], e)
  BY HeldBy
<1>2. ~ ((Fresh(bs[j]) /\ b = bs[j].base) \/ Contains(bs[j], b))
  BY HeldBy
<1>3. /\ bs[j].base \in Int /\ bs[j].size \in Nat /\ End(bs[j]) = bs[j].base + bs[j].size
  BY BlockFacts
<1>4. b < bs[j].base /\ bs[j].base <= e /\ (bs[j].base = e \/ e < End(bs[j]))
  BY <1>1, <1>2, <1>3 DEF Fresh, Contains
<1> QED
  BY <1>4 DEF Meets

(* The last word of a block.                                               *)
LEMMA LastWord ==
  ASSUME NEW bs \in Seq(BlockType), NEW i \in DOMAIN bs, ~Fresh(bs[i]), Sound(bs)
  PROVE  /\ Contains(bs[i], End(bs[i]) - 1) /\ End(bs[i]) - 1 \in Reached
         /\ End(bs[i]) - 1 \in Int /\ bs[i].base < End(bs[i])
<1>1. /\ bs[i].base \in Int /\ bs[i].size \in Nat /\ End(bs[i]) = bs[i].base + bs[i].size
      /\ bs[i].size # 0
  BY BlockFacts DEF Fresh
<1>2. Contains(bs[i], End(bs[i]) - 1) /\ End(bs[i]) - 1 \in Int
  BY <1>1 DEF Contains
<1> QED
  BY <1>1, <1>2 DEF Sound

-----------------------------------------------------------------------------
(* What is looked up and found need not be followed.                       *)
LEMMA FoundIsFollowed ==
  ASSUME NEW bs, NEW st, NEW cur, NEW S, NEW T, NEW w, Analysis(bs, st, cur, S, T), Held(bs, w)
  PROVE  Analysis(bs, st, cur, S \ {w}, T)
BY DEF Analysis, Followed

(* A block is pushed for a word that is reached and not yet looked up.     *)
LEMMA PushKeeps ==
  ASSUME OrdinaryCode, NEW bs, NEW st, NEW S, NEW T, Analysis(bs, st, 0, S, T),
         NEW w \in Reached, NEW p \in Nat \cup {NoProjection},
         p # NoProjection => /\ 0 < p
                             /\ Meets(bs, w, w + p) \/ (w + p \in T /\ w + p # w)
  PROVE  Analysis(Push(bs, Block(w, p)), Pushed(bs, st), 0, S \ {w}, T \ {w})
<1> DEFINE b == Block(w, p)
           more == Push(bs, b)
           stack2 == Pushed(bs, st)
           n == Len(bs) + 1
<1>1. /\ bs \in Seq(BlockType) /\ st \in Seq(Nat)
      /\ \A k \in DOMAIN st : st[k] \in DOMAIN bs
      /\ WellFormed(bs, st)
  BY DEF Analysis, WellFormed
<1>2. w \in Nat /\ w \in 0 .. Length - 1
  BY ReachedIsClosed, CodeAssumption
<1>3. b \in BlockType /\ b.base = w /\ b.size = 0 /\ b.projected = p /\ End(b) = w
  BY <1>2 DEF Block, BlockType, End
<1> HIDE DEF b
<1>4. /\ more \in Seq(BlockType) /\ DOMAIN more = DOMAIN bs \cup {n}
      /\ n \notin DOMAIN bs /\ n \in Nat /\ n # 0
      /\ more[n] = b /\ \A i \in DOMAIN bs : more[i] = bs[i]
  BY <1>1, <1>3 DEF Push
<1>5. /\ stack2 \in Seq(Nat) /\ DOMAIN stack2 = DOMAIN st \cup {Len(st) + 1}
      /\ Len(st) + 1 \notin DOMAIN st
      /\ stack2[Len(st) + 1] = n /\ \A k \in DOMAIN st : stack2[k] = st[k]
  BY <1>1, <1>4 DEF Pushed
<1>6. WellFormed(more, stack2)
  <2>1. Lowest <= b.base
    BY <1>2, <1>3, LowestBound
  <2> QED
    BY <1>1, <1>3, <2>1, PushWellFormed
<1> HIDE DEF more, stack2, n
<1>7. Extends(bs, more)
  BY <1>1, <1>4, BlockFacts DEF Extends
<1>8. Sound(more)
  <2>1. \A v \in Int : ~Contains(b, v)
    BY <1>2, <1>3 DEF Contains
  <2> QED
    BY <1>3, <1>4, <2>1 DEF Sound, Analysis
<1>9. Waiting(more, stack2, 0)
  <2>1. Waiting(bs, st, 0)
    BY DEF Analysis
  <2>2. \A k, l \in DOMAIN stack2 : stack2[k] = stack2[l] => k = l
    BY <1>1, <1>4, <1>5, <2>1 DEF Waiting
  <2>3. \A k \in DOMAIN stack2 : stack2[k] = 0 \/ Fresh(more[stack2[k]])
    BY <1>1, <1>3, <1>4, <1>5, <2>1 DEF Waiting, Fresh
  <2>4. \A i \in DOMAIN more : Fresh(more[i]) => \E k \in DOMAIN stack2 : stack2[k] = i
    BY <1>1, <1>4, <1>5, <2>1 DEF Waiting
  <2> QED
    BY <2>2, <2>3, <2>4 DEF Waiting
<1>10. PlainInside(more, 0)
  <2>1. \A v \in Int : ~Contains(b, v)
    BY <1>2, <1>3 DEF Contains
  <2>2. \A i \in DOMAIN more : i # 0
    BY <1>1, <1>4
  <2>3. \A i \in DOMAIN bs : i # 0
    BY <1>1
  <2> QED
    BY <1>4, <2>1, <2>2, <2>3 DEF PlainInside, Analysis
<1>11. Projections(more, T \ {w})
  <2> SUFFICES ASSUME NEW i \in DOMAIN more, more[i].projected # NoProjection
               PROVE  /\ 0 < more[i].projected /\ more[i].size <= more[i].projected
                      /\ \/ Meets(more, more[i].base, more[i].base + more[i].projected)
                         \/ more[i].base + more[i].projected \in T \ {w}
    BY DEF Projections
  <2> DEFINE e == more[i].base + more[i].projected
  <2>1. more[i].base \in Int /\ more[i].projected \in Nat /\ e \in Int
    BY <1>4, BlockFacts
  <2>2. /\ 0 < more[i].projected /\ more[i].size <= more[i].projected
        /\ Meets(bs, more[i].base, e) \/ e \in T
        /\ i = n => e # w
    <3>1. CASE i = n
      BY <1>2, <1>3, <1>4, <3>1, <2>1
    <3>2. CASE i \in DOMAIN bs
      BY <1>4, <3>2 DEF Analysis, Projections
    <3> QED
      BY <1>4, <3>1, <3>2
  <2>3. CASE Meets(bs, more[i].base, e)
    BY <1>1, <1>4, <1>7, <2>1, <2>2, <2>3, MeetsStays
  <2>4. CASE e \in T /\ e # w
    BY <2>2, <2>4
  <2>5. CASE e = w /\ i # n
    <3>1. more[i].base < e
      BY <2>1, <2>2
    <3>2. n \in DOMAIN more /\ more[n].base = e /\ more[n].base <= e
      BY <1>3, <1>4, <2>1, <2>5
    <3>3. more[i].base < more[n].base
      BY <3>1, <3>2
    <3>4. Meets(more, more[i].base, e)
      BY <3>2, <3>3 DEF Meets
    <3> QED
      BY <2>2, <3>4
  <2> QED
    BY <2>2, <2>3, <2>4, <2>5
<1>12. Followed(more, 0, S \ {w})
  <2> SUFFICES ASSUME NEW i \in DOMAIN more, ~Fresh(more[i])
               PROVE  /\ code[End(more[i]) - 1].op = "plain" => more[i].size = more[i].projected
                      /\ \A s \in Successors(End(more[i]) - 1) : Held(more, s) \/ s \in S \ {w}
    BY DEF Followed
  <2>1. i \in DOMAIN bs /\ more[i] = bs[i] /\ ~Fresh(bs[i]) /\ i # 0
    BY <1>1, <1>3, <1>4 DEF Fresh
  <2>2. /\ code[End(bs[i]) - 1].op = "plain" => bs[i].size = bs[i].projected
        /\ \A s \in Successors(End(bs[i]) - 1) : Held(bs, s) \/ s \in S
    BY <2>1 DEF Analysis, Followed
  <2>3. ASSUME NEW s \in Successors(End(bs[i]) - 1)
        PROVE  Held(more, s) \/ s \in S \ {w}
    <3>1. End(bs[i]) - 1 \in Reached
      BY <1>1, <2>1, LastWord DEF Analysis
    <3>2. s \in Int
      BY <3>1, ReachedIsClosed
    <3>3. Held(more, w)
      BY <1>2, <1>3, <1>4, HeldBy DEF Fresh
    <3> QED
      BY <1>1, <1>4, <1>7, <2>2, <3>2, <3>3, HeldStays
  <2> QED
    BY <2>1, <2>2, <2>3
<1>13. Held(more, 0)
  BY <1>1, <1>4, <1>7, HeldStays DEF Analysis
<1>14. Analysis(more, stack2, 0, S \ {w}, T \ {w})
  BY <1>6, <1>8, <1>9, <1>10, <1>11, <1>12, <1>13 DEF Analysis
<1> QED
  BY <1>14 DEF more, stack2, b

(* A block that waits on the stack is taken up.                            *)
LEMMA TakeUp ==
  ASSUME OrdinaryCode, NEW bs, NEW st, st # <<>>, Analysis(bs, st, 0, {}, {})
  PROVE  Analysis(bs, st, st[Len(st)], {}, {})
<1> DEFINE cur == st[Len(st)]
<1>1. WellFormed(bs, st) /\ bs \in Seq(BlockType) /\ st \in Seq(Nat)
  BY DEF Analysis, WellFormed
<1>2. Len(st) \in DOMAIN st /\ cur \in DOMAIN bs /\ cur # 0
  BY <1>1, TopIsBlock
<1>3. Fresh(bs[cur])
  BY <1>1, <1>2 DEF Analysis, Waiting
<1>4. End(bs[cur]) = bs[cur].base
  BY <1>1, <1>2, <1>3, BlockFacts DEF Fresh
<1>5. \A w \in Int : ~Contains(bs[cur], w)
  BY <1>1, <1>2, <1>4, BlockFacts DEF Contains
<1> HIDE DEF cur
<1>6. Waiting(bs, st, cur)
  <2>1. End(bs[cur]) \in Reached
    BY <1>2, <1>4 DEF Analysis, Sound
  <2>2. cur = st[Len(st)]
    BY DEF cur
  <2>3. \A k \in DOMAIN st : Fresh(bs[st[k]])
    BY <1>1 DEF Analysis, Waiting, WellFormed
  <2>4. /\ \A k, l \in DOMAIN st : st[k] = st[l] => k = l
        /\ \A i \in DOMAIN bs : Fresh(bs[i]) => \E k \in DOMAIN st : st[k] = i
    BY DEF Analysis, Waiting
  <2> QED
    BY <2>1, <2>2, <2>3, <2>4 DEF Waiting
<1>7. PlainInside(bs, cur)
  BY <1>5 DEF Analysis, PlainInside
<1>8. Followed(bs, cur, {})
  <2>1. \A i \in DOMAIN bs : i # 0
    BY <1>1
  <2> QED
    BY <2>1 DEF Analysis, Followed
<1> QED
  BY <1>6, <1>7, <1>8 DEF Analysis, cur

(* What is popped, and what it leaves.                                     *)
LEMMA PoppedStack ==
  ASSUME NEW bs, NEW st, WellFormed(bs, st), st # <<>>
  PROVE  LET rest == SubSeq(st, 1, Len(st) - 1)
         IN  /\ rest \in Seq(Nat) /\ DOMAIN rest = DOMAIN st \ {Len(st)}
             /\ \A k \in DOMAIN rest : rest[k] = st[k]
             /\ WellFormed(bs, rest)
BY DEF WellFormed

(* The block in progress is done, and those that wait on are fresh.        *)
LEMMA PopWaits ==
  ASSUME NEW bs, NEW st, WellFormed(bs, st), st # <<>>,
         NEW more, WellFormed(more, st),
         DOMAIN more = DOMAIN bs,
         \A i \in DOMAIN bs : i # st[Len(st)] => more[i] = bs[i],
         ~Fresh(more[st[Len(st)]]),
         Waiting(bs, st, st[Len(st)])
  PROVE  Waiting(more, SubSeq(st, 1, Len(st) - 1), 0)
<1> DEFINE cur == st[Len(st)]
           rest == SubSeq(st, 1, Len(st) - 1)
<1>1. /\ rest \in Seq(Nat) /\ DOMAIN rest = DOMAIN st \ {Len(st)}
      /\ \A k \in DOMAIN rest : rest[k] = st[k]
  BY PoppedStack
<1>2. Len(st) \in DOMAIN st /\ \A k \in DOMAIN st : st[k] \in DOMAIN bs
  BY DEF WellFormed
<1> HIDE DEF rest
<1>3. \A k, l \in DOMAIN rest : rest[k] = rest[l] => k = l
  BY <1>1 DEF Waiting
<1>4. \A k \in DOMAIN rest : Fresh(more[rest[k]])
  BY <1>1, <1>2 DEF Waiting
<1>5. ASSUME NEW i \in DOMAIN more, Fresh(more[i])
      PROVE  \E k \in DOMAIN rest : rest[k] = i
  <2>1. i # cur /\ Fresh(bs[i])
    BY <1>5
  <2>2. PICK k \in DOMAIN st : st[k] = i
    BY <2>1 DEF Waiting
  <2> QED
    BY <1>1, <2>1, <2>2
<1>6. Waiting(more, rest, 0)
  BY <1>3, <1>4, <1>5 DEF Waiting
<1> QED
  BY <1>6 DEF rest

Cur == stack[Len(stack)]

(* A projected block that has come to its end.                             *)
LEMMA FallThroughKeeps ==
  ASSUME OrdinaryCode, stack # <<>>, Projected, Analysis(blocks, stack, Cur, {}, {})
  PROVE  Analysis(blocks, Popped, 0, {}, {})
<1>1. WellFormed(blocks, stack) /\ blocks \in Seq(BlockType)
  BY DEF Analysis, WellFormed
<1>2. Cur \in DOMAIN blocks /\ Cur # 0
  BY <1>1, TopIsBlock DEF Cur
<1> DEFINE b == blocks[Cur]
<1>3. /\ b.base \in Int /\ b.size \in Nat /\ b.projected \in Int
      /\ End(b) = b.base + b.size /\ End(b) \in Int
  BY <1>1, <1>2, BlockFacts
<1>4. b.base \in Nat
  BY <1>2, ReachedIsClosed, CodeAssumption DEF Analysis, Sound
<1>5. /\ b.projected # NoProjection /\ b.size >= b.projected
  BY DEF Projected, Top, Cur
<1>6. /\ 0 < b.projected /\ b.size <= b.projected
      /\ Meets(blocks, b.base, b.base + b.projected)
  BY <1>2, <1>5 DEF Analysis, Projections
<1>7. b.size = b.projected /\ ~Fresh(b) /\ Meets(blocks, b.base, End(b))
  BY <1>3, <1>5, <1>6 DEF Fresh
<1>8. Held(blocks, End(b))
  BY <1>1, <1>3, <1>4, <1>7, MeetsHolds
<1>9. WellFormed(blocks, Popped)
  BY <1>1, PoppedStack DEF Popped
<1>10. Waiting(blocks, Popped, 0)
  <2>1. Waiting(blocks, stack, stack[Len(stack)])
    BY DEF Analysis, Cur
  <2> QED
    BY <1>1, <1>7, <2>1, PopWaits DEF Popped, Cur
<1>11. PlainInside(blocks, 0)
  <2>1. \A i \in DOMAIN blocks : i # 0
    BY <1>1
  <2> QED
    BY <2>1 DEF Analysis, PlainInside
<1>12. Successors(End(b) - 1) = {End(b)}
  <2>1. Contains(b, End(b) - 1) /\ End(b) - 1 \in Int /\ (End(b) - 1) + 1 = End(b)
    BY <1>3, <1>7 DEF Contains, Fresh
  <2>2. code[End(b) - 1].op = "plain"
    BY <1>2, <2>1 DEF Analysis, PlainInside
  <2> QED
    BY <2>1, <2>2 DEF Successors
<1>13. Followed(blocks, 0, {})
  <2> SUFFICES ASSUME NEW i \in DOMAIN blocks, ~Fresh(blocks[i])
               PROVE  /\ code[End(blocks[i]) - 1].op = "plain"
                           => blocks[i].size = blocks[i].projected
                      /\ \A w \in Successors(End(blocks[i]) - 1) : Held(blocks, w) \/ w \in {}
    BY DEF Followed
  <2>1. CASE i = Cur
    BY <1>7, <1>8, <1>12, <2>1
  <2>2. CASE i # Cur
    BY <2>2 DEF Analysis, Followed
  <2> QED
    BY <2>1, <2>2
<1> QED
  BY <1>9, <1>10, <1>11, <1>13 DEF Analysis

(* The block in progress with one word more, its projection kept or not.   *)
Longer == {Grown, [Grown EXCEPT ![Cur].projected = NoProjection]}

LEMMA LongerFacts ==
  ASSUME OrdinaryCode, Inv, Scanning, ~Projected, Analysis(blocks, stack, Cur, {}, {}),
         NEW bs \in Longer
  PROVE  /\ WellFormed(bs, stack) /\ WellFormed(bs, Popped)
         /\ DOMAIN bs = DOMAIN blocks /\ Extends(blocks, bs)
         /\ \A i \in DOMAIN blocks : i # Cur => bs[i] = blocks[i]
         /\ Cur \in DOMAIN blocks
         /\ bs[Cur].base = blocks[Cur].base /\ bs[Cur].size = blocks[Cur].size + 1
         /\ bs[Cur].projected \in {blocks[Cur].projected, NoProjection}
         /\ bs = Grown => bs[Cur].projected = blocks[Cur].projected
         /\ data = End(blocks[Cur]) /\ data \in Reached
         /\ End(bs[Cur]) = data + 1
<1>1. stack # <<>> /\ phase = "scan"
  BY DEF Scanning
<1>2. WellFormed(blocks, stack) /\ blocks \in Seq(BlockType)
  BY DEF Analysis, WellFormed
<1>3. Cur \in DOMAIN blocks /\ blocks[Cur] \in BlockType
  BY <1>1, <1>2, TopIsBlock DEF Cur
<1> DEFINE b == blocks[Cur]
<1>4. b.base \in Int /\ b.size \in Nat /\ b.projected \in Nat \cup {NoProjection}
  BY <1>3 DEF BlockType
<1>5. /\ WellFormed(Grown, stack) /\ WellFormed(Grown, Popped) /\ DOMAIN Grown = DOMAIN blocks
  BY <1>1, GrownWellFormed
<1>6. /\ Grown[Cur] = [b EXCEPT !.size = @ + 1]
      /\ \A i \in DOMAIN blocks : i # Cur => Grown[i] = blocks[i]
  BY <1>2, <1>3 DEF Grown, Cur
<1>7. Grown[Cur].base = b.base /\ Grown[Cur].size = b.size + 1 /\ Grown[Cur].projected = b.projected
  BY <1>3, <1>6 DEF BlockType
<1> DEFINE g == Grown
<1>8. g \in Seq(BlockType) /\ Cur \in DOMAIN g /\ g[Cur] \in BlockType
  BY <1>3, <1>5 DEF WellFormed
<1> HIDE DEF g
<1> DEFINE cleared == [g EXCEPT ![Cur].projected = NoProjection]
<1>9. /\ DOMAIN cleared = DOMAIN g
      /\ \A i \in DOMAIN g : i # Cur => cleared[i] = g[i]
      /\ cleared[Cur] = [g[Cur] EXCEPT !.projected = NoProjection]
  BY <1>8
<1>10. /\ cleared[Cur].base = g[Cur].base /\ cleared[Cur].size = g[Cur].size
       /\ cleared[Cur].projected = NoProjection /\ cleared[Cur] \in BlockType
  BY <1>8, <1>9 DEF BlockType
<1>11. WellFormed(cleared, stack) /\ WellFormed(cleared, Popped)
  <2>1. cleared \in Seq(BlockType)
    BY <1>8, <1>10
  <2>2. \A i \in DOMAIN cleared : cleared[i].base = g[i].base
    BY <1>9, <1>10
  <2> HIDE DEF cleared
  <2> QED
    BY <1>5, <1>9, <2>1, <2>2 DEF WellFormed, g
<1>12. bs = g \/ bs = cleared
  BY DEF Longer, g
<1>13. /\ WellFormed(bs, stack) /\ WellFormed(bs, Popped) /\ DOMAIN bs = DOMAIN blocks
       /\ \A i \in DOMAIN blocks : i # Cur => bs[i] = blocks[i]
       /\ bs[Cur].base = b.base /\ bs[Cur].size = b.size + 1
       /\ bs[Cur].projected \in {b.projected, NoProjection}
       /\ bs = Grown => bs[Cur].projected = b.projected
  <2>1. CASE bs = g
    BY <1>5, <1>6, <1>7, <2>1 DEF g
  <2>2. CASE bs = cleared
    <3> HIDE DEF cleared
    <3>1. /\ WellFormed(bs, stack) /\ WellFormed(bs, Popped) /\ DOMAIN bs = DOMAIN blocks
      BY <1>5, <1>9, <1>11, <2>2 DEF g
    <3>2. \A i \in DOMAIN blocks : i # Cur => bs[i] = blocks[i]
      BY <1>5, <1>6, <1>9, <2>2 DEF g
    <3>3. bs[Cur].base = b.base /\ bs[Cur].size = b.size + 1 /\ bs[Cur].projected = NoProjection
      BY <1>7, <1>10, <2>2 DEF g
    <3>4. bs = Grown => bs[Cur].projected = b.projected
      BY <1>7
    <3> QED
      BY <3>1, <3>2, <3>3, <3>4
  <2> QED
    BY <1>12, <2>1, <2>2
<1>14. Extends(blocks, bs)
  <2>1. \A i \in DOMAIN blocks : blocks[i].size \in Nat
    BY <1>2, BlockFacts
  <2> QED
    BY <1>4, <1>13, <2>1 DEF Extends
<1>15. data = End(b)
  BY <1>1 DEF Inv, SanityCheck, Top, Cur
<1>16. data \in Reached
  BY <1>3, <1>15, <1>2 DEF Analysis, Waiting
<1>17. End(bs[Cur]) = data + 1
  BY <1>4, <1>13, <1>15 DEF End
<1> QED
  BY <1>3, <1>13, <1>14, <1>15, <1>16, <1>17

(* What does not depend on how the word ends the block.                    *)
LEMMA LongerKeeps ==
  ASSUME OrdinaryCode, Inv, Scanning, ~Projected, Analysis(blocks, stack, Cur, {}, {}),
         NEW bs \in Longer
  PROVE  /\ Sound(bs) /\ Projections(bs, {}) /\ Held(bs, 0) /\ bs \in Seq(BlockType)
         /\ \A w \in Int : Contains(bs[Cur], w) => w = data \/ Contains(blocks[Cur], w)
         /\ \A w \in Int : Contains(blocks[Cur], w) => code[w].op = "plain"
         /\ ~Fresh(bs[Cur]) /\ data \in Int
<1>1. /\ WellFormed(bs, stack)
      /\ DOMAIN bs = DOMAIN blocks /\ Extends(blocks, bs)
      /\ \A i \in DOMAIN blocks : i # Cur => bs[i] = blocks[i]
      /\ Cur \in DOMAIN blocks
      /\ bs[Cur].base = blocks[Cur].base /\ bs[Cur].size = blocks[Cur].size + 1
      /\ bs[Cur].projected \in {blocks[Cur].projected, NoProjection}
      /\ data = End(blocks[Cur]) /\ data \in Reached
      /\ End(bs[Cur]) = data + 1
  BY LongerFacts
<1>2. bs \in Seq(BlockType) /\ blocks \in Seq(BlockType)
  BY <1>1 DEF Analysis, WellFormed
<1>3. /\ blocks[Cur].base \in Int /\ blocks[Cur].size \in Nat /\ blocks[Cur].projected \in Int
      /\ blocks[Cur].projected # NoProjection => blocks[Cur].projected \in Nat
  BY <1>1, <1>2, BlockFacts
<1>4. data \in Int
  BY <1>1, ReachedIsClosed
<1>5. \A w \in Int : Contains(bs[Cur], w) => w = data \/ Contains(blocks[Cur], w)
  BY <1>1, <1>4 DEF Contains
<1>6. \A w \in Int : Contains(blocks[Cur], w) => code[w].op = "plain"
  BY <1>1 DEF Analysis, PlainInside
<1>7. Sound(bs)
  BY <1>1, <1>5 DEF Analysis, Sound
<1>8. ~Fresh(bs[Cur])
  BY <1>1, <1>3 DEF Fresh
<1>9. Projections(bs, {})
  <2> SUFFICES ASSUME NEW i \in DOMAIN bs, bs[i].projected # NoProjection
               PROVE  /\ 0 < bs[i].projected /\ bs[i].size <= bs[i].projected
                      /\ Meets(bs, bs[i].base, bs[i].base + bs[i].projected)
    BY DEF Projections
  <2>1. blocks[i].projected = bs[i].projected /\ blocks[i].base = bs[i].base
    BY <1>1
  <2>2. /\ 0 < blocks[i].projected /\ blocks[i].size <= blocks[i].projected
        /\ Meets(blocks, blocks[i].base, blocks[i].base + blocks[i].projected)
    BY <1>1, <2>1 DEF Analysis, Projections
  <2>3. blocks[i].base \in Int /\ blocks[i].base + blocks[i].projected \in Int
    <3>1. i \in DOMAIN blocks /\ blocks \in Seq(BlockType)
      BY <1>1, <1>2
    <3>2. blocks[i].base \in Int /\ blocks[i].projected \in Int
      BY <3>1, BlockFacts
    <3> QED
      BY ONLY <3>2
  <2>4. Meets(bs, bs[i].base, bs[i].base + bs[i].projected)
    BY <1>1, <1>2, <2>1, <2>2, <2>3, MeetsStays
  <2>5. bs[i].size <= bs[i].projected
    <3>1. CASE i = Cur
      <4>1. blocks[Cur].size < blocks[Cur].projected
        BY <1>3, <2>1, <3>1 DEF Projected, Top, Cur
      <4> QED
        BY <1>1, <1>3, <2>1, <3>1, <4>1
    <3>2. CASE i # Cur
      BY <1>1, <2>2, <3>2
    <3> QED
      BY <3>1, <3>2
  <2> QED
    BY <2>1, <2>2, <2>4, <2>5
<1>10. Held(bs, 0)
  BY <1>1, <1>2, HeldStays DEF Analysis
<1> QED
  BY <1>2, <1>4, <1>5, <1>6, <1>7, <1>8, <1>9, <1>10

(* A word that goes on to the next.                                        *)
LEMMA PlainGoesOn ==
  ASSUME OrdinaryCode, Inv, Scanning, ~Projected, Analysis(blocks, stack, Cur, {}, {}),
         code[data].op = "plain"
  PROVE  Analysis(Grown, stack, Cur, {}, {})
<1>1. Grown \in Longer
  BY DEF Longer
<1>2. /\ WellFormed(Grown, stack) /\ DOMAIN Grown = DOMAIN blocks /\ Extends(blocks, Grown)
      /\ \A i \in DOMAIN blocks : i # Cur => Grown[i] = blocks[i]
      /\ Cur \in DOMAIN blocks /\ data \in Reached /\ End(Grown[Cur]) = data + 1
  BY <1>1, LongerFacts
<1>3. /\ Sound(Grown) /\ Projections(Grown, {}) /\ Held(Grown, 0) /\ Grown \in Seq(BlockType)
      /\ \A w \in Int : Contains(Grown[Cur], w) => w = data \/ Contains(blocks[Cur], w)
      /\ \A w \in Int : Contains(blocks[Cur], w) => code[w].op = "plain"
      /\ ~Fresh(Grown[Cur])
  BY <1>1, LongerKeeps
<1> DEFINE g == Grown
<1> HIDE DEF g
<1>4. Waiting(g, stack, Cur)
  <2>1. data + 1 \in Reached
    BY <1>2, ReachedIsClosed DEF Successors
  <2>2. \A k \in DOMAIN stack : stack[k] \in DOMAIN blocks
    BY DEF Analysis, WellFormed
  <2>3. \A k \in DOMAIN stack : stack[k] = Cur \/ Fresh(g[stack[k]])
    BY <1>2, <2>2 DEF Analysis, Waiting, g
  <2>4. \A i \in DOMAIN g : Fresh(g[i]) => \E k \in DOMAIN stack : stack[k] = i
    BY <1>2, <1>3 DEF Analysis, Waiting, g
  <2>5. stack # <<>> /\ Cur = stack[Len(stack)]
    BY DEF Scanning, Cur
  <2>6. End(g[Cur]) \in Reached
    BY <1>2, <2>1 DEF g
  <2>7. \A k, l \in DOMAIN stack : stack[k] = stack[l] => k = l
    BY DEF Analysis, Waiting
  <2> QED
    BY <2>3, <2>4, <2>5, <2>6, <2>7 DEF Waiting
<1>5. PlainInside(g, Cur)
  BY <1>2, <1>3 DEF Analysis, PlainInside, g
<1>6. Followed(g, Cur, {})
  <2> SUFFICES ASSUME NEW i \in DOMAIN g, i # Cur, ~Fresh(g[i])
               PROVE  /\ code[End(g[i]) - 1].op = "plain" => g[i].size = g[i].projected
                      /\ \A w \in Successors(End(g[i]) - 1) : Held(g, w)
    BY DEF Followed
  <2>1. g[i] = blocks[i] /\ i \in DOMAIN blocks
    BY <1>2 DEF g
  <2>2. /\ code[End(g[i]) - 1].op = "plain" => g[i].size = g[i].projected
        /\ \A w \in Successors(End(g[i]) - 1) : Held(blocks, w)
    BY <2>1 DEF Analysis, Followed
  <2>3. \A w \in Successors(End(g[i]) - 1) : w \in Int
    <3>1. End(g[i]) - 1 \in Reached
      BY <1>2, <1>3, LastWord DEF g
    <3> QED
      BY <3>1, ReachedIsClosed
  <2>4. \A w \in Successors(End(g[i]) - 1) : Held(g, w)
    BY <1>2, <1>3, <2>2, <2>3, HeldStays DEF Analysis, WellFormed, g
  <2> QED
    BY <2>2, <2>4
<1> QED
  BY <1>2, <1>3, <1>4, <1>5, <1>6 DEF Analysis, g

(* A word that ends the block leaves where it leads to be looked up.       *)
LEMMA EndLeaves ==
  ASSUME OrdinaryCode, Inv, Scanning, ~Projected, Analysis(blocks, stack, Cur, {}, {}),
         code[data].op # "plain", NEW bs \in Longer
  PROVE  Analysis(bs, Popped, 0, Successors(data), {})
<1>1. /\ WellFormed(bs, stack) /\ WellFormed(bs, Popped)
      /\ DOMAIN bs = DOMAIN blocks /\ Extends(blocks, bs)
      /\ \A i \in DOMAIN blocks : i # Cur => bs[i] = blocks[i]
      /\ Cur \in DOMAIN blocks /\ data \in Reached /\ End(bs[Cur]) = data + 1
      /\ data = End(blocks[Cur])
  BY LongerFacts
<1>2. /\ Sound(bs) /\ Projections(bs, {}) /\ Held(bs, 0) /\ bs \in Seq(BlockType)
      /\ \A w \in Int : Contains(bs[Cur], w) => w = data \/ Contains(blocks[Cur], w)
      /\ \A w \in Int : Contains(blocks[Cur], w) => code[w].op = "plain"
      /\ ~Fresh(bs[Cur]) /\ data \in Int
  BY LongerKeeps
<1>3. WellFormed(blocks, stack) /\ stack # <<>> /\ Waiting(blocks, stack, Cur)
  BY DEF Analysis, Scanning
<1>4. Waiting(bs, Popped, 0)
  BY <1>1, <1>2, <1>3, PopWaits DEF Popped, Cur
<1>5. \A i \in DOMAIN blocks : i # 0
  BY <1>3 DEF WellFormed
<1>6. PlainInside(bs, 0)
  <2> SUFFICES ASSUME NEW i \in DOMAIN bs, NEW w \in Int, Contains(bs[i], w), w + 1 < End(bs[i])
               PROVE  code[w].op = "plain"
    BY <1>1, <1>5 DEF PlainInside
  <2>1. CASE i = Cur
    <3>1. w # data
      BY <1>1, <1>2, <2>1
    <3> QED
      BY <1>2, <2>1, <3>1
  <2>2. CASE i # Cur
    BY <1>1, <2>2 DEF Analysis, PlainInside
  <2> QED
    BY <2>1, <2>2
<1>7. Followed(bs, 0, Successors(data))
  <2> SUFFICES ASSUME NEW i \in DOMAIN bs, ~Fresh(bs[i])
               PROVE  /\ code[End(bs[i]) - 1].op = "plain" => bs[i].size = bs[i].projected
                      /\ \A w \in Successors(End(bs[i]) - 1) :
                           Held(bs, w) \/ w \in Successors(data)
    BY DEF Followed
  <2>1. CASE i = Cur
    <3>1. End(bs[i]) - 1 = data
      BY <1>1, <1>2, <2>1
    <3> QED
      BY <3>1
  <2>2. CASE i # Cur
    <3>1. bs[i] = blocks[i] /\ i \in DOMAIN blocks
      BY <1>1, <2>2
    <3>2. /\ code[End(bs[i]) - 1].op = "plain" => bs[i].size = bs[i].projected
          /\ \A w \in Successors(End(bs[i]) - 1) : Held(blocks, w)
      BY <2>2, <3>1 DEF Analysis, Followed
    <3>3. \A w \in Successors(End(bs[i]) - 1) : w \in Int
      <4>1. End(bs[i]) - 1 \in Reached
        BY <1>2, LastWord
      <4> QED
        BY <4>1, ReachedIsClosed
    <3>4. \A w \in Successors(End(bs[i]) - 1) : Held(bs, w)
      BY <1>1, <1>2, <1>3, <3>2, <3>3, HeldStays DEF WellFormed
    <3> QED
      BY <3>2, <3>4
  <2> QED
    BY <2>1, <2>2
<1> QED
  BY <1>1, <1>2, <1>4, <1>6, <1>7 DEF Analysis

-----------------------------------------------------------------------------
(* The loop *)

Progress == IF stack = <<>> THEN 0 ELSE Cur

LoopInv == phase = "scan" /\ OrdinaryCode => Analysis(blocks, stack, Progress, {}, {})

LEMMA SameCode ==
  ASSUME code' = code
  PROVE  OrdinaryCode' = OrdinaryCode /\ Reached' = Reached /\ ReachedSize' = ReachedSize
<1>1. \A w : Successors(w)' = Successors(w)
  BY DEF Successors
<1>2. Reached' = Reached
  BY <1>1 DEF Reached, Closed
<1> QED
  BY <1>1, <1>2 DEF OrdinaryCode, ReachedSize

(* The analysis is the same in the next state, where the code is.          *)
LEMMA SameAnalysis ==
  ASSUME NEW bs, NEW st, NEW cur, Analysis(bs, st, cur, {}, {}),
         blocks' = bs, stack' = st, Progress' = cur, code' = code
  PROVE  Analysis(blocks, stack, Progress, {}, {})'
<1>1. Reached' = Reached /\ \A w : Successors(w)' = Successors(w)
  BY SameCode DEF Successors
<1>2. WellFormed(blocks, stack)' /\ Held(blocks, 0)'
  BY DEF Analysis, WellFormed, Held, End
<1>3. Sound(blocks)'
  BY <1>1 DEF Analysis, Sound, Contains, End
<1>4. Waiting(blocks, stack, Progress)'
  BY <1>1 DEF Analysis, Waiting, Fresh, End
<1>5. PlainInside(blocks, Progress)'
  BY DEF Analysis, PlainInside, Contains, End
<1>6. Projections(blocks, {})'
  BY DEF Analysis, Projections, Meets, End
<1>7. Followed(blocks, Progress, {})'
  BY <1>1 DEF Analysis, Followed, Fresh, Held, End
<1> QED
  BY <1>2, <1>3, <1>4, <1>5, <1>6, <1>7 DEF Analysis

LEMMA ResumeLoop ==
  ASSUME OrdinaryCode, NEW bs, NEW st, Resume(bs, st), Analysis(bs, st, 0, {}, {})
  PROVE  LoopInv'
<1>1. blocks' = bs /\ stack' = st /\ code' = code
  BY DEF Resume
<1> DEFINE cur == IF st = <<>> THEN 0 ELSE st[Len(st)]
<1>2. Analysis(bs, st, cur, {}, {})
  BY TakeUp
<1>3. Progress' = cur
  BY <1>1 DEF Progress, Cur
<1> HIDE DEF cur
<1>4. Analysis(blocks, stack, Progress, {}, {})'
  BY <1>1, <1>2, <1>3, SameAnalysis
<1> QED
  BY <1>4 DEF LoopInv

LEMMA MoreToLookUp ==
  ASSUME NEW bs, NEW st, NEW S, NEW T, Analysis(bs, st, 0, S, {})
  PROVE  Analysis(bs, st, 0, S, T)
BY DEF Analysis, Projections

(* What the loop knows when it reads a word.                               *)
LEMMA Reading ==
  ASSUME Inv, LoopInv, OrdinaryCode, Scanning, ~Projected, code[data].op # "plain",
         NEW bs \in Longer
  PROVE  /\ Analysis(bs, Popped, 0, Successors(data), {})
         /\ data \in 0 .. Length - 1 /\ data \in Int
         /\ Successors(data) \subseteq Reached
<1>1. Analysis(blocks, stack, Cur, {}, {})
  BY DEF LoopInv, Scanning, Progress
<1>2. data \in Reached
  BY <1>1, LongerFacts
<1> QED
  BY <1>1, <1>2, EndLeaves, ReachedIsClosed

LEMMA FallThroughLoop ==
  ASSUME Inv, LoopInv, OrdinaryCode, FallThrough
  PROVE  LoopInv'
<1>1. Analysis(blocks, stack, Cur, {}, {}) /\ stack # <<>>
  BY DEF LoopInv, FallThrough, Scanning, Progress
<1> QED
  BY <1>1, FallThroughKeeps, ResumeLoop DEF FallThrough

LEMMA PlainLoop ==
  ASSUME Inv, LoopInv, OrdinaryCode, Plain
  PROVE  LoopInv'
<1>1. Analysis(blocks, stack, Cur, {}, {}) /\ stack # <<>>
  BY DEF LoopInv, Plain, Reads, Scanning, Progress
<1>2. Analysis(Grown, stack, Cur, {}, {})
  BY <1>1, PlainGoesOn DEF Plain, Reads
<1>3. blocks' = Grown /\ stack' = stack /\ code' = code
  BY DEF Plain
<1>4. Progress' = Cur
  BY <1>1, <1>3 DEF Progress, Cur
<1>5. Analysis(blocks, stack, Progress, {}, {})'
  BY <1>2, <1>3, <1>4, SameAnalysis
<1> QED
  BY <1>5 DEF LoopInv

LEMMA ReturnLoop ==
  ASSUME Inv, LoopInv, OrdinaryCode, Return
  PROVE  LoopInv'
<1>1. Scanning /\ ~Projected /\ code[data].op = "return" /\ Resume(Grown, Popped)
  BY DEF Return, Reads
<1>2. Analysis(Grown, Popped, 0, Successors(data), {})
  BY <1>1, Reading DEF Longer
<1>3. Successors(data) = {}
  BY <1>1 DEF Successors
<1> QED
  BY <1>1, <1>2, <1>3, ResumeLoop

LEMMA CondReturnLoop ==
  ASSUME Inv, LoopInv, OrdinaryCode, CondReturn
  PROVE  LoopInv'
<1>1. Scanning /\ ~Projected /\ code[data].op = "condReturn"
  BY DEF CondReturn, Reads
<1>2. Analysis(Grown, Popped, 0, Successors(data), {}) /\ Successors(data) \subseteq Reached
  BY <1>1, Reading DEF Longer
<1>3. Successors(data) = {data + 1}
  BY <1>1 DEF Successors
<1> DEFINE w == data + 1
<1>4. w \in Reached /\ Analysis(Grown, Popped, 0, {w}, {})
  BY <1>2, <1>3
<1> HIDE DEF w
<1>5. Analysis(Push(Grown, Block(w, NoProjection)), Pushed(Grown, Popped), 0, {w} \ {w}, {} \ {w})
  BY <1>4, PushKeeps
<1>6. {w} \ {w} = {} /\ {} \ {w} = {}
  OBVIOUS
<1>7. Analysis(Push(Grown, Block(w, NoProjection)), Pushed(Grown, Popped), 0, {}, {})
  BY <1>5, <1>6
<1>8. Resume(Push(Grown, Block(w, NoProjection)), Pushed(Grown, Popped))
  BY DEF CondReturn, w
<1> QED
  BY <1>7, <1>8, ResumeLoop

(* The two ways of a conditional branch.  The projection of the first      *)
(* leads to the second, which is looked up after the first is pushed.      *)
LEMMA BranchConditionalLoop ==
  ASSUME Inv, LoopInv, OrdinaryCode, BranchConditional
  PROVE  LoopInv'
<1> DEFINE to == code[data].to
           next == data + 1
           i == stack[Len(stack)]
           ended == [Grown EXCEPT ![i].projected = NoProjection]
           p == FalseProjection(to)
           newL == ~Held(ended, next)
           bsL == IF newL THEN Push(ended, Block(next, p)) ELSE ended
           stL == IF newL THEN Pushed(ended, Popped) ELSE Popped
           newR == ~Held(bsL, to)
           bsR == IF newR THEN Push(bsL, Block(to, NoProjection)) ELSE bsL
           stR == IF newR THEN Pushed(bsL, stL) ELSE stL
<1>1. Scanning /\ ~Projected /\ code[data].op = "bc"
  BY DEF BranchConditional, Reads
<1>2. Resume(bsR, stR)
  BY DEF BranchConditional
<1>3. ended \in Longer
  BY DEF Longer, Cur
<1> HIDE DEF ended
<1>4. /\ Analysis(ended, Popped, 0, Successors(data), {})
      /\ data \in 0 .. Length - 1 /\ data \in Int
      /\ Successors(data) \subseteq Reached
  BY <1>1, <1>3, Reading
<1>5. Successors(data) = {next, to}
  BY <1>1 DEF Successors
<1>6. /\ next \in Reached /\ to \in Reached /\ next # to /\ next \in Nat /\ to \in Nat
      /\ ended \in Seq(BlockType)
  <2>1. next \in Reached /\ to \in Reached
    BY <1>4, <1>5
  <2>2. to # next
    BY <1>1, <1>4 DEF OrdinaryCode
  <2> QED
    BY <1>4, <2>1, <2>2, ReachedIsClosed DEF Analysis, WellFormed
<1>7. p \in Nat \cup {NoProjection} /\ (p # NoProjection => 0 < p /\ next + p = to /\ next <= to)
  BY <1>6 DEF FalseProjection
<1> HIDE DEF p, to, next
<1>8. Analysis(ended, Popped, 0, {next, to}, {to})
  BY <1>4, <1>5, MoreToLookUp
<1>9. CASE newL /\ newR
  <2>1. Analysis(bsL, stL, 0, {next, to} \ {next}, {to} \ {next})
    BY <1>6, <1>7, <1>8, <1>9, PushKeeps
  <2>2. {next, to} \ {next} = {to} /\ {to} \ {next} = {to} /\ {to} \ {to} = {}
    BY <1>6
  <2> HIDE DEF bsL, stL
  <2>3. Analysis(bsL, stL, 0, {to}, {to})
    BY <2>1, <2>2
  <2>4. Analysis(bsR, stR, 0, {to} \ {to}, {to} \ {to})
    BY <1>6, <1>9, <2>3, PushKeeps
  <2> QED
    BY <1>2, <2>2, <2>4, ResumeLoop
<1>10. CASE newL /\ ~newR
  <2>1. Analysis(ended, Popped, 0, {next, to}, {})
    BY <1>4, <1>5
  <2>2. p # NoProjection => Meets(ended, next, next + p)
    <3> SUFFICES ASSUME p # NoProjection PROVE Meets(ended, next, next + p)
      OBVIOUS
    <3>1. ~Held(ended, next) /\ Held(bsL, to) /\ bsL = Push(ended, Block(next, p))
      BY <1>10
    <3>2. Held(ended, to)
      <4> DEFINE b == Block(next, p)
      <4>1. b.size = 0 /\ b.base = next
        BY DEF Block
      <4>2. \A j \in DOMAIN bsL : (j \in DOMAIN ended /\ bsL[j] = ended[j]) \/ bsL[j] = b
        BY <1>6, <3>1 DEF Push
      <4> HIDE DEF b
      <4> QED
        BY <1>6, <3>1, <4>1, <4>2 DEF Held
    <3> QED
      BY <1>6, <1>7, <3>1, <3>2, HeldMeets
  <2>3. Analysis(bsL, stL, 0, {next, to} \ {next}, {} \ {next})
    BY <1>6, <1>7, <1>10, <2>1, <2>2, PushKeeps
  <2>4. {next, to} \ {next} = {to} /\ {} \ {next} = {} /\ {to} \ {to} = {}
    BY <1>6
  <2> HIDE DEF bsL, stL
  <2>5. Analysis(bsL, stL, 0, {to}, {})
    BY <2>3, <2>4
  <2>6. Analysis(bsR, stR, 0, {to} \ {to}, {})
    BY <1>10, <2>5, FoundIsFollowed
  <2> QED
    BY <1>2, <2>4, <2>6, ResumeLoop
<1>11. CASE ~newL
  <2>1. Analysis(ended, Popped, 0, {next, to}, {})
    BY <1>4, <1>5
  <2>2. Analysis(ended, Popped, 0, {next, to} \ {next}, {})
    BY <1>11, <2>1, FoundIsFollowed
  <2>3. {next, to} \ {next} = {to} /\ {} \ {to} = {} /\ {to} \ {to} = {}
    BY <1>6
  <2>4. Analysis(bsL, stL, 0, {to}, {})
    BY <1>11, <2>2, <2>3
  <2> HIDE DEF bsL, stL
  <2>5. Analysis(bsR, stR, 0, {to} \ {to}, {})
    <3>1. CASE newR
      <4>1. Analysis(bsR, stR, 0, {to} \ {to}, {} \ {to})
        BY <1>6, <2>4, <3>1, PushKeeps
      <4> QED
        BY <2>3, <4>1
    <3>2. CASE ~newR
      BY <2>4, <3>2, FoundIsFollowed
    <3> QED
      BY <3>1, <3>2
  <2> QED
    BY <1>2, <2>3, <2>5, ResumeLoop
<1> QED
  BY <1>9, <1>10, <1>11

(* A branch carries the projection on only to where nothing starts yet.    *)
LEMMA BranchLoop ==
  ASSUME Inv, LoopInv, OrdinaryCode, Branch
  PROVE  LoopInv'
<1> DEFINE to == code[data].to
           ended == Grown[stack[Len(stack)]]
           p == Carried(ended, to)
<1>1. Scanning /\ ~Projected /\ code[data].op = "b"
  BY DEF Branch, Reads
<1>2. IF to < 0 \/ Held(Grown, to) THEN Resume(Grown, Popped)
      ELSE Resume(Push(Grown, Block(to, p)), Pushed(Grown, Popped))
  BY DEF Branch
<1>3. Grown \in Longer
  BY DEF Longer
<1>4. /\ Analysis(Grown, Popped, 0, Successors(data), {})
      /\ Successors(data) \subseteq Reached
  BY <1>1, <1>3, Reading
<1>5. Successors(data) = {to}
  BY <1>1 DEF Successors
<1>6. to \in Reached /\ to \in Nat
  BY <1>4, <1>5, ReachedIsClosed
<1>7. {to} \ {to} = {} /\ {} \ {to} = {}
  OBVIOUS
<1>8. CASE Held(Grown, to)
  <2>1. Analysis(Grown, Popped, 0, {to} \ {to}, {})
    BY <1>4, <1>5, <1>8, FoundIsFollowed
  <2> QED
    BY <1>2, <1>7, <1>8, <2>1, ResumeLoop
<1>9. CASE ~Held(Grown, to)
  <2> DEFINE bs == Grown
             b == bs[Cur]
  <2>1. bs \in Seq(BlockType) /\ Cur \in DOMAIN bs /\ Sound(bs) /\ Projections(bs, {})
    BY <1>1, <1>3, LongerFacts, LongerKeeps DEF LoopInv, Scanning, Progress
  <2>2. ended = b
    BY DEF Cur
  <2> HIDE DEF bs
  <2>3. /\ b.base \in Int /\ b.size \in Nat /\ b.projected \in Int /\ b.base \in Nat
        /\ End(b) = b.base + b.size
    BY <2>1, BlockFacts, ReachedIsClosed DEF Sound
  <2>4. p # NoProjection => 0 < p /\ p \in Nat /\ Meets(bs, to, to + p)
    <3> SUFFICES ASSUME p # NoProjection PROVE 0 < p /\ p \in Nat /\ Meets(bs, to, to + p)
      OBVIOUS
    <3>1. b.projected # NoProjection /\ to = End(b) /\ p = b.projected - b.size
      BY <2>2 DEF Carried
    <3> DEFINE e == b.base + b.projected
    <3>2. 0 < b.projected /\ b.size <= b.projected /\ Meets(bs, b.base, e)
      BY <2>1, <3>1 DEF Projections
    <3>3. to + p = e /\ to <= e /\ e \in Int
      BY <2>3, <3>1, <3>2
    <3>4. ~Held(bs, to) /\ Held(bs, e)
      BY <1>9, <2>1, <2>3, <3>2, <3>3, MeetsHolds DEF bs
    <3>5. Meets(bs, to, e) /\ to # e
      BY <1>6, <2>1, <3>3, <3>4, HeldMeets
    <3> QED
      BY <1>6, <2>3, <3>1, <3>2, <3>3, <3>5
  <2>5. p \in Nat \cup {NoProjection}
    BY <2>4
  <2> HIDE DEF p
  <2>6. Analysis(bs, Popped, 0, {to}, {})
    BY <1>4, <1>5 DEF bs
  <2>7. Analysis(Push(bs, Block(to, p)), Pushed(bs, Popped), 0, {to} \ {to}, {} \ {to})
    BY <1>6, <2>4, <2>5, <2>6, PushKeeps
  <2>8. Resume(Push(bs, Block(to, p)), Pushed(bs, Popped))
    BY <1>2, <1>6, <1>9 DEF bs
  <2> QED
    BY <1>7, <2>7, <2>8, ResumeLoop
<1> QED
  BY <1>8, <1>9

-----------------------------------------------------------------------------
(* The end: sorting, the first gap, and the farthest end.                  *)

LEMMA GreatestNatural ==
  ASSUME NEW T, T \subseteq Nat, T # {}, NEW m \in Nat, \A x \in T : x <= m
  PROVE  \E x \in T : \A y \in T : y <= x
<1> DEFINE D == {m - x : x \in T}
<1>1. D \subseteq Nat /\ D # {}
  <2>1. \A x \in T : x \in Nat /\ x <= m
    OBVIOUS
  <2>2. \A x \in T : m - x \in Nat
    BY <2>1
  <2>3. PICK x \in T : TRUE
    OBVIOUS
  <2> QED
    BY <2>2, <2>3
<1>2. PICK d \in D : \A e \in D : d <= e
  BY <1>1, LeastNatural
<1>3. PICK x \in T : d = m - x
  BY <1>2
<1>4. ASSUME NEW y \in T
      PROVE  y <= x
  <2>1. m - y \in D
    OBVIOUS
  <2> HIDE DEF D
  <2>2. m - x <= m - y
    BY <1>2, <1>3, <2>1
  <2>3. x \in Nat /\ y \in Nat /\ m \in Nat
    OBVIOUS
  <2> QED
    BY ONLY <2>2, <2>3
<1> QED
  BY <1>4

LEMMA LargestIs ==
  ASSUME NEW S, S \subseteq Int, NEW x \in S, \A y \in S : y <= x
  PROVE  Largest(S) = x
<1>1. Largest(S) \in S /\ \A y \in S : y <= Largest(S)
  BY DEF Largest
<1>2. Largest(S) <= x /\ x <= Largest(S) /\ Largest(S) \in Int /\ x \in Int
  BY <1>1
<1> QED
  BY <1>2

(* The loop ends with an empty stack.                                      *)
LEMMA LoopEnds ==
  ASSUME Inv, LoopInv, OrdinaryCode, phase = "scan", ~Scanning
  PROVE  stack = <<>> /\ Analysis(blocks, stack, 0, {}, {})
<1>1. Analysis(blocks, stack, Progress, {}, {})
  BY DEF LoopInv
<1>2. ASSUME stack # <<>> PROVE FALSE
  <2>1. WellFormed(blocks, stack) /\ Progress = Cur
    BY <1>1, <1>2 DEF Analysis, Progress
  <2>2. Cur \in DOMAIN blocks /\ Cur # 0
    BY <1>2, <2>1, TopIsBlock DEF Cur, WellFormed
  <2>3. End(blocks[Cur]) \in Reached
    BY <1>1, <2>1, <2>2 DEF Analysis, Waiting
  <2>4. data = End(blocks[Cur])
    BY <1>2 DEF Inv, SanityCheck, Top, Cur
  <2>5. data \in 0 .. Length - 1
    BY <2>3, <2>4, ReachedIsClosed
  <2> QED
    BY <1>2, <2>5, CodeAssumption DEF Scanning
<1> QED
  BY <1>1, <1>2 DEF Progress

(* Then the words of the blocks are those that control reaches.            *)
LEMMA BlocksAreReached ==
  ASSUME OrdinaryCode, stack = <<>>, Analysis(blocks, stack, 0, {}, {})
  PROVE  /\ blocks \in Seq(BlockType)
         /\ \A i \in DOMAIN blocks : i # 0 /\ ~Fresh(blocks[i])
         /\ \A w \in Int : w \in Reached <=> \E i \in DOMAIN blocks : Contains(blocks[i], w)
<1>1. blocks \in Seq(BlockType) /\ \A i \in DOMAIN blocks : i # 0
  BY DEF Analysis, WellFormed
<1>2. \A i \in DOMAIN blocks : ~Fresh(blocks[i])
  <2>1. DOMAIN stack = {}
    OBVIOUS
  <2> QED
    BY <2>1 DEF Analysis, Waiting
<1>3. \A w \in Int : (\E i \in DOMAIN blocks : Contains(blocks[i], w)) => w \in Reached
  BY DEF Analysis, Sound
<1> DEFINE S == {w \in 0 .. Length : \E i \in DOMAIN blocks : Contains(blocks[i], w)}
<1>4. 0 \in S
  <2>1. \E i \in DOMAIN blocks : Contains(blocks[i], 0)
    BY <1>1, <1>2, HeldBy DEF Analysis
  <2> QED
    BY <2>1, CodeAssumption
<1>5. Closed(S)
  <2> SUFFICES ASSUME NEW w \in S, NEW s \in Successors(w), s \in 0 .. Length
               PROVE  \E i \in DOMAIN blocks : Contains(blocks[i], s)
    BY DEF Closed
  <2>1. PICK i \in DOMAIN blocks : Contains(blocks[i], w)
    OBVIOUS
  <2>2. /\ w \in Int /\ s \in Int /\ blocks[i].base \in Int /\ End(blocks[i]) \in Int
        /\ blocks[i].base <= w /\ w < End(blocks[i])
    BY <1>1, <2>1, BlockFacts, CodeAssumption DEF Contains
  <2>3. CASE w = End(blocks[i]) - 1
    <3>1. Held(blocks, s)
      BY <1>1, <1>2, <2>3 DEF Analysis, Followed
    <3> QED
      BY <1>1, <1>2, <2>2, <3>1, HeldBy
  <2>4. CASE w # End(blocks[i]) - 1
    <3>1. w + 1 < End(blocks[i])
      BY <2>2, <2>4
    <3>2. code[w].op = "plain"
      BY <2>1, <2>2, <3>1 DEF Analysis, PlainInside
    <3>3. s = w + 1
      BY <3>2 DEF Successors
    <3> QED
      BY <2>2, <3>1, <3>3 DEF Contains
  <2> QED
    BY <2>3, <2>4
<1>6. Reached \subseteq S
  BY <1>4, <1>5, ReachedIsLeast
<1> QED
  BY <1>1, <1>2, <1>3, <1>6

(* The first word that control does not reach.                             *)
FirstHole(h) == h \in Nat /\ h \notin Reached /\ \A w \in Nat : w < h => w \in Reached

LEMMA HoleIsSize ==
  ASSUME OrdinaryCode
  PROVE  \E h \in 1 .. Length : FirstHole(h) /\ ReachedSize = h
<1>1. 0 \in Reached /\ Reached \subseteq 0 .. Length - 1
  BY ReachedIsClosed
<1>2. Length \in Nat /\ Length \notin Reached
  BY <1>1, CodeAssumption
<1> DEFINE T == {n \in Nat : n \notin Reached}
<1>3. T \subseteq Nat /\ Length \in T
  BY <1>2
<1>4. PICK h \in T : \A n \in T : h <= n
  BY <1>3, LeastNatural
<1>5. h \in Nat /\ h <= Length /\ h # 0 /\ FirstHole(h)
  BY <1>1, <1>3, <1>4 DEF FirstHole
<1> HIDE DEF T
<1> DEFINE S == {n \in 0 .. Length + 1 : 0 .. n - 1 \subseteq Reached}
<1>6. h \in S
  BY <1>2, <1>5 DEF FirstHole
<1>7. \A n \in S : n <= h
  <2> SUFFICES ASSUME NEW n \in S, n > h PROVE FALSE
    BY <1>2, <1>5
  <2>1. h \in 0 .. n - 1
    BY <1>2, <1>5
  <2> QED
    BY <1>5, <2>1 DEF FirstHole
<1>8. S \subseteq Int
  BY <1>2
<1>9. Largest(S) = h
  BY <1>6, <1>7, <1>8, LargestIs
<1>10. ReachedSize = h
  BY <1>9 DEF ReachedSize
<1>11. h \in 1 .. Length
  BY <1>2, <1>5
<1> QED
  BY <1>5, <1>10, <1>11

(* What std::sort and the search for a gap come to, for the blocks of an   *)
(* analysis: the farthest end of the blocks that are kept is the first     *)
(* word that control does not reach.                                       *)
LEMMA KeptEndAtHole ==
  ASSUME OrdinaryCode, stack = <<>>, Analysis(blocks, stack, 0, {}, {}),
         NEW last \in [Bases -> DOMAIN blocks], \A b \in Bases : last[b] \in LastOf(b),
         NEW h \in 1 .. Length, FirstHole(h)
  PROVE  Largest({Unsigned(End(blocks[i])) : i \in Kept(last)}) = h
<1>1. /\ blocks \in Seq(BlockType)
      /\ \A i \in DOMAIN blocks : i # 0 /\ ~Fresh(blocks[i])
      /\ \A w \in Int : w \in Reached <=> \E i \in DOMAIN blocks : Contains(blocks[i], w)
  BY BlocksAreReached
<1>2. h \in Nat /\ 0 < h /\ h \notin Reached /\ \A w \in Nat : w < h => w \in Reached
  BY CodeAssumption DEF FirstHole
<1>3. ASSUME NEW i \in DOMAIN blocks
      PROVE  /\ blocks[i].base \in Nat /\ blocks[i].size \in Nat
             /\ End(blocks[i]) = blocks[i].base + blocks[i].size /\ End(blocks[i]) \in Nat
             /\ blocks[i].base < End(blocks[i])
             /\ Unsigned(blocks[i].base) = blocks[i].base
             /\ Unsigned(End(blocks[i])) = End(blocks[i])
  <2>1. blocks[i].base \in Nat
    BY ReachedIsClosed, CodeAssumption DEF Analysis, Sound
  <2>2. /\ blocks[i].size \in Nat /\ blocks[i].size # 0
        /\ End(blocks[i]) = blocks[i].base + blocks[i].size
    BY <1>1, BlockFacts DEF Fresh
  <2> QED
    BY <2>1, <2>2 DEF Unsigned
<1>4. Bases \subseteq Nat /\ \A b : b \in Bases <=> \E i \in DOMAIN blocks : blocks[i].base = b
  BY <1>3 DEF Bases
<1>5. \A b \in Bases : /\ last[b] \in DOMAIN blocks /\ blocks[last[b]].base = b
                       /\ Unsigned(End(blocks[last[b]])) = End(blocks[last[b]])
  BY <1>3 DEF LastOf
(* Blocks end before the hole or start behind it.                          *)
<1>6. ASSUME NEW i \in DOMAIN blocks
      PROVE  blocks[i].base # h /\ (blocks[i].base <= h => End(blocks[i]) <= h)
  <2>1. ~Contains(blocks[i], h)
    BY <1>1, <1>2
  <2> QED
    BY <1>2, <1>3, <2>1 DEF Contains
(* A block behind the hole is not kept.                                    *)
<1>7. ASSUME NEW i \in DOMAIN blocks, h < blocks[i].base
      PROVE  i \notin Kept(last)
  <2> DEFINE Up == {b \in Bases : h < b}
             Down == {b \in Bases : b <= h}
  <2>1. blocks[i].base \in Up /\ Up \subseteq Nat
    BY <1>4, <1>7
  <2>2. PICK n \in Up : \A m \in Up : n <= m
    BY <2>1, LeastNatural
  <2>3. Down \subseteq Nat /\ Down # {}
    <3>1. PICK j \in DOMAIN blocks : Contains(blocks[j], 0)
      BY <1>1, <1>2
    <3>2. blocks[j].base \in Down
      BY <1>2, <1>3, <1>4, <3>1 DEF Contains
    <3> QED
      BY <1>4, <3>2
  <2>4. PICK b \in Down : \A m \in Down : m <= b
    BY <1>2, <2>3, GreatestNatural
  <2>5. n \in Bases /\ b \in Bases /\ n \in Nat /\ b \in Nat /\ b <= h /\ h < n
    BY <1>4, <2>2, <2>4
  <2>6. ~ \E m \in Bases : b < m /\ m < n
    <3> SUFFICES ASSUME NEW m \in Bases, b < m, m < n PROVE FALSE
      OBVIOUS
    <3>1. m \in Nat
      BY <1>4
    <3>2. m <= h => m <= b
      BY <2>4
    <3>3. h < m => n <= m
      BY <2>2
    <3> QED
      BY <1>2, <2>5, <3>1, <3>2, <3>3
  <2>7. Unsigned(End(blocks[last[b]])) < n
    <3>1. End(blocks[last[b]]) <= h /\ End(blocks[last[b]]) \in Nat
      BY <1>3, <1>5, <1>6, <2>5
    <3> QED
      BY <1>2, <1>5, <2>5, <3>1
  <2>8. Gap(last, b)
    BY <1>2, <2>5, <2>6, <2>7 DEF Gap
  <2>9. b < Unsigned(blocks[i].base)
    BY <1>2, <1>3, <1>7, <2>5
  <2> QED
    BY <2>5, <2>8, <2>9 DEF Kept
(* A block that ends at the hole is.                                       *)
<1>8. PICK i \in DOMAIN blocks : Contains(blocks[i], h - 1)
  BY <1>1, <1>2
<1>9. End(blocks[i]) = h /\ blocks[i].base < h
  <2>1. blocks[i].base <= h - 1 /\ h - 1 < End(blocks[i])
    BY <1>8 DEF Contains
  <2> QED
    BY <1>2, <1>3, <1>6, <2>1
<1>10. i \in Kept(last)
  <2> SUFFICES ASSUME NEW b \in Bases, b < Unsigned(blocks[i].base), Gap(last, b)
               PROVE  FALSE
    BY DEF Kept
  <2> DEFINE k == last[b]
             w == End(blocks[k])
  <2>1. PICK n \in Bases : b < n /\ w < n /\ \A m \in Bases : ~ (b < m /\ m < n)
    BY <1>5 DEF Gap
  <2>2. /\ b \in Nat /\ n \in Nat /\ k \in DOMAIN blocks /\ blocks[k].base = b /\ w \in Nat
        /\ b < w /\ w = b + blocks[k].size
    BY <1>3, <1>4, <1>5
  <2>3. n <= blocks[i].base
    <3>1. blocks[i].base \in Bases /\ b < blocks[i].base
      BY <1>3, <1>4
    <3> QED
      BY <1>3, <2>1, <2>2, <3>1
  <2>4. w \in Reached
    BY <1>2, <1>3, <1>9, <2>1, <2>2, <2>3
  <2>5. PICK j \in DOMAIN blocks : Contains(blocks[j], w)
    BY <1>1, <2>2, <2>4
  <2> HIDE DEF k, w
  <2>6. blocks[j].base <= b
    <3>1. blocks[j].base \in Bases /\ blocks[j].base \in Nat /\ blocks[j].base <= w
      BY <1>3, <1>4, <2>5 DEF Contains
    <3>2. blocks[j].base < n
      BY <2>1, <2>2, <3>1
    <3> QED
      BY <2>1, <2>2, <3>1, <3>2
  <2>7. code[w - 1].op = "plain"
    <3>1. blocks[j].base <= b /\ w < End(blocks[j])
      BY <2>5, <2>6 DEF Contains
    <3>2. w \in Nat /\ b \in Nat /\ b < w /\ blocks[j].base \in Nat /\ End(blocks[j]) \in Nat
      BY <1>3, <2>2
    <3>3. /\ w - 1 \in Int /\ (w - 1) + 1 < End(blocks[j])
          /\ blocks[j].base <= w - 1 /\ w - 1 < End(blocks[j])
      BY ONLY <3>1, <3>2
    <3>4. Contains(blocks[j], w - 1)
      BY <3>3 DEF Contains
    <3> QED
      BY <3>3, <3>4 DEF Analysis, PlainInside
  <2>8. blocks[k].size = blocks[k].projected
    BY <1>1, <2>2, <2>7 DEF Analysis, Followed, w
  <2>9. Meets(blocks, b, w)
    <3>1. blocks[k].projected # NoProjection
      BY <1>3, <2>2, <2>8 DEF NoProjection
    <3>2. Meets(blocks, blocks[k].base, blocks[k].base + blocks[k].projected)
      BY <2>2, <3>1 DEF Analysis, Projections
    <3> QED
      BY <2>2, <2>8, <3>2
  <2>10. PICK d \in DOMAIN blocks : b < blocks[d].base /\ blocks[d].base <= w
    BY <2>9 DEF Meets
  <2>11. blocks[d].base \in Bases /\ blocks[d].base < n
    <3>1. blocks[d].base \in Bases /\ blocks[d].base \in Nat
      BY <1>3, <1>4
    <3>2. blocks[d].base <= w /\ w < n /\ w \in Nat /\ n \in Nat
      BY <2>1, <2>2, <2>10
    <3>3. blocks[d].base < n
      BY ONLY <3>1, <3>2
    <3> QED
      BY <3>1, <3>3
  <2> QED
    BY <2>1, <2>10, <2>11
<1> DEFINE S == {Unsigned(End(blocks[m])) : m \in Kept(last)}
<1>11. S \subseteq Int /\ h \in S /\ \A y \in S : y <= h
  <2>1. Kept(last) \subseteq DOMAIN blocks
    BY DEF Kept
  <2>2. ASSUME NEW m \in Kept(last)
        PROVE  Unsigned(End(blocks[m])) \in Int /\ Unsigned(End(blocks[m])) <= h
    <3>1. m \in DOMAIN blocks /\ ~ (h < blocks[m].base)
      BY <1>7, <2>1, <2>2
    <3>2. blocks[m].base <= h
      BY <1>2, <1>3, <3>1
    <3> QED
      BY <1>3, <1>6, <3>1, <3>2
  <2>3. h = Unsigned(End(blocks[i]))
    BY <1>3, <1>9
  <2> QED
    BY <1>10, <2>2, <2>3
<1> QED
  BY <1>11, LargestIs

LEMMA InitLoop == Init => LoopInv /\ SizeIsReached
<1> SUFFICES ASSUME Init PROVE LoopInv /\ SizeIsReached
  OBVIOUS
<1>1. CASE phase # "scan"
  BY <1>1 DEF Init, LoopInv, SizeIsReached
<1>2. CASE phase = "scan"
  <2>1. SizeIsReached
    BY <1>2 DEF SizeIsReached
  <2> SUFFICES ASSUME OrdinaryCode PROVE Analysis(blocks, stack, Progress, {}, {})
    BY <2>1 DEF LoopInv
  <2> DEFINE b == Block(0, NoProjection)
  <2>3. blocks = <<b>> /\ stack = <<1>>
    BY <1>2 DEF Init
  <2>4. b.base = 0 /\ b.size = 0 /\ b.projected = NoProjection /\ End(b) = 0
    BY DEF Block, End
  <2> HIDE DEF b
  <2>5. DOMAIN blocks = {1} /\ blocks[1] = b /\ DOMAIN stack = {1} /\ stack[1] = 1 /\ Len(stack) = 1
    BY <2>3
  <2>6. Progress = 1 /\ stack # <<>>
    BY <2>3, <2>5 DEF Progress, Cur
  <2>7. \A w \in Int : ~Contains(b, w)
    BY <2>4 DEF Contains
  <2>8. WellFormed(blocks, stack)
    BY InvInit DEF Inv, BlocksType, StackType, WellFormed
  <2>9. 0 \in Reached
    BY ReachedIsClosed
  <2>10. Sound(blocks)
    BY <2>4, <2>5, <2>7, <2>9 DEF Sound
  <2>11. Waiting(blocks, stack, Progress)
    BY <2>4, <2>5, <2>6, <2>9 DEF Waiting, Fresh
  <2>12. PlainInside(blocks, Progress) /\ Projections(blocks, {}) /\ Followed(blocks, Progress, {})
    BY <2>4, <2>5, <2>6, <2>7 DEF PlainInside, Projections, Followed
  <2>13. Held(blocks, 0)
    BY <2>4, <2>5 DEF Held
  <2> QED
    BY <2>8, <2>10, <2>11, <2>12, <2>13 DEF Analysis
<1> QED
  BY <1>1, <1>2

LEMMA FinishGives ==
  ASSUME Inv, LoopInv, OrdinaryCode, Finish
  PROVE  size' = ReachedSize
<1>1. stack = <<>> /\ Analysis(blocks, stack, 0, {}, {})
  BY LoopEnds DEF Finish
<1>2. PICK h \in 1 .. Length : FirstHole(h) /\ ReachedSize = h
  BY HoleIsSize
<1>3. PICK last \in [Bases -> DOMAIN blocks] :
        /\ \A b \in Bases : last[b] \in LastOf(b)
        /\ size' = Largest({Unsigned(End(blocks[i])) : i \in Kept(last)})
  BY DEF Finish
<1> QED
  BY <1>1, <1>2, <1>3, KeptEndAtHole

(* The turns of the loop.                                                  *)
Turn ==
  FallThrough \/ Plain \/ Return \/ CondReturn \/ BranchConditional \/ Branch

LEMMA TurnScans ==
  ASSUME Turn
  PROVE  phase = "scan" /\ phase' = "scan" /\ code' = code
BY DEF Turn, FallThrough, Plain, Return, CondReturn, BranchConditional, Branch,
       Reads, Scanning, Resume

LEMMA TurnKeepsLoop ==
  ASSUME Inv, LoopInv, Turn
  PROVE  LoopInv'
<1>1. OrdinaryCode' = OrdinaryCode
  BY TurnScans, SameCode
<1>2. CASE ~OrdinaryCode
  BY <1>1, <1>2 DEF LoopInv
<1>3. CASE OrdinaryCode
  BY <1>3, FallThroughLoop, PlainLoop, ReturnLoop, CondReturnLoop, BranchConditionalLoop,
     BranchLoop DEF Turn
<1> QED
  BY <1>2, <1>3

LEMMA StepSizes ==
  Inv /\ LoopInv /\ SizeIsReached /\ [Next]_vars => LoopInv' /\ SizeIsReached'
<1> SUFFICES ASSUME Inv, LoopInv, SizeIsReached, [Next]_vars
             PROVE  LoopInv' /\ SizeIsReached'
  OBVIOUS
<1>1. CASE Turn
  BY <1>1, TurnScans, TurnKeepsLoop DEF SizeIsReached
<1>2. CASE Finish
  <2>1. phase' = "done" /\ code' = code
    BY <1>2 DEF Finish
  <2>2. OrdinaryCode' = OrdinaryCode /\ ReachedSize' = ReachedSize
    BY <2>1, SameCode
  <2>3. OrdinaryCode => size' = ReachedSize
    BY <1>2, FinishGives
  <2> QED
    BY <2>1, <2>2, <2>3 DEF LoopInv, SizeIsReached
<1>3. CASE UNCHANGED vars
  <2>1. /\ code' = code /\ blocks' = blocks /\ stack' = stack /\ phase' = phase /\ size' = size
    BY <1>3 DEF vars
  <2>2. OrdinaryCode' = OrdinaryCode /\ ReachedSize' = ReachedSize
    BY <2>1, SameCode
  <2>3. ShiftedTailCall' = ShiftedTailCall /\ Progress' = Progress
    BY <2>1 DEF ShiftedTailCall, Progress, Cur
  <2>4. SizeIsReached'
    BY <2>1, <2>2, <2>3 DEF SizeIsReached
  <2>5. CASE phase = "scan" /\ OrdinaryCode
    <3>1. Analysis(blocks, stack, Progress, {}, {})
      BY <2>5 DEF LoopInv
    <3>2. Analysis(blocks, stack, Progress, {}, {})'
      BY <2>1, <2>3, <3>1, SameAnalysis
    <3> QED
      BY <2>4, <3>2 DEF LoopInv
  <2>6. CASE ~ (phase = "scan" /\ OrdinaryCode)
    BY <2>1, <2>2, <2>4, <2>6 DEF LoopInv
  <2> QED
    BY <2>5, <2>6
<1> QED
  BY <1>1, <1>2, <1>3 DEF Next, Turn

(* Function::Analyze (function.cpp:16-216) gives a function the words that *)
(* control reaches from its start, up to the first that it does not reach, *)
(* for every code whose branches skip something and stay in the section:   *)
(* neither the look-ups of line 112 and 128, nor the projections, nor the  *)
(* cut at the first gap of the sorted blocks lose or add a word.           *)
THEOREM SizeIsWhatIsReached == Spec => []SizeIsReached
BY AnalysisInvariant, InitLoop, StepSizes, PTL DEF Spec

-----------------------------------------------------------------------------
(* Types: the size that is computed in the end is a number of words.       *)

(* A finite list of integers has a bound.                                  *)
LEMMA ListBounded ==
  ASSUME NEW n \in Nat, NEW f \in [1 .. n -> Int]
  PROVE  \E m \in Nat : \A i \in 1 .. n : f[i] <= m
<1> DEFINE Bound(k, m) == \A i \in 1 .. k : f[i] <= m
           T == {k \in 0 .. n : ~ \E m \in Nat : Bound(k, m)}
<1>1. CASE T = {}
  <2>1. n \in 0 .. n
    OBVIOUS
  <2>2. \E m \in Nat : Bound(n, m)
    BY <1>1, <2>1
  <2> QED
    BY <2>2
<1>2. ASSUME T # {} PROVE FALSE
  <2>1. T \subseteq Nat
    OBVIOUS
  <2>2. PICK k \in T : \A l \in T : k <= l
    BY <1>2, <2>1, LeastNatural
  <2>3. k # 0
    <3>1. Bound(0, 0)
      OBVIOUS
    <3> QED
      BY <2>2, <3>1
  <2>4. k - 1 \in 0 .. n /\ k - 1 \notin T
    <3>1. k \in 0 .. n /\ k \in Nat
      BY <2>2
    <3>2. k - 1 \in 0 .. n /\ ~ (k <= k - 1)
      BY <2>3, <3>1
    <3> QED
      BY <2>2, <3>2
  <2>5. PICK m \in Nat : Bound(k - 1, m)
    BY <2>4
  <2>6. f[k] \in Int
    BY <2>2, <2>3
  <2>7. PICK u \in Nat : m <= u /\ f[k] <= u
    <3>1. CASE f[k] <= m
      BY <3>1
    <3>2. CASE ~ (f[k] <= m)
      BY <2>6, <3>2
    <3> QED
      BY <3>1, <3>2
  <2>8. Bound(k, u)
    <3> SUFFICES ASSUME NEW i \in 1 .. k PROVE f[i] <= u
      OBVIOUS
    <3>1. CASE i = k
      BY <2>7, <3>1
    <3>2. CASE i # k
      <4>1. i \in 1 .. k - 1 /\ i \in 1 .. n
        BY <2>2, <3>2
      <4>2. f[i] <= m /\ f[i] \in Int
        BY <2>5, <4>1
      <4> QED
        BY <2>7, <4>2
    <3> QED
      BY <3>1, <3>2
  <2> QED
    BY <2>2, <2>8
<1> QED
  BY <1>1, <1>2

(* Where blocks start and end, as the sort and the comparison see them.    *)
LEMMA UnsignedIsNatural ==
  ASSUME Inv, NEW i \in DOMAIN blocks
  PROVE  Unsigned(blocks[i].base) \in Nat /\ Unsigned(End(blocks[i])) \in Nat
<1>0. AddressSpace \in Nat
  BY DEF AddressSpace
<1>1. Lowest <= blocks[i].base /\ Lowest \in Int /\ -AddressSpace <= Lowest
  BY <1>0, LowestBound, CodeAssumption DEF Inv, BlocksType
<1>2. /\ blocks[i].base \in Int /\ blocks[i].size \in Nat
      /\ End(blocks[i]) = blocks[i].base + blocks[i].size
  BY BlockFacts DEF Inv, BlocksType
<1>3. End(blocks[i]) \in Int /\ -AddressSpace <= End(blocks[i])
  BY <1>0, <1>1, <1>2
<1> QED
  BY <1>0, <1>1, <1>2, <1>3 DEF Unsigned

(* The block that starts first is kept, and the kept ones have a farthest  *)
(* end.                                                                    *)
LEMMA FinishTyped ==
  ASSUME Inv, blocks # <<>>, Finish
  PROVE  size' \in Nat
<1>1. PICK last \in [Bases -> DOMAIN blocks] :
        size' = Largest({Unsigned(End(blocks[i])) : i \in Kept(last)})
  BY DEF Finish
<1>2. Len(blocks) \in Nat /\ DOMAIN blocks = 1 .. Len(blocks) /\ DOMAIN blocks # {}
  BY DEF Inv, BlocksType
<1>3. Bases \subseteq Nat /\ Bases # {}
  BY <1>2, UnsignedIsNatural DEF Bases
<1>4. PICK b \in Bases : \A c \in Bases : b <= c
  BY <1>3, LeastNatural
<1>5. PICK i \in DOMAIN blocks : b = Unsigned(blocks[i].base)
  BY DEF Bases
<1>6. i \in Kept(last)
  BY <1>3, <1>4, <1>5 DEF Kept
<1> DEFINE S == {Unsigned(End(blocks[k])) : k \in Kept(last)}
           f == [k \in 1 .. Len(blocks) |-> Unsigned(End(blocks[k]))]
<1>7. Kept(last) \subseteq DOMAIN blocks
  BY DEF Kept
<1>8. S \subseteq Nat /\ S # {}
  BY <1>6, <1>7, UnsignedIsNatural
<1>9. \E m \in Nat : \A k \in 1 .. Len(blocks) : f[k] <= m
  <2>1. f \in [1 .. Len(blocks) -> Int]
    BY <1>2, UnsignedIsNatural
  <2> HIDE DEF f
  <2> QED
    BY <1>2, <2>1, ListBounded
<1>10. PICK m \in Nat : \A x \in S : x <= m
  BY <1>2, <1>7, <1>9
<1> HIDE DEF S
<1>11. PICK x \in S : \A y \in S : y <= x
  BY <1>8, <1>10, GreatestNatural
<1>12. Largest(S) = x
  <2>1. S \subseteq Int
    BY <1>8
  <2> QED
    BY <1>11, <2>1, LargestIs
<1> QED
  BY <1>1, <1>8, <1>12 DEF S

TypeInv ==
  /\ Inv
  /\ size \in Nat
  /\ phase \in {"scan", "done"}
  /\ phase = "scan" => blocks # <<>>

LEMMA TypeInit == Init => TypeInv
BY InvInit DEF Init, TypeInv

(* A turn of the loop takes no block away.                                 *)
LEMMA TurnKeepsBlocks ==
  ASSUME Inv, Turn
  PROVE  blocks' # <<>> /\ size' = size
<1>1. Scanning /\ stack # <<>>
  BY DEF Turn, FallThrough, Plain, Return, CondReturn, BranchConditional, Branch,
         Reads, Scanning
<1>2. WellFormed(blocks, stack) /\ WellFormed(Grown, Popped) /\ DOMAIN Grown = DOMAIN blocks
  BY <1>1, GrownWellFormed DEF Inv, BlocksType, StackType, WellFormed
<1>3. blocks # <<>> /\ Grown # <<>> /\ blocks \in Seq(BlockType) /\ Grown \in Seq(BlockType)
  <2>1. DOMAIN blocks # {}
    BY <1>1, <1>2, TopIsBlock
  <2> QED
    BY <1>2, <2>1 DEF WellFormed
<1> DEFINE ended == [Grown EXCEPT ![stack[Len(stack)]].projected = NoProjection]
<1>4. ended # <<>>
  <2>1. DOMAIN ended = DOMAIN Grown
    OBVIOUS
  <2> QED
    BY <1>3, <2>1
<1>5. \A bs, b : Push(bs, b) # <<>>
  BY DEF Push
<1> QED
  BY <1>3, <1>4, <1>5 DEF Turn, FallThrough, Plain, Return, CondReturn, BranchConditional,
                          Branch, Resume

LEMMA TypeNext == TypeInv /\ [Next]_vars => TypeInv'
<1> SUFFICES ASSUME TypeInv, [Next]_vars PROVE TypeInv'
  OBVIOUS
<1>1. Inv'
  BY InvNext DEF TypeInv
<1>2. CASE Turn
  BY <1>1, <1>2, TurnKeepsBlocks, TurnScans DEF TypeInv
<1>3. CASE Finish
  <2>1. phase' = "done" /\ size' \in Nat
    BY <1>3, FinishTyped DEF Finish, TypeInv
  <2> QED
    BY <1>1, <2>1 DEF TypeInv
<1>4. CASE UNCHANGED vars
  BY <1>1, <1>4 DEF TypeInv, vars
<1> QED
  BY <1>2, <1>3, <1>4 DEF Next, Turn

(* Every block, the stack's indices into the blocks and the size that      *)
(* Function::Analyze returns stay what their types say, whatever the code: *)
(* at least one block survives the cut at the first gap.                   *)
THEOREM TypesHold == Spec => []TypeOK
<1>1. TypeInv => TypeOK
  <2> SUFFICES ASSUME TypeInv PROVE TypeOK
    OBVIOUS
  <2>1. stack \in Seq(DOMAIN blocks)
    BY DEF TypeInv, Inv, StackType
  <2> QED
    BY <2>1 DEF TypeInv, Inv, BlocksType, TypeOK
<1> QED
  BY <1>1, TypeInit, TypeNext, PTL DEF Spec

-----------------------------------------------------------------------------
(* The work: how many blocks there can be, and how long.                   *)

(* What lies outside the section is no branch, and blocks start inside.    *)
Inside(bs) ==
  \A i \in DOMAIN bs : bs[i].base \in 0 .. Length /\ End(bs[i]) <= Length + 1

(* Each block is traced to the word its scan was pushed for, its root: a   *)
(* word that no block held then.  The blocks of one root follow each other,*)
(* a conditional return from the next, and only the last waits.            *)
Traced(bs, st, root) ==
  /\ root \in [DOMAIN bs -> 0 .. Length]
  /\ \A i \in DOMAIN bs : \E k \in DOMAIN bs : bs[k].base = root[i]
  /\ \A i, j \in DOMAIN bs :
       i # j /\ root[i] = root[j] => bs[i].base # bs[j].base
  /\ \A k, l \in DOMAIN st : st[k] = st[l] => k = l
  /\ \A k \in DOMAIN st : \A j \in DOMAIN bs :
       j # st[k] /\ root[j] = root[st[k]] => End(bs[j]) <= bs[st[k]].base

Chained(bs, st) ==
  WellFormed(bs, st) /\ Inside(bs) /\ \E root : Traced(bs, st, root)

(* Blocks of one root that both wait are one.                              *)
LEMMA OneWaits ==
  ASSUME NEW bs, NEW st, WellFormed(bs, st), NEW root, Traced(bs, st, root),
         NEW k \in DOMAIN st, NEW l \in DOMAIN st, root[st[k]] = root[st[l]]
  PROVE  st[k] = st[l]
<1> SUFFICES ASSUME st[k] # st[l] PROVE FALSE
  OBVIOUS
<1> DEFINE a == bs[st[k]]
           b == bs[st[l]]
<1>1. st[k] \in DOMAIN bs /\ st[l] \in DOMAIN bs /\ bs \in Seq(BlockType)
  BY DEF WellFormed
<1>2. a.base \in Int /\ a.size \in Nat /\ End(a) = a.base + a.size
  BY <1>1, BlockFacts
<1>3. b.base \in Int /\ b.size \in Nat /\ End(b) = b.base + b.size
  BY <1>1, BlockFacts
<1>4. End(a) <= b.base /\ End(b) <= a.base /\ a.base # b.base
  BY <1>1 DEF Traced
<1> QED
  BY ONLY <1>2, <1>3, <1>4

(* The block on top, grown by the word at data.                            *)
LEMMA LongerChained ==
  ASSUME Inv, Scanning, Chained(blocks, stack), NEW bs \in Longer,
         NEW root, Traced(blocks, stack, root)
  PROVE  /\ Chained(bs, stack) /\ Traced(bs, stack, root)
         /\ Cur \in DOMAIN bs /\ stack # <<>> /\ Len(stack) \in DOMAIN stack
         /\ End(bs[Cur]) = data + 1 /\ bs[Cur].base <= data
         /\ data \in 0 .. Length
<1>1. stack # <<>> /\ data <= Length /\ data = End(blocks[Cur])
  BY DEF Scanning, Inv, SanityCheck, Top, Cur
<1>2. /\ WellFormed(blocks, stack) /\ WellFormed(Grown, stack)
      /\ DOMAIN Grown = DOMAIN blocks
  BY <1>1, GrownWellFormed DEF Inv, BlocksType, StackType, WellFormed
<1>3. /\ Cur \in DOMAIN blocks /\ blocks[Cur] \in BlockType
      /\ blocks \in Seq(BlockType) /\ Len(stack) \in DOMAIN stack
  BY <1>1, <1>2, TopIsBlock DEF Cur, WellFormed
<1>4. /\ DOMAIN bs = DOMAIN blocks /\ bs[Cur].base = blocks[Cur].base
      /\ bs[Cur].size = blocks[Cur].size + 1
      /\ \A j \in DOMAIN blocks : j # Cur => bs[j] = blocks[j]
  BY <1>3 DEF Longer, Grown, Cur, BlockType
<1>5. WellFormed(bs, stack)
  <2>1. CASE bs = Grown
    BY <1>2, <2>1
  <2>2. CASE bs = [Grown EXCEPT ![Cur].projected = NoProjection]
    <3>1. Grown \in Seq(BlockType) /\ Cur \in DOMAIN Grown /\ Grown[Cur] \in BlockType
      BY <1>2, <1>3 DEF WellFormed
    <3> DEFINE x == [Grown[Cur] EXCEPT !.projected = NoProjection]
    <3>2. x \in BlockType
      BY <3>1 DEF BlockType, NoProjection
    <3>5. bs = [Grown EXCEPT ![Cur] = x]
      BY <2>2
    <3> HIDE DEF x
    <3>3. bs \in Seq(BlockType)
      BY <3>1, <3>2, <3>5
    <3>4. \A j \in DOMAIN bs : bs[j].base = blocks[j].base
      BY <1>4
    <3> QED
      BY <1>2, <1>4, <3>3, <3>4 DEF WellFormed
  <2> QED
    BY <2>1, <2>2 DEF Longer
<1>6. /\ blocks[Cur].base \in Int /\ blocks[Cur].size \in Nat
      /\ End(blocks[Cur]) = blocks[Cur].base + blocks[Cur].size
      /\ End(bs[Cur]) = bs[Cur].base + bs[Cur].size
  BY <1>3, <1>4, BlockFacts DEF End
<1>7. End(bs[Cur]) = data + 1 /\ bs[Cur].base <= data
  BY <1>1, <1>4, <1>6
<1>8. blocks[Cur].base \in 0 .. Length /\ Length \in Nat
  BY <1>3, CodeAssumption DEF Chained, Inside
<1>9. data \in 0 .. Length
  BY <1>1, <1>6, <1>8
<1>10. Inside(bs)
  BY <1>1, <1>4, <1>7, <1>8, <1>9 DEF Chained, Inside
<1>11. \A j \in DOMAIN bs : bs[j].base = blocks[j].base
  BY <1>4
<1>12. ASSUME NEW k \in DOMAIN stack, NEW j \in DOMAIN bs,
              j # stack[k], root[j] = root[stack[k]]
       PROVE  End(bs[j]) <= bs[stack[k]].base
  <2>1. stack[k] \in DOMAIN blocks /\ End(blocks[j]) <= blocks[stack[k]].base
    BY <1>2, <1>4, <1>12 DEF Traced, WellFormed
  <2>2. j # Cur
    BY <1>2, <1>3, <1>12, OneWaits DEF Cur
  <2> QED
    BY <1>4, <1>11, <2>1, <2>2
<1>13. Traced(bs, stack, root)
  <2>1. root \in [DOMAIN bs -> 0 .. Length]
    BY <1>4 DEF Traced
  <2>2. \A i \in DOMAIN bs : \E k \in DOMAIN bs : bs[k].base = root[i]
    <3>1. \A i \in DOMAIN blocks : \E k \in DOMAIN blocks : blocks[k].base = root[i]
      BY DEF Traced
    <3> QED
      BY <1>4, <1>11, <3>1
  <2>3. \A i, j \in DOMAIN bs : i # j /\ root[i] = root[j] => bs[i].base # bs[j].base
    <3>1. \A i, j \in DOMAIN blocks :
            i # j /\ root[i] = root[j] => blocks[i].base # blocks[j].base
      BY DEF Traced
    <3> QED
      BY <1>4, <1>11, <3>1
  <2>4. \A k, l \in DOMAIN stack : stack[k] = stack[l] => k = l
    BY DEF Traced
  <2> QED
    BY <1>12, <2>1, <2>2, <2>3, <2>4 DEF Traced
<1> QED
  BY <1>1, <1>3, <1>4, <1>5, <1>7, <1>9, <1>10, <1>13 DEF Chained

LEMMA PopChained ==
  ASSUME NEW bs, NEW st, st # <<>>, NEW root, Traced(bs, st, root), WellFormed(bs, st)
  PROVE  Traced(bs, SubSeq(st, 1, Len(st) - 1), root)
<1> DEFINE rest == SubSeq(st, 1, Len(st) - 1)
<1>1. DOMAIN rest \subseteq DOMAIN st /\ \A k \in DOMAIN rest : rest[k] = st[k]
  BY PoppedStack
<1> HIDE DEF rest
<1> QED
  BY <1>1 DEF Traced, rest

(* A word that no block holds is a root of its own.                        *)
LEMMA PushRoot ==
  ASSUME NEW bs, NEW st, Chained(bs, st), NEW w \in 0 .. Length, ~Held(bs, w),
         NEW p \in Nat \cup {NoProjection}
  PROVE  Chained(Push(bs, Block(w, p)), Pushed(bs, st))
<1> DEFINE b == Block(w, p)
           more == Push(bs, b)
           st2 == Pushed(bs, st)
           n == Len(bs) + 1
<1>1. WellFormed(bs, st) /\ bs \in Seq(BlockType) /\ w \in Int /\ w >= 0
  BY DEF Chained, WellFormed
<1>2. PICK root : Traced(bs, st, root)
  BY DEF Chained
<1>3. b \in BlockType /\ b.base = w /\ b.size = 0 /\ End(b) = w
  BY <1>1 DEF Block, BlockType, End
<1>4. Lowest <= b.base
  BY <1>1, <1>3, LowestBound
<1>5. WellFormed(more, st2)
  BY <1>1, <1>3, <1>4, PushWellFormed
<1>6. more = Push(bs, b) /\ st2 = Pushed(bs, st) /\ n = Len(bs) + 1
  OBVIOUS
<1> HIDE DEF more, st2, n, b
<1>7. /\ DOMAIN more = DOMAIN bs \cup {n} /\ n \notin DOMAIN bs
      /\ more[n] = b /\ \A i \in DOMAIN bs : more[i] = bs[i]
      /\ DOMAIN st2 = DOMAIN st \cup {Len(st) + 1} /\ Len(st) + 1 \notin DOMAIN st
      /\ st2[Len(st) + 1] = n /\ \A k \in DOMAIN st : st2[k] = st[k]
      /\ \A k \in DOMAIN st : st[k] \in DOMAIN bs
  <2>1. bs \in Seq(BlockType) /\ st \in Seq(Nat) /\ \A k \in DOMAIN st : st[k] \in DOMAIN bs
    BY <1>1 DEF WellFormed
  <2>2. /\ DOMAIN more = DOMAIN bs \cup {n} /\ n \notin DOMAIN bs
        /\ more[n] = b /\ \A i \in DOMAIN bs : more[i] = bs[i]
    BY <1>6, <2>1 DEF Push
  <2>3. /\ DOMAIN st2 = DOMAIN st \cup {Len(st) + 1} /\ Len(st) + 1 \notin DOMAIN st
        /\ st2[Len(st) + 1] = n /\ \A k \in DOMAIN st : st2[k] = st[k]
    BY <1>6, <2>1 DEF Pushed
  <2> QED
    BY <2>1, <2>2, <2>3
<1>8. \A i \in DOMAIN bs : root[i] # w
  <2> SUFFICES ASSUME NEW i \in DOMAIN bs, root[i] = w PROVE FALSE
    OBVIOUS
  <2>1. PICK k \in DOMAIN bs : bs[k].base = w
    BY <1>2 DEF Traced
  <2>2. bs[k].base \in Int /\ bs[k].size \in Nat /\ End(bs[k]) = bs[k].base + bs[k].size
    BY <1>1, BlockFacts
  <2>3. Fresh(bs[k]) \/ Contains(bs[k], w)
    BY <2>1, <2>2 DEF Fresh, Contains
  <2> QED
    BY <1>1, <2>1, <2>3, HeldBy
<1> DEFINE root2 == [i \in DOMAIN more |-> IF i = n THEN w ELSE root[i]]
<1>9. /\ root2 \in [DOMAIN more -> 0 .. Length]
      /\ root2[n] = w /\ \A i \in DOMAIN bs : root2[i] = root[i]
  BY <1>2, <1>7 DEF Traced
<1> HIDE DEF root2
<1>10. Traced(more, st2, root2)
  <2>1. \A i \in DOMAIN more : \E k \in DOMAIN more : more[k].base = root2[i]
    <3> SUFFICES ASSUME NEW i \in DOMAIN more
                 PROVE  \E k \in DOMAIN more : more[k].base = root2[i]
      OBVIOUS
    <3>1. CASE i = n
      BY <1>3, <1>7, <1>9, <3>1
    <3>2. CASE i \in DOMAIN bs
      <4>1. PICK k \in DOMAIN bs : bs[k].base = root[i]
        BY <1>2, <3>2 DEF Traced
      <4> QED
        BY <1>7, <1>9, <3>2, <4>1
    <3> QED
      BY <1>7, <3>1, <3>2
  <2>2. \A i, j \in DOMAIN more :
          i # j /\ root2[i] = root2[j] => more[i].base # more[j].base
    <3>1. \A i, j \in DOMAIN bs : i # j /\ root[i] = root[j] => bs[i].base # bs[j].base
      BY <1>2 DEF Traced
    <3>2. \A j \in DOMAIN bs : root2[j] # root2[n]
      BY <1>8, <1>9
    <3> QED
      BY <1>7, <1>9, <3>1, <3>2
  <2>3. \A k, l \in DOMAIN st2 : st2[k] = st2[l] => k = l
    BY <1>2, <1>7 DEF Traced
  <2>4. \A k \in DOMAIN st2 : \A j \in DOMAIN more :
          j # st2[k] /\ root2[j] = root2[st2[k]] => End(more[j]) <= more[st2[k]].base
    <3>1. \A k \in DOMAIN st : \A j \in DOMAIN bs :
            j # st[k] /\ root[j] = root[st[k]] => End(bs[j]) <= bs[st[k]].base
      BY <1>2 DEF Traced
    <3>2. \A j \in DOMAIN bs : root2[j] # root2[n]
      BY <1>8, <1>9
    <3> SUFFICES ASSUME NEW k \in DOMAIN st2, NEW j \in DOMAIN more,
                        j # st2[k], root2[j] = root2[st2[k]]
                 PROVE  End(more[j]) <= more[st2[k]].base
      OBVIOUS
    <3>3. st2[k] \in DOMAIN bs /\ k \in DOMAIN st /\ j \in DOMAIN bs
      BY <1>7, <3>2
    <3> QED
      BY <1>7, <1>9, <3>1, <3>3
  <2> QED
    BY <1>9, <2>1, <2>2, <2>3, <2>4 DEF Traced
<1>11. Inside(more)
  <2>1. w <= Length + 1
    BY CodeAssumption
  <2> QED
    BY <1>3, <1>7, <2>1 DEF Chained, Inside
<1> QED
  BY <1>5, <1>10, <1>11 DEF Chained, more, st2, b

(* What a conditional return pushes follows the block that it ends.        *)
LEMMA PushNext ==
  ASSUME NEW bs, NEW st, Chained(bs, st), st # <<>>,
         bs[st[Len(st)]].base < End(bs[st[Len(st)]]), End(bs[st[Len(st)]]) \in 0 .. Length
  PROVE  Chained(Push(bs, Block(End(bs[st[Len(st)]]), NoProjection)),
                 Pushed(bs, SubSeq(st, 1, Len(st) - 1)))
<1> DEFINE top == st[Len(st)]
           w == End(bs[top])
           rest == SubSeq(st, 1, Len(st) - 1)
           b == Block(w, NoProjection)
           more == Push(bs, b)
           st2 == Pushed(bs, rest)
           n == Len(bs) + 1
<1>1. /\ WellFormed(bs, st) /\ bs \in Seq(BlockType) /\ w \in Int /\ w >= 0
      /\ w \in 0 .. Length /\ bs[top].base < w
  BY CodeAssumption DEF Chained, WellFormed
<1>2. PICK root : Traced(bs, st, root)
  BY DEF Chained
<1>3. b \in BlockType /\ b.base = w /\ b.size = 0 /\ End(b) = w
  BY <1>1 DEF Block, BlockType, End
<1>4. Lowest <= b.base
  BY <1>1, <1>3, LowestBound
<1>5. /\ rest \in Seq(Nat) /\ DOMAIN rest = DOMAIN st \ {Len(st)}
      /\ \A k \in DOMAIN rest : rest[k] = st[k]
  BY <1>1, PoppedStack
<1>6. WellFormed(bs, rest)
  BY <1>1, PoppedStack
<1>7. WellFormed(more, st2)
  BY <1>3, <1>4, <1>6, PushWellFormed
<1>8. top \in DOMAIN bs /\ Len(st) \in DOMAIN st
  BY <1>1, TopIsBlock
<1>9. more = Push(bs, b) /\ st2 = Pushed(bs, rest) /\ n = Len(bs) + 1
  OBVIOUS
<1>10. top = st[Len(st)] /\ w = End(bs[top])
  OBVIOUS
<1> HIDE DEF more, st2, n, b, rest, w, top
<1>11. /\ DOMAIN more = DOMAIN bs \cup {n} /\ n \notin DOMAIN bs
       /\ more[n] = b /\ \A i \in DOMAIN bs : more[i] = bs[i]
  BY <1>1, <1>9 DEF Push
<1> DEFINE last == Len(rest) + 1
<1>12. /\ DOMAIN st2 = DOMAIN rest \cup {last} /\ last \notin DOMAIN rest
       /\ st2[last] = n /\ \A k \in DOMAIN rest : st2[k] = st[k]
  <2>1. rest \in Seq(Nat)
    BY <1>5
  <2>2. /\ DOMAIN st2 = DOMAIN rest \cup {last} /\ last \notin DOMAIN rest
        /\ st2[last] = n /\ \A k \in DOMAIN rest : st2[k] = rest[k]
    BY <1>9, <2>1 DEF Pushed
  <2> QED
    BY <1>5, <2>2
<1> HIDE DEF last
<1>13. \A k \in DOMAIN rest : st[k] \in DOMAIN bs /\ k \in DOMAIN st
  BY <1>1, <1>5 DEF WellFormed
(* The blocks of the root that the top block has end before it.            *)
<1>14. \A j \in DOMAIN bs : root[j] = root[top] => bs[j].base < w /\ End(bs[j]) <= w
  <2> SUFFICES ASSUME NEW j \in DOMAIN bs, root[j] = root[top]
               PROVE  bs[j].base < w /\ End(bs[j]) <= w
    OBVIOUS
  <2>1. CASE j = top
    BY <1>1, <1>10, <2>1
  <2>2. CASE j # top
    <3>1. End(bs[j]) <= bs[top].base
      BY <1>2, <1>8, <1>10, <2>2 DEF Traced
    <3>2. bs[j].base \in Int /\ bs[j].size \in Nat /\ End(bs[j]) = bs[j].base + bs[j].size
      BY <1>1, BlockFacts
    <3>3. bs[top].base \in Int
      BY <1>1, <1>8, BlockFacts
    <3> QED
      BY <1>1, <3>1, <3>2, <3>3
  <2> QED
    BY <2>1, <2>2
(* No other block of that root waits.                                      *)
<1>15. \A k \in DOMAIN rest : root[st[k]] # root[top]
  <2> SUFFICES ASSUME NEW k \in DOMAIN rest, root[st[k]] = root[top] PROVE FALSE
    OBVIOUS
  <2>1. k \in DOMAIN st /\ k # Len(st)
    BY <1>5
  <2>2. st[k] = st[Len(st)]
    BY <1>1, <1>2, <1>8, <1>10, <2>1, OneWaits
  <2> QED
    BY <1>2, <1>8, <2>1, <2>2 DEF Traced
<1> DEFINE root2 == [i \in DOMAIN more |-> IF i = n THEN root[top] ELSE root[i]]
<1>16. /\ root2 \in [DOMAIN more -> 0 .. Length]
       /\ root2[n] = root[top] /\ \A i \in DOMAIN bs : root2[i] = root[i]
  BY <1>2, <1>8, <1>11 DEF Traced
<1> HIDE DEF root2
<1>17. Traced(more, st2, root2)
  <2>1. \A i \in DOMAIN more : \E k \in DOMAIN more : more[k].base = root2[i]
    <3> SUFFICES ASSUME NEW i \in DOMAIN more
                 PROVE  \E k \in DOMAIN more : more[k].base = root2[i]
      OBVIOUS
    <3>1. PICK m \in DOMAIN bs : root2[i] = root[m]
      BY <1>8, <1>11, <1>16
    <3>2. PICK k \in DOMAIN bs : bs[k].base = root[m]
      BY <1>2 DEF Traced
    <3> QED
      BY <1>11, <3>1, <3>2
  <2>2. \A i, j \in DOMAIN more :
          i # j /\ root2[i] = root2[j] => more[i].base # more[j].base
    <3>1. \A i, j \in DOMAIN bs : i # j /\ root[i] = root[j] => bs[i].base # bs[j].base
      BY <1>2 DEF Traced
    <3>2. \A j \in DOMAIN bs : root[j] = root[top] => bs[j].base # w
      BY <1>1, <1>14, BlockFacts
    <3> QED
      BY <1>3, <1>11, <1>16, <3>1, <3>2
  <2>3. \A k, l \in DOMAIN st2 : st2[k] = st2[l] => k = l
    BY <1>2, <1>11, <1>12, <1>13 DEF Traced
  <2>4. ASSUME NEW k \in DOMAIN st2, NEW j \in DOMAIN more,
               j # st2[k], root2[j] = root2[st2[k]]
        PROVE  End(more[j]) <= more[st2[k]].base
    <3>1. CASE k = last
      <4>1. j \in DOMAIN bs /\ root[j] = root[top]
        BY <1>11, <1>12, <1>16, <2>4, <3>1
      <4> QED
        BY <1>3, <1>11, <1>12, <1>14, <3>1, <4>1
    <3>2. CASE k \in DOMAIN rest
      <4>1. st2[k] = st[k] /\ st[k] \in DOMAIN bs /\ k \in DOMAIN st
        BY <1>12, <1>13, <3>2
      <4>2. j \in DOMAIN bs /\ root[j] = root[st[k]]
        BY <1>11, <1>15, <1>16, <2>4, <3>2, <4>1
      <4>3. End(bs[j]) <= bs[st[k]].base
        BY <1>2, <2>4, <4>1, <4>2 DEF Traced
      <4> QED
        BY <1>11, <4>1, <4>2, <4>3
    <3> QED
      BY <1>12, <3>1, <3>2
  <2> QED
    BY <1>16, <2>1, <2>2, <2>3, <2>4 DEF Traced
<1>18. Inside(more)
  <2>1. w <= Length + 1
    BY <1>1, CodeAssumption
  <2> QED
    BY <1>1, <1>3, <1>11, <2>1 DEF Chained, Inside
<1> QED
  BY <1>7, <1>17, <1>18 DEF Chained, more, st2, b, w, rest, top

(* Branches lead no farther than the section's end, and conditional ones   *)
(* not in front of the function.                                           *)
BranchesInside == Conditional \subseteq 0 .. Length /\ \A w \in Goto : w <= Length

(* What the loop keeps, whatever the code.                                 *)
WorkInv ==
  /\ Inv
  /\ \A w \in Word : w \in 0 .. Length - 1 \/ code[w] \in Outside
  /\ Chained(blocks, stack)

(* The chains are the same in the next state, where the blocks are.        *)
LEMMA SameChains ==
  ASSUME NEW bs, NEW st, Chained(bs, st), blocks' = bs, stack' = st
  PROVE  Chained(blocks, stack)'
<1>1. PICK root : Traced(bs, st, root)
  BY DEF Chained
<1>2. Traced(blocks, stack, root)'
  BY <1>1 DEF Traced, End
<1>3. WellFormed(blocks, stack)' /\ Inside(blocks)'
  BY DEF Chained, WellFormed, Inside, End
<1> QED
  BY <1>2, <1>3 DEF Chained

LEMMA ResumeChains ==
  ASSUME NEW bs, NEW st, Resume(bs, st), Chained(bs, st)
  PROVE  Chained(blocks, stack)' /\ code' = code
BY SameChains DEF Resume

(* A branch is a word of the section.                                      *)
LEMMA BranchIsInside ==
  ASSUME BranchesInside, WorkInv, Scanning, code[data].op \in {"condReturn", "bc", "b"}
  PROVE  /\ data + 1 \in 0 .. Length
         /\ code[data].op = "bc" => code[data].to \in 0 .. Length
         /\ code[data].op = "b" => code[data].to \in Int /\ code[data].to <= Length
<1>1. data \in Word /\ code[data] \in Instruction
  BY ReadsCode DEF WorkInv
<1>2. data \in 0 .. Length - 1
  BY <1>1 DEF WorkInv, Outside
<1>3. data + 1 \in 0 .. Length
  BY <1>2, CodeAssumption
<1>4. code[data].op = "bc" => code[data].to \in Conditional
  BY <1>1 DEF Instruction
<1>5. code[data].op = "b" => code[data].to \in Goto
  BY <1>1 DEF Instruction
<1> QED
  BY <1>3, <1>4, <1>5, CodeAssumption DEF BranchesInside

(* Popping the grown block.                                                *)
LEMMA LongerPopped ==
  ASSUME WorkInv, Scanning, NEW bs \in Longer
  PROVE  Chained(bs, Popped) /\ Chained(bs, stack)
<1>1. PICK root : Traced(blocks, stack, root)
  BY DEF WorkInv, Chained
<1>2. Chained(bs, stack) /\ Traced(bs, stack, root) /\ stack # <<>>
  BY <1>1, LongerChained DEF WorkInv
<1>3. Traced(bs, Popped, root) /\ WellFormed(bs, Popped)
  BY <1>2, PopChained, PoppedStack DEF Chained, Popped
<1> QED
  BY <1>2, <1>3 DEF Chained

LEMMA FallThroughChains ==
  ASSUME WorkInv, FallThrough
  PROVE  Chained(blocks, stack)' /\ code' = code
<1>1. PICK root : Traced(blocks, stack, root)
  BY DEF WorkInv, Chained
<1>2. WellFormed(blocks, stack) /\ stack # <<>> /\ Resume(blocks, Popped)
  BY DEF WorkInv, Chained, FallThrough, Scanning
<1>3. Traced(blocks, Popped, root) /\ WellFormed(blocks, Popped)
  BY <1>1, <1>2, PopChained, PoppedStack DEF Popped
<1>4. Chained(blocks, Popped)
  BY <1>3 DEF WorkInv, Chained
<1> QED
  BY <1>2, <1>4, ResumeChains

LEMMA PlainChains ==
  ASSUME WorkInv, Plain
  PROVE  Chained(blocks, stack)' /\ code' = code
<1>1. Chained(Grown, stack)
  BY LongerPopped DEF Plain, Reads, Longer
<1>2. blocks' = Grown /\ stack' = stack /\ code' = code
  BY DEF Plain
<1> QED
  BY <1>1, <1>2, SameChains

LEMMA ReturnChains ==
  ASSUME WorkInv, Return
  PROVE  Chained(blocks, stack)' /\ code' = code
BY LongerPopped, ResumeChains DEF Return, Reads, Longer

LEMMA CondReturnChains ==
  ASSUME BranchesInside, WorkInv, CondReturn
  PROVE  Chained(blocks, stack)' /\ code' = code
<1>1. Scanning /\ code[data].op = "condReturn"
  BY DEF CondReturn, Reads
<1>2. PICK root : Traced(blocks, stack, root)
  BY DEF WorkInv, Chained
<1>3. /\ Chained(Grown, stack) /\ stack # <<>>
      /\ End(Grown[Cur]) = data + 1 /\ Grown[Cur].base <= data /\ data \in 0 .. Length
  BY <1>1, <1>2, LongerChained DEF WorkInv, Longer
<1>4. data + 1 \in 0 .. Length
  BY <1>1, BranchIsInside
<1>5. Grown[Cur].base < data + 1
  <2>1. Grown[Cur].base \in Int /\ data \in Int
    <3>1. WellFormed(Grown, stack) /\ Grown \in Seq(BlockType) /\ Cur \in DOMAIN Grown
      BY <1>3, TopIsBlock DEF Chained, WellFormed, Cur
    <3> QED
      BY <1>3, <3>1, BlockFacts
  <2> QED
    BY <1>3, <2>1
<1>6. Chained(Push(Grown, Block(data + 1, NoProjection)), Pushed(Grown, Popped))
  BY <1>3, <1>4, <1>5, PushNext DEF Cur, Popped
<1> QED
  BY <1>6, ResumeChains DEF CondReturn

LEMMA BranchConditionalChains ==
  ASSUME BranchesInside, WorkInv, BranchConditional
  PROVE  Chained(blocks, stack)' /\ code' = code
<1> DEFINE to == code[data].to
           ended == [Grown EXCEPT ![stack[Len(stack)]].projected = NoProjection]
           newL == ~Held(ended, data + 1)
           bsL == IF newL THEN Push(ended, Block(data + 1, FalseProjection(to))) ELSE ended
           stL == IF newL THEN Pushed(ended, Popped) ELSE Popped
           newR == ~Held(bsL, to)
<1>1. Scanning /\ code[data].op = "bc"
  BY DEF BranchConditional, Reads
<1>2. to \in 0 .. Length /\ data + 1 \in 0 .. Length
  BY <1>1, BranchIsInside
<1>3. FalseProjection(to) \in Nat \cup {NoProjection}
  BY <1>2 DEF FalseProjection
<1>4. Chained(ended, Popped)
  BY <1>1, LongerPopped DEF Longer, Cur
<1>5. Chained(bsL, stL)
  BY <1>2, <1>3, <1>4, PushRoot
<1>6. \/ newR /\ Resume(Push(bsL, Block(to, NoProjection)), Pushed(bsL, stL))
      \/ ~newR /\ Resume(bsL, stL)
  BY DEF BranchConditional
<1> HIDE DEF to, bsL, stL
<1>7. newR => Chained(Push(bsL, Block(to, NoProjection)), Pushed(bsL, stL))
  BY <1>2, <1>5, PushRoot
<1> QED
  BY <1>5, <1>6, <1>7, ResumeChains

LEMMA BranchChains ==
  ASSUME BranchesInside, WorkInv, Branch
  PROVE  Chained(blocks, stack)' /\ code' = code
<1> DEFINE to == code[data].to
           p == Carried(Grown[stack[Len(stack)]], to)
<1>1. Scanning /\ ~Projected /\ code[data].op = "b"
  BY DEF Branch, Reads
<1>2. to \in Int /\ to <= Length
  BY <1>1, BranchIsInside
<1>3. p \in Nat \cup {NoProjection}
  BY <1>1, CarriedTyped DEF WorkInv
<1>4. Chained(Grown, Popped)
  BY <1>1, LongerPopped DEF Longer
<1>5. \/ Resume(Grown, Popped)
      \/ /\ ~(to < 0) /\ ~Held(Grown, to)
         /\ Resume(Push(Grown, Block(to, p)), Pushed(Grown, Popped))
  BY DEF Branch
<1> HIDE DEF to, p
<1>6. ~(to < 0) => to \in 0 .. Length
  BY <1>2, CodeAssumption
<1>7. ~(to < 0) /\ ~Held(Grown, to) => Chained(Push(Grown, Block(to, p)), Pushed(Grown, Popped))
  BY <1>3, <1>4, <1>6, PushRoot
<1> QED
  BY <1>4, <1>5, <1>7, ResumeChains

LEMMA WorkInit == Init => WorkInv
<1> SUFFICES ASSUME Init PROVE WorkInv
  OBVIOUS
<1>1. Inv /\ WellFormed(blocks, stack)
  BY InvInit DEF Inv, BlocksType, StackType, WellFormed
<1>2. CASE blocks = <<>> /\ stack = <<>>
  <2>1. Inside(blocks)
    BY <1>2 DEF Inside
  <2>2. Traced(blocks, stack, <<>>)
    <3>1. DOMAIN blocks = {} /\ DOMAIN stack = {} /\ DOMAIN <<>> = {}
      BY <1>2
    <3>2. <<>> \in [DOMAIN blocks -> 0 .. Length]
      BY <3>1
    <3> QED
      BY <3>1, <3>2 DEF Traced
  <2> QED
    BY <1>1, <2>1, <2>2 DEF Init, WorkInv, Chained
<1>3. CASE blocks = <<Block(0, NoProjection)>> /\ stack = <<1>>
  <2> DEFINE b == Block(0, NoProjection)
  <2>1. b.base = 0 /\ b.size = 0 /\ End(b) = 0
    BY DEF Block, End
  <2> HIDE DEF b
  <2>2. DOMAIN blocks = {1} /\ blocks[1] = b /\ DOMAIN stack = {1} /\ stack[1] = 1
    BY <1>3 DEF b
  <2>3. Inside(blocks)
    BY <2>1, <2>2, CodeAssumption DEF Inside
  <2> DEFINE root == [i \in {1} |-> 0]
  <2>4. root \in [DOMAIN blocks -> 0 .. Length] /\ root[1] = 0
    BY <2>2, CodeAssumption
  <2> HIDE DEF root
  <2>5. Traced(blocks, stack, root)
    BY <2>1, <2>2, <2>4 DEF Traced
  <2> QED
    BY <1>1, <2>3, <2>5 DEF Init, WorkInv, Chained
<1> QED
  BY <1>2, <1>3 DEF Init

LEMMA WorkNext ==
  ASSUME BranchesInside, WorkInv, [Next]_vars
  PROVE  WorkInv'
<1>1. Inv'
  BY InvNext DEF WorkInv
<1>2. Chained(blocks, stack)' /\ code' = code
  <2>1. CASE Turn
    BY <2>1, FallThroughChains, PlainChains, ReturnChains, CondReturnChains,
       BranchConditionalChains, BranchChains DEF Turn
  <2>2. CASE UNCHANGED <<code, blocks, stack>>
    BY <2>2, SameChains DEF WorkInv
  <2> QED
    BY <2>1, <2>2 DEF Next, Turn, Finish, vars
<1> QED
  BY <1>1, <1>2 DEF WorkInv

(* Blocks of one root have different bases: a block is known by the two.   *)
LEMMA BlocksAreFew ==
  ASSUME Chained(blocks, stack)
  PROVE  Len(blocks) <= (Length + 1) * (Length + 1)
<1> DEFINE W == 0 .. Length
           D == DOMAIN blocks
<1>1. blocks \in Seq(BlockType) /\ D = 1 .. Len(blocks) /\ Len(blocks) \in Nat
  BY DEF Chained, WellFormed
<1>2. PICK root : Traced(blocks, stack, root)
  BY DEF Chained
<1> DEFINE known == [i \in D |-> <<root[i], blocks[i].base>>]
<1>3. known \in [D -> W \X W]
  BY <1>2 DEF Traced, Chained, Inside
<1>4. \A i, j \in D : known[i] = known[j] => i = j
  BY <1>2 DEF Traced
<1> HIDE DEF known
<1>5. known \in Injection(D, W \X W)
  BY <1>3, <1>4 DEF Injection, IsInjective
<1>6. IsFiniteSet(W) /\ Cardinality(W) = Length + 1
  BY FS_Interval, CodeAssumption
<1>7. /\ IsFiniteSet(W \X W)
      /\ Cardinality(W \X W) = (Length + 1) * (Length + 1)
  BY <1>6, FS_Product
<1>8. Cardinality(D) <= Cardinality(W \X W)
  BY <1>5, <1>7, FS_Injection
<1>9. Cardinality(D) = Len(blocks)
  <2>1. Cardinality(1 .. Len(blocks)) = IF 1 > Len(blocks) THEN 0 ELSE Len(blocks) - 1 + 1
    BY <1>1, FS_Interval
  <2>2. (IF 1 > Len(blocks) THEN 0 ELSE Len(blocks) - 1 + 1) = Len(blocks)
    BY <1>1
  <2> QED
    BY <1>1, <2>1, <2>2
<1> QED
  BY <1>7, <1>8, <1>9

(* As long as branches stay between the function's start and the section's *)
(* end, the loop of function.cpp:65-211 has a bounded number of turns,     *)
(* whatever the code: conditional returns, whose rest is scanned anew each *)
(* time (line 189 looks an offset up as an address), multiply the blocks,  *)
(* but no more than quadratically.                                         *)
THEOREM WorkIsBounded ==
  ASSUME BranchesInside
  PROVE  Spec => []WorkBounded
<1>1. WorkInv => WorkBounded
  <2> SUFFICES ASSUME WorkInv PROVE WorkBounded
    OBVIOUS
  <2>1. ASSUME NEW i \in DOMAIN blocks
        PROVE  blocks[i].size <= Length + 1
    <3>1. blocks[i].base \in 0 .. Length /\ End(blocks[i]) <= Length + 1
      BY DEF WorkInv, Chained, Inside
    <3>2. blocks[i].size \in Nat /\ End(blocks[i]) = blocks[i].base + blocks[i].size
      BY BlockFacts DEF WorkInv, Chained, WellFormed
    <3> QED
      BY <3>1, <3>2, CodeAssumption
  <2> QED
    BY <2>1, BlocksAreFew DEF WorkInv, WorkBounded
<1> QED
  BY <1>1, WorkInit, WorkNext, PTL DEF Spec
===============================================================================
