--------------------------- MODULE FunctionAnalyze ---------------------------
(***************************************************************************)
(* Function::Analyze of XenonAnalyse/function.cpp: where does the function *)
(* at a given address end?                                                 *)
(*                                                                         *)
(* The analyzer scans blocks from a stack.  A branch pushes the blocks it  *)
(* leads to unless some block holds the address already; in the end the    *)
(* blocks are sorted, those after the first gap are dropped, and the       *)
(* farthest end is the function's size.                                    *)
(*                                                                         *)
(* Addresses are words relative to the function's start.  The section's    *)
(* words are 0 .. Length - 1; the loop's bound is data <= dataEnd, so that *)
(* word Length, behind the section, is read as well.  Words before the     *)
(* start can be branched to.  Calls are "plain", a blr, a bctr, padding    *)
(* and what does not disassemble are "return".                             *)
(***************************************************************************)
EXTENDS Integers, Sequences, FiniteSets

CONSTANTS
  Length,      \* words from the function's start to the section's end
  Before,      \* words in front of the start that a branch may lead to
  Conditional, \* targets of conditional branches
  Goto         \* targets of unconditional branches

(* Words of the guest's 32-bit addresses.                                  *)
AddressSpace == 1073741824

ASSUME CodeAssumption ==
  /\ Length \in Nat \ {0}
  /\ Before \in 0 .. AddressSpace
  /\ \A w \in Conditional \cup Goto : w \in Int /\ -Before <= w

Word == -Before .. Length

Instruction ==
  [op : {"plain", "return", "condReturn"}, to : {0}]
    \cup [op : {"bc"}, to : Conditional] \cup [op : {"b"}, to : Goto]

(* What lies outside the section is not searched for branches: any code    *)
(* there is a line of plain words that ends somewhere.                     *)
Outside == [op : {"plain", "return"}, to : {0}]

(* projectedSize = -1: scan until the code ends the block.                 *)
NoProjection == -1

VARIABLES
  code,    \* the words
  blocks,  \* Function::blocks
  stack,   \* blockStack
  data,    \* the word the loop has come to
  size,    \* Function::size
  phase    \* "scan", "done"

vars == <<code, blocks, stack, data, size, phase>>

-----------------------------------------------------------------------------
Block(base, projected) == [base |-> base, size |-> 0, projected |-> projected]

(* *(code + 1) is b .+4: a thunk whose second word is its tail call.       *)
ShiftedTailCall == code[1] = [op |-> "b", to |-> 2]

Init ==
  /\ code \in [Word -> Instruction]
  /\ \A w \in Word : w \in 0 .. Length - 1 \/ code[w] \in Outside
  /\ IF ShiftedTailCall
     THEN /\ blocks = <<>> /\ stack = <<>>
          /\ size = 2
          /\ phase = "done"
     ELSE /\ blocks = <<Block(0, NoProjection)>>
          /\ stack = <<1>>
          /\ size = 0
          /\ phase = "scan"
  /\ data = 0

End(b) == b.base + b.size

(* Variant: only fresh blocks are found.                                   *)
Held_FreshOnly(bs, w) ==
  w >= 0 /\ \E i \in DOMAIN bs : bs[i].size = 0 /\ w = bs[i].base

(* SearchBlock(address) # -1: a block holds the address, or is fresh and   *)
(* starts there.  Addresses before the start are never found.              *)
Held(bs, w) ==
  /\ w >= 0
  /\ \E i \in DOMAIN bs :
       IF bs[i].size = 0 THEN w = bs[i].base
       ELSE bs[i].base <= w /\ w < End(bs[i])


Top == blocks[stack[Len(stack)]]

Popped == SubSeq(stack, 1, Len(stack) - 1)

(* Variant: the scan goes on behind the block that ended.                  *)
Resume_Next(bs, st) ==
  /\ blocks' = bs
  /\ stack' = st
  /\ data' = data + 1
  /\ UNCHANGED <<code, size, phase>>

(* Go on with the blocks bs and the stack st: RESTORE_DATA and the loop's  *)
(* increment.                                                              *)
Resume(bs, st) ==
  /\ blocks' = bs
  /\ stack' = st
  /\ data' = IF st = <<>> THEN data + 1 ELSE End(bs[st[Len(st)]])
  /\ UNCHANGED <<code, size, phase>>

Scanning == phase = "scan" /\ data <= Length /\ stack # <<>>

Projected == Top.projected # NoProjection /\ Top.size >= Top.projected

(* The block has grown to where its neighbour starts.                      *)
FallThrough == Scanning /\ Projected /\ Resume(blocks, Popped)

(* The word at data belongs to the block on top.                           *)
Grown == [blocks EXCEPT ![stack[Len(stack)]].size = @ + 1]

Reads(op) == Scanning /\ ~Projected /\ code[data].op = op

(* Nothing to decide: the loop's increment only.                           *)
Plain ==
  /\ Reads("plain")
  /\ blocks' = Grown
  /\ data' = data + 1
  /\ UNCHANGED <<code, stack, size, phase>>

Return == Reads("return") /\ Resume(Grown, Popped)

(* The blocks and the stack with a block pushed.                           *)
Push(bs, b) == Append(bs, b)
Pushed(bs, st) == Append(st, Len(bs) + 1)

(* A conditional return looks lBase up without the function's base, which  *)
(* never finds a block: the rest is scanned again each time.               *)
CondReturn ==
  /\ Reads("condReturn")
  /\ Resume(Push(Grown, Block(data + 1, NoProjection)), Pushed(Grown, Popped))

(* The false path is projected up to the true path's start.                *)
FalseProjection(target) ==
  IF target >= data + 1 THEN target - (data + 1) ELSE NoProjection

BranchConditional ==
  /\ Reads("bc")
  /\ LET to == code[data].to
         i == stack[Len(stack)]
         ended == [Grown EXCEPT ![i].projected = NoProjection]
         newL == ~Held(ended, data + 1)
         bsL == IF newL THEN Push(ended, Block(data + 1, FalseProjection(to))) ELSE ended
         stL == IF newL THEN Pushed(ended, Popped) ELSE Popped
         newR == ~Held(bsL, to)
     IN IF newR THEN Resume(Push(bsL, Block(to, NoProjection)), Pushed(bsL, stL))
        ELSE Resume(bsL, stL)

(* Variant: the missing projection is carried over as well.                *)
Carried_Always(b, to) == IF to = End(b) THEN b.projected - b.size ELSE NoProjection

(* A branch to the next word carries the projection over.                  *)
Carried(b, to) ==
  IF b.projected # NoProjection /\ to = End(b) THEN b.projected - b.size
  ELSE NoProjection

(* Variant: branches before the start are chased.                          *)
Branch_Chase ==
  /\ Reads("b")
  /\ LET to == code[data].to
         ended == Grown[stack[Len(stack)]]
     IN IF Held(Grown, to) THEN Resume(Grown, Popped)
        ELSE Resume(Push(Grown, Block(to, Carried(ended, to))), Pushed(Grown, Popped))

(* Branches before base are tail calls.                                    *)
Branch ==
  /\ Reads("b")
  /\ LET to == code[data].to
         ended == Grown[stack[Len(stack)]]
     IN IF to < 0 \/ Held(Grown, to) THEN Resume(Grown, Popped)
        ELSE Resume(Push(Grown, Block(to, Carried(ended, to))), Pushed(Grown, Popped))

-----------------------------------------------------------------------------
(* size_t, in words: what lies before the start wraps to the far end.      *)
Unsigned(w) == IF w < 0 THEN w + AddressSpace ELSE w

Bases == {Unsigned(blocks[i].base) : i \in DOMAIN blocks}

(* std::sort leaves blocks of one base in any order: "last" says which is  *)
(* compared with the next base.                                            *)
LastOf(b) == {i \in DOMAIN blocks : Unsigned(blocks[i].base) = b}

Gap(last, b) ==
  \E n \in Bases :
    /\ n > b /\ Unsigned(End(blocks[last[b]])) < n
    /\ ~ \E m \in Bases : b < m /\ m < n

Largest(S) == CHOOSE x \in S : \A y \in S : y <= x

(* Variant: no block is dropped.                                           *)
Kept_All(last) == DOMAIN blocks

(* The blocks up to the first gap.                                         *)
Kept(last) ==
  {i \in DOMAIN blocks :
    ~ \E b \in Bases : b < Unsigned(blocks[i].base) /\ Gap(last, b)}

Finish ==
  /\ phase = "scan"
  /\ ~Scanning
  /\ \E last \in [Bases -> DOMAIN blocks] :
       /\ \A b \in Bases : last[b] \in LastOf(b)
       /\ size' = Largest({Unsigned(End(blocks[i])) : i \in Kept(last)})
  /\ phase' = "done"
  /\ UNCHANGED <<code, blocks, stack, data>>

Next ==
  \/ FallThrough \/ Plain \/ Return \/ CondReturn \/ BranchConditional \/ Branch
  \/ Finish

Spec == Init /\ [][Next]_vars

-----------------------------------------------------------------------------
(* Types and properties *)

BlockType == [base : Int, size : Nat, projected : Nat \cup {NoProjection}]

TypeOK ==
  /\ code \in [Word -> Instruction]
  /\ blocks \in Seq(BlockType)
  /\ stack \in Seq(DOMAIN blocks)
  /\ data \in Int
  /\ size \in Nat
  /\ phase \in {"scan", "done"}

(* The assertion of line 85: the word read is the one behind the block on  *)
(* top of the stack.                                                       *)
SanityCheck == phase = "scan" /\ stack # <<>> => data = End(Top)

Successors(w) ==
  CASE code[w].op = "plain"      -> {w + 1}
    [] code[w].op = "return"     -> {}
    [] code[w].op = "condReturn" -> {w + 1}
    [] code[w].op = "bc"         -> {w + 1, code[w].to}
    [] code[w].op = "b"          -> {code[w].to}

Closed(S) == \A w \in S : Successors(w) \cap 0 .. Length \subseteq S

(* The words from the start on that control reaches: the least set with    *)
(* the start in it that control does not leave.                            *)
Reached ==
  {w \in 0 .. Length :
     \A S \in SUBSET (0 .. Length) : 0 \in S /\ Closed(S) => w \in S}

ReachedSize == Largest({n \in 0 .. Length + 1 : 0 .. n - 1 \subseteq Reached})

(* What the analyzer takes for granted: branches skip something, and       *)
(* control stays in the section.                                           *)
OrdinaryCode ==
  /\ \A w \in 0 .. Length - 1 : code[w].op = "bc" => code[w].to # w + 1
  /\ \A w \in Reached \ {Length} : Successors(w) \subseteq 0 .. Length - 1

(* The function is what control reaches from its start, up to the first    *)
(* word it does not reach.                                                 *)
SizeIsReached ==
  phase = "done" /\ OrdinaryCode /\ ~ShiftedTailCall => size = ReachedSize

(* Branches before base are just tail calls: no need to chase after those  *)
(* (function.cpp:156).  The analysis stays behind the function's start.    *)
ChasesNothingBefore == \A i \in DOMAIN blocks : blocks[i].base >= 0

(* The work is bounded whatever the code: every turn of the loop grows a   *)
(* block or pops one, and there is a bound on the blocks and their sizes.  *)
WorkBounded ==
  /\ Len(blocks) <= (Length + 1) * (Length + 1)
  /\ \A i \in DOMAIN blocks : blocks[i].size <= Length + 1
===============================================================================
