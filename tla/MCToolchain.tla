----------------------------- MODULE MCToolchain ------------------------------
(***************************************************************************)
(* The files of MCXexImage, and executables with a function that jumps     *)
(* through a table.  Such a function checks an index, does something, and  *)
(* jumps in one of the ways of the compiler or in another way.             *)
(***************************************************************************)
EXTENDS Toolchain, MCXexImage, FiniteSetsExt

-----------------------------------------------------------------------------
In(op, d, a, b) == [op |-> op, d |-> d, a |-> a, b |-> b]

CodeWords == 24                      \* words for code; the rest is blr
Target == CodeWords + 1              \* three targets, and a default
Default == CodeWords + 4
TableWords == CodeWords + 5          \* the tables behind the function
Total == CodeWords + 12

MCDigit == 128
MCHigh == 64

Blr == In("blr", 0, 0, 0)
Nop == In("nop", 0, 0, 0)

Address(d, word) == <<In("lis", d, 0, (4 * word) \div MCHigh), In("addi", d, d, (4 * word) % MCHigh)>>

Bytes(a, b, c, d) == ((a * MCDigit + b) * MCDigit + c) * MCDigit + d

(* The targets in the order first, third, second, as each pattern has them.*)
TableData ==
  <<4 * Target, 4 * (Target + 2), 4 * (Target + 1),
    Bytes(0, 2, 1, 0), Bytes(0, 8, 4, 0), Bytes(0, 0, 0, 8), Bytes(0, 4, 0, 0)>>

Finish(d) == Address(12, Target) \o <<In("add", 12, 12, d), In("mtctr", 12, 0, 0)>>
Bctr == In("bctr", 0, 0, 0)

Dispatch(kind, r) ==
  CASE kind \in {"absolute", "behind", "by hand"} ->
         (IF kind = "absolute" THEN Address(11, TableWords) \o <<In("rlwinm", 0, r, 2)>>
          ELSE <<In("rlwinm", 0, r, 2)>> \o Address(11, TableWords))
         \o <<In("lwzx", 0, 11, 0), In("mtctr", 0, 0, 0), Bctr>>
    [] kind = "in place" ->
         Address(11, TableWords)
         \o <<In("rlwinm", r, r, 2), In("lwzx", 0, 11, r), In("mtctr", 0, 0, 0), Bctr>>
    [] kind \in {"computed", "call"} ->
         Address(11, TableWords + 3) \o <<In("lbzx", 0, 11, r), In("rlwinm", 0, 0, 2)>>
         \o Finish(0) \o <<IF kind = "call" THEN In("bctrl", 0, 0, 0) ELSE Bctr>>
    [] kind = "byte" ->
         Address(11, TableWords + 4) \o <<In("lbzx", 0, 11, r)>> \o Finish(0) \o <<Bctr>>
    [] kind = "short" ->
         Address(11, TableWords + 5) \o <<In("rlwinm", 0, r, 1), In("lhzx", 0, 11, 0)>>
         \o Finish(0) \o <<Bctr>>

(* A comparison and a branch, which stands at word k.                      *)
Check(branch, cr, r, n, between, k) ==
  <<In("cmplwi", cr, r, n)>> \o between
  \o <<In(branch, cr, 0, IF branch = "ble" THEN k + 2 ELSE IF cr = 6 THEN Default ELSE Total)>>
  \o (IF branch = "ble" THEN <<Blr>> ELSE <<>>)

Other(cr) == In("cmplwi", 6 - cr, 4, 0)

Fill == [none |-> <<>>, moved |-> <<In("mr", 3, 4, 0)>>, compared |-> <<Other(0), Other(6)>>,
         signed |-> <<In("cmpwi", 0, 4, 0)>>, far |-> [m \in 1 .. 9 |-> Nop]]

Checks ==
  <<Check("bgt", 6, 3, 2, <<>>, 2), Check("bgt", 0, 3, 1, <<Other(0)>>, 3),
    Check("bgtlr", 0, 3, 1, <<>>, 2), Check("ble", 6, 3, 2, <<Other(6)>>, 3)>>
Fills == <<"none", "moved", "compared", "signed", "far">>
Kinds == <<"absolute", "in place", "computed", "call", "byte", "short", "by hand", "behind">>

Labels == <<4 * Target, 4 * (Target + 2), 4 * (Target + 1)>>
ByHand(at, r) == <<[base |-> at, r |-> r, labels |-> Labels]>>

(* A program: its code, the first word of its function, entries by hand,   *)
(* and whether its table is found.                                         *)
Program(code, first, manual, good) ==
  [code |-> code \o [m \in 1 .. (Default - Len(code)) |-> Blr],
   first |-> first, manual |-> manual, good |-> good]

Single(check, fill, kind) ==
  LET code == check \o Fill[fill] \o Dispatch(kind, 3) IN
  Program(code, 1,
          CASE kind = "by hand" -> ByHand(Len(code), 3)
            [] kind = "behind"  -> ByHand(Len(code) + 1, 3)
            [] OTHER            -> <<>>,
          /\ fill # "moved" /\ kind \notin {"in place", "call", "behind"}
          /\ fill = "far" => kind = "by hand")

(* Two jumps: the default of the first is the check of the second, or the  *)
(* second comes after a call by the first.                                 *)
Double(kind) ==
  LET one == Dispatch(kind, 3)
      two == <<In("cmplwi", 6, 4, 1), In("bgt", 6, 0, Default)>> \o Dispatch("by hand", 4)
      code == <<In("cmplwi", 6, 3, 2), In("bgt", 6, 0, Len(one) + 3)>> \o one \o two
  IN  Program(code, 1, ByHand(Len(code), 4), kind # "call")

(* The comparison belongs to the function before.                          *)
Borrowed(kind) ==
  LET check == <<In("cmplwi", 6, 4, 2), In("bgt", 6, 0, 3), Blr>> IN
  Program(check \o Dispatch(kind, 3), 4, <<>>, FALSE)

Singles == Len(Checks) * Len(Fills) * Len(Kinds)

Count == Singles + 5

ProgramAt(n) ==
  IF n <= Singles
  THEN Single(Checks[(n % Len(Checks)) + 1],
              Fills[((n \div Len(Checks)) % Len(Fills)) + 1],
              Kinds[((n \div (Len(Checks) * Len(Fills))) % Len(Kinds)) + 1])
  ELSE CASE n = Singles + 1 -> Double("absolute")
         [] n = Singles + 2 -> Double("short")
         [] n = Singles + 3 -> Double("call")
         [] n = Singles + 4 -> Borrowed("absolute")
         [] n = Singles + 5 -> Borrowed("byte")

(* An instruction is a negative word, so none is taken for an address.     *)
Ops == <<"lis", "addi", "rlwinm", "lbzx", "lhzx", "lwzx", "add", "mr", "mtctr", "bctr", "bctrl",
         "cmplwi", "cmpwi", "bgt", "bgtlr", "ble", "blr", "nop">>

Encode(x) == -((((SelectInSeq(Ops, LAMBDA op : op = x.op) * 16 + x.d) * 16 + x.a) * 128) + x.b)

MCDecode(w) ==
  IF w >= 0 THEN In("undecodable", 0, 0, 0)
  ELSE In(Ops[(-w) \div 32768], ((-w) \div 2048) % 16, ((-w) \div 128) % 16, (-w) % 128)

(* The last word is the number of the program.                             *)
Assembled(n) ==
  LET code == ProgramAt(n).code IN
  [k \in DOMAIN code |-> Encode(code[k])] \o TableData \o <<n>>

(* Patches that change the tables: the second label becomes the first, or  *)
(* something that is no word of the function.                              *)
NewLabel(from) == Entry("move", TableWords, from, 1, <<>>)
CodePatches ==
  {Patch(Total, <<>>)} \cup
  {Patch(Total, <<Intact(<<NewLabel(from)>>)>>) : from \in {TableWords - 1, TableWords + 2}}

NoCode == [sections |-> <<>>, function |-> [first |-> 1, last |-> 0], manual |-> <<>>, good |-> FALSE]

MCLayout(words) ==
  IF Len(words) = Total /\ words[Total] \in 1 .. Count
  THEN LET p == ProgramAt(words[Total]) IN
       [sections |-> <<[first |-> TableWords, last |-> Total, code |-> FALSE],
                       [first |-> 1, last |-> Default, code |-> TRUE]>>,
        function |-> [first |-> p.first, last |-> Default],
        manual |-> p.manual,
        good |-> p.good /\ words[TableWords + 1] <= 4 * Default]
  ELSE NoCode

MCInputs ==
  {[reg |-> [r \in {0, 3, 4, 11, 12} |-> IF r = 3 THEN x ELSE 1], upper |-> u] :
     x \in 0 .. 3, u \in {{}, {3}}}

CodeBases == {Base("none", "none", Assembled(n), Total) : n \in 1 .. Count}

AllBases == MCBases \cup CodeBases
AllPatches == MCPatches \cup CodePatches
AllOffsets == [b \in AllBases |-> OffsetsOf(b)]

-----------------------------------------------------------------------------
(* A function that compares an index, branches, and jumps through a table  *)
(* that was found or entered by hand comes to one of its targets or to its *)
(* default: the jump is not left to the function table, which knows no     *)
(* address inside a function, and never meets the end of its switch.       *)
GuardedJumpArrives ==
  stage = "done" /\ Layout(image).good /\ analysed = image /\ upper = {} =>
    outcome \in {"returned", "left"}
===============================================================================
