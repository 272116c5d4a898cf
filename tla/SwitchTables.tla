----------------------------- MODULE SwitchTables -----------------------------
(***************************************************************************)
(* Jump tables, from the guest's code to the switch that replaces it.      *)
(*                                                                         *)
(*   main, SearchMask, ScanTable, ReadTable     XenonAnalyse/main.cpp      *)
(*   RecompilerConfig::Load                     recompiler_config.cpp      *)
(*   Recompile: labels, switchTable, PPC_INST_BCTR          recompiler.cpp *)
(*                                                                         *)
(* XenonAnalyse looks for four sequences of instructions that compute a    *)
(* jump from a table, and writes down where each begins, the register with *)
(* the index, and the targets.  Recompile arms the entry at that address   *)
(* and prints a switch for the next bctr.  Then the printed function runs. *)
(*                                                                         *)
(* An image is a sequence of words; word k has the address 4 * k.  Decode  *)
(* is the disassembler; a byte is a digit of its word in base Digit.       *)
(***************************************************************************)
EXTENDS Integers, Sequences, FiniteSetsExt

CONSTANTS
  Decode(_), \* the instruction a word stands for
  Digit,     \* values of a byte
  High,      \* what one unit of lis adds: 2^16
  Back,      \* instructions ScanTable looks at: 32
  Layout(_), \* sections, function and hand-made tables of an image
  Inputs     \* what the argument registers may hold

VARIABLES
  image,     \* the image that is recompiled
  analysed,  \* the image that XenonAnalyse looked at
  stage,     \* "wait", "scan", "print", "run", "done"
  type,      \* the pattern searched for
  section,   \* the section searched
  data,      \* the word from which SearchMask goes on
  tables,    \* the file of switch tables
  line,      \* the word Recompile has come to
  armed,     \* the entry switchTable points to; 0 = end()
  printed,   \* what was printed for each bctr
  pc,        \* the word the printed function runs; 0 = it has returned
  reg,       \* the guest's registers: low word
  upper,     \* the registers whose upper word is not zero
  compared,  \* per condition field, the last comparison
  ctr,       \* the guest's count register
  guard,     \* history: the comparison behind the last conditional branch
  outcome    \* how the function ended

scanVars == <<type, section, data, tables>>
printVars == <<line, armed, printed>>
runVars == <<pc, reg, upper, compared, ctr, guard, outcome>>
switchVars == <<image, analysed, stage, scanVars, printVars, runVars>>

Register == {0, 3, 4, 11, 12}
Field == {0, 6}

Nothing == [op |-> "undecodable", d |-> 0, a |-> 0, b |-> 0]

(* ppc::Disassemble of word k.                                             *)
Insn(words, k) ==
  IF k \in DOMAIN words THEN Decode(words[k]) ELSE Nothing

(* A big-endian value of n bytes in an image.                              *)
Byte(words, address) ==
  LET k == address \div 4 IN
  IF k \in DOMAIN words THEN (words[k] \div (Digit ^ (3 - (address % 4)))) % Digit ELSE 0

Value(words, address, n) ==
  CASE n = 1 -> Byte(words, address)
    [] n = 2 -> Byte(words, address) * Digit + Byte(words, address + 1)
    [] n = 4 -> IF address \div 4 \in DOMAIN words THEN words[address \div 4] ELSE 0

-----------------------------------------------------------------------------
(* XenonAnalyse *)

Pattern ==
  << <<"lis", "addi", "rlwinm", "lwzx", "mtctr", "bctr">>,
     <<"lis", "addi", "lbzx", "rlwinm", "lis", "addi", "add", "mtctr">>,
     <<"lis", "addi", "lbzx", "lis", "addi", "add", "mtctr">>,
     <<"lis", "addi", "rlwinm", "lhzx", "lis", "addi", "add", "mtctr">> >>

Fits(t, k) == \A c \in DOMAIN Pattern[t] : Insn(analysed, k + c - 1).op = Pattern[t][c]

(* The words of a section where SearchMask finds the pattern.  The last    *)
(* instructions of a match may lie behind the section.                     *)
Matches(t, from, last) == {k \in from .. last : Fits(t, k)}

Guards == {"bgt", "bgtlr", "ble", "blelr"}

(* How far before the pattern there are conditional branches.              *)
Branches(k) == {n \in 0 .. (Back - 1) : Insn(analysed, k - n).op \in Guards}

(* Variant: the first cmplwi is taken, whatever field it sets.             *)
Compares_AnyField(k) ==
  {n \in 0 .. (Back - 1) :
     Branches(k) # {} /\ n > Min(Branches(k)) /\ Insn(analysed, k - n).op = "cmplwi"}

(* The comparisons before the nearest branch, for its condition field.     *)
Compares(k) ==
  {n \in 0 .. (Back - 1) :
     /\ Branches(k) # {} /\ n > Min(Branches(k))
     /\ Insn(analysed, k - n).op = "cmplwi"
     /\ Insn(analysed, k - n).d = Insn(analysed, k - Min(Branches(k))).d}

(* ScanTable: the nearest of them.                                         *)
Comparison(k) ==
  IF Compares(k) = {} THEN Nothing ELSE Insn(analysed, k - Min(Compares(k)))

(* The constant that a lis and an addi build.                              *)
Constant(lis, addi) == Insn(analysed, lis).b * High + Insn(analysed, addi).b

(* ReadTable: entry n of the table that the code at k reads.               *)
Label(t, k, n) ==
  LET offsets == Constant(k, k + 1) IN
  CASE t = 1 -> Value(analysed, offsets + 4 * n, 4)
    [] t = 2 -> Constant(k + 4, k + 5) + Value(analysed, offsets + n, 1) * 2 ^ Insn(analysed, k + 3).b
    [] t = 3 -> Constant(k + 3, k + 4) + Value(analysed, offsets + n, 1)
    [] t = 4 -> Constant(k + 4, k + 5) + Value(analysed, offsets + 2 * n, 2)

(* labels.resize(imm + 1), then one label for each value of the index.     *)
Table(t, k) ==
  LET c == Comparison(k) IN
  [base |-> k, r |-> c.a, labels |-> [n \in 1 .. (c.b + 1) |-> Label(t, k, n - 1)]]

Sections == Layout(analysed).sections

(* Each of the two programs parses the executable it is given.             *)
Start(executables) ==
  /\ stage = "wait" /\ Layout(image).sections # <<>>
  /\ analysed' \in executables
  /\ stage' = "scan"
  /\ data' = Layout(analysed').sections[1].first
  /\ UNCHANGED <<image, type, section, tables, printVars, runVars>>

(* scanPattern, one turn.                                                  *)
Find ==
  LET hits == Matches(type, data, Sections[section].last)
      k == Min(hits)
  IN
  /\ stage = "scan" /\ section <= Len(Sections)
  /\ Sections[section].code /\ hits # {}
  /\ tables' = IF Comparison(k) = Nothing THEN tables ELSE Append(tables, Table(type, k))
  /\ data' = k + 1
  /\ UNCHANGED <<image, analysed, stage, type, section, printVars, runVars>>

(* Variant: the search ends at a section without code.                     *)
NextSection_Break ==
  /\ stage = "scan" /\ section <= Len(Sections)
  /\ Sections[section].code => Matches(type, data, Sections[section].last) = {}
  /\ section' = IF Sections[section].code THEN section + 1 ELSE Len(Sections) + 1
  /\ data' = IF section' <= Len(Sections) THEN Sections[section'].first ELSE 0
  /\ UNCHANGED <<image, analysed, stage, type, tables, printVars, runVars>>

NextSection ==
  /\ stage = "scan" /\ section <= Len(Sections)
  /\ Sections[section].code => Matches(type, data, Sections[section].last) = {}
  /\ section' = section + 1
  /\ data' = IF section < Len(Sections) THEN Sections[section + 1].first ELSE 0
  /\ UNCHANGED <<image, analysed, stage, type, tables, printVars, runVars>>

FirstWord == IF Sections = <<>> THEN 0 ELSE Sections[1].first

NextPattern ==
  /\ stage = "scan" /\ section > Len(Sections) /\ type < Len(Pattern)
  /\ type' = type + 1
  /\ section' = 1
  /\ data' = FirstWord
  /\ UNCHANGED <<image, analysed, stage, tables, printVars, runVars>>

Function == Layout(image).function

(* The file is written; entries made by hand are added to it; Recompile    *)
(* comes to the function.                                                  *)
WriteTables ==
  /\ stage = "scan" /\ section > Len(Sections) /\ type = Len(Pattern)
  /\ tables' = tables \o Layout(image).manual
  /\ stage' = "print"
  /\ line' = Function.first
  /\ printed' = [k \in DOMAIN image |-> 0]
  /\ UNCHANGED <<image, analysed, type, section, data, armed, runVars>>

-----------------------------------------------------------------------------
(* Recompile *)

(* config.switchTables.find: the first entry in the file for an address,   *)
(* as emplace keeps it.                                                    *)
Entries(k) == {n \in DOMAIN tables : tables[n].base = k}
Entry(k) == IF Entries(k) = {} THEN 0 ELSE Min(Entries(k))

InFunction(label) == label >= 4 * Function.first /\ label <= 4 * Function.last

(* Variant: an entry is only looked up at the bctr itself.                 *)
Armed_AtBctr == IF Insn(image, line).op = "bctr" THEN Entry(line) ELSE 0

(* if (switchTable == end()) switchTable = find(base)                      *)
Armed == IF armed # 0 THEN armed ELSE Entry(line)

(* One turn of the loop over the function.                                 *)
PrintLine ==
  /\ stage = "print" /\ line <= Function.last
  /\ IF Insn(image, line).op = "bctr"
     THEN /\ printed' = [printed EXCEPT ![line] = Armed]
          /\ armed' = 0
     ELSE /\ armed' = Armed
          /\ UNCHANGED printed
  /\ line' = line + 1
  /\ UNCHANGED <<image, analysed, stage, scanVars, runVars>>

-----------------------------------------------------------------------------
(* The printed function *)

NoGuard == [r |-> -1, b |-> 0, v |-> 0]

(* The function is called with any arguments.                              *)
Call ==
  /\ stage = "print" /\ line > Function.last
  /\ stage' = "run"
  /\ pc' = Function.first
  /\ \E input \in Inputs :
       /\ reg' = [r \in Register |-> input.reg[r]]
       /\ upper' = input.upper
  /\ UNCHANGED <<image, analysed, scanVars, printVars, compared, ctr, guard, outcome>>

I == Insn(image, pc)

Running(ops) == stage = "run" /\ pc # 0 /\ I.op \in ops

Return(how) == pc' = 0 /\ stage' = "done" /\ outcome' = how

Go(k) ==
  IF InFunction(4 * k) THEN pc' = k /\ UNCHANGED <<stage, outcome>> ELSE Return("left")

(* An instruction that sets a register.                                    *)
Result ==
  CASE I.op = "lis"    -> I.b * High
    [] I.op = "addi"   -> reg[I.a] + I.b
    [] I.op = "rlwinm" -> reg[I.a] * 2 ^ I.b
    [] I.op = "add"    -> reg[I.a] + reg[I.b]
    [] I.op = "mr"     -> reg[I.a]
    [] I.op = "lbzx"   -> Value(image, reg[I.a] + reg[I.b], 1)
    [] I.op = "lhzx"   -> Value(image, reg[I.a] + reg[I.b], 2)
    [] I.op = "lwzx"   -> Value(image, reg[I.a] + reg[I.b], 4)

Sources == IF I.op = "add" THEN {I.a, I.b} ELSE {I.a}

Compute ==
  /\ Running({"lis", "addi", "rlwinm", "add", "mr", "lbzx", "lhzx", "lwzx"})
  /\ reg' = [reg EXCEPT ![I.d] = Result]
  /\ upper' = IF I.op \in {"mr", "addi", "add"} /\ Sources \cap upper # {}
             THEN upper \cup {I.d} ELSE upper \ {I.d}
  /\ pc' = pc + 1
  /\ UNCHANGED <<image, analysed, stage, scanVars, printVars, compared, ctr, guard, outcome>>

(* cmplwi compares low words; cmpwi as well, with a sign.                  *)
Compare ==
  /\ Running({"cmplwi", "cmpwi"})
  /\ compared' = [compared EXCEPT ![I.d] =
                    [r |-> IF I.op = "cmplwi" THEN I.a ELSE -1, b |-> I.b, v |-> reg[I.a]]]
  /\ pc' = pc + 1
  /\ UNCHANGED <<image, analysed, stage, scanVars, printVars, reg, upper, ctr, guard, outcome>>

(* A conditional branch or a conditional return.                           *)
Branch ==
  /\ Running(Guards)
  /\ LET greater == compared[I.d].v > compared[I.d].b
         taken == (I.op \in {"bgt", "bgtlr"}) = greater
     IN  IF taken
         THEN IF I.op \in {"bgt", "ble"} THEN Go(I.b) ELSE Return("returned")
         ELSE Go(pc + 1)
  /\ guard' = compared[I.d]
  /\ UNCHANGED <<image, analysed, scanVars, printVars, reg, upper, compared, ctr>>

MoveToCtr ==
  /\ Running({"mtctr"})
  /\ ctr' = reg[I.d]
  /\ pc' = pc + 1
  /\ UNCHANGED <<image, analysed, stage, scanVars, printVars, reg, upper, compared, guard, outcome>>

(* bctrl calls and comes back; what is neither is another instruction.     *)
Pass ==
  /\ Running({"nop", "bctrl", "undecodable"})
  /\ Go(pc + 1)
  /\ UNCHANGED <<image, analysed, scanVars, printVars, reg, upper, compared, ctr, guard>>

ReturnToCaller ==
  /\ Running({"blr"})
  /\ Return("returned")
  /\ UNCHANGED <<image, analysed, scanVars, printVars, reg, upper, compared, ctr, guard>>

(* switch (r.u64) with a case for each label and __builtin_unreachable().  *)
Switch ==
  /\ Running({"bctr"}) /\ printed[pc] # 0
  /\ LET t == tables[printed[pc]] IN
     IF t.r \in upper \/ reg[t.r] + 1 \notin DOMAIN t.labels
     THEN Return("unreachable")
     ELSE LET label == t.labels[reg[t.r] + 1] IN
          IF InFunction(label) THEN Go(label \div 4) ELSE Return("error")
  /\ UNCHANGED <<image, analysed, scanVars, printVars, reg, upper, compared, ctr, guard>>

(* PPC_CALL_INDIRECT_FUNC(ctr) and a return: ctr must be a function.       *)
CallIndirect ==
  /\ Running({"bctr"}) /\ printed[pc] = 0
  /\ Return(IF ctr = 4 * Function.first \/ ~InFunction(ctr) THEN "called" ELSE "invalid")
  /\ UNCHANGED <<image, analysed, scanVars, printVars, reg, upper, compared, ctr, guard>>

-----------------------------------------------------------------------------
SwitchInit ==
  /\ stage = "wait" /\ analysed = <<>>
  /\ type = 1 /\ section = 1 /\ data = 0 /\ tables = <<>>
  /\ line = 0 /\ armed = 0 /\ printed = <<>>
  /\ pc = 0 /\ reg = [r \in Register |-> 0] /\ upper = {}
  /\ compared = [d \in Field |-> NoGuard] /\ ctr = 0 /\ guard = NoGuard
  /\ outcome = ""

Analyse == Find \/ NextSection \/ NextPattern \/ WriteTables

Execute ==
  \/ Compute \/ Compare \/ Branch \/ MoveToCtr \/ Pass \/ ReturnToCaller
  \/ Switch \/ CallIndirect

SwitchNext == Analyse \/ PrintLine \/ Call \/ Execute
-----------------------------------------------------------------------------
(* Properties *)

(* The places in code sections where a pattern is behind a comparison.     *)
Hit(t, s, k) ==
  /\ Sections[s].code /\ k \in Sections[s].first .. Sections[s].last
  /\ Fits(t, k) /\ Compares(k) # {}

Found == Len(tables) - Len(Layout(image).manual)

(* When Recompile comes to the function, the file has a table for each of  *)
(* these places, as ReadTable makes it, and no other but those by hand:    *)
(* scanPattern goes through all sections for all patterns, SearchMask stops *)
(* at each hit and goes on behind it, and ScanTable drops a hit only if    *)
(* there is no comparison.                                                 *)
EveryTableFound ==
  stage = "print" /\ line = Function.first =>
    /\ \A n \in 1 .. Found : \E t \in DOMAIN Pattern, s \in DOMAIN Sections, k \in DOMAIN analysed :
         Hit(t, s, k) /\ tables[n] = Table(t, k)
    /\ \A t \in DOMAIN Pattern, s \in DOMAIN Sections, k \in DOMAIN analysed :
         Hit(t, s, k) => \E n \in 1 .. Found : tables[n] = Table(t, k)

(* The guest's jump at a bctr that is printed as a switch, if the table    *)
(* was found in this image and not entered by hand, the code went straight *)
(* from the table's base to the bctr, and the register the guest compared  *)
(* still holds the index, with nothing in its upper word.                  *)
Straight(t) ==
  /\ analysed = image /\ printed[pc] <= Found
  /\ \A k \in t.base .. (pc - 1) : Insn(image, k).op # "bctrl"
  /\ guard.r \in Register /\ guard.v \in 0 .. guard.b
  /\ reg[guard.r] = guard.v /\ guard.r \notin upper

(* The switch goes where the guest's bctr would go: ScanTable found the    *)
(* comparison that guards the jump, ReadTable read the table the way the   *)
(* code does, and Recompile printed the entry at this bctr and no other.   *)
SwitchFollowsTable ==
  Running({"bctr"}) /\ printed[pc] # 0 =>
    LET t == tables[printed[pc]] IN
    Straight(t) =>
      /\ t.r \notin upper /\ reg[t.r] + 1 \in DOMAIN t.labels
      /\ t.labels[reg[t.r] + 1] = ctr

-----------------------------------------------------------------------------
(* Code as the compiler writes it.  SearchMask compares opcodes only; what *)
(* the patterns stand for is more.                                         *)

(* Which instruction of a pattern sets a register that which other reads,  *)
(* and where the index is read.                                            *)
Flow ==
  << {<<1, 2, "a">>, <<2, 4, "a">>, <<3, 4, "b">>, <<4, 5, "d">>},
     {<<1, 2, "a">>, <<2, 3, "a">>, <<3, 4, "a">>, <<5, 6, "a">>, <<6, 7, "a">>, <<4, 7, "b">>, <<7, 8, "d">>},
     {<<1, 2, "a">>, <<2, 3, "a">>, <<4, 5, "a">>, <<5, 6, "a">>, <<3, 6, "b">>, <<6, 7, "d">>},
     {<<1, 2, "a">>, <<2, 4, "a">>, <<3, 4, "b">>, <<5, 6, "a">>, <<6, 7, "a">>, <<4, 7, "b">>, <<7, 8, "d">>} >>

IndexAt == << <<3, "a">>, <<3, "b">>, <<3, "b">>, <<3, "a">> >>

EntrySize == <<4, 1, 1, 2>>

(* The mtctr of a pattern.                                                 *)
Last == <<5, 8, 7, 8>>

(* The instructions from k on compute the jump that pattern t stands for,  *)
(* from the index in r.                                                    *)
Computes(t, k, r) ==
  LET At(c) == Insn(analysed, k + c - 1) IN
  /\ \A f \in Flow[t] :
       /\ At(f[2])[f[3]] = At(f[1]).d
       /\ \A c \in (f[1] + 1) .. (f[2] - 1) : At(c).d # At(f[1]).d
  /\ At(IndexAt[t][1])[IndexAt[t][2]] = r
  /\ \A c \in 1 .. (Last[t] - 1) : At(c).d \in Register \ {r}
  /\ t \in {1, 4} => 2 ^ At(3).b = EntrySize[t]
  /\ At(Last[t] + 1).op \in {"bctr", "bctrl"}

(* Control comes into the words from .. last only from the word before, or *)
(* by the branch at g to a word that is not behind k.                      *)
OneWayIn(from, last, g, k) ==
  /\ Function.first \notin from .. last
  /\ \A j \in DOMAIN image :
       Insn(image, j).op \in {"bgt", "ble"} /\ Insn(image, j).b \in from .. last
         => j = g /\ Insn(image, j).b \in (g + 1) .. k
  /\ \A n \in DOMAIN tables : \A m \in DOMAIN tables[n].labels :
       tables[n].labels[m] \div 4 \notin from .. last

TypedLayout ==
  /\ Sections \in Seq([first : Int, last : Int, code : BOOLEAN])
  /\ Layout(image).manual \in Seq([base : Int, r : Register, labels : Seq(Int)])
  /\ Function.first \in Int

(* Where a pattern is found behind a comparison and a branch, the branch   *)
(* is by that comparison, the jump is by the register it compares, and     *)
(* nothing jumps in between.                                               *)
CompiledCode ==
  /\ TypedLayout
  /\ \A j \in DOMAIN image : Insn(image, j).op \in {"bgt", "ble"} => Insn(image, j).b \in Int
  /\ \A n \in DOMAIN tables : \A m \in DOMAIN tables[n].labels : tables[n].labels[m] \in Int
  /\ \A t \in DOMAIN Pattern : \A k \in DOMAIN analysed :
       Fits(t, k) /\ Compares(k) # {} =>
         LET g == k - Min(Branches(k))
             c == k - Min(Compares(k))
             i == Comparison(k)
         IN  /\ i.d \in Field /\ i.b \in Int
             /\ \A j \in (c + 1) .. (g - 1) :
                  ~(Insn(image, j).op = "cmpwi" /\ Insn(image, j).d = i.d)
             /\ Computes(t, k, i.a)
             /\ OneWayIn(c + 1, k + Last[t], g, k)
===============================================================================
