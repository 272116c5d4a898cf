----------------------- MODULE FunctionDiscovery_proofs -----------------------
(***************************************************************************)
(* Proofs about FunctionDiscovery, for every image and configuration.      *)
(*                                                                         *)
(* Symbols are only ever added, so what is known, and what is covered,     *)
(* stays so; each pass is then done up to the word it has come to.         *)
(***************************************************************************)
EXTENDS FunctionDiscovery, SequenceTheorems, TLAPS

Types ==
  /\ code \in [Image -> Instruction]
  /\ configured \subseteq Configured
  /\ unwind \subseteq Unwind
  /\ symbols \in Seq(FunctionType)
  /\ functions \in Seq(FunctionType)
  /\ section \in DOMAIN Section
  /\ at \in Nat
  /\ skipped \subseteq Nat
  /\ phase \in {"config", "pdata", "calls", "sweep", "done"}

(* Every step leaves the lists alone or adds one function to both.         *)
Step == \/ AddNothing
        \/ \E f \in FunctionType : Add(f)

LEMMA SectionWords ==
  /\ 1 \in DOMAIN Section /\ Len(Section) \in DOMAIN Section
  /\ \A k \in DOMAIN Section :
       /\ Section[k].first \in Nat /\ Section[k].last \in Nat
       /\ Words(Section[k]) \subseteq Image
  /\ Image \subseteq Nat
<1>1. Section \in Seq([first : Nat, last : Nat]) /\ Section # <<>>
  BY ImageAssumption
<1>0. /\ Len(Section) \in Nat /\ DOMAIN Section = 1 .. Len(Section)
      /\ Len(Section) # 0
  BY <1>1, LenProperties, EmptySeq
<1>2. 1 \in DOMAIN Section /\ Len(Section) \in DOMAIN Section
  <2>1. \A n \in Nat : n # 0 => 1 \in 1 .. n /\ n \in 1 .. n
    OBVIOUS
  <2> QED
    BY <2>1, <1>0
<1>3. \A k \in DOMAIN Section : Section[k] \in [first : Nat, last : Nat]
  BY <1>1, <1>0, ElementOfSeq
<1>4. \A k \in DOMAIN Section : Words(Section[k]) \subseteq Nat
  <2>1. \A a, b \in Nat : a .. b \subseteq Nat
    OBVIOUS
  <2>2. \A k \in DOMAIN Section : Section[k].first \in Nat /\ Section[k].last \in Nat
    BY <1>3
  <2> QED
    BY <2>1, <2>2 DEF Words
<1>5. \A k \in DOMAIN Section :
        Section[k].first \in Nat /\ Section[k].last \in Nat /\ Words(Section[k]) \subseteq Image
  BY <1>3 DEF Image
<1>6. Image \subseteq Nat
  BY <1>4 DEF Image
<1> QED
  BY <1>2, <1>5, <1>6

LEMMA FunctionsTyped ==
  /\ Configured \subseteq FunctionType
  /\ Unwind \subseteq FunctionType
  /\ Import \in Seq(FunctionType)
  /\ \A a \in Nat : Analyzed(a) \subseteq FunctionType
<1>1. Image \subseteq Nat
  BY SectionWords
<1>2. [base : Image, size : Nat \ {0}] \subseteq FunctionType
  BY <1>1 DEF FunctionType
<1>3. [base : Image, size : Nat] \subseteq FunctionType
  BY <1>1 DEF FunctionType
<1>4. \A a \in Nat : Analyzed(a) \subseteq FunctionType
  BY ImageAssumption DEF Analyzed, FunctionType
<1>5. /\ Configured \subseteq [base : Image, size : Nat \ {0}]
      /\ Unwind \subseteq [base : Image, size : Nat]
      /\ Import \in Seq([base : Image, size : Nat \ {0}])
  BY ImageAssumption
<1>6. Import \in Seq(FunctionType)
  BY <1>2, <1>5, SeqMonotonic
<1> QED
  BY <1>2, <1>3, <1>4, <1>5, <1>6

LEMMA AddTyped ==
  ASSUME Types, NEW f \in FunctionType, Add(f)
  PROVE  symbols' \in Seq(FunctionType) /\ functions' \in Seq(FunctionType)
BY DEF Types, Add

(* The addresses at which a symbol is found.                               *)
Bases == {symbols[i].base : i \in {j \in DOMAIN symbols : symbols[j].size > 0}}

LEMMA KnownBases == \A a : Known(a) <=> a \in Bases
BY DEF Known, Found, Bases

(* What is known and what is covered stays so, and a function that is      *)
(* added is covered, and known unless it is empty.                         *)
LEMMA KnownStays ==
  ASSUME Types, Step
  PROVE  Bases \subseteq Bases'
<1>1. CASE AddNothing
  BY <1>1 DEF AddNothing, Bases
<1>2. ASSUME NEW f \in FunctionType, Add(f)
      PROVE  Bases \subseteq Bases'
  <2>1. \A i \in DOMAIN symbols : i \in DOMAIN symbols' /\ symbols'[i] = symbols[i]
    BY <1>2 DEF Types, Add
  <2> QED
    BY <2>1 DEF Bases
<1> QED
  BY <1>1, <1>2 DEF Step

LEMMA AddedKnown ==
  ASSUME Types, NEW f \in FunctionType, Add(f), f.size > 0
  PROVE  f.base \in Bases'
<1>1. Len(symbols) + 1 \in DOMAIN symbols' /\ symbols'[Len(symbols) + 1] = f
  BY DEF Types, Add
<1> QED
  BY <1>1 DEF Bases

Covers(i, w) == w \in symbols[i].base .. symbols[i].base + symbols[i].size - 1

LEMMA CoveredStays ==
  ASSUME Types, Step, skipped \subseteq skipped'
  PROVE  Covered \subseteq Covered'
<1> SUFFICES ASSUME NEW w \in Covered, w \notin skipped PROVE w \in Covered'
  BY DEF Covered
<1>1. PICK i \in DOMAIN symbols : Covers(i, w)
  BY DEF Covered, Covers
<1>2. CASE AddNothing
  BY <1>1, <1>2 DEF Covered, Covers, AddNothing
<1>3. ASSUME NEW f \in FunctionType, Add(f) PROVE w \in Covered'
  <2>1. i \in DOMAIN symbols' /\ symbols'[i] = symbols[i]
    BY <1>3 DEF Types, Add
  <2> QED
    BY <1>1, <2>1 DEF Covered, Covers
<1> QED
  BY <1>2, <1>3 DEF Step

LEMMA AddedCovered ==
  ASSUME Types, NEW f \in FunctionType, Add(f)
  PROVE  f.base .. f.base + f.size - 1 \subseteq Covered'
<1>1. Len(symbols) + 1 \in DOMAIN symbols' /\ symbols'[Len(symbols) + 1] = f
  BY DEF Types, Add
<1> QED
  BY <1>1 DEF Covered

(* A step of any kind adds a function or nothing, and keeps the types.     *)
LEMMA StepTypes ==
  ASSUME Types, [Next]_vars
  PROVE  Types' /\ Step
<1>1. CASE TakeConfigured
  <2>1. PICK f \in configured : Add(f) /\ configured' = configured \ {f}
    BY <1>1 DEF TakeConfigured
  <2>2. f \in FunctionType
    BY <2>1, FunctionsTyped DEF Types
  <2> QED
    BY <1>1, <2>1, <2>2, AddTyped DEF TakeConfigured, Types, Step
<1>2. CASE ReadUnwind
  <2>1. PICK f \in unwind : /\ IF Known(f.base) THEN AddNothing ELSE Add(f)
                            /\ unwind' = unwind \ {f}
    BY <1>2 DEF ReadUnwind
  <2>2. f \in FunctionType
    BY <2>1, FunctionsTyped DEF Types
  <2>3. Step
    BY <2>1, <2>2 DEF Step
  <2>4. symbols' \in Seq(FunctionType) /\ functions' \in Seq(FunctionType)
    BY <2>1, <2>2, AddTyped DEF Types, AddNothing
  <2> QED
    BY <1>2, <2>1, <2>3, <2>4 DEF ReadUnwind, Types
<1>3. CASE ConfigDone \/ UnwindDone
  BY <1>3 DEF ConfigDone, UnwindDone, AddNothing, Types, Step
<1>4. CASE ScanCall
  <2>1. \/ AddNothing
        \/ /\ code[at].op = "bl" /\ InSection(code[at].to)
           /\ \E f \in Analyzed(code[at].to) : Add(f)
    BY <1>4 DEF ScanCall
  <2>2. Step
    <3>1. ASSUME InSection(code[at].to) PROVE code[at].to \in Nat
      BY <3>1, SectionWords DEF InSection, Types
    <3> QED
      BY <2>1, <3>1, FunctionsTyped DEF Step
  <2>3. symbols' \in Seq(FunctionType) /\ functions' \in Seq(FunctionType)
    BY <2>2, AddTyped DEF Step, Types, AddNothing
  <2>4. at' \in Nat
    BY <1>4 DEF ScanCall, Types
  <2> QED
    BY <1>4, <2>2, <2>3, <2>4 DEF ScanCall, Types
<1>5. CASE CallsDone
  <2>1. at' \in Nat
    BY <1>5, SectionWords DEF CallsDone, Types
  <2> QED
    BY <1>5, <2>1 DEF CallsDone, AddNothing, Types, Step
<1>6. CASE SweepInvalid
  <2>1. code[at] \in Instruction /\ code[at].op = "skip"
    BY <1>6, SectionWords DEF SweepInvalid, InSection, Invalid, Types
  <2>2. code[at].words \in Nat /\ at \in Nat /\ at' = at + code[at].words
    BY <1>6, <2>1, ImageAssumption DEF SweepInvalid, Types
  <2>3. at' \in Nat /\ at .. at' - 1 \subseteq Nat
    BY ONLY <2>2
  <2> QED
    BY <1>6, <2>3 DEF SweepInvalid, AddNothing, Types, Step
<1>7. CASE SweepKnown
  <2>1. PICK i \in Found(at) : at' = at + symbols[i].size
    BY <1>7 DEF SweepKnown, LastFound
  <2>2. symbols[i] \in FunctionType
    BY <2>1 DEF Found, Types
  <2>3. at' \in Nat
    BY <2>1, <2>2 DEF FunctionType, Types
  <2> QED
    BY <1>7, <2>3 DEF SweepKnown, AddNothing, Types, Step
<1>8. CASE SweepUnknown
  <2>1. PICK f \in Analyzed(at) : Add(f) /\ at' = at + f.size
    BY <1>8 DEF SweepUnknown
  <2>2. f \in FunctionType
    BY <2>1, FunctionsTyped DEF Types
  <2>3. at' \in Nat
    BY <2>1, <2>2 DEF FunctionType, Types
  <2> QED
    BY <1>8, <2>1, <2>2, <2>3, AddTyped DEF SweepUnknown, Types, Step
<1>9. CASE SectionDone
  <2>1. section' \in DOMAIN Section /\ at' \in Nat
    <3>1. CASE section = Len(Section)
      BY <1>9, <3>1 DEF SectionDone, Types
    <3>2. CASE section # Len(Section)
      <4>1. Section \in Seq([first : Nat, last : Nat])
        BY ImageAssumption
      <4>2. section + 1 \in DOMAIN Section
        BY <3>2, <4>1, LenProperties DEF Types
      <4> QED
        BY <1>9, <3>2, <4>2, SectionWords DEF SectionDone
    <3> QED
      BY <3>1, <3>2
  <2> QED
    BY <1>9, <2>1 DEF SectionDone, AddNothing, Types, Step
<1>10. CASE UNCHANGED vars
  BY <1>10 DEF vars, AddNothing, Types, Step
<1> QED
  BY <1>1, <1>2, <1>3, <1>4, <1>5, <1>6, <1>7, <1>8, <1>9, <1>10 DEF Next

LEMMA InitTypes == Init => Types
BY SectionWords, FunctionsTyped DEF Init, Types

(* The lists are sequences of functions, whatever the image.               *)
THEOREM DiscoveryTypes == Spec => []TypeOK
<1>1. Types /\ [Next]_vars => Types'
  BY StepTypes
<1>2. Types => TypeOK
  BY DEF Types, TypeOK
<1> QED
  BY InitTypes, <1>1, <1>2, PTL DEF Spec

-----------------------------------------------------------------------------
(* One function to a base *)

(* Every function that is not empty can be found, and in "config" each is  *)
(* one of those that the configuration has no more to give.                *)
EachOnce ==
  /\ \A i \in DOMAIN functions : functions[i].size > 0 => functions[i].base \in Bases
  /\ phase = "config" => \A i \in DOMAIN functions : functions[i] \in Configured \ configured
  /\ UniqueBases

(* A function that is empty, or whose base only empty ones have yet.       *)
LEMMA AddOnce ==
  ASSUME Types, EachOnce, NEW f \in FunctionType, Add(f),
         f.size > 0 => \A i \in DOMAIN functions :
                         functions[i].size > 0 => functions[i].base # f.base
  PROVE  /\ \A i \in DOMAIN functions' : functions'[i].size > 0 => functions'[i].base \in Bases'
         /\ UniqueBases'
<1>1. /\ functions' = Append(functions, f)
      /\ functions \in Seq(FunctionType)
  BY DEF Types, Add
<1>2. /\ Len(functions) \in Nat
      /\ DOMAIN functions = 1 .. Len(functions)
      /\ DOMAIN functions' = 1 .. Len(functions) + 1
      /\ \A i \in DOMAIN functions : functions'[i] = functions[i]
      /\ functions'[Len(functions) + 1] = f
  BY <1>1
<1>3. \A i \in DOMAIN functions' : i \in DOMAIN functions \/ i = Len(functions) + 1
  BY ONLY <1>2
<1>4. Bases \subseteq Bases' /\ (f.size > 0 => f.base \in Bases')
  BY KnownStays, AddedKnown DEF Step
<1> QED
  BY <1>2, <1>3, <1>4 DEF EachOnce, UniqueBases

LEMMA OnceStep ==
  ASSUME Types, EachOnce, [Next]_vars
  PROVE  EachOnce'
<1> DEFINE Old == AddNothing /\ phase' # "config"
           New == \E f \in FunctionType :
                    /\ f.base \notin Bases /\ Add(f)
                    /\ phase' # "config"
<1>1. ASSUME Old PROVE EachOnce'
  BY <1>1 DEF EachOnce, UniqueBases, AddNothing, Bases
<1>2. ASSUME New PROVE EachOnce'
  <2>1. PICK f \in FunctionType : /\ f.base \notin Bases /\ Add(f)
                                  /\ phase' # "config"
    BY <1>2
  <2>2. \A i \in DOMAIN functions : functions[i].size > 0 => functions[i].base # f.base
    BY <2>1 DEF EachOnce
  <2> QED
    BY <2>1, <2>2, AddOnce DEF EachOnce
<1>3. CASE TakeConfigured
  <2>1. PICK f \in configured : Add(f) /\ configured' = configured \ {f}
    BY <1>3 DEF TakeConfigured
  <2>2. f \in Configured /\ f \in FunctionType /\ f.size > 0
    BY <2>1, FunctionsTyped, ImageAssumption DEF Types
  <2>3. /\ phase = "config" /\ phase' = "config"
        /\ \A i \in DOMAIN functions : functions[i] \in Configured \ configured
    BY <1>3 DEF TakeConfigured, EachOnce
  <2>4. \A i \in DOMAIN functions : functions[i].base # f.base
    BY <2>1, <2>2, <2>3, ImageAssumption
  <2>5. \A i \in DOMAIN functions' : functions'[i] \in Configured \ configured'
    <3>1. /\ functions' = Append(functions, f)
          /\ functions \in Seq(FunctionType)
      BY <2>1 DEF Types, Add
    <3>2. \A i \in DOMAIN functions' :
            functions'[i] = f \/ (i \in DOMAIN functions /\ functions'[i] = functions[i])
      BY <2>2, <3>1
    <3> QED
      BY <2>1, <2>2, <2>3, <3>2
  <2> QED
    BY <2>1, <2>2, <2>4, <2>5, AddOnce DEF EachOnce
<1>4. CASE ReadUnwind
  <2>1. PICK f \in unwind : IF Known(f.base) THEN AddNothing ELSE Add(f)
    BY <1>4 DEF ReadUnwind
  <2>2. f \in FunctionType
    BY <2>1, FunctionsTyped DEF Types
  <2>3. phase' # "config"
    BY <1>4 DEF ReadUnwind
  <2> QED
    BY <1>1, <1>2, <2>1, <2>2, <2>3, KnownBases
<1>5. CASE ScanCall
  <2>1. phase' # "config"
    BY <1>5 DEF ScanCall
  <2>2. CASE AddNothing
    BY <1>1, <2>1, <2>2
  <2>3. CASE ~AddNothing
    <3>1. PICK f \in Analyzed(code[at].to) : Add(f)
      BY <1>5, <2>3 DEF ScanCall
    <3>2. InSection(code[at].to) /\ ~Known(code[at].to)
      BY <1>5, <2>3 DEF ScanCall
    <3>3. code[at].to \in Nat
      BY <3>2, SectionWords DEF InSection, Types
    <3>4. f \in FunctionType /\ f.size > 0 /\ f.base = code[at].to
      BY <3>1, <3>3, FunctionsTyped, ImageAssumption DEF Analyzed
    <3> QED
      BY <1>2, <2>1, <3>1, <3>2, <3>4, KnownBases
  <2> QED
    BY <2>2, <2>3
<1>6. CASE SweepUnknown
  <2>1. PICK f \in Analyzed(at) : Add(f)
    BY <1>6 DEF SweepUnknown
  <2>2. f \in FunctionType /\ f.size > 0 /\ f.base = at
    BY <2>1, FunctionsTyped, ImageAssumption DEF Analyzed, Types
  <2>3. ~Known(at) /\ phase' # "config"
    BY <1>6 DEF SweepUnknown
  <2> QED
    BY <1>2, <2>1, <2>2, <2>3, KnownBases
<1>7. CASE ConfigDone \/ UnwindDone \/ CallsDone \/ SweepInvalid \/ SweepKnown \/ SectionDone
  BY <1>1, <1>7 DEF ConfigDone, UnwindDone, CallsDone, SweepInvalid, SweepKnown, SectionDone
<1>8. CASE UNCHANGED vars
  BY <1>8 DEF vars, EachOnce, UniqueBases, Bases
<1> QED
  BY <1>3, <1>4, <1>5, <1>6, <1>7, <1>8 DEF Next

(* No function is emitted twice, empty .pdata entries apart.               *)
THEOREM EmittedOnce == Spec => []UniqueBases
<1>1. Init => EachOnce
  BY DEF Init, EachOnce, UniqueBases
<1>2. EachOnce => UniqueBases
  BY DEF EachOnce
<1>3. Types /\ EachOnce /\ [Next]_vars => Types' /\ EachOnce'
  BY StepTypes, OnceStep
<1> QED
  BY InitTypes, <1>1, <1>2, <1>3, PTL DEF Spec

-----------------------------------------------------------------------------
(* How far the passes are *)

Position ==
  /\ at >= Section[section].first
  /\ phase \in {"config", "pdata"} => section = 1 /\ at = Section[section].first
  /\ phase = "done" => section = Len(Section)

(* The calls that were looked for: those of the sections passed, and       *)
(* those before the word at hand.                                          *)
CallSeen(k, w) == Passed(k) \/ (section = k /\ phase = "calls" /\ w < at)

CallsSoFar ==
  \A k \in DOMAIN Section : \A w \in Words(Section[k]) :
    /\ CallSeen(k, w)
    /\ code[w].op = "bl" /\ code[w].to \in Words(Section[k])
    => code[w].to \in Bases

(* The words that were swept.                                              *)
WordSwept(k, w) ==
  section > k \/ phase = "done" \/ (section = k /\ phase = "sweep" /\ w < at)

SweptSoFar ==
  \A k \in DOMAIN Section : \A w \in Words(Section[k]) : WordSwept(k, w) => w \in Covered

(* Behind the section all of its words were passed.                        *)
LEMMA SectionLeft ==
  ASSUME Types, Position, ~InSection(at)
  PROVE  \A w \in Words(Section[section]) : w < at
BY SectionWords DEF Types, Position, InSection, Words

LEMMA LastSection ==
  ASSUME Types
  PROVE  /\ section \in Nat
         /\ \A k \in DOMAIN Section : k \in Nat \ {0} /\ k <= Len(Section)
         /\ section # Len(Section) => section + 1 \in DOMAIN Section
<1>1. Section \in Seq([first : Nat, last : Nat])
  BY ImageAssumption
<1>2. Len(Section) \in Nat /\ DOMAIN Section = 1 .. Len(Section)
  BY <1>1, LenProperties
<1>3. section \in 1 .. Len(Section)
  BY <1>2 DEF Types
<1>4. \A n \in Nat : \A k \in 1 .. n :
        k \in Nat \ {0} /\ k <= n /\ (k # n => k + 1 \in 1 .. n)
  OBVIOUS
<1> QED
  BY <1>2, <1>3, <1>4

(* How far a step of the sweep goes, and what it covers.                   *)
LEMMA SweepStep ==
  ASSUME Types, SweepInvalid \/ SweepKnown \/ SweepUnknown
  PROVE  /\ at' >= at
         /\ at .. at' - 1 \subseteq Covered'
<1>1. CASE SweepInvalid
  <2>1. at \in Image
    BY <1>1, SectionWords DEF SweepInvalid, InSection, Types
  <2>2. code[at] \in Instruction /\ code[at].op = "skip"
    BY <1>1, <2>1 DEF SweepInvalid, Invalid, Types
  <2>3. code[at].words \in Nat /\ at \in Nat /\ at' = at + code[at].words
    BY <1>1, <2>2, ImageAssumption DEF SweepInvalid, Types
  <2>4. at' >= at
    BY ONLY <2>3
  <2> QED
    BY <1>1, <2>4 DEF SweepInvalid, Covered
<1>2. CASE SweepKnown
  <2>1. PICK i \in Found(at) : at' = at + symbols[i].size
    BY <1>2 DEF SweepKnown, LastFound
  <2>2. i \in DOMAIN symbols /\ symbols[i].base = at /\ symbols[i].size \in Nat /\ at \in Nat
    <3>1. i \in DOMAIN symbols /\ symbols[i].base = at
      BY <2>1 DEF Found
    <3>2. symbols[i] \in FunctionType
      BY <3>1, ElementOfSeq, LenProperties DEF Types
    <3> QED
      BY <3>1, <3>2 DEF FunctionType, Types
  <2>3. at' >= at
    BY ONLY <2>1, <2>2
  <2>4. at .. at' - 1 \subseteq Covered
    BY <2>1, <2>2 DEF Covered
  <2>5. symbols' = symbols /\ skipped' = skipped
    BY <1>2 DEF SweepKnown, AddNothing
  <2> QED
    BY <2>3, <2>4, <2>5 DEF Covered
<1>3. CASE SweepUnknown
  <2>1. PICK f \in Analyzed(at) : Add(f) /\ at' = at + f.size
    BY <1>3 DEF SweepUnknown
  <2>2. f \in FunctionType /\ f.base = at /\ f.size \in Nat /\ at \in Nat
    BY <2>1, FunctionsTyped DEF Types, Analyzed, FunctionType
  <2>3. at' >= at
    BY ONLY <2>1, <2>2
  <2> QED
    BY <2>1, <2>2, <2>3, AddedCovered
<1> QED
  BY <1>1, <1>2, <1>3

Sweep == SweepInvalid \/ SweepKnown \/ SweepUnknown

(* What a step adds to the calls that were seen and to the words that were *)
(* swept.                                                                  *)
LEMMA StepReach ==
  ASSUME Types, Position, [Next]_vars
  PROVE  /\ Position' /\ code' = code /\ skipped \subseteq skipped'
         /\ \A k \in DOMAIN Section : \A w \in Words(Section[k]) :
              /\ CallSeen(k, w)' => CallSeen(k, w) \/ (ScanCall /\ k = section /\ w = at)
              /\ WordSwept(k, w)' => WordSwept(k, w) \/ (Sweep /\ w \in at .. at' - 1)
<1> USE DEF CallSeen, WordSwept, Passed
<1>0. /\ section \in Nat /\ at \in Nat /\ Len(Section) \in Nat
      /\ \A k \in DOMAIN Section : k \in Nat \ {0} /\ k <= Len(Section)
      /\ \A k \in DOMAIN Section :
           /\ Section[k].first \in Nat /\ Section[k].last \in Nat
           /\ \A w \in Words(Section[k]) : w \in Nat /\ w >= Section[k].first
  BY LastSection, SectionWords DEF Types, Words
<1>1. CASE TakeConfigured \/ ReadUnwind \/ UNCHANGED vars
  BY <1>1 DEF TakeConfigured, ReadUnwind, vars, Position
<1>2. CASE ConfigDone
  BY <1>0, <1>2 DEF ConfigDone, Position
<1>3. CASE UnwindDone
  BY <1>0, <1>3 DEF UnwindDone, Position
<1>4. CASE ScanCall
  <2>1. /\ phase = "calls" /\ UNCHANGED <<code, phase, section, skipped>>
        /\ at' = at + 1
    BY <1>4 DEF ScanCall
  <2>2. /\ at' >= Section[section].first
        /\ \A w \in Nat : w < at' => w < at \/ w = at
    <3>1. at >= Section[section].first /\ Section[section].first \in Nat
      BY <1>0 DEF Position, Types
    <3> QED
      BY ONLY <1>0, <2>1, <3>1
  <2> QED
    BY <1>0, <1>4, <2>1, <2>2 DEF Position
<1>5. CASE CallsDone
  <2>1. /\ phase = "calls" /\ phase' = "sweep" /\ ~InSection(at)
        /\ UNCHANGED <<code, section, skipped>> /\ at' = Section[section].first
    BY <1>5 DEF CallsDone
  <2>2. /\ at' >= Section[section].first
        /\ \A w \in Words(Section[section]) : w < at /\ ~(w < at')
    <3>1. \A w \in Words(Section[section]) : w \in Nat /\ w >= Section[section].first
      BY <1>0 DEF Types
    <3>2. Section[section].first \in Nat
      BY <1>0 DEF Types
    <3>3. /\ at' >= Section[section].first
          /\ \A w \in Words(Section[section]) : ~(w < at')
      BY ONLY <2>1, <3>1, <3>2
    <3> QED
      BY <2>1, <3>3, SectionLeft
  <2> QED
    BY <1>0, <2>1, <2>2 DEF Position
<1>6. CASE Sweep
  <2>1. at' >= at /\ at' \in Nat
    BY <1>6, SweepStep, StepTypes DEF Types, Sweep
  <2>2. /\ phase = "sweep" /\ UNCHANGED <<code, phase, section>> /\ skipped \subseteq skipped'
    BY <1>6 DEF Sweep, SweepInvalid, SweepKnown, SweepUnknown
  <2>3. \A w \in Nat : w < at' => w < at \/ w \in at .. at' - 1
    <3>1. \A a, b, w \in Nat : w < b => w < a \/ w \in a .. b - 1
      OBVIOUS
    <3> QED
      BY <1>0, <2>1, <3>1
  <2>4. at' >= Section[section].first
    <3>1. at >= Section[section].first /\ Section[section].first \in Nat
      BY <1>0 DEF Position, Types
    <3> QED
      BY ONLY <1>0, <2>1, <3>1
  <2> QED
    BY <1>0, <1>6, <2>2, <2>3, <2>4 DEF Position
<1>7. CASE SectionDone /\ section = Len(Section)
  BY <1>0, <1>7, SectionLeft DEF SectionDone, Position
<1>8. CASE SectionDone /\ section # Len(Section)
  <2>1. section + 1 \in DOMAIN Section
    BY <1>8, LastSection
  <2>2. /\ phase = "sweep" /\ phase' = "calls" /\ section' = section + 1
        /\ at' = Section[section'].first /\ UNCHANGED <<code, skipped>>
    BY <1>8 DEF SectionDone
  <2> QED
    BY <1>0, <1>8, <2>1, <2>2, SectionLeft DEF Position, SectionDone
<1> QED
  BY <1>1, <1>2, <1>3, <1>4, <1>5, <1>6, <1>7, <1>8 DEF Next, Sweep

LEMMA CallsStep ==
  ASSUME Types, Position, CallsSoFar, [Next]_vars
  PROVE  CallsSoFar'
<1> SUFFICES ASSUME NEW k \in DOMAIN Section, NEW w \in Words(Section[k]), CallSeen(k, w)',
                    code[w].op = "bl", code[w].to \in Words(Section[k])
             PROVE  code[w].to \in Bases'
  BY StepReach DEF CallsSoFar
<1>1. Bases \subseteq Bases'
  BY StepTypes, KnownStays
<1>2. CASE CallSeen(k, w)
  BY <1>1, <1>2 DEF CallsSoFar
<1>3. CASE ScanCall /\ k = section /\ w = at
  <2>1. CASE Known(code[at].to)
    BY <1>1, <1>3, <2>1, KnownBases
  <2>2. CASE ~Known(code[at].to)
    <3>1. PICK f \in Analyzed(code[at].to) : Add(f)
      BY <1>3, <2>2 DEF ScanCall, InSection
    <3>2. code[at].to \in Nat
      BY <1>3, SectionWords DEF Types
    <3>3. f \in FunctionType /\ f.size > 0 /\ f.base = code[at].to
      BY <3>1, <3>2, FunctionsTyped, ImageAssumption DEF Analyzed
    <3> QED
      BY <1>3, <3>1, <3>3, AddedKnown
  <2> QED
    BY <2>1, <2>2
<1> QED
  BY <1>2, <1>3, StepReach

(* A bl within its section is printed as a call of a function that is      *)
(* known, whatever the section holds.                                      *)
THEOREM CallsResolve == Spec => []LocalCallsResolve
<1>1. Init => Position
  BY SectionWords DEF Init, Position
<1>2. Init => CallsSoFar
  BY SectionWords, LastSection, InitTypes DEF Init, CallsSoFar, CallSeen, Passed, Words
<1>3. Types /\ Position /\ CallsSoFar /\ [Next]_vars => (Types /\ Position /\ CallsSoFar)'
  BY StepTypes, StepReach, CallsStep
<1>4. CallsSoFar => LocalCallsResolve
  BY KnownBases DEF CallsSoFar, CallSeen, LocalCallsResolve
<1> QED
  BY InitTypes, <1>1, <1>2, <1>3, <1>4, PTL DEF Spec

LEMMA SweptStep ==
  ASSUME Types, Position, SweptSoFar, [Next]_vars
  PROVE  SweptSoFar'
<1> SUFFICES ASSUME NEW k \in DOMAIN Section, NEW w \in Words(Section[k]), WordSwept(k, w)'
             PROVE  w \in Covered'
  BY DEF SweptSoFar
<1>1. CASE WordSwept(k, w)
  BY <1>1, StepTypes, StepReach, CoveredStays DEF SweptSoFar
<1>2. CASE Sweep /\ w \in at .. at' - 1
  BY <1>2, SweepStep DEF Sweep
<1> QED
  BY <1>1, <1>2, StepReach

(* No word of a swept section is left out of the generated code, except    *)
(* those skipped as invalid.                                               *)
THEOREM NothingLeftOut == Spec => []SweepCovers
<1>1. Init => Position
  BY SectionWords DEF Init, Position
<1>2. Init => SweptSoFar
  BY SectionWords, LastSection, InitTypes DEF Init, SweptSoFar, WordSwept, Words
<1>3. Types /\ Position /\ SweptSoFar /\ [Next]_vars => (Types /\ Position /\ SweptSoFar)'
  BY StepTypes, StepReach, SweptStep
<1>4. SweptSoFar => SweepCovers
  BY DEF SweptSoFar, WordSwept, SweepCovers
<1> QED
  BY InitTypes, <1>1, <1>2, <1>3, <1>4, PTL DEF Spec
===============================================================================
