-------------------------- MODULE FunctionDiscovery --------------------------
(***************************************************************************)
(* Recompiler::Analyse of XenonRecomp/recompiler.cpp: which functions does *)
(* the image hold?                                                         *)
(*                                                                         *)
(* Functions come from the configuration (the save and restore helpers and *)
(* the [functions] table), from .pdata, from the targets of bl, and from a *)
(* sweep that takes whatever is left between them.  Each source skips what *)
(* SymbolTable::find already knows.  What Function::Analyze answers is any *)
(* positive size here; FunctionAnalyze is about the size itself.           *)
(*                                                                         *)
(* Addresses are words; the image is a row of code sections.               *)
(***************************************************************************)
EXTENDS Integers, Sequences

CONSTANTS
  Section,     \* the code sections: a sequence of [first, last] words
  Instruction, \* what a word can be: [op |-> "bl", to |-> w],
               \* [op |-> "skip", words |-> n] (invalid_instructions), "plain"
  Configured,  \* configured functions that there may be: [base, size]
  Unwind,      \* .pdata entries that there may be: [base, size]
  Import,      \* the import thunks that the loader has put in the symbols
  MaxSize      \* bound: words in a function that the analyzer finds

Words(section) == section.first .. section.last
Image == UNION {Words(Section[k]) : k \in DOMAIN Section}

ASSUME ImageAssumption ==
  /\ MaxSize \in Nat \ {0}
  /\ Section \in Seq([first : Nat, last : Nat]) /\ Section # <<>>
  /\ Configured \subseteq [base : Image, size : Nat \ {0}]
  /\ \A f, g \in Configured : f.base = g.base => f = g
  /\ Unwind \subseteq [base : Image, size : Nat]
  /\ Import \in Seq([base : Image, size : Nat \ {0}])
  /\ \A i \in Instruction :
       /\ i.op = "bl" => i.to \in Nat
       /\ i.op = "skip" => i.words \in Nat \ {0}

VARIABLES
  code,       \* the image's words
  configured, \* configured functions still to take
  unwind,     \* .pdata entries still to read
  symbols,    \* image.symbols, in the order of insertion
  functions,  \* Recompiler::functions, in that order
  phase,      \* "config", "pdata", "calls", "sweep", "done"
  section,    \* the section of "calls" and "sweep"
  at,         \* the word they have come to
  skipped     \* the words the sweep skipped as invalid

vars == <<code, configured, unwind, symbols, functions, phase, section, at, skipped>>

-----------------------------------------------------------------------------
Init ==
  /\ code \in [Image -> Instruction]
  /\ configured \in SUBSET Configured
  /\ unwind \in SUBSET Unwind
  /\ symbols = Import
  /\ functions = <<>>
  /\ phase = "config"
  /\ section = 1
  /\ at = Section[1].first
  /\ skipped = {}

(* Variant: empty symbols are found too.                                   *)
Found_Empty(a) == {i \in DOMAIN symbols : symbols[i].base = a}

(* Variant: a symbol is found at every address it covers.                  *)
Found_Covering(a) ==
  {i \in DOMAIN symbols : a \in symbols[i].base .. symbols[i].base + symbols[i].size - 1}

(* SymbolTable::find(a): equal_range yields only the symbols that start    *)
(* at a, and of those only the ones that are not empty hold it.            *)
Found(a) == {i \in DOMAIN symbols : symbols[i].base = a /\ symbols[i].size > 0}

Known(a) == Found(a) # {}

(* Of several symbols the last one wins.                                   *)
LastFound(a) == {i \in Found(a) : \A j \in Found(a) : j <= i}

Add(f) ==
  /\ functions' = Append(functions, f)
  /\ symbols' = Append(symbols, f)

AddNothing == UNCHANGED <<functions, symbols>>

(* The helpers and config.functions, in no particular order.               *)
TakeConfigured ==
  /\ phase = "config"
  /\ \E f \in configured : Add(f) /\ configured' = configured \ {f}
  /\ UNCHANGED <<code, unwind, phase, section, at, skipped>>

ConfigDone ==
  /\ phase = "config" /\ configured = {}
  /\ phase' = "pdata"
  /\ AddNothing
  /\ UNCHANGED <<code, configured, unwind, section, at, skipped>>

(* Variant: an entry is taken without a look at the symbols.               *)
ReadUnwind_Always ==
  /\ phase = "pdata"
  /\ \E f \in unwind : Add(f) /\ unwind' = unwind \ {f}
  /\ UNCHANGED <<code, configured, phase, section, at, skipped>>

(* The .pdata entries, of which those that are known are skipped.          *)
ReadUnwind ==
  /\ phase = "pdata"
  /\ \E f \in unwind :
       /\ IF Known(f.base) THEN AddNothing ELSE Add(f)
       /\ unwind' = unwind \ {f}
  /\ UNCHANGED <<code, configured, phase, section, at, skipped>>

UnwindDone ==
  /\ phase = "pdata" /\ unwind = {}
  /\ phase' = "calls"
  /\ AddNothing
  /\ UNCHANGED <<code, configured, unwind, section, at, skipped>>

InSection(a) == a \in Words(Section[section])

(* A function that Function::Analyze finds at a.                           *)
Analyzed(a) == [base : {a}, size : 1 .. MaxSize]

(* Variant: the targets in this section are not looked for.                *)
ScanCall_Skip ==
  /\ phase = "calls" /\ InSection(at)
  /\ AddNothing
  /\ at' = at + 1
  /\ UNCHANGED <<code, configured, unwind, phase, section, skipped>>

(* One word of the search for bl.                                          *)
ScanCall ==
  /\ phase = "calls" /\ InSection(at)
  /\ LET w == code[at]
     IN IF w.op = "bl" /\ InSection(w.to) /\ ~Known(w.to)
        THEN \E f \in Analyzed(w.to) : Add(f)
        ELSE AddNothing
  /\ at' = at + 1
  /\ UNCHANGED <<code, configured, unwind, phase, section, skipped>>

CallsDone ==
  /\ phase = "calls" /\ ~InSection(at)
  /\ phase' = "sweep"
  /\ at' = Section[section].first
  /\ AddNothing
  /\ UNCHANGED <<code, configured, unwind, section, skipped>>

Invalid(a) == code[a].op = "skip"

(* The sweep skips an invalid instruction and what follows it.             *)
SweepInvalid ==
  /\ phase = "sweep" /\ InSection(at) /\ Invalid(at)
  /\ at' = at + code[at].words
  /\ skipped' = skipped \cup at .. at' - 1
  /\ AddNothing
  /\ UNCHANGED <<code, configured, unwind, phase, section>>

(* It skips a function that is known,                                      *)
SweepKnown ==
  /\ phase = "sweep" /\ InSection(at) /\ ~Invalid(at) /\ Known(at)
  /\ \E i \in LastFound(at) : at' = at + symbols[i].size
  /\ AddNothing
  /\ UNCHANGED <<code, configured, unwind, phase, section, skipped>>

(* Variant: the sweep goes on at the next word.                            *)
SweepUnknown_Step ==
  /\ phase = "sweep" /\ InSection(at) /\ ~Invalid(at) /\ ~Known(at)
  /\ at' = at + MaxSize
  /\ \E f \in Analyzed(at) : Add(f)
  /\ UNCHANGED <<code, configured, unwind, phase, section, skipped>>

(* and takes what is not for a new one.                                    *)
SweepUnknown ==
  /\ phase = "sweep" /\ InSection(at) /\ ~Invalid(at) /\ ~Known(at)
  /\ \E f \in Analyzed(at) : Add(f) /\ at' = at + f.size
  /\ UNCHANGED <<code, configured, unwind, phase, section, skipped>>

(* The next section, or the end, where the functions are sorted by base.   *)
SectionDone ==
  /\ phase = "sweep" /\ ~InSection(at)
  /\ IF section = Len(Section)
     THEN phase' = "done" /\ UNCHANGED <<section, at>>
     ELSE /\ section' = section + 1
          /\ phase' = "calls"
          /\ at' = Section[section + 1].first
  /\ AddNothing
  /\ UNCHANGED <<code, configured, unwind, skipped>>

Next ==
  \/ TakeConfigured \/ ConfigDone \/ ReadUnwind \/ UnwindDone \/ ScanCall \/ CallsDone
  \/ SweepInvalid \/ SweepKnown \/ SweepUnknown \/ SectionDone

Spec == Init /\ [][Next]_vars

FairSpec == Spec /\ WF_vars(Next)

-----------------------------------------------------------------------------
(* Types and properties *)

FunctionType == [base : Nat, size : Nat]

TypeOK ==
  /\ code \in [Image -> Instruction]
  /\ configured \subseteq Configured
  /\ unwind \subseteq Unwind
  /\ symbols \in Seq(FunctionType)
  /\ functions \in Seq(FunctionType)
  /\ phase \in {"config", "pdata", "calls", "sweep", "done"}
  /\ section \in DOMAIN Section
  /\ at \in Nat
  /\ skipped \subseteq Nat

(* No function is emitted twice, which the generated code could not bear:  *)
(* two functions of one base have one name.  An empty .pdata entry is not  *)
(* found again and does lead to a second function, but only to one.        *)
UniqueBases ==
  \A i, j \in DOMAIN functions :
    /\ functions[i].base = functions[j].base
    /\ functions[i].size > 0 /\ functions[j].size > 0
    => i = j

(* A bl to the caller's own section finds its callee in the symbols when   *)
(* the code is printed, so that printFunctionCall prints a call and not    *)
(* an error comment.                                                       *)
Passed(k) == section > k \/ (section = k /\ phase \in {"sweep", "done"})

LocalCallsResolve ==
  \A k \in DOMAIN Section : Passed(k) =>
    \A w \in Words(Section[k]) :
      code[w].op = "bl" /\ code[w].to \in Words(Section[k]) => Known(code[w].to)

Covered ==
  skipped \cup UNION {symbols[i].base .. symbols[i].base + symbols[i].size - 1 : i \in DOMAIN symbols}

(* Every word of a section that was swept is in a function, in an import   *)
(* thunk or skipped as invalid.                                            *)
SweepCovers ==
  \A k \in DOMAIN Section :
    (section > k \/ phase = "done") => Words(Section[k]) \subseteq Covered

(* The analysis ends, empty .pdata entries or not.                         *)
Terminates == <>(phase = "done")
===============================================================================
