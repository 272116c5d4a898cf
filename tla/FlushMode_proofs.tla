--------------------------- MODULE FlushMode_proofs ---------------------------
(***************************************************************************)
(* Proofs about FlushMode, for functions of every length.                  *)
(*                                                                         *)
(* Translation and execution are tied by csrState: the invariant says that *)
(* each line was printed in the state its predecessor leaves, or in        *)
(* Unknown where a label stands, and that whenever the printed code comes  *)
(* to a line the host's mode is the one recorded for it.                   *)
(***************************************************************************)
EXTENDS FlushMode, TLAPS

(* The host is in the mode that a state claims.                            *)
Fits(state, register) ==
  /\ state = "FPU" => ~register.flush
  /\ state = "VMX" => register.flush

LinePrinted(i) ==
  /\ i \in Labels \/ i = 1 => csrState[i] = "Unknown"
  /\ i \notin Labels /\ i # 1 =>
       csrState[i] = StateAfter(function[i - 1].op, csrState[i - 1])
  /\ printed[i] = Printed(function[i].op, csrState[i])

LinesPrinted == \A i \in Line : i < base => LinePrinted(i)

CsrFollows ==
  IF base = 1 THEN csr = "Unknown"
  ELSE csr = StateAfter(function[base - 1].op, csrState[base - 1])

NotStarted == base # Size + 1 => pc = 1

StateFits == base = Size + 1 /\ pc \in Line => Fits(csrState[pc], host)

Inv ==
  /\ LinesPrinted
  /\ CsrFollows
  /\ NotStarted
  /\ StateFits
  /\ CacheFits

(* Lines are natural numbers, and the line after one is a line or the end. *)
LEMMA LineArithmetic ==
  ASSUME NEW i \in Line
  PROVE  /\ i \in Int
         /\ i + 1 \in 1 .. Size + 1
         /\ i + 1 # 1
         /\ i \in 1 .. Size + 1
         /\ i # Size + 1
         /\ (i + 1) - 1 = i
BY FunctionAssumption DEF Line

LEMMA StateAfterType ==
  ASSUME NEW op, NEW state \in CSRState
  PROVE  StateAfter(op, state) \in CSRState
BY DEF StateAfter, CSRState

LEMMA PrintedType ==
  ASSUME NEW op, NEW state
  PROVE  Printed(op, state) \in Switch
BY DEF Printed, SetFlushMode, Switch

LEMMA TypeInit == Init => TypeOK
<1> SUFFICES ASSUME Init PROVE TypeOK
  OBVIOUS
<1>1. 1 \in 1 .. Size + 1
  BY FunctionAssumption
<1>2. ctx \in Csr
  BY DEF Init
<1>3. host \in Csr /\ guestRound \in Rounding
  BY <1>2 DEF Init, Csr
<1> QED
  BY <1>1, <1>2, <1>3, FunctionAssumption DEF Init, TypeOK, Switch, CSRState, EntryState

LEMMA SwitchModeType ==
  ASSUME NEW text, SwitchMode(text), ctx \in Csr, host \in Csr, CacheFits
  PROVE  /\ ctx' \in Csr
         /\ host' = ctx'
         /\ ctx'.round = ctx.round
BY DEF SwitchMode, Csr, CacheFits

LEMMA TypeNext ==
  ASSUME TypeOK, CacheFits, [Next]_vars
  PROVE  TypeOK'
<1> USE DEF TypeOK
<1>1. CASE Translate
  <2>1. /\ StateAt(base) \in CSRState
        /\ base \in Line
    BY <1>1 DEF Translate, StateAt, CSRState
  <2>2. base + 1 \in 1 .. Size + 1
    BY <2>1, LineArithmetic
  <2>3. csr' \in CSRState
    BY <1>1, <2>1, StateAfterType DEF Translate
  <2>4. printed' \in [Line -> Switch]
    BY <1>1, <2>1, PrintedType DEF Translate
  <2>5. csrState' \in [Line -> CSRState]
    BY <1>1, <2>1 DEF Translate
  <2> QED
    BY <1>1, <2>2, <2>3, <2>4, <2>5 DEF Translate
<1>2. ASSUME pc \in Line, pc' = pc + 1
      PROVE  pc' \in 1 .. Size + 1
  BY <1>2, LineArithmetic
<1>3. CASE Float
  BY <1>2, <1>3, SwitchModeType DEF Float, At, Continue
<1>4. CASE Other
  BY <1>2, <1>4 DEF Other, At, Continue
<1>5. CASE Mffs
  BY <1>2, <1>5 DEF Mffs, At, Continue
<1>6. CASE Mtfsf
  <2>1. ctx' \in Csr /\ host' \in Csr /\ guestRound' \in Rounding
    BY <1>6 DEF Mtfsf, Csr
  <2> QED
    BY <1>2, <1>6, <2>1 DEF Mtfsf, At, Continue
<1>7. CASE Call
  <2>1. ctx' \in Csr /\ host' \in Csr /\ guestRound' \in Rounding
    BY <1>7 DEF Call, Csr
  <2> QED
    BY <1>2, <1>7, <2>1 DEF Call, At, Continue
<1>8. CASE Jump \/ Branch
  <2>1. PICK l : Leave(l)
    BY <1>8 DEF Jump, Branch
  <2>2. pc' \in 1 .. Size + 1
    BY <2>1, LineArithmetic, FunctionAssumption DEF Leave
  <2> QED
    BY <2>1, <2>2 DEF Leave
<1>9. CASE UNCHANGED vars
  BY <1>9 DEF vars
<1> QED
  BY <1>1, <1>3, <1>4, <1>5, <1>6, <1>7, <1>8, <1>9 DEF Next

LEMMA InvInit == Init => Inv
<1> SUFFICES ASSUME Init PROVE Inv
  OBVIOUS
<1> USE DEF Init, EntryState
<1>1. LinesPrinted
  <2>1. base = 1
    OBVIOUS
  <2>2. ASSUME NEW i \in Line PROVE ~(i < 1)
    BY ONLY <2>2, FunctionAssumption DEF Line
  <2> QED
    BY ONLY <2>1, <2>2 DEF LinesPrinted
<1>2. CsrFollows /\ NotStarted /\ CacheFits
  BY DEF CsrFollows, NotStarted, CacheFits
<1>3. StateFits
  <2> SUFFICES ASSUME pc \in Line PROVE Fits(csrState[pc], host)
    BY DEF StateFits
  <2>1. csrState[pc] = "Unknown"
    OBVIOUS
  <2> QED
    BY <2>1 DEF Fits
<1> QED
  BY <1>1, <1>2, <1>3 DEF Inv

(* A turn of the translation prints one more line, in the state the line   *)
(* before it leaves.                                                       *)
LEMMA TranslateKeeps ==
  ASSUME TypeOK, Inv, Translate
  PROVE  Inv'
<1> USE DEF Inv, Translate
<1>1. /\ base \in Line /\ base \in Int
      /\ base' = base + 1 /\ base' # 1 /\ base' - 1 = base
      /\ pc = 1
  BY LineArithmetic DEF NotStarted
<1>2. Labels' = Labels
  BY DEF Labels
<1>3. csrState'[base] = StateAt(base) /\ printed'[base] = Printed(function[base].op, StateAt(base))
  BY <1>1 DEF TypeOK
<1>4. \A i \in Line : i # base => csrState'[i] = csrState[i] /\ printed'[i] = printed[i]
  BY DEF TypeOK
<1>5. LinesPrinted'
  <2> SUFFICES ASSUME NEW i \in Line, i < base'
               PROVE  LinePrinted(i)'
    BY DEF LinesPrinted
  <2>0. i \in Int /\ (i # 1 => i - 1 \in Line)
    BY FunctionAssumption DEF Line
  <2>1. CASE i = base
    <3>1. i \notin Labels /\ i # 1 =>
            csrState'[i] = StateAfter(function[i - 1].op, csrState'[i - 1])
      BY <1>1, <1>3, <1>4, <2>0, <2>1 DEF CsrFollows, StateAt
    <3>2. i \in Labels \/ i = 1 => csrState'[i] = "Unknown"
      BY <1>1, <1>3, <2>1 DEF CsrFollows, StateAt
    <3> QED
      BY <1>2, <1>3, <2>1, <3>1, <3>2 DEF LinePrinted
  <2>2. CASE i # base
    <3>1. i < base /\ i - 1 # base
      BY <1>1, <2>0, <2>2
    <3>2. LinePrinted(i)
      BY <3>1 DEF LinesPrinted
    <3> QED
      BY <1>2, <1>4, <2>0, <2>2, <3>1, <3>2 DEF LinePrinted
  <2> QED
    BY <2>1, <2>2
<1>6. CsrFollows'
  BY <1>1, <1>3 DEF CsrFollows
<1>7. LinePrinted(1)'
  BY <1>1, <1>5, FunctionAssumption DEF LinesPrinted, Line
<1>8. NotStarted' /\ CacheFits'
  BY <1>1 DEF NotStarted, CacheFits
<1>9. StateFits'
  BY <1>1, <1>7 DEF StateFits, LinePrinted, Fits
<1> QED
  BY <1>5, <1>6, <1>8, <1>9

(* Execution does not touch what was printed.                              *)
LEMMA PrintedStays ==
  ASSUME Inv, UNCHANGED <<function, base, csrState, csr, printed>>
  PROVE  LinesPrinted' /\ CsrFollows'
BY DEF Inv, LinesPrinted, LinePrinted, CsrFollows, Labels

(* Going on to the next line: its recorded state fits when the state the   *)
(* executed line leaves does.                                              *)
LEMMA ContinueFits ==
  ASSUME TypeOK, Inv, base = Size + 1, pc \in Line, Continue,
         Fits(StateAfter(function[pc].op, csrState[pc]), host')
  PROVE  NotStarted' /\ StateFits'
<1>1. base' = Size + 1 /\ pc' = pc + 1 /\ (pc + 1) - 1 = pc /\ pc + 1 # 1
  BY LineArithmetic DEF Continue
<1>2. csrState' = csrState
  BY DEF Continue
<1>3. ASSUME pc + 1 \in Line
      PROVE  Fits(csrState[pc + 1], host')
  <2>1. pc + 1 < base
    BY <1>3, FunctionAssumption DEF Line
  <2>2. LinePrinted(pc + 1)
    BY <1>3, <2>1 DEF Inv, LinesPrinted
  <2> QED
    BY <1>1, <2>2 DEF LinePrinted, Fits
<1> QED
  BY <1>1, <1>2, <1>3 DEF NotStarted, StateFits

(* A branch leads to a label, where nothing is claimed, to the next line,  *)
(* or out of the function.                                                 *)
LEMMA LeaveFits ==
  ASSUME TypeOK, Inv, base = Size + 1, pc \in Line, NEW l, Leave(l),
         \/ l \in function[pc].to
         \/ l = pc + 1 /\ function[pc].op = "branch"
  PROVE  NotStarted' /\ StateFits'
<1>1. base' = Size + 1 /\ csrState' = csrState /\ host' = host
  BY DEF Leave
<1>2. CASE l \notin Line
  <2>1. pc' \notin Line
    BY <1>2, FunctionAssumption DEF Leave, Line
  <2> QED
    BY <1>1, <2>1 DEF NotStarted, StateFits
<1>3. CASE l \in Line
  <2>1. pc' = l /\ l < base /\ l \in Int
    BY <1>3, FunctionAssumption DEF Leave, Line
  <2>2. LinePrinted(l)
    BY <1>3, <2>1 DEF Inv, LinesPrinted
  <2>3. CASE l \in Labels
    BY <1>1, <2>1, <2>2, <2>3 DEF LinePrinted, NotStarted, StateFits, Fits
  <2>4. CASE l \notin Labels
    <3>1. l = pc + 1 /\ function[pc].op = "branch"
      BY <2>4 DEF Labels
    <3>2. l # 1 /\ l - 1 = pc
      BY <3>1, LineArithmetic
    <3>3. csrState[l] = csrState[pc]
      BY <2>2, <2>4, <3>1, <3>2 DEF LinePrinted, StateAfter
    <3> QED
      BY <1>1, <2>1, <3>3 DEF Inv, NotStarted, StateFits
  <2> QED
    BY <2>3, <2>4
<1> QED
  BY <1>2, <1>3

(* The switch before a floating-point instruction leaves the host in the   *)
(* instruction's mode, whatever was known.                                 *)
LEMMA SwitchFits ==
  ASSUME TypeOK, Inv, Float
  PROVE  /\ Fits(StateAfter(function[pc].op, csrState[pc]), host')
         /\ At("fpu") => ~host'.flush
         /\ At("vmx") => host'.flush
<1>1. base = Size + 1 /\ pc \in Line /\ pc < base
  BY FunctionAssumption DEF Float, At, Line
<1>2. Fits(csrState[pc], host) /\ printed[pc] = Printed(function[pc].op, csrState[pc])
  BY <1>1 DEF Inv, StateFits, LinesPrinted, LinePrinted
<1>3. ctx = host /\ SwitchMode(printed[pc]) /\ host \in Csr /\ csrState[pc] \in CSRState
  BY <1>1 DEF Inv, CacheFits, Float, TypeOK
<1>4. CASE function[pc].op = "fpu"
  <2>1. ~host'.flush
    BY <1>2, <1>3, <1>4
       DEF Printed, SetFlushMode, SwitchMode, Enables, Disables, Fits, Csr, CSRState
  <2> QED
    BY <1>4, <2>1 DEF StateAfter, Fits, At
<1>5. CASE function[pc].op = "vmx"
  <2>1. host'.flush
    BY <1>2, <1>3, <1>5
       DEF Printed, SetFlushMode, SwitchMode, Enables, Disables, Fits, Csr, CSRState
  <2> QED
    BY <1>5, <2>1 DEF StateAfter, Fits, At
<1> QED
  BY <1>4, <1>5 DEF Float, At

(* Every step keeps the invariant: the switches are right, the cache is    *)
(* written with the host, and the translation knows no more than is so.    *)
LEMMA InvNext ==
  ASSUME TypeOK, Inv, [Next]_vars
  PROVE  Inv'
<1>1. CASE Translate
  BY <1>1, TranslateKeeps
<1>2. ASSUME NEW op, At(op), Continue, CacheFits',
             Fits(StateAfter(function[pc].op, csrState[pc]), host')
      PROVE  Inv'
  <2>1. NotStarted' /\ StateFits'
    BY <1>2, ContinueFits DEF At
  <2>2. LinesPrinted' /\ CsrFollows'
    BY <1>2, PrintedStays DEF Continue
  <2> QED
    BY <1>2, <2>1, <2>2 DEF Inv
<1>3. ASSUME NEW op, At(op), op \in {"int", "mffs", "mtfsf", "call"},
             op = "call" \/ host'.flush = host.flush
      PROVE  Fits(StateAfter(function[pc].op, csrState[pc]), host')
  BY <1>3 DEF At, StateAfter, Fits, Inv, StateFits
<1>4. CASE Float
  <2>1. CacheFits'
    BY <1>4 DEF Float, SwitchMode, Inv, CacheFits
  <2> QED
    BY <1>2, <1>4, <2>1, SwitchFits DEF Float
<1>5. CASE Other
  <2>1. CacheFits' /\ At("int") /\ Continue /\ host' = host
    BY <1>5 DEF Other, Inv, CacheFits
  <2> QED
    BY <1>2, <1>3, <2>1
<1>6. CASE Mffs
  <2>1. CacheFits' /\ At("mffs") /\ Continue /\ host' = host
    BY <1>6 DEF Mffs, Inv, CacheFits
  <2> QED
    BY <1>2, <1>3, <2>1
<1>7. CASE Mtfsf
  <2>1. CacheFits' /\ At("mtfsf") /\ Continue /\ host'.flush = host.flush
    BY <1>7 DEF Mtfsf, Inv, CacheFits, TypeOK, Csr
  <2> QED
    BY <1>2, <1>3, <2>1
<1>8. CASE Call
  <2>1. CacheFits' /\ At("call") /\ Continue
    BY <1>8 DEF Call, CacheFits
  <2> QED
    BY <1>2, <1>3, <2>1
<1>9. ASSUME base = Size + 1, pc \in Line, NEW l, Leave(l),
             \/ l \in function[pc].to
             \/ l = pc + 1 /\ function[pc].op = "branch"
      PROVE  Inv'
  <2>1. NotStarted' /\ StateFits'
    BY <1>9, LeaveFits
  <2>2. LinesPrinted' /\ CsrFollows' /\ CacheFits'
    BY <1>9, PrintedStays DEF Leave, Inv, CacheFits
  <2> QED
    BY <2>1, <2>2 DEF Inv
<1>10. CASE Jump
  BY <1>9, <1>10 DEF Jump, At
<1>11. CASE Branch
  BY <1>9, <1>11 DEF Branch, At
<1>12. CASE UNCHANGED vars
  BY <1>12
     DEF vars, Inv, LinesPrinted, LinePrinted, CsrFollows, NotStarted, StateFits,
         CacheFits, Labels, Fits
<1> QED
  BY <1>1, <1>4, <1>5, <1>6, <1>7, <1>8, <1>10, <1>11, <1>12 DEF Next

LEMMA FlushInvariant == Spec => [](TypeOK /\ Inv)
<1>1. Init => TypeOK /\ Inv
  BY TypeInit, InvInit
<1>2. TypeOK /\ Inv /\ [Next]_vars => (TypeOK /\ Inv)'
  BY TypeNext, InvNext DEF Inv
<1> QED
  BY <1>1, <1>2, PTL DEF Spec

(* Every variable keeps its type; the printed code never runs past its end. *)
THEOREM FlushTypes == Spec => []TypeOK
BY FlushInvariant, PTL

(* The cached control register is the host's whenever a line is executed.  *)
THEOREM CacheIsHost == Spec => []CacheFits
<1>1. Inv => CacheFits
  BY DEF Inv
<1> QED
  BY <1>1, FlushInvariant, PTL

(* printSetFlushMode leaves every floating-point instruction in its mode,  *)
(* on every path of a function of any length.                              *)
THEOREM ModesFit == Spec => ModeFits
<1>1. TypeOK /\ Inv /\ [Next]_vars =>
        [/\ At("fpu") => ~host'.flush
         /\ At("vmx") => host'.flush]_vars
  <2> SUFFICES ASSUME TypeOK, Inv, Next, At("fpu") \/ At("vmx")
               PROVE  /\ At("fpu") => ~host'.flush
                      /\ At("vmx") => host'.flush
    BY DEF At
  <2>1. Float
    BY FunctionAssumption
       DEF Next, At, Translate, Other, Mffs, Mtfsf, Call, Jump, Branch, Line
  <2> QED
    BY <2>1, SwitchFits
<1> QED
  BY <1>1, FlushInvariant, PTL DEF Spec, ModeFits

(* A switch printed without a check is never redundant.                    *)
THEOREM UnconditionalSwitchesNeeded == Spec => []UnconditionalSwitchesMode
<1>1. TypeOK /\ Inv => UnconditionalSwitchesMode
  <2> SUFFICES ASSUME TypeOK, Inv, base = Size + 1, pc \in Line
               PROVE  /\ printed[pc] = "enableUnconditional" => ~host.flush
                      /\ printed[pc] = "disableUnconditional" => host.flush
    BY DEF UnconditionalSwitchesMode
  <2>1. pc < base
    BY ONLY base = Size + 1, pc \in Line, FunctionAssumption DEF Line
  <2>2. /\ Fits(csrState[pc], host)
        /\ printed[pc] = Printed(function[pc].op, csrState[pc])
        /\ csrState[pc] \in CSRState
    BY <2>1 DEF Inv, StateFits, LinesPrinted, LinePrinted, TypeOK
  <2> QED
    BY <2>2 DEF Printed, SetFlushMode, Fits, CSRState
<1> QED
  BY <1>1, FlushInvariant, PTL

(* The rounding mode the guest set survives every switch of the flush mode. *)
THEOREM RoundingSurvives == Spec => []RoundingInForce
<1>1. Init => RoundingInForce
  <2> SUFFICES ASSUME Init PROVE RoundingInForce
    OBVIOUS
  <2>1. host = ctx /\ guestRound = ctx.round
    BY DEF Init
  <2> QED
    BY ONLY <2>1 DEF RoundingInForce
<1>2. TypeOK /\ Inv /\ RoundingInForce /\ [Next]_vars => RoundingInForce'
  <2> SUFFICES ASSUME TypeOK, Inv, RoundingInForce, [Next]_vars
               PROVE  RoundingInForce'
    OBVIOUS
  <2> USE DEF RoundingInForce
  <2>1. ctx = host /\ ctx \in Csr /\ host \in Csr /\ CacheFits
    BY DEF Inv, CacheFits, TypeOK
  <2>2. CASE Float
    BY <2>1, <2>2, SwitchModeType DEF Float
  <2>3. CASE Mtfsf
    BY <2>1, <2>3 DEF Mtfsf, Csr
  <2>4. CASE Call
    BY <2>4 DEF Call
  <2>5. CASE Translate \/ Other \/ Mffs \/ Jump \/ Branch \/ UNCHANGED vars
    BY <2>5 DEF Translate, Other, Mffs, Jump, Branch, Leave, vars
  <2> QED
    BY <2>2, <2>3, <2>4, <2>5 DEF Next
<1> QED
  BY <1>1, <1>2, FlushInvariant, PTL DEF Spec
===============================================================================
