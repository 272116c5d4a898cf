------------------------------ MODULE FlushMode ------------------------------
(***************************************************************************)
(* Denormal flushing in recompiled code.                                   *)
(*                                                                         *)
(* Scalar floating point keeps denormals, vector instructions flush them.  *)
(* Recompiler::Recompile (recompiler.cpp) walks a function once and keeps, *)
(* in csrState, what the host's mode is known to be at the instruction it  *)
(* prints; printSetFlushMode prints a switch only where it is needed.      *)
(* The printed code runs on PPCFPSCRRegister (ppc_context.h), which caches *)
(* the host's control register in ctx.fpscr.csr.                           *)
(*                                                                         *)
(* The module does both: it translates an arbitrary function, then runs    *)
(* it.  A conditional return and a mid-asm hook that jumps are "branch"es, *)
(* a bctr with a switch table is a "jump" with several targets; a target   *)
(* outside the function is a call followed by a return.                    *)
(***************************************************************************)
EXTENDS Integers

CONSTANTS
  Size,       \* instructions in the function
  Target,     \* sets of addresses that its branches lead to
  Plain,      \* the instructions without targets it is made of
  Rounding    \* rounding modes

ASSUME FunctionAssumption ==
  /\ Size \in Nat
  /\ Target \subseteq SUBSET Int
  /\ Plain \subseteq {"fpu", "vmx", "int", "mffs", "mtfsf", "call"}

Line == 1 .. Size

Instruction ==
  [op : Plain, to : {{}}] \cup [op : {"jump", "branch"}, to : Target]

CSRState == {"Unknown", "FPU", "VMX"}

Switch == {"", "enable", "disable", "enableUnconditional", "disableUnconditional"}

(* The bits of the control register that the code changes.                 *)
Csr == [flush : BOOLEAN, round : Rounding]

VARIABLES
  function,   \* the guest function
  base,       \* the instruction Recompile has come to
  csrState,   \* the csrState with which Recompile printed each line
  csr,        \* csrState
  printed,    \* the switch printed before each line
  pc,         \* where the printed code runs; Size + 1 = it has returned
  ctx,        \* ctx.fpscr.csr
  host,       \* the host's MXCSR
  guestRound  \* the rounding mode the guest asked for last

vars == <<function, base, csrState, csr, printed, pc, ctx, host, guestRound>>

-----------------------------------------------------------------------------
(* Recompile *)

(* Variant: every caller is taken to be in scalar mode.                    *)
EntryState_Scalar == "FPU"

(* The state in which the first line is printed: callers are in any mode.  *)
EntryState == "Unknown"

(* The function is entered from recompiled code in any mode and rounding,  *)
(* with the cached register at the host's, as Call leaves them.            *)
Init ==
  /\ function \in [Line -> Instruction]
  /\ base = 1
  /\ csr = EntryState
  /\ csrState = [i \in Line |-> "Unknown"]
  /\ printed = [i \in Line |-> ""]
  /\ pc = 1
  /\ ctx \in Csr
  /\ host = ctx
  /\ guestRound = ctx.round

Labels == UNION {function[i].to : i \in Line}

(* Variant: only forward branches are known when a line is printed.        *)
StateAt_ForwardLabels(i) ==
  IF \E j \in 1 .. i : i \in function[j].to THEN "Unknown" ELSE csr

(* The state in which line i is printed: a label forgets it.               *)
StateAt(i) == IF i \in Labels THEN "Unknown" ELSE csr

(* printSetFlushMode                                                       *)
SetFlushMode(enable, state) ==
  IF state = (IF enable THEN "VMX" ELSE "FPU") THEN ""
  ELSE IF state = "Unknown"
       THEN IF enable THEN "enable" ELSE "disable"
       ELSE IF enable THEN "enableUnconditional" ELSE "disableUnconditional"

(* What is printed before an instruction.                                  *)
Printed(op, state) ==
  IF op \in {"fpu", "vmx"} THEN SetFlushMode(op = "vmx", state) ELSE ""

(* csrState after an instruction.                                          *)
StateAfter(op, state) ==
  CASE op = "fpu"  -> "FPU"
    [] op = "vmx"  -> "VMX"
    [] op = "call" -> "Unknown"
    [] OTHER       -> state

(* One turn of Recompile's loop.                                           *)
Translate ==
  /\ base \in Line
  /\ csrState' = [csrState EXCEPT ![base] = StateAt(base)]
  /\ printed' = [printed EXCEPT ![base] = Printed(function[base].op, StateAt(base))]
  /\ csr' = StateAfter(function[base].op, StateAt(base))
  /\ base' = base + 1
  /\ UNCHANGED <<function, pc, ctx, host, guestRound>>

-----------------------------------------------------------------------------
(* The printed code *)

(* Variant: the host's register is changed behind the cache.               *)
SwitchMode_HostOnly(text) ==
  /\ host' = IF text = "" THEN host
             ELSE [host EXCEPT !.flush = text \in {"enable", "enableUnconditional"}]
  /\ UNCHANGED ctx

Enables(text) == text = "enableUnconditional" \/ (text = "enable" /\ ~ctx.flush)
Disables(text) == text = "disableUnconditional" \/ (text = "disable" /\ ctx.flush)

(* enableFlushMode, disableFlushMode and their Unconditional forms: the    *)
(* cached register decides, and the whole of it is written.                *)
SwitchMode(text) ==
  \/ /\ Enables(text)
     /\ ctx' = [ctx EXCEPT !.flush = TRUE]
     /\ host' = ctx'
  \/ /\ Disables(text)
     /\ ctx' = [ctx EXCEPT !.flush = FALSE]
     /\ host' = ctx'
  \/ /\ ~Enables(text) /\ ~Disables(text)
     /\ UNCHANGED <<ctx, host>>

At(op) == base = Size + 1 /\ pc \in Line /\ function[pc].op = op

Continue == pc' = pc + 1 /\ UNCHANGED <<function, base, csrState, csr, printed>>

(* A scalar or vector floating-point instruction, after its switch.        *)
Float ==
  /\ At("fpu") \/ At("vmx")
  /\ SwitchMode(printed[pc])
  /\ Continue
  /\ UNCHANGED guestRound

Other == At("int") /\ Continue /\ UNCHANGED <<ctx, host, guestRound>>

(* mffs: loadFromHost.                                                     *)
Mffs == At("mffs") /\ ctx' = host /\ Continue /\ UNCHANGED <<host, guestRound>>

(* Variant: the rounding mode reaches the host and not the cache.          *)
Mtfsf_Uncached ==
  /\ At("mtfsf")
  /\ \E r \in Rounding :
       /\ host' = [ctx EXCEPT !.round = r]
       /\ guestRound' = r
  /\ Continue
  /\ UNCHANGED ctx

(* mtfsf: storeFromGuest.                                                  *)
Mtfsf ==
  /\ At("mtfsf")
  /\ \E r \in Rounding :
       /\ ctx' = [ctx EXCEPT !.round = r]
       /\ guestRound' = r
  /\ host' = ctx'
  /\ Continue

(* bl, bctrl: the callee is recompiled code too and leaves any mode.       *)
Call ==
  /\ At("call")
  /\ ctx' \in Csr
  /\ host' = ctx'
  /\ guestRound' = ctx'.round
  /\ Continue

(* A branch is a goto inside the function, else a call and a return.       *)
Leave(target) ==
  /\ pc' = (IF target \in Line THEN target ELSE Size + 1)
  /\ UNCHANGED <<function, base, csrState, csr, printed, ctx, host, guestRound>>

(* b, bctr with a switch table.                                            *)
Jump == At("jump") /\ \E l \in function[pc].to : Leave(l)

(* bc, conditional returns, hooks that may jump.                           *)
Branch == At("branch") /\ \E l \in function[pc].to \cup {pc + 1} : Leave(l)

Next == Translate \/ Float \/ Other \/ Mffs \/ Mtfsf \/ Call \/ Jump \/ Branch

Spec == Init /\ [][Next]_vars

-----------------------------------------------------------------------------
(* Types and properties *)

TypeOK ==
  /\ function \in [Line -> Instruction]
  /\ base \in 1 .. Size + 1
  /\ csrState \in [Line -> CSRState]
  /\ csr \in CSRState
  /\ printed \in [Line -> Switch]
  /\ pc \in 1 .. Size + 1
  /\ ctx \in Csr
  /\ host \in Csr
  /\ guestRound \in Rounding

(* The FPU sees denormals unmodified and vector instructions flush them,   *)
(* on every path through the function: over joins, loops and calls, and    *)
(* from callers in either mode.                                            *)
ModeFits ==
  [][/\ At("fpu") => ~host'.flush
     /\ At("vmx") => host'.flush]_vars

(* ctx.fpscr.csr is the host's register: the conditional switches decide   *)
(* on the cached value only.                                               *)
CacheFits == ctx = host

(* Switching the flush mode, which writes the whole cached register, never *)
(* loses the rounding mode the guest asked for.                            *)
RoundingInForce == host.round = guestRound

(* An unconditional switch is printed only where it changes the mode.      *)
UnconditionalSwitchesMode ==
  base = Size + 1 /\ pc \in Line =>
    /\ printed[pc] = "enableUnconditional" => ~host.flush
    /\ printed[pc] = "disableUnconditional" => host.flush
===============================================================================
