-------------------------- MODULE MCFunctionAnalyze --------------------------
(* Small instances of FunctionAnalyze: which branches the code may hold.   *)
EXTENDS FunctionAnalyze

(* Back, forward and over one word; unconditional also before the start.   *)
ShortConditional == {0, 2, 3}
ShortGoto == {-1, 0, 1, 3}

(* A conditional branch to before the start.                               *)
BackConditional == {-1, 2}
===============================================================================
