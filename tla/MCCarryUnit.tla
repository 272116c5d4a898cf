----------------------------- MODULE MCCarryUnit -----------------------------
(* Small instances of the integer unit: words of two bits.                 *)
EXTENDS BitUnit

(* Every value of the low word, programs of two instructions.              *)
LowStarts == [hi : {1}, lo : Words]

AllImm == {-2, -1, 0, 1}

AllOps == {"add", "addc", "adde", "addi", "addic", "addze", "addme", "subf",
           "neg", "subfc", "subfe", "subfze", "subfic"}
===============================================================================
