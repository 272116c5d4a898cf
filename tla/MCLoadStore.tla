----------------------------- MODULE MCLoadStore ------------------------------
(* Two vectors of memory and a bit.  One thread runs any instruction, a    *)
(* load and a store of what it loaded, or the ways to load a vector from   *)
(* any address; or two threads race with plain and conditional stores to   *)
(* one word.                                                               *)
EXTENDS LoadStore, TLC

CONSTANTS one, two

MCBases == {[t \in Thread |-> b] : b \in {0, 3, 29, Size - 4}}

Alone(s) == one :> s @@ two :> <<>>

Singles == Instruction({-5, 0, 2, 9}, {0, 7, 10, Size - 2}, {1})

Loads ==
  {i \in Instruction({}, {2}, {1}) :
     i.form = "X" /\ i.based /\ i.op \in IntegerLoad \cup FloatLoad \cup VectorLoad}
Stores ==
  {i \in Instruction({}, {4}, {1}) :
     i.form = "X" /\ i.based /\ i.op \in IntegerStore \cup FloatStore \cup VectorStore}

At(op, at) == [op |-> op, form |-> "X", based |-> FALSE, at |-> at, v |-> 1]
Based(op, at, v) == [At(op, at) EXCEPT !.based = TRUE, !.v = v]

New(n) == [op |-> "li", form |-> "D", based |-> FALSE, at |-> n, v |-> 1]

-----------------------------------------------------------------------------
V(op, d, a, b, c, imm) ==
  [op |-> op, form |-> "V", d |-> d, a |-> a, b |-> b, c |-> c, imm |-> imm]

SomeImmediates(op) ==
  CASE op = "vsldoi" -> {0, 1, 4, 15}
    [] op \in DOMAIN Splat -> {0, 1, (Vector \div Splat[op]) - 1}
    [] op \in DOMAIN SplatImmediate -> {-16, -1, 0, 5}
    [] op = "vpermwi" -> {0, 27, 99, 228}
    [] op = "vrlimi" -> {<<m, z>> : m \in {0, 5, 8, 15}, z \in 0 .. 3}
    [] OTHER -> {0}

(* Every choice of two registers and the one written.                      *)
Permutes ==
  UNION {{V(op, d, a, b, 1, imm) : d, a, b \in VR, imm \in SomeImmediates(op)} : op \in VectorOps}

(* A vector from any address: its two parts put together, or the two       *)
(* vectors it lies in under a control; then it is stored the same way.     *)
Unaligned ==
  {<<Based("lvlx", at, 1), Based("lvrx", at + 16, 2), V("vor", 3, 1, 2, 1, 0),
     Based("stvlx", at, 3), Based("stvrx", at + 16, 3)>> : at \in {1, 10}}
  \cup
  {<<Based("lvx", at, 1), Based("lvx", at + 15, 2), Based(control, at, 3),
     V("vperm", 1, a, 3 - a, 3, 0), Based("stvx", 0, 1)>> :
     at \in {1, 10}, a \in 1 .. 2, control \in VectorControl}

-----------------------------------------------------------------------------
Updaters ==
  {<<At("lwarx", 4), New(1), At("stwcx", 4)>>, <<At("ldarx", 0), New(1), At("stdcx", 0)>>,
   <<At("lwarx", 4), At("stwcx", 4), At("stwcx", 4)>>,
   <<At("lwarx", 4), New(1), At("stwcx", 4), New(3), At("stwcx", 4)>>}

Racers ==
  LET r == {At("lwz", 4), At("stw", 4), At("stb", 5), At("lwarx", 4), At("stwcx", 4), At("std", 0), New(2)}
  IN  {<<a, b, c>> : a \in r, b \in r, c \in r}

MCPrograms ==
  {Alone(<<i>>) : i \in Singles \cup Permutes}
    \cup {Alone(<<i, j>>) : i \in Loads, j \in Stores}
    \cup {Alone(u) : u \in Unaligned}
    \cup {one :> u @@ two :> r : u \in Updaters, r \in Racers}
===============================================================================
