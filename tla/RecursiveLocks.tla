---------------------------- MODULE RecursiveLocks ----------------------------
(***************************************************************************)
(* What a guest program expects of its critical sections: a section has at *)
(* most one holder, the holder can enter again, and it is free when the    *)
(* holder has left as often as it entered.                                 *)
(***************************************************************************)
EXTENDS Integers

CONSTANTS Thread, Section, Nobody

VARIABLES holder, nesting

absVars == <<holder, nesting>>

AbsInit ==
  /\ holder = [s \in Section |-> Nobody]
  /\ nesting = [s \in Section |-> 0]

AbsEnter(t, s) ==
  /\ holder[s] \in {Nobody, t}
  /\ holder' = [holder EXCEPT ![s] = t]
  /\ nesting' = [nesting EXCEPT ![s] = @ + 1]

AbsLeave(t, s) ==
  /\ holder[s] = t
  /\ nesting' = [nesting EXCEPT ![s] = @ - 1]
  /\ holder' = [holder EXCEPT ![s] = IF nesting[s] = 1 THEN Nobody ELSE t]

AbsNext == \E t \in Thread, s \in Section : AbsEnter(t, s) \/ AbsLeave(t, s)

AbsSpec == AbsInit /\ [][AbsNext]_absVars
===============================================================================
