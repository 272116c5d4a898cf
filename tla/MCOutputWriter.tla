---------------------------- MODULE MCOutputWriter ----------------------------
(* A small instance of OutputWriter and NativeBootstrap: units of two      *)
(* functions; images that fill no unit, one, one and a half and two, that  *)
(* differ in one function, in the layout, in the configuration or in the   *)
(* header alone.                                                           *)
EXTENDS NativeBootstrap

CONSTANTS f, g, a, b, c, p, old, new

Given(game, patch, keep, options, header) ==
  [game |-> game, patch |-> patch, keep |-> keep, options |-> options, header |-> header]

MCInputs ==
  {Given(a, NoPatch, FALSE, old, old), Given(b, NoPatch, FALSE, old, old),
   Given(c, NoPatch, FALSE, old, old), Given(a, NoPatch, FALSE, old, new),
   Given(b, NoPatch, TRUE, new, old), Given(a, p, TRUE, old, old), Given(c, p, TRUE, old, old)}

Entry(i) == IF i.game = b THEN 2 ELSE 1

MCLayout == [i \in Image |-> [size |-> IF i.game = c THEN 2 ELSE 1, entry |-> Entry(i)]]

(* A torn image has lost its imports.                                      *)
MCImport == {i \in Image : i.whole}

Symbol(i, at) == IF at = Entry(i) THEN "_xstart" ELSE <<"sub_1", "sub_2", "sub_3", "sub_4">>[at]
At(i, places, bodies) ==
  [n \in DOMAIN places |-> [at |-> places[n], name |-> Symbol(i, places[n]), body |-> bodies[n]]]

(* The patched c has a function where one of a's second unit is.           *)
MCFunctions ==
  [i \in Image |->
     CASE ~i.whole -> At(i, <<1>>, <<f>>)
       [] i.whole /\ i.game = a ->
            IF i.patch = p THEN At(i, <<1, 2, 3, 4>>, <<f, g, f, g>>) ELSE At(i, <<1, 2, 3>>, <<f, g, f>>)
       [] i.whole /\ i.game = b -> At(i, <<1, 2, 3>>, <<f, f, f>>)
       [] i.whole /\ i.game = c -> IF i.patch = p THEN At(i, <<1, 3>>, <<f, g>>) ELSE <<>>]
===============================================================================
