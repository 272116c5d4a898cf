-------------------------- MODULE MCFunctionDiscovery --------------------------
(* A small instance of FunctionDiscovery: two code sections of three and   *)
(* two words, an import thunk in the second, an empty .pdata entry.        *)
EXTENDS FunctionDiscovery

MCSection == <<[first |-> 0, last |-> 2], [first |-> 3, last |-> 4]>>

MCInstruction ==
  {[op |-> "plain"], [op |-> "skip", words |-> 2]} \cup [op : {"bl"}, to : {1, 4}]

MCConfigured == {[base |-> 1, size |-> 2]}
MCUnwind == {[base |-> 0, size |-> 0], [base |-> 1, size |-> 1], [base |-> 3, size |-> 2]}
MCImport == <<[base |-> 4, size |-> 1]>>
===============================================================================
