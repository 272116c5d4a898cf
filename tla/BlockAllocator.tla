---------------------------- MODULE BlockAllocator ----------------------------
(***************************************************************************)
(* What a guest program expects of ExAllocatePoolTypeWithTag and           *)
(* ExFreePool: a block that is handed out lies in the arena and overlaps   *)
(* no block that is still live, a block stays live until it is freed, and  *)
(* the memory of a live block can be touched.                              *)
(*                                                                         *)
(* live[b] is the length in pages of the live block that starts at page b, *)
(* 0 when no block starts there; usable is the set of pages that can be    *)
(* touched.                                                                *)
(***************************************************************************)
EXTENDS Integers

CONSTANTS Arena,      \* the pages blocks may be cut from
          MaxLength   \* the longest block, in pages

VARIABLES live, usable

absVars == <<live, usable>>

Extent(b, n) == b .. (b + n - 1)

AbsInit ==
  /\ live = [b \in Arena |-> 0]
  /\ usable \subseteq Int

(* A block is handed out: it is fresh, inside the arena and usable.        *)
Allocate(b, n) ==
  /\ n > 0
  /\ Extent(b, n) \subseteq Arena
  /\ \A c \in Arena : Extent(b, n) \cap Extent(c, live[c]) = {}
  /\ Extent(b, n) \subseteq usable
  /\ live' = [live EXCEPT ![b] = n]
  /\ UNCHANGED usable

(* A live block is given back.                                             *)
Free(b) ==
  /\ live[b] # 0
  /\ live' = [live EXCEPT ![b] = 0]
  /\ UNCHANGED usable

(* The host makes pages accessible or not, but never takes a page of a     *)
(* live block away.                                                        *)
Remap ==
  /\ usable' \subseteq Int
  /\ \A c \in Arena : Extent(c, live[c]) \subseteq usable'
  /\ UNCHANGED live

AbsNext ==
  \/ \E b \in Arena, n \in 1 .. MaxLength : Allocate(b, n)
  \/ \E b \in Arena : Free(b)
  \/ Remap

AbsSpec == AbsInit /\ [][AbsNext]_absVars
===============================================================================
