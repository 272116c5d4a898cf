---------------------------- MODULE MCGuestMemory ----------------------------
(***************************************************************************)
(* The order of the ranges of memory.cpp, pool.cpp and virtual_memory.cpp  *)
(* on 12 pages: pool 1..7, dynamic range 3..4 and kernel page 6 inside it, *)
(* the stack at 8 and the image with the function table at 10.             *)
(***************************************************************************)
EXTENDS GuestMemory

MCImagePages == {8, 10}
===============================================================================
