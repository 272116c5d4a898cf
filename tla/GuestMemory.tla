----------------------------- MODULE GuestMemory -----------------------------
(***************************************************************************)
(* The guest's 4 GiB address space of the native runtime and the three     *)
(* handlers that change what is committed in it:                           *)
(*                                                                         *)
(*   ExAllocatePoolTypeWithTag, ExFreePool    src/native/imports/pool.cpp  *)
(*   NtAllocateVirtualMemory        src/native/imports/virtual_memory.cpp  *)
(*                                                                         *)
(* on the address space NativeMemory (src/native/memory.cpp) lays out.     *)
(* Addresses and sizes are counted in pages; the space has W pages and     *)
(* every 32-bit sum wraps modulo W.  A handler is cut into one step per    *)
(* access to state that threads share: the atomic cursor, the host's page  *)
(* table, and the map behind gPoolMutex.                                   *)
(***************************************************************************)
EXTENDS Integers, FiniteSets

CONSTANTS
  Thread,        \* threads that call the handlers
  W,             \* pages of the 32-bit guest address space
  PoolBase,      \* kPoolBase
  PoolLimit,     \* kPoolLimit
  VmBase,        \* kDynamicBase
  VmLimit,       \* kDynamicLimit
  KernelPage,    \* kKernelDataBase, one page
  ImagePages,    \* image, function table and stack
  PoolRequests,  \* pages asked of ExAllocatePoolTypeWithTag
  VmRequests,    \* pages asked of NtAllocateVirtualMemory
  VmFixed,       \* page addresses a caller names itself
  MaxCalls       \* bound: calls in one behaviour

Page == 0 .. (W - 1)

(* The layout of memory.cpp, pool.cpp and virtual_memory.cpp: the dynamic  *)
(* range and the kernel page lie inside the pool's range; the stack and    *)
(* the image lie above it.                                                 *)
ASSUME LayoutAssumption ==
  /\ W \in Nat /\ PoolBase \in Nat /\ PoolLimit \in Nat
  /\ VmBase \in Nat /\ VmLimit \in Nat /\ KernelPage \in Nat
  /\ 0 < PoolBase
  /\ PoolBase < VmBase /\ VmBase < VmLimit
  /\ VmLimit <= KernelPage /\ KernelPage < PoolLimit /\ PoolLimit < W
  /\ ImagePages \subseteq PoolLimit .. (W - 1)

(* A size of up to 2^32-1 bytes rounds to at most W pages; with the offset *)
(* of an unaligned address it may need one page more.                      *)
ASSUME RequestAssumption ==
  /\ PoolRequests \subseteq 0 .. W
  /\ VmRequests \subseteq 0 .. (W + 1)
  /\ VmFixed \subseteq Page
  /\ MaxCalls \in Nat

VARIABLES
  poolNext,    \* gNextPoolAddress
  vmNext,      \* gNextVirtualAddress
  pool,        \* gPoolAllocations: block length by first page, 0 = no entry
  committed,   \* pages the host has committed
  pc,          \* where each thread is in a handler
  base,        \* the handler's guestAddress
  size,        \* the handler's committedSize
  vm,          \* history: length of the block NtAllocateVirtualMemory chose, by first page
  poolTotal,   \* history: pages ever claimed from gNextPoolAddress
  vmTotal,     \* history: pages ever claimed from gNextVirtualAddress
  calls        \* bound: calls made so far

vars == <<poolNext, vmNext, pool, committed, pc, base, size, vm,
          poolTotal, vmTotal, calls>>

-----------------------------------------------------------------------------
(* 32-bit addition, in pages.                                              *)
Wrap(n) == n % W

(* A block of n pages that starts at page b.                               *)
Extent(b, n) == b .. (b + n - 1)

(* AlignToPage(r4 == 0 ? 1 : r4): a size within a page of 2^32 wraps to 0. *)
PoolSize(req) == IF req = 0 THEN 1 ELSE Wrap(req)

(* AlignUp(requestedSize + pageOffset), both sums 32 bits wide.            *)
VmSize(req) == Wrap(req)

(* VirtualAlloc(MEM_COMMIT) inside the reservation, page table wise: the   *)
(* host refuses an empty range and one that leaves the reservation.        *)
CanCommit(b, n) == n > 0 /\ b + n <= W

Goto(t, label) == pc' = [pc EXCEPT ![t] = label]

Enter(t) ==
  /\ pc[t] = "idle"
  /\ calls < MaxCalls
  /\ calls' = calls + 1

Hold(t, b, n) ==
  /\ base' = [base EXCEPT ![t] = b]
  /\ size' = [size EXCEPT ![t] = n]

Init ==
  /\ poolNext = PoolBase
  /\ vmNext = VmBase
  /\ pool = [p \in Page |-> 0]
  /\ committed = ImagePages \cup {KernelPage}
  /\ pc = [t \in Thread |-> "idle"]
  /\ base = [t \in Thread |-> 0]
  /\ size = [t \in Thread |-> 0]
  /\ vm = [p \in Page |-> 0]
  /\ poolTotal = 0
  /\ vmTotal = 0
  /\ calls = 0

-----------------------------------------------------------------------------
(* ExAllocatePoolTypeWithTag *)

(* Variants, named X_..., change a definition the way a plausible bug      *)
(* would; no specification uses them.                                      *)

(* Variant: only the start of the block is compared with kPoolLimit.       *)
PoolClaim_StartOnly(t, req) ==
  /\ Enter(t)
  /\ poolNext' = Wrap(poolNext + PoolSize(req))
  /\ poolTotal' = poolTotal + PoolSize(req)
  /\ Goto(t, IF poolNext > PoolLimit THEN "idle" ELSE "poolCommit")
  /\ Hold(t, poolNext, PoolSize(req))
  /\ UNCHANGED <<vmNext, pool, committed, vm, vmTotal>>

(* fetch_add, then the range check on the thread's own copy.  A refused    *)
(* request has moved the cursor all the same.                              *)
PoolClaim(t, req) ==
  LET n == PoolSize(req)
      outOfRange == poolNext > PoolLimit \/ n > PoolLimit - poolNext
  IN  /\ Enter(t)
      /\ poolNext' = Wrap(poolNext + n)
      /\ poolTotal' = poolTotal + n
      /\ Goto(t, IF outOfRange THEN "idle" ELSE "poolCommit")
      /\ Hold(t, poolNext, n)
      /\ UNCHANGED <<vmNext, pool, committed, vm, vmTotal>>

PoolCommit(t) ==
  /\ pc[t] = "poolCommit"
  /\ CanCommit(base[t], size[t])
  /\ committed' = committed \cup Extent(base[t], size[t])
  /\ Goto(t, "poolRecord")
  /\ UNCHANGED <<poolNext, vmNext, pool, base, size, vm, poolTotal, vmTotal, calls>>

(* Variant: a failed commit gives its pages back by resetting the cursor.  *)
PoolCommitFails_Rollback(t) ==
  /\ pc[t] = "poolCommit"
  /\ poolNext' = base[t]
  /\ Goto(t, "idle")
  /\ UNCHANGED <<vmNext, pool, committed, base, size, vm, poolTotal, vmTotal, calls>>

(* Variant: the result of VirtualAlloc is not looked at.                   *)
PoolCommitFails_Unchecked(t) ==
  /\ pc[t] = "poolCommit"
  /\ Goto(t, "poolRecord")
  /\ UNCHANGED <<poolNext, vmNext, pool, committed, base, size, vm,
                 poolTotal, vmTotal, calls>>

(* VirtualAlloc fails: r3 = 0.                                             *)
PoolCommitFails(t) ==
  /\ pc[t] = "poolCommit"
  /\ Goto(t, "idle")
  /\ UNCHANGED <<poolNext, vmNext, pool, committed, base, size, vm,
                 poolTotal, vmTotal, calls>>

(* Under gPoolMutex; the address is then returned in r3.                   *)
PoolRecord(t) ==
  /\ pc[t] = "poolRecord"
  /\ pool' = [pool EXCEPT ![base[t]] = size[t]]
  /\ Goto(t, "idle")
  /\ UNCHANGED <<poolNext, vmNext, committed, base, size, vm, poolTotal, vmTotal, calls>>

-----------------------------------------------------------------------------
(* ExFreePool *)

(* Variant: the entry is looked up but not erased.                         *)
PoolErase_Keep(t, p) ==
  /\ Enter(t)
  /\ IF pool[p] = 0
     THEN UNCHANGED <<pc, base, size>>
     ELSE Goto(t, "poolDecommit") /\ Hold(t, p, pool[p])
  /\ UNCHANGED <<pool, poolNext, vmNext, committed, vm, poolTotal, vmTotal>>

(* find and erase under gPoolMutex; an address the map does not know is    *)
(* ignored.                                                                *)
PoolErase(t, p) ==
  /\ Enter(t)
  /\ IF pool[p] = 0
     THEN UNCHANGED <<pool, pc, base, size>>
     ELSE /\ pool' = [pool EXCEPT ![p] = 0]
          /\ Goto(t, "poolDecommit")
          /\ Hold(t, p, pool[p])
  /\ UNCHANGED <<poolNext, vmNext, committed, vm, poolTotal, vmTotal>>

(* Variant: one page too many, as for a size that was rounded up twice.    *)
PoolDecommit_PageMore(t) ==
  /\ pc[t] = "poolDecommit"
  /\ committed' = committed \ Extent(base[t], size[t] + 1)
  /\ Goto(t, "idle")
  /\ UNCHANGED <<poolNext, vmNext, pool, base, size, vm, poolTotal, vmTotal, calls>>

(* VirtualFree(MEM_DECOMMIT), after the mutex is released.                 *)
PoolDecommit(t) ==
  /\ pc[t] = "poolDecommit"
  /\ committed' = committed \ Extent(base[t], size[t])
  /\ Goto(t, "idle")
  /\ UNCHANGED <<poolNext, vmNext, pool, base, size, vm, poolTotal, vmTotal, calls>>

-----------------------------------------------------------------------------
(* NtAllocateVirtualMemory *)

(* Variant: the cursor moves by a size that was rounded down.              *)
VmClaim_RoundDown(t, req) ==
  LET n == VmSize(req)
      outOfRange == vmNext >= VmLimit \/ n > VmLimit - vmNext
      step == IF n > 1 THEN n - 1 ELSE n
  IN  /\ Enter(t)
      /\ req # 0
      /\ vmNext' = Wrap(vmNext + step)
      /\ vmTotal' = vmTotal + step
      /\ Goto(t, IF outOfRange THEN "idle" ELSE "vmCommit")
      /\ Hold(t, vmNext, n)
      /\ UNCHANGED <<poolNext, pool, committed, vm, poolTotal>>

(* *addressPointer = 0: the runtime chooses the address.                   *)
VmClaim(t, req) ==
  LET n == VmSize(req)
      outOfRange == vmNext >= VmLimit \/ n > VmLimit - vmNext
  IN  /\ Enter(t)
      /\ req # 0
      /\ vmNext' = Wrap(vmNext + n)
      /\ vmTotal' = vmTotal + n
      /\ Goto(t, IF outOfRange THEN "idle" ELSE "vmCommit")
      /\ Hold(t, vmNext, n)
      /\ UNCHANGED <<poolNext, pool, committed, vm, poolTotal>>

(* The caller names the address: no range is checked.                      *)
VmFixedClaim(t, req, p) ==
  /\ Enter(t)
  /\ req # 0
  /\ Goto(t, "vmCommitFixed")
  /\ Hold(t, p, VmSize(req))
  /\ UNCHANGED <<poolNext, vmNext, pool, committed, vm, poolTotal, vmTotal>>

(* *sizePointer = 0: STATUS_NO_MEMORY before anything is touched.          *)
VmEmpty(t, req) ==
  /\ Enter(t)
  /\ req = 0
  /\ UNCHANGED <<poolNext, vmNext, pool, committed, pc, base, size, vm,
                 poolTotal, vmTotal>>

VmCommit(t) ==
  /\ pc[t] \in {"vmCommit", "vmCommitFixed"}
  /\ CanCommit(base[t], size[t])
  /\ committed' = committed \cup Extent(base[t], size[t])
  /\ vm' = IF pc[t] = "vmCommit" THEN [vm EXCEPT ![base[t]] = size[t]] ELSE vm
  /\ Goto(t, "idle")
  /\ UNCHANGED <<poolNext, vmNext, pool, base, size, poolTotal, vmTotal, calls>>

VmCommitFails(t) ==
  /\ pc[t] \in {"vmCommit", "vmCommitFixed"}
  /\ Goto(t, "idle")
  /\ UNCHANGED <<poolNext, vmNext, pool, committed, base, size, vm,
                 poolTotal, vmTotal, calls>>

-----------------------------------------------------------------------------
Pool(t) ==
  \/ \E req \in PoolRequests : PoolClaim(t, req)
  \/ PoolCommit(t)
  \/ PoolCommitFails(t)
  \/ PoolRecord(t)
  \/ \E p \in Page : PoolErase(t, p)
  \/ PoolDecommit(t)

Vm(t) ==
  \/ \E req \in VmRequests : VmClaim(t, req)
  \/ \E req \in VmRequests, p \in VmFixed : VmFixedClaim(t, req, p)
  \/ \E req \in VmRequests : VmEmpty(t, req)
  \/ VmCommit(t)
  \/ VmCommitFails(t)

Next == \E t \in Thread : Pool(t) \/ Vm(t)

Spec == Init /\ [][Next]_vars

-----------------------------------------------------------------------------
(* Types and properties *)

Label == {"idle", "poolCommit", "poolRecord", "poolDecommit",
          "vmCommit", "vmCommitFixed"}

(* Every variable has its type; in particular the cursors are 32-bit       *)
(* values (std::atomic<uint32_t> in pool.cpp and virtual_memory.cpp).      *)
TypeOK ==
  /\ poolNext \in Page /\ vmNext \in Page
  /\ pool \in [Page -> Page] /\ vm \in [Page -> Page]
  /\ committed \subseteq Page
  /\ pc \in [Thread -> Label]
  /\ base \in [Thread -> Page] /\ size \in [Thread -> Page]
  /\ poolTotal \in Nat /\ vmTotal \in Nat /\ calls \in 0 .. MaxCalls

(* The cursors have not yet run past 2^32.  Refused requests move them     *)
(* too, so this bounds what was asked for, not what was handed out.        *)
NoPoolWrap == PoolBase + poolTotal < W
NoVmWrap == VmBase + vmTotal < W

Apart(b, n, c, m) == b + n <= c \/ c + m <= b

(* t is between the fetch_add and the return of a pool call, or between    *)
(* the erase and the decommit of a free: its block is neither free nor in  *)
(* the map.                                                                *)
InPool(t) == pc[t] \in {"poolCommit", "poolRecord", "poolDecommit"}

(* ExAllocatePoolTypeWithTag never hands out memory that another live      *)
(* block covers, also while other threads are inside their own calls or    *)
(* have erased a block they have not decommitted yet.                      *)
PoolDisjoint ==
  NoPoolWrap =>
    /\ \A b, c \in Page :
         b # c /\ pool[b] # 0 /\ pool[c] # 0 => Apart(b, pool[b], c, pool[c])
    /\ \A t \in Thread, b \in Page :
         InPool(t) /\ pool[b] # 0 => Apart(base[t], size[t], b, pool[b])
    /\ \A t, u \in Thread :
         t # u /\ InPool(t) /\ InPool(u) => Apart(base[t], size[t], base[u], size[u])

(* A block the pool map knows can be touched: VirtualAlloc came before the *)
(* record, and no ExFreePool, whatever is freed twice or at the same time, *)
(* decommits a page of a block that is still recorded.                     *)
PoolCommitted ==
  NoPoolWrap => \A b \in Page : Extent(b, pool[b]) \subseteq committed

(* A recorded block lies in the pool's range; so the address 0, which      *)
(* ExAllocatePoolTypeWithTag returns for a failure, is never a block.      *)
PoolInRange ==
  NoPoolWrap => \A b \in Page : pool[b] # 0 => Extent(b, pool[b]) \subseteq PoolBase .. (PoolLimit - 1)

(* NtAllocateVirtualMemory never chooses the same page twice.              *)
VmDisjoint ==
  NoVmWrap =>
    \A b, c \in Page :
      b # c /\ vm[b] # 0 /\ vm[c] # 0 => Apart(b, vm[b], c, vm[c])

(* The dynamic range lies inside the pool's range, so a free in the pool   *)
(* can reach memory NtAllocateVirtualMemory handed out.  It does not as    *)
(* long as the pool was asked for no more than lies below kDynamicBase.    *)
VmStaysCommitted ==
  NoVmWrap /\ PoolBase + poolTotal <= VmBase =>
    \A b \in Page : Extent(b, vm[b]) \subseteq committed

(* The stack, the image and the function table stay committed whatever is  *)
(* allocated and freed, and whether or not the cursor wrapped; the kernel  *)
(* data page, which lies in the pool's range, stays committed as long as   *)
(* the pool has not been asked for the pages below it.                     *)
ReservedCommitted ==
  /\ ImagePages \subseteq committed
  /\ PoolBase + poolTotal <= KernelPage => KernelPage \in committed

-----------------------------------------------------------------------------
(* The pool as its callers see it: live blocks in the arena.               *)
PoolArena == PoolBase .. (PoolLimit - 1)

liveBlocks == [b \in PoolArena |-> pool[b]]

Blocks == INSTANCE BlockAllocator
            WITH Arena <- PoolArena, MaxLength <- PoolLimit - PoolBase,
                 live <- liveBlocks, usable <- committed

(* pool.cpp implements the block allocator its callers rely on, up to the  *)
(* call that makes the cursor wrap.                                        *)
PoolRefinesBlockAllocator ==
  Blocks!AbsInit /\ [][NoPoolWrap' => [Blocks!AbsNext]_(Blocks!absVars)]_vars
===============================================================================
