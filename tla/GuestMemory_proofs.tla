-------------------------- MODULE GuestMemory_proofs --------------------------
(***************************************************************************)
(* Proofs about GuestMemory, for every number of threads, every layout     *)
(* that satisfies LayoutAssumption and every set of requests.              *)
(***************************************************************************)
EXTENDS GuestMemory, TLAPS

(* What is true of every block of the pool, in the map or in flight: it    *)
(* ends below kPoolLimit, and while the cursor has not wrapped it lies     *)
(* between kPoolBase and the cursor.                                       *)
InBounds(b, n) ==
  /\ b + n <= PoolLimit
  /\ NoPoolWrap => PoolBase <= b /\ b + n <= poolNext

PoolBounds ==
  /\ NoPoolWrap => poolNext = PoolBase + poolTotal
  /\ \A b \in Page : pool[b] # 0 => InBounds(b, pool[b])
  /\ \A t \in Thread : InPool(t) => InBounds(base[t], size[t])

(* A block that is committed but not yet recorded.                         *)
FreshCommitted ==
  NoPoolWrap =>
    \A t \in Thread :
      pc[t] = "poolRecord" => size[t] # 0 /\ Extent(base[t], size[t]) \subseteq committed

(* Blocks NtAllocateVirtualMemory chose, granted or in flight, lie between *)
(* kDynamicBase and its cursor and apart from each other.                  *)
VmBounds ==
  NoVmWrap =>
    /\ vmNext = VmBase + vmTotal
    /\ \A b \in Page : vm[b] # 0 => VmBase <= b /\ b + vm[b] <= vmNext
    /\ \A t \in Thread :
         pc[t] = "vmCommit" => VmBase <= base[t] /\ base[t] + size[t] <= vmNext
    /\ \A t \in Thread, b \in Page :
         pc[t] = "vmCommit" /\ vm[b] # 0 => Apart(base[t], size[t], b, vm[b])
    /\ \A t, u \in Thread :
         t # u /\ pc[t] = "vmCommit" /\ pc[u] = "vmCommit"
           => Apart(base[t], size[t], base[u], size[u])

PoolInv == PoolBounds /\ PoolDisjoint /\ FreshCommitted /\ PoolCommitted

LEMMA WrapSmall ==
  ASSUME NEW n \in Nat, n < W
  PROVE  Wrap(n) = n
BY LayoutAssumption DEF Wrap

LEMMA WrapType ==
  ASSUME NEW n \in Nat
  PROVE  Wrap(n) \in Page
BY LayoutAssumption DEF Wrap, Page

-----------------------------------------------------------------------------
(* Types *)

LEMMA PageFacts ==
  /\ Page \subseteq Nat /\ 0 \in Page
  /\ PoolBase \in Page /\ VmBase \in Page /\ KernelPage \in Page
  /\ ImagePages \subseteq Page
BY LayoutAssumption DEF Page

LEMMA SizeTypes ==
  /\ \A req \in PoolRequests : PoolSize(req) \in Page
  /\ \A req \in VmRequests : VmSize(req) \in Page
<1>1. ASSUME NEW req \in PoolRequests
      PROVE  PoolSize(req) \in Page
  <2>1. req \in Nat
    BY RequestAssumption, LayoutAssumption
  <2>2. 1 \in Page
    BY LayoutAssumption DEF Page
  <2> QED
    BY <2>1, <2>2, WrapType DEF PoolSize
<1>2. ASSUME NEW req \in VmRequests
      PROVE  VmSize(req) \in Page
  <2>1. req \in Nat
    BY RequestAssumption, LayoutAssumption
  <2> QED
    BY <2>1, WrapType DEF VmSize
<1> QED
  BY <1>1, <1>2

(* A committed extent lies inside the space; a pool block lies inside it.  *)
LEMMA ExtentType ==
  ASSUME NEW b \in Nat, NEW n \in Nat, b + n <= W
  PROVE  Extent(b, n) \subseteq Page
BY LayoutAssumption DEF Extent, Page

LEMMA TypeStep == TypeOK /\ [Next]_vars => TypeOK'
<1> SUFFICES ASSUME TypeOK, [Next]_vars
             PROVE  TypeOK'
  OBVIOUS
<1> USE PageFacts DEF TypeOK, Label, Goto, Hold
<1>1. ASSUME NEW t \in Thread, NEW req \in PoolRequests, PoolClaim(t, req)
      PROVE  TypeOK'
  <2>1. PoolSize(req) \in Page
    BY SizeTypes
  <2>2. poolNext' \in Page
    <3>1. poolNext \in Nat /\ PoolSize(req) \in Nat
      BY <2>1
    <3>2. poolNext + PoolSize(req) \in Nat
      BY ONLY <3>1
    <3> QED
      BY <1>1, <3>2, WrapType DEF PoolClaim
  <2>3. calls' \in 0 .. MaxCalls
    BY <1>1, RequestAssumption DEF PoolClaim, Enter
  <2>4. pc' \in [Thread -> Label]
    BY <1>1 DEF PoolClaim
  <2>5. base' \in [Thread -> Page] /\ size' \in [Thread -> Page]
    BY <1>1, <2>1 DEF PoolClaim
  <2>6. poolTotal' \in Nat /\ vmTotal' \in Nat
    <3>1. poolTotal \in Nat /\ PoolSize(req) \in Nat
      BY <2>1
    <3>2. poolTotal + PoolSize(req) \in Nat
      BY ONLY <3>1
    <3> QED
      BY <1>1, <3>2 DEF PoolClaim
  <2>7. vmNext' \in Page /\ committed' \subseteq Page
    BY <1>1 DEF PoolClaim
  <2>8. pool' \in [Page -> Page] /\ vm' \in [Page -> Page]
    BY <1>1 DEF PoolClaim
  <2> QED
    BY <2>2, <2>3, <2>4, <2>5, <2>6, <2>7, <2>8
<1>2. ASSUME NEW t \in Thread, PoolCommit(t) \/ VmCommit(t)
      PROVE  TypeOK'
  <2>1. base[t] \in Nat /\ size[t] \in Nat
    OBVIOUS
  <2>2. Extent(base[t], size[t]) \subseteq Page
    BY <1>2, <2>1, ExtentType DEF PoolCommit, VmCommit, CanCommit
  <2> QED
    BY <1>2, <2>2 DEF PoolCommit, VmCommit
<1>3. ASSUME NEW t \in Thread, PoolCommitFails(t) \/ VmCommitFails(t)
      PROVE  TypeOK'
  BY <1>3 DEF PoolCommitFails, VmCommitFails
<1>4. ASSUME NEW t \in Thread, PoolRecord(t)
      PROVE  TypeOK'
  BY <1>4 DEF PoolRecord
<1>5. ASSUME NEW t \in Thread, NEW p \in Page, PoolErase(t, p)
      PROVE  TypeOK'
  <2>1. calls' \in 0 .. MaxCalls
    BY <1>5, RequestAssumption DEF PoolErase, Enter
  <2> QED
    BY <1>5, <2>1 DEF PoolErase
<1>6. ASSUME NEW t \in Thread, PoolDecommit(t)
      PROVE  TypeOK'
  BY <1>6 DEF PoolDecommit
<1>7. ASSUME NEW t \in Thread, NEW req \in VmRequests, VmClaim(t, req)
      PROVE  TypeOK'
  <2>1. VmSize(req) \in Page
    BY SizeTypes
  <2>2. vmNext' \in Page
    <3>1. vmNext \in Nat /\ VmSize(req) \in Nat
      BY <2>1
    <3>2. vmNext + VmSize(req) \in Nat
      BY ONLY <3>1
    <3> QED
      BY <1>7, <3>2, WrapType DEF VmClaim
  <2>3. calls' \in 0 .. MaxCalls
    BY <1>7, RequestAssumption DEF VmClaim, Enter
  <2>4. pc' \in [Thread -> Label]
    BY <1>7 DEF VmClaim
  <2>5. base' \in [Thread -> Page] /\ size' \in [Thread -> Page]
    BY <1>7, <2>1 DEF VmClaim
  <2>6. poolTotal' \in Nat /\ vmTotal' \in Nat
    <3>1. vmTotal \in Nat /\ VmSize(req) \in Nat
      BY <2>1
    <3>2. vmTotal + VmSize(req) \in Nat
      BY ONLY <3>1
    <3> QED
      BY <1>7, <3>2 DEF VmClaim
  <2>7. poolNext' \in Page /\ committed' \subseteq Page
    BY <1>7 DEF VmClaim
  <2>8. pool' \in [Page -> Page] /\ vm' \in [Page -> Page]
    BY <1>7 DEF VmClaim
  <2> QED
    BY <2>2, <2>3, <2>4, <2>5, <2>6, <2>7, <2>8
<1>8. ASSUME NEW t \in Thread, NEW req \in VmRequests, NEW p \in VmFixed,
             VmFixedClaim(t, req, p)
      PROVE  TypeOK'
  <2>1. VmSize(req) \in Page /\ p \in Page
    BY SizeTypes, RequestAssumption
  <2>2. calls' \in 0 .. MaxCalls
    BY <1>8, RequestAssumption DEF VmFixedClaim, Enter
  <2> QED
    BY <1>8, <2>1, <2>2 DEF VmFixedClaim
<1>9. ASSUME NEW t \in Thread, NEW req \in VmRequests, VmEmpty(t, req)
      PROVE  TypeOK'
  BY <1>9, RequestAssumption DEF VmEmpty, Enter
<1>10. CASE UNCHANGED vars
  BY <1>10 DEF vars
<1> QED
  BY <1>1, <1>2, <1>3, <1>4, <1>5, <1>6, <1>7, <1>8, <1>9, <1>10
  DEF Next, Pool, Vm

(* Every reachable state is well typed: the cursors stay 32-bit values and *)
(* no commit leaves the reservation NativeMemory made.                     *)
THEOREM MemoryTypes == Spec => []TypeOK
<1>1. Init => TypeOK
  BY PageFacts, RequestAssumption, LayoutAssumption DEF Init, TypeOK, Label
<1> QED
  BY <1>1, TypeStep, PTL DEF Spec

-----------------------------------------------------------------------------
(* The pool *)

(* A step that leaves the map and the pool's cursor alone, brings no       *)
(* thread into a pool call and decommits nothing keeps the invariant.      *)
LEMMA PoolFrame ==
  ASSUME TypeOK, PoolInv,
         UNCHANGED <<poolNext, pool, poolTotal>>,
         committed \subseteq committed',
         \A t \in Thread : InPool(t)' =>
           InPool(t) /\ base'[t] = base[t] /\ size'[t] = size[t],
         \A t \in Thread : pc'[t] = "poolRecord" => pc[t] = "poolRecord"
  PROVE  PoolInv'
<1>1. NoPoolWrap' <=> NoPoolWrap
  BY DEF NoPoolWrap
<1>2. PoolBounds'
  BY <1>1 DEF PoolInv, PoolBounds, InBounds
<1>3. PoolDisjoint'
  BY <1>1 DEF PoolInv, PoolDisjoint, Apart
<1>4. FreshCommitted'
  <2> SUFFICES ASSUME NoPoolWrap, NEW t \in Thread, pc'[t] = "poolRecord"
               PROVE  size'[t] # 0 /\ Extent(base'[t], size'[t]) \subseteq committed'
    BY <1>1 DEF FreshCommitted
  <2>1. base'[t] = base[t] /\ size'[t] = size[t] /\ pc[t] = "poolRecord"
    BY DEF InPool
  <2> QED
    BY <2>1 DEF PoolInv, FreshCommitted
<1>5. PoolCommitted'
  BY <1>1 DEF PoolInv, PoolCommitted
<1> QED
  BY <1>2, <1>3, <1>4, <1>5 DEF PoolInv

LEMMA PoolClaimStep ==
  ASSUME TypeOK, PoolInv,
         NEW t \in Thread, NEW req \in PoolRequests, PoolClaim(t, req)
  PROVE  PoolInv'
<1> DEFINE n == PoolSize(req)
           fits == ~(poolNext > PoolLimit \/ n > PoolLimit - poolNext)
<1>1. n \in 0 .. (W - 1)
  BY SizeTypes DEF Page
<1>2. poolNext \in 0 .. (W - 1) /\ poolTotal \in Nat
  BY DEF TypeOK, Page
<1> HIDE DEF n
<1>3. /\ poolNext' = Wrap(poolNext + n) /\ poolTotal' = poolTotal + n
      /\ pc' = [pc EXCEPT ![t] = IF fits THEN "poolCommit" ELSE "idle"]
      /\ base' = [base EXCEPT ![t] = poolNext]
      /\ size' = [size EXCEPT ![t] = n]
      /\ UNCHANGED <<pool, committed>>
  BY DEF PoolClaim, Goto, Hold, n
<1>4. /\ pc' \in [Thread -> Label] /\ base' \in [Thread -> Page]
      /\ size' \in [Thread -> Page]
  BY TypeStep DEF TypeOK, Next, Pool
<1>5. ASSUME NoPoolWrap'
      PROVE  /\ NoPoolWrap
             /\ poolNext = PoolBase + poolTotal
             /\ poolNext' = poolNext + n
  <2>1. PoolBase + poolTotal + n < W
    BY <1>1, <1>2, <1>3, <1>5, LayoutAssumption DEF NoPoolWrap
  <2>2. NoPoolWrap
    BY <1>1, <1>2, <2>1, LayoutAssumption DEF NoPoolWrap
  <2>3. poolNext = PoolBase + poolTotal
    BY <2>2 DEF PoolInv, PoolBounds
  <2>4. poolNext + n \in Nat /\ poolNext + n < W
    BY <1>1, <1>2, <2>1, <2>3, LayoutAssumption
  <2> QED
    BY <1>3, <2>2, <2>3, <2>4, WrapSmall
<1>6. \A u \in Thread : u # t =>
        /\ InPool(u)' <=> InPool(u)
        /\ pc'[u] = pc[u] /\ base'[u] = base[u] /\ size'[u] = size[u]
  BY <1>3 DEF InPool, TypeOK
<1>7. /\ InPool(t)' => fits
      /\ pc'[t] # "poolRecord" /\ base'[t] = poolNext /\ size'[t] = n
  BY <1>3 DEF InPool, TypeOK
<1>8. PoolBounds'
  <2>1. NoPoolWrap' => poolNext' = PoolBase + poolTotal'
    BY <1>1, <1>2, <1>3, <1>5, LayoutAssumption
  <2>2. ASSUME NEW b \in Page, pool'[b] # 0
        PROVE  InBounds(b, pool[b])'
    <3>1. InBounds(b, pool[b])
      BY <2>2, <1>3 DEF PoolInv, PoolBounds
    <3>2. b \in Int /\ pool[b] \in Int
      BY LayoutAssumption DEF TypeOK, Page
    <3> QED
      BY <3>1, <3>2, <1>1, <1>2, <1>3, <1>5, LayoutAssumption DEF InBounds
  <2>3. ASSUME NEW u \in Thread, InPool(u)', u # t
        PROVE  InBounds(base[u], size[u])'
    <3>1. InBounds(base[u], size[u])
      BY <2>3, <1>6 DEF PoolInv, PoolBounds
    <3>2. base[u] \in Int /\ size[u] \in Int
      BY LayoutAssumption DEF TypeOK, Page
    <3> QED
      BY <3>1, <3>2, <2>3, <1>1, <1>2, <1>5, <1>6, LayoutAssumption DEF InBounds
  <2>4. ASSUME InPool(t)'
        PROVE  InBounds(base[t], size[t])'
    BY <2>4, <1>1, <1>2, <1>5, <1>7, LayoutAssumption DEF InBounds
  <2> QED
    BY <2>1, <2>2, <2>3, <2>4 DEF PoolBounds
<1>9. PoolDisjoint'
  <2> SUFFICES ASSUME NoPoolWrap'
               PROVE  PoolDisjoint'
    BY DEF PoolDisjoint
  <2>0. NoPoolWrap /\ PoolDisjoint /\ PoolBounds
    BY <1>5 DEF PoolInv
  <2>1. \A b, c \in Page :
          b # c /\ pool'[b] # 0 /\ pool'[c] # 0 => Apart(b, pool'[b], c, pool'[c])
    BY <1>3, <2>0 DEF PoolDisjoint
  <2>2. ASSUME NEW b \in Page, pool[b] # 0
        PROVE  Apart(poolNext, n, b, pool[b])
    <3>1. b + pool[b] <= poolNext
      BY <2>0, <2>2 DEF PoolBounds, InBounds
    <3> QED
      BY <3>1 DEF Apart
  <2>3. ASSUME NEW u \in Thread, u # t, InPool(u)
        PROVE  Apart(poolNext, n, base[u], size[u]) /\ Apart(base[u], size[u], poolNext, n)
    <3>1. base[u] + size[u] <= poolNext
      BY <2>0, <2>3 DEF PoolBounds, InBounds
    <3> QED
      BY <3>1 DEF Apart
  <2>4. ASSUME NEW u \in Thread, NEW b \in Page, InPool(u)', pool'[b] # 0
        PROVE  Apart(base'[u], size'[u], b, pool'[b])
    <3>1. CASE u = t
      BY <3>1, <2>2, <2>4, <1>3, <1>7
    <3>2. CASE u # t
      BY <3>2, <2>0, <2>4, <1>3, <1>6 DEF PoolDisjoint
    <3> QED
      BY <3>1, <3>2
  <2>5. ASSUME NEW u \in Thread, NEW v \in Thread, u # v, InPool(u)', InPool(v)'
        PROVE  Apart(base'[u], size'[u], base'[v], size'[v])
    <3>1. CASE u = t
      BY <3>1, <2>3, <2>5, <1>6, <1>7
    <3>2. CASE v = t
      BY <3>2, <2>3, <2>5, <1>6, <1>7
    <3>3. CASE u # t /\ v # t
      BY <3>3, <2>0, <2>5, <1>6 DEF PoolDisjoint
    <3> QED
      BY <3>1, <3>2, <3>3
  <2> QED
    BY <2>1, <2>4, <2>5 DEF PoolDisjoint, Apart
<1>10. FreshCommitted'
  <2> SUFFICES ASSUME NoPoolWrap', NEW u \in Thread, pc'[u] = "poolRecord"
               PROVE  size'[u] # 0 /\ Extent(base'[u], size'[u]) \subseteq committed'
    BY DEF FreshCommitted
  <2>1. u # t
    BY <1>7
  <2> QED
    BY <2>1, <1>3, <1>5, <1>6 DEF PoolInv, FreshCommitted
<1>11. PoolCommitted'
  BY <1>3, <1>5 DEF PoolInv, PoolCommitted
<1> QED
  BY <1>8, <1>9, <1>10, <1>11 DEF PoolInv

(* A step of t inside a pool call touches no other thread's block.         *)
LEMMA OthersKeep ==
  ASSUME TypeOK, NEW t \in Thread, NEW label,
         Goto(t, label), UNCHANGED <<base, size>>
  PROVE  \A u \in Thread : u # t =>
           /\ InPool(u)' <=> InPool(u)
           /\ pc'[u] = pc[u] /\ base'[u] = base[u] /\ size'[u] = size[u]
BY DEF TypeOK, Goto, InPool

LEMMA PoolCommitStep ==
  ASSUME TypeOK, PoolInv, NEW t \in Thread, PoolCommit(t)
  PROVE  PoolInv'
<1>1. /\ pc[t] = "poolCommit" /\ pc'[t] = "poolRecord" /\ size[t] > 0
      /\ committed' = committed \cup Extent(base[t], size[t])
      /\ UNCHANGED <<poolNext, pool, base, size, poolTotal>>
      /\ InPool(t) /\ InPool(t)'
  BY DEF PoolCommit, CanCommit, Goto, TypeOK, InPool
<1>2. \A u \in Thread : u # t =>
        /\ InPool(u)' <=> InPool(u)
        /\ pc'[u] = pc[u] /\ base'[u] = base[u] /\ size'[u] = size[u]
  BY OthersKeep DEF PoolCommit
<1>3. NoPoolWrap' <=> NoPoolWrap
  BY <1>1 DEF NoPoolWrap
<1>4. PoolBounds'
  BY <1>1, <1>2, <1>3 DEF PoolInv, PoolBounds, InBounds
<1>5. PoolDisjoint'
  BY <1>1, <1>2, <1>3 DEF PoolInv, PoolDisjoint, Apart
<1>6. FreshCommitted'
  <2> SUFFICES ASSUME NoPoolWrap, NEW u \in Thread, pc'[u] = "poolRecord"
               PROVE  size[u] # 0 /\ Extent(base[u], size[u]) \subseteq committed'
    BY <1>1, <1>3 DEF FreshCommitted
  <2>1. CASE u = t
    BY <2>1, <1>1
  <2>2. CASE u # t
    BY <2>2, <1>1, <1>2 DEF PoolInv, FreshCommitted
  <2> QED
    BY <2>1, <2>2
<1>7. PoolCommitted'
  BY <1>1, <1>3 DEF PoolInv, PoolCommitted
<1> QED
  BY <1>4, <1>5, <1>6, <1>7 DEF PoolInv

LEMMA PoolRecordStep ==
  ASSUME TypeOK, PoolInv, NEW t \in Thread, PoolRecord(t)
  PROVE  PoolInv'
<1>1. /\ pc[t] = "poolRecord" /\ InPool(t) /\ ~InPool(t)' /\ pc'[t] # "poolRecord"
      /\ pool' = [pool EXCEPT ![base[t]] = size[t]]
      /\ UNCHANGED <<poolNext, committed, base, size, poolTotal>>
      /\ base[t] \in Page /\ size[t] \in Page
  BY DEF PoolRecord, Goto, TypeOK, InPool
<1>2. \A u \in Thread : u # t =>
        /\ InPool(u)' <=> InPool(u)
        /\ pc'[u] = pc[u] /\ base'[u] = base[u] /\ size'[u] = size[u]
  BY OthersKeep DEF PoolRecord
<1>3. NoPoolWrap' <=> NoPoolWrap
  BY <1>1 DEF NoPoolWrap
<1>4. \A b \in Page : pool'[b] = IF b = base[t] THEN size[t] ELSE pool[b]
  BY <1>1 DEF TypeOK
<1>5. PoolBounds'
  <2>1. \A b \in Page : pool'[b] # 0 => InBounds(b, pool'[b])
    BY <1>1, <1>4 DEF PoolInv, PoolBounds
  <2> QED
    BY <2>1, <1>1, <1>2, <1>3 DEF PoolInv, PoolBounds, InBounds
<1>6. PoolDisjoint'
  <2> SUFFICES ASSUME NoPoolWrap
               PROVE  PoolDisjoint'
    BY <1>3 DEF PoolDisjoint
  <2>0. PoolDisjoint
    BY DEF PoolInv
  <2>1. ASSUME NEW b \in Page, NEW c \in Page, b # c, pool'[b] # 0, pool'[c] # 0
        PROVE  Apart(b, pool'[b], c, pool'[c])
    <3>1. CASE b = base[t]
      BY <3>1, <2>0, <2>1, <1>1, <1>4 DEF PoolDisjoint
    <3>2. CASE c = base[t]
      BY <3>2, <2>0, <2>1, <1>1, <1>4 DEF PoolDisjoint, Apart
    <3>3. CASE b # base[t] /\ c # base[t]
      BY <3>3, <2>0, <2>1, <1>4 DEF PoolDisjoint
    <3> QED
      BY <3>1, <3>2, <3>3
  <2>2. ASSUME NEW u \in Thread, NEW b \in Page, InPool(u)', pool'[b] # 0
        PROVE  Apart(base'[u], size'[u], b, pool'[b])
    <3>1. u # t
      BY <2>2, <1>1
    <3>2. CASE b = base[t]
      BY <3>1, <3>2, <2>0, <2>2, <1>1, <1>2, <1>4 DEF PoolDisjoint
    <3>3. CASE b # base[t]
      BY <3>1, <3>3, <2>0, <2>2, <1>2, <1>4 DEF PoolDisjoint
    <3> QED
      BY <3>2, <3>3
  <2>3. ASSUME NEW u \in Thread, NEW v \in Thread, u # v, InPool(u)', InPool(v)'
        PROVE  Apart(base'[u], size'[u], base'[v], size'[v])
    BY <2>0, <2>3, <1>1, <1>2 DEF PoolDisjoint
  <2> QED
    BY <2>1, <2>2, <2>3 DEF PoolDisjoint, Apart
<1>7. FreshCommitted'
  BY <1>1, <1>2, <1>3 DEF PoolInv, FreshCommitted
<1>8. PoolCommitted'
  BY <1>1, <1>3, <1>4 DEF PoolInv, PoolCommitted, FreshCommitted
<1> QED
  BY <1>5, <1>6, <1>7, <1>8 DEF PoolInv

LEMMA PoolEraseStep ==
  ASSUME TypeOK, PoolInv, NEW t \in Thread, NEW p \in Page, PoolErase(t, p)
  PROVE  PoolInv'
<1>1. CASE pool[p] = 0
  <2>1. UNCHANGED <<poolNext, pool, poolTotal, committed, pc, base, size>>
    BY <1>1 DEF PoolErase
  <2> QED
    BY <2>1, PoolFrame DEF InPool
<1>2. CASE pool[p] # 0
  <2>1. /\ ~InPool(t) /\ InPool(t)' /\ pc'[t] = "poolDecommit"
        /\ pool' = [pool EXCEPT ![p] = 0]
        /\ base'[t] = p /\ size'[t] = pool[p]
        /\ UNCHANGED <<poolNext, committed, poolTotal>>
    BY <1>2 DEF PoolErase, Goto, Hold, Enter, TypeOK, InPool
  <2>2. \A u \in Thread : u # t =>
          /\ InPool(u)' <=> InPool(u)
          /\ pc'[u] = pc[u] /\ base'[u] = base[u] /\ size'[u] = size[u]
    BY <1>2 DEF PoolErase, Goto, Hold, TypeOK, InPool
  <2>3. NoPoolWrap' <=> NoPoolWrap
    BY <2>1 DEF NoPoolWrap
  <2>4. \A b \in Page : pool'[b] = IF b = p THEN 0 ELSE pool[b]
    BY <2>1 DEF TypeOK
  <2>5. PoolBounds'
    <3>1. \A b \in Page : pool'[b] # 0 => InBounds(b, pool'[b])
      BY <2>4 DEF PoolInv, PoolBounds
    <3>2. \A u \in Thread : InPool(u)' => InBounds(base'[u], size'[u])
      BY <1>2, <2>1, <2>2 DEF PoolInv, PoolBounds
    <3> QED
      BY <3>1, <3>2, <2>1, <2>3 DEF PoolInv, PoolBounds, InBounds
  <2>6. PoolDisjoint'
    <3> SUFFICES ASSUME NoPoolWrap
                 PROVE  PoolDisjoint'
      BY <2>3 DEF PoolDisjoint
    <3>0. PoolDisjoint
      BY DEF PoolInv
    <3>1. \A b, c \in Page :
            b # c /\ pool'[b] # 0 /\ pool'[c] # 0 => Apart(b, pool'[b], c, pool'[c])
      BY <3>0, <2>4 DEF PoolDisjoint
    <3>2. ASSUME NEW u \in Thread, NEW b \in Page, InPool(u)', pool'[b] # 0
          PROVE  Apart(base'[u], size'[u], b, pool'[b])
      <4>1. CASE u = t
        BY <4>1, <3>0, <3>2, <1>2, <2>1, <2>4 DEF PoolDisjoint
      <4>2. CASE u # t
        BY <4>2, <3>0, <3>2, <2>2, <2>4 DEF PoolDisjoint
      <4> QED
        BY <4>1, <4>2
    <3>3. ASSUME NEW u \in Thread, NEW v \in Thread, u # v, InPool(u)', InPool(v)'
          PROVE  Apart(base'[u], size'[u], base'[v], size'[v])
      <4>1. CASE u = t
        BY <4>1, <3>0, <3>3, <1>2, <2>1, <2>2 DEF PoolDisjoint, Apart
      <4>2. CASE v = t
        BY <4>2, <3>0, <3>3, <1>2, <2>1, <2>2 DEF PoolDisjoint
      <4>3. CASE u # t /\ v # t
        BY <4>3, <3>0, <3>3, <2>2 DEF PoolDisjoint
      <4> QED
        BY <4>1, <4>2, <4>3
    <3> QED
      BY <3>1, <3>2, <3>3 DEF PoolDisjoint, Apart
  <2>7. FreshCommitted'
    BY <2>1, <2>2, <2>3 DEF PoolInv, FreshCommitted
  <2>8. PoolCommitted'
    <3> SUFFICES ASSUME NoPoolWrap, NEW b \in Page
                 PROVE  Extent(b, pool'[b]) \subseteq committed
      BY <2>1, <2>3 DEF PoolCommitted
    <3>1. CASE b = p
      <4>1. p \in Int /\ pool'[b] = 0
        BY <3>1, <2>4, LayoutAssumption DEF Page
      <4> QED
        BY <4>1, <3>1 DEF Extent
    <3>2. CASE b # p
      BY <3>2, <2>4 DEF PoolInv, PoolCommitted
    <3> QED
      BY <3>1, <3>2
  <2> QED
    BY <2>5, <2>6, <2>7, <2>8 DEF PoolInv
<1> QED
  BY <1>1, <1>2

LEMMA PoolDecommitStep ==
  ASSUME TypeOK, PoolInv, NEW t \in Thread, PoolDecommit(t)
  PROVE  PoolInv'
<1>1. /\ pc[t] = "poolDecommit" /\ InPool(t) /\ ~InPool(t)' /\ pc'[t] # "poolRecord"
      /\ committed' = committed \ Extent(base[t], size[t])
      /\ UNCHANGED <<poolNext, pool, base, size, poolTotal>>
      /\ base[t] \in Int /\ size[t] \in Int
  <2>1. base[t] \in Int /\ size[t] \in Int
    BY LayoutAssumption DEF TypeOK, Page
  <2> QED
    BY <2>1 DEF PoolDecommit, Goto, TypeOK, InPool
<1>2. \A u \in Thread : u # t =>
        /\ InPool(u)' <=> InPool(u)
        /\ pc'[u] = pc[u] /\ base'[u] = base[u] /\ size'[u] = size[u]
  BY OthersKeep DEF PoolDecommit
<1>3. NoPoolWrap' <=> NoPoolWrap
  BY <1>1 DEF NoPoolWrap
<1>4. PoolBounds'
  BY <1>1, <1>2, <1>3 DEF PoolInv, PoolBounds, InBounds
<1>5. PoolDisjoint'
  BY <1>1, <1>2, <1>3 DEF PoolInv, PoolDisjoint, Apart
<1>6. ASSUME NEW b \in Int, NEW n \in Int, Apart(base[t], size[t], b, n),
             Extent(b, n) \subseteq committed
      PROVE  Extent(b, n) \subseteq committed'
  BY <1>1, <1>6 DEF Extent, Apart
<1>7. FreshCommitted'
  <2> SUFFICES ASSUME NoPoolWrap, NEW u \in Thread, pc'[u] = "poolRecord"
               PROVE  size'[u] # 0 /\ Extent(base'[u], size'[u]) \subseteq committed'
    BY <1>3 DEF FreshCommitted
  <2>1. u # t /\ pc[u] = "poolRecord" /\ InPool(u) /\ base'[u] = base[u] /\ size'[u] = size[u]
    BY <1>1, <1>2 DEF InPool
  <2>2. base[u] \in Int /\ size[u] \in Int
    BY LayoutAssumption DEF TypeOK, Page
  <2>3. size[u] # 0 /\ Extent(base[u], size[u]) \subseteq committed
    BY <2>1 DEF PoolInv, FreshCommitted
  <2>4. Apart(base[t], size[t], base[u], size[u])
    BY <2>1, <1>1 DEF PoolInv, PoolDisjoint
  <2> QED
    BY <2>1, <2>2, <2>3, <2>4, <1>6
<1>8. PoolCommitted'
  <2> SUFFICES ASSUME NoPoolWrap, NEW b \in Page
               PROVE  Extent(b, pool[b]) \subseteq committed'
    BY <1>1, <1>3 DEF PoolCommitted
  <2>1. b \in Int /\ pool[b] \in Int
    BY LayoutAssumption DEF TypeOK, Page
  <2>2. Extent(b, pool[b]) \subseteq committed
    BY DEF PoolInv, PoolCommitted
  <2>3. CASE pool[b] = 0
    BY <2>1, <2>3 DEF Extent
  <2>4. CASE pool[b] # 0
    <3>1. Apart(base[t], size[t], b, pool[b])
      BY <2>4, <1>1 DEF PoolInv, PoolDisjoint
    <3> QED
      BY <3>1, <2>1, <2>2, <1>6
  <2> QED
    BY <2>3, <2>4
<1> QED
  BY <1>4, <1>5, <1>7, <1>8 DEF PoolInv

(* What the handlers of virtual_memory.cpp leave alone.                    *)
LEMMA VmLeavesPool ==
  ASSUME TypeOK, NEW t \in Thread, Vm(t)
  PROVE  /\ UNCHANGED <<poolNext, pool, poolTotal>>
         /\ committed \subseteq committed'
         /\ \A u \in Thread : InPool(u)' =>
              InPool(u) /\ base'[u] = base[u] /\ size'[u] = size[u]
         /\ \A u \in Thread : pc'[u] = "poolRecord" => pc[u] = "poolRecord"
<1> USE DEF TypeOK, InPool, Goto, Hold, Enter
<1>1. ASSUME NEW req \in VmRequests, VmClaim(t, req)
      PROVE  UNCHANGED <<poolNext, pool, poolTotal, committed>> /\
             \A u \in Thread : \/ u # t /\ pc'[u] = pc[u] /\ base'[u] = base[u] /\ size'[u] = size[u]
                               \/ pc'[u] \in {"idle", "vmCommit"}
  BY <1>1 DEF VmClaim
<1>2. ASSUME NEW req \in VmRequests, NEW p \in VmFixed, VmFixedClaim(t, req, p)
      PROVE  UNCHANGED <<poolNext, pool, poolTotal, committed>> /\
             \A u \in Thread : \/ u # t /\ pc'[u] = pc[u] /\ base'[u] = base[u] /\ size'[u] = size[u]
                               \/ pc'[u] = "vmCommitFixed"
  BY <1>2 DEF VmFixedClaim
<1>3. ASSUME NEW req \in VmRequests, VmEmpty(t, req)
      PROVE  UNCHANGED <<poolNext, pool, poolTotal, committed, pc, base, size>>
  BY <1>3 DEF VmEmpty
<1>4. ASSUME VmCommit(t) \/ VmCommitFails(t)
      PROVE  /\ UNCHANGED <<poolNext, pool, poolTotal, base, size>>
             /\ committed \subseteq committed'
             /\ \A u \in Thread : pc'[u] = pc[u] \/ pc'[u] = "idle"
  BY <1>4 DEF VmCommit, VmCommitFails
<1> QED
  BY <1>1, <1>2, <1>3, <1>4 DEF Vm

LEMMA PoolStep == TypeOK /\ PoolInv /\ [Next]_vars => PoolInv'
<1> SUFFICES ASSUME TypeOK, PoolInv, [Next]_vars
             PROVE  PoolInv'
  OBVIOUS
<1>1. ASSUME NEW t \in Thread, PoolCommitFails(t)
      PROVE  PoolInv'
  BY <1>1, PoolFrame DEF PoolCommitFails, Goto, TypeOK, InPool
<1>2. ASSUME NEW t \in Thread, Vm(t)
      PROVE  PoolInv'
  BY <1>2, VmLeavesPool, PoolFrame
<1>3. CASE UNCHANGED vars
  BY <1>3, PoolFrame DEF vars, InPool
<1> QED
  BY <1>1, <1>2, <1>3, PoolClaimStep, PoolCommitStep, PoolRecordStep, PoolEraseStep,
     PoolDecommitStep DEF Next, Pool

LEMMA PoolInit == Init => PoolInv
BY LayoutAssumption DEF Init, PoolInv, PoolBounds, PoolDisjoint, FreshCommitted,
   PoolCommitted, InPool, Extent, Page, NoPoolWrap

LEMMA PoolInvariant == Spec => [](TypeOK /\ PoolInv)
BY MemoryTypes, PoolInit, PoolStep, PTL DEF Spec

(* Until the 32-bit cursor of pool.cpp wraps, no two pool blocks overlap,  *)
(* however many threads allocate and free at once.                         *)
THEOREM PoolBlocksDisjoint == Spec => []PoolDisjoint
<1>1. PoolInv => PoolDisjoint
  BY DEF PoolInv
<1> QED
  BY <1>1, PoolInvariant, PTL

(* Until then a block stays committed from its record to its erasure.      *)
THEOREM PoolBlocksCommitted == Spec => []PoolCommitted
<1>1. PoolInv => PoolCommitted
  BY DEF PoolInv
<1> QED
  BY <1>1, PoolInvariant, PTL

(* Until then a block lies in the pool's range, so is never at address 0.  *)
THEOREM PoolBlocksInRange == Spec => []PoolInRange
<1>1. TypeOK /\ PoolInv => PoolInRange
  <2> SUFFICES ASSUME TypeOK, PoolInv, NoPoolWrap, NEW b \in Page, pool[b] # 0
               PROVE  Extent(b, pool[b]) \subseteq PoolBase .. (PoolLimit - 1)
    BY DEF PoolInRange
  <2>1. PoolBase <= b /\ b + pool[b] <= PoolLimit
    BY DEF PoolInv, PoolBounds, InBounds
  <2>2. b \in Int /\ pool[b] \in Int
    BY LayoutAssumption DEF TypeOK, Page
  <2> QED
    BY <2>1, <2>2, LayoutAssumption DEF Extent
<1> QED
  BY <1>1, PoolInvariant, PTL

-----------------------------------------------------------------------------
(* What no free may take away *)

(* Every decommit stays below kPoolLimit; while the pool was asked for no  *)
(* more pages than lie below page x, it stays below x.                     *)
LEMMA DecommitReach ==
  ASSUME TypeOK, PoolInv, NEW t \in Thread, PoolDecommit(t), NEW x \in Nat,
         \/ PoolLimit <= x
         \/ x < W /\ PoolBase + poolTotal <= x
  PROVE  \A p \in Int : p >= x /\ p \in committed => p \in committed'
<1>1. base[t] \in Int /\ size[t] \in Int /\ poolTotal \in Int
  BY LayoutAssumption DEF TypeOK, Page
<1>2. InBounds(base[t], size[t])
  BY DEF PoolDecommit, PoolInv, PoolBounds, InPool
<1>3. base[t] + size[t] <= x
  <2>1. CASE PoolLimit <= x
    BY <2>1, <1>1, <1>2, LayoutAssumption DEF InBounds
  <2>2. CASE x < W /\ PoolBase + poolTotal <= x
    <3>1. NoPoolWrap
      BY <2>2, <1>1, LayoutAssumption DEF NoPoolWrap
    <3>2. poolNext = PoolBase + poolTotal
      BY <3>1 DEF PoolInv, PoolBounds
    <3> QED
      BY <3>1, <3>2, <2>2, <1>1, <1>2, LayoutAssumption DEF InBounds
  <2> QED
    BY <2>1, <2>2
<1>4. committed' = committed \ Extent(base[t], size[t])
  BY DEF PoolDecommit
<1> QED
  BY <1>1, <1>3, <1>4 DEF Extent

(* Only PoolDecommit takes pages away.                                     *)
LEMMA OnlyDecommit ==
  ASSUME [Next]_vars, ~(\E t \in Thread : PoolDecommit(t))
  PROVE  committed \subseteq committed'
BY DEF Next, Pool, Vm, PoolClaim, PoolCommit, PoolCommitFails, PoolRecord, PoolErase,
   VmClaim, VmFixedClaim, VmEmpty, VmCommit, VmCommitFails, vars

(* The history counter of claimed pages never goes back.                   *)
LEMMA PoolTotalGrows ==
  ASSUME TypeOK, [Next]_vars
  PROVE  poolTotal' \in Nat /\ poolTotal <= poolTotal'
<1>1. ASSUME NEW t \in Thread, NEW req \in PoolRequests, PoolClaim(t, req)
      PROVE  poolTotal <= poolTotal'
  <2>1. poolTotal \in Nat /\ PoolSize(req) \in Nat
    BY SizeTypes, PageFacts DEF TypeOK
  <2>2. poolTotal' = poolTotal + PoolSize(req)
    BY <1>1 DEF PoolClaim
  <2> QED
    BY ONLY <2>1, <2>2
<1>2. ASSUME ~(\E t \in Thread, req \in PoolRequests : PoolClaim(t, req))
      PROVE  poolTotal' = poolTotal
  BY <1>2 DEF Next, Pool, Vm, PoolCommit, PoolCommitFails, PoolRecord, PoolErase, PoolDecommit,
     VmClaim, VmFixedClaim, VmEmpty, VmCommit, VmCommitFails, vars
<1>3. poolTotal \in Nat /\ poolTotal' \in Nat
  BY TypeStep DEF TypeOK
<1> QED
  BY <1>1, <1>2, <1>3

(* The stack, the image and the function table are never decommitted, and  *)
(* the kernel page not before the pool has been asked for all pages below. *)
THEOREM ReservedStaysCommitted == Spec => []ReservedCommitted
<1>1. Init => ReservedCommitted
  BY DEF Init, ReservedCommitted
<1>2. TypeOK /\ PoolInv /\ ReservedCommitted /\ [Next]_vars => ReservedCommitted'
  <2> SUFFICES ASSUME TypeOK, PoolInv, ReservedCommitted, [Next]_vars
               PROVE  ReservedCommitted'
    OBVIOUS
  <2>1. PoolBase + poolTotal' <= KernelPage => PoolBase + poolTotal <= KernelPage
    BY PoolTotalGrows, LayoutAssumption DEF TypeOK
  <2>2. CASE ~(\E t \in Thread : PoolDecommit(t))
    BY <2>1, <2>2, OnlyDecommit DEF ReservedCommitted
  <2>3. ASSUME NEW t \in Thread, PoolDecommit(t)
        PROVE  ReservedCommitted'
    <3>1. ImagePages \subseteq committed'
      <4>1. \A p \in ImagePages : p \in Int /\ p >= PoolLimit /\ p \in committed
        BY LayoutAssumption DEF ReservedCommitted
      <4> QED
        BY <4>1, <2>3, DecommitReach, LayoutAssumption
    <3>2. ASSUME PoolBase + poolTotal' <= KernelPage
          PROVE  KernelPage \in committed'
      <4>1. KernelPage \in committed /\ PoolBase + poolTotal <= KernelPage
        BY <2>1, <3>2 DEF ReservedCommitted
      <4>2. KernelPage \in Nat /\ KernelPage \in Int /\ KernelPage < W
        BY LayoutAssumption
      <4> QED
        BY <4>1, <4>2, <2>3, DecommitReach
    <3> QED
      BY <3>1, <3>2 DEF ReservedCommitted
  <2> QED
    BY <2>2, <2>3
<1> QED
  BY <1>1, <1>2, PoolInvariant, PTL DEF Spec

-----------------------------------------------------------------------------
(* Blocks NtAllocateVirtualMemory chooses *)

VmInv == VmBounds /\ VmDisjoint

LEMMA VmClaimStep ==
  ASSUME TypeOK, VmInv, NEW t \in Thread, NEW req \in VmRequests, VmClaim(t, req)
  PROVE  VmInv'
<1> DEFINE n == VmSize(req)
<1>1. n \in 0 .. (W - 1)
  BY SizeTypes DEF Page
<1>2. vmNext \in 0 .. (W - 1) /\ vmTotal \in Nat
  BY DEF TypeOK, Page
<1> HIDE DEF n
<1>3. /\ vmNext' = Wrap(vmNext + n) /\ vmTotal' = vmTotal + n
      /\ vm' = vm
      /\ base'[t] = vmNext /\ size'[t] = n
      /\ \A u \in Thread : u # t => pc'[u] = pc[u] /\ base'[u] = base[u] /\ size'[u] = size[u]
  BY DEF VmClaim, Goto, Hold, n, TypeOK
<1> SUFFICES ASSUME NoVmWrap'
             PROVE  VmInv'
  BY DEF VmInv, VmBounds, VmDisjoint
<1>4. NoVmWrap /\ vmNext = VmBase + vmTotal /\ vmNext' = vmNext + n
  <2>1. VmBase + vmTotal + n < W
    BY <1>1, <1>2, <1>3, LayoutAssumption DEF NoVmWrap
  <2>2. NoVmWrap
    BY <1>1, <1>2, <2>1, LayoutAssumption DEF NoVmWrap
  <2>3. vmNext = VmBase + vmTotal
    BY <2>2 DEF VmInv, VmBounds
  <2>4. vmNext + n \in Nat /\ vmNext + n < W
    BY <1>1, <1>2, <2>1, <2>3, LayoutAssumption
  <2> QED
    BY <1>3, <2>2, <2>3, <2>4, WrapSmall
<1>5. VmBounds /\ VmDisjoint
  BY DEF VmInv
<1>6. vmNext' = VmBase + vmTotal'
  BY <1>1, <1>2, <1>3, <1>4, LayoutAssumption
<1>7. \A b \in Page : vm[b] # 0 => VmBase <= b /\ b + vm[b] <= vmNext /\ b + vm[b] <= vmNext'
  BY <1>1, <1>2, <1>4, <1>5, LayoutAssumption DEF VmBounds, TypeOK, Page
<1>8. ASSUME NEW u \in Thread, u # t, pc[u] = "vmCommit"
      PROVE  VmBase <= base[u] /\ base[u] + size[u] <= vmNext /\ base[u] + size[u] <= vmNext'
  <2>1. base[u] \in Int /\ size[u] \in Int
    BY LayoutAssumption DEF TypeOK, Page
  <2> QED
    BY <2>1, <1>1, <1>2, <1>4, <1>5, <1>8 DEF VmBounds
<1>9. VmBase <= base'[t] /\ base'[t] + size'[t] <= vmNext'
  BY <1>1, <1>2, <1>3, <1>4, LayoutAssumption
<1>10. ASSUME NEW u \in Thread, NEW b \in Page, pc'[u] = "vmCommit", vm[b] # 0
       PROVE  Apart(base'[u], size'[u], b, vm[b])
  <2>1. CASE u = t
    BY <2>1, <1>3, <1>7, <1>10 DEF Apart
  <2>2. CASE u # t
    BY <2>2, <1>3, <1>4, <1>5, <1>10 DEF VmBounds
  <2> QED
    BY <2>1, <2>2
<1>11. ASSUME NEW u \in Thread, NEW v \in Thread, u # v, pc'[u] = "vmCommit", pc'[v] = "vmCommit"
       PROVE  Apart(base'[u], size'[u], base'[v], size'[v])
  <2>1. CASE u = t
    BY <2>1, <1>3, <1>8, <1>11 DEF Apart
  <2>2. CASE v = t
    BY <2>2, <1>3, <1>8, <1>11 DEF Apart
  <2>3. CASE u # t /\ v # t
    BY <2>3, <1>3, <1>4, <1>5, <1>11 DEF VmBounds
  <2> QED
    BY <2>1, <2>2, <2>3
<1>12. VmBounds'
  BY <1>3, <1>6, <1>7, <1>8, <1>9, <1>10, <1>11 DEF VmBounds, Apart
<1>13. VmDisjoint'
  BY <1>3, <1>4, <1>5 DEF VmDisjoint, Apart
<1> QED
  BY <1>12, <1>13 DEF VmInv

LEMMA VmCommitStep ==
  ASSUME TypeOK, VmInv, NEW t \in Thread, VmCommit(t)
  PROVE  VmInv'
<1>1. /\ UNCHANGED <<vmNext, vmTotal, base, size>> /\ size[t] > 0
      /\ base[t] \in Page /\ size[t] \in Page
      /\ pc'[t] = "idle"
      /\ \A u \in Thread : u # t => pc'[u] = pc[u]
  BY DEF VmCommit, CanCommit, Goto, TypeOK
<1> SUFFICES ASSUME NoVmWrap
             PROVE  VmInv'
  BY <1>1 DEF VmInv, VmBounds, VmDisjoint, NoVmWrap
<1>2. VmBounds /\ VmDisjoint
  BY DEF VmInv
<1>3. CASE pc[t] = "vmCommitFixed"
  BY <1>1, <1>2, <1>3 DEF VmInv, VmBounds, VmDisjoint, VmCommit, Apart
<1>4. CASE pc[t] = "vmCommit"
  <2>1. \A b \in Page : vm'[b] = IF b = base[t] THEN size[t] ELSE vm[b]
    BY <1>4 DEF VmCommit, TypeOK
  <2>2. \A b \in Page : vm'[b] # 0 => VmBase <= b /\ b + vm'[b] <= vmNext
    BY <2>1, <1>2, <1>4 DEF VmBounds
  <2>3. ASSUME NEW u \in Thread, NEW b \in Page, pc'[u] = "vmCommit", vm'[b] # 0
        PROVE  Apart(base[u], size[u], b, vm'[b])
    <3>1. u # t
      BY <2>3, <1>1
    <3>2. CASE b = base[t]
      BY <3>1, <3>2, <2>1, <2>3, <1>1, <1>2, <1>4 DEF VmBounds
    <3>3. CASE b # base[t]
      BY <3>1, <3>3, <2>1, <2>3, <1>1, <1>2 DEF VmBounds
    <3> QED
      BY <3>2, <3>3
  <2>4. ASSUME NEW u \in Thread, NEW v \in Thread, u # v, pc'[u] = "vmCommit", pc'[v] = "vmCommit"
        PROVE  Apart(base[u], size[u], base[v], size[v])
    BY <2>4, <1>1, <1>2 DEF VmBounds
  <2>5. ASSUME NEW b \in Page, NEW c \in Page, b # c, vm'[b] # 0, vm'[c] # 0
        PROVE  Apart(b, vm'[b], c, vm'[c])
    <3>1. CASE b = base[t]
      BY <3>1, <2>1, <2>5, <1>2, <1>4 DEF VmBounds
    <3>2. CASE c = base[t]
      BY <3>2, <2>1, <2>5, <1>2, <1>4 DEF VmBounds, Apart
    <3>3. CASE b # base[t] /\ c # base[t]
      BY <3>3, <2>1, <2>5, <1>2 DEF VmDisjoint
    <3> QED
      BY <3>1, <3>2, <3>3
  <2>6. ASSUME NEW u \in Thread, pc'[u] = "vmCommit"
        PROVE  VmBase <= base[u] /\ base[u] + size[u] <= vmNext
    BY <2>6, <1>1, <1>2 DEF VmBounds
  <2>7. VmBounds'
    BY <1>1, <1>2, <2>2, <2>3, <2>4, <2>6 DEF VmBounds, Apart
  <2>8. VmDisjoint'
    BY <2>5 DEF VmDisjoint, Apart
  <2> QED
    BY <2>7, <2>8 DEF VmInv
<1> QED
  BY <1>3, <1>4 DEF VmCommit

(* Every other step leaves vm and its cursor alone and claims nothing.     *)
LEMMA VmFrame ==
  ASSUME TypeOK, VmInv, UNCHANGED <<vmNext, vm, vmTotal>>,
         \A u \in Thread : pc'[u] = "vmCommit" =>
           pc[u] = "vmCommit" /\ base'[u] = base[u] /\ size'[u] = size[u]
  PROVE  VmInv'
<1>1. NoVmWrap' <=> NoVmWrap
  BY DEF NoVmWrap
<1>2. VmBounds'
  BY <1>1 DEF VmInv, VmBounds, Apart
<1>3. VmDisjoint'
  BY <1>1 DEF VmInv, VmDisjoint, Apart
<1> QED
  BY <1>2, <1>3 DEF VmInv

LEMMA VmStep == TypeOK /\ VmInv /\ [Next]_vars => VmInv'
<1> SUFFICES ASSUME TypeOK, VmInv, [Next]_vars
             PROVE  VmInv'
  OBVIOUS
<1> USE DEF TypeOK, Goto, Hold, Enter
<1>1. ASSUME NEW t \in Thread, NEW req \in PoolRequests, PoolClaim(t, req)
      PROVE  VmInv'
  BY <1>1, VmFrame DEF PoolClaim
<1>2. ASSUME NEW t \in Thread,
             PoolCommit(t) \/ PoolCommitFails(t) \/ PoolRecord(t) \/ PoolDecommit(t)
      PROVE  VmInv'
  BY <1>2, VmFrame DEF PoolCommit, PoolCommitFails, PoolRecord, PoolDecommit
<1>3. ASSUME NEW t \in Thread, NEW p \in Page, PoolErase(t, p)
      PROVE  VmInv'
  BY <1>3, VmFrame DEF PoolErase
<1>4. ASSUME NEW t \in Thread, NEW req \in VmRequests, NEW p \in VmFixed,
             VmFixedClaim(t, req, p)
      PROVE  VmInv'
  BY <1>4, VmFrame DEF VmFixedClaim
<1>5. ASSUME NEW t \in Thread, NEW req \in VmRequests, VmEmpty(t, req)
      PROVE  VmInv'
  BY <1>5, VmFrame DEF VmEmpty
<1>6. ASSUME NEW t \in Thread, VmCommitFails(t)
      PROVE  VmInv'
  BY <1>6, VmFrame DEF VmCommitFails
<1>7. CASE UNCHANGED vars
  BY <1>7, VmFrame DEF vars
<1> QED
  BY <1>1, <1>2, <1>3, <1>4, <1>5, <1>6, <1>7, VmClaimStep, VmCommitStep
  DEF Next, Pool, Vm

(* Until its 32-bit cursor wraps NtAllocateVirtualMemory never chooses a   *)
(* page twice, however many threads call it.                               *)
THEOREM VmBlocksDisjoint == Spec => []VmDisjoint
<1>1. Init => VmInv
  BY LayoutAssumption DEF Init, VmInv, VmBounds, VmDisjoint
<1>2. VmInv => VmDisjoint
  BY DEF VmInv
<1> QED
  BY <1>1, <1>2, VmStep, MemoryTypes, PTL DEF Spec

(* While the pool was asked for no more than lies below kDynamicBase, no   *)
(* ExFreePool reaches a page NtAllocateVirtualMemory handed out.           *)
THEOREM VmBlocksStayCommitted == Spec => []VmStaysCommitted
<1>1. Init => VmStaysCommitted
  <2>1. \A b \in Page : Extent(b, 0) = {}
    BY LayoutAssumption DEF Extent, Page
  <2> QED
    BY <2>1 DEF Init, VmStaysCommitted
<1>2. TypeOK /\ PoolInv /\ VmInv /\ VmStaysCommitted /\ [Next]_vars => VmStaysCommitted'
  <2> SUFFICES ASSUME TypeOK, PoolInv, VmInv, VmStaysCommitted, [Next]_vars,
                      NoVmWrap', PoolBase + poolTotal' <= VmBase,
                      NEW b \in Page
               PROVE  Extent(b, vm'[b]) \subseteq committed'
    BY DEF VmStaysCommitted
  <2>1. PoolBase + poolTotal <= VmBase
    BY PoolTotalGrows, LayoutAssumption DEF TypeOK
  <2>2. NoVmWrap
    <3>1. ASSUME NEW t \in Thread, NEW req \in VmRequests, VmClaim(t, req)
          PROVE  vmTotal <= vmTotal'
      <4>1. vmTotal \in Nat /\ VmSize(req) \in Nat
        BY SizeTypes, PageFacts DEF TypeOK
      <4>2. vmTotal' = vmTotal + VmSize(req)
        BY <3>1 DEF VmClaim
      <4> QED
        BY ONLY <4>1, <4>2
    <3>2. ASSUME ~(\E t \in Thread, req \in VmRequests : VmClaim(t, req))
          PROVE  vmTotal' = vmTotal
      BY <3>2 DEF Next, Pool, Vm, PoolClaim, PoolCommit, PoolCommitFails, PoolRecord, PoolErase,
         PoolDecommit, VmFixedClaim, VmEmpty, VmCommit, VmCommitFails, vars
    <3>3. vmTotal \in Nat /\ vmTotal' \in Nat
      BY TypeStep DEF TypeOK
    <3>4. vmTotal <= vmTotal'
      BY <3>1, <3>2, <3>3
    <3>5. VmBase + vmTotal' < W
      BY DEF NoVmWrap
    <3>6. VmBase + vmTotal < W
      <4>1. \A a, c, v, w \in Nat : a <= c /\ v + c < w => v + a < w
        OBVIOUS
      <4> QED
        BY <4>1, <3>3, <3>4, <3>5, LayoutAssumption
    <3> QED
      BY <3>6 DEF NoVmWrap
  <2>3. Extent(b, vm[b]) \subseteq committed
    BY <2>1, <2>2 DEF VmStaysCommitted
  <2>4. ASSUME NEW t \in Thread, PoolDecommit(t)
        PROVE  Extent(b, vm'[b]) \subseteq committed'
    <3>1. vm' = vm
      BY <2>4 DEF PoolDecommit
    <3>2. b \in Int /\ vm[b] \in Int
      BY LayoutAssumption DEF TypeOK, Page
    <3>3. CASE vm[b] = 0
      BY <3>1, <3>2, <3>3 DEF Extent
    <3>4. CASE vm[b] # 0
      <4>1. VmBase <= b
        BY <3>4, <2>2 DEF VmInv, VmBounds
      <4>2. \A p \in Extent(b, vm[b]) : p \in Int /\ p >= VmBase /\ p \in committed
        BY <4>1, <3>2, <2>3, LayoutAssumption DEF Extent
      <4>3. VmBase \in Nat /\ VmBase < W
        BY LayoutAssumption
      <4> QED
        BY <4>2, <4>3, <3>1, <2>1, <2>4, DecommitReach
    <3> QED
      BY <3>3, <3>4
  <2>5. ASSUME NEW t \in Thread, VmCommit(t)
        PROVE  Extent(b, vm'[b]) \subseteq committed'
    <3>1. committed' = committed \cup Extent(base[t], size[t])
      BY <2>5 DEF VmCommit
    <3>2. vm'[b] = vm[b] \/ (b = base[t] /\ vm'[b] = size[t])
      BY <2>5 DEF VmCommit, TypeOK
    <3> QED
      BY <3>1, <3>2, <2>3
  <2>6. CASE ~(\E t \in Thread : PoolDecommit(t) \/ VmCommit(t))
    <3>1. vm' = vm
      BY <2>6 DEF Next, Pool, Vm, PoolClaim, PoolCommit, PoolCommitFails, PoolRecord, PoolErase,
         VmClaim, VmFixedClaim, VmEmpty, VmCommitFails, vars
    <3>2. committed \subseteq committed'
      BY <2>6, OnlyDecommit
    <3> QED
      BY <3>1, <3>2, <2>3
  <2> QED
    BY <2>4, <2>5, <2>6
<1>3. Init => VmInv
  BY LayoutAssumption DEF Init, VmInv, VmBounds, VmDisjoint
<1> QED
  BY <1>1, <1>2, <1>3, VmStep, PoolInvariant, PTL DEF Spec

-----------------------------------------------------------------------------
(* The refinement of the block allocator *)

(* Until the cursor wraps, every recorded block starts in the arena and    *)
(* ends there.                                                             *)
LEMMA RecordedInArena ==
  ASSUME TypeOK, PoolInv, NoPoolWrap, NEW b \in Page, pool[b] # 0
  PROVE  b \in PoolArena
<1>1. PoolBase <= b /\ b + pool[b] <= PoolLimit
  BY DEF PoolInv, PoolBounds, InBounds
<1>2. b \in Nat /\ pool[b] \in Nat
  BY PageFacts DEF TypeOK
<1> QED
  BY <1>1, <1>2, LayoutAssumption DEF PoolArena

(* The record makes live a fresh block inside the arena whose pages are    *)
(* already committed: the size it holds is not 0, because the host         *)
(* refused to commit an empty range.                                       *)
LEMMA RecordAllocates ==
  ASSUME TypeOK, PoolInv, NoPoolWrap, NEW t \in Thread, PoolRecord(t)
  PROVE  Blocks!AbsNext
<1> DEFINE b == base[t]
           n == size[t]
<1>1. /\ pc[t] = "poolRecord" /\ InPool(t)
      /\ pool' = [pool EXCEPT ![b] = n]
      /\ UNCHANGED committed
      /\ b \in Page /\ n \in Page /\ b \in Nat /\ n \in Nat
  BY PageFacts DEF PoolRecord, TypeOK, InPool
<1>2. n # 0 /\ Extent(b, n) \subseteq committed
  BY <1>1 DEF PoolInv, FreshCommitted
<1>3. PoolBase <= b /\ b + n <= PoolLimit
  BY <1>1 DEF PoolInv, PoolBounds, InBounds
<1>4. \A c \in Page : pool[c] # 0 => Apart(b, n, c, pool[c])
  BY <1>1 DEF PoolInv, PoolDisjoint
<1> HIDE DEF b, n
<1>5. b \in PoolArena /\ n \in 1 .. (PoolLimit - PoolBase) /\ n > 0
  BY <1>1, <1>2, <1>3, LayoutAssumption DEF PoolArena
<1>6. Blocks!Extent(b, n) \subseteq PoolArena
  BY <1>1, <1>3, LayoutAssumption DEF Blocks!Extent, PoolArena
<1>7. ASSUME NEW c \in PoolArena
      PROVE  Blocks!Extent(b, n) \cap Blocks!Extent(c, liveBlocks[c]) = {}
  <2>0. c \in Page
    BY LayoutAssumption DEF PoolArena, Page
  <2>1. c \in Nat /\ pool[c] \in Nat
    BY <2>0, PageFacts DEF TypeOK
  <2>2. liveBlocks[c] = pool[c]
    BY DEF liveBlocks
  <2>3. CASE pool[c] = 0
    BY <2>1, <2>2, <2>3 DEF Blocks!Extent
  <2>4. CASE pool[c] # 0
    BY <1>1, <1>4, <2>0, <2>1, <2>2, <2>4 DEF Blocks!Extent, Apart
  <2> QED
    BY <2>3, <2>4
<1>8. Blocks!Extent(b, n) \subseteq committed
  BY <1>2 DEF Extent, Blocks!Extent
<1>9. liveBlocks' = [liveBlocks EXCEPT ![b] = n]
  <2>1. ASSUME NEW c \in PoolArena
        PROVE  pool'[c] = IF c = b THEN n ELSE pool[c]
    <3>1. c \in Page
      BY LayoutAssumption DEF PoolArena, Page
    <3> QED
      BY <3>1, <1>1 DEF TypeOK
  <2> QED
    BY <2>1 DEF liveBlocks
<1>10. Blocks!Allocate(b, n)
  BY <1>1, <1>5, <1>6, <1>7, <1>8, <1>9 DEF Blocks!Allocate
<1> QED
  BY <1>5, <1>10 DEF Blocks!AbsNext

(* ExFreePool frees the block at the moment it erases it from the map; an  *)
(* address the map does not know changes nothing.                          *)
LEMMA EraseFrees ==
  ASSUME TypeOK, PoolInv, NoPoolWrap, NEW t \in Thread, NEW p \in Page, PoolErase(t, p)
  PROVE  Blocks!AbsNext \/ UNCHANGED <<liveBlocks, committed>>
<1>1. UNCHANGED committed
  BY DEF PoolErase
<1>2. CASE pool[p] = 0
  BY <1>1, <1>2 DEF PoolErase, liveBlocks
<1>3. CASE pool[p] # 0
  <2>1. p \in PoolArena
    BY <1>3, RecordedInArena
  <2>2. liveBlocks[p] # 0
    BY <1>3, <2>1 DEF liveBlocks
  <2>3. liveBlocks' = [liveBlocks EXCEPT ![p] = 0]
    <3>1. ASSUME NEW c \in PoolArena
          PROVE  pool'[c] = IF c = p THEN 0 ELSE pool[c]
      <4>1. c \in Page
        BY LayoutAssumption DEF PoolArena, Page
      <4> QED
        BY <4>1, <1>3 DEF PoolErase, TypeOK
    <3> QED
      BY <3>1 DEF liveBlocks
  <2>4. Blocks!Free(p)
    BY <1>1, <2>2, <2>3 DEF Blocks!Free
  <2> QED
    BY <2>1, <2>4 DEF Blocks!AbsNext
<1> QED
  BY <1>2, <1>3

(* Every other step leaves the map alone; whatever it commits or decommits *)
(* (virtual memory included), the pages of live blocks stay usable.        *)
LEMMA OthersRemap ==
  ASSUME TypeOK', PoolCommitted', NoPoolWrap', UNCHANGED pool
  PROVE  Blocks!AbsNext
<1>1. committed' \subseteq Int
  BY PageFacts DEF TypeOK
<1>2. UNCHANGED liveBlocks
  BY DEF liveBlocks
<1>3. ASSUME NEW c \in PoolArena
      PROVE  Blocks!Extent(c, liveBlocks[c]) \subseteq committed'
  <2>1. c \in Page
    BY LayoutAssumption DEF PoolArena, Page
  <2>2. Extent(c, pool'[c]) \subseteq committed'
    BY <2>1 DEF PoolCommitted, Extent
  <2> QED
    BY <2>2 DEF Extent, Blocks!Extent, liveBlocks
<1>4. Blocks!Remap
  BY <1>1, <1>2, <1>3 DEF Blocks!Remap
<1> QED
  BY <1>4 DEF Blocks!AbsNext

(* pool.cpp implements the block allocator, up to the call that makes its  *)
(* cursor wrap: a block that is handed out is fresh, inside the arena and  *)
(* accessible, and it stays so until the ExFreePool that erases it, for    *)
(* any number of threads, also beside NtAllocateVirtualMemory.             *)
THEOREM PoolImplementsBlockAllocator == Spec => PoolRefinesBlockAllocator
<1>1. Init => Blocks!AbsInit
  <2> SUFFICES ASSUME Init
               PROVE  Blocks!AbsInit
    OBVIOUS
  <2>1. \A b \in PoolArena : b \in Page
    BY LayoutAssumption DEF PoolArena, Page
  <2>2. liveBlocks = [b \in PoolArena |-> 0]
    BY <2>1 DEF Init, liveBlocks
  <2>3. committed \subseteq Int
    BY PageFacts DEF Init
  <2> QED
    BY <2>2, <2>3 DEF Blocks!AbsInit
<1>2. /\ TypeOK /\ PoolInv /\ (TypeOK /\ PoolInv)'
      /\ [Next]_vars
      => [NoPoolWrap' => [Blocks!AbsNext]_(Blocks!absVars)]_vars
  <2> SUFFICES ASSUME TypeOK, PoolInv, (TypeOK /\ PoolInv)', Next, NoPoolWrap'
               PROVE  Blocks!AbsNext \/ UNCHANGED <<liveBlocks, committed>>
    BY DEF Blocks!absVars
  <2>1. NoPoolWrap
    <3>1. poolTotal \in Nat /\ poolTotal' \in Nat /\ poolTotal <= poolTotal'
      BY PoolTotalGrows DEF TypeOK
    <3>2. PoolBase + poolTotal' < W
      BY DEF NoPoolWrap
    <3>3. PoolBase + poolTotal < W
      <4>1. PoolBase \in Nat /\ W \in Nat
        BY LayoutAssumption
      <4>2. \A b, x, y, w \in Nat : x <= y /\ b + y < w => b + x < w
        OBVIOUS
      <4> QED
        BY <3>1, <3>2, <4>1, <4>2
    <3> QED
      BY <3>3 DEF NoPoolWrap
  <2>2. ASSUME NEW t \in Thread, PoolRecord(t)
        PROVE  Blocks!AbsNext
    BY <2>1, <2>2, RecordAllocates
  <2>3. ASSUME NEW t \in Thread, NEW p \in Page, PoolErase(t, p)
        PROVE  Blocks!AbsNext \/ UNCHANGED <<liveBlocks, committed>>
    BY <2>1, <2>3, EraseFrees
  <2>4. CASE UNCHANGED pool
    <3>1. TypeOK' /\ PoolCommitted'
      BY DEF PoolInv
    <3> QED
      BY <2>4, <3>1, OthersRemap
  <2> QED
    BY <2>2, <2>3, <2>4 DEF Next, Pool, Vm, PoolClaim, PoolCommit, PoolCommitFails, PoolDecommit,
       VmClaim, VmFixedClaim, VmEmpty, VmCommit, VmCommitFails
<1> QED
  BY <1>1, <1>2, PoolInvariant, PTL DEF Spec, PoolRefinesBlockAllocator
===============================================================================
