------------------------ MODULE CriticalSections_proofs ------------------------
(***************************************************************************)
(* Proofs about CriticalSections, for every set of threads and addresses.  *)
(***************************************************************************)
EXTENDS CriticalSections, TLAPS

(* The mutexes in the map have been made, one for each address.            *)
MapInv ==
  /\ \A a \in Address : section[a] <= created
  /\ SectionsIndependent

(* A mutex is counted exactly while it is owned, and one that was not made *)
(* yet is not owned.                                                       *)
OwnerInv ==
  /\ \A m \in Mutex : count[m] = 0 <=> owner[m] = NoThread
  /\ \A m \in Mutex : m > created => owner[m] = NoThread

(* A thread is inside a section as often as it has locked its mutex; this  *)
(* is what makes MutualExclusion inductive.                                *)
DepthInv ==
  \A t \in Thread, a \in Address :
    depth[t][a] = IF section[a] # 0 /\ owner[section[a]] = t THEN count[section[a]] ELSE 0

UnlockInv == \A t \in Thread : pc[t] = "unlock" => depth[t][address[t]] > 0

LockInv == MapInv /\ OwnerInv /\ DepthInv /\ UnlockInv /\ HandleIsCurrent

Lookups(t) ==
  \E a \in Address : Initialize(t, a) \/ Enter(t, a) \/ TryEnter(t, a) \/ Leave(t, a)

(* Every import starts with the same step; only Leave comes with a claim   *)
(* about the guest.                                                        *)
LEMMA LookupIsCall ==
  ASSUME NEW t \in Thread, Lookups(t)
  PROVE  \E a \in Address, label \in {"guest", "lock", "tryLock", "unlock"} :
           Call(t, a, label) /\ (label = "unlock" => depth[t][a] > 0)
BY DEF Lookups, Initialize, Enter, TryEnter, Leave

LEMMA TypeStep == TypeOK /\ LockInv /\ [Next]_vars => TypeOK'
<1> SUFFICES ASSUME TypeOK, LockInv, [Next]_vars
             PROVE  TypeOK'
  OBVIOUS
<1> USE SectionAssumption DEF TypeOK, Goto, Mutex
<1>1. ASSUME NEW t \in Thread, Lookups(t)
      PROVE  TypeOK'
  <2>1. PICK a \in Address, label \in {"guest", "lock", "tryLock", "unlock"} : Call(t, a, label)
    BY <1>1, LookupIsCall
  <2>2. created' \in 0 .. MaxMutex
    <3>1. created' = created \/ (created < MaxMutex /\ created' = created + 1)
      BY <2>1 DEF Call, GetCriticalSection
    <3> QED
      BY <3>1
  <2>3. section' \in [Address -> 0 .. MaxMutex] /\ handle' \in [Thread -> 0 .. MaxMutex]
    <3>1. CASE section[a] # 0
      BY <2>1, <3>1 DEF Call, GetCriticalSection
    <3>2. CASE section[a] = 0
      <4>1. created < MaxMutex
        BY <2>1, <3>2 DEF Call, GetCriticalSection
      <4>2. created + 1 \in 0 .. MaxMutex
        <5>1. \A c, k \in Nat : c < k => c + 1 \in 0 .. k
          OBVIOUS
        <5> QED
          BY <4>1, <5>1
      <4>3. /\ section' = [section EXCEPT ![a] = created + 1]
            /\ handle' = [handle EXCEPT ![t] = created + 1]
        BY <2>1, <3>2 DEF Call, GetCriticalSection
      <4>4. section' \in [Address -> 0 .. MaxMutex]
        BY <4>2, <4>3
      <4>5. handle' \in [Thread -> 0 .. MaxMutex]
        BY <4>2, <4>3
      <4> QED
        BY <4>4, <4>5
    <3> QED
      BY <3>1, <3>2
  <2> QED
    BY <2>1, <2>2, <2>3 DEF Call
<1>2. ASSUME NEW t \in Thread, pc[t] # "guest", Acquire(t)
      PROVE  TypeOK'
  <2>1. handle[t] \in Mutex /\ address[t] \in Address
    BY <1>2 DEF LockInv, HandleIsCurrent
  <2>2. count' \in [Mutex -> Nat] /\ owner' \in [Mutex -> Thread \cup {NoThread}]
    BY <1>2, <2>1 DEF Acquire
  <2>3. depth' \in [Thread -> [Address -> Nat]]
    BY <1>2, <2>1 DEF Acquire
  <2> QED
    BY <1>2, <2>2, <2>3 DEF Acquire
<1>3. ASSUME NEW t \in Thread, TryLockFails(t)
      PROVE  TypeOK'
  BY <1>3 DEF TryLockFails
<1>4. ASSUME NEW t \in Thread, Unlock(t)
      PROVE  TypeOK'
  <2>1. /\ handle[t] = section[address[t]] /\ handle[t] \in Mutex /\ address[t] \in Address
        /\ depth[t][address[t]] > 0
    BY <1>4 DEF Unlock, LockInv, HandleIsCurrent, UnlockInv
  <2>2. count[handle[t]] = depth[t][address[t]]
    BY <2>1 DEF LockInv, DepthInv
  <2>3. count[handle[t]] - 1 \in Nat /\ depth[t][address[t]] - 1 \in Nat
    BY <2>1, <2>2
  <2>4. count' \in [Mutex -> Nat] /\ owner' \in [Mutex -> Thread \cup {NoThread}]
    BY <1>4, <2>1, <2>3 DEF Unlock
  <2>5. depth' \in [Thread -> [Address -> Nat]]
    BY <1>4, <2>1, <2>3 DEF Unlock
  <2> QED
    BY <1>4, <2>4, <2>5 DEF Unlock
<1>5. CASE UNCHANGED vars
  BY <1>5 DEF vars
<1> QED
  BY <1>1, <1>2, <1>3, <1>4, <1>5 DEF Next, Lookups, Lock, TryLock

-----------------------------------------------------------------------------
(* The first step of an import: the map may grow, nothing is locked.       *)
LEMMA CallStep ==
  ASSUME TypeOK, LockInv, NEW t \in Thread, Lookups(t)
  PROVE  LockInv'
<1>1. PICK a \in Address, label \in {"guest", "lock", "tryLock", "unlock"} :
        Call(t, a, label) /\ (label = "unlock" => depth[t][a] > 0)
  BY LookupIsCall
<1>2. /\ UNCHANGED <<owner, count, depth>>
      /\ pc[t] = "guest" /\ pc'[t] = label /\ address'[t] = a
      /\ \A u \in Thread : u # t => pc'[u] = pc[u] /\ address'[u] = address[u] /\ handle'[u] = handle[u]
  BY <1>1 DEF Call, Goto, TypeOK, GetCriticalSection
<1>3. /\ handle'[t] = section'[a] /\ section'[a] # 0
      /\ \A b \in Address : b # a => section'[b] = section[b]
      /\ \/ UNCHANGED <<section, created>>
         \/ section[a] = 0 /\ section'[a] = created + 1 /\ created' = created + 1 /\ created < MaxMutex
  BY <1>1, SectionAssumption DEF Call, GetCriticalSection, TypeOK
<1>4. created \in Nat /\ \A b \in Address : section[b] \in Nat /\ section[b] <= created
  BY DEF TypeOK, LockInv, MapInv
<1>5. MapInv'
  <2>1. \A b \in Address : section'[b] <= created'
    BY <1>3, <1>4
  <2>2. SectionsIndependent'
    BY <1>3, <1>4 DEF LockInv, MapInv, SectionsIndependent
  <2> QED
    BY <2>1, <2>2 DEF MapInv
<1>6. OwnerInv'
  <2>1. \A m \in Mutex : m > created' => m > created
    BY <1>3, <1>4 DEF Mutex
  <2> QED
    BY <2>1, <1>2 DEF LockInv, OwnerInv
<1>7. DepthInv'
  <2> SUFFICES ASSUME NEW u \in Thread, NEW b \in Address
               PROVE  depth[u][b] = IF section'[b] # 0 /\ owner[section'[b]] = u
                                    THEN count[section'[b]] ELSE 0
    BY <1>2 DEF DepthInv
  <2>1. depth[u][b] = IF section[b] # 0 /\ owner[section[b]] = u THEN count[section[b]] ELSE 0
    BY DEF LockInv, DepthInv
  <2>2. CASE section'[b] = section[b]
    BY <2>1, <2>2
  <2>3. CASE section'[b] # section[b]
    <3>1. section[b] = 0 /\ section'[b] = created + 1 /\ section'[b] \in Mutex
      BY <2>3, <1>3, <1>4, SectionAssumption DEF Mutex
    <3>2. owner[section'[b]] = NoThread
      BY <3>1, <1>4 DEF LockInv, OwnerInv
    <3> QED
      BY <2>1, <3>1, <3>2, SectionAssumption
  <2> QED
    BY <2>2, <2>3
<1>8. UnlockInv'
  BY <1>1, <1>2 DEF LockInv, UnlockInv
<1>9. HandleIsCurrent'
  <2> SUFFICES ASSUME NEW u \in Thread, pc'[u] # "guest"
               PROVE  handle'[u] = section'[address'[u]] /\ handle'[u] # 0
    BY DEF HandleIsCurrent
  <2>1. CASE u = t
    BY <2>1, <1>2, <1>3
  <2>2. CASE u # t
    <3>1. handle[u] = section[address[u]] /\ handle[u] # 0 /\ address[u] \in Address
      BY <2>2, <1>2 DEF LockInv, HandleIsCurrent, TypeOK
    <3> QED
      BY <2>2, <3>1, <1>2, <1>3
  <2> QED
    BY <2>1, <2>2
<1> QED
  BY <1>5, <1>6, <1>7, <1>8, <1>9 DEF LockInv

LEMMA AcquireStep ==
  ASSUME TypeOK, LockInv, NEW t \in Thread, pc[t] # "guest", Acquire(t)
  PROVE  LockInv'
<1> DEFINE m == handle[t]
           a == address[t]
<1>1. m \in Mutex /\ a \in Address /\ m = section[a] /\ m # 0
  BY DEF LockInv, HandleIsCurrent, TypeOK, Mutex
<1>2. /\ owner[m] \in {NoThread, t}
      /\ UNCHANGED <<section, created, address, handle>>
      /\ pc'[t] = "guest"
      /\ \A u \in Thread : u # t => pc'[u] = pc[u]
      /\ \A k \in Mutex : owner'[k] = IF k = m THEN t ELSE owner[k]
      /\ \A k \in Mutex : count'[k] = IF k = m THEN count[m] + 1 ELSE count[k]
      /\ \A u \in Thread, b \in Address :
           depth'[u][b] = IF u = t /\ b = a THEN depth[t][a] + 1 ELSE depth[u][b]
  BY <1>1 DEF Acquire, Available, Goto, TypeOK
<1>3. count[m] \in Nat /\ (count[m] = 0 <=> owner[m] = NoThread)
  BY <1>1 DEF TypeOK, LockInv, OwnerInv
<1>4. depth[t][a] = count[m]
  BY <1>1, <1>2, <1>3, SectionAssumption DEF LockInv, DepthInv
<1> HIDE DEF m, a
<1>5. MapInv'
  BY <1>2 DEF LockInv, MapInv, SectionsIndependent
<1>6. OwnerInv'
  <2>1. m <= created
    BY <1>1 DEF LockInv, MapInv
  <2>2. ASSUME NEW k \in Mutex
        PROVE  (count'[k] = 0 <=> owner'[k] = NoThread) /\ (k > created => owner'[k] = NoThread)
    <3>1. CASE k = m
      BY <3>1, <2>1, <1>1, <1>2, <1>3, SectionAssumption DEF Mutex, TypeOK
    <3>2. CASE k # m
      BY <3>2, <1>2 DEF LockInv, OwnerInv
    <3> QED
      BY <3>1, <3>2
  <2> QED
    BY <2>2, <1>2 DEF OwnerInv
<1>7. DepthInv'
  <2> SUFFICES ASSUME NEW u \in Thread, NEW b \in Address
               PROVE  depth'[u][b] = IF section[b] # 0 /\ owner'[section[b]] = u
                                     THEN count'[section[b]] ELSE 0
    BY <1>2 DEF DepthInv
  <2>1. depth[u][b] = IF section[b] # 0 /\ owner[section[b]] = u THEN count[section[b]] ELSE 0
    BY DEF LockInv, DepthInv
  <2>2. CASE b = a
    <3>1. CASE u = t
      BY <2>2, <3>1, <1>1, <1>2, <1>4
    <3>2. CASE u # t
      BY <2>1, <2>2, <3>2, <1>1, <1>2, SectionAssumption
    <3> QED
      BY <3>1, <3>2
  <2>3. CASE b # a
    <3>1. section[b] # 0 => section[b] \in Mutex /\ section[b] # m
      BY <2>3, <1>1 DEF LockInv, MapInv, SectionsIndependent, TypeOK, Mutex
    <3> QED
      BY <2>1, <2>3, <3>1, <1>2
  <2> QED
    BY <2>2, <2>3
<1>8. UnlockInv'
  <2> SUFFICES ASSUME NEW u \in Thread, pc'[u] = "unlock"
               PROVE  depth'[u][address[u]] > 0
    BY <1>2 DEF UnlockInv
  <2>1. u # t /\ pc[u] = "unlock" /\ address[u] \in Address
    BY <1>2 DEF TypeOK
  <2> QED
    BY <2>1, <1>2 DEF LockInv, UnlockInv
<1>9. HandleIsCurrent'
  BY <1>2 DEF LockInv, HandleIsCurrent
<1> QED
  BY <1>5, <1>6, <1>7, <1>8, <1>9 DEF LockInv

LEMMA UnlockStep ==
  ASSUME TypeOK, LockInv, NEW t \in Thread, Unlock(t)
  PROVE  LockInv'
<1> DEFINE m == handle[t]
           a == address[t]
<1>1. m \in Mutex /\ a \in Address /\ m = section[a] /\ m # 0 /\ depth[t][a] > 0
  BY DEF Unlock, LockInv, HandleIsCurrent, UnlockInv, TypeOK, Mutex
<1>2. /\ UNCHANGED <<section, created, address, handle>>
      /\ pc'[t] = "guest"
      /\ \A u \in Thread : u # t => pc'[u] = pc[u]
      /\ \A k \in Mutex : owner'[k] = IF k = m /\ count[m] = 1 THEN NoThread ELSE owner[k]
      /\ \A k \in Mutex : count'[k] = IF k = m THEN count[m] - 1 ELSE count[k]
      /\ \A u \in Thread, b \in Address :
           depth'[u][b] = IF u = t /\ b = a THEN depth[t][a] - 1 ELSE depth[u][b]
  BY <1>1 DEF Unlock, Goto, TypeOK
<1>3. owner[m] = t /\ depth[t][a] = count[m] /\ count[m] \in Nat /\ count[m] > 0
  BY <1>1 DEF LockInv, DepthInv, TypeOK
<1> HIDE DEF m, a
<1>5. MapInv'
  BY <1>2 DEF LockInv, MapInv, SectionsIndependent
<1>6. OwnerInv'
  <2>2. ASSUME NEW k \in Mutex
        PROVE  (count'[k] = 0 <=> owner'[k] = NoThread) /\ (k > created => owner'[k] = NoThread)
    <3>1. CASE k = m
      <4>1. m <= created
        BY <1>1 DEF LockInv, MapInv
      <4> QED
        BY <3>1, <4>1, <1>1, <1>2, <1>3, SectionAssumption DEF Mutex, TypeOK
    <3>2. CASE k # m
      BY <3>2, <1>2 DEF LockInv, OwnerInv
    <3> QED
      BY <3>1, <3>2
  <2> QED
    BY <2>2, <1>2 DEF OwnerInv
<1>7. DepthInv'
  <2> SUFFICES ASSUME NEW u \in Thread, NEW b \in Address
               PROVE  depth'[u][b] = IF section[b] # 0 /\ owner'[section[b]] = u
                                     THEN count'[section[b]] ELSE 0
    BY <1>2 DEF DepthInv
  <2>1. depth[u][b] = IF section[b] # 0 /\ owner[section[b]] = u THEN count[section[b]] ELSE 0
    BY DEF LockInv, DepthInv
  <2>2. CASE b = a
    <3>1. CASE u = t
      BY <2>2, <3>1, <1>1, <1>2, <1>3, SectionAssumption
    <3>2. CASE u # t
      BY <2>1, <2>2, <3>2, <1>1, <1>2, <1>3, SectionAssumption
    <3> QED
      BY <3>1, <3>2
  <2>3. CASE b # a
    <3>1. section[b] # 0 => section[b] \in Mutex /\ section[b] # m
      BY <2>3, <1>1 DEF LockInv, MapInv, SectionsIndependent, TypeOK, Mutex
    <3> QED
      BY <2>1, <2>3, <3>1, <1>2
  <2> QED
    BY <2>2, <2>3
<1>8. UnlockInv'
  <2> SUFFICES ASSUME NEW u \in Thread, pc'[u] = "unlock"
               PROVE  depth'[u][address[u]] > 0
    BY <1>2 DEF UnlockInv
  <2>1. u # t /\ pc[u] = "unlock" /\ address[u] \in Address
    BY <1>2 DEF TypeOK
  <2> QED
    BY <2>1, <1>2 DEF LockInv, UnlockInv
<1>9. HandleIsCurrent'
  BY <1>2 DEF LockInv, HandleIsCurrent
<1> QED
  BY <1>5, <1>6, <1>7, <1>8, <1>9 DEF LockInv

LEMMA LockStep == TypeOK /\ LockInv /\ [Next]_vars => LockInv'
<1> SUFFICES ASSUME TypeOK, LockInv, [Next]_vars
             PROVE  LockInv'
  OBVIOUS
<1>1. ASSUME NEW t \in Thread, TryLockFails(t)
      PROVE  LockInv'
  BY <1>1 DEF TryLockFails, Goto, TypeOK, LockInv, MapInv, SectionsIndependent, OwnerInv,
     DepthInv, UnlockInv, HandleIsCurrent
<1>2. CASE UNCHANGED vars
  BY <1>2 DEF vars, LockInv, MapInv, SectionsIndependent, OwnerInv, DepthInv, UnlockInv,
     HandleIsCurrent
<1> QED
  BY <1>1, <1>2, CallStep, AcquireStep, UnlockStep DEF Next, Lookups, Lock, TryLock

LEMMA LockInvariant == Spec => [](TypeOK /\ LockInv)
<1>1. Init => TypeOK /\ LockInv
  BY SectionAssumption DEF Init, TypeOK, LockInv, MapInv, SectionsIndependent, OwnerInv, DepthInv,
     UnlockInv, HandleIsCurrent, Mutex
<1> QED
  BY <1>1, TypeStep, LockStep, PTL DEF Spec

(* Every variable keeps its type: no lock count falls below zero.          *)
THEOREM SectionTypes == Spec => []TypeOK
BY LockInvariant, PTL

(* One thread at a time is inside a section, for any number of threads and *)
(* addresses.                                                              *)
THEOREM SectionsExclude == Spec => []MutualExclusion
<1>1. TypeOK /\ LockInv => MutualExclusion
  <2> SUFFICES ASSUME TypeOK, LockInv, NEW t \in Thread, NEW u \in Thread, NEW a \in Address,
                      depth[t][a] > 0, depth[u][a] > 0
               PROVE  t = u
    BY DEF MutualExclusion
  <2>1. owner[section[a]] = t /\ owner[section[a]] = u
    BY DEF LockInv, DepthInv
  <2> QED
    BY <2>1
<1> QED
  BY <1>1, LockInvariant, PTL

(* The mutex a handler locks or unlocks is still the one the map has.      *)
THEOREM HandlesStayCurrent == Spec => []HandleIsCurrent
<1>1. LockInv => HandleIsCurrent
  BY DEF LockInv
<1> QED
  BY <1>1, LockInvariant, PTL

(* Two addresses never share a mutex.                                      *)
THEOREM AddressesKeepApart == Spec => []SectionsIndependent
<1>1. LockInv => SectionsIndependent
  BY DEF LockInv, MapInv
<1> QED
  BY <1>1, LockInvariant, PTL

-----------------------------------------------------------------------------
(* The refinement: each step of an import is a step of the abstract locks  *)
(* or leaves them as they are.                                             *)

(* The lookup changes nothing: a mutex it makes is free, as its section    *)
(* was before there was one.                                               *)
LEMMA CallStutters ==
  ASSUME TypeOK, LockInv, NEW t \in Thread, Lookups(t)
  PROVE  UNCHANGED <<holders, nestings>>
<1>1. PICK a \in Address, label \in {"guest", "lock", "tryLock", "unlock"} : Call(t, a, label)
  BY LookupIsCall
<1>2. /\ UNCHANGED <<owner, count>>
      /\ \A b \in Address : b # a => section'[b] = section[b]
      /\ \/ UNCHANGED <<section, created>>
         \/ section[a] = 0 /\ section'[a] = created + 1 /\ created' = created + 1 /\ created < MaxMutex
  BY <1>1, SectionAssumption DEF Call, GetCriticalSection, TypeOK
<1>3. ASSUME NEW b \in Address
      PROVE  HolderOf(b)' = HolderOf(b) /\ NestingOf(b)' = NestingOf(b)
  <2>1. CASE section'[b] = section[b]
    BY <2>1, <1>2 DEF HolderOf, NestingOf
  <2>2. CASE section'[b] # section[b]
    <3>1. /\ section[b] = 0 /\ section'[b] = created + 1
          /\ section'[b] \in Mutex /\ section'[b] > created /\ section'[b] # 0
      BY <2>2, <1>2, SectionAssumption DEF TypeOK, Mutex
    <3>2. owner[section'[b]] = NoThread /\ count[section'[b]] = 0
      BY <3>1 DEF LockInv, OwnerInv
    <3> QED
      BY <3>1, <3>2, <1>2 DEF HolderOf, NestingOf
  <2> QED
    BY <2>1, <2>2
<1> QED
  BY <1>3 DEF holders, nestings

(* lock and a successful try_lock are an entry into the section of the     *)
(* address the handler was called with.                                    *)
LEMMA AcquireEnters ==
  ASSUME TypeOK, LockInv, NEW t \in Thread, pc[t] # "guest", Acquire(t)
  PROVE  Locks!AbsEnter(t, address[t])
<1> DEFINE m == handle[t]
           a == address[t]
<1>1. m \in Mutex /\ a \in Address /\ m = section[a] /\ m # 0
  BY DEF LockInv, HandleIsCurrent, TypeOK, Mutex
<1>2. /\ owner[m] \in {NoThread, t}
      /\ UNCHANGED section
      /\ \A k \in Mutex : owner'[k] = IF k = m THEN t ELSE owner[k]
      /\ \A k \in Mutex : count'[k] = IF k = m THEN count[m] + 1 ELSE count[k]
  BY <1>1 DEF Acquire, Available, TypeOK
<1> HIDE DEF m, a
<1>3. ASSUME NEW b \in Address, b # a, section[b] # 0
      PROVE  section[b] \in Mutex /\ section[b] # m
  BY <1>1, <1>3 DEF LockInv, MapInv, SectionsIndependent, TypeOK, Mutex
<1>4. holders[a] \in {NoThread, t}
  BY <1>1, <1>2 DEF holders, HolderOf
<1>5. holders' = [holders EXCEPT ![a] = t]
  <2>1. ASSUME NEW b \in Address
        PROVE  HolderOf(b)' = IF b = a THEN t ELSE HolderOf(b)
    BY <1>1, <1>2, <1>3 DEF HolderOf
  <2> QED
    BY <2>1 DEF holders
<1>6. nestings' = [nestings EXCEPT ![a] = @ + 1]
  <2>1. ASSUME NEW b \in Address
        PROVE  NestingOf(b)' = IF b = a THEN NestingOf(a) + 1 ELSE NestingOf(b)
    BY <1>1, <1>2, <1>3 DEF NestingOf
  <2> QED
    BY <2>1, <1>1 DEF nestings
<1> QED
  BY <1>4, <1>5, <1>6 DEF Locks!AbsEnter, a

(* unlock is a leave by the holder.                                        *)
LEMMA UnlockLeaves ==
  ASSUME TypeOK, LockInv, NEW t \in Thread, Unlock(t)
  PROVE  Locks!AbsLeave(t, address[t])
<1> DEFINE m == handle[t]
           a == address[t]
<1>1. m \in Mutex /\ a \in Address /\ m = section[a] /\ m # 0 /\ depth[t][a] > 0
  BY DEF Unlock, LockInv, HandleIsCurrent, UnlockInv, TypeOK, Mutex
<1>2. /\ UNCHANGED section
      /\ \A k \in Mutex : owner'[k] = IF k = m /\ count[m] = 1 THEN NoThread ELSE owner[k]
      /\ \A k \in Mutex : count'[k] = IF k = m THEN count[m] - 1 ELSE count[k]
  BY <1>1 DEF Unlock, TypeOK
<1>3. owner[m] = t
  BY <1>1 DEF LockInv, DepthInv, TypeOK
<1> HIDE DEF m, a
<1>4. ASSUME NEW b \in Address, b # a, section[b] # 0
      PROVE  section[b] \in Mutex /\ section[b] # m
  BY <1>1, <1>4 DEF LockInv, MapInv, SectionsIndependent, TypeOK, Mutex
<1>5. holders[a] = t /\ nestings[a] = count[m]
  BY <1>1, <1>3 DEF holders, HolderOf, nestings, NestingOf
<1>6. holders' = [holders EXCEPT ![a] = IF nestings[a] = 1 THEN NoThread ELSE t]
  <2>1. ASSUME NEW b \in Address
        PROVE  HolderOf(b)' = IF b = a THEN (IF count[m] = 1 THEN NoThread ELSE t) ELSE HolderOf(b)
    BY <1>1, <1>2, <1>3, <1>4 DEF HolderOf
  <2> QED
    BY <2>1, <1>5 DEF holders
<1>7. nestings' = [nestings EXCEPT ![a] = @ - 1]
  <2>1. ASSUME NEW b \in Address
        PROVE  NestingOf(b)' = IF b = a THEN NestingOf(a) - 1 ELSE NestingOf(b)
    BY <1>1, <1>2, <1>4 DEF NestingOf
  <2> QED
    BY <2>1, <1>1 DEF nestings
<1> QED
  BY <1>5, <1>6, <1>7 DEF Locks!AbsLeave, a

(* The imports implement recursive locks named by guest address: whatever  *)
(* the host maps an address to, callers see one lock per address that only *)
(* its holder can enter again or leave, and that is free exactly after as  *)
(* many leaves as entries.                                                 *)
THEOREM SectionsImplementLocks == Spec => SectionsRefineLocks
<1>1. Init => Locks!AbsInit
  BY DEF Init, Locks!AbsInit, holders, nestings, HolderOf, NestingOf
<1>2. TypeOK /\ LockInv /\ [Next]_vars => [Locks!AbsNext]_(Locks!absVars)
  <2> SUFFICES ASSUME TypeOK, LockInv, [Next]_vars
               PROVE  Locks!AbsNext \/ UNCHANGED <<holders, nestings>>
    BY DEF Locks!absVars
  <2>1. ASSUME NEW t \in Thread, TryLockFails(t)
        PROVE  UNCHANGED <<holders, nestings>>
    BY <2>1 DEF TryLockFails, holders, nestings, HolderOf, NestingOf
  <2>2. CASE UNCHANGED vars
    BY <2>2 DEF vars, holders, nestings, HolderOf, NestingOf
  <2>3. ASSUME NEW t \in Thread, Lock(t) \/ TryLock(t)
        PROVE  Locks!AbsNext
    <3>1. Locks!AbsEnter(t, address[t])
      BY <2>3, AcquireEnters DEF Lock, TryLock
    <3>2. address[t] \in Address
      BY DEF TypeOK
    <3> QED
      BY <3>1, <3>2 DEF Locks!AbsNext
  <2>4. ASSUME NEW t \in Thread, Unlock(t)
        PROVE  Locks!AbsNext
    <3>1. Locks!AbsLeave(t, address[t])
      BY <2>4, UnlockLeaves
    <3>2. address[t] \in Address
      BY DEF TypeOK
    <3> QED
      BY <3>1, <3>2 DEF Locks!AbsNext
  <2> QED
    BY <2>1, <2>2, <2>3, <2>4, CallStutters DEF Next, Lookups
<1> QED
  BY <1>1, <1>2, LockInvariant, PTL DEF Spec, SectionsRefineLocks, Locks!AbsSpec
===============================================================================
