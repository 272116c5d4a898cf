--------------------------- MODULE CriticalSections ---------------------------
(***************************************************************************)
(* The guest's critical sections, src/native/imports/sync.cpp.             *)
(*                                                                         *)
(* The runtime ignores the guest's RTL_CRITICAL_SECTION and keeps a host   *)
(* std::recursive_mutex per guest address, made when the address is first  *)
(* used.  Every import first calls GetCriticalSection, which runs under    *)
(* gCriticalSectionsMutex, and then works on the mutex it got with that    *)
(* lock released.                                                          *)
(*                                                                         *)
(* The guest leaves only sections it is inside: unlocking a mutex that the *)
(* thread does not own is undefined in C++ and is not modelled.            *)
(***************************************************************************)
EXTENDS Integers, FiniteSets

CONSTANTS
  Thread,     \* guest threads
  Address,    \* guest addresses of critical sections
  MaxMutex,   \* bound: host mutexes that can be made
  MaxDepth,   \* bound: how deep a thread nests in one section
  NoThread

ASSUME SectionAssumption ==
  /\ MaxMutex \in Nat /\ MaxDepth \in Nat
  /\ NoThread \notin Thread

Mutex == 1 .. MaxMutex

VARIABLES
  section,   \* gCriticalSections: the mutex of an address, 0 = no entry
  created,   \* how many mutexes make_shared has made
  owner,     \* the thread that has a mutex locked
  count,     \* how often the owner locked it
  pc,        \* where a thread is in a handler
  address,   \* r3 of the handler
  handle,    \* the shared_ptr GetCriticalSection returned
  depth      \* how often a thread is inside a section, as the guest counts

vars == <<section, created, owner, count, pc, address, handle, depth>>

-----------------------------------------------------------------------------
Goto(t, label) == pc' = [pc EXCEPT ![t] = label]

Init ==
  /\ section = [a \in Address |-> 0]
  /\ created = 0
  /\ owner = [m \in Mutex |-> NoThread]
  /\ count = [m \in Mutex |-> 0]
  /\ pc = [t \in Thread |-> "guest"]
  /\ address \in [Thread -> Address]
  /\ handle = [t \in Thread |-> 0]
  /\ depth = [t \in Thread |-> [a \in Address |-> 0]]

(* Variant: the entry is always filled with a new mutex, as if the section *)
(* had to be initialised afresh.                                           *)
GetCriticalSection_Fresh(t, a) ==
  /\ created < MaxMutex
  /\ created' = created + 1
  /\ section' = [section EXCEPT ![a] = created + 1]
  /\ handle' = [handle EXCEPT ![t] = created + 1]

(* GetCriticalSection(guestAddress), one step under gCriticalSectionsMutex. *)
GetCriticalSection(t, a) ==
  \/ /\ section[a] # 0
     /\ handle' = [handle EXCEPT ![t] = section[a]]
     /\ UNCHANGED <<section, created>>
  \/ /\ section[a] = 0
     /\ created < MaxMutex
     /\ created' = created + 1
     /\ section' = [section EXCEPT ![a] = created + 1]
     /\ handle' = [handle EXCEPT ![t] = created + 1]

(* The first step of every import.                                         *)
Call(t, a, label) ==
  /\ pc[t] = "guest"
  /\ GetCriticalSection(t, a)
  /\ address' = [address EXCEPT ![t] = a]
  /\ Goto(t, label)
  /\ UNCHANGED <<owner, count, depth>>

(* RtlInitializeCriticalSection and ...AndSpinCount: the lookup is all.    *)
Initialize(t, a) == Call(t, a, "guest")

Enter(t, a) == depth[t][a] < MaxDepth /\ Call(t, a, "lock")

TryEnter(t, a) == depth[t][a] < MaxDepth /\ Call(t, a, "tryLock")

Leave(t, a) == depth[t][a] > 0 /\ Call(t, a, "unlock")

-----------------------------------------------------------------------------
Available(t, m) == owner[m] \in {NoThread, t}

(* The mutex is t's once more, and the guest is inside the section.        *)
Acquire(t) ==
  /\ Available(t, handle[t])
  /\ owner' = [owner EXCEPT ![handle[t]] = t]
  /\ count' = [count EXCEPT ![handle[t]] = @ + 1]
  /\ depth' = [depth EXCEPT ![t][address[t]] = @ + 1]
  /\ Goto(t, "guest")
  /\ UNCHANGED <<section, created, address, handle>>

(* lock() returns.                                                         *)
Lock(t) == pc[t] = "lock" /\ Acquire(t)

(* try_lock() returns true.                                                *)
TryLock(t) == pc[t] = "tryLock" /\ Acquire(t)

(* Variant: the return value of try_lock is dropped and r3 is always 1.    *)
TryLockFails_Ignored(t) ==
  /\ pc[t] = "tryLock"
  /\ ~Available(t, handle[t])
  /\ depth' = [depth EXCEPT ![t][address[t]] = @ + 1]
  /\ Goto(t, "guest")
  /\ UNCHANGED <<section, created, owner, count, address, handle>>

(* try_lock() returns false, which r3 hands to the guest.                  *)
TryLockFails(t) ==
  /\ pc[t] = "tryLock"
  /\ ~Available(t, handle[t])
  /\ Goto(t, "guest")
  /\ UNCHANGED <<section, created, owner, count, address, handle, depth>>

(* Variant: the first unlock releases the mutex, as a non-recursive one.   *)
Unlock_Flat(t) ==
  /\ pc[t] = "unlock"
  /\ owner' = [owner EXCEPT ![handle[t]] = NoThread]
  /\ count' = [count EXCEPT ![handle[t]] = 0]
  /\ depth' = [depth EXCEPT ![t][address[t]] = @ - 1]
  /\ Goto(t, "guest")
  /\ UNCHANGED <<section, created, address, handle>>

(* Variant: unlock never reaches the mutex.                                *)
Unlock_Lost(t) ==
  /\ pc[t] = "unlock"
  /\ depth' = [depth EXCEPT ![t][address[t]] = @ - 1]
  /\ Goto(t, "guest")
  /\ UNCHANGED <<section, created, owner, count, address, handle>>

(* unlock() of a recursive mutex the thread owns.                          *)
Unlock(t) ==
  /\ pc[t] = "unlock"
  /\ count' = [count EXCEPT ![handle[t]] = @ - 1]
  /\ owner' = [owner EXCEPT ![handle[t]] = IF count[handle[t]] = 1 THEN NoThread ELSE @]
  /\ depth' = [depth EXCEPT ![t][address[t]] = @ - 1]
  /\ Goto(t, "guest")
  /\ UNCHANGED <<section, created, address, handle>>

Next ==
  \E t \in Thread :
    \/ \E a \in Address : Initialize(t, a) \/ Enter(t, a) \/ TryEnter(t, a) \/ Leave(t, a)
    \/ Lock(t)
    \/ TryLock(t)
    \/ TryLockFails(t)
    \/ Unlock(t)

(* The host runs every thread that can go on.  Nothing makes a guest leave *)
(* a section, and a recursive_mutex does not queue its waiters: a waiter   *)
(* gets the mutex for sure only when it stays free.                        *)
Fairness ==
  \A t \in Thread :
    /\ WF_vars(Lock(t))
    /\ WF_vars(TryLock(t) \/ TryLockFails(t))
    /\ WF_vars(Unlock(t))

Spec == Init /\ [][Next]_vars

FairSpec == Spec /\ Fairness

-----------------------------------------------------------------------------
(* Types and properties *)

TypeOK ==
  /\ section \in [Address -> 0 .. MaxMutex]
  /\ created \in 0 .. MaxMutex
  /\ owner \in [Mutex -> Thread \cup {NoThread}]
  /\ count \in [Mutex -> Nat]
  /\ pc \in [Thread -> {"guest", "lock", "tryLock", "unlock"}]
  /\ address \in [Thread -> Address]
  /\ handle \in [Thread -> 0 .. MaxMutex]
  /\ depth \in [Thread -> [Address -> Nat]]

(* Two threads are never inside the section of one address, also when the  *)
(* section is first used by several threads at once or initialised again   *)
(* while a thread is inside (sync.cpp keeps the mutex it has).             *)
MutualExclusion ==
  \A t, u \in Thread, a \in Address :
    depth[t][a] > 0 /\ depth[u][a] > 0 => t = u

(* A thread in a handler works on the mutex the map has for the address,   *)
(* although it looked it up earlier and released gCriticalSectionsMutex.   *)
HandleIsCurrent ==
  \A t \in Thread : pc[t] # "guest" => handle[t] = section[address[t]] /\ handle[t] # 0

(* Sections of different addresses never block each other.                 *)
SectionsIndependent ==
  \A a, b \in Address : a # b /\ section[a] # 0 => section[a] # section[b]

Waiting(t, a) == pc[t] = "lock" /\ address[t] = a
Inside(t, a) == depth[t][a] > 0

(* A section somebody waits for does not stay free: a thread in            *)
(* RtlEnterCriticalSection gets in, or another thread is inside.           *)
WaiterGoesOn ==
  \A a \in Address :
    (\E t \in Thread : Waiting(t, a)) ~> (\E t \in Thread : Inside(t, a))

-----------------------------------------------------------------------------
(* The abstract locks: an address is a section, and whoever owns the mutex *)
(* the map has for it holds the section.                                   *)
HolderOf(a) == IF section[a] = 0 THEN NoThread ELSE owner[section[a]]
NestingOf(a) == IF section[a] = 0 THEN 0 ELSE count[section[a]]

holders == [a \in Address |-> HolderOf(a)]
nestings == [a \in Address |-> NestingOf(a)]

Locks == INSTANCE RecursiveLocks
           WITH Section <- Address, Nobody <- NoThread, holder <- holders, nesting <- nestings

(* The imports of sync.cpp implement recursive locks named by address,     *)
(* although the mutexes are made on demand and found by a separate step.   *)
SectionsRefineLocks == Locks!AbsSpec
===============================================================================
