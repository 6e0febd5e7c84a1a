------------------------ MODULE DescriptorSetAllocator ------------------------
(***************************************************************************)
(* The DescriptorSetAllocator of a device.  Recording threads allocate one *)
(* descriptor set per dispatch, the finalizer frees them.  allocate() tries*)
(* the active pool, rotates through the pools that were found exhausted    *)
(* earlier, and creates a pool only when all of them refused.  The driver  *)
(* decides which pool has room.                                            *)
(***************************************************************************)
EXTENDS Naturals, FiniteSets, SequencesExt

CONSTANTS
  Threads,   \* recording threads and the finalizer
  Pools,     \* identities of VkDescriptorPools
  Sets,      \* identities of VkDescriptorSets
  MaxSets,   \* poolSizes.maxSets
  MayFail,   \* TRUE: the driver may fail for want of memory
  MaxCount,  \* bound on allocated_count, which errors drive upwards
  None

ASSUME AllocatorAssumption ==
  /\ None \notin Threads \cup Pools \cup Sets
  /\ MaxSets \in Nat \ {0} /\ MaxCount \in Nat
  /\ MayFail \in BOOLEAN
  /\ IsFiniteSet(Sets)

VARIABLES
  lock,            \* DescriptorSetAllocator::lock, its holder or None
  at,              \* control point of a thread inside allocate()
  info,            \* local alloc_info.descriptorPool
  initial_pool,    \* local initial_pool
  asked,           \* pools that refused in this call (a history variable)
  got,             \* local descriptors: the set the driver gave, or None
  activePool,
  exhaustedPools,
  allocated_count,
  created,         \* driver: the pools that exist
  home,            \* driver: the pool a live set was allocated from
  given,           \* StagingResources::descriptorSets: the pool recorded with a set
  closed           \* cleanup() has run

callVars == <<at, info, initial_pool, asked, got>>
poolVars == <<activePool, exhaustedPools, created>>
vars == <<lock, callVars, poolVars, allocated_count, home, given, closed>>

TypeOK ==
  /\ lock \in Threads \cup {None}
  /\ at \in [Threads -> {"idle", "try", "rotate", "grow", "last", "return"}]
  /\ info \in [Threads -> Pools \cup {None}]
  /\ initial_pool \in [Threads -> Pools \cup {None}]
  /\ asked \in [Threads -> SUBSET Pools]
  /\ got \in [Threads -> Sets \cup {None}]
  /\ activePool \in Pools \cup {None}
  /\ exhaustedPools \in Seq(Pools)
  /\ allocated_count \in Nat
  /\ created \in SUBSET Pools
  /\ home \in [Sets -> Pools \cup {None}]
  /\ given \in [Sets -> Pools \cup {None}]
  /\ closed \in BOOLEAN

\* The constructor creates the first pool.
Init ==
  /\ lock = None
  /\ at = [t \in Threads |-> "idle"]
  /\ info = [t \in Threads |-> None]
  /\ initial_pool = [t \in Threads |-> None]
  /\ asked = [t \in Threads |-> {}]
  /\ got = [t \in Threads |-> None]
  /\ activePool \in Pools
  /\ exhaustedPools = <<>>
  /\ allocated_count = 0
  /\ created = {activePool}
  /\ home = [s \in Sets |-> None]
  /\ given = [s \in Sets |-> None]
  /\ closed = FALSE

-----------------------------------------------------------------------------
(* The driver.                                                              *)

Live(p) == {s \in Sets : home[s] = p}

\* vkAllocateDescriptorSets of one set succeeds only in a pool with room.
DriverAllocates(t, p) ==
  /\ Cardinality(Live(p)) < MaxSets
  /\ \E s \in Sets :
       /\ home[s] = None
       /\ home' = [home EXCEPT ![s] = p]
       /\ got' = [got EXCEPT ![t] = s]

-----------------------------------------------------------------------------
(* allocate(), under the lock from its first line to its return.            *)

\* Mutant of AllocateEnter: the scoped_lock is forgotten.
AllocateUnlocked(t) ==
  /\ ~closed /\ at[t] = "idle" /\ allocated_count < MaxCount
  /\ at' = [at EXCEPT ![t] = "try"]
  /\ info' = [info EXCEPT ![t] = activePool]
  /\ initial_pool' = [initial_pool EXCEPT ![t] = activePool]
  /\ asked' = [asked EXCEPT ![t] = {}]
  /\ got' = [got EXCEPT ![t] = None]
  /\ UNCHANGED <<lock, poolVars, allocated_count, home, given, closed>>

AllocateEnter(t) ==
  /\ ~closed /\ at[t] = "idle" /\ lock = None /\ allocated_count < MaxCount
  /\ lock' = t
  /\ at' = [at EXCEPT ![t] = "try"]
  /\ info' = [info EXCEPT ![t] = activePool]
  /\ initial_pool' = [initial_pool EXCEPT ![t] = activePool]
  /\ asked' = [asked EXCEPT ![t] = {}]
  /\ got' = [got EXCEPT ![t] = None]
  /\ UNCHANGED <<poolVars, allocated_count, home, given, closed>>

\* An AllocateDescriptorSets call before or inside the loop: it succeeds, or
\* the pool is full or fragmented, or there is another error.
Try(t) ==
  /\ at[t] = "try"
  /\ \/ /\ DriverAllocates(t, info[t])
        /\ at' = [at EXCEPT ![t] = "return"]
        /\ UNCHANGED asked
     \/ /\ at' = [at EXCEPT ![t] = "rotate"]
        /\ asked' = [asked EXCEPT ![t] = @ \cup {info[t]}]
        /\ UNCHANGED <<home, got>>
     \/ /\ MayFail
        /\ at' = [at EXCEPT ![t] = "return"]
        /\ UNCHANGED <<home, got, asked>>
  /\ UNCHANGED <<lock, info, initial_pool, poolVars, allocated_count, given, closed>>

\* Mutant of Rotate: the front is read but not erased.
RotateWithoutErase(t) ==
  /\ at[t] = "rotate"
  /\ exhaustedPools' = Append(exhaustedPools, activePool)
  /\ activePool' = Head(exhaustedPools')
  /\ IF activePool' = initial_pool[t]
     THEN at' = [at EXCEPT ![t] = "grow"] /\ UNCHANGED info
     ELSE at' = [at EXCEPT ![t] = "try"] /\ info' = [info EXCEPT ![t] = activePool']
  /\ UNCHANGED <<lock, initial_pool, asked, got, created, allocated_count, home, given, closed>>

\* Mutant of Rotate: there is no test for the initial pool.
RotateForever(t) ==
  /\ at[t] = "rotate"
  /\ LET queue == Append(exhaustedPools, activePool) IN
     /\ activePool' = Head(queue)
     /\ exhaustedPools' = Tail(queue)
  /\ info' = [info EXCEPT ![t] = activePool']
  /\ at' = [at EXCEPT ![t] = "try"]
  /\ UNCHANGED <<lock, initial_pool, asked, got, created, allocated_count, home, given, closed>>

\* The body of the loop up to its break: the refused pool goes to the back of
\* the queue and the front of the queue becomes the active pool.
Rotate(t) ==
  /\ at[t] = "rotate"
  /\ LET queue == Append(exhaustedPools, activePool) IN
     /\ activePool' = Head(queue)
     /\ exhaustedPools' = Tail(queue)
  /\ IF activePool' = initial_pool[t]
     THEN at' = [at EXCEPT ![t] = "grow"] /\ UNCHANGED info
     ELSE at' = [at EXCEPT ![t] = "try"] /\ info' = [info EXCEPT ![t] = activePool']
  /\ UNCHANGED <<lock, initial_pool, asked, got, created, allocated_count, home, given, closed>>

createNewPool(t, p) ==
  /\ p \notin created
  /\ created' = created \cup {p}
  /\ info' = [info EXCEPT ![t] = p]

\* Mutant of Grow: the pool that was active is dropped.
GrowWithoutPush(t) ==
  /\ at[t] = "grow"
  /\ \E p \in Pools : createNewPool(t, p) /\ activePool' = p
  /\ at' = [at EXCEPT ![t] = "last"]
  /\ UNCHANGED <<lock, exhaustedPools, initial_pool, asked, got, allocated_count, home, given, closed>>

\* createNewPool succeeds, or allocate() returns its error at once, uncounted.
Grow(t) ==
  /\ at[t] = "grow"
  /\ \/ /\ \E p \in Pools :
             /\ createNewPool(t, p)
             /\ exhaustedPools' = Append(exhaustedPools, activePool)
             /\ activePool' = p
        /\ at' = [at EXCEPT ![t] = "last"]
        /\ UNCHANGED lock
     \/ /\ MayFail \/ created = Pools
        /\ at' = [at EXCEPT ![t] = "idle"]
        /\ lock' = None
        /\ UNCHANGED <<poolVars, info>>
  /\ UNCHANGED <<initial_pool, asked, got, allocated_count, home, given, closed>>

\* The AllocateDescriptorSets call in the new pool; whatever it returns stands.
\* (Sets is the model's bound on live sets: with none to spare the call fails.)
AllocateFresh(t) ==
  /\ at[t] = "last"
  /\ at' = [at EXCEPT ![t] = "return"]
  /\ \/ DriverAllocates(t, info[t])
     \/ (MayFail \/ \A s \in Sets : home[s] # None) /\ UNCHANGED <<home, got>>
  /\ UNCHANGED <<lock, info, initial_pool, asked, poolVars, allocated_count, given, closed>>

\* Mutant of Return: the caller is told the pool the call started with.
ReturnInitialPool(t) ==
  /\ at[t] = "return"
  /\ at' = [at EXCEPT ![t] = "idle"]
  /\ lock' = None
  /\ allocated_count' = allocated_count + 1
  /\ given' = [s \in Sets |-> IF s = got[t] THEN initial_pool[t] ELSE given[s]]
  /\ UNCHANGED <<info, initial_pool, asked, got, poolVars, home, closed>>

\* Mutant of Return: only a set from a fresh pool is counted.
ReturnCountsGrowth(t) ==
  /\ at[t] = "return"
  /\ at' = [at EXCEPT ![t] = "idle"]
  /\ lock' = None
  /\ allocated_count' = IF info[t] # initial_pool[t] THEN allocated_count + 1 ELSE allocated_count
  /\ given' = [s \in Sets |-> IF s = got[t] THEN info[t] ELSE given[s]]
  /\ UNCHANGED <<info, initial_pool, asked, got, poolVars, home, closed>>

\* The count goes up even when no set was allocated.  On success the caller
\* records the set with the pool (StagingResources::AddDescriptorSet).
Return(t) ==
  /\ at[t] = "return"
  /\ at' = [at EXCEPT ![t] = "idle"]
  /\ lock' = None
  /\ allocated_count' = allocated_count + 1
  /\ given' = [s \in Sets |-> IF s = got[t] THEN info[t] ELSE given[s]]
  /\ UNCHANGED <<info, initial_pool, asked, got, poolVars, home, closed>>

-----------------------------------------------------------------------------
\* free(pool, set), called by StagingResources::Cleanup with what was recorded.
Free(s) ==
  /\ ~closed /\ lock = None /\ given[s] # None
  /\ allocated_count' = allocated_count - 1
  /\ home' = [home EXCEPT ![s] = None]
  /\ given' = [given EXCEPT ![s] = None]
  /\ UNCHANGED <<lock, callVars, poolVars, closed>>

\* cleanup(), called by DestroyDevice when no other thread uses the device:
\* vkDestroyDescriptorPool frees the pool's sets.
Cleanup ==
  /\ ~closed /\ lock = None
  /\ LET destroyed == {activePool} \cup Range(exhaustedPools) IN
     /\ created' = created \ destroyed
     /\ home' = [s \in Sets |-> IF home[s] \in destroyed THEN None ELSE home[s]]
  /\ given' = [s \in Sets |-> None]
  /\ activePool' = None
  /\ exhaustedPools' = <<>>
  /\ closed' = TRUE
  /\ UNCHANGED <<lock, callVars, allocated_count>>

AllocateStep(t) == Try(t) \/ Rotate(t) \/ Grow(t) \/ AllocateFresh(t) \/ Return(t)

Next ==
  \/ \E t \in Threads : AllocateEnter(t) \/ AllocateStep(t)
  \/ \E s \in Sets : Free(s)
  \/ Cleanup

Spec == Init /\ [][Next]_vars

\* A thread inside allocate() is scheduled; nothing else is promised.
FairSpec == Spec /\ \A t \in Threads : WF_vars(AllocateStep(t))

-----------------------------------------------------------------------------
(* Properties.                                                              *)

\* No pool is lost or listed twice, whatever rotation a call is in: the active
\* pool and the exhausted pools are exactly the pools that exist.
PoolsPartition ==
  ~closed =>
    /\ created = {activePool} \cup Range(exhaustedPools)
    /\ activePool \notin Range(exhaustedPools)
    /\ IsInjective(exhaustedPools)

\* A pool is created only after every existing pool has refused in this call:
\* rotating through the queue while its ends change skips none.
EveryPoolAsked == \A t \in Threads : at[t] = "grow" => asked[t] = created

\* A call asks no pool twice, which is why the loop ends.
NoPoolAskedTwice == \A t \in Threads : at[t] = "try" => info[t] \notin asked[t]

\* Together: the rotation asks every pool there is once before another is made.
EveryPoolAskedOnce == EveryPoolAsked /\ NoPoolAskedTwice

\* A set is freed into the pool it was allocated from, and that pool exists,
\* although the active pool may have changed several times in between.
FreedToOrigin ==
  \A s \in Sets : given[s] # None => home[s] = given[s] /\ given[s] \in created

\* allocated_count covers the sets that are recorded, so free() never takes
\* the unsigned counter below zero.
CountCovers ==
  ~closed => Cardinality({s \in Sets : given[s] # None}) <= allocated_count

\* cleanup() destroys every pool: the device is destroyed with none left.
ClosedLeavesNoPool == closed => created = {}

\* A call that entered allocate() comes back.
AllocationReturns == \A t \in Threads : at[t] = "try" ~> at[t] = "idle"
=============================================================================
