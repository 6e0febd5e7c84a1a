--------------------- MODULE DescriptorSetAllocatorProofs ---------------------
(***************************************************************************)
(* Proofs about DescriptorSetAllocator for any number of threads, pools    *)
(* and sets: the rotation loses no pool, a pool is created only when all   *)
(* refused, sets go back to the pool they came from, and the counter never *)
(* falls below the number of recorded sets.                                *)
(***************************************************************************)
EXTENDS DescriptorSetAllocator, SequenceFacts, FiniteSetTheorems, TLAPS

\* The pools as the loop sees them: the queue with the active pool at its end.
\* One turn of the loop rotates this sequence by one.
Ring == Append(exhaustedPools, activePool)

RingInv ==
  ~closed => /\ activePool \in Pools
             /\ IsInjective(Ring)
             /\ created = Range(Ring)

\* Only the holder of the lock is inside allocate().
LockInv == \A t \in Threads : at[t] # "idle" => lock = t /\ ~closed

\* The initial pool is at place j of the ring; the pools that refused are those
\* from there on, in "try" except the one now being asked.
Rotation ==
  \A t \in Threads :
    /\ at[t] \in {"try", "rotate"} =>
         /\ info[t] = activePool
         /\ \E j \in 1..Len(Ring) :
              /\ Ring[j] = initial_pool[t]
              /\ \A p \in Pools :
                   p \in asked[t] <=>
                     \E i \in j..Len(Ring) : Ring[i] = p /\ (at[t] = "try" => i # Len(Ring))
    /\ at[t] = "grow" => asked[t] = created
    /\ at[t] \in {"last", "return"} => info[t] \in created

\* A set is live in an existing pool, and recorded with that pool; the set a
\* call has just got is not recorded yet.
SetInv ==
  /\ \A s \in Sets : home[s] # None => home[s] \in created
  /\ \A s \in Sets : given[s] # None => home[s] = given[s]
  /\ \A t \in Threads : at[t] \in {"try", "rotate", "grow", "last"} => got[t] = None
  /\ \A t \in Threads : at[t] = "return" /\ got[t] # None =>
                           home[got[t]] = info[t] /\ given[got[t]] = None

Recorded == {s \in Sets : given[s] # None}

CountInv ==
  /\ Cardinality(Recorded) <= allocated_count
  /\ closed => activePool = None /\ created = {} /\ \A s \in Sets : given[s] = None

IInv == TypeOK /\ RingInv /\ LockInv /\ Rotation /\ SetInv /\ CountInv

-----------------------------------------------------------------------------
\* The two parts of a ring: the queue before its last element, and that element.
LEMMA RingParts ==
  ASSUME NEW S, NEW e \in Seq(S), NEW a \in S, IsInjective(Append(e, a))
  PROVE  IsInjective(e) /\ a \notin Range(e)
<1> DEFINE q == Append(e, a)
<1>1. /\ Len(q) = Len(e) + 1 /\ q \in Seq(S)
      /\ \A i \in 1..Len(e) : q[i] = e[i]
      /\ q[Len(e) + 1] = a
  BY AppendProperties
<1>2. Len(e) \in Nat /\ DOMAIN e = 1..Len(e) /\ DOMAIN q = 1..Len(e) + 1
  BY <1>1, RangeIndex
<1>3. \A i, j \in DOMAIN q : q[i] = q[j] => i = j
  BY DEF IsInjective
<1> HIDE DEF q
<1>4. IsInjective(e)
  BY <1>1, <1>2, <1>3 DEF IsInjective
<1>5. a \notin Range(e)
  BY <1>1, <1>2, <1>3 DEF Range
<1> QED BY <1>4, <1>5

\* What one turn of the loop does to the ring.
LEMMA RotateRing ==
  ASSUME NEW S, NEW q \in Seq(S), q # <<>>, IsInjective(q),
         NEW f, f = Tail(q), NEW h, h = Head(q)
  PROVE  /\ f \in Seq(S) /\ h \in S /\ h = q[1]
         /\ Len(Append(f, h)) = Len(q) /\ Len(q) \in Nat \ {0}
         /\ Append(f, h)[Len(q)] = q[1]
         /\ \A i \in 1..Len(q) - 1 : Append(f, h)[i] = q[i + 1]
         /\ IsInjective(Append(f, h))
         /\ Range(Append(f, h)) = Range(q)
<1> DEFINE r == Append(f, h)
<1>1. /\ f \in Seq(S) /\ h \in S /\ Range(q) = Range(f) \cup {h}
      /\ IsInjective(f) /\ h \notin Range(f)
  BY TailFacts
<1>2. /\ Len(q) \in Nat \ {0} /\ h = q[1] /\ Len(f) = Len(q) - 1
      /\ \A i \in 1..Len(q) - 1 : f[i] = q[i + 1]
  BY EmptySeq, RangeIndex, HeadTailProperties
<1>3. /\ Len(r) = Len(f) + 1
      /\ \A i \in 1..Len(f) : r[i] = f[i]
      /\ r[Len(f) + 1] = h
  BY <1>1, AppendProperties
<1>4. Range(r) = Range(f) \cup {h} /\ IsInjective(r)
  <2>1. f \in Seq(S) /\ h \in S
    BY <1>1
  <2>2. Range(r) = Range(f) \cup {h}
    BY ONLY <2>1, AppendFacts
  <2>3. IsInjective(r)
    BY <1>1, AppendFacts
  <2> QED BY <2>2, <2>3
<1> HIDE DEF r
<1>5. /\ Len(r) = Len(q) /\ r[Len(q)] = q[1]
      /\ \A i \in 1..Len(q) - 1 : r[i] = q[i + 1]
  BY <1>2, <1>3
<1>6. Range(r) = Range(q)
  BY <1>1, <1>4
<1> QED BY <1>1, <1>2, <1>4, <1>5, <1>6 DEF r

\* It keeps the pools in it.
LEMMA RotateKeeps ==
  ASSUME NEW S, NEW q \in Seq(S), q # <<>>, IsInjective(q),
         NEW r, r = Append(Tail(q), Head(q))
  PROVE  Head(q) \in S /\ IsInjective(r) /\ Range(r) = Range(q)
<1>1. PICK f, h : f = Tail(q) /\ h = Head(q)
  OBVIOUS
<1>2. /\ f \in Seq(S) /\ h \in S /\ Range(q) = Range(f) \cup {h}
      /\ IsInjective(f) /\ h \notin Range(f)
  BY <1>1, TailFacts
<1>3. f \in Seq(S) /\ h \in S
  BY <1>2
<1>4. r = Append(f, h)
  BY <1>1
<1>5. Range(r) = Range(f) \cup {h}
  BY ONLY <1>3, <1>4, AppendFacts
<1>6. IsInjective(r)
  BY <1>2, <1>4, AppendFacts
<1> QED BY <1>2, <1>5, <1>6
-----------------------------------------------------------------------------
\* Every variable keeps its type; the counter stays a natural number.
LEMMA TypeStep == IInv /\ [Next]_vars => TypeOK'
<1> SUFFICES ASSUME IInv, [Next]_vars PROVE TypeOK'
  OBVIOUS
<1> USE AllocatorAssumption DEF callVars, poolVars
<1>0. TypeOK /\ RingInv /\ LockInv /\ Rotation /\ CountInv
  BY DEF IInv
<1>1. ASSUME NEW t \in Threads, AllocateEnter(t) PROVE TypeOK'
  BY <1>0, <1>1 DEF AllocateEnter, TypeOK, DriverAllocates
<1>2. ASSUME NEW t \in Threads, Try(t) PROVE TypeOK'
  <2>1. /\ home' \in [Sets -> Pools \cup {None}] /\ got' \in [Threads -> Sets \cup {None}]
        /\ asked' \in [Threads -> SUBSET Pools]
    <3>1. info[t] \in Pools
      BY <1>0, <1>2 DEF Try, TypeOK, RingInv, LockInv, Rotation
    <3> QED BY <1>0, <1>2, <3>1 DEF Try, TypeOK, DriverAllocates
  <2>2. at' \in [Threads -> {"idle", "try", "rotate", "grow", "last", "return"}]
    BY <1>0, <1>2 DEF Try, TypeOK
  <2> QED BY <1>0, <1>2, <2>1, <2>2 DEF Try, TypeOK
<1>3. ASSUME NEW t \in Threads, Rotate(t) PROVE TypeOK'
  <2>1. Ring \in Seq(Pools) /\ Ring # <<>>
    <3>1. activePool \in Pools /\ exhaustedPools \in Seq(Pools)
      BY <1>0, <1>3 DEF Rotate, TypeOK, RingInv, LockInv
    <3> QED BY <3>1, AppendFacts DEF Ring
  <2>2. Tail(Ring) \in Seq(Pools) /\ Head(Ring) \in Pools
    BY <2>1, TailFacts
  <2>3. activePool' = Head(Ring) /\ exhaustedPools' = Tail(Ring)
    BY <1>3 DEF Rotate, Ring
  <2>4. activePool' \in Pools /\ exhaustedPools' \in Seq(Pools)
    BY <2>2, <2>3
  <2>5. /\ info' \in [Threads -> Pools \cup {None}]
        /\ at' \in [Threads -> {"idle", "try", "rotate", "grow", "last", "return"}]
    BY <1>0, <1>3, <2>4 DEF Rotate, TypeOK
  <2> QED BY <1>0, <2>4, <2>5, <1>3 DEF Rotate, TypeOK
<1>4. ASSUME NEW t \in Threads, Grow(t) PROVE TypeOK'
  <2>1. exhaustedPools' \in Seq(Pools) /\ activePool' \in Pools \cup {None} /\ created' \in SUBSET Pools
    <3>1. activePool \in Pools /\ exhaustedPools \in Seq(Pools) /\ created \in SUBSET Pools
      BY <1>0, <1>4 DEF Grow, createNewPool, TypeOK, RingInv, LockInv
    <3>2. Append(exhaustedPools, activePool) \in Seq(Pools)
      BY <3>1, AppendFacts
    <3> QED BY <1>4, <3>1, <3>2 DEF Grow, createNewPool
  <2> QED BY <1>0, <2>1, <1>4 DEF Grow, createNewPool, TypeOK
<1>5. ASSUME NEW t \in Threads, AllocateFresh(t) PROVE TypeOK'
  BY <1>0, <1>5 DEF AllocateFresh, TypeOK, DriverAllocates
<1>6. ASSUME NEW t \in Threads, Return(t) PROVE TypeOK'
  BY <1>0, <1>6 DEF Return, TypeOK, DriverAllocates
<1>7. ASSUME NEW s \in Sets, Free(s) PROVE TypeOK'
  <2>1. Recorded \in SUBSET Sets /\ s \in Recorded
    BY <1>7 DEF Free, Recorded
  <2>2. IsFiniteSet(Recorded)
    BY <2>1, FS_Subset
  <2>3. Cardinality(Recorded) \in Nat /\ Cardinality(Recorded) # 0
    BY <2>1, <2>2, FS_CardinalityType, FS_EmptySet
  <2>4. allocated_count \in Nat /\ Cardinality(Recorded) <= allocated_count
    BY <1>0 DEF TypeOK, CountInv
  <2>5. allocated_count - 1 \in Nat
    BY <2>3, <2>4
  <2> QED BY <1>0, <2>5, <1>7 DEF Free, TypeOK
<1>8. ASSUME Cleanup PROVE TypeOK'
  <2>1. <<>> \in Seq(Pools)
    BY EmptyFacts
  <2> QED BY <1>0, <2>1, <1>8 DEF Cleanup, TypeOK
<1>9. CASE UNCHANGED vars
  BY <1>0, <1>9 DEF vars, TypeOK, DriverAllocates
<1> QED BY <1>1, <1>2, <1>3, <1>4, <1>5, <1>6, <1>7, <1>8, <1>9 DEF Next, AllocateStep

\* The ring of pools is complete and without repetition.
LEMMA RingStep == IInv /\ [Next]_vars => RingInv'
<1> SUFFICES ASSUME IInv, [Next]_vars PROVE RingInv'
  OBVIOUS
<1> USE AllocatorAssumption DEF callVars, poolVars
<1>0. TypeOK /\ RingInv /\ LockInv
  BY DEF IInv
<1>1. ASSUME NEW t \in Threads, AllocateEnter(t) PROVE RingInv'
  BY <1>0, <1>1 DEF AllocateEnter, RingInv, Ring, DriverAllocates
<1>2. ASSUME NEW t \in Threads, Try(t) PROVE RingInv'
  BY <1>0, <1>2 DEF Try, RingInv, Ring, DriverAllocates
<1>3. ASSUME NEW t \in Threads, Rotate(t) PROVE RingInv'
  <2>1. activePool \in Pools /\ exhaustedPools \in Seq(Pools) /\ IsInjective(Ring) /\ created = Range(Ring)
    BY <1>0, <1>3 DEF Rotate, LockInv, RingInv, TypeOK
  <2>2. Ring \in Seq(Pools) /\ Ring # <<>>
    BY <2>1, AppendFacts DEF Ring
  <2>3. /\ activePool' = Head(Ring) /\ exhaustedPools' = Tail(Ring) /\ created' = created
        /\ Ring' = Append(Tail(Ring), Head(Ring))
    BY <1>3 DEF Rotate, Ring
  <2>4. Head(Ring) \in Pools /\ IsInjective(Ring') /\ Range(Ring') = Range(Ring)
    <3>1. IsInjective(Ring)
      BY <2>1
    <3>2. PICK r : r = Append(Tail(Ring), Head(Ring))
      OBVIOUS
    <3>3. Head(Ring) \in Pools /\ IsInjective(r) /\ Range(r) = Range(Ring)
      BY ONLY <2>2, <3>1, <3>2, RotateKeeps
    <3>4. Ring' = r
      BY <2>3, <3>2
    <3> QED BY <3>3, <3>4
  <2> QED BY <2>1, <2>3, <2>4 DEF RingInv
<1>4. ASSUME NEW t \in Threads, Grow(t) PROVE RingInv'
  <2>1. /\ ~closed /\ activePool \in Pools /\ exhaustedPools \in Seq(Pools)
        /\ IsInjective(Ring) /\ created = Range(Ring)
    BY <1>0, <1>4 DEF Grow, createNewPool, LockInv, RingInv, TypeOK
  <2>2. Ring \in Seq(Pools)
    BY <2>1, AppendFacts DEF Ring
  <2>3. CASE UNCHANGED poolVars
    BY <2>1, <2>3, <1>4 DEF Grow, createNewPool, RingInv, Ring
  <2>4. CASE ~UNCHANGED poolVars
    <3>1. PICK p \in Pools \ created :
            /\ created' = created \cup {p} /\ exhaustedPools' = Ring /\ activePool' = p
      BY <2>4, <1>4 DEF Grow, createNewPool, Ring
    <3>2. Ring' = Append(Ring, p)
      BY <3>1 DEF Ring
    <3>3. Range(Append(Ring, p)) = Range(Ring) \cup {p} /\ IsInjective(Append(Ring, p))
      BY <2>1, <2>2, <3>1, AppendFacts
    <3> QED BY <2>1, <3>1, <3>2, <3>3 DEF RingInv
  <2> QED BY <2>3, <2>4
<1>5. ASSUME NEW t \in Threads, AllocateFresh(t) PROVE RingInv'
  BY <1>0, <1>5 DEF AllocateFresh, RingInv, Ring, DriverAllocates
<1>6. ASSUME NEW t \in Threads, Return(t) PROVE RingInv'
  BY <1>0, <1>6 DEF Return, RingInv, Ring, DriverAllocates
<1>7. ASSUME NEW s \in Sets, Free(s) PROVE RingInv'
  BY <1>0, <1>7 DEF Free, RingInv, Ring, DriverAllocates
<1>8. ASSUME Cleanup PROVE RingInv'
  BY <1>0, <1>8 DEF Cleanup, RingInv, Ring, DriverAllocates
<1>9. CASE UNCHANGED vars
  BY <1>0, <1>9 DEF vars, RingInv, Ring, DriverAllocates
<1> QED BY <1>1, <1>2, <1>3, <1>4, <1>5, <1>6, <1>7, <1>8, <1>9 DEF Next, AllocateStep

\* Mutual exclusion of the calls.
LEMMA LockStep == IInv /\ [Next]_vars => LockInv'
<1> SUFFICES ASSUME IInv, [Next]_vars PROVE LockInv'
  OBVIOUS
<1> USE AllocatorAssumption DEF callVars, poolVars
<1>0. TypeOK /\ LockInv
  BY DEF IInv
<1>1. ASSUME NEW t \in Threads, AllocateEnter(t) PROVE LockInv'
  <2>1. lock' = t /\ ~closed' /\ \A u \in Threads : at[u] = "idle" /\ (u # t => at'[u] = at[u])
    BY <1>0, <1>1 DEF AllocateEnter, LockInv, TypeOK
  <2> QED BY <2>1 DEF LockInv
<1>2. ASSUME NEW t \in Threads, Try(t) PROVE LockInv'
  BY <1>0, <1>2 DEF Try, LockInv, TypeOK, DriverAllocates
<1>3. ASSUME NEW t \in Threads, Rotate(t) PROVE LockInv'
  BY <1>0, <1>3 DEF Rotate, LockInv, TypeOK, DriverAllocates
<1>4. ASSUME NEW t \in Threads, Grow(t) PROVE LockInv'
  BY <1>0, <1>4 DEF Grow, createNewPool, LockInv, TypeOK, DriverAllocates
<1>5. ASSUME NEW t \in Threads, AllocateFresh(t) PROVE LockInv'
  BY <1>0, <1>5 DEF AllocateFresh, LockInv, TypeOK, DriverAllocates
<1>6. ASSUME NEW t \in Threads, Return(t) PROVE LockInv'
  BY <1>0, <1>6 DEF Return, LockInv, TypeOK, DriverAllocates
<1>7. ASSUME NEW s \in Sets, Free(s) PROVE LockInv'
  BY <1>0, <1>7 DEF Free, LockInv, TypeOK, DriverAllocates
<1>8. ASSUME Cleanup PROVE LockInv'
  BY <1>0, <1>8 DEF Cleanup, LockInv, TypeOK, DriverAllocates
<1>9. CASE UNCHANGED vars
  BY <1>0, <1>9 DEF vars, LockInv, TypeOK, DriverAllocates
<1> QED BY <1>1, <1>2, <1>3, <1>4, <1>5, <1>6, <1>7, <1>8, <1>9 DEF Next, AllocateStep

\* How far the call in progress has rotated, and which pools have refused.
LEMMA RotationStep == IInv /\ [Next]_vars => Rotation'
<1> SUFFICES ASSUME IInv, [Next]_vars PROVE Rotation'
  OBVIOUS
<1> USE AllocatorAssumption DEF callVars, poolVars
<1>0. TypeOK /\ RingInv /\ LockInv /\ Rotation
  BY DEF IInv
<1>1. ASSUME NEW t \in Threads, AllocateEnter(t) PROVE Rotation'
  <2>1. activePool \in Pools /\ exhaustedPools \in Seq(Pools) /\ ~closed
    BY <1>0, <1>1 DEF AllocateEnter, RingInv, TypeOK
  <2>2. Ring' = Ring /\ Len(Ring) \in Nat \ {0} /\ Ring[Len(Ring)] = activePool
    BY <2>1, <1>1, AppendProperties, LenProperties DEF AllocateEnter, Ring
  <2>3. /\ at'[t] = "try" /\ info'[t] = activePool /\ initial_pool'[t] = activePool /\ asked'[t] = {}
        /\ \A u \in Threads : u # t => at'[u] = "idle"
        /\ activePool' = activePool
    BY <1>0, <1>1 DEF AllocateEnter, LockInv, TypeOK
  <2>4. Len(Ring) \in 1..Len(Ring) /\ \A i \in Len(Ring)..Len(Ring) : i = Len(Ring)
    BY <2>2
  <2> QED BY <2>2, <2>3, <2>4 DEF Rotation
<1>2. ASSUME NEW t \in Threads, Try(t) PROVE Rotation'
  <2>1. activePool \in Pools /\ exhaustedPools \in Seq(Pools) /\ ~closed /\ created = Range(Ring)
    BY <1>0, <1>2 DEF Try, RingInv, LockInv, TypeOK
  <2>2. Ring' = Ring /\ Len(Ring) \in Nat \ {0} /\ Ring[Len(Ring)] = activePool /\ activePool \in Range(Ring)
    BY <2>1, <1>2, AppendProperties, LenProperties, AppendFacts DEF Try, Ring
  <2>3. /\ info' = info /\ initial_pool' = initial_pool /\ activePool' = activePool /\ created' = created
        /\ \A u \in Threads : u # t => at'[u] = "idle"
    BY <1>0, <1>2 DEF Try, LockInv, TypeOK
  <2>4. CASE at'[t] = "return"
    BY <1>0, <2>1, <2>2, <2>3, <2>4, <1>2 DEF Try, Rotation
  <2>5. CASE at'[t] = "rotate"
    <3>1. asked'[t] = asked[t] \cup {activePool} /\ info[t] = activePool
      BY <1>0, <2>5, <1>2 DEF Try, Rotation, TypeOK
    <3>2. PICK j \in 1..Len(Ring) :
            /\ Ring[j] = initial_pool[t]
            /\ \A p \in Pools : p \in asked[t] <=> \E i \in j..Len(Ring) : Ring[i] = p /\ i # Len(Ring)
      BY <1>0, <1>2 DEF Try, Rotation
    <3>3. \A p \in Pools : p \in asked'[t] <=> \E i \in j..Len(Ring) : Ring[i] = p
      <4>1. Len(Ring) \in j..Len(Ring)
        BY <2>2
      <4> QED BY <2>2, <3>1, <3>2, <4>1
    <3> QED BY <2>2, <2>3, <2>5, <3>1, <3>2, <3>3 DEF Rotation
  <2> QED BY <1>0, <2>4, <2>5, <1>2 DEF Try, TypeOK
<1>3. ASSUME NEW t \in Threads, Rotate(t) PROVE Rotation'
  <2> DEFINE n == Len(Ring)
  <2>1. /\ activePool \in Pools /\ exhaustedPools \in Seq(Pools) /\ ~closed
        /\ IsInjective(Ring) /\ created = Range(Ring)
    BY <1>0, <1>3 DEF Rotate, RingInv, LockInv, TypeOK
  <2>2. Ring \in Seq(Pools) /\ Ring # <<>>
    BY <2>1, AppendFacts DEF Ring
  <2>3. /\ activePool' = Head(Ring) /\ exhaustedPools' = Tail(Ring) /\ created' = created
        /\ Ring' = Append(Tail(Ring), Head(Ring))
        /\ initial_pool' = initial_pool /\ asked' = asked
    BY <1>3 DEF Rotate, Ring
  <2>4. /\ Head(Ring) = Ring[1] /\ Head(Ring) \in Pools
        /\ Len(Ring') = n /\ n \in Nat \ {0} /\ Ring'[n] = Ring[1]
        /\ \A i \in 1..n - 1 : Ring'[i] = Ring[i + 1]
    BY <2>1, <2>2, <2>3, RotateRing
  <2>5. \A u \in Threads : u # t => at'[u] = "idle"
    BY <1>0, <1>3 DEF Rotate, LockInv, TypeOK
  <2>6. PICK j \in 1..n :
            /\ Ring[j] = initial_pool[t]
            /\ \A p \in Pools : p \in asked[t] <=> \E i \in j..n : Ring[i] = p
    BY <1>0, <1>3 DEF Rotate, Rotation
  <2>7. DOMAIN Ring = 1..n
    BY <2>2, RangeIndex
  <2> HIDE DEF n
  <2>8. CASE Head(Ring) = initial_pool[t]
    <3>1. j = 1
      <4>1. \A a, b \in 1..n : Ring[a] = Ring[b] => a = b
        BY <2>1, <2>7 DEF IsInjective
      <4>2. 1 \in 1..n /\ Ring[1] = Ring[j]
        BY <2>4, <2>6, <2>8
      <4> QED BY <4>1, <4>2
    <3>2. at'[t] = "grow"
      BY <1>0, <2>3, <2>8, <1>3 DEF Rotate, TypeOK
    <3>3. asked[t] \subseteq Pools /\ Range(Ring) \subseteq Pools
      BY <1>0, <2>1 DEF TypeOK
    <3>4. \A p \in Pools : p \in Range(Ring) <=> \E i \in 1..n : Ring[i] = p
      BY <2>7 DEF Range
    <3>5. asked[t] = Range(Ring)
      BY <2>6, <3>1, <3>3, <3>4
    <3> QED BY <2>1, <2>3, <2>5, <3>2, <3>5 DEF Rotation
  <2>9. CASE Head(Ring) # initial_pool[t]
    <3>1. j \in 2..n
      BY <2>4, <2>6, <2>9
    <3>2. at'[t] = "try" /\ info'[t] = activePool'
      BY <1>0, <2>3, <2>9, <1>3 DEF Rotate, TypeOK
    <3>3. j - 1 \in 1..n /\ Ring'[j - 1] = initial_pool[t]
      <4>1. j - 1 \in 1..n - 1 /\ (j - 1) + 1 = j
        BY <2>4, <3>1
      <4> QED BY <2>4, <2>6, <4>1
    <3>4. \A p \in Pools : p \in asked[t] <=> \E i \in (j - 1)..n : Ring'[i] = p /\ i # n
      <4>1. \A i \in j..n : i - 1 \in (j - 1)..n /\ i - 1 # n /\ Ring'[i - 1] = Ring[i]
        <5> TAKE i \in j..n
        <5>1. i - 1 \in 1..n - 1 /\ (i - 1) + 1 = i
          BY <2>4, <3>1
        <5> QED BY <2>4, <3>1, <5>1
      <4>2. \A i \in (j - 1)..n : i # n => i + 1 \in j..n /\ Ring'[i] = Ring[i + 1]
        <5> TAKE i \in (j - 1)..n
        <5>1. i # n => i \in 1..n - 1
          BY <2>4, <3>1
        <5> QED BY <2>4, <3>1, <5>1
      <4> QED BY <2>6, <4>1, <4>2
    <3>5. \E k \in 1..Len(Ring') :
            /\ Ring'[k] = initial_pool'[t]
            /\ \A p \in Pools :
                 p \in asked'[t] <=>
                   \E i \in k..Len(Ring') : Ring'[i] = p /\ (at'[t] = "try" => i # Len(Ring'))
      <4>1. Len(Ring') = n /\ initial_pool'[t] = initial_pool[t] /\ asked'[t] = asked[t] /\ at'[t] = "try"
        BY <2>3, <2>4, <3>2
      <4>2. \A p \in Pools :
              p \in asked'[t] <=>
                \E i \in (j - 1)..Len(Ring') : Ring'[i] = p /\ (at'[t] = "try" => i # Len(Ring'))
        BY ONLY <3>4, <4>1
      <4>3. j - 1 \in 1..Len(Ring') /\ Ring'[j - 1] = initial_pool'[t]
        BY <3>3, <4>1
      <4> QED BY ONLY <4>2, <4>3
    <3>6. at'[t] \notin {"grow", "last", "return"}
      BY <3>2
    <3>7. \A u \in Threads : u # t => at'[u] \notin {"try", "rotate", "grow", "last", "return"}
      BY <2>5
    <3> QED BY <3>2, <3>5, <3>6, <3>7 DEF Rotation
  <2> QED BY <2>8, <2>9
<1>4. ASSUME NEW t \in Threads, Grow(t) PROVE Rotation'
  <2>1. \A u \in Threads : u # t => at'[u] = "idle"
    BY <1>0, <1>4 DEF Grow, createNewPool, LockInv, TypeOK
  <2>2. at'[t] = "idle" \/ (at'[t] = "last" /\ info'[t] \in created')
    BY <1>0, <1>4 DEF Grow, createNewPool, TypeOK
  <2> QED BY <2>1, <2>2 DEF Rotation
<1>5. ASSUME NEW t \in Threads, AllocateFresh(t) PROVE Rotation'
  <2>1. \A u \in Threads : u # t => at'[u] = "idle"
    BY <1>0, <1>5 DEF AllocateFresh, LockInv, TypeOK
  <2>2. at'[t] = "return" /\ info'[t] \in created'
    BY <1>0, <1>5 DEF AllocateFresh, Rotation, TypeOK
  <2> QED BY <2>1, <2>2 DEF Rotation
<1>6. ASSUME NEW t \in Threads, Return(t) PROVE Rotation'
  <2>1. \A u \in Threads : at'[u] = "idle"
    BY <1>0, <1>6 DEF Return, LockInv, TypeOK
  <2> QED BY <2>1 DEF Rotation
<1>7. ASSUME NEW s \in Sets, Free(s) PROVE Rotation'
  BY <1>0, <1>7 DEF Free, Rotation, Ring
<1>8. ASSUME Cleanup PROVE Rotation'
  <2>1. \A u \in Threads : at'[u] = "idle"
    BY <1>0, <1>8 DEF Cleanup, LockInv, TypeOK
  <2> QED BY <2>1 DEF Rotation
<1>9. CASE UNCHANGED vars
  BY <1>0, <1>9 DEF vars, Rotation, Ring
<1> QED BY <1>1, <1>2, <1>3, <1>4, <1>5, <1>6, <1>7, <1>8, <1>9 DEF Next, AllocateStep

\* Where the sets come from and what is recorded of them.
LEMMA SetStep == IInv /\ [Next]_vars => SetInv'
<1> SUFFICES ASSUME IInv, [Next]_vars PROVE SetInv'
  OBVIOUS
<1> USE AllocatorAssumption DEF callVars, poolVars
<1>0. TypeOK /\ LockInv /\ Rotation /\ SetInv /\ RingInv
  BY DEF IInv
<1>1. ASSUME NEW t \in Threads, AllocateEnter(t) PROVE SetInv'
  BY <1>0, <1>1 DEF AllocateEnter, SetInv, LockInv, Rotation, TypeOK, DriverAllocates
<1>2. ASSUME NEW t \in Threads, Try(t) PROVE SetInv'
  <2>1. /\ \A u \in Threads : u # t => at'[u] = "idle"
        /\ got[t] = None /\ info[t] \in created /\ created' = created /\ given' = given /\ info' = info
        /\ at'[t] \in {"return", "rotate"}
    <3>1. activePool \in created
      BY <1>0, <1>2, AppendFacts DEF Try, RingInv, LockInv, TypeOK, Ring
    <3> QED BY <1>0, <1>2, <3>1 DEF Try, LockInv, Rotation, SetInv, TypeOK
  <2>2. CASE UNCHANGED <<home, got>>
    BY <1>0, <2>1, <2>2 DEF SetInv
  <2>3. CASE DriverAllocates(t, info[t]) /\ at' = [at EXCEPT ![t] = "return"]
    <3>1. PICK s \in Sets : /\ home[s] = None /\ home' = [home EXCEPT ![s] = info[t]]
                            /\ got' = [got EXCEPT ![t] = s]
      BY <2>3 DEF DriverAllocates
    <3>2. given[s] = None
      BY <1>0, <3>1 DEF SetInv
    <3>3. at'[t] = "return" /\ got'[t] = s /\ home'[s] = info[t]
      BY <1>0, <2>3, <3>1 DEF TypeOK
    <3>4. \A r \in Sets : r # s => home'[r] = home[r]
      BY <1>0, <3>1 DEF TypeOK
    <3> QED BY <1>0, <2>1, <3>1, <3>2, <3>3, <3>4 DEF SetInv
  <2> QED BY <1>2, <2>2, <2>3 DEF Try
<1>3. ASSUME NEW t \in Threads, Rotate(t) PROVE SetInv'
  BY <1>0, <1>3 DEF Rotate, SetInv, LockInv, Rotation, TypeOK, DriverAllocates
<1>4. ASSUME NEW t \in Threads, Grow(t) PROVE SetInv'
  BY <1>0, <1>4 DEF Grow, createNewPool, SetInv, LockInv, Rotation, TypeOK, DriverAllocates
<1>5. ASSUME NEW t \in Threads, AllocateFresh(t) PROVE SetInv'
  BY <1>0, <1>5 DEF AllocateFresh, SetInv, LockInv, Rotation, TypeOK, DriverAllocates
<1>6. ASSUME NEW t \in Threads, Return(t) PROVE SetInv'
  BY <1>0, <1>6 DEF Return, SetInv, LockInv, Rotation, TypeOK, DriverAllocates
<1>7. ASSUME NEW s \in Sets, Free(s) PROVE SetInv'
  BY <1>0, <1>7 DEF Free, SetInv, LockInv, Rotation, TypeOK, DriverAllocates
<1>8. ASSUME Cleanup PROVE SetInv'
  BY <1>0, <1>8 DEF Cleanup, SetInv, LockInv, Rotation, TypeOK, DriverAllocates
<1>9. CASE UNCHANGED vars
  BY <1>0, <1>9 DEF vars, SetInv, LockInv, Rotation, TypeOK, DriverAllocates
<1> QED BY <1>1, <1>2, <1>3, <1>4, <1>5, <1>6, <1>7, <1>8, <1>9 DEF Next, AllocateStep

\* The counter covers the recorded sets.
LEMMA CountStep == IInv /\ [Next]_vars => CountInv'
<1> SUFFICES ASSUME IInv, [Next]_vars PROVE CountInv'
  OBVIOUS
<1> USE AllocatorAssumption DEF callVars, poolVars
<1>0. TypeOK /\ RingInv /\ LockInv /\ CountInv
  BY DEF IInv
<1>1. ASSUME NEW t \in Threads, AllocateEnter(t) PROVE CountInv'
  BY <1>0, <1>1 DEF AllocateEnter, CountInv, Recorded, LockInv, DriverAllocates
<1>2. ASSUME NEW t \in Threads, Try(t) PROVE CountInv'
  BY <1>0, <1>2 DEF Try, CountInv, Recorded, LockInv, DriverAllocates
<1>3. ASSUME NEW t \in Threads, Rotate(t) PROVE CountInv'
  BY <1>0, <1>3 DEF Rotate, CountInv, Recorded, LockInv, DriverAllocates
<1>4. ASSUME NEW t \in Threads, Grow(t) PROVE CountInv'
  BY <1>0, <1>4 DEF Grow, createNewPool, CountInv, Recorded, LockInv, DriverAllocates
<1>5. ASSUME NEW t \in Threads, AllocateFresh(t) PROVE CountInv'
  BY <1>0, <1>5 DEF AllocateFresh, CountInv, Recorded, LockInv, DriverAllocates
<1>6. ASSUME NEW t \in Threads, Return(t) PROVE CountInv'
  <2> DEFINE R == {s \in Sets : given'[s] # None}
  <2>1. Recorded \in SUBSET Sets /\ IsFiniteSet(Recorded)
    BY FS_Subset DEF Recorded
  <2>2. R \subseteq Recorded \cup {got[t]}
    BY <1>0, <1>6 DEF Return, Recorded, TypeOK
  <2>3. /\ IsFiniteSet(Recorded \cup {got[t]})
        /\ Cardinality(Recorded \cup {got[t]}) <= Cardinality(Recorded) + 1
    <3>1. Cardinality(Recorded) \in Nat
      BY <2>1, FS_CardinalityType
    <3>2. PICK x : x = got[t]
      OBVIOUS
    <3>3. /\ IsFiniteSet(Recorded \cup {x})
          /\ Cardinality(Recorded \cup {x}) =
               IF x \in Recorded THEN Cardinality(Recorded) ELSE Cardinality(Recorded) + 1
      BY <2>1, FS_AddElement
    <3> QED BY <3>1, <3>2, <3>3
  <2>4. Cardinality(R) <= Cardinality(Recorded \cup {got[t]}) /\ IsFiniteSet(R)
    BY <2>2, <2>3, FS_Subset
  <2>5. /\ Cardinality(R) \in Nat /\ Cardinality(Recorded) \in Nat
        /\ Cardinality(Recorded \cup {got[t]}) \in Nat /\ allocated_count \in Nat
    BY <1>0, <2>1, <2>3, <2>4, FS_CardinalityType DEF TypeOK
  <2>6. Cardinality(Recorded) <= allocated_count /\ allocated_count' = allocated_count + 1
    BY <1>0, <1>6 DEF Return, CountInv
  <2>7. Recorded' = R
    BY DEF Recorded
  <2> HIDE DEF R
  <2>8. Cardinality(Recorded') <= allocated_count'
    BY <2>3, <2>4, <2>5, <2>6, <2>7
  <2>9. ~closed'
    BY <1>0, <1>6 DEF Return, LockInv
  <2> QED BY <2>8, <2>9 DEF CountInv
<1>7. ASSUME NEW s \in Sets, Free(s) PROVE CountInv'
  <2>1. Recorded \in SUBSET Sets /\ IsFiniteSet(Recorded) /\ s \in Recorded
    BY <1>7, FS_Subset DEF Free, Recorded
  <2>2. Recorded' = Recorded \ {s}
    BY <1>0, <1>7 DEF Free, Recorded, TypeOK
  <2>3. Cardinality(Recorded \ {s}) = Cardinality(Recorded) - 1
    BY <2>1, FS_RemoveElement
  <2>4. Cardinality(Recorded) \in Nat /\ allocated_count \in Nat
    BY <1>0, <2>1, FS_CardinalityType DEF TypeOK
  <2>5. Cardinality(Recorded) <= allocated_count /\ allocated_count' = allocated_count - 1 /\ ~closed'
    BY <1>0, <1>7 DEF Free, CountInv
  <2> QED BY <2>2, <2>3, <2>4, <2>5 DEF CountInv
<1>8. ASSUME Cleanup PROVE CountInv'
  <2>1. Recorded' = {}
    BY <1>8 DEF Cleanup, Recorded
  <2>2. Cardinality(Recorded') = 0 /\ 0 <= allocated_count'
    BY <1>0, <2>1, <1>8, FS_EmptySet DEF Cleanup, TypeOK
  <2>3. activePool \in Pools /\ exhaustedPools \in Seq(Pools) /\ created = Range(Ring)
    BY <1>0, <1>8 DEF Cleanup, RingInv, TypeOK
  <2>4. created = Range(exhaustedPools) \cup {activePool}
    BY <2>3, AppendFacts DEF Ring
  <2>5. created' = {}
    BY <2>4, <1>8 DEF Cleanup
  <2> QED BY <2>2, <2>5, <1>8 DEF Cleanup, CountInv
<1>9. CASE UNCHANGED vars
  BY <1>0, <1>9 DEF vars, CountInv, Recorded, LockInv, DriverAllocates
<1> QED BY <1>1, <1>2, <1>3, <1>4, <1>5, <1>6, <1>7, <1>8, <1>9 DEF Next, AllocateStep


-----------------------------------------------------------------------------
LEMMA InitIInv == Init => IInv
<1> SUFFICES ASSUME Init PROVE IInv
  OBVIOUS
<1> USE AllocatorAssumption
<1>1. TypeOK
  <2>1. <<>> \in Seq(Pools)
    BY EmptyFacts
  <2> QED BY <2>1 DEF Init, TypeOK
<1>2. RingInv
  <2>1. activePool \in Pools /\ exhaustedPools = <<>> /\ created = {activePool}
    BY DEF Init
  <2>2. <<>> \in Seq(Pools) /\ Range(<<>>) = {} /\ IsInjective(<<>>)
    BY EmptyFacts
  <2>3. Range(Append(<<>>, activePool)) = Range(<<>>) \cup {activePool} /\ IsInjective(Append(<<>>, activePool))
    BY <2>1, <2>2, AppendFacts
  <2> QED BY <2>1, <2>2, <2>3 DEF RingInv, Ring
<1>3. LockInv /\ Rotation /\ SetInv
  BY DEF Init, LockInv, Rotation, SetInv
<1>4. CountInv
  <2>1. Recorded = {}
    BY DEF Init, Recorded
  <2> QED BY <2>1, FS_EmptySet DEF Init, CountInv
<1> QED BY <1>1, <1>2, <1>3, <1>4 DEF IInv

\* The inductive invariant of the allocator.
THEOREM Allocation == Spec => []IInv
<1>1. IInv /\ [Next]_vars => IInv'
  BY TypeStep, RingStep, LockStep, RotationStep, SetStep, CountStep DEF IInv
<1> QED BY <1>1, InitIInv, PTL DEF Spec

\* Every variable keeps its type; free() never takes the unsigned
\* allocated_count below zero.
THEOREM AllocatorTypes == Spec => []TypeOK
<1>1. IInv => TypeOK
  BY DEF IInv
<1> QED BY <1>1, Allocation, PTL

\* No rotation, growth or failure loses a pool or lists one twice.
THEOREM NoPoolLost == Spec => []PoolsPartition
<1>1. IInv => PoolsPartition
  <2> SUFFICES ASSUME IInv, ~closed PROVE PoolsPartition
    BY DEF PoolsPartition
  <2>1. activePool \in Pools /\ exhaustedPools \in Seq(Pools) /\ IsInjective(Ring) /\ created = Range(Ring)
    BY DEF IInv, RingInv, TypeOK
  <2>2. created = {activePool} \cup Range(exhaustedPools)
    BY <2>1, AppendFacts DEF Ring
  <2>3. IsInjective(exhaustedPools) /\ activePool \notin Range(exhaustedPools)
    BY <2>1, RingParts DEF Ring
  <2> QED BY <2>2, <2>3 DEF PoolsPartition
<1> QED BY <1>1, Allocation, PTL

\* A pool is created only after all the pools that exist have refused.
THEOREM GrowthIsNeeded == Spec => []EveryPoolAsked
<1>1. IInv => EveryPoolAsked
  BY DEF IInv, Rotation, EveryPoolAsked
<1> QED BY <1>1, Allocation, PTL

\* No call asks the same pool twice, so the rotation ends.
THEOREM RotationEnds == Spec => []NoPoolAskedTwice
<1>1. IInv => NoPoolAskedTwice
  <2> SUFFICES ASSUME IInv, NEW t \in Threads, at[t] = "try" PROVE info[t] \notin asked[t]
    BY DEF NoPoolAskedTwice
  <2>1. activePool \in Pools /\ exhaustedPools \in Seq(Pools) /\ IsInjective(Ring)
    BY DEF IInv, RingInv, LockInv, TypeOK
  <2>2. Ring \in Seq(Pools) /\ Len(Ring) \in Nat \ {0} /\ Ring[Len(Ring)] = activePool
    BY <2>1, AppendProperties, LenProperties, AppendFacts DEF Ring
  <2>3. DOMAIN Ring = 1..Len(Ring)
    BY <2>2, RangeIndex
  <2>4. PICK j \in 1..Len(Ring) :
          \A p \in Pools : p \in asked[t] => \E i \in j..Len(Ring) : Ring[i] = p /\ i # Len(Ring)
    BY DEF IInv, Rotation
  <2>5. ASSUME activePool \in asked[t] PROVE FALSE
    <3>1. PICK i \in j..Len(Ring) : Ring[i] = activePool /\ i # Len(Ring)
      BY <2>1, <2>4, <2>5
    <3>2. i \in 1..Len(Ring) /\ Len(Ring) \in 1..Len(Ring)
      BY <2>2
    <3> QED BY <2>1, <2>2, <2>3, <3>1, <3>2 DEF IsInjective
  <2> QED BY <2>5 DEF IInv, Rotation
<1> QED BY <1>1, Allocation, PTL

\* The rotation asks every pool exactly once before a pool is created.
THEOREM RotationIsComplete == Spec => []EveryPoolAskedOnce
BY GrowthIsNeeded, RotationEnds, PTL DEF EveryPoolAskedOnce

\* A descriptor set goes back to the pool it was allocated from.
THEOREM SetsGoHome == Spec => []FreedToOrigin
<1>1. IInv => FreedToOrigin
  BY DEF IInv, SetInv, TypeOK, FreedToOrigin
<1> QED BY <1>1, Allocation, PTL

\* The counter never falls below the number of recorded sets.
THEOREM CounterCovers == Spec => []CountCovers
<1>1. IInv => CountCovers
  BY DEF IInv, CountInv, Recorded, CountCovers
<1> QED BY <1>1, Allocation, PTL

\* The device is destroyed with no descriptor pool left.
THEOREM CleanupIsComplete == Spec => []ClosedLeavesNoPool
<1>1. IInv => ClosedLeavesNoPool
  BY DEF IInv, CountInv, ClosedLeavesNoPool
<1> QED BY <1>1, Allocation, PTL
=============================================================================
