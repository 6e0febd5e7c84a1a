------------------------ MODULE ObjectRegistryProofs ------------------------
(***************************************************************************)
(* The registry protocol keeps every object of the application mapped to   *)
(* its own record, for any number of threads and handles.                  *)
(*                                                                         *)
(* A handle that the driver considers live is, at any time, an object of   *)
(* the application or claimed by exactly one call: one that has created it *)
(* and has still to map it, or one that is about to destroy it.  A record  *)
(* that outlives its object is one an eraser, holding the lock, is about   *)
(* to remove, or one a destroyed command pool left.                        *)
(***************************************************************************)
EXTENDS ObjectRegistry, TLAPS

Creating == {"insert", "inserting"}
Claiming == {"insert", "inserting", "destroy"}
Ending == {"destroy", "erasing"}

CallInv ==
  \A t \in Threads :
     /\ pc[t] \in Creating => /\ handle[t] \in live
                              /\ owned[handle[t]] = None
                              /\ wanted[t] \in Formats
     /\ pc[t] = "destroy" => /\ handle[t] \in live \ forgotten
                             /\ owned[handle[t]] = None
                             /\ map[handle[t]] # None
     /\ pc[t] = "erasing" => /\ handle[t] \in Handles \ forgotten
                             /\ owned[handle[t]] = None
     /\ pc[t] \in {"using", "missed"} => /\ handle[t] \in Handles
                                         /\ owned[handle[t]] # None
     /\ pc[t] = "missed" => raced[t]

OneClaim ==
  \A t, u \in Threads :
     /\ handle[t] = handle[u]
     /\ \/ pc[t] \in Claiming /\ pc[u] \in Claiming
        \/ pc[t] \in Ending /\ pc[u] \in Ending
     => t = u

OwnedInv ==
  \A h \in Handles : owned[h] # None => /\ h \in live \ forgotten
                                        /\ map[h] = owned[h]

FreeInv ==
  \A h \in Handles :
     owned[h] = None =>
       /\ h \in live => \E t \in Threads : pc[t] \in Claiming /\ handle[t] = h
       /\ map[h] # None /\ h \notin forgotten =>
            \E t \in Threads : pc[t] \in Ending /\ handle[t] = h

IInv == TypeOK /\ CallInv /\ OneClaim /\ OwnedInv /\ FreeInv

\* Records are not None.
LEMMA Records ==
  /\ None \notin Objects
  /\ \A f \in Formats : New(f) \in Objects
  /\ \A o \in Objects, m \in Memories : [o EXCEPT !.memory = m] \in Objects
BY NoneIsNothing DEF Objects, New

LEMMA InitIInv == Init => IInv
BY NoneIsNothing
DEF Init, IInv, TypeOK, CallInv, OneClaim, OwnedInv, FreeInv, Creating, Claiming, Ending

\* Every step keeps the types.
LEMMA TypeStep == TypeOK /\ CallInv /\ [Next]_vars => TypeOK'
<1> SUFFICES ASSUME TypeOK, CallInv, [Next]_vars
             PROVE  TypeOK'
  OBVIOUS
<1> USE NoneIsNothing, Records DEF TypeOK
<1>1. CASE UNCHANGED vars
  BY <1>1 DEF vars
<1>2. ASSUME NEW t \in Threads, CreateInDriver(t) PROVE TypeOK'
  BY <1>2 DEF CreateInDriver
<1>3. ASSUME NEW t \in Threads, LockInsert(t) PROVE TypeOK'
  BY <1>3 DEF LockInsert
<1>4. ASSUME NEW t \in Threads, Insert(t) PROVE TypeOK'
  BY <1>4 DEF Insert, CallInv, Creating
<1>5. ASSUME NEW t \in Threads, Destroy(t) PROVE TypeOK'
  BY <1>5 DEF Destroy
<1>6. ASSUME NEW t \in Threads, DestroyInDriver(t) PROVE TypeOK'
  BY <1>6 DEF DestroyInDriver
<1>7. ASSUME NEW t \in Threads, Erase(t) PROVE TypeOK'
  BY <1>7 DEF Erase
<1>8. ASSUME NEW t \in Threads, DestroyCommandPool(t) PROVE TypeOK'
  BY <1>8 DEF DestroyCommandPool
<1>9. ASSUME NEW t \in Threads, BindBufferMemory(t) PROVE TypeOK'
  <2>1. PICK h \in Handles, m \in Memories :
          /\ owned[h] # None /\ owned[h].memory = None
          /\ owned' = [owned EXCEPT ![h].memory = m]
          /\ IF map[h] = None
             THEN /\ handle' = [handle EXCEPT ![t] = h]
                  /\ raced' = [raced EXCEPT ![t] = FALSE]
                  /\ pc' = [pc EXCEPT ![t] = "missed"]
                  /\ UNCHANGED map
             ELSE /\ map' = [map EXCEPT ![h].memory = m]
                  /\ UNCHANGED <<handle, pc, raced>>
    BY <1>9 DEF BindBufferMemory
  <2>2. owned[h] \in Objects /\ [owned[h] EXCEPT !.memory = m] \in Objects
    BY <2>1
  <2>3. owned' \in [Handles -> Objects \cup {None}]
    BY <2>1, <2>2
  <2>4. map' \in [Handles -> Objects \cup {None}]
    <3>1. CASE map[h] = None
      BY <3>1, <2>1
    <3>2. CASE map[h] # None
      <4>1. map[h] \in Objects /\ [map[h] EXCEPT !.memory = m] \in Objects
        BY <3>2
      <4> QED BY <4>1, <3>2, <2>1
    <3> QED BY <3>1, <3>2
  <2>5. pc[t] = "idle" /\ global_lock = None /\ UNCHANGED <<global_lock, wanted, live, forgotten>>
    BY <1>9 DEF BindBufferMemory
  <2>6. CASE map[h] = None
    <3>1. /\ handle' = [handle EXCEPT ![t] = h]
          /\ raced' = [raced EXCEPT ![t] = FALSE]
          /\ pc' = [pc EXCEPT ![t] = "missed"]
      BY <2>1, <2>6
    <3>2. raced' \in [Threads -> BOOLEAN] /\ handle' \in [Threads -> Handles \cup {None}]
      BY <3>1
    <3> QED BY <3>1, <3>2, <2>3, <2>4, <2>5
  <2>7. CASE map[h] # None
    BY <2>1, <2>3, <2>4, <2>5, <2>7
  <2> QED BY <2>6, <2>7
<1>10. ASSUME NEW t \in Threads, LookUp(t) PROVE TypeOK'
  <2>1. PICK h \in Handles, stage \in {"using", "missed"} :
          /\ handle' = [handle EXCEPT ![t] = h]
          /\ pc' = [pc EXCEPT ![t] = stage]
          /\ raced' = [raced EXCEPT ![t] = Changing(t)]
    BY <1>10 DEF LookUp
  <2>2. Changing(t) \in BOOLEAN
    BY DEF Changing
  <2>3. raced' \in [Threads -> BOOLEAN]
    BY <2>1, <2>2
  <2> QED BY <1>10, <2>1, <2>3 DEF LookUp
<1>11. ASSUME NEW t \in Threads, LookUpLocked(t) PROVE TypeOK'
  BY <1>11 DEF LookUpLocked
<1>12. ASSUME NEW t \in Threads, Finish(t) PROVE TypeOK'
  BY <1>12 DEF Finish
<1> QED
  BY <1>1, <1>2, <1>3, <1>4, <1>5, <1>6, <1>7, <1>8, <1>9, <1>10, <1>11, <1>12 DEF Next

\* The claim of every call in progress survives the steps of the others.
LEMMA CallStep == IInv /\ [Next]_vars => CallInv'
<1> SUFFICES ASSUME IInv, [Next]_vars PROVE CallInv'
  OBVIOUS
<1> USE NoneIsNothing, Records DEF IInv, TypeOK, CallInv, OneClaim, OwnedInv, Creating, Claiming, Ending
<1>1. CASE UNCHANGED vars
  BY <1>1 DEF vars
<1>2. ASSUME NEW t \in Threads, CreateInDriver(t) PROVE CallInv'
  BY <1>2 DEF CreateInDriver
<1>3. ASSUME NEW t \in Threads, LockInsert(t) PROVE CallInv'
  BY <1>3 DEF LockInsert
<1>4. ASSUME NEW t \in Threads, Insert(t) PROVE CallInv'
  BY <1>4 DEF Insert
<1>5. ASSUME NEW t \in Threads, Destroy(t) PROVE CallInv'
  BY <1>5 DEF Destroy, InUse
<1>6. ASSUME NEW t \in Threads, DestroyInDriver(t) PROVE CallInv'
  BY <1>6 DEF DestroyInDriver
<1>7. ASSUME NEW t \in Threads, Erase(t) PROVE CallInv'
  BY <1>7 DEF Erase
<1>8. ASSUME NEW t \in Threads, DestroyCommandPool(t) PROVE CallInv'
  BY <1>8 DEF DestroyCommandPool, InUse
<1>9. ASSUME NEW t \in Threads, BindBufferMemory(t) PROVE CallInv'
  BY <1>9 DEF BindBufferMemory
<1>10. ASSUME NEW t \in Threads, LookUp(t) PROVE CallInv'
  BY <1>10 DEF LookUp
<1>11. ASSUME NEW t \in Threads, LookUpLocked(t) PROVE CallInv'
  BY <1>11 DEF LookUpLocked
<1>12. ASSUME NEW t \in Threads, Finish(t) PROVE CallInv'
  BY <1>12 DEF Finish
<1> QED
  BY <1>1, <1>2, <1>3, <1>4, <1>5, <1>6, <1>7, <1>8, <1>9, <1>10, <1>11, <1>12 DEF Next

\* No handle is ever claimed twice.
LEMMA ClaimStep == IInv /\ [Next]_vars => OneClaim'
<1> SUFFICES ASSUME IInv, [Next]_vars PROVE OneClaim'
  OBVIOUS
<1> USE NoneIsNothing, Records DEF IInv, TypeOK, CallInv, OneClaim, OwnedInv, Creating, Claiming, Ending
<1>1. CASE UNCHANGED vars
  BY <1>1 DEF vars
<1>2. ASSUME NEW t \in Threads, CreateInDriver(t) PROVE OneClaim'
  BY <1>2 DEF CreateInDriver
<1>3. ASSUME NEW t \in Threads, LockInsert(t) PROVE OneClaim'
  BY <1>3 DEF LockInsert
<1>4. ASSUME NEW t \in Threads, Insert(t) PROVE OneClaim'
  BY <1>4 DEF Insert
<1>5. ASSUME NEW t \in Threads, Destroy(t) PROVE OneClaim'
  BY <1>5 DEF Destroy, InUse
<1>6. ASSUME NEW t \in Threads, DestroyInDriver(t) PROVE OneClaim'
  BY <1>6 DEF DestroyInDriver
<1>7. ASSUME NEW t \in Threads, Erase(t) PROVE OneClaim'
  BY <1>7 DEF Erase
<1>8. ASSUME NEW t \in Threads, DestroyCommandPool(t) PROVE OneClaim'
  BY <1>8 DEF DestroyCommandPool, InUse
<1>9. ASSUME NEW t \in Threads, BindBufferMemory(t) PROVE OneClaim'
  BY <1>9 DEF BindBufferMemory
<1>10. ASSUME NEW t \in Threads, LookUp(t) PROVE OneClaim'
  BY <1>10 DEF LookUp
<1>11. ASSUME NEW t \in Threads, LookUpLocked(t) PROVE OneClaim'
  BY <1>11 DEF LookUpLocked
<1>12. ASSUME NEW t \in Threads, Finish(t) PROVE OneClaim'
  BY <1>12 DEF Finish
<1> QED
  BY <1>1, <1>2, <1>3, <1>4, <1>5, <1>6, <1>7, <1>8, <1>9, <1>10, <1>11, <1>12 DEF Next

\* The application's objects keep their records.
LEMMA OwnedStep == IInv /\ [Next]_vars => OwnedInv'
<1> SUFFICES ASSUME IInv, [Next]_vars PROVE OwnedInv'
  OBVIOUS
<1> USE NoneIsNothing, Records DEF IInv, TypeOK, CallInv, OneClaim, OwnedInv, Creating, Claiming, Ending
<1>1. CASE UNCHANGED vars
  BY <1>1 DEF vars
<1>2. ASSUME NEW t \in Threads, CreateInDriver(t) PROVE OwnedInv'
  BY <1>2 DEF CreateInDriver
<1>3. ASSUME NEW t \in Threads, LockInsert(t) PROVE OwnedInv'
  BY <1>3 DEF LockInsert
<1>4. ASSUME NEW t \in Threads, Insert(t) PROVE OwnedInv'
  BY <1>4 DEF Insert
<1>5. ASSUME NEW t \in Threads, Destroy(t) PROVE OwnedInv'
  BY <1>5 DEF Destroy, InUse
<1>6. ASSUME NEW t \in Threads, DestroyInDriver(t) PROVE OwnedInv'
  BY <1>6 DEF DestroyInDriver
<1>7. ASSUME NEW t \in Threads, Erase(t) PROVE OwnedInv'
  BY <1>7 DEF Erase
<1>8. ASSUME NEW t \in Threads, DestroyCommandPool(t) PROVE OwnedInv'
  BY <1>8 DEF DestroyCommandPool, InUse
<1>9. ASSUME NEW t \in Threads, BindBufferMemory(t) PROVE OwnedInv'
  BY <1>9 DEF BindBufferMemory
<1>10. ASSUME NEW t \in Threads, LookUp(t) PROVE OwnedInv'
  BY <1>10 DEF LookUp
<1>11. ASSUME NEW t \in Threads, LookUpLocked(t) PROVE OwnedInv'
  BY <1>11 DEF LookUpLocked
<1>12. ASSUME NEW t \in Threads, Finish(t) PROVE OwnedInv'
  BY <1>12 DEF Finish
<1> QED
  BY <1>1, <1>2, <1>3, <1>4, <1>5, <1>6, <1>7, <1>8, <1>9, <1>10, <1>11, <1>12 DEF Next

\* What is live, or mapped, and not the application's is some call's business.
LEMMA FreeStep == IInv /\ [Next]_vars => FreeInv'
<1> SUFFICES ASSUME IInv, [Next]_vars PROVE FreeInv'
  OBVIOUS
<1> USE NoneIsNothing, Records DEF IInv, TypeOK, CallInv, OneClaim, OwnedInv, FreeInv, Creating, Claiming, Ending
<1>1. CASE UNCHANGED vars
  BY <1>1 DEF vars
<1>2. ASSUME NEW t \in Threads, CreateInDriver(t) PROVE FreeInv'
  BY <1>2 DEF CreateInDriver
<1>3. ASSUME NEW t \in Threads, LockInsert(t) PROVE FreeInv'
  BY <1>3 DEF LockInsert
<1>4. ASSUME NEW t \in Threads, Insert(t) PROVE FreeInv'
  BY <1>4 DEF Insert
<1>5. ASSUME NEW t \in Threads, Destroy(t) PROVE FreeInv'
  BY <1>5 DEF Destroy, InUse
<1>6. ASSUME NEW t \in Threads, DestroyInDriver(t) PROVE FreeInv'
  BY <1>6 DEF DestroyInDriver
<1>7. ASSUME NEW t \in Threads, Erase(t) PROVE FreeInv'
  BY <1>7 DEF Erase
<1>8. ASSUME NEW t \in Threads, DestroyCommandPool(t) PROVE FreeInv'
  BY <1>8 DEF DestroyCommandPool, InUse
<1>9. ASSUME NEW t \in Threads, BindBufferMemory(t) PROVE FreeInv'
  BY <1>9 DEF BindBufferMemory
<1>10. ASSUME NEW t \in Threads, LookUp(t) PROVE FreeInv'
  BY <1>10 DEF LookUp
<1>11. ASSUME NEW t \in Threads, LookUpLocked(t) PROVE FreeInv'
  BY <1>11 DEF LookUpLocked
<1>12. ASSUME NEW t \in Threads, Finish(t) PROVE FreeInv'
  BY <1>12 DEF Finish
<1> QED
  BY <1>1, <1>2, <1>3, <1>4, <1>5, <1>6, <1>7, <1>8, <1>9, <1>10, <1>11, <1>12 DEF Next

\* The inductive invariant.
THEOREM Registration == Spec => []IInv
<1>1. IInv /\ [Next]_vars => IInv'
  BY TypeStep, CallStep, ClaimStep, OwnedStep, FreeStep DEF IInv
<1> QED BY <1>1, InitIInv, PTL DEF Spec

\* The types, and the lock held by whoever changes the map.
THEOREM RegistryTypes == Spec => []TypeOK
<1>1. IInv => TypeOK
  BY DEF IInv
<1> QED BY <1>1, Registration, PTL

\* An object of the application is mapped to the record of its own creation,
\* however its handle is reused.
THEOREM OwnRecord == Spec => []OwnedRegistered
<1>1. IInv => OwnedRegistered
  BY DEF IInv, OwnedInv, OwnedRegistered
<1> QED BY <1>1, Registration, PTL

\* A call finds the object it is given, and finds it unchanged while it uses it,
\* unless it read the map while another thread was changing it.
THEOREM LookupsFind == Spec => []LookupsSucceed
<1>1. IInv => LookupsSucceed
  BY DEF IInv, CallInv, OwnedInv, LookupsSucceed
<1> QED BY <1>1, Registration, PTL

\* With no call in progress the map's entries are the driver's objects, but for
\* those destroyed command pools left behind.
THEOREM MapIsExact == Spec => []NothingStale
<1>1. IInv => NothingStale
  BY DEF IInv, OwnedInv, FreeInv, NothingStale, Claiming, Ending
<1> QED BY <1>1, Registration, PTL
=============================================================================
