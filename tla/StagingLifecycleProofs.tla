----------------------- MODULE StagingLifecycleProofs -----------------------
(***************************************************************************)
(* Proofs about StagingLifecycle for any number of command buffers,        *)
(* batches, pairs and threads: its type invariant, the ownership of        *)
(* batches and of (semaphore, fence) pairs, the hand-over of the           *)
(* notification from QueueSubmit to the finalizer, that staging resources  *)
(* are not freed under the GPU's feet, and the refinement of               *)
(* StagingReclamation.                                                     *)
(***************************************************************************)
EXTENDS StagingLifecycle, SequenceFacts, TLAPS

(* ---- Who owns a batch and who owns a pair ---- *)

\* A batch is in one place, and the place says in which variable it is held.
BatchOwnership ==
  /\ \A c \in CmdBufs : current[c] # None => place[current[c]] = "cb"
  /\ \A c, d \in CmdBufs : current[c] # None /\ current[c] = current[d] => c = d
  /\ \A b \in Range(stagingResourcesQueue) : place[b] = "queue"
  /\ IsInjective(stagingResourcesQueue)
  /\ \A b \in Range(fqueue) : place[b] = "local"
  /\ IsInjective(fqueue)
  /\ cur # None <=> fpc \in {"wait", "release", "free"}
  /\ cur # None => place[cur] = "cur"
  /\ \A b \in Batches : place[b] = "cur" => b = cur
  /\ fqueue # <<>> => fpc \in {"drain", "wait", "release", "free"}

\* Exactly the batches that were handed over and not released hold a pair.
PairOwnership ==
  /\ \A b \in Batches : sync[b] # None <=> Handed(b) /\ ~(b = cur /\ fpc = "free")
  /\ \A b \in Batches : sync[b] # None => sync[b] \in created
  /\ Range(freeSyncs) \subseteq created
  /\ givenUp \subseteq created
  /\ SyncExclusive

(* ---- Who holds global_lock ---- *)

LockOwnership ==
  /\ \A t \in Threads : pc[t] = "collect" <=> global_lock = t
  /\ fpc = "blocking" <=> global_lock = "finalizer"
  /\ dpc \in {"locked", "relock"} <=> global_lock = "destroyer"
  /\ fpc = "blocking" => stagingResourcesQueue = <<>>

IInv == TypeOK /\ BatchOwnership /\ PairOwnership /\ LockOwnership

-----------------------------------------------------------------------------
(* The values of the variables: a step lets every variable keep its type.   *)

\* Every action keeps the types.
LEMMA TypeStep == IInv /\ Next => TypeOK'
<1> SUFFICES ASSUME IInv, Next PROVE TypeOK'
  OBVIOUS
<1> USE LifecycleAssumption
    DEF cmdVars, batchVars, poolVars, gpuVars, threadVars, finVars, dtorVars,
        histVars, cbFrame, callFrame, finFrame, dtorFrame
<1>0. TypeOK
  BY DEF IInv
<1> USE <1>0
<1>1. ASSUME NEW c \in CmdBufs, AllocateCommandBuffer(c) PROVE TypeOK'
  BY <1>1 DEF AllocateCommandBuffer, DropCurrent, TypeOK
<1>2. ASSUME NEW c \in CmdBufs, FreeCommandBuffer(c) PROVE TypeOK'
  BY <1>2 DEF FreeCommandBuffer, DropCurrent, TypeOK
<1>3. ASSUME NEW c \in CmdBufs, DestroyCommandPool(c) PROVE TypeOK'
  BY <1>3 DEF DestroyCommandPool, TypeOK
<1>4. ASSUME NEW c \in CmdBufs, BeginCommandBuffer(c) PROVE TypeOK'
  BY <1>4 DEF BeginCommandBuffer, TypeOK
<1>5. ASSUME NEW c \in CmdBufs, ResetCommandBuffer(c) PROVE TypeOK'
  BY <1>5 DEF ResetCommandBuffer, TypeOK
<1>6. ASSUME NEW c \in CmdBufs, RecordCopy(c) PROVE TypeOK'
  BY <1>6 DEF RecordCopy, TypeOK
<1>7. ASSUME NEW t \in Threads, SubmitEnter(t) PROVE TypeOK'
  BY <1>7 DEF SubmitEnter, TypeOK
<1>8. ASSUME NEW t \in Threads, NEW c \in CmdBufs, SubmitCollect(t, c) PROVE TypeOK'
  <2>1. CASE current[c] = None
    <3>1. /\ UNCHANGED <<batchVars, stagingResourcesQueue, poolVars, fence, stagingFences>>
          /\ sigOf' = [sigOf EXCEPT ![c] = None]
      BY <1>8, <2>1 DEF SubmitCollect
    <3>2. todo' \in [Threads -> SUBSET CmdBufs]
      BY <1>8 DEF SubmitCollect, TypeOK
    <3> QED BY <1>8, <3>1, <3>2 DEF SubmitCollect, TypeOK
  <2>2. CASE current[c] # None
    <3>1. current[c] \in Batches
      BY <2>2 DEF TypeOK
    <3>2. PICK p \in Syncs :
            /\ Acquire(p)
            /\ current' = [current EXCEPT ![c] = None]
            /\ sync' = [sync EXCEPT ![current[c]] = p]
            /\ place' = [place EXCEPT ![current[c]] = "queue"]
            /\ stagingResourcesQueue' = Append(stagingResourcesQueue, current[c])
            /\ sigOf' = [sigOf EXCEPT ![c] = p]
            /\ stagingFences' = [stagingFences EXCEPT ![t] = Append(@, p)]
      BY <1>8, <2>2 DEF SubmitCollect
    <3>3. stagingResourcesQueue' \in Seq(Batches)
      BY <3>1, <3>2, AppendFacts DEF TypeOK
    <3>4. stagingFences' \in [Threads -> Seq(Syncs)]
      <4>1. Append(stagingFences[t], p) \in Seq(Syncs)
        BY AppendFacts DEF TypeOK
      <4> QED BY <3>2, <4>1 DEF TypeOK
    <3>5. freeSyncs' \in Seq(Syncs) /\ created' \in SUBSET Syncs
      BY <3>2, PopFacts DEF Acquire, TypeOK
    <3>6. fence' \in [Syncs -> {"reset", "pending", "signaled"}]
      BY <3>2 DEF Acquire, TypeOK
    <3> QED BY <1>8, <3>1, <3>2, <3>3, <3>4, <3>5, <3>6 DEF SubmitCollect, TypeOK
  <2> QED BY <2>1, <2>2
<1>9. ASSUME NEW t \in Threads, SubmitUnlock(t) PROVE TypeOK'
  BY <1>9 DEF SubmitUnlock, TypeOK
<1>10. ASSUME NEW t \in Threads, SubmitNotify(t) PROVE TypeOK'
  BY <1>10 DEF SubmitNotify, WakeFinalizer, TypeOK
<1>11. ASSUME NEW t \in Threads, SubmitAccepted(t) PROVE TypeOK'
  BY <1>11 DEF SubmitAccepted, TypeOK
<1>12. ASSUME NEW t \in Threads, SubmitRefused(t) PROVE TypeOK'
  BY <1>12, EmptyFacts DEF SubmitRefused, TypeOK
<1>13. ASSUME NEW t \in Threads, FenceAccepted(t) PROVE TypeOK'
  <2>1. Tail(stagingFences[t]) \in Seq(Syncs) /\ Head(stagingFences[t]) \in Syncs
    BY <1>13, TailFacts DEF FenceAccepted, TypeOK
  <2> QED BY <1>13, <2>1 DEF FenceAccepted, TypeOK
<1>14. ASSUME NEW t \in Threads, FenceRefused(t) PROVE TypeOK'
  BY <1>14, EmptyFacts DEF FenceRefused, TypeOK
<1>15. ASSUME NEW t \in Threads, SubmitReturn(t) PROVE TypeOK'
  BY <1>15 DEF SubmitReturn, TypeOK
<1>16. ASSUME NEW c \in CmdBufs, GpuComplete(c) PROVE TypeOK'
  BY <1>16 DEF GpuComplete, TypeOK
<1>17. ASSUME NEW p \in Syncs, GpuFence(p) PROVE TypeOK'
  BY <1>17 DEF GpuFence, TypeOK
<1>18. ASSUME DeviceLost PROVE TypeOK'
  BY <1>18 DEF DeviceLost, TypeOK
<1>19. ASSUME FinTop PROVE TypeOK'
  BY <1>19 DEF FinTop, TypeOK
<1>20. ASSUME FinAcquire PROVE TypeOK'
  <2>1. \/ UNCHANGED <<fqueue, stagingResourcesQueue>>
        \/ fqueue' = stagingResourcesQueue /\ stagingResourcesQueue' = <<>>
    BY <1>20 DEF FinAcquire
  <2>2. place' \in [Batches -> {"none", "cb", "queue", "local", "cur"}]
    BY <1>20 DEF FinAcquire, TypeOK
  <2>3. fpc' \in {"exited", "drain", "blocking"} /\ global_lock' \in {global_lock, "finalizer"}
    BY <1>20 DEF FinAcquire
  <2>4. fqueue' \in Seq(Batches) /\ stagingResourcesQueue' \in Seq(Batches)
    <3>1. <<>> \in Seq(Batches)
      BY EmptyFacts
    <3> QED BY <2>1, <3>1 DEF TypeOK
  <2> QED BY <1>20, <2>2, <2>3, <2>4 DEF FinAcquire, TypeOK
<1>21. ASSUME FinBlock PROVE TypeOK'
  BY <1>21 DEF FinBlock, TypeOK
<1>22. ASSUME FinSpuriousWake PROVE TypeOK'
  BY <1>22 DEF FinSpuriousWake, TypeOK
<1>23. ASSUME FinDrain PROVE TypeOK'
  <2>1. fqueue # <<>> => Last(fqueue) \in Batches /\ Front(fqueue) \in Seq(Batches)
    BY PopFacts DEF TypeOK
  <2>2. fqueue' \in Seq(Batches) /\ cur' \in Batches \cup {None}
    BY <1>23, <2>1 DEF FinDrain, TypeOK
  <2>3. place' \in [Batches -> {"none", "cb", "queue", "local", "cur"}]
    BY <1>23, <2>1 DEF FinDrain, TypeOK
  <2>4. fpc' \in {"top", "release", "wait"}
    BY <1>23 DEF FinDrain
  <2> QED BY <1>23, <2>2, <2>3, <2>4 DEF FinDrain, TypeOK
<1>24. ASSUME FinWait PROVE TypeOK'
  BY <1>24 DEF FinWait, TypeOK
<1>25. ASSUME FinRelease PROVE TypeOK'
  <2>1. cur \in Batches /\ sync[cur] \in Syncs
    BY <1>25 DEF FinRelease, IInv, TypeOK, BatchOwnership, PairOwnership, Handed
  <2>2. freeSyncs' \in Seq(Syncs)
    BY <1>25, <2>1, AppendFacts DEF FinRelease, TypeOK
  <2>3. adrift' \in SUBSET Batches
    BY <1>25, <2>1 DEF FinRelease, TypeOK
  <2> QED BY <1>25, <2>2, <2>3 DEF FinRelease, TypeOK
<1>26. ASSUME FinFree PROVE TypeOK'
  BY <1>26 DEF FinFree, TypeOK
<1>27. ASSUME DestroyStop PROVE TypeOK'
  BY <1>27 DEF DestroyStop, TypeOK
<1>28. ASSUME DestroyNotify PROVE TypeOK'
  BY <1>28 DEF DestroyNotify, WakeFinalizer, TypeOK
<1>29. ASSUME DestroyWaitIdle PROVE TypeOK'
  BY <1>29 DEF DestroyWaitIdle, TypeOK
<1>30. ASSUME DestroyJoin PROVE TypeOK'
  BY <1>30 DEF DestroyJoin, TypeOK
<1>31. ASSUME DestroyLock PROVE TypeOK'
  BY <1>31 DEF DestroyLock, TypeOK
<1>32. ASSUME DestroyRelock PROVE TypeOK'
  BY <1>32 DEF DestroyRelock, TypeOK
<1>33. ASSUME DestroyFinish PROVE TypeOK'
  BY <1>33 DEF DestroyFinish, TypeOK
<1>34. ASSUME FinWaitFails PROVE TypeOK'
  <2>1. cur \in Batches /\ sync[cur] \in Syncs
    BY <1>34 DEF FinWaitFails, IInv, TypeOK, BatchOwnership, PairOwnership, Handed
  <2> QED BY <1>34, <2>1 DEF FinWaitFails, TypeOK
<1>35. ASSUME DestroyWaitIdleFails PROVE TypeOK'
  BY <1>35 DEF DestroyWaitIdleFails, TypeOK
<1>36. ASSUME NEW p \in Syncs, GpuFenceReused(p) PROVE TypeOK'
  BY <1>36 DEF GpuFenceReused, TypeOK
<1> QED
  BY <1>1, <1>2, <1>3, <1>4, <1>5, <1>6, <1>7, <1>8, <1>9, <1>10, <1>11, <1>12, <1>13, <1>14, <1>15, <1>16, <1>17, <1>18, <1>19, <1>20, <1>21, <1>22, <1>23, <1>24, <1>25, <1>26, <1>27, <1>28, <1>29, <1>30, <1>31, <1>32, <1>33, <1>34, <1>35, <1>36
  DEF Next, CommandBufferStep, SubmitStep, GpuStep, FinLockFree, DestroyStep

-----------------------------------------------------------------------------
\* Every action keeps each batch with the one owner its place names.
LEMMA BatchStep == IInv /\ Next => BatchOwnership'
<1> SUFFICES ASSUME IInv, Next PROVE BatchOwnership'
  OBVIOUS
<1> USE LifecycleAssumption
    DEF cmdVars, batchVars, poolVars, gpuVars, threadVars, finVars, dtorVars,
        histVars, cbFrame, callFrame, finFrame, dtorFrame,
        TypeOK, BatchOwnership
<1>0. TypeOK /\ BatchOwnership
  BY DEF IInv
<1> USE <1>0
<1>1. ASSUME NEW c \in CmdBufs, AllocateCommandBuffer(c) PROVE BatchOwnership'
  <2>0. current[c] \in Batches \cup {None}
    OBVIOUS
  <2>1. \A d \in CmdBufs : d # c /\ current[d] # None => current[d] # current[c]
    OBVIOUS
  <2>2. \A b \in Batches : place'[b] # place[b] => b = current[c]
    BY <1>1 DEF AllocateCommandBuffer, DropCurrent
  <2>3. \A b \in Range(stagingResourcesQueue) : b \in Batches /\ b # current[c]
    BY <2>0, RangeIndex
  <2>4. \A b \in Range(fqueue) : b \in Batches /\ b # current[c]
    BY <2>0, RangeIndex
  <2>5. cur # None => cur # current[c]
    BY <2>0
  <2>6. /\ \A b \in Range(stagingResourcesQueue) : place'[b] = "queue"
        /\ \A b \in Range(fqueue) : place'[b] = "local"
    BY <2>2, <2>3, <2>4
  <2>7. /\ \A d \in CmdBufs : current'[d] # None => place'[current'[d]] = "cb"
        /\ \A d, e \in CmdBufs : current'[d] # None /\ current'[d] = current'[e] => d = e
    BY <1>1, <2>0, <2>1, <2>2 DEF AllocateCommandBuffer, DropCurrent
  <2>8. /\ cur # None => place'[cur] = "cur"
        /\ \A b \in Batches : place'[b] = "cur" => b = cur
    BY <1>1, <2>0, <2>2, <2>5 DEF AllocateCommandBuffer, DropCurrent
  <2> QED BY <1>1, <2>6, <2>7, <2>8 DEF AllocateCommandBuffer, DropCurrent
<1>2. ASSUME NEW c \in CmdBufs, FreeCommandBuffer(c) PROVE BatchOwnership'
  <2>0. current[c] \in Batches \cup {None}
    OBVIOUS
  <2>1. \A d \in CmdBufs : d # c /\ current[d] # None => current[d] # current[c]
    OBVIOUS
  <2>2. \A b \in Batches : place'[b] # place[b] => b = current[c]
    BY <1>2 DEF FreeCommandBuffer, DropCurrent
  <2>3. \A b \in Range(stagingResourcesQueue) : b \in Batches /\ b # current[c]
    BY <2>0, RangeIndex
  <2>4. \A b \in Range(fqueue) : b \in Batches /\ b # current[c]
    BY <2>0, RangeIndex
  <2>5. cur # None => cur # current[c]
    BY <2>0
  <2>6. /\ \A b \in Range(stagingResourcesQueue) : place'[b] = "queue"
        /\ \A b \in Range(fqueue) : place'[b] = "local"
    BY <2>2, <2>3, <2>4
  <2>7. /\ \A d \in CmdBufs : current'[d] # None => place'[current'[d]] = "cb"
        /\ \A d, e \in CmdBufs : current'[d] # None /\ current'[d] = current'[e] => d = e
    BY <1>2, <2>0, <2>1, <2>2 DEF FreeCommandBuffer, DropCurrent
  <2>8. /\ cur # None => place'[cur] = "cur"
        /\ \A b \in Batches : place'[b] = "cur" => b = cur
    BY <1>2, <2>0, <2>2, <2>5 DEF FreeCommandBuffer, DropCurrent
  <2> QED BY <1>2, <2>6, <2>7, <2>8 DEF FreeCommandBuffer, DropCurrent
<1>3. ASSUME NEW c \in CmdBufs, DestroyCommandPool(c) PROVE BatchOwnership'
  BY <1>3 DEF DestroyCommandPool
<1>4. ASSUME NEW c \in CmdBufs, BeginCommandBuffer(c) PROVE BatchOwnership'
  BY <1>4 DEF BeginCommandBuffer
<1>5. ASSUME NEW c \in CmdBufs, ResetCommandBuffer(c) PROVE BatchOwnership'
  BY <1>5 DEF ResetCommandBuffer
<1>6. ASSUME NEW c \in CmdBufs, RecordCopy(c) PROVE BatchOwnership'
  BY <1>6 DEF RecordCopy
<1>7. ASSUME NEW t \in Threads, SubmitEnter(t) PROVE BatchOwnership'
  BY <1>7 DEF SubmitEnter
<1>8. ASSUME NEW t \in Threads, NEW c \in CmdBufs, SubmitCollect(t, c) PROVE BatchOwnership'
  <2>1. CASE current[c] = None
    BY <1>8, <2>1 DEF SubmitCollect
  <2>2. CASE current[c] # None
    <3>1. /\ current[c] \in Batches /\ place[current[c]] = "cb"
          /\ current' = [current EXCEPT ![c] = None]
          /\ place' = [place EXCEPT ![current[c]] = "queue"]
          /\ stagingResourcesQueue' = Append(stagingResourcesQueue, current[c])
      BY <1>8, <2>2 DEF SubmitCollect
    <3>2. current[c] \notin Range(stagingResourcesQueue) \cup Range(fqueue)
      BY <3>1
    <3>3. /\ Range(stagingResourcesQueue') = Range(stagingResourcesQueue) \cup {current[c]}
          /\ IsInjective(stagingResourcesQueue')
      BY <3>1, <3>2, AppendFacts
    <3>4. \A b \in Range(stagingResourcesQueue') : place'[b] = "queue"
      BY <3>1, <3>2, <3>3, RangeIndex
    <3>5. \A b \in Range(fqueue) : place'[b] = "local"
      BY <3>1, <3>2, RangeIndex
    <3> QED BY <1>8, <3>1, <3>3, <3>4, <3>5 DEF SubmitCollect
  <2> QED BY <2>1, <2>2
<1>9. ASSUME NEW t \in Threads, SubmitUnlock(t) PROVE BatchOwnership'
  BY <1>9 DEF SubmitUnlock
<1>10. ASSUME NEW t \in Threads, SubmitNotify(t) PROVE BatchOwnership'
  BY <1>10 DEF SubmitNotify, WakeFinalizer
<1>11. ASSUME NEW t \in Threads, SubmitAccepted(t) PROVE BatchOwnership'
  BY <1>11 DEF SubmitAccepted
<1>12. ASSUME NEW t \in Threads, SubmitRefused(t) PROVE BatchOwnership'
  BY <1>12 DEF SubmitRefused
<1>13. ASSUME NEW t \in Threads, FenceAccepted(t) PROVE BatchOwnership'
  BY <1>13 DEF FenceAccepted
<1>14. ASSUME NEW t \in Threads, FenceRefused(t) PROVE BatchOwnership'
  BY <1>14 DEF FenceRefused
<1>15. ASSUME NEW t \in Threads, SubmitReturn(t) PROVE BatchOwnership'
  BY <1>15 DEF SubmitReturn
<1>16. ASSUME NEW c \in CmdBufs, GpuComplete(c) PROVE BatchOwnership'
  BY <1>16 DEF GpuComplete
<1>17. ASSUME NEW p \in Syncs, GpuFence(p) PROVE BatchOwnership'
  BY <1>17 DEF GpuFence
<1>18. ASSUME DeviceLost PROVE BatchOwnership'
  BY <1>18 DEF DeviceLost
<1>19. ASSUME FinTop PROVE BatchOwnership'
  BY <1>19 DEF FinTop
<1>20. ASSUME FinAcquire PROVE BatchOwnership'
  <2>1. \A b \in Range(stagingResourcesQueue) : b \in Batches
    BY RangeIndex
  <2>2. fqueue = <<>> /\ cur = None /\ Range(<<>>) = {} /\ IsInjective(<<>>)
    BY <1>20, EmptyFacts DEF FinAcquire
  <2>3. CASE ~stop_thread /\ stagingResourcesQueue # <<>>
    <3>1. \A b \in Range(fqueue') : place'[b] = "local"
      BY <1>20, <2>1, <2>3 DEF FinAcquire
    <3> QED BY <1>20, <2>2, <2>3, <3>1 DEF FinAcquire
  <2>4. CASE stop_thread \/ stagingResourcesQueue = <<>>
    BY <1>20, <2>4 DEF FinAcquire
  <2> QED BY <2>3, <2>4
<1>21. ASSUME FinBlock PROVE BatchOwnership'
  BY <1>21 DEF FinBlock
<1>22. ASSUME FinSpuriousWake PROVE BatchOwnership'
  BY <1>22 DEF FinSpuriousWake
<1>23. ASSUME FinDrain PROVE BatchOwnership'
  <2>1. cur = None
    BY <1>23 DEF FinDrain
  <2>2. CASE fqueue = <<>>
    BY <1>23, <2>1, <2>2 DEF FinDrain
  <2>3. CASE fqueue # <<>>
    <3>1. /\ Last(fqueue) \in Batches /\ Front(fqueue) \in Seq(Batches)
          /\ Range(fqueue) = Range(Front(fqueue)) \cup {Last(fqueue)}
          /\ IsInjective(Front(fqueue)) /\ Last(fqueue) \notin Range(Front(fqueue))
      BY <2>3, PopFacts
    <3>2. /\ cur' = Last(fqueue) /\ fqueue' = Front(fqueue) /\ fpc' \in {"wait", "release"}
          /\ place' = [place EXCEPT ![Last(fqueue)] = "cur"]
          /\ UNCHANGED <<current, stagingResourcesQueue>>
      BY <1>23, <2>3 DEF FinDrain
    <3>3. place[Last(fqueue)] = "local"
      BY <3>1
    <3>4. \A b \in Range(stagingResourcesQueue) : b \in Batches /\ b # Last(fqueue)
      BY <3>3, RangeIndex
    <3>5. \A b \in Range(Front(fqueue)) : place'[b] = "local"
      BY <3>1, <3>2, RangeIndex
    <3>6. \A d \in CmdBufs : current[d] # None => place'[current[d]] = "cb"
      BY <3>2, <3>3
    <3>7. \A b \in Batches : place'[b] = "cur" => b = cur'
      BY <2>1, <3>1, <3>2
    <3>8. cur' # None /\ place'[cur'] = "cur"
      BY <3>1, <3>2
    <3>9. \A b \in Range(stagingResourcesQueue') : place'[b] = "queue"
      BY <3>2, <3>4
    <3> QED BY <3>1, <3>2, <3>5, <3>6, <3>7, <3>8, <3>9
  <2> QED BY <2>2, <2>3
<1>24. ASSUME FinWait PROVE BatchOwnership'
  BY <1>24 DEF FinWait
<1>25. ASSUME FinRelease PROVE BatchOwnership'
  BY <1>25 DEF FinRelease
<1>26. ASSUME FinFree PROVE BatchOwnership'
  BY <1>26 DEF FinFree
<1>27. ASSUME DestroyStop PROVE BatchOwnership'
  BY <1>27 DEF DestroyStop
<1>28. ASSUME DestroyNotify PROVE BatchOwnership'
  BY <1>28 DEF DestroyNotify, WakeFinalizer
<1>29. ASSUME DestroyWaitIdle PROVE BatchOwnership'
  BY <1>29 DEF DestroyWaitIdle
<1>30. ASSUME DestroyJoin PROVE BatchOwnership'
  BY <1>30 DEF DestroyJoin
<1>31. ASSUME DestroyLock PROVE BatchOwnership'
  BY <1>31 DEF DestroyLock
<1>32. ASSUME DestroyRelock PROVE BatchOwnership'
  BY <1>32 DEF DestroyRelock
<1>33. ASSUME DestroyFinish PROVE BatchOwnership'
  BY <1>33 DEF DestroyFinish
<1>34. ASSUME FinWaitFails PROVE BatchOwnership'
  BY <1>34 DEF FinWaitFails
<1>35. ASSUME DestroyWaitIdleFails PROVE BatchOwnership'
  BY <1>35 DEF DestroyWaitIdleFails
<1>36. ASSUME NEW p \in Syncs, GpuFenceReused(p) PROVE BatchOwnership'
  BY <1>36 DEF GpuFenceReused
<1> QED
  BY <1>1, <1>2, <1>3, <1>4, <1>5, <1>6, <1>7, <1>8, <1>9, <1>10, <1>11, <1>12, <1>13, <1>14, <1>15, <1>16, <1>17, <1>18, <1>19, <1>20, <1>21, <1>22, <1>23, <1>24, <1>25, <1>26, <1>27, <1>28, <1>29, <1>30, <1>31, <1>32, <1>33, <1>34, <1>35, <1>36
  DEF Next, CommandBufferStep, SubmitStep, GpuStep, FinLockFree, DestroyStep

-----------------------------------------------------------------------------
\* Every action keeps each pair either in the pool or with one handed batch.
LEMMA PairStep == IInv /\ Next => PairOwnership'
<1> SUFFICES ASSUME IInv, Next PROVE PairOwnership'
  OBVIOUS
<1> USE LifecycleAssumption
    DEF cmdVars, batchVars, poolVars, gpuVars, threadVars, finVars, dtorVars,
        histVars, cbFrame, callFrame, finFrame, dtorFrame,
        TypeOK, BatchOwnership, PairOwnership, SyncExclusive, Handed
<1>0. TypeOK /\ BatchOwnership /\ PairOwnership
  BY DEF IInv
<1> USE <1>0
<1>1. ASSUME NEW c \in CmdBufs, AllocateCommandBuffer(c) PROVE PairOwnership'
  BY <1>1 DEF AllocateCommandBuffer, DropCurrent
<1>2. ASSUME NEW c \in CmdBufs, FreeCommandBuffer(c) PROVE PairOwnership'
  <2>1. \A b \in Batches : Handed(b)' <=> Handed(b)
    BY <1>2 DEF FreeCommandBuffer, DropCurrent
  <2>2. UNCHANGED <<sync, freeSyncs, created, givenUp, cur, fpc>>
    BY <1>2 DEF FreeCommandBuffer
  <2> QED BY <2>1, <2>2
<1>3. ASSUME NEW c \in CmdBufs, DestroyCommandPool(c) PROVE PairOwnership'
  BY <1>3 DEF DestroyCommandPool
<1>4. ASSUME NEW c \in CmdBufs, BeginCommandBuffer(c) PROVE PairOwnership'
  BY <1>4 DEF BeginCommandBuffer
<1>5. ASSUME NEW c \in CmdBufs, ResetCommandBuffer(c) PROVE PairOwnership'
  BY <1>5 DEF ResetCommandBuffer
<1>6. ASSUME NEW c \in CmdBufs, RecordCopy(c) PROVE PairOwnership'
  BY <1>6 DEF RecordCopy
<1>7. ASSUME NEW t \in Threads, SubmitEnter(t) PROVE PairOwnership'
  BY <1>7 DEF SubmitEnter
<1>8. ASSUME NEW t \in Threads, NEW c \in CmdBufs, SubmitCollect(t, c) PROVE PairOwnership'
  <2>1. CASE current[c] = None
    BY <1>8, <2>1 DEF SubmitCollect
  <2>2. CASE current[c] # None
    <3> DEFINE b == current[c]
    <3>1. b \in Batches /\ place[b] = "cb" /\ b # cur
      BY <2>2
    <3>2. PICK p \in Syncs :
            /\ Acquire(p)
            /\ sync' = [sync EXCEPT ![b] = p]
            /\ place' = [place EXCEPT ![b] = "queue"]
      BY <1>8, <2>2 DEF SubmitCollect
    <3>3. /\ p \in created' /\ p \notin Range(freeSyncs')
          /\ IsInjective(freeSyncs') /\ Range(freeSyncs') \subseteq Range(freeSyncs)
          /\ created \subseteq created'
      BY <3>2, PopFacts DEF Acquire
    <3>4. \A a \in Batches : sync[a] # p
      BY <3>2, PopFacts DEF Acquire
    <3>5. \A a \in Batches : sync'[a] # None <=> Handed(a)' /\ ~(a = cur' /\ fpc' = "free")
      BY <1>8, <3>1, <3>2 DEF SubmitCollect
    <3>6. \A a \in Batches : sync'[a] # None => sync'[a] \in created' /\ sync'[a] \notin Range(freeSyncs')
      BY <3>1, <3>2, <3>3
    <3>7. \A a, d \in Batches : sync'[a] # None /\ sync'[a] = sync'[d] => a = d
      BY <3>1, <3>2, <3>4
    <3>8. UNCHANGED givenUp
      BY <1>8 DEF SubmitCollect
    <3> QED BY <3>3, <3>5, <3>6, <3>7, <3>8
  <2> QED BY <2>1, <2>2
<1>9. ASSUME NEW t \in Threads, SubmitUnlock(t) PROVE PairOwnership'
  BY <1>9 DEF SubmitUnlock
<1>10. ASSUME NEW t \in Threads, SubmitNotify(t) PROVE PairOwnership'
  BY <1>10 DEF SubmitNotify, WakeFinalizer
<1>11. ASSUME NEW t \in Threads, SubmitAccepted(t) PROVE PairOwnership'
  BY <1>11 DEF SubmitAccepted
<1>12. ASSUME NEW t \in Threads, SubmitRefused(t) PROVE PairOwnership'
  BY <1>12 DEF SubmitRefused
<1>13. ASSUME NEW t \in Threads, FenceAccepted(t) PROVE PairOwnership'
  BY <1>13 DEF FenceAccepted
<1>14. ASSUME NEW t \in Threads, FenceRefused(t) PROVE PairOwnership'
  BY <1>14 DEF FenceRefused
<1>15. ASSUME NEW t \in Threads, SubmitReturn(t) PROVE PairOwnership'
  BY <1>15 DEF SubmitReturn
<1>16. ASSUME NEW c \in CmdBufs, GpuComplete(c) PROVE PairOwnership'
  BY <1>16 DEF GpuComplete
<1>17. ASSUME NEW p \in Syncs, GpuFence(p) PROVE PairOwnership'
  BY <1>17 DEF GpuFence
<1>18. ASSUME DeviceLost PROVE PairOwnership'
  BY <1>18 DEF DeviceLost
<1>19. ASSUME FinTop PROVE PairOwnership'
  BY <1>19 DEF FinTop
<1>20. ASSUME FinAcquire PROVE PairOwnership'
  BY <1>20, RangeIndex DEF FinAcquire
<1>21. ASSUME FinBlock PROVE PairOwnership'
  BY <1>21 DEF FinBlock
<1>22. ASSUME FinSpuriousWake PROVE PairOwnership'
  BY <1>22 DEF FinSpuriousWake
<1>23. ASSUME FinDrain PROVE PairOwnership'
  BY <1>23, PopFacts DEF FinDrain
<1>24. ASSUME FinWait PROVE PairOwnership'
  BY <1>24 DEF FinWait
<1>25. ASSUME FinRelease PROVE PairOwnership'
  BY <1>25, AppendFacts DEF FinRelease
<1>26. ASSUME FinFree PROVE PairOwnership'
  BY <1>26 DEF FinFree
<1>27. ASSUME DestroyStop PROVE PairOwnership'
  BY <1>27 DEF DestroyStop
<1>28. ASSUME DestroyNotify PROVE PairOwnership'
  BY <1>28 DEF DestroyNotify, WakeFinalizer
<1>29. ASSUME DestroyWaitIdle PROVE PairOwnership'
  BY <1>29 DEF DestroyWaitIdle
<1>30. ASSUME DestroyJoin PROVE PairOwnership'
  BY <1>30 DEF DestroyJoin
<1>31. ASSUME DestroyLock PROVE PairOwnership'
  BY <1>31 DEF DestroyLock
<1>32. ASSUME DestroyRelock PROVE PairOwnership'
  BY <1>32 DEF DestroyRelock
<1>33. ASSUME DestroyFinish PROVE PairOwnership'
  BY <1>33 DEF DestroyFinish
<1>34. ASSUME FinWaitFails PROVE PairOwnership'
  BY <1>34 DEF FinWaitFails
<1>35. ASSUME DestroyWaitIdleFails PROVE PairOwnership'
  BY <1>35 DEF DestroyWaitIdleFails
<1>36. ASSUME NEW p \in Syncs, GpuFenceReused(p) PROVE PairOwnership'
  BY <1>36 DEF GpuFenceReused
<1> QED
  BY <1>1, <1>2, <1>3, <1>4, <1>5, <1>6, <1>7, <1>8, <1>9, <1>10, <1>11, <1>12, <1>13, <1>14, <1>15, <1>16, <1>17, <1>18, <1>19, <1>20, <1>21, <1>22, <1>23, <1>24, <1>25, <1>26, <1>27, <1>28, <1>29, <1>30, <1>31, <1>32, <1>33, <1>34, <1>35, <1>36
  DEF Next, CommandBufferStep, SubmitStep, GpuStep, FinLockFree, DestroyStep

-----------------------------------------------------------------------------
\* Every action keeps track of who holds global_lock.
LEMMA LockStep == IInv /\ Next => LockOwnership'
<1> SUFFICES ASSUME IInv, Next PROVE LockOwnership'
  OBVIOUS
<1> USE LifecycleAssumption
    DEF cmdVars, batchVars, poolVars, gpuVars, threadVars, finVars, dtorVars,
        histVars, cbFrame, callFrame, finFrame, dtorFrame,
        TypeOK, LockOwnership
<1>0. TypeOK /\ LockOwnership
  BY DEF IInv
<1> USE <1>0
<1>1. ASSUME NEW c \in CmdBufs, AllocateCommandBuffer(c) PROVE LockOwnership'
  BY <1>1 DEF AllocateCommandBuffer, DropCurrent
<1>2. ASSUME NEW c \in CmdBufs, FreeCommandBuffer(c) PROVE LockOwnership'
  BY <1>2 DEF FreeCommandBuffer, DropCurrent
<1>3. ASSUME NEW c \in CmdBufs, DestroyCommandPool(c) PROVE LockOwnership'
  BY <1>3 DEF DestroyCommandPool
<1>4. ASSUME NEW c \in CmdBufs, BeginCommandBuffer(c) PROVE LockOwnership'
  BY <1>4 DEF BeginCommandBuffer
<1>5. ASSUME NEW c \in CmdBufs, ResetCommandBuffer(c) PROVE LockOwnership'
  BY <1>5 DEF ResetCommandBuffer
<1>6. ASSUME NEW c \in CmdBufs, RecordCopy(c) PROVE LockOwnership'
  BY <1>6 DEF RecordCopy
<1>7. ASSUME NEW t \in Threads, SubmitEnter(t) PROVE LockOwnership'
  BY <1>7 DEF SubmitEnter
<1>8. ASSUME NEW t \in Threads, NEW c \in CmdBufs, SubmitCollect(t, c) PROVE LockOwnership'
  BY <1>8 DEF SubmitCollect, Acquire
<1>9. ASSUME NEW t \in Threads, SubmitUnlock(t) PROVE LockOwnership'
  BY <1>9 DEF SubmitUnlock
<1>10. ASSUME NEW t \in Threads, SubmitNotify(t) PROVE LockOwnership'
  BY <1>10 DEF SubmitNotify, WakeFinalizer
<1>11. ASSUME NEW t \in Threads, SubmitAccepted(t) PROVE LockOwnership'
  BY <1>11 DEF SubmitAccepted
<1>12. ASSUME NEW t \in Threads, SubmitRefused(t) PROVE LockOwnership'
  BY <1>12 DEF SubmitRefused
<1>13. ASSUME NEW t \in Threads, FenceAccepted(t) PROVE LockOwnership'
  BY <1>13 DEF FenceAccepted
<1>14. ASSUME NEW t \in Threads, FenceRefused(t) PROVE LockOwnership'
  BY <1>14 DEF FenceRefused
<1>15. ASSUME NEW t \in Threads, SubmitReturn(t) PROVE LockOwnership'
  BY <1>15 DEF SubmitReturn
<1>16. ASSUME NEW c \in CmdBufs, GpuComplete(c) PROVE LockOwnership'
  BY <1>16 DEF GpuComplete
<1>17. ASSUME NEW p \in Syncs, GpuFence(p) PROVE LockOwnership'
  BY <1>17 DEF GpuFence
<1>18. ASSUME DeviceLost PROVE LockOwnership'
  BY <1>18 DEF DeviceLost
<1>19. ASSUME FinTop PROVE LockOwnership'
  BY <1>19 DEF FinTop
<1>20. ASSUME FinAcquire PROVE LockOwnership'
  BY <1>20 DEF FinAcquire
<1>21. ASSUME FinBlock PROVE LockOwnership'
  BY <1>21 DEF FinBlock
<1>22. ASSUME FinSpuriousWake PROVE LockOwnership'
  BY <1>22 DEF FinSpuriousWake
<1>23. ASSUME FinDrain PROVE LockOwnership'
  BY <1>23 DEF FinDrain
<1>24. ASSUME FinWait PROVE LockOwnership'
  BY <1>24 DEF FinWait
<1>25. ASSUME FinRelease PROVE LockOwnership'
  BY <1>25 DEF FinRelease
<1>26. ASSUME FinFree PROVE LockOwnership'
  BY <1>26 DEF FinFree
<1>27. ASSUME DestroyStop PROVE LockOwnership'
  BY <1>27 DEF DestroyStop
<1>28. ASSUME DestroyNotify PROVE LockOwnership'
  BY <1>28 DEF DestroyNotify, WakeFinalizer
<1>29. ASSUME DestroyWaitIdle PROVE LockOwnership'
  BY <1>29 DEF DestroyWaitIdle
<1>30. ASSUME DestroyJoin PROVE LockOwnership'
  BY <1>30 DEF DestroyJoin
<1>31. ASSUME DestroyLock PROVE LockOwnership'
  BY <1>31 DEF DestroyLock
<1>32. ASSUME DestroyRelock PROVE LockOwnership'
  BY <1>32 DEF DestroyRelock
<1>33. ASSUME DestroyFinish PROVE LockOwnership'
  BY <1>33 DEF DestroyFinish
<1>34. ASSUME FinWaitFails PROVE LockOwnership'
  BY <1>34 DEF FinWaitFails
<1>35. ASSUME DestroyWaitIdleFails PROVE LockOwnership'
  BY <1>35 DEF DestroyWaitIdleFails
<1>36. ASSUME NEW p \in Syncs, GpuFenceReused(p) PROVE LockOwnership'
  BY <1>36 DEF GpuFenceReused
<1> QED
  BY <1>1, <1>2, <1>3, <1>4, <1>5, <1>6, <1>7, <1>8, <1>9, <1>10, <1>11, <1>12, <1>13, <1>14, <1>15, <1>16, <1>17, <1>18, <1>19, <1>20, <1>21, <1>22, <1>23, <1>24, <1>25, <1>26, <1>27, <1>28, <1>29, <1>30, <1>31, <1>32, <1>33, <1>34, <1>35, <1>36
  DEF Next, CommandBufferStep, SubmitStep, GpuStep, FinLockFree, DestroyStep

-----------------------------------------------------------------------------
LEMMA InitIInv == Init => IInv
<1> SUFFICES ASSUME Init PROVE IInv
  OBVIOUS
<1>1. TypeOK
  BY LifecycleAssumption, EmptyFacts DEF Init, TypeOK
<1>2. BatchOwnership
  BY EmptyFacts DEF Init, BatchOwnership
<1>3. PairOwnership
  BY EmptyFacts DEF Init, PairOwnership, SyncExclusive, Handed
<1>4. LockOwnership
  BY LifecycleAssumption DEF Init, LockOwnership
<1> QED BY <1>1, <1>2, <1>3, <1>4 DEF IInv

LEMMA StutterIInv == IInv /\ UNCHANGED vars => IInv'
BY DEF IInv, TypeOK, BatchOwnership, PairOwnership, SyncExclusive, Handed, LockOwnership,
       vars, cmdVars, batchVars, poolVars, gpuVars, threadVars, finVars, dtorVars, histVars

\* IInv is an inductive invariant.
THEOREM Ownership == Spec => []IInv
<1>1. IInv /\ [Next]_vars => IInv'
  BY TypeStep, BatchStep, PairStep, LockStep, StutterIInv DEF IInv
<1> QED BY <1>1, InitIInv, PTL DEF Spec

\* Every variable keeps its type: in particular no control point, place or
\* state of a semaphore or fence outside the ones the code can be in.
THEOREM TypeCorrect == Spec => []TypeOK
<1>1. IInv => TypeOK
  BY DEF IInv
<1> QED BY <1>1, Ownership, PTL

\* SyncPool never hands one (semaphore, fence) pair to two batches and never
\* holds it twice, whatever submitters and the finalizer do concurrently.
THEOREM PairsExclusive == Spec => []SyncExclusive
<1>1. IInv => SyncExclusive
  BY DEF IInv, PairOwnership
<1> QED BY <1>1, Ownership, PTL

-----------------------------------------------------------------------------
(* The finalizer's sleep.                                                   *)

\* A queue that becomes non-empty does so under the lock of a call that has
\* still to notify, and the finalizer goes to sleep only on an empty queue.
LEMMA WakeupStep == IInv /\ NoMissedWakeup /\ Next => NoMissedWakeup'
<1> SUFFICES ASSUME IInv, NoMissedWakeup, Next PROVE NoMissedWakeup'
  OBVIOUS
<1> USE LifecycleAssumption
    DEF cmdVars, batchVars, poolVars, gpuVars, threadVars, finVars, dtorVars,
        histVars, cbFrame, callFrame, finFrame, dtorFrame,
        TypeOK, LockOwnership, NoMissedWakeup
<1>0. TypeOK /\ LockOwnership
  BY DEF IInv
<1> USE <1>0
<1>1. ASSUME NEW c \in CmdBufs, AllocateCommandBuffer(c) PROVE NoMissedWakeup'
  BY <1>1 DEF AllocateCommandBuffer, DropCurrent
<1>2. ASSUME NEW c \in CmdBufs, FreeCommandBuffer(c) PROVE NoMissedWakeup'
  BY <1>2 DEF FreeCommandBuffer, DropCurrent
<1>3. ASSUME NEW c \in CmdBufs, DestroyCommandPool(c) PROVE NoMissedWakeup'
  BY <1>3 DEF DestroyCommandPool
<1>4. ASSUME NEW c \in CmdBufs, BeginCommandBuffer(c) PROVE NoMissedWakeup'
  BY <1>4 DEF BeginCommandBuffer
<1>5. ASSUME NEW c \in CmdBufs, ResetCommandBuffer(c) PROVE NoMissedWakeup'
  BY <1>5 DEF ResetCommandBuffer
<1>6. ASSUME NEW c \in CmdBufs, RecordCopy(c) PROVE NoMissedWakeup'
  BY <1>6 DEF RecordCopy
<1>7. ASSUME NEW t \in Threads, SubmitEnter(t) PROVE NoMissedWakeup'
  BY <1>7 DEF SubmitEnter
<1>8. ASSUME NEW t \in Threads, NEW c \in CmdBufs, SubmitCollect(t, c) PROVE NoMissedWakeup'
  BY <1>8 DEF SubmitCollect, Acquire
<1>9. ASSUME NEW t \in Threads, SubmitUnlock(t) PROVE NoMissedWakeup'
  BY <1>9 DEF SubmitUnlock
<1>10. ASSUME NEW t \in Threads, SubmitNotify(t) PROVE NoMissedWakeup'
  BY <1>10 DEF SubmitNotify, WakeFinalizer
<1>11. ASSUME NEW t \in Threads, SubmitAccepted(t) PROVE NoMissedWakeup'
  BY <1>11 DEF SubmitAccepted
<1>12. ASSUME NEW t \in Threads, SubmitRefused(t) PROVE NoMissedWakeup'
  BY <1>12 DEF SubmitRefused
<1>13. ASSUME NEW t \in Threads, FenceAccepted(t) PROVE NoMissedWakeup'
  BY <1>13 DEF FenceAccepted
<1>14. ASSUME NEW t \in Threads, FenceRefused(t) PROVE NoMissedWakeup'
  BY <1>14 DEF FenceRefused
<1>15. ASSUME NEW t \in Threads, SubmitReturn(t) PROVE NoMissedWakeup'
  BY <1>15 DEF SubmitReturn
<1>16. ASSUME NEW c \in CmdBufs, GpuComplete(c) PROVE NoMissedWakeup'
  BY <1>16 DEF GpuComplete
<1>17. ASSUME NEW p \in Syncs, GpuFence(p) PROVE NoMissedWakeup'
  BY <1>17 DEF GpuFence
<1>18. ASSUME DeviceLost PROVE NoMissedWakeup'
  BY <1>18 DEF DeviceLost
<1>19. ASSUME FinTop PROVE NoMissedWakeup'
  BY <1>19 DEF FinTop
<1>20. ASSUME FinAcquire PROVE NoMissedWakeup'
  BY <1>20 DEF FinAcquire
<1>21. ASSUME FinBlock PROVE NoMissedWakeup'
  BY <1>21 DEF FinBlock
<1>22. ASSUME FinSpuriousWake PROVE NoMissedWakeup'
  BY <1>22 DEF FinSpuriousWake
<1>23. ASSUME FinDrain PROVE NoMissedWakeup'
  BY <1>23 DEF FinDrain
<1>24. ASSUME FinWait PROVE NoMissedWakeup'
  BY <1>24 DEF FinWait
<1>25. ASSUME FinRelease PROVE NoMissedWakeup'
  BY <1>25 DEF FinRelease
<1>26. ASSUME FinFree PROVE NoMissedWakeup'
  BY <1>26 DEF FinFree
<1>27. ASSUME DestroyStop PROVE NoMissedWakeup'
  BY <1>27 DEF DestroyStop
<1>28. ASSUME DestroyNotify PROVE NoMissedWakeup'
  BY <1>28 DEF DestroyNotify, WakeFinalizer
<1>29. ASSUME DestroyWaitIdle PROVE NoMissedWakeup'
  BY <1>29 DEF DestroyWaitIdle
<1>30. ASSUME DestroyJoin PROVE NoMissedWakeup'
  BY <1>30 DEF DestroyJoin
<1>31. ASSUME DestroyLock PROVE NoMissedWakeup'
  BY <1>31 DEF DestroyLock
<1>32. ASSUME DestroyRelock PROVE NoMissedWakeup'
  BY <1>32 DEF DestroyRelock
<1>33. ASSUME DestroyFinish PROVE NoMissedWakeup'
  BY <1>33 DEF DestroyFinish
<1>34. ASSUME FinWaitFails PROVE NoMissedWakeup'
  BY <1>34 DEF FinWaitFails
<1>35. ASSUME DestroyWaitIdleFails PROVE NoMissedWakeup'
  BY <1>35 DEF DestroyWaitIdleFails
<1>36. ASSUME NEW p \in Syncs, GpuFenceReused(p) PROVE NoMissedWakeup'
  BY <1>36 DEF GpuFenceReused
<1> QED
  BY <1>1, <1>2, <1>3, <1>4, <1>5, <1>6, <1>7, <1>8, <1>9, <1>10, <1>11, <1>12, <1>13, <1>14, <1>15, <1>16, <1>17, <1>18, <1>19, <1>20, <1>21, <1>22, <1>23, <1>24, <1>25, <1>26, <1>27, <1>28, <1>29, <1>30, <1>31, <1>32, <1>33, <1>34, <1>35, <1>36
  DEF Next, CommandBufferStep, SubmitStep, GpuStep, FinLockFree, DestroyStep


\* A batch is never stranded by a notification sent too early: the finalizer
\* sleeps on a non-empty queue only while a call is about to notify it.
THEOREM WakeupNeverMissed == Spec => []NoMissedWakeup
<1>1. Init => NoMissedWakeup
  BY DEF Init, NoMissedWakeup
<1>2. NoMissedWakeup /\ UNCHANGED vars => NoMissedWakeup'
  BY DEF NoMissedWakeup, vars, finVars, threadVars
<1>3. IInv /\ NoMissedWakeup /\ [Next]_vars => NoMissedWakeup'
  BY <1>2, WakeupStep
<1> QED BY <1>1, <1>3, Ownership, PTL DEF Spec

------------------------------------------------------------------------------
(* A pair followed from the call that acquires it, through the driver, to the *)
(* finalizer, as long as the device is neither lost nor being destroyed: what *)
(* is freed has executed, and the pairs in the pool are idle.  All of this is *)
(* said of the pairs no wait has failed for: a pair that was given up may be  *)
(* in two calls at once, and nothing is known of its semaphore and fence.     *)

\* What a call in QueueSubmit has got to, and what Vulkan's valid usage says
\* of the command buffers it works on.
CallState ==
  /\ stop_thread <=> dpc # "none"
  /\ \A c \in CmdBufs : exec[c] => cmd[c] = "executable" /\ dpc = "none" /\ ~lost
  /\ \A t \in Threads : todo[t] \subseteq subs[t]
  /\ \A t \in Threads : todo[t] # {} => pc[t] = "collect"
  /\ \A t \in Threads : subs[t] # {} => pc[t] \in {"collect", "notify", "submit"}
  /\ \A t \in Threads : \A c \in subs[t] : cmd[c] = "ended"
  /\ \A t, u \in Threads : t # u => subs[t] \cap subs[u] = {}
  /\ dpc # "none" => \A t \in Threads : pc[t] = "idle"
  /\ \A t \in Threads : pc[t] = "idle" => stagingFences[t] = <<>>

\* A pair in a running call is in no other call, reset and owned by a handed
\* batch, which stays in the queue while the call has the lock.
CallPairs ==
  /\ \A t \in Threads : IsInjective(stagingFences[t])
  /\ \A t, u \in Threads :
       t # u => Range(stagingFences[t]) \cap Range(stagingFences[u]) \subseteq givenUp
  /\ \A t \in Threads : pc[t] = "collect" =>
       \A p \in Range(stagingFences[t]) : \E b \in Batches : place[b] = "queue" /\ sync[b] = p
  /\ \A t \in Threads : \A p \in Range(stagingFences[t]) \ givenUp :
       /\ fence[p] = "reset"
       /\ \E b \in Batches : sync[b] = p
       /\ pc[t] # "fences" => sem[p] = "idle"

\* A signalled fence has consumed its semaphore, and only such pairs are
\* released.
PairProgress ==
  /\ \A p \in Syncs \ givenUp : fence[p] = "signaled" => sem[p] = "idle"
  /\ \A p \in Range(freeSyncs) \ givenUp : fence[p] = "signaled"
  /\ \A p \in Syncs \ created : fence[p] = "reset" /\ sem[p] = "idle"
  /\ fpc = "release" => sync[cur] \in givenUp \/ fence[sync[cur]] = "signaled"

\* Which pair a submission of a command buffer signals.
Signals ==
  /\ \A c \in CmdBufs : exec[c] /\ sigOf[c] \notin givenUp \cup {None} => sem[sigOf[c]] = "promised"
  /\ \A c, d \in CmdBufs :
       exec[c] /\ exec[d] /\ sigOf[c] \notin givenUp \cup {None} /\ sigOf[c] = sigOf[d] => c = d
  /\ \A t \in Threads : \A c \in subs[t] \ todo[t] :
       sigOf[c] # None => sigOf[c] \in Range(stagingFences[t])
  /\ \A t \in Threads : \A c, d \in subs[t] \ todo[t] :
       sigOf[c] # None /\ sigOf[c] = sigOf[d] => c = d

\* A batch is recorded by one command buffer.
RecordedUnique ==
  /\ \A c, d \in CmdBufs : recorded[c] # None /\ recorded[c] = recorded[d] => c = d
  /\ \A c, d \in CmdBufs : recorded[c] # None /\ recorded[c] = current[d] => c = d

\* Command buffers whose recorded copies run or may still run.
Relevant == {c \in CmdBufs : recorded[c] # None /\ (cmd[c] \in {"recording", "ended"} \/ exec[c])}

\* Batches the finalizer will not get past: their fence has not signalled and
\* no wait for it has failed.
Unfinished ==
  {b \in Batches : /\ Handed(b) /\ sync[b] # None /\ sync[b] \notin givenUp
                   /\ fence[sync[b]] # "signaled" /\ sem[sync[b]] # "signaled"}

\* Batches that are freed, or will be, on the word of a pair that was given up.
Unguarded == adrift \cup {b \in Batches : sync[b] \in givenUp}

\* The batch of relevant commands is still in the command buffer, or it is
\* unfinished and only those commands will make its pair progress, or it is
\* unguarded.
InUse ==
  /\ \A c \in Relevant : cmd[c] = "recording" => current[c] = recorded[c]
  /\ \A c \in Relevant :
       \/ current[c] = recorded[c] /\ ~exec[c] /\ \A t \in Threads : c \notin subs[t] \ todo[t]
       \/ recorded[c] \in Unfinished \cup Unguarded
  /\ \A c \in Relevant : recorded[c] \in Unfinished =>
       /\ sem[sync[recorded[c]]] = "promised" => exec[c] /\ sigOf[c] = sync[recorded[c]]
       /\ \A t \in Threads :
            sync[recorded[c]] \in Range(stagingFences[t]) /\ pc[t] # "fences" =>
               c \in subs[t] \ todo[t] /\ sigOf[c] = sync[recorded[c]]

Calm == ~lost /\ dpc = "none"

GInv ==
  /\ CallState
  /\ RecordedUnique
  /\ Calm => CallPairs /\ PairProgress /\ Signals /\ (~Reuse => InUse)

\* What DestroyDevice relies on: nothing is handed over any more, the queues hold
\* exactly the batches placed in them, and no pair gets lost.
Closing ==
  /\ dpc \in {"joined", "locked", "relock", "done"} => fpc = "exited"
  /\ dpc = "done" => stagingResourcesQueue = <<>>
  /\ dpc \in {"idled", "joined", "locked", "relock", "done"} =>
       lost \/ idleFailed \/ \A p \in Syncs \ givenUp : fence[p] # "pending"
  /\ \A b \in Batches : place[b] = "queue" => b \in Range(stagingResourcesQueue)
  /\ \A b \in Batches : place[b] = "local" => b \in Range(fqueue)
  /\ \A p \in created : p \in Range(freeSyncs) \/ \E b \in Batches : sync[b] = p

-----------------------------------------------------------------------------
(* The turn of the submission loop that acquires a pair, seen as one change  *)
(* of the state: the pair is new or pooled, and belongs to nobody.           *)

CollectPair(t, c, p) ==
  /\ current' = [current EXCEPT ![c] = None]
  /\ sync' = [sync EXCEPT ![current[c]] = p]
  /\ place' = [place EXCEPT ![current[c]] = "queue"]
  /\ sigOf' = [sigOf EXCEPT ![c] = p]
  /\ fence' = [fence EXCEPT ![p] = "reset"]
  /\ created' = created \cup {p}
  /\ p \in Range(freeSyncs) \/ p \notin created
  /\ Range(freeSyncs') = Range(freeSyncs) \ {p}
  /\ \A b \in Batches : sync[b] # p
  /\ Range(stagingFences'[t]) = Range(stagingFences[t]) \cup {p}
  /\ \A u \in Threads : u # t => stagingFences'[u] = stagingFences[u]
  /\ p \notin Range(stagingFences[t]) /\ IsInjective(stagingFences[t])
       => IsInjective(stagingFences'[t])
  /\ Range(stagingResourcesQueue') = Range(stagingResourcesQueue) \cup {current[c]}

LEMMA CollectFacts ==
  ASSUME IInv, NEW t \in Threads, NEW c \in CmdBufs, SubmitCollect(t, c), current[c] # None
  PROVE  \E p \in Syncs : CollectPair(t, c, p)
<1>0. TypeOK /\ PairOwnership
  BY DEF IInv
<1>1. PICK p \in Syncs :
        /\ Acquire(p)
        /\ current' = [current EXCEPT ![c] = None]
        /\ sync' = [sync EXCEPT ![current[c]] = p]
        /\ place' = [place EXCEPT ![current[c]] = "queue"]
        /\ stagingResourcesQueue' = Append(stagingResourcesQueue, current[c])
        /\ sigOf' = [sigOf EXCEPT ![c] = p]
        /\ stagingFences' = [stagingFences EXCEPT ![t] = Append(@, p)]
  BY DEF SubmitCollect
<1>2. /\ p \in Range(freeSyncs) \/ p \notin created
      /\ Range(freeSyncs') = Range(freeSyncs) \ {p}
  <2>1. CASE freeSyncs # <<>>
    BY <1>0, <1>1, <2>1, PopFacts DEF Acquire, TypeOK, PairOwnership, SyncExclusive
  <2>2. CASE freeSyncs = <<>>
    BY <1>0, <1>1, <2>2, EmptyFacts DEF Acquire
  <2> QED BY <2>1, <2>2
<1>3. fence' = [fence EXCEPT ![p] = "reset"] /\ created' = created \cup {p}
  <2>1. freeSyncs # <<>> => p \in Range(freeSyncs)
    BY <1>0, <1>1, PopFacts DEF Acquire, TypeOK
  <2> QED BY <1>0, <1>1, <2>1 DEF Acquire, PairOwnership
<1>4. \A b \in Batches : sync[b] # p
  BY <1>0, <1>2, LifecycleAssumption DEF PairOwnership, SyncExclusive
<1>5. /\ Range(stagingFences'[t]) = Range(stagingFences[t]) \cup {p}
      /\ p \notin Range(stagingFences[t]) /\ IsInjective(stagingFences[t])
            => IsInjective(stagingFences'[t])
      /\ \A u \in Threads : u # t => stagingFences'[u] = stagingFences[u]
  <2>1. stagingFences'[t] = Append(stagingFences[t], p)
    BY <1>0, <1>1 DEF TypeOK
  <2>2. \A u \in Threads : u # t => stagingFences'[u] = stagingFences[u]
    BY <1>0, <1>1 DEF TypeOK
  <2> QED BY <1>0, <2>1, <2>2, AppendFacts DEF TypeOK
<1>6. Range(stagingResourcesQueue') = Range(stagingResourcesQueue) \cup {current[c]}
  BY <1>0, <1>1, AppendFacts DEF TypeOK
<1> QED BY <1>1, <1>2, <1>3, <1>4, <1>5, <1>6 DEF CollectPair

-----------------------------------------------------------------------------
\* Every action keeps what is known of the calls in progress.
LEMMA CallStateStep == IInv /\ GInv /\ Next => CallState'
<1> SUFFICES ASSUME IInv, GInv, Next PROVE CallState'
  OBVIOUS
<1> USE LifecycleAssumption
    DEF cmdVars, batchVars, poolVars, gpuVars, threadVars, finVars, dtorVars,
        histVars, cbFrame, callFrame, finFrame, dtorFrame
<1>0. TypeOK /\ CallState
  BY DEF IInv, GInv
<1>1. ASSUME NEW c \in CmdBufs, AllocateCommandBuffer(c) PROVE CallState'
  BY <1>0, <1>1 DEF AllocateCommandBuffer, DropCurrent, CallState
<1>2. ASSUME NEW c \in CmdBufs, FreeCommandBuffer(c) PROVE CallState'
  BY <1>0, <1>2 DEF FreeCommandBuffer, DropCurrent, Untouched, CallState
<1>3. ASSUME NEW c \in CmdBufs, DestroyCommandPool(c) PROVE CallState'
  BY <1>0, <1>3 DEF DestroyCommandPool, Untouched, CallState
<1>4. ASSUME NEW c \in CmdBufs, BeginCommandBuffer(c) PROVE CallState'
  BY <1>0, <1>4 DEF BeginCommandBuffer, Untouched, CallState
<1>5. ASSUME NEW c \in CmdBufs, ResetCommandBuffer(c) PROVE CallState'
  BY <1>0, <1>5 DEF ResetCommandBuffer, Untouched, CallState
<1>6. ASSUME NEW c \in CmdBufs, RecordCopy(c) PROVE CallState'
  BY <1>0, <1>6 DEF RecordCopy, CallState
<1>7. ASSUME NEW t \in Threads, SubmitEnter(t) PROVE CallState'
  BY <1>0, <1>7 DEF SubmitEnter, Submittable, Untouched, TypeOK, CallState
<1>8. ASSUME NEW t \in Threads, NEW c \in CmdBufs, SubmitCollect(t, c) PROVE CallState'
  BY <1>0, <1>8 DEF SubmitCollect, Acquire, TypeOK, CallState
<1>9. ASSUME NEW t \in Threads, SubmitUnlock(t) PROVE CallState'
  BY <1>0, <1>9 DEF SubmitUnlock, CallState
<1>10. ASSUME NEW t \in Threads, SubmitNotify(t) PROVE CallState'
  BY <1>0, <1>10 DEF SubmitNotify, WakeFinalizer, CallState
<1>11. ASSUME NEW t \in Threads, SubmitAccepted(t) PROVE CallState'
  BY <1>0, <1>11 DEF SubmitAccepted, TypeOK, CallState
<1>12. ASSUME NEW t \in Threads, SubmitRefused(t) PROVE CallState'
  <2>1. /\ pc[t] = "submit" /\ pc' = [pc EXCEPT ![t] = "idle"]
        /\ subs' = [subs EXCEPT ![t] = {}] /\ stagingFences' = [stagingFences EXCEPT ![t] = <<>>]
        /\ UNCHANGED <<cmd, exec, lost, todo, dpc, stop_thread>>
    BY <1>12 DEF SubmitRefused
  <2>2. todo[t] = {}
    BY <1>0, <2>1 DEF CallState
  <2>3. \A u \in Threads : u # t => pc'[u] = pc[u] /\ subs'[u] = subs[u] /\ stagingFences'[u] = stagingFences[u]
    BY <1>0, <2>1 DEF TypeOK
  <2>4. pc'[t] = "idle" /\ subs'[t] = {} /\ stagingFences'[t] = <<>>
    BY <1>0, <2>1 DEF TypeOK
  <2> QED BY <1>0, <2>1, <2>2, <2>3, <2>4 DEF CallState
<1>13. ASSUME NEW t \in Threads, FenceAccepted(t) PROVE CallState'
  BY <1>0, <1>13 DEF FenceAccepted, CallState
<1>14. ASSUME NEW t \in Threads, FenceRefused(t) PROVE CallState'
  BY <1>0, <1>14 DEF FenceRefused, TypeOK, CallState
<1>15. ASSUME NEW t \in Threads, SubmitReturn(t) PROVE CallState'
  BY <1>0, <1>15 DEF SubmitReturn, CallState
<1>16. ASSUME NEW c \in CmdBufs, GpuComplete(c) PROVE CallState'
  BY <1>0, <1>16 DEF GpuComplete, CallState
<1>17. ASSUME NEW p \in Syncs, GpuFence(p) PROVE CallState'
  BY <1>0, <1>17 DEF GpuFence, CallState
<1>18. ASSUME DeviceLost PROVE CallState'
  BY <1>0, <1>18 DEF DeviceLost, CallState
<1>19. ASSUME FinTop PROVE CallState'
  BY <1>0, <1>19 DEF FinTop, CallState
<1>20. ASSUME FinAcquire PROVE CallState'
  BY <1>0, <1>20 DEF FinAcquire, CallState
<1>21. ASSUME FinBlock PROVE CallState'
  BY <1>0, <1>21 DEF FinBlock, CallState
<1>22. ASSUME FinSpuriousWake PROVE CallState'
  BY <1>0, <1>22 DEF FinSpuriousWake, CallState
<1>23. ASSUME FinDrain PROVE CallState'
  BY <1>0, <1>23 DEF FinDrain, CallState
<1>24. ASSUME FinWait PROVE CallState'
  BY <1>0, <1>24 DEF FinWait, CallState
<1>25. ASSUME FinRelease PROVE CallState'
  BY <1>0, <1>25 DEF FinRelease, CallState
<1>26. ASSUME FinFree PROVE CallState'
  BY <1>0, <1>26 DEF FinFree, CallState
<1>27. ASSUME DestroyStop PROVE CallState'
  BY <1>0, <1>27 DEF DestroyStop, CallState
<1>28. ASSUME DestroyNotify PROVE CallState'
  BY <1>0, <1>28 DEF DestroyNotify, WakeFinalizer, CallState
<1>29. ASSUME DestroyWaitIdle PROVE CallState'
  BY <1>0, <1>29 DEF DestroyWaitIdle, CallState
<1>30. ASSUME DestroyJoin PROVE CallState'
  BY <1>0, <1>30 DEF DestroyJoin, CallState
<1>31. ASSUME DestroyLock PROVE CallState'
  BY <1>0, <1>31 DEF DestroyLock, CallState
<1>32. ASSUME DestroyRelock PROVE CallState'
  BY <1>0, <1>32 DEF DestroyRelock, CallState
<1>33. ASSUME DestroyFinish PROVE CallState'
  BY <1>0, <1>33 DEF DestroyFinish, CallState
<1>34. ASSUME FinWaitFails PROVE CallState'
  BY <1>0, <1>34 DEF FinWaitFails, CallState
<1>35. ASSUME DestroyWaitIdleFails PROVE CallState'
  BY <1>0, <1>35 DEF DestroyWaitIdleFails, CallState
<1>36. ASSUME NEW p \in Syncs, GpuFenceReused(p) PROVE CallState'
  BY <1>0, <1>36 DEF GpuFenceReused, CallState
<1> QED
  BY <1>1, <1>2, <1>3, <1>4, <1>5, <1>6, <1>7, <1>8, <1>9, <1>10, <1>11, <1>12, <1>13, <1>14, <1>15, <1>16, <1>17, <1>18, <1>19, <1>20, <1>21, <1>22, <1>23, <1>24, <1>25, <1>26, <1>27, <1>28, <1>29, <1>30, <1>31, <1>32, <1>33, <1>34, <1>35, <1>36
  DEF Next, CommandBufferStep, SubmitStep, GpuStep, FinLockFree, DestroyStep

-----------------------------------------------------------------------------
\* Every action keeps a batch with the one command buffer that records it.
LEMMA RecordedStep == IInv /\ GInv /\ Next => RecordedUnique'
<1> SUFFICES ASSUME IInv, GInv, Next PROVE RecordedUnique'
  OBVIOUS
<1> USE LifecycleAssumption
    DEF cmdVars, batchVars, poolVars, gpuVars, threadVars, finVars, dtorVars,
        histVars, cbFrame, callFrame, finFrame, dtorFrame
<1>0. TypeOK /\ BatchOwnership /\ RecordedUnique
  BY DEF IInv, GInv
<1>1. ASSUME NEW c \in CmdBufs, AllocateCommandBuffer(c) PROVE RecordedUnique'
  BY <1>0, <1>1 DEF AllocateCommandBuffer, DropCurrent, RecordedUnique
<1>2. ASSUME NEW c \in CmdBufs, FreeCommandBuffer(c) PROVE RecordedUnique'
  BY <1>0, <1>2 DEF FreeCommandBuffer, DropCurrent, RecordedUnique
<1>3. ASSUME NEW c \in CmdBufs, DestroyCommandPool(c) PROVE RecordedUnique'
  BY <1>0, <1>3 DEF DestroyCommandPool, RecordedUnique
<1>4. ASSUME NEW c \in CmdBufs, BeginCommandBuffer(c) PROVE RecordedUnique'
  BY <1>0, <1>4 DEF BeginCommandBuffer, RecordedUnique
<1>5. ASSUME NEW c \in CmdBufs, ResetCommandBuffer(c) PROVE RecordedUnique'
  BY <1>0, <1>5 DEF ResetCommandBuffer, RecordedUnique
<1>6. ASSUME NEW c \in CmdBufs, RecordCopy(c) PROVE RecordedUnique'
  BY <1>0, <1>6 DEF RecordCopy, TypeOK, BatchOwnership, RecordedUnique
<1>7. ASSUME NEW t \in Threads, SubmitEnter(t) PROVE RecordedUnique'
  BY <1>0, <1>7 DEF SubmitEnter, RecordedUnique
<1>8. ASSUME NEW t \in Threads, NEW c \in CmdBufs, SubmitCollect(t, c) PROVE RecordedUnique'
  BY <1>0, <1>8 DEF SubmitCollect, Acquire, TypeOK, RecordedUnique
<1>9. ASSUME NEW t \in Threads, SubmitUnlock(t) PROVE RecordedUnique'
  BY <1>0, <1>9 DEF SubmitUnlock, RecordedUnique
<1>10. ASSUME NEW t \in Threads, SubmitNotify(t) PROVE RecordedUnique'
  BY <1>0, <1>10 DEF SubmitNotify, WakeFinalizer, RecordedUnique
<1>11. ASSUME NEW t \in Threads, SubmitAccepted(t) PROVE RecordedUnique'
  BY <1>0, <1>11 DEF SubmitAccepted, RecordedUnique
<1>12. ASSUME NEW t \in Threads, SubmitRefused(t) PROVE RecordedUnique'
  BY <1>0, <1>12 DEF SubmitRefused, RecordedUnique
<1>13. ASSUME NEW t \in Threads, FenceAccepted(t) PROVE RecordedUnique'
  BY <1>0, <1>13 DEF FenceAccepted, RecordedUnique
<1>14. ASSUME NEW t \in Threads, FenceRefused(t) PROVE RecordedUnique'
  BY <1>0, <1>14 DEF FenceRefused, RecordedUnique
<1>15. ASSUME NEW t \in Threads, SubmitReturn(t) PROVE RecordedUnique'
  BY <1>0, <1>15 DEF SubmitReturn, RecordedUnique
<1>16. ASSUME NEW c \in CmdBufs, GpuComplete(c) PROVE RecordedUnique'
  BY <1>0, <1>16 DEF GpuComplete, RecordedUnique
<1>17. ASSUME NEW p \in Syncs, GpuFence(p) PROVE RecordedUnique'
  BY <1>0, <1>17 DEF GpuFence, RecordedUnique
<1>18. ASSUME DeviceLost PROVE RecordedUnique'
  BY <1>0, <1>18 DEF DeviceLost, RecordedUnique
<1>19. ASSUME FinTop PROVE RecordedUnique'
  BY <1>0, <1>19 DEF FinTop, RecordedUnique
<1>20. ASSUME FinAcquire PROVE RecordedUnique'
  BY <1>0, <1>20 DEF FinAcquire, RecordedUnique
<1>21. ASSUME FinBlock PROVE RecordedUnique'
  BY <1>0, <1>21 DEF FinBlock, RecordedUnique
<1>22. ASSUME FinSpuriousWake PROVE RecordedUnique'
  BY <1>0, <1>22 DEF FinSpuriousWake, RecordedUnique
<1>23. ASSUME FinDrain PROVE RecordedUnique'
  BY <1>0, <1>23 DEF FinDrain, RecordedUnique
<1>24. ASSUME FinWait PROVE RecordedUnique'
  BY <1>0, <1>24 DEF FinWait, RecordedUnique
<1>25. ASSUME FinRelease PROVE RecordedUnique'
  BY <1>0, <1>25 DEF FinRelease, RecordedUnique
<1>26. ASSUME FinFree PROVE RecordedUnique'
  BY <1>0, <1>26 DEF FinFree, RecordedUnique
<1>27. ASSUME DestroyStop PROVE RecordedUnique'
  BY <1>0, <1>27 DEF DestroyStop, RecordedUnique
<1>28. ASSUME DestroyNotify PROVE RecordedUnique'
  BY <1>0, <1>28 DEF DestroyNotify, WakeFinalizer, RecordedUnique
<1>29. ASSUME DestroyWaitIdle PROVE RecordedUnique'
  BY <1>0, <1>29 DEF DestroyWaitIdle, RecordedUnique
<1>30. ASSUME DestroyJoin PROVE RecordedUnique'
  BY <1>0, <1>30 DEF DestroyJoin, RecordedUnique
<1>31. ASSUME DestroyLock PROVE RecordedUnique'
  BY <1>0, <1>31 DEF DestroyLock, RecordedUnique
<1>32. ASSUME DestroyRelock PROVE RecordedUnique'
  BY <1>0, <1>32 DEF DestroyRelock, RecordedUnique
<1>33. ASSUME DestroyFinish PROVE RecordedUnique'
  BY <1>0, <1>33 DEF DestroyFinish, RecordedUnique
<1>34. ASSUME FinWaitFails PROVE RecordedUnique'
  BY <1>0, <1>34 DEF FinWaitFails, RecordedUnique
<1>35. ASSUME DestroyWaitIdleFails PROVE RecordedUnique'
  BY <1>0, <1>35 DEF DestroyWaitIdleFails, RecordedUnique
<1>36. ASSUME NEW p \in Syncs, GpuFenceReused(p) PROVE RecordedUnique'
  BY <1>0, <1>36 DEF GpuFenceReused, RecordedUnique
<1> QED
  BY <1>1, <1>2, <1>3, <1>4, <1>5, <1>6, <1>7, <1>8, <1>9, <1>10, <1>11, <1>12, <1>13, <1>14, <1>15, <1>16, <1>17, <1>18, <1>19, <1>20, <1>21, <1>22, <1>23, <1>24, <1>25, <1>26, <1>27, <1>28, <1>29, <1>30, <1>31, <1>32, <1>33, <1>34, <1>35, <1>36
  DEF Next, CommandBufferStep, SubmitStep, GpuStep, FinLockFree, DestroyStep

-----------------------------------------------------------------------------
\* A pair stays reset, owned and in one call until its fence is submitted.
LEMMA CallPairsStep == IInv /\ GInv /\ Calm /\ Calm' /\ Next => CallPairs'
<1> SUFFICES ASSUME IInv, GInv, Calm, Calm', Next PROVE CallPairs'
  OBVIOUS
<1> USE LifecycleAssumption
    DEF cmdVars, batchVars, poolVars, gpuVars, threadVars, finVars, dtorVars,
        histVars, cbFrame, callFrame, finFrame, dtorFrame
<1>0. TypeOK /\ BatchOwnership /\ PairOwnership /\ LockOwnership /\ CallState /\ CallPairs /\ PairProgress /\ Signals
  BY DEF IInv, GInv
<1>1. ASSUME NEW c \in CmdBufs, AllocateCommandBuffer(c) PROVE CallPairs'
  BY <1>0, <1>1 DEF AllocateCommandBuffer, LockOwnership, CallPairs
<1>2. ASSUME NEW c \in CmdBufs, FreeCommandBuffer(c) PROVE CallPairs'
  BY <1>0, <1>2 DEF FreeCommandBuffer, LockOwnership, CallPairs
<1>3. ASSUME NEW c \in CmdBufs, DestroyCommandPool(c) PROVE CallPairs'
  BY <1>0, <1>3 DEF DestroyCommandPool, CallPairs
<1>4. ASSUME NEW c \in CmdBufs, BeginCommandBuffer(c) PROVE CallPairs'
  BY <1>0, <1>4 DEF BeginCommandBuffer, CallPairs
<1>5. ASSUME NEW c \in CmdBufs, ResetCommandBuffer(c) PROVE CallPairs'
  BY <1>0, <1>5 DEF ResetCommandBuffer, CallPairs
<1>6. ASSUME NEW c \in CmdBufs, RecordCopy(c) PROVE CallPairs'
  <2>1. \A b \in Batches : place[b] = "queue" => place'[b] = "queue"
    BY <1>0, <1>6 DEF RecordCopy, TypeOK, BatchOwnership
  <2>2. UNCHANGED <<sync, stagingFences, pc, fence, sem, givenUp>>
    BY <1>6 DEF RecordCopy
  <2> QED BY <1>0, <2>1, <2>2 DEF CallPairs
<1>7. ASSUME NEW t \in Threads, SubmitEnter(t) PROVE CallPairs'
  <2>1. Range(stagingFences[t]) = {}
    BY <1>0, <1>7, EmptyFacts DEF SubmitEnter, CallState
  <2>2. \A u \in Threads : u # t => pc[u] # "collect" /\ pc'[u] = pc[u]
    BY <1>0, <1>7 DEF SubmitEnter, LockOwnership, TypeOK
  <2>3. UNCHANGED <<sync, place, stagingFences, fence, sem, givenUp>>
    BY <1>7 DEF SubmitEnter
  <2> QED BY <1>0, <2>1, <2>2, <2>3 DEF CallPairs
<1>8. ASSUME NEW t \in Threads, NEW c \in CmdBufs, SubmitCollect(t, c) PROVE CallPairs'
  <2>1. CASE current[c] = None
    BY <1>0, <1>8, <2>1 DEF SubmitCollect, CallPairs
  <2>2. CASE current[c] # None
    <3>1. PICK p \in Syncs : CollectPair(t, c, p)
      BY <1>8, <2>2, CollectFacts
    <3>2. /\ fence' = [fence EXCEPT ![p] = "reset"] /\ sync' = [sync EXCEPT ![current[c]] = p]
          /\ Range(stagingFences'[t]) = Range(stagingFences[t]) \cup {p}
          /\ \A u \in Threads : u # t => stagingFences'[u] = stagingFences[u]
          /\ place' = [place EXCEPT ![current[c]] = "queue"]
          /\ \A b \in Batches : sync[b] # p
      BY <3>1 DEF CollectPair
    <3>3. /\ pc[t] = "collect" /\ \A u \in Threads : u # t => pc[u] # "collect"
          /\ UNCHANGED <<sem, pc, givenUp>>
      BY <1>0, <1>8 DEF SubmitCollect, LockOwnership
    <3>4. /\ p \in givenUp \/ sem[p] = "idle"
          /\ p \notin Range(stagingFences[t])
          /\ \A u \in Threads : p \in givenUp \/ p \notin Range(stagingFences[u])
      <4>1. p \in givenUp \/ sem[p] = "idle"
        BY <1>0, <3>1 DEF CollectPair, PairProgress, PairOwnership
      <4>2. p \notin Range(stagingFences[t])
        BY <1>0, <3>2, <3>3 DEF CallPairs
      <4>3. \A u \in Threads : p \in givenUp \/ p \notin Range(stagingFences[u])
        BY <1>0, <3>2 DEF CallPairs
      <4> QED BY <4>1, <4>2, <4>3
    <3>5. \A u \in Threads : IsInjective(stagingFences'[u])
      BY <1>0, <3>1, <3>4 DEF CallPairs, CollectPair
    <3>6. \A u, v \in Threads :
             u # v => Range(stagingFences'[u]) \cap Range(stagingFences'[v]) \subseteq givenUp
      BY <1>0, <3>2, <3>4 DEF CallPairs
    <3>7. \A u \in Threads : \A q \in Range(stagingFences'[u]) :
             q = p \/ (q # p /\ q \in Range(stagingFences[u]) /\ q \in Syncs)
      <4>1. \A u \in Threads : \A q \in Range(stagingFences[u]) : q \in Syncs
        BY <1>0, RangeIndex DEF TypeOK
      <4> QED BY <3>2, <3>4, <4>1
    <3>8. \A u \in Threads : \A q \in Range(stagingFences'[u]) :
             q \notin givenUp => fence'[q] = "reset" /\ (pc'[u] # "fences" => sem'[q] = "idle")
      BY <1>0, <3>2, <3>3, <3>4, <3>7 DEF TypeOK, CallPairs
    <3>9. /\ \A u \in Threads : \A q \in Range(stagingFences'[u]) :
                q \notin givenUp => \E b \in Batches : sync'[b] = q
          /\ \A q \in Range(stagingFences'[t]) : \E b \in Batches : place'[b] = "queue" /\ sync'[b] = q
      <4>1. current[c] \in Batches /\ sync'[current[c]] = p /\ sync[current[c]] = None
        <5>1. current[c] \in Batches /\ place[current[c]] = "cb"
          BY <1>0, <2>2 DEF TypeOK, BatchOwnership
        <5>2. sync'[current[c]] = p
          BY <1>0, <3>2, <5>1 DEF TypeOK
        <5>3. sync[current[c]] = None
          BY <1>0, <5>1 DEF PairOwnership, Handed
        <5> QED BY <5>1, <5>2, <5>3
      <4>2. \A b \in Batches : sync[b] # None => sync'[b] = sync[b] /\ place'[b] = place[b]
        BY <1>0, <3>2, <4>1 DEF TypeOK
      <4>3. \A q \in Syncs : q # None
        BY LifecycleAssumption
      <4>4. place'[current[c]] = "queue"
        BY <1>0, <3>2, <4>1 DEF TypeOK
      <4>5. ASSUME NEW u \in Threads, NEW q \in Range(stagingFences'[u]), q \notin givenUp
            PROVE  \E b \in Batches : sync'[b] = q
        <5>1. CASE q = p
          BY <4>1, <5>1
        <5>2. CASE q # p
          <6>1. q \in Range(stagingFences[u]) /\ q \in Syncs
            BY <3>7, <5>2
          <6>2. PICK b \in Batches : sync[b] = q
            BY <1>0, <4>5, <6>1 DEF CallPairs
          <6> QED BY <4>2, <4>3, <6>1, <6>2
        <5> QED BY <5>1, <5>2
      <4>6. ASSUME NEW q \in Range(stagingFences'[t])
            PROVE  \E b \in Batches : place'[b] = "queue" /\ sync'[b] = q
        <5>1. CASE q = p
          BY <4>1, <4>4, <5>1
        <5>2. CASE q # p
          <6>1. q \in Range(stagingFences[t]) /\ q \in Syncs
            BY <3>7, <5>2
          <6>2. PICK b \in Batches : place[b] = "queue" /\ sync[b] = q
            BY <1>0, <3>3, <6>1 DEF CallPairs
          <6> QED BY <4>2, <4>3, <6>1, <6>2
        <5> QED BY <5>1, <5>2
      <4> QED BY <4>5, <4>6
    <3> QED BY <3>3, <3>5, <3>6, <3>8, <3>9 DEF CallPairs
  <2> QED BY <2>1, <2>2
<1>9. ASSUME NEW t \in Threads, SubmitUnlock(t) PROVE CallPairs'
  BY <1>0, <1>9 DEF SubmitUnlock, CallPairs
<1>10. ASSUME NEW t \in Threads, SubmitNotify(t) PROVE CallPairs'
  BY <1>0, <1>10 DEF SubmitNotify, WakeFinalizer, CallPairs
<1>11. ASSUME NEW t \in Threads, SubmitAccepted(t) PROVE CallPairs'
  <2>1. /\ pc[t] = "submit" /\ pc' = [pc EXCEPT ![t] = "fences"]
        /\ UNCHANGED <<fence, sync, place, stagingFences, givenUp>>
        /\ sem' = [p \in Syncs |-> IF p \in Range(stagingFences[t]) THEN "promised" ELSE sem[p]]
    BY <1>11 DEF SubmitAccepted
  <2>2. \A u \in Threads : \A p \in Range(stagingFences[u]) : p \in Syncs
    BY <1>0, RangeIndex DEF TypeOK
  <2>3. \A u \in Threads : pc'[u] = (IF u = t THEN "fences" ELSE pc[u])
    BY <1>0, <2>1 DEF TypeOK
  <2>4. \A u \in Threads : \A p \in Range(stagingFences[u]) \ givenUp :
           pc'[u] # "fences" => sem'[p] = "idle"
    BY <1>0, <2>1, <2>2, <2>3 DEF CallPairs
  <2> QED BY <1>0, <2>1, <2>3, <2>4 DEF CallPairs
<1>12. ASSUME NEW t \in Threads, SubmitRefused(t) PROVE CallPairs'
  <2>1. stagingFences' = [stagingFences EXCEPT ![t] = <<>>] /\ pc' = [pc EXCEPT ![t] = "idle"]
        /\ UNCHANGED <<fence, sem, sync, place, givenUp>>
    BY <1>12 DEF SubmitRefused
  <2>2. Range(<<>>) = {} /\ IsInjective(<<>>)
    BY EmptyFacts
  <2>3. /\ stagingFences'[t] = <<>>
        /\ \A u \in Threads : u # t => stagingFences'[u] = stagingFences[u] /\ pc'[u] = pc[u]
    BY <1>0, <2>1 DEF TypeOK
  <2>4. Range(stagingFences'[t]) = {} /\ IsInjective(stagingFences'[t])
    BY <2>2, <2>3
  <2>5. \A u \in Threads : IsInjective(stagingFences'[u])
    BY <1>0, <2>3, <2>4 DEF CallPairs
  <2>6. \A u, v \in Threads :
           u # v => Range(stagingFences'[u]) \cap Range(stagingFences'[v]) \subseteq givenUp
    BY <1>0, <2>3, <2>4 DEF CallPairs
  <2>7. \A u \in Threads : \A p \in Range(stagingFences'[u]) :
           u # t /\ p \in Range(stagingFences[u]) /\ pc'[u] = pc[u]
    BY <2>3, <2>4
  <2>8. \A u \in Threads : \A p \in Range(stagingFences'[u]) :
           /\ p \notin givenUp =>
                /\ fence'[p] = "reset"
                /\ pc'[u] # "fences" => sem'[p] = "idle"
                /\ \E b \in Batches : sync'[b] = p
           /\ pc'[u] = "collect" => \E b \in Batches : place'[b] = "queue" /\ sync'[b] = p
    BY <1>0, <2>1, <2>7 DEF CallPairs
  <2>9. \A u \in Threads : pc'[u] = "collect" =>
           \A p \in Range(stagingFences'[u]) : \E b \in Batches : place'[b] = "queue" /\ sync'[b] = p
    BY <2>8
  <2> QED BY <2>1, <2>5, <2>6, <2>8, <2>9 DEF CallPairs
<1>13. ASSUME NEW t \in Threads, FenceAccepted(t) PROVE CallPairs'
  BY <1>0, <1>13, TailFacts DEF FenceAccepted, TypeOK, CallPairs
<1>14. ASSUME NEW t \in Threads, FenceRefused(t) PROVE CallPairs'
  <2>1. stagingFences' = [stagingFences EXCEPT ![t] = <<>>] /\ pc' = [pc EXCEPT ![t] = "idle"]
        /\ UNCHANGED <<fence, sem, sync, place, givenUp>>
    BY <1>14 DEF FenceRefused
  <2>2. Range(<<>>) = {} /\ IsInjective(<<>>)
    BY EmptyFacts
  <2>3. /\ stagingFences'[t] = <<>>
        /\ \A u \in Threads : u # t => stagingFences'[u] = stagingFences[u] /\ pc'[u] = pc[u]
    BY <1>0, <2>1 DEF TypeOK
  <2>4. Range(stagingFences'[t]) = {} /\ IsInjective(stagingFences'[t])
    BY <2>2, <2>3
  <2>5. \A u \in Threads : IsInjective(stagingFences'[u])
    BY <1>0, <2>3, <2>4 DEF CallPairs
  <2>6. \A u, v \in Threads :
           u # v => Range(stagingFences'[u]) \cap Range(stagingFences'[v]) \subseteq givenUp
    BY <1>0, <2>3, <2>4 DEF CallPairs
  <2>7. \A u \in Threads : \A p \in Range(stagingFences'[u]) :
           u # t /\ p \in Range(stagingFences[u]) /\ pc'[u] = pc[u]
    BY <2>3, <2>4
  <2>8. \A u \in Threads : \A p \in Range(stagingFences'[u]) :
           /\ p \notin givenUp =>
                /\ fence'[p] = "reset"
                /\ pc'[u] # "fences" => sem'[p] = "idle"
                /\ \E b \in Batches : sync'[b] = p
           /\ pc'[u] = "collect" => \E b \in Batches : place'[b] = "queue" /\ sync'[b] = p
    BY <1>0, <2>1, <2>7 DEF CallPairs
  <2>9. \A u \in Threads : pc'[u] = "collect" =>
           \A p \in Range(stagingFences'[u]) : \E b \in Batches : place'[b] = "queue" /\ sync'[b] = p
    BY <2>8
  <2> QED BY <2>1, <2>5, <2>6, <2>8, <2>9 DEF CallPairs
<1>15. ASSUME NEW t \in Threads, SubmitReturn(t) PROVE CallPairs'
  <2>1. Range(stagingFences[t]) = {} /\ pc' = [pc EXCEPT ![t] = "idle"]
        /\ UNCHANGED <<fence, sem, sync, place, stagingFences, givenUp>>
    BY <1>15, EmptyFacts DEF SubmitReturn
  <2>2. \A u \in Threads : u # t => pc'[u] = pc[u]
    BY <1>0, <2>1 DEF TypeOK
  <2> QED BY <1>0, <2>1, <2>2 DEF CallPairs
<1>16. ASSUME NEW c \in CmdBufs, GpuComplete(c) PROVE CallPairs'
  <2>1. exec[c] /\ UNCHANGED <<fence, sync, place, stagingFences, pc, givenUp>>
    BY <1>16 DEF GpuComplete
  <2>2. \A p \in Syncs \ givenUp : sem[p] = "idle" => sem'[p] = "idle"
    BY <1>0, <1>16 DEF GpuComplete, Signals
  <2>3. \A u \in Threads : \A p \in Range(stagingFences[u]) : p \in Syncs
    BY <1>0, RangeIndex DEF TypeOK
  <2> QED BY <1>0, <2>1, <2>2, <2>3 DEF CallPairs
<1>17. ASSUME NEW p \in Syncs, GpuFence(p) PROVE CallPairs'
  BY <1>0, <1>17 DEF GpuFence, CallPairs
<1>18. ASSUME DeviceLost PROVE CallPairs'
  BY <1>0, <1>18 DEF DeviceLost, CallPairs
<1>19. ASSUME FinTop PROVE CallPairs'
  BY <1>0, <1>19 DEF FinTop, CallPairs
<1>20. ASSUME FinAcquire PROVE CallPairs'
  BY <1>0, <1>20 DEF FinAcquire, LockOwnership, CallPairs
<1>21. ASSUME FinBlock PROVE CallPairs'
  BY <1>0, <1>21 DEF FinBlock, CallPairs
<1>22. ASSUME FinSpuriousWake PROVE CallPairs'
  BY <1>0, <1>22 DEF FinSpuriousWake, CallPairs
<1>23. ASSUME FinDrain PROVE CallPairs'
  <2>1. \A b \in Batches : place[b] = "queue" => place'[b] = "queue"
    BY <1>0, <1>23, PopFacts DEF FinDrain, TypeOK, BatchOwnership
  <2>2. UNCHANGED <<sync, stagingFences, pc, fence, sem, givenUp>>
    BY <1>23 DEF FinDrain
  <2> QED BY <1>0, <2>1, <2>2 DEF CallPairs
<1>24. ASSUME FinWait PROVE CallPairs'
  BY <1>0, <1>24 DEF FinWait, CallPairs
<1>25. ASSUME FinRelease PROVE CallPairs'
  BY <1>0, <1>25, AppendFacts DEF FinRelease, TypeOK, BatchOwnership, PairOwnership, SyncExclusive, Handed, CallState, CallPairs, PairProgress
<1>26. ASSUME FinFree PROVE CallPairs'
  <2>1. \A b \in Batches : place[b] = "queue" => place'[b] = "queue"
    BY <1>0, <1>26 DEF FinFree, TypeOK, BatchOwnership
  <2>2. UNCHANGED <<sync, stagingFences, pc, fence, sem, givenUp>>
    BY <1>26 DEF FinFree
  <2> QED BY <1>0, <2>1, <2>2 DEF CallPairs
<1>27. ASSUME DestroyStop PROVE CallPairs'
  BY <1>0, <1>27 DEF DestroyStop, CallPairs
<1>28. ASSUME DestroyNotify PROVE CallPairs'
  BY <1>0, <1>28 DEF DestroyNotify, WakeFinalizer, CallPairs
<1>29. ASSUME DestroyWaitIdle PROVE CallPairs'
  BY <1>0, <1>29 DEF DestroyWaitIdle, CallPairs
<1>30. ASSUME DestroyJoin PROVE CallPairs'
  BY <1>0, <1>30 DEF DestroyJoin, CallPairs
<1>31. ASSUME DestroyLock PROVE CallPairs'
  BY <1>0, <1>31 DEF DestroyLock, CallPairs
<1>32. ASSUME DestroyRelock PROVE CallPairs'
  BY <1>0, <1>32 DEF DestroyRelock, CallPairs
<1>33. ASSUME DestroyFinish PROVE CallPairs'
  BY <1>0, <1>33 DEF DestroyFinish, CallPairs
<1>34. ASSUME FinWaitFails PROVE CallPairs'
  BY <1>0, <1>34 DEF FinWaitFails, CallPairs
<1>35. ASSUME DestroyWaitIdleFails PROVE CallPairs'
  BY <1>0, <1>35 DEF DestroyWaitIdleFails, CallPairs
<1>36. ASSUME NEW p \in Syncs, GpuFenceReused(p) PROVE CallPairs'
  BY <1>0, <1>36 DEF GpuFenceReused, CallPairs
<1> QED
  BY <1>1, <1>2, <1>3, <1>4, <1>5, <1>6, <1>7, <1>8, <1>9, <1>10, <1>11, <1>12, <1>13, <1>14, <1>15, <1>16, <1>17, <1>18, <1>19, <1>20, <1>21, <1>22, <1>23, <1>24, <1>25, <1>26, <1>27, <1>28, <1>29, <1>30, <1>31, <1>32, <1>33, <1>34, <1>35, <1>36
  DEF Next, CommandBufferStep, SubmitStep, GpuStep, FinLockFree, DestroyStep

-----------------------------------------------------------------------------
\* A pair is released only when its fence has signalled and its semaphore is idle.
LEMMA PairProgressStep == IInv /\ GInv /\ Calm /\ Calm' /\ Next => PairProgress'
<1> SUFFICES ASSUME IInv, GInv, Calm, Calm', Next PROVE PairProgress'
  OBVIOUS
<1> USE LifecycleAssumption
    DEF cmdVars, batchVars, poolVars, gpuVars, threadVars, finVars, dtorVars,
        histVars, cbFrame, callFrame, finFrame, dtorFrame
<1>0. TypeOK /\ BatchOwnership /\ PairOwnership /\ CallState /\ CallPairs /\ PairProgress /\ Signals /\ ~lost /\ ~stop_thread
  BY DEF IInv, GInv, Calm, CallState
<1>1. ASSUME NEW c \in CmdBufs, AllocateCommandBuffer(c) PROVE PairProgress'
  BY <1>0, <1>1 DEF AllocateCommandBuffer, DropCurrent, PairProgress
<1>2. ASSUME NEW c \in CmdBufs, FreeCommandBuffer(c) PROVE PairProgress'
  BY <1>0, <1>2 DEF FreeCommandBuffer, DropCurrent, PairProgress
<1>3. ASSUME NEW c \in CmdBufs, DestroyCommandPool(c) PROVE PairProgress'
  BY <1>0, <1>3 DEF DestroyCommandPool, PairProgress
<1>4. ASSUME NEW c \in CmdBufs, BeginCommandBuffer(c) PROVE PairProgress'
  BY <1>0, <1>4 DEF BeginCommandBuffer, PairProgress
<1>5. ASSUME NEW c \in CmdBufs, ResetCommandBuffer(c) PROVE PairProgress'
  BY <1>0, <1>5 DEF ResetCommandBuffer, PairProgress
<1>6. ASSUME NEW c \in CmdBufs, RecordCopy(c) PROVE PairProgress'
  BY <1>0, <1>6 DEF RecordCopy, PairProgress
<1>7. ASSUME NEW t \in Threads, SubmitEnter(t) PROVE PairProgress'
  BY <1>0, <1>7 DEF SubmitEnter, PairProgress
<1>8. ASSUME NEW t \in Threads, NEW c \in CmdBufs, SubmitCollect(t, c) PROVE PairProgress'
  <2>1. CASE current[c] = None
    BY <1>0, <1>8, <2>1 DEF SubmitCollect, PairProgress
  <2>2. CASE current[c] # None
    <3>1. PICK p \in Syncs : CollectPair(t, c, p)
      BY <1>8, <2>2, CollectFacts
    <3>2. /\ fence' = [fence EXCEPT ![p] = "reset"] /\ sync' = [sync EXCEPT ![current[c]] = p]
          /\ created' = created \cup {p}
          /\ Range(freeSyncs') = Range(freeSyncs) \ {p}
          /\ \A b \in Batches : sync[b] # p
      BY <3>1 DEF CollectPair
    <3>3. (p \in givenUp \/ sem[p] = "idle") /\ UNCHANGED <<sem, fpc, cur, givenUp>>
      BY <1>0, <1>8, <3>1 DEF SubmitCollect, CollectPair, PairProgress, PairOwnership
    <3>4. \A q \in Range(freeSyncs') \ givenUp : fence'[q] = "signaled"
      <4>1. \A q \in Range(freeSyncs) : q \in Syncs
        BY <1>0, RangeIndex DEF TypeOK
      <4> QED BY <1>0, <3>2, <4>1 DEF PairProgress, TypeOK
    <3>5. fpc' = "release" => sync'[cur'] \in givenUp \/ fence'[sync'[cur']] = "signaled"
      <4>1. fpc = "release" => cur \in Batches /\ cur # current[c] /\ sync[cur] \in Syncs
        BY <1>0, <2>2 DEF TypeOK, BatchOwnership, PairOwnership, Handed
      <4> QED BY <1>0, <3>2, <3>3, <4>1 DEF PairProgress, TypeOK
    <3>6. \A q \in Syncs \ givenUp : fence'[q] = "signaled" => sem'[q] = "idle"
      BY <1>0, <3>2, <3>3 DEF PairProgress, TypeOK
    <3>7. \A q \in Syncs \ created' : fence'[q] = "reset" /\ sem'[q] = "idle"
      BY <1>0, <3>2, <3>3 DEF PairProgress, TypeOK
    <3> QED BY <3>3, <3>4, <3>5, <3>6, <3>7 DEF PairProgress
  <2> QED BY <2>1, <2>2
<1>9. ASSUME NEW t \in Threads, SubmitUnlock(t) PROVE PairProgress'
  BY <1>0, <1>9 DEF SubmitUnlock, PairProgress
<1>10. ASSUME NEW t \in Threads, SubmitNotify(t) PROVE PairProgress'
  BY <1>0, <1>10 DEF SubmitNotify, WakeFinalizer, PairProgress
<1>11. ASSUME NEW t \in Threads, SubmitAccepted(t) PROVE PairProgress'
  BY <1>0, <1>11 DEF SubmitAccepted, TypeOK, BatchOwnership, PairOwnership, SyncExclusive, Handed, CallState, CallPairs, PairProgress
<1>12. ASSUME NEW t \in Threads, SubmitRefused(t) PROVE PairProgress'
  BY <1>0, <1>12 DEF SubmitRefused, PairProgress
<1>13. ASSUME NEW t \in Threads, FenceAccepted(t) PROVE PairProgress'
  BY <1>0, <1>13, TailFacts DEF FenceAccepted, TypeOK, BatchOwnership, PairOwnership, SyncExclusive, Handed, CallState, CallPairs, PairProgress
<1>14. ASSUME NEW t \in Threads, FenceRefused(t) PROVE PairProgress'
  BY <1>0, <1>14 DEF FenceRefused, PairProgress
<1>15. ASSUME NEW t \in Threads, SubmitReturn(t) PROVE PairProgress'
  BY <1>0, <1>15 DEF SubmitReturn, PairProgress
<1>16. ASSUME NEW c \in CmdBufs, GpuComplete(c) PROVE PairProgress'
  <2>1. UNCHANGED <<fence, sync, created, freeSyncs, givenUp, fpc, cur>>
    BY <1>16 DEF GpuComplete
  <2>2. \A p \in Syncs \ givenUp : sem[p] = "idle" => sem'[p] = "idle"
    BY <1>0, <1>16 DEF GpuComplete, Signals
  <2> QED BY <1>0, <2>1, <2>2 DEF PairProgress, PairOwnership
<1>17. ASSUME NEW p \in Syncs, GpuFence(p) PROVE PairProgress'
  BY <1>0, <1>17 DEF GpuFence, TypeOK, PairProgress
<1>18. ASSUME DeviceLost PROVE PairProgress'
  BY <1>0, <1>18 DEF DeviceLost, PairProgress
<1>19. ASSUME FinTop PROVE PairProgress'
  BY <1>0, <1>19 DEF FinTop, PairProgress
<1>20. ASSUME FinAcquire PROVE PairProgress'
  BY <1>0, <1>20 DEF FinAcquire, PairProgress
<1>21. ASSUME FinBlock PROVE PairProgress'
  BY <1>0, <1>21 DEF FinBlock, PairProgress
<1>22. ASSUME FinSpuriousWake PROVE PairProgress'
  BY <1>0, <1>22 DEF FinSpuriousWake, PairProgress
<1>23. ASSUME FinDrain PROVE PairProgress'
  BY <1>0, <1>23 DEF FinDrain, PairProgress
<1>24. ASSUME FinWait PROVE PairProgress'
  BY <1>0, <1>24 DEF FinWait, PairProgress
<1>25. ASSUME FinRelease PROVE PairProgress'
  BY <1>0, <1>25, AppendFacts DEF FinRelease, TypeOK, BatchOwnership, PairOwnership, SyncExclusive, Handed, PairProgress
<1>26. ASSUME FinFree PROVE PairProgress'
  BY <1>0, <1>26 DEF FinFree, PairProgress
<1>27. ASSUME DestroyStop PROVE PairProgress'
  BY <1>0, <1>27 DEF DestroyStop, PairProgress
<1>28. ASSUME DestroyNotify PROVE PairProgress'
  BY <1>0, <1>28 DEF DestroyNotify, WakeFinalizer, PairProgress
<1>29. ASSUME DestroyWaitIdle PROVE PairProgress'
  BY <1>0, <1>29 DEF DestroyWaitIdle, PairProgress
<1>30. ASSUME DestroyJoin PROVE PairProgress'
  BY <1>0, <1>30 DEF DestroyJoin, PairProgress
<1>31. ASSUME DestroyLock PROVE PairProgress'
  BY <1>0, <1>31 DEF DestroyLock, PairProgress
<1>32. ASSUME DestroyRelock PROVE PairProgress'
  BY <1>0, <1>32 DEF DestroyRelock, PairProgress
<1>33. ASSUME DestroyFinish PROVE PairProgress'
  BY <1>0, <1>33 DEF DestroyFinish, PairProgress
<1>34. ASSUME FinWaitFails PROVE PairProgress'
  BY <1>0, <1>34 DEF FinWaitFails, PairProgress
<1>35. ASSUME DestroyWaitIdleFails PROVE PairProgress'
  BY <1>0, <1>35 DEF DestroyWaitIdleFails, PairProgress
<1>36. ASSUME NEW p \in Syncs, GpuFenceReused(p) PROVE PairProgress'
  BY <1>0, <1>36 DEF GpuFenceReused, TypeOK, PairOwnership, PairProgress
<1> QED
  BY <1>1, <1>2, <1>3, <1>4, <1>5, <1>6, <1>7, <1>8, <1>9, <1>10, <1>11, <1>12, <1>13, <1>14, <1>15, <1>16, <1>17, <1>18, <1>19, <1>20, <1>21, <1>22, <1>23, <1>24, <1>25, <1>26, <1>27, <1>28, <1>29, <1>30, <1>31, <1>32, <1>33, <1>34, <1>35, <1>36
  DEF Next, CommandBufferStep, SubmitStep, GpuStep, FinLockFree, DestroyStep

-----------------------------------------------------------------------------
\* A pair is signalled by one command buffer, which runs or is about to.
LEMMA SignalsStep == IInv /\ GInv /\ Calm /\ Calm' /\ Next => Signals'
<1> SUFFICES ASSUME IInv, GInv, Calm, Calm', Next PROVE Signals'
  OBVIOUS
<1> USE LifecycleAssumption
    DEF cmdVars, batchVars, poolVars, gpuVars, threadVars, finVars, dtorVars,
        histVars, cbFrame, callFrame, finFrame, dtorFrame
<1>0. TypeOK /\ LockOwnership /\ CallState /\ CallPairs /\ PairProgress /\ Signals
  BY DEF IInv, GInv
<1>1. ASSUME NEW c \in CmdBufs, AllocateCommandBuffer(c) PROVE Signals'
  BY <1>0, <1>1 DEF AllocateCommandBuffer, DropCurrent, Signals
<1>2. ASSUME NEW c \in CmdBufs, FreeCommandBuffer(c) PROVE Signals'
  BY <1>0, <1>2 DEF FreeCommandBuffer, DropCurrent, Signals
<1>3. ASSUME NEW c \in CmdBufs, DestroyCommandPool(c) PROVE Signals'
  BY <1>0, <1>3 DEF DestroyCommandPool, Signals
<1>4. ASSUME NEW c \in CmdBufs, BeginCommandBuffer(c) PROVE Signals'
  BY <1>0, <1>4 DEF BeginCommandBuffer, Signals
<1>5. ASSUME NEW c \in CmdBufs, ResetCommandBuffer(c) PROVE Signals'
  BY <1>0, <1>5 DEF ResetCommandBuffer, Signals
<1>6. ASSUME NEW c \in CmdBufs, RecordCopy(c) PROVE Signals'
  BY <1>0, <1>6 DEF RecordCopy, Signals
<1>7. ASSUME NEW t \in Threads, SubmitEnter(t) PROVE Signals'
  BY <1>0, <1>7 DEF SubmitEnter, Submittable, Untouched, TypeOK, Signals
<1>8. ASSUME NEW t \in Threads, NEW c \in CmdBufs, SubmitCollect(t, c) PROVE Signals'
  <2>1. CASE current[c] = None
    <3>1. /\ c \in todo[t] /\ todo' = [todo EXCEPT ![t] = @ \ {c}] /\ sigOf' = [sigOf EXCEPT ![c] = None]
          /\ UNCHANGED <<sem, exec, subs, stagingFences, givenUp>>
      BY <1>8, <2>1 DEF SubmitCollect
    <3>2. ~exec[c] /\ c \in subs[t] /\ \A u \in Threads : u # t => c \notin subs[u]
      BY <1>0, <3>1 DEF CallState
    <3> QED BY <1>0, <3>1, <3>2 DEF TypeOK, Signals
  <2>2. CASE current[c] # None
    <3>1. PICK p \in Syncs : CollectPair(t, c, p)
      BY <1>8, <2>2, CollectFacts
    <3>2. /\ c \in todo[t] /\ todo' = [todo EXCEPT ![t] = @ \ {c}] /\ sigOf' = [sigOf EXCEPT ![c] = p]
          /\ UNCHANGED <<sem, exec, subs, givenUp>>
          /\ \A u \in Threads : Range(stagingFences[u]) \subseteq Range(stagingFences'[u])
          /\ p \in Range(stagingFences'[t])
      BY <1>8, <3>1 DEF SubmitCollect, CollectPair
    <3>3. ~exec[c] /\ c \in subs[t] /\ \A u \in Threads : u # t => c \notin subs[u]
      BY <1>0, <3>2 DEF CallState
    <3>4. p \notin Range(stagingFences[t])
      BY <1>0, <1>8, <3>1 DEF SubmitCollect, LockOwnership, CallPairs, CollectPair
    <3>5. \A u \in Threads : \A d \in subs'[u] \ todo'[u] : d = c \/ (d # c /\ d \in subs[u] \ todo[u])
      BY <1>0, <3>2 DEF TypeOK
    <3>6. \A d \in CmdBufs : d # c => sigOf'[d] = sigOf[d]
      BY <1>0, <3>2 DEF TypeOK
    <3>7. sigOf'[c] = p
      BY <1>0, <3>2 DEF TypeOK
    <3>8. \A u \in Threads : \A d \in subs'[u] \ todo'[u] : sigOf'[d] # None => sigOf'[d] \in Range(stagingFences'[u])
      <4>1. \A u \in Threads : u # t => c \notin subs'[u]
        BY <3>2, <3>3
      <4>2. \A u \in Threads : subs[u] \subseteq CmdBufs
        BY <1>0 DEF TypeOK
      <4> QED BY <1>0, <3>2, <3>5, <3>6, <3>7, <4>1, <4>2 DEF Signals
    <3>9. \A u \in Threads : \A d, e \in subs'[u] \ todo'[u] : sigOf'[d] # None /\ sigOf'[d] = sigOf'[e] => d = e
      <4>1. \A u \in Threads : subs[u] \subseteq CmdBufs
        BY <1>0 DEF TypeOK
      <4>2. \A d \in subs[t] \ todo[t] : sigOf[d] # p
        BY <1>0, <3>4, LifecycleAssumption DEF Signals
      <4>3. \A u \in Threads : u # t => c \notin subs'[u]
        BY <3>2, <3>3
      <4> QED BY <1>0, <3>5, <3>6, <3>7, <4>1, <4>2, <4>3 DEF Signals
    <3>10. /\ \A d \in CmdBufs :
                exec'[d] /\ sigOf'[d] \notin givenUp' \cup {None} => sem'[sigOf'[d]] = "promised"
           /\ \A d, e \in CmdBufs :
                exec'[d] /\ exec'[e] /\ sigOf'[d] \notin givenUp' \cup {None} /\ sigOf'[d] = sigOf'[e] => d = e
      BY <1>0, <3>2, <3>3, <3>6 DEF Signals
    <3> QED BY <3>8, <3>9, <3>10 DEF Signals
  <2> QED BY <2>1, <2>2
<1>9. ASSUME NEW t \in Threads, SubmitUnlock(t) PROVE Signals'
  BY <1>0, <1>9 DEF SubmitUnlock, Signals
<1>10. ASSUME NEW t \in Threads, SubmitNotify(t) PROVE Signals'
  BY <1>0, <1>10 DEF SubmitNotify, WakeFinalizer, Signals
<1>11. ASSUME NEW t \in Threads, SubmitAccepted(t) PROVE Signals'
  <2>1. /\ pc[t] = "submit" /\ UNCHANGED <<sigOf, todo, stagingFences, givenUp>>
        /\ exec' = [d \in CmdBufs |-> exec[d] \/ d \in subs[t]]
        /\ subs' = [subs EXCEPT ![t] = {}]
        /\ sem' = [p \in Syncs |-> IF p \in Range(stagingFences[t]) THEN "promised" ELSE sem[p]]
    BY <1>11 DEF SubmitAccepted
  <2>2. todo[t] = {}
    BY <1>0, <2>1 DEF CallState
  <2>3. \A p \in Range(stagingFences[t]) : p \in Syncs /\ (p \in givenUp \/ sem[p] = "idle")
    BY <1>0, <2>1, RangeIndex DEF CallPairs, TypeOK
  <2>4. \A d \in subs[t] : d \in CmdBufs /\ (sigOf[d] # None => sigOf[d] \in Range(stagingFences[t]))
    BY <1>0, <2>2 DEF TypeOK, Signals
  <2>5. \A d \in CmdBufs :
           exec'[d] /\ sigOf'[d] \notin givenUp' \cup {None} => sem'[sigOf'[d]] = "promised"
    BY <1>0, <2>1, <2>3, <2>4 DEF TypeOK, Signals
  <2>6. \A d, e \in CmdBufs :
           exec'[d] /\ exec'[e] /\ sigOf'[d] \notin givenUp' \cup {None} /\ sigOf'[d] = sigOf'[e] => d = e
    BY <1>0, <2>1, <2>2, <2>3, <2>4 DEF Signals
  <2>7. subs'[t] = {} /\ \A u \in Threads : u # t => subs'[u] = subs[u]
    BY <1>0, <2>1 DEF TypeOK
  <2> QED BY <1>0, <2>1, <2>5, <2>6, <2>7 DEF Signals
<1>12. ASSUME NEW t \in Threads, SubmitRefused(t) PROVE Signals'
  BY <1>0, <1>12, EmptyFacts DEF SubmitRefused, TypeOK, Signals
<1>13. ASSUME NEW t \in Threads, FenceAccepted(t) PROVE Signals'
  <2>1. /\ pc[t] = "fences" /\ UNCHANGED <<sem, exec, sigOf, subs, todo, givenUp>>
        /\ \A u \in Threads : u # t => stagingFences'[u] = stagingFences[u]
    BY <1>0, <1>13 DEF FenceAccepted, TypeOK
  <2>2. subs[t] = {}
    BY <1>0, <2>1 DEF CallState
  <2> QED BY <1>0, <2>1, <2>2 DEF Signals
<1>14. ASSUME NEW t \in Threads, FenceRefused(t) PROVE Signals'
  <2>1. /\ pc[t] = "fences" /\ UNCHANGED <<sem, exec, sigOf, subs, todo, givenUp>>
        /\ \A u \in Threads : u # t => stagingFences'[u] = stagingFences[u]
    BY <1>0, <1>14 DEF FenceRefused, TypeOK
  <2>2. subs[t] = {}
    BY <1>0, <2>1 DEF CallState
  <2> QED BY <1>0, <2>1, <2>2 DEF Signals
<1>15. ASSUME NEW t \in Threads, SubmitReturn(t) PROVE Signals'
  BY <1>0, <1>15 DEF SubmitReturn, Signals
<1>16. ASSUME NEW c \in CmdBufs, GpuComplete(c) PROVE Signals'
  BY <1>0, <1>16 DEF GpuComplete, TypeOK, Signals
<1>17. ASSUME NEW p \in Syncs, GpuFence(p) PROVE Signals'
  BY <1>0, <1>17 DEF GpuFence, Signals
<1>18. ASSUME DeviceLost PROVE Signals'
  BY <1>0, <1>18 DEF DeviceLost, Signals
<1>19. ASSUME FinTop PROVE Signals'
  BY <1>0, <1>19 DEF FinTop, Signals
<1>20. ASSUME FinAcquire PROVE Signals'
  BY <1>0, <1>20 DEF FinAcquire, Signals
<1>21. ASSUME FinBlock PROVE Signals'
  BY <1>0, <1>21 DEF FinBlock, Signals
<1>22. ASSUME FinSpuriousWake PROVE Signals'
  BY <1>0, <1>22 DEF FinSpuriousWake, Signals
<1>23. ASSUME FinDrain PROVE Signals'
  BY <1>0, <1>23 DEF FinDrain, Signals
<1>24. ASSUME FinWait PROVE Signals'
  BY <1>0, <1>24 DEF FinWait, Signals
<1>25. ASSUME FinRelease PROVE Signals'
  BY <1>0, <1>25 DEF FinRelease, Signals
<1>26. ASSUME FinFree PROVE Signals'
  BY <1>0, <1>26 DEF FinFree, Signals
<1>27. ASSUME DestroyStop PROVE Signals'
  BY <1>0, <1>27 DEF DestroyStop, Signals
<1>28. ASSUME DestroyNotify PROVE Signals'
  BY <1>0, <1>28 DEF DestroyNotify, WakeFinalizer, Signals
<1>29. ASSUME DestroyWaitIdle PROVE Signals'
  BY <1>0, <1>29 DEF DestroyWaitIdle, Signals
<1>30. ASSUME DestroyJoin PROVE Signals'
  BY <1>0, <1>30 DEF DestroyJoin, Signals
<1>31. ASSUME DestroyLock PROVE Signals'
  BY <1>0, <1>31 DEF DestroyLock, Signals
<1>32. ASSUME DestroyRelock PROVE Signals'
  BY <1>0, <1>32 DEF DestroyRelock, Signals
<1>33. ASSUME DestroyFinish PROVE Signals'
  BY <1>0, <1>33 DEF DestroyFinish, Signals
<1>34. ASSUME FinWaitFails PROVE Signals'
  BY <1>0, <1>34 DEF FinWaitFails, Signals
<1>35. ASSUME DestroyWaitIdleFails PROVE Signals'
  BY <1>0, <1>35 DEF DestroyWaitIdleFails, Signals
<1>36. ASSUME NEW p \in Syncs, GpuFenceReused(p) PROVE Signals'
  BY <1>0, <1>36 DEF GpuFenceReused, Signals
<1> QED
  BY <1>1, <1>2, <1>3, <1>4, <1>5, <1>6, <1>7, <1>8, <1>9, <1>10, <1>11, <1>12, <1>13, <1>14, <1>15, <1>16, <1>17, <1>18, <1>19, <1>20, <1>21, <1>22, <1>23, <1>24, <1>25, <1>26, <1>27, <1>28, <1>29, <1>30, <1>31, <1>32, <1>33, <1>34, <1>35, <1>36
  DEF Next, CommandBufferStep, SubmitStep, GpuStep, FinLockFree, DestroyStep

-----------------------------------------------------------------------------
\* When nothing is submitted twice, the batch of relevant commands is not retired.
LEMMA InUseStep == IInv /\ GInv /\ Calm /\ Calm' /\ ~Reuse /\ Next => InUse'
<1> SUFFICES ASSUME IInv, GInv, Calm, Calm', ~Reuse, Next PROVE InUse'
  OBVIOUS
<1> USE LifecycleAssumption
    DEF cmdVars, batchVars, poolVars, gpuVars, threadVars, finVars, dtorVars,
        histVars, cbFrame, callFrame, finFrame, dtorFrame
<1>0. TypeOK /\ BatchOwnership /\ PairOwnership /\ CallState /\ CallPairs /\ PairProgress /\ Signals /\ RecordedUnique /\ InUse /\ ~lost /\ ~stop_thread
  BY DEF IInv, GInv, Calm, CallState
<1>1. ASSUME NEW c \in CmdBufs, AllocateCommandBuffer(c) PROVE InUse'
  BY <1>0, <1>1 DEF AllocateCommandBuffer, DropCurrent, Untouched, TypeOK, BatchOwnership, InUse, Unfinished, Unguarded, Relevant, Handed
<1>2. ASSUME NEW c \in CmdBufs, FreeCommandBuffer(c) PROVE InUse'
  BY <1>0, <1>2 DEF FreeCommandBuffer, DropCurrent, Untouched, TypeOK, BatchOwnership, InUse, Unfinished, Unguarded, Relevant, Handed
<1>3. ASSUME NEW c \in CmdBufs, DestroyCommandPool(c) PROVE InUse'
  BY <1>0, <1>3 DEF DestroyCommandPool, InUse, Unfinished, Unguarded, Relevant, Handed
<1>4. ASSUME NEW c \in CmdBufs, BeginCommandBuffer(c) PROVE InUse'
  BY <1>0, <1>4 DEF BeginCommandBuffer, Untouched, TypeOK, InUse, Unfinished, Unguarded, Relevant, Handed
<1>5. ASSUME NEW c \in CmdBufs, ResetCommandBuffer(c) PROVE InUse'
  BY <1>0, <1>5 DEF ResetCommandBuffer, InUse, Unfinished, Unguarded, Relevant, Handed
<1>6. ASSUME NEW c \in CmdBufs, RecordCopy(c) PROVE InUse'
  <2>0. PICK b \in Batches :
          /\ b = current[c] \/ (place[b] = "none" /\ \A d \in CmdBufs : recorded[d] # b)
          /\ current' = [current EXCEPT ![c] = b]
          /\ place' = [place EXCEPT ![b] = "cb"]
          /\ recorded' = [recorded EXCEPT ![c] = b]
    BY <1>6 DEF RecordCopy
  <2>1. place[b] \in {"none", "cb"}
    BY <1>0, <2>0, LifecycleAssumption DEF BatchOwnership
  <2>2. /\ cmd[c] = "recording" /\ ~exec[c] /\ \A u \in Threads : c \notin subs[u]
        /\ UNCHANGED <<cmd, sync, fence, sem, exec, sigOf, todo, subs, pc, stagingFences, givenUp>>
        /\ \A a \in Batches : a \in adrift /\ a \notin adrift' => place'[a] = "cb" /\ current'[c] = a
    BY <1>0, <1>6 DEF RecordCopy, Untouched, TypeOK
  <2>3. \A d \in CmdBufs : d # c => recorded'[d] = recorded[d] /\ current'[d] = current[d] /\ recorded[d] # b
    BY <1>0, <2>0, LifecycleAssumption DEF TypeOK, RecordedUnique
  <2>4. recorded'[c] = b /\ current'[c] = b /\ place'[b] = "cb"
    BY <1>0, <2>0 DEF TypeOK
  <2>5. Relevant' = Relevant \cup {c} /\ Relevant \subseteq CmdBufs
    BY <2>2, <2>3, <2>4, LifecycleAssumption DEF Relevant
  <2>6. /\ b \notin Unfinished'
        /\ \A a \in Batches : a # b => /\ a \in Unfinished' <=> a \in Unfinished
                                       /\ a \in Unguarded => a \in Unguarded'
    BY <1>0, <2>0, <2>1, <2>2, <2>4 DEF Unfinished, Unguarded, Handed, TypeOK
  <2>7. \A d \in Relevant : recorded[d] \in Batches
    BY <1>0 DEF TypeOK, Relevant
  <2>8. \A d \in Relevant' : cmd'[d] = "recording" => current'[d] = recorded'[d]
    BY <1>0, <2>2, <2>3, <2>4, <2>5 DEF InUse
  <2>9. \A d \in Relevant' :
          \/ current'[d] = recorded'[d] /\ ~exec'[d] /\ \A u \in Threads : d \notin subs'[u] \ todo'[u]
          \/ recorded'[d] \in Unfinished' \cup Unguarded'
    BY <1>0, <2>2, <2>3, <2>4, <2>5, <2>6, <2>7 DEF InUse
  <2>10. ASSUME NEW d \in Relevant', recorded'[d] \in Unfinished'
         PROVE  d \in Relevant /\ recorded[d] \in Unfinished /\ recorded'[d] = recorded[d]
    BY <2>3, <2>4, <2>5, <2>6, <2>7, <2>10
  <2> QED BY <1>0, <2>2, <2>8, <2>9, <2>10 DEF InUse
<1>7. ASSUME NEW t \in Threads, SubmitEnter(t) PROVE InUse'
  <2>1. PICK cs \in SUBSET CmdBufs :
          /\ \A c \in cs : Submittable(c)
          /\ subs' = [subs EXCEPT ![t] = cs]
          /\ todo' = [todo EXCEPT ![t] = cs]
          /\ cmd' = [c \in CmdBufs |-> IF c \in cs THEN "ended" ELSE cmd[c]]
    BY <1>7 DEF SubmitEnter
  <2>2. /\ pc[t] = "idle" /\ pc' = [pc EXCEPT ![t] = "collect"]
        /\ UNCHANGED <<recorded, current, place, sync, fence, sem, exec, sigOf, stagingFences, givenUp, adrift>>
    BY <1>7 DEF SubmitEnter
  <2>3. \A c \in cs : cmd[c] \in {"recording", "ended"}
    BY <2>1 DEF Submittable
  <2>4. Relevant' = Relevant /\ Relevant \subseteq CmdBufs /\ Unfinished' = Unfinished /\ Unguarded' = Unguarded
    BY <2>1, <2>2, <2>3 DEF Relevant, Unfinished, Unguarded, Handed
  <2>5. /\ subs'[t] \ todo'[t] = {} /\ subs[t] = {} /\ Range(stagingFences[t]) = {}
        /\ \A u \in Threads : u # t => subs'[u] = subs[u] /\ todo'[u] = todo[u] /\ pc'[u] = pc[u]
    <3>1. subs'[t] = cs /\ todo'[t] = cs
      BY <1>0, <2>1 DEF TypeOK
    <3>2. subs[t] = {} /\ stagingFences[t] = <<>>
      BY <1>0, <2>2 DEF CallState
    <3>3. \A u \in Threads : u # t => subs'[u] = subs[u] /\ todo'[u] = todo[u] /\ pc'[u] = pc[u]
      BY <1>0, <2>1, <2>2 DEF TypeOK
    <3> QED BY <3>1, <3>2, <3>3, EmptyFacts
  <2>6. \A c \in Relevant' : cmd'[c] = "recording" => current'[c] = recorded'[c]
    BY <1>0, <2>1, <2>2, <2>4 DEF InUse
  <2>7. \A c \in Relevant' :
          \/ current'[c] = recorded'[c] /\ ~exec'[c] /\ \A u \in Threads : c \notin subs'[u] \ todo'[u]
          \/ recorded'[c] \in Unfinished' \cup Unguarded'
    BY <1>0, <2>2, <2>4, <2>5 DEF InUse
  <2>8. ASSUME NEW c \in Relevant', recorded'[c] \in Unfinished'
        PROVE  /\ sem'[sync'[recorded'[c]]] = "promised" => exec'[c] /\ sigOf'[c] = sync'[recorded'[c]]
               /\ \A u \in Threads :
                    sync'[recorded'[c]] \in Range(stagingFences'[u]) /\ pc'[u] # "fences" =>
                       c \in subs'[u] \ todo'[u] /\ sigOf'[c] = sync'[recorded'[c]]
    BY <1>0, <2>2, <2>4, <2>5, <2>8 DEF InUse
  <2> QED BY <2>6, <2>7, <2>8 DEF InUse
<1>8. ASSUME NEW t \in Threads, NEW c \in CmdBufs, SubmitCollect(t, c) PROVE InUse'
  <2>1. CASE current[c] = None
    <3>1. /\ c \in todo[t] /\ todo' = [todo EXCEPT ![t] = @ \ {c}] /\ sigOf' = [sigOf EXCEPT ![c] = None]
          /\ UNCHANGED <<cmd, recorded, current, place, sync, fence, sem, exec, subs, pc, stagingFences, givenUp, adrift>>
      BY <1>8, <2>1 DEF SubmitCollect
    <3>2. ~exec[c] /\ c \in subs[t] /\ cmd[c] = "ended" /\ pc[t] = "collect"
      BY <1>0, <3>1 DEF CallState, TypeOK
    <3>3. Relevant' = Relevant /\ Relevant \subseteq CmdBufs
      BY <3>1 DEF Relevant
    <3>4. Unfinished' = Unfinished /\ Unguarded' = Unguarded
      BY <3>1 DEF Unfinished, Unguarded, Handed
    <3>5. \A d \in CmdBufs : recorded[d] # None => recorded[d] \in Batches
      BY <1>0 DEF TypeOK
    <3>6. \A u \in Threads : \A d \in CmdBufs : d # c => (d \in subs'[u] \ todo'[u] <=> d \in subs[u] \ todo[u])
      BY <1>0, <3>1 DEF TypeOK
    <3>7. \A d \in CmdBufs : d # c => sigOf'[d] = sigOf[d]
      BY <1>0, <3>1 DEF TypeOK
    <3>8. c \in Relevant => recorded[c] \in Unfinished \cup Unguarded
      BY <1>0, <2>1, <3>2 DEF InUse, Relevant
    <3>9. c \in Relevant /\ recorded[c] \in Unfinished =>
            /\ sem[sync[recorded[c]]] # "promised"
            /\ \A u \in Threads : pc[u] # "fences" => sync[recorded[c]] \notin Range(stagingFences[u])
      <4>1. c \notin subs[t] \ todo[t] /\ \A u \in Threads : u # t => c \notin subs[u]
        BY <1>0, <3>1, <3>2 DEF CallState
      <4> QED BY <1>0, <3>2, <4>1 DEF InUse, Relevant
    <3> QED BY <1>0, <2>1, <3>1, <3>2, <3>3, <3>4, <3>5, <3>6, <3>7, <3>8, <3>9 DEF InUse
  <2>2. CASE current[c] # None
    <3>1. PICK p \in Syncs : CollectPair(t, c, p)
      BY <1>8, <2>2, CollectFacts
    <3> DEFINE b == current[c]
    <3>2. /\ c \in todo[t] /\ todo' = [todo EXCEPT ![t] = @ \ {c}] /\ sigOf' = [sigOf EXCEPT ![c] = p]
          /\ current' = [current EXCEPT ![c] = None]
          /\ sync' = [sync EXCEPT ![b] = p] /\ place' = [place EXCEPT ![b] = "queue"]
          /\ fence' = [fence EXCEPT ![p] = "reset"]
          /\ Range(stagingFences'[t]) = Range(stagingFences[t]) \cup {p}
          /\ \A u \in Threads : u # t => Range(stagingFences'[u]) = Range(stagingFences[u])
          /\ UNCHANGED <<cmd, recorded, sem, exec, subs, pc, givenUp, adrift>>
      BY <1>8, <3>1 DEF SubmitCollect, CollectPair
    <3>3. ~exec[c] /\ c \in subs[t] /\ cmd[c] = "ended" /\ pc[t] = "collect"
      BY <1>0, <3>2 DEF CallState, TypeOK
    <3>4. b \in Batches /\ place[b] = "cb"
      BY <1>0, <2>2 DEF TypeOK, BatchOwnership
    <3>5. (p \in givenUp \/ sem[p] = "idle") /\ \A a \in Batches : sync[a] # p
      BY <1>0, <3>1 DEF CollectPair, PairProgress, PairOwnership
    <3>6. \A u \in Threads : p \in givenUp \/ p \notin Range(stagingFences[u])
      BY <1>0, <3>5 DEF CallPairs
    <3>7. Relevant' = Relevant /\ Relevant \subseteq CmdBufs
      BY <3>2 DEF Relevant
    <3>8. \A d \in Relevant : recorded[d] # None /\ recorded[d] \in Batches
      BY <1>0 DEF TypeOK, Relevant
    <3>9. \A d \in CmdBufs : recorded[d] = b => d = c
      BY <1>0, <2>2, <3>4, LifecycleAssumption DEF RecordedUnique
    <3>10. \A a \in Batches : a # b => /\ sync'[a] = sync[a]
                                       /\ a \in Unfinished' <=> a \in Unfinished
                                       /\ a \in Unguarded' <=> a \in Unguarded
      <4>1. \A a \in Batches : a # b => sync'[a] = sync[a] /\ place'[a] = place[a]
        BY <1>0, <3>2 DEF TypeOK
      <4>2. \A a \in Batches : sync[a] # None => fence'[sync[a]] = fence[sync[a]]
        BY <1>0, <3>2, <3>5 DEF TypeOK
      <4>3. \A a \in Batches : a # b => (a \in Unfinished' <=> a \in Unfinished)
        BY <3>2, <4>1, <4>2 DEF Unfinished, Handed
      <4>4. \A a \in Batches : a # b => (a \in Unguarded' <=> a \in Unguarded)
        BY <3>2, <4>1 DEF Unguarded
      <4> QED BY <4>1, <4>3, <4>4
    <3>11. sync'[b] = p /\ IF p \in givenUp THEN b \in Unguarded' /\ b \notin Unfinished' ELSE b \in Unfinished'
      <4>1. sync'[b] = p /\ place'[b] = "queue" /\ fence'[p] = "reset" /\ p # None
        BY <1>0, <3>2, <3>4, LifecycleAssumption DEF TypeOK
      <4> QED BY <3>2, <3>4, <3>5, <4>1 DEF Unfinished, Unguarded, Handed
    <3>12. \A u \in Threads : \A d \in CmdBufs : d # c => (d \in subs'[u] \ todo'[u] <=> d \in subs[u] \ todo[u])
      BY <1>0, <3>2 DEF TypeOK
    <3>13. \A d \in CmdBufs : d # c => sigOf'[d] = sigOf[d] /\ current'[d] = current[d]
      BY <1>0, <3>2 DEF TypeOK
    <3>14. c \in subs'[t] \ todo'[t] /\ sigOf'[c] = p
      BY <1>0, <3>2, <3>3 DEF TypeOK
    <3> HIDE DEF b
    <3>15. \A d \in Relevant' : cmd'[d] = "recording" => current'[d] = recorded'[d]
      BY <1>0, <3>2, <3>3, <3>7, <3>13 DEF InUse
    <3>16. \A d \in Relevant : recorded[d] # b =>
             \/ d # c /\ current[d] = recorded[d] /\ ~exec[d] /\ \A u \in Threads : d \notin subs[u] \ todo[u]
             \/ recorded[d] \in Unfinished \cup Unguarded
      BY <1>0 DEF InUse, b
    <3>17. \A d \in Relevant' :
             \/ current'[d] = recorded'[d] /\ ~exec'[d] /\ \A u \in Threads : d \notin subs'[u] \ todo'[u]
             \/ recorded'[d] \in Unfinished' \cup Unguarded'
      <4>1. \A d \in Relevant : recorded'[d] = recorded[d] /\ exec'[d] = exec[d]
        BY <3>2
      <4>2. \A d \in Relevant : recorded[d] = b => recorded[d] \in Unfinished' \cup Unguarded'
        BY <3>11
      <4>3. \A d \in Relevant : recorded[d] # b /\ recorded[d] \in Unfinished \cup Unguarded
               => recorded[d] \in Unfinished' \cup Unguarded'
        BY <3>8, <3>10
      <4> QED BY <3>7, <3>12, <3>13, <3>16, <4>1, <4>2, <4>3
    <3>18. ASSUME NEW d \in Relevant, recorded[d] \in Unfinished'
           PROVE  /\ sem'[sync'[recorded[d]]] = "promised" => exec'[d] /\ sigOf'[d] = sync'[recorded[d]]
                  /\ \A u \in Threads :
                       sync'[recorded[d]] \in Range(stagingFences'[u]) /\ pc'[u] # "fences" =>
                          d \in subs'[u] \ todo'[u] /\ sigOf'[d] = sync'[recorded[d]]
      <4>1. CASE recorded[d] = b
        <5>1. d = c /\ sync'[recorded[d]] = p /\ p \notin givenUp
          BY <3>7, <3>9, <3>11, <3>18, <4>1
        <5>2. sem'[p] # "promised" /\ \A u \in Threads : u # t => p \notin Range(stagingFences'[u])
          BY <3>2, <3>5, <3>6, <5>1
        <5> QED BY <3>14, <5>1, <5>2
      <4>2. CASE recorded[d] # b
        <5>1. /\ recorded[d] \in Batches /\ sync'[recorded[d]] = sync[recorded[d]]
              /\ recorded[d] \in Unfinished /\ sync[recorded[d]] # p
          <6>1. recorded[d] \in Batches /\ sync[recorded[d]] # p
            BY <3>5, <3>8
          <6>2. recorded[d] \in Unfinished /\ sync'[recorded[d]] = sync[recorded[d]]
            BY <3>10, <3>18, <4>2, <6>1
          <6> QED BY <6>1, <6>2
        <5>2. \A u \in Threads : sync[recorded[d]] \in Range(stagingFences'[u]) => sync[recorded[d]] \in Range(stagingFences[u])
          BY <3>2, <5>1
        <5>3. CASE d = c
          <6>1. \A u \in Threads : c \notin subs[u] \ todo[u]
            BY <1>0, <3>2, <3>3 DEF CallState
          <6> QED BY <1>0, <3>2, <3>3, <3>18, <5>1, <5>2, <5>3, <6>1 DEF InUse
        <5>4. CASE d # c
          BY <1>0, <3>2, <3>12, <3>13, <3>18, <5>1, <5>2, <5>4 DEF InUse
        <5> QED BY <5>3, <5>4
      <4> QED BY <4>1, <4>2
    <3>19. \A d \in CmdBufs : recorded'[d] = recorded[d]
      BY <3>2
    <3> QED BY <3>7, <3>15, <3>17, <3>18, <3>19 DEF InUse
  <2> QED BY <2>1, <2>2
<1>9. ASSUME NEW t \in Threads, SubmitUnlock(t) PROVE InUse'
  BY <1>0, <1>9 DEF SubmitUnlock, InUse, Unfinished, Unguarded, Relevant, Handed
<1>10. ASSUME NEW t \in Threads, SubmitNotify(t) PROVE InUse'
  BY <1>0, <1>10 DEF SubmitNotify, WakeFinalizer, InUse, Unfinished, Unguarded, Relevant, Handed
<1>11. ASSUME NEW t \in Threads, SubmitAccepted(t) PROVE InUse'
  <2>1. /\ pc[t] = "submit" /\ pc' = [pc EXCEPT ![t] = "fences"]
        /\ UNCHANGED <<recorded, current, place, sync, fence, sigOf, todo, stagingFences, givenUp, adrift>>
        /\ exec' = [d \in CmdBufs |-> exec[d] \/ d \in subs[t]]
        /\ cmd' = [d \in CmdBufs |-> IF d \in subs[t] THEN "executable" ELSE cmd[d]]
        /\ subs' = [subs EXCEPT ![t] = {}]
        /\ sem' = [p \in Syncs |-> IF p \in Range(stagingFences[t]) THEN "promised" ELSE sem[p]]
    BY <1>11 DEF SubmitAccepted
  <2>2. todo[t] = {} /\ \A d \in subs[t] : d \in CmdBufs /\ cmd[d] = "ended" /\ ~exec[d]
    BY <1>0, <2>1 DEF CallState, TypeOK
  <2>3. /\ pc'[t] = "fences" /\ \A u \in Threads : u # t => pc'[u] = pc[u] /\ subs'[u] = subs[u]
        /\ subs'[t] = {}
    BY <1>0, <2>1 DEF TypeOK
  <2>4. Relevant' \subseteq Relevant /\ Relevant \subseteq CmdBufs
    BY <2>1, <2>2 DEF Relevant
  <2>5. \A d \in Relevant : recorded[d] \in Batches
    BY <1>0 DEF TypeOK, Relevant
  <2>6. \A b \in Batches : sync[b] # None => sync[b] \in Syncs
    BY <1>0 DEF TypeOK
  <2>7. Unfinished' = Unfinished /\ Unguarded' = Unguarded
    <3>1. \A p \in Range(stagingFences[t]) \ givenUp : sem[p] = "idle"
      BY <1>0, <2>1 DEF CallPairs
    <3> QED BY <2>1, <2>6, <3>1 DEF Unfinished, Unguarded, Handed
  <2>8. \A d \in Relevant' : cmd'[d] = "recording" => current'[d] = recorded'[d]
    BY <1>0, <2>1, <2>4 DEF InUse
  <2>9. \A d \in Relevant :
           \/ d \notin subs[t] /\ current[d] = recorded[d] /\ ~exec[d] /\ \A u \in Threads : d \notin subs[u] \ todo[u]
           \/ recorded[d] \in Unfinished \cup Unguarded
    BY <1>0, <2>2 DEF InUse
  <2>10. \A d \in Relevant' :
           \/ current'[d] = recorded'[d] /\ ~exec'[d] /\ \A u \in Threads : d \notin subs'[u] \ todo'[u]
           \/ recorded'[d] \in Unfinished' \cup Unguarded'
    BY <2>1, <2>3, <2>4, <2>5, <2>7, <2>9
  <2>11. ASSUME NEW d \in Relevant, recorded[d] \in Unfinished
         PROVE  /\ sem'[sync[recorded[d]]] = "promised" => exec'[d] /\ sigOf[d] = sync[recorded[d]]
                /\ \A u \in Threads :
                     sync[recorded[d]] \in Range(stagingFences[u]) /\ pc'[u] # "fences" =>
                        d \in subs'[u] \ todo[u] /\ sigOf[d] = sync[recorded[d]]
    <3> DEFINE q == sync[recorded[d]]
    <3>1. q \in Syncs
      BY <2>5, <2>6, <2>11 DEF Unfinished
    <3> HIDE DEF q
    <3>2. /\ sem[q] = "promised" => exec[d] /\ sigOf[d] = q
          /\ \A u \in Threads : q \in Range(stagingFences[u]) /\ pc[u] # "fences" =>
                d \in subs[u] \ todo[u] /\ sigOf[d] = q
      BY <1>0, <2>11 DEF InUse, q
    <3>3. sem'[q] = "promised" => exec'[d] /\ sigOf[d] = q
      BY <2>1, <2>4, <3>1, <3>2
    <3>4. \A u \in Threads : q \in Range(stagingFences[u]) /\ pc'[u] # "fences" =>
             d \in subs'[u] \ todo[u] /\ sigOf[d] = q
      BY <2>3, <3>2
    <3> QED BY <3>3, <3>4 DEF q
  <2> QED BY <2>1, <2>4, <2>5, <2>7, <2>8, <2>10, <2>11 DEF InUse
<1>12. ASSUME NEW t \in Threads, SubmitRefused(t) PROVE InUse'
  <2>1. /\ UNCHANGED <<cmd, recorded, current, place, sync, fence, sem, exec, sigOf, todo, givenUp, adrift>>
        /\ pc' = [pc EXCEPT ![t] = "idle"] /\ stagingFences' = [stagingFences EXCEPT ![t] = <<>>]
        /\ subs' = [subs EXCEPT ![t] = {}]
    BY <1>12 DEF SubmitRefused
  <2>2. Relevant' = Relevant /\ Relevant \subseteq CmdBufs /\ Unfinished' = Unfinished /\ Unguarded' = Unguarded
    BY <2>1 DEF Relevant, Unfinished, Unguarded, Handed
  <2>3. \A u \in Threads : u # t => pc'[u] = pc[u] /\ stagingFences'[u] = stagingFences[u] /\ subs'[u] = subs[u]
    BY <1>0, <2>1 DEF TypeOK
  <2>4. subs'[t] = {}
    BY <1>0, <2>1, <1>12 DEF SubmitRefused, CallState, TypeOK
  <2>5. Range(stagingFences'[t]) = {}
    BY <1>0, <2>1, EmptyFacts DEF TypeOK
  <2>6. \A u \in Threads : Range(stagingFences'[u]) # {} => u # t
    BY <2>5
  <2>7. \A u \in Threads : subs'[u] \subseteq subs[u]
    BY <2>3, <2>4
  <2>8. \A c \in Relevant' : cmd'[c] = "recording" => current'[c] = recorded'[c]
    BY <1>0, <2>1, <2>2 DEF InUse
  <2>9. \A c \in Relevant' :
          \/ current'[c] = recorded'[c] /\ ~exec'[c] /\ \A u \in Threads : c \notin subs'[u] \ todo'[u]
          \/ recorded'[c] \in Unfinished' \cup Unguarded'
    BY <1>0, <2>1, <2>2, <2>7 DEF InUse
  <2>10. ASSUME NEW c \in Relevant', recorded'[c] \in Unfinished'
         PROVE  /\ sem'[sync'[recorded'[c]]] = "promised" => exec'[c] /\ sigOf'[c] = sync'[recorded'[c]]
                /\ \A u \in Threads :
                     sync'[recorded'[c]] \in Range(stagingFences'[u]) /\ pc'[u] # "fences" =>
                        c \in subs'[u] \ todo'[u] /\ sigOf'[c] = sync'[recorded'[c]]
    BY <1>0, <2>1, <2>2, <2>3, <2>6, <2>10 DEF InUse
  <2> QED BY <2>8, <2>9, <2>10 DEF InUse
<1>13. ASSUME NEW t \in Threads, FenceAccepted(t) PROVE InUse'
  <2>1. /\ UNCHANGED <<cmd, recorded, current, place, sync, sem, exec, sigOf, todo, subs, pc, givenUp, adrift>>
        /\ pc[t] = "fences" /\ stagingFences[t] # <<>>
        /\ fence' = [fence EXCEPT ![Head(stagingFences[t])] = "pending"]
        /\ \A u \in Threads : u # t => stagingFences'[u] = stagingFences[u]
    BY <1>0, <1>13 DEF FenceAccepted, TypeOK
  <2>2. /\ Head(stagingFences[t]) \in Range(stagingFences[t]) /\ Head(stagingFences[t]) \in Syncs
        /\ Head(stagingFences[t]) \notin givenUp => fence[Head(stagingFences[t])] = "reset"
    BY <1>0, <2>1, TailFacts DEF TypeOK, CallPairs
  <2>3. \A p \in Syncs \ givenUp : fence'[p] = "signaled" <=> fence[p] = "signaled"
    BY <1>0, <2>1, <2>2 DEF TypeOK
  <2>4. \A b \in Batches : sync[b] # None => sync[b] \in Syncs
    BY <1>0 DEF TypeOK
  <2>5. Relevant' = Relevant /\ Unfinished' = Unfinished /\ Unguarded' = Unguarded
    BY <2>1, <2>3, <2>4 DEF Relevant, Unfinished, Unguarded, Handed
  <2> QED BY <1>0, <2>1, <2>5 DEF InUse
<1>14. ASSUME NEW t \in Threads, FenceRefused(t) PROVE InUse'
  <2>1. /\ UNCHANGED <<cmd, recorded, current, place, sync, fence, sem, exec, sigOf, todo, givenUp, adrift>>
        /\ pc' = [pc EXCEPT ![t] = "idle"] /\ stagingFences' = [stagingFences EXCEPT ![t] = <<>>]
        /\ subs' = subs
    BY <1>14 DEF FenceRefused
  <2>2. Relevant' = Relevant /\ Relevant \subseteq CmdBufs /\ Unfinished' = Unfinished /\ Unguarded' = Unguarded
    BY <2>1 DEF Relevant, Unfinished, Unguarded, Handed
  <2>3. \A u \in Threads : u # t => pc'[u] = pc[u] /\ stagingFences'[u] = stagingFences[u] /\ subs'[u] = subs[u]
    BY <1>0, <2>1 DEF TypeOK
  <2>4. subs'[t] = {}
    BY <1>0, <2>1, <1>14 DEF FenceRefused, CallState, TypeOK
  <2>5. Range(stagingFences'[t]) = {}
    BY <1>0, <2>1, EmptyFacts DEF TypeOK
  <2>6. \A u \in Threads : Range(stagingFences'[u]) # {} => u # t
    BY <2>5
  <2>7. \A u \in Threads : subs'[u] \subseteq subs[u]
    BY <2>3, <2>4
  <2>8. \A c \in Relevant' : cmd'[c] = "recording" => current'[c] = recorded'[c]
    BY <1>0, <2>1, <2>2 DEF InUse
  <2>9. \A c \in Relevant' :
          \/ current'[c] = recorded'[c] /\ ~exec'[c] /\ \A u \in Threads : c \notin subs'[u] \ todo'[u]
          \/ recorded'[c] \in Unfinished' \cup Unguarded'
    BY <1>0, <2>1, <2>2, <2>7 DEF InUse
  <2>10. ASSUME NEW c \in Relevant', recorded'[c] \in Unfinished'
         PROVE  /\ sem'[sync'[recorded'[c]]] = "promised" => exec'[c] /\ sigOf'[c] = sync'[recorded'[c]]
                /\ \A u \in Threads :
                     sync'[recorded'[c]] \in Range(stagingFences'[u]) /\ pc'[u] # "fences" =>
                        c \in subs'[u] \ todo'[u] /\ sigOf'[c] = sync'[recorded'[c]]
    BY <1>0, <2>1, <2>2, <2>3, <2>6, <2>10 DEF InUse
  <2> QED BY <2>8, <2>9, <2>10 DEF InUse
<1>15. ASSUME NEW t \in Threads, SubmitReturn(t) PROVE InUse'
  <2>1. /\ UNCHANGED <<cmd, recorded, current, place, sync, fence, sem, exec, sigOf, todo, givenUp, adrift>>
        /\ pc' = [pc EXCEPT ![t] = "idle"] /\ stagingFences' = [stagingFences EXCEPT ![t] = <<>>]
        /\ subs' = subs
    BY <1>0, <1>15 DEF SubmitReturn, TypeOK
  <2>2. Relevant' = Relevant /\ Relevant \subseteq CmdBufs /\ Unfinished' = Unfinished /\ Unguarded' = Unguarded
    BY <2>1 DEF Relevant, Unfinished, Unguarded, Handed
  <2>3. \A u \in Threads : u # t => pc'[u] = pc[u] /\ stagingFences'[u] = stagingFences[u] /\ subs'[u] = subs[u]
    BY <1>0, <2>1 DEF TypeOK
  <2>4. subs'[t] = {}
    BY <1>0, <2>1, <1>15 DEF SubmitReturn, CallState, TypeOK
  <2>5. Range(stagingFences'[t]) = {}
    BY <1>0, <2>1, EmptyFacts DEF TypeOK
  <2>6. \A u \in Threads : Range(stagingFences'[u]) # {} => u # t
    BY <2>5
  <2>7. \A u \in Threads : subs'[u] \subseteq subs[u]
    BY <2>3, <2>4
  <2>8. \A c \in Relevant' : cmd'[c] = "recording" => current'[c] = recorded'[c]
    BY <1>0, <2>1, <2>2 DEF InUse
  <2>9. \A c \in Relevant' :
          \/ current'[c] = recorded'[c] /\ ~exec'[c] /\ \A u \in Threads : c \notin subs'[u] \ todo'[u]
          \/ recorded'[c] \in Unfinished' \cup Unguarded'
    BY <1>0, <2>1, <2>2, <2>7 DEF InUse
  <2>10. ASSUME NEW c \in Relevant', recorded'[c] \in Unfinished'
         PROVE  /\ sem'[sync'[recorded'[c]]] = "promised" => exec'[c] /\ sigOf'[c] = sync'[recorded'[c]]
                /\ \A u \in Threads :
                     sync'[recorded'[c]] \in Range(stagingFences'[u]) /\ pc'[u] # "fences" =>
                        c \in subs'[u] \ todo'[u] /\ sigOf'[c] = sync'[recorded'[c]]
    BY <1>0, <2>1, <2>2, <2>3, <2>6, <2>10 DEF InUse
  <2> QED BY <2>8, <2>9, <2>10 DEF InUse
<1>16. ASSUME NEW c \in CmdBufs, GpuComplete(c) PROVE InUse'
  BY <1>0, <1>16 DEF GpuComplete, TypeOK, BatchOwnership, PairOwnership, SyncExclusive, Handed, CallState, CallPairs, PairProgress, Signals, InUse, Unfinished, Unguarded, Relevant, RecordedUnique
<1>17. ASSUME NEW p \in Syncs, GpuFence(p) PROVE InUse'
  BY <1>0, <1>17 DEF GpuFence, TypeOK, InUse, Unfinished, Unguarded, Relevant, Handed
<1>18. ASSUME DeviceLost PROVE InUse'
  BY <1>0, <1>18 DEF DeviceLost, TypeOK, CallState, InUse, Unfinished, Unguarded, Relevant, Handed
<1>19. ASSUME FinTop PROVE InUse'
  BY <1>0, <1>19 DEF FinTop, InUse, Unfinished, Unguarded, Relevant, Handed
<1>20. ASSUME FinAcquire PROVE InUse'
  BY <1>0, <1>20, RangeIndex DEF FinAcquire, InUse, Unfinished, Unguarded, Relevant, Handed
<1>21. ASSUME FinBlock PROVE InUse'
  BY <1>0, <1>21 DEF FinBlock, InUse, Unfinished, Unguarded, Relevant, Handed
<1>22. ASSUME FinSpuriousWake PROVE InUse'
  BY <1>0, <1>22 DEF FinSpuriousWake, InUse, Unfinished, Unguarded, Relevant, Handed
<1>23. ASSUME FinDrain PROVE InUse'
  <2>1. UNCHANGED <<cmd, recorded, exec, sem, fence, sync, pc, subs, todo, sigOf, stagingFences, current, givenUp, adrift>>
    BY <1>23 DEF FinDrain
  <2>2. \A b \in Batches : Handed(b)' <=> Handed(b)
    <3>1. CASE fqueue = <<>>
      BY <1>23, <3>1 DEF FinDrain, Handed
    <3>2. CASE fqueue # <<>>
      <4>1. Last(fqueue) \in Batches /\ place[Last(fqueue)] = "local"
        <5>1. fqueue \in Seq(Batches)
          BY <1>0 DEF TypeOK
        <5>2. Last(fqueue) \in Batches /\ Range(fqueue) = Range(Front(fqueue)) \cup {Last(fqueue)}
          BY <3>2, <5>1, PopFacts
        <5> QED BY <1>0, <5>2 DEF BatchOwnership
      <4> QED BY <1>0, <1>23, <3>2, <4>1 DEF FinDrain, Handed, TypeOK
    <3> QED BY <3>1, <3>2
  <2>3. Unfinished' = Unfinished /\ Unguarded' = Unguarded
    BY <2>1, <2>2 DEF Unfinished, Unguarded
  <2>4. Relevant' = Relevant /\ Relevant \subseteq CmdBufs
    BY <2>1 DEF Relevant
  <2>5. \A d \in CmdBufs : recorded[d] # None => recorded[d] \in Batches
    BY <1>0 DEF TypeOK
  <2> QED BY <1>0, <2>1, <2>3, <2>4, <2>5 DEF InUse
<1>24. ASSUME FinWait PROVE InUse'
  BY <1>0, <1>24 DEF FinWait, InUse, Unfinished, Unguarded, Relevant, Handed
<1>25. ASSUME FinRelease PROVE InUse'
  BY <1>0, <1>25 DEF FinRelease, TypeOK, BatchOwnership, PairOwnership, SyncExclusive, Handed, CallState, CallPairs, PairProgress, Signals, InUse, Unfinished, Unguarded, Relevant, RecordedUnique
<1>26. ASSUME FinFree PROVE InUse'
  BY <1>0, <1>26 DEF FinFree, TypeOK, BatchOwnership, PairOwnership, SyncExclusive, Handed, InUse, Unfinished, Unguarded, Relevant
<1>27. ASSUME DestroyStop PROVE InUse'
  BY <1>0, <1>27 DEF DestroyStop, InUse, Unfinished, Unguarded, Relevant, Handed
<1>28. ASSUME DestroyNotify PROVE InUse'
  BY <1>0, <1>28 DEF DestroyNotify, WakeFinalizer, InUse, Unfinished, Unguarded, Relevant, Handed
<1>29. ASSUME DestroyWaitIdle PROVE InUse'
  BY <1>0, <1>29 DEF DestroyWaitIdle, InUse, Unfinished, Unguarded, Relevant, Handed
<1>30. ASSUME DestroyJoin PROVE InUse'
  BY <1>0, <1>30 DEF DestroyJoin, InUse, Unfinished, Unguarded, Relevant, Handed
<1>31. ASSUME DestroyLock PROVE InUse'
  BY <1>0, <1>31 DEF DestroyLock, InUse, Unfinished, Unguarded, Relevant, Handed
<1>32. ASSUME DestroyRelock PROVE InUse'
  BY <1>0, <1>32 DEF DestroyRelock, InUse, Unfinished, Unguarded, Relevant, Handed
<1>33. ASSUME DestroyFinish PROVE InUse'
  BY <1>0, <1>33 DEF DestroyFinish, InUse, Unfinished, Unguarded, Relevant, Handed
<1>34. ASSUME FinWaitFails PROVE InUse'
  <2>1. /\ UNCHANGED <<cmd, recorded, current, place, sync, fence, sem, exec, sigOf, pc, todo, subs, stagingFences, adrift>>
        /\ givenUp \subseteq givenUp'
    BY <1>34 DEF FinWaitFails
  <2>2. Relevant' = Relevant /\ Relevant \subseteq CmdBufs
    BY <2>1 DEF Relevant
  <2>3. Unfinished' \subseteq Unfinished /\ Unfinished \cup Unguarded \subseteq Unfinished' \cup Unguarded'
    BY <2>1 DEF Unfinished, Unguarded, Handed
  <2> QED BY <1>0, <2>1, <2>2, <2>3 DEF InUse
<1>35. ASSUME DestroyWaitIdleFails PROVE InUse'
  BY <1>0, <1>35 DEF DestroyWaitIdleFails, InUse, Unfinished, Unguarded, Relevant, Handed
<1>36. ASSUME NEW p \in Syncs, GpuFenceReused(p) PROVE InUse'
  BY <1>0, <1>36 DEF GpuFenceReused, InUse, Unfinished, Unguarded, Relevant, Handed
<1> QED
  BY <1>1, <1>2, <1>3, <1>4, <1>5, <1>6, <1>7, <1>8, <1>9, <1>10, <1>11, <1>12, <1>13, <1>14, <1>15, <1>16, <1>17, <1>18, <1>19, <1>20, <1>21, <1>22, <1>23, <1>24, <1>25, <1>26, <1>27, <1>28, <1>29, <1>30, <1>31, <1>32, <1>33, <1>34, <1>35, <1>36
  DEF Next, CommandBufferStep, SubmitStep, GpuStep, FinLockFree, DestroyStep

-----------------------------------------------------------------------------
\* Every action keeps what DestroyDevice relies on.
LEMMA ClosingStep == IInv /\ GInv /\ Closing /\ Next => Closing'
<1> SUFFICES ASSUME IInv, GInv, Closing, Next PROVE Closing'
  OBVIOUS
<1> USE LifecycleAssumption
    DEF cmdVars, batchVars, poolVars, gpuVars, threadVars, finVars, dtorVars,
        histVars, cbFrame, callFrame, finFrame, dtorFrame
<1>0. TypeOK /\ BatchOwnership /\ PairOwnership /\ CallState /\ LockOwnership /\ Closing
  BY DEF IInv, GInv
<1>1. ASSUME NEW c \in CmdBufs, AllocateCommandBuffer(c) PROVE Closing'
  BY <1>0, <1>1 DEF AllocateCommandBuffer, DropCurrent, Closing
<1>2. ASSUME NEW c \in CmdBufs, FreeCommandBuffer(c) PROVE Closing'
  BY <1>0, <1>2 DEF FreeCommandBuffer, DropCurrent, Closing
<1>3. ASSUME NEW c \in CmdBufs, DestroyCommandPool(c) PROVE Closing'
  BY <1>0, <1>3 DEF DestroyCommandPool, Closing
<1>4. ASSUME NEW c \in CmdBufs, BeginCommandBuffer(c) PROVE Closing'
  BY <1>0, <1>4 DEF BeginCommandBuffer, Closing
<1>5. ASSUME NEW c \in CmdBufs, ResetCommandBuffer(c) PROVE Closing'
  BY <1>0, <1>5 DEF ResetCommandBuffer, Closing
<1>6. ASSUME NEW c \in CmdBufs, RecordCopy(c) PROVE Closing'
  BY <1>0, <1>6 DEF RecordCopy, Closing
<1>7. ASSUME NEW t \in Threads, SubmitEnter(t) PROVE Closing'
  BY <1>0, <1>7 DEF SubmitEnter, Closing
<1>8. ASSUME NEW t \in Threads, NEW c \in CmdBufs, SubmitCollect(t, c) PROVE Closing'
  <2>1. CASE current[c] = None
    BY <1>0, <1>8, <2>1 DEF SubmitCollect, Closing
  <2>2. CASE current[c] # None
    <3>1. PICK p \in Syncs : CollectPair(t, c, p)
      BY <1>8, <2>2, CollectFacts
    <3>2. /\ place' = [place EXCEPT ![current[c]] = "queue"] /\ sync' = [sync EXCEPT ![current[c]] = p]
          /\ fence' = [fence EXCEPT ![p] = "reset"] /\ created' = created \cup {p}
          /\ Range(freeSyncs') = Range(freeSyncs) \ {p}
          /\ Range(stagingResourcesQueue') = Range(stagingResourcesQueue) \cup {current[c]}
          /\ UNCHANGED <<fpc, fqueue, dpc, lost, stop_thread>> /\ pc[t] = "collect"
      BY <1>8, <3>1 DEF SubmitCollect, CollectPair
    <3>3. dpc = "none"
      BY <1>0, <3>2 DEF CallState
    <3>4. current[c] \in Batches /\ place[current[c]] = "cb"
      BY <1>0, <2>2 DEF TypeOK, BatchOwnership
    <3>5. sync[current[c]] = None
      BY <1>0, <3>4 DEF PairOwnership, Handed
    <3>6. /\ \A b \in Batches : place'[b] = "queue" => b \in Range(stagingResourcesQueue')
          /\ \A b \in Batches : place'[b] = "local" => b \in Range(fqueue')
      BY <1>0, <3>2, <3>4 DEF TypeOK, Closing
    <3>7. sync'[current[c]] = p /\ \A b \in Batches : sync[b] # None => sync'[b] = sync[b]
      BY <1>0, <3>2, <3>4, <3>5 DEF TypeOK
    <3>8. \A q \in created' : q # None
      BY <1>0, <3>2, LifecycleAssumption DEF TypeOK
    <3>9. \A q \in created' : q \in Range(freeSyncs') \/ \E b \in Batches : sync'[b] = q
      <4>1. ASSUME NEW q \in created, q # p, q \notin Range(freeSyncs)
            PROVE  \E b \in Batches : sync'[b] = q
        <5>1. PICK b \in Batches : sync[b] = q
          BY <1>0, <4>1 DEF Closing
        <5>2. q # None
          BY <3>2, <3>8
        <5> QED BY <3>7, <5>1, <5>2
      <4> QED BY <3>2, <3>4, <3>7, <4>1
    <3> QED BY <3>2, <3>3, <3>6, <3>9 DEF Closing
  <2> QED BY <2>1, <2>2
<1>9. ASSUME NEW t \in Threads, SubmitUnlock(t) PROVE Closing'
  BY <1>0, <1>9 DEF SubmitUnlock, Closing
<1>10. ASSUME NEW t \in Threads, SubmitNotify(t) PROVE Closing'
  BY <1>0, <1>10 DEF SubmitNotify, WakeFinalizer, Closing
<1>11. ASSUME NEW t \in Threads, SubmitAccepted(t) PROVE Closing'
  BY <1>0, <1>11 DEF SubmitAccepted, Closing
<1>12. ASSUME NEW t \in Threads, SubmitRefused(t) PROVE Closing'
  BY <1>0, <1>12 DEF SubmitRefused, Closing
<1>13. ASSUME NEW t \in Threads, FenceAccepted(t) PROVE Closing'
  BY <1>0, <1>13 DEF FenceAccepted, TypeOK, CallState, Closing
<1>14. ASSUME NEW t \in Threads, FenceRefused(t) PROVE Closing'
  BY <1>0, <1>14 DEF FenceRefused, Closing
<1>15. ASSUME NEW t \in Threads, SubmitReturn(t) PROVE Closing'
  BY <1>0, <1>15 DEF SubmitReturn, Closing
<1>16. ASSUME NEW c \in CmdBufs, GpuComplete(c) PROVE Closing'
  BY <1>0, <1>16 DEF GpuComplete, Closing
<1>17. ASSUME NEW p \in Syncs, GpuFence(p) PROVE Closing'
  BY <1>0, <1>17 DEF GpuFence, Closing
<1>18. ASSUME DeviceLost PROVE Closing'
  BY <1>0, <1>18 DEF DeviceLost, Closing
<1>19. ASSUME FinTop PROVE Closing'
  BY <1>0, <1>19 DEF FinTop, Closing
<1>20. ASSUME FinAcquire PROVE Closing'
  BY <1>0, <1>20, EmptyFacts DEF FinAcquire, TypeOK, BatchOwnership, Closing
<1>21. ASSUME FinBlock PROVE Closing'
  BY <1>0, <1>21 DEF FinBlock, Closing
<1>22. ASSUME FinSpuriousWake PROVE Closing'
  BY <1>0, <1>22 DEF FinSpuriousWake, Closing
<1>23. ASSUME FinDrain PROVE Closing'
  <2>1. fpc' # "exited" /\ fpc = "drain"
        /\ UNCHANGED <<dpc, lost, fence, stagingResourcesQueue, created, freeSyncs, sync, givenUp, idleFailed>>
    BY <1>23 DEF FinDrain
  <2>2. dpc \notin {"joined", "locked", "relock", "done"}
    BY <1>0, <2>1 DEF Closing
  <2>3. /\ \A b \in Batches : place'[b] = "queue" => b \in Range(stagingResourcesQueue)
        /\ \A b \in Batches : place'[b] = "local" => b \in Range(fqueue')
    <3>1. CASE fqueue = <<>>
      BY <1>0, <1>23, <3>1 DEF FinDrain, Closing
    <3>2. CASE fqueue # <<>>
      <4>1. fqueue \in Seq(Batches)
        BY <1>0 DEF TypeOK
      <4>2. Last(fqueue) \in Batches /\ Range(fqueue) = Range(Front(fqueue)) \cup {Last(fqueue)}
        BY <3>2, <4>1, PopFacts
      <4>3. fqueue' = Front(fqueue) /\ place' = [place EXCEPT ![Last(fqueue)] = "cur"]
        BY <1>23, <3>2 DEF FinDrain
      <4> QED BY <1>0, <4>2, <4>3 DEF TypeOK, Closing
    <3> QED BY <3>1, <3>2
  <2> QED BY <1>0, <2>1, <2>2, <2>3 DEF Closing
<1>24. ASSUME FinWait PROVE Closing'
  BY <1>0, <1>24 DEF FinWait, Closing
<1>25. ASSUME FinRelease PROVE Closing'
  BY <1>0, <1>25, AppendFacts DEF FinRelease, TypeOK, BatchOwnership, PairOwnership, SyncExclusive, Handed, Closing
<1>26. ASSUME FinFree PROVE Closing'
  BY <1>0, <1>26 DEF FinFree, Closing
<1>27. ASSUME DestroyStop PROVE Closing'
  BY <1>0, <1>27 DEF DestroyStop, Closing
<1>28. ASSUME DestroyNotify PROVE Closing'
  BY <1>0, <1>28 DEF DestroyNotify, WakeFinalizer, Closing
<1>29. ASSUME DestroyWaitIdle PROVE Closing'
  BY <1>0, <1>29 DEF DestroyWaitIdle, Closing
<1>30. ASSUME DestroyJoin PROVE Closing'
  BY <1>0, <1>30 DEF DestroyJoin, Closing
<1>31. ASSUME DestroyLock PROVE Closing'
  BY <1>0, <1>31 DEF DestroyLock, Closing
<1>32. ASSUME DestroyRelock PROVE Closing'
  BY <1>0, <1>32 DEF DestroyRelock, Closing
<1>33. ASSUME DestroyFinish PROVE Closing'
  BY <1>0, <1>33 DEF DestroyFinish, Closing
<1>34. ASSUME FinWaitFails PROVE Closing'
  BY <1>0, <1>34 DEF FinWaitFails, Closing
<1>35. ASSUME DestroyWaitIdleFails PROVE Closing'
  BY <1>0, <1>35 DEF DestroyWaitIdleFails, Closing
<1>36. ASSUME NEW p \in Syncs, GpuFenceReused(p) PROVE Closing'
  BY <1>0, <1>36 DEF GpuFenceReused, Closing
<1> QED
  BY <1>1, <1>2, <1>3, <1>4, <1>5, <1>6, <1>7, <1>8, <1>9, <1>10, <1>11, <1>12, <1>13, <1>14, <1>15, <1>16, <1>17, <1>18, <1>19, <1>20, <1>21, <1>22, <1>23, <1>24, <1>25, <1>26, <1>27, <1>28, <1>29, <1>30, <1>31, <1>32, <1>33, <1>34, <1>35, <1>36
  DEF Next, CommandBufferStep, SubmitStep, GpuStep, FinLockFree, DestroyStep

-----------------------------------------------------------------------------
LEMMA InitGInv == Init => GInv /\ Closing
<1> SUFFICES ASSUME Init PROVE GInv /\ Closing
  OBVIOUS
<1> USE DEF Init
<1>1. CallState /\ RecordedUnique
  BY DEF CallState, RecordedUnique
<1>2. CallPairs /\ PairProgress /\ Signals
  BY EmptyFacts DEF CallPairs, PairProgress, Signals
<1>3. InUse
  BY DEF InUse, Relevant
<1>4. Closing
  BY DEF Closing
<1> QED BY <1>1, <1>2, <1>3, <1>4 DEF GInv

\* A device that is calm after a step was calm before it.
LEMMA CalmBefore == IInv /\ GInv /\ Next /\ Calm' => Calm
BY DEF Next, CommandBufferStep, SubmitStep, GpuStep, FinLockFree, DestroyStep, Calm,
       AllocateCommandBuffer, FreeCommandBuffer, DestroyCommandPool, BeginCommandBuffer,
       ResetCommandBuffer, RecordCopy, SubmitEnter, SubmitCollect, SubmitUnlock, SubmitNotify,
       SubmitAccepted, SubmitRefused, FenceAccepted, FenceRefused, SubmitReturn, GpuComplete,
       GpuFence, GpuFenceReused, DeviceLost, FinTop, FinAcquire, FinBlock, FinSpuriousWake, FinDrain,
       FinWait, FinWaitFails,
       FinRelease, FinFree, DestroyStop, DestroyNotify, DestroyWaitIdle, DestroyWaitIdleFails, DestroyJoin,
       DestroyLock, DestroyRelock, DestroyFinish,
       cmdVars, batchVars, poolVars, gpuVars, threadVars, finVars, dtorVars,
       histVars, cbFrame, callFrame, finFrame, dtorFrame

LEMMA StutterGInv == GInv /\ Closing /\ UNCHANGED vars => GInv' /\ Closing'
<1> SUFFICES ASSUME GInv, Closing, UNCHANGED vars PROVE GInv' /\ Closing'
  OBVIOUS
<1> USE DEF vars, cmdVars, batchVars, poolVars, gpuVars, threadVars, finVars, dtorVars, histVars
<1>1. CallState' <=> CallState
  BY DEF CallState
<1>2. RecordedUnique' <=> RecordedUnique
  BY DEF RecordedUnique
<1>3. Calm' <=> Calm
  BY DEF Calm
<1>4. (CallPairs' <=> CallPairs) /\ (PairProgress' <=> PairProgress) /\ (Signals' <=> Signals)
  BY DEF CallPairs, PairProgress, Signals
<1>5. InUse' <=> InUse
  BY DEF InUse, Relevant, Unfinished, Unguarded, Handed
<1>6. Closing'
  BY DEF Closing
<1> QED BY <1>1, <1>2, <1>3, <1>4, <1>5, <1>6 DEF GInv

\* The facts about calls, pairs and batches hold in every reachable state.
THEOREM Progress == Spec => [](GInv /\ Closing)
<1>1. IInv /\ GInv /\ Closing /\ Next => GInv' /\ Closing'
  <2> SUFFICES ASSUME IInv, GInv, Closing, Next PROVE GInv' /\ Closing'
    OBVIOUS
  <2>1. Calm' => CallPairs' /\ PairProgress' /\ Signals'
    BY CalmBefore, CallPairsStep, PairProgressStep, SignalsStep
  <2>2. Calm' /\ ~Reuse => InUse'
    BY CalmBefore, InUseStep
  <2> QED BY <2>1, <2>2, CallStateStep, RecordedStep, ClosingStep DEF GInv
<1>2. IInv /\ GInv /\ Closing /\ [Next]_vars => GInv' /\ Closing'
  BY <1>1, StutterGInv
<1> QED BY <1>2, InitGInv, Ownership, PTL DEF Spec

-----------------------------------------------------------------------------
\* A pair in SyncPool has a signalled fence and an idle semaphore, so resetting
\* the fence and reusing the semaphore is valid, as long as the device lives:
\* but for the pairs whose own wait failed, which WaitForCompletion takes for
\* completion.  A failed wait spoils no other pair.
THEOREM PoolStaysClean == Spec => []PoolClean
<1>1. TypeOK /\ GInv => PoolClean
  <2> SUFFICES ASSUME TypeOK, GInv, ~lost, ~stop_thread, NEW p \in Range(freeSyncs) \ givenUp
               PROVE  fence[p] = "signaled" /\ sem[p] = "idle"
    BY DEF PoolClean
  <2>1. PairProgress
    BY DEF GInv, Calm, CallState
  <2>2. p \in Syncs
    BY RangeIndex DEF TypeOK
  <2> QED BY <2>1, <2>2 DEF PairProgress
<1> QED BY <1>1, TypeCorrect, Progress, PTL

\* The GPU never runs commands whose staging resources are gone, provided the
\* application does not submit a command buffer again without recording it: but
\* for a batch that was freed on the word of a wait that failed, its own or an
\* earlier one for the pair it was given.
THEOREM ResourcesOutliveUse == ASSUME ~Reuse PROVE Spec => []NoUseAfterFree
<1>1. IInv /\ GInv => NoUseAfterFree
  <2> SUFFICES ASSUME IInv, GInv, NEW c \in CmdBufs, exec[c], recorded[c] # None,
                      recorded[c] \notin adrift
               PROVE  place[recorded[c]] # "none"
    BY DEF NoUseAfterFree
  <2>1. InUse /\ c \in Relevant
    BY DEF GInv, CallState, Calm, Relevant
  <2>2. recorded[c] \in Unfinished \/ sync[recorded[c]] \in givenUp
    BY <2>1 DEF InUse, Unguarded
  <2>3. recorded[c] \in Batches /\ None \notin givenUp
    BY LifecycleAssumption DEF IInv, TypeOK
  <2>4. Handed(recorded[c])
    BY <2>2, <2>3 DEF Unfinished, IInv, PairOwnership
  <2> QED BY <2>4 DEF Handed
<1> QED BY <1>1, Ownership, Progress, PTL

\* When DestroyDevice returns nothing handed over is left unfreed, every pair is
\* back in the pool, and no submission that signals a fence is outstanding: but on
\* a lost device, after a DeviceWaitIdle that failed, and for pairs given up.
THEOREM ShutdownLeavesNothing == Spec => []ShutdownReclaims
<1>1. IInv /\ GInv /\ Closing => ShutdownReclaims
  <2> SUFFICES ASSUME IInv, GInv, Closing, dpc = "done"
               PROVE  /\ \A b \in Batches : ~Handed(b)
                      /\ Range(freeSyncs) = created
                      /\ lost \/ idleFailed \/ \A p \in created \ givenUp : fence[p] # "pending"
    BY DEF ShutdownReclaims
  <2>1. TypeOK /\ BatchOwnership /\ PairOwnership
    BY DEF IInv
  <2>2. fpc = "exited" /\ stagingResourcesQueue = <<>> /\ fqueue = <<>> /\ cur = None
    BY <2>1 DEF Closing, BatchOwnership
  <2>3. \A b \in Batches : ~Handed(b)
    <3>1. \A b \in Batches : place[b] # "queue" /\ place[b] # "local"
      BY <2>2, EmptyFacts DEF Closing
    <3>2. \A b \in Batches : place[b] # "cur"
      BY <2>1, <2>2, LifecycleAssumption DEF BatchOwnership
    <3> QED BY <3>1, <3>2 DEF Handed
  <2>4. \A b \in Batches : sync[b] = None
    BY <2>1, <2>3 DEF PairOwnership
  <2>5. created \subseteq Syncs /\ None \notin created
    BY <2>1, LifecycleAssumption DEF TypeOK
  <2>6. Range(freeSyncs) = created
    BY <2>1, <2>4, <2>5 DEF Closing, PairOwnership
  <2>7. lost \/ idleFailed \/ \A p \in created \ givenUp : fence[p] # "pending"
    BY <2>5 DEF Closing
  <2> QED BY <2>3, <2>6, <2>7
<1> QED BY <1>1, Ownership, Progress, PTL

-----------------------------------------------------------------------------
(* The refinement: what the layer does to a batch is one of the moves that    *)
(* StagingReclamation allows, or none.                                       *)

\* A semaphore that is promised has a pending command buffer that will signal
\* it, and a call that has not submitted yet has the command buffers for its
\* pairs.  Unlike Signals this survives the end of Calm.
Promises ==
  /\ \A p \in Syncs : sem[p] = "promised" => lost \/ \E c \in CmdBufs : exec[c] /\ sigOf[c] = p
  /\ \A t \in Threads : pc[t] # "fences" =>
       \A p \in Range(stagingFences[t]) : \E c \in subs[t] \ todo[t] : sigOf[c] = p

\* Every action keeps promises and pairs with the command buffers they belong to.
LEMMA PromisesStep == IInv /\ GInv /\ Promises /\ Next => Promises'
<1> SUFFICES ASSUME IInv, GInv, Promises, Next PROVE Promises'
  OBVIOUS
<1> USE LifecycleAssumption
    DEF cmdVars, batchVars, poolVars, gpuVars, threadVars, finVars, dtorVars,
        histVars, cbFrame, callFrame, finFrame, dtorFrame
<1>0. TypeOK /\ CallState /\ Promises
  BY DEF IInv, GInv
<1>1. ASSUME NEW c \in CmdBufs, AllocateCommandBuffer(c) PROVE Promises'
  BY <1>0, <1>1 DEF AllocateCommandBuffer, Promises
<1>2. ASSUME NEW c \in CmdBufs, FreeCommandBuffer(c) PROVE Promises'
  BY <1>0, <1>2 DEF FreeCommandBuffer, Promises
<1>3. ASSUME NEW c \in CmdBufs, DestroyCommandPool(c) PROVE Promises'
  BY <1>0, <1>3 DEF DestroyCommandPool, Promises
<1>4. ASSUME NEW c \in CmdBufs, BeginCommandBuffer(c) PROVE Promises'
  BY <1>0, <1>4 DEF BeginCommandBuffer, Promises
<1>5. ASSUME NEW c \in CmdBufs, ResetCommandBuffer(c) PROVE Promises'
  BY <1>0, <1>5 DEF ResetCommandBuffer, Promises
<1>6. ASSUME NEW c \in CmdBufs, RecordCopy(c) PROVE Promises'
  BY <1>0, <1>6 DEF RecordCopy, Promises
<1>7. ASSUME NEW t \in Threads, SubmitEnter(t) PROVE Promises'
  <2>1. PICK cs \in (SUBSET CmdBufs) \ {{}} :
          /\ subs' = [subs EXCEPT ![t] = cs] /\ todo' = [todo EXCEPT ![t] = cs]
          /\ pc[t] = "idle" /\ pc' = [pc EXCEPT ![t] = "collect"]
          /\ UNCHANGED <<sem, exec, lost, sigOf, stagingFences>>
    BY <1>7 DEF SubmitEnter
  <2>2. stagingFences[t] = <<>>
    BY <1>0, <2>1 DEF CallState
  <2> QED BY <1>0, <2>1, <2>2, EmptyFacts DEF TypeOK, Promises
<1>8. ASSUME NEW t \in Threads, NEW c \in CmdBufs, SubmitCollect(t, c) PROVE Promises'
  <2>1. /\ pc[t] = "collect" /\ c \in todo[t] /\ todo' = [todo EXCEPT ![t] = @ \ {c}]
        /\ UNCHANGED <<sem, exec, lost, subs, pc>>
    BY <1>8 DEF SubmitCollect
  <2>2. c \in subs[t] /\ ~exec[c] /\ \A u \in Threads : u # t => c \notin subs[u]
    BY <1>0, <2>1 DEF CallState
  <2>3. \E v \in Syncs \cup {None} : sigOf' = [sigOf EXCEPT ![c] = v]
    BY <1>8 DEF SubmitCollect
  <2>4. \A d \in CmdBufs : d # c => sigOf'[d] = sigOf[d]
    BY <2>3
  <2>5. \A p \in Syncs : sem'[p] = "promised" => lost' \/ \E d \in CmdBufs : exec'[d] /\ sigOf'[d] = p
    BY <1>0, <2>1, <2>2, <2>4 DEF Promises
  <2>6. ASSUME NEW u \in Threads, pc'[u] # "fences", NEW p \in Range(stagingFences[u])
        PROVE  \E d \in subs'[u] \ todo'[u] : sigOf'[d] = p
    <3>1. PICK d \in subs[u] \ todo[u] : sigOf[d] = p
      BY <1>0, <2>1, <2>6 DEF Promises
    <3>2. d # c /\ d \in CmdBufs
      BY <1>0, <2>1, <2>2, <3>1 DEF TypeOK
    <3> QED BY <1>0, <2>1, <2>4, <3>1, <3>2 DEF TypeOK
  <2>7. CASE current[c] = None
    BY <1>8, <2>1, <2>5, <2>6, <2>7 DEF SubmitCollect, Promises
  <2>8. CASE current[c] # None
    <3>1. PICK p \in Syncs : CollectPair(t, c, p)
      BY <1>8, <2>8, CollectFacts
    <3>2. sigOf'[c] = p /\ c \in subs'[t] \ todo'[t]
      BY <1>0, <2>1, <2>2, <3>1 DEF CollectPair, TypeOK
    <3>3. \A u \in Threads : \A q \in Range(stagingFences'[u]) :
             q \in Range(stagingFences[u]) \/ (u = t /\ q = p)
      BY <3>1 DEF CollectPair
    <3> QED BY <2>5, <2>6, <3>2, <3>3 DEF Promises
  <2> QED BY <2>7, <2>8
<1>9. ASSUME NEW t \in Threads, SubmitUnlock(t) PROVE Promises'
  BY <1>0, <1>9 DEF SubmitUnlock, TypeOK, Promises
<1>10. ASSUME NEW t \in Threads, SubmitNotify(t) PROVE Promises'
  BY <1>0, <1>10 DEF SubmitNotify, WakeFinalizer, TypeOK, Promises
<1>11. ASSUME NEW t \in Threads, SubmitAccepted(t) PROVE Promises'
  <2>1. /\ pc[t] = "submit" /\ pc' = [pc EXCEPT ![t] = "fences"]
        /\ exec' = [c \in CmdBufs |-> exec[c] \/ c \in subs[t]]
        /\ sem' = [p \in Syncs |-> IF p \in Range(stagingFences[t]) THEN "promised" ELSE sem[p]]
        /\ subs' = [subs EXCEPT ![t] = {}]
        /\ UNCHANGED <<lost, todo, stagingFences, sigOf>>
    BY <1>11 DEF SubmitAccepted
  <2>2. subs[t] \subseteq CmdBufs
    BY <1>0 DEF TypeOK
  <2>3. ASSUME NEW p \in Syncs, sem'[p] = "promised", ~lost'
        PROVE  \E c \in CmdBufs : exec'[c] /\ sigOf'[c] = p
    <3>1. CASE p \in Range(stagingFences[t])
      <4>1. PICK c \in subs[t] \ todo[t] : sigOf[c] = p
        BY <1>0, <2>1, <3>1 DEF Promises
      <4> QED BY <2>1, <2>2, <4>1
    <3>2. CASE p \notin Range(stagingFences[t])
      <4>1. PICK c \in CmdBufs : exec[c] /\ sigOf[c] = p
        BY <1>0, <2>1, <2>3, <3>2 DEF Promises
      <4> QED BY <2>1, <4>1
    <3> QED BY <3>1, <3>2
  <2> QED BY <1>0, <2>1, <2>3 DEF TypeOK, Promises
<1>12. ASSUME NEW t \in Threads, SubmitRefused(t) PROVE Promises'
  <2>1. /\ subs' = [subs EXCEPT ![t] = {}] /\ stagingFences' = [stagingFences EXCEPT ![t] = <<>>]
        /\ pc' = [pc EXCEPT ![t] = "idle"] /\ UNCHANGED <<sem, exec, lost, todo, sigOf>>
    BY <1>12 DEF SubmitRefused
  <2> QED BY <1>0, <2>1, EmptyFacts DEF TypeOK, Promises
<1>13. ASSUME NEW t \in Threads, FenceAccepted(t) PROVE Promises'
  <2>1. /\ pc[t] = "fences" /\ stagingFences' = [stagingFences EXCEPT ![t] = Tail(@)]
        /\ UNCHANGED <<pc, sem, exec, lost, subs, todo, sigOf>>
    BY <1>13 DEF FenceAccepted
  <2> QED BY <1>0, <2>1 DEF TypeOK, Promises
<1>14. ASSUME NEW t \in Threads, FenceRefused(t) PROVE Promises'
  <2>1. /\ stagingFences' = [stagingFences EXCEPT ![t] = <<>>]
        /\ pc' = [pc EXCEPT ![t] = "idle"] /\ UNCHANGED <<sem, exec, lost, subs, todo, sigOf>>
    BY <1>14 DEF FenceRefused
  <2> QED BY <1>0, <2>1, EmptyFacts DEF TypeOK, Promises
<1>15. ASSUME NEW t \in Threads, SubmitReturn(t) PROVE Promises'
  <2>1. /\ stagingFences[t] = <<>>
        /\ pc' = [pc EXCEPT ![t] = "idle"] /\ UNCHANGED <<sem, exec, lost, subs, todo, sigOf, stagingFences>>
    BY <1>15 DEF SubmitReturn
  <2> QED BY <1>0, <2>1, EmptyFacts DEF TypeOK, Promises
<1>16. ASSUME NEW c \in CmdBufs, GpuComplete(c) PROVE Promises'
  BY <1>0, <1>16 DEF GpuComplete, TypeOK, Promises
<1>17. ASSUME NEW p \in Syncs, GpuFence(p) PROVE Promises'
  BY <1>0, <1>17 DEF GpuFence, TypeOK, Promises
<1>18. ASSUME DeviceLost PROVE Promises'
  BY <1>0, <1>18 DEF DeviceLost, Promises
<1>19. ASSUME FinTop PROVE Promises'
  BY <1>0, <1>19 DEF FinTop, Promises
<1>20. ASSUME FinAcquire PROVE Promises'
  BY <1>0, <1>20 DEF FinAcquire, Promises
<1>21. ASSUME FinBlock PROVE Promises'
  BY <1>0, <1>21 DEF FinBlock, Promises
<1>22. ASSUME FinSpuriousWake PROVE Promises'
  BY <1>0, <1>22 DEF FinSpuriousWake, Promises
<1>23. ASSUME FinDrain PROVE Promises'
  BY <1>0, <1>23 DEF FinDrain, Promises
<1>24. ASSUME FinWait PROVE Promises'
  BY <1>0, <1>24 DEF FinWait, Promises
<1>25. ASSUME FinRelease PROVE Promises'
  BY <1>0, <1>25 DEF FinRelease, Promises
<1>26. ASSUME FinFree PROVE Promises'
  BY <1>0, <1>26 DEF FinFree, Promises
<1>27. ASSUME DestroyStop PROVE Promises'
  BY <1>0, <1>27 DEF DestroyStop, Promises
<1>28. ASSUME DestroyNotify PROVE Promises'
  BY <1>0, <1>28 DEF DestroyNotify, WakeFinalizer, Promises
<1>29. ASSUME DestroyWaitIdle PROVE Promises'
  BY <1>0, <1>29 DEF DestroyWaitIdle, Promises
<1>30. ASSUME DestroyJoin PROVE Promises'
  BY <1>0, <1>30 DEF DestroyJoin, Promises
<1>31. ASSUME DestroyLock PROVE Promises'
  BY <1>0, <1>31 DEF DestroyLock, Promises
<1>32. ASSUME DestroyRelock PROVE Promises'
  BY <1>0, <1>32 DEF DestroyRelock, Promises
<1>33. ASSUME DestroyFinish PROVE Promises'
  BY <1>0, <1>33 DEF DestroyFinish, Promises
<1>34. ASSUME FinWaitFails PROVE Promises'
  BY <1>0, <1>34 DEF FinWaitFails, Promises
<1>35. ASSUME DestroyWaitIdleFails PROVE Promises'
  BY <1>0, <1>35 DEF DestroyWaitIdleFails, Promises
<1>36. ASSUME NEW p \in Syncs, GpuFenceReused(p) PROVE Promises'
  BY <1>0, <1>36 DEF GpuFenceReused, Promises
<1> QED
  BY <1>1, <1>2, <1>3, <1>4, <1>5, <1>6, <1>7, <1>8, <1>9, <1>10, <1>11, <1>12, <1>13, <1>14, <1>15, <1>16, <1>17, <1>18, <1>19, <1>20, <1>21, <1>22, <1>23, <1>24, <1>25, <1>26, <1>27, <1>28, <1>29, <1>30, <1>31, <1>32, <1>33, <1>34, <1>35, <1>36
  DEF Next, CommandBufferStep, SubmitStep, GpuStep, FinLockFree, DestroyStep

-----------------------------------------------------------------------------
\* The stage of a batch, read off its owner, its pair and the driver.
StageRead(b) ==
  /\ place[b] = "none" => StageOf(b) = "idle"
  /\ place[b] = "cb" => StageOf(b) = "recording"
  /\ Handed(b) /\ sync[b] = None => StageOf(b) = "retired"
  /\ Handed(b) /\ sync[b] # None /\ lost => StageOf(b) = "handed"
  /\ Handed(b) /\ sync[b] # None /\ ~lost /\ sync[b] \in givenUp => StageOf(b) = "unknown"
  /\ Handed(b) /\ sync[b] # None /\ ~lost /\ sync[b] \notin givenUp =>
       /\ fence[sync[b]] = "signaled" \/ sem[sync[b]] = "signaled" => StageOf(b) = "executed"
       /\ fence[sync[b]] # "signaled" /\ sem[sync[b]] = "promised" => StageOf(b) = "executing"
       /\ fence[sync[b]] # "signaled" /\ sem[sync[b]] \notin {"promised", "signaled"}
            => StageOf(b) = "handed"

\* StageRead holds by the definition of StageOf, before and after a step.
LEMMA StageValues == ASSUME NEW b \in Batches PROVE StageRead(b) /\ StageRead(b)'
<1>1. StageRead(b)
  BY DEF StageRead, StageOf, Handed
<1>2. StageRead(b)'
  BY DEF StageRead, StageOf, Handed
<1> QED BY <1>1, <1>2

\* What the stage of a batch depends on.
LEMMA StageKept ==
  ASSUME NEW b \in Batches,
         place[b] \in {"none", "cb", "queue", "local", "cur"},
         place'[b] = place[b] \/ (Handed(b) /\ Handed(b)'),
         UNCHANGED <<lost, sync[b]>>,
         sync[b] \in givenUp' <=> sync[b] \in givenUp,
         Handed(b) /\ sync[b] \notin givenUp \cup {None} => UNCHANGED <<sem[sync[b]], fence[sync[b]]>>
  PROVE  StageOf(b)' = StageOf(b)
BY DEF StageOf, Handed

\* A step that changes no stage is no step of StagingReclamation.
LEMMA AbstractStutter ==
  ASSUME \A b \in Batches : StageOf(b)' = StageOf(b), UNCHANGED <<stop_thread, lost, givenUp>>
  PROVE  UNCHANGED Abstract!vars
BY DEF Abstract!vars

\* One batch moves, the others stay.
LEMMA AbstractMove ==
  ASSUME NEW b \in Batches, NEW from, NEW to,
         StageOf(b) \in from, StageOf(b)' = to,
         \A a \in Batches : a # b => StageOf(a)' = StageOf(a),
         UNCHANGED <<stop_thread, lost, givenUp>>
  PROVE  Abstract!Move({b}, from, to)
BY DEF Abstract!Move

\* A move of StagingReclamation, or none.
Mapped == Abstract!Next \/ UNCHANGED Abstract!vars

\* A command buffer gives up its batch: Drop, or nothing when it has none.
LEMMA DropMapped ==
  ASSUME IInv, ~stop_thread, NEW c \in CmdBufs, DropCurrent(c),
         UNCHANGED <<sync, sem, fence, lost, stop_thread, givenUp>>
  PROVE  Mapped
<1>0. TypeOK /\ BatchOwnership
  BY DEF IInv
<1>1. \A b \in Batches : b # current[c] => StageOf(b)' = StageOf(b)
  <2> SUFFICES ASSUME NEW b \in Batches, b # current[c] PROVE StageOf(b)' = StageOf(b)
    OBVIOUS
  <2>1. place'[b] = place[b]
    BY DEF DropCurrent
  <2> QED BY <1>0, <2>1, StageKept DEF TypeOK
<1>2. CASE current[c] = None
  <2>1. \A b \in Batches : StageOf(b)' = StageOf(b)
    BY <1>1, <1>2, LifecycleAssumption
  <2> QED BY <2>1, AbstractStutter DEF Mapped
<1>3. CASE current[c] # None
  <2>0. PICK b \in Batches : b = current[c]
    BY <1>0, <1>3 DEF TypeOK
  <2>1. place[b] = "cb" /\ place'[b] = "none"
    BY <1>0, <1>3, <2>0 DEF BatchOwnership, DropCurrent
  <2>2. StageOf(b) \in {"recording"} /\ StageOf(b)' = "idle"
    BY <2>1, StageValues DEF StageRead
  <2>3. Abstract!Move({b}, {"recording"}, "idle")
    BY <1>1, <2>0, <2>2, AbstractMove
  <2> QED BY <2>1, <2>3 DEF Mapped, Abstract!Next, Abstract!Drop
<1> QED BY <1>2, <1>3

\* Every action of the detailed specification is a move or none.
LEMMA RefineStep == IInv /\ GInv /\ Promises /\ Next => Mapped
<1> SUFFICES ASSUME IInv, GInv, Promises, Next PROVE Mapped
  OBVIOUS
<1> USE LifecycleAssumption
    DEF cmdVars, batchVars, poolVars, gpuVars, threadVars, finVars, dtorVars,
        histVars, cbFrame, callFrame, finFrame, dtorFrame
<1>0. TypeOK /\ BatchOwnership /\ PairOwnership /\ CallState /\ Promises
  BY DEF IInv, GInv
<1>a. ASSUME UNCHANGED <<place, sync, sem, fence, lost, stop_thread, givenUp>> PROVE Mapped
  <2>1. \A b \in Batches : StageOf(b)' = StageOf(b)
    BY <1>0, <1>a, StageKept DEF TypeOK
  <2> QED BY <1>a, <2>1, AbstractStutter DEF Mapped
<1>b. Calm => CallPairs /\ PairProgress /\ Signals
  BY DEF GInv
<1>1. ASSUME NEW c \in CmdBufs, AllocateCommandBuffer(c) PROVE Mapped
  BY <1>0, <1>1, DropMapped DEF AllocateCommandBuffer, Untouched, CallState
<1>2. ASSUME NEW c \in CmdBufs, FreeCommandBuffer(c) PROVE Mapped
  BY <1>0, <1>2, DropMapped DEF FreeCommandBuffer, Untouched, CallState
<1>3. ASSUME NEW c \in CmdBufs, DestroyCommandPool(c) PROVE Mapped
  BY <1>a, <1>3 DEF DestroyCommandPool
<1>4. ASSUME NEW c \in CmdBufs, BeginCommandBuffer(c) PROVE Mapped
  BY <1>a, <1>4 DEF BeginCommandBuffer
<1>5. ASSUME NEW c \in CmdBufs, ResetCommandBuffer(c) PROVE Mapped
  BY <1>a, <1>5 DEF ResetCommandBuffer
<1>6. ASSUME NEW c \in CmdBufs, RecordCopy(c) PROVE Mapped
  <2>1. PICK b \in Batches :
          /\ b = current[c] \/ (current[c] = None /\ place[b] = "none")
          /\ place' = [place EXCEPT ![b] = "cb"]
    BY <1>6 DEF RecordCopy
  <2>2. UNCHANGED <<sync, sem, fence, lost, stop_thread, givenUp>> /\ ~stop_thread
    BY <1>0, <1>6 DEF RecordCopy, Untouched, CallState
  <2>3. \A a \in Batches : a # b => StageOf(a)' = StageOf(a)
    BY <1>0, <2>1, <2>2, StageKept DEF TypeOK
  <2>4. place'[b] = "cb"
    BY <1>0, <2>1 DEF TypeOK
  <2>5. CASE b = current[c]
    <3>1. place[b] = "cb"
      BY <1>0, <2>5 DEF BatchOwnership
    <3>2. StageOf(b)' = StageOf(b)
      BY <2>4, <3>1, StageValues DEF StageRead
    <3> QED BY <2>2, <2>3, <3>2, AbstractStutter DEF Mapped
  <2>6. CASE place[b] = "none"
    <3>1. StageOf(b) \in {"idle"} /\ StageOf(b)' = "recording"
      BY <2>4, <2>6, StageValues DEF StageRead
    <3>2. Abstract!Move({b}, {"idle"}, "recording")
      BY <2>2, <2>3, <3>1, AbstractMove
    <3> QED BY <2>2, <3>2 DEF Mapped, Abstract!Next, Abstract!Fill
  <2> QED BY <2>1, <2>5, <2>6
<1>7. ASSUME NEW t \in Threads, SubmitEnter(t) PROVE Mapped
  BY <1>a, <1>7 DEF SubmitEnter
<1>8. ASSUME NEW t \in Threads, NEW c \in CmdBufs, SubmitCollect(t, c) PROVE Mapped
  <2>1. CASE current[c] = None
    BY <1>8, <1>a, <2>1 DEF SubmitCollect
  <2>2. CASE current[c] # None
    <3>1. PICK p \in Syncs : CollectPair(t, c, p)
      BY <1>8, <2>2, CollectFacts
    <3>0. PICK b \in Batches : b = current[c]
      BY <1>0, <2>2 DEF TypeOK
    <3>2. /\ place' = [place EXCEPT ![b] = "queue"] /\ sync' = [sync EXCEPT ![b] = p]
          /\ fence' = [fence EXCEPT ![p] = "reset"]
          /\ \A a \in Batches : sync[a] # p
          /\ p \in Range(freeSyncs) \/ p \notin created
          /\ UNCHANGED <<sem, lost, stop_thread, givenUp>> /\ pc[t] = "collect"
      BY <1>8, <3>0, <3>1 DEF SubmitCollect, CollectPair
    <3>3. place[b] = "cb"
      BY <1>0, <2>2, <3>0 DEF BatchOwnership
    <3>4. \A a \in Batches : a # b => StageOf(a)' = StageOf(a)
      BY <1>0, <3>2, StageKept DEF TypeOK
    <3>5. dpc = "none" /\ ~stop_thread
      BY <1>0, <3>2 DEF CallState
    <3>6. ~lost => p \in givenUp \/ sem[p] = "idle"
      BY <1>0, <1>b, <3>2, <3>5 DEF Calm, PairProgress, PairOwnership
    <3>7. place'[b] = "queue" /\ sync'[b] = p /\ p # None /\ fence'[p] = "reset"
      BY <1>0, <3>2 DEF TypeOK
    <3>8. StageOf(b) \in {"recording"} /\ Handed(b)'
      BY <3>3, <3>7, StageValues DEF StageRead, Handed
    <3>9. CASE lost \/ p \notin givenUp
      <4>1. StageOf(b)' = "handed"
        <5>1. CASE lost
          BY <3>2, <3>7, <3>8, <5>1, StageValues DEF StageRead
        <5>2. CASE ~lost /\ p \notin givenUp
          BY <3>2, <3>6, <3>7, <3>8, <5>2, StageValues DEF StageRead
        <5> QED BY <3>9, <5>1, <5>2
      <4>2. Abstract!Move({b}, {"recording"}, "handed")
        BY <3>2, <3>4, <3>8, <4>1, AbstractMove
      <4> QED BY <3>5, <4>2 DEF Mapped, Abstract!Next, Abstract!HandOver
    <3>10. CASE ~lost /\ p \in givenUp
      <4>1. StageOf(b)' = "unknown"
        BY <3>2, <3>7, <3>8, <3>10, StageValues DEF StageRead
      <4>2. Abstract!Move({b}, {"recording"}, "unknown")
        BY <3>2, <3>4, <3>8, <4>1, AbstractMove
      <4>3. givenUp # {}
        BY <3>10
      <4> QED BY <3>5, <4>2, <4>3 DEF Mapped, Abstract!Next, Abstract!HandOver
    <3> QED BY <3>9, <3>10
  <2> QED BY <2>1, <2>2
<1>9. ASSUME NEW t \in Threads, SubmitUnlock(t) PROVE Mapped
  BY <1>a, <1>9 DEF SubmitUnlock
<1>10. ASSUME NEW t \in Threads, SubmitNotify(t) PROVE Mapped
  BY <1>a, <1>10 DEF SubmitNotify, WakeFinalizer
<1>11. ASSUME NEW t \in Threads, SubmitAccepted(t) PROVE Mapped
  <2>1. /\ pc[t] = "submit" /\ ~lost /\ UNCHANGED <<place, sync, fence, lost, stop_thread, givenUp>>
        /\ sem' = [p \in Syncs |-> IF p \in Range(stagingFences[t]) THEN "promised" ELSE sem[p]]
    BY <1>11 DEF SubmitAccepted
  <2>2. ~stop_thread /\ CallPairs
    BY <1>0, <1>b, <2>1 DEF CallState, Calm
  <2> DEFINE B == {b \in Batches : sync[b] # None /\ sync[b] \in Range(stagingFences[t]) \ givenUp}
  <2>3. ASSUME NEW b \in B PROVE StageOf(b) = "handed" /\ StageOf(b)' = "executing"
    <3>1. b \in Batches /\ sync[b] # None /\ sync[b] \in Syncs /\ Handed(b) /\ Handed(b)'
      BY <1>0, <2>1 DEF TypeOK, PairOwnership, Handed
    <3>2. fence[sync[b]] = "reset" /\ sem[sync[b]] = "idle" /\ sem'[sync[b]] = "promised"
      BY <2>1, <2>2, <3>1 DEF CallPairs
    <3>3. fence'[sync'[b]] = "reset" /\ sem'[sync'[b]] = "promised" /\ sync'[b] # None
      BY <2>1, <3>1, <3>2
    <3>4. StageOf(b) = "handed"
      BY <2>1, <3>1, <3>2, StageValues DEF StageRead
    <3>5. StageOf(b)' = "executing"
      BY <2>1, <3>1, <3>3, StageValues DEF StageRead
    <3> QED BY <3>4, <3>5
  <2>4. ASSUME NEW b \in Batches \ B PROVE StageOf(b)' = StageOf(b)
    <3>1. sync[b] \notin givenUp \cup {None} => sem'[sync[b]] = sem[sync[b]]
      BY <1>0, <2>1, <2>4 DEF TypeOK
    <3> QED BY <1>0, <2>1, <3>1, StageKept DEF TypeOK
  <2> HIDE DEF B
  <2>5. B \in SUBSET Batches
    BY DEF B
  <2>6. Abstract!Move(B, {"handed"}, "executing")
    BY <2>1, <2>3, <2>4, <2>5 DEF Abstract!Move
  <2> QED BY <2>1, <2>2, <2>5, <2>6 DEF Mapped, Abstract!Next, Abstract!Start
<1>12. ASSUME NEW t \in Threads, SubmitRefused(t) PROVE Mapped
  BY <1>a, <1>12 DEF SubmitRefused
<1>13. ASSUME NEW t \in Threads, FenceAccepted(t) PROVE Mapped
  <2>1. /\ pc[t] = "fences" /\ stagingFences[t] # <<>> /\ ~lost
        /\ fence' = [fence EXCEPT ![Head(stagingFences[t])] = "pending"]
        /\ UNCHANGED <<place, sync, sem, lost, stop_thread, givenUp>>
    BY <1>13 DEF FenceAccepted
  <2>2. CallPairs
    BY <1>0, <1>b, <2>1 DEF CallState, Calm
  <2>3. Head(stagingFences[t]) \in Syncs /\ Head(stagingFences[t]) \in Range(stagingFences[t])
    BY <1>0, <2>1, TailFacts DEF TypeOK
  <2>4. /\ Head(stagingFences[t]) \notin givenUp => fence[Head(stagingFences[t])] = "reset"
        /\ fence'[Head(stagingFences[t])] = "pending"
        /\ \A p \in Syncs : p # Head(stagingFences[t]) => fence'[p] = fence[p]
    BY <1>0, <2>1, <2>2, <2>3 DEF CallPairs, TypeOK
  <2>5. ASSUME NEW b \in Batches PROVE StageOf(b)' = StageOf(b)
    <3>1. CASE sync[b] = Head(stagingFences[t]) /\ sync[b] \notin givenUp
      BY <2>1, <2>4, <3>1 DEF StageOf, Handed
    <3>2. CASE sync[b] # Head(stagingFences[t]) \/ sync[b] \in givenUp
      <4>1. sync[b] \notin givenUp \cup {None} => fence'[sync[b]] = fence[sync[b]]
        BY <1>0, <2>4, <3>2 DEF TypeOK
      <4> QED BY <1>0, <2>1, <4>1, StageKept DEF TypeOK
    <3> QED BY <3>1, <3>2
  <2> QED BY <2>1, <2>5, AbstractStutter DEF Mapped
<1>14. ASSUME NEW t \in Threads, FenceRefused(t) PROVE Mapped
  BY <1>a, <1>14 DEF FenceRefused
<1>15. ASSUME NEW t \in Threads, SubmitReturn(t) PROVE Mapped
  BY <1>a, <1>15 DEF SubmitReturn
<1>16. ASSUME NEW c \in CmdBufs, GpuComplete(c) PROVE Mapped
  <2>1. /\ exec[c] /\ UNCHANGED <<place, sync, fence, lost, stop_thread, givenUp>>
        /\ sem' = [p \in Syncs |-> IF p = sigOf[c] THEN "signaled" ELSE sem[p]]
    BY <1>16 DEF GpuComplete
  <2>2. ~lost /\ PairProgress /\ Signals
    BY <1>0, <1>b, <2>1 DEF CallState, Calm
  <2>3. ASSUME NEW b \in Batches, sync[b] # sigOf[c] \/ sync[b] \in givenUp
        PROVE  StageOf(b)' = StageOf(b)
    <3>1. sync[b] \notin givenUp \cup {None} => sem'[sync[b]] = sem[sync[b]]
      BY <1>0, <2>1, <2>3 DEF TypeOK
    <3> QED BY <1>0, <2>1, <3>1, StageKept DEF TypeOK
  <2>4. CASE sigOf[c] = None
    <3>1. sem' = sem
      BY <1>0, <2>1, <2>4 DEF TypeOK
    <3> QED BY <1>a, <2>1, <3>1
  <2>5. CASE sigOf[c] # None /\ \A b \in Batches : sync[b] # sigOf[c] \/ sync[b] \in givenUp
    BY <2>1, <2>3, <2>5, AbstractStutter DEF Mapped
  <2>6. ASSUME sigOf[c] # None, NEW b \in Batches, sync[b] = sigOf[c], sync[b] \notin givenUp
        PROVE  Mapped
    <3>1. /\ sync[b] \in Syncs /\ sync[b] # None /\ sync'[b] = sync[b]
          /\ Handed(b) /\ Handed(b)'
      BY <1>0, <2>1, <2>6 DEF TypeOK, PairOwnership, Handed
    <3>2. sem[sync[b]] = "promised" /\ fence[sync[b]] # "signaled" /\ sem'[sync'[b]] = "signaled"
      BY <2>1, <2>2, <2>6, <3>1 DEF PairProgress, Signals
    <3>3. StageOf(b) \in {"executing"}
      BY <2>2, <2>6, <3>1, <3>2, StageValues DEF StageRead
    <3>4. StageOf(b)' = "executed"
      BY <2>1, <2>2, <2>6, <3>1, <3>2, StageValues DEF StageRead
    <3>5. \A a \in Batches : a # b => sync[a] # sigOf[c]
      BY <1>0, <2>6 DEF PairOwnership, SyncExclusive
    <3>6. Abstract!Move({b}, {"executing"}, "executed")
      BY <2>1, <2>3, <3>3, <3>4, <3>5, AbstractMove
    <3> QED BY <2>2, <3>6 DEF Mapped, Abstract!Next, Abstract!Finish
  <2> QED BY <2>4, <2>5, <2>6
<1>17. ASSUME NEW p \in Syncs, GpuFence(p) PROVE Mapped
  <2>1. /\ fence[p] = "pending" /\ sem[p] = "signaled" /\ ~lost
        /\ fence' = [fence EXCEPT ![p] = "signaled"] /\ sem' = [sem EXCEPT ![p] = "idle"]
        /\ UNCHANGED <<place, sync, lost, stop_thread, givenUp>>
    BY <1>17 DEF GpuFence
  <2>2. /\ fence'[p] = "signaled"
        /\ \A q \in Syncs : q # p => fence'[q] = fence[q] /\ sem'[q] = sem[q]
    BY <1>0, <2>1 DEF TypeOK
  <2>3. ASSUME NEW b \in Batches PROVE StageOf(b)' = StageOf(b)
    <3>1. CASE sync[b] = p
      BY <2>1, <2>2, <3>1 DEF StageOf, Handed
    <3>2. CASE sync[b] # p
      <4>1. sync[b] # None => UNCHANGED <<sem[sync[b]], fence[sync[b]]>>
        BY <1>0, <2>1, <2>2, <3>2 DEF TypeOK
      <4> QED BY <1>0, <2>1, <4>1, StageKept DEF TypeOK
    <3> QED BY <3>1, <3>2
  <2> QED BY <2>1, <2>3, AbstractStutter DEF Mapped
<1>18. ASSUME DeviceLost PROVE Mapped
  <2>1. ~lost /\ lost' /\ UNCHANGED <<place, sync, sem, fence, stop_thread, givenUp>>
    BY <1>18 DEF DeviceLost
  <2>2. \A b \in Batches :
           StageOf(b)' = IF StageOf(b) \in {"executing", "executed", "unknown"} THEN "handed" ELSE StageOf(b)
    BY <1>0, <2>1 DEF StageOf, Handed, TypeOK
  <2>3. Abstract!Lose
    BY <1>18, <2>1, <2>2 DEF Abstract!Lose, DeviceLost
  <2> QED BY <2>3 DEF Mapped, Abstract!Next
<1>19. ASSUME FinTop PROVE Mapped
  BY <1>a, <1>19 DEF FinTop
<1>20. ASSUME FinAcquire PROVE Mapped
  <2>1. UNCHANGED <<sync, sem, fence, lost, stop_thread, givenUp>>
    BY <1>20 DEF FinAcquire
  <2>2. \A b \in Batches : place'[b] = place[b] \/ (Handed(b) /\ Handed(b)')
    BY <1>20 DEF FinAcquire, Handed
  <2>3. \A b \in Batches : StageOf(b)' = StageOf(b)
    BY <1>0, <2>1, <2>2, StageKept DEF TypeOK
  <2> QED BY <2>1, <2>3, AbstractStutter DEF Mapped
<1>21. ASSUME FinBlock PROVE Mapped
  BY <1>a, <1>21 DEF FinBlock
<1>22. ASSUME FinSpuriousWake PROVE Mapped
  BY <1>a, <1>22 DEF FinSpuriousWake
<1>23. ASSUME FinDrain PROVE Mapped
  <2>1. UNCHANGED <<sync, sem, fence, lost, stop_thread, givenUp>>
    BY <1>23 DEF FinDrain
  <2>2. \A b \in Batches : place'[b] = place[b] \/ (Handed(b) /\ Handed(b)')
    <3>1. CASE fqueue = <<>>
      BY <1>23, <3>1 DEF FinDrain
    <3>2. CASE fqueue # <<>>
      <4>1. place' = [place EXCEPT ![Last(fqueue)] = "cur"]
        BY <1>23, <3>2 DEF FinDrain
      <4>2. Last(fqueue) \in Batches /\ Last(fqueue) \in Range(fqueue)
        <5>1. fqueue \in Seq(Batches)
          BY <1>0 DEF TypeOK
        <5>2. Last(fqueue) \in Batches /\ Range(fqueue) = Range(Front(fqueue)) \cup {Last(fqueue)}
          BY <3>2, <5>1, PopFacts
        <5> QED BY <5>2
      <4>3. place[Last(fqueue)] = "local"
        BY <1>0, <4>2 DEF BatchOwnership
      <4> QED BY <1>0, <4>1, <4>2, <4>3 DEF TypeOK, Handed
    <3> QED BY <3>1, <3>2
  <2>3. \A b \in Batches : StageOf(b)' = StageOf(b)
    BY <1>0, <2>1, <2>2, StageKept DEF TypeOK
  <2> QED BY <2>1, <2>3, AbstractStutter DEF Mapped
<1>24. ASSUME FinWait PROVE Mapped
  BY <1>a, <1>24 DEF FinWait
<1>25. ASSUME FinRelease PROVE Mapped
  <2>0. PICK b \in Batches : b = cur /\ place[b] = "cur"
    BY <1>0, <1>25 DEF FinRelease, TypeOK, BatchOwnership
  <2>1. /\ fpc = "release" /\ sync' = [sync EXCEPT ![b] = None]
        /\ UNCHANGED <<place, sem, fence, lost, stop_thread, givenUp>>
    BY <1>25, <2>0 DEF FinRelease
  <2>2. Handed(b) /\ sync[b] \in Syncs /\ sync[b] # None
    BY <1>0, <2>0, <2>1 DEF TypeOK, PairOwnership, Handed
  <2>3. \A a \in Batches : a # b => StageOf(a)' = StageOf(a)
    BY <1>0, <2>1, StageKept DEF TypeOK
  <2>4. StageOf(b)' = "retired"
    <3>1. sync'[b] = None /\ Handed(b)'
      BY <1>0, <2>1, <2>2 DEF TypeOK, Handed
    <3> QED BY <2>2, <3>1, StageValues DEF StageRead
  <2>5. CASE lost
    <3>1. StageOf(b) \in {"handed"}
      BY <2>2, <2>5, StageValues DEF StageRead
    <3>2. Abstract!Move({b}, {"handed"}, "retired")
      BY <2>1, <2>3, <2>4, <3>1, AbstractMove
    <3> QED BY <2>5, <3>2 DEF Mapped, Abstract!Next, Abstract!Retire
  <2>6. CASE ~lost /\ StageOf(b) \in {"executed", "unknown"}
    <3>1. Abstract!Move({b}, {"executed", "unknown"}, "retired")
      BY <2>1, <2>3, <2>4, <2>6, AbstractMove
    <3> QED BY <3>1 DEF Mapped, Abstract!Next, Abstract!Retire
  <2>7. CASE ~lost /\ StageOf(b) \notin {"executed", "unknown"}
    <3>1. sync[b] \notin givenUp /\ fence[sync[b]] # "signaled"
      BY <2>2, <2>7, StageValues DEF StageRead
    <3>2. stop_thread
      BY <1>0, <1>b, <2>0, <2>1, <2>7, <3>1 DEF CallState, Calm, PairProgress
    <3>3. sem[sync[b]] # "promised"
      BY <1>0, <2>2, <2>7, <3>2 DEF CallState, Promises
    <3>4. StageOf(b) \in {"handed"}
      BY <2>2, <2>7, <3>1, <3>3, StageValues DEF StageRead
    <3>5. Abstract!Move({b}, {"handed"}, "retired")
      BY <2>1, <2>3, <2>4, <3>4, AbstractMove
    <3> QED BY <3>2, <3>5 DEF Mapped, Abstract!Next, Abstract!Retire
  <2> QED BY <2>5, <2>6, <2>7
<1>26. ASSUME FinFree PROVE Mapped
  <2>0. PICK b \in Batches : b = cur /\ place[b] = "cur"
    BY <1>0, <1>26 DEF FinFree, TypeOK, BatchOwnership
  <2>1. /\ fpc = "free" /\ place' = [place EXCEPT ![b] = "none"]
        /\ UNCHANGED <<sync, sem, fence, lost, stop_thread, givenUp>>
    BY <1>26, <2>0 DEF FinFree
  <2>2. Handed(b) /\ sync[b] = None /\ place'[b] = "none"
    BY <1>0, <2>0, <2>1 DEF TypeOK, PairOwnership, Handed
  <2>3. \A a \in Batches : a # b => StageOf(a)' = StageOf(a)
    BY <1>0, <2>1, StageKept DEF TypeOK
  <2>4. StageOf(b) \in {"retired"} /\ StageOf(b)' = "idle"
    BY <2>2, StageValues DEF StageRead
  <2>5. Abstract!Move({b}, {"retired"}, "idle")
    BY <2>1, <2>3, <2>4, AbstractMove
  <2> QED BY <2>5 DEF Mapped, Abstract!Next, Abstract!Reclaim
<1>27. ASSUME DestroyStop PROVE Mapped
  <2>1. /\ dpc = "none" /\ stop_thread' = TRUE /\ UNCHANGED <<place, sync, sem, fence, lost, givenUp>>
        /\ \A c \in CmdBufs : ~exec[c]
    BY <1>27 DEF DestroyStop
  <2>2. \A b \in Batches : StageOf(b)' = StageOf(b)
    BY <1>0, <2>1, StageKept DEF TypeOK
  <2>3. ASSUME ~lost, NEW b \in Batches PROVE StageOf(b) # "executing"
    <3>1. sync[b] # None => sem[sync[b]] # "promised"
      BY <1>0, <2>1, <2>3 DEF TypeOK, Promises
    <3>2. StageOf(b) = "executing" => Handed(b) /\ sync[b] # None /\ sem[sync[b]] = "promised"
      BY <1>0, <2>3, StageValues DEF StageRead, Handed, TypeOK
    <3> QED BY <3>1, <3>2
  <2>4. ~stop_thread
    BY <1>0, <2>1 DEF CallState
  <2>5. Abstract!Close
    BY <2>1, <2>2, <2>3, <2>4 DEF Abstract!Close
  <2> QED BY <2>5 DEF Mapped, Abstract!Next
<1>28. ASSUME DestroyNotify PROVE Mapped
  BY <1>a, <1>28 DEF DestroyNotify, WakeFinalizer
<1>29. ASSUME DestroyWaitIdle PROVE Mapped
  BY <1>a, <1>29 DEF DestroyWaitIdle
<1>30. ASSUME DestroyJoin PROVE Mapped
  BY <1>a, <1>30 DEF DestroyJoin
<1>31. ASSUME DestroyLock PROVE Mapped
  BY <1>a, <1>31 DEF DestroyLock
<1>32. ASSUME DestroyRelock PROVE Mapped
  BY <1>a, <1>32 DEF DestroyRelock
<1>33. ASSUME DestroyFinish PROVE Mapped
  BY <1>a, <1>33 DEF DestroyFinish
<1>34. ASSUME FinWaitFails PROVE Mapped
  <2>0. PICK b \in Batches : b = cur /\ place[b] = "cur"
    BY <1>0, <1>34 DEF FinWaitFails, TypeOK, BatchOwnership
  <2>1. /\ fpc = "wait" /\ ~lost /\ givenUp' = givenUp \cup {sync[b]}
        /\ UNCHANGED <<place, sync, sem, fence, lost, stop_thread>>
    BY <1>34, <2>0 DEF FinWaitFails
  <2>2. Handed(b) /\ Handed(b)' /\ sync[b] \in Syncs /\ sync[b] # None
    BY <1>0, <2>0, <2>1 DEF TypeOK, PairOwnership, Handed
  <2>3. \A a \in Batches : a # b => StageOf(a)' = StageOf(a)
    <3>1. \A a \in Batches : a # b => sync[a] # sync[b]
      BY <1>0, <2>2 DEF PairOwnership, SyncExclusive
    <3> QED BY <1>0, <2>1, <3>1, StageKept DEF TypeOK
  <2>4. StageOf(b) \in {"handed", "executing", "executed", "unknown"}
    BY <2>1, <2>2 DEF StageOf, Handed
  <2>5. StageOf(b)' = "unknown"
    BY <2>1, <2>2, StageValues DEF StageRead
  <2>6. (givenUp # {})'
    BY <2>1
  <2> QED BY <2>1, <2>3, <2>4, <2>5, <2>6 DEF Mapped, Abstract!Next, Abstract!GiveUp
<1>35. ASSUME DestroyWaitIdleFails PROVE Mapped
  BY <1>a, <1>35 DEF DestroyWaitIdleFails
<1>36. ASSUME NEW p \in Syncs, GpuFenceReused(p) PROVE Mapped
  <2>1. /\ p \in givenUp /\ fence' = [fence EXCEPT ![p] = "signaled"]
        /\ UNCHANGED <<place, sync, sem, lost, stop_thread, givenUp>>
    BY <1>36 DEF GpuFenceReused
  <2>2. \A b \in Batches : sync[b] \notin givenUp \cup {None} => fence'[sync[b]] = fence[sync[b]]
    BY <1>0, <2>1 DEF TypeOK
  <2>3. \A b \in Batches : StageOf(b)' = StageOf(b)
    BY <1>0, <2>1, <2>2, StageKept DEF TypeOK
  <2> QED BY <2>1, <2>3, AbstractStutter DEF Mapped
<1> QED
  BY <1>1, <1>2, <1>3, <1>4, <1>5, <1>6, <1>7, <1>8, <1>9, <1>10, <1>11, <1>12, <1>13, <1>14, <1>15, <1>16, <1>17, <1>18, <1>19, <1>20, <1>21, <1>22, <1>23, <1>24, <1>25, <1>26, <1>27, <1>28, <1>29, <1>30, <1>31, <1>32, <1>33, <1>34, <1>35, <1>36
  DEF Next, CommandBufferStep, SubmitStep, GpuStep, FinLockFree, DestroyStep

\* The layer keeps the promise of StagingReclamation: a batch is freed only
\* after the GPU is done with it, a wait for it or for its pair has failed, the
\* device is closing, or it is lost; and what is handed over is started, finished,
\* retired and reclaimed in this order.
THEOREM Refinement == Spec => ImplementsReclamation
<1>1. Init => Abstract!Init
  <2>1. ASSUME Init, NEW b \in Batches PROVE StageOf(b) = "idle"
    BY <2>1, StageValues DEF Init, StageRead
  <2> QED BY <2>1 DEF Init, Abstract!Init
<1>2. Init => Promises
  BY EmptyFacts DEF Init, Promises
<1>3. IInv /\ GInv /\ Promises /\ [Next]_vars => Promises'
  <2>1. Promises /\ UNCHANGED vars => Promises'
    BY DEF Promises, vars, cmdVars, batchVars, poolVars, gpuVars, threadVars, finVars, dtorVars
  <2> QED BY <2>1, PromisesStep
<1>4. IInv /\ GInv /\ Promises /\ [Next]_vars => [Abstract!Next]_(Abstract!vars)
  <2>1. UNCHANGED vars => UNCHANGED Abstract!vars
    BY DEF Abstract!vars, StageOf, Handed, vars, cmdVars, batchVars, poolVars, gpuVars,
           threadVars, finVars, dtorVars, histVars
  <2> QED BY <2>1, RefineStep DEF Mapped
<1> QED
  BY <1>1, <1>2, <1>3, <1>4, Ownership, Progress, PTL DEF Spec, ImplementsReclamation, Abstract!Spec
=============================================================================
