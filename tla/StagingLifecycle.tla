--------------------------- MODULE StagingLifecycle ---------------------------
(***************************************************************************)
(* The life of the staging resources of one VkDevice: application threads  *)
(* record copies into command buffers, QueueSubmit hands the staging       *)
(* resources of every submitted command buffer to the device's queue, the  *)
(* driver executes the command buffers and signals a pooled semaphore and  *)
(* fence, and the finalizer thread waits for the fence and frees the       *)
(* resources.  DestroyDevice stops the finalizer and tears everything      *)
(* down.  One StagingResources object that is not empty is a "batch".      *)
(***************************************************************************)
EXTENDS Naturals, SequencesExt

CONSTANTS
  CmdBufs,    \* command buffer handles
  Batches,    \* identities of non-empty StagingResources objects
  Syncs,      \* identities of (semaphore, fence) pairs
  Threads,    \* application threads that call vkQueueSubmit
  None,       \* the null handle
  Reuse,      \* TRUE: the application may submit a command buffer again
              \* without recording it again
  MayFail,    \* TRUE: the driver's vkQueueSubmit may return an error
  MayLose,    \* TRUE: the device may be lost
  MaxFaults   \* how many of these may happen, a bound: the device gets lost, a
              \* wait fails on a live device for a fence of another pair

ASSUME LifecycleAssumption ==
  /\ None \notin CmdBufs \cup Batches \cup Syncs \cup Threads
  /\ {"finalizer", "destroyer"} \cap (Threads \cup {None}) = {}
  /\ {Reuse, MayFail, MayLose} \subseteq BOOLEAN
  /\ MaxFaults \in Nat

VARIABLES
  cmd,          \* application's view of a command buffer (Vulkan lifecycle)
  recorded,     \* batch whose buffers the recorded commands use, or None
  current,      \* command_buffer::currentStagingResources, None when IsEmpty()
  place,        \* who owns the batch (where its unique_ptr lives)
  sync,         \* StagingResources::{semaphore, completed} of a batch
  stagingResourcesQueue, \* device::stagingResourcesQueue
  freeSyncs,    \* SyncPool::{freeSemaphores, freeFences}, a stack of pairs
  created,      \* pairs ever created by SyncPool::Acquire
  sem,          \* driver: state of the semaphore of a pair
  fence,        \* driver: state of the fence of a pair
  exec,         \* driver: the command buffer is pending on the GPU
  sigOf,        \* pair whose semaphore the submission of a command buffer signals
  pc,           \* control point of a thread inside QueueSubmit
  todo,         \* command buffers the submission loop has still to visit
  subs,         \* command buffers of the running QueueSubmit call
  stagingFences,\* local staging_fences of the running QueueSubmit call
  fpc,          \* control point of FinalizerThread
  fqueue,       \* local queue of FinalizerThread
  cur,          \* local stagingResources of FinalizerThread
  dpc,          \* control point of DestroyDevice
  stop_thread,  \* device::stop_thread
  global_lock,  \* holder of global_lock, None when it is free
  lost,         \* driver: the device is lost
  givenUp,      \* history: pairs a wait failed for before their fence signaled
  adrift,       \* history: batches that were freed on the word of such a pair
  idleFailed    \* history: DestroyDevice's DeviceWaitIdle failed

cmdVars    == <<cmd, recorded>>
batchVars  == <<current, place, sync>>
poolVars   == <<freeSyncs, created>>
gpuVars    == <<sem, fence, exec, lost>>
threadVars == <<pc, todo, subs, stagingFences, sigOf>>
finVars    == <<fpc, fqueue, cur>>
dtorVars   == <<dpc, stop_thread>>
histVars   == <<givenUp, adrift, idleFailed>>
vars == <<cmdVars, batchVars, stagingResourcesQueue, poolVars, gpuVars,
          threadVars, finVars, dtorVars, histVars, global_lock>>

cbFrame   == <<stagingResourcesQueue, poolVars, gpuVars, threadVars, finVars, dtorVars, givenUp, idleFailed, global_lock>>
callFrame == <<cmdVars, batchVars, stagingResourcesQueue, poolVars, histVars>>
finFrame  == <<cmdVars, gpuVars, threadVars, dtorVars, givenUp, idleFailed>>
dtorFrame == <<callFrame, gpuVars, threadVars, fqueue, cur>>

TypeOK ==
  /\ cmd \in [CmdBufs -> {"unallocated", "initial", "recording", "ended", "executable"}]
  /\ recorded \in [CmdBufs -> Batches \cup {None}]
  /\ current \in [CmdBufs -> Batches \cup {None}]
  /\ place \in [Batches -> {"none", "cb", "queue", "local", "cur"}]
  /\ sync \in [Batches -> Syncs \cup {None}]
  /\ stagingResourcesQueue \in Seq(Batches)
  /\ freeSyncs \in Seq(Syncs)
  /\ created \in SUBSET Syncs
  /\ sem \in [Syncs -> {"idle", "promised", "signaled"}]
  /\ fence \in [Syncs -> {"reset", "pending", "signaled"}]
  /\ exec \in [CmdBufs -> BOOLEAN]
  /\ lost \in BOOLEAN
  /\ givenUp \in SUBSET Syncs
  /\ adrift \in SUBSET Batches
  /\ idleFailed \in BOOLEAN
  /\ sigOf \in [CmdBufs -> Syncs \cup {None}]
  /\ pc \in [Threads -> {"idle", "collect", "notify", "submit", "fences"}]
  /\ todo \in [Threads -> SUBSET CmdBufs]
  /\ subs \in [Threads -> SUBSET CmdBufs]
  /\ stagingFences \in [Threads -> Seq(Syncs)]
  /\ fpc \in {"top", "acquire", "blocking", "waiting", "drain", "wait",
              "release", "free", "exited"}
  /\ fqueue \in Seq(Batches)
  /\ cur \in Batches \cup {None}
  /\ dpc \in {"none", "stopped", "notified", "idled", "joined", "locked",
              "relock", "done"}
  /\ stop_thread \in BOOLEAN
  /\ global_lock \in Threads \cup {"finalizer", "destroyer", None}

Init ==
  /\ cmd = [c \in CmdBufs |-> "unallocated"]
  /\ recorded = [c \in CmdBufs |-> None]
  /\ current = [c \in CmdBufs |-> None]
  /\ place = [b \in Batches |-> "none"]
  /\ sync = [b \in Batches |-> None]
  /\ stagingResourcesQueue = <<>>
  /\ freeSyncs = <<>>
  /\ created = {}
  /\ sem = [p \in Syncs |-> "idle"]
  /\ fence = [p \in Syncs |-> "reset"]
  /\ exec = [c \in CmdBufs |-> FALSE]
  /\ lost = FALSE
  /\ givenUp = {}
  /\ adrift = {}
  /\ idleFailed = FALSE
  /\ sigOf = [c \in CmdBufs |-> None]
  /\ pc = [t \in Threads |-> "idle"]
  /\ todo = [t \in Threads |-> {}]
  /\ subs = [t \in Threads |-> {}]
  /\ stagingFences = [t \in Threads |-> <<>>]
  /\ fpc = "top"
  /\ fqueue = <<>>
  /\ cur = None
  /\ dpc = "none"
  /\ stop_thread = FALSE
  /\ global_lock = None

-----------------------------------------------------------------------------
(* The application's side of a command buffer.  Vulkan's valid usage: a     *)
(* command buffer that is pending, or that another thread is submitting,    *)
(* is not touched, and nothing is used once vkDestroyDevice is called.      *)

Untouched(c) ==
  /\ dpc = "none"
  /\ ~exec[c]
  /\ \A t \in Threads : c \notin subs[t]

\* The destructor of a batch that was never submitted: completed and
\* semaphore are null, so Cleanup frees the resources and takes no lock.
DropCurrent(c) ==
  /\ current' = [current EXCEPT ![c] = None]
  /\ place' = [b \in Batches |-> IF b = current[c] THEN "none" ELSE place[b]]

\* AllocateCommandBuffers: the map entry of a recycled handle is overwritten.
AllocateCommandBuffer(c) ==
  /\ Untouched(c) /\ cmd[c] = "unallocated" /\ global_lock = None
  /\ cmd' = [cmd EXCEPT ![c] = "initial"]
  /\ recorded' = [recorded EXCEPT ![c] = None]
  /\ DropCurrent(c)
  /\ UNCHANGED <<sync, cbFrame, adrift>>

FreeCommandBuffer(c) ==
  /\ Untouched(c) /\ cmd[c] # "unallocated" /\ global_lock = None
  /\ cmd' = [cmd EXCEPT ![c] = "unallocated"]
  /\ recorded' = [recorded EXCEPT ![c] = None]
  /\ DropCurrent(c)
  /\ UNCHANGED <<sync, cbFrame, adrift>>

\* vkDestroyCommandPool frees the command buffer behind the layer's back: the
\* layer does not intercept it and keeps the map entry.
DestroyCommandPool(c) ==
  /\ Untouched(c) /\ cmd[c] # "unallocated"
  /\ cmd' = [cmd EXCEPT ![c] = "unallocated"]
  /\ recorded' = [recorded EXCEPT ![c] = None]
  /\ UNCHANGED <<batchVars, cbFrame, adrift>>

\* BeginCommandBuffer and ResetCommandBuffer only reset the tracked compute
\* state: currentStagingResources keeps what an abandoned recording left.
BeginCommandBuffer(c) ==
  /\ Untouched(c) /\ cmd[c] \in {"initial", "ended", "executable"}
  /\ cmd' = [cmd EXCEPT ![c] = "recording"]
  /\ recorded' = [recorded EXCEPT ![c] = None]
  /\ UNCHANGED <<batchVars, cbFrame, adrift>>

ResetCommandBuffer(c) ==
  /\ Untouched(c) /\ cmd[c] \in {"recording", "ended", "executable"}
  /\ cmd' = [cmd EXCEPT ![c] = "initial"]
  /\ recorded' = [recorded EXCEPT ![c] = None]
  /\ UNCHANGED <<batchVars, cbFrame, adrift>>

\* A translated copy adds a staging buffer, an image view or a descriptor set
\* to currentStagingResources; the first one makes the object non-empty.
RecordCopy(c) ==
  /\ Untouched(c) /\ cmd[c] = "recording"
  /\ \E b \in Batches :
       /\ \/ b = current[c]
          \/ /\ current[c] = None
             /\ place[b] = "none"
             /\ \A d \in CmdBufs : recorded[d] # b
       /\ current' = [current EXCEPT ![c] = b]
       /\ place' = [place EXCEPT ![b] = "cb"]
       /\ recorded' = [recorded EXCEPT ![c] = b]
       /\ adrift' = adrift \ {b}
  /\ UNCHANGED <<cmd, sync, cbFrame>>

-----------------------------------------------------------------------------
(* BCnLayer_QueueSubmit and BCnLayer_QueueSubmit2, one call per thread.     *)

Submittable(c) ==
  /\ Untouched(c)
  /\ cmd[c] \in {"recording", "ended"} \/ (Reuse /\ cmd[c] = "executable")

\* The scoped_lock at the top of the call.
SubmitEnter(t) ==
  /\ pc[t] = "idle" /\ global_lock = None
  /\ \E cs \in (SUBSET CmdBufs) \ {{}} :
       /\ \A c \in cs : Submittable(c)
       /\ subs' = [subs EXCEPT ![t] = cs]
       /\ todo' = [todo EXCEPT ![t] = cs]
       /\ cmd' = [c \in CmdBufs |-> IF c \in cs THEN "ended" ELSE cmd[c]]
  /\ pc' = [pc EXCEPT ![t] = "collect"]
  /\ global_lock' = t
  /\ UNCHANGED <<recorded, batchVars, stagingResourcesQueue, poolVars, gpuVars, sigOf, stagingFences, finVars, dtorVars, histVars>>

\* Mutant of Acquire: the pair is read with back() and never popped.
AcquireWithoutPop(p) ==
  /\ IF freeSyncs # <<>>
     THEN p = Last(freeSyncs) /\ UNCHANGED poolVars
     ELSE p \notin created /\ created' = created \cup {p} /\ UNCHANGED freeSyncs
  /\ fence' = [fence EXCEPT ![p] = "reset"]

\* SyncPool::Acquire: the top of the free stack with its fence reset, or a new
\* pair.
Acquire(p) ==
  /\ IF freeSyncs # <<>>
     THEN /\ p = Last(freeSyncs)
          /\ freeSyncs' = Front(freeSyncs)
          /\ created' = created
     ELSE /\ p \notin created
          /\ created' = created \cup {p}
          /\ freeSyncs' = freeSyncs
  /\ fence' = [fence EXCEPT ![p] = "reset"]

\* One turn of the loop over command buffers: the staging resources move out
\* of the command buffer and, when there are any, MakeFence gives them a pair
\* and they are queued for the finalizer before the driver has seen the work.
SubmitCollect(t, c) ==
  /\ pc[t] = "collect" /\ c \in todo[t]
  /\ todo' = [todo EXCEPT ![t] = @ \ {c}]
  /\ LET b == current[c] IN
     IF b = None
     THEN /\ sigOf' = [sigOf EXCEPT ![c] = None]
          /\ UNCHANGED <<batchVars, stagingResourcesQueue, poolVars, fence, stagingFences>>
     ELSE \E p \in Syncs :
          /\ Acquire(p)
          /\ current' = [current EXCEPT ![c] = None]
          /\ sync' = [sync EXCEPT ![b] = p]
          /\ place' = [place EXCEPT ![b] = "queue"]
          /\ stagingResourcesQueue' = Append(stagingResourcesQueue, b)
          /\ sigOf' = [sigOf EXCEPT ![c] = p]
          /\ stagingFences' = [stagingFences EXCEPT ![t] = Append(@, p)]
  /\ UNCHANGED <<cmdVars, sem, exec, lost, pc, subs, finVars, dtorVars, histVars, global_lock>>

SubmitUnlock(t) ==
  /\ pc[t] = "collect" /\ todo[t] = {}
  /\ pc' = [pc EXCEPT ![t] = "notify"]
  /\ global_lock' = None
  /\ UNCHANGED <<callFrame, gpuVars, todo, subs, stagingFences, sigOf, finVars, dtorVars>>

\* A notification reaches the finalizer only if it sleeps in the wait.
WakeFinalizer == fpc' = IF fpc = "waiting" THEN "acquire" ELSE fpc

\* Mutant of SubmitNotify: notify_one is forgotten.
SubmitWithoutNotify(t) ==
  /\ pc[t] = "notify"
  /\ pc' = [pc EXCEPT ![t] = "submit"]
  /\ UNCHANGED <<callFrame, gpuVars, todo, subs, stagingFences, sigOf, finVars, dtorVars, global_lock>>

SubmitNotify(t) ==
  /\ pc[t] = "notify"
  /\ pc' = [pc EXCEPT ![t] = "submit"]
  /\ WakeFinalizer
  /\ UNCHANGED <<callFrame, gpuVars, todo, subs, stagingFences, sigOf, fqueue, cur, dtorVars, global_lock>>

\* The driver takes the submission: each command buffer becomes pending and
\* will signal the semaphore added to it.
SubmitAccepted(t) ==
  /\ pc[t] = "submit" /\ ~lost
  /\ exec' = [c \in CmdBufs |-> exec[c] \/ c \in subs[t]]
  /\ sem' = [p \in Syncs |-> IF p \in Range(stagingFences[t]) THEN "promised" ELSE sem[p]]
  /\ cmd' = [c \in CmdBufs |-> IF c \in subs[t] THEN "executable" ELSE cmd[c]]
  /\ subs' = [subs EXCEPT ![t] = {}]
  /\ pc' = [pc EXCEPT ![t] = "fences"]
  /\ UNCHANGED <<recorded, batchVars, stagingResourcesQueue, poolVars, fence, lost,
                 todo, stagingFences, sigOf, finVars, dtorVars, histVars, global_lock>>

\* The driver refuses it: the call returns at once, and what was queued for the
\* finalizer stays queued with a fence nobody will submit.
SubmitRefused(t) ==
  /\ pc[t] = "submit" /\ (MayFail \/ lost)
  /\ subs' = [subs EXCEPT ![t] = {}]
  /\ stagingFences' = [stagingFences EXCEPT ![t] = <<>>]
  /\ pc' = [pc EXCEPT ![t] = "idle"]
  /\ UNCHANGED <<callFrame, gpuVars, todo, sigOf, finVars, dtorVars, global_lock>>

\* The empty submission that waits for the semaphore and signals the fence.
FenceAccepted(t) ==
  /\ pc[t] = "fences" /\ stagingFences[t] # <<>> /\ ~lost
  /\ fence' = [fence EXCEPT ![Head(stagingFences[t])] = "pending"]
  /\ stagingFences' = [stagingFences EXCEPT ![t] = Tail(@)]
  /\ UNCHANGED <<callFrame, sem, exec, lost, pc, todo, subs, sigOf, finVars, dtorVars, global_lock>>

FenceRefused(t) ==
  /\ pc[t] = "fences" /\ stagingFences[t] # <<>> /\ (MayFail \/ lost)
  /\ stagingFences' = [stagingFences EXCEPT ![t] = <<>>]
  /\ pc' = [pc EXCEPT ![t] = "idle"]
  /\ UNCHANGED <<callFrame, gpuVars, todo, subs, sigOf, finVars, dtorVars, global_lock>>

SubmitReturn(t) ==
  /\ pc[t] = "fences" /\ stagingFences[t] = <<>>
  /\ pc' = [pc EXCEPT ![t] = "idle"]
  /\ UNCHANGED <<callFrame, gpuVars, todo, subs, stagingFences, sigOf, finVars, dtorVars, global_lock>>

-----------------------------------------------------------------------------
(* The driver and the GPU.                                                  *)

GpuComplete(c) ==
  /\ exec[c]
  /\ exec' = [exec EXCEPT ![c] = FALSE]
  /\ sem' = [p \in Syncs |-> IF p = sigOf[c] THEN "signaled" ELSE sem[p]]
  /\ UNCHANGED <<callFrame, fence, lost, threadVars, finVars, dtorVars, global_lock>>

\* Mutant of GpuFence: the empty submission does not wait for the semaphore.
GpuFenceUnordered(p) ==
  /\ fence[p] = "pending" /\ ~lost
  /\ fence' = [fence EXCEPT ![p] = "signaled"]
  /\ UNCHANGED <<callFrame, sem, exec, lost, threadVars, finVars, dtorVars, global_lock>>

GpuFence(p) ==
  /\ fence[p] = "pending" /\ sem[p] = "signaled" /\ ~lost
  /\ fence' = [fence EXCEPT ![p] = "signaled"]
  /\ sem' = [sem EXCEPT ![p] = "idle"]
  /\ UNCHANGED <<callFrame, exec, lost, threadVars, finVars, dtorVars, global_lock>>

\* A pair that was given up and belongs to a batch again is in use twice, which
\* the driver does not define: the signal of the earlier submission may arrive
\* at a fence that was reset, or submitted again, for the later one.
GpuFenceReused(p) ==
  /\ p \in givenUp /\ fence[p] # "signaled" /\ ~lost
  /\ \E b \in Batches : sync[b] = p /\ ~(b = cur /\ fpc = "release")
  /\ fence' = [fence EXCEPT ![p] = "signaled"]
  /\ UNCHANGED <<callFrame, sem, exec, lost, threadVars, finVars, dtorVars, global_lock>>

Faults == Cardinality(givenUp) + (IF lost THEN 1 ELSE 0)

\* A lost device accesses nothing any more; its fences and semaphores stay
\* as they are.
DeviceLost ==
  /\ MayLose /\ ~lost /\ Faults < MaxFaults
  /\ lost' = TRUE
  /\ exec' = [c \in CmdBufs |-> FALSE]
  /\ UNCHANGED <<callFrame, sem, fence, threadVars, finVars, dtorVars, global_lock>>

-----------------------------------------------------------------------------
(* FinalizerThread.                                                         *)

\* while (!dev->stop_thread)
FinTop ==
  /\ fpc = "top"
  /\ fpc' = IF stop_thread THEN "exited" ELSE "acquire"
  /\ UNCHANGED <<finFrame, adrift, batchVars, stagingResourcesQueue, poolVars, fqueue, cur, global_lock>>

\* Lock, evaluate the predicate of the wait, and leave, take the whole queue
\* or go to sleep.  The lock is held from the predicate to the sleep.
FinAcquire ==
  /\ fpc = "acquire" /\ global_lock = None
  /\ \/ /\ stop_thread
        /\ fpc' = "exited"
        /\ UNCHANGED <<place, fqueue, stagingResourcesQueue, global_lock>>
     \/ /\ ~stop_thread /\ stagingResourcesQueue # <<>>
        /\ fpc' = "drain"
        /\ fqueue' = stagingResourcesQueue
        /\ stagingResourcesQueue' = <<>>
        /\ place' = [b \in Batches |-> IF place[b] = "queue" THEN "local" ELSE place[b]]
        /\ UNCHANGED global_lock
     \/ /\ ~stop_thread /\ stagingResourcesQueue = <<>>
        /\ fpc' = "blocking"
        /\ global_lock' = "finalizer"
        /\ UNCHANGED <<place, fqueue, stagingResourcesQueue>>
  /\ UNCHANGED <<finFrame, adrift, current, sync, poolVars, cur>>

FinBlock ==
  /\ fpc = "blocking"
  /\ fpc' = "waiting"
  /\ global_lock' = None
  /\ UNCHANGED <<finFrame, adrift, batchVars, stagingResourcesQueue, poolVars, fqueue, cur>>

\* A condition variable may wake up by itself.
FinSpuriousWake ==
  /\ fpc = "waiting"
  /\ fpc' = "acquire"
  /\ UNCHANGED <<finFrame, adrift, batchVars, stagingResourcesQueue, poolVars, fqueue, cur, global_lock>>

\* Mutant of FinDrain: every batch is cleaned up without waiting for it.
FinDrainWithoutWait ==
  /\ fpc = "drain" /\ fqueue # <<>>
  /\ cur' = Last(fqueue)
  /\ place' = [place EXCEPT ![Last(fqueue)] = "cur"]
  /\ fqueue' = Front(fqueue)
  /\ fpc' = "release"
  /\ UNCHANGED <<finFrame, adrift, current, sync, stagingResourcesQueue, poolVars, global_lock>>

\* The newest batch first.  Once stop_thread is set the thread returns, and
\* the destructor of its local queue cleans the rest up without waiting.
FinDrain ==
  /\ fpc = "drain"
  /\ \/ /\ fqueue = <<>>
        /\ fpc' = "top"
        /\ UNCHANGED <<fqueue, cur, place>>
     \/ /\ fqueue # <<>>
        /\ LET b == Last(fqueue) IN
           /\ cur' = b
           /\ place' = [place EXCEPT ![b] = "cur"]
        /\ fqueue' = Front(fqueue)
        /\ fpc' = IF stop_thread THEN "release" ELSE "wait"
  /\ UNCHANGED <<finFrame, adrift, current, sync, stagingResourcesQueue, poolVars, global_lock>>

\* Mutant of FinWait: the wait is skipped.
FinWaitSkipped ==
  /\ fpc = "wait"
  /\ fpc' = "release"
  /\ UNCHANGED <<finFrame, adrift, batchVars, stagingResourcesQueue, poolVars, fqueue, cur, global_lock>>

\* Mutant of FinWait: the wait is repeated until it succeeds.
FinWaitRetried ==
  /\ fpc = "wait" /\ fence[sync[cur]] = "signaled"
  /\ fpc' = "release"
  /\ UNCHANGED <<finFrame, adrift, batchVars, stagingResourcesQueue, poolVars, fqueue, cur, global_lock>>

\* WaitForCompletion, when the fence has signaled or the device is lost.
FinWait ==
  /\ fpc = "wait"
  /\ fence[sync[cur]] = "signaled" \/ lost
  /\ fpc' = "release"
  /\ UNCHANGED <<finFrame, adrift, batchVars, stagingResourcesQueue, poolVars, fqueue, cur, global_lock>>

\* WaitForCompletion, when WaitForFences returns another error: that counts as
\* completion too, and the batch is cleaned up with its fence unsignaled.
FinWaitFails ==
  /\ fpc = "wait" /\ fence[sync[cur]] # "signaled" /\ ~lost
  /\ sync[cur] \in givenUp \/ Faults < MaxFaults
  /\ fpc' = "release"
  /\ givenUp' = givenUp \cup {sync[cur]}
  /\ UNCHANGED <<cmdVars, batchVars, stagingResourcesQueue, poolVars, gpuVars, threadVars,
                 fqueue, cur, dtorVars, adrift, idleFailed, global_lock>>

\* Mutant of FinRelease: the handles are nulled before they are released.
FinReleaseNulled ==
  /\ fpc = "release" /\ global_lock = None
  /\ sync' = [sync EXCEPT ![cur] = None]
  /\ freeSyncs' = Append(freeSyncs, sync'[cur])
  /\ fpc' = "free"
  /\ UNCHANGED <<finFrame, adrift, current, place, stagingResourcesQueue, created, fqueue, cur, global_lock>>

\* Cleanup, first half: SyncPool::Release under global_lock.
FinRelease ==
  /\ fpc = "release" /\ global_lock = None
  /\ freeSyncs' = Append(freeSyncs, sync[cur])
  /\ sync' = [sync EXCEPT ![cur] = None]
  /\ adrift' = IF sync[cur] \in givenUp THEN adrift \cup {cur} ELSE adrift
  /\ fpc' = "free"
  /\ UNCHANGED <<finFrame, current, place, stagingResourcesQueue, created, fqueue, cur, global_lock>>

\* Cleanup, second half: buffers, views, descriptor sets and query pools go.
FinFree ==
  /\ fpc = "free"
  /\ place' = [place EXCEPT ![cur] = "none"]
  /\ cur' = None
  /\ fpc' = "drain"
  /\ UNCHANGED <<finFrame, adrift, current, sync, stagingResourcesQueue, poolVars, fqueue, global_lock>>

-----------------------------------------------------------------------------
(* BCnLayer_DestroyDevice.                                                  *)

\* Valid usage: every command buffer has been freed and none is pending.
\* stop_thread is an atomic written without the lock.
DestroyStop ==
  /\ dpc = "none" /\ global_lock = None
  /\ \A t \in Threads : pc[t] = "idle"
  /\ \A c \in CmdBufs : cmd[c] = "unallocated" /\ ~exec[c]
  /\ dpc' = "stopped"
  /\ stop_thread' = TRUE
  /\ UNCHANGED <<dtorFrame, fpc, global_lock>>

\* Mutant of DestroyNotify: notify_all is forgotten.
DestroyWithoutNotify ==
  /\ dpc = "stopped"
  /\ dpc' = "notified"
  /\ UNCHANGED <<dtorFrame, fpc, stop_thread, global_lock>>

DestroyNotify ==
  /\ dpc = "stopped"
  /\ dpc' = "notified"
  /\ WakeFinalizer
  /\ UNCHANGED <<dtorFrame, stop_thread, global_lock>>

\* Mutant of DestroyWaitIdle: the device is not waited for.
DestroyWithoutIdle ==
  /\ dpc = "notified"
  /\ dpc' = "idled"
  /\ UNCHANGED <<dtorFrame, fpc, stop_thread, global_lock>>

\* DeviceWaitIdle returns when nothing is pending, or when the device is lost.
DestroyWaitIdle ==
  /\ dpc = "notified"
  /\ lost \/ /\ \A c \in CmdBufs : ~exec[c]
             /\ \A p \in Syncs : fence[p] # "pending"
  /\ dpc' = "idled"
  /\ UNCHANGED <<dtorFrame, fpc, stop_thread, global_lock>>

\* The result is not looked at: DestroyDevice goes on after an error too.
DestroyWaitIdleFails ==
  /\ dpc = "notified" /\ ~lost /\ Faults < MaxFaults
  /\ dpc' = "idled"
  /\ idleFailed' = TRUE
  /\ UNCHANGED <<cmdVars, batchVars, stagingResourcesQueue, poolVars, gpuVars, threadVars,
                 finVars, stop_thread, givenUp, adrift, global_lock>>

DestroyJoin ==
  /\ dpc = "idled" /\ fpc = "exited"
  /\ dpc' = "joined"
  /\ UNCHANGED <<dtorFrame, fpc, stop_thread, global_lock>>

DestroyLock ==
  /\ dpc = "joined" /\ global_lock = None
  /\ dpc' = "locked"
  /\ global_lock' = "destroyer"
  /\ UNCHANGED <<dtorFrame, fpc, stop_thread>>

\* Cleanup of a left-over batch locks global_lock, which this thread holds and
\* which is not recursive: the call never comes back.
DestroyRelock ==
  /\ dpc = "locked" /\ stagingResourcesQueue # <<>>
  /\ dpc' = "relock"
  /\ UNCHANGED <<dtorFrame, fpc, stop_thread, global_lock>>

\* The pool's pairs, the descriptor pools and the device go; the lock is freed.
DestroyFinish ==
  /\ dpc = "locked" /\ stagingResourcesQueue = <<>>
  /\ dpc' = "done"
  /\ global_lock' = None
  /\ UNCHANGED <<dtorFrame, fpc, stop_thread>>

-----------------------------------------------------------------------------
CommandBufferStep(c) ==
  \/ AllocateCommandBuffer(c) \/ FreeCommandBuffer(c) \/ DestroyCommandPool(c)
  \/ BeginCommandBuffer(c) \/ ResetCommandBuffer(c) \/ RecordCopy(c)

\* What a thread does inside QueueSubmit once it has the lock.
SubmitStep(t) ==
  \/ \E c \in CmdBufs : SubmitCollect(t, c)
  \/ SubmitUnlock(t) \/ SubmitNotify(t)
  \/ SubmitAccepted(t) \/ SubmitRefused(t)
  \/ FenceAccepted(t) \/ FenceRefused(t) \/ SubmitReturn(t)

GpuStep ==
  \/ \E c \in CmdBufs : GpuComplete(c)
  \/ \E p \in Syncs : GpuFence(p) \/ GpuFenceReused(p)

FinLockFree == FinTop \/ FinBlock \/ FinDrain \/ FinWait \/ FinFree

DestroyStep ==
  DestroyNotify \/ DestroyWaitIdle \/ DestroyJoin \/ DestroyLock \/ DestroyRelock \/ DestroyFinish

Next ==
  \/ \E c \in CmdBufs : CommandBufferStep(c)
  \/ \E t \in Threads : SubmitEnter(t) \/ SubmitStep(t)
  \/ GpuStep \/ DeviceLost
  \/ FinLockFree \/ FinAcquire \/ FinRelease \/ FinSpuriousWake \/ FinWaitFails
  \/ DestroyStop \/ DestroyStep \/ DestroyWaitIdleFails

Spec == Init /\ [][Next]_vars

\* A call in progress runs on, the GPU and the finalizer are scheduled, and a
\* thread that keeps asking for the mutex eventually gets it.  Nothing obliges
\* the application to call, the device to get lost, a wait to fail or a sleeper
\* to wake up.
Fairness ==
  /\ \A t \in Threads : WF_vars(SubmitStep(t))
  /\ \A c \in CmdBufs : WF_vars(GpuComplete(c))
  /\ \A p \in Syncs : WF_vars(GpuFence(p))
  /\ WF_vars(FinLockFree) /\ SF_vars(FinAcquire) /\ SF_vars(FinRelease)
  /\ WF_vars(DestroyStep)

FairSpec == Spec /\ Fairness

-----------------------------------------------------------------------------
(* Properties.                                                              *)

Handed(b) == place[b] \in {"queue", "local", "cur"}

\* A pair whose fence no call will ever submit: a submission was refused.
Orphaned(p) ==
  /\ \E b \in Batches : Handed(b) /\ sync[b] = p
  /\ fence[p] = "reset"
  /\ \A t \in Threads : p \notin Range(stagingFences[t])

\* The GPU never runs a command buffer whose staging buffers, image views or
\* descriptor sets have been freed, whatever the interleaving of submitters,
\* finalizer and driver: but for a batch whose own wait failed
\* (staging_resources.cpp:118), or that was given a pair whose wait had failed.
NoUseAfterFree ==
  \A c \in CmdBufs :
    exec[c] /\ recorded[c] # None /\ recorded[c] \notin adrift => place[recorded[c]] # "none"

\* A (semaphore, fence) pair has one owner: it is in the free stack once and
\* belongs to no batch, or it belongs to exactly one batch.
SyncExclusive ==
  /\ IsInjective(freeSyncs)
  /\ \A b \in Batches : sync[b] # None => sync[b] \notin Range(freeSyncs)
  /\ \A a, b \in Batches : sync[a] # None /\ sync[a] = sync[b] => a = b

\* What SyncPool::Acquire relies on: a pooled fence is not in use by the queue
\* (vkResetFences) and a pooled semaphore has no signal outstanding.  A failed
\* wait spoils the one pair it was for and no other.
PoolClean ==
  ~lost /\ ~stop_thread =>
    \A p \in Range(freeSyncs) \ givenUp : fence[p] = "signaled" /\ sem[p] = "idle"

\* The notification of QueueSubmit, sent after the unlock, is never missed: if
\* the finalizer sleeps on a non-empty queue then a notification is on its way.
NoMissedWakeup ==
  fpc = "waiting" /\ stagingResourcesQueue # <<>> =>
    \E t \in Threads : pc[t] \in {"collect", "notify"}

\* When DestroyDevice returns, every batch that was handed over is freed and
\* every pair is back in the pool, so the pool's destructor gets them all; and no
\* fence it destroys is pending, but those whose wait failed, and but for a device
\* that is lost or whose DeviceWaitIdle failed.
ShutdownReclaims ==
  dpc = "done" =>
    /\ \A b \in Batches : ~Handed(b)
    /\ Range(freeSyncs) = created
    /\ lost \/ idleFailed \/ \A p \in created \ givenUp : fence[p] # "pending"

\* The finalizer waits, without a timeout, for a fence that may never signal: a
\* submission was refused, or the pair was given up and is in use twice.
Stuck == ~lost /\ fpc = "wait" /\ (Orphaned(sync[cur]) \/ sync[cur] \in givenUp)

\* Resources are given back: a batch handed to the finalizer is freed, unless the
\* finalizer gets stuck or the device is being destroyed.
EventuallyReclaimed ==
  \A b \in Batches : Handed(b) ~> (~Handed(b) \/ stop_thread \/ Stuck)

\* DestroyDevice returns, or hangs because a batch was left in the queue and
\* Cleanup locks global_lock again, because the finalizer is stuck, or because the
\* device never gets idle: a submission waits for the semaphore of a pair that was
\* given up, whose one signal another submission has consumed.
\* The one other way to hang, the unlocked notification falling between the
\* finalizer's predicate and its sleep, is excluded by the premise.
ShutdownOutcome ==
  (dpc = "stopped" /\ fpc # "blocking") ~>
    \/ dpc = "done"
    \/ dpc = "relock"
    \/ Stuck
    \/ ~lost /\ dpc = "notified" /\ \E p \in givenUp : fence[p] = "pending"

-----------------------------------------------------------------------------
(* The abstract specification this module implements: the stage of a batch  *)
(* is read off its owner and the state of its semaphore and fence.          *)

StageOf(b) ==
  CASE place[b] = "none" -> "idle"
    [] place[b] = "cb" -> "recording"
    [] Handed(b) /\ sync[b] = None -> "retired"
    [] Handed(b) /\ sync[b] # None ->
         IF lost THEN "handed"
         ELSE IF sync[b] \in givenUp THEN "unknown"
         ELSE IF sem[sync[b]] = "signaled" \/ fence[sync[b]] = "signaled" THEN "executed"
         ELSE IF sem[sync[b]] = "promised" THEN "executing" ELSE "handed"

Abstract == INSTANCE StagingReclamation WITH
  stage <- [b \in Batches |-> StageOf(b)], closing <- stop_thread,
  failed <- givenUp # {}

\* The layer's promise: resources are freed only after the GPU is done with them,
\* or after a wait has failed and nobody knows whether it is.
ImplementsReclamation == Abstract!Spec
=============================================================================
