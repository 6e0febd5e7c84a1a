----------------------------- MODULE Profiling -----------------------------
(***************************************************************************)
(* What the layer measures: timestamp queries around the commands it       *)
(* injects (BCN_PROFILE_TRANSFERS) and the counters of a Mali GPU around   *)
(* submissions (BCN_SAMPLE_GPU_COUNTERS).  Each thread of the application  *)
(* records and submits one command buffer of its own.  The counters come   *)
(* from one sampler of the process that every device and thread shares;    *)
(* when it is on, injected dispatches do not go to the command buffer but  *)
(* are submitted and waited for one by one (DispatchOneShotAndSample).     *)
(*                                                                         *)
(* Bounds: a command buffer is submitted once per recording, has one batch *)
(* with the finalizer at a time, and a batch has at most MaxPools query    *)
(* pools: from then on the driver refuses the next.                        *)
(***************************************************************************)
EXTENDS Environment, Integers, Sequences

CONSTANTS
  Threads,
  Queues,
  QueueOf,          \* the queue a thread submits to
  DevQueue,         \* device::queue, to which the one-shots go
  kPoolBlockSize,   \* queries in a pool
  Does,             \* bound: what each thread does in an environment
  MaxPools,         \* bound: query pools of a batch of a thread, by environment
  MayLose,          \* the environments in which the device may be lost
  MayErr            \* bound: those in which a wait may fail on a device that is not

ASSUME ProfilingAssumption ==
  /\ QueueOf \in [Threads -> Queues]
  /\ DevQueue \in Queues
  /\ kPoolBlockSize \in Nat /\ kPoolBlockSize >= 2
  /\ Does \in [Environments -> SUBSET (Threads \X {"copies", "dispatches", "submits"})]
  /\ MaxPools \in [Environments -> [Threads -> Nat]]
  /\ {MayLose, MayErr} \subseteq SUBSET Environments

VARIABLES
  sampler,    \* MaliGpuProfiler::sampler is there
  started,    \* MaliGpuProfiler::started
  window,     \* the sampled submissions and one-shots that ran since sampling started
  pc,         \* control point of a thread
  recording,  \* command_buffer::currentStagingResources of a thread
  outer,      \* the scoped query of the copy a thread is recording
  oneShot,    \* the staging resources of the running DispatchOneShotAndSample
  fate,       \* what became of the submission of the batch the finalizer has
  handed,     \* the batch of a thread that the finalizer has
  cleaning,   \* the thread whose batch FinalizerThread is waiting for, if any
  pending,    \* driver: submissions that have not run
  waits,      \* driver: submissions that a wait of a thread waits for, or waited for
              \* when it failed
  lost,       \* driver: the device is lost
  mixed,      \* history: threads whose sampled call overlapped another one or
              \* found sampling started
  leaked,     \* history: a sampled call ended and left sampling started
  late        \* history: submissions that had not run when their call reported

sampleVars  == <<sampler, started, window, mixed, leaked, late>>
recordVars  == <<recording, outer, oneShot>>
batchVars   == <<fate, handed, cleaning>>
driverVars  == <<pending, waits, lost>>
profilingVars == <<env, sampleVars, pc, recordVars, batchVars, driverVars>>

-----------------------------------------------------------------------------
(* Query pools and scoped queries.                                         *)

Query   == (Nat \ {0}) \X Nat      \* a pool of a batch, a query of the pool
NoQuery == <<0, 0>>                \* a ScopedTimestampQuery without a pool

\* The part of a StagingResources object that counts here.
Batch ==
  [pools   : Seq(Nat),         \* queryPools, as their allocatedQueries
   resets  : SUBSET Nat,       \* pools the commands reset
   written : SUBSET Query,     \* queries the commands write
   used    : BOOLEAN,          \* ~ IsEmpty()
   again   : BOOLEAN]          \* history: queries of an earlier recording are in it
EmptyBatch == [pools |-> <<>>, resets |-> {}, written |-> {}, used |-> FALSE, again |-> FALSE]

\* The queries whose results Cleanup asks for.
Asked(b) == UNION {{<<p, i>> : i \in 0 .. b.pools[p] - 1} : p \in DOMAIN b.pools}

\* Mutant: a pool counts as full when it has more queries than it can hold.
NeedsPoolLate(b) == b.pools = <<>> \/ b.pools[Len(b.pools)] > kPoolBlockSize

NeedsPool(b) == b.pools = <<>> \/ b.pools[Len(b.pools)] + 2 > kPoolBlockSize

Refused(b, granted) == ~ profile_transfers \/ (NeedsPool(b) /\ ~ granted)

\* The batch after MakeScopedTimestampQuery, and the query it returns.  The
\* constructor of the query writes the first timestamp.
QueryMade(b, granted) ==
  IF Refused(b, granted) THEN NoQuery
  ELSE IF NeedsPool(b) THEN <<Len(b.pools) + 1, 0>>
  ELSE <<Len(b.pools), b.pools[Len(b.pools)]>>
MakeScopedTimestampQuery(b, granted) ==
  IF Refused(b, granted) THEN b
  ELSE LET opened == IF NeedsPool(b)
                     THEN [b EXCEPT !.pools = Append(@, 2), !.resets = @ \cup {Len(b.pools) + 1}]
                     ELSE [b EXCEPT !.pools[Len(b.pools)] = @ + 2]
       IN [opened EXCEPT !.written = @ \cup {QueryMade(b, granted)}, !.used = TRUE]

\* The query that ~ScopedTimestampQuery writes, and the batch after it.
EndOf(q) == <<q[1], q[2] + 1>>

\* Mutant: the end of a query that was not made is written too.
EndUnchecked(b, q) == [b EXCEPT !.written = @ \cup {EndOf(q)}]

\* Mutant: no second timestamp is written.
EndForgotten(b, q) == b

End(b, q) == IF q = NoQuery THEN b ELSE [b EXCEPT !.written = @ \cup {EndOf(q)}]

\* Mutant: the scope of a dispatch never ends.
DispatchUnended(b, granted) == MakeScopedTimestampQuery(b, granted)

\* A dispatch in the scope of a query of its own.
ScopedDispatch(b, granted) ==
  End(MakeScopedTimestampQuery(b, granted), QueryMade(b, granted))

\* The answers of the driver to CreateQueryPool.
Grants(t, b) == {FALSE} \cup {g \in {TRUE} : Len(b.pools) < MaxPools[env][t]}

\* GetQueryPoolResults with WAIT comes back for a batch, if its commands ran
\* or not.
Answered(b, ran) == lost \/ Asked(b) \subseteq (IF ran THEN b.written ELSE {})

-----------------------------------------------------------------------------
(* Types and initial states.                                               *)

\* A submission of a batch with sampled counters, one of a batch without, one of
\* other commands, a one-shot.
Kinds == {"sampled", "plain", "other", "one_shot"}
Work == Threads \X Kinds
Never(t) == <<t, "never">>         \* the fence of a submission that was refused

SampledCall == {"submit_sampled", "wait_idle", "stop",
                "one_shot_submit", "one_shot_wait", "one_shot_stop"}
Points == {"idle", "copy", "free", "submit", "submit_other", "fence", "start",
           "one_shot_start", "one_shot_dropped", "one_shot_cleanup"} \cup SampledCall

ProfilingTypeOK ==
  /\ env \in Environments
  /\ {sampler, started, lost, leaked} \subseteq BOOLEAN
  /\ {window, late} \subseteq SUBSET Work
  /\ pc \in [Threads -> Points]
  /\ {recording, oneShot, handed} \subseteq [Threads -> Batch]
  /\ outer \in [Threads -> Query \cup {NoQuery}]
  /\ fate \in [Threads -> {"none", "queued", "accepted", "refused", "fenced", "unfenced"}]
  /\ pending \subseteq Work
  /\ waits \in [Threads -> SUBSET (Work \cup {Never(t) : t \in Threads})]
  /\ {cleaning, mixed} \subseteq SUBSET Threads

ProfilingInit ==
  /\ env \in Environments
  /\ sampler \in {FALSE} \cup {s \in {TRUE} : sample_gpu_counters}
  /\ started = FALSE
  /\ window = {}
  /\ pc = [t \in Threads |-> "idle"]
  /\ recording = [t \in Threads |-> EmptyBatch]
  /\ outer = [t \in Threads |-> NoQuery]
  /\ oneShot = [t \in Threads |-> EmptyBatch]
  /\ fate = [t \in Threads |-> "none"]
  /\ handed = [t \in Threads |-> EmptyBatch]
  /\ cleaning = {}
  /\ pending = {}
  /\ waits = [t \in Threads |-> {}]
  /\ lost = FALSE
  /\ mixed = {}
  /\ leaked = FALSE
  /\ late = {}

-----------------------------------------------------------------------------
(* MaliGpuProfiler.  Its mutex makes Start and StopAndProcess atomic.      *)

Sampled == {t \in Threads : pc[t] \in SampledCall}

\* Start does nothing without a sampler and while sampling is on; the sampler
\* may fail to start.
Start(t) ==
  /\ \/ started' = started /\ window' = window
     \/ sampler /\ ~ started /\ started' = TRUE /\ window' = {}
  /\ mixed' = IF started \/ Sampled # {} THEN mixed \cup Sampled \cup {t} ELSE mixed
  /\ UNCHANGED <<sampler, leaked, late>>

\* What a sampled call of a thread is there to measure.
OwnWork(t) == {<<t, IF pc[t] = "stop" THEN "sampled" ELSE "one_shot">>}

\* Mutant: started is not reset.
StopKeepsStarted(t) ==
  /\ window' = {} /\ leaked' = FALSE
  /\ mixed' = mixed \ {t}
  /\ UNCHANGED <<sampler, started, late>>

\* StopAndProcess reports what the window holds, unless sample_now fails.  When
\* stop_sampling fails it returns with started still true.
StopAndProcess(t) ==
  /\ \/ started' = FALSE /\ window' = {} /\ leaked' = FALSE
     \/ started /\ UNCHANGED <<started, window>> /\ leaked' = TRUE
  /\ mixed' = mixed \ {t}
  /\ late' = late \cup (OwnWork(t) \cap waits[t])
  /\ UNCHANGED sampler

-----------------------------------------------------------------------------
(* Recording a copy: a scoped query around the dispatches of the copy, and *)
(* one around each of them.                                                *)

Goto(t, p) == pc' = [pc EXCEPT ![t] = p]

\* The work of the command buffer of a thread, which a thread may record again
\* or free only after it has run.
OfBatch(t) == {<<t, "sampled">>, <<t, "plain">>}
NotPending(t) == pending \cap (OfBatch(t) \cup {<<t, "other">>}) = {}

\* vkFreeCommandBuffers destroys staging resources with global_lock held.
LockFree == \A t \in Threads : pc[t] # "free"

BeginCopy(t) ==
  /\ pc[t] = "idle" /\ NotPending(t) /\ <<t, "copies">> \in Does[env]
  /\ \E granted \in Grants(t, recording[t]) :
       /\ recording' = [recording EXCEPT ![t] =
                          [MakeScopedTimestampQuery(@, granted) EXCEPT !.used = TRUE]]
       /\ outer' = [outer EXCEPT ![t] = QueryMade(recording[t], granted)]
  /\ Goto(t, "copy")
  /\ UNCHANGED <<env, sampleVars, oneShot, batchVars, driverVars>>

DispatchInCopy(t) ==
  /\ pc[t] = "copy" /\ <<t, "dispatches">> \in Does[env] /\ ~ sample_gpu_counters
  /\ \E granted \in Grants(t, recording[t]) :
       recording' = [recording EXCEPT ![t] = ScopedDispatch(@, granted)]
  /\ UNCHANGED <<env, sampleVars, pc, outer, oneShot, batchVars, driverVars>>

EndCopy(t) ==
  /\ pc[t] = "copy"
  /\ recording' = [recording EXCEPT ![t] = End(@, outer[t])]
  /\ outer' = [outer EXCEPT ![t] = NoQuery]
  /\ Goto(t, "idle")
  /\ UNCHANGED <<env, sampleVars, oneShot, batchVars, driverVars>>

\* Begin and reset leave currentStagingResources as they are: queries of the
\* commands that are gone stay in it.
BeginAgain(t) ==
  /\ pc[t] = "idle" /\ NotPending(t) /\ recording[t].pools # <<>>
  /\ recording' = [recording EXCEPT ![t].resets = {}, ![t].written = {}, ![t].again = TRUE]
  /\ UNCHANGED <<env, sampleVars, pc, outer, oneShot, batchVars, driverVars>>

FreeCommandBuffer(t) ==
  /\ pc[t] = "idle" /\ NotPending(t) /\ LockFree /\ recording[t].used
  /\ Goto(t, "free")
  /\ UNCHANGED <<env, sampleVars, recordVars, batchVars, driverVars>>

\* ~StagingResources of a command buffer that was not submitted.
Freed(t) ==
  /\ pc[t] = "free"
  /\ recording' = [recording EXCEPT ![t] = EmptyBatch]
  /\ Goto(t, "idle")
  /\ UNCHANGED <<env, sampleVars, outer, oneShot, batchVars, driverVars>>
FreeReturns(t) == Freed(t) /\ Answered(recording[t], FALSE)

-----------------------------------------------------------------------------
(* DispatchOneShotAndSample: a dispatch in a command buffer of its own.    *)

\* Up to CreateFence; a call that is refused before it records changes nothing.
OneShotRecord(t) ==
  /\ pc[t] = "copy" /\ <<t, "dispatches">> \in Does[env] /\ sample_gpu_counters /\ LockFree
  /\ \E granted \in Grants(t, EmptyBatch) :
       oneShot' = [oneShot EXCEPT ![t] = ScopedDispatch(EmptyBatch, granted)]
  /\ Goto(t, "one_shot_start") \/ Goto(t, "one_shot_dropped")
  /\ UNCHANGED <<env, sampleVars, recording, outer, batchVars, driverVars>>

\* EndCommandBuffer or CreateFence failed: cleanup_registry, and the destructor
\* of the staging resources asks for the queries of commands that never ran.
Dropped(t) ==
  /\ pc[t] = "one_shot_dropped" /\ LockFree
  /\ oneShot' = [oneShot EXCEPT ![t] = EmptyBatch]
  /\ Goto(t, "copy")
  /\ UNCHANGED <<env, sampleVars, recording, outer, batchVars, driverVars>>
OneShotDropped(t) == Dropped(t) /\ Answered(oneShot[t], FALSE)

OneShotStart(t) ==
  /\ pc[t] = "one_shot_start"
  /\ Start(t)
  /\ Goto(t, "one_shot_submit")
  /\ UNCHANGED <<env, recordVars, batchVars, driverVars>>

\* A submission is late no longer when the thread makes another one of its kind,
\* unless it is still pending or has just been counted: then the two count as one.
Resubmitted(w) == late' = late \ ({w} \ (pending \cup window))

\* A refused submission is only logged: the wait that follows is for a fence
\* nobody signals.
OneShotSubmit(t) ==
  /\ pc[t] = "one_shot_submit"
  /\ \/ /\ ~ lost
        /\ pending' = pending \cup {<<t, "one_shot">>}
        /\ waits' = [waits EXCEPT ![t] = {<<t, "one_shot">>}]
     \/ /\ pending' = pending
        /\ waits' = [waits EXCEPT ![t] = {Never(t)}]
  /\ Resubmitted(<<t, "one_shot">>)
  /\ Goto(t, "one_shot_wait")
  /\ UNCHANGED <<env, sampler, started, window, mixed, leaked, recordVars, batchVars, lost>>

\* The result of the wait is not looked at.
OneShotWaited(t) ==
  /\ pc[t] = "one_shot_wait"
  /\ Goto(t, "one_shot_stop")
  /\ UNCHANGED <<env, sampleVars, recordVars, batchVars, driverVars>>
OneShotWait(t) == OneShotWaited(t) /\ (waits[t] = {} \/ lost)

OneShotStop(t) ==
  /\ pc[t] = "one_shot_stop"
  /\ StopAndProcess(t)
  /\ Goto(t, "one_shot_cleanup")
  /\ UNCHANGED <<env, recordVars, batchVars, driverVars>>

\* The command buffer is freed even if it is still pending.
OneShotCleaned(t) ==
  /\ pc[t] = "one_shot_cleanup" /\ LockFree
  /\ oneShot' = [oneShot EXCEPT ![t] = EmptyBatch]
  /\ waits' = [waits EXCEPT ![t] = {}]
  /\ Goto(t, "copy")
  /\ UNCHANGED <<env, sampleVars, recording, outer, batchVars, pending, lost>>
OneShotCleanup(t) == OneShotCleaned(t) /\ Answered(oneShot[t], waits[t] = {})

-----------------------------------------------------------------------------
(* QueueSubmit and QueueSubmit2; only the first samples.                   *)

InSubmit == {"start", "submit", "submit_sampled", "submit_other", "wait_idle", "stop", "fence"}

\* The application calls one vkQueueSubmit at a time on a queue.
QueueSubmit(t) ==
  /\ pc[t] = "idle" /\ NotPending(t) /\ LockFree /\ <<t, "submits">> \in Does[env]
  /\ \A u \in Threads : QueueOf[u] = QueueOf[t] => pc[u] \notin InSubmit
  /\ recording' = [recording EXCEPT ![t] = EmptyBatch]
  /\ \/ /\ recording[t].used /\ fate[t] = "none"
        /\ fate' = [fate EXCEPT ![t] = "queued"]
        /\ handed' = [handed EXCEPT ![t] = recording[t]]
        /\ \/ sample_gpu_counters /\ Goto(t, "start")
           \/ Goto(t, "submit")
     \/ ~ recording[t].used /\ Goto(t, "submit_other") /\ UNCHANGED <<fate, handed>>
  /\ UNCHANGED <<env, sampleVars, outer, oneShot, cleaning, driverVars>>

SubmitStart(t) ==
  /\ pc[t] = "start"
  /\ Start(t)
  /\ Goto(t, "submit_sampled")
  /\ UNCHANGED <<env, recordVars, batchVars, driverVars>>

Submitting == {"submit", "submit_sampled", "submit_other"}
KindOf(t) == CASE pc[t] = "submit_sampled" -> "sampled"
               [] pc[t] = "submit"         -> "plain"
               [] OTHER                    -> "other"

OnQueue(q) == {w \in Work : IF w[2] = "one_shot" THEN q = DevQueue ELSE q = QueueOf[w[1]]}

\* The batch a thread submits, if the finalizer still has it.
Settled(t, from, to) == [fate EXCEPT ![t] = IF @ = from THEN to ELSE @]

SubmitAccepted(t) ==
  /\ pc[t] \in Submitting /\ ~ lost
  /\ pending' = pending \cup {<<t, KindOf(t)>>}
  /\ fate' = Settled(t, "queued", "accepted")
  /\ Resubmitted(<<t, KindOf(t)>>)
  /\ \/ pc[t] = "submit_other" /\ Goto(t, "idle") /\ UNCHANGED waits
     \/ pc[t] = "submit" /\ Goto(t, "fence") /\ UNCHANGED waits
     \/ /\ pc[t] = "submit_sampled" /\ Goto(t, "wait_idle")
        /\ waits' = [waits EXCEPT ![t] = pending' \cap OnQueue(QueueOf[t])]
  /\ UNCHANGED <<env, sampler, started, window, mixed, leaked, recordVars, handed, cleaning, lost>>

\* The error is returned at once; sampling, if it was started, goes on.
SubmitRefused(t) ==
  /\ pc[t] \in Submitting
  /\ fate' = Settled(t, "queued", "refused")
  /\ leaked' = (leaked \/ (pc[t] = "submit_sampled" /\ started))
  /\ Goto(t, "idle")
  /\ mixed' = mixed \ {t}
  /\ UNCHANGED <<env, sampler, started, window, late, recordVars, handed, cleaning, driverVars>>

\* Mutant: the counters are read without waiting for the queue.
QueueNotAwaited(t) ==
  /\ pc[t] = "wait_idle"
  /\ waits' = [waits EXCEPT ![t] = {}]
  /\ Goto(t, "stop")
  /\ UNCHANGED <<env, sampleVars, recordVars, batchVars, pending, lost>>

\* The result of the wait is not looked at.
QueueWaited(t) ==
  /\ pc[t] = "wait_idle"
  /\ Goto(t, "stop")
  /\ UNCHANGED <<env, sampleVars, recordVars, batchVars, driverVars>>
QueueWaitIdle(t) == QueueWaited(t) /\ (waits[t] = {} \/ lost)

SubmitStop(t) ==
  /\ pc[t] = "stop"
  /\ StopAndProcess(t)
  /\ waits' = [waits EXCEPT ![t] = {}]
  /\ Goto(t, "fence")
  /\ UNCHANGED <<env, recordVars, batchVars, pending, lost>>

\* The empty submission that signals the fence of the batch is another call of
\* the driver: refused, its error is returned and the fence never signals,
\* whatever becomes of the batch.
FenceAccepted(t) ==
  /\ pc[t] = "fence" /\ ~ lost
  /\ fate' = Settled(t, "accepted", "fenced")
  /\ Goto(t, "idle")
  /\ UNCHANGED <<env, sampleVars, recordVars, handed, cleaning, driverVars>>

FenceRefused(t) ==
  /\ pc[t] = "fence"
  /\ fate' = Settled(t, "accepted", "unfenced")
  /\ Goto(t, "idle")
  /\ UNCHANGED <<env, sampleVars, recordVars, handed, cleaning, driverVars>>

-----------------------------------------------------------------------------
(* The GPU and the finalizer.                                              *)

Execute(w) ==
  /\ w \in pending /\ ~ lost
  /\ pending' = pending \ {w}
  /\ waits' = [t \in Threads |-> waits[t] \ {w}]
  /\ window' = IF started /\ w[2] \in {"sampled", "one_shot"} THEN window \cup {w} ELSE window
  /\ UNCHANGED <<env, sampler, started, mixed, leaked, late, pc, recordVars,
                 batchVars, lost>>

\* Waits return at once from then on, and nothing that is pending runs.
DeviceLost ==
  /\ env \in MayLose /\ ~ lost /\ lost' = TRUE
  /\ pending' = {}
  /\ UNCHANGED <<env, sampleVars, pc, recordVars, batchVars, waits>>

FinTake(t) ==
  /\ cleaning = {} /\ fate[t] # "none" /\ LockFree
  /\ cleaning' = {t}
  /\ UNCHANGED <<env, sampleVars, pc, recordVars, fate, handed, driverVars>>

\* The fence of a batch signals when the batch has run, if the submission that
\* signals it was made.
FenceSignaled(t) == fate[t] = "fenced" /\ pending \cap OfBatch(t) = {}

Cleaned(t) ==
  /\ cleaning = {t} /\ LockFree
  /\ cleaning' = {}
  /\ fate' = [fate EXCEPT ![t] = "none"]
  /\ handed' = [handed EXCEPT ![t] = EmptyBatch]
  /\ UNCHANGED <<env, sampleVars, pc, recordVars, driverVars>>
FinClean(t) == Cleaned(t) /\ (FenceSignaled(t) \/ lost) /\ Answered(handed[t], TRUE)

\* A wait for a fence, a queue or the results of queries fails on a device that is
\* not lost (it is out of memory, say): the layer goes on as if it had not, with
\* work that may be pending or may never have been submitted.
WaitFails(t) ==
  /\ env \in MayErr
  /\ \/ OneShotWaited(t) \/ QueueWaited(t)
     \/ Freed(t) \/ Dropped(t) \/ OneShotCleaned(t) \/ Cleaned(t)

-----------------------------------------------------------------------------

\* What a thread does of its own accord, and what it does inside a call.
Begins(t) == BeginCopy(t) \/ BeginAgain(t) \/ FreeCommandBuffer(t) \/ QueueSubmit(t)
Unlocked(t) ==
  \/ FreeReturns(t) \/ OneShotStart(t) \/ OneShotSubmit(t) \/ OneShotWait(t) \/ OneShotStop(t)
  \/ SubmitStart(t) \/ SubmitAccepted(t) \/ SubmitRefused(t) \/ QueueWaitIdle(t)
  \/ SubmitStop(t) \/ FenceAccepted(t) \/ FenceRefused(t)
Locked(t) == OneShotDropped(t) \/ OneShotCleanup(t)
Dispatches(t) == DispatchInCopy(t) \/ OneShotRecord(t)

GpuWorks(t) == \E k \in Kinds : Execute(<<t, k>>)
Finalizer == \E t \in Threads : FinTake(t) \/ FinClean(t)

ProfilingNext ==
  \/ \E t \in Threads : \/ Begins(t) \/ Unlocked(t) \/ Locked(t) \/ Dispatches(t)
                        \/ EndCopy(t) \/ GpuWorks(t) \/ WaitFails(t)
  \/ Finalizer
  \/ DeviceLost

\* A thread inside a call runs, the GPU gets round to the work of every thread,
\* whoever asks for global_lock gets it in the end, and a copy has finitely many
\* dispatches.  Nothing makes a wait fail.
ProfilingFairness ==
  /\ \A t \in Threads : /\ WF_profilingVars(Unlocked(t))
                        /\ SF_profilingVars(Locked(t))
                        /\ SF_profilingVars(EndCopy(t))
                        /\ WF_profilingVars(GpuWorks(t))
  /\ SF_profilingVars(Finalizer)

ProfilingSpec == ProfilingInit /\ [][ProfilingNext]_profilingVars /\ ProfilingFairness

-----------------------------------------------------------------------------
(* Properties.                                                             *)

\* What StopAndProcess is about to report (mali_gpu_profiler.cpp:107) is the
\* submission it is called for and no other sampled one or one-shot: unless the
\* call overlapped another sampled call, found sampling started, or the device
\* is lost.  A wait that fails (queue.cpp:185, command_buffer.cpp:119) has two
\* consequences: its call reports while its own submission may not have run, or
\* never will, and that submission may run in the window of a later call.
ReportAttributed ==
  \A t \in Threads :
    /\ pc[t] \in {"stop", "one_shot_stop"} /\ started /\ ~ lost /\ t \notin mixed
    /\ OwnWork(t) \cap (waits[t] \cup late) = {} /\ Never(t) \notin waits[t]
    => window \ late = OwnWork(t)

\* Sampling does not outlive the calls that started it (queue.cpp:173,
\* command_buffer.cpp:110), but for a refused submission or a failed stop.
SamplingEnds == started /\ Sampled = {} => leaked

\* Every query whose result Cleanup waits for (staging_resources.cpp:197) was
\* written by commands that first reset its pool, and lies inside the pool, for
\* a batch that has no queries of an abandoned recording.
Sound(b) ==
  b.again \/ /\ Asked(b) = b.written
             /\ \A q \in b.written : q[1] \in b.resets /\ q[2] < kPoolBlockSize
QueriesAnswered ==
  \A t \in Threads : Sound(handed[t]) /\ Sound(oneShot[t]) /\ (pc[t] = "idle" => Sound(recording[t]))

\* A thread waits for ever for the fence of a refused one-shot, for the queries
\* of commands that never ran (if the wait for that fence failed, those of the
\* refused one-shot), or for global_lock that such a thread holds.
Hangs(t) ==
  \/ pc[t] = "one_shot_wait" /\ waits[t] = {Never(t)}
  \/ pc[t] = "free" /\ ~ Answered(recording[t], FALSE)
  \/ pc[t] = "one_shot_dropped" /\ ~ Answered(oneShot[t], FALSE)
  \/ pc[t] = "one_shot_cleanup" /\ Never(t) \in waits[t] /\ ~ Answered(oneShot[t], FALSE)

LockKept == \E u \in Threads : pc[u] = "free" /\ Hangs(u)

\* A call comes back (command_buffer.cpp:119, queue.cpp:185): nothing but the
\* waits above stops it.
CallsReturn == \A t \in Threads : pc[t] # "idle" ~> (pc[t] = "idle" \/ Hangs(t) \/ LockKept)

\* The finalizer gets past a batch (staging_resources.cpp:200) that was submitted
\* with the submission that signals its fence (queue.cpp:189-198) and has no
\* queries of an abandoned recording, unless it waits for the lock of a thread
\* that hangs.
BatchesCleaned ==
  \A t \in Threads :
    cleaning = {t} ~>
      (cleaning # {t} \/ fate[t] \in {"refused", "unfenced"} \/ handed[t].again \/ LockKept)
=============================================================================
