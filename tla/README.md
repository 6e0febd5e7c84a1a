# A TLA+ model of bcn_layer

`bcn_layer` is a Vulkan layer that lets applications use BC1-7 textures on GPUs that do not support
them: it answers that the formats are there, creates the images in another format, and turns every
copy of BCn blocks into compute dispatches that decompress (and, if asked, re-encode) the blocks
before the real copy. The layer is small, but it lives in between: several application threads
call it, the driver executes what it recorded much later, a thread of its own gives the resources
back, and what it injects must not show in the application's own command buffers. This directory
holds models of those parts, the TLC runs that check them and TLAPS proofs about them.

Paths of the form `queue.cpp:165` are relative to `src/src/` of the repository.

## 1. Inventory

| Component | Code | State | Operations | Status |
|---|---|---|---|---|
| Staging resource lifecycle | `queue.cpp`, `staging_resources.cpp`, `bcn_layer.cpp:47-70, 548-578, 1079-1116` | each command buffer's `currentStagingResources`, the device's `stagingResourcesQueue`, the `SyncPool`, `stop_thread`, `hasCleanupWork`, `global_lock` | `QueueSubmit(2)`, `MakeFence`, `FinalizerThread`, `WaitForCompletion`, `Cleanup`, `DestroyDevice`, the command buffer calls | `StagingLifecycle` |
| Descriptor set allocator | `bcn_layer.hpp:61-85`, `bcn_layer.cpp:72-144` | `activePool`, `exhaustedPools`, `allocated_count`, its lock | `allocate`, `createNewPool`, `free`, `cleanup` | `DescriptorSetAllocator` |
| Compute bind state and scope guard | `pipeline_state.cpp/.hpp`, `command_buffer.cpp:201-306` | `computePipelineState` of a command buffer, `m_snapshot` of a scope | begin, reset, bind pipeline, bind sets, push constants; constructor and destructor of `ScopedPipelineStateSnapshot` | `PipelineState` |
| Copy recording | `command_buffer.cpp:308-660`, `bcn.cpp:539-1303`, `buffer.cpp:9-82` | the buffers, sets and views of a copy and their owners, the recorded commands | the five copy entry points, `TranscodeAndCopy*`, `decompress_bcn_compute`, `add_debug_watermark`, `encode_etc2_compute`, `encode_astc_compute` | `TranscodeCopy` |
| Object registry | `buffer.cpp`, `image.cpp`, `fence.cpp`, `command_buffer.cpp:1-22, 143-199` | `buffersMap`, `imagesMap`, `fencesMap`, `commandBuffersMap` | create, bind, look up, destroy | `ObjectRegistry` |
| Measuring | `staging_resources.cpp:127-330`, `mali_gpu_profiler.cpp`, `command_buffer.cpp:23-141`, `queue.cpp:165-190` | pool blocks of a batch, the open scoped queries, `started` and the sampler, the one-shot's own staging resources | `MakeScopedTimestampQuery` and its scope, `CollectTimestampQueryPool`, `Start`, `StopAndProcess`, `DispatchOneShotAndSample` | `Profiling` |
| Format support and images | `bcn_layer.cpp:240-360`, `bcn.cpp:24-190`, `image.cpp:24-186` | the maps of features and properties, the flags of an image, the application's format list | format and image queries, create an image or a view | `FormatSupport`, `DeviceSession` |
| Instance, device and pipeline creation | `bcn_layer.cpp:160-300, 600-1116`, `bcn.cpp:208-537` | the maps, the fields of `device`, the layer's objects on a device | create and destroy an instance or a device, enumerate, `create_bcn_compute_pipelines` | `DeviceSession`, `Environment` |
| Block decoders | `s3tc.comp`, `rgtc.comp`, `bc6.comp`, `bc7.comp` and their `_iv` variants | none | block to texels | not modelled; S3TC and RGTC planned |
| Encoders, watermark, analysis | `*.slang`, `watermark.comp` | none | texels to block | not modelled: numerical search, no protocol |
| Dispatch tables | `vk_func.hpp`, `vulkan/vk_layer.h` | function pointers | fetched by name | not modelled: glue; the one table per instance is `DeviceSession!described` |
| Logger, build files, data | `logger.cpp`, `CMakeLists.txt`, `ascii.py`, `*.json`, `*.csv` | - | - | not modelled: no behaviour of interest |

How they interact. An intercepted copy finds the image and buffer in the **registry**, opens a scope
of the **bind state** guard, and **copy recording** allocates descriptor sets from the **allocator**,
creates staging buffers and views, records its dispatches and hands everything to the command
buffer's current **staging resources**. `QueueSubmit` moves those to the device queue, adds a
semaphore to the application's submission and follows it with an empty submission that waits for the
semaphore and signals a fence. The finalizer thread waits for the fence, gives semaphore and fence
back to the pool, the sets back to the allocator and destroys the rest. `DestroyDevice` stops the
thread and destroys what is left. Before any of this the application has asked what formats there are
and created a device, and what the layer answered and enabled then decides which images are
**decoded**, which are **transcoded** and which **pipelines** exist. When it **measures**, injected
commands carry timestamp queries that `Cleanup` collects, and one sampler of the process is started
and stopped around submissions, and around dispatches that then run one at a time.

What is hard: the batch is visible to the finalizer before the driver has the work; a refused
submission, of the work or of its fence, leaves a fence nobody signals; a wait that fails counts as one
that succeeded; the condition variable is notified without the lock;
`global_lock` is not recursive; most lookups take no lock; the driver may reuse handles at once;
Vulkan's layout compatibility rules decide what a restored bind disturbs; nearly every step of a copy
may fail, and callers ignore most results; queries are collected with a wait that has no end; the
sampler is shared by threads that submit at once; what is answered, requested, created and destroyed
is decided by the same few facts in places far apart. `PROJECT.json` lists these hazards at their lines.

## 2. Staging lifecycle

`StagingLifecycle.tla`. A *batch* is a `StagingResources` object that is not empty; a *pair* is the
semaphore and fence that `SyncPool::Acquire` returns. `place[b]` says where the `unique_ptr` of a batch
is: in a command buffer (`cb`), in `stagingResourcesQueue` (`queue`), in the finalizer's local vector
(`local`), in its local pointer (`cur`), or nowhere (`none`: freed). The other variables carry the
names of the code. What the driver owns - `sem`, `fence`, `exec`, `lost` - is modelled from how the
layer uses it.

| Actions | Code |
|---|---|
| `AllocateCommandBuffer`, `FreeCommandBuffer`, `BeginCommandBuffer`, `ResetCommandBuffer`, `RecordCopy` | command buffer calls under valid usage; begin and reset leave the batch of an abandoned recording in place, as the code does |
| `DestroyCommandPool` | not intercepted: the map entry and its batch stay |
| `SubmitEnter`, `SubmitCollect`, `SubmitUnlock`, `SubmitNotify`, `SubmitAccepted`/`Refused`, `FenceAccepted`/`Refused`, `SubmitReturn` | one `QueueSubmit` call, one action between two points where another thread can be seen |
| `GpuComplete`, `GpuFence`, `GpuFenceReused`, `DeviceLost` | the driver |
| `FinTop` ... `FinFree` | `FinalizerThread` and `Cleanup`; `FinAcquire` and `FinBlock` separate the predicate from the sleep, `FinSpuriousWake` is the one the standard allows |
| `FinWait`, `FinWaitFails` | `WaitForCompletion`: the fence has signaled or the device is lost; any other error of `WaitForFences` (`staging_resources.cpp:118`), which counts as completion on a live device too |
| `DestroyStop` ... `DestroyFinish`, `DestroyRelock` | `DestroyDevice`; `DestroyRelock` is the second lock of `global_lock` by the thread that holds it |
| `DestroyWaitIdle`, `DestroyWaitIdleFails` | `DeviceWaitIdle`, whose result is ignored (`bcn_layer.cpp:1093`) |

**Waits that fail.** After `FinWaitFails` the code frees resources that the GPU may be using and puts a
pair into the pool whose semaphore or fence is in use; the next batch gets that pair, and the two
submissions share it. Three history variables follow the damage, and the properties leave out exactly
what they name: `givenUp`, the pairs a wait failed for before their fence had signaled (a pair never
leaves it); `adrift`, the batches released with such a pair, until they are filled again; `idleFailed`.
`Faults` counts the device loss and the pairs given up, `MaxFaults` bounds it; the wait for a pair that
is given up already may fail again and again. What a driver does with a semaphore and a fence in two
submissions is undefined. The model lets the fence of such a pair signal at any time until the batch
that has it is released (`GpuFenceReused`), lets the two signals of its semaphore come as one
or the submission that waits for it never run, and assumes that the effect stays with that pair.

`StagingReclamation.tla` is the abstract specification: a batch is filled, handed over, executed,
retired and reclaimed, in this order, with no threads, locks or fences. The wait for it may fail
(`GiveUp`): then its stage is `unknown`, from which it is retired, and from then on (`failed`) batches may
be handed over into that stage. `StageOf` reads the stage of a batch off its owner and its pair, and
`ImplementsReclamation` says that every step of the detailed module is a step or a stutter of the
abstract one: on a live device a batch goes from executing to retired through executed, or through a
`GiveUp`.

Properties (safety):

* `NoUseAfterFree`: no command buffer runs with freed resources, but for a batch whose own wait failed
  or that was given a pair whose wait had failed (`adrift`).
* `PoolClean`: a pooled pair is idle and signaled until the device closes or is lost, but for the pairs
  in `givenUp`: a failed wait spoils the one pair it was for.
* `SyncExclusive`, `NoMissedWakeup`: no exception, failed waits or not.
* `ShutdownReclaims`: when `DestroyDevice` returns nothing is left behind, and no fence it destroys is
  pending, but those in `givenUp` and but for a device that is lost or whose `DeviceWaitIdle` failed.

Liveness: `EventuallyReclaimed`, `ShutdownOutcome`. Both name the ways in which the code does hang and say
that there are no others: the finalizer waits for the fence of a refused submission, or for one that two
batches share because a wait failed (`Stuck`); `DestroyDevice` locks `global_lock` twice when a batch is
left in the queue; its notification may fall between the finalizer's predicate and its sleep (excluded by
the premise); and the device never gets idle, because a submission waits for a semaphore whose one signal
another submission, sharing it after a failed wait, has consumed.

Fairness. A thread inside `QueueSubmit` or `DestroyDevice`, the finalizer and the GPU are scheduled
(weak fairness: nothing takes their step away). A thread that keeps asking for `global_lock` gets it
(strong fairness of `FinAcquire` and `FinRelease`, because others may take it again and again). The
application is under no obligation, nor are device loss, failed waits, `GpuFenceReused` and spurious wakeups.

## 3. Descriptor set allocator

`DescriptorSetAllocator.tla`. `allocate` is split at every call of the driver: `Try` asks the pool,
which has room, is full or fragmented, or fails; `Rotate` is the body of the loop; `Grow` and
`AllocateFresh` are what follows it; `Return` counts and unlocks. `Free` is called with the pool that
`AddDescriptorSet` recorded, `Cleanup` by `DestroyDevice`. `asked` is a history variable: the pools
this call has been refused by. `home` is the driver's knowledge of which pool a set lives in, `given`
the layer's; `FreedToOrigin` relates the two.

The lock is held from `AllocateEnter` to `Return`; the steps are separate so that TLC and the proofs
see what the rotation passes through, and so that the model without the lock (a mutant) goes wrong.
Weak fairness of a thread's own steps is enough for `AllocationReturns`.

## 4. Bind state

`PipelineState.tla` keeps two copies of the driver's compute state of one command buffer: `gpu`,
after everything recorded, and `want`, after the application's own calls only. `tracked` and
`m_snapshot` are the layer's. The driver's operators implement "pipeline layout compatibility": a bind
through a layout disturbs sets bound through layouts of another class. `Transparent` says that
wherever the application has set something, `gpu` and `want` agree when no scope is open.
`NothingResurrected` says the restore brings back nothing older than the last begin or reset.

The tracker cannot represent everything; `TrackedUse` says what it can: sets and bytes within its
arrays, dynamic offsets bound one set at a time, compatible layouts, one push constant range for each
layout and stage mask. Within it both properties hold; outside two runs show what happens.

## 5. Copy recording

`TranscodeCopy.tla` follows one copy of one or more regions from entry to return, and then the queue that
executes what was recorded. A *place* is a buffer of the layer, the image's part of a region, or the
application's source; commands name the places they read and write, and `memory` holds, for each
place, the list of what was done to the source's blocks to get what is there. A recorded command goes
into `cmds` and is executed by `ExecuteNext` once the copy has returned, oldest first; a dispatch that is
sampled is executed at once (`Dispatch`), before anything that is in `cmds`. Every buffer, descriptor
set, view and one-shot dispatch may be refused. A null buffer that is dereferenced ends in `pc = "crashed"`.

`Delivered` says that, everything executed, every region whose creations were all granted holds
decompressed-then-watermarked-then-encoded texels, as its flags ask. It fails with image views, which
are on by default (section 10), so the passing run checks `DeliveredThroughStaging`.
`ReadsOrdered` asks for a barrier of the right stages between writer and reader of every buffer of
the layer. `NothingLost` says what may not reach the staging resources: only intermediate buffers of
a region whose set or view was refused. `NullOnlyIfRefusedOr3D` bounds the null dereferences.

## 6. Object registry

`ObjectRegistry.tla` is the one protocol the four maps share. `live` is the driver's set of handles,
`map` the layer's, `owned` what the application knows. A destroyed handle is free for the driver at
once, before the layer erases it, which is why the order of `DestroyInDriver`, `Erase`,
`CreateInDriver` and `Insert` matters. A lookup without the lock that overlaps a change may miss an
entry that is there (`raced`). `DestroyCommandPool` is the call the layer does not intercept.

## 7. Measuring

`Profiling.tla`. Each thread records and submits a command buffer of its own. A batch is reduced to its
query pools (`pools`, as `allocatedQueries`), the pools its commands reset and the queries they write;
`Asked` is what `Cleanup` asks for. `GetQueryPoolResults` is called with WAIT, so a batch is cleaned
only once `Answered`: every query asked for is written by commands that ran, or the device is lost.
`Start` and `StopAndProcess` are atomic, as their mutex makes them; everything between them is not.

| Actions | Code |
|---|---|
| `BeginCopy`, `DispatchInCopy`, `EndCopy` | a copy's scoped query, one in it for each dispatch, and the end of the scope |
| `BeginAgain`, `FreeCommandBuffer`, `FreeReturns` | begin or reset, which leave the queries of the recording before; `vkFreeCommandBuffers`, which destroys the batch with `global_lock` held |
| `OneShotRecord` ... `OneShotCleanup`, `OneShotDropped` | `DispatchOneShotAndSample`, the last for a failed `EndCommandBuffer` or `CreateFence` |
| `QueueSubmit` ... `SubmitStop`, `SubmitRefused` | a submission and its sampling |
| `FenceAccepted`, `FenceRefused` | the empty submission that signals the fence of the batch (`queue.cpp:189-198`; 253-262 in `QueueSubmit2`), which may be refused after the batch was accepted |
| `Execute`, `DeviceLost`, `FinTake`, `FinClean` | the GPU; the finalizer with one batch of each thread |
| `WaitFails` | one of the six waits returns an error on a device that is not lost |

Each wait is two definitions: what the code does next whatever the wait returned (`OneShotWaited`,
`QueueWaited`, `Freed`, `Dropped`, `OneShotCleaned`, `Cleaned`), since no result of `WaitForFences`,
`QueueWaitIdle` or `GetQueryPoolResults` changes where the code goes, and the same with the wait
successful (`OneShotWait`, `QueueWaitIdle`, `FreeReturns`, `OneShotDropped`, `OneShotCleanup`,
`FinClean`). `WaitFails` takes one of the former. `waits` of a thread keeps what its failed wait was for
until the call is over. A one-shot whose command buffer is freed while it is pending is assumed to run
all the same, or to take the device with it.

* `ReportAttributed`: what is about to be reported is the submission the call was made for, exactly.
  It excludes a call that overlapped another sampled one or found sampling started (`mixed`): the
  second `Start` is dropped and the first `StopAndProcess` ends both, so the report mixes them. After
  a wait that failed (`queue.cpp:185`, `command_buffer.cpp:119`) a call reports although its own work has not
  run, or never will; such a report is left out, and the work, when it runs (`late`), is not held against
  the call in whose window it falls. `late` counts two submissions of one kind by one thread as one.
* `SamplingEnds`: sampling left on with nobody sampling is the work of a refused submission
  (`queue.cpp:179` returns at once) or a failed `stop_sampling` (`leaked`).
* `QueriesAnswered`: what is asked for is what was written, within pools that were reset. It excludes
  batches with queries of an abandoned recording (`again`), for which it is false.
* `CallsReturn`, `BatchesCleaned` (liveness) name the ways in which a call or the finalizer does hang,
  and say that there are no others. A call: the fence of a refused one-shot; the queries of commands that
  never ran, of a freed or dropped recording, or of a refused one-shot if the wait for its fence failed.
  The finalizer: the fence of a batch that was refused, or that was accepted while the submission of
  its fence was refused (`unfenced`); the queries of an abandoned recording (`again`). Both: `global_lock`
  kept by a thread that hangs in `vkFreeCommandBuffers`.

Fairness: a thread inside a call runs (`WF` of `Unlocked`); one that asks for `global_lock` gets it
(`SF` of `Locked` and of `Finalizer`, which others may disable again and again); the GPU gets round
to the work of every thread (`WF` of `GpuWorks`); a copy has finitely many dispatches (`SF` of
`EndCopy`, since a dispatch as a one-shot takes the thread away from the point where the copy ends).
Nothing makes the application call, a wait fail, or the device be lost.

## 8. The way to a device

`Environment.tla` holds the environment variables, which never change. `FormatSupport.tla` has the pure
part: the format an image gets instead of a BCn one, the two conditions under which a format is the
layer's business (`is_supported_bcn_format` for images, `AnsweredByLayer` for queries), and the answer
to an image query, with the tests of plain enumerations as bits, as the code has them.

`DeviceSession.tla` has the protocol. The maps `featuresMap`, `propertiesMap` and
`driverPropertiesMap` are keyed by the dispatch table, which all physical devices of an instance share:
`described` is the one device whose entries they hold - the last of the last complete enumeration,
or of an earlier instance, since `DestroyInstance` erases nothing. `RequestDevice` computes what is
asked of the driver from maps, device, environment and the application's structures;
`PipelinesCreated` and `PipelinesFail` are `create_bcn_compute_pipelines` as the set of objects that
exist after it, with the results that are looked at (`Checked`) and those that are not; `missing` is
an object whose creation failed unseen. `CreateImage` overwrites the application's format list with a
pointer into a vector that is gone when it returns, so a list used again holds the formats it did or
others. Undefined behaviour is a choice: a module handle nobody set makes the pipelines fail, the
logarithm of an extent of zero is 0 or a large number, a dangling list reads as either.

* `AnswersHonoured`: an image is decoded by the layer exactly if the layer answered for its format.
  It is false between driver versions 512.502 and 512.530, the two the code compares with, and when
  the maps changed between answer and device; both are excluded by name.
* `AnswersWithinLimits`, `RequestsSupported`, `TranscodeEnabled`: answers, requests and the formats in
  use against what the device has. They hold when the maps describe the device in question.
  `EnabledUnseen` are the features enabled without a look; the application that passes no features at
  all gets none of the layer's core ones.
* `Equipped`, `PoolHoldsSets`, `OnlyTranscodersRemain`: what is bound exists; a descriptor pool holds
  its 256 sets of any layout in use; what `DestroyDevice` forgets belongs to the transcoders.
* `ViewsCompatible`: views are compatible with the image they are of, except through a stale list.

`Session.tla` puts the two together: devices are used only while they are registered and destroyed only
at rest; the sampler belongs to the process and outlives them. `SessionSpec` is shown to imply
`ProfilingSpec` and `DeviceSpec`, so what is proved of the parts holds of the whole.

## 9. Runs

| Run | Shows | Bounds, and why they are enough |
|---|---|---|
| `lifecycle_safety` | types, the five safety invariants, refinement of `StagingReclamation` | 2 command buffers, 2 batches, 2 pairs, 2 submitting threads, no refusals and no loss, one pair whose waits may fail or a failed `DeviceWaitIdle` (`MaxFaults` 1), symmetry. Two threads overlap their calls, one call submits two command buffers, pairs are reused, a batch outlives its command buffer, and two batches share a pair after a failed wait while the other pair must stay clean |
| `lifecycle_liveness` | `EventuallyReclaimed`, `ShutdownOutcome`, refinement | 1 command buffer, 2 batches, 2 pairs, 1 thread, refusals, and a device loss or failed waits (`MaxFaults` 1); two batches put one behind another in the finalizer's queue. The refinement is checked here with refusals and loss, which the first run has no room for; the safety invariants with them are proved (section 11) |
| `lifecycle_reuse` (violation) | a command buffer submitted twice runs with freed resources | `Reuse = TRUE` |
| `allocator` | the five invariants and `AllocationReturns` | 2 threads, 3 pools (a ring with a beginning, a middle and an end), 3 sets, 2 to a pool, failing driver; `MaxCount` bounds the counter, which errors drive up |
| `pipeline_tracked` | `Transparent`, `NothingResurrected` | 2 layouts, 2 slots, 2 sets, 4 bytes, 2 pipelines; calls within `TrackedUse`, among them a call of two sets, offsets, overlapping ranges and a range ending at the limit |
| `pipeline_partial_push` (violation) | constants pushed in two parts | one layout, two bytes |
| `pipeline_mixed_layouts` (violation) | a stale slot disturbs a live one | two incompatible layouts |
| `copy_all` | the four properties of a copy | every combination of flags, 2D and 3D, both entry points, 1 or 2 regions of depth 1 or 2, every refusal; regions share only the command buffer, two are enough to confuse them. The source may be written by an earlier command of the same command buffer (`ready`) |
| `copy_default` (violation) | a default copy delivers an unwritten buffer | no variable set, one region |
| `copy_default_3d` (violation) | a default 3D copy dereferences null | no variable set, one region |
| `registry` | the three registry invariants | 3 threads, 2 handles, 2 formats, 1 memory, symmetry: a creator, a destroyer and a user of one handle, with another to mix it up with. Deadlock is checked |
| `session` | types and the thirteen properties of sections 7 and 8 | 2 threads with queues of their own, 8 environments (below) |

The environments of `session`: `Plain`, `Auto`, `ToEtc2s` and `ToAstcs` meet the machines that matter
for them (`MachinesOf`: drivers and versions on either side of each comparison, a feature missing at a
time, two devices in one machine), ask for one or two formats (`AsksOf`) and five kinds of image
(`KindsOf`), pass features in each way (`GivesOf`), and have creations that fail unseen
(`FailsUnseen`), at most one object at a time; nothing there is measured. The other four come by a device the
shortest way and then record, dispatch and submit (`Does`):

* `Submits`: two threads that copy and submit with counters, on two queues, which is what it takes to
  mix the reports of submissions;
* `Samples`: one thread with one-shots and one that submits, both with counters, and waits that fail;
* `Times`: one thread that does everything with queries and no counters: all that a batch can hang in;
  waits may fail;
* `Both`: one thread with one-shots that have queries and counters, failing waits and the only device
  that may be lost (`MayLose`).

Waits fail in three of them (`MayErr`), any number of times; submissions of work and of fences are refused in
all. `kPoolBlockSize` is 4 where the code has 128, so that a pool is full after two queries and a batch
needs a second (`MaxPools`).

The other passing runs do not check deadlock: a copy ends, an allocator is closed, a device is
destroyed, and the lifecycle and the session have the hangs that
`ShutdownOutcome` and `CallsReturn` name. The types of the allocator,
the bind state and the registry are proved (section 11) and not checked again. Each property of a passing run
is shown to be able to fail by a mutant of a modelled definition (definitions whose comment begins
"Mutant").

## 10. What the code does differently from what it says

* `lifecycle_reuse`: `queue.cpp:147` says resources are reset "in case this command buffer is
  reused", but the reused command buffer still refers to the resources that were moved out and freed.
* `pipeline_partial_push`, `pipeline_mixed_layouts`: `pipeline_state.hpp:63-64` promises that
  a snapshot of the pipeline state is saved and restored; a push in two parts loses its first part,
  and a slot bound through a layout since made incompatible is rebound over live ones.
* `copy_default`: caller (`command_buffer.cpp:363`) and callee (`bcn.cpp:1026`) disagree on when an image
  view is used: for a single slice the callee writes the image, then the caller copies its own,
  unwritten staging buffer over it.
* `copy_default_3d`: for several slices the caller passes no staging buffer and the callee uses one.
* Not runs, since no line says otherwise, but met on the way: the message at `bcn_layer.cpp:727`
  speaks of `shaderBufferInt64Atomics` where the test is of the 8-bit types, and `hasAtomic64Support` is
  computed and not used: diagnostics enable 64-bit atomics on devices that have none.

## 11. Proofs

All theorems hold for every value of the constants under the `ASSUME`s of the module, which say that names are
distinct, bounds natural numbers, limits positive, and flags
combined as `CreateDevice` combines them.

* `StagingLifecycleProofs` (facts about sequences in `SequenceFacts`). `IInv` adds to the types who owns what:
  a batch is in exactly the container that `place` says, a handed batch has a pair and no two share one, the
  free stack holds only created pairs that no batch has, once each, and the holder of `global_lock` is at a
  point where it holds it. This gives `TypeCorrect`, `PairsExclusive` and, with one more step,
  `WakeupNeverMissed`. It says nothing of time, so `GInv` follows a pair through its life while the device is
  neither lost nor closing: reset while its call runs, promised by the submission, pending, signaled,
  released. It says this of the pairs no wait has failed for. One in `givenUp` may be in two calls at once,
  and the point of the proof is that it takes no other along: calls share at most such pairs
  (`CallPairs`), and a fence that signals for the wrong submission is one of theirs. From `GInv` follow
  `PoolStaysClean` and - under the assumption `~Reuse`, which section 10 shows is
  needed - `ResourcesOutliveUse`: a batch whose commands are pending is held by a command buffer, waits for
  a fence that has not signaled, or is `Unguarded`: freed, or about to be, on the word of a pair that was given
  up. `Closing` says what is left of this once `DestroyDevice` has begun, and gives
  `ShutdownLeavesNothing`. `Refinement` is that every behaviour implements `StagingReclamation`, with reuse,
  refusals, failed waits and device loss; a failed wait is a `GiveUp`, and a batch with a pair in `givenUp`
  is in the stage `unknown` whatever its semaphore and fence do. `StageOf` reads only where a batch is,
  its pair and the state of that pair, so
  most actions are stutters and each of the others moves one batch, or the batches of one submission, one
  stage on. Two steps need more than `IInv` and `GInv`: when `DestroyDevice` begins, no batch may be
  executing, and when the finalizer releases a pair of a closing device, that batch may not be either.
  `Promises` gives both: a semaphore that is promised has a pending command buffer that will signal it, and a
  call that has not submitted yet still has the command buffers of its pairs. Unlike what `GInv` says of
  pairs, this survives the closing of the device.
* `DescriptorSetAllocatorProofs`. The inductive core is `Rotation`: while a call rotates, the pools it has
  asked are those from the initial pool to the end of the ring `Append(exhaustedPools, activePool)`, one
  contiguous stretch. Hence the loop asks every pool once and ends where it began.
* `PipelineStateProofs`. `IInv` says that while a scope is open the snapshot is what was tracked, that every
  valid slot is what the application wants there, and that, at each stage of the destructor, what was restored
  so far is right and stays right. `TrackedUse` is an assumption of the two theorems about the restore, not of
  `BindStateTypes`.
* `ObjectRegistryProofs`. `OneClaim` says a handle is in at most one creation or destruction; with what each
  claim implies of `live` and `map` (`CallInv`) it is inductive, and the three properties follow.
* `ProfilingProofs`. `Types` splits the types for the provers. `ReportsAttributed` rests on `Attribution`:
  unless it is `mixed`, a thread in a sampled call is the only one in such a call (`Alone`), sampled work that
  has not run is `late` or is waited for by the thread that submitted it (`Awaited`, `Due`), and at each point of
  a call the window holds, what is late apart, exactly what has run of its own work (`Windows`). The steps
  after a wait are proved to keep this whether the wait succeeded or not. `SamplingEndsHolds` is inductive by itself.
  `QueriesAreAnswered` rests on `Queries`: a batch is sound up to the end of the one query that is open in it,
  and a thread that is not in a copy has none open.
* `SessionProofs`. `DeviceTyped` carries the types of an attempt's and a device's fields; `Transcoding` and
  `Standing` carry what an image's and a device's flags imply of the features requested and the objects
  created, from `RequestDevice` through creation to use; `Answering` ties the last answer to the map entries
  it came from. `ViewsAreCompatible` rests on `Viewed`: the image's format is the conversion of the one asked
  for and each listed view is compatible with it, because formats of one class are converted to formats of one
  class (`ConvertedCompatible`, by cases of the classes). `AnswersFit` takes limits to be positive, as Vulkan
  requires them; its power of two is a number (`PowerType`) because it counts the subsets of an interval,
  which is all the provers need to know of it. `SessionImplementsParts` is the refinement: each step of a
  session is a step of one half and a stutter of the other, and the fairness is that of `Profiling`;
  `SessionMeasures` and `SessionDevices` carry the theorems over.
* `TranscodeCopyProofs`. Four inductive parts. `Ownership` says at each point of a copy which buffers its
  locals may hold, that a wanted buffer is held or was refused, and that everything created is handed over,
  held or excused by the refusal of a set or view; it gives `NothingIsLost`, `NullAfterRefusal` and, with
  `Types` and `Memory`, `TypeCorrect`. `CommandsSound` says that the commands are a sequence of orderly
  blocks: each read of a buffer of the layer comes right behind a barrier in the block that records it
  (`ReadBehindBarrier`) or, for an image's blocks, behind the one that follows the copy out of it, each buffer
  is written by one stage only, and appending an orderly block or executing the oldest command keeps this
  (`Continued`, `Executed`); it gives `ReadsAreOrdered`. `Delivery` is about contents. When texels go through
  a staging buffer, what is written to a place is always the same, `Value`, so it does not matter when: `Flow`
  says that every command writes the value of its target if its source holds the source's value, and that this
  source is there already or is written by an earlier command; `Owed` lists what the region in progress has
  made so far, `Arrived` the regions that are done. Both ways of dispatching keep this, and `ExecuteNext` does
  (`FlowDispatched`, `FlowDrained`). A refusal ends the obligation for its region only. This gives
  `TexelsDelivered`. `CopiesSucceed` puts the four together for a driver that refuses nothing. `Parameters`
  assumes of the setups what `bcn_layer.cpp:1024` ensures: no image views with transcoding or watermarks.

Every invariant and every refinement that a passing run checks is stated by a theorem. Only model-checked: the
liveness properties (`AllocationReturns`, `EventuallyReclaimed`, `ShutdownOutcome`, `CallsReturn`,
`BatchesCleaned`), since reasoning from fairness needs ENABLED, which the provers do not have; and all that
the violation runs show.

## 12. What is left out

* Whatever the driver does beyond the calls the layer makes; its rules are modelled as far as the
  layer relies on them.
* Texel values, extents, formats: copies are modelled up to which shader wrote what where.
* `QueueSubmit2` is the same protocol with other structures and is not a second set of actions.
* Part of what is undefined after a failed wait: a pair in two submissions could disturb more than its own
  semaphore and fence (section 2), and a command buffer that is freed while it is pending could do other
  than run or lose the device (section 7).
* In the runs of `StagingLifecycle`, a failed wait and a loss in one behaviour, and two pairs given up: they are
  beyond `MaxFaults`. The proofs of its safety have no such bound; its liveness is checked for one fault.
* Failing `CreateFence` and `CreateSemaphore`, whose results the code ignores; a constructor of
  the allocator that fails.
* `StopAndProcess` when there were no active cycles (`mali_gpu_profiler.cpp:208`): it returns before the
  sampler is replaced by a new one, which matters only to the library's counters.
* The printed statistics and their roll-ups; that two threads may
  write these at once (`staging_resources.cpp:225`) is listed as a hazard without a property.
* Dynamic offsets of a bind of several sets (`pipeline_state.cpp:90`, outside `TrackedUse`); the read of a
  buffer by a dump copy right after the copy that fills it (`command_buffer.cpp:359`, debugging only);
  a staging buffer that fails half way and leaks (`buffer.cpp:56`).
* The decoders: see the plan.

## 13. Plan

1. Done: the components above, their runs, and the proofs of all their invariants and refinements.
2. Model next:
   * `BlockDecode`: S3TC and RGTC endpoint and selector arithmetic against the format's definition.
   * In `TranscodeCopy`: the application's barriers around a copy, the waits of the first barrier
     (`bcn.cpp:1218`), partial failures inside `create_staging_buffer`.
   * A failing constructor of the descriptor set allocator.
3. Prove next: what the liveness properties rest on and safety can say - that each turn of a loop that
   holds a lock gets nearer to its end (the rotation of the allocator, the drain of the finalizer's queue) -
   and the invariants of whatever is modelled next.
