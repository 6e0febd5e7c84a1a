-------------------------- MODULE ProfilingProofs --------------------------
(***************************************************************************)
(* Proofs about Profiling, for any threads, queues and size of pools.      *)
(***************************************************************************)
EXTENDS Profiling, TLAPS

-----------------------------------------------------------------------------
(* Types.                                                                  *)

\* MakeScopedTimestampQuery returns a query of the batch, or none.
LEMMA QueryType ==
  ASSUME NEW b \in Batch, NEW granted \in BOOLEAN
  PROVE  QueryMade(b, granted) \in Query \cup {NoQuery}
<1>1. CASE NeedsPool(b)
  BY <1>1, SMT DEF QueryMade, Query, NoQuery, Batch, Refused
<1>2. CASE ~ NeedsPool(b)
  <2>1. Len(b.pools) \in Nat \ {0} /\ b.pools[Len(b.pools)] \in Nat
    BY <1>2, SMT DEF NeedsPool, Batch
  <2> QED BY <1>2, <2>1, SMT DEF QueryMade, Query, NoQuery, Refused
<1> QED BY <1>1, <1>2

\* It leaves a batch.
LEMMA MadeType ==
  ASSUME NEW b \in Batch, NEW granted \in BOOLEAN
  PROVE  MakeScopedTimestampQuery(b, granted) \in Batch
<1> SUFFICES ASSUME ~ Refused(b, granted)
             PROVE  MakeScopedTimestampQuery(b, granted) \in Batch
  BY DEF MakeScopedTimestampQuery
<1>1. QueryMade(b, granted) \in Query
  <2>1. CASE NeedsPool(b)
    BY <2>1, SMT DEF QueryMade, Query, Batch, Refused
  <2>2. CASE ~ NeedsPool(b)
    <3>1. Len(b.pools) \in Nat \ {0} /\ b.pools[Len(b.pools)] \in Nat
      BY <2>2, SMT DEF NeedsPool, Batch
    <3> QED BY <2>2, <3>1, SMT DEF QueryMade, Query, Refused
  <2> QED BY <2>1, <2>2
<1> DEFINE opened == IF NeedsPool(b)
                     THEN [b EXCEPT !.pools = Append(@, 2), !.resets = @ \cup {Len(b.pools) + 1}]
                     ELSE [b EXCEPT !.pools[Len(b.pools)] = @ + 2]
<1>2. opened \in Batch
  <2>1. CASE NeedsPool(b)
    <3>1. Append(b.pools, 2) \in Seq(Nat) /\ Len(b.pools) + 1 \in Nat /\ b.resets \in SUBSET Nat
      BY SMT DEF Batch
    <3>2. b.resets \cup {Len(b.pools) + 1} \in SUBSET Nat
      BY <3>1
    <3>3. opened = [pools |-> Append(b.pools, 2), resets |-> b.resets \cup {Len(b.pools) + 1},
                    written |-> b.written, used |-> b.used, again |-> b.again]
      BY <2>1 DEF Batch
    <3>4. b.written \in SUBSET Query /\ b.used \in BOOLEAN /\ b.again \in BOOLEAN
      BY DEF Batch
    <3> HIDE DEF opened
    <3> QED BY <3>1, <3>2, <3>3, <3>4 DEF Batch
  <2>2. CASE ~ NeedsPool(b)
    <3>1. Len(b.pools) \in DOMAIN b.pools /\ b.pools[Len(b.pools)] + 2 \in Nat
      BY <2>2, SMT DEF NeedsPool, Batch
    <3>2. [b.pools EXCEPT ![Len(b.pools)] = @ + 2] \in Seq(Nat)
      BY <3>1, SMT DEF Batch
    <3>3. ASSUME NEW o \in Batch, NEW p \in Seq(Nat) PROVE [o EXCEPT !.pools = p] \in Batch
      BY DEF Batch
    <3>4. opened = [b EXCEPT !.pools = [b.pools EXCEPT ![Len(b.pools)] = @ + 2]]
      BY <2>2
    <3> HIDE DEF opened
    <3> QED BY <3>2, <3>3, <3>4
  <2> QED BY <2>1, <2>2
<1>3. MakeScopedTimestampQuery(b, granted)
        = [opened EXCEPT !.written = @ \cup {QueryMade(b, granted)}, !.used = TRUE]
  BY DEF MakeScopedTimestampQuery
<1> HIDE DEF opened
<1>4. ASSUME NEW o \in Batch, NEW w \in SUBSET Query
      PROVE  [o EXCEPT !.written = w, !.used = TRUE] \in Batch
  BY DEF Batch
<1>5. opened.written \cup {QueryMade(b, granted)} \in SUBSET Query
  BY <1>1, <1>2 DEF Batch
<1> QED BY <1>2, <1>3, <1>4, <1>5

\* So does the end of its scope.
LEMMA EndType ==
  ASSUME NEW b \in Batch, NEW q \in Query \cup {NoQuery}
  PROVE  End(b, q) \in Batch
<1>1. q # NoQuery => EndOf(q) \in Query
  BY SMT DEF EndOf, Query, NoQuery
<1> QED BY <1>1, SMT DEF End, Batch

LEMMA DispatchType ==
  ASSUME NEW b \in Batch, NEW granted \in BOOLEAN
  PROVE  ScopedDispatch(b, granted) \in Batch
BY QueryType, MadeType, EndType DEF ScopedDispatch

LEMMA EmptyType == EmptyBatch \in Batch
BY SMT DEF EmptyBatch, Batch

LEMMA NoQueryType == NoQuery \in Query \cup {NoQuery}
OBVIOUS

LEMMA GrantsType == ASSUME NEW t, NEW b PROVE Grants(t, b) \subseteq BOOLEAN
BY DEF Grants

-----------------------------------------------------------------------------

\* The types of the variables, one conjunct for each.
WaitSet == SUBSET (Work \cup {Never(t) : t \in Threads})
Fates   == {"none", "queued", "accepted", "refused", "fenced", "unfenced"}
Types ==
  /\ env \in Environments
  /\ sampler \in BOOLEAN /\ started \in BOOLEAN /\ lost \in BOOLEAN /\ leaked \in BOOLEAN
  /\ window \in SUBSET Work /\ pending \in SUBSET Work /\ late \in SUBSET Work
  /\ pc \in [Threads -> Points]
  /\ recording \in [Threads -> Batch]
  /\ oneShot \in [Threads -> Batch]
  /\ handed \in [Threads -> Batch]
  /\ outer \in [Threads -> Query \cup {NoQuery}]
  /\ fate \in [Threads -> Fates]
  /\ waits \in [Threads -> WaitSet]
  /\ cleaning \in SUBSET Threads /\ mixed \in SUBSET Threads

LEMMA TypesAre == ProfilingTypeOK <=> Types
BY DEF ProfilingTypeOK, Types, WaitSet, Fates

\* The control points that the actions go to are points.
LEMMA GotoType ==
  ASSUME pc \in [Threads -> Points], NEW t \in Threads, NEW p \in Points, Goto(t, p)
  PROVE  pc' \in [Threads -> Points]
BY DEF Goto

LEMMA StartType ==
  ASSUME Types, NEW t \in Threads, Start(t)
  PROVE  /\ sampler' \in BOOLEAN /\ started' \in BOOLEAN /\ leaked' \in BOOLEAN
         /\ window' \in SUBSET Work /\ mixed' \in SUBSET Threads
         /\ late' \in SUBSET Work
BY DEF Types, Start, Sampled

LEMMA StopType ==
  ASSUME Types, NEW t \in Threads, StopAndProcess(t)
  PROVE  /\ sampler' \in BOOLEAN /\ started' \in BOOLEAN /\ leaked' \in BOOLEAN
         /\ window' \in SUBSET Work /\ mixed' \in SUBSET Threads
         /\ late' \in SUBSET Work
<1>1. OwnWork(t) \subseteq Work
  BY DEF OwnWork, Work, Kinds
<1> QED BY <1>1 DEF Types, StopAndProcess

LEMMA TypesInit == ProfilingInit => Types
<1> SUFFICES ASSUME ProfilingInit PROVE Types
  OBVIOUS
<1>1. sampler \in BOOLEAN /\ pc \in [Threads -> Points]
  BY DEF ProfilingInit, Points
<1>2. /\ recording \in [Threads -> Batch] /\ oneShot \in [Threads -> Batch]
      /\ handed \in [Threads -> Batch] /\ outer \in [Threads -> Query \cup {NoQuery}]
  BY EmptyType, NoQueryType DEF ProfilingInit
<1>3. fate \in [Threads -> Fates] /\ waits \in [Threads -> WaitSet]
  BY DEF ProfilingInit, Fates, WaitSet
<1> QED BY <1>1, <1>2, <1>3 DEF ProfilingInit, Types

\* Every step keeps the types.
LEMMA RecordingTypes ==
  ASSUME Types, NEW t \in Threads,
         \/ BeginCopy(t) \/ DispatchInCopy(t) \/ EndCopy(t) \/ BeginAgain(t)
         \/ FreeCommandBuffer(t) \/ Freed(t)
  PROVE  Types'
<1>1. CASE BeginCopy(t)
  <2>1. PICK granted \in Grants(t, recording[t]) :
          /\ recording' = [recording EXCEPT ![t] =
                             [MakeScopedTimestampQuery(@, granted) EXCEPT !.used = TRUE]]
          /\ outer' = [outer EXCEPT ![t] = QueryMade(recording[t], granted)]
    BY <1>1 DEF BeginCopy
  <2>2. recording[t] \in Batch /\ granted \in BOOLEAN
    BY GrantsType DEF Types
  <2>3. ASSUME NEW b \in Batch PROVE [b EXCEPT !.used = TRUE] \in Batch
    BY DEF Batch
  <2>4. recording' \in [Threads -> Batch]
    BY <2>1, <2>2, <2>3, MadeType DEF Types
  <2>5. outer' \in [Threads -> Query \cup {NoQuery}]
    BY <2>1, <2>2, QueryType DEF Types
  <2>6. pc' \in [Threads -> Points]
    BY <1>1, GotoType DEF BeginCopy, Types, Points, SampledCall
  <2> QED BY <1>1, <2>4, <2>5, <2>6
        DEF BeginCopy, Types, sampleVars, batchVars, driverVars
<1>2. CASE DispatchInCopy(t)
  <2>1. PICK granted \in Grants(t, recording[t]) :
          recording' = [recording EXCEPT ![t] = ScopedDispatch(@, granted)]
    BY <1>2 DEF DispatchInCopy
  <2>2. recording[t] \in Batch /\ granted \in BOOLEAN
    BY GrantsType DEF Types
  <2>3. recording' \in [Threads -> Batch]
    BY <2>1, <2>2, DispatchType DEF Types
  <2> QED BY <1>2, <2>3 DEF DispatchInCopy, Types, sampleVars, batchVars, driverVars
<1>3. CASE EndCopy(t)
  <2>1. recording' \in [Threads -> Batch]
    BY <1>3, EndType DEF EndCopy, Types
  <2>2. outer' \in [Threads -> Query \cup {NoQuery}]
    BY <1>3, NoQueryType DEF EndCopy, Types
  <2>3. pc' \in [Threads -> Points]
    BY <1>3, GotoType DEF EndCopy, Types, Points, SampledCall
  <2> QED BY <1>3, <2>1, <2>2, <2>3
        DEF EndCopy, Types, sampleVars, batchVars, driverVars
<1>4. CASE BeginAgain(t)
  <2>1. ASSUME NEW b \in Batch
        PROVE  [b EXCEPT !.resets = {}, !.written = {}, !.again = TRUE] \in Batch
    BY DEF Batch
  <2>2. recording' = [recording EXCEPT ![t] =
                        [recording[t] EXCEPT !.resets = {}, !.written = {}, !.again = TRUE]]
    BY <1>4 DEF BeginAgain
  <2>3. recording' \in [Threads -> Batch]
    BY <2>1, <2>2 DEF Types
  <2> QED BY <1>4, <2>3 DEF BeginAgain, Types, sampleVars, batchVars, driverVars
<1>5. CASE FreeCommandBuffer(t)
  <2>1. pc' \in [Threads -> Points]
    BY <1>5, GotoType DEF FreeCommandBuffer, Types, Points, SampledCall
  <2> QED BY <1>5, <2>1
        DEF FreeCommandBuffer, Types, sampleVars, recordVars, batchVars, driverVars
<1>6. CASE Freed(t)
  <2>1. pc' \in [Threads -> Points]
    BY <1>6, GotoType DEF Freed, Types, Points, SampledCall
  <2>2. recording' \in [Threads -> Batch]
    BY <1>6, EmptyType DEF Freed, Types
  <2> QED BY <1>6, <2>1, <2>2 DEF Freed, Types, sampleVars, batchVars, driverVars
<1> QED BY <1>1, <1>2, <1>3, <1>4, <1>5, <1>6

LEMMA OneShotTypes ==
  ASSUME Types, NEW t \in Threads,
         \/ OneShotRecord(t) \/ Dropped(t) \/ OneShotStart(t) \/ OneShotSubmit(t)
         \/ OneShotWaited(t) \/ OneShotStop(t) \/ OneShotCleaned(t)
  PROVE  Types'
<1>1. CASE OneShotRecord(t)
  <2>1. PICK granted \in Grants(t, EmptyBatch) :
          oneShot' = [oneShot EXCEPT ![t] = ScopedDispatch(EmptyBatch, granted)]
    BY <1>1 DEF OneShotRecord
  <2>2. oneShot' \in [Threads -> Batch]
    BY <2>1, EmptyType, GrantsType, DispatchType DEF Types
  <2>3. pc' \in [Threads -> Points]
    BY <1>1, GotoType DEF OneShotRecord, Types, Points, SampledCall
  <2> QED BY <1>1, <2>2, <2>3 DEF OneShotRecord, Types, sampleVars, batchVars, driverVars
<1>2. CASE Dropped(t)
  <2>1. oneShot' \in [Threads -> Batch]
    BY <1>2, EmptyType DEF Dropped, Types
  <2>2. pc' \in [Threads -> Points]
    BY <1>2, GotoType DEF Dropped, Types, Points, SampledCall
  <2> QED BY <1>2, <2>1, <2>2 DEF Dropped, Types, sampleVars, batchVars, driverVars
<1>3. CASE OneShotStart(t)
  <2>1. pc' \in [Threads -> Points]
    BY <1>3, GotoType DEF OneShotStart, Types, Points, SampledCall
  <2> QED BY <1>3, <2>1, StartType
        DEF OneShotStart, Types, recordVars, batchVars, driverVars
<1>4. CASE OneShotSubmit(t)
  <2>1. pc' \in [Threads -> Points]
    BY <1>4, GotoType DEF OneShotSubmit, Types, Points, SampledCall
  <2>2. <<t, "one_shot">> \in Work
    BY DEF Work, Kinds
  <2>3. pending' \in SUBSET Work
    BY <1>4, <2>2 DEF OneShotSubmit, Types
  <2>4. waits' \in [Threads -> WaitSet]
    <3>1. {<<t, "one_shot">>} \in WaitSet /\ {Never(t)} \in WaitSet
      BY <2>2 DEF WaitSet
    <3> QED BY <1>4, <3>1 DEF OneShotSubmit, Types
  <2>5. late' \in SUBSET Work
    BY <1>4 DEF OneShotSubmit, Resubmitted, Types
  <2> QED BY <1>4, <2>1, <2>3, <2>4, <2>5
        DEF OneShotSubmit, Types, recordVars, batchVars
<1>5. CASE OneShotWaited(t)
  <2>1. pc' \in [Threads -> Points]
    BY <1>5, GotoType DEF OneShotWaited, Types, Points, SampledCall
  <2> QED BY <1>5, <2>1
        DEF OneShotWaited, Types, sampleVars, recordVars, batchVars, driverVars
<1>6. CASE OneShotStop(t)
  <2>1. pc' \in [Threads -> Points]
    BY <1>6, GotoType DEF OneShotStop, Types, Points, SampledCall
  <2> QED BY <1>6, <2>1, StopType DEF OneShotStop, Types, recordVars, batchVars, driverVars
<1>7. CASE OneShotCleaned(t)
  <2>1. oneShot' \in [Threads -> Batch]
    BY <1>7, EmptyType DEF OneShotCleaned, Types
  <2>2. pc' \in [Threads -> Points]
    BY <1>7, GotoType DEF OneShotCleaned, Types, Points, SampledCall
  <2>3. waits' \in [Threads -> WaitSet]
    BY <1>7 DEF OneShotCleaned, Types, WaitSet
  <2> QED BY <1>7, <2>1, <2>2, <2>3 DEF OneShotCleaned, Types, sampleVars, batchVars
<1> QED BY <1>1, <1>2, <1>3, <1>4, <1>5, <1>6, <1>7

LEMMA SubmitTypes ==
  ASSUME Types, NEW t \in Threads,
         \/ QueueSubmit(t) \/ SubmitStart(t) \/ SubmitAccepted(t) \/ SubmitRefused(t)
         \/ QueueWaited(t) \/ SubmitStop(t) \/ FenceAccepted(t) \/ FenceRefused(t)
  PROVE  Types'
<1>1. CASE QueueSubmit(t)
  <2>1. pc' \in [Threads -> Points]
    BY <1>1, GotoType DEF QueueSubmit, Types, Points, SampledCall
  <2>2. recording' \in [Threads -> Batch] /\ handed' \in [Threads -> Batch]
    BY <1>1, EmptyType DEF QueueSubmit, Types
  <2>3. fate' \in [Threads -> Fates]
    BY <1>1 DEF QueueSubmit, Types, Fates
  <2> QED BY <1>1, <2>1, <2>2, <2>3 DEF QueueSubmit, Types, sampleVars, driverVars
<1>2. CASE SubmitStart(t)
  <2>1. pc' \in [Threads -> Points]
    BY <1>2, GotoType DEF SubmitStart, Types, Points, SampledCall
  <2> QED BY <1>2, <2>1, StartType DEF SubmitStart, Types, recordVars, batchVars, driverVars
<1>3. CASE SubmitAccepted(t)
  <2>1. pc' \in [Threads -> Points]
    BY <1>3, GotoType DEF SubmitAccepted, Submitting, Types, Points, SampledCall
  <2>2. <<t, KindOf(t)>> \in Work
    BY DEF KindOf, Work, Kinds
  <2>3. pending' \in SUBSET Work
    BY <1>3, <2>2 DEF SubmitAccepted, Types
  <2>4. fate' \in [Threads -> Fates]
    BY <1>3 DEF SubmitAccepted, Settled, Types, Fates
  <2>5. waits' \in [Threads -> WaitSet]
    <3>1. pending' \cap OnQueue(QueueOf[t]) \in WaitSet
      BY <2>3 DEF WaitSet
    <3> QED BY <1>3, <3>1 DEF SubmitAccepted, Types
  <2>6. late' \in SUBSET Work
    BY <1>3 DEF SubmitAccepted, Resubmitted, Types
  <2> QED BY <1>3, <2>1, <2>3, <2>4, <2>5, <2>6 DEF SubmitAccepted, Types, recordVars
<1>4. CASE SubmitRefused(t)
  <2>1. pc' \in [Threads -> Points]
    BY <1>4, GotoType DEF SubmitRefused, Types, Points, SampledCall
  <2>2. fate' \in [Threads -> Fates]
    BY <1>4 DEF SubmitRefused, Settled, Types, Fates
  <2>3. leaked' \in BOOLEAN /\ mixed' \in SUBSET Threads
    BY <1>4 DEF SubmitRefused, Types
  <2> QED BY <1>4, <2>1, <2>2, <2>3 DEF SubmitRefused, Types, recordVars, driverVars
<1>5. CASE QueueWaited(t)
  <2>1. pc' \in [Threads -> Points]
    BY <1>5, GotoType DEF QueueWaited, Types, Points, SampledCall
  <2> QED BY <1>5, <2>1
        DEF QueueWaited, Types, sampleVars, recordVars, batchVars, driverVars
<1>6. CASE SubmitStop(t)
  <2>1. pc' \in [Threads -> Points]
    BY <1>6, GotoType DEF SubmitStop, Types, Points, SampledCall
  <2>2. waits' \in [Threads -> WaitSet]
    BY <1>6 DEF SubmitStop, Types, WaitSet
  <2> QED BY <1>6, <2>1, <2>2, StopType DEF SubmitStop, Types, recordVars, batchVars
<1>7. CASE FenceAccepted(t) \/ FenceRefused(t)
  <2>1. pc' \in [Threads -> Points]
    BY <1>7, GotoType DEF FenceAccepted, FenceRefused, Types, Points, SampledCall
  <2>2. fate' \in [Threads -> Fates]
    BY <1>7 DEF FenceAccepted, FenceRefused, Settled, Types, Fates
  <2> QED BY <1>7, <2>1, <2>2
        DEF FenceAccepted, FenceRefused, Types, sampleVars, recordVars, driverVars
<1> QED BY <1>1, <1>2, <1>3, <1>4, <1>5, <1>6, <1>7

LEMMA DriverTypes ==
  ASSUME Types, NEW t \in Threads, GpuWorks(t) \/ FinTake(t) \/ Cleaned(t)
  PROVE  Types'
<1>1. CASE GpuWorks(t)
  <2>1. PICK k \in Kinds : Execute(<<t, k>>)
    BY <1>1 DEF GpuWorks
  <2>2. pending' \in SUBSET Work /\ window' \in SUBSET Work
    BY <2>1 DEF Execute, Types
  <2>3. waits' \in [Threads -> WaitSet]
    <3>1. ASSUME NEW u \in Threads PROVE waits[u] \ {<<t, k>>} \in WaitSet
      BY DEF Types, WaitSet
    <3> QED BY <2>1, <3>1 DEF Execute
  <2> QED BY <2>1, <2>2, <2>3 DEF Execute, Types, recordVars, batchVars
<1>2. CASE FinTake(t)
  BY <1>2 DEF FinTake, Types, sampleVars, recordVars, driverVars
<1>3. CASE Cleaned(t)
  <2>1. fate' \in [Threads -> Fates]
    BY <1>3 DEF Cleaned, Types, Fates
  <2>2. handed' \in [Threads -> Batch]
    BY <1>3, EmptyType DEF Cleaned, Types
  <2> QED BY <1>3, <2>1, <2>2 DEF Cleaned, Types, sampleVars, recordVars, driverVars
<1> QED BY <1>1, <1>2, <1>3

\* A step is a step of a thread, of its work on the GPU or of the finalizer with
\* its batch, or the loss of the device.  The steps that follow a wait are taken
\* whether it fails or not: what is proved of them assumes nothing of the wait.
ThreadStep(t) ==
  \/ BeginCopy(t) \/ DispatchInCopy(t) \/ EndCopy(t) \/ BeginAgain(t)
  \/ FreeCommandBuffer(t) \/ Freed(t)
  \/ OneShotRecord(t) \/ Dropped(t) \/ OneShotStart(t) \/ OneShotSubmit(t)
  \/ OneShotWaited(t) \/ OneShotStop(t) \/ OneShotCleaned(t)
  \/ QueueSubmit(t) \/ SubmitStart(t) \/ SubmitAccepted(t) \/ SubmitRefused(t)
  \/ QueueWaited(t) \/ SubmitStop(t) \/ FenceAccepted(t) \/ FenceRefused(t)
  \/ GpuWorks(t) \/ FinTake(t) \/ Cleaned(t)

LEMMA Steps ==
  ASSUME [ProfilingNext]_profilingVars
  PROVE  (\E t \in Threads : ThreadStep(t)) \/ DeviceLost \/ UNCHANGED profilingVars
<1>1. ASSUME NEW t \in Threads, Begins(t) \/ Unlocked(t) \/ Locked(t) \/ Dispatches(t)
      PROVE  ThreadStep(t)
  BY <1>1 DEF Begins, Unlocked, Locked, Dispatches, ThreadStep, FreeReturns, OneShotWait,
              QueueWaitIdle, OneShotDropped, OneShotCleanup
<1>2. ASSUME NEW t \in Threads,
             EndCopy(t) \/ GpuWorks(t) \/ FinTake(t) \/ FinClean(t) \/ WaitFails(t)
      PROVE  ThreadStep(t)
  BY <1>2 DEF ThreadStep, FinClean, WaitFails
<1> QED BY <1>1, <1>2 DEF ProfilingNext, Finalizer

LEMMA TypesStep == Types /\ [ProfilingNext]_profilingVars => Types'
<1> SUFFICES ASSUME Types, [ProfilingNext]_profilingVars PROVE Types'
  OBVIOUS
<1>1. CASE \E t \in Threads : ThreadStep(t)
  <2>1. PICK t \in Threads : ThreadStep(t)
    BY <1>1
  <2> QED BY <2>1, RecordingTypes, OneShotTypes, SubmitTypes, DriverTypes DEF ThreadStep
<1>2. CASE DeviceLost
  BY <1>2 DEF DeviceLost, Types, sampleVars, recordVars, batchVars
<1>3. CASE UNCHANGED profilingVars
  BY <1>3 DEF Types, profilingVars, sampleVars, recordVars, batchVars, driverVars
<1> QED BY <1>1, <1>2, <1>3, Steps

\* The types of the variables of Profiling hold in every state.
THEOREM ProfilingTypes == ProfilingSpec => []ProfilingTypeOK
<1>1. Types => ProfilingTypeOK
  BY TypesAre
<1> QED BY <1>1, TypesInit, TypesStep, PTL DEF ProfilingSpec

-----------------------------------------------------------------------------
(* Sampling ends.                                                          *)

\* The steps that have nothing to do with sampling.
Quiet(t) ==
  \/ BeginCopy(t) \/ DispatchInCopy(t) \/ EndCopy(t) \/ BeginAgain(t)
  \/ FreeCommandBuffer(t) \/ Freed(t)
  \/ OneShotRecord(t) \/ Dropped(t) \/ OneShotCleaned(t)
  \/ QueueSubmit(t) \/ FenceAccepted(t) \/ FenceRefused(t) \/ FinTake(t) \/ Cleaned(t)

\* They change neither the sampler, nor what is pending, nor who is in a sampled
\* call and what that call waits for.
Calm ==
  /\ UNCHANGED <<sampleVars, pending, lost>>
  /\ Sampled' = Sampled
  /\ \A u \in Sampled : pc'[u] = pc[u] /\ waits'[u] = waits[u]

LEMMA SampledAfter ==
  ASSUME pc \in [Threads -> Points], NEW t \in Threads, NEW p \in Points, Goto(t, p)
  PROVE  /\ p \in SampledCall => Sampled' = Sampled \cup {t}
         /\ p \notin SampledCall => Sampled' = Sampled \ {t}
         /\ pc'[t] = p
         /\ \A u \in Threads \ {t} : pc'[u] = pc[u]
BY DEF Goto, Sampled

LEMMA CalmGoto ==
  ASSUME pc \in [Threads -> Points], NEW t \in Threads, pc[t] \notin SampledCall,
         NEW p \in Points \ SampledCall, Goto(t, p)
  PROVE  Sampled' = Sampled /\ \A u \in Sampled : pc'[u] = pc[u]
BY DEF Goto, Sampled

LEMMA QuietIsCalm ==
  ASSUME Types, NEW t \in Threads, Quiet(t)
  PROVE  Calm
<1> USE DEF Calm, driverVars
<1>0. pc \in [Threads -> Points] /\ waits \in [Threads -> WaitSet]
  BY DEF Types
<1>1. CASE BeginCopy(t)
  BY <1>0, <1>1, CalmGoto DEF BeginCopy, Points, SampledCall
<1>2. CASE DispatchInCopy(t)
  BY <1>2 DEF DispatchInCopy, Sampled
<1>3. CASE EndCopy(t)
  BY <1>0, <1>3, CalmGoto DEF EndCopy, Points, SampledCall
<1>4. CASE BeginAgain(t)
  BY <1>4 DEF BeginAgain, Sampled
<1>5. CASE FreeCommandBuffer(t)
  BY <1>0, <1>5, CalmGoto DEF FreeCommandBuffer, Points, SampledCall
<1>6. CASE Freed(t)
  BY <1>0, <1>6, CalmGoto DEF Freed, Points, SampledCall
<1>7. CASE OneShotRecord(t)
  BY <1>0, <1>7, CalmGoto DEF OneShotRecord, Points, SampledCall
<1>8. CASE Dropped(t)
  BY <1>0, <1>8, CalmGoto DEF Dropped, Points, SampledCall
<1>9. CASE OneShotCleaned(t)
  <2>1. \A u \in Threads \ {t} : waits'[u] = waits[u]
    BY <1>0, <1>9 DEF OneShotCleaned
  <2>2. t \notin Sampled
    BY <1>9 DEF OneShotCleaned, Sampled, SampledCall
  <2> QED BY <1>0, <1>9, <2>1, <2>2, CalmGoto DEF OneShotCleaned, Points, SampledCall, Sampled
<1>10. CASE QueueSubmit(t)
  BY <1>0, <1>10, CalmGoto DEF QueueSubmit, Points, SampledCall
<1>11. CASE FinTake(t)
  BY <1>11 DEF FinTake, Sampled
<1>12. CASE Cleaned(t)
  BY <1>12 DEF Cleaned, Sampled
<1>13. CASE FenceAccepted(t) \/ FenceRefused(t)
  BY <1>0, <1>13, CalmGoto DEF FenceAccepted, FenceRefused, Points, SampledCall
<1> QED BY <1>1, <1>2, <1>3, <1>4, <1>5, <1>6, <1>7, <1>8, <1>9, <1>10, <1>11, <1>12, <1>13
        DEF Quiet

LEMMA StutterIsCalm == UNCHANGED profilingVars => Calm
BY DEF profilingVars, Calm, Sampled, sampleVars, driverVars

\* Sampling is on outside of the sampled calls only after a leak
\* (mali_gpu_profiler.cpp:120, queue.cpp:176).
LEMMA SamplingEndsStep ==
  ASSUME Types, SamplingEnds, [ProfilingNext]_profilingVars
  PROVE  SamplingEnds'
<1> USE DEF SamplingEnds
<1>0. pc \in [Threads -> Points] /\ started \in BOOLEAN /\ leaked \in BOOLEAN
  BY DEF Types
<1>1. ASSUME NEW t \in Threads, ThreadStep(t)
      PROVE  SamplingEnds'
  <2>1. CASE Quiet(t)
    BY <2>1, QuietIsCalm DEF Calm, sampleVars
  <2>2. CASE OneShotStart(t)
    <3>1. t \in Sampled'
      BY <1>0, <2>2, SampledAfter DEF OneShotStart, Points, SampledCall
    <3> QED BY <3>1
  <2>3. CASE OneShotSubmit(t)
    <3>1. t \in Sampled'
      BY <1>0, <2>3, SampledAfter DEF OneShotSubmit, Points, SampledCall
    <3> QED BY <3>1
  <2>4. CASE OneShotWaited(t)
    <3>1. t \in Sampled'
      BY <1>0, <2>4, SampledAfter DEF OneShotWaited, Points, SampledCall
    <3> QED BY <3>1
  <2>5. CASE OneShotStop(t)
    BY <2>5 DEF OneShotStop, StopAndProcess
  <2>6. CASE SubmitStart(t)
    <3>1. t \in Sampled'
      BY <1>0, <2>6, SampledAfter DEF SubmitStart, Points, SampledCall
    <3> QED BY <3>1
  <2>7. CASE SubmitAccepted(t)
    <3>1. CASE pc[t] # "submit_sampled"
      <4>1. Sampled' = Sampled
        BY <1>0, <2>7, <3>1, CalmGoto DEF SubmitAccepted, Submitting, Points, SampledCall
      <4> QED BY <2>7, <4>1 DEF SubmitAccepted
    <3>2. CASE pc[t] = "submit_sampled"
      <4>1. t \in Sampled'
        BY <1>0, <2>7, <3>2, SampledAfter DEF SubmitAccepted, Points, SampledCall
      <4> QED BY <4>1
    <3> QED BY <3>1, <3>2
  <2>8. CASE SubmitRefused(t)
    <3>1. CASE pc[t] # "submit_sampled"
      <4>1. Sampled' = Sampled
        BY <1>0, <2>8, <3>1, CalmGoto DEF SubmitRefused, Submitting, Points, SampledCall
      <4> QED BY <1>0, <2>8, <4>1 DEF SubmitRefused
    <3>2. CASE pc[t] = "submit_sampled"
      BY <2>8, <3>2 DEF SubmitRefused
    <3> QED BY <3>1, <3>2
  <2>9. CASE QueueWaited(t)
    <3>1. t \in Sampled'
      BY <1>0, <2>9, SampledAfter DEF QueueWaited, Points, SampledCall
    <3> QED BY <3>1
  <2>10. CASE SubmitStop(t)
    BY <2>10 DEF SubmitStop, StopAndProcess
  <2>11. CASE GpuWorks(t)
    BY <2>11 DEF GpuWorks, Execute, Sampled
  <2> QED BY <1>1, <2>1, <2>2, <2>3, <2>4, <2>5, <2>6, <2>7, <2>8, <2>9, <2>10, <2>11
          DEF ThreadStep, Quiet
<1>2. CASE DeviceLost
  BY <1>2 DEF DeviceLost, sampleVars, Sampled
<1>3. CASE UNCHANGED profilingVars
  BY <1>3, StutterIsCalm DEF Calm, sampleVars
<1> QED BY <1>1, <1>2, <1>3, Steps

\* Sampling does not outlive the calls that started it, for any number of
\* threads and queues.
THEOREM SamplingEndsHolds == ProfilingSpec => []SamplingEnds
<1>1. ProfilingInit => SamplingEnds
  BY DEF ProfilingInit, SamplingEnds
<1> QED BY <1>1, TypesInit, TypesStep, SamplingEndsStep, PTL DEF ProfilingSpec

-----------------------------------------------------------------------------
(* What is reported belongs to the call that reports it.                   *)

\* A thread that is alone in a sampled call is the only one in one.
Alone == \A t \in Sampled \ mixed : Sampled = {t}

\* A submission that counts and has not run is late, or its thread waits for it
\* or has given that up.
Due(t) ==
  /\ <<t, "sampled">> \in pending =>
       \/ <<t, "sampled">> \in late
       \/ pc[t] \in {"wait_idle", "stop"} /\ <<t, "sampled">> \in waits[t]
  /\ <<t, "one_shot">> \in pending =>
       \/ <<t, "one_shot">> \in late
       \/ pc[t] \in {"one_shot_wait", "one_shot_stop"} /\ <<t, "one_shot">> \in waits[t]
Awaited == ~ lost => \A t \in Threads : Due(t)

\* What has been counted when nothing but one piece of work may have been.
Counted(w) == IF w \in pending THEN {} ELSE {w}

\* What the window of a thread holds at each of its points, what is late apart.
WindowAt(t) ==
  /\ pc[t] \in {"submit_sampled", "one_shot_submit"} => window \ late = {}
  /\ pc[t] \in {"wait_idle", "stop"} =>
       <<t, "sampled">> \in late \/ window \ late = Counted(<<t, "sampled">>)
  /\ pc[t] \in {"one_shot_wait", "one_shot_stop"} =>
       \/ Never(t) \in waits[t] \/ <<t, "one_shot">> \in late
       \/ window \ late = Counted(<<t, "one_shot">>)
Windows == started /\ ~ lost => \A t \in Sampled \ mixed : WindowAt(t)

Attribution == Alone /\ Awaited /\ Windows

LEMMA AttributionInit == ProfilingInit => Attribution
BY DEF ProfilingInit, Attribution, Alone, Awaited, Due, Windows, Sampled, SampledCall

LEMMA AttributionImplies == Attribution => ReportAttributed
<1> SUFFICES ASSUME Attribution, NEW t \in Threads,
                    pc[t] \in {"stop", "one_shot_stop"}, started, ~ lost, t \notin mixed,
                    OwnWork(t) \cap (waits[t] \cup late) = {}, Never(t) \notin waits[t]
             PROVE  window \ late = OwnWork(t)
  BY DEF ReportAttributed
<1>1. Due(t) /\ WindowAt(t)
  BY DEF Attribution, Awaited, Windows, Sampled, SampledCall
<1>2. PICK w : OwnWork(t) = {w} /\ w \notin waits[t] /\ w \notin late
               /\ w = <<t, IF pc[t] = "stop" THEN "sampled" ELSE "one_shot">>
  BY DEF OwnWork
<1>3. w \notin pending
  BY <1>1, <1>2 DEF Due
<1>4. window \ late = Counted(w)
  BY <1>1, <1>2 DEF WindowAt
<1> QED BY <1>2, <1>3, <1>4 DEF Counted

\* The calm steps.
LEMMA AttributionCalm ==
  ASSUME Types, Attribution, Calm
  PROVE  Attribution'
<1> USE DEF Attribution, Calm, sampleVars
<1>1. Alone'
  BY DEF Alone
<1>2. ASSUME NEW t \in Threads, pc[t] \in SampledCall
      PROVE  pc'[t] = pc[t] /\ waits'[t] = waits[t]
  BY <1>2 DEF Sampled
<1>3. Awaited'
  BY <1>2 DEF Awaited, Due, SampledCall
<1>4. Windows'
  BY DEF Windows, WindowAt, Counted
<1> QED BY <1>1, <1>3, <1>4

\* The start of sampling: a thread that is alone finds an empty window.
LEMMA AttributionStart ==
  ASSUME Types, Attribution, NEW t \in Threads, Start(t), UNCHANGED driverVars,
         \/ pc[t] = "start" /\ Goto(t, "submit_sampled")
         \/ pc[t] = "one_shot_start" /\ Goto(t, "one_shot_submit")
  PROVE  Attribution'
<1> USE DEF Attribution, driverVars
<1>0. pc \in [Threads -> Points]
  BY DEF Types
<1>1. /\ Sampled' = Sampled \cup {t}
      /\ pc'[t] \in {"submit_sampled", "one_shot_submit"}
      /\ \A u \in Threads \ {t} : pc'[u] = pc[u]
  BY <1>0, SampledAfter DEF Points, SampledCall
<1>2. Alone'
  BY <1>1 DEF Alone, Start
<1>3. Awaited'
  <2> SUFFICES ASSUME ~ lost, NEW u \in Threads PROVE Due(u)'
    BY DEF Awaited
  <2>1. UNCHANGED <<late, pending, waits, lost>>
    BY DEF Start
  <2>2. Due(u) /\ pc[t] \in {"start", "one_shot_start"}
    BY DEF Awaited
  <2>3. pc[u] \in {"wait_idle", "stop", "one_shot_wait", "one_shot_stop"} => pc'[u] = pc[u]
    BY <1>1, <2>2
  <2> QED BY <2>1, <2>2, <2>3 DEF Due
<1>4. Windows'
  <2> SUFFICES ASSUME started', ~ lost', NEW u \in Sampled' \ mixed' PROVE WindowAt(u)'
    BY DEF Windows
  <2>1. ~ started /\ Sampled = {} /\ u = t
    BY <1>1 DEF Start
  <2>2. window' = {}
    BY <2>1 DEF Start
  <2> QED BY <1>1, <2>1, <2>2 DEF WindowAt
<1> QED BY <1>2, <1>3, <1>4

\* The end of sampling: what the call gave up on is late.
LEMMA AttributionStop ==
  ASSUME Types, Attribution, NEW t \in Threads, StopAndProcess(t),
         OneShotStop(t) \/ SubmitStop(t)
  PROVE  Attribution'
<1> USE DEF Attribution, driverVars
<1>0. pc \in [Threads -> Points] /\ waits \in [Threads -> WaitSet]
  BY DEF Types
<1>1. /\ Sampled' = Sampled \ {t} /\ t \in Sampled
      /\ \/ pc[t] = "stop" /\ pc'[t] = "fence"
         \/ pc[t] = "one_shot_stop" /\ pc'[t] = "one_shot_cleanup"
      /\ \A u \in Threads \ {t} : pc'[u] = pc[u] /\ waits'[u] = waits[u]
      /\ UNCHANGED <<pending, lost>>
  BY <1>0, SampledAfter DEF OneShotStop, SubmitStop, Points, SampledCall, Sampled
<1>2. Sampled' \ mixed' = {}
  BY <1>1 DEF Alone, StopAndProcess
<1>3. Awaited'
  <2> SUFFICES ASSUME ~ lost, NEW u \in Threads PROVE Due(u)'
    BY <1>1 DEF Awaited
  <2>1. Due(u) /\ late' = late \cup (OwnWork(t) \cap waits[t])
    BY DEF Awaited, StopAndProcess
  <2>2. CASE u = t
    <3>1. <<t, "sampled">> \in pending => <<t, "sampled">> \in late'
      BY <1>1, <2>1, <2>2 DEF Due, OwnWork
    <3>2. <<t, "one_shot">> \in pending => <<t, "one_shot">> \in late'
      BY <1>1, <2>1, <2>2 DEF Due, OwnWork
    <3> QED BY <1>1, <2>2, <3>1, <3>2 DEF Due
  <2>3. CASE u # t
    BY <1>1, <2>1, <2>3 DEF Due
  <2> QED BY <2>2, <2>3
<1> QED BY <1>2, <1>3 DEF Alone, Windows

\* What is submitted again is no part of the window that was not one before.
LEMMA ResubmittedKeeps ==
  ASSUME NEW w, Resubmitted(w), UNCHANGED window
  PROVE  window' \ late' = window \ late
BY DEF Resubmitted

\* A one-shot that is submitted or refused.
LEMMA AttributionOneShotSubmit ==
  ASSUME Types, Attribution, NEW t \in Threads, OneShotSubmit(t)
  PROVE  Attribution'
<1> USE DEF Attribution
<1>0. pc \in [Threads -> Points] /\ waits \in [Threads -> WaitSet]
  BY DEF Types
<1>1. /\ Sampled' = Sampled \cup {t} /\ t \in Sampled
      /\ pc[t] = "one_shot_submit" /\ pc'[t] = "one_shot_wait"
      /\ \A u \in Threads \ {t} : pc'[u] = pc[u] /\ waits'[u] = waits[u]
  BY <1>0, SampledAfter DEF OneShotSubmit, Points, SampledCall, Sampled
<1>2. Sampled' = Sampled /\ UNCHANGED <<mixed, window, started, lost>>
  BY <1>1 DEF OneShotSubmit
<1>3. Alone'
  BY <1>2 DEF Alone
<1>4. \/ ~ lost /\ pending' = pending \cup {<<t, "one_shot">>} /\ waits'[t] = {<<t, "one_shot">>}
      \/ pending' = pending /\ waits'[t] = {Never(t)}
  BY <1>0 DEF OneShotSubmit
<1>5. Awaited'
  <2> SUFFICES ASSUME ~ lost, NEW u \in Threads PROVE Due(u)'
    BY <1>2 DEF Awaited
  <2>1. Due(u) /\ late' = late \ ({<<t, "one_shot">>} \ (pending \cup window))
    BY DEF Awaited, OneShotSubmit, Resubmitted
  <2>2. CASE u = t
    BY <1>1, <1>4, <2>1, <2>2 DEF Due
  <2>3. CASE u # t
    BY <1>1, <1>4, <2>1, <2>3 DEF Due
  <2> QED BY <2>2, <2>3
<1>6. Windows'
  <2> SUFFICES ASSUME started, ~ lost, NEW u \in Sampled \ mixed PROVE WindowAt(u)'
    BY <1>2 DEF Windows
  <2>1. u = t /\ window' \ late' = {}
    <3>1. u = t /\ WindowAt(t)
      BY <1>1 DEF Alone, Windows
    <3>2. window' \ late' = window \ late
      BY <1>2, ResubmittedKeeps DEF OneShotSubmit
    <3> QED BY <1>1, <3>1, <3>2 DEF WindowAt
  <2>2. Never(t) \in waits'[t] \/ <<t, "one_shot">> \in pending'
    BY <1>4
  <2> QED BY <1>1, <2>1, <2>2 DEF WindowAt, Counted
<1> QED BY <1>3, <1>5, <1>6

\* A wait that comes back, or fails: what is due stays due.
LEMMA AttributionWait ==
  ASSUME Types, Attribution, NEW t \in Threads, OneShotWaited(t) \/ QueueWaited(t)
  PROVE  Attribution'
<1> USE DEF Attribution, sampleVars, driverVars
<1>0. pc \in [Threads -> Points]
  BY DEF Types
<1>1. /\ Sampled' = Sampled \cup {t} /\ t \in Sampled
      /\ \/ pc[t] = "one_shot_wait" /\ pc'[t] = "one_shot_stop"
         \/ pc[t] = "wait_idle" /\ pc'[t] = "stop"
      /\ \A u \in Threads \ {t} : pc'[u] = pc[u]
  BY <1>0, SampledAfter DEF OneShotWaited, QueueWaited, Points, SampledCall, Sampled
<1>2. Sampled' = Sampled /\ UNCHANGED <<mixed, window, late, started, lost, pending, waits>>
  BY <1>1 DEF OneShotWaited, QueueWaited
<1>3. Alone'
  BY <1>2 DEF Alone
<1>4. Awaited'
  BY <1>1, <1>2 DEF Awaited, Due
<1>5. Windows'
  <2> SUFFICES ASSUME started, ~ lost, NEW u \in Sampled \ mixed PROVE WindowAt(u)'
    BY <1>2 DEF Windows
  <2>1. u = t /\ WindowAt(t)
    BY <1>1 DEF Alone, Windows
  <2> QED BY <1>1, <1>2, <2>1 DEF WindowAt, Counted
<1> QED BY <1>3, <1>4, <1>5

\* A submission of other commands, or one of commands whose counters are sampled.
LEMMA AttributionAccepted ==
  ASSUME Types, Attribution, NEW t \in Threads, SubmitAccepted(t)
  PROVE  Attribution'
<1> USE DEF Attribution
<1>0. pc \in [Threads -> Points] /\ waits \in [Threads -> WaitSet]
  BY DEF Types
<1>1. /\ ~ lost /\ pending' = pending \cup {<<t, KindOf(t)>>}
      /\ late' = late \ ({<<t, KindOf(t)>>} \ (pending \cup window))
      /\ window' \ late' = window \ late
      /\ UNCHANGED <<mixed, window, started, lost>>
  BY ResubmittedKeeps DEF SubmitAccepted, Resubmitted
<1>2. CASE pc[t] # "submit_sampled"
  <2>1. /\ Sampled' = Sampled /\ waits' = waits
        /\ \A u \in Sampled : pc'[u] = pc[u]
    BY <1>0, <1>2, CalmGoto DEF SubmitAccepted, Submitting, Points, SampledCall
  <2>2. KindOf(t) \in {"plain", "other"}
    BY <1>2 DEF KindOf
  <2>3. \A u \in Threads : /\ <<u, "sampled">> \in pending' <=> <<u, "sampled">> \in pending
                           /\ <<u, "one_shot">> \in pending' <=> <<u, "one_shot">> \in pending
                           /\ <<u, "sampled">> \in late' <=> <<u, "sampled">> \in late
                           /\ <<u, "one_shot">> \in late' <=> <<u, "one_shot">> \in late
    BY <1>1, <2>2
  <2>4. \A u \in Threads : pc[u] \in SampledCall => pc'[u] = pc[u]
    BY <2>1 DEF Sampled
  <2>5. Awaited'
    BY <1>1, <2>1, <2>3, <2>4 DEF Awaited, Due, SampledCall
  <2>6. Windows'
    BY <1>1, <2>1, <2>3 DEF Windows, WindowAt, Counted, Sampled
  <2> QED BY <1>1, <2>1, <2>5, <2>6 DEF Alone
<1>3. CASE pc[t] = "submit_sampled"
  <2>1. /\ Sampled' = Sampled \cup {t} /\ t \in Sampled
        /\ pc'[t] = "wait_idle"
        /\ \A u \in Threads \ {t} : pc'[u] = pc[u] /\ waits'[u] = waits[u]
        /\ waits'[t] = pending' \cap OnQueue(QueueOf[t])
    BY <1>0, <1>3, SampledAfter DEF SubmitAccepted, Points, SampledCall, Sampled
  <2>2. KindOf(t) = "sampled"
    BY <1>3 DEF KindOf
  <2>3. <<t, "sampled">> \in OnQueue(QueueOf[t])
    BY DEF OnQueue, Work, Kinds
  <2>4. Awaited'
    <3> SUFFICES ASSUME NEW u \in Threads PROVE Due(u)'
      BY DEF Awaited
    <3>0. Due(u)
      BY <1>1 DEF Awaited
    <3>1. CASE u = t
      BY <1>1, <1>3, <2>1, <2>2, <2>3, <3>0, <3>1 DEF Due
    <3>2. CASE u # t
      BY <1>1, <2>1, <2>2, <3>0, <3>2 DEF Due
    <3> QED BY <3>1, <3>2
  <2>5. Windows'
    <3> SUFFICES ASSUME started, NEW u \in Sampled \ mixed PROVE WindowAt(u)'
      BY <1>1, <2>1 DEF Windows
    <3>1. u = t /\ WindowAt(t)
      BY <1>1, <2>1 DEF Alone, Windows
    <3>2. window' \ late' = {} /\ <<t, "sampled">> \in pending'
      BY <1>1, <1>3, <2>2, <3>1 DEF WindowAt
    <3> QED BY <2>1, <3>1, <3>2 DEF WindowAt, Counted
  <2> QED BY <1>1, <2>1, <2>4, <2>5 DEF Alone
<1> QED BY <1>2, <1>3

\* A submission that is refused ends the call.
LEMMA AttributionRefused ==
  ASSUME Types, Attribution, NEW t \in Threads, SubmitRefused(t)
  PROVE  Attribution'
<1> USE DEF Attribution, driverVars
<1>0. pc \in [Threads -> Points]
  BY DEF Types
<1>1. /\ Sampled' = Sampled \ {t} /\ mixed' = mixed \ {t}
      /\ pc[t] \in Submitting /\ pc'[t] = "idle"
      /\ \A u \in Threads \ {t} : pc'[u] = pc[u]
      /\ UNCHANGED <<window, late, started, lost, pending, waits>>
  BY <1>0, SampledAfter DEF SubmitRefused, Points, SampledCall
<1>2. Sampled' \ mixed' \subseteq Sampled \ mixed
  BY <1>1
<1>3. Alone'
  BY <1>1, <1>2 DEF Alone
<1>4. Awaited'
  BY <1>1 DEF Awaited, Due, Submitting
<1>5. Windows'
  BY <1>1, <1>2 DEF Windows, WindowAt, Counted, Sampled
<1> QED BY <1>3, <1>4, <1>5

\* Work that runs while sampling is on is that of the thread that is alone.
LEMMA AttributionExecute ==
  ASSUME Types, Attribution, NEW w \in Work, Execute(w)
  PROVE  Attribution'
<1> USE DEF Attribution
<1>0. waits \in [Threads -> WaitSet]
  BY DEF Types
<1>1. /\ w \in pending /\ ~ lost /\ pending' = pending \ {w}
      /\ \A t \in Threads : waits'[t] = waits[t] \ {w}
      /\ window' = IF started /\ w[2] \in {"sampled", "one_shot"} THEN window \cup {w} ELSE window
      /\ Sampled' = Sampled
      /\ UNCHANGED <<started, mixed, late, lost, pc>>
  BY DEF Execute, Sampled
<1>2. Alone'
  BY <1>1 DEF Alone
<1>3. Awaited'
  BY <1>1 DEF Awaited, Due
<1>4. Windows'
  <2> SUFFICES ASSUME started, NEW t \in Sampled \ mixed PROVE WindowAt(t)'
    BY <1>1 DEF Windows
  <2>1. Sampled = {t} /\ WindowAt(t) /\ t \in Threads
    BY <1>1 DEF Alone, Windows, Sampled
  <2>2. Never(t) \in waits[t] => Never(t) \in waits'[t]
    BY <1>1, <2>1 DEF Never, Work, Kinds
  <2>3. PICK u \in Threads, k \in Kinds : w = <<u, k>>
    BY DEF Work
  <2>4. Due(u)
    BY <1>1 DEF Awaited
  <2>5. CASE w \in late
    <3>1. window' \ late' = window \ late
      BY <1>1, <2>5
    <3>2. \A v : v # w => (v \in pending' <=> v \in pending)
      BY <1>1
    <3>3. pc' = pc /\ late' = late
      BY <1>1
    <3> QED BY <2>1, <2>2, <2>5, <3>1, <3>2, <3>3 DEF WindowAt, Counted
  <2>6. CASE w \notin late /\ k = "sampled"
    <3>1. u = t /\ pc[t] \in {"wait_idle", "stop"}
      BY <1>1, <2>1, <2>3, <2>4, <2>6 DEF Due, Sampled, SampledCall
    <3>2. window \ late = {}
      BY <1>1, <2>1, <2>3, <2>6, <3>1 DEF WindowAt, Counted
    <3>3. window' \ late' = {<<t, "sampled">>} /\ <<t, "sampled">> \notin pending'
      BY <1>1, <2>3, <2>6, <3>1, <3>2
    <3> QED BY <1>1, <3>1, <3>3 DEF WindowAt, Counted
  <2>7. CASE w \notin late /\ k = "one_shot"
    <3>1. u = t /\ pc[t] \in {"one_shot_wait", "one_shot_stop"}
      BY <1>1, <2>1, <2>3, <2>4, <2>7 DEF Due, Sampled, SampledCall
    <3>2. CASE Never(t) \in waits[t]
      BY <1>1, <2>2, <3>1, <3>2 DEF WindowAt
    <3>3. CASE Never(t) \notin waits[t]
      <4>1. window \ late = {}
        BY <1>1, <2>1, <2>3, <2>7, <3>1, <3>3 DEF WindowAt, Counted
      <4>2. window' \ late' = {<<t, "one_shot">>} /\ <<t, "one_shot">> \notin pending'
        BY <1>1, <2>3, <2>7, <3>1, <4>1
      <4> QED BY <1>1, <3>1, <4>2 DEF WindowAt, Counted
    <3> QED BY <3>2, <3>3
  <2>8. CASE k \notin {"sampled", "one_shot"}
    <3>1. /\ window' = window
          /\ <<t, "sampled">> \in pending' <=> <<t, "sampled">> \in pending
          /\ <<t, "one_shot">> \in pending' <=> <<t, "one_shot">> \in pending
      BY <1>1, <2>3, <2>8
    <3> QED BY <1>1, <2>1, <2>2, <3>1 DEF WindowAt, Counted
  <2> QED BY <2>5, <2>6, <2>7, <2>8
<1> QED BY <1>2, <1>3, <1>4

LEMMA AttributionStep ==
  ASSUME Types, Attribution, [ProfilingNext]_profilingVars
  PROVE  Attribution'
<1>1. ASSUME NEW t \in Threads, ThreadStep(t)
      PROVE  Attribution'
  <2>1. CASE Quiet(t)
    BY <2>1, QuietIsCalm, AttributionCalm
  <2>2. CASE OneShotStart(t)
    BY <2>2, AttributionStart DEF OneShotStart
  <2>3. CASE OneShotStop(t)
    BY <2>3, AttributionStop DEF OneShotStop
  <2>4. CASE SubmitStart(t)
    BY <2>4, AttributionStart DEF SubmitStart
  <2>5. CASE SubmitStop(t)
    BY <2>5, AttributionStop DEF SubmitStop
  <2>6. CASE GpuWorks(t)
    <3>1. PICK k \in Kinds : Execute(<<t, k>>)
      BY <2>6 DEF GpuWorks
    <3>2. <<t, k>> \in Work
      BY DEF Work
    <3> QED BY <3>1, <3>2, AttributionExecute
  <2> QED BY <1>1, <2>1, <2>2, <2>3, <2>4, <2>5, <2>6, AttributionOneShotSubmit,
             AttributionWait, AttributionAccepted, AttributionRefused
          DEF ThreadStep, Quiet
<1>2. CASE DeviceLost
  BY <1>2 DEF DeviceLost, sampleVars, Attribution, Alone, Awaited, Windows, Sampled
<1>3. CASE UNCHANGED profilingVars
  BY <1>3, StutterIsCalm, AttributionCalm
<1> QED BY <1>1, <1>2, <1>3, Steps

\* Counters are reported for the submission they were sampled for, whatever the
\* threads, the queues and the order in which the GPU runs what is submitted.
THEOREM ReportsAttributed == ProfilingSpec => []ReportAttributed
BY TypesInit, TypesStep, AttributionInit, AttributionStep, AttributionImplies, PTL DEF ProfilingSpec

-----------------------------------------------------------------------------
(* The queries that are asked for.                                         *)

\* A batch in whose commands a scoped query q is open, or none.
EndsOf(q) == {e \in {EndOf(q)} : q # NoQuery}
Open(b, q) ==
  b.again \/ /\ Asked(b) = b.written \cup EndsOf(q)
             /\ DOMAIN b.pools \subseteq b.resets
             /\ \A p \in DOMAIN b.pools : b.pools[p] <= kPoolBlockSize

CopyPoints == {"copy", "one_shot_start", "one_shot_submit", "one_shot_wait", "one_shot_stop",
               "one_shot_cleanup", "one_shot_dropped"}
Queries ==
  \A t \in Threads : /\ Open(recording[t], outer[t])
                     /\ outer[t] # NoQuery => pc[t] \in CopyPoints
                     /\ Open(handed[t], NoQuery) /\ Open(oneShot[t], NoQuery)

LEMMA OpenEmpty == Open(EmptyBatch, NoQuery)
BY DEF Open, EmptyBatch, EndsOf, Asked

LEMMA OpenIsSound ==
  ASSUME NEW b \in Batch, Open(b, NoQuery)
  PROVE  Sound(b)
<1> SUFFICES ASSUME ~ b.again
             PROVE  /\ Asked(b) = b.written
                    /\ \A q \in b.written : q[1] \in b.resets /\ q[2] < kPoolBlockSize
  BY DEF Sound
<1>1. Asked(b) = b.written
  BY DEF Open, EndsOf
<1>2. ASSUME NEW q \in b.written PROVE q[1] \in b.resets /\ q[2] < kPoolBlockSize
  <2>1. PICK p \in DOMAIN b.pools : \E i \in 0 .. b.pools[p] - 1 : q = <<p, i>>
    BY <1>1 DEF Asked
  <2>2. b.pools[p] <= kPoolBlockSize /\ p \in b.resets
    BY DEF Open
  <2>3. b.pools[p] \in Nat /\ kPoolBlockSize \in Nat
    BY ProfilingAssumption DEF Batch
  <2>4. \A i \in 0 .. b.pools[p] - 1 : i < kPoolBlockSize
    BY <2>2, <2>3
  <2> QED BY <2>1, <2>2, <2>4
<1> QED BY <1>1, <1>2

\* What a new pool, and two more queries of the last one, add to the queries.
LEMMA AskedAppend ==
  ASSUME NEW b \in Batch, NEW c \in Batch, c.pools = Append(b.pools, 2)
  PROVE  /\ DOMAIN c.pools = DOMAIN b.pools \cup {Len(b.pools) + 1}
         /\ c.pools[Len(b.pools) + 1] = 2
         /\ \A p \in DOMAIN b.pools : c.pools[p] = b.pools[p]
         /\ Asked(c) = Asked(b) \cup {<<Len(b.pools) + 1, 0>>, <<Len(b.pools) + 1, 1>>}
<1> DEFINE l == Len(b.pools) + 1
<1>0. b.pools \in Seq(Nat)
  BY DEF Batch
<1>1. /\ DOMAIN c.pools = DOMAIN b.pools \cup {l} /\ c.pools[l] = 2
      /\ \A p \in DOMAIN b.pools : c.pools[p] = b.pools[p]
  BY <1>0
<1>2. Asked(c) = Asked(b) \cup {<<l, 0>>, <<l, 1>>}
  <2> HIDE DEF l
  <2>1. 0 .. 2 - 1 = {0, 1}
    OBVIOUS
  <2>2. {<<l, i>> : i \in 0 .. c.pools[l] - 1} = {<<l, 0>>, <<l, 1>>}
    BY <1>1, <2>1
  <2>3. \A p \in DOMAIN b.pools : {<<p, i>> : i \in 0 .. c.pools[p] - 1}
                                   = {<<p, i>> : i \in 0 .. b.pools[p] - 1}
    BY <1>1
  <2> QED BY <1>1, <2>2, <2>3 DEF Asked
<1> QED BY <1>1, <1>2

LEMMA AskedGrown ==
  ASSUME NEW b \in Batch, NEW c \in Batch, NEW l \in DOMAIN b.pools,
         c.pools = [b.pools EXCEPT ![l] = @ + 2]
  PROVE  /\ DOMAIN c.pools = DOMAIN b.pools
         /\ c.pools[l] = b.pools[l] + 2
         /\ \A p \in DOMAIN b.pools \ {l} : c.pools[p] = b.pools[p]
         /\ Asked(c) = Asked(b) \cup {<<l, b.pools[l]>>, <<l, b.pools[l] + 1>>}
<1>0. b.pools \in Seq(Nat) /\ b.pools[l] \in Nat
  BY DEF Batch
<1>1. /\ DOMAIN c.pools = DOMAIN b.pools /\ c.pools[l] = b.pools[l] + 2
      /\ \A p \in DOMAIN b.pools \ {l} : c.pools[p] = b.pools[p]
  BY <1>0
<1>2. Asked(c) = Asked(b) \cup {<<l, b.pools[l]>>, <<l, b.pools[l] + 1>>}
  <2> DEFINE n == b.pools[l]
  <2>1. \A m \in Nat : 0 .. (m + 2) - 1 = (0 .. m - 1) \cup {m, m + 1}
    OBVIOUS
  <2> HIDE DEF n
  <2>2. {<<l, i>> : i \in 0 .. c.pools[l] - 1}
          = {<<l, i>> : i \in 0 .. n - 1} \cup {<<l, n>>, <<l, n + 1>>}
    <3>1. 0 .. c.pools[l] - 1 = (0 .. n - 1) \cup {n, n + 1}
      BY <1>0, <1>1, <2>1 DEF n
    <3> QED BY <3>1
  <2>3. \A p \in DOMAIN b.pools \ {l} : {<<p, i>> : i \in 0 .. c.pools[p] - 1}
                                         = {<<p, i>> : i \in 0 .. b.pools[p] - 1}
    BY <1>1
  <2> QED BY <1>1, <2>2, <2>3 DEF Asked, n
<1> QED BY <1>1, <1>2

\* What MakeScopedTimestampQuery adds when it returns a query.
LEMMA MadeQueries ==
  ASSUME NEW b \in Batch, NEW granted \in BOOLEAN, ~ Refused(b, granted),
         NEW m, m = MakeScopedTimestampQuery(b, granted),
         NEW q, q = QueryMade(b, granted)
  PROVE  /\ m.again = b.again /\ m.written = b.written \cup {q} /\ q # NoQuery
         /\ Asked(m) = Asked(b) \cup {q, EndOf(q)}
         /\ DOMAIN b.pools \subseteq b.resets => DOMAIN m.pools \subseteq m.resets
         /\ (\A p \in DOMAIN b.pools : b.pools[p] <= kPoolBlockSize)
              => \A p \in DOMAIN m.pools : m.pools[p] <= kPoolBlockSize
<1> DEFINE l == Len(b.pools)
<1>0. b.pools \in Seq(Nat) /\ l \in Nat /\ m \in Batch
      /\ kPoolBlockSize \in Nat /\ kPoolBlockSize >= 2
  BY MadeType, ProfilingAssumption DEF Batch
<1>1. CASE NeedsPool(b)
  <2>1. q = <<l + 1, 0>> /\ EndOf(q) = <<l + 1, 1>>
    BY <1>1 DEF QueryMade, EndOf
  <2>2. /\ m.pools = Append(b.pools, 2) /\ m.resets = b.resets \cup {l + 1}
        /\ m.written = b.written \cup {q} /\ m.again = b.again
    BY <1>1 DEF MakeScopedTimestampQuery, Batch
  <2>3. /\ DOMAIN m.pools = DOMAIN b.pools \cup {l + 1}
        /\ m.pools[l + 1] = 2
        /\ \A p \in DOMAIN b.pools : m.pools[p] = b.pools[p]
        /\ Asked(m) = Asked(b) \cup {<<l + 1, 0>>, <<l + 1, 1>>}
    <3>1. b \in Batch /\ m \in Batch /\ m.pools = Append(b.pools, 2)
      BY <1>0, <2>2
    <3> QED BY ONLY <3>1, AskedAppend
  <2>4. q # NoQuery
    BY <1>0, <2>1 DEF NoQuery
  <2> HIDE DEF l
  <2> QED BY <1>0, <2>1, <2>2, <2>3, <2>4
<1>2. CASE ~ NeedsPool(b)
  <2>1. l \in DOMAIN b.pools /\ b.pools[l] \in Nat /\ b.pools[l] + 2 <= kPoolBlockSize
    BY <1>0, <1>2 DEF NeedsPool
  <2>2. q = <<l, b.pools[l]>> /\ EndOf(q) = <<l, b.pools[l] + 1>>
    BY <1>2 DEF QueryMade, EndOf
  <2>3. /\ m.pools = [b.pools EXCEPT ![l] = @ + 2] /\ m.resets = b.resets
        /\ m.written = b.written \cup {q} /\ m.again = b.again
    BY <1>2 DEF MakeScopedTimestampQuery, Batch
  <2>4. /\ DOMAIN m.pools = DOMAIN b.pools
        /\ m.pools[l] = b.pools[l] + 2
        /\ \A p \in DOMAIN b.pools \ {l} : m.pools[p] = b.pools[p]
        /\ Asked(m) = Asked(b) \cup {<<l, b.pools[l]>>, <<l, b.pools[l] + 1>>}
    <3>1. b \in Batch /\ m \in Batch /\ l \in DOMAIN b.pools
          /\ m.pools = [b.pools EXCEPT ![l] = @ + 2]
      BY <1>0, <2>1, <2>3
    <3> HIDE DEF l
    <3> QED BY ONLY <3>1, AskedGrown
  <2>5. q # NoQuery
    BY <1>0, <2>1, <2>2 DEF NoQuery
  <2> HIDE DEF l
  <2> QED BY <1>0, <2>1, <2>2, <2>3, <2>4, <2>5
<1> QED BY <1>1, <1>2

\* A copy opens a query, its dispatches open and close theirs, its end closes it.
LEMMA MadeOpens ==
  ASSUME NEW b \in Batch, NEW granted \in BOOLEAN, Open(b, NoQuery)
  PROVE  Open(MakeScopedTimestampQuery(b, granted), QueryMade(b, granted))
<1>1. CASE Refused(b, granted)
  BY <1>1 DEF MakeScopedTimestampQuery, QueryMade
<1>2. CASE ~ Refused(b, granted)
  BY <1>2, MadeQueries DEF Open, EndsOf
<1> QED BY <1>1, <1>2

LEMMA EndCloses ==
  ASSUME NEW b \in Batch, NEW q, Open(b, q)
  PROVE  Open(End(b, q), NoQuery)
<1>1. CASE q = NoQuery
  BY <1>1 DEF End
<1>2. CASE q # NoQuery
  <2> DEFINE e == End(b, q)
  <2>1. /\ e.pools = b.pools /\ e.resets = b.resets /\ e.again = b.again
        /\ e.written = b.written \cup {EndOf(q)}
    BY <1>2 DEF End, Batch
  <2>2. Asked(e) = Asked(b)
    BY <2>1 DEF Asked
  <2> HIDE DEF e
  <2>3. Open(e, NoQuery)
    BY <1>2, <2>1, <2>2 DEF Open, EndsOf
  <2> QED BY <2>3 DEF e
<1> QED BY <1>1, <1>2

LEMMA DispatchKeeps ==
  ASSUME NEW b \in Batch, NEW granted \in BOOLEAN, NEW outside, Open(b, outside)
  PROVE  Open(ScopedDispatch(b, granted), outside)
<1>1. CASE Refused(b, granted)
  BY <1>1 DEF ScopedDispatch, MakeScopedTimestampQuery, QueryMade, End
<1>2. CASE ~ Refused(b, granted)
  <2> DEFINE m == MakeScopedTimestampQuery(b, granted)
             q == QueryMade(b, granted)
             d == End(m, q)
  <2>1. /\ m.again = b.again /\ m.written = b.written \cup {q} /\ q # NoQuery
        /\ Asked(m) = Asked(b) \cup {q, EndOf(q)}
        /\ DOMAIN b.pools \subseteq b.resets => DOMAIN m.pools \subseteq m.resets
        /\ (\A p \in DOMAIN b.pools : b.pools[p] <= kPoolBlockSize)
             => \A p \in DOMAIN m.pools : m.pools[p] <= kPoolBlockSize
        /\ m \in Batch
    BY <1>2, MadeQueries, MadeType
  <2> HIDE DEF m, q
  <2>2. /\ d.pools = m.pools /\ d.resets = m.resets /\ d.again = m.again
        /\ d.written = m.written \cup {EndOf(q)}
    BY <2>1 DEF End, Batch
  <2>3. Asked(d) = Asked(m)
    BY <2>2 DEF Asked
  <2> HIDE DEF d
  <2>4. Open(d, outside)
    BY <2>1, <2>2, <2>3 DEF Open
  <2> QED BY <2>4 DEF d, m, q, ScopedDispatch
<1> QED BY <1>1, <1>2

LEMMA QueriesInit == ProfilingInit => Queries
BY OpenEmpty DEF ProfilingInit, Queries

LEMMA QueriesImply == Types /\ Queries => QueriesAnswered
<1> SUFFICES ASSUME Types, Queries, NEW t \in Threads
             PROVE  /\ Sound(handed[t]) /\ Sound(oneShot[t])
                    /\ pc[t] = "idle" => Sound(recording[t])
  BY DEF QueriesAnswered
<1>1. handed[t] \in Batch /\ oneShot[t] \in Batch /\ recording[t] \in Batch
  BY DEF Types
<1>2. pc[t] = "idle" => Open(recording[t], NoQuery)
  BY DEF Queries, CopyPoints
<1> QED BY <1>1, <1>2, OpenIsSound DEF Queries

\* The steps that touch no query: a copy that was being recorded still is.
LEMMA QueriesUntouched ==
  ASSUME Queries, UNCHANGED <<recording, outer, oneShot, handed>>,
         \A u \in Threads : pc[u] \in CopyPoints => pc'[u] \in CopyPoints
  PROVE  Queries'
BY DEF Queries

\* The steps of one thread that do.
LEMMA QueriesOfOne ==
  ASSUME Queries, NEW t \in Threads,
         \A u \in Threads \ {t} :
           /\ recording'[u] = recording[u] /\ outer'[u] = outer[u]
           /\ oneShot'[u] = oneShot[u] /\ handed'[u] = handed[u] /\ pc'[u] = pc[u],
         Open(recording'[t], outer'[t]), Open(oneShot'[t], NoQuery), Open(handed'[t], NoQuery),
         outer'[t] # NoQuery => pc'[t] \in CopyPoints
  PROVE  Queries'
BY DEF Queries

LEMMA QueriesRecording ==
  ASSUME Types, Queries, NEW t \in Threads,
         BeginCopy(t) \/ DispatchInCopy(t) \/ EndCopy(t) \/ BeginAgain(t) \/ Freed(t)
  PROVE  Queries'
<1>0. /\ pc \in [Threads -> Points] /\ recording \in [Threads -> Batch]
      /\ oneShot \in [Threads -> Batch] /\ handed \in [Threads -> Batch]
      /\ outer \in [Threads -> Query \cup {NoQuery}] /\ recording[t] \in Batch
  BY DEF Types
<1>1. Open(recording[t], outer[t]) /\ Open(oneShot[t], NoQuery) /\ Open(handed[t], NoQuery)
  BY DEF Queries
<1>2. UNCHANGED <<oneShot, handed>>
  BY DEF BeginCopy, DispatchInCopy, EndCopy, BeginAgain, Freed, batchVars
<1>3. pc[t] \notin CopyPoints => outer[t] = NoQuery
  BY DEF Queries
<1>4. CASE BeginCopy(t)
  <2>1. PICK granted \in Grants(t, recording[t]) :
          /\ recording' = [recording EXCEPT ![t] =
                             [MakeScopedTimestampQuery(@, granted) EXCEPT !.used = TRUE]]
          /\ outer' = [outer EXCEPT ![t] = QueryMade(recording[t], granted)]
    BY <1>4 DEF BeginCopy
  <2>2. outer[t] = NoQuery /\ granted \in BOOLEAN
    BY <1>3, <1>4, GrantsType DEF BeginCopy, CopyPoints
  <2> DEFINE m == MakeScopedTimestampQuery(recording[t], granted)
             q == QueryMade(recording[t], granted)
  <2>3. m \in Batch /\ Open(m, q)
    BY <1>0, <1>1, <2>2, MadeType, MadeOpens
  <2>4. recording' = [recording EXCEPT ![t] = [m EXCEPT !.used = TRUE]] /\ outer'[t] = q
        /\ \A u \in Threads \ {t} : outer'[u] = outer[u]
    BY <1>0, <2>1
  <2> HIDE DEF m, q
  <2>5. Open([m EXCEPT !.used = TRUE], q)
    BY <2>3 DEF Open, Asked, Batch
  <2>6. pc'[t] = "copy" /\ \A u \in Threads \ {t} : pc'[u] = pc[u]
    BY <1>0, <1>4 DEF BeginCopy, Goto
  <2> QED BY <1>0, <1>1, <1>2, <2>4, <2>5, <2>6, QueriesOfOne DEF CopyPoints
<1>5. CASE DispatchInCopy(t)
  <2>1. PICK granted \in Grants(t, recording[t]) :
          recording' = [recording EXCEPT ![t] = ScopedDispatch(recording[t], granted)]
    BY <1>5 DEF DispatchInCopy
  <2>2. granted \in BOOLEAN
    BY GrantsType
  <2>3. Open(recording'[t], outer[t])
    BY <1>0, <1>1, <2>1, <2>2, DispatchKeeps
  <2>4. outer[t] # NoQuery => pc[t] \in CopyPoints
    BY <1>3
  <2> QED BY <1>0, <1>1, <1>2, <1>5, <2>1, <2>3, <2>4, QueriesOfOne DEF DispatchInCopy
<1>6. CASE EndCopy(t)
  <2>1. Open(End(recording[t], outer[t]), NoQuery)
    BY <1>0, <1>1, EndCloses
  <2> QED BY <1>0, <1>1, <1>2, <1>6, <2>1, QueriesOfOne DEF EndCopy, Goto
<1>7. CASE BeginAgain(t)
  <2>1. recording'[t].again
    BY <1>0, <1>7 DEF BeginAgain, Batch
  <2>2. Open(recording'[t], outer[t])
    BY <2>1 DEF Open
  <2> QED BY <1>0, <1>1, <1>2, <1>3, <1>7, <2>2, QueriesOfOne DEF BeginAgain
<1>8. CASE Freed(t)
  <2>1. outer[t] = NoQuery
    BY <1>3, <1>8 DEF Freed, CopyPoints
  <2> QED BY <1>0, <1>1, <1>2, <1>8, <2>1, OpenEmpty, QueriesOfOne DEF Freed, Goto
<1> QED BY <1>4, <1>5, <1>6, <1>7, <1>8

LEMMA QueriesOneShot ==
  ASSUME Types, Queries, NEW t \in Threads,
         OneShotRecord(t) \/ Dropped(t) \/ OneShotCleaned(t)
  PROVE  Queries'
<1>0. pc \in [Threads -> Points] /\ oneShot \in [Threads -> Batch]
  BY DEF Types
<1>1. UNCHANGED <<recording, outer, handed>>
  BY DEF OneShotRecord, Dropped, OneShotCleaned, batchVars
<1>2. Open(recording[t], outer[t]) /\ Open(handed[t], NoQuery)
  BY DEF Queries
<1>3. CASE OneShotRecord(t)
  <2>1. PICK granted \in Grants(t, EmptyBatch) :
          oneShot' = [oneShot EXCEPT ![t] = ScopedDispatch(EmptyBatch, granted)]
    BY <1>3 DEF OneShotRecord
  <2>2. Open(oneShot'[t], NoQuery)
    BY <1>0, <2>1, EmptyType, GrantsType, OpenEmpty, DispatchKeeps
  <2>3. pc'[t] \in CopyPoints /\ \A u \in Threads \ {t} : pc'[u] = pc[u]
    BY <1>0, <1>3 DEF OneShotRecord, Goto, CopyPoints
  <2> QED BY <1>0, <1>1, <1>2, <2>1, <2>2, <2>3, QueriesOfOne
<1>4. CASE Dropped(t) \/ OneShotCleaned(t)
  <2>1. oneShot' = [oneShot EXCEPT ![t] = EmptyBatch] /\ pc' = [pc EXCEPT ![t] = "copy"]
    BY <1>4 DEF Dropped, OneShotCleaned, Goto
  <2> QED BY <1>0, <1>1, <1>2, <2>1, OpenEmpty, QueriesOfOne DEF CopyPoints
<1> QED BY <1>3, <1>4

LEMMA QueriesHanded ==
  ASSUME Types, Queries, NEW t \in Threads, QueueSubmit(t) \/ Cleaned(t)
  PROVE  Queries'
<1>0. /\ pc \in [Threads -> Points] /\ recording \in [Threads -> Batch]
      /\ handed \in [Threads -> Batch]
  BY DEF Types
<1>1. Open(recording[t], outer[t]) /\ Open(oneShot[t], NoQuery) /\ Open(handed[t], NoQuery)
  BY DEF Queries
<1>2. CASE QueueSubmit(t)
  <2>1. outer[t] = NoQuery
    BY <1>2 DEF QueueSubmit, Queries, CopyPoints
  <2>2. /\ recording' = [recording EXCEPT ![t] = EmptyBatch]
        /\ handed' = handed \/ handed' = [handed EXCEPT ![t] = recording[t]]
        /\ UNCHANGED <<outer, oneShot>>
    BY <1>2 DEF QueueSubmit
  <2>3. \A u \in Threads \ {t} : pc'[u] = pc[u]
    BY <1>0, <1>2 DEF QueueSubmit, Goto
  <2>4. Open(handed'[t], NoQuery)
    BY <1>0, <1>1, <2>1, <2>2
  <2> QED BY <1>0, <1>1, <2>1, <2>2, <2>3, <2>4, OpenEmpty, QueriesOfOne
<1>3. CASE Cleaned(t)
  <2>1. /\ handed' = [handed EXCEPT ![t] = EmptyBatch]
        /\ UNCHANGED <<recording, outer, oneShot, pc>>
    BY <1>3 DEF Cleaned, recordVars
  <2>2. outer[t] # NoQuery => pc[t] \in CopyPoints
    BY DEF Queries
  <2> QED BY <1>0, <1>1, <2>1, <2>2, OpenEmpty, QueriesOfOne
<1> QED BY <1>2, <1>3

\* The other steps record nothing; where the thread goes depends on whether it
\* is recording a copy.
LEMMA QueriesOther ==
  ASSUME Types, Queries, NEW t \in Threads,
         \/ FreeCommandBuffer(t) \/ OneShotStart(t) \/ OneShotSubmit(t) \/ OneShotWaited(t)
         \/ OneShotStop(t) \/ SubmitStart(t) \/ SubmitAccepted(t) \/ SubmitRefused(t)
         \/ QueueWaited(t) \/ SubmitStop(t) \/ FenceAccepted(t) \/ FenceRefused(t)
         \/ GpuWorks(t) \/ FinTake(t)
  PROVE  Queries'
<1>0. pc \in [Threads -> Points]
  BY DEF Types
<1>1. CASE FreeCommandBuffer(t)
  BY <1>0, <1>1, QueriesUntouched DEF FreeCommandBuffer, Goto, CopyPoints, recordVars, batchVars
<1>2. CASE OneShotStart(t)
  BY <1>0, <1>2, QueriesUntouched DEF OneShotStart, Goto, CopyPoints, recordVars, batchVars
<1>3. CASE OneShotSubmit(t)
  BY <1>0, <1>3, QueriesUntouched DEF OneShotSubmit, Goto, CopyPoints, recordVars, batchVars
<1>4. CASE OneShotWaited(t)
  BY <1>0, <1>4, QueriesUntouched DEF OneShotWaited, Goto, CopyPoints, recordVars, batchVars
<1>5. CASE OneShotStop(t)
  BY <1>0, <1>5, QueriesUntouched DEF OneShotStop, Goto, CopyPoints, recordVars, batchVars
<1>6. CASE SubmitStart(t)
  BY <1>0, <1>6, QueriesUntouched DEF SubmitStart, Goto, CopyPoints, recordVars, batchVars
<1>7. CASE SubmitAccepted(t)
  BY <1>0, <1>7, QueriesUntouched DEF SubmitAccepted, Submitting, Goto, CopyPoints, recordVars
<1>8. CASE SubmitRefused(t)
  BY <1>0, <1>8, QueriesUntouched DEF SubmitRefused, Submitting, Goto, CopyPoints, recordVars
<1>9. CASE QueueWaited(t)
  BY <1>0, <1>9, QueriesUntouched DEF QueueWaited, Goto, CopyPoints, recordVars, batchVars
<1>10. CASE SubmitStop(t)
  BY <1>0, <1>10, QueriesUntouched DEF SubmitStop, Goto, CopyPoints, recordVars, batchVars
<1>11. CASE GpuWorks(t)
  BY <1>11, QueriesUntouched DEF GpuWorks, Execute, recordVars, batchVars
<1>12. CASE FinTake(t)
  BY <1>12, QueriesUntouched DEF FinTake, recordVars
<1>13. CASE FenceAccepted(t) \/ FenceRefused(t)
  BY <1>0, <1>13, QueriesUntouched DEF FenceAccepted, FenceRefused, Goto, CopyPoints, recordVars
<1> QED BY <1>1, <1>2, <1>3, <1>4, <1>5, <1>6, <1>7, <1>8, <1>9, <1>10, <1>11, <1>12, <1>13

LEMMA QueriesStep ==
  ASSUME Types, Queries, [ProfilingNext]_profilingVars
  PROVE  Queries'
<1>1. ASSUME NEW t \in Threads, ThreadStep(t) PROVE Queries'
  BY <1>1, QueriesRecording, QueriesOneShot, QueriesHanded, QueriesOther DEF ThreadStep
<1>2. CASE DeviceLost
  BY <1>2, QueriesUntouched DEF DeviceLost, recordVars, batchVars
<1>3. CASE UNCHANGED profilingVars
  BY <1>3, QueriesUntouched DEF profilingVars, recordVars, batchVars
<1> QED BY <1>1, <1>2, <1>3, Steps

\* Cleanup waits only for the results of queries that the commands of the batch
\* reset and write, for pools of any size and however often the driver refuses one.
THEOREM QueriesAreAnswered == ProfilingSpec => []QueriesAnswered
BY TypesInit, TypesStep, QueriesInit, QueriesStep, QueriesImply, PTL DEF ProfilingSpec
=============================================================================
