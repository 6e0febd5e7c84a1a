--------------------------- MODULE PipelineState ---------------------------
(***************************************************************************)
(* The compute bind state of one command buffer and the scope guard that   *)
(* hides the layer's own compute dispatches from the application           *)
(* (pipeline_state.cpp, and its callers in command_buffer.cpp).            *)
(*                                                                         *)
(* The layer records what the application binds in computePipelineState.   *)
(* A copy into an emulated BCn image injects dispatches that overwrite     *)
(* the driver's compute pipeline, descriptor set 0 and push constants;     *)
(* ScopedPipelineStateSnapshot copies computePipelineState beforehand and  *)
(* rebinds it afterwards.  What must come out is a command buffer in which *)
(* the application cannot tell that anything was injected: want is the     *)
(* state the application's own calls alone would leave in the driver.      *)
(*                                                                         *)
(* A command buffer is recorded by one thread at a time, so the steps of   *)
(* a scope are not interleaved with other calls on it.                     *)
(***************************************************************************)
EXTENDS Integers, Sequences

CONSTANTS
  Pipelines,   \* the application's compute pipelines
  BindCalls,   \* the vkCmdBindDescriptorSets calls it makes (see BindCall)
  PushCalls,   \* the vkCmdPushConstants calls it makes (see PushCall)
  Layouts,     \* the application's pipeline layouts
  ClassOf,     \* layout -> class of mutually compatible layouts
  NumSets,     \* maxBoundDescriptorSets of the device
  NumBytes,    \* maxPushConstantsSize of the device
  kMaxTrackedDescriptorSets, kMaxTrackedPushConstantBytes,
  kMaxTrackedDynamicOffsets,
  Injected,    \* whatever the layer's own dispatches bind
  None

SetSlots == 0 .. NumSets - 1
Bytes == 0 .. NumBytes - 1
TrackedSlots == 0 .. kMaxTrackedDescriptorSets - 1
TrackedBytes == 0 .. kMaxTrackedPushConstantBytes - 1

DescriptorSets == UNION {{c.binds[k].set : k \in DOMAIN c.binds} : c \in BindCalls}
Offsets == UNION {{c.binds[k].offsets : k \in DOMAIN c.binds} : c \in BindCalls}
StageFlags == {c.stageFlags : c \in PushCalls}
Values == {c.value : c \in PushCalls}

\* The bytes a push constant range covers.
Span(r) == r.offset .. r.offset + r.size - 1

ASSUME BindCall ==
  \A c \in BindCalls :
     /\ c.layout \in Layouts
     /\ c.first \in SetSlots
     /\ c.binds \in Seq([set : DescriptorSets, offsets : Seq(Nat)])
     /\ c.first + Len(c.binds) <= NumSets
ASSUME PushCall ==
  \A c \in PushCalls :
     /\ c.layout \in Layouts
     /\ c.stageFlags \in SUBSET {"compute", "graphics"}
     /\ c.offset \in Nat /\ c.size \in Nat \ {0} /\ c.offset + c.size <= NumBytes
     /\ c.value \in Nat \ {0}
ASSUME Limits ==
  /\ NumSets \in Nat \ {0} /\ NumBytes \in Nat \ {0}
  /\ kMaxTrackedDescriptorSets \in Nat /\ kMaxTrackedPushConstantBytes \in Nat
  /\ kMaxTrackedDynamicOffsets \in Nat
ASSUME Names ==
  /\ None \notin Pipelines \cup Layouts \cup DescriptorSets \cup Values
  /\ Injected \notin Pipelines \cup Layouts \cup DescriptorSets \cup Values
  /\ Injected # None
  /\ \A l \in Layouts : ClassOf[l] \notin {Injected, None}

VARIABLES
  pc,          \* where the recording thread is: in the application or in a scope
  next,        \* the slot or range the destructor restores next
  tracked,     \* cb->computePipelineState
  m_snapshot,  \* the copy held by the scope guard
  gpu,         \* the driver's compute bind state of the command buffer
  want         \* that state had the layer injected nothing

vars == <<pc, next, tracked, m_snapshot, gpu, want>>

------------------------------------------------------------------------------
(* The driver (Vulkan, "Pipeline Layout Compatibility"): a bind through a   *)
(* layout disturbs the sets bound through layouts of another class, and a   *)
(* push the constants pushed through another class.                         *)

Unbound == [pipeline  |-> None,
            sets      |-> [i \in SetSlots |-> None],
            pushClass |-> None,
            push      |-> [b \in Bytes |-> None]]

ClassAt(slot) == IF slot.layout = Injected THEN Injected ELSE ClassOf[slot.layout]

DriverBindSets(g, layout, class, first, binds) ==
  [g EXCEPT !.sets = [i \in SetSlots |->
     IF i \in first .. first + Len(binds) - 1
     THEN [set |-> binds[i - first + 1].set, layout |-> layout,
           offsets |-> binds[i - first + 1].offsets]
     ELSE IF g.sets[i] # None /\ ClassAt(g.sets[i]) = class THEN g.sets[i]
     ELSE None]]

DriverPush(g, class, span, data) ==
  [g EXCEPT !.pushClass = class,
            !.push = [b \in Bytes |-> IF b \in span THEN data[b]
                                      ELSE IF g.pushClass = class THEN g.push[b]
                                      ELSE None]]

------------------------------------------------------------------------------
(* What the layer keeps (compute_bind_state).                               *)

EmptySlot == [valid |-> FALSE, set |-> None, layout |-> None, dynamicOffsets |-> <<>>]

\* Mutant: reset forgets the descriptor sets.
ResetKeepsSets(state) ==
  [state EXCEPT !.pipelineBound = FALSE, !.pipeline = None,
                !.anyPushConstantsPushed = FALSE, !.pushConstantRanges = <<>>]

\* compute_bind_state::reset: everything but the bytes themselves.
reset(state) ==
  [state EXCEPT !.pipelineBound = FALSE,
                !.pipeline = None,
                !.sets = [i \in TrackedSlots |-> EmptySlot],
                !.anyPushConstantsPushed = FALSE,
                !.pushConstantRanges = <<>>]

NewState ==
  [pipelineBound |-> FALSE, pipeline |-> None,
   sets |-> [i \in TrackedSlots |-> EmptySlot],
   pushConstantBytes |-> [b \in TrackedBytes |-> 0],
   anyPushConstantsPushed |-> FALSE, pushConstantRanges |-> <<>>]

Truncate(offsets) ==
  IF Len(offsets) <= kMaxTrackedDynamicOffsets THEN offsets
  ELSE SubSeq(offsets, 1, kMaxTrackedDynamicOffsets)

\* Of a call that binds several sets with dynamic offsets the slots keep the
\* offsets they had before.
track_descriptor_set_binds(state, c) ==
  LET bound  == {i \in TrackedSlots : i \in c.first .. c.first + Len(c.binds) - 1}
      bind(i) == c.binds[i - c.first + 1]
      dynamic == \E k \in DOMAIN c.binds : c.binds[k].offsets # <<>>
  IN  [state EXCEPT !.sets = [i \in TrackedSlots |->
         IF i \notin bound THEN state.sets[i]
         ELSE [valid |-> TRUE, set |-> bind(i).set, layout |-> c.layout,
               dynamicOffsets |->
                 IF Len(c.binds) > 1 /\ dynamic THEN state.sets[i].dynamicOffsets
                 ELSE Truncate(bind(i).offsets)]]]

\* One range is kept for each layout and stage mask (so at most one is the
\* same): a push of other bytes replaces it.
RememberRange(ranges, r) ==
  LET same == {k \in DOMAIN ranges : /\ ranges[k].layout = r.layout
                                     /\ ranges[k].stageFlags = r.stageFlags}
  IN  IF same = {} THEN Append(ranges, r)
      ELSE [k \in DOMAIN ranges |-> IF k \in same THEN r ELSE ranges[k]]

PushedRange(c) == [layout |-> c.layout, stageFlags |-> c.stageFlags,
             offset |-> c.offset, size |-> c.size]

track_push_constants(state, c) ==
  IF "compute" \notin c.stageFlags THEN state
  ELSE [state EXCEPT
          !.pushConstantBytes =
             IF c.offset + c.size <= kMaxTrackedPushConstantBytes
             THEN [b \in TrackedBytes |->
                     IF b \in Span(c) THEN c.value ELSE state.pushConstantBytes[b]]
             ELSE state.pushConstantBytes,
          !.anyPushConstantsPushed = TRUE,
          !.pushConstantRanges = RememberRange(state.pushConstantRanges, PushedRange(c))]

------------------------------------------------------------------------------
Init ==
  /\ pc = "app"
  /\ next = 0
  /\ tracked = NewState
  /\ m_snapshot = NewState
  /\ gpu = Unbound
  /\ want = Unbound

\* BCnLayer_BeginCommandBuffer and BCnLayer_ResetCommandBuffer.
BeginOrReset ==
  /\ pc = "app"
  /\ tracked' = reset(tracked)
  /\ gpu' = Unbound
  /\ want' = Unbound
  /\ UNCHANGED <<pc, next, m_snapshot>>

CmdBindPipeline ==
  /\ pc = "app"
  /\ \E p \in Pipelines :
       /\ tracked' = [tracked EXCEPT !.pipelineBound = TRUE, !.pipeline = p]
       /\ gpu' = [gpu EXCEPT !.pipeline = p]
       /\ want' = [want EXCEPT !.pipeline = p]
  /\ UNCHANGED <<pc, next, m_snapshot>>

\* CmdBindDescriptorSets and CmdBindDescriptorSets2, for the compute stage.
CmdBindDescriptorSets ==
  /\ pc = "app"
  /\ \E c \in BindCalls :
       /\ tracked' = track_descriptor_set_binds(tracked, c)
       /\ gpu' = DriverBindSets(gpu, c.layout, ClassOf[c.layout], c.first, c.binds)
       /\ want' = DriverBindSets(want, c.layout, ClassOf[c.layout], c.first, c.binds)
  /\ UNCHANGED <<pc, next, m_snapshot>>

AppPush(g, c) ==
  IF "compute" \in c.stageFlags
  THEN DriverPush(g, ClassOf[c.layout], Span(c), [b \in Span(c) |-> c.value])
  ELSE g

\* CmdPushConstants and CmdPushConstants2.
CmdPushConstants ==
  /\ pc = "app"
  /\ \E c \in PushCalls :
       /\ tracked' = track_push_constants(tracked, c)
       /\ gpu' = AppPush(gpu, c)
       /\ want' = AppPush(want, c)
  /\ UNCHANGED <<pc, next, m_snapshot>>

\* A copy into an emulated image opens a scope: the constructor.
OpenScope ==
  /\ pc = "app"
  /\ m_snapshot' = tracked
  /\ pc' = "injecting"
  /\ UNCHANGED <<next, tracked, gpu, want>>

\* A dispatch of the layer: bind its pipeline, push its constants and bind its
\* descriptor set 0 through its own layout, calling the driver directly.
Clobber(g) ==
  [DriverPush(DriverBindSets(g, Injected, Injected, 0,
                             <<[set |-> Injected, offsets |-> <<>>]>>),
              Injected, {0}, [b \in {0} |-> Injected])
     EXCEPT !.pipeline = Injected]

InjectDispatch ==
  /\ pc = "injecting"
  /\ gpu' = Clobber(gpu)
  /\ UNCHANGED <<pc, next, tracked, m_snapshot, want>>

\* The destructor, first part: the pipeline.
RestorePipeline ==
  /\ pc = "injecting"
  /\ gpu' = IF m_snapshot.pipelineBound /\ m_snapshot.pipeline # None
            THEN [gpu EXCEPT !.pipeline = m_snapshot.pipeline] ELSE gpu
  /\ pc' = "sets"
  /\ next' = 0
  /\ UNCHANGED <<tracked, m_snapshot, want>>

\* Second part: every valid slot, in ascending order, through its own layout.
RestoreSet ==
  /\ pc = "sets"
  /\ next < kMaxTrackedDescriptorSets
  /\ LET slot == m_snapshot.sets[next]
     IN  gpu' = IF slot.valid
                THEN DriverBindSets(gpu, slot.layout, ClassOf[slot.layout], next,
                       <<[set |-> slot.set, offsets |-> slot.dynamicOffsets]>>)
                ELSE gpu
  /\ next' = next + 1
  /\ UNCHANGED <<pc, tracked, m_snapshot, want>>

SetsRestored ==
  /\ pc = "sets"
  /\ next >= kMaxTrackedDescriptorSets
  /\ pc' = "ranges"
  /\ next' = 1
  /\ UNCHANGED <<tracked, m_snapshot, gpu, want>>

\* Mutant: the last byte of the array taken for one past it.
RestoreRangeBelowLimit ==
  /\ pc = "ranges"
  /\ m_snapshot.anyPushConstantsPushed
  /\ next <= Len(m_snapshot.pushConstantRanges)
  /\ LET r == m_snapshot.pushConstantRanges[next]
     IN  gpu' = IF r.offset + r.size >= kMaxTrackedPushConstantBytes THEN gpu
                ELSE DriverPush(gpu, ClassOf[r.layout], Span(r),
                                m_snapshot.pushConstantBytes)
  /\ next' = next + 1
  /\ UNCHANGED <<pc, tracked, m_snapshot, want>>

\* Third part: every remembered range the byte array can hold.
RestoreRange ==
  /\ pc = "ranges"
  /\ m_snapshot.anyPushConstantsPushed
  /\ next <= Len(m_snapshot.pushConstantRanges)
  /\ LET r == m_snapshot.pushConstantRanges[next]
     IN  gpu' = IF r.offset + r.size > kMaxTrackedPushConstantBytes THEN gpu
                ELSE DriverPush(gpu, ClassOf[r.layout], Span(r),
                                m_snapshot.pushConstantBytes)
  /\ next' = next + 1
  /\ UNCHANGED <<pc, tracked, m_snapshot, want>>

CloseScope ==
  /\ pc = "ranges"
  /\ ~ m_snapshot.anyPushConstantsPushed \/ next > Len(m_snapshot.pushConstantRanges)
  /\ tracked' = m_snapshot
  /\ pc' = "app"
  /\ next' = 0
  /\ UNCHANGED <<m_snapshot, gpu, want>>

Next ==
  \/ BeginOrReset \/ CmdBindPipeline \/ CmdBindDescriptorSets \/ CmdPushConstants
  \/ OpenScope \/ InjectDispatch \/ RestorePipeline \/ RestoreSet \/ SetsRestored
  \/ RestoreRange \/ CloseScope

Spec == Init /\ [][Next]_vars

------------------------------------------------------------------------------
BoundSlot == [set : DescriptorSets \cup {Injected}, layout : Layouts \cup {Injected},
              offsets : Seq(Nat)]
DriverState ==
  [pipeline : Pipelines \cup {Injected, None},
   sets : [SetSlots -> BoundSlot \cup {None}],
   pushClass : {ClassOf[l] : l \in Layouts} \cup {Injected, None},
   push : [Bytes -> Values \cup {0, Injected, None}]]
SlotState ==
  [valid : {TRUE}, set : DescriptorSets, layout : Layouts, dynamicOffsets : Seq(Nat)]
    \cup [valid : {FALSE}, set : {None}, layout : {None}, dynamicOffsets : Seq(Nat)]
PushRange ==
  [layout : Layouts, stageFlags : SUBSET {"compute", "graphics"},
   offset : Nat, size : Nat \ {0}]
BindState ==
  [pipelineBound : BOOLEAN, pipeline : Pipelines \cup {None},
   sets : [TrackedSlots -> SlotState],
   pushConstantBytes : [TrackedBytes -> Values \cup {0}],
   anyPushConstantsPushed : BOOLEAN,
   pushConstantRanges : Seq(PushRange)]

\* The types of the variables.
TypeOK ==
  /\ pc \in {"app", "injecting", "sets", "ranges"}
  /\ next \in IF pc = "ranges" THEN Nat \ {0} ELSE Nat
  /\ tracked \in BindState
  /\ m_snapshot \in BindState
  /\ gpu \in DriverState
  /\ want \in DriverState

\* What the tracker can represent: sets and bytes within its arrays, dynamic
\* offsets bound one set at a time and within its array, compatible layouts
\* only, and one push constant range for each layout and stage mask.
TrackedUse ==
  /\ \A c \in BindCalls :
       /\ c.first + Len(c.binds) <= kMaxTrackedDescriptorSets
       /\ \A k \in DOMAIN c.binds :
            /\ Len(c.binds[k].offsets) <= kMaxTrackedDynamicOffsets
            /\ Len(c.binds) > 1 => c.binds[k].offsets = <<>>
  /\ \A c \in PushCalls : c.offset + c.size <= kMaxTrackedPushConstantBytes
  /\ \A k, l \in Layouts : ClassOf[k] = ClassOf[l]
  /\ \A c, d \in PushCalls :
       c.layout = d.layout /\ c.stageFlags = d.stageFlags => PushedRange(c) = PushedRange(d)

\* Outside the layer's scopes the driver's compute state is, wherever the
\* application has set it, what the application's own calls have made it: no
\* sequence of binds, pushes and injected copies lets a dispatch of the
\* application see a pipeline, a set or a constant of the layer's.
Transparent ==
  pc = "app" =>
    /\ want.pipeline # None => gpu.pipeline = want.pipeline
    /\ \A i \in SetSlots : want.sets[i] # None => gpu.sets[i] = want.sets[i]
    /\ \A b \in Bytes : want.push[b] # None => gpu.push[b] = want.push[b]

\* The restore brings back nothing the application has not bound since the last
\* vkBeginCommandBuffer or vkResetCommandBuffer: where the application has bound
\* nothing, the driver holds nothing or what the layer's dispatches left.
NothingResurrected ==
  pc = "app" =>
    /\ want.pipeline = None => gpu.pipeline \in {None, Injected}
    /\ \A i \in SetSlots :
         want.sets[i] = None /\ gpu.sets[i] # None => gpu.sets[i].set = Injected
    /\ \A b \in Bytes : want.push[b] = None => gpu.push[b] \in {None, Injected}

=============================================================================
