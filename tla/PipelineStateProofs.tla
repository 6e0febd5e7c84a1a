------------------------ MODULE PipelineStateProofs ------------------------
(***************************************************************************)
(* For every set of calls the tracker can represent (TrackedUse), the      *)
(* application never sees the layer's dispatches: Transparent and          *)
(* NothingResurrected.  The invariant follows the three facets of the bind *)
(* state separately.  Each says that the tracker shadows the application's *)
(* own state, and how much of it the destructor has put back so far.       *)
(***************************************************************************)
EXTENDS PipelineState, SequenceFacts, TLAPS

\* In a scope the snapshot is the tracker's state, which the layer's own
\* dispatches do not touch.
SnapInv == pc # "app" => m_snapshot = tracked

PipelineInv ==
  /\ want.pipeline = IF tracked.pipelineBound THEN tracked.pipeline ELSE None
  /\ tracked.pipelineBound => tracked.pipeline \in Pipelines
  /\ pc # "injecting" /\ want.pipeline # None => gpu.pipeline = want.pipeline
  /\ want.pipeline = None => gpu.pipeline \in {None, Injected}

\* The slots the destructor has already dealt with.
SetsDone ==
  IF pc = "injecting" THEN {}
  ELSE IF pc = "sets" THEN {i \in SetSlots : i < next} ELSE SetSlots

AsBound(slot) ==
  [set |-> slot.set, layout |-> slot.layout, offsets |-> slot.dynamicOffsets]

SetInv ==
  /\ \A i \in TrackedSlots :
       tracked.sets[i].valid =>
         /\ i \in SetSlots
         /\ want.sets[i] = AsBound(tracked.sets[i])
         /\ tracked.sets[i].layout \in Layouts
  /\ \A i \in SetSlots :
       want.sets[i] # None => i \in TrackedSlots /\ tracked.sets[i].valid
  /\ \A i \in SetsDone : want.sets[i] # None => gpu.sets[i] = want.sets[i]
  /\ \A i \in SetSlots :
       want.sets[i] = None /\ gpu.sets[i] # None => gpu.sets[i].set = Injected

\* The ranges the destructor has already pushed.
RangesDone ==
  IF pc \in {"injecting", "sets"} THEN {}
  ELSE IF pc = "ranges" THEN {k \in DOMAIN tracked.pushConstantRanges : k < next}
  ELSE DOMAIN tracked.pushConstantRanges

PushInv ==
  /\ tracked.anyPushConstantsPushed <=> tracked.pushConstantRanges # <<>>
  /\ \A k \in DOMAIN tracked.pushConstantRanges :
       LET r == tracked.pushConstantRanges[k]
       IN  /\ \E c \in PushCalls : "compute" \in c.stageFlags /\ PushedRange(c) = r
           /\ \A b \in Span(r) : want.push[b] = tracked.pushConstantBytes[b]
           /\ \E l \in Layouts : want.pushClass = ClassOf[l]
  /\ \A b \in Bytes :
       want.push[b] # None =>
         \E k \in DOMAIN tracked.pushConstantRanges :
            b \in Span(tracked.pushConstantRanges[k])
  /\ \A k \in RangesDone :
       /\ gpu.pushClass = want.pushClass
       /\ \A b \in Span(tracked.pushConstantRanges[k]) : gpu.push[b] = want.push[b]
  /\ \A b \in Bytes : want.push[b] = None => gpu.push[b] \in {None, Injected}

IInv == TypeOK /\ SnapInv /\ PipelineInv /\ SetInv /\ PushInv

------------------------------------------------------------------------------
(* The operators, field by field.                                           *)

LEMMA BindSetsFields ==
  ASSUME NEW g \in DriverState, NEW layout, NEW class, NEW first, NEW binds
  PROVE  /\ DriverBindSets(g, layout, class, first, binds).pipeline = g.pipeline
         /\ DriverBindSets(g, layout, class, first, binds).pushClass = g.pushClass
         /\ DriverBindSets(g, layout, class, first, binds).push = g.push
         /\ \A i \in SetSlots :
              DriverBindSets(g, layout, class, first, binds).sets[i] =
                  IF i \in first .. first + Len(binds) - 1
                  THEN [set |-> binds[i - first + 1].set, layout |-> layout,
                        offsets |-> binds[i - first + 1].offsets]
                  ELSE IF g.sets[i] # None /\ ClassAt(g.sets[i]) = class
                       THEN g.sets[i] ELSE None
BY DEF DriverState, DriverBindSets

LEMMA PushFields ==
  ASSUME NEW g \in DriverState, NEW class, NEW span, NEW data
  PROVE  /\ DriverPush(g, class, span, data).pipeline = g.pipeline
         /\ DriverPush(g, class, span, data).sets = g.sets
         /\ DriverPush(g, class, span, data).pushClass = class
         /\ \A b \in Bytes :
              DriverPush(g, class, span, data).push[b] =
                  IF b \in span THEN data[b]
                  ELSE IF g.pushClass = class THEN g.push[b] ELSE None
BY DEF DriverState, DriverPush

LEMMA BindSetsType ==
  ASSUME NEW g \in DriverState, NEW layout \in Layouts \cup {Injected}, NEW class,
         NEW first \in Nat,
         NEW binds \in Seq([set : DescriptorSets \cup {Injected}, offsets : Seq(Nat)])
  PROVE  DriverBindSets(g, layout, class, first, binds) \in DriverState
<1> DEFINE cell(i) == IF i \in first .. first + Len(binds) - 1
                      THEN [set |-> binds[i - first + 1].set, layout |-> layout,
                            offsets |-> binds[i - first + 1].offsets]
                      ELSE IF g.sets[i] # None /\ ClassAt(g.sets[i]) = class
                           THEN g.sets[i] ELSE None
<1>1. ASSUME NEW i \in SetSlots PROVE cell(i) \in BoundSlot \cup {None}
  <2>1. CASE i \in first .. first + Len(binds) - 1
    <3>1. i - first + 1 \in 1 .. Len(binds)
      BY <2>1, Limits DEF SetSlots
    <3>2. binds[i - first + 1] \in [set : DescriptorSets \cup {Injected}, offsets : Seq(Nat)]
      BY <3>1, RangeIndex
    <3> QED
      BY <2>1, <3>2 DEF BoundSlot
  <2>2. CASE i \notin first .. first + Len(binds) - 1
    <3>1. g.sets[i] \in BoundSlot \cup {None}
      BY DEF DriverState
    <3> QED
      BY <2>2, <3>1
  <2> QED
    BY <2>1, <2>2
<1>2. [i \in SetSlots |-> cell(i)] \in [SetSlots -> BoundSlot \cup {None}]
  BY <1>1
<1> QED
  BY <1>2 DEF DriverState, DriverBindSets

LEMMA PushType ==
  ASSUME NEW g \in DriverState,
         NEW class \in {ClassOf[l] : l \in Layouts} \cup {Injected}, NEW span, NEW data,
         \A b \in span : data[b] \in Values \cup {0, Injected}
  PROVE  DriverPush(g, class, span, data) \in DriverState
BY DEF DriverState, DriverPush

LEMMA SlotsTracked ==
  ASSUME NEW c \in BindCalls, NEW i \in c.first .. c.first + Len(c.binds) - 1
  PROVE  /\ i - c.first + 1 \in DOMAIN c.binds
         /\ c.binds[i - c.first + 1] \in [set : DescriptorSets, offsets : Seq(Nat)]
         /\ i \in SetSlots
<1>1. c.binds \in Seq([set : DescriptorSets, offsets : Seq(Nat)]) /\ c.first \in 0 .. NumSets - 1
      /\ c.first + Len(c.binds) <= NumSets
  BY BindCall DEF SetSlots
<1>2. i - c.first + 1 \in 1 .. Len(c.binds) /\ i \in 0 .. NumSets - 1
  BY <1>1, Limits
<1>3. /\ DOMAIN c.binds = 1 .. Len(c.binds)
      /\ \A k \in 1 .. Len(c.binds) :
           c.binds[k] \in [set : DescriptorSets, offsets : Seq(Nat)]
  BY <1>1, RangeIndex
<1> QED
  BY <1>2, <1>3 DEF SetSlots

LEMMA TruncateType ==
  ASSUME NEW offsets \in Seq(Nat)
  PROVE  Truncate(offsets) \in Seq(Nat)
BY Limits DEF Truncate

LEMMA TrackBindsType ==
  ASSUME NEW state \in BindState, NEW c \in BindCalls
  PROVE  track_descriptor_set_binds(state, c) \in BindState
<1> DEFINE bound == {i \in TrackedSlots : i \in c.first .. c.first + Len(c.binds) - 1}
           bind(i) == c.binds[i - c.first + 1]
           dynamic == \E k \in DOMAIN c.binds : c.binds[k].offsets # <<>>
           cell(i) == IF i \notin bound THEN state.sets[i]
                      ELSE [valid |-> TRUE, set |-> bind(i).set, layout |-> c.layout,
                            dynamicOffsets |->
                              IF Len(c.binds) > 1 /\ dynamic
                              THEN state.sets[i].dynamicOffsets
                              ELSE Truncate(bind(i).offsets)]
<1>1. ASSUME NEW i \in TrackedSlots PROVE cell(i) \in SlotState
  <2>0. state.sets[i] \in SlotState
    BY DEF BindState
  <2>1. CASE i \notin bound
    BY <2>0, <2>1
  <2>2. CASE i \in bound
    <3>1. bind(i) \in [set : DescriptorSets, offsets : Seq(Nat)]
      BY <2>2, SlotsTracked
    <3>2. c.layout \in Layouts
      BY BindCall
    <3>3. Truncate(bind(i).offsets) \in Seq(Nat)
      BY <3>1, TruncateType
    <3>4. state.sets[i].dynamicOffsets \in Seq(Nat)
      BY <2>0 DEF SlotState
    <3>5. bind(i).set \in DescriptorSets
      BY <3>1
    <3> HIDE DEF bind, dynamic
    <3> QED
      BY <2>2, <3>2, <3>3, <3>4, <3>5 DEF SlotState
  <2> QED
    BY <2>1, <2>2
<1>2. [i \in TrackedSlots |-> cell(i)] \in [TrackedSlots -> SlotState]
  BY <1>1
<1>3. track_descriptor_set_binds(state, c) = [state EXCEPT !.sets = [i \in TrackedSlots |-> cell(i)]]
  BY DEF track_descriptor_set_binds
<1> QED
  BY <1>2, <1>3 DEF BindState

LEMMA PushedRangeType ==
  ASSUME NEW c \in PushCalls
  PROVE  PushedRange(c) \in PushRange
BY PushCall DEF PushedRange, PushRange

LEMMA RememberType ==
  ASSUME NEW ranges \in Seq(PushRange), NEW r \in PushRange
  PROVE  RememberRange(ranges, r) \in Seq(PushRange)
<1> DEFINE same == {k \in DOMAIN ranges : /\ ranges[k].layout = r.layout
                                         /\ ranges[k].stageFlags = r.stageFlags}
<1>1. Append(ranges, r) \in Seq(PushRange)
  OBVIOUS
<1> DEFINE updated == [k \in DOMAIN ranges |-> IF k \in same THEN r ELSE ranges[k]]
<1>2. updated \in Seq(PushRange)
  <2>1. /\ DOMAIN ranges = 1 .. Len(ranges) /\ Len(ranges) \in Nat
        /\ \A k \in 1 .. Len(ranges) : ranges[k] \in PushRange
    BY RangeIndex
  <2>2. updated \in [1 .. Len(ranges) -> PushRange]
    <3> HIDE DEF same
    <3> QED
      BY <2>1
  <2> HIDE DEF updated
  <2> QED
    BY <2>1, <2>2, SeqDef
<1> QED
  BY <1>1, <1>2 DEF RememberRange

LEMMA TrackPushType ==
  ASSUME NEW state \in BindState, NEW c \in PushCalls
  PROVE  track_push_constants(state, c) \in BindState
<1>1. CASE "compute" \notin c.stageFlags
  BY <1>1 DEF track_push_constants
<1>2. CASE "compute" \in c.stageFlags
  <2>1. RememberRange(state.pushConstantRanges, PushedRange(c)) \in Seq(PushRange)
    BY RememberType, PushedRangeType DEF BindState
  <2>2. c.value \in Values
    BY DEF Values
  <2> DEFINE stored == IF c.offset + c.size <= kMaxTrackedPushConstantBytes
                       THEN [b \in TrackedBytes |->
                               IF b \in Span(c) THEN c.value ELSE state.pushConstantBytes[b]]
                       ELSE state.pushConstantBytes
  <2>3. stored \in [TrackedBytes -> Values \cup {0}]
    BY <2>2 DEF BindState
  <2>4. track_push_constants(state, c)
          = [state EXCEPT !.pushConstantBytes = stored,
                          !.anyPushConstantsPushed = TRUE,
                          !.pushConstantRanges =
                             RememberRange(state.pushConstantRanges, PushedRange(c))]
    BY <1>2 DEF track_push_constants
  <2> HIDE DEF stored
  <2> QED
    BY <2>1, <2>3, <2>4 DEF BindState
<1> QED
  BY <1>1, <1>2

LEMMA AppPushType ==
  ASSUME NEW g \in DriverState, NEW c \in PushCalls
  PROVE  AppPush(g, c) \in DriverState
<1>1. c.layout \in Layouts /\ c.value \in Values
  BY PushCall DEF Values
<1> DEFINE data == [b \in Span(c) |-> c.value]
<1>2. \A b \in Span(c) : data[b] \in Values \cup {0, Injected}
  BY <1>1
<1>3. DriverPush(g, ClassOf[c.layout], Span(c), data) \in DriverState
  <2> HIDE DEF data
  <2> QED
    BY <1>1, <1>2, PushType
<1> QED
  BY <1>3 DEF AppPush

LEMMA NewTypes == NewState \in BindState /\ Unbound \in DriverState
<1>1. EmptySlot \in SlotState
  BY DEF EmptySlot, SlotState
<1>2. NewState \in BindState
  BY <1>1 DEF NewState, BindState
<1>3. Unbound \in DriverState
  BY DEF Unbound, DriverState
<1> QED
  BY <1>2, <1>3

LEMMA ResetType ==
  ASSUME NEW state \in BindState
  PROVE  reset(state) \in BindState
<1>1. EmptySlot \in SlotState
  BY DEF EmptySlot, SlotState
<1>2. [i \in TrackedSlots |-> EmptySlot] \in [TrackedSlots -> SlotState]
  BY <1>1
<1>3. <<>> \in Seq(PushRange)
  BY EmptyFacts
<1> DEFINE slots == [i \in TrackedSlots |-> EmptySlot]
<1>4. [state EXCEPT !.pipelineBound = FALSE, !.pipeline = None, !.sets = slots,
                    !.anyPushConstantsPushed = FALSE, !.pushConstantRanges = <<>>]
        \in BindState
  <2>1. slots \in [TrackedSlots -> SlotState]
    BY <1>2
  <2> HIDE DEF slots
  <2> QED
    BY <2>1, <1>3 DEF BindState
<1> QED
  BY <1>4 DEF reset

LEMMA ClobberFields ==
  ASSUME NEW g \in DriverState
  PROVE  /\ Clobber(g) \in DriverState
         /\ Clobber(g).pipeline = Injected
         /\ \A i \in SetSlots :
              Clobber(g).sets[i] # None =>
                Clobber(g).sets[i].set = Injected \/ Clobber(g).sets[i] = g.sets[i]
         /\ \A b \in Bytes : Clobber(g).push[b] \in {g.push[b], None, Injected}
<1> DEFINE injected == <<[set |-> Injected, offsets |-> <<>>]>>
           h == DriverBindSets(g, Injected, Injected, 0, injected)
           k == DriverPush(h, Injected, {0}, [b \in {0} |-> Injected])
<1>1. injected \in Seq([set : DescriptorSets \cup {Injected}, offsets : Seq(Nat)])
  OBVIOUS
<1>2. h \in DriverState
  BY <1>1, BindSetsType
<1>3. k \in DriverState
  <2> HIDE DEF h
  <2> QED
    BY <1>2, PushType
<1>4. Clobber(g) = [k EXCEPT !.pipeline = Injected]
  BY DEF Clobber
<1>5. Clobber(g) \in DriverState /\ Clobber(g).pipeline = Injected
      /\ Clobber(g).sets = k.sets /\ Clobber(g).push = k.push
  <2> HIDE DEF k
  <2> QED
    BY <1>3, <1>4 DEF DriverState
<1>6. k.sets = h.sets
  <2> HIDE DEF h
  <2> QED
    BY <1>2, PushFields
<1>0. Len(injected) = 1 /\ injected[1].set = Injected
  OBVIOUS
<1>7. ASSUME NEW i \in SetSlots, h.sets[i] # None
      PROVE  h.sets[i].set = Injected \/ h.sets[i] = g.sets[i]
  <2> HIDE DEF injected
  <2>1. h.sets[i] = IF i \in 0 .. 0 + Len(injected) - 1
                    THEN [set |-> injected[i - 0 + 1].set, layout |-> Injected,
                          offsets |-> injected[i - 0 + 1].offsets]
                    ELSE IF g.sets[i] # None /\ ClassAt(g.sets[i]) = Injected
                         THEN g.sets[i] ELSE None
    BY BindSetsFields
  <2>2. CASE i \in 0 .. 0 + Len(injected) - 1
    <3>1. i = 0
      BY <1>0, <2>2
    <3>2. injected[i - 0 + 1].set = Injected
      BY <1>0, <3>1
    <3> QED
      BY <2>1, <2>2, <3>2
  <2>3. CASE i \notin 0 .. 0 + Len(injected) - 1
    BY <1>7, <2>1, <2>3
  <2> QED
    BY <2>2, <2>3
<1>8. \A b \in Bytes : k.push[b] \in {g.push[b], None, Injected}
  <2>1. h.push = g.push
    BY BindSetsFields
  <2> HIDE DEF h
  <2>2. \A b \in Bytes :
          k.push[b] = IF b \in {0} THEN [c \in {0} |-> Injected][b]
                      ELSE IF h.pushClass = Injected THEN h.push[b] ELSE None
    BY <1>2, PushFields
  <2> QED
    BY <2>1, <2>2
<1> QED
  BY <1>5, <1>6, <1>7, <1>8

LEMMA TrackBindsFields ==
  ASSUME TrackedUse, NEW state \in BindState, NEW c \in BindCalls
  PROVE  /\ track_descriptor_set_binds(state, c).pipelineBound = state.pipelineBound
         /\ track_descriptor_set_binds(state, c).pipeline = state.pipeline
         /\ track_descriptor_set_binds(state, c).pushConstantBytes = state.pushConstantBytes
         /\ track_descriptor_set_binds(state, c).anyPushConstantsPushed
              = state.anyPushConstantsPushed
         /\ track_descriptor_set_binds(state, c).pushConstantRanges = state.pushConstantRanges
         /\ \A i \in TrackedSlots :
              track_descriptor_set_binds(state, c).sets[i] =
                IF i \in c.first .. c.first + Len(c.binds) - 1
                THEN [valid |-> TRUE, set |-> c.binds[i - c.first + 1].set,
                      layout |-> c.layout,
                      dynamicOffsets |-> c.binds[i - c.first + 1].offsets]
                ELSE state.sets[i]
<1> DEFINE bound == {i \in TrackedSlots : i \in c.first .. c.first + Len(c.binds) - 1}
           bind(i) == c.binds[i - c.first + 1]
           dynamic == \E k \in DOMAIN c.binds : c.binds[k].offsets # <<>>
           cell(i) == IF i \notin bound THEN state.sets[i]
                      ELSE [valid |-> TRUE, set |-> bind(i).set, layout |-> c.layout,
                            dynamicOffsets |->
                              IF Len(c.binds) > 1 /\ dynamic
                              THEN state.sets[i].dynamicOffsets
                              ELSE Truncate(bind(i).offsets)]
<1>1. track_descriptor_set_binds(state, c) = [state EXCEPT !.sets = [i \in TrackedSlots |-> cell(i)]]
  BY DEF track_descriptor_set_binds
<1>2. ~ (Len(c.binds) > 1 /\ dynamic)
  BY DEF TrackedUse
<1>3. ASSUME NEW i \in TrackedSlots, i \in c.first .. c.first + Len(c.binds) - 1
      PROVE  Truncate(bind(i).offsets) = bind(i).offsets
  <2>1. i - c.first + 1 \in DOMAIN c.binds
    BY <1>3, SlotsTracked
  <2>2. Len(c.binds[i - c.first + 1].offsets) <= kMaxTrackedDynamicOffsets
    BY <2>1 DEF TrackedUse
  <2> QED
    BY <2>2 DEF Truncate
<1>4. ASSUME NEW i \in TrackedSlots
      PROVE  cell(i) = IF i \in c.first .. c.first + Len(c.binds) - 1
                       THEN [valid |-> TRUE, set |-> bind(i).set, layout |-> c.layout,
                             dynamicOffsets |-> bind(i).offsets]
                       ELSE state.sets[i]
  <2> HIDE DEF bind, dynamic
  <2> QED
    BY <1>2, <1>3
<1> HIDE DEF cell
<1>5. \A i \in TrackedSlots : track_descriptor_set_binds(state, c).sets[i] = cell(i)
  BY <1>1 DEF BindState
<1>6. /\ track_descriptor_set_binds(state, c).pipelineBound = state.pipelineBound
      /\ track_descriptor_set_binds(state, c).pipeline = state.pipeline
      /\ track_descriptor_set_binds(state, c).pushConstantBytes = state.pushConstantBytes
      /\ track_descriptor_set_binds(state, c).anyPushConstantsPushed
           = state.anyPushConstantsPushed
      /\ track_descriptor_set_binds(state, c).pushConstantRanges = state.pushConstantRanges
  BY <1>1 DEF BindState
<1> QED
  BY <1>4, <1>5, <1>6

LEMMA TrackPushFields ==
  ASSUME TrackedUse, NEW state \in BindState, NEW c \in PushCalls, "compute" \in c.stageFlags
  PROVE  /\ track_push_constants(state, c).pipelineBound = state.pipelineBound
         /\ track_push_constants(state, c).pipeline = state.pipeline
         /\ track_push_constants(state, c).sets = state.sets
         /\ track_push_constants(state, c).anyPushConstantsPushed = TRUE
         /\ track_push_constants(state, c).pushConstantRanges
              = RememberRange(state.pushConstantRanges, PushedRange(c))
         /\ \A b \in TrackedBytes :
              track_push_constants(state, c).pushConstantBytes[b]
                = IF b \in Span(c) THEN c.value ELSE state.pushConstantBytes[b]
<1>1. c.offset + c.size <= kMaxTrackedPushConstantBytes
  BY DEF TrackedUse
<1> QED
  BY <1>1 DEF track_push_constants, BindState

\* Under TrackedUse a push either adds its range or finds it there.
LEMMA RememberFacts ==
  ASSUME TrackedUse, NEW ranges \in Seq(PushRange), NEW c \in PushCalls,
         \A k \in DOMAIN ranges : \E d \in PushCalls : PushedRange(d) = ranges[k]
  PROVE  \/ /\ RememberRange(ranges, PushedRange(c)) = ranges
            /\ \E k \in DOMAIN ranges : ranges[k] = PushedRange(c)
         \/ RememberRange(ranges, PushedRange(c)) = Append(ranges, PushedRange(c))
<1> DEFINE r == PushedRange(c)
           same == {k \in DOMAIN ranges : /\ ranges[k].layout = r.layout
                                         /\ ranges[k].stageFlags = r.stageFlags}
<1>1. CASE same = {}
  BY <1>1 DEF RememberRange
<1>2. CASE same # {}
  <2>1. \A k \in same : ranges[k] = r
    <3> SUFFICES ASSUME NEW k \in same PROVE ranges[k] = r
      OBVIOUS
    <3>1. PICK d \in PushCalls : PushedRange(d) = ranges[k]
      OBVIOUS
    <3>2. d.layout = c.layout /\ d.stageFlags = c.stageFlags
      BY <3>1 DEF PushedRange
    <3> QED
      BY <3>1, <3>2 DEF TrackedUse
  <2>2. DOMAIN ranges = 1 .. Len(ranges)
    BY RangeIndex
  <2>3. RememberRange(ranges, r) = [k \in DOMAIN ranges |-> IF k \in same THEN r ELSE ranges[k]]
    BY <1>2 DEF RememberRange
  <2>4. ranges = [k \in DOMAIN ranges |-> ranges[k]]
    BY <2>2
  <2>6. [k \in DOMAIN ranges |-> IF k \in same THEN r ELSE ranges[k]] = ranges
    <3> HIDE DEF r, same
    <3>1. \A k \in DOMAIN ranges : (IF k \in same THEN r ELSE ranges[k]) = ranges[k]
      BY <2>1
    <3> QED
      BY <2>4, <3>1
  <2>7. PICK k \in same : TRUE
    BY <1>2
  <2>8. k \in DOMAIN ranges /\ ranges[k] = r
    BY <2>1
  <2> QED
    BY <2>3, <2>6, <2>8 DEF r
<1> QED
  BY <1>1, <1>2

------------------------------------------------------------------------------
LEMMA SeqOfSubset ==
  ASSUME NEW S, NEW T, S \subseteq T, NEW s \in Seq(S)
  PROVE  s \in Seq(T)
<1>1. /\ Len(s) \in Nat /\ s \in [1 .. Len(s) -> S]
  BY LenProperties
<1>2. s \in [1 .. Len(s) -> T]
  BY <1>1
<1> QED
  BY <1>1, <1>2, SeqDef

LEMMA TypeStep ==
  ASSUME TypeOK, [Next]_vars
  PROVE  TypeOK'
<1> USE DEF TypeOK
<1>1. CASE BeginOrReset
  BY <1>1, ResetType, NewTypes DEF BeginOrReset
<1>2. CASE CmdBindPipeline
  <2>1. PICK p \in Pipelines :
          /\ tracked' = [tracked EXCEPT !.pipelineBound = TRUE, !.pipeline = p]
          /\ gpu' = [gpu EXCEPT !.pipeline = p]
          /\ want' = [want EXCEPT !.pipeline = p]
    BY <1>2 DEF CmdBindPipeline
  <2>2. tracked' \in BindState
    BY <2>1 DEF BindState
  <2>3. gpu' \in DriverState /\ want' \in DriverState
    BY <2>1 DEF DriverState
  <2> QED
    BY <1>2, <2>2, <2>3 DEF CmdBindPipeline
<1>3. CASE CmdBindDescriptorSets
  <2>1. PICK c \in BindCalls :
          /\ tracked' = track_descriptor_set_binds(tracked, c)
          /\ gpu' = DriverBindSets(gpu, c.layout, ClassOf[c.layout], c.first, c.binds)
          /\ want' = DriverBindSets(want, c.layout, ClassOf[c.layout], c.first, c.binds)
    BY <1>3 DEF CmdBindDescriptorSets
  <2>2. c.layout \in Layouts /\ c.binds \in Seq([set : DescriptorSets, offsets : Seq(Nat)])
    BY BindCall
  <2>6. c.first \in Nat
    <3>1. c.first \in SetSlots
      BY BindCall
    <3> QED
      BY <3>1, Limits DEF SetSlots
  <2>3. c.binds \in Seq([set : DescriptorSets \cup {Injected}, offsets : Seq(Nat)])
    <3>1. [set : DescriptorSets, offsets : Seq(Nat)]
            \subseteq [set : DescriptorSets \cup {Injected}, offsets : Seq(Nat)]
      OBVIOUS
    <3> QED
      BY <2>2, <3>1, SeqOfSubset
  <2>4. gpu' \in DriverState /\ want' \in DriverState
    BY <2>1, <2>2, <2>3, <2>6, BindSetsType
  <2>5. tracked' \in BindState
    BY <2>1, TrackBindsType
  <2> QED
    BY <1>3, <2>4, <2>5 DEF CmdBindDescriptorSets
<1>4. CASE CmdPushConstants
  BY <1>4, TrackPushType, AppPushType DEF CmdPushConstants
<1>5. CASE OpenScope
  BY <1>5 DEF OpenScope
<1>6. CASE InjectDispatch
  BY <1>6, ClobberFields DEF InjectDispatch
<1>7. CASE RestorePipeline
  <2>1. gpu' \in DriverState
    BY <1>7 DEF RestorePipeline, DriverState, BindState
  <2> QED
    BY <1>7, <2>1 DEF RestorePipeline
<1>8. CASE RestoreSet
  <2> DEFINE slot == m_snapshot.sets[next]
             bind == <<[set |-> slot.set, offsets |-> slot.dynamicOffsets]>>
  <2>1. next \in TrackedSlots /\ slot \in SlotState
    BY <1>8, Limits DEF RestoreSet, TrackedSlots, BindState
  <2>2. gpu' = IF slot.valid
               THEN DriverBindSets(gpu, slot.layout, ClassOf[slot.layout], next, bind)
               ELSE gpu
    BY <1>8 DEF RestoreSet
  <2>3. CASE ~ slot.valid
    BY <1>8, <2>2, <2>3 DEF RestoreSet
  <2>4. CASE slot.valid
    <3>1. /\ slot.set \in DescriptorSets /\ slot.layout \in Layouts
          /\ slot.dynamicOffsets \in Seq(Nat)
      BY <2>1, <2>4 DEF SlotState
    <3> HIDE DEF slot
    <3>2. bind \in Seq([set : DescriptorSets \cup {Injected}, offsets : Seq(Nat)])
      BY <3>1
    <3> HIDE DEF bind
    <3>3. gpu' \in DriverState
      BY <2>2, <2>4, <3>1, <3>2, BindSetsType
    <3> QED
      BY <1>8, <3>3 DEF RestoreSet
  <2> QED
    BY <2>3, <2>4
<1>9. CASE SetsRestored
  BY <1>9 DEF SetsRestored
<1>10. CASE RestoreRange
  <2> DEFINE r == m_snapshot.pushConstantRanges[next]
  <2>1. m_snapshot.pushConstantRanges \in Seq(PushRange)
        /\ m_snapshot.pushConstantBytes \in [TrackedBytes -> Values \cup {0}]
    BY DEF BindState
  <2>2. r \in PushRange
    BY <1>10, <2>1, RangeIndex DEF RestoreRange
  <2>3. CASE r.offset + r.size > kMaxTrackedPushConstantBytes
    BY <1>10, <2>3 DEF RestoreRange
  <2>4. CASE ~ (r.offset + r.size > kMaxTrackedPushConstantBytes)
    <3>1. r.layout \in Layouts /\ Span(r) \subseteq TrackedBytes
      BY <2>2, <2>4, Limits DEF PushRange, Span, TrackedBytes
    <3>2. gpu' = DriverPush(gpu, ClassOf[r.layout], Span(r), m_snapshot.pushConstantBytes)
      BY <1>10, <2>4 DEF RestoreRange
    <3> HIDE DEF r
    <3>3. gpu' \in DriverState
      BY <2>1, <3>1, <3>2, PushType
    <3> QED
      BY <1>10, <3>3 DEF RestoreRange
  <2> QED
    BY <2>3, <2>4
<1>11. CASE CloseScope
  BY <1>11 DEF CloseScope
<1>12. CASE UNCHANGED vars
  BY <1>12 DEF vars
<1> QED
  BY <1>1, <1>2, <1>3, <1>4, <1>5, <1>6, <1>7, <1>8, <1>9, <1>10, <1>11, <1>12 DEF Next

LEMMA SnapStep ==
  ASSUME SnapInv, [Next]_vars
  PROVE  SnapInv'
BY DEF SnapInv, Next, vars, BeginOrReset, CmdBindPipeline, CmdBindDescriptorSets, CmdPushConstants, OpenScope, InjectDispatch, RestorePipeline, RestoreSet, SetsRestored, RestoreRange, CloseScope

\* What each call of the application does to the three facets.
LEMMA AppPushFields ==
  ASSUME NEW g \in DriverState, NEW c \in PushCalls
  PROVE  /\ AppPush(g, c).pipeline = g.pipeline
         /\ AppPush(g, c).sets = g.sets
         /\ "compute" \in c.stageFlags =>
              /\ AppPush(g, c).pushClass = ClassOf[c.layout]
              /\ \A b \in Bytes :
                   AppPush(g, c).push[b] =
                     IF b \in Span(c) THEN c.value
                     ELSE IF g.pushClass = ClassOf[c.layout] THEN g.push[b] ELSE None
<1> DEFINE data == [b \in Span(c) |-> c.value]
<1>1. CASE "compute" \in c.stageFlags
  <2>1. AppPush(g, c) = DriverPush(g, ClassOf[c.layout], Span(c), data)
    BY <1>1 DEF AppPush
  <2>2. \A b \in Span(c) : data[b] = c.value
    OBVIOUS
  <2> HIDE DEF data
  <2> QED
    BY <2>1, <2>2, PushFields
<1>2. CASE "compute" \notin c.stageFlags
  BY <1>2 DEF AppPush
<1> QED
  BY <1>1, <1>2

LEMMA PipelineStep ==
  ASSUME TypeOK, TrackedUse, SnapInv, PipelineInv, [Next]_vars
  PROVE  PipelineInv'
<1> USE DEF TypeOK
<1>1. CASE BeginOrReset
  BY <1>1 DEF BeginOrReset, PipelineInv, reset, Unbound, BindState
<1>2. CASE CmdBindPipeline
  <2>1. PICK p \in Pipelines :
          /\ tracked' = [tracked EXCEPT !.pipelineBound = TRUE, !.pipeline = p]
          /\ gpu' = [gpu EXCEPT !.pipeline = p]
          /\ want' = [want EXCEPT !.pipeline = p]
    BY <1>2 DEF CmdBindPipeline
  <2>2. /\ tracked'.pipelineBound = TRUE /\ tracked'.pipeline = p
        /\ gpu'.pipeline = p /\ want'.pipeline = p
    BY <2>1 DEF BindState, DriverState
  <2> QED
    BY <2>2, Names DEF PipelineInv
<1>3. CASE CmdBindDescriptorSets
  <2>1. PICK c \in BindCalls :
          /\ tracked' = track_descriptor_set_binds(tracked, c)
          /\ gpu' = DriverBindSets(gpu, c.layout, ClassOf[c.layout], c.first, c.binds)
          /\ want' = DriverBindSets(want, c.layout, ClassOf[c.layout], c.first, c.binds)
    BY <1>3 DEF CmdBindDescriptorSets
  <2>2. /\ tracked'.pipelineBound = tracked.pipelineBound
        /\ tracked'.pipeline = tracked.pipeline
    BY <2>1, TrackBindsFields
  <2>3. gpu'.pipeline = gpu.pipeline /\ want'.pipeline = want.pipeline
    BY <2>1, BindSetsFields
  <2> QED
    BY <1>3, <2>2, <2>3 DEF PipelineInv, CmdBindDescriptorSets
<1>4. CASE CmdPushConstants
  <2>1. PICK c \in PushCalls :
          /\ tracked' = track_push_constants(tracked, c)
          /\ gpu' = AppPush(gpu, c)
          /\ want' = AppPush(want, c)
    BY <1>4 DEF CmdPushConstants
  <2>2. /\ tracked'.pipelineBound = tracked.pipelineBound
        /\ tracked'.pipeline = tracked.pipeline
    BY <2>1, TrackPushFields DEF track_push_constants
  <2>3. gpu'.pipeline = gpu.pipeline /\ want'.pipeline = want.pipeline
    BY <2>1, AppPushFields
  <2> QED
    BY <1>4, <2>2, <2>3 DEF PipelineInv, CmdPushConstants
<1>5. CASE OpenScope
  BY <1>5 DEF OpenScope, PipelineInv
<1>6. CASE InjectDispatch
  BY <1>6, ClobberFields DEF InjectDispatch, PipelineInv
<1>7. CASE RestorePipeline
  <2>1. m_snapshot = tracked
    BY <1>7 DEF RestorePipeline, SnapInv
  <2>2. gpu'.pipeline = IF tracked.pipelineBound /\ tracked.pipeline # None
                        THEN tracked.pipeline ELSE gpu.pipeline
    BY <1>7, <2>1 DEF RestorePipeline, DriverState
  <2> QED
    BY <1>7, <2>2, Names DEF RestorePipeline, PipelineInv
<1>8. CASE RestoreSet
  <2>1. gpu'.pipeline = gpu.pipeline
    BY <1>8, BindSetsFields DEF RestoreSet
  <2> QED
    BY <1>8, <2>1 DEF RestoreSet, PipelineInv
<1>9. CASE SetsRestored
  BY <1>9 DEF SetsRestored, PipelineInv
<1>10. CASE RestoreRange
  <2>1. gpu'.pipeline = gpu.pipeline
    BY <1>10, PushFields DEF RestoreRange
  <2> QED
    BY <1>10, <2>1 DEF RestoreRange, PipelineInv
<1>11. CASE CloseScope
  BY <1>11 DEF CloseScope, PipelineInv, SnapInv
<1>12. CASE UNCHANGED vars
  BY <1>12 DEF vars, PipelineInv
<1> QED
  BY <1>1, <1>2, <1>3, <1>4, <1>5, <1>6, <1>7, <1>8, <1>9, <1>10, <1>11, <1>12 DEF Next

\* Whatever the application has bound belongs to the one class of its layouts.
LEMMA WantClass ==
  ASSUME TrackedUse, SetInv, NEW i \in SetSlots, want.sets[i] # None, NEW l \in Layouts
  PROVE  ClassAt(want.sets[i]) = ClassOf[l]
<1>1. want.sets[i] = AsBound(tracked.sets[i]) /\ tracked.sets[i].layout \in Layouts
  BY DEF SetInv
<1>2. want.sets[i].layout \in Layouts
  BY <1>1 DEF AsBound
<1> QED
  BY <1>2, Names DEF ClassAt, TrackedUse

LEMMA BindKeeps ==
  ASSUME TypeOK, TrackedUse, SetInv, pc = "app", NEW c \in BindCalls,
         tracked' = track_descriptor_set_binds(tracked, c),
         gpu' = DriverBindSets(gpu, c.layout, ClassOf[c.layout], c.first, c.binds),
         want' = DriverBindSets(want, c.layout, ClassOf[c.layout], c.first, c.binds),
         pc' = pc, next' = next
  PROVE  SetInv'
<1> USE DEF TypeOK
<1> DEFINE S == c.first .. c.first + Len(c.binds) - 1
           rec(i) == [set |-> c.binds[i - c.first + 1].set, layout |-> c.layout,
                      offsets |-> c.binds[i - c.first + 1].offsets]
<1>0. c.layout \in Layouts
  BY BindCall
<1>a. \A i \in SetSlots :
        gpu'.sets[i] =
          IF i \in S THEN rec(i)
          ELSE IF gpu.sets[i] # None /\ ClassAt(gpu.sets[i]) = ClassOf[c.layout]
               THEN gpu.sets[i] ELSE None
  BY BindSetsFields
<1>b. \A i \in SetSlots :
        want'.sets[i] =
          IF i \in S THEN rec(i)
          ELSE IF want.sets[i] # None /\ ClassAt(want.sets[i]) = ClassOf[c.layout]
               THEN want.sets[i] ELSE None
  BY BindSetsFields
<1>c. \A i \in TrackedSlots :
        tracked'.sets[i] =
          IF i \in S
          THEN [valid |-> TRUE, set |-> c.binds[i - c.first + 1].set, layout |-> c.layout,
                dynamicOffsets |-> c.binds[i - c.first + 1].offsets]
          ELSE tracked.sets[i]
  <2>1. tracked \in BindState
    OBVIOUS
  <2> QED
    BY <2>1, TrackBindsFields
<1>d. \A i \in SetSlots : want.sets[i] # None => ClassAt(want.sets[i]) = ClassOf[c.layout]
  BY <1>0, WantClass
<1>6. \A i \in S : i \in SetSlots /\ i \in TrackedSlots
  <2> SUFFICES ASSUME NEW i \in S PROVE i \in SetSlots /\ i \in TrackedSlots
    OBVIOUS
  <2>1. i \in SetSlots
    BY SlotsTracked
  <2>2. c.first + Len(c.binds) <= kMaxTrackedDescriptorSets /\ c.first \in SetSlots
        /\ c.binds \in Seq([set : DescriptorSets, offsets : Seq(Nat)])
    BY BindCall DEF TrackedUse
  <2>3. Len(c.binds) \in Nat
    BY <2>2, LenProperties
  <2> QED
    BY <2>1, <2>2, <2>3, Limits DEF TrackedSlots, SetSlots
<1> HIDE DEF S
<1>5. \A i \in TrackedSlots :
        /\ i \in S => /\ tracked'.sets[i].valid
                      /\ tracked'.sets[i].layout = c.layout
                      /\ AsBound(tracked'.sets[i]) = rec(i)
        /\ i \notin S => tracked'.sets[i] = tracked.sets[i]
  <2> SUFFICES ASSUME NEW i \in TrackedSlots
               PROVE  /\ i \in S => /\ tracked'.sets[i].valid
                                    /\ tracked'.sets[i].layout = c.layout
                                    /\ AsBound(tracked'.sets[i]) = rec(i)
                      /\ i \notin S => tracked'.sets[i] = tracked.sets[i]
    OBVIOUS
  <2>1. CASE i \in S
    <3>1. PICK v : v = tracked'.sets[i]
      OBVIOUS
    <3>2. v = [valid |-> TRUE, set |-> c.binds[i - c.first + 1].set, layout |-> c.layout,
               dynamicOffsets |-> c.binds[i - c.first + 1].offsets]
      BY <1>c, <2>1, <3>1
    <3>3. v.valid /\ v.layout = c.layout /\ AsBound(v) = rec(i)
      BY ONLY <3>2 DEF AsBound
    <3> QED
      BY <2>1, <3>1, <3>3
  <2>2. CASE i \notin S
    BY <1>c, <2>2
  <2> QED
    BY <2>1, <2>2
<1> HIDE DEF rec
<1>1. \A i \in SetSlots : i \in S => want'.sets[i] = rec(i) /\ gpu'.sets[i] = rec(i)
  BY <1>a, <1>b
<1>2. \A i \in SetSlots : i \notin S => want'.sets[i] = want.sets[i]
  BY <1>b, <1>d
<1>3. \A i \in SetSlots : i \notin S /\ want.sets[i] # None => gpu'.sets[i] = want.sets[i]
  BY <1>a, <1>d DEF SetInv, SetsDone
<1>4. \A i \in SetSlots : i \notin S => gpu'.sets[i] = gpu.sets[i] \/ gpu'.sets[i] = None
  BY <1>a
<1>7. ASSUME NEW i \in TrackedSlots, tracked'.sets[i].valid
      PROVE  /\ i \in SetSlots
             /\ want'.sets[i] = AsBound(tracked'.sets[i])
             /\ tracked'.sets[i].layout \in Layouts
  BY <1>0, <1>1, <1>2, <1>5, <1>6, <1>7 DEF SetInv
<1>8. ASSUME NEW i \in SetSlots, want'.sets[i] # None
      PROVE  /\ i \in TrackedSlots /\ tracked'.sets[i].valid
             /\ gpu'.sets[i] = want'.sets[i]
  BY <1>1, <1>2, <1>3, <1>5, <1>6, <1>8 DEF SetInv
<1>9. ASSUME NEW i \in SetSlots, want'.sets[i] = None, gpu'.sets[i] # None
      PROVE  gpu'.sets[i].set = Injected
  BY <1>1, <1>2, <1>4, <1>9 DEF SetInv
<1> QED
  BY <1>7, <1>8, <1>9 DEF SetInv, SetsDone

\* A slot put back disturbs none of those before it.
LEMMA RestoreKeeps ==
  ASSUME TypeOK, TrackedUse, SnapInv, SetInv, RestoreSet
  PROVE  SetInv'
<1> USE DEF TypeOK
<1>0. /\ m_snapshot = tracked /\ pc' = "sets" /\ pc = "sets" /\ next' = next + 1
      /\ tracked' = tracked /\ want' = want /\ next \in Nat
  BY DEF RestoreSet, SnapInv
<1>1. next \in TrackedSlots
  BY Limits DEF RestoreSet, TrackedSlots
<1> DEFINE slot == tracked.sets[next]
           bind == <<[set |-> slot.set, offsets |-> slot.dynamicOffsets]>>
<1>2. gpu' = IF slot.valid
             THEN DriverBindSets(gpu, slot.layout, ClassOf[slot.layout], next, bind)
             ELSE gpu
  BY <1>0 DEF RestoreSet
<1>3. CASE ~ slot.valid
  <2>1. gpu' = gpu
    BY <1>2, <1>3
  <2>2. next \in SetSlots => want.sets[next] = None
    BY <1>3 DEF SetInv
  <2>3. \A i \in SetSlots : i < next + 1 => i = next \/ i < next
    BY <1>0 DEF SetSlots
  <2> HIDE DEF slot
  <2> QED
    BY <1>0, <2>1, <2>2, <2>3 DEF SetInv, SetsDone
<1>4. CASE slot.valid
  <2>1. /\ next \in SetSlots /\ slot.layout \in Layouts
        /\ want.sets[next] = AsBound(slot)
    BY <1>1, <1>4 DEF SetInv
  <2>2. Len(bind) = 1 /\ bind[1] = [set |-> slot.set, offsets |-> slot.dynamicOffsets]
    OBVIOUS
  <2> HIDE DEF bind
  <2>3. gpu' = DriverBindSets(gpu, slot.layout, ClassOf[slot.layout], next, bind)
    BY <1>2, <1>4
  <2> HIDE DEF slot
  <2>4. \A i \in SetSlots :
          gpu'.sets[i] = IF i \in next .. next + Len(bind) - 1
                  THEN [set |-> bind[i - next + 1].set, layout |-> slot.layout,
                        offsets |-> bind[i - next + 1].offsets]
                  ELSE IF gpu.sets[i] # None /\ ClassAt(gpu.sets[i]) = ClassOf[slot.layout]
                       THEN gpu.sets[i] ELSE None
    BY <2>3, BindSetsFields
  <2>5. gpu'.sets[next] = want.sets[next]
    <3>1. next \in next .. next + Len(bind) - 1 /\ bind[next - next + 1] = bind[1]
      BY <1>0, <2>2
    <3> QED
      BY <2>1, <2>2, <2>4, <3>1 DEF AsBound
  <2>6. \A i \in SetSlots : i # next => i \notin next .. next + Len(bind) - 1
    BY <1>0, <2>2 DEF SetSlots
  <2>7. \A i \in SetSlots :
          i < next /\ want.sets[i] # None => gpu'.sets[i] = want.sets[i]
    <3> SUFFICES ASSUME NEW i \in SetSlots, i < next, want.sets[i] # None
                 PROVE  gpu'.sets[i] = want.sets[i]
      OBVIOUS
    <3>1. gpu.sets[i] = want.sets[i]
      BY <1>0 DEF SetInv, SetsDone
    <3>2. ClassAt(want.sets[i]) = ClassOf[slot.layout]
      BY <2>1, WantClass
    <3>3. i # next
      BY <1>0 DEF SetSlots
    <3> QED
      BY <2>4, <2>6, <3>1, <3>2, <3>3
  <2>8. \A i \in SetSlots : i < next + 1 => i = next \/ i < next
    BY <1>0 DEF SetSlots
  <2>9. \A i \in SetSlots :
          i = next \/ gpu'.sets[i] = gpu.sets[i] \/ gpu'.sets[i] = None
    BY <2>4, <2>6
  <2>10. \A i \in SetSlots :
           want.sets[i] = None /\ gpu'.sets[i] # None => gpu'.sets[i].set = Injected
    BY <2>5, <2>9 DEF SetInv
  <2> QED
    BY <1>0, <2>5, <2>7, <2>8, <2>10 DEF SetInv, SetsDone
<1> QED
  BY <1>3, <1>4

LEMMA SetStep ==
  ASSUME TypeOK, TrackedUse, SnapInv, SetInv, [Next]_vars
  PROVE  SetInv'
<1> USE DEF TypeOK
<1>1. CASE BeginOrReset
  <2>1. /\ \A i \in TrackedSlots : ~ tracked'.sets[i].valid
        /\ \A i \in SetSlots : want'.sets[i] = None /\ gpu'.sets[i] = None
    BY <1>1 DEF BeginOrReset, reset, Unbound, BindState, EmptySlot
  <2> QED
    BY <2>1 DEF SetInv, SetsDone
<1>2. CASE CmdBindPipeline
  <2>1. /\ tracked'.sets = tracked.sets /\ want'.sets = want.sets /\ gpu'.sets = gpu.sets
    BY <1>2 DEF CmdBindPipeline, BindState, DriverState
  <2> QED
    BY <1>2, <2>1 DEF CmdBindPipeline, SetInv, SetsDone
<1>3. CASE CmdBindDescriptorSets
  BY <1>3, BindKeeps DEF CmdBindDescriptorSets
<1>4. CASE CmdPushConstants
  <2>1. PICK c \in PushCalls :
          /\ tracked' = track_push_constants(tracked, c)
          /\ gpu' = AppPush(gpu, c)
          /\ want' = AppPush(want, c)
    BY <1>4 DEF CmdPushConstants
  <2>2. tracked'.sets = tracked.sets
    BY <2>1, TrackPushFields DEF track_push_constants
  <2>3. gpu'.sets = gpu.sets /\ want'.sets = want.sets
    BY <2>1, AppPushFields
  <2> QED
    BY <1>4, <2>2, <2>3 DEF SetInv, SetsDone, CmdPushConstants
<1>5. CASE OpenScope
  BY <1>5 DEF OpenScope, SetInv, SetsDone
<1>6. CASE InjectDispatch
  <2>1. \A i \in SetSlots :
          gpu'.sets[i] # None => gpu'.sets[i].set = Injected \/ gpu'.sets[i] = gpu.sets[i]
    BY <1>6, ClobberFields DEF InjectDispatch
  <2> QED
    BY <1>6, <2>1 DEF InjectDispatch, SetInv, SetsDone
<1>7. CASE RestorePipeline
  <2>1. gpu'.sets = gpu.sets
    BY <1>7 DEF RestorePipeline, DriverState
  <2>2. \A i \in SetSlots : ~ (i < next')
    BY <1>7 DEF RestorePipeline, SetSlots
  <2> QED
    BY <1>7, <2>1, <2>2 DEF RestorePipeline, SetInv, SetsDone
<1>8. CASE RestoreSet
  BY <1>8, RestoreKeeps
<1>9. CASE SetsRestored
  <2>1. \A i \in SetSlots : want.sets[i] # None => i < next
    <3>1. \A i \in SetSlots : want.sets[i] # None => i \in TrackedSlots
      BY DEF SetInv
    <3> QED
      BY <1>9, <3>1, Limits DEF SetsRestored, TrackedSlots
  <2> QED
    BY <1>9, <2>1 DEF SetsRestored, SetInv, SetsDone
<1>10. CASE RestoreRange
  <2>1. gpu'.sets = gpu.sets
    BY <1>10, PushFields DEF RestoreRange
  <2> QED
    BY <1>10, <2>1 DEF RestoreRange, SetInv, SetsDone
<1>11. CASE CloseScope
  BY <1>11 DEF CloseScope, SetInv, SetsDone, SnapInv
<1>12. CASE UNCHANGED vars
  BY <1>12 DEF vars, SetInv, SetsDone
<1> QED
  BY <1>1, <1>2, <1>3, <1>4, <1>5, <1>6, <1>7, <1>8, <1>9, <1>10, <1>11, <1>12 DEF Next

LEMMA SpanFacts ==
  ASSUME TrackedUse, NEW c \in PushCalls
  PROVE  /\ Span(PushedRange(c)) = Span(c)
         /\ Span(c) \subseteq Bytes
         /\ Span(c) \subseteq TrackedBytes
         /\ ~ (PushedRange(c).offset + PushedRange(c).size > kMaxTrackedPushConstantBytes)
         /\ PushedRange(c).layout \in Layouts
<1>1. /\ c.offset \in Nat /\ c.size \in Nat /\ c.offset + c.size <= NumBytes
      /\ c.layout \in Layouts
  BY PushCall
<1>2. c.offset + c.size <= kMaxTrackedPushConstantBytes
  BY DEF TrackedUse
<1>3. PushedRange(c).offset = c.offset /\ PushedRange(c).size = c.size
      /\ PushedRange(c).layout = c.layout
  BY DEF PushedRange
<1> QED
  BY <1>1, <1>2, <1>3, Limits DEF Span, Bytes, TrackedBytes

\* A push of the application's: the driver keeps every other byte it has pushed.
LEMMA PushKeeps ==
  ASSUME TypeOK, TrackedUse, PushInv, pc = "app", NEW c \in PushCalls,
         "compute" \in c.stageFlags,
         tracked' = track_push_constants(tracked, c),
         gpu' = AppPush(gpu, c), want' = AppPush(want, c), pc' = pc, next' = next
  PROVE  PushInv'
<1> USE DEF TypeOK
<1> DEFINE ranges == tracked.pushConstantRanges
           ranges1 == tracked'.pushConstantRanges
           C == ClassOf[c.layout]
<1>0. /\ c.layout \in Layouts /\ c.value # None
      /\ ranges \in Seq(PushRange) /\ PushedRange(c) \in PushRange
  <2>1. c.layout \in Layouts /\ c.value \in Values
    BY PushCall DEF Values
  <2> QED
    BY <2>1, Names, PushedRangeType DEF BindState
<1>1. /\ tracked'.anyPushConstantsPushed = TRUE
      /\ ranges1 = RememberRange(ranges, PushedRange(c))
      /\ \A b \in TrackedBytes :
           tracked'.pushConstantBytes[b]
             = IF b \in Span(c) THEN c.value ELSE tracked.pushConstantBytes[b]
  <2>1. tracked \in BindState
    OBVIOUS
  <2> QED
    BY <2>1, TrackPushFields
<1>2. /\ gpu'.pushClass = C /\ want'.pushClass = C
      /\ \A b \in Bytes :
           /\ gpu'.push[b] = IF b \in Span(c) THEN c.value
                             ELSE IF gpu.pushClass = C THEN gpu.push[b] ELSE None
           /\ want'.push[b] = IF b \in Span(c) THEN c.value
                              ELSE IF want.pushClass = C THEN want.push[b] ELSE None
  BY AppPushFields
<1>3. \A k \in DOMAIN ranges :
        /\ want.pushClass = C /\ gpu.pushClass = C
        /\ Span(ranges[k]) \subseteq Bytes /\ Span(ranges[k]) \subseteq TrackedBytes
        /\ \A b \in Span(ranges[k]) : want.push[b] = tracked.pushConstantBytes[b]
        /\ \A b \in Span(ranges[k]) : gpu.push[b] = want.push[b]
  <2> SUFFICES ASSUME NEW k \in DOMAIN ranges
               PROVE  /\ want.pushClass = C /\ gpu.pushClass = C
                      /\ Span(ranges[k]) \subseteq Bytes
                      /\ Span(ranges[k]) \subseteq TrackedBytes
                      /\ \A b \in Span(ranges[k]) : want.push[b] = tracked.pushConstantBytes[b]
                      /\ \A b \in Span(ranges[k]) : gpu.push[b] = want.push[b]
    OBVIOUS
  <2>1. PICK d \in PushCalls : PushedRange(d) = ranges[k]
    BY DEF PushInv
  <2>2. Span(ranges[k]) \subseteq Bytes /\ Span(ranges[k]) \subseteq TrackedBytes
    BY <2>1, SpanFacts
  <2>3. PICK l \in Layouts : want.pushClass = ClassOf[l]
    BY DEF PushInv
  <2>4. want.pushClass = C
    BY <1>0, <2>3 DEF TrackedUse
  <2>5. gpu.pushClass = C /\ \A b \in Span(ranges[k]) : gpu.push[b] = want.push[b]
    BY <2>4 DEF PushInv, RangesDone
  <2>6. \A b \in Span(ranges[k]) : want.push[b] = tracked.pushConstantBytes[b]
    BY DEF PushInv
  <2> QED
    BY <2>2, <2>4, <2>5, <2>6
<1>4. \A b \in Bytes : want'.push[b] = IF b \in Span(c) THEN c.value ELSE want.push[b]
  <2>1. \A b \in Bytes : want.push[b] # None => want.pushClass = C
    <3>1. \A b \in Bytes : want.push[b] # None => \E k \in DOMAIN ranges : TRUE
      BY DEF PushInv
    <3> QED
      BY <1>3, <3>1
  <2> QED
    BY <1>2, <2>1
<1>5. \A k \in DOMAIN ranges :
        /\ \A b \in Span(ranges[k]) : want'.push[b] = tracked'.pushConstantBytes[b]
        /\ \A b \in Span(ranges[k]) : gpu'.push[b] = want'.push[b]
  BY <1>1, <1>2, <1>3
<1>6. /\ Span(PushedRange(c)) = Span(c)
      /\ Span(c) \subseteq Bytes /\ Span(c) \subseteq TrackedBytes
  BY SpanFacts
<1>7. \A b \in Span(c) : /\ want'.push[b] = tracked'.pushConstantBytes[b]
                         /\ gpu'.push[b] = want'.push[b]
  BY <1>1, <1>2, <1>6
<1>8. /\ \A k \in DOMAIN ranges1 : ranges1[k] = PushedRange(c)
                                 \/ (k \in DOMAIN ranges /\ ranges1[k] = ranges[k])
      /\ \A k \in DOMAIN ranges : k \in DOMAIN ranges1 /\ ranges1[k] = ranges[k]
      /\ \E k \in DOMAIN ranges1 : ranges1[k] = PushedRange(c)
  <2>1. \A k \in DOMAIN ranges : \E d \in PushCalls : PushedRange(d) = ranges[k]
    BY DEF PushInv
  <2> HIDE DEF ranges
  <2>2. CASE ranges1 = ranges /\ \E k \in DOMAIN ranges : ranges[k] = PushedRange(c)
    BY <2>2
  <2>3. CASE ranges1 = Append(ranges, PushedRange(c))
    <3> HIDE DEF ranges1
    <3>1. /\ Len(ranges) \in Nat /\ DOMAIN ranges = 1 .. Len(ranges)
          /\ DOMAIN ranges1 = 1 .. Len(ranges) + 1
          /\ ranges1[Len(ranges) + 1] = PushedRange(c)
          /\ \A k \in 1 .. Len(ranges) : ranges1[k] = ranges[k]
      BY <1>0, <2>3, AppendProperties, LenProperties
    <3> QED
      BY <3>1
  <2> QED
    BY <1>0, <1>1, <2>1, <2>2, <2>3, RememberFacts
<1>9. \A k \in DOMAIN ranges1 :
        /\ \E d \in PushCalls : "compute" \in d.stageFlags /\ PushedRange(d) = ranges1[k]
        /\ \A b \in Span(ranges1[k]) : want'.push[b] = tracked'.pushConstantBytes[b]
        /\ \A b \in Span(ranges1[k]) : gpu'.push[b] = want'.push[b]
  <2> SUFFICES ASSUME NEW k \in DOMAIN ranges1
               PROVE  /\ \E d \in PushCalls : "compute" \in d.stageFlags
                                              /\ PushedRange(d) = ranges1[k]
                      /\ \A b \in Span(ranges1[k]) : want'.push[b] = tracked'.pushConstantBytes[b]
                      /\ \A b \in Span(ranges1[k]) : gpu'.push[b] = want'.push[b]
    OBVIOUS
  <2>1. CASE ranges1[k] = PushedRange(c)
    BY <1>6, <1>7, <2>1
  <2>2. CASE k \in DOMAIN ranges /\ ranges1[k] = ranges[k]
    BY <1>5, <2>2 DEF PushInv
  <2> HIDE DEF ranges, ranges1
  <2> QED
    BY <1>8, <2>1, <2>2
<1>10. \A b \in Bytes : want'.push[b] # None => \E k \in DOMAIN ranges1 : b \in Span(ranges1[k])
  <2>1. \A b \in Bytes : want.push[b] # None => \E k \in DOMAIN ranges : b \in Span(ranges[k])
    BY DEF PushInv
  <2> HIDE DEF ranges, ranges1
  <2> QED
    BY <1>4, <1>6, <1>8, <2>1
<1>11. \A b \in Bytes : want'.push[b] = None => gpu'.push[b] \in {None, Injected}
  BY <1>0, <1>2, <1>4 DEF PushInv
<1>12. ranges1 # <<>>
  <2> HIDE DEF ranges1
  <2>1. \E k \in DOMAIN ranges1 : TRUE
    BY <1>8
  <2> QED
    BY <2>1
<1> QED
  BY <1>0, <1>1, <1>2, <1>9, <1>10, <1>11, <1>12 DEF PushInv, RangesDone

\* A range put back disturbs none of those before it.
LEMMA RangeKeeps ==
  ASSUME TypeOK, TrackedUse, SnapInv, PushInv, RestoreRange
  PROVE  PushInv'
<1> USE DEF TypeOK
<1> DEFINE ranges == tracked.pushConstantRanges
           r == ranges[next]
<1>0. /\ m_snapshot = tracked /\ pc' = "ranges" /\ pc = "ranges" /\ next' = next + 1
      /\ tracked' = tracked /\ want' = want /\ next \in Nat \ {0} /\ next <= Len(ranges)
  BY DEF RestoreRange, SnapInv
<1>1. ranges \in Seq(PushRange) /\ DOMAIN ranges = 1 .. Len(ranges) /\ next \in DOMAIN ranges
      /\ Len(ranges) \in Nat
  BY <1>0, LenProperties DEF BindState
<1>2. PICK d \in PushCalls : PushedRange(d) = r
  BY <1>1 DEF PushInv
<1>3. /\ Span(r) \subseteq Bytes /\ Span(r) \subseteq TrackedBytes /\ r.layout \in Layouts
      /\ ~ (r.offset + r.size > kMaxTrackedPushConstantBytes)
  BY <1>2, SpanFacts
<1>4. gpu' = DriverPush(gpu, ClassOf[r.layout], Span(r), tracked.pushConstantBytes)
  BY <1>0, <1>3 DEF RestoreRange
<1>5. want.pushClass = ClassOf[r.layout]
  <2>1. PICK l \in Layouts : want.pushClass = ClassOf[l]
    BY <1>1 DEF PushInv
  <2> QED
    BY <1>3, <2>1 DEF TrackedUse
<1>6. \A b \in Span(r) : want.push[b] = tracked.pushConstantBytes[b]
  BY <1>1 DEF PushInv
<1> HIDE DEF r
<1>7. /\ gpu'.pushClass = want.pushClass
      /\ \A b \in Bytes :
           gpu'.push[b] = IF b \in Span(r) THEN tracked.pushConstantBytes[b]
                          ELSE IF gpu.pushClass = ClassOf[r.layout] THEN gpu.push[b] ELSE None
  BY <1>4, <1>5, PushFields
<1>8. \A k \in DOMAIN ranges : k < next + 1 => k = next \/ k < next
  BY <1>0, <1>1
<1>9. ASSUME NEW k \in DOMAIN ranges, k < next + 1
      PROVE  \A b \in Span(ranges[k]) : gpu'.push[b] = want.push[b]
  <2>1. CASE k = next
    BY <1>3, <1>6, <1>7, <2>1 DEF r
  <2>2. CASE k < next
    <3>1. /\ gpu.pushClass = want.pushClass
          /\ \A b \in Span(ranges[k]) : gpu.push[b] = want.push[b]
      BY <1>0, <2>2 DEF PushInv, RangesDone
    <3>2. PICK e \in PushCalls : PushedRange(e) = ranges[k]
      BY DEF PushInv
    <3>3. Span(ranges[k]) \subseteq Bytes
      BY <3>2, SpanFacts
    <3> QED
      BY <1>5, <1>6, <1>7, <3>1, <3>3
  <2> QED
    BY <1>8, <1>9, <2>1, <2>2
<1>10. \A b \in Bytes : want.push[b] = None => gpu'.push[b] \in {None, Injected}
  BY <1>6, <1>7 DEF PushInv
<1> QED
  BY <1>0, <1>7, <1>9, <1>10 DEF PushInv, RangesDone

LEMMA PushStep ==
  ASSUME TypeOK, TrackedUse, SnapInv, PushInv, [Next]_vars
  PROVE  PushInv'
<1> USE DEF TypeOK
<1>0. DOMAIN tracked.pushConstantRanges \subseteq Nat \ {0}
  <2>1. tracked.pushConstantRanges \in Seq(PushRange)
    BY DEF BindState
  <2> QED
    BY <2>1, LenProperties
<1>1. CASE BeginOrReset
  <2>1. /\ tracked'.pushConstantRanges = <<>> /\ tracked'.anyPushConstantsPushed = FALSE
        /\ \A b \in Bytes : want'.push[b] = None /\ gpu'.push[b] = None
    BY <1>1 DEF BeginOrReset, reset, Unbound, BindState
  <2>2. DOMAIN tracked'.pushConstantRanges = {}
    BY <2>1
  <2> QED
    BY <2>1, <2>2 DEF PushInv, RangesDone
<1>2. CASE CmdBindPipeline
  <2>1. /\ tracked'.pushConstantRanges = tracked.pushConstantRanges
        /\ tracked'.anyPushConstantsPushed = tracked.anyPushConstantsPushed
        /\ tracked'.pushConstantBytes = tracked.pushConstantBytes
        /\ want'.push = want.push /\ want'.pushClass = want.pushClass
        /\ gpu'.push = gpu.push /\ gpu'.pushClass = gpu.pushClass
    BY <1>2 DEF CmdBindPipeline, BindState, DriverState
  <2> QED
    BY <1>2, <2>1 DEF CmdBindPipeline, PushInv, RangesDone
<1>3. CASE CmdBindDescriptorSets
  <2>1. PICK c \in BindCalls :
          /\ tracked' = track_descriptor_set_binds(tracked, c)
          /\ gpu' = DriverBindSets(gpu, c.layout, ClassOf[c.layout], c.first, c.binds)
          /\ want' = DriverBindSets(want, c.layout, ClassOf[c.layout], c.first, c.binds)
    BY <1>3 DEF CmdBindDescriptorSets
  <2>2. /\ tracked'.pushConstantRanges = tracked.pushConstantRanges
        /\ tracked'.anyPushConstantsPushed = tracked.anyPushConstantsPushed
        /\ tracked'.pushConstantBytes = tracked.pushConstantBytes
    BY <2>1, TrackBindsFields
  <2>3. /\ want'.push = want.push /\ want'.pushClass = want.pushClass
        /\ gpu'.push = gpu.push /\ gpu'.pushClass = gpu.pushClass
    BY <2>1, BindSetsFields
  <2> QED
    BY <1>3, <2>2, <2>3 DEF CmdBindDescriptorSets, PushInv, RangesDone
<1>4. CASE CmdPushConstants
  <2>1. PICK c \in PushCalls :
          /\ tracked' = track_push_constants(tracked, c)
          /\ gpu' = AppPush(gpu, c)
          /\ want' = AppPush(want, c)
    BY <1>4 DEF CmdPushConstants
  <2>2. CASE "compute" \in c.stageFlags
    BY <1>4, <2>1, <2>2, PushKeeps DEF CmdPushConstants
  <2>3. CASE "compute" \notin c.stageFlags
    <3>1. tracked' = tracked /\ gpu' = gpu /\ want' = want
      BY <2>1, <2>3 DEF track_push_constants, AppPush
    <3> QED
      BY <1>4, <3>1 DEF CmdPushConstants, PushInv, RangesDone
  <2> QED
    BY <2>2, <2>3
<1>5. CASE OpenScope
  BY <1>5 DEF OpenScope, PushInv, RangesDone
<1>6. CASE InjectDispatch
  <2>1. \A b \in Bytes : gpu'.push[b] \in {gpu.push[b], None, Injected}
    BY <1>6, ClobberFields DEF InjectDispatch
  <2> QED
    BY <1>6, <2>1 DEF InjectDispatch, PushInv, RangesDone
<1>7. CASE RestorePipeline
  <2>1. gpu'.push = gpu.push /\ gpu'.pushClass = gpu.pushClass
    BY <1>7 DEF RestorePipeline, DriverState
  <2> QED
    BY <1>7, <2>1 DEF RestorePipeline, PushInv, RangesDone
<1>8. CASE RestoreSet
  <2>1. gpu'.push = gpu.push /\ gpu'.pushClass = gpu.pushClass
    BY <1>8, BindSetsFields DEF RestoreSet
  <2> QED
    BY <1>8, <2>1 DEF RestoreSet, PushInv, RangesDone
<1>9. CASE SetsRestored
  <2>1. \A k \in DOMAIN tracked.pushConstantRanges : ~ (k < 1)
    BY <1>0
  <2> QED
    BY <1>9, <2>1 DEF SetsRestored, PushInv, RangesDone
<1>10. CASE RestoreRange
  BY <1>10, RangeKeeps
<1>11. CASE CloseScope
  <2>1. m_snapshot = tracked
    BY <1>11 DEF CloseScope, SnapInv
  <2>2. \A k \in DOMAIN tracked.pushConstantRanges : k < next
    <3>1. /\ tracked.pushConstantRanges \in Seq(PushRange) /\ next \in Nat
      BY <1>11 DEF BindState, CloseScope
    <3>2. CASE ~ tracked.anyPushConstantsPushed
      <4>1. tracked.pushConstantRanges = <<>>
        BY <3>2 DEF PushInv
      <4> QED
        BY <4>1
    <3>3. CASE next > Len(tracked.pushConstantRanges)
      BY <3>1, <3>3, LenProperties
    <3> QED
      BY <1>11, <2>1, <3>2, <3>3 DEF CloseScope
  <2> QED
    BY <1>11, <2>1, <2>2 DEF CloseScope, PushInv, RangesDone
<1>12. CASE UNCHANGED vars
  BY <1>12 DEF vars, PushInv, RangesDone
<1> QED
  BY <1>1, <1>2, <1>3, <1>4, <1>5, <1>6, <1>7, <1>8, <1>9, <1>10, <1>11, <1>12 DEF Next

LEMMA InitInv == Init => IInv
<1> SUFFICES ASSUME Init PROVE IInv
  OBVIOUS
<1>1. TypeOK
  BY NewTypes DEF Init, TypeOK
<1>2. SnapInv /\ PipelineInv
  BY DEF Init, SnapInv, PipelineInv, NewState, Unbound
<1>3. SetInv
  BY DEF Init, SetInv, NewState, Unbound, EmptySlot
<1>4. PushInv
  <2>1. tracked.pushConstantRanges = <<>> /\ tracked.anyPushConstantsPushed = FALSE
        /\ \A b \in Bytes : want.push[b] = None /\ gpu.push[b] = None
    BY DEF Init, NewState, Unbound
  <2>2. DOMAIN tracked.pushConstantRanges = {}
    BY <2>1
  <2> QED
    BY <2>1, <2>2 DEF PushInv, RangesDone, Init
<1> QED
  BY <1>1, <1>2, <1>3, <1>4 DEF IInv

------------------------------------------------------------------------------
\* The variables keep their types whatever the application calls.
THEOREM BindStateTypes == Spec => []TypeOK
<1>1. Init => TypeOK
  BY InitInv DEF IInv
<1>2. TypeOK /\ [Next]_vars => TypeOK'
  BY TypeStep
<1> QED
  BY <1>1, <1>2, PTL DEF Spec

\* Within what the tracker can represent, it shadows the application's state at
\* every step, and the destructor has put back exactly the part it has reached.
THEOREM Shadowing ==
  ASSUME TrackedUse
  PROVE  Spec => []IInv
<1>1. Init => IInv
  BY InitInv
<1>2. IInv /\ [Next]_vars => IInv'
  BY TypeStep, SnapStep, PipelineStep, SetStep, PushStep DEF IInv
<1> QED
  BY <1>1, <1>2, PTL DEF Spec

\* Within what the tracker can represent, no sequence of the application's binds
\* and pushes and of injected copies lets the application's next dispatch see a
\* pipeline, descriptor set or push constant other than its own
\* (ScopedPipelineStateSnapshot keeps the promise of pipeline_state.hpp).
THEOREM InjectionIsTransparent ==
  ASSUME TrackedUse
  PROVE  Spec => []Transparent
<1>1. IInv => Transparent
  <2> SUFFICES ASSUME IInv, pc = "app" PROVE Transparent
    BY DEF Transparent
  <2>1. want.pipeline # None => gpu.pipeline = want.pipeline
    BY DEF IInv, PipelineInv
  <2>2. \A i \in SetSlots : want.sets[i] # None => gpu.sets[i] = want.sets[i]
    BY DEF IInv, SetInv, SetsDone
  <2>3. \A b \in Bytes : want.push[b] # None => gpu.push[b] = want.push[b]
    BY DEF IInv, PushInv, RangesDone
  <2> QED
    BY <2>1, <2>2, <2>3 DEF Transparent
<1> QED
  BY <1>1, Shadowing, PTL

\* Nor does the destructor bring back what the application has not bound since
\* the command buffer was last begun or reset.
THEOREM NothingComesBack ==
  ASSUME TrackedUse
  PROVE  Spec => []NothingResurrected
<1>1. IInv => NothingResurrected
  BY DEF IInv, NothingResurrected, PipelineInv, SetInv, PushInv
<1> QED
  BY <1>1, Shadowing, PTL
=============================================================================
