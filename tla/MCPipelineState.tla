-------------------------- MODULE MCPipelineState --------------------------
(* The calls the application makes in the runs of PipelineState: slots 0    *)
(* and 1, four bytes of push constants, two descriptor sets.                *)
EXTENDS PipelineState, TLC

CONSTANTS A1, A2, B, s1, s2

One(l, first, s, offsets) ==
  [layout |-> l, first |-> first, binds |-> <<[set |-> s, offsets |-> offsets]>>]
Two(l, s, t) ==
  [layout |-> l, first |-> 0,
   binds |-> <<[set |-> s, offsets |-> <<>>], [set |-> t, offsets |-> <<>>]>>]
Push(l, stages, offset, size, value) ==
  [layout |-> l, stageFlags |-> stages, offset |-> offset, size |-> size, value |-> value]

\* Two compatible layouts, each with push constant ranges of its own.
CompatibleLayouts == {A1, A2}
OneClass == A1 :> "a" @@ A2 :> "a"
TrackedBinds ==
  {One(A1, 0, s1, <<>>), One(A1, 0, s2, <<7>>), One(A2, 1, s1, <<7>>),
   One(A2, 1, s2, <<>>), Two(A1, s1, s2)}
TrackedPushes ==
  {Push(A1, {"compute"}, 0, 2, 1), Push(A1, {"compute"}, 0, 2, 2),
   Push(A2, {"compute", "graphics"}, 1, 3, 1), Push(A2, {"graphics"}, 0, 2, 2)}

\* The same layout, its constants pushed in two parts.
PartialPushes ==
  {Push(A1, {"compute"}, 0, 1, 1), Push(A1, {"compute"}, 1, 1, 2)}

\* Two incompatible layouts, one of two sets and one of a single set.
IncompatibleLayouts == {A1, B}
TwoClasses == A1 :> "a" @@ B :> "b"
MixedBinds == {One(A1, 1, s1, <<>>), One(B, 0, s2, <<>>)}
=============================================================================
