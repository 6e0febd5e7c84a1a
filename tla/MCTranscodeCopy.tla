-------------------------- MODULE MCTranscodeCopy --------------------------
(* The setups the runs of TranscodeCopy start from.  A flag that nothing in  *)
(* a setup reads is left at FALSE.                                           *)
EXTENDS TranscodeCopy

Useful(s) ==
  /\ s.use_image_view => ~ (s.to_etc2 \/ s.to_astc \/ s.add_watermark)
  /\ s.debug_astc => s.to_astc /\ ~ s.to_etc2 /\ ~ s.threeD
  /\ s.half_float => s.add_watermark
AllSetups == {s \in Setup : Useful(s)}

\* What BCnLayer_CreateDevice sets when no variable is in the environment.
Default ==
  [use_image_view |-> TRUE, to_etc2 |-> FALSE, to_astc |-> FALSE,
   add_watermark |-> FALSE, debug_astc |-> FALSE, dump |-> FALSE, sample |-> FALSE,
   threeD |-> FALSE, half_float |-> FALSE, entry |-> "buffer", ready |-> TRUE]
DefaultSetups == {Default}
DefaultSetups3D == {[Default EXCEPT !.threeD = TRUE]}
=============================================================================
