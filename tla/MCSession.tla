----------------------------- MODULE MCSession -----------------------------
(***************************************************************************)
(* Eight environments.  Four of them meet the machines that matter for     *)
(* them and leave the threads alone; in the other four the way to the      *)
(* device is as short as can be, and the threads record and submit.  In    *)
(* three of these waits may fail.  Submits has two threads that submit with*)
(* counters on two queues, Samples one that submits and one with one-shots.*)
(***************************************************************************)
EXTENDS Session, TLC

CONSTANTS t1, t2, q1, q2

With(on) == [v \in EnvVars |-> v \in on \cup {"BCN_COMPUTE_IMAGE_VIEW"}]
Plain   == With({})
Auto    == With({"BCN_COMPUTE_AUTO"})
ToEtc2s == With({"BCN_TRANSCODE_TO_ETC2", "BCN_ADD_WATERMARK"})
ToAstcs == With({"BCN_TRANSCODE_TO_ASTC", "BCN_DEBUG_ASTC_DIAGNOSTICS"})
Submits == With({"BCN_SAMPLE_GPU_COUNTERS"})
Samples == With({"BCN_SAMPLE_GPU_COUNTERS", "BCN_COMPUTE_AUTO"})
Times   == With({"BCN_PROFILE_TRANSFERS"})
Both    == With({"BCN_PROFILE_TRANSFERS", "BCN_SAMPLE_GPU_COUNTERS"})

MCEnvironments == {Plain, Auto, ToEtc2s, ToAstcs, Submits, Samples, Times, Both}

\* The second thread has a queue of its own.  It never copies with timestamps.
MCQueueOf == t1 :> q1 @@ t2 :> q2
MCDoes == [e \in Environments |->
  CASE e = Submits -> {t1, t2} \X {"copies", "submits"}
    [] e = Samples -> ({t1} \X {"copies", "dispatches"}) \cup ({t2} \X {"copies", "submits"})
    [] e = Times   -> {t1} \X {"copies", "dispatches", "submits"}
    [] e = Both    -> {t1} \X {"copies", "dispatches"}
    [] OTHER       -> {}]
MCMaxPools == [e \in Environments |-> t1 :> (IF e = Times THEN 2 ELSE 1) @@ t2 :> 0]
MCMayLose == {Both}
MCMayErr == {Samples, Times, Both}

-----------------------------------------------------------------------------
(* The machines.                                                           *)

MCLimits(n) == [dimension2D |-> 8 * n, dimension3D |-> 2 * n, dimensionCube |-> 4 * n,
                arrayLayers |-> 3 * n]
Gpu(driver, version, api, lacks, n) ==
  [driverID |-> driver, driverVersion |-> version, apiVersion |-> api,
   features |-> Features \ lacks, limits |-> MCLimits(n)]
BC == {"textureCompressionBC"}

MCMachinesOf == [e \in Environments |->
  CASE e = Auto ->
         {<<Gpu("QUALCOMM", 500, Version12, BC, 1)>>, <<Gpu("QUALCOMM", 510, Version12, BC, 1)>>,
          <<Gpu("QUALCOMM", 540, Version12, {}, 1)>>, <<Gpu("SAMSUNG", 1, Version12, BC, 1)>>,
          <<Gpu("TURNIP", 1, Version12, {}, 1), Gpu("OTHER", 1, Version11, BC, 2)>>}
    [] e = ToEtc2s ->
         {<<Gpu("OTHER", 1, Version12, lacks, 1)>> : lacks \in {BC, {"textureCompressionETC2"}}}
    [] e = ToAstcs ->
         {<<Gpu("OTHER", 1, Version11, BC, 1)>>}
         \cup {<<Gpu("OTHER", 1, Version12, lacks, 1)>> :
                 lacks \in {BC, {"shaderInt16"}, {"shaderInt8"}, {"int64Atomics", "deviceFault"}}}
    [] e = Plain -> {<<Gpu("OTHER", 1, Version12, BC, 1)>>}
    [] OTHER -> {<<Gpu("OTHER", 1, Version12, Features \ {"shaderInt16"}, 1)>>}]

MCAsksOf == [e \in Environments |->
  CASE e = Auto               -> {"BC1_RGB_UNORM", "BC4_SNORM"}
    [] e = Plain              -> {"BC6H_UFLOAT"}
    [] e \in {ToEtc2s, ToAstcs} -> {"BC7_SRGB"}
    [] OTHER                  -> {}]

Image(type, tiling, cube) ==
  [type |-> type, tiling |-> tiling, cube |-> cube, subsampled |-> FALSE]
MCKindsOf == [e \in Environments |->
  IF e # Plain THEN {}
  ELSE {Image("2D", "OPTIMAL", FALSE), Image("2D", "OPTIMAL", TRUE), Image("3D", "OPTIMAL", FALSE),
        Image("2D", "LINEAR", FALSE), Image("1D", "OPTIMAL", FALSE)}]

MCGivesOf == [e \in Environments |->
  IF e \in {ToEtc2s, ToAstcs} THEN Gives ELSE {"features2"}]
MCFailsUnseen == {Plain, Auto, ToEtc2s, ToAstcs}
=============================================================================
