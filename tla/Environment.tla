---------------------------- MODULE Environment ----------------------------
(***************************************************************************)
(* The environment variables of the process.  BCnLayer_CreateInstance and  *)
(* BCnLayer_CreateDevice read them; nothing changes them.  A variable      *)
(* stands for the value in effect: BCN_TRANSCODE_TO_ETC1 and the MORE_     *)
(* variants, the defaults of others, are folded into those, and            *)
(* BCN_COMPUTE_IMAGE_VIEW is TRUE when it is not set.                      *)
(***************************************************************************)

CONSTANT Environments   \* the environments the process may be started in

EnvVars ==
  {"BCN_TRANSCODE_TO_ETC2", "BCN_TRANSCODE_TO_ASTC", "BCN_ADD_WATERMARK",
   "BCN_DEBUG_ASTC_DIAGNOSTICS", "BCN_COMPUTE_IMAGE_VIEW", "BCN_COMPUTE_AUTO",
   "BCN_PROFILE_TRANSFERS", "BCN_SAMPLE_GPU_COUNTERS"}

ASSUME EnvironmentsAssumption == Environments \subseteq [EnvVars -> BOOLEAN]

VARIABLE env

transcode_to_etc2   == env["BCN_TRANSCODE_TO_ETC2"]
transcode_to_astc   == env["BCN_TRANSCODE_TO_ASTC"]
add_watermark       == env["BCN_ADD_WATERMARK"]
debug_astc          == env["BCN_DEBUG_ASTC_DIAGNOSTICS"]
compute_image_view  == env["BCN_COMPUTE_IMAGE_VIEW"]
bcn_compute_auto    == env["BCN_COMPUTE_AUTO"]
profile_transfers   == env["BCN_PROFILE_TRANSFERS"]
sample_gpu_counters == env["BCN_SAMPLE_GPU_COUNTERS"]
=============================================================================
