--------------------------- MODULE FormatSupport ---------------------------
(***************************************************************************)
(* What the layer says of a BCn format and what it makes of it.  The       *)
(* queries of a physical device and the images of a device decide with     *)
(* conditions of their own whether a format is decoded by the layer or     *)
(* left to a driver that knows it; "auto" is BCN_COMPUTE_AUTO.             *)
(***************************************************************************)
EXTENDS Integers

S3tc == {"BC1_RGB_UNORM", "BC1_RGB_SRGB", "BC1_RGBA_UNORM", "BC1_RGBA_SRGB",
         "BC2_UNORM", "BC2_SRGB", "BC3_UNORM", "BC3_SRGB"}
Rgtc == {"BC4_UNORM", "BC4_SNORM", "BC5_UNORM", "BC5_SNORM"}
Bc6  == {"BC6H_UFLOAT", "BC6H_SFLOAT"}
Bc7  == {"BC7_UNORM", "BC7_SRGB"}
BCn  == S3tc \cup Rgtc \cup Bc6 \cup Bc7

Srgb  == {"BC1_RGB_SRGB", "BC1_RGBA_SRGB", "BC2_SRGB", "BC3_SRGB", "BC7_SRGB"}
Snorm == {"BC4_SNORM", "BC5_SNORM"}
Unorm == BCn \ (Srgb \cup Snorm \cup Bc6)

\* Mutant: the signed formats have no case of their own.
FormatWithoutSnorm(f) ==
  CASE f \in Srgb  -> "R8G8B8A8_SRGB"
    [] f \in Unorm -> "R8G8B8A8_UNORM"
    [] OTHER       -> "R16G16B16A16_SFLOAT"

\* The format an image gets instead; of a format that is not BCn too.
get_format_for_bcn(f) ==
  CASE f \in Srgb  -> "R8G8B8A8_SRGB"
    [] f \in Unorm -> "R8G8B8A8_UNORM"
    [] f \in Snorm -> "R8G8B8A8_SNORM"
    [] OTHER       -> "R16G16B16A16_SFLOAT"
get_format_for_bcn_to_etc2(f) == IF f \in Srgb THEN "ETC2_SRGB" ELSE "ETC2_UNORM"
get_format_for_bcn_to_astc(f) == IF f \in Srgb THEN "ASTC_SRGB" ELSE "ASTC_UNORM"

\* Formats whose images may have views of each other.
CompatibilityClasses ==
  {{"BC1_RGB_UNORM", "BC1_RGB_SRGB"}, {"BC1_RGBA_UNORM", "BC1_RGBA_SRGB"},
   {"BC2_UNORM", "BC2_SRGB"}, {"BC3_UNORM", "BC3_SRGB"}, {"BC4_UNORM", "BC4_SNORM"},
   {"BC5_UNORM", "BC5_SNORM"}, {"BC6H_UFLOAT", "BC6H_SFLOAT"}, {"BC7_UNORM", "BC7_SRGB"},
   {"R8G8B8A8_SRGB", "R8G8B8A8_UNORM", "R8G8B8A8_SNORM"}, {"R16G16B16A16_SFLOAT"},
   {"ETC2_SRGB", "ETC2_UNORM"}, {"ASTC_SRGB", "ASTC_UNORM"}}
Compatible(f, g) == \E c \in CompatibilityClasses : {f, g} \subseteq c

-----------------------------------------------------------------------------
(* Who takes care of a format.  "props" are the properties of a physical   *)
(* device: its driver, the version of the driver and its limits.           *)

\* Driver versions 512.502.0 and 512.530.0 of Qualcomm.
Qualcomm502 == 502
Qualcomm530 == 530

Excluded(auto, props, f, cutoff) ==
  /\ auto
  /\ \/ props.driverID = "QUALCOMM" /\ props.driverVersion > cutoff
     \/ props.driverID = "TURNIP"
     \/ props.driverID = "SAMSUNG" /\ f \in S3tc

\* Mutant: the formats a Samsung driver knows are decoded all the same.
SupportedOnSamsung(auto, props, f) ==
  f \in BCn /\ ~ (Excluded(auto, props, f, Qualcomm502) /\ props.driverID # "SAMSUNG")

is_supported_bcn_format(auto, props, f) == f \in BCn /\ ~ Excluded(auto, props, f, Qualcomm502)

\* The queries of image format and format properties are answered by the layer.
AnsweredByLayer(auto, props, f) == f \in BCn /\ ~ Excluded(auto, props, f, Qualcomm530)

-----------------------------------------------------------------------------
(* GetPhysicalDeviceImageFormatProperties and its "2".                     *)

ImageKinds ==
  [type : {"1D", "2D", "3D"}, tiling : {"OPTIMAL", "LINEAR", "DRM"}, cube : BOOLEAN,
   subsampled : BOOLEAN]

\* An extent of zero, of a device the maps do not describe, has the logarithm
\* minus infinity, whose conversion to an integer may be anything (two examples).
Log2(n) == IF n = 0 THEN {0, 2 ^ 30} ELSE {k \in 0 .. n : 2 ^ k <= n /\ n < 2 ^ (k + 1)}

Larger(a, b) == IF a > b THEN a ELSE b

\* Mutant: a cube is as large as any image.
ExtentOfAnyImage(limits, k, before) ==
  CASE k.type = "2D" -> [width |-> limits.dimension2D, height |-> limits.dimension2D, depth |-> 1]
    [] k.type = "3D" -> [width |-> limits.dimension3D, height |-> limits.dimension3D,
                         depth |-> limits.dimension3D]
    [] OTHER         -> before

\* The types are tested as bits: 1D is 0, so the extent of a 1D image is left as
\* the application had it.
MaxExtent(limits, k, before) ==
  CASE k.type = "2D" -> LET side == IF k.cube THEN limits.dimensionCube ELSE limits.dimension2D
                        IN [width |-> side, height |-> side, depth |-> 1]
    [] k.type = "3D" -> [width |-> limits.dimension3D, height |-> limits.dimension3D,
                         depth |-> limits.dimension3D]
    [] OTHER         -> before

MaxMipLevels(k, extent) ==
  IF k.tiling # "OPTIMAL" \/ k.subsampled THEN {1} ELSE Log2(Larger(extent.width, extent.height))

\* Optimal tiling is 0 too, so only linear images have one layer.
MaxArrayLayers(limits, k) == IF k.tiling = "LINEAR" THEN 1 ELSE limits.arrayLayers

ImageFormatProperties(props, k, before) ==
  {[maxExtent |-> MaxExtent(props.limits, k, before), maxMipLevels |-> m,
    maxArrayLayers |-> MaxArrayLayers(props.limits, k)] :
     m \in MaxMipLevels(k, MaxExtent(props.limits, k, before))}
=============================================================================
