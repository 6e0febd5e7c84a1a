--------------------------- MODULE DeviceSession ---------------------------
(***************************************************************************)
(* An application's way through the layer before and after it copies: it   *)
(* creates an instance, enumerates physical devices, asks what formats     *)
(* they have, creates a device, images and views on it, and destroys it.   *)
(* The layer answers from maps that it fills while devices are enumerated  *)
(* and asks the driver for features and extensions of its own.             *)
(*                                                                         *)
(* The loader gives all physical devices of an instance one dispatch       *)
(* table, and GetKey is its address: the maps have one entry for them all. *)
(*                                                                         *)
(* Bounds: one instance and one device at a time, one format answer and    *)
(* one image remembered, and one format list that the application reuses.  *)
(***************************************************************************)
EXTENDS Environment, FormatSupport, FiniteSets, Sequences

CONSTANTS
  MachinesOf,   \* bound: the machines an environment meets
  AsksOf,       \* bound: the formats it asks for
  KindsOf,      \* bound: the kinds of images it asks for
  GivesOf,      \* bound: how it passes features to CreateDevice
  FailsUnseen   \* bound: the environments where a creation fails that nobody looks at

Features == {"textureCompressionBC", "textureCompressionETC2", "textureCompressionASTC_LDR",
             "shaderInt16", "storageBuffer8BitAccess", "storageBuffer16BitAccess",
             "shaderInt8", "shaderFloat16", "int64Atomics", "deviceFault"}
Extensions == {"8bit_storage", "shader_float16_int8", "shader_atomic_int64", "device_fault"}
Drivers == {"QUALCOMM", "TURNIP", "SAMSUNG", "OTHER"}

\* Where the application has features it wants: pEnabledFeatures, a
\* VkPhysicalDeviceFeatures2 in the chain, nowhere.
Gives == {"pEnabledFeatures", "features2", "nothing"}

\* Vulkan requires limits of some size of every device.
Positive == Nat \ {0}
Limits == [dimension2D : Positive, dimension3D : Positive, dimensionCube : Positive,
           arrayLayers : Positive]
PhysicalDevice == [driverID : Drivers, driverVersion : Nat, apiVersion : Nat,
                   features : SUBSET Features, limits : Limits]
CoreFeatures == {"textureCompressionBC", "textureCompressionETC2", "textureCompressionASTC_LDR",
                 "shaderInt16"}
Version11 == 11
Version12 == 12

\* The map entries of a physical device that was never described.
NotDescribed ==
  [driverID |-> "OTHER", driverVersion |-> 0, apiVersion |-> 0, features |-> {},
   limits |-> [dimension2D |-> 0, dimension3D |-> 0, dimensionCube |-> 0, arrayLayers |-> 0]]

ASSUME DeviceAssumption ==
  /\ MachinesOf \in [Environments -> SUBSET Seq(PhysicalDevice)]
  /\ AsksOf \in [Environments -> SUBSET BCn]
  /\ KindsOf \in [Environments -> SUBSET ImageKinds]
  /\ GivesOf \in [Environments -> SUBSET Gives]
  /\ FailsUnseen \subseteq Environments

VARIABLES
  machine,    \* the physical devices there are
  instance,   \* there is an instance
  known,      \* how many of the physical devices the application knows
  described,  \* the one whose properties and features the maps hold, or 0
  attempt,    \* the running BCnLayer_CreateDevice
  device,     \* the device in deviceMap
  objects,    \* driver: the layer's objects on the device
  remains,    \* history: objects that the last call left without an owner
  told,       \* history: the last answer to a question about a format
  image,      \* the last image
  overwritten \* the application's VkImageFormatListCreateInfo was overwritten

deviceVars == <<env, machine, instance, known, described, attempt, device, objects, remains,
                told, image, overwritten>>

\* The entries of featuresMap, propertiesMap and driverPropertiesMap.
Maps(i) == IF i = 0 THEN NotDescribed ELSE machine[i]

-----------------------------------------------------------------------------
(* Types and initial states.                                               *)

NoCall   == [stage |-> "none", of |-> 0, gives |-> "nothing", wants |-> {}, described |-> 0,
             etc2 |-> FALSE, astc |-> FALSE, debug |-> FALSE, features |-> {}, extensions |-> {},
             missing |-> {}]
NoDevice == [of |-> 0]
NoAnswer == [of |-> 0]
NoImage  == [format |-> "none"]

Object == {"device", "module", "setLayout", "layout", "pipeline", "pool", "buffer"} \X
          {"device", "s3tc", "rgtc", "bc6", "bc7", "etc2", "astc", "watermark",
                    "analyze", "bcn", "sync", "descriptor", "lut2", "astc2pLut"}

DeviceTypeOK ==
  /\ machine \in MachinesOf[env]
  /\ {instance, overwritten} \subseteq BOOLEAN
  /\ {known, described} \subseteq 0 .. Len(machine)
  /\ attempt.stage \in {"none", "requested", "created", "equipped"}
  /\ attempt.stage # "none" => /\ attempt.of \in 1 .. known
                               /\ attempt.features \subseteq Features
                               /\ attempt.extensions \subseteq Extensions
  /\ device.of \in 0 .. Len(machine)
  /\ {objects, remains} \subseteq SUBSET Object
  /\ told.of \in 0 .. Len(machine)
  /\ image = NoImage \/ (image.format \in BCn /\ device.of > 0)

ClassOf(f) == CHOOSE c \in CompatibilityClasses : f \in c

DeviceInit ==
  /\ env \in Environments
  /\ machine \in MachinesOf[env]
  /\ instance = FALSE /\ known = 0 /\ described = 0
  /\ attempt = NoCall /\ device = NoDevice
  /\ objects = {} /\ remains = {}
  /\ told = NoAnswer /\ image = NoImage /\ overwritten = FALSE

-----------------------------------------------------------------------------
(* Instances and physical devices.                                         *)

\* A new instance may have the dispatch table of an earlier one, and with it the
\* map entries, which DestroyInstance leaves.
CreateInstance ==
  /\ ~ instance /\ instance' = TRUE
  /\ known' = 0 /\ described' \in {described, 0}
  /\ remains' = {}
  /\ UNCHANGED <<env, machine, attempt, device, objects, told, image, overwritten>>

DestroyInstance ==
  /\ instance /\ attempt = NoCall /\ device = NoDevice
  /\ instance' = FALSE
  /\ known' = 0 /\ told' = NoAnswer /\ remains' = {}
  /\ UNCHANGED <<env, machine, described, attempt, device, objects, image, overwritten>>

\* The loop fills the one entry for each device in turn.  When the application's
\* array is too short the driver answers INCOMPLETE and nothing is filled.
EnumeratePhysicalDevices(room) ==
  /\ instance
  /\ known' = Larger(known, room)
  /\ described' = IF room < Len(machine) THEN described ELSE Len(machine)
  /\ remains' = {}
  /\ UNCHANGED <<env, machine, instance, attempt, device, objects, told, image, overwritten>>

\* GetPhysicalDeviceFeatures and its "2" report BCn whatever the device has.
Reported(p) == machine[p].features \cup {"textureCompressionBC"}

-----------------------------------------------------------------------------
(* Questions about a format: GetPhysicalDeviceFormatProperties and          *)
(* GetPhysicalDeviceImageFormatProperties, and the "2" of each.             *)

Ask(p, f, answers) ==
  /\ instance /\ p <= known /\ f \in AsksOf[env] /\ attempt = NoCall /\ image = NoImage
  /\ told' = [of |-> p, format |-> f, described |-> described, answers |-> answers,
              byLayer |-> AnsweredByLayer(bcn_compute_auto, Maps(described), f)]
  /\ remains' = {}
  /\ UNCHANGED <<env, machine, instance, known, described, attempt, device, objects, image,
                 overwritten>>

AskFormat(p, f) == Ask(p, f, {})

\* "before" is what the application has in its structure.
AskImageFormat(p, f, k) ==
  /\ AnsweredByLayer(bcn_compute_auto, Maps(described), f)
  /\ \E before \in {[width |-> 0, height |-> 0, depth |-> 0]} :
       \E a \in ImageFormatProperties(Maps(described), k, before) :
         Ask(p, f, {[kind |-> k, properties |-> a]})

-----------------------------------------------------------------------------
(* CreateDevice: what is asked of the driver.                              *)

\* CheckForBufferFeatureSupport: the version comes from the maps, the features
\* from the device.
BufferFeatures(p) ==
  IF Maps(described).apiVersion < Version11 THEN {} ELSE machine[p].features \cap
    {"storageBuffer8BitAccess", "storageBuffer16BitAccess", "shaderInt8", "shaderFloat16",
     "int64Atomics"}
Has8BitSupport(p) == {"storageBuffer8BitAccess", "shaderInt8"} \subseteq BufferFeatures(p)

\* Mutant: nobody asks whether the device has ETC2.
ToEtc2Unasked == transcode_to_etc2

\* What the environment asks for and the features allow.
ToEtc2 == transcode_to_etc2 /\ "textureCompressionETC2" \in Maps(described).features
ToAstc(p) ==
  /\ transcode_to_astc
  /\ {"textureCompressionASTC_LDR", "shaderInt16"} \subseteq Maps(described).features
  /\ Has8BitSupport(p)
DebugAstc(p) == debug_astc /\ Has8BitSupport(p)
\* CheckForFaultSupport.
HasFaultSupport(p) == "deviceFault" \in machine[p].features

\* pEnabledFeatures or VkPhysicalDeviceFeatures2, if the application has either.
CoreRequest(p, gives, wants) ==
  IF gives = "nothing" THEN {}
  ELSE ((wants \cap CoreFeatures) \ ({"textureCompressionBC"} \ Maps(described).features))
       \cup {f \in {"textureCompressionETC2"} : ToEtc2}
       \cup {f \in {"textureCompressionASTC_LDR"} : ToAstc(p)}
       \cup {"shaderInt16"}

\* Mutant: the half floats of the encoder are not enabled.
ChainWithoutFloat16(p, wants) ==
  (wants \ CoreFeatures)
  \cup {f \in {"storageBuffer8BitAccess", "storageBuffer16BitAccess", "shaderInt8"} : ToAstc(p)}
  \cup {f \in {"int64Atomics"} : DebugAstc(p)}
  \cup {f \in {"deviceFault"} : HasFaultSupport(p)}

\* The structures of the application with the layer's bits set, or the layer's own.
ChainRequest(p, wants) ==
  (wants \ CoreFeatures)
  \cup {f \in {"storageBuffer8BitAccess", "storageBuffer16BitAccess", "shaderInt8",
               "shaderFloat16"} : ToAstc(p)}
  \cup {f \in {"int64Atomics"} : DebugAstc(p)}
  \cup {f \in {"deviceFault"} : HasFaultSupport(p)}

ExtensionRequest(p, has) ==
  has \cup {e \in {"8bit_storage", "shader_float16_int8"} :
              ToAstc(p) /\ Maps(described).apiVersion < Version12}
      \cup {e \in {"shader_atomic_int64"} : DebugAstc(p)}
      \cup {e \in {"device_fault"} : HasFaultSupport(p)}

\* The extensions that features beyond those of the core take.
ExtensionsFor(p, fs) ==
  {e \in {"8bit_storage"} : machine[p].apiVersion < Version12 /\ "storageBuffer8BitAccess" \in fs}
  \cup {e \in {"shader_float16_int8"} :
          machine[p].apiVersion < Version12 /\ {"shaderInt8", "shaderFloat16"} \cap fs # {}}
  \cup {e \in {"shader_atomic_int64"} : "int64Atomics" \in fs}
  \cup {e \in {"device_fault"} : "deviceFault" \in fs}

\* The application asks for nothing or for all that was reported to it, with the
\* extensions this takes.
RequestDevice(p, gives, wants, has) ==
  /\ instance /\ p <= known /\ attempt = NoCall /\ device = NoDevice
  /\ gives \in GivesOf[env]
  /\ attempt' = [stage |-> "requested", of |-> p, gives |-> gives, wants |-> wants,
                 described |-> described,
                 etc2 |-> ToEtc2, astc |-> ToAstc(p), debug |-> DebugAstc(p),
                 features |-> CoreRequest(p, gives, wants) \cup ChainRequest(p, wants),
                 extensions |-> ExtensionRequest(p, has), missing |-> {}]
  /\ remains' = {}
  /\ UNCHANGED <<env, machine, instance, known, described, device, objects, told, image,
                 overwritten>>

DriverRefuses ==
  /\ attempt.stage = "requested"
  /\ attempt' = NoCall
  /\ remains' = {}
  /\ UNCHANGED <<env, machine, instance, known, described, device, objects, told, image,
                 overwritten>>

\* The fields of device are copied from the maps after the driver made it.
DriverCreates ==
  /\ attempt.stage = "requested" /\ attempt.features \subseteq machine[attempt.of].features
  /\ attempt' = [attempt EXCEPT !.stage = "created", !.described = described]
  /\ objects' = {<<"device", "device">>}
  /\ remains' = {}
  /\ UNCHANGED <<env, machine, instance, known, described, device, told, image, overwritten>>

-----------------------------------------------------------------------------
(* create_bcn_compute_pipelines.                                           *)

Shaders == {"s3tc", "rgtc", "bc6", "bc7", "etc2", "watermark", "astc"}
           \cup {n \in {"analyze"} : attempt.debug}
Modules == {"module"} \X Shaders

\* Mutant: seven pipelines are created, with diagnostics or without.
SevenPipelines == {"pipeline"} \X (Shaders \ {"analyze"})

Pipelines == {"pipeline"} \X Shaders
Tables == {"buffer"} \X {n \in {"lut2", "astc2pLut"} : attempt.astc}

\* The objects in the order of their creation; nobody looks at the result of
\* the second kind, and a failure at one of the first ends the call.
Checked == <<{<<"setLayout", "bcn">>}, {<<"setLayout", "etc2">>}, {<<"setLayout", "analyze">>},
             {<<"layout", "bcn">>}, {<<"layout", "etc2">>}, Pipelines>>
Unchecked(i) ==
  Modules \cup {o \in {<<"setLayout", "astc">>} : i > 2}
          \cup {o \in {<<"layout", "astc">>, <<"layout", "analyze">>} : i > 5}
Before(i) == Unchecked(i) \cup UNION {Checked[j] : j \in 1 .. i - 1}

PipelinesFail(i) ==
  /\ attempt.stage = "created"
  /\ remains' = objects \cup Before(i)
  /\ objects' = {}
  /\ attempt' = NoCall
  /\ UNCHANGED <<env, machine, instance, known, described, device, told, image, overwritten>>

\* The modules go.  A module that could not be created is a handle nobody set: the
\* outcome taken is that the pipelines fail.  Bound: at most one of the other
\* objects that nobody looks at, the look-up tables among them, is missing.
PipelinesCreated(missing) ==
  /\ attempt.stage = "created"
  /\ missing \subseteq (Unchecked(6) \ Modules) \cup Tables
  /\ Cardinality(missing) <= IF env \in FailsUnseen THEN 1 ELSE 0
  /\ objects' = (objects \cup Before(7) \cup Tables) \ (Modules \cup missing)
  /\ attempt' = [attempt EXCEPT !.stage = "equipped", !.missing = missing]
  /\ remains' = {}
  /\ UNCHANGED <<env, machine, instance, known, described, device, told, image, overwritten>>

-----------------------------------------------------------------------------
(* The rest of CreateDevice, and DestroyDevice.                            *)

\* Transcoding and watermarks exclude image views.
UseImageView == ~ attempt.etc2 /\ ~ attempt.astc /\ ~ add_watermark /\ compute_image_view

MaxSets == 256

\* Mutant: the pools are made for the encoder of ETC2 at most.
MultiplierOfEtc2 == IF attempt.etc2 THEN 3 ELSE 1

BufferMultiplier == IF attempt.astc THEN 5 ELSE IF attempt.etc2 THEN 3 ELSE 1
PoolSizes ==
  [images  |-> IF UseImageView THEN MaxSets ELSE 0,
   buffers |-> (IF UseImageView THEN 0 ELSE MaxSets) + MaxSets * BufferMultiplier]

Pools == {"pool"} \X {"sync", "descriptor"}

RegisterDevice ==
  /\ attempt.stage = "equipped"
  /\ device' = [of |-> attempt.of, described |-> attempt.described, etc2 |-> attempt.etc2,
                astc |-> attempt.astc, debug |-> attempt.debug, imageView |-> UseImageView,
                gives |-> attempt.gives, enabled |-> attempt.features, poolSizes |-> PoolSizes,
                missing |-> attempt.missing]
  /\ objects' = objects \cup Pools
  /\ attempt' = NoCall
  /\ remains' = {}
  /\ UNCHANGED <<env, machine, instance, known, described, told, image, overwritten>>

\* Mutant: one of the pipelines is forgotten.
ReleasedButRgtc == {<<"device", "device">>, <<"setLayout", "bcn">>, <<"layout", "bcn">>}
                   \cup {"pipeline"} \X {"s3tc", "bc7", "bc6"} \cup Pools

Released == {<<"device", "device">>, <<"setLayout", "bcn">>, <<"layout", "bcn">>}
            \cup {"pipeline"} \X {"s3tc", "bc7", "bc6", "rgtc"} \cup Pools

DestroyDevice ==
  /\ device # NoDevice
  /\ device' = NoDevice
  /\ objects' = {} /\ remains' = objects \ Released
  /\ image' = NoImage
  /\ UNCHANGED <<env, machine, instance, known, described, attempt, told, overwritten>>

-----------------------------------------------------------------------------
(* Images and their views.                                                 *)

Transcoded(etc2, astc, f) == IF etc2 THEN get_format_for_bcn_to_etc2(f)
                             ELSE IF astc THEN get_format_for_bcn_to_astc(f)
                             ELSE get_format_for_bcn(f)

\* The view formats in the application's list: those of the image's class, unless
\* the list points into a vector of an earlier CreateImage that is gone.
Listed(f) == IF overwritten THEN {{"unknown"}, ClassOf(f)} ELSE {ClassOf(f)}

\* A translated list is stored in the application's structure.
CreateImage(f, type, listed) ==
  /\ device # NoDevice /\ image = NoImage /\ f \in AsksOf[env]
  /\ \E formats \in IF listed THEN Listed(f) ELSE {{}} :
       LET decoded == is_supported_bcn_format(bcn_compute_auto, Maps(device.described), f)
           etc2    == decoded /\ device.etc2 /\ type # "3D"
           astc    == decoded /\ ~ etc2 /\ device.astc /\ type # "3D"
       IN /\ image' = [format |-> f, decoded |-> decoded, etc2 |-> etc2, astc |-> astc,
                       target |-> IF decoded THEN Transcoded(etc2, astc, f) ELSE f,
                       views |-> {IF decoded THEN Transcoded(etc2, astc, g) ELSE g : g \in formats},
                       stale |-> listed /\ overwritten,
                       answer |-> IF told.of = device.of /\ told.format = f THEN told ELSE NoAnswer]
          /\ overwritten' = (overwritten \/ (listed /\ decoded))
  /\ told' = NoAnswer
  /\ remains' = {}
  /\ UNCHANGED <<env, machine, instance, known, described, attempt, device, objects>>

CreateImageView(g) ==
  /\ image # NoImage /\ g \in ClassOf(image.format)
  /\ image' = [image EXCEPT !.views = @ \cup
                 {IF image.decoded THEN Transcoded(image.etc2, image.astc, g) ELSE g}]
  /\ remains' = {}
  /\ UNCHANGED <<env, machine, instance, known, described, attempt, device, objects, told,
                 overwritten>>

\* The application may fill in its list anew.
DestroyImage ==
  /\ image # NoImage /\ image' = NoImage
  /\ overwritten' \in {overwritten, FALSE}
  /\ remains' = {}
  /\ UNCHANGED <<env, machine, instance, known, described, attempt, device, objects, told>>

-----------------------------------------------------------------------------

DeviceNext ==
  \/ CreateInstance \/ DestroyInstance
  \/ \E room \in DOMAIN machine : EnumeratePhysicalDevices(room)
  \/ \E p \in 1 .. known :
       \/ \E f \in AsksOf[env] : AskFormat(p, f) \/ \E k \in KindsOf[env] : AskImageFormat(p, f, k)
       \/ \E gives \in GivesOf[env], all \in BOOLEAN :
            LET wants == IF all THEN Reported(p) ELSE {}
            IN RequestDevice(p, gives, wants, ExtensionsFor(p, wants))
  \/ DriverRefuses \/ DriverCreates
  \/ \E i \in DOMAIN Checked : PipelinesFail(i)
  \/ \E missing \in {{}} \cup {{o} : o \in Object} : PipelinesCreated(missing)
  \/ RegisterDevice \/ DestroyDevice
  \/ \E f \in AsksOf[env], type \in {"2D", "3D"}, listed \in BOOLEAN : CreateImage(f, type, listed)
  \/ \E g \in BCn : CreateImageView(g)
  \/ DestroyImage

DeviceSpec == DeviceInit /\ [][DeviceNext]_deviceVars

-----------------------------------------------------------------------------
(* Properties.                                                             *)

\* Versions of Qualcomm's driver between the two the code compares with: the
\* queries still answer (bcn_layer.cpp:305), the images are no longer decoded
\* (bcn.cpp:179).
BetweenVersions(props) ==
  props.driverID = "QUALCOMM" /\ props.driverVersion > Qualcomm502
  /\ props.driverVersion <= Qualcomm530

\* An image is decoded by the layer exactly when the layer, and not the driver,
\* answered for its format (bcn_layer.cpp:298, image.cpp:73), as long as the maps
\* held the same entries for the answer and for the device and the driver is
\* outside the versions above.
AnswersHonoured ==
  image # NoImage /\ image.answer # NoAnswer /\ image.answer.described = device.described
  /\ ~ (bcn_compute_auto /\ BetweenVersions(Maps(device.described)))
    => image.decoded = image.answer.byLayer

\* An image as large as the layer's answer is one the device can have
\* (bcn_layer.cpp:307), when the maps describe the device in question; of a 1D
\* image the extent, and of a 3D image the number of layers, are not the layer's.
Fits(limits, k, a) ==
  LET side == IF k.type = "3D" THEN limits.dimension3D
              ELSE IF k.cube THEN limits.dimensionCube ELSE limits.dimension2D
  IN /\ a.maxExtent.width <= side /\ a.maxExtent.height <= side
     /\ a.maxExtent.depth <= IF k.type = "3D" THEN side ELSE 1
     /\ 2 ^ a.maxMipLevels <= 2 * Larger(a.maxExtent.width, a.maxExtent.height)
     /\ a.maxArrayLayers <= limits.arrayLayers
     /\ k.tiling # "OPTIMAL" => a.maxMipLevels = 1
AnswersWithinLimits ==
  told # NoAnswer /\ told.described = told.of =>
    \A a \in told.answers : a.kind.type = "1D" \/ Fits(machine[told.of].limits, a.kind, a.properties)

\* The layer asks the driver for nothing the device does not have, and for each
\* feature with its extension (bcn_layer.cpp:694-900), when the maps describe the
\* device: but for what it enables unseen.
EnabledUnseen == {"shaderInt16", "storageBuffer16BitAccess", "shaderFloat16", "int64Atomics"}
RequestsSupported ==
  attempt.stage = "requested" /\ attempt.described = attempt.of =>
    /\ attempt.features \subseteq machine[attempt.of].features \cup EnabledUnseen
    /\ ExtensionsFor(attempt.of, attempt.features) \subseteq attempt.extensions

\* Images are made in an ETC2 or ASTC format, and encoded by shaders with 8 and 16
\* bit types, only on a device that has these features on (bcn_layer.cpp:837-900),
\* unless the application passes no features to enable them in.
TranscodeEnabled ==
  image # NoImage /\ device.gives # "nothing" =>
    /\ image.etc2 => "textureCompressionETC2" \in device.enabled
    /\ image.astc => {"textureCompressionASTC_LDR", "shaderInt16", "shaderInt8", "shaderFloat16",
                      "storageBuffer8BitAccess", "storageBuffer16BitAccess"} \subseteq device.enabled

\* What a decode, an encode, a watermark and an analysis bind exists on a device
\* that is registered (bcn.cpp:208-537), but for objects whose creation failed
\* unseen.
Needed ==
  {<<"setLayout", "bcn">>, <<"layout", "bcn">>}
  \cup {"pipeline"} \X {"s3tc", "rgtc", "bc6", "bc7"}
  \cup (IF device.etc2 THEN {"setLayout", "layout", "pipeline"} \X {"etc2"} ELSE {})
  \cup (IF device.astc THEN {"setLayout", "layout", "pipeline"} \X {"astc"} ELSE {})
  \cup (IF device.astc THEN {"buffer"} \X {"lut2", "astc2pLut"} ELSE {})
  \cup (IF device.debug THEN {"setLayout", "layout", "pipeline"} \X {"analyze"} ELSE {})
  \cup (IF add_watermark THEN {<<"setLayout", "etc2">>, <<"layout", "etc2">>,
                               <<"pipeline", "watermark">>} ELSE {})
  \cup Pools
Equipped == device # NoDevice => Needed \ device.missing \subseteq objects

\* A pool of the descriptor set allocator holds its maxSets sets of any layout the
\* device uses (bcn_layer.cpp:1047, bcn.cpp:282-398).
SetSizes ==
  {[images |-> IF device.imageView THEN 1 ELSE 0, buffers |-> IF device.imageView THEN 1 ELSE 2]}
  \cup {s \in {[images |-> 0, buffers |-> 2]} : device.etc2 \/ add_watermark}
  \cup {s \in {[images |-> 0, buffers |-> IF device.debug THEN 6 ELSE 4]} : device.astc}
PoolHoldsSets ==
  device # NoDevice =>
    \A s \in SetSizes : /\ MaxSets * s.images <= device.poolSizes.images
                        /\ MaxSets * s.buffers <= device.poolSizes.buffers

\* DestroyDevice (bcn_layer.cpp:1080) leaves no object of the layer on a device
\* that is gone but those of the transcoders and the set layout and layouts
\* they share.
OnlyTranscodersRemain ==
  <<"device", "device">> \notin remains =>
    \A o \in remains : o[2] \in {"etc2", "astc", "watermark", "analyze", "lut2", "astc2pLut"}

\* The driver gets views whose formats are compatible with the image's
\* (image.cpp:86-110, 167-174), unless the application's list was overwritten.
ViewsCompatible ==
  image # NoImage /\ ~ image.stale => \A g \in image.views : Compatible(g, image.target)
=============================================================================
