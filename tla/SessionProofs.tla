--------------------------- MODULE SessionProofs ---------------------------
(***************************************************************************)
(* Proofs about DeviceSession and Session, for any environments, machines  *)
(* and questions; what Profiling promises carries over to a session.       *)
(***************************************************************************)
EXTENDS Session, ProfilingProofs, FiniteSetTheorems

-----------------------------------------------------------------------------
(* Types.                                                                  *)

Calls ==
  [stage : {"requested", "created", "equipped"}, of : 1 .. known, gives : Gives,
   wants : SUBSET Features, described : 0 .. Len(machine), etc2 : BOOLEAN, astc : BOOLEAN,
   debug : BOOLEAN, features : SUBSET Features, extensions : SUBSET Extensions,
   missing : SUBSET Object]
Devices ==
  [of : 1 .. Len(machine), described : 0 .. Len(machine), etc2 : BOOLEAN, astc : BOOLEAN,
   debug : BOOLEAN, imageView : BOOLEAN, gives : Gives, enabled : SUBSET Features,
   poolSizes : [images : Nat, buffers : Nat], missing : SUBSET Object]
ImageFields == {"format", "decoded", "etc2", "astc", "target", "views", "stale", "answer"}
ImageShape == image = [x \in ImageFields |-> image[x]] /\ image.format \in BCn

\* The variables by themselves, and what excludes what.
Setting ==
  /\ env \in Environments /\ machine \in MachinesOf[env]
  /\ instance \in BOOLEAN /\ overwritten \in BOOLEAN
  /\ known \in 0 .. Len(machine) /\ described \in 0 .. Len(machine)
Running == attempt = NoCall \/ (attempt \in Calls /\ instance /\ device = NoDevice)
Holding ==
  /\ device = NoDevice \/ device \in Devices
  /\ image = NoImage \/ (ImageShape /\ device \in Devices)
Owning == objects \in SUBSET Object /\ remains \in SUBSET Object
Told == told.of \in 0 .. Len(machine)
DeviceTypes == Setting /\ Running /\ Holding /\ Owning /\ Told

\* What the assumption says of a machine.
LEMMA MachineType ==
  ASSUME env \in Environments, machine \in MachinesOf[env]
  PROVE  /\ machine \in Seq(PhysicalDevice) /\ Len(machine) \in Nat
         /\ \A p \in 1 .. Len(machine) : machine[p] \in PhysicalDevice
         /\ AsksOf[env] \subseteq BCn /\ GivesOf[env] \subseteq Gives
<1>1. machine \in Seq(PhysicalDevice)
  BY DeviceAssumption
<1>2. AsksOf[env] \subseteq BCn /\ GivesOf[env] \subseteq Gives
  BY DeviceAssumption
<1> QED BY <1>1, <1>2

LEMMA MapsType ==
  ASSUME env \in Environments, machine \in MachinesOf[env], NEW i \in 0 .. Len(machine)
  PROVE  Maps(i).driverVersion \in Nat /\ Maps(i).apiVersion \in Nat
<1>1. CASE i = 0
  BY <1>1 DEF Maps, NotDescribed
<1>2. CASE i # 0
  BY <1>2, MachineType DEF Maps, PhysicalDevice
<1> QED BY <1>1, <1>2

\* NoCall and NoDevice are neither a call nor a device.
LEMMA CallIsNone ==
  /\ NoCall.stage = "none" /\ NoCall \notin Calls
  /\ NoDevice \notin Devices /\ NoDevice.of = 0
<1>1. NoCall.stage = "none"
  BY DEF NoCall
<1>2. NoCall \notin Calls
  BY <1>1 DEF Calls
<1>3. NoDevice.of = 0
  BY DEF NoDevice
<1>4. NoDevice \notin Devices
  BY <1>3 DEF Devices
<1> QED BY <1>1, <1>2, <1>3, <1>4

LEMMA TypesImply == DeviceTypes => DeviceTypeOK
<1> SUFFICES ASSUME DeviceTypes PROVE DeviceTypeOK
  OBVIOUS
<1> USE DEF DeviceTypes
<1>1. /\ machine \in MachinesOf[env] /\ {instance, overwritten} \subseteq BOOLEAN
      /\ {known, described} \subseteq 0 .. Len(machine)
  BY DEF Setting
<1>2. /\ attempt.stage \in {"none", "requested", "created", "equipped"}
      /\ attempt.stage # "none" => /\ attempt.of \in 1 .. known
                                   /\ attempt.features \subseteq Features
                                   /\ attempt.extensions \subseteq Extensions
  <2>1. CASE attempt = NoCall
    BY <2>1, CallIsNone
  <2>2. CASE attempt \in Calls
    BY <2>2 DEF Calls
  <2> QED BY <2>1, <2>2 DEF Running
<1>3. Len(machine) \in Nat
  BY MachineType DEF Setting
<1>4. device.of \in 0 .. Len(machine) /\ (device \in Devices => device.of > 0)
  BY <1>3, CallIsNone DEF Holding, Devices
<1>5. {objects, remains} \subseteq SUBSET Object
  BY DEF Owning
<1>6. image = NoImage \/ (image.format \in BCn /\ device.of > 0)
  BY <1>4 DEF Holding, ImageShape
<1> QED BY <1>1, <1>2, <1>4, <1>5, <1>6 DEF DeviceTypeOK, Told

LEMMA DeviceTypesInit == DeviceInit => DeviceTypes
<1> SUFFICES ASSUME DeviceInit PROVE DeviceTypes
  OBVIOUS
<1>1. /\ env \in Environments /\ machine \in MachinesOf[env] /\ Len(machine) \in Nat
      /\ 0 \in 0 .. Len(machine)
  BY MachineType DEF DeviceInit
<1> QED BY <1>1 DEF DeviceInit, DeviceTypes, Setting, Running, Holding, Owning, Told, NoAnswer

\* The steps of the way to a device and back, for what they choose.
DeviceStep ==
  \/ CreateInstance \/ DestroyInstance
  \/ \E room \in DOMAIN machine : EnumeratePhysicalDevices(room)
  \/ \E p \in 1 .. known, f \in AsksOf[env] : \E answers : Ask(p, f, answers)
  \/ \E p \in 1 .. known, gives \in GivesOf[env] :
       \E wants : /\ wants = {} \/ wants = Reported(p)
                  /\ RequestDevice(p, gives, wants, ExtensionsFor(p, wants))
  \/ DriverRefuses \/ DriverCreates
  \/ \E i \in DOMAIN Checked : PipelinesFail(i)
  \/ \E missing : PipelinesCreated(missing)
  \/ RegisterDevice \/ DestroyDevice
  \/ \E f \in AsksOf[env], type \in {"2D", "3D"}, listed \in BOOLEAN : CreateImage(f, type, listed)
  \/ \E g \in BCn : CreateImageView(g)
  \/ DestroyImage

LEMMA DeviceSteps == DeviceNext => DeviceStep
<1> SUFFICES ASSUME DeviceNext PROVE DeviceStep
  OBVIOUS
<1>1. ASSUME NEW p \in 1 .. known, NEW f \in AsksOf[env], AskFormat(p, f)
      PROVE  DeviceStep
  BY <1>1 DEF AskFormat, DeviceStep
<1>2. ASSUME NEW p \in 1 .. known, NEW f \in AsksOf[env], NEW k \in KindsOf[env],
             AskImageFormat(p, f, k)
      PROVE  DeviceStep
  <2>1. \E answers : Ask(p, f, answers)
    BY <1>2 DEF AskImageFormat
  <2> QED BY <2>1 DEF DeviceStep
<1>3. ASSUME NEW p \in 1 .. known, NEW gives \in GivesOf[env], NEW all \in BOOLEAN,
             LET wants == IF all THEN Reported(p) ELSE {}
             IN RequestDevice(p, gives, wants, ExtensionsFor(p, wants))
      PROVE  DeviceStep
  <2>1. \E wants : /\ wants = {} \/ wants = Reported(p)
                   /\ RequestDevice(p, gives, wants, ExtensionsFor(p, wants))
    BY <1>3
  <2> QED BY <2>1 DEF DeviceStep
<1> QED BY <1>1, <1>2, <1>3 DEF DeviceNext, DeviceStep

\* What the layer asks of the driver is a set of features, and of extensions.
LEMMA RequestType ==
  ASSUME Setting, NEW p \in 1 .. known, NEW gives, NEW wants,
         wants = {} \/ wants = Reported(p)
  PROVE  /\ wants \in SUBSET Features
         /\ CoreRequest(p, gives, wants) \cup ChainRequest(p, wants) \in SUBSET Features
         /\ ExtensionRequest(p, ExtensionsFor(p, wants)) \in SUBSET Extensions
         /\ ToEtc2 \in BOOLEAN /\ ToAstc(p) \in BOOLEAN /\ DebugAstc(p) \in BOOLEAN
<1>1. machine[p] \in PhysicalDevice
  BY MachineType DEF Setting
<1>2. wants \in SUBSET Features
  BY <1>1 DEF PhysicalDevice, Reported, Features
<1>3. CoreRequest(p, gives, wants) \in SUBSET Features
  BY <1>2 DEF CoreRequest, Features
<1>4. ChainRequest(p, wants) \in SUBSET Features
  BY <1>2 DEF ChainRequest, Features
<1>5. ExtensionRequest(p, ExtensionsFor(p, wants)) \in SUBSET Extensions
  <2>1. ExtensionsFor(p, wants) \in SUBSET Extensions
    BY DEF ExtensionsFor, Extensions
  <2> QED BY <2>1 DEF ExtensionRequest, Extensions
<1>6. ToEtc2 \in BOOLEAN /\ ToAstc(p) \in BOOLEAN /\ DebugAstc(p) \in BOOLEAN
  BY DEF ToEtc2, ToAstc, DebugAstc
<1> QED BY <1>2, <1>3, <1>4, <1>5, <1>6

\* Objects of each kind are objects.
LEMMA ObjectTypes ==
  /\ Shaders \subseteq {"s3tc", "rgtc", "bc6", "bc7", "etc2", "watermark", "astc", "analyze"}
  /\ Modules \in SUBSET Object /\ Pipelines \in SUBSET Object /\ Tables \in SUBSET Object
  /\ Pools \in SUBSET Object
  /\ \A i : Unchecked(i) \in SUBSET Object
  /\ \A i \in 1 .. 7 : Before(i) \in SUBSET Object
<1>1. Shaders \subseteq {"s3tc", "rgtc", "bc6", "bc7", "etc2", "watermark", "astc", "analyze"}
  BY DEF Shaders
<1>2. Modules \in SUBSET Object /\ Pipelines \in SUBSET Object
  BY <1>1 DEF Modules, Pipelines, Object
<1>3. Tables \in SUBSET Object /\ Pools \in SUBSET Object
  BY DEF Tables, Pools, Object
<1>4. ASSUME NEW i PROVE Unchecked(i) \in SUBSET Object
  BY <1>2 DEF Unchecked, Object
<1>5. \A j \in 1 .. 6 : Checked[j] \in SUBSET Object
  <2>1. {<<"setLayout", "bcn">>, <<"setLayout", "etc2">>, <<"setLayout", "analyze">>,
         <<"layout", "bcn">>, <<"layout", "etc2">>} \in SUBSET Object
    BY DEF Object
  <2> QED BY <1>2, <2>1 DEF Checked
<1>6. ASSUME NEW i \in 1 .. 7 PROVE Before(i) \in SUBSET Object
  <2>1. \A j \in 1 .. i - 1 : j \in 1 .. 6
    OBVIOUS
  <2> QED BY <1>4, <1>5, <2>1 DEF Before
<1> QED BY <1>1, <1>2, <1>3, <1>4, <1>5, <1>6

\* A step that leaves the call, the device and the image alone, and does not end
\* the instance under a call, keeps what is said of them.
LEMMA CallKept ==
  ASSUME DeviceTypes, UNCHANGED <<machine, attempt, device, image>>,
         known' \in Nat, attempt # NoCall => known <= known' /\ instance'
  PROVE  Running' /\ Holding'
<1>1. Running'
  <2>1. CASE attempt = NoCall
    BY <2>1 DEF Running
  <2>2. CASE attempt # NoCall
    <3>1. known \in Int /\ \A i \in 1 .. known : i \in 1 .. known'
      BY <2>2, MachineType DEF DeviceTypes, Setting
    <3>2. attempt \in Calls /\ instance' /\ device' = NoDevice
      BY <2>2 DEF DeviceTypes, Running
    <3>3. attempt' \in Calls'
      BY <3>1, <3>2 DEF Calls
    <3> QED BY <3>2, <3>3 DEF Running
  <2> QED BY <2>1, <2>2
<1>2. Holding'
  BY DEF DeviceTypes, Holding, Devices, ImageShape, ImageFields
<1> QED BY <1>1, <1>2

LEMMA SurroundingsTypes ==
  ASSUME DeviceTypes,
         \/ CreateInstance \/ DestroyInstance
         \/ \E room \in DOMAIN machine : EnumeratePhysicalDevices(room)
         \/ \E p \in 1 .. known, f \in AsksOf[env] : \E answers : Ask(p, f, answers)
  PROVE  DeviceTypes'
<1>0. /\ env \in Environments /\ machine \in MachinesOf[env] /\ Len(machine) \in Nat
      /\ machine \in Seq(PhysicalDevice)
      /\ known \in 0 .. Len(machine) /\ described \in 0 .. Len(machine)
      /\ 0 \in 0 .. Len(machine)
  BY MachineType DEF DeviceTypes, Setting
<1>1. CASE CreateInstance
  <2>1. attempt = NoCall
    BY <1>1 DEF CreateInstance, DeviceTypes, Running
  <2>2. Running' /\ Holding'
    BY <1>1, <2>1, CallKept DEF CreateInstance
  <2>3. Setting'
    BY <1>0, <1>1 DEF CreateInstance, DeviceTypes, Setting
  <2> QED BY <1>1, <2>2, <2>3 DEF CreateInstance, DeviceTypes, Owning, Told
<1>2. CASE DestroyInstance
  <2>1. Running' /\ Holding'
    BY <1>2, CallKept DEF DestroyInstance
  <2>2. Setting'
    BY <1>0, <1>2 DEF DestroyInstance, DeviceTypes, Setting
  <2> QED BY <1>0, <1>2, <2>1, <2>2 DEF DestroyInstance, DeviceTypes, Owning, Told, NoAnswer
<1>3. ASSUME NEW room \in DOMAIN machine, EnumeratePhysicalDevices(room)
      PROVE  DeviceTypes'
  <2>1. room \in 1 .. Len(machine)
    BY <1>0
  <2>2. known' \in 0 .. Len(machine) /\ known <= known'
    BY <1>0, <1>3, <2>1 DEF EnumeratePhysicalDevices, Larger
  <2>3. described' \in 0 .. Len(machine)
    BY <1>0, <1>3 DEF EnumeratePhysicalDevices
  <2>4. Running' /\ Holding'
    BY <1>0, <1>3, <2>2, CallKept DEF EnumeratePhysicalDevices
  <2>5. Setting'
    BY <1>0, <1>3, <2>2, <2>3 DEF EnumeratePhysicalDevices, DeviceTypes, Setting
  <2> QED BY <1>3, <2>4, <2>5 DEF EnumeratePhysicalDevices, DeviceTypes, Owning, Told
<1>4. ASSUME NEW p \in 1 .. known, NEW f \in AsksOf[env], NEW answers, Ask(p, f, answers)
      PROVE  DeviceTypes'
  <2>1. Running' /\ Holding'
    BY <1>0, <1>4, CallKept DEF Ask
  <2>2. Setting'
    BY <1>4 DEF Ask, DeviceTypes, Setting
  <2>3. told'.of = p
    BY <1>4 DEF Ask
  <2>4. p \in 0 .. Len(machine)
    BY <1>0
  <2> QED BY <1>4, <2>1, <2>2, <2>3, <2>4 DEF Ask, DeviceTypes, Owning, Told
<1> QED BY <1>1, <1>2, <1>3, <1>4

LEMMA CallTypes ==
  ASSUME DeviceTypes,
         \/ \E p \in 1 .. known, gives \in GivesOf[env] :
              \E wants : /\ wants = {} \/ wants = Reported(p)
                         /\ RequestDevice(p, gives, wants, ExtensionsFor(p, wants))
         \/ DriverRefuses \/ DriverCreates
         \/ \E i \in DOMAIN Checked : PipelinesFail(i)
         \/ \E missing : PipelinesCreated(missing)
         \/ RegisterDevice
  PROVE  DeviceTypes'
<1>0. /\ env \in Environments /\ machine \in MachinesOf[env] /\ Len(machine) \in Nat
      /\ known \in 0 .. Len(machine) /\ described \in 0 .. Len(machine)
      /\ AsksOf[env] \subseteq BCn /\ GivesOf[env] \subseteq Gives
  BY MachineType DEF DeviceTypes, Setting
<1>1. UNCHANGED <<env, machine, instance, known, described, image, told, overwritten>>
  BY DEF RequestDevice, DriverRefuses, DriverCreates, PipelinesFail, PipelinesCreated,
         RegisterDevice
<1>2. Setting' /\ Told'
  BY <1>1 DEF DeviceTypes, Setting, Told
<1>3. Calls' = Calls /\ Devices' = Devices
  BY <1>1 DEF Calls, Devices
<1>4. attempt # NoCall => attempt \in Calls /\ instance /\ device = NoDevice /\ image = NoImage
  BY CallIsNone DEF DeviceTypes, Running, Holding
<1>5. ASSUME UNCHANGED device PROVE Holding'
  BY <1>1, <1>5 DEF DeviceTypes, Holding, Devices, ImageShape, ImageFields
<1>6. objects \in SUBSET Object /\ remains \in SUBSET Object
  BY DEF DeviceTypes, Owning
<1>7. ASSUME NEW p \in 1 .. known, NEW gives \in GivesOf[env], NEW wants,
             wants = {} \/ wants = Reported(p),
             RequestDevice(p, gives, wants, ExtensionsFor(p, wants))
      PROVE  DeviceTypes'
  <2> DEFINE core == CoreRequest(p, gives, wants) \cup ChainRequest(p, wants)
             extensions == ExtensionRequest(p, ExtensionsFor(p, wants))
             etc2 == ToEtc2
             astc == ToAstc(p)
             debug == DebugAstc(p)
  <2>1. /\ wants \in SUBSET Features /\ core \in SUBSET Features
        /\ extensions \in SUBSET Extensions
        /\ etc2 \in BOOLEAN /\ astc \in BOOLEAN /\ debug \in BOOLEAN
    <3>1. Setting
      BY DEF DeviceTypes
    <3> QED BY <1>7, <3>1, RequestType
  <2>2. /\ attempt' = [stage |-> "requested", of |-> p, gives |-> gives, wants |-> wants,
                       described |-> described, etc2 |-> etc2, astc |-> astc, debug |-> debug,
                       features |-> core, extensions |-> extensions, missing |-> {}]
        /\ instance /\ device = NoDevice /\ UNCHANGED <<device, objects>> /\ remains' = {}
    BY <1>7 DEF RequestDevice
  <2>3. gives \in Gives
    BY <1>0
  <2> HIDE DEF core, extensions, etc2, astc, debug
  <2>4. attempt' \in Calls
    BY <1>0, <2>1, <2>2, <2>3 DEF Calls
  <2>5. Running'
    BY <1>1, <1>3, <2>2, <2>4 DEF Running
  <2> QED BY <1>2, <1>5, <1>6, <2>2, <2>5 DEF DeviceTypes, Owning
<1>8. CASE DriverRefuses
  BY <1>2, <1>5, <1>6, <1>8 DEF DriverRefuses, DeviceTypes, Running, Owning
<1>9. CASE DriverCreates
  <2>1. attempt \in Calls /\ instance /\ device = NoDevice
    BY <1>4, <1>9, CallIsNone DEF DriverCreates
  <2>2. attempt' \in Calls
    BY <1>0, <1>9, <2>1 DEF DriverCreates, Calls
  <2>3. {<<"device", "device">>} \in SUBSET Object
    BY DEF Object
  <2> QED BY <1>1, <1>2, <1>3, <1>5, <1>9, <2>1, <2>2, <2>3
          DEF DriverCreates, DeviceTypes, Running, Owning
<1>10. ASSUME NEW i \in DOMAIN Checked, PipelinesFail(i)
       PROVE  DeviceTypes'
  <2>1. i \in 1 .. 7
    BY DEF Checked
  <2>2. remains' \in SUBSET Object
    BY <1>6, <1>10, <2>1, ObjectTypes DEF PipelinesFail
  <2> QED BY <1>2, <1>5, <1>10, <2>2 DEF PipelinesFail, DeviceTypes, Running, Owning
<1>11. ASSUME NEW missing, PipelinesCreated(missing)
       PROVE  DeviceTypes'
  <2>1. attempt \in Calls /\ instance /\ device = NoDevice
    BY <1>4, <1>11, CallIsNone DEF PipelinesCreated
  <2>2. missing \in SUBSET Object
    BY <1>11, ObjectTypes DEF PipelinesCreated
  <2>3. objects' \in SUBSET Object
    <3>1. Before(7) \in SUBSET Object /\ Tables \in SUBSET Object
      BY ObjectTypes
    <3> QED BY <1>6, <1>11, <3>1 DEF PipelinesCreated
  <2>4. attempt' = [attempt EXCEPT !.stage = "equipped", !.missing = missing]
    BY <1>11 DEF PipelinesCreated
  <2>5. attempt' \in Calls
    BY <2>1, <2>2, <2>4 DEF Calls
  <2>6. UNCHANGED device /\ remains' = {}
    BY <1>11 DEF PipelinesCreated
  <2>7. Running'
    BY <1>1, <1>3, <2>1, <2>5, <2>6 DEF Running
  <2> QED BY <1>2, <1>5, <2>3, <2>6, <2>7 DEF DeviceTypes, Owning
<1>12. CASE RegisterDevice
  <2>1. attempt \in Calls /\ instance /\ device = NoDevice /\ image = NoImage
    BY <1>4, <1>12, CallIsNone DEF RegisterDevice
  <2>2. PoolSizes \in [images : Nat, buffers : Nat] /\ UseImageView \in BOOLEAN
    BY DEF PoolSizes, UseImageView, MaxSets, BufferMultiplier
  <2>3. attempt.of \in 1 .. Len(machine)
    BY <1>0, <2>1 DEF Calls
  <2> DEFINE sizes == PoolSizes
             view == UseImageView
  <2>4. device' = [of |-> attempt.of, described |-> attempt.described, etc2 |-> attempt.etc2,
                   astc |-> attempt.astc, debug |-> attempt.debug, imageView |-> view,
                   gives |-> attempt.gives, enabled |-> attempt.features, poolSizes |-> sizes,
                   missing |-> attempt.missing]
    BY <1>12 DEF RegisterDevice
  <2> HIDE DEF sizes, view
  <2>5. device' \in Devices
    <3>1. sizes \in [images : Nat, buffers : Nat] /\ view \in BOOLEAN
      BY <2>2 DEF sizes, view
    <3> QED BY <2>1, <2>3, <2>4, <3>1 DEF Calls, Devices
  <2>6. objects' \in SUBSET Object
    BY <1>6, <1>12, ObjectTypes DEF RegisterDevice
  <2> QED BY <1>1, <1>2, <1>3, <1>12, <2>1, <2>5, <2>6
          DEF RegisterDevice, DeviceTypes, Running, Holding, Owning
<1> QED BY <1>7, <1>8, <1>9, <1>10, <1>11, <1>12

LEMMA ImageTypes ==
  ASSUME DeviceTypes,
         \/ DestroyDevice \/ DestroyImage
         \/ \E f \in AsksOf[env], type \in {"2D", "3D"}, listed \in BOOLEAN : CreateImage(f, type, listed)
         \/ \E g \in BCn : CreateImageView(g)
  PROVE  DeviceTypes'
<1>0. Len(machine) \in Nat /\ AsksOf[env] \subseteq BCn
  BY MachineType DEF DeviceTypes, Setting
<1>1. UNCHANGED <<env, machine, instance, known, described, attempt>> /\ overwritten' \in BOOLEAN
  <2>0. overwritten \in BOOLEAN
    BY DEF DeviceTypes, Setting
  <2>1. CASE DestroyDevice \/ DestroyImage
    BY <2>0, <2>1 DEF DestroyDevice, DestroyImage
  <2>2. ASSUME NEW f \in AsksOf[env], NEW type, NEW listed \in BOOLEAN, CreateImage(f, type, listed)
        PROVE  UNCHANGED <<env, machine, instance, known, described, attempt>>
               /\ overwritten' \in BOOLEAN
    BY <2>0, <2>2 DEF CreateImage
  <2>3. ASSUME NEW g \in BCn, CreateImageView(g)
        PROVE  UNCHANGED <<env, machine, instance, known, described, attempt>>
               /\ overwritten' \in BOOLEAN
    BY <2>0, <2>3 DEF CreateImageView
  <2> QED BY <2>1, <2>2, <2>3
<1>2. Setting' /\ Calls' = Calls /\ Devices' = Devices
  BY <1>1 DEF DeviceTypes, Setting, Calls, Devices
<1>3. Told'
  <2>1. told' = told \/ told' = NoAnswer
    BY DEF DestroyDevice, DestroyImage, CreateImage, CreateImageView
  <2>2. NoAnswer.of = 0
    BY DEF NoAnswer
  <2> QED BY <1>0, <1>1, <2>1, <2>2 DEF DeviceTypes, Told
<1>4. Owning'
  BY DEF DestroyDevice, DestroyImage, CreateImage, CreateImageView, DeviceTypes, Owning
<1>5. Running'
  BY <1>1, <1>2 DEF DestroyDevice, DestroyImage, CreateImage, CreateImageView, DeviceTypes,
                    Running
<1>6. Holding'
  <2>1. CASE DestroyDevice
    BY <1>2, <2>1 DEF DestroyDevice, Holding
  <2>2. CASE DestroyImage
    BY <1>2, <2>2 DEF DestroyImage, DeviceTypes, Holding
  <2>3. ASSUME NEW f \in AsksOf[env], NEW type, NEW listed \in BOOLEAN, CreateImage(f, type, listed)
        PROVE  Holding'
    <3>1. device \in Devices /\ device' = device
      BY <2>3 DEF CreateImage, DeviceTypes, Holding
    <3> DEFINE decoded == is_supported_bcn_format(bcn_compute_auto, Maps(device.described), f)
               etc2    == decoded /\ device.etc2 /\ type # "3D"
               astc    == decoded /\ ~ etc2 /\ device.astc /\ type # "3D"
    <3>2. PICK formats :
            image' = [format |-> f, decoded |-> decoded, etc2 |-> etc2, astc |-> astc,
                      target |-> IF decoded THEN Transcoded(etc2, astc, f) ELSE f,
                      views |-> {IF decoded THEN Transcoded(etc2, astc, g) ELSE g : g \in formats},
                      stale |-> listed /\ overwritten,
                      answer |-> IF told.of = device.of /\ told.format = f THEN told ELSE NoAnswer]
      BY <2>3 DEF CreateImage
    <3> HIDE DEF decoded, etc2, astc
    <3>3. ImageShape'
      BY <1>0, <3>2 DEF ImageShape, ImageFields
    <3> QED BY <1>2, <3>1, <3>3 DEF Holding
  <2>4. ASSUME NEW g \in BCn, CreateImageView(g) PROVE Holding'
    <3>1. ImageShape /\ device \in Devices /\ device' = device
      BY <2>4 DEF CreateImageView, DeviceTypes, Holding
    <3>2. \E views : image' = [image EXCEPT !.views = views]
      BY <2>4 DEF CreateImageView
    <3>3. ImageShape'
      BY <3>1, <3>2 DEF ImageShape, ImageFields
    <3> QED BY <1>2, <3>1, <3>3 DEF Holding
  <2> QED BY <2>1, <2>2, <2>3, <2>4
<1> QED BY <1>2, <1>3, <1>4, <1>5, <1>6 DEF DeviceTypes

LEMMA DeviceTypesStep == DeviceTypes /\ [DeviceNext]_deviceVars => DeviceTypes'
<1> SUFFICES ASSUME DeviceTypes, [DeviceNext]_deviceVars PROVE DeviceTypes'
  OBVIOUS
<1>1. CASE DeviceStep
  BY <1>1, SurroundingsTypes, CallTypes, ImageTypes DEF DeviceStep
<1>2. CASE UNCHANGED deviceVars
  BY <1>2 DEF deviceVars, DeviceTypes, Setting, Running, Calls, Holding, Devices, ImageShape,
              Owning, Told
<1> QED BY <1>1, <1>2, DeviceSteps

\* The types of the variables of DeviceSession hold in every state.
THEOREM DeviceTyped == DeviceSpec => []DeviceTypeOK
BY DeviceTypesInit, DeviceTypesStep, TypesImply, PTL DEF DeviceSpec

-----------------------------------------------------------------------------
(* Questions and images.                                                   *)

\* Which steps leave which variables alone.
LEMMA LeftAlone ==
  ASSUME DeviceStep
  PROVE  /\ UNCHANGED <<env, machine>>
         /\ \/ UNCHANGED <<told, image>>
            \/ DestroyInstance \/ DestroyDevice \/ DestroyImage
            \/ \E p \in 1 .. known, f \in AsksOf[env] : \E answers : Ask(p, f, answers)
            \/ \E f \in AsksOf[env], type \in {"2D", "3D"}, listed \in BOOLEAN :
                 CreateImage(f, type, listed)
            \/ \E g \in BCn : CreateImageView(g)
         /\ \/ UNCHANGED attempt
            \/ \E p \in 1 .. known, gives \in GivesOf[env] :
                 \E wants : /\ wants = {} \/ wants = Reported(p)
                            /\ RequestDevice(p, gives, wants, ExtensionsFor(p, wants))
            \/ DriverRefuses \/ DriverCreates
            \/ \E i \in DOMAIN Checked : PipelinesFail(i)
            \/ \E missing : PipelinesCreated(missing)
            \/ RegisterDevice
         /\ UNCHANGED device \/ RegisterDevice \/ DestroyDevice
         /\ \/ UNCHANGED objects /\ remains' = {}
            \/ DriverCreates \/ RegisterDevice \/ DestroyDevice
            \/ \E i \in DOMAIN Checked : PipelinesFail(i)
            \/ \E missing : PipelinesCreated(missing)
<1>1. CASE CreateInstance
  BY <1>1 DEF CreateInstance
<1>2. CASE DestroyInstance
  BY <1>2 DEF DestroyInstance
<1>3. ASSUME NEW room, EnumeratePhysicalDevices(room)
      PROVE  UNCHANGED <<env, machine, told, image, attempt, device, objects>> /\ remains' = {}
  BY <1>3 DEF EnumeratePhysicalDevices
<1>4. ASSUME NEW p, NEW f, NEW answers, Ask(p, f, answers)
      PROVE  UNCHANGED <<env, machine, attempt, device, objects>> /\ remains' = {}
  BY <1>4 DEF Ask
<1>5. ASSUME NEW p, NEW gives, NEW wants, NEW has, RequestDevice(p, gives, wants, has)
      PROVE  UNCHANGED <<env, machine, told, image, device, objects>> /\ remains' = {}
  BY <1>5 DEF RequestDevice
<1>6. CASE DriverRefuses
  BY <1>6 DEF DriverRefuses
<1>7. CASE DriverCreates
  BY <1>7 DEF DriverCreates
<1>8. ASSUME NEW i, PipelinesFail(i)
      PROVE  UNCHANGED <<env, machine, told, image, device>>
  BY <1>8 DEF PipelinesFail
<1>9. ASSUME NEW missing, PipelinesCreated(missing)
      PROVE  UNCHANGED <<env, machine, told, image, device>>
  BY <1>9 DEF PipelinesCreated
<1>10. CASE RegisterDevice
  BY <1>10 DEF RegisterDevice
<1>11. CASE DestroyDevice
  BY <1>11 DEF DestroyDevice
<1>12. ASSUME NEW f, NEW type, NEW listed, CreateImage(f, type, listed)
       PROVE  UNCHANGED <<env, machine, attempt, device, objects>> /\ remains' = {}
  BY <1>12 DEF CreateImage
<1>13. ASSUME NEW g, CreateImageView(g)
       PROVE  UNCHANGED <<env, machine, attempt, device, objects>> /\ remains' = {}
  BY <1>13 DEF CreateImageView
<1>14. CASE DestroyImage
  BY <1>14 DEF DestroyImage
<1> QED BY <1>1, <1>2, <1>3, <1>4, <1>5, <1>6, <1>7, <1>8, <1>9, <1>10, <1>11, <1>12, <1>13,
           <1>14 DEF DeviceStep

\* What is remembered of an answer and of an image is what the two conditions
\* said of their formats.
AnswerTrue(a) == a.byLayer = AnsweredByLayer(bcn_compute_auto, Maps(a.described), a.format)
ToldTrue == told # NoAnswer => AnswerTrue(told)
ImageTrue ==
  image # NoImage =>
    /\ image.decoded = is_supported_bcn_format(bcn_compute_auto, Maps(device.described), image.format)
    /\ image.answer # NoAnswer => image.answer.format = image.format /\ AnswerTrue(image.answer)
Answering == ToldTrue /\ ImageTrue

LEMMA AnsweringImplies == DeviceTypes /\ Answering => AnswersHonoured
<1> SUFFICES ASSUME DeviceTypes, Answering, image # NoImage, image.answer # NoAnswer,
                    image.answer.described = device.described,
                    ~ (bcn_compute_auto /\ BetweenVersions(Maps(device.described)))
             PROVE  image.decoded = image.answer.byLayer
  BY DEF AnswersHonoured
<1>1. device.described \in 0 .. Len(machine)
  BY DEF DeviceTypes, Holding, Devices
<1>2. Maps(device.described).driverVersion \in Nat
  BY <1>1, MapsType DEF DeviceTypes, Setting
<1>3. /\ image.decoded = is_supported_bcn_format(bcn_compute_auto, Maps(device.described), image.format)
      /\ image.answer.byLayer
           = AnsweredByLayer(bcn_compute_auto, Maps(device.described), image.format)
  BY DEF Answering, ImageTrue, AnswerTrue
<1> DEFINE version == Maps(device.described).driverVersion
           driver == Maps(device.described).driverID
<1>4. bcn_compute_auto /\ driver = "QUALCOMM"
        => (version > Qualcomm502 <=> version > Qualcomm530)
  BY <1>2 DEF BetweenVersions, Qualcomm502, Qualcomm530
<1>5. Excluded(bcn_compute_auto, Maps(device.described), image.format, Qualcomm502)
        <=> Excluded(bcn_compute_auto, Maps(device.described), image.format, Qualcomm530)
  BY <1>4 DEF Excluded
<1> QED BY <1>3, <1>5 DEF is_supported_bcn_format, AnsweredByLayer

LEMMA AnsweringStep ==
  ASSUME DeviceTypes, Answering, [DeviceNext]_deviceVars
  PROVE  Answering'
<1>0. UNCHANGED <<env, machine>>
  BY DeviceSteps, LeftAlone DEF deviceVars
<1>1. \A i : Maps(i)' = Maps(i)
  BY <1>0 DEF Maps
<1>2. bcn_compute_auto' = bcn_compute_auto
  BY <1>0 DEF bcn_compute_auto
<1>3. \A a : AnswerTrue(a)' <=> AnswerTrue(a)
  BY <1>1, <1>2 DEF AnswerTrue
<1>4. ASSUME UNCHANGED <<told, image, device>> PROVE Answering'
  BY <1>1, <1>2, <1>3, <1>4 DEF Answering, ToldTrue, ImageTrue
<1>5. CASE UNCHANGED deviceVars
  BY <1>4, <1>5 DEF deviceVars
<1>6. CASE DeviceStep
  <2>1. CASE DestroyInstance \/ DestroyDevice \/ DestroyImage
    <3>1. told' \in {told, NoAnswer}
      BY <2>1 DEF DestroyInstance, DestroyDevice, DestroyImage
    <3>2. image' = NoImage \/ UNCHANGED <<image, device>>
      BY <2>1 DEF DestroyInstance, DestroyDevice, DestroyImage
    <3> QED BY <1>1, <1>2, <1>3, <3>1, <3>2 DEF Answering, ToldTrue, ImageTrue
  <2>2. ASSUME NEW p, NEW f, NEW answers, Ask(p, f, answers)
        PROVE  Answering'
    <3>1. /\ told'.described = described /\ told'.format = f
          /\ told'.byLayer = AnsweredByLayer(bcn_compute_auto, Maps(described), f)
          /\ UNCHANGED <<image, device>>
      BY <2>2 DEF Ask
    <3>2. ToldTrue'
      BY <1>1, <1>2, <3>1 DEF ToldTrue, AnswerTrue
    <3> QED BY <1>1, <1>2, <1>3, <3>1, <3>2 DEF Answering, ImageTrue
  <2>3. ASSUME NEW f, NEW type, NEW listed, CreateImage(f, type, listed)
        PROVE  Answering'
    <3> DEFINE decoded == is_supported_bcn_format(bcn_compute_auto, Maps(device.described), f)
               etc2    == decoded /\ device.etc2 /\ type # "3D"
               astc    == decoded /\ ~ etc2 /\ device.astc /\ type # "3D"
    <3>1. PICK formats :
            image' = [format |-> f, decoded |-> decoded, etc2 |-> etc2, astc |-> astc,
                      target |-> IF decoded THEN Transcoded(etc2, astc, f) ELSE f,
                      views |-> {IF decoded THEN Transcoded(etc2, astc, g) ELSE g : g \in formats},
                      stale |-> listed /\ overwritten,
                      answer |-> IF told.of = device.of /\ told.format = f THEN told ELSE NoAnswer]
      BY <2>3 DEF CreateImage
    <3>2. told' = NoAnswer /\ UNCHANGED device
      BY <2>3 DEF CreateImage
    <3> HIDE DEF etc2, astc
    <3>3. /\ image'.format = f /\ image'.decoded = decoded
          /\ image'.answer # NoAnswer => image'.answer = told /\ told.format = f
      BY <3>1
    <3>4. ImageTrue'
      BY <1>1, <1>2, <1>3, <3>2, <3>3 DEF ImageTrue, Answering, ToldTrue
    <3> QED BY <3>2, <3>4 DEF Answering, ToldTrue
  <2>4. ASSUME NEW g, CreateImageView(g) PROVE Answering'
    <3>1. image # NoImage /\ UNCHANGED <<told, device>>
      BY <2>4 DEF CreateImageView
    <3>2. PICK views : image' = [image EXCEPT !.views = views]
      BY <2>4 DEF CreateImageView
    <3>3. ImageShape
      BY <3>1 DEF DeviceTypes, Holding
    <3>4. /\ image'.format = image.format /\ image'.decoded = image.decoded
          /\ image'.answer = image.answer
      BY <3>2, <3>3 DEF ImageShape, ImageFields
    <3> QED BY <1>1, <1>2, <1>3, <3>1, <3>4 DEF Answering, ToldTrue, ImageTrue
  <2>5. CASE UNCHANGED <<told, image>> /\ RegisterDevice
    <3>1. image' = NoImage
      BY <2>5, CallIsNone DEF RegisterDevice, DeviceTypes, Running, Holding
    <3> QED BY <1>3, <2>5, <3>1 DEF Answering, ToldTrue, ImageTrue
  <2> QED BY <1>4, <1>6, <2>1, <2>2, <2>3, <2>4, <2>5, LeftAlone
<1> QED BY <1>5, <1>6, DeviceSteps

\* The layer decodes the formats it answered for, and leaves those alone that it
\* did not, for drivers of any version outside the gap.
THEOREM AnswersAreHonoured == DeviceSpec => []AnswersHonoured
<1>1. DeviceInit => Answering
  BY DEF DeviceInit, Answering, ToldTrue, ImageTrue
<1> QED BY <1>1, DeviceTypesInit, DeviceTypesStep, AnsweringStep, AnsweringImplies, PTL DEF DeviceSpec

-----------------------------------------------------------------------------
(* What is asked of the driver, and what transcoding relies on.            *)

\* A request stays what it was until the driver answers it.
LEMMA CallAfter ==
  ASSUME DeviceTypes, DeviceStep
  PROVE  \/ UNCHANGED attempt
         \/ attempt' = NoCall
         \/ /\ attempt \in Calls /\ attempt' \in Calls' /\ attempt'.stage # "requested"
            /\ \/ DriverCreates
               \/ \E missing : PipelinesCreated(missing) /\ attempt'.missing = missing
            /\ attempt'.etc2 = attempt.etc2 /\ attempt'.astc = attempt.astc
            /\ attempt'.debug = attempt.debug /\ attempt'.gives = attempt.gives
            /\ attempt'.features = attempt.features
         \/ \E p \in 1 .. known, gives \in GivesOf[env] :
              \E wants : /\ wants = {} \/ wants = Reported(p)
                         /\ RequestDevice(p, gives, wants, ExtensionsFor(p, wants))
<1>1. CASE DriverRefuses
  BY <1>1 DEF DriverRefuses
<1>2. CASE DriverCreates
  <2>1. attempt \in Calls
    BY <1>2, CallIsNone DEF DriverCreates, DeviceTypes, Running
  <2>2. attempt' = [attempt EXCEPT !.stage = "created", !.described = described]
    BY <1>2 DEF DriverCreates
  <2>3. /\ attempt'.stage = "created"
        /\ attempt'.etc2 = attempt.etc2 /\ attempt'.astc = attempt.astc
        /\ attempt'.debug = attempt.debug /\ attempt'.gives = attempt.gives
        /\ attempt'.features = attempt.features
    BY <2>1, <2>2 DEF Calls
  <2>4. attempt' \in Calls'
    <3>1. DeviceTypes'
      BY DeviceTypesStep, DeviceSteps, CallTypes, <1>2
    <3> QED BY <2>3, <3>1, CallIsNone DEF DeviceTypes, Running
  <2> QED BY <1>2, <2>1, <2>3, <2>4
<1>3. ASSUME NEW i \in DOMAIN Checked, PipelinesFail(i)
      PROVE  attempt' = NoCall
  BY <1>3 DEF PipelinesFail
<1>4. ASSUME NEW missing, PipelinesCreated(missing)
      PROVE  /\ attempt \in Calls /\ attempt' \in Calls' /\ attempt'.stage # "requested"
             /\ attempt'.missing = missing
             /\ attempt'.etc2 = attempt.etc2 /\ attempt'.astc = attempt.astc
             /\ attempt'.debug = attempt.debug /\ attempt'.gives = attempt.gives
             /\ attempt'.features = attempt.features
  <2>1. attempt \in Calls
    BY <1>4, CallIsNone DEF PipelinesCreated, DeviceTypes, Running
  <2>2. attempt' = [attempt EXCEPT !.stage = "equipped", !.missing = missing]
    BY <1>4 DEF PipelinesCreated
  <2>3. /\ attempt'.stage = "equipped" /\ attempt'.missing = missing
        /\ attempt'.etc2 = attempt.etc2 /\ attempt'.astc = attempt.astc
        /\ attempt'.debug = attempt.debug /\ attempt'.gives = attempt.gives
        /\ attempt'.features = attempt.features
    BY <2>1, <2>2 DEF Calls
  <2>4. attempt' \in Calls'
    <3>1. DeviceTypes'
      BY CallTypes, <1>4
    <3> QED BY <2>3, <3>1, CallIsNone DEF DeviceTypes, Running
  <2> QED BY <2>1, <2>3, <2>4
<1>5. CASE RegisterDevice
  BY <1>5 DEF RegisterDevice
<1> QED BY <1>1, <1>2, <1>3, <1>4, <1>5, LeftAlone

\* The features and extensions asked for, when the maps describe the device.
LEMMA RequestIsSupported ==
  ASSUME Setting, NEW p \in 1 .. known, NEW gives, NEW wants,
         wants = {} \/ wants = Reported(p), described = p
  PROVE  /\ CoreRequest(p, gives, wants) \cup ChainRequest(p, wants)
              \subseteq machine[p].features \cup EnabledUnseen
         /\ ExtensionsFor(p, CoreRequest(p, gives, wants) \cup ChainRequest(p, wants))
              \subseteq ExtensionRequest(p, ExtensionsFor(p, wants))
<1>1. Maps(described) = machine[p]
  BY MachineType DEF Maps, Setting
<1>2. wants \subseteq machine[p].features \cup {"textureCompressionBC"}
  BY DEF Reported
<1>3. BufferFeatures(p) \subseteq machine[p].features
  BY DEF BufferFeatures
<1>4. CoreRequest(p, gives, wants) \subseteq machine[p].features \cup EnabledUnseen
  BY <1>1, <1>2 DEF CoreRequest, ToEtc2, ToAstc, EnabledUnseen, CoreFeatures
<1>5. ChainRequest(p, wants) \subseteq machine[p].features \cup EnabledUnseen
  BY <1>2, <1>3 DEF ChainRequest, ToAstc, Has8BitSupport, HasFaultSupport, EnabledUnseen,
                    CoreFeatures
<1> DEFINE asked == CoreRequest(p, gives, wants) \cup ChainRequest(p, wants)
<1>6. /\ "storageBuffer8BitAccess" \in asked => "storageBuffer8BitAccess" \in wants \/ ToAstc(p)
      /\ "shaderInt8" \in asked => "shaderInt8" \in wants \/ ToAstc(p)
      /\ "shaderFloat16" \in asked => "shaderFloat16" \in wants \/ ToAstc(p)
      /\ "int64Atomics" \in asked => "int64Atomics" \in wants \/ DebugAstc(p)
      /\ "deviceFault" \in asked => "deviceFault" \in wants \/ HasFaultSupport(p)
  BY DEF CoreRequest, ChainRequest, CoreFeatures
<1> HIDE DEF asked
<1>7. ExtensionsFor(p, asked) \subseteq ExtensionRequest(p, ExtensionsFor(p, wants))
  BY <1>1, <1>6 DEF ExtensionsFor, ExtensionRequest
<1> QED BY <1>4, <1>5, <1>7 DEF asked

LEMMA RequestsStep ==
  ASSUME DeviceTypes, RequestsSupported, [DeviceNext]_deviceVars
  PROVE  RequestsSupported'
<1>1. ASSUME UNCHANGED <<machine, attempt>> PROVE RequestsSupported'
  BY <1>1 DEF RequestsSupported, ExtensionsFor
<1>2. CASE UNCHANGED deviceVars
  BY <1>1, <1>2 DEF deviceVars
<1>3. CASE DeviceStep
  <2>1. UNCHANGED machine
    BY <1>3, LeftAlone
  <2>2. ASSUME attempt'.stage # "requested" PROVE RequestsSupported'
    BY <2>2 DEF RequestsSupported
  <2>3. ASSUME NEW p \in 1 .. known, NEW gives \in GivesOf[env], NEW wants,
               wants = {} \/ wants = Reported(p),
               RequestDevice(p, gives, wants, ExtensionsFor(p, wants))
        PROVE  RequestsSupported'
    <3> DEFINE asked == CoreRequest(p, gives, wants) \cup ChainRequest(p, wants)
               extensions == ExtensionRequest(p, ExtensionsFor(p, wants))
    <3>1. /\ attempt'.of = p /\ attempt'.described = described
          /\ attempt'.features = asked /\ attempt'.extensions = extensions
      BY <2>3 DEF RequestDevice
    <3>2. Setting
      BY DEF DeviceTypes
    <3>3. described = p => /\ asked \subseteq machine[p].features \cup EnabledUnseen
                           /\ ExtensionsFor(p, asked) \subseteq extensions
      BY <2>3, <3>2, RequestIsSupported
    <3> HIDE DEF asked, extensions
    <3>4. \A fs : ExtensionsFor(p, fs)' = ExtensionsFor(p, fs)
      BY <2>1 DEF ExtensionsFor
    <3> QED BY <2>1, <3>1, <3>3, <3>4 DEF RequestsSupported
  <2>4. CASE attempt' = NoCall
    BY <2>2, <2>4, CallIsNone
  <2> QED BY <1>1, <1>3, <2>1, <2>2, <2>3, <2>4, CallAfter
<1> QED BY <1>2, <1>3, DeviceSteps

\* Nothing is asked of the driver that the device does not have, but for what is
\* enabled unseen, and no feature without its extension.
THEOREM RequestsAreSupported == DeviceSpec => []RequestsSupported
<1>1. DeviceInit => RequestsSupported
  BY CallIsNone DEF DeviceInit, RequestsSupported
<1> QED BY <1>1, DeviceTypesInit, DeviceTypesStep, RequestsStep, PTL DEF DeviceSpec

\* What a device that transcodes, or a call that will make one, has asked for.
EtcFeatures  == {"textureCompressionETC2"}
AstcFeatures == {"textureCompressionASTC_LDR", "shaderInt16", "shaderInt8", "shaderFloat16",
                 "storageBuffer8BitAccess", "storageBuffer16BitAccess"}
Transcoding ==
  /\ attempt.stage # "none" /\ attempt.gives # "nothing"
       => /\ attempt.etc2 => EtcFeatures \subseteq attempt.features
          /\ attempt.astc => AstcFeatures \subseteq attempt.features
  /\ device # NoDevice /\ device.gives # "nothing"
       => /\ device.etc2 => EtcFeatures \subseteq device.enabled
          /\ device.astc => AstcFeatures \subseteq device.enabled
  /\ image # NoImage => (image.etc2 => device.etc2) /\ (image.astc => device.astc)

LEMMA TranscodingImplies == DeviceTypes /\ Transcoding => TranscodeEnabled
<1>1. DeviceTypes /\ image # NoImage => device # NoDevice
  BY CallIsNone DEF DeviceTypes, Holding
<1> QED BY <1>1 DEF Transcoding, TranscodeEnabled, EtcFeatures, AstcFeatures

\* The first two parts of it, for the call and the device, and the third for the image.
CallTranscodes ==
  attempt.stage # "none" /\ attempt.gives # "nothing"
    => /\ attempt.etc2 => EtcFeatures \subseteq attempt.features
       /\ attempt.astc => AstcFeatures \subseteq attempt.features
DeviceTranscodes ==
  device # NoDevice /\ device.gives # "nothing"
    => /\ device.etc2 => EtcFeatures \subseteq device.enabled
       /\ device.astc => AstcFeatures \subseteq device.enabled
ImageTranscodes ==
  image # NoImage => (image.etc2 => device.etc2) /\ (image.astc => device.astc)

LEMMA TranscodingParts ==
  /\ Transcoding <=> CallTranscodes /\ DeviceTranscodes /\ ImageTranscodes
  /\ Transcoding' <=> CallTranscodes' /\ DeviceTranscodes' /\ ImageTranscodes'
BY DEF Transcoding, CallTranscodes, DeviceTranscodes, ImageTranscodes

LEMMA CallTranscodesStep ==
  ASSUME DeviceTypes, CallTranscodes, DeviceStep
  PROVE  CallTranscodes'
<1>1. CASE UNCHANGED attempt
  BY <1>1 DEF CallTranscodes
<1>2. CASE attempt' = NoCall
  BY <1>2, CallIsNone DEF CallTranscodes
<1>3. ASSUME attempt \in Calls, attempt'.etc2 = attempt.etc2, attempt'.astc = attempt.astc,
             attempt'.gives = attempt.gives, attempt'.features = attempt.features
      PROVE  CallTranscodes'
  BY <1>3 DEF CallTranscodes, Calls
<1>4. ASSUME NEW p \in 1 .. known, NEW gives \in GivesOf[env], NEW wants,
             RequestDevice(p, gives, wants, ExtensionsFor(p, wants))
      PROVE  CallTranscodes'
  <2> DEFINE asked == CoreRequest(p, gives, wants) \cup ChainRequest(p, wants)
             etc2 == ToEtc2
             astc == ToAstc(p)
  <2>1. /\ attempt'.gives = gives /\ attempt'.features = asked
        /\ attempt'.etc2 = etc2 /\ attempt'.astc = astc
    BY <1>4 DEF RequestDevice
  <2>2. gives # "nothing" /\ etc2 => EtcFeatures \subseteq asked
    BY DEF CoreRequest, EtcFeatures
  <2>3. gives # "nothing" /\ astc => AstcFeatures \subseteq asked
    BY DEF CoreRequest, ChainRequest, AstcFeatures
  <2> HIDE DEF asked, etc2, astc
  <2> QED BY <2>1, <2>2, <2>3 DEF CallTranscodes
<1> QED BY <1>1, <1>2, <1>3, <1>4, CallAfter

\* A device that is registered is what its call was.
LEMMA Registered ==
  ASSUME DeviceTypes, RegisterDevice
  PROVE  /\ attempt \in Calls /\ attempt.stage = "equipped" /\ attempt' = NoCall
         /\ image = NoImage /\ image' = NoImage
         /\ device'.etc2 = attempt.etc2 /\ device'.astc = attempt.astc
         /\ device'.debug = attempt.debug /\ device'.gives = attempt.gives
         /\ device'.enabled = attempt.features /\ device'.missing = attempt.missing
         /\ device'.imageView = UseImageView /\ device'.poolSizes = PoolSizes
         /\ UNCHANGED env /\ objects' = objects \cup Pools /\ remains' = {}
<1>1. attempt \in Calls /\ attempt.stage = "equipped" /\ image = NoImage
  BY CallIsNone DEF RegisterDevice, DeviceTypes, Running, Holding
<1> DEFINE view == UseImageView
           sizes == PoolSizes
<1>2. device' = [of |-> attempt.of, described |-> attempt.described, etc2 |-> attempt.etc2,
                 astc |-> attempt.astc, debug |-> attempt.debug, imageView |-> view,
                 gives |-> attempt.gives, enabled |-> attempt.features, poolSizes |-> sizes,
                 missing |-> attempt.missing]
  BY DEF RegisterDevice
<1> HIDE DEF view, sizes
<1>3. /\ device'.etc2 = attempt.etc2 /\ device'.astc = attempt.astc
      /\ device'.debug = attempt.debug /\ device'.gives = attempt.gives
      /\ device'.enabled = attempt.features /\ device'.missing = attempt.missing
      /\ device'.imageView = view /\ device'.poolSizes = sizes
  BY <1>2
<1> QED BY <1>1, <1>3 DEF RegisterDevice, view, sizes

LEMMA TranscodingStep ==
  ASSUME DeviceTypes, Transcoding, [DeviceNext]_deviceVars
  PROVE  Transcoding'
<1>0. CallTranscodes /\ DeviceTranscodes /\ ImageTranscodes
  BY TranscodingParts
<1>1. CASE UNCHANGED deviceVars
  BY <1>1 DEF deviceVars, Transcoding
<1>2. CASE DeviceStep
  <2>1. CallTranscodes'
    BY <1>0, <1>2, CallTranscodesStep
  <2>2. DeviceTranscodes' /\ (UNCHANGED image => ImageTranscodes')
    <3>1. CASE UNCHANGED device
      BY <1>0, <3>1 DEF DeviceTranscodes, ImageTranscodes
    <3>2. CASE RegisterDevice
      <4>1. attempt.stage # "none"
        BY <3>2, Registered
      <4>2. DeviceTranscodes'
        BY <1>0, <3>2, <4>1, Registered DEF DeviceTranscodes, CallTranscodes
      <4> QED BY <3>2, <4>2, Registered DEF ImageTranscodes
    <3>3. CASE DestroyDevice
      BY <3>3 DEF DestroyDevice, DeviceTranscodes, ImageTranscodes
    <3> QED BY <1>2, <3>1, <3>2, <3>3, LeftAlone
  <2>3. ImageTranscodes'
    <3>1. CASE image' = NoImage \/ UNCHANGED image
      BY <2>2, <3>1 DEF ImageTranscodes
    <3>2. ASSUME NEW f, NEW type, NEW listed, CreateImage(f, type, listed)
          PROVE  ImageTranscodes'
      <4> DEFINE decoded == is_supported_bcn_format(bcn_compute_auto, Maps(device.described), f)
                 etc2    == decoded /\ device.etc2 /\ type # "3D"
                 astc    == decoded /\ ~ etc2 /\ device.astc /\ type # "3D"
      <4>1. PICK formats :
              image' = [format |-> f, decoded |-> decoded, etc2 |-> etc2, astc |-> astc,
                        target |-> IF decoded THEN Transcoded(etc2, astc, f) ELSE f,
                        views |-> {IF decoded THEN Transcoded(etc2, astc, g) ELSE g : g \in formats},
                        stale |-> listed /\ overwritten,
                        answer |-> IF told.of = device.of /\ told.format = f THEN told ELSE NoAnswer]
        BY <3>2 DEF CreateImage
      <4>2. UNCHANGED device
        BY <3>2 DEF CreateImage
      <4>3. (etc2 => device.etc2) /\ (astc => device.astc)
        OBVIOUS
      <4> HIDE DEF decoded, etc2, astc
      <4>4. image'.etc2 = etc2 /\ image'.astc = astc
        BY <4>1
      <4> QED BY <4>2, <4>3, <4>4 DEF ImageTranscodes
    <3>3. ASSUME NEW g, CreateImageView(g) PROVE ImageTranscodes'
      <4>1. image # NoImage /\ UNCHANGED device
        BY <3>3 DEF CreateImageView
      <4>2. PICK views : image' = [image EXCEPT !.views = views]
        BY <3>3 DEF CreateImageView
      <4>3. ImageShape
        BY <4>1 DEF DeviceTypes, Holding
      <4>4. image'.etc2 = image.etc2 /\ image'.astc = image.astc
        BY <4>2, <4>3 DEF ImageShape, ImageFields
      <4> QED BY <1>0, <4>1, <4>4 DEF ImageTranscodes
    <3>4. CASE DestroyInstance \/ DestroyDevice \/ DestroyImage
      <4>1. image' = NoImage \/ UNCHANGED image
        BY <3>4 DEF DestroyInstance, DestroyDevice, DestroyImage
      <4> QED BY <3>1, <4>1
    <3>5. ASSUME NEW p, NEW f, NEW answers, Ask(p, f, answers) PROVE UNCHANGED image
      BY <3>5 DEF Ask
    <3> QED BY <1>2, <3>1, <3>2, <3>3, <3>4, <3>5, LeftAlone
  <2> QED BY <2>1, <2>2, <2>3, TranscodingParts
<1> QED BY <1>1, <1>2, DeviceSteps

\* Transcoded images are made only on a device with the features they take.
THEOREM TranscodesAreEnabled == DeviceSpec => []TranscodeEnabled
<1>1. DeviceInit => Transcoding
  BY CallIsNone DEF DeviceInit, Transcoding
<1> QED BY <1>1, DeviceTypesInit, DeviceTypesStep, TranscodingStep, TranscodingImplies, PTL
        DEF DeviceSpec

-----------------------------------------------------------------------------
(* The pools and the objects.                                              *)

\* The pools of a device hold the sets it uses from the time it is registered.
LEMMA PoolsStep ==
  ASSUME DeviceTypes, PoolHoldsSets, [DeviceNext]_deviceVars
  PROVE  PoolHoldsSets'
<1>1. ASSUME UNCHANGED <<env, device>> PROVE PoolHoldsSets'
  BY <1>1 DEF PoolHoldsSets, SetSizes, add_watermark
<1>2. CASE UNCHANGED deviceVars
  BY <1>1, <1>2 DEF deviceVars
<1>3. CASE RegisterDevice
  <2>1. /\ device'.etc2 = attempt.etc2 /\ device'.astc = attempt.astc
        /\ device'.imageView = UseImageView /\ device'.poolSizes = PoolSizes
        /\ UNCHANGED env
    BY <1>3, Registered
  <2>2. add_watermark' = add_watermark
    BY <2>1 DEF add_watermark
  <2>3. /\ PoolSizes.images = IF UseImageView THEN 256 ELSE 0
        /\ PoolSizes.buffers = (IF UseImageView THEN 0 ELSE 256) + 256 * BufferMultiplier
    BY DEF PoolSizes, MaxSets
  <2>4. UseImageView => ~ attempt.etc2 /\ ~ attempt.astc /\ ~ add_watermark
    BY DEF UseImageView
  <2>5. /\ BufferMultiplier \in {1, 3, 5}
        /\ attempt.astc => BufferMultiplier = 5
    BY DEF BufferMultiplier
  <2>6. ASSUME NEW s \in SetSizes'
        PROVE  256 * s.images <= PoolSizes.images /\ 256 * s.buffers <= PoolSizes.buffers
    <3>1. CASE UseImageView
      <4>1. device'.imageView /\ ~ device'.etc2 /\ ~ device'.astc /\ ~ add_watermark'
        BY <2>1, <2>2, <2>4, <3>1
      <4>2. s = [images |-> 1, buffers |-> 1]
        BY <4>1 DEF SetSizes
      <4> QED BY <2>3, <2>5, <3>1, <4>2
    <3>2. CASE ~ UseImageView
      <4>1. /\ s.images = 0
            /\ s.buffers = 2 \/ (attempt.astc /\ s.buffers \in {4, 6})
        BY <2>1, <2>2, <3>2 DEF SetSizes
      <4> QED BY <2>3, <2>5, <3>2, <4>1
    <3> QED BY <3>1, <3>2
  <2> QED BY <2>1, <2>6 DEF PoolHoldsSets, MaxSets
<1>4. CASE DestroyDevice
  BY <1>4 DEF DestroyDevice, PoolHoldsSets
<1> QED BY <1>1, <1>2, <1>3, <1>4, LeftAlone, DeviceSteps

\* A pool of descriptor sets is large enough for its sets, whatever the device
\* transcodes to and binds.
THEOREM PoolsHoldSets == DeviceSpec => []PoolHoldsSets
<1>1. DeviceInit => PoolHoldsSets
  BY DEF DeviceInit, PoolHoldsSets
<1> QED BY <1>1, DeviceTypesInit, DeviceTypesStep, PoolsStep, PTL DEF DeviceSpec

\* What a call that gets through all of create_bcn_compute_pipelines has made.
Built == {<<"device", "device">>} \cup Before(7) \cup Tables

LEMMA BuiltIs ==
  Before(7) =
    Modules \cup Pipelines
    \cup {<<"setLayout", "bcn">>, <<"setLayout", "etc2">>, <<"setLayout", "astc">>,
          <<"setLayout", "analyze">>, <<"layout", "bcn">>, <<"layout", "etc2">>,
          <<"layout", "astc">>, <<"layout", "analyze">>}
<1>1. Unchecked(7) = Modules \cup {<<"setLayout", "astc">>, <<"layout", "astc">>,
                                   <<"layout", "analyze">>}
  BY DEF Unchecked
<1>2. 1 .. 7 - 1 = {1, 2, 3, 4, 5, 6}
  OBVIOUS
<1>3. UNION {Checked[j] : j \in 1 .. 7 - 1}
        = Checked[1] \cup Checked[2] \cup Checked[3] \cup Checked[4] \cup Checked[5] \cup Checked[6]
  BY <1>2
<1>4. /\ Checked[1] = {<<"setLayout", "bcn">>} /\ Checked[2] = {<<"setLayout", "etc2">>}
      /\ Checked[3] = {<<"setLayout", "analyze">>} /\ Checked[4] = {<<"layout", "bcn">>}
      /\ Checked[5] = {<<"layout", "etc2">>} /\ Checked[6] = Pipelines
  BY DEF Checked
<1> QED BY <1>1, <1>3, <1>4 DEF Before

\* What is left when a device that was made goes.
Shared == {"etc2", "astc", "watermark", "analyze", "lut2", "astc2pLut"}
Rest(s) == \A o \in s \ Released : o[2] \in Shared

LEMMA RestOfBuilt == Rest((Built \ Modules) \cup Pools)
<1>1. ASSUME NEW o \in (Built \ Modules) \cup Pools, o \notin Released
      PROVE  o[2] \in Shared
  <2>1. CASE o \in Pipelines
    BY <1>1, <2>1 DEF Pipelines, Shaders, Released, Shared
  <2>2. CASE o \in Tables
    BY <2>2 DEF Tables, Shared
  <2>3. CASE o \in Pools \/ o = <<"device", "device">>
    BY <1>1, <2>3 DEF Released
  <2>4. CASE o \in {<<"setLayout", "bcn">>, <<"setLayout", "etc2">>, <<"setLayout", "astc">>,
                    <<"setLayout", "analyze">>, <<"layout", "bcn">>, <<"layout", "etc2">>,
                    <<"layout", "astc">>, <<"layout", "analyze">>}
    BY <1>1, <2>4 DEF Released, Shared
  <2> QED BY <1>1, <2>1, <2>2, <2>3, <2>4, BuiltIs DEF Built
<1> QED BY <1>1 DEF Rest

\* The objects at each stage of a call, and on a device.
Standing ==
  /\ attempt.stage = "created" => objects = {<<"device", "device">>}
  /\ attempt.stage = "equipped" => objects = Built \ (Modules \cup attempt.missing)
  /\ device # NoDevice => Rest(objects) /\ Needed \ device.missing \subseteq objects
  /\ OnlyTranscodersRemain

LEMMA StandingImplies == Standing => Equipped /\ OnlyTranscodersRemain
BY DEF Standing, Equipped

\* What is needed, of the objects of a call that becomes a device.
LEMMA NeededIsBuilt ==
  ASSUME DeviceTypes, RegisterDevice
  PROVE  Needed' \subseteq (Built \ Modules) \cup Pools
<1>1. /\ device'.etc2 = attempt.etc2 /\ device'.astc = attempt.astc
      /\ device'.debug = attempt.debug
  BY Registered
<1>2. {"pipeline"} \X {"s3tc", "rgtc", "bc6", "bc7", "etc2", "watermark", "astc"} \subseteq Pipelines
  BY DEF Pipelines, Shaders
<1>3. attempt.debug => <<"pipeline", "analyze">> \in Pipelines
  BY DEF Pipelines, Shaders
<1>4. attempt.astc => {"buffer"} \X {"lut2", "astc2pLut"} \subseteq Tables
  BY DEF Tables
<1> DEFINE layouts == {"setLayout", "layout"} \X {"bcn", "etc2", "astc", "analyze"}
<1>5. /\ layouts \subseteq Before(7) /\ Pipelines \subseteq Before(7)
      /\ \A o \in Modules : o[1] = "module"
  BY BuiltIs DEF Modules
<1>6. ASSUME NEW o \in layouts \cup Pipelines \cup Tables PROVE o \in Built \ Modules
  <2>1. o \in Built
    BY <1>5 DEF Built
  <2>2. o[1] # "module"
    BY DEF Pipelines, Tables
  <2> QED BY <1>5, <2>1, <2>2
<1>7. ASSUME NEW o \in Needed' PROVE o \in layouts \cup Pipelines \cup Tables \cup Pools
  <2>1. CASE o \in {<<"setLayout", "bcn">>, <<"layout", "bcn">>}
                   \cup {"pipeline"} \X {"s3tc", "rgtc", "bc6", "bc7"}
    BY <1>2, <2>1
  <2>2. CASE o \in {"setLayout", "layout", "pipeline"} \X {"etc2", "astc"}
    BY <1>2, <2>2
  <2>3. CASE o \in {"buffer"} \X {"lut2", "astc2pLut"} /\ attempt.astc
    BY <1>4, <2>3
  <2>4. CASE o \in {"setLayout", "layout", "pipeline"} \X {"analyze"} /\ attempt.debug
    BY <1>3, <2>4
  <2>5. CASE o \in {<<"setLayout", "etc2">>, <<"layout", "etc2">>, <<"pipeline", "watermark">>}
    BY <1>2, <2>5
  <2>6. CASE o \in Pools
    BY <2>6
  <2>7. Pools' = Pools
    BY DEF Pools
  <2> QED BY <1>1, <1>7, <2>1, <2>2, <2>3, <2>4, <2>5, <2>6, <2>7 DEF Needed
<1> HIDE DEF layouts
<1> QED BY <1>6, <1>7

LEMMA StandingStep ==
  ASSUME DeviceTypes, Standing, [DeviceNext]_deviceVars
  PROVE  Standing'
<1>1. ASSUME UNCHANGED <<env, attempt, device, objects>>, remains' = {} \/ UNCHANGED remains
      PROVE  Standing'
  <2>1. Built' = Built /\ Modules' = Modules /\ Needed' = Needed
    BY <1>1 DEF Built, Modules, Shaders, Before, Unchecked, Checked, Pipelines, Tables, Needed,
                add_watermark, Pools
  <2>2. Rest(objects)' <=> Rest(objects)
    BY <1>1 DEF Rest, Released, Pools, Shared
  <2> QED BY <1>1, <2>1, <2>2 DEF Standing, OnlyTranscodersRemain
<1>2. CASE UNCHANGED deviceVars
  BY <1>1, <1>2 DEF deviceVars
<1>3. CASE DriverRefuses
  <2>1. attempt'.stage = "none" /\ device = NoDevice /\ device' = NoDevice /\ remains' = {}
    BY <1>3, CallIsNone DEF DriverRefuses, DeviceTypes, Running
  <2> QED BY <2>1 DEF Standing, OnlyTranscodersRemain
<1>4. CASE DriverCreates
  <2>1. attempt \in Calls /\ device = NoDevice
    BY <1>4, CallIsNone DEF DriverCreates, DeviceTypes, Running
  <2>2. attempt'.stage = "created"
    BY <1>4, <2>1 DEF DriverCreates, Calls
  <2> QED BY <1>4, <2>1, <2>2 DEF DriverCreates, Standing, OnlyTranscodersRemain
<1>5. ASSUME NEW i \in DOMAIN Checked, PipelinesFail(i) PROVE Standing'
  <2>1. device = NoDevice /\ device' = NoDevice /\ attempt' = NoCall
    BY <1>5, CallIsNone DEF PipelinesFail, DeviceTypes, Running
  <2>2. <<"device", "device">> \in remains'
    BY <1>5 DEF PipelinesFail, Standing
  <2> QED BY <2>1, <2>2, CallIsNone DEF Standing, OnlyTranscodersRemain
<1>6. ASSUME NEW missing, PipelinesCreated(missing) PROVE Standing'
  <2>1. /\ attempt \in Calls /\ device = NoDevice /\ device' = NoDevice /\ remains' = {}
        /\ objects = {<<"device", "device">>}
        /\ objects' = (objects \cup Before(7) \cup Tables) \ (Modules \cup missing)
        /\ attempt' = [attempt EXCEPT !.stage = "equipped", !.missing = missing]
    BY <1>6, CallIsNone DEF PipelinesCreated, DeviceTypes, Running, Standing
  <2>2. /\ attempt'.stage = "equipped" /\ attempt'.missing = missing
        /\ attempt'.debug = attempt.debug /\ attempt'.astc = attempt.astc
    BY <2>1 DEF Calls
  <2>3. Built' = Built /\ Modules' = Modules
    <3>1. Shaders' = Shaders /\ Tables' = Tables
      BY <2>2 DEF Shaders, Tables
    <3> QED BY <3>1 DEF Built, Modules, Before, Unchecked, Checked, Pipelines
  <2>4. objects' = Built \ (Modules \cup missing)
    BY <2>1 DEF Built
  <2> QED BY <2>1, <2>2, <2>3, <2>4 DEF Standing, OnlyTranscodersRemain
<1>7. CASE RegisterDevice
  <2>1. /\ attempt.stage = "equipped" /\ attempt' = NoCall
        /\ device'.missing = attempt.missing
        /\ objects' = objects \cup Pools /\ remains' = {}
    BY <1>7, Registered
  <2>2. objects = Built \ (Modules \cup attempt.missing)
    BY <2>1 DEF Standing
  <2>3. Needed' \ attempt.missing \subseteq objects'
    BY <1>7, <2>1, <2>2, NeededIsBuilt
  <2>4. Rest(objects')
    BY <2>1, <2>2, RestOfBuilt DEF Rest
  <2>5. Rest(objects)' <=> Rest(objects')
    BY DEF Rest, Released, Pools, Shared
  <2> QED BY <2>1, <2>3, <2>4, <2>5, CallIsNone DEF Standing, OnlyTranscodersRemain
<1>8. CASE DestroyDevice
  <2>1. /\ device # NoDevice /\ device' = NoDevice /\ remains' = objects \ Released
        /\ UNCHANGED attempt
    BY <1>8 DEF DestroyDevice
  <2>2. attempt = NoCall
    BY <2>1 DEF DeviceTypes, Running
  <2>3. \A o \in remains' : o[2] \in Shared
    BY <2>1 DEF Standing, Rest
  <2> QED BY <2>1, <2>2, <2>3, CallIsNone DEF Standing, OnlyTranscodersRemain, Shared
<1>9. ASSUME NEW p \in 1 .. known, NEW gives, NEW wants,
             RequestDevice(p, gives, wants, ExtensionsFor(p, wants))
      PROVE  Standing'
  <2>1. /\ attempt'.stage = "requested" /\ device = NoDevice /\ device' = NoDevice
        /\ remains' = {}
    BY <1>9 DEF RequestDevice
  <2> QED BY <2>1 DEF Standing, OnlyTranscodersRemain
<1> QED BY <1>1, <1>2, <1>3, <1>4, <1>5, <1>6, <1>7, <1>8, <1>9, LeftAlone, DeviceSteps

LEMMA StandingInit == DeviceInit => Standing
BY CallIsNone DEF DeviceInit, Standing, OnlyTranscodersRemain

\* A registered device has every object that its commands bind, but for those
\* whose creation failed unseen.
THEOREM DevicesEquipped == DeviceSpec => []Equipped
BY DeviceTypesInit, DeviceTypesStep, StandingInit, StandingStep, StandingImplies, PTL DEF DeviceSpec

\* A destroyed device leaves only objects of the transcoders.
THEOREM TranscodersRemain == DeviceSpec => []OnlyTranscodersRemain
BY DeviceTypesInit, DeviceTypesStep, StandingInit, StandingStep, StandingImplies, PTL DEF DeviceSpec

-----------------------------------------------------------------------------
(* Views.                                                                  *)

\* The format that an image or a view of format f gets.
Converted(decoded, etc2, astc, f) == IF decoded THEN Transcoded(etc2, astc, f) ELSE f

\* A BCn format is in a class of BCn formats, of which BC6H has one to itself.
LEMMA ClassOfBCn ==
  ASSUME NEW f \in BCn, NEW g \in ClassOf(f)
  PROVE  /\ \E c \in CompatibilityClasses : {f, g} \subseteq c
         /\ f \in Bc6 <=> g \in Bc6
         /\ g \in BCn
<1>1. \E c \in CompatibilityClasses : f \in c
  BY DEF BCn, S3tc, Rgtc, Bc6, Bc7, CompatibilityClasses
<1>2. ClassOf(f) \in CompatibilityClasses /\ f \in ClassOf(f)
  BY <1>1 DEF ClassOf
<1> DEFINE class == ClassOf(f)
<1> HIDE DEF class
<1>3. class \in CompatibilityClasses /\ f \in class /\ g \in class
  BY <1>2 DEF class
<1>4. (f \in Bc6 <=> g \in Bc6) /\ g \in BCn
  BY <1>3 DEF CompatibilityClasses, BCn, S3tc, Rgtc, Bc6, Bc7
<1> QED BY <1>3, <1>4

\* Formats of one class are converted to formats of one class.
LEMMA ConvertedCompatible ==
  ASSUME NEW f \in BCn, NEW g \in ClassOf(f), NEW decoded, NEW etc2, NEW astc
  PROVE  Compatible(Converted(decoded, etc2, astc, g), Converted(decoded, etc2, astc, f))
<1>1. /\ \E c \in CompatibilityClasses : {f, g} \subseteq c
      /\ f \in Bc6 <=> g \in Bc6
      /\ g \in BCn
  BY ClassOfBCn
<1>2. CASE ~ decoded
  BY <1>1, <1>2 DEF Converted, Compatible
<1>3. CASE decoded /\ etc2
  BY <1>3 DEF Converted, Transcoded, get_format_for_bcn_to_etc2, Compatible, CompatibilityClasses
<1>4. CASE decoded /\ ~ etc2 /\ astc
  BY <1>4 DEF Converted, Transcoded, get_format_for_bcn_to_astc, Compatible, CompatibilityClasses
<1>5. CASE decoded /\ ~ etc2 /\ ~ astc
  <2>1. \A h \in BCn :
           IF h \in Bc6 THEN get_format_for_bcn(h) = "R16G16B16A16_SFLOAT"
           ELSE get_format_for_bcn(h) \in {"R8G8B8A8_SRGB", "R8G8B8A8_UNORM", "R8G8B8A8_SNORM"}
    <3> SUFFICES ASSUME NEW h \in BCn
                 PROVE  IF h \in Bc6 THEN get_format_for_bcn(h) = "R16G16B16A16_SFLOAT"
                        ELSE get_format_for_bcn(h)
                               \in {"R8G8B8A8_SRGB", "R8G8B8A8_UNORM", "R8G8B8A8_SNORM"}
      OBVIOUS
    <3>1. CASE h \in Bc6
      <4>1. h \notin Srgb /\ h \notin Snorm /\ h \notin Unorm
        BY <3>1 DEF Bc6, Srgb, Snorm, Unorm
      <4> QED BY <3>1, <4>1 DEF get_format_for_bcn
    <3>2. CASE h \notin Bc6
      <4>1. h \in Srgb \/ h \in Snorm \/ h \in Unorm
        BY <3>2 DEF Unorm
      <4> QED BY <3>2, <4>1 DEF get_format_for_bcn
    <3> QED BY <3>1, <3>2
  <2>2. Converted(decoded, etc2, astc, g) = get_format_for_bcn(g)
        /\ Converted(decoded, etc2, astc, f) = get_format_for_bcn(f)
    BY <1>5 DEF Converted, Transcoded
  <2> QED BY <1>1, <2>1, <2>2 DEF Compatible, CompatibilityClasses
<1> QED BY <1>2, <1>3, <1>4, <1>5

\* An image has the format its flags convert its own to, and an application's
\* list that was not overwritten is of the image's class.
Viewed ==
  image # NoImage =>
    /\ image.target = Converted(image.decoded, image.etc2, image.astc, image.format)
    /\ ~ image.stale => \A g \in image.views : Compatible(g, image.target)

LEMMA ViewedStep == DeviceTypes /\ Viewed /\ [DeviceNext]_deviceVars => Viewed'
<1> SUFFICES ASSUME DeviceTypes, Viewed, [DeviceNext]_deviceVars PROVE Viewed'
  OBVIOUS
<1>1. ASSUME UNCHANGED image \/ image' = NoImage PROVE Viewed'
  BY <1>1 DEF Viewed
<1>2. ASSUME NEW f \in AsksOf[env], NEW type, NEW listed \in BOOLEAN, CreateImage(f, type, listed)
      PROVE  Viewed'
  <2>1. f \in BCn
    BY MachineType DEF DeviceTypes, Setting
  <2> DEFINE decoded == is_supported_bcn_format(bcn_compute_auto, Maps(device.described), f)
             etc2    == decoded /\ device.etc2 /\ type # "3D"
             astc    == decoded /\ ~ etc2 /\ device.astc /\ type # "3D"
             convert(g) == Converted(decoded, etc2, astc, g)
  <2>2. PICK formats \in (IF listed THEN Listed(f) ELSE {{}}) :
          image' = [format |-> f, decoded |-> decoded, etc2 |-> etc2, astc |-> astc,
                    target |-> convert(f), views |-> {convert(g) : g \in formats},
                    stale |-> listed /\ overwritten,
                    answer |-> IF told.of = device.of /\ told.format = f THEN told ELSE NoAnswer]
    BY <1>2 DEF CreateImage, Converted
  <2>3. ~ (listed /\ overwritten) => formats \subseteq ClassOf(f)
    BY <2>2 DEF Listed
  <2>4. \A g \in ClassOf(f) : Compatible(convert(g), convert(f))
    BY <2>1, ConvertedCompatible
  <2>5. convert(f) = Converted(decoded, etc2, astc, f)
    OBVIOUS
  <2> HIDE DEF decoded, etc2, astc, convert
  <2> QED BY <2>2, <2>3, <2>4, <2>5 DEF Viewed
<1>3. ASSUME NEW g \in BCn, CreateImageView(g) PROVE Viewed'
  <2> DEFINE view == Converted(image.decoded, image.etc2, image.astc, g)
  <2>1. /\ image # NoImage /\ g \in ClassOf(image.format)
        /\ image' = [image EXCEPT !.views = @ \cup {view}]
    BY <1>3 DEF CreateImageView, Converted
  <2>2. ImageShape
    BY <2>1 DEF DeviceTypes, Holding
  <2>3. Compatible(view, image.target)
    BY <2>1, <2>2, ConvertedCompatible DEF Viewed, ImageShape
  <2> HIDE DEF view
  <2>4. /\ image'.target = image.target /\ image'.stale = image.stale
        /\ image'.decoded = image.decoded /\ image'.etc2 = image.etc2
        /\ image'.astc = image.astc /\ image'.format = image.format
        /\ image'.views = image.views \cup {view}
    BY <2>1, <2>2 DEF ImageShape, ImageFields
  <2> QED BY <2>1, <2>3, <2>4 DEF Viewed
<1>4. CASE UNCHANGED deviceVars
  BY <1>1, <1>4 DEF deviceVars
<1>5. ASSUME DestroyDevice \/ DestroyImage \/ DestroyInstance PROVE Viewed'
  BY <1>1, <1>5 DEF DestroyDevice, DestroyImage, DestroyInstance
<1>6. ASSUME NEW p, NEW f, NEW answers, Ask(p, f, answers) PROVE Viewed'
  BY <1>1, <1>6 DEF Ask
<1> QED BY <1>1, <1>2, <1>3, <1>4, <1>5, <1>6, LeftAlone, DeviceSteps

\* The driver never gets a view of a format that the image's own format is not
\* compatible with, whatever of the two was decoded or transcoded.
THEOREM ViewsAreCompatible == DeviceSpec => []ViewsCompatible
<1>1. DeviceInit => Viewed
  BY DEF DeviceInit, Viewed
<1>2. Viewed => ViewsCompatible
  BY DEF Viewed, ViewsCompatible
<1> QED BY <1>1, <1>2, DeviceTypesInit, DeviceTypesStep, ViewedStep, PTL DEF DeviceSpec

-----------------------------------------------------------------------------
(* Limits.                                                                 *)

\* A power of two is a number: it counts the subsets of an interval.
LEMMA PowerType == \A m \in Nat : 2 ^ m \in Nat
<1> SUFFICES ASSUME NEW m \in Nat PROVE 2 ^ m \in Nat
  OBVIOUS
<1>1. IsFiniteSet(1 .. m) /\ Cardinality(1 .. m) = m
  BY FS_Interval
<1>2. IsFiniteSet(SUBSET (1 .. m)) /\ Cardinality(SUBSET (1 .. m)) = 2 ^ Cardinality(1 .. m)
  BY <1>1, FS_SUBSET
<1> QED BY <1>1, <1>2, FS_CardinalityType

\* What the layer answers of an image that is not 1D is within the limits it
\* answers from.
LEMMA AnswerFits ==
  ASSUME NEW props \in PhysicalDevice, NEW k \in ImageKinds, NEW before,
         NEW a \in ImageFormatProperties(props, k, before), k.type # "1D"
  PROVE  Fits(props.limits, k, a)
<1> DEFINE limits == props.limits
           extent == MaxExtent(limits, k, before)
           side == IF k.type = "3D" THEN limits.dimension3D
                   ELSE IF k.cube THEN limits.dimensionCube ELSE limits.dimension2D
<1>1. limits \in Limits /\ side \in Positive
  BY DEF PhysicalDevice, Limits
<1>2. /\ extent.width = side /\ extent.height = side
      /\ extent.depth = IF k.type = "3D" THEN side ELSE 1
  <2>1. CASE k.type = "2D"
    BY <2>1 DEF MaxExtent
  <2>2. CASE k.type = "3D"
    BY <2>2 DEF MaxExtent
  <2> QED BY <2>1, <2>2 DEF ImageKinds
<1>3. PICK m \in MaxMipLevels(k, extent) :
        a = [maxExtent |-> extent, maxMipLevels |-> m, maxArrayLayers |-> MaxArrayLayers(limits, k)]
  BY DEF ImageFormatProperties
<1>4. MaxArrayLayers(limits, k) <= limits.arrayLayers
  BY <1>1 DEF MaxArrayLayers, Limits, Positive
<1> HIDE DEF limits, extent, side
<1>5. Larger(extent.width, extent.height) = side
  BY <1>2 DEF Larger
<1>6. 2 ^ m <= 2 * side /\ (k.tiling # "OPTIMAL" => m = 1)
  <2>1. CASE k.tiling # "OPTIMAL" \/ k.subsampled
    <3>1. m = 1
      BY <1>3, <2>1 DEF MaxMipLevels
    <3>2. 2 ^ 1 = 2
      OBVIOUS
    <3> QED BY <1>1, <3>1, <3>2 DEF Positive
  <2>2. CASE ~ (k.tiling # "OPTIMAL" \/ k.subsampled)
    <3>1. m \in Nat /\ 2 ^ m <= side
      BY <1>1, <1>3, <1>5, <2>2 DEF MaxMipLevels, Log2, Positive
    <3> DEFINE power == 2 ^ m
    <3>2. power \in Nat /\ power <= side
      BY <3>1, PowerType
    <3> HIDE DEF power
    <3>3. power <= 2 * side
      BY <1>1, <3>2 DEF Positive
    <3> QED BY <2>2, <3>3 DEF power
  <2> QED BY <2>1, <2>2
<1>7. a.maxMipLevels = m /\ a.maxArrayLayers = MaxArrayLayers(limits, k) /\ a.maxExtent = extent
  BY <1>3
<1>8. /\ a.maxExtent.width <= side /\ a.maxExtent.height <= side
      /\ a.maxExtent.depth <= IF k.type = "3D" THEN side ELSE 1
  BY <1>1, <1>2, <1>7 DEF Positive
<1> QED BY <1>4, <1>5, <1>6, <1>7, <1>8 DEF Fits, limits, side

\* What was answered from the entries of the device itself is within its limits.
LEMMA LimitsStep ==
  DeviceTypes /\ AnswersWithinLimits /\ [DeviceNext]_deviceVars => AnswersWithinLimits'
<1> SUFFICES ASSUME DeviceTypes, AnswersWithinLimits, [DeviceNext]_deviceVars
             PROVE  AnswersWithinLimits'
  OBVIOUS
<1>1. ASSUME UNCHANGED machine, UNCHANGED told \/ told' = NoAnswer PROVE AnswersWithinLimits'
  BY <1>1 DEF AnswersWithinLimits
<1>2. ASSUME NEW p \in 1 .. known, NEW f \in AsksOf[env], AskFormat(p, f)
      PROVE  AnswersWithinLimits'
  <2>1. told'.answers = {}
    BY <1>2 DEF AskFormat, Ask
  <2> QED BY <2>1 DEF AnswersWithinLimits
<1>3. ASSUME NEW p \in 1 .. known, NEW f \in AsksOf[env], NEW k \in KindsOf[env],
             AskImageFormat(p, f, k)
      PROVE  AnswersWithinLimits'
  <2>1. PICK before : \E a \in ImageFormatProperties(Maps(described), k, before) :
          Ask(p, f, {[kind |-> k, properties |-> a]})
    BY <1>3 DEF AskImageFormat
  <2>2. PICK a \in ImageFormatProperties(Maps(described), k, before) :
          Ask(p, f, {[kind |-> k, properties |-> a]})
    BY <2>1
  <2>3. /\ told'.answers = {[kind |-> k, properties |-> a]}
        /\ told'.of = p /\ told'.described = described /\ UNCHANGED machine
    BY <2>2 DEF Ask
  <2>4. k \in ImageKinds /\ p \in 1 .. Len(machine) /\ machine[p] \in PhysicalDevice
    BY MachineType, DeviceAssumption DEF DeviceTypes, Setting
  <2>5. ASSUME described = p, k.type # "1D" PROVE Fits(machine[p].limits, k, a)
    <3>1. Maps(described) = machine[p]
      BY <2>4, <2>5 DEF Maps
    <3> QED BY <2>2, <2>4, <2>5, <3>1, AnswerFits
  <2> QED BY <2>3, <2>5 DEF AnswersWithinLimits
<1>4. CASE UNCHANGED deviceVars
  BY <1>1, <1>4 DEF deviceVars
<1>5. ASSUME \/ DestroyInstance \/ DestroyDevice \/ DestroyImage
             \/ \E f \in AsksOf[env], type \in {"2D", "3D"}, listed \in BOOLEAN :
                  CreateImage(f, type, listed)
             \/ \E g \in BCn : CreateImageView(g)
      PROVE  AnswersWithinLimits'
  <2>1. UNCHANGED machine /\ (UNCHANGED told \/ told' = NoAnswer)
    BY <1>5 DEF DestroyInstance, DestroyDevice, DestroyImage, CreateImage, CreateImageView
  <2> QED BY <1>1, <2>1
<1> QED
  <2>1. CASE DeviceNext
    <3>1. \/ \E p \in 1 .. known, f \in AsksOf[env] :
               AskFormat(p, f) \/ \E k \in KindsOf[env] : AskImageFormat(p, f, k)
          \/ UNCHANGED told /\ UNCHANGED machine
          \/ DestroyInstance \/ DestroyDevice \/ DestroyImage
          \/ \E f \in AsksOf[env], type \in {"2D", "3D"}, listed \in BOOLEAN :
               CreateImage(f, type, listed)
          \/ \E g \in BCn : CreateImageView(g)
      BY <2>1 DEF DeviceNext, CreateInstance, EnumeratePhysicalDevices, RequestDevice,
                  DriverRefuses, DriverCreates, PipelinesFail, PipelinesCreated, RegisterDevice
    <3> QED BY <1>1, <1>2, <1>3, <1>5, <3>1
  <2> QED BY <1>4, <2>1

\* What the layer answers for a format is possible on the device in question, when
\* the maps describe that device.
THEOREM AnswersFit == DeviceSpec => []AnswersWithinLimits
<1>1. DeviceInit => AnswersWithinLimits
  BY DEF DeviceInit, AnswersWithinLimits
<1> QED BY <1>1, DeviceTypesInit, DeviceTypesStep, LimitsStep, PTL DEF DeviceSpec

-----------------------------------------------------------------------------
(* The session.                                                            *)

\* A session measures as Profiling says, and goes the way of DeviceSession: what
\* the two have in common is the environment, which neither changes.
THEOREM SessionImplementsParts == SessionSpec => ProfilingSpec /\ DeviceSpec
<1>1. SessionInit => ProfilingInit /\ DeviceInit
  BY DEF SessionInit
<1>2. [SessionNext]_sessionVars => [ProfilingNext]_profilingVars /\ [DeviceNext]_deviceVars
  BY DEF SessionNext, sessionVars
<1> QED BY <1>1, <1>2, PTL DEF SessionSpec, ProfilingSpec, DeviceSpec

\* The types of a session.
THEOREM SessionTypes == SessionSpec => []TypeOK
BY SessionImplementsParts, ProfilingTypes, DeviceTyped, PTL DEF TypeOK

\* Reports, queries and the end of sampling in a session.
THEOREM SessionMeasures == SessionSpec => [](ReportAttributed /\ SamplingEnds /\ QueriesAnswered)
BY SessionImplementsParts, ReportsAttributed, SamplingEndsHolds, QueriesAreAnswered, PTL

\* Formats, features, objects and pools in a session.
THEOREM SessionDevices ==
  SessionSpec => [](/\ AnswersHonoured /\ AnswersWithinLimits /\ RequestsSupported
                    /\ TranscodeEnabled /\ PoolHoldsSets /\ Equipped
                    /\ OnlyTranscodersRemain /\ ViewsCompatible)
BY SessionImplementsParts, AnswersAreHonoured, AnswersFit, RequestsAreSupported,
   TranscodesAreEnabled, PoolsHoldSets, DevicesEquipped, TranscodersRemain,
   ViewsAreCompatible, PTL
=============================================================================
