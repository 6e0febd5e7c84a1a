--------------------------- MODULE TranscodeCopy ---------------------------
(***************************************************************************)
(* What one copy into an emulated BCn image puts into a command buffer     *)
(* (TranscodeAndCopyBufferToImage and TranscodeAndCopyBcnImageToImage of   *)
(* command_buffer.cpp, decompress_bcn_compute and the encoders of bcn.cpp):*)
(* the staging buffers, descriptor sets and image views each region        *)
(* creates, who owns them, and the commands it records.                    *)
(*                                                                         *)
(* Creating a buffer, allocating a set, creating a view and running a      *)
(* one-shot dispatch may each be refused.  A refused buffer is a null      *)
(* pointer that some later line dereferences (pc = "crashed"); a refused   *)
(* set or view makes decompress_bcn_compute return early, a result its     *)
(* caller ignores.                                                         *)
(***************************************************************************)
EXTENDS Integers, Sequences

CONSTANTS
  Setups,      \* device, image and call (see Setup)
  MaxRegions,  \* regions of a copy
  MayRefuse    \* what the driver may refuse, of Kinds

Buffers == {"blocks", "dump", "staging", "decoded", "marked", "debug", "analysis"}
DescriptorSets == {"decompress_set", "watermark_set", "encode_set"}
Kinds == Buffers \cup DescriptorSets \cup {"view", "oneshot"}
Regions == 1 .. MaxRegions

\* use_image_view ... sample: the flags BCnLayer_CreateDevice reads; format and
\* image type of the target; the entry point; whether the source's bytes are in
\* memory when the copy is recorded, or an earlier command of the same command
\* buffer is to write them.
Setup ==
  [use_image_view : BOOLEAN, to_etc2 : BOOLEAN, to_astc : BOOLEAN,
   add_watermark : BOOLEAN, debug_astc : BOOLEAN, dump : BOOLEAN, sample : BOOLEAN,
   threeD : BOOLEAN, half_float : BOOLEAN, entry : {"buffer", "image"},
   ready : BOOLEAN]

ASSUME Parameters ==
  /\ Setups \subseteq Setup
  /\ \A s \in Setups : s.use_image_view => ~ (s.to_etc2 \/ s.to_astc \/ s.add_watermark)
  /\ MaxRegions \in Nat \ {0}
  /\ MayRefuse \subseteq Kinds

VARIABLES
  setup,
  pc,
  depths,    \* the depth of each region so far; the last is in progress
  held,      \* buffers the locals of the calls in progress own
  created,   \* every <<kind, region>> the driver has created
  tracked,   \* those handed to currentStagingResources
  refused,   \* every <<kind, region>> the driver has refused
  memory,    \* what was done to the source's blocks to get what each place holds
  cmds       \* commands of the command buffer that have not been executed

vars == <<setup, pc, depths, held, created, tracked, refused, memory, cmds>>

region == Len(depths)
depth == depths[region]

\* transcode_to_etc2 and transcode_to_astc of the image: never of a 3D image.
transcode_to_etc2 == setup.to_etc2 /\ ~ setup.threeD
transcode_to_astc == setup.to_astc /\ ~ setup.threeD /\ ~ transcode_to_etc2
enable_transcode == transcode_to_etc2 \/ transcode_to_astc

\* add_watermark and use_image_view as decompress_bcn_compute sees them for a
\* region of depth d, and the use_image_view of its caller.
watermarked(d) == setup.add_watermark /\ d = 1 /\ ~ setup.half_float
view_used(d) == setup.use_image_view /\ d = 1
\* Mutant: the device flag is dropped from the condition.
CallerAlwaysUsesView(d) == setup.entry = "buffer" /\ ~ (d = 1 \/ enable_transcode)

caller_uses_view(d) ==
  setup.use_image_view /\ setup.entry = "buffer" /\ ~ (d = 1 \/ enable_transcode)

------------------------------------------------------------------------------
(* Commands.  A place is <<buffer, region>>, or one of the application's.   *)

Place(kind) == <<kind, region>>
Image == <<"image", region>>
Source == <<"source", 0>>
AppCommand == <<"app", 0>>

Copied == IF setup.entry = "image" THEN Place("blocks") ELSE Source

Copy(from, to) == [op |-> "copy", stage |-> "transfer", from |-> from, to |-> {to}]
Shader(op, from, to) == [op |-> op, stage |-> "compute", from |-> from, to |-> to]
Barrier(place, before, after) ==
  [op |-> "barrier", stage |-> before, from |-> place, to |-> {}, after |-> after]

Places == (Buffers \cup {"image"}) \X Regions \cup {Source, AppCommand}

\* What a command makes of what places hold.
Execute(c, contents) ==
  [p \in Places |->
     IF p \notin c.to THEN contents[p]
     ELSE IF c.op = "copy" THEN contents[c.from] ELSE Append(contents[c.from], c.op)]

Record(commands) == cmds' = cmds \o commands /\ UNCHANGED memory

\* A dispatch is recorded, or, when counters are sampled, submitted and waited
\* for on the spot; a one-shot that fails is only logged.
Dispatch(barriers, shader, no) ==
  IF setup.sample
  THEN /\ memory' = IF "oneshot" \in no THEN memory ELSE Execute(shader, memory)
       /\ UNCHANGED cmds
  ELSE Record(barriers \o <<shader>>)
OneShot == IF setup.sample THEN {"oneshot"} ELSE {}

\* Of the requested kinds, those the driver refuses this time.
Refuse(no) == refused' = refused \cup (no \X {region})
Refusals(kinds) == SUBSET (kinds \cap MayRefuse)

\* create_staging_buffer: a buffer or a null pointer.
create_staging_buffer(kind) ==
  \E no \in Refusals({kind}) :
     /\ Refuse(no)
     /\ held' = held \cup ({kind} \ no)
     /\ created' = created \cup (({kind} \ no) \X {region})

\* A buffer used and handed over in the same breath: no buffer, no survival.
UsedAtOnce(kind, commands, next) ==
  \E no \in Refusals({kind}) :
     /\ Refuse(no)
     /\ IF no = {}
        THEN /\ created' = created \cup {Place(kind)}
             /\ tracked' = tracked \cup {Place(kind)}
             /\ Record(commands)
             /\ pc' = next
        ELSE pc' = "crashed" /\ UNCHANGED <<created, tracked, memory, cmds>>

------------------------------------------------------------------------------
Init ==
  /\ setup \in Setups
  /\ pc = "start"
  /\ depths = <<>>
  /\ held = {} /\ created = {} /\ tracked = {} /\ refused = {}
  /\ memory = [p \in Places |-> IF p = AppCommand \/ (p = Source /\ setup.ready)
                                THEN <<>> ELSE <<"undefined">>]
  /\ cmds = IF setup.ready THEN <<>> ELSE <<Copy(AppCommand, Source)>>

\* The region loops of the four entry points.
NextRegion ==
  /\ pc = "start"
  /\ region < MaxRegions
  /\ \E d \in IF setup.threeD THEN {1, 2} ELSE {1} : depths' = Append(depths, d)
  /\ pc' = IF setup.entry = "image" THEN "blocks" ELSE "dump"
  /\ UNCHANGED <<setup, held, created, tracked, refused, memory, cmds>>

Return ==
  /\ pc = "start"
  /\ region > 0
  /\ pc' = "done"
  /\ UNCHANGED <<setup, depths, held, created, tracked, refused, memory, cmds>>

\* TranscodeAndCopyBcnImageToImage, first half: the source image's blocks.
CopyImageToBlocks ==
  /\ pc = "blocks"
  /\ create_staging_buffer("blocks")
  /\ IF "blocks" \in held'
     THEN /\ Record(<<Copy(Source, Place("blocks")),
                      Barrier(Place("blocks"), "transfer", "compute")>>)
          /\ pc' = "dump"
     ELSE pc' = "crashed" /\ UNCHANGED <<memory, cmds>>
  /\ UNCHANGED <<setup, depths, tracked>>

\* TranscodeAndCopyBufferToImage: the blocks of a dump.
DumpBlocks ==
  /\ pc = "dump"
  /\ setup.dump /\ depth = 1
  /\ UsedAtOnce("dump", <<Copy(Copied, Place("dump"))>>, "staging")
  /\ UNCHANGED <<setup, depths, held>>

NoDump ==
  /\ pc = "dump"
  /\ ~ (setup.dump /\ depth = 1)
  /\ pc' = "staging"
  /\ UNCHANGED <<setup, depths, held, created, tracked, refused, memory, cmds>>

\* Creates the buffer if it is wanted, and goes on either way.
CreateIf(wanted, kind) ==
  IF wanted THEN create_staging_buffer(kind) ELSE UNCHANGED <<held, created, refused>>

CreateStaging ==
  /\ pc = "staging"
  /\ CreateIf(~ caller_uses_view(depth), "staging")
  /\ pc' = "decoded"
  /\ UNCHANGED <<setup, depths, tracked, memory, cmds>>

\* decompress_bcn_compute: its two intermediate buffers.
CreateDecoded ==
  /\ pc = "decoded"
  /\ CreateIf(enable_transcode, "decoded")
  /\ pc' = "marked"
  /\ UNCHANGED <<setup, depths, tracked, memory, cmds>>

CreateMarked ==
  /\ pc = "marked"
  /\ CreateIf(watermarked(depth), "marked")
  /\ pc' = "set"
  /\ UNCHANGED <<setup, depths, tracked, memory, cmds>>

\* An early return of decompress_bcn_compute drops its two buffers; struct
\* buffer has no destructor.
EarlyReturn == held' = held \ {"decoded", "marked"} /\ pc' = "upload"

\* Where the decompressed texels go, unless to the image itself.
targetBuffer ==
  IF enable_transcode THEN "decoded"
  ELSE IF watermarked(depth) THEN "marked" ELSE "staging"

AllocateDecompressSet ==
  /\ pc = "set"
  /\ \E no \in Refusals({"decompress_set"}) :
       /\ Refuse(no)
       /\ IF no = {}
          THEN /\ created' = created \cup {Place("decompress_set")}
               /\ tracked' = tracked \cup {Place("decompress_set")}
               /\ pc' = IF ~ view_used(depth) /\ targetBuffer \notin held
                        THEN "crashed" ELSE "decompress"
               /\ UNCHANGED held
          ELSE EarlyReturn /\ UNCHANGED <<created, tracked>>
  /\ UNCHANGED <<setup, depths, memory, cmds>>

DecompressToBuffer ==
  /\ pc = "decompress"
  /\ ~ view_used(depth)
  /\ \E no \in Refusals(OneShot) :
       /\ Refuse(no)
       /\ Dispatch(<<>>, Shader("decompress", Copied, {Place(targetBuffer)}), no)
  /\ pc' = "watermark"
  /\ UNCHANGED <<setup, depths, held, created, tracked>>

DecompressToView ==
  /\ pc = "decompress"
  /\ view_used(depth)
  /\ \E no \in Refusals({"view"} \cup OneShot) :
       /\ Refuse(IF "view" \in no THEN {"view"} ELSE no)
       /\ IF "view" \in no
          THEN EarlyReturn /\ UNCHANGED <<created, tracked, memory, cmds>>
          ELSE /\ created' = created \cup {Place("view")}
               /\ tracked' = tracked \cup {Place("view")}
               /\ Dispatch(<<>>, Shader("decompress", Copied, {Image}), no)
               /\ pc' = "watermark"
               /\ UNCHANGED held
  /\ UNCHANGED <<setup, depths>>

\* add_debug_watermark, reading the target and writing the staging buffer or,
\* before an encoder, the second intermediate one.
AddWatermark ==
  /\ pc = "watermark"
  /\ watermarked(depth)
  /\ LET destination == IF enable_transcode THEN "marked" ELSE "staging"
     IN  \E no \in Refusals({"watermark_set"} \cup OneShot) :
       IF "watermark_set" \in no
       THEN /\ Refuse({"watermark_set"})
            /\ EarlyReturn
            /\ UNCHANGED <<created, tracked, memory, cmds>>
       ELSE /\ created' = created \cup {Place("watermark_set")}
            /\ tracked' = tracked \cup {Place("watermark_set")}
            /\ UNCHANGED held
            /\ IF destination \in held
               THEN /\ Refuse(no)
                    /\ Dispatch(<<Barrier(Place(targetBuffer), "compute", "compute")>>,
                                Shader("watermark", Place(targetBuffer),
                                       {Place(destination)}), no)
                    /\ pc' = "encode"
               ELSE pc' = "crashed" /\ UNCHANGED <<refused, memory, cmds>>
  /\ UNCHANGED <<setup, depths>>

NoWatermark ==
  /\ pc = "watermark"
  /\ ~ watermarked(depth)
  /\ Record(IF view_used(depth) THEN <<Barrier(Image, "compute", "transfer")>> ELSE <<>>)
  /\ pc' = "encode"
  /\ UNCHANGED <<setup, depths, held, created, tracked, refused>>

\* Mutant: the encoder reads the texels without their watermark.
EncodesUnmarked(d) == "decoded"

sourceDecodedBuffer(d) == IF watermarked(d) THEN "marked" ELSE "decoded"

\* The encoders: the descriptor set, then the staging buffer's handle.
AllocateEncodeSet ==
  /\ pc = "encode"
  /\ enable_transcode
  /\ \E no \in Refusals({"encode_set"}) :
       /\ Refuse(no)
       /\ IF no = {}
          THEN /\ created' = created \cup {Place("encode_set")}
               /\ tracked' = IF transcode_to_etc2 THEN tracked \cup {Place("encode_set")}
                             ELSE tracked
               /\ pc' = IF "staging" \notin held THEN "crashed"
                        ELSE IF transcode_to_etc2 THEN "etc2"
                        ELSE IF setup.debug_astc THEN "debug" ELSE "astc"
               /\ UNCHANGED held
          ELSE EarlyReturn /\ UNCHANGED <<created, tracked>>
  /\ UNCHANGED <<setup, depths, memory, cmds>>

NoEncode ==
  /\ pc = "encode"
  /\ ~ enable_transcode
  /\ pc' = "collect"
  /\ UNCHANGED <<setup, depths, held, created, tracked, refused, memory, cmds>>

\* The barrier and the dispatch of either encoder.
Encode(outputs, no) ==
  LET from == Place(sourceDecodedBuffer(depth))
  IN  Dispatch(<<Barrier(from, "compute", "compute")>>, Shader("encode", from, outputs), no)

EncodeEtc2 ==
  /\ pc = "etc2"
  /\ \E no \in Refusals(OneShot) : Refuse(no) /\ Encode({Place("staging")}, no)
  /\ pc' = "collect"
  /\ UNCHANGED <<setup, depths, held, created, tracked>>

DebugBuffer ==
  /\ pc = "debug"
  /\ UsedAtOnce("debug", <<>>, "analysis")
  /\ UNCHANGED <<setup, depths, held>>

AnalysisBuffer ==
  /\ pc = "analysis"
  /\ UsedAtOnce("analysis", <<>>, "astc")
  /\ UNCHANGED <<setup, depths, held>>

\* Mutant: the set of the ASTC encoder is never handed over.
EncodeAstcUntracked ==
  /\ pc = "astc"
  /\ \E no \in Refusals(OneShot) :
       /\ Refuse(no)
       /\ Encode(IF setup.debug_astc THEN {Place("staging"), Place("debug")}
                 ELSE {Place("staging")}, no)
  /\ pc' = IF setup.debug_astc THEN "analyze" ELSE "collect"
  /\ UNCHANGED <<setup, depths, held, created, tracked>>

\* The ASTC encoder hands its set over only here.
EncodeAstc ==
  /\ pc = "astc"
  /\ tracked' = tracked \cup {Place("encode_set")}
  /\ \E no \in Refusals(OneShot) :
       /\ Refuse(no)
       /\ Encode(IF setup.debug_astc THEN {Place("staging"), Place("debug")}
                 ELSE {Place("staging")}, no)
  /\ pc' = IF setup.debug_astc THEN "analyze" ELSE "collect"
  /\ UNCHANGED <<setup, depths, held, created>>

AnalyzeAstc ==
  /\ pc = "analyze"
  /\ \E no \in Refusals(OneShot) :
       /\ Refuse(no)
       /\ Dispatch(<<Barrier(Place("debug"), "compute", "compute")>>,
                   Shader("analyze", Place("debug"), {Place("analysis")}), no)
  /\ pc' = "collect"
  /\ UNCHANGED <<setup, depths, held, created, tracked>>

\* Mutant: the intermediate buffers stay with their locals too.
CollectCopies ==
  /\ pc = "collect"
  /\ tracked' = tracked \cup ((held \cap {"decoded", "marked"}) \X {region})
  /\ pc' = "upload"
  /\ UNCHANGED <<setup, depths, held, created, refused, memory, cmds>>

\* decompress_bcn_compute succeeds: the intermediate buffers are handed over.
Collect ==
  /\ pc = "collect"
  /\ tracked' = tracked \cup ((held \cap {"decoded", "marked"}) \X {region})
  /\ held' = held \ {"decoded", "marked"}
  /\ pc' = "upload"
  /\ UNCHANGED <<setup, depths, created, refused, memory, cmds>>

\* Mutant: nothing orders the transfer after the shader.
UploadCommandsUnordered ==
  <<Copy(Place("staging"), Image)>>

UploadCommands ==
  <<Barrier(Place("staging"), "compute", "transfer"), Copy(Place("staging"), Image)>>

\* Back in TranscodeAndCopyBufferToImage, whatever the result was.
Upload ==
  /\ pc = "upload"
  /\ ~ caller_uses_view(depth)
  /\ IF "staging" \in held
     THEN /\ Record(UploadCommands)
          /\ tracked' = tracked \cup {Place("staging")}
          /\ held' = held \ {"staging"}
          /\ pc' = "finish"
     ELSE pc' = "crashed" /\ UNCHANGED <<tracked, held, memory, cmds>>
  /\ UNCHANGED <<setup, depths, created, refused>>

NoUpload ==
  /\ pc = "upload"
  /\ caller_uses_view(depth)
  /\ pc' = "finish"
  /\ UNCHANGED <<setup, depths, held, created, tracked, refused, memory, cmds>>

\* TranscodeAndCopyBcnImageToImage, second half: the blocks are handed over.
FinishRegion ==
  /\ pc = "finish"
  /\ tracked' = tracked \cup ((held \cap {"blocks"}) \X {region})
  /\ held' = held \ {"blocks"}
  /\ pc' = "start"
  /\ UNCHANGED <<setup, depths, created, refused, memory, cmds>>

\* The queue executes the command buffer, one command after the other.
ExecuteNext ==
  /\ pc = "done"
  /\ cmds # <<>>
  /\ memory' = Execute(Head(cmds), memory)
  /\ cmds' = Tail(cmds)
  /\ UNCHANGED <<setup, pc, depths, held, created, tracked, refused>>

Next ==
  \/ NextRegion \/ Return \/ CopyImageToBlocks \/ DumpBlocks \/ NoDump
  \/ CreateStaging \/ CreateDecoded \/ CreateMarked \/ AllocateDecompressSet
  \/ DecompressToBuffer \/ DecompressToView \/ AddWatermark \/ NoWatermark
  \/ AllocateEncodeSet \/ NoEncode \/ EncodeEtc2 \/ DebugBuffer \/ AnalysisBuffer
  \/ EncodeAstc \/ AnalyzeAstc \/ Collect \/ Upload \/ NoUpload \/ FinishRegion
  \/ ExecuteNext

Spec == Init /\ [][Next]_vars

------------------------------------------------------------------------------
Shaders == {"decompress", "watermark", "encode", "analyze"}
Commands ==
  [op : {"copy"}, stage : {"transfer"}, from : Places, to : SUBSET Places]
    \cup [op : Shaders, stage : {"compute"},
          from : Places, to : SUBSET Places]
    \cup [op : {"barrier"}, stage : {"compute", "transfer"}, from : Places,
          to : {{}}, after : {"compute", "transfer"}]

\* The types of the variables; between regions no local owns a buffer, and a
\* buffer has one owner.
TypeOK ==
  /\ setup \in Setups
  /\ pc \in {"start", "blocks", "dump", "staging", "decoded", "marked", "set",
             "decompress", "watermark", "encode", "etc2", "debug", "analysis", "astc",
             "analyze", "collect", "upload", "finish", "done", "crashed"}
  /\ depths \in Seq({1, 2}) /\ region <= MaxRegions
  /\ held \subseteq Buffers
  /\ pc \in {"start", "done"} => held = {}
  /\ created \subseteq Kinds \X Regions /\ refused \subseteq Kinds \X Regions
  /\ tracked \subseteq created
  /\ (held \X {region}) \subseteq created \ tracked
  /\ memory \in [Places -> Seq(Shaders \cup {"undefined"})]
  /\ \A i \in DOMAIN cmds : cmds[i] \in Commands

\* What is to be done to the blocks of a region.
Expected(r) ==
  <<"decompress">> \o (IF watermarked(depths[r]) THEN <<"watermark">> ELSE <<>>)
                   \o (IF enable_transcode THEN <<"encode">> ELSE <<>>)

Granted(r) == \A refusal \in refused : refusal[2] # r

\* A one-shot dispatch finds its source in memory only if no earlier command of
\* the command buffer is to write it: an image's blocks are copied out by one.
SourceInTime == setup.sample => setup.ready /\ setup.entry = "buffer"

\* Once executed, every region of a copy leaves its part of the image holding the source's
\* texels, decompressed, watermarked if asked and encoded if asked, in this
\* order, unless the driver refused something for this very region.
Delivered ==
  pc = "done" /\ cmds = <<>> /\ SourceInTime =>
    \A r \in 1 .. region : Granted(r) => memory[<<"image", r>>] = Expected(r)

\* Delivered, when the texels go through a staging buffer.
DeliveredThroughStaging == ~ setup.use_image_view => Delivered

\* What a command of the layer reads from a buffer of the layer is made visible
\* by a barrier between the stage that wrote it and the stage that reads it.  The
\* copy for a dump is left out: nothing orders it after the copy of an image's
\* blocks.
ReadsOrdered ==
  pc = "done" =>
    \A i, j \in DOMAIN cmds :
       /\ i < j /\ cmds[j].op # "barrier" /\ cmds[j].from[1] \in Buffers
       /\ cmds[j].from \in cmds[i].to
       /\ \A p \in cmds[j].to : p[1] # "dump"
       => \E k \in i + 1 .. j - 1 :
            /\ cmds[k].op = "barrier" /\ cmds[k].from = cmds[j].from
            /\ cmds[k].stage = cmds[i].stage /\ cmds[k].after = cmds[j].stage

\* When the copy returns, everything the driver created for it is in the staging
\* resources, to be released when the command buffer has executed: every
\* descriptor set and view whatever was refused, and every buffer but the
\* intermediate ones of a region whose set or view was refused.
NothingLost ==
  pc = "done" =>
    \A x \in created \ tracked :
       /\ x[1] \in {"decoded", "marked"}
       /\ \E y \in refused : y[2] = x[2] /\ y[1] \in DescriptorSets \cup {"view"}

\* A null buffer is dereferenced only if the driver refused a buffer for the
\* region in progress.
NullOnlyIfRefused ==
  pc = "crashed" => \E b \in Buffers : <<b, region>> \in refused

\* NullOnlyIfRefused, but for a 3D region when image views are used.
NullOnlyIfRefusedOr3D ==
  ~ (setup.use_image_view /\ region > 0 /\ depth > 1) => NullOnlyIfRefused
=============================================================================
