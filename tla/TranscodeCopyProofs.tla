------------------------ MODULE TranscodeCopyProofs ------------------------
(***************************************************************************)
(* Proofs about TranscodeCopy for any set of setups, any number of regions *)
(* and any refusals: who owns each object a copy creates, when a null      *)
(* buffer is dereferenced, that barriers order what is read, and that the  *)
(* right texels reach the image.                                           *)
(***************************************************************************)
EXTENDS TranscodeCopy, SequenceFacts, TLAPS

\* Where the locals of the calls in progress own which buffer.
AfterMarked == {"set", "decompress", "watermark", "encode", "etc2", "debug", "analysis",
                "astc", "analyze", "collect"}
AfterDecoded == {"marked"} \cup AfterMarked
AfterStaging == {"decoded", "upload"} \cup AfterDecoded

\* The types, a region in progress wherever one is worked on.
Types ==
  /\ setup \in Setups
  /\ pc \in {"start", "blocks", "dump", "staging", "finish", "done", "crashed"} \cup AfterStaging
  /\ depths \in Seq({1, 2})
  /\ region <= MaxRegions
  /\ pc # "start" => region > 0
  /\ created \subseteq Kinds \X Regions
  /\ refused \subseteq Kinds \X Regions

\* Which of its three buffers the region in progress wants.
WantsStaging == ~ caller_uses_view(depth)
WantsDecoded == enable_transcode
WantsMarked == watermarked(depth)

\* What the locals hold at each point.
Locals ==
  /\ held \subseteq {"blocks", "staging", "decoded", "marked"}
  /\ "blocks" \in held => pc \notin {"start", "blocks", "done"}
  /\ "staging" \in held => pc \in AfterStaging \cup {"crashed"} /\ WantsStaging
  /\ "decoded" \in held => pc \in AfterDecoded \cup {"crashed"}
  /\ "marked" \in held => pc \in AfterMarked \cup {"crashed"}

Fresh ==
  /\ \A x \in created : x[2] <= region
  /\ pc = "blocks" => Place("blocks") \notin created
  /\ pc \in {"blocks", "dump", "staging"} => Place("staging") \notin created
  /\ pc \in {"blocks", "dump", "staging", "decoded"} => Place("decoded") \notin created
  /\ pc \in {"blocks", "dump", "staging", "decoded", "marked"} => Place("marked") \notin created

Owned ==
  /\ tracked \subseteq created
  /\ \A k \in held : Place(k) \in created /\ Place(k) \notin tracked
  /\ pc \in {"debug", "analysis", "astc"} => Place("encode_set") \in created

Excused(x) ==
  /\ x[1] \in {"decoded", "marked"}
  /\ \E y \in refused : y[2] = x[2] /\ y[1] \in DescriptorSets \cup {"view"}
Accounted ==
  pc # "crashed" =>
    \A x \in created \ tracked :
       \/ x[2] = region /\ x[1] \in held
       \/ x = Place("encode_set") /\ pc \in {"debug", "analysis", "astc"}
       \/ Excused(x)

Wanted ==
  /\ pc \in AfterStaging /\ WantsStaging =>
       "staging" \in held \/ Place("staging") \in refused
  /\ pc \in AfterDecoded /\ WantsDecoded =>
       "decoded" \in held \/ Place("decoded") \in refused
  /\ pc \in AfterMarked /\ WantsMarked =>
       "marked" \in held \/ Place("marked") \in refused

Ownership == Locals /\ Fresh /\ Owned /\ Accounted /\ Wanted /\ NullOnlyIfRefusedOr3D

LEMMA Literals ==
  /\ Buffers \subseteq Kinds /\ DescriptorSets \subseteq Kinds
  /\ "view" \in Kinds /\ "oneshot" \in Kinds
  /\ \A k \in DescriptorSets \cup {"view", "oneshot"} : k \notin Buffers
BY DEF Kinds, Buffers, DescriptorSets

LEMMA BufferCreated ==
  ASSUME NEW kind, create_staging_buffer(kind)
  PROVE  \/ /\ held' = held \cup {kind} /\ created' = created \cup {Place(kind)}
            /\ refused' = refused
         \/ /\ held' = held /\ created' = created
            /\ refused' = refused \cup {Place(kind)}
<1>1. PICK no \in SUBSET {kind} : /\ Refuse(no)
                                 /\ held' = held \cup ({kind} \ no)
                                 /\ created' = created \cup (({kind} \ no) \X {region})
  BY DEF create_staging_buffer, Refusals
<1>2. CASE no = {}
  <2>1. no \X {region} = {} /\ {kind} \X {region} = {Place(kind)} /\ {kind} \ no = {kind}
    BY <1>2 DEF Place
  <2> QED BY <1>1, <2>1 DEF Refuse
<1>3. CASE no = {kind}
  <2>1. /\ {kind} \ no = {} /\ {} \X {region} = {}
        /\ no \X {region} = {Place(kind)}
    BY <1>3 DEF Place
  <2> QED BY <1>1, <2>1 DEF Refuse
<1> QED BY <1>2, <1>3

LEMMA BufferUsed ==
  ASSUME NEW kind, NEW commands, NEW next, UsedAtOnce(kind, commands, next)
  PROVE  \/ /\ pc' = next /\ created' = created \cup {Place(kind)}
            /\ tracked' = tracked \cup {Place(kind)} /\ refused' = refused
            /\ cmds' = cmds \o commands /\ memory' = memory
         \/ /\ pc' = "crashed" /\ created' = created /\ tracked' = tracked
            /\ refused' = refused \cup {Place(kind)}
            /\ cmds' = cmds /\ memory' = memory
<1>1. PICK no \in SUBSET {kind} :
        /\ Refuse(no)
        /\ IF no = {}
           THEN /\ created' = created \cup {Place(kind)}
                /\ tracked' = tracked \cup {Place(kind)}
                /\ Record(commands)
                /\ pc' = next
           ELSE pc' = "crashed" /\ UNCHANGED <<created, tracked, memory, cmds>>
  BY DEF UsedAtOnce, Refusals
<1>2. CASE no = {}
  <2>1. no \X {region} = {}
    BY <1>2
  <2> QED BY <1>1, <1>2, <2>1 DEF Refuse, Record
<1>3. CASE no = {kind}
  <2>1. no \X {region} = {Place(kind)}
    BY <1>3 DEF Place
  <2> QED BY <1>1, <1>3, <2>1 DEF Refuse
<1> QED BY <1>2, <1>3

LEMMA RefusedMore ==
  ASSUME NEW no, Refuse(no)
  PROVE  /\ refused \subseteq refused'
         /\ \A k \in no : Place(k) \in refused'
         /\ \A x \in refused' : x \in refused \/ \E k \in no : x = Place(k)
BY DEF Refuse, Place

LEMMA RefusedTyped ==
  ASSUME NEW no \in SUBSET Kinds, Refuse(no), region \in Regions,
         refused \subseteq Kinds \X Regions
  PROVE  refused' \subseteq Kinds \X Regions
BY DEF Refuse

LEMMA TypesStep == Parameters /\ Types /\ [Next]_vars => Types'
<1> SUFFICES ASSUME Parameters, Types, [Next]_vars
             PROVE  Types'
  OBVIOUS
<1> USE DEF AfterMarked, AfterDecoded, AfterStaging
<1>0. /\ region \in Nat /\ MaxRegions \in Nat /\ (region > 0 => region \in Regions)
      /\ \A k \in Kinds : region > 0 => Place(k) \in Kinds \X Regions
  BY DEF Types, Parameters, Regions, Place, region
<1>k. /\ Buffers \subseteq Kinds /\ DescriptorSets \subseteq Kinds
      /\ "view" \in Kinds /\ "oneshot" \in Kinds
  BY Literals
<1>1. CASE NextRegion
  <2>1. PICK d \in {1, 2} : depths' = Append(depths, d)
    BY <1>1 DEF NextRegion
  <2>2. depths' \in Seq({1, 2}) /\ region' = region + 1
    BY <2>1 DEF Types, region
  <2> QED BY <1>1, <1>0, <2>2 DEF NextRegion, Types
<1>2. CASE Return
  BY <1>2 DEF Return, Types, region
<1>3. CASE CopyImageToBlocks
  <2>1. "blocks" \in Kinds /\ create_staging_buffer("blocks")
    BY <1>3, <1>k DEF CopyImageToBlocks, Buffers
  <2> QED BY <1>3, <1>0, <2>1, BufferCreated DEF CopyImageToBlocks, Types, region
<1>4. CASE DumpBlocks
  <2>1. "dump" \in Kinds /\ UsedAtOnce("dump", <<Copy(Copied, Place("dump"))>>, "staging")
    BY <1>4, <1>k DEF DumpBlocks, Buffers
  <2> QED BY <1>4, <1>0, <2>1, BufferUsed DEF DumpBlocks, Types, region
<1>5. CASE NoDump
  BY <1>5 DEF NoDump, Types, region
<1>6. CASE CreateStaging
  <2>1. "staging" \in Kinds /\ (create_staging_buffer("staging") \/ UNCHANGED <<held, created, refused>>)
    BY <1>6, <1>k DEF CreateStaging, CreateIf, Buffers
  <2> QED BY <1>6, <1>0, <2>1, BufferCreated DEF CreateStaging, Types, region
<1>7. CASE CreateDecoded
  <2>1. "decoded" \in Kinds /\ (create_staging_buffer("decoded") \/ UNCHANGED <<held, created, refused>>)
    BY <1>7, <1>k DEF CreateDecoded, CreateIf, Buffers
  <2> QED BY <1>7, <1>0, <2>1, BufferCreated DEF CreateDecoded, Types, region
<1>8. CASE CreateMarked
  <2>1. "marked" \in Kinds /\ (create_staging_buffer("marked") \/ UNCHANGED <<held, created, refused>>)
    BY <1>8, <1>k DEF CreateMarked, CreateIf, Buffers
  <2> QED BY <1>8, <1>0, <2>1, BufferCreated DEF CreateMarked, Types, region
<1>9. CASE AllocateDecompressSet
  <2>1. PICK no \in SUBSET {"decompress_set"} :
          /\ Refuse(no)
          /\ created' \in {created, created \cup {Place("decompress_set")}}
          /\ pc' \in {"crashed", "decompress", "upload"}
    BY <1>9 DEF AllocateDecompressSet, Refusals, EarlyReturn
  <2>2. no \in SUBSET Kinds /\ "decompress_set" \in Kinds
    BY <1>k DEF DescriptorSets
  <2> QED BY <1>9, <1>0, <2>1, <2>2, RefusedTyped DEF AllocateDecompressSet, Types, region
<1>10. CASE DecompressToBuffer
  <2>1. PICK no \in SUBSET {"oneshot"} : Refuse(no)
    BY <1>10 DEF DecompressToBuffer, Refusals, OneShot
  <2> QED BY <1>10, <1>0, <1>k, <2>1, RefusedTyped DEF DecompressToBuffer, Types, region
<1>11. CASE DecompressToView
  <2>1. PICK no \in SUBSET {"view", "oneshot"} :
          /\ Refuse(IF "view" \in no THEN {"view"} ELSE no)
          /\ created' \in {created, created \cup {Place("view")}}
          /\ pc' \in {"watermark", "upload"}
    BY <1>11 DEF DecompressToView, Refusals, OneShot, EarlyReturn
  <2>2. (IF "view" \in no THEN {"view"} ELSE no) \in SUBSET Kinds
    BY <1>k
  <2> QED BY <1>11, <1>0, <1>k, <2>1, <2>2, RefusedTyped DEF DecompressToView, Types, region
<1>12. CASE AddWatermark
  <2>1. /\ created' \in {created, created \cup {Place("watermark_set")}}
        /\ pc' \in {"encode", "upload", "crashed"}
        /\ refused' = refused \/ \E no \in SUBSET Kinds : Refuse(no)
    BY <1>12, <1>k DEF AddWatermark, Refusals, OneShot, EarlyReturn, DescriptorSets
  <2>2. "watermark_set" \in Kinds
    BY <1>k DEF DescriptorSets
  <2> QED BY <1>12, <1>0, <1>k, <2>1, <2>2, RefusedTyped DEF AddWatermark, Types, region
<1>13. CASE NoWatermark
  BY <1>13 DEF NoWatermark, Types, region
<1>14. CASE AllocateEncodeSet
  <2>1. PICK no \in SUBSET {"encode_set"} :
          /\ Refuse(no)
          /\ created' \in {created, created \cup {Place("encode_set")}}
          /\ pc' \in {"crashed", "etc2", "debug", "astc", "upload"}
    BY <1>14 DEF AllocateEncodeSet, Refusals, EarlyReturn
  <2>2. no \in SUBSET Kinds /\ "encode_set" \in Kinds
    BY <1>k DEF DescriptorSets
  <2> QED BY <1>14, <1>0, <2>1, <2>2, RefusedTyped DEF AllocateEncodeSet, Types, region
<1>15. CASE NoEncode
  BY <1>15 DEF NoEncode, Types, region
<1>16. CASE EncodeEtc2
  <2>1. PICK no \in SUBSET {"oneshot"} : Refuse(no)
    BY <1>16 DEF EncodeEtc2, Refusals, OneShot
  <2> QED BY <1>16, <1>0, <1>k, <2>1, RefusedTyped DEF EncodeEtc2, Types, region
<1>17. CASE DebugBuffer
  <2>1. "debug" \in Kinds /\ UsedAtOnce("debug", <<>>, "analysis")
    BY <1>17, <1>k DEF DebugBuffer, Buffers
  <2> QED BY <1>17, <1>0, <2>1, BufferUsed DEF DebugBuffer, Types, region
<1>18. CASE AnalysisBuffer
  <2>1. "analysis" \in Kinds /\ UsedAtOnce("analysis", <<>>, "astc")
    BY <1>18, <1>k DEF AnalysisBuffer, Buffers
  <2> QED BY <1>18, <1>0, <2>1, BufferUsed DEF AnalysisBuffer, Types, region
<1>19. CASE EncodeAstc
  <2>1. PICK no \in SUBSET {"oneshot"} : Refuse(no)
    BY <1>19 DEF EncodeAstc, Refusals, OneShot
  <2> QED BY <1>19, <1>0, <1>k, <2>1, RefusedTyped DEF EncodeAstc, Types, region
<1>20. CASE AnalyzeAstc
  <2>1. PICK no \in SUBSET {"oneshot"} : Refuse(no)
    BY <1>20 DEF AnalyzeAstc, Refusals, OneShot
  <2> QED BY <1>20, <1>0, <1>k, <2>1, RefusedTyped DEF AnalyzeAstc, Types, region
<1>21. CASE Collect
  BY <1>21 DEF Collect, Types, region
<1>22. CASE Upload
  BY <1>22 DEF Upload, Types, region
<1>23. CASE NoUpload
  BY <1>23 DEF NoUpload, Types, region
<1>24. CASE FinishRegion
  BY <1>24 DEF FinishRegion, Types, region
<1>25. CASE ExecuteNext
  BY <1>25 DEF ExecuteNext, Types, region
<1>26. CASE UNCHANGED vars
  BY <1>26 DEF vars, Types, region
<1> QED
  BY <1>1, <1>2, <1>3, <1>4, <1>5, <1>6, <1>7, <1>8, <1>9, <1>10, <1>11, <1>12, <1>13, <1>14,
     <1>15, <1>16, <1>17, <1>18, <1>19, <1>20, <1>21, <1>22, <1>23, <1>24, <1>25, <1>26 DEF Next

LEMMA SameWants ==
  ASSUME UNCHANGED <<setup, depths>>
  PROVE  /\ region' = region /\ depth' = depth
         /\ WantsStaging' <=> WantsStaging
         /\ WantsDecoded' <=> WantsDecoded
         /\ WantsMarked' <=> WantsMarked
<1>1. region' = region /\ depth' = depth
  BY DEF region, depth
<1> QED
  BY <1>1 DEF WantsStaging, WantsDecoded, WantsMarked, caller_uses_view, enable_transcode,
     transcode_to_etc2, transcode_to_astc, watermarked

\* An early return of decompress_bcn_compute abandons the intermediate buffers,
\* and the refusal of a set or of a view accounts for them.
LEMMA EarlyReturned ==
  ASSUME Ownership, UNCHANGED <<setup, depths, created, tracked>>,
         pc \in AfterMarked \ {"debug", "analysis", "astc"},
         EarlyReturn, NEW no, no \cap (DescriptorSets \cup {"view"}) # {}, Refuse(no)
  PROVE  Ownership'
<1> USE DEF AfterMarked, AfterDecoded, AfterStaging
<1>1. /\ held' = held \ {"decoded", "marked"} /\ pc' = "upload"
      /\ refused \subseteq refused'
  BY RefusedMore DEF EarlyReturn
<1>r. PICK k \in no : k \in DescriptorSets \cup {"view"} /\ <<k, region>> \in refused'
  BY RefusedMore DEF Place
<1>2. Locals'
  BY <1>1, SameWants DEF Ownership, Locals
<1>3. Fresh'
  BY <1>1, SameWants DEF Ownership, Fresh, Place
<1>4. Owned'
  BY <1>1, SameWants DEF Ownership, Owned, Place
<1>5. Accounted'
  BY <1>1, <1>r, SameWants DEF Ownership, Accounted, Excused, Place
<1>6. Wanted'
  BY <1>1, SameWants DEF Ownership, Wanted, Place
<1>7. NullOnlyIfRefusedOr3D'
  BY <1>1 DEF NullOnlyIfRefusedOr3D, NullOnlyIfRefused
<1> QED BY <1>2, <1>3, <1>4, <1>5, <1>6, <1>7 DEF Ownership

LEMMA OwnershipStep == Parameters /\ Types /\ Ownership /\ [Next]_vars => Ownership'
<1> SUFFICES ASSUME Parameters, Types, Ownership, [Next]_vars
             PROVE  Ownership'
  OBVIOUS
<1> USE DEF AfterMarked, AfterDecoded, AfterStaging
<1>0. /\ region \in Nat /\ MaxRegions \in Nat
      /\ \A x \in created : x = <<x[1], x[2]>> /\ x[2] \in Nat
  BY DEF Types, Parameters, Regions, region
<1>d. pc # "start" => region > 0 /\ depth \in {1, 2}
  BY <1>0 DEF Types, depth, region
<1>r. region <= region
  BY <1>0
<1>1. CASE NextRegion
  <2>1. PICK d \in {1, 2} : depths' = Append(depths, d)
    BY <1>1 DEF NextRegion
  <2>2. region' = region + 1
    BY <2>1 DEF Types, region
  <2>3. held = {} /\ pc' \in {"blocks", "dump"} /\ UNCHANGED <<held, created, tracked, refused>>
    BY <1>1 DEF NextRegion, Ownership, Locals
  <2>4. Locals' /\ Owned' /\ Wanted'
    BY <2>3 DEF Ownership, Locals, Owned, Wanted
  <2>5. Fresh'
    BY <1>0, <2>2, <2>3 DEF Ownership, Fresh, Place
  <2>6. Accounted'
    BY <1>1, <2>3 DEF NextRegion, Ownership, Accounted, Excused
  <2>7. NullOnlyIfRefusedOr3D'
    BY <2>3 DEF NullOnlyIfRefusedOr3D, NullOnlyIfRefused
  <2> QED BY <2>4, <2>5, <2>6, <2>7 DEF Ownership
<1>2. CASE Return
  <2>1. UNCHANGED <<setup, depths>> /\ pc = "start" /\ pc' = "done"
    BY <1>2 DEF Return
  <2> QED
    BY <1>2, <2>1, SameWants
       DEF Return, Ownership, Locals, Fresh, Owned, Accounted, Excused, Wanted,
           NullOnlyIfRefusedOr3D, NullOnlyIfRefused, Place
<1>3. CASE CopyImageToBlocks
  <2>1. /\ UNCHANGED <<setup, depths, tracked>> /\ pc = "blocks"
        /\ create_staging_buffer("blocks")
        /\ pc' = IF "blocks" \in held' THEN "dump" ELSE "crashed"
    BY <1>3 DEF CopyImageToBlocks
  <2>2. \/ /\ held' = held \cup {"blocks"} /\ created' = created \cup {Place("blocks")}
           /\ refused' = refused
        \/ /\ held' = held /\ created' = created
           /\ refused' = refused \cup {Place("blocks")}
    BY <2>1, BufferCreated
  <2>3. "blocks" \notin held /\ "blocks" \in Buffers
    BY <2>1 DEF Ownership, Locals, Buffers
  <2>4. Locals'
    BY <2>1, <2>2, <2>3, SameWants DEF Ownership, Locals
  <2>5. Fresh'
    BY <1>0, <2>1, <2>2, <2>3, SameWants DEF Ownership, Fresh, Place
  <2>6. Owned'
    BY <1>0, <2>1, <2>2, <2>3, SameWants DEF Ownership, Owned, Fresh, Locals, Place
  <2>7. Accounted'
    BY <1>0, <2>1, <2>2, <2>3, SameWants DEF Ownership, Accounted, Excused, Locals, Place
  <2>8. Wanted'
    BY <1>0, <2>1, <2>2, <2>3, SameWants DEF Ownership, Wanted, Place
  <2>9. NullOnlyIfRefusedOr3D'
    BY <1>0, <2>1, <2>2, <2>3, SameWants DEF Ownership, NullOnlyIfRefusedOr3D, NullOnlyIfRefused, Place
  <2> QED BY <2>4, <2>5, <2>6, <2>7, <2>8, <2>9 DEF Ownership
<1>4. CASE DumpBlocks
  <2>1. /\ UNCHANGED <<setup, depths, held>> /\ pc = "dump"
        /\ UsedAtOnce("dump", <<Copy(Copied, Place("dump"))>>, "staging")
    BY <1>4 DEF DumpBlocks
  <2>2. \/ /\ pc' = "staging" /\ created' = created \cup {Place("dump")}
           /\ tracked' = tracked \cup {Place("dump")} /\ refused' = refused
        \/ /\ pc' = "crashed" /\ created' = created /\ tracked' = tracked
           /\ refused' = refused \cup {Place("dump")}
    BY <2>1, BufferUsed
  <2>3. "dump" \notin held /\ "dump" \in Buffers
    BY <2>1 DEF Ownership, Locals, Buffers
  <2>4. Locals'
    BY <2>1, <2>2, <2>3, SameWants DEF Ownership, Locals
  <2>5. Fresh'
    BY <1>0, <2>1, <2>2, <2>3, SameWants DEF Ownership, Fresh, Place
  <2>6. Owned'
    BY <1>0, <2>1, <2>2, <2>3, SameWants DEF Ownership, Owned, Fresh, Locals, Place
  <2>7. Accounted'
    BY <1>0, <2>1, <2>2, <2>3, SameWants DEF Ownership, Accounted, Excused, Locals, Place
  <2>8. Wanted'
    BY <1>0, <2>1, <2>2, <2>3, SameWants DEF Ownership, Wanted, Place
  <2>9. NullOnlyIfRefusedOr3D'
    BY <1>0, <2>1, <2>2, <2>3, SameWants DEF Ownership, NullOnlyIfRefusedOr3D, NullOnlyIfRefused, Place
  <2> QED BY <2>4, <2>5, <2>6, <2>7, <2>8, <2>9 DEF Ownership
<1>5. CASE NoDump
  <2>1. /\ UNCHANGED <<setup, depths, held, created, tracked, refused>>
        /\ pc = "dump" /\ pc' = "staging"
    BY <1>5 DEF NoDump
  <2>4. Locals'
    BY <2>1, SameWants DEF Ownership, Locals
  <2>5. Fresh'
    BY <1>0, <2>1, SameWants DEF Ownership, Fresh, Place
  <2>6. Owned'
    BY <1>0, <2>1, SameWants DEF Ownership, Owned, Fresh, Locals, Place
  <2>7. Accounted'
    BY <1>0, <2>1, SameWants DEF Ownership, Accounted, Excused, Locals, Place
  <2>8. Wanted'
    BY <1>0, <2>1, SameWants DEF Ownership, Wanted, Place
  <2>9. NullOnlyIfRefusedOr3D'
    BY <1>0, <2>1, SameWants DEF Ownership, NullOnlyIfRefusedOr3D, NullOnlyIfRefused, Place
  <2> QED BY <2>4, <2>5, <2>6, <2>7, <2>8, <2>9 DEF Ownership
<1>6. CASE CreateStaging
  <2>1. /\ UNCHANGED <<setup, depths, tracked>> /\ pc = "staging" /\ pc' = "decoded"
        /\ CreateIf(WantsStaging, "staging")
    BY <1>6 DEF CreateStaging, WantsStaging
  <2>2. \/ /\ WantsStaging
           /\ held' = held \cup {"staging"} /\ created' = created \cup {Place("staging")}
           /\ refused' = refused
        \/ /\ WantsStaging
           /\ held' = held /\ created' = created
           /\ refused' = refused \cup {Place("staging")}
        \/ ~ WantsStaging /\ UNCHANGED <<held, created, refused>>
    BY <2>1, BufferCreated DEF CreateIf
  <2>3. "staging" \notin held /\ "staging" \in Buffers
    BY <2>1 DEF Ownership, Locals, Buffers
  <2>4. Locals'
    BY <2>1, <2>2, <2>3, SameWants DEF Ownership, Locals
  <2>5. Fresh'
    BY <1>0, <2>1, <2>2, <2>3, SameWants DEF Ownership, Fresh, Place
  <2>6. Owned'
    BY <1>0, <2>1, <2>2, <2>3, SameWants DEF Ownership, Owned, Fresh, Locals, Place
  <2>7. Accounted'
    BY <1>0, <2>1, <2>2, <2>3, SameWants DEF Ownership, Accounted, Excused, Locals, Place
  <2>8. Wanted'
    BY <1>0, <2>1, <2>2, <2>3, SameWants DEF Ownership, Wanted, Place
  <2>9. NullOnlyIfRefusedOr3D'
    BY <1>0, <2>1, <2>2, <2>3, SameWants DEF Ownership, NullOnlyIfRefusedOr3D, NullOnlyIfRefused, Place
  <2> QED BY <2>4, <2>5, <2>6, <2>7, <2>8, <2>9 DEF Ownership
<1>7. CASE CreateDecoded
  <2>1. /\ UNCHANGED <<setup, depths, tracked>> /\ pc = "decoded" /\ pc' = "marked"
        /\ CreateIf(WantsDecoded, "decoded")
    BY <1>7 DEF CreateDecoded, WantsDecoded
  <2>2. \/ /\ WantsDecoded
           /\ held' = held \cup {"decoded"} /\ created' = created \cup {Place("decoded")}
           /\ refused' = refused
        \/ /\ WantsDecoded
           /\ held' = held /\ created' = created
           /\ refused' = refused \cup {Place("decoded")}
        \/ ~ WantsDecoded /\ UNCHANGED <<held, created, refused>>
    BY <2>1, BufferCreated DEF CreateIf
  <2>3. "decoded" \notin held /\ "decoded" \in Buffers
    BY <2>1 DEF Ownership, Locals, Buffers
  <2>4. Locals'
    BY <2>1, <2>2, <2>3, SameWants DEF Ownership, Locals
  <2>5. Fresh'
    BY <1>0, <2>1, <2>2, <2>3, SameWants DEF Ownership, Fresh, Place
  <2>6. Owned'
    BY <1>0, <2>1, <2>2, <2>3, SameWants DEF Ownership, Owned, Fresh, Locals, Place
  <2>7. Accounted'
    BY <1>0, <2>1, <2>2, <2>3, SameWants DEF Ownership, Accounted, Excused, Locals, Place
  <2>8. Wanted'
    BY <1>0, <2>1, <2>2, <2>3, SameWants DEF Ownership, Wanted, Place
  <2>9. NullOnlyIfRefusedOr3D'
    BY <1>0, <2>1, <2>2, <2>3, SameWants DEF Ownership, NullOnlyIfRefusedOr3D, NullOnlyIfRefused, Place
  <2> QED BY <2>4, <2>5, <2>6, <2>7, <2>8, <2>9 DEF Ownership
<1>8. CASE CreateMarked
  <2>1. /\ UNCHANGED <<setup, depths, tracked>> /\ pc = "marked" /\ pc' = "set"
        /\ CreateIf(WantsMarked, "marked")
    BY <1>8 DEF CreateMarked, WantsMarked
  <2>2. \/ /\ WantsMarked
           /\ held' = held \cup {"marked"} /\ created' = created \cup {Place("marked")}
           /\ refused' = refused
        \/ /\ WantsMarked
           /\ held' = held /\ created' = created
           /\ refused' = refused \cup {Place("marked")}
        \/ ~ WantsMarked /\ UNCHANGED <<held, created, refused>>
    BY <2>1, BufferCreated DEF CreateIf
  <2>3. "marked" \notin held /\ "marked" \in Buffers
    BY <2>1 DEF Ownership, Locals, Buffers
  <2>4. Locals'
    BY <2>1, <2>2, <2>3, SameWants DEF Ownership, Locals
  <2>5. Fresh'
    BY <1>0, <2>1, <2>2, <2>3, SameWants DEF Ownership, Fresh, Place
  <2>6. Owned'
    BY <1>0, <2>1, <2>2, <2>3, SameWants DEF Ownership, Owned, Fresh, Locals, Place
  <2>7. Accounted'
    BY <1>0, <2>1, <2>2, <2>3, SameWants DEF Ownership, Accounted, Excused, Locals, Place
  <2>8. Wanted'
    BY <1>0, <2>1, <2>2, <2>3, SameWants DEF Ownership, Wanted, Place
  <2>9. NullOnlyIfRefusedOr3D'
    BY <1>0, <2>1, <2>2, <2>3, SameWants DEF Ownership, NullOnlyIfRefusedOr3D, NullOnlyIfRefused, Place
  <2> QED BY <2>4, <2>5, <2>6, <2>7, <2>8, <2>9 DEF Ownership
<1>9. CASE AllocateDecompressSet
  <2>1. PICK no \in SUBSET {"decompress_set"} :
          /\ Refuse(no)
          /\ IF no = {}
             THEN /\ created' = created \cup {Place("decompress_set")}
                  /\ tracked' = tracked \cup {Place("decompress_set")}
                  /\ pc' = IF ~ view_used(depth) /\ targetBuffer \notin held
                           THEN "crashed" ELSE "decompress"
                  /\ UNCHANGED held
             ELSE EarlyReturn /\ UNCHANGED <<created, tracked>>
    BY <1>9 DEF AllocateDecompressSet, Refusals
  <2>2. UNCHANGED <<setup, depths>> /\ pc = "set"
    BY <1>9 DEF AllocateDecompressSet
  <2>3. CASE no = {}
    <3>1. /\ created' = created \cup {Place("decompress_set")}
          /\ tracked' = tracked \cup {Place("decompress_set")}
          /\ pc' \in {"crashed", "decompress"} /\ UNCHANGED held
          /\ pc' = "crashed" => ~ view_used(depth) /\ targetBuffer \notin held
          /\ refused \subseteq refused'
      BY <2>1, <2>3, RefusedMore
    <3>2. \A k \in held : Place(k) # Place("decompress_set")
      BY DEF Ownership, Locals, Place
    <3>4. Locals'
      BY <2>2, <3>1, <3>2, SameWants DEF Ownership, Locals
    <3>5. Fresh'
      <4>1. region' = region
        BY <2>2, SameWants
      <4>2. /\ \A x \in created' : x \in created \/ x[2] = region
            /\ \A x \in created : x[2] <= region
        BY <3>1 DEF Ownership, Fresh, Place
      <4>3. \A x \in created' : x[2] <= region
        BY <1>r, <4>2
      <4> QED BY <2>2, <3>1, <4>1, <4>3 DEF Fresh
    <3>6. Owned'
      BY <1>0, <2>2, <3>1, <3>2, SameWants DEF Ownership, Owned, Locals, Place
    <3>7. Accounted'
      BY <1>0, <2>2, <3>1, <3>2, SameWants DEF Ownership, Accounted, Excused, Locals, Place
    <3>8. Wanted'
      BY <1>0, <2>2, <3>1, <3>2, SameWants DEF Ownership, Wanted, Place
    <3>9. NullOnlyIfRefusedOr3D'
      <4>1. SUFFICES ASSUME pc' = "crashed", ~ (setup.use_image_view /\ region > 0 /\ depth > 1)
                     PROVE  \E b \in Buffers : <<b, region>> \in refused
        BY <2>2, <3>1, SameWants DEF NullOnlyIfRefusedOr3D, NullOnlyIfRefused
      <4>2. CASE enable_transcode
        <5>1. "decoded" \notin held
          BY <3>1, <4>1, <4>2 DEF targetBuffer
        <5> QED BY <2>2, <4>2, <5>1 DEF Ownership, Wanted, WantsDecoded, Buffers, Place
      <4>3. CASE ~ enable_transcode /\ WantsMarked
        <5>1. "marked" \notin held
          BY <3>1, <4>1, <4>3 DEF targetBuffer, WantsMarked
        <5> QED BY <2>2, <4>3, <5>1 DEF Ownership, Wanted, Buffers, Place
      <4>4. CASE ~ enable_transcode /\ ~ WantsMarked
        <5>1. "staging" \notin held
          BY <3>1, <4>1, <4>4 DEF targetBuffer, WantsMarked
        <5>2. ~ setup.use_image_view
          BY <1>0, <1>d, <2>2, <3>1, <4>1 DEF view_used
        <5> QED BY <2>2, <5>1, <5>2 DEF Ownership, Wanted, WantsStaging, caller_uses_view, Buffers, Place
      <4> QED BY <4>2, <4>3, <4>4
    <3> QED BY <3>4, <3>5, <3>6, <3>7, <3>8, <3>9 DEF Ownership
  <2>4. CASE no # {}
    <3>1. EarlyReturn /\ UNCHANGED <<setup, depths, created, tracked>>
      BY <2>1, <2>2, <2>4
    <3>2. pc \in AfterMarked \ {"debug", "analysis", "astc"}
      BY <2>2
    <3>3. \E k : k \cap (DescriptorSets \cup {"view"}) # {} /\ Refuse(k)
      BY <2>1, <2>4 DEF DescriptorSets
    <3> QED BY <3>1, <3>2, <3>3, EarlyReturned
  <2> QED BY <2>3, <2>4
<1>10. CASE DecompressToBuffer
  <2>1. /\ UNCHANGED <<setup, depths, held, created, tracked>>
        /\ pc = "decompress" /\ pc' \in {"watermark"}
        /\ \E no : Refuse(no)
    BY <1>10 DEF DecompressToBuffer
  <2>2. refused \subseteq refused'
    BY <2>1, RefusedMore
  <2>4. Locals'
    BY <2>1, <2>2, SameWants DEF Ownership, Locals
  <2>5. Fresh'
    BY <1>0, <2>1, <2>2, SameWants DEF Ownership, Fresh, Place
  <2>6. Owned'
    BY <1>0, <2>1, <2>2, SameWants DEF Ownership, Owned, Fresh, Locals, Place
  <2>7. Accounted'
    BY <1>0, <2>1, <2>2, SameWants DEF Ownership, Accounted, Excused, Locals, Place
  <2>8. Wanted'
    BY <1>0, <2>1, <2>2, SameWants DEF Ownership, Wanted, Place
  <2>9. NullOnlyIfRefusedOr3D'
    BY <1>0, <2>1, <2>2, SameWants DEF Ownership, NullOnlyIfRefusedOr3D, NullOnlyIfRefused, Place
  <2> QED BY <2>4, <2>5, <2>6, <2>7, <2>8, <2>9 DEF Ownership
<1>11. CASE DecompressToView
  <2>1. PICK no \in SUBSET {"view", "oneshot"} :
          /\ Refuse(IF "view" \in no THEN {"view"} ELSE no)
          /\ IF "view" \in no
             THEN EarlyReturn /\ UNCHANGED <<created, tracked>>
             ELSE /\ created' = created \cup {Place("view")}
                  /\ tracked' = tracked \cup {Place("view")}
                  /\ pc' = "watermark" /\ UNCHANGED held
    BY <1>11 DEF DecompressToView, Refusals, OneShot
  <2>2. UNCHANGED <<setup, depths>> /\ pc = "decompress"
    BY <1>11 DEF DecompressToView
  <2>3. CASE "view" \notin no
    <3>1. /\ created' = created \cup {Place("view")}
          /\ tracked' = tracked \cup {Place("view")}
          /\ pc' = "watermark" /\ UNCHANGED held
          /\ refused \subseteq refused'
      BY <2>1, <2>3, RefusedMore
    <3>2. \A k \in held : Place(k) # Place("view")
      BY DEF Ownership, Locals, Place
    <3>4. Locals'
      BY <2>2, <3>1, <3>2, SameWants DEF Ownership, Locals
    <3>5. Fresh'
      <4>1. region' = region
        BY <2>2, SameWants
      <4>2. /\ \A x \in created' : x \in created \/ x[2] = region
            /\ \A x \in created : x[2] <= region
        BY <3>1 DEF Ownership, Fresh, Place
      <4>3. \A x \in created' : x[2] <= region
        BY <1>r, <4>2
      <4> QED BY <2>2, <3>1, <4>1, <4>3 DEF Fresh
    <3>6. Owned'
      BY <1>0, <2>2, <3>1, <3>2, SameWants DEF Ownership, Owned, Locals, Place
    <3>7. Accounted'
      BY <1>0, <2>2, <3>1, <3>2, SameWants DEF Ownership, Accounted, Excused, Locals, Place
    <3>8. Wanted'
      BY <1>0, <2>2, <3>1, <3>2, SameWants DEF Ownership, Wanted, Place
    <3>9. NullOnlyIfRefusedOr3D'
      BY <3>1 DEF NullOnlyIfRefusedOr3D, NullOnlyIfRefused
    <3> QED BY <3>4, <3>5, <3>6, <3>7, <3>8, <3>9 DEF Ownership
  <2>4. CASE "view" \in no
    <3>1. EarlyReturn /\ UNCHANGED <<setup, depths, created, tracked>>
      BY <2>1, <2>2, <2>4
    <3>2. pc \in AfterMarked \ {"debug", "analysis", "astc"}
      BY <2>2
    <3>3. \E k : k \cap (DescriptorSets \cup {"view"}) # {} /\ Refuse(k)
      BY <2>1, <2>4 DEF DescriptorSets
    <3> QED BY <3>1, <3>2, <3>3, EarlyReturned
  <2> QED BY <2>3, <2>4
<1>12. CASE AddWatermark
  <2> DEFINE destination == IF enable_transcode THEN "marked" ELSE "staging"
  <2>1. PICK no \in SUBSET {"watermark_set", "oneshot"} :
          IF "watermark_set" \in no
          THEN Refuse({"watermark_set"}) /\ EarlyReturn /\ UNCHANGED <<created, tracked>>
          ELSE /\ created' = created \cup {Place("watermark_set")}
               /\ tracked' = tracked \cup {Place("watermark_set")}
               /\ UNCHANGED held
               /\ IF destination \in held
                  THEN Refuse(no) /\ pc' = "encode"
                  ELSE pc' = "crashed" /\ UNCHANGED refused
    BY <1>12 DEF AddWatermark, Refusals, OneShot
  <2>2. UNCHANGED <<setup, depths>> /\ pc = "watermark" /\ watermarked(depth)
    BY <1>12 DEF AddWatermark
  <2>3. CASE "watermark_set" \notin no
    <3>1. /\ created' = created \cup {Place("watermark_set")}
          /\ tracked' = tracked \cup {Place("watermark_set")}
          /\ pc' \in {"encode", "crashed"} /\ UNCHANGED held
          /\ pc' = "crashed" => destination \notin held
          /\ refused \subseteq refused'
      BY <2>1, <2>3, RefusedMore
    <3>2. \A k \in held : Place(k) # Place("watermark_set")
      BY DEF Ownership, Locals, Place
    <3>4. Locals'
      BY <2>2, <3>1, <3>2, SameWants DEF Ownership, Locals
    <3>5. Fresh'
      <4>1. region' = region
        BY <2>2, SameWants
      <4>2. /\ \A x \in created' : x \in created \/ x[2] = region
            /\ \A x \in created : x[2] <= region
        BY <3>1 DEF Ownership, Fresh, Place
      <4>3. \A x \in created' : x[2] <= region
        BY <1>r, <4>2
      <4> QED BY <2>2, <3>1, <4>1, <4>3 DEF Fresh
    <3>6. Owned'
      BY <1>0, <2>2, <3>1, <3>2, SameWants DEF Ownership, Owned, Locals, Place
    <3>7. Accounted'
      BY <1>0, <2>2, <3>1, <3>2, SameWants DEF Ownership, Accounted, Excused, Locals, Place
    <3>8. Wanted'
      BY <1>0, <2>2, <3>1, <3>2, SameWants DEF Ownership, Wanted, Place
    <3>9. NullOnlyIfRefusedOr3D'
      <4>1. SUFFICES ASSUME pc' = "crashed"
                     PROVE  \E b \in Buffers : <<b, region>> \in refused
        BY <2>2, <3>1, SameWants DEF NullOnlyIfRefusedOr3D, NullOnlyIfRefused
      <4>2. destination \in Buffers /\ Place(destination) \in refused
        BY <2>2, <3>1, <4>1
           DEF Ownership, Wanted, WantsStaging, WantsMarked, watermarked, caller_uses_view, Buffers
      <4> QED BY <4>2 DEF Place
    <3> QED BY <3>4, <3>5, <3>6, <3>7, <3>8, <3>9 DEF Ownership
  <2>4. CASE "watermark_set" \in no
    <3>1. EarlyReturn /\ UNCHANGED <<setup, depths, created, tracked>>
      BY <2>1, <2>2, <2>4
    <3>2. pc \in AfterMarked \ {"debug", "analysis", "astc"}
      BY <2>2
    <3>3. \E k : k \cap (DescriptorSets \cup {"view"}) # {} /\ Refuse(k)
      BY <2>1, <2>4 DEF DescriptorSets
    <3> QED BY <3>1, <3>2, <3>3, EarlyReturned
  <2> QED BY <2>3, <2>4
<1>13. CASE NoWatermark
  <2>1. /\ UNCHANGED <<setup, depths, held, created, tracked, refused>>
        /\ pc = "watermark" /\ pc' = "encode"
    BY <1>13 DEF NoWatermark
  <2>4. Locals'
    BY <2>1, SameWants DEF Ownership, Locals
  <2>5. Fresh'
    BY <1>0, <2>1, SameWants DEF Ownership, Fresh, Place
  <2>6. Owned'
    BY <1>0, <2>1, SameWants DEF Ownership, Owned, Fresh, Locals, Place
  <2>7. Accounted'
    BY <1>0, <2>1, SameWants DEF Ownership, Accounted, Excused, Locals, Place
  <2>8. Wanted'
    BY <1>0, <2>1, SameWants DEF Ownership, Wanted, Place
  <2>9. NullOnlyIfRefusedOr3D'
    BY <1>0, <2>1, SameWants DEF Ownership, NullOnlyIfRefusedOr3D, NullOnlyIfRefused, Place
  <2> QED BY <2>4, <2>5, <2>6, <2>7, <2>8, <2>9 DEF Ownership
<1>14. CASE AllocateEncodeSet
  <2>1. PICK no \in SUBSET {"encode_set"} :
          /\ Refuse(no)
          /\ IF no = {}
             THEN /\ created' = created \cup {Place("encode_set")}
                  /\ tracked' = IF transcode_to_etc2 THEN tracked \cup {Place("encode_set")}
                                ELSE tracked
                  /\ pc' = IF "staging" \notin held THEN "crashed"
                           ELSE IF transcode_to_etc2 THEN "etc2"
                           ELSE IF setup.debug_astc THEN "debug" ELSE "astc"
                  /\ UNCHANGED held
             ELSE EarlyReturn /\ UNCHANGED <<created, tracked>>
    BY <1>14 DEF AllocateEncodeSet, Refusals
  <2>2. UNCHANGED <<setup, depths>> /\ pc = "encode" /\ enable_transcode
    BY <1>14 DEF AllocateEncodeSet
  <2>3. CASE no = {}
    <3>1. /\ created' = created \cup {Place("encode_set")}
          /\ \/ /\ tracked' = tracked \cup {Place("encode_set")}
                /\ pc' \in {"crashed", "etc2"}
             \/ tracked' = tracked /\ pc' \in {"crashed", "debug", "astc"}
          /\ pc' = "crashed" => "staging" \notin held
          /\ UNCHANGED held
          /\ refused \subseteq refused'
      BY <2>1, <2>3, RefusedMore
    <3>2. \A k \in held : Place(k) # Place("encode_set")
      BY DEF Ownership, Locals, Place
    <3>4. Locals'
      BY <2>2, <3>1, <3>2, SameWants DEF Ownership, Locals
    <3>5. Fresh'
      <4>1. region' = region
        BY <2>2, SameWants
      <4>2. /\ \A x \in created' : x \in created \/ x[2] = region
            /\ \A x \in created : x[2] <= region
        BY <3>1 DEF Ownership, Fresh, Place
      <4>3. \A x \in created' : x[2] <= region
        BY <1>r, <4>2
      <4> QED BY <2>2, <3>1, <4>1, <4>3 DEF Fresh
    <3>6. Owned'
      BY <1>0, <2>2, <3>1, <3>2, SameWants DEF Ownership, Owned, Locals, Place
    <3>7. Accounted'
      BY <1>0, <2>2, <3>1, <3>2, SameWants DEF Ownership, Accounted, Excused, Locals, Place
    <3>8. Wanted'
      BY <1>0, <2>2, <3>1, <3>2, SameWants DEF Ownership, Wanted, Place
    <3>9. NullOnlyIfRefusedOr3D'
      <4>1. SUFFICES ASSUME pc' = "crashed"
                     PROVE  \E b \in Buffers : <<b, region>> \in refused
        BY <2>2, <3>1, SameWants DEF NullOnlyIfRefusedOr3D, NullOnlyIfRefused
      <4>2. "staging" \in Buffers /\ Place("staging") \in refused
        BY <2>2, <3>1, <4>1 DEF Ownership, Wanted, WantsStaging, caller_uses_view, Buffers
      <4> QED BY <4>2 DEF Place
    <3> QED BY <3>4, <3>5, <3>6, <3>7, <3>8, <3>9 DEF Ownership
  <2>4. CASE no # {}
    <3>1. EarlyReturn /\ UNCHANGED <<setup, depths, created, tracked>>
      BY <2>1, <2>2, <2>4
    <3>2. pc \in AfterMarked \ {"debug", "analysis", "astc"}
      BY <2>2
    <3>3. \E k : k \cap (DescriptorSets \cup {"view"}) # {} /\ Refuse(k)
      BY <2>1, <2>4 DEF DescriptorSets
    <3> QED BY <3>1, <3>2, <3>3, EarlyReturned
  <2> QED BY <2>3, <2>4
<1>15. CASE NoEncode
  <2>1. /\ UNCHANGED <<setup, depths, held, created, tracked, refused>>
        /\ pc = "encode" /\ pc' = "collect"
    BY <1>15 DEF NoEncode
  <2>4. Locals'
    BY <2>1, SameWants DEF Ownership, Locals
  <2>5. Fresh'
    BY <1>0, <2>1, SameWants DEF Ownership, Fresh, Place
  <2>6. Owned'
    BY <1>0, <2>1, SameWants DEF Ownership, Owned, Fresh, Locals, Place
  <2>7. Accounted'
    BY <1>0, <2>1, SameWants DEF Ownership, Accounted, Excused, Locals, Place
  <2>8. Wanted'
    BY <1>0, <2>1, SameWants DEF Ownership, Wanted, Place
  <2>9. NullOnlyIfRefusedOr3D'
    BY <1>0, <2>1, SameWants DEF Ownership, NullOnlyIfRefusedOr3D, NullOnlyIfRefused, Place
  <2> QED BY <2>4, <2>5, <2>6, <2>7, <2>8, <2>9 DEF Ownership
<1>16. CASE EncodeEtc2
  <2>1. /\ UNCHANGED <<setup, depths, held, created, tracked>>
        /\ pc = "etc2" /\ pc' \in {"collect"}
        /\ \E no : Refuse(no)
    BY <1>16 DEF EncodeEtc2
  <2>2. refused \subseteq refused'
    BY <2>1, RefusedMore
  <2>4. Locals'
    BY <2>1, <2>2, SameWants DEF Ownership, Locals
  <2>5. Fresh'
    BY <1>0, <2>1, <2>2, SameWants DEF Ownership, Fresh, Place
  <2>6. Owned'
    BY <1>0, <2>1, <2>2, SameWants DEF Ownership, Owned, Fresh, Locals, Place
  <2>7. Accounted'
    BY <1>0, <2>1, <2>2, SameWants DEF Ownership, Accounted, Excused, Locals, Place
  <2>8. Wanted'
    BY <1>0, <2>1, <2>2, SameWants DEF Ownership, Wanted, Place
  <2>9. NullOnlyIfRefusedOr3D'
    BY <1>0, <2>1, <2>2, SameWants DEF Ownership, NullOnlyIfRefusedOr3D, NullOnlyIfRefused, Place
  <2> QED BY <2>4, <2>5, <2>6, <2>7, <2>8, <2>9 DEF Ownership
<1>17. CASE DebugBuffer
  <2>1. /\ UNCHANGED <<setup, depths, held>> /\ pc = "debug"
        /\ UsedAtOnce("debug", <<>>, "analysis")
    BY <1>17 DEF DebugBuffer
  <2>2. \/ /\ pc' = "analysis" /\ created' = created \cup {Place("debug")}
           /\ tracked' = tracked \cup {Place("debug")} /\ refused' = refused
        \/ /\ pc' = "crashed" /\ created' = created /\ tracked' = tracked
           /\ refused' = refused \cup {Place("debug")}
    BY <2>1, BufferUsed
  <2>3. "debug" \notin held /\ "debug" \in Buffers
    BY <2>1 DEF Ownership, Locals, Buffers
  <2>4. Locals'
    BY <2>1, <2>2, <2>3, SameWants DEF Ownership, Locals
  <2>5. Fresh'
    BY <1>0, <2>1, <2>2, <2>3, SameWants DEF Ownership, Fresh, Place
  <2>6. Owned'
    BY <1>0, <2>1, <2>2, <2>3, SameWants DEF Ownership, Owned, Fresh, Locals, Place
  <2>7. Accounted'
    <3>1. region' = region /\ refused \subseteq refused'
      BY <2>1, <2>2, SameWants
    <3>2. SUFFICES ASSUME pc' # "crashed", NEW x \in created' \ tracked'
                   PROVE  \/ x[2] = region /\ x[1] \in held
                          \/ x = <<"encode_set", region>>
                          \/ Excused(x)
      BY <2>1, <2>2, <3>1 DEF Accounted, Excused, Place
    <3>3. x \in created \ tracked /\ pc # "crashed"
      BY <2>1, <2>2, <3>2
    <3> QED BY <3>3 DEF Ownership, Accounted, Place
  <2>8. Wanted'
    BY <1>0, <2>1, <2>2, <2>3, SameWants DEF Ownership, Wanted, Place
  <2>9. NullOnlyIfRefusedOr3D'
    BY <1>0, <2>1, <2>2, <2>3, SameWants DEF Ownership, NullOnlyIfRefusedOr3D, NullOnlyIfRefused, Place
  <2> QED BY <2>4, <2>5, <2>6, <2>7, <2>8, <2>9 DEF Ownership
<1>18. CASE AnalysisBuffer
  <2>1. /\ UNCHANGED <<setup, depths, held>> /\ pc = "analysis"
        /\ UsedAtOnce("analysis", <<>>, "astc")
    BY <1>18 DEF AnalysisBuffer
  <2>2. \/ /\ pc' = "astc" /\ created' = created \cup {Place("analysis")}
           /\ tracked' = tracked \cup {Place("analysis")} /\ refused' = refused
        \/ /\ pc' = "crashed" /\ created' = created /\ tracked' = tracked
           /\ refused' = refused \cup {Place("analysis")}
    BY <2>1, BufferUsed
  <2>3. "analysis" \notin held /\ "analysis" \in Buffers
    BY <2>1 DEF Ownership, Locals, Buffers
  <2>4. Locals'
    BY <2>1, <2>2, <2>3, SameWants DEF Ownership, Locals
  <2>5. Fresh'
    BY <1>0, <2>1, <2>2, <2>3, SameWants DEF Ownership, Fresh, Place
  <2>6. Owned'
    BY <1>0, <2>1, <2>2, <2>3, SameWants DEF Ownership, Owned, Fresh, Locals, Place
  <2>7. Accounted'
    <3>1. region' = region /\ refused \subseteq refused'
      BY <2>1, <2>2, SameWants
    <3>2. SUFFICES ASSUME pc' # "crashed", NEW x \in created' \ tracked'
                   PROVE  \/ x[2] = region /\ x[1] \in held
                          \/ x = <<"encode_set", region>>
                          \/ Excused(x)
      BY <2>1, <2>2, <3>1 DEF Accounted, Excused, Place
    <3>3. x \in created \ tracked /\ pc # "crashed"
      BY <2>1, <2>2, <3>2
    <3> QED BY <3>3 DEF Ownership, Accounted, Place
  <2>8. Wanted'
    BY <1>0, <2>1, <2>2, <2>3, SameWants DEF Ownership, Wanted, Place
  <2>9. NullOnlyIfRefusedOr3D'
    BY <1>0, <2>1, <2>2, <2>3, SameWants DEF Ownership, NullOnlyIfRefusedOr3D, NullOnlyIfRefused, Place
  <2> QED BY <2>4, <2>5, <2>6, <2>7, <2>8, <2>9 DEF Ownership
<1>19. CASE EncodeAstc
  <2>1. /\ UNCHANGED <<setup, depths, held, created>>
        /\ pc = "astc" /\ pc' \in {"analyze", "collect"}
        /\ tracked' = tracked \cup {Place("encode_set")}
        /\ \E no : Refuse(no)
    BY <1>19 DEF EncodeAstc
  <2>2. refused \subseteq refused'
    BY <2>1, RefusedMore
  <2>3. Place("encode_set") \in created /\ \A k \in held : Place(k) # Place("encode_set")
    BY <2>1 DEF Ownership, Locals, Owned, Place
  <2>4. Locals'
    BY <2>1, <2>2, <2>3, SameWants DEF Ownership, Locals
  <2>5. Fresh'
    BY <1>0, <2>1, <2>2, <2>3, SameWants DEF Ownership, Fresh, Place
  <2>6. Owned'
    BY <1>0, <2>1, <2>2, <2>3, SameWants DEF Ownership, Owned, Fresh, Locals, Place
  <2>7. Accounted'
    BY <1>0, <2>1, <2>2, <2>3, SameWants DEF Ownership, Accounted, Excused, Locals, Place
  <2>8. Wanted'
    BY <1>0, <2>1, <2>2, <2>3, SameWants DEF Ownership, Wanted, Place
  <2>9. NullOnlyIfRefusedOr3D'
    BY <1>0, <2>1, <2>2, <2>3, SameWants DEF Ownership, NullOnlyIfRefusedOr3D, NullOnlyIfRefused, Place
  <2> QED BY <2>4, <2>5, <2>6, <2>7, <2>8, <2>9 DEF Ownership
<1>20. CASE AnalyzeAstc
  <2>1. /\ UNCHANGED <<setup, depths, held, created, tracked>>
        /\ pc = "analyze" /\ pc' \in {"collect"}
        /\ \E no : Refuse(no)
    BY <1>20 DEF AnalyzeAstc
  <2>2. refused \subseteq refused'
    BY <2>1, RefusedMore
  <2>4. Locals'
    BY <2>1, <2>2, SameWants DEF Ownership, Locals
  <2>5. Fresh'
    BY <1>0, <2>1, <2>2, SameWants DEF Ownership, Fresh, Place
  <2>6. Owned'
    BY <1>0, <2>1, <2>2, SameWants DEF Ownership, Owned, Fresh, Locals, Place
  <2>7. Accounted'
    BY <1>0, <2>1, <2>2, SameWants DEF Ownership, Accounted, Excused, Locals, Place
  <2>8. Wanted'
    BY <1>0, <2>1, <2>2, SameWants DEF Ownership, Wanted, Place
  <2>9. NullOnlyIfRefusedOr3D'
    BY <1>0, <2>1, <2>2, SameWants DEF Ownership, NullOnlyIfRefusedOr3D, NullOnlyIfRefused, Place
  <2> QED BY <2>4, <2>5, <2>6, <2>7, <2>8, <2>9 DEF Ownership
<1>21. CASE Collect
  <2>1. /\ UNCHANGED <<setup, depths, created, refused>>
        /\ pc = "collect" /\ pc' = "upload"
        /\ held' = held \ {"decoded", "marked"}
        /\ tracked' = tracked \cup ((held \cap {"decoded", "marked"}) \X {region})
    BY <1>21 DEF Collect
  <2>2. \A x : x \in tracked' <=>
          \/ x \in tracked
          \/ \E k \in held : k \in {"decoded", "marked"} /\ x = Place(k)
    BY <2>1 DEF Place
  <2>4. Locals'
    BY <2>1, <2>2, SameWants DEF Ownership, Locals
  <2>5. Fresh'
    BY <1>0, <2>1, <2>2, SameWants DEF Ownership, Fresh, Place
  <2>6. Owned'
    <3>1. region' = region
      BY <2>1, SameWants
    <3>2. tracked' \subseteq created'
      BY <2>1, <2>2 DEF Ownership, Owned
    <3>3. \A k \in held' : Place(k) \in created' /\ Place(k) \notin tracked'
      BY <2>1, <2>2 DEF Ownership, Owned, Place
    <3> QED BY <2>1, <3>1, <3>2, <3>3 DEF Owned, Place
  <2>7. Accounted'
    BY <1>0, <2>1, <2>2, SameWants DEF Ownership, Accounted, Excused, Locals, Place
  <2>8. Wanted'
    BY <1>0, <2>1, <2>2, SameWants DEF Ownership, Wanted, Place
  <2>9. NullOnlyIfRefusedOr3D'
    BY <1>0, <2>1, <2>2, SameWants DEF Ownership, NullOnlyIfRefusedOr3D, NullOnlyIfRefused, Place
  <2> QED BY <2>4, <2>5, <2>6, <2>7, <2>8, <2>9 DEF Ownership
<1>22. CASE Upload
  <2>1. /\ UNCHANGED <<setup, depths, created, refused>>
        /\ pc = "upload" /\ WantsStaging
        /\ \/ /\ "staging" \in held /\ pc' = "finish"
              /\ tracked' = tracked \cup {Place("staging")}
              /\ held' = held \ {"staging"}
           \/ "staging" \notin held /\ pc' = "crashed" /\ UNCHANGED <<tracked, held>>
    BY <1>22 DEF Upload, WantsStaging
  <2>2. "staging" \in Buffers
    BY DEF Buffers
  <2>4. Locals'
    BY <2>1, <2>2, SameWants DEF Ownership, Locals
  <2>5. Fresh'
    BY <1>0, <2>1, <2>2, SameWants DEF Ownership, Fresh, Place
  <2>6. Owned'
    <3>1. region' = region
      BY <2>1, SameWants
    <3>2. tracked' \subseteq created'
      BY <2>1, <2>2 DEF Ownership, Owned
    <3>3. \A k \in held' : Place(k) \in created' /\ Place(k) \notin tracked'
      BY <2>1, <2>2 DEF Ownership, Owned, Place
    <3> QED BY <2>1, <3>1, <3>2, <3>3 DEF Owned, Place
  <2>7. Accounted'
    BY <1>0, <2>1, <2>2, SameWants DEF Ownership, Accounted, Excused, Locals, Place
  <2>8. Wanted'
    BY <1>0, <2>1, <2>2, SameWants DEF Ownership, Wanted, Place
  <2>9. NullOnlyIfRefusedOr3D'
    BY <1>0, <2>1, <2>2, SameWants DEF Ownership, Wanted, NullOnlyIfRefusedOr3D, NullOnlyIfRefused, Place
  <2> QED BY <2>4, <2>5, <2>6, <2>7, <2>8, <2>9 DEF Ownership
<1>23. CASE NoUpload
  <2>1. /\ UNCHANGED <<setup, depths, held, created, tracked, refused>>
        /\ pc = "upload" /\ pc' = "finish" /\ ~ WantsStaging
    BY <1>23 DEF NoUpload, WantsStaging
  <2>4. Locals'
    BY <2>1, SameWants DEF Ownership, Locals
  <2>5. Fresh'
    BY <1>0, <2>1, SameWants DEF Ownership, Fresh, Place
  <2>6. Owned'
    BY <1>0, <2>1, SameWants DEF Ownership, Owned, Fresh, Locals, Place
  <2>7. Accounted'
    BY <1>0, <2>1, SameWants DEF Ownership, Accounted, Excused, Locals, Place
  <2>8. Wanted'
    BY <1>0, <2>1, SameWants DEF Ownership, Wanted, Place
  <2>9. NullOnlyIfRefusedOr3D'
    BY <1>0, <2>1, SameWants DEF Ownership, NullOnlyIfRefusedOr3D, NullOnlyIfRefused, Place
  <2> QED BY <2>4, <2>5, <2>6, <2>7, <2>8, <2>9 DEF Ownership
<1>24. CASE FinishRegion
  <2>1. /\ UNCHANGED <<setup, depths, created, refused>>
        /\ pc = "finish" /\ pc' = "start"
        /\ held' = held \ {"blocks"}
        /\ tracked' = tracked \cup ((held \cap {"blocks"}) \X {region})
    BY <1>24 DEF FinishRegion
  <2>2. \A x : x \in tracked' <=> x \in tracked \/ ("blocks" \in held /\ x = Place("blocks"))
    BY <2>1 DEF Place
  <2>4. Locals'
    BY <2>1, <2>2, SameWants DEF Ownership, Locals
  <2>5. Fresh'
    BY <1>0, <2>1, <2>2, SameWants DEF Ownership, Fresh, Place
  <2>6. Owned'
    BY <1>0, <2>1, <2>2, SameWants DEF Ownership, Owned, Fresh, Locals, Place
  <2>7. Accounted'
    BY <1>0, <2>1, <2>2, SameWants DEF Ownership, Accounted, Excused, Locals, Place
  <2>8. Wanted'
    BY <1>0, <2>1, <2>2, SameWants DEF Ownership, Wanted, Place
  <2>9. NullOnlyIfRefusedOr3D'
    BY <1>0, <2>1, <2>2, SameWants DEF Ownership, NullOnlyIfRefusedOr3D, NullOnlyIfRefused, Place
  <2> QED BY <2>4, <2>5, <2>6, <2>7, <2>8, <2>9 DEF Ownership
<1>25. CASE ExecuteNext \/ UNCHANGED vars
  <2>1. UNCHANGED <<setup, depths, pc, held, created, tracked, refused>>
    BY <1>25 DEF ExecuteNext, vars
  <2>4. Locals'
    BY <2>1, SameWants DEF Ownership, Locals
  <2>5. Fresh'
    BY <1>0, <2>1, SameWants DEF Ownership, Fresh, Place
  <2>6. Owned'
    BY <1>0, <2>1, SameWants DEF Ownership, Owned, Fresh, Locals, Place
  <2>7. Accounted'
    BY <1>0, <2>1, SameWants DEF Ownership, Accounted, Excused, Locals, Place
  <2>8. Wanted'
    BY <1>0, <2>1, SameWants DEF Ownership, Wanted, Place
  <2>9. NullOnlyIfRefusedOr3D'
    BY <1>0, <2>1, SameWants DEF Ownership, NullOnlyIfRefusedOr3D, NullOnlyIfRefused, Place
  <2> QED BY <2>4, <2>5, <2>6, <2>7, <2>8, <2>9 DEF Ownership
<1> QED
  BY <1>1, <1>2, <1>3, <1>4, <1>5, <1>6, <1>7, <1>8, <1>9, <1>10, <1>11, <1>12, <1>13, <1>14,
     <1>15, <1>16, <1>17, <1>18, <1>19, <1>20, <1>21, <1>22, <1>23, <1>24, <1>25 DEF Next

------------------------------------------------------------------------------
(* The commands.  Every handler appends a block that carries the barriers    *)
(* its reads need, but for the blocks of an image: their barrier was recorded *)
(* with the copy that wrote them.                                            *)

\* The stage that writes a buffer of the layer.
WriterStage(kind) == IF kind \in {"blocks", "dump"} THEN "transfer" ELSE "compute"
Written(s) ==
  \A i \in DOMAIN s : \A p \in s[i].to : p[1] \in Buffers => s[i].stage = WriterStage(p[1])

IsBarrier(c, place, before, after) ==
  c.op = "barrier" /\ c.from = place /\ c.stage = before /\ c.after = after

\* The blocks of an image are behind a barrier as soon as they are written.
BlocksVisible(s) ==
  \A i \in DOMAIN s : \A p \in s[i].to :
     p[1] = "blocks" => \E k \in DOMAIN s : i < k /\ IsBarrier(s[k], p, "transfer", "compute")

\* The reads ReadsOrdered is about, and what it says of them, at any time.
ReadsLayer(c) ==
  c.op # "barrier" /\ c.from[1] \in Buffers /\ \A p \in c.to : p[1] # "dump"
Ordered(s) ==
  \A i, j \in DOMAIN s :
     i < j /\ ReadsLayer(s[j]) /\ s[j].from \in s[i].to
     => \E k \in DOMAIN s : i < k /\ k < j /\ IsBarrier(s[k], s[j].from, s[i].stage, s[j].stage)

CommandsSound ==
  /\ cmds \in Seq(Commands)
  /\ Written(cmds) /\ BlocksVisible(cmds) /\ Ordered(cmds)

\* A block of commands that any list of commands may be continued with.
Orderly(b) ==
  /\ Written(b) /\ BlocksVisible(b)
  /\ \A j \in DOMAIN b : ReadsLayer(b[j]) =>
       /\ \A i \in DOMAIN b : b[j].from \notin b[i].to
       /\ \/ b[j].from[1] = "blocks" /\ b[j].stage = "compute"
          \/ \E k \in DOMAIN b : k < j /\ IsBarrier(b[k], b[j].from, WriterStage(b[j].from[1]), b[j].stage)

LEMMA Continued ==
  ASSUME NEW s \in Seq(Commands), Written(s), BlocksVisible(s), Ordered(s),
         NEW b \in Seq(Commands), Orderly(b)
  PROVE  s \o b \in Seq(Commands) /\ Written(s \o b) /\ BlocksVisible(s \o b) /\ Ordered(s \o b)
<1> DEFINE t == s \o b
           n == Len(s)
           m == Len(b)
<1>1. /\ t \in Seq(Commands) /\ n \in Nat /\ m \in Nat
      /\ DOMAIN s = 1..n /\ DOMAIN b = 1..m /\ DOMAIN t = 1..(n + m)
      /\ \A i \in 1..n : t[i] = s[i]
      /\ \A i \in 1..m : t[n + i] = b[i]
  BY ConcatIndex
<1>2. \A i \in DOMAIN t : i \in 1..n \/ (i - n \in 1..m /\ t[i] = b[i - n] /\ i > n)
  BY <1>1, ConcatIndex
<1> HIDE DEF t, n, m
<1>3. \A k \in 1..m : n + k \in DOMAIN t
  BY <1>1
<1>4. Written(t)
  BY <1>1, <1>2 DEF Written, Orderly
<1>5. BlocksVisible(t)
  <2> SUFFICES ASSUME NEW i \in DOMAIN t, NEW p \in t[i].to, p[1] = "blocks"
               PROVE  \E k \in DOMAIN t : i < k /\ IsBarrier(t[k], p, "transfer", "compute")
    BY DEF BlocksVisible
  <2>1. CASE i \in 1..n
    <3>1. PICK k \in 1..n : i < k /\ IsBarrier(s[k], p, "transfer", "compute")
      BY <1>1, <2>1 DEF BlocksVisible
    <3>2. k \in DOMAIN t /\ t[k] = s[k]
      BY <1>1
    <3> QED BY <3>1, <3>2
  <2>2. CASE i \notin 1..n
    <3>1. i - n \in 1..m /\ t[i] = b[i - n] /\ i > n
      BY <1>2, <2>2
    <3>2. PICK k \in 1..m : i - n < k /\ IsBarrier(b[k], p, "transfer", "compute")
      BY <1>1, <3>1 DEF BlocksVisible, Orderly
    <3>3. n + k \in DOMAIN t /\ t[n + k] = b[k] /\ i < n + k
      BY <1>1, <3>1, <3>2
    <3> QED BY <3>2, <3>3
  <2> QED BY <2>1, <2>2
<1>6. Ordered(t)
  <2> SUFFICES ASSUME NEW i \in DOMAIN t, NEW j \in DOMAIN t, i < j, ReadsLayer(t[j]), t[j].from \in t[i].to
               PROVE  \E k \in DOMAIN t : i < k /\ k < j /\ IsBarrier(t[k], t[j].from, t[i].stage, t[j].stage)
    BY DEF Ordered
  <2>1. CASE j \in 1..n
    <3>1. i \in 1..n /\ t[i] = s[i] /\ t[j] = s[j]
      BY <1>1, <2>1
    <3>2. PICK k \in 1..n : i < k /\ k < j /\ IsBarrier(s[k], s[j].from, s[i].stage, s[j].stage)
      BY <1>1, <2>1, <3>1 DEF Ordered
    <3>3. k \in DOMAIN t /\ t[k] = s[k]
      BY <1>1
    <3> QED BY <3>1, <3>2, <3>3
  <2>2. CASE j \notin 1..n
    <3>1. j - n \in 1..m /\ t[j] = b[j - n] /\ j > n
      BY <1>2, <2>2
    <3>2. i \in 1..n
      BY <1>1, <1>2, <3>1 DEF Orderly
    <3>3. t[i] = s[i] /\ t[i].stage = WriterStage(t[j].from[1])
      BY <1>1, <3>2 DEF Written, ReadsLayer
    <3>4. CASE t[j].from[1] = "blocks" /\ t[j].stage = "compute"
      <4>1. PICK k \in 1..n : i < k /\ IsBarrier(s[k], t[j].from, "transfer", "compute")
        BY <1>1, <3>2, <3>3, <3>4 DEF BlocksVisible
      <4>2. k \in DOMAIN t /\ t[k] = s[k] /\ k < j
        BY <1>1, <3>1
      <4> QED BY <3>3, <3>4, <4>1, <4>2 DEF WriterStage
    <3>5. CASE ~ (t[j].from[1] = "blocks" /\ t[j].stage = "compute")
      <4>1. PICK k \in 1..m : k < j - n /\ IsBarrier(b[k], t[j].from, WriterStage(t[j].from[1]), t[j].stage)
        BY <1>1, <3>1, <3>5 DEF Orderly
      <4>2. n + k \in DOMAIN t /\ t[n + k] = b[k] /\ i < n + k /\ n + k < j
        BY <1>1, <3>1, <3>2, <4>1
      <4> QED BY <3>3, <4>1, <4>2
    <3> QED BY <3>4, <3>5
  <2> QED BY <2>1, <2>2
<1> QED BY <1>1, <1>4, <1>5, <1>6 DEF t

\* The three kinds of commands.
LEMMA CommandTypes ==
  ASSUME NEW from \in Places
  PROVE  /\ \A to \in Places : Copy(from, to) \in Commands
         /\ \A op \in {"decompress", "watermark", "encode", "analyze"} :
            \A to \in SUBSET Places : Shader(op, from, to) \in Commands
         /\ \A before, after \in {"compute", "transfer"} : Barrier(from, before, after) \in Commands
BY DEF Copy, Shader, Barrier, Commands, Shaders

\* A command that reads nothing of the layer, or the blocks of an image.
LEMMA OneCommand ==
  ASSUME NEW c \in Commands,
         \A p \in c.to : p[1] # "blocks" /\ (p[1] \in Buffers => c.stage = WriterStage(p[1])),
         ReadsLayer(c) => c.from[1] = "blocks" /\ c.stage = "compute"
  PROVE  <<c>> \in Seq(Commands) /\ Orderly(<<c>>)
<1> DEFINE b == <<c>>
<1>1. b \in Seq(Commands) /\ DOMAIN b = {1} /\ b[1] = c
  OBVIOUS
<1> HIDE DEF b
<1>2. Written(b) /\ BlocksVisible(b)
  BY <1>1 DEF Written, BlocksVisible
<1>3. ReadsLayer(b[1]) => b[1].from \notin b[1].to
  BY <1>1
<1>4. Orderly(b)
  BY <1>1, <1>2, <1>3 DEF Orderly
<1> QED BY <1>1, <1>4 DEF b

\* A read of a buffer that a shader wrote, behind its barrier.
LEMMA ReadBehindBarrier ==
  ASSUME NEW c \in Commands, c.op # "barrier", c.from \notin c.to,
         c.from[1] \in Buffers \ {"blocks", "dump"},
         \A p \in c.to : p[1] # "blocks" /\ (p[1] \in Buffers => c.stage = WriterStage(p[1]))
  PROVE  /\ <<Barrier(c.from, "compute", c.stage), c>> \in Seq(Commands)
         /\ Orderly(<<Barrier(c.from, "compute", c.stage), c>>)
<1> DEFINE a == Barrier(c.from, "compute", c.stage)
           b == <<a, c>>
<1>1. c.from \in Places /\ c.stage \in {"compute", "transfer"}
  BY DEF Commands
<1>2. /\ a \in Commands /\ a.to = {} /\ a.op = "barrier"
      /\ IsBarrier(a, c.from, "compute", c.stage)
  BY <1>1, CommandTypes DEF Barrier, IsBarrier
<1> HIDE DEF a
<1>3. b \in Seq(Commands) /\ DOMAIN b = {1, 2} /\ b[1] = a /\ b[2] = c
  BY <1>2
<1> HIDE DEF b
<1>4. Written(b) /\ BlocksVisible(b)
  BY <1>2, <1>3 DEF Written, BlocksVisible
<1>5. ~ ReadsLayer(b[1])
  BY <1>2, <1>3 DEF ReadsLayer
<1>6. /\ \A i \in DOMAIN b : b[2].from \notin b[i].to
      /\ 1 < 2 /\ IsBarrier(b[1], b[2].from, WriterStage(b[2].from[1]), b[2].stage)
  BY <1>2, <1>3 DEF WriterStage
<1>7. Orderly(b)
  BY <1>3, <1>4, <1>5, <1>6 DEF Orderly
<1> QED BY <1>3, <1>7 DEF b, a

\* The copy of an image's blocks.
LEMMA BlocksCopied ==
  ASSUME NEW p \in Places, p[1] = "blocks"
  PROVE  /\ <<Copy(Source, p), Barrier(p, "transfer", "compute")>> \in Seq(Commands)
         /\ Orderly(<<Copy(Source, p), Barrier(p, "transfer", "compute")>>)
<1> DEFINE a == Copy(Source, p)
           c == Barrier(p, "transfer", "compute")
           b == <<a, c>>
<1>1. /\ a \in Commands /\ a.to = {p} /\ a.stage = "transfer" /\ a.from = Source
      /\ c \in Commands /\ c.to = {} /\ c.op = "barrier"
      /\ IsBarrier(c, p, "transfer", "compute")
  BY CommandTypes DEF Copy, Barrier, IsBarrier, Places
<1> HIDE DEF a, c
<1>2. b \in Seq(Commands) /\ DOMAIN b = {1, 2} /\ b[1] = a /\ b[2] = c
  BY <1>1
<1> HIDE DEF b
<1>3. Written(b)
  BY <1>1, <1>2 DEF Written, WriterStage
<1>4. BlocksVisible(b)
  BY <1>1, <1>2 DEF BlocksVisible
<1>5. ~ ReadsLayer(b[1]) /\ ~ ReadsLayer(b[2])
  BY <1>1, <1>2 DEF ReadsLayer, Source, Buffers
<1>6. Orderly(b)
  BY <1>2, <1>3, <1>4, <1>5 DEF Orderly
<1> QED BY <1>2, <1>6 DEF b, a, c

LEMMA NoCommand == <<>> \in Seq(Commands) /\ Orderly(<<>>)
BY DEF Orderly, Written, BlocksVisible

\* A step that appends an orderly block or leaves the commands alone.
LEMMA SoundStep ==
  ASSUME CommandsSound, NEW b \in Seq(Commands), Orderly(b), cmds' \in {cmds, cmds \o b}
  PROVE  CommandsSound'
<1>1. CASE cmds' = cmds
  BY <1>1 DEF CommandsSound
<1>2. CASE cmds' = cmds \o b
  BY <1>2, Continued DEF CommandsSound
<1> QED BY <1>1, <1>2

\* The oldest command is executed.
LEMMA Executed ==
  ASSUME CommandsSound, cmds # <<>>, cmds' = Tail(cmds)
  PROVE  CommandsSound'
<1> DEFINE t == Tail(cmds)
<1>1. /\ t \in Seq(Commands) /\ DOMAIN cmds \subseteq Nat /\ DOMAIN t \subseteq Nat
      /\ \A i \in DOMAIN t : i + 1 \in DOMAIN cmds /\ t[i] = cmds[i + 1]
      /\ \A k \in DOMAIN cmds : k = 1 \/ (k - 1 \in DOMAIN t /\ t[k - 1] = cmds[k])
  BY TailIndex DEF CommandsSound
<1> HIDE DEF t
<1>2. /\ \A i \in DOMAIN t : i + 1 \in DOMAIN cmds /\ t[i] = cmds[i + 1]
      /\ \A i \in DOMAIN t : \A k \in DOMAIN cmds : i + 1 < k =>
            k - 1 \in DOMAIN t /\ t[k - 1] = cmds[k] /\ i < k - 1
  BY <1>1
<1>3. Written(t)
  BY <1>2 DEF CommandsSound, Written
<1>4. BlocksVisible(t)
  <2> SUFFICES ASSUME NEW i \in DOMAIN t, NEW p \in t[i].to, p[1] = "blocks"
               PROVE  \E k \in DOMAIN t : i < k /\ IsBarrier(t[k], p, "transfer", "compute")
    BY DEF BlocksVisible
  <2>1. PICK k \in DOMAIN cmds : i + 1 < k /\ IsBarrier(cmds[k], p, "transfer", "compute")
    BY <1>2 DEF CommandsSound, BlocksVisible
  <2> QED BY <1>2, <2>1
<1>5. Ordered(t)
  <2> SUFFICES ASSUME NEW i \in DOMAIN t, NEW j \in DOMAIN t, i < j,
                      ReadsLayer(t[j]), t[j].from \in t[i].to
               PROVE  \E k \in DOMAIN t : /\ i < k /\ k < j
                                          /\ IsBarrier(t[k], t[j].from, t[i].stage, t[j].stage)
    BY DEF Ordered
  <2>1. i + 1 < j + 1
    BY <1>1
  <2>2. PICK k \in DOMAIN cmds :
          i + 1 < k /\ k < j + 1 /\ IsBarrier(cmds[k], t[j].from, t[i].stage, t[j].stage)
    BY <1>2, <2>1 DEF CommandsSound, Ordered
  <2>3. k - 1 < j
    BY <1>1, <2>2
  <2> QED BY <1>2, <2>2, <2>3
<1> QED BY <1>1, <1>3, <1>4, <1>5 DEF CommandsSound, t

LEMMA Dispatched ==
  ASSUME NEW b, NEW c, NEW no, Dispatch(b, c, no)
  PROVE  /\ cmds' \in {cmds, cmds \o (b \o <<c>>)}
         /\ memory' \in {memory, Execute(c, memory)}
BY DEF Dispatch, Record

LEMMA CommandsStep == Parameters /\ Types /\ CommandsSound /\ [Next]_vars => CommandsSound'
<1> SUFFICES ASSUME Parameters, Types, CommandsSound, [Next]_vars
             PROVE  CommandsSound'
  OBVIOUS
<1>0. ASSUME pc # "start", NEW k \in Buffers \cup {"image"}
      PROVE  <<k, region>> \in Places
  BY <1>0 DEF Types, Parameters, Regions, region, Places
<1>s. Source \in Places /\ Source[1] \notin Buffers /\ Image[1] \notin Buffers
  BY DEF Places, Source, Image, Buffers
<1>c. pc # "start" => Copied \in Places /\ Copied[1] \in {"source", "blocks"}
  BY <1>0, <1>s DEF Copied, Place, Source, Buffers
<1>k. WriterStage("dump") = "transfer"
      /\ \A k \in Buffers \ {"blocks", "dump"} : WriterStage(k) = "compute"
  BY DEF WriterStage
<1>u. ASSUME UNCHANGED cmds
      PROVE  CommandsSound'
  BY <1>u DEF CommandsSound
<1>3. CASE CopyImageToBlocks
  <2> DEFINE b == <<Copy(Source, Place("blocks")), Barrier(Place("blocks"), "transfer", "compute")>>
  <2>1. pc = "blocks" /\ (Record(b) \/ UNCHANGED cmds)
    BY <1>3 DEF CopyImageToBlocks
  <2>2. Place("blocks") \in Places /\ Place("blocks")[1] = "blocks"
    BY <1>0, <2>1 DEF Place, Buffers
  <2>3. b \in Seq(Commands) /\ Orderly(b)
    BY <2>2, BlocksCopied
  <2> HIDE DEF b
  <2> QED BY <2>1, <2>3, SoundStep DEF Record
<1>4. CASE DumpBlocks
  <2> DEFINE c == Copy(Copied, Place("dump"))
  <2>1. pc = "dump" /\ UsedAtOnce("dump", <<c>>, "staging")
    BY <1>4 DEF DumpBlocks
  <2>2. Place("dump") \in Places /\ Place("dump")[1] = "dump"
    BY <1>0, <2>1 DEF Place, Buffers
  <2>3. c \in Commands /\ c.to = {Place("dump")} /\ c.stage = "transfer"
    BY <1>c, <2>1, <2>2, CommandTypes DEF Copy
  <2> HIDE DEF c
  <2>4. ~ ReadsLayer(c)
    BY <2>2, <2>3 DEF ReadsLayer
  <2>5. <<c>> \in Seq(Commands) /\ Orderly(<<c>>)
    BY <1>k, <2>2, <2>3, <2>4, OneCommand
  <2> QED BY <2>1, <2>5, BufferUsed, SoundStep
<1>10. CASE DecompressToBuffer
  <2> DEFINE c == Shader("decompress", Copied, {Place(targetBuffer)})
  <2>1. pc = "decompress" /\ \E no : Dispatch(<<>>, c, no)
    BY <1>10 DEF DecompressToBuffer
  <2>2. /\ targetBuffer \in {"decoded", "marked", "staging"}
        /\ Place(targetBuffer) \in Places /\ Place(targetBuffer)[1] = targetBuffer
    BY <1>0, <2>1 DEF Place, Buffers, targetBuffer
  <2>3. c \in Commands /\ c.to = {Place(targetBuffer)} /\ c.stage = "compute" /\ c.from = Copied
    BY <1>c, <2>1, <2>2, CommandTypes DEF Shader
  <2> HIDE DEF c
  <2>4. <<c>> \in Seq(Commands) /\ Orderly(<<c>>)
    BY <1>c, <1>k, <2>1, <2>2, <2>3, OneCommand DEF ReadsLayer, Buffers
  <2>5. <<>> \o <<c>> = <<c>>
    BY <2>4
  <2> QED BY <2>1, <2>4, <2>5, Dispatched, SoundStep
<1>11. CASE DecompressToView
  <2> DEFINE c == Shader("decompress", Copied, {Image})
  <2>1. pc = "decompress" /\ (UNCHANGED cmds \/ \E no : Dispatch(<<>>, c, no))
    BY <1>11 DEF DecompressToView
  <2>2. Image \in Places /\ Image[1] = "image"
    BY <1>0, <2>1 DEF Image, Buffers
  <2>3. c \in Commands /\ c.to = {Image} /\ c.stage = "compute" /\ c.from = Copied
    BY <1>c, <2>1, <2>2, CommandTypes DEF Shader
  <2> HIDE DEF c
  <2>4. <<c>> \in Seq(Commands) /\ Orderly(<<c>>)
    BY <1>c, <1>s, <2>1, <2>2, <2>3, OneCommand DEF ReadsLayer, Buffers
  <2>5. <<>> \o <<c>> = <<c>>
    BY <2>4
  <2> QED BY <1>u, <2>1, <2>4, <2>5, Dispatched, SoundStep
<1>12. CASE AddWatermark
  <2> DEFINE destination == IF enable_transcode THEN "marked" ELSE "staging"
             c == Shader("watermark", Place(targetBuffer), {Place(destination)})
             a == Barrier(Place(targetBuffer), "compute", "compute")
             b == <<a, c>>
  <2>1. /\ pc = "watermark" /\ watermarked(depth)
        /\ UNCHANGED cmds \/ \E no : Dispatch(<<a>>, c, no)
    BY <1>12 DEF AddWatermark
  <2>2. /\ targetBuffer \in {"decoded", "marked"} /\ destination \in {"marked", "staging"}
        /\ targetBuffer # destination
    BY <2>1 DEF targetBuffer
  <2> HIDE DEF destination
  <2>3. /\ Place(targetBuffer) \in Places /\ Place(targetBuffer)[1] = targetBuffer
        /\ Place(destination) \in Places /\ Place(destination)[1] = destination
        /\ Place(targetBuffer) # Place(destination)
    BY <1>0, <2>1, <2>2 DEF Place, Buffers
  <2>4. /\ c \in Commands /\ c.to = {Place(destination)} /\ c.stage = "compute"
        /\ c.from = Place(targetBuffer) /\ c.op # "barrier"
    BY <2>3, CommandTypes DEF Shader
  <2> HIDE DEF c
  <2>5. /\ b = <<Barrier(c.from, "compute", c.stage), c>>
        /\ c.from \notin c.to /\ c.from[1] \in Buffers \ {"blocks", "dump"}
        /\ \A p \in c.to : p[1] # "blocks" /\ (p[1] \in Buffers => c.stage = WriterStage(p[1]))
    BY <1>k, <2>2, <2>3, <2>4 DEF Buffers
  <2>6. b \in Seq(Commands) /\ Orderly(b)
    BY <2>4, <2>5, ReadBehindBarrier
  <2>7. <<a>> \o <<c>> = b
    BY <2>3, <2>4, CommandTypes, PairFacts
  <2> HIDE DEF a, b
  <2> QED BY <1>u, <2>1, <2>6, <2>7, Dispatched, SoundStep
<1>13. CASE NoWatermark
  <2> DEFINE c == Barrier(Image, "compute", "transfer")
  <2>1. pc = "watermark" /\ (Record(<<c>>) \/ Record(<<>>))
    BY <1>13 DEF NoWatermark
  <2>2. Image \in Places
    BY <1>0, <2>1 DEF Image
  <2>3. c \in Commands /\ c.to = {} /\ c.op = "barrier"
    BY <2>2, CommandTypes DEF Barrier
  <2> HIDE DEF c
  <2>4. <<c>> \in Seq(Commands) /\ Orderly(<<c>>)
    BY <2>3, OneCommand DEF ReadsLayer
  <2> QED BY <2>1, <2>4, NoCommand, SoundStep DEF Record
<1>e. ASSUME pc # "start", NEW op \in {"encode", "analyze"}, NEW kind \in Buffers \ {"blocks", "dump"},
             NEW kinds \in SUBSET (Buffers \ {"blocks", "dump"}), kind \notin kinds,
             \E no : Dispatch(<<Barrier(Place(kind), "compute", "compute")>>,
                              Shader(op, Place(kind), kinds \X {region}), no)
      PROVE  CommandsSound'
  <2> DEFINE c == Shader(op, Place(kind), kinds \X {region})
             a == Barrier(Place(kind), "compute", "compute")
             b == <<a, c>>
  <2>1. /\ Place(kind) \in Places /\ Place(kind)[1] = kind
        /\ \A p \in kinds \X {region} : p \in Places /\ p[1] \in kinds
        /\ Place(kind) \notin kinds \X {region}
    <3>1. \A k \in Buffers : <<k, region>> \in Places
      BY <1>0, <1>e
    <3>2. \A p \in kinds \X {region} : p[1] \in kinds /\ p = <<p[1], region>>
      OBVIOUS
    <3> QED BY <1>e, <3>1, <3>2 DEF Place
  <2>2. /\ c \in Commands /\ c.to = kinds \X {region} /\ c.stage = "compute"
        /\ c.from = Place(kind) /\ c.op # "barrier"
    BY <2>1, CommandTypes DEF Shader
  <2> HIDE DEF c
  <2>3. /\ b = <<Barrier(c.from, "compute", c.stage), c>>
        /\ c.from \notin c.to /\ c.from[1] \in Buffers \ {"blocks", "dump"}
        /\ \A p \in c.to : p[1] # "blocks" /\ (p[1] \in Buffers => c.stage = WriterStage(p[1]))
    BY <1>k, <2>1, <2>2
  <2>4. b \in Seq(Commands) /\ Orderly(b)
    BY <2>2, <2>3, ReadBehindBarrier
  <2>5. \E no : Dispatch(<<a>>, c, no)
    BY <1>e DEF c
  <2>6. <<a>> \o <<c>> = b
    BY <2>1, <2>2, CommandTypes, PairFacts
  <2> HIDE DEF a, b
  <2> QED BY <2>4, <2>5, <2>6, Dispatched, SoundStep
<1>16. CASE EncodeEtc2
  <2>1. sourceDecodedBuffer(depth) \in {"marked", "decoded"} /\ {"staging"} \X {region} = {Place("staging")}
    BY DEF sourceDecodedBuffer, Place
  <2>2. pc = "etc2" /\ \E no : Encode({"staging"} \X {region}, no)
    BY <1>16, <2>1 DEF EncodeEtc2
  <2> QED BY <1>e, <2>1, <2>2 DEF Encode, Buffers
<1>19. CASE EncodeAstc
  <2>1. /\ sourceDecodedBuffer(depth) \in {"marked", "decoded"}
        /\ {"staging"} \X {region} = {Place("staging")}
        /\ {"staging", "debug"} \X {region} = {Place("staging"), Place("debug")}
    BY DEF sourceDecodedBuffer, Place
  <2>2. /\ pc = "astc"
        /\ \/ \E no : Encode({"staging"} \X {region}, no)
           \/ \E no : Encode({"staging", "debug"} \X {region}, no)
    BY <1>19, <2>1 DEF EncodeAstc
  <2> QED BY <1>e, <2>1, <2>2 DEF Encode, Buffers
<1>20. CASE AnalyzeAstc
  <2>1. {"analysis"} \X {region} = {Place("analysis")}
    BY DEF Place
  <2>2. /\ pc = "analyze"
        /\ \E no : Dispatch(<<Barrier(Place("debug"), "compute", "compute")>>,
                            Shader("analyze", Place("debug"), {"analysis"} \X {region}), no)
    BY <1>20, <2>1 DEF AnalyzeAstc
  <2> QED BY <1>e, <2>2 DEF Buffers
<1>22. CASE Upload
  <2> DEFINE c == Copy(Place("staging"), Image)
             b == <<Barrier(Place("staging"), "compute", "transfer"), c>>
  <2>1. pc = "upload" /\ (UNCHANGED cmds \/ Record(b))
    BY <1>22 DEF Upload, UploadCommands
  <2>2. /\ Place("staging") \in Places /\ Place("staging")[1] = "staging"
        /\ Image \in Places /\ Image[1] = "image" /\ Image # Place("staging")
    BY <1>0, <2>1 DEF Place, Image, Buffers
  <2>3. /\ c \in Commands /\ c.to = {Image} /\ c.stage = "transfer"
        /\ c.from = Place("staging") /\ c.op # "barrier"
    BY <2>2, CommandTypes DEF Copy
  <2> HIDE DEF c
  <2>4. /\ b = <<Barrier(c.from, "compute", c.stage), c>>
        /\ c.from \notin c.to /\ c.from[1] \in Buffers \ {"blocks", "dump"}
        /\ \A p \in c.to : p[1] # "blocks" /\ (p[1] \in Buffers => c.stage = WriterStage(p[1]))
    BY <1>s, <2>2, <2>3 DEF Buffers
  <2>5. b \in Seq(Commands) /\ Orderly(b)
    BY <2>3, <2>4, ReadBehindBarrier
  <2> HIDE DEF b
  <2> QED BY <1>u, <2>1, <2>5, SoundStep DEF Record
<1>17. CASE DebugBuffer \/ AnalysisBuffer
  <2>1. \E kind, next : UsedAtOnce(kind, <<>>, next)
    BY <1>17 DEF DebugBuffer, AnalysisBuffer
  <2> QED BY <2>1, BufferUsed, NoCommand, SoundStep
<1>25. CASE \/ NextRegion \/ Return \/ NoDump \/ CreateStaging \/ CreateDecoded \/ CreateMarked
            \/ AllocateDecompressSet \/ AllocateEncodeSet \/ NoEncode \/ Collect \/ NoUpload
            \/ FinishRegion \/ UNCHANGED vars
  <2>1. UNCHANGED cmds
    BY <1>25 DEF NextRegion, Return, NoDump, CreateStaging, CreateDecoded, CreateMarked,
       AllocateDecompressSet, AllocateEncodeSet, NoEncode, Collect, NoUpload, FinishRegion, vars
  <2> QED BY <1>u, <2>1
<1>26. CASE ExecuteNext
  BY <1>26, Executed DEF ExecuteNext
<1> QED
  BY <1>3, <1>4, <1>10, <1>11, <1>12, <1>13, <1>16, <1>17, <1>19, <1>20, <1>22, <1>25, <1>26 DEF Next

------------------------------------------------------------------------------
(* What places hold.  When texels go through a staging buffer and one-shots   *)
(* find their source in memory, every place is written with one value only,   *)
(* and every command finds its source written, by an earlier one, in the      *)
(* regions nothing was refused for.                                           *)

Staged == ~ setup.use_image_view /\ SourceInTime

\* What is done to the source's blocks to get what is written to each place.
Value(p) ==
  CASE p[1] = "decoded" -> <<"decompress">>
    [] p[1] = "marked" ->
         IF enable_transcode THEN <<"decompress", "watermark">> ELSE <<"decompress">>
    [] p[1] \in {"staging", "debug", "image"} -> Expected(p[2])
    [] p[1] = "analysis" -> Append(Expected(p[2]), "analyze")
    [] OTHER -> <<>>
Result(c) == IF c.op = "copy" THEN Value(c.from) ELSE Append(Value(c.from), c.op)

\* A place that holds its value, or will once the recorded commands are executed.
Holds(p) == memory[p] = Value(p)
Coming(p) == Holds(p) \/ \E i \in DOMAIN cmds : p \in cmds[i].to
\* One that a shader can read: a one-shot does not wait for recorded commands.
Made(p) == IF setup.sample THEN Holds(p) ELSE Coming(p)

\* A command writes the values of its targets, and stays within its region.
Faithful(c) ==
  \A p \in c.to : c.op # "barrier" /\ p[2] \in 0 .. region
                  /\ c.from[2] \in {0, p[2]} /\ Value(p) = Result(c)
Supplied(s) ==
  \A j \in DOMAIN s : \A p \in s[j].to :
     Granted(p[2]) => Holds(s[j].from) \/ \E i \in DOMAIN s : i < j /\ s[j].from \in s[i].to

Flow ==
  /\ Holds(AppCommand) /\ Coming(Source) /\ (setup.ready => Holds(Source))
  /\ \A i \in DOMAIN cmds : Faithful(cmds[i])
  /\ Supplied(cmds)

\* What the region in progress has made so far, when nothing was refused for it.
Marked == Place(IF enable_transcode THEN "marked" ELSE "staging")
Owed(at) ==
  {p \in Places :
     \/ /\ at \in AfterStaging \cup {"dump", "staging"}
        /\ setup.entry = "image" /\ p = Place("blocks")
     \/ /\ at \in {"watermark", "encode", "etc2", "debug", "analysis", "astc"}
        /\ p = Place(targetBuffer)
     \/ /\ at \in {"encode", "etc2", "debug", "analysis", "astc"}
        /\ WantsMarked /\ p = Marked
     \/ at = "analyze" /\ p = Place("debug")
     \/ at \in {"analyze", "collect", "upload"} /\ p = Place("staging")}
Ready == Owed(pc)
Reached ==
  /\ \A p \in Ready : Made(p)
  /\ pc = "finish" => \A p \in {Image} : Coming(p)
Arrived ==
  \A r \in 1 .. region :
     (r < region \/ pc \in {"start", "done"}) /\ Granted(r) => Coming(<<"image", r>>)
Encoding == pc \in {"etc2", "debug", "analysis", "astc"} => enable_transcode
Delivery == Staged => Flow /\ Arrived /\ Encoding /\ (Granted(region) => Reached)

\* The values the handlers rely on.
LEMMA Values ==
  ASSUME NEW r \in Regions
  PROVE  /\ Value(Source) = <<>> /\ Value(AppCommand) = <<>>
         /\ Value(<<"blocks", r>>) = <<>> /\ Value(<<"dump", r>>) = <<>>
         /\ Value(<<"decoded", r>>) = <<"decompress">>
         /\ Value(<<"marked", r>>) =
              IF enable_transcode THEN <<"decompress", "watermark">> ELSE <<"decompress">>
         /\ Value(<<"staging", r>>) = Expected(r) /\ Value(<<"debug", r>>) = Expected(r)
         /\ Value(<<"image", r>>) = Expected(r)
         /\ Value(<<"analysis", r>>) = Append(Expected(r), "analyze")
BY DEF Value, Source, AppCommand

LEMMA Expectations ==
  ASSUME NEW r
  PROVE  Expected(r) =
           IF watermarked(depths[r])
           THEN IF enable_transcode THEN <<"decompress", "watermark", "encode">>
                ELSE <<"decompress", "watermark">>
           ELSE IF enable_transcode THEN <<"decompress", "encode">> ELSE <<"decompress">>
<1>1. "decompress" \in Shaders /\ "watermark" \in Shaders /\ "encode" \in Shaders
  BY DEF Shaders
<1>2. \A s \in Seq(Shaders) : s \o <<>> = s
  BY ConcatEmptySeq
<1>3. <<"decompress">> \in Seq(Shaders) /\ <<"decompress", "watermark">> \in Seq(Shaders)
  BY <1>1
<1>4. <<"decompress">> \o <<"watermark">> = <<"decompress", "watermark">>
  BY <1>1, PairFacts
<1>5. <<"decompress">> \o <<"encode">> = <<"decompress", "encode">>
  BY <1>1, PairFacts
<1>6. <<"decompress", "watermark">> \o <<"encode">> = <<"decompress", "watermark", "encode">>
  BY <1>1, TripleFacts
<1> QED BY <1>2, <1>3, <1>4, <1>5, <1>6 DEF Expected

LEMMA Appended ==
  /\ Append(<<>>, "decompress") = <<"decompress">>
  /\ Append(<<"decompress">>, "watermark") = <<"decompress", "watermark">>
  /\ Append(<<"decompress">>, "encode") = <<"decompress", "encode">>
  /\ Append(<<"decompress", "watermark">>, "encode") = <<"decompress", "watermark", "encode">>
<1>1. "decompress" \in Shaders /\ "watermark" \in Shaders /\ "encode" \in Shaders
  BY DEF Shaders
<1>2. Append(<<>>, "decompress") = <<"decompress">>
  <2>1. Append(<<>>, "decompress") = <<>> \o <<"decompress">>
    BY <1>1, AppendIsConcat, EmptySeq
  <2> QED BY <1>1, <2>1, ConcatEmptySeq
<1>3. Append(<<"decompress">>, "watermark") = <<"decompress", "watermark">>
  BY <1>1, PairFacts
<1>4. Append(<<"decompress">>, "encode") = <<"decompress", "encode">>
  BY <1>1, PairFacts
<1>5. Append(<<"decompress", "watermark">>, "encode") = <<"decompress", "watermark", "encode">>
  BY <1>1, TripleFacts
<1> QED BY <1>2, <1>3, <1>4, <1>5

LEMMA SameValues ==
  ASSUME UNCHANGED <<setup, depths>>
  PROVE  \A p : Value(p)' = Value(p)
BY DEF Value, Expected, watermarked, enable_transcode, transcode_to_etc2, transcode_to_astc

LEMMA GrantedFacts ==
  ASSUME Types, Parameters, refused \subseteq refused'
  PROVE  Granted(0) /\ \A r : Granted(r)' => Granted(r)
BY DEF Types, Parameters, Regions, Granted

\* What a step leaves in place, where nothing has been refused.
Keeps ==
  \A p \in Places : Granted(p[2]) => (Holds(p) => Holds(p)') /\ (Coming(p) => Coming(p)')

LEMMA StillFaithful ==
  ASSUME UNCHANGED <<setup, depths>>, NEW c, Faithful(c)
  PROVE  Faithful(c)'
<1>1. region' = region
  BY DEF region
<1>2. Result(c)' = Result(c)
  BY SameValues DEF Result
<1> QED BY <1>1, <1>2, SameValues DEF Faithful

\* Recording a block with one command that writes.
LEMMA FlowRecorded ==
  ASSUME Types, Parameters, CommandsSound, Flow,
         UNCHANGED <<setup, depths, memory>>, refused \subseteq refused',
         NEW b \in Seq(Commands), NEW c \in Commands,
         \A i \in DOMAIN b : b[i] = c \/ b[i].to = {},
         \E i \in DOMAIN b : b[i] = c,
         Faithful(c), \A p \in c.to : Granted(p[2]) => Coming(c.from),
         cmds' = cmds \o b
  PROVE  Flow' /\ Keeps /\ \A p \in c.to : Coming(p)'
<1> DEFINE n == Len(cmds)
           m == Len(b)
<1>t. PICK t : t = cmds \o b
  OBVIOUS
<1>u. cmds' = t
  BY <1>t
<1>1. /\ n \in Nat /\ m \in Nat
      /\ DOMAIN cmds = 1..n /\ DOMAIN b = 1..m /\ DOMAIN t = 1..(n + m)
      /\ \A i \in 1..n : t[i] = cmds[i]
      /\ \A i \in 1..m : t[n + i] = b[i]
      /\ \A i \in DOMAIN t : i \in 1..n \/ (i > n /\ i - n \in 1..m /\ t[i] = b[i - n])
  BY <1>t, ConcatIndex DEF CommandsSound
<1> HIDE DEF n, m
<1>2. \A i \in DOMAIN t : i \in 1..n \/ (i > n /\ (t[i] = c \/ t[i].to = {}))
  BY <1>1
<1>3. \A p : Holds(p)' <=> Holds(p)
  BY SameValues DEF Holds
<1>4. \A p : Coming(p) => Coming(p)'
  BY <1>1, <1>u, <1>3 DEF Coming
<1>5. \A p \in c.to : Coming(p)'
  <2>1. PICK i \in 1..m : b[i] = c
    BY <1>1
  <2>2. n + i \in DOMAIN t /\ t[n + i] = c
    BY <1>1, <2>1
  <2> QED BY <1>u, <2>2 DEF Coming
<1>6. \A i \in DOMAIN t : Faithful(t[i])'
  <2>1. ASSUME NEW i \in 1..n
        PROVE  Faithful(t[i])'
    <3>1. t[i] = cmds[i] /\ Faithful(t[i])
      BY <1>1 DEF Flow
    <3> QED BY <3>1, StillFaithful
  <2>2. Faithful(c)'
    BY StillFaithful
  <2>3. \A x : x.to = {} => Faithful(x)'
    BY DEF Faithful
  <2> QED BY <1>2, <2>1, <2>2, <2>3
<1>7. Supplied(t)'
  <2> SUFFICES ASSUME NEW j \in DOMAIN t, NEW p \in t[j].to, Granted(p[2])'
               PROVE  Holds(t[j].from)' \/ \E i \in DOMAIN t : i < j /\ t[j].from \in t[i].to
    BY DEF Supplied
  <2>1. Granted(p[2])
    BY GrantedFacts
  <2>2. CASE j \in 1..n
    <3>1. Holds(cmds[j].from) \/ \E i \in 1..n : i < j /\ cmds[j].from \in cmds[i].to
      BY <1>1, <2>1, <2>2 DEF Flow, Supplied
    <3>2. \A i \in 1..n : i \in DOMAIN t /\ t[i] = cmds[i]
      BY <1>1
    <3> QED BY <1>1, <1>3, <2>2, <3>1, <3>2
  <2>3. CASE j \notin 1..n
    <3>1. t[j] = c /\ j > n
      BY <1>2, <2>3
    <3>2. Holds(c.from) \/ \E i \in 1..n : c.from \in cmds[i].to
      BY <1>1, <2>1, <3>1 DEF Coming
    <3>3. \A i \in 1..n : i \in DOMAIN t /\ t[i] = cmds[i] /\ i < j
      BY <1>1, <3>1
    <3> QED BY <1>3, <3>1, <3>2, <3>3
  <2> QED BY <2>2, <2>3
<1>8. Flow'
  BY <1>u, <1>3, <1>4, <1>6, <1>7 DEF Flow
<1> QED BY <1>3, <1>4, <1>5, <1>8 DEF Keeps

\* Executing a command whose source is there.
LEMMA HoldsExecuted ==
  ASSUME UNCHANGED <<setup, depths>>, NEW c \in Commands, Faithful(c),
         \A p \in c.to : Granted(p[2]) => Holds(c.from),
         memory' = Execute(c, memory)
  PROVE  /\ \A p \in Places : Granted(p[2]) /\ Holds(p) => Holds(p)'
         /\ \A p \in c.to : p \in Places /\ (Granted(p[2]) => Holds(p)')
<1>1. \A p \in Places : memory'[p] = IF p \notin c.to THEN memory[p]
                                   ELSE IF c.op = "copy" THEN memory[c.from]
                                   ELSE Append(memory[c.from], c.op)
  BY DEF Execute
<1>2. \A p \in c.to : p \in Places
  BY DEF Commands
<1>3. ASSUME NEW p \in c.to, Granted(p[2])
      PROVE  memory'[p] = Value(p)
  BY <1>1, <1>2, <1>3 DEF Holds, Faithful, Result
<1> QED BY <1>1, <1>2, <1>3, SameValues DEF Holds

\* A one-shot, executed before anything that is recorded.
LEMMA FlowExecuted ==
  ASSUME Types, Parameters, CommandsSound, Flow,
         UNCHANGED <<setup, depths, cmds>>, refused \subseteq refused',
         NEW c \in Commands, Faithful(c), \A p \in c.to : Granted(p[2]) => Holds(c.from),
         memory' = Execute(c, memory)
  PROVE  Flow' /\ Keeps /\ \A p \in c.to : Granted(p[2]) => Holds(p)'
<1>1. /\ \A p \in Places : Granted(p[2]) /\ Holds(p) => Holds(p)'
      /\ \A p \in c.to : Granted(p[2]) => Holds(p)'
  BY HoldsExecuted
<1>2. Keeps
  BY <1>1 DEF Keeps, Coming
<1>3. AppCommand \in Places /\ Source \in Places /\ AppCommand[2] = 0 /\ Source[2] = 0
  BY DEF Places, AppCommand, Source
<1>4. \A i \in DOMAIN cmds : Faithful(cmds[i])'
  BY StillFaithful DEF Flow
<1>5. Supplied(cmds)'
  <2> SUFFICES ASSUME NEW j \in DOMAIN cmds, NEW p \in cmds[j].to, Granted(p[2])'
               PROVE  Holds(cmds[j].from)' \/ \E i \in DOMAIN cmds : i < j /\ cmds[j].from \in cmds[i].to
    BY DEF Supplied
  <2>1. Granted(p[2]) /\ Granted(cmds[j].from[2])
    BY GrantedFacts DEF Flow, Faithful
  <2>2. cmds[j] \in Commands /\ cmds[j].from \in Places
    BY DEF CommandsSound, Commands
  <2> QED BY <1>1, <2>1, <2>2 DEF Flow, Supplied
<1>6. Flow'
  BY <1>1, <1>2, <1>3, <1>4, <1>5, GrantedFacts DEF Flow, Keeps
<1> QED BY <1>1, <1>2, <1>6

\* The oldest recorded command, executed.
LEMMA FlowDrained ==
  ASSUME Types, Parameters, CommandsSound, Flow, cmds # <<>>,
         UNCHANGED <<setup, depths, refused>>,
         memory' = Execute(Head(cmds), memory), cmds' = Tail(cmds)
  PROVE  Flow' /\ Keeps
<1>t. PICK t, c : t = Tail(cmds) /\ c = Head(cmds)
  OBVIOUS
<1>u. cmds' = t /\ memory' = Execute(c, memory)
  BY <1>t
<1>1. /\ c = cmds[1] /\ c \in Commands /\ 1 \in DOMAIN cmds
      /\ DOMAIN cmds \subseteq Nat \ {0} /\ DOMAIN t \subseteq Nat
      /\ \A i \in DOMAIN t : i + 1 \in DOMAIN cmds /\ t[i] = cmds[i + 1]
      /\ \A k \in DOMAIN cmds : k = 1 \/ (k - 1 \in DOMAIN t /\ t[k - 1] = cmds[k])
  BY <1>t, TailIndex DEF CommandsSound
<1>2. /\ \A i \in DOMAIN t, k \in DOMAIN cmds : k < i + 1 /\ k # 1 => k - 1 < i
      /\ \A k \in DOMAIN cmds : ~ (k < 1)
  BY <1>1
<1>3. Faithful(c) /\ \A p \in c.to : Granted(p[2]) => Holds(c.from)
  BY <1>1, <1>2 DEF Flow, Supplied
<1>4. /\ \A p \in Places : Granted(p[2]) /\ Holds(p) => Holds(p)'
      /\ \A p \in c.to : p \in Places /\ (Granted(p[2]) => Holds(p)')
  BY <1>1, <1>3, <1>u, HoldsExecuted
<1>5. Keeps
  <2> SUFFICES ASSUME NEW p \in Places, Granted(p[2]), Coming(p)
               PROVE  Coming(p)'
    BY <1>4 DEF Keeps
  <2>1. CASE Holds(p)
    BY <1>4, <2>1 DEF Coming
  <2>2. CASE ~ Holds(p)
    <3>1. PICK k \in DOMAIN cmds : p \in cmds[k].to
      BY <2>2 DEF Coming
    <3>2. CASE k = 1
      BY <1>1, <1>4, <3>1, <3>2 DEF Coming
    <3>3. CASE k # 1
      BY <1>1, <1>u, <3>1, <3>3 DEF Coming
    <3> QED BY <3>2, <3>3
  <2> QED BY <2>1, <2>2
<1>6. AppCommand \in Places /\ Source \in Places /\ AppCommand[2] = 0 /\ Source[2] = 0
  BY DEF Places, AppCommand, Source
<1>7. ASSUME NEW i \in DOMAIN t
      PROVE  Faithful(t[i])'
  <2>1. Faithful(t[i])
    BY <1>1 DEF Flow
  <2> QED BY <2>1, StillFaithful
<1>8. Supplied(t)'
  <2> SUFFICES ASSUME NEW j \in DOMAIN t, NEW p \in t[j].to, Granted(p[2])'
               PROVE  Holds(t[j].from)' \/ \E i \in DOMAIN t : i < j /\ t[j].from \in t[i].to
    BY DEF Supplied
  <2> DEFINE d == t[j]
  <2>1. j + 1 \in DOMAIN cmds /\ d = cmds[j + 1] /\ d \in Commands /\ d.from \in Places
    BY <1>1 DEF CommandsSound, Commands
  <2> HIDE DEF d
  <2>2. Granted(p[2]) /\ Granted(d.from[2])
    BY <2>1, GrantedFacts DEF Flow, Faithful, d
  <2>3. CASE Holds(d.from)
    BY <1>4, <2>1, <2>2, <2>3 DEF d
  <2>4. CASE ~ Holds(d.from)
    <3>1. PICK k \in DOMAIN cmds : k < j + 1 /\ d.from \in cmds[k].to
      BY <2>1, <2>2, <2>4 DEF Flow, Supplied, d
    <3>2. CASE k = 1
      BY <1>1, <1>4, <2>2, <3>1, <3>2 DEF d
    <3>3. CASE k # 1
      BY <1>1, <1>2, <3>1, <3>3 DEF d
    <3> QED BY <3>2, <3>3
  <2> QED BY <2>3, <2>4
<1>9. Flow'
  BY <1>u, <1>4, <1>5, <1>6, <1>7, <1>8, GrantedFacts DEF Flow, Keeps
<1> QED BY <1>5, <1>9

LEMMA FlowUntouched ==
  ASSUME Types, Parameters, Flow,
         UNCHANGED <<setup, depths, memory, cmds>>, refused \subseteq refused'
  PROVE  Flow' /\ Keeps
<1>1. \A p : (Holds(p)' <=> Holds(p)) /\ (Coming(p)' <=> Coming(p))
  BY SameValues DEF Holds, Coming
<1>2. \A i \in DOMAIN cmds : Faithful(cmds[i])'
  BY StillFaithful DEF Flow
<1>3. Supplied(cmds)'
  BY <1>1, GrantedFacts DEF Flow, Supplied
<1> QED BY <1>1, <1>2, <1>3 DEF Flow, Keeps

\* A dispatch, recorded or executed at once; a refused one-shot spoils its region.
LEMMA FlowDispatched ==
  ASSUME Types, Parameters, CommandsSound, Flow, UNCHANGED <<setup, depths>>,
         NEW b \in Seq(Commands), NEW c \in Commands, NEW no,
         \A i \in DOMAIN b : b[i].to = {}, b \o <<c>> \in Seq(Commands),
         Refuse(no), Dispatch(b, c, no),
         Faithful(c), \A p \in c.to : p[2] = region /\ (Granted(region) => Made(c.from))
  PROVE  Flow' /\ Keeps /\ \A p \in c.to : Granted(region)' => Made(p)'
<1>1. refused \subseteq refused' /\ ("oneshot" \in no => ~ Granted(region)')
  <2>1. "oneshot" \in no => <<"oneshot", region>> \in refused'
    BY RefusedMore DEF Place
  <2> QED BY <2>1, RefusedMore DEF Granted, region
<1>2. CASE setup.sample /\ "oneshot" \notin no
  <2>1. cmds' = cmds /\ memory' = Execute(c, memory)
    BY <1>2 DEF Dispatch
  <2>2. \A p \in c.to : Granted(p[2]) => Holds(c.from)
    BY <1>2 DEF Made
  <2>3. Flow' /\ Keeps /\ \A p \in c.to : Granted(p[2]) => Holds(p)'
    BY <1>1, <2>1, <2>2, FlowExecuted
  <2>4. \A p \in c.to : Granted(region)' => Holds(p)'
    <3> SUFFICES ASSUME NEW p \in c.to, Granted(region)'
                 PROVE  Holds(p)'
      OBVIOUS
    <3>1. region' = region
      BY DEF region
    <3>2. Granted(p[2])
      BY <1>1, <3>1, GrantedFacts
    <3> QED BY <2>3, <3>2
  <2> QED BY <1>2, <2>3, <2>4 DEF Made
<1>3. CASE setup.sample /\ "oneshot" \in no
  <2>1. UNCHANGED <<memory, cmds>>
    BY <1>3 DEF Dispatch
  <2> QED BY <1>1, <1>3, <2>1, FlowUntouched
<1>4. CASE ~ setup.sample
  <2> DEFINE t == b \o <<c>>
  <2>1. cmds' = cmds \o t /\ memory' = memory
    BY <1>4 DEF Dispatch, Record
  <2>2. /\ \A i \in DOMAIN t : t[i] = c \/ t[i].to = {}
        /\ \E i \in DOMAIN t : t[i] = c
    <3>1. <<c>> \in Seq(Commands) /\ Len(<<c>>) = 1 /\ <<c>>[1] = c
      OBVIOUS
    <3>2. /\ Len(b) \in Nat /\ DOMAIN b = 1..Len(b) /\ DOMAIN t = 1..(Len(b) + 1)
          /\ \A i \in 1..Len(b) : t[i] = b[i]
          /\ t[Len(b) + 1] = c
      BY <3>1, ConcatIndex
    <3> HIDE DEF t
    <3> QED BY <3>2
  <2>3. \A p \in c.to : Granted(p[2]) => Coming(c.from)
    BY <1>4 DEF Made
  <2> HIDE DEF t
  <2>4. Flow' /\ Keeps /\ \A p \in c.to : Coming(p)'
    BY <1>1, <2>1, <2>2, <2>3, FlowRecorded DEF t
  <2> QED BY <1>4, <2>4 DEF Made
<1> QED BY <1>2, <1>3, <1>4

------------------------------------------------------------------------------
\* The region in progress.
LEMMA InRegion ==
  ASSUME Parameters, Types, pc # "start"
  PROVE  /\ region \in Regions /\ depth = depths[region]
         /\ \A k \in Buffers \cup {"image"} : Place(k) \in Places /\ Place(k)[2] = region
         /\ Image = Place("image") /\ Source \in Places
         /\ Copied \in Places /\ Copied[2] \in {0, region}
<1>1. region \in Regions
  BY DEF Types, Parameters, Regions, region
<1>2. \A k \in Buffers \cup {"image"} : Place(k) \in Places /\ Place(k)[2] = region
  BY <1>1 DEF Places, Place
<1>3. Source \in Places /\ Source[2] = 0 /\ "blocks" \in Buffers
  BY DEF Places, Source, Buffers
<1> QED BY <1>1, <1>2, <1>3 DEF depth, Image, Place, Copied

\* Each stage adds its shader to the value it reads.
LEMMA StageValues ==
  ASSUME Parameters, Types, pc # "start"
  PROVE  /\ Value(Copied) = <<>> /\ Value(Source) = <<>>
         /\ Value(Place("blocks")) = <<>> /\ Value(Place("dump")) = <<>>
         /\ Value(Place(targetBuffer)) = <<"decompress">>
         /\ watermarked(depth) =>
              Value(Marked) = Append(Value(Place(targetBuffer)), "watermark")
         /\ enable_transcode =>
              \A k \in {"staging", "debug"} :
                 Value(Place(k)) = Append(Value(Place(sourceDecodedBuffer(depth))), "encode")
         /\ Value(Place("analysis")) = Append(Value(Place("debug")), "analyze")
         /\ Value(Image) = Value(Place("staging"))
<1>1. region \in Regions /\ depth = depths[region] /\ Image = Place("image")
  BY InRegion
<1>2. /\ Value(Source) = <<>>
      /\ Value(Place("blocks")) = <<>> /\ Value(Place("dump")) = <<>>
      /\ Value(Place("decoded")) = <<"decompress">>
      /\ Value(Place("marked")) =
           IF enable_transcode THEN <<"decompress", "watermark">> ELSE <<"decompress">>
      /\ Value(Place("staging")) = Expected(region)
      /\ Value(Place("debug")) = Expected(region)
      /\ Value(Place("image")) = Expected(region)
      /\ Value(Place("analysis")) = Append(Expected(region), "analyze")
  BY <1>1, Values DEF Place
<1>3. Expected(region) =
        IF watermarked(depth)
        THEN IF enable_transcode THEN <<"decompress", "watermark", "encode">>
             ELSE <<"decompress", "watermark">>
        ELSE IF enable_transcode THEN <<"decompress", "encode">> ELSE <<"decompress">>
  BY <1>1, Expectations
<1>4. Value(Copied) = <<>>
  BY <1>2 DEF Copied
<1>5. Value(Place(targetBuffer)) = <<"decompress">>
  BY <1>2, <1>3 DEF targetBuffer
<1>6. watermarked(depth) => Value(Marked) = Append(Value(Place(targetBuffer)), "watermark")
  BY <1>2, <1>3, <1>5, Appended DEF Marked
<1>7. ASSUME enable_transcode, NEW k \in {"staging", "debug"}
      PROVE  Value(Place(k)) = Append(Value(Place(sourceDecodedBuffer(depth))), "encode")
  BY <1>2, <1>3, <1>7, Appended DEF sourceDecodedBuffer
<1> QED BY <1>1, <1>2, <1>4, <1>5, <1>6, <1>7

LEMMA SameSetup ==
  ASSUME UNCHANGED <<setup, depths>>
  PROVE  /\ region' = region /\ Image' = Image /\ (Staged' <=> Staged)
         /\ (enable_transcode' <=> enable_transcode)
         /\ \A at : Owed(at)' = Owed(at)
<1>1. region' = region /\ depth' = depth
  BY DEF region, depth
<1>2. /\ enable_transcode' <=> enable_transcode
      /\ watermarked(depth)' <=> watermarked(depth)
      /\ \A k : Place(k)' = Place(k)
  BY <1>1 DEF enable_transcode, transcode_to_etc2, transcode_to_astc, watermarked, Place
<1>3. targetBuffer' = targetBuffer /\ Marked' = Marked /\ (WantsMarked' <=> WantsMarked)
  BY <1>2 DEF targetBuffer, Marked, WantsMarked, Place
<1>4. \A at : Owed(at)' = Owed(at)
  BY <1>2, <1>3 DEF Owed
<1> QED BY <1>1, <1>2, <1>4 DEF Image, Staged, SourceInTime

\* A step within a region that makes the places `new'.
LEMMA Progress ==
  ASSUME Parameters, Types, Staged, Delivery, UNCHANGED <<setup, depths>>,
         refused \subseteq refused', Flow', Keeps,
         pc' \in {"start", "done"} => pc \in {"start", "done"},
         pc' \in {"etc2", "debug", "analysis", "astc"} => enable_transcode,
         NEW at, pc' = at, NEW new,
         Granted(region)' => /\ Owed(at) \subseteq Owed(pc) \cup new
                             /\ \A p \in new : Made(p)'
                             /\ at = "finish" => \A p \in {Image} : Coming(p)'
  PROVE  Delivery'
<1>1. Arrived'
  <2> SUFFICES ASSUME NEW r \in 1 .. region, r < region \/ pc \in {"start", "done"},
                      Granted(r)'
               PROVE  Coming(<<"image", r>>)'
    BY SameSetup DEF Arrived
  <2>1. <<"image", r>> \in Places /\ <<"image", r>>[2] = r
    BY DEF Types, Parameters, Places, Regions, region
  <2>2. Granted(r) /\ Coming(<<"image", r>>)
    BY GrantedFacts DEF Delivery, Arrived
  <2> QED BY <2>1, <2>2 DEF Keeps
<1>2. Encoding'
  BY SameSetup DEF Encoding
<1>3. ASSUME Granted(region)'
      PROVE  Reached'
  <2>1. Granted(region) /\ Reached
    BY <1>3, GrantedFacts, SameSetup DEF Delivery
  <2>2. ASSUME NEW p \in Owed(pc)
        PROVE  Made(p)'
    <3>1. p \in Places /\ p[2] = region
      BY <2>2 DEF Owed, Place, Marked
    <3>2. Made(p)
      BY <2>1, <2>2 DEF Reached, Ready
    <3> QED BY <2>1, <3>1, <3>2 DEF Keeps, Made
  <2>3. \A p \in Owed(at) : Made(p)'
    BY <1>3, <2>2
  <2>4. Ready' = Owed(at)
    BY SameSetup DEF Ready
  <2> QED BY <1>3, <2>3, <2>4, SameSetup DEF Reached
<1> QED BY <1>1, <1>2, <1>3, SameSetup DEF Delivery

\* A step that neither records nor executes.
LEMMA Quiet ==
  ASSUME Parameters, Types, Staged, Delivery, UNCHANGED <<setup, depths, memory, cmds>>,
         refused \subseteq refused',
         pc' \in {"start", "done"} => pc \in {"start", "done"}, pc' # "finish",
         pc' \in {"etc2", "debug", "analysis", "astc"} => enable_transcode,
         NEW at, pc' = at, Granted(region)' => Owed(at) \subseteq Owed(pc)
  PROVE  Delivery'
<1>1. Flow' /\ Keeps
  BY FlowUntouched DEF Delivery
<1>2. PICK none : none = {}
  OBVIOUS
<1>3. Granted(region)' => /\ Owed(at) \subseteq Owed(pc) \cup none
                          /\ \A p \in none : Made(p)'
                          /\ at = "finish" => \A p \in {Image} : Coming(p)'
  BY <1>2
<1> QED BY <1>1, <1>3, Progress

\* A step that records a block with one command that writes.
LEMMA Recorded ==
  ASSUME Parameters, Types, CommandsSound, Staged, Delivery,
         UNCHANGED <<setup, depths, memory>>, refused \subseteq refused',
         NEW b \in Seq(Commands), NEW c \in Commands,
         \A i \in DOMAIN b : b[i] = c \/ b[i].to = {},
         \E i \in DOMAIN b : b[i] = c,
         c.op # "barrier", region \in Nat, c.from[2] \in {0, region},
         \A p \in c.to : /\ p[2] = region /\ Value(p) = Result(c)
                         /\ Granted(region) => Coming(c.from),
         cmds' = cmds \o b
  PROVE  Flow' /\ Keeps /\ \A p \in c.to : Coming(p)'
<1>1. Faithful(c) /\ \A p \in c.to : Granted(p[2]) => Coming(c.from)
  BY DEF Faithful
<1> QED BY <1>1, FlowRecorded DEF Delivery

\* A step that dispatches a shader.
LEMMA Shaded ==
  ASSUME Parameters, Types, CommandsSound, Staged, Delivery, UNCHANGED <<setup, depths>>,
         pc # "start",
         NEW op \in Shaders, NEW from \in Places, NEW to \in SUBSET Places,
         NEW b \in {<<>>, <<Barrier(from, "compute", "compute")>>}, NEW no,
         Refuse(no), Dispatch(b, Shader(op, from, to), no),
         from[2] \in {0, region}, Granted(region) => Made(from),
         \A p \in to : p[2] = region /\ Value(p) = Append(Value(from), op),
         pc' \notin {"start", "finish", "done"},
         pc' \in {"etc2", "debug", "analysis", "astc"} => enable_transcode,
         NEW at, pc' = at, Owed(at) \subseteq Owed(pc) \cup to
  PROVE  Delivery'
<1> DEFINE c == Shader(op, from, to)
           a == Barrier(from, "compute", "compute")
<1>1. /\ c \in Commands /\ c.op = op /\ c.op # "barrier" /\ c.op # "copy"
      /\ c.from = from /\ c.to = to
  BY CommandTypes DEF Shader, Shaders
<1>2. a \in Commands /\ a.to = {}
  BY CommandTypes DEF Barrier
<1>3. Dispatch(b, c, no)
  OBVIOUS
<1> HIDE DEF a, c
<1>4. /\ b \in Seq(Commands) /\ b \o <<c>> \in Seq(Commands)
      /\ \A i \in DOMAIN b : b[i].to = {}
  <2>1. CASE b = <<>>
    BY <1>1, <2>1
  <2>2. CASE b = <<a>>
    <3>1. <<a>> \in Seq(Commands) /\ <<c>> \in Seq(Commands)
      BY <1>1, <1>2
    <3>2. \A i \in DOMAIN <<a>> : <<a>>[i].to = {}
      BY <1>2
    <3> QED BY <2>2, <3>1, <3>2, ConcatProperties
  <2> QED BY <2>1, <2>2 DEF a
<1>5. region \in Nat
  BY DEF Types, region
<1>6. Faithful(c) /\ \A p \in c.to : p[2] = region /\ (Granted(region) => Made(c.from))
  BY <1>1, <1>5 DEF Faithful, Result
<1>7. Flow' /\ Keeps /\ \A p \in c.to : Granted(region)' => Made(p)'
  BY <1>1, <1>3, <1>4, <1>6, FlowDispatched DEF Delivery
<1>8. refused \subseteq refused'
  BY RefusedMore
<1> QED BY <1>1, <1>7, <1>8, Progress

\* A refusal spoils the region in progress.
LEMMA Spoiled ==
  ASSUME UNCHANGED depths, NEW k, NEW no, k \in no, Refuse(no)
  PROVE  ~ Granted(region)'
<1>1. PICK x : x = <<k, region>>
  OBVIOUS
<1>2. x \in refused' /\ x[2] = region /\ region' = region
  BY <1>1, RefusedMore DEF Place, region
<1> QED BY <1>2 DEF Granted

\* A region is done once its part of the image is coming.
LEMMA RegionFinished ==
  ASSUME Parameters, Types, Staged, Delivery, FinishRegion
  PROVE  Delivery'
<1>1. /\ UNCHANGED <<setup, depths, refused, memory, cmds>> /\ region' = region
      /\ pc = "finish" /\ pc' = "start"
  BY DEF FinishRegion, region
<1>2. Flow'
  BY <1>1, FlowUntouched DEF Delivery
<1>3. Arrived'
  <2> SUFFICES ASSUME NEW r \in 1 .. region, Granted(r)
               PROVE  Coming(<<"image", r>>)'
    BY <1>1 DEF Arrived, Granted
  <2>1. Coming(<<"image", r>>)
    <3>1. CASE r < region
      BY <3>1 DEF Delivery, Arrived
    <3>2. CASE ~ (r < region)
      <4>1. r = region /\ Image = <<"image", r>>
        BY <3>2 DEF Types, region, Image
      <4> QED BY <1>1, <4>1 DEF Delivery, Reached
    <3> QED BY <3>1, <3>2
  <2> QED BY <1>1, <2>1, SameValues DEF Coming, Holds
<1>4. Encoding'
  BY <1>1 DEF Encoding
<1>5. Reached'
  BY <1>1 DEF Reached, Ready, Owed, AfterMarked, AfterDecoded, AfterStaging
<1> QED BY <1>2, <1>3, <1>4, <1>5 DEF Delivery

\* A new region changes no value of the earlier ones, and has made nothing yet.
LEMMA RegionStarted ==
  ASSUME Parameters, Types, CommandsSound, Staged, Delivery, NextRegion
  PROVE  Delivery'
<1>1. /\ UNCHANGED <<setup, refused, memory, cmds>> /\ pc = "start"
      /\ pc' = IF setup.entry = "image" THEN "blocks" ELSE "dump"
  BY DEF NextRegion
<1>2. PICK d \in {1, 2} : depths' = Append(depths, d)
  BY DEF NextRegion
<1>3. /\ region \in Nat /\ region' = region + 1
      /\ \A r \in 1 .. region : depths'[r] = depths[r]
  BY <1>2 DEF Types, region
<1>4. ASSUME NEW p \in Places, p[2] \in 0 .. region
      PROVE  Value(p)' = Value(p)
  <2>1. CASE p[2] \in 1 .. region
    <3>1. Expected(p[2])' = Expected(p[2])
      BY <1>1, <1>3, <2>1 DEF Expected, watermarked, enable_transcode, transcode_to_etc2,
         transcode_to_astc
    <3>2. enable_transcode' <=> enable_transcode
      BY <1>1 DEF enable_transcode, transcode_to_etc2, transcode_to_astc
    <3> QED BY <3>1, <3>2 DEF Value
  <2>2. CASE p[2] \notin 1 .. region
    <3>1. p[2] = 0
      BY <1>3, <1>4, <2>2
    <3>2. p \in {Source, AppCommand}
      BY <3>1 DEF Places, Regions
    <3>3. p[1] \in {"source", "app"}
      BY <3>2 DEF Source, AppCommand
    <3> QED BY <3>3 DEF Value
  <2> QED BY <2>1, <2>2
<1>5. ASSUME NEW p \in Places, p[2] \in 0 .. region
      PROVE  (Holds(p)' <=> Holds(p)) /\ (Coming(p)' <=> Coming(p))
  BY <1>1, <1>4, <1>5 DEF Holds, Coming
<1>6. \A r : Granted(r)' <=> Granted(r)
  BY <1>1 DEF Granted
<1>7. ASSUME NEW c \in Commands, Faithful(c)
      PROVE  Faithful(c)' /\ \A p \in c.to : Holds(c.from)' <=> Holds(c.from)
  <2> SUFFICES ASSUME NEW p \in c.to
               PROVE  /\ c.op # "barrier" /\ p[2] \in 0 .. region'
                      /\ c.from[2] \in {0, p[2]} /\ Value(p)' = Result(c)'
                      /\ Holds(c.from)' <=> Holds(c.from)
    BY DEF Faithful
  <2>1. /\ p \in Places /\ p[2] \in 0 .. region
        /\ c.from \in Places /\ c.from[2] \in 0 .. region
    BY <1>3, <1>7 DEF Commands, Faithful
  <2>2. c.op # "barrier" /\ c.from[2] \in {0, p[2]} /\ Value(p) = Result(c)
    BY <1>7 DEF Faithful
  <2>3. Value(p)' = Value(p) /\ Value(c.from)' = Value(c.from)
    BY <1>4, <2>1
  <2> QED BY <1>3, <1>5, <2>1, <2>2, <2>3 DEF Result
<1>8. Flow'
  <2>1. /\ AppCommand \in Places /\ AppCommand[2] \in 0 .. region
        /\ Source \in Places /\ Source[2] \in 0 .. region
    BY <1>3 DEF Places, AppCommand, Source
  <2>2. Holds(AppCommand)' /\ Coming(Source)' /\ (setup.ready => Holds(Source))'
    BY <1>1, <1>5, <2>1 DEF Delivery, Flow
  <2>3. ASSUME NEW i \in DOMAIN cmds
        PROVE  Faithful(cmds[i])'
    <3>1. PICK c : c = cmds[i]
      OBVIOUS
    <3>2. c \in Commands /\ Faithful(c) /\ c = cmds[i]'
      BY <1>1, <3>1 DEF CommandsSound, Delivery, Flow
    <3> QED BY <1>7, <3>2
  <2>4. Supplied(cmds)'
    <3> SUFFICES ASSUME NEW j \in DOMAIN cmds, NEW p \in cmds[j].to, Granted(p[2]),
                        NEW from, from = cmds[j].from
                 PROVE  Holds(from)' \/ \E i \in DOMAIN cmds : i < j /\ from \in cmds[i].to
      BY <1>1, <1>6 DEF Supplied
    <3>1. PICK c : c = cmds[j]
      OBVIOUS
    <3>2. c \in Commands /\ Faithful(c) /\ from = c.from /\ p \in c.to
      BY <3>1 DEF CommandsSound, Delivery, Flow
    <3>3. Holds(from)' <=> Holds(from)
      BY <1>7, <3>2
    <3> QED BY <3>3 DEF Delivery, Flow, Supplied
  <2> QED BY <1>1, <2>2, <2>3, <2>4 DEF Flow
<1>9. Arrived'
  <2> SUFFICES ASSUME NEW r \in 1 .. region, Granted(r)
               PROVE  Coming(<<"image", r>>)'
    BY <1>1, <1>3, <1>6 DEF Arrived
  <2>1. /\ <<"image", r>> \in Places /\ <<"image", r>>[2] = r
        /\ <<"image", r>>[2] \in 0 .. region
    BY <1>3 DEF Types, Parameters, Places, Regions
  <2>2. Coming(<<"image", r>>)
    BY <1>1 DEF Delivery, Arrived
  <2> QED BY <1>5, <2>1, <2>2
<1>10. Encoding'
  BY <1>1 DEF Encoding
<1>11. Reached'
  BY <1>1 DEF Reached, Ready, Owed, AfterMarked, AfterDecoded, AfterStaging
<1> QED BY <1>8, <1>9, <1>10, <1>11 DEF Delivery

LEMMA DeliveryStep ==
  Parameters /\ Types /\ CommandsSound /\ Delivery /\ [Next]_vars => Delivery'
<1> SUFFICES ASSUME Parameters, Types, CommandsSound, Delivery, [Next]_vars
             PROVE  Delivery'
  OBVIOUS
<1>0. setup' = setup
  BY DEF Next, vars, NextRegion, Return, CopyImageToBlocks, DumpBlocks, NoDump, CreateStaging,
     CreateDecoded, CreateMarked, AllocateDecompressSet, DecompressToBuffer, DecompressToView,
     AddWatermark, NoWatermark, AllocateEncodeSet, NoEncode, EncodeEtc2, DebugBuffer,
     AnalysisBuffer, EncodeAstc, AnalyzeAstc, Collect, Upload, NoUpload, FinishRegion, ExecuteNext
<1> SUFFICES ASSUME Staged
             PROVE  Delivery'
  BY <1>0 DEF Delivery, Staged, SourceInTime
<1> USE DEF AfterMarked, AfterDecoded, AfterStaging
<1>v. /\ ~ setup.use_image_view /\ (setup.sample => setup.ready /\ setup.entry = "buffer")
      /\ \A d : ~ view_used(d) /\ ~ caller_uses_view(d)
  BY DEF Staged, SourceInTime, view_used, caller_uses_view
<1>p. ASSUME Granted(region), NEW p \in Owed(pc)
      PROVE  Made(p) /\ Coming(p)
  BY <1>p DEF Delivery, Reached, Ready, Made, Coming
<1>c. ASSUME pc # "start", pc \in AfterStaging \cup {"dump", "staging"}, Granted(region)
      PROVE  Made(Copied) /\ Coming(Copied)
  <2>1. CASE setup.entry = "image"
    <3>1. Copied = Place("blocks") /\ Copied \in Owed(pc)
      BY <1>c, <2>1, InRegion DEF Copied, Owed, Buffers
    <3> QED BY <1>c, <1>p, <3>1
  <2>2. CASE setup.entry # "image"
    BY <1>v, <2>2 DEF Copied, Delivery, Flow, Made
  <2> QED BY <2>1, <2>2
<1>t. /\ targetBuffer \in Buffers
      /\ sourceDecodedBuffer(depth) \in Buffers
      /\ pc \in {"watermark", "encode", "etc2", "debug", "analysis", "astc"} =>
           Place(targetBuffer) \in Owed(pc)
      /\ pc \in {"etc2", "debug", "analysis", "astc"} =>
           Place(sourceDecodedBuffer(depth)) \in Owed(pc)
  BY InRegion DEF targetBuffer, sourceDecodedBuffer, Owed, Buffers, WantsMarked, Marked,
     Delivery, Encoding
<1>n. \A p : Owed("start") = {} /\ Owed("done") = {} /\ Owed("crashed") = {}
  BY DEF Owed
<1>1. CASE NextRegion
  BY <1>1, RegionStarted
<1>2. CASE Return
  BY <1>2, <1>n, Quiet DEF Return
<1>3. CASE CopyImageToBlocks
  <2> DEFINE c == Copy(Source, Place("blocks"))
             a == Barrier(Place("blocks"), "transfer", "compute")
             b == <<c, a>>
  <2>1. /\ pc = "blocks" /\ UNCHANGED <<setup, depths>>
        /\ \/ pc' = "dump" /\ Record(b)
           \/ pc' = "crashed" /\ UNCHANGED <<memory, cmds>>
        /\ refused \subseteq refused'
    BY <1>3, BufferCreated DEF CopyImageToBlocks
  <2>2. CASE pc' = "dump" /\ Record(b)
    <3>1. Place("blocks") \in Places /\ Place("blocks")[2] = region /\ Source \in Places
      BY <2>1, InRegion DEF Buffers
    <3>2. /\ c \in Commands /\ c.op = "copy" /\ c.from = Source /\ c.to = {Place("blocks")}
          /\ a \in Commands /\ a.to = {}
      BY <3>1, CommandTypes DEF Copy, Barrier
    <3> HIDE DEF c, a
    <3>3. /\ b \in Seq(Commands) /\ b[1] = c /\ 1 \in DOMAIN b
          /\ \A i \in DOMAIN b : b[i] = c \/ b[i].to = {}
      BY <3>2
    <3> HIDE DEF b
    <3>4. Source[2] = 0 /\ Coming(Source) /\ Value(Place("blocks")) = Value(Source)
      BY <2>1, StageValues DEF Delivery, Flow, Source
    <3>5. region \in Nat /\ Value(Place("blocks")) = Result(c)
      BY <3>2, <3>4 DEF Types, region, Result
    <3>6. cmds' = cmds \o b /\ memory' = memory
      BY <2>2 DEF Record
    <3>t. PICK to : to = {Place("blocks")}
      OBVIOUS
    <3>7. \A p \in c.to : /\ p[2] = region /\ Value(p) = Result(c)
                          /\ Granted(region) => Coming(c.from)
      BY <3>1, <3>2, <3>4, <3>5
    <3>8. Flow' /\ Keeps /\ \A p \in c.to : Coming(p)'
      BY <2>1, <3>1, <3>2, <3>3, <3>4, <3>5, <3>6, <3>7, Recorded
    <3>9. \A p \in to : Coming(p)'
      BY <3>2, <3>8, <3>t
    <3>10. setup.entry = "image" => ~ setup.sample'
      BY <1>0, <1>v
    <3>11. PICK at, new : at = "dump" /\ new = IF setup.entry = "image" THEN to ELSE {}
      OBVIOUS
    <3>12. Owed(at) \subseteq Owed(pc) \cup new /\ \A p \in new : Made(p)'
      BY <3>t, <3>9, <3>10, <3>11 DEF Owed, Made
    <3> QED BY <2>1, <2>2, <3>8, <3>11, <3>12, Progress
  <2>3. CASE pc' = "crashed" /\ UNCHANGED <<memory, cmds>>
    BY <1>n, <2>1, <2>3, Quiet
  <2> QED BY <2>1, <2>2, <2>3
<1>4. CASE DumpBlocks
  <2> DEFINE c == Copy(Copied, Place("dump"))
             b == <<c>>
  <2>1. /\ pc = "dump" /\ UNCHANGED <<setup, depths>>
        /\ \/ pc' = "staging" /\ cmds' = cmds \o b /\ memory' = memory
           \/ pc' = "crashed" /\ UNCHANGED <<memory, cmds>>
        /\ refused \subseteq refused'
    BY <1>4, BufferUsed DEF DumpBlocks
  <2>2. CASE pc' = "staging" /\ cmds' = cmds \o b /\ memory' = memory
    <3>1. /\ Place("dump") \in Places /\ Place("dump")[2] = region
          /\ Copied \in Places /\ Copied[2] \in {0, region}
      BY <2>1, InRegion DEF Buffers
    <3>2. c \in Commands /\ c.op = "copy" /\ c.from = Copied /\ c.to = {Place("dump")}
      BY <3>1, CommandTypes DEF Copy
    <3> HIDE DEF c
    <3>3. /\ b \in Seq(Commands) /\ b[1] = c /\ 1 \in DOMAIN b
          /\ \A i \in DOMAIN b : b[i] = c \/ b[i].to = {}
      BY <3>2
    <3> HIDE DEF b
    <3>4. (Granted(region) => Coming(Copied)) /\ Value(Place("dump")) = Value(Copied)
      BY <1>c, <2>1, StageValues
    <3>5. region \in Nat /\ Value(Place("dump")) = Result(c)
      BY <3>2, <3>4 DEF Types, region, Result
    <3>6. Flow' /\ Keeps
      BY <2>1, <2>2, <3>1, <3>2, <3>3, <3>4, <3>5, Recorded
    <3>7. PICK at, none : at = "staging" /\ none = {}
      OBVIOUS
    <3>8. Owed(at) \subseteq Owed(pc) \cup none /\ \A p \in none : Made(p)'
      BY <2>1, <3>7 DEF Owed
    <3> QED BY <2>1, <2>2, <3>6, <3>7, <3>8, Progress
  <2>3. CASE pc' = "crashed" /\ UNCHANGED <<memory, cmds>>
    BY <1>n, <2>1, <2>3, Quiet
  <2> QED BY <2>1, <2>2, <2>3
<1>5. CASE NoDump \/ CreateStaging \/ CreateDecoded \/ CreateMarked
  <2>1. /\ UNCHANGED <<setup, depths, memory, cmds>>
        /\ refused \subseteq refused'
        /\ pc \in {"dump", "staging", "decoded", "marked"}
        /\ pc' \in {"staging", "decoded", "marked", "set"}
    BY <1>5, BufferCreated DEF NoDump, CreateStaging, CreateDecoded, CreateMarked, CreateIf
  <2>2. PICK at \in {"staging", "decoded", "marked", "set"} : pc' = at
    BY <2>1
  <2>3. Owed(at) \subseteq Owed(pc)
    BY <2>1 DEF Owed
  <2> QED BY <2>1, <2>2, <2>3, Quiet
<1>9. CASE AllocateDecompressSet
  <2>1. PICK no :
          /\ Refuse(no) /\ UNCHANGED <<setup, depths, memory, cmds>> /\ pc = "set"
          /\ no \in SUBSET {"decompress_set"}
          /\ IF no = {} THEN pc' \in {"crashed", "decompress"} ELSE pc' = "upload"
    BY <1>9 DEF AllocateDecompressSet, Refusals, EarlyReturn
  <2>2. refused \subseteq refused'
    BY <2>1, RefusedMore
  <2>3. PICK at \in {"crashed", "decompress", "upload"} : pc' = at
    BY <2>1
  <2>4. at = "upload" => ~ Granted(region)'
    <3>1. at = "upload" => "decompress_set" \in no
      BY <2>1, <2>3
    <3> QED BY <2>1, <3>1, Spoiled
  <2>5. at # "upload" => Owed(at) \subseteq Owed(pc)
    BY <2>1, <2>3 DEF Owed
  <2> QED BY <2>1, <2>2, <2>3, <2>4, <2>5, Quiet
<1>10. CASE DecompressToBuffer
  <2>1. PICK no : /\ Refuse(no)
                  /\ Dispatch(<<>>, Shader("decompress", Copied, {Place(targetBuffer)}), no)
                  /\ UNCHANGED <<setup, depths>> /\ pc = "decompress" /\ pc' = "watermark"
    BY <1>10 DEF DecompressToBuffer
  <2>2. /\ Place(targetBuffer) \in Places /\ Place(targetBuffer)[2] = region
        /\ Copied \in Places /\ Copied[2] \in {0, region}
    BY <1>t, <2>1, InRegion
  <2>3. Value(Place(targetBuffer)) = Append(Value(Copied), "decompress")
    BY <2>1, StageValues, Appended
  <2>4. Granted(region) => Made(Copied)
    BY <1>c, <2>1
  <2>5. Owed("watermark") \subseteq Owed("decompress") \cup {Place(targetBuffer)}
    BY DEF Owed
  <2>6. PICK op, to : op = "decompress" /\ to = {Place(targetBuffer)}
    OBVIOUS
  <2>7. op \in Shaders /\ to \in SUBSET Places
    BY <2>2, <2>6 DEF Shaders
  <2>8. Refuse(no) /\ Dispatch(<<>>, Shader(op, Copied, to), no)
    BY <2>1, <2>6
  <2>9. \A p \in to : p[2] = region /\ Value(p) = Append(Value(Copied), op)
    BY <2>2, <2>3, <2>6
  <2> QED BY <2>1, <2>2, <2>4, <2>5, <2>6, <2>7, <2>8, <2>9, Shaded
<1>11. CASE DecompressToView
  BY <1>11, <1>v DEF DecompressToView
<1>12. CASE AddWatermark
  <2> DEFINE destination == IF enable_transcode THEN "marked" ELSE "staging"
  <2>1. PICK no :
          /\ pc = "watermark" /\ watermarked(depth) /\ UNCHANGED <<setup, depths>>
          /\ \/ /\ "watermark_set" \in no /\ Refuse({"watermark_set"})
                /\ pc' = "upload" /\ UNCHANGED <<memory, cmds>>
             \/ /\ pc' = "crashed" /\ UNCHANGED <<refused, memory, cmds>>
             \/ /\ Refuse(no) /\ pc' = "encode"
                /\ Dispatch(<<Barrier(Place(targetBuffer), "compute", "compute")>>,
                            Shader("watermark", Place(targetBuffer),
                                   {Place(destination)}), no)
    BY <1>12 DEF AddWatermark, EarlyReturn
  <2>2. CASE /\ "watermark_set" \in no /\ Refuse({"watermark_set"})
             /\ pc' = "upload" /\ UNCHANGED <<memory, cmds>>
    <3>1. PICK k, set, at : k = "watermark_set" /\ set = {k} /\ at = "upload"
      OBVIOUS
    <3>2. Refuse(set)
      BY <2>2, <3>1
    <3>3. ~ Granted(region)' /\ refused \subseteq refused'
      BY <2>1, <3>1, <3>2, Spoiled, RefusedMore
    <3> QED BY <2>1, <2>2, <3>1, <3>3, Quiet
  <2>3. CASE pc' = "crashed" /\ UNCHANGED <<refused, memory, cmds>>
    BY <1>n, <2>1, <2>3, Quiet
  <2>4. CASE /\ Refuse(no) /\ pc' = "encode"
             /\ Dispatch(<<Barrier(Place(targetBuffer), "compute", "compute")>>,
                         Shader("watermark", Place(targetBuffer), {Place(destination)}), no)
    <3>1. PICK op, from, to, at :
            op = "watermark" /\ from = Place(targetBuffer) /\ to = {Place(destination)}
            /\ at = "encode"
      OBVIOUS
    <3>2. /\ from \in Places /\ from[2] = region
          /\ Place(destination) \in Places /\ Place(destination)[2] = region
      BY <1>t, <2>1, <3>1, InRegion DEF Buffers
    <3>3. op \in Shaders /\ to \in SUBSET Places
      BY <3>1, <3>2 DEF Shaders
    <3>4. Marked = Place(destination) /\ Value(Place(destination)) = Append(Value(from), op)
      BY <2>1, <3>1, StageValues DEF Marked
    <3>5. \A p \in to : p[2] = region /\ Value(p) = Append(Value(from), op)
      BY <3>1, <3>2, <3>4
    <3>6. Granted(region) => Made(from)
      BY <1>p, <1>t, <2>1, <3>1
    <3>7. Owed(at) \subseteq Owed(pc) \cup to
      BY <2>1, <3>1, <3>4 DEF Owed
    <3>8. PICK b : b = <<Barrier(from, "compute", "compute")>>
      OBVIOUS
    <3>9. Refuse(no) /\ Dispatch(b, Shader(op, from, to), no)
      BY <2>4, <3>1, <3>8
    <3> HIDE DEF destination
    <3> QED BY <2>1, <2>4, <3>1, <3>2, <3>3, <3>5, <3>6, <3>7, <3>8, <3>9, Shaded
  <2> QED BY <2>1, <2>2, <2>3, <2>4
<1>13. CASE NoWatermark
  <2>1. /\ UNCHANGED <<setup, depths, refused>> /\ pc = "watermark" /\ pc' = "encode"
        /\ ~ WantsMarked /\ Record(<<>>)
    BY <1>13, <1>v DEF NoWatermark, WantsMarked
  <2>2. UNCHANGED <<memory, cmds>>
    BY <2>1 DEF Record, CommandsSound
  <2>3. PICK at : at = "encode"
    OBVIOUS
  <2>4. Owed(at) \subseteq Owed(pc)
    BY <2>1, <2>3 DEF Owed
  <2> QED BY <2>1, <2>2, <2>3, <2>4, Quiet
<1>14. CASE AllocateEncodeSet
  <2>1. PICK no :
          /\ Refuse(no) /\ UNCHANGED <<setup, depths, memory, cmds>> /\ pc = "encode"
          /\ no \in SUBSET {"encode_set"} /\ enable_transcode
          /\ IF no = {} THEN pc' \in {"crashed", "etc2", "debug", "astc"} ELSE pc' = "upload"
    BY <1>14 DEF AllocateEncodeSet, Refusals, EarlyReturn
  <2>2. refused \subseteq refused'
    BY <2>1, RefusedMore
  <2>3. PICK at \in {"crashed", "etc2", "debug", "astc", "upload"} : pc' = at
    BY <2>1
  <2>4. at = "upload" => ~ Granted(region)'
    <3>1. at = "upload" => "encode_set" \in no
      BY <2>1, <2>3
    <3> QED BY <2>1, <3>1, Spoiled
  <2>5. at # "upload" => Owed(at) \subseteq Owed(pc)
    BY <2>1, <2>3 DEF Owed
  <2> QED BY <2>1, <2>2, <2>3, <2>4, <2>5, Quiet
<1>15. CASE NoEncode
  <2>1. /\ UNCHANGED <<setup, depths, memory, cmds, refused>>
        /\ pc = "encode" /\ pc' = "collect" /\ ~ enable_transcode
    BY <1>15 DEF NoEncode
  <2>2. PICK at : at = "collect"
    OBVIOUS
  <2>3. Owed(at) \subseteq Owed(pc)
    BY <2>1, <2>2 DEF Owed, targetBuffer, WantsMarked, Marked
  <2> QED BY <2>1, <2>2, <2>3, Quiet
<1>e. ASSUME NEW kinds \in {{"staging"}, {"staging", "debug"}}, pc \in {"etc2", "astc"},
             UNCHANGED <<setup, depths>>,
             NEW no, Refuse(no), Encode({Place(k) : k \in kinds}, no),
             NEW at, pc' = at,
             at = "collect" \/ (at = "analyze" /\ "debug" \in kinds)
      PROVE  Delivery'
  <2>1. PICK op, from, to : /\ op = "encode" /\ from = Place(sourceDecodedBuffer(depth))
                            /\ to = {Place(k) : k \in kinds}
    OBVIOUS
  <2>2. PICK b : b = <<Barrier(from, "compute", "compute")>>
    OBVIOUS
  <2>3. Dispatch(b, Shader(op, from, to), no)
    BY <1>e, <2>1, <2>2 DEF Encode
  <2>4. enable_transcode /\ op \in Shaders
    BY <1>e, <2>1 DEF Delivery, Encoding, Shaders
  <2>5. from \in Places /\ from[2] = region
    BY <1>e, <1>t, <2>1, InRegion
  <2>6. ASSUME NEW p \in to
        PROVE  p \in Places /\ p[2] = region /\ Value(p) = Append(Value(from), op)
    <3>1. PICK k \in {"staging", "debug"} : p = Place(k)
      BY <2>1
    <3> QED BY <1>e, <2>1, <2>4, <3>1, InRegion, StageValues DEF Buffers
  <2>7. Granted(region) => Made(from)
    BY <1>e, <1>p, <1>t, <2>1
  <2>8. Owed(at) \subseteq Owed(pc) \cup to
    BY <1>e, <2>1 DEF Owed
  <2>9. to \in SUBSET Places
    BY <2>6
  <2> QED BY <1>e, <2>2, <2>3, <2>4, <2>5, <2>6, <2>7, <2>8, <2>9, Shaded
<1>16. CASE EncodeEtc2
  <2>1. {Place("staging")} = {Place(k) : k \in {"staging"}}
    OBVIOUS
  <2>2. \E no : Refuse(no) /\ Encode({Place(k) : k \in {"staging"}}, no)
    BY <1>16, <2>1 DEF EncodeEtc2
  <2> QED BY <1>16, <1>e, <2>2 DEF EncodeEtc2
<1>17. CASE DebugBuffer \/ AnalysisBuffer
  <2>1. /\ UNCHANGED <<setup, depths, memory>> /\ refused \subseteq refused'
        /\ cmds' \in {cmds, cmds \o <<>>}
        /\ pc \in {"debug", "analysis"} /\ pc' \in {"analysis", "astc", "crashed"}
    BY <1>17, BufferUsed DEF DebugBuffer, AnalysisBuffer
  <2>2. UNCHANGED cmds
    BY <2>1 DEF CommandsSound
  <2>3. PICK at \in {"analysis", "astc", "crashed"} : pc' = at
    BY <2>1
  <2>4. Owed(at) \subseteq Owed(pc) /\ enable_transcode
    BY <2>1, <2>3 DEF Owed, Delivery, Encoding
  <2> QED BY <2>1, <2>2, <2>3, <2>4, Quiet
<1>19. CASE EncodeAstc
  <2>1. PICK no, kinds, at :
          /\ kinds = IF setup.debug_astc THEN {"staging", "debug"} ELSE {"staging"}
          /\ at = IF setup.debug_astc THEN "analyze" ELSE "collect"
          /\ Refuse(no)
          /\ Encode(IF setup.debug_astc THEN {Place("staging"), Place("debug")}
                    ELSE {Place("staging")}, no)
    BY <1>19 DEF EncodeAstc
  <2>2. (IF setup.debug_astc THEN {Place("staging"), Place("debug")} ELSE {Place("staging")})
          = {Place(k) : k \in kinds}
    BY <2>1
  <2>3. Encode({Place(k) : k \in kinds}, no)
    BY <2>1, <2>2
  <2> QED BY <1>19, <1>e, <2>1, <2>3 DEF EncodeAstc
<1>20. CASE AnalyzeAstc
  <2>1. PICK no : /\ Refuse(no) /\ UNCHANGED <<setup, depths>>
                  /\ pc = "analyze" /\ pc' = "collect"
                  /\ Dispatch(<<Barrier(Place("debug"), "compute", "compute")>>,
                              Shader("analyze", Place("debug"), {Place("analysis")}), no)
    BY <1>20 DEF AnalyzeAstc
  <2>2. PICK op, from, to, at : op = "analyze" /\ from = Place("debug")
                                /\ to = {Place("analysis")} /\ at = "collect"
    OBVIOUS
  <2>3. PICK b : b = <<Barrier(from, "compute", "compute")>>
    OBVIOUS
  <2>4. Dispatch(b, Shader(op, from, to), no)
    BY <2>1, <2>2, <2>3
  <2>5. op \in Shaders /\ from \in Places /\ from[2] = region /\ from \in Owed(pc)
    BY <2>1, <2>2, InRegion DEF Shaders, Owed, Buffers
  <2>6. \A p \in to : p \in Places /\ p[2] = region /\ Value(p) = Append(Value(from), op)
    BY <2>1, <2>2, InRegion, StageValues DEF Buffers
  <2>7. Granted(region) => Made(from)
    BY <1>p, <2>5
  <2>8. Owed(at) \subseteq Owed(pc) \cup to
    BY <2>1, <2>2 DEF Owed
  <2>9. to \in SUBSET Places
    BY <2>6
  <2> QED BY <2>1, <2>2, <2>3, <2>4, <2>5, <2>6, <2>7, <2>8, <2>9, Shaded
<1>21. CASE Collect
  <2>1. /\ UNCHANGED <<setup, depths, memory, cmds, refused>>
        /\ pc = "collect" /\ pc' = "upload"
    BY <1>21 DEF Collect
  <2>2. PICK at : at = "upload"
    OBVIOUS
  <2>3. Owed(at) \subseteq Owed(pc)
    BY <2>1, <2>2 DEF Owed
  <2> QED BY <2>1, <2>2, <2>3, Quiet
<1>22. CASE Upload
  <2> DEFINE c == Copy(Place("staging"), Image)
             a == Barrier(Place("staging"), "compute", "transfer")
             b == <<a, c>>
  <2>1. /\ pc = "upload" /\ UNCHANGED <<setup, depths, refused>>
        /\ \/ pc' = "finish" /\ Record(b)
           \/ pc' = "crashed" /\ UNCHANGED <<memory, cmds>>
    BY <1>22 DEF Upload, UploadCommands
  <2>2. CASE pc' = "finish" /\ Record(b)
    <3>1. /\ Place("staging") \in Places /\ Place("staging")[2] = region
          /\ Image \in Places /\ Image[2] = region
          /\ Value(Image) = Value(Place("staging"))
      BY <2>1, InRegion, StageValues DEF Buffers
    <3>2. /\ c \in Commands /\ c.op = "copy" /\ c.from = Place("staging") /\ c.to = {Image}
          /\ a \in Commands /\ a.to = {}
      BY <3>1, CommandTypes DEF Copy, Barrier
    <3> HIDE DEF c, a
    <3>3. /\ b \in Seq(Commands) /\ b[2] = c /\ 2 \in DOMAIN b
          /\ \A i \in DOMAIN b : b[i] = c \/ b[i].to = {}
      BY <3>2
    <3> HIDE DEF b
    <3>4. Place("staging") \in Owed(pc)
      BY <2>1, <3>1 DEF Owed
    <3>5. region \in Nat /\ Value(Image) = Result(c)
      BY <3>1, <3>2 DEF Types, region, Result
    <3>6. \A p \in c.to : /\ p[2] = region /\ Value(p) = Result(c)
                          /\ Granted(region) => Coming(c.from)
      BY <1>p, <3>1, <3>2, <3>4, <3>5
    <3>7. cmds' = cmds \o b /\ memory' = memory
      BY <2>2 DEF Record
    <3>8. Flow' /\ Keeps /\ \A p \in c.to : Coming(p)'
      BY <2>1, <3>1, <3>2, <3>3, <3>5, <3>6, <3>7, Recorded
    <3>9. \A p \in {Image} : Coming(p)'
      BY <3>2, <3>8
    <3>10. PICK at, none : at = "finish" /\ none = {}
      OBVIOUS
    <3>11. Owed(at) \subseteq Owed(pc) \cup none /\ \A p \in none : Made(p)'
      BY <3>10 DEF Owed
    <3> QED BY <2>1, <2>2, <3>8, <3>9, <3>10, <3>11, Progress
  <2>3. CASE pc' = "crashed" /\ UNCHANGED <<memory, cmds>>
    BY <1>n, <2>1, <2>3, Quiet
  <2> QED BY <2>1, <2>2, <2>3
<1>23. CASE NoUpload
  BY <1>23, <1>v DEF NoUpload
<1>24. CASE FinishRegion
  BY <1>24, RegionFinished
<1>25. CASE ExecuteNext
  <2>1. /\ UNCHANGED <<setup, depths, refused>> /\ pc = "done" /\ pc' = "done"
        /\ cmds # <<>> /\ memory' = Execute(Head(cmds), memory) /\ cmds' = Tail(cmds)
    BY <1>25 DEF ExecuteNext
  <2>2. Flow' /\ Keeps
    BY <2>1, FlowDrained DEF Delivery
  <2>3. PICK at, none : at = "done" /\ none = {}
    OBVIOUS
  <2>4. Owed(at) \subseteq Owed(pc) \cup none /\ \A p \in none : Made(p)'
    BY <1>n, <2>3
  <2> QED BY <2>1, <2>2, <2>3, <2>4, Progress
<1>26. CASE UNCHANGED vars
  <2>1. UNCHANGED <<setup, pc, depths, refused, memory, cmds>>
    BY <1>26 DEF vars
  <2>2. \A p : Holds(p)' = Holds(p) /\ Coming(p)' = Coming(p) /\ Made(p)' = Made(p)
    BY <2>1, SameValues DEF Holds, Coming, Made
  <2>3. Flow'
    BY <2>1, FlowUntouched DEF Delivery
  <2>4. Arrived' /\ Encoding'
    BY <2>1, <2>2, SameSetup DEF Delivery, Arrived, Encoding, Granted, region
  <2>5. Granted(region)' => Reached'
    BY <2>1, <2>2, SameSetup DEF Delivery, Reached, Ready, Granted, region
  <2> QED BY <2>3, <2>4, <2>5 DEF Delivery
<1> QED
  BY <1>1, <1>2, <1>3, <1>4, <1>5, <1>9, <1>10, <1>11, <1>12, <1>13, <1>14,
     <1>15, <1>16, <1>17, <1>19, <1>20, <1>21, <1>22, <1>23, <1>24, <1>25, <1>26 DEF Next

------------------------------------------------------------------------------
\* The contents of places are sequences of shaders.
Memory == memory \in [Places -> Seq(Shaders \cup {"undefined"})]

LEMMA MemoryExecuted ==
  ASSUME Memory, NEW c, c.from \in Places, c.op \in Shaders \cup {"copy"},
         memory' = Execute(c, memory)
  PROVE  Memory'
<1>1. /\ memory[c.from] \in Seq(Shaders \cup {"undefined"})
      /\ c.op \in Shaders => Append(memory[c.from], c.op) \in Seq(Shaders \cup {"undefined"})
  BY DEF Memory
<1> QED BY <1>1 DEF Memory, Execute

LEMMA MemoryDispatched ==
  ASSUME Memory, NEW b, NEW op \in Shaders, NEW from \in Places, NEW to, NEW no,
         Dispatch(b, Shader(op, from, to), no)
  PROVE  Memory'
<1> DEFINE c == Shader(op, from, to)
<1>1. c.from = from /\ c.op = op
  BY DEF Shader
<1>2. memory' \in {memory, Execute(c, memory)}
  BY Dispatched
<1> HIDE DEF c
<1> QED BY <1>1, <1>2, MemoryExecuted DEF Memory

LEMMA MemoryStep == Parameters /\ Types /\ CommandsSound /\ Memory /\ [Next]_vars => Memory'
<1> SUFFICES ASSUME Parameters, Types, CommandsSound, Memory, [Next]_vars
             PROVE  Memory'
  OBVIOUS
<1>u. ASSUME UNCHANGED memory
      PROVE  Memory'
  BY <1>u DEF Memory
<1>t. targetBuffer \in Buffers /\ sourceDecodedBuffer(depth) \in Buffers /\ "debug" \in Buffers
  BY DEF targetBuffer, sourceDecodedBuffer, Buffers
<1>d. ASSUME pc # "start", NEW op \in {"decompress", "watermark", "encode", "analyze"},
             NEW from \in {Copied} \cup {Place(k) : k \in Buffers}, NEW b, NEW to, NEW no,
             Dispatch(b, Shader(op, from, to), no)
      PROVE  Memory'
  BY <1>d, InRegion, MemoryDispatched DEF Shaders
<1>1. CASE DecompressToBuffer \/ DecompressToView
  <2>1. PICK op : op = "decompress"
    OBVIOUS
  <2>2. /\ pc # "start"
        /\ \/ UNCHANGED memory
           \/ \E b, to, no : Dispatch(b, Shader(op, Copied, to), no)
    BY <1>1, <2>1 DEF DecompressToBuffer, DecompressToView
  <2> QED BY <1>d, <1>u, <2>1, <2>2
<1>2. CASE AddWatermark
  <2>1. PICK op : op = "watermark"
    OBVIOUS
  <2>2. /\ pc # "start"
        /\ \/ UNCHANGED memory
           \/ \E b, to, no : Dispatch(b, Shader(op, Place(targetBuffer), to), no)
    BY <1>2, <2>1 DEF AddWatermark
  <2> QED BY <1>d, <1>t, <1>u, <2>1, <2>2
<1>3. CASE EncodeEtc2 \/ EncodeAstc
  <2>1. PICK op : op = "encode"
    OBVIOUS
  <2>2. /\ pc # "start"
        /\ \E b, to, no : Dispatch(b, Shader(op, Place(sourceDecodedBuffer(depth)), to), no)
    BY <1>3, <2>1 DEF EncodeEtc2, EncodeAstc, Encode
  <2> QED BY <1>d, <1>t, <2>1, <2>2
<1>4. CASE AnalyzeAstc
  <2>1. PICK op : op = "analyze"
    OBVIOUS
  <2>2. pc # "start" /\ \E b, to, no : Dispatch(b, Shader(op, Place("debug"), to), no)
    BY <1>4, <2>1 DEF AnalyzeAstc
  <2> QED BY <1>d, <1>t, <2>1, <2>2
<1>5. CASE DumpBlocks \/ DebugBuffer \/ AnalysisBuffer
  <2>1. \E kind, b, next : UsedAtOnce(kind, b, next)
    BY <1>5 DEF DumpBlocks, DebugBuffer, AnalysisBuffer
  <2> QED BY <1>u, <2>1, BufferUsed
<1>6. CASE CopyImageToBlocks \/ NoWatermark \/ Upload
  BY <1>6, <1>u DEF CopyImageToBlocks, NoWatermark, Upload, Record
<1>7. CASE \/ NextRegion \/ Return \/ NoDump \/ CreateStaging \/ CreateDecoded \/ CreateMarked
            \/ AllocateDecompressSet \/ AllocateEncodeSet \/ NoEncode \/ Collect \/ NoUpload
            \/ FinishRegion \/ UNCHANGED vars
  <2>1. UNCHANGED memory
    BY <1>7 DEF NextRegion, Return, NoDump, CreateStaging, CreateDecoded, CreateMarked,
       AllocateDecompressSet, AllocateEncodeSet, NoEncode, Collect, NoUpload, FinishRegion, vars
  <2> QED BY <1>u, <2>1
<1>8. CASE ExecuteNext
  <2>1. PICK c : c = Head(cmds)
    OBVIOUS
  <2>2. cmds # <<>> /\ memory' = Execute(c, memory)
    BY <1>8, <2>1 DEF ExecuteNext
  <2>3. c \in Commands
    BY <2>1, <2>2 DEF CommandsSound
  <2>4. c.to = {} \/ (c.from \in Places /\ c.op \in Shaders \cup {"copy"})
    BY <2>3 DEF Commands
  <2>5. c.to = {} => memory' = memory
    BY <2>2 DEF Execute, Memory
  <2> QED BY <1>u, <2>2, <2>4, <2>5, MemoryExecuted
<1> QED
  BY <1>1, <1>2, <1>3, <1>4, <1>5, <1>6, <1>7, <1>8 DEF Next

------------------------------------------------------------------------------
\* The inductive invariant.
IInv == Types /\ Ownership /\ CommandsSound /\ Memory /\ Delivery

THEOREM Invariance == Spec => []IInv
<1>1. Init => IInv
  <2> SUFFICES ASSUME Init
               PROVE  IInv
    OBVIOUS
  <2>1. region = 0 /\ depths \in Seq({1, 2}) /\ MaxRegions \in Nat \ {0}
    BY Parameters DEF Init, region
  <2>2. Types
    BY <2>1 DEF Init, Types
  <2>3. Ownership
    BY DEF Init, Ownership, Locals, Fresh, Owned, Accounted, Wanted, NullOnlyIfRefusedOr3D,
       NullOnlyIfRefused, AfterMarked, AfterDecoded, AfterStaging
  <2>4. CommandsSound
    <3> DEFINE c == Copy(AppCommand, Source)
    <3>1. c \in Commands /\ c.to = {Source} /\ c.from = AppCommand
      BY CommandTypes DEF Copy, Places
    <3>2. ~ ReadsLayer(c) /\ \A p \in c.to : p[1] # "blocks" /\ p[1] \notin Buffers
      BY <3>1 DEF ReadsLayer, Source, AppCommand, Buffers
    <3> HIDE DEF c
    <3>3. <<c>> \in Seq(Commands) /\ Orderly(<<c>>)
      BY <3>1, <3>2, OneCommand
    <3>4. /\ <<>> \in Seq(Commands) /\ Written(<<>>) /\ BlocksVisible(<<>>) /\ Ordered(<<>>)
      BY DEF Written, BlocksVisible, Ordered
    <3>5. <<>> \o <<c>> = <<c>>
      BY <3>3
    <3>6. Written(<<c>>) /\ BlocksVisible(<<c>>) /\ Ordered(<<c>>)
      BY <3>3, <3>4, <3>5, Continued
    <3>7. cmds \in {<<>>, <<c>>}
      BY DEF Init, c
    <3> QED BY <3>3, <3>4, <3>6, <3>7 DEF CommandsSound
  <2>5. Memory
    <3>1. /\ <<>> \in Seq(Shaders \cup {"undefined"})
          /\ <<"undefined">> \in Seq(Shaders \cup {"undefined"})
      OBVIOUS
    <3> QED BY <3>1 DEF Init, Memory
  <2>6. Delivery
    <3>1. AppCommand \in Places /\ Source \in Places /\ AppCommand[2] = 0 /\ Source[2] = 0
      BY DEF Places, AppCommand, Source
    <3>2. Value(AppCommand) = <<>> /\ Value(Source) = <<>>
      BY DEF Value, AppCommand, Source
    <3>3. Holds(AppCommand) /\ (setup.ready => Holds(Source))
      BY <3>1, <3>2 DEF Init, Holds
    <3>4. CASE setup.ready
      <4>1. cmds = <<>>
        BY <3>4 DEF Init
      <4> QED BY <2>1, <3>3, <3>4, <4>1
          DEF Init, Delivery, Flow, Coming, Supplied, Arrived, Encoding, Reached, Ready, Owed,
              AfterMarked, AfterDecoded, AfterStaging
    <3>5. CASE ~ setup.ready
      <4> DEFINE c == Copy(AppCommand, Source)
      <4>1. c.to = {Source} /\ c.from = AppCommand /\ c.op = "copy"
        BY DEF Copy
      <4>2. cmds = <<c>>
        BY <3>5 DEF Init
      <4> HIDE DEF c
      <4>3. DOMAIN cmds = {1} /\ cmds[1] = c
        BY <4>2
      <4>4. Faithful(c)
        BY <2>1, <3>1, <3>2, <4>1 DEF Faithful, Result
      <4>5. Flow
        BY <3>3, <3>5, <4>1, <4>3, <4>4 DEF Flow, Coming, Supplied
      <4>6. Arrived /\ Encoding /\ Reached
        BY <2>1 DEF Init, Arrived, Encoding, Reached, Ready, Owed,
           AfterMarked, AfterDecoded, AfterStaging
      <4> QED BY <4>5, <4>6 DEF Delivery
    <3> QED BY <3>4, <3>5
  <2> QED BY <2>2, <2>3, <2>4, <2>5, <2>6 DEF IInv
<1>2. IInv /\ [Next]_vars => IInv'
  BY Parameters, TypesStep, OwnershipStep, CommandsStep, MemoryStep, DeliveryStep DEF IInv
<1> QED BY <1>1, <1>2, PTL DEF Spec

\* Every variable keeps its type, between regions no local owns a buffer, and
\* what a local owns has not been handed over too.
THEOREM TypeCorrect == Spec => []TypeOK
<1>1. IInv => TypeOK
  <2> SUFFICES ASSUME IInv
               PROVE  TypeOK
    OBVIOUS
  <2>1. \A x \in held \X {region} : x \in created \ tracked
    BY DEF IInv, Ownership, Owned, Place
  <2>2. memory \in [Places -> Seq(Shaders \cup {"undefined"})]
    BY DEF IInv, Memory
  <2>3. \A i \in DOMAIN cmds : cmds[i] \in Commands
    BY DEF IInv, CommandsSound
  <2>4. pc \in {"start", "done"} => held = {}
    BY DEF IInv, Ownership, Locals, AfterMarked, AfterDecoded, AfterStaging
  <2>5. pc \in {"start", "blocks", "dump", "staging", "decoded", "marked", "set",
                "decompress", "watermark", "encode", "etc2", "debug", "analysis", "astc",
                "analyze", "collect", "upload", "finish", "done", "crashed"}
    BY DEF IInv, Types, AfterMarked, AfterDecoded, AfterStaging
  <2> QED
    BY <2>1, <2>2, <2>3, <2>4, <2>5 DEF IInv, Types, Ownership, Locals, Owned, Buffers, TypeOK
<1> QED BY <1>1, Invariance, PTL

\* A copy that returns has handed over everything it created, but for what the
\* refusal of a set or of a view made decompress_bcn_compute abandon.
THEOREM NothingIsLost == Spec => []NothingLost
<1>1. IInv => NothingLost
  BY DEF IInv, Ownership, Locals, Accounted, Excused, NothingLost, AfterMarked, AfterDecoded,
     AfterStaging
<1> QED BY <1>1, Invariance, PTL

\* A null buffer is dereferenced only after the refusal of a buffer of the same
\* region, 3D regions with image views apart.
THEOREM NullAfterRefusal == Spec => []NullOnlyIfRefusedOr3D
<1>1. IInv => NullOnlyIfRefusedOr3D
  BY DEF IInv, Ownership
<1> QED BY <1>1, Invariance, PTL

\* Whatever a recorded command reads from a buffer of the layer is behind a
\* barrier between the stage that wrote it and the stage that reads it.
THEOREM ReadsAreOrdered == Spec => []ReadsOrdered
<1>1. IInv => ReadsOrdered
  <2> SUFFICES ASSUME IInv, NEW i \in DOMAIN cmds, NEW j \in DOMAIN cmds,
                      i < j, cmds[j].op # "barrier", cmds[j].from[1] \in Buffers,
                      cmds[j].from \in cmds[i].to, \A p \in cmds[j].to : p[1] # "dump"
               PROVE  \E k \in i + 1 .. j - 1 :
                        /\ cmds[k].op = "barrier" /\ cmds[k].from = cmds[j].from
                        /\ cmds[k].stage = cmds[i].stage /\ cmds[k].after = cmds[j].stage
    BY DEF ReadsOrdered
  <2>1. PICK k \in DOMAIN cmds :
          i < k /\ k < j /\ IsBarrier(cmds[k], cmds[j].from, cmds[i].stage, cmds[j].stage)
    BY DEF IInv, CommandsSound, Ordered, ReadsLayer
  <2>2. DOMAIN cmds \subseteq Int
    BY DEF IInv, CommandsSound
  <2>3. k \in i + 1 .. j - 1
    BY <2>1, <2>2
  <2> QED BY <2>1, <2>3 DEF IsBarrier
<1> QED BY <1>1, Invariance, PTL

\* When nothing was refused for a region and its texels go through a staging
\* buffer, the part of the image it names ends up holding the source's blocks
\* decompressed, watermarked if asked and encoded if asked, in this order,
\* whether dispatches are recorded or executed at once.
THEOREM TexelsDelivered == Spec => []DeliveredThroughStaging
<1>1. IInv => DeliveredThroughStaging
  <2> SUFFICES ASSUME IInv, ~ setup.use_image_view, pc = "done", cmds = <<>>, SourceInTime,
                      NEW r \in 1 .. region, Granted(r)
               PROVE  memory[<<"image", r>>] = Expected(r)
    BY DEF DeliveredThroughStaging, Delivered
  <2>1. Coming(<<"image", r>>)
    BY DEF IInv, Delivery, Staged, Arrived
  <2>2. r \in Regions
    BY Parameters DEF IInv, Types, Regions, region
  <2>3. Holds(<<"image", r>>)
    BY <2>1 DEF Coming
  <2>4. Value(<<"image", r>>) = Expected(r)
    BY <2>2, Values
  <2> QED BY <2>3, <2>4 DEF Holds
<1> QED BY <1>1, Invariance, PTL

\* A driver that may refuse nothing refuses nothing.
LEMMA NothingRefused ==
  ASSUME MayRefuse = {}, refused = {}, [Next]_vars
  PROVE  refused' = {}
<1>1. ASSUME NEW kinds
      PROVE  Refusals(kinds) = {{}}
  BY DEF Refusals
<1>2. Refuse({}) => refused' = {}
  <2>1. {} \X {region} = {}
    OBVIOUS
  <2> QED BY <2>1 DEF Refuse
<1>3. ASSUME NEW kind, create_staging_buffer(kind) \/ UNCHANGED <<held, created, refused>>
      PROVE  refused' = {}
  BY <1>1, <1>2, <1>3 DEF create_staging_buffer
<1>4. ASSUME NEW kind, NEW commands, NEW next, UsedAtOnce(kind, commands, next)
      PROVE  refused' = {}
  BY <1>1, <1>2, <1>4 DEF UsedAtOnce
<1>5. CASE CopyImageToBlocks \/ CreateStaging \/ CreateDecoded \/ CreateMarked
  BY <1>3, <1>5 DEF CopyImageToBlocks, CreateStaging, CreateDecoded, CreateMarked, CreateIf
<1>6. CASE DumpBlocks \/ DebugBuffer \/ AnalysisBuffer
  BY <1>4, <1>6 DEF DumpBlocks, DebugBuffer, AnalysisBuffer
<1>7. CASE AllocateDecompressSet \/ AllocateEncodeSet
  BY <1>1, <1>2, <1>7 DEF AllocateDecompressSet, AllocateEncodeSet
<1>8. CASE DecompressToBuffer \/ DecompressToView
  BY <1>1, <1>2, <1>8 DEF DecompressToBuffer, DecompressToView
<1>9. CASE AddWatermark
  <2>1. PICK no \in Refusals({"watermark_set"} \cup OneShot) :
          IF "watermark_set" \in no THEN Refuse({"watermark_set"})
          ELSE Refuse(no) \/ UNCHANGED refused
    BY <1>9 DEF AddWatermark
  <2>2. no = {}
    BY <1>1
  <2> QED BY <1>2, <2>1, <2>2
<1>10. CASE EncodeEtc2 \/ EncodeAstc \/ AnalyzeAstc
  BY <1>1, <1>2, <1>10 DEF EncodeEtc2, EncodeAstc, AnalyzeAstc
<1>11. CASE \/ NextRegion \/ Return \/ NoDump \/ NoWatermark \/ NoEncode \/ Collect \/ Upload
            \/ NoUpload \/ FinishRegion \/ ExecuteNext \/ UNCHANGED vars
  BY <1>11 DEF NextRegion, Return, NoDump, NoWatermark, NoEncode, Collect, Upload, NoUpload,
     FinishRegion, ExecuteNext, vars
<1> QED BY <1>5, <1>6, <1>7, <1>8, <1>9, <1>10, <1>11 DEF Next

\* With a driver that refuses nothing and without image views, no copy meets a
\* null buffer, every copy hands over all it created, and every region arrives.
THEOREM CopiesSucceed ==
  ASSUME MayRefuse = {}, \A s \in Setups : ~ s.use_image_view
  PROVE  Spec => [](/\ pc # "crashed"
                    /\ pc = "done" => tracked = created
                    /\ pc = "done" /\ cmds = <<>> /\ SourceInTime =>
                         \A r \in 1 .. region : memory[<<"image", r>>] = Expected(r))
<1> DEFINE Success == /\ pc # "crashed"
                      /\ pc = "done" => tracked = created
                      /\ pc = "done" /\ cmds = <<>> /\ SourceInTime =>
                           \A r \in 1 .. region : memory[<<"image", r>>] = Expected(r)
<1>1. Init => refused = {}
  BY DEF Init
<1>2. refused = {} /\ [Next]_vars => (refused = {})'
  BY NothingRefused
<1>3. TypeOK /\ DeliveredThroughStaging /\ NothingLost /\ NullOnlyIfRefusedOr3D /\ refused = {}
        => Success
  <2> SUFFICES ASSUME TypeOK, DeliveredThroughStaging, NothingLost, NullOnlyIfRefusedOr3D,
                      refused = {}
               PROVE  Success
    OBVIOUS
  <2>1. ~ setup.use_image_view
    BY DEF TypeOK
  <2>2. pc # "crashed"
    BY <2>1 DEF NullOnlyIfRefusedOr3D, NullOnlyIfRefused
  <2>3. pc = "done" => tracked = created
    BY DEF TypeOK, NothingLost
  <2>4. \A r : Granted(r)
    BY DEF Granted
  <2> QED BY <2>1, <2>2, <2>3, <2>4 DEF DeliveredThroughStaging, Delivered
<1> HIDE DEF Success
<1>4. Spec => []Success
  BY <1>1, <1>2, <1>3, TypeCorrect, TexelsDelivered, NothingIsLost, NullAfterRefusal, PTL DEF Spec
<1> QED BY <1>4 DEF Success
=============================================================================
