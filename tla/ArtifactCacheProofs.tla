------------------------- MODULE ArtifactCacheProofs -------------------------
(***************************************************************************)
(* One build script at a time on a cache: what it publishes and links is   *)
(* whole, and it gets past whatever earlier runs have left, for any number *)
(* of files, runs and evictions.                                           *)
(***************************************************************************)
EXTENDS ArtifactCache, TLAPS

LEMMA EmptyIsTyped ==
    /\ Nothing \in [Files -> {"absent", "whole"} \cup Builds]
    /\ NoFile \in [at : Dirs \cup {"none", "gone"}, file : Files]
BY LibAssumption DEF Nothing, NoFile

LEMMA TypeInit == Init => TypeOK
BY EmptyIsTyped, RunAssumption DEF Init, TypeOK, Dirs, PCs

(* TypeOK, an action at a time.                                            *)

LEMMA TypeStart == ASSUME TypeOK, NEW p \in Builds, Start(p) PROVE TypeOK'
BY RunAssumption DEF TypeOK, Start, Goto, PCs

LEMMA TypePanic ==
    ASSUME TypeOK, NEW p \in Builds,
           NEW reason \in Reasons,
           Panic(p, reason),
           UNCHANGED <<exists, content, todo, runs, evictions, stubborn>>
    PROVE  TypeOK'
BY EmptyIsTyped DEF TypeOK, Panic, Goto, PCs

LEMMA TypeMove ==
    ASSUME TypeOK, NEW p \in Builds, Check(p) \/ Download(p) \/ UnpackEnds(p) \/ Link(p)
    PROVE  TypeOK'
<1>1. pc' \in [Builds -> PCs]
  BY DEF TypeOK, Check, Download, UnpackEnds, Link, Goto, PCs
<1>2. \A q \in Builds : open[q] # NoFile => pc'[q] = "unpack"
  BY DEF TypeOK, Check, Download, UnpackEnds, Link, Goto
<1>3. UNCHANGED <<exists, content, todo, open, runs, evictions, why, stubborn>>
  BY DEF Check, Download, UnpackEnds, Link
<1> QED
  BY <1>1, <1>2, <1>3 DEF TypeOK

LEMMA TypeRemoveFile ==
    ASSUME TypeOK, NEW p \in Builds, NEW d \in Dirs, NEW f \in Files,
           RemoveFile(p, d, f)
    PROVE  TypeOK'
<1>1. content' \in [Dirs -> [Files -> {"absent", "whole"} \cup Builds]]
  BY DEF TypeOK, RemoveFile
<1>2. \A e \in Dirs : content'[e] # Nothing => exists'[e]
  <2>1. content[d] # Nothing
    BY DEF TypeOK, RemoveFile, Nothing
  <2> QED
    BY <2>1 DEF TypeOK, RemoveFile
<1> QED
  BY <1>1, <1>2 DEF TypeOK, RemoveFile

LEMMA TypeRemoveDir ==
    ASSUME TypeOK, NEW p \in Builds, NEW d \in Dirs, RemoveDir(p, d) \/ RemoveFails(p, d)
    PROVE  TypeOK'
<1>1. CASE RemoveDir(p, d)
  <2>1. exists' \in [Dirs -> BOOLEAN] /\ pc' \in [Builds -> PCs]
    BY <1>1 DEF TypeOK, RemoveDir, Goto, After, PCs
  <2> QED
    BY <1>1, <2>1 DEF TypeOK, RemoveDir, Goto, Place
<1>2. CASE RemoveFails(p, d)
  <2>1. stubborn' \in [Builds -> BOOLEAN] /\ pc' \in [Builds -> PCs]
    BY <1>2 DEF TypeOK, RemoveFails, Goto, After, PCs
  <2> QED
    BY <1>2, <2>1 DEF TypeOK, RemoveFails, Goto, Place
<1> QED
  BY <1>1, <1>2

LEMMA TypeCreate == ASSUME TypeOK, NEW p \in Builds, Create(p) PROVE TypeOK'
<1>1. exists' \in [Dirs -> BOOLEAN] /\ \A d \in Dirs : exists[d] => exists'[d]
  BY DEF TypeOK, Create, Dirs
<1> QED
  BY <1>1 DEF TypeOK, Create, Goto, PCs

LEMMA TypeOpenFile ==
    ASSUME TypeOK, NEW p \in Builds, NEW f \in Files, OpenFile(p, f)
    PROVE  TypeOK'
<1>1. exists' \in [Dirs -> BOOLEAN] /\ exists'["staging"]
      /\ \A d \in Dirs : exists[d] => exists'[d]
  BY DEF TypeOK, OpenFile, Unpacking, Dirs
<1>2. content' \in [Dirs -> [Files -> {"absent", "whole"} \cup Builds]]
      /\ \A d \in Dirs : d # "staging" => content'[d] = content[d]
  BY DEF TypeOK, OpenFile, Unpacking, Dirs
<1>3. open' \in [Builds -> [at : Dirs \cup {"none", "gone"}, file : Files]]
      /\ \A q \in Builds : open'[q] # NoFile => pc'[q] = "unpack"
  BY DEF TypeOK, OpenFile, Unpacking, Dirs
<1> QED
  BY <1>1, <1>2, <1>3 DEF TypeOK, OpenFile, Unpacking

LEMMA TypeFinishFile == ASSUME TypeOK, NEW p \in Builds, FinishFile(p) PROVE TypeOK'
<1>1. content' \in [Dirs -> [Files -> {"absent", "whole"} \cup Builds]]
  BY DEF TypeOK, FinishFile
<1>2. \A d \in Dirs : content'[d] # Nothing => exists'[d]
  <2> SUFFICES ASSUME NEW d \in Dirs, content[d] = Nothing
               PROVE  content'[d] = Nothing \/ exists[d]
    BY DEF TypeOK, FinishFile
  <2> QED
    BY BuildAssumption DEF TypeOK, FinishFile, Nothing
<1> QED
  BY <1>1, <1>2, EmptyIsTyped DEF TypeOK, FinishFile

LEMMA TypeAssertLib == ASSUME TypeOK, NEW p \in Builds, AssertLib(p) PROVE TypeOK'
<1>1. CASE FindLib("staging")
  BY <1>1 DEF TypeOK, AssertLib, Goto, PCs
<1>2. CASE ~FindLib("staging")
  BY <1>2, TypePanic DEF AssertLib, Reasons
<1> QED
  BY <1>1, <1>2

LEMMA TypePublish == ASSUME TypeOK, NEW p \in Builds, Publish(p) PROVE TypeOK'
<1>1. /\ exists' \in [Dirs -> BOOLEAN] /\ exists'["dir"]
      /\ content' \in [Dirs -> [Files -> {"absent", "whole"} \cup Builds]]
      /\ content'["staging"] = Nothing
  BY EmptyIsTyped DEF TypeOK, Publish, Dirs
<1>2. open' \in [Builds -> [at : Dirs \cup {"none", "gone"}, file : Files]]
  BY DEF TypeOK, Publish, Dirs
<1>3. \A q \in Builds : open[q] = NoFile => open'[q] = NoFile
  BY DEF TypeOK, Publish, NoFile
<1>4. \A q \in Builds : open'[q] # NoFile => pc'[q] = "unpack"
  BY <1>3 DEF TypeOK, Publish, Goto
<1> QED
  BY <1>1, <1>2, <1>4 DEF TypeOK, Publish, Goto, PCs, Dirs

LEMMA TypeFails ==
    ASSUME TypeOK, NEW p \in Builds,
           DownloadFails(p) \/ UnpackFails(p) \/ PublishFails(p)
    PROVE  TypeOK'
<1>1. UNCHANGED <<exists, content, todo, runs, evictions, stubborn>>
  BY DEF DownloadFails, UnpackFails, PublishFails
<1>2. PICK reason \in Reasons : Panic(p, reason)
  BY DEF DownloadFails, UnpackFails, PublishFails, Reasons
<1> QED
  BY <1>1, <1>2, TypePanic

LEMMA TypeKill == ASSUME TypeOK, NEW p \in Builds, Kill(p) PROVE TypeOK'
BY EmptyIsTyped DEF TypeOK, Kill, Goto, PCs

LEMMA TypeEvict ==
    ASSUME TypeOK, NEW lost \in SUBSET Files, Evict(lost)
    PROVE  TypeOK'
<1>1. content["dir"] # Nothing
  BY LibAssumption DEF TypeOK, Evict, Nothing
<1>2. content' \in [Dirs -> [Files -> {"absent", "whole"} \cup Builds]]
      /\ content'["staging"] = content["staging"]
  BY DEF TypeOK, Evict, Dirs
<1> QED
  BY <1>1, <1>2, RunAssumption DEF TypeOK, Evict, Dirs

LEMMA TypeStep == ASSUME TypeOK, [Next]_vars PROVE TypeOK'
<1>1. CASE UNCHANGED vars
  BY <1>1 DEF TypeOK, vars
<1>2. Done => UNCHANGED vars
  BY DEF Done
<1> QED
  BY <1>1, <1>2, TypeStart, TypeMove, TypeRemoveFile, TypeRemoveDir, TypeCreate,
     TypeOpenFile, TypeFinishFile, TypeAssertLib, TypePublish, TypeFails, TypeKill,
     TypeEvict DEF Next, Step

CacheInv == TypeOK /\ StagingInv /\ DirInv /\ PlaceInv

(* A removal takes files away, and ends in an empty directory or a failure. *)
LEMMA RemoveFileStep ==
    ASSUME OneBuild, CacheInv, NEW p \in Builds, NEW d \in Dirs, NEW f \in Files,
           RemoveFile(p, d, f)
    PROVE  StagingInv' /\ DirInv' /\ PlaceInv'
<1>1. pc[p] \in {"clear_staging", "clear_dir"} /\ pc' = pc /\ \A q \in Builds : q = p
  BY DEF OneBuild, RemoveFile, Place
<1>2. \A e \in Dirs, g \in Files : content'[e][g] \in {"absent", content[e][g]}
  BY DEF CacheInv, TypeOK, RemoveFile
<1>3. pc[p] = "clear_dir" => d = "dir" /\ content'["staging"] = content["staging"]
  BY DEF CacheInv, TypeOK, RemoveFile, Place, Dirs
<1>4. StagingInv'
  BY <1>1, <1>3 DEF CacheInv, TypeOK, StagingInv, RemoveFile
<1>5. ~FindLib("dir")'
  BY <1>1, <1>2, LibAssumption DEF CacheInv, DirInv, FindLib, Dirs
<1>6. DirInv'
  BY <1>1, <1>2, <1>5, BuildAssumption DEF CacheInv, DirInv, PublishedIsWhole, Dirs
<1>7. PlaceInv'
  BY <1>1 DEF CacheInv, PlaceInv, RemoveFile
<1> QED
  BY <1>4, <1>6, <1>7

LEMMA RemoveDirStep ==
    ASSUME OneBuild, CacheInv, NEW p \in Builds, NEW d \in Dirs,
           RemoveDir(p, d) \/ RemoveFails(p, d)
    PROVE  StagingInv' /\ DirInv' /\ PlaceInv'
<1>1. /\ pc[p] \in {"clear_staging", "clear_dir"} /\ \A q \in Builds : q = p
      /\ pc[p] = "clear_staging" => pc'[p] = "create"
      /\ pc[p] = "clear_dir" => pc'[p] = "publish" /\ d = "dir"
      /\ UNCHANGED <<content, open, todo>>
  BY DEF OneBuild, RemoveDir, RemoveFails, Place, After, Dirs, Goto, CacheInv, TypeOK
<1>2. StagingInv'
  BY <1>1 DEF CacheInv, StagingInv
<1>3. DirInv'
  BY <1>1 DEF CacheInv, DirInv, FindLib, PublishedIsWhole
<1>4. CASE RemoveDir(p, d)
  BY <1>1, <1>2, <1>3, <1>4 DEF CacheInv, PlaceInv, RemoveDir, TypeOK, Dirs
<1>5. CASE RemoveFails(p, d)
  BY <1>1, <1>2, <1>3, <1>5 DEF CacheInv, PlaceInv, RemoveFails, TypeOK
<1> QED
  BY <1>4, <1>5

LEMMA UnpackStep ==
    ASSUME OneBuild, CacheInv, NEW p \in Builds, NEW f \in Files,
           OpenFile(p, f) \/ FinishFile(p)
    PROVE  StagingInv' /\ DirInv' /\ PlaceInv'
<1>1. /\ pc[p] = "unpack" /\ pc' = pc /\ \A q \in Builds : q = p
      /\ stubborn' = stubborn
  BY DEF OneBuild, OpenFile, FinishFile, Unpacking
<1>2. content'["dir"] = content["dir"]
  <2>1. CASE OpenFile(p, f)
    BY <2>1 DEF CacheInv, TypeOK, OpenFile, Unpacking, Dirs
  <2>2. CASE FinishFile(p)
    <3>1. open[p].at = "staging"
      BY <2>2 DEF CacheInv, StagingInv, FinishFile
    <3>2. \A g \in Files : content'["dir"][g] = content["dir"][g]
      BY <2>2, <3>1 DEF CacheInv, TypeOK, FinishFile, Dirs
    <3>3. content'["dir"] \in [Files -> {"absent", "whole"} \cup Builds]
      BY <2>2, TypeFinishFile DEF CacheInv, TypeOK, Dirs
    <3> QED
      BY <3>2, <3>3 DEF CacheInv, TypeOK, Dirs
  <2> QED
    BY <2>1, <2>2
<1>3. DirInv'
  BY <1>1, <1>2 DEF CacheInv, DirInv, FindLib, PublishedIsWhole
<1>4. CASE OpenFile(p, f)
  <2>1. /\ open' = [open EXCEPT ![p] = [at |-> "staging", file |-> f]]
        /\ content'["staging"][f] = p
        /\ todo'[p] = todo[p] \ {f} /\ open[p] = NoFile
        /\ \A g \in Files \ {f} : content'["staging"][g] = content["staging"][g]
    BY <1>4 DEF CacheInv, TypeOK, OpenFile, Unpacking, Dirs
  <2>2. \A g \in Files : open[p] # [at |-> "staging", file |-> g]
    BY <2>1 DEF NoFile
  <2>3. StagingInv'
    <3>1. open'[p] = [at |-> "staging", file |-> f]
      BY <2>1 DEF CacheInv, TypeOK
    <3>2. \A g \in Files \ todo[p] :
             \/ content["staging"][g] = "whole"
             \/ open[p] = [at |-> "staging", file |-> g]
      BY <1>1 DEF CacheInv, StagingInv
    <3>3. \A g \in Files \ todo'[p] :
             content'["staging"][g] = "whole" \/ g = f
      BY <2>1, <2>2, <3>2
    <3>4. pc'[p] = "unpack"
      BY <1>1
    <3> QED
      BY <1>1, <2>1, <3>1, <3>3, <3>4 DEF StagingInv
  <2>4. PlaceInv'
    BY <1>1, <1>2, <1>4 DEF CacheInv, TypeOK, PlaceInv, OpenFile, Unpacking, Dirs
  <2> QED
    BY <1>3, <2>3, <2>4
<1>5. CASE FinishFile(p)
  <2>1. open'[p] = NoFile /\ todo' = todo /\ exists' = exists
    BY <1>5 DEF CacheInv, TypeOK, FinishFile
  <2>2. StagingInv'
    <3> SUFFICES ASSUME NEW g \in Files \ todo[p]
                 PROVE  content'["staging"][g] = "whole"
      BY <1>1, <2>1 DEF StagingInv
    <3>1. CASE content["staging"][g] = "whole"
      BY <1>5, <3>1 DEF CacheInv, TypeOK, FinishFile, Dirs
    <3>2. CASE open[p] = [at |-> "staging", file |-> g] /\ content["staging"][g] # "whole"
      <4>1. content["staging"][g] = p
        BY <1>5, <3>2 DEF CacheInv, StagingInv, FinishFile
      <4> QED
        BY <1>5, <3>2, <4>1 DEF CacheInv, TypeOK, FinishFile, Dirs
    <3> QED
      BY <1>1, <3>1, <3>2 DEF CacheInv, StagingInv
  <2>3. PlaceInv'
    BY <1>1, <2>1 DEF CacheInv, PlaceInv
  <2> QED
    BY <1>3, <2>2, <2>3
<1> QED
  BY <1>4, <1>5

LEMMA PublishStep ==
    ASSUME OneBuild, CacheInv, NEW p \in Builds, Publish(p)
    PROVE  StagingInv' /\ DirInv' /\ PlaceInv'
<1>1. /\ pc[p] = "publish" /\ pc'[p] = "link" /\ \A q \in Builds : q = p
      /\ \A f \in Files : content["staging"][f] = "whole"
      /\ content'["dir"] = content["staging"]
  BY DEF OneBuild, CacheInv, TypeOK, StagingInv, Publish, Goto, Dirs
<1>2. open'[p] = NoFile
  BY <1>1 DEF CacheInv, TypeOK, Publish, NoFile
<1> QED
  BY <1>1, <1>2, BuildAssumption, LibAssumption
     DEF StagingInv, DirInv, PlaceInv, FindLib, PublishedIsWhole

LEMMA EndStep ==
    ASSUME OneBuild, CacheInv, NEW p \in Builds,
           \/ \E reason : Panic(p, reason)
           \/ Goto(p, "idle") /\ open' = [open EXCEPT ![p] = NoFile],
           UNCHANGED <<exists, content, todo>>
    PROVE  StagingInv' /\ DirInv' /\ PlaceInv'
<1>1. pc'[p] = "idle" /\ open'[p] = NoFile /\ \A q \in Builds : q = p
  BY DEF OneBuild, CacheInv, TypeOK, Panic, Goto
<1> QED
  BY <1>1 DEF CacheInv, StagingInv, DirInv, PlaceInv, FindLib, PublishedIsWhole

LEMMA MoveStep ==
    ASSUME OneBuild, CacheInv, NEW p \in Builds,
           Start(p) \/ Check(p) \/ Download(p) \/ UnpackEnds(p) \/ Link(p)
             \/ (AssertLib(p) /\ FindLib("staging"))
    PROVE  StagingInv' /\ DirInv' /\ PlaceInv'
<1>1. UNCHANGED <<exists, content, todo, open>> /\ \A q \in Builds : q = p
  BY DEF OneBuild, Start, Check, Download, UnpackEnds, Link, AssertLib
<1>2. \/ pc[p] = "idle" /\ pc'[p] = "check"
      \/ pc[p] = "check" /\ pc'[p] = "link" /\ FindLib("dir")
      \/ pc[p] = "check" /\ pc'[p] = "download" /\ ~FindLib("dir")
      \/ pc[p] = "download" /\ pc'[p] = "clear_staging"
      \/ pc[p] = "unpack" /\ pc'[p] = "find" /\ todo[p] = {} /\ open[p] = NoFile
      \/ pc[p] = "link" /\ pc'[p] = "idle"
      \/ pc[p] = "find" /\ pc'[p] = "clear_dir"
  BY DEF CacheInv, TypeOK, Start, Check, Download, UnpackEnds, Link, AssertLib, Goto
<1>3. pc'[p] = "find" => \A f \in Files : content["staging"][f] = "whole"
  <2> SUFFICES ASSUME pc[p] = "unpack", todo[p] = {}, open[p] = NoFile, NEW f \in Files
               PROVE  content["staging"][f] = "whole"
    BY <1>2
  <2>1. open[p] # [at |-> "staging", file |-> f]
    BY DEF NoFile
  <2>2. \/ content["staging"][f] = "whole"
        \/ open[p] = [at |-> "staging", file |-> f]
    <3>1. \A g \in Files \ todo[p] :
             \/ content["staging"][g] = "whole"
             \/ open[p] = [at |-> "staging", file |-> g]
      BY DEF CacheInv, StagingInv
    <3> QED
      BY <3>1
  <2> QED
    BY <2>1, <2>2
<1>4. StagingInv'
  <2>1. /\ pc'[p] # "unpack" /\ pc'[p] # "publish"
        /\ pc'[p] = "clear_dir" => pc[p] = "find"
    BY <1>2
  <2>2. pc[p] = "find" => \A f \in Files : content["staging"][f] = "whole"
    BY DEF CacheInv, StagingInv
  <2>3. pc'[p] \in {"find", "clear_dir", "publish"} =>
           \A f \in Files : content["staging"][f] = "whole"
    BY <1>3, <2>1, <2>2
  <2>4. open[p] # NoFile =>
           open[p].at = "staging" /\ content["staging"][open[p].file] = p
    BY DEF CacheInv, StagingInv
  <2> QED
    BY <1>1, <2>1, <2>3, <2>4 DEF StagingInv
<1>5. DirInv'
  BY <1>1, <1>2 DEF CacheInv, DirInv, FindLib, PublishedIsWhole
<1>6. PlaceInv'
  BY <1>1, <1>2 DEF CacheInv, PlaceInv
<1> QED
  BY <1>4, <1>5, <1>6

LEMMA CreateStep ==
    ASSUME OneBuild, CacheInv, NEW p \in Builds, Create(p)
    PROVE  StagingInv' /\ DirInv' /\ PlaceInv'
<1>1. /\ pc[p] = "create" /\ pc'[p] = "unpack" /\ todo'[p] = Files
      /\ exists'["staging"] /\ open[p] = NoFile /\ open' = open /\ content' = content
      /\ \A q \in Builds : q = p
  BY DEF OneBuild, CacheInv, TypeOK, Create, Goto, Dirs
<1> QED
  BY <1>1 DEF CacheInv, StagingInv, DirInv, PlaceInv, FindLib, PublishedIsWhole

LEMMA EvictStep ==
    ASSUME OneBuild, CacheInv, NEW lost \in SUBSET Files, Evict(lost)
    PROVE  StagingInv' /\ DirInv' /\ PlaceInv'
<1>1. /\ \A p \in Builds : pc[p] = "idle" /\ open[p] = NoFile
      /\ UNCHANGED <<pc, open>>
  BY DEF CacheInv, TypeOK, Evict
<1>2. /\ content'["dir"][Lib] = "absent"
      /\ \A f \in Files : content'["dir"][f] \in {"absent", content["dir"][f]}
  BY LibAssumption DEF CacheInv, TypeOK, Evict, Dirs
<1> QED
  BY <1>1, <1>2, BuildAssumption
     DEF CacheInv, StagingInv, DirInv, PlaceInv, FindLib, PublishedIsWhole

LEMMA CacheInvariant == OneBuild /\ Spec => []CacheInv
<1> SUFFICES ASSUME OneBuild PROVE Spec => []CacheInv
  OBVIOUS
<1>1. Init => CacheInv
  <2> SUFFICES ASSUME Init PROVE CacheInv
    OBVIOUS
  <2> QED
    BY TypeInit, LibAssumption, BuildAssumption
       DEF Init, CacheInv, StagingInv, DirInv, PlaceInv, FindLib, PublishedIsWhole,
           Nothing, Dirs
<1>2. CacheInv /\ [Next]_vars => CacheInv'
  <2> SUFFICES ASSUME CacheInv, [Next]_vars
               PROVE  StagingInv' /\ DirInv' /\ PlaceInv'
    BY TypeStep DEF CacheInv
  <2>1. ASSUME NEW p \in Builds,
               \/ AssertLib(p) /\ ~FindLib("staging")
               \/ DownloadFails(p) \/ UnpackFails(p) \/ PublishFails(p) \/ Kill(p)
        PROVE  StagingInv' /\ DirInv' /\ PlaceInv'
    BY <2>1, EndStep DEF AssertLib, DownloadFails, UnpackFails, PublishFails, Kill
  <2>2. CASE Done \/ UNCHANGED vars
    BY <2>2 DEF CacheInv, StagingInv, DirInv, PlaceInv, FindLib, PublishedIsWhole,
       Done, vars
  <2>3. ASSUME NEW p \in Builds, FinishFile(p)
        PROVE  StagingInv' /\ DirInv' /\ PlaceInv'
    BY <2>3, UnpackStep, LibAssumption
  <2> QED
    BY <2>1, <2>2, <2>3, RemoveFileStep, RemoveDirStep, UnpackStep, PublishStep, MoveStep,
       CreateStep, EvictStep DEF Next, Step
<1> QED
  BY <1>1, <1>2, PTL DEF Spec

-----------------------------------------------------------------------------
(* What the build scripts keep on disk and in hand has its type: a         *)
(* directory that holds a file exists, and only a script that unpacks      *)
(* (build.rs:251) has a file open.                                         *)
THEOREM CacheTypeCorrect == Spec => []TypeOK
BY TypeInit, TypeStep, PTL DEF Spec

(* A script alone on the cache, killed and failing wherever it may, never  *)
(* leaves a directory in which find_lib_dir finds the library and another  *)
(* file is missing or half written: what build.rs:208 says the existence   *)
(* of the directory proves.                                                *)
THEOREM PublishedStaysWhole == OneBuild /\ Spec => []PublishedIsWhole
<1>1. CacheInv => PublishedIsWhole
  BY DEF CacheInv, DirInv
<1> QED
  BY <1>1, CacheInvariant, PTL

(* What such a script returns from download_prebuilt (build.rs:218, 259)   *)
(* is whole for as long as it is linked.                                   *)
THEOREM LinkedStaysWhole == OneBuild /\ Spec => []LinkedIsWhole
<1>1. CacheInv => LinkedIsWhole
  BY DEF CacheInv, DirInv, PublishedIsWhole, LinkedIsWhole
<1> QED
  BY <1>1, CacheInvariant, PTL

(* Whatever killed runs, failed runs and evictions leave in the staging or *)
(* the target directory, a run removes it (build.rs:239-253): it fails to  *)
(* find the library or to publish only when a removal failed in that run.  *)
THEOREM LeftoversAlwaysHeal == OneBuild /\ Spec => []LeftoversHeal
<1> SUFFICES ASSUME OneBuild PROVE Spec => []LeftoversHeal
  OBVIOUS
<1>1. Init => LeftoversHeal
  BY DEF Init, LeftoversHeal
<1>2. CacheInv /\ LeftoversHeal /\ [Next]_vars => LeftoversHeal'
  <2> SUFFICES ASSUME CacheInv, LeftoversHeal, [Next]_vars
               PROVE  LeftoversHeal'
    OBVIOUS
  <2>1. ASSUME NEW p \in Builds, AssertLib(p)
        PROVE  LeftoversHeal'
    <3>1. FindLib("staging")
      BY <2>1, LibAssumption DEF CacheInv, StagingInv, AssertLib, FindLib
    <3> QED
      BY <2>1, <3>1 DEF LeftoversHeal, AssertLib
  <2>2. ASSUME NEW p \in Builds, PublishFails(p)
        PROVE  LeftoversHeal'
    <3>1. stubborn[p] \/ CanRename
      BY <2>2 DEF CacheInv, PlaceInv, PublishFails, CanRename
    <3>2. /\ UNCHANGED stubborn
          /\ why' = [why EXCEPT ![p] = IF CanRename THEN "rename" ELSE "publish"]
      BY <2>2 DEF PublishFails, Panic
    <3>3. why'[p] = IF CanRename THEN "rename" ELSE "publish"
      BY <3>2 DEF CacheInv, TypeOK
    <3> QED
      BY <3>1, <3>2, <3>3 DEF OneBuild, LeftoversHeal
  <2>3. ASSUME NEW p \in Builds, Start(p) \/ DownloadFails(p) \/ UnpackFails(p)
        PROVE  LeftoversHeal'
    BY <2>3 DEF OneBuild, LeftoversHeal, CacheInv, TypeOK, Start, DownloadFails,
       UnpackFails, Panic
  <2>4. ASSUME NEW p \in Builds, NEW d \in Dirs, RemoveFails(p, d)
        PROVE  LeftoversHeal'
    BY <2>4 DEF LeftoversHeal, CacheInv, TypeOK, RemoveFails
  <2>5. ASSUME UNCHANGED <<why, stubborn>>
        PROVE  LeftoversHeal'
    BY <2>5 DEF LeftoversHeal
  <2>6. ASSUME NEW p \in Builds, NEW d \in Dirs, NEW f \in Files,
               \/ Check(p) \/ Download(p) \/ RemoveDir(p, d) \/ RemoveFile(p, d, f)
               \/ Create(p) \/ OpenFile(p, f) \/ FinishFile(p) \/ UnpackEnds(p)
               \/ Publish(p) \/ Link(p) \/ Kill(p)
        PROVE  LeftoversHeal'
    BY <2>5, <2>6 DEF Check, Download, RemoveDir, RemoveFile, Create, OpenFile,
       Unpacking, FinishFile, UnpackEnds, Publish, Link, Kill
  <2>7. CASE (\E lost \in SUBSET Files : Evict(lost)) \/ Done \/ UNCHANGED vars
    BY <2>5, <2>7 DEF Evict, Done, vars
  <2>8. Files # {} /\ Dirs # {}
    BY LibAssumption DEF Dirs
  <2> QED
    BY <2>1, <2>2, <2>3, <2>4, <2>6, <2>7, <2>8 DEF Next, Step
<1> QED
  BY <1>1, <1>2, CacheInvariant, PTL DEF Spec
==============================================================================
