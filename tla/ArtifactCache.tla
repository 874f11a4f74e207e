---------------------------- MODULE ArtifactCache ----------------------------
(***************************************************************************)
(* download_prebuilt of regor-sys/build.rs: build scripts that fetch the   *)
(* pinned artifact, check its digest, unpack it into a staging directory   *)
(* and publish it by a rename to a directory named after the digest.       *)
(*                                                                         *)
(* A directory is abstracted to the files of the artifact in it.  A file   *)
(* is absent, whole, or still being written by one of the build scripts.   *)
(* Scripts may be killed between any two steps and run again; the network  *)
(* may fail or deliver other bytes; removing a tree may fail half way; and *)
(* the cache may lose a published library (build.rs:95).                   *)
(***************************************************************************)
EXTENDS Naturals, FiniteSets

CONSTANTS
    Builds,         \* build scripts that may run at the same time
    Files,          \* the files of the artifact
    Lib,            \* the one that find_lib_dir looks for
    MaxRuns,        \* bound: runs of build scripts
    MaxEvictions    \* bound: libraries lost to cache eviction

ASSUME LibAssumption == Lib \in Files
ASSUME BuildAssumption == Builds \cap {"absent", "whole"} = {}
ASSUME RunAssumption == MaxRuns \in Nat /\ MaxEvictions \in Nat

Dirs == {"staging", "dir"}

VARIABLES
    exists,     \* which of the two directories exist
    content,    \* directory -> file -> "absent", "whole", or its writer
    pc,         \* where each build script is
    todo,       \* the entries of the tarball it has not unpacked yet
    open,       \* the file it is writing: its directory and name, or NoFile
    runs,       \* runs started so far
    evictions,  \* libraries evicted so far
    \* History variables.
    why,        \* the panic! or assert! that ended each script, or "none"
    stubborn    \* whether a remove_dir_all of its current run has failed

vars == <<exists, content, pc, todo, open, runs, evictions, why, stubborn>>

NoFile == [at |-> "none", file |-> Lib]
Nothing == [f \in Files |-> "absent"]

(* The ways a script panics; "publish" is a rename that was bound to fail. *)
Reasons == {"download", "digest", "unpack", "no_library", "publish", "rename"}

PCs == {"idle", "check", "download", "clear_staging", "create", "unpack",
        "find", "clear_dir", "publish", "link"}

TypeOK ==
    /\ exists \in [Dirs -> BOOLEAN]
    /\ content \in [Dirs -> [Files -> {"absent", "whole"} \cup Builds]]
    /\ pc \in [Builds -> PCs]
    /\ todo \in [Builds -> SUBSET Files]
    /\ open \in [Builds -> [at : Dirs \cup {"none", "gone"}, file : Files]]
    /\ runs \in 0..MaxRuns /\ evictions \in 0..MaxEvictions
    /\ why \in [Builds -> Reasons \cup {"none"}]
    /\ stubborn \in [Builds -> BOOLEAN]
    /\ \A d \in Dirs : content[d] # Nothing => exists[d]
    /\ \A p \in Builds : open[p] # NoFile => pc[p] = "unpack"

Init ==
    /\ exists = [d \in Dirs |-> FALSE]
    /\ content = [d \in Dirs |-> Nothing]
    /\ pc = [p \in Builds |-> "idle"]
    /\ todo = [p \in Builds |-> {}] /\ open = [p \in Builds |-> NoFile]
    /\ runs = 0 /\ evictions = 0
    /\ why = [p \in Builds |-> "none"]
    /\ stubborn = [p \in Builds |-> FALSE]

-----------------------------------------------------------------------------
Goto(p, place) == pc' = [pc EXCEPT ![p] = place]

(* A panic ends the script; the handle of a file being written is closed.  *)
Panic(p, reason) ==
    /\ Goto(p, "idle")
    /\ open' = [open EXCEPT ![p] = NoFile]
    /\ why' = [why EXCEPT ![p] = reason]

Start(p) ==
    /\ pc[p] = "idle"
    /\ runs < MaxRuns
    /\ runs' = runs + 1
    /\ Goto(p, "check")
    /\ why' = [why EXCEPT ![p] = "none"]
    /\ stubborn' = [stubborn EXCEPT ![p] = FALSE]
    /\ UNCHANGED <<exists, content, todo, open, evictions>>

(* find_lib_dir: the library file exists.                                  *)
FindLib(d) == content[d][Lib] # "absent"

(* Slip: the directory is taken for the library in it.                     *)
CheckDirectory(p) ==
    /\ pc[p] = "check"
    /\ Goto(p, IF exists["dir"] THEN "link" ELSE "download")
    /\ UNCHANGED <<exists, content, todo, open, runs, evictions, why, stubborn>>

Check(p) ==
    /\ pc[p] = "check"
    /\ Goto(p, IF FindLib("dir") THEN "link" ELSE "download")
    /\ UNCHANGED <<exists, content, todo, open, runs, evictions, why, stubborn>>

(* curl, then wget, into memory, and the comparison of the digests: the    *)
(* script goes on only with the pinned bytes.                              *)
Download(p) ==
    /\ pc[p] = "download"
    /\ Goto(p, "clear_staging")
    /\ UNCHANGED <<exists, content, todo, open, runs, evictions, why, stubborn>>

DownloadFails(p) ==
    /\ pc[p] = "download"
    /\ \E reason \in {"download", "digest"} : Panic(p, reason)
    /\ UNCHANGED <<exists, content, todo, runs, evictions, stubborn>>

(* fs::remove_dir_all(..).ok(): one file at a time, then the directory; a  *)
(* failure leaves the rest behind and is ignored.                          *)
Place(d) == IF d = "staging" THEN "clear_staging" ELSE "clear_dir"
After(d) == IF d = "staging" THEN "create" ELSE "publish"

RemoveFile(p, d, f) ==
    /\ pc[p] = Place(d)
    /\ content[d][f] # "absent"
    /\ content' = [content EXCEPT ![d][f] = "absent"]
    /\ UNCHANGED <<exists, pc, todo, open, runs, evictions, why, stubborn>>

(* Slip: the directory is forgotten with what is in it.                    *)
RemoveDirOnly(p, d) ==
    /\ pc[p] = Place(d)
    /\ exists' = [exists EXCEPT ![d] = FALSE]
    /\ Goto(p, After(d))
    /\ UNCHANGED <<content, todo, open, runs, evictions, why, stubborn>>

RemoveDir(p, d) ==
    /\ pc[p] = Place(d)
    /\ content[d] = Nothing
    /\ exists' = [exists EXCEPT ![d] = FALSE]
    /\ Goto(p, After(d))
    /\ UNCHANGED <<content, todo, open, runs, evictions, why, stubborn>>

RemoveFails(p, d) ==
    /\ pc[p] = Place(d)
    /\ exists[d]
    /\ stubborn' = [stubborn EXCEPT ![p] = TRUE]
    /\ Goto(p, After(d))
    /\ UNCHANGED <<exists, content, todo, open, runs, evictions, why>>

Create(p) ==
    /\ pc[p] = "create"
    /\ exists' = [exists EXCEPT !["staging"] = TRUE]
    /\ todo' = [todo EXCEPT ![p] = Files]
    /\ Goto(p, "unpack")
    /\ UNCHANGED <<content, open, runs, evictions, why, stubborn>>

(* Archive::unpack: each entry replaces the file of its name, making the   *)
(* directory again if it has gone, and is then written.  What is written   *)
(* goes to the file that was opened, wherever it has been renamed to; if   *)
(* it has been removed or replaced meanwhile, nowhere.                     *)
Unpacking(p, d, f) ==
    /\ pc[p] = "unpack"
    /\ f \in todo[p] /\ open[p] = NoFile
    /\ exists' = [exists EXCEPT ![d] = TRUE]
    /\ content' = [content EXCEPT ![d][f] = p]
    /\ todo' = [todo EXCEPT ![p] = @ \ {f}]
    /\ open' = [open EXCEPT ![p] = [at |-> d, file |-> f]]
    /\ UNCHANGED <<pc, runs, evictions, why, stubborn>>

(* Slip: the archive is unpacked in place.                                 *)
OpenFileInPlace(p, f) == Unpacking(p, "dir", f)

OpenFile(p, f) == Unpacking(p, "staging", f)

FinishFile(p) ==
    /\ pc[p] = "unpack"
    /\ open[p] # NoFile
    /\ content' = [d \in Dirs |-> [f \in Files |->
                      IF open[p] = [at |-> d, file |-> f] /\ content[d][f] = p
                      THEN "whole" ELSE content[d][f]]]
    /\ open' = [open EXCEPT ![p] = NoFile]
    /\ UNCHANGED <<exists, pc, todo, runs, evictions, why, stubborn>>

UnpackFails(p) ==
    /\ pc[p] = "unpack"
    /\ Panic(p, "unpack")
    /\ UNCHANGED <<exists, content, todo, runs, evictions, stubborn>>

UnpackEnds(p) ==
    /\ pc[p] = "unpack"
    /\ todo[p] = {} /\ open[p] = NoFile
    /\ Goto(p, "find")
    /\ UNCHANGED <<exists, content, todo, open, runs, evictions, why, stubborn>>

(* Slip: what an earlier build left at the target is not removed.          *)
AssertLibOnly(p) ==
    /\ pc[p] = "find"
    /\ IF FindLib("staging") THEN Goto(p, "publish") /\ UNCHANGED <<open, why>>
                             ELSE Panic(p, "no_library")
    /\ UNCHANGED <<exists, content, todo, runs, evictions, stubborn>>

(* The assertion that the archive held a library.                          *)
AssertLib(p) ==
    /\ pc[p] = "find"
    /\ IF FindLib("staging") THEN Goto(p, "clear_dir") /\ UNCHANGED <<open, why>>
                             ELSE Panic(p, "no_library")
    /\ UNCHANGED <<exists, content, todo, runs, evictions, stubborn>>

(* fs::rename, which is bound to fail on a missing source and on a target  *)
(* that is not empty, and may fail for reasons of its own.                 *)
CanRename == exists["staging"] /\ content["dir"] = Nothing

Publish(p) ==
    /\ pc[p] = "publish"
    /\ CanRename
    /\ exists' = [d \in Dirs |-> d = "dir"]
    /\ content' = [d \in Dirs |-> IF d = "dir" THEN content["staging"]
                                               ELSE Nothing]
    /\ open' = [q \in Builds |->
                   CASE open[q].at = "staging" -> [open[q] EXCEPT !.at = "dir"]
                     [] open[q].at = "dir"     -> [open[q] EXCEPT !.at = "gone"]
                     [] OTHER                  -> open[q]]
    /\ Goto(p, "link")
    /\ UNCHANGED <<todo, runs, evictions, why, stubborn>>

(* Slip: a failed rename is tried again for as long as it fails.           *)
PublishRetries(p) == pc[p] = "publish" /\ UNCHANGED vars

PublishFails(p) ==
    /\ pc[p] = "publish"
    /\ Panic(p, IF CanRename THEN "rename" ELSE "publish")
    /\ UNCHANGED <<exists, content, todo, runs, evictions, stubborn>>

(* Cargo links what the script returned, and the build is over.            *)
Link(p) ==
    /\ pc[p] = "link"
    /\ Goto(p, "idle")
    /\ UNCHANGED <<exists, content, todo, open, runs, evictions, why, stubborn>>

-----------------------------------------------------------------------------
(* The script is killed.                                                   *)
Kill(p) ==
    /\ pc[p] \notin {"idle", "link"}
    /\ Goto(p, "idle")
    /\ open' = [open EXCEPT ![p] = NoFile]
    /\ UNCHANGED <<exists, content, todo, runs, evictions, why, stubborn>>

(* "the library disappears (e.g. cache eviction)" between builds, by       *)
(* itself or with any of what lies beside it.  A cache that loses other    *)
(* files and keeps the library is beyond find_lib_dir, which looks for     *)
(* nothing else.                                                           *)
Evict(lost) ==
    /\ Lib \in lost
    /\ \A p \in Builds : pc[p] = "idle"
    /\ evictions < MaxEvictions
    /\ content["dir"][Lib] # "absent"
    /\ content' = [content EXCEPT !["dir"] =
                      [f \in Files |-> IF f \in lost THEN "absent" ELSE @[f]]]
    /\ evictions' = evictions + 1
    /\ UNCHANGED <<exists, pc, todo, open, runs, why, stubborn>>

Step(p) ==
    \/ Check(p) \/ Download(p) \/ DownloadFails(p)
    \/ \E d \in Dirs : \/ RemoveDir(p, d) \/ RemoveFails(p, d)
                       \/ \E f \in Files : RemoveFile(p, d, f)
    \/ Create(p) \/ \E f \in Files : OpenFile(p, f)
    \/ FinishFile(p) \/ UnpackFails(p) \/ UnpackEnds(p)
    \/ AssertLib(p) \/ Publish(p) \/ PublishFails(p) \/ Link(p)

(* No more builds are run (the bound MaxRuns).                             *)
Done == /\ runs = MaxRuns /\ \A p \in Builds : pc[p] = "idle"
        /\ UNCHANGED vars

Next == \/ \E p \in Builds : Start(p) \/ Step(p) \/ Kill(p)
        \/ \E lost \in SUBSET Files : Evict(lost)
        \/ Done

Spec == Init /\ [][Next]_vars

(* A script that is not killed keeps running.                              *)
FairSpec == Spec /\ \A p \in Builds : WF_vars(Step(p))

-----------------------------------------------------------------------------
(* Properties.                                                             *)

(* build.rs:208: the directory is named after the digest, "so its mere     *)
(* existence proves it holds the verified contents this build wants".  As  *)
(* find_lib_dir sees it: where there is a library, every file is whole.    *)
PublishedIsWhole ==
    FindLib("dir") => \A f \in Files : content["dir"][f] = "whole"

(* What a script hands to the linker is whole for as long as it links.     *)
LinkedIsWhole ==
    \A p \in Builds : pc[p] = "link" =>
        \A f \in Files : content["dir"][f] = "whole"

(* Whatever killed runs, failed runs and evictions have left behind, a run *)
(* cleans it up: it does not fail for want of a library in the archive or  *)
(* of a place to publish to, unless a removal failed in that very run.     *)
LeftoversHeal ==
    \A p \in Builds : why[p] \in {"no_library", "publish"} => stubborn[p]

(* A run that is not killed ends, by linking or by a panic.                *)
EveryRunEnds == \A p \in Builds : pc[p] # "idle" ~> pc[p] = "idle"

-----------------------------------------------------------------------------
(* For the proofs, of one build script at a time.                          *)
OneBuild == \A p, q \in Builds : p = q

(* Unpacking goes to the staging directory, and what it has been through   *)
(* is whole but for the file being written.                                *)
StagingInv == \A p \in Builds :
    /\ open[p] # NoFile =>
          open[p].at = "staging" /\ content["staging"][open[p].file] = p
    /\ pc[p] = "unpack" => \A f \in Files \ todo[p] :
          \/ content["staging"][f] = "whole"
          \/ open[p] = [at |-> "staging", file |-> f]
    /\ pc[p] \in {"find", "clear_dir", "publish"} =>
          \A f \in Files : content["staging"][f] = "whole"

(* A run that downloads has found no library, and finds none until it      *)
(* publishes one.                                                          *)
DirInv ==
    /\ \A p \in Builds : pc[p] \notin {"idle", "check", "link"} => ~FindLib("dir")
    /\ \A p \in Builds : pc[p] = "link" => FindLib("dir")
    /\ \A f \in Files : content["dir"][f] \notin Builds
    /\ PublishedIsWhole

(* What it has made is there when it publishes, and what was there before  *)
(* is gone, unless a removal has failed.                                   *)
PlaceInv == \A p \in Builds :
    /\ pc[p] \in {"unpack", "find", "clear_dir", "publish"} => exists["staging"]
    /\ pc[p] = "publish" => content["dir"] = Nothing \/ stubborn[p]
=============================================================================
