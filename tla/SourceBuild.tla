----------------------------- MODULE SourceBuild -----------------------------
(***************************************************************************)
(* cmake_build of regor-sys/build.rs: the library built from a checkout by *)
(* cmake, out of tree, in a directory of the cache that is named after the *)
(* generator, the configuration and the checkout, and left there from one  *)
(* build to the next.                                                      *)
(*                                                                         *)
(* One build script runs at a time (cargo locks its target directory), but *)
(* the checkout may be edited at any moment, the script may be killed, a   *)
(* removal may fail half way and the cache may lose any part of a tree.    *)
(* A library is abstracted to the version of the sources and the           *)
(* configuration it was compiled from; its headers travel with it.  What   *)
(* cmake does with a tree it finds is modelled from what cmake_build       *)
(* expects of it.                                                          *)
(***************************************************************************)
EXTENDS Naturals

CONSTANTS
    Generators,     \* "Ninja", or make when has_ninja finds none
    Configs,        \* Release, Debug
    Sources,        \* checkouts ETHOS_U_VELA_PATH may name
    Nil,
    MaxBuilds,      \* bound: builds asked of cargo
    MaxEdits,       \* bound: edits of the checkouts
    MaxEvictions    \* bound: losses of parts of the cache

ASSUME BuildBounds == MaxBuilds \in Nat /\ MaxEdits \in Nat /\ MaxEvictions \in Nat

Requests == [generator : Generators, config : Configs, src : Sources]
Keys == Generators \X Configs \X Sources
Libraries == [version : 0..MaxEdits, config : Configs]

(* What `cmake --install` does: install the static target, nothing for the *)
(* static target, or fail, say over a target that has not been built.      *)
Rules == {"static", "none", "fails"}

(* The parts of <cache>/<key>: cmake's state and the archive in build, and *)
(* the library in install and in install-fallback.                         *)
Parts == {"cache", "archive", "install", "fallback"}
Caches == [generator : Generators, src : Sources, config : Configs, rule : Rules]
MayHold(part) == {Nil} \cup IF part = "cache" THEN Caches ELSE Libraries
ASSUME NilAssumption == Nil \notin Requests \cup Libraries \cup Caches

Trees == {t \in [Parts -> {Nil} \cup Caches \cup Libraries] :
             \A part \in Parts : t[part] \in MayHold(part)}
EmptyTree == [part \in Parts |-> Nil]

VARIABLES
    source,     \* checkout -> its version, and its install rule
    tree,       \* key -> the tree of that name in the cache
    pc, request, forced,    \* the build in progress: REGOR_FORCE_REBUILD set?
    out,        \* the directory cmake_build has returned
    last,       \* cargo's record of the last successful run of the script
    builds, edits, evictions,
    \* History variables.
    asked,      \* the version of the checkout when cargo was invoked
    compiled,   \* whether this run of the script has compiled the library
    omitted,    \* whether cmake --install has installed no library in the last run
    kept,       \* whether its remove_dir_all has failed with the archive left
    why,        \* the panic! or assert! that ended it, or "none"
    made        \* request -> version last compiled for it and not lost since

vars == <<source, tree, pc, request, forced, out, last, builds, edits,
          evictions, asked, compiled, omitted, kept, why, made>>
world == <<source, edits, evictions>>
asking == <<request, forced, asked, builds>>
noted == <<compiled, omitted, kept>>

PCs == {"idle", "remove", "configure", "build", "install", "fallback",
        "find", "link"}
Outs == {"install", "fallback"}

TypeOK ==
    /\ source \in [Sources -> [version : 0..MaxEdits, rule : Rules]]
    /\ tree \in [Keys -> Trees]
    /\ pc \in PCs /\ out \in Outs \cup {"none"}
    /\ request \in Requests \cup {Nil} /\ forced \in BOOLEAN
    /\ last \in [request : Requests, forced : BOOLEAN, out : Outs,
                 asked : 0..MaxEdits] \cup {Nil}
    /\ \A s \in Sources : source[s].version <= edits
    /\ builds \in 0..MaxBuilds /\ edits \in 0..MaxEdits
    /\ evictions \in 0..MaxEvictions /\ asked \in 0..MaxEdits
    /\ compiled \in BOOLEAN /\ omitted \in BOOLEAN /\ kept \in BOOLEAN
    /\ why \in {"none", "refused", "failed", "no_library"}
    /\ made \in [Requests -> 0..MaxEdits \cup {Nil}]
    /\ pc = "idle" <=> request = Nil
    /\ pc \in {"find", "link"} <=> out # "none"

Init ==
    /\ source \in [Sources -> [version : {0}, rule : Rules]]
    /\ tree = [k \in Keys |-> EmptyTree]
    /\ pc = "idle" /\ out = "none"
    /\ request = Nil /\ forced = FALSE /\ asked = 0
    /\ last = Nil
    /\ builds = 0 /\ edits = 0 /\ evictions = 0
    /\ compiled = FALSE /\ omitted = FALSE /\ kept = FALSE /\ why = "none"
    /\ made = [r \in Requests |-> Nil]

-----------------------------------------------------------------------------
(* build_key: a digest of generator, configuration and checkout.           *)

(* Slip: the generator, or the configuration, is left out of the name.     *)
KeyWithoutGenerator(r) == <<CHOOSE g \in Generators : TRUE, r.config, r.src>>
KeyWithoutConfig(r) == <<r.generator, CHOOSE c \in Configs : TRUE, r.src>>

BuildKey(r) == <<r.generator, r.config, r.src>>

Here == tree[BuildKey(request)]
Put(part, value) == tree' = [tree EXCEPT ![BuildKey(request)][part] = value]

(* find_lib_dir, in install or in install-fallback.                        *)
FindLib(dir) == Here[dir] # Nil

(* Removed parts of a tree take what was compiled for the requests that    *)
(* use it with them.                                                       *)
Lose(key, parts) ==
    /\ tree' = [tree EXCEPT ![key] = [part \in Parts |->
                   IF part \in parts THEN Nil ELSE @[part]]]
    /\ made' = [r \in Requests |->
                   IF BuildKey(r) = key /\ "archive" \in parts THEN Nil
                                                               ELSE made[r]]

(* The script is over, one way or another.                                 *)
Over ==
    /\ pc' = "idle" /\ out' = "none"
    /\ request' = Nil /\ forced' = FALSE /\ asked' = 0
    /\ compiled' = FALSE /\ kept' = FALSE
    /\ UNCHANGED <<builds, omitted>>

Panic(reason) == Over /\ why' = reason

(* Cargo runs the script.  Its earlier success no longer counts.           *)
Invoke(r, force) ==
    /\ pc = "idle"
    /\ builds < MaxBuilds
    /\ builds' = builds + 1
    /\ request' = r /\ forced' = force /\ asked' = source[r.src].version
    /\ last' = Nil
    /\ compiled' = FALSE /\ omitted' = FALSE /\ kept' = FALSE
    /\ why' = "none"

(* Slip: a library that is there is linked, as download_prebuilt does.     *)
StartFromLibrary(r, force) ==
    /\ Invoke(r, force)
    /\ LET found == ~force /\ tree[BuildKey(r)].install # Nil
       IN /\ pc' = CASE found -> "find" [] force -> "remove" [] OTHER -> "configure"
          /\ out' = IF found THEN "install" ELSE "none"
    /\ UNCHANGED <<tree, made, world>>

Start(r, force) ==
    /\ Invoke(r, force)
    /\ pc' = IF force THEN "remove" ELSE "configure"
    /\ UNCHANGED <<tree, out, made, world>>

(* Cargo skips the script: it has succeeded before, the variables it       *)
(* declared are the same, the checkout has not been edited since it was    *)
(* started, and the library is there.  What it printed then still stands.  *)
(* Cargo is free to run it all the same.                                   *)
Skip ==
    /\ pc = "idle"
    /\ builds < MaxBuilds
    /\ last # Nil
    /\ source[last.request.src].version = last.asked
    /\ tree[BuildKey(last.request)][last.out] # Nil
    /\ builds' = builds + 1
    /\ request' = last.request /\ forced' = last.forced
    /\ asked' = last.asked
    /\ out' = last.out /\ pc' = "link"
    /\ why' = "none"
    /\ UNCHANGED <<tree, last, noted, made, world>>

(* fs::remove_dir_all(&root).ok(): part by part, and a failure is ignored. *)
RemovePart(part) ==
    /\ pc = "remove"
    /\ Here[part] # Nil
    /\ Lose(BuildKey(request), {part})
    /\ UNCHANGED <<pc, out, last, noted, why, asking, world>>

(* Slip: only what is installed is removed.                                *)
RemovedInstalled ==
    /\ pc = "remove"
    /\ Here.install = Nil /\ Here.fallback = Nil
    /\ pc' = "configure"
    /\ UNCHANGED <<tree, out, last, noted, why, made, asking, world>>

Removed ==
    /\ pc = "remove"
    /\ Here = EmptyTree
    /\ pc' = "configure"
    /\ UNCHANGED <<tree, out, last, noted, why, made, asking, world>>

RemoveFails ==
    /\ pc = "remove"
    /\ Here # EmptyTree
    /\ kept' = (Here.archive # Nil)
    /\ pc' = "configure"
    /\ UNCHANGED <<tree, out, last, compiled, omitted, why, made, asking, world>>

(* cmake configures, unless the tree belongs to another generator or       *)
(* another checkout, which it refuses.                                     *)
Configured ==
    [generator |-> request.generator, src |-> request.src,
     config |-> request.config, rule |-> source[request.src].rule]

Refused ==
    /\ Here.cache # Nil
    /\ \/ Here.cache.generator # request.generator
       \/ Here.cache.src # request.src

Configure ==
    /\ pc = "configure"
    /\ ~Refused
    /\ Put("cache", Configured)
    /\ pc' = "build"
    /\ UNCHANGED <<out, last, noted, why, made, asking, world>>

ConfigureFails ==
    /\ pc = "configure"
    /\ Panic(IF Refused THEN "refused" ELSE "failed")
    /\ UNCHANGED <<tree, last, made, world>>

(* "cmake is left to work out what needs rebuilding": an archive of the    *)
(* checkout as it is, in this configuration, is left alone; any other is   *)
(* compiled anew.  CMakeLists.txt is read again if it has been edited.     *)
Wanted == [version |-> source[request.src].version, config |-> request.config]

Build ==
    /\ pc = "build"
    /\ LET compiles == Here.archive # Wanted
       IN /\ tree' = [tree EXCEPT ![BuildKey(request)] =
                        [@ EXCEPT !.archive = Wanted, !.cache = Configured]]
          /\ compiled' = compiles
          /\ made' = IF compiles THEN [made EXCEPT ![request] = Wanted.version]
                                 ELSE made
    /\ pc' = "install"
    /\ UNCHANGED <<out, last, omitted, kept, why, asking, world>>

BuildFails ==
    /\ pc = "build"
    /\ Panic("failed")
    /\ UNCHANGED <<tree, last, made, world>>

(* cmake --install succeeds, with the library or without one.              *)
InstallSucceeds(dir) ==
    /\ pc = "install"
    /\ Here.cache.rule # "fails"
    /\ IF Here.cache.rule = "static" THEN Put("install", Here.archive)
                                     ELSE UNCHANGED tree
    /\ omitted' = (Here.cache.rule = "none")
    /\ out' = dir
    /\ pc' = "find"
    /\ UNCHANGED <<last, compiled, kept, why, made, asking, world>>

(* Slip: the build directory is returned.                                  *)
InstallToBuild == InstallSucceeds("build")

Install == InstallSucceeds("install")

(* It fails, for want of a target or of space, before or after the library *)
(* is in place.                                                            *)
InstallFails ==
    /\ pc = "install"
    /\ \/ UNCHANGED tree
       \/ Here.cache.rule # "none" /\ Put("install", Here.archive)
    /\ pc' = "fallback"
    /\ UNCHANGED <<out, last, noted, why, made, asking, world>>

(* find_lib_in_build_tree: the archive is copied out of the build tree.    *)
Fallback ==
    /\ pc = "fallback"
    /\ Put("fallback", Here.archive)
    /\ out' = "fallback"
    /\ pc' = "find"
    /\ UNCHANGED <<last, noted, why, made, asking, world>>

FallbackFails ==
    /\ pc = "fallback"
    /\ Panic("failed")
    /\ UNCHANGED <<tree, last, made, world>>

(* main looks for the library where cmake_build says it is.                *)
Find ==
    /\ pc = "find"
    /\ IF FindLib(out) THEN pc' = "link" /\ UNCHANGED <<out, why, asking, noted>>
                       ELSE Panic("no_library")
    /\ UNCHANGED <<tree, last, made, world>>

(* The script has succeeded, and cargo links what it named.                *)
Link ==
    /\ pc = "link"
    /\ Over
    /\ last' = [request |-> request, forced |-> forced, out |-> out,
                asked |-> asked]
    /\ UNCHANGED <<tree, why, made, world>>

-----------------------------------------------------------------------------
(* The script is killed, during the compilation perhaps with the archive   *)
(* it was replacing gone.                                                  *)
Kill ==
    /\ pc \notin {"idle", "link"}
    /\ Over
    /\ \/ UNCHANGED <<tree, made>>
       \/ pc = "build" /\ Lose(BuildKey(request), {"archive"})
    /\ UNCHANGED <<last, why, world>>

(* The caller edits a checkout, perhaps its install rules.                 *)
Edit(s, rule) ==
    /\ edits < MaxEdits
    /\ edits' = edits + 1
    /\ source' = [source EXCEPT ![s] = [version |-> @.version + 1, rule |-> rule]]
    /\ UNCHANGED <<tree, pc, out, last, noted, why, made, asking,
                   evictions>>

(* Between builds the cache loses a part of a tree, or all of it           *)
(* (`cargo clean`, CI).                                                    *)
Evict(key, parts) ==
    /\ pc = "idle"
    /\ evictions < MaxEvictions
    /\ \E part \in parts : tree[key][part] # Nil
    /\ evictions' = evictions + 1
    /\ Lose(key, parts)
    /\ UNCHANGED <<source, edits, pc, out, last, noted, why, asking>>

Step ==
    \/ \E part \in Parts : RemovePart(part)
    \/ Removed \/ RemoveFails
    \/ Configure \/ ConfigureFails \/ Build \/ BuildFails
    \/ Install \/ InstallFails \/ Fallback \/ FallbackFails
    \/ Find \/ Link

(* No more builds are asked for (the bound MaxBuilds).                     *)
Done == pc = "idle" /\ builds = MaxBuilds /\ UNCHANGED vars

Next ==
    \/ \E r \in Requests, force \in BOOLEAN : Start(r, force)
    \/ Skip \/ Step \/ Kill
    \/ \E s \in Sources, rule \in Rules : Edit(s, rule)
    \/ \E key \in Keys, parts \in {{part} : part \in Parts} \cup {Parts} :
           Evict(key, parts)
    \/ Done

Spec == Init /\ [][Next]_vars

-----------------------------------------------------------------------------
(* Properties.                                                             *)

(* What is linked is the library that was asked for: of the configuration  *)
(* in force and of the checkout as it was when cargo was invoked, or       *)
(* newer, whatever earlier builds, killed builds and evictions left in the *)
(* tree, and also when cargo skips the script (build.rs:347).  Except      *)
(* where the checkout installs no library, see BuiltIsLinked.              *)
LinkedIsCurrent ==
    pc = "link" /\ ~omitted =>
        /\ Here[out] # Nil
        /\ Here[out].config = request.config
        /\ Here[out].version >= asked

(* README.md:90: REGOR_FORCE_REBUILD is to "force a source rebuild,        *)
(* ignoring the cache".  A forced run that gets to the end has compiled    *)
(* the library, also when the removal of the old tree has failed with a    *)
(* part of it left; unless the archive itself is among what was left, the  *)
(* failure being ignored, and is built upon (LinkedIsCurrent still holds). *)
ForcedIsFresh ==
    pc = "find" /\ forced /\ ~kept => compiled

(* build.rs:351: "Everything that would invalidate cmake's own state" is   *)
(* in the name of the directory: cmake never finds a tree it must refuse.  *)
ConfigureAccepted == why # "refused"

(* build.rs:453: "distinct configurations coexist instead of evicting each *)
(* other".  What was compiled for one request is still there, untouched,   *)
(* after any builds for others.                                            *)
ConfigurationsCoexist ==
    \A r \in Requests : made[r] # Nil =>
        tree[BuildKey(r)].archive = [version |-> made[r], config |-> r.config]

(* build.rs:412: "Not all cmake configs have install rules for the static  *)
(* target.  Fall back to finding the library in the build tree."  A script *)
(* whose cmake build has succeeded does not give up for want of a library. *)
BuiltIsLinked == why # "no_library"

-----------------------------------------------------------------------------
(* For the proofs: what the properties rest on.                            *)

(* A tree is of the generator and the checkout it is named after.          *)
KeyInv ==
    \A key \in Keys : tree[key].cache # Nil =>
        /\ tree[key].cache.generator = key[1]
        /\ tree[key].cache.src = key[3]

(* A removal that did not leave the archive has left nothing to link.      *)
ForcedInv ==
    forced /\ ~kept =>
        /\ pc \in {"configure", "build"} => Here.archive = Nil
        /\ pc \in {"install", "fallback", "find"} => compiled

(* A library fit for a request, when cargo was invoked at that version.    *)
Fit(library, r, version) ==
    /\ library # Nil
    /\ library.config = r.config
    /\ library.version >= version

(* The checkout is at the version asked for, or a later one.               *)
AskedInv == pc \notin {"idle", "link"} => asked <= source[request.src].version

(* From the compilation on there is a fit library in the build tree, and   *)
(* then where the script says it is.                                       *)
BuiltInv ==
    pc \in {"install", "fallback"} =>
        Here.cache # Nil /\ Fit(Here.archive, request, asked)
FoundInv == pc \in {"find", "link"} /\ ~omitted => Fit(Here[out], request, asked)

(* What cargo may skip the script for is still fit, if it is still there.  *)
StillFit(r, dir, version) ==
    \/ omitted
    \/ tree[BuildKey(r)][dir] = Nil
    \/ Fit(tree[BuildKey(r)][dir], r, version)
LastInv ==
    last # Nil => /\ pc \in {"idle", "link"}
                  /\ StillFit(last.request, last.out, last.asked)
=============================================================================
