-------------------------- MODULE SourceBuildProofs --------------------------
(***************************************************************************)
(* What a source build links, for any generators, configurations and       *)
(* checkouts and any number of builds, edits and losses from the cache.    *)
(***************************************************************************)
EXTENDS SourceBuild, TLAPS

(* The library a build is for is one, and a request that is made is one.   *)
LEMMA WantedFits ==
    ASSUME TypeOK, request \in Requests
    PROVE  /\ Wanted \in Libraries /\ Wanted # Nil
           /\ Configured \in Caches /\ Configured # Nil
           /\ BuildKey(request) \in Keys
BY NilAssumption DEF TypeOK, Wanted, Configured, Caches, Libraries, Requests,
   BuildKey, Keys

(* Two requests share a tree only if they are the same.                    *)
LEMMA KeysApart ==
    ASSUME NEW r \in Requests, NEW q \in Requests, BuildKey(r) = BuildKey(q)
    PROVE  r = q
BY DEF Requests, BuildKey

LEMMA BuildKeyIsKey == \A r \in Requests : BuildKey(r) \in Keys
BY DEF Requests, BuildKey, Keys

(* Writing one part of the tree in use, and losing parts of any tree.      *)
LEMMA PutPart ==
    ASSUME TypeOK, request \in Requests, NEW part \in Parts,
           NEW value \in MayHold(part), Put(part, value)
    PROVE  /\ tree' \in [Keys -> Trees]
           /\ tree'[BuildKey(request)][part] = value
           /\ \A key \in Keys, p \in Parts :
                 key # BuildKey(request) \/ p # part => tree'[key][p] = tree[key][p]
<1>1. BuildKey(request) \in Keys
  BY BuildKeyIsKey
<1>2. tree \in [Keys -> Trees]
  BY DEF TypeOK
<1>3. tree' = [tree EXCEPT ![BuildKey(request)] = [@ EXCEPT ![part] = value]]
  BY DEF Put
<1>4. [tree[BuildKey(request)] EXCEPT ![part] = value] \in Trees
  BY <1>1, <1>2 DEF Trees, MayHold
<1> QED
  BY <1>1, <1>2, <1>3, <1>4 DEF Trees

LEMMA LoseParts ==
    ASSUME TypeOK, NEW key \in Keys, NEW parts, Lose(key, parts)
    PROVE  /\ tree' \in [Keys -> Trees]
           /\ made' \in [Requests -> 0..MaxEdits \cup {Nil}]
           /\ \A k \in Keys, p \in Parts :
                 tree'[k][p] = IF k = key /\ p \in parts THEN Nil ELSE tree[k][p]
<1>1. tree \in [Keys -> Trees] /\ made \in [Requests -> 0..MaxEdits \cup {Nil}]
  BY DEF TypeOK
<1>2. [p \in Parts |-> IF p \in parts THEN Nil ELSE tree[key][p]] \in Trees
  BY <1>1 DEF Trees, MayHold
<1> QED
  BY <1>1, <1>2 DEF Lose, Trees

-----------------------------------------------------------------------------
(* TypeOK, an action at a time.                                            *)

LEMMA TypeInit == Init => TypeOK
<1> SUFFICES ASSUME Init PROVE TypeOK
  OBVIOUS
<1>1. EmptyTree \in Trees
  BY DEF EmptyTree, Trees, MayHold
<1>2. {forced, compiled, omitted, kept} \subseteq BOOLEAN
  BY DEF Init
<1> QED
  BY <1>1, <1>2, BuildBounds DEF Init, TypeOK, PCs

LEMMA TypeStart ==
    ASSUME TypeOK, NEW r \in Requests, NEW force \in BOOLEAN, Start(r, force)
    PROVE  TypeOK'
<1>1. source[r.src].version \in 0..MaxEdits
  BY DEF TypeOK, Requests
<1>2. {forced', compiled', omitted', kept'} \subseteq BOOLEAN
  BY DEF Start, Invoke
<1> QED
  BY <1>1, <1>2, BuildBounds, NilAssumption DEF TypeOK, Start, Invoke, world, PCs

LEMMA TypeSkip == ASSUME TypeOK, Skip PROVE TypeOK'
<1>1. /\ last.request \in Requests /\ last.out \in Outs
      /\ last.forced \in BOOLEAN /\ last.asked \in 0..MaxEdits
  BY DEF TypeOK, Skip
<1>2. forced' \in BOOLEAN
  BY <1>1 DEF Skip
<1> QED
  BY <1>1, <1>2, BuildBounds, NilAssumption DEF TypeOK, Skip, noted, world, PCs, Outs

LEMMA TypeRemovePart ==
    ASSUME TypeOK, NEW part \in Parts, RemovePart(part)
    PROVE  TypeOK'
<1>1. BuildKey(request) \in Keys
  BY BuildKeyIsKey DEF TypeOK, RemovePart
<1>2. Lose(BuildKey(request), {part})
  BY DEF RemovePart
<1> QED
  BY <1>1, <1>2, LoseParts DEF TypeOK, RemovePart, asking, noted, world

LEMMA TypeRemoved == ASSUME TypeOK, Removed \/ RemoveFails PROVE TypeOK'
BY DEF TypeOK, Removed, RemoveFails, asking, noted, world, PCs

(* The end of a script.                                                    *)
OverOK ==
    /\ pc' \in PCs /\ out' \in Outs \cup {"none"}
    /\ request' \in Requests \cup {Nil} /\ asked' \in 0..MaxEdits
    /\ builds' \in 0..MaxBuilds
    /\ forced' \in BOOLEAN /\ compiled' \in BOOLEAN
    /\ omitted' \in BOOLEAN /\ kept' \in BOOLEAN
    /\ pc' = "idle" <=> request' = Nil
    /\ pc' \in {"find", "link"} <=> out' # "none"

LEMMA TypeOver == ASSUME TypeOK, Over PROVE OverOK
<1>1. forced' \in BOOLEAN /\ compiled' \in BOOLEAN /\ kept' \in BOOLEAN
  BY DEF Over
<1>2. omitted' \in BOOLEAN
  BY DEF TypeOK, Over
<1> QED
  BY <1>1, <1>2, BuildBounds DEF TypeOK, Over, OverOK, PCs

LEMMA TypePanic ==
    ASSUME TypeOK, NEW reason \in {"refused", "failed", "no_library"},
           Panic(reason), UNCHANGED <<tree, last, made, world>>
    PROVE  TypeOK'
<1>1. OverOK
  BY TypeOver DEF Panic
<1> QED
  BY <1>1 DEF OverOK, TypeOK, Panic, Over, world

LEMMA TypeConfigure == ASSUME TypeOK, Configure PROVE TypeOK'
<1>1. request \in Requests
  BY DEF TypeOK, Configure
<1>2. Configured \in MayHold("cache") /\ "cache" \in Parts
  BY <1>1, WantedFits DEF MayHold, Parts
<1>3. tree' \in [Keys -> Trees]
  BY <1>1, <1>2, PutPart DEF Configure
<1> QED
  BY <1>3 DEF TypeOK, Configure, asking, noted, world, PCs

LEMMA TypeConfigureFails == ASSUME TypeOK, ConfigureFails PROVE TypeOK'
BY TypePanic DEF ConfigureFails

(* What a compilation does to the tree.                                    *)
LEMMA BuildTree ==
    ASSUME TypeOK, Build
    PROVE  /\ request \in Requests /\ BuildKey(request) \in Keys
           /\ tree' \in [Keys -> Trees]
           /\ tree'[BuildKey(request)].archive = Wanted
           /\ tree'[BuildKey(request)].cache = Configured
           /\ \A key \in Keys, p \in Parts :
                 key # BuildKey(request) \/ p \notin {"archive", "cache"}
                    => tree'[key][p] = tree[key][p]
<1>1. request \in Requests
  BY DEF TypeOK, Build
<1>2. Wanted \in Libraries /\ Configured \in Caches /\ BuildKey(request) \in Keys
  BY <1>1, WantedFits
<1>3. tree \in [Keys -> Trees]
  BY DEF TypeOK
<1>4. [tree[BuildKey(request)] EXCEPT !.archive = Wanted, !.cache = Configured] \in Trees
  BY <1>2, <1>3 DEF Trees, MayHold, Parts
<1> QED
  BY <1>1, <1>2, <1>3, <1>4 DEF Build, Trees, Parts

LEMMA TypeBuild == ASSUME TypeOK, Build PROVE TypeOK'
<1>1. made' \in [Requests -> 0..MaxEdits \cup {Nil}]
  BY BuildTree, WantedFits DEF TypeOK, Build, Libraries
<1> QED
  BY <1>1, BuildTree DEF TypeOK, Build, asking, world, PCs

LEMMA TypeInstall == ASSUME TypeOK, Install PROVE TypeOK'
<1>1. request \in Requests /\ BuildKey(request) \in Keys
  BY BuildKeyIsKey DEF TypeOK, Install, InstallSucceeds
<1>2. Here.archive \in MayHold("install") /\ "install" \in Parts
  BY <1>1 DEF TypeOK, Here, Trees, MayHold, Parts
<1>3. tree' \in [Keys -> Trees]
  BY <1>1, <1>2, PutPart DEF TypeOK, Install, InstallSucceeds
<1> QED
  BY <1>3 DEF TypeOK, Install, InstallSucceeds, asking, world, PCs, Outs

LEMMA TypeInstallFails == ASSUME TypeOK, InstallFails PROVE TypeOK'
<1>1. request \in Requests /\ BuildKey(request) \in Keys
  BY BuildKeyIsKey DEF TypeOK, InstallFails
<1>2. Here.archive \in MayHold("install") /\ "install" \in Parts
  BY <1>1 DEF TypeOK, Here, Trees, MayHold, Parts
<1>3. tree' \in [Keys -> Trees]
  BY <1>1, <1>2, PutPart DEF TypeOK, InstallFails
<1> QED
  BY <1>3 DEF TypeOK, InstallFails, asking, noted, world, PCs

LEMMA TypeFallback == ASSUME TypeOK, Fallback PROVE TypeOK'
<1>1. request \in Requests /\ BuildKey(request) \in Keys
  BY BuildKeyIsKey DEF TypeOK, Fallback
<1>2. Here.archive \in MayHold("fallback") /\ "fallback" \in Parts
  BY <1>1 DEF TypeOK, Here, Trees, MayHold, Parts
<1>3. tree' \in [Keys -> Trees]
  BY <1>1, <1>2, PutPart DEF Fallback
<1> QED
  BY <1>3 DEF TypeOK, Fallback, asking, noted, world, PCs, Outs

LEMMA TypeFails ==
    ASSUME TypeOK, BuildFails \/ FallbackFails
    PROVE  TypeOK'
BY TypePanic DEF BuildFails, FallbackFails

LEMMA TypeFind == ASSUME TypeOK, Find PROVE TypeOK'
<1>1. CASE FindLib(out)
  BY <1>1 DEF TypeOK, Find, asking, noted, world, PCs
<1>2. CASE ~FindLib(out)
  BY <1>2, TypePanic DEF Find
<1> QED
  BY <1>1, <1>2

LEMMA TypeLink == ASSUME TypeOK, Link PROVE TypeOK'
<1>1. OverOK
  BY TypeOver DEF Link
<1>2. last' \in [request : Requests, forced : BOOLEAN, out : Outs, asked : 0..MaxEdits]
  BY DEF TypeOK, Link, Outs
<1> QED
  BY <1>1, <1>2 DEF OverOK, TypeOK, Link, world

LEMMA TypeKill == ASSUME TypeOK, Kill PROVE TypeOK'
<1>1. BuildKey(request) \in Keys
  BY BuildKeyIsKey DEF TypeOK, Kill
<1>2. /\ tree' \in [Keys -> Trees]
      /\ made' \in [Requests -> 0..MaxEdits \cup {Nil}]
  BY <1>1, LoseParts DEF TypeOK, Kill
<1>3. OverOK
  BY TypeOver DEF Kill
<1> QED
  BY <1>2, <1>3 DEF OverOK, TypeOK, Kill, world

LEMMA TypeEdit ==
    ASSUME TypeOK, NEW s \in Sources, NEW rule \in Rules, Edit(s, rule)
    PROVE  TypeOK'
<1>1. source' \in [Sources -> [version : 0..MaxEdits, rule : Rules]]
  BY BuildBounds DEF TypeOK, Edit
<1> QED
  BY <1>1, BuildBounds DEF TypeOK, Edit, asking, noted

LEMMA TypeEvict ==
    ASSUME TypeOK, NEW key \in Keys, NEW parts, Evict(key, parts)
    PROVE  TypeOK'
<1>1. /\ tree' \in [Keys -> Trees]
      /\ made' \in [Requests -> 0..MaxEdits \cup {Nil}]
  BY LoseParts DEF Evict
<1> QED
  BY <1>1, BuildBounds DEF TypeOK, Evict, asking, noted

-----------------------------------------------------------------------------
(* The other invariants, an invariant at a time.                           *)

(* What a step may do to the trees.                                        *)
LEMMA TreeStep ==
    ASSUME TypeOK, Next
    PROVE  \/ UNCHANGED tree
           \/ \E key \in Keys : \E parts : Lose(key, parts)
           \/ request \in Requests /\ \E value \in MayHold("install") : Put("install", value)
           \/ request \in Requests /\ \E value \in MayHold("fallback") : Put("fallback", value)
           \/ Configure \/ Build
<1>1. pc # "idle" => request \in Requests /\ BuildKey(request) \in Keys
  BY BuildKeyIsKey DEF TypeOK
<1>2. pc # "idle" => /\ Here.archive \in MayHold("install")
                     /\ Here.archive \in MayHold("fallback")
  BY <1>1 DEF TypeOK, Here, Trees, MayHold, Parts
<1>3. ASSUME NEW part \in Parts, RemovePart(part)
      PROVE  \E key \in Keys : \E parts : Lose(key, parts)
  BY <1>1, <1>3 DEF RemovePart
<1>4. ASSUME Kill
      PROVE  UNCHANGED tree \/ \E key \in Keys : \E parts : Lose(key, parts)
  BY <1>1, <1>4 DEF Kill
<1>5. ASSUME NEW key \in Keys, NEW parts, Evict(key, parts)
      PROVE  \E k \in Keys : \E lost : Lose(k, lost)
  BY <1>5 DEF Evict
<1>6. ASSUME Install
      PROVE  \/ UNCHANGED tree
             \/ request \in Requests /\ \E value \in MayHold("install") : Put("install", value)
  BY <1>1, <1>2, <1>6 DEF Install, InstallSucceeds
<1>7. ASSUME InstallFails
      PROVE  \/ UNCHANGED tree
             \/ request \in Requests /\ \E value \in MayHold("install") : Put("install", value)
  BY <1>1, <1>2, <1>7 DEF InstallFails
<1>8. ASSUME Fallback
      PROVE  request \in Requests /\ \E value \in MayHold("fallback") : Put("fallback", value)
  BY <1>1, <1>2, <1>8 DEF Fallback
<1>9. ASSUME NEW r \in Requests, NEW force \in BOOLEAN, Start(r, force)
      PROVE  UNCHANGED tree
  BY <1>9 DEF Start
<1>10. ASSUME NEW s \in Sources, NEW rule \in Rules, Edit(s, rule)
      PROVE  UNCHANGED tree
  BY <1>10 DEF Edit
<1>11. Skip \/ Removed \/ RemoveFails \/ ConfigureFails \/ BuildFails
         \/ FallbackFails \/ Find \/ Link \/ Done => UNCHANGED tree
  BY DEF Skip, Removed, RemoveFails, ConfigureFails, BuildFails,
     FallbackFails, Find, Link, Done, vars
<1> QED
  BY <1>3, <1>4, <1>5, <1>6, <1>7, <1>8, <1>9, <1>10, <1>11 DEF Next, Step

LEMMA TypeStep == ASSUME TypeOK, [Next]_vars PROVE TypeOK'
<1>1. CASE UNCHANGED vars
  BY <1>1 DEF TypeOK, vars
<1>2. Done => UNCHANGED vars
  BY DEF Done
<1> QED
  BY <1>1, <1>2, TypeStart, TypeSkip, TypeRemovePart, TypeRemoved, TypeConfigure,
     TypeConfigureFails, TypeBuild, TypeInstall, TypeInstallFails, TypeFallback,
     TypeFails, TypeFind, TypeLink, TypeKill, TypeEdit, TypeEvict
     DEF Next, Step

(* Only a configuration for its own key writes cmake's state of a tree.    *)
LEMMA KeyStep ==
    ASSUME TypeOK, KeyInv, [Next]_vars
    PROVE  KeyInv'
<1>1. CASE UNCHANGED tree
  BY <1>1 DEF KeyInv
<1>2. ASSUME NEW key \in Keys, NEW parts, Lose(key, parts)
      PROVE  KeyInv'
  <2>1. \A k \in Keys : tree'[k].cache \in {Nil, tree[k].cache}
    BY <1>2, LoseParts DEF Parts
  <2> QED
    BY <2>1 DEF KeyInv
<1>3. ASSUME request \in Requests, NEW part \in {"install", "fallback"},
             NEW value \in MayHold(part), Put(part, value)
      PROVE  KeyInv'
  <2>1. \A k \in Keys : tree'[k].cache = tree[k].cache
    BY <1>3, PutPart DEF Parts
  <2> QED
    BY <2>1 DEF KeyInv
<1>4. ASSUME request \in Requests, NEW k \in Keys,
             k = BuildKey(request) => tree'[k].cache = Configured,
             k # BuildKey(request) => tree'[k].cache = tree[k].cache,
             tree'[k].cache # Nil
      PROVE  tree'[k].cache.generator = k[1] /\ tree'[k].cache.src = k[3]
  BY <1>4 DEF KeyInv, Configured, BuildKey, Keys, Requests
<1>5. CASE Configure
  <2>1. request \in Requests
    BY <1>5 DEF TypeOK, Configure
  <2>2. Configured \in MayHold("cache")
    BY <2>1, WantedFits DEF MayHold
  <2> QED
    BY <1>4, <1>5, <2>1, <2>2, PutPart DEF KeyInv, Configure, Parts
<1>6. CASE Build
  BY <1>4, <1>6, BuildTree DEF KeyInv, Parts
<1> QED
  BY <1>1, <1>2, <1>3, <1>5, <1>6, TreeStep DEF vars

(* What was made is lost only with its archive, and made by a compilation. *)
LEMMA MadeStep ==
    ASSUME TypeOK, Next
    PROVE  UNCHANGED made \/ Build \/ \E key \in Keys : \E parts : Lose(key, parts)
<1>1. pc # "idle" => BuildKey(request) \in Keys
  BY BuildKeyIsKey DEF TypeOK
<1>2. ASSUME NEW part \in Parts, RemovePart(part)
      PROVE  \E key \in Keys : \E parts : Lose(key, parts)
  BY <1>1, <1>2 DEF RemovePart
<1>3. ASSUME Kill
      PROVE  UNCHANGED made \/ \E key \in Keys : \E parts : Lose(key, parts)
  BY <1>1, <1>3 DEF Kill
<1>4. ASSUME NEW key \in Keys, NEW parts, Evict(key, parts)
      PROVE  \E k \in Keys : \E lost : Lose(k, lost)
  BY <1>4 DEF Evict
<1>5. ASSUME NEW r \in Requests, NEW force \in BOOLEAN, Start(r, force)
      PROVE  UNCHANGED made
  BY <1>5 DEF Start
<1>6. ASSUME NEW s \in Sources, NEW rule \in Rules, Edit(s, rule)
      PROVE  UNCHANGED made
  BY <1>6 DEF Edit
<1>7. Skip \/ Removed \/ RemoveFails \/ Configure \/ ConfigureFails \/ BuildFails
         \/ Install \/ InstallFails \/ Fallback \/ FallbackFails \/ Find \/ Link
         \/ Done => UNCHANGED made
  BY DEF Skip, Removed, RemoveFails, Configure, ConfigureFails, BuildFails, Install,
     InstallSucceeds, InstallFails, Fallback, FallbackFails, Find, Link, Done, vars
<1> QED
  BY <1>2, <1>3, <1>4, <1>5, <1>6, <1>7 DEF Next, Step

(* Only a compilation for a request touches the archive made for it.       *)
LEMMA CoexistStep ==
    ASSUME TypeOK, ConfigurationsCoexist, [Next]_vars
    PROVE  ConfigurationsCoexist'
<1>1. ASSUME NEW key \in Keys, NEW parts, Lose(key, parts)
      PROVE  ConfigurationsCoexist'
  <2> SUFFICES ASSUME NEW r \in Requests, made'[r] # Nil
               PROVE  tree'[BuildKey(r)].archive =
                         [version |-> made'[r], config |-> r.config]
    BY DEF ConfigurationsCoexist
  <2>1. made'[r] = made[r] /\ ~(BuildKey(r) = key /\ "archive" \in parts)
    BY <1>1 DEF Lose
  <2>2. tree'[BuildKey(r)].archive = tree[BuildKey(r)].archive
    BY <1>1, <2>1, LoseParts, BuildKeyIsKey DEF Parts
  <2> QED
    BY <2>1, <2>2 DEF ConfigurationsCoexist
<1>2. CASE Build
  <2> SUFFICES ASSUME NEW r \in Requests, made'[r] # Nil
               PROVE  tree'[BuildKey(r)].archive =
                         [version |-> made'[r], config |-> r.config]
    BY DEF ConfigurationsCoexist
  <2>1. request \in Requests /\ made \in [Requests -> 0..MaxEdits \cup {Nil}]
    BY <1>2, BuildTree DEF TypeOK
  <2>2. CASE r = request /\ Here.archive # Wanted
    <3>1. made'[r] = Wanted.version
      BY <1>2, <2>1, <2>2 DEF Build
    <3>2. tree'[BuildKey(r)].archive = Wanted
      BY <1>2, <2>2, BuildTree
    <3> QED
      BY <2>2, <3>1, <3>2 DEF Wanted
  <2>3. CASE r = request /\ Here.archive = Wanted
    <3>1. made'[r] = made[r]
      BY <1>2, <2>3 DEF Build
    <3>2. tree'[BuildKey(r)].archive = tree[BuildKey(r)].archive
      BY <1>2, <2>3, BuildTree DEF Here
    <3> QED
      BY <3>1, <3>2 DEF ConfigurationsCoexist
  <2>4. CASE r # request
    <3>1. made'[r] = made[r]
      BY <1>2, <2>1, <2>4 DEF Build
    <3>2. tree'[BuildKey(r)].archive = tree[BuildKey(r)].archive
      BY <1>2, <2>1, <2>4, BuildTree, BuildKeyIsKey, KeysApart DEF Parts
    <3> QED
      BY <3>1, <3>2 DEF ConfigurationsCoexist
  <2> QED
    BY <2>2, <2>3, <2>4
<1>3. ASSUME \A k \in Keys : tree'[k].archive = tree[k].archive, UNCHANGED made
      PROVE  ConfigurationsCoexist'
  BY <1>3, BuildKeyIsKey DEF ConfigurationsCoexist
<1>4. ASSUME request \in Requests, NEW part \in Parts \ {"archive"},
             NEW value \in MayHold(part), Put(part, value)
      PROVE  \A k \in Keys : tree'[k].archive = tree[k].archive
  BY <1>4, PutPart DEF Parts
<1>5. Configure => /\ request \in Requests /\ Configured \in MayHold("cache")
                   /\ Put("cache", Configured)
  BY WantedFits DEF TypeOK, Configure, MayHold
<1> QED
  BY <1>1, <1>2, <1>3, <1>4, <1>5, TreeStep, MadeStep DEF vars, Parts

(* Where the removal has not left the archive, the build must compile.     *)
LEMMA ForcedStep ==
    ASSUME TypeOK, ForcedInv, [Next]_vars
    PROVE  ForcedInv'
<1>1. ASSUME NEW r \in Requests, NEW force \in BOOLEAN, Start(r, force)
      PROVE  ForcedInv'
  BY <1>1 DEF ForcedInv, Start, Invoke
<1>2. ASSUME NEW part \in Parts, RemovePart(part)
      PROVE  ForcedInv'
  BY <1>2 DEF ForcedInv, RemovePart
<1>3. CASE Removed
  BY <1>3 DEF ForcedInv, Removed, EmptyTree, Here, Parts, asking, noted
<1>4. CASE Configure
  <2>1. Here'.archive = Here.archive
    BY <1>4, PutPart, WantedFits, BuildKeyIsKey
       DEF TypeOK, Configure, MayHold, Parts, Here, asking
  <2> QED
    BY <1>4, <2>1 DEF ForcedInv, Configure, asking, noted
<1>5. CASE Build
  <2>1. forced /\ ~kept => Here.archive # Wanted
    BY <1>5, BuildTree, WantedFits DEF ForcedInv, Build
  <2> QED
    BY <1>5, <2>1 DEF ForcedInv, Build, asking
<1>6. CASE Install \/ InstallFails \/ Fallback
  BY <1>6 DEF ForcedInv, Install, InstallSucceeds, InstallFails, Fallback, asking, noted
<1>7. CASE \/ Skip \/ ConfigureFails \/ BuildFails \/ FallbackFails
           \/ Find \/ Link \/ Kill
  BY <1>7 DEF ForcedInv, Skip, ConfigureFails, BuildFails, FallbackFails,
     Find, Link, Kill, Panic, Over
<1>8. ASSUME NEW s \in Sources, NEW rule \in Rules, Edit(s, rule)
      PROVE  ForcedInv'
  BY <1>8 DEF ForcedInv, Edit, Here, asking, noted
<1>9. ASSUME NEW key \in Keys, NEW parts, Evict(key, parts)
      PROVE  ForcedInv'
  BY <1>9 DEF ForcedInv, Evict
<1>10. CASE Done \/ UNCHANGED vars
  BY <1>10 DEF ForcedInv, Done, vars, Here
<1>11. CASE RemoveFails
  BY <1>11 DEF ForcedInv, RemoveFails, Here, asking
<1> QED
  BY <1>1, <1>2, <1>3, <1>4, <1>5, <1>6, <1>7, <1>8, <1>9, <1>10, <1>11
     DEF Next, Step

(* Versions only grow, and nobody but Start and Skip asks.                 *)
LEMMA AskedStep ==
    ASSUME TypeOK, AskedInv, [Next]_vars
    PROVE  AskedInv'
<1>1. ASSUME NEW r \in Requests, NEW force \in BOOLEAN, Start(r, force)
      PROVE  AskedInv'
  BY <1>1 DEF TypeOK, AskedInv, Start, Invoke, world, Requests
<1>2. ASSUME NEW s \in Sources, NEW rule \in Rules, Edit(s, rule)
      PROVE  AskedInv'
  <2>1. pc # "idle" => request.src \in Sources /\ asked \in Nat
    BY BuildBounds DEF TypeOK, Requests
  <2>2. \A q \in Sources : source[q].version \in Nat /\ source'[q].version \in Nat
                           /\ source'[q].version >= source[q].version
    BY <1>2, BuildBounds DEF TypeOK, Edit
  <2> QED
    BY <1>2, <2>1, <2>2 DEF AskedInv, Edit, asking
<1>3. ASSUME pc \notin {"idle", "link"} \/ pc' \in {"idle", "link"},
             UNCHANGED <<source, request, asked>> \/ pc' \in {"idle", "link"}
      PROVE  AskedInv'
  BY <1>3 DEF AskedInv
<1>4. ASSUME NEW part \in Parts, RemovePart(part)
      PROVE  AskedInv'
  BY <1>3, <1>4 DEF RemovePart, asking, world
<1>5. ASSUME NEW key \in Keys, NEW parts, Evict(key, parts)
      PROVE  AskedInv'
  BY <1>3, <1>5 DEF Evict
<1>6. CASE \/ Removed \/ RemoveFails \/ Configure \/ Build \/ Install
           \/ InstallFails \/ Fallback
  BY <1>3, <1>6 DEF Removed, RemoveFails, Configure, Build, Install,
     InstallSucceeds, InstallFails, Fallback, asking, world
<1>7. CASE \/ Skip \/ ConfigureFails \/ BuildFails \/ FallbackFails \/ Find
           \/ Link \/ Kill
  BY <1>3, <1>7 DEF Skip, ConfigureFails, BuildFails, FallbackFails, Find, Link,
     Kill, Panic, Over
<1>8. CASE Done \/ UNCHANGED vars
  BY <1>8 DEF AskedInv, Done, vars
<1> QED
  BY <1>1, <1>2, <1>4, <1>5, <1>6, <1>7, <1>8 DEF Next, Step

(* What is compiled is what is wanted, and stays while it is installed.    *)
LEMMA BuiltStep ==
    ASSUME TypeOK, AskedInv, BuiltInv, [Next]_vars
    PROVE  BuiltInv'
<1>1. CASE Build
  <2>1. request \in Requests /\ Here'.archive = Wanted /\ Here'.cache # Nil
    BY <1>1, BuildTree, WantedFits DEF Build, asking, Here
  <2>2. Fit(Wanted, request, asked)
    BY <1>1, <2>1, WantedFits, BuildBounds
       DEF AskedInv, Build, Fit, Wanted, TypeOK, Requests
  <2> QED
    BY <1>1, <2>1, <2>2 DEF BuiltInv, Build, asking
<1>2. CASE InstallFails
  <2>1. Here'.archive = Here.archive /\ Here'.cache = Here.cache
    <3>1. request \in Requests /\ BuildKey(request) \in Keys
      BY <1>2, BuildKeyIsKey DEF TypeOK, InstallFails
    <3>2. Here.archive \in MayHold("install")
      BY <3>1 DEF TypeOK, Here, Trees, MayHold, Parts
    <3> QED
      BY <1>2, <3>1, <3>2, PutPart DEF InstallFails, Here, asking, Parts
  <2> QED
    BY <1>2, <2>1 DEF BuiltInv, InstallFails, asking
<1>3. ASSUME pc' \notin {"install", "fallback"} PROVE BuiltInv'
  BY <1>3 DEF BuiltInv
<1>4. ASSUME NEW r \in Requests, NEW force \in BOOLEAN, Start(r, force)
      PROVE  BuiltInv'
  BY <1>3, <1>4 DEF Start
<1>5. ASSUME NEW s \in Sources, NEW rule \in Rules, Edit(s, rule)
      PROVE  BuiltInv'
  BY <1>5 DEF BuiltInv, Edit, Here, asking
<1>6. ASSUME NEW part \in Parts, RemovePart(part)
      PROVE  BuiltInv'
  BY <1>3, <1>6 DEF RemovePart
<1>7. ASSUME NEW key \in Keys, NEW parts, Evict(key, parts)
      PROVE  BuiltInv'
  BY <1>3, <1>7 DEF Evict
<1>8. CASE \/ Removed \/ RemoveFails \/ Configure \/ Install \/ Fallback
           \/ Skip \/ ConfigureFails \/ BuildFails \/ FallbackFails \/ Find
           \/ Link \/ Kill
  BY <1>3, <1>8 DEF Removed, RemoveFails, Configure, Install, InstallSucceeds,
     Fallback, Skip, ConfigureFails, BuildFails, FallbackFails, Find, Link,
     Kill, Panic, Over
<1>9. CASE Done \/ UNCHANGED vars
  BY <1>9 DEF BuiltInv, Done, vars, Here
<1> QED
  BY <1>1, <1>2, <1>4, <1>5, <1>6, <1>7, <1>8, <1>9 DEF Next, Step

(* The library installed, or copied out, is the one compiled; what cargo   *)
(* skips the script for was found by an earlier run.                       *)
LEMMA FoundStep ==
    ASSUME TypeOK, BuiltInv, FoundInv, LastInv, [Next]_vars
    PROVE  FoundInv'
<1>1. CASE Install
  <2>1. request \in Requests /\ BuildKey(request) \in Keys
    BY <1>1, BuildKeyIsKey DEF TypeOK, Install, InstallSucceeds
  <2>2. Here.archive \in MayHold("install")
    BY <2>1 DEF TypeOK, Here, Trees, MayHold, Parts
  <2>3. Here.cache.rule \in Rules
    BY <1>1, <2>1 DEF BuiltInv, Install, InstallSucceeds, Here, Parts, TypeOK, Trees,
       MayHold, Caches
  <2>4. ~omitted' => Here'.install = Here.archive
    BY <1>1, <2>1, <2>2, <2>3, PutPart DEF Install, InstallSucceeds, Here, asking,
       Rules, Parts
  <2> QED
    BY <1>1, <2>4 DEF BuiltInv, FoundInv, Install, InstallSucceeds, asking
<1>2. CASE Fallback
  <2>1. request \in Requests /\ BuildKey(request) \in Keys
    BY <1>2, BuildKeyIsKey DEF TypeOK, Fallback
  <2>2. Here.archive \in MayHold("fallback")
    BY <2>1 DEF TypeOK, Here, Trees, MayHold, Parts
  <2>3. Here'.fallback = Here.archive
    BY <1>2, <2>1, <2>2, PutPart DEF Fallback, Here, asking, Parts
  <2> QED
    BY <1>2, <2>3 DEF BuiltInv, FoundInv, Fallback, asking
<1>3. CASE Skip
  BY <1>3 DEF FoundInv, LastInv, StillFit, Skip, Here, noted
<1>4. CASE Find
  BY <1>4 DEF FoundInv, Find, Here, asking, noted, Panic, Over
<1>5. ASSUME pc' \notin {"find", "link"} PROVE FoundInv'
  BY <1>5 DEF FoundInv
<1>6. ASSUME NEW r \in Requests, NEW force \in BOOLEAN, Start(r, force)
      PROVE  FoundInv'
  BY <1>5, <1>6 DEF Start
<1>7. ASSUME NEW s \in Sources, NEW rule \in Rules, Edit(s, rule)
      PROVE  FoundInv'
  BY <1>7 DEF FoundInv, Edit, Here, asking, noted
<1>8. ASSUME NEW part \in Parts, RemovePart(part)
      PROVE  FoundInv'
  BY <1>5, <1>8 DEF RemovePart
<1>9. ASSUME NEW key \in Keys, NEW parts, Evict(key, parts)
      PROVE  FoundInv'
  BY <1>5, <1>9 DEF Evict
<1>10. CASE \/ Removed \/ RemoveFails \/ Configure \/ Build \/ InstallFails
            \/ ConfigureFails \/ BuildFails \/ FallbackFails \/ Link \/ Kill
  BY <1>5, <1>10 DEF Removed, RemoveFails, Configure, Build, InstallFails,
     ConfigureFails, BuildFails, FallbackFails, Link, Kill, Panic, Over
<1>11. CASE Done \/ UNCHANGED vars
  BY <1>11 DEF FoundInv, Done, vars, Here
<1> QED
  BY <1>1, <1>2, <1>3, <1>4, <1>6, <1>7, <1>8, <1>9, <1>10, <1>11 DEF Next, Step

(* Between builds libraries are only lost.                                 *)
LEMMA LastStep ==
    ASSUME TypeOK, FoundInv, LastInv, [Next]_vars
    PROVE  LastInv'
<1>1. CASE Link
  BY <1>1 DEF FoundInv, LastInv, StillFit, Link, Here, Over
<1>2. ASSUME NEW key \in Keys, NEW parts, Evict(key, parts)
      PROVE  LastInv'
  <2> SUFFICES ASSUME last # Nil PROVE LastInv'
    BY <1>2 DEF LastInv, Evict
  <2>1. BuildKey(last.request) \in Keys /\ last.out \in Parts
    BY BuildKeyIsKey DEF TypeOK, Outs, Parts
  <2>2. tree'[BuildKey(last.request)][last.out]
           \in {Nil, tree[BuildKey(last.request)][last.out]}
    BY <1>2, <2>1, LoseParts DEF Evict
  <2> QED
    BY <1>2, <2>2 DEF LastInv, StillFit, Evict, noted
<1>3. CASE Skip
  BY <1>3 DEF LastInv, StillFit, Skip, noted
<1>4. ASSUME last' = Nil PROVE LastInv'
  BY <1>4 DEF LastInv
<1>5. ASSUME NEW r \in Requests, NEW force \in BOOLEAN, Start(r, force)
      PROVE  LastInv'
  BY <1>4, <1>5 DEF Start, Invoke
<1>6. ASSUME pc \notin {"idle", "link"}, UNCHANGED last PROVE LastInv'
  BY <1>6 DEF LastInv
<1>7. ASSUME NEW part \in Parts, RemovePart(part)
      PROVE  LastInv'
  BY <1>6, <1>7 DEF RemovePart
<1>8. ASSUME NEW s \in Sources, NEW rule \in Rules, Edit(s, rule)
      PROVE  LastInv'
  BY <1>8 DEF LastInv, StillFit, Edit, noted
<1>9. CASE \/ Removed \/ RemoveFails \/ Configure \/ Build \/ Install
           \/ InstallFails \/ Fallback \/ ConfigureFails \/ BuildFails
           \/ FallbackFails \/ Find \/ Kill
  BY <1>6, <1>9 DEF Removed, RemoveFails, Configure, Build, Install,
     InstallSucceeds, InstallFails, Fallback, ConfigureFails, BuildFails,
     FallbackFails, Find, Kill
<1>10. CASE Done \/ UNCHANGED vars
  BY <1>10 DEF LastInv, StillFit, Done, vars
<1> QED
  BY <1>1, <1>2, <1>3, <1>5, <1>7, <1>8, <1>9, <1>10 DEF Next, Step

-----------------------------------------------------------------------------
(* The theorems.                                                           *)

SourceInv == /\ TypeOK /\ KeyInv /\ ForcedInv /\ ConfigurationsCoexist
             /\ AskedInv /\ BuiltInv /\ FoundInv /\ LastInv

LEMMA SourceInvariant == Spec => []SourceInv
<1>1. Init => SourceInv
  <2> SUFFICES ASSUME Init PROVE SourceInv
    OBVIOUS
  <2>1. TypeOK
    BY TypeInit
  <2>2. \A key \in Keys : tree[key].cache = Nil
    BY DEF Init, EmptyTree, Parts
  <2> QED
    BY <2>1, <2>2 DEF Init, SourceInv, KeyInv, ForcedInv, ConfigurationsCoexist,
       AskedInv, BuiltInv, FoundInv, LastInv
<1>2. SourceInv /\ [Next]_vars => SourceInv'
  BY TypeStep, KeyStep, ForcedStep, CoexistStep, AskedStep, BuiltStep, FoundStep,
     LastStep DEF SourceInv
<1> QED
  BY <1>1, <1>2, PTL DEF Spec

(* build.rs:335: every variable keeps its type, through any kills, failures *)
(* and evictions.                                                           *)
THEOREM SourceTypeCorrect == Spec => []TypeOK
BY SourceInvariant, PTL DEF SourceInv

(* build.rs:351: cmake never finds a tree it must refuse, because the name  *)
(* of a tree says all that cmake cannot change in it.                       *)
THEOREM CmakeAccepts == Spec => []ConfigureAccepted
<1>1. Init => ConfigureAccepted
  BY DEF Init, ConfigureAccepted
<1>2. SourceInv /\ ConfigureAccepted /\ [Next]_vars => ConfigureAccepted'
  <2> SUFFICES ASSUME TypeOK, KeyInv, ConfigureAccepted, [Next]_vars
               PROVE  why' # "refused"
    BY DEF SourceInv, ConfigureAccepted
  <2>1. CASE ConfigureFails
    <3>1. request \in Requests /\ BuildKey(request) \in Keys
      BY <2>1, BuildKeyIsKey DEF TypeOK, ConfigureFails
    <3>2. ~Refused
      BY <3>1 DEF KeyInv, Refused, Here, BuildKey
    <3> QED
      BY <2>1, <3>2 DEF ConfigureFails, Panic
  <2>2. ASSUME why' \in {why, "none", "failed", "no_library"}
        PROVE  why' # "refused"
    BY <2>2 DEF ConfigureAccepted
  <2>3. ASSUME NEW r \in Requests, NEW force \in BOOLEAN, Start(r, force)
        PROVE  why' # "refused"
    BY <2>3 DEF Start, Invoke
  <2>4. ASSUME NEW part \in Parts, RemovePart(part)
        PROVE  why' # "refused"
    BY <2>2, <2>4 DEF RemovePart
  <2>5. ASSUME NEW s \in Sources, NEW rule \in Rules, Edit(s, rule)
        PROVE  why' # "refused"
    BY <2>2, <2>5 DEF Edit
  <2>6. ASSUME NEW key \in Keys, NEW parts, Evict(key, parts)
        PROVE  why' # "refused"
    BY <2>2, <2>6 DEF Evict
  <2>7. CASE \/ Skip \/ Removed \/ RemoveFails \/ Configure \/ Build \/ BuildFails
             \/ Install \/ InstallFails \/ Fallback \/ FallbackFails \/ Find
             \/ Link \/ Kill
    BY <2>2, <2>7 DEF Skip, Removed, RemoveFails, Configure, Build, BuildFails, Install,
       InstallSucceeds, InstallFails, Fallback, FallbackFails, Find, Link, Kill, Panic
  <2>8. CASE Done \/ UNCHANGED vars
    BY <2>2, <2>8 DEF Done, vars
  <2> QED
    BY <2>1, <2>3, <2>4, <2>5, <2>6, <2>7, <2>8 DEF Next, Step
<1> QED
  BY <1>1, <1>2, SourceInvariant, PTL DEF Spec

(* build.rs:453: what was compiled for one request is not touched by builds *)
(* for others, whatever else happens to them.                               *)
THEOREM ConfigurationsStay == Spec => []ConfigurationsCoexist
BY SourceInvariant, PTL DEF SourceInv

(* README.md:90: a forced build compiles, unless its removal left the       *)
(* archive of an earlier one.                                              *)
THEOREM ForcedRebuilds == Spec => []ForcedIsFresh
<1>1. SourceInv => ForcedIsFresh
  BY DEF SourceInv, ForcedInv, ForcedIsFresh
<1> QED
  BY <1>1, SourceInvariant, PTL

(* build.rs:335 and 347: what is linked is of the configuration asked for   *)
(* and at least as new as the checkout was when cargo was invoked.          *)
THEOREM LinksCurrent == Spec => []LinkedIsCurrent
<1>1. SourceInv => LinkedIsCurrent
  BY DEF SourceInv, FoundInv, Fit, LinkedIsCurrent
<1> QED
  BY <1>1, SourceInvariant, PTL
=============================================================================
