# regor in TLA+

`regor` is a Rust binding of Arm's regor compiler, the C++ library that turns
TensorFlow Lite models into command streams for Ethos-U NPUs. This directory
models the binding in TLA+, model-checks it with TLC and proves the main safety
results with TLAPS. Paths in this file are relative to the repository.

The binding is small, and what can go wrong in it is not in any one function.
The library underneath is not safe to call from two threads, its context ids
have been reused while still in use, a diagnostics callback runs on whatever
thread compiles, and the library itself is fetched, verified and cached by a
build script that may be killed at any point. Those are the subjects here.

## Inventory

| Part | State | Operations | Talks to |
| --- | --- | --- | --- |
| Compiler (`regor/src/compiler.rs`) | the context id; a system configuration and options recorded but not pushed yet | `new`, `Drop`, `system_config` and `compiler_options` (with their `set_` aliases), `compile`, `compile_with_writer`, `get_output_blob`, `perf_report`, `tflite_constraints`, `reporting_interface`, `graph_builder` | FFI lock, library, log installation |
| FFI lock (`regor/src/sync.rs`) | one mutex for the process, possibly poisoned | `lock` | every entry point |
| Log installation (`regor/src/logging.rs`) | `INSTALL_STATE`: installed, explicit | `init`, `init_with_format`, `disable`, `ensure_installed` | takes the FFI lock while holding its own |
| Log writer (`regor/src/logging.rs`) | `LINE_BUFFER`, the unfinished line | `write_log`, called back by the library | the program's logger, which may panic |
| Error reading (`regor/src/error.rs`) | none | `check`, `check_global` | library, under its caller's lock |
| Output and Blob (`regor/src/output.rs`) | the bytes of a compilation; a pointer into a context | accessors | borrows the Compiler |
| Reports (`perf.rs`, `constraints.rs`) | none | conversions from C structures, one of which may panic | run with the lock held |
| Options (`regor/src/options.rs`) | the settings made so far | about 20 setters, `raw`, `build` | the document is recorded on a Compiler |
| System configuration (`options.rs`, `config.rs`) | accelerator, two names, a Vela ini | setters, `build` | as above |
| Library (`regor-sys/src/lib.rs`, `patches/`) | registry of contexts, what each was configured with, its callback argument; the log writer of the process | the C entry points | external code |
| Prebuilt artifacts (`regor-sys/build.rs`) | a cache directory, a staging directory | check, download, verify, unpack, publish | network, file system, other builds |
| Source builds (`regor-sys/build.rs`) | one tree in the cache per generator, configuration and checkout: cmake's state, the archive, two install directories; cargo's record of the last run | `build_key`, forced removal, configure, build, install or fall back, find, link; skipped by cargo when nothing it watches changed | cmake, cargo, a checkout somebody edits |

What is hard in it:

* Interleaving: every entry point must hold the lock for the whole of its use of
  the library, error text and report conversion included, and `Drop` may run
  anywhere. `install` holds a second lock around the first.
* Buffered configuration, pushed by the compile that uses it, one document at a
  time; either may be refused.
* Ids chosen by the library, from a counter (patched) or from the size of a map.
* A callback argument that points into the frame of a compile.
* An implicit installation of the log writer that races with an explicit one.
* Text that arrives in pieces, and a logger that may panic with a lock held.
* Crashes and evictions between the steps of publishing an artifact.
* Build trees that outlive the build that made them: what an earlier, killed,
  failed or evicted build left is what the next one starts from.

`PROJECT.json` lists each hazard at its line, with the properties that cover it
or the reason none does.

## Modules

* `RegorLib` is the C library as the binding can rely on it: `registry` from ids
  to objects, `applied` (the documents an object was given), `arg` (the argument
  of its output writer), `logFilter`. It is external. What it does is taken from
  the FFI declarations, from the patch and its diff context, and from comments
  of the binding. `MonotonicIds` says whether patch 0001 is applied. A refused
  document may have taken effect or not: the library promises neither.
* `RegorBindings` EXTENDS it with the threads of the program. A call is one
  `Call*` action, guarded by the borrow rules (`Exclusive` for `&mut self`,
  `Shared` for `&self`, nothing while a `Blob` borrows), and then the steps of
  its thread. There is a step for each point at which another thread may come
  in: taking a lock, each library call, each return. `pc` names the step.
  `ctx`, `pending` and `blob` are the fields of the Rust values, `ffiLock`,
  `poisoned`, `stateLock`, `installed` and `explicit` the statics, `buf` the
  local vector of `compile`. `object`, `wanted`, `refused`, `sent`, `chosen` and
  `turnedDown` are history variables; no action reads them.
* `LogWriter` is `write_log` on its own, because it uses nothing of the rest but
  the thread it runs on. A chunk is a sequence of byte classes; decoding,
  trimming and classifying are operators on them. Two threads may be in the
  writer even though the FFI lock makes that rare: the code does not rely on it.
* `RegorProcess` puts the two together: while a thread is inside a library call,
  and under a filter that lets something through, the library may call
  `write_log` on that thread. `pc` is where the thread is in the bindings,
  `writerPc` where it is in the writer; a thread moves in one of the two. What
  a thread writes while it holds the FFI lock once is a turn: `voice` is the turn
  each thread is in, `said` the turn of each character received. Both are
  history variables.
* `RegorService` is what the bindings promise, without ids, locks, callbacks or
  program counters: each Compiler owns a private engine, compilations run one at
  a time against the configuration they began with, what the engine makes is
  kept, and the process has one filter that a default never replaces.
* `RegorRefinement` maps `RegorBindings` to it. A Compiler is alive when the
  library finds its id; its engine is what the library has under that id; a job
  is a thread inside `regor_compile`. The locks, the lock order, the steps of an
  installation and the frames of `compile` are stuttering steps.
* `ArtifactCache` is `download_prebuilt` and the part of `main` around it. The
  two directories map files to absent, whole or being written by a given build.
  `remove_dir_all` and `unpack` are one step per file, `rename` is one step, which
  may fail whatever it finds. An eviction takes the library and any other files
  with it; one that keeps the library is not noticed by the code, which looks for
  nothing else, and is left out.
* `SourceBuild` is `cmake_build`, `find_lib_dir` after it, and the conditions
  under which cargo skips the script. A library is the version of the checkout
  and the configuration it was compiled from; its headers travel with it. What
  cmake and cargo do with what they find is external, modelled from what the
  script and its comments expect. The checkout may be edited at any moment, the
  script killed, a removal cut short and parts of a tree evicted.
* `IniDocument` has the lines of a configuration document and how they are read
  back. `OptionsDocument` and `SystemDocument` are the two builders, as machines
  whose actions are the setters and `build`; properties compare the document,
  read section by section, with the setter calls made.
* `MC*` give the constants values for TLC. `RegorBindingsProofs` (the bindings,
  their refinement of the service, and the process), `LogWriterProofs`,
  `OptionsDocumentProofs`, `SystemDocumentProofs`, `ArtifactCacheProofs` and
  `SourceBuildProofs` have the theorems. `SequenceLemmas` and `IniLemmas` have
  what they need to know of sequences and of reading a document.

Operators whose comment starts with "Slip" are not part of any specification.
Each is a plausible mistake in the action or operator below it, used to see that
a property notices it.

## Runs

| Run | Instance | Shows |
| --- | --- | --- |
| `safety` | 2 threads, 2 Compilers, 3 contexts, 2 documents, 2 filters, 2 chunks, 5 calls, library may refuse anything, the log writer included; about 180 000 states after symmetry | exclusion, intact handles, no leaked context, compilations use what was recorded and are not disturbed, whole output, no compilation without a writer unless one was refused, explicit filter wins; the bindings implement `RegorService` |
| `process` | bindings and writer composed: 2 threads, 1 Compiler, 2 contexts, 5 calls, 3 writes of part of a line or its end, 2 filters, logger may panic, log writer may be refused; about 1 300 000 states after symmetry | no call breaks into another's diagnostics; silence under `disable` |
| `returns` | the same with 4 calls, 2 writes of a whole line and fairness; about 96 000 states | every call returns, whatever the writer does in it |
| `log_writer` | 2 threads, 3 chunks out of 10, logger may panic | lines conserved, none held back, damage of a cut character confined, severity kept, the writer returns |
| `cache` | 1 build at a time, 5 runs, 3 files, 2 evictions | only whole artifacts are published and linked, leftovers are cleaned up, a run ends |
| `source` | 1 checkout, 2 generators, 2 configurations, 3 builds, 1 edit, 1 eviction; about 680 000 states after symmetry | what is linked is current and of the configuration asked for, also when cargo skips the script; forced builds compile; cmake accepts its tree; configurations coexist |
| `options` | 3 setter calls out of about 35, alignment 0 and softmax ranges between integers among them | the document says what was asked, nothing is dropped, refused iff invalid |
| `system` | 11 accelerators, 3 architectures, 2 names, 3 inis, one with a line before any header, any number of calls | the right accelerator is selected, sections read back |
| `unpatched` | `safety` with 1 document, 1 chunk and `MonotonicIds = FALSE` | handles do not stay intact |
| `shared` | 2 threads, 1 Compiler | two threads use one Compiler |
| `shared_cache` | 2 builds, 2 runs in all, 3 files | a partial artifact is published |
| `missing_rule` | as `source` | a checkout without an install rule for the static target: a build that succeeded panics for want of a library |

The last four find a disagreement between the code and what it says of itself;
`PROJECT.json` quotes the lines under "findings". Two of them deserve a word.
`unpatched` is an upstream bug the repository documents itself, and carries a
patch for; what is wrong is the unconditional comment in `compiler.rs`, since
builds from source are not patched. `shared` is harmless as long as the lock
holds (which is proved for any use, `&self` included), but the documentation
says in four places that `Compiler` is not `Sync`, and it is.

### Bounds

* Two threads: every property but `NoOrphanContext` speaks of at most two threads
  at a time (`OneVoice` of two turns), and a third can only wait for a lock.
* Two Compilers and three contexts: the shortest history in which ids collide is
  new, new, drop, new. Five calls leave one more to use the damaged handle.
  Recording a document is a call too: five are new, a refused document and a
  compile, then another document and a compile; or a document of each kind, one
  of them refused, and a second compile. `MaxContexts` also bounds `created`; a
  `new` beyond it can only fail.
* Two documents, so that one recorded over another is told from it; recording the
  same one after a refusal is included. Two chunks, so that a buffer is told from
  its last chunk.
* Two filters: the empty one of the implicit installation and another.
* Chunks: the ten of `MCLogWriter` are single and double newlines, a severity
  behind white space and brackets, its word in one piece or cut in two, and a
  two-byte character whole and cut before, after and at the end of a line.
* Five runs of a build: one leaves debris, one is interrupted while it cleans
  up, one succeeds, one finds the result or its eviction, one repairs it. Three
  files: the library, one unpacked before it, one after it.
* Three builds from source: one leaves a tree, one is killed or edited under,
  one starts from the result. Two checkouts are too many states; that the
  checkout is part of the name of the tree is covered by the proof.
* Three writes in `process`: part of a line, its end, and one that another
  thread could mix in. Five calls are two to make a Compiler and install a
  filter, and three that write or silence. In `returns` it does not matter where
  a line is cut, so a write is a line; two of them and four calls let a panicking
  logger, a poisoned lock and a refused writer meet in one behaviour.
* Three setters: no rule of `build` relates more than two options, and the third
  call replaces a value or is a `raw` one.

The `calls = MaxCalls` style of bound ends a behaviour; `Done` makes that end a
stutter, so that deadlock is checked everywhere.

### Fairness

`FairSpec` of `LogWriter` and of `ArtifactCache`, and `ProcessFairSpec` of
`RegorProcess`, have weak fairness of the steps of each thread inside a call (or
inside the writer, or of each build script), and none of the actions that start
something. They say that a thread which can go on does, that the library's calls
come back, and that the program's logger returns or panics. Weak fairness of a
thread waiting for a lock does not by itself give it the lock: a mutex of the
standard library is not fair. `EveryCallReturns` holds because the number of
calls is finite, so that the others run out; it excludes deadlock, self-deadlock
and lost unlocks, and says nothing of starvation under unbounded load.
In the process a thread may also be in the writer, whose mutex is taken with the
FFI lock held; the number of writes is finite as the library's diagnostics are.

In the passing runs of the bindings the library may refuse the log writer: the early
returns of `check_global` and the error that `ensure_installed` drops are taken,
and a report conversion may panic and poison the FFI lock, which the next caller
takes all the same (`sync.rs`). A refused writer leaves a null one, and a compile
may follow: the comment in `logging.rs` (line 157) expects that compile to report
it. `WriterInstalled` says that there is no other way to it.

## Proofs

### The bindings

`RegorBindingsProofs` proves, for any sets of threads, Compilers, documents and
filters and any bounds:

| Theorem | States |
| --- | --- |
| `Exclusion` | `Spec => []LibraryExclusive` |
| `TypeCorrect` | `MonotonicIds /\ Spec => []TypeOK` |
| `ExplicitWins` | `Spec => []ExplicitFilterSurvives` |
| `HandlesStayIntact` | `MonotonicIds /\ Spec => []HandlesIntact` |
| `NoContextLeaks` | `MonotonicIds /\ Spec => []NoOrphanContext` |
| `CompileSeesFrozenLibrary` | `Spec => LibraryFrozenInCompile` |
| `OutputComplete` | `MonotonicIds /\ Spec => []OutputWhole` |
| `CompileIsConfigured` | `MonotonicIds /\ Spec => []CompileUsesRecorded` |

The assumptions are the named ones of the two modules: sentinels are not
threads, documents or filters, and bounds are naturals. `MonotonicIds` is a
hypothesis where it is needed; the run `unpatched` shows that it is.

None of these properties is inductive. `LibraryExclusive` follows from `LockInv`:
a thread is between lock and unlock exactly when it holds the lock. That is
inductive by itself, and one lemma per group of actions (`Control*`) proves it.
The handles need more. That no other thread touches the context a thread is
using is not in the lock, which is released between calls, but in the borrow
rules: `BorrowInv` says that only shared queries meet on a Compiler, that a call
to `new` fills an empty place and that any other has a live Compiler lent to no
Blob. It needs `CallInv`, which ties a step to the call it belongs to. `IdInv` is
the heart of it: with a counter, the id of a context is the number of its
object, is at most `created`, belongs to one Compiler, and the registry is
exactly the contexts of the Compilers. `HandlesIntact` and `NoOrphanContext`
follow. `InstallInv` is separate: while a thread is about to install, it holds
`INSTALL_STATE` and its reading of the flags is still true.

A compile rests on both. `LibraryFrozenInCompile` needs only `LockInv`: whoever
changes the library holds the lock, and the compiling thread does. `OutputInv`
says whose frame the chunks are in and that the writer's argument points there;
`ConfigInv` says where each document is: pending, refused or applied to the
object, and that a fresh or destroyed object has none. Both need the lock, so
that no other thread is at a guarded place, and `IdInv`, so that two Compilers
never name one object; `ConfigInv` also needs the borrow rules, so that no
document is recorded on a Compiler in the middle of a compile.

`RegorBindings` ends with these conjuncts, so that TLC and the proofs use the
same text; so do the other modules that have proofs.

### The refinement

`ServiceImplemented`: `MonotonicIds /\ Spec => ImplementsService`. One lemma per group of steps says which step of the service
it is, or that the mapped state stays (`Mapped` rewrites the mapped values under
the invariants). `Quiet`, the guard of everything that changes an engine, is the
FFI lock seen from above (`QuietService`). `FilterInv` is new: a filter in the
library has been noted in `INSTALL_STATE`, or is about to be by the holder of
its mutex, so that an implicit installation finds none.

### The process

For any chunks and any number of writes too:

| Theorem | States |
| --- | --- |
| `WriterAlwaysInstalled` | `Spec => []WriterInstalled` |
| `ProcessIsBindings` | `ProcessSpec => Spec` |
| `ProcessIsWriter` | `ProcessSpec` takes only steps of `LogWriter` |
| `DiagnosticsNeverMix` | `ProcessSpec => []OneVoice` |
| `DisabledIsSilent` | `ProcessSpec => SilentWhenDisabled` |
| `ProcessLosesNoLine` | `ProcessSpec => [](LinesConserved /\ CaughtUp)` of the writer |
| `ProcessRecordsLines` | `ProcessSpec => [](RestReadable /\ SeverityKept)` of the writer |

The first rests on `UnloggedInv`: as long as the library has no writer the flags
say so, and unless one was refused there is no Compiler, and every call is still
on its way to installing a writer. The second
carries every theorem about the bindings over to the process. `InsideInv` ties
the two program counters together: a thread in the writer is at a place inside
the library, so it holds the FFI lock, so nobody else is at the place where the
filter changes. `OneVoice` follows from `TurnInv`: turns are numbered in the order
of the text, and whoever is in one holds the lock and is in the last, so that a
turn once left is not written in again. `LINE_BUFFER` outlives a turn: what a call
leaves unfinished begins the next call's first line, which `OneVoice` allows and
nothing else. `ProcessIsWriter` carries the theorems of `LogWriterProofs` over
(`WriterProofs == INSTANCE LogWriterProofs`); the `Same*` lemmas say that its
definitions and those of the instance in `RegorProcess` are the same.
`WriterAssumption` is what `LogWriter` assumes of the same constants.

### The log writer

`LogWriterProofs`, for any threads, any set of non-empty chunks of any length
and any number of writes, with a logger that may panic or not:

| Theorem | States |
| --- | --- |
| `WriterTypeCorrect` | `Spec => []TypeOK` |
| `LinesNotHeldBack` | `Spec => []CaughtUp` |
| `NoLineLost` | `Spec => []LinesConserved` |
| `RestStaysReadable` | `Spec => []RestReadable` |
| `SeverityAlwaysKept` | `Spec => []SeverityKept` |

`HolderInv` is the mutex of `LINE_BUFFER`: a thread is in the loop of
`write_log`, or in the logger, exactly while it holds it. So at most one line is
in flight, and `LinesConserved` is inductive next to it, given two facts about
the lines of a text. `MoreText`: what is appended adds the lines of the unfinished
rest with the new text behind it, and leaves the rest of that. `FirstLine`: what
`write_log` drains up to the first newline is the first line, or none if it is
blank.
`RestReadable` follows from decoding chunk by chunk: every byte gives its
character, nothing or a replacement (`RestOfDecode`), and dropping replacements
and pieces of characters commutes with concatenation (`RestConcat`).
`SeverityKept` needs `RecordInv` (a record is one line, at the level `classify`
gives it) and `ClassifyIs`, which describes `classify` without its two trims.
`WriterTypeCorrect` has to know that `classify` gives one of the levels whatever
it is given.

### The documents

`OptionsDocumentProofs`, for any set of setter calls, of raw keys and any number
of calls, and `SystemDocumentProofs`, for any names and Vela inis:

| Theorem | States |
| --- | --- |
| `OptionsTypeCorrect` | `Spec => []TypeOK` of `OptionsDocument` |
| `InvalidOptionsRefused` | `Spec => []RefusedIffInvalid` |
| `DocumentFaithful` | `Spec => []DocumentSaysWhatWasAsked` |
| `NothingDropped` | `Spec => []NothingIsDropped` |
| `SystemTypeCorrect` | `Spec => []TypeOK` of `SystemDocument` |
| `IniSectionsReadBack` | `Spec => []SectionsReadBack` |
| `DocumentSelectsAccelerator` | `Spec => []AcceleratorSelected` |

The inductive invariants, both named `IInv`, are short: the fields of the options
are what the calls made so far have set, and what `build` returned last is what
it makes of the calls made before it; the text of a system configuration is made
of the fields it was built from, and no call changes the accelerator. The work is
in what such a text reads as. `IniLemmas` has `ReadConcat`: two texts of which
the second starts with a header (or has no line) read, section by section, as
one after the other. `LineReads` and `SectionReads` do the parts. From there, in
the options, a section reads as its typed options followed by its raw calls
(`TextReads`, `ResultReads`), of the typed ones at most one has a given key in a
section because no two options of a section share a key (`KeysApart`), and what
is read of the features gives the set back (`FeaturesBack`). In the system
configuration, a text that begins without a header goes on with the section in
front of it (`BehindGrows`, `ReadBehind`), `[architecture]` is not among the ini's
own, and no two accelerators of an architecture have one MAC count
(`MacsTellApart`).

`SettingAssumption` gives the setters the types of their parameters: features
are flags of `SchedulerFeature`, operators strings, an alignment any natural
number, 0 included. A softmax range is NaN or a number counted in halves: `build`
compares it with 0 and 65535 only, and all fractions between two neighbouring
integers compare alike. `IniAssumption` is that an ini has no `[architecture]`
section and gives its keys values, as a Vela ini does; the code does not look at
it. It may begin with lines under no header. `SectionsReadBack` says what becomes
of them: they are read as the end of `[vela]`, behind the two names, and all else
reads as it does in the ini by itself.

### Induction

The library's induction theorems are not available to the provers used here, as
they take an operator. `SequenceLemmas` has induction over sets instead:
`NatSetInduction` says that a set with 0 and the successor of each of its numbers
has all numbers, `SeqSetInduction` the same of the sequences over a set. Both
rest on the least element of a set of numbers. From them follows what
`FlattenSeq` and `Gather` (what the elements of a sequence give, in order) do
with `\o`.

### Prebuilt artifacts and source builds

`ArtifactCacheProofs`, for any number of files, runs and evictions:

| Theorem | States |
| --- | --- |
| `CacheTypeCorrect` | `Spec => []TypeOK` |
| `PublishedStaysWhole` | `OneBuild /\ Spec => []PublishedIsWhole` |
| `LinkedStaysWhole` | `OneBuild /\ Spec => []LinkedIsWhole` |
| `LeftoversAlwaysHeal` | `OneBuild /\ Spec => []LeftoversHeal` |

`OneBuild` is cargo's lock on its target directory; the run `shared_cache` shows
that two scripts on one cache break the first. `StagingInv` says that what the
script has unpacked is whole but for the open file, `DirInv` that a run which
downloads finds no library until it publishes one, so that the removal of the
target can be cut short anywhere, `PlaceInv` that what `rename` needs is there.

`SourceBuildProofs`, for any checkouts, generators, configurations and bounds:

| Theorem | States |
| --- | --- |
| `SourceTypeCorrect` | `Spec => []TypeOK` |
| `CmakeAccepts` | `Spec => []ConfigureAccepted` |
| `ConfigurationsStay` | `Spec => []ConfigurationsCoexist` |
| `ForcedRebuilds` | `Spec => []ForcedIsFresh` |
| `LinksCurrent` | `Spec => []LinkedIsCurrent` |

`KeyInv` (a tree is of the generator and checkout it is named after) gives
`CmakeAccepts`. `ForcedInv` follows a forced removal through the build: what
`remove_dir_all` leaves when it fails (and `build.rs` ignores that it does) keeps
the build from compiling only if the archive is among it, which `kept` records.
Then `ForcedIsFresh` says nothing, and `LinkedIsCurrent` still does.
For `LinksCurrent`, `AskedInv` says that the checkout only moves forward,
`BuiltInv` that from the compilation on the archive is fit for the request,
`FoundInv` that the directory returned is, and `LastInv` that what cargo may
skip the script for is still fit, or is gone and will be missed.

### Only model-checked

Every invariant and every action property of the passing runs is a theorem. Left
to TLC are the three liveness properties, `EveryCallReturns`, `EveryWriteReturns`
and `EveryRunEnds`, as the prover has no rules for fairness and `ENABLED`, and
the four runs that show a property violated.

## Not modelled

* What cmake, a compiler and cargo do inside; the wording of link directives and
  which system libraries they name; headers apart from the library they belong
  to.
* Field by field copies of reports; the parts of the library's interface that the
  bindings do not call (`regor_free_data`, the IR blob).
* What a compilation computes, the contents of reports, messages and models, and
  the conversion of enumerations to C constants.
* Memory: reading a C string past its array, using a raw pointer after its
  Compiler is gone. The code relies on the library and on its caller there.
* A logger that calls back into the binding. `sync.rs` rules it out.
* Unsafe use of `compile_with_writer`: the caller's writer is assumed to keep
  its contract; its output goes where the binding does not look.
* `graph_builder` returns early on a name with a NUL, before it takes any lock;
  no state is involved.
* Formats (`LogFormat`, `InputFormat`) and the spelling of accelerators.
* Tests, examples, the Python reference, CI.

The comment of `regor_create` in `regor-sys/src/lib.rs` (line 203) says that 0 is
success; `error.rs` (line 50) and the patch agree that 0 is failure, and the
model follows them.

## Plan

Done, in this order: library and bindings, log writer, artifact cache,
documents, proofs of the safety properties of the bindings; then the abstract
service with its refinement and the proof of it, source builds, the bindings
and the writer in one process, and the proofs about the cache, source builds
and the process; then the lemmas on sequences and documents and the proofs about
the log writer, by itself and in the process, and both documents.

Next:

1. `LineLog`, an abstract writer: a queue of complete lines fed by a stream, and
   `LogWriter` shown and proved to implement it.
2. What a build from source and the cache promise together, as an abstract
   specification both implement.
3. The documents on the Compiler: a document refused by the library after the
   builder accepted it, and options replaced between compiles.
4. The report conversions, with the counts and names they trust the library for.
