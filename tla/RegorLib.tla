------------------------------ MODULE RegorLib ------------------------------
(***************************************************************************)
(* The regor C library, as regor-sys declares it and as the Rust bindings  *)
(* use it.  It is external code: what is known of it here is the FFI of    *)
(* regor-sys/src/lib.rs, the patch regor-sys/patches/0001, the diff        *)
(* context of that patch, and what the bindings' comments rely on.         *)
(*                                                                         *)
(* The library owns a registry from context ids to C++ `Compiler` objects, *)
(* and for each object the configuration last applied to it and the        *)
(* argument its output writer will be called with.  It also owns the one   *)
(* log writer of the process.  None of it is guarded: every operator below *)
(* is one call, and the caller is responsible for being alone in here.     *)
(***************************************************************************)
EXTENDS Integers, FiniteSets

CONSTANTS
    Threads,        \* the threads of the process
    Docs,           \* configuration documents (system configs, option strings)
    Filters,        \* log filter masks
    Nil,            \* no document, no writer, no argument
    UserArg,        \* the opaque argument of a compile_with_writer caller
    MaxContexts,    \* bound: how many contexts are created in a run
    MonotonicIds    \* TRUE: patch 0001 applied (the published artifacts)

ASSUME NilAssumption ==
    /\ Nil \notin Docs
    /\ Nil \notin Filters
    /\ Nil \notin Threads
    /\ UserArg \notin Threads
    /\ UserArg # Nil

ASSUME BoundAssumption == MaxContexts \in Nat \ {0}

ASSUME PatchAssumption == MonotonicIds \in BOOLEAN

VARIABLES
    registry,   \* s_contextMap: context id -> C++ object, or NoContext
    created,    \* how many contexts regor_create has made (s_nextContextId)
    applied,    \* object -> the document of each kind that it was given
    arg,        \* object -> the argument of its output writer
    logFilter   \* the mask of the installed log writer; Nil: null writer

libVars == <<registry, created, applied, arg, logFilter>>

(* Ids and objects are both numbered; 0 is "no context", the value `ctx`   *)
(* starts from in Compiler::new and the code never gets from the library.  *)
Ids == 1..MaxContexts
NoContext == 0

Kinds == {"system_config", "options"}

Unconfigured == [k \in Kinds |-> Nil]

LiveIds == {i \in Ids : registry[i] # NoContext}

(* GetContext(ctx) finds an object.                                        *)
Found(id) == id \in LiveIds

LibTypeOK ==
    /\ registry \in [Ids -> Ids \cup {NoContext}]
    /\ created \in 0..MaxContexts
    /\ applied \in [Ids -> [Kinds -> Docs \cup {Nil}]]
    /\ arg \in [Ids -> Threads \cup {UserArg, Nil}]
    /\ logFilter \in Filters \cup {Nil}

LibInit ==
    /\ registry = [i \in Ids |-> NoContext]
    /\ created = 0
    /\ applied = [o \in Ids |-> Unconfigured]
    /\ arg = [o \in Ids |-> Nil]
    /\ logFilter = Nil

-----------------------------------------------------------------------------
(* Context ids.  Upstream takes the size of the map; the patch counts.     *)

(* Slip: the counter is advanced twice.                                    *)
PatchedIdTwice == created + 2

PatchedId  == created + 1
UpstreamId == Cardinality(LiveIds) + 1

NewId == IF MonotonicIds THEN PatchedId ELSE UpstreamId

(* regor_create, succeeding: s_contextMap[*ctx] = make_unique<Compiler>(). *)
(* The assignment replaces, and so destroys, whatever object was there.    *)
RegorCreate ==
    /\ created < MaxContexts
    /\ created' = created + 1
    /\ registry' = [registry EXCEPT ![NewId] = created + 1]
    /\ UNCHANGED <<applied, arg, logFilter>>

(* regor_destroy.  An unknown id is not an error: nothing is erased.       *)
RegorDestroy(id) ==
    /\ registry' = [i \in Ids |-> IF i = id THEN NoContext ELSE registry[i]]
    /\ applied' = [o \in Ids |-> IF Found(id) /\ o = registry[id]
                                 THEN Unconfigured ELSE applied[o]]
    /\ arg' = [o \in Ids |-> IF Found(id) /\ o = registry[id]
                             THEN Nil ELSE arg[o]]
    /\ UNCHANGED <<created, logFilter>>

-----------------------------------------------------------------------------
(* Calls on a context.                                                     *)

Configure(id, k, doc) ==
    applied' = [applied EXCEPT ![registry[id]] =
                    [@ EXCEPT ![k] = doc]]

(* regor_set_system_config / regor_set_compiler_options, accepting `doc`.  *)
RegorConfigure(id, k, doc) ==
    /\ Found(id)
    /\ Configure(id, k, doc)
    /\ UNCHANGED <<registry, created, arg, logFilter>>

(* The same, refusing it.  How much of a refused document has taken effect *)
(* by then is the library's affair: none of it or all of it.               *)
RegorRefuse(id, k, doc) ==
    /\ \/ Found(id) /\ Configure(id, k, doc)
       \/ UNCHANGED applied
    /\ UNCHANGED <<registry, created, arg, logFilter>>

(* regor_set_callback_arg; on an unknown id it reports a failure that the  *)
(* bindings do not look at.                                                *)
RegorSetCallbackArg(id, a) ==
    /\ arg' = [o \in Ids |-> IF Found(id) /\ o = registry[id]
                             THEN a ELSE arg[o]]
    /\ UNCHANGED <<registry, created, applied, logFilter>>

(* regor_set_logging_ex, accepting the writer.                             *)
RegorSetLogging(filter) ==
    /\ logFilter' = filter
    /\ UNCHANGED <<registry, created, applied, arg>>
=============================================================================
