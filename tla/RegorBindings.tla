---------------------------- MODULE RegorBindings ----------------------------
(***************************************************************************)
(* The safe Rust bindings of the crate `regor`: the Compiler values a      *)
(* program holds, the process-wide FFI lock (sync.rs), the installation of *)
(* the log writer (logging.rs) and every operation of compiler.rs, run by  *)
(* any number of threads over the unguarded library of RegorLib.           *)
(*                                                                         *)
(* An operation is a Call* action that starts it, followed by the steps of *)
(* its thread up to Return.  The borrow checker is part of the system: a   *)
(* `&mut self` method needs the Compiler to itself, a `&self` method may   *)
(* share it, and nothing may touch it while a Blob borrows it.             *)
(***************************************************************************)
EXTENDS RegorLib

CONSTANTS
    Compilers,      \* the program's variables of type Compiler
    EmptyFilter,    \* LogFilter::empty(), what ensure_installed asks for
    MaxChunks,      \* bound: output writer calls in one compilation
    MaxCalls,       \* bound: calls the program makes in a run
    LoggingMayFail  \* whether regor_set_logging_ex may refuse the writer

ASSUME FilterAssumption == EmptyFilter \in Filters

ASSUME CompilerAssumption == Nil \notin Compilers

ASSUME CallAssumption ==
    /\ MaxChunks \in Nat
    /\ MaxCalls \in Nat
    /\ LoggingMayFail \in BOOLEAN

VARIABLES
    ffiLock,    \* REGOR_LOCK: the thread holding it, or Nil
    poisoned,   \* whether a panic has unwound through a guard of REGOR_LOCK
    stateLock,  \* the mutex of INSTALL_STATE: its holder, or Nil
    installed,  \* InstallState.installed
    explicit,   \* InstallState.explicit
    ctx,        \* Compiler.ctx; NoContext: the variable holds no Compiler
    pending,    \* Compiler.pending_system_config and pending_options
    blob,       \* the object behind the Blob borrowed from it, or NoContext
    pc,         \* where each thread is
    call,       \* the call it is making
    buf,        \* chunks in the `buf` of the compile frame of each thread
    calls,      \* calls made so far (for the bound MaxCalls)
    \* History variables: nothing below is read by the code.
    object,     \* the object regor_create made for each Compiler
    wanted,     \* the document last recorded on each Compiler, of each kind
    refused,    \* whether the library refused the last one pushed
    sent,       \* chunks the library wrote in the compilation of each thread
    chosen,     \* the filter of the last explicit init that succeeded
    turnedDown  \* whether the library has no log writer and refused one

lockVars == <<ffiLock, poisoned, stateLock>>
installVars == <<installed, explicit, chosen, turnedDown>>
compilerVars == <<ctx, pending, blob, object, wanted, refused>>
outputVars == <<buf, sent>>
vars == <<libVars, lockVars, installVars, compilerVars, outputVars,
          pc, call, calls>>

SharedQueries == {"perf_report", "tflite_constraints", "reporting_interface"}
PointerQueries == {"reporting_interface", "graph_builder"}
Queries == SharedQueries \cup {"graph_builder", "get_output_blob"}
Compiles == {"compile", "compile_with_writer"}

CompilerOps == {"new", "drop"} \cup Compiles \cup Queries

(* A call on a Compiler; an explicit installation, which is init,          *)
(* init_with_format or disable according to its mask; no call.             *)
CompilerCall(op, c) == [op |-> op, c |-> c, filter |-> EmptyFilter]
InstallCall(f) == [op |-> "init", c |-> Nil, filter |-> f]
NoCall == [op |-> "none", c |-> Nil, filter |-> EmptyFilter]

CallRecords == [op : CompilerOps \cup {"init", "none"},
                c : Compilers \cup {Nil}, filter : Filters]

(* Places where the thread is inside the C library, and those between      *)
(* taking the FFI lock and dropping its guard.                             *)
LibraryPcs == {"create", "destroy", "callback_arg", "compiling", "query",
               "error", "set_logging"} \cup Kinds
GuardedPcs == LibraryPcs \cup {"return"}
InstallPcs == {"install_check", "install_lock", "set_logging",
               "install_done", "install_failed"}
PCs == GuardedPcs \cup InstallPcs \cup {"idle", "install", "lock"}

LockTypeOK ==
    /\ ffiLock \in Threads \cup {Nil} /\ stateLock \in Threads \cup {Nil}
    /\ poisoned \in BOOLEAN /\ installed \in BOOLEAN /\ explicit \in BOOLEAN
    /\ chosen \in Filters \cup {Nil} /\ turnedDown \in BOOLEAN

CompilerTypeOK ==
    /\ ctx \in [Compilers -> Ids \cup {NoContext}]
    /\ object \in [Compilers -> Ids \cup {NoContext}]
    /\ blob \in [Compilers -> Ids \cup {NoContext}]
    /\ pending \in [Compilers -> [Kinds -> Docs \cup {Nil}]]
    /\ wanted \in [Compilers -> [Kinds -> Docs \cup {Nil}]]
    /\ refused \in [Compilers -> [Kinds -> BOOLEAN]]

CallTypeOK ==
    /\ pc \in [Threads -> PCs]
    /\ call \in [Threads -> CallRecords]
    /\ buf \in [Threads -> Nat]
    /\ sent \in [Threads -> 0..MaxChunks]
    /\ calls \in 0..MaxCalls

TypeOK == LibTypeOK /\ LockTypeOK /\ CompilerTypeOK /\ CallTypeOK

Init ==
    /\ LibInit
    /\ ffiLock = Nil /\ stateLock = Nil /\ poisoned = FALSE
    /\ installed = FALSE /\ explicit = FALSE /\ chosen = Nil
    /\ turnedDown = FALSE
    /\ ctx = [c \in Compilers |-> NoContext]
    /\ object = [c \in Compilers |-> NoContext]
    /\ blob = [c \in Compilers |-> NoContext]
    /\ pending = [c \in Compilers |-> Unconfigured]
    /\ wanted = [c \in Compilers |-> Unconfigured]
    /\ refused = [c \in Compilers |-> [k \in Kinds |-> FALSE]]
    /\ pc = [t \in Threads |-> "idle"]
    /\ call = [t \in Threads |-> NoCall]
    /\ buf = [t \in Threads |-> 0] /\ sent = [t \in Threads |-> 0]
    /\ calls = 0

-----------------------------------------------------------------------------
(* Who uses what.                                                          *)

Op(t) == call[t].op
On(t) == call[t].c
Explicit(t) == Op(t) = "init"

Users(c) == {t \in Threads : On(t) = c}

(* `&mut self`, and `&self`, of a Compiler that exists.  Nothing in        *)
(* Compiler is !Sync (an int and two Option<String>), so the compiler      *)
(* derives Sync and threads may share it for the `&self` methods.          *)
Exclusive(c) == ctx[c] # NoContext /\ blob[c] = NoContext /\ Users(c) = {}
Shared(c) == /\ ctx[c] # NoContext /\ blob[c] = NoContext
             /\ \A t \in Users(c) : Op(t) \in SharedQueries

(* Slip: a poisoned mutex is never acquired again.                         *)
AcquireFfiUnlessPoisoned(t) == ffiLock = Nil /\ ~poisoned /\ ffiLock' = t

(* sync::lock: a poisoned mutex is acquired like any other.                *)
AcquireFfi(t) == ffiLock = Nil /\ ffiLock' = t
ReleaseFfi == ffiLock' = Nil

Goto(t, p) == pc' = [pc EXCEPT ![t] = p]
End(t) == Goto(t, "idle") /\ call' = [call EXCEPT ![t] = NoCall]

Count == calls < MaxCalls /\ calls' = calls + 1

Start(t, p, new) ==
    /\ pc[t] = "idle"
    /\ Count
    /\ Goto(t, p)
    /\ call' = [call EXCEPT ![t] = new]
    /\ UNCHANGED <<libVars, lockVars, installVars, compilerVars, outputVars>>

-----------------------------------------------------------------------------
(* The calls of the program.                                               *)

(* Slip: Compiler::new without ensure_installed.                           *)
CallNewUnlogged(t, c) ==
    /\ ctx[c] = NoContext /\ Users(c) = {}
    /\ Start(t, "lock", CompilerCall("new", c))

(* Compiler::new, into a variable that holds no Compiler yet.              *)
CallNew(t, c) ==
    /\ ctx[c] = NoContext /\ Users(c) = {}
    /\ Start(t, "install", CompilerCall("new", c))

(* logging::init, init_with_format, disable.                               *)
CallInit(t, f) == Start(t, "install", InstallCall(f))

(* Compiler::compile and compile_with_writer.                              *)
CallCompile(t, c, op) ==
    /\ Exclusive(c)
    /\ Start(t, "lock", CompilerCall(op, c))

(* perf_report, tflite_constraints and reporting_interface take `&self`;   *)
(* graph_builder and get_output_blob take `&mut self`.                     *)
CallQuery(t, c, op) ==
    /\ IF op \in SharedQueries THEN Shared(c) ELSE Exclusive(c)
    /\ Start(t, "lock", CompilerCall(op, c))

(* The Compiler goes out of scope.                                         *)
CallDrop(t, c) ==
    /\ Exclusive(c)
    /\ Start(t, "lock", CompilerCall("drop", c))

(* Slip: the document goes straight to the library, without the lock.      *)
RecordConfigEager(c, k, doc) ==
    /\ Exclusive(c)
    /\ Count
    /\ RegorConfigure(ctx[c], k, doc)
    /\ wanted' = [wanted EXCEPT ![c][k] = doc]
    /\ UNCHANGED <<lockVars, installVars, outputVars, pc, call,
                   ctx, pending, blob, object, refused>>

(* system_config and set_system_config, compiler_options and set_options:  *)
(* the document is recorded, the library is not called.                    *)
RecordConfig(c, k, doc) ==
    /\ Exclusive(c)
    /\ Count
    /\ pending' = [pending EXCEPT ![c][k] = doc]
    /\ wanted' = [wanted EXCEPT ![c][k] = doc]
    /\ UNCHANGED <<libVars, lockVars, installVars, outputVars, pc, call,
                   ctx, blob, object, refused>>

(* The Blob that borrows the Compiler goes out of scope; it has no drop    *)
(* code, the borrow just ends.                                             *)
ReleaseBlob(c) ==
    /\ blob[c] # NoContext
    /\ Users(c) = {}
    /\ blob' = [blob EXCEPT ![c] = NoContext]
    /\ UNCHANGED <<libVars, lockVars, installVars, outputVars, pc, call,
                   calls, ctx, pending, object, wanted, refused>>

-----------------------------------------------------------------------------
(* logging::install.  The lock order is INSTALL_STATE, then the FFI lock.  *)

(* Where a thread goes once install has returned: Compiler::new goes on to *)
(* take the FFI lock whatever the result was, init is over.                *)
AfterInstall(t) ==
    IF Explicit(t) THEN End(t) ELSE Goto(t, "lock") /\ UNCHANGED call

(* Slip: the flags are read before their mutex is taken.                   *)
ReadStateUnlocked(t) ==
    /\ pc[t] = "install"
    /\ Goto(t, "install_check")
    /\ UNCHANGED <<libVars, lockVars, installVars, compilerVars, outputVars,
                   call, calls>>

LockState(t) ==
    /\ pc[t] = "install"
    /\ stateLock = Nil
    /\ stateLock' = t
    /\ Goto(t, "install_check")
    /\ UNCHANGED <<libVars, ffiLock, poisoned, installVars, compilerVars,
                   outputVars, call, calls>>

MustInstall(t) == Explicit(t) \/ ~(installed \/ explicit)

SkipInstall(t) ==
    /\ pc[t] = "install_check"
    /\ ~MustInstall(t)
    /\ stateLock' = Nil
    /\ AfterInstall(t)
    /\ UNCHANGED <<libVars, ffiLock, poisoned, installVars, compilerVars,
                   outputVars, calls>>

(* Slip: the writer is replaced without taking the FFI lock.               *)
BeginInstallUnlocked(t) ==
    /\ pc[t] = "install_check"
    /\ MustInstall(t)
    /\ Goto(t, "set_logging")
    /\ UNCHANGED <<libVars, lockVars, installVars, compilerVars, outputVars,
                   call, calls>>

BeginInstall(t) ==
    /\ pc[t] = "install_check"
    /\ MustInstall(t)
    /\ Goto(t, "install_lock")
    /\ UNCHANGED <<libVars, lockVars, installVars, compilerVars, outputVars,
                   call, calls>>

LockForInstall(t) ==
    /\ pc[t] = "install_lock"
    /\ AcquireFfi(t)
    /\ Goto(t, "set_logging")
    /\ UNCHANGED <<libVars, stateLock, poisoned, installVars, compilerVars,
                   outputVars, call, calls>>

(* The guard of the FFI lock lives for the regor_set_logging_ex call only. *)
SetLogging(t) ==
    /\ pc[t] = "set_logging"
    /\ RegorSetLogging(call[t].filter)
    /\ chosen' = IF Explicit(t) THEN call[t].filter ELSE chosen
    /\ ReleaseFfi
    /\ turnedDown' = FALSE
    /\ Goto(t, "install_done")
    /\ UNCHANGED <<stateLock, poisoned, installed, explicit, compilerVars,
                   outputVars, call, calls>>

SetLoggingFails(t) ==
    /\ pc[t] = "set_logging"
    /\ LoggingMayFail
    /\ turnedDown' = (logFilter = Nil)
    /\ ReleaseFfi
    /\ Goto(t, "install_failed")
    /\ UNCHANGED <<libVars, stateLock, poisoned, installed, explicit, chosen,
                   compilerVars, outputVars, call, calls>>

(* check_global reads no message of the library, so needs no lock; its     *)
(* error returns early, and neither flag is set.                           *)
FailInstall(t) ==
    /\ pc[t] = "install_failed"
    /\ stateLock' = Nil
    /\ AfterInstall(t)
    /\ UNCHANGED <<libVars, ffiLock, poisoned, installVars, compilerVars,
                   outputVars, calls>>

FinishInstall(t) ==
    /\ pc[t] = "install_done"
    /\ installed' = TRUE
    /\ explicit' = (explicit \/ Explicit(t))
    /\ stateLock' = Nil
    /\ AfterInstall(t)
    /\ UNCHANGED <<libVars, ffiLock, poisoned, chosen, turnedDown,
                   compilerVars, outputVars, calls>>

-----------------------------------------------------------------------------
(* The operations that take the FFI lock, each from lock() to the drop of  *)
(* its guard.                                                              *)

EntryPoint(op) ==
    CASE op = "new"      -> "create"
      [] op = "drop"     -> "destroy"
      [] op \in Compiles -> "system_config"
      [] OTHER           -> "query"

(* Slip: Drop calls regor_destroy without the lock.                        *)
LockFfiUnlessDrop(t) ==
    /\ pc[t] = "lock"
    /\ IF Op(t) = "drop" THEN UNCHANGED ffiLock ELSE AcquireFfi(t)
    /\ Goto(t, EntryPoint(Op(t)))
    /\ UNCHANGED <<libVars, stateLock, poisoned, installVars, compilerVars,
                   outputVars, call, calls>>

(* Slip: a `&self` query reads its context without the lock.               *)
LockFfiUnlessShared(t) ==
    /\ pc[t] = "lock"
    /\ IF Op(t) \in SharedQueries THEN UNCHANGED ffiLock ELSE AcquireFfi(t)
    /\ Goto(t, EntryPoint(Op(t)))
    /\ UNCHANGED <<libVars, stateLock, poisoned, installVars, compilerVars,
                   outputVars, call, calls>>

LockFfi(t) ==
    /\ pc[t] = "lock"
    /\ AcquireFfi(t)
    /\ Goto(t, EntryPoint(Op(t)))
    /\ UNCHANGED <<libVars, stateLock, poisoned, installVars, compilerVars,
                   outputVars, call, calls>>

(* Slip: one Vec kept from compile to compile and never cleared.           *)
ReturnKeepingBuf(t) ==
    /\ pc[t] = "return"
    /\ ReleaseFfi
    /\ End(t)
    /\ sent' = [sent EXCEPT ![t] = 0]
    /\ UNCHANGED <<libVars, stateLock, poisoned, installVars, compilerVars,
                   buf, calls>>

(* The guard is dropped and the call returns, its local `buf` gone.        *)
Return(t) ==
    /\ pc[t] = "return"
    /\ ReleaseFfi
    /\ End(t)
    /\ buf' = [buf EXCEPT ![t] = 0]
    /\ sent' = [sent EXCEPT ![t] = 0]
    /\ UNCHANGED <<libVars, stateLock, poisoned, installVars, compilerVars,
                   calls>>

(* Slip: check takes the FFI lock itself.                                  *)
ReadErrorLocking(t) ==
    /\ pc[t] = "error"
    /\ AcquireFfi(t)
    /\ Goto(t, "return")
    /\ UNCHANGED <<libVars, stateLock, poisoned, installVars, compilerVars,
                   outputVars, call, calls>>

(* check, after a call that returned 0: regor_get_error twice, for the     *)
(* length and for the text, under the lock the caller holds already.       *)
ReadError(t) ==
    /\ pc[t] = "error"
    /\ Goto(t, "return")
    /\ UNCHANGED <<libVars, lockVars, installVars, compilerVars, outputVars,
                   call, calls>>

(* A C call that returned 0 and changed nothing.                           *)
Fails(t, from) ==
    /\ pc[t] = from
    /\ Goto(t, "error")
    /\ UNCHANGED <<libVars, lockVars, installVars, compilerVars, outputVars,
                   call, calls>>

(* Compiler::new: regor_create.                                            *)
Create(t) ==
    /\ pc[t] = "create"
    /\ RegorCreate
    /\ ctx' = [ctx EXCEPT ![On(t)] = NewId]
    /\ object' = [object EXCEPT ![On(t)] = created + 1]
    /\ Goto(t, "return")
    /\ UNCHANGED <<lockVars, installVars, outputVars, call, calls,
                   pending, blob, wanted, refused>>

CreateFails(t) == Fails(t, "create")

(* Slip: no Drop, the handle is just forgotten.                            *)
Forget(t) ==
    /\ pc[t] = "destroy"
    /\ ctx' = [ctx EXCEPT ![On(t)] = NoContext]
    /\ object' = [object EXCEPT ![On(t)] = NoContext]
    /\ pending' = [pending EXCEPT ![On(t)] = Unconfigured]
    /\ Goto(t, "return")
    /\ UNCHANGED <<libVars, lockVars, installVars, outputVars, call, calls,
                   blob, wanted, refused>>

(* Drop for Compiler: regor_destroy.                                       *)
Destroy(t) ==
    /\ pc[t] = "destroy"
    /\ RegorDestroy(ctx[On(t)])
    /\ ctx' = [ctx EXCEPT ![On(t)] = NoContext]
    /\ object' = [object EXCEPT ![On(t)] = NoContext]
    /\ pending' = [pending EXCEPT ![On(t)] = Unconfigured]
    /\ wanted' = [wanted EXCEPT ![On(t)] = Unconfigured]
    /\ refused' = [refused EXCEPT ![On(t)] = [k \in Kinds |-> FALSE]]
    /\ Goto(t, "return")
    /\ UNCHANGED <<lockVars, installVars, outputVars, call, calls, blob>>

(* apply_pending: the system configuration first, then the options.  Each  *)
(* is taken out of its Option before it is pushed, so a refused document   *)
(* is gone; the first refusal ends the compile, and the options stay.      *)
AfterPush(k) == IF k = "system_config" THEN "options" ELSE "callback_arg"

(* Slip: an early return where there is no document skips the next one.    *)
SkipAllPending(t, k) ==
    /\ pc[t] = k
    /\ pending[On(t)][k] = Nil
    /\ Goto(t, "callback_arg")
    /\ UNCHANGED <<libVars, lockVars, installVars, compilerVars, outputVars,
                   call, calls>>

SkipPending(t, k) ==
    /\ pc[t] = k
    /\ pending[On(t)][k] = Nil
    /\ Goto(t, AfterPush(k))
    /\ UNCHANGED <<libVars, lockVars, installVars, compilerVars, outputVars,
                   call, calls>>

PushPending(t, k) ==
    /\ pc[t] = k
    /\ pending[On(t)][k] # Nil
    /\ RegorConfigure(ctx[On(t)], k, pending[On(t)][k])
    /\ pending' = [pending EXCEPT ![On(t)][k] = Nil]
    /\ refused' = [refused EXCEPT ![On(t)][k] = FALSE]
    /\ Goto(t, AfterPush(k))
    /\ UNCHANGED <<lockVars, installVars, outputVars, call, calls,
                   ctx, blob, object, wanted>>

(* Slip: the return code of the push is not checked.                       *)
PushPendingUnchecked(t, k) ==
    /\ pc[t] = k
    /\ pending[On(t)][k] # Nil
    /\ RegorRefuse(ctx[On(t)], k, pending[On(t)][k])
    /\ pending' = [pending EXCEPT ![On(t)][k] = Nil]
    /\ Goto(t, AfterPush(k))
    /\ UNCHANGED <<lockVars, installVars, outputVars, call, calls,
                   ctx, blob, object, wanted, refused>>

PushPendingFails(t, k) ==
    /\ pc[t] = k
    /\ pending[On(t)][k] # Nil
    /\ RegorRefuse(ctx[On(t)], k, pending[On(t)][k])
    /\ pending' = [pending EXCEPT ![On(t)][k] = Nil]
    /\ refused' = [refused EXCEPT ![On(t)][k] = TRUE]
    /\ Goto(t, "error")
    /\ UNCHANGED <<lockVars, installVars, outputVars, call, calls,
                   ctx, blob, object, wanted>>

(* compile hands over the address of its local `buf`, named here by the    *)
(* thread whose frame it is in; compile_with_writer its caller's argument. *)
WriterArg(t) == IF Op(t) = "compile" THEN t ELSE UserArg

(* Slip: the argument of the previous compilation is left in place.        *)
KeepCallbackArg(t) ==
    /\ pc[t] = "callback_arg"
    /\ Goto(t, "compiling")
    /\ UNCHANGED <<libVars, lockVars, installVars, compilerVars, outputVars,
                   call, calls>>

SetCallbackArg(t) ==
    /\ pc[t] = "callback_arg"
    /\ RegorSetCallbackArg(ctx[On(t)], WriterArg(t))
    /\ Goto(t, "compiling")
    /\ UNCHANGED <<lockVars, installVars, compilerVars, outputVars, call,
                   calls>>

(* regor_compile writes a chunk of output: write_to_vec appends it to the  *)
(* Vec its argument points to, if it still is one.                         *)
WriteChunk(t) ==
    /\ pc[t] = "compiling"
    /\ Found(ctx[On(t)])
    /\ sent[t] < MaxChunks
    /\ sent' = [sent EXCEPT ![t] = @ + 1]
    /\ buf' = [u \in Threads |-> IF u = arg[registry[ctx[On(t)]]]
                                 THEN buf[u] + 1 ELSE buf[u]]
    /\ UNCHANGED <<libVars, lockVars, installVars, compilerVars, pc, call,
                   calls>>

CompileOk(t) ==
    /\ pc[t] = "compiling"
    /\ Found(ctx[On(t)])
    /\ Goto(t, "return")
    /\ UNCHANGED <<libVars, lockVars, installVars, compilerVars, outputVars,
                   call, calls>>

CompileFails(t) == Fails(t, "compiling")

(* The five queries.  get_output_blob lends the compiler's output out.     *)
QueryOk(t) ==
    /\ pc[t] = "query"
    /\ Found(ctx[On(t)])
    /\ blob' = IF Op(t) = "get_output_blob"
               THEN [blob EXCEPT ![On(t)] = registry[ctx[On(t)]]] ELSE blob
    /\ Goto(t, "return")
    /\ UNCHANGED <<libVars, lockVars, installVars, outputVars, call, calls,
                   ctx, pending, object, wanted, refused>>

QueryFails(t) == Op(t) \notin PointerQueries /\ Fails(t, "query")

(* reporting_interface and graph_builder turn a null pointer into None.    *)
QueryNone(t) ==
    /\ pc[t] = "query"
    /\ Op(t) \in PointerQueries
    /\ Goto(t, "return")
    /\ UNCHANGED <<libVars, lockVars, installVars, compilerVars, outputVars,
                   call, calls>>

(* ConstraintsReport::from_ffi indexes a fixed array with a count the      *)
(* library chose; past its end it panics, with the FFI lock held.          *)
PanicInReport(t) ==
    /\ pc[t] = "query"
    /\ Op(t) = "tflite_constraints"
    /\ poisoned' = TRUE
    /\ ReleaseFfi
    /\ End(t)
    /\ UNCHANGED <<libVars, stateLock, installVars, compilerVars, outputVars,
                   calls>>

-----------------------------------------------------------------------------
(* What a thread does on its own once it has started a call.               *)
Step(t) ==
    \/ LockState(t) \/ SkipInstall(t) \/ BeginInstall(t) \/ LockForInstall(t)
    \/ SetLogging(t) \/ SetLoggingFails(t) \/ FailInstall(t)
    \/ FinishInstall(t) \/ LockFfi(t) \/ Return(t) \/ ReadError(t)
    \/ Create(t) \/ CreateFails(t) \/ Destroy(t)
    \/ \E k \in Kinds :
          SkipPending(t, k) \/ PushPending(t, k) \/ PushPendingFails(t, k)
    \/ SetCallbackArg(t) \/ WriteChunk(t) \/ CompileOk(t) \/ CompileFails(t)
    \/ QueryOk(t) \/ QueryFails(t) \/ QueryNone(t) \/ PanicInReport(t)

Calling(t) ==
    \/ \E f \in Filters : CallInit(t, f)
    \/ \E c \in Compilers :
          \/ CallNew(t, c) \/ CallDrop(t, c)
          \/ \E op \in Compiles : CallCompile(t, c, op)
          \/ \E op \in Queries : CallQuery(t, c, op)

Program == \E c \in Compilers :
    ReleaseBlob(c) \/ \E k \in Kinds, doc \in Docs : RecordConfig(c, k, doc)

(* The program has made its calls (the bound MaxCalls) and they are over.  *)
Done == /\ calls = MaxCalls /\ \A t \in Threads : pc[t] = "idle"
        /\ UNCHANGED vars

Next == (\E t \in Threads : Calling(t) \/ Step(t)) \/ Program \/ Done

Spec == Init /\ [][Next]_vars

-----------------------------------------------------------------------------
(* Properties.                                                             *)

InLibrary(t) == pc[t] \in LibraryPcs

(* sync.rs: "every entry point into the C library takes lock".  Two        *)
(* threads are never inside the library together, not even one reading an  *)
(* error message and one destroying its context.                           *)
LibraryExclusive ==
    \A t, u \in Threads : InLibrary(t) /\ InLibrary(u) => t = u

(* A handle keeps referring to the C++ object that was made for it: no     *)
(* creation or destruction elsewhere replaces or frees it, and a Blob      *)
(* belongs to the object its Compiler still has (output.rs).               *)
HandlesIntact ==
    \A c \in Compilers :
        /\ ctx[c] # NoContext => Found(ctx[c]) /\ registry[ctx[c]] = object[c]
        /\ blob[c] # NoContext => Found(ctx[c]) /\ registry[ctx[c]] = blob[c]

(* No C++ object is leaked: every context in the registry is the one of    *)
(* some Compiler value, whichever call failed on the way.                  *)
NoOrphanContext == \A i \in LiveIds : \E c \in Compilers : ctx[c] = i

(* A thread inside regor_compile compiles against the documents last       *)
(* recorded on its Compiler, except one the library refused, and whose     *)
(* refusal an earlier compile reported.                                    *)
CompileUsesRecorded ==
    \A t \in Threads : pc[t] = "compiling" =>
        \A k \in Kinds : \/ refused[On(t)][k]
                         \/ applied[object[On(t)]][k] = wanted[On(t)][k]

(* The Output of a compile holds every chunk the library wrote in that     *)
(* compile and nothing else, and the writer's argument is never the frame  *)
(* of a call that is over or of another compile.                           *)
OutputWhole ==
    \A t \in Threads :
        /\ Op(t) = "compile" => buf[t] = sent[t]
        /\ Op(t) # "compile" => buf[t] = 0
        /\ pc[t] = "compiling" => arg[object[On(t)]] = WriterArg(t)

(* logging.rs:152: "regor asserts on a null writer during compilation, so  *)
(* one must exist before the first compile".  ensure_installed drops its   *)
(* error, so a compile without a writer there may be, but only after the   *)
(* library itself has refused one; and the flags never say `installed` of  *)
(* a writer it does not have, so that the next Compiler::new tries again.  *)
WriterInstalled ==
    /\ \A t \in Threads : pc[t] = "compiling" /\ logFilter = Nil => turnedDown
    /\ installed \/ explicit => logFilter # Nil

(* logging.rs: the implicit installation "cannot silently undo an explicit *)
(* init", and "the most recent call wins".                                 *)
ExplicitFilterSurvives == chosen # Nil => logFilter = chosen

(* sync.rs: "one thread cannot reconfigure the state another is compiling  *)
(* against".  While a thread stays inside regor_compile, no step of any    *)
(* thread changes anything the library holds.                              *)
LibraryFrozenInCompile ==
    [][\A t \in Threads :
          pc[t] = "compiling" /\ pc'[t] = "compiling" => UNCHANGED libVars]_vars

(* compiler.rs:36, sync.rs:20: a context "may not be used from two at      *)
(* once".  The `&self` queries may be, Compiler being Sync.                *)
SingleUser == \A c \in Compilers : \A t, u \in Users(c) : t = u

(* No call gets stuck: not on the two locks, not on a lock a panic has     *)
(* poisoned, not on the error path that runs with the lock held.           *)
EveryCallReturns == \A t \in Threads : pc[t] # "idle" ~> pc[t] = "idle"

-----------------------------------------------------------------------------
(* The inductive invariant of RegorBindingsProofs, in named parts.         *)

(* Who is between taking and dropping a guard holds the lock, nobody else. *)
LockInv ==
    \A t \in Threads :
        /\ pc[t] \in GuardedPcs <=> ffiLock = t
        /\ pc[t] \in InstallPcs <=> stateLock = t

(* A thread is only at the places of the call it is making.                *)
CallInv ==
    \A t \in Threads :
        /\ pc[t] = "idle" <=> Op(t) = "none"
        /\ On(t) \in Compilers <=> Op(t) \in CompilerOps
        /\ pc[t] \in InstallPcs \cup {"install"} => Op(t) \in {"new", "init"}
        /\ Op(t) = "init" => pc[t] \in InstallPcs \cup {"install"}
        /\ pc[t] = "create" => Op(t) = "new"
        /\ pc[t] = "destroy" => Op(t) = "drop"
        /\ pc[t] = "query" => Op(t) \in Queries
        /\ pc[t] \in Kinds \cup {"callback_arg", "compiling"}
             => Op(t) \in Compiles
        /\ Op(t) = "drop" => pc[t] \in {"lock", "destroy", "return"}

(* The borrow rules hold for the calls in progress: new has a place of its *)
(* own to fill, any other call has a live Compiler that no Blob borrows,   *)
(* and only queries on a shared reference meet on one Compiler.            *)
BorrowInv ==
    \A t \in Threads : On(t) \in Compilers =>
        /\ \A u \in Users(On(t)) : u = t \/ Op(u) \in SharedQueries
        /\ Op(t) = "new" /\ pc[t] # "return" => ctx[On(t)] = NoContext
        /\ Op(t) # "new" /\ pc[t] # "return" =>
               ctx[On(t)] # NoContext /\ blob[On(t)] = NoContext

(* With the patch: an id is the number of its object, is used once, and    *)
(* the registry is exactly the contexts of the Compilers.                  *)
IdInv ==
    /\ \A c \in Compilers :
          /\ ctx[c] <= created /\ object[c] = ctx[c]
          /\ ctx[c] # NoContext => registry[ctx[c]] = ctx[c]
          /\ blob[c] \in {NoContext, ctx[c]}
          /\ \A d \in Compilers : ctx[c] = ctx[d] /\ ctx[c] # NoContext => c = d
    /\ \A i \in LiveIds : \E c \in Compilers : ctx[c] = i
    /\ \A i \in LiveIds : registry[i] = i

(* Where a document is: still pending, refused, or applied to the object.  *)
ConfigInv ==
    /\ \A c \in Compilers, k \in Kinds :
          /\ pending[c][k] \in {Nil, wanted[c][k]}
          /\ ctx[c] = NoContext => wanted[c][k] = Nil
          /\ pending[c][k] = Nil /\ ~refused[c][k] /\ ctx[c] # NoContext
               => applied[ctx[c]][k] = wanted[c][k]
    /\ \A i \in Ids : i \notin LiveIds => applied[i] = Unconfigured
    /\ \A t \in Threads :
          /\ pc[t] \in {"options", "callback_arg", "compiling"}
               => pending[On(t)]["system_config"] = Nil
          /\ pc[t] \in {"callback_arg", "compiling"}
               => pending[On(t)]["options"] = Nil

(* Chunks are only in the frame of the compile they were written for.      *)
OutputInv ==
    \A t \in Threads :
        /\ Op(t) = "compile" => buf[t] = sent[t]
        /\ Op(t) # "compile" => buf[t] = 0
        /\ pc[t] \notin {"compiling", "error", "return"} => sent[t] = 0
        /\ pc[t] = "compiling" => arg[ctx[On(t)]] = WriterArg(t)

(* Who is about to install implicitly has seen, and under INSTALL_STATE    *)
(* still sees, that nobody has installed anything.                         *)
InstallInv ==
    /\ chosen # Nil => logFilter = chosen
    /\ chosen # Nil => explicit \/ \E t \in Threads :
                                     pc[t] = "install_done" /\ Explicit(t)
    /\ explicit => installed
    /\ \A t \in Threads :
          pc[t] \in {"install_lock", "set_logging"} => MustInstall(t)

(* Before a writer is installed the flags say so; and as long as none has  *)
(* been refused there is no Compiler either, and every call is still on    *)
(* its way to installing one.                                              *)
UnloggedInv ==
    logFilter = Nil =>
        /\ ~installed /\ ~explicit
        /\ \A t \in Threads : pc[t] # "install_done"
        /\ turnedDown \/
              /\ \A c \in Compilers : ctx[c] = NoContext
              /\ \A t \in Threads :
                    pc[t] \in {"idle", "install", "install_check",
                              "install_lock", "set_logging"}
=============================================================================
