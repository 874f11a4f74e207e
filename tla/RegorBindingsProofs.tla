------------------------ MODULE RegorBindingsProofs ------------------------
(***************************************************************************)
(* Theorems about RegorBindings, for every number of threads, Compilers,   *)
(* documents, filters and calls; then, resting on the same invariants,     *)
(* that it implements RegorService, and what it promises together with the *)
(* log writer in one process (RegorProcess).  The theorems about context   *)
(* ids are for the patched library (MonotonicIds): without the patch they  *)
(* are false.                                                              *)
(***************************************************************************)
EXTENDS RegorRefinement, RegorProcess, SequenceTheorems, TLAPS

LEMMA Constants ==
    /\ Nil \notin Docs /\ Nil \notin Filters /\ Nil \notin Threads
    /\ UserArg \notin Threads /\ UserArg # Nil
    /\ MaxContexts \in Nat \ {0} /\ MonotonicIds \in BOOLEAN
    /\ EmptyFilter \in Filters /\ Nil \notin Compilers
    /\ MaxChunks \in Nat /\ MaxCalls \in Nat /\ LoggingMayFail \in BOOLEAN
BY NilAssumption, BoundAssumption, PatchAssumption, FilterAssumption,
   CompilerAssumption, CallAssumption

-----------------------------------------------------------------------------
(* Locking.  The part of the type invariant that the locks need, and the   *)
(* correspondence between the locks and the program counters.  Neither     *)
(* depends on the patch.                                                   *)

ControlInv == /\ ffiLock \in Threads \cup {Nil}
              /\ stateLock \in Threads \cup {Nil}
              /\ pc \in [Threads -> PCs]
              /\ LockInv

LEMMA ControlInit == Init => ControlInv
BY Constants DEF Init, ControlInv, LockInv, PCs, GuardedPcs, LibraryPcs,
   InstallPcs, Kinds

(* A step of t that moves it without touching a lock keeps both facts if   *)
(* it stays on the same side of each lock.                                 *)
LEMMA ControlMove ==
    ASSUME ControlInv, NEW t \in Threads, NEW p \in PCs,
           Goto(t, p), UNCHANGED <<ffiLock, stateLock>>,
           p \in GuardedPcs <=> pc[t] \in GuardedPcs,
           p \in InstallPcs <=> pc[t] \in InstallPcs
    PROVE  ControlInv'
BY DEF ControlInv, LockInv, Goto

LEMMA ControlStep ==
    ASSUME ControlInv, NEW t \in Threads, Step(t)
    PROVE  ControlInv'
<1> USE Constants DEF Goto, End, Fails, AcquireFfi, ReleaseFfi, AfterInstall,
        PCs, GuardedPcs, LibraryPcs, InstallPcs, Kinds
<1>1. CASE \/ LockState(t) \/ SkipInstall(t)
           \/ FailInstall(t) \/ FinishInstall(t)
  BY <1>1 DEF LockState, SkipInstall, FailInstall, FinishInstall, ControlInv,
     LockInv
<1>2. CASE LockForInstall(t) \/ SetLogging(t) \/ SetLoggingFails(t)
  BY <1>2 DEF LockForInstall, SetLogging, SetLoggingFails, ControlInv, LockInv
<1>3. CASE LockFfi(t)
  BY <1>3 DEF LockFfi, EntryPoint, ControlInv, LockInv
<1>4. CASE Return(t) \/ PanicInReport(t)
  BY <1>4 DEF Return, PanicInReport, ControlInv, LockInv
<1>5. CASE BeginInstall(t)
  BY <1>5, ControlMove DEF BeginInstall, lockVars
<1>6. CASE ReadError(t) \/ CreateFails(t) \/ CompileFails(t) \/ QueryFails(t)
  BY <1>6, ControlMove DEF ReadError, CreateFails, CompileFails, QueryFails,
     lockVars
<1>7. CASE Create(t) \/ Destroy(t)
  BY <1>7, ControlMove DEF Create, Destroy, lockVars
<1>8. ASSUME NEW k \in Kinds,
             SkipPending(t, k) \/ PushPending(t, k) \/ PushPendingFails(t, k)
      PROVE  ControlInv'
  BY <1>8, ControlMove DEF SkipPending, PushPending, PushPendingFails,
     AfterPush, lockVars
<1>9. CASE SetCallbackArg(t) \/ CompileOk(t) \/ QueryOk(t) \/ QueryNone(t)
  BY <1>9, ControlMove DEF SetCallbackArg, CompileOk, QueryOk, QueryNone,
     lockVars
<1>10. CASE WriteChunk(t)
  BY <1>10 DEF WriteChunk, lockVars, ControlInv, LockInv
<1> QED
  BY <1>1, <1>2, <1>3, <1>4, <1>5, <1>6, <1>7, <1>8, <1>9, <1>10 DEF Step

LEMMA ControlNext == ControlInv /\ [Next]_vars => ControlInv'
<1> SUFFICES ASSUME ControlInv, [Next]_vars PROVE ControlInv'
  OBVIOUS
<1>1. ASSUME NEW t \in Threads, Calling(t) PROVE ControlInv'
  <2>1. \E p \in {"install", "lock"} : \E r : Start(t, p, r)
    BY <1>1 DEF Calling, CallInit, CallNew, CallDrop, CallCompile, CallQuery
  <2> QED
    BY <2>1, ControlMove DEF Start, lockVars, PCs, GuardedPcs, LibraryPcs,
       InstallPcs, Kinds
<1>2. ASSUME NEW t \in Threads, Step(t) PROVE ControlInv'
  BY <1>2, ControlStep
<1>3. CASE Program \/ Done \/ UNCHANGED vars
  BY <1>3 DEF Program, ReleaseBlob, RecordConfig, Done, vars, lockVars,
     ControlInv, LockInv
<1> QED
  BY <1>1, <1>2, <1>3 DEF Next

(* "Every entry point into the C library takes lock" (sync.rs): no two     *)
(* threads are ever inside the library together.                           *)
THEOREM Exclusion == Spec => []LibraryExclusive
<1>1. ControlInv => LibraryExclusive
  BY DEF ControlInv, LockInv, LibraryExclusive, InLibrary, GuardedPcs
<1> QED
  BY <1>1, ControlInit, ControlNext, PTL DEF Spec

(* The action of LibraryFrozenInCompile.                                   *)
Frozen == \A t \in Threads :
    pc[t] = "compiling" /\ pc'[t] = "compiling" => UNCHANGED libVars

(* Every step that changes the library is one of a thread inside it, and   *)
(* the thread that is compiling is the only one there.                     *)
LEMMA FrozenStep ==
    ASSUME ControlInv, NEW t \in Threads, NEW u \in Threads, Step(u),
           pc[t] = "compiling", pc'[t] = "compiling"
    PROVE  UNCHANGED libVars
<1>1. pc[u] \in GuardedPcs => u = t
  BY DEF ControlInv, LockInv, GuardedPcs, LibraryPcs
<1>2. CASE SetLogging(u) \/ Create(u) \/ Destroy(u) \/ SetCallbackArg(u)
  BY <1>1, <1>2 DEF SetLogging, Create, Destroy, SetCallbackArg, GuardedPcs,
     LibraryPcs
<1>3. ASSUME NEW k \in Kinds,
             SkipPending(u, k) \/ PushPending(u, k) \/ PushPendingFails(u, k)
      PROVE  UNCHANGED libVars
  BY <1>1, <1>3 DEF SkipPending, PushPending, PushPendingFails, GuardedPcs,
     LibraryPcs, Kinds
<1> QED
  BY <1>2, <1>3 DEF Step, LockState, SkipInstall, BeginInstall, LockForInstall,
     SetLoggingFails, FailInstall, FinishInstall, LockFfi, Return, ReadError,
     CreateFails, WriteChunk, CompileOk, CompileFails, QueryOk, QueryFails,
     QueryNone, PanicInReport, Fails

(* "One thread cannot reconfigure the state another is compiling against"  *)
(* (sync.rs): the library stands still around a compile.                   *)
THEOREM CompileSeesFrozenLibrary == Spec => LibraryFrozenInCompile
<1>1. ControlInv /\ [Next]_vars => [Frozen]_vars
  <2> SUFFICES ASSUME ControlInv, Next, NEW t \in Threads,
                      pc[t] = "compiling", pc'[t] = "compiling"
               PROVE  UNCHANGED libVars
    BY DEF Frozen
  <2>1. ASSUME NEW u \in Threads, Calling(u) PROVE UNCHANGED libVars
    BY <2>1 DEF Calling, CallInit, CallNew, CallDrop, CallCompile, CallQuery,
       Start
  <2>2. ASSUME NEW u \in Threads, Step(u) PROVE UNCHANGED libVars
    BY <2>2, FrozenStep
  <2>3. CASE Program \/ Done
    BY <2>3 DEF Program, ReleaseBlob, RecordConfig, Done, vars
  <2> QED
    BY <2>1, <2>2, <2>3 DEF Next
<1> QED
  BY <1>1, ControlInit, ControlNext, PTL DEF Spec, LibraryFrozenInCompile,
     Frozen

-----------------------------------------------------------------------------
(* Types.                                                                  *)

LEMMA TypeInit == Init => TypeOK
<1> SUFFICES ASSUME Init PROVE TypeOK
  OBVIOUS
<1> USE Constants DEF Init
<1>1. LibTypeOK
  BY DEF LibInit, LibTypeOK, Unconfigured, NoContext
<1>2. LockTypeOK
  BY DEF LockTypeOK
<1>3. CompilerTypeOK
  BY DEF CompilerTypeOK, Unconfigured
<1>4. CallTypeOK
  BY DEF CallTypeOK, PCs, NoCall, CallRecords
<1> QED
  BY <1>1, <1>2, <1>3, <1>4 DEF TypeOK

(* A group of variables that a step leaves alone keeps its type.           *)
LEMMA TypeStutter ==
    /\ LibTypeOK /\ UNCHANGED libVars => LibTypeOK'
    /\ LockTypeOK /\ UNCHANGED <<lockVars, installVars>> => LockTypeOK'
    /\ CompilerTypeOK /\ UNCHANGED compilerVars => CompilerTypeOK'
<1>1. LibTypeOK /\ UNCHANGED libVars => LibTypeOK'
  BY DEF LibTypeOK, libVars
<1>2. LockTypeOK /\ UNCHANGED <<lockVars, installVars>> => LockTypeOK'
  BY DEF LockTypeOK, lockVars, installVars
<1>3. CompilerTypeOK /\ UNCHANGED compilerVars => CompilerTypeOK'
  BY DEF CompilerTypeOK, compilerVars
<1> QED
  BY <1>1, <1>2, <1>3

LEMMA CallsTyped ==
    /\ NoCall \in CallRecords
    /\ \A f \in Filters : InstallCall(f) \in CallRecords
    /\ \A op \in CompilerOps, c \in Compilers :
          CompilerCall(op, c) \in CallRecords
BY Constants DEF NoCall, InstallCall, CompilerCall, CallRecords

LEMMA TypeStart ==
    ASSUME TypeOK, NEW t \in Threads, Calling(t)
    PROVE  TypeOK'
<1>1. ASSUME NEW p \in {"install", "lock"}, NEW r \in CallRecords,
             Start(t, p, r)
      PROVE  TypeOK'
  <2>1. LibTypeOK' /\ LockTypeOK' /\ CompilerTypeOK'
    BY <1>1, TypeStutter DEF Start, TypeOK
  <2>2. CallTypeOK'
    BY <1>1, Constants DEF Start, Count, Goto, TypeOK, CallTypeOK, PCs,
       outputVars
  <2> QED
    BY <2>1, <2>2 DEF TypeOK
<1>2. \E p \in {"install", "lock"}, r \in CallRecords : Start(t, p, r)
  BY CallsTyped DEF Calling, CallInit, CallNew, CallDrop, CallCompile,
     CallQuery, CompilerOps
<1> QED
  BY <1>1, <1>2

LEMMA CallTypeStep ==
    ASSUME CallTypeOK, NEW t \in Threads, Step(t)
    PROVE  CallTypeOK'
<1> USE CallsTyped, Constants DEF CallTypeOK, Goto, End, Fails, AfterInstall,
        PCs, GuardedPcs, LibraryPcs, InstallPcs, Kinds, outputVars
<1>1. CASE LockState(t) \/ SkipInstall(t) \/ BeginInstall(t)
  BY <1>1 DEF LockState, SkipInstall, BeginInstall
<1>2. CASE LockForInstall(t) \/ SetLogging(t)
  BY <1>2 DEF LockForInstall, SetLogging
<1>3. CASE SetLoggingFails(t) \/ FailInstall(t) \/ FinishInstall(t)
  BY <1>3 DEF SetLoggingFails, FailInstall, FinishInstall
<1>4. CASE LockFfi(t)
  BY <1>4 DEF LockFfi, EntryPoint
<1>5. CASE Return(t) \/ PanicInReport(t)
  BY <1>5 DEF Return, PanicInReport
<1>6. CASE ReadError(t) \/ CreateFails(t) \/ CompileFails(t) \/ QueryFails(t)
  BY <1>6 DEF ReadError, CreateFails, CompileFails, QueryFails
<1>7. CASE Create(t) \/ Destroy(t)
  BY <1>7 DEF Create, Destroy
<1>8. ASSUME NEW k \in Kinds,
             SkipPending(t, k) \/ PushPending(t, k) \/ PushPendingFails(t, k)
      PROVE  CallTypeOK'
  BY <1>8 DEF SkipPending, PushPending, PushPendingFails, AfterPush
<1>9. CASE SetCallbackArg(t) \/ CompileOk(t) \/ QueryOk(t) \/ QueryNone(t)
  BY <1>9 DEF SetCallbackArg, CompileOk, QueryOk, QueryNone
<1>10. CASE WriteChunk(t)
  <2>1. buf' \in [Threads -> Nat]
    BY <1>10 DEF WriteChunk
  <2>2. sent' \in [Threads -> 0..MaxChunks]
    BY <1>10 DEF WriteChunk
  <2> QED
    BY <1>10, <2>1, <2>2 DEF WriteChunk
<1> QED
  BY <1>1, <1>2, <1>3, <1>4, <1>5, <1>6, <1>7, <1>8, <1>9, <1>10 DEF Step

(* A thread is where its call takes it.                                    *)
LEMMA CallInvInit == Init => CallInv
BY Constants DEF Init, CallInv, Op, On, NoCall, CompilerOps, Compiles, Queries,
   SharedQueries, InstallPcs, Kinds

LEMMA CallStart ==
    ASSUME CallTypeOK, CallInv, NEW t \in Threads, Calling(t)
    PROVE  CallInv'
<1> USE Constants DEF CallTypeOK, CallInv, Start, Goto, Op, On, Explicit,
        CompilerOps, Compiles, Queries, SharedQueries, InstallPcs, Kinds
<1>1. ASSUME NEW f \in Filters, CallInit(t, f) PROVE CallInv'
  BY <1>1 DEF CallInit, InstallCall
<1>2. ASSUME NEW c \in Compilers, CallNew(t, c) PROVE CallInv'
  BY <1>2 DEF CallNew, CompilerCall
<1>3. ASSUME NEW c \in Compilers, CallDrop(t, c) PROVE CallInv'
  BY <1>3 DEF CallDrop, CompilerCall
<1>4. ASSUME NEW c \in Compilers, NEW op \in Compiles, CallCompile(t, c, op)
      PROVE  CallInv'
  BY <1>4 DEF CallCompile, CompilerCall
<1>5. ASSUME NEW c \in Compilers, NEW op \in Queries, CallQuery(t, c, op)
      PROVE  CallInv'
  BY <1>5 DEF CallQuery, CompilerCall
<1> QED
  BY <1>1, <1>2, <1>3, <1>4, <1>5 DEF Calling

LEMMA CallStep ==
    ASSUME CallTypeOK, CallInv, NEW t \in Threads, Step(t)
    PROVE  CallInv'
<1> USE Constants DEF CallTypeOK, CallInv, CallRecords, Goto, Fails, Op, On,
        Explicit, CompilerOps, Compiles, Queries, SharedQueries, InstallPcs, Kinds
<1>1. CASE LockState(t) \/ BeginInstall(t) \/ LockForInstall(t)
             \/ SetLogging(t) \/ SetLoggingFails(t)
  BY <1>1 DEF LockState, BeginInstall, LockForInstall, SetLogging,
     SetLoggingFails
<1>2. CASE SkipInstall(t) \/ FailInstall(t) \/ FinishInstall(t)
  BY <1>2 DEF SkipInstall, FailInstall, FinishInstall, AfterInstall, End,
     NoCall
<1>3. CASE LockFfi(t)
  BY <1>3 DEF LockFfi, EntryPoint
<1>4. CASE Return(t) \/ PanicInReport(t)
  BY <1>4 DEF Return, PanicInReport, End, NoCall
<1>5. CASE ReadError(t) \/ CreateFails(t) \/ CompileFails(t) \/ QueryFails(t)
  BY <1>5 DEF ReadError, CreateFails, CompileFails, QueryFails
<1>6. CASE Create(t) \/ Destroy(t)
  BY <1>6 DEF Create, Destroy
<1>7. ASSUME NEW k \in Kinds,
             SkipPending(t, k) \/ PushPending(t, k) \/ PushPendingFails(t, k)
      PROVE  CallInv'
  BY <1>7 DEF SkipPending, PushPending, PushPendingFails, AfterPush
<1>8. CASE SetCallbackArg(t) \/ CompileOk(t) \/ QueryOk(t) \/ QueryNone(t)
  BY <1>8 DEF SetCallbackArg, CompileOk, QueryOk, QueryNone
<1>9. CASE WriteChunk(t)
  BY <1>9 DEF WriteChunk
<1> QED
  BY <1>1, <1>2, <1>3, <1>4, <1>5, <1>6, <1>7, <1>8, <1>9 DEF Step

LEMMA CallNext == CallTypeOK /\ CallInv /\ [Next]_vars => CallInv'
<1> SUFFICES ASSUME CallTypeOK, CallInv, [Next]_vars PROVE CallInv'
  OBVIOUS
<1>1. CASE UNCHANGED <<pc, call>>
  BY <1>1 DEF CallInv, Op, On
<1> QED
  BY <1>1, CallStart, CallStep DEF Next, Program, RecordConfig, ReleaseBlob,
     Done, vars

LEMMA TypeStep ==
    ASSUME TypeOK, CallInv, MonotonicIds, NEW t \in Threads, Step(t)
    PROVE  TypeOK'
<1>1. CallTypeOK'
  BY CallTypeStep DEF TypeOK
<1>2. LockTypeOK'
  <2> USE Constants DEF TypeOK, LockTypeOK, CallTypeOK, CallRecords,
          AcquireFfi, ReleaseFfi, lockVars, installVars
  <2>1. CASE LockState(t) \/ SkipInstall(t) \/ LockForInstall(t)
             \/ SetLoggingFails(t) \/ FailInstall(t) \/ FinishInstall(t)
    BY <2>1 DEF LockState, SkipInstall, LockForInstall, SetLoggingFails,
       FailInstall, FinishInstall
  <2>2. CASE SetLogging(t)
    BY <2>2 DEF SetLogging
  <2>3. CASE LockFfi(t) \/ Return(t) \/ PanicInReport(t)
    BY <2>3 DEF LockFfi, Return, PanicInReport
  <2>4. CASE UNCHANGED <<lockVars, installVars>>
    BY <2>4
  <2> QED
    BY <2>1, <2>2, <2>3, <2>4 DEF Step, BeginInstall, ReadError, Create,
       CreateFails, Destroy, SkipPending, PushPending, PushPendingFails,
       SetCallbackArg, WriteChunk, CompileOk, CompileFails, QueryOk,
       QueryFails, QueryNone, Fails
<1>3. LibTypeOK' /\ CompilerTypeOK'
  <2> USE Constants, TypeStutter DEF TypeOK
  <2>1. CASE Create(t)
    <3>1. NewId = created + 1 /\ created + 1 \in Ids
      BY <2>1 DEF Create, RegorCreate, NewId, PatchedId, LibTypeOK, Ids
    <3>2. LibTypeOK'
      BY <2>1, <3>1 DEF Create, RegorCreate, LibTypeOK, Ids
    <3>3. CompilerTypeOK'
      BY <2>1, <3>1 DEF Create, CompilerTypeOK
    <3> QED
      BY <3>2, <3>3
  <2>2. CASE Destroy(t)
    BY <2>2 DEF Destroy, RegorDestroy, LibTypeOK, CompilerTypeOK,
       Unconfigured
  <2>3. ASSUME NEW k \in Kinds, PushPending(t, k) \/ PushPendingFails(t, k)
        PROVE  LibTypeOK' /\ CompilerTypeOK'
    <3> DEFINE c == On(t)
               id == ctx[c]
               doc == pending[c][k]
    <3>0. c \in Compilers
      BY <2>3 DEF PushPending, PushPendingFails, CallInv, CompilerOps
    <3>1. CompilerTypeOK'
      <4>1. /\ pending' = [pending EXCEPT ![c] = [@ EXCEPT ![k] = Nil]]
            /\ UNCHANGED <<ctx, blob, object, wanted>>
        BY <2>3 DEF PushPending, PushPendingFails
      <4>2. PICK b \in BOOLEAN :
               refused' = [refused EXCEPT ![c] = [@ EXCEPT ![k] = b]]
        BY <2>3 DEF PushPending, PushPendingFails
      <4>3. refused' \in [Compilers -> [Kinds -> BOOLEAN]]
        BY <4>2, <3>0 DEF CompilerTypeOK
      <4>4. pending' \in [Compilers -> [Kinds -> Docs \cup {Nil}]]
        BY <4>1, <3>0 DEF CompilerTypeOK
      <4> QED
        BY <4>1, <4>3, <4>4 DEF CompilerTypeOK
    <3>3. UNCHANGED <<registry, created, arg, logFilter>>
      BY <2>3 DEF PushPending, PushPendingFails, RegorConfigure, RegorRefuse
    <3>4. \/ UNCHANGED applied
          \/ applied' = [applied EXCEPT ![registry[id]] = [@ EXCEPT ![k] = doc]]
      BY <2>3 DEF PushPending, PushPendingFails, RegorConfigure, RegorRefuse,
         Configure
    <3>5. applied' \in [Ids -> [Kinds -> Docs \cup {Nil}]]
      <4>1. doc \in Docs \cup {Nil} /\ applied \in [Ids -> [Kinds -> Docs \cup {Nil}]]
        BY <3>0 DEF LibTypeOK, CompilerTypeOK
      <4> HIDE DEF doc, id
      <4> QED
        BY <3>4, <4>1
    <3> QED
      BY <3>1, <3>3, <3>5 DEF LibTypeOK
  <2>4. CASE SetCallbackArg(t)
    BY <2>4 DEF SetCallbackArg, RegorSetCallbackArg, WriterArg, LibTypeOK
  <2>5. CASE SetLogging(t)
    BY <2>5 DEF SetLogging, RegorSetLogging, LibTypeOK, CallTypeOK,
       CallRecords
  <2>6. CASE QueryOk(t)
    BY <2>6 DEF QueryOk, Found, LiveIds, LibTypeOK, CompilerTypeOK
  <2>7. CASE UNCHANGED <<libVars, compilerVars>>
    BY <2>7
  <2> QED
    BY <2>1, <2>2, <2>3, <2>4, <2>5, <2>6, <2>7 DEF Step, LockState,
       SkipInstall, BeginInstall, LockForInstall, SetLoggingFails,
       FailInstall, FinishInstall, LockFfi, Return, ReadError, CreateFails,
       SkipPending, WriteChunk, CompileOk, CompileFails, QueryFails, QueryNone,
       PanicInReport, Fails
<1> QED
  BY <1>1, <1>2, <1>3 DEF TypeOK

LEMMA TypeNext ==
    MonotonicIds /\ TypeOK /\ CallInv /\ [Next]_vars => TypeOK'
<1> SUFFICES ASSUME MonotonicIds, TypeOK, CallInv, [Next]_vars PROVE TypeOK'
  OBVIOUS
<1>1. ASSUME NEW c \in Compilers, NEW k \in Kinds, NEW doc \in Docs,
             RecordConfig(c, k, doc)
      PROVE  TypeOK'
  <2>1. LibTypeOK' /\ LockTypeOK'
    BY <1>1, TypeStutter DEF TypeOK, RecordConfig
  <2>2. CompilerTypeOK' /\ CallTypeOK'
    BY <1>1, Constants DEF TypeOK, CompilerTypeOK, CallTypeOK, RecordConfig,
       Count, outputVars
  <2> QED
    BY <2>1, <2>2 DEF TypeOK
<1>2. ASSUME NEW c \in Compilers, ReleaseBlob(c) PROVE TypeOK'
  <2>1. LibTypeOK' /\ LockTypeOK'
    BY <1>2, TypeStutter DEF TypeOK, ReleaseBlob
  <2>2. CompilerTypeOK' /\ CallTypeOK'
    BY <1>2 DEF TypeOK, CompilerTypeOK, CallTypeOK, ReleaseBlob, outputVars
  <2> QED
    BY <2>1, <2>2 DEF TypeOK
<1>3. CASE UNCHANGED vars
  BY <1>3, TypeStutter DEF vars, TypeOK, CallTypeOK, outputVars
<1> QED
  BY <1>1, <1>2, <1>3, TypeStart, TypeStep DEF Next, Program, Done

(* The type invariant of the bindings over the patched library.            *)
THEOREM TypeCorrect == MonotonicIds /\ Spec => []TypeOK
<1> SUFFICES ASSUME MonotonicIds PROVE Spec => []TypeOK
  OBVIOUS
<1>1. TypeOK /\ CallInv /\ [Next]_vars => (TypeOK /\ CallInv)'
  BY TypeNext, CallNext DEF TypeOK
<1> QED
  BY <1>1, TypeInit, CallInvInit, PTL DEF Spec

-----------------------------------------------------------------------------
(* Installation of the log writer.                                         *)

InstallBase == CallTypeOK /\ ControlInv /\ CallInv

LEMMA InstallInit == Init => InstallInv
BY Constants DEF Init, LibInit, InstallInv

(* What a thread does outside install does not matter to it.               *)
LEMMA InstallMove ==
    ASSUME InstallBase, InstallInv, NEW t \in Threads, NEW p, NEW r,
           pc[t] \notin InstallPcs,
           p \notin {"install_lock", "set_logging", "install_done"},
           pc' = [pc EXCEPT ![t] = p],
           call' = [call EXCEPT ![t] = r] \/ UNCHANGED call,
           UNCHANGED <<logFilter, installVars>>
    PROVE  InstallInv'
BY DEF InstallBase, CallTypeOK, InstallInv, MustInstall, Explicit, Op,
   installVars, InstallPcs

LEMMA InstallStep ==
    ASSUME InstallBase, InstallInv, NEW t \in Threads, Step(t)
    PROVE  InstallInv'
<1> USE Constants DEF InstallBase, InstallPcs
<1>1. CASE LockState(t)
  BY <1>1, InstallMove DEF LockState, Goto, libVars
<1>2. CASE SkipInstall(t) \/ SetLoggingFails(t) \/ FailInstall(t)
  BY <1>2 DEF SkipInstall, SetLoggingFails, FailInstall, AfterInstall, End,
     Goto, InstallInv, MustInstall, Explicit, Op, CallTypeOK, NoCall, libVars,
     installVars
<1>3. CASE BeginInstall(t)
  BY <1>3 DEF BeginInstall, Goto, InstallInv, MustInstall, Explicit, Op,
     CallTypeOK, libVars, installVars
<1>4. CASE LockForInstall(t)
  BY <1>4 DEF LockForInstall, Goto, InstallInv, MustInstall, Explicit, Op,
     CallTypeOK, libVars, installVars
<1>5. CASE SetLogging(t)
  <2>1. \A u \in Threads : pc[u] \in InstallPcs => u = t
    BY <1>5 DEF SetLogging, ControlInv, LockInv
  <2>2. CASE Explicit(t)
    BY <1>5, <2>1, <2>2 DEF SetLogging, RegorSetLogging, Goto, InstallInv,
       MustInstall, Explicit, Op, CallTypeOK
  <2>3. CASE ~Explicit(t)
    <3>1. chosen = Nil
      BY <1>5, <2>1, <2>3 DEF SetLogging, InstallInv, MustInstall
    <3> QED
      BY <1>5, <2>1, <2>3, <3>1 DEF SetLogging, RegorSetLogging, Goto,
         InstallInv, MustInstall, Explicit, Op, CallTypeOK
  <2> QED
    BY <2>2, <2>3
<1>6. CASE FinishInstall(t)
  <2>1. \A u \in Threads : pc[u] \in InstallPcs => u = t
    BY <1>6 DEF FinishInstall, ControlInv, LockInv
  <2> QED
    BY <1>6, <2>1 DEF FinishInstall, AfterInstall, End, Goto, InstallInv,
       MustInstall, Explicit, Op, CallTypeOK, NoCall, libVars
<1>7. CASE LockFfi(t)
  BY <1>7, InstallMove DEF LockFfi, Goto, EntryPoint, libVars
<1>8. CASE Return(t) \/ PanicInReport(t)
  BY <1>8, InstallMove DEF Return, PanicInReport, End, Goto, libVars
<1>9. CASE ReadError(t) \/ CreateFails(t) \/ CompileFails(t) \/ QueryFails(t)
  BY <1>9, InstallMove DEF ReadError, CreateFails, CompileFails, QueryFails,
     Fails, Goto, libVars
<1>10. CASE Create(t) \/ Destroy(t)
  BY <1>10, InstallMove DEF Create, Destroy, RegorCreate, RegorDestroy, Goto
<1>11. ASSUME NEW k \in Kinds,
             SkipPending(t, k) \/ PushPending(t, k) \/ PushPendingFails(t, k)
      PROVE  InstallInv'
  BY <1>11, InstallMove DEF SkipPending, PushPending, PushPendingFails,
     AfterPush, RegorConfigure, RegorRefuse, Kinds, Goto, libVars
<1>12. CASE SetCallbackArg(t) \/ CompileOk(t) \/ QueryOk(t) \/ QueryNone(t)
  BY <1>12, InstallMove DEF SetCallbackArg, CompileOk, QueryOk, QueryNone,
     RegorSetCallbackArg, Goto, libVars
<1>13. CASE WriteChunk(t)
  BY <1>13 DEF WriteChunk, libVars, installVars, InstallInv, MustInstall,
     Explicit, Op
<1> QED
  BY <1>1, <1>2, <1>3, <1>4, <1>5, <1>6, <1>7, <1>8, <1>9, <1>10, <1>11,
     <1>12, <1>13 DEF Step

LEMMA InstallNext == InstallBase /\ InstallInv /\ [Next]_vars => InstallInv'
<1> SUFFICES ASSUME InstallBase, InstallInv, [Next]_vars PROVE InstallInv'
  OBVIOUS
<1>1. ASSUME NEW t \in Threads, Calling(t) PROVE InstallInv'
  <2>1. \E p \in {"install", "lock"} : \E r : Start(t, p, r)
    BY <1>1 DEF Calling, CallInit, CallNew, CallDrop, CallCompile, CallQuery
  <2> QED
    BY <2>1, InstallMove DEF Start, Goto, InstallPcs, libVars
<1>2. CASE UNCHANGED <<libVars, installVars, pc, call>>
  BY <1>2 DEF libVars, installVars, InstallInv, MustInstall, Explicit, Op
<1> QED
  BY <1>1, <1>2, InstallStep DEF Next, Program, RecordConfig, ReleaseBlob,
     Done, vars

(* The untyped rest of the type invariant that InstallBase needs.          *)
LEMMA CallTypeNext == CallTypeOK /\ [Next]_vars => CallTypeOK'
<1> SUFFICES ASSUME CallTypeOK, [Next]_vars PROVE CallTypeOK'
  OBVIOUS
<1>1. ASSUME NEW t \in Threads, Calling(t) PROVE CallTypeOK'
  <2>1. \E p \in {"install", "lock"}, r \in CallRecords : Start(t, p, r)
    BY <1>1, CallsTyped DEF Calling, CallInit, CallNew, CallDrop, CallCompile,
       CallQuery, CompilerOps
  <2> QED
    BY <2>1, Constants DEF Start, Count, Goto, CallTypeOK, PCs, outputVars
<1>2. CASE Program
  BY <1>2, Constants DEF Program, RecordConfig, ReleaseBlob, Count, CallTypeOK,
     outputVars
<1>3. CASE UNCHANGED vars
  BY <1>3 DEF vars, CallTypeOK, outputVars
<1> QED
  BY <1>1, <1>2, <1>3, CallTypeStep DEF Next, Done

LEMMA InstallBaseInvariant == Spec => []InstallBase
<1>1. Init => InstallBase
  BY TypeInit, ControlInit, CallInvInit DEF TypeOK, InstallBase
<1>2. InstallBase /\ [Next]_vars => InstallBase'
  BY CallTypeNext, ControlNext, CallNext DEF InstallBase
<1> QED
  BY <1>1, <1>2, PTL DEF Spec

(* A filter chosen with init stays in force until the next init that       *)
(* succeeds: no implicit installation, however it is interleaved, replaces *)
(* it (logging.rs, InstallState).                                          *)
THEOREM ExplicitWins == Spec => []ExplicitFilterSurvives
<1>1. InstallInv => ExplicitFilterSurvives
  BY DEF InstallInv, ExplicitFilterSurvives
<1>2. InstallInv /\ InstallBase /\ [Next]_vars => InstallInv'
  BY InstallNext
<1> QED
  BY <1>1, <1>2, InstallInit, InstallBaseInvariant, PTL DEF Spec

-----------------------------------------------------------------------------
(* Borrows: who may be using a Compiler while a call on it is in progress. *)

LEMMA BorrowInit == Init => BorrowInv
BY Constants DEF Init, BorrowInv, On, NoCall

(* A thread that goes on with its call keeps its borrow.                   *)
LEMMA BorrowMove ==
    ASSUME CallTypeOK, BorrowInv, NEW t \in Threads, NEW p, pc[t] # "return",
           pc' = [pc EXCEPT ![t] = p], UNCHANGED <<call, ctx, blob>>
    PROVE  BorrowInv'
BY DEF CallTypeOK, BorrowInv, Users, On, Op

(* A thread whose call is over gives its borrow back.                      *)
LEMMA BorrowEnd ==
    ASSUME CallTypeOK, BorrowInv, NEW t \in Threads, End(t),
           UNCHANGED <<ctx, blob>>
    PROVE  BorrowInv'
BY Constants DEF CallTypeOK, BorrowInv, Users, On, Op, End, Goto, NoCall

LEMMA BorrowStart ==
    ASSUME CallTypeOK, CompilerTypeOK, CallInv, BorrowInv,
           NEW t \in Threads, Calling(t)
    PROVE  BorrowInv'
<1> USE Constants DEF CallTypeOK, BorrowInv, Start, Goto, Users, On, Op,
        compilerVars
<1>1. ASSUME NEW f \in Filters, CallInit(t, f) PROVE BorrowInv'
  BY <1>1 DEF CallInit, InstallCall
<1>2. ASSUME NEW c \in Compilers, CallNew(t, c) PROVE BorrowInv'
  BY <1>2 DEF CallNew, CompilerCall
<1>3. ASSUME NEW c \in Compilers, CallDrop(t, c) PROVE BorrowInv'
  BY <1>3 DEF CallDrop, CompilerCall, Exclusive
<1>4. ASSUME NEW c \in Compilers, NEW op \in Compiles, CallCompile(t, c, op)
      PROVE  BorrowInv'
  BY <1>4 DEF CallCompile, CompilerCall, Exclusive, Compiles
<1>5. ASSUME NEW c \in Compilers, NEW op \in Queries, CallQuery(t, c, op)
      PROVE  BorrowInv'
  <2>1. CASE op \in SharedQueries
    BY <1>5, <2>1 DEF CallQuery, CompilerCall, Shared, SharedQueries
  <2>2. CASE op \notin SharedQueries
    BY <1>5, <2>2 DEF CallQuery, CompilerCall, Exclusive, Queries
  <2> QED
    BY <2>1, <2>2
<1> QED
  BY <1>1, <1>2, <1>3, <1>4, <1>5 DEF Calling

LEMMA BorrowStep ==
    ASSUME CallTypeOK, CompilerTypeOK, CallInv, BorrowInv,
           NEW t \in Threads, Step(t)
    PROVE  BorrowInv'
<1>1. CASE LockState(t) \/ BeginInstall(t) \/ LockForInstall(t)
             \/ SetLogging(t) \/ SetLoggingFails(t)
  BY <1>1, BorrowMove DEF LockState, BeginInstall, LockForInstall, SetLogging,
     SetLoggingFails, Goto, compilerVars
<1>2. CASE SkipInstall(t) \/ FailInstall(t) \/ FinishInstall(t)
  BY <1>2, BorrowMove, BorrowEnd DEF SkipInstall, FailInstall, FinishInstall,
     AfterInstall, Goto, compilerVars
<1>3. CASE LockFfi(t) \/ ReadError(t)
  BY <1>3, BorrowMove DEF LockFfi, ReadError, Goto, compilerVars
<1>4. CASE CreateFails(t) \/ CompileFails(t) \/ QueryFails(t)
  BY <1>4, BorrowMove DEF CreateFails, CompileFails, QueryFails, Fails, Goto,
     compilerVars
<1>5. CASE Return(t) \/ PanicInReport(t)
  BY <1>5, BorrowEnd DEF Return, PanicInReport, compilerVars
<1>6. CASE Create(t) \/ Destroy(t)
  <2>1. On(t) \in Compilers /\ Op(t) \notin SharedQueries
    BY <1>6 DEF Create, Destroy, CallInv, CompilerOps, SharedQueries
  <2>2. \A u \in Threads : On(u) = On(t) => u = t
    BY <2>1 DEF BorrowInv, Users
  <2>3. /\ pc' = [pc EXCEPT ![t] = "return"] /\ UNCHANGED <<call, blob>>
        /\ \A c \in Compilers : c # On(t) => ctx'[c] = ctx[c]
    BY <1>6, <2>1 DEF Create, Destroy, Goto, CompilerTypeOK
  <2> QED
    BY <2>1, <2>2, <2>3 DEF BorrowInv, CallTypeOK, Users, On, Op
<1>7. ASSUME NEW k \in Kinds,
             SkipPending(t, k) \/ PushPending(t, k) \/ PushPendingFails(t, k)
      PROVE  BorrowInv'
  BY <1>7, BorrowMove DEF SkipPending, PushPending, PushPendingFails, Kinds,
     Goto, compilerVars
<1>8. CASE SetCallbackArg(t) \/ CompileOk(t) \/ QueryNone(t)
  BY <1>8, BorrowMove DEF SetCallbackArg, CompileOk, QueryNone, Goto,
     compilerVars
<1>9. CASE WriteChunk(t)
  BY <1>9 DEF WriteChunk, compilerVars, BorrowInv, Users, On, Op
<1>10. CASE QueryOk(t)
  <2>1. CASE Op(t) = "get_output_blob"
    <3>1. On(t) \in Compilers /\ Op(t) \notin SharedQueries
      BY <2>1 DEF CallInv, CompilerOps, Queries, SharedQueries
    <3>2. \A u \in Threads : On(u) = On(t) => u = t
      BY <3>1 DEF BorrowInv, Users
    <3>3. /\ pc' = [pc EXCEPT ![t] = "return"] /\ UNCHANGED <<call, ctx>>
          /\ \A c \in Compilers : c # On(t) => blob'[c] = blob[c]
      BY <1>10, <2>1, <3>1 DEF QueryOk, Goto, CompilerTypeOK
    <3> QED
      BY <3>1, <3>2, <3>3 DEF BorrowInv, CallTypeOK, Users, On, Op
  <2>2. CASE Op(t) # "get_output_blob"
    BY <1>10, <2>2, BorrowMove DEF QueryOk, Goto
  <2> QED
    BY <2>1, <2>2
<1> QED
  BY <1>1, <1>2, <1>3, <1>4, <1>5, <1>6, <1>7, <1>8, <1>9, <1>10 DEF Step

LEMMA BorrowNext ==
    CallTypeOK /\ CompilerTypeOK /\ CallInv /\ BorrowInv /\ [Next]_vars
    => BorrowInv'
<1> SUFFICES ASSUME CallTypeOK, CompilerTypeOK, CallInv, BorrowInv, [Next]_vars
             PROVE  BorrowInv'
  OBVIOUS
<1>1. ASSUME NEW c \in Compilers, ReleaseBlob(c) PROVE BorrowInv'
  BY <1>1 DEF ReleaseBlob, BorrowInv, Users, On, Op, CompilerTypeOK
<1>2. CASE UNCHANGED <<pc, call, ctx, blob>>
  BY <1>2 DEF BorrowInv, Users, On, Op
<1> QED
  BY <1>1, <1>2, BorrowStart, BorrowStep DEF Next, Program, RecordConfig,
     Done, vars, compilerVars

-----------------------------------------------------------------------------
(* Context ids, with the patch.                                            *)

LEMMA IdInit == Init => IdInv
BY Constants DEF Init, LibInit, IdInv, LiveIds, NoContext, Ids

LEMMA IdCreate ==
    ASSUME MonotonicIds, TypeOK, CallInv, BorrowInv, IdInv,
           NEW t \in Threads, Create(t)
    PROVE  IdInv'
<1> DEFINE c == On(t)
           n == created + 1
<1> USE DEF TypeOK, LibTypeOK, CompilerTypeOK
<1>1. c \in Compilers /\ ctx[c] = NoContext
  BY DEF Create, CallInv, BorrowInv, CompilerOps
<1>2. NewId = n
  BY DEF NewId, PatchedId
<1>3. /\ n \in Ids /\ n # NoContext /\ created' = n
      /\ registry' = [registry EXCEPT ![n] = n]
      /\ ctx' = [ctx EXCEPT ![c] = n] /\ object' = [object EXCEPT ![c] = n]
      /\ blob' = blob
  BY Constants, <1>2 DEF Create, RegorCreate, Ids, NoContext
<1>4. \A d \in Compilers : ctx[d] <= created /\ ctx[d] # n
  BY DEF IdInv, Ids, NoContext
<1>5. \A i \in Ids : registry'[i] = IF i = n THEN n ELSE registry[i]
  BY <1>3
<1>6. \A d \in Compilers :
         /\ ctx'[d] = (IF d = c THEN n ELSE ctx[d])
         /\ object'[d] = (IF d = c THEN n ELSE object[d])
  BY <1>1, <1>3
<1> HIDE DEF c, n
<1>7. ASSUME NEW d \in Compilers
      PROVE  /\ ctx'[d] <= created' /\ object'[d] = ctx'[d]
             /\ ctx'[d] # NoContext => registry'[ctx'[d]] = ctx'[d]
             /\ blob'[d] \in {NoContext, ctx'[d]}
  <2>1. created' = created + 1 /\ ctx[d] <= created
    BY <1>3, <1>4 DEF n
  <2>2. CASE d = c
    BY <1>1, <1>3, <1>5, <1>6, <2>1, <2>2 DEF IdInv, Ids, NoContext
  <2>3. CASE d # c
    <3>1. /\ ctx[d] \in Ids \cup {NoContext} /\ object[d] = ctx[d]
          /\ ctx[d] # NoContext => registry[ctx[d]] = ctx[d]
          /\ blob[d] \in {NoContext, ctx[d]}
      BY DEF IdInv
    <3> QED
      BY <1>3, <1>4, <1>5, <1>6, <2>1, <2>3, <3>1 DEF Ids, NoContext
  <2> QED
    BY <2>2, <2>3
<1>8. \A d, e \in Compilers : ctx'[d] = ctx'[e] /\ ctx'[d] # NoContext => d = e
  BY <1>1, <1>4, <1>6 DEF IdInv
<1>9. \A i \in Ids : registry'[i] # NoContext =>
         registry'[i] = i /\ \E d \in Compilers : ctx'[d] = i
  <2> SUFFICES ASSUME NEW i \in Ids, registry'[i] # NoContext
               PROVE  registry'[i] = i /\ \E d \in Compilers : ctx'[d] = i
    OBVIOUS
  <2>1. CASE i = n
    BY <1>1, <1>5, <1>6, <2>1
  <2>2. CASE i # n
    <3>1. PICK d \in Compilers : ctx[d] = i
      BY <1>5, <2>2 DEF IdInv, LiveIds
    <3>2. ctx'[d] = i
      BY Constants, <1>1, <1>6, <3>1 DEF Ids, NoContext
    <3> QED
      BY <1>5, <2>2, <3>2 DEF IdInv, LiveIds
  <2> QED
    BY <2>1, <2>2
<1> QED
  BY <1>7, <1>8, <1>9 DEF IdInv, LiveIds

LEMMA IdDestroy ==
    ASSUME TypeOK, CallInv, BorrowInv, IdInv, NEW t \in Threads, Destroy(t)
    PROVE  IdInv'
<1> DEFINE c == On(t)
<1> USE DEF TypeOK, LibTypeOK, CompilerTypeOK
<1>1. c \in Compilers /\ ctx[c] # NoContext /\ blob[c] = NoContext
  BY DEF Destroy, CallInv, BorrowInv, CompilerOps
<1>2. /\ created' = created /\ blob' = blob
      /\ \A i \in Ids : registry'[i] = IF i = ctx[c] THEN NoContext
                                        ELSE registry[i]
      /\ \A d \in Compilers :
            /\ ctx'[d] = (IF d = c THEN NoContext ELSE ctx[d])
            /\ object'[d] = (IF d = c THEN NoContext ELSE object[d])
  BY <1>1 DEF Destroy, RegorDestroy
<1> HIDE DEF c
<1>3. \A d \in Compilers : /\ ctx'[d] <= created' /\ object'[d] = ctx'[d]
                           /\ blob'[d] \in {NoContext, ctx'[d]}
  BY <1>1, <1>2 DEF IdInv, NoContext
<1>4. \A d \in Compilers : ctx'[d] # NoContext => registry'[ctx'[d]] = ctx'[d]
  BY <1>1, <1>2 DEF IdInv
<1>5. \A d, e \in Compilers : ctx'[d] = ctx'[e] /\ ctx'[d] # NoContext => d = e
  BY <1>2 DEF IdInv
<1>6. \A i \in Ids : registry'[i] # NoContext =>
         registry'[i] = i /\ \E d \in Compilers : ctx'[d] = i
  BY <1>1, <1>2, SMTT(30) DEF IdInv, LiveIds
<1> QED
  BY <1>3, <1>4, <1>5, <1>6 DEF IdInv, LiveIds

(* The rest: only get_output_blob and the end of its borrow touch any of   *)
(* the variables of IdInv.                                                 *)
LEMMA IdStutter ==
    IdInv /\ UNCHANGED <<registry, created, ctx, object, blob>> => IdInv'
BY DEF IdInv, LiveIds

LEMMA IdStep ==
    ASSUME MonotonicIds, TypeOK, CallInv, BorrowInv, IdInv,
           NEW t \in Threads, Step(t)
    PROVE  IdInv'
<1>1. CASE Create(t)
  BY <1>1, IdCreate
<1>2. CASE Destroy(t)
  BY <1>2, IdDestroy
<1>3. CASE QueryOk(t)
  <2>1. \A c \in Compilers : blob'[c] \in {blob[c], registry[ctx[On(t)]]}
    BY <1>3 DEF QueryOk, TypeOK, CompilerTypeOK
  <2>2. /\ UNCHANGED <<registry, created, ctx, object>>
        /\ \A c \in Compilers : blob'[c] \in {NoContext, ctx'[c]}
    BY <1>3 DEF QueryOk, TypeOK, CompilerTypeOK, IdInv, CallInv, CompilerOps,
       Found, LiveIds, libVars
  <2> QED
    BY <2>2 DEF IdInv, LiveIds
<1>4. CASE UNCHANGED <<registry, created, ctx, object, blob>>
  BY <1>4, IdStutter
<1> QED
  BY <1>1, <1>2, <1>3, <1>4 DEF Step, LockState, SkipInstall, BeginInstall,
     LockForInstall, SetLogging, SetLoggingFails, FailInstall, FinishInstall,
     LockFfi, Return, ReadError, CreateFails, SkipPending, PushPending,
     PushPendingFails, SetCallbackArg, WriteChunk, CompileOk, CompileFails,
     QueryFails, QueryNone, PanicInReport, Fails, RegorSetLogging,
     RegorConfigure, RegorRefuse, RegorSetCallbackArg, libVars, compilerVars

HandleInv == TypeOK /\ CallInv /\ BorrowInv /\ IdInv

LEMMA HandleNext == MonotonicIds /\ HandleInv /\ [Next]_vars => HandleInv'
<1> SUFFICES ASSUME MonotonicIds, HandleInv, [Next]_vars PROVE HandleInv'
  OBVIOUS
<1>1. TypeOK' /\ CallInv' /\ BorrowInv'
  BY TypeNext, CallNext, BorrowNext DEF HandleInv, TypeOK
<1>2. ASSUME NEW t \in Threads, Calling(t) PROVE IdInv'
  BY <1>2, IdStutter DEF HandleInv, Calling, CallInit, CallNew, CallDrop,
     CallCompile, CallQuery, Start, libVars, compilerVars
<1>3. ASSUME NEW c \in Compilers, ReleaseBlob(c) PROVE IdInv'
  BY <1>3 DEF HandleInv, TypeOK, CompilerTypeOK, ReleaseBlob, IdInv, LiveIds,
     libVars
<1>4. ASSUME NEW c \in Compilers, NEW k \in Kinds, NEW doc \in Docs,
             RecordConfig(c, k, doc)
      PROVE  IdInv'
  BY <1>4, IdStutter DEF HandleInv, RecordConfig, libVars
<1>5. ASSUME UNCHANGED vars PROVE IdInv'
  <2>1. UNCHANGED <<registry, created, ctx, object, blob>>
    BY <1>5 DEF vars, libVars, compilerVars
  <2> QED
    BY <2>1, IdStutter DEF HandleInv
<1>6. IdInv'
  BY <1>2, <1>3, <1>4, <1>5, IdStep DEF HandleInv, Next, Program, Done
<1> QED
  BY <1>1, <1>6 DEF HandleInv

LEMMA HandleInvariant == MonotonicIds /\ Spec => []HandleInv
<1> SUFFICES ASSUME MonotonicIds PROVE Spec => []HandleInv
  OBVIOUS
<1>1. Init => HandleInv
  BY TypeInit, CallInvInit, BorrowInit, IdInit DEF HandleInv
<1>2. HandleInv /\ [Next]_vars => HandleInv'
  BY HandleNext
<1> QED
  BY <1>1, <1>2, PTL DEF Spec

(* Over the patched library a Compiler, and a Blob borrowed from it, keep  *)
(* referring to the C++ object made for that Compiler, whatever other      *)
(* threads create and drop (patches/README.md).                            *)
THEOREM HandlesStayIntact == MonotonicIds /\ Spec => []HandlesIntact
<1>1. HandleInv => HandlesIntact
  BY Constants DEF HandleInv, TypeOK, LibTypeOK, CompilerTypeOK, IdInv,
     HandlesIntact, Found, LiveIds, Ids, NoContext
<1> QED
  BY <1>1, HandleInvariant, PTL

(* No C++ object outlives its Compiler value.                              *)
THEOREM NoContextLeaks == MonotonicIds /\ Spec => []NoOrphanContext
<1>1. HandleInv => NoOrphanContext
  BY DEF HandleInv, IdInv, NoOrphanContext
<1> QED
  BY <1>1, HandleInvariant, PTL

-----------------------------------------------------------------------------
(* The output of a compile.                                                *)

BaseInv == ControlInv /\ HandleInv

LEMMA BaseInvariant == MonotonicIds /\ Spec => []BaseInv
<1> SUFFICES ASSUME MonotonicIds PROVE Spec => []BaseInv
  OBVIOUS
<1> QED
  BY HandleInvariant, ControlInit, ControlNext, PTL DEF Spec, BaseInv

LEMMA OutputInit == Init => OutputInv
BY DEF Init, OutputInv, Op, On, NoCall

(* A step of t that leaves the chunks and the writers' arguments alone, and *)
(* does not begin or end a call or enter regor_compile.                    *)
LEMMA OutputMove ==
    ASSUME BaseInv, OutputInv, NEW t \in Threads, NEW p \in PCs,
           Goto(t, p), UNCHANGED <<arg, buf, sent, call>>,
           p # "compiling",
           pc[t] \in {"compiling", "error", "return"}
             => p \in {"error", "return"},
           \A u \in Threads : u # t /\ pc[u] = "compiling" => UNCHANGED ctx
    PROVE  OutputInv'
BY DEF BaseInv, ControlInv, OutputInv, Goto, Op, On, WriterArg

(* One that ends a call which was not a compile.                           *)
LEMMA OutputEnd ==
    ASSUME BaseInv, OutputInv, NEW t \in Threads,
           End(t), UNCHANGED <<arg, ctx, buf, sent>>,
           Op(t) # "compile",
           pc[t] \notin {"compiling", "error", "return"}
    PROVE  OutputInv'
BY DEF BaseInv, ControlInv, HandleInv, TypeOK, CallTypeOK, OutputInv, End,
   Goto, Op, On, NoCall, WriterArg

LEMMA OutputStart ==
    ASSUME BaseInv, OutputInv, NEW t \in Threads, NEW p \in {"install", "lock"},
           NEW r \in CallRecords, Start(t, p, r)
    PROVE  OutputInv'
<1>1. Op(t) = "none" /\ buf[t] = 0 /\ sent[t] = 0
  BY DEF BaseInv, HandleInv, CallInv, OutputInv, Start
<1> QED
  BY <1>1 DEF BaseInv, ControlInv, HandleInv, TypeOK, CallTypeOK, OutputInv,
     Start, Goto, Op, On, WriterArg, libVars, compilerVars, outputVars

(* A thread inside a call on a context the library knows under its number. *)
LEMMA OwnContext ==
    ASSUME BaseInv, NEW t \in Threads,
           pc[t] \in {"callback_arg", "compiling"}
    PROVE  /\ On(t) \in Compilers /\ Op(t) \in Compiles
           /\ ctx[On(t)] \in Ids /\ ctx[On(t)] \in LiveIds
           /\ registry[ctx[On(t)]] = ctx[On(t)]
           /\ object[On(t)] = ctx[On(t)]
<1>1. On(t) \in Compilers /\ Op(t) \in Compiles
  BY DEF BaseInv, HandleInv, CallInv, CompilerOps
<1>2. ctx[On(t)] # NoContext
  BY <1>1 DEF BaseInv, HandleInv, BorrowInv, Compiles
<1> QED
  BY <1>1, <1>2 DEF BaseInv, HandleInv, TypeOK, CompilerTypeOK, IdInv,
     LiveIds, Ids, NoContext

(* Only the thread holding the FFI lock is at a place it guards.           *)
LEMMA OneGuarded ==
    ASSUME BaseInv, NEW t \in Threads, NEW u \in Threads,
           pc[t] \in GuardedPcs, pc[u] \in GuardedPcs
    PROVE  u = t
BY DEF BaseInv, ControlInv, LockInv

LEMMA OutputStep ==
    ASSUME BaseInv, OutputInv, NEW t \in Threads, Step(t)
    PROVE  OutputInv'
<1> USE DEF PCs, GuardedPcs, LibraryPcs, InstallPcs, Kinds
<1>1. ASSUME NEW u \in Threads, u # t, pc[u] = "compiling"
      PROVE  pc[t] \notin GuardedPcs
  BY <1>1, OneGuarded
<1>2. CASE LockState(t) \/ BeginInstall(t) \/ LockForInstall(t)
             \/ SetLoggingFails(t)
  BY <1>2, OutputMove DEF LockState, BeginInstall, LockForInstall,
     SetLoggingFails, libVars, compilerVars, outputVars
<1>3. CASE SetLogging(t)
  BY <1>3, OutputMove DEF SetLogging, RegorSetLogging, compilerVars,
     outputVars
<1>4. CASE SkipInstall(t) \/ FailInstall(t) \/ FinishInstall(t)
  BY <1>4, OutputMove, OutputEnd DEF SkipInstall, FailInstall, FinishInstall,
     AfterInstall, Explicit, libVars, compilerVars, outputVars
<1>5. CASE LockFfi(t)
  BY <1>5, OutputMove DEF LockFfi, EntryPoint, libVars, compilerVars,
     outputVars
<1>6. CASE ReadError(t) \/ CreateFails(t) \/ CompileFails(t) \/ QueryFails(t)
           \/ QueryOk(t) \/ QueryNone(t) \/ CompileOk(t)
  BY <1>6, OutputMove DEF ReadError, CreateFails, CompileFails, QueryFails,
     QueryOk, QueryNone, CompileOk, Fails, libVars, compilerVars, outputVars
<1>7. CASE Create(t)
  BY <1>1, <1>7, OutputMove DEF Create, RegorCreate, outputVars
<1>8. CASE PanicInReport(t)
  BY <1>8, OutputEnd DEF PanicInReport, libVars, compilerVars, outputVars
<1>9. ASSUME NEW k \in Kinds,
             SkipPending(t, k) \/ PushPending(t, k) \/ PushPendingFails(t, k)
      PROVE  OutputInv'
  BY <1>9, OutputMove DEF SkipPending, PushPending, PushPendingFails,
     AfterPush, RegorConfigure, RegorRefuse, libVars, compilerVars, outputVars
<1>10. CASE Return(t)
  BY <1>10 DEF Return, BaseInv, ControlInv, HandleInv, TypeOK, CallTypeOK,
     OutputInv, End, Goto, Op, On, NoCall, WriterArg, libVars, compilerVars
<1>11. CASE Destroy(t)
  BY <1>1, <1>11 DEF Destroy, BaseInv, ControlInv, OutputInv, Goto, Op, On,
     WriterArg, outputVars
<1>12. CASE SetCallbackArg(t)
  <2>1. arg'[ctx[On(t)]] = WriterArg(t)
    BY <1>12, OwnContext DEF SetCallbackArg, RegorSetCallbackArg, Found
  <2> QED
    BY <1>1, <1>12, <2>1 DEF SetCallbackArg, BaseInv, ControlInv, OutputInv,
       Goto, Op, On, WriterArg, compilerVars, outputVars
<1>13. CASE WriteChunk(t)
  <2>1. arg[registry[ctx[On(t)]]] = WriterArg(t)
    BY <1>13, OwnContext DEF WriteChunk, OutputInv
  <2>2. Op(t) \in Compiles
    BY <1>13, OwnContext DEF WriteChunk
  <2>3. sent' = [sent EXCEPT ![t] = sent[t] + 1]
    BY <1>13 DEF WriteChunk
  <2>4. buf' = [u \in Threads |-> IF Op(t) = "compile" /\ u = t
                                  THEN buf[u] + 1 ELSE buf[u]]
    BY <1>13, <2>1, <2>2, NilAssumption DEF WriteChunk, WriterArg, BaseInv,
       HandleInv, TypeOK, CallTypeOK
  <2> QED
    BY <1>13, <2>3, <2>4 DEF WriteChunk, OutputInv, BaseInv, HandleInv,
       TypeOK, CallTypeOK, Op, On, WriterArg, libVars, compilerVars
<1> QED
  BY <1>2, <1>3, <1>4, <1>5, <1>6, <1>7, <1>8, <1>9, <1>10, <1>11, <1>12,
     <1>13 DEF Step

LEMMA OutputNext == BaseInv /\ OutputInv /\ [Next]_vars => OutputInv'
<1> SUFFICES ASSUME BaseInv, OutputInv, [Next]_vars PROVE OutputInv'
  OBVIOUS
<1>1. ASSUME NEW t \in Threads, Calling(t) PROVE OutputInv'
  <2>1. \E p \in {"install", "lock"}, r \in CallRecords : Start(t, p, r)
    BY <1>1, CallsTyped DEF Calling, CallInit, CallNew, CallDrop, CallCompile,
       CallQuery, CompilerOps, Compiles, Queries
  <2> QED
    BY <2>1, OutputStart
<1>2. CASE Program \/ Done \/ UNCHANGED vars
  BY <1>2 DEF Program, ReleaseBlob, RecordConfig, Done, vars, libVars,
     compilerVars, outputVars, OutputInv, Op, On, WriterArg
<1> QED
  BY <1>1, <1>2, OutputStep DEF Next

(* The Output of a compile holds the chunks written in it and nothing      *)
(* else, and the library's writer points at the frame of that compile.     *)
THEOREM OutputComplete == MonotonicIds /\ Spec => []OutputWhole
<1> SUFFICES ASSUME MonotonicIds PROVE Spec => []OutputWhole
  OBVIOUS
<1>1. BaseInv /\ OutputInv => OutputWhole
  BY OwnContext DEF OutputInv, OutputWhole
<1> QED
  BY <1>1, BaseInvariant, OutputInit, OutputNext, PTL DEF Spec

-----------------------------------------------------------------------------
(* The documents a compile runs with.                                      *)

LEMMA ConfigInit == Init => ConfigInv
BY DEF Init, LibInit, ConfigInv, Unconfigured, LiveIds, Kinds, NoContext

ConfiguringPcs == {"options", "callback_arg", "compiling"}

(* A step of t that touches no document: it may only move forward through  *)
(* apply_pending if what it leaves behind is no longer pending.            *)
LEMMA ConfigMove ==
    ASSUME BaseInv, ConfigInv, NEW t \in Threads, NEW p \in PCs,
           Goto(t, p), UNCHANGED <<registry, applied, compilerVars>>,
           p \in ConfiguringPcs => UNCHANGED call,
           \A u \in Threads : u # t => call'[u] = call[u],
           p \in ConfiguringPcs => pending[On(t)]["system_config"] = Nil,
           p \in {"callback_arg", "compiling"} => pending[On(t)]["options"] = Nil
    PROVE  ConfigInv'
BY DEF BaseInv, ControlInv, ConfigInv, Goto, On, LiveIds, compilerVars,
   ConfiguringPcs

LEMMA ConfigCreate ==
    ASSUME MonotonicIds, BaseInv, ConfigInv, NEW t \in Threads, Create(t)
    PROVE  ConfigInv'
<1> DEFINE c == On(t)
<1>1. c \in Compilers /\ ctx[c] = NoContext
  BY DEF Create, BaseInv, HandleInv, CallInv, BorrowInv, CompilerOps
<1>2. created + 1 \in Ids /\ created + 1 \notin LiveIds
  BY Constants DEF Create, RegorCreate, BaseInv, HandleInv, TypeOK,
     LibTypeOK, IdInv, Ids
<1>3. /\ ctx' = [ctx EXCEPT ![c] = created + 1]
      /\ registry' = [registry EXCEPT ![created + 1] = created + 1]
      /\ UNCHANGED <<applied, pending, wanted, refused, call>>
  BY DEF Create, RegorCreate, NewId, PatchedId
<1>4. /\ \A i \in Ids : i \notin LiveIds' => i \notin LiveIds
      /\ applied[created + 1] = Unconfigured
  BY <1>2, <1>3 DEF LiveIds, ConfigInv, BaseInv, HandleInv, TypeOK,
     LibTypeOK, NoContext, Ids
<1>5. \A d \in Compilers : ctx'[d] = IF d = c THEN created + 1 ELSE ctx[d]
  BY <1>1, <1>3 DEF BaseInv, HandleInv, TypeOK, CompilerTypeOK
<1>6. \A d \in Compilers, k \in Kinds :
          /\ pending'[d][k] \in {Nil, wanted'[d][k]}
          /\ ctx'[d] = NoContext => wanted'[d][k] = Nil
          /\ pending'[d][k] = Nil /\ ~refused'[d][k] /\ ctx'[d] # NoContext
               => applied'[ctx'[d]][k] = wanted'[d][k]
  BY <1>1, <1>2, <1>3, <1>4, <1>5 DEF ConfigInv, Unconfigured, Ids, NoContext
<1>7. \A u \in Threads : pc'[u] = IF u = t THEN "return" ELSE pc[u]
  BY DEF Create, Goto, BaseInv, ControlInv
<1> QED
  BY <1>3, <1>4, <1>6, <1>7 DEF ConfigInv, On

LEMMA ConfigDestroy ==
    ASSUME BaseInv, ConfigInv, NEW t \in Threads, Destroy(t)
    PROVE  ConfigInv'
<1> DEFINE c == On(t)
<1>1. c \in Compilers /\ ctx[c] # NoContext
  BY DEF Destroy, BaseInv, HandleInv, CallInv, BorrowInv, CompilerOps
<1>2. ctx[c] \in Ids /\ ctx[c] \in LiveIds /\ registry[ctx[c]] = ctx[c]
  BY <1>1 DEF BaseInv, HandleInv, TypeOK, CompilerTypeOK, IdInv, LiveIds,
     Ids, NoContext
<1>3. /\ \A o \in Ids : applied'[o] = IF o = ctx[c] THEN Unconfigured
                                                   ELSE applied[o]
      /\ \A i \in Ids : i \notin LiveIds' => i = ctx[c] \/ i \notin LiveIds
  BY <1>2 DEF Destroy, RegorDestroy, Found, LiveIds
<1>4. /\ \A d \in Compilers :
            /\ ctx'[d] = IF d = c THEN NoContext ELSE ctx[d]
            /\ pending'[d] = IF d = c THEN Unconfigured ELSE pending[d]
            /\ wanted'[d] = IF d = c THEN Unconfigured ELSE wanted[d]
            /\ d # c => refused'[d] = refused[d]
      /\ call' = call
  BY DEF Destroy, BaseInv, HandleInv, TypeOK, CompilerTypeOK
<1>5. \A d \in Compilers : ctx[d] # NoContext =>
          ctx[d] \in Ids /\ (ctx[d] = ctx[c] => d = c)
  BY <1>1 DEF BaseInv, HandleInv, TypeOK, CompilerTypeOK, IdInv
<1>6. \A d \in Compilers, k \in Kinds :
          /\ pending'[d][k] \in {Nil, wanted'[d][k]}
          /\ ctx'[d] = NoContext => wanted'[d][k] = Nil
          /\ pending'[d][k] = Nil /\ ~refused'[d][k] /\ ctx'[d] # NoContext
               => applied'[ctx'[d]][k] = wanted'[d][k]
  BY <1>3, <1>4, <1>5 DEF ConfigInv, Unconfigured
<1>7. \A i \in Ids : i \notin LiveIds' => applied'[i] = Unconfigured
  BY <1>3 DEF ConfigInv
<1>8. \A u \in Threads : /\ pc'[u] \in ConfiguringPcs
                           => u # t /\ pc'[u] = pc[u] /\ pc[u] \in GuardedPcs
  BY DEF Destroy, Goto, BaseInv, ControlInv, ConfiguringPcs, GuardedPcs,
     LibraryPcs, Kinds
<1>9. \A u \in Threads : pc'[u] \notin ConfiguringPcs
  BY <1>8, OneGuarded DEF Destroy, GuardedPcs, LibraryPcs
<1> QED
  BY <1>6, <1>7, <1>9 DEF ConfigInv, ConfiguringPcs

(* The thread that pushes a document is alone in apply_pending.            *)
LEMMA ConfigPush ==
    ASSUME BaseInv, ConfigInv, NEW t \in Threads, NEW k \in Kinds,
           PushPending(t, k) \/ PushPendingFails(t, k)
    PROVE  ConfigInv'
<1> DEFINE c == On(t)
<1>1. c \in Compilers /\ ctx[c] # NoContext
  BY DEF PushPending, PushPendingFails, BaseInv, HandleInv, CallInv,
     BorrowInv, CompilerOps, Compiles, Kinds
<1>2. ctx[c] \in Ids /\ ctx[c] \in LiveIds /\ registry[ctx[c]] = ctx[c]
  BY <1>1 DEF BaseInv, HandleInv, TypeOK, CompilerTypeOK, IdInv, LiveIds,
     Ids, NoContext
<1>3. pending[c][k] = wanted[c][k]
  BY <1>1 DEF PushPending, PushPendingFails, ConfigInv
<1>4. \/ applied' = applied
      \/ applied' = [applied EXCEPT ![ctx[c]] = [@ EXCEPT ![k] = wanted[c][k]]]
  BY <1>2, <1>3 DEF PushPending, PushPendingFails, RegorConfigure, RegorRefuse,
     Configure
<1>5. \A i \in Ids, l \in Kinds :
          i # ctx[c] \/ l # k => applied'[i][l] = applied[i][l]
  BY <1>4 DEF BaseInv, HandleInv, TypeOK, LibTypeOK
<1>6. /\ \A d \in Compilers, l \in Kinds :
            /\ pending'[d][l] = IF d = c /\ l = k THEN Nil ELSE pending[d][l]
            /\ d # c \/ l # k => refused'[d][l] = refused[d][l]
      /\ UNCHANGED <<registry, ctx, wanted, call>>
  BY DEF PushPending, PushPendingFails, RegorConfigure, RegorRefuse,
     BaseInv, HandleInv, TypeOK, CompilerTypeOK
<1>7. refused'[c][k] \/ applied'[ctx[c]][k] = wanted[c][k]
  BY <1>1, <1>2, <1>3 DEF PushPending, PushPendingFails, RegorConfigure,
     Configure, BaseInv, HandleInv, TypeOK, LibTypeOK, CompilerTypeOK
<1>8. \A d \in Compilers : ctx[d] # NoContext =>
          ctx[d] \in Ids /\ (ctx[d] = ctx[c] => d = c)
  BY <1>1 DEF BaseInv, HandleInv, TypeOK, CompilerTypeOK, IdInv
<1>9. \A d \in Compilers, l \in Kinds :
          /\ pending'[d][l] \in {Nil, wanted'[d][l]}
          /\ ctx'[d] = NoContext => wanted'[d][l] = Nil
          /\ pending'[d][l] = Nil /\ ~refused'[d][l] /\ ctx'[d] # NoContext
               => applied'[ctx'[d]][l] = wanted'[d][l]
  BY <1>5, <1>6, <1>7, <1>8 DEF ConfigInv
<1>10. \A i \in Ids : i \notin LiveIds' => applied'[i] = Unconfigured
  BY <1>2, <1>4, <1>6 DEF ConfigInv, LiveIds, BaseInv, HandleInv, TypeOK,
     LibTypeOK
<1>11. \A u \in Threads : pc'[u] \in ConfiguringPcs => u = t
  BY OneGuarded DEF PushPending, PushPendingFails, Goto, BaseInv,
     ControlInv, ConfiguringPcs, GuardedPcs, LibraryPcs, Kinds
<1>12. /\ pc'[t] \in ConfiguringPcs => pending'[c]["system_config"] = Nil
       /\ pc'[t] \in {"callback_arg", "compiling"}
            => pending'[c]["options"] = Nil
  BY <1>1, <1>6 DEF PushPending, PushPendingFails, Goto, AfterPush,
     ConfiguringPcs, ConfigInv, BaseInv, ControlInv, Kinds
<1> QED
  BY <1>6, <1>9, <1>10, <1>11, <1>12 DEF ConfigInv, ConfiguringPcs, On

LEMMA ConfigStep ==
    ASSUME MonotonicIds, BaseInv, ConfigInv, NEW t \in Threads, Step(t)
    PROVE  ConfigInv'
<1> USE DEF PCs, GuardedPcs, LibraryPcs, InstallPcs, Kinds, ConfiguringPcs
<1>1. CASE Create(t) \/ Destroy(t)
  BY <1>1, ConfigCreate, ConfigDestroy
<1>2. CASE LockState(t) \/ BeginInstall(t) \/ LockForInstall(t)
             \/ SetLoggingFails(t) \/ LockFfi(t)
  BY <1>2, ConfigMove DEF LockState, BeginInstall, LockForInstall,
     SetLoggingFails, LockFfi, EntryPoint, libVars
<1>3. CASE SetLogging(t)
  BY <1>3, ConfigMove DEF SetLogging, RegorSetLogging
<1>4. CASE SkipInstall(t) \/ FailInstall(t) \/ FinishInstall(t)
  BY <1>4, ConfigMove DEF SkipInstall, FailInstall, FinishInstall, AfterInstall,
     End, BaseInv, HandleInv, TypeOK, CallTypeOK, libVars
<1>5. CASE Return(t) \/ PanicInReport(t)
  BY <1>5, ConfigMove DEF Return, PanicInReport, End, BaseInv, HandleInv,
     TypeOK, CallTypeOK, libVars
<1>6. CASE ReadError(t) \/ CreateFails(t) \/ CompileFails(t) \/ QueryFails(t)
           \/ QueryNone(t) \/ CompileOk(t)
  BY <1>6, ConfigMove DEF ReadError, CreateFails, CompileFails, QueryFails,
     QueryNone, CompileOk, Fails, libVars
<1>7. CASE QueryOk(t)
  BY <1>7 DEF QueryOk, Goto, BaseInv, ControlInv, ConfigInv, On, LiveIds,
     libVars
<1>8. ASSUME NEW k \in Kinds, SkipPending(t, k) PROVE ConfigInv'
  BY <1>8, ConfigMove DEF SkipPending, AfterPush, ConfigInv, libVars
<1>9. ASSUME NEW k \in Kinds, PushPending(t, k) \/ PushPendingFails(t, k)
      PROVE  ConfigInv'
  BY <1>9, ConfigPush
<1>10. CASE SetCallbackArg(t)
  BY <1>10, ConfigMove DEF SetCallbackArg, RegorSetCallbackArg, ConfigInv
<1>11. CASE WriteChunk(t)
  BY <1>11 DEF WriteChunk, ConfigInv, On, LiveIds, libVars, compilerVars
<1> QED
  BY <1>1, <1>2, <1>3, <1>4, <1>5, <1>6, <1>7, <1>8, <1>9, <1>10, <1>11
     DEF Step

(* A document is recorded on a Compiler nobody is using.                   *)
LEMMA ConfigRecord ==
    ASSUME BaseInv, ConfigInv, NEW c \in Compilers, NEW k \in Kinds,
           NEW doc \in Docs, RecordConfig(c, k, doc)
    PROVE  ConfigInv'
<1>1. /\ \A d \in Compilers, l \in Kinds :
            /\ pending'[d][l] = IF d = c /\ l = k THEN doc ELSE pending[d][l]
            /\ wanted'[d][l] = IF d = c /\ l = k THEN doc ELSE wanted[d][l]
      /\ UNCHANGED <<registry, applied, ctx, refused, pc, call>>
  BY DEF RecordConfig, libVars, BaseInv, HandleInv, TypeOK, CompilerTypeOK
<1>2. ctx[c] # NoContext /\ \A u \in Threads : On(u) # c
  BY DEF RecordConfig, Exclusive, Users
<1>3. \A u \in Threads : pc[u] \in ConfiguringPcs => On(u) \in Compilers
  BY DEF BaseInv, HandleInv, CallInv, ConfiguringPcs, CompilerOps, Kinds
<1> QED
  BY <1>1, <1>2, <1>3, NilAssumption DEF ConfigInv, ConfiguringPcs, LiveIds, On,
     Kinds

LEMMA ConfigNext ==
    MonotonicIds /\ BaseInv /\ ConfigInv /\ [Next]_vars => ConfigInv'
<1> SUFFICES ASSUME MonotonicIds, BaseInv, ConfigInv, [Next]_vars
             PROVE  ConfigInv'
  OBVIOUS
<1>1. ASSUME NEW t \in Threads, Calling(t) PROVE ConfigInv'
  <2>1. \E p \in {"install", "lock"}, r \in CallRecords : Start(t, p, r)
    BY <1>1, CallsTyped DEF Calling, CallInit, CallNew, CallDrop, CallCompile,
       CallQuery, CompilerOps
  <2> QED
    BY <2>1, ConfigMove DEF Start, BaseInv, HandleInv, TypeOK, CallTypeOK,
       ConfiguringPcs, PCs, libVars
<1>2. ASSUME NEW c \in Compilers, ReleaseBlob(c) PROVE ConfigInv'
  BY <1>2 DEF ReleaseBlob, ConfigInv, On, LiveIds, libVars
<1>3. CASE UNCHANGED vars
  BY <1>3 DEF vars, ConfigInv, On, LiveIds, libVars, compilerVars
<1> QED
  BY <1>1, <1>2, <1>3, ConfigStep, ConfigRecord DEF Next, Program, Done

(* A compile runs with the documents last recorded on its Compiler, except *)
(* those the library refused earlier.                                      *)
THEOREM CompileIsConfigured == MonotonicIds /\ Spec => []CompileUsesRecorded
<1> SUFFICES ASSUME MonotonicIds PROVE Spec => []CompileUsesRecorded
  OBVIOUS
<1>1. ASSUME BaseInv, ConfigInv PROVE CompileUsesRecorded
  <2> SUFFICES ASSUME NEW t \in Threads, pc[t] = "compiling", NEW k \in Kinds
               PROVE  refused[On(t)][k]
                      \/ applied[object[On(t)]][k] = wanted[On(t)][k]
    BY DEF CompileUsesRecorded
  <2>1. /\ On(t) \in Compilers /\ object[On(t)] = ctx[On(t)]
        /\ ctx[On(t)] # NoContext
    BY <1>1, OwnContext DEF Ids, NoContext
  <2> QED
    BY <1>1, <2>1 DEF ConfigInv, Kinds
<1> QED
  BY <1>1, BaseInvariant, ConfigInit, ConfigNext, PTL DEF Spec

-----------------------------------------------------------------------------
(* RegorRefinement.  The mapping, in terms of the bindings only: thanks to *)
(* IdInv the library finds under the id of a Compiler the object of that   *)
(* number.                                                                 *)

Mapped == \A c \in Compilers :
    /\ alive[c] = (ctx[c] # NoContext)
    /\ engine[c] = IF ctx[c] = NoContext THEN Unconfigured ELSE applied[ctx[c]]

LEMMA MappedNow == BaseInv => Mapped
BY DEF BaseInv, HandleInv, TypeOK, CompilerTypeOK, IdInv, Mapped, alive,
   engine, Found, LiveIds, Ids, NoContext

LEMMA MappedNext == BaseInv' => Mapped'
BY DEF BaseInv, HandleInv, TypeOK, CompilerTypeOK, IdInv, Mapped, alive,
   engine, Found, LiveIds, Ids, NoContext

(* A thread that is not in regor_compile has no job, one that is has one.  *)
LEMMA JobIdle == \A t \in Threads : pc[t] # "compiling" => job[t] = Idle
BY DEF job

LEMMA JobRunning ==
    ASSUME BaseInv, NEW t \in Threads, pc[t] = "compiling"
    PROVE  job[t].compiler = On(t) /\ On(t) \in Compilers /\ Service!Running(t)
BY OwnContext, Constants DEF job, Service!Running

(* Whoever holds the FFI lock outside regor_compile finds the service      *)
(* quiet.                                                                  *)
LEMMA QuietService ==
    ASSUME BaseInv, NEW t \in Threads, pc[t] \in GuardedPcs,
           pc[t] # "compiling"
    PROVE  /\ \A u \in Threads : pc[u] # "compiling"
           /\ Service!Quiet
<1>1. \A u \in Threads : pc[u] # "compiling"
  BY OneGuarded DEF GuardedPcs, LibraryPcs
<1> QED
  BY <1>1, JobIdle DEF Service!Quiet, Service!Running, Idle

(* Jobs do not change where nobody compiles, before and after.             *)
LEMMA NoJobs ==
    ASSUME \A u \in Threads : pc[u] # "compiling" /\ pc'[u] # "compiling"
    PROVE  UNCHANGED job
BY DEF job, Idle

(* Steps the service does not see.                                         *)
LEMMA Unseen ==
    ASSUME UNCHANGED <<registry, applied, ctx, blob, pending, logFilter>>,
           \A u \in Threads :
              /\ pc'[u] = "compiling" <=> pc[u] = "compiling"
              /\ pc[u] = "compiling" => /\ call'[u] = call[u]
                                        /\ buf'[u] = buf[u]
                                        /\ sent'[u] = sent[u]
    PROVE  UNCHANGED Service!serviceVars
<1>1. UNCHANGED <<alive, engine, lent>>
  BY DEF alive, engine, lent, Found, LiveIds
<1>2. UNCHANGED job
  BY <1>1 DEF job, On, Op, Kept, Idle
<1> QED
  BY <1>1, <1>2 DEF Service!serviceVars

(* A step of t outside regor_compile that only moves it.                   *)
LEMMA UnseenMove ==
    ASSUME BaseInv, NEW t \in Threads, NEW p, NEW r,
           pc' = [pc EXCEPT ![t] = p], p # "compiling", pc[t] # "compiling",
           call' = [call EXCEPT ![t] = r] \/ UNCHANGED call,
           buf' = [buf EXCEPT ![t] = 0] \/ UNCHANGED buf,
           sent' = [sent EXCEPT ![t] = 0] \/ UNCHANGED sent,
           UNCHANGED <<registry, applied, ctx, blob, pending, logFilter>>
    PROVE  UNCHANGED Service!serviceVars
BY Unseen DEF BaseInv, ControlInv, HandleInv, TypeOK, CallTypeOK

-----------------------------------------------------------------------------
LEMMA FilterInit == Init => FilterInv
BY DEF Init, LibInit, FilterInv, NoCall

LEMMA FilterStep ==
    ASSUME InstallBase, FilterInv, NEW t \in Threads, Step(t)
    PROVE  FilterInv'
<1> USE DEF InstallBase, CallTypeOK, FilterInv, Goto, End, Explicit, Op, NoCall
<1>1. CASE LockState(t) \/ BeginInstall(t) \/ LockForInstall(t)
             \/ SetLoggingFails(t)
  BY <1>1 DEF LockState, BeginInstall, LockForInstall, SetLoggingFails, libVars,
     installVars
<1>2. CASE SkipInstall(t) \/ FailInstall(t) \/ FinishInstall(t)
  BY <1>2 DEF SkipInstall, FailInstall, FinishInstall, AfterInstall, libVars,
     installVars
<1>3. CASE SetLogging(t)
  BY <1>3 DEF SetLogging
<1>4. CASE LockFfi(t) \/ Return(t) \/ ReadError(t) \/ PanicInReport(t)
  BY <1>4 DEF LockFfi, EntryPoint, Return, ReadError, PanicInReport, libVars,
     installVars
<1>5. CASE Create(t) \/ Destroy(t)
  BY <1>5 DEF Create, Destroy, RegorCreate, RegorDestroy, installVars
<1>6. CASE CreateFails(t) \/ CompileFails(t) \/ QueryFails(t)
  BY <1>6 DEF CreateFails, CompileFails, QueryFails, Fails, libVars,
     installVars
<1>7. ASSUME NEW k \in Kinds,
             SkipPending(t, k) \/ PushPending(t, k) \/ PushPendingFails(t, k)
      PROVE  FilterInv'
  BY <1>7 DEF SkipPending, PushPending, PushPendingFails, RegorConfigure,
     RegorRefuse, Kinds, libVars, installVars
<1>8. CASE SetCallbackArg(t) \/ WriteChunk(t) \/ CompileOk(t)
  BY <1>8 DEF SetCallbackArg, RegorSetCallbackArg, WriteChunk, CompileOk,
     libVars, installVars
<1>9. CASE QueryOk(t) \/ QueryNone(t)
  BY <1>9 DEF QueryOk, QueryNone, libVars, installVars
<1> QED
  BY <1>1, <1>2, <1>3, <1>4, <1>5, <1>6, <1>7, <1>8, <1>9 DEF Step

LEMMA FilterNext == InstallBase /\ FilterInv /\ [Next]_vars => FilterInv'
<1> SUFFICES ASSUME InstallBase, FilterInv, [Next]_vars PROVE FilterInv'
  OBVIOUS
<1>1. ASSUME NEW t \in Threads, Calling(t) PROVE FilterInv'
  <2>1. /\ pc[t] = "idle" /\ UNCHANGED <<logFilter, installed>>
        /\ \A u \in Threads : u # t => pc'[u] = pc[u]
    BY <1>1 DEF Calling, CallInit, CallNew, CallDrop, CallCompile, CallQuery,
       Start, Goto, InstallBase, CallTypeOK, libVars, installVars
  <2>2. \A u \in Threads : u # t => call'[u] = call[u]
    BY <1>1 DEF Calling, CallInit, CallNew, CallDrop, CallCompile, CallQuery,
       Start, InstallBase, CallTypeOK
  <2>3. call'[t].op = "init" \/ call'[t].filter = EmptyFilter
    <3>1. ASSUME NEW f \in Filters, CallInit(t, f) PROVE call'[t].op = "init"
      BY <3>1 DEF CallInit, Start, InstallCall, InstallBase, CallTypeOK
    <3>2. ASSUME NEW c \in Compilers, NEW op, NEW p,
                 Start(t, p, CompilerCall(op, c))
          PROVE  call'[t].filter = EmptyFilter
      BY <3>2 DEF Start, CompilerCall, InstallBase, CallTypeOK
    <3> QED
      BY <1>1, <3>1, <3>2 DEF Calling, CallNew, CallDrop, CallCompile,
         CallQuery
  <2> QED
    BY <2>1, <2>2, <2>3 DEF FilterInv, Explicit, Op
<1>2. CASE Program \/ Done \/ UNCHANGED vars
  BY <1>2 DEF Program, RecordConfig, ReleaseBlob, Done, vars, libVars,
     installVars, FilterInv, Explicit, Op
<1> QED
  BY <1>1, <1>2, FilterStep DEF Next

-----------------------------------------------------------------------------
(* One lemma per action that the service sees.                             *)

RefInv == BaseInv /\ ConfigInv /\ OutputInv /\ InstallInv /\ FilterInv

(* What a change of one engine looks like, Compiler by Compiler.           *)
LEMMA OneEngine ==
    ASSUME NEW c \in Compilers, NEW config,
           \A d \in Compilers : engine'[d] = IF d = c THEN config ELSE engine[d]
    PROVE  engine' = [engine EXCEPT ![c] = config]
BY DEF engine

LEMMA OneAlive ==
    ASSUME NEW c \in Compilers, NEW b,
           \A d \in Compilers : alive'[d] = IF d = c THEN b ELSE alive[d]
    PROVE  alive' = [alive EXCEPT ![c] = b]
BY DEF alive

LEMMA ServiceCreate ==
    ASSUME MonotonicIds, RefInv, RefInv', NEW t \in Threads, Create(t)
    PROVE  Service!New(On(t))
<1> DEFINE c == On(t)
<1>1. c \in Compilers /\ ctx[c] = NoContext
  BY DEF Create, RefInv, BaseInv, HandleInv, CallInv, BorrowInv, CompilerOps
<1>2. created + 1 \in Ids /\ created + 1 \notin LiveIds
  BY Constants DEF Create, RegorCreate, RefInv, BaseInv, HandleInv, TypeOK,
     LibTypeOK, IdInv, Ids
<1>3. applied[created + 1] = Unconfigured /\ created + 1 # NoContext
  BY <1>2 DEF RefInv, ConfigInv, Ids, NoContext
<1>4. /\ ctx' = [ctx EXCEPT ![c] = created + 1]
      /\ UNCHANGED <<applied, pending, blob, logFilter, call, buf, sent>>
  BY DEF Create, RegorCreate, NewId, PatchedId, outputVars
<1>5. \A d \in Compilers : ctx'[d] = IF d = c THEN created + 1 ELSE ctx[d]
  BY <1>1, <1>4 DEF RefInv, BaseInv, HandleInv, TypeOK, CompilerTypeOK
<1>6. Mapped /\ Mapped'
  BY MappedNow, MappedNext DEF RefInv
<1>7. alive' = [alive EXCEPT ![c] = TRUE]
  <2>1. \A d \in Compilers : alive'[d] = IF d = c THEN TRUE ELSE alive[d]
    BY <1>1, <1>3, <1>5, <1>6 DEF Mapped
  <2> QED
    BY <1>1, <2>1, OneAlive
<1>8. engine' = [engine EXCEPT ![c] = Unconfigured]
  <2>1. \A d \in Compilers :
           engine'[d] = IF d = c THEN Unconfigured ELSE engine[d]
    BY <1>1, <1>3, <1>4, <1>5, <1>6 DEF Mapped
  <2> QED
    BY <1>1, <2>1, OneEngine
<1>9. Service!Quiet /\ UNCHANGED job
  BY QuietService, NoJobs DEF Create, Goto, RefInv, BaseInv, ControlInv,
     GuardedPcs, LibraryPcs
<1>10. UNCHANGED lent
  BY <1>4 DEF lent
<1> QED
  BY <1>1, <1>4, <1>6, <1>7, <1>8, <1>9, <1>10 DEF Service!New, Mapped,
     Service!Blank, Unconfigured

LEMMA ServiceDestroy ==
    ASSUME RefInv, RefInv', NEW t \in Threads, Destroy(t)
    PROVE  Service!Drop(On(t))
<1> DEFINE c == On(t)
<1>1. c \in Compilers /\ ctx[c] # NoContext /\ blob[c] = NoContext
  BY DEF Destroy, RefInv, BaseInv, HandleInv, CallInv, BorrowInv, CompilerOps
<1>2. ctx[c] \in Ids /\ ctx[c] \in LiveIds /\ registry[ctx[c]] = ctx[c]
  BY <1>1 DEF RefInv, BaseInv, HandleInv, TypeOK, CompilerTypeOK, IdInv,
     LiveIds, Ids, NoContext
<1>3. \A o \in Ids : applied'[o] = IF o = ctx[c] THEN Unconfigured
                                                 ELSE applied[o]
  BY <1>2 DEF Destroy, RegorDestroy, Found
<1>4. /\ \A d \in Compilers : ctx'[d] = IF d = c THEN NoContext ELSE ctx[d]
      /\ pending' = [pending EXCEPT ![c] = Unconfigured]
      /\ UNCHANGED <<blob, logFilter, call, buf, sent>>
  BY DEF Destroy, RegorDestroy, outputVars, RefInv, BaseInv, HandleInv,
     TypeOK, CompilerTypeOK
<1>5. \A d \in Compilers : ctx[d] # NoContext =>
          ctx[d] \in Ids /\ (ctx[d] = ctx[c] => d = c)
  BY <1>1 DEF RefInv, BaseInv, HandleInv, TypeOK, CompilerTypeOK, IdInv
<1>6. Mapped /\ Mapped'
  BY MappedNow, MappedNext DEF RefInv
<1>7. alive' = [alive EXCEPT ![c] = FALSE]
  <2>1. \A d \in Compilers : alive'[d] = IF d = c THEN FALSE ELSE alive[d]
    BY <1>1, <1>4, <1>6 DEF Mapped
  <2> QED
    BY <1>1, <2>1, OneAlive
<1>8. engine' = [engine EXCEPT ![c] = Unconfigured]
  <2>1. \A d \in Compilers :
           engine'[d] = IF d = c THEN Unconfigured ELSE engine[d]
    BY <1>1, <1>3, <1>4, <1>5, <1>6 DEF Mapped
  <2> QED
    BY <1>1, <2>1, OneEngine
<1>9. Service!Quiet /\ UNCHANGED job
  BY QuietService, NoJobs DEF Destroy, Goto, RefInv, BaseInv, ControlInv,
     GuardedPcs, LibraryPcs
<1>10. UNCHANGED lent /\ Service!Owned(c)
  BY <1>1, <1>4, <1>6 DEF lent, Service!Owned, Mapped
<1> QED
  BY <1>4, <1>7, <1>8, <1>9, <1>10 DEF Service!Drop, Service!Blank,
     Unconfigured

LEMMA ServicePush ==
    ASSUME RefInv, RefInv', NEW t \in Threads, NEW k \in Kinds,
           PushPending(t, k) \/ PushPendingFails(t, k)
    PROVE  Service!Push(On(t), k)
<1> DEFINE c == On(t)
<1>1. c \in Compilers /\ ctx[c] # NoContext /\ blob[c] = NoContext
  BY DEF PushPending, PushPendingFails, RefInv, BaseInv, HandleInv, CallInv,
     BorrowInv, CompilerOps, Compiles, Kinds
<1>2. ctx[c] \in Ids /\ ctx[c] \in LiveIds /\ registry[ctx[c]] = ctx[c]
  BY <1>1 DEF RefInv, BaseInv, HandleInv, TypeOK, CompilerTypeOK, IdInv,
     LiveIds, Ids, NoContext
<1>3. \/ applied' = applied
      \/ applied' = [applied EXCEPT
                        ![ctx[c]] = [@ EXCEPT ![k] = pending[c][k]]]
  BY <1>2 DEF PushPending, PushPendingFails, RegorConfigure, RegorRefuse,
     Configure
<1>4. /\ pending' = [pending EXCEPT ![c][k] = Nil]
      /\ pending[c][k] # Nil
      /\ UNCHANGED <<registry, ctx, blob, logFilter, call, buf, sent>>
  BY DEF PushPending, PushPendingFails, RegorConfigure, RegorRefuse,
     outputVars
<1>5. \A d \in Compilers : ctx[d] # NoContext =>
          ctx[d] \in Ids /\ (ctx[d] = ctx[c] => d = c)
  BY <1>1 DEF RefInv, BaseInv, HandleInv, TypeOK, CompilerTypeOK, IdInv
<1>6. Mapped /\ Mapped'
  BY MappedNow, MappedNext DEF RefInv
<1>7. UNCHANGED <<alive, lent>>
  BY <1>4 DEF alive, lent, Found, LiveIds
<1>8. \/ engine' = [engine EXCEPT ![c][k] = pending[c][k]]
      \/ UNCHANGED engine
  <2>1. CASE applied' = applied
    BY <1>4, <2>1 DEF engine, Found, LiveIds
  <2>2. CASE applied' = [applied EXCEPT
                            ![ctx[c]] = [@ EXCEPT ![k] = pending[c][k]]]
    <3>1. \A d \in Compilers : engine'[d] =
              IF d = c THEN [engine[c] EXCEPT ![k] = pending[c][k]]
                       ELSE engine[d]
      <4>1. \A i \in Ids : applied'[i] =
                IF i = ctx[c] THEN [applied[i] EXCEPT ![k] = pending[c][k]]
                              ELSE applied[i]
        BY <1>2, <2>2 DEF RefInv, BaseInv, HandleInv, TypeOK, LibTypeOK
      <4>2. engine[c] = applied[ctx[c]] /\ engine'[c] = applied'[ctx[c]]
        BY <1>1, <1>4, <1>6 DEF Mapped
      <4>3. engine'[c] = [engine[c] EXCEPT ![k] = pending[c][k]]
        BY <1>2, <4>1, <4>2
      <4>4. ASSUME NEW d \in Compilers, d # c PROVE engine'[d] = engine[d]
        <5>1. ctx[d] # NoContext => applied'[ctx[d]] = applied[ctx[d]]
          BY <1>5, <4>1, <4>4
        <5> QED
          BY <1>4, <1>6, <4>4, <5>1 DEF Mapped
      <4> QED
        BY <4>3, <4>4
    <3> QED
      BY <1>1, <3>1, OneEngine
  <2> QED
    BY <1>3, <2>1, <2>2
<1>9. Service!Quiet /\ UNCHANGED job
  BY QuietService, NoJobs DEF PushPending, PushPendingFails, AfterPush, Goto,
     RefInv, BaseInv, ControlInv, GuardedPcs, LibraryPcs, Kinds
<1>10. Service!Owned(c)
  BY <1>1, <1>6 DEF lent, Service!Owned, Mapped
<1> QED
  BY <1>4, <1>7, <1>8, <1>9, <1>10 DEF Service!Push

LEMMA ServiceBegin ==
    ASSUME RefInv, NEW t \in Threads, SetCallbackArg(t)
    PROVE  Service!Begin(t, On(t))
<1> DEFINE c == On(t)
<1>1. /\ c \in Compilers /\ Op(t) \in Compiles /\ blob[c] = NoContext
      /\ Found(ctx[c])
  BY OwnContext DEF SetCallbackArg, RefInv, BaseInv, HandleInv, BorrowInv,
     Compiles, Found, LiveIds
<1>2. Service!Owned(c)
  BY <1>1 DEF Service!Owned, alive, lent
<1>3. pending[c] = Unconfigured
  BY <1>1 DEF SetCallbackArg, RefInv, ConfigInv, BaseInv, HandleInv, TypeOK,
     CompilerTypeOK, Unconfigured, Kinds
<1>4. sent[t] = 0 /\ Kept(t) = 0
  BY DEF SetCallbackArg, RefInv, OutputInv, Kept
<1>5. /\ pc' = [pc EXCEPT ![t] = "compiling"]
      /\ UNCHANGED <<registry, applied, ctx, blob, pending, logFilter, call,
                     buf, sent>>
  BY DEF SetCallbackArg, RegorSetCallbackArg, Goto, compilerVars, outputVars
<1>6. UNCHANGED <<alive, engine, lent>>
  BY <1>5 DEF alive, engine, lent, Found, LiveIds
<1>7. Service!Quiet
  BY QuietService DEF SetCallbackArg, RefInv, GuardedPcs, LibraryPcs
<1>8. job' = [job EXCEPT ![t] = [compiler |-> c, config |-> engine[c],
                                 made |-> 0, kept |-> 0]]
  <2>1. \A u \in Threads : job'[u] = IF u = t
            THEN [compiler |-> c, config |-> engine[c], made |-> 0, kept |-> 0]
            ELSE job[u]
    BY <1>4, <1>5, <1>6 DEF job, On, Op, Kept, Idle, RefInv, BaseInv,
       ControlInv
  <2> QED
    BY <2>1 DEF job
<1> QED
  BY <1>2, <1>3, <1>5, <1>6, <1>7, <1>8 DEF Service!Begin, Service!Blank,
     Unconfigured

LEMMA ServiceWrite ==
    ASSUME RefInv, NEW t \in Threads, WriteChunk(t)
    PROVE  Service!Write(t)
<1>1. pc[t] = "compiling" /\ Op(t) \in Compiles
  BY OwnContext DEF WriteChunk, RefInv
<1>2. arg[registry[ctx[On(t)]]] = WriterArg(t)
  BY OwnContext DEF WriteChunk, RefInv, OutputInv
<1>3. /\ sent' = [sent EXCEPT ![t] = sent[t] + 1]
      /\ UNCHANGED <<registry, applied, ctx, blob, pending, logFilter, call, pc>>
  BY DEF WriteChunk, libVars, compilerVars
<1>4. \A u \in Threads : buf'[u] = IF Op(t) = "compile" /\ u = t
                                  THEN buf[u] + 1 ELSE buf[u]
  BY <1>1, <1>2, NilAssumption DEF WriteChunk, WriterArg
<1>5. UNCHANGED <<alive, engine, lent>>
  BY <1>3 DEF alive, engine, lent, Found, LiveIds
<1>6. /\ sent'[t] = sent[t] + 1 /\ Kept(t)' = Kept(t) + 1
      /\ \A u \in Threads : u # t => sent'[u] = sent[u] /\ Kept(u)' = Kept(u)
  BY <1>3, <1>4 DEF Kept, Op, RefInv, BaseInv, HandleInv, TypeOK, CallTypeOK
<1>7. job' = [job EXCEPT ![t] =
                 [compiler |-> @.compiler, config |-> @.config,
                  made |-> @.made + 1, kept |-> @.kept + 1]]
  <2>1. job[t] = [compiler |-> On(t), config |-> engine[On(t)],
                  made |-> sent[t], kept |-> Kept(t)]
    BY <1>1 DEF job
  <2>2. \A u \in Threads : job'[u] = IF u = t
            THEN [compiler |-> On(t), config |-> engine[On(t)],
                  made |-> sent[t] + 1, kept |-> Kept(t) + 1]
            ELSE job[u]
    BY <1>1, <1>3, <1>5, <1>6 DEF job, On, Idle
  <2>3. job' = [job EXCEPT ![t] =
                   [compiler |-> On(t), config |-> engine[On(t)],
                    made |-> sent[t] + 1, kept |-> Kept(t) + 1]]
    BY <2>2 DEF job
  <2>4. /\ job[t].compiler = On(t) /\ job[t].config = engine[On(t)]
        /\ job[t].made = sent[t] /\ job[t].kept = Kept(t)
    BY <2>1
  <2> QED
    BY <2>3, <2>4
<1>8. Service!Running(t)
  BY <1>1, JobRunning DEF RefInv
<1> QED
  BY <1>3, <1>5, <1>7, <1>8 DEF Service!Write

LEMMA ServiceFinish ==
    ASSUME RefInv, NEW t \in Threads, CompileOk(t) \/ CompileFails(t)
    PROVE  Service!Finish(t)
<1>1. /\ pc[t] = "compiling"
      /\ \A u \in Threads : u # t => pc'[u] = pc[u]
      /\ pc'[t] # "compiling"
      /\ UNCHANGED <<registry, applied, ctx, blob, pending, logFilter, call,
                     buf, sent>>
  BY DEF CompileOk, CompileFails, Fails, Goto, libVars, compilerVars,
     outputVars, RefInv, BaseInv, ControlInv
<1>2. UNCHANGED <<alive, engine, lent>>
  BY <1>1 DEF alive, engine, lent, Found, LiveIds
<1>3. job' = [job EXCEPT ![t] = Idle]
  BY <1>1, <1>2 DEF job, Idle, On, Op, Kept
<1>4. Service!Running(t)
  BY <1>1, JobRunning DEF RefInv
<1> QED
  BY <1>1, <1>2, <1>3, <1>4 DEF Service!Finish, Service!NoJob, Service!Blank,
     Idle, Unconfigured

LEMMA ServiceQuery ==
    ASSUME RefInv, NEW t \in Threads, QueryOk(t)
    PROVE  Service!Lend(On(t)) \/ UNCHANGED Service!serviceVars
<1> DEFINE c == On(t)
<1>1. c \in Compilers /\ Found(ctx[c]) /\ blob[c] = NoContext
  BY DEF QueryOk, RefInv, BaseInv, HandleInv, CallInv, BorrowInv,
     CompilerOps, Queries, SharedQueries, Found, LiveIds, NoContext, Ids
<1>2. UNCHANGED <<registry, applied, ctx, pending, logFilter, call, buf, sent>>
  BY DEF QueryOk, libVars, outputVars
<1>3. UNCHANGED <<alive, engine>>
  BY <1>2 DEF alive, engine, Found, LiveIds
<1>4. Service!Quiet /\ UNCHANGED job
  BY QuietService, NoJobs DEF QueryOk, Goto, RefInv, BaseInv, ControlInv,
     GuardedPcs, LibraryPcs
<1>5. CASE Op(t) = "get_output_blob"
  <2>1. registry[ctx[c]] # NoContext
    BY <1>1 DEF Found, LiveIds
  <2>2. \A d \in Compilers : blob'[d] = IF d = c THEN registry[ctx[c]]
                                                 ELSE blob[d]
    BY <1>1, <1>5 DEF QueryOk, RefInv, BaseInv, HandleInv, TypeOK,
       CompilerTypeOK
  <2>3. \A d \in Compilers : lent'[d] = IF d = c THEN TRUE ELSE lent[d]
    BY <2>1, <2>2 DEF lent
  <2>4. lent' = [lent EXCEPT ![c] = TRUE]
    BY <1>1, <2>3 DEF lent
  <2>5. Service!Owned(c)
    BY <1>1 DEF Service!Owned, alive, lent
  <2> QED
    BY <1>2, <1>3, <1>4, <2>4, <2>5 DEF Service!Lend
<1>6. CASE Op(t) # "get_output_blob"
  BY <1>2, <1>3, <1>4, <1>6 DEF QueryOk, lent, Service!serviceVars
<1> QED
  BY <1>5, <1>6

LEMMA ServiceRecord ==
    ASSUME RefInv, NEW c \in Compilers, NEW k \in Kinds, NEW doc \in Docs,
           RecordConfig(c, k, doc)
    PROVE  Service!Record(c, k, doc)
<1>1. /\ pending' = [pending EXCEPT ![c][k] = doc]
      /\ UNCHANGED <<registry, applied, ctx, blob, logFilter, pc, call, buf,
                     sent>>
      /\ ctx[c] # NoContext /\ blob[c] = NoContext
      /\ \A u \in Threads : On(u) # c
  BY DEF RecordConfig, Exclusive, Users, libVars, outputVars
<1>2. UNCHANGED <<alive, engine, lent>>
  BY <1>1 DEF alive, engine, lent, Found, LiveIds
<1>3. UNCHANGED job
  BY <1>1, <1>2 DEF job, On, Op, Kept, Idle
<1>4. Service!Owned(c)
  BY <1>1, MappedNow DEF Service!Owned, lent, Mapped, RefInv
<1>5. \A t \in Threads : job[t].compiler # c
  BY <1>1, Constants DEF job, Idle
<1> QED
  BY <1>1, <1>2, <1>3, <1>4, <1>5 DEF Service!Record

LEMMA ServiceGiveBack ==
    ASSUME RefInv, NEW c \in Compilers, ReleaseBlob(c)
    PROVE  Service!GiveBack(c)
<1>1. /\ blob[c] # NoContext /\ blob' = [blob EXCEPT ![c] = NoContext]
      /\ UNCHANGED <<registry, applied, ctx, pending, logFilter, pc, call, buf,
                     sent>>
  BY DEF ReleaseBlob, libVars, outputVars
<1>2. UNCHANGED <<alive, engine>>
  BY <1>1 DEF alive, engine, Found, LiveIds
<1>3. UNCHANGED job
  BY <1>1, <1>2 DEF job, On, Op, Kept, Idle
<1>4. \A d \in Compilers : blob'[d] = IF d = c THEN NoContext ELSE blob[d]
  BY <1>1 DEF RefInv, BaseInv, HandleInv, TypeOK, CompilerTypeOK
<1>5. \A d \in Compilers : lent'[d] = IF d = c THEN FALSE ELSE lent[d]
  BY <1>4 DEF lent
<1>6. lent' = [lent EXCEPT ![c] = FALSE] /\ lent[c]
  BY <1>1, <1>5 DEF lent
<1> QED
  BY <1>1, <1>2, <1>3, <1>6 DEF Service!GiveBack

(* An implicit installation is a default: whoever gets as far as the       *)
(* library holds INSTALL_STATE and has seen nothing installed.             *)
LEMMA ServiceLogging ==
    ASSUME RefInv, NEW t \in Threads, SetLogging(t)
    PROVE  Service!Default \/ \E f \in Filters : Service!Choose(f)
<1>1. /\ pc[t] = "set_logging" /\ logFilter' = call[t].filter
      /\ UNCHANGED <<registry, applied, ctx, blob, pending, call, buf, sent>>
  BY DEF SetLogging, RegorSetLogging, compilerVars, outputVars
<1>2. UNCHANGED <<alive, engine, lent>>
  BY <1>1 DEF alive, engine, lent, Found, LiveIds
<1>3. Service!Quiet /\ UNCHANGED job
  BY <1>1, QuietService, NoJobs DEF SetLogging, Goto, RefInv, BaseInv,
     ControlInv, GuardedPcs, LibraryPcs
<1>4. call[t].filter \in Filters
  BY DEF RefInv, BaseInv, HandleInv, TypeOK, CallTypeOK, CallRecords
<1>5. CASE Explicit(t)
  BY <1>1, <1>2, <1>3, <1>4 DEF Service!Choose
<1>6. CASE ~Explicit(t)
  <2>1. \A u \in Threads : pc[u] # "install_done"
    BY <1>1 DEF RefInv, BaseInv, ControlInv, LockInv, InstallPcs
  <2>2. logFilter = Nil
    BY <1>1, <1>6, <2>1 DEF RefInv, FilterInv, InstallInv, MustInstall
  <2>3. call[t].filter = EmptyFilter
    BY <1>6 DEF RefInv, FilterInv
  <2> QED
    BY <1>1, <1>2, <1>3, <2>2, <2>3 DEF Service!Default
<1> QED
  BY <1>5, <1>6

-----------------------------------------------------------------------------
(* Every step of the bindings is a step of the service or none.            *)

LEMMA UnseenStep ==
    ASSUME RefInv, NEW t \in Threads,
           \/ LockState(t) \/ SkipInstall(t) \/ BeginInstall(t)
           \/ LockForInstall(t) \/ SetLoggingFails(t)
           \/ FailInstall(t) \/ FinishInstall(t)
           \/ LockFfi(t) \/ Return(t) \/ ReadError(t) \/ CreateFails(t)
           \/ (\E k \in Kinds : SkipPending(t, k))
           \/ QueryFails(t) \/ QueryNone(t) \/ PanicInReport(t)
    PROVE  UNCHANGED Service!serviceVars
<1> USE DEF RefInv, Goto, End, libVars, compilerVars, outputVars
<1>1. CASE LockState(t) \/ BeginInstall(t) \/ LockForInstall(t)
             \/ SetLoggingFails(t)
  BY <1>1, UnseenMove DEF LockState, BeginInstall, LockForInstall,
     SetLoggingFails
<1>2. CASE SkipInstall(t) \/ FailInstall(t) \/ FinishInstall(t)
  BY <1>2, UnseenMove DEF SkipInstall, FailInstall, FinishInstall, AfterInstall
<1>3. CASE LockFfi(t)
  BY <1>3, UnseenMove DEF LockFfi, EntryPoint
<1>4. CASE Return(t) \/ PanicInReport(t)
  BY <1>4, UnseenMove DEF Return, PanicInReport
<1>5. CASE ReadError(t) \/ CreateFails(t) \/ QueryFails(t) \/ QueryNone(t)
  BY <1>5, UnseenMove DEF ReadError, CreateFails, QueryFails, QueryNone, Fails
<1>6. ASSUME NEW k \in Kinds, SkipPending(t, k)
      PROVE  UNCHANGED Service!serviceVars
  BY <1>6, UnseenMove DEF SkipPending, AfterPush, Kinds
<1> QED
  BY <1>1, <1>2, <1>3, <1>4, <1>5, <1>6

LEMMA ServiceStep ==
    ASSUME MonotonicIds, RefInv, RefInv', NEW t \in Threads, Step(t)
    PROVE  [Service!Next]_(Service!serviceVars)
<1> DEFINE c == On(t)
<1>1. c \in Compilers \/ pc[t] \notin {"create", "destroy", "query",
          "callback_arg"} \cup Kinds
  BY DEF RefInv, BaseInv, HandleInv, CallInv, CompilerOps, Compiles, Kinds
<1>2. CASE Create(t)
  BY <1>1, <1>2, ServiceCreate DEF Create, Service!Next
<1>3. CASE Destroy(t)
  BY <1>1, <1>3, ServiceDestroy DEF Destroy, Service!Next
<1>4. ASSUME NEW k \in Kinds, PushPending(t, k) \/ PushPendingFails(t, k)
      PROVE  Service!Next
  BY <1>1, <1>4, ServicePush DEF PushPending, PushPendingFails, Service!Next
<1>5. CASE SetCallbackArg(t)
  BY <1>1, <1>5, ServiceBegin DEF SetCallbackArg, Service!Next
<1>6. CASE WriteChunk(t)
  BY <1>6, ServiceWrite DEF Service!Next
<1>7. CASE CompileOk(t) \/ CompileFails(t)
  BY <1>7, ServiceFinish DEF Service!Next
<1>8. CASE QueryOk(t)
  BY <1>1, <1>8, ServiceQuery DEF QueryOk, Service!Next
<1>9. CASE SetLogging(t)
  BY <1>9, ServiceLogging DEF Service!Next
<1> QED
  BY <1>2, <1>3, <1>4, <1>5, <1>6, <1>7, <1>8, <1>9, UnseenStep DEF Step

LEMMA ServiceNext ==
    MonotonicIds /\ RefInv /\ RefInv' /\ [Next]_vars
        => [Service!Next]_(Service!serviceVars)
<1> SUFFICES ASSUME MonotonicIds, RefInv, RefInv', [Next]_vars
             PROVE  [Service!Next]_(Service!serviceVars)
  OBVIOUS
<1>1. ASSUME NEW t \in Threads, Calling(t)
      PROVE  UNCHANGED Service!serviceVars
  <2>1. \E p \in {"install", "lock"} : \E r : Start(t, p, r)
    BY <1>1 DEF Calling, CallInit, CallNew, CallDrop, CallCompile, CallQuery
  <2> QED
    BY <2>1, UnseenMove DEF RefInv, Start, Goto, libVars, compilerVars,
       outputVars
<1>2. ASSUME NEW c \in Compilers, ReleaseBlob(c) PROVE Service!Next
  BY <1>2, ServiceGiveBack DEF Service!Next
<1>3. ASSUME NEW c \in Compilers, NEW k \in Kinds, NEW doc \in Docs,
             RecordConfig(c, k, doc)
      PROVE  Service!Next
  BY <1>3, ServiceRecord DEF Service!Next
<1>4. CASE UNCHANGED vars
  BY <1>4, Unseen DEF vars, libVars, compilerVars, outputVars
<1> QED
  BY <1>1, <1>2, <1>3, <1>4, ServiceStep DEF Next, Program, Done

LEMMA ServiceInit == Init => Service!Init
<1> SUFFICES ASSUME Init PROVE Service!Init
  OBVIOUS
<1>1. \A c \in Compilers : ~Found(ctx[c])
  BY DEF Init, LibInit, Found, LiveIds, Ids, NoContext
<1>2. alive = [c \in Compilers |-> FALSE]
  <2>1. \A c \in Compilers : Found(ctx[c]) = FALSE
    BY <1>1 DEF Found
  <2> QED
    BY <2>1, Zenon DEF alive
<1>3. engine = [c \in Compilers |-> Unconfigured]
  BY <1>1 DEF engine
<1>4. lent = [c \in Compilers |-> FALSE]
  BY DEF Init, lent, NoContext
<1>5. job = [t \in Threads |-> Idle]
  BY DEF Init, job
<1> QED
  BY <1>2, <1>3, <1>4, <1>5 DEF Init, LibInit, Service!Init, Service!NoJob,
     Service!Blank, Idle, Unconfigured

LEMMA RefInvariant == MonotonicIds /\ Spec => []RefInv
<1> SUFFICES ASSUME MonotonicIds PROVE Spec => []RefInv
  OBVIOUS
<1>1. BaseInv => InstallBase
  BY DEF BaseInv, HandleInv, TypeOK, InstallBase
<1>2. Init => ConfigInv /\ OutputInv /\ InstallInv /\ FilterInv
  BY ConfigInit, OutputInit, InstallInit, FilterInit
<1>3. /\ BaseInv /\ ConfigInv /\ OutputInv /\ InstallInv /\ FilterInv
      /\ [Next]_vars
      => ConfigInv' /\ OutputInv' /\ InstallInv' /\ FilterInv'
  BY <1>1, ConfigNext, OutputNext, InstallNext, FilterNext
<1> QED
  BY <1>2, <1>3, BaseInvariant, PTL DEF Spec, RefInv

(* Over the patched library the bindings implement the service: however    *)
(* calls interleave and whatever the library refuses, each Compiler        *)
(* behaves as the owner of a private engine, configured only by the calls  *)
(* made on it (sync.rs, compiler.rs, logging.rs).                          *)
THEOREM ServiceImplemented == MonotonicIds /\ Spec => ImplementsService
<1> SUFFICES ASSUME MonotonicIds PROVE Spec => ImplementsService
  OBVIOUS
<1>1. RefInv /\ RefInv' /\ [Next]_vars => [Service!Next]_(Service!serviceVars)
  BY ServiceNext
<1> QED
  BY <1>1, ServiceInit, RefInvariant, PTL
     DEF Spec, ImplementsService, Service!Spec

-----------------------------------------------------------------------------
(* RegorProcess.  The writer is there before it is needed.                 *)

LEMMA UnloggedInit == Init => UnloggedInv
BY DEF Init, UnloggedInv

(* Where every thread is while no writer has been refused or installed.    *)
UnloggedPcs == {"idle", "install", "install_check", "install_lock",
                "set_logging"}

LEMMA UnloggedStep ==
    ASSUME CallTypeOK, UnloggedInv, NEW t \in Threads, Step(t)
    PROVE  UnloggedInv'
<1> SUFFICES ASSUME logFilter' = Nil PROVE UnloggedInv'
  BY DEF UnloggedInv
<1>1. ~SetLogging(t)
  BY Constants DEF SetLogging, RegorSetLogging, CallTypeOK, CallRecords
<1>2. logFilter = Nil
  BY <1>1 DEF Step, libVars, LockState, SkipInstall, BeginInstall,
     LockForInstall, SetLoggingFails, FailInstall, FinishInstall, LockFfi,
     Return, ReadError, Create, RegorCreate, CreateFails, Destroy,
     RegorDestroy, SkipPending, PushPending, RegorConfigure, PushPendingFails,
     RegorRefuse, SetCallbackArg, RegorSetCallbackArg, WriteChunk, CompileOk,
     CompileFails, QueryOk, QueryFails, QueryNone, PanicInReport, Fails
<1>3. /\ ~installed /\ ~explicit
      /\ \A u \in Threads : pc[u] # "install_done"
      /\ turnedDown \/ /\ \A c \in Compilers : ctx[c] = NoContext
                       /\ \A u \in Threads : pc[u] \in UnloggedPcs
  BY <1>2 DEF UnloggedInv, UnloggedPcs
<1>4. ~installed' /\ ~explicit' /\ (turnedDown => turnedDown')
  <2>1. CASE SetLoggingFails(t)
    BY <1>2, <1>3, <2>1 DEF SetLoggingFails
  <2>2. ~FinishInstall(t)
    BY <1>3 DEF FinishInstall
  <2>3. CASE UNCHANGED installVars
    BY <1>3, <2>3 DEF installVars
  <2> QED
    BY <1>1, <2>1, <2>2, <2>3 DEF Step, LockState, SkipInstall, BeginInstall,
       LockForInstall, FailInstall, LockFfi, Return, ReadError, Create,
       CreateFails, Destroy, SkipPending, PushPending, PushPendingFails,
       SetCallbackArg, WriteChunk, CompileOk, CompileFails, QueryOk,
       QueryFails, QueryNone, PanicInReport, Fails
<1>5. \A u \in Threads : pc'[u] # "install_done"
  BY <1>1, <1>3 DEF Step, CallTypeOK, Goto, End, AfterInstall, LockState,
     SkipInstall, BeginInstall, LockForInstall, SetLoggingFails, FailInstall,
     FinishInstall, LockFfi, EntryPoint, Return, ReadError, Create, CreateFails,
     Destroy, SkipPending, PushPending, PushPendingFails, AfterPush, Kinds,
     SetCallbackArg, WriteChunk, CompileOk, CompileFails, QueryOk, QueryFails,
     QueryNone, PanicInReport, Fails
<1>6. CASE turnedDown
  BY <1>4, <1>5, <1>6 DEF UnloggedInv
<1>7. CASE ~turnedDown
  <2>1. pc[t] \in UnloggedPcs
    BY <1>3, <1>7
  <2>2. \/ LockState(t) \/ BeginInstall(t) \/ LockForInstall(t)
        \/ SetLoggingFails(t)
    BY <1>1, <1>3, <2>1 DEF Step, UnloggedPcs, MustInstall, SkipInstall,
       FailInstall, FinishInstall, LockFfi, Return, ReadError, Create,
       CreateFails, Destroy, SkipPending, PushPending, PushPendingFails, Kinds,
       SetCallbackArg, WriteChunk, CompileOk, CompileFails, QueryOk, QueryFails,
       QueryNone, PanicInReport, Fails
  <2>3. CASE SetLoggingFails(t)
    BY <1>2, <1>4, <1>5, <2>3 DEF SetLoggingFails, UnloggedInv
  <2>4. CASE LockState(t) \/ BeginInstall(t) \/ LockForInstall(t)
    BY <1>3, <1>4, <1>5, <1>7, <2>4 DEF UnloggedInv, UnloggedPcs, CallTypeOK,
       LockState, BeginInstall, LockForInstall, Goto, compilerVars
  <2> QED
    BY <2>2, <2>3, <2>4
<1> QED
  BY <1>6, <1>7

LEMMA UnloggedNext ==
    CallTypeOK /\ UnloggedInv /\ [Next]_vars => UnloggedInv'
<1> SUFFICES ASSUME CallTypeOK, UnloggedInv, [Next]_vars
             PROVE  UnloggedInv'
  OBVIOUS
<1>1. ASSUME NEW t \in Threads, Calling(t) PROVE UnloggedInv'
  <2>1. \E p \in {"install", "lock"} : \E r : Start(t, p, r)
    BY <1>1 DEF Calling, CallInit, CallNew, CallDrop, CallCompile, CallQuery
  <2>2. (\A c \in Compilers : ctx[c] = NoContext)
           => \E r : Start(t, "install", r)
    BY <1>1 DEF Calling, CallInit, CallNew, CallDrop, CallCompile, CallQuery,
       Exclusive, Shared
  <2>3. /\ UNCHANGED <<logFilter, installed, explicit, turnedDown, ctx>>
        /\ \A u \in Threads : pc'[u] \in {pc[u], "install", "lock"}
    BY <2>1 DEF CallTypeOK, Start, Goto, libVars, installVars, compilerVars
  <2>4. (\A c \in Compilers : ctx[c] = NoContext)
           => \A u \in Threads : pc'[u] \in {pc[u], "install"}
    BY <2>2 DEF CallTypeOK, Start, Goto
  <2>5. CASE turnedDown
    BY <2>3, <2>5 DEF UnloggedInv
  <2>6. CASE ~turnedDown
    BY <2>3, <2>4, <2>6 DEF UnloggedInv
  <2> QED
    BY <2>5, <2>6
<1>2. CASE Program \/ Done \/ UNCHANGED vars
  BY <1>2 DEF Program, ReleaseBlob, RecordConfig, RegorConfigure, Done, vars,
     libVars, installVars, compilerVars, UnloggedInv
<1> QED
  BY <1>1, <1>2, UnloggedStep DEF Next

(* "regor asserts on a null writer during compilation, so one must exist   *)
(* before the first compile" (logging.rs:152): one does, on every path a   *)
(* Compiler can come into being, unless the library itself has refused a   *)
(* writer; and the flags of INSTALL_STATE never claim one it lacks.        *)
THEOREM WriterAlwaysInstalled == Spec => []WriterInstalled
<1>1. UnloggedInv => WriterInstalled
  BY DEF UnloggedInv, WriterInstalled
<1>2. Spec => []CallTypeOK
  BY TypeInit, CallTypeNext, PTL DEF Spec, TypeOK
<1> QED
  BY <1>1, <1>2, UnloggedNext, UnloggedInit, PTL DEF Spec

-----------------------------------------------------------------------------
(* Composition.                                                            *)

LEMMA ProcessActions ==
    [ProcessNext]_processVars => [Next]_vars /\ [Writer!Next]_writerVars
<1> SUFFICES ASSUME [ProcessNext]_processVars
             PROVE  [Next]_vars /\ [Writer!Next]_writerVars
  OBVIOUS
<1>1. ASSUME NEW t \in Threads, BindingStep(t)
      PROVE  Next /\ UNCHANGED writerVars
  BY <1>1 DEF BindingStep, Next
<1>2. ASSUME NEW t \in Threads, WriterStep(t)
      PROVE  UNCHANGED vars /\ Writer!Next
  BY <1>2 DEF WriterStep, Writer!Next
<1>3. ASSUME NEW t \in Threads, NEW bytes \in Chunks, Diagnose(t, bytes)
      PROVE  UNCHANGED vars /\ Writer!Next
  BY <1>3 DEF Diagnose, Writer!Next
<1>4. CASE ProgramStep \/ ProcessDone
  BY <1>4 DEF ProgramStep, ProcessDone, Next
<1>5. CASE UNCHANGED processVars
  BY <1>5 DEF processVars
<1> QED
  BY <1>1, <1>2, <1>3, <1>4, <1>5 DEF ProcessNext, ThreadStep

(* What is proved of the bindings holds of them in the process: the        *)
(* library calling write_log in the middle of a call adds no behaviour     *)
(* that RegorBindings does not have.                                       *)
THEOREM ProcessIsBindings == ProcessSpec => Spec
BY ProcessActions, PTL DEF ProcessSpec, ProcessInit, Spec

(* And what holds of the writer on its own holds of it there.              *)
THEOREM ProcessIsWriter == ProcessSpec => Writer!Init /\ [][Writer!Next]_writerVars
BY ProcessActions, PTL DEF ProcessSpec, ProcessInit

-----------------------------------------------------------------------------
(* A thread in the writer is inside the library, under a filter that lets  *)
(* its diagnostics through.                                                *)
InsideInv ==
    /\ \A t \in Threads : InWriter(t) => pc[t] \in LibraryPcs /\ Forwarding
    /\ writerPc \in [Threads -> {"idle", "lock", "scan", "emit"}]

LEMMA InsideInit == ProcessInit => InsideInv
BY DEF ProcessInit, Writer!Init, InsideInv, InWriter

(* Only a thread in the library changes the filter.                        *)
LEMMA MaskStep ==
    ASSUME NEW t \in Threads, Step(t), pc[t] \notin LibraryPcs
    PROVE  logFilter' = logFilter
BY DEF Step, LibraryPcs, Kinds, libVars, LockState, SkipInstall, BeginInstall,
   LockForInstall, SetLogging, SetLoggingFails, FailInstall, FinishInstall,
   LockFfi, Return, ReadError, Create, CreateFails, Destroy, SkipPending, PushPending,
   PushPendingFails, SetCallbackArg, WriteChunk, CompileOk, CompileFails, QueryOk,
   QueryFails, QueryNone, PanicInReport, Fails

LEMMA LogFilterKept ==
    ASSUME NEW t \in Threads, Calling(t) \/ Program
    PROVE  logFilter' = logFilter
BY DEF Calling, CallInit, CallNew, CallDrop, CallCompile, CallQuery, Start,
   Program, ReleaseBlob, RecordConfig, libVars

(* A call of t moves nobody else.                                          *)
LEMMA OthersStay ==
    ASSUME ControlInv, NEW t \in Threads, Step(t), NEW u \in Threads \ {t}
    PROVE  pc'[u] = pc[u]
BY DEF Step, ControlInv, Goto, End, AfterInstall, LockState, SkipInstall,
   BeginInstall, LockForInstall, SetLogging, SetLoggingFails, FailInstall,
   FinishInstall, LockFfi, Return, ReadError, Create, CreateFails, Destroy, SkipPending,
   PushPending, PushPendingFails, SetCallbackArg, WriteChunk, CompileOk,
   CompileFails, QueryOk, QueryFails, QueryNone, PanicInReport, Fails

LEMMA InsideBinding ==
    ASSUME ControlInv, InsideInv, NEW t \in Threads, BindingStep(t)
    PROVE  InsideInv'
<1>1. \A u \in Threads : InWriter(u) =>
         u # t /\ pc'[u] = pc[u] /\ pc[t] \notin LibraryPcs
  BY OthersStay DEF BindingStep, InsideInv, ControlInv, LockInv, GuardedPcs
<1>2. \A u \in Threads : InWriter(u) => logFilter' = logFilter
  BY <1>1, MaskStep DEF BindingStep
<1>3. writerPc' = writerPc /\ \A u \in Threads : InWriter(u)' = InWriter(u)
  BY DEF BindingStep, writerVars, InWriter
<1> QED
  BY <1>1, <1>2, <1>3 DEF InsideInv, BindingStep, Forwarding

LEMMA InsideWriter ==
    ASSUME InsideInv, NEW t \in Threads, WriterStep(t)
    PROVE  InsideInv'
<1>1. /\ writerPc' \in [Threads -> {"idle", "lock", "scan", "emit"}]
      /\ \A u \in Threads \ {t} : writerPc'[u] = writerPc[u]
  BY DEF WriterStep, InsideInv, InWriter, Writer!Step, Writer!AppendChunk,
     Writer!DrainLine, Writer!EmitLine, Writer!EmitPanics, Writer!Hand, Writer!Finish
<1>2. UNCHANGED vars /\ InWriter(t)
  BY DEF WriterStep
<1> QED
  BY <1>1, <1>2 DEF InsideInv, InWriter, Forwarding, vars, libVars, GuardedPcs

LEMMA InsideNext == ControlInv /\ InsideInv /\ [ProcessNext]_processVars => InsideInv'
<1> SUFFICES ASSUME ControlInv, InsideInv, [ProcessNext]_processVars
             PROVE  InsideInv'
  OBVIOUS
<1>1. ASSUME NEW t \in Threads, NEW bytes \in Chunks, Diagnose(t, bytes)
      PROVE  InsideInv'
  BY <1>1 DEF Diagnose, Writer!WriteLog, InsideInv, InWriter, Forwarding, vars,
     libVars
<1>2. ASSUME NEW t \in Threads, Calling(t), UNCHANGED writerVars
      PROVE  InsideInv'
  <2>1. pc[t] = "idle" /\ \A u \in Threads \ {t} : pc'[u] = pc[u]
    BY <1>2 DEF ControlInv, Calling, CallInit, CallNew, CallDrop, CallCompile,
       CallQuery, Start, Goto
  <2>2. \A u \in Threads : pc[u] \in GuardedPcs => pc'[u] = pc[u]
    BY <2>1 DEF GuardedPcs, LibraryPcs, Kinds
  <2> QED
    BY <1>2, <2>2, LogFilterKept DEF InsideInv, InWriter, Forwarding, writerVars,
       GuardedPcs
<1>3. ASSUME Program \/ Done \/ UNCHANGED vars, UNCHANGED writerVars
      PROVE  InsideInv'
  BY <1>3 DEF Program, ReleaseBlob, RecordConfig, Done, vars, libVars, writerVars,
     InsideInv, InWriter, Forwarding
<1> QED
  BY <1>1, <1>2, <1>3, InsideBinding, InsideWriter
     DEF ProcessNext, ThreadStep, ProgramStep, ProcessDone, processVars

LEMMA InsideInvariant == ProcessSpec => [](ControlInv /\ InsideInv)
<1>1. ProcessSpec => []ControlInv
  BY ControlInit, ControlNext, ProcessIsBindings, PTL DEF Spec
<1> QED
  BY <1>1, InsideInit, InsideNext, PTL DEF ProcessSpec

(* A line reaches the program's logger only under a filter that lets       *)
(* something through: none after disable (logging.rs:109), whichever       *)
(* thread is compiling when it is called.                                  *)
THEOREM DisabledIsSilent == ProcessSpec => SilentWhenDisabled
<1>1. InsideInv /\ [ProcessNext]_processVars
        => [records' # records => Forwarding]_processVars
  <2> SUFFICES ASSUME InsideInv, ProcessNext, records' # records PROVE Forwarding
    OBVIOUS
  <2>1. PICK t \in Threads : WriterStep(t)
    BY DEF ProcessNext, ThreadStep, BindingStep, Diagnose, Writer!WriteLog,
       ProgramStep, ProcessDone, writerVars
  <2> QED
    BY <2>1 DEF WriterStep, InsideInv
<1> QED
  BY <1>1, InsideInvariant, PTL DEF ProcessSpec, SilentWhenDisabled

-----------------------------------------------------------------------------
(* What LogWriterProofs proves of the writer on its own, for the writer of *)
(* the process: the two are the same text with the same substitution, and  *)
(* the lemmas of this part say so, operator by operator.                   *)

WriterProofs == INSTANCE LogWriterProofs WITH pc <- writerPc

LEMMA SameSymbols == /\ WriterProofs!Bytes = Writer!Bytes
                     /\ WriterProofs!Chars = Writer!Chars
                     /\ WriterProofs!Words = Writer!Words
BY DEF WriterProofs!Bytes, Writer!Bytes, WriterProofs!Chars, Writer!Chars,
   WriterProofs!Words, Writer!Words

LEMMA SameText ==
    ASSUME NEW s
    PROVE  /\ WriterProofs!Decode(s) = Writer!Decode(s)
           /\ WriterProofs!FirstNewline(s) = Writer!FirstNewline(s)
           /\ WriterProofs!TrimEnd(s) = Writer!TrimEnd(s)
           /\ WriterProofs!Classify(s) = Writer!Classify(s)
<1>1. WriterProofs!Decode(s) = Writer!Decode(s)
  BY DEF WriterProofs!Decode, Writer!Decode, WriterProofs!CharAt,
     Writer!CharAt, WriterProofs!WholeAt, Writer!WholeAt,
     WriterProofs!FlattenSeq, Writer!FlattenSeq
<1>2. WriterProofs!FirstNewline(s) = Writer!FirstNewline(s)
  BY DEF WriterProofs!FirstNewline, Writer!FirstNewline,
     WriterProofs!IsNewline, Writer!IsNewline, WriterProofs!SelectInSeq,
     Writer!SelectInSeq, WriterProofs!Min, Writer!Min
<1>3. WriterProofs!TrimEnd(s) = Writer!TrimEnd(s)
  BY DEF WriterProofs!TrimEnd, Writer!TrimEnd, WriterProofs!NotSpace,
     Writer!NotSpace, WriterProofs!SelectLastInSeq, Writer!SelectLastInSeq,
     WriterProofs!Max, Writer!Max
<1>4. WriterProofs!Classify(s) = Writer!Classify(s)
  BY DEF WriterProofs!Classify, Writer!Classify, WriterProofs!TrimStart,
     Writer!TrimStart, WriterProofs!SelectInSeq, Writer!SelectInSeq,
     WriterProofs!Min, Writer!Min, WriterProofs!Spaces, Writer!Spaces,
     WriterProofs!Brackets, Writer!Brackets, WriterProofs!Announces,
     Writer!Announces, WriterProofs!Words, Writer!Words
<1> QED
  BY <1>1, <1>2, <1>3, <1>4

LEMMA SameSteps ==
    /\ Writer!Init => WriterProofs!Init
    /\ [Writer!Next]_writerVars => [WriterProofs!Next]_WriterProofs!vars
<1> USE DEF WriterProofs!vars, Writer!vars
<1>0. ASSUME NEW s PROVE WriterProofs!Decode(s) = Writer!Decode(s)
  BY SameText
<1>1. ASSUME NEW t PROVE WriterProofs!AppendChunk(t) = Writer!AppendChunk(t)
  BY <1>0 DEF WriterProofs!AppendChunk, Writer!AppendChunk
<1>2. ASSUME NEW t PROVE WriterProofs!DrainLine(t) = Writer!DrainLine(t)
  BY SameText DEF WriterProofs!DrainLine, Writer!DrainLine
<1>3. ASSUME NEW t PROVE WriterProofs!Hand(t) = Writer!Hand(t)
  BY SameText DEF WriterProofs!Hand, Writer!Hand
<1>4. ASSUME NEW t PROVE WriterProofs!EmitLine(t) = Writer!EmitLine(t)
  BY <1>3 DEF WriterProofs!EmitLine, Writer!EmitLine
<1>5. ASSUME NEW t PROVE WriterProofs!EmitPanics(t) = Writer!EmitPanics(t)
  BY <1>3 DEF WriterProofs!EmitPanics, Writer!EmitPanics
<1>6. ASSUME NEW t PROVE WriterProofs!Finish(t) = Writer!Finish(t)
  BY SameText DEF WriterProofs!Finish, Writer!Finish
<1>7. ASSUME NEW t PROVE WriterProofs!Step(t) = Writer!Step(t)
  BY <1>1, <1>2, <1>4, <1>5, <1>6 DEF WriterProofs!Step, Writer!Step
<1>8. ASSUME NEW t, NEW b PROVE WriterProofs!WriteLog(t, b) = Writer!WriteLog(t, b)
  BY DEF WriterProofs!WriteLog, Writer!WriteLog
<1>9. WriterProofs!Done = Writer!Done
  BY DEF WriterProofs!Done, Writer!Done
<1>10. WriterProofs!Next = Writer!Next
  BY <1>7, <1>8, <1>9 DEF WriterProofs!Next, Writer!Next
<1>11. Writer!Init => WriterProofs!Init
  BY DEF WriterProofs!Init, Writer!Init
<1> QED
  BY <1>10, <1>11 DEF writerVars

LEMMA SameLines == WriterProofs!LinesConserved <=> Writer!LinesConserved
<1>1. ASSUME NEW s PROVE WriterProofs!FlattenSeq(s) = Writer!FlattenSeq(s)
  BY DEF WriterProofs!FlattenSeq, Writer!FlattenSeq
<1>2. ASSUME NEW s PROVE WriterProofs!SetToSeq(s) = Writer!SetToSeq(s)
  BY DEF WriterProofs!SetToSeq, Writer!SetToSeq, WriterProofs!IsInjective,
     Writer!IsInjective, WriterProofs!Cardinality, Writer!Cardinality,
     WriterProofs!IsFiniteSet, Writer!IsFiniteSet
<1>3. ASSUME NEW s, NEW i PROVE WriterProofs!LinesAt(s, i) = Writer!LinesAt(s, i)
  <2>1. ASSUME NEW T PROVE WriterProofs!Max(T) = Writer!Max(T)
    BY DEF WriterProofs!Max, Writer!Max
  <2>2. WriterProofs!Newlines(s) = Writer!Newlines(s)
    BY DEF WriterProofs!Newlines, Writer!Newlines
  <2>3. WriterProofs!LineEndingAt(s, i) = Writer!LineEndingAt(s, i)
    BY <2>1, <2>2, SameText DEF WriterProofs!LineEndingAt, Writer!LineEndingAt
  <2> QED
    BY <2>2, <2>3 DEF WriterProofs!LinesAt, Writer!LinesAt
<1>4. ASSUME NEW s PROVE WriterProofs!LinesOf(s) = Writer!LinesOf(s)
  BY <1>1, <1>3 DEF WriterProofs!LinesOf, Writer!LinesOf
<1>5. ASSUME NEW s PROVE WriterProofs!Unfinished(s) = Writer!Unfinished(s)
  BY DEF WriterProofs!Unfinished, Writer!Unfinished, WriterProofs!Newlines,
     Writer!Newlines, WriterProofs!Max, Writer!Max
<1>6. WriterProofs!Handed = Writer!Handed
  BY DEF WriterProofs!Handed, Writer!Handed
<1>7. WriterProofs!InFlight = Writer!InFlight
  BY <1>1, <1>2 DEF WriterProofs!InFlight, Writer!InFlight
<1> QED
  BY <1>4, <1>5, <1>6, <1>7 DEF WriterProofs!LinesConserved,
     Writer!LinesConserved

LEMMA SameProperties ==
    /\ WriterProofs!TypeOK <=> Writer!TypeOK
    /\ WriterProofs!CaughtUp <=> Writer!CaughtUp
    /\ WriterProofs!RestReadable <=> Writer!RestReadable
    /\ WriterProofs!SeverityKept <=> Writer!SeverityKept
<1>1. WriterProofs!TypeOK <=> Writer!TypeOK
  BY SameSymbols DEF WriterProofs!TypeOK, Writer!TypeOK
<1>2. WriterProofs!CaughtUp <=> Writer!CaughtUp
  BY DEF WriterProofs!CaughtUp, Writer!CaughtUp, WriterProofs!Newlines,
     Writer!Newlines
<1>3. WriterProofs!RestReadable <=> Writer!RestReadable
  BY DEF WriterProofs!RestReadable, Writer!RestReadable, WriterProofs!Rest,
     Writer!Rest, WriterProofs!RestOf, Writer!RestOf, WriterProofs!FlattenSeq,
     Writer!FlattenSeq
<1>4. WriterProofs!SeverityKept <=> Writer!SeverityKept
  BY DEF WriterProofs!SeverityKept, Writer!SeverityKept, WriterProofs!Words,
     Writer!Words
<1> QED
  BY <1>1, <1>2, <1>3, <1>4

LEMMA WriterOfProcess == ProcessSpec => WriterProofs!Spec
BY SameSteps, ProcessIsWriter, PTL DEF WriterProofs!Spec

LEMMA WriterTypes == ProcessSpec => []Writer!TypeOK
<1>1. WriterProofs!Spec => []WriterProofs!TypeOK
  BY WriterProofs!WriterTypeCorrect, WriterAssumption, NilAssumption,
     SameSymbols
<1> QED
  BY <1>1, WriterOfProcess, SameProperties, PTL

(* In the process, whatever the bindings are doing meanwhile, no line the  *)
(* library writes is lost, repeated, reordered or cut, and none waits in   *)
(* LINE_BUFFER unless a logger panicked.                                   *)
THEOREM ProcessLosesNoLine ==
    ProcessSpec => [](Writer!LinesConserved /\ Writer!CaughtUp)
<1>1. /\ WriterProofs!Spec => []WriterProofs!LinesConserved
      /\ WriterProofs!Spec => []WriterProofs!CaughtUp
  BY WriterProofs!NoLineLost, WriterProofs!LinesNotHeldBack,
     WriterAssumption, NilAssumption, SameSymbols
<1> QED
  BY <1>1, WriterOfProcess, SameLines, SameProperties, PTL

(* And each is readable but for the characters that were cut, and keeps    *)
(* the severity it announces.                                              *)
THEOREM ProcessRecordsLines ==
    ProcessSpec => [](Writer!RestReadable /\ Writer!SeverityKept)
<1>1. /\ WriterProofs!Spec => []WriterProofs!RestReadable
      /\ WriterProofs!Spec => []WriterProofs!SeverityKept
  BY WriterProofs!RestStaysReadable, WriterProofs!SeverityAlwaysKept,
     WriterAssumption, NilAssumption, SameSymbols
<1> QED
  BY <1>1, WriterOfProcess, SameProperties, PTL

-----------------------------------------------------------------------------
(* Turns.                                                                  *)

LEMMA TurnInit == ProcessInit => TurnInv
<1> SUFFICES ASSUME ProcessInit PROVE TurnInv
  OBVIOUS
<1>1. said = <<>> /\ received = <<>>
  BY DEF ProcessInit, Writer!Init
<1>2. said \in Seq(Nat) /\ Len(said) = 0 /\ DOMAIN said = {}
  BY <1>1
<1> QED
  BY <1>1, <1>2 DEF ProcessInit, TurnInv

(* Turns that are numbered in their order stay so when the text goes on in *)
(* the last of them, or in one that begins at its end.                     *)
Rising(s) == /\ \A i \in 1..Len(s) : s[i] <= i
             /\ \A i, j \in 1..Len(s) : i < j => s[i] <= s[j]

LEMMA RisingOn ==
    ASSUME NEW s \in Seq(Nat), Rising(s), NEW m \in Nat, Len(s) <= m,
           NEW v \in Nat, v <= Len(s) + 1, \A i \in 1..Len(s) : s[i] <= v,
           NEW r, r = [i \in 1..m |-> IF i <= Len(s) THEN s[i] ELSE v]
    PROVE  /\ r \in Seq(Nat) /\ Len(r) = m /\ Rising(r)
           /\ \A i \in 1..m : r[i] <= v
<1> DEFINE n == Len(s)
<1>1. n \in Nat /\ \A i \in 1..n : s[i] \in Nat
  BY LenProperties, ElementOfSeq
<1> HIDE DEF n
<1>2. \A i \in 1..m : /\ r[i] \in Nat
                      /\ i <= n => i \in 1..n /\ r[i] = s[i]
                      /\ i > n => r[i] = v
  BY <1>1 DEF n
<1>3. r \in Seq(Nat) /\ Len(r) = m
  <2>1. r \in [1..m -> Nat]
    BY <1>2
  <2> QED
    BY <2>1, LenProperties
<1>4. \A i \in 1..m : r[i] <= i /\ r[i] <= v
  BY <1>1, <1>2 DEF n, Rising
<1>5. \A i, j \in 1..m : i < j => r[i] <= r[j]
  BY <1>1, <1>2, <1>4 DEF n, Rising
<1> QED
  BY <1>3, <1>4, <1>5 DEF Rising

(* Only the holder of the FFI lock is in a turn, so that a chunk is        *)
(* written in the last turn there is, or in a new one.                     *)
LEMMA TurnAppend ==
    ASSUME ControlInv, InsideInv, TurnInv, Writer!TypeOK,
           NEW t \in Threads, WriterStep(t), writerPc[t] = "lock"
    PROVE  TurnInv'
<1> DEFINE n == Len(said)
           m == Len(received')
           v == Turn(t)
<1>1. received' = received \o Writer!Decode(chunk[t]) /\ UNCHANGED vars
  BY DEF WriterStep, Writer!Step, Writer!AppendChunk, Writer!DrainLine,
     Writer!EmitLine, Writer!EmitPanics, Writer!Hand, Writer!Finish
<1>2. Writer!Decode(chunk[t]) \in Seq(Writer!Chars)
  <2>1. chunk[t] \in Seq(Writer!Bytes)
    <3>1. chunk[t] \in Chunks \cup {<<>>}
      BY DEF Writer!TypeOK
    <3> QED
      BY <3>1, WriterAssumption, EmptySeq
  <2>2. WriterProofs!Decode(chunk[t]) \in Seq(WriterProofs!Chars)
    BY <2>1, WriterProofs!DecodeTyped, WriterAssumption, NilAssumption,
       SameSymbols
  <2>3. WriterProofs!Decode(chunk[t]) = Writer!Decode(chunk[t])
    BY SameText
  <2> QED
    BY <2>2, <2>3, SameSymbols
<1>3. /\ n \in Nat /\ n = Len(received) /\ DOMAIN said = 1..n
      /\ m \in Nat /\ n <= m /\ DOMAIN received' = 1..m
  <2>1. said \in Seq(Nat) /\ Len(said) = Len(received)
    BY DEF TurnInv
  <2>2. received \in Seq(Writer!Chars)
    BY DEF Writer!TypeOK
  <2>3. /\ received' \in Seq(Writer!Chars)
        /\ m = Len(received) + Len(Writer!Decode(chunk[t]))
    BY <1>1, <1>2, <2>2, ConcatProperties
  <2> QED
    BY <1>2, <2>1, <2>2, <2>3, LenProperties
<1>4. said \in Seq(Nat) /\ Rising(said)
  BY <1>3 DEF TurnInv, Rising
<1>5. v \in Nat /\ v <= n + 1 /\ \A i \in 1..n : said[i] <= v
  <2>1. CASE voice[t] # 0
    BY <1>3, <2>1 DEF TurnInv, Turn
  <2>2. CASE voice[t] = 0
    <3>1. v = n + 1
      BY <2>2 DEF Turn
    <3> QED
      BY <1>3, <1>4, <3>1 DEF Rising
  <2> QED
    BY <2>1, <2>2
<1>6. \A u \in Threads \ {t} : voice[u] = 0
  BY DEF WriterStep, InsideInv, TurnInv, ControlInv, LockInv, GuardedPcs
<1>7. pc[t] \in GuardedPcs
  BY DEF WriterStep, InsideInv, GuardedPcs
<1>8. /\ voice' = [voice EXCEPT ![t] = v]
      /\ said' = [i \in 1..m |-> IF i <= Len(said) THEN said[i] ELSE v]
  BY <1>3 DEF WriterStep
<1> HIDE DEF m, v
<1>9. /\ said' \in Seq(Nat) /\ Len(said') = m /\ Rising(said')
      /\ \A i \in 1..m : said'[i] <= v
  <2> DEFINE r == [i \in 1..m |-> IF i <= Len(said) THEN said[i] ELSE v]
  <2>1. /\ r \in Seq(Nat) /\ Len(r) = m /\ Rising(r)
        /\ \A i \in 1..m : r[i] <= v
    BY <1>3, <1>4, <1>5, RisingOn
  <2>2. said' = r
    BY <1>8
  <2>3. Rising(said') <=> Rising(r)
    BY <2>2 DEF Rising
  <2> QED
    BY <2>1, <2>2, <2>3
<1>10. voice' \in [Threads -> Nat] /\ voice'[t] = v
  BY <1>5, <1>8 DEF TurnInv
<1>11. \A u \in Threads : voice'[u] # 0 => u = t
  BY <1>6, <1>8 DEF TurnInv
<1>12. pc' = pc /\ v <= m + 1
  BY <1>1, <1>3, <1>5 DEF vars
<1> QED
  BY <1>7, <1>9, <1>10, <1>11, <1>12, LenProperties DEF TurnInv, Rising, m

(* Everything else writes nothing, and leaves a turn only with the lock.   *)
LEMMA TurnQuiet ==
    ASSUME TurnInv, UNCHANGED <<received, said>>, voice' \in [Threads -> Nat],
           \A t \in Threads : voice'[t] # 0 =>
              voice'[t] = voice[t] /\ pc'[t] \in GuardedPcs
    PROVE  TurnInv'
BY DEF TurnInv

LEMMA TurnNext ==
    /\ ControlInv /\ InsideInv /\ TurnInv /\ Writer!TypeOK
    /\ [ProcessNext]_processVars
    => TurnInv'
<1> SUFFICES ASSUME ControlInv, InsideInv, TurnInv, Writer!TypeOK,
                    [ProcessNext]_processVars
             PROVE  TurnInv'
  OBVIOUS
<1>1. ASSUME NEW t \in Threads, BindingStep(t) PROVE TurnInv'
  BY <1>1, TurnQuiet DEF BindingStep, writerVars, TurnInv
<1>2. ASSUME NEW t \in Threads, WriterStep(t) PROVE TurnInv'
  <2>1. CASE writerPc[t] = "lock"
    BY <1>2, <2>1, TurnAppend
  <2>2. CASE writerPc[t] # "lock"
    <3>1. UNCHANGED <<vars, turnVars, received>>
      BY <1>2, <2>2 DEF WriterStep, Writer!Step, Writer!AppendChunk,
         Writer!DrainLine, Writer!EmitLine, Writer!EmitPanics, Writer!Hand,
         Writer!Finish
    <3> QED
      BY <3>1, TurnQuiet DEF vars, turnVars, TurnInv
  <2> QED
    BY <2>1, <2>2
<1>3. ASSUME NEW t \in Threads, NEW bytes \in Chunks, Diagnose(t, bytes)
      PROVE  TurnInv'
  BY <1>3, TurnQuiet DEF Diagnose, Writer!WriteLog, vars, turnVars, TurnInv
<1>4. ASSUME NEW t \in Threads, Calling(t), UNCHANGED <<writerVars, turnVars>>
      PROVE  TurnInv'
  <2>1. pc[t] = "idle" /\ \A u \in Threads \ {t} : pc'[u] = pc[u]
    BY <1>4 DEF ControlInv, Calling, CallInit, CallNew, CallDrop, CallCompile,
       CallQuery, Start, Goto
  <2>2. \A u \in Threads : pc[u] \in GuardedPcs => pc'[u] = pc[u]
    BY <2>1 DEF GuardedPcs, LibraryPcs, Kinds
  <2> QED
    BY <1>4, <2>2, TurnQuiet DEF writerVars, turnVars, TurnInv
<1>5. ASSUME Program \/ Done \/ UNCHANGED vars,
             UNCHANGED <<writerVars, turnVars>>
      PROVE  TurnInv'
  BY <1>5, TurnQuiet DEF Program, ReleaseBlob, RecordConfig, Done, vars,
     writerVars, turnVars, TurnInv
<1> QED
  BY <1>1, <1>2, <1>3, <1>4, <1>5 DEF ProcessNext, ThreadStep, ProgramStep,
     ProcessDone, processVars

(* The writer is called "while that thread holds the global FFI lock"      *)
(* (logging.rs:30): nothing is written between two pieces of what one      *)
(* entry point has to say, and a line holds text of two of them only where *)
(* the first left it unfinished and the second begins.                     *)
THEOREM DiagnosticsNeverMix == ProcessSpec => []OneVoice
<1>1. TurnInv /\ Writer!TypeOK => OneVoice
  <2> SUFFICES ASSUME TurnInv, Writer!TypeOK,
                      NEW i \in DOMAIN received, NEW j \in DOMAIN received,
                      NEW k \in DOMAIN received, i < j, said[i] # said[j]
               PROVE  /\ said[k] = said[i] => k < j
                      /\ said[k] = said[j] => k > i
    BY DEF OneVoice
  <2>1. /\ DOMAIN received = DOMAIN said
        /\ i \in Nat /\ j \in Nat /\ k \in Nat
        /\ said[i] \in Nat /\ said[j] \in Nat /\ said[k] \in Nat
    <3>1. /\ said \in Seq(Nat) /\ Len(said) = Len(received)
          /\ received \in Seq(Writer!Chars)
      BY DEF TurnInv, Writer!TypeOK
    <3>2. DOMAIN said = 1..Len(said) /\ DOMAIN received = 1..Len(received)
      BY <3>1, LenProperties
    <3> QED
      BY <3>1, <3>2, LenProperties, ElementOfSeq
  <2>2. /\ said[i] <= said[j]
        /\ j < k => said[j] <= said[k]
        /\ k < i => said[k] <= said[i]
    BY <2>1 DEF TurnInv
  <2> QED
    BY <2>1, <2>2
<1> QED
  BY <1>1, TurnInit, TurnNext, InsideInvariant, WriterTypes, PTL
     DEF ProcessSpec
=============================================================================
