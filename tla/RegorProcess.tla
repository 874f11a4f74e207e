---------------------------- MODULE RegorProcess ----------------------------
(***************************************************************************)
(* The bindings and their log writer in one process.  While a thread is    *)
(* inside a library call the library may call write_log on that thread,    *)
(* with the FFI lock held by it; the call goes on when the writer has      *)
(* returned.  The mutex of LINE_BUFFER and the FFI lock meet here.         *)
(***************************************************************************)
EXTENDS RegorBindings, Sequences

CONSTANTS Chunks, MaxWrites, LoggerMayPanic    \* see LogWriter

VARIABLES
    lineLock, buffer, chunk, line, writes, raw, received, records,
    panicked,   \* see LogWriter
    writerPc,   \* where each thread is in write_log (LogWriter's pc)
    \* History variables.
    voice,      \* the turn in which each thread writes since it took the FFI
                \* lock, or 0: the place in `received` where it began
    said        \* the turn each character of `received` was written in

Writer == INSTANCE LogWriter WITH pc <- writerPc

ASSUME WriterAssumption ==
    /\ Chunks \subseteq Seq(Writer!Bytes) \ {<<>>}
    /\ MaxWrites \in Nat
    /\ LoggerMayPanic \in BOOLEAN

writerVars == <<lineLock, buffer, writerPc, chunk, line, writes, raw,
                received, records, panicked>>
turnVars == <<voice, said>>
processVars == <<vars, writerVars, turnVars>>

ProcessInit ==
    Init /\ Writer!Init /\ voice = [t \in Threads |-> 0] /\ said = <<>>

(* The writer is installed with a mask, and the library writes nothing     *)
(* under an empty one.                                                     *)
Forwarding == logFilter \notin {Nil, EmptyFilter}

InWriter(t) == writerPc[t] # "idle"

(* The library has something to say in the middle of a call.               *)
Diagnose(t, bytes) ==
    /\ pc[t] \in LibraryPcs
    /\ Forwarding
    /\ Writer!WriteLog(t, bytes)
    /\ UNCHANGED <<vars, turnVars>>

(* A new turn begins with the first chunk after the FFI lock was taken.    *)
Turn(t) == IF voice[t] # 0 THEN voice[t] ELSE Len(said) + 1

WriterStep(t) ==
    /\ InWriter(t)
    /\ Writer!Step(t)
    /\ IF writerPc[t] = "lock"
       THEN /\ voice' = [voice EXCEPT ![t] = Turn(t)]
            /\ said' = [i \in DOMAIN received' |->
                          IF i <= Len(said) THEN said[i] ELSE Turn(t)]
       ELSE UNCHANGED turnVars
    /\ UNCHANGED vars

(* The thread goes on in the bindings, or in the library, which is where   *)
(* write_log returned to.                                                  *)
BindingStep(t) ==
    /\ ~InWriter(t)
    /\ Step(t)
    /\ voice' = [u \in Threads |-> IF pc'[u] \in GuardedPcs THEN voice[u] ELSE 0]
    /\ UNCHANGED <<writerVars, said>>

ThreadStep(t) == BindingStep(t) \/ WriterStep(t)

ProgramStep ==
    /\ Program \/ \E t \in Threads : Calling(t)
    /\ UNCHANGED <<writerVars, turnVars>>

ProcessDone == Done /\ UNCHANGED <<writerVars, turnVars>>

ProcessNext ==
    \/ \E t \in Threads : ThreadStep(t) \/ \E bytes \in Chunks : Diagnose(t, bytes)
    \/ ProgramStep
    \/ ProcessDone

ProcessSpec == ProcessInit /\ [][ProcessNext]_processVars

(* A thread inside a call runs on: in the bindings, in the library, whose  *)
(* calls come back and which has only so much to say, or in the writer,    *)
(* whose logger returns or panics.  Nothing is assumed of when the program *)
(* makes calls.  Checked with EveryCallReturns of RegorBindings: no call   *)
(* gets stuck on the line buffer's mutex with the FFI lock held, nor       *)
(* behind a thread whose logger has panicked with it.                      *)
ProcessFairSpec == ProcessSpec /\ \A t \in Threads : WF_processVars(ThreadStep(t))

-----------------------------------------------------------------------------
(* Properties.                                                             *)

(* LINE_BUFFER belongs to the process and not to a call, so a line may be  *)
(* of more than one: what a call has left unfinished begins the first line *)
(* of the next.  That is all that ever mixes.  Where a line holds text of  *)
(* two turns of the FFI lock, the earlier wrote nothing after that line    *)
(* and the later nothing before it: no call breaks into the middle of what *)
(* another has to say (logging.rs:30: the writer is called "while that     *)
(* thread holds the global FFI lock").                                     *)
SameLine(i, j) == \A k \in i..(j - 1) : received[k] # "nl"
OneVoice ==
    \A i, j \in DOMAIN received : i < j /\ said[i] # said[j] /\ SameLine(i, j) =>
        \A k \in DOMAIN received : /\ said[k] = said[i] => k < j
                                  /\ said[k] = said[j] => k > i

(* logging.rs:109, disable: "regor keeps a writer installed but emits      *)
(* nothing".  A line is handed to the program's logger only while a filter *)
(* that lets something through is in force, also when disable and a        *)
(* compilation in full spate are on different threads.                     *)
SilentWhenDisabled == [][records' # records => Forwarding]_processVars

-----------------------------------------------------------------------------
(* For the proofs: turns are numbered in the order of the text, and a      *)
(* thread is in the last one, under the FFI lock.                          *)
TurnInv ==
    /\ said \in Seq(Nat) /\ Len(said) = Len(received)
    /\ voice \in [Threads -> Nat]
    /\ \A i \in DOMAIN said : said[i] <= i
    /\ \A i, j \in DOMAIN said : i < j => said[i] <= said[j]
    /\ \A t \in Threads : voice[t] # 0 =>
          /\ pc[t] \in GuardedPcs
          /\ \A i \in DOMAIN said : said[i] <= voice[t]
          /\ voice[t] <= Len(said) + 1
=============================================================================
