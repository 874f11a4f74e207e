---------------------------- MODULE RegorService ----------------------------
(***************************************************************************)
(* What the bindings promise a program, without ids, locks, callbacks or   *)
(* program counters: every Compiler owns an engine of its own, which only  *)
(* the calls made on that Compiler configure; compilations run one at a    *)
(* time, each against a configuration that stays what it was when the      *)
(* compilation began; and the process has one log filter, which an         *)
(* explicit choice sets and a default never replaces.                      *)
(***************************************************************************)
EXTENDS Naturals

CONSTANTS Threads, Compilers, Kinds, Docs, Filters, EmptyFilter, Nil

VARIABLES
    alive,      \* Compiler -> whether it exists
    engine,     \* Compiler -> what its engine is configured with
    recorded,   \* Compiler -> documents that wait for its next compilation
    lent,       \* Compiler -> whether its output is lent out as a Blob
    job,        \* thread -> the compilation it runs, or NoJob
    filter      \* the log filter, Nil as long as there is none

serviceVars == <<alive, engine, recorded, lent, job, filter>>

Blank == [k \in Kinds |-> Nil]
NoJob == [compiler |-> Nil, config |-> Blank, made |-> 0, kept |-> 0]

(* Nothing changes an engine while a compilation runs.                     *)
Running(t) == job[t].compiler # Nil
Quiet == \A t \in Threads : ~Running(t)

Owned(c) == alive[c] /\ ~lent[c]

Init ==
    /\ alive = [c \in Compilers |-> FALSE]
    /\ engine = [c \in Compilers |-> Blank]
    /\ recorded = [c \in Compilers |-> Blank]
    /\ lent = [c \in Compilers |-> FALSE]
    /\ job = [t \in Threads |-> NoJob]
    /\ filter = Nil

New(c) ==
    /\ Quiet
    /\ ~alive[c]
    /\ alive' = [alive EXCEPT ![c] = TRUE]
    /\ engine' = [engine EXCEPT ![c] = Blank]
    /\ UNCHANGED <<recorded, lent, job, filter>>

Drop(c) ==
    /\ Quiet
    /\ Owned(c)
    /\ alive' = [alive EXCEPT ![c] = FALSE]
    /\ engine' = [engine EXCEPT ![c] = Blank]
    /\ recorded' = [recorded EXCEPT ![c] = Blank]
    /\ UNCHANGED <<lent, job, filter>>

(* A document replaces the one of its kind that still waits; it may come   *)
(* in the middle of a compilation, of another Compiler only.               *)
Record(c, k, doc) ==
    /\ Owned(c)
    /\ \A t \in Threads : job[t].compiler # c
    /\ recorded' = [recorded EXCEPT ![c][k] = doc]
    /\ UNCHANGED <<alive, engine, lent, job, filter>>

(* A waiting document reaches its engine, or is refused by it.             *)
Push(c, k) ==
    /\ Quiet
    /\ Owned(c)
    /\ recorded[c][k] # Nil
    /\ recorded' = [recorded EXCEPT ![c][k] = Nil]
    /\ \/ engine' = [engine EXCEPT ![c][k] = recorded[c][k]]
       \/ UNCHANGED engine
    /\ UNCHANGED <<alive, lent, job, filter>>

Begin(t, c) ==
    /\ Quiet
    /\ Owned(c)
    /\ recorded[c] = Blank
    /\ job' = [job EXCEPT ![t] = [compiler |-> c, config |-> engine[c],
                                  made |-> 0, kept |-> 0]]
    /\ UNCHANGED <<alive, engine, recorded, lent, filter>>

(* The engine makes a chunk of output and it is kept for the caller.       *)
Write(t) ==
    /\ Running(t)
    /\ job' = [job EXCEPT ![t] = [compiler |-> @.compiler, config |-> @.config,
                                  made |-> @.made + 1, kept |-> @.kept + 1]]
    /\ UNCHANGED <<alive, engine, recorded, lent, filter>>

Finish(t) ==
    /\ Running(t)
    /\ job' = [job EXCEPT ![t] = NoJob]
    /\ UNCHANGED <<alive, engine, recorded, lent, filter>>

Lend(c) ==
    /\ Quiet
    /\ Owned(c)
    /\ lent' = [lent EXCEPT ![c] = TRUE]
    /\ UNCHANGED <<alive, engine, recorded, job, filter>>

GiveBack(c) ==
    /\ lent[c]
    /\ lent' = [lent EXCEPT ![c] = FALSE]
    /\ UNCHANGED <<alive, engine, recorded, job, filter>>

(* The filter an explicit init asks for; the empty one, for a Compiler     *)
(* made before anybody has chosen.                                         *)
Choose(f) ==
    /\ Quiet
    /\ filter' = f
    /\ UNCHANGED <<alive, engine, recorded, lent, job>>

Default ==
    /\ Quiet
    /\ filter = Nil
    /\ filter' = EmptyFilter
    /\ UNCHANGED <<alive, engine, recorded, lent, job>>

Next ==
    \/ \E c \in Compilers :
          \/ New(c) \/ Drop(c) \/ Lend(c) \/ GiveBack(c)
          \/ \E k \in Kinds : Push(c, k) \/ \E doc \in Docs : Record(c, k, doc)
    \/ \E t \in Threads :
          Write(t) \/ Finish(t) \/ \E c \in Compilers : Begin(t, c)
    \/ Default \/ \E f \in Filters : Choose(f)

Spec == Init /\ [][Next]_serviceVars
=============================================================================
