--------------------------- MODULE RegorRefinement ---------------------------
(***************************************************************************)
(* RegorBindings implements RegorService: what each variable of the        *)
(* service is, in the state of the bindings and of the library.  The       *)
(* engine of a Compiler is what the library finds under its id, so two     *)
(* Compilers share one as soon as their ids do.                            *)
(***************************************************************************)
EXTENDS RegorBindings

alive == [c \in Compilers |-> Found(ctx[c])]

engine == [c \in Compilers |-> IF Found(ctx[c]) THEN applied[registry[ctx[c]]]
                                                ELSE Unconfigured]

lent == [c \in Compilers |-> blob[c] # NoContext]

(* What the caller of compile gets is what is in its Vec; the caller of    *)
(* compile_with_writer was handed each chunk as it came.                   *)
Kept(t) == IF Op(t) = "compile" THEN buf[t] ELSE sent[t]

Idle == [compiler |-> Nil, config |-> Unconfigured, made |-> 0, kept |-> 0]

job == [t \in Threads |->
           IF pc[t] = "compiling"
           THEN [compiler |-> On(t), config |-> engine[On(t)],
                 made |-> sent[t], kept |-> Kept(t)]
           ELSE Idle]

Service == INSTANCE RegorService WITH recorded <- pending, filter <- logFilter

(* However threads interleave, whatever the library refuses or writes and  *)
(* whichever ids it hands out, a program cannot tell the bindings from     *)
(* private engines behind a service that compiles for one at a time        *)
(* (sync.rs:13-26, compiler.rs:36, logging.rs:114).                        *)
ImplementsService == Service!Spec

(* For the proof: a filter has been installed by someone who has noted it, *)
(* or is about to and holds INSTALL_STATE until then; and only an init     *)
(* asks for another filter than the empty one.                             *)
FilterInv ==
    /\ logFilter # Nil =>
          installed \/ \E t \in Threads : pc[t] = "install_done"
    /\ \A t \in Threads : Explicit(t) \/ call[t].filter = EmptyFilter
=============================================================================
