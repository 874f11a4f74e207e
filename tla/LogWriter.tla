------------------------------ MODULE LogWriter ------------------------------
(***************************************************************************)
(* The log writer of logging.rs: write_log, which the C library calls with *)
(* chunks of diagnostics, and the process-wide LINE_BUFFER that turns them *)
(* into one record per line for the `log` and `tracing` facades.           *)
(*                                                                         *)
(* A byte is abstracted to what the code tells apart.  A two-byte UTF-8    *)
(* character is "lead" followed by "cont"; decoded it is the character     *)
(* "char", and each half of one that a chunk boundary has cut is "bad"     *)
(* (U+FFFD).  "error", "warn" and "debug" are the beginnings of the words  *)
(* classify looks for ("fatal" and "trace" among them) and "end" is what   *)
(* completes one, so that a chunk boundary may cut the word as well; "sp"  *)
(* is white space, "br" an opening bracket, "nl" the newline.              *)
(***************************************************************************)
EXTENDS Naturals, SequencesExt

CONSTANTS
    Threads,        \* the threads that may be inside the library
    Nil,            \* no thread
    Chunks,         \* the chunks the library writes: non-empty byte sequences
    MaxWrites,      \* bound: how many chunks it writes
    LoggerMayPanic  \* whether the program's logger may panic

Bytes == {"text", "sp", "br", "error", "warn", "debug", "end", "lead", "cont",
          "nl"}
Chars == (Bytes \ {"lead", "cont"}) \cup {"char", "bad"}
Words == {"error", "warn", "debug"}

ASSUME ChunkAssumption == Chunks \subseteq Seq(Bytes) \ {<<>>}
ASSUME LogAssumption == MaxWrites \in Nat /\ LoggerMayPanic \in BOOLEAN
ASSUME ThreadAssumption == Nil \notin Threads

VARIABLES
    lineLock,   \* the mutex of LINE_BUFFER: its holder, or Nil
    buffer,     \* LINE_BUFFER: characters not yet emitted
    pc,         \* where each thread is in write_log
    chunk,      \* the bytes it was called with
    line,       \* the line it has drained and not yet emitted
    writes,     \* calls of write_log so far
    \* History variables.
    raw,        \* the bytes of all chunks, in the order of the mutex
    received,   \* their characters
    records,    \* what the logger was handed: level and text, in order
    panicked    \* whether the last call that ended ended by a panic

vars == <<lineLock, buffer, pc, chunk, line, writes, raw, received,
          records, panicked>>

-----------------------------------------------------------------------------
(* Text.                                                                   *)

(* Slip: strict decoding, a chunk that cuts a character is dropped.        *)
DecodeStrict(bytes) ==
    IF bytes[1] = "cont" \/ bytes[Len(bytes)] = "lead" THEN <<>>
    ELSE FlattenSeq([i \in DOMAIN bytes |->
                        CASE bytes[i] = "lead" -> <<"char">>
                          [] bytes[i] = "cont" -> <<>>
                          [] OTHER             -> <<bytes[i]>>])

(* String::from_utf8_lossy on one chunk: what becomes of each byte.        *)
WholeAt(bytes, i) ==
    i < Len(bytes) /\ bytes[i] = "lead" /\ bytes[i + 1] = "cont"
CharAt(bytes, i) ==
    CASE WholeAt(bytes, i) -> <<"char">>
      [] i > 1 /\ WholeAt(bytes, i - 1) -> <<>>
      [] bytes[i] \in {"lead", "cont"} -> <<"bad">>
      [] OTHER -> <<bytes[i]>>
Decode(bytes) == FlattenSeq([i \in DOMAIN bytes |-> CharAt(bytes, i)])

IsNewline(c) == c = "nl"
NotSpace(c) == c \notin {"sp", "nl"}
FirstNewline(s) == SelectInSeq(s, IsNewline)

(* str::trim_end.                                                          *)
TrimEnd(s) == SubSeq(s, 1, SelectLastInSeq(s, NotSpace))

(* classify: white space, then brackets, are skipped, then a prefix tells. *)
Spaces == {"sp", "nl"}
Brackets == {"br"}
TrimStart(s, skipped) ==
    LET kept(c) == c \notin skipped
        first == SelectInSeq(s, kept)
    IN  IF first = 0 THEN <<>> ELSE SubSeq(s, first, Len(s))

Announces(head) == Len(head) > 1 /\ head[1] \in Words /\ head[2] = "end"

(* Slip: brackets are trimmed before white space.                          *)
ClassifyBracketsFirst(s) ==
    LET head == TrimStart(TrimStart(s, Brackets), Spaces)
    IN  IF Announces(head) THEN head[1] ELSE "info"

Classify(s) ==
    LET head == TrimStart(TrimStart(s, Spaces), Brackets)
    IN  IF Announces(head) THEN head[1] ELSE "info"

-----------------------------------------------------------------------------
TypeOK ==
    /\ lineLock \in Threads \cup {Nil}
    /\ buffer \in Seq(Chars) /\ received \in Seq(Chars) /\ raw \in Seq(Bytes)
    /\ pc \in [Threads -> {"idle", "lock", "scan", "emit"}]
    /\ chunk \in [Threads -> Chunks \cup {<<>>}]
    /\ line \in [Threads -> Seq(Chars \ {"nl"})]
    /\ writes \in 0..MaxWrites
    /\ records \in Seq([level : Words \cup {"info"}, text : Seq(Chars)])
    /\ panicked \in BOOLEAN

Init ==
    /\ lineLock = Nil /\ buffer = <<>> /\ writes = 0
    /\ pc = [t \in Threads |-> "idle"]
    /\ chunk = [t \in Threads |-> <<>>] /\ line = [t \in Threads |-> <<>>]
    /\ raw = <<>> /\ received = <<>> /\ records = <<>> /\ panicked = FALSE

(* The library calls the writer; a null or empty chunk returns at once.    *)
WriteLog(t, bytes) ==
    /\ pc[t] = "idle"
    /\ writes < MaxWrites
    /\ writes' = writes + 1
    /\ pc' = [pc EXCEPT ![t] = "lock"]
    /\ chunk' = [chunk EXCEPT ![t] = bytes]
    /\ UNCHANGED <<lineLock, buffer, line, raw, received, records, panicked>>

(* Slip: the bytes are buffered undecoded.                                 *)
AppendUndecoded(t) ==
    /\ pc[t] = "lock"
    /\ lineLock = Nil
    /\ lineLock' = t
    /\ buffer' = buffer \o chunk[t]
    /\ raw' = raw \o chunk[t]
    /\ received' = received \o Decode(chunk[t])
    /\ pc' = [pc EXCEPT ![t] = "scan"]
    /\ chunk' = [chunk EXCEPT ![t] = <<>>]
    /\ UNCHANGED <<line, writes, records, panicked>>

(* LINE_BUFFER is locked, poisoned or not, and the text appended.          *)
AppendChunk(t) ==
    /\ pc[t] = "lock"
    /\ lineLock = Nil
    /\ lineLock' = t
    /\ buffer' = buffer \o Decode(chunk[t])
    /\ raw' = raw \o chunk[t]
    /\ received' = received \o Decode(chunk[t])
    /\ pc' = [pc EXCEPT ![t] = "scan"]
    /\ chunk' = [chunk EXCEPT ![t] = <<>>]
    /\ UNCHANGED <<line, writes, records, panicked>>

(* Slip: the line is drained only after the logger has had it.             *)
DrainLineLate(t) ==
    LET end == FirstNewline(buffer)
        text == TrimEnd(SubSeq(buffer, 1, end - 1))
    IN  /\ pc[t] = "scan"
        /\ end # 0
        /\ buffer' = IF text = <<>> THEN SubSeq(buffer, end + 1, Len(buffer))
                     ELSE buffer
        /\ line' = [line EXCEPT ![t] = text]
        /\ pc' = IF text = <<>> THEN pc ELSE [pc EXCEPT ![t] = "emit"]
        /\ UNCHANGED <<lineLock, chunk, writes, raw, received, records,
                       panicked>>

(* The loop of write_log: the next complete line leaves the buffer before  *)
(* it is emitted; an empty one is not emitted.                             *)
DrainLine(t) ==
    LET end == FirstNewline(buffer)
        text == TrimEnd(SubSeq(buffer, 1, end - 1))
    IN  /\ pc[t] = "scan"
        /\ end # 0
        /\ buffer' = SubSeq(buffer, end + 1, Len(buffer))
        /\ line' = [line EXCEPT ![t] = text]
        /\ pc' = IF text = <<>> THEN pc ELSE [pc EXCEPT ![t] = "emit"]
        /\ UNCHANGED <<lineLock, chunk, writes, raw, received, records,
                       panicked>>

(* emit: the record is handed to the logger, at the level classify gives.  *)
Hand(t) ==
    /\ pc[t] = "emit"
    /\ records' = Append(records, [level |-> Classify(line[t]),
                                   text |-> line[t]])
    /\ line' = [line EXCEPT ![t] = <<>>]

EmitLine(t) ==
    /\ Hand(t)
    /\ pc' = [pc EXCEPT ![t] = "scan"]
    /\ UNCHANGED <<lineLock, buffer, chunk, writes, raw, received, panicked>>

(* Slip: a mutex that a panic has poisoned is never unlocked.              *)
EmitPanicsHolding(t) ==
    /\ LoggerMayPanic
    /\ Hand(t)
    /\ pc' = [pc EXCEPT ![t] = "idle"]
    /\ panicked' = TRUE
    /\ UNCHANGED <<lineLock, buffer, chunk, writes, raw, received>>

(* The logger panics: the guard unwinds, poisoning the mutex, and          *)
(* catch_unwind ends the call.  Lines still in the buffer stay there.      *)
EmitPanics(t) ==
    /\ LoggerMayPanic
    /\ Hand(t)
    /\ lineLock' = Nil
    /\ pc' = [pc EXCEPT ![t] = "idle"]
    /\ panicked' = TRUE
    /\ UNCHANGED <<buffer, chunk, writes, raw, received>>

(* Slip: one line per call instead of a loop.                              *)
FinishEarly(t) ==
    /\ pc[t] = "scan"
    /\ lineLock' = Nil
    /\ pc' = [pc EXCEPT ![t] = "idle"]
    /\ panicked' = FALSE
    /\ UNCHANGED <<buffer, chunk, line, writes, raw, received, records>>

Finish(t) ==
    /\ pc[t] = "scan"
    /\ FirstNewline(buffer) = 0
    /\ lineLock' = Nil
    /\ pc' = [pc EXCEPT ![t] = "idle"]
    /\ panicked' = FALSE
    /\ UNCHANGED <<buffer, chunk, line, writes, raw, received, records>>

Step(t) == AppendChunk(t) \/ DrainLine(t) \/ EmitLine(t) \/ EmitPanics(t)
           \/ Finish(t)

(* The library has written what it had to write (the bound MaxWrites).     *)
Done == /\ writes = MaxWrites /\ \A t \in Threads : pc[t] = "idle"
        /\ UNCHANGED vars

Next == \/ \E t \in Threads : Step(t) \/ \E bytes \in Chunks : WriteLog(t, bytes)
        \/ Done

Spec == Init /\ [][Next]_vars

(* A thread inside write_log keeps running; the program's logger returns   *)
(* or panics.                                                              *)
FairSpec == Spec /\ \A t \in Threads : WF_vars(Step(t))

-----------------------------------------------------------------------------
(* What the inductive invariant of LogWriterProofs adds to the properties: *)
(* a thread is in the loop of write_log, or handing a line over, exactly   *)
(* while it has the buffer, and a record is one classified line.           *)
HolderInv == \A t \in Threads : pc[t] \in {"scan", "emit"} <=> lineLock = t

RecordInv ==
    \A n \in DOMAIN records :
       /\ records[n].text \in Seq(Chars \ {"nl"})
       /\ records[n].level = Classify(records[n].text)

-----------------------------------------------------------------------------
(* Properties.                                                             *)

(* The lines of a text, without reference to how write_log finds them:     *)
(* what stands between a newline and the one before it, trimmed, and not   *)
(* empty; and what follows the last newline.                               *)
Newlines(s) == {i \in DOMAIN s : s[i] = "nl"}
LineEndingAt(s, i) ==
    TrimEnd(SubSeq(s, Max({0} \cup {j \in Newlines(s) : j < i}) + 1, i - 1))
LinesAt(s, i) ==
    IF i \in Newlines(s) /\ LineEndingAt(s, i) # <<>> THEN <<LineEndingAt(s, i)>>
    ELSE <<>>
LinesOf(s) == FlattenSeq([i \in DOMAIN s |-> LinesAt(s, i)])
Unfinished(s) == SubSeq(s, Max({0} \cup Newlines(s)) + 1, Len(s))

InFlight == FlattenSeq(SetToSeq({<<line[t]>> : t \in {u \in Threads :
                                                       pc[u] = "emit"}}))
Handed == [n \in DOMAIN records |-> records[n].text]

(* No line is lost, repeated, reordered or cut, whichever chunks it came   *)
(* in and wherever the logger panicked: the lines handed to the logger,    *)
(* the one being handed and those still in LINE_BUFFER are the lines       *)
(* written, and an unfinished one waits in the buffer.                     *)
LinesConserved ==
    /\ Handed \o InFlight \o LinesOf(buffer) = LinesOf(received)
    /\ Unfinished(buffer) = Unfinished(received)

(* When nobody is in write_log, a complete line is left in the buffer only *)
(* by a logger that panicked.                                              *)
CaughtUp == lineLock = Nil /\ ~panicked => Newlines(buffer) = {}

(* What a text holds besides multi-byte characters and their pieces.       *)
RestOf(c) == IF c \in {"lead", "cont", "char", "bad"} THEN <<>> ELSE <<c>>
Rest(s) == FlattenSeq([i \in DOMAIN s |-> RestOf(s[i])])

(* "Lossy conversion keeps the rest of the line readable" (logging.rs):    *)
(* a character cut by a chunk boundary costs no other character, and in    *)
(* particular no newline.                                                  *)
RestReadable == Rest(received) = Rest(raw)

(* A line that announces a severity, behind white space and brackets, is   *)
(* recorded at it, also when the announcement, or the very word, arrived   *)
(* in pieces.                                                              *)
SeverityKept ==
    \A n \in DOMAIN records : \A w \in Words :
        LET s == records[n].text
        IN  records[n].level = w <=>
              \E i \in DOMAIN s, j \in 0..Len(s) :
                 /\ j < i /\ i < Len(s) /\ s[i] = w /\ s[i + 1] = "end"
                 /\ \A k \in 1..j : s[k] = "sp"
                 /\ \A k \in (j + 1)..(i - 1) : s[k] = "br"

(* write_log always returns to the library, panics and poisoning included. *)
EveryWriteReturns == \A t \in Threads : pc[t] # "idle" ~> pc[t] = "idle"
=============================================================================
