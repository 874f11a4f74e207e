----------------------------- MODULE MCLogWriter -----------------------------
(***************************************************************************)
(* Model checking LogWriter.  The chunks cut lines, a line's severity, the *)
(* very word of it and a two-byte character, and hold none, one or two     *)
(* newlines.                                                               *)
(***************************************************************************)
EXTENDS LogWriter

CONSTANTS t1, t2

MCThreads == {t1, t2}
MCChunks == {<<"text">>, <<"nl">>, <<"text", "nl", "text", "nl">>,
             <<"sp", "br">>, <<"br", "sp">>, <<"br", "error">>,
             <<"end", "sp", "nl">>, <<"nl", "lead">>, <<"cont", "nl">>,
             <<"lead", "cont", "nl">>}
=============================================================================
