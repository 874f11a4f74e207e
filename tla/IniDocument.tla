----------------------------- MODULE IniDocument -----------------------------
(***************************************************************************)
(* The documents regor is configured with: a sequence of section headers   *)
(* and key=value lines.  A line belongs to the last header before it; that *)
(* is how the library reads them, and section_of in the tests of           *)
(* options.rs.                                                             *)
(***************************************************************************)
EXTENDS Integers, SequencesExt

CONSTANT Unset      \* None; also the section of a line before any header

Header(name) == [header |-> TRUE, key |-> name, value |-> Unset]
Line(key, value) == [header |-> FALSE, key |-> key, value |-> value]

SectionAt(doc, i) ==
    LET headers == {j \in 1..i : doc[j].header}
    IN  IF headers = {} THEN Unset ELSE doc[Max(headers)].key

(* The values a document gives a key of a section, in order.               *)
Read(doc, section, key) ==
    LET hit(i) == ~doc[i].header /\ doc[i].key = key
                  /\ SectionAt(doc, i) = section
    IN  FlattenSeq([i \in DOMAIN doc |-> IF hit(i) THEN <<doc[i].value>>
                                                   ELSE <<>>])

Headers(doc) == {doc[i].key : i \in {j \in DOMAIN doc : doc[j].header}}
Keys(doc) == {doc[i].key : i \in {j \in DOMAIN doc : ~doc[j].header}}
=============================================================================
