------------------------------ MODULE MCScriptTags -----------------------------
(* All pages of up to three parts.  The lengths are those of the code, of an       *)
(* address of eight characters, and of a text that is too short to stand between  *)
(* an address and a tag, and one that is not.                                      *)
EXTENDS ScriptTags, SequencesExt

MCTagSize == [SERVERADDR |-> 17, SERVERTIME |-> 17, PAGETIME |-> 15, unknown |-> 13]
MCValueSize == [SERVERADDR |-> 8, SERVERTIME |-> 24, PAGETIME |-> 16]

Parts == {[kind |-> k, size |-> MCTagSize[k]] : k \in DOMAIN MCTagSize}
         \cup {[kind |-> "text", size |-> n] : n \in {3, 10}}
MCPages == BoundedSeq(Parts, 3)
=============================================================================
