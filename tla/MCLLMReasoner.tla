--------------------------- MODULE MCLLMReasoner ---------------------------
(* A raw stream and one with a cursor that moves, of two entries each.  Both *)
(* keep the latest entry at least: the oldest entry of the raw one changes,   *)
(* and the other may lose its first before it is read.                        *)
EXTENDS LLMReasoner
MCOrder == <<"news", "confluence">>
MCRaw == {"news"}
MCMaxLen == [s \in {"news", "confluence"} |-> 1]
=============================================================================
