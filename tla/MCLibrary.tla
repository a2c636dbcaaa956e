------------------------------ MODULE MCLibrary ------------------------------
(* Three pieces the other components stand on, each with the abstract      *)
(* specification it implements: the forest of DisjointSet, the stream of   *)
(* Rpc and the document of TextDocument.  A behaviour is that of one of    *)
(* them; the other two stay as they begin.                                 *)
EXTENDS DisjointSet, Rpc, TextDocument

VARIABLE part           \* "forest", "stream" or "document"

(* Contents that look like headers, lengths and separators. *)
Misleading == {<<"1">>, <<"r", "h">>, <<"0", "r", "1">>}

ForestStep   == part = "forest" /\ Next /\ UNCHANGED <<part, streamVars, documentVars>>
StreamStep   == part = "stream" /\ StreamNext /\ UNCHANGED <<part, documentVars, vars>>
DocumentStep == part = "document" /\ DocumentNext /\ UNCHANGED <<part, streamVars, vars>>

LibraryInit == /\ part \in {"forest", "stream", "document"}
               /\ Init /\ StreamInit /\ DocumentInit
               /\ part = "forest" \/ size = 0
LibrarySpec == /\ LibraryInit
               /\ [][ForestStep \/ StreamStep \/ DocumentStep]_<<part, streamVars, documentVars, vars>>
               /\ WF_vars(Step) /\ WF_streamVars(Flush) /\ WF_streamVars(Read)
=============================================================================
