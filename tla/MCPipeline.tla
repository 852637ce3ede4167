----------------------------- MODULE MCPipeline -----------------------------
(* Instances of Pipeline for TLC: collections of two items. *)
EXTENDS Pipeline, TLC

CONSTANTS short, long

MCParts == {"MS", "1", "tei"}
MCStemOf == short :> <<"MS">> @@ long :> <<"MS", "1">>

Root == <<<<"tei">>>>

\* items/tei/MS/MS.xml and items/tei/MS-1/MS-1.xml.
MCDirOf == [z \in Items |-> Append(Root, MCStemOf[z])]

\* items/tei/MS/MS.xml and items/tei/MS/MS-1.xml.
MCSharedDir == [z \in Items |-> Append(Root, MCStemOf[short])]

\* items/tei/MS.xml and items/tei/MS-1/MS-1.xml.
MCNoDir == short :> Root @@ long :> Append(Root, MCStemOf[long])

MCPages == {<<"1">>}
MCPagesOf == [v \in Versions |-> MCPages]

Symmetry == Permutations(Workers) \cup Permutations(Records)
=============================================================================
