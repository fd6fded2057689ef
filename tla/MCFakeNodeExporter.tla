------------------------ MODULE MCFakeNodeExporter ------------------------
(* Instances of FakeNodeExporter for TLC.                                   *)
EXTENDS FakeNodeExporter

Config == INSTANCE NodeNames

Numbers(lo, hi, width) == [lo |-> lo, hi |-> hi, width |-> width]

\* gpu-[09..10] and gpu-[9..10], which share one name; two ranges in one
\* pattern; and the default range, shortened from 1200 nodes.
Overlap  == <<<<Numbers(9, 10, 2)>>, <<Numbers(9, 10, 1)>>>>
TwoRacks == <<<<Numbers(1, 1, 1), Numbers(1, 2, 2)>>>>
Default  == Numbers(1, 2, 4)

MCNodeLists == {Config!GenerateNodes(c, Default) : c \in {Overlap, TwoRacks, <<>>}}
=============================================================================
