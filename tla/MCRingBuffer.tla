---------------------------- MODULE MCRingBuffer ----------------------------
(* RingBuffer with its memory orders, on four cells: chunks of one and two   *)
(* samples, reads of one to three, capacities below, at and above the cells, *)
(* two turns of the ring.                                                    *)
EXTENDS RingBufferOrder

MCSamples == {0, 1}
MCChunks == {<<1>>, <<0, 1>>}
MCCounts == {1, 3}
MCCapacities == {2, 3, 5}
=============================================================================
