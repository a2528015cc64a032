-------------------------- MODULE MCSegmentSizing --------------------------
(* TLC instances of SegmentSizing, with sizes scaled down. *)
EXTENDS SegmentSizing

Segments == 7 .. 18
Sizes == 1 .. 4
Counts == {0, 1, 2, 5, 9}
=============================================================================
