------------------------- MODULE MCWatermarkPaging -------------------------
(* The table of the runs of WatermarkPaging.                               *)
EXTENDS WatermarkPaging

ThreeRows == 1 .. 3
=============================================================================
