--------------------------- MODULE MCBatchResults ---------------------------
(***************************************************************************)
(* Model values for BatchResults.                                          *)
(***************************************************************************)
EXTENDS BatchResults

CONSTANTS i1, i2, i3

ThreeInstances == {i1, i2, i3}
=============================================================================
