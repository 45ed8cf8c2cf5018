------------------------------ MODULE MC_Header ------------------------------
(* The model-checked instance of the header generator: MaxRuns = 3 lets a  *)
(* killed run be followed by another killed run and a complete one.        *)
EXTENDS Header
=============================================================================
