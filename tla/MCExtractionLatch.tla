------------------------- MODULE MCExtractionLatch -------------------------
(* Model-checking instance of ExtractionLatch.                             *)
EXTENDS ExtractionLatch, TLC

\* Types and tasks are interchangeable; sound for the safety runs only.
Symmetry == Permutations(DATA_TYPES) \cup Permutations(Tasks)
=============================================================================
