--------------------------- MODULE MCMultitasking ---------------------------
(***************************************************************************)
(* The instance of the scheduler TLC checks: three boot processes, two     *)
(* launched ones, and a clock that does not wrap within the horizon.       *)
(***************************************************************************)
EXTENDS MultitaskingRefine
=============================================================================
