---------------------------- MODULE MCLC12STask ----------------------------
(***************************************************************************)
(* Instances of LC12STask for TLC.  The identifications are model values,  *)
(* the levels and bytes a few naturals with the code's order               *)
(* 0 < 0x10 < 0x17 < 255.                                                  *)
(***************************************************************************)
EXTENDS LC12STask

CONSTANTS a, b, c     \* identifications

=============================================================================
