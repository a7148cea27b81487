--------------------------- MODULE MCEventWindow ---------------------------
(* A model of EventWindow.                                                  *)
EXTENDS EventWindow, TLC
=============================================================================
