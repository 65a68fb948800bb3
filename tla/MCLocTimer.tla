------------------------------ MODULE MCLocTimer ------------------------------
(* Small instances of LocTimer.                                            *)
EXTENDS LocTimer
=============================================================================
