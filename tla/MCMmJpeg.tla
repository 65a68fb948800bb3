------------------------------ MODULE MCMmJpeg ------------------------------
(* A small instance of MmJpeg.                                             *)
EXTENDS MmJpeg
=============================================================================
