------------------------------ MODULE MCGnssNi ------------------------------
(* Small instances of GnssNi.                                              *)
EXTENDS GnssNi
=============================================================================
