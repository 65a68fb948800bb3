----------------------------- MODULE MCGnssOdcpi -----------------------------
(* Small instances of GnssOdcpi.                                           *)
EXTENDS GnssOdcpi
=============================================================================
