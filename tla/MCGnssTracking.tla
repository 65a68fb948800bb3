--------------------------- MODULE MCGnssTracking ---------------------------
(* Small instances of GnssTracking.                                        *)
EXTENDS GnssTracking
=============================================================================
