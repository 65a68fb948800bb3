---------------------------- MODULE MCMmStream ----------------------------
(* Small instances of MmStream.                                            *)
EXTENDS MmStream

\* A snapshot stream, a preview stream and a metadata stream linked to a
\* second channel
MCConfigs == {[bundled |-> TRUE, linked |-> FALSE, cb |-> FALSE],
              [bundled |-> TRUE, linked |-> FALSE, cb |-> TRUE],
              [bundled |-> FALSE, linked |-> TRUE, cb |-> TRUE]}
=============================================================================
