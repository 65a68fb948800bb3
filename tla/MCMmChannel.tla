---------------------------- MODULE MCMmChannel ----------------------------
(* Small instances of MmChannel.                                           *)
EXTENDS MmChannel

\* A burst with a retroactive frame, a cancel, a flush, the start of
\* an exposure bracketing, a manual start and the switch to continuous delivery
MCCommands ==
  {[type |-> "request", num |-> n[1], retro |-> n[2]] : n \in {<<0, 0>>, <<2, 1>>}}
  \cup {[type |-> "flush", frame |-> 2], [type |-> "notify", mode |-> "continuous"]}
  \cup {[type |-> t, start |-> TRUE] : t \in {"zsl", "bracket"}}
=============================================================================
