----------------------------- MODULE BufferLoan -----------------------------
(***************************************************************************)
(* What the camera stack promises about the buffers of a stream: a buffer  *)
(* is with the driver, or on loan to some of its users, never both; users  *)
(* pass it on to each other; and when the last of them has given it back   *)
(* it goes to the driver again, as long as the stream is on.  MmStream     *)
(* implements this with reference counts.                                  *)
(***************************************************************************)
EXTENDS Integers

CONSTANTS
  Buffers,
  Users     \* who a buffer can be on loan to

VARIABLES
  on,       \* is the stream on?
  driver,   \* the buffers that are with the driver
  users,    \* the users that have each buffer
  lost      \* buffers that were refused or could not be used

vars == <<on, driver, users, lost>>

NoUsers == [b \in Buffers |-> {}]

\* Nobody has the buffer
Idle(b) == b \notin driver /\ users[b] = {}

Init == on = FALSE /\ driver = {} /\ users = NoUsers /\ lost = {}

\* Buffers are registered: some go to the driver, others stay with their owner
Register(D, kept) ==
  /\ ~on /\ driver = {} /\ users = NoUsers
  /\ D \cap kept = {}
  /\ driver' = D
  /\ users' = [b \in Buffers |-> IF b \in kept THEN {"client"} ELSE {}]
  /\ lost' = Buffers \ (D \cup kept)
  /\ UNCHANGED on

SwitchOn == ~on /\ on' = TRUE /\ UNCHANGED <<driver, users, lost>>

\* The driver gives up all its buffers
SwitchOff == on' = FALSE /\ driver' = {} /\ UNCHANGED <<users, lost>>

\* All loans end, but for the thread that polls, which may be in the middle
Reset ==
  /\ ~on /\ driver' = {}
  /\ users' = [b \in Buffers |-> users[b] \cap {"poll"}]
  /\ lost' \in {lost, {}}
  /\ UNCHANGED on

\* A filled buffer goes to the thread that polls
Lend(b) ==
  /\ on /\ b \in driver
  /\ driver' = driver \ {b}
  /\ users' = [users EXCEPT ![b] = {"poll"}]
  /\ UNCHANGED <<on, lost>>

\* A user passes the buffer on to another one, and keeps it or not
Pass(b, from, to) ==
  /\ from \in users[b] /\ from # to
  /\ \E us \in {users[b] \cup {to}, (users[b] \ {from}) \cup {to}} : users' = [users EXCEPT ![b] = us]
  /\ UNCHANGED <<on, driver, lost>>

GiveBack(b, from) ==
  /\ from \in users[b]
  /\ users' = [users EXCEPT ![b] = @ \ {from}]
  /\ UNCHANGED <<on, driver, lost>>

Requeue(b) ==
  /\ Idle(b) /\ b \notin lost
  /\ driver' = driver \cup {b}
  /\ UNCHANGED <<on, users, lost>>

\* The driver refuses a buffer, or one it has filled cannot be used
Lose(b) ==
  /\ users[b] = {} /\ b \notin lost
  /\ driver' = driver \ {b} /\ lost' = lost \cup {b}
  /\ UNCHANGED <<on, users>>

Next ==
  \/ \E D, kept \in SUBSET Buffers : Register(D, kept)
  \/ SwitchOn \/ SwitchOff \/ Reset
  \/ \E b \in Buffers :
       \/ Lend(b) \/ Requeue(b) \/ Lose(b)
       \/ \E from \in Users : GiveBack(b, from) \/ \E to \in Users : Pass(b, from, to)

\* A buffer nobody has does not stay away from a stream that is on
Spec == Init /\ [][Next]_vars /\ \A b \in Buffers : WF_vars(on /\ Idle(b) /\ (Requeue(b) \/ Lose(b)))
=============================================================================
