-------------------------------- MODULE Transfer --------------------------------
(*******************************************************************************)
(* What every thread-transfer benchmark of the repository promises, whatever   *)
(* carries its messages: each message is sent once, each message that was sent *)
(* is read once, and the reports are generated only when all have been read.   *)
(* The modules of the transports implement this specification.                 *)
(*******************************************************************************)

CONSTANT Msgs   \* the messages of one benchmark

VARIABLES
  status,       \* how far each message has got
  closed        \* the benchmark is over: its reports may be generated

vars == <<status, closed>>

TypeOK ==
  /\ status \in [Msgs -> {"unsent", "inflight", "read"}]
  /\ closed \in BOOLEAN

Init ==
  /\ status = [m \in Msgs |-> "unsent"]
  /\ closed = FALSE

Move(m, from, to) ==
  /\ ~closed
  /\ status[m] = from
  /\ status' = [status EXCEPT ![m] = to]
  /\ UNCHANGED closed

Send(m) == Move(m, "unsent", "inflight")

Read(m) == Move(m, "inflight", "read")

Close ==
  /\ ~closed
  /\ \A m \in Msgs : status[m] = "read"
  /\ closed' = TRUE
  /\ UNCHANGED status

Next == (\E m \in Msgs : Send(m) \/ Read(m)) \/ Close

Spec == Init /\ [][Next]_vars

=================================================================================
