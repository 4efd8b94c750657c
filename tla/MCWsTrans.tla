------------------------------- MODULE MCWsTrans -------------------------------
(* WsTrans with a few pairs of configurations. *)
EXTENDS WsTrans

CONSTANT Refused   \* clients with another url

Pair(serverDir, serverCount, clientDir, clientCount, wrong) ==
  [server   |-> [dir |-> serverDir, count |-> serverCount],
   clients  |-> [dir |-> clientDir, count |-> clientCount],
   wrongUrl |-> wrong]

\* More and fewer messages than entries in both directions, both ways to
\* configure different directions, and a client that does not reach the server.
MCConfs ==
  {Pair("cts", 2, "cts", 3, {}), Pair("cts", 2, "cts", 1, {}),
   Pair("stc", 3, "stc", 1, {}), Pair("stc", 2, "stc", 3, {}),
   Pair("cts", 1, "stc", 1, {}), Pair("stc", 1, "cts", 1, {}),
   Pair("cts", 1, "cts", 1, Refused), Pair("stc", 1, "stc", 1, Refused),
   Pair("cts", 1, "cts", 1, Clients)}

================================================================================
