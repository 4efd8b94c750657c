-------------------------------- MODULE MCWsHub --------------------------------
(* WsHub with a few configurations. *)
EXTENDS WsHub

CONSTANT Refused   \* clients with another url

Configured(serverDir, serverCount, clientDir, clientCount, wrong) ==
  [server   |-> [dir |-> serverDir, count |-> serverCount],
   clients  |-> [dir |-> clientDir, count |-> clientCount],
   wrongUrl |-> wrong]

\* More messages than entries in both directions, and both ways to configure
\* different directions.
MCConfs ==
  {Configured("cts", 3, "cts", 2, Refused), Configured("cts", 3, "cts", 2, {}),
   Configured("stc", 3, "stc", 2, Refused), Configured("stc", 1, "stc", 2, {}),
   Configured("cts", 1, "stc", 1, {}), Configured("stc", 1, "cts", 1, Refused)}

================================================================================
