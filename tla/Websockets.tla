------------------------------- MODULE Websockets -------------------------------
(*******************************************************************************)
(* What the websocket benchmarks in Go and in C++ have in common: a server     *)
(* process, client processes, and a connection for each client.  WsTrans and   *)
(* WsHub EXTEND this module.  The server and the clients load a configuration  *)
(* each: conf is any pair of them.                                             *)
(*******************************************************************************)
EXTENDS Integers, Sequences

CONSTANTS
  Clients,
  Confs   \* what the configurations of the server and of the clients can be

\* The direction, and the number of messages of all loops.
Conf == [dir : {"cts", "stc"}, count : Nat]

\* Some clients may be configured with another url than the server.
ASSUME WsAssumption ==
  Confs \subseteq [server : Conf, clients : Conf, wrongUrl : SUBSET Clients]

VARIABLES
  conf,      \* the configuration of the server and that of the clients
  server,    \* what the server process does, or how it ended
  link,      \* the connection of each client
  up, down,  \* messages on their way to the server, and to the client
  cpc        \* what each client process does, or how it ended

WrongUrl    == conf.wrongUrl
ServerDir   == conf.server.dir
ClientDir   == conf.clients.dir
ServerCount == conf.server.count
ClientCount == conf.clients.count

\* Both sides are configured for the same direction.
DirIs(dir) == ServerDir = dir /\ ClientDir = dir

\* Both sides wait for the other's messages.
BothReceive == ServerDir = "cts" /\ ClientDir = "stc"

ClientEnded(c) == cpc[c] \in {"exited", "panicked", "undefined"}

AllEnded == server # "up" /\ \A c \in Clients : ClientEnded(c)

\* What an array with room for so many entries holds of so many messages.
Least(count, room) == IF count < room THEN count ELSE room

=================================================================================
