---------------------------------- MODULE WsHub ----------------------------------
(*******************************************************************************)
(* The websocket benchmark in C++: ws_trans_server and some processes          *)
(* ws_trans_client, each around a WsHandle.  In direction "cts" the clients    *)
(* send and the server reports, in direction "stc" the server sends and the    *)
(* clients report.                                                             *)
(*                                                                             *)
(* uWS is a library and modelled as the programs use it.  A hub has one        *)
(* thread: it runs one handler after the other, each to its end, so a handler  *)
(* that sends all messages is one step.  A connection delivers in order what   *)
(* was sent on it, and then its end.  After close() a socket sends and         *)
(* receives no message more, and onDisconnection runs when the other end has   *)
(* closed too; a process that exits, and a connection that breaks, lose any    *)
(* part of what is still on its way.  The hub of a client returns when it has  *)
(* no connection left.                                                         *)
(*******************************************************************************)
EXTENDS Websockets, FiniteSets

VARIABLES
  entries,   \* elapsed_array_[0 .. cnt_ - 1] of the server: client and number
  got,       \* elapsed_array_[0 .. cnt_ - 1] of each client
  leaver,    \* history: the clients whose disconnection ended the server
  broken     \* history: the clients whose connection broke

hubVars == <<conf, server, link, up, down, entries, cpc, got, leaver, broken>>

Numbers(count) == [k \in 1 .. count |-> k - 1]

Prefixes(s) == {SubSeq(s, 1, len) : len \in 0 .. Len(s)}

HubType ==
  /\ conf \in Confs
  /\ server \in {"up", "exited", "undefined"}
  /\ link \in [Clients -> {"none", "open", "clientClosed", "serverClosed", "bothClosed", "gone"}]
  /\ up \in [Clients -> Seq(Nat)]
  /\ down \in [Clients -> Seq(Nat)]
  /\ entries \in Seq(Clients \X (0 .. ClientCount - 1))
  /\ Len(entries) <= ServerCount
  /\ cpc \in [Clients -> {"dial", "run", "exited", "undefined"}]
  /\ got \in [Clients -> Seq(Nat)]
  /\ leaver \subseteq Clients
  /\ broken \subseteq Clients

HubInit ==
  /\ conf \in Confs
  /\ server = "up"
  /\ link = [c \in Clients |-> "none"]
  /\ up = [c \in Clients |-> <<>>]
  /\ down = [c \in Clients |-> <<>>]
  /\ entries = <<>>
  /\ cpc = [c \in Clients |-> "dial"]
  /\ got = [c \in Clients |-> <<>>]
  /\ leaver = {}
  /\ broken = {}

--------------------------------------------------------------------------------
(* The hub of the server.                                                      *)

\* WsHandle::onConnection closes a connection to another url; the handler of the
\* server goes on all the same, but the closed socket sends nothing.
OnConnection(c) ==
  /\ server = "up"
  /\ cpc[c] = "dial"
  /\ link[c] = "none"
  /\ IF c \notin WrongUrl /\ ServerDir = "stc"
     THEN down' = [down EXCEPT ![c] = Numbers(ServerCount)]
     ELSE UNCHANGED down
  /\ link' = [link EXCEPT ![c] = IF c \in WrongUrl \/ ServerDir = "stc"
                                 THEN "serverClosed" ELSE "open"]
  /\ UNCHANGED <<server, up, entries, cpc, got, leaver, broken>>

\* Fault: the room left in the array is checked one entry too late.
ArrayFullOneLate(cnt, max) == cnt > max

ArrayFull(cnt, max) == cnt > max - 1

\* Fault: the newest entry is overwritten when there is one.
OnMessageOverwrites(c) ==
  /\ server = "up"
  /\ link[c] \in {"open", "clientClosed"}
  /\ up[c] # <<>>
  /\ up' = [up EXCEPT ![c] = Tail(@)]
  /\ entries' = IF entries = <<>> THEN <<<<c, Head(up[c])>>>>
                ELSE [entries EXCEPT ![Len(entries)] = <<c, Head(up[c])>>]
  /\ UNCHANGED <<server, link, down, cpc, got, leaver, broken>>

OnMessage(c) ==
  /\ server = "up"
  /\ link[c] \in {"open", "clientClosed"}
  /\ up[c] # <<>>
  /\ up' = [up EXCEPT ![c] = Tail(@)]
  /\ entries' = IF ArrayFull(Len(entries), ServerCount) THEN entries
                ELSE Append(entries, <<c, Head(up[c])>>)
  /\ UNCHANGED <<server, link, down, cpc, got, leaver, broken>>

\* GenWsReport reads entry cnt_ - 1.
NothingToReport == ServerDir = "cts" /\ entries = <<>>

\* Fault: the end of a connection overtakes its messages.
DisconnectedEarly(c) == link[c] \in {"clientClosed", "bothClosed"}

Disconnected(c) ==
  \/ link[c] = "clientClosed" /\ up[c] = <<>>
  \/ link[c] = "bothClosed"
  \/ link[c] = "gone" /\ c \in broken

\* The first disconnection of any client ends the process.
OnDisconnection(c) ==
  /\ server = "up"
  /\ Disconnected(c)
  /\ server' = IF NothingToReport THEN "undefined" ELSE "exited"
  /\ leaver' = {c}
  /\ link' = [d \in Clients |-> IF link[d] = "none" THEN "none" ELSE "gone"]
  /\ up' = [d \in Clients |-> <<>>]
  /\ down' \in {f \in [Clients -> UNION {Prefixes(down[d]) : d \in Clients}] :
                  \A d \in Clients : f[d] \in Prefixes(down[d])}
  /\ UNCHANGED <<entries, cpc, got, broken>>

--------------------------------------------------------------------------------
(* The hub of client c.                                                        *)

\* In direction cts the handler of the client sends all and closes.
OnConnected(c) ==
  /\ cpc[c] = "dial"
  /\ link[c] # "none"
  /\ cpc' = [cpc EXCEPT ![c] = "run"]
  /\ IF ClientDir = "cts" /\ link[c] = "open"
     THEN /\ up' = [up EXCEPT ![c] = Numbers(ClientCount)]
          /\ link' = [link EXCEPT ![c] = "clientClosed"]
     ELSE UNCHANGED <<up, link>>
  /\ UNCHANGED <<server, down, entries, got, leaver, broken>>

\* Nobody listens, or the connection is lost before it is established.
ConnectFails(c) ==
  /\ cpc[c] = "dial"
  /\ IF link[c] = "none" THEN server # "up" ELSE link[c] = "gone"
  /\ cpc' = [cpc EXCEPT ![c] = "exited"]
  /\ UNCHANGED <<server, link, up, down, entries, got, leaver, broken>>

\* A client of direction cts has no handler for messages.
OnClientMessage(c) ==
  /\ cpc[c] = "run"
  /\ down[c] # <<>>
  /\ down' = [down EXCEPT ![c] = Tail(@)]
  /\ got' = IF ClientDir = "cts" \/ ArrayFull(Len(got[c]), ClientCount) THEN got
            ELSE [got EXCEPT ![c] = Append(@, Head(down[c]))]
  /\ UNCHANGED <<server, link, up, entries, cpc, leaver, broken>>

\* Fault: the client waits for an end of the server's that does not come.
OnClientDisconnectionLate(c) ==
  /\ cpc[c] = "run"
  /\ down[c] = <<>>
  /\ link[c] = "gone"
  /\ cpc' = [cpc EXCEPT ![c] = "exited"]
  /\ UNCHANGED <<server, link, up, down, entries, got, leaver, broken>>

\* In direction stc the client reports; GenWsReport reads entry cnt_ - 1.
OnClientDisconnection(c) ==
  /\ cpc[c] = "run"
  /\ down[c] = <<>>
  /\ link[c] \in {"serverClosed", "gone"}
  /\ cpc' = [cpc EXCEPT ![c] = IF ClientDir = "stc" /\ got[c] = <<>> THEN "undefined" ELSE "exited"]
  /\ link' = [link EXCEPT ![c] = IF @ = "serverClosed" THEN "bothClosed" ELSE @]
  /\ UNCHANGED <<server, up, down, entries, got, leaver, broken>>

--------------------------------------------------------------------------------

HubBreak(c) ==
  /\ link[c] \in {"open", "clientClosed", "serverClosed"}
  /\ link' = [link EXCEPT ![c] = "gone"]
  /\ broken' = broken \cup {c}
  /\ up' = [up EXCEPT ![c] = <<>>]
  /\ down' \in {[down EXCEPT ![c] = s] : s \in Prefixes(down[c])}
  /\ UNCHANGED <<server, entries, cpc, got, leaver>>

HubServer ==
  /\ \E c \in Clients : OnConnection(c) \/ OnMessage(c) \/ OnDisconnection(c)
  /\ UNCHANGED conf

HubClient(c) ==
  /\ OnConnected(c) \/ ConnectFails(c) \/ OnClientMessage(c) \/ OnClientDisconnection(c)
  /\ UNCHANGED conf

HubEnded == AllEnded /\ UNCHANGED hubVars

\* Both sides wait for the other's messages.
HubHangs ==
  /\ BothReceive
  /\ \A c \in Clients : cpc[c] = "run" /\ link[c] = "open"
  /\ UNCHANGED hubVars

HubNext ==
  \/ HubServer
  \/ \E c \in Clients : HubClient(c)
  \/ \E c \in Clients : HubBreak(c) /\ UNCHANGED conf
  \/ HubEnded
  \/ HubHangs

HubSpec == HubInit /\ [][HubNext]_hubVars

\* Each hub runs the handlers of what has arrived.  No connection has to break.
HubFairSpec == HubSpec /\ WF_hubVars(HubServer) /\ \A c \in Clients : WF_hubVars(HubClient(c))

--------------------------------------------------------------------------------
(* Properties.                                                                 *)

\* The entries with messages of client c, and how many stand before entry e.
EntriesOf(c) == {e \in 1 .. Len(entries) : entries[e][1] = c}
Earlier(e)   == {d \in EntriesOf(entries[e][1]) : d < e}

IsStart(s) == s \in Prefixes(Numbers(Len(s)))

\* However the messages of the clients mix, the server's array holds the first
\* messages of each client, in order and once: the hub never runs two handlers at
\* once, where the server in Go does.
EntriesInOrder ==
  \A e \in 1 .. Len(entries) : entries[e][2] = Cardinality(Earlier(e))

\* A client whose disconnection ends the server has been reported in full, as far
\* as the array has room, unless its connection broke or was refused.
LeaverReported ==
  \A c \in leaver :
    DirIs("cts") /\ c \notin WrongUrl \cup broken
      => Cardinality(EntriesOf(c)) = ClientCount \/ Len(entries) = ServerCount

\* The server reads outside its array only when it was configured for no
\* messages, or ended by a client whose connection broke or was refused.
UndefinedOnlyWhenRefused ==
  server = "undefined" => leaver \cap (WrongUrl \cup broken) # {} \/ ServerCount * ClientCount = 0

\* The array of the server.
HubInv ==
  /\ HubType
  /\ EntriesInOrder
  /\ UndefinedOnlyWhenRefused

\* A client that ends the server by its answer to the server's close has received
\* everything; every other one has received a first part of it.
LeaverGotAll ==
  DirIs("stc") =>
    \A c \in Clients :
      /\ IsStart(got[c])
      /\ c \in leaver \ (WrongUrl \cup broken)
           => Len(got[c]) = Least(ServerCount, ClientCount)

--------------------------------------------------------------------------------
(* What the inductive invariant adds.                                          *)

\* What the two ends of a connection have done.
HubLinkInv ==
  \A c \in Clients :
    /\ cpc[c] = "dial" => got[c] = <<>>
    /\ link[c] = "none" => got[c] = <<>> /\ down[c] = <<>> /\ cpc[c] \in {"dial", "exited"}
    /\ link[c] = "open" => ServerDir = "cts" /\ c \notin WrongUrl
    /\ link[c] = "clientClosed" => DirIs("cts") /\ c \notin WrongUrl /\ cpc[c] = "run"
    /\ link[c] \in {"serverClosed", "bothClosed"} => ServerDir = "stc" \/ c \in WrongUrl
    /\ link[c] = "bothClosed" => ClientEnded(c)
    /\ link[c] = "gone" => server # "up" \/ c \in broken
    /\ c \in broken => link[c] = "gone"

\* The array has room for all messages of a client, or it is full.
HubUpInv ==
  /\ EntriesInOrder
  /\ \A c \in Clients :
       /\ up[c] # <<>> => link[c] = "clientClosed"
       /\ Len(up[c]) <= ClientCount
       /\ \A j \in 1 .. Len(up[c]) : up[c][j] = ClientCount - Len(up[c]) + j - 1
       /\ link[c] \in {"none", "open"} => EntriesOf(c) = {}
       /\ link[c] = "clientClosed" =>
            Cardinality(EntriesOf(c)) + Len(up[c]) = ClientCount \/ Len(entries) = ServerCount

\* The messages of the server stand behind what the client has of them.
HubDownInv ==
  DirIs("stc") =>
    \A c \in Clients :
      /\ \A j \in 1 .. Len(got[c]) : got[c][j] = j - 1
      /\ Len(got[c]) <= Least(ServerCount, ClientCount)
      /\ Len(got[c]) < ClientCount =>
           /\ \A j \in 1 .. Len(down[c]) : down[c][j] = Len(got[c]) + j - 1
           /\ Len(got[c]) + Len(down[c]) <= ServerCount
           /\ link[c] = "serverClosed" /\ c \notin WrongUrl
                => Len(got[c]) + Len(down[c]) = ServerCount
      /\ link[c] = "bothClosed" /\ c \notin WrongUrl => Len(got[c]) = Least(ServerCount, ClientCount)

\* A server that has ended was ended by one client, which has nothing left to do.
LeaverInv ==
  /\ server = "up" <=> leaver = {}
  /\ server # "up" => \A c \in Clients : link[c] \in {"none", "gone"}
  /\ DirIs("stc") => \A c \in leaver \ (WrongUrl \cup broken) : ClientEnded(c)

HubInd ==
  /\ HubInv /\ LeaverReported /\ LeaverGotAll
  /\ HubLinkInv /\ HubUpInv /\ HubDownInv /\ LeaverInv

--------------------------------------------------------------------------------

\* All programs end, unless each side is configured to receive.
HubAllEnd == ~BothReceive /\ Clients # {} => <>AllEnded

================================================================================
