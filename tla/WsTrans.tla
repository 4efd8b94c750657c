-------------------------------- MODULE WsTrans --------------------------------
(*******************************************************************************)
(* The websocket benchmark in Go: ws_trans_server_golang and some processes    *)
(* ws_trans_client_golang.  In direction "cts" the clients send and the server *)
(* reports, in direction "stc" the server sends and the clients report.        *)
(*                                                                             *)
(* The websocket library and the cascade hub are modelled as the programs use  *)
(* them: a connection delivers what was written in order until an end closes   *)
(* it or it breaks; every peer has a goroutine of its own that calls OnRead    *)
(* for one message after the other, so OnRead runs concurrently for different  *)
(* peers; when a peer's connection ends the hub calls OnInactive.  A write to  *)
(* a closed connection fails, or its message is lost.                          *)
(*******************************************************************************)
EXTENDS Websockets

CONSTANT NoMsg   \* an entry of Elapsed that was never set

ASSUME NoMsgAssumption == NoMsg \notin Clients \X Nat

VARIABLES
  rpc,        \* where the reading goroutine of each peer is in OnRead
  msg,        \* the message it has got
  reg,        \* the Idx it has loaded for Idx++
  idx,        \* WsService.Idx
  elapsed,    \* WsService.Elapsed: the message each entry was computed from
  wpc,        \* the sending goroutine of each peer
  ssent,      \* messages it has sent
  csent,      \* messages each client has sent
  creport     \* elapsed_array of each client

serverVars == <<server, rpc, msg, reg, idx, elapsed, wpc, ssent>>
readVars   == <<msg, reg, idx, elapsed>>
clientVars == <<cpc, csent, creport>>
vars == <<conf, server, link, up, down, rpc, msg, reg, idx, elapsed, wpc, ssent,
          cpc, csent, creport>>

\* The k-th message that is sent on the connection of client c.
ServerMsgs == Clients \X (0 .. ClientCount - 1)
ClientMsgs == 0 .. ServerCount - 1

TypeOK ==
  /\ conf \in Confs
  /\ server \in {"up", "exited", "panicked"}
  /\ link \in [Clients -> {"none", "open", "clientClosed", "serverClosed", "broken"}]
  /\ up \in [Clients -> Seq(ServerMsgs)]
  /\ down \in [Clients -> Seq(ClientMsgs)]
  /\ rpc \in [Clients -> {"none", "read", "check", "store", "load", "inc", "ended", "inactive"}]
  /\ msg \in [Clients -> ServerMsgs \cup {NoMsg}]
  /\ reg \in [Clients -> Nat]
  /\ idx \in Nat
  /\ elapsed \in [0 .. ServerCount - 1 -> ServerMsgs \cup {NoMsg}]
  /\ wpc \in [Clients -> {"none", "send", "exit", "failed"}]
  /\ ssent \in [Clients -> 0 .. ServerCount]
  /\ cpc \in [Clients -> {"dial", "cts", "stc", "close", "report", "exited", "panicked"}]
  /\ csent \in [Clients -> 0 .. ClientCount]
  /\ creport \in [Clients -> Seq(ClientMsgs)]
  /\ \A c \in Clients : Len(creport[c]) <= ClientCount

Init ==
  /\ conf \in Confs
  /\ server = "up"
  /\ link = [c \in Clients |-> "none"]
  /\ up = [c \in Clients |-> <<>>]
  /\ down = [c \in Clients |-> <<>>]
  /\ rpc = [c \in Clients |-> "none"]
  /\ msg = [c \in Clients |-> NoMsg]
  /\ reg = [c \in Clients |-> 0]
  /\ idx = 0
  /\ elapsed = [e \in 0 .. ServerCount - 1 |-> NoMsg]
  /\ wpc = [c \in Clients |-> "none"]
  /\ ssent = [c \in Clients |-> 0]
  /\ cpc = [c \in Clients |-> "dial"]
  /\ csent = [c \in Clients |-> 0]
  /\ creport = [c \in Clients |-> <<>>]

--------------------------------------------------------------------------------
(* Connections.                                                                *)

\* The client has dialled: the hub calls OnActive, which starts to send.
Connect(c) ==
  /\ cpc[c] = "dial"
  /\ server = "up" /\ c \notin WrongUrl
  /\ link' = [link EXCEPT ![c] = "open"]
  /\ rpc' = [rpc EXCEPT ![c] = "read"]
  /\ wpc' = [wpc EXCEPT ![c] = IF ServerDir = "cts" THEN "none"
                               ELSE IF ServerCount > 0 THEN "send" ELSE "exit"]
  /\ cpc' = [cpc EXCEPT ![c] = IF ClientDir = "stc" THEN "stc"
                               ELSE IF ClientCount > 0 THEN "cts" ELSE "close"]
  /\ UNCHANGED <<server, up, down, readVars, ssent, csent, creport>>

\* Nobody listens, or nobody at this url: the client logs it and returns.
DialFails(c) ==
  /\ cpc[c] = "dial"
  /\ server # "up" \/ c \in WrongUrl
  /\ cpc' = [cpc EXCEPT ![c] = "exited"]
  /\ UNCHANGED <<serverVars, link, up, down, csent, creport>>

Break(c) ==
  /\ link[c] = "open"
  /\ link' = [link EXCEPT ![c] = "broken"]
  /\ up' = [up EXCEPT ![c] = <<>>]
  /\ down' = [down EXCEPT ![c] = <<>>]
  /\ UNCHANGED <<serverVars, clientVars>>

\* The end of a process closes what it holds open; what it had written is still
\* delivered.
ServerEnds(how) ==
  /\ server' = how
  /\ link' = [c \in Clients |-> IF link[c] = "open" THEN "serverClosed" ELSE link[c]]
  /\ UNCHANGED <<up, down>>

ClientCloses(c) ==
  IF link[c] = "open" THEN link' = [link EXCEPT ![c] = "clientClosed"] ELSE UNCHANGED link

--------------------------------------------------------------------------------
(* The server: OnRead of the peer of client c, one access to Idx at a time.    *)

\* Fault: the peers share one buffer.
ReceiveShared(c) ==
  /\ server = "up"
  /\ rpc[c] = "read"
  /\ up[c] # <<>>
  /\ msg' = [d \in Clients |-> Head(up[c])]
  /\ up' = [up EXCEPT ![c] = Tail(@)]
  /\ rpc' = [rpc EXCEPT ![c] = "check"]
  /\ UNCHANGED <<server, link, down, reg, idx, elapsed, wpc, ssent, clientVars>>

Receive(c) ==
  /\ server = "up"
  /\ rpc[c] = "read"
  /\ up[c] # <<>>
  /\ msg' = [msg EXCEPT ![c] = Head(up[c])]
  /\ up' = [up EXCEPT ![c] = Tail(@)]
  /\ rpc' = [rpc EXCEPT ![c] = "check"]
  /\ UNCHANGED <<server, link, down, reg, idx, elapsed, wpc, ssent, clientVars>>

\* Fault: one message more than Elapsed has entries.
FullOneLate == idx > ServerCount

Full == idx > ServerCount - 1

\* OnRead returns; its local variables are gone.
EndRead(c) ==
  /\ rpc' = [rpc EXCEPT ![c] = "read"]
  /\ msg' = [msg EXCEPT ![c] = NoMsg]
  /\ reg' = [reg EXCEPT ![c] = 0]

Check(c) ==
  /\ server = "up"
  /\ rpc[c] = "check"
  /\ IF Full
     THEN EndRead(c)
     ELSE rpc' = [rpc EXCEPT ![c] = "store"] /\ UNCHANGED <<msg, reg>>
  /\ UNCHANGED <<server, link, up, down, idx, elapsed, wpc, ssent, clientVars>>

\* Another peer may have moved Idx behind the last entry since the check.
Store(c) ==
  /\ server = "up"
  /\ rpc[c] = "store"
  /\ IF idx < ServerCount
     THEN /\ elapsed' = [elapsed EXCEPT ![idx] = msg[c]]
          /\ rpc' = [rpc EXCEPT ![c] = "load"]
          /\ UNCHANGED <<server, link, up, down>>
     ELSE /\ ServerEnds("panicked")
          /\ UNCHANGED <<elapsed, rpc>>
  /\ UNCHANGED <<msg, reg, idx, wpc, ssent, clientVars>>

LoadIdx(c) ==
  /\ server = "up"
  /\ rpc[c] = "load"
  /\ reg' = [reg EXCEPT ![c] = idx]
  /\ rpc' = [rpc EXCEPT ![c] = "inc"]
  /\ UNCHANGED <<server, link, up, down, msg, idx, elapsed, wpc, ssent, clientVars>>

IncIdx(c) ==
  /\ server = "up"
  /\ rpc[c] = "inc"
  /\ idx' = reg[c] + 1
  /\ EndRead(c)
  /\ UNCHANGED <<server, link, up, down, elapsed, wpc, ssent, clientVars>>

\* Fault: an end of the connection is noticed before its messages are read.
ReadEndsEarly(c) ==
  /\ server = "up"
  /\ rpc[c] = "read"
  /\ link[c] \in {"clientClosed", "broken"}
  /\ rpc' = [rpc EXCEPT ![c] = "ended"]
  /\ UNCHANGED <<server, link, up, down, readVars, wpc, ssent, clientVars>>

\* The connection has ended and all it delivered was read.
ReadEnds(c) ==
  /\ server = "up"
  /\ rpc[c] = "read"
  /\ up[c] = <<>>
  /\ link[c] \in {"clientClosed", "broken"}
  /\ rpc' = [rpc EXCEPT ![c] = "ended"]
  /\ UNCHANGED <<server, link, up, down, readVars, wpc, ssent, clientVars>>

\* GenWsReport reads entry Idx - 1 of the slice Elapsed[:Idx].
ReportPanics == idx = 0 \/ idx > ServerCount

\* Fault: the server goes on after the report.
OnInactiveStays(c) ==
  /\ server = "up"
  /\ rpc[c] = "ended"
  /\ rpc' = [rpc EXCEPT ![c] = "inactive"]
  /\ UNCHANGED <<server, link, up, down, readVars, wpc, ssent, clientVars>>

OnInactive(c) ==
  /\ server = "up"
  /\ rpc[c] = "ended"
  /\ rpc' = [rpc EXCEPT ![c] = "inactive"]
  /\ ServerEnds(IF ServerDir = "cts" /\ ReportPanics THEN "panicked" ELSE "exited")
  /\ UNCHANGED <<readVars, wpc, ssent, clientVars>>

--------------------------------------------------------------------------------
(* The server: the sending goroutine of the peer of client c.                  *)

ServerSend(c) ==
  /\ server = "up"
  /\ wpc[c] = "send"
  /\ down' = IF link[c] = "open" THEN [down EXCEPT ![c] = Append(@, ssent[c])] ELSE down
  /\ ssent' = [ssent EXCEPT ![c] = @ + 1]
  /\ wpc' = [wpc EXCEPT ![c] = IF ssent[c] + 1 < ServerCount THEN "send" ELSE "exit"]
  /\ UNCHANGED <<server, link, up, rpc, readVars, clientVars>>

ServerSendFails(c) ==
  /\ server = "up"
  /\ wpc[c] = "send"
  /\ link[c] # "open"
  /\ wpc' = [wpc EXCEPT ![c] = "failed"]
  /\ UNCHANGED <<server, link, up, down, rpc, readVars, ssent, clientVars>>

\* All is sent: os.Exit, whatever the other peers have got.
SentAll(c) ==
  /\ server = "up"
  /\ wpc[c] = "exit"
  /\ ServerEnds("exited")
  /\ UNCHANGED <<rpc, readVars, wpc, ssent, clientVars>>

--------------------------------------------------------------------------------
(* Client c.                                                                   *)

ClientSend(c) ==
  /\ cpc[c] = "cts"
  /\ up' = IF link[c] = "open" THEN [up EXCEPT ![c] = Append(@, <<c, csent[c]>>)] ELSE up
  /\ csent' = [csent EXCEPT ![c] = @ + 1]
  /\ cpc' = [cpc EXCEPT ![c] = IF csent[c] + 1 < ClientCount THEN "cts" ELSE "close"]
  /\ UNCHANGED <<serverVars, link, down, creport>>

ClientSendFails(c) ==
  /\ cpc[c] = "cts"
  /\ link[c] # "open"
  /\ cpc' = [cpc EXCEPT ![c] = "close"]
  /\ UNCHANGED <<serverVars, link, up, down, csent, creport>>

ClientClose(c) ==
  /\ cpc[c] = "close"
  /\ ClientCloses(c)
  /\ cpc' = [cpc EXCEPT ![c] = "exited"]
  /\ UNCHANGED <<serverVars, up, down, csent, creport>>

\* A message that finds elapsed_array full ends the loop.
ClientReceive(c) ==
  /\ cpc[c] = "stc"
  /\ down[c] # <<>>
  /\ down' = [down EXCEPT ![c] = Tail(@)]
  /\ IF Len(creport[c]) > ClientCount - 1
     THEN cpc' = [cpc EXCEPT ![c] = "report"] /\ UNCHANGED creport
     ELSE creport' = [creport EXCEPT ![c] = Append(@, Head(down[c]))] /\ UNCHANGED cpc
  /\ UNCHANGED <<serverVars, link, up, csent>>

\* Fault: an end of the connection is noticed before its messages are read.
ClientReadFailsEarly(c) ==
  /\ cpc[c] = "stc"
  /\ link[c] # "open"
  /\ cpc' = [cpc EXCEPT ![c] = "report"]
  /\ UNCHANGED <<serverVars, link, up, down, csent, creport>>

ClientReadFails(c) ==
  /\ cpc[c] = "stc"
  /\ down[c] = <<>>
  /\ link[c] # "open"
  /\ cpc' = [cpc EXCEPT ![c] = "report"]
  /\ UNCHANGED <<serverVars, link, up, down, csent, creport>>

\* GenWsReport reads entry idx - 1 of the slice elapsed_array[:idx].
ClientReport(c) ==
  /\ cpc[c] = "report"
  /\ cpc' = [cpc EXCEPT ![c] = IF creport[c] = <<>> THEN "panicked" ELSE "exited"]
  /\ ClientCloses(c)
  /\ UNCHANGED <<serverVars, up, down, csent, creport>>

--------------------------------------------------------------------------------

Reader(c) ==
  /\ \/ Receive(c) \/ Check(c) \/ Store(c) \/ LoadIdx(c) \/ IncIdx(c)
     \/ ReadEnds(c) \/ OnInactive(c)
  /\ UNCHANGED conf

Sender(c) ==
  /\ ServerSend(c) \/ ServerSendFails(c) \/ SentAll(c)
  /\ UNCHANGED conf

Client(c) ==
  /\ \/ Connect(c) \/ DialFails(c)
     \/ ClientSend(c) \/ ClientSendFails(c) \/ ClientClose(c)
     \/ ClientReceive(c) \/ ClientReadFails(c) \/ ClientReport(c)
  /\ UNCHANGED conf

Ended == AllEnded /\ UNCHANGED vars

\* No client reaches the server, or both sides wait for the other's messages.
Hangs ==
  /\ server = "up"
  /\ \A c \in Clients :
       IF c \in WrongUrl THEN cpc[c] = "exited"
       ELSE BothReceive /\ cpc[c] = "stc" /\ rpc[c] = "read" /\ link[c] = "open"
  /\ UNCHANGED vars

Next ==
  \/ \E c \in Clients : Reader(c) \/ Sender(c) \/ Client(c)
  \/ \E c \in Clients : Break(c) /\ UNCHANGED conf
  \/ Ended
  \/ Hangs

Spec == Init /\ [][Next]_vars

\* Every goroutine and every process goes on while it can.  No connection has to
\* break.
FairSpec ==
  /\ Spec
  /\ \A c \in Clients : WF_vars(Reader(c)) /\ WF_vars(Sender(c)) /\ WF_vars(Client(c))

--------------------------------------------------------------------------------
(* Properties.                                                                 *)

\* The server has had no other client.
Alone(c) == \A d \in Clients \ {c} : link[d] = "none"

\* Of a single client, entry e of Elapsed is the e-th message, no entry is left
\* out, and messages beyond the last entry are dropped.  A client that has sent
\* enough on a connection that did not break is reported in full, and the server
\* panics only when it has nothing to report.
LoneReportExact ==
  \A c \in Clients : Alone(c) =>
    /\ \A e \in 0 .. ServerCount - 1 :
         elapsed[e] = IF e < idx \/ (e = idx /\ rpc[c] \in {"load", "inc"}) THEN <<c, e>> ELSE NoMsg
    /\ rpc[c] = "inactive" /\ link[c] # "broken" /\ csent[c] >= ServerCount => idx = ServerCount
    /\ server = "panicked" => idx = 0

\* However the peers' calls of OnRead interleave, no message is counted twice in
\* the server's report.  (With several peers Idx may lose an increment, leave an
\* entry out, or pass the end of Elapsed.)
EntryOnce ==
  \A e, f \in 0 .. ServerCount - 1 : elapsed[e] = elapsed[f] /\ elapsed[e] # NoMsg => e = f

\* The array that the calls of OnRead share.
ElapsedInv == TypeOK /\ EntryOnce

\* What a client reports is the beginning of what the server sent it.  Unless its
\* connection broke that is all the server had written to it when the server
\* stopped, even when another client stopped it; and all there was to send when
\* there was no other client.
ClientReportExact ==
  \A c \in Clients :
    /\ \A e \in 1 .. Len(creport[c]) : creport[c][e] = e - 1
    /\ /\ DirIs("stc")
       /\ ClientEnded(c) /\ link[c] \notin {"none", "broken"}
       => /\ Len(creport[c]) = Least(ssent[c], ClientCount)
          /\ Alone(c) => Len(creport[c]) = Least(ServerCount, ClientCount)

--------------------------------------------------------------------------------
(* What the inductive invariant adds.                                          *)

InHand(c) == rpc[c] \in {"check", "store", "load", "inc"}

\* The connection loses nothing that the server may still read.
Live(c) == link[c] \in {"none", "open", "clientClosed"}

\* How many messages of client c its peer has got, if it loses none.
Received(c) == csent[c] - Len(up[c])

\* What the ends of a connection know of each other.
LinkInv ==
  \A c \in Clients :
    /\ link[c] = "none" <=> rpc[c] = "none"
    /\ link[c] = "none" => /\ wpc[c] = "none" /\ ssent[c] = 0 /\ csent[c] = 0
                           /\ up[c] = <<>> /\ down[c] = <<>> /\ creport[c] = <<>>
                           /\ cpc[c] \in {"dial", "exited"}
    /\ link[c] = "clientClosed" => ClientEnded(c)
    /\ link[c] = "serverClosed" => server # "up"
    /\ link[c] = "broken" => up[c] = <<>> /\ down[c] = <<>>
    /\ rpc[c] \in {"ended", "inactive"} => link[c] \in {"clientClosed", "broken"} /\ up[c] = <<>>
    /\ cpc[c] = "dial" => link[c] = "none"

\* What a client or a sending goroutine has sent, by what it does next.
SendInv ==
  \A c \in Clients :
    /\ wpc[c] = "send" => ssent[c] < ServerCount
    /\ wpc[c] = "exit" => ssent[c] = ServerCount
    /\ cpc[c] = "cts" => csent[c] < ClientCount
    /\ cpc[c] \in {"cts", "close"} => ClientDir = "cts"

\* The messages of a client stand in its connection in their order, those that
\* its peer has got are before them, and the one in hand is not yet stored.
UpInv ==
  \A c \in Clients :
    /\ Len(up[c]) <= csent[c]
    /\ Live(c) => \A j \in 1 .. Len(up[c]) : up[c][j] = <<c, Received(c) + j - 1>>
    /\ InHand(c) => /\ msg[c] \in ServerMsgs /\ msg[c][1] = c
                    /\ Live(c) => msg[c][2] < Received(c)
    /\ rpc[c] \in {"check", "store"} => \A e \in 0 .. ServerCount - 1 : elapsed[e] # msg[c]

StoredInv ==
  \A e \in 0 .. ServerCount - 1 :
    elapsed[e] # NoMsg /\ Live(elapsed[e][1]) => elapsed[e][2] < Received(elapsed[e][1])

\* The peer of a single client counts what it has got.
LoneOf(c) ==
  /\ idx <= ServerCount
  /\ \A e \in 0 .. ServerCount - 1 :
       elapsed[e] = IF e < idx \/ (e = idx /\ rpc[c] \in {"load", "inc"}) THEN <<c, e>> ELSE NoMsg
  /\ rpc[c] = "inc" => reg[c] = idx
  /\ rpc[c] \in {"store", "load", "inc"} => idx < ServerCount
  /\ InHand(c) /\ idx < ServerCount => msg[c] = <<c, idx>>
  /\ Live(c) => idx = Least(IF InHand(c) THEN Received(c) - 1 ELSE Received(c), ServerCount)
  /\ server = "panicked" => idx = 0

LoneInv == \A c \in Clients : Alone(c) => LoneOf(c)

\* The messages of the server stand behind what the client has of them.
DownOf(c) ==
  /\ \A e \in 1 .. Len(creport[c]) : creport[c][e] = e - 1
  /\ cpc[c] = "stc" =>
       /\ ClientDir = "stc" /\ link[c] \in {"open", "serverClosed", "broken"}
       /\ \A j \in 1 .. Len(down[c]) : down[c][j] = Len(creport[c]) + j - 1
       /\ link[c] # "broken" => ssent[c] = Len(creport[c]) + Len(down[c])

DownInv == \A c \in Clients : DownOf(c)

\* A client that has stopped to read was full, or the server had ended.
ReportOf(c) ==
  /\ ClientDir = "stc" /\ (cpc[c] = "report" \/ ClientEnded(c)) /\ link[c] \notin {"none", "broken"}
     => /\ Len(creport[c]) = Least(ssent[c], ClientCount)
        /\ link[c] # "serverClosed" => ssent[c] > ClientCount
  /\ ServerDir = "stc" /\ link[c] = "serverClosed" /\ Alone(c) => ssent[c] = ServerCount

ReportInv == \A c \in Clients : ReportOf(c)

WsInd ==
  /\ TypeOK /\ LinkInv /\ SendInv /\ UpInv /\ StoredInv /\ EntryOnce
  /\ LoneInv /\ DownInv /\ ReportInv

--------------------------------------------------------------------------------

\* All programs end when some client reaches the server, unless each side is
\* configured to receive.
AllEnd == ~BothReceive /\ Clients \ WrongUrl # {} => <>AllEnded

================================================================================
