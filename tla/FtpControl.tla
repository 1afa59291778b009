----------------------------- MODULE FtpControl -----------------------------
(***************************************************************************)
(* A session of the native FTP proxy (g3proxy/src/serve/ftp_proxy/task.rs):*)
(* the client, the control channel relay with the passive data channel it  *)
(* sets up for each transfer, and the FTP server.                          *)
(*                                                                         *)
(* The client sends one command at a time and waits for the reply that     *)
(* ends it. A read from the server gives as many replies as have arrived.  *)
(* What an upload passes on to the FTP and ICAP servers is FtpUpload; here *)
(* it moves chunks, stops short where the fallback does, and may be held   *)
(* by the ICAP server.                                                     *)
(***************************************************************************)
EXTENDS Integers, Sequences

CONSTANTS
    MaxCommands,   \* commands the client sends
    FileSize,      \* chunks of a transferred file
    Kinds          \* commands it uses: "noop", "pasv", "epsv", "stor", "retr"

ASSUME FtpControlAssumption ==
    /\ MaxCommands \in Nat /\ FileSize \in Nat \ {0}
    /\ Kinds \subseteq {"noop", "pasv", "epsv", "stor", "retr"}

VARIABLES
    clt,   \* the client: [n: commands sent, cmd: the one it awaits the reply of,
           \*   addr: of the next data channel, conn: its data connection, go: the
           \*   transfer was announced, left: chunks to send, got: chunks received,
           \*   fetched: chunks of the last download, awaits: it sends a file only
           \*   once the transfer was announced, near: 127.0.0.1 is the proxy to it,
           \*   since it runs on the proxy's host or keeps to the address of its control
           \*   connection, again: it has asked for a data channel before it used the
           \*   last, gone: it has left]
    px,    \* the relay: [pc, cmd, data: upstream_data_addr of pending_data,
           \*   nolst: a listener could not be opened, cut: an upload was stopped at an
           \*   idle tick of the fallback]
    lst,   \* the local listener: "none", "open", "queued" (the client connected)
    srv,   \* the server: [up, st, lis, conn, left, got, stored: of the last upload,
           \*   refused: it has refused a download]
    c2p, p2s, s2p,  \* commands and replies on their way
    cd,    \* client to proxy data connection: [n: chunks, eof]
    sd,    \* data connection of the server: [n: chunks, eof]
    sent, heard     \* replies the server sent and the client received

vars == <<clt, px, lst, srv, c2p, p2s, s2p, cd, sd, sent, heard>>

Transfers == {"stor", "retr"}
Finals == {"220", "200", "227", "226", "425", "550"}
NoData == [n |-> 0, eof |-> FALSE]

\* The session has neither asked for a data channel twice, nor had a download refused,
\* nor failed to open a listener; a session of the model has one of these at most.
Usual == ~clt.again /\ ~srv.refused /\ ~px.nolst

-----------------------------------------------------------------------------
(* The client.                                                             *)

ClientSends(k) ==
    /\ clt.cmd = "none" /\ ~clt.gone /\ px.pc # "end" /\ clt.n < MaxCommands
    /\ k \in Transfers => clt.addr # "none"
    /\ LET again == k \in {"pasv", "epsv"} /\ clt.addr # "none" IN
       /\ again => Usual
       /\ clt' = [clt EXCEPT !.again = @ \/ again, !.n = @ + 1, !.cmd = k, !.go = FALSE,
                             !.got = 0, !.left = IF k = "stor" THEN FileSize ELSE 0]
    /\ c2p' = Append(c2p, k)
    /\ cd' = IF k \in Transfers THEN NoData ELSE cd
    /\ UNCHANGED <<px, lst, srv, p2s, s2p, sd, sent, heard>>

\* It connects to the data channel it was told of, before or after its command. Nobody
\* listens for it at an address of its own host.
ClientConnects ==
    /\ clt.conn = "no" /\ clt.addr \notin {"none", "self"} /\ ~clt.gone
    /\ clt' = [clt EXCEPT !.conn = clt.addr]
    /\ IF clt.addr = "proxy"
         THEN lst' = "queued" /\ UNCHANGED <<srv, sd>>
         ELSE srv' = [srv EXCEPT !.conn = srv.lis] /\ sd' = NoData /\ UNCHANGED lst
    /\ UNCHANGED <<px, c2p, p2s, s2p, cd, sent, heard>>

MaySend == clt.cmd = "stor" /\ clt.conn # "no" /\ (clt.awaits => clt.go) /\ ~clt.gone

\* It sends a chunk or the end of the file, to the proxy or straight to the server;
\* a file it fetches straight from the server it reads.
ClientData ==
    /\ IF clt.cmd = "retr"
         THEN /\ clt.conn = "direct" /\ sd.n > 0 /\ ~clt.gone
              /\ sd' = [sd EXCEPT !.n = @ - 1] /\ UNCHANGED cd
              /\ clt' = [clt EXCEPT !.got = @ + 1]
         ELSE /\ MaySend /\ ~cd.eof
              /\ clt' = [clt EXCEPT !.left = IF @ = 0 THEN 0 ELSE @ - 1]
              /\ LET end == clt.left = 0
                     d(x) == [n |-> IF end THEN x.n ELSE x.n + 1, eof |-> end] IN
                   IF clt.conn = "proxy"
                     THEN cd' = d(cd) /\ UNCHANGED sd
                     ELSE srv.conn /\ sd' = d(sd) /\ cd' = [cd EXCEPT !.eof = end]
    /\ UNCHANGED <<px, lst, srv, c2p, p2s, s2p, sent, heard>>

\* The client goes away, with its control and its data connection.
ClientLeaves ==
    /\ ~clt.gone /\ px.pc # "end"
    /\ clt' = [clt EXCEPT !.gone = TRUE]
    /\ cd' = [cd EXCEPT !.eof = @ \/ clt.conn = "proxy"]
    /\ sd' = [sd EXCEPT !.eof = @ \/ (clt.conn = "direct" /\ clt.cmd # "retr")]
    /\ UNCHANGED <<px, lst, srv, c2p, p2s, s2p, sent, heard>>

\* What the client makes of replies: one that ends its command, and where a 227
\* tells it to connect to.
Hear(rs, addr) ==
    LET r == {rs[i] : i \in DOMAIN rs}
        ends == r \cap Finals # {} IN
      /\ heard' = heard \o rs
      /\ clt' = [clt EXCEPT
           !.go = @ \/ "150" \in r,
           !.cmd = IF ends THEN "none" ELSE @,
           !.addr = IF "227" \in r THEN addr ELSE IF ends /\ clt.cmd \in Transfers THEN "none" ELSE @,
           !.conn = IF ends /\ clt.cmd # "noop" THEN "no" ELSE @,
           !.fetched = IF "226" \in r /\ clt.cmd = "retr" /\ clt.conn = "proxy" /\ ~clt.gone
                         THEN clt.got ELSE @]

-----------------------------------------------------------------------------
(* The relay.                                                              *)

PxTo(pc) == px' = [px EXCEPT !.pc = pc]

\* A command line is read and passed on; the server may be gone.
TakeLine ==
    /\ px.pc = "loop" /\ c2p # <<>>
    /\ c2p' = Tail(c2p)
    /\ LET k == Head(c2p) IN
         /\ p2s' = IF srv.up THEN Append(p2s, k) ELSE p2s
         /\ px' = [px EXCEPT !.cmd = k, !.pc =
                     IF ~srv.up THEN "end"
                     ELSE IF k = "stor" /\ px.data # "none" THEN "accept"
                     ELSE IF k = "retr" THEN "go"
                     ELSE IF k \in {"pasv", "epsv"} /\ px.data = "none" THEN "pasv" ELSE "loop"]
    /\ UNCHANGED <<clt, lst, srv, s2p, cd, sd, sent, heard>>

\* ups_r.read: one read gives a number of the replies that have arrived
Reads == {SubSeq(s2p, 1, k) : k \in 1..Len(s2p)}
ReadReplies(rs) == s2p' = SubSeq(s2p, Len(rs) + 1, Len(s2p))

ServerGone == s2p = <<>> /\ ~srv.up

\* the select's other branch
RelayReplies ==
    /\ px.pc = "loop" /\ c2p = <<>>
    /\ \/ \E rs \in Reads : ReadReplies(rs) /\ Hear(rs, "direct") /\ UNCHANGED px
       \/ ServerGone /\ PxTo("end") /\ UNCHANGED <<clt, s2p, heard>>
    /\ UNCHANGED <<lst, srv, c2p, p2s, cd, sd, sent>>

\* After the reply to a LIST, NLST or RETR the pending data channel is taken, whatever
\* the reply says.
AfterReply ==
    IF px.pc # "go" THEN "loop" ELSE IF px.data # "none" THEN "accept" ELSE "final"

\* (wrong) the reply after the data channel is not passed on
ReplyDropped ==
    /\ px.pc \in {"greet", "go", "final"}
    /\ \/ \E rs \in Reads : /\ ReadReplies(rs)
                            /\ IF px.pc = "final" THEN UNCHANGED <<clt, heard>>
                                                  ELSE Hear(rs, "direct")
       \/ ServerGone /\ UNCHANGED <<clt, s2p, heard>>
    /\ PxTo(AfterReply)
    /\ UNCHANGED <<lst, srv, c2p, p2s, cd, sd, sent>>

\* (wrong) the end of the server's stream is not seen
ReplyAwaited ==
    /\ px.pc \in {"greet", "go", "final"}
    /\ \E rs \in Reads : ReadReplies(rs) /\ Hear(rs, "direct")
    /\ PxTo(AfterReply)
    /\ UNCHANGED <<lst, srv, c2p, p2s, cd, sd, sent>>

\* read_ftp_response, and what it gives is written to the client: the greeting, the
\* announcement of a download, the reply after a data channel. Nothing else is
\* polled meanwhile, the idle timer included.
Reply ==
    /\ px.pc \in {"greet", "go", "final"}
    /\ \/ \E rs \in Reads : ReadReplies(rs) /\ Hear(rs, "direct")
       \/ ServerGone /\ UNCHANGED <<clt, s2p, heard>>
    /\ PxTo(AfterReply)
    /\ UNCHANGED <<lst, srv, c2p, p2s, cd, sd, sent>>

\* into_running takes upstream_ip from the connection notes before it connects:
\* an EPSV reply names a port at no address
UpstreamAddr == IF px.cmd = "epsv" THEN "nowhere" ELSE "server"

\* where the rewritten reply sends the client: a PASV reply to the port of the listener
\* at Ipv4Addr::LOCALHOST, an EPSV reply to that port at the host it is connected to
ProxyAddr == IF px.cmd = "pasv" /\ ~clt.near THEN "self" ELSE "proxy"

\* the reply to PASV or EPSV: a listener is opened and the reply names it; if that
\* fails the reply is passed on as it came
PasvReply ==
    /\ px.pc = "pasv"
    /\ \/ \E rs \in Reads, open \in BOOLEAN :
            /\ ReadReplies(rs)
            /\ ~open => Usual
            /\ px' = [px EXCEPT !.pc = "loop", !.nolst = @ \/ ~open, !.data = IF open THEN UpstreamAddr ELSE "none"]
            /\ lst' = IF open THEN "open" ELSE lst
            /\ Hear(rs, IF open THEN ProxyAddr ELSE "direct")
       \/ ServerGone /\ PxTo("loop") /\ UNCHANGED <<clt, s2p, heard, lst>>
    /\ UNCHANGED <<srv, c2p, p2s, cd, sd, sent>>

\* listener.accept, with no limit of time; then the connection to the server, which
\* an upload gives up without reading the server's reply
AcceptConnect ==
    /\ px.pc = "accept" /\ lst = "queued"
    /\ lst' = "none"
    /\ LET ok == px.data = "server" /\ srv.up /\ srv.lis IN
         /\ srv' = [srv EXCEPT !.conn = ok]
         /\ sd' = NoData
         /\ px' = [px EXCEPT !.data = "none",
                     !.pc = IF ok THEN "data" ELSE IF px.cmd = "stor" THEN "loop" ELSE "final"]
    /\ UNCHANGED <<clt, c2p, p2s, s2p, cd, sent, heard>>

\* (wrong) the data connection is shut down while chunks are on their way
UploadDataEarly ==
    /\ px.pc = "data" /\ px.cmd = "stor"
    /\ \/ /\ cd.n > 0 /\ srv.conn
          /\ cd' = [cd EXCEPT !.n = @ - 1] /\ sd' = [sd EXCEPT !.n = @ + 1] /\ UNCHANGED px
       \/ /\ cd.eof \/ ~srv.conn
          /\ sd' = [sd EXCEPT !.eof = TRUE] /\ PxTo("final") /\ UNCHANGED cd
    /\ UNCHANGED <<clt, lst, srv, c2p, p2s, s2p, sent, heard>>

\* run_ftp_upload_audit_or_relay, then the shutdown of the data connection
UploadData ==
    /\ px.pc = "data" /\ px.cmd = "stor"
    /\ \/ /\ cd.n > 0 /\ srv.conn
          /\ cd' = [cd EXCEPT !.n = @ - 1] /\ sd' = [sd EXCEPT !.n = @ + 1] /\ UNCHANGED px
       \/ /\ (cd.n = 0 /\ cd.eof) \/ ~srv.conn
          /\ sd' = [sd EXCEPT !.eof = TRUE] /\ PxTo("final") /\ UNCHANGED cd
    /\ UNCHANGED <<clt, lst, srv, c2p, p2s, s2p, sent, heard>>

\* fallback_forward_only, which runs when the ICAP request could not be sent, breaks at
\* the first idle tick that finds nothing to read; the data connection is then shut
\* down as after a whole file
FallbackStops ==
    /\ px.pc = "data" /\ px.cmd = "stor" /\ cd = NoData /\ srv.conn
    /\ sd' = [sd EXCEPT !.eof = TRUE]
    /\ px' = [px EXCEPT !.pc = "final", !.cut = TRUE]
    /\ UNCHANGED <<clt, lst, srv, c2p, p2s, s2p, cd, sent, heard>>

\* the ICAP server neither reads on nor answers, and the relay waits for it in
\* send_async or for its OPTIONS, without a timer; one that goes on again is only slow
IcapHolds ==
    /\ px.pc = "data" /\ px.cmd = "stor"
    /\ PxTo("held")
    /\ UNCHANGED <<clt, lst, srv, c2p, p2s, s2p, cd, sd, sent, heard>>

\* handle_download_data_channel
DownloadData ==
    /\ px.pc = "data" /\ px.cmd = "retr"
    /\ \/ /\ sd.n > 0 /\ sd' = [sd EXCEPT !.n = @ - 1] /\ clt' = [clt EXCEPT !.got = @ + 1]
          /\ UNCHANGED <<px, srv>>
       \/ sd.n = 0 /\ (sd.eof \/ ~srv.conn) /\ PxTo("final") /\ UNCHANGED <<sd, clt, srv>>
       \/ /\ sd.n > 0 /\ clt.gone  \* the write fails, both connections are dropped
          /\ sd' = NoData /\ srv' = [srv EXCEPT !.conn = FALSE] /\ PxTo("final") /\ UNCHANGED clt
    /\ UNCHANGED <<lst, c2p, p2s, s2p, cd, sent, heard>>

\* idle_interval.tick, max_idle_count times, while nobody has anything to send: the
\* session ends, or the data channel. Peers that can send do so in time.
IdleQuit ==
    /\ \/ px.pc = "loop" /\ c2p = <<>> /\ s2p = <<>>
       \/ px.pc = "data" /\ px.cmd = "stor" /\ cd = NoData /\ ~MaySend
       \/ px.pc = "data" /\ px.cmd = "retr" /\ sd = NoData /\ srv.st # "retr" /\ p2s = <<>>
    /\ PxTo(IF px.pc = "loop" THEN "end" ELSE "final")
    /\ sd' = [sd EXCEPT !.eof = @ \/ px.pc = "data"]
    /\ UNCHANGED <<clt, lst, srv, c2p, p2s, s2p, cd, sent, heard>>

\* The client has closed the control connection, or an idle tick finds the server of
\* the proxy about to quit (force_quit).
SessionEnds ==
    /\ px.pc = "loop" /\ c2p = <<>>
    /\ PxTo("end")
    /\ UNCHANGED <<clt, lst, srv, c2p, p2s, s2p, cd, sd, sent, heard>>

-----------------------------------------------------------------------------
(* The server.                                                             *)

Say(r) == s2p' = Append(s2p, r) /\ sent' = Append(sent, r)

ServerTakes ==
    /\ srv.up /\ srv.st = "idle" /\ p2s # <<>>
    /\ p2s' = Tail(p2s)
    /\ LET k == Head(p2s) IN
         \/ k = "noop" /\ Say("200") /\ UNCHANGED srv
         \/ k \in {"pasv", "epsv"} /\ Say("227") /\ srv' = [srv EXCEPT !.lis = TRUE, !.conn = FALSE]
         \/ /\ k \in Transfers /\ srv.lis /\ Say("150")
            /\ srv' = [srv EXCEPT !.st = k, !.got = 0, !.left = FileSize]
         \/ /\ k \in Transfers /\ (k = "retr" => Usual) /\ Say("550")
            /\ srv' = [srv EXCEPT !.lis = FALSE, !.conn = FALSE, !.refused = @ \/ k = "retr"]
    /\ UNCHANGED <<clt, px, lst, c2p, cd, sd, heard>>

Idle(r) == srv' = [srv EXCEPT !.st = "idle", !.lis = FALSE, !.conn = FALSE,
                              !.stored = IF r = "226" /\ srv.st = "stor" THEN srv.got ELSE @]

ServerReads ==
    /\ srv.up /\ srv.st = "stor" /\ srv.conn
    /\ \/ /\ sd.n > 0 /\ sd' = [sd EXCEPT !.n = @ - 1]
          /\ srv' = [srv EXCEPT !.got = @ + 1] /\ UNCHANGED <<s2p, sent>>
       \/ sd.n = 0 /\ sd.eof /\ Idle("226") /\ Say("226") /\ UNCHANGED sd
    /\ UNCHANGED <<clt, px, lst, c2p, p2s, cd, heard>>

ServerSends ==
    /\ srv.up /\ srv.st = "retr" /\ srv.conn
    /\ \/ /\ srv.left > 0 /\ sd' = [sd EXCEPT !.n = @ + 1]
          /\ srv' = [srv EXCEPT !.left = @ - 1] /\ UNCHANGED <<s2p, sent>>
       \/ srv.left = 0 /\ sd' = [sd EXCEPT !.eof = TRUE] /\ Idle("226") /\ Say("226")
    /\ UNCHANGED <<clt, px, lst, c2p, p2s, cd, heard>>

\* No data connection comes: long after its last reply was read the server says so.
ServerGivesUp ==
    /\ srv.up /\ srv.st # "idle" /\ ~srv.conn /\ s2p = <<>>
    /\ Idle("425") /\ Say("425")
    /\ UNCHANGED <<clt, px, lst, c2p, p2s, cd, sd, heard>>

ServerDies ==
    /\ srv.up
    /\ srv' = [srv EXCEPT !.up = FALSE, !.conn = FALSE, !.lis = FALSE]
    /\ p2s' = <<>>
    /\ UNCHANGED <<clt, px, lst, c2p, s2p, cd, sd, sent, heard>>

-----------------------------------------------------------------------------
Init ==
    /\ clt \in [n: {0}, cmd: {"greeting"}, addr: {"none"}, conn: {"no"}, go: {FALSE}, left: {0},
                got: {0}, fetched: {FileSize}, awaits: BOOLEAN, near: BOOLEAN, again: {FALSE},
                gone: {FALSE}]
    /\ px = [pc |-> "greet", cmd |-> "noop", data |-> "none", nolst |-> FALSE, cut |-> FALSE]
    /\ lst = "none"
    /\ srv = [up |-> TRUE, st |-> "idle", lis |-> FALSE, conn |-> FALSE, left |-> 0,
              got |-> 0, stored |-> FileSize, refused |-> FALSE]
    /\ c2p = <<>> /\ p2s = <<>> /\ s2p = <<"220">>
    /\ cd = NoData /\ sd = NoData
    /\ sent = <<"220">> /\ heard = <<>>

Client == (\E k \in Kinds : ClientSends(k)) \/ ClientConnects \/ ClientData

Relay ==
    \/ TakeLine \/ RelayReplies \/ Reply \/ PasvReply
    \/ AcceptConnect \/ UploadData \/ FallbackStops \/ DownloadData \/ IdleQuit

Server == ServerTakes \/ ServerReads \/ ServerSends \/ ServerGivesUp

Next == Client \/ ClientLeaves \/ Relay \/ IcapHolds \/ Server \/ ServerDies \/ SessionEnds

Spec == Init /\ [][Next]_vars

\* The relay is run by the runtime, and sees the end of the client's stream; the client
\* goes where it is told to and the FTP server answers what it is sent, as long as they
\* live (a server that lives and is silent keeps a relay in read_ftp_response, which has
\* no timer). Nothing is assumed of the ICAP server.
FairSpec ==
    /\ Spec
    /\ WF_vars(Relay) /\ WF_vars(Server)
    /\ WF_vars(ClientConnects) /\ WF_vars(ClientData)
    /\ WF_vars(clt.gone /\ SessionEnds)

-----------------------------------------------------------------------------
\* The parties of the session hold values of their types; no more of a file is
\* moved than there is.
TypeOK ==
    /\ clt \in [n: 0..MaxCommands, cmd: Kinds \cup {"none", "greeting"},
                addr: {"none", "proxy", "direct", "self"}, conn: {"no", "proxy", "direct"},
                go: BOOLEAN, left: 0..FileSize, got: 0..FileSize, fetched: 0..FileSize,
                awaits: BOOLEAN, near: BOOLEAN, again: BOOLEAN, gone: BOOLEAN]
    /\ px \in [pc: {"greet", "loop", "pasv", "go", "accept", "data", "held", "final", "end"},
               cmd: Kinds \cup {"noop"}, data: {"none", "server", "nowhere"},
               nolst: BOOLEAN, cut: BOOLEAN]
    /\ lst \in {"none", "open", "queued"}
    /\ srv \in [up: BOOLEAN, st: {"idle", "stor", "retr"}, lis: BOOLEAN, conn: BOOLEAN,
                left: 0..FileSize, got: 0..FileSize, stored: 0..FileSize, refused: BOOLEAN]
    /\ {c2p, p2s} \subseteq Seq(Kinds) /\ {s2p, sent, heard} \subseteq Seq(Finals \cup {"150"})
    /\ {cd, sd} \subseteq [n: 0..FileSize, eof: BOOLEAN]

\* The control channel is relayed verbatim: the client has received the replies the
\* server sent, each once and in their order, up to those still to be read, across the
\* five places of relay_control that read from the server; and all values have their types.
RepliesKept == TypeOK /\ heard \o s2p = sent

\* A transfer that the server or the client takes to be complete is the whole file:
\* the upload the server answers 226 to, and the download the client hears 226 of
\* (handle_upload_data_channel, handle_download_data_channel). An upload fails this
\* when the fallback stops it at an idle tick, when its client waits for the
\* announcement, which the relay does not pass on before the data, or has asked for
\* another data channel, and is then ended by the idle limit, or when its client
\* leaves, and FTP ends a file so.
TransfersWhole ==
    /\ ~clt.awaits /\ ~clt.again /\ ~clt.gone /\ ~px.cut => srv.stored = FileSize
    /\ srv.up => clt.fetched = FileSize

\* The waits of a session that nothing ends, each with its cause: at accept for a client
\* that has left, was sent to its own host, was sent to the server by a second reply to
\* PASV, or was told that its download is refused; for a second reply to a download,
\* which is refused, or whose replies came in one read because the client, sent to the
\* server by a second PASV or for want of a listener, fetched the file from it; for the
\* ICAP server.
Waits ==
    \/ /\ px.pc = "accept" /\ lst = "open"
       /\ clt.gone \/ clt.addr = "self" \/ clt.again \/ srv.refused
    \/ /\ px.pc = "final" /\ s2p = <<>> /\ srv.up
       /\ px.cmd = "retr" /\ ~Usual
    \/ px.pc = "held"

\* Every command the client sends is answered, or the session ends, unless the relay is
\* in one of Waits for good (relay_control and the handlers of the data channels).
CommandAnswered == clt.cmd # "none" ~> (clt.cmd = "none" \/ px.pc = "end" \/ []Waits)

\* A client that leaves takes its session with it, whatever the relay is waiting for
\* then, a reply of the server, the data or the next command, unless that is one of
\* Waits, which do not look at the client (relay_control and the handlers of the data
\* channels).
LeaverLetGo == clt.gone ~> (px.pc = "end" \/ []Waits)
=============================================================================
