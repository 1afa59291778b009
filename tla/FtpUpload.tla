----------------------------- MODULE FtpUpload -----------------------------
(***************************************************************************)
(* One upload over an FTP data channel that is forwarded to the FTP server *)
(* and copied to an ICAP server for audit (serve/ftp_proxy/audit_bridge.rs *)
(* and lib/g3-icap-client/src/reqmod/ftp): the relay that reads the client,*)
(* the ICAP task it spawns and feeds through a bounded channel, the two    *)
(* sockets to the ICAP server with what they can hold, the server, and the *)
(* background task that reads the verdict and saves the connection.        *)
(*                                                                         *)
(* A chunk is one read of the relay; chunks are counted, not named, since  *)
(* every queue between the client and the two servers is first in first    *)
(* out.                                                                    *)
(***************************************************************************)
EXTENDS Integers, Sequences

CONSTANTS
    FileSize,      \* chunks the client uploads
    ChannelSize,   \* CHANNEL_CAPACITY
    BatchSize,     \* chunks gathered in write_buf before it is written
    SocketSize,    \* what a socket to or from the ICAP server holds
    MaxIdleCount,  \* task_max_idle_count
    Servers        \* ways of the ICAP server with an upload: it "reads" all it is
                   \* sent and may answer at any time, "echoes" each chunk before
                   \* it reads on, or "hangs" and reads nothing

ASSUME FtpUploadAssumption ==
    /\ FileSize \in Nat /\ ChannelSize \in Nat \ {0} /\ BatchSize \in Nat \ {0}
    /\ SocketSize \in Nat \ {0} /\ MaxIdleCount \in Nat \ {0}
    /\ Servers \subseteq {"reads", "echoes", "hangs"}

VARIABLES
    clt,    \* the client: [left: chunks to send, err: it was cut off]
    relay,  \* the relay: [pc, mode, idle, ups: chunks written upstream, icap: icap_alive]
    chan,   \* the channel: [n: chunks in it, tx: the relay still holds the sender]
    task,   \* the ICAP task: [pc, buf: in write_buf, out: left to write,
            \*                 head: header captured, closed: reader_closed]
    toSrv,  \* sent to the ICAP server and not read by it: "chunk", "last"
    toUs,   \* sent by the ICAP server and not read: "head", "body"
    srv,    \* the ICAP server: [kind, up, got: chunks read, last: it read the last chunk,
            \*                   ans: its answer, owe: body parts still to send]
    back    \* the background task

vars == <<clt, relay, chan, task, toSrv, toUs, srv, back>>

-----------------------------------------------------------------------------
(* The relay.                                                              *)

RelayTo(r) == relay' = [relay EXCEPT !.pc = r]

\* ftp_upload_audit_adapter, fetch_connection: the pool has no connection, and the
\* server is asked for its options over a new one; nothing limits the wait
AskOptions ==
    /\ relay.pc = "start"
    /\ RelayTo("options")
    /\ UNCHANGED <<clt, chan, task, toSrv, toUs, srv, back>>

\* audit_and_forward of audit_bridge.rs, send_icap_header: without an adapter, or
\* when the header is not sent, the upload goes on without the audit
Start ==
    /\ relay.pc \in {"start", "options"}
    /\ \/ /\ relay' = [relay EXCEPT !.pc = "read", !.mode = "audit"]
          /\ task' = [task EXCEPT !.pc = "select"]
          /\ chan' = [chan EXCEPT !.tx = TRUE]
       \/ /\ \E m \in {"raw", "fallback"} :
               relay' = [relay EXCEPT !.pc = "read", !.mode = m, !.icap = FALSE]
          /\ UNCHANGED <<task, chan>>
    /\ UNCHANGED <<clt, toSrv, toUs, srv, back>>

\* clt_r.read gives a chunk
ReadChunk ==
    /\ relay.pc = "read" /\ clt.left > 0 /\ ~clt.err
    /\ clt' = [clt EXCEPT !.left = @ - 1]
    /\ relay' = [relay EXCEPT !.pc = "write", !.idle = 0]
    /\ UNCHANGED <<chan, task, toSrv, toUs, srv, back>>

\* ups_w.write_all, before the copy is queued for the ICAP server
WriteUpstream ==
    /\ relay.pc = "write"
    /\ relay' = [relay EXCEPT !.ups = @ + 1, !.pc = IF relay.icap THEN "send" ELSE "read"]
    /\ UNCHANGED <<clt, chan, task, toSrv, toUs, srv, back>>

\* the FTP server is gone: the channel is dropped and the relay returns
WriteUpstreamFails ==
    /\ relay.pc = "write"
    /\ relay' = [relay EXCEPT !.pc = "failed"]
    /\ chan' = [chan EXCEPT !.tx = FALSE]
    /\ UNCHANGED <<clt, task, toSrv, toUs, srv, back>>

\* The receiver is dropped with the ICAP task.
Receiver == task.pc \notin {"failed", "done"}

\* (wrong) a full channel drops the copy of the chunk
SendOrSkip ==
    /\ relay.pc = "send" /\ Receiver
    /\ chan' = [chan EXCEPT !.n = IF @ < ChannelSize THEN @ + 1 ELSE @]
    /\ RelayTo("read")
    /\ UNCHANGED <<clt, task, toSrv, toUs, srv, back>>

\* chunk_tx.send_async waits for a place in the channel
SendChunk ==
    /\ relay.pc = "send" /\ Receiver /\ chan.n < ChannelSize
    /\ chan' = [chan EXCEPT !.n = @ + 1]
    /\ RelayTo("read")
    /\ UNCHANGED <<clt, task, toSrv, toUs, srv, back>>

\* (wrong) the relay waits on a channel nobody reads
ChannelClosedUnseen ==
    /\ relay.pc = "send" /\ ~Receiver
    /\ UNCHANGED vars

\* (wrong) a lost ICAP task ends the upload
ChannelClosedBreaks ==
    /\ relay.pc = "send" /\ ~Receiver
    /\ relay' = [relay EXCEPT !.pc = "stop", !.icap = FALSE]
    /\ UNCHANGED <<clt, chan, task, toSrv, toUs, srv, back>>

\* the ICAP task is gone: the upload goes on without it
ChannelClosed ==
    /\ relay.pc = "send" /\ ~Receiver
    /\ relay' = [relay EXCEPT !.pc = "read", !.icap = FALSE]
    /\ UNCHANGED <<clt, chan, task, toSrv, toUs, srv, back>>

\* the client has sent the file or was cut off; all modes leave the loop
ReadEnds ==
    /\ relay.pc = "read" /\ (clt.left = 0 \/ clt.err)
    /\ RelayTo("stop")
    /\ UNCHANGED <<clt, chan, task, toSrv, toUs, srv, back>>

ClientCutOff ==
    /\ clt.left > 0 /\ ~clt.err
    /\ clt' = [clt EXCEPT !.err = TRUE]
    /\ UNCHANGED <<relay, chan, task, toSrv, toUs, srv, back>>

\* idle_interval.tick: check_quit counts the ticks, fallback_forward_only does not
IdleTick ==
    /\ relay.pc = "read" /\ clt.left > 0 /\ ~clt.err
    /\ LET n == relay.idle + 1 IN
         relay' = [relay EXCEPT !.idle = n, !.pc =
                     IF relay.mode = "fallback" \/ n >= MaxIdleCount THEN "stop" ELSE @]
    /\ UNCHANGED <<clt, chan, task, toSrv, toUs, srv, back>>

\* after the loop: the channel is dropped, the upstream flushed and shut down, and
\* the verdict left to the background unless the ICAP task is gone
Stop ==
    /\ relay.pc = "stop"
    /\ chan' = [chan EXCEPT !.tx = FALSE]
    /\ RelayTo("end")
    /\ back' = IF relay.icap THEN "join" ELSE back
    /\ UNCHANGED <<clt, task, toSrv, toUs, srv>>

-----------------------------------------------------------------------------
(* The ICAP task.                                                          *)

\* recv_async gives a chunk; a full batch is written before the next select
TakeChunk ==
    /\ task.pc = "select" /\ chan.n > 0
    /\ chan' = [chan EXCEPT !.n = @ - 1]
    /\ task' = IF task.buf + 1 >= BatchSize
                 THEN [task EXCEPT !.pc = "write", !.buf = 0, !.out = task.buf + 1]
                 ELSE [task EXCEPT !.buf = @ + 1]
    /\ UNCHANGED <<clt, relay, toSrv, toUs, srv, back>>

\* icap_reader.read, polled only when no chunk is ready: the header is kept and
\* what follows it thrown away
Drain ==
    /\ task.pc = "select" /\ chan.n = 0 /\ chan.tx /\ ~task.closed
    /\ \/ /\ toUs # <<>> /\ toUs' = Tail(toUs)
          /\ task' = [task EXCEPT !.head = @ \/ Head(toUs) = "head"]
       \/ /\ toUs = <<>> /\ ~srv.up
          /\ task' = [task EXCEPT !.closed = TRUE]
          /\ UNCHANGED toUs
    /\ UNCHANGED <<clt, relay, chan, toSrv, srv, back>>

\* the channel is empty and closed: the rest of write_buf and the last chunk
ChannelEnds ==
    /\ task.pc = "select" /\ chan.n = 0 /\ ~chan.tx
    /\ task' = [task EXCEPT !.pc = "tail", !.buf = 0, !.out = task.buf]
    /\ UNCHANGED <<clt, relay, chan, toSrv, toUs, srv, back>>

\* write_all moves on as the socket has room; the select is not polled meanwhile
WriteIcap ==
    /\ task.pc \in {"write", "tail"} /\ task.out > 0
    /\ srv.up /\ Len(toSrv) < SocketSize
    /\ toSrv' = Append(toSrv, "chunk")
    /\ task' = [task EXCEPT !.out = @ - 1]
    /\ UNCHANGED <<clt, relay, chan, toUs, srv, back>>

WriteIcapDone ==
    /\ task.pc = "write" /\ task.out = 0
    /\ task' = [task EXCEPT !.pc = "select"]
    /\ UNCHANGED <<clt, relay, chan, toSrv, toUs, srv, back>>

\* a batch is not written: the task returns its error; at the tail errors are
\* ignored
WriteIcapFails ==
    /\ ~srv.up /\ task.pc \in {"write", "tail"}
    /\ task' = [task EXCEPT !.pc = IF task.pc = "write" THEN "failed" ELSE "done", !.out = 0]
    /\ UNCHANGED <<clt, relay, chan, toSrv, toUs, srv, back>>

\* the empty chunk that ends the request
WriteLast ==
    /\ task.pc = "tail" /\ task.out = 0
    /\ srv.up /\ Len(toSrv) < SocketSize
    /\ toSrv' = Append(toSrv, "last")
    /\ task' = [task EXCEPT !.pc = "done"]
    /\ UNCHANGED <<clt, relay, chan, toUs, srv, back>>

-----------------------------------------------------------------------------
(* The ICAP server.                                                        *)

Answers == {"none", "empty", "body", "error"}

\* It answers 204 or an error without a body, or 200 with one, when it likes; one
\* that echoes has answered before it reads the first chunk.
ServerAnswers ==
    /\ srv.up /\ task.pc # "none" /\ srv.ans = "none" /\ Len(toUs) < SocketSize
    /\ toUs' = Append(toUs, "head")
    /\ \E a \in IF srv.kind = "echoes" THEN {"body"} ELSE Answers \ {"none"} :
         srv' = [srv EXCEPT !.ans = a, !.owe = IF a = "body" THEN 1 ELSE 0]
    /\ UNCHANGED <<clt, relay, chan, task, toSrv, back>>

ServerReads ==
    /\ srv.up /\ toSrv # <<>> /\ srv.kind # "hangs"
    /\ srv.kind = "echoes" => srv.ans # "none" /\ srv.owe = 0
    /\ toSrv' = Tail(toSrv)
    /\ srv' = IF Head(toSrv) = "last"
                 THEN [srv EXCEPT !.last = TRUE]
                 ELSE [srv EXCEPT !.got = @ + 1, !.owe = IF srv.kind = "echoes" THEN 1 ELSE @]
    /\ UNCHANGED <<clt, relay, chan, task, toUs, back>>

ServerSendsBody ==
    /\ srv.up /\ srv.owe > 0 /\ Len(toUs) < SocketSize
    /\ toUs' = Append(toUs, "body")
    /\ srv' = [srv EXCEPT !.owe = @ - 1]
    /\ UNCHANGED <<clt, relay, chan, task, toSrv, back>>

\* the connection is lost, with what was sent to the server and not read; a reset
\* also loses what the server had sent
ServerDies ==
    /\ srv.up /\ task.pc # "none"
    /\ srv' = [srv EXCEPT !.up = FALSE]
    /\ toSrv' = <<>> /\ toUs' \in {toUs, <<>>}
    /\ UNCHANGED <<clt, relay, chan, task, back>>

-----------------------------------------------------------------------------
(* The background task.                                                    *)

BackTo(b) == back' = b /\ UNCHANGED <<clt, relay, chan, task, toSrv, srv>>

\* icap_handle.await
Join ==
    /\ back = "join" /\ ~Receiver
    /\ BackTo(IF task.pc = "done" THEN "parse" ELSE "dropped")
    /\ UNCHANGED toUs

AfterHead == CASE srv.ans = "empty" -> {"saved", "dropped"}
               [] srv.ans = "body"  -> {"drain"}
               [] OTHER             -> {"dropped"}

\* ReqmodResponse::parse of the captured header, or of what is still to be read
Parse ==
    /\ back = "parse"
    /\ \/ /\ task.head \/ (toUs # <<>> /\ Head(toUs) = "head")
          /\ toUs' = IF task.head THEN toUs ELSE Tail(toUs)
          /\ \E b \in AfterHead : BackTo(b)
       \/ /\ ~task.head
          /\ IF toUs = <<>> THEN ~srv.up ELSE Head(toUs) # "head"
          /\ BackTo("dropped") /\ UNCHANGED toUs

\* (wrong) the body is taken to have been read once the reads time out
DrainRestTimeoutClean ==
    /\ back = "drain"
    /\ \/ /\ toUs # <<>> /\ toUs' = Tail(toUs) /\ BackTo("drain")
       \/ /\ toUs = <<>> /\ UNCHANGED toUs
          /\ \E b \in {"saved", "dropped"} : BackTo(b)

\* the body is read up to the end of the stream; a read that takes 5 s ends it
\* uncleanly, and the connection is dropped
DrainRest ==
    /\ back = "drain"
    /\ \/ /\ toUs # <<>> /\ toUs' = Tail(toUs) /\ BackTo("drain")
       \/ /\ toUs = <<>> /\ UNCHANGED toUs
          /\ \E b \in IF srv.up THEN {"dropped"} ELSE {"saved", "dropped"} : BackTo(b)

\* the 300 s of the whole
BackTimeout ==
    /\ back \in {"join", "parse", "drain"}
    /\ BackTo("dropped") /\ UNCHANGED toUs

-----------------------------------------------------------------------------
Init ==
    /\ clt = [left |-> FileSize, err |-> FALSE]
    /\ relay = [pc |-> "start", mode |-> "audit", idle |-> 0, ups |-> 0, icap |-> TRUE]
    /\ chan = [n |-> 0, tx |-> FALSE]
    /\ task = [pc |-> "none", buf |-> 0, out |-> 0, head |-> FALSE, closed |-> FALSE]
    /\ toSrv = <<>> /\ toUs = <<>>
    /\ srv \in [kind: Servers, up: {TRUE}, got: {0}, last: {FALSE}, ans: {"none"}, owe: {0}]
    /\ back = "none"

Relay ==
    \/ AskOptions \/ Start \/ ReadChunk \/ WriteUpstream \/ WriteUpstreamFails \/ SendChunk
    \/ ChannelClosed \/ ReadEnds \/ IdleTick \/ Stop

IcapTask ==
    \/ TakeChunk \/ Drain \/ ChannelEnds \/ WriteIcap \/ WriteIcapDone
    \/ WriteIcapFails \/ WriteLast

Background == Join \/ Parse \/ DrainRest \/ BackTimeout

Next ==
    \/ Relay \/ IcapTask \/ Background
    \/ ClientCutOff \/ ServerAnswers \/ ServerReads \/ ServerSendsBody \/ ServerDies

Spec == Init /\ [][Next]_vars

\* The tasks are run by the runtime and the FTP server goes on; the client and the
\* ICAP server need not stay, the server need not answer OPTIONS, and only one that
\* echoes has to answer the upload.
FairSpec ==
    /\ Spec
    /\ WF_vars(relay.pc # "options" /\ Relay) /\ WF_vars(IcapTask) /\ WF_vars(Background)
    /\ WF_vars(ServerReads) /\ WF_vars(ServerSendsBody)
    /\ WF_vars(srv.kind = "echoes" /\ ServerAnswers)

-----------------------------------------------------------------------------
\* The relay, the tasks and the buffers hold values of their types, and channel and
\* socket keep to their sizes.
TypeOK ==
    /\ clt \in [left: 0..FileSize, err: BOOLEAN]
    /\ relay \in [pc: {"start", "options", "read", "write", "send", "stop", "end", "failed"},
                  mode: {"audit", "raw", "fallback"}, idle: 0..MaxIdleCount,
                  ups: 0..FileSize, icap: BOOLEAN]
    /\ chan \in [n: 0..ChannelSize, tx: BOOLEAN]
    /\ task \in [pc: {"none", "select", "write", "tail", "failed", "done"},
                 buf: 0..(BatchSize - 1), out: 0..BatchSize, head: BOOLEAN, closed: BOOLEAN]
    /\ toSrv \in Seq({"chunk", "last"}) /\ Len(toSrv) <= SocketSize
    /\ toUs \in Seq({"head", "body"}) /\ Len(toUs) <= SocketSize
    /\ srv \in [kind: Servers, up: BOOLEAN, got: 0..FileSize, last: BOOLEAN, ans: Answers, owe: 0..1]
    /\ back \in {"none", "join", "parse", "drain", "saved", "dropped"}

\* The last chunk ends what the socket holds; the elements before it are chunks.
Closed(q) == q # <<>> /\ q[Len(q)] = "last"
ChunksIn(q) == IF Closed(q) THEN Len(q) - 1 ELSE Len(q)

\* No failure of the audit costs the upload a chunk: when the relay has ended, and
\* neither the client, the FTP server nor the idle limit cut it short, the FTP
\* server has the whole file, whatever became of the ICAP server (audit_and_forward).
\* The forward-only path of a failed header is left out: it ends at the first tick.
UploadWhole ==
    relay.pc = "end" /\ ~clt.err /\ relay.idle < MaxIdleCount /\ relay.mode # "fallback"
        => relay.ups = FileSize

\* Every chunk the FTP server was given is on its way to the ICAP server once, as
\* long as that server lives: read by it, in its socket, in the writer's batch, in
\* the channel or in the hand of the relay (run_relay_loop); none of these is overfull,
\* and nothing is sent behind the last chunk.
AuditConserved ==
    /\ TypeOK
    /\ \A i \in DOMAIN toSrv : toSrv[i] = "last" => i = Len(toSrv)
    /\ relay.mode = "audit" /\ srv.up =>
         relay.ups = srv.got + ChunksIn(toSrv) + task.out + task.buf + chan.n
                       + (IF relay.pc = "send" THEN 1 ELSE 0)

\* A connection that goes back to the pool while the server lives carries a whole
\* request and no part of an answer that the next request would read as its own
\* (the background task of audit_and_forward).
SavedClean ==
    back = "saved" /\ srv.up =>
        /\ toUs = <<>> /\ srv.ans # "none" /\ srv.owe = 0
        /\ srv.last \/ Closed(toSrv)

Ended == relay.pc \in {"end", "failed"}

\* An upload that has an adapter, or has to do without, ends, whatever happens to
\* the ICAP connection ("never block upload").
UploadEnds == relay.pc = "read" ~> Ended

\* The ICAP task waits in write_all for room in the socket, and polls nothing else.
WriterWaits == srv.up /\ task.pc \in {"write", "tail"} /\ Len(toSrv) = SocketSize

\* An upload ends unless one of two waits for the ICAP server never does: for the
\* answer to OPTIONS before the first chunk, or for room in the socket of a server
\* that hangs, or echoes and waits for the ICAP task to read. The death of the server,
\* at any time, does not keep it (fetch_connection; run_relay_loop: send_async,
\* reader_closed, icap_alive).
EndsUnlessIcapHolds ==
    \/ <>Ended
    \/ <>[](relay.pc = "options")
    \/ srv.kind # "reads" /\ <>[]WriterWaits
=============================================================================
