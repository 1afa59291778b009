--------------------------- MODULE FtpAuditProofs ---------------------------
(***************************************************************************)
(* Safety of an audited upload, for every file, every size of the channel, *)
(* the batch and the sockets, and every idle limit; then, which uploads    *)
(* through CONNECT tunnels are audited at all, for any number of sessions, *)
(* names and transfers, any limit and lifetime of the marks.               *)
(***************************************************************************)
EXTENDS FtpUpload, FtpTunnel, WellFoundedInduction, TLAPS

-----------------------------------------------------------------------------
(* The inductive invariant.                                                *)

Hand(at) == IF relay.pc = at THEN 1 ELSE 0

(* The chunks of the file: with the client, with the FTP server or in the  *)
(* hand of the relay; one whose write fails is lost with the upload.       *)
FileOK ==
  /\ relay.pc # "failed" => clt.left + relay.ups + Hand("write") = FileSize
  /\ clt.left + relay.ups <= FileSize

(* The relay leaves its loop only at the end of the file, when the client  *)
(* is cut off, or at the idle limit.                                       *)
StopOK ==
  /\ relay.pc \in {"start", "options", "read", "write", "send"} => relay.idle < MaxIdleCount
  /\ relay.pc \in {"stop", "end"} =>
       \/ clt.left = 0 \/ clt.err
       \/ relay.idle >= MaxIdleCount \/ relay.mode = "fallback"

(* The ICAP task and its two sides: there is one only in audit mode, and   *)
(* it ends with the relay's sender or with the ICAP server.                *)
NotBegun == relay.pc \in {"start", "options"}
TaskOK ==
  /\ task.pc = "none" <=> NotBegun \/ relay.mode # "audit"
  /\ task.pc = "none" =>
       /\ chan.n = 0 /\ task.buf = 0 /\ task.out = 0 /\ srv.got = 0
       /\ toSrv = <<>> /\ relay.pc # "send"
       /\ IF NotBegun THEN relay.ups = 0 /\ relay.icap ELSE ~relay.icap
  /\ task.pc # "none" /\ srv.up =>
       /\ relay.icap
       /\ chan.tx <=> relay.pc \notin {"end", "failed"}
       /\ chan.tx => task.pc \in {"select", "write"}
       /\ task.pc # "failed"
  /\ task.pc \in {"tail", "done"} => chan.n = 0 \/ ~srv.up

(* What the ICAP task holds at each of its points.                         *)
BufferOK ==
  /\ task.pc \in {"select", "failed", "done"} => task.out = 0
  /\ task.pc \in {"write", "tail", "failed", "done"} => task.buf = 0

(* The last chunk is the last, and follows only when the task is done.     *)
LastOK ==
  /\ \A i \in 1 .. Len(toSrv) :
       toSrv[i] = "last" => i = Len(toSrv) /\ task.pc = "done"
  /\ task.pc = "done" /\ srv.up =>
       srv.last \/ Closed(toSrv)

(* Every chunk given to the FTP server is on its way to the ICAP server.   *)
ChunksOK ==
  task.pc # "none" /\ srv.up =>
    relay.ups = srv.got + ChunksIn(toSrv) + task.out + task.buf + chan.n + Hand("send")

(* What the ICAP server has sent of its answer, and what of it was read.   *)
AnswerOK ==
  srv.up =>
    /\ srv.ans = "none" => toUs = <<>> /\ srv.owe = 0 /\ ~task.head
    /\ srv.ans \in {"empty", "error"} =>
         /\ srv.owe = 0 /\ srv.kind # "echoes"
         /\ toUs = <<>> \/ (toUs = <<"head">> /\ ~task.head)

(* The background task waits for the ICAP task, and saves a connection     *)
(* only after an answer without a body.                                    *)
BackOK ==
  /\ back \in {"parse", "drain", "saved"} => task.pc = "done"
  /\ back = "saved" /\ srv.up => toUs = <<>> /\ srv.ans = "empty"

IInv ==
  /\ TypeOK /\ FileOK /\ StopOK /\ TaskOK /\ BufferOK /\ LastOK
  /\ ChunksOK /\ AnswerOK /\ BackOK

-----------------------------------------------------------------------------
Server == ServerAnswers \/ ServerReads \/ ServerSendsBody \/ ServerDies

(* What each of the parties leaves alone.                                  *)
LEMMA Frames ==
  /\ Relay => UNCHANGED <<toSrv, toUs, srv>>
  /\ IcapTask => UNCHANGED <<clt, relay, srv, back>>
  /\ Background => UNCHANGED <<clt, relay, chan, task, toSrv, srv>>
  /\ Server => UNCHANGED <<clt, relay, chan, task, back>>
<1>1. Relay => UNCHANGED <<toSrv, toUs, srv>>
  BY Zenon DEF Relay, AskOptions, Start, ReadChunk, WriteUpstream, WriteUpstreamFails, SendChunk,
         ChannelClosed, ReadEnds, IdleTick, Stop
<1>2. IcapTask => UNCHANGED <<clt, relay, srv, back>>
  BY Zenon DEF IcapTask, TakeChunk, Drain, ChannelEnds, WriteIcap, WriteIcapDone,
         WriteIcapFails, WriteLast
<1>3. Background => UNCHANGED <<clt, relay, chan, task, toSrv, srv>>
  BY Zenon DEF Background, Join, Parse, DrainRest, BackTimeout, BackTo
<1>4. Server => UNCHANGED <<clt, relay, chan, task, back>>
  BY Zenon DEF Server, ServerAnswers, ServerReads, ServerSendsBody, ServerDies
<1> QED
  BY <1>1, <1>2, <1>3, <1>4, Zenon

(* The parties of a step.                                                  *)
LEMMA Parties ==
  [Next]_vars => \/ Relay \/ IcapTask \/ Background \/ Server
                 \/ ClientCutOff \/ UNCHANGED vars
BY Zenon DEF Next, Server

(* The records of the model, apart from the sockets.                       *)
Clt == [left: 0..FileSize, err: BOOLEAN]
Rly == [pc: {"start", "options", "read", "write", "send", "stop", "end", "failed"},
        mode: {"audit", "raw", "fallback"}, idle: 0..MaxIdleCount,
        ups: 0..FileSize, icap: BOOLEAN]
Chn == [n: 0..ChannelSize, tx: BOOLEAN]
Tsk == [pc: {"none", "select", "write", "tail", "failed", "done"},
        buf: 0..(BatchSize - 1), out: 0..BatchSize, head: BOOLEAN, closed: BOOLEAN]
Srv == [kind: Servers, up: BOOLEAN, got: 0..FileSize, last: BOOLEAN, ans: Answers,
        owe: 0..1]

(* TypeOK, variable by variable.                                           *)
LEMMA Types ==
  TypeOK <=> /\ clt \in Clt /\ relay \in Rly /\ chan \in Chn /\ task \in Tsk /\ srv \in Srv
             /\ toSrv \in Seq({"chunk", "last"}) /\ Len(toSrv) <= SocketSize
             /\ toUs \in Seq({"head", "body"}) /\ Len(toUs) <= SocketSize
             /\ back \in {"none", "join", "parse", "drain", "saved", "dropped"}
BY Zenon DEF TypeOK, Clt, Rly, Chn, Tsk, Srv

(* Every chunk the client sends is written to the FTP server, unless that  *)
(* server fails.                                                           *)
LEMMA FileNext ==
  ASSUME TypeOK, FileOK, [Next]_vars
  PROVE  FileOK'
<1> USE DEF FileOK, Hand
<1>0. relay \in Rly /\ clt \in Clt /\ FileSize \in Nat
  BY Types, FtpUploadAssumption, Zenon
<1> USE DEF Rly, Clt
<1>1. CASE UNCHANGED <<clt, relay>>
  BY <1>1, Zenon
<1>2. CASE ClientCutOff
  BY <1>0, <1>2, Zenon DEF ClientCutOff
<1>3. CASE Start
  BY <1>0, <1>3, Zenon DEF Start
<1>4. CASE ReadChunk
  BY <1>0, <1>4 DEF ReadChunk
<1>5. CASE WriteUpstream
  BY <1>0, <1>5 DEF WriteUpstream
<1>6. CASE WriteUpstreamFails
  BY <1>0, <1>6, Zenon DEF WriteUpstreamFails
<1>7. CASE AskOptions \/ SendChunk \/ ChannelClosed \/ ReadEnds \/ Stop
  BY <1>0, <1>7, Zenon DEF AskOptions, SendChunk, ChannelClosed, ReadEnds, Stop, RelayTo
<1>8. CASE IdleTick
  BY <1>0, <1>8, Zenon DEF IdleTick
<1> QED
  BY <1>1, <1>2, <1>3, <1>4, <1>5, <1>6, <1>7, <1>8, Frames, Parties, Zenon DEF Relay, vars

(* The loop of the relay ends for one of its reasons.                      *)
LEMMA StopNext ==
  ASSUME TypeOK, StopOK, [Next]_vars
  PROVE  StopOK'
<1> USE DEF StopOK
<1>0. relay \in Rly /\ clt \in Clt /\ FileSize \in Nat /\ MaxIdleCount \in Nat \ {0}
  BY Types, FtpUploadAssumption, Zenon
<1> USE DEF Rly, Clt
<1>1. CASE UNCHANGED <<clt, relay>>
  BY <1>1, Zenon
<1>2. CASE ClientCutOff
  BY <1>0, <1>2, Zenon DEF ClientCutOff
<1>3. CASE Start
  BY <1>0, <1>3, ZenonT(60) DEF Start
<1>4. CASE ReadChunk
  BY <1>0, <1>4 DEF ReadChunk
<1>5. CASE WriteUpstream \/ WriteUpstreamFails
  BY <1>0, <1>5, Zenon DEF WriteUpstream, WriteUpstreamFails
<1>6. CASE AskOptions \/ SendChunk \/ ChannelClosed \/ Stop
  BY <1>0, <1>6, Zenon DEF AskOptions, SendChunk, ChannelClosed, Stop, RelayTo
<1>7. CASE ReadEnds
  BY <1>0, <1>7, Zenon DEF ReadEnds, RelayTo
<1>8. CASE IdleTick
  BY <1>0, <1>8 DEF IdleTick
<1> QED
  BY <1>1, <1>2, <1>3, <1>4, <1>5, <1>6, <1>7, <1>8, Frames, Parties, Zenon DEF Relay, vars

(* The ICAP task ends with the sender or the server.                       *)
LEMMA TaskNext ==
  ASSUME TypeOK, TaskOK, [Next]_vars
  PROVE  TaskOK'
<1> USE DEF TaskOK, NotBegun
<1>0. /\ relay \in Rly /\ chan \in Chn /\ task \in Tsk /\ srv \in Srv
      /\ FileSize \in Nat /\ ChannelSize \in Nat \ {0} /\ BatchSize \in Nat \ {0}
  BY Types, FtpUploadAssumption, Zenon
<1> USE DEF Rly, Chn, Tsk, Srv
<1>1. CASE UNCHANGED <<relay, chan, task, toSrv, srv>>
  BY <1>1, Zenon
<1>2. CASE Relay
  <2>0. UNCHANGED <<toSrv, srv>>
    BY <1>2, Frames, Zenon
  <2>1. CASE Start
    <3>1. CASE /\ relay' = [relay EXCEPT !.pc = "read", !.mode = "audit"]
               /\ task' = [task EXCEPT !.pc = "select"]
               /\ chan' = [chan EXCEPT !.tx = TRUE]
      <4>1. /\ relay'.pc = "read" /\ relay'.mode = "audit" /\ relay'.icap = relay.icap
            /\ task'.pc = "select" /\ chan'.tx /\ relay.icap
        BY <1>0, <2>1, <3>1, Zenon DEF Start
      <4> QED
        BY <2>0, <4>1, Zenon
    <3>2. CASE /\ \E m \in {"raw", "fallback"} :
                    relay' = [relay EXCEPT !.pc = "read", !.mode = m, !.icap = FALSE]
               /\ UNCHANGED <<task, chan>>
      <4>1. /\ relay'.pc = "read" /\ relay'.mode # "audit" /\ ~relay'.icap
            /\ UNCHANGED <<task, chan>> /\ task.pc = "none"
        BY <1>0, <2>1, <3>2 DEF Start
      <4> QED
        BY <2>0, <4>1, Zenon
    <3> QED
      BY <2>1, <3>1, <3>2, Zenon DEF Start
  <2>2. CASE ReadChunk
    BY <1>0, <2>0, <2>2, ZenonT(60) DEF ReadChunk
  <2>8. CASE WriteUpstream
    <3>1. /\ relay'.mode = relay.mode /\ relay'.icap = relay.icap /\ relay.pc = "write"
          /\ relay'.pc = IF relay.icap THEN "send" ELSE "read"
      BY <1>0, <2>8, Zenon DEF WriteUpstream
    <3> QED
      BY <2>0, <2>8, <3>1 DEF WriteUpstream
  <2>3. CASE WriteUpstreamFails
    BY <1>0, <2>0, <2>3, Zenon DEF WriteUpstreamFails
  <2>4. CASE SendChunk
    BY <1>0, <2>0, <2>4, Zenon DEF SendChunk, RelayTo, Receiver
  <2>5. CASE ChannelClosed
    BY <1>0, <2>0, <2>5, Zenon DEF ChannelClosed, Receiver
  <2>6. CASE ReadEnds \/ Stop
    BY <1>0, <2>0, <2>6, SMTT(30) DEF ReadEnds, Stop, RelayTo
  <2>7. CASE IdleTick
    BY <1>0, <2>0, <2>7, ZenonT(60) DEF IdleTick
  <2>9. CASE AskOptions
    BY <1>0, <2>0, <2>9, Zenon DEF AskOptions, RelayTo
  <2> QED
    BY <1>2, <2>1, <2>2, <2>3, <2>4, <2>5, <2>6, <2>7, <2>8, <2>9, Zenon DEF Relay
<1>3. CASE IcapTask
  <2>0. UNCHANGED <<relay, srv>>
    BY <1>3, Frames, Zenon
  <2>1. CASE TakeChunk
    BY <1>0, <2>0, <2>1, ZenonT(60) DEF TakeChunk
  <2>2. CASE Drain
    BY <1>0, <2>0, <2>2, SMTT(30) DEF Drain
  <2>3. CASE ChannelEnds
    BY <1>0, <2>0, <2>3, Zenon DEF ChannelEnds
  <2>4. CASE WriteIcap \/ WriteLast
    BY <1>0, <2>0, <2>4, SMTT(30) DEF WriteIcap, WriteLast
  <2>5. CASE WriteIcapDone \/ WriteIcapFails
    BY <1>0, <2>0, <2>5, ZenonT(60) DEF WriteIcapDone, WriteIcapFails
  <2> QED
    BY <1>3, <2>1, <2>2, <2>3, <2>4, <2>5, Zenon DEF IcapTask
<1>4. CASE Server
  <2>0. UNCHANGED <<relay, chan, task>>
    BY <1>4, Frames, Zenon
  <2>1. CASE ServerAnswers \/ ServerSendsBody
    BY <1>0, <2>0, <2>1, Zenon DEF ServerAnswers, ServerSendsBody
  <2>2. CASE ServerReads
    BY <1>0, <2>0, <2>2, ZenonT(60) DEF ServerReads
  <2>3. CASE ServerDies
    BY <1>0, <2>0, <2>3, Zenon DEF ServerDies
  <2> QED
    BY <1>4, <2>1, <2>2, <2>3, Zenon DEF Server
<1> QED
  BY <1>1, <1>2, <1>3, <1>4, Frames, Parties, Zenon DEF ClientCutOff, vars

(* What the ICAP task holds.                                               *)
LEMMA BufferNext ==
  ASSUME TypeOK, TaskOK, BufferOK, [Next]_vars
  PROVE  BufferOK'
<1> USE DEF BufferOK
<1>0. task \in Tsk /\ BatchSize \in Nat \ {0}
  BY Types, FtpUploadAssumption, Zenon
<1> USE DEF Tsk
<1>1. CASE UNCHANGED task
  BY <1>1, Zenon
<1>2. CASE Start
  BY <1>0, <1>2, Zenon DEF Start, TaskOK, NotBegun
<1>3. CASE TakeChunk
  BY <1>0, <1>3, Zenon DEF TakeChunk
<1>4. CASE Drain
  BY <1>0, <1>4, ZenonT(60) DEF Drain
<1>5. CASE ChannelEnds
  BY <1>0, <1>5, Zenon DEF ChannelEnds
<1>6. CASE WriteIcap \/ WriteLast
  BY <1>0, <1>6, Zenon DEF WriteIcap, WriteLast
<1>7. CASE WriteIcapDone \/ WriteIcapFails
  BY <1>0, <1>7, Zenon DEF WriteIcapDone, WriteIcapFails
<1>8. Relay => Start \/ UNCHANGED task
  BY Zenon DEF Relay, AskOptions, ReadChunk, WriteUpstream, WriteUpstreamFails, SendChunk,
         ChannelClosed, ReadEnds, IdleTick, Stop
<1> QED
  BY <1>1, <1>2, <1>3, <1>4, <1>5, <1>6, <1>7, <1>8, Frames, Parties, Zenon
  DEF IcapTask, ClientCutOff, vars

-----------------------------------------------------------------------------
(* The socket to the ICAP server.                                          *)

Sent == {"chunk", "last"}

(* What a write adds to a socket, and a read takes from it.                *)
LEMMA Socket ==
  ASSUME NEW S, NEW q \in Seq(S)
  PROVE  /\ Len(q) \in Nat
         /\ \A e \in S : /\ Append(q, e) \in Seq(S) /\ Len(Append(q, e)) = Len(q) + 1
                        /\ Append(q, e)[Len(q) + 1] = e
                        /\ \A i \in 1 .. Len(q) : Append(q, e)[i] = q[i]
         /\ q # <<>> => /\ Len(q) >= 1 /\ Head(q) = q[1] /\ q[1] \in S
                        /\ Tail(q) \in Seq(S) /\ Len(Tail(q)) = Len(q) - 1
                        /\ \A i \in 1 .. Len(q) - 1 : Tail(q)[i] = q[i + 1]
OBVIOUS

(* Nothing is written behind the last chunk.                               *)
LEMMA LastNext ==
  ASSUME TypeOK, TaskOK, LastOK, [Next]_vars
  PROVE  LastOK'
<1> USE DEF LastOK, Closed
<1>0. task \in Tsk /\ srv \in Srv /\ toSrv \in Seq(Sent)
  BY Types, Zenon DEF Sent
<1>1. Len(toSrv) \in Nat /\ "chunk" \in Sent /\ "last" \in Sent
  BY <1>0, Socket, Zenon DEF Sent
<1>2. CASE UNCHANGED <<task, toSrv, srv>>
  BY <1>2, Zenon
<1>3. CASE /\ UNCHANGED <<toSrv, srv>> /\ task.pc # "done" /\ task'.pc # "done"
  BY <1>3, Zenon
<1>4. CASE Relay
  <2>1. Relay => Start \/ UNCHANGED task
    BY Zenon DEF Relay, AskOptions, ReadChunk, WriteUpstream, WriteUpstreamFails, SendChunk,
           ChannelClosed, ReadEnds, IdleTick, Stop
  <2>2. CASE Start
    <3>1. task.pc = "none"
      BY <2>2, Zenon DEF Start, TaskOK, NotBegun
    <3>2. task'.pc \in {"none", "select"}
      BY <1>0, <2>2, <3>1, Zenon DEF Start, Tsk
    <3> QED
      BY <1>3, <1>4, <3>1, <3>2, Frames, Zenon
  <2> QED
    BY <1>2, <1>4, <2>1, <2>2, Frames, Zenon
<1>5. CASE IcapTask
  <2>0. UNCHANGED srv
    BY <1>5, Frames, Zenon
  <2>1. CASE TakeChunk \/ Drain \/ ChannelEnds \/ WriteIcapDone
    BY <1>0, <1>3, <2>0, <2>1, Zenon DEF TakeChunk, Drain, ChannelEnds, WriteIcapDone, Tsk
  <2>2. CASE WriteIcapFails
    <3>1. ~srv.up /\ UNCHANGED toSrv /\ task.pc # "done"
      BY <2>2, Zenon DEF WriteIcapFails
    <3> QED
      BY <2>0, <3>1, Zenon
  <2>3. CASE WriteIcap
    <3>1. toSrv' = Append(toSrv, "chunk") /\ task.pc # "done" /\ task'.pc = task.pc
      BY <1>0, <2>3, Zenon DEF WriteIcap, Tsk
    <3>2. /\ Len(toSrv') = Len(toSrv) + 1 /\ toSrv'[Len(toSrv) + 1] = "chunk"
          /\ \A i \in 1 .. Len(toSrv) : toSrv'[i] = toSrv[i]
      BY <1>0, <1>1, <3>1, Socket
    <3> QED
      BY <1>1, <3>1, <3>2
  <2>4. CASE WriteLast
    <3>1. toSrv' = Append(toSrv, "last") /\ task.pc # "done" /\ task'.pc = "done"
      BY <1>0, <2>4, Zenon DEF WriteLast, Tsk
    <3>2. /\ Len(toSrv') = Len(toSrv) + 1 /\ toSrv'[Len(toSrv) + 1] = "last"
          /\ \A i \in 1 .. Len(toSrv) : toSrv'[i] = toSrv[i]
      BY <1>0, <1>1, <3>1, Socket
    <3>3. toSrv' # <<>>
      BY <1>0, <1>1, <3>1
    <3> QED
      BY <1>1, <3>1, <3>2, <3>3
  <2> QED
    BY <1>5, <2>1, <2>2, <2>3, <2>4, Zenon DEF IcapTask
<1>6. CASE Server
  <2>0. UNCHANGED task
    BY <1>6, Frames, Zenon
  <2>1. CASE ServerAnswers \/ ServerSendsBody
    BY <1>0, <2>0, <2>1, Zenon DEF ServerAnswers, ServerSendsBody, Srv
  <2>2. CASE ServerReads
    <3>1. toSrv # <<>> /\ toSrv' = Tail(toSrv) /\ srv'.up = srv.up
          /\ (srv.last \/ Head(toSrv) = "last" => srv'.last)
      BY <1>0, <2>2, Zenon DEF ServerReads, Srv
    <3>2. /\ Len(toSrv) >= 1 /\ Head(toSrv) = toSrv[1]
          /\ toSrv' \in Seq(Sent) /\ Len(toSrv') = Len(toSrv) - 1
          /\ \A i \in 1 .. Len(toSrv) - 1 : toSrv'[i] = toSrv[i + 1]
      BY <1>0, <3>1, Socket, ZenonT(60)
    <3>3. \A i \in 1 .. Len(toSrv') :
            toSrv'[i] = "last" => i = Len(toSrv') /\ task'.pc = "done"
      BY <1>1, <2>0, <3>2
    <3>4. CASE Len(toSrv) = 1
      BY <2>0, <3>1, <3>2, <3>3, <3>4, Zenon
    <3>5. CASE Len(toSrv) > 1
      <4>1. toSrv' # <<>> /\ toSrv'[Len(toSrv')] = toSrv[Len(toSrv)]
        BY <1>1, <3>2, <3>5
      <4> QED
        BY <2>0, <3>1, <3>3, <4>1, Zenon
    <3> QED
      BY <1>1, <3>2, <3>4, <3>5
  <2>3. CASE ServerDies
    <3>1. toSrv' = <<>> /\ ~srv'.up
      BY <1>0, <2>3, Zenon DEF ServerDies, Srv
    <3> QED
      BY <3>1
  <2> QED
    BY <1>6, <2>1, <2>2, <2>3, Zenon DEF Server
<1> QED
  BY <1>2, <1>4, <1>5, <1>6, Frames, Parties, Zenon DEF ClientCutOff, vars

(* The sockets carry what they may carry, and no more than they hold.      *)
LEMMA SocketsNext ==
  ASSUME TypeOK, [Next]_vars
  PROVE  /\ toSrv' \in Seq(Sent) /\ Len(toSrv') <= SocketSize
         /\ toUs' \in Seq({"head", "body"}) /\ Len(toUs') <= SocketSize
<1>0. /\ toSrv \in Seq(Sent) /\ Len(toSrv) <= SocketSize
      /\ toUs \in Seq({"head", "body"}) /\ Len(toUs) <= SocketSize
  BY Types, Zenon DEF Sent
<1>1. /\ SocketSize \in Nat \ {0} /\ Len(toSrv) \in Nat /\ Len(toUs) \in Nat
      /\ "chunk" \in Sent /\ "last" \in Sent /\ Len(<<>>) = 0
      /\ <<>> \in Seq(Sent) /\ <<>> \in Seq({"head", "body"})
  BY <1>0, Socket, FtpUploadAssumption DEF Sent
<1>2. /\ toSrv' \in Seq(Sent) /\ Len(toSrv') <= SocketSize
  <2>1. CASE UNCHANGED toSrv
    BY <1>0, <2>1, Zenon
  <2>2. CASE WriteIcap \/ WriteLast
    <3>1. \E e \in Sent : toSrv' = Append(toSrv, e)
      BY <1>1, <2>2, Zenon DEF WriteIcap, WriteLast
    <3>2. Len(toSrv) < SocketSize
      BY <2>2, Zenon DEF WriteIcap, WriteLast
    <3> QED
      BY <1>0, <1>1, <3>1, <3>2, Socket
  <2>3. CASE ServerReads
    <3>1. toSrv # <<>> /\ toSrv' = Tail(toSrv)
      BY <2>3, Zenon DEF ServerReads
    <3> QED
      BY <1>0, <1>1, <3>1, Socket
  <2>4. CASE ServerDies
    BY <1>1, <2>4 DEF ServerDies
  <2>5. IcapTask => WriteIcap \/ WriteLast \/ UNCHANGED toSrv
    BY Zenon DEF IcapTask, TakeChunk, Drain, ChannelEnds, WriteIcapDone, WriteIcapFails
  <2>6. Server => ServerReads \/ ServerDies \/ UNCHANGED toSrv
    BY Zenon DEF Server, ServerAnswers, ServerSendsBody
  <2> QED
    BY <2>1, <2>2, <2>3, <2>4, <2>5, <2>6, Frames, Parties, Zenon DEF ClientCutOff, vars
<1>3. /\ toUs' \in Seq({"head", "body"}) /\ Len(toUs') <= SocketSize
  <2>1. CASE UNCHANGED toUs
    BY <1>0, <2>1, Zenon
  <2>2. CASE toUs # <<>> /\ toUs' = Tail(toUs)
    BY <1>0, <1>1, <2>2, Socket
  <2>3. CASE ServerAnswers \/ ServerSendsBody
    <3>1. \E e \in {"head", "body"} : toUs' = Append(toUs, e)
      BY <2>3, Zenon DEF ServerAnswers, ServerSendsBody
    <3>2. Len(toUs) < SocketSize
      BY <2>3, Zenon DEF ServerAnswers, ServerSendsBody
    <3> QED
      BY <1>0, <1>1, <3>1, <3>2, Socket
  <2>4. CASE ServerDies
    <3>1. toUs' = toUs \/ toUs' = <<>>
      BY <2>4, Zenon DEF ServerDies
    <3>2. CASE toUs' = <<>>
      BY <1>1, <3>2
    <3> QED
      BY <1>0, <3>1, <3>2, Zenon
  <2>5. IcapTask => (toUs # <<>> /\ toUs' = Tail(toUs)) \/ UNCHANGED toUs
    BY Zenon DEF IcapTask, TakeChunk, Drain, ChannelEnds, WriteIcap, WriteIcapDone,
           WriteIcapFails, WriteLast
  <2>6. Background => (toUs # <<>> /\ toUs' = Tail(toUs)) \/ UNCHANGED toUs
    BY Zenon DEF Background, Join, Parse, DrainRest, BackTimeout
  <2>7. Server => ServerAnswers \/ ServerSendsBody \/ ServerDies \/ UNCHANGED toUs
    BY Zenon DEF Server, ServerReads
  <2> QED
    BY <2>1, <2>2, <2>3, <2>4, <2>5, <2>6, <2>7, Frames, Parties, Zenon DEF ClientCutOff, vars
<1> QED
  BY <1>2, <1>3, Zenon

(* The chunks on their way to the ICAP server.                             *)
LEMMA ChunksNext ==
  ASSUME TypeOK, TaskOK, BufferOK, LastOK, ChunksOK, [Next]_vars
  PROVE  ChunksOK'
<1> USE DEF ChunksOK, Hand
<1>0. /\ relay \in Rly /\ chan \in Chn /\ task \in Tsk /\ srv \in Srv
      /\ FileSize \in Nat /\ ChannelSize \in Nat \ {0} /\ BatchSize \in Nat \ {0}
  BY Types, FtpUploadAssumption, Zenon
<1> USE DEF Rly, Chn, Tsk, Srv
<1> DEFINE N == ChunksIn(toSrv)
<1>1. toSrv \in Seq(Sent) /\ toSrv' \in Seq(Sent)
  BY Types, SocketsNext, Zenon DEF Sent
<1>2. /\ Len(toSrv) \in Nat
      /\ N = IF toSrv # <<>> /\ toSrv[Len(toSrv)] = "last" THEN Len(toSrv) - 1 ELSE Len(toSrv)
  BY <1>1, Socket, Zenon DEF ChunksIn, Closed
<1>3. /\ Len(toSrv') \in Nat
      /\ N' = IF toSrv' # <<>> /\ toSrv'[Len(toSrv')] = "last" THEN Len(toSrv') - 1
              ELSE Len(toSrv')
  BY <1>1, Socket, Zenon DEF ChunksIn, Closed
<1>4. N \in Int /\ N' \in Int /\ (toSrv' = toSrv => N' = N)
  BY <1>2, <1>3
<1>5. ChunksOK <=> (task.pc # "none" /\ srv.up =>
        relay.ups = srv.got + N + task.out + task.buf + chan.n + Hand("send"))
  BY Zenon
<1>6. ChunksOK' <=> (task'.pc # "none" /\ srv'.up =>
        relay'.ups = srv'.got + N' + task'.out + task'.buf + chan'.n + Hand("send")')
  BY Zenon
<1> HIDE DEF N, ChunksOK
<1> USE <1>0, <1>4, <1>5, <1>6
<1>7. CASE UNCHANGED <<relay, chan, task, toSrv, srv>>
  BY <1>7, Zenon
<1>8. CASE Relay
  <2>0. UNCHANGED srv /\ N' = N
    BY <1>4, <1>8, Frames, Zenon
  <2>1. CASE Start
    <3>1. /\ task.pc = "none" /\ NotBegun /\ chan.n = 0 /\ task.buf = 0
          /\ task.out = 0 /\ srv.got = 0 /\ toSrv = <<>> /\ relay.ups = 0
      BY <2>1, Zenon DEF Start, TaskOK, NotBegun
    <3>2. N = 0
      BY <1>2, <3>1, Zenon
    <3>3. /\ relay'.ups = 0 /\ relay'.pc = "read" /\ chan'.n = 0 /\ task'.buf = 0
          /\ task'.out = 0
      BY <2>1, <3>1, ZenonT(60) DEF Start
    <3> QED
      BY <2>0, <3>1, <3>2, <3>3
  <2>2. CASE ReadChunk
    BY <2>0, <2>2, Zenon DEF ReadChunk
  <2>3. CASE WriteUpstream
    <3>1. task.pc # "none" /\ srv.up => relay.icap
      BY Zenon DEF TaskOK
    <3> QED
      BY <2>0, <2>3, <3>1 DEF WriteUpstream
  <2>4. CASE WriteUpstreamFails
    BY <2>0, <2>4, Zenon DEF WriteUpstreamFails
  <2>5. CASE SendChunk
    BY <2>0, <2>5 DEF SendChunk, RelayTo
  <2>6. CASE ChannelClosed
    <3>1. task.pc # "none" /\ srv.up => Receiver
      BY <2>6, Zenon DEF ChannelClosed, TaskOK, Receiver
    <3> QED
      BY <2>0, <2>6, <3>1, Zenon DEF ChannelClosed
  <2>7. CASE ReadEnds \/ Stop
    BY <2>0, <2>7, ZenonT(60) DEF ReadEnds, Stop, RelayTo
  <2>8. CASE IdleTick
    BY <2>0, <2>8, Zenon DEF IdleTick
  <2>9. CASE AskOptions
    BY <2>0, <2>9, Zenon DEF AskOptions, RelayTo
  <2> QED
    BY <1>8, <2>1, <2>2, <2>3, <2>4, <2>5, <2>6, <2>7, <2>8, <2>9, Zenon DEF Relay
<1>9. CASE IcapTask
  <2>0. UNCHANGED <<relay, srv>>
    BY <1>9, Frames, Zenon
  <2>1. CASE TakeChunk
    <3>1. toSrv' = toSrv /\ task.out = 0
      BY <2>1, Zenon DEF TakeChunk, BufferOK
    <3> QED
      BY <2>0, <2>1, <3>1 DEF TakeChunk
  <2>2. CASE Drain
    BY <2>0, <2>2, ZenonT(60) DEF Drain
  <2>3. CASE ChannelEnds
    <3>1. toSrv' = toSrv /\ task.out = 0
      BY <2>3, Zenon DEF ChannelEnds, BufferOK
    <3> QED
      BY <2>0, <2>3, <3>1 DEF ChannelEnds
  <2>4. CASE WriteIcap
    <3>1. /\ toSrv' = Append(toSrv, "chunk") /\ task.pc # "done"
      BY <2>4, ZenonT(60) DEF WriteIcap
    <3>2. Len(toSrv') = Len(toSrv) + 1 /\ toSrv'[Len(toSrv')] = "chunk"
      BY <1>1, <1>2, <3>1, Socket DEF Sent
    <3>3. N = Len(toSrv)
      <4>1. toSrv # <<>> => Len(toSrv) \in 1 .. Len(toSrv)
        BY <1>1, Socket
      <4> QED
        BY <1>2, <3>1, <4>1, Zenon DEF LastOK
    <3>4. N' = N + 1
      BY <1>3, <3>2, <3>3, Zenon
    <3> QED
      BY <2>0, <2>4, <3>4, SMTT(60) DEF WriteIcap
  <2>5. CASE WriteLast
    <3>1. /\ toSrv' = Append(toSrv, "last") /\ task.pc # "done"
      BY <2>5, Zenon DEF WriteLast
    <3>2. /\ Len(toSrv') = Len(toSrv) + 1 /\ toSrv'[Len(toSrv')] = "last"
          /\ toSrv' # <<>>
      BY <1>1, <1>2, <3>1, Socket, SMTT(60) DEF Sent
    <3>3. N = Len(toSrv)
      <4>1. toSrv # <<>> => Len(toSrv) \in 1 .. Len(toSrv)
        BY <1>1, Socket
      <4> QED
        BY <1>2, <3>1, <4>1, Zenon DEF LastOK
    <3>4. N' = N
      BY <1>2, <1>3, <3>2, <3>3
    <3> QED
      BY <2>0, <2>5, <3>4, Zenon DEF WriteLast
  <2>6. CASE WriteIcapDone
    BY <2>0, <2>6, Zenon DEF WriteIcapDone
  <2>7. CASE WriteIcapFails
    BY <2>0, <2>7, Zenon DEF WriteIcapFails
  <2> QED
    BY <1>9, <2>1, <2>2, <2>3, <2>4, <2>5, <2>6, <2>7, Zenon DEF IcapTask
<1>10. CASE Server
  <2>0. UNCHANGED <<relay, chan, task>>
    BY <1>10, Frames, Zenon
  <2>1. CASE ServerAnswers \/ ServerSendsBody
    BY <2>0, <2>1, ZenonT(60) DEF ServerAnswers, ServerSendsBody
  <2>2. CASE ServerReads
    <3>1. /\ toSrv # <<>> /\ toSrv' = Tail(toSrv) /\ srv'.up = srv.up
          /\ srv'.got = IF Head(toSrv) = "last" THEN srv.got ELSE srv.got + 1
      BY <2>2, Zenon DEF ServerReads
    <3>2. /\ Len(toSrv) >= 1 /\ Head(toSrv) = toSrv[1] /\ Len(toSrv') = Len(toSrv) - 1
          /\ \A i \in 1 .. Len(toSrv) - 1 : toSrv'[i] = toSrv[i + 1]
      BY <1>1, <3>1, Socket
    <3>3. CASE Head(toSrv) = "last"
      <4>1. Len(toSrv) = 1
        BY <1>2, <3>2, <3>3, SMTT(60) DEF LastOK
      <4>2. N = 0
        BY <1>2, <3>1, <3>2, <3>3, <4>1
      <4>3. toSrv' = <<>>
        BY <1>1, <3>2, <4>1
      <4>4. N' = 0
        BY <1>3, <3>2, <4>1, <4>3, Zenon
      <4> QED
        BY <2>0, <3>1, <3>3, <4>2, <4>4, Zenon
    <3>4. CASE Head(toSrv) # "last"
      <4>1. CASE Len(toSrv) = 1
        <5>1. N = 1 /\ N' = 0
          BY <1>2, <1>3, <3>2, <3>4, <4>1
        <5> QED
          BY <2>0, <3>1, <3>4, <5>1, SMTT(30)
      <4>2. CASE Len(toSrv) > 1
        <5>1. toSrv'[Len(toSrv')] = toSrv[Len(toSrv)] /\ toSrv' # <<>>
          BY <1>2, <3>2, <4>2, SMTT(30)
        <5>2. N' = N - 1
          BY <1>2, <1>3, <3>1, <3>2, <5>1, Zenon
        <5> QED
          BY <2>0, <3>1, <3>4, <5>2, SMTT(30)
      <4> QED
        BY <1>2, <3>2, <4>1, <4>2, SMTT(30)
    <3> QED
      BY <3>3, <3>4, Zenon
  <2>3. CASE ServerDies
    BY <2>3, Zenon DEF ServerDies
  <2> QED
    BY <1>10, <2>1, <2>2, <2>3, Zenon DEF Server
<1> QED
  BY <1>7, <1>8, <1>9, <1>10, Frames, Parties, Zenon DEF ClientCutOff, vars

-----------------------------------------------------------------------------
(* The answer of the ICAP server.                                          *)

(* An answer without a body is one part, and it is read once.              *)
LEMMA AnswerNext ==
  ASSUME TypeOK, TaskOK, AnswerOK, [Next]_vars
  PROVE  AnswerOK'
<1>0. /\ task \in Tsk /\ srv \in Srv /\ toUs \in Seq({"head", "body"})
  BY Types, Zenon
<1> USE DEF AnswerOK, Tsk, Srv
<1>1. CASE UNCHANGED <<srv, toUs>> /\ task'.head = task.head
  BY <1>1, Zenon
<1>2. CASE UNCHANGED <<srv, task>> /\ toUs # <<>> /\ toUs' = Tail(toUs)
  <2>1. toUs = <<"head">> => toUs' = <<>>
    BY <1>2
  <2> QED
    BY <1>2, <2>1, Zenon
<1>3. CASE Relay
  <2>1. task'.head = task.head
    BY <1>0, <1>3, Zenon DEF Relay, AskOptions, Start, ReadChunk, WriteUpstream, WriteUpstreamFails,
       SendChunk, ChannelClosed, ReadEnds, IdleTick, Stop
  <2> QED
    BY <1>1, <1>3, <2>1, Frames, Zenon
<1>4. CASE IcapTask
  <2>0. UNCHANGED srv
    BY <1>4, Frames, Zenon
  <2>1. CASE Drain
    <3>1. CASE toUs # <<>> /\ toUs' = Tail(toUs)
      <4>1. toUs = <<"head">> => toUs' = <<>>
        BY <3>1
      <4> QED
        BY <2>0, <3>1, <4>1, Zenon
    <3>2. CASE UNCHANGED toUs /\ task' = [task EXCEPT !.closed = TRUE]
      <4>1. task'.head = task.head
        BY <1>0, <3>2, Zenon
      <4> QED
        BY <1>1, <2>0, <3>2, <4>1, Zenon
    <3> QED
      BY <2>1, <3>1, <3>2, Zenon DEF Drain
  <2>2. CASE ~Drain
    <3>1. UNCHANGED toUs
      BY <1>4, <2>2, Zenon DEF IcapTask, TakeChunk, ChannelEnds, WriteIcap, WriteIcapDone,
         WriteIcapFails, WriteLast
    <3>2. task'.head = task.head
      BY <1>0, <1>4, <2>2, Zenon DEF IcapTask, TakeChunk, ChannelEnds, WriteIcap,
         WriteIcapDone, WriteIcapFails, WriteLast
    <3> QED
      BY <1>1, <2>0, <3>1, <3>2, Zenon
  <2> QED
    BY <2>1, <2>2, Zenon
<1>5. CASE Background
  <2>1. UNCHANGED toUs \/ (toUs # <<>> /\ toUs' = Tail(toUs))
    BY <1>5, Zenon DEF Background, Join, Parse, DrainRest, BackTimeout
  <2> QED
    BY <1>1, <1>2, <1>5, <2>1, Frames, Zenon
<1>6. CASE Server
  <2>0. UNCHANGED task
    BY <1>6, Frames, Zenon
  <2>1. CASE ServerAnswers
    <3>1. /\ toUs' = Append(toUs, "head") /\ srv.up /\ srv.ans = "none"
          /\ srv'.ans # "none" /\ srv'.kind = srv.kind
          /\ srv'.ans # "body" => srv'.owe = 0 /\ srv.kind # "echoes"
      BY <1>0, <2>1, ZenonT(60) DEF ServerAnswers, Answers
    <3>2. toUs' = <<"head">> /\ ~task.head
      BY <3>1
    <3> QED
      BY <2>0, <3>1, <3>2, Zenon
  <2>2. CASE ServerReads
    <3>1. /\ UNCHANGED toUs /\ srv'.ans = srv.ans /\ srv'.up = srv.up
          /\ srv'.kind = srv.kind
          /\ srv'.owe = srv.owe \/ (srv.kind = "echoes" /\ srv.ans # "none")
      BY <1>0, <2>2, Zenon DEF ServerReads
    <3> QED
      BY <2>0, <3>1, Zenon
  <2>3. CASE ServerSendsBody
    <3>1. /\ srv.up /\ srv.owe > 0 /\ srv'.ans = srv.ans
      BY <1>0, <2>3, Zenon DEF ServerSendsBody
    <3>2. srv.ans \notin {"none", "empty", "error"}
      BY <3>1
    <3> QED
      BY <3>1, <3>2, Zenon
  <2>4. CASE ServerDies
    <3>1. ~srv'.up
      BY <1>0, <2>4, Zenon DEF ServerDies
    <3> QED
      BY <3>1, Zenon
  <2> QED
    BY <1>6, <2>1, <2>2, <2>3, <2>4, Zenon DEF Server
<1> QED
  BY <1>1, <1>3, <1>4, <1>5, <1>6, Frames, Parties, Zenon DEF ClientCutOff, vars

(* A connection is saved behind an answer that was read to its end.        *)
LEMMA BackNext ==
  ASSUME TypeOK, TaskOK, AnswerOK, BackOK, [Next]_vars
  PROVE  BackOK'
<1>0. /\ task \in Tsk /\ srv \in Srv /\ toUs \in Seq({"head", "body"})
  BY Types, Zenon
<1> USE DEF BackOK, Tsk, Srv
<1>1. CASE UNCHANGED <<task, srv, toUs, back>>
  BY <1>1, Zenon
<1>2. CASE Relay
  <2>1. task.pc = "done" => UNCHANGED task
    BY <1>2, Zenon DEF Relay, AskOptions, Start, ReadChunk, WriteUpstream, WriteUpstreamFails,
       SendChunk, ChannelClosed, ReadEnds, IdleTick, Stop, TaskOK, NotBegun
  <2>2. back' = back \/ back' = "join"
    BY <1>2, Zenon DEF Relay, AskOptions, Start, ReadChunk, WriteUpstream, WriteUpstreamFails,
       SendChunk, ChannelClosed, ReadEnds, IdleTick, Stop
  <2> QED
    BY <1>2, <2>1, <2>2, Frames, Zenon
<1>3. CASE IcapTask
  <2>1. task.pc # "done"
    BY <1>3, Zenon DEF IcapTask, TakeChunk, Drain, ChannelEnds, WriteIcap, WriteIcapDone,
       WriteIcapFails, WriteLast
  <2> QED
    BY <1>3, <2>1, Frames, Zenon
<1>4. CASE Background
  <2>0. UNCHANGED <<task, srv>>
    BY <1>4, Frames, Zenon
  <2>1. CASE Join
    BY <2>0, <2>1, Zenon DEF Join, BackTo
  <2>2. CASE Parse
    <3>1. back = "parse" /\ task.pc = "done"
      BY <2>2, Zenon DEF Parse
    <3>2. back' = "saved" /\ srv.up =>
            /\ srv.ans = "empty" /\ toUs' = IF task.head THEN toUs ELSE Tail(toUs)
            /\ task.head \/ toUs # <<>>
      BY <2>2, Zenon DEF Parse, AfterHead, BackTo
    <3>3. back' = "saved" /\ srv.up => toUs' = <<>>
      <4>1. SUFFICES ASSUME back' = "saved", srv.up PROVE toUs' = <<>>
        BY Zenon
      <4>2. toUs = <<>> \/ (toUs = <<"head">> /\ ~task.head)
        BY <3>2, <4>1, Zenon DEF AnswerOK
      <4>3. CASE task.head
        BY <3>2, <4>1, <4>2, <4>3, Zenon
      <4>4. CASE ~task.head
        <5>1. toUs = <<"head">> /\ toUs' = Tail(toUs)
          BY <3>2, <4>1, <4>2, <4>4, Zenon
        <5> QED
          BY <5>1
      <4> QED
        BY <4>3, <4>4, Zenon
    <3> QED
      BY <2>0, <3>1, <3>2, <3>3, Zenon
  <2>3. CASE DrainRest
    BY <2>0, <2>3, Zenon DEF DrainRest, BackTo
  <2>4. CASE BackTimeout
    BY <2>0, <2>4, Zenon DEF BackTimeout, BackTo
  <2> QED
    BY <1>4, <2>1, <2>2, <2>3, <2>4, Zenon DEF Background
<1>5. CASE Server
  <2>0. UNCHANGED <<task, back>>
    BY <1>5, Frames, Zenon
  <2>1. CASE ServerAnswers
    BY <1>0, <2>0, <2>1, Zenon DEF ServerAnswers
  <2>2. CASE ServerReads
    <3>1. UNCHANGED toUs /\ srv'.ans = srv.ans /\ srv'.up = srv.up
      BY <1>0, <2>2, Zenon DEF ServerReads
    <3> QED
      BY <2>0, <3>1, Zenon
  <2>3. CASE ServerSendsBody
    <3>1. srv.up /\ srv.owe > 0
      BY <2>3, Zenon DEF ServerSendsBody
    <3>2. back # "saved"
      BY <3>1 DEF AnswerOK
    <3> QED
      BY <2>0, <3>2, Zenon
  <2>4. CASE ServerDies
    <3>1. ~srv'.up
      BY <1>0, <2>4, Zenon DEF ServerDies
    <3> QED
      BY <2>0, <3>1, Zenon
  <2> QED
    BY <1>5, <2>1, <2>2, <2>3, <2>4, Zenon DEF Server
<1> QED
  BY <1>1, <1>2, <1>3, <1>4, <1>5, Frames, Parties, Zenon DEF ClientCutOff, vars

-----------------------------------------------------------------------------
(* Types.                                                                  *)

(* The client and the relay: the FTP server gets no more than the file.    *)
LEMMA RelayTypes ==
  ASSUME TypeOK, FileOK, StopOK, [Next]_vars
  PROVE  clt' \in Clt /\ relay' \in Rly
<1>0. /\ relay \in Rly /\ clt \in Clt
      /\ FileSize \in Nat /\ MaxIdleCount \in Nat \ {0}
  BY Types, FtpUploadAssumption, Zenon
<1> USE DEF Rly, Clt
<1>1. CASE UNCHANGED <<clt, relay>>
  BY <1>0, <1>1, Zenon
<1>2. CASE ClientCutOff
  BY <1>0, <1>2, Zenon DEF ClientCutOff
<1>3. CASE Start
  BY <1>0, <1>3, ZenonT(60) DEF Start
<1>4. CASE ReadChunk
  <2>1. clt.left - 1 \in 0..FileSize /\ 0 \in 0..MaxIdleCount
    BY <1>0, <1>4 DEF ReadChunk
  <2> QED
    BY <1>0, <1>4, <2>1, Zenon DEF ReadChunk
<1>5. CASE WriteUpstream
  <2>1. relay.ups + 1 \in 0..FileSize /\ UNCHANGED clt
    BY <1>0, <1>5 DEF WriteUpstream, FileOK, Hand
  <2> QED
    BY <1>0, <1>5, <2>1, Zenon DEF WriteUpstream
<1>6. CASE \/ AskOptions \/ WriteUpstreamFails \/ SendChunk \/ ChannelClosed \/ ReadEnds
           \/ Stop
  BY <1>0, <1>6, ZenonT(60)
  DEF AskOptions, WriteUpstreamFails, SendChunk, ChannelClosed, ReadEnds, Stop, RelayTo
<1>7. CASE IdleTick
  <2>1. relay.idle + 1 \in 0..MaxIdleCount /\ UNCHANGED clt
    BY <1>0, <1>7 DEF IdleTick, StopOK
  <2> QED
    BY <1>0, <1>7, <2>1, Zenon DEF IdleTick
<1> QED
  BY <1>1, <1>2, <1>3, <1>4, <1>5, <1>6, <1>7, Frames, Parties, Zenon DEF Relay, vars

(* The channel keeps to its size.                                          *)
LEMMA ChanType ==
  ASSUME TypeOK, [Next]_vars
  PROVE  chan' \in Chn
<1>0. chan \in Chn /\ ChannelSize \in Nat \ {0}
  BY Types, FtpUploadAssumption, Zenon
<1> USE DEF Chn
<1>1. CASE UNCHANGED chan
  BY <1>0, <1>1, Zenon
<1>2. CASE Start \/ WriteUpstreamFails \/ Stop
  BY <1>0, <1>2, Zenon DEF Start, WriteUpstreamFails, Stop
<1>3. CASE SendChunk
  BY <1>0, <1>3 DEF SendChunk
<1>4. CASE TakeChunk
  BY <1>0, <1>4 DEF TakeChunk
<1>5. Relay => Start \/ WriteUpstreamFails \/ Stop \/ SendChunk \/ UNCHANGED chan
  BY Zenon DEF Relay, AskOptions, ReadChunk, WriteUpstream, ChannelClosed, ReadEnds, IdleTick
<1>6. IcapTask => TakeChunk \/ UNCHANGED chan
  BY Zenon DEF IcapTask, Drain, ChannelEnds, WriteIcap, WriteIcapDone, WriteIcapFails, WriteLast
<1> QED
  BY <1>1, <1>2, <1>3, <1>4, <1>5, <1>6, Frames, Parties, Zenon DEF ClientCutOff, vars

(* So does the batch of the ICAP task.                                     *)
LEMMA TaskType ==
  ASSUME TypeOK, [Next]_vars
  PROVE  task' \in Tsk
<1>0. task \in Tsk /\ BatchSize \in Nat \ {0}
  BY Types, FtpUploadAssumption, Zenon
<1> USE DEF Tsk
<1>1. CASE UNCHANGED task
  BY <1>0, <1>1, Zenon
<1>2. CASE Start
  BY <1>0, <1>2, Zenon DEF Start
<1>a. /\ 0 \in 0..(BatchSize - 1) /\ 0 \in 0..BatchSize
      /\ task.buf \in 0..BatchSize /\ task.buf + 1 \in 0..BatchSize
      /\ task.buf + 1 < BatchSize => task.buf + 1 \in 0..(BatchSize - 1)
  BY <1>0
<1>3. CASE TakeChunk
  <2>1. \/ task' = [task EXCEPT !.pc = "write", !.buf = 0, !.out = task.buf + 1]
        \/ task.buf + 1 < BatchSize /\ task' = [task EXCEPT !.buf = @ + 1]
    BY <1>0, <1>3 DEF TakeChunk
  <2>2. CASE task' = [task EXCEPT !.pc = "write", !.buf = 0, !.out = task.buf + 1]
    BY <1>0, <1>a, <2>2, Zenon
  <2>3. CASE task.buf + 1 < BatchSize /\ task' = [task EXCEPT !.buf = @ + 1]
    BY <1>0, <1>a, <2>3, Zenon
  <2> QED
    BY <2>1, <2>2, <2>3, Zenon
<1>4. CASE Drain
  <2>1. \/ task' = [task EXCEPT !.closed = TRUE]
        \/ \E b \in BOOLEAN : task' = [task EXCEPT !.head = b]
    BY <1>0, <1>4, Zenon DEF Drain
  <2> QED
    BY <1>0, <2>1, Zenon
<1>5. CASE ChannelEnds
  BY <1>0, <1>a, <1>5, Zenon DEF ChannelEnds
<1>6. CASE WriteIcap
  BY <1>0, <1>6, SMTT(60) DEF WriteIcap
<1>7. CASE WriteIcapDone \/ WriteIcapFails \/ WriteLast
  <2>1. \E c \in {"select", "failed", "done"} :
          task' = [task EXCEPT !.pc = c] \/ task' = [task EXCEPT !.pc = c, !.out = 0]
    BY <1>7, Zenon DEF WriteIcapDone, WriteIcapFails, WriteLast
  <2> QED
    BY <1>0, <1>a, <2>1, Zenon
<1>8. Relay => Start \/ UNCHANGED task
  BY Zenon DEF Relay, AskOptions, ReadChunk, WriteUpstream, WriteUpstreamFails, SendChunk,
         ChannelClosed, ReadEnds, IdleTick, Stop
<1> QED
  BY <1>1, <1>2, <1>3, <1>4, <1>5, <1>6, <1>7, <1>8, Frames, Parties, Zenon
  DEF IcapTask, ClientCutOff, vars

(* The ICAP server reads no more than the file.                            *)
LEMMA SrvType ==
  ASSUME TypeOK, TaskOK, LastOK, ChunksOK, [Next]_vars
  PROVE  srv' \in Srv
<1>0. /\ srv \in Srv /\ relay \in Rly /\ chan \in Chn /\ task \in Tsk
      /\ toSrv \in Seq(Sent)
      /\ FileSize \in Nat /\ ChannelSize \in Nat \ {0} /\ BatchSize \in Nat \ {0}
  BY Types, FtpUploadAssumption, Zenon DEF Sent
<1> USE DEF Srv
<1>1. CASE UNCHANGED srv
  BY <1>0, <1>1, Zenon
<1>2. CASE ServerAnswers
  <2>1. PICK a \in Answers :
          srv' = [srv EXCEPT !.ans = a, !.owe = IF a = "body" THEN 1 ELSE 0]
    BY <1>2, Zenon DEF ServerAnswers, Answers
  <2>2. (IF a = "body" THEN 1 ELSE 0) \in 0..1
    OBVIOUS
  <2> QED
    BY <1>0, <2>1, <2>2, Zenon
<1>3. CASE ServerSendsBody
  BY <1>0, <1>3, SMTT(30) DEF ServerSendsBody
<1>4. CASE ServerDies
  BY <1>0, <1>4, Zenon DEF ServerDies
<1>5. CASE ServerReads
  <2>1. CASE Head(toSrv) = "last"
    BY <1>0, <1>5, <2>1, Zenon DEF ServerReads
  <2>2. CASE Head(toSrv) # "last"
    <3>1. toSrv # <<>> /\ srv.up /\ task.pc # "none"
      BY <1>5, Zenon DEF ServerReads, TaskOK
    <3>2. Len(toSrv) \in Nat /\ Len(toSrv) >= 1 /\ toSrv[1] # "last"
      BY <1>0, <2>2, <3>1, Socket
    <3>3. ChunksIn(toSrv) \in Nat /\ ChunksIn(toSrv) >= 1
      BY <3>2 DEF ChunksIn, Closed
    <3>4. /\ srv.got \in Nat /\ task.out \in Nat /\ task.buf \in Nat /\ chan.n \in Nat
          /\ relay.ups \in 0..FileSize /\ Hand("send") \in {0, 1}
      BY <1>0 DEF Hand, Rly, Chn, Tsk
    <3>5. relay.ups = srv.got + ChunksIn(toSrv) + task.out + task.buf + chan.n + Hand("send")
      BY <3>1, Zenon DEF ChunksOK
    <3>6. srv.got + 1 \in 0..FileSize
      <4>1. FileSize \in Nat
        BY <1>0, Zenon
      <4> QED
        BY <3>3, <3>4, <3>5, <4>1
    <3>7. srv' = [srv EXCEPT !.got = @ + 1,
                             !.owe = IF srv.kind = "echoes" THEN 1 ELSE @]
      BY <1>5, <2>2, Zenon DEF ServerReads
    <3>8. (IF srv.kind = "echoes" THEN 1 ELSE srv.owe) \in 0..1
      BY <1>0
    <3> QED
      BY <1>0, <3>6, <3>7, <3>8, Zenon
  <2> QED
    BY <2>1, <2>2, Zenon
<1> QED
  BY <1>1, <1>2, <1>3, <1>4, <1>5, Frames, Parties, Zenon DEF Server, ClientCutOff, vars

(* The background task is at one of its points.                            *)
LEMMA BackType ==
  ASSUME TypeOK, [Next]_vars
  PROVE  back' \in {"none", "join", "parse", "drain", "saved", "dropped"}
<1>0. back \in {"none", "join", "parse", "drain", "saved", "dropped"}
  BY Types, Zenon
<1>1. Relay => back' = back \/ back' = "join"
  BY Zenon DEF Relay, AskOptions, Start, ReadChunk, WriteUpstream, WriteUpstreamFails, SendChunk,
         ChannelClosed, ReadEnds, IdleTick, Stop
<1>2. Background => back' \in {"parse", "drain", "saved", "dropped"}
  BY Zenon DEF Background, Join, Parse, AfterHead, DrainRest, BackTimeout, BackTo
<1> QED
  BY <1>0, <1>1, <1>2, Frames, Parties, Zenon DEF ClientCutOff, vars

-----------------------------------------------------------------------------
(* The invariant holds before the upload starts.                           *)
LEMMA IInvInit == Init => IInv
<1> SUFFICES ASSUME Init PROVE IInv
  BY Zenon
<1>0. /\ FileSize \in Nat /\ ChannelSize \in Nat \ {0} /\ BatchSize \in Nat \ {0}
      /\ SocketSize \in Nat \ {0} /\ MaxIdleCount \in Nat \ {0}
  BY FtpUploadAssumption, Zenon
<1>1. TypeOK
  <2>1. clt \in Clt /\ relay \in Rly /\ chan \in Chn
    BY <1>0, SMTT(30) DEF Init, Clt, Rly, Chn
  <2>2. task \in Tsk
    BY <1>0 DEF Init, Tsk
  <2>3. srv \in Srv
    <3>1. srv \in [kind: Servers, up: {TRUE}, got: {0}, last: {FALSE},
                   ans: {"none"}, owe: {0}]
      BY Zenon DEF Init
    <3>2. 0 \in 0..FileSize /\ 0 \in 0..1 /\ "none" \in Answers
      BY <1>0 DEF Answers
    <3> QED
      BY <3>1, <3>2, Zenon DEF Srv
  <2>4. /\ toSrv \in Seq({"chunk", "last"}) /\ Len(toSrv) <= SocketSize
        /\ toUs \in Seq({"head", "body"}) /\ Len(toUs) <= SocketSize
    BY <1>0 DEF Init
  <2> QED
    BY <2>1, <2>2, <2>3, <2>4, Types, Zenon DEF Init
<1>2. FileOK /\ StopOK
  BY <1>0 DEF Init, FileOK, StopOK, Hand
<1>3. TaskOK
  BY Zenon DEF Init, TaskOK, NotBegun
<1>4. BufferOK /\ LastOK /\ ChunksOK
  BY DEF Init, BufferOK, LastOK, ChunksOK
<1>5. AnswerOK /\ BackOK
  BY Zenon DEF Init, AnswerOK, BackOK
<1> QED
  BY <1>1, <1>2, <1>3, <1>4, <1>5, Zenon DEF IInv

(* Every step keeps the invariant.                                         *)
LEMMA IInvNext == IInv /\ [Next]_vars => IInv'
<1> SUFFICES ASSUME IInv, [Next]_vars PROVE IInv'
  BY Zenon
<1>1. TypeOK /\ FileOK /\ StopOK /\ TaskOK /\ BufferOK
      /\ LastOK /\ ChunksOK /\ AnswerOK /\ BackOK
  BY Zenon DEF IInv
<1>2. FileOK' /\ StopOK' /\ TaskOK' /\ BufferOK' /\ LastOK'
  BY <1>1, FileNext, StopNext, TaskNext, BufferNext, LastNext, Zenon
<1>3. ChunksOK' /\ AnswerOK' /\ BackOK'
  BY <1>1, <1>2, ChunksNext, AnswerNext, BackNext, Zenon
<1>4. TypeOK <=> /\ clt \in Clt /\ relay \in Rly /\ chan \in Chn /\ task \in Tsk
                 /\ srv \in Srv
                 /\ toSrv \in Seq({"chunk", "last"}) /\ Len(toSrv) <= SocketSize
                 /\ toUs \in Seq({"head", "body"}) /\ Len(toUs) <= SocketSize
                 /\ back \in {"none", "join", "parse", "drain", "saved", "dropped"}
  BY Types, Zenon
<1>5. TypeOK'
  <2>1. clt' \in Clt /\ relay' \in Rly /\ chan' \in Chn /\ task' \in Tsk /\ srv' \in Srv
    BY <1>1, RelayTypes, ChanType, TaskType, SrvType, Zenon
  <2>2. back' \in {"none", "join", "parse", "drain", "saved", "dropped"}
    BY <1>1, BackType, Zenon
  <2>3. /\ toSrv' \in Seq({"chunk", "last"}) /\ Len(toSrv') <= SocketSize
        /\ toUs' \in Seq({"head", "body"}) /\ Len(toUs') <= SocketSize
    BY <1>1, SocketsNext, Zenon DEF Sent
  <2> QED
    BY <2>1, <2>2, <2>3, Zenon DEF TypeOK, Clt, Rly, Chn, Tsk, Srv
<1> QED
  BY <1>2, <1>3, <1>5, Zenon DEF IInv

(* The invariant holds throughout.                                         *)
LEMMA IInvAlways == Spec => []IInv
BY IInvInit, IInvNext, PTL DEF Spec

(* An upload that ends without a fault of the client, the FTP server or    *)
(* the idle limit is whole, whatever the ICAP server does and whenever it  *)
(* dies (audit_and_forward), for every file and all sizes.                 *)
THEOREM UploadAlwaysWhole == Spec => []UploadWhole
<1>1. IInv => UploadWhole
  <2> SUFFICES ASSUME IInv PROVE UploadWhole
    BY Zenon
  <2>1. relay \in Rly /\ clt \in Clt /\ FileSize \in Nat /\ MaxIdleCount \in Nat
    BY Types, FtpUploadAssumption, Zenon DEF IInv
  <2> QED
    BY <2>1 DEF IInv, FileOK, StopOK, Hand, UploadWhole, Rly, Clt
<1> QED
  BY <1>1, IInvAlways, PTL

(* The ICAP server, while it lives, is on the way to get every chunk that  *)
(* the FTP server was given, once, and no channel, batch or socket between *)
(* them is overfull (run_relay_loop), for all their sizes.                 *)
THEOREM AuditAlwaysConserved == Spec => []AuditConserved
<1>1. IInv => AuditConserved
  <2> SUFFICES ASSUME IInv PROVE AuditConserved
    BY Zenon
  <2>1. TypeOK /\ TaskOK /\ ChunksOK
    BY Zenon DEF IInv
  <2>2. ASSUME relay.mode = "audit", srv.up
        PROVE  relay.ups = srv.got + ChunksIn(toSrv) + task.out + task.buf + chan.n
                             + (IF relay.pc = "send" THEN 1 ELSE 0)
    <3>1. CASE task.pc # "none"
      BY <2>1, <2>2, <3>1, Zenon DEF ChunksOK, Hand
    <3>2. CASE task.pc = "none"
      <4>1. /\ NotBegun /\ chan.n = 0 /\ task.buf = 0 /\ task.out = 0
            /\ srv.got = 0 /\ toSrv = <<>> /\ relay.ups = 0
        BY <2>1, <2>2, <3>2, Zenon DEF TaskOK
      <4>3. ChunksIn(toSrv) = 0
        BY <4>1, Zenon DEF ChunksIn, Closed
      <4> QED
        BY <4>1, <4>3 DEF NotBegun
    <3> QED
      BY <3>1, <3>2, Zenon
  <2>3. \A i \in DOMAIN toSrv : toSrv[i] = "last" => i = Len(toSrv)
    BY <2>1, SMTT(30) DEF IInv, LastOK, TypeOK
  <2> QED
    BY <2>1, <2>2, <2>3, Zenon DEF AuditConserved
<1> QED
  BY <1>1, IInvAlways, PTL

(* A connection goes back to the pool only with a whole request and with   *)
(* no part of an answer left (the background task), for all sizes.         *)
THEOREM AlwaysSavedClean == Spec => []SavedClean
<1>1. IInv => SavedClean
  BY Zenon DEF IInv, LastOK, AnswerOK, BackOK, SavedClean
<1> QED
  BY <1>1, IInvAlways, PTL
-----------------------------------------------------------------------------
(* Which uploads through CONNECT tunnels are audited, and as what.         *)

Infos == [name : Names \cup {"none"}, age : 0 .. MaxTime]
Taken == {x \in Infos : x.age < Ttl}
Marks == [name : Names, at : 0 .. MaxTime, by : Sessions \X (1 .. MaxTransfers)]
Fatal == {"none", "queued", "merged", "full", "gone", "unseen"}
Channels == [st : {"none", "open", "inspect", "pending", "audit", "transit"}, info : Taken]
Partners == [pc : {"new", "idle", "asked", "marked", "go", "done"}, kind : {"stor", "retr"},
            name : Names \cup {"none"}, n : 0 .. MaxTransfers]

\* What the marks were made with is in the past.
ClockOK == now \in 0 .. MaxTime /\ domain \in {Never} \cup 0 .. MaxTime
MarksOK ==
  /\ marks \in Seq(Marks) /\ Len(marks) <= MaxPending
  /\ \A i \in DOMAIN marks : marks[i].at <= now

\* A transfer under way has a number, an upload a name.
SesOK ==
  /\ ses \in [Sessions -> Partners]
  /\ \A s \in Sessions : ses[s].pc = "asked" =>
       ses[s].n > 0 /\ (ses[s].kind = "stor" => ses[s].name \in Names)

\* A data channel that is audited has taken a mark, one that looks again carries
\* an upload.
DataOK ==
  /\ data \in [Sessions -> Channels] /\ res \in [Sessions -> Taken]
  /\ \A s \in Sessions : /\ data[s].st = "audit" => data[s].info # None
                         /\ data[s].st = "pending" => ses[s].pc = "go"

\* From its mark on something is known of an upload, and of one that was not
\* audited that its mark has gone or its data was passed through.
Known(s) ==
  /\ ses[s].pc \in {"marked", "go", "done"} /\ ses[s].kind = "stor" => fate[s] # "none"
  /\ ses[s].pc = "done" /\ ses[s].kind = "stor" /\ res[s] = None
       => fate[s] \in {"merged", "full", "gone", "unseen"}
FatesOK == fate \in [Sessions -> Fatal] /\ \A s \in Sessions : Known(s)

TunnelInv == ClockOK /\ MarksOK /\ SesOK /\ DataOK /\ FatesOK
-----------------------------------------------------------------------------
(* The queue of marks.                                                     *)

(* A set of positions has a first.                                         *)
LEMMA First ==
  ASSUME NEW S, S \subseteq Nat, S # {}
  PROVE  \E i \in S : \A j \in S : i <= j
<1> DEFINE R == OpToRel(<, Nat)
<1>1. IsWellFoundedOn(R, Nat)
  BY NatLessThanWellFounded, Zenon
<1>2. \A x, y \in Nat : ~(<<x, y>> \in R) => y <= x
  BY DEF OpToRel
<1> HIDE DEF R
<1>3. PICK x \in S : \A y \in S : ~(<<y, x>> \in R)
  BY <1>1, WFMin, Zenon
<1>4. \A y \in S : x \in Nat /\ y \in Nat
  BY Zenon
<1> QED
  BY <1>2, <1>3, <1>4, Zenon

(* What is left of a queue after the expired marks at its front: a part of *)
(* it that begins with a fresh mark (FtpUploadState::consume_upload).      *)
LEMMA TrimmedPart ==
  ASSUME NEW q \in Seq(Marks)
  PROVE  /\ Trimmed(q) \in Seq(Marks) /\ Len(Trimmed(q)) <= Len(q)
         /\ \A i \in DOMAIN Trimmed(q) : \E j \in DOMAIN q : Trimmed(q)[i] = q[j]
         /\ Trimmed(q) # <<>> => Fresh(Trimmed(q)[1].at)
<1> DEFINE fresh == {i \in DOMAIN q : Fresh(q[i].at)}
           first == IF fresh = {} THEN Len(q) + 1
                    ELSE CHOOSE i \in fresh : \A j \in fresh : i <= j
<1>1. Trimmed(q) = SubSeq(q, first, Len(q))
  BY Zenon DEF Trimmed
<1>2. Len(q) \in Nat /\ DOMAIN q = 1 .. Len(q)
  OBVIOUS
<1>3. first \in 1 .. Len(q) + 1 /\ (first # Len(q) + 1 => first \in fresh)
  <2>1. CASE fresh = {}
    BY <1>2, <2>1
  <2>2. CASE fresh # {}
    <3>1. fresh \subseteq Nat
      BY <1>2
    <3>2. \E i \in fresh : \A j \in fresh : i <= j
      BY <2>2, <3>1, First, Zenon
    <3>3. first \in fresh
      BY <2>2, <3>2, Zenon
    <3> QED
      BY <1>2, <3>3
  <2> QED
    BY <2>1, <2>2, Zenon
<1>4. first \in fresh => Fresh(q[first].at)
  BY Zenon
<1> HIDE DEF first, fresh
<1> DEFINE w == SubSeq(q, first, Len(q))
<1>5. /\ w \in Seq(Marks) /\ Len(w) = Len(q) - first + 1
      /\ DOMAIN w = 1 .. Len(w) /\ \A i \in 1 .. Len(w) : w[i] = q[first + i - 1]
  BY <1>2, <1>3
<1> HIDE DEF w
<1>6. \A i \in 1 .. Len(w) : first + i - 1 \in 1 .. Len(q)
  BY <1>2, <1>3, <1>5
<1>7. \A i \in DOMAIN w : \E j \in DOMAIN q : w[i] = q[j]
  BY <1>2, <1>5, <1>6, Zenon
<1>8. w # <<>> => Len(w) >= 1
  BY <1>5
<1>9. Len(w) >= 1 => first # Len(q) + 1 /\ 1 \in 1 .. Len(w) /\ first + 1 - 1 = first
  BY <1>2, <1>3, <1>5
<1>10. w # <<>> => w[1] = q[first] /\ first \in fresh
  BY <1>3, <1>5, <1>8, <1>9
<1>11. Len(w) <= Len(q)
  BY <1>2, <1>3, <1>5
<1> QED
  BY <1>1, <1>4, <1>5, <1>7, <1>10, <1>11, Zenon DEF w

(* A queue of marks of the past within its limit.                          *)
Queue(q) ==
  /\ q \in Seq(Marks) /\ Len(q) <= MaxPending
  /\ \A i \in DOMAIN q : q[i].at <= now

(* The cleanup at the end of an operation, due or not.                     *)
LEMMA LeaveEffect ==
  ASSUME ClockOK, NEW q, Queue(q), NEW f \in [Sessions -> Fatal], Leave(q, f), now' = now
  PROVE  /\ MarksOK'
         /\ fate' \in [Sessions -> Fatal]
         /\ \A s \in Sessions : fate'[s] = f[s] \/ (f[s] = "queued" /\ fate'[s] = "gone")
         /\ q = <<>> => \A s \in Sessions : fate'[s] # "queued"
<1>1. PICK c \in {q, Trimmed(q)} : marks' = c /\ fate' = Fates(c, f)
  BY Zenon DEF Leave
<1>2. q \in Seq(Marks) /\ Len(q) \in Nat /\ Len(Trimmed(q)) \in Nat
  BY TrimmedPart DEF Queue
<1>3. Queue(c)
  <2>1. CASE c = q
    BY <2>1, Zenon
  <2>2. CASE c = Trimmed(q)
    <3>1. Len(c) <= MaxPending
      BY <1>2, <2>2, TrimmedPart, FtpTunnelAssumption DEF Queue
    <3> QED
      BY <1>2, <2>2, <3>1, TrimmedPart, Zenon DEF Queue
  <2> QED
    BY <1>1, <2>1, <2>2, Zenon
<1>4. MarksOK'
  BY <1>1, <1>3, Zenon DEF MarksOK, Queue
<1>5. q = <<>> => c = <<>>
  <2> SUFFICES ASSUME q = <<>> PROVE Trimmed(q) = <<>>
    BY <1>1, Zenon
  <2>1. Len(Trimmed(q)) <= 0 /\ Trimmed(q) \in Seq(Marks)
    BY <1>2, TrimmedPart, Zenon
  <2> QED
    BY <2>1
<1>6. \A s \in Sessions : fate'[s] =
        IF f[s] = "queued" /\ \A i \in DOMAIN c : c[i].by # Own(s) THEN "gone" ELSE f[s]
  BY <1>1, Zenon DEF Fates
<1>7. fate' \in [Sessions -> Fatal]
  BY <1>1, Zenon DEF Fates, Fatal
<1>8. q = <<>> => \A i \in DOMAIN c : FALSE
  BY <1>5
<1> QED
  BY <1>4, <1>6, <1>7, <1>8, Zenon

(* Nothing is an info, of age 0.                                           *)
LEMMA NoneTaken == None \in Taken
BY FtpTunnelAssumption DEF None, Taken, Infos

(* What happens to the fates of the other uploads.                         *)
Aged(f) == \A s \in Sessions : fate'[s] = f[s] \/ (f[s] = "queued" /\ fate'[s] = "gone")

(* Taking a mark: it is fresh, and without one nobody's mark is left       *)
(* (FtpUploadState::consume_upload).                                       *)
LEMMA ConsumeEffect ==
  ASSUME ClockOK, MarksOK, fate \in [Sessions -> Fatal], Consume, now' = now
  PROVE  /\ MarksOK' /\ fate' \in [Sessions -> Fatal] /\ Aged(fate)
         /\ Oldest \in Taken
         /\ Oldest = None => \A s \in Sessions : fate'[s] # "queued"
<1> DEFINE q == Trimmed(marks)
           t == IF q = <<>> THEN q ELSE Tail(q)
<1>1. Leave(t, fate)
  BY Zenon DEF Consume
<1>2. /\ q \in Seq(Marks) /\ Len(q) <= Len(marks) /\ Len(q) \in Nat
      /\ \A i \in DOMAIN q : \E j \in DOMAIN marks : q[i] = marks[j]
      /\ q # <<>> => Fresh(q[1].at)
  BY TrimmedPart DEF MarksOK
<1>3. /\ \A i \in DOMAIN q : q[i].at <= now
      /\ Len(marks) <= MaxPending /\ Len(marks) \in Nat
  BY <1>2 DEF MarksOK
<1> HIDE DEF q
<1>4. Queue(t)
  <2>1. CASE q = <<>>
    BY <1>2, <1>3, <2>1, FtpTunnelAssumption DEF Queue
  <2>2. CASE q # <<>>
    <3> DEFINE w == Tail(q)
    <3>1. /\ w \in Seq(Marks) /\ Len(w) = Len(q) - 1 /\ DOMAIN w = 1 .. Len(w)
          /\ \A i \in 1 .. Len(w) : w[i] = q[i + 1]
          /\ DOMAIN q = 1 .. Len(q)
      BY <1>2, <2>2
    <3> HIDE DEF w
    <3>2. \A i \in 1 .. Len(w) : i + 1 \in 1 .. Len(q)
      BY <1>2, <3>1
    <3>3. Len(w) <= MaxPending
      BY <1>2, <1>3, <3>1, FtpTunnelAssumption
    <3>4. \A i \in DOMAIN w : w[i].at <= now
      BY <1>3, <3>1, <3>2, Zenon
    <3>5. t = w
      BY <2>2, Zenon DEF w
    <3> QED
      BY <3>1, <3>3, <3>4, <3>5, Zenon DEF Queue
  <2> QED
    BY <2>1, <2>2, Zenon
<1>5. Oldest = Info(q)
  BY Zenon DEF Oldest, q
<1>6. CASE q = <<>>
  <2>1. t = <<>> /\ Oldest = None
    BY <1>5, <1>6, Zenon DEF Info
  <2> HIDE DEF t
  <2> QED
    BY <1>1, <1>4, <2>1, LeaveEffect, NoneTaken, Zenon DEF Aged
<1>7. CASE q # <<>>
  <2>1. 1 \in DOMAIN q /\ q[1] \in Marks
    BY <1>2, <1>7
  <2>2. Oldest = [name |-> q[1].name, age |-> now - q[1].at]
    BY <1>5, <1>7, Zenon DEF Info
  <2>3. q[1].name \in Names /\ q[1].at \in 0 .. MaxTime /\ q[1].at <= now /\ now - q[1].at < Ttl
    BY <1>2, <1>3, <1>7, <2>1, Zenon DEF Marks, Fresh
  <2>4. now - q[1].at \in 0 .. MaxTime
    BY <2>3, FtpTunnelAssumption DEF ClockOK
  <2>5. Oldest # None
    BY <2>2, <2>3, FtpTunnelAssumption, Zenon DEF None
  <2>6. Oldest \in Taken
    BY <2>2, <2>3, <2>4, Zenon DEF Taken, Infos
  <2> HIDE DEF t
  <2> QED
    BY <1>1, <1>4, <2>5, <2>6, LeaveEffect, Zenon DEF Aged
<1> QED
  BY <1>6, <1>7, Zenon

(* Making a mark: it is refreshed, dropped or queued, and this is known    *)
(* (FtpUploadState::mark_upload).                                          *)
LEMMA MarkEffect ==
  ASSUME ClockOK, MarksOK, SesOK, fate \in [Sessions -> Fatal], now' = now,
         NEW s \in Sessions, ses[s].pc = "asked", ses[s].kind = "stor", Mark(s)
  PROVE  /\ MarksOK' /\ fate' \in [Sessions -> Fatal] /\ fate'[s] # "none"
         /\ \A x \in Sessions \ {s} :
              fate'[x] = fate[x] \/ (fate[x] = "queued" /\ fate'[x] = "gone")
<1> DEFINE same == {i \in DOMAIN marks : marks[i].name = ses[s].name}
           m == [name |-> ses[s].name, at |-> now, by |-> Own(s)]
           f == [fate EXCEPT ![s] = "queued"]
<1>0. /\ marks \in Seq(Marks) /\ Len(marks) \in Nat /\ Len(marks) <= MaxPending
      /\ DOMAIN marks = 1 .. Len(marks) /\ \A i \in DOMAIN marks : marks[i] \in Marks
      /\ now \in Nat /\ now \in 0 .. MaxTime
  BY FtpTunnelAssumption DEF MarksOK, ClockOK
<1>1. CASE same # {}
  <2>1. /\ marks' = [i \in DOMAIN marks |->
                       IF i \in same THEN [marks[i] EXCEPT !.at = now] ELSE marks[i]]
        /\ fate' = [fate EXCEPT ![s] = "merged"]
    BY <1>1, Zenon DEF Mark
  <2> DEFINE w(i) == IF i \in same THEN [marks[i] EXCEPT !.at = now] ELSE marks[i]
  <2>2. ASSUME NEW i \in DOMAIN marks PROVE w(i) \in Marks /\ w(i).at <= now
    <3>1. CASE i \in same
      <4>1. marks[i] \in Marks
        BY <1>0, Zenon
      <4>2. [marks[i] EXCEPT !.at = now] \in Marks /\ [marks[i] EXCEPT !.at = now].at = now
        BY <1>0, <4>1, Zenon DEF Marks
      <4>3. now <= now
        BY <1>0
      <4> QED
        BY <3>1, <4>2, <4>3, Zenon
    <3>2. CASE i \notin same
      BY <1>0, <3>2, Zenon DEF MarksOK
    <3> QED
      BY <3>1, <3>2, Zenon
  <2>3. marks' = [i \in 1 .. Len(marks) |-> w(i)]
    BY <1>0, <2>1, Zenon
  <2> HIDE DEF w
  <2>4. marks' \in Seq(Marks) /\ Len(marks') = Len(marks)
    BY <1>0, <2>2, <2>3
  <2>5. DOMAIN marks' = DOMAIN marks /\ \A i \in DOMAIN marks : marks'[i] = w(i)
    BY <1>0, <2>3, Zenon
  <2>6. MarksOK'
    BY <1>0, <2>2, <2>4, <2>5, Zenon DEF MarksOK
  <2> QED
    BY <2>1, <2>6, Zenon DEF Fatal
<1>2. CASE same = {} /\ Len(marks) >= MaxPending
  <2>1. fate' = [fate EXCEPT ![s] = "full"] /\ marks' = marks
    BY <1>2, Zenon DEF Mark
  <2> QED
    BY <2>1, Zenon DEF Fatal, MarksOK
<1>3. CASE same = {} /\ ~(Len(marks) >= MaxPending)
  <2>1. Leave(Append(marks, m), f)
    BY <1>3, Zenon DEF Mark
  <2>2. m \in Marks /\ m.at = now
    <3>1. ses[s].name \in Names /\ ses[s].n \in 1 .. MaxTransfers
      BY FtpTunnelAssumption DEF SesOK, Partners
    <3> QED
      BY <1>0, <3>1, Zenon DEF Marks, Own
  <2>3. f \in [Sessions -> Fatal] /\ f[s] = "queued" /\ \A x \in Sessions \ {s} : f[x] = fate[x]
    BY Zenon DEF Fatal
  <2> HIDE DEF m, f
  <2>4. Queue(Append(marks, m))
    <3> DEFINE w == Append(marks, m)
    <3>1. /\ w \in Seq(Marks) /\ Len(w) = Len(marks) + 1 /\ DOMAIN w = 1 .. Len(w)
          /\ w[Len(marks) + 1] = m /\ \A i \in 1 .. Len(marks) : w[i] = marks[i]
      BY <1>0, <2>2
    <3> HIDE DEF w
    <3>2. Len(w) <= MaxPending
      BY <1>0, <1>3, <3>1, FtpTunnelAssumption
    <3>3. \A i \in DOMAIN w : i \in 1 .. Len(marks) \/ i = Len(marks) + 1
      BY <1>0, <3>1
    <3>4. now <= now
      BY <1>0
    <3>5. \A i \in DOMAIN w : w[i].at <= now
      BY <1>0, <2>2, <3>1, <3>3, <3>4, Zenon DEF MarksOK
    <3> QED
      BY <3>1, <3>2, <3>5, Zenon DEF Queue, w
  <2>5. /\ MarksOK' /\ fate' \in [Sessions -> Fatal]
        /\ \A x \in Sessions : fate'[x] = f[x] \/ (f[x] = "queued" /\ fate'[x] = "gone")
    BY <2>1, <2>3, <2>4, LeaveEffect, Zenon
  <2> QED
    BY <2>3, <2>5, Zenon
<1> QED
  BY <1>1, <1>2, <1>3, Zenon

-----------------------------------------------------------------------------
(* The steps.                                                              *)

(* The invariant, as far as it speaks of one session.                      *)
Fine(s) ==
  /\ ses[s].pc = "asked" => ses[s].n > 0 /\ (ses[s].kind = "stor" => ses[s].name \in Names)
  /\ data[s].st = "audit" => data[s].info # None
  /\ data[s].st = "pending" => ses[s].pc = "go"
  /\ Known(s)

Typed == /\ ses \in [Sessions -> Partners] /\ data \in [Sessions -> Channels]
         /\ res \in [Sessions -> Taken] /\ fate \in [Sessions -> Fatal]

(* What the invariant says of sessions, data channels and fates, session   *)
(* by session.                                                             *)
LEMMA ByFine == SesOK /\ DataOK /\ FatesOK <=> Typed /\ \A s \in Sessions : Fine(s)
BY Zenon DEF SesOK, DataOK, FatesOK, Typed, Fine

(* A step of one session leaves the others alone, but for marks of theirs  *)
(* that go.                                                                *)
LEMMA OthersFine ==
  ASSUME Typed, \A x \in Sessions : Fine(x), NEW s \in Sessions, Typed', Fine(s)',
         \A x \in Sessions \ {s} :
           /\ ses'[x] = ses[x] /\ data'[x] = data[x] /\ res'[x] = res[x]
           /\ fate'[x] = fate[x] \/ (fate[x] = "queued" /\ fate'[x] = "gone")
  PROVE  SesOK' /\ DataOK' /\ FatesOK'
<1>1. ASSUME NEW x \in Sessions, x # s PROVE Fine(x)'
  <2>1. Fine(x)
    BY Zenon
  <2>2. x \in Sessions \ {s}
    BY <1>1, Zenon
  <2>3. /\ ses'[x] = ses[x] /\ data'[x] = data[x] /\ res'[x] = res[x]
        /\ fate'[x] = fate[x] \/ (fate[x] = "queued" /\ fate'[x] = "gone")
    BY <2>2, Zenon
  <2> QED
    BY <2>1, <2>3, Zenon DEF Fine, Known
<1>2. Typed' /\ \A x \in Sessions : Fine(x)'
  BY <1>1, Zenon
<1> QED
  BY <1>2, Zenon DEF SesOK, DataOK, FatesOK, Typed, Fine

(* The invariant holds at the start.                                       *)
LEMMA TunnelInvInit == TunnelInit => TunnelInv
<1> SUFFICES ASSUME TunnelInit PROVE TunnelInv
  OBVIOUS
<1>1. ClockOK
  BY FtpTunnelAssumption DEF TunnelInit, ClockOK
<1>2. MarksOK
  BY FtpTunnelAssumption DEF TunnelInit, MarksOK
<1>3. /\ [pc |-> "new", kind |-> "stor", name |-> "none", n |-> 0] \in Partners
      /\ [st |-> "none", info |-> None] \in Channels
  BY FtpTunnelAssumption, NoneTaken DEF Partners, Channels
<1>4. Typed
  BY <1>3, NoneTaken, Zenon DEF TunnelInit, Typed, Fatal
<1>5. \A s \in Sessions : Fine(s)
  BY Zenon DEF TunnelInit, Fine, Known
<1> QED
  BY <1>1, <1>2, <1>4, <1>5, ByFine, Zenon DEF TunnelInv

(* Steps of the control channels.                                          *)
LEMMA ControlNext ==
  ASSUME TunnelInv, NEW s \in Sessions,
         \/ Control(s) \/ RelayMark(s) \/ TransferEnds(s)
         \/ \E f \in Names : ClientAsks(s, "stor", f)
         \/ ClientAsks(s, "retr", "none")
         \/ \E ok \in BOOLEAN : ServerReplies(s, ok)
  PROVE  TunnelInv'
<1>0. /\ ClockOK /\ MarksOK /\ Typed /\ \A x \in Sessions : Fine(x)
      /\ fate \in [Sessions -> Fatal] /\ ses[s] \in Partners /\ Queue(marks)
  BY ByFine, Zenon DEF TunnelInv, Typed, MarksOK, Queue
<1>1. CASE Control(s)
  <2>1. /\ ses[s].pc = "new" /\ ses' = [ses EXCEPT ![s].pc = "idle"]
        /\ domain' \in {now, domain} /\ now' = now /\ data' = data /\ res' = res
        /\ Leave(marks, fate) \/ (marks' = marks /\ fate' = fate)
    BY <1>1, Zenon DEF Control, SesTo
  <2>2. MarksOK' /\ fate' \in [Sessions -> Fatal] /\ Aged(fate)
    <3>1. CASE Leave(marks, fate)
      BY <1>0, <2>1, <3>1, LeaveEffect, Zenon DEF Aged
    <3>2. CASE marks' = marks /\ fate' = fate
      BY <1>0, <2>1, <3>2, Zenon DEF MarksOK, Aged
    <3> QED
      BY <2>1, <3>1, <3>2, Zenon
  <2>3. ClockOK'
    BY <1>0, <2>1, Zenon DEF ClockOK
  <2>4. [ses[s] EXCEPT !.pc = "idle"] \in Partners
    BY <1>0, Zenon DEF Partners
  <2>5. Typed'
    BY <1>0, <2>1, <2>2, <2>4, Zenon DEF Typed
  <2>6. ses'[s].pc = "idle"
    BY <1>0, <2>1, Zenon DEF Typed, Partners
  <2>7. Fine(s)'
    <3>1. Fine(s) /\ data' = data
      BY <1>0, <2>1, Zenon
    <3> QED
      BY <2>1, <2>6, <3>1, Zenon DEF Fine, Known
  <2>8. \A x \in Sessions \ {s} : ses'[x] = ses[x]
    BY <1>0, <2>1, Zenon DEF Typed
  <2>9. SesOK' /\ DataOK' /\ FatesOK'
    BY <1>0, <2>1, <2>2, <2>5, <2>7, <2>8, OthersFine, Zenon DEF Aged
  <2> QED
    BY <2>2, <2>3, <2>9, Zenon DEF TunnelInv
<1>2. CASE RelayMark(s)
  <2>1. /\ ses[s].pc = "asked" /\ ses' = [ses EXCEPT ![s].pc = "marked"]
        /\ now' = now /\ domain' = domain /\ data' = data /\ res' = res
        /\ IF ses[s].kind = "stor" THEN Mark(s) ELSE UNCHANGED <<marks, fate>>
    BY <1>2, Zenon DEF RelayMark, SesTo
  <2>2. /\ MarksOK' /\ fate' \in [Sessions -> Fatal]
        /\ ses[s].kind = "stor" => fate'[s] # "none"
        /\ \A x \in Sessions \ {s} :
              fate'[x] = fate[x] \/ (fate[x] = "queued" /\ fate'[x] = "gone")
    <3>1. CASE ses[s].kind = "stor"
      <4>1. SesOK
        BY Zenon DEF TunnelInv
      <4> QED
        BY <1>0, <2>1, <3>1, <4>1, MarkEffect, Zenon
    <3>2. CASE ses[s].kind # "stor"
      BY <1>0, <2>1, <3>2, Zenon DEF MarksOK
    <3> QED
      BY <3>1, <3>2, Zenon
  <2>3. ClockOK'
    BY <1>0, <2>1, Zenon DEF ClockOK
  <2>4. [ses[s] EXCEPT !.pc = "marked"] \in Partners
    BY <1>0, Zenon DEF Partners
  <2>5. Typed'
    BY <1>0, <2>1, <2>2, <2>4, Zenon DEF Typed
  <2>6. ses'[s].pc = "marked" /\ ses'[s].kind = ses[s].kind
    BY <1>0, <2>1, Zenon DEF Typed, Partners
  <2>7. Fine(s)'
    <3>1. Fine(s) /\ data' = data
      BY <1>0, <2>1, Zenon
    <3> QED
      BY <2>1, <2>2, <2>6, <3>1, Zenon DEF Fine, Known
  <2>8. \A x \in Sessions \ {s} : ses'[x] = ses[x]
    BY <1>0, <2>1, Zenon DEF Typed
  <2>9. SesOK' /\ DataOK' /\ FatesOK'
    BY <1>0, <2>1, <2>2, <2>5, <2>7, <2>8, OthersFine, Zenon
  <2> QED
    BY <2>2, <2>3, <2>9, Zenon DEF TunnelInv
<1>3. CASE TransferEnds(s)
  <2>1. /\ ses[s].pc = "done" /\ ses' = [ses EXCEPT ![s].pc = "idle"]
        /\ UNCHANGED <<now, marks, domain, data, res, fate>>
    BY <1>3, Zenon DEF TransferEnds, SesTo
  <2>2. [ses[s] EXCEPT !.pc = "idle"] \in Partners
    BY <1>0, Zenon DEF Partners
  <2>3. Typed'
    BY <1>0, <2>1, <2>2, Zenon DEF Typed
  <2>4. ses'[s].pc = "idle"
    BY <1>0, <2>1, Zenon DEF Typed, Partners
  <2>5. Fine(s)'
    <3>1. Fine(s)
      BY <1>0, Zenon
    <3> QED
      BY <2>1, <2>4, <3>1, Zenon DEF Fine, Known
  <2>6. \A x \in Sessions \ {s} : ses'[x] = ses[x]
    BY <1>0, <2>1, Zenon DEF Typed
  <2>7. SesOK' /\ DataOK' /\ FatesOK'
    BY <1>0, <2>1, <2>3, <2>5, <2>6, OthersFine, Zenon
  <2> QED
    BY <1>0, <2>1, <2>7, Zenon DEF TunnelInv, ClockOK, MarksOK
<1>4. ASSUME NEW k \in {"stor", "retr"}, NEW f \in Names \cup {"none"},
             k = "stor" => f \in Names, ClientAsks(s, k, f)
      PROVE  TunnelInv'
  <2> DEFINE p == [pc |-> "asked", kind |-> k, name |-> f, n |-> ses[s].n + 1]
  <2>1. /\ ses[s].pc = "idle" /\ ses[s].n < MaxTransfers /\ ses' = [ses EXCEPT ![s] = p]
        /\ res' = [res EXCEPT ![s] = None] /\ fate' = [fate EXCEPT ![s] = "none"]
        /\ UNCHANGED <<now, marks, domain, data>>
    BY <1>4, Zenon DEF ClientAsks
  <2>2. ses[s].n + 1 \in 0 .. MaxTransfers /\ ses[s].n + 1 > 0
    BY <1>0, <2>1, FtpTunnelAssumption DEF Partners
  <2>3. /\ p \in Partners /\ p.pc = "asked" /\ p.kind = k /\ p.name = f
        /\ p.n = ses[s].n + 1
    BY <2>2, Zenon DEF Partners
  <2> HIDE DEF p
  <2>4. Typed'
    BY <1>0, <2>1, <2>3, NoneTaken, Zenon DEF Typed, Fatal
  <2>5. ses'[s] = p /\ data'[s] = data[s]
    BY <1>0, <2>1, Zenon DEF Typed
  <2>6. Fine(s)'
    <3>1. Fine(s) /\ ses[s].pc # "go"
      BY <1>0, <2>1, Zenon
    <3> QED
      BY <1>4, <2>2, <2>3, <2>5, <3>1, Zenon DEF Fine, Known
  <2>7. \A x \in Sessions \ {s} : ses'[x] = ses[x] /\ res'[x] = res[x] /\ fate'[x] = fate[x]
    BY <1>0, <2>1, Zenon DEF Typed
  <2>8. SesOK' /\ DataOK' /\ FatesOK'
    BY <1>0, <2>1, <2>4, <2>6, <2>7, OthersFine, Zenon
  <2> QED
    BY <1>0, <2>1, <2>8, Zenon DEF TunnelInv, ClockOK, MarksOK
<1>5. ASSUME NEW ok \in BOOLEAN, ServerReplies(s, ok) PROVE TunnelInv'
  <2> DEFINE pc1 == IF ok THEN "go" ELSE "idle"
             d == [st |-> "none", info |-> None]
  <2>1. /\ ses[s].pc = "marked" /\ ses' = [ses EXCEPT ![s].pc = pc1]
        /\ data' = IF ok THEN data ELSE [data EXCEPT ![s] = d]
        /\ UNCHANGED <<now, marks, domain, res, fate>>
    BY <1>5, Zenon DEF ServerReplies, SesTo
  <2>2. [ses[s] EXCEPT !.pc = pc1] \in Partners /\ d \in Channels
    BY <1>0, NoneTaken, Zenon DEF Partners, Channels
  <2>3. d.st = "none" /\ pc1 \in {"go", "idle"} /\ (pc1 = "idle" => ~ok)
    BY Zenon
  <2> HIDE DEF d, pc1
  <2>4. Typed'
    BY <1>0, <2>1, <2>2, Zenon DEF Typed
  <2>5. ses'[s].pc = pc1 /\ ses'[s].kind = ses[s].kind
    BY <1>0, <2>1, Zenon DEF Typed, Partners
  <2>6. ok => data'[s] = data[s]
    BY <2>1, Zenon
  <2>7. ~ok => data'[s] = d
    BY <1>0, <2>1, Zenon DEF Typed
  <2>8. Fine(s)'
    <3>1. Fine(s)
      BY <1>0, Zenon
    <3>2. Known(s)'
      BY <2>1, <2>3, <2>5, <3>1, Zenon DEF Fine, Known
    <3>3. ses'[s].pc # "asked"
      BY <2>3, <2>5, Zenon
    <3>4. /\ data'[s].st = "audit" => data'[s].info # None
          /\ data'[s].st = "pending" => ses'[s].pc = "go"
      <4>1. CASE ok
        BY <2>1, <2>6, <3>1, <4>1, Zenon DEF Fine
      <4>2. CASE ~ok
        BY <2>3, <2>7, <4>2, Zenon
      <4> QED
        BY <4>1, <4>2, Zenon
    <3> QED
      BY <3>2, <3>3, <3>4, Zenon DEF Fine
  <2>9. \A x \in Sessions \ {s} : ses'[x] = ses[x] /\ data'[x] = data[x]
    BY <1>0, <2>1, Zenon DEF Typed
  <2>10. SesOK' /\ DataOK' /\ FatesOK'
    BY <1>0, <2>1, <2>4, <2>8, <2>9, OthersFine, Zenon
  <2> QED
    BY <1>0, <2>1, <2>10, Zenon DEF TunnelInv, ClockOK, MarksOK
<1> QED
  BY <1>1, <1>2, <1>3, <1>4, <1>5, Zenon

(* The data channel learns what it is audited as.                          *)
LEMMA SettleFine ==
  ASSUME TunnelInv, NEW s \in Sessions, NEW info \in Taken, Settle(s, info), ses[s].pc = "go",
         ClockOK', MarksOK', fate' \in [Sessions -> Fatal],
         Aged(fate) \/ fate' = [fate EXCEPT ![s] = "unseen"],
         info = None => fate'[s] # "queued"
  PROVE  TunnelInv'
<1> DEFINE d == [st |-> "none", info |-> None]
<1>0. Typed /\ (\A x \in Sessions : Fine(x)) /\ ses[s] \in Partners
  BY ByFine, Zenon DEF TunnelInv, Typed
<1>1. /\ res' = [res EXCEPT ![s] = info] /\ ses' = [ses EXCEPT ![s].pc = "done"]
      /\ data' = [data EXCEPT ![s] = d]
  BY Zenon DEF Settle, SesTo
<1>2. [ses[s] EXCEPT !.pc = "done"] \in Partners /\ d \in Channels /\ d.st = "none"
  BY <1>0, NoneTaken, Zenon DEF Partners, Channels
<1> HIDE DEF d
<1>3. Typed'
  BY <1>0, <1>1, <1>2, Zenon DEF Typed
<1>4. /\ ses'[s].pc = "done" /\ ses'[s].kind = ses[s].kind
      /\ data'[s] = d /\ res'[s] = info
  BY <1>0, <1>1, Zenon DEF Typed, Partners
<1>5. Known(s)'
  <2>1. ses[s].kind = "stor" => fate[s] # "none"
    BY <1>0, Zenon DEF Fine, Known
  <2>2. fate'[s] = fate[s] \/ fate'[s] \in {"gone", "unseen"}
    BY <1>0, Zenon DEF Aged, Typed
  <2>3. ses[s].kind = "stor" => fate'[s] # "none"
    BY <2>1, <2>2, Zenon
  <2>4. fate'[s] \in Fatal
    BY Zenon
  <2> QED
    BY <1>4, <2>3, <2>4, Zenon DEF Known, Fatal
<1>6. Fine(s)'
  BY <1>2, <1>4, <1>5, Zenon DEF Fine
<1>7. \A x \in Sessions \ {s} : ses'[x] = ses[x] /\ data'[x] = data[x] /\ res'[x] = res[x]
  BY <1>0, <1>1, Zenon DEF Typed
<1>8. \A x \in Sessions \ {s} :
        fate'[x] = fate[x] \/ (fate[x] = "queued" /\ fate'[x] = "gone")
  BY <1>0, Zenon DEF Aged, Typed
<1>9. SesOK' /\ DataOK' /\ FatesOK'
  BY <1>0, <1>3, <1>6, <1>7, <1>8, OthersFine, Zenon
<1> QED
  BY <1>9, Zenon DEF TunnelInv

(* The data channel moves on, and knows nothing yet or a mark.             *)
LEMMA ChannelFine ==
  ASSUME TunnelInv, NEW s \in Sessions, NEW d \in Channels,
         data' = [data EXCEPT ![s] = d], ses' = ses, res' = res,
         ClockOK', MarksOK', fate' \in [Sessions -> Fatal], Aged(fate),
         d.st = "audit" => d.info # None, d.st = "pending" => ses[s].pc = "go"
  PROVE  TunnelInv'
<1>0. Typed /\ \A x \in Sessions : Fine(x)
  BY ByFine, Zenon DEF TunnelInv
<1>1. Typed'
  BY <1>0, Zenon DEF Typed
<1>2. data'[s] = d
  BY <1>0, Zenon DEF Typed
<1>3. Fine(s)'
  <2>1. Fine(s) /\ (fate'[s] = fate[s] \/ (fate[s] = "queued" /\ fate'[s] = "gone"))
    BY <1>0, Zenon DEF Aged
  <2> QED
    BY <1>2, <2>1, Zenon DEF Fine, Known
<1>4. \A x \in Sessions \ {s} : data'[x] = data[x]
  BY <1>0, Zenon DEF Typed
<1>5. SesOK' /\ DataOK' /\ FatesOK'
  BY <1>0, <1>1, <1>3, <1>4, OthersFine, Zenon DEF Aged
<1> QED
  BY <1>5, Zenon DEF TunnelInv

(* Steps of the data channels.                                             *)
LEMMA DataNext ==
  ASSUME TunnelInv, NEW s \in Sessions,
         \/ ClientOpens(s) \/ DataTimeout(s) \/ FirstByte(s) \/ PendingByte(s)
         \/ \E audit_task \in BOOLEAN : DataConnects(s, audit_task)
  PROVE  TunnelInv'
<1>0. /\ ClockOK /\ MarksOK /\ fate \in [Sessions -> Fatal] /\ Queue(marks)
      /\ Typed /\ Fine(s) /\ data[s] \in Channels
  BY ByFine, Zenon DEF TunnelInv, Typed, MarksOK, Queue
<1>1. ASSUME NEW st \in {"none", "open", "inspect"},
             data' = [data EXCEPT ![s].st = st], UNCHANGED <<now, domain, ses, res>>,
             (marks' = marks /\ fate' = fate) \/ Leave(marks, fate)
      PROVE  TunnelInv'
  <2> DEFINE d == [data[s] EXCEPT !.st = st]
  <2>1. d \in Channels /\ d.st = st
    BY <1>0, Zenon DEF Channels
  <2>2. data' = [data EXCEPT ![s] = d]
    BY <1>1, Zenon
  <2> HIDE DEF d
  <2>3. ClockOK'
    BY <1>0, <1>1, Zenon DEF ClockOK
  <2>4. MarksOK' /\ fate' \in [Sessions -> Fatal] /\ Aged(fate)
    <3>1. CASE marks' = marks /\ fate' = fate
      BY <1>0, <1>1, <3>1, Zenon DEF MarksOK, Aged
    <3>2. CASE Leave(marks, fate)
      BY <1>0, <1>1, <3>2, LeaveEffect, Zenon DEF Aged
    <3> QED
      BY <1>1, <3>1, <3>2, Zenon
  <2>5. ses' = ses /\ res' = res
    BY <1>1, Zenon
  <2>6. d.st # "audit" /\ d.st # "pending"
    BY <2>1, Zenon
  <2> QED
    BY <2>1, <2>2, <2>3, <2>4, <2>5, <2>6, ChannelFine, Zenon
<1>2. CASE ClientOpens(s)
  BY <1>1, <1>2, Zenon DEF ClientOpens
<1>3. CASE DataTimeout(s)
  BY <1>1, <1>3, Zenon DEF DataTimeout
<1>4. CASE Fresh(domain) /\ \E audit_task \in BOOLEAN : DataConnects(s, audit_task)
  BY <1>1, <1>4, Zenon DEF DataConnects
<1>5. ASSUME Consume, UNCHANGED <<now, domain>>
      PROVE  /\ MarksOK' /\ fate' \in [Sessions -> Fatal] /\ Aged(fate) /\ ClockOK'
             /\ Oldest \in Taken /\ (Oldest = None => fate'[s] # "queued")
  <2>1. now' = now
    BY <1>5, Zenon
  <2>2. ClockOK'
    BY <1>0, <1>5, Zenon DEF ClockOK
  <2> QED
    BY <1>0, <1>5, <2>1, <2>2, ConsumeEffect, Zenon
<1>6. ASSUME NEW audit_task \in BOOLEAN, DataConnects(s, audit_task), ~Fresh(domain)
      PROVE  TunnelInv'
  <2> DEFINE d == [st |-> IF Oldest # None THEN "audit"
                          ELSE IF audit_task THEN "inspect" ELSE "transit",
                   info |-> Oldest]
  <2>1. /\ Consume /\ data' = [data EXCEPT ![s] = d] /\ UNCHANGED <<now, domain>>
        /\ ses' = ses /\ res' = res
    BY <1>6, Zenon DEF DataConnects
  <2>2. /\ MarksOK' /\ fate' \in [Sessions -> Fatal] /\ Aged(fate) /\ ClockOK'
        /\ Oldest \in Taken
    BY <1>5, <2>1, Zenon
  <2>3. d \in Channels /\ (d.st = "audit" => d.info # None) /\ d.st # "pending"
    BY <2>2, Zenon DEF Channels
  <2> HIDE DEF d
  <2> QED
    BY <2>1, <2>2, <2>3, ChannelFine, Zenon
<1>7. CASE FirstByte(s) /\ data[s].st = "audit"
  <2>1. /\ ses[s].pc = "go" /\ Settle(s, data[s].info)
        /\ UNCHANGED <<marks, fate, now, domain>>
    BY <1>7, Zenon DEF FirstByte
  <2>2. data[s].info \in Taken /\ data[s].info # None
    BY <1>0, <1>7, Zenon DEF Channels, Fine
  <2>3. ClockOK' /\ MarksOK' /\ fate' \in [Sessions -> Fatal] /\ Aged(fate)
    BY <1>0, <2>1, Zenon DEF ClockOK, MarksOK, Aged
  <2> QED
    BY <2>1, <2>2, <2>3, SettleFine, Zenon
<1>10. CASE FirstByte(s) /\ data[s].st = "transit"
  <2>1. /\ ses[s].pc = "go" /\ Settle(s, None) /\ fate' = [fate EXCEPT ![s] = "unseen"]
        /\ UNCHANGED <<marks, now, domain>>
    BY <1>10, Zenon DEF FirstByte
  <2>2. ClockOK' /\ MarksOK' /\ fate' \in [Sessions -> Fatal]
    BY <1>0, <2>1, Zenon DEF ClockOK, MarksOK, Fatal
  <2>3. fate'[s] # "queued"
    BY <1>0, <2>1, Zenon
  <2> QED
    BY <2>1, <2>2, <2>3, NoneTaken, SettleFine, Zenon
<1>8. CASE FirstByte(s) /\ data[s].st \notin {"audit", "transit"}
  <2>1. /\ ses[s].pc = "go" /\ data[s].st = "inspect" /\ Consume /\ UNCHANGED <<now, domain>>
        /\ IF Oldest = None /\ Fresh(domain) /\ ses[s].kind = "stor"
             THEN data' = [data EXCEPT ![s].st = "pending"] /\ UNCHANGED <<ses, res>>
             ELSE Settle(s, Oldest)
    BY <1>8, Zenon DEF FirstByte
  <2>2. /\ MarksOK' /\ fate' \in [Sessions -> Fatal] /\ Aged(fate) /\ ClockOK'
        /\ Oldest \in Taken /\ (Oldest = None => fate'[s] # "queued")
    BY <1>5, <2>1, Zenon
  <2>3. CASE Settle(s, Oldest)
    BY <2>1, <2>2, <2>3, SettleFine, Zenon
  <2>4. CASE data' = [data EXCEPT ![s].st = "pending"] /\ UNCHANGED <<ses, res>>
    <3> DEFINE d == [data[s] EXCEPT !.st = "pending"]
    <3>1. d \in Channels /\ d.st = "pending"
      BY <1>0, Zenon DEF Channels
    <3>2. data' = [data EXCEPT ![s] = d] /\ ses' = ses /\ res' = res
      BY <2>4, Zenon
    <3> HIDE DEF d
    <3>3. d.st # "audit"
      BY <3>1, Zenon
    <3> QED
      BY <2>1, <2>2, <3>1, <3>2, <3>3, ChannelFine, Zenon
  <2> QED
    BY <2>1, <2>3, <2>4, Zenon
<1>9. CASE PendingByte(s)
  <2>1. data[s].st = "pending" /\ Consume /\ Settle(s, Oldest) /\ UNCHANGED <<now, domain>>
    BY <1>9, Zenon DEF PendingByte
  <2>2. /\ MarksOK' /\ fate' \in [Sessions -> Fatal] /\ Aged(fate) /\ ClockOK'
        /\ Oldest \in Taken /\ (Oldest = None => fate'[s] # "queued")
    BY <1>5, <2>1, Zenon
  <2>3. ses[s].pc = "go"
    BY <1>0, <2>1, Zenon DEF Fine
  <2> QED
    BY <2>1, <2>2, <2>3, SettleFine, Zenon
<1> QED
  BY <1>2, <1>3, <1>4, <1>6, <1>7, <1>8, <1>9, <1>10, Zenon

(* Every step of the tunnels keeps the invariant.                          *)
LEMMA TunnelInvNext == TunnelInv /\ [TunnelNext]_tunnelVars => TunnelInv'
<1> SUFFICES ASSUME TunnelInv, [TunnelNext]_tunnelVars PROVE TunnelInv'
  OBVIOUS
<1>1. CASE Tick
  <2>1. /\ now \in 0 .. MaxTime /\ now < MaxTime /\ now' = now + 1
        /\ UNCHANGED <<marks, domain, ses, data, res, fate>>
    BY <1>1, Zenon DEF Tick, TunnelInv, ClockOK
  <2>2. now' \in 0 .. MaxTime /\ \A t \in 0 .. MaxTime : t <= now => t <= now'
    BY <2>1, FtpTunnelAssumption
  <2>3. \A i \in DOMAIN marks : marks[i].at \in 0 .. MaxTime
    <3>1. \A i \in DOMAIN marks : marks[i] \in Marks
      BY DEF TunnelInv, MarksOK
    <3> QED
      BY <3>1, Zenon DEF Marks
  <2>4. ClockOK' /\ MarksOK'
    BY <2>1, <2>2, <2>3, Zenon DEF TunnelInv, ClockOK, MarksOK
  <2>5. SesOK' /\ DataOK' /\ FatesOK'
    BY <2>1, Zenon DEF TunnelInv, SesOK, DataOK, FatesOK, Known
  <2> QED
    BY <2>4, <2>5, Zenon DEF TunnelInv
<1>2. CASE \E s \in Sessions :
             \/ Control(s) \/ RelayMark(s) \/ TransferEnds(s)
             \/ \E f \in Names : ClientAsks(s, "stor", f)
             \/ ClientAsks(s, "retr", "none")
             \/ \E ok \in BOOLEAN : ServerReplies(s, ok)
  BY <1>2, ControlNext, Zenon
<1>3. CASE \E s \in Sessions :
             \/ ClientOpens(s) \/ DataTimeout(s) \/ FirstByte(s) \/ PendingByte(s)
             \/ \E audit_task \in BOOLEAN : DataConnects(s, audit_task)
  BY <1>3, DataNext, Zenon
<1>4. CASE UNCHANGED tunnelVars
  BY <1>4, Zenon DEF tunnelVars, TunnelInv, ClockOK, MarksOK, SesOK, DataOK, FatesOK, Known
<1> QED
  BY <1>1, <1>2, <1>3, <1>4, Zenon DEF TunnelNext

(* It holds at all times.                                                  *)
LEMMA TunnelInvAlways == TunnelSpec => []TunnelInv
BY TunnelInvInit, TunnelInvNext, PTL DEF TunnelSpec

(* An upload goes unaudited only when its mark was merged, dropped at the  *)
(* limit, expired or taken by another data channel, or its data channel    *)
(* came before the mark to a server of unknown domain and was passed       *)
(* through without inspection (upload_state.rs, the marks of               *)
(* relay_control_channel and the looks of the data channels): however      *)
(* opening the channel and the command are ordered, and however many       *)
(* sessions share the state.                                               *)
THEOREM UnauditedAlwaysExplained == TunnelSpec => []UnauditedExplained
<1>1. TunnelInv => UnauditedExplained
  BY Zenon DEF TunnelInv, FatesOK, Known, UnauditedExplained
<1> QED
  BY <1>1, TunnelInvAlways, PTL

(* The queue of marks keeps to max_pending_per_pair, and a data channel is *)
(* audited only under a mark made or refreshed within upload_ttl           *)
(* (mark_upload, consume_upload, maybe_trigger_cleanup).                   *)
THEOREM AlwaysAuditedFresh == TunnelSpec => []AuditedFresh
<1>1. TunnelInv => AuditedFresh
  <2> SUFFICES ASSUME TunnelInv PROVE AuditedFresh
    BY Zenon
  <2>1. \A i \in DOMAIN marks : marks[i] \in Marks
    BY DEF TunnelInv, MarksOK
  <2>2. \A x \in Taken : x \in Infos /\ x.age \in 0 .. Ttl - 1
    BY FtpTunnelAssumption DEF Taken, Infos
  <2>3. /\ res \in [Sessions -> Infos]
        /\ data \in [Sessions -> [st : {"none", "open", "inspect", "pending", "audit",
                                        "transit"}, info : Infos]]
    BY <2>2, Zenon DEF TunnelInv, DataOK, Channels
  <2>4. TunnelTypes
    BY <2>1, <2>3, Zenon DEF TunnelInv, TunnelTypes, ClockOK, MarksOK, SesOK, FatesOK, Fatal,
       Partners, Infos, Marks
  <2>5. \A s \in Sessions : res[s] \in Taken /\ data[s].info \in Taken
    BY Zenon DEF TunnelInv, DataOK, Channels
  <2> QED
    BY <2>2, <2>4, <2>5, Zenon DEF AuditedFresh
<1> QED
  BY <1>1, TunnelInvAlways, PTL
=============================================================================
