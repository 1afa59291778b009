---------------------------- MODULE HttpForward ----------------------------
(***************************************************************************)
(* The HTTP forward task of the http_proxy server (HttpProxyForwardTask)   *)
(* as the pipeline writer runs it: the requests of one client connection,  *)
(* one after the other, each sent to its upstream over the connection kept *)
(* alive from an earlier request or over a new one, retried once on a new  *)
(* connection when the kept one fails "at some recoverable stage", and     *)
(* answered from the upstream or by the proxy itself.                      *)
(*                                                                         *)
(* The client is a stream of requests whose bodies are numbered units; the *)
(* upstream may answer early, send interim (1xx) responses first, break    *)
(* off, or close at any time, also while its connection is kept alive.     *)
(* The ICAP server of the request and response adaptation is part of the   *)
(* environment, and may keep a task waiting.                               *)
(***************************************************************************)
EXTENDS Integers, Sequences, FiniteSets

CONSTANTS
  Hosts,        \* upstream addresses
  MaxRequests,  \* bound on the requests of one client connection
  MaxBody,      \* bound on the units of a request body
  MaxHints,     \* bound on the interim responses to a request
  MaxRare       \* bound on the kinds of rare events of one connection

ASSUME HttpForwardAssumption ==
  /\ MaxRequests \in Nat \ {0}
  /\ MaxBody \in Nat \ {0} /\ MaxHints \in Nat /\ MaxRare \in Nat

VARIABLES
  pc,     \* where the writer is: "idle" between tasks, "closed" at the end
  n,      \* the request being served, or the last one served
  req,    \* its request line and headers, as far as they matter here
  unread, \* units of its body not taken from the client's stream yet;
          \* below zero when bytes behind the body were taken for body
  t,      \* the fields of the task and the locals of the function it runs
  up,     \* the upstream connection in use
  last,   \* last_connection of the forward context, watched by its poller
  out     \* what the client was sent as an answer: to which request, the upstream's to
          \* which (or 0), the whole of it, and whether it is final

vars == <<pc, n, req, unread, t, up, last, out>>

\* A request the parser lets through: HttpProxyClientRequest.
Request == [host : Hosts, body : 0 .. MaxBody, keep : BOOLEAN, expect : BOOLEAN]

NoConn == [host |-> "none"]
NoItem == [kind |-> "none"]

\* What an upstream may have put on the wire.  "cut" is a response that breaks
\* off in its body, "part" a header that breaks off, at once or later.
Item == [kind : {"hint", "rsp", "cut"}, for : 1 .. MaxRequests, keep : BOOLEAN,
         code : {100, 102, 103, 200}]
        \cup {[kind |-> "part"]}

\* A connection: the requests the upstream has to answer, the last one it got
\* (cur) and the units of its body it received, what it sent that was not read, and whether it
\* has closed.  adapted: the body comes from the ICAP server, not the client.  hints:
\* the interim responses it has sent to the oldest of todo, cont: a 100 among them.
Conn == [host : Hosts, todo : Seq(1 .. MaxRequests), cur : 0 .. MaxRequests, got : Seq(Nat), adapted : BOOLEAN,
         hints : 0 .. MaxHints, cont : BOOLEAN, rsp : Seq(Item), eof : BOOLEAN]

NewConn(h) == [host |-> h, todo |-> <<>>, cur |-> 0, got |-> <<>>, adapted |-> FALSE,
               hints |-> 0, cont |-> FALSE, rsp |-> <<>>, eof |-> FALSE]

\* HttpProxyForwardTask::new and the defaults of HttpForwardTaskNotes.
NewTask(q) == [sclose |-> ~q.keep, senderr |-> TRUE, retry |-> FALSE,
               reused |-> FALSE, branch |-> "new",
               mode |-> "none", fast |-> <<>>, cbuf |-> <<>>, want |-> 0,
               nread |-> 0, rdone |-> FALSE, closeup |-> FALSE, cont |-> FALSE,
               ad |-> "none", hdr |-> NoItem, rare |-> {}]

\* Events after which the code does not keep all of its promises; the properties
\* name them where they matter.  t.rare remembers them for the client connection:
\*   reconnect  the connection made inside a body retry could not be made
\*   hint       an upstream sent a 1xx to a request that did not ask for one
\*   interim    an upstream sent a 102, or another 1xx behind a 100
\*   early      the ICAP server sent an adapted request before it had the body
\*   sockopt    the client's socket options could not be set
\*   stall      an upstream sent a part of a header and then nothing
Rare == {"reconnect", "hint", "interim", "early", "sockopt", "stall"}

After(task, events) == [task EXCEPT !.rare = @ \cup events]
MayHappen(events) == Cardinality(t.rare \cup events) <= MaxRare

\* The fields of the task, its connections and the client's stream have values of
\* their types; no more than the body, and the model's slack behind it, is read.
TypeOK ==
  /\ pc \in {"idle", "checks", "connect", "reconnect", "start", "send", "rsp1",
             "copy", "adapt", "stalled", "final", "reply", "closed"}
  /\ n \in 0 .. MaxRequests
  /\ req \in Request
  /\ unread \in -MaxBody .. MaxBody
  /\ t.branch \in {"reused", "new"} /\ t.mode \in {"none", "nobody", "all", "body", "adapt"}
  /\ t.ad \in {"none", "asked", "bypass", "feed", "orig", "adapted", "done"}
  /\ t.want \in 0 .. MaxBody /\ t.nread \in 0 .. MaxBody
  /\ {t.sclose, t.senderr, t.retry, t.reused, t.rdone, t.closeup, t.cont} \subseteq BOOLEAN
  /\ t.rare \subseteq Rare
  /\ up = NoConn \/ up \in Conn
  /\ last = NoConn \/ last \in Conn
  /\ out \in Seq([n : 1 .. MaxRequests, from : 0 .. MaxRequests, whole : BOOLEAN,
                  final : BOOLEAN])

Init ==
  /\ pc = "idle" /\ n = 0 /\ unread = 0
  /\ req \in {q \in Request : q.body = 0 /\ q.keep /\ ~q.expect}
  /\ t = NewTask(req)
  /\ up = NoConn /\ last = NoConn
  /\ out = <<>>

----------------------------------------------------------------------------
(* Building blocks: the ends of the task and of one attempt.               *)

Answer(from, whole, final) ==
  Append(out, [n |-> n, from |-> from, whole |-> whole, final |-> final])

\* A response the proxy makes itself; the write of it may fail.
Reply == out' \in {Answer(0, TRUE, TRUE), out}

\* What the pipeline writer does when the task returns: run_forward of
\* HttpProxyPipelineWriterTask, which breaks its loop on should_close and
\* otherwise gives the stream back to the reader.
Finish(sclose) == pc' = IF sclose THEN "closed" ELSE "idle"

\* An error that run_with_connection returned to run_forward, the client having
\* been sent `sent': the first attempt, on a reused connection, goes on to a new
\* connection if the error left retry_new_connection set; any other error ends
\* the task, with an error response if none was begun.
FailAfter(sent, retry, senderr) ==
  /\ up' = NoConn
  /\ IF t.branch = "reused" /\ retry
     THEN /\ pc' = "connect"
          /\ t' = [t EXCEPT !.branch = "new", !.retry = TRUE, !.ad = "none",
                            !.senderr = senderr]
          /\ out' = sent
     ELSE /\ Finish(TRUE)
          /\ t' = [t EXCEPT !.sclose = TRUE, !.senderr = senderr]
          /\ IF senderr THEN Reply ELSE out' = sent

Fail(retry) == FailAfter(out, retry, t.senderr)

\* An error inside one of the two loops that hold the body read so far
\* (run_with_all_body, and run_with_body on a fast_read_buf): they make the new
\* connection themselves.  The other modes leave it to run_forward.
AttemptFail(retry) ==
  IF t.mode = "all" \/ (t.mode = "body" /\ t.fast # <<>>)
  THEN IF t.reused /\ retry
       THEN /\ pc' = "reconnect" /\ up' = NoConn
            /\ t' = [t EXCEPT !.retry = TRUE]
            /\ UNCHANGED out
       ELSE Fail(FALSE)
  ELSE Fail(retry)

\* The units of the stream the next k body bytes are: 1 .. body are the
\* request's own, later ones belong to what the client sent behind it.
NextUnits(k) == [i \in 1 .. k |-> req.body - unread + i]

----------------------------------------------------------------------------
(* run_forward, up to the connection.                                      *)

\* The pipeline writer takes the next request of the client; what its upstream
\* got of the last one no longer matters.  A request without keep-alive is one
\* before the bound.
TakeRequest ==
  /\ pc = "idle" /\ n < MaxRequests
  /\ req' \in {q \in Request : (q.expect => q.body > 0) /\ (n + 1 = MaxRequests => q.keep)}
  /\ n' = n + 1
  /\ unread' = req'.body
  /\ t' = [NewTask(req') EXCEPT !.rare = t.rare]
  /\ last' = IF last = NoConn THEN last ELSE [last EXCEPT !.got = <<>>, !.adapted = FALSE]
  /\ pc' = "checks"
  /\ UNCHANGED <<up, out>>

\* (wrong) a refusal leaves should_close as it was.
StopAtChecksKeeps(refused) ==
  /\ pc = "checks" /\ refused
  /\ Reply /\ Finish(t.sclose)
  /\ UNCHANGED <<n, req, unread, t, up, last>>

\* An ACL, the rate limit or the request semaphore refuses: with an answer that
\* closes.
Refuse == Reply /\ Finish(TRUE) /\ t' = [t EXCEPT !.sclose = TRUE]

\* The checks before the connection.  An error of tcp_sock_set_raw_opts is
\* returned as it is.
StopAtChecks(refused) ==
  /\ pc = "checks" /\ (refused \/ MayHappen({"sockopt"}))
  /\ IF refused
     THEN Refuse
     ELSE Finish(t.sclose) /\ t' = After(t, {"sockopt"}) /\ UNCHANGED out
  /\ UNCHANGED <<n, req, unread, up, last>>

\* prepare_connection and get_alive_connection hand the kept connection over;
\* its poller has not seen data or EOF on it, and it has not expired.
ReuseConnection ==
  /\ pc = "checks" /\ last # NoConn /\ last.host = req.host
  /\ pc' = "start" /\ up' = last /\ last' = NoConn
  /\ t' = [t EXCEPT !.reused = TRUE, !.branch = "reused", !.retry = FALSE]
  /\ UNCHANGED <<n, req, unread, out>>

\* No kept connection, one to another upstream, an expired one, or one whose
\* poller has gone.
NoAliveConnection ==
  /\ pc = "checks"
  /\ pc' = "connect" /\ last' = NoConn
  /\ UNCHANGED <<n, req, unread, t, up, out>>

\* get_new_connection, called by run_forward or by a loop that retries with
\* the body it holds.  A connect error is answered inside; run_forward returns
\* on it, a retry loop hands it to run_forward as the error of the attempt.
GetNewConnection(ok) ==
  /\ pc \in {"connect", "reconnect"}
  /\ ok \/ pc = "connect" \/ MayHappen({"reconnect"})
  /\ IF ok
     THEN /\ up' = NewConn(req.host)
          /\ pc' = IF pc = "connect" THEN "start" ELSE "send"
          /\ t' = [t EXCEPT !.reused = FALSE]
          /\ UNCHANGED out
     ELSE /\ Reply
          /\ up' = NoConn
          /\ LET new == [t EXCEPT !.reused = FALSE, !.sclose = TRUE,
                                  !.branch = "new", !.ad = "none"] IN
             t' = IF pc = "reconnect" THEN After(new, {"reconnect"}) ELSE new
          /\ IF pc = "reconnect" THEN pc' = "connect" ELSE Finish(TRUE)
  /\ UNCHANGED <<n, req, unread, last>>

----------------------------------------------------------------------------
(* run_with_connection and the choice of a mode.                           *)

\* Data or EOF found on a reused connection before anything was sent on it.
StaleConnection ==
  /\ pc = "start" /\ t.ad = "none" /\ t.reused /\ (up.rsp # <<>> \/ up.eof)
  /\ Fail(TRUE)
  /\ UNCHANGED <<n, req, unread, last>>

\* The task is audited: h1_adapter is awaited.
AskAdapter ==
  /\ pc = "start" /\ t.ad = "none"
  /\ t' = [t EXCEPT !.ad = "asked"]
  /\ UNCHANGED <<pc, n, req, unread, up, last, out>>

\* No adapter to be had from the ICAP service.  With bypass the task goes on
\* without one and keeps retry_new_connection set.
NoAdapter(bypass) ==
  /\ pc = "start" /\ t.ad = "asked"
  /\ IF bypass
     THEN t' = [t EXCEPT !.retry = TRUE, !.ad = "bypass"] /\ UNCHANGED <<pc, up, out>>
     ELSE Fail(TRUE)
  /\ UNCHANGED <<n, req, unread, last>>

\* run_with_adaptation starts the transfer.
StartAdaptation ==
  /\ pc = "start" /\ t.ad = "asked"
  /\ pc' = "adapt"
  /\ t' = [t EXCEPT !.mode = "adapt", !.ad = "feed", !.want = req.body, !.nread = 0,
                    !.cbuf = <<>>, !.rdone = FALSE]
  /\ UNCHANGED <<n, req, unread, up, last, out>>

\* run_without_adaptation: no body; a body announced by Expect; or as many
\* units as read_all_now gets at once.  All of them: the request can be sent in
\* one piece (unless the buffer was filled to the brim, so that the end of the
\* body was not seen yet).  Some: they are kept for a retry.
StartAttempt(k, seen) ==
  /\ pc = "start" /\ t.ad # "asked"
  /\ k <= req.body /\ (req.expect => k = 0) /\ (seen => k = req.body /\ k > 0)
  /\ pc' = "send"
  /\ unread' = unread - k
  /\ t' = [t EXCEPT !.mode = IF req.body = 0 THEN "nobody" ELSE IF seen THEN "all" ELSE "body",
                    !.fast = NextUnits(k), !.want = req.body - k, !.rdone = FALSE]
  /\ UNCHANGED <<n, req, up, last, out>>

\* read_all_now: the client is gone.
ClientClosed ==
  /\ pc = "start" /\ t.ad # "asked" /\ req.body > 0 /\ ~req.expect
  /\ Fail(t.retry)
  /\ UNCHANGED <<n, req, unread, last>>

----------------------------------------------------------------------------
(* One attempt: the request is sent and its response awaited.              *)

\* The connection after the request's header, and with it body, was written:
\* an upstream that has closed never sees it.
Sent(body, adapted) ==
  IF up.eof THEN up
  ELSE [up EXCEPT !.todo = Append(@, n), !.cur = n, !.got = body, !.adapted = adapted]

\* (wrong) what read_all_now took is not sent.
SendRequestRest ==
  /\ pc = "send"
  /\ IF t.mode = "body"
     THEN /\ pc' = "copy" /\ up' = Sent(<<>>, FALSE)
          /\ t' = [t EXCEPT !.retry = FALSE, !.cbuf = <<>>, !.nread = 0]
     ELSE /\ pc' = "rsp1" /\ up' = Sent(t.fast, FALSE)
          /\ t' = [t EXCEPT !.retry = TRUE]
  /\ UNCHANGED <<n, req, unread, last, out>>

\* send_request_header: alone, or with all of the body.
SendRequest ==
  /\ pc = "send"
  /\ IF t.mode = "body"
     THEN /\ pc' = "copy" /\ up' = Sent(<<>>, FALSE)
          /\ t' = [t EXCEPT !.retry = FALSE, !.cbuf = t.fast, !.nread = 0]
     ELSE /\ pc' = "rsp1" /\ up' = Sent(t.fast, FALSE)
          /\ t' = [t EXCEPT !.retry = TRUE]
  /\ UNCHANGED <<n, req, unread, last, out>>

\* The write fails on a connection the upstream has closed.
SendRequestFails ==
  /\ pc = "send" /\ up.eof
  /\ AttemptFail(TRUE)
  /\ UNCHANGED <<n, req, unread, last>>

\* StreamCopy, or the transfer to the ICAP server, takes the next unit of the
\* client's body, or learns that there is none.
CopyRead ==
  /\ pc = "copy" \/ (pc = "adapt" /\ t.ad \in {"feed", "orig", "adapted"})
  /\ ~t.rdone
  /\ IF t.want = 0
     THEN t' = [t EXCEPT !.rdone = TRUE] /\ UNCHANGED unread
     ELSE /\ unread > -MaxBody
          /\ unread' = unread - 1
          /\ t' = [t EXCEPT !.want = @ - 1, !.nread = @ + 1,
                            !.cbuf = IF t.ad = "adapted" THEN @ ELSE @ \o NextUnits(1)]
  /\ UNCHANGED <<pc, n, req, up, last, out>>

\* StreamCopy writes what it holds to the upstream.
CopyWrite ==
  /\ pc = "copy" \/ (pc = "adapt" /\ t.ad = "orig")
  /\ t.cbuf # <<>>
  /\ t' = [t EXCEPT !.cbuf = Tail(@)]
  /\ up' = IF up.eof THEN up ELSE [up EXCEPT !.got = Append(@, Head(t.cbuf))]
  /\ UNCHANGED <<pc, n, req, unread, last, out>>

\* All of the body is sent.
CopyDone ==
  /\ pc = "copy" /\ t.rdone /\ t.cbuf = <<>>
  /\ pc' = "final" /\ t' = [t EXCEPT !.cont = FALSE]
  /\ UNCHANGED <<n, req, unread, up, last, out>>

\* Client read error, upstream write error, idle limit, user blocked, quit.
CopyFails ==
  /\ pc = "copy"
  /\ AttemptFail(FALSE)
  /\ UNCHANGED <<n, req, unread, last>>

\* The next response header is there to be read.
Arrived == up.rsp # <<>> /\ Head(up.rsp).kind # "part"
Read == [up EXCEPT !.rsp = Tail(@)]

\* The codes that are passed on to the client before the final response.
Interim(i) == i.kind = "hint" /\ i.code \in {100, 103}

\* The connection ends before a whole response header: nothing more was read
\* (seen = FALSE), or a part of the header.
Ended(seen) == up.eof /\ IF seen THEN up.rsp # <<>> /\ Head(up.rsp).kind = "part"
                         ELSE up.rsp = <<>>

\* run_without_body and send_full_req_and_recv_rsp: one response header is read,
\* whatever its code.
RecvResponse ==
  /\ pc = "rsp1" /\ Arrived
  /\ pc' = "reply" /\ up' = Read
  /\ t' = [t EXCEPT !.hdr = Head(up.rsp), !.retry = FALSE, !.closeup = FALSE]
  /\ UNCHANGED <<n, req, unread, last, out>>

\* The connection ended; nothing read at all allows a retry.
RecvResponseFails(seen) ==
  /\ pc = "rsp1" /\ Ended(seen)
  /\ AttemptFail(~seen)
  /\ UNCHANGED <<n, req, unread, last>>

\* (wrong) there is none after the body.
RecvResponseTimeoutFirst ==
  /\ pc = "rsp1"
  /\ AttemptFail(FALSE)
  /\ UNCHANGED <<n, req, unread, last>>

\* The response header timeout.
RecvResponseTimeout ==
  /\ pc \in {"rsp1", "final"}
  /\ AttemptFail(FALSE)
  /\ UNCHANGED <<n, req, unread, last>>

\* (wrong) the client's connection is kept in the middle of its body.
CopyInterruptedKeeps ==
  /\ pc = "copy" /\ Arrived
  /\ up' = Read
  /\ IF Interim(Head(up.rsp))
     THEN UNCHANGED <<pc, t>>
     ELSE pc' = "reply" /\ t' = [t EXCEPT !.hdr = Head(up.rsp), !.closeup = TRUE]
  /\ UNCHANGED <<n, req, unread, last, out>>

\* run_with_body while the body is still copied: an interim response goes to
\* the client, a final one ends the copy.
CopyInterrupted ==
  /\ pc = "copy" /\ Arrived
  /\ up' = Read
  /\ IF Interim(Head(up.rsp))
     THEN UNCHANGED <<pc, t>>
     ELSE /\ pc' = "reply"
          /\ t' = [t EXCEPT !.hdr = Head(up.rsp),
                            !.sclose = @ \/ ~t.rdone,
                            !.closeup = ~(t.rdone /\ t.cbuf = <<>>)]
  /\ UNCHANGED <<n, req, unread, last, out>>

\* The upstream ends the connection while the body is still copied: only a copy
\* that has not taken anything from the client can be started again.
CopyEnded(seen) ==
  /\ pc = "copy" \/ (pc = "stalled" /\ t.mode = "body")
  /\ Ended(seen)
  /\ AttemptFail(~seen /\ t.nread = 0)
  /\ UNCHANGED <<n, req, unread, last>>

\* A part of a header arrives while a body is copied or adapted: recv_response_header
\* is awaited inside the branch of the select, where no timer is polled.
HeaderStalls ==
  /\ pc \in {"copy", "adapt"} /\ up.rsp # <<>> /\ Head(up.rsp).kind = "part" /\ ~up.eof
  /\ pc' = "stalled"
  /\ UNCHANGED <<n, req, unread, t, up, last, out>>

\* recv_final_response_header: 103 is passed on and the next header awaited,
\* 100 is passed on and the next header is taken for the final one.
RecvFinal ==
  /\ pc = "final" /\ Arrived
  /\ up' = Read
  /\ IF Interim(Head(up.rsp)) /\ ~t.cont
     THEN t' = [t EXCEPT !.cont = Head(up.rsp).code = 100] /\ UNCHANGED pc
     ELSE /\ pc' = "reply"
          /\ t' = [t EXCEPT !.hdr = Head(up.rsp), !.closeup = FALSE]
  /\ UNCHANGED <<n, req, unread, last, out>>

\* It fails: the connection ended, or an interim response could not be written.
RecvFinalFails ==
  /\ pc = "final" /\ (Ended(TRUE) \/ Ended(FALSE))
  /\ AttemptFail(t.retry)
  /\ UNCHANGED <<n, req, unread, last>>

\* (wrong) the upstream connection is kept after part of a request.
SendResponseKeeps ==
  /\ pc = "reply" /\ t.hdr.kind # "cut"
  /\ out' = Answer(t.hdr.for, TRUE, t.hdr.kind # "hint")
  /\ LET sclose == t.sclose \/ ~t.hdr.keep IN
     /\ Finish(sclose)
     /\ t' = [t EXCEPT !.sclose = sclose, !.senderr = FALSE]
     /\ last' = IF sclose THEN last ELSE up
  /\ up' = NoConn
  /\ UNCHANGED <<n, req, unread>>

\* send_response and then save_or_close: should_close goes into the response's
\* header, a response that closes sets should_close, and the upstream connection
\* is kept if neither side closes and all of the request was sent on it.
SendResponse ==
  /\ pc = "reply" /\ t.hdr.kind # "cut"
  /\ out' = Answer(t.hdr.for, TRUE, t.hdr.kind # "hint")
  /\ LET sclose == t.sclose \/ ~t.hdr.keep IN
     /\ Finish(sclose)
     /\ t' = [t EXCEPT !.sclose = sclose, !.senderr = FALSE]
     /\ last' = IF sclose \/ t.closeup THEN last ELSE up
  /\ up' = NoConn
  /\ UNCHANGED <<n, req, unread>>

\* send_response fails after it began to write: the upstream's body breaks off,
\* the client is gone, idle limit, user blocked, quit.
SendResponseFails ==
  /\ pc = "reply"
  /\ FailAfter(Answer(t.hdr.for, FALSE, t.hdr.kind # "hint"), t.retry, FALSE)
  /\ UNCHANGED <<n, req, unread, last>>

\* Response adaptation fails before it wrote anything to the client.
RespmodFails ==
  /\ pc = "reply" /\ t.mode = "adapt"
  /\ Fail(t.retry)
  /\ UNCHANGED <<n, req, unread, last>>

----------------------------------------------------------------------------
(* run_with_adaptation.                                                    *)

\* The ICAP server takes the request as it is (204): header and body, what the
\* preview took included, go to the upstream.
AdaptOriginal ==
  /\ pc = "adapt" /\ t.ad = "feed" /\ (req.body > 0 => t.want > 0)
  /\ up' = Sent(<<>>, FALSE)
  /\ t' = [t EXCEPT !.ad = "orig"]
  /\ UNCHANGED <<pc, n, req, unread, last, out>>

\* It sends an adapted request, whose body if any does not come from the
\* client.  Nothing makes it wait for the end of the client's body.
AdaptAdapted ==
  /\ pc = "adapt" /\ t.ad = "feed" /\ (t.want = 0 \/ MayHappen({"early"}))
  /\ up' = Sent(<<>>, TRUE)
  /\ LET new == [t EXCEPT !.ad = "adapted", !.cbuf = <<>>] IN
     t' = IF t.want = 0 THEN new ELSE After(new, {"early"})
  /\ UNCHANGED <<pc, n, req, unread, last, out>>

\* mark_ups_send_all.
AdaptSent ==
  /\ pc = "adapt"
  /\ t.ad = "adapted" \/ (t.ad = "orig" /\ t.want = 0 /\ t.cbuf = <<>>)
  /\ t' = [t EXCEPT !.ad = "done"]
  /\ UNCHANGED <<pc, n, req, unread, up, last, out>>

\* OriginalTransferred or AdaptedTransferred.
AdaptDone ==
  /\ pc = "adapt" /\ t.ad = "done"
  /\ pc' = "final" /\ t' = [t EXCEPT !.cont = FALSE]
  /\ UNCHANGED <<n, req, unread, up, last, out>>

\* HttpErrResponse: the ICAP server's answer goes to the client, and closes.
AdaptRefused ==
  /\ pc = "adapt" /\ t.ad = "feed"
  /\ out' \in {Answer(0, w, TRUE) : w \in BOOLEAN}
  /\ up' = NoConn /\ Finish(TRUE)
  /\ t' = [t EXCEPT !.sclose = TRUE, !.senderr = FALSE]
  /\ UNCHANGED <<n, req, unread, last>>

\* The adapter fails.  Nothing read from the client yet: the request can be
\* tried again if it was the ICAP connection that broke.
AdaptFails(icap) ==
  /\ pc = "adapt" /\ t.ad # "done"
  /\ Fail(IF t.nread = 0 THEN icap ELSE t.retry)
  /\ UNCHANGED <<n, req, unread, last>>

\* The upstream answers before the adapter is done.
AdaptInterrupted ==
  /\ pc = "adapt" /\ Arrived
  /\ up' = Read
  /\ IF Interim(Head(up.rsp))
     THEN UNCHANGED <<pc, t>>
     ELSE /\ pc' = "reply"
          /\ t' = [t EXCEPT !.hdr = Head(up.rsp),
                            !.sclose = @ \/ ~(req.body = 0 \/ (t.want = 0 /\ t.ad \in {"adapted", "done"})),
                            !.closeup = t.ad # "done"]
  /\ UNCHANGED <<n, req, unread, last, out>>

\* The upstream ends the connection before the adapter is done.
AdaptEnded(seen) ==
  /\ pc = "adapt" \/ (pc = "stalled" /\ t.mode = "adapt")
  /\ Ended(seen)
  /\ Fail(IF ~seen /\ t.nread = 0 THEN TRUE ELSE t.retry)
  /\ UNCHANGED <<n, req, unread, last>>

----------------------------------------------------------------------------
(* The upstream, on the connection in use or on the kept one.              *)

\* What upstream c may do next, and the rare events that makes: an interim response
\* (asked for by Expect, or any time), an answer to the oldest request it has, the
\* same broken off or never finished, or closing.
UpstreamSteps(c) ==
  LET r == Head(c.todo)
      rsp(kind, keep) == [kind |-> kind, for |-> r, keep |-> keep, code |-> 200]
      hint(code) == [kind |-> "hint", for |-> r, keep |-> TRUE, code |-> code]
      hinted(code) == [c EXCEPT !.rsp = Append(@, hint(code)), !.hints = @ + 1,
                                !.cont = @ \/ code = 100]
      odd(code) == (IF req.expect THEN {} ELSE {"hint"})
                   \cup (IF code = 102 \/ c.cont THEN {"interim"} ELSE {})
      answered(i, close) == [c EXCEPT !.rsp = Append(@, i), !.todo = Tail(@), !.eof = close,
                                     !.hints = 0, !.cont = FALSE]
      step(to, events) == [to |-> to, rare |-> events]
  IN  (IF c.todo # <<>> /\ c.hints < MaxHints
       THEN {step(hinted(code), odd(code)) : code \in {100, 102, 103}} ELSE {})
      \cup
      (IF c.todo # <<>>
       THEN {step(answered(rsp("rsp", keep), FALSE), {}) : keep \in BOOLEAN}
            \cup {step(answered(i, TRUE), {}) :
                    i \in {rsp("cut", TRUE), rsp("rsp", FALSE), [kind |-> "part"]}}
            \cup {step(answered([kind |-> "part"], FALSE), {"stall"})}
       ELSE {})
      \cup {step([c EXCEPT !.eof = TRUE], {})}

UpstreamActs ==
  /\ up # NoConn /\ ~up.eof
  /\ \E s \in UpstreamSteps(up) : MayHappen(s.rare) /\ up' = s.to /\ t' = After(t, s.rare)
  /\ UNCHANGED <<pc, n, req, unread, last, out>>

KeptUpstreamActs ==
  /\ last # NoConn /\ ~last.eof
  /\ \E s \in UpstreamSteps(last) : MayHappen(s.rare) /\ last' = s.to /\ t' = After(t, s.rare)
  /\ UNCHANGED <<pc, n, req, unread, up, out>>

\* HttpConnectionEofCheck: data or EOF on the kept connection shuts it down, and
\* get_alive_connection will not get it.
PollerCloses ==
  /\ last # NoConn /\ (last.eof \/ last.rsp # <<>>)
  /\ last' = NoConn
  /\ UNCHANGED <<pc, n, req, unread, t, up, out>>

----------------------------------------------------------------------------
Connect == \E ok \in BOOLEAN : GetNewConnection(ok)
Start == \/ StaleConnection \/ AskAdapter \/ StartAdaptation \/ ClientClosed
         \/ \E bypass \in BOOLEAN : NoAdapter(bypass)
         \/ \E k \in 0 .. MaxBody, seen \in BOOLEAN : StartAttempt(k, seen)
Attempt == \/ SendRequest \/ SendRequestFails \/ CopyRead \/ CopyWrite \/ CopyDone \/ CopyFails
           \/ RecvResponse \/ RecvResponseTimeout \/ CopyInterrupted \/ HeaderStalls
           \/ RecvFinal \/ RecvFinalFails
           \/ \E seen \in BOOLEAN : RecvResponseFails(seen) \/ CopyEnded(seen)
Adapt == \/ AdaptOriginal \/ AdaptAdapted \/ AdaptSent \/ AdaptDone \/ AdaptRefused
         \/ AdaptInterrupted
         \/ \E icap \in BOOLEAN : AdaptFails(icap)
         \/ \E seen \in BOOLEAN : AdaptEnded(seen)
Respond == SendResponse \/ SendResponseFails \/ RespmodFails

\* The steps of the proxy once it has taken a request.
TaskStep == \/ \E refused \in BOOLEAN : StopAtChecks(refused)
            \/ ReuseConnection \/ NoAliveConnection \/ Connect \/ Start \/ Attempt \/ Adapt \/ Respond

Next == TakeRequest \/ TaskStep \/ UpstreamActs \/ KeptUpstreamActs \/ PollerCloses

Spec == Init /\ [][Next]_vars

\* The task waits for the ICAP server: for an adapter, for its answer to the request
\* or the rest of the adapted one, and in send_response for that to the response.
\* Not all of these waits have a timer.
AwaitsIcap == \/ pc = "start" /\ t.ad = "asked"
              \/ pc = "adapt" /\ t.ad \in {"feed", "adapted"}
              \/ pc = "reply" /\ t.mode = "adapt"

\* The runtime polls a task that can go on, and its timers fire; one that waits for
\* the ICAP server still sees what the upstream does.
FairSpec == /\ Spec
            /\ WF_vars(~AwaitsIcap /\ TaskStep)
            /\ WF_vars(AdaptInterrupted \/ HeaderStalls \/ \E seen \in BOOLEAN : AdaptEnded(seen))

----------------------------------------------------------------------------
(* Properties.                                                             *)

Unless(events, P) == t.rare \cap events = {} => P

\* The client gets the answers in the order of its requests, one for each, and
\* the stream is handed back only after the answer: no request is answered
\* twice by a retry, none is passed over (HttpProxyForwardTask::run_forward).
\* A failed connect inside a body retry is answered and the request tried again
\* all the same; failed socket options leave the request without an answer.
\* An answer that came from an upstream is the final answer of that upstream to
\* the request it is given for: never an interim response, never the answer to
\* an earlier request that was left unread on a kept connection.  A request
\* without a body, or with all of it at hand, takes an unasked 1xx for both; any
\* request takes a 102 for the final answer, and behind a 100 that came after its body
\* another 1xx (recv_final_response_header).
OneAnswerInOrder ==
  /\ Unless({"reconnect"}, \A i \in 1 .. Len(out) : out[i].n >= i)
  /\ Unless({"reconnect", "sockopt"}, /\ \A i \in 1 .. Len(out) : out[i].n = i
                                      /\ pc = "idle" => Len(out) = n)
  /\ Unless({"hint", "interim"},
            \A i \in 1 .. Len(out) : out[i].from \in {0, out[i].n} /\ out[i].final)

\* Whichever attempt sends it, an upstream gets the request's body from its
\* first unit on, without gap, and nothing the client sent behind it
\* (run_without_adaptation, run_with_body, run_with_all_body).  After a failed
\* connect inside a body retry the body is read again from where it is.  The
\* state has its types.
BodyIntact ==
  /\ TypeOK
  /\ up # NoConn /\ up.cur = n /\ ~up.adapted =>
       Unless({"reconnect"}, up.got = [i \in 1 .. Len(up.got) |-> i] /\ Len(up.got) <= req.body)

\* "not all client data read in, drop the client connection": the stream is
\* handed back to the pipeline reader only at the end of the request's body.
\* An adapted request that came before the client's body was read, or failed
\* socket options, hand it back before.
ReadToTheEnd == pc = "idle" => Unless({"early", "sockopt"}, unread = 0)

\* A connection is kept for the next request only when the upstream owes no
\* answer on it, got the whole request, and nothing of the answer is unread, however
\* many interim responses came before it (save_or_close).  A 1xx that was taken for the
\* final answer leaves that to come.
KeptClean ==
  last # NoConn => Unless({"hint", "interim"},
                          /\ last.todo = <<>> /\ last.rsp = <<>>
                          /\ last.cur = n /\ ~last.eof /\ ~last.adapted
                               => Len(last.got) = req.body)

\* Every task ends: no sequence of stale connections, retries, interim
\* responses and timeouts keeps the pipeline writer on one request for ever.  Two
\* things do: an upstream that stalls inside the header of an early response, and an
\* ICAP server that does not answer (run_with_body, run_with_adaptation,
\* send_response_with_adaptation).
TaskEnds == <>[](pc \notin {"idle", "closed"})
              => <>[]((pc = "stalled" /\ ~up.eof) \/ AwaitsIcap)
=============================================================================
