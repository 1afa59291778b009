---------------------------- MODULE HttpPipeline ---------------------------
(***************************************************************************)
(* The two tasks that serve one client connection of the http_proxy server:*)
(* the pipeline reader parses requests and queues them, the pipeline writer*)
(* takes them from the queue and runs the task of each.  The read half of  *)
(* the client stream belongs to the reader, goes to the writer inside a    *)
(* request whose body the task has to read (or that leaves HTTP), and      *)
(* comes back over a channel of one slot.                                  *)
(*                                                                         *)
(* The task of a forwarded or FTP request answers once and has read the    *)
(* body, or sets should_close, but for the three ends listed as Odd; odd   *)
(* remembers which request ended so.                                       *)
(***************************************************************************)
EXTENDS Integers, Sequences

CONSTANTS
  MaxRequests,  \* bound on the requests the client sends
  PipelineSize  \* capacity of the request queue (pipeline_size)

ASSUME HttpPipelineAssumption == MaxRequests \in Nat \ {0} /\ PipelineSize \in Nat \ {0}

VARIABLES
  conf,     \* no_early_error_reply; untrusted_read_limit set
  online,   \* ServerStats::is_online
  rpc,      \* the reader: "loop", "fill", "send", "sent", "wait", "done"
  quit,     \* its local quit_after_timeout
  item,     \* what it is sending: a request number, 0 for an error response
  reqs,     \* the requests parsed so far
  stream,   \* who holds the read half: "reader", "request", "chan", "gone"
  unread,   \* the stream stands inside the body of the last request parsed
  chan,     \* the stream channel: "empty", "none" or "stream"
  tq,       \* the task queue
  open,     \* the writer's end of the task queue is open
  alive,    \* HttpProxyPipelineStats::alive_task
  wpc,      \* the writer: "recv", "task", "drain", "del", "done"
  cur,      \* the request it serves
  goon,     \* the LoopAction it will return: Continue?
  authfail, \* consequent_auth_failed
  answered, \* the requests the client got a final response for
  idlequit, \* the reader ended by its idle timeout
  blocked,  \* a hand-back of the stream found the read end closed
  odd       \* the requests whose task had one of the ends Odd, with that end

vars == <<conf, online, rpc, quit, item, reqs, stream, unread, chan, tq, open, alive,
          wpc, cur, goon, authfail, answered, idlequit, blocked, odd>>
reader == <<rpc, quit, item, reqs, idlequit>>
writer == <<wpc, cur, goon, authfail, answered, blocked, odd>>

\* (wrong) a request parsed by an offline server keeps its keep-alive.
RequestLateKeeps == {q \in [proto : {"forward", "connect"}, safe : BOOLEAN, body : BOOLEAN,
                            keep : BOOLEAN, late : BOOLEAN] :
                       /\ q.safe => q.proto = "forward" /\ ~q.body
                       /\ q.proto = "connect" => ~q.body /\ q.keep = ~q.late}

\* A parsed request: CONNECT, or one for a forward or FTP task.  safe:
\* pipeline_safe, so it has no body and the reader keeps the stream; late: the
\* server was offline when it was parsed.  CONNECT has no use for keep-alive.
Request == {q \in [proto : {"forward", "connect"}, safe : BOOLEAN, body : BOOLEAN,
                   keep : BOOLEAN, late : BOOLEAN] :
              /\ q.safe => q.proto = "forward" /\ ~q.body
              /\ q.proto = "connect" => ~q.body /\ q.keep = ~q.late
              /\ q.late => ~q.keep}

\* Ends of a forward or FTP task without the close that the others have:
\*   sockopt    the client's socket options could not be set: neither an answer,
\*              nor is the body read
\*   unread     answered, with the body or its trailer unread: an adapted request
\*              that came early, an FTP upload whose connect or STOR failed or
\*              whose trailer did not come
\*   reconnect  answered twice, after the new connection for a retry failed
Odd == {"sockopt", "unread", "reconnect"}

\* The fields of the two tasks have values of their types, the queue keeps to
\* pipeline_size, and alive_task is off by no more than the tasks in between.
TypeOK ==
  /\ conf \in [noearly : BOOLEAN, drain : BOOLEAN]
  /\ {online, quit, unread, open, goon, idlequit, blocked} \subseteq BOOLEAN
  /\ rpc \in {"loop", "fill", "send", "sent", "wait", "done"}
  /\ wpc \in {"recv", "task", "drain", "del", "done"}
  /\ item \in 0 .. MaxRequests /\ cur \in 0 .. MaxRequests
  /\ reqs \in Seq(Request) /\ Len(reqs) <= MaxRequests
  /\ stream \in {"reader", "request", "chan", "gone"}
  /\ chan \in {"empty", "none", "stream"}
  /\ tq \in Seq(0 .. MaxRequests) /\ Len(tq) <= PipelineSize
  /\ alive \in -1 .. PipelineSize + 2
  /\ authfail \in 0 .. 2
  /\ answered \in Seq(1 .. MaxRequests)
  /\ odd \subseteq (1 .. MaxRequests) \X Odd

Init ==
  /\ conf \in [noearly : BOOLEAN, drain : BOOLEAN]
  /\ online = TRUE
  /\ rpc = "loop" /\ quit = FALSE /\ item = 0 /\ reqs = <<>> /\ idlequit = FALSE
  /\ stream = "reader" /\ unread = FALSE /\ chan = "empty"
  /\ tq = <<>> /\ open = TRUE /\ alive = 0
  /\ wpc = "recv" /\ cur = 0 /\ goon = TRUE /\ authfail = 0
  /\ answered = <<>> /\ blocked = FALSE /\ odd = {}

----------------------------------------------------------------------------
(* HttpProxyPipelineReaderTask.                                            *)

\* The reader ends and drops what it holds: the stream, and its end of the
\* stream channel with what is in it.
ReaderEnds ==
  /\ rpc' = "done"
  /\ stream' = IF stream = "request" THEN stream ELSE "gone"
  /\ chan' = "empty"

\* It has the stream: whether to quit at the next timeout is decided now.
ReaderLoop ==
  /\ rpc = "loop"
  /\ quit' = (alive <= 0) /\ rpc' = "fill"
  /\ UNCHANGED <<conf, online, item, reqs, idlequit, stream, unread, chan, tq, open, alive, writer>>

\* The client closed, or the stream failed.
ClientCloses ==
  /\ rpc = "fill" /\ ReaderEnds
  /\ UNCHANGED <<conf, online, quit, item, reqs, idlequit, unread, tq, open, alive, writer>>

\* (wrong) the reader quits at the first timeout.
ReadTimeoutQuits ==
  /\ rpc = "fill" /\ ReaderEnds /\ idlequit' = TRUE
  /\ UNCHANGED <<conf, online, quit, item, reqs, unread, tq, open, alive, writer>>

\* (wrong) it never quits.
ReadTimeoutNever ==
  /\ rpc = "fill" /\ rpc' = "loop"
  /\ UNCHANGED <<conf, online, quit, item, reqs, idlequit, stream, unread, chan, tq, open,
                 alive, writer>>

\* pipeline_read_idle_timeout.
ReadTimeout ==
  /\ rpc = "fill"
  /\ IF quit THEN ReaderEnds /\ idlequit' = TRUE
     ELSE rpc' = "loop" /\ UNCHANGED <<stream, chan, idlequit>>
  /\ UNCHANGED <<conf, online, quit, item, reqs, unread, tq, open, alive, writer>>

\* (wrong) the stream goes only with a body.
ParseRequestBodyOnly(q) ==
  /\ rpc = "fill" /\ Len(reqs) < MaxRequests
  /\ q.late = ~online
  /\ reqs' = Append(reqs, q) /\ item' = Len(reqs) + 1 /\ rpc' = "send"
  /\ stream' = IF q.body THEN "request" ELSE stream
  /\ unread' = q.body
  /\ UNCHANGED <<conf, online, quit, idlequit, chan, tq, open, alive, writer>>

\* A request is parsed.  The stream goes with it unless it is pipeline safe, and
\* an offline server takes its keep-alive away.
ParseRequest(q) ==
  /\ rpc = "fill" /\ Len(reqs) < MaxRequests
  /\ q.late = ~online
  /\ reqs' = Append(reqs, q) /\ item' = Len(reqs) + 1 /\ rpc' = "send"
  /\ stream' = IF q.safe THEN stream ELSE "request"
  /\ unread' = q.body
  /\ UNCHANGED <<conf, online, quit, idlequit, chan, tq, open, alive, writer>>

\* A header that cannot be parsed, for which there may be an error response, or
\* the header timeout, for which there is none.
ParseFails(reply) ==
  /\ rpc = "fill"
  /\ IF reply THEN item' = 0 /\ rpc' = "send" /\ UNCHANGED <<stream, chan>>
     ELSE ReaderEnds /\ UNCHANGED item
  /\ UNCHANGED <<conf, online, quit, reqs, idlequit, unread, tq, open, alive, writer>>

\* The send on the bounded queue completes.
ReaderSend ==
  /\ rpc = "send" /\ open /\ Len(tq) < PipelineSize
  /\ tq' = Append(tq, item)
  /\ IF item = 0 THEN ReaderEnds ELSE rpc' = "sent" /\ UNCHANGED <<stream, chan>>
  /\ UNCHANGED <<conf, online, quit, item, reqs, idlequit, unread, open, alive, writer>>

\* add_task, which comes after the send; an offline server stops reading.
ReaderSent ==
  /\ rpc = "sent"
  /\ alive' = alive + 1
  /\ IF reqs[item].late THEN ReaderEnds
     ELSE rpc' = (IF reqs[item].safe THEN "loop" ELSE "wait") /\ UNCHANGED <<stream, chan>>
  /\ UNCHANGED <<conf, online, quit, item, reqs, idlequit, unread, tq, open, writer>>

\* The reader has no stream and waits for it to come back.
ReaderRecv ==
  /\ rpc = "wait" /\ chan # "empty"
  /\ IF chan = "none" THEN ReaderEnds
     ELSE rpc' = "loop" /\ stream' = "reader" /\ chan' = "empty"
  /\ UNCHANGED <<conf, online, quit, item, reqs, idlequit, unread, tq, open, alive, writer>>

\* task_queue.closed() ends the reader wherever it is; a request it was sending,
\* with the stream in it, is dropped with it.
ReaderCut ==
  /\ rpc # "done" /\ ~open
  /\ rpc' = "done" /\ chan' = "empty"
  /\ stream' = IF rpc = "send" \/ stream # "request" THEN "gone" ELSE stream
  /\ UNCHANGED <<conf, online, quit, item, reqs, idlequit, unread, tq, open, alive, writer>>

----------------------------------------------------------------------------
(* HttpProxyPipelineWriterTask.                                            *)

\* The writer's loop ends here: its end of the task queue is dropped, with the
\* requests in it and the stream one of them may carry.
WriterEnds ==
  /\ wpc' = "done" /\ open' = FALSE
  /\ stream' = IF stream = "request" THEN "gone" ELSE stream

\* The client gets k final responses to the request.
AnswerCur(k) == answered' = CASE k = 0 -> answered
                              [] k = 1 -> Append(answered, cur)
                              [] k = 2 -> Append(Append(answered, cur), cur)

\* run_untrusted closes at once with no_early_error_reply, for a blocked user, and
\* after two failures in a row; otherwise it runs the untrusted task.
ClosesAtOnce(auth, failed) == conf.noearly \/ auth = "blocked" \/ failed > 1

\* recv gets a request: authentication passes, fails, or finds a blocked user.
\* The writer goes to the task of the request or to the untrusted one, or closes.
WriterTakes(auth) ==
  /\ wpc = "recv" /\ tq # <<>> /\ Head(tq) # 0
  /\ cur' = Head(tq) /\ tq' = Tail(tq)
  /\ authfail' = IF auth = "ok" THEN 0 ELSE IF authfail = 2 THEN 2 ELSE authfail + 1
  /\ IF auth = "ok"
     THEN wpc' = "task" /\ UNCHANGED <<stream, open, goon, answered>>
     ELSE IF ClosesAtOnce(auth, authfail')
     THEN /\ wpc' = "del" /\ goon' = FALSE /\ open' = FALSE
          /\ stream' = IF reqs[cur'].safe THEN stream ELSE "gone"
          /\ answered' \in IF conf.noearly THEN {answered}
                           ELSE {answered, Append(answered, cur')}
     ELSE wpc' = "drain" /\ UNCHANGED <<stream, open, goon, answered>>
  /\ UNCHANGED <<conf, online, reader, unread, chan, alive, blocked, odd>>

\* recv gets an error response of the reader: reply and close.
WriterTakesError ==
  /\ wpc = "recv" /\ tq # <<>> /\ Head(tq) = 0
  /\ tq' = Tail(tq) /\ WriterEnds
  /\ UNCHANGED <<conf, online, reader, unread, chan, alive, cur, goon, authfail,
                 answered, blocked, odd>>

\* recv gets None: the reader is gone and the queue is empty.
WriterNone ==
  /\ wpc = "recv" /\ tq = <<>> /\ rpc = "done"
  /\ WriterEnds
  /\ UNCHANGED <<conf, online, reader, unread, chan, tq, alive, cur, goon, authfail,
                 answered, blocked, odd>>

\* A task is over.  The stream, if it came with the request, goes back over the
\* channel, or a None goes instead of it; without the stream the reader can only
\* be told by closing the task queue.
HandBack(close) ==
  /\ wpc' = "del"
  /\ IF reqs[cur].safe
     THEN goon' = ~close /\ open' = ~close /\ UNCHANGED <<stream, chan, blocked>>
     ELSE LET ok == rpc # "done" /\ chan = "empty" IN
          /\ goon' = (~close /\ ok)
          /\ stream' = IF close \/ ~ok THEN "gone" ELSE "chan"
          /\ chan' = IF ~ok THEN chan ELSE IF close THEN "none" ELSE "stream"
          /\ blocked' = (blocked \/ (~close /\ ~ok))
          /\ UNCHANGED open

\* A forward or FTP task ends: as usual it has answered and read its body, or it
\* closes.  Without keep-alive it closes.
TaskEnds(end, close, k) ==
  /\ wpc = "task" /\ reqs[cur].proto = "forward"
  /\ ~reqs[cur].keep => close
  /\ CASE end = "usual"     -> k \in {0, 1} /\ (~close => k = 1)
       [] end = "sockopt"   -> ~close /\ k = 0
       [] end = "unread"    -> ~close /\ k = 1 /\ reqs[cur].body
       [] end = "reconnect" -> close /\ k = 2 /\ reqs[cur].body
  /\ AnswerCur(k)
  /\ unread' = IF close \/ reqs[cur].safe \/ end # "usual" THEN unread ELSE FALSE
  /\ odd' = IF end = "usual" THEN odd ELSE odd \cup {<<cur, end>>}
  /\ HandBack(close)
  /\ UNCHANGED <<conf, online, reader, tq, alive, cur, authfail>>

\* HttpProxyConnectTask: connected or refused for good, the connection leaves
\* HTTP; a connect error is answered and may leave it open (back_to_http),
\* whatever the request said about keep-alive.
ConnectEnds(back) ==
  /\ wpc = "task" /\ reqs[cur].proto = "connect"
  /\ answered' \in IF back THEN {Append(answered, cur)} ELSE {answered, Append(answered, cur)}
  /\ HandBack(~back)
  /\ UNCHANGED <<conf, online, reader, unread, tq, alive, cur, authfail, odd>>

\* (wrong) the body is read without an answer.
UntrustedEndsSilent(close) ==
  /\ wpc = "drain"
  /\ ~reqs[cur].keep \/ (reqs[cur].body /\ ~conf.drain) => close
  /\ AnswerCur(IF close THEN 1 ELSE 0)
  /\ unread' = IF close \/ ~reqs[cur].body THEN unread ELSE FALSE
  /\ HandBack(close)
  /\ UNCHANGED <<conf, online, reader, tq, alive, cur, authfail, odd>>

\* (wrong) the answer goes out and the body stays where it is.
UntrustedEndsUnread(close) ==
  /\ wpc = "drain"
  /\ ~reqs[cur].keep => close
  /\ AnswerCur(1)
  /\ HandBack(close)
  /\ UNCHANGED <<conf, online, reader, unread, tq, alive, cur, authfail, odd>>

\* HttpProxyUntrustedTask: the 407 goes out first; a body is then read to its end
\* if that is allowed, and the connection closes if it is not or one of them fails.
UntrustedEnds(close) ==
  /\ wpc = "drain"
  /\ ~reqs[cur].keep \/ (reqs[cur].body /\ ~conf.drain) => close
  /\ \E k \in {0, 1} : (~close => k = 1) /\ AnswerCur(k)
  /\ unread' = IF close \/ ~reqs[cur].body THEN unread ELSE FALSE
  /\ HandBack(close)
  /\ UNCHANGED <<conf, online, reader, tq, alive, cur, authfail, odd>>

\* del_task, then the loop goes on or breaks.
WriterDone ==
  /\ wpc = "del"
  /\ alive' = alive - 1
  /\ IF goon THEN wpc' = "recv" /\ UNCHANGED <<open, stream>> ELSE WriterEnds
  /\ UNCHANGED <<conf, online, reader, unread, chan, tq, cur, goon, authfail,
                 answered, blocked, odd>>

----------------------------------------------------------------------------
\* The server is taken out of service (reload or quit).
GoOffline ==
  /\ online /\ online' = FALSE
  /\ UNCHANGED <<conf, reader, stream, unread, chan, tq, open, alive, writer>>

ReaderStep == ReaderLoop \/ ReaderSend \/ ReaderSent \/ ReaderRecv
ReaderTimer == ReadTimeout
Client == \/ ClientCloses
          \/ \E q \in Request : ParseRequest(q)
          \/ \E reply \in BOOLEAN : ParseFails(reply)
WriterStep == \/ WriterTakesError \/ WriterNone \/ WriterDone
              \/ \E auth \in {"ok", "failed", "blocked"} : WriterTakes(auth)
              \/ \E end \in {"usual"} \cup Odd, close \in BOOLEAN, k \in 0 .. 2 :
                   TaskEnds(end, close, k)
              \/ \E back \in BOOLEAN : ConnectEnds(back)
              \/ \E close \in BOOLEAN : UntrustedEnds(close)

Next == ReaderStep \/ ReaderCut \/ ReaderTimer \/ Client \/ WriterStep \/ GoOffline

Spec == Init /\ [][Next]_vars

\* The runtime polls both tasks (the reader's select polls task_queue.closed()
\* first) and timers fire.  That the task of a request ends is not assumed: one
\* may wait for an ICAP server or an upstream for ever (HttpForward's TaskEnds).
FairSpec == /\ Spec
            /\ WF_vars(ReaderStep) /\ WF_vars(ReaderCut) /\ WF_vars(ReaderTimer)
            /\ WF_vars(wpc # "task" /\ WriterStep)

----------------------------------------------------------------------------
(* Properties.                                                             *)

Serving == wpc \in {"task", "drain"}
Unfinished == {tq[i] : i \in 1 .. Len(tq)} \cup (IF Serving THEN {cur} ELSE {})

\* The client gets its answers in the order of its requests, one for each, and
\* none is passed over while the connection goes on
\* (HttpProxyPipelineWriterTask::into_running).  Only a request whose own task
\* ended for failed socket options goes without an answer, and only one whose own
\* task failed to reconnect has two, on a connection that then closes.
AnswersInOrder ==
  /\ \A i, j \in 1 .. Len(answered) :
       i < j => \/ answered[i] < answered[j]
                \/ answered[i] = answered[j] /\ <<answered[i], "reconnect">> \in odd
                     /\ wpc # "recv" /\ answered[i] = cur
  /\ wpc = "recv" => \A k \in 1 .. cur : \/ \E i \in 1 .. Len(answered) : answered[i] = k
                                        \/ <<k, "sockopt">> \in odd

\* A request header is parsed only where a request begins: the stream is back at
\* the reader inside a body, or its trailer, only when the task of the very
\* request the body belongs to had one of the two ends that leave it unread.
ParsesAtBoundary ==
  stream = "reader" /\ unread => \E end \in {"sockopt", "unread"} : <<Len(reqs), end>> \in odd

\* The unreachable!() arms of the writer and "http body is expected but no body
\* reader supplied": a task that needs the read half has it.  The state has its types.
TaskHasStream == TypeOK /\ (Serving /\ ~reqs[cur].safe => stream = "request")

\* "read end has closed, impossible as reader should be waiting this channel":
\* it happens, but only to a CONNECT that failed after the server went offline.
HandBackFailsOnlyOffline == blocked => reqs[cur].proto = "connect" /\ reqs[cur].late

\* The reader gives up an idle client only when no request is waiting or being
\* served, although alive_task is counted up after the send and down after the
\* stream went back.
QuitsOnlyIdle == idlequit => Unfinished = {}

\* Once the server is offline its connection comes to an end: the reader takes
\* one more request at most, and both tasks finish, unless the task of a request
\* never ends.
OfflineEnds == ~online ~> ((rpc = "done" /\ wpc = "done") \/ [](wpc = "task"))
=============================================================================
