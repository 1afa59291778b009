------------------------- MODULE HttpForwardProofs -------------------------
(***************************************************************************)
(* Safety of the HTTP forward task, for every number of requests, body     *)
(* size, set of upstreams and combination of rare events: the answers come *)
(* in order, bodies reach the upstream intact, the client's stream is      *)
(* handed back at the end of a body, and kept connections are clean.       *)
(***************************************************************************)
EXTENDS HttpForward, TLAPS

-----------------------------------------------------------------------------
(* The inductive invariant.                                                *)

Header == {i \in Item : i.kind # "part"}

OutRec == [n : 1 .. MaxRequests, from : 0 .. MaxRequests, whole : BOOLEAN,
           final : BOOLEAN]

Task == [sclose : BOOLEAN, senderr : BOOLEAN, retry : BOOLEAN, reused : BOOLEAN,
         branch : {"reused", "new"}, mode : {"none", "nobody", "all", "body", "adapt"},
         fast : Seq(Nat), cbuf : Seq(Nat), want : 0 .. MaxBody, nread : 0 .. MaxBody,
         rdone : BOOLEAN, closeup : BOOLEAN, cont : BOOLEAN,
         ad : {"none", "asked", "bypass", "feed", "orig", "adapted", "done"},
         hdr : Item \cup {NoItem}, rare : SUBSET Rare]

Places == {"idle", "checks", "connect", "reconnect", "start", "send", "rsp1",
           "copy", "adapt", "stalled", "final", "reply", "closed"}

\* The places at which the task holds an upstream connection.
Connected == {"start", "send", "rsp1", "copy", "adapt", "stalled", "final", "reply"}

Types ==
  /\ pc \in Places
  /\ n \in 0 .. MaxRequests
  /\ req \in Request /\ (req.expect => req.body > 0)
  /\ unread \in -MaxBody .. req.body
  /\ t \in Task
  /\ up \in Conn \cup {NoConn}
  /\ last \in Conn \cup {NoConn}
  /\ out \in Seq(OutRec)
  /\ pc = "reply" => t.hdr \in Header

\* Which connections there are at which place, and the requests they have seen.
Conns ==
  /\ pc \in Connected <=> up # NoConn
  /\ pc \notin {"idle", "checks", "closed"} => last = NoConn
  /\ pc \notin {"idle", "closed"} => n > 0
  /\ last # NoConn => last.cur <= n /\ (pc = "checks" => last.cur < n)
  /\ up # NoConn =>
       /\ up.cur <= n
       /\ pc \in {"start", "send"} \/ (pc = "adapt" /\ t.ad = "feed") => up.cur < n

\* The places at which the request is sent, its body copied, or adapted.
Sending == pc \in {"send", "reconnect", "rsp1"}
Copying == pc = "copy" \/ (pc = "stalled" /\ t.mode = "body")
Adapting == pc = "adapt" \/ (pc = "stalled" /\ t.mode = "adapt")

\* When the error of an attempt may lead to another one.
Retries ==
  /\ pc \in {"checks", "connect"} => t.branch = "new"
  /\ pc = "checks" => ~t.reused /\ ~t.retry /\ t.ad = "none"
  /\ pc \in Connected \cup {"reconnect"} => (t.reused => t.branch = "reused")
  /\ pc = "reconnect" => t.reused
  /\ pc = "start" /\ t.ad # "bypass" /\ t.branch = "reused" => ~t.retry
  /\ pc \in {"copy", "adapt", "stalled", "final", "reply"} /\ t.branch = "reused" => ~t.retry
  /\ pc = "start" => t.ad \in {"none", "asked", "bypass"}
  /\ pc = "connect" \/ Sending \/ Copying => t.ad \in {"none", "bypass"}
  /\ pc = "adapt" => t.ad \in {"feed", "orig", "adapted", "done"}

\* The mode of the attempt, and the units it has still to read.
Modes ==
  /\ pc = "send" => t.mode \in {"nobody", "all", "body"}
  /\ pc = "reconnect" => t.mode \in {"all", "body"}
  /\ pc = "rsp1" => t.mode \in {"nobody", "all"}
  /\ pc = "copy" => t.mode = "body"
  /\ pc = "adapt" => t.mode = "adapt"
  /\ pc \in {"stalled", "final"} => t.mode \in {"body", "adapt"}
  /\ Sending /\ t.mode # "body" => t.want = 0 /\ ~req.expect
  /\ Sending /\ t.mode = "nobody" => req.body = 0
  /\ Sending => t.want + Len(t.fast) = req.body
  /\ Copying => t.want + t.nread + Len(t.fast) = req.body
  /\ Adapting => t.want + t.nread = req.body
  /\ pc = "adapt" /\ t.ad = "feed" => Len(t.cbuf) = t.nread
  /\ pc = "adapt" /\ t.ad = "done" => t.want = 0 \/ "early" \in t.rare
  /\ pc = "adapt" /\ t.ad = "adapted" => t.want = 0 \/ "early" \in t.rare
  /\ pc \in {"send", "reconnect", "copy", "adapt", "stalled"} => (t.rdone => t.want = 0)

\* The task has not read the body a second time, after a failed connect inside a
\* body retry.
Exact == t.branch = "reused" \/ ~t.sclose \/ "reconnect" \notin t.rare

\* k units of the stream, behind the first a.
Units(a, k) == [i \in 1 .. k |-> a + i]

\* Where the client's stream stands.
Positions ==
  /\ pc = "checks" => unread = req.body
  /\ pc \in {"start", "connect"} => unread >= 0 /\ (Exact => unread = req.body)
  /\ Sending \/ Copying \/ Adapting => (Exact => unread = t.want)
  /\ Sending \/ Copying => (Exact => t.fast = Units(0, Len(t.fast)))
  /\ pc = "copy" \/ (pc = "adapt" /\ t.ad \in {"feed", "orig"}) =>
       (Exact => t.cbuf = Units(req.body - t.want - Len(t.cbuf), Len(t.cbuf)))
  /\ pc = "final" => (Exact /\ "early" \notin t.rare => unread = 0)
  /\ pc = "reply" => (~t.sclose /\ "early" \notin t.rare => unread = 0)
  /\ pc = "idle" => ("early" \notin t.rare /\ "sockopt" \notin t.rare => unread = 0)

\* What the upstream has got of the client's body, unless it has closed.
Delivered ==
  /\ up # NoConn /\ up.cur = n /\ ~up.adapted /\ Exact =>
       /\ up.got = Units(0, Len(up.got)) /\ Len(up.got) <= req.body
       /\ pc = "rsp1" => Len(up.got) = req.body
       /\ ~up.eof =>
            /\ pc = "copy" \/ (pc = "adapt" /\ t.ad = "orig") =>
                 Len(up.got) = req.body - t.want - Len(t.cbuf)
            /\ pc = "adapt" => t.ad # "adapted"
            /\ pc = "adapt" /\ t.ad = "done" => Len(up.got) = req.body
            /\ pc = "final" => Len(up.got) = req.body
            /\ pc = "reply" /\ ~t.sclose /\ ~t.closeup => Len(up.got) = req.body
  /\ last # NoConn /\ last.cur = n /\ ~last.adapted /\ ~last.eof => Len(last.got) = req.body

Between == pc \notin {"idle", "closed"}

\* No upstream has sent an interim response that is taken for the final one.
Behaved == "hint" \notin t.rare /\ "interim" \notin t.rare

\* The answers, and the request that is due for one.
Answers ==
  /\ "reconnect" \notin t.rare =>
       /\ \A i \in 1 .. Len(out) : out[i].n >= i
       /\ Len(out) <= n
       /\ Between => Len(out) < n
  /\ "reconnect" \notin t.rare /\ "sockopt" \notin t.rare =>
       /\ \A i \in 1 .. Len(out) : out[i].n = i
       /\ Between => Len(out) = n - 1
       /\ pc = "idle" => Len(out) = n
  /\ Behaved => \A i \in 1 .. Len(out) : out[i].from \in {0, out[i].n} /\ out[i].final

Clean(c) == c.todo = <<>> /\ c.rsp = <<>>

IsFinal(i) == i.kind # "hint" /\ (i.kind # "part" => i.for = n)

\* The first k items of q are interim responses, and there is none behind a 100.
Hints(q, k) == \A i \in 1 .. k : Interim(q[i]) /\ (q[i].code = 100 => i = k)
NoCont(q) == \A i \in 1 .. Len(q) : q[i].code # 100

\* The upstream owes the answer to the request, or has sent it: behind interim
\* responses that were asked for, or without any.
Owing ==
  /\ \/ up.todo = <<n>> /\ Hints(up.rsp, Len(up.rsp)) /\ (up.cont \/ NoCont(up.rsp))
     \/ /\ up.todo = <<>> /\ up.rsp # <<>>
        /\ Hints(up.rsp, Len(up.rsp) - 1) /\ IsFinal(up.rsp[Len(up.rsp)])
  /\ up.rsp # <<>> /\ up.rsp[1].kind = "hint" => req.expect /\ ~(pc = "final" /\ t.cont)

\* What is on the wire, as long as the upstreams behave.
Streams ==
  Behaved =>
    /\ last # NoConn => Clean(last)
    /\ up # NoConn => Clean(up) \/ (up.cur = n /\ pc # "reply" /\ Owing)
    /\ pc = "final" /\ t.cont /\ up.todo # <<>> => up.cont
    /\ pc = "reply" => IsFinal(t.hdr)

IInv == /\ Types /\ Conns /\ Retries /\ Modes
        /\ Positions /\ Delivered /\ Answers /\ Streams
-----------------------------------------------------------------------------
(* The steps, field by field.                                              *)

\* The fields of the task: those of the attempt, of the body, of the answer, and
\* the others but senderr.
KeepsAttempt ==
  t'.branch = t.branch /\ t'.mode = t.mode /\ t'.fast = t.fast /\ t'.reused = t.reused
KeepsBody ==
  t'.want = t.want /\ t'.nread = t.nread /\ t'.rdone = t.rdone /\ t'.cbuf = t.cbuf
KeepsAnswer ==
  t'.sclose = t.sclose /\ t'.closeup = t.closeup /\ t'.hdr = t.hdr /\ t'.cont = t.cont
KeepsNotes == t'.ad = t.ad /\ t'.retry = t.retry /\ t'.rare = t.rare

\* The other variables: the client's side, and with it the connections.
KeepsRequest == n' = n /\ req' = req /\ unread' = unread
KeepsClient == KeepsRequest /\ last' = last /\ out' = out
KeepsWorld == KeepsClient /\ up' = up

\* out, with nothing or with an answer to the request behind it that is the
\* proxy's own or, if the upstreams behave, one to that request.
AnswersOnce ==
  \/ out' = out
  \/ \E r \in OutRec :
       /\ out' = Append(out, r) /\ r.n = n
       /\ Behaved => r.from \in {0, n} /\ r.final

Takes ==
  /\ pc = "idle" /\ pc' = "checks" /\ n < MaxRequests /\ n' = n + 1
  /\ req' \in Request /\ (req'.expect => req'.body > 0) /\ unread' = req'.body
  /\ t' \in Task /\ t'.branch = "new" /\ ~t'.reused /\ ~t'.retry /\ t'.ad = "none"
  /\ t'.rare = t.rare
  /\ up' = up /\ out' = out
  /\ \/ last = NoConn /\ last' = NoConn
     \/ /\ last \in Conn /\ last' \in Conn
        /\ last'.cur = last.cur /\ last'.todo = last.todo /\ last'.rsp = last.rsp

LeavesUnanswered ==
  /\ pc = "checks" /\ pc' \in {"idle", "closed"}
  /\ t' \in Task /\ t'.rare = t.rare \cup {"sockopt"}
  /\ KeepsWorld

Reuses ==
  /\ pc = "checks" /\ pc' = "start" /\ last \in Conn /\ up' = last /\ last' = NoConn
  /\ t' \in Task /\ t'.branch = "reused" /\ ~t'.retry /\ t'.ad = t.ad /\ t'.rare = t.rare
  /\ KeepsRequest /\ out' = out

NoneAlive ==
  /\ pc = "checks" /\ pc' = "connect" /\ last' = NoConn
  /\ t' = t /\ KeepsRequest /\ up' = up /\ out' = out

Connects ==
  /\ \/ pc = "connect" /\ pc' = "start"
     \/ pc = "reconnect" /\ pc' = "send"
  /\ up' \in Conn /\ up'.cur = 0 /\ up'.todo = <<>> /\ up'.rsp = <<>>
  /\ t' \in Task /\ ~t'.reused /\ t'.branch = t.branch /\ t'.mode = t.mode /\ t'.fast = t.fast
  /\ KeepsBody /\ KeepsAnswer /\ KeepsNotes /\ KeepsClient

ReconnectFails ==
  /\ pc = "reconnect" /\ pc' = "connect" /\ up' = NoConn
  /\ t' \in Task /\ t'.sclose /\ t'.branch = "new" /\ t'.ad = "none"
  /\ t'.rare = t.rare \cup {"reconnect"}
  /\ KeepsRequest /\ last' = last /\ AnswersOnce

Consults ==
  /\ pc = "start" /\ pc' = "start" /\ t' \in Task /\ t'.ad \in {"asked", "bypass"}
  /\ t'.ad = "asked" => t.ad = "none" /\ t'.retry = t.retry
  /\ t'.rare = t.rare
  /\ KeepsAttempt /\ KeepsAnswer /\ KeepsWorld

StartsAdaptation ==
  /\ pc = "start" /\ pc' = "adapt" /\ t.ad = "asked"
  /\ t' \in Task /\ t'.ad = "feed" /\ t'.mode = "adapt" /\ t'.retry = t.retry
  /\ t'.branch = t.branch /\ t'.reused = t.reused /\ t'.rare = t.rare
  /\ t'.want = req.body /\ t'.nread = 0 /\ t'.cbuf = <<>> /\ ~t'.rdone
  /\ KeepsAnswer /\ KeepsWorld

StartsAttempt ==
  \E k \in 0 .. req.body, seen \in BOOLEAN :
    /\ pc = "start" /\ pc' = "send" /\ t.ad # "asked"
    /\ (req.expect => k = 0) /\ (seen => k = req.body /\ k > 0)
    /\ t' \in Task
    /\ t'.mode = IF req.body = 0 THEN "nobody" ELSE IF seen THEN "all" ELSE "body"
    /\ t'.fast = Units(req.body - unread, k) /\ t'.want = req.body - k /\ ~t'.rdone
    /\ t'.branch = t.branch /\ t'.reused = t.reused
    /\ KeepsNotes /\ KeepsAnswer
    /\ n' = n /\ req' = req /\ unread' = unread - k /\ up' = up /\ last' = last /\ out' = out

\* The request's header, with body, was written on the connection.
SendsOn(body, adapted) ==
  /\ up \in Conn
  /\ \/ up.eof /\ up' = up
     \/ /\ up' \in Conn /\ ~up'.eof
        /\ up'.todo = Append(up.todo, n) /\ up'.cur = n /\ up'.got = body
        /\ up'.adapted = adapted /\ up'.rsp = up.rsp

SendsHeader ==
  /\ pc = "send" /\ t.mode = "body" /\ pc' = "copy" /\ SendsOn(<<>>, FALSE)
  /\ t' \in Task /\ ~t'.retry /\ t'.cbuf = t.fast /\ t'.nread = 0
  /\ t'.want = t.want /\ t'.rdone = t.rdone /\ t'.ad = t.ad /\ t'.rare = t.rare
  /\ KeepsAttempt /\ KeepsAnswer /\ KeepsClient

SendsAll ==
  /\ pc = "send" /\ t.mode # "body" /\ pc' = "rsp1" /\ SendsOn(t.fast, FALSE)
  /\ t' \in Task /\ t'.ad = t.ad /\ t'.rare = t.rare
  /\ KeepsAttempt /\ KeepsBody /\ KeepsAnswer /\ KeepsClient

Reading == pc = "copy" \/ (pc = "adapt" /\ t.ad \in {"feed", "orig", "adapted"})

ReadsEnd ==
  /\ Reading /\ pc' = pc /\ t.want = 0
  /\ t' \in Task /\ t'.want = t.want /\ t'.nread = t.nread /\ t'.cbuf = t.cbuf
  /\ KeepsAttempt /\ KeepsAnswer /\ KeepsNotes /\ KeepsWorld

ReadsUnit ==
  /\ Reading /\ pc' = pc /\ t.want > 0 /\ ~t'.rdone
  /\ unread > -MaxBody /\ unread' = unread - 1
  /\ t' \in Task /\ t'.want = t.want - 1 /\ t'.nread = t.nread + 1
  /\ t'.cbuf = IF t.ad = "adapted" THEN t.cbuf ELSE t.cbuf \o Units(req.body - unread, 1)
  /\ KeepsAttempt /\ KeepsAnswer /\ KeepsNotes
  /\ n' = n /\ req' = req /\ up' = up /\ last' = last /\ out' = out

Writes ==
  /\ pc = "copy" \/ (pc = "adapt" /\ t.ad = "orig")
  /\ pc' = pc /\ t.cbuf # <<>> /\ up \in Conn /\ up' \in Conn
  /\ up'.cur = up.cur /\ up'.adapted = up.adapted /\ up'.eof = up.eof /\ up'.rsp = up.rsp
  /\ up'.todo = up.todo /\ up'.cont = up.cont
  /\ up'.got = IF up.eof THEN up.got ELSE Append(up.got, Head(t.cbuf))
  /\ t' \in Task /\ t'.cbuf = Tail(t.cbuf)
  /\ t'.want = t.want /\ t'.nread = t.nread /\ t'.rdone = t.rdone
  /\ KeepsAttempt /\ KeepsAnswer /\ KeepsNotes /\ KeepsClient

BodySent ==
  /\ \/ pc = "copy" /\ t.rdone /\ t.cbuf = <<>>
     \/ pc = "adapt" /\ t.ad = "done"
  /\ pc' = "final" /\ t' \in Task /\ ~t'.cont /\ t'.sclose = t.sclose
  /\ KeepsAttempt /\ KeepsBody /\ KeepsNotes /\ KeepsWorld

Stalls == pc \in {"copy", "adapt"} /\ pc' = "stalled" /\ t' = t /\ KeepsWorld

\* A header was read from the connection.
ReadsHeader ==
  /\ up \in Conn /\ up' \in Conn /\ up.rsp # <<>> /\ Head(up.rsp) \in Header
  /\ up'.rsp = Tail(up.rsp) /\ up'.todo = up.todo /\ up'.cur = up.cur /\ up'.got = up.got
  /\ up'.adapted = up.adapted /\ up'.cont = up.cont /\ up'.eof = up.eof

PassesHint ==
  /\ pc \in {"copy", "adapt", "final"} /\ pc' = pc
  /\ ReadsHeader /\ Interim(Head(up.rsp))
  /\ t' \in Task /\ (pc = "final" => ~t.cont /\ (t'.cont <=> Head(up.rsp).code = 100))
  /\ t'.sclose = t.sclose /\ t'.closeup = t.closeup
  /\ KeepsAttempt /\ KeepsBody /\ KeepsNotes /\ KeepsClient

GetsResponse ==
  /\ pc' = "reply" /\ ReadsHeader
  /\ t' \in Task /\ t'.hdr = Head(up.rsp) /\ t'.rare = t.rare
  /\ t'.branch = t.branch /\ t'.reused = t.reused
  /\ \/ pc = "rsp1" /\ ~t'.retry /\ t'.sclose = t.sclose
     \/ /\ pc = "copy" /\ t'.retry = t.retry /\ ~Interim(Head(up.rsp))
        /\ t'.sclose = (t.sclose \/ ~t.rdone)
        /\ t'.closeup = ~(t.rdone /\ t.cbuf = <<>>)
     \/ /\ pc = "final" /\ t'.retry = t.retry /\ t'.sclose = t.sclose
        /\ Interim(Head(up.rsp)) => t.cont
     \/ /\ pc = "adapt" /\ t'.retry = t.retry /\ ~Interim(Head(up.rsp))
        /\ t'.sclose = \/ t.sclose
                       \/ ~(req.body = 0 \/ (t.want = 0 /\ t.ad \in {"adapted", "done"}))
        /\ t'.closeup = (t.ad # "done")
  /\ KeepsClient

Responds ==
  /\ pc = "reply" /\ up' = NoConn
  /\ \E r \in OutRec : /\ out' = Append(out, r) /\ r.n = n
                       /\ r.from = t.hdr.for /\ r.final = (t.hdr.kind # "hint")
  /\ t' \in Task /\ t'.rare = t.rare
  /\ \/ pc' = "closed" /\ last' = last
     \/ pc' = "idle" /\ ~t.sclose /\ (last' = last \/ (~t.closeup /\ last' = up))
  /\ KeepsRequest

TakesOriginal ==
  /\ pc = "adapt" /\ pc' = "adapt" /\ t.ad = "feed" /\ SendsOn(<<>>, FALSE)
  /\ t' \in Task /\ t'.ad = "orig" /\ t'.retry = t.retry /\ t'.rare = t.rare
  /\ KeepsAttempt /\ KeepsBody /\ KeepsAnswer /\ KeepsClient

TakesAdapted ==
  /\ pc = "adapt" /\ pc' = "adapt" /\ t.ad = "feed" /\ SendsOn(<<>>, TRUE)
  /\ t' \in Task /\ t'.ad = "adapted" /\ t'.retry = t.retry
  /\ \/ t.want = 0 /\ t'.rare = t.rare
     \/ t'.rare = t.rare \cup {"early"}
  /\ t'.want = t.want /\ t'.nread = t.nread /\ t'.rdone = t.rdone
  /\ KeepsAttempt /\ KeepsAnswer /\ KeepsClient

SendsLast ==
  /\ pc = "adapt" /\ pc' = "adapt"
  /\ t.ad = "adapted" \/ (t.ad = "orig" /\ t.want = 0 /\ t.cbuf = <<>>)
  /\ t' \in Task /\ t'.ad = "done" /\ t'.retry = t.retry /\ t'.rare = t.rare
  /\ KeepsAttempt /\ KeepsBody /\ KeepsAnswer /\ KeepsWorld

\* The upstream of connection c turns it into d.
UpstreamTurns(c, d) ==
  /\ c \in Conn /\ d \in Conn /\ ~c.eof
  /\ d.cur = c.cur /\ d.got = c.got /\ d.adapted = c.adapted
  /\ \/ d.todo = c.todo /\ d.rsp = c.rsp /\ d.cont = c.cont
     \/ /\ c.todo # <<>> /\ d.todo = c.todo
        /\ "hint" \in t'.rare \/ req.expect
        /\ \E h \in Item : /\ h.kind = "hint" /\ d.rsp = Append(c.rsp, h)
                           /\ d.cont <=> c.cont \/ h.code = 100
                           /\ "interim" \in t'.rare \/ (~c.cont /\ Interim(h))
     \/ /\ c.todo # <<>> /\ d.todo = Tail(c.todo)
        /\ \E i \in Item : /\ i.kind # "hint" /\ (i.kind # "part" => i.for = Head(c.todo))
                           /\ d.rsp = Append(c.rsp, i)

\* And the task notes what is rare about it.
Notes ==
  /\ t' \in Task /\ t.rare \subseteq t'.rare
  /\ \A e \in {"reconnect", "early", "sockopt"} : e \in t'.rare => e \in t.rare
  /\ t'.ad = t.ad /\ t'.retry = t.retry
  /\ KeepsAttempt /\ KeepsBody /\ KeepsAnswer

UpstreamMoves == UpstreamTurns(up, up') /\ pc' = pc /\ Notes /\ KeepsClient

KeptMoves ==
  /\ last # NoConn /\ (UpstreamTurns(last, last') \/ last' = NoConn)
  /\ pc' = pc /\ up' = up /\ Notes /\ KeepsRequest /\ out' = out

Closes ==
  /\ pc \notin {"idle", "closed"} /\ pc' = "closed" /\ up' = NoConn
  /\ t' \in Task /\ t'.rare = t.rare
  /\ KeepsRequest /\ last' = last /\ AnswersOnce

TriesNew ==
  /\ pc \in Connected /\ pc' = "connect" /\ up' = NoConn /\ unread = req.body
  /\ t' \in Task /\ t'.rare = t.rare /\ t'.branch = "new" /\ t'.ad = "none"
  /\ KeepsClient

Reconnects ==
  /\ pc' = "reconnect" /\ up' = NoConn /\ t.reused /\ t.mode \in {"all", "body"}
  /\ pc \in {"send", "rsp1"} \/ (Copying /\ t.nread = 0)
  /\ t' \in Task /\ t'.ad = t.ad /\ t'.rare = t.rare
  /\ KeepsAttempt /\ KeepsBody /\ KeepsAnswer /\ KeepsClient
-----------------------------------------------------------------------------
(* Every step is one of these.                                             *)

(* A connection is not the lack of one.                                    *)
LEMMA SomeConn ==
  ASSUME NEW c \in Conn
  PROVE  c # NoConn
<1>1. "eof" \in DOMAIN c
  BY Zenon DEF Conn
<1>2. DOMAIN NoConn = {"host"}
  BY Zenon DEF NoConn
<1> QED
  BY <1>1, <1>2

(* What is taken from a sequence, and what is left of it.                  *)
LEMMA HeadTail ==
  ASSUME NEW S, NEW q \in Seq(S), q # <<>>
  PROVE  Head(q) \in S /\ Tail(q) \in Seq(S)
OBVIOUS

(* The numbers and sequences a fresh task holds.                           *)
LEMMA Fresh ==
  /\ 0 \in 0 .. MaxBody /\ 0 \in 0 .. MaxRequests /\ 0 \in 0 .. MaxHints
  /\ <<>> \in Seq(Nat)
BY HttpForwardAssumption

(* An answer the proxy makes itself is an answer to the request.           *)
LEMMA OwnAnswer ==
  ASSUME Types, n > 0, NEW w \in BOOLEAN, out' = Answer(0, w, TRUE)
  PROVE  AnswersOnce
<1> DEFINE r == [n |-> n, from |-> 0, whole |-> w, final |-> TRUE]
<1>1. r \in OutRec /\ r.n = n /\ r.from = 0 /\ r.final
  BY HttpForwardAssumption DEF Types, OutRec
<1> QED
  BY <1>1, Zenon DEF AnswersOnce, Answer

(* So is its reply, written or not.                                        *)
LEMMA ReplyOnce ==
  ASSUME Types, n > 0, Reply
  PROVE  AnswersOnce
BY OwnAnswer, Zenon DEF Reply, AnswersOnce

(* Taking a request (HttpProxyPipelineWriterTask).                         *)
LEMMA TakeStep ==
  ASSUME IInv, TakeRequest
  PROVE  Takes
<1>1. t.rare \in SUBSET Rare /\ req'.keep \in BOOLEAN
  BY Zenon DEF IInv, Types, Task, Request, TakeRequest
<1>2. /\ t' \in Task /\ t'.branch = "new" /\ ~t'.reused /\ ~t'.retry /\ t'.ad = "none"
      /\ t'.rare = t.rare
  BY <1>1, Fresh, ZenonT(60) DEF NewTask, Task, TakeRequest
<1>3. \/ last = NoConn /\ last' = NoConn
      \/ /\ last \in Conn /\ last' \in Conn
         /\ last'.cur = last.cur /\ last'.todo = last.todo /\ last'.rsp = last.rsp
  BY Fresh, Zenon DEF TakeRequest, IInv, Types, Conn
<1> QED
  BY <1>2, <1>3, Zenon DEF Takes, TakeRequest

(* The checks before the connection.                                       *)
LEMMA CheckSteps ==
  ASSUME IInv, \E refused \in BOOLEAN : StopAtChecks(refused)
  PROVE  LeavesUnanswered \/ Closes
<1>1. Types /\ n > 0 /\ t \in Task /\ pc = "checks" /\ up = NoConn
  BY Zenon DEF IInv, Types, Conns, Connected, StopAtChecks
<1>2. CASE Refuse /\ UNCHANGED <<n, req, unread, up, last>>
  <2>1. t' \in Task /\ t'.rare = t.rare
    BY <1>1, <1>2, Zenon DEF Task, Refuse
  <2> QED
    BY <1>1, <1>2, <2>1, ReplyOnce, Zenon DEF Closes, Refuse, Finish, KeepsRequest
<1>3. CASE /\ Finish(t.sclose) /\ t' = After(t, {"sockopt"}) /\ UNCHANGED out
           /\ UNCHANGED <<n, req, unread, up, last>>
  <2>1. t' \in Task /\ t'.rare = t.rare \cup {"sockopt"}
    BY <1>1, <1>3, Zenon DEF Task, Rare, After
  <2> QED
    BY <1>1, <1>3, <2>1, Zenon
    DEF LeavesUnanswered, Finish, KeepsRequest, KeepsClient, KeepsWorld
<1> QED
  BY <1>2, <1>3, Zenon DEF StopAtChecks

(* A kept connection, or none (get_alive_connection).                      *)
LEMMA AliveSteps ==
  ASSUME IInv, ReuseConnection \/ NoAliveConnection
  PROVE  Reuses \/ NoneAlive
<1>1. t \in Task /\ last \in Conn \cup {NoConn}
  BY Zenon DEF IInv, Types
<1>2. CASE ReuseConnection
  BY <1>1, <1>2, Zenon DEF ReuseConnection, Task, Reuses, KeepsRequest
<1>3. CASE NoAliveConnection
  BY <1>3, Zenon DEF NoAliveConnection, NoneAlive, KeepsRequest
<1> QED
  BY <1>2, <1>3, Zenon

(* get_new_connection.                                                     *)
LEMMA ConnectSteps ==
  ASSUME IInv, Connect
  PROVE  Connects \/ ReconnectFails \/ Closes
<1> PICK ok \in BOOLEAN : GetNewConnection(ok)
  BY Zenon DEF Connect
<1>1. /\ Types /\ t \in Task /\ pc \in {"connect", "reconnect"} /\ n > 0
      /\ KeepsRequest /\ last' = last
  BY Zenon DEF IInv, Types, Conns, GetNewConnection, KeepsRequest
<1>2. CASE ok
  <2>1. /\ up' = NewConn(req.host) /\ t' = [t EXCEPT !.reused = FALSE] /\ out' = out
        /\ pc' = IF pc = "connect" THEN "start" ELSE "send"
    BY <1>2, Zenon DEF GetNewConnection
  <2>2. /\ t' \in Task /\ ~t'.reused /\ t'.branch = t.branch /\ t'.mode = t.mode
        /\ t'.fast = t.fast /\ KeepsBody /\ KeepsAnswer /\ KeepsNotes
    BY <1>1, <2>1, ZenonT(60) DEF Task, KeepsBody, KeepsAnswer, KeepsNotes
  <2>3. up' \in Conn /\ up'.cur = 0 /\ up'.todo = <<>> /\ up'.rsp = <<>>
    BY <1>1, <2>1, Fresh DEF Types, Request, NewConn, Conn
  <2> QED
    BY <1>1, <2>1, <2>2, <2>3, Zenon DEF Connects, KeepsClient
<1>3. CASE ~ok
  <2> DEFINE new == [t EXCEPT !.reused = FALSE, !.sclose = TRUE,
                              !.branch = "new", !.ad = "none"]
  <2>1. /\ AnswersOnce /\ up' = NoConn
        /\ t' = IF pc = "reconnect" THEN After(new, {"reconnect"}) ELSE new
        /\ pc' = IF pc = "reconnect" THEN "connect" ELSE "closed"
    BY <1>1, <1>3, ReplyOnce, Zenon DEF GetNewConnection, Finish
  <2>2. /\ new \in Task /\ new.sclose /\ new.branch = "new" /\ new.ad = "none"
        /\ new.rare = t.rare
    BY <1>1, ZenonT(60) DEF Task
  <2> HIDE DEF new
  <2>3. CASE pc = "reconnect"
    BY <1>1, <2>1, <2>2, <2>3, ZenonT(60) DEF ReconnectFails, After, Task, Rare
  <2>4. CASE pc = "connect"
    BY <1>1, <2>1, <2>2, <2>4, Zenon DEF Closes
  <2> QED
    BY <1>1, <2>3, <2>4, Zenon
<1> QED
  BY <1>2, <1>3, Zenon

(* An error of an attempt: run_forward goes on to a new connection only    *)
(* with the client's stream at the beginning of the body, and otherwise    *)
(* the task ends.                                                          *)
LEMMA FailStep ==
  ASSUME IInv, pc \in Connected, NEW sent, NEW retry \in BOOLEAN, NEW senderr \in BOOLEAN,
         FailAfter(sent, retry, senderr), UNCHANGED <<n, req, unread, last>>,
         t.branch = "reused" /\ retry => unread = req.body /\ sent = out,
         out' = sent => AnswersOnce
  PROVE  Closes \/ TriesNew
<1>1. /\ Types /\ t \in Task /\ n > 0 /\ pc \notin {"idle", "closed"}
      /\ KeepsRequest /\ last' = last /\ up' = NoConn
  BY Zenon DEF IInv, Types, Conns, Connected, KeepsRequest, FailAfter
<1>2. CASE t.branch = "reused" /\ retry
  <2>1. /\ pc' = "connect" /\ out' = out /\ unread = req.body
        /\ t' = [t EXCEPT !.branch = "new", !.retry = TRUE, !.ad = "none",
                          !.senderr = senderr]
    BY <1>2, Zenon DEF FailAfter
  <2> QED
    BY <1>1, <2>1, ZenonT(60) DEF Task, TriesNew, KeepsClient
<1>3. CASE ~(t.branch = "reused" /\ retry)
  <2>1. /\ pc' = "closed" /\ AnswersOnce
        /\ t' = [t EXCEPT !.sclose = TRUE, !.senderr = senderr]
    BY <1>1, <1>3, ReplyOnce, Zenon DEF FailAfter, Finish
  <2> QED
    BY <1>1, <2>1, Zenon DEF Task, Closes
<1> QED
  BY <1>2, <1>3, Zenon

(* The same, nothing having been sent.                                     *)
LEMMA PlainFail ==
  ASSUME IInv, pc \in Connected, NEW retry \in BOOLEAN,
         Fail(retry), UNCHANGED <<n, req, unread, last>>,
         t.branch = "reused" /\ retry => unread = req.body
  PROVE  Closes \/ TriesNew
<1>1. t.senderr \in BOOLEAN
  BY Zenon DEF IInv, Types, Task
<1> QED
  BY <1>1, FailStep, Zenon DEF Fail, AnswersOnce

(* An error inside the loops that hold the body: they reconnect only when  *)
(* nothing was read but what they hold.                                    *)
LEMMA AttemptFailStep ==
  ASSUME IInv, NEW retry \in BOOLEAN,
         pc \in {"send", "rsp1", "copy", "stalled", "final"},
         AttemptFail(retry), UNCHANGED <<n, req, unread, last>>,
         retry => \/ pc \in {"send", "rsp1"}
                  \/ Copying /\ t.nread = 0
                  \/ t.branch = "new"
  PROVE  Closes \/ TriesNew \/ Reconnects
<1> DEFINE loops == t.mode = "all" \/ (t.mode = "body" /\ t.fast # <<>>)
<1>1. Types /\ t \in Task /\ pc \in Connected /\ (t.reused => t.branch = "reused")
  BY Zenon DEF IInv, Types, Connected, Retries
<1>2. CASE loops /\ t.reused /\ retry
  <2>1. pc' = "reconnect" /\ up' = NoConn /\ t' = [t EXCEPT !.retry = TRUE] /\ out' = out
    BY <1>2, Zenon DEF AttemptFail
  <2>2. /\ t' \in Task /\ t'.ad = t.ad /\ t'.rare = t.rare
        /\ KeepsAttempt /\ KeepsBody /\ KeepsAnswer
    BY <1>1, <2>1, ZenonT(60) DEF Task, KeepsAttempt, KeepsBody, KeepsAnswer
  <2> QED
    BY <1>1, <1>2, <2>1, <2>2, Zenon DEF Reconnects, KeepsRequest, KeepsClient
<1>3. CASE ~loops
  <2>1. ASSUME t.branch = "reused", retry PROVE unread = req.body
    <3>1. req.body \in Nat /\ t.want \in Nat /\ t.nread \in Nat
      BY <1>1, HttpForwardAssumption DEF Types, Request, Task
    <3>2. CASE pc \in {"send", "rsp1"}
      <4>1. /\ unread = t.want /\ t.want + Len(t.fast) = req.body
            /\ t.mode # "body" => t.want = 0 /\ req.body = 0
        BY <1>3, <2>1, <3>2, Zenon DEF IInv, Positions, Modes, Sending, Exact
      <4> QED
        BY <1>3, <3>1, <4>1
    <3>3. CASE Copying /\ t.nread = 0
      <4>1. /\ unread = t.want /\ t.want + t.nread + Len(t.fast) = req.body
            /\ t.mode = "body"
        BY <2>1, <3>3, Zenon DEF IInv, Positions, Modes, Copying, Exact
      <4> QED
        BY <1>3, <3>1, <3>3, <4>1
    <3> QED
      BY <2>1, <3>2, <3>3, Zenon
  <2> QED
    BY <1>1, <1>3, <2>1, PlainFail, Zenon DEF AttemptFail
<1>4. CASE loops /\ ~(t.reused /\ retry)
  BY <1>1, <1>4, PlainFail, Zenon DEF AttemptFail
<1> QED
  BY <1>2, <1>3, <1>4, Zenon

(* run_with_connection, up to the choice of a mode.                        *)
LEMMA StartSteps ==
  ASSUME IInv, Start
  PROVE  Consults \/ StartsAdaptation \/ StartsAttempt \/ Closes \/ TriesNew
<1>1. Types /\ t \in Task /\ pc = "start" /\ pc \in Connected /\ t.retry \in BOOLEAN
  BY Zenon DEF IInv, Types, Task, Connected, Start, StaleConnection, AskAdapter,
     StartAdaptation, ClientClosed, NoAdapter, StartAttempt
<1>2. t.branch = "reused" => unread = req.body
  BY <1>1, Zenon DEF IInv, Positions, Exact
<1>3. req.body \in 0 .. MaxBody /\ unread \in Int /\ unread <= req.body
  BY <1>1, HttpForwardAssumption DEF Types, Request
<1>4. CASE StaleConnection \/ ClientClosed \/ NoAdapter(FALSE)
  BY <1>1, <1>2, <1>4, PlainFail, Zenon DEF StaleConnection, ClientClosed, NoAdapter
<1>5. CASE NoAdapter(TRUE)
  <2>1. /\ t' = [t EXCEPT !.retry = TRUE, !.ad = "bypass"]
        /\ UNCHANGED <<pc, n, req, unread, up, last, out>>
    BY <1>5, Zenon DEF NoAdapter
  <2> QED
    BY <1>1, <2>1, Zenon DEF Task, Consults, KeepsAttempt, KeepsAnswer,
       KeepsRequest, KeepsClient, KeepsWorld
<1>6. CASE StartAdaptation
  BY <1>1, <1>3, <1>6, Fresh, ZenonT(60)
  DEF StartAdaptation, Task, StartsAdaptation, KeepsAnswer,
     KeepsRequest, KeepsClient, KeepsWorld
<1>7. ASSUME NEW k \in 0 .. MaxBody, NEW seen \in BOOLEAN, StartAttempt(k, seen)
      PROVE  StartsAttempt
  <2> DEFINE m == IF req.body = 0 THEN "nobody" ELSE IF seen THEN "all" ELSE "body"
  <2>1. /\ pc' = "send" /\ n' = n /\ req' = req /\ unread' = unread - k /\ up' = up
        /\ last' = last /\ out' = out
        /\ k <= req.body /\ (req.expect => k = 0) /\ (seen => k = req.body /\ k > 0)
        /\ t.ad # "asked"
        /\ t' = [t EXCEPT !.mode = m, !.fast = Units(req.body - unread, k),
                          !.want = req.body - k, !.rdone = FALSE]
    BY <1>7, Zenon DEF StartAttempt, NextUnits, Units
  <2>2. /\ k \in 0 .. req.body /\ req.body - k \in 0 .. MaxBody
        /\ \A i \in 1 .. k : req.body - unread + i \in Nat
    BY <1>3, <2>1, HttpForwardAssumption
  <2>3. Units(req.body - unread, k) \in Seq(Nat)
    BY <2>2 DEF Units
  <2>4. m \in {"none", "nobody", "all", "body", "adapt"}
    BY Zenon
  <2> HIDE DEF m
  <2>5. /\ t' \in Task
        /\ t'.mode = m /\ t'.fast = Units(req.body - unread, k) /\ t'.want = req.body - k
        /\ ~t'.rdone /\ t'.branch = t.branch /\ t'.reused = t.reused
        /\ KeepsNotes /\ KeepsAnswer
    BY <1>1, <2>1, <2>2, <2>3, <2>4, ZenonT(60) DEF Task, KeepsNotes, KeepsAnswer
  <2> QED
    BY <1>1, <2>1, <2>2, <2>5, Zenon DEF StartsAttempt, m
<1>8. CASE AskAdapter
  BY <1>1, <1>8, Zenon DEF AskAdapter, Task, Consults, KeepsAttempt, KeepsAnswer, KeepsRequest,
     KeepsClient, KeepsWorld
<1> QED
  BY <1>4, <1>5, <1>6, <1>7, <1>8, Zenon DEF Start

(* send_request_header on a connection, closed or not.                     *)
LEMMA SentStep ==
  ASSUME IInv, pc \in Connected, NEW body \in Seq(Nat), NEW ad \in BOOLEAN,
         up' = Sent(body, ad)
  PROVE  SendsOn(body, ad)
<1>1. up \in Conn
  BY Zenon DEF IInv, Types, Conns
<1>2. CASE up.eof
  BY <1>1, <1>2, Zenon DEF Sent, SendsOn
<1>3. CASE ~up.eof
  <2>1. up' = [up EXCEPT !.todo = Append(up.todo, n), !.cur = n, !.got = body,
                         !.adapted = ad]
    BY <1>3, Zenon DEF Sent
  <2>2. n \in 1 .. MaxRequests /\ n \in 0 .. MaxRequests
    BY HttpForwardAssumption DEF IInv, Types, Conns, Connected
  <2>3. up.todo \in Seq(1 .. MaxRequests)
    BY <1>1, Zenon DEF Conn
  <2>4. Append(up.todo, n) \in Seq(1 .. MaxRequests)
    BY <2>2, <2>3
  <2>5. up' \in Conn
    BY <1>1, <2>1, <2>2, <2>4, ZenonT(60) DEF Conn
  <2> QED
    BY <1>1, <1>3, <2>1, <2>5, Zenon DEF SendsOn, Conn
<1> QED
  BY <1>2, <1>3, Zenon

(* A response header is read.                                              *)
LEMMA ReadStep ==
  ASSUME up \in Conn, Arrived, up' = Read
  PROVE  ReadsHeader
<1>1. up.rsp \in Seq(Item) /\ up.rsp # <<>> /\ Head(up.rsp).kind # "part"
  BY Zenon DEF Conn, Arrived
<1>2. Head(up.rsp) \in Item /\ Tail(up.rsp) \in Seq(Item)
  BY <1>1, HeadTail, Zenon
<1> QED
  BY <1>1, <1>2, Zenon DEF ReadsHeader, Header, Read, Conn

(* The steps of an attempt that send the request.                          *)
LEMMA SendSteps ==
  ASSUME IInv, SendRequest \/ CopyRead \/ CopyWrite \/ CopyDone \/ HeaderStalls
  PROVE  SendsHeader \/ SendsAll \/ ReadsEnd \/ ReadsUnit \/ Writes \/ BodySent \/ Stalls
<1>1. Types /\ t \in Task /\ pc \in Connected
  BY Zenon DEF IInv, Types, Connected, SendRequest, CopyRead, CopyWrite, CopyDone, HeaderStalls
<1>2. t.fast \in Seq(Nat) /\ t.cbuf \in Seq(Nat)
  BY <1>1, Zenon DEF Task
<1>3. CASE SendRequest /\ t.mode = "body"
  <2>1. /\ t' = [t EXCEPT !.retry = FALSE, !.cbuf = t.fast, !.nread = 0]
        /\ pc = "send" /\ pc' = "copy" /\ up' = Sent(<<>>, FALSE)
        /\ UNCHANGED <<n, req, unread, last, out>>
    BY <1>3, Zenon DEF SendRequest
  <2>2. SendsOn(<<>>, FALSE)
    BY <1>1, <2>1, Fresh, SentStep, Zenon
  <2> QED
    BY <1>1, <1>2, <1>3, <2>1, <2>2, Fresh, ZenonT(60)
    DEF Task, SendsHeader, KeepsAttempt, KeepsAnswer, KeepsRequest, KeepsClient
<1>4. CASE SendRequest /\ t.mode # "body"
  <2>1. /\ t' = [t EXCEPT !.retry = TRUE]
        /\ pc = "send" /\ pc' = "rsp1" /\ up' = Sent(t.fast, FALSE)
        /\ UNCHANGED <<n, req, unread, last, out>>
    BY <1>4, Zenon DEF SendRequest
  <2>2. SendsOn(t.fast, FALSE)
    BY <1>1, <1>2, <2>1, SentStep, Zenon
  <2> QED
    BY <1>1, <1>4, <2>1, <2>2, Zenon
    DEF Task, SendsAll, KeepsAttempt, KeepsBody, KeepsAnswer, KeepsRequest, KeepsClient
<1>5. CASE CopyRead /\ t.want = 0
  <2>1. /\ t' = [t EXCEPT !.rdone = TRUE] /\ Reading
        /\ UNCHANGED <<pc, n, req, unread, up, last, out>>
    BY <1>5, Zenon DEF CopyRead, Reading
  <2> QED
    BY <1>1, <1>5, <2>1, ZenonT(60) DEF Task, ReadsEnd, KeepsAttempt, KeepsAnswer, KeepsNotes,
       KeepsRequest, KeepsClient, KeepsWorld
<1>6. CASE CopyRead /\ t.want # 0
  <2> DEFINE c == IF t.ad = "adapted" THEN t.cbuf ELSE t.cbuf \o Units(req.body - unread, 1)
  <2>1. /\ t' = [t EXCEPT !.want = t.want - 1, !.nread = t.nread + 1, !.cbuf = c]
        /\ Reading /\ ~t.rdone /\ unread > -MaxBody /\ unread' = unread - 1
        /\ UNCHANGED <<pc, n, req, up, last, out>>
    BY <1>6, Zenon DEF CopyRead, Reading, NextUnits, Units
  <2>2. /\ req.body \in 0 .. MaxBody /\ unread \in Int /\ unread <= req.body
        /\ t.want \in 0 .. MaxBody /\ t.nread \in 0 .. MaxBody
    BY <1>1, HttpForwardAssumption DEF Types, Request, Task
  <2>3. t.want + t.nread <= req.body
    <3>1. \/ t.want + t.nread + Len(t.fast) = req.body
          \/ t.want + t.nread = req.body
      BY <2>1, Zenon DEF IInv, Modes, Reading, Copying, Adapting
    <3> QED
      BY <1>2, <2>2, <3>1
  <2>4. t.want > 0 /\ t.want - 1 \in 0 .. MaxBody /\ t.nread + 1 \in 0 .. MaxBody
    BY <1>6, <2>2, <2>3, HttpForwardAssumption
  <2>5. t.cbuf \o Units(req.body - unread, 1) \in Seq(Nat)
    <3>1. req.body - unread + 1 \in Nat
      BY <2>2
    <3>2. Units(req.body - unread, 1) \in Seq(Nat)
      BY <2>2, <3>1 DEF Units
    <3> QED
      BY <1>2, <3>2
  <2>6. c \in Seq(Nat)
    BY <1>2, <2>5, Zenon
  <2> HIDE DEF c
  <2>7. /\ t' \in Task /\ t'.want = t.want - 1 /\ t'.nread = t.nread + 1 /\ t'.cbuf = c
        /\ ~t'.rdone /\ KeepsAttempt /\ KeepsAnswer /\ KeepsNotes
    BY <1>1, <2>1, <2>4, <2>6, Zenon DEF Task, KeepsAttempt, KeepsAnswer, KeepsNotes
  <2> QED
    BY <2>1, <2>4, <2>7, Zenon DEF ReadsUnit, c
<1>7. CASE CopyWrite
  <2>1. /\ pc = "copy" \/ (pc = "adapt" /\ t.ad = "orig")
        /\ t.cbuf # <<>> /\ t' = [t EXCEPT !.cbuf = Tail(t.cbuf)]
        /\ up' = IF up.eof THEN up ELSE [up EXCEPT !.got = Append(up.got, Head(t.cbuf))]
        /\ UNCHANGED <<pc, n, req, unread, last, out>>
    BY <1>7, Zenon DEF CopyWrite
  <2>2. up \in Conn /\ up.got \in Seq(Nat)
    BY <1>1, Zenon DEF IInv, Types, Conns, Conn
  <2>3. Tail(t.cbuf) \in Seq(Nat) /\ Append(up.got, Head(t.cbuf)) \in Seq(Nat)
    BY <1>2, <2>1, <2>2
  <2>4. /\ up' \in Conn
        /\ up'.cur = up.cur /\ up'.adapted = up.adapted /\ up'.eof = up.eof
        /\ up'.rsp = up.rsp /\ up'.todo = up.todo /\ up'.cont = up.cont
        /\ up'.got = IF up.eof THEN up.got ELSE Append(up.got, Head(t.cbuf))
    BY <2>1, <2>2, <2>3, Zenon DEF Conn
  <2>5. /\ t' \in Task /\ t'.cbuf = Tail(t.cbuf)
        /\ t'.want = t.want /\ t'.nread = t.nread /\ t'.rdone = t.rdone
        /\ KeepsAttempt /\ KeepsAnswer /\ KeepsNotes
    BY <1>1, <2>1, <2>3, Zenon DEF Task, KeepsAttempt, KeepsAnswer, KeepsNotes
  <2> QED
    BY <2>1, <2>2, <2>4, <2>5, Zenon DEF Writes, KeepsRequest, KeepsClient
<1>8. CASE CopyDone
  BY <1>1, <1>8, ZenonT(60) DEF CopyDone, Task, BodySent, KeepsAttempt, KeepsBody, KeepsNotes,
     KeepsRequest, KeepsClient, KeepsWorld
<1>9. CASE HeaderStalls
  BY <1>9, Zenon DEF HeaderStalls, Stalls, KeepsRequest, KeepsClient, KeepsWorld
<1> QED
  BY <1>3, <1>4, <1>5, <1>6, <1>7, <1>8, <1>9, ZenonT(60)

(* The steps that read a response header, interim or final.                *)
LEMMA ReceiveSteps ==
  ASSUME IInv, RecvResponse \/ CopyInterrupted \/ RecvFinal \/ AdaptInterrupted
  PROVE  PassesHint \/ GetsResponse
<1>1. /\ Types /\ t \in Task /\ pc \in Connected /\ Arrived /\ up' = Read /\ KeepsClient
  BY Zenon DEF IInv, Types, Connected, KeepsRequest, KeepsClient, RecvResponse,
     CopyInterrupted, RecvFinal, AdaptInterrupted
<1>2. ReadsHeader
  BY <1>1, ReadStep, Zenon DEF IInv, Types, Conns
<1>3. Head(up.rsp) \in Item \cup {NoItem}
  BY <1>2, Zenon DEF ReadsHeader, Header
<1>4. CASE RecvResponse
  BY <1>1, <1>2, <1>3, <1>4, ZenonT(60) DEF RecvResponse, Task, GetsResponse
<1>5. CASE CopyInterrupted /\ Interim(Head(up.rsp))
  BY <1>1, <1>2, <1>5, Zenon
  DEF CopyInterrupted, PassesHint, KeepsAttempt, KeepsBody, KeepsNotes
<1>6. CASE CopyInterrupted /\ ~Interim(Head(up.rsp))
  <2> DEFINE s == t.sclose \/ ~t.rdone
             c == ~(t.rdone /\ t.cbuf = <<>>)
  <2>1. /\ pc = "copy" /\ pc' = "reply" /\ s \in BOOLEAN /\ c \in BOOLEAN
        /\ t' = [t EXCEPT !.hdr = Head(up.rsp), !.sclose = s, !.closeup = c]
    BY <1>6, Zenon DEF CopyInterrupted
  <2> HIDE DEF s, c
  <2>2. /\ t' \in Task /\ t'.hdr = Head(up.rsp) /\ t'.retry = t.retry /\ t'.rare = t.rare
        /\ t'.branch = t.branch /\ t'.reused = t.reused /\ t'.sclose = s /\ t'.closeup = c
    BY <1>1, <1>3, <2>1, ZenonT(60) DEF Task
  <2> QED
    BY <1>1, <1>2, <1>6, <2>1, <2>2, Zenon DEF GetsResponse, s, c
<1>7. CASE RecvFinal /\ Interim(Head(up.rsp)) /\ ~t.cont
  <2>1. pc = "final" /\ pc' = pc /\ t' = [t EXCEPT !.cont = (Head(up.rsp).code = 100)]
    BY <1>7, Zenon DEF RecvFinal
  <2>2. /\ t' \in Task /\ t'.sclose = t.sclose /\ t'.closeup = t.closeup
        /\ t'.cont = (Head(up.rsp).code = 100)
        /\ KeepsAttempt /\ KeepsBody /\ KeepsNotes
    BY <1>1, <2>1, ZenonT(60) DEF Task, KeepsAttempt, KeepsBody, KeepsNotes
  <2> QED
    BY <1>1, <1>2, <1>7, <2>1, <2>2, Zenon DEF PassesHint
<1>8. CASE RecvFinal /\ ~(Interim(Head(up.rsp)) /\ ~t.cont)
  <2>1. /\ pc = "final" /\ pc' = "reply"
        /\ t' = [t EXCEPT !.hdr = Head(up.rsp), !.closeup = FALSE]
    BY <1>8, Zenon DEF RecvFinal
  <2> QED
    BY <1>1, <1>2, <1>3, <1>8, <2>1, ZenonT(60) DEF Task, GetsResponse
<1>9. CASE AdaptInterrupted /\ Interim(Head(up.rsp))
  BY <1>1, <1>2, <1>9, Zenon
  DEF AdaptInterrupted, PassesHint, KeepsAttempt, KeepsBody, KeepsNotes
<1>10. CASE AdaptInterrupted /\ ~Interim(Head(up.rsp))
  <2> DEFINE s == \/ t.sclose
                  \/ ~(req.body = 0 \/ (t.want = 0 /\ t.ad \in {"adapted", "done"}))
             c == t.ad # "done"
  <2>1. /\ pc = "adapt" /\ pc' = "reply" /\ s \in BOOLEAN /\ c \in BOOLEAN
        /\ t' = [t EXCEPT !.hdr = Head(up.rsp), !.sclose = s, !.closeup = c]
    BY <1>10, Zenon DEF AdaptInterrupted
  <2> HIDE DEF s, c
  <2>2. /\ t' \in Task /\ t'.hdr = Head(up.rsp) /\ t'.retry = t.retry /\ t'.rare = t.rare
        /\ t'.branch = t.branch /\ t'.reused = t.reused /\ t'.sclose = s /\ t'.closeup = c
    BY <1>1, <1>3, <2>1, ZenonT(60) DEF Task
  <2> QED
    BY <1>1, <1>2, <1>10, <2>1, <2>2, Zenon DEF GetsResponse, s, c
<1> QED
  BY <1>4, <1>5, <1>6, <1>7, <1>8, <1>9, <1>10, ZenonT(60)

(* The steps at which an attempt fails.                                    *)
LEMMA AttemptFails ==
  ASSUME IInv,
         \/ SendRequestFails \/ CopyFails \/ RecvResponseTimeout \/ RecvFinalFails
         \/ \E seen \in BOOLEAN : RecvResponseFails(seen) \/ CopyEnded(seen)
  PROVE  Closes \/ TriesNew \/ Reconnects
<1>1. t.retry \in BOOLEAN /\ t.branch \in {"reused", "new"}
  BY Zenon DEF IInv, Types, Task
<1>2. CASE SendRequestFails \/ CopyFails \/ RecvResponseTimeout
  BY <1>2, AttemptFailStep, Zenon DEF SendRequestFails, CopyFails, RecvResponseTimeout
<1>3. CASE RecvFinalFails
  BY <1>1, <1>3, AttemptFailStep, Zenon DEF IInv, Retries, RecvFinalFails
<1>4. ASSUME NEW seen \in BOOLEAN, RecvResponseFails(seen)
      PROVE  Closes \/ TriesNew \/ Reconnects
  <2>1. (~seen) \in BOOLEAN
    OBVIOUS
  <2> QED
    BY <1>4, <2>1, AttemptFailStep, Zenon DEF RecvResponseFails
<1>5. ASSUME NEW seen \in BOOLEAN, CopyEnded(seen)
      PROVE  Closes \/ TriesNew \/ Reconnects
  <2>1. (~seen /\ t.nread = 0) \in BOOLEAN
    OBVIOUS
  <2>2. Copying /\ pc \in {"copy", "stalled"}
    BY <1>5, Zenon DEF CopyEnded, Copying
  <2> QED
    BY <1>5, <2>1, <2>2, AttemptFailStep, Zenon DEF CopyEnded
<1> QED
  BY <1>2, <1>3, <1>4, <1>5, Zenon

(* run_with_adaptation.                                                    *)
LEMMA AdaptSteps ==
  ASSUME IInv,
         \/ AdaptOriginal \/ AdaptAdapted \/ AdaptSent \/ AdaptDone \/ AdaptRefused
         \/ \E icap \in BOOLEAN : AdaptFails(icap)
         \/ \E seen \in BOOLEAN : AdaptEnded(seen)
  PROVE  TakesOriginal \/ TakesAdapted \/ SendsLast \/ BodySent \/ Closes \/ TriesNew
<1>1. Types /\ t \in Task /\ pc \in Connected /\ pc \in {"adapt", "stalled"} /\ n > 0
  BY Zenon DEF IInv, Types, Conns, Connected, AdaptOriginal, AdaptAdapted, AdaptSent,
     AdaptDone, AdaptRefused, AdaptFails, AdaptEnded
<1>2. CASE AdaptOriginal
  <2>1. SendsOn(<<>>, FALSE)
    BY <1>1, <1>2, Fresh, SentStep, Zenon DEF AdaptOriginal
  <2> QED
    BY <1>1, <1>2, <2>1, Zenon DEF AdaptOriginal, Task, TakesOriginal, KeepsAttempt, KeepsBody,
       KeepsAnswer, KeepsRequest, KeepsClient
<1>3. CASE AdaptAdapted
  <2> DEFINE new == [t EXCEPT !.ad = "adapted", !.cbuf = <<>>]
  <2>1. /\ pc = "adapt" /\ pc' = "adapt" /\ t.ad = "feed"
        /\ t' = IF t.want = 0 THEN new ELSE After(new, {"early"})
        /\ UNCHANGED <<n, req, unread, last, out>>
    BY <1>3, Zenon DEF AdaptAdapted
  <2>2. SendsOn(<<>>, TRUE)
    BY <1>1, <1>3, Fresh, SentStep, Zenon DEF AdaptAdapted
  <2>3. /\ new \in Task
        /\ new.ad = "adapted" /\ new.retry = t.retry /\ new.rare = t.rare
        /\ new.want = t.want /\ new.nread = t.nread /\ new.rdone = t.rdone
        /\ new.branch = t.branch /\ new.mode = t.mode /\ new.fast = t.fast
        /\ new.reused = t.reused /\ new.sclose = t.sclose /\ new.closeup = t.closeup
        /\ new.hdr = t.hdr /\ new.cont = t.cont
    BY <1>1, Fresh, Zenon DEF Task
  <2> HIDE DEF new
  <2>4. /\ t' \in Task
        /\ t'.ad = "adapted" /\ t'.retry = t.retry
        /\ t'.want = t.want /\ t'.nread = t.nread /\ t'.rdone = t.rdone
        /\ KeepsAttempt /\ KeepsAnswer
        /\ \/ t.want = 0 /\ t'.rare = t.rare
           \/ t'.rare = t.rare \cup {"early"}
    <3>1. CASE t.want = 0
      BY <2>1, <2>3, <3>1, Zenon DEF KeepsAttempt, KeepsAnswer
    <3>2. CASE t' = [new EXCEPT !.rare = new.rare \cup {"early"}]
      BY <2>3, <3>2, Zenon DEF Task, Rare, KeepsAttempt, KeepsAnswer
    <3> QED
      BY <2>1, <3>1, <3>2, Zenon DEF After
  <2> QED
    BY <2>1, <2>2, <2>4, Zenon DEF TakesAdapted, KeepsRequest, KeepsClient
<1>4. CASE AdaptSent
  BY <1>1, <1>4, Zenon DEF AdaptSent, Task, SendsLast, KeepsAttempt, KeepsBody, KeepsAnswer,
     KeepsRequest, KeepsClient, KeepsWorld
<1>5. CASE AdaptDone
  BY <1>1, <1>5, Zenon DEF AdaptDone, Task, BodySent, KeepsAttempt, KeepsBody, KeepsNotes,
     KeepsRequest, KeepsClient, KeepsWorld
<1>6. CASE AdaptRefused
  <2>1. AnswersOnce
    BY <1>1, <1>6, OwnAnswer, Zenon DEF AdaptRefused
  <2> QED
    BY <1>1, <1>6, <2>1, Zenon DEF AdaptRefused, Finish, Task, Closes, KeepsRequest
<1>7. ASSUME Adapting, t.nread = 0, t.branch = "reused" PROVE unread = req.body
  <2>1. unread = t.want /\ t.want + t.nread = req.body
    BY <1>7, Zenon DEF IInv, Positions, Modes, Exact
  <2>2. t.want \in Int
    BY <1>1, HttpForwardAssumption DEF Task
  <2> QED
    BY <1>7, <2>1, <2>2
<1>8. t.retry \in BOOLEAN /\ (t.branch = "reused" => ~t.retry)
  BY <1>1, Zenon DEF Task, IInv, Retries
<1>9. ASSUME NEW retry \in BOOLEAN, Adapting, Fail(retry), UNCHANGED <<n, req, unread, last>>,
             retry => t.nread = 0 \/ t.retry
      PROVE  Closes \/ TriesNew
  BY <1>1, <1>7, <1>8, <1>9, PlainFail, Zenon
<1>10. ASSUME NEW icap \in BOOLEAN, AdaptFails(icap) PROVE Closes \/ TriesNew
  BY <1>8, <1>9, <1>10, Zenon DEF AdaptFails, Adapting
<1>11. ASSUME NEW seen \in BOOLEAN, AdaptEnded(seen) PROVE Closes \/ TriesNew
  BY <1>8, <1>9, <1>11, Zenon DEF AdaptEnded, Adapting
<1> QED
  BY <1>2, <1>3, <1>4, <1>5, <1>6, <1>10, <1>11, ZenonT(60)

(* send_response and the ends of the task behind it.                       *)
LEMMA RespondSteps ==
  ASSUME IInv, Respond
  PROVE  Responds \/ Closes \/ TriesNew
<1>1. /\ Types /\ t \in Task /\ pc = "reply" /\ pc \in Connected /\ n > 0
      /\ KeepsRequest /\ t.hdr \in Header
      /\ t.retry \in BOOLEAN /\ (t.branch = "reused" => ~t.retry)
      /\ Behaved => IsFinal(t.hdr)
  BY Zenon DEF IInv, Types, Conns, Retries, Streams, Task, Connected, KeepsRequest, Respond,
     SendResponse, SendResponseFails, RespmodFails
<1>2. ASSUME NEW w \in BOOLEAN
      PROVE  LET r == [n |-> n, from |-> t.hdr.for, whole |-> w, final |-> t.hdr.kind # "hint"]
             IN  /\ r \in OutRec /\ r.n = n /\ r.from = t.hdr.for
                 /\ r.final = (t.hdr.kind # "hint")
  <2>1. t.hdr \in [kind : {"hint", "rsp", "cut"}, for : 1 .. MaxRequests, keep : BOOLEAN,
                   code : {100, 102, 103, 200}]
    BY <1>1 DEF Header, Item
  <2>2. t.hdr.for \in 0 .. MaxRequests /\ n \in 1 .. MaxRequests
    BY <1>1, <2>1, HttpForwardAssumption DEF Types
  <2> QED
    BY <2>1, <2>2, ZenonT(60) DEF OutRec
<1>3. CASE SendResponse
  <2> DEFINE s == t.sclose \/ ~t.hdr.keep
  <2>1. /\ out' = Answer(t.hdr.for, TRUE, t.hdr.kind # "hint") /\ up' = NoConn
        /\ pc' = IF s THEN "closed" ELSE "idle"
        /\ t' = [t EXCEPT !.sclose = s, !.senderr = FALSE]
        /\ last' = IF s \/ t.closeup THEN last ELSE up
        /\ s \in BOOLEAN /\ (~s => ~t.sclose)
    BY <1>3, Zenon DEF SendResponse, Finish
  <2> HIDE DEF s
  <2>2. t' \in Task /\ t'.rare = t.rare
    BY <1>1, <2>1, ZenonT(60) DEF Task
  <2>3. \/ pc' = "closed" /\ last' = last
        \/ pc' = "idle" /\ ~t.sclose /\ (last' = last \/ (~t.closeup /\ last' = up))
    BY <2>1, Zenon
  <2> QED
    BY <1>1, <1>2, <2>1, <2>2, <2>3, ZenonT(60) DEF Responds, Answer
<1>4. CASE SendResponseFails
  <2> DEFINE sent == Answer(t.hdr.for, FALSE, t.hdr.kind # "hint")
  <2>1. FailAfter(sent, t.retry, FALSE) /\ UNCHANGED <<n, req, unread, last>>
    BY <1>4, Zenon DEF SendResponseFails
  <2>2. Behaved => t.hdr.for = n /\ t.hdr.kind # "hint"
    BY <1>1, Zenon DEF IsFinal, Header
  <2>3. out' = sent => AnswersOnce
    BY <1>2, <2>2, Zenon DEF AnswersOnce, Answer
  <2> HIDE DEF sent
  <2> QED
    BY <1>1, <2>1, <2>3, FailStep, Zenon
<1>5. CASE RespmodFails
  BY <1>1, <1>5, PlainFail, Zenon DEF RespmodFails
<1> QED
  BY <1>3, <1>4, <1>5, Zenon DEF Respond

(* What an upstream does to its connection.                                *)
LEMMA UpstreamStep ==
  ASSUME t \in Task, NEW c \in Conn, NEW s \in UpstreamSteps(c), ~c.eof, t' = After(t, s.rare)
  PROVE  UpstreamTurns(c, s.to) /\ Notes
<1> DEFINE r == Head(c.todo)
           rsp(kind, keep) == [kind |-> kind, for |-> r, keep |-> keep, code |-> 200]
           hint(code) == [kind |-> "hint", for |-> r, keep |-> TRUE, code |-> code]
           hinted(code) == [c EXCEPT !.rsp = Append(@, hint(code)), !.hints = @ + 1,
                                     !.cont = @ \/ code = 100]
           odd(code) == (IF req.expect THEN {} ELSE {"hint"})
                        \cup (IF code = 102 \/ c.cont THEN {"interim"} ELSE {})
           answered(i, close) == [c EXCEPT !.rsp = Append(@, i), !.todo = Tail(@),
                                           !.eof = close, !.hints = 0, !.cont = FALSE]
           step(to, events) == [to |-> to, rare |-> events]
<1>1. c.rsp \in Seq(Item) /\ c.todo \in Seq(1 .. MaxRequests)
  BY Zenon DEF Conn
<1>2. c.todo # <<>> => r \in 1 .. MaxRequests /\ Tail(c.todo) \in Seq(1 .. MaxRequests)
  BY <1>1, HeadTail, Zenon
<1>3. \A i \in Item : Append(c.rsp, i) \in Seq(Item)
  BY <1>1
<1>4. ASSUME s.rare \in SUBSET {"hint", "interim", "stall"}
      PROVE  t'.rare = t.rare \cup s.rare /\ Notes
  <2> DEFINE e == t.rare \cup s.rare
  <2>1. /\ t' = [t EXCEPT !.rare = e] /\ e \in SUBSET Rare /\ t.rare \subseteq e
        /\ \A x \in {"reconnect", "early", "sockopt"} : x \in e => x \in t.rare
    BY <1>4, ZenonT(60) DEF After, Task, Rare
  <2> HIDE DEF e
  <2>2. /\ t' \in Task /\ t'.rare = e /\ t'.ad = t.ad /\ t'.retry = t.retry
        /\ KeepsAttempt /\ KeepsBody /\ KeepsAnswer
    BY <2>1, ZenonT(60) DEF Task, KeepsAttempt, KeepsBody, KeepsAnswer
  <2> QED
    BY <2>1, <2>2, Zenon DEF Notes, e
<1>5. ASSUME c.todo # <<>>, NEW i \in Item, NEW close \in BOOLEAN,
             i.kind # "hint", i.kind # "part" => i.for = r
      PROVE  UpstreamTurns(c, answered(i, close))
  <2> DEFINE a == answered(i, close)
             q == Append(c.rsp, i)
             l == Tail(c.todo)
  <2>1. a = [c EXCEPT !.rsp = q, !.todo = l, !.eof = close, !.hints = 0, !.cont = FALSE]
    BY Zenon
  <2>2. q \in Seq(Item) /\ l \in Seq(1 .. MaxRequests) /\ 0 \in 0 .. MaxHints
    BY <1>2, <1>3, <1>5, HttpForwardAssumption
  <2> HIDE DEF a, q, l
  <2>3. a \in Conn
    BY <2>1, <2>2, <1>5, ZenonT(60) DEF Conn
  <2>4. /\ a.rsp = q /\ a.todo = l /\ a.cur = c.cur /\ a.got = c.got /\ a.adapted = c.adapted
    BY <2>1, ZenonT(60) DEF Conn
  <2>5. \E j \in Item : /\ j.kind # "hint" /\ (j.kind # "part" => j.for = Head(c.todo))
                        /\ a.rsp = Append(c.rsp, j)
    BY <1>5, <2>4, Zenon DEF q
  <2>6. a.todo = Tail(c.todo)
    BY <2>4, Zenon DEF l
  <2>7. UpstreamTurns(c, a)
    BY <1>5, <2>3, <2>4, <2>5, <2>6, ZenonT(60) DEF UpstreamTurns
  <2> QED
    BY <2>7, Zenon DEF a
<1>6. ASSUME c.todo # <<>>, c.hints < MaxHints, NEW code \in {100, 102, 103},
             s = step(hinted(code), odd(code))
      PROVE  UpstreamTurns(c, s.to) /\ Notes
  <2> DEFINE a == hinted(code)
             h == hint(code)
             q == Append(c.rsp, h)
             k == c.hints + 1
             b == c.cont \/ code = 100
             o == odd(code)
  <2>1. a = [c EXCEPT !.rsp = q, !.hints = k, !.cont = b] /\ s.to = a /\ s.rare = o
    BY <1>6, Zenon
  <2>2. h \in Item /\ h.kind = "hint" /\ h.code = code
    BY <1>2, <1>6, ZenonT(60) DEF Item
  <2>3. c.hints \in 0 .. MaxHints /\ b \in BOOLEAN
    BY Zenon DEF Conn
  <2>4. q \in Seq(Item) /\ k \in 0 .. MaxHints
    BY <1>3, <1>6, <2>2, <2>3, HttpForwardAssumption
  <2>5. /\ o \in SUBSET {"hint", "interim", "stall"}
        /\ "hint" \in o \/ req.expect
        /\ "interim" \in o \/ (~c.cont /\ code # 102)
    BY Zenon
  <2>6. "interim" \in o \/ (~c.cont /\ Interim(h))
    BY <1>6, <2>2, <2>5, Zenon DEF Interim
  <2>7. b <=> c.cont \/ h.code = 100
    BY <2>2, Zenon
  <2> HIDE DEF a, h, q, k, b, o
  <2>8. a \in Conn
    <3>1. k \in 0 .. MaxHints /\ b \in BOOLEAN /\ q \in Seq(Item)
      BY <2>3, <2>4, Zenon
    <3>2. a = [c EXCEPT !.rsp = q, !.hints = k, !.cont = b]
      BY <2>1, Zenon
    <3> QED
      BY <3>1, <3>2, ZenonT(60) DEF Conn
  <2>9. /\ a.rsp = q /\ a.cont = b /\ a.todo = c.todo
        /\ a.cur = c.cur /\ a.got = c.got /\ a.adapted = c.adapted
    <3>1. a = [c EXCEPT !.rsp = q, !.hints = k, !.cont = b]
      BY <2>1, Zenon
    <3> QED
      BY <3>1, ZenonT(60) DEF Conn
  <2>10. t'.rare = t.rare \cup o /\ Notes
    BY <1>4, <2>1, <2>5, Zenon
  <2>11. /\ "hint" \in t'.rare \/ req.expect
         /\ \E j \in Item : /\ j.kind = "hint" /\ a.rsp = Append(c.rsp, j)
                            /\ a.cont <=> c.cont \/ j.code = 100
                            /\ "interim" \in t'.rare \/ (~c.cont /\ Interim(j))
    <3>1. /\ "hint" \in t'.rare \/ req.expect
          /\ "interim" \in t'.rare \/ (~c.cont /\ Interim(h))
      BY <2>5, <2>6, <2>10, Zenon
    <3>2. a.rsp = Append(c.rsp, h) /\ (a.cont <=> c.cont \/ h.code = 100)
      BY <2>7, <2>9, Zenon DEF q
    <3> QED
      BY <2>2, <3>1, <3>2, Zenon
  <2>12. UpstreamTurns(c, a)
    BY <1>6, <2>8, <2>9, <2>11, ZenonT(60) DEF UpstreamTurns
  <2> QED
    BY <2>1, <2>10, <2>12, Zenon
<1>7. ASSUME c.todo # <<>>, NEW keep \in BOOLEAN, NEW kind \in {"rsp", "cut"}
      PROVE  /\ rsp(kind, keep) \in Item /\ rsp(kind, keep).kind # "hint"
             /\ rsp(kind, keep).for = r
  BY <1>2, <1>7, ZenonT(60) DEF Item
<1>8. [kind |-> "part"] \in Item /\ [kind |-> "part"].kind = "part"
  BY Zenon DEF Item
<1>9. ASSUME s.to = [c EXCEPT !.eof = TRUE], s.rare = {} PROVE UpstreamTurns(c, s.to) /\ Notes
  <2> DEFINE a == s.to
  <2>1. a = [c EXCEPT !.eof = TRUE]
    BY <1>9, Zenon
  <2> HIDE DEF a
  <2>2. a \in Conn
    BY <2>1, Zenon DEF Conn
  <2>3. /\ a.rsp = c.rsp /\ a.todo = c.todo /\ a.cur = c.cur /\ a.got = c.got
        /\ a.adapted = c.adapted /\ a.cont = c.cont
    BY <2>1, Zenon DEF Conn
  <2>4. UpstreamTurns(c, a)
    BY <2>2, <2>3, Zenon DEF UpstreamTurns
  <2> QED
    BY <1>4, <1>9, <2>4, Zenon DEF a
<1> HIDE DEF hinted, odd, answered, hint, rsp, r
<1>10. ASSUME c.todo # <<>>, NEW i \in Item, NEW close \in BOOLEAN, NEW e \in {{}, {"stall"}},
              i.kind # "hint", i.kind # "part" => i.for = r, s = step(answered(i, close), e)
       PROVE  UpstreamTurns(c, s.to) /\ Notes
  <2>1. s.to = answered(i, close) /\ s.rare = e /\ e \in SUBSET {"hint", "interim", "stall"}
    BY <1>10, Zenon
  <2> QED
    BY <1>4, <1>5, <1>10, <2>1, Zenon
<1>11. \/ /\ c.todo # <<>> /\ c.hints < MaxHints
          /\ \E code \in {100, 102, 103} : s = step(hinted(code), odd(code))
       \/ c.todo # <<>> /\ \E keep \in BOOLEAN : s = step(answered(rsp("rsp", keep), FALSE), {})
       \/ /\ c.todo # <<>>
          /\ \E i \in {rsp("cut", TRUE), rsp("rsp", FALSE), [kind |-> "part"]} :
               s = step(answered(i, TRUE), {})
       \/ c.todo # <<>> /\ s = step(answered([kind |-> "part"], FALSE), {"stall"})
       \/ s = step([c EXCEPT !.eof = TRUE], {})
  <2> DEFINE H == {step(hinted(code), odd(code)) : code \in {100, 102, 103}}
             A == {step(answered(rsp("rsp", keep), FALSE), {}) : keep \in BOOLEAN}
             B == {step(answered(i, TRUE), {}) :
                     i \in {rsp("cut", TRUE), rsp("rsp", FALSE), [kind |-> "part"]}}
             P == step(answered([kind |-> "part"], FALSE), {"stall"})
             E == step([c EXCEPT !.eof = TRUE], {})
  <2>1. s \in (IF c.todo # <<>> /\ c.hints < MaxHints THEN H ELSE {})
              \cup (IF c.todo # <<>> THEN A \cup B \cup {P} ELSE {})
              \cup {E}
    BY Zenon DEF UpstreamSteps, hinted, odd, answered, hint, rsp, r
  <2>2. /\ s \in H => \E code \in {100, 102, 103} : s = step(hinted(code), odd(code))
        /\ s \in A => \E keep \in BOOLEAN : s = step(answered(rsp("rsp", keep), FALSE), {})
        /\ s \in B => \E i \in {rsp("cut", TRUE), rsp("rsp", FALSE), [kind |-> "part"]} :
                        s = step(answered(i, TRUE), {})
    <3> HIDE DEF step
    <3> QED
      BY Zenon
  <2> HIDE DEF H, A, B
  <2>3. \/ c.todo # <<>> /\ c.hints < MaxHints /\ s \in H
        \/ c.todo # <<>> /\ (s \in A \/ s \in B \/ s = P)
        \/ s = E
    <3> HIDE DEF P, E, step
    <3> QED
      BY <2>1, Zenon
  <2> HIDE DEF step
  <2> QED
    BY <2>2, <2>3, Zenon
<1>12. ASSUME c.todo # <<>>, NEW keep \in BOOLEAN, s = step(answered(rsp("rsp", keep), FALSE), {})
       PROVE  UpstreamTurns(c, s.to) /\ Notes
  <2> HIDE DEF step
  <2> QED
    BY <1>7, <1>10, <1>12, ZenonT(60)
<1>13. ASSUME c.todo # <<>>, NEW i \in {rsp("cut", TRUE), rsp("rsp", FALSE), [kind |-> "part"]},
              s = step(answered(i, TRUE), {})
       PROVE  UpstreamTurns(c, s.to) /\ Notes
  <2> HIDE DEF step
  <2>1. i \in Item /\ i.kind # "hint" /\ (i.kind # "part" => i.for = r)
    <3>1. CASE i = rsp("cut", TRUE)
      BY <1>7, <1>13, <3>1, ZenonT(60)
    <3>2. CASE i = rsp("rsp", FALSE)
      BY <1>7, <1>13, <3>2, ZenonT(60)
    <3>3. CASE i = [kind |-> "part"]
      BY <1>8, <3>3, Zenon
    <3> QED
      BY <3>1, <3>2, <3>3, Zenon
  <2> QED
    BY <1>10, <1>13, <2>1, ZenonT(60)
<1>14. ASSUME c.todo # <<>>, s = step(answered([kind |-> "part"], FALSE), {"stall"})
       PROVE  UpstreamTurns(c, s.to) /\ Notes
  <2> HIDE DEF step
  <2> QED
    BY <1>8, <1>10, <1>14, ZenonT(60)
<1>15. ASSUME s = step([c EXCEPT !.eof = TRUE], {}) PROVE UpstreamTurns(c, s.to) /\ Notes
  <2>1. s.to = [c EXCEPT !.eof = TRUE] /\ s.rare = {}
    BY <1>15, Zenon
  <2> QED
    BY <1>9, <2>1, Zenon
<1> HIDE DEF step
<1> QED
  BY <1>6, <1>11, <1>12, <1>13, <1>14, <1>15, ZenonT(60)

(* The upstream of the connection in use.                                  *)
LEMMA UpstreamActsStep ==
  ASSUME IInv, UpstreamActs
  PROVE  UpstreamMoves
<1>1. t \in Task /\ up \in Conn /\ ~up.eof
  BY Zenon DEF IInv, Types, UpstreamActs
<1>2. PICK s \in UpstreamSteps(up) : up' = s.to /\ t' = After(t, s.rare)
  BY Zenon DEF UpstreamActs
<1>3. UpstreamTurns(up, s.to) /\ Notes
  BY <1>1, <1>2, UpstreamStep, Zenon
<1>4. UpstreamTurns(up, up')
  BY <1>2, <1>3, Zenon DEF UpstreamTurns
<1> QED
  BY <1>3, <1>4, Zenon DEF UpstreamActs, UpstreamMoves, KeepsRequest, KeepsClient

(* The upstream of the kept connection, and its poller.                    *)
LEMMA KeptSteps ==
  ASSUME IInv, KeptUpstreamActs \/ PollerCloses
  PROVE  KeptMoves
<1>1. t \in Task /\ last \in Conn
  BY Zenon DEF IInv, Types, KeptUpstreamActs, PollerCloses
<1>2. CASE KeptUpstreamActs
  <2>1. ~last.eof /\ \E s \in UpstreamSteps(last) : last' = s.to /\ t' = After(t, s.rare)
    BY <1>2, Zenon DEF KeptUpstreamActs
  <2>2. PICK s \in UpstreamSteps(last) : last' = s.to /\ t' = After(t, s.rare)
    BY <2>1, Zenon
  <2>3. UpstreamTurns(last, s.to) /\ Notes
    BY <1>1, <2>1, <2>2, UpstreamStep, Zenon
  <2>4. UpstreamTurns(last, last')
    BY <2>2, <2>3, Zenon DEF UpstreamTurns
  <2> QED
    BY <1>2, <2>3, <2>4, Zenon DEF KeptUpstreamActs, KeptMoves, KeepsRequest
<1>3. CASE PollerCloses
  BY <1>1, <1>3, Zenon DEF PollerCloses, KeptMoves, Notes, KeepsAttempt, KeepsBody, KeepsAnswer,
     KeepsRequest
<1> QED
  BY <1>2, <1>3, Zenon

\* The steps, grouped by what they do.
Opens == \/ Takes \/ LeavesUnanswered \/ Reuses \/ NoneAlive \/ Connects \/ ReconnectFails
         \/ Consults \/ StartsAdaptation \/ StartsAttempt
Sends == \/ SendsHeader \/ SendsAll \/ ReadsEnd \/ ReadsUnit \/ Writes \/ BodySent \/ Stalls
         \/ TakesOriginal \/ TakesAdapted \/ SendsLast
Ends == PassesHint \/ GetsResponse \/ Responds \/ Closes \/ TriesNew \/ Reconnects
Moves == UpstreamMoves \/ KeptMoves

(* Every step of the task and of its upstreams does one of these things.   *)
LEMMA Steps ==
  ASSUME IInv, [Next]_vars
  PROVE  UNCHANGED vars \/ Opens \/ Sends \/ Ends \/ Moves
<1>1. CASE TakeRequest
  BY <1>1, TakeStep, Zenon DEF Opens
<1>2. CASE TaskStep
  BY <1>2, CheckSteps, AliveSteps, ConnectSteps, StartSteps, SendSteps, ReceiveSteps,
     AttemptFails, AdaptSteps, RespondSteps, ZenonT(60)
  DEF TaskStep, Attempt, Adapt, Opens, Sends, Ends
<1>3. CASE UpstreamActs \/ KeptUpstreamActs \/ PollerCloses
  BY <1>3, UpstreamActsStep, KeptSteps, Zenon DEF Moves
<1> QED
  BY <1>1, <1>2, <1>3, Zenon DEF Next
-----------------------------------------------------------------------------
(* What each step keeps of the invariant.                                  *)

\* Some step, or none.
Some == UNCHANGED vars \/ Opens \/ Sends \/ Ends \/ Moves

(* The types.                                                              *)
LEMMA TypesNext ==
  ASSUME IInv, Some
  PROVE  Types'
<1>1. Types /\ t \in Task
  BY Zenon DEF IInv, Types
<1>2. CASE UNCHANGED vars
  BY <1>1, <1>2, Zenon DEF vars, Types
<1>3. /\ req.body \in 0 .. MaxBody /\ unread \in Int /\ -MaxBody <= unread /\ unread <= req.body
      /\ n \in Nat /\ n <= MaxRequests /\ MaxBody \in Nat /\ MaxRequests \in Nat
  BY <1>1, HttpForwardAssumption DEF Types, Request
<1>4. CASE Takes
  <2>1. n + 1 \in 0 .. MaxRequests /\ req'.body \in -MaxBody .. req'.body
    BY <1>3, <1>4 DEF Takes, Request
  <2> QED
    BY <1>1, <1>4, <2>1, Zenon DEF Takes, Types, Places
<1>5. CASE StartsAttempt
  <2>1. PICK k \in 0 .. req.body : unread' = unread - k
    BY <1>5, Zenon DEF StartsAttempt
  <2>2. unread >= 0
    BY <1>5, Zenon DEF StartsAttempt, IInv, Positions
  <2>3. unread' \in -MaxBody .. req.body
    BY <1>3, <2>1, <2>2, SMTT(30)
  <2> QED
    BY <1>1, <1>5, <2>3, Zenon DEF StartsAttempt, Types, Places
<1>6. CASE ReadsUnit
  <2>1. unread' \in -MaxBody .. req.body
    BY <1>3, <1>6 DEF ReadsUnit
  <2> QED
    BY <1>1, <1>6, <2>1, Zenon DEF ReadsUnit, Reading, Types, Places
<1>7. CASE \/ LeavesUnanswered \/ Reuses \/ NoneAlive \/ Connects \/ Consults
           \/ StartsAdaptation \/ TriesNew \/ Reconnects
  BY <1>1, <1>7, Zenon DEF LeavesUnanswered, Reuses, NoneAlive, Connects, Consults,
     StartsAdaptation, TriesNew, Reconnects, KeepsRequest, KeepsClient, KeepsWorld, Types,
     Places
<1>8. CASE \/ SendsHeader \/ SendsAll \/ ReadsEnd \/ Writes \/ BodySent \/ Stalls
           \/ TakesOriginal \/ TakesAdapted \/ SendsLast
  BY <1>1, <1>8, Zenon DEF SendsHeader, SendsAll, ReadsEnd, Reading, Writes, BodySent, Stalls,
     TakesOriginal, TakesAdapted, SendsLast, SendsOn, KeepsRequest, KeepsClient, KeepsWorld,
     Types, Places
<1>9. CASE PassesHint \/ GetsResponse
  BY <1>1, <1>9, Zenon DEF PassesHint, GetsResponse, ReadsHeader, KeepsRequest, KeepsClient,
     Types, Places
<1>10. CASE ReconnectFails \/ Closes \/ Responds
  <2>1. out \in Seq(OutRec) /\ \A r \in OutRec : Append(out, r) \in Seq(OutRec)
    BY <1>1 DEF Types
  <2>2. out' \in Seq(OutRec)
    BY <1>10, <2>1, Zenon DEF ReconnectFails, Closes, Responds, AnswersOnce
  <2> QED
    BY <1>1, <1>10, <2>2, Zenon
    DEF ReconnectFails, Closes, Responds, KeepsRequest, Types, Places
<1>11. CASE UpstreamMoves \/ KeptMoves
  BY <1>1, <1>11, ZenonT(60)
  DEF UpstreamMoves, KeptMoves, UpstreamTurns, Notes, KeepsAnswer, KeepsRequest, KeepsClient,
     Types
<1> QED
  BY <1>2, <1>4, <1>5, <1>6, <1>7, <1>8, <1>9, <1>10, <1>11, ZenonT(60)
  DEF Some, Opens, Sends, Ends, Moves

(* The connections.                                                        *)
LEMMA ConnsNext ==
  ASSUME IInv, Some
  PROVE  Conns'
<1>1. Types /\ Conns
  BY Zenon DEF IInv
<1>2. n \in Nat /\ n <= n /\ 0 <= n /\ (n > 0 => 0 < n)
  BY <1>1 DEF Types
<1>3. CASE UNCHANGED vars
  BY <1>1, <1>3, Zenon DEF vars, Conns
<1>4. CASE Takes
  <2>1. /\ n' = n + 1 /\ up' = NoConn
        /\ last' # NoConn => last'.cur <= n /\ last'.cur \in 0 .. MaxRequests
    BY <1>1, <1>4, SomeConn, Zenon DEF Takes, Conns, Connected, Conn
  <2>2. n' > 0 /\ (last' # NoConn => last'.cur < n' /\ last'.cur <= n')
    BY <1>2, <2>1
  <2> QED
    BY <1>4, <2>1, <2>2, Zenon DEF Takes, Conns, Connected
<1>5. CASE \/ LeavesUnanswered \/ NoneAlive \/ ReconnectFails \/ Responds \/ Closes
           \/ TriesNew \/ Reconnects
  BY <1>1, <1>5, Zenon DEF LeavesUnanswered, NoneAlive, ReconnectFails, Responds, Closes,
     TriesNew, Reconnects, Copying, Conns, Connected, KeepsRequest, KeepsClient, KeepsWorld
<1>6. CASE Reuses \/ Connects
  <2>1. up' \in Conn /\ n' = n
    BY <1>6, Zenon DEF Reuses, Connects, KeepsRequest, KeepsClient
  <2>2. up'.cur \in 0 .. MaxRequests
    BY <2>1, Zenon DEF Conn
  <2>3. up' # NoConn /\ (up'.cur < n' => up'.cur <= n')
    BY <1>2, <2>1, <2>2, SomeConn, SMTT(30)
  <2> QED
    BY <1>1, <1>2, <1>6, <2>3, Zenon
    DEF Reuses, Connects, Conns, Connected, KeepsRequest, KeepsClient
<1>7. CASE Consults \/ StartsAdaptation \/ StartsAttempt
  BY <1>1, <1>7, Zenon DEF Consults, StartsAdaptation, StartsAttempt, Conns, Connected,
     KeepsRequest, KeepsClient, KeepsWorld
<1>8. CASE SendsHeader \/ SendsAll \/ TakesOriginal \/ TakesAdapted
  BY <1>1, <1>2, <1>8, SomeConn, ZenonT(60)
  DEF SendsHeader, SendsAll, TakesOriginal, TakesAdapted,
     SendsOn, Conns, Connected, KeepsRequest, KeepsClient
<1>9. CASE ReadsEnd \/ ReadsUnit \/ Writes \/ BodySent \/ Stalls \/ SendsLast
  BY <1>1, <1>9, SomeConn, Zenon DEF ReadsEnd, ReadsUnit, Reading, Writes, BodySent, Stalls,
     SendsLast, Conns, Connected, KeepsNotes, KeepsRequest, KeepsClient, KeepsWorld
<1>10. CASE PassesHint \/ GetsResponse
  BY <1>1, <1>10, SomeConn, Zenon DEF PassesHint, GetsResponse, ReadsHeader, Conns, Connected,
     KeepsNotes, KeepsRequest, KeepsClient
<1>11. CASE UpstreamMoves
  <2>1. up # NoConn /\ up' # NoConn /\ up'.cur = up.cur
    BY <1>11, SomeConn, Zenon DEF UpstreamMoves, UpstreamTurns
  <2> QED
    BY <1>1, <1>11, <2>1, Zenon DEF UpstreamMoves, Notes, Conns, Connected, KeepsRequest,
       KeepsClient
<1>12. CASE KeptMoves
  <2>1. last' = NoConn \/ last'.cur = last.cur
    BY <1>12, Zenon DEF KeptMoves, UpstreamTurns
  <2> QED
    BY <1>1, <1>12, <2>1, Zenon DEF KeptMoves, Notes, Conns, Connected, KeepsRequest
<1> QED
  BY <1>3, <1>4, <1>5, <1>6, <1>7, <1>8, <1>9, <1>10, <1>11, <1>12, Zenon
  DEF Some, Opens, Sends, Ends, Moves

(* The errors that lead to another attempt.                                *)
LEMMA RetriesNext ==
  ASSUME IInv, Some
  PROVE  Retries'
<1>1. Retries /\ Modes
  BY Zenon DEF IInv
<1>2. CASE UNCHANGED vars \/ KeptMoves \/ UpstreamMoves
  BY <1>1, <1>2, ZenonT(60) DEF vars, KeptMoves, UpstreamMoves, Notes, KeepsAttempt, Retries, Sending,
     Copying
<1>3. CASE \/ Takes \/ LeavesUnanswered \/ Reuses \/ NoneAlive \/ ReconnectFails
           \/ Responds \/ Closes \/ TriesNew
  BY <1>1, <1>3, Zenon DEF Takes, LeavesUnanswered, Reuses, NoneAlive, ReconnectFails,
     Responds, Closes, TriesNew, Retries, Connected, Sending, Copying
<1>4. CASE Connects \/ Consults \/ StartsAdaptation \/ StartsAttempt \/ Reconnects
  BY <1>1, <1>4, ZenonT(60) DEF Connects, Consults, StartsAdaptation, StartsAttempt, Reconnects,
     KeepsAttempt, KeepsNotes, Retries, Connected, Sending, Copying
<1>5. CASE \/ SendsHeader \/ SendsAll \/ TakesOriginal \/ TakesAdapted \/ SendsLast
           \/ PassesHint \/ GetsResponse
  BY <1>1, <1>5, Zenon DEF SendsHeader, SendsAll, TakesOriginal, TakesAdapted, SendsLast,
     PassesHint, GetsResponse, KeepsAttempt, KeepsNotes, Retries, Connected, Sending, Copying
<1>6. CASE ReadsEnd \/ ReadsUnit \/ Writes \/ BodySent \/ Stalls
  BY <1>1, <1>6, ZenonT(60) DEF ReadsEnd, ReadsUnit, Reading, Writes, BodySent, Stalls,
     KeepsAttempt, KeepsNotes, Retries, Modes, Connected, Sending, Copying
<1> QED
  BY <1>2, <1>3, <1>4, <1>5, <1>6, Zenon DEF Some, Opens, Sends, Ends, Moves

(* The units of a stream: how they begin, grow and shrink.                 *)
LEMMA UnitsSeq ==
  ASSUME NEW a \in Int, NEW k \in Nat
  PROVE  Units(a, k) \in Seq(Int) /\ Len(Units(a, k)) = k
BY DEF Units

(* One more unit behind a sequence.                                        *)
LEMMA UnitBehind ==
  ASSUME NEW c \in Seq(Nat), NEW a \in Int
  PROVE  Len(c \o Units(a, 1)) = Len(c) + 1
BY DEF Units

(* A sequence is a function.                                               *)
LEMMA SeqFcn ==
  ASSUME NEW S, NEW s \in Seq(S)
  PROVE  s \in [1 .. Len(s) -> S]
OBVIOUS

(* None of them.                                                           *)
LEMMA UnitsNone ==
  ASSUME NEW a \in Int
  PROVE  Units(a, 0) = <<>>
BY DEF Units

(* One more, read from the client.                                         *)
LEMMA UnitsMore ==
  ASSUME NEW a \in Int, NEW k \in Nat
  PROVE  Units(a, k) \o Units(a + k, 1) = Units(a, k + 1)
BY DEF Units

(* One more, received by the upstream.                                     *)
LEMMA UnitsGot ==
  ASSUME NEW a \in Int, NEW k \in Nat
  PROVE  Append(Units(a, k), a + k + 1) = Units(a, k + 1)
BY DEF Units

(* One less, sent to the upstream.                                         *)
LEMMA UnitsLess ==
  ASSUME NEW a \in Int, NEW k \in Nat, k > 0
  PROVE  Head(Units(a, k)) = a + 1 /\ Tail(Units(a, k)) = Units(a + 1, k - 1)
<1> DEFINE q == Units(a, k)
<1>1. q \in Seq(Int) /\ Len(q) = k /\ \A i \in 1 .. k : q[i] = a + i
  BY DEF Units
<1> HIDE DEF q
<1>2. Head(q) = a + 1
  BY <1>1
<1>3. /\ Tail(q) \in Seq(Int) /\ Len(Tail(q)) = k - 1
      /\ \A i \in 1 .. k - 1 : Tail(q)[i] = q[i + 1]
  BY <1>1
<1>4. \A i \in 1 .. k - 1 : Tail(q)[i] = a + 1 + i
  BY <1>1, <1>3
<1>5. Tail(q) \in [1 .. Len(Tail(q)) -> Int]
  BY <1>3, SeqFcn, Zenon
<1>6. Tail(q) = [i \in 1 .. k - 1 |-> a + 1 + i]
  BY <1>3, <1>4, <1>5, Zenon
<1> QED
  BY <1>2, <1>6, Zenon DEF Units, q

(* The mode of the attempt and the units it has to read.                   *)
LEMMA ModesNext ==
  ASSUME IInv, Some
  PROVE  Modes'
<1>1. Types /\ t \in Task /\ Retries /\ Modes
  BY Zenon DEF IInv, Types
<1>2. /\ t.want \in Nat /\ t.nread \in Nat /\ req.body \in Nat /\ unread \in Int
      /\ t.fast \in Seq(Nat) /\ t.cbuf \in Seq(Nat)
  BY <1>1, HttpForwardAssumption DEF Task, Types, Request
<1>3. CASE UNCHANGED vars
  BY <1>1, <1>3, Zenon DEF vars, Modes, Sending, Copying, Adapting
<1>4. CASE \/ Takes \/ LeavesUnanswered \/ Reuses \/ NoneAlive \/ ReconnectFails \/ Consults
           \/ GetsResponse \/ Responds \/ Closes \/ TriesNew
  BY <1>4, Zenon DEF Takes, LeavesUnanswered, Reuses, NoneAlive, ReconnectFails, Consults,
     GetsResponse, Responds, Closes, TriesNew, Modes, Sending, Copying, Adapting
<1>5. CASE Connects
  BY <1>1, <1>5, Zenon DEF Connects, KeepsBody, KeepsNotes, KeepsRequest, KeepsClient,
     Modes, Sending, Copying, Adapting
<1>6. CASE StartsAdaptation
  <2>1. req.body + 0 = req.body /\ Len(<<>>) = 0
    BY <1>2
  <2> QED
    BY <1>6, <2>1, Zenon DEF StartsAdaptation, KeepsRequest, KeepsClient, KeepsWorld,
       Modes, Sending, Copying, Adapting
<1>7. CASE StartsAttempt
  <2> PICK k \in 0 .. req.body, seen \in BOOLEAN :
        /\ pc' = "send" /\ (req.expect => k = 0) /\ (seen => k = req.body /\ k > 0)
        /\ t'.mode = IF req.body = 0 THEN "nobody" ELSE IF seen THEN "all" ELSE "body"
        /\ t'.fast = Units(req.body - unread, k) /\ t'.want = req.body - k /\ ~t'.rdone
        /\ req' = req
    BY <1>7, Zenon DEF StartsAttempt
  <2>1. req.body - unread \in Int /\ k \in Nat /\ req.body - k + k = req.body
    BY <1>2, SMTT(30)
  <2>2. Len(t'.fast) = k /\ t'.want + Len(t'.fast) = req.body
    BY <2>1, UnitsSeq, Zenon
  <2>3. t'.mode # "body" => t'.want = 0 /\ ~req.expect
    BY <1>1, <1>2, SMTT(30) DEF Types
  <2>4. t'.mode = "nobody" => req.body = 0
    BY <1>2
  <2> QED
    BY <2>2, <2>3, <2>4, Zenon DEF Modes, Sending, Copying, Adapting
<1>8. CASE SendsHeader \/ Reconnects
  <2>1. Copying => t.want + t.nread + Len(t.fast) = req.body
    BY <1>1, Zenon DEF Modes
  <2>2. /\ t.want + 0 + Len(t.fast) = t.want + Len(t.fast)
        /\ Copying /\ t.nread = 0 => t.want + Len(t.fast) = req.body
    BY <1>2, <2>1
  <2> QED
    BY <1>1, <1>8, <2>1, <2>2, ZenonT(60) DEF SendsHeader, Reconnects, KeepsAttempt, KeepsBody,
       KeepsRequest, KeepsClient, Modes, Sending, Copying, Adapting
<1>9. CASE ReadsUnit
  <2>1. t.want > 0
    BY <1>9, Zenon DEF ReadsUnit
  <2> DEFINE w == t.want
             r == t.nread
  <2>2. w \in Nat /\ r \in Nat /\ w > 0 /\ Len(t.fast) \in Nat
    BY <1>2, <2>1
  <2> HIDE DEF w, r
  <2>3. /\ \A f \in Nat : w - 1 + (r + 1) + f = w + r + f
        /\ w - 1 + (r + 1) = w + r /\ ~(w = 0)
    BY <2>2
  <2>4. Len(t.cbuf) = t.nread => Len(t.cbuf \o Units(req.body - unread, 1)) = t.nread + 1
    <3>1. req.body - unread \in Int
      BY <1>2
    <3> QED
      BY <1>2, <3>1, UnitBehind, Zenon
  <2> QED
    BY <1>1, <1>9, <2>2, <2>3, <2>4, ZenonT(60)
    DEF ReadsUnit, Reading, KeepsAttempt, KeepsNotes,
       w, r, Modes, Sending, Copying, Adapting
<1>10. CASE \/ SendsAll \/ ReadsEnd \/ Writes \/ BodySent \/ Stalls
            \/ TakesOriginal \/ TakesAdapted \/ SendsLast
  BY <1>1, <1>10, ZenonT(60) DEF SendsAll, ReadsEnd, Reading, Writes, BodySent, Stalls,
     TakesOriginal, TakesAdapted, SendsLast, KeepsAttempt, KeepsBody, KeepsNotes,
     KeepsRequest, KeepsClient, KeepsWorld, Modes, Sending, Copying, Adapting
<1>11. CASE PassesHint
  BY <1>1, <1>11, ZenonT(60) DEF PassesHint, KeepsAttempt, KeepsBody, KeepsNotes,
     KeepsRequest, KeepsClient, Modes, Sending, Copying, Adapting
<1>12. CASE UpstreamMoves \/ KeptMoves
  BY <1>1, <1>12, ZenonT(60) DEF UpstreamMoves, KeptMoves, Notes, KeepsAttempt, KeepsBody,
     KeepsRequest, KeepsClient, Modes, Sending, Copying, Adapting
<1> QED
  BY <1>3, <1>4, <1>5, <1>6, <1>7, <1>8, <1>9, <1>10, <1>11, <1>12, ZenonT(60)
  DEF Some, Opens, Sends, Ends, Moves

(* Where the client's stream stands.                                       *)
LEMMA PositionsNext ==
  ASSUME IInv, Some
  PROVE  Positions'
<1>1. Types /\ t \in Task /\ Retries /\ Modes /\ Positions
  BY Zenon DEF IInv, Types
<1>2. t.want \in Nat /\ t.nread \in Nat /\ req.body \in Nat /\ unread \in Int
  BY <1>1, HttpForwardAssumption DEF Task, Types, Request
<1>3. t.fast \in Seq(Nat) /\ t.cbuf \in Seq(Nat)
  BY <1>1, Zenon DEF Task
<1>4. CASE UNCHANGED vars
  BY <1>1, <1>4, ZenonT(60) DEF vars, Positions, Exact, Sending, Copying, Adapting
<1>5. CASE \/ Takes \/ LeavesUnanswered \/ Reuses \/ NoneAlive \/ ReconnectFails \/ Consults
           \/ Responds \/ Closes \/ TriesNew
  <2>1. (unread = req.body => unread >= 0) /\ (unread = t.want => unread >= 0)
    BY <1>2
  <2>2. CASE Takes \/ LeavesUnanswered \/ Responds \/ Closes \/ TriesNew
    BY <1>1, <2>1, <2>2, Zenon DEF Takes, LeavesUnanswered, Responds, Closes, TriesNew,
       KeepsRequest, KeepsClient, KeepsWorld, Positions, Sending, Copying, Adapting
  <2>3. CASE Reuses \/ NoneAlive \/ ReconnectFails \/ Consults
    BY <1>1, <2>1, <2>3, ZenonT(60)
    DEF Reuses, NoneAlive, ReconnectFails, Consults, KeepsAttempt,
       KeepsAnswer, KeepsRequest, KeepsClient, KeepsWorld, Positions, Retries, Connected,
       Exact, Sending, Copying, Adapting
  <2> QED
    BY <1>5, <2>2, <2>3, Zenon
<1>6. CASE Connects \/ Reconnects
  BY <1>1, <1>6, Zenon DEF Connects, Reconnects, KeepsAttempt, KeepsBody, KeepsAnswer,
     KeepsNotes, KeepsRequest, KeepsClient, Positions, Exact, Sending, Copying, Adapting
<1>7. CASE StartsAdaptation
  <2>1. <<>> = Units(req.body - req.body - 0, 0) /\ Len(<<>>) = 0
    BY <1>2, UnitsNone, SMTT(30)
  <2> QED
    BY <1>1, <1>7, <2>1, Zenon DEF StartsAdaptation, KeepsAnswer, KeepsRequest, KeepsClient,
       KeepsWorld, Positions, Exact, Sending, Copying, Adapting
<1>8. CASE StartsAttempt
  <2> PICK k \in 0 .. req.body :
        /\ pc = "start" /\ pc' = "send" /\ req' = req /\ unread' = unread - k
        /\ t'.fast = Units(req.body - unread, k) /\ t'.want = req.body - k
        /\ t'.branch = t.branch /\ t'.rare = t.rare /\ t'.sclose = t.sclose
    BY <1>8, Zenon DEF StartsAttempt, KeepsNotes, KeepsAnswer
  <2>1. k \in Nat /\ 0 \in Int
    BY <1>2, SMTT(30)
  <2>2. Len(Units(0, k)) = k /\ req.body - req.body = 0
    BY <1>2, <2>1, UnitsSeq, SMTT(30)
  <2> QED
    BY <1>1, <2>2, ZenonT(60) DEF Positions, Exact, Sending, Copying, Adapting
<1>9. CASE SendsHeader
  <2>1. Len(t.fast) \in Nat /\ t.want + Len(t.fast) = req.body
    BY <1>1, <1>3, <1>9, SMTT(30) DEF SendsHeader, Modes, Sending
  <2>2. req.body - t.want - Len(t.fast) = 0
    BY <1>2, <2>1
  <2> QED
    BY <1>1, <1>9, <2>2, ZenonT(60) DEF SendsHeader, KeepsAttempt, KeepsAnswer, KeepsRequest,
       KeepsClient, Positions, Exact, Sending, Copying, Adapting
<1>10. CASE ReadsUnit
  <2>1. /\ unread' = unread - 1 /\ t'.want = t.want - 1 /\ pc' = pc /\ req' = req
        /\ t'.cbuf = IF t.ad = "adapted" THEN t.cbuf ELSE t.cbuf \o Units(req.body - unread, 1)
        /\ KeepsAttempt /\ KeepsAnswer /\ KeepsNotes /\ Reading /\ t.want > 0
    BY <1>10, Zenon DEF ReadsUnit
  <2>2. ASSUME unread = t.want, t.cbuf = Units(req.body - t.want - Len(t.cbuf), Len(t.cbuf))
        PROVE  LET c == t.cbuf \o Units(req.body - unread, 1)
               IN  c = Units(req.body - (t.want - 1) - Len(c), Len(c))
    <3> DEFINE L == Len(t.cbuf)
               a == req.body - t.want - L
    <3>1. L \in Nat
      BY <1>3
    <3> HIDE DEF L
    <3>2. /\ a \in Int /\ a + L = req.body - unread /\ L + 1 \in Nat
          /\ req.body - (t.want - 1) - (L + 1) = a
      BY <1>2, <2>2, <3>1, SMTT(30)
    <3>3. t.cbuf = Units(a, L)
      BY <2>2, Zenon DEF L
    <3> HIDE DEF a
    <3>4. Units(a, L) \o Units(a + L, 1) = Units(a, L + 1)
      BY <3>1, <3>2, UnitsMore, Zenon
    <3>5. Len(Units(a, L + 1)) = L + 1
      BY <3>2, UnitsSeq, Zenon
    <3>6. t.cbuf \o Units(req.body - unread, 1) = Units(a, L + 1)
      BY <3>2, <3>3, <3>4, Zenon
    <3> QED
      BY <3>2, <3>5, <3>6, Zenon
  <2> QED
    BY <1>1, <2>1, <2>2, ZenonT(60) DEF Reading, KeepsAttempt, KeepsAnswer, KeepsNotes, Retries,
       Positions, Exact, Sending, Copying, Adapting
<1>11. CASE Writes
  <2>1. /\ t'.cbuf = Tail(t.cbuf) /\ t'.want = t.want /\ pc' = pc /\ KeepsRequest
        /\ KeepsAttempt /\ KeepsAnswer /\ KeepsNotes /\ t.cbuf # <<>>
        /\ pc = "copy" \/ (pc = "adapt" /\ t.ad = "orig")
    BY <1>11, Zenon DEF Writes, KeepsClient
  <2>2. ASSUME t.cbuf = Units(req.body - t.want - Len(t.cbuf), Len(t.cbuf))
        PROVE  LET c == Tail(t.cbuf) IN c = Units(req.body - t.want - Len(c), Len(c))
    <3> DEFINE L == Len(t.cbuf)
               a == req.body - t.want - L
    <3>1. L \in Nat /\ L > 0
      BY <1>3, <2>1
    <3> HIDE DEF L
    <3>2. /\ a \in Int /\ a + 1 \in Int /\ L - 1 \in Nat
          /\ req.body - t.want - (L - 1) = a + 1
      BY <1>2, <3>1
    <3>3. t.cbuf = Units(a, L)
      BY <2>2, Zenon DEF L
    <3> HIDE DEF a
    <3>4. Tail(Units(a, L)) = Units(a + 1, L - 1) /\ Len(Units(a + 1, L - 1)) = L - 1
      BY <3>1, <3>2, UnitsLess, UnitsSeq, ZenonT(60)
    <3> QED
      BY <3>2, <3>3, <3>4, ZenonT(60)
  <2> QED
    BY <1>1, <2>1, <2>2, ZenonT(60) DEF KeepsAttempt, KeepsAnswer, KeepsNotes, KeepsRequest,
       Positions, Exact, Sending, Copying, Adapting
<1>12. CASE SendsAll \/ ReadsEnd \/ Stalls \/ TakesOriginal
  BY <1>1, <1>12, ZenonT(60)
  DEF SendsAll, ReadsEnd, Reading, Stalls, TakesOriginal, KeepsAttempt,
     KeepsBody, KeepsAnswer, KeepsNotes, KeepsRequest, KeepsClient, KeepsWorld, Modes,
     Positions, Exact, Sending, Copying, Adapting
<1>13. CASE BodySent \/ TakesAdapted \/ SendsLast
  BY <1>1, <1>13, ZenonT(60) DEF BodySent, TakesAdapted, SendsLast, KeepsAttempt,
     KeepsBody, KeepsAnswer, KeepsNotes, KeepsRequest, KeepsClient, KeepsWorld, Modes,
     Positions, Exact, Sending, Copying, Adapting
<1>14. CASE PassesHint
  BY <1>1, <1>14, ZenonT(60)
  DEF PassesHint, KeepsAttempt, KeepsBody, KeepsNotes, KeepsRequest, KeepsClient, Positions,
     Exact, Sending, Copying, Adapting
<1>16. CASE UpstreamMoves \/ KeptMoves
  BY <1>1, <1>16, ZenonT(60)
  DEF UpstreamMoves, KeptMoves, Notes, KeepsAttempt, KeepsBody, KeepsAnswer, KeepsRequest,
     KeepsClient, Positions, Exact, Sending, Copying, Adapting
<1>15. CASE GetsResponse
  <2>1. t.want + t.nread = req.body /\ req.body = 0 => t.want = 0
    BY <1>2
  <2> QED
    BY <1>1, <1>15, <2>1, Zenon DEF GetsResponse, KeepsRequest, KeepsClient, Modes,
       Positions, Exact, Sending, Copying, Adapting
<1> QED
  BY <1>4, <1>5, <1>6, <1>7, <1>8, <1>9, <1>10, <1>11, <1>12, <1>13, <1>14, <1>15, <1>16,
     Zenon DEF Some, Opens, Sends, Ends, Moves

(* What the upstream has got of the body.                                  *)
LEMMA DeliveredNext ==
  ASSUME IInv, Some
  PROVE  Delivered'
<1>1. Types /\ t \in Task /\ Conns /\ Modes /\ Positions /\ Delivered
  BY Zenon DEF IInv, Types
<1>2. t.want \in Nat /\ t.nread \in Nat /\ req.body \in Nat /\ n \in Nat
  BY <1>1, HttpForwardAssumption DEF Task, Types, Request
<1>3. t.fast \in Seq(Nat) /\ t.cbuf \in Seq(Nat)
  BY <1>1, Zenon DEF Task
<1>4. \A c \in Conn : c.cur < n => c.cur # n
  <2> TAKE c \in Conn
  <2>1. c.cur \in 0 .. MaxRequests
    BY Zenon DEF Conn
  <2> QED
    BY <1>2, <2>1
<1>5. CASE UNCHANGED vars
  BY <1>1, <1>5, Zenon DEF vars, Delivered, Exact
<1>6. CASE KeptMoves
  <2>1. last' = NoConn \/ (/\ last'.cur = last.cur /\ last'.adapted = last.adapted
                           /\ last'.got = last.got /\ ~last.eof)
    BY <1>6, Zenon DEF KeptMoves, UpstreamTurns
  <2> QED
    BY <1>1, <1>6, <2>1, ZenonT(60) DEF KeptMoves, Notes, KeepsAttempt, KeepsBody, KeepsAnswer,
       KeepsRequest, Delivered, Exact
<1>7. CASE Takes
  <2>1. /\ n' = n + 1 /\ up' = NoConn
        /\ last' # NoConn => last'.cur <= n /\ last'.cur \in 0 .. MaxRequests
    BY <1>1, <1>7, SomeConn, Zenon DEF Takes, Conns, Connected, Conn
  <2>2. last' # NoConn => last'.cur # n'
    BY <1>2, <2>1
  <2> QED
    BY <2>1, <2>2, Zenon DEF Delivered
<1>8. CASE LeavesUnanswered \/ NoneAlive \/ ReconnectFails \/ Closes \/ TriesNew \/ Reconnects
  BY <1>1, <1>8, Zenon DEF LeavesUnanswered, NoneAlive, ReconnectFails, Closes, TriesNew,
     Reconnects, KeepsRequest, KeepsClient, KeepsWorld, Conns, Connected, Delivered
<1>9. CASE Reuses \/ Connects \/ Consults \/ StartsAdaptation \/ StartsAttempt
  <2>1. /\ up' \in Conn /\ up'.cur < n /\ n' = n /\ last' = NoConn
    <3>1. n > 0 => 0 < n
      BY <1>2
    <3> QED
      BY <1>1, <1>9, <3>1, SomeConn, ZenonT(60)
      DEF Reuses, Connects, Consults, StartsAdaptation,
         StartsAttempt, KeepsRequest, KeepsClient, KeepsWorld, Types, Conns, Connected
  <2> QED
    BY <1>4, <2>1, Zenon DEF Delivered
<1>10. CASE Responds
  BY <1>1, <1>10, SomeConn, Zenon DEF Responds, KeepsRequest, Conns, Connected, Delivered, Exact
<1>11. CASE SendsHeader \/ SendsAll \/ TakesOriginal \/ TakesAdapted
  <2>1. /\ up \in Conn /\ up.cur < n /\ n' = n /\ req' = req /\ last' = NoConn
        /\ KeepsAttempt /\ KeepsAnswer /\ t'.want = t.want
    BY <1>1, <1>11, SomeConn, Zenon DEF SendsHeader, SendsAll, TakesOriginal, TakesAdapted,
       SendsOn, KeepsBody, KeepsRequest, KeepsClient, Conns, Connected
  <2>2. CASE up' = up
    BY <1>4, <2>1, <2>2, Zenon DEF Delivered
  <2>3. ASSUME up' # up PROVE up'.cur = n /\ ~up'.eof
    BY <1>11, <2>3, Zenon DEF SendsHeader, SendsAll, TakesOriginal, TakesAdapted, SendsOn
  <2>4. <<>> = Units(0, 0) /\ Len(<<>>) = 0 /\ 0 <= req.body
    BY <1>2, UnitsNone
  <2>5. CASE SendsHeader /\ up' # up
    <3>1. t.want + Len(t.fast) = req.body /\ Len(t.fast) \in Nat
      BY <1>1, <1>3, <2>5, SMTT(30) DEF SendsHeader, Modes, Sending
    <3>2. 0 = req.body - t.want - Len(t.fast)
      BY <1>2, <3>1
    <3> QED
      BY <2>1, <2>3, <2>4, <2>5, <3>2, ZenonT(60) DEF SendsHeader, SendsOn, Delivered
  <2>6. CASE SendsAll /\ up' # up
    <3>1. /\ t.want + Len(t.fast) = req.body /\ t.want = 0 /\ Len(t.fast) \in Nat
          /\ Exact => t.fast = Units(0, Len(t.fast))
      BY <1>1, <1>3, <2>6, SMTT(30) DEF SendsAll, Modes, Positions, Sending
    <3>2. Len(t.fast) = req.body /\ Len(t.fast) <= req.body
      BY <1>2, <3>1
    <3>3. Exact' => Exact
      BY <2>1, <2>6, Zenon DEF SendsAll, Exact, KeepsAttempt, KeepsAnswer
    <3> QED
      BY <2>1, <2>3, <2>6, <3>1, <3>2, <3>3, ZenonT(60) DEF SendsAll, SendsOn, Delivered
  <2>7. CASE TakesOriginal /\ up' # up
    <3>1. t.want + t.nread = req.body /\ Len(t.cbuf) = t.nread
      BY <1>1, <2>7, Zenon DEF TakesOriginal, Modes, Adapting
    <3>2. 0 = req.body - t.want - Len(t.cbuf)
      BY <1>2, <3>1
    <3> QED
      BY <2>1, <2>3, <2>4, <2>7, <3>2, ZenonT(60)
      DEF TakesOriginal, KeepsBody, SendsOn, Delivered
  <2>8. CASE TakesAdapted /\ up' # up
    BY <2>1, <2>8, Zenon DEF TakesAdapted, SendsOn, Delivered
  <2> QED
    BY <1>11, <2>2, <2>5, <2>6, <2>7, <2>8, ZenonT(60)
<1>12. CASE ReadsEnd \/ Stalls \/ PassesHint
  BY <1>1, <1>12, SomeConn, ZenonT(60) DEF ReadsEnd, Reading, Stalls, PassesHint, ReadsHeader,
     KeepsAttempt, KeepsBody, KeepsAnswer, KeepsNotes, KeepsRequest, KeepsClient, KeepsWorld,
     Delivered, Exact
<1>13. CASE ReadsUnit
  <2>1. /\ pc' = pc /\ up' = up /\ n' = n /\ req' = req /\ last' = last
        /\ t'.want = t.want - 1 /\ KeepsAttempt /\ KeepsAnswer /\ KeepsNotes
        /\ t.ad # "adapted" => t'.cbuf = t.cbuf \o Units(req.body - unread, 1)
        /\ Reading
    BY <1>13, Zenon DEF ReadsUnit
  <2>2. unread \in Int /\ req.body - unread \in Int /\ Len(t.cbuf) \in Nat
    BY <1>2, <1>3, <1>1, SMTT(30) DEF Types
  <2>3. t.ad # "adapted" => Len(t'.cbuf) = Len(t.cbuf) + 1
    BY <1>3, <2>1, <2>2, UnitBehind, ZenonT(60)
  <2>4. \A l \in Nat : req.body - (t.want - 1) - (l + 1) = req.body - t.want - l
    BY <1>2
  <2>5. pc = "copy" => t.ad # "adapted"
    BY Zenon DEF IInv, Retries, Copying
  <2> QED
    BY <1>1, <2>1, <2>2, <2>3, <2>4, <2>5, Zenon DEF Reading, KeepsAttempt, KeepsAnswer,
       KeepsNotes, Delivered, Exact
<1>14. CASE Writes
  <2>1. /\ pc' = pc /\ n' = n /\ req' = req /\ last' = NoConn /\ t.cbuf # <<>>
        /\ up \in Conn /\ up # NoConn /\ up' # NoConn
        /\ up'.cur = up.cur /\ up'.adapted = up.adapted /\ up'.eof = up.eof
        /\ up'.got = IF up.eof THEN up.got ELSE Append(up.got, Head(t.cbuf))
        /\ t'.want = t.want /\ t'.cbuf = Tail(t.cbuf)
        /\ KeepsAttempt /\ KeepsAnswer /\ KeepsNotes
        /\ pc = "copy" \/ (pc = "adapt" /\ t.ad = "orig")
    BY <1>1, <1>14, SomeConn, Zenon DEF Writes, KeepsRequest, KeepsClient, Conns, Connected
  <2>2. CASE up.eof
    BY <1>1, <2>1, <2>2, ZenonT(60) DEF KeepsAttempt, KeepsAnswer, KeepsNotes, Delivered, Exact
  <2>3. ASSUME ~up.eof, up.cur = n, ~up.adapted, Exact
        PROVE  /\ up'.got = Units(0, Len(up'.got)) /\ Len(up'.got) <= req.body
               /\ Len(up'.got) = req.body - t.want - Len(Tail(t.cbuf))
    <3> DEFINE L == Len(t.cbuf)
               G == Len(up.got)
    <3>1. L \in Nat /\ L > 0 /\ Len(Tail(t.cbuf)) = L - 1
      BY <1>3, <2>1
    <3>2. /\ up.got = Units(0, G) /\ G = req.body - t.want - L
          /\ t.cbuf = Units(req.body - t.want - L, L)
      BY <1>1, <2>1, <2>3, Zenon DEF Positions, Delivered
    <3>3. up.got \in Seq(Nat)
      BY <2>1, Zenon DEF Conn
    <3>4. G \in Nat
      BY <3>3
    <3> HIDE DEF L, G
    <3>5. /\ G + 1 <= req.body /\ G + 1 = req.body - t.want - (L - 1)
          /\ G \in Int /\ 0 \in Int /\ G + 1 \in Nat /\ 0 + G + 1 = G + 1
      BY <1>2, <3>1, <3>2, <3>4, SMTT(30)
    <3>6. Head(t.cbuf) = 0 + G + 1
      BY <3>1, <3>2, <3>5, UnitsLess, ZenonT(60)
    <3>7. up'.got = Units(0, G + 1)
      BY <2>1, <2>3, <3>2, <3>4, <3>5, <3>6, UnitsGot, Zenon
    <3>8. Len(up'.got) = G + 1
      BY <3>5, <3>7, UnitsSeq, Zenon
    <3> QED
      BY <3>1, <3>5, <3>7, <3>8, ZenonT(60)
  <2> QED
    BY <2>1, <2>2, <2>3, ZenonT(60) DEF KeepsAttempt, KeepsAnswer, KeepsNotes, Delivered, Exact
<1>15. CASE BodySent \/ SendsLast \/ GetsResponse
  <2>1. Len(<<>>) = 0 /\ req.body - 0 - 0 = req.body
    BY <1>2
  <2>2. CASE BodySent
    BY <1>1, <2>1, <2>2, ZenonT(60) DEF BodySent, KeepsAttempt, KeepsBody, KeepsNotes,
       KeepsRequest, KeepsClient, KeepsWorld, Modes, Delivered, Exact
  <2>3. CASE SendsLast
    BY <1>1, <2>1, <2>3, ZenonT(60) DEF SendsLast, KeepsAttempt, KeepsBody, KeepsAnswer,
       KeepsRequest, KeepsClient, KeepsWorld, Modes, Delivered, Exact
  <2>4. CASE GetsResponse
    BY <1>1, <2>1, <2>4, SomeConn, ZenonT(60) DEF GetsResponse, ReadsHeader,
       KeepsRequest, KeepsClient, Modes, Delivered, Exact
  <2> QED
    BY <1>15, <2>2, <2>3, <2>4, ZenonT(60)
<1>16. CASE UpstreamMoves
  <2>1. /\ up # NoConn /\ ~up.eof /\ up'.cur = up.cur /\ up'.got = up.got
        /\ up'.adapted = up.adapted
    BY <1>16, SomeConn, Zenon DEF UpstreamMoves, UpstreamTurns
  <2> QED
    BY <1>1, <1>16, <2>1, ZenonT(60) DEF UpstreamMoves, Notes, KeepsAttempt, KeepsBody,
       KeepsAnswer, KeepsRequest, KeepsClient, Delivered, Exact
<1> QED
  BY <1>5, <1>6, <1>7, <1>8, <1>9, <1>10, <1>11, <1>12, <1>13, <1>14, <1>15, <1>16, Zenon
  DEF Some, Opens, Sends, Ends, Moves

(* The answers.                                                            *)
LEMMA AnswersNext ==
  ASSUME IInv, Some
  PROVE  Answers'
<1>1. Types /\ Answers /\ out \in Seq(OutRec) /\ n \in Nat
  BY DEF IInv, Types
<1>2. Len(out) \in Nat
  BY <1>1
<1> DEFINE Keeps == /\ out' = out /\ n' = n /\ t.rare \subseteq t'.rare
                    /\ Between' => Between
                    /\ pc' = "idle" => pc = "idle" \/ "sockopt" \in t'.rare
<1>3. ASSUME Keeps PROVE Answers'
  <2>1. Len(out) < n => Len(out) <= n
    BY <1>1, <1>2
  <2> QED
    BY <1>1, <1>3, <2>1, ZenonT(60) DEF Answers, Between, Behaved
<1>4. ASSUME NEW r \in OutRec, out' = Append(out, r), r.n = n, n' = n, t.rare \subseteq t'.rare,
             Between, ~Between' \/ "reconnect" \in t'.rare,
             Behaved => r.from \in {0, n} /\ r.final
      PROVE  Answers'
  <2>1. Len(out') = Len(out) + 1
    BY <1>1, <1>4
  <2>2. \A i \in 1 .. Len(out') : \/ i \in 1 .. Len(out) /\ out'[i] = out[i]
                                  \/ i = Len(out) + 1 /\ out'[i] = r
    BY <1>1, <1>4, <2>1
  <2>3. Len(out) < n => Len(out) + 1 <= n /\ n >= Len(out) + 1
    BY <1>1, <1>2, SMTT(30)
  <2>4. Len(out) = n - 1 => Len(out) + 1 = n
    BY <1>1, <1>2, SMTT(30)
  <2>5. r.n = n /\ n' = n
    BY <1>4, Zenon
  <2>6. "reconnect" \notin t'.rare =>
          (\A i \in 1 .. Len(out') : out'[i].n >= i) /\ Len(out') <= n'
    <3> SUFFICES ASSUME "reconnect" \notin t'.rare
                 PROVE  (\A i \in 1 .. Len(out') : out'[i].n >= i) /\ Len(out') <= n'
      OBVIOUS
    <3>1. (\A i \in 1 .. Len(out) : out[i].n >= i) /\ Len(out) < n
      BY <1>1, <1>4, Zenon DEF Answers
    <3>2. ASSUME NEW i \in 1 .. Len(out') PROVE out'[i].n >= i
      <4>1. CASE i \in 1 .. Len(out) /\ out'[i] = out[i]
        BY <3>1, <4>1, Zenon
      <4>2. CASE i = Len(out) + 1 /\ out'[i] = r
        BY <2>3, <3>1, <4>2, <2>5, ZenonT(60)
      <4> QED
        BY <2>2, <4>1, <4>2, Zenon
    <3> QED
      BY <2>1, <2>3, <3>1, <3>2, <2>5, ZenonT(60)
  <2>7. "reconnect" \notin t'.rare /\ "sockopt" \notin t'.rare =>
          (\A i \in 1 .. Len(out') : out'[i].n = i) /\ Len(out') = n'
    <3> SUFFICES ASSUME "reconnect" \notin t'.rare, "sockopt" \notin t'.rare
                 PROVE  (\A i \in 1 .. Len(out') : out'[i].n = i) /\ Len(out') = n'
      OBVIOUS
    <3>1. (\A i \in 1 .. Len(out) : out[i].n = i) /\ Len(out) = n - 1
      BY <1>1, <1>4, ZenonT(60) DEF Answers
    <3>2. ASSUME NEW i \in 1 .. Len(out') PROVE out'[i].n = i
      <4>1. CASE i \in 1 .. Len(out) /\ out'[i] = out[i]
        BY <3>1, <4>1, Zenon
      <4>2. CASE i = Len(out) + 1 /\ out'[i] = r
        BY <2>4, <3>1, <4>2, <2>5, Zenon
      <4> QED
        BY <2>2, <4>1, <4>2, Zenon
    <3> QED
      BY <2>1, <2>4, <3>1, <3>2, <2>5, ZenonT(60)
  <2>8. Behaved' =>
          \A i \in 1 .. Len(out') : out'[i].from \in {0, out'[i].n} /\ out'[i].final
    <3> SUFFICES ASSUME Behaved', NEW i \in 1 .. Len(out')
                 PROVE  out'[i].from \in {0, out'[i].n} /\ out'[i].final
      OBVIOUS
    <3>5. Behaved
      BY <1>4, Zenon DEF Behaved
    <3>1. \A j \in 1 .. Len(out) : out[j].from \in {0, out[j].n} /\ out[j].final
      BY <1>1, <3>5, Zenon DEF Answers
    <3>2. CASE i \in 1 .. Len(out) /\ out'[i] = out[i]
      BY <3>1, <3>2, Zenon
    <3>3. r.from \in {0, r.n} /\ r.final
      BY <1>4, <3>5, Zenon
    <3>4. CASE i = Len(out) + 1 /\ out'[i] = r
      BY <3>3, <3>4, Zenon
    <3> QED
      BY <2>2, <3>2, <3>4, ZenonT(60)
  <2> QED
    BY <1>4, <2>6, <2>7, <2>8, Zenon DEF Answers
<1>5. CASE Takes
  <2>1. /\ out' = out /\ n' = n + 1 /\ t'.rare = t.rare /\ pc = "idle" /\ pc' = "checks"
    BY <1>5, Zenon DEF Takes
  <2>2. (Len(out) <= n => Len(out) < n + 1 /\ Len(out) <= n + 1) /\ n + 1 - 1 = n
    BY <1>1, <1>2
  <2>3. /\ "reconnect" \notin t'.rare =>
             (\A i \in 1 .. Len(out) : out[i].n >= i) /\ Len(out) <= n' /\ Len(out) < n'
        /\ "reconnect" \notin t'.rare /\ "sockopt" \notin t'.rare =>
             (\A i \in 1 .. Len(out) : out[i].n = i) /\ Len(out) = n' - 1
    BY <1>1, <2>1, <2>2, SMTT(30) DEF Answers
  <2>4. Behaved' =>
          \A i \in 1 .. Len(out) : out[i].from \in {0, out[i].n} /\ out[i].final
    BY <1>1, <2>1, Zenon DEF Answers, Behaved
  <2> QED
    BY <2>1, <2>3, <2>4, ZenonT(60) DEF Answers
<1>6. CASE Closes \/ ReconnectFails
  <2>1. /\ Between /\ n' = n /\ t.rare \subseteq t'.rare /\ pc' # "idle"
        /\ ~Between' \/ "reconnect" \in t'.rare
    BY <1>6, Zenon DEF Closes, ReconnectFails, KeepsRequest, Between
  <2>2. AnswersOnce
    BY <1>6, Zenon DEF Closes, ReconnectFails
  <2> HIDE DEF Keeps
  <2>3. out' = out => Keeps
    BY <2>1, Zenon DEF Keeps
  <2> QED
    BY <1>3, <1>4, <2>1, <2>2, <2>3, ZenonT(60) DEF AnswersOnce
<1>7. CASE Responds
  <2>1. PICK r \in OutRec : out' = Append(out, r) /\ r.n = n
                            /\ r.from = t.hdr.for /\ r.final = (t.hdr.kind # "hint")
    BY <1>7, Zenon DEF Responds
  <2>2. Behaved => r.from \in {0, n} /\ r.final
    BY <1>1, <1>7, <2>1, ZenonT(60) DEF Responds, IInv, Streams, IsFinal, Types, Header
  <2>3. n' = n /\ t.rare \subseteq t'.rare /\ Between /\ ~Between'
    BY <1>7, Zenon DEF Responds, KeepsRequest, Between
  <2> QED
    BY <1>4, <2>1, <2>2, <2>3, Zenon
<1>8. CASE UNCHANGED vars \/ KeptMoves \/ UpstreamMoves
  BY <1>3, <1>8, Zenon DEF vars, KeptMoves, UpstreamMoves, Notes, KeepsRequest, KeepsClient,
     Between
<1>9. CASE \/ LeavesUnanswered \/ Reuses \/ NoneAlive \/ Connects \/ Consults
           \/ StartsAdaptation \/ StartsAttempt \/ TriesNew \/ Reconnects
  BY <1>3, <1>9, Zenon DEF LeavesUnanswered, Reuses, NoneAlive, Connects, Consults,
     StartsAdaptation, StartsAttempt, TriesNew, Reconnects, Connected, Copying, KeepsNotes,
     KeepsRequest, KeepsClient, KeepsWorld, Between
<1>10. CASE Sends \/ PassesHint \/ GetsResponse
  <2>1. CASE \/ SendsHeader \/ SendsAll \/ ReadsEnd \/ ReadsUnit \/ Writes
    BY <1>3, <2>1, Zenon DEF SendsHeader, SendsAll, ReadsEnd, ReadsUnit, Reading, Writes,
       KeepsNotes, KeepsRequest, KeepsClient, KeepsWorld, Between
  <2>2. CASE \/ BodySent \/ Stalls \/ TakesOriginal \/ TakesAdapted \/ SendsLast
             \/ PassesHint \/ GetsResponse
    BY <1>3, <2>2, Zenon DEF BodySent, Stalls, TakesOriginal, TakesAdapted, SendsLast,
       PassesHint, GetsResponse, KeepsNotes, KeepsRequest, KeepsClient, KeepsWorld, Between
  <2> QED
    BY <1>10, <2>1, <2>2, Zenon DEF Sends
<1> QED
  BY <1>5, <1>6, <1>7, <1>8, <1>9, <1>10, Zenon DEF Some, Opens, Ends, Moves

(* One more interim response behind those on the wire.                     *)
LEMMA HintBehind ==
  ASSUME NEW q \in Seq(Item), NEW h \in Item, Hints(q, Len(q)), NoCont(q), Interim(h)
  PROVE  /\ Hints(Append(q, h), Len(Append(q, h)))
         /\ h.code # 100 => NoCont(Append(q, h))
<1> DEFINE a == Append(q, h)
           k == Len(q)
<1>1. /\ k \in Nat /\ Len(a) = k + 1 /\ a[k + 1] = h
      /\ \A i \in 1 .. k : a[i] = q[i]
  OBVIOUS
<1>2. \A i \in 1 .. k : Interim(q[i]) /\ q[i].code # 100
  BY Zenon DEF Hints, NoCont
<1> HIDE DEF a, k
<1>3. \A i \in 1 .. k + 1 : i \in 1 .. k \/ i = k + 1
  BY <1>1
<1>4. \A i \in 1 .. k + 1 : Interim(a[i]) /\ (a[i].code = 100 => i = k + 1)
  BY <1>1, <1>2, <1>3, ZenonT(60)
<1>5. h.code # 100 => \A i \in 1 .. k + 1 : a[i].code # 100
  BY <1>1, <1>2, <1>3, ZenonT(60)
<1> QED
  BY <1>1, <1>4, <1>5, Zenon DEF Hints, NoCont, a

(* The final response behind them.                                         *)
LEMMA FinalBehind ==
  ASSUME NEW q \in Seq(Item), NEW f \in Item, Hints(q, Len(q))
  PROVE  /\ Append(q, f) # <<>> /\ Hints(Append(q, f), Len(Append(q, f)) - 1)
         /\ Append(q, f)[Len(Append(q, f))] = f
         /\ IF q = <<>> THEN Append(q, f)[1] = f ELSE Append(q, f)[1] = q[1]
<1> DEFINE a == Append(q, f)
           k == Len(q)
<1>1. /\ k \in Nat /\ Len(a) = k + 1 /\ a[k + 1] = f /\ a # <<>>
      /\ \A i \in 1 .. k : a[i] = q[i]
  OBVIOUS
<1>2. \A i \in 1 .. k : Interim(q[i]) /\ (q[i].code = 100 => i = k)
  BY Zenon DEF Hints
<1>3. IF q = <<>> THEN k = 0 ELSE k > 0
  OBVIOUS
<1> HIDE DEF a, k
<1>4. Len(a) - 1 = k
  BY <1>1
<1>5. IF q = <<>> THEN a[1] = f ELSE a[1] = q[1]
  BY <1>1, <1>3
<1>6. \A i \in 1 .. k : Interim(a[i]) /\ (a[i].code = 100 => i = k)
  BY <1>1, <1>2, ZenonT(60)
<1> QED
  BY <1>1, <1>4, <1>5, <1>6, Zenon DEF Hints, a

(* An empty wire is one of length 0.                                       *)
LEMMA EmptyWire ==
  \A x \in Seq(Item) : Len(x) \in Nat /\ (x = <<>> <=> Len(x) = 0)
OBVIOUS

(* What is left of them when the first is read.                            *)
LEMMA HintsTail ==
  ASSUME NEW q \in Seq(Item), q # <<>>, NEW k \in {Len(q), Len(q) - 1}, k > 0, Hints(q, k)
  PROVE  /\ Head(q) = q[1] /\ Interim(q[1])
         /\ Hints(Tail(q), k - 1) /\ (NoCont(q) => NoCont(Tail(q)))
         /\ Len(Tail(q)) = Len(q) - 1
         /\ k = Len(q) - 1 => Tail(q) # <<>> /\ Tail(q)[Len(q) - 1] = q[Len(q)]
         /\ q[1].code = 100 => k = 1
<1> DEFINE b == Tail(q)
           m == Len(q)
<1>1. /\ m \in Nat /\ b \in Seq(Item) /\ Len(b) = m - 1 /\ m > 0 /\ Head(q) = q[1]
      /\ \A i \in 1 .. m - 1 : b[i] = q[i + 1]
  OBVIOUS
<1>2. \A i \in 1 .. k : Interim(q[i]) /\ (q[i].code = 100 => i = k)
  BY Zenon DEF Hints
<1>3. NoCont(q) => \A i \in 1 .. m : q[i].code # 100
  BY Zenon DEF NoCont
<1>4. Len(b) # 0 => b # <<>>
  BY <1>1, EmptyWire, Zenon
<1>5. k \in {m, m - 1}
  OBVIOUS
<1> HIDE DEF b, m
<1>6. /\ k \in Nat /\ 1 \in 1 .. k /\ k - 1 <= m - 1
      /\ \A i \in 1 .. k - 1 : i \in 1 .. m - 1 /\ i + 1 \in 1 .. k /\ (i + 1 = k => i = k - 1)
      /\ \A i \in 1 .. m - 1 : i + 1 \in 1 .. m
  BY <1>1, <1>5
<1>7. \A i \in 1 .. k - 1 : Interim(b[i]) /\ (b[i].code = 100 => i = k - 1)
  <2> TAKE i \in 1 .. k - 1
  <2>1. b[i] = q[i + 1]
    BY <1>1, <1>6, Zenon
  <2>2. PICK j : j = i + 1
    OBVIOUS
  <2>3. j \in 1 .. k /\ b[i] = q[j] /\ (j = k => i = k - 1)
    BY <1>6, <2>1, <2>2, Zenon
  <2>4. Interim(q[j]) /\ (q[j].code = 100 => j = k)
    BY <1>2, <2>3, Zenon
  <2> QED
    BY <2>3, <2>4
<1>8. ASSUME NoCont(q), NEW i \in 1 .. m - 1
      PROVE  b[i].code # 100
  <2>1. b[i] = q[i + 1]
    BY <1>1, Zenon
  <2>2. PICK j : j = i + 1
    OBVIOUS
  <2>3. j \in 1 .. m /\ b[i] = q[j]
    BY <1>6, <2>1, <2>2, Zenon
  <2>4. q[j].code # 100
    BY <1>3, <1>8, <2>3, Zenon
  <2> QED
    BY <2>3, <2>4
<1>9. k = m - 1 => Len(b) # 0 /\ m - 1 \in 1 .. m - 1 /\ m - 1 + 1 = m
  BY <1>1, <1>6
<1>10. Interim(q[1]) /\ (q[1].code = 100 => k = 1)
  BY <1>2, <1>6, Zenon
<1>11. Hints(b, k - 1) /\ (NoCont(q) => NoCont(b))
  BY <1>1, <1>7, <1>8, Zenon DEF Hints, NoCont
<1>12. k = m - 1 => b # <<>> /\ b[m - 1] = q[m]
  BY <1>1, <1>4, <1>9, Zenon
<1> QED
  BY <1>1, <1>10, <1>11, <1>12, Zenon DEF b, m

(* A step that leaves the wire alone.                                      *)
LEMMA SameWire ==
  ASSUME Owing, up'.todo = up.todo, up'.rsp = up.rsp, up'.cont = up.cont,
         n' = n, req' = req, pc' = "final" /\ t'.cont => pc = "final" /\ t.cont
  PROVE  Owing'
BY ZenonT(60) DEF Owing, IsFinal

(* What is on the wire.                                                    *)
LEMMA StreamsNext ==
  ASSUME IInv, Some
  PROVE  Streams'
<1>1. Types /\ Conns /\ Streams
  BY Zenon DEF IInv
<1>2. SUFFICES ASSUME Behaved'
               PROVE  /\ last' # NoConn => Clean(last')
                      /\ up' # NoConn => Clean(up') \/ (up'.cur = n' /\ pc' # "reply" /\ Owing')
                      /\ pc' = "final" /\ t'.cont /\ up'.todo # <<>> => up'.cont
                      /\ pc' = "reply" => IsFinal(t.hdr)'
  BY Zenon DEF Streams, Clean
<1>3. \A c \in Conn : c.cur < n => c.cur # n
  <2> TAKE c \in Conn
  <2>1. c.cur \in 0 .. MaxRequests /\ n \in Nat
    BY <1>1 DEF Conn, Types
  <2> QED
    BY <2>1, SMTT(30)
<1>4. t.rare \subseteq t'.rare =>
        /\ Behaved
        /\ last # NoConn => Clean(last)
        /\ up # NoConn => Clean(up) \/ (up.cur = n /\ pc # "reply" /\ Owing)
        /\ pc = "final" /\ t.cont /\ up.todo # <<>> => up.cont
        /\ pc = "reply" => IsFinal(t.hdr)
  BY <1>1, <1>2, ZenonT(60) DEF Streams, Behaved
<1>5. CASE UNCHANGED vars
  BY <1>4, <1>5, SameWire, ZenonT(60) DEF vars, Clean, IsFinal
<1>6. CASE KeptMoves
  <2>1. /\ t.rare \subseteq t'.rare /\ last # NoConn /\ pc' = pc /\ up' = up /\ n' = n
        /\ req' = req /\ t'.hdr = t.hdr /\ t'.cont = t.cont
    BY <1>6, Zenon DEF KeptMoves, Notes, KeepsAnswer, KeepsRequest
  <2>2. last' # NoConn => Clean(last')
    BY <1>4, <1>6, <2>1, Zenon DEF KeptMoves, UpstreamTurns, Clean
  <2>3. Owing => Owing'
    BY <2>1, SameWire, Zenon
  <2> QED
    BY <1>4, <2>1, <2>2, <2>3, ZenonT(60) DEF Clean, IsFinal
<1>7. CASE \/ Takes \/ LeavesUnanswered \/ NoneAlive \/ Closes \/ ReconnectFails
           \/ TriesNew \/ Reconnects
  BY <1>1, <1>2, <1>4, <1>7, SomeConn, ZenonT(60)
  DEF Takes, LeavesUnanswered, NoneAlive, Closes,
     ReconnectFails, TriesNew, Reconnects, KeepsRequest, KeepsClient, KeepsWorld, Conns,
     Connected, Clean
<1>8. CASE Reuses \/ Connects
  BY <1>2, <1>4, <1>8, SomeConn, ZenonT(60)
  DEF Reuses, Connects, KeepsNotes, KeepsClient, Clean,
     Conns, Connected, IInv
<1>9. CASE Consults \/ StartsAdaptation \/ StartsAttempt
  <2>1. up \in Conn /\ up.cur < n /\ up' = up /\ last' = last /\ t.rare \subseteq t'.rare
    BY <1>1, <1>2, <1>9, Zenon DEF Consults, StartsAdaptation, StartsAttempt, KeepsNotes,
       KeepsClient, KeepsWorld, Types, Conns, Connected
  <2> QED
    BY <1>3, <1>4, <1>9, <2>1, SomeConn, ZenonT(60)
    DEF Consults, StartsAdaptation, StartsAttempt, Clean
<1>10. CASE SendsHeader \/ SendsAll \/ TakesOriginal \/ TakesAdapted
  <2>1. /\ up \in Conn /\ up.cur < n /\ n' = n /\ last' = NoConn /\ t.rare \subseteq t'.rare
        /\ pc' \notin {"final", "reply"}
        /\ \/ up' = up
           \/ up'.todo = Append(up.todo, n) /\ up'.cur = n /\ up'.rsp = up.rsp
    BY <1>1, <1>2, <1>10, SomeConn, ZenonT(60) DEF SendsHeader, SendsAll, TakesOriginal,
       TakesAdapted, SendsOn, KeepsRequest, KeepsClient, Conns, Connected
  <2>2. Clean(up)
    BY <1>3, <1>4, <2>1, SomeConn, ZenonT(60)
  <2>3. Append(<<>>, n) = <<n>> /\ Len(<<>>) = 0 /\ ~\E i \in 1 .. 0 : TRUE
    BY DEF Append
  <2>4. Hints(<<>>, Len(<<>>)) /\ NoCont(<<>>)
    BY <2>3, Zenon DEF Hints, NoCont
  <2> QED
    BY <2>1, <2>2, <2>3, <2>4, ZenonT(60) DEF Clean, Owing
<1>11. CASE ReadsEnd \/ ReadsUnit \/ BodySent \/ Stalls \/ SendsLast
  <2>1. /\ up' = up /\ last' = last /\ n' = n /\ req' = req /\ t.rare \subseteq t'.rare
        /\ pc' # "reply" /\ pc \in {"copy", "adapt"} /\ (pc' = "final" => ~t'.cont)
    BY <1>2, <1>11, Zenon DEF ReadsEnd, ReadsUnit, Reading, BodySent, Stalls, SendsLast,
       KeepsNotes, KeepsRequest, KeepsClient, KeepsWorld
  <2> QED
    BY <1>4, <2>1, SameWire, Zenon DEF Clean
<1>12. CASE Writes
  <2>1. /\ up \in Conn /\ up'.cur = up.cur /\ up'.rsp = up.rsp /\ up'.todo = up.todo
        /\ up'.cont = up.cont /\ last' = last /\ n' = n /\ req' = req
        /\ t.rare \subseteq t'.rare /\ pc' \notin {"final", "reply"} /\ pc # "reply"
    BY <1>12, Zenon DEF Writes, KeepsNotes, KeepsRequest, KeepsClient
  <2> QED
    BY <1>4, <2>1, SomeConn, SameWire, ZenonT(60) DEF Clean
<1>13. CASE Responds
  BY <1>1, <1>2, <1>4, <1>13, SomeConn, ZenonT(60) DEF Responds, Conns, Connected, Clean
<1>14. CASE PassesHint \/ GetsResponse
  <2>1. /\ ReadsHeader /\ n' = n /\ req' = req /\ last' = last /\ t.rare \subseteq t'.rare
        /\ pc \in Connected
    BY <1>14, Zenon DEF PassesHint, GetsResponse, KeepsNotes, KeepsRequest, KeepsClient,
       Connected
  <2>2. /\ up \in Conn /\ up.rsp \in Seq(Item) /\ up.rsp # <<>> /\ up'.rsp = Tail(up.rsp)
        /\ up'.todo = up.todo /\ up'.cur = up.cur /\ up'.cont = up.cont
    BY <2>1, Zenon DEF ReadsHeader, Conn
  <2>3. up.cur = n /\ Owing /\ last' = NoConn /\ pc # "reply"
    BY <1>1, <1>4, <2>1, <2>2, SomeConn, ZenonT(60) DEF Clean, Conns, Connected
  <2> DEFINE q == up.rsp
             m == Len(q)
  <2>4. /\ m \in Nat /\ m > 0 /\ m - 1 \in Nat /\ Head(q) = q[1]
        /\ m - 1 > 0 <=> m - 1 # 0
        /\ m - 1 = 0 => m = 1 /\ Tail(q) = <<>>
    <3>1. m \in Nat /\ m # 0
      BY <2>2, EmptyWire, Zenon
    <3>2. Head(q) = q[1] /\ Tail(q) \in Seq(Item) /\ Len(Tail(q)) = m - 1
      BY <2>2
    <3>3. m - 1 = 0 => Tail(q) = <<>>
      BY <3>2, EmptyWire, Zenon
    <3> HIDE DEF m
    <3> QED
      BY <3>1, <3>2, <3>3
  <2>5. CASE Interim(Head(up.rsp))
    <3>1. q[1].kind = "hint" /\ req.expect /\ ~(pc = "final" /\ t.cont)
      BY <2>2, <2>3, <2>4, <2>5, Zenon DEF Owing, Interim
    <3>2. PassesHint
      BY <1>14, <2>5, <3>1, Zenon DEF GetsResponse, IInv, Modes, Sending
    <3>3. /\ pc' = pc /\ pc \in {"copy", "adapt", "final"}
          /\ pc = "final" => (t'.cont <=> q[1].code = 100)
      BY <2>4, <3>2, Zenon DEF PassesHint
    <3>4. CASE up.todo = <<n>> /\ Hints(q, m) /\ (up.cont \/ NoCont(q))
      <4>1. /\ Hints(Tail(q), m - 1) /\ (NoCont(q) => NoCont(Tail(q)))
            /\ Len(Tail(q)) = m - 1 /\ (q[1].code = 100 => m = 1)
        BY <2>2, <2>4, <3>4, HintsTail, Zenon
      <4>2. q[1].code = 100 => Tail(q) = <<>> /\ up.cont
        <5>1. m = 1 => m - 1 = 0
          BY <2>4
        <5>2. NoCont(q) => q[1].code # 100
          <6>1. 1 \in 1 .. m
            BY <2>4
          <6> QED
            BY <6>1, ZenonT(60) DEF NoCont
        <5> QED
          BY <2>4, <3>4, <4>1, <5>1, <5>2, Zenon
      <4>3. Hints(up.rsp, Len(up.rsp))' /\ (up'.cont \/ NoCont(up'.rsp)) /\ up'.todo = <<n'>>
        BY <2>1, <2>2, <3>4, <4>1, ZenonT(60)
      <4>4. req'.expect /\ (pc' = "final" /\ t'.cont => up'.rsp = <<>> /\ up'.cont)
        BY <2>1, <2>2, <3>1, <3>3, <4>2, ZenonT(60)
      <4>5. Owing'
        BY <4>3, <4>4, Zenon DEF Owing
      <4> QED
        BY <2>1, <2>2, <2>3, <3>3, <4>4, <4>5, ZenonT(60)
    <3>5. CASE up.todo = <<>> /\ Hints(q, m - 1) /\ IsFinal(q[m])
      <4>1. m - 1 > 0 /\ m - 1 # 0
        <5>1. m = 1 => ~Interim(q[1])
          BY <3>5, Zenon DEF IsFinal, Interim
        <5> QED
          BY <2>4, <2>5, <5>1, Zenon
      <4>2. /\ Hints(Tail(q), m - 1 - 1) /\ Len(Tail(q)) = m - 1
            /\ Tail(q) # <<>> /\ Tail(q)[m - 1] = q[m] /\ (q[1].code = 100 => m - 1 = 1)
        BY <2>2, <2>4, <3>5, <4>1, HintsTail, Zenon
      <4>3. q[1].code = 100 => IsFinal(Tail(q)[1])
        BY <3>5, <4>2, Zenon
      <4>4. /\ up'.todo = <<>> /\ up'.rsp # <<>> /\ Hints(up.rsp, Len(up.rsp) - 1)'
            /\ IsFinal(up.rsp[Len(up.rsp)])'
        BY <2>1, <2>2, <3>5, <4>2, Zenon DEF IsFinal
      <4>5. /\ req'.expect
            /\ pc' = "final" /\ t'.cont => up'.rsp[1].kind # "hint"
        BY <2>1, <2>2, <3>1, <3>3, <4>3, Zenon DEF IsFinal
      <4>6. Owing'
        BY <4>4, <4>5, Zenon DEF Owing
      <4> QED
        BY <2>1, <2>2, <2>3, <3>3, <4>4, <4>6, ZenonT(60)
    <3> QED
      BY <2>3, <3>4, <3>5, Zenon DEF Owing
  <2>6. CASE ~Interim(Head(up.rsp))
    <3>1. GetsResponse
      BY <1>14, <2>6, ZenonT(60) DEF PassesHint
    <3>2. up.todo = <<>> /\ Hints(q, m - 1) /\ IsFinal(q[m])
      <4>1. 1 \in 1 .. m
        BY <2>4
      <4>2. ~Hints(q, m)
        BY <2>4, <2>6, <4>1, Zenon DEF Hints
      <4> QED
        BY <2>3, <4>2, Zenon DEF Owing
    <3>3. m - 1 = 0
      <4>1. m - 1 # 0 => 1 \in 1 .. m - 1
        BY <2>4
      <4> QED
        BY <2>4, <2>6, <3>2, <4>1, Zenon DEF Hints
    <3>4. Clean(up') /\ IsFinal(q[1])
      BY <2>2, <2>4, <3>2, <3>3, Zenon DEF Clean
    <3>5. pc' = "reply" /\ t'.hdr = q[1]
      BY <2>4, <3>1, Zenon DEF GetsResponse
    <3>6. IsFinal(t.hdr)'
      BY <2>1, <3>4, <3>5, Zenon DEF IsFinal
    <3> QED
      BY <2>3, <3>4, <3>5, <3>6, ZenonT(60)
  <2> QED
    BY <2>5, <2>6, Zenon
<1>15. CASE UpstreamMoves
  <2>1. /\ UpstreamTurns(up, up') /\ pc' = pc /\ n' = n /\ req' = req /\ last' = last
        /\ t'.hdr = t.hdr /\ t'.cont = t.cont /\ t.rare \subseteq t'.rare
    BY <1>15, Zenon DEF UpstreamMoves, Notes, KeepsAnswer, KeepsRequest, KeepsClient
  <2>2. /\ up \in Conn /\ up # NoConn /\ up.rsp \in Seq(Item) /\ up'.cur = up.cur
    BY <2>1, SomeConn, Zenon DEF UpstreamTurns, Conn
  <2>3. pc = "reply" => IsFinal(t.hdr)'
    BY <1>4, <2>1, Zenon DEF IsFinal
  <2>4. CASE up'.todo = up.todo /\ up'.rsp = up.rsp /\ up'.cont = up.cont
    BY <1>4, <2>1, <2>2, <2>3, <2>4, SameWire, ZenonT(60) DEF Clean
  <2>5. ASSUME up.todo # <<>>
        PROVE  /\ up.cur = n /\ pc # "reply" /\ up.todo = <<n>> /\ Owing
               /\ Hints(up.rsp, Len(up.rsp)) /\ (up.cont \/ NoCont(up.rsp))
    BY <1>4, <2>1, <2>2, <2>5, ZenonT(60) DEF Clean, Owing
  <2>6. ASSUME up.todo # <<>>, up'.todo = up.todo, NEW h \in Item,
               up'.rsp = Append(up.rsp, h), up'.cont <=> up.cont \/ h.code = 100,
               ~up.cont, Interim(h), req.expect
        PROVE  Owing' /\ ~(pc' = "final" /\ t'.cont /\ up'.todo # <<>>)
    <3>1. NoCont(up.rsp) /\ Hints(up.rsp, Len(up.rsp)) /\ up'.todo = <<n'>>
      BY <2>1, <2>5, <2>6, Zenon
    <3>2. Hints(up.rsp, Len(up.rsp))' /\ (up'.cont \/ NoCont(up'.rsp))
      BY <2>2, <2>6, <3>1, HintBehind, ZenonT(60)
    <3>3. ~(pc' = "final" /\ t'.cont) /\ req'.expect
      BY <1>4, <2>1, <2>6, ZenonT(60)
    <3> QED
      BY <3>1, <3>2, <3>3, Zenon DEF Owing
  <2>7. ASSUME up.todo # <<>>, up'.todo = Tail(up.todo), NEW i \in Item, i.kind # "hint",
               i.kind # "part" => i.for = Head(up.todo), up'.rsp = Append(up.rsp, i)
        PROVE  Owing' /\ up'.todo = <<>>
    <3>1. Head(up.todo) = n /\ up'.todo = <<>>
      <4>1. Head(<<n>>) = n /\ Tail(<<n>>) = <<>>
        BY SMTT(30)
      <4> QED
        BY <2>5, <2>7, <4>1, ZenonT(60)
    <3>2. IsFinal(i)'
      BY <2>1, <2>7, <3>1, Zenon DEF IsFinal
    <3>3. Hints(up.rsp, Len(up.rsp))
      BY <2>5, <2>7, Zenon
    <3>4. /\ up'.rsp # <<>> /\ Hints(up.rsp, Len(up.rsp) - 1)' /\ up'.rsp[Len(up'.rsp)] = i
          /\ IF up.rsp = <<>> THEN up'.rsp[1] = i ELSE up'.rsp[1] = up.rsp[1]
      <4> DEFINE a == Append(up.rsp, i)
      <4>1. /\ a # <<>> /\ Hints(a, Len(a) - 1) /\ a[Len(a)] = i
            /\ IF up.rsp = <<>> THEN a[1] = i ELSE a[1] = up.rsp[1]
        BY <2>2, <3>3, FinalBehind, Zenon
      <4> HIDE DEF a
      <4>2. up'.rsp = a
        BY <2>7, Zenon DEF a
      <4> QED
        BY <4>1, <4>2, Zenon
    <3>5. IsFinal(up.rsp[Len(up.rsp)])'
      BY <3>2, <3>4, Zenon DEF IsFinal
    <3>6. up'.rsp[1].kind = "hint" => req'.expect /\ ~(pc' = "final" /\ t'.cont)
      BY <2>1, <2>5, <2>7, <3>4, Zenon DEF Owing
    <3> QED
      BY <3>1, <3>4, <3>5, <3>6, ZenonT(60) DEF Owing
  <2>8. CASE /\ up.todo # <<>> /\ up'.todo = up.todo
             /\ "hint" \in t'.rare \/ req.expect
             /\ \E h \in Item : /\ h.kind = "hint" /\ up'.rsp = Append(up.rsp, h)
                                /\ up'.cont <=> up.cont \/ h.code = 100
                                /\ "interim" \in t'.rare \/ (~up.cont /\ Interim(h))
    <3>1. Owing' /\ ~(pc' = "final" /\ t'.cont /\ up'.todo # <<>>)
      BY <1>2, <2>6, <2>8, Zenon DEF Behaved
    <3> QED
      BY <1>4, <2>1, <2>2, <2>3, <2>5, <2>8, <3>1, ZenonT(60)
  <2>9. CASE /\ up.todo # <<>> /\ up'.todo = Tail(up.todo)
             /\ \E i \in Item : /\ i.kind # "hint" /\ (i.kind # "part" => i.for = Head(up.todo))
                                /\ up'.rsp = Append(up.rsp, i)
    <3>1. Owing' /\ up'.todo = <<>>
      BY <2>7, <2>9, Zenon
    <3> QED
      BY <1>4, <2>1, <2>2, <2>3, <2>5, <2>9, <3>1, ZenonT(60)
  <2> QED
    BY <2>1, <2>4, <2>8, <2>9, ZenonT(60) DEF UpstreamTurns
<1> QED
  BY <1>5, <1>6, <1>7, <1>8, <1>9, <1>10, <1>11, <1>12, <1>13, <1>14, <1>15, ZenonT(60)
  DEF Some, Opens, Sends, Ends, Moves
-----------------------------------------------------------------------------
(* The theorems.                                                           *)

(* A writer that has not taken a request yet is in the invariant.          *)
LEMMA IInvInit ==
  ASSUME Init
  PROVE  IInv
<1>1. /\ req \in Request /\ req.body = 0 /\ req.keep \in BOOLEAN /\ ~req.expect
  BY Zenon DEF Init, Request
<1>2. /\ pc = "idle" /\ n = 0 /\ unread = 0 /\ up = NoConn /\ last = NoConn /\ out = <<>>
      /\ t = NewTask(req)
  BY Zenon DEF Init
<1>3. t \in Task /\ t.rare = {}
  BY <1>1, <1>2, Fresh, SMTT(30) DEF NewTask, Task
<1>4. /\ 0 \in -MaxBody .. 0 /\ <<>> \in Seq(OutRec)
      /\ Len(<<>>) = 0 /\ 0 <= 0 /\ ~\E i \in 1 .. 0 : TRUE
  BY HttpForwardAssumption
<1>5. Types
  BY <1>1, <1>2, <1>3, <1>4, Fresh, Zenon DEF Types, Places
<1>6. Conns /\ Retries
  BY <1>2, Zenon DEF Conns, Retries, Connected, Sending, Copying
<1>7. Modes /\ Positions /\ Delivered
  BY <1>2, Zenon DEF Modes, Positions, Delivered, Sending, Copying, Adapting
<1>8. Answers /\ Streams
  BY <1>2, <1>4, Zenon DEF Answers, Streams, Between
<1> QED
  BY <1>5, <1>6, <1>7, <1>8, Zenon DEF IInv

(* Every step of the writer, its task and its upstreams stays in it.       *)
LEMMA IInvNext ==
  ASSUME IInv, [Next]_vars
  PROVE  IInv'
<1>1. Some
  BY Steps, Zenon DEF Some
<1> QED
  BY <1>1, TypesNext, ConnsNext, RetriesNext, ModesNext, PositionsNext, DeliveredNext,
     AnswersNext, StreamsNext, Zenon DEF IInv

(* It holds at all times.                                                  *)
LEMMA IInvAlways == Spec => []IInv
BY IInvInit, IInvNext, PTL DEF Spec

(* Whatever fails, is retried, answered early or closed on the way, the    *)
(* client gets one answer for each request, in order, and the final one    *)
(* (HttpProxyForwardTask::run_forward), but for the events it names.       *)
THEOREM AnswersAlwaysInOrder == Spec => []OneAnswerInOrder
<1>1. IInv => OneAnswerInOrder
  BY ZenonT(60) DEF IInv, Answers, OneAnswerInOrder, Unless, Behaved
<1> QED
  BY <1>1, IInvAlways, PTL

(* Whichever attempt sends it, with the body held, copied or adapted, an   *)
(* upstream gets a prefix of the request's body and nothing behind it      *)
(* (run_with_body, run_with_all_body, run_with_adaptation), unless the     *)
(* connection made inside a body retry failed.                             *)
THEOREM BodyAlwaysIntact == Spec => []BodyIntact
<1>1. IInv => TypeOK
  <2> SUFFICES ASSUME IInv PROVE TypeOK
    OBVIOUS
  <2>1. Types /\ t \in Task
    BY Zenon DEF IInv, Types
  <2>2. unread \in -MaxBody .. MaxBody
    BY <2>1, HttpForwardAssumption DEF Types, Request
  <2> QED
    BY <2>1, <2>2, Zenon DEF TypeOK, Types, Places, Task, OutRec
<1>2. IInv => (up # NoConn /\ up.cur = n /\ ~up.adapted =>
                 Unless({"reconnect"}, up.got = [i \in 1 .. Len(up.got) |-> i]
                                       /\ Len(up.got) <= req.body))
  <2> SUFFICES ASSUME IInv, up # NoConn, up.cur = n, ~up.adapted, "reconnect" \notin t.rare
               PROVE  up.got = [i \in 1 .. Len(up.got) |-> i] /\ Len(up.got) <= req.body
    BY Zenon DEF Unless
  <2>1. up.got = Units(0, Len(up.got)) /\ Len(up.got) <= req.body
    BY Zenon DEF IInv, Delivered, Exact
  <2>2. Units(0, Len(up.got)) = [i \in 1 .. Len(up.got) |-> i]
    BY DEF Units
  <2> QED
    BY <2>1, <2>2, Zenon
<1>3. IInv => BodyIntact
  BY <1>1, <1>2, ZenonT(60) DEF BodyIntact
<1> QED
  BY <1>3, IInvAlways, PTL

(* The client's stream is handed back only at the end of the body ("not    *)
(* all client data read in, drop the client connection"), unless an        *)
(* adapted request came early or the socket options could not be set.      *)
THEOREM AlwaysReadToTheEnd == Spec => []ReadToTheEnd
<1>1. IInv => ReadToTheEnd
  BY Zenon DEF IInv, Positions, ReadToTheEnd, Unless
<1> QED
  BY <1>1, IInvAlways, PTL

(* A connection kept for the next request owes no answer, has nothing      *)
(* unread, and got the whole request (save_or_close), unless an upstream   *)
(* sent a 1xx nobody asked for, a 102, or another 1xx behind its 100.      *)
THEOREM KeptAlwaysClean == Spec => []KeptClean
<1>1. IInv => KeptClean
  BY Zenon DEF IInv, Delivered, Streams, Clean, KeptClean, Unless, Behaved
<1> QED
  BY <1>1, IInvAlways, PTL
=============================================================================
