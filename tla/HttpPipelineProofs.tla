------------------------- MODULE HttpPipelineProofs -------------------------
(***************************************************************************)
(* Safety of the two tasks of a client connection, for every pipeline_size *)
(* and every number of requests.                                           *)
(***************************************************************************)
EXTENDS HttpPipeline, TLAPS

(* What Append does to a sequence.                                         *)
LEMMA AppendSeq ==
  ASSUME NEW S, NEW s \in Seq(S), NEW e \in S
  PROVE  /\ Append(s, e) \in Seq(S) /\ Len(Append(s, e)) = Len(s) + 1
         /\ Append(s, e)[Len(s) + 1] = e
         /\ \A i \in 1 .. Len(s) : Append(s, e)[i] = s[i]
OBVIOUS

(* The rest of a sequence without its first element.                       *)
LEMMA TailSeq ==
  ASSUME NEW S, NEW s \in Seq(S), s # <<>>
  PROVE  /\ Len(s) \in Nat /\ Len(s) >= 1 /\ Head(s) = s[1] /\ Head(s) \in S
         /\ Tail(s) \in Seq(S) /\ Len(Tail(s)) = Len(s) - 1
         /\ \A i \in 1 .. Len(s) - 1 : Tail(s)[i] = s[i + 1]
OBVIOUS

-----------------------------------------------------------------------------
(* The inductive invariant.                                                *)

(* The queue holds the requests that follow the one being served, in the   *)
(* order they were parsed; an error response can only be its last element, *)
(* sent by a reader that has ended.                                        *)
QueueOK ==
  /\ cur <= Len(reqs) /\ (Serving => cur >= 1)
  /\ \A i \in 1 .. Len(tq) :
       /\ tq[i] <= Len(reqs)
       /\ \/ tq[i] = cur + i
          \/ tq[i] = 0 /\ i = Len(tq) /\ rpc = "done"
  /\ rpc \in {"loop", "fill", "wait"} => cur + Len(tq) = Len(reqs)
  /\ rpc = "sent" =>
       item = Len(reqs) /\ item > 0 /\ cur + Len(tq) = Len(reqs)
  /\ rpc = "send" =>
       \/ item = 0 /\ cur + Len(tq) = Len(reqs)
       \/ item = Len(reqs) /\ item > 0 /\ cur + Len(tq) = Len(reqs) - 1

Busy == IF wpc \in {"task", "drain", "del"} THEN 1 ELSE 0

(* alive_task counts the requests queued and served, except for the one    *)
(* whose add_task is still to come, or never comes.                        *)
CountOK ==
  /\ rpc \notin {"sent", "done"} => alive = Len(tq) + Busy
  /\ rpc = "sent" => alive = Len(tq) + Busy - 1
  /\ rpc = "done" => alive \in {Len(tq) + Busy - 1, Len(tq) + Busy}
  /\ \A i \in 1 .. Len(tq) : tq[i] = 0 => alive = Len(tq) + Busy - 1

(* The writer serves no request after it has closed the queue, or failed   *)
(* to hand the stream back.                                                *)
ClosedOK ==
  /\ wpc = "done" => ~open
  /\ ~open \/ blocked => wpc = "done" \/ (wpc = "del" /\ ~goon)

Answered(k) == \E i \in 1 .. Len(answered) : answered[i] = k
Covered(k) == Answered(k) \/ <<k, "sockopt">> \in odd

(* All requests before the one being served have been answered, in order,  *)
(* or ended for failed socket options; the one being served has not, and   *)
(* one answered twice is the last the writer serves.                       *)
AnswersOK ==
  /\ \A i, j \in 1 .. Len(answered) :
       i < j => \/ answered[i] < answered[j]
                \/ answered[i] = answered[j] /\ <<answered[i], "reconnect">> \in odd
                     /\ answered[i] = cur
                     /\ (wpc = "done" \/ (wpc = "del" /\ ~goon))
  /\ \A i \in 1 .. Len(answered) : answered[i] <= cur /\ (Serving => answered[i] < cur)
  /\ wpc = "recv" \/ (wpc = "del" /\ goon) => \A k \in 1 .. cur : Covered(k)
  /\ Serving => \A k \in 1 .. cur - 1 : Covered(k)

(* A reader that may quit at its timeout has nothing queued or served.     *)
IdleOK ==
  /\ rpc = "fill" /\ quit => tq = <<>> /\ wpc \in {"recv", "done"}
  /\ idlequit => rpc = "done" /\ tq = <<>> /\ wpc \in {"recv", "done"}

Latest == reqs[Len(reqs)]

(* Where the read half is while the reader is at each of its places.       *)
HeldOK ==
  /\ rpc \in {"loop", "fill"} => stream = "reader"
  /\ rpc = "send" /\ (item = 0 \/ Latest.safe) => stream = "reader"
  /\ rpc = "sent" /\ Latest.safe => stream = "reader"
  /\ rpc = "wait" => Len(reqs) > 0 /\ ~Latest.safe
  /\ rpc = "done" => stream # "reader"
  /\ stream = "chan" <=> chan = "stream"
  /\ chan # "empty" => rpc \in {"sent", "wait"} /\ stream \in {"chan", "gone"}

Pending(k) == k > cur \/ (k = cur /\ Serving)

(* Only the latest request can still have the read half to give back; the  *)
(* reader then waits for it, or has ended because the server is offline.   *)
LentOK ==
  open => \A k \in 1 .. Len(reqs) :
            Pending(k) /\ ~reqs[k].safe =>
              /\ k = Len(reqs) /\ stream = "request"
              /\ rpc = "done" => reqs[k].late

LeftUnread(k) == <<k, "sockopt">> \in odd \/ <<k, "unread">> \in odd

(* A body is unread only as long as the read half is lent to its request,  *)
(* or when the task of that request left it so.                            *)
BoundaryOK ==
  /\ stream \in {"reader", "chan"} /\ unread => LeftUnread(Len(reqs))
  /\ unread => Len(reqs) > 0 /\ Latest.body

BlockedOK == HandBackFailsOnlyOffline /\ (blocked => cur >= 1)

IInv ==
  /\ TypeOK /\ QueueOK /\ CountOK /\ ClosedOK /\ AnswersOK /\ IdleOK
  /\ HeldOK /\ LentOK /\ BoundaryOK /\ BlockedOK

-----------------------------------------------------------------------------
(* The types of what the proofs compute with.                              *)
LEMMA Types ==
  ASSUME TypeOK
  PROVE  /\ Len(reqs) \in Nat /\ Len(reqs) <= MaxRequests /\ Len(tq) \in Nat
         /\ \A i \in 1 .. Len(tq) : tq[i] \in Nat
         /\ cur \in Nat /\ item \in Nat /\ alive \in Int
BY HttpPipelineAssumption, SMTT(30) DEF TypeOK

(* The requests read, the queue between the tasks, and the answers.        *)
LEMMA SeqTypes ==
  ASSUME TypeOK
  PROVE  /\ reqs \in Seq(Request) /\ tq \in Seq(0 .. MaxRequests)
         /\ answered \in Seq(1 .. MaxRequests) /\ Len(answered) \in Nat
         /\ \A k \in 1 .. Len(reqs) : reqs[k] \in Request
BY SMTT(30) DEF TypeOK

(* ReaderSend: the item goes to the end of the queue.                      *)
LEMMA SendEffect ==
  ASSUME TypeOK, ReaderSend
  PROVE  /\ tq' \in Seq(0 .. MaxRequests) /\ Len(tq') = Len(tq) + 1
         /\ tq'[Len(tq) + 1] = item
         /\ \A i \in 1 .. Len(tq) : tq'[i] = tq[i]
         /\ rpc = "send" /\ rpc' = IF item = 0 THEN "done" ELSE "sent"
         /\ UNCHANGED <<quit, item, reqs, idlequit, unread, open, alive, writer>>
<1>1. item \in 0 .. MaxRequests /\ tq' = Append(tq, item)
  BY Zenon DEF ReaderSend, TypeOK
<1>2. /\ tq' \in Seq(0 .. MaxRequests) /\ Len(tq') = Len(tq) + 1
      /\ tq'[Len(tq) + 1] = item
      /\ \A i \in 1 .. Len(tq) : tq'[i] = tq[i]
  BY <1>1, SeqTypes, AppendSeq
<1> QED
  BY <1>2, Zenon DEF ReaderSend, ReaderEnds

(* WriterTakes: the first request of the queue is the next to be served.   *)
LEMMA TakeEffect ==
  ASSUME TypeOK, QueueOK, NEW auth, WriterTakes(auth)
  PROVE  /\ tq' \in Seq(0 .. MaxRequests)
         /\ Len(tq) >= 1 /\ Len(tq') = Len(tq) - 1
         /\ \A i \in 1 .. Len(tq') : i + 1 \in 1 .. Len(tq) /\ tq'[i] = tq[i + 1]
         /\ wpc = "recv" /\ wpc' \in {"task", "drain", "del"}
         /\ cur' = cur + 1 /\ cur' <= Len(reqs)
         /\ UNCHANGED <<reader, unread, chan, alive, blocked>>
<1>1. /\ tq' \in Seq(0 .. MaxRequests)
      /\ Len(tq) >= 1 /\ Len(tq') = Len(tq) - 1 /\ cur' = tq[1] /\ tq[1] # 0
      /\ \A i \in 1 .. Len(tq') : i + 1 \in 1 .. Len(tq) /\ tq'[i] = tq[i + 1]
  BY SeqTypes, TailSeq DEF WriterTakes
<1>2. cur' = cur + 1 /\ cur' <= Len(reqs)
  BY <1>1, Types DEF QueueOK
<1> QED
  BY <1>1, <1>2, Zenon DEF WriterTakes

(* WriterTakesError: the queue held nothing else, and its reader has ended. *)
LEMMA ErrorEffect ==
  ASSUME TypeOK, QueueOK, WriterTakesError
  PROVE  /\ Len(tq) = 1 /\ tq' = <<>> /\ tq[1] = 0 /\ rpc = "done"
         /\ wpc = "recv" /\ wpc' = "done" /\ ~open'
         /\ UNCHANGED <<reader, unread, chan, alive, cur, goon, answered, blocked>>
<1>1. tq # <<>> /\ Head(tq) = 0 /\ tq' = Tail(tq)
  BY Zenon DEF WriterTakesError
<1>2. Len(tq) >= 1 /\ tq[1] = 0 /\ tq' \in Seq(0 .. MaxRequests) /\ Len(tq') = Len(tq) - 1
  BY <1>1, SeqTypes, TailSeq, Zenon
<1>3. Len(tq) = 1 /\ rpc = "done"
  BY <1>2, Types, SMTT(30) DEF QueueOK
<1>4. tq' = <<>>
  BY <1>2, <1>3
<1> QED
  BY <1>2, <1>3, <1>4, Zenon DEF WriterTakesError, WriterEnds

(* The task of a request is over, of whichever kind it was.                *)
RequestEnds ==
  \/ \E end \in {"usual"} \cup Odd, close \in BOOLEAN, k \in 0 .. 2 : TaskEnds(end, close, k)
  \/ \E back \in BOOLEAN : ConnectEnds(back)
  \/ \E close \in BOOLEAN : UntrustedEnds(close)

(* What the end of a task makes of the answers, the body and odd.          *)
EndsWith(close) ==
  /\ \/ answered' \in {answered, Append(answered, cur)}
     \/ /\ answered' = Append(Append(answered, cur), cur) /\ close
        /\ <<cur, "reconnect">> \in odd'
  /\ unread' \in BOOLEAN /\ (unread' => unread)
  /\ odd \subseteq odd' /\ odd' \subseteq odd \cup ({cur} \X Odd)
  /\ HandBack(close)
  /\ ~close => /\ answered' = Append(answered, cur) \/ <<cur, "sockopt">> \in odd'
               /\ reqs[cur].proto = "connect" \/ reqs[cur].keep
               /\ ~reqs[cur].safe /\ unread' =>
                    ~reqs[cur].body \/ <<cur, "sockopt">> \in odd' \/ <<cur, "unread">> \in odd'

(* A task that does not close has answered, and read the body if there is  *)
(* one, but for the ends Odd; only CONNECT may leave the connection open   *)
(* without keep-alive.                                                     *)
LEMMA EndsEffect ==
  ASSUME TypeOK, QueueOK, RequestEnds
  PROVE  /\ Serving /\ cur \in 1 .. Len(reqs) /\ wpc' = "del"
         /\ UNCHANGED <<conf, online, reader, tq, alive, cur, authfail>>
         /\ \E close \in BOOLEAN : EndsWith(close)
<1>1. Serving /\ cur \in 1 .. Len(reqs) /\ reqs[cur] \in Request
  <2>1. Serving
    BY Zenon DEF RequestEnds, TaskEnds, ConnectEnds, UntrustedEnds, Serving
  <2> QED
    BY <2>1, Types, SeqTypes DEF QueueOK
<1> unread \in BOOLEAN
  BY Zenon DEF TypeOK
<1>a. ASSUME NEW k \in 0 .. 2, AnswerCur(k)
      PROVE  /\ k \in {0, 1} => answered' \in {answered, Append(answered, cur)}
             /\ k = 1 => answered' = Append(answered, cur)
             /\ k = 2 => answered' = Append(Append(answered, cur), cur)
  BY <1>a DEF AnswerCur
<1>2. ASSUME NEW end \in {"usual"} \cup Odd, NEW close \in BOOLEAN, NEW k \in 0 .. 2,
             TaskEnds(end, close, k)
      PROVE  /\ UNCHANGED <<conf, online, reader, tq, alive, cur, authfail>>
             /\ EndsWith(close)
  <2>1. /\ UNCHANGED <<conf, online, reader, tq, alive, cur, authfail>>
        /\ HandBack(close) /\ AnswerCur(k) /\ (~reqs[cur].keep => close)
        /\ unread' = IF close \/ reqs[cur].safe \/ end # "usual" THEN unread ELSE FALSE
        /\ odd' = IF end = "usual" THEN odd ELSE odd \cup {<<cur, end>>}
    BY <1>2, Zenon DEF TaskEnds
  <2>2. /\ end = "usual" => k \in {0, 1} /\ (~close => k = 1)
        /\ end = "sockopt" => ~close /\ k = 0
        /\ end = "unread" => ~close /\ k = 1
        /\ end = "reconnect" => close /\ k = 2
        /\ end \in {"usual", "sockopt", "unread", "reconnect"}
    BY <1>2 DEF TaskEnds, Odd
  <2>3. odd \subseteq odd' /\ odd' \subseteq odd \cup ({cur} \X Odd)
    BY <2>1, <2>2 DEF Odd
  <2>4. end # "usual" => <<cur, end>> \in odd'
    BY <2>1
  <2>5. unread' \in BOOLEAN /\ (unread' => unread)
    BY <2>1, Zenon
  <2> QED
    BY <1>a, <2>1, <2>2, <2>3, <2>4, <2>5 DEF EndsWith
<1>3. ASSUME NEW close \in BOOLEAN, UntrustedEnds(close)
      PROVE  /\ UNCHANGED <<conf, online, reader, tq, alive, cur, authfail>>
             /\ EndsWith(close)
  <2>1. PICK k \in {0, 1} : (~close => k = 1) /\ AnswerCur(k)
    BY <1>3, Zenon DEF UntrustedEnds
  <2>2. k \in 0 .. 2 /\ odd' = odd /\ odd \subseteq odd \cup ({cur} \X Odd)
    BY <1>3 DEF UntrustedEnds
  <2>3. answered' \in {answered, Append(answered, cur)} /\ (~close => answered' = Append(answered, cur))
    BY <1>a, <2>1, <2>2, Zenon
  <2> QED
    BY <1>3, <2>2, <2>3, Zenon DEF UntrustedEnds, EndsWith
<1>4. ASSUME NEW back \in BOOLEAN, ConnectEnds(back)
      PROVE  /\ UNCHANGED <<conf, online, reader, tq, alive, cur, authfail>>
             /\ EndsWith(~back)
  <2>1. odd \subseteq odd \cup ({cur} \X Odd) /\ (~back) \in BOOLEAN
    OBVIOUS
  <2> QED
    BY <1>1, <1>4, <2>1, Zenon DEF ConnectEnds, Request, EndsWith
<1>5. (\E close \in BOOLEAN : EndsWith(close)) => wpc' = "del"
  BY Zenon DEF HandBack, EndsWith
<1> QED
  BY <1>1, <1>2, <1>3, <1>4, <1>5, Zenon DEF RequestEnds

(* Every step keeps the queue in the order of the requests.                *)
LEMMA QueueNext ==
  ASSUME TypeOK, QueueOK, [Next]_vars
  PROVE  QueueOK'
<1> USE DEF reader, writer, Serving
<1>0. /\ Len(reqs) \in Nat /\ Len(tq) \in Nat /\ cur \in Nat /\ item \in Nat
      /\ \A i \in 1 .. Len(tq) : tq[i] \in Nat
  BY Types, Zenon
<1>1. CASE ReaderLoop \/ ClientCloses \/ ReadTimeout \/ ReaderRecv \/ ReaderCut
  BY <1>1, <1>0, Zenon DEF QueueOK, ReaderLoop, ClientCloses, ReadTimeout, ReaderRecv,
     ReaderCut, ReaderEnds
<1>2. ASSUME NEW reply \in BOOLEAN, ParseFails(reply) PROVE QueueOK'
  BY <1>2, <1>0, Zenon DEF QueueOK, ParseFails, ReaderEnds
<1>3. ASSUME NEW q \in Request, ParseRequest(q) PROVE QueueOK'
  <2>1. Len(reqs') = Len(reqs) + 1
    BY <1>3, SeqTypes, AppendSeq DEF ParseRequest
  <2> QED
    BY <1>3, <2>1, <1>0, SMTT(30) DEF QueueOK, ParseRequest
<1>4. CASE ReaderSend
  <2>1. ASSUME NEW i \in 1 .. Len(tq')
        PROVE  /\ tq'[i] <= Len(reqs')
               /\ \/ tq'[i] = cur' + i
                  \/ tq'[i] = 0 /\ i = Len(tq') /\ rpc' = "done"
    <3>1. CASE i \in 1 .. Len(tq)
      BY <1>4, <3>1, <1>0, SendEffect, Zenon DEF QueueOK
    <3>2. CASE i = Len(tq) + 1
      BY <1>4, <3>2, <1>0, SendEffect DEF QueueOK
    <3> QED
      BY <1>4, <3>1, <3>2, <1>0, SendEffect, SMTT(30)
  <2> QED
    BY <1>4, <2>1, <1>0, SendEffect, SMTT(30) DEF QueueOK
<1>5. CASE ReaderSent
  BY <1>5, <1>0, Zenon DEF QueueOK, ReaderSent, ReaderEnds
<1>6. ASSUME NEW auth, WriterTakes(auth) PROVE QueueOK'
  <2>1. /\ Len(tq) >= 1 /\ Len(tq') = Len(tq) - 1
        /\ cur' = cur + 1 /\ cur' <= Len(reqs) /\ UNCHANGED <<rpc, item, reqs>>
    BY <1>6, TakeEffect, Zenon
  <2>2. ASSUME NEW i \in 1 .. Len(tq')
        PROVE  /\ tq'[i] <= Len(reqs')
               /\ \/ tq'[i] = cur' + i
                  \/ tq'[i] = 0 /\ i = Len(tq') /\ rpc' = "done"
    <3>1. i + 1 \in 1 .. Len(tq) /\ tq'[i] = tq[i + 1]
      BY <1>6, TakeEffect, Zenon
    <3> QED
      BY <2>1, <3>1, <1>0, SMTT(60) DEF QueueOK
  <2>3. cur' + Len(tq') = cur + Len(tq) /\ cur' >= 1
    BY <1>0, <2>1
  <2> QED
    BY <2>1, <2>2, <2>3, <1>0, Zenon DEF QueueOK
<1>7. CASE WriterTakesError
  BY <1>7, <1>0, ErrorEffect, SMTT(30) DEF QueueOK
<1>8. CASE WriterNone \/ WriterDone
  BY <1>8, <1>0, Zenon DEF QueueOK, WriterNone, WriterDone, WriterEnds
<1>9. CASE RequestEnds
  BY <1>9, <1>0, EndsEffect, Zenon DEF QueueOK
<1>10. CASE UNCHANGED <<reader, tq, cur, wpc>>
  BY <1>10, <1>0, Zenon DEF QueueOK
<1> QED
  BY <1>1, <1>2, <1>3, <1>4, <1>5, <1>6, <1>7, <1>8, <1>9, <1>10, Zenon
  DEF Next, ReaderStep, ReaderTimer, Client, WriterStep, RequestEnds, GoOffline, vars

(* Every step keeps alive_task in step with the queue and the writer.      *)
LEMMA CountNext ==
  ASSUME TypeOK, QueueOK, CountOK, [Next]_vars
  PROVE  CountOK'
<1> USE DEF reader, writer, Busy
<1>0. /\ Len(reqs) \in Nat /\ Len(tq) \in Nat /\ cur \in Nat /\ item \in Nat
      /\ alive \in Int
      /\ rpc \in {"loop", "fill", "send", "sent", "wait", "done"}
  BY Types, Zenon DEF TypeOK
<1>1. CASE /\ UNCHANGED <<tq, alive, wpc>>
           /\ rpc' = "done" \/ rpc' = rpc \/ {rpc, rpc'} \cap {"sent", "done"} = {}
  BY <1>0, <1>1, Zenon DEF CountOK
<1>2. CASE ReaderSend
  <2>1. /\ Len(tq') = Len(tq) + 1 /\ tq'[Len(tq) + 1] = item
        /\ rpc = "send" /\ rpc' = IF item = 0 THEN "done" ELSE "sent"
        /\ UNCHANGED <<alive, wpc, item>>
    BY <1>2, SendEffect, Zenon
  <2>2. ASSUME NEW i \in 1 .. Len(tq), tq'[i] = 0 PROVE FALSE
    BY <1>0, <1>2, <2>1, <2>2, SendEffect, SMTT(30) DEF QueueOK
  <2> QED
    BY <1>0, <2>1, <2>2 DEF CountOK
<1>3. CASE ReaderSent
  <2>1. \A i \in 1 .. Len(tq) : tq[i] # 0
    BY <1>0, <1>3 DEF ReaderSent, QueueOK
  <2> QED
    BY <1>0, <1>3, <2>1, SMTT(30) DEF CountOK, ReaderSent, ReaderEnds
<1>4. ASSUME NEW auth, WriterTakes(auth) PROVE CountOK'
  <2>1. /\ Len(tq) >= 1 /\ Len(tq') = Len(tq) - 1
        /\ wpc = "recv" /\ wpc' \in {"task", "drain", "del"}
        /\ UNCHANGED <<rpc, alive>>
    BY <1>4, TakeEffect, Zenon
  <2>2. ASSUME NEW i \in 1 .. Len(tq'), tq'[i] = 0
        PROVE  alive = Len(tq) - 1
    BY <1>0, <1>4, <2>1, <2>2, TakeEffect, SMTT(30) DEF CountOK
  <2> QED
    BY <1>0, <2>1, <2>2 DEF CountOK
<1>5. CASE WriterTakesError
  <2>1. /\ Len(tq) = 1 /\ tq[1] = 0 /\ Len(tq') = 0 /\ rpc = "done"
        /\ wpc = "recv" /\ wpc' = "done" /\ UNCHANGED <<rpc, alive>>
    BY <1>5, ErrorEffect, Zenon
  <2> QED
    BY <1>0, <2>1 DEF CountOK
<1>6. CASE WriterNone
  BY <1>0, <1>6, Zenon DEF CountOK, WriterNone, WriterEnds
<1>7. CASE WriterDone
  <2>1. /\ alive' = alive - 1 /\ UNCHANGED <<rpc, tq>>
        /\ wpc = "del" /\ wpc' \in {"recv", "done"}
    BY <1>7, Zenon DEF WriterDone, WriterEnds
  <2> QED
    BY <1>0, <2>1 DEF CountOK
<1>8. CASE RequestEnds
  <2>1. Serving /\ wpc' = "del" /\ UNCHANGED <<rpc, tq, alive>>
    BY <1>8, EndsEffect, Zenon
  <2> QED
    BY <1>0, <2>1, Zenon DEF CountOK, Serving
<1>9. CASE ReaderLoop \/ ClientCloses \/ ReadTimeout \/ ReaderRecv \/ ReaderCut
  BY <1>1, <1>9, Zenon
  DEF ReaderLoop, ClientCloses, ReadTimeout, ReaderRecv, ReaderCut, ReaderEnds
<1>10. ASSUME NEW reply \in BOOLEAN, ParseFails(reply) PROVE CountOK'
  BY <1>1, <1>10, Zenon DEF ParseFails, ReaderEnds
<1>11. ASSUME NEW q \in Request, ParseRequest(q) PROVE CountOK'
  BY <1>1, <1>11, Zenon DEF ParseRequest
<1> QED
  BY <1>1, <1>2, <1>3, <1>4, <1>5, <1>6, <1>7, <1>8, <1>9, <1>10, <1>11, ZenonT(60)
  DEF Next, ReaderStep, ReaderTimer, Client, WriterStep, RequestEnds, GoOffline, vars

(* A step of the reader or of the server leaves the writer alone.          *)
LEMMA Steps ==
  ASSUME [Next]_vars
  PROVE  \/ UNCHANGED <<open, writer>>
         \/ \E auth \in {"ok", "failed", "blocked"} : WriterTakes(auth)
         \/ WriterTakesError \/ WriterNone \/ WriterDone \/ RequestEnds
BY ZenonT(60) DEF Next, ReaderStep, ReaderTimer, Client, WriterStep, RequestEnds, GoOffline,
       vars, writer, ReaderLoop, ReaderSend, ReaderSent, ReaderRecv, ReaderCut,
       ReadTimeout, ClientCloses, ParseRequest, ParseFails

(* Every step keeps the writer from serving on once it has closed.         *)
LEMMA ClosedNext ==
  ASSUME TypeOK, QueueOK, ClosedOK, [Next]_vars
  PROVE  ClosedOK'
<1>0. open \in BOOLEAN /\ blocked \in BOOLEAN /\ goon \in BOOLEAN
  BY Zenon DEF TypeOK
<1>1. CASE UNCHANGED <<open, writer>>
  BY <1>1, Zenon DEF writer, ClosedOK
<1>2. ASSUME NEW auth, WriterTakes(auth) PROVE ClosedOK'
  BY <1>0, <1>2, Zenon DEF WriterTakes, ClosedOK
<1>3. CASE WriterTakesError \/ WriterNone
  BY <1>0, <1>3, Zenon DEF WriterTakesError, WriterNone, WriterEnds, ClosedOK
<1>4. CASE WriterDone
  BY <1>0, <1>4, Zenon DEF WriterDone, WriterEnds, ClosedOK
<1>5. CASE RequestEnds
  <2>1. PICK close \in BOOLEAN : HandBack(close)
    BY <1>5, EndsEffect, Zenon DEF EndsWith
  <2>2. open /\ ~blocked /\ wpc' = "del"
    BY <1>0, <1>5, EndsEffect, Zenon DEF Serving, ClosedOK
  <2>3. ~open' \/ blocked' => ~goon'
    BY <1>0, <2>1, <2>2, Zenon DEF HandBack
  <2> QED
    BY <2>2, <2>3, Zenon DEF ClosedOK
<1> QED
  BY <1>1, <1>2, <1>3, <1>4, <1>5, Steps, Zenon

(* Appending the request being served keeps the answers in order.          *)
LEMMA AnswerServed ==
  ASSUME NEW a \in Seq(1 .. MaxRequests), NEW k \in 1 .. MaxRequests,
         \A i, j \in 1 .. Len(a) : i < j => a[i] < a[j],
         \A i \in 1 .. Len(a) : a[i] < k
  PROVE  LET b == Append(a, k) IN
         /\ b \in Seq(1 .. MaxRequests) /\ Len(b) = Len(a) + 1 /\ b[Len(a) + 1] = k
         /\ \A i \in 1 .. Len(a) : b[i] = a[i]
         /\ \A i, j \in 1 .. Len(b) : i < j => b[i] < b[j]
         /\ \A i \in 1 .. Len(b) : b[i] <= k
<1> DEFINE b == Append(a, k)
<1>1. /\ b \in Seq(1 .. MaxRequests) /\ Len(b) = Len(a) + 1 /\ b[Len(a) + 1] = k
      /\ \A i \in 1 .. Len(a) : b[i] = a[i] /\ a[i] \in Int
      /\ Len(a) \in Nat /\ k \in Int
  BY HttpPipelineAssumption, AppendSeq
<1> HIDE DEF b
<1>2. \A i, j \in 1 .. Len(b) : i < j => b[i] < b[j]
  BY <1>1, SMTT(30)
<1>3. \A i \in 1 .. Len(b) : b[i] <= k
  BY <1>1, SMTT(30)
<1> QED
  BY <1>1, <1>2, <1>3 DEF b

(* Every step answers the request being served, and no other.              *)
LEMMA AnswersNext ==
  ASSUME TypeOK, QueueOK, AnswersOK, [Next]_vars
  PROVE  AnswersOK'
<1> DEFINE Rising(a) == \A i, j \in 1 .. Len(a) : i < j => a[i] < a[j]
           Below(a, k) == \A i \in 1 .. Len(a) : a[i] < k
           UpTo(a, k) == \A i \in 1 .. Len(a) : a[i] <= k
<1>0. /\ Len(reqs) \in Nat /\ Len(reqs) <= MaxRequests /\ cur \in Nat
      /\ Len(answered) \in Nat /\ answered \in Seq(1 .. MaxRequests)
      /\ \A i \in 1 .. Len(answered) : answered[i] \in Int
  BY Types, SeqTypes, HttpPipelineAssumption, SMTT(30)
<1>1. ASSUME wpc \notin {"del", "done"} PROVE Rising(answered)
  BY <1>1, Zenon DEF AnswersOK
<1>2. CASE UNCHANGED <<open, writer>>
  BY <1>2, Zenon DEF writer, AnswersOK, Serving, Covered, Answered
<1>3. ASSUME NEW auth, WriterTakes(auth) PROVE AnswersOK'
  <2>0. cur' = cur + 1 /\ cur' <= Len(reqs) /\ wpc = "recv" /\ odd' = odd
    BY <1>3, TakeEffect, Zenon DEF WriterTakes
  <2>1. /\ cur' = cur + 1 /\ cur' \in 1 .. MaxRequests /\ wpc = "recv" /\ odd' = odd
    BY <1>0, <2>0, HttpPipelineAssumption
  <2>2. \/ wpc' \in {"task", "drain"} /\ answered' = answered
        \/ /\ wpc' = "del" /\ goon' = FALSE
           /\ answered' = answered \/ answered' = Append(answered, cur')
    BY <1>3, Zenon DEF WriterTakes
  <2>3. Rising(answered) /\ UpTo(answered, cur) /\ \A k \in 1 .. cur : Covered(k)
    BY <1>1, <2>1, Zenon DEF AnswersOK
  <2>4. Below(answered, cur')
    BY <1>0, <2>1, <2>3
  <2>5. CASE answered' = answered
    <3>1. Rising(answered') /\ Below(answered', cur') /\ \A k \in 1 .. cur : Covered(k)'
      BY <2>1, <2>3, <2>4, <2>5, Zenon DEF Covered, Answered
    <3>2. cur = cur' - 1 /\ UpTo(answered', cur')
      BY <1>0, <2>1, <2>3, <2>5, SMTT(30)
    <3> QED
      BY <2>2, <3>1, <3>2, Zenon DEF AnswersOK, Serving
  <2>6. CASE answered' = Append(answered, cur') /\ wpc' = "del" /\ goon' = FALSE
    <3>1. Rising(Append(answered, cur')) /\ UpTo(Append(answered, cur'), cur')
      BY <1>0, <2>1, <2>3, <2>4, AnswerServed, Zenon
    <3>2. Rising(answered') /\ UpTo(answered', cur')
      BY <2>6, <3>1, Zenon
    <3> QED
      BY <2>6, <3>2, Zenon DEF AnswersOK, Serving
  <2> QED
    BY <2>2, <2>5, <2>6, Zenon
<1>4. CASE WriterTakesError \/ WriterNone
  BY <1>4, Zenon DEF WriterTakesError, WriterNone, WriterEnds, AnswersOK, Serving
<1>5. CASE WriterDone
  <2>1. /\ wpc = "del" /\ UNCHANGED <<cur, goon, answered, odd>>
        /\ IF goon THEN wpc' = "recv" ELSE wpc' = "done"
    BY <1>5, Zenon DEF WriterDone, WriterEnds
  <2> QED
    BY <2>1, Zenon DEF AnswersOK, Serving, Covered, Answered
<1>6. CASE RequestEnds
  <2>1. Serving /\ cur \in 1 .. MaxRequests /\ wpc' = "del" /\ cur' = cur
    BY <1>0, <1>6, EndsEffect, HttpPipelineAssumption
  <2>2. PICK close \in BOOLEAN : EndsWith(close)
    BY <1>6, EndsEffect, Zenon
  <2>3. Rising(answered) /\ Below(answered, cur) /\ \A k \in 1 .. cur - 1 : Covered(k)
    BY <1>1, <2>1, Zenon DEF AnswersOK, Serving
  <2>4. odd \subseteq odd' /\ (goon' => ~close)
    BY <2>2, Zenon DEF EndsWith, HandBack
  <2> DEFINE one == Append(answered, cur)
  <2>5. /\ one \in Seq(1 .. MaxRequests) /\ Len(one) = Len(answered) + 1
        /\ one[Len(answered) + 1] = cur
        /\ \A i \in 1 .. Len(answered) : one[i] = answered[i]
        /\ Rising(one) /\ UpTo(one, cur)
    BY <1>0, <2>1, <2>3, AnswerServed, Zenon
  <2> HIDE DEF one
  <2>6. CASE answered' = answered
    <3>1. Rising(answered') /\ UpTo(answered', cur')
      BY <1>0, <2>1, <2>3, <2>6, SMTT(30)
    <3>2. \A k \in 1 .. cur - 1 : Covered(k)'
      BY <2>3, <2>4, <2>6, Zenon DEF Covered, Answered
    <3>3. goon' => <<cur, "sockopt">> \in odd'
      <4>1. answered # one
        BY <1>0, <2>5
      <4> QED
        BY <2>2, <2>4, <2>6, <4>1, Zenon DEF EndsWith, one
    <3>4. goon' => \A k \in 1 .. cur : Covered(k)'
      <4>1. \A k \in 1 .. cur : k \in 1 .. cur - 1 \/ k = cur
        BY <1>0
      <4> QED
        BY <3>2, <3>3, <4>1, Zenon DEF Covered
    <3> QED
      BY <2>1, <3>1, <3>4, Zenon DEF AnswersOK, Serving
  <2>7. CASE answered' = one
    <3>1. \A k \in 1 .. cur : Covered(k)'
      <4>1. ASSUME NEW k \in 1 .. cur - 1 PROVE Covered(k)'
        <5>1. CASE <<k, "sockopt">> \in odd
          BY <2>4, <5>1, Zenon DEF Covered
        <5>2. ASSUME NEW i \in 1 .. Len(answered), answered[i] = k PROVE Covered(k)'
          <6>1. i \in 1 .. Len(one) /\ one[i] = k
            BY <1>0, <2>5, <5>2
          <6> QED
            BY <2>7, <6>1, Zenon DEF Covered, Answered
        <5> QED
          BY <2>3, <5>1, <5>2, Zenon DEF Covered, Answered
      <4>2. ASSUME NEW k, k = cur PROVE Covered(k)'
        <5>1. Len(answered) + 1 \in 1 .. Len(one)
          BY <1>0, <2>5
        <5> QED
          BY <2>5, <2>7, <4>2, <5>1, Zenon DEF Covered, Answered
      <4>3. \A k \in 1 .. cur : k \in 1 .. cur - 1 \/ k = cur
        BY <1>0
      <4> QED
        BY <4>1, <4>2, <4>3, Zenon
    <3> QED
      BY <2>1, <2>5, <2>7, <3>1, Zenon DEF AnswersOK, Serving
  <2>8. CASE answered' = Append(one, cur) /\ close /\ <<cur, "reconnect">> \in odd'
    <3>1. /\ Len(answered') = Len(one) + 1 /\ answered'[Len(one) + 1] = cur
          /\ \A i \in 1 .. Len(one) : answered'[i] = one[i]
      BY <2>1, <2>5, <2>8, AppendSeq
    <3>2. UpTo(answered', cur')
      BY <1>0, <2>1, <2>5, <3>1, SMTT(30)
    <3>3. ASSUME NEW i \in 1 .. Len(answered'), NEW j \in 1 .. Len(answered'), i < j
          PROVE  answered'[i] < answered'[j] \/ (answered'[i] = answered'[j] /\ answered'[i] = cur)
      <4>1. i \in 1 .. Len(one) /\ one[i] \in Int /\ answered'[i] = one[i] /\ cur \in Int
        BY <1>0, <2>5, <3>1, <3>3, SMTT(30)
      <4>2. CASE j \in 1 .. Len(one)
        BY <2>5, <3>1, <3>3, <4>1, <4>2, Zenon
      <4>3. CASE j = Len(one) + 1
        BY <2>5, <3>1, <4>1, <4>3
      <4> QED
        BY <1>0, <2>5, <3>1, <4>2, <4>3
    <3>4. goon' = FALSE
      BY <2>2, <2>8, Zenon DEF EndsWith, HandBack
    <3> QED
      BY <2>1, <2>8, <3>2, <3>3, <3>4, Zenon DEF AnswersOK, Serving
  <2> QED
    BY <2>2, <2>6, <2>7, <2>8, Zenon DEF EndsWith, one
<1> QED
  BY <1>2, <1>3, <1>4, <1>5, <1>6, Steps, Zenon

(* Every step keeps the decision to quit sound: alive_task is zero or less *)
(* only with nothing queued and nothing served.                            *)
LEMMA IdleNext ==
  ASSUME TypeOK, QueueOK, CountOK, IdleOK, [Next]_vars
  PROVE  IdleOK'
<1> USE DEF reader, writer, IdleOK
<1>0. /\ Len(tq) \in Nat /\ alive \in Int /\ tq \in Seq(0 .. MaxRequests)
      /\ wpc \in {"recv", "task", "drain", "del", "done"}
      /\ quit \in BOOLEAN /\ idlequit \in BOOLEAN
  BY Types, Zenon DEF TypeOK
<1>1. CASE ReaderLoop
  <2>1. quit' => Len(tq) = 0 /\ Busy = 0
    BY <1>0, <1>1 DEF ReaderLoop, CountOK, Busy
  <2>2. quit' => tq = <<>> /\ wpc \in {"recv", "done"}
    BY <1>0, <2>1 DEF Busy
  <2> QED
    BY <1>1, <2>2, Zenon DEF ReaderLoop
<1>2. CASE ReadTimeout
  BY <1>0, <1>2, Zenon DEF ReadTimeout, ReaderEnds
<1>3. CASE ReaderSend \/ ReaderSent \/ ReaderRecv \/ ReaderCut \/ ClientCloses
  BY <1>0, <1>3
  DEF ReaderSend, ReaderSent, ReaderRecv, ReaderCut, ClientCloses, ReaderEnds
<1>4. ASSUME NEW reply \in BOOLEAN, ParseFails(reply) PROVE IdleOK'
  BY <1>0, <1>4, Zenon DEF ParseFails, ReaderEnds
<1>5. ASSUME NEW q \in Request, ParseRequest(q) PROVE IdleOK'
  BY <1>0, <1>5, Zenon DEF ParseRequest
<1>6. ASSUME NEW auth, WriterTakes(auth) PROVE IdleOK'
  BY <1>0, <1>6, Zenon DEF WriterTakes
<1>7. CASE WriterTakesError \/ WriterNone \/ WriterDone
  BY <1>0, <1>7, SMTT(30) DEF WriterTakesError, WriterNone, WriterDone, WriterEnds
<1>8. CASE RequestEnds
  BY <1>0, <1>8, EndsEffect, SMTT(30) DEF Serving
<1>9. CASE GoOffline \/ UNCHANGED vars
  BY <1>9 DEF GoOffline, vars
<1> QED
  BY <1>1, <1>2, <1>3, <1>4, <1>5, <1>6, <1>7, <1>8, <1>9, Zenon
  DEF Next, ReaderStep, ReaderTimer, Client, WriterStep, RequestEnds

(* While an unsafe request is served, it has the read half, it is the last *)
(* one parsed, and its reader waits for the read half or has ended.        *)
LEMMA LentServed ==
  ASSUME TypeOK, QueueOK, ClosedOK, HeldOK, LentOK, Serving, ~reqs[cur].safe
  PROVE  /\ open /\ cur = Len(reqs) /\ stream = "request" /\ chan = "empty"
         /\ rpc \in {"sent", "wait", "done"}
         /\ rpc = "done" => reqs[cur].late
<1>0. Len(reqs) \in Nat /\ cur \in Nat /\ Len(tq) \in Nat /\ cur \in 1 .. Len(reqs)
  BY Types DEF QueueOK
<1>1. open
  BY Zenon DEF ClosedOK, Serving, TypeOK
<1>2. cur = Len(reqs) /\ stream = "request" /\ (rpc = "done" => reqs[cur].late)
  BY <1>0, <1>1, Zenon DEF LentOK, Pending
<1>3. rpc \notin {"loop", "fill"} /\ chan = "empty"
  BY <1>2, Zenon DEF HeldOK, TypeOK
<1>4. rpc # "send"
  BY <1>0, <1>2 DEF QueueOK, HeldOK
<1> QED
  BY <1>1, <1>2, <1>3, <1>4, Zenon DEF TypeOK

(* Every step keeps the read half where the place of the reader says.      *)
LEMMA HeldNext ==
  ASSUME TypeOK, QueueOK, ClosedOK, HeldOK, LentOK, [Next]_vars
  PROVE  HeldOK'
<1> USE DEF reader, writer, Latest
<1>0. /\ Len(reqs) \in Nat /\ cur \in Nat /\ item \in Nat
      /\ rpc \in {"loop", "fill", "send", "sent", "wait", "done"}
      /\ stream \in {"reader", "request", "chan", "gone"}
      /\ chan \in {"empty", "none", "stream"}
  BY Types, Zenon DEF TypeOK
<1>1. CASE ReaderLoop \/ ReadTimeout \/ ClientCloses
  BY <1>0, <1>1, Zenon DEF ReaderLoop, ReadTimeout, ClientCloses, ReaderEnds, HeldOK
<1>2. CASE ReaderSend
  BY <1>0, <1>2, Zenon DEF ReaderSend, ReaderEnds, HeldOK, QueueOK
<1>3. CASE ReaderSent
  BY <1>0, <1>3, Zenon DEF ReaderSent, ReaderEnds, HeldOK, QueueOK
<1>4. CASE ReaderRecv \/ ReaderCut
  BY <1>0, <1>4, Zenon DEF ReaderRecv, ReaderCut, ReaderEnds, HeldOK
<1>5. ASSUME NEW reply \in BOOLEAN, ParseFails(reply) PROVE HeldOK'
  BY <1>0, <1>5, Zenon DEF ParseFails, ReaderEnds, HeldOK
<1>6. ASSUME NEW q \in Request, ParseRequest(q) PROVE HeldOK'
  <2>1. Len(reqs') = Len(reqs) + 1 /\ reqs'[Len(reqs) + 1] = q
    BY <1>6, SeqTypes, AppendSeq DEF ParseRequest
  <2> QED
    BY <1>0, <1>6, <2>1, SMTT(30) DEF ParseRequest, HeldOK
<1>7. ASSUME NEW auth, WriterTakes(auth) PROVE HeldOK'
  <2>1. /\ stream' \in {stream, "gone"} /\ UNCHANGED <<rpc, item, reqs, chan>>
        /\ stream' = stream \/ ~reqs[cur'].safe
    BY <1>7, Zenon DEF WriterTakes
  <2>2. cur' = cur + 1 /\ cur' <= Len(reqs) /\ wpc = "recv"
    BY <1>7, TakeEffect, Zenon
  <2>3. open
    BY <2>2, Zenon DEF ClosedOK, TypeOK
  <2>4. ~reqs[cur'].safe => stream = "request"
    BY <1>0, <2>2, <2>3 DEF LentOK, Pending
  <2> QED
    BY <1>0, <2>1, <2>4, Zenon DEF HeldOK
<1>8. CASE WriterTakesError \/ WriterNone \/ WriterDone
  BY <1>0, <1>8, ZenonT(60) DEF WriterTakesError, WriterNone, WriterDone, WriterEnds, HeldOK
<1>9. CASE RequestEnds
  <2>1. PICK close \in BOOLEAN : HandBack(close)
    BY <1>9, EndsEffect, Zenon DEF EndsWith
  <2>2. Serving /\ UNCHANGED <<rpc, item, reqs>>
    BY <1>9, EndsEffect, Zenon
  <2>3. CASE reqs[cur].safe
    BY <2>1, <2>2, <2>3, Zenon DEF HandBack, HeldOK
  <2>4. CASE ~reqs[cur].safe
    <3>1. stream = "request" /\ chan = "empty" /\ rpc \in {"sent", "wait", "done"}
      BY <2>2, <2>4, LentServed, Zenon
    <3>2. cur = Len(reqs)
      BY <2>2, <2>4, LentServed, Zenon
    <3> QED
      BY <2>1, <2>2, <2>4, <3>1, <3>2, Zenon DEF HandBack, HeldOK
  <2> QED
    BY <2>3, <2>4, Zenon
<1>10. CASE GoOffline \/ UNCHANGED vars
  BY <1>10, ZenonT(60) DEF GoOffline, vars, HeldOK
<1> QED
  BY <1>1, <1>2, <1>3, <1>4, <1>5, <1>6, <1>7, <1>8, <1>9, <1>10, Zenon
  DEF Next, ReaderStep, ReaderTimer, Client, WriterStep, RequestEnds

(* Parsing a request changes no earlier one.                               *)
LEMMA ParseEffect ==
  ASSUME TypeOK, NEW q \in Request, ParseRequest(q)
  PROVE  /\ reqs' \in Seq(Request) /\ Len(reqs') = Len(reqs) + 1
         /\ reqs'[Len(reqs) + 1] = q
         /\ \A k \in 1 .. Len(reqs) : reqs'[k] = reqs[k]
BY SeqTypes, AppendSeq DEF ParseRequest

(* Every step keeps the read half with the one request that may need it.   *)
LEMMA LentNext ==
  ASSUME TypeOK, QueueOK, ClosedOK, HeldOK, LentOK, [Next]_vars
  PROVE  LentOK'
<1> USE DEF reader, writer, Pending
<1>0. /\ Len(reqs) \in Nat /\ cur \in Nat /\ item \in Nat
      /\ open \in BOOLEAN /\ goon \in BOOLEAN
  BY Types, Zenon DEF TypeOK
<1>1. ASSUME open, stream # "request", NEW k \in 1 .. Len(reqs), Pending(k)
      PROVE  reqs[k].safe
  BY <1>1, Zenon DEF LentOK
<1>2. CASE /\ open' = open /\ stream # "request"
           /\ UNCHANGED <<reqs, wpc, cur>>
  BY <1>1, <1>2, Zenon DEF LentOK, Serving
<1>3. CASE ReaderLoop \/ ReadTimeout \/ ClientCloses \/ ReaderRecv
  BY <1>2, <1>3, Zenon DEF ReaderLoop, ReadTimeout, ClientCloses, ReaderRecv, HeldOK
<1>4. ASSUME NEW reply \in BOOLEAN, ParseFails(reply) PROVE LentOK'
  BY <1>2, <1>4, Zenon DEF ParseFails, HeldOK
<1>5. CASE ReaderSend
  <2>1. CASE item = 0
    BY <1>2, <1>5, <2>1, Zenon DEF ReaderSend, HeldOK
  <2>2. CASE item # 0
    BY <1>5, <2>2, Zenon DEF ReaderSend, LentOK, Serving
  <2> QED
    BY <2>1, <2>2, Zenon
<1>6. CASE ReaderSent
  BY <1>0, <1>6, Zenon DEF ReaderSent, ReaderEnds, LentOK, QueueOK, Serving
<1>7. CASE ReaderCut
  BY <1>7, Zenon DEF ReaderCut, LentOK
<1>8. ASSUME NEW q \in Request, ParseRequest(q) PROVE LentOK'
  <2>1. /\ Len(reqs') = Len(reqs) + 1 /\ reqs'[Len(reqs) + 1] = q
        /\ \A k \in 1 .. Len(reqs) : reqs'[k] = reqs[k]
    BY <1>8, ParseEffect, Zenon
  <2>2. /\ stream = "reader" /\ stream' = IF q.safe THEN stream ELSE "request"
        /\ rpc' = "send" /\ UNCHANGED <<open, wpc, cur>>
    BY <1>8, Zenon DEF ParseRequest, HeldOK
  <2>3. ASSUME open, NEW k \in 1 .. Len(reqs), Pending(k) PROVE reqs'[k].safe
    BY <1>1, <2>1, <2>2, <2>3, Zenon
  <2> QED
    BY <1>0, <2>1, <2>2, <2>3 DEF LentOK, Serving
<1>9. ASSUME NEW auth, WriterTakes(auth) PROVE LentOK'
  <2>1. /\ UNCHANGED <<rpc, reqs>> /\ cur' = cur + 1
    BY <1>9, TakeEffect, ZenonT(60)
  <2>2. open' => open /\ stream' = stream
    BY <1>0, <1>9, Zenon DEF WriterTakes
  <2> QED
    BY <1>0, <2>1, <2>2 DEF LentOK
<1>10. CASE WriterTakesError \/ WriterNone \/ WriterDone
  BY <1>0, <1>10, Zenon
  DEF WriterTakesError, WriterNone, WriterDone, WriterEnds, LentOK, Serving
<1>11. CASE RequestEnds
  <2>1. PICK close \in BOOLEAN : HandBack(close)
    BY <1>11, EndsEffect, Zenon DEF EndsWith
  <2>2. /\ Serving /\ wpc' = "del" /\ UNCHANGED <<rpc, reqs, cur>>
    BY <1>11, EndsEffect, Zenon
  <2>3. open
    BY <2>2, Zenon DEF Serving, ClosedOK, TypeOK
  <2>4. CASE reqs[cur].safe
    BY <1>0, <2>1, <2>2, <2>3, <2>4, Zenon DEF HandBack, LentOK, Serving
  <2>5. CASE ~reqs[cur].safe
    <3>1. cur = Len(reqs)
      BY <2>2, <2>5, LentServed, Zenon
    <3> QED
      BY <1>0, <2>2, <3>1, SMTT(30) DEF LentOK, Serving
  <2> QED
    BY <2>4, <2>5, Zenon
<1>12. CASE GoOffline \/ UNCHANGED vars
  BY <1>12, Zenon DEF GoOffline, vars, LentOK, Serving
<1> QED
  BY <1>3, <1>4, <1>5, <1>6, <1>7, <1>8, <1>9, <1>10, <1>11, <1>12, Zenon
  DEF Next, ReaderStep, ReaderTimer, Client, WriterStep, RequestEnds

(* Every step keeps the read half that goes back, or is back, at the start *)
(* of a request.                                                           *)
LEMMA BoundaryNext ==
  ASSUME TypeOK, QueueOK, ClosedOK, HeldOK, LentOK, BoundaryOK, [Next]_vars
  PROVE  BoundaryOK'
<1> USE DEF reader, writer, Latest, BoundaryOK
<1>0. Len(reqs) \in Nat /\ cur \in Nat /\ unread \in BOOLEAN
  BY Types, Zenon DEF TypeOK
<1>1. CASE stream' \in {stream, "gone"} /\ UNCHANGED <<reqs, unread, odd>>
  BY <1>1, Zenon DEF LeftUnread
<1>2. CASE ReaderLoop \/ ReadTimeout \/ ClientCloses \/ ReaderSend \/ ReaderSent \/ ReaderCut
  BY <1>1, <1>2, ZenonT(60)
  DEF ReaderLoop, ReadTimeout, ClientCloses, ReaderSend, ReaderSent, ReaderCut, ReaderEnds
<1>3. CASE ReaderRecv
  BY <1>3, ZenonT(60) DEF ReaderRecv, ReaderEnds, HeldOK, TypeOK, LeftUnread
<1>4. ASSUME NEW reply \in BOOLEAN, ParseFails(reply) PROVE BoundaryOK'
  BY <1>1, <1>4, Zenon DEF ParseFails, ReaderEnds
<1>5. ASSUME NEW q \in Request, ParseRequest(q) PROVE BoundaryOK'
  <2>1. Len(reqs') = Len(reqs) + 1 /\ reqs'[Len(reqs) + 1] = q
    BY <1>5, ParseEffect, Zenon
  <2>2. q.safe => ~q.body
    BY Zenon DEF Request
  <2> QED
    BY <1>0, <1>5, <2>1, <2>2 DEF ParseRequest, HeldOK
<1>6. ASSUME NEW auth, WriterTakes(auth) PROVE BoundaryOK'
  BY <1>1, <1>6, Zenon DEF WriterTakes
<1>7. CASE WriterTakesError \/ WriterNone \/ WriterDone
  BY <1>1, <1>7, ZenonT(60) DEF WriterTakesError, WriterNone, WriterDone, WriterEnds
<1>8. CASE RequestEnds
  <2>1. PICK close \in BOOLEAN : EndsWith(close)
    BY <1>8, EndsEffect, Zenon
  <2>2. /\ Serving /\ UNCHANGED reqs /\ (unread' => unread) /\ odd \subseteq odd' /\ HandBack(close)
        /\ ~close /\ ~reqs[cur].safe /\ unread' =>
             ~reqs[cur].body \/ <<cur, "sockopt">> \in odd' \/ <<cur, "unread">> \in odd'
    BY <1>8, <2>1, EndsEffect, Zenon DEF reader, EndsWith
  <2>3. CASE reqs[cur].safe
    BY <2>2, <2>3, Zenon DEF HandBack, LeftUnread
  <2>4. CASE ~reqs[cur].safe
    <3>1. cur = Len(reqs)
      BY <2>2, <2>4, LentServed, Zenon
    <3> QED
      BY <2>2, <2>4, <3>1, Zenon DEF HandBack, LeftUnread
  <2> QED
    BY <2>3, <2>4, Zenon
<1>9. CASE GoOffline \/ UNCHANGED vars
  BY <1>1, <1>9, Zenon DEF GoOffline, vars
<1> QED
  BY <1>2, <1>3, <1>4, <1>5, <1>6, <1>7, <1>8, <1>9, ZenonT(60)
  DEF Next, ReaderStep, ReaderTimer, Client, WriterStep, RequestEnds

(* A hand-back finds its reader gone only when the server was offline for  *)
(* the request, and only CONNECT then hands the read half back.            *)
LEMMA BlockedNext ==
  ASSUME TypeOK, QueueOK, ClosedOK, HeldOK, LentOK, BlockedOK, [Next]_vars
  PROVE  BlockedOK'
<1> USE DEF BlockedOK, HandBackFailsOnlyOffline
<1>0. Len(reqs) \in Nat /\ cur \in Nat /\ blocked \in BOOLEAN /\ cur <= Len(reqs)
  BY Types, ZenonT(60) DEF TypeOK, QueueOK
<1>1. CASE UNCHANGED <<reqs, cur, blocked>>
  BY <1>1, Zenon
<1>2. CASE ~blocked'
  BY <1>2, Zenon
<1>3. CASE \/ ReaderLoop \/ ReadTimeout \/ ClientCloses \/ ReaderSend \/ ReaderSent
           \/ ReaderCut \/ ReaderRecv \/ WriterTakesError \/ WriterNone \/ WriterDone
           \/ GoOffline \/ UNCHANGED vars
  BY <1>1, <1>3, Zenon
  DEF ReaderLoop, ReadTimeout, ClientCloses, ReaderSend, ReaderSent, ReaderCut,
      ReaderRecv, WriterTakesError, WriterNone, WriterDone, GoOffline, vars, reader, writer
<1>4. ASSUME NEW reply \in BOOLEAN, ParseFails(reply) PROVE BlockedOK'
  BY <1>1, <1>4, Zenon DEF ParseFails, writer
<1>5. ASSUME NEW q \in Request, ParseRequest(q) PROVE BlockedOK'
  <2>1. blocked => reqs'[cur] = reqs[cur]
    BY <1>0, <1>5, ParseEffect
  <2> QED
    BY <1>5, <2>1, Zenon DEF ParseRequest, writer
<1>6. ASSUME NEW auth, WriterTakes(auth) PROVE BlockedOK'
  BY <1>2, <1>6, ZenonT(60) DEF WriterTakes, ClosedOK
<1>7. CASE RequestEnds
  <2>1. PICK close \in BOOLEAN :
          HandBack(close) /\ (~close => reqs[cur].proto = "connect" \/ reqs[cur].keep)
    BY <1>7, EndsEffect, Zenon DEF EndsWith
  <2>2. /\ Serving /\ UNCHANGED <<reqs, cur>> /\ cur \in 1 .. Len(reqs)
    BY <1>7, EndsEffect, Zenon DEF reader
  <2>3. ~blocked
    BY <2>2, Zenon DEF Serving, ClosedOK
  <2>4. blocked' => ~reqs[cur].safe /\ ~close /\ ~(rpc # "done" /\ chan = "empty")
    BY <2>1, <2>3, Zenon DEF HandBack
  <2>5. ~reqs[cur].safe => chan = "empty" /\ (rpc = "done" => reqs[cur].late)
    BY <2>2, LentServed, Zenon
  <2>6. reqs[cur].late => ~reqs[cur].keep
    BY <2>2, SeqTypes, Zenon DEF Request
  <2> QED
    BY <1>0, <2>1, <2>2, <2>4, <2>5, <2>6
<1> QED
  BY <1>3, <1>4, <1>5, <1>6, <1>7, ZenonT(60)
  DEF Next, ReaderStep, ReaderTimer, Client, WriterStep, RequestEnds

(* TypeOK, taken apart.                                                    *)
Flags ==
  /\ online \in BOOLEAN /\ quit \in BOOLEAN /\ unread \in BOOLEAN /\ open \in BOOLEAN
  /\ goon \in BOOLEAN /\ idlequit \in BOOLEAN /\ blocked \in BOOLEAN
  /\ rpc \in {"loop", "fill", "send", "sent", "wait", "done"}
  /\ wpc \in {"recv", "task", "drain", "del", "done"}
  /\ stream \in {"reader", "request", "chan", "gone"}
  /\ chan \in {"empty", "none", "stream"}

Numbers ==
  /\ conf \in [noearly : BOOLEAN, drain : BOOLEAN]
  /\ item \in 0 .. MaxRequests /\ cur \in 0 .. MaxRequests
  /\ reqs \in Seq(Request) /\ Len(reqs) <= MaxRequests
  /\ tq \in Seq(0 .. MaxRequests) /\ Len(tq) <= PipelineSize
  /\ authfail \in 0 .. 2
  /\ answered \in Seq(1 .. MaxRequests)
  /\ odd \subseteq (1 .. MaxRequests) \X Odd

(* The flags and places of reader and writer keep their types.             *)
LEMMA FlagsNext ==
  ASSUME TypeOK, QueueOK, [Next]_vars
  PROVE  Flags'
<1> USE DEF reader, writer, Flags
<1>0. Flags
  BY Zenon DEF TypeOK
<1>1. CASE ReaderLoop
  <2>1. quit' \in BOOLEAN
    BY <1>1 DEF ReaderLoop
  <2> QED
    BY <1>0, <1>1, <2>1, SMTT(30) DEF ReaderLoop
<1>2. CASE ReadTimeout \/ ClientCloses
  BY <1>0, <1>2, ZenonT(60) DEF ReadTimeout, ClientCloses, ReaderEnds
<1>3. CASE ReaderSend
  BY <1>0, <1>3 DEF ReaderSend, ReaderEnds
<1>4. CASE ReaderSent \/ ReaderRecv \/ ReaderCut
  BY <1>0, <1>4 DEF ReaderSent, ReaderRecv, ReaderCut, ReaderEnds
<1>5. ASSUME NEW reply \in BOOLEAN, ParseFails(reply) PROVE Flags'
  BY <1>0, <1>5 DEF ParseFails, ReaderEnds
<1>6. ASSUME NEW q \in Request, ParseRequest(q) PROVE Flags'
  <2>1. unread' \in BOOLEAN
    BY <1>6, Zenon DEF ParseRequest, Request
  <2> QED
    BY <1>0, <1>6, <2>1, ZenonT(60) DEF ParseRequest
<1>7. ASSUME NEW auth, WriterTakes(auth) PROVE Flags'
  <2>1. /\ wpc' \in {"task", "drain", "del"} /\ (stream' = stream \/ stream' = "gone")
        /\ open' \in BOOLEAN
        /\ goon' \in BOOLEAN
    BY <1>0, <1>7, Zenon DEF WriterTakes
  <2>2. UNCHANGED <<online, rpc, quit, unread, idlequit, blocked, chan>>
    BY <1>7, Zenon DEF WriterTakes
  <2> QED
    BY <1>0, <2>1, <2>2
<1>8. CASE WriterTakesError \/ WriterNone \/ WriterDone
  <2>1. /\ wpc' \in {"recv", "done"} /\ (stream' = stream \/ stream' = "gone")
        /\ open' \in BOOLEAN
    BY <1>0, <1>8, Zenon DEF WriterTakesError, WriterNone, WriterDone, WriterEnds
  <2>2. UNCHANGED <<online, rpc, quit, unread, idlequit, blocked, chan, goon>>
    BY <1>8, Zenon DEF WriterTakesError, WriterNone, WriterDone, WriterEnds
  <2> QED
    BY <1>0, <2>1, <2>2
<1>9. CASE RequestEnds
  <2>1. wpc' = "del" /\ UNCHANGED <<online, rpc, quit, idlequit>>
    BY <1>9, EndsEffect, Zenon
  <2>2. PICK close \in BOOLEAN : HandBack(close) /\ unread' \in BOOLEAN
    BY <1>9, EndsEffect, Zenon DEF EndsWith
  <2>3. /\ stream' \in {stream, "gone", "chan"} /\ chan' \in {chan, "none", "stream"}
        /\ open' \in BOOLEAN /\ goon' \in BOOLEAN /\ blocked' \in BOOLEAN
    BY <1>0, <2>2, Zenon DEF HandBack
  <2> QED
    BY <1>0, <2>1, <2>2, <2>3
<1>10. CASE GoOffline
  <2>1. online' \in BOOLEAN /\ UNCHANGED <<rpc, quit, unread, open, goon, idlequit, blocked>>
    BY <1>10, Zenon DEF GoOffline
  <2>2. UNCHANGED <<wpc, stream, chan>>
    BY <1>10, Zenon DEF GoOffline
  <2> QED
    BY <1>0, <2>1, <2>2
<1>11. CASE UNCHANGED vars
  BY <1>0, <1>11 DEF vars
<1> QED
  BY <1>1, <1>2, <1>3, <1>4, <1>5, <1>6, <1>7, <1>8, <1>9, <1>10, <1>11, ZenonT(60)
  DEF Next, ReaderStep, ReaderTimer, Client, WriterStep, RequestEnds

(* Requests, queue, answers and the limits on them keep their types.       *)
LEMMA NumbersNext ==
  ASSUME TypeOK, QueueOK, [Next]_vars
  PROVE  Numbers'
<1> USE DEF reader, writer
<1>0. Numbers
  BY Zenon DEF TypeOK, Numbers
<1>n. /\ Len(reqs) \in Nat /\ Len(tq) \in Nat /\ cur \in Nat /\ Len(reqs) <= MaxRequests
      /\ MaxRequests \in Nat /\ PipelineSize \in Nat
  BY Types, HttpPipelineAssumption, Zenon
<1>a. ASSUME NEW k \in 1 .. MaxRequests
      PROVE  Append(answered, k) \in Seq(1 .. MaxRequests)
  BY SeqTypes, AppendSeq, Zenon
<1>1. CASE UNCHANGED <<conf, item, cur, reqs, tq, authfail, answered, odd>>
  BY <1>0, <1>1, Zenon DEF Numbers
<1>2. CASE \/ ReaderLoop \/ ReadTimeout \/ ClientCloses \/ ReaderSent \/ ReaderRecv
           \/ ReaderCut \/ WriterNone \/ WriterDone \/ GoOffline \/ UNCHANGED vars
  BY <1>1, <1>2, ZenonT(60)
  DEF ReaderLoop, ReadTimeout, ClientCloses, ReaderSent, ReaderRecv, ReaderCut,
      WriterNone, WriterDone, GoOffline, vars
<1>3. CASE ReaderSend
  <2>1. tq' \in Seq(0 .. MaxRequests) /\ Len(tq') <= PipelineSize
    BY <1>n, <1>3, SendEffect DEF ReaderSend
  <2> QED
    BY <1>0, <1>3, <2>1, Zenon DEF Numbers, ReaderSend
<1>4. ASSUME NEW reply \in BOOLEAN, ParseFails(reply) PROVE Numbers'
  <2>1. item' \in {item, 0} /\ UNCHANGED <<conf, cur, reqs, tq, authfail, answered, odd>>
    BY <1>4, Zenon DEF ParseFails
  <2> QED
    BY <1>0, <1>n, <2>1 DEF Numbers
<1>5. ASSUME NEW q \in Request, ParseRequest(q) PROVE Numbers'
  <2>1. /\ reqs' \in Seq(Request) /\ Len(reqs') <= MaxRequests
        /\ item' \in 0 .. MaxRequests
    BY <1>n, <1>5, ParseEffect, SMTT(30) DEF ParseRequest
  <2> QED
    BY <1>0, <1>5, <2>1, Zenon DEF Numbers, ParseRequest
<1>6. ASSUME NEW auth, WriterTakes(auth) PROVE Numbers'
  <2>1. tq' \in Seq(0 .. MaxRequests) /\ cur' \in Nat /\ Len(tq') <= PipelineSize
    BY <1>0, <1>n, <1>6, TakeEffect, SMTT(30) DEF Numbers
  <2>2. cur' \in 1 .. MaxRequests
    BY <1>n, <1>6, TakeEffect
  <2>3. answered' \in Seq(1 .. MaxRequests)
    <3>1. answered' = answered \/ answered' = Append(answered, cur')
      BY <1>6, Zenon DEF WriterTakes
    <3> QED
      BY <1>0, <1>a, <2>2, <3>1, Zenon DEF Numbers
  <2>4. authfail' \in 0 .. 2
    BY <1>0, <1>6 DEF WriterTakes, Numbers
  <2>5. UNCHANGED <<conf, item, reqs, odd>>
    BY <1>6, Zenon DEF WriterTakes
  <2> QED
    BY <1>0, <1>n, <2>1, <2>2, <2>3, <2>4, <2>5, SMTT(30) DEF Numbers
<1>7. CASE WriterTakesError
  <2>1. tq' = <<>> /\ UNCHANGED <<conf, item, cur, reqs, authfail, answered, odd>>
    BY <1>7, ErrorEffect, Zenon DEF WriterTakesError
  <2> QED
    BY <1>0, <1>n, <2>1 DEF Numbers
<1>8. CASE RequestEnds
  <2>1. /\ cur \in 1 .. Len(reqs)
        /\ UNCHANGED <<conf, item, reqs, tq, cur, authfail>>
    BY <1>8, EndsEffect, Zenon
  <2>2. /\ answered' \in {answered, Append(answered, cur), Append(Append(answered, cur), cur)}
        /\ odd' \subseteq odd \cup ({cur} \X Odd)
    BY <1>8, EndsEffect, Zenon DEF EndsWith
  <2>3. cur \in 1 .. MaxRequests
    BY <1>n, <2>1
  <2>4. answered' \in Seq(1 .. MaxRequests)
    <3>1. Append(answered, cur) \in Seq(1 .. MaxRequests)
      BY <1>a, <2>3, Zenon
    <3>2. Append(Append(answered, cur), cur) \in Seq(1 .. MaxRequests)
      BY <2>3, <3>1, AppendSeq, Zenon
    <3> QED
      BY <1>0, <2>2, <3>1, <3>2, Zenon DEF Numbers
  <2>5. odd' \subseteq (1 .. MaxRequests) \X Odd
    BY <1>0, <2>2, <2>3 DEF Numbers
  <2> QED
    BY <1>0, <2>1, <2>4, <2>5, Zenon DEF Numbers
<1> QED
  BY <1>2, <1>3, <1>4, <1>5, <1>6, <1>7, <1>8, Zenon
  DEF Next, ReaderStep, ReaderTimer, Client, WriterStep, RequestEnds

(* Every step keeps the types; the bound on alive_task is that of CountOK. *)
LEMMA TypeNext ==
  ASSUME TypeOK, QueueOK, CountOK', [Next]_vars
  PROVE  TypeOK'
<1>1. Flags' /\ Numbers'
  BY FlagsNext, NumbersNext, Zenon
<1>2. Len(tq') \in Nat /\ Len(tq') <= PipelineSize /\ PipelineSize \in Nat
  BY <1>1, HttpPipelineAssumption DEF Numbers
<1>3. Busy' = 0 \/ Busy' = 1
  BY Zenon DEF Busy
<1>4. alive' = Len(tq') + Busy' - 1 \/ alive' = Len(tq') + Busy'
  BY <1>1, Zenon DEF CountOK, Flags
<1>5. alive' \in -1 .. PipelineSize + 2
  BY <1>2, <1>3, <1>4, SMTT(30)
<1> QED
  BY <1>1, <1>5, ZenonT(60) DEF TypeOK, Flags, Numbers

-----------------------------------------------------------------------------
(* A new connection: nothing read, the stream with the reader.             *)
LEMMA IInvInit == Init => IInv
<1> SUFFICES ASSUME Init PROVE IInv
  BY Zenon
<1>1. TypeOK
  <2>1. /\ conf \in [noearly : BOOLEAN, drain : BOOLEAN]
        /\ {online, quit, unread, open, goon, idlequit, blocked} \subseteq BOOLEAN
        /\ rpc = "loop" /\ wpc = "recv" /\ stream = "reader" /\ chan = "empty"
    BY Zenon DEF Init
  <2>2. /\ item = 0 /\ cur = 0 /\ alive = 0 /\ authfail = 0
        /\ reqs = <<>> /\ tq = <<>> /\ answered = <<>> /\ odd = {}
    BY Zenon DEF Init
  <2> QED
    BY <2>1, <2>2, HttpPipelineAssumption, SMTT(30) DEF TypeOK
<1> QED
  BY <1>1 DEF Init, IInv, QueueOK, CountOK, Busy, ClosedOK, AnswersOK, IdleOK, HeldOK,
              LentOK, BoundaryOK, BlockedOK, HandBackFailsOnlyOffline, Serving

(* Every step of reader, writer, client and request tasks keeps it.        *)
LEMMA IInvNext == IInv /\ [Next]_vars => IInv'
BY QueueNext, CountNext, ClosedNext, AnswersNext, IdleNext, HeldNext, LentNext,
   BoundaryNext, BlockedNext, TypeNext, Zenon
DEF IInv

(* The inductive invariant of the two tasks.                               *)
LEMMA IInvAlways == Spec => []IInv
BY IInvInit, IInvNext, PTL DEF Spec

(* The client gets its answers in the order of its requests, and none is   *)
(* passed over while the writer goes on (into_running), for every          *)
(* pipeline_size: whatever happens around it, only the request's own task, *)
(* with failed socket options or a failed reconnect, leaves it without an  *)
(* answer or with two.                                                     *)
THEOREM AnswersAlwaysInOrder == Spec => []AnswersInOrder
<1>1. IInv => AnswersInOrder
  BY Zenon DEF IInv, AnswersOK, AnswersInOrder, Covered, Answered
<1> QED
  BY <1>1, IInvAlways, PTL

(* The reader parses a header inside a body only when the task of the      *)
(* request with that body, and no other task, left it unread.              *)
THEOREM AlwaysParsesAtBoundary == Spec => []ParsesAtBoundary
<1>1. IInv => ParsesAtBoundary
  BY Zenon DEF IInv, BoundaryOK, ParsesAtBoundary, LeftUnread
<1> QED
  BY <1>1, IInvAlways, PTL

(* The unreachable!() arms of the writer are: a task whose request is not  *)
(* pipeline safe holds the read half.  The state keeps its types.          *)
THEOREM TaskAlwaysHasStream == Spec => []TaskHasStream
<1>1. IInv => TaskHasStream
  BY LentServed, Zenon DEF IInv, TaskHasStream
<1> QED
  BY <1>1, IInvAlways, PTL

(* The hand-back that the writer calls impossible happens to a CONNECT of  *)
(* an offline server and to nothing else.                                  *)
THEOREM HandBackFailsOffline == Spec => []HandBackFailsOnlyOffline
<1>1. IInv => HandBackFailsOnlyOffline
  BY Zenon DEF IInv, BlockedOK
<1> QED
  BY <1>1, IInvAlways, PTL

(* The idle timeout of the reader drops no request: alive_task is late in  *)
(* both directions, and never zero with a request queued or served.        *)
THEOREM AlwaysQuitsIdle == Spec => []QuitsOnlyIdle
<1>1. IInv => QuitsOnlyIdle
  BY DEF IInv, IdleOK, QuitsOnlyIdle, Unfinished, Serving
<1> QED
  BY <1>1, IInvAlways, PTL
=============================================================================
