-------------------------- MODULE FtpControlProofs --------------------------
(***************************************************************************)
(* Safety of a session of the FTP proxy, for any number of commands, any   *)
(* file and any set of commands: the control channel is relayed verbatim,  *)
(* and a transfer that ends well was that of the whole file.               *)
(***************************************************************************)
EXTENDS FtpControl, SequenceTheorems, TLAPS

Passive == {"pasv", "epsv"}

\* The replies the client has not received yet: the announcement of a transfer,
\* one that ends the command, the one that says the transfer was complete.
Pending == {s2p[i] : i \in DOMAIN s2p}
Announced == "150" \in Pending
Answered == \E r \in Pending : r \in Finals
Complete == "226" \in Pending

\* Which replies there are to which command.
AnswerTo(r, k) ==
  \/ r = "220" /\ k = "greeting"
  \/ r = "200" /\ k = "noop"
  \/ r = "227" /\ k \in Passive
  \/ r \in {"150", "226", "425", "550"} /\ k \in Transfers

-----------------------------------------------------------------------------
(* The inductive invariant.                                                *)

\* Replies are for the command at hand, an announcement comes before the end.
Replies ==
  /\ heard \o s2p = sent
  /\ Len(s2p) <= 2 /\ (Len(s2p) = 2 => s2p[1] = "150" /\ s2p[2] \in Finals)
  /\ \A r \in Pending : AnswerTo(r, clt.cmd)

\* There is one command at a time: at the proxy, at the server, or answered.
OneCommand ==
  /\ clt.cmd \in {"none", "greeting"} => c2p = <<>> /\ p2s = <<>> /\ srv.st = "idle"
  /\ c2p # <<>> => /\ c2p = <<clt.cmd>> /\ p2s = <<>> /\ srv.st = "idle"
                   /\ ~Announced /\ ~Answered
  /\ p2s # <<>> => /\ p2s = <<clt.cmd>> /\ c2p = <<>> /\ srv.st = "idle" /\ srv.up
                   /\ ~Announced /\ ~Answered
  /\ srv.st # "idle" => srv.st = clt.cmd /\ c2p = <<>> /\ p2s = <<>> /\ ~Answered

\* At most one thing out of the ordinary has happened.
OneOdd ==
  /\ clt.again => ~srv.refused /\ ~px.nolst
  /\ srv.refused => ~px.nolst

\* The relay deals with the client's command, or waits for a transfer that is over.
Mine == px.cmd = clt.cmd /\ c2p = <<>>
Over == /\ clt.addr = "none" /\ ~srv.lis /\ srv.st = "idle" /\ p2s = <<>>
        /\ ~Announced /\ ~Answered
Place ==
  /\ px.pc = "greet" <=> clt.cmd = "greeting"
  /\ px.pc = "greet" => Answered
  /\ px.pc = "pasv" => Mine /\ px.cmd \in Passive /\ px.data = "none" /\ clt.addr = "none"
  /\ px.pc = "go" =>
       /\ Mine /\ px.cmd = "retr" /\ (srv.st = "retr" => Announced)
       /\ clt.addr # "direct" => px.data # "none" /\ (Answered => srv.refused)
  /\ px.pc = "accept" =>
       /\ px.cmd \in Transfers /\ px.data # "none" /\ (px.cmd = "retr" => p2s = <<>>)
       /\ Mine \/ (Over /\ px.cmd = "retr")
  /\ px.pc = "data" =>
       Mine /\ px.cmd \in Transfers /\ px.data = "none" /\ (px.cmd = "retr" => p2s = <<>>)
  /\ px.pc = "held" => Mine /\ px.cmd = "stor" /\ px.data = "none"
  /\ px.pc = "final" => px.cmd \in Transfers /\ px.data = "none" /\ (Mine \/ Over)
  /\ px.pc = "loop" /\ c2p = <<>> =>
       /\ clt.cmd \in Transfers => px.data = "none"
       /\ clt.cmd \in Passive => clt.again \/ (~srv.up /\ ~Answered)
  /\ clt.cmd = "retr" /\ p2s # <<>> => px.pc = "go"
  /\ px.data # "none" <=> lst # "none"

\* After a download was refused the relay takes the data channel all the same.
Refusal ==
  srv.refused =>
    /\ ~srv.lis /\ srv.st = "idle" /\ p2s = <<>>
    /\ srv.up => /\ px.cmd = "retr" /\ ~Announced
                 /\ px.pc = "go" \/ (px.pc \in {"accept", "final"} /\ Over)

\* Where the client is told to connect to, and the data channel of the relay.
Address ==
  /\ clt.conn # "no" => clt.conn = clt.addr
  /\ clt.cmd = "greeting" => clt.addr = "none"
  /\ clt.cmd \in Transfers => clt.addr # "none"
  /\ clt.addr = "direct" => px.nolst \/ clt.again
  /\ clt.addr = "proxy" /\ px.data = "none" => clt.cmd \in Transfers /\ Mine /\ clt.conn # "no"
  /\ px.data # "none" /\ ~clt.again /\ ~srv.refused => clt.addr \in {"proxy", "self"}
  /\ clt.addr = "self" => lst = "open" /\ px.data # "none"
  /\ clt.cmd \in Passive /\ clt.addr # "none" => clt.again /\ px.data # "none"
  /\ lst = "queued" /\ clt.addr = "proxy" => clt.conn = "proxy"
  /\ px.pc = "data" /\ ~clt.again => clt.conn = "proxy"

\* The server listens from a 227 to the end of the transfer.
Listens ==
  /\ srv.conn => srv.lis
  /\ srv.lis => srv.up
  /\ clt.cmd \in Transfers /\ Answered => ~srv.lis
  /\ srv.conn => clt.addr # "none"
  /\ srv.conn /\ clt.addr # "direct" =>
       px.data = "none" /\ px.pc \in {"data", "held", "final", "loop", "end"}
  /\ srv.conn /\ ~clt.again => clt.conn # "no"

\* Nothing is on a data connection of the server before the transfer.
Before == clt.cmd \notin Transfers \/ (clt.cmd = "retr" /\ (c2p # <<>> \/ p2s # <<>>))
Linked == srv.conn \/ clt.conn = "direct"
Unused == Before /\ Linked => sd.n = 0 /\ (sd.eof => clt.gone)

\* No chunk is there twice.
Got == IF srv.st = "stor" THEN srv.got ELSE 0
Left == IF srv.st = "retr" THEN srv.left ELSE 0
Bounds ==
  /\ clt.left + cd.n <= FileSize
  /\ clt.cmd = "stor" => clt.left + cd.n + Got <= FileSize
  /\ clt.cmd = "stor" /\ srv.conn => clt.left + cd.n + sd.n + Got <= FileSize
  /\ clt.cmd = "retr" => clt.got + Left <= FileSize
  /\ clt.cmd = "retr" /\ (c2p # <<>> \/ p2s # <<>>) => clt.got = 0
  /\ clt.cmd = "retr" /\ (px.pc = "data" \/ Linked) => clt.got + sd.n + Left <= FileSize

\* No chunk of an upload is lost.
Plain == ~clt.awaits /\ ~clt.again /\ ~clt.gone /\ ~px.cut
Uploads ==
  Plain =>
    /\ srv.stored = FileSize
    /\ clt.cmd = "stor" =>
        /\ px.data # "none" \/ clt.conn = "no" => clt.left + cd.n = FileSize /\ Got = 0
        /\ srv.conn => /\ clt.left + cd.n + sd.n + Got = FileSize
                       /\ sd.eof => clt.left = 0 /\ cd.n = 0
        /\ cd.eof => clt.left = 0
        /\ clt.conn # "proxy" => cd.n = 0

\* Nor is one of a download.
Downloads ==
  srv.up =>
    /\ clt.fetched = FileSize
    /\ ~clt.gone /\ clt.cmd = "retr" /\ clt.addr = "proxy" =>
        /\ px.data # "none" => clt.got = 0 /\ (srv.st = "retr" => srv.left = FileSize)
        /\ srv.st = "retr" /\ srv.conn => px.pc = "data" /\ clt.got + sd.n + srv.left = FileSize
        /\ px.pc = "data" /\ srv.st = "retr" => ~sd.eof
        /\ Complete => clt.got + (IF px.pc = "data" THEN sd.n ELSE 0) = FileSize

IInv == /\ TypeOK /\ Replies /\ OneCommand /\ OneOdd /\ Place /\ Refusal
        /\ Address /\ Listens /\ Unused /\ Bounds /\ Uploads /\ Downloads

-----------------------------------------------------------------------------
(* The fields of the variables, and the replies on their way.              *)

Codes == Finals \cup {"150"}
Clients == [n: 0..MaxCommands, cmd: Kinds \cup {"none", "greeting"},
            addr: {"none", "proxy", "direct", "self"}, conn: {"no", "proxy", "direct"},
            go: BOOLEAN, left: 0..FileSize, got: 0..FileSize, fetched: 0..FileSize,
            awaits: BOOLEAN, near: BOOLEAN, again: BOOLEAN, gone: BOOLEAN]
Relays == [pc: {"greet", "loop", "pasv", "go", "accept", "data", "held", "final", "end"},
           cmd: Kinds \cup {"noop"}, data: {"none", "server", "nowhere"},
           nolst: BOOLEAN, cut: BOOLEAN]
Servers == [up: BOOLEAN, st: {"idle", "stor", "retr"}, lis: BOOLEAN, conn: BOOLEAN,
            left: 0..FileSize, got: 0..FileSize, stored: 0..FileSize, refused: BOOLEAN]
Channels == [n: 0..FileSize, eof: BOOLEAN]

\* What most steps leave alone.
KeepsLine ==
  /\ clt'.awaits = clt.awaits /\ clt'.again = clt.again /\ clt'.gone = clt.gone
  /\ clt'.left = clt.left /\ clt'.got = clt.got
KeepsServer ==
  /\ srv'.up = srv.up /\ srv'.st = srv.st /\ srv'.lis = srv.lis
  /\ srv'.left = srv.left /\ srv'.got = srv.got /\ srv'.refused = srv.refused
PxIs(pc, cmd, data) ==
  /\ px'.pc = pc /\ px'.cmd = cmd /\ px'.data = data
  /\ px'.nolst = px.nolst /\ px'.cut = px.cut

Fields ==
  /\ clt.cmd \in {"noop", "pasv", "epsv", "stor", "retr", "none", "greeting"}
  /\ clt.addr \in {"none", "proxy", "direct", "self"} /\ clt.conn \in {"no", "proxy", "direct"}
  /\ clt.awaits \in BOOLEAN /\ clt.again \in BOOLEAN /\ clt.gone \in BOOLEAN
  /\ clt.left \in 0 .. FileSize /\ clt.got \in 0 .. FileSize
  /\ px.pc \in {"greet", "loop", "pasv", "go", "accept", "data", "held", "final", "end"}
  /\ px.cmd \in {"noop", "pasv", "epsv", "stor", "retr"}
  /\ px.data \in {"none", "server", "nowhere"} /\ px.nolst \in BOOLEAN /\ px.cut \in BOOLEAN
  /\ lst \in {"none", "open", "queued"}
  /\ srv.up \in BOOLEAN /\ srv.lis \in BOOLEAN /\ srv.conn \in BOOLEAN /\ srv.refused \in BOOLEAN
  /\ srv.st \in {"idle", "stor", "retr"} /\ srv.left \in 0 .. FileSize /\ srv.got \in 0 .. FileSize
  /\ cd.n \in 0 .. FileSize /\ cd.eof \in BOOLEAN /\ sd.n \in 0 .. FileSize /\ sd.eof \in BOOLEAN

(* The variables have their fields.                                        *)
LEMMA HasFields == TypeOK => Fields
BY FtpControlAssumption, Zenon DEF TypeOK, Fields

KeepsFlags ==
  (Announced' <=> Announced) /\ (Answered' <=> Answered) /\ (Complete' <=> Complete)

(* Replies that stay where they are.                                       *)
LEMMA SameFlags == s2p' = s2p => KeepsFlags
BY Zenon DEF KeepsFlags, Announced, Answered, Complete, Pending

(* One more than at most one is at most two.                               *)
LEMMA UpToTwo == \A n \in Nat : n <= 1 => n + 1 <= 2 /\ (n + 1 = 2 => n = 1)
OBVIOUS

(* What the server says is on its way.                                     *)
LEMMA SayEffect ==
  ASSUME TypeOK, Replies, NEW r \in Codes, Say(r), heard' = heard,
         ~Answered, r = "150" => ~Announced,
         AnswerTo(r, clt.cmd), clt'.cmd = clt.cmd
  PROVE  /\ Replies'
         /\ Announced' <=> Announced \/ r = "150"
         /\ Answered' <=> r # "150"
         /\ Complete' <=> r = "226"
         /\ s2p' \in Seq(Codes) /\ sent' \in Seq(Codes)
<1>1. s2p \in Seq(Codes) /\ sent \in Seq(Codes) /\ heard \in Seq(Codes)
  BY Zenon DEF TypeOK, Codes
<1>2. s2p' = Append(s2p, r) /\ sent' = Append(sent, r)
  BY Zenon DEF Say
<1>3. s2p' \in Seq(Codes) /\ sent' \in Seq(Codes) /\ Len(s2p') = Len(s2p) + 1
      /\ s2p'[Len(s2p) + 1] = r /\ \A i \in 1 .. Len(s2p) : s2p'[i] = s2p[i]
  BY <1>1, <1>2
<1>4. Pending' = Pending \cup {r}
  <2>1. DOMAIN s2p = 1 .. Len(s2p) /\ DOMAIN s2p' = 1 .. (Len(s2p) + 1) /\ Len(s2p) \in Nat
    BY <1>1, <1>3
  <2> QED
    BY <1>3, <2>1 DEF Pending
<1>5. /\ Announced' <=> Announced \/ r = "150"
      /\ Answered' <=> r # "150"
      /\ Complete' <=> r = "226"
  <2>1. \A x \in Pending : x \notin Finals
    BY Zenon DEF Answered
  <2>2. r # "150" <=> r \in Finals
    BY Zenon DEF Codes, Finals
  <2> QED
    BY <1>4, <2>1, <2>2, Zenon DEF Announced, Answered, Complete, Finals
<1>6. heard \o s2p' = sent'
  BY <1>1, <1>2 DEF Replies
<1>7. Len(s2p) <= 1 /\ (Len(s2p) = 1 => s2p[1] = "150" /\ r # "150")
  <2>1. \A i \in 1 .. Len(s2p) : s2p[i] \in Pending /\ s2p[i] \in Codes
    BY <1>1 DEF Pending
  <2>2. \A i \in 1 .. Len(s2p) : s2p[i] = "150"
    BY <2>1, Zenon DEF Answered, Codes
  <2>3. Len(s2p) \in Nat /\ Len(s2p) <= 2 /\ Len(s2p) # 2
    BY <1>1, <2>2 DEF Replies, Finals
  <2>4. Len(s2p) = 1 => s2p[1] = "150" /\ s2p[1] \in Pending
    BY <2>1, <2>2
  <2>5. Len(s2p) = 1 => Announced
    BY <2>4, Zenon DEF Announced
  <2>6. Len(s2p) <= 1
    <3> DEFINE n == Len(s2p)
    <3>1. n \in Nat /\ n <= 2 /\ n # 2
      BY <2>3, Zenon
    <3> HIDE DEF n
    <3>2. n <= 1
      BY <3>1
    <3> QED
      BY <3>2, Zenon DEF n
  <2> QED
    BY <2>4, <2>5, <2>6, Zenon
<1>8. Len(s2p') <= 2 /\ (Len(s2p') = 2 => s2p'[1] = "150" /\ s2p'[2] \in Finals)
  <2>1. Len(s2p) \in Nat
    BY <1>1
  <2>2. Len(s2p) = 1 => s2p'[1] = "150" /\ s2p'[2] = r /\ r \in Finals
    BY <1>3, <1>7 DEF Codes
  <2>3. Len(s2p') = Len(s2p) + 1 /\ Len(s2p) <= 1
    BY <1>3, <1>7, Zenon
  <2>4. Len(s2p') <= 2 /\ (Len(s2p') = 2 => Len(s2p) = 1)
    BY <2>1, <2>3, UpToTwo, Zenon
  <2> QED
    BY <2>2, <2>4, Zenon
<1>9. \A x \in Pending' : AnswerTo(x, clt'.cmd)
  BY <1>4, Zenon DEF Replies
<1>10. Replies'
  BY <1>6, <1>8, <1>9, Zenon DEF Replies
<1> QED
  BY <1>3, <1>5, <1>10, Zenon

(* A sequence is what was read of it and the rest.                         *)
LEMMA SplitInTwo ==
  ASSUME NEW S, NEW s \in Seq(S), NEW k \in 1 .. Len(s)
  PROVE  SubSeq(s, 1, k) \o SubSeq(s, k + 1, Len(s)) = s
<1>1. 1 \in 1 .. Len(s) + 1 /\ k \in 1 - 1 .. Len(s) /\ Len(s) \in k .. Len(s)
  OBVIOUS
<1>2. SubSeq(s, 1, k) \o SubSeq(s, k + 1, Len(s)) = SubSeq(s, 1, Len(s))
  BY <1>1, ConcatAdjacentSubSeq, Zenon
<1> QED
  BY <1>2, SubSeqFull, Zenon

(* A read takes the announcement alone, or all that has arrived.           *)
LEMMA ReadEffect ==
  ASSUME TypeOK, Replies, NEW rs \in Reads, ReadReplies(rs), heard' = heard \o rs, sent' = sent
  PROVE  LET r == {rs[i] : i \in DOMAIN rs} IN
         /\ s2p' \in Seq(Codes) /\ heard' \in Seq(Codes) /\ heard' \o s2p' = sent'
         /\ r \subseteq Pending /\ r # {}
         /\ \/ r = Pending /\ s2p' = <<>>
            \/ r = {"150"} /\ Len(s2p') = 1 /\ s2p'[1] \in Finals /\ Pending = r \cup {s2p'[1]}
<1>1. s2p \in Seq(Codes) /\ sent \in Seq(Codes) /\ heard \in Seq(Codes)
  BY Zenon DEF TypeOK, Codes
<1>2. PICK k \in 1 .. Len(s2p) : rs = SubSeq(s2p, 1, k)
  BY Zenon DEF Reads
<1>3. /\ rs \in Seq(Codes) /\ Len(rs) = k /\ k > 0 /\ k <= Len(s2p) /\ k \in Nat /\ Len(s2p) \in Nat
      /\ \A i \in 1 .. k : rs[i] = s2p[i]
  BY <1>1, <1>2
<1>4. s2p' = SubSeq(s2p, k + 1, Len(s2p))
  BY <1>3, Zenon DEF ReadReplies
<1>5. /\ s2p' \in Seq(Codes) /\ Len(s2p') = Len(s2p) - k
      /\ \A i \in 1 .. (Len(s2p) - k) : s2p'[i] = s2p[k + i]
  BY <1>1, <1>3, <1>4
<1>6. rs \o s2p' = s2p
  BY <1>1, <1>2, <1>4, SplitInTwo, Zenon
<1>7. heard' \in Seq(Codes) /\ heard' \o s2p' = sent'
  <2>1. heard' \in Seq(Codes)
    BY <1>1, <1>3
  <2>2. (heard \o rs) \o s2p' = heard \o (rs \o s2p')
    <3>1. heard \in Seq(Codes) /\ rs \in Seq(Codes) /\ s2p' \in Seq(Codes)
      BY <1>1, <1>3, <1>5, Zenon
    <3> QED
      BY <3>1, ConcatAssociative, SMTT(30)
  <2> QED
    BY <1>6, <2>1, <2>2, Zenon DEF Replies
<1> DEFINE r == {rs[i] : i \in DOMAIN rs}
<1>8. DOMAIN rs = 1 .. k /\ DOMAIN s2p = 1 .. Len(s2p)
  BY <1>1, <1>3
<1>9. r \subseteq Pending
  BY <1>3, <1>8 DEF Pending
<1>10. rs[1] \in r
  BY <1>3, <1>8
<1>11. CASE k = Len(s2p)
  <2>1. r = Pending
    BY <1>3, <1>8, <1>11, Zenon DEF Pending
  <2>2. s2p' = <<>>
    BY <1>3, <1>5, <1>11
  <2> QED
    BY <1>5, <1>7, <1>9, <1>10, <2>1, <2>2, Zenon
<1>12. CASE k # Len(s2p)
  <2>1. Len(s2p) <= 2 /\ (Len(s2p) = 2 => s2p[1] = "150" /\ s2p[2] \in Finals)
    BY Zenon DEF Replies
  <2>2. k = 1 /\ Len(s2p) = 2
    <3> DEFINE n == Len(s2p)
    <3>1. n \in Nat /\ n <= 2 /\ k # n /\ k \in Nat /\ k > 0 /\ k <= n
      BY <1>3, <1>12, <2>1, Zenon
    <3> HIDE DEF n
    <3>2. k = 1 /\ n = 2
      BY <3>1
    <3> QED
      BY <3>2, Zenon DEF n
  <2>3. s2p[1] = "150" /\ s2p[2] \in Finals /\ rs[1] = "150" /\ Len(s2p') = 1 /\ s2p'[1] = s2p[2]
    BY <1>3, <1>5, <2>1, <2>2
  <2>4. r = {"150"}
    BY <1>8, <2>2, <2>3
  <2>5. Pending = {"150", s2p[2]}
    BY <1>8, <2>2, <2>3 DEF Pending
  <2>6. Pending = r \cup {s2p'[1]}
    BY <2>3, <2>4, <2>5, Zenon
  <2> QED
    BY <1>5, <1>7, <1>9, <1>10, <2>3, <2>4, <2>6, Zenon
<1> QED
  BY <1>11, <1>12, Zenon

\* The client hears that its transfer begins, or that its command has ended.
Announces ==
  /\ Announced /\ ~Announced' /\ (Answered' <=> Answered) /\ (Complete' <=> Complete)
  /\ clt.cmd \in Transfers /\ clt'.cmd = clt.cmd /\ clt'.addr = clt.addr /\ clt'.conn = clt.conn
  /\ clt'.fetched = clt.fetched /\ KeepsLine
Ends(addr) ==
  /\ Answered /\ ~Announced' /\ ~Answered' /\ ~Complete'
  /\ clt.cmd # "none" /\ clt'.cmd = "none"
  /\ clt'.addr = IF clt.cmd \in Passive THEN addr
                 ELSE IF clt.cmd \in Transfers THEN "none" ELSE clt.addr
  /\ clt'.conn = IF clt.cmd # "noop" THEN "no" ELSE clt.conn
  /\ \/ clt'.fetched = clt.fetched
     \/ /\ Complete /\ clt.cmd = "retr" /\ clt.conn = "proxy" /\ ~clt.gone
        /\ clt'.fetched = clt.got
  /\ KeepsLine

(* Those are the two things a client can hear.                             *)
LEMMA HearEffect ==
  ASSUME TypeOK, Replies, NEW rs \in Reads, ReadReplies(rs), sent' = sent,
         NEW addr \in {"proxy", "self", "direct"}, Hear(rs, addr)
  PROVE  /\ Replies' /\ s2p' \in Seq(Codes) /\ heard' \in Seq(Codes)
         /\ clt' \in Clients
         /\ Announces \/ Ends(addr)
<1> DEFINE r == {rs[i] : i \in DOMAIN rs}
           ends == r \cap Finals # {}
<1>1. heard' = heard \o rs
  BY Zenon DEF Hear
<1>2. clt' = [clt EXCEPT
           !.go = @ \/ "150" \in r,
           !.cmd = IF ends THEN "none" ELSE @,
           !.addr = IF "227" \in r THEN addr ELSE IF ends /\ clt.cmd \in Transfers THEN "none" ELSE @,
           !.conn = IF ends /\ clt.cmd # "noop" THEN "no" ELSE @,
           !.fetched = IF "226" \in r /\ clt.cmd = "retr" /\ clt.conn = "proxy" /\ ~clt.gone
                         THEN clt.got ELSE @]
  BY Zenon DEF Hear
<1>3. /\ s2p' \in Seq(Codes) /\ heard' \in Seq(Codes) /\ heard' \o s2p' = sent'
      /\ r \subseteq Pending /\ r # {}
      /\ \/ r = Pending /\ s2p' = <<>>
         \/ r = {"150"} /\ Len(s2p') = 1 /\ s2p'[1] \in Finals /\ Pending = r \cup {s2p'[1]}
  BY <1>1, ReadEffect, Zenon
<1> HIDE DEF r
<1>4. /\ clt' \in Clients
      /\ KeepsLine
      /\ clt'.cmd = IF ends THEN "none" ELSE clt.cmd
      /\ clt'.addr = IF "227" \in r THEN addr
                     ELSE IF ends /\ clt.cmd \in Transfers THEN "none" ELSE clt.addr
      /\ clt'.conn = IF ends /\ clt.cmd # "noop" THEN "no" ELSE clt.conn
      /\ clt'.fetched = IF "226" \in r /\ clt.cmd = "retr" /\ clt.conn = "proxy" /\ ~clt.gone
                         THEN clt.got ELSE clt.fetched
  <2>1. clt \in Clients
    BY Zenon DEF TypeOK, Clients
  <2> HIDE DEF ends
  <2>2. /\ KeepsLine
        /\ clt'.cmd = IF ends THEN "none" ELSE clt.cmd
        /\ clt'.addr = IF "227" \in r THEN addr
                       ELSE IF ends /\ clt.cmd \in Transfers THEN "none" ELSE clt.addr
        /\ clt'.conn = IF ends /\ clt.cmd # "noop" THEN "no" ELSE clt.conn
        /\ clt'.fetched = IF "226" \in r /\ clt.cmd = "retr" /\ clt.conn = "proxy" /\ ~clt.gone
                         THEN clt.got ELSE clt.fetched
    BY <1>2, <2>1, Zenon DEF KeepsLine, Clients
  <2>3. clt' \in Clients
    <3> DEFINE g == clt.go \/ "150" \in r
               c == IF ends THEN "none" ELSE clt.cmd
               a == IF "227" \in r THEN addr
                    ELSE IF ends /\ clt.cmd \in Transfers THEN "none" ELSE clt.addr
               d == IF ends /\ clt.cmd # "noop" THEN "no" ELSE clt.conn
               f == IF "226" \in r /\ clt.cmd = "retr" /\ clt.conn = "proxy" /\ ~clt.gone
                      THEN clt.got ELSE clt.fetched
    <3>1. clt' = [clt EXCEPT !.go = g, !.cmd = c, !.addr = a, !.conn = d, !.fetched = f]
      BY <1>2, Zenon
    <3>2. g \in BOOLEAN
      BY Zenon
    <3>3. c \in Kinds \cup {"none", "greeting"} /\ a \in {"none", "proxy", "direct", "self"}
          /\ d \in {"no", "proxy", "direct"} /\ f \in 0 .. FileSize
      BY <2>1, Zenon DEF Clients
    <3> HIDE DEF g, c, a, d, f
    <3> QED
      BY <2>1, <3>1, <3>2, <3>3, ZenonT(60) DEF Clients
  <2> QED
    BY <2>2, <2>3, Zenon
<1> HIDE DEF ends
<1>5. \A x \in Pending : AnswerTo(x, clt.cmd)
  BY Zenon DEF Replies
<1>6. CASE r = Pending /\ s2p' = <<>> /\ ends
  <2>1. Pending' = {}
    BY <1>6 DEF Pending
  <2>2. ~Announced' /\ ~Answered' /\ ~Complete' /\ Answered
    <3>1. Answered
      BY <1>6, Zenon DEF Answered, ends
    <3> QED
      BY <2>1, <3>1, Zenon DEF Announced, Answered, Complete
  <2>3. clt.cmd # "none"
    BY <1>3, <1>5, Zenon DEF AnswerTo, Transfers, Passive
  <2>4. "227" \in r <=> clt.cmd \in Passive
    BY <1>3, <1>5, <1>6, Zenon DEF AnswerTo, Transfers, Finals, ends, Passive
  <2>5. Ends(addr)
    BY <1>4, <1>6, <2>2, <2>3, <2>4, Zenon DEF Ends, Complete
  <2>6. Replies'
    BY <1>3, <1>6, <2>1 DEF Replies
  <2> QED
    BY <1>3, <1>4, <2>5, <2>6, Zenon
<1>7. CASE ~ends
  <2>1. r = {"150"} /\ Announced /\ clt.cmd \in Transfers
    <3>1. \A x \in r : x \in Codes /\ x \notin Finals
      <4>1. s2p \in Seq(Codes)
        BY Zenon DEF TypeOK, Codes
      <4>2. \A x \in Pending : x \in Codes
        BY <4>1 DEF Pending
      <4> QED
        BY <1>3, <1>7, <4>2, Zenon DEF ends
    <3>2. r = {"150"}
      BY <1>3, <3>1, Zenon DEF Codes
    <3> QED
      BY <1>3, <1>5, <3>2, Zenon DEF Announced, AnswerTo, Passive, Transfers
  <2>2. "227" \notin r /\ "226" \notin r
    BY <2>1, Zenon
  <2>3. /\ clt'.cmd = clt.cmd /\ clt'.addr = clt.addr /\ clt'.conn = clt.conn
        /\ clt'.fetched = clt.fetched
    BY <1>4, <1>7, <2>2, Zenon
  <2>4. /\ ~Announced' /\ (Answered' <=> Answered) /\ (Complete' <=> Complete)
        /\ Len(s2p') <= 1
        /\ Pending' \subseteq Pending
    <3>1. CASE r = Pending /\ s2p' = <<>>
      <4>1. Pending' = {} /\ Pending = {"150"} /\ Len(s2p') = 0
        BY <2>1, <3>1, SMTT(30) DEF Pending
      <4> QED
        BY <4>1 DEF Announced, Answered, Complete, Finals
    <3>2. CASE /\ Len(s2p') = 1 /\ s2p'[1] \in Finals /\ Pending = r \cup {s2p'[1]}
      <4>1. Pending' = {s2p'[1]}
        BY <1>3, <3>2 DEF Pending
      <4> QED
        BY <2>1, <3>2, <4>1 DEF Announced, Answered, Complete, Finals
    <3> QED
      BY <1>3, <3>1, <3>2, Zenon
  <2>5. Announces
    BY <1>4, <2>1, <2>3, <2>4, Zenon DEF Announces
  <2>6. Replies'
    <3>1. Len(s2p') \in Nat
      BY <1>3
    <3>2. Len(s2p') <= 2 /\ Len(s2p') # 2
      BY <2>4, <3>1
    <3> QED
      BY <1>3, <1>5, <2>3, <2>4, <3>2, Zenon DEF Replies
  <2> QED
    BY <1>3, <1>4, <2>5, <2>6, Zenon
<1>8. r = {"150"} => ~ends
  BY Zenon DEF ends, Finals
<1> QED
  BY <1>3, <1>6, <1>7, <1>8, Zenon

-----------------------------------------------------------------------------
(* The steps of the client.                                                *)

(* No reply is on its way to a client with no command.                     *)
LEMMA NoneToCome ==
  ASSUME Replies, clt.cmd = "none" PROVE Pending = {} /\ ~Announced /\ ~Answered /\ ~Complete
BY Zenon DEF Replies, AnswerTo, Passive, Transfers, Announced, Answered, Complete

(* A command the client sends finds the relay with no other.               *)
LEMMA StepClientSends ==
  ASSUME IInv, NEW k \in Kinds, ClientSends(k)
  PROVE  IInv'
<1> DEFINE again == k \in {"pasv", "epsv"} /\ clt.addr # "none"
<1>1. TypeOK /\ Fields
  BY HasFields, Zenon DEF IInv
<1>2. /\ clt.cmd = "none" /\ ~clt.gone /\ px.pc # "end" /\ clt.n < MaxCommands
      /\ k \in Transfers => clt.addr # "none"
      /\ again => Usual
      /\ px' = px /\ lst' = lst /\ srv' = srv /\ p2s' = p2s /\ s2p' = s2p /\ sd' = sd
      /\ sent' = sent /\ heard' = heard
  BY Zenon DEF ClientSends
<1>3. /\ clt' \in Clients
      /\ (clt'.again <=> clt.again \/ again) /\ clt'.cmd = k /\ clt'.got = 0
      /\ clt'.left = IF k = "stor" THEN FileSize ELSE 0
      /\ clt'.addr = clt.addr /\ clt'.conn = clt.conn /\ clt'.fetched = clt.fetched
      /\ clt'.awaits = clt.awaits /\ clt'.gone = clt.gone
  <2> DEFINE a == clt.again \/ again
             f == IF k = "stor" THEN FileSize ELSE 0
  <2>1. clt' = [clt EXCEPT !.again = a, !.n = @ + 1, !.cmd = k, !.go = FALSE, !.got = 0, !.left = f]
    BY Zenon DEF ClientSends
  <2>2. a \in BOOLEAN
    BY Zenon
  <2>3. f \in 0 .. FileSize /\ 0 \in 0 .. FileSize /\ clt.n + 1 \in 0 .. MaxCommands
    <3>1. clt.n \in 0 .. MaxCommands
      BY <1>1, Zenon DEF TypeOK
    <3>2. \A i \in 0 .. MaxCommands : i < MaxCommands => i + 1 \in 0 .. MaxCommands
      BY FtpControlAssumption
    <3>3. 0 \in 0 .. FileSize /\ FileSize \in 0 .. FileSize
      BY FtpControlAssumption
    <3> QED
      BY <1>2, <3>1, <3>2, <3>3, Zenon
  <2> HIDE DEF a, f
  <2>4. /\ clt' \in Clients
        /\ clt'.again = a /\ clt'.cmd = k /\ clt'.got = 0 /\ clt'.left = f
        /\ clt'.addr = clt.addr /\ clt'.conn = clt.conn /\ clt'.fetched = clt.fetched
        /\ clt'.awaits = clt.awaits /\ clt'.gone = clt.gone
    BY <1>1, <2>1, <2>2, <2>3, ZenonT(60) DEF TypeOK, Clients
  <2> QED
    BY <2>4, Zenon DEF a, f
<1>4. c2p = <<>> /\ p2s = <<>> /\ srv.st = "idle" /\ Pending = {} /\ Pending' = {}
      /\ ~Announced /\ ~Answered /\ ~Complete /\ ~Announced' /\ ~Answered' /\ ~Complete'
  BY <1>2, NoneToCome, SameFlags, Zenon DEF IInv, OneCommand, KeepsFlags, Pending
<1>5. c2p' = <<k>> /\ c2p' # <<>> /\ c2p' \in Seq(Kinds)
  BY <1>4 DEF ClientSends
<1>6. cd' = IF k \in Transfers THEN NoData ELSE cd
  BY Zenon DEF ClientSends
<1>7. cd' \in Channels /\ (k \in Transfers => cd'.n = 0 /\ ~cd'.eof)
      /\ (k \notin Transfers => cd' = cd)
  BY <1>1, <1>6, FtpControlAssumption DEF NoData, TypeOK, Channels
<1>8. k \in {"noop", "pasv", "epsv", "stor", "retr"} /\ FileSize \in Nat
  BY FtpControlAssumption, Zenon
<1> HIDE DEF again
<1>9. TypeOK'
  BY <1>1, <1>2, <1>3, <1>4, <1>5, <1>7, <1>8 DEF IInv, TypeOK, Clients, Channels
<1>10. Replies'
  BY <1>2, <1>4, <1>8, Zenon DEF IInv, Replies
<1>11. OneCommand'
  BY <1>2, <1>3, <1>4, <1>5, <1>8, Zenon DEF IInv, OneCommand
<1>12. OneOdd'
  BY <1>2, <1>3, <1>7, <1>8, Zenon DEF IInv, OneOdd, Usual
<1>13. Place'
  BY <1>1, <1>2, <1>3, <1>4, <1>5, <1>7, <1>8, ZenonT(60) DEF IInv, Place, Mine, Over,
     Passive, Transfers
<1>14. Refusal'
  BY <1>2, <1>3, <1>4, <1>5, <1>7, <1>8, Zenon DEF IInv, Refusal, Over
<1>15. Address'
  BY <1>1, <1>2, <1>3, <1>4, <1>5, <1>7, <1>8 DEF IInv, Fields, Address, Mine, Passive,
     Transfers, again, Usual
<1>16. Listens'
  BY <1>2, <1>3, <1>4, <1>7, <1>8, Zenon DEF IInv, Listens
<1>17. Unused'
  BY <1>1, <1>2, <1>3, <1>4, <1>5, <1>7, <1>8, ZenonT(60) DEF IInv, Unused, Before, Linked,
     Transfers
<1>18. Bounds'
  BY <1>1, <1>2, <1>3, <1>4, <1>5, <1>7, <1>8, SMTT(30) DEF IInv, Fields, Bounds, Got, Left,
     Linked, Transfers, Unused, Before, Place, Mine
<1>19. Uploads'
  BY <1>1, <1>2, <1>3, <1>4, <1>5, <1>7, <1>8 DEF IInv, Fields, Uploads, Plain, Got, Unused,
     Before, Linked, Transfers
<1>20. Downloads'
  BY <1>2, <1>3, <1>4, <1>8, Zenon DEF IInv, Downloads
<1> QED
  BY <1>9, <1>10, <1>11, <1>12, <1>13, <1>14, <1>15, <1>16, <1>17, <1>18, <1>19, <1>20,
     Zenon DEF
     IInv

(* The client connects to the relay, or to the server.                     *)
LEMMA StepClientConnects ==
  ASSUME IInv, ClientConnects
  PROVE  IInv'
<1>1. TypeOK /\ Fields /\ FileSize \in Nat
  BY HasFields, FtpControlAssumption, Zenon DEF IInv
<1>2. /\ clt.conn = "no" /\ clt.addr \notin {"none", "self"} /\ ~clt.gone
      /\ px' = px /\ c2p' = c2p /\ p2s' = p2s /\ s2p' = s2p /\ cd' = cd
      /\ sent' = sent /\ heard' = heard /\ KeepsFlags
  BY SameFlags, Zenon DEF ClientConnects
<1>3. /\ clt' \in Clients /\ clt'.conn = clt.addr
      /\ clt'.cmd = clt.cmd /\ clt'.addr = clt.addr /\ clt'.fetched = clt.fetched /\ KeepsLine
  BY <1>1, ZenonT(60) DEF ClientConnects, TypeOK, Clients, KeepsLine
<1>4. CASE clt.addr = "proxy"
  <2>1. lst' = "queued" /\ srv' = srv /\ sd' = sd
    BY <1>4, Zenon DEF ClientConnects
  <2>2. TypeOK'
    BY <1>1, <1>2, <1>3, <1>4, <2>1 DEF IInv, TypeOK, Clients
  <2>3. Replies'
    BY <1>2, <1>3, Zenon DEF IInv, Replies, Pending
  <2>4. OneCommand'
    BY <1>2, <1>3, <2>1, Zenon DEF IInv, OneCommand, KeepsFlags
  <2>5. OneOdd'
    BY <1>2, <1>3, <1>4, <2>1, Zenon DEF IInv, OneOdd, KeepsLine
  <2>6. Place'
    BY <1>1, <1>2, <1>3, <1>4, <2>1, ZenonT(60) DEF IInv, Place, Mine, Over, KeepsFlags,
       Passive, KeepsLine, Address
  <2>7. Refusal'
    BY <1>2, <1>3, <1>4, <2>1, Zenon DEF IInv, Refusal, Over, KeepsFlags
  <2>8. Address'
    BY <1>2, <1>3, <1>4, <2>1, Zenon DEF IInv, Address, KeepsLine
  <2>9. Listens'
    BY <1>1, <1>2, <1>3, <1>4, <2>1, ZenonT(60) DEF IInv, Listens, KeepsFlags
  <2>10. Unused'
    BY <1>2, <1>3, <1>4, <2>1, Zenon DEF IInv, Unused, Before, Linked
  <2>11. Bounds'
    BY <1>2, <1>3, <1>4, <2>1, Zenon DEF IInv, Bounds, Got, Left, Linked, Transfers,
       KeepsLine
  <2>12. Uploads'
    BY <1>1, <1>2, <1>3, <1>4, <2>1, ZenonT(60) DEF IInv, Uploads, Plain, Got, KeepsLine
  <2>13. Downloads'
    BY <1>2, <1>3, <2>1, ZenonT(60) DEF IInv, Downloads, KeepsFlags, KeepsLine
  <2> QED
    BY <2>2, <2>3, <2>4, <2>5, <2>6, <2>7, <2>8, <2>9, <2>10, <2>11, <2>12, <2>13, Zenon DEF
       IInv
<1>5. CASE clt.addr = "direct"
  <2>1. lst' = lst /\ srv' = [srv EXCEPT !.conn = srv.lis] /\ sd' = NoData
    BY <1>5, Zenon DEF ClientConnects
  <2>2. /\ srv'.conn = srv.lis /\ srv'.stored = srv.stored /\ KeepsServer /\ srv' \in Servers
    BY <1>1, <2>1, Zenon DEF TypeOK, Servers, KeepsServer
  <2>3. sd' \in Channels /\ sd'.n = 0 /\ ~sd'.eof
    BY <1>1, <2>1 DEF Channels, NoData
  <2>4. TypeOK'
    BY <1>1, <1>2, <1>3, <1>5, <2>1, <2>2, <2>3 DEF IInv, TypeOK, Clients, Servers, Channels
  <2>5. Replies'
    BY <1>2, <1>3, <2>2, <2>3, Zenon DEF IInv, Replies, Pending
  <2>6. OneCommand'
    BY <1>1, <1>2, <1>3, <1>5, <2>1, <2>2, <2>3, ZenonT(60) DEF IInv, OneCommand,
       KeepsFlags, KeepsServer
  <2>7. OneOdd'
    BY <1>2, <1>3, <2>2, <2>3, Zenon DEF IInv, OneOdd, KeepsLine, KeepsServer
  <2>8. Place'
    BY <1>1, <1>2, <1>3, <1>5, <2>1, <2>2, <2>3 DEF IInv, Fields, Place, Mine, Over,
       OneCommand, KeepsFlags, Passive, Transfers, KeepsLine, KeepsServer
  <2>9. Refusal'
    BY <1>2, <1>3, <1>5, <2>1, <2>2, <2>3, Zenon DEF IInv, Refusal, Over, KeepsFlags,
       KeepsServer
  <2>10. Address'
    BY <1>2, <1>3, <1>5, <2>1, <2>2, <2>3, Zenon DEF IInv, Address, Mine, KeepsLine,
       KeepsServer
  <2>11. Listens'
    BY <1>2, <1>3, <1>5, <2>1, <2>2, <2>3, ZenonT(60) DEF IInv, Listens, KeepsFlags,
       KeepsServer
  <2>12. Unused'
    BY <1>2, <1>3, <1>5, <2>1, <2>2, <2>3, Zenon DEF IInv, Unused, Transfers
  <2>13. Bounds'
    BY <1>1, <1>2, <1>3, <1>5, <2>1, <2>2, <2>3, SMTT(30) DEF IInv, Fields, Bounds, Got,
       Left, Linked, Transfers, KeepsLine, KeepsServer
  <2>14. Uploads'
    BY <1>1, <1>2, <1>3, <1>5, <2>1, <2>2, <2>3 DEF IInv, Fields, Uploads, Plain, Got,
       KeepsLine, KeepsServer
  <2>15. Downloads'
    BY <1>1, <1>3, <1>5, <2>1, <2>2, <2>3, Zenon DEF IInv, Downloads, KeepsServer
  <2> QED
    BY <2>4, <2>5, <2>6, <2>7, <2>8, <2>9, <2>10, <2>11, <2>12, <2>13, <2>14, <2>15, Zenon
       DEF IInv
<1> QED
  BY <1>1, <1>2, <1>4, <1>5, Zenon DEF Fields

(* The client sends a part of its file, or reads one from the server.      *)
LEMMA StepClientData ==
  ASSUME IInv, ClientData
  PROVE  IInv'
<1>1. TypeOK /\ Fields /\ FileSize \in Nat
  BY HasFields, FtpControlAssumption, Zenon DEF IInv
<1>2. /\ px' = px /\ lst' = lst /\ srv' = srv /\ c2p' = c2p /\ p2s' = p2s /\ s2p' = s2p
      /\ sent' = sent /\ heard' = heard /\ KeepsFlags
  BY SameFlags, Zenon DEF ClientData
<1>3. CASE clt.cmd = "retr"
  <2>1. /\ clt.conn = "direct" /\ sd.n > 0 /\ ~clt.gone
        /\ sd' = [sd EXCEPT !.n = @ - 1] /\ cd' = cd
        /\ clt' = [clt EXCEPT !.got = @ + 1]
    BY <1>3, Zenon DEF ClientData
  <2>2. clt.got + sd.n + Left <= FileSize
    BY <1>3, <2>1, Zenon DEF IInv, Bounds, Linked
  <2>3. /\ clt' \in Clients /\ clt'.got = clt.got + 1
        /\ clt'.cmd = clt.cmd /\ clt'.addr = clt.addr /\ clt'.conn = clt.conn
        /\ clt'.fetched = clt.fetched /\ clt'.awaits = clt.awaits /\ clt'.again = clt.again
        /\ clt'.gone = clt.gone /\ clt'.left = clt.left
    <3>1. clt.got + 1 \in 0 .. FileSize
      BY <1>1, <2>1, <2>2 DEF Fields, Left
    <3> QED
      BY <1>1, <2>1, <3>1, Zenon DEF TypeOK, Clients
  <2>4. sd' \in Channels /\ sd'.n = sd.n - 1 /\ sd'.eof = sd.eof
    <3>1. sd.n - 1 \in 0 .. FileSize
      BY <1>1, <2>1 DEF Fields
    <3> QED
      BY <1>1, <2>1, <3>1, Zenon DEF TypeOK, Channels
  <2>5. Bounds'
    <3>1. /\ clt'.got + sd'.n + Left' = clt.got + sd.n + Left /\ Got' = Got
          /\ clt'.got + Left' <= FileSize
      BY <1>1, <1>2, <2>1, <2>2, <2>3, <2>4, SMTT(30) DEF Fields, Left, Got
    <3> QED
      BY <1>1, <1>2, <1>3, <2>1, <2>2, <2>3, <2>4, <3>1 DEF IInv, Bounds, Unused, Before,
         Linked
  <2>6. TypeOK'
    BY <1>1, <1>2, <1>3, <2>1, <2>2, <2>3, <2>4 DEF IInv, TypeOK, Clients, Channels
  <2>7. Replies'
    BY <1>2, <2>1, <2>3, <2>4, ZenonT(60) DEF IInv, Replies, Pending
  <2>8. OneCommand'
    BY <1>2, <1>3, <2>3, <2>4, ZenonT(60) DEF IInv, OneCommand, KeepsFlags
  <2>9. OneOdd'
    BY <1>2, <2>2, <2>3, Zenon DEF IInv, OneOdd
  <2>10. Place'
    BY <1>1, <1>2, <1>3, <2>1, <2>2, <2>3, <2>4, SMTT(30) DEF IInv, Fields, Place, Mine,
       Over, OneCommand, KeepsFlags, Passive, Transfers
  <2>11. Refusal'
    BY <1>1, <1>2, <2>1, <2>2, <2>3, <2>4, Zenon DEF IInv, Refusal, Over, KeepsFlags
  <2>12. Address'
    BY <1>1, <1>2, <2>1, <2>2, <2>3, <2>4, Zenon DEF IInv, Address
  <2>13. Listens'
    BY <1>2, <2>2, <2>3, <2>4, Zenon DEF IInv, Listens, KeepsFlags
  <2>14. Unused'
    BY <1>1, <1>2, <1>3, <2>1, <2>2, <2>3, <2>4, SMTT(30) DEF IInv, Fields, Unused, Before,
       Linked, Transfers
  <2>15. Uploads'
    BY <1>2, <1>3, <2>2, <2>3, <2>4, Zenon DEF IInv, Uploads, Plain
  <2>16. Downloads'
    BY <1>2, <2>1, <2>2, <2>3, <2>4, Zenon DEF IInv, Downloads, Address
  <2> QED
    BY <2>6, <2>7, <2>8, <2>9, <2>10, <2>11, <2>12, <2>13, <2>14, <2>5, <2>15, <2>16, Zenon
       DEF IInv
<1>4. CASE clt.cmd # "retr"
  <2> DEFINE end == clt.left = 0
             d(x) == [n |-> IF end THEN x.n ELSE x.n + 1, eof |-> end]
  <2>1. /\ clt.cmd = "stor" /\ clt.conn # "no" /\ ~clt.gone /\ ~cd.eof
        /\ clt' = [clt EXCEPT !.left = IF @ = 0 THEN 0 ELSE @ - 1]
    BY <1>4, Zenon DEF ClientData, MaySend
  <2>2. /\ clt' \in Clients /\ clt'.left = (IF end THEN 0 ELSE clt.left - 1)
        /\ clt'.cmd = clt.cmd /\ clt'.addr = clt.addr /\ clt'.conn = clt.conn
        /\ clt'.fetched = clt.fetched /\ clt'.awaits = clt.awaits /\ clt'.again = clt.again
        /\ clt'.gone = clt.gone /\ clt'.got = clt.got
    <3>1. (IF end THEN 0 ELSE clt.left - 1) \in 0 .. FileSize
      BY <1>1 DEF Fields
    <3> QED
      BY <1>1, <2>1, <3>1, Zenon DEF TypeOK, Clients
  <2>3. CASE clt.conn = "proxy"
    <3>1. cd' = d(cd) /\ sd' = sd
      BY <1>4, <2>3, Zenon DEF ClientData
    <3>2. cd' \in Channels /\ cd'.n = (IF end THEN cd.n ELSE cd.n + 1) /\ (cd'.eof <=> end)
      <4>1. end \in BOOLEAN
        BY Zenon
      <4>2. (IF end THEN cd.n ELSE cd.n + 1) \in 0 .. FileSize
        BY <1>1, SMTT(30) DEF Fields, IInv, Bounds
      <4> HIDE DEF end
      <4> QED
        BY <1>1, <3>1, <4>1, <4>2, Zenon DEF Channels
    <3>3. Bounds'
      <4>1. clt'.left + cd'.n = clt.left + cd.n /\ Got' = Got
        BY <1>1, <1>2, <2>2, <3>2, SMTT(30) DEF Fields, Got
      <4> QED
        BY <1>1, <1>2, <2>1, <2>2, <3>1, <4>1, Zenon DEF IInv, Bounds
    <3>4. TypeOK'
      BY <1>1, <1>2, <2>1, <2>2, <2>3, <3>1, <3>2 DEF IInv, TypeOK, Clients, Channels
    <3>5. Replies'
      BY <1>2, <2>2, <3>2, Zenon DEF IInv, Replies, Pending
    <3>6. OneCommand'
      BY <1>2, <2>1, <2>2, <3>1, <3>2, Zenon DEF IInv, OneCommand, KeepsFlags
    <3>7. OneOdd'
      BY <1>2, <2>2, <2>3, Zenon DEF IInv, OneOdd
    <3>8. Place'
      BY <1>1, <1>2, <2>1, <2>2, <2>3, <3>1, <3>2, ZenonT(60) DEF IInv, Place, Mine, Over,
         KeepsFlags, Transfers
    <3>9. Refusal'
      BY <1>1, <1>2, <2>2, <2>3, <3>1, <3>2, ZenonT(60) DEF IInv, Refusal, Over, KeepsFlags
    <3>10. Address'
      BY <1>1, <1>2, <2>2, <2>3, <3>1, <3>2, ZenonT(60) DEF IInv, Address, Mine
    <3>11. Listens'
      BY <1>2, <2>2, <2>3, <3>1, <3>2, Zenon DEF IInv, Listens, KeepsFlags
    <3>12. Unused'
      BY <1>1, <2>1, <2>2, <2>3, <3>1, <3>2, ZenonT(60) DEF IInv, Unused, Before, Transfers
    <3>13. Uploads'
      BY <1>1, <1>2, <2>1, <2>2, <2>3, <3>1, <3>2 DEF IInv, Fields, Uploads, Plain, Got
    <3>14. Downloads'
      BY <1>2, <2>1, <2>2, <3>1, <3>2, Zenon DEF IInv, Downloads
    <3> QED
      BY <3>4, <3>5, <3>6, <3>7, <3>8, <3>9, <3>10, <3>11, <3>12, <3>3, <3>13, <3>14, Zenon
         DEF IInv
  <2>4. CASE clt.conn = "direct"
    <3>1. srv.conn /\ sd' = d(sd) /\ cd' = [cd EXCEPT !.eof = end]
      BY <1>4, <2>1, <2>4, Zenon DEF ClientData
    <3>2. /\ sd' \in Channels /\ sd'.n = (IF end THEN sd.n ELSE sd.n + 1) /\ (sd'.eof <=> end)
          /\ cd' \in Channels /\ cd'.n = cd.n /\ (cd'.eof <=> end)
      <4>1. end \in BOOLEAN
        BY Zenon
      <4>2. (IF end THEN sd.n ELSE sd.n + 1) \in 0 .. FileSize
        BY <1>1, <2>1, <3>1, SMTT(30) DEF Fields, IInv, Bounds, Got
      <4> HIDE DEF end
      <4> QED
        BY <1>1, <3>1, <4>1, <4>2, Zenon DEF Channels, TypeOK
    <3>3. /\ clt'.left + cd'.n + sd'.n + Got' = clt.left + cd.n + sd.n + Got /\ Got' = Got
          /\ clt'.left + cd'.n <= clt.left + cd.n /\ clt'.left + cd'.n + Got' <= clt.left + cd.n + Got
          /\ {clt.left + cd.n, clt.left + cd.n + Got} \subseteq Nat
          /\ {clt'.left + cd'.n, clt'.left + cd'.n + Got'} \subseteq Nat
      BY <1>1, <1>2, <2>2, <3>2, SMTT(30) DEF Fields, Got
    <3>4. Bounds'
      BY <1>1, <1>2, <2>1, <2>2, <3>1, <3>3 DEF IInv, Bounds
    <3>5. Uploads'
      <4>1. Plain => px.data = "none"
        BY <1>1, <2>1, <2>4, <3>1, Zenon DEF IInv, Fields, Plain, Address, Refusal, Listens
      <4> QED
        BY <1>1, <1>2, <2>1, <2>2, <2>4, <3>1, <3>2, <3>3, <4>1, ZenonT(60) DEF IInv,
           Fields, Uploads, Plain
    <3>6. TypeOK'
      BY <1>1, <1>2, <2>1, <2>2, <2>4, <3>1, <3>2, SMTT(30) DEF IInv, TypeOK, Clients,
         Channels
    <3>7. Replies'
      BY <1>2, <2>2, <3>2, ZenonT(60) DEF IInv, Replies, Pending
    <3>8. OneCommand'
      BY <1>2, <2>1, <2>2, <3>1, <3>2, Zenon DEF IInv, OneCommand, KeepsFlags
    <3>9. OneOdd'
      BY <1>2, <2>2, <2>4, Zenon DEF IInv, OneOdd
    <3>10. Place'
      BY <1>1, <1>2, <2>1, <2>2, <2>4, <3>1, <3>2, ZenonT(60) DEF IInv, Place, Mine, Over,
         KeepsFlags, Transfers
    <3>11. Refusal'
      BY <1>1, <1>2, <2>2, <2>4, <3>1, <3>2, Zenon DEF IInv, Refusal, Over, KeepsFlags
    <3>12. Address'
      BY <1>1, <1>2, <2>2, <2>4, <3>1, <3>2, ZenonT(60) DEF IInv, Address
    <3>13. Listens'
      BY <1>2, <2>2, <2>4, <3>1, <3>2, Zenon DEF IInv, Listens, KeepsFlags
    <3>14. Unused'
      BY <1>1, <2>1, <2>2, <2>4, <3>1, <3>2, Zenon DEF IInv, Unused, Before, Transfers
    <3>15. Downloads'
      BY <1>2, <2>1, <2>2, <3>1, <3>2, ZenonT(60) DEF IInv, Downloads
    <3> QED
      BY <3>6, <3>7, <3>8, <3>9, <3>10, <3>11, <3>12, <3>13, <3>14, <3>4, <3>5, <3>15, Zenon
         DEF
         IInv
  <2> QED
    BY <1>1, <2>1, <2>3, <2>4, Zenon DEF Fields
<1> QED
  BY <1>3, <1>4, Zenon

(* The client leaves.                                                      *)
LEMMA StepClientLeaves ==
  ASSUME IInv, ClientLeaves
  PROVE  IInv'
<1>1. TypeOK /\ Fields /\ FileSize \in Nat
  BY HasFields, FtpControlAssumption, Zenon DEF IInv
<1>2. /\ px.pc # "end"
      /\ clt' = [clt EXCEPT !.gone = TRUE]
      /\ px' = px /\ lst' = lst /\ srv' = srv /\ c2p' = c2p /\ p2s' = p2s /\ s2p' = s2p
      /\ sent' = sent /\ heard' = heard /\ KeepsFlags
  BY SameFlags, Zenon DEF ClientLeaves
<1>3. /\ clt' \in Clients /\ clt'.gone
      /\ clt'.cmd = clt.cmd /\ clt'.addr = clt.addr /\ clt'.conn = clt.conn
      /\ clt'.fetched = clt.fetched /\ clt'.awaits = clt.awaits /\ clt'.again = clt.again
      /\ clt'.left = clt.left /\ clt'.got = clt.got
  BY <1>1, <1>2, Zenon DEF TypeOK, Clients
<1>4. cd' \in Channels /\ cd'.n = cd.n /\ sd' \in Channels /\ sd'.n = sd.n
  <2> DEFINE c == cd.eof \/ clt.conn = "proxy"
             s == sd.eof \/ (clt.conn = "direct" /\ clt.cmd # "retr")
  <2>1. cd' = [cd EXCEPT !.eof = c] /\ sd' = [sd EXCEPT !.eof = s]
    BY Zenon DEF ClientLeaves
  <2>2. c \in BOOLEAN /\ s \in BOOLEAN
    BY Zenon
  <2> HIDE DEF c, s
  <2> QED
    BY <1>1, <2>1, <2>2, Zenon DEF TypeOK, Channels
<1>5. TypeOK'
  BY <1>1, <1>2, <1>3, <1>4 DEF IInv, TypeOK, Clients, Channels
<1>6. Replies'
  BY <1>2, <1>3, <1>4, Zenon DEF IInv, Replies, Pending
<1>7. OneCommand'
  BY <1>2, <1>3, Zenon DEF IInv, OneCommand, KeepsFlags
<1>8. OneOdd'
  BY <1>2, <1>3, <1>4, Zenon DEF IInv, OneOdd, Usual
<1>9. Place'
  BY <1>1, <1>2, <1>3, <1>4 DEF IInv, Fields, Place, Mine, Over, OneCommand, KeepsFlags,
     Passive, Transfers
<1>10. Refusal'
  BY <1>1, <1>2, <1>3, <1>4, Zenon DEF IInv, Refusal, Over, KeepsFlags
<1>11. Address'
  BY <1>1, <1>2, <1>3, <1>4 DEF IInv, Fields, Address, Mine, Passive, Transfers
<1>12. Listens'
  BY <1>2, <1>3, ZenonT(60) DEF IInv, Listens, KeepsFlags
<1>13. Unused'
  BY <1>1, <1>2, <1>3, <1>4, Zenon DEF IInv, Unused, Before, Linked
<1>14. Bounds'
  BY <1>2, <1>3, <1>4, Zenon DEF IInv, Bounds, Got, Left, Linked
<1>15. Uploads'
  BY <1>2, <1>3, Zenon DEF IInv, Uploads, Plain
<1>16. Downloads'
  BY <1>2, <1>3, Zenon DEF IInv, Downloads
<1> QED
  BY <1>5, <1>6, <1>7, <1>8, <1>9, <1>10, <1>11, <1>12, <1>13, <1>14, <1>15, <1>16, Zenon
     DEF IInv

-----------------------------------------------------------------------------
(* The steps of the relay that do not read from the server.                *)

(* The relay moves on.                                                     *)
LEMMA MovesOn ==
  ASSUME TypeOK, NEW pc \in {"greet", "loop", "pasv", "go", "accept", "data", "held", "final", "end"},
         PxTo(pc)
  PROVE  px' \in Relays /\ PxIs(pc, px.cmd, px.data)
BY ZenonT(60) DEF TypeOK, PxTo, PxIs, Relays

(* A command is taken from the client and passed on.                       *)
LEMMA StepTakeLine ==
  ASSUME IInv, TakeLine
  PROVE  IInv'
<1> DEFINE k == clt.cmd
           to == IF ~srv.up THEN "end"
                 ELSE IF k = "stor" /\ px.data # "none" THEN "accept"
                 ELSE IF k = "retr" THEN "go"
                 ELSE IF k \in {"pasv", "epsv"} /\ px.data = "none" THEN "pasv" ELSE "loop"
<1>1. TypeOK /\ Fields /\ FileSize \in Nat
  BY HasFields, FtpControlAssumption, Zenon DEF IInv
<1>2. /\ px.pc = "loop" /\ c2p = <<k>> /\ p2s = <<>> /\ srv.st = "idle" /\ c2p # <<>>
      /\ ~Announced /\ ~Answered
      /\ clt' = clt /\ lst' = lst /\ srv' = srv /\ s2p' = s2p /\ cd' = cd /\ sd' = sd
      /\ sent' = sent /\ heard' = heard /\ KeepsFlags
  BY SameFlags, Zenon DEF TakeLine, IInv, OneCommand
<1>3. c2p \in Seq(Kinds) /\ k \in Kinds /\ Head(c2p) = k /\ Tail(c2p) = <<>>
  BY <1>1, <1>2 DEF TypeOK
<1>4. /\ c2p' = <<>> /\ p2s' \in Seq(Kinds)
      /\ (srv.up => p2s' = <<k>> /\ p2s' # <<>>) /\ (~srv.up => p2s' = <<>>)
  BY <1>2, <1>3 DEF TakeLine
<1>5. px' = [px EXCEPT !.cmd = k, !.pc = to]
  BY <1>3, Zenon DEF TakeLine
<1>6. /\ ~srv.up => to = "end"
      /\ srv.up /\ k = "stor" /\ px.data # "none" => to = "accept"
      /\ srv.up /\ k = "retr" => to = "go"
      /\ srv.up /\ k \in Passive /\ px.data = "none" => to = "pasv"
      /\ /\ srv.up /\ ~(k = "stor" /\ px.data # "none") /\ k # "retr"
         /\ ~(k \in Passive /\ px.data = "none")
         => to = "loop"
  BY Zenon DEF Passive
<1> HIDE DEF to
<1>7. to \in {"end", "accept", "go", "pasv", "loop"}
  BY <1>6, Zenon
<1>8. px' \in Relays /\ PxIs(to, k, px.data)
  BY <1>1, <1>3, <1>5, <1>7, Zenon DEF TypeOK, Relays, PxIs
<1>9. TypeOK'
  BY <1>1, <1>2, <1>3, <1>4, <1>6, <1>7, <1>8 DEF IInv, TypeOK, Relays
<1>10. Replies'
  BY <1>2, Zenon DEF IInv, Replies, Pending
<1>11. OneCommand'
  BY <1>2, <1>4, <1>6, <1>7, <1>8, Zenon DEF IInv, OneCommand, KeepsFlags
<1>12. OneOdd'
  BY <1>2, <1>4, <1>8, Zenon DEF IInv, OneOdd, PxIs
<1>13. Place'
  <2>1. clt.cmd = "retr" /\ clt.addr # "direct" => px.data # "none"
    BY <1>1, <1>2, <1>4, Zenon DEF IInv, Fields, Address, Mine, Transfers
  <2>2. clt.cmd \in Passive =>
          IF px.data = "none" THEN clt.addr = "none" ELSE clt.again \/ srv.refused
    BY ZenonT(60) DEF IInv, Address
  <2> QED
    BY <1>1, <1>2, <1>3, <1>4, <1>6, <1>7, <1>8, <2>1, <2>2, ZenonT(60) DEF IInv, Place, Mine,
       KeepsFlags, Transfers, PxIs, Refusal
<1>14. Refusal'
  BY <1>2, <1>3, <1>4, <1>6, <1>7, <1>8, ZenonT(60) DEF IInv, Refusal, PxIs
<1>15. Address'
  BY <1>1, <1>2, <1>3, <1>4, <1>6, <1>7, <1>8 DEF IInv, Fields, Address, Mine, Passive,
     Transfers, PxIs
<1>16. Listens'
  BY <1>1, <1>2, <1>3, <1>4, <1>6, <1>7, <1>8, ZenonT(60) DEF IInv, Fields, Listens, KeepsFlags,
     PxIs, Address, Mine
<1>17. Unused'
  BY <1>2, <1>3, <1>4, <1>6, <1>7, <1>8, Zenon DEF IInv, Unused, Before, Linked, PxIs
<1>18. Bounds'
  BY <1>2, <1>3, <1>4, <1>6, <1>7, <1>8, Zenon DEF IInv, Bounds, Got, Left, Linked, PxIs
<1>19. Uploads'
  BY <1>1, <1>2, <1>4, <1>6, <1>7, <1>8, Zenon DEF IInv, Uploads, Plain, Got, PxIs
<1>20. Downloads'
  BY <1>2, <1>6, <1>7, <1>8, Zenon DEF IInv, Downloads, KeepsFlags, PxIs
<1> QED
  BY <1>9, <1>10, <1>11, <1>12, <1>13, <1>14, <1>15, <1>16, <1>17, <1>18, <1>19, <1>20,
     Zenon DEF
     IInv

(* The data channel is accepted, and connected to the server's.            *)
LEMMA StepAcceptConnect ==
  ASSUME IInv, AcceptConnect
  PROVE  IInv'
<1> DEFINE ok == px.data = "server" /\ srv.up /\ srv.lis
           to == IF ok THEN "data" ELSE IF px.cmd = "stor" THEN "loop" ELSE "final"
<1>1. TypeOK /\ Fields /\ FileSize \in Nat \ {0}
  BY HasFields, FtpControlAssumption, Zenon DEF IInv
<1>2. /\ px.pc = "accept" /\ lst = "queued" /\ lst' = "none" /\ sd' = NoData
      /\ srv' = [srv EXCEPT !.conn = ok] /\ px' = [px EXCEPT !.data = "none", !.pc = to]
      /\ clt' = clt /\ c2p' = c2p /\ p2s' = p2s /\ s2p' = s2p /\ cd' = cd
      /\ sent' = sent /\ heard' = heard /\ KeepsFlags
  BY SameFlags, Zenon DEF AcceptConnect
<1>3. sd' \in Channels /\ sd'.n = 0 /\ ~sd'.eof
  BY <1>1, <1>2 DEF Channels, NoData
<1>4. ok \in BOOLEAN /\ to \in {"data", "loop", "final"}
  BY Zenon
<1> HIDE DEF ok, to
<1>5. /\ srv' \in Servers /\ srv'.conn = ok /\ srv'.stored = srv.stored /\ KeepsServer
      /\ px' \in Relays /\ PxIs(to, px.cmd, "none")
  BY <1>1, <1>2, <1>4, ZenonT(60) DEF TypeOK, Servers, Relays, PxIs, KeepsServer
<1>6. (Mine /\ clt.cmd = px.cmd /\ c2p = <<>> /\ px.cmd \in Transfers)
      \/ (clt.addr = "none" /\ ~srv.lis /\ clt.cmd \notin Transfers)
  BY <1>1, <1>2, Zenon DEF IInv, Place, Mine, Over, Address
<1>7. /\ clt.addr = "proxy" => clt.conn = "proxy"
      /\ ok => /\ px.cmd = clt.cmd /\ Mine /\ clt.addr # "none" /\ ~srv.refused
               /\ ~clt.again => clt.addr = "proxy"
  BY <1>1, <1>2, <1>6, Zenon DEF IInv, Address, Fields, Refusal, ok, Transfers
<1>8. Address'
  <2>1. Mine' <=> Mine
    BY <1>2, <1>5, Zenon DEF Mine, PxIs
  <2>2. px'.pc = "data" => ok
    BY <1>5, Zenon DEF PxIs, to
  <2> QED
    BY <1>1, <1>2, <1>5, <1>6, <1>7, <2>1, <2>2, ZenonT(60) 
       DEF IInv, Address, PxIs, Fields, Passive, Transfers, KeepsServer
<1>9. Listens'
  BY <1>2, <1>5, <1>7, ZenonT(60) DEF IInv, Listens, PxIs, ok, to, KeepsServer, KeepsFlags
<1>10. Downloads'
  <2>1. clt.cmd = "retr" /\ clt.addr = "proxy" => px.cmd = "retr"
    BY <1>6, Zenon
  <2>2. srv.up /\ ~clt.gone /\ clt.cmd = "retr" /\ clt.addr = "proxy" =>
          px.data # "none" /\ clt.got = 0 /\ (srv.st = "retr" => srv.left = FileSize) /\ ~Complete
    BY <1>1, <1>2 DEF IInv, Downloads, Place
  <2>3. srv.up => clt.fetched = FileSize
    BY Zenon DEF IInv, Downloads
  <2>4. srv'.conn => px'.pc = "data"
    BY <1>5, Zenon DEF PxIs, to
  <2> QED
    BY <1>1, <1>2, <1>3, <1>5, <2>1, <2>2, <2>3, <2>4 DEF Downloads, KeepsFlags,
       KeepsServer, PxIs
<1>11. TypeOK'
  BY <1>1, <1>2, <1>3, <1>5 DEF IInv, TypeOK, Relays, Servers, Channels
<1>12. Replies'
  BY <1>2, <1>5, Zenon DEF IInv, Replies, Pending
<1>13. OneCommand'
  BY <1>1, <1>2, <1>5, Zenon DEF IInv, OneCommand, KeepsFlags, KeepsServer
<1>14. OneOdd'
  BY <1>2, <1>3, <1>5, ZenonT(60) DEF IInv, OneOdd, KeepsServer, PxIs
<1>15. Place'
  BY <1>1, <1>2, <1>3, <1>5 DEF IInv, Fields, Place, Mine, Over, OneCommand, KeepsFlags,
     Passive, Transfers, KeepsServer, PxIs, ok, to
<1>16. Refusal'
  BY <1>1, <1>2, <1>3, <1>5, Zenon DEF IInv, Refusal, Over, KeepsFlags, KeepsServer, PxIs,
     ok, to, Place
<1>17. Unused'
  BY <1>1, <1>2, <1>3, <1>5, Zenon DEF IInv, Unused
<1>18. Bounds'
  BY <1>1, <1>2, <1>3, <1>5, SMTT(30) DEF IInv, Fields, Bounds, Got, Left, Linked,
     Transfers, KeepsServer, PxIs, ok, to
<1>19. Uploads'
  BY <1>1, <1>2, <1>3, <1>5 DEF IInv, Fields, Uploads, Plain, Got, KeepsServer, PxIs, ok, to
<1> QED
  BY <1>11, <1>12, <1>13, <1>14, <1>15, <1>16, <1>8, <1>9, <1>17, <1>18, <1>19, <1>10, Zenon
     DEF
     IInv

(* A chunk of an upload, or its end, is passed on.                         *)
LEMMA StepUploadData ==
  ASSUME IInv, UploadData
  PROVE  IInv'
<1>1. TypeOK /\ Fields /\ FileSize \in Nat
  BY HasFields, FtpControlAssumption, Zenon DEF IInv
<1>2. /\ px.pc = "data" /\ px.cmd = "stor"
      /\ clt' = clt /\ lst' = lst /\ srv' = srv /\ c2p' = c2p /\ p2s' = p2s /\ s2p' = s2p
      /\ sent' = sent /\ heard' = heard /\ KeepsFlags
  BY SameFlags, Zenon DEF UploadData
<1>3. clt.cmd = "stor" /\ Mine /\ px.data = "none"
  BY <1>2, Zenon DEF IInv, Place, Mine
<1>4. CASE /\ cd.n > 0 /\ srv.conn /\ px' = px
           /\ cd' = [cd EXCEPT !.n = @ - 1] /\ sd' = [sd EXCEPT !.n = @ + 1]
  <2>1. cd.n - 1 \in 0 .. FileSize /\ sd.n + 1 \in 0 .. FileSize
    BY <1>1, <1>3, <1>4 DEF Fields, IInv, Bounds, Got
  <2>2. /\ cd' \in Channels /\ cd'.n = cd.n - 1 /\ cd'.eof = cd.eof
        /\ sd' \in Channels /\ sd'.n = sd.n + 1 /\ sd'.eof = sd.eof
    BY <1>1, <1>4, <2>1, Zenon DEF TypeOK, Channels
  <2>3. /\ clt.left + cd'.n + sd'.n + Got' = clt.left + cd.n + sd.n + Got /\ Got' = Got
        /\ clt.left + cd'.n <= FileSize /\ clt.left + cd'.n + Got' <= FileSize
    BY <1>1, <1>2, <1>3, <2>1, <2>2 DEF IInv, Bounds, Fields, Got
  <2>4. Bounds'
    BY <1>2, <1>3, <2>3, Zenon DEF IInv, Bounds
  <2>5. Uploads'
    BY <1>1, <1>2, <1>3, <1>4, <2>2, <2>3, SMTT(30) DEF IInv, Fields, Uploads, Plain,
       Address
  <2>6. TypeOK'
    BY <1>1, <1>2, <1>3, <1>4, <2>2 DEF IInv, TypeOK, Channels
  <2>7. Replies'
    BY <1>2, <1>4, Zenon DEF IInv, Replies, Pending
  <2>8. OneCommand'
    BY <1>2, <1>3, Zenon DEF IInv, OneCommand, KeepsFlags
  <2>9. OneOdd'
    BY <1>2, <1>4, <2>2, Zenon DEF IInv, OneOdd
  <2>10. Place'
    BY <1>1, <1>2, <1>3, <1>4, <2>2, ZenonT(60) DEF IInv, Place, Mine, Transfers
  <2>11. Refusal'
    BY <1>1, <1>2, <1>4, <2>2, Zenon DEF IInv, Refusal
  <2>12. Address'
    BY <1>1, <1>2, <1>4, <2>2, Zenon DEF IInv, Address, Mine
  <2>13. Listens'
    BY <1>2, <1>4, <2>2, Zenon DEF IInv, Listens, KeepsFlags
  <2>14. Unused'
    BY <1>1, <1>2, <1>3, <1>4, <2>2, Zenon DEF IInv, Unused, Before, Transfers
  <2>15. Downloads'
    BY <1>2, <1>3, ZenonT(60) DEF IInv, Downloads
  <2> QED
    BY <2>6, <2>7, <2>8, <2>9, <2>10, <2>11, <2>12, <2>13, <2>14, <2>4, <2>5, <2>15, Zenon
       DEF IInv
<1>5. CASE /\ (cd.n = 0 /\ cd.eof) \/ ~srv.conn
           /\ sd' = [sd EXCEPT !.eof = TRUE] /\ PxTo("final") /\ cd' = cd
  <2>1. /\ sd' \in Channels /\ sd'.n = sd.n /\ sd'.eof
        /\ px' \in Relays /\ PxIs("final", px.cmd, px.data)
    BY <1>1, <1>5, MovesOn, Zenon DEF TypeOK, Channels
  <2>2. TypeOK'
    BY <1>1, <1>2, <1>3, <1>5, <2>1 DEF IInv, TypeOK, Relays, Channels
  <2>3. Replies'
    BY <1>2, <1>5, Zenon DEF IInv, Replies, Pending
  <2>4. OneCommand'
    BY <1>2, <2>1, Zenon DEF IInv, OneCommand, KeepsFlags
  <2>5. OneOdd'
    BY <1>2, <1>5, <2>1, Zenon DEF IInv, OneOdd, PxIs
  <2>6. Place'
    BY <1>1, <1>2, <1>3, <1>5, <2>1, Zenon DEF IInv, Place, Mine, Transfers, PxIs
  <2>7. Refusal'
    BY <1>2, <1>3, <1>5, <2>1, Zenon DEF IInv, Refusal, PxIs
  <2>8. Address'
    BY <1>2, <1>3, <1>5, <2>1, Zenon DEF IInv, Address, Mine, PxIs
  <2>9. Listens'
    BY <1>1, <1>2, <1>5, <2>1, Zenon DEF IInv, Listens, KeepsFlags, PxIs
  <2>10. Unused'
    BY <1>2, <1>3, <1>5, <2>1, Zenon DEF IInv, Unused, Before, Transfers, PxIs
  <2>11. Bounds'
    BY <1>2, <1>3, <1>5, <2>1, Zenon DEF IInv, Bounds, Got
  <2>12. Uploads'
    BY <1>1, <1>2, <1>5, <2>1, ZenonT(60) DEF IInv, Uploads, Plain, Got, PxIs
  <2>13. Downloads'
    BY <1>2, <1>3, <2>1, Zenon DEF IInv, Downloads
  <2> QED
    BY <2>2, <2>3, <2>4, <2>5, <2>6, <2>7, <2>8, <2>9, <2>10, <2>11, <2>12, <2>13, Zenon DEF
       IInv
<1> QED
  BY <1>4, <1>5, Zenon DEF UploadData

(* The fallback stops an upload at an idle tick.                           *)
LEMMA StepFallbackStops ==
  ASSUME IInv, FallbackStops
  PROVE  IInv'
<1>1. TypeOK /\ Fields /\ FileSize \in Nat
  BY HasFields, FtpControlAssumption, Zenon DEF IInv
<1>2. /\ px.pc = "data" /\ px.cmd = "stor"
      /\ clt' = clt /\ lst' = lst /\ srv' = srv /\ c2p' = c2p /\ p2s' = p2s /\ s2p' = s2p
      /\ sent' = sent /\ heard' = heard /\ cd' = cd /\ KeepsFlags
  BY SameFlags, Zenon DEF FallbackStops
<1>3. clt.cmd = "stor" /\ Mine /\ px.data = "none"
  BY <1>2, Zenon DEF IInv, Place, Mine
<1>4. /\ sd' \in Channels /\ sd'.n = sd.n /\ sd'.eof
      /\ px' \in Relays /\ px'.pc = "final" /\ px'.cmd = px.cmd /\ px'.data = px.data
      /\ px'.nolst = px.nolst /\ px'.cut
  BY <1>1, ZenonT(60) DEF FallbackStops, TypeOK, Channels, Relays
<1>5. TypeOK'
  BY <1>1, <1>2, <1>3, <1>4 DEF IInv, TypeOK, Relays, Channels
<1>6. Replies'
  BY <1>2, Zenon DEF IInv, Replies, Pending
<1>7. OneCommand'
  BY <1>2, <1>4, Zenon DEF IInv, OneCommand, KeepsFlags
<1>8. OneOdd'
  BY <1>2, <1>4, Zenon DEF IInv, OneOdd
<1>9. Place'
  BY <1>1, <1>2, <1>3, <1>4, Zenon DEF IInv, Place, Mine, Transfers
<1>10. Refusal'
  BY <1>2, <1>3, <1>4, Zenon DEF IInv, Refusal
<1>11. Address'
  BY <1>2, <1>3, <1>4, Zenon DEF IInv, Address, Mine
<1>12. Listens'
  BY <1>1, <1>2, <1>4, Zenon DEF IInv, Listens, KeepsFlags
<1>13. Unused'
  BY <1>2, <1>3, <1>4, Zenon DEF IInv, Unused, Before, Transfers
<1>14. Bounds'
  BY <1>2, <1>3, <1>4, Zenon DEF IInv, Bounds, Got
<1>15. Uploads'
  BY <1>1, <1>2, <1>4, ZenonT(60) DEF IInv, Uploads, Plain, Got
<1>16. Downloads'
  BY <1>2, <1>3, <1>4, Zenon DEF IInv, Downloads
<1> QED
  BY <1>5, <1>6, <1>7, <1>8, <1>9, <1>10, <1>11, <1>12, <1>13, <1>14, <1>15, <1>16, Zenon DEF
     IInv

(* The ICAP server holds an upload.                                        *)
LEMMA StepIcapHolds ==
  ASSUME IInv, IcapHolds
  PROVE  IInv'
<1>1. TypeOK /\ Fields /\ FileSize \in Nat
  BY HasFields, FtpControlAssumption, Zenon DEF IInv
<1>2. /\ px.pc = "data" /\ px.cmd = "stor"
      /\ clt' = clt /\ lst' = lst /\ srv' = srv /\ c2p' = c2p /\ p2s' = p2s /\ s2p' = s2p
      /\ sent' = sent /\ heard' = heard /\ cd' = cd /\ sd' = sd /\ KeepsFlags
  BY SameFlags, Zenon DEF IcapHolds
<1>3. clt.cmd = "stor" /\ Mine /\ px.data = "none"
  BY <1>2, Zenon DEF IInv, Place, Mine
<1>4. px' \in Relays /\ PxIs("held", px.cmd, px.data)
  BY <1>1, MovesOn, Zenon DEF IcapHolds
<1>5. TypeOK'
  BY <1>1, <1>2, <1>3, <1>4 DEF IInv, TypeOK, Relays, Channels
<1>6. Replies'
  BY <1>2, Zenon DEF IInv, Replies, Pending
<1>7. OneCommand'
  BY <1>2, <1>4, Zenon DEF IInv, OneCommand, KeepsFlags
<1>8. OneOdd'
  BY <1>2, <1>4, Zenon DEF IInv, OneOdd, PxIs
<1>9. Place'
  BY <1>1, <1>2, <1>3, <1>4, Zenon DEF IInv, Place, Mine, Transfers, PxIs
<1>10. Refusal'
  BY <1>2, <1>3, <1>4, Zenon DEF IInv, Refusal, PxIs
<1>11. Address'
  BY <1>2, <1>3, <1>4, Zenon DEF IInv, Address, Mine, PxIs
<1>12. Listens'
  BY <1>1, <1>2, <1>4, Zenon DEF IInv, Listens, KeepsFlags, PxIs
<1>13. Unused'
  BY <1>2, <1>3, <1>4, Zenon DEF IInv, Unused, Before, Transfers, PxIs
<1>14. Bounds'
  BY <1>2, <1>3, <1>4, Zenon DEF IInv, Bounds, Got
<1>15. Uploads'
  BY <1>1, <1>2, <1>4, ZenonT(60) DEF IInv, Uploads, Plain, Got, PxIs
<1>16. Downloads'
  BY <1>2, <1>3, <1>4, Zenon DEF IInv, Downloads
<1> QED
  BY <1>5, <1>6, <1>7, <1>8, <1>9, <1>10, <1>11, <1>12, <1>13, <1>14, <1>15, <1>16, Zenon DEF
     IInv

(* A chunk of a download, or its end, is passed on.                        *)
LEMMA StepDownloadData ==
  ASSUME IInv, DownloadData
  PROVE  IInv'
<1>1. TypeOK /\ Fields /\ FileSize \in Nat
  BY HasFields, FtpControlAssumption, Zenon DEF IInv
<1>2. /\ px.pc = "data" /\ px.cmd = "retr"
      /\ lst' = lst /\ c2p' = c2p /\ p2s' = p2s /\ s2p' = s2p /\ cd' = cd
      /\ sent' = sent /\ heard' = heard /\ KeepsFlags
  BY SameFlags, Zenon DEF DownloadData
<1>3. clt.cmd = "retr" /\ Mine /\ px.data = "none" /\ c2p = <<>> /\ p2s = <<>>
  BY <1>2, Zenon DEF IInv, Place, Mine
<1>4. CASE /\ sd.n > 0 /\ sd' = [sd EXCEPT !.n = @ - 1] /\ clt' = [clt EXCEPT !.got = @ + 1]
           /\ px' = px /\ srv' = srv
  <2>1. clt.got + sd.n + Left <= FileSize
    BY <1>2, <1>3, Zenon DEF IInv, Bounds
  <2>2. sd.n - 1 \in 0 .. FileSize /\ clt.got + 1 \in 0 .. FileSize
    BY <1>1, <1>4, <2>1 DEF Fields, Left
  <2>3. sd' \in Channels /\ sd'.n = sd.n - 1 /\ sd'.eof = sd.eof
    BY <1>1, <1>4, <2>2, Zenon DEF TypeOK, Channels
  <2>4. /\ clt' \in Clients /\ clt'.got = clt.got + 1
        /\ clt'.cmd = clt.cmd /\ clt'.addr = clt.addr /\ clt'.conn = clt.conn
        /\ clt'.fetched = clt.fetched /\ clt'.awaits = clt.awaits /\ clt'.again = clt.again
        /\ clt'.gone = clt.gone /\ clt'.left = clt.left
    BY <1>1, <1>4, <2>2, Zenon DEF TypeOK, Clients
  <2>5. /\ clt'.got + sd'.n = clt.got + sd.n /\ Got' = Got /\ Left' = Left
        /\ clt'.got + Left' <= FileSize
    BY <1>1, <1>4, <2>1, <2>3, <2>4 DEF Fields, Left, Got
  <2>6. Bounds'
    BY <1>2, <1>3, <2>1, <2>4, <2>5, Zenon DEF IInv, Bounds
  <2>7. Downloads'
    BY <1>2, <1>3, <1>4, <2>3, <2>4, <2>5, ZenonT(60) DEF IInv, Downloads, KeepsFlags
  <2>8. TypeOK'
    BY <1>1, <1>2, <1>3, <1>4, <2>3, <2>4 DEF IInv, TypeOK, Clients, Channels
  <2>9. Replies'
    BY <1>2, <1>4, <2>4, Zenon DEF IInv, Replies, Pending
  <2>10. OneCommand'
    BY <1>2, <1>3, <1>4, <2>4, Zenon DEF IInv, OneCommand, KeepsFlags
  <2>11. OneOdd'
    BY <1>4, <2>3, <2>4, Zenon DEF IInv, OneOdd
  <2>12. Place'
    BY <1>1, <1>2, <1>3, <1>4, <2>3, <2>4, Zenon DEF IInv, Place, Mine, Transfers
  <2>13. Refusal'
    BY <1>1, <1>2, <1>4, <2>3, <2>4, ZenonT(60) DEF IInv, Refusal
  <2>14. Address'
    BY <1>1, <1>2, <1>3, <1>4, <2>3, <2>4, ZenonT(60) DEF IInv, Address, Mine
  <2>15. Listens'
    BY <1>2, <1>4, <2>3, <2>4, Zenon DEF IInv, Listens, KeepsFlags
  <2>16. Unused'
    BY <1>1, <1>2, <1>3, <1>4, <2>3, <2>4, ZenonT(60) DEF IInv, Unused, Before, Transfers
  <2>17. Uploads'
    BY <1>2, <1>3, <1>4, <2>3, <2>4, ZenonT(60) DEF IInv, Uploads, Plain
  <2> QED
    BY <2>8, <2>9, <2>10, <2>11, <2>12, <2>13, <2>14, <2>15, <2>16, <2>6, <2>17, <2>7, Zenon
       DEF
       IInv
<1>5. CASE sd.n = 0 /\ (sd.eof \/ ~srv.conn) /\ PxTo("final") /\ sd' = sd /\ clt' = clt /\ srv' = srv
  <2>1. px' \in Relays /\ PxIs("final", px.cmd, px.data)
    BY <1>1, <1>5, MovesOn, Zenon
  <2>2. TypeOK'
    BY <1>1, <1>2, <1>3, <1>5, <2>1 DEF IInv, TypeOK, Relays
  <2>3. Replies'
    BY <1>2, <1>5, Zenon DEF IInv, Replies, Pending
  <2>4. OneCommand'
    BY <1>2, <1>5, <2>1, Zenon DEF IInv, OneCommand, KeepsFlags
  <2>5. OneOdd'
    BY <1>5, <2>1, Zenon DEF IInv, OneOdd, PxIs
  <2>6. Place'
    BY <1>1, <1>2, <1>3, <1>5, <2>1, Zenon DEF IInv, Place, Mine, Transfers, PxIs
  <2>7. Refusal'
    BY <1>2, <1>3, <1>5, <2>1, Zenon DEF IInv, Refusal, PxIs
  <2>8. Address'
    BY <1>2, <1>3, <1>5, <2>1, Zenon DEF IInv, Address, Mine, PxIs
  <2>9. Listens'
    BY <1>1, <1>2, <1>5, <2>1, Zenon DEF IInv, Listens, KeepsFlags, PxIs
  <2>10. Unused'
    BY <1>2, <1>3, <1>5, <2>1, Zenon DEF IInv, Unused, Before, Transfers, PxIs
  <2>11. Bounds'
    BY <1>2, <1>3, <1>5, <2>1, Zenon DEF IInv, Bounds, Left
  <2>12. Uploads'
    BY <1>1, <1>3, <1>5, <2>1, Zenon DEF IInv, Uploads, Plain, PxIs
  <2>13. Downloads'
    BY <1>2, <1>5, <2>1, ZenonT(60) DEF IInv, Downloads, KeepsFlags, PxIs
  <2> QED
    BY <2>2, <2>3, <2>4, <2>5, <2>6, <2>7, <2>8, <2>9, <2>10, <2>11, <2>12, <2>13, Zenon DEF
       IInv
<1>6. CASE /\ sd.n > 0 /\ clt.gone /\ sd' = NoData
           /\ srv' = [srv EXCEPT !.conn = FALSE] /\ PxTo("final") /\ clt' = clt
  <2>1. /\ sd' \in Channels /\ sd'.n = 0 /\ ~sd'.eof
        /\ px' \in Relays /\ PxIs("final", px.cmd, px.data)
    BY <1>1, <1>6, MovesOn DEF NoData, Channels
  <2>2. srv' \in Servers /\ ~srv'.conn /\ srv'.stored = srv.stored /\ KeepsServer
    BY <1>1, <1>6, Zenon DEF TypeOK, Servers, KeepsServer
  <2>3. TypeOK'
    BY <1>1, <1>2, <1>3, <1>6, <2>1, <2>2 DEF IInv, TypeOK, Relays, Servers, Channels
  <2>4. Replies'
    BY <1>2, <1>6, Zenon DEF IInv, Replies, Pending
  <2>5. OneCommand'
    BY <1>1, <1>2, <1>6, <2>1, <2>2, Zenon DEF IInv, OneCommand, KeepsFlags, KeepsServer
  <2>6. OneOdd'
    BY <1>3, <1>6, <2>1, <2>2, Zenon DEF IInv, OneOdd, KeepsServer, PxIs
  <2>7. Place'
    BY <1>1, <1>2, <1>3, <1>6, <2>1, <2>2, Zenon DEF IInv, Place, Mine, Passive, PxIs
  <2>8. Refusal'
    BY <1>2, <1>3, <1>6, <2>1, <2>2, ZenonT(60) DEF IInv, Refusal, KeepsServer
  <2>9. Address'
    BY <1>2, <1>3, <1>6, <2>1, <2>2, ZenonT(60) DEF IInv, Address, Mine, PxIs
  <2>10. Listens'
    BY <1>2, <1>3, <1>6, <2>1, <2>2, Zenon DEF IInv, Listens, KeepsFlags, KeepsServer, PxIs
  <2>11. Unused'
    BY <1>2, <1>3, <1>6, <2>1, <2>2, Zenon DEF IInv, Unused
  <2>12. Bounds'
    BY <1>1, <1>2, <1>3, <1>6, <2>1, <2>2 DEF IInv, Fields, Bounds, Got, Left, Linked,
       Transfers, KeepsServer, PxIs
  <2>13. Uploads'
    BY <1>3, <1>6, <2>1, <2>2, Zenon DEF IInv, Uploads, Plain, PxIs
  <2>14. Downloads'
    BY <1>1, <1>6, <2>1, <2>2, Zenon DEF IInv, Downloads, KeepsServer
  <2> QED
    BY <2>3, <2>4, <2>5, <2>6, <2>7, <2>8, <2>9, <2>10, <2>11, <2>12, <2>13, <2>14, Zenon
       DEF IInv
<1> QED
  BY <1>4, <1>5, <1>6, Zenon DEF DownloadData

(* The session, or a data channel, is idle for too long.                   *)
LEMMA StepIdleQuit ==
  ASSUME IInv, IdleQuit
  PROVE  IInv'
<1> DEFINE e == sd.eof \/ px.pc = "data"
<1>1. TypeOK /\ Fields /\ FileSize \in Nat
  BY HasFields, FtpControlAssumption, Zenon DEF IInv
<1>2. /\ sd' = [sd EXCEPT !.eof = e]
      /\ clt' = clt /\ lst' = lst /\ srv' = srv /\ c2p' = c2p /\ p2s' = p2s /\ s2p' = s2p /\ cd' = cd
      /\ sent' = sent /\ heard' = heard /\ KeepsFlags
  BY SameFlags, Zenon DEF IdleQuit
<1>3. sd' \in Channels /\ sd'.n = sd.n /\ sd'.eof = e
  <2>1. e \in BOOLEAN
    BY Zenon
  <2> HIDE DEF e
  <2> QED
    BY <1>1, <1>2, <2>1, Zenon DEF TypeOK, Channels
<1>4. CASE px.pc = "loop" /\ c2p = <<>> /\ s2p = <<>>
  <2>1. px' \in Relays /\ PxIs("end", px.cmd, px.data)
    BY <1>1, <1>4, MovesOn, Zenon DEF IdleQuit
  <2>2. sd'.eof <=> sd.eof
    BY <1>3, <1>4, Zenon
  <2>3. TypeOK'
    BY <1>1, <1>2, <1>3, <1>4, <2>1, <2>2 DEF IInv, TypeOK, Relays, Channels
  <2>4. Replies'
    BY <1>2, <1>4, <2>1, Zenon DEF IInv, Replies, Pending
  <2>5. OneCommand'
    BY <1>2, <2>1, <2>2, Zenon DEF IInv, OneCommand, KeepsFlags
  <2>6. OneOdd'
    BY <1>2, <1>4, <2>1, Zenon DEF IInv, OneOdd, PxIs
  <2>7. Place'
    BY <1>1, <1>2, <1>3, <1>4, <2>1, <2>2, Zenon DEF IInv, Place, Transfers, PxIs
  <2>8. Refusal'
    BY <1>2, <1>3, <1>4, <2>1, <2>2, Zenon DEF IInv, Refusal, PxIs
  <2>9. Address'
    BY <1>2, <1>3, <1>4, <2>1, <2>2, ZenonT(60) DEF IInv, Address, Mine, PxIs
  <2>10. Listens'
    BY <1>1, <1>2, <1>4, <2>1, <2>2, Zenon DEF IInv, Listens, KeepsFlags, PxIs
  <2>11. Unused'
    BY <1>2, <1>3, <1>4, <2>1, <2>2, ZenonT(60) DEF IInv, Unused, Before, Linked, PxIs
  <2>12. Bounds'
    BY <1>2, <1>3, <1>4, <2>1, <2>2, Zenon DEF IInv, Bounds, Got, Left, Linked, PxIs
  <2>13. Uploads'
    BY <1>1, <1>2, <1>3, <1>4, <2>1, <2>2, ZenonT(60) DEF IInv, Uploads, Plain, Got, PxIs
  <2>14. Downloads'
    BY <1>2, <1>4, <2>1, <2>2, Zenon DEF IInv, Downloads, KeepsFlags, PxIs
  <2> QED
    BY <2>3, <2>4, <2>5, <2>6, <2>7, <2>8, <2>9, <2>10, <2>11, <2>12, <2>13, <2>14, Zenon
       DEF IInv
<1>5. CASE px.pc = "data" /\ px.cmd = "stor" /\ cd = NoData /\ ~MaySend
  <2>1. px' \in Relays /\ PxIs("final", px.cmd, px.data)
    BY <1>1, <1>5, MovesOn, Zenon DEF IdleQuit
  <2>2. clt.cmd = "stor" /\ Mine /\ px.data = "none" /\ ~Plain
    BY <1>1, <1>5, Zenon DEF IInv, Fields, Place, Mine, MaySend, Plain, Address
  <2>3. TypeOK'
    BY <1>1, <1>2, <1>3, <1>5, <2>1, <2>2 DEF IInv, TypeOK, Relays, Channels
  <2>4. Replies'
    BY <1>2, <1>5, Zenon DEF IInv, Replies, Pending
  <2>5. OneCommand'
    BY <1>2, <2>1, <2>2, Zenon DEF IInv, OneCommand, KeepsFlags
  <2>6. OneOdd'
    BY <1>2, <1>5, <2>1, Zenon DEF IInv, OneOdd, PxIs
  <2>7. Place'
    BY <1>1, <1>2, <1>3, <1>5, <2>1, <2>2, Zenon DEF IInv, Place, Mine, Transfers, PxIs
  <2>8. Refusal'
    BY <1>2, <1>3, <1>5, <2>1, <2>2, Zenon DEF IInv, Refusal, PxIs
  <2>9. Address'
    BY <1>2, <1>3, <1>5, <2>1, <2>2, Zenon DEF IInv, Address, Mine, PxIs
  <2>10. Listens'
    BY <1>1, <1>2, <1>5, <2>1, <2>2, Zenon DEF IInv, Listens, KeepsFlags, PxIs
  <2>11. Unused'
    BY <1>2, <1>3, <1>5, <2>1, <2>2, Zenon DEF IInv, Unused, Before, Transfers, PxIs
  <2>12. Bounds'
    BY <1>2, <1>3, <1>5, <2>1, <2>2, Zenon DEF IInv, Bounds, Got
  <2>13. Uploads'
    BY <1>1, <1>2, <1>5, <2>1, <2>2, Zenon DEF IInv, Uploads, Plain, PxIs
  <2>14. Downloads'
    BY <1>2, <2>1, <2>2, ZenonT(60) DEF IInv, Downloads
  <2> QED
    BY <2>3, <2>4, <2>5, <2>6, <2>7, <2>8, <2>9, <2>10, <2>11, <2>12, <2>13, <2>14, Zenon
       DEF IInv
<1>6. CASE px.pc = "data" /\ px.cmd = "retr" /\ sd = NoData /\ srv.st # "retr" /\ p2s = <<>>
  <2>1. px' \in Relays /\ PxIs("final", px.cmd, px.data)
    BY <1>1, <1>6, MovesOn, Zenon DEF IdleQuit
  <2>2. clt.cmd = "retr" /\ Mine /\ px.data = "none" /\ c2p = <<>> /\ sd.n = 0
    BY <1>6, Zenon DEF IInv, Place, Mine, NoData
  <2>3. TypeOK'
    BY <1>1, <1>2, <1>3, <1>6, <2>1, <2>2 DEF IInv, TypeOK, Relays, Channels
  <2>4. Replies'
    BY <1>2, <1>6, Zenon DEF IInv, Replies, Pending
  <2>5. OneCommand'
    BY <1>2, <1>6, <2>1, <2>2, Zenon DEF IInv, OneCommand
  <2>6. OneOdd'
    BY <1>2, <1>6, <2>1, Zenon DEF IInv, OneOdd, PxIs
  <2>7. Place'
    BY <1>1, <1>2, <1>3, <1>6, <2>1, <2>2, Zenon DEF IInv, Place, Mine, Transfers, PxIs
  <2>8. Refusal'
    BY <1>2, <1>3, <1>6, <2>1, <2>2, Zenon DEF IInv, Refusal, PxIs
  <2>9. Address'
    BY <1>2, <1>3, <1>6, <2>1, <2>2, Zenon DEF IInv, Address, Mine, PxIs
  <2>10. Listens'
    BY <1>1, <1>2, <1>6, <2>1, <2>2, Zenon DEF IInv, Listens, KeepsFlags, PxIs
  <2>11. Unused'
    BY <1>2, <1>3, <1>6, <2>1, <2>2, Zenon DEF IInv, Unused, Before, Transfers, PxIs
  <2>12. Bounds'
    BY <1>2, <1>3, <1>6, <2>1, <2>2, Zenon DEF IInv, Bounds, Left
  <2>13. Uploads'
    BY <1>1, <1>2, <1>6, <2>1, <2>2, Zenon DEF IInv, Uploads, Plain, PxIs
  <2>14. Downloads'
    BY <1>2, <1>6, <2>1, <2>2, ZenonT(60) DEF IInv, Downloads, KeepsFlags, PxIs
  <2> QED
    BY <2>3, <2>4, <2>5, <2>6, <2>7, <2>8, <2>9, <2>10, <2>11, <2>12, <2>13, <2>14, Zenon
       DEF IInv
<1> QED
  BY <1>4, <1>5, <1>6, Zenon DEF IdleQuit

(* The session ends.                                                       *)
LEMMA StepSessionEnds ==
  ASSUME IInv, SessionEnds
  PROVE  IInv'
<1>1. TypeOK /\ Fields /\ FileSize \in Nat
  BY HasFields, FtpControlAssumption, Zenon DEF IInv
<1>2. /\ px.pc = "loop" /\ c2p = <<>> /\ PxTo("end")
      /\ clt' = clt /\ lst' = lst /\ srv' = srv /\ c2p' = c2p /\ p2s' = p2s /\ s2p' = s2p /\ cd' = cd
      /\ sd' = sd /\ sent' = sent /\ heard' = heard /\ KeepsFlags
  BY SameFlags, Zenon DEF SessionEnds
<1>3. px' \in Relays /\ PxIs("end", px.cmd, px.data)
  BY <1>1, <1>2, MovesOn, Zenon
<1>4. TypeOK'
  BY <1>1, <1>2, <1>3 DEF IInv, TypeOK, Relays
<1>5. Replies'
  BY <1>2, Zenon DEF IInv, Replies, Pending
<1>6. OneCommand'
  BY <1>2, Zenon DEF IInv, OneCommand, KeepsFlags
<1>7. OneOdd'
  BY <1>2, <1>3, Zenon DEF IInv, OneOdd, PxIs
<1>8. Place'
  BY <1>1, <1>2, <1>3, ZenonT(60) DEF IInv, Place, Transfers, PxIs
<1>9. Refusal'
  BY <1>2, <1>3, Zenon DEF IInv, Refusal, PxIs
<1>10. Address'
  BY <1>2, <1>3, ZenonT(60) DEF IInv, Address, Mine, PxIs
<1>11. Listens'
  BY <1>1, <1>2, <1>3, ZenonT(60) DEF IInv, Listens, KeepsFlags, PxIs
<1>12. Unused'
  BY <1>2, <1>3, Zenon DEF IInv, Unused, Before, Linked, PxIs
<1>13. Bounds'
  BY <1>2, <1>3, Zenon DEF IInv, Bounds, Got, Left, Linked, PxIs
<1>14. Uploads'
  BY <1>1, <1>2, <1>3, Zenon DEF IInv, Uploads, Plain, Got, PxIs
<1>15. Downloads'
  BY <1>2, <1>3, Zenon DEF IInv, Downloads, KeepsFlags, PxIs
<1> QED
  BY <1>4, <1>5, <1>6, <1>7, <1>8, <1>9, <1>10, <1>11, <1>12, <1>13, <1>14, <1>15, Zenon DEF
     IInv

-----------------------------------------------------------------------------
(* The steps of the relay that read from the server.                       *)

(* A client that has heard of the end of a download has all of it.         *)
LEMMA HeardWhole ==
  ASSUME IInv, NEW addr, Ends(addr), px.pc # "data", srv' = srv PROVE Downloads'
<1>1. Fields /\ FileSize \in Nat
  BY HasFields, FtpControlAssumption, Zenon DEF IInv
<1>2. clt.conn = "proxy" => clt.addr = "proxy"
  BY Zenon DEF IInv, Address
<1>3. srv.up /\ Complete /\ clt.cmd = "retr" /\ clt.conn = "proxy" /\ ~clt.gone => clt.got = FileSize
  BY <1>1, <1>2 DEF IInv, Fields, Downloads
<1>4. srv.up => clt'.fetched = FileSize /\ clt'.cmd = "none"
  BY <1>3, Zenon DEF IInv, Ends, Downloads
<1> QED
  BY <1>4, Zenon DEF Downloads

(* The relay passes replies on while it waits for the next command.        *)
LEMMA StepRelayReplies ==
  ASSUME IInv, RelayReplies
  PROVE  IInv'
<1>1. TypeOK /\ Fields /\ FileSize \in Nat /\ Replies
  BY HasFields, FtpControlAssumption, Zenon DEF IInv
<1>2. /\ px.pc = "loop" /\ c2p = <<>>
      /\ lst' = lst /\ srv' = srv /\ c2p' = c2p /\ p2s' = p2s /\ cd' = cd /\ sd' = sd /\ sent' = sent
  BY Zenon DEF RelayReplies
<1>3. ASSUME NEW rs \in Reads, ReadReplies(rs), Hear(rs, "direct"), px' = px
      PROVE  IInv'
  <2>1. /\ Replies' /\ s2p' \in Seq(Codes) /\ heard' \in Seq(Codes) /\ clt' \in Clients
        /\ Announces \/ Ends("direct")
    BY <1>1, <1>2, <1>3, HearEffect, Zenon
  <2>2. CASE Announces
    <3>1. TypeOK'
      BY <1>1, <1>2, <1>3, <2>1, <2>2 DEF IInv, TypeOK, Clients, Codes
    <3>2. OneCommand'
      BY <1>2, <1>3, <2>1, <2>2, Zenon DEF IInv, OneCommand, Announces, Ends
    <3>3. OneOdd'
      BY <1>2, <1>3, <2>2, Zenon DEF IInv, OneOdd, KeepsLine, Announces
    <3>4. Place'
      BY <1>1, <1>2, <1>3, <2>1, <2>2, Zenon DEF IInv, Place, Passive, Transfers, Announces,
         Ends
    <3>5. Refusal'
      BY <1>1, <1>2, <1>3, <2>1, <2>2, Zenon DEF IInv, Refusal
    <3>6. Address'
      BY <1>1, <1>2, <1>3, <2>1, <2>2, Zenon DEF IInv, Address, Mine, KeepsLine, Announces
    <3>7. Listens'
      BY <1>2, <1>3, <2>1, <2>2, Zenon DEF IInv, Listens, KeepsLine, Announces
    <3>8. Unused'
      BY <1>1, <1>2, <1>3, <2>1, <2>2, Zenon DEF IInv, Unused, Before, Linked, KeepsLine,
         Announces
    <3>9. Bounds'
      BY <1>1, <1>2, <1>3, <2>1, <2>2, Zenon DEF IInv, Bounds, Got, Left, Linked, Transfers,
         KeepsLine, Announces, Ends
    <3>10. Uploads'
      BY <1>2, <1>3, <2>1, <2>2, Zenon DEF IInv, Uploads, Plain, Got, KeepsLine, Announces
    <3>11. Downloads'
      BY <1>2, <1>3, <2>1, <2>2, ZenonT(60) DEF IInv, Downloads, KeepsLine, Announces, Ends
    <3> QED
      BY <3>1, <2>1, <3>2, <3>3, <3>4, <3>5, <3>6, <3>7, <3>8, <3>9, <3>10, <3>11,
         ZenonT(60) DEF IInv
  <2>3. CASE Ends("direct")
    <3>1. TypeOK'
      BY <1>1, <1>2, <1>3, <2>1, <2>3 DEF IInv, TypeOK, Clients, Codes
    <3>2. OneCommand'
      BY <1>2, <1>3, <2>1, <2>3, Zenon DEF IInv, OneCommand, Ends
    <3>3. OneOdd'
      BY <1>2, <1>3, <2>3, Zenon DEF IInv, OneOdd, KeepsLine, Ends
    <3>4. Place'
      BY <1>1, <1>2, <1>3, <2>1, <2>3, Zenon DEF IInv, Place, Passive, Transfers, Announces,
         Ends
    <3>5. Refusal'
      BY <1>1, <1>2, <1>3, <2>1, <2>3, Zenon DEF IInv, Refusal
    <3>6. Address'
      BY <1>1, <1>2, <1>3, <2>1, <2>3, ZenonT(60) DEF IInv, Fields, Address, Passive,
         Transfers, KeepsLine, Announces, Ends, Place
    <3>7. Listens'
      BY <1>1, <1>2, <1>3, <2>1, <2>3, Zenon DEF IInv, Fields, Listens, Transfers,
         KeepsLine, Announces, Ends, Address, Place, Passive
    <3>8. Unused'
      BY <1>1, <1>2, <1>3, <2>1, <2>3, ZenonT(60) DEF IInv, Unused, Before, Linked,
         Transfers, KeepsLine, Ends, Listens
    <3>9. Bounds'
      BY <1>1, <1>2, <1>3, <2>1, <2>3, Zenon DEF IInv, Bounds, Transfers, KeepsLine, Ends
    <3>10. Uploads'
      BY <1>2, <1>3, <2>1, <2>3, Zenon DEF IInv, Uploads, Plain, KeepsLine, Announces, Ends
    <3>11. Downloads'
      BY <1>2, <2>3, HeardWhole, ZenonT(60)
    <3> QED
      BY <3>1, <2>1, <3>2, <3>3, <3>4, <3>5, <3>6, <3>7, <3>8, <3>9, <3>10, <3>11, Zenon DEF
         IInv
  <2> QED
    BY <2>1, <2>2, <2>3, Zenon
<1>4. CASE ServerGone /\ PxTo("end") /\ clt' = clt /\ s2p' = s2p /\ heard' = heard
  <2>1. px' \in Relays /\ PxIs("end", px.cmd, px.data) /\ KeepsFlags
    BY <1>1, <1>4, MovesOn, SameFlags, Zenon
  <2>2. TypeOK'
    BY <1>1, <1>2, <1>4, <2>1 DEF IInv, TypeOK, Relays
  <2>3. Replies'
    BY <1>2, <1>4, <2>1, Zenon DEF IInv, Replies, Pending
  <2>4. OneCommand'
    BY <1>2, <1>4, <2>1, Zenon DEF IInv, OneCommand, KeepsFlags
  <2>5. OneOdd'
    BY <1>2, <1>4, <2>1, Zenon DEF IInv, OneOdd, PxIs
  <2>6. Place'
    BY <1>1, <1>2, <1>4, <2>1, Zenon DEF IInv, Place, Transfers, PxIs
  <2>7. Refusal'
    BY <1>2, <1>4, <2>1, Zenon DEF IInv, Refusal, PxIs
  <2>8. Address'
    BY <1>2, <1>4, <2>1, ZenonT(60) DEF IInv, Address, Mine, PxIs
  <2>9. Listens'
    BY <1>1, <1>2, <1>4, <2>1, ZenonT(60) DEF IInv, Listens, KeepsFlags, PxIs
  <2>10. Unused'
    BY <1>2, <1>4, <2>1, Zenon DEF IInv, Unused, Before, Linked, PxIs
  <2>11. Bounds'
    BY <1>2, <1>4, <2>1, Zenon DEF IInv, Bounds, Got, Left, Linked, PxIs
  <2>12. Uploads'
    BY <1>1, <1>2, <1>4, <2>1, Zenon DEF IInv, Uploads, Plain, Got, PxIs
  <2>13. Downloads'
    BY <1>2, <1>4, <2>1, Zenon DEF IInv, Downloads, KeepsFlags, PxIs
  <2> QED
    BY <2>2, <2>3, <2>4, <2>5, <2>6, <2>7, <2>8, <2>9, <2>10, <2>11, <2>12, <2>13, Zenon DEF
       IInv
<1> QED
  BY <1>3, <1>4, Zenon DEF RelayReplies

(* The relay passes on the greeting, the announcement of a download, or    *)
(* the reply after a transfer.                                             *)
LEMMA StepReply ==
  ASSUME IInv, Reply
  PROVE  IInv'
<1>1. TypeOK /\ Fields /\ FileSize \in Nat /\ Replies
  BY HasFields, FtpControlAssumption, Zenon DEF IInv
<1>2. /\ px.pc \in {"greet", "go", "final"} /\ PxTo(AfterReply)
      /\ lst' = lst /\ srv' = srv /\ c2p' = c2p /\ p2s' = p2s /\ cd' = cd /\ sd' = sd /\ sent' = sent
  BY Zenon DEF Reply
<1>3. px' \in Relays /\ PxIs(AfterReply, px.cmd, px.data)
  <2>1. AfterReply \in {"accept", "final", "loop"}
    BY Zenon DEF AfterReply
  <2> QED
    BY <1>1, <1>2, <2>1, MovesOn, Zenon
<1>4. ASSUME NEW rs \in Reads, ReadReplies(rs), Hear(rs, "direct")
      PROVE  IInv'
  <2>1. /\ Replies' /\ s2p' \in Seq(Codes) /\ heard' \in Seq(Codes) /\ clt' \in Clients
        /\ Announces \/ Ends("direct")
    BY <1>1, <1>2, <1>4, HearEffect, ZenonT(60)
  <2>2. CASE Announces
    <3>1. px.pc # "greet" /\ ~Over /\ p2s = <<>>
      BY <2>2, Zenon DEF IInv, Place, Over, OneCommand, Announces, Transfers
    <3>2. TypeOK'
      BY <1>1, <1>2, <1>3, <2>1, <2>2, <3>1, SMTT(30) DEF IInv, TypeOK, Clients, Relays,
         Codes
    <3>3. OneCommand'
      BY <1>1, <1>2, <1>3, <2>1, <2>2, <3>1, Zenon DEF IInv, OneCommand, Announces
    <3>4. OneOdd'
      BY <1>2, <1>3, <2>1, <2>2, <3>1, Zenon DEF IInv, OneOdd, KeepsLine, PxIs, Announces,
         AfterReply
    <3>5. Place'
      BY <1>1, <1>2, <1>3, <2>1, <2>2, <3>1, ZenonT(60) DEF IInv, Place, Mine, Passive,
         Transfers, PxIs, Announces, Ends, AfterReply
    <3>6. Refusal'
      BY <1>1, <1>2, <1>3, <2>1, <2>2, <3>1, ZenonT(60) DEF IInv, Refusal, Announces, Ends,
         AfterReply
    <3>7. Address'
      BY <1>1, <1>2, <1>3, <2>1, <2>2, <3>1, ZenonT(60) DEF IInv, Address, Mine, Transfers,
         KeepsLine, PxIs, Announces, Ends, AfterReply
    <3>8. Listens'
      BY <1>1, <1>2, <1>3, <2>1, <2>2, <3>1, Zenon DEF IInv, Listens, KeepsLine, PxIs,
         Announces, AfterReply
    <3>9. Unused'
      BY <1>1, <1>2, <1>3, <2>1, <2>2, <3>1, Zenon DEF IInv, Unused, Before, Linked,
         KeepsLine, Announces, Ends, AfterReply
    <3>10. Bounds'
      BY <1>1, <1>2, <1>3, <2>1, <2>2, <3>1, ZenonT(60) DEF IInv, Bounds, Got, Left, Linked,
         Transfers, KeepsLine, PxIs, Announces, Ends, AfterReply
    <3>11. Uploads'
      BY <1>1, <1>2, <1>3, <2>1, <2>2, <3>1, Zenon DEF IInv, Uploads, Plain, Got, KeepsLine,
         PxIs, Announces, AfterReply
    <3>12. Downloads'
      BY <1>1, <1>2, <1>3, <2>1, <2>2, <3>1, ZenonT(60) DEF IInv, Downloads, KeepsLine,
         PxIs, Announces, AfterReply
    <3> QED
      BY <3>2, <2>1, <3>3, <3>4, <3>5, <3>6, <3>7, <3>8, <3>9, <3>10, <3>11, <3>12, Zenon
         DEF IInv
  <2>3. CASE Ends("direct")
    <3>1. ~Over /\ p2s = <<>> /\ srv.st = "idle"
      BY <2>3, Zenon DEF IInv, Over, OneCommand, Ends
    <3>2. px.pc = "go" =>
            Over' /\ px'.pc \in {"accept", "final"} /\ (px'.pc = "accept" <=> px.data # "none")
      <4>1. px.pc = "go" => clt.cmd = "retr" /\ ~srv.lis
        BY <2>3, Zenon DEF IInv, Place, Mine, Listens, Ends, Transfers
      <4> QED
        BY <1>2, <1>3, <2>3, <3>1, <4>1, Zenon DEF Over, Ends, PxIs, AfterReply, Transfers,
           Passive
    <3>3. px.pc # "go" => px'.pc = "loop" /\ ~(srv.refused /\ srv.up)
      BY <1>2, <1>3, <3>1, Zenon DEF IInv, Refusal, PxIs, AfterReply
    <3>4. Place'
      BY <1>2, <1>3, <2>3, <3>1, <3>2, <3>3, ZenonT(60) DEF IInv, Place, PxIs, Ends,
         Passive, Transfers
    <3>5. Refusal'
      BY <1>2, <1>3, <2>3, <3>2, <3>3, Zenon DEF IInv, Refusal, PxIs, Ends
    <3>6. Downloads'
      BY <1>2, <2>3, HeardWhole, Zenon
    <3>7. TypeOK'
      BY <1>1, <1>2, <1>3, <2>1, <2>3, <3>1 DEF IInv, TypeOK, Clients, Relays, Codes
    <3>8. OneCommand'
      BY <1>1, <1>2, <1>3, <2>1, <2>3, <3>1, Zenon DEF IInv, OneCommand, Announces, Ends
    <3>9. OneOdd'
      BY <1>2, <1>3, <2>1, <2>3, <3>1, Zenon DEF IInv, OneOdd, KeepsLine, PxIs, Ends,
         AfterReply
    <3>10. Address'
      BY <1>1, <1>2, <1>3, <2>1, <2>3, <3>1, ZenonT(60) DEF IInv, Address, Mine, Passive,
         Transfers, KeepsLine, PxIs, Announces, Ends, AfterReply, Place
    <3>11. Listens'
      BY <1>1, <1>2, <1>3, <2>1, <2>3, <3>1, ZenonT(60) DEF IInv, Fields, Listens,
         Transfers, KeepsLine, Announces, Ends, AfterReply, Address, Place, Passive
    <3>12. Unused'
      BY <1>1, <1>2, <1>3, <2>1, <2>3, <3>1, ZenonT(60) DEF IInv, Unused, Before, Linked,
         Transfers, KeepsLine, PxIs, Announces, Ends, AfterReply, Listens, Place
    <3>13. Bounds'
      BY <1>1, <1>2, <1>3, <2>1, <2>3, <3>1, Zenon DEF IInv, Bounds, Transfers, KeepsLine,
         Announces, Ends, AfterReply
    <3>14. Uploads'
      BY <1>1, <1>2, <1>3, <2>1, <2>3, <3>1, ZenonT(60) DEF IInv, Uploads, Plain, KeepsLine,
         PxIs, Ends, AfterReply
    <3> QED
      BY <3>7, <2>1, <3>8, <3>9, <3>4, <3>5, <3>10, <3>11, <3>12, <3>13, <3>14, <3>6, Zenon
         DEF IInv
  <2> QED
    BY <2>1, <2>2, <2>3, Zenon
<1>5. CASE ServerGone /\ clt' = clt /\ s2p' = s2p /\ heard' = heard
  <2>1. KeepsFlags /\ ~Announced /\ ~Answered /\ ~srv.up
    BY <1>5, SameFlags DEF ServerGone, Announced, Answered, Pending
  <2>2. px.pc # "greet" /\ p2s = <<>>
    BY <2>1, Zenon DEF IInv, Place, OneCommand
  <2>3. TypeOK'
    BY <1>1, <1>2, <1>3, <1>5, <2>1, <2>2 DEF IInv, TypeOK, Relays
  <2>4. Replies'
    BY <1>2, <1>5, Zenon DEF IInv, Replies, Pending
  <2>5. OneCommand'
    BY <1>1, <1>2, <1>5, <2>1, <2>2, Zenon DEF IInv, OneCommand, KeepsFlags
  <2>6. OneOdd'
    BY <1>2, <1>3, <1>5, <2>2, Zenon DEF IInv, OneOdd, PxIs
  <2>7. Place'
    BY <1>1, <1>2, <1>3, <1>5, <2>1, <2>2, Zenon DEF IInv, Place, Mine, KeepsFlags,
       Transfers, PxIs, AfterReply
  <2>8. Refusal'
    BY <1>2, <1>3, <1>5, <2>1, <2>2, Zenon DEF IInv, Refusal, PxIs
  <2>9. Address'
    BY <1>2, <1>3, <1>5, <2>1, <2>2, ZenonT(60) DEF IInv, Address, Mine, PxIs, AfterReply
  <2>10. Listens'
    BY <1>2, <1>3, <1>5, <2>1, <2>2, Zenon DEF IInv, Listens, AfterReply
  <2>11. Unused'
    BY <1>2, <1>3, <1>5, <2>1, <2>2, Zenon DEF IInv, Unused, Before, Linked, PxIs
  <2>12. Bounds'
    BY <1>1, <1>2, <1>3, <1>5, <2>1, <2>2, Zenon DEF IInv, Bounds, Got, Left, Linked, PxIs,
       AfterReply
  <2>13. Uploads'
    BY <1>2, <1>3, <1>5, <2>1, <2>2, ZenonT(60) DEF IInv, Uploads, Plain, Got, PxIs,
       AfterReply
  <2>14. Downloads'
    BY <1>1, <1>2, <1>5, <2>1, <2>2, ZenonT(60) DEF IInv, Downloads
  <2> QED
    BY <2>3, <2>4, <2>5, <2>6, <2>7, <2>8, <2>9, <2>10, <2>11, <2>12, <2>13, <2>14, Zenon
       DEF IInv
<1> QED
  BY <1>4, <1>5, Zenon DEF Reply

(* The relay passes on the reply to a request for a data channel.          *)
LEMMA StepPasvReply ==
  ASSUME IInv, PasvReply
  PROVE  IInv'
<1>1. TypeOK /\ Fields /\ FileSize \in Nat /\ Replies
  BY HasFields, FtpControlAssumption, Zenon DEF IInv
<1>2. /\ px.pc = "pasv" /\ clt.cmd \in Passive /\ c2p = <<>> /\ px.data = "none" /\ clt.addr = "none"
      /\ lst = "none" /\ ~srv.conn
      /\ srv' = srv /\ c2p' = c2p /\ p2s' = p2s /\ cd' = cd /\ sd' = sd /\ sent' = sent
  BY Zenon DEF PasvReply, IInv, Place, Mine, Listens
<1>3. ASSUME NEW rs \in Reads, NEW open \in BOOLEAN, ReadReplies(rs), ~open => Usual,
             px' = [px EXCEPT !.pc = "loop", !.nolst = @ \/ ~open,
                              !.data = IF open THEN UpstreamAddr ELSE "none"],
             lst' = IF open THEN "open" ELSE lst,
             Hear(rs, IF open THEN ProxyAddr ELSE "direct")
      PROVE  IInv'
  <2> DEFINE a == IF open THEN ProxyAddr ELSE "direct"
             d == IF open THEN UpstreamAddr ELSE "none"
             f == px.nolst \/ ~open
  <2>1. /\ a \in {"proxy", "self", "direct"} /\ (open <=> a # "direct") /\ Hear(rs, a)
        /\ f \in BOOLEAN /\ d \in {"none", "server", "nowhere"}
        /\ px' = [px EXCEPT !.pc = "loop", !.nolst = f, !.data = d] /\ (d # "none" <=> open)
    BY <1>3, Zenon DEF UpstreamAddr, ProxyAddr
  <2> HIDE DEF a, d, f
  <2>2. px' \in Relays /\ px'.pc = "loop" /\ px'.cmd = px.cmd /\ px'.data = d /\ px'.nolst = f
        /\ px'.cut = px.cut
    BY <1>1, <2>1, ZenonT(60) DEF TypeOK, Relays
  <2>3. /\ Replies' /\ s2p' \in Seq(Codes) /\ heard' \in Seq(Codes) /\ clt' \in Clients
        /\ Announces \/ Ends(a)
    <3>1. /\ TypeOK /\ Replies /\ rs \in Reads /\ ReadReplies(rs) /\ sent' = sent
          /\ a \in {"proxy", "self", "direct"} /\ Hear(rs, a)
      BY <1>1, <1>2, <1>3, <2>1, Zenon
    <3> QED
      BY <3>1, HearEffect, ZenonT(60)
  <2>4. Ends(a)
    BY <1>2, <2>3, Zenon DEF Announces, Transfers, Passive
  <2>5. TypeOK'
    BY <1>1, <1>2, <1>3, <2>1, <2>2, <2>3, <2>4, SMTT(30) DEF IInv, TypeOK, Clients, Relays,
       Codes
  <2>6. OneCommand'
    BY <1>2, <1>3, <2>1, <2>2, <2>3, <2>4, Zenon DEF IInv, OneCommand, Ends
  <2>7. OneOdd'
    BY <1>1, <1>2, <1>3, <2>1, <2>2, <2>3, <2>4, ZenonT(60) DEF IInv, OneOdd, Usual,
       KeepsLine, Announces, Ends, f
  <2>8. Place'
    BY <1>1, <1>2, <1>3, <2>1, <2>2, <2>3, <2>4, Zenon DEF IInv, Place, Passive, Transfers,
       Announces, Ends
  <2>9. Refusal'
    BY <1>1, <1>2, <1>3, <2>1, <2>2, <2>3, <2>4, Zenon DEF IInv, Refusal
  <2>10. Address'
    BY <1>1, <1>2, <1>3, <2>1, <2>2, <2>3, <2>4, Zenon DEF IInv, Address, Passive, Ends, a,
       f
  <2>11. Listens'
    BY <1>2, <1>3, <2>1, <2>2, <2>3, <2>4, ZenonT(60) DEF IInv, Listens, Announces, Ends
  <2>12. Unused'
    BY <1>1, <1>2, <1>3, <2>1, <2>2, <2>3, <2>4, ZenonT(60) DEF IInv, Unused, Before,
       Linked, Transfers, KeepsLine, Announces, Ends
  <2>13. Bounds'
    BY <1>1, <1>2, <1>3, <2>1, <2>2, <2>3, <2>4, ZenonT(60) DEF IInv, Bounds, Transfers,
       KeepsLine, Ends
  <2>14. Uploads'
    BY <1>2, <1>3, <2>1, <2>2, <2>3, <2>4, ZenonT(60) DEF IInv, Uploads, Plain, KeepsLine,
       Announces, Ends
  <2>15. Downloads'
    BY <1>2, <2>4, HeardWhole, ZenonT(60)
  <2> QED
    BY <2>5, <2>3, <2>6, <2>7, <2>8, <2>9, <2>10, <2>11, <2>12, <2>13, <2>14, <2>15, Zenon
       DEF IInv
<1>4. CASE ServerGone /\ PxTo("loop") /\ clt' = clt /\ s2p' = s2p /\ heard' = heard /\ lst' = lst
  <2>1. px' \in Relays /\ PxIs("loop", px.cmd, px.data) /\ KeepsFlags
    BY <1>1, <1>4, MovesOn, SameFlags, Zenon
  <2>2. ~Answered /\ ~srv.up
    BY <1>4, SMTT(30) DEF ServerGone, Answered, Pending
  <2>3. TypeOK'
    BY <1>1, <1>2, <1>4, <2>1, <2>2, SMTT(30) DEF IInv, TypeOK, Relays
  <2>4. Replies'
    BY <1>2, <1>4, <2>1, Zenon DEF IInv, Replies, Pending
  <2>5. OneCommand'
    BY <1>2, <1>4, <2>1, <2>2, Zenon DEF IInv, OneCommand, KeepsFlags
  <2>6. OneOdd'
    BY <1>2, <1>4, <2>1, Zenon DEF IInv, OneOdd, PxIs
  <2>7. Place'
    BY <1>1, <1>2, <1>4, <2>1, <2>2, Zenon DEF IInv, Place, KeepsFlags, Transfers, PxIs
  <2>8. Refusal'
    BY <1>2, <1>4, <2>1, <2>2, Zenon DEF IInv, Refusal, PxIs
  <2>9. Address'
    BY <1>2, <1>4, <2>1, <2>2, Zenon DEF IInv, Address, PxIs
  <2>10. Listens'
    BY <1>1, <1>2, <2>1, <2>2, Zenon DEF IInv, Listens
  <2>11. Unused'
    BY <1>2, <1>4, <2>1, <2>2, Zenon DEF IInv, Unused, Before, Linked, PxIs
  <2>12. Bounds'
    BY <1>2, <1>4, <2>1, <2>2, Zenon DEF IInv, Bounds, Got, Left, Linked, PxIs
  <2>13. Uploads'
    BY <1>1, <1>2, <1>4, <2>1, <2>2, Zenon DEF IInv, Uploads, Plain, Got, PxIs
  <2>14. Downloads'
    BY <1>2, <2>2, Zenon DEF IInv, Downloads
  <2> QED
    BY <2>3, <2>4, <2>5, <2>6, <2>7, <2>8, <2>9, <2>10, <2>11, <2>12, <2>13, <2>14, Zenon
       DEF IInv
<1> QED
  BY <1>3, <1>4, Zenon DEF PasvReply

-----------------------------------------------------------------------------
(* The steps of the server.                                                *)

(* The server takes a command, and answers it or begins a transfer.        *)
LEMMA StepServerTakes ==
  ASSUME IInv, ServerTakes
  PROVE  IInv'
<1> DEFINE k == clt.cmd
<1>1. TypeOK /\ Fields /\ FileSize \in Nat /\ Replies
  BY HasFields, FtpControlAssumption, Zenon DEF IInv
<1>2. /\ srv.up /\ srv.st = "idle" /\ p2s = <<k>> /\ p2s # <<>> /\ c2p = <<>>
      /\ ~Announced /\ ~Answered
      /\ clt' = clt /\ px' = px /\ lst' = lst /\ c2p' = c2p /\ cd' = cd /\ sd' = sd /\ heard' = heard
  BY Zenon DEF ServerTakes, IInv, OneCommand
<1>3. Head(p2s) = k /\ Tail(p2s) = <<>>
  BY <1>1, <1>2 DEF TypeOK
<1>4. p2s' = <<>> /\ p2s' \in Seq(Kinds)
  <2>1. p2s' = Tail(p2s)
    BY Zenon DEF ServerTakes
  <2>2. <<>> \in Seq(Kinds)
    OBVIOUS
  <2> QED
    BY <1>3, <2>1, <2>2, Zenon
<1>5. ~srv.refused /\ ~Over /\ (k = "retr" => px.pc = "go" /\ px.cmd = "retr")
  BY <1>2, Zenon DEF IInv, Refusal, Over, Place, Mine
<1>6. CASE k = "noop" /\ Say("200") /\ srv' = srv
  <2>1. /\ Replies' /\ ~Announced' /\ Answered' /\ ~Complete'
        /\ s2p' \in Seq(Codes) /\ sent' \in Seq(Codes)
    BY <1>1, <1>2, <1>6, SayEffect, SMTT(30) DEF AnswerTo, Codes, Finals
  <2>2. TypeOK'
    BY <1>1, <1>2, <1>4, <1>5, <1>6, <2>1, SMTT(30) DEF IInv, TypeOK, Codes
  <2>3. OneCommand'
    BY <1>2, <1>4, <1>5, <1>6, Zenon DEF IInv, OneCommand
  <2>4. OneOdd'
    BY <1>2, <1>6, Zenon DEF IInv, OneOdd
  <2>5. Place'
    BY <1>2, <1>4, <1>5, <1>6, <2>1, ZenonT(60) DEF IInv, Place, Mine
  <2>6. Refusal'
    BY <1>2, <1>6, <2>1, ZenonT(60) DEF IInv, Refusal
  <2>7. Address'
    BY <1>1, <1>2, <1>5, <1>6, <2>1, ZenonT(60) DEF IInv, Address, Mine
  <2>8. Listens'
    BY <1>2, <1>4, <1>6, <2>1, Zenon DEF IInv, Listens, Transfers
  <2>9. Unused'
    BY <1>1, <1>2, <1>5, <1>6, <2>1, Zenon DEF IInv, Unused, Before, Linked
  <2>10. Bounds'
    BY <1>2, <1>4, <1>5, <1>6, <2>1, Zenon DEF IInv, Bounds
  <2>11. Uploads'
    BY <1>2, <1>6, <2>1, ZenonT(60) DEF IInv, Uploads, Plain
  <2>12. Downloads'
    BY <1>2, <1>5, <1>6, ZenonT(60) DEF IInv, Downloads
  <2> QED
    BY <2>2, <2>1, <2>3, <2>4, <2>5, <2>6, <2>7, <2>8, <2>9, <2>10, <2>11, <2>12, ZenonT(60)
       DEF IInv
<1>7. CASE k \in {"pasv", "epsv"} /\ Say("227") /\ srv' = [srv EXCEPT !.lis = TRUE, !.conn = FALSE]
  <2>1. /\ Replies' /\ ~Announced' /\ Answered' /\ ~Complete'
        /\ s2p' \in Seq(Codes) /\ sent' \in Seq(Codes)
    BY <1>1, <1>2, <1>7, SayEffect DEF AnswerTo, Codes, Finals, Passive
  <2>2. /\ srv' \in Servers /\ srv'.up = srv.up /\ srv'.st = srv.st /\ srv'.lis /\ ~srv'.conn
        /\ srv'.left = srv.left /\ srv'.got = srv.got /\ srv'.stored = srv.stored
        /\ srv'.refused = srv.refused
    BY <1>1, <1>7, Zenon DEF TypeOK, Servers
  <2>3. TypeOK'
    BY <1>1, <1>2, <1>4, <1>5, <1>7, <2>1, <2>2, SMTT(30) DEF IInv, TypeOK, Servers, Codes
  <2>4. OneCommand'
    BY <1>2, <1>4, <1>5, <2>2, Zenon DEF IInv, OneCommand
  <2>5. OneOdd'
    BY <1>2, <1>7, <2>2, Zenon DEF IInv, OneOdd
  <2>6. Place'
    BY <1>2, <1>4, <1>5, <1>7, <2>1, <2>2, Zenon DEF IInv, Place, Mine
  <2>7. Refusal'
    BY <1>2, <1>7, <2>1, <2>2, Zenon DEF IInv, Refusal
  <2>8. Address'
    BY <1>1, <1>2, <1>5, <1>7, <2>1, <2>2, Zenon DEF IInv, Address, Mine
  <2>9. Listens'
    BY <1>2, <1>4, <1>7, <2>1, <2>2, Zenon DEF IInv, Listens, Transfers
  <2>10. Unused'
    BY <1>1, <1>2, <1>5, <1>7, <2>1, <2>2, ZenonT(60) DEF IInv, Unused, Before, Linked
  <2>11. Bounds'
    BY <1>2, <1>4, <1>5, <1>7, <2>1, <2>2, ZenonT(60) DEF IInv, Bounds
  <2>12. Uploads'
    BY <1>2, <1>7, <2>1, <2>2, Zenon DEF IInv, Uploads, Plain
  <2>13. Downloads'
    BY <1>2, <1>5, <2>1, <2>2, ZenonT(60) DEF IInv, Downloads
  <2> QED
    BY <2>3, <2>1, <2>4, <2>5, <2>6, <2>7, <2>8, <2>9, <2>10, <2>11, <2>12, <2>13, Zenon DEF
       IInv
<1>8. CASE /\ k \in Transfers /\ srv.lis /\ Say("150")
           /\ srv' = [srv EXCEPT !.st = k, !.got = 0, !.left = FileSize]
  <2>1. /\ Replies' /\ Announced' /\ ~Answered' /\ ~Complete'
        /\ s2p' \in Seq(Codes) /\ sent' \in Seq(Codes)
    BY <1>1, <1>2, <1>8, SayEffect, Zenon DEF AnswerTo, Codes, Finals
  <2>2. /\ srv' \in Servers /\ srv'.up = srv.up /\ srv'.st = k /\ srv'.lis = srv.lis
        /\ srv'.conn = srv.conn /\ srv'.left = FileSize /\ srv'.got = 0 /\ srv'.stored = srv.stored
        /\ srv'.refused = srv.refused
    <3>1. 0 \in 0 .. FileSize /\ FileSize \in 0 .. FileSize
      BY <1>1, SMTT(30)
    <3> QED
      BY <1>1, <1>8, <3>1, Zenon DEF TypeOK, Servers, Transfers
  <2>3. Bounds'
    <3>1. Got = 0 /\ Got' = 0 /\ (k = "retr" => Left' = FileSize)
      BY <1>2, <2>2, Zenon DEF Got, Left
    <3>2. k = "retr" => clt.got = 0 /\ px.pc # "data" /\ (Linked => sd.n = 0)
      BY <1>2, <1>5, Zenon DEF IInv, Bounds, Unused, Before
    <3>3. Linked' <=> Linked
      BY <1>2, <2>2, Zenon DEF Linked
    <3> QED
      BY <1>1, <1>2, <2>2, <3>1, <3>2, <3>3 DEF IInv, Fields, Bounds
  <2>4. TypeOK'
    BY <1>1, <1>2, <1>4, <1>5, <1>8, <2>1, <2>2, SMTT(30) DEF IInv, TypeOK, Servers, Codes
  <2>5. OneCommand'
    BY <1>2, <1>4, <1>5, <2>1, <2>2, ZenonT(60) DEF IInv, OneCommand
  <2>6. OneOdd'
    BY <1>2, <1>8, <2>2, Zenon DEF IInv, OneOdd
  <2>7. Place'
    BY <1>1, <1>2, <1>4, <1>5, <1>8, <2>1, <2>2, Zenon DEF IInv, Place, Mine
  <2>8. Refusal'
    BY <1>2, <1>5, <1>8, <2>1, <2>2, Zenon DEF IInv, Refusal
  <2>9. Address'
    BY <1>1, <1>2, <1>4, <1>5, <1>8, <2>1, <2>2, ZenonT(60) DEF IInv, Address, Mine
  <2>10. Listens'
    BY <1>2, <1>4, <1>8, <2>1, <2>2, ZenonT(60) DEF IInv, Listens
  <2>11. Unused'
    BY <1>1, <1>2, <1>4, <1>5, <1>8, <2>1, <2>2, ZenonT(60) DEF IInv, Unused, Before
  <2>12. Uploads'
    BY <1>2, <1>4, <1>5, <1>8, <2>1, <2>2, ZenonT(60) DEF IInv, Uploads, Plain, Got
  <2>13. Downloads'
    BY <1>2, <1>5, <1>8, <2>1, <2>2, ZenonT(60) DEF IInv, Downloads, Listens
  <2> QED
    BY <2>4, <2>1, <2>5, <2>6, <2>7, <2>8, <2>9, <2>10, <2>11, <2>3, <2>12, <2>13, Zenon DEF
       IInv
<1>9. CASE /\ k \in Transfers /\ (k = "retr" => Usual) /\ Say("550")
           /\ srv' = [srv EXCEPT !.lis = FALSE, !.conn = FALSE, !.refused = @ \/ k = "retr"]
  <2>1. /\ Replies' /\ ~Announced' /\ Answered' /\ ~Complete'
        /\ s2p' \in Seq(Codes) /\ sent' \in Seq(Codes)
    BY <1>1, <1>2, <1>9, SayEffect DEF AnswerTo, Codes, Finals
  <2> DEFINE f == srv.refused \/ k = "retr"
  <2>2. f \in BOOLEAN /\ srv' = [srv EXCEPT !.lis = FALSE, !.conn = FALSE, !.refused = f]
    BY <1>9, Zenon
  <2> HIDE DEF f
  <2>3. /\ srv' \in Servers /\ srv'.up = srv.up /\ srv'.st = srv.st /\ ~srv'.lis /\ ~srv'.conn
        /\ srv'.left = srv.left /\ srv'.got = srv.got /\ srv'.stored = srv.stored
        /\ srv'.refused = f
    BY <1>1, <2>2, ZenonT(60) DEF TypeOK, Servers
  <2>4. srv'.refused <=> k = "retr"
    BY <1>5, <2>3, Zenon DEF f
  <2>5. TypeOK'
    BY <1>1, <1>2, <1>4, <1>5, <1>9, <2>1, <2>3, <2>4, SMTT(30) DEF IInv, TypeOK, Servers,
       Codes
  <2>6. OneCommand'
    BY <1>2, <1>4, <1>5, <2>1, <2>3, <2>4, Zenon DEF IInv, OneCommand
  <2>7. OneOdd'
    BY <1>2, <1>5, <1>9, <2>1, <2>3, <2>4, Zenon DEF IInv, OneOdd, Usual
  <2>8. Place'
    BY <1>1, <1>2, <1>4, <1>5, <1>9, <2>1, <2>3, <2>4, Zenon DEF IInv, Place, Mine
  <2>9. Refusal'
    BY <1>2, <1>4, <1>5, <1>9, <2>1, <2>3, <2>4, Zenon DEF IInv, Refusal
  <2>10. Address'
    BY <1>1, <1>2, <1>4, <1>5, <1>9, <2>1, <2>3, <2>4, Zenon DEF IInv, Address, Mine
  <2>11. Listens'
    BY <1>4, <1>9, <2>1, <2>3, <2>4, ZenonT(60) DEF IInv, Listens
  <2>12. Unused'
    BY <1>1, <1>2, <1>4, <1>5, <1>9, <2>1, <2>3, <2>4, ZenonT(60) DEF IInv, Unused, Before
  <2>13. Bounds'
    BY <1>2, <1>4, <1>5, <1>9, <2>1, <2>3, <2>4, ZenonT(60) DEF IInv, Bounds, Got, Left,
       Linked
  <2>14. Uploads'
    BY <1>2, <1>5, <1>9, <2>1, <2>3, <2>4, ZenonT(60) DEF IInv, Uploads, Plain, Got
  <2>15. Downloads'
    BY <1>2, <1>5, <2>1, <2>3, <2>4, ZenonT(60) DEF IInv, Downloads
  <2> QED
    BY <2>5, <2>1, <2>6, <2>7, <2>8, <2>9, <2>10, <2>11, <2>12, <2>13, <2>14, <2>15, Zenon
       DEF IInv
<1> QED
  BY <1>3, <1>6, <1>7, <1>8, <1>9, Zenon DEF ServerTakes

(* The server reads a chunk of an upload, or its end.                      *)
LEMMA StepServerReads ==
  ASSUME IInv, ServerReads
  PROVE  IInv'
<1>1. TypeOK /\ Fields /\ FileSize \in Nat /\ Replies
  BY HasFields, FtpControlAssumption, Zenon DEF IInv
<1>2. /\ srv.up /\ srv.st = "stor" /\ srv.conn
      /\ clt.cmd = "stor" /\ c2p = <<>> /\ p2s = <<>> /\ ~Answered
      /\ clt' = clt /\ px' = px /\ lst' = lst /\ c2p' = c2p /\ p2s' = p2s /\ cd' = cd /\ heard' = heard
  BY Zenon DEF ServerReads, IInv, OneCommand
<1>3. ~srv.refused /\ ~Over
  BY <1>2, Zenon DEF IInv, Refusal, Over
<1>4. clt.left + cd.n + sd.n + srv.got <= FileSize /\ Got = srv.got
  BY <1>2, ZenonT(60) DEF IInv, Bounds, Got
<1>5. CASE /\ sd.n > 0 /\ sd' = [sd EXCEPT !.n = @ - 1]
           /\ srv' = [srv EXCEPT !.got = @ + 1] /\ s2p' = s2p /\ sent' = sent
  <2>1. sd.n - 1 \in 0 .. FileSize /\ srv.got + 1 \in 0 .. FileSize
    BY <1>1, <1>4, <1>5 DEF Fields
  <2>2. sd' \in Channels /\ sd'.n = sd.n - 1 /\ sd'.eof = sd.eof
    BY <1>1, <1>5, <2>1, Zenon DEF TypeOK, Channels
  <2>3. /\ srv' \in Servers /\ srv'.up = srv.up /\ srv'.st = srv.st /\ srv'.lis = srv.lis
        /\ srv'.conn = srv.conn /\ srv'.left = srv.left /\ srv'.got = srv.got + 1
        /\ srv'.stored = srv.stored /\ srv'.refused = srv.refused
    BY <1>1, <1>5, <2>1, Zenon DEF TypeOK, Servers
  <2>4. /\ Got' = srv'.got /\ Left' = Left
        /\ clt.left + cd.n + sd'.n + Got' = clt.left + cd.n + sd.n + Got
        /\ clt.left + cd.n + Got' <= FileSize
    <3>1. Got' = srv'.got /\ Left' = Left
      BY <1>2, <2>3, Zenon DEF Got, Left
    <3> QED
      BY <1>1, <1>4, <1>5, <2>1, <2>2, <2>3, <3>1, SMTT(30) DEF Fields
  <2>5. Bounds'
    BY <1>2, <2>4, Zenon DEF IInv, Bounds
  <2>6. Uploads'
    <3>1. Plain => ~(px.data # "none" \/ clt.conn = "no")
      BY <1>1, <1>2, <1>4, <1>5, <2>1 DEF IInv, Fields, Uploads, Plain
    <3> QED
      BY <1>2, <2>2, <2>3, <2>4, <3>1, Zenon DEF IInv, Uploads, Plain
  <2>7. KeepsFlags
    BY <1>5, SameFlags, Zenon
  <2>8. TypeOK'
    BY <1>1, <1>2, <1>3, <1>5, <2>2, <2>3, <2>7, SMTT(30) DEF IInv, TypeOK, Servers,
       Channels
  <2>9. Replies'
    BY <1>2, <1>5, <2>3, <2>7, Zenon DEF IInv, Replies, Pending
  <2>10. OneCommand'
    BY <1>2, <1>3, <2>2, <2>3, <2>7, Zenon DEF IInv, OneCommand, KeepsFlags
  <2>11. OneOdd'
    BY <1>2, <2>2, <2>3, <2>7, Zenon DEF IInv, OneOdd
  <2>12. Place'
    BY <1>1, <1>2, <1>3, <1>5, <2>2, <2>3, <2>7, Zenon DEF IInv, Place, Mine, Transfers
  <2>13. Refusal'
    BY <1>1, <1>3, <1>5, <2>2, <2>3, <2>7, Zenon DEF IInv, Refusal
  <2>14. Address'
    BY <1>1, <1>2, <1>3, <1>5, <2>2, <2>3, <2>7, ZenonT(60) DEF IInv, Address, Mine
  <2>15. Listens'
    BY <1>2, <1>5, <2>2, <2>3, <2>7, ZenonT(60) DEF IInv, Listens, KeepsFlags
  <2>16. Unused'
    BY <1>1, <1>2, <1>3, <1>5, <2>2, <2>3, <2>7, ZenonT(60) DEF IInv, Unused, Before,
       Transfers
  <2>17. Downloads'
    BY <1>2, <1>3, <2>2, <2>3, <2>7, ZenonT(60) DEF IInv, Downloads
  <2> QED
    BY <2>8, <2>9, <2>10, <2>11, <2>12, <2>13, <2>14, <2>15, <2>16, <2>5, <2>6, <2>17, Zenon
       DEF
       IInv
<1>6. CASE sd.n = 0 /\ sd.eof /\ Idle("226") /\ Say("226") /\ sd' = sd
  <2>1. /\ Replies' /\ (Announced' <=> Announced) /\ Answered' /\ Complete'
        /\ s2p' \in Seq(Codes) /\ sent' \in Seq(Codes)
    BY <1>1, <1>2, <1>6, SayEffect, Zenon DEF AnswerTo, Codes, Finals, Transfers
  <2>2. /\ srv' \in Servers /\ srv'.up = srv.up /\ srv'.st = "idle" /\ ~srv'.lis /\ ~srv'.conn
        /\ srv'.left = srv.left /\ srv'.got = srv.got /\ srv'.stored = srv.got
        /\ srv'.refused = srv.refused
    BY <1>1, <1>2, <1>6, ZenonT(60) DEF TypeOK, Servers, Idle
  <2>3. Uploads'
    BY <1>1, <1>2, <1>4, <1>6, <2>2 DEF IInv, Fields, Uploads, Plain, Got
  <2>4. TypeOK'
    BY <1>1, <1>2, <1>3, <1>6, <2>1, <2>2, SMTT(30) DEF IInv, TypeOK, Servers, Codes
  <2>5. OneCommand'
    BY <1>2, <1>6, <2>2, Zenon DEF IInv, OneCommand
  <2>6. OneOdd'
    BY <1>2, <2>1, <2>2, Zenon DEF IInv, OneOdd
  <2>7. Place'
    BY <1>1, <1>2, <1>3, <1>6, <2>1, <2>2, Zenon DEF IInv, Place, Mine
  <2>8. Refusal'
    BY <1>2, <1>6, <2>1, <2>2, Zenon DEF IInv, Refusal
  <2>9. Address'
    BY <1>1, <1>2, <1>3, <1>6, <2>1, <2>2, Zenon DEF IInv, Address, Mine
  <2>10. Listens'
    BY <1>3, <2>1, <2>2, Zenon DEF IInv, Listens
  <2>11. Unused'
    BY <1>1, <1>2, <1>3, <1>6, <2>1, <2>2, ZenonT(60) DEF IInv, Unused, Before, Transfers
  <2>12. Bounds'
    BY <1>1, <1>2, <1>3, <1>6, <2>1, <2>2 DEF IInv, Fields, Bounds, Got, Left, Linked,
       Transfers
  <2>13. Downloads'
    BY <1>2, <1>6, <2>2, Zenon DEF IInv, Downloads
  <2> QED
    BY <2>4, <2>1, <2>5, <2>6, <2>7, <2>8, <2>9, <2>10, <2>11, <2>12, <2>3, <2>13, Zenon DEF
       IInv
<1> QED
  BY <1>5, <1>6, Zenon DEF ServerReads

(* The server sends a chunk of a download, or its end.                     *)
LEMMA StepServerSends ==
  ASSUME IInv, ServerSends
  PROVE  IInv'
<1>1. TypeOK /\ Fields /\ FileSize \in Nat /\ Replies
  BY HasFields, FtpControlAssumption, Zenon DEF IInv
<1>2. /\ srv.up /\ srv.st = "retr" /\ srv.conn
      /\ clt.cmd = "retr" /\ c2p = <<>> /\ p2s = <<>> /\ ~Answered
      /\ clt' = clt /\ px' = px /\ lst' = lst /\ c2p' = c2p /\ p2s' = p2s /\ cd' = cd /\ heard' = heard
  BY Zenon DEF ServerSends, IInv, OneCommand
<1>3. /\ ~srv.refused /\ ~Over
      /\ clt.addr # "direct" => px.data = "none" /\ px.pc # "go"
  BY <1>2, Zenon DEF IInv, Refusal, Over, Listens
<1>4. clt.got + sd.n + srv.left <= FileSize /\ Left = srv.left
  BY <1>2, ZenonT(60) DEF IInv, Bounds, Left, Linked
<1>5. CASE /\ srv.left > 0 /\ sd' = [sd EXCEPT !.n = @ + 1]
           /\ srv' = [srv EXCEPT !.left = @ - 1] /\ s2p' = s2p /\ sent' = sent
  <2>1. sd.n + 1 \in 0 .. FileSize /\ srv.left - 1 \in 0 .. FileSize
    BY <1>1, <1>4, <1>5 DEF Fields
  <2>2. sd' \in Channels /\ sd'.n = sd.n + 1 /\ sd'.eof = sd.eof
    BY <1>1, <1>5, <2>1, Zenon DEF TypeOK, Channels
  <2>3. /\ srv' \in Servers /\ srv'.up = srv.up /\ srv'.st = srv.st /\ srv'.lis = srv.lis
        /\ srv'.conn = srv.conn /\ srv'.left = srv.left - 1 /\ srv'.got = srv.got
        /\ srv'.stored = srv.stored /\ srv'.refused = srv.refused
    BY <1>1, <1>5, <2>1, Zenon DEF TypeOK, Servers
  <2>4. /\ Left' = srv'.left /\ Got' = Got
        /\ clt.got + sd'.n + srv'.left = clt.got + sd.n + srv.left
        /\ clt.got + Left' <= FileSize
    <3>1. Left' = srv'.left /\ Got' = Got
      BY <1>2, <2>3, Zenon DEF Got, Left
    <3> QED
      BY <1>1, <1>4, <1>5, <2>1, <2>2, <2>3, <3>1 DEF Fields
  <2>5. Bounds'
    BY <1>2, <1>4, <2>4, Zenon DEF IInv, Bounds
  <2>6. KeepsFlags
    BY <1>5, SameFlags, Zenon
  <2>7. Downloads'
    <3>1. ~clt.gone /\ clt.addr = "proxy" =>
            px.pc = "data" /\ clt.got + sd.n + srv.left = FileSize /\ ~Complete
      BY <1>2, Zenon DEF IInv, Downloads, Complete, Answered, Finals
    <3> QED
      BY <1>2, <1>3, <2>2, <2>3, <2>4, <2>6, <3>1, Zenon DEF IInv, Downloads, KeepsFlags
  <2>8. TypeOK'
    BY <1>1, <1>2, <1>3, <1>5, <2>2, <2>3, <2>6, SMTT(30) DEF IInv, TypeOK, Servers,
       Channels
  <2>9. Replies'
    BY <1>2, <1>5, <2>3, <2>6, Zenon DEF IInv, Replies, Pending
  <2>10. OneCommand'
    BY <1>2, <1>3, <2>2, <2>3, <2>6, Zenon DEF IInv, OneCommand, KeepsFlags
  <2>11. OneOdd'
    BY <1>2, <2>2, <2>3, <2>6, Zenon DEF IInv, OneOdd
  <2>12. Place'
    BY <1>1, <1>2, <1>3, <1>5, <2>2, <2>3, <2>6, Zenon DEF IInv, Place, Mine, KeepsFlags,
       Transfers
  <2>13. Refusal'
    BY <1>1, <1>3, <1>5, <2>2, <2>3, <2>6, Zenon DEF IInv, Refusal
  <2>14. Address'
    BY <1>1, <1>2, <1>3, <1>5, <2>2, <2>3, <2>6, ZenonT(60) DEF IInv, Address, Mine
  <2>15. Listens'
    BY <1>2, <1>5, <2>2, <2>3, <2>6, ZenonT(60) DEF IInv, Listens, KeepsFlags
  <2>16. Unused'
    BY <1>1, <1>2, <1>3, <1>5, <2>2, <2>3, <2>6, ZenonT(60) DEF IInv, Unused, Before,
       Transfers
  <2>17. Uploads'
    BY <1>2, <1>5, <2>2, <2>3, <2>6, ZenonT(60) DEF IInv, Uploads, Plain
  <2> QED
    BY <2>8, <2>9, <2>10, <2>11, <2>12, <2>13, <2>14, <2>15, <2>16, <2>5, <2>17, <2>7, Zenon
       DEF
       IInv
<1>6. CASE srv.left = 0 /\ sd' = [sd EXCEPT !.eof = TRUE] /\ Idle("226") /\ Say("226")
  <2>1. /\ Replies' /\ (Announced' <=> Announced) /\ Answered' /\ Complete'
        /\ s2p' \in Seq(Codes) /\ sent' \in Seq(Codes)
    BY <1>1, <1>2, <1>6, SayEffect, Zenon DEF AnswerTo, Codes, Finals, Transfers
  <2>2. /\ srv' \in Servers /\ srv'.up = srv.up /\ srv'.st = "idle" /\ ~srv'.lis /\ ~srv'.conn
        /\ srv'.left = srv.left /\ srv'.got = srv.got /\ srv'.stored = srv.stored
        /\ srv'.refused = srv.refused
    BY <1>1, <1>2, <1>6, ZenonT(60) DEF TypeOK, Servers, Idle
  <2>3. sd' \in Channels /\ sd'.n = sd.n
    BY <1>1, <1>6, Zenon DEF TypeOK, Channels
  <2>4. TypeOK'
    BY <1>1, <1>2, <1>3, <1>4, <1>6, <2>1, <2>2, <2>3 DEF IInv, TypeOK, Servers, Channels,
       Codes
  <2>5. OneCommand'
    BY <1>2, <1>4, <2>1, <2>2, <2>3, Zenon DEF IInv, OneCommand
  <2>6. OneOdd'
    BY <1>2, <1>6, <2>2, <2>3, Zenon DEF IInv, OneOdd
  <2>7. Place'
    BY <1>1, <1>2, <1>3, <1>4, <1>6, <2>1, <2>2, <2>3, ZenonT(60) DEF IInv, Place, Mine
  <2>8. Refusal'
    BY <1>2, <1>4, <1>6, <2>1, <2>2, <2>3, ZenonT(60) DEF IInv, Refusal
  <2>9. Address'
    BY <1>1, <1>2, <1>3, <1>4, <1>6, <2>1, <2>2, <2>3, ZenonT(60) DEF IInv, Address, Mine
  <2>10. Listens'
    BY <1>3, <1>6, <2>1, <2>2, <2>3, Zenon DEF IInv, Listens
  <2>11. Unused'
    BY <1>1, <1>2, <1>3, <1>4, <1>6, <2>1, <2>2, <2>3, ZenonT(60) DEF IInv, Unused, Before,
       Transfers
  <2>12. Bounds'
    BY <1>2, <1>3, <1>4, <1>6, <2>1, <2>2, <2>3, ZenonT(60) DEF IInv, Bounds, Left
  <2>13. Uploads'
    BY <1>2, <1>4, <1>6, <2>1, <2>2, <2>3, ZenonT(60) DEF IInv, Uploads, Plain
  <2>14. Downloads'
    BY <1>1, <1>2, <1>3, <1>4, <1>6, <2>1, <2>2, <2>3, SMTT(30) DEF IInv, Fields, Downloads
  <2> QED
    BY <2>4, <2>1, <2>5, <2>6, <2>7, <2>8, <2>9, <2>10, <2>11, <2>12, <2>13, <2>14, Zenon
       DEF IInv
<1> QED
  BY <1>5, <1>6, Zenon DEF ServerSends

(* The server gives a transfer up.                                         *)
LEMMA StepServerGivesUp ==
  ASSUME IInv, ServerGivesUp
  PROVE  IInv'
<1>1. TypeOK /\ Fields /\ FileSize \in Nat /\ Replies
  BY HasFields, FtpControlAssumption, Zenon DEF IInv
<1>2. /\ srv.up /\ srv.st # "idle" /\ ~srv.conn /\ s2p = <<>> /\ Idle("425") /\ Say("425")
      /\ clt.cmd = srv.st /\ c2p = <<>> /\ p2s = <<>> /\ ~Answered
      /\ clt' = clt /\ px' = px /\ lst' = lst /\ c2p' = c2p /\ p2s' = p2s /\ cd' = cd /\ sd' = sd
      /\ heard' = heard
  BY Zenon DEF ServerGivesUp, IInv, OneCommand
<1>3. ~Announced /\ clt.cmd \in Transfers
  BY <1>1, <1>2 DEF Announced, Pending, Fields, Transfers
<1>4. ~srv.refused /\ ~Over /\ px.pc # "go"
  BY <1>1, <1>2, <1>3, Zenon DEF IInv, Refusal, Over, Place, Mine, Fields
<1>5. /\ Replies' /\ ~Announced' /\ Answered' /\ ~Complete'
      /\ s2p' \in Seq(Codes) /\ sent' \in Seq(Codes)
  BY <1>1, <1>2, <1>3, SayEffect DEF AnswerTo, Codes, Finals
<1>6. /\ srv' \in Servers /\ srv'.up = srv.up /\ srv'.st = "idle" /\ ~srv'.lis /\ ~srv'.conn
      /\ srv'.left = srv.left /\ srv'.got = srv.got /\ srv'.stored = srv.stored
      /\ srv'.refused = srv.refused
  BY <1>1, <1>2, Zenon DEF TypeOK, Servers, Idle
<1>7. TypeOK'
  BY <1>1, <1>2, <1>3, <1>4, <1>5, <1>6, SMTT(30) DEF IInv, TypeOK, Servers, Codes
<1>8. OneCommand'
  BY <1>2, <1>4, <1>6, Zenon DEF IInv, OneCommand
<1>9. OneOdd'
  BY <1>2, <1>5, <1>6, Zenon DEF IInv, OneOdd
<1>10. Place'
  BY <1>1, <1>2, <1>3, <1>4, <1>5, <1>6, Zenon DEF IInv, Place, Mine
<1>11. Refusal'
  BY <1>2, <1>4, <1>5, <1>6, Zenon DEF IInv, Refusal
<1>12. Address'
  BY <1>1, <1>2, <1>3, <1>4, <1>5, <1>6, ZenonT(60) DEF IInv, Address, Mine
<1>13. Listens'
  BY <1>3, <1>5, <1>6, Zenon DEF IInv, Listens
<1>14. Unused'
  BY <1>1, <1>2, <1>3, <1>4, <1>5, <1>6, Zenon DEF IInv, Unused, Before
<1>15. Bounds'
  <2>1. Got' = 0 /\ Left' = 0 /\ (Linked' => Linked)
    BY <1>2, <1>6, Zenon DEF Got, Left, Linked
  <2>2. /\ clt.left + cd.n + 0 = clt.left + cd.n /\ clt.got + 0 <= FileSize
        /\ clt.got + sd.n + Left <= FileSize => clt.got + sd.n + 0 <= FileSize
    BY <1>1 DEF Fields, Left
  <2> QED
    BY <1>2, <1>6, <2>1, <2>2, Zenon DEF IInv, Bounds
<1>16. Uploads'
  BY <1>2, <1>4, <1>5, <1>6, Zenon DEF IInv, Uploads, Plain, Got
<1>17. Downloads'
  BY <1>2, <1>4, <1>5, <1>6, ZenonT(60) DEF IInv, Downloads
<1> QED
  BY <1>7, <1>5, <1>8, <1>9, <1>10, <1>11, <1>12, <1>13, <1>14, <1>15, <1>16, <1>17, Zenon
     DEF IInv

(* The server dies.                                                        *)
LEMMA StepServerDies ==
  ASSUME IInv, ServerDies
  PROVE  IInv'
<1>1. TypeOK /\ Fields /\ FileSize \in Nat
  BY HasFields, FtpControlAssumption, Zenon DEF IInv
<1>2. /\ srv.up /\ srv' = [srv EXCEPT !.up = FALSE, !.conn = FALSE, !.lis = FALSE] /\ p2s' = <<>>
      /\ clt' = clt /\ px' = px /\ lst' = lst /\ c2p' = c2p /\ s2p' = s2p /\ cd' = cd /\ sd' = sd
      /\ sent' = sent /\ heard' = heard /\ KeepsFlags
  BY SameFlags, Zenon DEF ServerDies
<1>3. /\ srv' \in Servers /\ ~srv'.up /\ srv'.st = srv.st /\ ~srv'.lis /\ ~srv'.conn
      /\ srv'.left = srv.left /\ srv'.got = srv.got /\ srv'.stored = srv.stored
      /\ srv'.refused = srv.refused
  BY <1>1, <1>2, ZenonT(60) DEF TypeOK, Servers
<1>4. TypeOK'
  BY <1>1, <1>2, <1>3 DEF IInv, TypeOK, Servers
<1>5. Replies'
  BY <1>2, Zenon DEF IInv, Replies, Pending
<1>6. OneCommand'
  BY <1>2, <1>3, Zenon DEF IInv, OneCommand, KeepsFlags
<1>7. OneOdd'
  BY <1>2, <1>3, ZenonT(60) DEF IInv, OneOdd
<1>8. Place'
  BY <1>1, <1>2, <1>3 DEF IInv, Fields, Place, Mine, Over, OneCommand, KeepsFlags, Passive,
     Transfers
<1>9. Refusal'
  BY <1>1, <1>2, <1>3, Zenon DEF IInv, Refusal
<1>10. Address'
  BY <1>1, <1>2, <1>3 DEF IInv, Fields, Address, Mine, Passive, Transfers
<1>11. Listens'
  BY <1>2, <1>3, Zenon DEF IInv, Listens
<1>12. Unused'
  BY <1>1, <1>2, <1>3, Zenon DEF IInv, Unused, Before, Linked
<1>13. Bounds'
  BY <1>1, <1>2, <1>3 DEF IInv, Fields, Bounds, Got, Left, Linked, Transfers
<1>14. Uploads'
  BY <1>2, <1>3, Zenon DEF IInv, Uploads, Plain, Got
<1>15. Downloads'
  BY <1>3, Zenon DEF IInv, Downloads
<1> QED
  BY <1>4, <1>5, <1>6, <1>7, <1>8, <1>9, <1>10, <1>11, <1>12, <1>13, <1>14, <1>15, Zenon DEF
     IInv

-----------------------------------------------------------------------------
(* The invariant holds throughout.                                         *)

(* It holds of a new session.                                              *)
LEMMA IInvInit == Init => IInv
<1> SUFFICES ASSUME Init PROVE IInv
  BY Zenon
<1>1. /\ clt.n = 0 /\ clt.cmd = "greeting" /\ clt.addr = "none" /\ clt.conn = "no" /\ clt.go = FALSE
      /\ clt.left = 0 /\ clt.got = 0 /\ clt.fetched = FileSize /\ ~clt.again /\ ~clt.gone
  BY Zenon DEF Init
<1>2. clt \in Clients
  <2>1. 0 \in 0 .. FileSize /\ FileSize \in 0 .. FileSize /\ 0 \in 0 .. MaxCommands
    BY FtpControlAssumption
  <2> QED
    BY <2>1, ZenonT(60) DEF Init, Clients
<1>3. /\ px.pc = "greet" /\ px.cmd = "noop" /\ px.data = "none" /\ ~px.nolst /\ ~px.cut /\ px \in Relays
      /\ lst = "none"
      /\ srv.up /\ srv.st = "idle" /\ ~srv.lis /\ ~srv.conn /\ srv.left = 0 /\ srv.got = 0
      /\ srv.stored = FileSize /\ ~srv.refused
      /\ c2p = <<>> /\ p2s = <<>> /\ s2p = <<"220">> /\ sent = <<"220">> /\ heard = <<>>
  BY Zenon DEF Init, Relays
<1>4. srv \in Servers /\ cd \in Channels /\ sd \in Channels
      /\ cd.n = 0 /\ ~cd.eof /\ sd.n = 0 /\ ~sd.eof
  <2>1. 0 \in 0 .. FileSize /\ FileSize \in 0 .. FileSize
    BY FtpControlAssumption
  <2> QED
    BY <2>1, Zenon DEF Init, Servers, Channels, NoData
<1>5. s2p \in Seq(Codes) /\ heard \in Seq(Codes) /\ sent \in Seq(Codes) /\ heard \o s2p = sent
      /\ Len(s2p) = 1 /\ DOMAIN s2p = {1} /\ s2p[1] = "220"
  BY <1>3 DEF Codes, Finals
<1>6. Pending = {"220"} /\ ~Announced /\ Answered /\ ~Complete
  BY <1>5, SMTT(30) DEF Pending, Announced, Answered, Complete, Finals
<1>7. TypeOK
  BY <1>2, <1>3, <1>4, <1>5 DEF TypeOK, Clients, Relays, Servers, Channels, Codes
<1>8. Replies
  BY <1>1, <1>5, <1>6 DEF Replies, AnswerTo
<1>9. OneCommand /\ OneOdd /\ Place /\ Refusal
  BY <1>1, <1>3, <1>6, Zenon DEF OneCommand, OneOdd, Place, Refusal, Passive, Transfers
<1>10. Address /\ Listens /\ Unused
  BY <1>1, <1>3, <1>4, Zenon DEF Address, Listens, Unused, Linked, Passive, Transfers
<1>11. Bounds /\ Uploads /\ Downloads
  BY <1>1, <1>3, <1>4, FtpControlAssumption DEF Bounds, Uploads, Downloads
<1> QED
  BY <1>7, <1>8, <1>9, <1>10, <1>11, Zenon DEF IInv

(* Nothing changes when no one takes a step.                               *)
LEMMA StepStutters ==
  ASSUME IInv, UNCHANGED vars PROVE IInv'
<1>1. /\ clt' = clt /\ px' = px /\ lst' = lst /\ srv' = srv /\ c2p' = c2p /\ p2s' = p2s /\ s2p' = s2p
      /\ cd' = cd /\ sd' = sd /\ sent' = sent /\ heard' = heard
  BY Zenon DEF vars
<1>2. KeepsFlags
  BY <1>1, SameFlags, Zenon
<1>3. TypeOK'
  BY <1>1, <1>2 DEF IInv, TypeOK
<1>4. Replies'
  BY <1>1, Zenon DEF IInv, Replies, Pending
<1>5. OneCommand'
  BY <1>1, <1>2, Zenon DEF IInv, OneCommand, KeepsFlags
<1>6. OneOdd'
  BY <1>1, Zenon DEF IInv, OneOdd
<1>7. Place'
  BY <1>1, <1>2, ZenonT(60) DEF IInv, Place, Mine, Over, KeepsFlags, Passive, Transfers
<1>8. Refusal'
  BY <1>1, <1>2, Zenon DEF IInv, Refusal, Over, KeepsFlags
<1>9. Address'
  BY <1>1, Zenon DEF IInv, Address, Mine
<1>10. Listens'
  BY <1>1, <1>2, Zenon DEF IInv, Listens, KeepsFlags
<1>11. Unused'
  BY <1>1, Zenon DEF IInv, Unused, Before, Linked
<1>12. Bounds'
  BY <1>1, <1>2, Zenon DEF IInv, Bounds, Got, Left, Linked, Transfers
<1>13. Uploads'
  BY <1>1, <1>2, Zenon DEF IInv, Uploads, Plain, Got
<1>14. Downloads'
  BY <1>1, <1>2, Zenon DEF IInv, Downloads, KeepsFlags
<1> QED
  BY <1>3, <1>4, <1>5, <1>6, <1>7, <1>8, <1>9, <1>10, <1>11, <1>12, <1>13, <1>14, ZenonT(60)
     DEF IInv

(* Every step of the session keeps it.                                     *)
LEMMA IInvNext == IInv /\ [Next]_vars => IInv'
<1> SUFFICES ASSUME IInv, [Next]_vars PROVE IInv'
  BY Zenon
<1>1. CASE Client
  BY <1>1, StepClientSends, StepClientConnects, StepClientData, Zenon DEF Client
<1>2. CASE Relay
  BY <1>2, StepTakeLine, StepRelayReplies, StepReply, StepPasvReply, StepAcceptConnect,
     StepUploadData, StepFallbackStops, StepDownloadData, StepIdleQuit, Zenon DEF Relay
<1>3. CASE Server
  BY <1>3, StepServerTakes, StepServerReads, StepServerSends, StepServerGivesUp, Zenon DEF
     Server
<1>4. CASE ClientLeaves \/ IcapHolds \/ ServerDies \/ SessionEnds
  BY <1>4, StepClientLeaves, StepIcapHolds, StepServerDies, StepSessionEnds, Zenon
<1> QED
  BY <1>1, <1>2, <1>3, <1>4, StepStutters, Zenon DEF Next

(* The invariant holds in every state of a session.                        *)
LEMMA IInvAlways == Spec => []IInv
BY IInvInit, IInvNext, PTL DEF Spec

-----------------------------------------------------------------------------
(* The control channel is relayed verbatim in every session: relay_control *)
(* and its five places that read from the server pass each reply on once,  *)
(* in order, whatever the client, the server and the data channels do.     *)
THEOREM RepliesAlwaysKept == Spec => []RepliesKept
<1>1. IInv => RepliesKept
  BY Zenon DEF IInv, Replies, RepliesKept
<1> QED
  BY <1>1, IInvAlways, PTL

(* In every session, the upload the server answers 226 to and the download *)
(* the client hears 226 of are of the whole file, but for the clients and  *)
(* the servers that TransfersWhole exempts (handle_upload_data_channel,    *)
(* handle_download_data_channel).                                          *)
THEOREM TransfersAlwaysWhole == Spec => []TransfersWhole
<1>1. IInv => TransfersWhole
  BY Zenon DEF IInv, Uploads, Downloads, Plain, TransfersWhole
<1> QED
  BY <1>1, IInvAlways, PTL
=============================================================================
