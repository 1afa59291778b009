----------------------------- MODULE FtpTunnel -----------------------------
(***************************************************************************)
(* FTP through HTTP CONNECT tunnels: a client runs several FTP sessions    *)
(* with one server, each a tunnel for the control channel and one for each *)
(* data channel. The relay of a control channel (inspect/ftp/object.rs)    *)
(* marks an upload in a state that all tunnels share                       *)
(* (serve/ftp_proxy/upload_state.rs), and the data channels                *)
(* (serve/http_proxy/task/connect/task.rs, inspect/stream/object.rs,       *)
(* inspect/ftp/upload_data.rs) take the marks to know what to audit.       *)
(*                                                                         *)
(* Nothing but the addresses of client and server links a data channel to  *)
(* a mark, so all marks here are of one pair. The server has an auditor    *)
(* with an ICAP service; whether it inspects a tunnel that is not known to *)
(* be FTP depends on the user and on a ratio of the tasks. The data is     *)
(* such that the inspection finds no known protocol in it, and in time.    *)
(***************************************************************************)
EXTENDS Integers, Sequences, FiniteSets

CONSTANTS
    Sessions,     \* control channels of the client to the server
    Names,        \* (command, path) of the uploads
    MaxTransfers, \* transfers of a session
    MaxPending,   \* max_pending_per_pair
    Ttl,          \* upload_ttl = domain_ttl
    MaxTime       \* bound of the clock

ASSUME FtpTunnelAssumption ==
    /\ {MaxTransfers, MaxPending, MaxTime} \subseteq Nat /\ Ttl \in Nat \ {0}
    /\ "none" \notin Names

VARIABLES
    now,    \* the clock
    marks,  \* pending_uploads of the pair: [name, at, by]; by names the upload
    domain, \* when ftps_domains was set for the pair, or none
    ses,    \* per session: [pc, kind, name, n] of the client and the control relay
    data,   \* per session: its data channel: [st, info]
    res,    \* per session: what its last transfer was audited as
    fate    \* per session: what became of the mark of its last upload

tunnelVars == <<now, marks, domain, ses, data, res, fate>>

None == [name |-> "none", age |-> 0]
Never == 0 - Ttl
Own(s) == <<s, ses[s].n>>

-----------------------------------------------------------------------------
(* FtpUploadState.                                                         *)

Fresh(at) == now - at < Ttl

\* Expired marks are removed from the front only; a refreshed mark keeps its place.
Trimmed(q) ==
    LET fresh == {i \in DOMAIN q : Fresh(q[i].at)}
        first == IF fresh = {} THEN Len(q) + 1 ELSE CHOOSE i \in fresh : \A j \in fresh : i <= j
    IN  SubSeq(q, first, Len(q))

\* Uploads whose mark is no longer in the queue.
Fates(q, f) ==
    [s \in Sessions |-> IF f[s] = "queued" /\ \A i \in DOMAIN q : q[i].by # Own(s)
                          THEN "gone" ELSE f[s]]

\* An operation leaves q behind; maybe_trigger_cleanup at its end is due after a number
\* of operations and removes what has expired.
Leave(q, f) == \E c \in {q, Trimmed(q)} : marks' = c /\ fate' = Fates(c, f)

\* mark_upload: a mark of the same name is refreshed in its place; above the limit
\* the mark is dropped; both return early
Mark(s) ==
    LET same == {i \in DOMAIN marks : marks[i].name = ses[s].name} IN
      IF same # {}
        THEN /\ marks' = [i \in DOMAIN marks |->
                            IF i \in same THEN [marks[i] EXCEPT !.at = now] ELSE marks[i]]
             /\ fate' = [fate EXCEPT ![s] = "merged"]
      ELSE IF Len(marks) >= MaxPending
        THEN fate' = [fate EXCEPT ![s] = "full"] /\ UNCHANGED marks
      ELSE Leave(Append(marks, [name |-> ses[s].name, at |-> now, by |-> Own(s)]),
                 [fate EXCEPT ![s] = "queued"])

Info(q) == IF q = <<>> THEN None ELSE [name |-> q[1].name, age |-> now - q[1].at]

\* (wrong) the front is taken without a look at its age
OldestOfAll == Info(marks)

\* consume_upload: the oldest mark, those before it that have expired removed with it
Oldest == Info(Trimmed(marks))

Consume == LET q == Trimmed(marks) IN Leave(IF q = <<>> THEN q ELSE Tail(q), fate)

-----------------------------------------------------------------------------
(* The control channels.                                                   *)

SesTo(s, pc) == ses' = [ses EXCEPT ![s].pc = pc]

\* the control tunnel is recognised and the server's domain marked, unless it is not
\* among the max_domains that are known (an expired one may still be)
Control(s) ==
    /\ ses[s].pc = "new"
    /\ SesTo(s, "idle")
    /\ \/ domain' = now /\ Leave(marks, fate)
       \/ ~Fresh(domain) /\ UNCHANGED <<domain, marks, fate>>
    /\ UNCHANGED <<now, data, res>>

\* The client asks for a transfer; its data channel may already be open.
ClientAsks(s, k, f) ==
    /\ ses[s].pc = "idle" /\ ses[s].n < MaxTransfers
    /\ ses' = [ses EXCEPT ![s] = [pc |-> "asked", kind |-> k, name |-> f, n |-> @.n + 1]]
    /\ res' = [res EXCEPT ![s] = None]
    /\ fate' = [fate EXCEPT ![s] = "none"]
    /\ UNCHANGED <<now, marks, domain, data>>

\* (wrong) the command is passed on first and marked some time after
RelayMarkLate(s) ==
    /\ \/ ses[s].pc = "asked" /\ SesTo(s, "marked") /\ UNCHANGED <<marks, fate>>
       \/ /\ ses[s].pc \in {"marked", "go"} /\ ses[s].kind = "stor" /\ fate[s] = "none"
          /\ Mark(s) /\ UNCHANGED ses
    /\ UNCHANGED <<now, domain, data, res>>

\* relay_control_channel reads the command; an upload is marked before it is passed
\* on
RelayMark(s) ==
    /\ ses[s].pc = "asked"
    /\ SesTo(s, "marked")
    /\ IF ses[s].kind = "stor" THEN Mark(s) ELSE UNCHANGED <<marks, fate>>
    /\ UNCHANGED <<now, domain, data, res>>

\* the command reaches the server, which accepts or refuses it, and its reply the
\* client, which then closes the data channel
ServerReplies(s, ok) ==
    /\ ses[s].pc = "marked"
    /\ SesTo(s, IF ok THEN "go" ELSE "idle")
    /\ data' = IF ok THEN data ELSE [data EXCEPT ![s] = [st |-> "none", info |-> None]]
    /\ UNCHANGED <<now, marks, domain, res, fate>>

-----------------------------------------------------------------------------
(* The data channels.                                                      *)

ClientOpens(s) ==
    /\ ses[s].pc \in {"idle", "asked", "marked", "go"} /\ data[s].st = "none"
    /\ data' = [data EXCEPT ![s].st = "open"]
    /\ UNCHANGED <<now, marks, domain, ses, res, fate>>

\* relay of the CONNECT task: for a server known by its domain the stream is inspected;
\* for another a mark is taken at once, and without one audit_task decides whether it
\* is inspected as well or passed through (transit_transparent)
DataConnects(s, audit_task) ==
    /\ data[s].st = "open"
    /\ IF Fresh(domain)
         THEN data' = [data EXCEPT ![s].st = "inspect"] /\ Leave(marks, fate)
         ELSE /\ Consume
              /\ data' = [data EXCEPT ![s] =
                            [st |-> IF Oldest # None THEN "audit"
                                    ELSE IF audit_task THEN "inspect" ELSE "transit",
                             info |-> Oldest]]
    /\ UNCHANGED <<now, domain, ses, res>>

\* transit_with_inspection: no data within data0_wait_timeout
DataTimeout(s) ==
    /\ data[s].st = "inspect" /\ ses[s].pc # "go"
    /\ data' = [data EXCEPT ![s].st = "none"]
    /\ UNCHANGED <<now, marks, domain, ses, res, fate>>

\* The data channel knows what it is audited as, or that it is not.
Settle(s, info) ==
    /\ res' = [res EXCEPT ![s] = info]
    /\ SesTo(s, "done")
    /\ data' = [data EXCEPT ![s] = [st |-> "none", info |-> None]]

\* The first data, of the client or of the server, decides: a mark is taken for either
\* (transit_with_inspection, Protocol::Unknown). Without a mark the data of the client
\* of a server known by its domain goes to intercept_pending.
FirstByte(s) ==
    /\ ses[s].pc = "go"
    /\ \/ /\ data[s].st = "audit"
          /\ Settle(s, data[s].info) /\ UNCHANGED <<marks, fate>>
       \/ /\ data[s].st = "transit"
          /\ Settle(s, None) /\ fate' = [fate EXCEPT ![s] = "unseen"] /\ UNCHANGED marks
       \/ /\ data[s].st = "inspect" /\ Consume
          /\ IF Oldest = None /\ Fresh(domain) /\ ses[s].kind = "stor"
               THEN data' = [data EXCEPT ![s].st = "pending"] /\ UNCHANGED <<ses, res>>
               ELSE Settle(s, Oldest)
    /\ UNCHANGED <<now, domain>>

\* intercept_pending reads the same data and looks again.
PendingByte(s) ==
    /\ data[s].st = "pending"
    /\ Consume /\ Settle(s, Oldest)
    /\ UNCHANGED <<now, domain>>

\* The transfer ends.
TransferEnds(s) ==
    /\ ses[s].pc = "done"
    /\ SesTo(s, "idle")
    /\ UNCHANGED <<now, marks, domain, data, res, fate>>

Tick ==
    /\ now < MaxTime
    /\ now' = now + 1
    /\ UNCHANGED <<marks, domain, ses, data, res, fate>>

-----------------------------------------------------------------------------
TunnelInit ==
    /\ now = 0 /\ marks = <<>> /\ domain = Never
    /\ ses = [s \in Sessions |-> [pc |-> "new", kind |-> "stor", name |-> "none", n |-> 0]]
    /\ data = [s \in Sessions |-> [st |-> "none", info |-> None]]
    /\ res = [s \in Sessions |-> None]
    /\ fate = [s \in Sessions |-> "none"]

TunnelNext ==
    \/ Tick
    \/ \E s \in Sessions :
         \/ Control(s) \/ RelayMark(s) \/ ClientOpens(s)
         \/ \E audit_task \in BOOLEAN : DataConnects(s, audit_task)
         \/ DataTimeout(s) \/ FirstByte(s) \/ PendingByte(s) \/ TransferEnds(s)
         \/ \E f \in Names : ClientAsks(s, "stor", f)
         \/ ClientAsks(s, "retr", "none")
         \/ \E ok \in BOOLEAN : ServerReplies(s, ok)

TunnelSpec == TunnelInit /\ [][TunnelNext]_tunnelVars

-----------------------------------------------------------------------------
\* The tables of upload_state.rs and the connections hold values of their types,
\* and the queue keeps to max_pending_per_pair.
TunnelTypes ==
    LET Infos == [name: Names \cup {"none"}, age: 0..MaxTime] IN
      /\ now \in 0..MaxTime /\ domain \in {Never} \cup 0..MaxTime
      /\ Len(marks) <= MaxPending
      /\ \A i \in DOMAIN marks :
           marks[i] \in [name: Names, at: 0..MaxTime, by: Sessions \X (1..MaxTransfers)]
      /\ ses \in [Sessions -> [pc: {"new", "idle", "asked", "marked", "go", "done"},
                               kind: {"stor", "retr"}, name: Names \cup {"none"}, n: 0..MaxTransfers]]
      /\ data \in [Sessions -> [st: {"none", "open", "inspect", "pending", "audit", "transit"}, info: Infos]]
      /\ res \in [Sessions -> Infos]
      /\ fate \in [Sessions -> {"none", "queued", "merged", "full", "gone", "unseen"}]

\* An upload goes unaudited only for a reason outside its own tunnels: its mark was
\* merged with one of the same name, dropped at the limit, expired, or taken by another
\* data channel; or its data channel was passed through unseen, having connected before
\* the mark was made to a server whose domain was not known, for a task that is not
\* inspected. An inspected channel never looks before the mark is made, in whichever
\* order the client opens the channel and sends the command.
UnauditedExplained ==
    \A s \in Sessions :
      ses[s].pc = "done" /\ ses[s].kind = "stor" /\ res[s] = None
        => fate[s] \in {"merged", "full", "gone", "unseen"}

\* The queue of marks keeps to its limit, and the mark a data channel is audited under
\* was made or refreshed within its lifetime (mark_upload, consume_upload).
AuditedFresh == TunnelTypes /\ \A s \in Sessions : {res[s].age, data[s].info.age} \subseteq 0..(Ttl - 1)
=============================================================================
