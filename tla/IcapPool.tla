------------------------------ MODULE IcapPool ------------------------------
(***************************************************************************)
(* The connection pool of one ICAP service (lib/g3-icap-client/src/        *)
(* service): the pool task, the pollers that own the idle connections, the *)
(* tasks it spawns to connect, and the adapters (reqmod/, respmod/) that   *)
(* fetch a connection, run one ICAP request over it and save it.           *)
(*                                                                         *)
(* A connection is a record: the two clean flags the code keeps and the    *)
(* facts they stand for, what has been written of a request and what of a  *)
(* response is still unread.  Whether its peer has closed it is left out:  *)
(* a poller may drop it at any time, and an exchange fail at any time.     *)
(* The service's options are left out as well: they may expire, and what   *)
(* the pool then does is open a connection, ask for them and save it.      *)
(* No exchange with the server has a time limit, that of the options       *)
(* included: only the wait for the pool has one, of 5 seconds.             *)
(***************************************************************************)
EXTENDS Integers, Sequences

CONSTANTS
    Clients,      \* callers, each runs the adapters of its requests in turn
    MinIdles,     \* values of connection_pool.min_idle_count
    MaxIdle,      \* connection_pool.max_idle_count
    MaxRounds,    \* bound: requests of a caller
    MaxFaults,    \* bound: refused connects, idle connections lost, options expired
    MaxCreating   \* bound: connects in flight at a tick, with the commands queued

ASSUME IcapPoolAssumption ==
    /\ MinIdles \subseteq Nat /\ MaxIdle \in Nat \ {0}
    /\ MaxRounds \in Nat /\ MaxFaults \in Nat /\ MaxCreating \in Nat

VARIABLES
    cli,       \* the callers: [pc, conn, round, kind]
    cmdq,      \* client_cmd_receiver (flume, unbounded)
    poolq,     \* pool_cmd_receiver
    reqq,      \* conn_req_receiver: poll requests, at most MaxIdle
    tasks,     \* fetch commands in a spawned task: [kind, req]
    pollers,   \* the idle connections
    ending,    \* pollers past their select, before fetch_sub
    idle,      \* idle_conn_count
    creating,  \* tasks of do_create in flight
    asking,    \* tasks of check's OPTIONS request in flight
    faults,
    min        \* connection_pool.min_idle_count

icapVars == <<cli, cmdq, poolq, reqq, tasks, pollers, ending, idle, creating, asking,
              faults, min>>

poolVars == <<poolq, reqq, tasks, pollers, ending, idle, creating, asking, min>>

-----------------------------------------------------------------------------
(* Connections.                                                            *)

\* IcapClientConnection::new: both flags are up
NewConn == [rclean |-> TRUE, wclean |-> TRUE, req |-> "none", rsp |-> "none", early |-> FALSE]

\* mark_io_inuse
InUse(x) == [x EXCEPT !.rclean = FALSE, !.wclean = FALSE]

\* reusable
Reusable(x) == x.rclean /\ x.wclean

\* A connect succeeds, or is refused while the bound allows it.
Connect(ok) == \/ ok /\ UNCHANGED faults
               \/ ~ok /\ faults < MaxFaults /\ faults' = faults + 1

-----------------------------------------------------------------------------
(* The adapters.                                                           *)

Resting(n) == [pc |-> "rest", conn |-> NewConn, round |-> n, kind |-> "none"]

\* The receiver of the oneshot channel of a fetch command is still there.
Waiting(r) == cli[r.c].pc = "wait" /\ cli[r.c].round = r.round

\* fetch_from_pool: sends the command and waits
FetchConnection(c) ==
    /\ cli[c].pc = "rest" /\ cli[c].round < MaxRounds
    /\ cli' = [cli EXCEPT ![c].pc = "wait", ![c].round = @ + 1]
    /\ cmdq' = Append(cmdq, [op |-> "fetch", req |-> [c |-> c, round |-> cli[c].round + 1]])
    /\ UNCHANGED <<poolVars, faults>>

\* (wrong) waits for the pool without a timeout
FetchForever(c) == FALSE /\ UNCHANGED icapVars

\* the 5 seconds of fetch_from_pool are over
FetchTimeout(c) ==
    /\ cli[c].pc = "wait"
    /\ cli' = [cli EXCEPT ![c].pc = "create"]
    /\ UNCHANGED <<cmdq, poolVars, faults>>

\* fetch_connection without the pool: create, and the request for the options
FetchFallback(c, ok) ==
    /\ cli[c].pc = "create" /\ Connect(ok)
    /\ cli' = [cli EXCEPT ![c].pc = IF ok THEN "options" ELSE "rest",
                          ![c].conn = InUse(NewConn)]
    /\ UNCHANGED <<cmdq, poolVars>>

\* get_options: the server answers, or the connection fails; nothing else ends
\* the wait.  mark_io_inuse then puts the flags down again.
GetOptions(c, ok) ==
    /\ cli[c].pc = "options"
    /\ cli' = [cli EXCEPT ![c].pc = IF ok THEN "use" ELSE "rest"]
    /\ UNCHANGED <<cmdq, poolVars, faults>>

\* the request's header and the first part of its body
SendHeader(c) ==
    /\ cli[c].pc = "use"
    /\ cli' = [cli EXCEPT ![c].pc = "send", ![c].conn.req = "part"]
    /\ UNCHANGED <<cmdq, poolVars, faults>>

\* body_transfer: the rest of the body; also while an adapted request comes in
SendBody(c) ==
    /\ cli[c].pc = "send" \/ (cli[c].pc = "body" /\ cli[c].kind = "request")
    /\ cli[c].conn.req = "part"
    /\ cli' = [cli EXCEPT ![c].conn.req = "sent"]
    /\ UNCHANGED <<cmdq, poolVars, faults>>

\* The adapter ends and drops its connection, or calls IcapServiceClient::
\* save_connection, whose spawned task hands x to the pool.  A request that was
\* answered and sent to its end leaves nothing on the connection.
Done(c, save, x) ==
    /\ cli' = [cli EXCEPT ![c] = Resting(cli[c].round)]
    /\ cmdq' = IF save /\ Reusable(x)
                 THEN Append(cmdq, [op |-> "save", conn |->
                        [x EXCEPT !.req = IF @ = "sent" THEN "none" ELSE @]])
                 ELSE cmdq
    /\ UNCHANGED <<poolVars, faults>>

\* The server answers, maybe before it has the whole request; early remembers
\* that it did so while the connection counted as clean.
Answered(x) == [x EXCEPT !.early = @ \/ (x.req = "part" /\ x.wclean)]

\* mark_writer_finished, called when body_transfer.finished()
WriterMarked(x) == IF x.req = "sent" THEN [x EXCEPT !.wclean = TRUE] ELSE Answered(x)

\* (wrong) an announced body is not waited for
RecvHeaderNoBody(c, kind) ==
    /\ cli[c].pc = "send"
    /\ \E keep \in BOOLEAN :
         Done(c, keep, [WriterMarked(cli[c].conn) EXCEPT !.rclean = TRUE, !.rsp = "body"])

\* the answer announces a body: an adapted request's or a response's; after a
\* request that was sent to its end they are read alike, and one stands for both
RecvHeader(c, kind) ==
    /\ cli[c].pc = "send"
    /\ cli[c].conn.req = "sent" => kind = "response"
    /\ cli' = [cli EXCEPT ![c].pc = "body", ![c].kind = kind,
                 ![c].conn = [WriterMarked(@) EXCEPT !.rsp = "body"]]
    /\ UNCHANGED <<cmdq, poolVars, faults>>

\* the answer has no body: NoPayload, HttpRequestWithoutBody,
\* HttpResponseWithoutBody; it keeps the connection alive or not
RecvAll(c, keep) ==
    /\ cli[c].pc = "send"
    /\ Done(c, keep, [WriterMarked(cli[c].conn) EXCEPT !.rclean = TRUE])

\* the body is read to its end.  After an adapted request the connection is saved
\* only if the original was sent; after a response the flags alone decide.
RecvBody(c, keep) ==
    /\ cli[c].pc = "body"
    /\ LET x == [WriterMarked(cli[c].conn) EXCEPT !.rsp = "none", !.rclean = TRUE] IN
         Done(c, keep /\ (cli[c].kind = "request" => x.req = "sent"), x)

\* an error on any side: the adapter is dropped, and its connection with it
UseFails(c) ==
    /\ cli[c].pc \in {"use", "send", "body"}
    /\ Done(c, FALSE, NewConn)

-----------------------------------------------------------------------------
(* The pool task: check first, then the adapters, then its own tasks.      *)

\* (wrong) refreshes the options and leaves the connections to the pollers
CheckOptionsOnly(expired) ==
    LET ask == IF expired THEN 1 ELSE 0 IN
    /\ asking' = asking + ask
    /\ faults + ask <= MaxFaults /\ faults' = faults + ask
    /\ UNCHANGED <<cli, cmdq, poolq, reqq, tasks, pollers, ending, idle, creating, min>>

\* check, on every tick of the interval: an OPTIONS request if they have expired,
\* and the connections missing to min_idle_count
Check(expired) ==
    LET need == IF idle < min THEN min - idle ELSE 0
        ask == IF expired THEN 1 ELSE 0 IN
    /\ creating + Len(poolq) + need <= MaxCreating
    /\ creating' = creating + need /\ asking' = asking + ask
    /\ faults + ask <= MaxFaults /\ faults' = faults + ask
    /\ UNCHANGED <<cli, cmdq, poolq, reqq, tasks, pollers, ending, idle, min>>

\* IcapServicePool::save_connection, with IcapConnectionEofPoller::new
SaveConnection(x) ==
    IF Reusable(x) THEN idle' = idle + 1 /\ pollers' = Append(pollers, x)
                   ELSE UNCHANGED <<idle, pollers>>

HandleFetch(m) ==
    /\ tasks' = tasks \cup {[kind |-> IF idle > 0 THEN "poll" ELSE "connect",
                             req |-> m.req]}
    /\ UNCHANGED <<idle, pollers>>

\* a connection that comes back is kept while idle_conn_count <= max_idle_count
HandleSave(m) ==
    /\ IF idle <= MaxIdle THEN SaveConnection(m.conn) ELSE UNCHANGED <<idle, pollers>>
    /\ UNCHANGED tasks

HandleClientCmd ==
    /\ cmdq # <<>>
    /\ LET m == Head(cmdq) IN \/ m.op = "fetch" /\ HandleFetch(m)
                              \/ m.op = "save" /\ HandleSave(m)
    /\ cmdq' = Tail(cmdq)
    /\ UNCHANGED <<cli, poolq, reqq, creating, asking, ending, faults, min>>

\* handle_pool_cmd; the select is biased, so the adapters' commands go first
HandlePoolCmd ==
    /\ cmdq = <<>> /\ poolq # <<>>
    /\ poolq' = Tail(poolq)
    /\ LET m == Head(poolq) IN
         \/ /\ m.op = "save" /\ SaveConnection(m.conn)
            /\ UNCHANGED creating
         \/ /\ m.op = "create" /\ idle < MaxIdle
            /\ creating' = creating + 1
            /\ UNCHANGED <<pollers, idle>>
         \/ /\ m.op = "create" /\ idle >= MaxIdle
            /\ UNCHANGED <<pollers, idle, creating>>
    /\ UNCHANGED <<cli, cmdq, reqq, tasks, ending, asking, faults, min>>

-----------------------------------------------------------------------------
(* The tasks the pool spawns.                                              *)

\* req_sender.send_async: waits for a place in the channel
PollTask(t) ==
    /\ t.kind = "poll" /\ Len(reqq) < MaxIdle
    /\ tasks' = tasks \ {t} /\ reqq' = Append(reqq, t.req)
    /\ UNCHANGED <<cli, cmdq, poolq, pollers, ending, idle, creating, asking, faults, min>>

\* sender.send: x goes to the adapter if it still waits and is dropped otherwise
Give(r, x) ==
    cli' = IF Waiting(r) THEN [cli EXCEPT ![r.c].pc = "use", ![r.c].conn = x] ELSE cli

\* conn_creator.create for one fetch: the connection goes to the adapter with
\* its flags up; when the connect fails the sender is dropped
ConnectTask(t, ok) ==
    /\ t.kind = "connect" /\ Connect(ok)
    /\ tasks' = tasks \ {t}
    /\ \/ ok /\ Give(t.req, NewConn)
       \/ /\ ~ok
          /\ cli' = IF Waiting(t.req) THEN [cli EXCEPT ![t.req.c].pc = "create"] ELSE cli
    /\ UNCHANGED <<cmdq, poolq, reqq, pollers, ending, idle, creating, asking, min>>

\* do_create
CreateTask(ok) ==
    /\ creating > 0 /\ creating' = creating - 1
    /\ Connect(ok)
    /\ poolq' = IF ok THEN Append(poolq, [op |-> "save", conn |-> NewConn]) ELSE poolq
    /\ UNCHANGED <<cli, cmdq, reqq, tasks, pollers, ending, idle, asking, min>>

\* the task of check's OPTIONS request: it saves its connection, marked clean
\* again, once the options were received and sent to the pool (UpdateOptions)
OptionsTask(ok) ==
    /\ asking > 0 /\ asking' = asking - 1
    /\ poolq' = IF ok THEN Append(poolq, [op |-> "save", conn |-> NewConn]) ELSE poolq
    /\ UNCHANGED <<cli, cmdq, reqq, tasks, pollers, ending, idle, creating, faults, min>>

-----------------------------------------------------------------------------
(* The pollers.                                                            *)

\* the elements of s but the i-th
Without(s, i) == [j \in 1 .. Len(s) - 1 |-> IF j < i THEN s[j] ELSE s[j + 1]]

\* fill_wait_data or the idle timeout: the connection is dropped
PollerDrops(i) ==
    /\ faults < MaxFaults /\ faults' = faults + 1
    /\ pollers' = Without(pollers, i) /\ ending' = ending + 1
    /\ UNCHANGED <<cli, cmdq, poolq, reqq, tasks, idle, creating, asking, min>>

\* req_receiver.recv_async: whichever poller comes first takes the request; the
\* select is not biased, so a connection at its end may be given away as well
PollerGives(i) ==
    /\ reqq # <<>>
    /\ Give(Head(reqq), pollers[i])
    /\ reqq' = Tail(reqq)
    /\ pollers' = Without(pollers, i) /\ ending' = ending + 1
    /\ UNCHANGED <<cmdq, poolq, tasks, idle, creating, asking, faults, min>>

\* (wrong) the task ends with its select, the count keeps its connection
PollerEndsSilently ==
    /\ ending > 0 /\ ending' = ending - 1
    /\ UNCHANGED <<idle, cli, cmdq, poolq, reqq, tasks, pollers, creating, asking, faults, min>>

\* after the select: fetch_sub, and a new connection when the count was low
PollerEnds ==
    /\ ending > 0 /\ ending' = ending - 1
    /\ idle' = idle - 1
    /\ poolq' = IF idle < min THEN Append(poolq, [op |-> "create"]) ELSE poolq
    /\ UNCHANGED <<cli, cmdq, reqq, tasks, pollers, creating, asking, faults, min>>

-----------------------------------------------------------------------------
IcapInit ==
    /\ cli = [c \in Clients |-> Resting(0)]
    /\ cmdq = <<>> /\ poolq = <<>> /\ reqq = <<>> /\ tasks = {} /\ pollers = <<>>
    /\ ending = 0 /\ idle = 0 /\ creating = 0 /\ asking = 0 /\ faults = 0
    /\ min \in MinIdles

\* what fetch_connection does by itself
Fetch(c) == FetchTimeout(c) \/ \E ok \in BOOLEAN : FetchFallback(c, ok)

\* what needs the server, or the client whose request is adapted
WithServer(c) ==
    \/ \E ok \in BOOLEAN : GetOptions(c, ok)
    \/ SendHeader(c) \/ SendBody(c)
    \/ \E kind \in {"request", "response"} : RecvHeader(c, kind)
    \/ \E keep \in BOOLEAN : RecvAll(c, keep) \/ RecvBody(c, keep)
    \/ UseFails(c)

PoolLoop == HandleClientCmd \/ HandlePoolCmd

Spawned ==
    \/ \E t \in tasks : PollTask(t) \/ \E ok \in BOOLEAN : ConnectTask(t, ok)
    \/ \E ok \in BOOLEAN : CreateTask(ok)
    \/ PollerEnds

IcapNext ==
    \/ \E c \in Clients : FetchConnection(c) \/ Fetch(c) \/ WithServer(c)
    \/ \E expired \in BOOLEAN : Check(expired)
    \/ \E ok \in BOOLEAN : OptionsTask(ok)
    \/ PoolLoop \/ Spawned
    \/ \E i \in DOMAIN pollers : PollerDrops(i) \/ PollerGives(i)

IcapSpec == IcapInit /\ [][IcapNext]_icapVars

\* Every task that can go on is polled again, a connect succeeds or fails, the
\* pool's interval ticks, and a request in the channel wakes a poller.  Nothing
\* makes the server answer: neither the requests nor OPTIONS.
FairSpec ==
    /\ IcapSpec
    /\ \A c \in Clients : WF_icapVars(Fetch(c))
    /\ WF_icapVars(Check(FALSE)) /\ WF_icapVars(PoolLoop) /\ WF_icapVars(Spawned)
    /\ WF_icapVars(\E i \in DOMAIN pollers : PollerGives(i))

-----------------------------------------------------------------------------
(* Properties.                                                             *)

Connections == [rclean : BOOLEAN, wclean : BOOLEAN, req : {"none", "part", "sent"},
                rsp : {"none", "body"}, early : BOOLEAN]

\* The values the pool's variables take, the bounds of the model included.
IcapTypes ==
    /\ cli \in [Clients -> [pc : {"rest", "wait", "create", "options", "use", "send", "body"},
                            conn : Connections, round : 0..MaxRounds,
                            kind : {"none", "request", "response"}]]
    /\ Len(reqq) <= MaxIdle
    /\ \A i \in DOMAIN pollers : pollers[i] \in Connections
    /\ ending \in Nat /\ idle \in Nat
    /\ creating \in Nat /\ asking \in Nat /\ faults \in 0..MaxFaults

\* idle_conn_count counts the pollers, those about to leave included (pool.rs
\* save_connection): while it is positive a poller is there that answers a request
\* or is about to lower it.  The channel of poll requests keeps to its size.
IdleCount == IcapTypes /\ idle = Len(pollers) + ending

\* A connection that comes out of the pool, or waits in it, carries nothing of an
\* earlier request: never an unread response, and a request body cut short only if
\* the server answered before it had the request, on a connection the pool gave out
\* without mark_io_inuse (connection.rs reusable, and the adapters that mark and
\* save).
HandedClean ==
    LET clean(x) == x.rsp = "none" /\ (x.req = "part" => x.early) IN
    /\ \A c \in Clients : cli[c].pc = "use" => clean(cli[c].conn)
    /\ \A i \in DOMAIN pollers : clean(pollers[i])

\* An adapter that asked for a connection gets one or an error, also when its
\* poll request is left in the channel with no poller to take it (client.rs
\* fetch_from_pool and its timeout), unless it went past the pool and the server
\* never answers its OPTIONS request, for which fetch_connection has no timeout.
FetchEnds ==
    \A c \in Clients :
        cli[c].pc = "wait" ~> \/ cli[c].pc \notin {"wait", "create", "options"}
                              \/ [](cli[c].pc = "options")

\* Once no more connections are lost the pool comes to its min_idle_count and
\* stays there, whatever was given away before to adapters and to requests nobody
\* waits for any more, and though a server that accepts connections may never
\* answer on them, OPTIONS included (pool.rs check, save_connection and the
\* commands between).
PoolRefills == <>[](idle >= min)

=============================================================================
