------------------------------ MODULE RoundTrip ------------------------------
(***************************************************************************)
(* The upload side of a running AsyncProxySession                          *)
(* (x_tunnel/local/async_proxy_session.py): round-trip workers take blocks *)
(* from the send buffer, carry them to the server in numbered transfers    *)
(* over HTTP requests that may be lost, repeated or answered late, resend  *)
(* blocks that stay unacknowledged and retry transfers that time out.      *)
(*                                                                         *)
(* The workers are asyncio tasks, so a step is what one task does between  *)
(* two suspension points: session.lock and the buffers' locks are never    *)
(* held across one here, only get_data_lock is (by the worker waiting in   *)
(* get_send_data).  Clocks are not modelled: a delay or a timeout that the *)
(* code compares with the clock may or may not have passed.  The server is *)
(* not part of the repository; it is modelled from what the client expects *)
(* of it.  Logging in, stopping and resetting the session are in another   *)
(* module; downloaded data is in another one too, here a response only has *)
(* a size.                                                                 *)
(***************************************************************************)
EXTENDS SendBuffer, FiniteSets, FiniteSetsExt

CONSTANTS Workers,         \* the round_trip_worker tasks, concurent_thread_num of them
          MinOnRoad,       \* min_on_road
          HeadLen,         \* bytes of the sn and length in front of a block
          MaxConns,        \* bound: connections created
          MaxPolls,        \* bound: transfers made without upload data
          MaxResends,      \* bound: blocks resent while still being carried
          MaxLosses        \* bound: exchanges that fail

ASSUME RoundTripAssumption ==
  /\ IsFiniteSet(Workers)
  /\ MinOnRoad \in Nat \ {0}
  /\ MinOnRoad < Cardinality(Workers)
  /\ HeadLen \in Nat
  /\ MaxConns \in Nat /\ MaxPolls \in Nat /\ MaxResends \in Nat /\ MaxLosses \in Nat

VARIABLES
  wait_ack_send_list,      \* sn -> slice, blocks sent and kept for resending
  acked,                   \* the sns whose entry there was replaced by "acked"
  ack_send_continue_sn,    \* blocks up to here are acked and forgotten
  transfer_list,           \* transfer_no -> its stat and what the server said of it
  last_transfer_no,
  send_data,               \* transfer_no -> blocks it carries, fixed when it is made
  target_on_roads,
  on_road_num,
  last_conn_id,            \* 2 * number of connections created
  conns,                   \* len(conn_list)
  pc,                      \* what each worker is doing
  road,                    \* transfer_no of each worker's request
  reply,                   \* the answer on its way to, or held by, each worker
  server_blocks,           \* external: the blocks the server has got
  server_received,         \* external: the transfers it has got ...
  server_sent,             \* external: ... and answered
  spent                    \* history: how much of the last three bounds is used up

workVars == <<wait_ack_send_list, acked, ack_send_continue_sn>>
listVars == <<transfer_list, last_transfer_no, send_data>>
connVars == <<last_conn_id, conns>>
netVars == <<reply, server_blocks, server_received, server_sent>>
vars == <<bufVars, workVars, listVars, target_on_roads, on_road_num, connVars,
          pc, road, netVars, spent>>

Block(sn, slice) == [sn |-> sn, lo |-> slice.lo, hi |-> slice.hi]
SnsOf(blocks) == {b.sn : b \in blocks}
Least(a, b) == IF a < b THEN a ELSE b
Greatest(a, b) == IF a > b THEN a ELSE b
MaxOf(S) == IF S = {} THEN 0 ELSE Max(S)

\* The limit that create_conn, a full response and the timeout checks keep to.
RoadLimit == Cardinality(Workers) - MinOnRoad

\* What transfer_list keeps of a transfer besides its data.
NewTransfer == [stat |-> "request", server_received |-> FALSE, server_sent |-> FALSE]

NoReply == [last |-> 0, extra |-> {}, received |-> {}, sent |-> {}, given |-> FALSE]

InitRoundTrip ==
  /\ InitBuffer
  /\ wait_ack_send_list = [sn \in {} |-> Slice(0, 0)]
  /\ acked = {}
  /\ ack_send_continue_sn = 0
  /\ transfer_list = [no \in {} |-> NewTransfer]
  /\ last_transfer_no = 0
  /\ send_data = [no \in {} |-> {}]
  /\ target_on_roads = 0
  /\ on_road_num = 0
  /\ last_conn_id = 0
  /\ conns = 0
  /\ pc = [w \in Workers |-> "loop"]
  /\ road = [w \in Workers |-> 0]
  /\ reply = [w \in Workers |-> NoReply]
  /\ server_blocks = {}
  /\ server_received = {}
  /\ server_sent = {}
  /\ spent = [polls |-> 0, resends |-> 0, losses |-> 0]

-----------------------------------------------------------------------------
(***************************************************************************)
(* Connections                                                             *)
(***************************************************************************)
\* create_conn: the connect command goes into the send buffer, then the
\* connection is registered and two more requests are wanted on the road.
CreateConn(n) ==
  /\ last_conn_id < 2 * MaxConns
  /\ Add(n)
  /\ last_conn_id' = last_conn_id + 2
  /\ conns' = conns + 1
  /\ target_on_roads' = Least(RoadLimit, target_on_roads + 2)
  /\ UNCHANGED <<workVars, listVars, on_road_num, pc, road, netVars, spent>>

\* send_conn_data: data, acks and the close of a connection; the close may
\* come after the connection has left conn_list.
SendConnData(n) ==
  /\ last_conn_id > 0
  /\ Add(n)
  /\ UNCHANGED <<workVars, listVars, target_on_roads, on_road_num, connVars,
                 pc, road, netVars, spent>>

\* remove_conn_async, also for a connection that close_all_connections has
\* taken off the list already: the target is cleared again then.
RemoveConn ==
  /\ last_conn_id > 0
  /\ \/ UNCHANGED conns
     \/ conns > 0 /\ conns' = conns - 1
  /\ target_on_roads' = IF conns' = 0 THEN 0 ELSE target_on_roads
  /\ UNCHANGED <<bufVars, workVars, listVars, on_road_num, last_conn_id,
                 pc, road, netVars, spent>>

-----------------------------------------------------------------------------
(***************************************************************************)
(* Round-trip workers: getting something to send                           *)
(***************************************************************************)
\* get_data_lock is held across a suspension by a worker that waits in
\* get_send_data, and by no other.
DataLockFree == \A w \in Workers : pc[w] # "data"

TimedOut == {no \in DOMAIN transfer_list : transfer_list[no].stat = "timeout"}
Unacked == DOMAIN wait_ack_send_list \ acked

\* The worker is at the point of get_upload_data where it makes a new
\* transfer: it has just got the lock and found nothing to retry, or it has
\* waited in get_send_data.
MayMakeTransfer(w) == \/ pc[w] = "data"
                      \/ pc[w] = "loop" /\ DataLockFree /\ TimedOut = {}

\* Length in the request of the blocks numbered sns of wait_ack_send_list.
SentLen(sns) == MapThenSumSet(LAMBDA sn : HeadLen + Size(wait_ack_send_list[sn]), sns)

\* (Mutant: nothing is sent again.)
ResentNone(expired) == {}

\* get_data goes through the expired blocks in order and stops as soon as
\* it has more than MaxPayload bytes.
Resent(expired) ==
  {sn \in expired : SentLen({earlier \in expired : earlier < sn}) <= MaxPayload}

\* (Mutant: a new block is taken whatever is resent with it.)
TakesNewAlways(resent, delayed) == \/ pool_size > MaxPayload
                                   \/ pool_size > 0 /\ delayed

\* Whether get_data then takes a new block from the send buffer.
TakesNew(resent, delayed) ==
  /\ SentLen(resent) <= MaxPayload
  /\ \/ pool_size > MaxPayload
     \/ pool_size > 0 /\ delayed

\* Blocks some worker's exchange is carrying, or has carried and not yet
\* been told about.
Carried == UNION {SnsOf(send_data[road[w]]) : w \in {v \in Workers : pc[v] \in {"road", "reply"}}}

(***************************************************************************)
(* get_send_data finds something to send and get_upload_data makes a new   *)
(* transfer of it, which the worker puts on the road: unacknowledged       *)
(* blocks whose resend_timeout expired, a new block when there is more     *)
(* than a payload or its send_delay has passed, or, without data, an ack   *)
(* that is due or a poll because too few requests are on the road.         *)
(***************************************************************************)
Send(w, expired, delayed, ackDue) ==
  LET resent == Resent(expired)
      new    == TakesNew(resent, delayed)
      data   == {Block(sn, wait_ack_send_list[sn]) : sn \in resent}
                  \cup {b \in {Block(tail_sn, NextBlock)} : new}
      no     == last_transfer_no + 1
  IN  /\ MayMakeTransfer(w)
      /\ expired \subseteq Unacked
      /\ data # {} \/ on_road_num < target_on_roads \/ ackDue
      /\ \/ /\ new
            /\ Get
            /\ wait_ack_send_list' =
                 [sn \in DOMAIN wait_ack_send_list \cup {tail_sn} |->
                    IF sn = tail_sn THEN NextBlock ELSE wait_ack_send_list[sn]]
         \/ /\ ~new
            /\ UNCHANGED <<bufVars, wait_ack_send_list>>
      /\ last_transfer_no' = no
      /\ transfer_list' = [i \in DOMAIN transfer_list \cup {no} |->
                             IF i = no THEN NewTransfer ELSE transfer_list[i]]
      /\ send_data' = [i \in DOMAIN send_data \cup {no} |->
                         IF i = no THEN data ELSE send_data[i]]
      /\ on_road_num' = on_road_num + 1
      /\ pc' = [pc EXCEPT ![w] = "road"]
      /\ road' = [road EXCEPT ![w] = no]
      /\ spent' = [spent EXCEPT
                     !.polls = @ + (IF data = {} THEN 1 ELSE 0),
                     !.resends = @ + Cardinality(resent \cap Carried)]
      /\ spent'.polls <= MaxPolls
      /\ spent'.resends <= MaxResends
      /\ UNCHANGED <<acked, ack_send_continue_sn, target_on_roads, connVars, netVars>>

\* get_send_data finds nothing: the worker waits, holding get_data_lock.
\* The wait ends after a second at most, so a notification changes nothing.
WaitForData(w) ==
  /\ pc[w] = "loop" /\ DataLockFree /\ TimedOut = {}
  /\ pool_size <= MaxPayload
  /\ on_road_num >= target_on_roads
  /\ pc' = [pc EXCEPT ![w] = "data"]
  /\ UNCHANGED <<bufVars, workVars, listVars, target_on_roads, on_road_num,
                 connVars, road, netVars, spent>>

\* (Mutant: the retry is not counted as being on the road.)
RetryUncounted(w) ==
  \E no \in TimedOut :
     /\ pc[w] = "loop" /\ DataLockFree
     /\ \A other \in TimedOut : no <= other
     /\ transfer_list' = [transfer_list EXCEPT ![no].stat = "retry"]
     /\ pc' = [pc EXCEPT ![w] = "road"]
     /\ road' = [road EXCEPT ![w] = no]
     /\ UNCHANGED <<bufVars, workVars, last_transfer_no, send_data, target_on_roads,
                    on_road_num, connVars, netVars, spent>>

\* get_upload_data: the first transfer that timed out goes out again, with
\* the number and the data it had.
Retry(w) ==
  \E no \in TimedOut :
     /\ pc[w] = "loop" /\ DataLockFree
     /\ \A other \in TimedOut : no <= other
     /\ transfer_list' = [transfer_list EXCEPT ![no].stat = "retry"]
     /\ on_road_num' = on_road_num + 1
     /\ pc' = [pc EXCEPT ![w] = "road"]
     /\ road' = [road EXCEPT ![w] = no]
     /\ UNCHANGED <<bufVars, workVars, last_transfer_no, send_data, target_on_roads,
                    connVars, netVars, spent>>

-----------------------------------------------------------------------------
(***************************************************************************)
(* The exchange with the server                                            *)
(***************************************************************************)
\* A request reaches the server, perhaps again or after the client gave up:
\* fronts and workers below the session may send it more than once.
ServerReceive(no) ==
  /\ no \in DOMAIN send_data
  /\ ~(no \in server_received /\ send_data[no] \subseteq server_blocks)
  /\ server_blocks' = server_blocks \cup send_data[no]
  /\ server_received' = server_received \cup {no}
  /\ UNCHANGED <<bufVars, workVars, listVars, target_on_roads, on_road_num,
                 connVars, pc, road, reply, server_sent, spent>>

\* The server answers: the last block it has got without a hole, the blocks
\* beyond it, and the transfers it knows of.
ServerAnswer(w) ==
  LET no   == road[w]
      sns  == SnsOf(server_blocks')
  IN  /\ pc[w] = "road" /\ ~reply[w].given
      /\ server_blocks' = server_blocks \cup send_data[no]
      /\ server_received' = server_received \cup {no}
      /\ server_sent' = server_sent \cup {no}
      /\ \E last \in 0 .. (tail_sn - 1) :
            /\ 1 .. last \subseteq sns /\ last + 1 \notin sns
            /\ reply' = [reply EXCEPT ![w] =
                           [last     |-> last,
                            extra    |-> {sn \in sns : sn > last},
                            received |-> server_received',
                            sent     |-> server_sent',
                            given    |-> TRUE]]
      /\ UNCHANGED <<bufVars, workVars, listVars, target_on_roads, on_road_num,
                     connVars, pc, road, spent>>

\* (Mutant: a transfer the server has got needs no retry.)
LeaveUnreceivedForRetry(no) ==
  transfer_list' = [i \in DOMAIN transfer_list |->
                      IF i = no /\ ~transfer_list[i].server_received
                        THEN [transfer_list[i] EXCEPT !.stat = "timeout"]
                        ELSE transfer_list[i]]

\* What both ways to fail do to the transfer: it is left for a retry unless
\* another exchange has completed it meanwhile.
LeaveForRetry(no) ==
  transfer_list' = [i \in DOMAIN transfer_list |->
                      IF i = no THEN [transfer_list[i] EXCEPT !.stat = "timeout"]
                                ELSE transfer_list[i]]

\* The answer does not arrive in time, or its status, head or checksum is
\* wrong.
Fail(w) ==
  /\ pc[w] = "road"
  /\ spent.losses < MaxLosses
  /\ LeaveForRetry(road[w])
  /\ on_road_num' = on_road_num - 1
  /\ pc' = [pc EXCEPT ![w] = "loop"]
  /\ road' = [road EXCEPT ![w] = 0]
  /\ reply' = [reply EXCEPT ![w] = NoReply]
  /\ spent' = [spent EXCEPT !.losses = @ + 1]
  /\ UNCHANGED <<bufVars, workVars, last_transfer_no, send_data, target_on_roads,
                 connVars, server_blocks, server_received, server_sent>>

\* The request raises: the worker sleeps before it leaves the road.
RequestError(w) ==
  /\ pc[w] = "road"
  /\ spent.losses < MaxLosses
  /\ LeaveForRetry(road[w])
  /\ pc' = [pc EXCEPT ![w] = "error"]
  /\ road' = [road EXCEPT ![w] = 0]
  /\ reply' = [reply EXCEPT ![w] = NoReply]
  /\ spent' = [spent EXCEPT !.losses = @ + 1]
  /\ UNCHANGED <<bufVars, workVars, last_transfer_no, send_data, target_on_roads,
                 on_road_num, connVars, server_blocks, server_received, server_sent>>

\* (Mutant: it leaves twice, as in an except and a finally clause.)
LeaveRoadTwice(w) ==
  /\ pc[w] = "error"
  /\ on_road_num' = on_road_num - 2
  /\ pc' = [pc EXCEPT ![w] = "loop"]
  /\ UNCHANGED <<bufVars, workVars, listVars, target_on_roads, connVars, road,
                 netVars, spent>>

\* (Mutant: only a request that is answered leaves the road.)
LeaveRoadUncounted(w) ==
  /\ pc[w] = "error"
  /\ pc' = [pc EXCEPT ![w] = "loop"]
  /\ UNCHANGED <<bufVars, workVars, listVars, target_on_roads, on_road_num, connVars, road,
                 netVars, spent>>

LeaveRoad(w) ==
  /\ pc[w] = "error"
  /\ on_road_num' = on_road_num - 1
  /\ pc' = [pc EXCEPT ![w] = "loop"]
  /\ UNCHANGED <<bufVars, workVars, listVars, target_on_roads, connVars, road,
                 netVars, spent>>

\* A good response: the transfer is done.  What follows may be suspended
\* while downloaded data is written to the sockets.
Response(w) ==
  /\ pc[w] = "road" /\ reply[w].given
  /\ transfer_list' = [no \in DOMAIN transfer_list \ {road[w]} |-> transfer_list[no]]
  /\ on_road_num' = on_road_num - 1
  /\ pc' = [pc EXCEPT ![w] = "reply"]
  /\ UNCHANGED <<bufVars, workVars, last_transfer_no, send_data, target_on_roads,
                 connVars, road, netVars, spent>>

(***************************************************************************)
(* The rest of roundtrip_task: ack_process, what the server knows of our   *)
(* transfers, check_upload_not_acked marking some of them as timed out,    *)
(* and a new target_on_roads by the size of the response.                  *)
(***************************************************************************)
\* (Mutants: the highest block of the answer is taken for the last one without
\* a hole; blocks are forgotten up to the last one acked.)
AckProcessHighest(ack) ==
  \E next \in ack_send_continue_sn .. (tail_sn - 1) :
     LET nowAcked == acked \cup {sn \in DOMAIN wait_ack_send_list :
                                   \E top \in {ack.last} \cup ack.extra : sn <= top}
     IN  /\ (ack_send_continue_sn + 1) .. next \subseteq nowAcked
         /\ next + 1 \notin nowAcked
         /\ ack_send_continue_sn' = next
         /\ acked' = {sn \in nowAcked : sn > next}
         /\ wait_ack_send_list' = [sn \in {i \in DOMAIN wait_ack_send_list : i > next} |->
                                     wait_ack_send_list[sn]]

AckProcessSkips(ack) ==
  \E next \in ack_send_continue_sn .. (tail_sn - 1) :
     LET nowAcked == acked \cup {sn \in DOMAIN wait_ack_send_list :
                                   sn <= ack.last \/ sn \in ack.extra}
     IN  /\ next \in nowAcked \cup {ack_send_continue_sn}
         /\ \A sn \in nowAcked : sn <= next
         /\ ack_send_continue_sn' = next
         /\ acked' = {}
         /\ wait_ack_send_list' = [sn \in {i \in DOMAIN wait_ack_send_list : i > next} |->
                                     wait_ack_send_list[sn]]

AckProcess(ack) ==
  \E next \in ack_send_continue_sn .. (tail_sn - 1) :
     LET nowAcked == acked \cup {sn \in DOMAIN wait_ack_send_list :
                                   sn <= ack.last \/ sn \in ack.extra}
     IN  /\ (ack_send_continue_sn + 1) .. next \subseteq nowAcked
         /\ next + 1 \notin nowAcked
         /\ ack_send_continue_sn' = next
         /\ acked' = {sn \in nowAcked : sn > next}
         /\ wait_ack_send_list' = [sn \in {i \in DOMAIN wait_ack_send_list : i > next} |->
                                     wait_ack_send_list[sn]]

\* transfer_list once the server's lists are entered in it.
Informed(r) == [no \in DOMAIN transfer_list |->
                  [stat |-> transfer_list[no].stat,
                   server_received |-> transfer_list[no].server_received \/ no \in r.received,
                   server_sent |-> transfer_list[no].server_sent \/ no \in r.sent]]

Overdue(list, late) == [no \in DOMAIN list |->
                          IF no \in late THEN [list[no] EXCEPT !.stat = "timeout"]
                                         ELSE list[no]]

\* The transfers a time-out check may find late: check_upload_not_acked
\* looks at those the server does not know or has answered.
MayBeLate(list) == {no \in DOMAIN list :
                      /\ list[no].stat # "timeout"
                      /\ ~list[no].server_received \/ list[no].server_sent}

TargetAfterLate(late) == IF late = {} THEN target_on_roads
                         ELSE Least(RoadLimit, target_on_roads + Cardinality(late))

\* (Mutant: without the lower limit.)
TargetUnlimited(target, size) ==
  CASE conns = 0                    -> 0
    [] conns > 0 /\ size = "full"   -> Least(RoadLimit, target + 10)
    [] conns > 0 /\ size = "small"  -> Greatest(0, target - 5)
    [] conns > 0 /\ size = "medium" -> target

TargetAfterResponse(target, size) ==
  CASE conns = 0                    -> 0
    [] conns > 0 /\ size = "full"   -> Least(RoadLimit, target + 10)
    [] conns > 0 /\ size = "small"  -> Greatest(MinOnRoad, target - 5)
    [] conns > 0 /\ size = "medium" -> target

Finish(w, late, size) ==
  /\ pc[w] = "reply"
  /\ AckProcess(reply[w])
  /\ late \subseteq MayBeLate(Informed(reply[w]))
  /\ transfer_list' = Overdue(Informed(reply[w]), late)
  /\ target_on_roads' = TargetAfterResponse(TargetAfterLate(late), size)
  /\ pc' = [pc EXCEPT ![w] = "loop"]
  /\ road' = [road EXCEPT ![w] = 0]
  /\ reply' = [reply EXCEPT ![w] = NoReply]
  /\ UNCHANGED <<bufVars, last_transfer_no, send_data, on_road_num, connVars,
                 server_blocks, server_received, server_sent, spent>>

\* The blocks in the answer cannot be read: the worker gives up before
\* ack_process.  The transfer has left the list, so no retry is marked.
ReplyError(w) ==
  /\ pc[w] = "reply"
  /\ spent.losses < MaxLosses
  /\ pc' = [pc EXCEPT ![w] = "loop"]
  /\ road' = [road EXCEPT ![w] = 0]
  /\ reply' = [reply EXCEPT ![w] = NoReply]
  /\ spent' = [spent EXCEPT !.losses = @ + 1]
  /\ UNCHANGED <<bufVars, workVars, listVars, target_on_roads, on_road_num, connVars,
                 server_blocks, server_received, server_sent>>

\* _check_timeout, run every two seconds by timeout_checker.
CheckTimeout(late) ==
  /\ late # {}
  /\ late \subseteq DOMAIN transfer_list \ TimedOut
  /\ transfer_list' = Overdue(transfer_list, late)
  /\ target_on_roads' = TargetAfterLate(late)
  /\ UNCHANGED <<bufVars, workVars, last_transfer_no, send_data, on_road_num,
                 connVars, pc, road, netVars, spent>>

\* Nothing is left to do within the bounds.  A transfer that timed out may
\* be left over while a worker waits for data: that worker keeps
\* get_data_lock, and retries are made under it.
Quiet ==
  /\ added = MaxBytes /\ pool_size = 0 /\ conns = 0
  /\ DOMAIN wait_ack_send_list = {}
  /\ DOMAIN transfer_list \subseteq IF DataLockFree THEN {} ELSE TimedOut
  /\ UNCHANGED vars

-----------------------------------------------------------------------------
Sizes == {"full", "medium", "small"}

Next ==
  \/ \E n \in 1 .. MaxBytes : CreateConn(n) \/ SendConnData(n)
  \/ RemoveConn
  \/ \E w \in Workers :
       \/ \E expired \in SUBSET Unacked, delayed, ackDue \in BOOLEAN :
             Send(w, expired, delayed, ackDue)
       \/ WaitForData(w)
       \/ Retry(w)
       \/ ServerAnswer(w)
       \/ Fail(w)
       \/ RequestError(w)
       \/ LeaveRoad(w)
       \/ Response(w)
       \/ \E late \in SUBSET DOMAIN transfer_list, size \in Sizes : Finish(w, late, size)
       \/ ReplyError(w)
  \/ \E no \in DOMAIN send_data : ServerReceive(no)
  \/ \E late \in SUBSET DOMAIN transfer_list : CheckTimeout(late)
  \/ Quiet

Spec == InitRoundTrip /\ [][Next]_vars

\* What the code's scheduling and timers guarantee: a worker that holds
\* nothing goes on, every delay and timeout it checks passes in the end, an
\* exchange that does not fail is answered.
FairSpec ==
  /\ Spec
  /\ \A w \in Workers :
        /\ WF_vars(Send(w, Unacked \ Carried, TRUE, FALSE))
        /\ WF_vars(Retry(w))
        /\ WF_vars(ServerAnswer(w))
        /\ WF_vars(LeaveRoad(w))
        /\ WF_vars(Response(w))
        /\ WF_vars(\E size \in Sizes : Finish(w, {}, size))

-----------------------------------------------------------------------------
(***************************************************************************)
(* Properties                                                              *)
(***************************************************************************)
BlockSet == [sn : Nat \ {0}, lo : Nat, hi : Nat]
Transfer == [stat : {"request", "retry", "timeout"},
             server_received : BOOLEAN, server_sent : BOOLEAN]
ReplySet == [last : Nat, extra : SUBSET (Nat \ {0}), received : SUBSET (Nat \ {0}),
             sent : SUBSET (Nat \ {0}), given : BOOLEAN]

\* Types of the session's fields.
TypeOK ==
  /\ BufTypeOK
  /\ wait_ack_send_list \in [(ack_send_continue_sn + 1) .. (tail_sn - 1) -> SliceSet]
  /\ acked \subseteq DOMAIN wait_ack_send_list
  /\ ack_send_continue_sn \in 0 .. (tail_sn - 1)
  /\ last_transfer_no \in Nat
  /\ send_data \in [1 .. last_transfer_no -> SUBSET BlockSet]
  /\ DOMAIN transfer_list \subseteq DOMAIN send_data
  /\ transfer_list \in [DOMAIN transfer_list -> Transfer]
  /\ target_on_roads \in Nat
  /\ on_road_num \in Nat
  /\ last_conn_id \in Nat /\ conns \in Nat
  /\ pc \in [Workers -> {"loop", "data", "road", "error", "reply"}]
  /\ road \in [Workers -> 0 .. last_transfer_no]
  /\ reply \in [Workers -> ReplySet]
  /\ server_blocks \subseteq BlockSet
  /\ server_received \subseteq DOMAIN send_data
  /\ server_sent \subseteq DOMAIN send_data
  /\ spent \in [polls : Nat, resends : Nat, losses : Nat]

\* All blocks ever put into a request.
Issued == UNION {send_data[no] : no \in DOMAIN send_data}

\* on_road_num, which decides whether another poll is sent and whether the
\* server may hold the request, counts exactly the workers whose exchange is
\* not over, through every way an exchange can end.
OnRoadExact ==
  on_road_num = Cardinality({w \in Workers : pc[w] \in {"road", "error"}})

\* A block the client takes for acked has arrived: neither a late nor a
\* repeated answer, nor the answer to a retried transfer, makes it forget one
\* that the server has not got.
NoFalseAck ==
  \A sn \in 1 .. (tail_sn - 1) :
     sn <= ack_send_continue_sn \/ sn \in acked => sn \in SnsOf(server_blocks)

\* Whatever was resent, retried or sent twice, the server can join the blocks
\* by their numbers to the stream the connections wrote: a number stands for
\* one slice, and consecutive numbers for consecutive slices.
StreamExact ==
  \A a, b \in Issued :
     /\ a.sn = b.sn => a = b
     /\ a.sn + 1 = b.sn => a.hi = b.lo
     /\ a.sn = 1 => a.lo = 0

\* A block waiting for its ack keeps the bytes it was sent with.
ResendSame == \A sn \in DOMAIN wait_ack_send_list :
                 Block(sn, wait_ack_send_list[sn]) \in Issued

\* A transfer that is not waiting for a retry is on the road: no way for an
\* exchange to end, with two exchanges of one transfer under way, leaves an
\* entry that nobody will take up again.
NoOrphanTransfer ==
  \A no \in DOMAIN transfer_list :
     \/ transfer_list[no].stat = "timeout"
     \/ \E w \in Workers : pc[w] = "road" /\ road[w] = no

\* While there are connections the session keeps at least one request on the
\* road for the server to answer on.
KeepsPolling == conns > 0 => target_on_roads > 0

\* Resends and a new block in one request stay below twice the payload.
RequestBounded ==
  \A no \in DOMAIN send_data :
     MapThenSumSet(LAMBDA b : HeadLen + Size(b), send_data[no])
        <= 2 * MaxPayload + HeadLen

\* The upload as the server sees it: how far its blocks reach without a hole,
\* and how far the client has forgotten them.
Arrived == {b \in server_blocks : 1 .. b.sn \subseteq SnsOf(server_blocks)}
Forgotten == {b \in Issued : b.sn <= ack_send_continue_sn}
ServerReach == MaxOf({b.hi : b \in Arrived})
ClientForgot == MaxOf({b.hi : b \in Forgotten})

\* The session is a reliable stream: what is written arrives in order and
\* complete, and is forgotten only after that.
Reliable == INSTANCE ReliableStream WITH written   <- added,
                                         delivered <- ServerReach,
                                         released  <- ClientForgot
ReliableSpec == Reliable!Spec
ReliableFair == Reliable!Progress

\* A timed-out transfer is taken up again although retries are made under
\* get_data_lock, which a worker without data keeps: while there are
\* connections that worker has to find too few requests on the road and poll,
\* whatever the answers and failures have done to target_on_roads and
\* on_road_num.  Only a session without connections whose data is all acked
\* may leave the transfer where it is.
NothingToSend == conns = 0 /\ pool_size = 0 /\ Unacked = {} /\ ~DataLockFree
TimedOutRetried ==
  (TimedOut # {} /\ spent.polls < MaxPolls) ~> (TimedOut = {} \/ []NothingToSend)
-----------------------------------------------------------------------------
(***************************************************************************)
(* The inductive invariant: what the proofs carry along besides the        *)
(* invariants above.                                                       *)
(***************************************************************************)
\* What an answer says has arrived, has: answers only grow old.
RepliesHonest ==
  \A w \in Workers : 1 .. reply[w].last \cup reply[w].extra \subseteq SnsOf(server_blocks)

\* A request under way is that of a transfer that was made.
RequestsMade == \A w \in Workers : pc[w] = "road" => road[w] \in DOMAIN send_data

\* Blocks in requests were taken from the buffer before its next one, the
\* last of them ends where that one starts.
IssuedBefore ==
  /\ \A b \in Issued : /\ b.sn < tail_sn
                       /\ b.hi <= FirstByte
                       /\ b.sn + 1 = tail_sn => b.hi = FirstByte
  /\ tail_sn = 1 => FirstByte = 0

\* The server has nothing but what was sent.
ServerHasIssued == server_blocks \subseteq Issued

SessionInv ==
  /\ BufInv
  /\ TypeOK /\ RequestsMade
  /\ OnRoadExact
  /\ NoFalseAck /\ RepliesHonest
  /\ StreamExact /\ ResendSame /\ IssuedBefore /\ ServerHasIssued
  /\ NoOrphanTransfer
  /\ KeepsPolling
=============================================================================
