--------------------------- MODULE RoundTrip_proofs ---------------------------
(***************************************************************************)
(* Proofs about the upload of a session, for every number of workers,      *)
(* payload size and bound: SessionInv is inductive.  Its parts are proved  *)
(* one after the other, each with one step per action: the buffer, the     *)
(* count of workers on the road, types, acks, the numbering of blocks, the *)
(* transfer list, polling.  The refinement of the stream and the size of a *)
(* request follow.                                                         *)
(***************************************************************************)
EXTENDS RoundTrip, SendBuffer_proofs, FiniteSetTheorems, WellFoundedInduction

\* Workers whose exchange is not over, as OnRoadExact counts them.
OnRoad == {w \in Workers : pc[w] \in {"road", "error"}}

PcTypeOK == pc \in [Workers -> {"loop", "data", "road", "error", "reply"}]

(***************************************************************************)
(* The set of workers on the road is finite, so it has a size.             *)
(***************************************************************************)
LEMMA OnRoadFinite == IsFiniteSet(OnRoad) /\ Cardinality(OnRoad) \in Nat
<1>1. OnRoad \in SUBSET Workers
  BY DEF OnRoad
<1>2. IsFiniteSet(OnRoad)
  BY <1>1, FS_Subset, RoundTripAssumption DEF RoundTripAssumption
<1>3. QED
  BY <1>2, FS_CardinalityType

\* The same for the next state.
LEMMA OnRoadFinitePrime == IsFiniteSet(OnRoad') /\ Cardinality(OnRoad') \in Nat
<1>1. (IsFiniteSet(OnRoad) /\ Cardinality(OnRoad) \in Nat)'
  BY OnRoadFinite, PTL
<1>2. QED
  BY <1>1

(***************************************************************************)
(* A worker that takes the road adds one to the count, ...                 *)
(***************************************************************************)
LEMMA TakesRoad ==
  ASSUME PcTypeOK, OnRoadExact, NEW w \in Workers,
         pc[w] \notin {"road", "error"}, pc' = [pc EXCEPT ![w] = "road"],
         on_road_num' = on_road_num + 1
  PROVE  OnRoadExact'
<1>1. OnRoad' = OnRoad \cup {w} /\ w \notin OnRoad
  BY DEF OnRoad, PcTypeOK
<1>2. Cardinality(OnRoad') = Cardinality(OnRoad) + 1
  BY <1>1, OnRoadFinite, FS_AddElement
<1>3. QED
  BY <1>2 DEF OnRoadExact, OnRoad

(***************************************************************************)
(* ... one that leaves it subtracts one, ...                               *)
(***************************************************************************)
LEMMA LeavesRoad ==
  ASSUME PcTypeOK, OnRoadExact, NEW w \in Workers, NEW to \in {"loop", "reply"},
         pc[w] \in {"road", "error"}, pc' = [pc EXCEPT ![w] = to],
         on_road_num' = on_road_num - 1
  PROVE  OnRoadExact'
<1>1. OnRoad' = OnRoad \ {w} /\ w \in OnRoad
  BY DEF OnRoad, PcTypeOK
<1>2. Cardinality(OnRoad') = Cardinality(OnRoad) - 1
  BY <1>1, OnRoadFinite, FS_RemoveElement
<1>3. QED
  BY <1>2 DEF OnRoadExact, OnRoad

(***************************************************************************)
(* ... and any other change of its state leaves the count alone.           *)
(***************************************************************************)
LEMMA StaysOnRoad ==
  ASSUME PcTypeOK, OnRoadExact, NEW w \in Workers,
         NEW to \in {"loop", "data", "road", "error", "reply"},
         pc[w] \in {"road", "error"} <=> to \in {"road", "error"},
         pc' = [pc EXCEPT ![w] = to], on_road_num' = on_road_num
  PROVE  OnRoadExact'
<1>1. OnRoad' = OnRoad
  BY DEF OnRoad, PcTypeOK
<1>2. QED
  BY <1>1 DEF OnRoadExact, OnRoad

(***************************************************************************)
(* on_road_num counts the workers on the road.                             *)
(***************************************************************************)
LEMMA NextOnRoadExact ==
  ASSUME PcTypeOK, OnRoadExact, [Next]_vars
  PROVE  OnRoadExact' /\ PcTypeOK'
<1>0. ASSUME UNCHANGED <<pc, on_road_num>>
      PROVE  OnRoadExact' /\ PcTypeOK'
  BY <1>0 DEF OnRoadExact, PcTypeOK
<1>1. ASSUME NEW n \in 1 .. MaxBytes, CreateConn(n) \/ SendConnData(n)
      PROVE  OnRoadExact' /\ PcTypeOK'
  BY <1>1, <1>0 DEF CreateConn, SendConnData
<1>2. CASE RemoveConn
  BY <1>2, <1>0 DEF RemoveConn
<1>3. ASSUME NEW w \in Workers, NEW expired \in SUBSET Unacked,
             NEW delayed \in BOOLEAN, NEW ackDue \in BOOLEAN,
             Send(w, expired, delayed, ackDue)
      PROVE  OnRoadExact' /\ PcTypeOK'
  <2>1. /\ pc[w] \in {"data", "loop"} /\ pc' = [pc EXCEPT ![w] = "road"]
        /\ on_road_num' = on_road_num + 1
    BY <1>3 DEF Send, MayMakeTransfer
  <2>2. QED
    BY <2>1, TakesRoad DEF PcTypeOK
<1>4. ASSUME NEW w \in Workers, WaitForData(w)
      PROVE  OnRoadExact' /\ PcTypeOK'
  <2>1. pc[w] = "loop" /\ pc' = [pc EXCEPT ![w] = "data"] /\ on_road_num' = on_road_num
    BY <1>4 DEF WaitForData
  <2>2. QED
    BY <2>1, StaysOnRoad DEF PcTypeOK
<1>5. ASSUME NEW w \in Workers, Retry(w)
      PROVE  OnRoadExact' /\ PcTypeOK'
  <2>1. /\ pc[w] = "loop" /\ pc' = [pc EXCEPT ![w] = "road"]
        /\ on_road_num' = on_road_num + 1
    BY <1>5 DEF Retry
  <2>2. QED
    BY <2>1, TakesRoad DEF PcTypeOK
<1>6. ASSUME NEW w \in Workers, ServerAnswer(w)
      PROVE  OnRoadExact' /\ PcTypeOK'
  BY <1>6, <1>0 DEF ServerAnswer
<1>7. ASSUME NEW w \in Workers, Fail(w)
      PROVE  OnRoadExact' /\ PcTypeOK'
  <2>1. /\ pc[w] = "road" /\ pc' = [pc EXCEPT ![w] = "loop"]
        /\ on_road_num' = on_road_num - 1
    BY <1>7 DEF Fail
  <2>2. QED
    BY <2>1, LeavesRoad DEF PcTypeOK
<1>8. ASSUME NEW w \in Workers, RequestError(w)
      PROVE  OnRoadExact' /\ PcTypeOK'
  <2>1. pc[w] = "road" /\ pc' = [pc EXCEPT ![w] = "error"] /\ on_road_num' = on_road_num
    BY <1>8 DEF RequestError
  <2>2. QED
    BY <2>1, StaysOnRoad DEF PcTypeOK
<1>9. ASSUME NEW w \in Workers, LeaveRoad(w)
      PROVE  OnRoadExact' /\ PcTypeOK'
  <2>1. /\ pc[w] = "error" /\ pc' = [pc EXCEPT ![w] = "loop"]
        /\ on_road_num' = on_road_num - 1
    BY <1>9 DEF LeaveRoad
  <2>2. QED
    BY <2>1, LeavesRoad DEF PcTypeOK
<1>10. ASSUME NEW w \in Workers, Response(w)
       PROVE  OnRoadExact' /\ PcTypeOK'
  <2>1. /\ pc[w] = "road" /\ pc' = [pc EXCEPT ![w] = "reply"]
        /\ on_road_num' = on_road_num - 1
    BY <1>10 DEF Response
  <2>2. QED
    BY <2>1, LeavesRoad DEF PcTypeOK
<1>11. ASSUME NEW w \in Workers, NEW late \in SUBSET DOMAIN transfer_list,
              NEW size \in Sizes, Finish(w, late, size)
       PROVE  OnRoadExact' /\ PcTypeOK'
  <2>1. pc[w] = "reply" /\ pc' = [pc EXCEPT ![w] = "loop"] /\ on_road_num' = on_road_num
    BY <1>11 DEF Finish
  <2>2. QED
    BY <2>1, StaysOnRoad DEF PcTypeOK
<1>12. ASSUME NEW no \in DOMAIN send_data, ServerReceive(no)
       PROVE  OnRoadExact' /\ PcTypeOK'
  BY <1>12, <1>0 DEF ServerReceive
<1>13. ASSUME NEW late \in SUBSET DOMAIN transfer_list, CheckTimeout(late)
       PROVE  OnRoadExact' /\ PcTypeOK'
  BY <1>13, <1>0 DEF CheckTimeout
<1>14. CASE Quiet \/ UNCHANGED vars
  BY <1>14, <1>0 DEF Quiet, vars
<1>15. ASSUME NEW w \in Workers, ReplyError(w)
       PROVE  OnRoadExact' /\ PcTypeOK'
  <2>1. pc[w] = "reply" /\ pc' = [pc EXCEPT ![w] = "loop"] /\ on_road_num' = on_road_num
    BY <1>15 DEF ReplyError
  <2>2. QED
    BY <2>1, StaysOnRoad DEF PcTypeOK
<1>16. QED
  BY <1>1, <1>2, <1>3, <1>4, <1>5, <1>6, <1>7, <1>8, <1>9, <1>10, <1>11, <1>12,
     <1>13, <1>14, <1>15 DEF Next

-----------------------------------------------------------------------------
(***************************************************************************)
(* What can disturb the parts of the invariant: the steps that change the  *)
(* variables a part is about.                                              *)
(***************************************************************************)
SendStep == \E w \in Workers, expired \in SUBSET Unacked, delayed, ackDue \in BOOLEAN :
               Send(w, expired, delayed, ackDue)

FinishStep == \E w \in Workers, late \in SUBSET DOMAIN transfer_list, size \in Sizes :
                 Finish(w, late, size)

FailStep == \E w \in Workers : Fail(w) \/ RequestError(w)

CheckStep == \E late \in SUBSET DOMAIN transfer_list : CheckTimeout(late)

\* The buffer: add() and get(), one at a time.
LEMMA BufSteps ==
  ASSUME [Next]_vars
  PROVE  (\E n \in 1 .. MaxBytes : Add(n)) \/ Get \/ UNCHANGED bufVars
<1>1. CASE SendStep
  BY <1>1 DEF SendStep, Send
<1>2. CASE \E w \in Workers : \/ WaitForData(w) \/ Retry(w) \/ ServerAnswer(w) \/ Fail(w)
                              \/ RequestError(w) \/ LeaveRoad(w) \/ Response(w)
                              \/ ReplyError(w)
  BY <1>2 DEF WaitForData, Retry, ServerAnswer, Fail, RequestError, LeaveRoad, Response,
              ReplyError
<1>3. CASE \E n \in 1 .. MaxBytes : CreateConn(n) \/ SendConnData(n)
  BY <1>3 DEF CreateConn, SendConnData
<1>4. CASE \/ RemoveConn \/ Quiet \/ UNCHANGED vars
           \/ FinishStep \/ CheckStep \/ \E no \in DOMAIN send_data : ServerReceive(no)
  BY <1>4 DEF RemoveConn, Quiet, vars, FinishStep, Finish, CheckStep, CheckTimeout, ServerReceive
<1>5. QED
  BY <1>1, <1>2, <1>3, <1>4, Zenon DEF Next, SendStep, FinishStep, CheckStep

\* wait_ack_send_list and the acks: sending and ack_process().
LEMMA WorkSteps ==
  ASSUME [Next]_vars
  PROVE  SendStep \/ FinishStep \/ UNCHANGED <<workVars, tail_sn>>
BY DEF Next, vars, CreateConn, SendConnData, RemoveConn, WaitForData, Retry,
       ServerAnswer, Fail, RequestError, LeaveRoad, Response, ReplyError, ServerReceive,
       CheckTimeout, Quiet, SendStep, FinishStep, workVars, bufVars, Add

\* The transfers made: only sending makes one.
LEMMA MadeSteps ==
  ASSUME [Next]_vars
  PROVE  SendStep \/ UNCHANGED <<last_transfer_no, send_data>>
BY DEF Next, vars, CreateConn, SendConnData, RemoveConn, WaitForData, Retry,
       ServerAnswer, Fail, RequestError, LeaveRoad, Response, Finish, ReplyError,
       ServerReceive, CheckTimeout, Quiet, SendStep, listVars

\* transfer_list: the worker's steps and the two time-out checks.
LEMMA ListSteps ==
  ASSUME [Next]_vars
  PROVE  \/ SendStep \/ FinishStep \/ FailStep \/ CheckStep
         \/ \E w \in Workers : Retry(w) \/ Response(w)
         \/ UNCHANGED <<transfer_list, pc, road>>
         \/ \E w \in Workers : WaitForData(w) \/ LeaveRoad(w) \/ ReplyError(w)
<1>1. CASE \E w \in Workers : ServerAnswer(w)
  BY <1>1 DEF ServerAnswer, listVars
<1>2. CASE \E w \in Workers : \/ WaitForData(w) \/ Retry(w) \/ Fail(w)
                              \/ RequestError(w) \/ LeaveRoad(w) \/ Response(w)
                              \/ ReplyError(w)
  BY <1>2, Zenon DEF FailStep
<1>3. CASE SendStep \/ FinishStep \/ CheckStep
  BY <1>3
<1>4. CASE \/ (\E n \in 1 .. MaxBytes : CreateConn(n) \/ SendConnData(n))
           \/ RemoveConn \/ Quiet \/ UNCHANGED vars
           \/ \E no \in DOMAIN send_data : ServerReceive(no)
  BY <1>4 DEF CreateConn, SendConnData, RemoveConn, Quiet, vars, ServerReceive, listVars
<1>5. QED
  BY <1>1, <1>2, <1>3, <1>4, Zenon DEF Next, SendStep, FinishStep, CheckStep

\* The network: requests arrive and are answered, answers are taken.
LEMMA NetSteps ==
  ASSUME [Next]_vars
  PROVE  \/ FinishStep \/ FailStep
         \/ \E w \in Workers : ServerAnswer(w) \/ ReplyError(w)
         \/ \E no \in DOMAIN send_data : ServerReceive(no)
         \/ UNCHANGED netVars
<1>1. CASE SendStep
  BY <1>1 DEF SendStep, Send
<1>2. CASE \E w \in Workers : WaitForData(w) \/ Retry(w) \/ LeaveRoad(w) \/ Response(w)
  BY <1>2 DEF WaitForData, Retry, LeaveRoad, Response
<1>3. CASE \/ (\E n \in 1 .. MaxBytes : CreateConn(n) \/ SendConnData(n))
           \/ RemoveConn \/ Quiet \/ UNCHANGED vars \/ CheckStep
  BY <1>3 DEF CreateConn, SendConnData, RemoveConn, Quiet, vars, CheckStep, CheckTimeout
<1>4. CASE \E w \in Workers : \/ Fail(w) \/ RequestError(w) \/ ServerAnswer(w)
                              \/ ReplyError(w)
  BY <1>4, Zenon DEF FailStep
<1>5. CASE FinishStep \/ \E no \in DOMAIN send_data : ServerReceive(no)
  BY <1>5
<1>6. QED
  BY <1>1, <1>2, <1>3, <1>4, <1>5, Zenon DEF Next, SendStep, FinishStep, CheckStep

\* The connections, and how many requests are wanted on the road.
LEMMA ConnSteps ==
  ASSUME [Next]_vars
  PROVE  \/ (\E n \in 1 .. MaxBytes : CreateConn(n)) \/ RemoveConn
         \/ FinishStep \/ CheckStep
         \/ UNCHANGED <<target_on_roads, connVars>>
<1>1. CASE SendStep
  BY <1>1 DEF SendStep, Send
<1>2. CASE \E w \in Workers : \/ WaitForData(w) \/ Retry(w) \/ ServerAnswer(w) \/ Fail(w)
                              \/ RequestError(w) \/ LeaveRoad(w) \/ Response(w)
                              \/ ReplyError(w)
  BY <1>2 DEF WaitForData, Retry, ServerAnswer, Fail, RequestError, LeaveRoad, Response,
              ReplyError
<1>3. CASE \/ (\E n \in 1 .. MaxBytes : SendConnData(n)) \/ Quiet \/ UNCHANGED vars
           \/ \E no \in DOMAIN send_data : ServerReceive(no)
  BY <1>3 DEF SendConnData, Quiet, vars, ServerReceive
<1>4. CASE (\E n \in 1 .. MaxBytes : CreateConn(n)) \/ RemoveConn \/ FinishStep \/ CheckStep
  BY <1>4
<1>5. QED
  BY <1>1, <1>2, <1>3, <1>4, Zenon DEF Next, SendStep, FinishStep, CheckStep

-----------------------------------------------------------------------------
(***************************************************************************)
(* The buffer under the session: only add() and get() touch it.            *)
(***************************************************************************)
LEMMA SessionBufInv ==
  ASSUME BufInv, [Next]_vars
  PROVE  BufInv'
<1>1. ASSUME NEW n \in 1 .. MaxBytes, Add(n) PROVE BufInv'
  BY <1>1, AddBufInv, SendBufferAssumption DEF SendBufferAssumption
<1>2. CASE Get
  BY <1>2, GetBufInv
<1>3. CASE UNCHANGED bufVars
  BY <1>3, NextBufInv
<1>4. QED
  BY <1>1, <1>2, <1>3, BufSteps

\* What sending takes from the buffer: nothing, or its next block.
LEMMA SendTakes ==
  ASSUME BufInv, NEW w \in Workers, NEW expired \in SUBSET Unacked,
         NEW delayed \in BOOLEAN, NEW ackDue \in BOOLEAN,
         Send(w, expired, delayed, ackDue)
  PROVE  \/ /\ TakesNew(Resent(expired), delayed) /\ Get
            /\ NextBlock \in SliceSet /\ tail_sn' = tail_sn + 1
            /\ wait_ack_send_list' =
                 [sn \in DOMAIN wait_ack_send_list \cup {tail_sn} |->
                    IF sn = tail_sn THEN NextBlock ELSE wait_ack_send_list[sn]]
         \/ /\ ~TakesNew(Resent(expired), delayed)
            /\ UNCHANGED <<bufVars, wait_ack_send_list>>
<1>1. CASE Get /\ TakesNew(Resent(expired), delayed)
  <2>1. NextBlock \in SliceSet
    <3>1. /\ block_list \in [tail_sn .. (head_sn - 1) -> SliceSet]
          /\ last_block \in SliceSet /\ tail_sn \in Nat /\ head_sn \in Nat
      BY DEF BufInv, BufTypeOK
    <3>2. tail_sn < head_sn => tail_sn \in tail_sn .. (head_sn - 1)
      BY <3>1
    <3>3. QED
      BY <3>1, <3>2 DEF NextBlock
  <2>2. QED
    BY <1>1, <2>1 DEF Send, Get
<1>2. CASE ~TakesNew(Resent(expired), delayed)
  BY <1>2 DEF Send
<1>3. QED
  BY <1>1, <1>2 DEF Send

(***************************************************************************)
(* wait_ack_send_list holds the blocks after ack_send_continue_sn that were *)
(* taken from the buffer, without a hole.                                  *)
(***************************************************************************)
WorkTypeOK ==
  /\ wait_ack_send_list \in [(ack_send_continue_sn + 1) .. (tail_sn - 1) -> SliceSet]
  /\ acked \subseteq DOMAIN wait_ack_send_list
  /\ ack_send_continue_sn \in 0 .. (tail_sn - 1)

LEMMA NextWorkTypeOK ==
  ASSUME BufInv, WorkTypeOK, [Next]_vars
  PROVE  WorkTypeOK'
<1>0. tail_sn \in Nat \ {0} /\ ack_send_continue_sn \in Nat
  BY DEF BufInv, BufTypeOK, WorkTypeOK
<1>1. ASSUME NEW w \in Workers, NEW expired \in SUBSET Unacked,
             NEW delayed \in BOOLEAN, NEW ackDue \in BOOLEAN,
             Send(w, expired, delayed, ackDue)
      PROVE  WorkTypeOK'
  <2>1. UNCHANGED <<acked, ack_send_continue_sn>>
    BY <1>1 DEF Send
  <2>2. CASE UNCHANGED <<bufVars, wait_ack_send_list>>
    BY <2>1, <2>2 DEF WorkTypeOK, bufVars
  <2>3. CASE /\ NextBlock \in SliceSet /\ tail_sn' = tail_sn + 1
             /\ wait_ack_send_list' =
                  [sn \in DOMAIN wait_ack_send_list \cup {tail_sn} |->
                     IF sn = tail_sn THEN NextBlock ELSE wait_ack_send_list[sn]]
    <3>1. DOMAIN wait_ack_send_list \cup {tail_sn}
            = (ack_send_continue_sn' + 1) .. (tail_sn' - 1)
      BY <1>0, <2>1, <2>3 DEF WorkTypeOK
    <3>2. wait_ack_send_list' \in [(ack_send_continue_sn' + 1) .. (tail_sn' - 1) -> SliceSet]
      BY <2>3, <3>1 DEF WorkTypeOK
    <3>3. QED
      BY <1>0, <2>1, <2>3, <3>2 DEF WorkTypeOK
  <2>4. QED
    BY <1>1, <2>2, <2>3, SendTakes
<1>2. ASSUME NEW w \in Workers, NEW late \in SUBSET DOMAIN transfer_list,
             NEW size \in Sizes, Finish(w, late, size)
      PROVE  WorkTypeOK'
  <2>1. tail_sn' = tail_sn /\ AckProcess(reply[w])
    BY <1>2 DEF Finish, bufVars
  <2>2. PICK next \in ack_send_continue_sn .. (tail_sn - 1) :
           /\ ack_send_continue_sn' = next
           /\ acked' \subseteq {sn \in DOMAIN wait_ack_send_list : sn > next}
           /\ wait_ack_send_list' = [sn \in {i \in DOMAIN wait_ack_send_list : i > next} |->
                                       wait_ack_send_list[sn]]
    BY <2>1 DEF AckProcess, WorkTypeOK
  <2>3. {i \in DOMAIN wait_ack_send_list : i > next} = (next + 1) .. (tail_sn - 1)
    BY <1>0 DEF WorkTypeOK
  <2>4. wait_ack_send_list' \in [(next + 1) .. (tail_sn - 1) -> SliceSet]
    BY <2>2, <2>3 DEF WorkTypeOK
  <2>5. QED
    BY <1>0, <2>1, <2>2, <2>3, <2>4 DEF WorkTypeOK
<1>3. CASE UNCHANGED <<workVars, tail_sn>>
  BY <1>3 DEF WorkTypeOK, workVars
<1>4. QED
  BY <1>1, <1>2, <1>3, WorkSteps DEF SendStep, FinishStep

\* What a new transfer carries: blocks to resend and perhaps a new block.
SendData(expired, delayed) ==
  {Block(sn, wait_ack_send_list[sn]) : sn \in Resent(expired)}
    \cup {b \in {Block(tail_sn, NextBlock)} : TakesNew(Resent(expired), delayed)}

\* These are numbered slices of the stream.
LEMMA SendDataType ==
  ASSUME BufInv, WorkTypeOK, NEW w \in Workers, NEW expired \in SUBSET Unacked,
         NEW delayed \in BOOLEAN, NEW ackDue \in BOOLEAN,
         Send(w, expired, delayed, ackDue)
  PROVE  SendData(expired, delayed) \in SUBSET BlockSet
<1>0. tail_sn \in Nat \ {0} /\ ack_send_continue_sn \in Nat
  BY DEF BufInv, BufTypeOK, WorkTypeOK
<1>1. ASSUME NEW sn \in Nat \ {0}, NEW slice \in SliceSet
      PROVE  Block(sn, slice) \in BlockSet
  BY <1>1 DEF Block, BlockSet, SliceSet
<1>2. ASSUME NEW sn \in Resent(expired)
      PROVE  Block(sn, wait_ack_send_list[sn]) \in BlockSet
  <2>1. sn \in (ack_send_continue_sn + 1) .. (tail_sn - 1)
    BY <1>2 DEF Resent, Unacked, WorkTypeOK
  <2>2. sn \in Nat \ {0} /\ wait_ack_send_list[sn] \in SliceSet
    BY <1>0, <2>1 DEF WorkTypeOK
  <2>3. QED
    BY <1>1, <2>2
<1>3. TakesNew(Resent(expired), delayed) => Block(tail_sn, NextBlock) \in BlockSet
  <2>1. TakesNew(Resent(expired), delayed) => NextBlock \in SliceSet
    BY SendTakes
  <2>2. QED
    BY <1>0, <1>1, <2>1
<1>4. QED
  BY <1>2, <1>3 DEF SendData

(***************************************************************************)
(* The transfers made so far: numbered from 1, with numbered slices.       *)
(***************************************************************************)
MadeTypeOK ==
  /\ last_transfer_no \in Nat
  /\ send_data \in [1 .. last_transfer_no -> SUBSET BlockSet]

LEMMA NextMadeTypeOK ==
  ASSUME BufInv, WorkTypeOK, MadeTypeOK, [Next]_vars
  PROVE  MadeTypeOK'
<1>1. ASSUME NEW w \in Workers, NEW expired \in SUBSET Unacked,
             NEW delayed \in BOOLEAN, NEW ackDue \in BOOLEAN,
             Send(w, expired, delayed, ackDue)
      PROVE  MadeTypeOK'
  <2>1. /\ last_transfer_no' = last_transfer_no + 1
        /\ send_data' = [i \in DOMAIN send_data \cup {last_transfer_no + 1} |->
                            IF i = last_transfer_no + 1 THEN SendData(expired, delayed)
                                                        ELSE send_data[i]]
    BY <1>1 DEF Send, SendData
  <2>2. SendData(expired, delayed) \in SUBSET BlockSet
    BY <1>1, SendDataType
  <2>3. DOMAIN send_data \cup {last_transfer_no + 1} = 1 .. (last_transfer_no + 1)
    BY DEF MadeTypeOK
  <2>4. QED
    BY <2>1, <2>2, <2>3 DEF MadeTypeOK
<1>2. CASE UNCHANGED <<last_transfer_no, send_data>>
  BY <1>2 DEF MadeTypeOK
<1>3. QED
  BY <1>1, <1>2, MadeSteps DEF SendStep

(***************************************************************************)
(* transfer_list holds transfers that were made, a worker's request is one *)
(* of them.                                                                *)
(***************************************************************************)
ListTypeOK ==
  /\ DOMAIN transfer_list \subseteq DOMAIN send_data
  /\ transfer_list \in [DOMAIN transfer_list -> Transfer]
  /\ road \in [Workers -> 0 .. last_transfer_no]
  /\ RequestsMade

\* Made transfers stay made.
LEMMA MadeStays ==
  ASSUME MadeTypeOK, [Next]_vars
  PROVE  /\ last_transfer_no' \in Nat /\ last_transfer_no <= last_transfer_no'
         /\ DOMAIN send_data \subseteq DOMAIN send_data'
         /\ \A no \in DOMAIN send_data : send_data'[no] = send_data[no]
<1>1. ASSUME NEW w \in Workers, NEW expired \in SUBSET Unacked,
             NEW delayed \in BOOLEAN, NEW ackDue \in BOOLEAN,
             Send(w, expired, delayed, ackDue)
      PROVE  /\ last_transfer_no' = last_transfer_no + 1
             /\ DOMAIN send_data \subseteq DOMAIN send_data'
             /\ \A no \in DOMAIN send_data : send_data'[no] = send_data[no]
  <2>1. /\ last_transfer_no' = last_transfer_no + 1
        /\ send_data' = [i \in DOMAIN send_data \cup {last_transfer_no + 1} |->
                            IF i = last_transfer_no + 1 THEN SendData(expired, delayed)
                                                        ELSE send_data[i]]
    BY <1>1 DEF Send, SendData
  <2>2. last_transfer_no + 1 \notin DOMAIN send_data
    BY DEF MadeTypeOK
  <2>3. QED
    BY <2>1, <2>2
<1>2. CASE UNCHANGED <<last_transfer_no, send_data>>
  BY <1>2 DEF MadeTypeOK
<1>3. QED
  BY <1>1, <1>2, MadeSteps DEF SendStep, MadeTypeOK

\* Marking transfers as timed out changes nothing else.
LEMMA OverdueType ==
  ASSUME NEW D, NEW list \in [D -> Transfer], NEW late
  PROVE  Overdue(list, late) \in [D -> Transfer]
BY DEF Overdue, Transfer

LEMMA NextListTypeOK ==
  ASSUME PcTypeOK, MadeTypeOK, ListTypeOK, MadeTypeOK', [Next]_vars
  PROVE  ListTypeOK'
<1>0. /\ last_transfer_no \in Nat /\ last_transfer_no' \in Nat
      /\ last_transfer_no <= last_transfer_no'
      /\ DOMAIN send_data = 1 .. last_transfer_no
      /\ DOMAIN send_data' = 1 .. last_transfer_no'
      /\ DOMAIN send_data \subseteq DOMAIN send_data'
  BY MadeStays DEF MadeTypeOK
<1>1. ASSUME NEW w \in Workers, NEW expired \in SUBSET Unacked,
             NEW delayed \in BOOLEAN, NEW ackDue \in BOOLEAN,
             Send(w, expired, delayed, ackDue)
      PROVE  ListTypeOK'
  <2>1. /\ last_transfer_no' = last_transfer_no + 1
        /\ transfer_list' = [i \in DOMAIN transfer_list \cup {last_transfer_no + 1} |->
                                IF i = last_transfer_no + 1 THEN NewTransfer
                                                            ELSE transfer_list[i]]
        /\ pc' = [pc EXCEPT ![w] = "road"]
        /\ road' = [road EXCEPT ![w] = last_transfer_no + 1]
    BY <1>1 DEF Send
  <2>2. NewTransfer \in Transfer
    BY DEF NewTransfer, Transfer
  <2>3. /\ DOMAIN transfer_list' \subseteq DOMAIN send_data'
        /\ transfer_list' \in [DOMAIN transfer_list' -> Transfer]
    BY <1>0, <2>1, <2>2 DEF ListTypeOK
  <2>4. road' \in [Workers -> 0 .. last_transfer_no'] /\ RequestsMade'
    BY <1>0, <2>1 DEF ListTypeOK, RequestsMade, PcTypeOK
  <2>5. QED
    BY <2>3, <2>4 DEF ListTypeOK
<1>2. ASSUME NEW w \in Workers, Retry(w)
      PROVE  ListTypeOK'
  <2>1. PICK no \in DOMAIN transfer_list :
          /\ transfer_list' = [transfer_list EXCEPT ![no].stat = "retry"]
          /\ pc' = [pc EXCEPT ![w] = "road"]
          /\ road' = [road EXCEPT ![w] = no]
    BY <1>2 DEF Retry, TimedOut
  <2>2. /\ DOMAIN transfer_list' \subseteq DOMAIN send_data'
        /\ transfer_list' \in [DOMAIN transfer_list' -> Transfer]
    BY <1>0, <2>1 DEF ListTypeOK, Transfer
  <2>3. no \in DOMAIN send_data
    BY DEF ListTypeOK
  <2>4. road' \in [Workers -> 0 .. last_transfer_no'] /\ RequestsMade'
    BY <1>0, <2>1, <2>3 DEF ListTypeOK, RequestsMade, PcTypeOK
  <2>5. QED
    BY <2>2, <2>4 DEF ListTypeOK
<1>3. ASSUME NEW w \in Workers, Fail(w) \/ RequestError(w)
      PROVE  ListTypeOK'
  <2>1. /\ transfer_list' = [i \in DOMAIN transfer_list |->
                               IF i = road[w] THEN [transfer_list[i] EXCEPT !.stat = "timeout"]
                                              ELSE transfer_list[i]]
        /\ \E to \in {"loop", "error"} : pc' = [pc EXCEPT ![w] = to]
        /\ road' = [road EXCEPT ![w] = 0]
    BY <1>3 DEF Fail, RequestError, LeaveForRetry
  <2>2. /\ DOMAIN transfer_list' \subseteq DOMAIN send_data'
        /\ transfer_list' \in [DOMAIN transfer_list' -> Transfer]
    <3>1. \A x \in Transfer : [x EXCEPT !.stat = "timeout"] \in Transfer
      BY DEF Transfer
    <3>2. DOMAIN transfer_list' = DOMAIN transfer_list
      BY <2>1
    <3>3. QED
      BY <1>0, <2>1, <3>1, <3>2 DEF ListTypeOK
  <2>3. road' \in [Workers -> 0 .. last_transfer_no']
    BY <1>0, <2>1 DEF ListTypeOK
  <2>4. RequestsMade'
    BY <1>0, <2>1 DEF ListTypeOK, RequestsMade, PcTypeOK
  <2>5. QED
    BY <2>2, <2>3, <2>4 DEF ListTypeOK
<1>4. ASSUME NEW w \in Workers, Response(w)
      PROVE  ListTypeOK'
  <2>1. /\ transfer_list' = [no \in DOMAIN transfer_list \ {road[w]} |-> transfer_list[no]]
        /\ pc' = [pc EXCEPT ![w] = "reply"] /\ road' = road
    BY <1>4 DEF Response
  <2>2. /\ DOMAIN transfer_list' \subseteq DOMAIN send_data'
        /\ transfer_list' \in [DOMAIN transfer_list' -> Transfer]
    BY <1>0, <2>1 DEF ListTypeOK
  <2>3. road' \in [Workers -> 0 .. last_transfer_no'] /\ RequestsMade'
    BY <1>0, <2>1 DEF ListTypeOK, RequestsMade, PcTypeOK
  <2>4. QED
    BY <2>2, <2>3 DEF ListTypeOK
<1>5. ASSUME NEW w \in Workers, NEW late \in SUBSET DOMAIN transfer_list,
             NEW size \in Sizes, Finish(w, late, size)
      PROVE  ListTypeOK'
  <2>1. /\ transfer_list' = Overdue(Informed(reply[w]), late)
        /\ pc' = [pc EXCEPT ![w] = "loop"] /\ road' = [road EXCEPT ![w] = 0]
    BY <1>5 DEF Finish
  <2>2. Informed(reply[w]) \in [DOMAIN transfer_list -> Transfer]
    BY DEF Informed, ListTypeOK, Transfer
  <2>3. transfer_list' \in [DOMAIN transfer_list -> Transfer]
    BY <2>1, <2>2, OverdueType
  <2>4. road' \in [Workers -> 0 .. last_transfer_no'] /\ RequestsMade'
    BY <1>0, <2>1 DEF ListTypeOK, RequestsMade, PcTypeOK
  <2>5. QED
    BY <1>0, <2>3, <2>4 DEF ListTypeOK
<1>6. ASSUME NEW late \in SUBSET DOMAIN transfer_list, CheckTimeout(late)
      PROVE  ListTypeOK'
  <2>1. transfer_list' = Overdue(transfer_list, late) /\ UNCHANGED <<pc, road>>
    BY <1>6 DEF CheckTimeout
  <2>2. transfer_list' \in [DOMAIN transfer_list -> Transfer]
    BY <2>1, OverdueType DEF ListTypeOK
  <2>3. road' \in [Workers -> 0 .. last_transfer_no'] /\ RequestsMade'
    BY <1>0, <2>1 DEF ListTypeOK, RequestsMade
  <2>4. QED
    BY <1>0, <2>2, <2>3 DEF ListTypeOK
<1>7. CASE UNCHANGED <<transfer_list, pc, road>>
  BY <1>0, <1>7 DEF ListTypeOK, RequestsMade
<1>8. ASSUME NEW w \in Workers, WaitForData(w) \/ LeaveRoad(w) \/ ReplyError(w)
      PROVE  ListTypeOK'
  <2>1. /\ UNCHANGED transfer_list
        /\ \E to \in {"data", "loop"} : pc' = [pc EXCEPT ![w] = to]
        /\ road' = road \/ road' = [road EXCEPT ![w] = 0]
    BY <1>8 DEF WaitForData, LeaveRoad, ReplyError, listVars
  <2>2. RequestsMade'
    BY <1>0, <2>1 DEF ListTypeOK, RequestsMade, PcTypeOK
  <2>3. QED
    BY <1>0, <2>1, <2>2 DEF ListTypeOK
<1>9. QED
  BY <1>1, <1>2, <1>3, <1>4, <1>5, <1>6, <1>7, <1>8, ListSteps
     DEF SendStep, FailStep, FinishStep, CheckStep

(***************************************************************************)
(* The server's part: it has only blocks and transfers that were made, and *)
(* its answers speak of nothing else.                                      *)
(***************************************************************************)
NetTypeOK ==
  /\ reply \in [Workers -> ReplySet]
  /\ server_blocks \subseteq BlockSet
  /\ server_received \subseteq DOMAIN send_data
  /\ server_sent \subseteq DOMAIN send_data

LEMMA NextNetTypeOK ==
  ASSUME BufInv, PcTypeOK, MadeTypeOK, ListTypeOK, NetTypeOK, [Next]_vars
  PROVE  NetTypeOK'
<1>0. /\ DOMAIN send_data \subseteq DOMAIN send_data'
      /\ DOMAIN send_data \subseteq Nat \ {0}
  BY MadeStays DEF MadeTypeOK
<1>1. ASSUME NEW w \in Workers, Fail(w) \/ RequestError(w) \/ ReplyError(w)
      PROVE  NetTypeOK'
  <2>1. /\ reply' = [reply EXCEPT ![w] = NoReply]
        /\ UNCHANGED <<server_blocks, server_received, server_sent>>
    BY <1>1 DEF Fail, RequestError, ReplyError
  <2>2. QED
    BY <1>0, <2>1 DEF NetTypeOK, NoReply, ReplySet
<1>2. ASSUME NEW w \in Workers, NEW late \in SUBSET DOMAIN transfer_list,
             NEW size \in Sizes, Finish(w, late, size)
      PROVE  NetTypeOK'
  <2>1. /\ reply' = [reply EXCEPT ![w] = NoReply]
        /\ UNCHANGED <<server_blocks, server_received, server_sent>>
    BY <1>2 DEF Finish
  <2>2. QED
    BY <1>0, <2>1 DEF NetTypeOK, NoReply, ReplySet
<1>3. ASSUME NEW w \in Workers, ServerAnswer(w)
      PROVE  NetTypeOK'
  <2>1. /\ pc[w] = "road"
        /\ server_blocks' = server_blocks \cup send_data[road[w]]
        /\ server_received' = server_received \cup {road[w]}
        /\ server_sent' = server_sent \cup {road[w]}
        /\ \E last \in 0 .. (tail_sn - 1) :
              reply' = [reply EXCEPT ![w] =
                           [last     |-> last,
                            extra    |-> {sn \in SnsOf(server_blocks') : sn > last},
                            received |-> server_received',
                            sent     |-> server_sent',
                            given    |-> TRUE]]
    BY <1>3 DEF ServerAnswer
  <2>2. /\ road[w] \in DOMAIN send_data
        /\ send_data[road[w]] \subseteq BlockSet
    BY <2>1 DEF ListTypeOK, RequestsMade, MadeTypeOK
  <2>3. /\ server_blocks' \subseteq BlockSet
        /\ server_received' \subseteq DOMAIN send_data
        /\ server_sent' \subseteq DOMAIN send_data
    BY <2>1, <2>2 DEF NetTypeOK
  <2>4. SnsOf(server_blocks') \subseteq Nat \ {0}
    BY <2>3 DEF SnsOf, BlockSet
  <2>5. PICK last \in 0 .. (tail_sn - 1) :
              reply' = [reply EXCEPT ![w] =
                           [last     |-> last,
                            extra    |-> {sn \in SnsOf(server_blocks') : sn > last},
                            received |-> server_received',
                            sent     |-> server_sent',
                            given    |-> TRUE]]
    BY <2>1
  <2>6. last \in Nat
    BY DEF BufInv, BufTypeOK
  <2>7. reply' \in [Workers -> ReplySet]
    BY <1>0, <2>3, <2>4, <2>5, <2>6 DEF NetTypeOK, ReplySet
  <2>8. QED
    BY <1>0, <2>3, <2>7 DEF NetTypeOK
<1>4. ASSUME NEW no \in DOMAIN send_data, ServerReceive(no)
      PROVE  NetTypeOK'
  <2>1. /\ server_blocks' = server_blocks \cup send_data[no]
        /\ server_received' = server_received \cup {no}
        /\ UNCHANGED <<reply, server_sent>>
    BY <1>4 DEF ServerReceive
  <2>2. send_data[no] \subseteq BlockSet
    BY DEF MadeTypeOK
  <2>3. QED
    BY <1>0, <2>1, <2>2 DEF NetTypeOK
<1>5. CASE UNCHANGED netVars
  BY <1>0, <1>5 DEF NetTypeOK, netVars
<1>6. QED
  BY <1>1, <1>2, <1>3, <1>4, <1>5, NetSteps DEF FailStep, FinishStep

(***************************************************************************)
(* Connections and the wanted number of requests.  RoadLimit is positive   *)
(* because MinOnRoad is less than the number of workers.                   *)
(***************************************************************************)
ConnTypeOK ==
  /\ target_on_roads \in Nat
  /\ last_conn_id \in Nat /\ conns \in Nat

LEMMA RoadLimitPositive == RoadLimit \in Nat \ {0} /\ MinOnRoad \in Nat \ {0}
<1>1. Cardinality(Workers) \in Nat
  BY RoundTripAssumption, FS_CardinalityType DEF RoundTripAssumption
<1>2. QED
  BY <1>1, RoundTripAssumption DEF RoundTripAssumption, RoadLimit

\* Time-outs never lower the number of requests that are wanted to none.
LEMMA LateTarget ==
  ASSUME target_on_roads \in Nat, NEW late \in SUBSET DOMAIN transfer_list,
         IsFiniteSet(DOMAIN transfer_list)
  PROVE  /\ TargetAfterLate(late) \in Nat
         /\ target_on_roads > 0 => TargetAfterLate(late) > 0
<1>1. Cardinality(late) \in Nat
  BY FS_Subset, FS_CardinalityType
<1>2. QED
  BY <1>1, RoadLimitPositive DEF TargetAfterLate, Least

\* A response leaves some wanted while there are connections.
LEMMA ResponseTarget ==
  ASSUME conns \in Nat, NEW target \in Nat, NEW size \in Sizes
  PROVE  /\ TargetAfterResponse(target, size) \in Nat
         /\ target > 0 /\ conns > 0 => TargetAfterResponse(target, size) > 0
<1>1. CASE conns = 0
  BY <1>1 DEF TargetAfterResponse
<1>2. CASE conns > 0 /\ size = "full"
  BY <1>2, RoadLimitPositive DEF TargetAfterResponse, Least
<1>3. CASE conns > 0 /\ size = "small"
  BY <1>3, RoadLimitPositive DEF TargetAfterResponse, Greatest
<1>4. CASE conns > 0 /\ size = "medium"
  BY <1>4 DEF TargetAfterResponse
<1>5. QED
  BY <1>1, <1>2, <1>3, <1>4 DEF Sizes

LEMMA NextConnTypeOK ==
  ASSUME ConnTypeOK, KeepsPolling, IsFiniteSet(DOMAIN transfer_list), [Next]_vars
  PROVE  ConnTypeOK' /\ KeepsPolling'
<1>1. ASSUME NEW n \in 1 .. MaxBytes, CreateConn(n)
      PROVE  ConnTypeOK' /\ KeepsPolling'
  BY <1>1, RoadLimitPositive DEF CreateConn, ConnTypeOK, KeepsPolling, Least
<1>2. CASE RemoveConn
  BY <1>2 DEF RemoveConn, ConnTypeOK, KeepsPolling
<1>3. ASSUME NEW w \in Workers, NEW late \in SUBSET DOMAIN transfer_list,
             NEW size \in Sizes, Finish(w, late, size)
      PROVE  ConnTypeOK' /\ KeepsPolling'
  <2>1. /\ target_on_roads' = TargetAfterResponse(TargetAfterLate(late), size)
        /\ UNCHANGED <<last_conn_id, conns>>
    BY <1>3 DEF Finish, connVars
  <2>2. /\ TargetAfterLate(late) \in Nat
        /\ target_on_roads > 0 => TargetAfterLate(late) > 0
    BY LateTarget DEF ConnTypeOK
  <2>3. /\ target_on_roads' \in Nat
        /\ TargetAfterLate(late) > 0 /\ conns > 0 => target_on_roads' > 0
    BY <2>1, <2>2, ResponseTarget DEF ConnTypeOK
  <2>4. QED
    BY <2>1, <2>2, <2>3 DEF ConnTypeOK, KeepsPolling
<1>4. ASSUME NEW late \in SUBSET DOMAIN transfer_list, CheckTimeout(late)
      PROVE  ConnTypeOK' /\ KeepsPolling'
  <2>1. /\ target_on_roads' = TargetAfterLate(late)
        /\ UNCHANGED <<last_conn_id, conns>>
    BY <1>4 DEF CheckTimeout, connVars
  <2>2. /\ TargetAfterLate(late) \in Nat
        /\ target_on_roads > 0 => TargetAfterLate(late) > 0
    BY LateTarget DEF ConnTypeOK
  <2>3. QED
    BY <2>1, <2>2 DEF ConnTypeOK, KeepsPolling
<1>5. CASE UNCHANGED <<target_on_roads, connVars>>
  BY <1>5 DEF ConnTypeOK, KeepsPolling, connVars
<1>6. QED
  BY <1>1, <1>2, <1>3, <1>4, <1>5, ConnSteps DEF FinishStep, CheckStep

-----------------------------------------------------------------------------
(***************************************************************************)
(* Acks.  A block is taken for acked only on the word of an answer, and    *)
(* what an answer says has arrived stays with the server.                  *)
(***************************************************************************)
LEMMA NextAcksTrue ==
  ASSUME BufInv, WorkTypeOK, NetTypeOK, NoFalseAck, RepliesHonest, [Next]_vars
  PROVE  NoFalseAck' /\ RepliesHonest'
<1>0. tail_sn \in Nat \ {0} /\ ack_send_continue_sn \in Nat
  BY DEF BufInv, BufTypeOK, WorkTypeOK
<1>1. ASSUME NEW w \in Workers, NEW expired \in SUBSET Unacked,
             NEW delayed \in BOOLEAN, NEW ackDue \in BOOLEAN,
             Send(w, expired, delayed, ackDue)
      PROVE  NoFalseAck' /\ RepliesHonest'
  <2>1. UNCHANGED <<acked, ack_send_continue_sn, reply, server_blocks>>
    BY <1>1 DEF Send, netVars
  <2>2. tail_sn' = tail_sn \/ tail_sn' = tail_sn + 1
    BY <1>1, SendTakes DEF bufVars
  <2>3. ASSUME NEW sn \in 1 .. (tail_sn' - 1),
               sn <= ack_send_continue_sn \/ sn \in acked
        PROVE  sn \in SnsOf(server_blocks)
    <3>1. sn \in 1 .. (tail_sn - 1)
      BY <1>0, <2>2, <2>3 DEF WorkTypeOK
    <3>2. QED
      BY <2>3, <3>1 DEF NoFalseAck
  <2>4. QED
    BY <2>1, <2>3 DEF NoFalseAck, RepliesHonest, SnsOf
<1>2. ASSUME NEW w \in Workers, NEW late \in SUBSET DOMAIN transfer_list,
             NEW size \in Sizes, Finish(w, late, size)
      PROVE  NoFalseAck' /\ RepliesHonest'
  <2>1. /\ AckProcess(reply[w])
        /\ reply' = [reply EXCEPT ![w] = NoReply]
        /\ UNCHANGED <<tail_sn, server_blocks>>
    BY <1>2 DEF Finish, bufVars
  <2> DEFINE nowAcked == acked \cup {sn \in DOMAIN wait_ack_send_list :
                                       sn <= reply[w].last \/ sn \in reply[w].extra}
  <2>2. PICK next \in ack_send_continue_sn .. (tail_sn - 1) :
           /\ (ack_send_continue_sn + 1) .. next \subseteq nowAcked
           /\ ack_send_continue_sn' = next
           /\ acked' \subseteq nowAcked
    BY <2>1 DEF AckProcess
  <2>3. ASSUME NEW sn \in 1 .. (tail_sn - 1), sn \in nowAcked
        PROVE  sn \in SnsOf(server_blocks)
    <3>1. CASE sn \in acked
      BY <3>1 DEF NoFalseAck
    <3>2. CASE sn <= reply[w].last
      <4>1. reply[w].last \in Nat
        BY DEF NetTypeOK, ReplySet
      <4>2. sn \in 1 .. reply[w].last
        BY <3>2, <4>1
      <4>3. QED
        BY <4>2 DEF RepliesHonest
    <3>3. CASE sn \in reply[w].extra
      BY <3>3 DEF RepliesHonest
    <3>4. QED
      BY <2>3, <3>1, <3>2, <3>3
  <2>4. ASSUME NEW sn \in 1 .. (tail_sn - 1), sn <= next
        PROVE  sn \in SnsOf(server_blocks)
    <3>1. CASE sn <= ack_send_continue_sn
      BY <3>1 DEF NoFalseAck
    <3>2. CASE sn \in (ack_send_continue_sn + 1) .. next
      BY <2>2, <2>3, <3>2
    <3>3. QED
      BY <1>0, <2>4, <3>1, <3>2
  <2>5. NoFalseAck'
    BY <2>1, <2>2, <2>3, <2>4 DEF NoFalseAck, SnsOf
  <2>6. RepliesHonest'
    BY <2>1 DEF RepliesHonest, NetTypeOK, NoReply, SnsOf
  <2>7. QED
    BY <2>5, <2>6
<1>3. ASSUME NEW w \in Workers, Fail(w) \/ RequestError(w) \/ ReplyError(w)
      PROVE  NoFalseAck' /\ RepliesHonest'
  <2>1. /\ reply' = [reply EXCEPT ![w] = NoReply]
        /\ UNCHANGED <<tail_sn, server_blocks, acked, ack_send_continue_sn>>
    BY <1>3 DEF Fail, RequestError, ReplyError, bufVars, workVars
  <2>2. QED
    BY <2>1 DEF RepliesHonest, NoFalseAck, NetTypeOK, NoReply, SnsOf
<1>4. ASSUME NEW w \in Workers, ServerAnswer(w)
      PROVE  NoFalseAck' /\ RepliesHonest'
  <2>1. /\ server_blocks \subseteq server_blocks'
        /\ UNCHANGED <<tail_sn, acked, ack_send_continue_sn>>
    BY <1>4 DEF ServerAnswer, bufVars, workVars
  <2>2. SnsOf(server_blocks) \subseteq SnsOf(server_blocks')
    BY <2>1 DEF SnsOf
  <2>3. PICK last \in 0 .. (tail_sn - 1) :
           /\ 1 .. last \subseteq SnsOf(server_blocks')
           /\ reply' = [reply EXCEPT ![w] =
                           [last     |-> last,
                            extra    |-> {sn \in SnsOf(server_blocks') : sn > last},
                            received |-> server_received',
                            sent     |-> server_sent',
                            given    |-> TRUE]]
    BY <1>4 DEF ServerAnswer
  <2>4. ASSUME NEW v \in Workers
        PROVE  1 .. reply'[v].last \cup reply'[v].extra \subseteq SnsOf(server_blocks')
    <3>1. CASE v = w
      <4>1. /\ reply'[v].last = last
            /\ reply'[v].extra = {sn \in SnsOf(server_blocks') : sn > last}
        BY <2>3, <3>1 DEF NetTypeOK
      <4>2. QED
        BY <2>3, <4>1
    <3>2. CASE v # w
      <4>1. reply'[v] = reply[v]
        BY <2>3, <3>2 DEF NetTypeOK
      <4>2. QED
        BY <2>2, <4>1 DEF RepliesHonest
    <3>3. QED
      BY <3>1, <3>2
  <2>5. QED
    BY <2>1, <2>2, <2>4 DEF NoFalseAck, RepliesHonest
<1>5. ASSUME NEW no \in DOMAIN send_data, ServerReceive(no)
      PROVE  NoFalseAck' /\ RepliesHonest'
  <2>1. /\ server_blocks \subseteq server_blocks'
        /\ UNCHANGED <<tail_sn, acked, ack_send_continue_sn, reply>>
    BY <1>5 DEF ServerReceive, bufVars, workVars
  <2>2. SnsOf(server_blocks) \subseteq SnsOf(server_blocks')
    BY <2>1 DEF SnsOf
  <2>3. QED
    BY <2>1, <2>2 DEF NoFalseAck, RepliesHonest
<1>6. CASE UNCHANGED netVars /\ UNCHANGED <<workVars, tail_sn>>
  BY <1>6 DEF NoFalseAck, RepliesHonest, SnsOf, netVars, workVars
<1>7. QED
  BY <1>1, <1>2, <1>3, <1>4, <1>5, <1>6, WorkSteps, NetSteps
     DEF SendStep, FailStep, FinishStep

-----------------------------------------------------------------------------
(***************************************************************************)
(* The numbering of blocks.  Only sending takes a block from the buffer,   *)
(* and it takes the one that starts where the last one ended.              *)
(***************************************************************************)
LEMMA TakeSteps ==
  ASSUME [Next]_vars
  PROVE  SendStep \/ UNCHANGED <<send_data, tail_sn, fetched>>
<1>1. CASE \E w \in Workers : \/ WaitForData(w) \/ Retry(w) \/ ServerAnswer(w) \/ Fail(w)
                              \/ RequestError(w) \/ LeaveRoad(w) \/ Response(w)
                              \/ ReplyError(w)
  BY <1>1 DEF WaitForData, Retry, ServerAnswer, Fail, RequestError, LeaveRoad, Response,
              ReplyError, bufVars, listVars
<1>2. CASE \/ (\E n \in 1 .. MaxBytes : CreateConn(n) \/ SendConnData(n))
           \/ RemoveConn \/ Quiet \/ UNCHANGED vars
  BY <1>2 DEF CreateConn, SendConnData, Add, RemoveConn, Quiet, vars, bufVars, listVars
<1>3. CASE \/ (\E no \in DOMAIN send_data : ServerReceive(no)) \/ CheckStep \/ FinishStep
  BY <1>3 DEF ServerReceive, CheckStep, CheckTimeout, FinishStep, Finish, bufVars, listVars
<1>4. QED
  BY <1>1, <1>2, <1>3, Zenon DEF Next, SendStep, FinishStep, CheckStep

LEMMA NextStreamExact ==
  ASSUME BufInv, WorkTypeOK, MadeTypeOK, StreamExact, ResendSame, IssuedBefore,
         BufInv', [Next]_vars
  PROVE  StreamExact' /\ ResendSame' /\ IssuedBefore'
<1>0. /\ tail_sn \in Nat \ {0} /\ ack_send_continue_sn \in Nat
      /\ fetched.hi = FirstByte /\ fetched'.hi = FirstByte'
      /\ FirstByte = NextBlock.lo
  BY DEF BufInv, BufTypeOK, WorkTypeOK, FetchContinues, FirstByte
<1>1. ASSUME NEW w \in Workers, NEW expired \in SUBSET Unacked,
             NEW delayed \in BOOLEAN, NEW ackDue \in BOOLEAN,
             Send(w, expired, delayed, ackDue)
      PROVE  StreamExact' /\ ResendSame' /\ IssuedBefore'
  <2>1. send_data' = [i \in DOMAIN send_data \cup {last_transfer_no + 1} |->
                        IF i = last_transfer_no + 1 THEN SendData(expired, delayed)
                                                    ELSE send_data[i]]
    BY <1>1 DEF Send, SendData
  <2>2. Issued' = Issued \cup SendData(expired, delayed)
    <3>1. last_transfer_no + 1 \notin DOMAIN send_data
      BY DEF MadeTypeOK
    <3>2. QED
      BY <2>1, <3>1 DEF Issued
  <2>3. {Block(sn, wait_ack_send_list[sn]) : sn \in Resent(expired)} \subseteq Issued
    BY DEF Resent, Unacked, ResendSame
  <2>4. CASE /\ ~TakesNew(Resent(expired), delayed)
             /\ UNCHANGED <<bufVars, wait_ack_send_list>>
    <3>1. Issued' = Issued
      BY <2>2, <2>3, <2>4 DEF SendData
    <3>2. QED
      BY <1>0, <2>4, <3>1 DEF StreamExact, ResendSame, IssuedBefore, bufVars
  <2>5. CASE /\ TakesNew(Resent(expired), delayed) /\ Get
             /\ NextBlock \in SliceSet /\ tail_sn' = tail_sn + 1
             /\ wait_ack_send_list' =
                  [sn \in DOMAIN wait_ack_send_list \cup {tail_sn} |->
                     IF sn = tail_sn THEN NextBlock ELSE wait_ack_send_list[sn]]
    <3> DEFINE new == Block(tail_sn, NextBlock)
    <3>1. /\ new.sn = tail_sn /\ new.lo = FirstByte /\ new.hi = FirstByte'
          /\ FirstByte \in Nat /\ FirstByte' \in Nat /\ FirstByte <= FirstByte'
      <4>1. fetched'.hi = NextBlock.hi
        BY <2>5 DEF Get
      <4>2. fetched'.hi > fetched.hi
        BY <2>5, GetBufInv
      <4>3. fetched.hi \in Nat /\ fetched'.hi \in Nat
        BY DEF BufInv, BufTypeOK
      <4>4. QED
        BY <1>0, <4>1, <4>2, <4>3 DEF Block
    <3>2. Issued' = Issued \cup {new}
      BY <2>2, <2>3, <2>5 DEF SendData
    <3>3. \A b \in Issued : b.sn \in Nat /\ b.hi \in Nat /\ b.sn < tail_sn /\ b.hi <= FirstByte
      BY DEF IssuedBefore, Issued, MadeTypeOK, BlockSet
    <3>4. ResendSame'
      BY <2>5, <3>2 DEF ResendSame
    <3> HIDE DEF new
    <3>5. StreamExact'
      <4>1. ASSUME NEW a \in Issued, NEW b \in Issued
            PROVE  /\ a.sn = b.sn => a = b
                   /\ a.sn + 1 = b.sn => a.hi = b.lo
                   /\ a.sn = 1 => a.lo = 0
        BY DEF StreamExact
      <4>2. ASSUME NEW a \in Issued
            PROVE  /\ a.sn # new.sn /\ new.sn + 1 # a.sn
                   /\ a.sn + 1 = new.sn => a.hi = new.lo
        BY <1>0, <3>1, <3>3 DEF IssuedBefore
      <4>3. new.sn + 1 # new.sn /\ (new.sn = 1 => new.lo = 0)
        BY <1>0, <3>1 DEF IssuedBefore
      <4>4. QED
        BY <3>2, <4>1, <4>2, <4>3 DEF StreamExact
    <3>6. IssuedBefore'
      BY <1>0, <2>5, <3>1, <3>2, <3>3 DEF IssuedBefore
    <3>7. QED
      BY <3>4, <3>5, <3>6
  <2>6. QED
    BY <1>1, <2>4, <2>5, SendTakes
<1>2. CASE UNCHANGED <<send_data, tail_sn, fetched>>
  <2>1. Issued' = Issued /\ FirstByte' = FirstByte
    BY <1>0, <1>2 DEF Issued
  <2>2. StreamExact' /\ IssuedBefore'
    BY <1>2, <2>1 DEF StreamExact, IssuedBefore
  <2>3. CASE SendStep
    BY <1>1, <2>3 DEF SendStep
  <2>4. CASE FinishStep
    <3>1. \A sn \in DOMAIN wait_ack_send_list' :
             /\ sn \in DOMAIN wait_ack_send_list
             /\ wait_ack_send_list'[sn] = wait_ack_send_list[sn]
      BY <2>4 DEF FinishStep, Finish, AckProcess
    <3>2. QED
      BY <2>1, <2>2, <3>1 DEF ResendSame, Block
  <2>5. CASE UNCHANGED <<workVars, tail_sn>>
    BY <2>1, <2>2, <2>5 DEF ResendSame, workVars
  <2>6. QED
    BY <2>3, <2>4, <2>5, WorkSteps
<1>3. QED
  BY <1>1, <1>2, TakeSteps DEF SendStep

\* The server gets what was sent.
LEMMA NextServerHasIssued ==
  ASSUME MadeTypeOK, ListTypeOK, ServerHasIssued, [Next]_vars
  PROVE  ServerHasIssued'
<1>1. Issued \subseteq Issued'
  BY MadeStays DEF Issued
<1>2. ASSUME NEW w \in Workers, ServerAnswer(w)
      PROVE  ServerHasIssued'
  <2>1. pc[w] = "road" /\ server_blocks' = server_blocks \cup send_data[road[w]]
    BY <1>2 DEF ServerAnswer
  <2>2. send_data[road[w]] \subseteq Issued
    BY <2>1 DEF ListTypeOK, RequestsMade, Issued
  <2>3. QED
    BY <1>1, <2>1, <2>2 DEF ServerHasIssued
<1>3. ASSUME NEW no \in DOMAIN send_data, ServerReceive(no)
      PROVE  ServerHasIssued'
  <2>1. server_blocks' = server_blocks \cup send_data[no]
    BY <1>3 DEF ServerReceive
  <2>2. send_data[no] \subseteq Issued
    BY DEF Issued
  <2>3. QED
    BY <1>1, <2>1, <2>2 DEF ServerHasIssued
<1>4. CASE FinishStep \/ FailStep \/ UNCHANGED netVars \/ \E w \in Workers : ReplyError(w)
  BY <1>1, <1>4 DEF ServerHasIssued, FinishStep, Finish, FailStep, Fail, RequestError,
                    ReplyError, netVars
<1>5. QED
  BY <1>2, <1>3, <1>4, NetSteps

-----------------------------------------------------------------------------
(***************************************************************************)
(* The transfer list: whatever an exchange leaves behind is either marked  *)
(* for a retry or still carried by another worker.                         *)
(***************************************************************************)
LEMMA NextNoOrphan ==
  ASSUME PcTypeOK, MadeTypeOK, ListTypeOK, NoOrphanTransfer, [Next]_vars
  PROVE  NoOrphanTransfer'
<1>1. ASSUME NEW w \in Workers, NEW expired \in SUBSET Unacked,
             NEW delayed \in BOOLEAN, NEW ackDue \in BOOLEAN,
             Send(w, expired, delayed, ackDue)
      PROVE  NoOrphanTransfer'
  <2>1. /\ pc[w] # "road"
        /\ transfer_list' = [i \in DOMAIN transfer_list \cup {last_transfer_no + 1} |->
                                IF i = last_transfer_no + 1 THEN NewTransfer
                                                            ELSE transfer_list[i]]
        /\ pc' = [pc EXCEPT ![w] = "road"]
        /\ road' = [road EXCEPT ![w] = last_transfer_no + 1]
    BY <1>1 DEF Send, MayMakeTransfer
  <2>2. QED
    BY <2>1 DEF NoOrphanTransfer, ListTypeOK, PcTypeOK
<1>2. ASSUME NEW w \in Workers, Retry(w)
      PROVE  NoOrphanTransfer'
  <2>1. PICK no \in DOMAIN transfer_list :
          /\ pc[w] = "loop"
          /\ transfer_list' = [transfer_list EXCEPT ![no].stat = "retry"]
          /\ pc' = [pc EXCEPT ![w] = "road"]
          /\ road' = [road EXCEPT ![w] = no]
    BY <1>2 DEF Retry, TimedOut
  <2>2. QED
    BY <2>1 DEF NoOrphanTransfer, ListTypeOK, PcTypeOK
<1>3. ASSUME NEW w \in Workers, Fail(w) \/ RequestError(w)
      PROVE  NoOrphanTransfer'
  <2>1. /\ transfer_list' = [i \in DOMAIN transfer_list |->
                               IF i = road[w] THEN [transfer_list[i] EXCEPT !.stat = "timeout"]
                                              ELSE transfer_list[i]]
        /\ \E to \in {"loop", "error"} : pc' = [pc EXCEPT ![w] = to]
        /\ road' = [road EXCEPT ![w] = 0]
    BY <1>3 DEF Fail, RequestError, LeaveForRetry
  <2>2. ASSUME NEW no \in DOMAIN transfer_list'
        PROVE  \/ transfer_list'[no].stat = "timeout"
               \/ \E v \in Workers : pc'[v] = "road" /\ road'[v] = no
    <3>1. CASE no = road[w]
      BY <2>1, <3>1 DEF ListTypeOK, Transfer
    <3>2. CASE no # road[w]
      BY <2>1, <3>2 DEF NoOrphanTransfer, ListTypeOK, PcTypeOK
    <3>3. QED
      BY <3>1, <3>2
  <2>3. QED
    BY <2>2 DEF NoOrphanTransfer
<1>4. ASSUME NEW w \in Workers, Response(w)
      PROVE  NoOrphanTransfer'
  <2>1. /\ transfer_list' = [no \in DOMAIN transfer_list \ {road[w]} |-> transfer_list[no]]
        /\ pc' = [pc EXCEPT ![w] = "reply"] /\ road' = road
    BY <1>4 DEF Response
  <2>2. QED
    BY <2>1 DEF NoOrphanTransfer, ListTypeOK, PcTypeOK
<1>5. ASSUME NEW w \in Workers, NEW late \in SUBSET DOMAIN transfer_list,
             NEW size \in Sizes, Finish(w, late, size)
      PROVE  NoOrphanTransfer'
  <2>1. /\ pc[w] = "reply"
        /\ transfer_list' = Overdue(Informed(reply[w]), late)
        /\ pc' = [pc EXCEPT ![w] = "loop"] /\ road' = [road EXCEPT ![w] = 0]
    BY <1>5 DEF Finish
  <2>2. /\ DOMAIN transfer_list' = DOMAIN transfer_list
        /\ \A no \in DOMAIN transfer_list : \/ transfer_list'[no].stat = "timeout"
                                            \/ transfer_list'[no].stat = transfer_list[no].stat
    BY <2>1 DEF Overdue, Informed
  <2>3. QED
    BY <2>1, <2>2 DEF NoOrphanTransfer, ListTypeOK, PcTypeOK
<1>6. ASSUME NEW late \in SUBSET DOMAIN transfer_list, CheckTimeout(late)
      PROVE  NoOrphanTransfer'
  <2>1. transfer_list' = Overdue(transfer_list, late) /\ UNCHANGED <<pc, road>>
    BY <1>6 DEF CheckTimeout
  <2>2. QED
    BY <2>1 DEF NoOrphanTransfer, Overdue, ListTypeOK, Transfer
<1>7. CASE UNCHANGED <<transfer_list, pc, road>>
  BY <1>7 DEF NoOrphanTransfer
<1>8. ASSUME NEW w \in Workers, WaitForData(w) \/ LeaveRoad(w) \/ ReplyError(w)
      PROVE  NoOrphanTransfer'
  <2>1. /\ UNCHANGED transfer_list /\ pc[w] # "road"
        /\ \E to \in {"data", "loop"} : pc' = [pc EXCEPT ![w] = to]
        /\ road' = road \/ road' = [road EXCEPT ![w] = 0]
    BY <1>8 DEF WaitForData, LeaveRoad, ReplyError, listVars
  <2>2. QED
    BY <2>1 DEF NoOrphanTransfer, PcTypeOK, ListTypeOK
<1>9. QED
  BY <1>1, <1>2, <1>3, <1>4, <1>5, <1>6, <1>7, <1>8, ListSteps
     DEF SendStep, FailStep, FinishStep, CheckStep

(***************************************************************************)
(* The bounds' counters.                                                   *)
(***************************************************************************)
SpentTypeOK == spent \in [polls : Nat, resends : Nat, losses : Nat]

LEMMA NextSpentTypeOK ==
  ASSUME BufInv, WorkTypeOK, SpentTypeOK, [Next]_vars
  PROVE  SpentTypeOK'
<1>1. ASSUME NEW w \in Workers, NEW expired \in SUBSET Unacked,
             NEW delayed \in BOOLEAN, NEW ackDue \in BOOLEAN,
             Send(w, expired, delayed, ackDue)
      PROVE  SpentTypeOK'
  <2>1. Resent(expired) \cap Carried \in SUBSET ((ack_send_continue_sn + 1) .. (tail_sn - 1))
    BY DEF Resent, Unacked, WorkTypeOK
  <2>2. IsFiniteSet((ack_send_continue_sn + 1) .. (tail_sn - 1))
    BY FS_Interval DEF BufInv, BufTypeOK, WorkTypeOK
  <2>3. Cardinality(Resent(expired) \cap Carried) \in Nat
    BY <2>1, <2>2, FS_Subset, FS_CardinalityType
  <2>4. \E n \in {0, 1} : spent' = [spent EXCEPT
                                      !.polls = @ + n,
                                      !.resends = @ + Cardinality(Resent(expired) \cap Carried)]
    BY <1>1 DEF Send
  <2>5. PICK n \in Nat, m \in Nat :
           spent' = [spent EXCEPT !.polls = @ + n, !.resends = @ + m]
    BY <2>3, <2>4
  <2>6. spent.polls \in Nat /\ spent.resends \in Nat /\ spent.losses \in Nat
    BY DEF SpentTypeOK
  <2>7. spent' = [polls |-> spent.polls + n, resends |-> spent.resends + m,
                  losses |-> spent.losses]
    BY <2>5 DEF SpentTypeOK
  <2>8. QED
    BY <2>6, <2>7 DEF SpentTypeOK
<1>2. ASSUME NEW w \in Workers, Fail(w) \/ RequestError(w) \/ ReplyError(w)
      PROVE  SpentTypeOK'
  BY <1>2 DEF Fail, RequestError, ReplyError, SpentTypeOK
<1>3. CASE UNCHANGED spent
  BY <1>3 DEF SpentTypeOK
<1>4. CASE \E w \in Workers : \/ WaitForData(w) \/ Retry(w) \/ ServerAnswer(w)
                              \/ LeaveRoad(w) \/ Response(w)
  BY <1>3, <1>4 DEF WaitForData, Retry, ServerAnswer, LeaveRoad, Response
<1>5. CASE \/ (\E n \in 1 .. MaxBytes : CreateConn(n) \/ SendConnData(n))
           \/ RemoveConn \/ Quiet \/ UNCHANGED vars
           \/ \E no \in DOMAIN send_data : ServerReceive(no)
  BY <1>3, <1>5 DEF CreateConn, SendConnData, RemoveConn, Quiet, vars, ServerReceive
<1>6. CASE FinishStep \/ CheckStep
  BY <1>3, <1>6 DEF FinishStep, Finish, CheckStep, CheckTimeout
<1>7. QED
  BY <1>1, <1>2, <1>4, <1>5, <1>6 DEF Next, FinishStep, CheckStep

-----------------------------------------------------------------------------
(***************************************************************************)
(* The invariant, put together from its parts.                             *)
(***************************************************************************)
TypeParts == /\ PcTypeOK /\ WorkTypeOK /\ MadeTypeOK /\ ListTypeOK /\ NetTypeOK
             /\ ConnTypeOK /\ SpentTypeOK

\* SessionInv has the parts, and they give back its types.
LEMMA TypeSplit == SessionInv => TypeParts /\ IsFiniteSet(DOMAIN transfer_list)
<1> SUFFICES ASSUME SessionInv PROVE TypeParts /\ IsFiniteSet(DOMAIN transfer_list)
  OBVIOUS
<1>1. PcTypeOK /\ WorkTypeOK /\ MadeTypeOK /\ SpentTypeOK /\ ConnTypeOK
  BY DEF SessionInv, TypeOK, PcTypeOK, WorkTypeOK, MadeTypeOK, SpentTypeOK, ConnTypeOK
<1>2. ListTypeOK /\ NetTypeOK
  BY DEF SessionInv, TypeOK, ListTypeOK, NetTypeOK
<1>3. IsFiniteSet(1 .. last_transfer_no)
  BY <1>1, FS_Interval DEF MadeTypeOK
<1>4. DOMAIN transfer_list \in SUBSET (1 .. last_transfer_no)
  BY <1>1, <1>2 DEF MadeTypeOK, ListTypeOK
<1>5. QED
  BY <1>1, <1>2, <1>3, <1>4, FS_Subset DEF TypeParts

LEMMA TypeJoin ==
  ASSUME TypeParts, BufInv, OnRoadExact
  PROVE  TypeOK /\ RequestsMade
<1>1. on_road_num \in Nat
  BY OnRoadFinite DEF OnRoadExact, OnRoad
<1>2. QED
  BY <1>1 DEF TypeParts, TypeOK, PcTypeOK, WorkTypeOK, MadeTypeOK, SpentTypeOK, ConnTypeOK,
              ListTypeOK, NetTypeOK, BufInv

\* The same for the next state.
LEMMA TypeJoinPrime ==
  ASSUME TypeParts', BufInv', OnRoadExact'
  PROVE  TypeOK' /\ RequestsMade'
<1>1. on_road_num' \in Nat
  BY OnRoadFinitePrime DEF OnRoadExact, OnRoad
<1>2. QED
  BY <1>1 DEF TypeParts, TypeOK, PcTypeOK, WorkTypeOK, MadeTypeOK, SpentTypeOK, ConnTypeOK,
              ListTypeOK, NetTypeOK, BufInv

LEMMA InitSessionInv == InitRoundTrip => SessionInv
<1> SUFFICES ASSUME InitRoundTrip PROVE SessionInv
  OBVIOUS
<1>1. BufInv /\ tail_sn = 1 /\ head_sn = 1 /\ last_block = Slice(0, 0)
  BY InitBufInv DEF InitRoundTrip, InitBuffer
<1>2. TypeParts
  <2>1. PcTypeOK /\ SpentTypeOK /\ ConnTypeOK
    BY DEF InitRoundTrip, PcTypeOK, SpentTypeOK, ConnTypeOK
  <2>2. WorkTypeOK
    BY <1>1 DEF InitRoundTrip, WorkTypeOK
  <2>3. MadeTypeOK /\ ListTypeOK
    BY DEF InitRoundTrip, MadeTypeOK, ListTypeOK, RequestsMade
  <2>4. NetTypeOK
    BY DEF InitRoundTrip, NetTypeOK, NoReply, ReplySet
  <2>5. QED
    BY <2>1, <2>2, <2>3, <2>4 DEF TypeParts
<1>3. OnRoadExact
  <2>1. OnRoad = {} /\ on_road_num = 0
    BY DEF InitRoundTrip, OnRoad
  <2>2. QED
    BY <2>1, FS_EmptySet DEF OnRoadExact, OnRoad
<1>4. TypeOK /\ RequestsMade
  BY <1>1, <1>2, <1>3, TypeJoin
<1>5. NoFalseAck /\ RepliesHonest
  BY <1>1 DEF InitRoundTrip, NoFalseAck, RepliesHonest, NoReply
<1>6. StreamExact /\ ResendSame /\ IssuedBefore /\ ServerHasIssued
  <2>1. Issued = {} /\ FirstByte = 0
    BY <1>1 DEF InitRoundTrip, Issued, FirstByte, NextBlock, Slice
  <2>2. QED
    BY <1>1, <2>1 DEF InitRoundTrip, StreamExact, ResendSame, IssuedBefore, ServerHasIssued
<1>7. NoOrphanTransfer /\ KeepsPolling
  BY DEF InitRoundTrip, NoOrphanTransfer, KeepsPolling
<1>8. QED
  BY <1>1, <1>3, <1>4, <1>5, <1>6, <1>7 DEF SessionInv

LEMMA NextSessionInv == SessionInv /\ [Next]_vars => SessionInv'
<1> SUFFICES ASSUME SessionInv, [Next]_vars PROVE SessionInv'
  OBVIOUS
<1>1. TypeParts /\ IsFiniteSet(DOMAIN transfer_list)
  BY TypeSplit
<1>2. BufInv'
  BY SessionBufInv DEF SessionInv
<1>3. OnRoadExact' /\ PcTypeOK'
  BY <1>1, NextOnRoadExact DEF SessionInv, TypeParts
<1>4. WorkTypeOK' /\ SpentTypeOK'
  BY <1>1, NextWorkTypeOK, NextSpentTypeOK DEF SessionInv, TypeParts
<1>5. MadeTypeOK'
  BY <1>1, NextMadeTypeOK DEF SessionInv, TypeParts
<1>6. ListTypeOK' /\ NetTypeOK'
  BY <1>1, <1>5, NextListTypeOK, NextNetTypeOK DEF SessionInv, TypeParts
<1>7. ConnTypeOK' /\ KeepsPolling'
  BY <1>1, NextConnTypeOK DEF SessionInv, TypeParts
<1>8. TypeOK' /\ RequestsMade'
  BY <1>2, <1>3, <1>4, <1>5, <1>6, <1>7, TypeJoinPrime DEF TypeParts
<1>9. NoFalseAck' /\ RepliesHonest'
  BY <1>1, NextAcksTrue DEF SessionInv, TypeParts
<1>10. StreamExact' /\ ResendSame' /\ IssuedBefore'
  BY <1>1, <1>2, NextStreamExact DEF SessionInv, TypeParts
<1>11. NoOrphanTransfer' /\ ServerHasIssued'
  BY <1>1, NextNoOrphan, NextServerHasIssued DEF SessionInv, TypeParts
<1>12. QED
  BY <1>2, <1>3, <1>7, <1>8, <1>9, <1>10, <1>11 DEF SessionInv

\* SessionInv holds in every reachable state.
LEMMA AlwaysSessionInv == Spec => []SessionInv
BY InitSessionInv, NextSessionInv, PTL DEF Spec

(***************************************************************************)
(* Types of the session's fields, among them that on_road_num and          *)
(* target_on_roads, both counted up and down from many places, never       *)
(* become negative.                                                        *)
(***************************************************************************)
THEOREM SessionTypes == Spec => []TypeOK
<1>1. SessionInv => TypeOK
  BY DEF SessionInv
<1>2. QED
  BY <1>1, AlwaysSessionInv, PTL

(***************************************************************************)
(* on_road_num, which the sending of polls and the answering of the server *)
(* depend on, counts exactly the workers whose exchange is not over,       *)
(* through every way an exchange can end.                                  *)
(***************************************************************************)
THEOREM RoadCounted == Spec => []OnRoadExact
<1>1. SessionInv => OnRoadExact
  BY DEF SessionInv
<1>2. QED
  BY <1>1, AlwaysSessionInv, PTL

(***************************************************************************)
(* No transfer is left in the list that is neither marked for a retry nor  *)
(* carried by a worker.                                                    *)
(***************************************************************************)
THEOREM TransfersAccounted == Spec => []NoOrphanTransfer
<1>1. SessionInv => NoOrphanTransfer
  BY DEF SessionInv
<1>2. QED
  BY <1>1, AlwaysSessionInv, PTL

(***************************************************************************)
(* A block the client takes for acked has arrived at the server.           *)
(***************************************************************************)
THEOREM AcksTrue == Spec => []NoFalseAck
<1>1. SessionInv => NoFalseAck
  BY DEF SessionInv
<1>2. QED
  BY <1>1, AlwaysSessionInv, PTL

(***************************************************************************)
(* All blocks ever sent, whether new, resent or in a retried transfer, are *)
(* pieces of the written stream under numbers without a hole.              *)
(***************************************************************************)
THEOREM UploadInOrder == Spec => [](StreamExact /\ ResendSame)
<1>1. SessionInv => StreamExact /\ ResendSame
  BY DEF SessionInv
<1>2. QED
  BY <1>1, AlwaysSessionInv, PTL

(***************************************************************************)
(* While there are connections at least one request is wanted on the road. *)
(***************************************************************************)
THEOREM PollingGoesOn == Spec => []KeepsPolling
<1>1. SessionInv => KeepsPolling
  BY DEF SessionInv
<1>2. QED
  BY <1>1, AlwaysSessionInv, PTL

-----------------------------------------------------------------------------
(***************************************************************************)
(* The upload of a session implements ReliableStream, for every number of  *)
(* workers, payload size and bound.  Each step writes bytes, brings bytes  *)
(* to the server, lets the client forget bytes, or none of that; the work  *)
(* is in showing that the two ends computed from sets of blocks keep their *)
(* order and never move back.                                              *)
(***************************************************************************)

(***************************************************************************)
(* A set of natural numbers has a least element.                           *)
(***************************************************************************)
LEMMA LeastExists ==
  ASSUME NEW S \in SUBSET Nat, S # {}
  PROVE  \E m \in S : \A k \in S : ~(k < m)
<1>1. PICK m \in S : \A k \in S : ~(<<k, m>> \in OpToRel(<, Nat))
  BY NatLessThanWellFounded, WFMin, Zenon
<1>2. ASSUME NEW k \in S PROVE ~(k < m)
  <2>1. k < m => <<k, m>> \in {ss \in Nat \X Nat : ss[1] < ss[2]}
    OBVIOUS
  <2>2. OpToRel(<, Nat) = {ss \in Nat \X Nat : ss[1] < ss[2]}
    BY Zenon DEF OpToRel
  <2>3. QED
    BY <1>1, <2>1, <2>2, Zenon
<1>3. QED
  BY <1>2

(***************************************************************************)
(* A bounded set of natural numbers has a largest element: the one whose   *)
(* distance to the bound is least.                                         *)
(***************************************************************************)
LEMMA MaxExists ==
  ASSUME NEW S \in SUBSET Nat, NEW bound \in Nat, \A x \in S : x <= bound, S # {}
  PROVE  Max(S) \in S /\ \A y \in S : y <= Max(S)
<1> DEFINE Gaps == {bound - x : x \in S}
<1>1. Gaps \subseteq Nat /\ Gaps # {}
  <2>1. \A x \in S : bound - x \in Nat
    OBVIOUS
  <2>2. QED
    BY <2>1
<1>2. PICK m \in Gaps : \A k \in Gaps : ~(k < m)
  <2> HIDE DEF Gaps
  <2>1. QED
    BY <1>1, LeastExists
<1>3. PICK x \in S : m = bound - x
  OBVIOUS
<1>4. ASSUME NEW y \in S PROVE x >= y
  <2>1. ~(bound - y < bound - x)
    BY <1>2, <1>3
  <2>2. x \in Nat /\ y \in Nat
    OBVIOUS
  <2>3. QED
    BY <2>1, <2>2
<1>5. Max(S) \in S /\ \A y \in S : Max(S) >= y
  BY <1>4, Zenon DEF Max
<1>6. ASSUME NEW y \in S PROVE y <= Max(S)
  <2>1. Max(S) \in Nat /\ y \in Nat /\ Max(S) >= y
    BY <1>5
  <2> DEFINE max == Max(S)
  <2> HIDE DEF max
  <2>2. max \in Nat /\ y \in Nat /\ max >= y => y <= max
    OBVIOUS
  <2>3. QED
    BY <2>1, <2>2 DEF max
<1>7. QED
  BY <1>5, <1>6

(***************************************************************************)
(* MaxOf is monotone, and bounded by any bound of the set.                 *)
(***************************************************************************)
LEMMA MaxOfBounded ==
  ASSUME NEW S \in SUBSET Nat, NEW bound \in Nat, \A x \in S : x <= bound
  PROVE  MaxOf(S) \in Nat /\ MaxOf(S) <= bound /\ \A x \in S : x <= MaxOf(S)
<1>1. CASE S = {}
  BY <1>1 DEF MaxOf
<1>2. CASE S # {}
  <2>1. Max(S) \in S /\ \A y \in S : y <= Max(S)
    BY <1>2, MaxExists
  <2>2. MaxOf(S) = Max(S)
    BY <1>2 DEF MaxOf
  <2> HIDE DEF MaxOf
  <2>3. QED
    BY <2>1, <2>2
<1>3. QED
  BY <1>1, <1>2

LEMMA MaxOfGrows ==
  ASSUME NEW T \in SUBSET Nat, NEW S \in SUBSET T, NEW bound \in Nat, \A x \in T : x <= bound
  PROVE  MaxOf(S) <= MaxOf(T)
<1>1. MaxOf(T) \in Nat /\ \A x \in T : x <= MaxOf(T)
  BY MaxOfBounded
<1> DEFINE top == MaxOf(T)
<1> HIDE DEF top
<1>2. top \in Nat /\ \A x \in S : x <= top
  BY <1>1 DEF top
<1>3. MaxOf(S) <= top
  BY <1>2, MaxOfBounded
<1>4. QED
  BY <1>3 DEF top

-----------------------------------------------------------------------------
ArrivedEnds == {b.hi : b \in Arrived}
ForgottenEnds == {b.hi : b \in Forgotten}

\* What the client has forgotten is among what has arrived.
LEMMA ForgottenArrived ==
  ASSUME SessionInv
  PROVE  Forgotten \subseteq Arrived
<1> SUFFICES ASSUME NEW b \in Forgotten PROVE b \in Arrived
  OBVIOUS
<1>1. b \in Issued /\ b.sn <= ack_send_continue_sn /\ b.sn \in Nat \ {0}
  BY DEF Forgotten, SessionInv, TypeOK, Issued, BlockSet
<1>2. ack_send_continue_sn \in Nat /\ ack_send_continue_sn <= tail_sn - 1 /\ tail_sn \in Nat
  BY DEF SessionInv, TypeOK, BufTypeOK
<1>3. ASSUME NEW sn \in 1 .. b.sn PROVE sn \in SnsOf(server_blocks)
  BY <1>1, <1>2 DEF SessionInv, NoFalseAck
<1>4. PICK c \in server_blocks : c.sn = b.sn
  BY <1>1, <1>3 DEF SnsOf
<1>5. c = b
  BY <1>1, <1>4 DEF SessionInv, ServerHasIssued, StreamExact
<1>6. QED
  BY <1>3, <1>4, <1>5 DEF Arrived

\* Nothing has arrived that was not written.
LEMMA ArrivedWritten ==
  ASSUME SessionInv
  PROVE  /\ added \in Nat
         /\ ArrivedEnds \subseteq Nat
         /\ \A x \in ArrivedEnds : x <= added
<1>1. added \in Nat /\ FirstByte \in Nat /\ FirstByte <= added
  <2>1. added \in Nat /\ pool_size \in Nat /\ pool_size = added - FirstByte /\ fetched.hi = FirstByte
    BY DEF SessionInv, BufInv, BufTypeOK, PoolSizeExact, FetchContinues
  <2>2. FirstByte \in Nat
    BY <2>1 DEF SessionInv, BufInv, BufTypeOK
  <2>3. QED
    BY <2>1, <2>2
<1>2. ASSUME NEW b \in Arrived PROVE b.hi \in Nat /\ b.hi <= FirstByte
  BY DEF Arrived, SessionInv, TypeOK, BlockSet, ServerHasIssued, IssuedBefore
<1>3. QED
  BY <1>1, <1>2 DEF ArrivedEnds

(***************************************************************************)
(* The three positions of the abstract stream are in order.                *)
(***************************************************************************)
LEMMA PositionsOrdered ==
  SessionInv => /\ added \in Nat /\ ServerReach \in Nat /\ ClientForgot \in Nat
                /\ ClientForgot <= ServerReach /\ ServerReach <= added
<1> SUFFICES ASSUME SessionInv
             PROVE  /\ added \in Nat /\ ServerReach \in Nat /\ ClientForgot \in Nat
                    /\ ClientForgot <= ServerReach /\ ServerReach <= added
  OBVIOUS
<1>1. ForgottenEnds \subseteq ArrivedEnds
  BY ForgottenArrived DEF ForgottenEnds, ArrivedEnds
<1>2. /\ added \in Nat /\ ArrivedEnds \subseteq Nat
      /\ \A x \in ArrivedEnds : x <= added
  BY ArrivedWritten
<1>3. MaxOf(ArrivedEnds) \in Nat /\ MaxOf(ArrivedEnds) <= added
  BY <1>2, MaxOfBounded
<1>4. MaxOf(ForgottenEnds) \in Nat
  BY <1>1, <1>2, MaxOfBounded
<1>5. MaxOf(ForgottenEnds) <= MaxOf(ArrivedEnds)
  BY <1>1, <1>2, MaxOfGrows
<1>6. QED
  BY <1>2, <1>3, <1>4, <1>5 DEF ServerReach, ClientForgot, ArrivedEnds, ForgottenEnds

LEMMA PositionsOrderedPrime ==
  SessionInv' => /\ added' \in Nat /\ ServerReach' \in Nat /\ ClientForgot' \in Nat
                 /\ ClientForgot' <= ServerReach' /\ ServerReach' <= added'
<1>1. (SessionInv => /\ added \in Nat /\ ServerReach \in Nat /\ ClientForgot \in Nat
                     /\ ClientForgot <= ServerReach /\ ServerReach <= added)'
  BY PositionsOrdered, PTL
<1>2. QED
  BY <1>1

\* The facts about the ends in the next state.
LEMMA ArrivedWrittenPrime ==
  SessionInv' => /\ added' \in Nat
                 /\ ArrivedEnds' \subseteq Nat
                 /\ \A x \in ArrivedEnds' : x <= added'
<1>1. SessionInv => /\ added \in Nat
                    /\ ArrivedEnds \subseteq Nat
                    /\ \A x \in ArrivedEnds : x <= added
  BY ArrivedWritten
<1>2. (SessionInv => /\ added \in Nat
                     /\ ArrivedEnds \subseteq Nat
                     /\ \A x \in ArrivedEnds : x <= added)'
  BY <1>1, PTL
<1>3. QED
  BY <1>2

LEMMA ForgottenArrivedPrime ==
  SessionInv' => ForgottenEnds' \subseteq ArrivedEnds'
<1>1. SessionInv => ForgottenEnds \subseteq ArrivedEnds
  BY ForgottenArrived DEF ForgottenEnds, ArrivedEnds
<1>2. (SessionInv => ForgottenEnds \subseteq ArrivedEnds)'
  BY <1>1, PTL
<1>3. QED
  BY <1>2

-----------------------------------------------------------------------------
(***************************************************************************)
(* What each kind of step does to the positions.                           *)
(***************************************************************************)
\* More blocks at the server: the reach may grow.
LEMMA ReachGrows ==
  ASSUME SessionInv', server_blocks \subseteq server_blocks'
  PROVE  ServerReach <= ServerReach'
<1>1. SnsOf(server_blocks) \subseteq SnsOf(server_blocks')
  BY DEF SnsOf
<1>2. Arrived \subseteq Arrived'
  BY <1>1 DEF Arrived
<1>3. ArrivedEnds \subseteq ArrivedEnds'
  BY <1>2 DEF ArrivedEnds
<1>4. MaxOf(ArrivedEnds) <= MaxOf(ArrivedEnds')
  BY <1>3, ArrivedWrittenPrime, MaxOfGrows
<1>5. ServerReach = MaxOf(ArrivedEnds) /\ ServerReach' = MaxOf(ArrivedEnds')
  BY DEF ServerReach, ArrivedEnds
<1>6. QED
  BY <1>4, <1>5

\* More blocks forgotten.
LEMMA ForgotGrows ==
  ASSUME SessionInv', Forgotten \subseteq Forgotten'
  PROVE  ClientForgot <= ClientForgot'
<1>1. ForgottenEnds \subseteq ForgottenEnds'
  BY DEF ForgottenEnds
<1>2. /\ added' \in Nat /\ ForgottenEnds' \subseteq Nat
      /\ \A x \in ForgottenEnds' : x <= added'
  BY ArrivedWrittenPrime, ForgottenArrivedPrime
<1>3. MaxOf(ForgottenEnds) <= MaxOf(ForgottenEnds')
  BY <1>1, <1>2, MaxOfGrows
<1>4. ClientForgot = MaxOf(ForgottenEnds) /\ ClientForgot' = MaxOf(ForgottenEnds')
  BY DEF ClientForgot, ForgottenEnds
<1>5. QED
  BY <1>3, <1>4

\* Making a transfer forgets nothing: what it carries is not yet acked.
LEMMA SendForgetsNothing ==
  ASSUME SessionInv, NEW w \in Workers, NEW expired \in SUBSET Unacked,
         NEW delayed \in BOOLEAN, NEW ackDue \in BOOLEAN,
         Send(w, expired, delayed, ackDue)
  PROVE  Forgotten' = Forgotten
<1>1. PICK data :
        /\ data = {Block(sn, wait_ack_send_list[sn]) : sn \in Resent(expired)}
                    \cup {b \in {Block(tail_sn, NextBlock)} : TakesNew(Resent(expired), delayed)}
        /\ send_data' = [i \in DOMAIN send_data \cup {last_transfer_no + 1} |->
                           IF i = last_transfer_no + 1 THEN data ELSE send_data[i]]
        /\ ack_send_continue_sn' = ack_send_continue_sn
  BY DEF Send
<1>2. /\ ack_send_continue_sn \in Nat /\ tail_sn \in Nat
      /\ ack_send_continue_sn <= tail_sn - 1
      /\ DOMAIN wait_ack_send_list = (ack_send_continue_sn + 1) .. (tail_sn - 1)
      /\ DOMAIN send_data = 1 .. last_transfer_no /\ last_transfer_no \in Nat
  BY DEF SessionInv, TypeOK, BufTypeOK
<1>3. ASSUME NEW b \in data PROVE ~(b.sn <= ack_send_continue_sn)
  <2>1. CASE \E sn \in Resent(expired) : b = Block(sn, wait_ack_send_list[sn])
    <3>1. PICK sn \in Resent(expired) : b.sn = sn
      BY <2>1 DEF Block
    <3>2. sn \in (ack_send_continue_sn + 1) .. (tail_sn - 1)
      BY <1>2, <3>1 DEF Resent, Unacked
    <3>3. QED
      BY <1>2, <3>1, <3>2
  <2>2. CASE b = Block(tail_sn, NextBlock)
    BY <1>2, <2>2 DEF Block
  <2>3. QED
    BY <1>1, <2>1, <2>2
<1>4. Issued' = Issued \cup data
  <2>1. last_transfer_no + 1 \notin DOMAIN send_data
    BY <1>2
  <2>2. QED
    BY <1>1, <2>1 DEF Issued
<1>5. QED
  BY <1>1, <1>3, <1>4 DEF Forgotten

-----------------------------------------------------------------------------
Delivers == server_blocks \subseteq server_blocks' /\ UNCHANGED <<added, send_data, ack_send_continue_sn>>
Releases == /\ UNCHANGED <<added, server_blocks>>
            /\ \A b \in Forgotten : b \in Forgotten'
Stays == UNCHANGED <<added, server_blocks, Forgotten>>
Writes == added' > added /\ UNCHANGED <<server_blocks, send_data, ack_send_continue_sn>>

\* Every step is of one of these four kinds.
LEMMA StepKinds ==
  ASSUME SessionInv, [Next]_vars
  PROVE  Writes \/ Delivers \/ Releases \/ Stays
<1>1. ASSUME NEW n \in 1 .. MaxBytes, CreateConn(n) \/ SendConnData(n)
      PROVE  Writes
  <2>1. Add(n) /\ UNCHANGED <<server_blocks, send_data, ack_send_continue_sn>>
    BY <1>1 DEF CreateConn, SendConnData, workVars, listVars, netVars
  <2>2. added' = added + n /\ added \in Nat
    BY <2>1 DEF Add, SessionInv, TypeOK, BufTypeOK
  <2>3. n > 0 /\ n \in Nat
    BY DEF SendBufferAssumption
  <2>4. QED
    BY <2>1, <2>2, <2>3 DEF Writes
<1>2. ASSUME NEW w \in Workers, ServerAnswer(w)
      PROVE  Delivers
  BY <1>2 DEF ServerAnswer, Delivers, bufVars, workVars, listVars
<1>3. ASSUME NEW no \in DOMAIN send_data, ServerReceive(no)
      PROVE  Delivers
  BY <1>3 DEF ServerReceive, Delivers, bufVars, workVars, listVars
<1>4. ASSUME NEW w \in Workers, NEW late \in SUBSET DOMAIN transfer_list,
             NEW size \in Sizes, Finish(w, late, size)
      PROVE  Releases
  <2>1. UNCHANGED <<added, server_blocks, send_data>> /\ AckProcess(reply[w])
    BY <1>4 DEF Finish, bufVars
  <2>2. PICK next \in ack_send_continue_sn .. (tail_sn - 1) : ack_send_continue_sn' = next
    BY <2>1 DEF AckProcess
  <2>3. ack_send_continue_sn \in Nat /\ tail_sn \in Nat
    BY DEF SessionInv, TypeOK, BufTypeOK
  <2>4. ASSUME NEW b \in Forgotten PROVE b \in Forgotten'
    <3>1. b \in Issued /\ b.sn \in Nat /\ b.sn <= ack_send_continue_sn
      BY DEF Forgotten, SessionInv, TypeOK, Issued, BlockSet
    <3>2. b \in Issued'
      BY <2>1, <3>1 DEF Issued
    <3>3. b.sn <= ack_send_continue_sn'
      BY <2>2, <2>3, <3>1
    <3>4. QED
      BY <3>2, <3>3 DEF Forgotten
  <2>5. QED
    BY <2>1, <2>4 DEF Releases
<1>5. ASSUME NEW w \in Workers, NEW expired \in SUBSET Unacked,
             NEW delayed \in BOOLEAN, NEW ackDue \in BOOLEAN,
             Send(w, expired, delayed, ackDue)
      PROVE  Stays
  <2>1. UNCHANGED server_blocks
    BY <1>5 DEF Send, netVars
  <2>2. Get \/ UNCHANGED bufVars
    BY <1>5 DEF Send
  <2>3. UNCHANGED added
    BY <2>2 DEF Get, bufVars
  <2>4. QED
    BY <1>5, <2>1, <2>3, SendForgetsNothing DEF Stays
<1>6. ASSUME UNCHANGED <<added, server_blocks, send_data, ack_send_continue_sn>>
      PROVE  Stays
  BY <1>6 DEF Stays, Forgotten, Issued
<1>7. ASSUME NEW w \in Workers,
             \/ WaitForData(w) \/ Retry(w) \/ Fail(w) \/ RequestError(w)
             \/ LeaveRoad(w) \/ Response(w) \/ ReplyError(w)
      PROVE  Stays
  <2>1. UNCHANGED <<bufVars, workVars, send_data, server_blocks>>
    BY <1>7 DEF WaitForData, Retry, Fail, RequestError, LeaveRoad, Response, ReplyError,
                listVars, netVars
  <2>2. QED
    BY <1>6, <2>1 DEF bufVars, workVars
<1>8. ASSUME RemoveConn \/ Quiet \/ UNCHANGED vars
      PROVE  Stays
  BY <1>6, <1>8 DEF RemoveConn, Quiet, vars, bufVars, workVars, listVars, netVars
<1>9. ASSUME NEW late \in SUBSET DOMAIN transfer_list, CheckTimeout(late)
      PROVE  Stays
  BY <1>6, <1>9 DEF CheckTimeout, bufVars, workVars, netVars
<1>10. QED
  BY <1>1, <1>2, <1>3, <1>4, <1>5, <1>7, <1>8, <1>9 DEF Next

LEMMA StepRefines ==
  SessionInv /\ SessionInv' /\ [Next]_vars
    => [Reliable!Write \/ Reliable!Deliver \/ Reliable!Release]_Reliable!streamVars
<1> SUFFICES ASSUME SessionInv, SessionInv', [Next]_vars
             PROVE  [Reliable!Write \/ Reliable!Deliver \/ Reliable!Release]_Reliable!streamVars
  OBVIOUS
<1> USE DEF Reliable!Write, Reliable!Deliver, Reliable!Release, Reliable!streamVars
<1>1. /\ added \in Nat /\ ServerReach \in Nat /\ ClientForgot \in Nat
      /\ ClientForgot <= ServerReach /\ ServerReach <= added
  BY PositionsOrdered
<1>2. /\ added' \in Nat /\ ServerReach' \in Nat /\ ClientForgot' \in Nat
      /\ ClientForgot' <= ServerReach' /\ ServerReach' <= added'
  BY PositionsOrderedPrime
<1>3. UNCHANGED server_blocks => ServerReach' = ServerReach
  BY DEF ServerReach, Arrived
<1>4. Forgotten' = Forgotten => ClientForgot' = ClientForgot
  BY DEF ClientForgot
<1>5. UNCHANGED <<send_data, ack_send_continue_sn>> => Forgotten' = Forgotten
  BY DEF Forgotten, Issued
<1>6. CASE Writes
  BY <1>1, <1>2, <1>3, <1>4, <1>5, <1>6 DEF Writes
<1>7. CASE Delivers
  <2>1. UNCHANGED <<added, ClientForgot>>
    BY <1>4, <1>5, <1>7 DEF Delivers
  <2>2. ServerReach <= ServerReach'
    BY <1>7, ReachGrows DEF Delivers
  <2>3. QED
    BY <1>1, <1>2, <2>1, <2>2
<1>8. CASE Releases
  <2>1. UNCHANGED <<added, ServerReach>>
    BY <1>3, <1>8 DEF Releases
  <2>2. Forgotten \subseteq Forgotten'
    BY <1>8 DEF Releases
  <2>3. ClientForgot <= ClientForgot'
    BY <2>2, ForgotGrows
  <2>4. QED
    BY <1>1, <1>2, <2>1, <2>3
<1>9. CASE Stays
  BY <1>3, <1>4, <1>9 DEF Stays
<1>10. QED
  BY <1>6, <1>7, <1>8, <1>9, StepKinds

LEMMA InitRefines == InitRoundTrip => Reliable!Init
<1> SUFFICES ASSUME InitRoundTrip PROVE Reliable!Init
  OBVIOUS
<1>1. Arrived = {} /\ Forgotten = {} /\ added = 0
  BY DEF InitRoundTrip, InitBuffer, Arrived, Forgotten, Issued
<1>2. ServerReach = 0 /\ ClientForgot = 0
  BY <1>1 DEF ServerReach, ClientForgot, MaxOf
<1>3. QED
  BY <1>1, <1>2 DEF Reliable!Init

(***************************************************************************)
(* The session is a reliable stream: whatever is lost, repeated, retried   *)
(* or answered late, the prefix of the upload the server can join only     *)
(* grows and never holds a byte that was not written, and the client       *)
(* forgets no byte before it is in that prefix.                            *)
(***************************************************************************)
THEOREM UploadReliable == Spec => ReliableSpec
<1>1. InitRoundTrip => Reliable!Init
  BY InitRefines
<1>2. SessionInv /\ SessionInv' /\ [Next]_vars
        => [Reliable!Write \/ Reliable!Deliver \/ Reliable!Release]_Reliable!streamVars
  BY StepRefines
<1>3. QED
  BY <1>1, <1>2, AlwaysSessionInv, PTL DEF Spec, ReliableSpec, Reliable!Spec

-----------------------------------------------------------------------------
(***************************************************************************)
(* Sums: f gives every subset of S the sum of g over it.                   *)
(***************************************************************************)
Sums(f, S, g) ==
  /\ f \in [SUBSET S -> Nat]
  /\ f[{}] = 0
  /\ \A x \in S : g[x] \in Nat
  /\ \A T \in SUBSET S, x \in S : x \notin T => f[T \cup {x}] = f[T] + g[x]
  /\ \A A, B \in SUBSET S : A \subseteq B => f[A] <= f[B]

\* One element more.
LEMMA SumsOneMore ==
  ASSUME NEW S, NEW x, x \notin S, NEW g, g[x] \in Nat, NEW f, Sums(f, S, g)
  PROVE  \E h : Sums(h, S \cup {x}, g)
<1> DEFINE U == S \cup {x}
           h == [T \in SUBSET U |-> IF x \in T THEN f[T \ {x}] + g[x] ELSE f[T]]
<1>1. f \in [SUBSET S -> Nat] /\ f[{}] = 0 /\ \A y \in U : g[y] \in Nat
  BY DEF Sums
<1>2. ASSUME NEW T \in SUBSET U
      PROVE  /\ T \ {x} \in SUBSET S /\ f[T \ {x}] \in Nat
             /\ x \notin T => T \in SUBSET S /\ f[T] \in Nat
             /\ h[T] = IF x \in T THEN f[T \ {x}] + g[x] ELSE f[T]
  BY <1>1
<1>3. h \in [SUBSET U -> Nat]
  <2>1. ASSUME NEW T \in SUBSET U
        PROVE  (IF x \in T THEN f[T \ {x}] + g[x] ELSE f[T]) \in Nat
    <3>1. CASE x \in T
      <4>1. f[T \ {x}] \in Nat
        BY <1>2
      <4>2. QED
        BY <3>1, <4>1
    <3>2. CASE x \notin T
      <4>1. f[T] \in Nat
        BY <1>2, <3>2
      <4>2. QED
        BY <3>2, <4>1
    <3>3. QED
      BY <3>1, <3>2
  <2>2. QED
    BY <2>1
<1>4. h[{}] = 0
  BY <1>1
<1>5. ASSUME NEW T \in SUBSET U, NEW y \in U, y \notin T
      PROVE  h[T \cup {y}] = h[T] + g[y]
  <2>1. T \cup {y} \in SUBSET U
    OBVIOUS
  <2> HIDE DEF h
  <2>2. CASE y = x
    <3>1. (T \cup {y}) \ {x} = T
      BY <1>5, <2>2
    <3>2. QED
      BY <1>2, <1>5, <2>1, <2>2, <3>1
  <2>3. CASE y # x /\ x \in T
    <3>1. (T \cup {y}) \ {x} = (T \ {x}) \cup {y} /\ y \in S /\ y \notin T \ {x}
      BY <1>5, <2>3
    <3>2. f[(T \ {x}) \cup {y}] = f[T \ {x}] + g[y]
      BY <1>2, <3>1 DEF Sums
    <3>3. h[T \cup {y}] = f[(T \ {x}) \cup {y}] + g[x] /\ h[T] = f[T \ {x}] + g[x]
      BY <1>2, <2>1, <2>3, <3>1
    <3>4. f[T \ {x}] \in Nat /\ g[y] \in Nat
      BY <1>1, <1>2, <3>1
    <3>5. QED
      BY <3>2, <3>3, <3>4
  <2>4. CASE y # x /\ x \notin T
    <3>1. y \in S /\ T \in SUBSET S /\ x \notin T \cup {y}
      BY <2>4
    <3>2. f[T \cup {y}] = f[T] + g[y]
      BY <1>5, <3>1 DEF Sums
    <3>3. QED
      BY <1>2, <2>1, <2>4, <3>1, <3>2
  <2>5. QED
    BY <2>2, <2>3, <2>4
<1>6. ASSUME NEW A \in SUBSET U, NEW B \in SUBSET U, A \subseteq B
      PROVE  h[A] <= h[B]
  <2> HIDE DEF h
  <2>1. A \ {x} \subseteq B \ {x}
    BY <1>6
  <2>2. f[A \ {x}] <= f[B \ {x}]
    BY <1>2, <2>1 DEF Sums
  <2>3. x \notin A => A = A \ {x}
    OBVIOUS
  <2>4. x \notin B => B = B \ {x}
    OBVIOUS
  <2>5. f[A \ {x}] \in Nat /\ f[B \ {x}] \in Nat
    BY <1>2
  <2>6. CASE x \in A
    <3>1. h[A] = f[A \ {x}] + g[x] /\ h[B] = f[B \ {x}] + g[x]
      BY <1>2, <1>6, <2>6
    <3>2. QED
      BY <2>2, <2>5, <3>1
  <2>7. CASE x \notin A /\ x \in B
    <3>1. h[A] = f[A \ {x}] /\ h[B] = f[B \ {x}] + g[x]
      BY <1>2, <2>3, <2>7
    <3>2. QED
      BY <2>2, <2>5, <3>1
  <2>8. CASE x \notin A /\ x \notin B
    BY <1>2, <2>2, <2>3, <2>4, <2>8
  <2>9. QED
    BY <2>6, <2>7, <2>8
<1>7. QED
  <2> HIDE DEF h
  <2>1. Sums(h, U, g)
    BY <1>1, <1>3, <1>4, <1>5, <1>6, Zenon DEF Sums
  <2>2. QED
    BY <2>1

\* Some set in a collection of finite sets has no smaller one in it.
LEMMA SmallestExists ==
  ASSUME NEW S, IsFiniteSet(S), NEW C \in SUBSET SUBSET S, C # {}
  PROVE  \E T \in C : \A R \in C : ~(Cardinality(R) < Cardinality(T))
<1> DEFINE Numbers == {Cardinality(T) : T \in C}
<1>1. \A T \in SUBSET S : IsFiniteSet(T) /\ Cardinality(T) \in Nat
  BY FS_Subset, FS_CardinalityType
<1>2. Numbers \in SUBSET Nat /\ Numbers # {}
  BY <1>1
<1>3. PICK m \in Numbers : \A k \in Numbers : ~(k < m)
  <2> HIDE DEF Numbers
  <2>1. QED
    BY <1>2, LeastExists
<1>4. PICK T \in C : m = Cardinality(T)
  OBVIOUS
<1>5. \A R \in C : Cardinality(R) \in Numbers
  OBVIOUS
<1> HIDE DEF Numbers
<1>6. QED
  BY <1>3, <1>4, <1>5, Zenon

\* Sums exist: otherwise there is a smallest set without them.
LEMMA SumsExist ==
  ASSUME NEW S, IsFiniteSet(S), NEW g, \A x \in S : g[x] \in Nat
  PROVE  \E f : Sums(f, S, g)
<1> DEFINE Bad == {T \in SUBSET S : ~ \E f : Sums(f, T, g)}
<1>1. \A T \in SUBSET S : IsFiniteSet(T) /\ Cardinality(T) \in Nat
  BY FS_Subset, FS_CardinalityType
<1>2. SUFFICES ASSUME S \in Bad PROVE FALSE
  OBVIOUS
<1>3. PICK T \in Bad : \A R \in Bad : ~(Cardinality(R) < Cardinality(T))
  <2>1. Bad \in SUBSET SUBSET S /\ Bad # {}
    BY <1>2
  <2> HIDE DEF Bad
  <2>2. QED
    BY <2>1, SmallestExists
<1>4. CASE T = {}
  <2> DEFINE zero == [R \in SUBSET {} |-> 0]
  <2>1. Sums(zero, {}, g)
    BY DEF Sums
  <2>2. QED
    BY <1>3, <1>4, <2>1
<1>5. CASE T # {}
  <2>1. PICK x \in T : TRUE
    BY <1>5
  <2> DEFINE R == T \ {x}
  <2>2. T \in SUBSET S /\ R \in SUBSET S /\ x \notin R /\ T = R \cup {x} /\ x \in S
    BY <1>3, <2>1
  <2>3. Cardinality(R) = Cardinality(T) - 1
    BY <1>1, <2>1, <2>2, FS_RemoveElement
  <2>4. Cardinality(R) < Cardinality(T)
    <3>1. Cardinality(T) \in Nat
      BY <1>1, <2>2
    <3>2. QED
      BY <2>3, <3>1
  <2>5. R \notin Bad
    BY <1>3, <2>4
  <2>6. PICK f : Sums(f, R, g)
    BY <2>2, <2>5
  <2>7. \E h : Sums(h, R \cup {x}, g)
    <3>1. g[x] \in Nat
      BY <2>2
    <3> HIDE DEF R
    <3>2. QED
      BY <2>2, <2>6, <3>1, SumsOneMore, Zenon
  <2>8. QED
    BY <1>3, <2>2, <2>7
<1>6. QED
  BY <1>4, <1>5

\* iter adds up the subsets of S one element after the other.
AddsUp(iter, S, g) ==
  /\ iter[{}] = 0
  /\ \A T \in SUBSET S : T # {} => \E x \in T : iter[T] = g[x] + iter[T \ {x}]

\* Adding up one element after the other gives these sums.
LEMMA AddingUp ==
  ASSUME NEW whole, NEW g, NEW f, Sums(f, whole, g), NEW S \in SUBSET whole, IsFiniteSet(S),
         NEW iter, AddsUp(iter, S, g)
  PROVE  iter[S] = f[S]
<1> DEFINE Bad == {T \in SUBSET S : iter[T] # f[T]}
<1>1. \A T \in SUBSET S : IsFiniteSet(T) /\ Cardinality(T) \in Nat
  BY FS_Subset, FS_CardinalityType
<1>2. SUFFICES ASSUME S \in Bad PROVE FALSE
  OBVIOUS
<1>3. PICK T \in Bad : \A R \in Bad : ~(Cardinality(R) < Cardinality(T))
  <2>1. Bad \in SUBSET SUBSET S /\ Bad # {}
    BY <1>2
  <2> HIDE DEF Bad
  <2>2. QED
    BY <2>1, SmallestExists
<1>4. T # {}
  BY <1>3 DEF Sums, AddsUp
<1>5. PICK x \in T : iter[T] = g[x] + iter[T \ {x}]
  BY <1>3, <1>4 DEF AddsUp
<1> DEFINE R == T \ {x}
<1>6. T \in SUBSET S /\ R \in SUBSET S /\ x \notin R /\ T = R \cup {x} /\ x \in S
  BY <1>3, <1>5
<1>7. Cardinality(R) = Cardinality(T) - 1 /\ Cardinality(T) \in Nat
  BY <1>1, <1>5, <1>6, FS_RemoveElement
<1>8. iter[R] = f[R]
  <2>1. Cardinality(R) < Cardinality(T)
    BY <1>7
  <2>2. QED
    BY <1>3, <1>6, <2>1
<1>9. f[T] = f[R] + g[x] /\ f[R] \in Nat /\ g[x] \in Nat
  BY <1>6 DEF Sums
<1>10. iter[T] = f[T]
  BY <1>5, <1>8, <1>9
<1>11. QED
  BY <1>3, <1>10

\* What the fold over a set is: elements are chosen and added one by one.
Chosen(S) == CHOOSE x \in S : TRUE

AddChosen(iter, S, g) ==
  [T \in SUBSET S |-> IF T = {} THEN 0 ELSE g[Chosen(T)] + iter[T \ {Chosen(T)}]]

LEMMA FoldAddsUp ==
  ASSUME NEW whole, NEW g, NEW f, Sums(f, whole, g), NEW S \in SUBSET whole, IsFiniteSet(S)
  PROVE  /\ \E iter : iter = AddChosen(iter, S, g)
         /\ \A iter : iter = AddChosen(iter, S, g) => iter[S] = f[S]
<1>1. ASSUME NEW T \in SUBSET S, T # {}
      PROVE  /\ Chosen(T) \in T /\ T \ {Chosen(T)} \in SUBSET S
             /\ f[T] = g[Chosen(T)] + f[T \ {Chosen(T)}]
  <2>1. Chosen(T) \in T
    BY <1>1 DEF Chosen
  <2>2. PICK x \in T : x = Chosen(T)
    BY <2>1
  <2>3. /\ T \ {x} \in SUBSET whole /\ x \notin T \ {x} /\ x \in whole
        /\ (T \ {x}) \cup {x} = T
    OBVIOUS
  <2>4. f[T] = f[T \ {x}] + g[x] /\ f[T \ {x}] \in Nat /\ g[x] \in Nat
    BY <2>3 DEF Sums
  <2>5. QED
    BY <2>2, <2>3, <2>4
<1>2. \E iter : iter = AddChosen(iter, S, g)
  <2> DEFINE sums == [T \in SUBSET S |-> f[T]]
  <2>1. f[{}] = 0
    BY DEF Sums
  <2>2. ASSUME NEW T \in SUBSET S
        PROVE  f[T] = IF T = {} THEN 0 ELSE g[Chosen(T)] + sums[T \ {Chosen(T)}]
    <3>1. CASE T = {}
      BY <2>1, <3>1
    <3>2. CASE T # {}
      <4>1. sums[T \ {Chosen(T)}] = f[T \ {Chosen(T)}]
        BY <1>1, <3>2
      <4> HIDE DEF sums
      <4>2. QED
        BY <1>1, <3>2, <4>1
    <3>3. QED
      BY <3>1, <3>2
  <2>3. sums = [T \in SUBSET S |-> IF T = {} THEN 0 ELSE g[Chosen(T)] + sums[T \ {Chosen(T)}]]
    BY <2>2, Zenon
  <2> HIDE DEF sums
  <2>4. QED
    BY <2>3, Zenon DEF AddChosen
<1>3. ASSUME NEW iter, iter = AddChosen(iter, S, g)
      PROVE  iter[S] = f[S]
  <2>1. \A T \in SUBSET S :
           iter[T] = IF T = {} THEN 0 ELSE g[Chosen(T)] + iter[T \ {Chosen(T)}]
    BY <1>3, Zenon DEF AddChosen
  <2>2. AddsUp(iter, S, g)
    BY <1>1, <2>1 DEF AddsUp
  <2>3. QED
    BY <2>2, AddingUp
<1>4. QED
  BY <1>2, <1>3

-----------------------------------------------------------------------------
(***************************************************************************)
(* The size of a request.  A kept block is never longer than a payload, so *)
(* the first block that exceeds it is the last one get_data() resends, and *)
(* a new block joins only what did not exceed it.                          *)
(***************************************************************************)
KeptSmall == \A sn \in DOMAIN wait_ack_send_list :
                Size(wait_ack_send_list[sn]) \in 0 .. MaxPayload

Total(blocks) == MapThenSumSet(LAMBDA b : HeadLen + Size(b), blocks)

\* SentLen adds up the lengths of kept blocks ...
LEMMA SentLenSums ==
  ASSUME NEW whole, NEW g, NEW f, Sums(f, whole, g),
         NEW sns \in SUBSET whole, IsFiniteSet(sns),
         \A sn \in sns : g[sn] = HeadLen + Size(wait_ack_send_list[sn])
  PROVE  SentLen(sns) = f[sns]
<1> DEFINE adds(it) == it = [S \in SUBSET sns |->
                               IF S = {} THEN 0
                                         ELSE (HeadLen + Size(wait_ack_send_list[Chosen(S)]))
                                                + it[S \ {Chosen(S)}]]
           iter == CHOOSE it : adds(it)
<1>1. SentLen(sns) = iter[sns]
  BY DEF SentLen, MapThenSumSet, MapThenFoldSet, Chosen
<1>2. ASSUME NEW it PROVE adds(it) <=> it = AddChosen(it, sns, g)
  <2>1. ASSUME NEW S \in SUBSET sns, S # {}
        PROVE  HeadLen + Size(wait_ack_send_list[Chosen(S)]) = g[Chosen(S)]
    BY <2>1 DEF Chosen
  <2>2. QED
    BY <2>1 DEF AddChosen
<1> HIDE DEF adds
<1>3. adds(iter)
  BY <1>2, FoldAddsUp, Zenon
<1> HIDE DEF iter
<1>4. iter = AddChosen(iter, sns, g)
  BY <1>2, <1>3
<1>5. iter[sns] = f[sns]
  BY <1>4, FoldAddsUp
<1>6. QED
  BY <1>1, <1>5

\* ... and Total those of the blocks of a request.
LEMMA TotalSums ==
  ASSUME NEW whole, NEW g, NEW f, Sums(f, whole, g),
         NEW blocks \in SUBSET whole, IsFiniteSet(blocks),
         \A b \in blocks : g[b] = HeadLen + Size(b)
  PROVE  Total(blocks) = f[blocks]
<1> DEFINE adds(it) == it = [S \in SUBSET blocks |->
                               IF S = {} THEN 0
                                         ELSE (HeadLen + Size(Chosen(S))) + it[S \ {Chosen(S)}]]
           iter == CHOOSE it : adds(it)
<1>1. Total(blocks) = iter[blocks]
  BY DEF Total, MapThenSumSet, MapThenFoldSet, Chosen
<1>2. ASSUME NEW it PROVE adds(it) <=> it = AddChosen(it, blocks, g)
  <2>1. ASSUME NEW S \in SUBSET blocks, S # {}
        PROVE  HeadLen + Size(Chosen(S)) = g[Chosen(S)]
    BY <2>1 DEF Chosen
  <2>2. QED
    BY <2>1 DEF AddChosen
<1> HIDE DEF adds
<1>3. adds(iter)
  BY <1>2, FoldAddsUp, Zenon
<1> HIDE DEF iter
<1>4. iter = AddChosen(iter, blocks, g)
  BY <1>2, <1>3
<1>5. iter[blocks] = f[blocks]
  BY <1>4, FoldAddsUp
<1>6. QED
  BY <1>1, <1>5

\* Blocks with different numbers add up like their numbers.
BlocksOf(slice, sns) == {Block(sn, slice[sn]) : sn \in sns}

LEMMA BlocksTotal ==
  ASSUME NEW D, IsFiniteSet(D), NEW slice, NEW g,
         \A sn \in D : g[sn] = HeadLen + Size(slice[sn]),
         NEW f, Sums(f, D, g), NEW K \in SUBSET D
  PROVE  Total(BlocksOf(slice, K)) = f[K]
<1> DEFINE B == BlocksOf(slice, K)
           gb == [b \in B |-> HeadLen + Size(b)]
           h  == [X \in SUBSET B |-> f[SnsOf(X)]]
<1>1. \A sn \in K : Block(sn, slice[sn]) \in B /\ Block(sn, slice[sn]).sn = sn
  BY DEF Block, BlocksOf
<1>2. ASSUME NEW b \in B
      PROVE  /\ b.sn \in K /\ b.sn \in D /\ b = Block(b.sn, slice[b.sn])
             /\ gb[b] = g[b.sn] /\ g[b.sn] \in Nat
  <2>1. PICK sn \in K : b = Block(sn, slice[sn])
    BY DEF BlocksOf
  <2>2. b.sn = sn /\ Size(b) = Size(slice[sn])
    BY <2>1 DEF Block, Size
  <2>3. QED
    BY <2>1, <2>2 DEF Sums
<1>3. SnsOf(B) = K
  <2> HIDE DEF B
  <2>1. QED
    BY <1>1, <1>2 DEF SnsOf
<1>4. IsFiniteSet(B)
  <2>1. IsFiniteSet(K)
    BY FS_Subset
  <2> DEFINE made == [sn \in K |-> Block(sn, slice[sn])]
  <2>2. made \in Surjection(K, B)
    BY DEF Surjection, BlocksOf
  <2> HIDE DEF made, B
  <2>3. QED
    BY <2>1, <2>2, FS_Surjection
<1> HIDE DEF B
<1>5. \A X \in SUBSET B : SnsOf(X) \in SUBSET D /\ f[SnsOf(X)] \in Nat
  BY <1>2 DEF SnsOf, Sums
<1>6. Sums(h, B, gb)
  <2>1. h \in [SUBSET B -> Nat]
    BY <1>5
  <2>2. h[{}] = 0
    <3>1. SnsOf({}) = {}
      BY DEF SnsOf
    <3>2. QED
      BY <3>1 DEF Sums
  <2>3. \A b \in B : gb[b] \in Nat
    BY <1>2
  <2>4. ASSUME NEW X \in SUBSET B, NEW b \in B, b \notin X
        PROVE  h[X \cup {b}] = h[X] + gb[b]
    <3>1. SnsOf(X \cup {b}) = SnsOf(X) \cup {b.sn}
      BY DEF SnsOf
    <3>2. b.sn \notin SnsOf(X)
      <4>1. SUFFICES ASSUME NEW c \in X, c.sn = b.sn PROVE FALSE
        BY DEF SnsOf
      <4>2. c = b
        BY <1>2, <4>1
      <4>3. QED
        BY <2>4, <4>2
    <3>3. f[SnsOf(X) \cup {b.sn}] = f[SnsOf(X)] + g[b.sn]
      BY <1>2, <1>5, <3>2 DEF Sums
    <3>4. QED
      BY <1>2, <3>1, <3>3
  <2>5. ASSUME NEW X \in SUBSET B, NEW Y \in SUBSET B, X \subseteq Y
        PROVE  h[X] <= h[Y]
    <3>1. SnsOf(X) \subseteq SnsOf(Y)
      BY <2>5 DEF SnsOf
    <3>2. f[SnsOf(X)] <= f[SnsOf(Y)]
      BY <1>5, <3>1 DEF Sums
    <3>3. QED
      BY <3>2
  <2> HIDE DEF h, gb
  <2>6. QED
    BY <2>1, <2>2, <2>3, <2>4, <2>5, Zenon DEF Sums
<1>7. h[B] = f[K]
  BY <1>3
<1>8. \A b \in B : gb[b] = HeadLen + Size(b)
  OBVIOUS
<1>9. Total(B) = h[B]
  <2> HIDE DEF h, gb
  <2>1. QED
    BY <1>4, <1>6, <1>8, TotalSums
<1>10. QED
  BY <1>7, <1>9 DEF B

\* get_data() exceeds a payload by one block at most.
LEMMA ResentBounded ==
  ASSUME NEW D \in SUBSET Nat, NEW bound \in Nat, \A sn \in D : sn <= bound, NEW g, NEW f, Sums(f, D, g),
         \A sn \in D : g[sn] <= HeadLen + MaxPayload,
         NEW expired \in SUBSET D,
         \A T \in SUBSET expired : SentLen(T) = f[T]
  PROVE  f[Resent(expired)] <= 2 * MaxPayload + HeadLen
<1> USE SendBufferAssumption, RoundTripAssumption DEF SendBufferAssumption, RoundTripAssumption
<1> DEFINE R == Resent(expired)
<1>1. R \in SUBSET expired
  BY DEF Resent
<1>2. CASE R = {}
  BY <1>2 DEF Sums
<1>3. CASE R # {}
  <2>1. R \in SUBSET Nat /\ \A sn \in R : sn <= bound
    <3> HIDE DEF R
    <3>1. QED
      BY <1>1
  <2>2. PICK m \in R : \A sn \in R : sn <= m
    <3> HIDE DEF R
    <3>1. QED
      BY <1>3, <2>1, MaxExists
  <2> DEFINE before == {sn \in expired : sn < m}
  <2>3. f[before] <= MaxPayload
    <3>1. SentLen(before) <= MaxPayload
      BY DEF Resent
    <3>2. QED
      BY <3>1
  <2>4. m \in D /\ R \ {m} \subseteq before /\ m \notin before
    <3> HIDE DEF R
    <3>1. QED
      BY <1>1, <2>2
  <2> HIDE DEF R
  <2>5. f[before \cup {m}] = f[before] + g[m] /\ f[before] \in Nat /\ g[m] \in Nat
    BY <2>4 DEF Sums
  <2>6. f[R] <= f[before \cup {m}] /\ f[R] \in Nat
    <3>1. R \subseteq before \cup {m} /\ before \cup {m} \in SUBSET D /\ R \in SUBSET D
      BY <1>1, <2>4
    <3>2. QED
      BY <3>1 DEF Sums
  <2>7. g[m] <= HeadLen + MaxPayload
    BY <2>4
  <2> HIDE DEF before
  <2>8. QED
    BY <2>3, <2>5, <2>6, <2>7 DEF R
<1>4. QED
  BY <1>2, <1>3

\* A request that is made is bounded, whether a new block is in it or not.
LEMMA SendBounded ==
  ASSUME BufInv, WorkTypeOK, KeptSmall, WorkTypeOK', KeptSmall', tail_sn' \in Nat \ {0},
         NEW w \in Workers, NEW expired \in SUBSET Unacked,
         NEW delayed \in BOOLEAN, NEW ackDue \in BOOLEAN,
         Send(w, expired, delayed, ackDue)
  PROVE  Total(SendData(expired, delayed)) <= 2 * MaxPayload + HeadLen
<1> USE SendBufferAssumption, RoundTripAssumption DEF SendBufferAssumption, RoundTripAssumption
<1>1. PICK kept : kept = wait_ack_send_list'
  OBVIOUS
<1> DEFINE D == DOMAIN kept
           g == [sn \in D |-> HeadLen + Size(kept[sn])]
           resent == Resent(expired)
<1>2. resent \in SUBSET expired /\ expired \in SUBSET DOMAIN wait_ack_send_list
  BY DEF Resent, Unacked
<1>3. PICK new \in BOOLEAN : new <=> TakesNew(resent, delayed)
  OBVIOUS
<1>4. /\ \A sn \in DOMAIN wait_ack_send_list :
            sn \in D /\ kept[sn] = wait_ack_send_list[sn] /\ sn # tail_sn
      /\ new => tail_sn \in D /\ kept[tail_sn] = NextBlock
  <2>1. tail_sn \in Nat /\ tail_sn \notin DOMAIN wait_ack_send_list
    BY DEF WorkTypeOK, BufInv, BufTypeOK
  <2>2. QED
    BY <1>1, <1>3, <2>1, SendTakes
<1>5. PICK bound \in Nat : D \in SUBSET Nat /\ IsFiniteSet(D) /\ \A sn \in D : sn <= bound
  <2>1. PICK from \in Nat, bound \in Nat : D = from .. bound
    <3>1. /\ D = (ack_send_continue_sn' + 1) .. (tail_sn' - 1)
          /\ ack_send_continue_sn' \in 0 .. (tail_sn' - 1)
      BY <1>1 DEF WorkTypeOK
    <3>2. PICK a, t : a = ack_send_continue_sn' /\ t = tail_sn'
      OBVIOUS
    <3> HIDE DEF D
    <3>3. t \in Nat \ {0} /\ a \in 0 .. (t - 1) /\ D = (a + 1) .. (t - 1)
      BY <3>1, <3>2
    <3>4. a + 1 \in Nat /\ t - 1 \in Nat
      BY <3>3
    <3>5. QED
      BY <3>3, <3>4
  <2>2. IsFiniteSet(from .. bound)
    BY FS_Interval
  <2> HIDE DEF D
  <2>3. D \in SUBSET Nat /\ \A sn \in D : sn <= bound
    BY <2>1
  <2>4. QED
    BY <2>1, <2>2, <2>3
<1>6. \A sn \in D : /\ Size(kept[sn]) \in 0 .. MaxPayload
                     /\ g[sn] = HeadLen + Size(kept[sn])
                     /\ g[sn] \in Nat /\ g[sn] <= HeadLen + MaxPayload
  <2>1. \A sn \in D : Size(kept[sn]) \in 0 .. MaxPayload
    BY <1>1 DEF KeptSmall
  <2>2. QED
    BY <2>1
<1> HIDE DEF D, g
<1>7. PICK f : Sums(f, D, g)
  BY <1>5, <1>6, SumsExist
<1>8. \A T \in SUBSET expired : SentLen(T) = f[T]
  <2> SUFFICES ASSUME NEW T \in SUBSET expired PROVE SentLen(T) = f[T]
    OBVIOUS
  <2>1. T \in SUBSET D /\ \A sn \in T : g[sn] = HeadLen + Size(wait_ack_send_list[sn])
    BY <1>2, <1>4, <1>6
  <2>2. IsFiniteSet(T)
    BY <1>5, <2>1, FS_Subset
  <2>3. QED
    BY <1>7, <2>1, <2>2, SentLenSums
<1> DEFINE K == resent \cup {sn \in {tail_sn} : new}
<1>9. SendData(expired, delayed) = BlocksOf(kept, K)
  <2>1. {Block(sn, wait_ack_send_list[sn]) : sn \in resent}
          = {Block(sn, kept[sn]) : sn \in resent}
    <3> HIDE DEF resent
    <3>1. QED
      BY <1>2, <1>4
  <2>2. {b \in {Block(tail_sn, NextBlock)} : TakesNew(resent, delayed)}
          = {Block(sn, kept[sn]) : sn \in {i \in {tail_sn} : new}}
    <3> HIDE DEF resent
    <3>1. QED
      BY <1>3, <1>4
  <2> HIDE DEF resent
  <2>3. QED
    BY <2>1, <2>2 DEF SendData, BlocksOf, resent
<1>10. K \in SUBSET D /\ Total(SendData(expired, delayed)) = f[K]
  <2>1. K \in SUBSET D
    BY <1>2, <1>4
  <2>2. IsFiniteSet(D) /\ \A sn \in D : g[sn] = HeadLen + Size(kept[sn])
    BY <1>5, <1>6
  <2> HIDE DEF K
  <2>3. Total(BlocksOf(kept, K)) = f[K]
    BY <1>7, <2>1, <2>2, BlocksTotal
  <2>4. QED
    BY <1>9, <2>1, <2>3
<1>11. CASE new
  <2>1. SentLen(resent) <= MaxPayload
    BY <1>3, <1>11 DEF TakesNew
  <2>2. f[resent] <= MaxPayload
    BY <1>2, <1>8, <2>1
  <2>3. K = resent \cup {tail_sn} /\ tail_sn \notin resent /\ tail_sn \in D /\ resent \in SUBSET D
    BY <1>2, <1>4, <1>11
  <2>4. f[K] = f[resent] + g[tail_sn] /\ f[resent] \in Nat
    BY <1>7, <2>3 DEF Sums
  <2>5. g[tail_sn] <= HeadLen + MaxPayload /\ g[tail_sn] \in Nat
    BY <1>6, <2>3
  <2> HIDE DEF K, resent
  <2>6. QED
    BY <1>10, <2>2, <2>4, <2>5
<1>12. CASE ~new
  <2>1. K = resent
    BY <1>12
  <2>2. expired \in SUBSET D
    BY <1>2, <1>4
  <2>3. f[resent] <= 2 * MaxPayload + HeadLen
    BY <1>5, <1>6, <1>7, <1>8, <2>2, ResentBounded
  <2>4. QED
    BY <1>10, <2>1, <2>3
<1>13. QED
  BY <1>11, <1>12

LEMMA NextKeptSmall ==
  ASSUME BufInv, WorkTypeOK, KeptSmall, [Next]_vars
  PROVE  KeptSmall'
<1>1. ASSUME NEW w \in Workers, NEW expired \in SUBSET Unacked,
             NEW delayed \in BOOLEAN, NEW ackDue \in BOOLEAN,
             Send(w, expired, delayed, ackDue)
      PROVE  KeptSmall'
  <2>1. CASE /\ Get /\ NextBlock \in SliceSet
             /\ wait_ack_send_list' =
                  [sn \in DOMAIN wait_ack_send_list \cup {tail_sn} |->
                     IF sn = tail_sn THEN NextBlock ELSE wait_ack_send_list[sn]]
    <3>1. Size(NextBlock) \in 0 .. MaxPayload
      <4>1. Size(NextBlock) <= MaxPayload /\ fetched'.hi > fetched.hi /\ fetched'.hi = NextBlock.hi
        BY <2>1, GetBufInv DEF Get
      <4>2. fetched.hi = NextBlock.lo
        BY DEF BufInv, FetchContinues, FirstByte
      <4>3. NextBlock.lo \in Nat /\ NextBlock.hi \in Nat /\ NextBlock.hi > NextBlock.lo
        BY <2>1, <4>1, <4>2 DEF SliceSet
      <4>4. QED
        BY <4>1, <4>3, SendBufferAssumption DEF SendBufferAssumption, Size
    <3>2. QED
      BY <2>1, <3>1 DEF KeptSmall
  <2>2. CASE UNCHANGED wait_ack_send_list
    BY <2>2 DEF KeptSmall
  <2>3. QED
    BY <1>1, <2>1, <2>2, SendTakes
<1>2. CASE FinishStep
  <2>1. \A sn \in DOMAIN wait_ack_send_list' :
           /\ sn \in DOMAIN wait_ack_send_list
           /\ wait_ack_send_list'[sn] = wait_ack_send_list[sn]
    BY <1>2 DEF FinishStep, Finish, AckProcess
  <2>2. QED
    BY <2>1 DEF KeptSmall
<1>3. CASE UNCHANGED <<workVars, tail_sn>>
  BY <1>3 DEF KeptSmall, workVars
<1>4. QED
  BY <1>1, <1>2, <1>3, WorkSteps DEF SendStep

\* Total is the sum RequestBounded speaks of.
LEMMA BoundedMeans ==
  /\ RequestBounded <=>
       \A no \in DOMAIN send_data : Total(send_data[no]) <= 2 * MaxPayload + HeadLen
  /\ RequestBounded' <=>
       \A no \in DOMAIN send_data' : Total(send_data'[no]) <= 2 * MaxPayload + HeadLen
<1>1. RequestBounded <=>
        \A no \in DOMAIN send_data : Total(send_data[no]) <= 2 * MaxPayload + HeadLen
  BY DEF RequestBounded, Total
<1>2. (RequestBounded <=>
        \A no \in DOMAIN send_data : Total(send_data[no]) <= 2 * MaxPayload + HeadLen)'
  BY <1>1, PTL
<1>3. QED
  BY <1>1, <1>2

(***************************************************************************)
(* Resends and a new block in one request stay below twice the payload     *)
(* and one head, whatever expires together (get_data).                     *)
(***************************************************************************)
THEOREM RequestsSmall == Spec => []RequestBounded
<1>1. InitRoundTrip => KeptSmall /\ RequestBounded
  <2> SUFFICES ASSUME InitRoundTrip PROVE KeptSmall /\ RequestBounded
    OBVIOUS
  <2>1. DOMAIN wait_ack_send_list = {} /\ DOMAIN send_data = {}
    BY DEF InitRoundTrip
  <2>2. QED
    BY <2>1, BoundedMeans DEF KeptSmall
<1>2. SessionInv /\ SessionInv' /\ KeptSmall /\ RequestBounded /\ [Next]_vars
        => KeptSmall' /\ RequestBounded'
  <2> SUFFICES ASSUME SessionInv, SessionInv', KeptSmall, RequestBounded, [Next]_vars
               PROVE  KeptSmall' /\ RequestBounded'
    OBVIOUS
  <2>1. BufInv /\ WorkTypeOK /\ MadeTypeOK
    BY TypeSplit DEF SessionInv, TypeParts
  <2>2. WorkTypeOK' /\ tail_sn' \in Nat \ {0}
    BY DEF SessionInv, TypeOK, WorkTypeOK, BufInv, BufTypeOK
  <2>3. KeptSmall'
    BY <2>1, NextKeptSmall
  <2>4. ASSUME NEW w \in Workers, NEW expired \in SUBSET Unacked,
               NEW delayed \in BOOLEAN, NEW ackDue \in BOOLEAN,
               Send(w, expired, delayed, ackDue)
        PROVE  RequestBounded'
    <3>1. Total(SendData(expired, delayed)) <= 2 * MaxPayload + HeadLen
      BY <2>1, <2>2, <2>3, <2>4, SendBounded
    <3>2. send_data' = [i \in DOMAIN send_data \cup {last_transfer_no + 1} |->
                          IF i = last_transfer_no + 1 THEN SendData(expired, delayed)
                                                      ELSE send_data[i]]
      BY <2>4 DEF Send, SendData
    <3>3. QED
      BY <3>1, <3>2, BoundedMeans
  <2>5. CASE UNCHANGED send_data
    BY <2>3, <2>5, BoundedMeans
  <2>6. CASE SendStep
    BY <2>3, <2>4, <2>6 DEF SendStep
  <2>7. QED
    BY <2>5, <2>6, MadeSteps
<1>3. QED
  BY <1>1, <1>2, AlwaysSessionInv, PTL DEF Spec

=============================================================================
