---------------------------- MODULE Http2_proofs ----------------------------
(* What holds of an HTTP/2 worker for any number of streams and any windows. *)
EXTENDS Http2, FiniteSetTheorems, FunctionTheorems, SequenceTheorems, WellFoundedInduction, TLAPS

------------------------------------------------------------------------------
(* Types.                                                                     *)

Frame == [stream : Nat, from : Int, len : Int, kind : {"none", "head", "data", "last"}]

RaceNames == {"doubled", "shrunk", "raised", "late", "missed", "torn", "overtaken", "twoClose"}

\* The places of a thread that has a frame of a stream in hand, or looks for one.
SendPlaces == {"left", "cut", "offer", "block", "deny", "take"}

StreamTypes ==
    /\ streams \in SUBSET StreamIds /\ next_stream \in 1 .. MaxStreams + 1
    /\ task \in [StreamIds -> {"none", "held", "responsed", "finished", "expired"}]
    /\ retries \in [StreamIds -> Nat]

BodyTypes ==
    /\ request_body_left \in [StreamIds -> Int] /\ stream_window \in [StreamIds -> Int]
    /\ DOMAIN body_sended = StreamIds /\ initial_window \in Int

FlowTypes == remote_window_size \in Int /\ blocked_send_frames \in Seq(Frame)

ThreadTypes ==
    /\ DOMAIN at = Threads /\ hand \in [Threads -> Frame] /\ seen \in [Threads -> Int]
    /\ snapshot \in [Threads -> SUBSET StreamIds] /\ DOMAIN history = RaceNames

\* What a thread has in hand is a frame of a stream, and once it is cut, its length is one.
HandOK ==
    \A t \in Threads : /\ at[t] \in SendPlaces => hand[t].stream \in StreamIds
                       /\ at[t] \in {"offer", "block", "take"} => hand[t].len >= 0

Types == StreamTypes /\ BodyTypes /\ FlowTypes /\ ThreadTypes /\ HandOK

LEMMA SliceLenNat ==
    ASSUME NEW start \in Int, NEW size \in Int
    PROVE  SliceLen(start, size) \in Int /\ SliceLen(start, size) >= 0 /\ Index(start) \in Int
BY Http2Assumption DEF SliceLen, Index

LEMMA LeastOfThree ==
    ASSUME NEW a \in Int, NEW b \in Int, NEW c \in Int
    PROVE  /\ Least({a, b, c}) \in Int
           /\ Least({a, b, c}) <= a /\ Least({a, b, c}) <= b /\ Least({a, b, c}) <= c
<1>1. \E x \in {a, b, c} : \A y \in {a, b, c} : x <= y
  <2>1. CASE a <= b /\ a <= c
    BY <2>1
  <2>2. CASE b <= a /\ b <= c
    BY <2>2
  <2>3. CASE c <= a /\ c <= b
    BY <2>3
  <2>4. QED
    BY <2>1, <2>2, <2>3
<1>2. Least({a, b, c}) \in {a, b, c} /\ \A y \in {a, b, c} : Least({a, b, c}) <= y
  BY <1>1 DEF Least
<1>3. QED
  BY <1>2

LEMMA InitTypes == Init => Types
<1> SUFFICES ASSUME Init PROVE Types
  OBVIOUS
<1>1. \A t \in Threads : at[t] \in {"idle", "read"}
  BY DEF Init, Rest
<1>2. StreamTypes /\ BodyTypes /\ FlowTypes
  BY Http2Assumption DEF Init, StreamTypes, BodyTypes, FlowTypes, StreamIds
<1>3. ThreadTypes
  <2>1. DOMAIN at = Threads /\ DOMAIN history = RaceNames
    BY DEF Init, RaceNames
  <2>2. hand \in [Threads -> Frame]
    BY DEF Init, NoFrame, Frame
  <2>3. seen \in [Threads -> Int] /\ snapshot \in [Threads -> SUBSET StreamIds]
    BY DEF Init
  <2>4. QED
    BY <2>1, <2>2, <2>3 DEF Init, ThreadTypes
<1>4. HandOK
  BY <1>1 DEF HandOK, SendPlaces
<1>5. QED
  BY <1>2, <1>3, <1>4 DEF Types

------------------------------------------------------------------------------
\* Thread t goes from one place to another, the others stay where they are.
Moves(t, place) ==
    /\ DOMAIN at' = Threads /\ at'[t] = place /\ \A u \in Threads : u # t => at'[u] = at[u]

LEMMA GoMoves ==
    ASSUME DOMAIN at = Threads, NEW t \in Threads, NEW place, Go(t, place)
    PROVE  Moves(t, place)
BY DEF Go, Moves

LEMMA RestPlace == \A t \in Threads : Rest(t) \notin SendPlaces \cup {"drain", "unblock", "hand_back"}
BY DEF Rest, SendPlaces

\* The frames in the hands of the other threads are what they were.
LEMMA OthersKeepHands ==
    ASSUME HandOK, NEW t \in Threads, NEW place, Moves(t, place),
           \A u \in Threads : u # t => hand'[u] = hand[u],
           place \in SendPlaces => hand'[t].stream \in StreamIds,
           place \in {"offer", "block", "take"} => hand'[t].len >= 0
    PROVE  HandOK'
BY DEF HandOK, Moves

LEMMA LeftTypes ==
    ASSUME Types, NEW t \in Threads, Left(t)
    PROVE  Types'
<1> USE DEF Types
<1> DEFINE s == hand[t].stream
<1>1. s \in StreamIds /\ DOMAIN at = Threads
  BY DEF Left, HandOK, SendPlaces, ThreadTypes
<1>2. StreamTypes' /\ FlowTypes'
  BY DEF Left, StreamTypes, FlowTypes, taskVars, flowVars
<1>3. BodyTypes'
  <2>1. \E isDone : body_sended' = [body_sended EXCEPT ![s] = isDone]
    BY Zenon DEF Left
  <2>2. DOMAIN body_sended' = StreamIds
    BY <2>1 DEF BodyTypes
  <2>3. QED
    BY <2>2 DEF Left, BodyTypes, serverVars
<1>4. CASE Go(t, Rest(t)) /\ hand' = [hand EXCEPT ![t] = NoFrame]
  <2>1. Moves(t, Rest(t)) /\ Rest(t) \notin SendPlaces \cup {"offer", "block", "take"}
    BY <1>1, <1>4, GoMoves, RestPlace DEF SendPlaces
  <2>2. hand' \in [Threads -> Frame]
    BY <1>4 DEF ThreadTypes, NoFrame, Frame
  <2>3. ThreadTypes'
    BY <2>1, <2>2 DEF Left, ThreadTypes, Moves
  <2>4. HandOK'
    BY <1>4, <2>1, OthersKeepHands DEF ThreadTypes
  <2>5. QED
    BY <1>2, <1>3, <2>3, <2>4
<1>5. CASE /\ Go(t, "cut")
           /\ hand' = [hand EXCEPT ![t] =
                 [stream |-> s, from |-> 0, kind |-> "data",
                  len |-> Least({stream_window[s], request_body_left[s], MaxFrame})]]
  <2>1. Moves(t, "cut")
    BY <1>1, <1>5, GoMoves
  <2>2. Least({stream_window[s], request_body_left[s], MaxFrame}) \in Int
    <3>1. stream_window[s] \in Int /\ request_body_left[s] \in Int
      BY <1>1 DEF BodyTypes
    <3>2. MaxFrame \in Int
      BY Http2Assumption
    <3> HIDE DEF s
    <3>3. QED
      BY <3>1, <3>2, LeastOfThree
  <2>3. hand' \in [Threads -> Frame] /\ hand'[t].stream = s
    BY <1>1, <1>5, <2>2 DEF ThreadTypes, Frame, StreamIds
  <2>4. ThreadTypes'
    BY <2>1, <2>3 DEF Left, ThreadTypes, Moves
  <2>5. HandOK'
    BY <1>1, <1>5, <2>1, <2>3, OthersKeepHands DEF ThreadTypes
  <2>6. QED
    BY <1>2, <1>3, <2>4, <2>5
<1>6. QED
  BY <1>4, <1>5 DEF Left

LEMMA CutTypes ==
    ASSUME Types, NEW t \in Threads, Cut(t)
    PROVE  Types'
<1> USE DEF Types
<1> DEFINE s == hand[t].stream
           size == hand[t].len
           from == BodyLen - request_body_left[s]
<1>1. s \in StreamIds /\ DOMAIN at = Threads /\ size \in Int /\ from \in Int
  BY Http2Assumption DEF Cut, HandOK, SendPlaces, ThreadTypes, BodyTypes, Frame
<1>2. StreamTypes' /\ FlowTypes'
  BY DEF Cut, StreamTypes, FlowTypes, taskVars, flowVars
<1>3. BodyTypes'
  BY <1>1 DEF Cut, BodyTypes, serverVars
<1>4. Moves(t, "offer")
  BY <1>1, GoMoves DEF Cut
<1>5. PICK kind \in {"data", "last"} : hand' =
          [hand EXCEPT ![t] = [stream |-> s, from |-> Index(from), len |-> SliceLen(from, size), kind |-> kind]]
  BY DEF Cut
<1>6. SliceLen(from, size) \in Int /\ SliceLen(from, size) >= 0 /\ Index(from) \in Int
  <2> HIDE DEF s, size, from
  <2>1. QED
    BY <1>1, SliceLenNat
<1>7. hand' \in [Threads -> Frame] /\ hand'[t].stream = s /\ hand'[t].len >= 0
  <2> HIDE DEF size, from
  <2>1. QED
    BY <1>1, <1>5, <1>6 DEF ThreadTypes, Frame, StreamIds
<1>8. DOMAIN history' = RaceNames
  BY DEF Cut, ThreadTypes, RaceNames
<1>9. ThreadTypes'
  BY <1>4, <1>7, <1>8 DEF Cut, ThreadTypes, Moves
<1>10. HandOK'
  BY <1>1, <1>4, <1>5, <1>7, OthersKeepHands DEF ThreadTypes
<1>11. QED
  BY <1>2, <1>3, <1>9, <1>10

LEMMA CallbackTypes ==
    ASSUME Types, NEW t \in Threads, Offer(t) \/ Block(t) \/ Deny(t) \/ Take(t)
    PROVE  Types'
<1> USE DEF Types
<1>0. DOMAIN at = Threads /\ at[t] \in SendPlaces /\ hand' = hand
  BY DEF ThreadTypes, Offer, Block, Deny, Take, SendPlaces
<1>1. StreamTypes' /\ BodyTypes'
  BY DEF Offer, Block, Deny, Take, StreamTypes, BodyTypes, taskVars, bodyVars, serverVars
<1>2. PICK place \in {"block", "take", "deny", "left"} : Go(t, place) /\ (place \in {"block", "take"} => Offer(t))
  BY DEF Offer, Block, Deny, Take
<1>3. Moves(t, place)
  BY <1>0, <1>2, GoMoves
<1>4. HandOK'
  <2>1. hand[t].stream \in StreamIds
    BY <1>0 DEF HandOK
  <2>2. place \in {"offer", "block", "take"} => hand[t].len >= 0
    BY <1>2 DEF HandOK, Offer
  <2>3. QED
    BY <1>0, <1>3, <2>1, <2>2, OthersKeepHands
<1>5. FlowTypes'
  <2>1. hand[t] \in Frame /\ hand[t].len \in Int /\ seen[t] \in Int
    BY DEF ThreadTypes, Frame
  <2>2. QED
    <3>1. remote_window_size \in Int /\ blocked_send_frames \in Seq(Frame)
      BY DEF FlowTypes
    <3>2. CASE Offer(t) \/ Deny(t)
      BY <3>1, <3>2 DEF Offer, Deny, FlowTypes, flowVars
    <3>3. CASE Block(t)
      <4>1. remote_window_size' = remote_window_size
            /\ blocked_send_frames' = Append(blocked_send_frames, hand[t])
        BY <3>3 DEF Block
      <4>2. Append(blocked_send_frames, hand[t]) \in Seq(Frame)
        BY <2>1, <3>1
      <4>3. QED
        BY <3>1, <4>1, <4>2 DEF FlowTypes
    <3>4. CASE Take(t)
      <4>1. remote_window_size' = seen[t] - hand[t].len /\ blocked_send_frames' = blocked_send_frames
        BY <3>4 DEF Take
      <4>2. seen[t] - hand[t].len \in Int
        BY <2>1
      <4>3. QED
        BY <3>1, <4>1, <4>2 DEF FlowTypes
    <3>5. QED
      BY <3>2, <3>3, <3>4
<1>6. seen' \in [Threads -> Int] /\ snapshot' = snapshot
  BY DEF Offer, Block, Deny, Take, Wrote, ThreadTypes, FlowTypes
<1>7. DOMAIN history' = RaceNames
  BY DEF Offer, Block, Deny, Take, Wrote, ThreadTypes
<1>8. QED
  BY <1>0, <1>1, <1>3, <1>4, <1>5, <1>6, <1>7 DEF ThreadTypes, Moves

LEMMA SendTypes ==
    ASSUME Types, NEW t \in Threads, SendStep(t)
    PROVE  Types'
BY LeftTypes, CutTypes, CallbackTypes DEF SendStep

------------------------------------------------------------------------------
\* A step after which no frame is in a thread's hands that was not in them.
LEMMA HandsKept ==
    ASSUME HandOK, NEW t \in Threads, NEW place, Moves(t, place), hand' = hand,
           place \notin SendPlaces
    PROVE  HandOK'
<1>1. place \notin {"offer", "block", "take"}
  BY DEF SendPlaces
<1>2. QED
  BY <1>1, OthersKeepHands

LEMMA RequestTypes ==
    ASSUME Types, Request \/ OpenStream
    PROVE  Types'
<1> USE DEF Types
<1>0. DOMAIN at = Threads /\ "req" \in Threads
  BY DEF ThreadTypes, Threads
<1>1. CASE Request
  <2>1. Moves("req", "open") /\ "open" \notin SendPlaces
    BY <1>0, <1>1, GoMoves DEF Request, SendPlaces
  <2>2. HandOK'
    BY <1>0, <1>1, <2>1, HandsKept DEF Request
  <2>3. QED
    BY <1>1, <2>1, <2>2 DEF Request, StreamTypes, BodyTypes, FlowTypes, ThreadTypes, Moves, taskVars, flowVars, bodyVars, serverVars
<1>2. CASE OpenStream
  <2>0. next_stream \in StreamIds
    BY <1>2 DEF OpenStream
  <2>1. Moves("req", "offer")
    BY <1>0, <1>2, GoMoves DEF OpenStream
  <2>2. hand' \in [Threads -> Frame] /\ hand'["req"].stream \in StreamIds /\ hand'["req"].len >= 0
    BY <1>0, <1>2, <2>0, Http2Assumption DEF OpenStream, ThreadTypes, Frame, StreamIds
  <2>3. HandOK'
    BY <1>0, <1>2, <2>1, <2>2, OthersKeepHands DEF OpenStream, ThreadTypes
  <2>4. StreamTypes'
    <3>1. /\ streams' = streams \cup {next_stream} /\ next_stream' = next_stream + 1
          /\ task' = [task EXCEPT ![next_stream] = "held"] /\ retries' = retries
      BY <1>2 DEF OpenStream
    <3>2. /\ streams \in SUBSET StreamIds /\ retries \in [StreamIds -> Nat]
          /\ task \in [StreamIds -> {"none", "held", "responsed", "finished", "expired"}]
      BY DEF StreamTypes
    <3>3. next_stream' \in 1 .. MaxStreams + 1
      BY <2>0, <3>1, Http2Assumption DEF StreamIds
    <3>4. task' \in [StreamIds -> {"none", "held", "responsed", "finished", "expired"}]
      BY <2>0, <3>1, <3>2
    <3>5. QED
      BY <2>0, <3>1, <3>2, <3>3, <3>4 DEF StreamTypes
  <2>5. BodyTypes' /\ FlowTypes'
    BY <1>2, <2>0 DEF OpenStream, BodyTypes, FlowTypes, flowVars, serverVars
  <2>6. DOMAIN history' = RaceNames
    BY <1>2 DEF OpenStream, ThreadTypes
  <2>7. QED
    BY <1>2, <2>1, <2>2, <2>3, <2>4, <2>5, <2>6 DEF OpenStream, ThreadTypes, Moves
<1>3. QED
  BY <1>1, <1>2

\* Only the receiving thread takes frames from the blocked ones.
UnblockOK == at["recv"] = "unblock" => blocked_send_frames # <<>>

LEMMA ReceiveTypes ==
    ASSUME Types, UnblockOK, ReceiveStep
    PROVE  Types'
<1> USE DEF Types
<1>0. DOMAIN at = Threads /\ "recv" \in Threads
  BY DEF ThreadTypes, Threads
<1>1. PICK place : Go("recv", place) /\ (place \in SendPlaces => StreamUpdate)
  BY RestPlace, <1>0 DEF ReceiveStep, Drain, Unblock, Reopen, ConnectionUpdate, StreamUpdate, Settings,
     SettingsEnd, Acknowledged, Respond, EndStream, SendPlaces
<1>2. Moves("recv", place)
  BY <1>0, <1>1, GoMoves
<1>3. StreamTypes'
  BY DEF ReceiveStep, Drain, Unblock, Reopen, ConnectionUpdate, StreamUpdate, Settings,
     SettingsEnd, Acknowledged, Respond, EndStream, StreamTypes, taskVars
<1>4. FlowTypes'
  <2>1. CASE Unblock
    <3>1. Head(blocked_send_frames) \in Frame
      BY <2>1 DEF Unblock, FlowTypes, UnblockOK
    <3>2. Tail(blocked_send_frames) \in Seq(Frame)
      BY <2>1 DEF Unblock, FlowTypes, UnblockOK
    <3>3. seen["recv"] \in Int /\ Head(blocked_send_frames).len \in Int
      BY <1>0, <3>1 DEF ThreadTypes, Frame
    <3>4. QED
      BY <2>1, <3>2, <3>3 DEF Unblock, FlowTypes
  <2>2. CASE ConnectionUpdate
    BY <2>2, Http2Assumption DEF ConnectionUpdate, FlowTypes
  <2>3. QED
    BY <2>1, <2>2 DEF ReceiveStep, Drain, Reopen, StreamUpdate, Settings,
     SettingsEnd, Acknowledged, Respond, EndStream, FlowTypes, flowVars
<1>5. BodyTypes'
  <2>1. CASE StreamUpdate
    <3>1. PICK s \in streams : stream_window' = [stream_window EXCEPT ![s] = @ + Grant]
      BY <2>1 DEF StreamUpdate
    <3>2. s \in StreamIds
      BY <3>1 DEF StreamTypes
    <3>3. stream_window' \in [StreamIds -> Int]
      BY <3>1, <3>2, Http2Assumption DEF BodyTypes
    <3>4. QED
      BY <2>1, <3>3 DEF StreamUpdate, BodyTypes
  <2>2. CASE Settings
    <3>1. PICK size \in Windows : stream_window' = [s \in StreamIds |->
              IF s \in streams THEN stream_window[s] + (size - initial_window) ELSE stream_window[s]]
      BY <2>2 DEF Settings
    <3>2. stream_window' \in [StreamIds -> Int]
      BY <3>1, Http2Assumption DEF BodyTypes
    <3>3. QED
      BY <2>2, <3>2 DEF Settings, BodyTypes
  <2>3. CASE SettingsEnd
    BY <2>3, <1>0 DEF SettingsEnd, BodyTypes, bodyVars, ThreadTypes
  <2>4. QED
    BY <2>1, <2>2, <2>3 DEF ReceiveStep, Drain, Unblock, Reopen, ConnectionUpdate,
     Acknowledged, Respond, EndStream, BodyTypes, bodyVars, serverVars
<1>6. seen' \in [Threads -> Int] /\ snapshot' = snapshot
  <2>1. CASE Settings
    <3>1. PICK size \in Windows : seen' = [seen EXCEPT !["recv"] = size] /\ UNCHANGED snapshot
      BY <2>1 DEF Settings
    <3>2. QED
      BY <1>0, <3>1, Http2Assumption DEF ThreadTypes
  <2>2. CASE Drain \/ Unblock \/ SettingsEnd
    BY <2>2 DEF Drain, Unblock, Wrote, SettingsEnd, FlowTypes, ThreadTypes
  <2>3. QED
    BY <2>1, <2>2 DEF ReceiveStep, Reopen, ConnectionUpdate, StreamUpdate, Acknowledged, Respond, EndStream,
       ThreadTypes
<1>7. DOMAIN history' = RaceNames
  BY DEF ReceiveStep, Drain, Unblock, Reopen, ConnectionUpdate, StreamUpdate, Settings,
     SettingsEnd, Acknowledged, Respond, EndStream, Wrote, ThreadTypes
<1>8. hand' \in [Threads -> Frame] /\ HandOK'
  <2>1. CASE StreamUpdate
    <3>1. PICK s \in streams : hand' = [hand EXCEPT !["recv"] = [NoFrame EXCEPT !.stream = s]]
      BY <2>1 DEF StreamUpdate
    <3>2. [NoFrame EXCEPT !.stream = s] = [stream |-> s, from |-> 0, len |-> 0, kind |-> "none"]
      BY DEF NoFrame
    <3>3. s \in StreamIds /\ s \in Nat
      BY <3>1 DEF StreamTypes, StreamIds
    <3>4. hand' \in [Threads -> Frame] /\ hand'["recv"].stream = s /\ hand'["recv"].len = 0
      BY <1>0, <3>1, <3>2, <3>3 DEF ThreadTypes, Frame
    <3>5. HandOK'
      BY <1>0, <1>2, <3>1, <3>3, <3>4, OthersKeepHands DEF ThreadTypes
    <3>6. QED
      BY <3>4, <3>5
  <2>2. CASE ~StreamUpdate
    <3>1. hand' = hand
      BY <2>2 DEF ReceiveStep, Drain, Unblock, Reopen, ConnectionUpdate, Settings,
         SettingsEnd, Acknowledged, Respond, EndStream
    <3>2. QED
      BY <1>0, <1>1, <1>2, <2>2, <3>1, HandsKept DEF ThreadTypes
  <2>3. QED
    BY <2>1, <2>2
<1>9. QED
  BY <1>2, <1>3, <1>4, <1>5, <1>6, <1>7, <1>8 DEF ThreadTypes, Moves

------------------------------------------------------------------------------
\* A nonempty set of streams has a least one.
LEMMA LeastExists ==
    ASSUME NEW S \in SUBSET StreamIds, S # {}
    PROVE  Least(S) \in S
<1>1. S \subseteq Nat
  BY DEF StreamIds
<1>2. PICK m \in S : \A k \in S : ~(<<k, m>> \in OpToRel(<, Nat))
  BY <1>1, NatLessThanWellFounded, WFMin, Zenon
<1>3. \A k \in S : m <= k
  <2> TAKE k \in S
  <2>1. k < m => <<k, m>> \in {ss \in Nat \X Nat : ss[1] < ss[2]}
    BY <1>1
  <2>2. OpToRel(<, Nat) = {ss \in Nat \X Nat : ss[1] < ss[2]}
    BY Zenon DEF OpToRel
  <2>3. ~(k < m)
    BY <1>2, <2>1, <2>2, Zenon
  <2>4. QED
    BY <1>1, <2>3
<1>4. QED
  BY <1>3 DEF Least

LEMMA CloseTypes ==
    ASSUME Types, NEW t \in Threads, CloseStep(t)
    PROVE  Types'
<1> USE DEF Types
<1>0. DOMAIN at = Threads
  BY DEF ThreadTypes
<1>1. CASE CloseBegins(t)
  <2>1. Moves(t, "hand_back") /\ "hand_back" \notin SendPlaces
    BY <1>0, <1>1, GoMoves DEF CloseBegins, SendPlaces
  <2>2. HandOK'
    BY <1>1, <2>1, HandsKept DEF CloseBegins
  <2>3. StreamTypes' /\ BodyTypes' /\ FlowTypes'
    BY <1>1 DEF CloseBegins, StreamTypes, BodyTypes, FlowTypes, taskVars, flowVars, bodyVars, serverVars
  <2>4. snapshot' \in [Threads -> SUBSET StreamIds] /\ DOMAIN history' = RaceNames
    BY <1>1 DEF CloseBegins, ThreadTypes, StreamTypes
  <2>5. QED
    BY <1>1, <2>1, <2>2, <2>3, <2>4 DEF CloseBegins, ThreadTypes, Moves
<1>2. CASE HandBack(t)
  <2> DEFINE s == Least(snapshot[t])
  <2>1. s \in snapshot[t] /\ s \in StreamIds
    BY <1>2, LeastExists DEF HandBack, ThreadTypes
  <2>2. UNCHANGED <<at, hand, history, seen>>
    BY <1>2 DEF HandBack
  <2>3. HandOK'
    BY <2>2 DEF HandOK
  <2>4. BodyTypes' /\ FlowTypes'
    BY <1>2 DEF HandBack, BodyTypes, FlowTypes, flowVars, bodyVars, serverVars
  <2>5. snapshot' \in [Threads -> SUBSET StreamIds]
    BY <1>2 DEF HandBack, ThreadTypes
  <2> HIDE DEF s
  <2>6. StreamTypes'
    <3>1. next_stream' = next_stream
      BY <1>2 DEF HandBack
    <3>2. \/ retries' = [retries EXCEPT ![s] = @ + 1] /\ UNCHANGED <<task, streams>>
          \/ /\ task' = [task EXCEPT ![s] = IF @ = "held" THEN "expired" ELSE "finished"]
             /\ streams' = streams \ {s} /\ UNCHANGED retries
      BY <1>2 DEF HandBack, s
    <3>3. QED
      BY <2>1, <3>1, <3>2 DEF StreamTypes
  <2>7. QED
    BY <2>2, <2>3, <2>4, <2>5, <2>6 DEF ThreadTypes
<1>3. CASE Down(t)
  <2>1. Moves(t, "idle") /\ "idle" \notin SendPlaces
    BY <1>0, <1>3, GoMoves DEF Down, SendPlaces
  <2>2. HandOK'
    BY <1>3, <2>1, HandsKept DEF Down
  <2>3. StreamTypes' /\ BodyTypes' /\ FlowTypes'
    BY <1>3 DEF Down, StreamTypes, BodyTypes, FlowTypes, flowVars, bodyVars, serverVars
  <2>4. QED
    BY <1>3, <2>1, <2>2, <2>3 DEF Down, ThreadTypes, Moves
<1>4. QED
  BY <1>1, <1>2, <1>3 DEF CloseStep

LEMMA StepTypes == Types /\ UnblockOK /\ [Next]_vars => Types'
<1> SUFFICES ASSUME Types, UnblockOK, [Next]_vars PROVE Types'
  OBVIOUS
<1>1. CASE UNCHANGED vars
  BY <1>1 DEF vars, taskVars, flowVars, bodyVars, serverVars, Types, StreamTypes, BodyTypes, FlowTypes, ThreadTypes, HandOK
<1>2. ASSUME NEW t \in {"req", "recv"}, SendStep(t) PROVE Types'
  BY <1>2, SendTypes DEF Threads
<1>3. ASSUME NEW t \in {"recv", "send"}, CloseStep(t) PROVE Types'
  BY <1>3, CloseTypes DEF Threads
<1>4. QED
  BY <1>1, <1>2, <1>3, RequestTypes, ReceiveTypes DEF Next

------------------------------------------------------------------------------
(* What every thread does, seen from the others.                              *)

\* A thread that sends moves between the places for it, and from the last one to rest.
LEMMA SendMoves ==
    ASSUME Types, NEW t \in Threads, SendStep(t)
    PROVE  /\ at[t] \in SendPlaces
           /\ \E place \in SendPlaces \cup {"idle", "read"} : Moves(t, place)
<1>1. DOMAIN at = Threads
  BY DEF Types, ThreadTypes
<1>2. at[t] \in SendPlaces
  BY DEF SendStep, Left, Cut, Offer, Block, Deny, Take, SendPlaces
<1>3. Rest(t) \in {"idle", "read"}
  BY DEF Rest
<1>4. PICK place \in SendPlaces \cup {"idle", "read"} : Go(t, place)
  BY <1>3 DEF SendStep, Left, Cut, Offer, Block, Deny, Take, SendPlaces
<1>5. QED
  BY <1>1, <1>2, <1>4, GoMoves

\* So does one that closes: the places it goes to are others.
LEMMA CloseMoves ==
    ASSUME Types, NEW t \in Threads, CloseStep(t)
    PROVE  /\ at[t] \in {"close", "read", "idle", "hand_back"}
           /\ \E place \in {"idle", "hand_back"} : Moves(t, place)
<1>1. DOMAIN at = Threads
  BY DEF Types, ThreadTypes
<1>2. at[t] \in {"close", "read", "idle", "hand_back"}
  BY DEF CloseStep, CloseBegins, HandBack, Down
<1>3. CASE HandBack(t)
  <2>1. at[t] = "hand_back" /\ at' = at
    BY <1>3 DEF HandBack
  <2>2. Moves(t, "hand_back")
    BY <1>1, <2>1 DEF Moves
  <2>3. QED
    BY <1>2, <2>2
<1>4. CASE CloseBegins(t) \/ Down(t)
  <2>1. PICK place \in {"idle", "hand_back"} : Go(t, place)
    BY <1>4 DEF CloseBegins, Down
  <2>2. QED
    BY <1>1, <1>2, <2>1, GoMoves
<1>5. QED
  BY <1>3, <1>4 DEF CloseStep

LEMMA ReceiveMoves ==
    ASSUME Types, ReceiveStep
    PROVE  /\ at["recv"] \notin SendPlaces \cup {"hand_back", "idle"}
           /\ \E place : place # "hand_back" /\ (place \in SendPlaces => StreamUpdate) /\ Moves("recv", place)
<1>1. DOMAIN at = Threads /\ "recv" \in Threads
  BY DEF Types, ThreadTypes, Threads
<1>2. at["recv"] \notin SendPlaces \cup {"hand_back", "idle"}
  BY DEF ReceiveStep, Drain, Unblock, Reopen, ConnectionUpdate, StreamUpdate, Settings,
     SettingsEnd, Acknowledged, Respond, EndStream, SendPlaces, Granting
<1>3. PICK place : Go("recv", place) /\ place # "hand_back" /\ (place \in SendPlaces => StreamUpdate)
  BY <1>1, RestPlace DEF ReceiveStep, Drain, Unblock, Reopen, ConnectionUpdate, StreamUpdate, Settings,
     SettingsEnd, Acknowledged, Respond, EndStream, SendPlaces
<1>4. QED
  BY <1>1, <1>2, <1>3, GoMoves

LEMMA RequestMoves ==
    ASSUME Types, Request \/ OpenStream
    PROVE  at["req"] \in {"idle", "open"} /\ \E place \in {"open", "offer"} : Moves("req", place)
<1>1. DOMAIN at = Threads /\ "req" \in Threads
  BY DEF Types, ThreadTypes, Threads
<1>2. at["req"] \in {"idle", "open"}
  BY DEF Request, OpenStream
<1>3. PICK place \in {"open", "offer"} : Go("req", place)
  BY DEF Request, OpenStream
<1>4. QED
  BY <1>1, <1>2, <1>3, GoMoves

------------------------------------------------------------------------------
(* Frames blocked by the window of the connection.                            *)

\* The first blocked frame does not fit into the window, unless the receiving thread
\* is about to let it go.
HeadWaits ==
    ~history.missed /\ ~history.torn /\ blocked_send_frames # <<>>
    /\ at["recv"] \notin {"drain", "unblock"} => Head(blocked_send_frames).len > remote_window_size

FlowInv == Types /\ UnblockOK /\ HeadWaits

\* A step that leaves the blocked frames and the window alone, and does not take the
\* receiving thread to or from the places where frames are let go.
LEMMA FlowKept ==
    ASSUME UnblockOK, HeadWaits, UNCHANGED <<blocked_send_frames, remote_window_size>>,
           at'["recv"] \in {"drain", "unblock"} => at'["recv"] = at["recv"],
           at["recv"] \in {"drain", "unblock"} => at'["recv"] = at["recv"],
           history.missed = history'.missed, history.torn = history'.torn
    PROVE  UnblockOK' /\ HeadWaits'
BY DEF UnblockOK, HeadWaits

LEMMA FlowStep == FlowInv /\ [Next]_vars => UnblockOK' /\ HeadWaits'
<1> SUFFICES ASSUME FlowInv, [Next]_vars PROVE UnblockOK' /\ HeadWaits'
  OBVIOUS
<1> USE DEF FlowInv
<1>0. "recv" \in Threads /\ "req" \in Threads /\ "send" \in Threads
  BY DEF Threads
<1>1. CASE UNCHANGED vars
  BY <1>1, FlowKept DEF vars, flowVars
<1>2. CASE Request \/ OpenStream
  <2>1. at'["recv"] = at["recv"]
    BY <1>0, <1>2, RequestMoves DEF Moves
  <2>2. UNCHANGED <<blocked_send_frames, remote_window_size>>
    BY <1>2 DEF Request, OpenStream, flowVars
  <2>3. history.missed = history'.missed /\ history.torn = history'.torn
    BY <1>2 DEF Request, OpenStream, Types, ThreadTypes, RaceNames
  <2>4. QED
    BY <2>1, <2>2, <2>3, FlowKept
<1>3. ASSUME NEW t \in {"req", "recv"}, SendStep(t) PROVE UnblockOK' /\ HeadWaits'
  <2>0. t \in Threads
    BY <1>3 DEF Threads
  <2>1. at'["recv"] \in {"drain", "unblock"} <=> at["recv"] \in {"drain", "unblock"}
    BY <1>0, <1>3, <2>0, SendMoves DEF Moves, SendPlaces
  <2>2. at["recv"] \in {"drain", "unblock"} => at'["recv"] = at["recv"]
    BY <1>0, <1>3, <2>0, SendMoves DEF Moves, SendPlaces
  <2>3. CASE Left(t) \/ Cut(t) \/ Offer(t) \/ Deny(t)
    <3>1. UNCHANGED <<blocked_send_frames, remote_window_size>>
      BY <2>3 DEF Left, Cut, Offer, Deny, flowVars
    <3>2. history.missed = history'.missed /\ history.torn = history'.torn
      BY <2>3 DEF Left, Cut, Offer, Deny, Types, ThreadTypes, RaceNames
    <3>3. QED
      BY <2>1, <2>2, <3>1, <3>2, FlowKept
  <2>4. CASE Block(t)
    <3>1. blocked_send_frames \in Seq(Frame) /\ hand[t] \in Frame
      BY <2>0 DEF Types, FlowTypes, ThreadTypes
    <3>2. blocked_send_frames' = Append(blocked_send_frames, hand[t])
          /\ remote_window_size' = remote_window_size
      BY <2>4 DEF Block
    <3>3. blocked_send_frames' # <<>>
      BY <3>1, <3>2
    <3>4. Head(blocked_send_frames') = IF blocked_send_frames = <<>> THEN hand[t] ELSE Head(blocked_send_frames)
      BY <3>1, <3>2
    <3>5. history'.missed = (history.missed \/ hand[t].len <= remote_window_size)
          /\ history'.torn = history.torn
      BY <2>4, Zenon DEF Block, Types, ThreadTypes, RaceNames
    <3>6. hand[t].len \in Int /\ remote_window_size \in Int
      BY <3>1 DEF Frame, Types, FlowTypes
    <3>7. /\ ~history'.missed => ~history.missed /\ ~(hand[t].len <= remote_window_size)
          /\ ~history'.torn => ~history.torn
      BY <3>5, Zenon
    <3>8. ~(hand[t].len <= remote_window_size) => hand[t].len > remote_window_size
      BY <3>6
    <3>9. QED
      BY <2>1, <3>2, <3>3, <3>4, <3>7, <3>8 DEF UnblockOK, HeadWaits
  <2>5. CASE Take(t)
    <3>1. blocked_send_frames' = blocked_send_frames /\ remote_window_size' = seen[t] - hand[t].len
      BY <2>5 DEF Take
    <3>2. history'.torn = (history.torn \/ seen[t] # remote_window_size) /\ history'.missed = history.missed
      BY <2>5, Zenon DEF Take, Wrote, Types, ThreadTypes, RaceNames
    <3>3. hand[t].len \in Int /\ hand[t].len >= 0 /\ remote_window_size \in Int
      BY <2>0, <2>5 DEF Take, Types, ThreadTypes, Frame, HandOK, FlowTypes
    <3>4. /\ ~history'.torn => ~history.torn /\ seen[t] = remote_window_size
          /\ ~history'.missed => ~history.missed
      BY <3>2, Zenon
    <3>5. HeadWaits'
      <4>1. SUFFICES ASSUME ~history'.missed, ~history'.torn, blocked_send_frames # <<>>,
                            at["recv"] \notin {"drain", "unblock"}
                     PROVE  Head(blocked_send_frames).len > remote_window_size'
        BY <2>1, <3>1 DEF HeadWaits
      <4>2. Head(blocked_send_frames).len > remote_window_size
        BY <3>4, <4>1 DEF HeadWaits
      <4>3. Head(blocked_send_frames).len \in Int
        <5>1. Head(blocked_send_frames) \in Frame
          BY <4>1 DEF Types, FlowTypes
        <5>2. QED
          BY <5>1 DEF Frame
      <4>4. remote_window_size' \in Int /\ remote_window_size' <= remote_window_size
        BY <3>1, <3>3, <3>4, <4>1
      <4>5. QED
        BY <3>3, <4>2, <4>3, <4>4
    <3>6. QED
      BY <2>1, <2>2, <3>1, <3>5 DEF UnblockOK
  <2>6. QED
    BY <1>3, <2>3, <2>4, <2>5 DEF SendStep
<1>4. CASE ReceiveStep
  <2>0. DOMAIN at = Threads
    BY DEF Types, ThreadTypes
  <2>1. CASE Drain
    <3>1. UNCHANGED <<blocked_send_frames, remote_window_size, history>>
      BY <2>1 DEF Drain, flowVars
    <3>2. CASE blocked_send_frames = <<>>
      <4>1. at'["recv"] # "unblock"
        BY <1>0, <2>0, <2>1, <3>2, GoMoves DEF Drain, Moves
      <4>2. QED
        BY <3>1, <3>2, <4>1 DEF UnblockOK, HeadWaits
    <3>3. CASE blocked_send_frames # <<>> /\ Head(blocked_send_frames).len > remote_window_size
      BY <3>1, <3>3 DEF UnblockOK, HeadWaits
    <3>4. CASE blocked_send_frames # <<>> /\ Go("recv", "unblock")
      <4>1. at'["recv"] = "unblock"
        BY <1>0, <2>0, <3>4, GoMoves DEF Moves
      <4>2. QED
        BY <3>1, <3>4, <4>1 DEF UnblockOK, HeadWaits
    <3>5. QED
      BY <2>1, <3>2, <3>3, <3>4 DEF Drain
  <2>2. CASE Unblock \/ ConnectionUpdate
    <3>1. Go("recv", "drain")
      BY <2>2 DEF Unblock, ConnectionUpdate
    <3>2. at'["recv"] = "drain"
      BY <1>0, <2>0, <3>1, GoMoves DEF Moves
    <3>3. QED
      BY <3>2 DEF UnblockOK, HeadWaits
  <2>3. CASE Reopen \/ StreamUpdate \/ Settings \/ SettingsEnd \/ Acknowledged \/ Respond \/ EndStream
    <3>1. UNCHANGED <<blocked_send_frames, remote_window_size>>
      BY <2>3 DEF Reopen, StreamUpdate, Settings, SettingsEnd, Acknowledged, Respond, EndStream, flowVars
    <3>2. history.missed = history'.missed /\ history.torn = history'.torn
      BY <2>3 DEF Reopen, StreamUpdate, Settings, SettingsEnd, Acknowledged, Respond, EndStream, Types, ThreadTypes, RaceNames
    <3>3. at["recv"] \notin {"drain", "unblock"}
      BY <2>3 DEF Reopen, StreamUpdate, Settings, SettingsEnd, Acknowledged, Respond, EndStream, Granting
    <3>4. PICK place : Go("recv", place) /\ place \notin {"drain", "unblock"}
      BY <1>0, <2>3, RestPlace DEF Reopen, StreamUpdate, Settings, SettingsEnd, Acknowledged, Respond, EndStream
    <3>5. at'["recv"] \notin {"drain", "unblock"}
      BY <1>0, <2>0, <3>4, GoMoves DEF Moves
    <3>6. QED
      BY <3>1, <3>2, <3>3, <3>5, FlowKept
  <2>4. QED
    BY <1>4, <2>1, <2>2, <2>3 DEF ReceiveStep
<1>5. ASSUME NEW t \in {"recv", "send"}, CloseStep(t) PROVE UnblockOK' /\ HeadWaits'
  <2>0. t \in Threads
    BY <1>5 DEF Threads
  <2>1. at'["recv"] \in {"drain", "unblock"} <=> at["recv"] \in {"drain", "unblock"}
    BY <1>0, <1>5, <2>0, CloseMoves DEF Moves
  <2>2. at["recv"] \in {"drain", "unblock"} => at'["recv"] = at["recv"]
    BY <1>0, <1>5, <2>0, CloseMoves DEF Moves
  <2>3. UNCHANGED <<blocked_send_frames, remote_window_size>>
    BY <1>5 DEF CloseStep, CloseBegins, HandBack, Down, flowVars
  <2>4. history.missed = history'.missed /\ history.torn = history'.torn
    BY <1>5 DEF CloseStep, CloseBegins, HandBack, Down, Types, ThreadTypes, RaceNames
  <2>5. QED
    BY <2>1, <2>2, <2>3, <2>4, FlowKept
<1>6. QED
  BY <1>1, <1>2, <1>3, <1>4, <1>5 DEF Next

\* The types and the blocked frames, as an invariant.
LEMMA InvariantOfFlow == Spec => []FlowInv
<1>1. Init => FlowInv
  <2> SUFFICES ASSUME Init PROVE FlowInv
    OBVIOUS
  <2>1. blocked_send_frames = <<>> /\ at["recv"] # "unblock"
    BY RestPlace DEF Init, Threads
  <2>2. QED
    BY <2>1, InitTypes DEF FlowInv, UnblockOK, HeadWaits
<1>2. FlowInv /\ [Next]_vars => FlowInv'
  BY StepTypes, FlowStep DEF FlowInv
<1>3. QED
  BY <1>1, <1>2, PTL DEF Spec

\* A frame does not stay blocked when the connection's window has room for it, for any
\* number of streams, windows and frames (_send_cb and increase_remote_window_size).
THEOREM NoneForgotten == Spec => []NoBlockedForgotten
<1>1. FlowInv => NoBlockedForgotten
  BY DEF FlowInv, HeadWaits, NoBlockedForgotten, Resting, Threads
<1>2. QED
  BY <1>1, InvariantOfFlow, PTL

------------------------------------------------------------------------------
(* The body of a request.                                                     *)

Sends(t, s) == at[t] \in SendPlaces /\ hand[t].stream = s

\* A body that is taken for complete has nothing left.
BodySpent == \A s \in StreamIds \ history.shrunk : body_sended[s] => request_body_left[s] <= 0

\* A body that has something left and room in its window is in the hands of a thread.
BodyTended ==
    \A s \in streams \ (history.raised \cup history.shrunk) :
        request_body_left[s] > 0 /\ stream_window[s] > 0 => \E t \in Threads : Sends(t, s)

\* The exceptions stay exceptions.
RacesStay ==
    /\ history.raised \subseteq history'.raised /\ history.shrunk \subseteq history'.shrunk
    /\ history.doubled \subseteq history'.doubled

\* Who sends from a body goes on with it.
SendersStay == \A t \in Threads, s \in StreamIds : Sends(t, s) => Sends(t, s)'

LEMMA RacesGrow == Types /\ [Next]_vars => RacesStay
<1> SUFFICES ASSUME Types, [Next]_vars PROVE RacesStay
  OBVIOUS
<1> USE DEF Types, ThreadTypes, RaceNames, RacesStay
<1>1. CASE UNCHANGED vars
  BY <1>1 DEF vars
<1>2. CASE Request \/ OpenStream
  BY <1>2 DEF Request, OpenStream
<1>3. ASSUME NEW t \in {"req", "recv"}, SendStep(t) PROVE RacesStay
  <2>1. CASE Cut(t)
    BY <2>1 DEF Cut
  <2>2. CASE Left(t) \/ Offer(t) \/ Block(t) \/ Deny(t) \/ Take(t)
    BY <2>2 DEF Left, Offer, Block, Deny, Take, Wrote
  <2>3. QED
    BY <1>3, <2>1, <2>2 DEF SendStep
<1>4. CASE ReceiveStep
  <2>1. CASE Settings
    <3>1. history' = [history EXCEPT !.raised = @ \cup streams] \/ history' = history
      BY <2>1 DEF Settings
    <3>2. QED
      BY <3>1
  <2>2. CASE Drain \/ Unblock
    BY <2>2 DEF Drain, Unblock, Wrote
  <2>3. CASE ~Settings /\ ~Drain /\ ~Unblock
    BY <1>4, <2>3 DEF ReceiveStep, Reopen, ConnectionUpdate, StreamUpdate, SettingsEnd, Acknowledged,
       Respond, EndStream
  <2>4. QED
    BY <2>1, <2>2, <2>3
<1>5. ASSUME NEW t \in {"recv", "send"}, CloseStep(t) PROVE RacesStay
  BY <1>5 DEF CloseStep, CloseBegins, HandBack, Down
<1>6. QED
  BY <1>1, <1>2, <1>3, <1>4, <1>5 DEF Next

\* A step that takes nothing from a body and widens no window.
LEMMA BodyKept ==
    ASSUME Types, BodySpent, BodyTended, RacesStay, SendersStay,
           UNCHANGED <<request_body_left, body_sended>>, streams' \subseteq streams,
           stream_window' \in [StreamIds -> Int],
           \A s \in streams' : s \notin history'.raised => stream_window'[s] <= stream_window[s]
    PROVE  BodySpent' /\ BodyTended'
<1>1. BodySpent'
  BY DEF BodySpent, RacesStay
<1>2. BodyTended'
  <2>1. SUFFICES ASSUME NEW s \in streams', s \notin history'.raised, s \notin history'.shrunk,
                        request_body_left[s] > 0, stream_window'[s] > 0
                 PROVE  \E t \in Threads : Sends(t, s)'
    BY DEF BodyTended
  <2>2. s \in streams /\ s \in StreamIds /\ s \notin history.raised \cup history.shrunk
    BY <2>1 DEF RacesStay, Types, StreamTypes
  <2>3. stream_window[s] > 0
    BY <2>1, <2>2 DEF Types, BodyTypes
  <2>4. PICK t \in Threads : Sends(t, s)
    BY <2>1, <2>2, <2>3 DEF BodyTended
  <2>5. QED
    BY <2>2, <2>4 DEF SendersStay
<1>3. QED
  BY <1>1, <1>2

\* The hands are kept, and the thread that moves sends on or has not been sending.
LEMMA SendersKept ==
    ASSUME NEW t \in Threads, NEW place, Moves(t, place), hand' = hand,
           at[t] \notin SendPlaces \/ place \in SendPlaces
    PROVE  SendersStay
BY DEF SendersStay, Sends, Moves

LEMMA LeftBody ==
    ASSUME Types, BodySpent, BodyTended, RacesStay, NEW t \in Threads, Left(t)
    PROVE  BodySpent' /\ BodyTended'
<1> DEFINE s == hand[t].stream
<1>1. s \in StreamIds /\ DOMAIN at = Threads /\ at[t] \in SendPlaces
  BY DEF Left, HandOK, SendPlaces, Types, ThreadTypes
<1>2. UNCHANGED <<request_body_left, stream_window, streams, history>>
  BY DEF Left, taskVars
<1>3. PICK isDone \in BOOLEAN :
          /\ isDone = (body_sended[s] \/ (hand[t].kind \in {"data", "last"} /\ request_body_left[s] = 0))
          /\ body_sended' = [body_sended EXCEPT ![s] = isDone]
          /\ \/ (stream_window[s] = 0 \/ isDone) /\ Go(t, Rest(t)) /\ hand' = [hand EXCEPT ![t] = NoFrame]
             \/ Go(t, "cut") /\ hand' =
                    [hand EXCEPT ![t] = [stream |-> s, from |-> 0, kind |-> "data",
                                         len |-> Least({stream_window[s], request_body_left[s], MaxFrame})]]
  BY Zenon DEF Left
<1>4. isDone /\ s \notin history.shrunk => request_body_left[s] <= 0
  <2>1. isDone => body_sended[s] \/ request_body_left[s] = 0
    BY <1>3, Zenon
  <2>2. QED
    BY <1>1, <2>1 DEF BodySpent
<1>5. \A x \in StreamIds : body_sended'[x] => (x = s /\ isDone) \/ (x # s /\ body_sended[x])
  BY <1>1, <1>3, Zenon DEF Types, BodyTypes
<1>6. BodySpent'
  <2> HIDE DEF s
  <2>1. QED
    BY <1>2, <1>4, <1>5 DEF BodySpent
<1>7. \A u \in Threads, x \in StreamIds : u # t /\ Sends(u, x) => Sends(u, x)'
  <2>1. \A u \in Threads : u # t => at'[u] = at[u] /\ hand'[u] = hand[u]
    BY <1>1, <1>3 DEF Go, Types, ThreadTypes
  <2>2. QED
    BY <2>1 DEF Sends
<1>8. CASE Go(t, "cut") /\ hand' =
              [hand EXCEPT ![t] = [stream |-> s, from |-> 0, kind |-> "data",
                                   len |-> Least({stream_window[s], request_body_left[s], MaxFrame})]]
  <2>1. at'[t] = "cut" /\ hand'[t].stream = s
    BY <1>1, <1>8 DEF Go, Types, ThreadTypes
  <2>2. SendersStay
    BY <1>7, <2>1 DEF SendersStay, Sends, SendPlaces
  <2>3. \A x \in streams : x \in StreamIds
    BY DEF Types, StreamTypes
  <2> HIDE DEF s
  <2>4. BodyTended'
    BY <1>2, <2>2, <2>3 DEF BodyTended, SendersStay
  <2>5. QED
    BY <1>6, <2>4
<1>9. CASE stream_window[s] = 0 \/ isDone
  <2>1. SUFFICES ASSUME NEW x \in streams, x \notin history.raised, x \notin history.shrunk,
                        request_body_left[x] > 0, stream_window[x] > 0
                 PROVE  \E u \in Threads : Sends(u, x)'
    BY <1>2, <1>6 DEF BodyTended
  <2>2. PICK u \in Threads : Sends(u, x)
    BY <2>1 DEF BodyTended
  <2>3. x \in StreamIds /\ request_body_left[x] \in Int /\ stream_window[x] \in Int
    BY <2>1 DEF Types, StreamTypes, BodyTypes
  <2>4. x # s
    <3> HIDE DEF s
    <3>1. QED
      BY <1>4, <1>9, <2>1, <2>3
  <2>5. u # t
    BY <2>2, <2>4 DEF Sends
  <2>6. QED
    BY <1>7, <2>2, <2>3, <2>5
<1>10. QED
  BY <1>3, <1>8, <1>9

LEMMA CutBody ==
    ASSUME Types, BodySpent, BodyTended, RacesStay, NEW t \in Threads, Cut(t)
    PROVE  BodySpent' /\ BodyTended'
<1> DEFINE s == hand[t].stream
           size == hand[t].len
           from == BodyLen - request_body_left[s]
<1>1. s \in StreamIds /\ DOMAIN at = Threads /\ at[t] \in SendPlaces /\ size \in Int
  BY DEF Cut, HandOK, SendPlaces, Types, ThreadTypes, Frame
<1>2. /\ Go(t, "offer") /\ UNCHANGED <<streams, body_sended>>
      /\ stream_window' = [stream_window EXCEPT ![s] = @ - size]
      /\ request_body_left' = [request_body_left EXCEPT ![s] = @ - size]
      /\ \E kind : hand' = [hand EXCEPT ![t] = [stream |-> s, from |-> Index(from),
                                                len |-> SliceLen(from, size), kind |-> kind]]
  BY DEF Cut, taskVars
<1>3. size < 0 => s \in history'.shrunk
  BY DEF Cut, Types, ThreadTypes, RaceNames
<1>4. SendersStay
  <2>1. \A u \in Threads : u # t => at'[u] = at[u] /\ hand'[u] = hand[u]
    BY <1>1, <1>2 DEF Go, Types, ThreadTypes
  <2>2. at'[t] = "offer" /\ hand'[t].stream = s
    <3> HIDE DEF size, from
    <3>1. QED
      BY <1>1, <1>2 DEF Go, Types, ThreadTypes
  <2>3. QED
    BY <2>1, <2>2 DEF SendersStay, Sends, SendPlaces
<1>5. Sends(t, s)
  BY <1>1 DEF Sends
<1> HIDE DEF s, size, from
<1>6. BodySpent'
  <2>1. SUFFICES ASSUME NEW x \in StreamIds, x \notin history'.shrunk, body_sended[x]
                 PROVE  request_body_left'[x] <= 0
    BY <1>2 DEF BodySpent
  <2>2. request_body_left[x] <= 0 /\ request_body_left[x] \in Int
    BY <2>1 DEF BodySpent, RacesStay, Types, BodyTypes
  <2>3. request_body_left'[x] = IF x = s THEN request_body_left[x] - size ELSE request_body_left[x]
    BY <1>1, <1>2, <2>1 DEF Types, BodyTypes
  <2>4. x = s => size >= 0
    BY <1>1, <1>3, <2>1
  <2>5. QED
    BY <1>1, <2>2, <2>3, <2>4
<1>7. BodyTended'
  <2>1. SUFFICES ASSUME NEW x \in streams, x \notin history'.raised, x \notin history'.shrunk,
                        request_body_left'[x] > 0, stream_window'[x] > 0
                 PROVE  \E u \in Threads : Sends(u, x)'
    BY <1>2 DEF BodyTended
  <2>2. x \in StreamIds
    BY DEF Types, StreamTypes
  <2>3. CASE x = s
    BY <1>4, <1>5, <2>2, <2>3 DEF SendersStay
  <2>4. CASE x # s
    <3>1. request_body_left'[x] = request_body_left[x] /\ stream_window'[x] = stream_window[x]
      BY <1>1, <1>2, <2>2, <2>4 DEF Types, BodyTypes
    <3>2. PICK u \in Threads : Sends(u, x)
      BY <2>1, <3>1 DEF BodyTended, RacesStay
    <3>3. QED
      BY <1>4, <2>2, <3>2 DEF SendersStay
  <2>5. QED
    BY <2>3, <2>4
<1>8. QED
  BY <1>6, <1>7

LEMMA SendBody ==
    ASSUME Types, BodySpent, BodyTended, RacesStay, NEW t \in Threads, SendStep(t)
    PROVE  BodySpent' /\ BodyTended'
<1>1. CASE Offer(t) \/ Block(t) \/ Deny(t) \/ Take(t)
  <2>1. DOMAIN at = Threads /\ hand' = hand
    BY <1>1 DEF Types, ThreadTypes, Offer, Block, Deny, Take
  <2>2. PICK place \in SendPlaces : Go(t, place)
    BY <1>1 DEF Offer, Block, Deny, Take, SendPlaces
  <2>3. SendersStay
    BY <2>1, <2>2, GoMoves, SendersKept
  <2>4. UNCHANGED <<request_body_left, body_sended, stream_window, streams>>
    BY <1>1 DEF Offer, Block, Deny, Take, bodyVars, taskVars
  <2>5. stream_window \in [StreamIds -> Int] /\ \A s \in streams : stream_window[s] <= stream_window[s]
    BY DEF Types, BodyTypes, StreamTypes
  <2>6. QED
    BY <2>3, <2>4, <2>5, BodyKept
<1>2. QED
  BY <1>1, LeftBody, CutBody DEF SendStep

LEMMA RequestBody ==
    ASSUME Types, BodySpent, BodyTended, RacesStay, Request \/ OpenStream
    PROVE  BodySpent' /\ BodyTended'
<1>0. DOMAIN at = Threads /\ "req" \in Threads
  BY DEF Types, ThreadTypes, Threads
<1>1. PICK place \in {"open", "offer"} : Moves("req", place)
  BY RequestMoves
<1>2. at["req"] \notin SendPlaces
  BY DEF Request, OpenStream, SendPlaces
<1>3. CASE Request
  <2>1. SendersStay
    BY <1>0, <1>1, <1>2, <1>3, SendersKept DEF Request
  <2>2. UNCHANGED <<request_body_left, body_sended, stream_window, streams>>
    BY <1>3 DEF Request, bodyVars, taskVars
  <2>3. stream_window \in [StreamIds -> Int] /\ \A s \in streams : stream_window[s] <= stream_window[s]
    BY DEF Types, BodyTypes, StreamTypes
  <2>4. QED
    BY <2>1, <2>2, <2>3, BodyKept
<1>4. CASE OpenStream
  <2>0. PICK s \in StreamIds : s = next_stream
    BY <1>4 DEF OpenStream
  <2>1. /\ UNCHANGED <<request_body_left, body_sended>> /\ streams' = streams \cup {s}
        /\ Go("req", "offer")
        /\ stream_window' = [stream_window EXCEPT ![s] = initial_window]
        /\ hand' = [hand EXCEPT !["req"] =
                       [stream |-> s, from |-> 0, len |-> HeadLen, kind |-> "head"]]
    BY <1>4, <2>0 DEF OpenStream
  <2>2. BodySpent'
    BY <2>1 DEF BodySpent, RacesStay
  <2>3. \A u \in Threads : u # "req" => at'[u] = at[u] /\ hand'[u] = hand[u]
    BY <1>0, <2>1 DEF Go, Types, ThreadTypes
  <2>4. SendersStay
    BY <1>2, <2>3 DEF SendersStay, Sends
  <2>5. Sends("req", s)'
    BY <1>0, <2>1 DEF Sends, SendPlaces, Go, Types, ThreadTypes
  <2>6. BodyTended'
    <3>1. SUFFICES ASSUME NEW x \in streams', x \notin history'.raised, x \notin history'.shrunk,
                          request_body_left[x] > 0, stream_window'[x] > 0
                   PROVE  \E u \in Threads : Sends(u, x)'
      BY <2>1 DEF BodyTended
    <3>2. CASE x = s
      BY <1>0, <2>5, <3>2
    <3>3. CASE x # s
      <4>1. x \in streams /\ x \in StreamIds
        BY <2>1, <3>3 DEF Types, StreamTypes
      <4>2. stream_window'[x] = stream_window[x]
        BY <2>1, <3>3, <4>1 DEF Types, BodyTypes
      <4>3. PICK u \in Threads : Sends(u, x)
        BY <3>1, <4>1, <4>2 DEF BodyTended, RacesStay
      <4>4. QED
        BY <2>4, <4>1, <4>3 DEF SendersStay
    <3>4. QED
      BY <3>2, <3>3
  <2>7. QED
    BY <2>2, <2>6
<1>5. QED
  BY <1>3, <1>4

LEMMA ReceiveBody ==
    ASSUME Types, BodySpent, BodyTended, RacesStay, ReceiveStep
    PROVE  BodySpent' /\ BodyTended'
<1>0. DOMAIN at = Threads /\ "recv" \in Threads /\ streams \subseteq StreamIds
  BY DEF Types, ThreadTypes, StreamTypes, Threads
<1>1. PICK place : Moves("recv", place)
  BY ReceiveMoves
<1>2. at["recv"] \notin SendPlaces
  BY ReceiveMoves
<1>3. CASE StreamUpdate
  <2>1. PICK s \in streams : /\ stream_window' = [stream_window EXCEPT ![s] = @ + Grant]
                             /\ hand' = [hand EXCEPT !["recv"] = [NoFrame EXCEPT !.stream = s]]
    BY <1>3 DEF StreamUpdate
  <2>2. UNCHANGED <<request_body_left, body_sended, streams>> /\ Go("recv", "left")
    BY <1>3 DEF StreamUpdate, taskVars
  <2>3. \A u \in Threads : u # "recv" => at'[u] = at[u] /\ hand'[u] = hand[u]
    BY <1>0, <2>1, <2>2 DEF Go, Types, ThreadTypes
  <2>4. SendersStay
    BY <1>2, <2>3 DEF SendersStay, Sends
  <2>5. [NoFrame EXCEPT !.stream = s] = [stream |-> s, from |-> 0, len |-> 0, kind |-> "none"]
    BY DEF NoFrame
  <2>6. Sends("recv", s)'
    BY <1>0, <2>1, <2>2, <2>5 DEF Sends, SendPlaces, Go, Types, ThreadTypes
  <2>7. BodySpent'
    BY <2>2 DEF BodySpent, RacesStay
  <2>8. BodyTended'
    <3>1. SUFFICES ASSUME NEW x \in streams, x \notin history'.raised, x \notin history'.shrunk,
                          request_body_left[x] > 0, stream_window'[x] > 0
                   PROVE  \E u \in Threads : Sends(u, x)'
      BY <2>2 DEF BodyTended
    <3>2. CASE x = s
      BY <1>0, <2>6, <3>2
    <3>3. CASE x # s
      <4>1. x \in StreamIds /\ stream_window'[x] = stream_window[x]
        BY <1>0, <2>1, <3>3 DEF Types, BodyTypes
      <4>2. PICK u \in Threads : Sends(u, x)
        BY <3>1, <4>1 DEF BodyTended, RacesStay
      <4>3. QED
        BY <2>4, <4>1, <4>2 DEF SendersStay
    <3>4. QED
      BY <3>2, <3>3
  <2>9. QED
    BY <2>7, <2>8
<1>4. CASE ~StreamUpdate
  <2>1. hand' = hand /\ UNCHANGED <<request_body_left, body_sended>> /\ streams' \subseteq streams
    BY <1>4 DEF ReceiveStep, Drain, Unblock, Reopen, ConnectionUpdate, Settings,
       SettingsEnd, Acknowledged, Respond, EndStream, bodyVars, taskVars
  <2>2. SendersStay
    BY <1>0, <1>1, <1>2, <2>1, SendersKept
  <2>3. /\ stream_window' \in [StreamIds -> Int]
        /\ \A s \in streams' : s \notin history'.raised => stream_window'[s] <= stream_window[s]
    <3>1. CASE Settings
      <4>1. PICK size \in Windows :
                /\ stream_window' = [s \in StreamIds |->
                       IF s \in streams THEN stream_window[s] + (size - initial_window) ELSE stream_window[s]]
                /\ history' = IF size - initial_window > 0
                              THEN [history EXCEPT !.raised = @ \cup streams] ELSE history
        BY <3>1 DEF Settings
      <4>2. size \in Int /\ initial_window \in Int /\ stream_window \in [StreamIds -> Int]
        BY Http2Assumption DEF Types, BodyTypes
      <4>3. size - initial_window > 0 => streams \subseteq history'.raised
        BY <4>1 DEF Types, ThreadTypes, RaceNames
      <4>4. \A s \in StreamIds : stream_window'[s] \in Int
                /\ (size - initial_window <= 0 => stream_window'[s] <= stream_window[s])
        BY <4>1, <4>2
      <4>5. stream_window' \in [StreamIds -> Int]
        BY <4>1, <4>2
      <4>6. QED
        BY <1>0, <2>1, <4>2, <4>3, <4>4, <4>5
    <3>2. CASE ~Settings
      <4>1. stream_window' = stream_window
        BY <1>4, <3>2 DEF ReceiveStep, Drain, Unblock, Reopen, ConnectionUpdate,
           SettingsEnd, Acknowledged, Respond, EndStream, bodyVars
      <4>2. QED
        BY <1>0, <2>1, <4>1 DEF Types, BodyTypes
    <3>3. QED
      BY <3>1, <3>2
  <2>4. QED
    BY <2>1, <2>2, <2>3, BodyKept
<1>5. QED
  BY <1>3, <1>4

LEMMA CloseBody ==
    ASSUME Types, BodySpent, BodyTended, RacesStay, NEW t \in Threads, CloseStep(t)
    PROVE  BodySpent' /\ BodyTended'
<1>1. hand' = hand /\ UNCHANGED <<request_body_left, body_sended, stream_window>> /\ streams' \subseteq streams
  BY DEF CloseStep, CloseBegins, HandBack, Down, bodyVars, taskVars
<1>2. at[t] \notin SendPlaces
  BY CloseMoves DEF SendPlaces
<1>3. SendersStay
  BY <1>1, <1>2, CloseMoves, SendersKept
<1>4. stream_window \in [StreamIds -> Int] /\ \A s \in streams' : stream_window[s] <= stream_window[s]
  BY <1>1 DEF Types, BodyTypes, StreamTypes
<1>5. QED
  BY <1>1, <1>3, <1>4, BodyKept

\* A body goes on while its stream's window has room, for any body and any windows
\* (send_left_body and the two threads that call it).
THEOREM BodyContinues == Spec => []BodyGoesOn
<1>1. Init => BodySpent /\ BodyTended
  BY Http2Assumption DEF Init, BodySpent, BodyTended, StreamIds
<1>2. Types /\ BodySpent /\ BodyTended /\ [Next]_vars => (BodySpent /\ BodyTended)'
  <2> SUFFICES ASSUME Types, BodySpent, BodyTended, [Next]_vars PROVE BodySpent' /\ BodyTended'
    OBVIOUS
  <2>0. RacesStay
    BY RacesGrow
  <2>1. CASE UNCHANGED vars
    BY <2>1 DEF vars, bodyVars, taskVars, BodySpent, BodyTended, Sends
  <2>2. ASSUME NEW t \in {"req", "recv"}, SendStep(t) PROVE BodySpent' /\ BodyTended'
    BY <2>0, <2>2, SendBody DEF Threads
  <2>3. ASSUME NEW t \in {"recv", "send"}, CloseStep(t) PROVE BodySpent' /\ BodyTended'
    BY <2>0, <2>3, CloseBody DEF Threads
  <2>4. QED
    BY <2>0, <2>1, <2>2, <2>3, RequestBody, ReceiveBody DEF Next
<1>3. Types /\ BodyTended => BodyGoesOn
  <2> SUFFICES ASSUME Types, BodyTended, Resting, NEW s \in streams \ (history.raised \cup history.shrunk),
                      request_body_left[s] > 0
               PROVE  stream_window[s] <= 0
    BY DEF BodyGoesOn
  <2>1. \A t \in Threads : ~Sends(t, s)
    BY DEF Resting, Sends, SendPlaces
  <2>2. stream_window[s] \in Int
    BY DEF Types, StreamTypes, BodyTypes
  <2>3. QED
    BY <2>1, <2>2 DEF BodyTended
<1>4. FlowInv => Types
  BY DEF FlowInv
<1>5. QED
  BY <1>1, <1>2, <1>3, <1>4, InvariantOfFlow, PTL DEF Spec

------------------------------------------------------------------------------
(* The tasks of a worker that closes.                                         *)

Handled(s) == retries[s] > 0 \/ task[s] \in {"finished", "expired"}

TimesBack(s) == retries[s] + (IF task[s] = "expired" THEN 1 ELSE 0)

\* Streams that are not made yet are nowhere.
NotYet ==
    /\ streams \subseteq 1 .. next_stream - 1 /\ \A t \in Threads : snapshot[t] \subseteq 1 .. next_stream - 1
    /\ \A s \in StreamIds : s >= next_stream => retries[s] = 0 /\ task[s] = "none"

\* A task that is not handled yet is in the list, in that of every thread that closes,
\* and the worker runs.
NoneLost ==
    /\ \A s \in 1 .. next_stream - 1 : s \notin history.late => s \in streams \/ Handled(s)
    /\ \A t \in Threads : at[t] = "hand_back" =>
           \A s \in streams \ history.late : s \in snapshot[t] \/ Handled(s)
    /\ ~keep_running => \A s \in streams \ history.late : Handled(s)

\* While one thread at a time closes, who is in its list has not been given back.
OneCloses == \A t, u \in Threads : at[t] = "hand_back" /\ at[u] = "hand_back" => t = u

BackOnce ==
    /\ OneCloses
    /\ \A s \in StreamIds : TimesBack(s) <= 1
    /\ \A s \in streams : TimesBack(s) > 0 => \E t \in Threads : at[t] = "hand_back" /\ s \notin snapshot[t]
    /\ \A t \in Threads : at[t] = "hand_back" => \A s \in snapshot[t] : TimesBack(s) = 0

OnlyOnce == ~history.twoClose => BackOnce

TaskInv == NotYet /\ NoneLost /\ OnlyOnce

SameClosers == \A t \in Threads : at'[t] = "hand_back" <=> at[t] = "hand_back"

\* A step that touches no task and no close.
LEMMA TasksKept ==
    ASSUME TaskInv, SameClosers, UNCHANGED <<taskVars, keep_running, snapshot>>,
           history.late = history'.late, history.twoClose = history'.twoClose
    PROVE  TaskInv'
<1>1. NotYet'
  BY DEF TaskInv, NotYet, taskVars
<1>2. NoneLost'
  BY DEF TaskInv, NoneLost, Handled, taskVars, SameClosers
<1>3. OnlyOnce'
  BY DEF TaskInv, OnlyOnce, BackOnce, OneCloses, TimesBack, taskVars, SameClosers
<1>4. QED
  BY <1>1, <1>2, <1>3 DEF TaskInv

LEMMA SendTasks ==
    ASSUME Types, TaskInv, NEW t \in Threads, SendStep(t)
    PROVE  TaskInv'
<1>1. SameClosers
  BY SendMoves DEF SameClosers, Moves, SendPlaces
<1>2. UNCHANGED <<taskVars, keep_running, snapshot>>
  BY DEF SendStep, Left, Cut, Offer, Block, Deny, Take, stateVars
<1>3. history.late = history'.late /\ history.twoClose = history'.twoClose
  BY DEF SendStep, Left, Cut, Offer, Block, Deny, Take, Wrote, Types, ThreadTypes, RaceNames
<1>4. QED
  BY <1>1, <1>2, <1>3, TasksKept

LEMMA RequestTasks ==
    ASSUME Types, TaskInv, Request \/ OpenStream
    PROVE  TaskInv'
<1>1. SameClosers
  BY RequestMoves DEF SameClosers, Moves, Threads
<1>2. CASE Request
  BY <1>1, <1>2, TasksKept DEF Request
<1>3. CASE OpenStream
  <2>1. PICK s \in StreamIds : s = next_stream
    BY <1>3 DEF OpenStream
  <2>2. /\ next_stream' = s + 1 /\ streams' = streams \cup {s} /\ task' = [task EXCEPT ![s] = "held"]
        /\ UNCHANGED <<retries, keep_running, snapshot>>
    BY <1>3, <2>1 DEF OpenStream, stateVars
  <2>3. /\ history'.twoClose = history.twoClose /\ history.late \subseteq history'.late
        /\ (~keep_running \/ \E t \in Threads : at[t] = "hand_back") => s \in history'.late
    BY <1>3, <2>1 DEF OpenStream, Types, ThreadTypes, RaceNames
  <2>4. /\ task \in [StreamIds -> {"none", "held", "responsed", "finished", "expired"}]
        /\ retries \in [StreamIds -> Nat] /\ s \in Nat /\ next_stream \in Nat
    BY Http2Assumption DEF Types, StreamTypes, StreamIds
  <2>5. retries[s] = 0 /\ task'[s] = "held" /\ \A x \in StreamIds \ {s} : task'[x] = task[x]
    BY <2>1, <2>2, <2>4 DEF TaskInv, NotYet
  <2>6. NotYet'
    BY <2>1, <2>2, <2>4, <2>5 DEF TaskInv, NotYet, StreamIds
  <2>7. s \notin streams /\ \A t \in Threads : s \notin snapshot[t]
    BY <2>1, <2>4 DEF TaskInv, NotYet
  <2>8. \A x \in StreamIds : TimesBack(x)' <= TimesBack(x)
    BY <2>2, <2>4, <2>5 DEF TimesBack
  <2>9. NoneLost'
    <3>1. \A x \in StreamIds \ {s} : Handled(x) => Handled(x)'
      BY <2>2, <2>5 DEF Handled
    <3>2. streams \subseteq StreamIds
      BY DEF Types, StreamTypes
    <3>3. \A x \in streams : x \in StreamIds \ {s}
      BY <2>7, <3>2
    <3>4. \A x \in 1 .. next_stream' - 1 : x = s \/ (x \in 1 .. next_stream - 1 /\ x \in StreamIds \ {s})
      BY <2>1, <2>2, <2>4, Http2Assumption DEF StreamIds
    <3>5. \A x \in 1 .. next_stream' - 1 : x \notin history'.late => x \in streams' \/ Handled(x)'
      BY <2>2, <2>3, <3>1, <3>4 DEF TaskInv, NoneLost
    <3>6. \A t \in Threads : at'[t] = "hand_back" =>
              \A x \in streams' \ history'.late : x \in snapshot'[t] \/ Handled(x)'
      BY <1>1, <2>2, <2>3, <3>1, <3>3 DEF TaskInv, NoneLost, SameClosers
    <3>7. ~keep_running' => \A x \in streams' \ history'.late : Handled(x)'
      BY <2>2, <2>3, <3>1, <3>3 DEF TaskInv, NoneLost
    <3>8. QED
      BY <3>5, <3>6, <3>7 DEF NoneLost
  <2>10. OnlyOnce'
    <3>1. SUFFICES ASSUME BackOnce PROVE BackOnce'
      BY <2>3 DEF TaskInv, OnlyOnce
    <3>2. \A x \in StreamIds : TimesBack(x) \in Nat /\ TimesBack(x)' \in Nat
      BY <2>2, <2>4, <2>5 DEF TimesBack
    <3>3. TimesBack(s)' = 0
      BY <2>2, <2>5 DEF TimesBack
    <3>4. OneCloses'
      BY <1>1, <3>1 DEF BackOnce, OneCloses, SameClosers
    <3>5. \A x \in StreamIds : TimesBack(x)' <= 1
      BY <2>8, <3>1, <3>2 DEF BackOnce
    <3>6. \A x \in streams' : TimesBack(x)' > 0 => \E t \in Threads : at'[t] = "hand_back" /\ x \notin snapshot'[t]
      <4>1. SUFFICES ASSUME NEW x \in streams, TimesBack(x)' > 0
                     PROVE  \E t \in Threads : at'[t] = "hand_back" /\ x \notin snapshot'[t]
        BY <2>2, <3>3
      <4>2. x \in StreamIds
        BY DEF Types, StreamTypes
      <4>3. TimesBack(x) > 0
        BY <2>8, <3>2, <4>1, <4>2
      <4>4. QED
        BY <1>1, <2>2, <3>1, <4>3 DEF BackOnce, SameClosers
    <3>7. \A t \in Threads : at'[t] = "hand_back" => \A x \in snapshot'[t] : TimesBack(x)' = 0
      <4>1. SUFFICES ASSUME NEW t \in Threads, at[t] = "hand_back", NEW x \in snapshot[t]
                     PROVE  TimesBack(x)' = 0
        BY <1>1, <2>2 DEF SameClosers
      <4>2. x \in StreamIds
        BY DEF Types, ThreadTypes
      <4>3. TimesBack(x) = 0
        BY <3>1, <4>1 DEF BackOnce
      <4>4. QED
        BY <2>8, <3>2, <4>2, <4>3
    <3>8. QED
      BY <3>4, <3>5, <3>6, <3>7 DEF BackOnce
  <2>11. QED
    BY <2>6, <2>9, <2>10 DEF TaskInv
<1>4. QED
  BY <1>2, <1>3

LEMMA ReceiveTasks ==
    ASSUME Types, TaskInv, ReceiveStep
    PROVE  TaskInv'
<1>1. SameClosers
  BY ReceiveMoves DEF SameClosers, Moves
<1>2. history.late = history'.late /\ history.twoClose = history'.twoClose
  <2>1. CASE Settings
    <3>1. history' = [history EXCEPT !.raised = @ \cup streams] \/ history' = history
      BY <2>1 DEF Settings
    <3>2. QED
      BY <3>1 DEF Types, ThreadTypes, RaceNames
  <2>2. CASE ~Settings
    BY <2>2 DEF ReceiveStep, Drain, Unblock, Reopen, ConnectionUpdate, StreamUpdate, SettingsEnd,
       Acknowledged, Respond, EndStream, Wrote, Types, ThreadTypes, RaceNames
  <2>3. QED
    BY <2>1, <2>2
<1>3. CASE Respond \/ EndStream
  <2>1. PICK s \in streams, outcome \in {"responsed", "finished"} :
            /\ task' = [task EXCEPT ![s] = outcome] /\ UNCHANGED <<retries, next_stream, keep_running, snapshot>>
            /\ streams' = IF outcome = "finished" THEN streams \ {s} ELSE streams
            /\ task[s] \notin {"finished", "expired"}
    BY <1>3 DEF Respond, EndStream, stateVars
  <2>2. /\ task \in [StreamIds -> {"none", "held", "responsed", "finished", "expired"}]
        /\ retries \in [StreamIds -> Nat] /\ s \in StreamIds /\ streams \subseteq StreamIds
    BY DEF Types, StreamTypes
  <2>3. \A x \in StreamIds : /\ Handled(x) => Handled(x)'
                             /\ x = s /\ outcome = "finished" => Handled(x)'
                             /\ TimesBack(x)' = TimesBack(x)
    BY <2>1, <2>2 DEF Handled, TimesBack
  <2>4. NotYet'
    <3>1. s \in 1 .. next_stream - 1 /\ next_stream \in Int
      BY <2>1 DEF TaskInv, NotYet, Types, StreamTypes
    <3>2. \A x \in StreamIds : x >= next_stream => x # s
      BY <3>1
    <3>3. QED
      BY <2>1, <2>2, <3>2 DEF TaskInv, NotYet
  <2>5. 1 .. next_stream - 1 \subseteq StreamIds
    BY Http2Assumption DEF Types, StreamTypes, StreamIds
  <2>6. \A x \in streams : x \notin streams' => Handled(x)'
    BY <2>1, <2>2, <2>3
  <2>7. NoneLost'
    <3>1. streams' \subseteq streams
      BY <2>1
    <3>2. \A x \in 1 .. next_stream' - 1 : x \notin history'.late => x \in streams' \/ Handled(x)'
      BY <1>2, <2>1, <2>3, <2>5, <2>6 DEF TaskInv, NoneLost
    <3>3. \A t \in Threads : at'[t] = "hand_back" =>
              \A x \in streams' \ history'.late : x \in snapshot'[t] \/ Handled(x)'
      BY <1>1, <1>2, <2>1, <2>2, <2>3, <3>1 DEF TaskInv, NoneLost, SameClosers
    <3>4. ~keep_running' => \A x \in streams' \ history'.late : Handled(x)'
      BY <1>2, <2>1, <2>2, <2>3, <3>1 DEF TaskInv, NoneLost
    <3>5. QED
      BY <3>2, <3>3, <3>4 DEF NoneLost
  <2>8. OnlyOnce'
    <3>1. SUFFICES ASSUME BackOnce PROVE BackOnce'
      BY <1>2 DEF TaskInv, OnlyOnce
    <3>2. OneCloses' /\ \A x \in StreamIds : TimesBack(x)' <= 1
      BY <1>1, <2>3, <3>1 DEF BackOnce, OneCloses, SameClosers
    <3>3. \A x \in streams' : TimesBack(x)' > 0 => \E t \in Threads : at'[t] = "hand_back" /\ x \notin snapshot'[t]
      BY <1>1, <2>1, <2>2, <2>3, <3>1 DEF BackOnce, SameClosers
    <3>4. \A t \in Threads : at'[t] = "hand_back" => \A x \in snapshot'[t] : TimesBack(x)' = 0
      BY <1>1, <2>1, <2>3, <3>1 DEF BackOnce, SameClosers, Types, ThreadTypes
    <3>5. QED
      BY <3>2, <3>3, <3>4 DEF BackOnce
  <2>9. QED
    BY <2>4, <2>7, <2>8 DEF TaskInv
<1>4. CASE ~Respond /\ ~EndStream
  <2>1. UNCHANGED <<taskVars, keep_running, snapshot>>
    BY <1>4 DEF ReceiveStep, Drain, Unblock, Reopen, ConnectionUpdate, StreamUpdate, Settings, SettingsEnd,
       Acknowledged, stateVars
  <2>2. QED
    BY <1>1, <1>2, <2>1, TasksKept
<1>5. QED
  BY <1>3, <1>4

LEMMA CloseBeginsTasks ==
    ASSUME Types, TaskInv, NEW t \in Threads, CloseBegins(t)
    PROVE  TaskInv'
<1>1. /\ at' = [at EXCEPT ![t] = "hand_back"] /\ snapshot' = [snapshot EXCEPT ![t] = streams]
      /\ UNCHANGED <<taskVars, keep_running>> /\ at[t] # "hand_back"
  BY DEF CloseBegins, Go, stateVars
<1>2. history'.late = history.late
  BY DEF CloseBegins, Types, ThreadTypes, RaceNames
<1>3. history'.twoClose = (history.twoClose \/ \E u \in Threads \ {t} : at[u] = "hand_back")
  BY Zenon DEF CloseBegins, Closing, Types, ThreadTypes, RaceNames
<1>4. ~history'.twoClose => ~history.twoClose /\ \A u \in Threads : at[u] # "hand_back"
  BY <1>1, <1>3, Zenon
<1>5. NotYet'
  BY <1>1 DEF TaskInv, NotYet, taskVars, Types, ThreadTypes
<1>6. \A u \in Threads : /\ u # t => at'[u] = at[u] /\ snapshot'[u] = snapshot[u]
                         /\ u = t => at'[u] = "hand_back" /\ snapshot'[u] = streams
  BY <1>1 DEF Types, ThreadTypes
<1>7. NoneLost'
  BY <1>1, <1>2, <1>6 DEF TaskInv, NoneLost, Handled, taskVars
<1>8. OnlyOnce'
  <2>1. SUFFICES ASSUME BackOnce, \A u \in Threads : at[u] # "hand_back" PROVE BackOnce'
    BY <1>4 DEF TaskInv, OnlyOnce
  <2>2. OneCloses'
    BY <1>6, <2>1 DEF OneCloses
  <2>3. \A x \in streams : TimesBack(x) = 0
    <3>1. \A x \in streams : TimesBack(x) \in Nat /\ ~(TimesBack(x) > 0)
      BY <2>1 DEF BackOnce, TimesBack, Types, StreamTypes
    <3>2. QED
      BY <3>1
  <2>4. \A x \in StreamIds : TimesBack(x)' = TimesBack(x)
    BY <1>1 DEF TimesBack, taskVars
  <2>5. streams' = streams /\ streams \subseteq StreamIds
    BY <1>1 DEF taskVars, Types, StreamTypes
  <2>6. \A x \in streams' : TimesBack(x)' = 0
    BY <2>3, <2>4, <2>5
  <2>7. \A u \in Threads : at'[u] = "hand_back" => \A x \in snapshot'[u] : TimesBack(x)' = 0
    BY <1>6, <2>1, <2>5, <2>6
  <2>8. QED
    BY <2>1, <2>2, <2>4, <2>6, <2>7 DEF BackOnce
<1>9. QED
  BY <1>5, <1>7, <1>8 DEF TaskInv

LEMMA DownTasks ==
    ASSUME Types, TaskInv, NEW t \in Threads, Down(t)
    PROVE  TaskInv'
<1>1. /\ at' = [at EXCEPT ![t] = "idle"] /\ streams' = {} /\ UNCHANGED <<next_stream, task, retries, snapshot, history>>
      /\ at[t] = "hand_back" /\ snapshot[t] = {}
  BY DEF Down, Go
<1>2. \A u \in Threads : at'[u] = "hand_back" => at[u] = "hand_back"
  BY <1>1 DEF Types, ThreadTypes
<1>3. NotYet'
  BY <1>1 DEF TaskInv, NotYet
<1>4. NoneLost'
  <2>1. \A x \in streams \ history.late : Handled(x)
    BY <1>1 DEF TaskInv, NoneLost
  <2>2. \A x \in 1 .. next_stream - 1 : x \notin history.late => Handled(x)
    BY <2>1 DEF TaskInv, NoneLost
  <2>3. QED
    BY <1>1, <2>2 DEF NoneLost, Handled
<1>5. OnlyOnce'
  BY <1>1, <1>2 DEF TaskInv, OnlyOnce, BackOnce, OneCloses, TimesBack
<1>6. QED
  BY <1>3, <1>4, <1>5 DEF TaskInv

LEMMA HandBackTasks ==
    ASSUME Types, TaskInv, NEW t \in Threads, HandBack(t)
    PROVE  TaskInv'
<1>1. PICK s \in StreamIds : s = Least(snapshot[t]) /\ s \in snapshot[t]
  BY LeastExists DEF HandBack, Types, ThreadTypes
<1>2. /\ at[t] = "hand_back" /\ UNCHANGED <<at, next_stream, history>>
      /\ snapshot' = [snapshot EXCEPT ![t] = @ \ {s}]
      /\ keep_running' = keep_running \/ streams' = {}
      /\ \/ /\ retries' = [retries EXCEPT ![s] = @ + 1] /\ UNCHANGED <<task, streams>> /\ task[s] = "held"
         \/ /\ task' = [task EXCEPT ![s] = IF @ = "held" THEN "expired" ELSE "finished"]
            /\ streams' = streams \ {s} /\ UNCHANGED retries
  BY <1>1 DEF HandBack, WorkerDown
<1>3. /\ task \in [StreamIds -> {"none", "held", "responsed", "finished", "expired"}]
      /\ retries \in [StreamIds -> Nat] /\ snapshot \in [Threads -> SUBSET StreamIds]
      /\ streams \subseteq StreamIds /\ next_stream \in Int /\ 1 .. next_stream - 1 \subseteq StreamIds
  BY Http2Assumption DEF Types, StreamTypes, ThreadTypes, StreamIds
<1>4. \A u \in Threads : snapshot'[u] = IF u = t THEN snapshot[t] \ {s} ELSE snapshot[u]
  BY <1>2, <1>3
<1>5. streams' = streams \/ streams' = streams \ {s}
  BY <1>2
<1>6. Handled(s)' /\ \A x \in StreamIds : Handled(x) => Handled(x)'
  BY <1>2, <1>3 DEF Handled
<1>7. \A x \in StreamIds : x # s => TimesBack(x)' = TimesBack(x)
  BY <1>2, <1>3 DEF TimesBack
<1>8. TimesBack(s) = 0 => TimesBack(s)' <= 1
  BY <1>2, <1>3 DEF TimesBack
<1>9. NotYet'
  <2>1. s \in 1 .. next_stream - 1
    BY <1>1 DEF TaskInv, NotYet
  <2>2. \A x \in StreamIds : x >= next_stream => x # s
    BY <1>3, <2>1
  <2>3. \A x \in StreamIds : x >= next_stream => retries'[x] = 0 /\ task'[x] = "none"
    BY <1>2, <1>3, <2>2 DEF TaskInv, NotYet
  <2>4. streams' \subseteq 1 .. next_stream - 1 /\ \A u \in Threads : snapshot'[u] \subseteq 1 .. next_stream - 1
    BY <1>4, <1>5 DEF TaskInv, NotYet
  <2>5. next_stream' = next_stream
    BY <1>2
  <2>6. QED
    BY <2>3, <2>4, <2>5 DEF NotYet
<1>10. NoneLost'
  <2>1. \A x \in 1 .. next_stream' - 1 : x \notin history'.late => x \in streams' \/ Handled(x)'
    BY <1>2, <1>3, <1>5, <1>6 DEF TaskInv, NoneLost
  <2>2. \A u \in Threads : at'[u] = "hand_back" =>
            \A x \in streams' \ history'.late : x \in snapshot'[u] \/ Handled(x)'
    BY <1>2, <1>3, <1>4, <1>5, <1>6 DEF TaskInv, NoneLost
  <2>3. ~keep_running' => \A x \in streams' \ history'.late : Handled(x)'
    BY <1>2, <1>3, <1>5, <1>6 DEF TaskInv, NoneLost
  <2>4. QED
    BY <2>1, <2>2, <2>3 DEF NoneLost
<1>11. OnlyOnce'
  <2>1. SUFFICES ASSUME BackOnce PROVE BackOnce'
    BY <1>2 DEF TaskInv, OnlyOnce
  <2>2. OneCloses' /\ \A u \in Threads : at[u] = "hand_back" => u = t
    BY <1>2, <2>1 DEF BackOnce, OneCloses
  <2>3. TimesBack(s) = 0
    BY <1>1, <1>2, <2>1 DEF BackOnce
  <2>4. \A x \in StreamIds : TimesBack(x)' <= 1
    BY <1>7, <1>8, <2>1, <2>3 DEF BackOnce
  <2>5. \A x \in streams' : TimesBack(x)' > 0 => \E u \in Threads : at'[u] = "hand_back" /\ x \notin snapshot'[u]
    <3>1. SUFFICES ASSUME NEW x \in streams', TimesBack(x)' > 0
                   PROVE  \E u \in Threads : at'[u] = "hand_back" /\ x \notin snapshot'[u]
      OBVIOUS
    <3>2. x \in streams /\ x \in StreamIds
      BY <1>3, <1>5
    <3>3. CASE x = s
      BY <1>2, <1>4, <3>3
    <3>4. CASE x # s
      <4>1. PICK u \in Threads : at[u] = "hand_back" /\ x \notin snapshot[u]
        BY <1>7, <2>1, <3>1, <3>2, <3>4 DEF BackOnce
      <4>2. QED
        BY <1>2, <1>4, <4>1
    <3>5. QED
      BY <3>3, <3>4
  <2>6. \A u \in Threads : at'[u] = "hand_back" => \A x \in snapshot'[u] : TimesBack(x)' = 0
    <3>1. SUFFICES ASSUME NEW x \in snapshot[t], x # s PROVE TimesBack(x)' = 0
      BY <1>2, <1>4, <2>2
    <3>2. x \in StreamIds
      BY <1>3
    <3>3. QED
      BY <1>2, <1>7, <2>1, <3>1, <3>2 DEF BackOnce
  <2>7. QED
    BY <2>2, <2>4, <2>5, <2>6 DEF BackOnce
<1>12. QED
  BY <1>9, <1>10, <1>11 DEF TaskInv

\* A worker that has been closed has given every task back or ended it, and one close
\* gives none back twice, for any number of streams (Http2Worker.close and Stream.close).
THEOREM TasksAllHandedOn == Spec => []TasksHandedOn
<1>1. Init => TaskInv
  <2> SUFFICES ASSUME Init PROVE TaskInv
    OBVIOUS
  <2>1. \A t \in Threads : at[t] # "hand_back"
    BY RestPlace DEF Init, Threads
  <2>2. NotYet
    BY Http2Assumption DEF Init, NotYet, StreamIds
  <2>3. NoneLost
    BY <2>1 DEF Init, NoneLost
  <2>4. \A s \in StreamIds : TimesBack(s) = 0
    BY DEF Init, TimesBack
  <2>5. OnlyOnce
    BY <2>1, <2>4 DEF Init, OnlyOnce, BackOnce, OneCloses
  <2>6. QED
    BY <2>2, <2>3, <2>5 DEF TaskInv
<1>2. Types /\ TaskInv /\ [Next]_vars => TaskInv'
  <2> SUFFICES ASSUME Types, TaskInv, [Next]_vars PROVE TaskInv'
    OBVIOUS
  <2>1. CASE UNCHANGED vars
    BY <2>1, TasksKept DEF vars, stateVars, SameClosers
  <2>2. ASSUME NEW t \in {"req", "recv"}, SendStep(t) PROVE TaskInv'
    BY <2>2, SendTasks DEF Threads
  <2>3. ASSUME NEW t \in {"recv", "send"}, CloseStep(t) PROVE TaskInv'
    BY <2>3, CloseBeginsTasks, HandBackTasks, DownTasks DEF Threads, CloseStep
  <2>4. QED
    BY <2>1, <2>2, <2>3, RequestTasks, ReceiveTasks DEF Next
<1>3. Types /\ TaskInv => TasksHandedOn
  <2> SUFFICES ASSUME Types, TaskInv PROVE TasksHandedOn
    OBVIOUS
  <2>1. ASSUME ~keep_running, NEW s \in 1 .. next_stream - 1, s \notin history.late PROVE Handled(s)
    BY <2>1 DEF TaskInv, NoneLost
  <2>2. ~history.twoClose => \A s \in StreamIds : TimesBack(s) <= 1
    BY DEF TaskInv, OnlyOnce, BackOnce
  <2>3. QED
    BY <2>1, <2>2 DEF TasksHandedOn, Handled, TimesBack
<1>4. FlowInv => Types
  BY DEF FlowInv
<1>5. QED
  BY <1>1, <1>2, <1>3, <1>4, InvariantOfFlow, PTL DEF Spec

------------------------------------------------------------------------------
(* Whether tasks are accepted.                                                *)

\* A thread is about to say whether tasks are accepted, or to close the worker.
Undecided ==
    \/ at["recv"] \in {"drain", "unblock", "open", "reopen", "close"} \/ at["req"] = "open"
    \/ \E t \in Threads : at[t] = "hand_back"

Free ==
    /\ acked /\ keep_running /\ streams = {} /\ blocked_send_frames = <<>> /\ remote_window_size > Enough
    /\ ~history.torn /\ ~history.overtaken

FreeAccepts == Free /\ ~Undecided => accept_task

\* A step that only takes room, or frames and streams into the worker, and ends nothing
\* that was undecided.
LEMMA FreeKept ==
    ASSUME FreeAccepts, Free' => Free, Undecided => Undecided', accept_task => accept_task'
    PROVE  FreeAccepts'
BY DEF FreeAccepts

LEMMA SendFree ==
    ASSUME Types, FreeAccepts, NEW t \in {"req", "recv"}, SendStep(t)
    PROVE  FreeAccepts'
<1>0. t \in Threads /\ "recv" \in Threads /\ "req" \in Threads /\ blocked_send_frames \in Seq(Frame)
  BY DEF Threads, Types, FlowTypes
<1>1. Undecided => Undecided'
  BY <1>0, SendMoves DEF Undecided, Moves, SendPlaces
<1>2. UNCHANGED <<acked, keep_running, streams>>
  BY DEF SendStep, Left, Cut, Offer, Block, Deny, Take, stateVars, taskVars
<1>3. CASE Left(t) \/ Cut(t) \/ Offer(t)
  <2>1. history.torn = history'.torn /\ history.overtaken = history'.overtaken
    BY <1>3 DEF Left, Cut, Offer, Types, ThreadTypes, RaceNames
  <2>2. UNCHANGED <<blocked_send_frames, remote_window_size, accept_task>>
    BY <1>3 DEF Left, Cut, Offer, flowVars, stateVars
  <2>3. QED
    BY <1>1, <1>2, <2>1, <2>2, FreeKept DEF Free
<1>4. CASE Block(t)
  <2>1. blocked_send_frames' # <<>>
    BY <1>0, <1>4 DEF Block, Types, ThreadTypes
  <2>2. QED
    BY <2>1 DEF FreeAccepts, Free
<1>5. CASE Deny(t)
  <2>1. history'.overtaken =
            (history.overtaken \/ \A i \in DOMAIN blocked_send_frames : blocked_send_frames[i] # hand[t])
    BY <1>5, Zenon DEF Deny, Types, ThreadTypes, RaceNames
  <2>2. blocked_send_frames' = blocked_send_frames
    BY <1>5 DEF Deny, flowVars
  <2>3. blocked_send_frames = <<>> => DOMAIN blocked_send_frames = {}
    BY <1>0
  <2>4. blocked_send_frames = <<>> => history'.overtaken
    BY <2>1, <2>3, Zenon
  <2>5. QED
    BY <2>2, <2>4 DEF FreeAccepts, Free
<1>6. CASE Take(t)
  <2>1. UNCHANGED <<blocked_send_frames, accept_task>> /\ remote_window_size' = seen[t] - hand[t].len
    BY <1>6 DEF Take, stateVars
  <2>2. history'.torn = (history.torn \/ seen[t] # remote_window_size)
    BY <1>6, Zenon DEF Take, Wrote, Types, ThreadTypes, RaceNames
  <2>3. history'.overtaken = history.overtaken
    BY <1>6 DEF Take, Wrote, Types, ThreadTypes, RaceNames
  <2>4. ~history'.torn => ~history.torn /\ seen[t] = remote_window_size
    BY <2>2, Zenon
  <2>5. hand[t].len \in Int /\ hand[t].len >= 0 /\ remote_window_size \in Int /\ Enough \in Int
    BY <1>0, <1>6, Http2Assumption DEF Take, Types, ThreadTypes, Frame, HandOK, FlowTypes
  <2>6. Free' => Free
    <3>1. SUFFICES ASSUME Free' PROVE Free
      OBVIOUS
    <3>2. ~history.torn /\ seen[t] = remote_window_size
      BY <2>4, <3>1 DEF Free
    <3>3. remote_window_size > Enough
      BY <2>1, <2>5, <3>1, <3>2 DEF Free
    <3>4. QED
      BY <1>2, <2>1, <2>3, <3>1, <3>2, <3>3 DEF Free
  <2>7. QED
    BY <1>1, <2>1, <2>6, FreeKept
<1>7. QED
  BY <1>3, <1>4, <1>5, <1>6 DEF SendStep

LEMMA RequestFree ==
    ASSUME Types, FreeAccepts, Request \/ OpenStream
    PROVE  FreeAccepts'
<1>1. CASE Request
  <2>1. at'["req"] = "open"
    BY <1>1 DEF Request, Go, Types, ThreadTypes, Threads
  <2>2. QED
    BY <2>1 DEF FreeAccepts, Undecided
<1>2. CASE OpenStream
  <2>1. streams' # {}
    BY <1>2 DEF OpenStream
  <2>2. QED
    BY <2>1 DEF FreeAccepts, Free
<1>3. QED
  BY <1>1, <1>2

LEMMA ReceiveFree ==
    ASSUME Types, FreeAccepts, ReceiveStep
    PROVE  FreeAccepts'
<1>0. DOMAIN at = Threads /\ "recv" \in Threads /\ "req" \in Threads
  BY DEF Types, ThreadTypes, Threads
<1>1. PICK place : Moves("recv", place)
  BY ReceiveMoves
<1>2. Undecided /\ at["recv"] \notin {"drain", "unblock", "open", "reopen", "close"} => Undecided'
  BY <1>0, <1>1, ReceiveMoves DEF Undecided, Moves
<1>3. CASE Drain
  <2>1. UNCHANGED <<stateVars, streams, blocked_send_frames, remote_window_size, history>>
    BY <1>3 DEF Drain, flowVars, taskVars
  <2>2. CASE blocked_send_frames # <<>>
    BY <2>1, <2>2 DEF FreeAccepts, Free
  <2>3. CASE blocked_send_frames = <<>>
    <3>1. at'["recv"] = "open"
      BY <1>0, <1>3, <2>3 DEF Drain, Go
    <3>2. QED
      BY <3>1 DEF FreeAccepts, Undecided
  <2>4. QED
    BY <2>2, <2>3
<1>4. CASE Unblock \/ ConnectionUpdate
  <2>1. at'["recv"] = "drain"
    BY <1>0, <1>4 DEF Unblock, ConnectionUpdate, Go
  <2>2. QED
    BY <2>1 DEF FreeAccepts, Undecided
<1>5. CASE Reopen
  <2>1. UNCHANGED <<keep_running, streams, remote_window_size>>
        /\ accept_task' = (accept_task \/ (keep_running /\ Cardinality(streams) < MaxConcurrent
                                           /\ remote_window_size > Enough))
    BY <1>5 DEF Reopen, taskVars, flowVars
  <2>2. Cardinality({}) < MaxConcurrent
    BY FS_EmptySet, Http2Assumption
  <2>3. Free' => keep_running /\ streams = {} /\ remote_window_size > Enough
    BY <2>1 DEF Free
  <2>4. Free' => accept_task'
    BY <2>1, <2>2, <2>3
  <2>5. QED
    BY <2>4 DEF FreeAccepts
<1>6. CASE Acknowledged
  BY <1>6 DEF Acknowledged, FreeAccepts
<1>7. CASE EndStream
  <2>1. PICK place2 \in {"reopen", "close"} : Go("recv", place2)
    BY <1>7 DEF EndStream
  <2>2. at'["recv"] \in {"reopen", "close"}
    BY <1>0, <2>1 DEF Go
  <2>3. QED
    BY <2>2 DEF FreeAccepts, Undecided
<1>8. CASE StreamUpdate \/ Settings \/ SettingsEnd \/ Respond
  <2>1. at["recv"] \notin {"drain", "unblock", "open", "reopen", "close"}
    BY <1>8 DEF StreamUpdate, Settings, SettingsEnd, Respond, Granting
  <2>2. UNCHANGED <<stateVars, streams, blocked_send_frames, remote_window_size>>
    BY <1>8 DEF StreamUpdate, Settings, SettingsEnd, Respond, flowVars, taskVars
  <2>3. history.torn = history'.torn /\ history.overtaken = history'.overtaken
    <3>1. CASE Settings
      <4>1. history' = [history EXCEPT !.raised = @ \cup streams] \/ history' = history
        BY <3>1 DEF Settings
      <4>2. QED
        BY <4>1 DEF Types, ThreadTypes, RaceNames
    <3>2. CASE ~Settings
      BY <1>8, <3>2 DEF StreamUpdate, SettingsEnd, Respond
    <3>3. QED
      BY <3>1, <3>2
  <2>4. QED
    BY <1>2, <2>1, <2>2, <2>3, FreeKept DEF Free, stateVars
<1>9. QED
  BY <1>3, <1>4, <1>5, <1>6, <1>7, <1>8 DEF ReceiveStep

LEMMA CloseFree ==
    ASSUME Types, FreeAccepts, NEW t \in Threads, CloseStep(t)
    PROVE  FreeAccepts'
<1>0. DOMAIN at = Threads
  BY DEF Types, ThreadTypes
<1>1. CASE CloseBegins(t)
  <2>1. at'[t] = "hand_back"
    BY <1>0, <1>1 DEF CloseBegins, Go
  <2>2. QED
    BY <2>1 DEF FreeAccepts, Undecided
<1>2. CASE HandBack(t)
  <2>1. at'[t] = "hand_back"
    BY <1>2 DEF HandBack
  <2>2. QED
    BY <2>1 DEF FreeAccepts, Undecided
<1>3. CASE Down(t)
  <2>1. ~keep_running'
    BY <1>3 DEF Down, WorkerDown
  <2>2. QED
    BY <2>1 DEF FreeAccepts, Free
<1>4. QED
  BY <1>1, <1>2, <1>3 DEF CloseStep

\* A worker with nothing to do accepts tasks, for any number of streams and any windows
\* (_send_cb, increase_remote_window_size, request, close_stream and the acknowledgements).
THEOREM FreeAccepted == Spec => []AcceptsWhenFree
<1>1. Init => FreeAccepts
  BY DEF Init, FreeAccepts, Free
<1>2. Types /\ FreeAccepts /\ [Next]_vars => FreeAccepts'
  <2> SUFFICES ASSUME Types, FreeAccepts, [Next]_vars PROVE FreeAccepts'
    OBVIOUS
  <2>1. CASE UNCHANGED vars
    BY <2>1 DEF vars, stateVars, taskVars, flowVars, FreeAccepts, Free, Undecided
  <2>2. ASSUME NEW t \in {"recv", "send"}, CloseStep(t) PROVE FreeAccepts'
    BY <2>2, CloseFree DEF Threads
  <2>3. QED
    BY <2>1, <2>2, SendFree, RequestFree, ReceiveFree DEF Next
<1>3. FreeAccepts => AcceptsWhenFree
  BY DEF FreeAccepts, Free, AcceptsWhenFree, Resting, Undecided, Threads
<1>4. FlowInv => Types
  BY DEF FlowInv
<1>5. QED
  BY <1>1, <1>2, <1>3, <1>4, InvariantOfFlow, PTL DEF Spec

------------------------------------------------------------------------------
(* What has been cut from a body is in exactly one frame, and what has not    *)
(* been cut is in none, for any number of streams, any bodies and any windows. *)
(* First: counting.                                                           *)

Carries(f, s, b) == f.stream = s /\ b \in Bytes(f)

\* Where in a queue a byte of a stream is.
Places(q, s, b) == {i \in DOMAIN q : Carries(q[i], s, b)}

\* Who is about to queue it or to put it aside.
Held(s, b) == {t \in Threads : at[t] \in {"offer", "block", "take"} /\ Carries(hand[t], s, b)}

One(isSo) == IF isSo THEN 1 ELSE 0

LEMMA PlacesFinite ==
    ASSUME NEW q \in Seq(Frame), NEW s, NEW b
    PROVE  IsFiniteSet(Places(q, s, b)) /\ Cardinality(Places(q, s, b)) \in Nat
<1>1. Places(q, s, b) \in SUBSET (1 .. Len(q)) /\ IsFiniteSet(1 .. Len(q))
  BY FS_Interval DEF Places
<1>2. IsFiniteSet(Places(q, s, b))
  BY <1>1, FS_Subset
<1>3. QED
  BY <1>2, FS_CardinalityType

LEMMA HeldFinite ==
    ASSUME NEW s, NEW b
    PROVE  IsFiniteSet(Held(s, b)) /\ Cardinality(Held(s, b)) \in Nat
<1>1. IsFiniteSet(Threads)
  <2>1. IsFiniteSet({}) /\ Threads = (({} \cup {"req"}) \cup {"recv"}) \cup {"send"}
    BY FS_EmptySet DEF Threads
  <2>2. IsFiniteSet({} \cup {"req"})
    BY <2>1, FS_AddElement
  <2>3. IsFiniteSet(({} \cup {"req"}) \cup {"recv"})
    BY <2>2, FS_AddElement
  <2>4. QED
    BY <2>1, <2>3, FS_AddElement
<1>2. Held(s, b) \in SUBSET Threads
  BY DEF Held
<1>3. IsFiniteSet(Held(s, b))
  BY <1>1, <1>2, FS_Subset
<1>4. QED
  BY <1>3, FS_CardinalityType

\* A frame at the end of a queue.
LEMMA PlacesOfAppend ==
    ASSUME NEW q \in Seq(Frame), NEW f \in Frame, NEW s, NEW b
    PROVE  Cardinality(Places(Append(q, f), s, b)) = Cardinality(Places(q, s, b)) + One(Carries(f, s, b))
<1> DEFINE n == Len(q) + 1
<1>1. /\ DOMAIN q = 1 .. Len(q) /\ DOMAIN Append(q, f) = (1 .. Len(q)) \cup {n} /\ n \notin 1 .. Len(q)
      /\ \A i \in 1 .. Len(q) : Append(q, f)[i] = q[i]
      /\ Append(q, f)[n] = f
  OBVIOUS
<1> HIDE DEF n
<1>2. IsFiniteSet(Places(q, s, b)) /\ Cardinality(Places(q, s, b)) \in Nat /\ n \notin Places(q, s, b)
  <2>1. Places(q, s, b) \subseteq DOMAIN q
    BY DEF Places
  <2>2. n \notin Places(q, s, b)
    BY <1>1, <2>1
  <2>3. QED
    BY <2>2, PlacesFinite
<1>3. CASE Carries(f, s, b)
  <2>1. Places(Append(q, f), s, b) = Places(q, s, b) \cup {n}
    BY <1>1, <1>3 DEF Places
  <2>2. QED
    BY <1>2, <1>3, <2>1, FS_AddElement DEF One
<1>4. CASE ~Carries(f, s, b)
  <2>1. Places(Append(q, f), s, b) = Places(q, s, b)
    BY <1>1, <1>4 DEF Places
  <2>2. QED
    BY <1>2, <1>4, <2>1 DEF One
<1>5. QED
  BY <1>3, <1>4

\* A frame taken from the front of a queue: the others move one place.
LEMMA PlacesOfTail ==
    ASSUME NEW q \in Seq(Frame), q # <<>>, NEW s, NEW b
    PROVE  Cardinality(Places(q, s, b)) =
               Cardinality(Places(Tail(q), s, b)) + One(Carries(Head(q), s, b))
<1>1. /\ Tail(q) \in Seq(Frame) /\ Len(q) \in Nat \ {0} /\ Len(Tail(q)) = Len(q) - 1
      /\ \A i \in 1 .. Len(Tail(q)) : Tail(q)[i] = q[i + 1]
  BY HeadTailProperties
<1>2. Head(q) = q[1] /\ DOMAIN q = 1 .. Len(q) /\ DOMAIN Tail(q) = 1 .. Len(q) - 1
  BY <1>1
<1> DEFINE T == Places(Tail(q), s, b)
           S == Places(q, s, b) \ {1}
           F == [i \in T |-> i + 1]
<1>3. T \subseteq 1 .. Len(q) - 1 /\ S \subseteq 2 .. Len(q)
  BY <1>1, <1>2 DEF Places
<1>4. \A i \in 1 .. Len(q) - 1 : i \in T <=> i + 1 \in S
  BY <1>1, <1>2 DEF Places
<1>5. ExistsBijection(T, S)
  <2>1. F \in [T -> S]
    BY <1>3, <1>4
  <2>2. \A x, y \in T : F[x] = F[y] => x = y
    BY <1>3
  <2>3. \A y \in S : \E x \in T : F[x] = y
    <3> TAKE y \in S
    <3>1. y - 1 \in 1 .. Len(q) - 1 /\ (y - 1) + 1 = y
      BY <1>1, <1>3
    <3>2. y - 1 \in T
      BY <1>4, <3>1
    <3>3. QED
      BY <3>1, <3>2
  <2> HIDE DEF F, T, S
  <2>4. F \in Bijection(T, S)
    BY <2>1, <2>2, <2>3, Fun_IsBij
  <2>5. QED
    BY <2>4 DEF ExistsBijection
<1>6. IsFiniteSet(T) /\ Cardinality(T) \in Nat /\ IsFiniteSet(Places(q, s, b)) /\ Cardinality(Places(q, s, b)) \in Nat
  BY <1>1, PlacesFinite
<1>7. Cardinality(S) = Cardinality(T)
  <2> HIDE DEF S, T
  <2>1. QED
    BY <1>5, <1>6, FS_Bijection
<1>8. Cardinality(S) = IF 1 \in Places(q, s, b) THEN Cardinality(Places(q, s, b)) - 1
                       ELSE Cardinality(Places(q, s, b))
  BY <1>6, FS_RemoveElement
<1>9. 1 \in Places(q, s, b) <=> Carries(Head(q), s, b)
  BY <1>1, <1>2 DEF Places
<1>10. QED
  BY <1>6, <1>7, <1>8, <1>9 DEF One

------------------------------------------------------------------------------
(* The invariant.                                                             *)

Whole(s) == s \notin history.doubled \cup history.shrunk

SentTypes ==
    /\ sent \in [StreamIds -> Seq(Frame)]
    /\ \A i \in DOMAIN blocked_send_frames : blocked_send_frames[i].stream \in StreamIds

\* What is about to be cut is there.
CutFits ==
    \A t \in Threads : at[t] = "cut" /\ Whole(hand[t].stream) => hand[t].len <= request_body_left[hand[t].stream]

LeftFits == \A s \in StreamIds : Whole(s) => request_body_left[s] \in 0 .. BodyLen

Counted ==
    \A s \in StreamIds, b \in 0 .. BodyLen - 1 : Whole(s) =>
        Cardinality(Places(sent[s], s, b)) + Cardinality(Places(blocked_send_frames, s, b)) + Cardinality(Held(s, b))
        = One(b < BodyLen - request_body_left[s])

BodyCount == SentTypes /\ CutFits /\ LeftFits /\ Counted

\* The others have in hand what they had, where they were.
OthersStay(t) == \A u \in Threads : u # t => at'[u] = at[u] /\ hand'[u] = hand[u]

LEMMA HeldGets ==
    ASSUME NEW t \in Threads, OthersStay(t), at[t] \notin {"offer", "block", "take"},
           at'[t] \in {"offer", "block", "take"}, NEW s, NEW b
    PROVE  Cardinality(Held(s, b)') = Cardinality(Held(s, b)) + One(Carries(hand'[t], s, b))
<1>1. IsFiniteSet(Held(s, b)) /\ Cardinality(Held(s, b)) \in Nat /\ t \notin Held(s, b)
  BY HeldFinite DEF Held
<1>2. CASE Carries(hand'[t], s, b)
  <2>1. Held(s, b)' = Held(s, b) \cup {t}
    BY <1>2 DEF Held, OthersStay, Carries, Bytes
  <2>2. QED
    BY <1>1, <1>2, <2>1, FS_AddElement DEF One
<1>3. CASE ~Carries(hand'[t], s, b)
  <2>1. Held(s, b)' = Held(s, b)
    BY <1>3 DEF Held, OthersStay, Carries, Bytes
  <2>2. QED
    BY <1>1, <1>3, <2>1 DEF One
<1>4. QED
  BY <1>2, <1>3

LEMMA HeldGives ==
    ASSUME NEW t \in Threads, OthersStay(t), at[t] \in {"offer", "block", "take"},
           at'[t] \notin {"offer", "block", "take"}, NEW s, NEW b
    PROVE  /\ Cardinality(Held(s, b)) = Cardinality(Held(s, b)') + One(Carries(hand[t], s, b))
           /\ Cardinality(Held(s, b)') \in Nat
<1>1. IsFiniteSet(Held(s, b)) /\ Cardinality(Held(s, b)) \in Nat
  BY HeldFinite
<1>2. Held(s, b)' = Held(s, b) \ {t}
  BY DEF Held, OthersStay, Carries, Bytes
<1>3. t \in Held(s, b) <=> Carries(hand[t], s, b)
  BY DEF Held
<1>4. Cardinality(Held(s, b) \ {t}) = IF t \in Held(s, b) THEN Cardinality(Held(s, b)) - 1 ELSE Cardinality(Held(s, b))
  BY <1>1, FS_RemoveElement
<1>5. Cardinality(Held(s, b) \ {t}) \in Nat
  BY <1>1, FS_Subset, FS_CardinalityType
<1>6. QED
  BY <1>1, <1>2, <1>3, <1>4, <1>5 DEF One

\* A step that leaves the bodies alone, and begins no cut.
LEMMA FitsKept ==
    ASSUME Types, CutFits, LeftFits, RacesStay, UNCHANGED request_body_left,
           \A t \in Threads : at'[t] = "cut" => at[t] = "cut" /\ hand'[t] = hand[t]
    PROVE  CutFits' /\ LeftFits'
<1>1. \A s : Whole(s)' => Whole(s)
  BY DEF Whole, RacesStay
<1>2. QED
  BY <1>1 DEF CutFits, LeftFits

\* A step that moves no frame, either.
HandsQuiet ==
    \A t \in Threads : /\ at'[t] \in {"offer", "block", "take"} <=> at[t] \in {"offer", "block", "take"}
                       /\ at'[t] = "cut" => at[t] = "cut"
                       /\ at'[t] \in {"cut", "offer", "block", "take"} => hand'[t] = hand[t]

LEMMA HeldSame ==
    ASSUME NEW s, NEW b,
           \A t \in Threads : /\ at'[t] \in {"offer", "block", "take"} <=> at[t] \in {"offer", "block", "take"}
                              /\ at'[t] \in {"offer", "block", "take"} => hand'[t] = hand[t]
    PROVE  Held(s, b)' = Held(s, b)
BY DEF Held, Carries, Bytes

LEMMA QuietCounts ==
    ASSUME Types, BodyCount, RacesStay, HandsQuiet, UNCHANGED <<sent, blocked_send_frames, request_body_left>>
    PROVE  BodyCount'
<1>1. \A s : Whole(s)' => Whole(s)
  BY DEF Whole, RacesStay
<1>2. CutFits' /\ LeftFits'
  BY FitsKept DEF BodyCount, HandsQuiet
<1>3. \A s, b : Held(s, b)' = Held(s, b)
  BY HeldSame DEF HandsQuiet
<1>4. Counted'
  <2>1. SUFFICES ASSUME NEW s \in StreamIds, NEW b \in 0 .. BodyLen - 1, Whole(s)
                 PROVE  Cardinality(Places(sent[s], s, b)) + Cardinality(Places(blocked_send_frames, s, b))
                        + Cardinality(Held(s, b)') = One(b < BodyLen - request_body_left[s])
    BY <1>1 DEF Counted
  <2>2. Held(s, b)' = Held(s, b)
    BY <1>3
  <2>3. QED
    BY <2>1, <2>2 DEF BodyCount, Counted
<1>5. SentTypes'
  BY DEF BodyCount, SentTypes
<1>6. QED
  BY <1>2, <1>4, <1>5 DEF BodyCount

------------------------------------------------------------------------------
(* The steps.                                                                 *)

\* The others stay where they are, with what they have.
LEMMA OnlyOneMoves ==
    ASSUME Types, NEW t \in Threads, NEW place, Moves(t, place), NEW f,
           hand' = hand \/ hand' = [hand EXCEPT ![t] = f]
    PROVE  OthersStay(t) /\ at'[t] = place
BY DEF OthersStay, Moves, Types, ThreadTypes

LEMMA LeftCounts ==
    ASSUME Types, BodyCount, RacesStay, NEW t \in Threads, Left(t)
    PROVE  BodyCount'
<1> DEFINE s == hand[t].stream
<1>1. s \in StreamIds /\ DOMAIN at = Threads /\ at[t] = "left"
  BY DEF Left, HandOK, SendPlaces, Types, ThreadTypes
<1>2. UNCHANGED <<request_body_left, sent, blocked_send_frames, history>>
  BY DEF Left, flowVars
<1>3. CASE Go(t, Rest(t)) /\ hand' = [hand EXCEPT ![t] = NoFrame]
  <2>1. OthersStay(t) /\ at'[t] = Rest(t)
    BY <1>1, <1>3, GoMoves, OnlyOneMoves
  <2>2. at'[t] \in {"idle", "read"}
    BY <2>1 DEF Rest
  <2>3. HandsQuiet
    BY <1>1, <2>1, <2>2 DEF HandsQuiet, OthersStay
  <2>4. QED
    BY <1>2, <2>3, QuietCounts
<1>4. CASE /\ Go(t, "cut")
           /\ hand' = [hand EXCEPT ![t] =
                 [stream |-> s, from |-> 0, kind |-> "data",
                  len |-> Least({stream_window[s], request_body_left[s], MaxFrame})]]
  <2>1. OthersStay(t) /\ at'[t] = "cut"
    BY <1>1, <1>4, GoMoves, OnlyOneMoves
  <2>2. Least({stream_window[s], request_body_left[s], MaxFrame}) <= request_body_left[s]
    <3>1. stream_window[s] \in Int /\ request_body_left[s] \in Int /\ MaxFrame \in Int
      BY <1>1, Http2Assumption DEF Types, BodyTypes
    <3> HIDE DEF s
    <3>2. QED
      BY <3>1, LeastOfThree
  <2>3. hand'[t].stream = s /\ hand'[t].len <= request_body_left[s]
    BY <1>4, <2>2 DEF Types, ThreadTypes
  <2> HIDE DEF s
  <2>4. CutFits'
    BY <1>2, <2>1, <2>3 DEF CutFits, BodyCount, Whole, OthersStay
  <2>5. LeftFits' /\ SentTypes'
    BY <1>2 DEF LeftFits, SentTypes, BodyCount, Whole
  <2>6. \A x, b : Held(x, b)' = Held(x, b)
    BY <1>1, <2>1, HeldSame DEF OthersStay
  <2>7. Counted'
    <3>1. SUFFICES ASSUME NEW x \in StreamIds, NEW b \in 0 .. BodyLen - 1, Whole(x)
                   PROVE  Cardinality(Places(sent[x], x, b)) + Cardinality(Places(blocked_send_frames, x, b))
                          + Cardinality(Held(x, b)') = One(b < BodyLen - request_body_left[x])
      BY <1>2 DEF Counted, Whole
    <3>2. Held(x, b)' = Held(x, b)
      BY <2>6
    <3>3. QED
      BY <3>1, <3>2 DEF BodyCount, Counted
  <2>8. QED
    BY <2>4, <2>5, <2>7 DEF BodyCount
<1>5. QED
  BY <1>3, <1>4 DEF Left

\* The bytes of the slice are the next ones of the body.
LEMMA SliceIsNext ==
    ASSUME NEW left \in 0 .. BodyLen, NEW size \in Int, 0 <= size, size <= left
    PROVE  Index(BodyLen - left) = BodyLen - left /\ SliceLen(BodyLen - left, size) = size
<1>1. BodyLen \in Nat /\ BodyLen - left \in 0 .. BodyLen /\ (BodyLen - left) + size \in 0 .. BodyLen
  BY Http2Assumption
<1>2. \A i \in 0 .. BodyLen : Index(i) = i
  BY <1>1 DEF Index
<1>3. QED
  BY <1>1, <1>2 DEF SliceLen

LEMMA CutCounts ==
    ASSUME Types, BodyCount, RacesStay, NEW t \in Threads, Cut(t)
    PROVE  BodyCount'
<1> DEFINE size == hand[t].len
<1>0. PICK s \in StreamIds : s = hand[t].stream
  BY DEF Cut, HandOK, SendPlaces, Types
<1> DEFINE left == request_body_left[s]
<1>1. DOMAIN at = Threads /\ at[t] = "cut" /\ size \in Int /\ left \in Int /\ BodyLen \in Nat
  BY Http2Assumption DEF Cut, Types, ThreadTypes, BodyTypes, Frame
<1>2. PICK kind \in {"data", "last"} :
          /\ Go(t, "offer") /\ UNCHANGED <<sent, blocked_send_frames>>
          /\ request_body_left' = [request_body_left EXCEPT ![s] = left - size]
          /\ hand' = [hand EXCEPT ![t] = [stream |-> s, from |-> Index(BodyLen - left),
                                          len |-> SliceLen(BodyLen - left, size), kind |-> kind]]
  BY <1>0 DEF Cut, flowVars
<1>3. /\ size < 0 => s \in history'.shrunk
      /\ (\E u \in Threads \ {t} : at[u] = "cut" /\ hand[u].stream = s) => s \in history'.doubled
  BY <1>0 DEF Cut, Types, ThreadTypes, RaceNames
<1>4. OthersStay(t) /\ at'[t] = "offer"
  BY <1>1, <1>2, GoMoves, OnlyOneMoves
<1>5. \A x : Whole(x)' => Whole(x)
  BY DEF Whole, RacesStay
<1>6. Whole(s)' => left \in 0 .. BodyLen /\ 0 <= size /\ size <= left
  BY <1>0, <1>1, <1>3, <1>5 DEF Whole, BodyCount, LeftFits, CutFits
<1>7. hand'[t] = [stream |-> s, from |-> Index(BodyLen - left), len |-> SliceLen(BodyLen - left, size), kind |-> kind]
  BY <1>2 DEF Types, ThreadTypes
<1>8. \A x \in StreamIds : request_body_left'[x] = IF x = s THEN left - size ELSE request_body_left[x]
  BY <1>2 DEF Types, BodyTypes
<1> HIDE DEF size, left
<1>9. SentTypes'
  BY <1>2 DEF SentTypes, BodyCount
<1>10. LeftFits'
  <2>1. SUFFICES ASSUME NEW x \in StreamIds, Whole(x)' PROVE request_body_left'[x] \in 0 .. BodyLen
    BY DEF LeftFits
  <2>2. CASE x = s
    BY <1>1, <1>6, <1>8, <2>1, <2>2
  <2>3. CASE x # s
    BY <1>5, <1>8, <2>1, <2>3 DEF BodyCount, LeftFits
  <2>4. QED
    BY <2>2, <2>3
<1>11. CutFits'
  <2>1. SUFFICES ASSUME NEW u \in Threads, at'[u] = "cut",
                        hand'[u].stream \notin history'.doubled \cup history'.shrunk
                 PROVE  hand'[u].len <= request_body_left'[hand'[u].stream]
    BY DEF CutFits, Whole
  <2>2. u # t /\ at[u] = "cut" /\ hand'[u] = hand[u]
    BY <1>4, <2>1 DEF OthersStay
  <2>3. hand[u].stream \in StreamIds
    BY <2>2 DEF Types, HandOK, SendPlaces
  <2>4. hand[u].stream # s
    BY <1>3, <2>1, <2>2
  <2>5. Whole(hand[u].stream)
    BY <2>1, <2>2 DEF Whole, RacesStay
  <2>6. hand[u].len <= request_body_left[hand[u].stream]
    BY <2>2, <2>5 DEF BodyCount, CutFits
  <2>7. QED
    BY <1>8, <2>2, <2>3, <2>4, <2>6
<1>12. Counted'
  <2>1. SUFFICES ASSUME NEW x \in StreamIds, NEW b \in 0 .. BodyLen - 1, Whole(x)'
                 PROVE  Cardinality(Places(sent[x], x, b)) + Cardinality(Places(blocked_send_frames, x, b))
                        + Cardinality(Held(x, b)') = One(b < BodyLen - request_body_left'[x])
    BY <1>2 DEF Counted
  <2>2. Cardinality(Held(x, b)') = Cardinality(Held(x, b)) + One(Carries(hand'[t], x, b))
    BY <1>1, <1>4, HeldGets
  <2>3. Cardinality(Places(sent[x], x, b)) + Cardinality(Places(blocked_send_frames, x, b)) + Cardinality(Held(x, b))
        = One(b < BodyLen - request_body_left[x])
    BY <1>5, <2>1 DEF BodyCount, Counted
  <2>4. /\ Cardinality(Places(sent[x], x, b)) \in Nat /\ Cardinality(Places(blocked_send_frames, x, b)) \in Nat
        /\ Cardinality(Held(x, b)) \in Nat
    BY PlacesFinite, HeldFinite DEF BodyCount, SentTypes, Types, FlowTypes
  <2>5. One(b < BodyLen - request_body_left'[x])
        = One(b < BodyLen - request_body_left[x]) + One(Carries(hand'[t], x, b))
    <3>1. CASE x # s
      <4>1. ~Carries(hand'[t], x, b)
        BY <1>7, <3>1 DEF Carries
      <4>2. request_body_left'[x] = request_body_left[x]
        BY <1>8, <3>1
      <4>3. QED
        BY <4>1, <4>2 DEF One
    <3>2. CASE x = s
      <4>1. left \in 0 .. BodyLen /\ 0 <= size /\ size <= left
        BY <1>6, <2>1, <3>2
      <4>2. Index(BodyLen - left) = BodyLen - left /\ SliceLen(BodyLen - left, size) = size
        BY <1>1, <4>1, SliceIsNext
      <4>3. Carries(hand'[t], x, b) <=> b \in (BodyLen - left) .. (BodyLen - left + size - 1)
        BY <1>7, <3>2, <4>2 DEF Carries, Bytes
      <4>4. request_body_left'[x] = left - size /\ request_body_left[x] = left
        BY <1>8, <3>2 DEF left
      <4>5. QED
        BY <1>1, <4>1, <4>3, <4>4 DEF One
    <3>3. QED
      BY <3>1, <3>2
  <2>6. One(Carries(hand'[t], x, b)) \in Nat /\ One(b < BodyLen - request_body_left[x]) \in Nat
    BY DEF One
  <2>7. QED
    BY <2>2, <2>3, <2>4, <2>5, <2>6
<1>13. QED
  BY <1>9, <1>10, <1>11, <1>12 DEF BodyCount

\* A frame goes from a thread's hands to the end of a queue.
LEMMA BlockCounts ==
    ASSUME Types, BodyCount, RacesStay, NEW t \in Threads, Block(t)
    PROVE  BodyCount'
<1>1. /\ at[t] = "block" /\ Go(t, "deny") /\ UNCHANGED <<hand, sent, request_body_left>>
      /\ blocked_send_frames' = Append(blocked_send_frames, hand[t])
  BY DEF Block, bodyVars
<1>2. DOMAIN at = Threads /\ hand[t] \in Frame /\ hand[t].stream \in StreamIds /\ blocked_send_frames \in Seq(Frame)
  BY <1>1 DEF Types, ThreadTypes, HandOK, SendPlaces, FlowTypes
<1>3. OthersStay(t) /\ at'[t] = "deny"
  BY <1>1, <1>2, GoMoves, OnlyOneMoves
<1>4. \A x : Whole(x)' => Whole(x)
  BY DEF Whole, RacesStay
<1>5. CutFits' /\ LeftFits'
  BY <1>1, <1>3, FitsKept DEF BodyCount, OthersStay
<1>6. SentTypes'
  <2>1. \A i \in DOMAIN Append(blocked_send_frames, hand[t]) :
            Append(blocked_send_frames, hand[t])[i].stream \in StreamIds
    BY <1>2 DEF BodyCount, SentTypes
  <2>2. QED
    BY <1>1, <2>1 DEF BodyCount, SentTypes
<1>7. Counted'
  <2>1. SUFFICES ASSUME NEW x \in StreamIds, NEW b \in 0 .. BodyLen - 1, Whole(x)
                 PROVE  Cardinality(Places(sent[x], x, b))
                        + Cardinality(Places(Append(blocked_send_frames, hand[t]), x, b))
                        + Cardinality(Held(x, b)') = One(b < BodyLen - request_body_left[x])
    BY <1>1, <1>4 DEF Counted
  <2>2. /\ Cardinality(Held(x, b)) = Cardinality(Held(x, b)') + One(Carries(hand[t], x, b))
        /\ Cardinality(Held(x, b)') \in Nat
    BY <1>1, <1>3, HeldGives
  <2>3. Cardinality(Places(Append(blocked_send_frames, hand[t]), x, b))
        = Cardinality(Places(blocked_send_frames, x, b)) + One(Carries(hand[t], x, b))
    BY <1>2, PlacesOfAppend
  <2>4. Cardinality(Places(sent[x], x, b)) + Cardinality(Places(blocked_send_frames, x, b)) + Cardinality(Held(x, b))
        = One(b < BodyLen - request_body_left[x])
    BY <2>1 DEF BodyCount, Counted
  <2>5. /\ Cardinality(Places(sent[x], x, b)) \in Nat /\ Cardinality(Places(blocked_send_frames, x, b)) \in Nat
        /\ Cardinality(Held(x, b)) \in Nat
    BY <1>2, PlacesFinite, HeldFinite DEF BodyCount, SentTypes
  <2>6. One(Carries(hand[t], x, b)) \in Nat
    BY DEF One
  <2>7. QED
    BY <2>2, <2>3, <2>4, <2>5, <2>6
<1>8. QED
  BY <1>5, <1>6, <1>7 DEF BodyCount

LEMMA TakeCounts ==
    ASSUME Types, BodyCount, RacesStay, NEW t \in Threads, Take(t)
    PROVE  BodyCount'
<1>0. PICK s \in StreamIds : s = hand[t].stream
  BY DEF Take, HandOK, SendPlaces, Types
<1>1. /\ at[t] = "take" /\ Go(t, "left") /\ UNCHANGED <<hand, blocked_send_frames, request_body_left>>
      /\ sent' = [sent EXCEPT ![s] = Append(@, hand[t])]
  BY <1>0 DEF Take, bodyVars
<1>2. DOMAIN at = Threads /\ hand[t] \in Frame /\ sent \in [StreamIds -> Seq(Frame)]
  BY DEF Types, ThreadTypes, BodyCount, SentTypes
<1>3. OthersStay(t) /\ at'[t] = "left"
  BY <1>1, <1>2, GoMoves, OnlyOneMoves
<1>4. \A x : Whole(x)' => Whole(x)
  BY DEF Whole, RacesStay
<1>5. CutFits' /\ LeftFits'
  BY <1>1, <1>3, FitsKept DEF BodyCount, OthersStay
<1>6. SentTypes'
  BY <1>1, <1>2 DEF BodyCount, SentTypes
<1>7. Counted'
  <2>1. SUFFICES ASSUME NEW x \in StreamIds, NEW b \in 0 .. BodyLen - 1, Whole(x)
                 PROVE  Cardinality(Places(sent'[x], x, b)) + Cardinality(Places(blocked_send_frames, x, b))
                        + Cardinality(Held(x, b)') = One(b < BodyLen - request_body_left[x])
    BY <1>1, <1>4 DEF Counted
  <2>2. Cardinality(Places(sent'[x], x, b)) = Cardinality(Places(sent[x], x, b)) + One(Carries(hand[t], x, b))
    <3>1. CASE x = s
      <4>1. sent'[x] = Append(sent[x], hand[t]) /\ sent[x] \in Seq(Frame)
        BY <1>1, <1>2, <3>1
      <4>2. QED
        BY <1>2, <4>1, PlacesOfAppend
    <3>2. CASE x # s
      <4>1. sent'[x] = sent[x] /\ ~Carries(hand[t], x, b)
        BY <1>0, <1>1, <1>2, <3>2 DEF Carries
      <4>2. Cardinality(Places(sent[x], x, b)) \in Nat
        BY <1>2, PlacesFinite
      <4>3. QED
        BY <4>1, <4>2 DEF One
    <3>3. QED
      BY <3>1, <3>2
  <2>3. Cardinality(Places(sent[x], x, b)) + Cardinality(Places(blocked_send_frames, x, b)) + Cardinality(Held(x, b))
        = One(b < BodyLen - request_body_left[x])
    BY <2>1 DEF BodyCount, Counted
  <2>4. Cardinality(Places(sent[x], x, b)) \in Nat /\ Cardinality(Places(blocked_send_frames, x, b)) \in Nat
    BY <1>2, PlacesFinite DEF Types, FlowTypes
  <2>5. /\ Cardinality(Held(x, b)) = Cardinality(Held(x, b)') + One(Carries(hand[t], x, b))
        /\ Cardinality(Held(x, b)') \in Nat
    BY <1>1, <1>3, HeldGives
  <2>6. One(Carries(hand[t], x, b)) \in Nat
    BY DEF One
  <2>7. QED
    BY <2>2, <2>3, <2>4, <2>5, <2>6
<1>8. QED
  BY <1>5, <1>6, <1>7 DEF BodyCount

LEMMA SendCounts ==
    ASSUME Types, BodyCount, RacesStay, NEW t \in Threads, SendStep(t)
    PROVE  BodyCount'
<1>1. CASE Offer(t) \/ Deny(t)
  <2>1. /\ at[t] \in {"offer", "deny"} /\ DOMAIN at = Threads
        /\ UNCHANGED <<hand, sent, blocked_send_frames, request_body_left>>
    BY <1>1 DEF Offer, Deny, flowVars, bodyVars, Types, ThreadTypes
  <2>2. PICK place \in {"block", "take", "left"} : Go(t, place) /\ (at[t] = "offer" <=> place # "left")
    BY <1>1 DEF Offer, Deny
  <2>3. OthersStay(t) /\ at'[t] = place
    BY <2>1, <2>2, GoMoves, OnlyOneMoves
  <2>4. HandsQuiet
    BY <2>1, <2>2, <2>3 DEF HandsQuiet, OthersStay
  <2>5. QED
    BY <2>1, <2>4, QuietCounts
<1>2. QED
  BY <1>1, LeftCounts, CutCounts, BlockCounts, TakeCounts DEF SendStep

LEMMA RequestCounts ==
    ASSUME Types, BodyCount, RacesStay, Request \/ OpenStream
    PROVE  BodyCount'
<1>1. /\ DOMAIN at = Threads /\ "req" \in Threads /\ at["req"] \in {"idle", "open"}
      /\ UNCHANGED <<sent, blocked_send_frames, request_body_left>>
  BY DEF Request, OpenStream, Types, ThreadTypes, Threads, flowVars, bodyVars
<1>2. CASE Request
  <2>1. OthersStay("req") /\ at'["req"] = "open"
    BY <1>1, <1>2, GoMoves, OnlyOneMoves DEF Request
  <2>2. HandsQuiet
    BY <1>1, <1>2, <2>1 DEF HandsQuiet, OthersStay, Request
  <2>3. QED
    BY <1>1, <2>2, QuietCounts
<1>3. CASE OpenStream
  <2>1. PICK f : f.kind = "head" /\ hand' = [hand EXCEPT !["req"] = f]
    BY <1>3 DEF OpenStream
  <2>2. OthersStay("req") /\ at'["req"] = "offer"
    BY <1>1, <1>3, <2>1, GoMoves, OnlyOneMoves DEF OpenStream
  <2>3. \A x : Whole(x)' => Whole(x)
    BY DEF Whole, RacesStay
  <2>4. CutFits' /\ LeftFits'
    BY <1>1, <2>2, FitsKept DEF BodyCount, OthersStay
  <2>5. SentTypes'
    BY <1>1 DEF BodyCount, SentTypes
  <2>6. Counted'
    <3>1. SUFFICES ASSUME NEW x \in StreamIds, NEW b \in 0 .. BodyLen - 1, Whole(x)
                   PROVE  Cardinality(Places(sent[x], x, b)) + Cardinality(Places(blocked_send_frames, x, b))
                          + Cardinality(Held(x, b)') = One(b < BodyLen - request_body_left[x])
      BY <1>1, <2>3 DEF Counted
    <3>2. ~Carries(hand'["req"], x, b)
      BY <1>1, <2>1 DEF Carries, Bytes, Types, ThreadTypes
    <3>3. Cardinality(Held(x, b)') = Cardinality(Held(x, b)) + One(Carries(hand'["req"], x, b))
      BY <1>1, <2>2, HeldGets
    <3>4. Cardinality(Held(x, b)') = Cardinality(Held(x, b))
      BY <3>2, <3>3, HeldFinite DEF One
    <3>5. QED
      BY <3>1, <3>4 DEF BodyCount, Counted
  <2>7. QED
    BY <2>4, <2>5, <2>6 DEF BodyCount
<1>4. QED
  BY <1>2, <1>3

\* The first blocked frame goes to the end of its stream's queue.
LEMMA UnblockCounts ==
    ASSUME Types, UnblockOK, BodyCount, RacesStay, Unblock
    PROVE  BodyCount'
<1> DEFINE q == blocked_send_frames
           f == Head(blocked_send_frames)
<1>0. DOMAIN at = Threads /\ "recv" \in Threads /\ at["recv"] = "unblock" /\ q \in Seq(Frame) /\ q # <<>>
  BY DEF Unblock, UnblockOK, Types, ThreadTypes, FlowTypes, Threads
<1>1. f \in Frame /\ f = q[1] /\ 1 \in DOMAIN q /\ Tail(q) \in Seq(Frame)
  BY <1>0
<1>2. PICK s \in StreamIds : s = f.stream
  BY <1>1 DEF BodyCount, SentTypes
<1>3. /\ UNCHANGED <<hand, request_body_left>> /\ Go("recv", "drain")
      /\ sent' = [sent EXCEPT ![s] = Append(@, f)] /\ blocked_send_frames' = Tail(q)
  BY <1>2 DEF Unblock, bodyVars
<1>4. OthersStay("recv") /\ at'["recv"] = "drain"
  BY <1>0, <1>3, GoMoves, OnlyOneMoves
<1>5. HandsQuiet
  BY <1>0, <1>3, <1>4 DEF HandsQuiet, OthersStay
<1>6. \A x : Whole(x)' => Whole(x)
  BY DEF Whole, RacesStay
<1>7. CutFits' /\ LeftFits'
  BY <1>3, <1>5, FitsKept DEF BodyCount, HandsQuiet
<1>8. sent \in [StreamIds -> Seq(Frame)]
  BY DEF BodyCount, SentTypes
<1>9. SentTypes'
  <2>1. Len(q) \in Nat \ {0} /\ Len(Tail(q)) = Len(q) - 1 /\ \A i \in 1 .. Len(Tail(q)) : Tail(q)[i] = q[i + 1]
    BY <1>0, HeadTailProperties
  <2>2. DOMAIN q = 1 .. Len(q) /\ DOMAIN Tail(q) = 1 .. Len(q) - 1
    BY <1>0, <1>1, <2>1
  <2>3. \A i \in DOMAIN Tail(q) : i + 1 \in DOMAIN q
    BY <2>1, <2>2
  <2>4. \A i \in DOMAIN Tail(q) : Tail(q)[i].stream \in StreamIds
    BY <2>1, <2>2, <2>3 DEF BodyCount, SentTypes
  <2>5. sent' \in [StreamIds -> Seq(Frame)]
    BY <1>1, <1>3, <1>8
  <2>6. QED
    BY <1>3, <2>4, <2>5 DEF SentTypes
<1> HIDE DEF f
<1>10. Counted'
  <2>1. SUFFICES ASSUME NEW x \in StreamIds, NEW b \in 0 .. BodyLen - 1, Whole(x)
                 PROVE  Cardinality(Places(sent'[x], x, b)) + Cardinality(Places(Tail(q), x, b))
                        + Cardinality(Held(x, b)') = One(b < BodyLen - request_body_left[x])
    BY <1>3, <1>6 DEF Counted
  <2>2. Cardinality(Places(sent'[x], x, b)) = Cardinality(Places(sent[x], x, b)) + One(Carries(f, x, b))
    <3>1. CASE x = s
      <4>1. sent'[x] = Append(sent[x], f) /\ sent[x] \in Seq(Frame)
        BY <1>3, <1>8, <3>1
      <4>2. QED
        BY <1>1, <4>1, PlacesOfAppend
    <3>2. CASE x # s
      <4>1. sent'[x] = sent[x] /\ ~Carries(f, x, b)
        BY <1>2, <1>3, <1>8, <3>2 DEF Carries
      <4>2. Cardinality(Places(sent[x], x, b)) \in Nat
        BY <1>8, PlacesFinite
      <4>3. QED
        BY <4>1, <4>2 DEF One
    <3>3. QED
      BY <3>1, <3>2
  <2>3. Cardinality(Places(q, x, b)) = Cardinality(Places(Tail(q), x, b)) + One(Carries(f, x, b))
    BY <1>0, PlacesOfTail DEF f
  <2>4. Cardinality(Held(x, b)') = Cardinality(Held(x, b))
    <3>1. Held(x, b)' = Held(x, b)
      BY <1>5, HeldSame DEF HandsQuiet
    <3>2. QED
      BY <3>1
  <2>5. Cardinality(Places(sent[x], x, b)) + Cardinality(Places(q, x, b)) + Cardinality(Held(x, b))
        = One(b < BodyLen - request_body_left[x])
    BY <2>1 DEF BodyCount, Counted
  <2>6. /\ Cardinality(Places(sent[x], x, b)) \in Nat /\ Cardinality(Places(Tail(q), x, b)) \in Nat
        /\ Cardinality(Held(x, b)) \in Nat /\ One(Carries(f, x, b)) \in Nat
    BY <1>1, <1>8, PlacesFinite, HeldFinite DEF One
  <2>7. QED
    BY <2>2, <2>3, <2>4, <2>5, <2>6
<1>11. QED
  BY <1>7, <1>9, <1>10 DEF BodyCount

\* The other steps of the thread that receives, and closing, move no frame.
LEMMA ReceiveCounts ==
    ASSUME Types, UnblockOK, BodyCount, RacesStay, ReceiveStep
    PROVE  BodyCount'
<1>1. CASE ~Unblock
  <2>1. UNCHANGED <<sent, blocked_send_frames, request_body_left>>
    BY <1>1 DEF ReceiveStep, Drain, Reopen, ConnectionUpdate, StreamUpdate, Settings, SettingsEnd,
       Acknowledged, Respond, EndStream, flowVars, bodyVars
  <2>2. "recv" \in Threads /\ DOMAIN at = Threads /\ at["recv"] \notin SendPlaces
    BY ReceiveMoves DEF Types, ThreadTypes, Threads
  <2>3. PICK place : Moves("recv", place) /\ (place \in SendPlaces => StreamUpdate)
    BY ReceiveMoves
  <2>4. \E f : hand' = hand \/ hand' = [hand EXCEPT !["recv"] = f]
    BY <1>1 DEF ReceiveStep, Drain, Reopen, ConnectionUpdate, StreamUpdate, Settings, SettingsEnd,
       Acknowledged, Respond, EndStream
  <2>5. OthersStay("recv") /\ at'["recv"] = place
    BY <2>2, <2>3, <2>4, OnlyOneMoves
  <2>6. place \notin {"cut", "offer", "block", "take"}
    BY <2>2, <2>3, <2>5 DEF StreamUpdate, Go, SendPlaces
  <2>7. HandsQuiet
    BY <2>2, <2>5, <2>6 DEF HandsQuiet, OthersStay, SendPlaces
  <2>8. QED
    BY <2>1, <2>7, QuietCounts
<1>2. QED
  BY <1>1, UnblockCounts

LEMMA CloseCounts ==
    ASSUME Types, BodyCount, RacesStay, NEW t \in Threads, CloseStep(t)
    PROVE  BodyCount'
<1>1. UNCHANGED <<sent, blocked_send_frames, request_body_left, hand>>
  BY DEF CloseStep, CloseBegins, HandBack, Down, flowVars, bodyVars
<1>2. at[t] \in {"close", "read", "idle", "hand_back"}
  BY CloseMoves
<1>3. PICK place \in {"idle", "hand_back"} : Moves(t, place)
  BY CloseMoves
<1>4. HandsQuiet
  BY <1>1, <1>2, <1>3 DEF HandsQuiet, Moves
<1>5. QED
  BY <1>1, <1>4, QuietCounts

------------------------------------------------------------------------------
LEMMA InitCounts == Init => BodyCount
<1> SUFFICES ASSUME Init PROVE BodyCount
  OBVIOUS
<1>1. /\ \A s \in StreamIds : sent[s] = <<>> /\ request_body_left[s] = BodyLen
      /\ sent = [s \in StreamIds |-> <<>>] /\ blocked_send_frames = <<>>
      /\ \A t \in Threads : at[t] \in {"idle", "read"}
  BY DEF Init, Rest
<1>2. DOMAIN <<>> = {} /\ BodyLen \in Nat
  BY Http2Assumption
<1>3. SentTypes /\ CutFits /\ LeftFits
  BY <1>1, <1>2 DEF SentTypes, CutFits, LeftFits
<1>4. Counted
  <2>1. SUFFICES ASSUME NEW s \in StreamIds, NEW b \in 0 .. BodyLen - 1
                 PROVE  Cardinality(Places(sent[s], s, b)) + Cardinality(Places(blocked_send_frames, s, b))
                        + Cardinality(Held(s, b)) = One(b < BodyLen - request_body_left[s])
    BY DEF Counted
  <2>2. Places(sent[s], s, b) = {} /\ Places(blocked_send_frames, s, b) = {} /\ Held(s, b) = {}
    BY <1>1, <1>2 DEF Places, Held
  <2>3. ~(b < BodyLen - request_body_left[s])
    BY <1>1, <1>2
  <2>4. QED
    BY <2>2, <2>3, FS_EmptySet DEF One
<1>5. QED
  BY <1>3, <1>4 DEF BodyCount

\* What has been cut from a body is in one frame, and what has not been cut is in none,
\* for any number of streams, any bodies and any windows (send_left_body, _send_cb,
\* increase_remote_window_size and the send queue).
THEOREM BodiesAccounted == Spec => []BodyAccounted
<1>1. Types /\ UnblockOK /\ BodyCount /\ RacesStay /\ [Next]_vars => BodyCount'
  <2> SUFFICES ASSUME Types, UnblockOK, BodyCount, RacesStay, [Next]_vars PROVE BodyCount'
    OBVIOUS
  <2>1. CASE UNCHANGED vars
    BY <2>1, QuietCounts DEF vars, flowVars, bodyVars, HandsQuiet
  <2>2. ASSUME NEW t \in {"req", "recv"}, SendStep(t) PROVE BodyCount'
    BY <2>2, SendCounts DEF Threads
  <2>3. ASSUME NEW t \in {"recv", "send"}, CloseStep(t) PROVE BodyCount'
    BY <2>3, CloseCounts DEF Threads
  <2>4. QED
    BY <2>1, <2>2, <2>3, RequestCounts, ReceiveCounts DEF Next
<1>2. Types /\ BodyCount => BodyAccounted
  <2> SUFFICES ASSUME Types, BodyCount, NEW s \in 1 .. next_stream - 1, Whole(s), NEW b \in 0 .. BodyLen - 1
               PROVE  Copies(s, b) = One(b < BodyLen - request_body_left[s])
    BY DEF BodyAccounted, Whole, One
  <2>1. s \in StreamIds
    BY Http2Assumption DEF Types, StreamTypes, StreamIds
  <2>2. {i \in Frames(sent[s], s) : b \in Bytes(sent[s][i])} = Places(sent[s], s, b)
    BY DEF Frames, Places, Carries
  <2>3. {i \in Frames(blocked_send_frames, s) : b \in Bytes(blocked_send_frames[i])}
        = Places(blocked_send_frames, s, b)
    BY DEF Frames, Places, Carries
  <2>4. {t \in InHand(s) : b \in Bytes(hand[t])} = Held(s, b)
    BY DEF InHand, Held, Carries
  <2>5. QED
    BY <2>1, <2>2, <2>3, <2>4 DEF Copies, BodyCount, Counted
<1>3. FlowInv => Types /\ UnblockOK
  BY DEF FlowInv
<1>4. QED
  BY <1>1, <1>2, <1>3, InitCounts, RacesGrow, InvariantOfFlow, PTL DEF Spec
==============================================================================
