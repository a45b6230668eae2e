-------------------------------- MODULE Http2 --------------------------------
(* An Http2Worker and its streams: the frames of requests under the windows   *)
(* of connection and stream, frames the connection's window blocks, and close. *)
(* The dispatcher's thread ("req") makes the requests, "recv" handles what the *)
(* server sends, "send" writes to the socket. None of them takes a lock that   *)
(* another one needs here, so they may alternate between any two statements.   *)
EXTENDS Integers, Sequences, FiniteSets

CONSTANTS
    MaxStreams,     \* bound: requests
    BodyLen,        \* of every request
    HeadLen,        \* of encoded headers
    MaxFrame,       \* remote_settings[MAX_FRAME_SIZE]
    ConnWindows,    \* what remote_window_size may be at first
    Windows,        \* values of INITIAL_WINDOW_SIZE the server may set
    StreamWindow,   \* its value at first
    Grant,          \* bytes a WINDOW_UPDATE grants
    MaxGrants,      \* bound: WINDOW_UPDATEs and SETTINGS
    MaxCuts,        \* bound: frames cut from a body
    Enough,         \* window below which no task is accepted (10000)
    MaxConcurrent   \* http2_max_concurrent

ASSUME Http2Assumption ==
    /\ {MaxStreams, BodyLen, HeadLen, MaxFrame, Grant, MaxConcurrent} \subseteq Nat \ {0}
    /\ Windows \subseteq Nat /\ ConnWindows \subseteq Nat
    /\ {StreamWindow, Enough, MaxGrants, MaxCuts} \subseteq Nat

StreamIds == 1 .. MaxStreams
Threads == {"req", "recv", "send"}

VARIABLES
    keep_running, accept_task, streams, next_stream,
    remote_window_size,     \* of the connection
    initial_window,         \* remote_settings[INITIAL_WINDOW_SIZE]
    blocked_send_frames,
    request_body_left, body_sended, stream_window,  \* of each stream
    task,           \* what has become of a stream's task
    retries,        \* how often retry_task_cb has got it
    at,             \* where a thread is
    hand,           \* the frame a thread is about to send
    seen,           \* the window it has read
    snapshot,       \* streams a close has still to handle
    sent,           \* frames put into send_queue, of each stream
    grants, cuts,   \* bounds
    acked,          \* the server has acknowledged our settings
    history         \* races that have happened, see the properties

flowVars == <<remote_window_size, blocked_send_frames, sent>>
bodyVars == <<request_body_left, body_sended, stream_window, cuts>>
taskVars == <<streams, next_stream, task, retries>>
stateVars == <<keep_running, accept_task, acked>>
serverVars == <<initial_window, grants>>
vars == <<stateVars, taskVars, flowVars, bodyVars, serverVars, at, hand, seen, snapshot, history>>

------------------------------------------------------------------------------
\* body[start : start + size] as Python cuts it.
Index(i) == IF i < 0 THEN IF BodyLen + i > 0 THEN BodyLen + i ELSE 0
            ELSE IF i < BodyLen THEN i ELSE BodyLen

SliceLen(start, size) ==
    IF Index(start + size) > Index(start) THEN Index(start + size) - Index(start) ELSE 0

NoFrame == [stream |-> 0, from |-> 0, len |-> 0, kind |-> "none"]

Least(S) == CHOOSE x \in S : \A y \in S : x <= y

Go(t, place) == at' = [at EXCEPT ![t] = place]

\* Where a thread is when it has nothing to do. h2_recv_loop ends with the worker.
Rest(t) == IF t = "recv" /\ keep_running THEN "read" ELSE "idle"

Init ==
    /\ keep_running = TRUE /\ accept_task = FALSE /\ acked = FALSE
    /\ streams = {} /\ next_stream = 1
    /\ remote_window_size \in ConnWindows /\ initial_window = StreamWindow
    /\ blocked_send_frames = <<>>
    /\ request_body_left = [s \in StreamIds |-> BodyLen]
    /\ body_sended = [s \in StreamIds |-> FALSE] /\ stream_window = [s \in StreamIds |-> 0]
    /\ task = [s \in StreamIds |-> "none"] /\ retries = [s \in StreamIds |-> 0]
    /\ at = [t \in Threads |-> Rest(t)] /\ hand = [t \in Threads |-> NoFrame]
    /\ seen = [t \in Threads |-> 0] /\ snapshot = [t \in Threads |-> {}]
    /\ sent = [s \in StreamIds |-> <<>>] /\ grants = 0 /\ cuts = [s \in StreamIds |-> 0]
    /\ history = [doubled |-> {}, shrunk |-> {}, raised |-> {}, late |-> {},
                  missed |-> FALSE, torn |-> FALSE, overtaken |-> FALSE,
                  twoClose |-> FALSE]

------------------------------------------------------------------------------
(* request.                                                                   *)

\* The dispatcher has chosen this worker. (A closed one gives the task back at once.)
Request ==
    /\ at["req"] = "idle" /\ next_stream \in StreamIds /\ accept_task /\ keep_running
    /\ Go("req", "open") /\ accept_task' = (Cardinality(streams) <= MaxConcurrent)
    /\ UNCHANGED <<keep_running, acked, taskVars, flowVars, bodyVars, serverVars, hand, seen, snapshot, history>>

\* The stream is made, its headers are to be sent.
OpenStream ==
    /\ at["req"] = "open" /\ next_stream \in StreamIds /\ Go("req", "offer")
    /\ LET s == next_stream
       IN  /\ next_stream' = s + 1 /\ streams' = streams \cup {s}
           /\ task' = [task EXCEPT ![s] = "held"]
           /\ stream_window' = [stream_window EXCEPT ![s] = initial_window]
           /\ hand' = [hand EXCEPT !["req"] =
                  [stream |-> s, from |-> 0, len |-> HeadLen, kind |-> "head"]]
           /\ history' = IF ~keep_running \/ \E t \in Threads : at[t] = "hand_back"
                         THEN [history EXCEPT !.late = @ \cup {s}] ELSE history
    /\ UNCHANGED <<stateVars, retries, flowVars, request_body_left, body_sended, cuts, serverVars, seen, snapshot>>

------------------------------------------------------------------------------
(* send_left_body.                                                            *)

\* After a frame: was it the last? Then the size of the next one.
Left(t) ==
    /\ at[t] = "left"
    /\ LET s == hand[t].stream
           isDone == body_sended[s] \/ (hand[t].kind \in {"data", "last"} /\ request_body_left[s] = 0)
       IN  /\ body_sended' = [body_sended EXCEPT ![s] = isDone]
           /\ IF stream_window[s] = 0 \/ isDone THEN Go(t, Rest(t)) /\ hand' = [hand EXCEPT ![t] = NoFrame]
              ELSE /\ Go(t, "cut")
                   /\ hand' = [hand EXCEPT ![t] =
                         [stream |-> s, from |-> 0, kind |-> "data",
                          len |-> Least({stream_window[s], request_body_left[s], MaxFrame})]]
    /\ UNCHANGED <<stateVars, taskVars, flowVars, request_body_left, stream_window, cuts, serverVars, seen, snapshot,
                   history>>

\* The frame is cut off and counted. Another thread may be cutting from this body, too.
Cut(t) ==
    /\ at[t] = "cut" /\ Go(t, "offer") /\ cuts[hand[t].stream] < MaxCuts
    /\ cuts' = [cuts EXCEPT ![hand[t].stream] = @ + 1]
    /\ LET s == hand[t].stream
           size == hand[t].len
           from == BodyLen - request_body_left[s]
       IN  /\ hand' = [hand EXCEPT ![t] = [stream |-> s, from |-> Index(from), len |-> SliceLen(from, size),
                                           kind |-> IF request_body_left[s] = size THEN "last" ELSE "data"]]
           /\ stream_window' = [stream_window EXCEPT ![s] = @ - size]
           /\ request_body_left' = [request_body_left EXCEPT ![s] = @ - size]
           /\ history' = [history EXCEPT
                  !.doubled = IF \E u \in Threads \ {t} : at[u] = "cut" /\ hand[u].stream = s
                              THEN @ \cup {s} ELSE @,
                  !.shrunk = IF size < 0 THEN @ \cup {s} ELSE @]
    /\ UNCHANGED <<stateVars, taskVars, flowVars, body_sended, serverVars, seen, snapshot>>

------------------------------------------------------------------------------
(* _send_cb.                                                                  *)

\* The frame fits into the window that is read, or does not.
Offer(t) ==
    /\ at[t] = "offer"
    /\ IF hand[t].len > remote_window_size THEN Go(t, "block") /\ UNCHANGED seen
       ELSE Go(t, "take") /\ seen' = [seen EXCEPT ![t] = remote_window_size]
    /\ UNCHANGED <<stateVars, taskVars, flowVars, bodyVars, serverVars, hand, snapshot, history>>

\* The window may have grown since.
Block(t) ==
    /\ at[t] = "block" /\ Go(t, "deny")
    /\ blocked_send_frames' = Append(blocked_send_frames, hand[t])
    /\ history' = [history EXCEPT !.missed = @ \/ hand[t].len <= remote_window_size]
    /\ UNCHANGED <<stateVars, taskVars, remote_window_size, sent, bodyVars, serverVars, hand, seen, snapshot>>

\* By now the frame may have been sent.
Deny(t) ==
    /\ at[t] = "deny" /\ Go(t, "left") /\ accept_task' = FALSE
    /\ history' = [history EXCEPT !.overtaken = @ \/ \A i \in DOMAIN blocked_send_frames :
                                                         blocked_send_frames[i] # hand[t]]
    /\ UNCHANGED <<keep_running, acked, taskVars, flowVars, bodyVars, serverVars, hand, seen, snapshot>>

\* Another thread may have changed the window since it has been read.
Wrote(t) ==
    /\ seen' = [seen EXCEPT ![t] = 0]
    /\ history' = [history EXCEPT !.torn = @ \/ seen[t] # remote_window_size]

\* What has been read is written back less the frame, which is put into the queue.
Take(t) ==
    /\ at[t] = "take" /\ Go(t, "left") /\ remote_window_size' = seen[t] - hand[t].len
    /\ sent' = [sent EXCEPT ![hand[t].stream] = Append(@, hand[t])] /\ Wrote(t)
    /\ UNCHANGED <<stateVars, taskVars, blocked_send_frames, bodyVars, serverVars, hand, snapshot>>

------------------------------------------------------------------------------
(* increase_remote_window_size: blocked frames that fit now are sent.         *)

Drain ==
    /\ at["recv"] = "drain"
    /\ \/ /\ blocked_send_frames = <<>>
          /\ Go("recv", "open") /\ UNCHANGED seen
       \/ /\ blocked_send_frames # <<>> /\ Head(blocked_send_frames).len > remote_window_size
          /\ Go("recv", Rest("recv")) /\ UNCHANGED seen
       \/ /\ blocked_send_frames # <<>> /\ Head(blocked_send_frames).len <= remote_window_size
          /\ Go("recv", "unblock") /\ seen' = [seen EXCEPT !["recv"] = remote_window_size]
    /\ UNCHANGED <<stateVars, taskVars, flowVars, bodyVars, serverVars, hand, snapshot, history>>

\* (Mutant: only the first blocked frame is sent.)
UnblockOne ==
    /\ at["recv"] = "unblock" /\ Go("recv", "open")
    /\ LET f == Head(blocked_send_frames)
       IN  /\ sent' = [sent EXCEPT ![f.stream] = Append(@, f)]
           /\ remote_window_size' = seen["recv"] - f.len
    /\ blocked_send_frames' = Tail(blocked_send_frames) /\ Wrote("recv")
    /\ UNCHANGED <<stateVars, taskVars, bodyVars, serverVars, hand, snapshot>>

\* (Mutant: the blocked frames are cleared.)
UnblockClears ==
    /\ at["recv"] = "unblock" /\ Go("recv", "drain")
    /\ LET f == Head(blocked_send_frames)
       IN  /\ sent' = [sent EXCEPT ![f.stream] = Append(@, f)]
           /\ remote_window_size' = seen["recv"] - f.len
    /\ blocked_send_frames' = <<>> /\ Wrote("recv")
    /\ UNCHANGED <<stateVars, taskVars, bodyVars, serverVars, hand, snapshot>>

Unblock ==
    /\ at["recv"] = "unblock" /\ Go("recv", "drain")
    /\ LET f == Head(blocked_send_frames)
       IN  /\ sent' = [sent EXCEPT ![f.stream] = Append(@, f)]
           /\ remote_window_size' = seen["recv"] - f.len
    /\ blocked_send_frames' = Tail(blocked_send_frames) /\ Wrote("recv")
    /\ UNCHANGED <<stateVars, taskVars, bodyVars, serverVars, hand, snapshot>>

\* Tasks are accepted again, after an increase and after the end of a stream.
Reopen ==
    /\ at["recv"] \in {"open", "reopen"} /\ Go("recv", Rest("recv"))
    /\ accept_task' = (accept_task \/ (keep_running /\ Cardinality(streams) < MaxConcurrent
                                       /\ remote_window_size > Enough))
    /\ UNCHANGED <<keep_running, acked, taskVars, flowVars, bodyVars, serverVars, hand, seen, snapshot, history>>

------------------------------------------------------------------------------
(* h2_recv_loop: what the server sends.                                       *)

Granting == at["recv"] = "read" /\ grants < MaxGrants /\ grants' = grants + 1

ConnectionUpdate ==
    /\ Granting /\ Go("recv", "drain") /\ remote_window_size' = remote_window_size + Grant
    /\ UNCHANGED <<stateVars, taskVars, blocked_send_frames, sent, bodyVars, initial_window, hand, seen, snapshot, history>>

\* (Mutant: a larger window does not send the rest of the body.)
StreamUpdateOnly ==
    /\ Granting /\ Go("recv", Rest("recv"))
    /\ \E s \in streams : /\ sent[s] # <<>>
                          /\ stream_window' = [stream_window EXCEPT ![s] = @ + Grant]
    /\ UNCHANGED <<stateVars, taskVars, flowVars, request_body_left, body_sended, cuts, initial_window, hand, seen,
                   snapshot, history>>

\* The server knows a stream when its headers have arrived.
StreamUpdate ==
    /\ Granting /\ Go("recv", "left")
    /\ \E s \in streams :
           /\ sent[s] # <<>>
           /\ stream_window' = [stream_window EXCEPT ![s] = @ + Grant]
           /\ hand' = [hand EXCEPT !["recv"] = [NoFrame EXCEPT !.stream = s]]
    /\ UNCHANGED <<stateVars, taskVars, flowVars, request_body_left, body_sended, cuts, initial_window, seen, snapshot, history>>

\* A new INITIAL_WINDOW_SIZE changes the windows of the streams, then the setting.
Settings ==
    /\ Granting
    /\ \E size \in Windows \ {initial_window} :
           LET delta == size - initial_window
           IN  /\ Go("recv", "settings") /\ seen' = [seen EXCEPT !["recv"] = size]
               /\ stream_window' = [s \in StreamIds |-> IF s \in streams THEN stream_window[s] + delta
                                                        ELSE stream_window[s]]
               /\ history' = IF delta > 0 THEN [history EXCEPT !.raised = @ \cup streams] ELSE history
    /\ UNCHANGED <<stateVars, taskVars, flowVars, request_body_left, body_sended, cuts, initial_window, hand, snapshot>>

SettingsEnd ==
    /\ at["recv"] = "settings" /\ Go("recv", Rest("recv")) /\ initial_window' = seen["recv"]
    /\ seen' = [seen EXCEPT !["recv"] = 0]
    /\ UNCHANGED <<stateVars, taskVars, flowVars, bodyVars, grants, hand, snapshot, history>>

\* An acknowledgement of our settings, or of a ping in a worker that runs.
Acknowledged ==
    /\ at["recv"] = "read" /\ Go("recv", Rest("recv"))
    /\ \/ ~acked /\ acked' = TRUE
       \/ acked /\ keep_running /\ UNCHANGED acked
    /\ accept_task' = TRUE
    /\ UNCHANGED <<keep_running, taskVars, flowVars, bodyVars, serverVars, hand, seen, snapshot, history>>

\* The headers of a response; the status may be one that closes the worker.
Respond ==
    /\ at["recv"] = "read"
    /\ \E s \in streams : /\ sent[s] # <<>> /\ task[s] = "held"
                          /\ task' = [task EXCEPT ![s] = "responsed"]
    /\ Go("recv", Rest("recv")) \/ Go("recv", "close")
    /\ UNCHANGED <<stateVars, streams, next_stream, retries, flowVars, bodyVars, serverVars, hand, seen, snapshot, history>>

\* (Mutant: the end of a stream does not open the worker again.)
EndStreamOnly ==
    /\ at["recv"] = "read"
    /\ \E s \in streams : /\ task[s] = "responsed"
                          /\ task' = [task EXCEPT ![s] = "finished"]
                          /\ streams' = streams \ {s}
    /\ Go("recv", Rest("recv")) \/ (streams' = {} /\ Go("recv", "close"))
    /\ UNCHANGED <<stateVars, next_stream, retries, flowVars, bodyVars, serverVars, hand, seen, snapshot, history>>

\* END_STREAM: the task is finished, the stream is taken from the list.
EndStream ==
    /\ at["recv"] = "read"
    /\ \E s \in streams : /\ task[s] = "responsed"
                          /\ task' = [task EXCEPT ![s] = "finished"]
                          /\ streams' = streams \ {s}
    /\ Go("recv", "reopen") \/ (streams' = {} /\ Go("recv", "close"))
    /\ UNCHANGED <<stateVars, next_stream, retries, flowVars, bodyVars, serverVars, hand, seen, snapshot, history>>

------------------------------------------------------------------------------
(* close.                                                                     *)

Closing(t) == at[t] = "hand_back"

\* (Mutant: close looks at the streams when it has cleared them.)
CloseForgets(t) ==
    /\ at[t] \in {"close", "read"} \/ (t = "send" /\ at[t] = "idle" /\ keep_running)
    /\ Go(t, "hand_back") /\ snapshot' = [snapshot EXCEPT ![t] = {}]
    /\ history' = [history EXCEPT !.twoClose = @ \/ \E u \in Threads \ {t} : Closing(u)]
    /\ UNCHANGED <<stateVars, taskVars, flowVars, bodyVars, serverVars, hand, seen>>

\* For RST_STREAM, GOAWAY and bad statuses, and when the socket fails in either loop.
CloseBegins(t) ==
    /\ at[t] \in {"close", "read"} \/ (t = "send" /\ at[t] = "idle" /\ keep_running)
    /\ Go(t, "hand_back") /\ snapshot' = [snapshot EXCEPT ![t] = streams]
    /\ history' = [history EXCEPT !.twoClose = @ \/ \E u \in Threads \ {t} : Closing(u)]
    /\ UNCHANGED <<stateVars, taskVars, flowVars, bodyVars, serverVars, hand, seen>>

\* The close of HttpWorker. The worker is taken from the list of workers.
WorkerDown == keep_running' = FALSE /\ accept_task' = (accept_task /\ ~keep_running)

\* A task without a response is retried, unless its time is over; the others end.
HandBack(t) ==
    /\ at[t] = "hand_back" /\ snapshot[t] # {}
    /\ LET s == Least(snapshot[t])
       IN  /\ snapshot' = [snapshot EXCEPT ![t] = @ \ {s}]
           /\ \/ /\ task[s] = "held" /\ retries' = [retries EXCEPT ![s] = @ + 1]
                 /\ UNCHANGED <<task, streams, keep_running, accept_task>>
              \/ /\ task' = [task EXCEPT ![s] = IF @ = "held" THEN "expired" ELSE "finished"]
                 /\ streams' = streams \ {s} /\ UNCHANGED retries
                 /\ \/ /\ UNCHANGED keep_running
                       /\ accept_task' = (accept_task \/ (keep_running /\ remote_window_size > Enough
                                                          /\ Cardinality(streams') < MaxConcurrent))
                    \/ streams' = {} /\ WorkerDown     \* life end
    /\ UNCHANGED <<acked, next_stream, flowVars, bodyVars, serverVars, at, hand, seen, history>>

\* The streams are forgotten, and the worker is down.
Down(t) ==
    /\ at[t] = "hand_back" /\ snapshot[t] = {} /\ Go(t, "idle")
    /\ streams' = {} /\ WorkerDown
    /\ UNCHANGED <<acked, next_stream, task, retries, flowVars, bodyVars, serverVars, hand, seen, snapshot, history>>

------------------------------------------------------------------------------
SendStep(t) == Left(t) \/ Cut(t) \/ Offer(t) \/ Block(t) \/ Deny(t) \/ Take(t)

ReceiveStep ==
    \/ Drain \/ Unblock \/ Reopen \/ ConnectionUpdate \/ StreamUpdate
    \/ Settings \/ SettingsEnd \/ Acknowledged \/ Respond \/ EndStream

CloseStep(t) == CloseBegins(t) \/ HandBack(t) \/ Down(t)

Next ==
    \/ Request \/ OpenStream
    \/ \E t \in {"req", "recv"} : SendStep(t)
    \/ ReceiveStep
    \/ \E t \in {"recv", "send"} : CloseStep(t)

Spec == Init /\ [][Next]_vars
------------------------------------------------------------------------------
\* The bytes of the body that a frame carries.
Bytes(f) == IF f.kind = "head" THEN {} ELSE f.from .. (f.from + f.len - 1)

Frames(q, s) == {i \in DOMAIN q : q[i].stream = s}

InHand(s) == {t \in Threads : at[t] \in {"offer", "block", "take"} /\ hand[t].stream = s}

\* In how many places a byte is: queued, blocked, or about to be one of them.
Copies(s, b) ==
    Cardinality({i \in Frames(sent[s], s) : b \in Bytes(sent[s][i])})
    + Cardinality({i \in Frames(blocked_send_frames, s) : b \in Bytes(blocked_send_frames[i])})
    + Cardinality({t \in InHand(s) : b \in Bytes(hand[t])})

\* What has been cut from a body is in one frame, which is queued or blocked, and what
\* has not been cut is in none: while two threads send from the same body, and while
\* frames are blocked and let go. The two ways to spoil a body are excepted: both
\* threads cut a frame at once, and a window that SETTINGS have made negative.
BodyAccounted ==
    \A s \in 1 .. next_stream - 1 : s \notin history.doubled \cup history.shrunk =>
        \A b \in 0 .. BodyLen - 1 : Copies(s, b) = IF b < BodyLen - request_body_left[s] THEN 1 ELSE 0

Resting == \A t \in Threads : at[t] \in {"idle", "read"}

\* A frame does not stay blocked when the connection's window has room for it. The
\* race that lets it: the window grows, and finds nothing blocked, between the test
\* of a frame and its being put aside, or one thread overwrites another's change of it.
NoBlockedForgotten ==
    Resting /\ keep_running /\ blocked_send_frames # <<>>
    /\ ~history.missed /\ ~history.torn =>
        Head(blocked_send_frames).len > remote_window_size

\* A body goes on while its stream's window has room: whichever of the two threads
\* stops sending, the other has seen that there is nothing to do. SETTINGS that raise the
\* window do not wake it, and a body that has grown again may be taken for complete.
BodyGoesOn ==
    Resting /\ keep_running =>
        \A s \in streams \ (history.raised \cup history.shrunk) :
            request_body_left[s] > 0 => stream_window[s] <= 0

\* A worker with nothing to do accepts tasks, however blocked frames, new requests and
\* the ends of streams have followed each other in setting accept_task. There are two
\* exceptions: a blocked frame is sent and its stream ended before the thread that has
\* put it aside refuses tasks; one thread overwrites another's change of the window.
AcceptsWhenFree ==
    /\ Resting /\ keep_running /\ acked
    /\ streams = {} /\ blocked_send_frames = <<>> /\ remote_window_size > Enough
    /\ ~history.torn /\ ~history.overtaken
    => accept_task

\* A worker that has been closed has given every task back or ended it: all but those
\* of streams made while it was closed. One close gives none back twice.
TasksHandedOn ==
    /\ ~keep_running =>
           \A s \in 1 .. next_stream - 1 : s \notin history.late => retries[s] > 0 \/ task[s] \in {"finished", "expired"}
    /\ ~history.twoClose => \A s \in StreamIds : retries[s] + (IF task[s] = "expired" THEN 1 ELSE 0) <= 1

\* Documentation (http2_stream.py, line 12): a stream is a sequence of headers and data.
\* Its frames are to be queued in the order of the body.
BodyInOrder ==
    \A s \in StreamIds : \A i, j \in DOMAIN sent[s] :
        i < j /\ {sent[s][i].kind, sent[s][j].kind} \subseteq {"data", "last"} => sent[s][i].from <= sent[s][j].from
==============================================================================
