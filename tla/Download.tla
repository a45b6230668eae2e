------------------------------ MODULE Download ------------------------------
(***************************************************************************)
(* The download side of a running AsyncProxySession and the life of its    *)
(* connections (x_tunnel/local/async_proxy_session.py,                     *)
(* async_base_container.py, async_client.py): workers pass the blocks of   *)
(* their responses to the receive process, whose handler splits them into  *)
(* the connections' commands; each connection executes its commands by     *)
(* their number, writes the data to the application's socket and tells the *)
(* server of what the application writes and of the end.                   *)
(*                                                                         *)
(* Several workers deliver responses at the same time and are suspended in *)
(* drain() or wait_closed(); a connection can be stopped by its peer's     *)
(* close, by its reader task and by the relay task of the proxy handler.   *)
(* Every await of a coroutine that may suspend ends a step; the locks that *)
(* are never held across one are left out, the pipe's lock is not.  Data   *)
(* is counted in pieces, one per command.                                  *)
(***************************************************************************)
EXTENDS ReceiveProcess, Sequences, SequencesExt, FiniteSets

CONSTANTS Workers,         \* the round_trip_worker tasks
          Conns,           \* connections
          Blocks,          \* external: the server's blocks, by sn
          WindowsAck,      \* windows_ack, in pieces
          MaxResponses,    \* bound: responses with data
          MaxPieces,       \* bound: commands an application's writes may bring it to
          MaxMarks         \* bound: blocks marked at a time

\* A block is a sequence of commands.  The server numbers the commands of a
\* connection from 1 and closes a connection with the last one.
Record == [conn : Conns, seq : Nat \ {0}, cmd : {"data", "ack", "close"}]
Commands(sns) == UNION {Range(Blocks[sn]) : sn \in sns}

ASSUME DownloadAssumption ==
  /\ IsFiniteSet(Workers) /\ IsFiniteSet(Conns)
  /\ Blocks \in Seq(Seq(Record))
  /\ WindowsAck \in Nat /\ MaxResponses \in Nat
  /\ MaxPieces \in Nat /\ MaxMarks \in Nat

\* A number stands for one command of its connection.
ASSUME ServerAssumption ==
  \A q, r \in Commands(DOMAIN Blocks) : q.conn = r.conn /\ q.seq = r.seq => q = r

VARIABLES
  todo,                    \* blocks of each worker's response not yet put, in their order
  ready,                   \* commands of the blocks it collected
  at,                      \* where it is: "idle", or in which step for conn
  responses,               \* history: responses with data so far
  conn_list,               \* connections the session knows
  running,                 \* conn.running
  writer,                  \* "none", "open" or "closed" (by writer.close())
  sock,                    \* conn.sock is not None
  next_cmd_seq,
  cmd_queue,               \* conn._cmd_queue: seq -> cmd
  sended_position,
  sent_window_position,
  transferred_close,       \* transferred_close_to_peer
  next_recv_seq,
  reader,                  \* the reader task: none, reading, ending, stopping, ended
  relay,                   \* the proxy handler: none, reply, on or bare (relaying with
                           \* or without the connection), told, stopping, ended, failed
  app,                     \* "none", "open" or "gone": the application
  pieces,                  \* written by the application, not yet read
  pipe_lock,               \* the connection whose reader task holds the pipe's lock
  output,                  \* history: data commands written to the socket
  dropped,                 \* history: data commands dropped without a writer
  upload                   \* history: what went into the send buffer

workerVars == <<todo, ready, at, responses>>
cmdVars == <<next_cmd_seq, cmd_queue, output, dropped>>
stopVars == <<conn_list, running, writer, sock>>
ackVars == <<sended_position, sent_window_position>>
upVars == <<transferred_close, next_recv_seq, upload>>
taskVars == <<reader, relay, app, pieces, pipe_lock>>
vars == <<receiveVars, workerVars, cmdVars, stopVars, ackVars, upVars, taskVars>>

Idle == [step |-> "idle", conn |-> "none"]
In(step, c) == [step |-> step, conn |-> c]
NoCommands == [seq \in {} |-> "data"]

InitDownload ==
  /\ InitReceive
  /\ todo = [w \in Workers |-> {}]
  /\ ready = [w \in Workers |-> <<>>]
  /\ at = [w \in Workers |-> Idle]
  /\ responses = 0
  /\ conn_list = {}
  /\ running = [c \in Conns |-> TRUE]
  /\ writer = [c \in Conns |-> "none"]
  /\ sock = [c \in Conns |-> TRUE]
  /\ next_cmd_seq = [c \in Conns |-> 1]
  /\ cmd_queue = [c \in Conns |-> NoCommands]
  /\ sended_position = [c \in Conns |-> 0]
  /\ sent_window_position = [c \in Conns |-> 0]
  /\ transferred_close = [c \in Conns |-> FALSE]
  /\ next_recv_seq = [c \in Conns |-> 1]
  /\ reader = [c \in Conns |-> "none"]
  /\ relay = [c \in Conns |-> "none"]
  /\ app = [c \in Conns |-> "none"]
  /\ pieces = [c \in Conns |-> 0]
  /\ pipe_lock = "none"
  /\ output = [c \in Conns |-> <<>>]
  /\ dropped = [c \in Conns |-> {}]
  /\ upload = [c \in Conns |-> <<>>]

-----------------------------------------------------------------------------
(***************************************************************************)
(* What a connection tells the server                                      *)
(***************************************************************************)
Tell(c, kind) ==
  /\ upload' = [upload EXCEPT ![c] = Append(@, [seq |-> next_recv_seq[c], kind |-> kind])]
  /\ next_recv_seq' = [next_recv_seq EXCEPT ![c] = @ + 1]

\* (Mutant: also after the close.)
TransferAlways(c, kind) == Tell(c, kind) /\ UNCHANGED transferred_close

\* transfer_received_data and transfer_ack: not after the close.
Transfer(c, kind) ==
  /\ UNCHANGED transferred_close
  /\ IF transferred_close[c] THEN UNCHANGED <<upload, next_recv_seq>> ELSE Tell(c, kind)

\* transfer_peer_close
TransferClose(c) ==
  /\ transferred_close' = [transferred_close EXCEPT ![c] = TRUE]
  /\ IF transferred_close[c] THEN UNCHANGED <<upload, next_recv_seq>> ELSE Tell(c, "close")

(***************************************************************************)
(* stop_async: up to the wait for the writer to close, and after it.       *)
(* Without a writer there is no wait.                                      *)
(***************************************************************************)
BeginStop(c) ==
  /\ running' = [running EXCEPT ![c] = FALSE]
  /\ writer' = [writer EXCEPT ![c] = IF @ = "none" THEN "none" ELSE "closed"]
  /\ IF writer[c] = "none"
       THEN /\ sock' = [sock EXCEPT ![c] = FALSE]
            /\ conn_list' = conn_list \ {c}
       ELSE UNCHANGED <<sock, conn_list>>

EndStop(c) ==
  /\ writer' = [writer EXCEPT ![c] = "none"]
  /\ sock' = [sock EXCEPT ![c] = FALSE]
  /\ conn_list' = conn_list \ {c}
  /\ UNCHANGED running

-----------------------------------------------------------------------------
(***************************************************************************)
(* Connections: created and attached to their sockets, and their tasks     *)
(***************************************************************************)
\* create_conn up to the wait in add_sock.  The connect command goes first.
CreateConn(c) ==
  /\ app[c] = "none"
  /\ conn_list' = conn_list \cup {c}
  /\ app' = [app EXCEPT ![c] = "open"]
  /\ UNCHANGED <<receiveVars, workerVars, cmdVars, running, writer, sock, ackVars, upVars,
                 reader, relay, pieces, pipe_lock>>

\* The rest of add_sock, and the proxy handler goes on to its reply.  The
\* connection may have been stopped meanwhile, and its socket closed.
AddSock(c) ==
  /\ app[c] # "none" /\ reader[c] = "none" /\ relay[c] = "none"
  /\ pipe_lock = "none"
  /\ writer' = [writer EXCEPT ![c] = "open"]
  /\ reader' = [reader EXCEPT ![c] = "reading"]
  /\ relay' = [relay EXCEPT ![c] = "reply"]
  /\ UNCHANGED <<receiveVars, workerVars, cmdVars, conn_list, running, sock, ackVars,
                 upVars, app, pieces, pipe_lock>>

AddSockFails(c) ==
  /\ app[c] # "none" /\ reader[c] = "none" /\ relay[c] = "none"
  /\ ~sock[c]
  /\ relay' = [relay EXCEPT ![c] = "reply"]
  /\ UNCHANGED <<receiveVars, workerVars, cmdVars, stopVars, ackVars, upVars,
                 reader, app, pieces, pipe_lock>>

\* The handler's reply is drained, it looks the connection up, which may be
\* gone by now, and attaches its end of the socket pair.
HandlerRelays(c) ==
  /\ relay[c] = "reply"
  /\ relay' = [relay EXCEPT ![c] = IF c \in conn_list THEN "on" ELSE "bare"]
  /\ UNCHANGED <<receiveVars, workerVars, cmdVars, stopVars, ackVars, upVars,
                 reader, app, pieces, pipe_lock>>

\* Or the reply fails, or the socket cannot be attached: the handler closes
\* its ends without a word to the connection or the server.
HandlerFails(c) ==
  /\ relay[c] = "reply"
  /\ relay' = [relay EXCEPT ![c] = "failed"]
  /\ app' = [app EXCEPT ![c] = "gone"]
  /\ UNCHANGED <<receiveVars, workerVars, cmdVars, stopVars, ackVars, upVars,
                 reader, pieces, pipe_lock>>

\* The application writes, or closes its connection.
AppWrite(c) ==
  /\ app[c] = "open" /\ relay[c] \in {"on", "bare"}
  /\ Len(upload[c]) + pieces[c] < MaxPieces
  /\ pieces' = [pieces EXCEPT ![c] = @ + 1]
  /\ UNCHANGED <<receiveVars, workerVars, cmdVars, stopVars, ackVars, upVars,
                 reader, relay, app, pipe_lock>>

AppClose(c) ==
  /\ app[c] = "open"
  /\ app' = [app EXCEPT ![c] = "gone"]
  /\ UNCHANGED <<receiveVars, workerVars, cmdVars, stopVars, ackVars, upVars,
                 reader, relay, pieces, pipe_lock>>

\* _conn_reader_loop, on_data_received
ReadPiece(c) ==
  /\ reader[c] = "reading" /\ running[c]
  /\ pieces[c] > 0
  /\ pieces' = [pieces EXCEPT ![c] = @ - 1]
  /\ Transfer(c, "data")
  /\ UNCHANGED <<receiveVars, workerVars, cmdVars, stopVars, ackVars,
                 reader, relay, app, pipe_lock>>

\* The handler has closed its end and everything is read.
EndOfFile(c) == app[c] = "gone" /\ relay[c] \notin {"none", "reply"} /\ pieces[c] = 0

\* (Mutant: while True instead of while running; only an end of file ends it.)
ReaderEndOnEof(c) ==
  /\ reader[c] = "reading"
  /\ \/ EndOfFile(c)
     \/ writer[c] # "open"
  /\ reader' = [reader EXCEPT ![c] = "ending"]
  /\ UNCHANGED <<receiveVars, workerVars, cmdVars, stopVars, ackVars, upVars,
                 relay, app, pieces, pipe_lock>>

\* The loop ends: at the end of the file, or because the connection was stopped.
ReaderEnd(c) ==
  /\ reader[c] = "reading"
  /\ \/ EndOfFile(c)
     \/ ~running[c]
  /\ reader' = [reader EXCEPT ![c] = "ending"]
  /\ UNCHANGED <<receiveVars, workerVars, cmdVars, stopVars, ackVars, upVars,
                 relay, app, pieces, pipe_lock>>

\* _remove_conn stops the connection while it holds the pipe's lock.
ReaderStop(c) ==
  /\ reader[c] = "ending" /\ pipe_lock = "none"
  /\ BeginStop(c)
  /\ IF writer[c] = "none"
       THEN /\ reader' = [reader EXCEPT ![c] = "ended"]
            /\ UNCHANGED pipe_lock
       ELSE /\ reader' = [reader EXCEPT ![c] = "stopping"]
            /\ pipe_lock' = c
  /\ UNCHANGED <<receiveVars, workerVars, cmdVars, ackVars, upVars, relay, app, pieces>>

ReaderStopped(c) ==
  /\ reader[c] = "stopping"
  /\ EndStop(c)
  /\ reader' = [reader EXCEPT ![c] = "ended"]
  /\ pipe_lock' = "none"
  /\ UNCHANGED <<receiveVars, workerVars, cmdVars, ackVars, upVars, relay, app, pieces>>

\* (Mutant: a connection that was stopped tells nothing.)
RelayEndQuietly(c) ==
  /\ relay[c] \in {"on", "bare"}
  /\ app[c] = "gone" \/ ~sock[c]
  /\ IF relay[c] = "on" /\ running[c] THEN TransferClose(c) ELSE UNCHANGED upVars
  /\ relay' = [relay EXCEPT ![c] = IF @ = "on" THEN "told" ELSE "ended"]
  /\ app' = [app EXCEPT ![c] = "gone"]
  /\ UNCHANGED <<receiveVars, workerVars, cmdVars, stopVars, ackVars,
                 reader, pieces, pipe_lock>>

\* _start_relay_and_conn: both directions are over once the application has
\* closed its side, or writes to a connection that was stopped; then the close
\* goes to the peer and the connection stops, if the handler has found it.
RelayEnd(c) ==
  /\ relay[c] \in {"on", "bare"}
  /\ app[c] = "gone" \/ ~sock[c]
  /\ IF relay[c] = "on" THEN TransferClose(c) ELSE UNCHANGED upVars
  /\ relay' = [relay EXCEPT ![c] = IF @ = "on" THEN "told" ELSE "ended"]
  /\ app' = [app EXCEPT ![c] = "gone"]
  /\ UNCHANGED <<receiveVars, workerVars, cmdVars, stopVars, ackVars,
                 reader, pieces, pipe_lock>>

RelayStop(c) ==
  /\ relay[c] = "told"
  /\ IF running[c]
       THEN /\ BeginStop(c)
            /\ relay' = [relay EXCEPT ![c] = IF writer[c] = "none" THEN "ended" ELSE "stopping"]
       ELSE /\ relay' = [relay EXCEPT ![c] = "ended"]
            /\ UNCHANGED stopVars
  /\ UNCHANGED <<receiveVars, workerVars, cmdVars, ackVars, upVars,
                 reader, app, pieces, pipe_lock>>

RelayStopped(c) ==
  /\ relay[c] = "stopping"
  /\ EndStop(c)
  /\ relay' = [relay EXCEPT ![c] = "ended"]
  /\ UNCHANGED <<receiveVars, workerVars, cmdVars, ackVars, upVars,
                 reader, app, pieces, pipe_lock>>

-----------------------------------------------------------------------------
(***************************************************************************)
(* Workers: blocks, commands                                               *)
(***************************************************************************)
\* The connections the server may mention in its blocks.
MentionedIn(sns) == {r.conn : r \in Commands(sns)}

\* A response: some blocks in their order, sent for the first time or again.
Respond(w, sns) ==
  /\ at[w] = Idle /\ todo[w] = {} /\ ready[w] = <<>>
  /\ responses < MaxResponses
  /\ sns # {} /\ sns \subseteq DOMAIN Blocks
  /\ \A c \in MentionedIn(sns) : app[c] # "none"
  /\ todo' = [todo EXCEPT ![w] = sns]
  /\ responses' = responses + 1
  /\ UNCHANGED <<receiveVars, ready, at, cmdVars, stopVars, ackVars, upVars, taskVars>>

PutBlock(w) ==
  /\ at[w] = Idle /\ ready[w] = <<>>
  /\ \E sn \in todo[w] :
        /\ \A other \in todo[w] : sn <= other
        /\ Put(sn)
        /\ todo' = [todo EXCEPT ![w] = @ \ {sn}]
  /\ ready' = [ready EXCEPT ![w] =
                 FlattenSeq([i \in 1 .. (next_sn' - next_sn) |-> Blocks[next_sn + i - 1]])]
  /\ UNCHANGED <<at, responses, cmdVars, stopVars, ackVars, upVars, taskVars>>

\* (Mutant: only what comes after the next command is taken.)
AcceptedLater(r) == r.conn \in conn_list /\ running[r.conn] /\ r.seq > next_cmd_seq[r.conn]

\* download_data_processor and put_cmd_data
Accepted(r) == r.conn \in conn_list /\ running[r.conn] /\ r.seq >= next_cmd_seq[r.conn]

HandleCommand(w) ==
  LET r == Head(ready[w])
  IN  /\ at[w] = Idle /\ ready[w] # <<>>
      /\ ready' = [ready EXCEPT ![w] = Tail(@)]
      /\ IF Accepted(r)
           THEN /\ cmd_queue' = [cmd_queue EXCEPT ![r.conn] =
                                   [seq \in DOMAIN @ \cup {r.seq} |->
                                      IF seq = r.seq THEN r.cmd ELSE @[seq]]]
                /\ at' = [at EXCEPT ![w] = IF r.seq = next_cmd_seq[r.conn]
                                             THEN In("process", r.conn) ELSE Idle]
           ELSE UNCHANGED <<cmd_queue, at>>
      /\ UNCHANGED <<receiveVars, todo, responses, next_cmd_seq, output, dropped,
                     stopVars, ackVars, upVars, taskVars>>

\* (Mutant: one command at a time.)
ProcessEndEarly(w) ==
  LET c == at[w].conn
  IN  /\ at[w].step = "process"
      /\ at' = [at EXCEPT ![w] = Idle]
      /\ UNCHANGED <<receiveVars, todo, ready, responses, cmdVars, stopVars, ackVars,
                     upVars, taskVars>>

\* _process_next_cmd: nothing more to do ...
ProcessEnd(w) ==
  LET c == at[w].conn
  IN  /\ at[w].step = "process"
      /\ ~running[c] \/ next_cmd_seq[c] \notin DOMAIN cmd_queue[c]
      /\ at' = [at EXCEPT ![w] = Idle]
      /\ UNCHANGED <<receiveVars, todo, ready, responses, cmdVars, stopVars, ackVars,
                     upVars, taskVars>>

\* (Mutant: the first command in the queue is taken, be it the next or not.)
TakeFirstCommand(w, cmd) ==
  LET c == at[w].conn
  IN  /\ at[w].step = "process" /\ running[c]
      /\ \E n \in DOMAIN cmd_queue[c] :
            /\ \A seq \in DOMAIN cmd_queue[c] : n <= seq
            /\ cmd_queue[c][n] = cmd
            /\ cmd_queue' = [cmd_queue EXCEPT ![c] = [seq \in DOMAIN @ \ {n} |-> @[seq]]]
            /\ next_cmd_seq' = [next_cmd_seq EXCEPT ![c] = n + 1]

\* ... or the next command is taken
TakeCommand(w, cmd) ==
  LET c == at[w].conn
      n == next_cmd_seq[c]
  IN  /\ at[w].step = "process" /\ running[c]
      /\ n \in DOMAIN cmd_queue[c] /\ cmd_queue[c][n] = cmd
      /\ cmd_queue' = [cmd_queue EXCEPT ![c] = [seq \in DOMAIN @ \ {n} |-> @[seq]]]
      /\ next_cmd_seq' = [next_cmd_seq EXCEPT ![c] = n + 1]

\* (Mutant: data without a writer counts, too.)
ProcessDataCounts(w) ==
  LET c == at[w].conn
  IN  /\ TakeCommand(w, "data")
      /\ IF writer[c] # "none"
           THEN /\ output' = [output EXCEPT ![c] = Append(@, next_cmd_seq[c])]
                /\ UNCHANGED dropped
           ELSE /\ dropped' = [dropped EXCEPT ![c] = @ \cup {next_cmd_seq[c]}]
                /\ UNCHANGED output
      /\ at' = [at EXCEPT ![w] = In("drain", c)]
      /\ UNCHANGED <<receiveVars, todo, ready, responses, stopVars, ackVars, upVars, taskVars>>

\* _send_to_writer, up to drain(); without a writer the data is gone.
ProcessData(w) ==
  LET c == at[w].conn
  IN  /\ TakeCommand(w, "data")
      /\ IF writer[c] # "none"
           THEN /\ output' = [output EXCEPT ![c] = Append(@, next_cmd_seq[c])]
                /\ at' = [at EXCEPT ![w] = In("drain", c)]
                /\ UNCHANGED dropped
           ELSE /\ dropped' = [dropped EXCEPT ![c] = @ \cup {next_cmd_seq[c]}]
                /\ UNCHANGED <<output, at>>
      /\ UNCHANGED <<receiveVars, todo, ready, responses, stopVars, ackVars, upVars, taskVars>>

\* An ack only moves a position that is logged.
ProcessAck(w) ==
  /\ TakeCommand(w, "ack")
  /\ UNCHANGED <<receiveVars, workerVars, output, dropped, stopVars, ackVars, upVars, taskVars>>

\* The peer's close.  Because of too many connections it resets the session:
\* the worker goes on in SessionLife (Answered) and has no further step here.
ProcessClose(w) ==
  LET c == at[w].conn
  IN  /\ TakeCommand(w, "close")
      /\ TransferClose(c)
      /\ \/ /\ BeginStop(c)
            /\ at' = [at EXCEPT ![w] = IF writer[c] = "none" THEN Idle ELSE In("stop", c)]
         \/ at' = [at EXCEPT ![w] = In("reset", c)] /\ UNCHANGED stopVars
      /\ UNCHANGED <<receiveVars, todo, ready, responses, output, dropped, ackVars, taskVars>>

\* drain() returns: the data counts as sent and is acked by the window.
Drained(w) ==
  LET c    == at[w].conn
      sent == sended_position[c] + 1
  IN  /\ at[w].step = "drain"
      /\ at' = [at EXCEPT ![w] = In("process", c)]
      /\ sended_position' = [sended_position EXCEPT ![c] = sent]
      /\ IF sent - sent_window_position[c] > WindowsAck
           THEN /\ sent_window_position' = [sent_window_position EXCEPT ![c] = sent]
                /\ Transfer(c, "ack")
           ELSE UNCHANGED <<sent_window_position, upVars>>
      /\ UNCHANGED <<receiveVars, todo, ready, responses, cmdVars, stopVars, taskVars>>

\* drain() raises: the socket is closed or broken.
DrainFails(w) ==
  LET c == at[w].conn
  IN  /\ at[w].step = "drain"
      /\ app[c] = "gone" \/ writer[c] # "open"
      /\ at' = [at EXCEPT ![w] = In("process", c)]
      /\ UNCHANGED <<receiveVars, todo, ready, responses, cmdVars, stopVars, ackVars,
                     upVars, taskVars>>

Stopped(w) ==
  LET c == at[w].conn
  IN  /\ at[w].step = "stop"
      /\ EndStop(c)
      /\ at' = [at EXCEPT ![w] = Idle]
      /\ UNCHANGED <<receiveVars, todo, ready, responses, cmdVars, ackVars, upVars, taskVars>>

\* The server's list of what it sent long ago.
ServerUnacked(sn) ==
  /\ sn \notin timeout_list
  /\ Cardinality(timeout_list) < MaxMarks
  /\ MarkTimeout(sn)
  /\ UNCHANGED <<workerVars, cmdVars, stopVars, ackVars, upVars, taskVars>>

\* A worker resets the session, which ends it.
Resetting == \E w \in Workers : at[w].step = "reset"

\* Everything is over.
Quiet ==
  /\ \A c \in Conns : /\ app[c] = "gone" /\ relay[c] \in {"ended", "failed"}
                      /\ reader[c] \in {"none", "ended"}
  /\ \A w \in Workers : \/ at[w] = Idle /\ ready[w] = <<>> /\ todo[w] = {}
                        \/ at[w].step = "reset"
  /\ UNCHANGED vars

-----------------------------------------------------------------------------
ConnStep(c) == \/ AddSock(c) \/ AddSockFails(c) \/ HandlerRelays(c) \/ HandlerFails(c)
               \/ ReadPiece(c) \/ ReaderEnd(c) \/ ReaderStop(c) \/ ReaderStopped(c)
               \/ RelayEnd(c) \/ RelayStop(c) \/ RelayStopped(c)

WorkerStep(w) == \/ PutBlock(w) \/ HandleCommand(w)
                 \/ ProcessData(w) \/ ProcessAck(w) \/ ProcessClose(w) \/ ProcessEnd(w)
                 \/ Drained(w) \/ DrainFails(w) \/ Stopped(w)

Next ==
  \/ \E c \in Conns : CreateConn(c) \/ AppWrite(c) \/ AppClose(c) \/ ConnStep(c)
  \/ \E w \in Workers : WorkerStep(w) \/ \E sns \in SUBSET DOMAIN Blocks : Respond(w, sns)
  \/ \E sn \in DOMAIN Blocks : ServerUnacked(sn)
  \/ Quiet

Spec == InitDownload /\ [][Next]_vars

\* The event loop runs every task that can go on, and applications read what
\* is written to them, so that drain() and wait_closed() return.  Neither the
\* server nor an application need do anything else.
FairSpec ==
  /\ Spec
  /\ \A w \in Workers : WF_vars(WorkerStep(w))
  /\ \A c \in Conns :
        /\ WF_vars(AddSock(c) \/ AddSockFails(c) \/ HandlerRelays(c) \/ HandlerFails(c))
        /\ WF_vars(ReadPiece(c) \/ ReaderEnd(c) \/ ReaderStop(c) \/ ReaderStopped(c))
        /\ WF_vars((RelayEnd(c) /\ app[c] = "gone") \/ RelayStop(c) \/ RelayStopped(c))

-----------------------------------------------------------------------------
(***************************************************************************)
(* Properties                                                              *)
(***************************************************************************)
\* The receive process holds back nothing it could hand over, and no block it
\* has is also listed as missing, whatever is repeated or comes late.
ReceiveExact ==
  /\ \A sn \in block_list : sn > next_sn
  /\ \A sn \in timeout_list : ~IsReceived(sn)

\* Commands of a connection in the blocks handed over so far.
Handed(c, cmds) ==
  {r.seq : r \in {q \in Commands(1 .. (next_sn - 1)) : q.conn = c /\ q.cmd \in cmds}}

\* What the application reads is what the server sent: with several workers
\* writing to its socket and being suspended between their writes, data is in
\* order, not repeated and without a hole.  Only what came before the socket
\* was attached is missing, and that is dropped without a trace.
InOrder(c) ==
  /\ \A i \in 1 .. (Len(output[c]) - 1) : output[c][i] < output[c][i + 1]
  /\ Range(output[c]) \cup dropped[c] = {seq \in Handed(c, {"data"}) : seq < next_cmd_seq[c]}
  /\ \A i \in DOMAIN output[c], lost \in dropped[c] : lost < output[c][i]
OutputInOrder == \A c \in Conns : InOrder(c)

\* A command that can be executed is never left in the queue of a running
\* connection with nobody to execute it: the worker that puts the missing
\* command and the worker about to leave the loop do not miss each other.  (A
\* worker that resets the session from within the loop stops the connection.)
NoStuckCommand ==
  \A c \in Conns :
     running[c] /\ next_cmd_seq[c] \in DOMAIN cmd_queue[c]
        => \E w \in Workers : at[w].conn = c /\ at[w].step \in {"process", "drain", "reset"}

\* The window acks of a connection only tell of data its socket has taken.
AckHonest == \A c \in Conns : /\ sent_window_position[c] <= sended_position[c]
                              /\ sended_position[c] <= Len(output[c])

\* The server can execute what it is told: the commands of a connection are
\* numbered without a hole, and the close is told once and is the last, though
\* the reader, the relay and a worker all go on after it.
UploadWellFormed ==
  \A c \in Conns :
     /\ \A i \in DOMAIN upload[c] : upload[c][i].seq = i
     /\ \A i \in DOMAIN upload[c] : upload[c][i].kind = "close" => i = Len(upload[c])
     /\ transferred_close[c] <=> \E i \in DOMAIN upload[c] : upload[c][i].kind = "close"

\* What the server sent to a connection is executed unless it was stopped or
\* the session is reset.
CommandsExecuted ==
  \A c \in Conns :
     []<>(\/ Resetting \/ ~running[c]
          \/ Handed(c, {"data", "ack", "close"}) \subseteq 1 .. (next_cmd_seq[c] - 1))

\* The server is told when the application of a connection that is being relayed
\* is gone, though the reader sees that end, too, and stops the connection.  A
\* handler that fails before its relay tells nothing.
CloseTold == \A c \in Conns : (relay[c] = "on" /\ app[c] = "gone") ~> transferred_close[c]

\* A connection that was stopped, or whose handler has failed, is forgotten for
\* good and leaves no socket open, however its three ways to stop overlap with
\* each other, with add_sock and with the handler's reply.
StoppedIsReleased ==
  \A c \in Conns : (~running[c] \/ relay[c] = "failed")
                      ~> [](c \notin conn_list /\ writer[c] = "none" /\ ~sock[c])
=============================================================================
