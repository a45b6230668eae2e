# A verification project for XX-Net

XX-Net is a local proxy. Its core is **X-Tunnel** (`src/code/default/x_tunnel/local`):
applications connect to a local SOCKS/HTTP port, a *session* multiplexes all their
connections into HTTP requests to a server, and *fronts* built on the `front_base` library
(`src/code/default/lib/noarch/front_base`) carry these requests over pools of TLS
connections. A launcher (`src/code/default/launcher`) starts the modules and updates the
program. The session's program text is asyncio code; below it, the HTTP dispatcher, its
workers, the connect manager and the IP manager run in threads.

This directory holds TLA+ models of the parts whose correctness depends on interleaving,
loss, repetition and time-outs, TLC configurations that check them on small instances,
and proofs for TLAPS. Sources are named below as

| short | file |
|---|---|
| BC | `src/code/default/x_tunnel/local/async_base_container.py` |
| PS | `src/code/default/x_tunnel/local/async_proxy_session.py` |
| AC | `src/code/default/x_tunnel/local/async_client.py` |
| FB | `src/code/default/lib/noarch/front_base/` |

## 1. Inventory

| component | state it keeps | operations | what makes it correct |
|---|---|---|---|
| Upload buffer `AsyncSendBuffer` (BC) | cut blocks, growing last block, head and tail number, pool size | `add`, `get`, `get_payload`, `reset` | blocks are the written bytes, in order, complete, numbered without a hole |
| Session round trips `AsyncProxySession` (PS) | `wait_ack_send_list`, `transfer_list`, `on_road_num`, `target_on_roads`, numbers | worker loop, `get_upload_data`, `get_data`, `roundtrip_task`, `ack_process`, two time-out checks | nothing is forgotten before the server has it, every transfer ends, requests stay on the road while needed |
| Session download `AsyncReceiveProcess` (PS), `AsyncConn` (BC) | `next_sn`, early blocks; per connection the command queue, positions, `running`, writer | `put`, `put_cmd_data`, `_process_next_cmd`, `transfer_*`, `stop_async` | each application reads what the server sent, in order; the close is told once and last |
| Connection pipe and relay (BC, AC) | reader tasks, pipe lock, relay tasks | `add_sock`, `_conn_reader_loop`, `_remove_conn`, `_start_relay_and_conn` | every connection that ends is told to the server and released |
| Session life (PS) | `running`, `session_id`, worker tasks, `session.lock`, `_login_lock` | `start`, `stop`, `reset`, `login_session` | a started session works with exactly its workers; stop ends |
| Front dispatcher (`front_dispatcher.py`) | per-front scores and penalties | choose a front, record success and failure | requests go to a front that works |
| HTTP dispatcher (FB `http_dispatcher.py`) | workers, task queue, counters | `request`, `dispatcher`, `retry_task_cb`, `close_cb` | each request is answered once or times out |
| HTTP/1 and HTTP/2 workers (FB) | streams, windows, blocked frames | `request`, send and receive loops, `close` | frames obey the windows, no request is lost on close |
| Connect manager (FB `connect_manager.py`) | pools, connecting threads | `get_ssl_connection`, `_connect_thread`, `stop` | waiting callers are served, limits kept |
| IP manager (FB `ip_manager.py`) | dictionary and sorted list of IPs, links of each, the request to save, scan threads | `get_ip_sni_host`, `add_ip`, `update_ip`, `report_connect_*`, `recheck_ip`, `remove_slowest_ip`, `scan_ip_worker`, `save` | list and dictionary agree, limits are kept, what is not saved is known |
| Network check (`check_local_network.py`) | network state, check threads | `report_ok`, `report_fail`, checks | state follows the reports |
| Launcher (`module_init.py`, `update*.py`) | running modules, update progress | start, stop, download, overwrite, restart | an interrupted update leaves a program that starts |
| Configuration (`config_manager.py`) | values and defaults | load, save, set | saved values come back |

How they interact: the proxy handler (AC) creates a connection in the session; the pipe's
reader task feeds the application's bytes through the connection into the upload buffer;
round-trip workers take blocks and carry them in numbered *transfers* by HTTP requests,
which run in executor threads through the front dispatcher, HTTP dispatcher, a worker and
its connection; responses carry download blocks, acks of upload blocks and what the server
knows of the transfers; the receive process orders the blocks and hands their commands to
the connections, which write to the applications' sockets from within the worker.

Hard behaviours: several workers between two suspension points of the same coroutine;
requests that fail, time out, are retried while the first attempt is still under way, and are
answered late; blocks that arrive early and twice; three tasks that stop one connection;
a session that restarts while old tasks live on; threads under the session that share
counters and pools. `PROJECT.json` lists them as hazards, each at its line.

## 2. Modules

| module | models | source |
|---|---|---|
| `ByteStream` | abstract: a byte stream handed out in numbered blocks | |
| `SendBuffer` | `AsyncSendBuffer` | BC 158-229 |
| `SendBuffer_proofs` | its invariant and its refinement of `ByteStream` | |
| `ReliableStream` | abstract: bytes are written, delivered in order, forgotten after that | |
| `RoundTrip` | the session's upload: workers, transfers, acks, resends, retries, time-outs, `target_on_roads`; extends `SendBuffer` | PS 217-241, 301-838, 856-919 |
| `RoundTrip_proofs` | the inductive invariant of `RoundTrip`, that it implements `ReliableStream`, and the size of a request | |
| `ReceiveProcess` | `AsyncReceiveProcess` | PS 39-113 |
| `Download` | the session's download, the connections and the tasks around them; extends `ReceiveProcess` | PS 733-744, 797-812, 840-919, BC 232-603, AC 112-182 |
| `Download_proofs` | its invariants | |
| `ConnectManager` | the pool of TLS connections: callers, connect threads, keep-alive thread, stop | FB `connect_manager.py` 32-433 |
| `ConnectManager_proofs` | its invariants | |
| `HttpDispatcher` | requests, the dispatcher thread, HTTP/1 workers, retries, and the closes of a worker | FB `http_dispatcher.py` 48-155, 217-299, 334-539; `http1.py`; `http_common.py` 171-192, 286-302 |
| `HttpDispatcher_proofs` | its invariants | |
| `CreateWorker` | the thread that gets connections for new workers, and its condition | FB `http_dispatcher.py` 182-215, 477-479; `utils.py` 191-203 |
| `IpManager` | the IPs of a front: connect threads, HTTP/1 workers and scan threads that take, report, check, add, remove, sort, trim and save them | FB `ip_manager.py` 231-374, 388-460, 487-754, 801-952, 1042; `connect_manager.py` 327-394 |
| `IpManager_proofs` | its invariants | |
| `SessionLife` | start, stop, reset and login of the session, by tasks outside it and by its own workers | PS 180-285, 309-423, 856-991, 1127-1150; BC 246-256, 564-575; AC 79-98 |
| `SessionLife_proofs` | under which session_id a session runs, its workers, its count of requests | |
| `Http2` | an HTTP/2 worker and its streams: two threads that send, the windows, blocked frames, close | FB `http2_connection.py` 61-469, `http2_stream.py` 118-390, `http_common.py` 286-302 |
| `Http2_proofs` | its five invariants | |
| `MC*` | instances for TLC | |

### How state and steps correspond

The session is asyncio code: a task runs undisturbed from one `await` that may suspend to
the next. A model step is that stretch. The `asyncio.Lock`s of the buffers and, in a session that neither starts
nor stops, `session.lock` are never held across a suspension, so they never make anybody
wait and are left out (`SessionLife` has `session.lock`, and the waits for it); two more are held across one: `get_data_lock` (held by the
worker that waits in `get_send_data`; `pc[w] = "data"`) and the connection pipe's lock (held
by `_remove_conn` while it waits for a socket to close; `pipe_lock`).

*SendBuffer*: a byte is its position in the upload stream, a buffer a slice of the stream;
`pool_size`, `head_sn`, `tail_sn`, `block_list`, `last_block` are the fields; `added` and
`fetched` are history.

*RoundTrip*: an entry of `wait_ack_send_list` that the code replaces by `"acked"` is in `acked`
here. A transfer keeps its `stat` and what the server said of it; its data never changes and is in
`send_data`. A worker is in its loop (`"loop"`), waits for data with the lock (`"data"`), has
its request under way (`"road"`), sleeps after an exception with its place on the road not yet
given back (`"error"`), or processes a response while downloaded data is written (`"reply"`).
A clock is not modelled: each comparison with one may come out either way whenever the code
makes it (`expired`, `delayed`, `ackDue`, `late`). The server is external and gives only
answers the client's parser implies: the last block without a hole, the blocks beyond it, and the
transfers it knows of. A request may reach it without being answered, and later than the
client gives up, at any time (`ServerReceive`).

*Download*: the command queue of a connection is a function from `seq` to the command; data is
counted in pieces. `at[w]` is the suspension point a worker is in: executing commands, in `drain()`,
in the `wait_closed()` of `stop_async`, or in a session's reset. `reader` and `relay` are the two tasks of a
connection; the second is the proxy handler, which replies first (`"reply"`), may fail at that (`"failed"`), and may find the
connection gone when it looks it up (`"bare"`: it relays, but tells and stops nothing). A close "because there are too many
connections" resets the session: such a worker has no further step here, since the reset is a part of `SessionLife`
(`Answered`). `output`, `dropped` and `upload` are history.

*ConnectManager* runs in threads: a step is what happens under the pool's lock, or between
two reads of shared state outside it. `pc[c]` is the place a caller has reached in
`get_ssl_connection`. A caller whose wait has timed out stays registered with `not_empty` until it has
the lock again (`"timed_out"`), so a notification may still hit it. `connect_thread_cond`,
`keep_connection_daemon` and `no_ip_time` only shorten or lengthen waits that end by themselves, and
comparisons with a clock may come out either way. `stop` joins each thread for five seconds at most, so it
may return before they end. `opened`, `gone` and `lost` are history.

*HttpDispatcher*: threads again. `work_loop[w]` is where a worker's thread is in `work_loop` and
`request_task`, `dispatcher` and `stopper` likewise. `Http1Worker.close` is run by five kinds of threads at
once, so it is a procedure of its own: `closing[c]` says where closer `c` is in it (it has told the worker's
thread to exit and comes to the check of `self.task`, to its use, to the lock), `target[c]` of which worker.
A closer that finds `self.task` gone between check and use gets an exception, whose effect depends on the
closer. Scores, lives and idle times are comparisons that may come out either way. A retry of a task may be
refused at any time, because the code compares the task's age. `answers`, `raced` and `late` are history: `raced` are
the tasks that a close has taken from a working thread or that two closes have handed back, `late` those handed to a
worker whose thread had been told to exit.
`CreateWorker` is a module of its own because it shares nothing but `running` with the tasks.

*IpManager*: threads. What is done under `ip_lock` or `scan_thread_lock` is one step; between two of them, and at
each read of `ip_dict`, `ip_list` or `scan_thread_count` outside a lock, another thread may act. `at[p]` is where a
thread is: its place, its IP, and where the procedure it is in (`try_sort_ip`, `adjust_scan_thread_num`,
`search_more_ip`, `save`) returns to, since these are called from several places. An element of `Links` is a
connect thread followed by the connection it has opened and the HTTP/1 worker on it. Of an IP's record only `links` is
kept: times and failures decide how IPs are sorted and whether one may be used now, and both may come out in any
way. `check_local_network` may answer anything at any time. `MaxScanThreads` is a setting (0 or 1 in the fronts' own
settings); `Scanners` bounds the scan threads alive at once.

*SessionLife* is asyncio code again. The calls that a task has still to make are in `todo[p]`: `reset` is stop and start,
`login` unfolds into what `async_login_process` finds to do. A task at one of the places `Busy` has not been suspended since
its last step, so nobody else takes one (`Calm`). A cancellation is a member of `cancelled` until it reaches its task; inside
the loop of `stop` it goes on to the task that is awaited there, and a worker that awaits itself swallows it. A successful start begins a
new *life* with workers of its own, so that workers of former lives can be told from them. Of a connection only that it is alive, being
stopped or gone is kept, and of a request only that it is under way. The server may refuse a login, and its answers may make a worker stop or
reset the session; idle times may. `timeout_checker`, one more task that sleeps and is cancelled, is left out. `overlap`, `stoppers` and `strays`
are history.

*Http2* runs in threads without a lock between them, so its steps are statements: `request` and the body it sends run in the
dispatcher's thread, frames from the server and the rest of a body in the receiving one, and the sending thread may close the worker.
`remote_window_size -= n` is a read (`seen[t]`) and a write. `hand[t]` is the frame a thread has in hand, `at[t]` the statement it has
come to in `send_left_body`, `_send_cb`, `increase_remote_window_size` or `close`. A frame is the range of the body it carries.
The server grants windows, changes INITIAL_WINDOW_SIZE, answers and resets as it likes. `history` names races that have happened; the
properties say what holds without them, or with them.

## 3. Runs

| run | question | bounds |
|---|---|---|
| `round_trip` | Can losses, repeats, resends and retries make the client forget data, number it twice, miscount the road, or lose a transfer in its list? | 2 workers, payload 2, 2 bytes (a block of them, or two of one), 1 connection, 1 poll, 1 resend of a block still carried, 1 failed exchange |
| `round_trip_live` | Does the buffer cut writes into a stream of blocks, does everything arrive, and is every timed-out transfer retried while there is anything to send? | 2 workers, payload 1, 2 bytes, 1 connection, 1 poll, 1 failure, no resend of a carried block |
| `download` | Do two workers that deliver repeated and reordered blocks keep a connection's stream in order while it is closed from three sides? | 2 workers, 1 connection, 3 blocks with 4 commands, 3 responses, 1 upload piece |
| `connections_live` | Are commands executed, ends told, connections released? | 1 worker, 2 connections sharing the pipe's lock, 2 blocks, 2 responses |
| `connect_manager` | Can a wake-up be lost, a limit be passed, a connection have two owners or none, a thread or a caller stay for ever? | 2 callers, 2 connect threads, 2 connections, a pool of 1, 2 calls |
| `http_dispatcher` | Can a request be forgotten, answered twice, or left without the end of its body? | 1 request, retried once, 2 workers, 1 close from outside or ping besides those of stop and of the workers themselves |
| `ip_manager` | Can concurrent reports, checks, scans and sorts make list and dictionary disagree, or forget that an IP is not saved? | 2 IPs, 1 of them enough, 1 connect thread, 2 scan threads, 1 link per IP |
| `ip_links` | Does an IP have no more links than users? It does not stay so | 2 IPs |
| `create_worker_stop` | Does the thread that creates workers end after stop? Not always | none needed |
| `session_life` | Which workers, which session_id and which count of requests does a running session have after starts, stops and resets by anybody? Do all calls return? | 2 callers, 2 workers a life, 2 calls, 1 restart by a worker or an idle time |
| `http2` | Can two threads and two windows lose or repeat a piece of a body, leave a frame blocked or a body waiting, refuse tasks for ever, or lose a task on close? | 2 streams, bodies of 4, frames of 2, 1 grant or setting, 3 frames a body |
| `http2_order` | Are the frames of a body sent in its order? Not always | 1 stream, a body of 3 |

Two workers are enough for every race in these modules: each pairs one task in a suspension
with one that acts meanwhile; a third repeats one of the two roles. One failure makes a
transfer run twice at once (time-out, retry, both exchanges answered); `CheckTimeout` makes
further retries without counting as a failure. Three blocks allow an early, a late and a
repeated one. In `connect_manager` two connect threads race for the pool's limit and two callers for
one notification; a third of either repeats one of these roles. In `http_dispatcher` a second answer needs a
second worker (a closed one takes nothing), and one close from outside runs against the worker's own and
that of stop. The workers are interchangeable, so symmetry is used. A second request would only be queued
behind the first: a worker has one task at a time. With two closes from outside the run has 22 million states and passes too,
in more than five minutes; the invariant that is proved covers every number of them.
In `ip_manager` one IP is enough for the front, so the second makes `remove_slowest_ip` cut the list and none
makes a failure look for more; three threads add, remove, trim and save against each other. IPs and scan threads are
interchangeable. Its `VIEW` leaves out what the file holds while a save is asked for. That is sound: until the next
save nothing reads the file, and the one property that looks at it holds in these states whatever the file has.
In `session_life` one caller's stop overlaps the other's start, or one of a worker; a worker that restarts the session lives on beside
those of the new life. Runs outside this list with one caller and three workers, three calls, or two restarts passed too, one at
a time. In `http2` the second stream shares the connection's window with the first and opens while that one is being sent, ended or
closed. Instances with one stream and three grants (17 million states) and with two streams and two grants passed too.
The instances are as large as five minutes allow. In `round_trip` no write crosses a
payload; in `round_trip_live` a write of two bytes crosses one and ends on the next, and `StreamSpec` is checked there. That
it holds for longer writes and for all payloads is `BufferRefinesStream`; `SpecBuffer` alone, with payload 2 and writes of up to 9 bytes, passed too.

`RoundTrip!Quiet` and `Download!Quiet` are the states in which nothing is left to do, so that
deadlock checking stays on (`ConnectManager!Quiet` likewise): anything else without a successor is reported.

**Fairness.** *RoundTrip*: every worker that can go on does (the event loop runs every ready
task); an expired `resend_timeout` and a passed `send_delay` are noticed (the waiting worker looks
again every second, PS 658); an exchange that does not fail is answered. Failures, time-out
checks, late deliveries and connections have no fairness. *Download*: ready tasks run, and
applications read what is written to them, so `drain()` and `wait_closed()` return. The server
need not send and applications need not close. *ConnectManager*: threads run, a connect succeeds or
fails in the end (the creator has a time-out), and waits end at theirs. Nobody has to call or to stop. *CreateWorker*: both threads
run, and `get_ssl_connection` returns. *SessionLife*: every task that can go on does, and requests and logins are answered or time out; nobody has to call, and connections need not
end. `HttpDispatcher`, `IpManager` and `Http2` have safety properties only.

**What the properties say** is stated with each of them in the modules. The ones a reader
should know:

- `NoFalseAck`, `StreamExact`, `ReliableSpec`: the upload is a reliable stream; bytes are
  numbered once, kept until the server has them, and forgotten in order.
- `OnRoadExact`, `NoOrphanTransfer`: through every way an exchange can end, with two
  exchanges of one transfer under way, the counter is the number of workers on the road and
  no transfer stays in the list with nobody to take it up.
- `ReliableFair`, `TimedOutRetried`: liveness. A transfer that has timed out is retried though the worker that waits for data keeps everybody
  else from it: in the end that worker has something to send and lets the lock go. The one escape is a session that has
  nothing to send for ever, with no connection, no data and every block acknowledged (`NothingToSend`). That is said while
  polls remain, as their number is a bound of the model.
- `OutputInOrder`, `NoStuckCommand`: workers that execute one connection's commands together,
  each suspended in `drain()`, do not reorder or strand them.
- `UploadWellFormed`, `CloseTold`, `StoppedIsReleased`: the three ways to end a connection. `CloseTold` is about connections that are
  relayed: before that, a handler that fails tells the server nothing. `StoppedIsReleased` covers those, too.
- `NoLostWakeUp`, `OneOwner`: a notification that hits a caller whose time is over, a connection taken by
  another caller, and the keep-alive thread or `stop` emptying the pool, do not leave a caller asleep
  beside a connection or a connection in two places.

- `NoTaskForgotten`, `AnsweredOnce`, `BodyWillEnd`: whatever thread fails, retries or closes, a task is in
  somebody's hands, is answered once and gets its end mark. The escapes are exactly the races below: a close that takes a
  task from a working thread, two closes that hand it back, and a task that is handed to a worker told to exit.
- `ListMatchesDict`, `SavedCovers`: IPs are added and removed by threads that have waited for the
  network since they looked; the two structures that hold them and the request to save stay right.
- `LoggedIn`, `WorkersExact`, `RoadExact`: between the suspensions of one start or stop any other may act. A running session has
  the accepted session_id; unless its start fell into a stop (`overlap`), it has its own workers, all alive, and counts its requests.
- `CallsReturn`: who stops a session, a worker of it or anybody else, does not wait for ever; the one stop that does is `SelfLocked`.
- `BodyAccounted`: every byte of a body that has been cut off is in one frame, which is queued, blocked or in a thread's hands.
- `NoBlockedForgotten`, `BodyGoesOn`, `AcceptsWhenFree`: at rest nothing waits that could go on. Each names the races that make it wait.
- `TasksHandedOn`: `close`, perhaps in two threads, gives every task back or ends it, while requests still come in.

**Findings.** `create_worker_stop` shows that the notification by which the dispatcher thread, when it exits, is to "wait up threads to
exit" is lost on a `create_worker_thread` that does not wait yet; this thread then waits for ever.
`ip_links` shows that an IP's `links`, "current link number" (`ip_manager.py` 248), is not lowered when a
connection is closed: only `report_connect_fail` lowers it. With `max_links_per_ip` 1, the default, an IP whose
connection has ended without a failure is not given out any more until it is removed or the program restarts. (Nor is the limit one on
open connections: a failed check lowers `links` while the connection is open, and an IP that is removed and found again begins at 0.)
`http2_order` shows that the last frame of a body, when it fits into what is left of the connection's window, is sent before an
earlier frame of the same body that is blocked; the server gets END_STREAM in the middle of the body.

**Mutants.** Operators marked `(Mutant: ...)` are plausible bugs; each property is violated when
the operator named with it in `PROJECT.json` is replaced.

## 4. Behaviours worth knowing

No run is there for these alone. Most contradict no statement of the repository; where one does, it is named. Unless an entry
says otherwise the models contain them, and the properties are stated around them.

- While a worker waits in `get_send_data` it holds `get_data_lock`, and `get_upload_data`
  retries timed-out transfers only before that wait. A timed-out transfer is then not retried until
  new data, a due ack, a poll or an expired block ends the wait, and never if nothing does (`TimedOutRetried`).
  Upload data gets through because the waiting worker resends expired blocks.
- `AsyncReceiveProcess.get_timeout_list` (PS 94) takes "now" for a missing `retry_time`, which only
  a previous return sets: it never returns anything, and the server is never asked for a lost block.
- Data commands executed between `create_conn` and `add_sock` are dropped and counted as
  executed (BC 492). `OutputInOrder` allows only these to be missing.
- After `create_conn` the handler's reply may fail, or its end of the socket pair may not be attached (AC 116, 135). It then returns
  without stopping the connection or telling the server; the pipe's reader finds the end of the file and removes the connection, and
  the server is left with its half (`CloseTold` leaves these out). A handler that finds the connection gone after its reply relays nothing, until the
  application closes.
- The relay tells the server the close without waiting for the reader task, so data it has
  not read yet is not uploaded.
- When the server closes, `stop_async` closes the connection's end, but `_session_to_client`
  only returns; the application notices when it writes or closes.
- A worker writes to the sockets itself, so an application that does not read suspends it.
- The keep-alive thread reads `ssl_timeout_cb` twice. If the front's stop removes the callback in between,
  the call fails and the open connection has no owner any more (`OneOwner` allows only this: `lost`).
- `Http1Worker.close` may be called while the worker's thread works on a task (the checker, the keep-alive
  thread and the dispatcher's cleaning do not exclude that thread). The close retries the task; then the
  thread's own request fails on the closed socket and retries it once more, and two workers answer it. Two closes of a worker
  whose thread has ended may both hand its task back, when the second begins before the first has cleared `self.task`.
- A worker may be closed between the dispatcher's choice and its `worker.request`. The task then lies in a
  queue nobody reads, and its caller waits for its time-out.
- `close` tells the thread to exit before it takes the lock. If the idle thread sees that first, it clears
  `keep_running`, and the close returns without closing the socket and without taking the worker off the list.
- `close_all_worker` spares busy workers and forgets them: after `stop` such a worker lives on, idle.
- `recheck_ip` looks whether the IP is still in the dictionary and reads its `fail_times` later, without a lock. If
  another thread removes the IP in between, the HTTP/1 worker's thread ends with a `KeyError`.
- Two threads may save at once: a second write of the file that fails (it has been emptied by then) leaves it
  incomplete although the first has cleared the request to save. `SavedCovers` says so with `write_failed`.
- `search_more_ip` compares the numbers without a lock, so two threads may start more scan threads than there should
  be. Every scan thread then sees too many, and all of them may leave; only the next `search_more_ip` starts some.
- A scan thread that takes an IP to check it counts as a link and, unless the check removes it, never gives the link back.
- The connect manager's `stop` never notifies `not_empty`, so a caller sleeps on until its own time-out (its test passes because `stop`
  takes longer than that), and a connect under way while `stop` clears the pool puts its open connection into the cleared pool.
- `close_all_connections` holds `session.lock` while it stops each connection, and a connection that is stopped removes itself under the
  same lock, which an asyncio task cannot take twice. A stop or reset that finds a live connection therefore never returns, nor does any later start
  (`SelfLocked`).
- A worker that stops or resets its session cancels itself, takes the cancellation for the awaited task's, and lives on beside the workers of
  the new life. If its request of the old life is under way when a later restart sets `on_road_num` to 0, the count stays too small by one (`strays`).
- A start may succeed between two steps of a stop. The session then runs with its tasks cancelled or taken from the list, and with a stopped pipe.
- A worker whose answer says "no such session" restarts the session even when the web control has just stopped it.
- Connection numbers begin anew with every session, so the late close of an old connection's relay may be sent for a new one of its number (not modelled).
- HTTP/2: `remote_window_size -= n` in two threads may lose one of the changes (`torn`). A frame that is put aside just after the window has
  grown stays blocked until the next grant (`missed`). A frame may be sent, and its stream ended, before the thread that put it aside refuses tasks;
  the worker then gets none until its next ping is acknowledged (`overtaken`).
- SETTINGS that raise the initial window do not resume the bodies that wait for it, though a comment (`http2_connection.py` 424) says
  it "may trigger send" (`raised`). SETTINGS that lower it below what has been sent make a stream's window negative; a frame of negative size then
  gives bytes back to the body, which are sent again (`shrunk`).
- Two threads may cut from one body at once, one on a grant, the other after its own frame (`doubled`): the body's bytes may be counted off twice.
- Both loops may close a worker at once; a task without a response is then retried twice (`twoClose`). A request that comes in during the close
  may be lost with the stream list (`late`); its caller waits for its time-out.
- `remote_window_size` of a connection begins at 32 MB whatever the server allows, and a new MAX_FRAME_SIZE is added to the old one in open streams (not modelled).
- Front dispatcher: one thread may clear the disabled fronts between another's look at them and its `del`; the request of the other, which has
  been answered, then ends with a `KeyError`. `stop` forgets the failures of the fronts but not which are disabled (not modelled).
- `_check_timeout` raises `target_on_roads` even after the last connection has set it to 0; polling
  then continues until an answer is processed.

## 5. Proofs

`SendBuffer_proofs`: from `SendBufferAssumption` (a positive payload size), for every
payload size and stream length,

- `BufferInvariant`: `SpecBuffer => [](BufTypeOK /\ Contiguous /\ PoolSizeExact /\ FetchContinues)`.
  The inductive invariant `BufInv` adds `BlocksBefore`: that every cut block ends before
  `last_block` follows from `Contiguous` only by induction over the numbers, so it is carried
  along. The arithmetic of the cuts (`Cuts`, `CutAt`) is in two lemmas because products of two
  variables are out of the SMT solver's reach elsewhere.
- `BufferRefinesStream`: `SpecBuffer => StreamSpec`, the buffer implements `ByteStream` (checked by `round_trip_live`).

`RoundTrip_proofs`: from `SendBufferAssumption` and `RoundTripAssumption` (finitely many
workers, more of them than `min_on_road`, which is positive; `PS` takes 3 of at least 10), for every
instance, `Spec => []SessionInv`. The theorems `SessionTypes`, `RoadCounted`, `TransfersAccounted`, `AcksTrue`,
`UploadInOrder` and `PollingGoesOn` name the checked invariants that follow. `SessionInv` consists of

- `BufInv`, since the session only adds to and gets from the buffer;
- `TypeOK` and `RequestsMade` (a request under way is that of a transfer that was made); the types
  say too that exactly the blocks between `ack_send_continue_sn` and `tail_sn` are kept;
- `OnRoadExact`: a step moves one worker on or off the road and the counter with it;
- `NoFalseAck` with `RepliesHonest`: an answer is processed long after the server gave it, so it has to
  be known that what it says has arrived still has;
- `StreamExact`, `ResendSame` and `IssuedBefore`: a resent block is the one sent first, and a new one
  starts where the blocks sent so far end and has the next number;
- `ServerHasIssued`: the server has only what was sent;
- `NoOrphanTransfer`, and `KeepsPolling`.

Each part is proved by itself, one step per action that can disturb it; the lemmas called `...Steps`
say which actions these are.

`UploadReliable` is the refinement, `Spec => ReliableSpec`. In every state the blocks the
client has forgotten are among those that have arrived without a hole (`NoFalseAck`,
`ServerHasIssued`, `StreamExact`), and none of them ends beyond the written stream (`IssuedBefore`,
`PoolSizeExact`); so the three positions of the abstract stream are in order. Both sets only grow, so
do their ends. That a bounded set has a largest element is proved from the well-foundedness of the natural
numbers.

`RequestsSmall` (`RequestBounded`) adds to `SessionInv` that a kept block is not longer than a payload (`KeptSmall`). All before the
last resent block fit into a payload, or the loop in `get_data` would have ended, and a new block joins only if all of them do. The model and the property
add up with a fold of the community modules, one over numbers and one over blocks. That both are the same sum, whose value does not depend on the
order and grows with the set, is an induction, laid out as a smallest set on which it fails (`SmallestExists`, `SumsExist`, `AddingUp`).

`Download_proofs`: from `DownloadAssumption` (finite sets, blocks of commands) and `ServerAssumption` (the server gives a
number of a connection to one command only), for any list of blocks, repeated in any order, and any number of workers,

- `BlocksReceived` (`ReceiveExact`): what waits is what came beyond the first missing block;
- `UploadFormed` (`UploadWellFormed`): `next_recv_seq` is one more than the length of what was told, and whoever adds to it
  has seen `transferred_close` unset in the same step (`Formed`);
- `AcksTrue` (`AckHonest`): every worker in `drain()` has output that is not counted yet (`AckCount`);
- `CommandsAttended` (`NoStuckCommand`), which is inductive with the types;
- `OutputOrdered` (`OutputInOrder`): everything up to `next_cmd_seq` was given by the server, what is output or dropped is exactly the
  data among it, and the dropped numbers come before the output ones (`CmdInv`). A connection without a writer has no
  output (`WriterInv`), and one that waits for its writer to close does not run (`StopInv`).

`HttpDispatcher_proofs`: from `DispatcherAssumption` (finite sets of tasks and workers, apart from `None`, the ping and the other closers), for any number of
tasks, workers, retries and closes, `Invariant`: `Spec => []IInv`, and from it `NothingForgotten`, `AnswersOnce` and
`BodiesEnd`. The parts of `IInv` are

- the types, and where the closers, the workers that are being made and those that work may be (`Structure`);
- `HeldInv`: a task that is not finished is in the request queue, in somebody's hands, or in a worker's queue before the
  `None` that ends its thread (`InTime`), unless it was handed over too late;
- `AnswerInv`: a task outside `raced` is in one place only, and not answered yet while somebody may still answer it;
- `BodyInv`: a worker that works on a task, or will take one, owns it, and no close has handed it back.

A first form of `AnswersOnce` did not hold: the second of two closes hands a task back again, which the race with the worker's own
thread did not cover. Every action's effect is stated at one worker at a time (`WorkEffect`, `CloseEffect`, `NextEffect`), so that the
proofs for the other workers are the same for all actions.

`ConnectManager_proofs`: from `ConnectAssumption` (finite sets, bounds that are natural numbers), for every
number of callers, threads and connections,

- `DemandCounted`: `DemandExact` and `TypeOK` are inductive only together, because `waiting_num - 1` stays a
  natural number since the caller that leaves is counted in it;
- `PoolLimited`: `PoolBounded` is inductive with the types: a thread that begins has just seen a pool
  within the limit, and the others are counted as if they had put theirs already;
- `WakeUpsSuffice`: `NoLostWakeUp`, a count of connections against callers that will look;
- `ConnectionsOwned`: `OneOwner`.

`IpManager_proofs`: from `IpAssumption` (finite sets, positive limits), for any number of IPs and threads,

- `ListAgrees`: the inductive invariant says that the list is a sequence of the dictionary's IPs in which each occurs
  exactly once. Appending an IP that is not there, `list.remove`, cutting off the end, and sorting keep this
  (`AppendLists`, `WithoutLists`, `CutLists`, `OrdersList`); that the IPs in the dictionary are finitely many, which sorting
  needs, follows from the invariant itself.
- `SavesCover`, which is inductive, and `IpTypes`; its part about `links` is `LinkInv`, a number between 0 and the limit.

`SessionLife_proofs`: from `SessionLifeAssumption` and `CallersAssumption`, for any number of callers, workers, calls and restarts,
`SessionLoggedIn`: `Spec => []LoggedIn`. The invariant adds that a task which logs in holds `session.lock`, that the session does not run
meanwhile, and that the `session_id` it sends is a new one (`LoginHolds`): without the lock a second start would replace it under way. Nearly all
other steps are alike in what they leave alone (`Quietly`).
`WorkersKnown` and `RequestsCounted` (`WorkersExact`, `RoadExact`) follow from `SessionInv`, which has to say where every cancellation is:

- `Scheduled`: what each task still has to call. Only the first call of a task is a stop, one task is busy at a time, and every stop that
  ends a life was counted when it was called, so that the lives that are left suffice (`LivesCounted`);
- `StopInv`, as long as no start has fallen into a stop: one task stops at a time (`OneStops`); a worker that is cancelled, or gives its place on
  the road back, is the one that task waits for (`CancelInv`); the workers before it have ended or stopped the session themselves
  (`LoopInv`); workers of later lives do not exist yet (`NewLives`); and the count is right from a login until a stop begins (`RoadInv`).

The steps of the callers and of the workers are eleven kinds as far as these are concerned (lemma `Steps`), and each part is proved once per kind.

`Http2_proofs`: from `Http2Assumption`, for any number and size of streams, windows and grants,

- `NoneForgotten`: the first blocked frame does not fit into the window unless the receiving thread is about to let it go (`HeadWaits`). Frames have
  lengths that are not negative (`HandOK`, from the arithmetic of Python's slices in `SliceLenNat`), so sending one never makes room.
- `BodyContinues`: a body with something left and room in its window is in a thread's hands (`BodyTended`), and one that is taken for complete
  has nothing left (`BodySpent`).
- `TasksAllHandedOn`: a task that is not handled is in the stream list, in the list of every thread that closes, and in a worker that runs
  (`NoneLost`); while one thread at a time closes, what is in its list has not been given back (`BackOnce`).
- `FreeAccepted`: from the same types, a case for every writer of `accept_task`.
- `BodiesAccounted`: the copies of a byte are counted as positions in the two queues and as threads that hold its frame. A step moves
  one frame, so one count gains what another gives (`PlacesOfAppend`, `PlacesOfTail` with its bijection, `HeldGets`, `HeldGives`). The invariant
  (`BodyCount`) adds what a cut needs: nothing has been cut beyond the end (`LeftFits`), and a size that was read is still there (`CutFits`), so
  that the slice is the next bytes of the body and as long as its size (`SliceIsNext`).

Every safety property of a passing run has a theorem. Only model-checked is every liveness property, which is out of the prover's
reach: `ReliableFair`, `TimedOutRetried`, `CommandsExecuted`, `CloseTold`, `StoppedIsReleased`, `CallersReturn`, `ThreadsEnd` and `CallsReturn`. `CreateWorker`
and the two other modules' properties that the code violates are checked only, by the counterexamples they have.
`TypeOK` of `ConnectManager` is proved and not checked by a run of its own.

## 6. Order of work, and what is left

The modules were written from the session downwards: the upload with its buffer, the download, the connect manager, the dispatcher, the
IP manager, then the session's life and HTTP/2. What would come next:

1. Composing `Http2` with the dispatcher (two kinds of workers under one), and `SessionLife` with `Download` (commands and closes of an old session
   that reach the connections of a new one). Both are beyond TLC at instances that show anything; they need coarser modules of the parts first.
2. Abstract specifications of the other components, as `ByteStream` and `ReliableStream` are for the upload: a pool of at most so many connections that
   serves each caller once, a queue of tasks each of which is answered once, and the download as a stream of commands per connection. The inductive invariants
   are what the steps of such refinements would need.

## 7. Not modelled, and why

Most of the repository's lines are vendored libraries (`lib/noarch` holds parsers, cryptography and protocol code of others), data and
generated tables. The program's own code is about 21 000 lines, much of it formats, pages' handlers and platform glue.

- Which front a request takes (`front_dispatcher.py`) and what the network check says: functions of times, scores and success rates. The models
  allow every outcome.
- Launcher, update and configuration: sequential work on files and modules. What an interrupted update leaves depends on the files of two versions.
- `AsyncWaitQueue` only shortens waits that end after a second anyway. `WriteBuffer` and `ReadBuffer` are containers.
- Of HTTP/2: receive windows, header compression, MAX_FRAME_SIZE, the count of pings, `check_timeout` (nobody calls it).
- Of the dispatcher: `ping_speed` (it needs a `session_host`, which nothing sets) and `_remove_slowest_worker` (it only unlists workers with a
  score above 9999).
- Wording, logging, statistics, scores and quota; encryption, packing and checksums (a damaged response is a failed exchange); the clock's
  values; SOCKS and HTTP parsing; the `front` modules, which only wire `front_base` to a provider; web pages.

Smaller simplifications inside the modelled parts:

- An exception in the few statements between two steps that log, pack or convert, where nothing can fail but a value of a wrong type, such as a header that is no number:
  between `on_road_num += 1` and the `try` (PS 356-374), after `connect_ssl` has succeeded (`connect_manager.py` 368), and between
  `task.finish()` and the end of `request_task` (`http1.py` 231-253). It would leave the count raised, the socket without an owner, or the body ended and the worker's
  task unfinished.
- `get_ssl_connection` leaves when its wait in the pool is over; the code waits once more if its own clock, another one, is a little behind
  (`connect_manager.py` 426-430). A bound on such rounds would be needed for `CallersReturn`.
- `http_dispatcher.py` 59-61 is one step in `HandOver`, and `Http2!Request` looks at `accept_task` when the request is made and not when the dispatcher has
  chosen the worker, just before.
- A response on an HTTP/2 stream whose task was answered elsewhere closes the stream without another answer (`http2_stream.py` 341-345). Streams' own windows
  are changed in one step; of the same race in the connection's window, which several streams share, both halves are modelled.
