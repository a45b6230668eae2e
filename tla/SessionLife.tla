----------------------------- MODULE SessionLife -----------------------------
(* The life of an AsyncProxySession: start, stop, reset and login. They are   *)
(* called by tasks outside the session (the proxy's handlers and the web      *)
(* control) and by the session's own round-trip workers, which stop adds to   *)
(* what it cancels. A task runs undisturbed between two suspensions.          *)
EXTENDS Integers, Sequences, FiniteSets

CONSTANTS
    Callers,      \* tasks that are not the session's
    ThreadNum,    \* concurent_thread_num
    NoOne,        \* holder of a free lock
    MaxCalls,     \* bound: calls from outside
    MaxTroubles   \* bound: answers and idle times that restart the session

ASSUME SessionLifeAssumption ==
    /\ ThreadNum \in Nat \ {0} /\ MaxCalls \in Nat /\ MaxTroubles \in Nat

\* Every start that succeeds follows a stop or is the first.
Lives == 1 .. MaxCalls + MaxTroubles + 1

\* The worker task of a life and its work_id.
Workers == Lives \X (1 .. ThreadNum)

Procs == Workers \cup Callers

ASSUME CallersAssumption == Workers \cap Callers = {} /\ NoOne \notin Procs

VARIABLES
    running, session_id, on_road, tasks,    \* of AsyncProxySession
    lives,        \* successful starts
    accepted,     \* the last session_id the server has accepted
    lock,         \* who holds session.lock
    login_lock,   \* who holds _login_lock
    server_host,  \* ctx.server_host is known
    pipe_running, \* connection_pipe.running
    conns,        \* the connection a handler has made, while in conn_list
    at,           \* where a task is
    todo,         \* what a task still has to call
    index,        \* place of a stop in its loop over tasks
    waits_for,    \* the task it awaits
    cancelled,    \* tasks whose cancellation has not reached them yet
    overlap,      \* history: a start succeeded while a stop was under way
    stoppers,     \* history: tasks that have stopped a running session
    strays,       \* history: requests under way when the session was last set up
    calls, troubles

sessionVars == <<running, session_id, on_road, tasks, lives, accepted>>
lockVars == <<lock, login_lock>>
stopVars == <<index, waits_for>>
bounds == <<calls, troubles>>
history == <<overlap, stoppers, strays>>
vars == <<sessionVars, lockVars, server_host, pipe_running, conns, at, todo, stopVars,
          cancelled, history, bounds>>

------------------------------------------------------------------------------
\* A task at one of these places has not been suspended: no other task runs.
Busy == {"begin", "cancel", "close"}

Calm == \A p \in Procs : at[p] \notin Busy

\* A suspended task may go on; one that is cancelled gets the exception instead.
Ready(p) == Calm /\ p \notin cancelled

\* Places inside stop.
Stopping == {"cancel", "await", "overdue", "close", "closing", "self", "pipe"}

\* A worker that returns to its loop looks at running.
Home(p, isRunning) == IF p \in Callers THEN "out" ELSE IF isRunning THEN "loop" ELSE "ended"

\* The call at the head of todo returns and the task goes on.
Return(p) ==
    /\ todo' = [todo EXCEPT ![p] = Tail(@)]
    /\ at' = [at EXCEPT ![p] = IF Len(todo[p]) > 1 THEN "begin" ELSE Home(p, running)]

Go(p, place) == at' = [at EXCEPT ![p] = place] /\ UNCHANGED todo

Begins(p, call) == at[p] = "begin" /\ Head(todo[p]) = call

\* Workers whose request is counted.
OnRoad == {w \in Workers : at[w] \in {"road", "fin"}}

Alive(p) == at[p] \notin {"none", "ended"}

Init ==
    /\ running = FALSE /\ session_id = 0 /\ on_road = 0 /\ tasks = <<>>
    /\ lives = 0 /\ accepted = 0
    /\ lock = NoOne /\ login_lock = NoOne
    /\ server_host \in BOOLEAN /\ pipe_running = FALSE
    /\ conns = [c \in Callers |-> "none"]
    /\ at = [p \in Procs |-> IF p \in Callers THEN "out" ELSE "none"]
    /\ todo = [p \in Procs |-> <<>>]
    /\ index = [p \in Procs |-> 1] /\ waits_for = [p \in Procs |-> NoOne]
    /\ cancelled = {} /\ overlap = FALSE /\ stoppers = {} /\ strays = 0
    /\ calls = 0 /\ troubles = 0

------------------------------------------------------------------------------
(* Calls from outside.                                                        *)

\* A handler logs in and creates a connection; the web control starts, stops, resets.
Call(c) ==
    /\ Ready(c) /\ at[c] = "out" /\ calls < MaxCalls
    /\ calls' = calls + 1
    /\ at' = [at EXCEPT ![c] = "begin"]
    /\ \E call \in {<<"start">>, <<"stop">>, <<"stop", "start">>} \cup
                   (IF conns[c] = "none" THEN {<<"login", "create">>} ELSE {}) :
           todo' = [todo EXCEPT ![c] = call]
    /\ UNCHANGED <<sessionVars, lockVars, server_host, pipe_running, conns, stopVars,
                   cancelled, history, troubles>>

\* create_conn for a handler; a session that does not run makes none.
CreateConn(c) ==
    /\ Begins(c, "create") \/ (at[c] = "create" /\ Ready(c))
    /\ IF ~running /\ at[c] = "begin" THEN UNCHANGED conns /\ Return(c)
       ELSE IF lock # NoOne THEN at[c] = "begin" /\ UNCHANGED conns /\ Go(c, "create")
       ELSE conns' = [conns EXCEPT ![c] = "live"] /\ Return(c)
    /\ UNCHANGED <<sessionVars, lockVars, server_host, pipe_running, stopVars, cancelled,
                   history, bounds>>

\* A connection's reader or relay ends and calls stop_async, ...
ConnEnds(c) ==
    /\ Calm /\ conns[c] = "live" /\ conns' = [conns EXCEPT ![c] = "stopping"]
    /\ UNCHANGED <<sessionVars, lockVars, server_host, pipe_running, at, todo, stopVars,
                   cancelled, history, bounds>>

\* ... which ends in remove_conn_async.
RemoveConn(c) ==
    /\ Calm /\ conns[c] = "stopping" /\ lock = NoOne
    /\ conns' = [conns EXCEPT ![c] = "none"]
    /\ UNCHANGED <<sessionVars, lockVars, server_host, pipe_running, at, todo, stopVars,
                   cancelled, history, bounds>>

------------------------------------------------------------------------------
(* stop.                                                                      *)

StopBegins(p) ==
    /\ Begins(p, "stop")
    /\ IF running
       THEN /\ running' = FALSE /\ Go(p, "cancel")
            /\ index' = [index EXCEPT ![p] = 1] /\ stoppers' = stoppers \cup {p}
       ELSE /\ Return(p) /\ UNCHANGED <<running, index, stoppers>>
    /\ UNCHANGED <<session_id, on_road, tasks, lives, accepted, lockVars, server_host, pipe_running,
                   conns, waits_for, cancelled, overlap, strays, bounds>>

\* (Mutant: the list of tasks is not cleared.)
StopKeepsTasks(p) ==
    /\ at[p] = "cancel"
    /\ IF index[p] > Len(tasks)
       THEN Go(p, "close") /\ UNCHANGED <<waits_for, cancelled>>
       ELSE LET t == tasks[index[p]]
            IN  /\ waits_for' = [waits_for EXCEPT ![p] = t] /\ Go(p, "await")
                /\ cancelled' = IF t # p /\ Alive(t) THEN cancelled \cup {t} ELSE cancelled
    /\ UNCHANGED <<sessionVars, lockVars, server_host, pipe_running, conns, index, history, bounds>>

\* The next task of the list is cancelled and awaited, at last the list is cleared.
\* A worker that comes to itself takes the cancellation for the awaited task's.
StopCancels(p) ==
    /\ at[p] = "cancel"
    /\ IF index[p] > Len(tasks)
       THEN /\ tasks' = <<>> /\ Go(p, "close") /\ UNCHANGED <<waits_for, cancelled>>
       ELSE LET t == tasks[index[p]]
            IN  /\ waits_for' = [waits_for EXCEPT ![p] = t] /\ Go(p, "await")
                /\ cancelled' = IF t # p /\ Alive(t) THEN cancelled \cup {t} ELSE cancelled
                /\ UNCHANGED tasks
    /\ UNCHANGED <<running, session_id, on_road, lives, accepted, lockVars, server_host,
                   pipe_running, conns, index, history, bounds>>

\* (Mutant: a worker that stops its session waits for itself to end.)
StopAwaitsItself(p) ==
    /\ Ready(p) /\ at[p] \in {"await", "overdue"} /\ ~Alive(waits_for[p])
    /\ Go(p, "cancel") /\ index' = [index EXCEPT ![p] = @ + 1]
    /\ UNCHANGED <<sessionVars, lockVars, server_host, pipe_running, conns, waits_for, cancelled,
                   history, bounds>>

StopAwaited(p) ==
    /\ Ready(p) /\ at[p] \in {"await", "overdue"} /\ (waits_for[p] = p \/ ~Alive(waits_for[p]))
    /\ Go(p, "cancel") /\ index' = [index EXCEPT ![p] = @ + 1]
    /\ UNCHANGED <<sessionVars, lockVars, server_host, pipe_running, conns, waits_for, cancelled,
                   history, bounds>>

\* After a second wait_for cancels the task again, and waits for it all the same.
StopWaitsLong(p) ==
    /\ Ready(p) /\ at[p] = "await" /\ waits_for[p] # p /\ Alive(waits_for[p])
    /\ Go(p, "overdue") /\ cancelled' = cancelled \cup {waits_for[p]}
    /\ UNCHANGED <<sessionVars, lockVars, server_host, pipe_running, conns, stopVars,
                   history, bounds>>

\* close_all_connections: stop_async of a live connection wants the lock its
\* caller holds. Without one the buffers and the pipe are stopped.
StopCloses(p) ==
    /\ at[p] = "close" \/ (at[p] = "closing" /\ Ready(p))
    /\ \/ /\ lock # NoOne /\ at[p] = "close"
          /\ Go(p, "closing") /\ UNCHANGED <<lock, conns, pipe_running>>
       \/ /\ lock = NoOne
          /\ \E c \in Callers : conns[c] = "live" /\ conns' = [conns EXCEPT ![c] = "stopping"]
          /\ lock' = p /\ Go(p, "self") /\ UNCHANGED pipe_running
       \/ /\ lock = NoOne /\ \A c \in Callers : conns[c] # "live"
          /\ conns' = [c \in Callers |-> "none"]
          /\ pipe_running' = FALSE /\ Go(p, "pipe") /\ UNCHANGED lock
    /\ UNCHANGED <<sessionVars, login_lock, server_host, stopVars, cancelled, history, bounds>>

\* The pipe's readers have ended.
StopReturns(p) ==
    /\ Ready(p) /\ at[p] = "pipe" /\ Return(p)
    /\ UNCHANGED <<sessionVars, lockVars, server_host, pipe_running, conns, stopVars, cancelled,
                   history, bounds>>

------------------------------------------------------------------------------
(* start.                                                                     *)

\* (Mutant: start does not take the lock.)
StartUnlocked(p) ==
    /\ Begins(p, "start")
    /\ IF running THEN Return(p) /\ UNCHANGED <<session_id, on_road, conns, strays>>
       ELSE /\ session_id' = lives + 1 /\ on_road' = 0 /\ conns' = [c \in Callers |-> "none"]
            /\ strays' = Cardinality(OnRoad)
            /\ IF server_host THEN Go(p, "login") ELSE Return(p)
    /\ UNCHANGED <<running, tasks, lives, accepted, lockVars, server_host, pipe_running, stopVars,
                   cancelled, overlap, stoppers, bounds>>

\* (Mutant: the requests on the road are not counted anew.)
StartKeepsCount(p) ==
    /\ Begins(p, "start") \/ (at[p] = "want_start" /\ Ready(p))
    /\ \/ /\ lock # NoOne /\ at[p] = "begin" /\ Go(p, "want_start")
          /\ UNCHANGED <<session_id, conns, lock, strays>>
       \/ lock = NoOne /\ running /\ Return(p) /\ UNCHANGED <<session_id, conns, lock, strays>>
       \/ /\ lock = NoOne /\ ~running
          /\ session_id' = lives + 1 /\ conns' = [c \in Callers |-> "none"]
          /\ strays' = Cardinality(OnRoad)
          /\ IF server_host THEN lock' = p /\ Go(p, "login") ELSE Return(p) /\ UNCHANGED lock
    /\ UNCHANGED <<running, on_road, tasks, lives, accepted, login_lock, server_host, pipe_running,
                   stopVars, cancelled, overlap, stoppers, bounds>>

\* A session that does not run is set up under the lock and logs in.
StartBegins(p) ==
    /\ Begins(p, "start") \/ (at[p] = "want_start" /\ Ready(p))
    /\ \/ /\ lock # NoOne /\ at[p] = "begin" /\ Go(p, "want_start")
          /\ UNCHANGED <<session_id, on_road, conns, lock, strays>>
       \/ /\ lock = NoOne /\ running /\ Return(p)
          /\ UNCHANGED <<session_id, on_road, conns, lock, strays>>
       \/ /\ lock = NoOne /\ ~running
          /\ session_id' = lives + 1 /\ on_road' = 0 /\ conns' = [c \in Callers |-> "none"]
          /\ strays' = Cardinality(OnRoad)
          /\ IF server_host THEN lock' = p /\ Go(p, "login") ELSE Return(p) /\ UNCHANGED lock
    /\ UNCHANGED <<running, tasks, lives, accepted, login_lock, server_host, pipe_running, stopVars,
                   cancelled, overlap, stoppers, bounds>>

\* The server accepts the login: the workers are made and the pipe is started.
LoginSucceeds(p) ==
    /\ Ready(p) /\ at[p] = "login"
    /\ lock' = NoOne /\ running' = TRUE /\ accepted' = session_id /\ lives' = lives + 1
    /\ tasks' = tasks \o [i \in 1 .. ThreadNum |-> <<session_id, i>>]
    /\ pipe_running' = TRUE
    /\ overlap' = (overlap \/ \E q \in Procs : at[q] \in Stopping)
    /\ todo' = [todo EXCEPT ![p] = Tail(@)]
    /\ at' = [q \in Procs |-> IF q = p
                              THEN IF Len(todo[p]) > 1 THEN "begin" ELSE Home(p, TRUE)
                              ELSE IF q \in {session_id} \X (1 .. ThreadNum) THEN "loop" ELSE at[q]]
    /\ UNCHANGED <<session_id, on_road, login_lock, server_host, conns, stopVars, cancelled,
                   stoppers, strays, bounds>>

\* The login fails, with status 521 the server is given up.
LoginFails(p) ==
    /\ Ready(p) /\ at[p] = "login" /\ lock' = NoOne /\ server_host' \in {server_host, FALSE} /\ Return(p)
    /\ UNCHANGED <<sessionVars, login_lock, pipe_running, conns, stopVars, cancelled, history, bounds>>

------------------------------------------------------------------------------
(* async_login_process.                                                       *)

\* With a server: a session that was idle too long is reset, one that does not run started.
LogIn(p, isKnown) ==
    LET rest == Tail(todo[p])
    IN  \/ /\ isKnown /\ running /\ troubles < MaxTroubles /\ troubles' = troubles + 1
           /\ login_lock' = p
           /\ todo' = [todo EXCEPT ![p] = <<"stop", "start", "again", "release">> \o rest]
           /\ at' = [at EXCEPT ![p] = "begin"]
        \/ /\ isKnown /\ running /\ login_lock' = NoOne /\ Return(p) /\ UNCHANGED troubles
        \/ /\ isKnown /\ ~running /\ login_lock' = p /\ UNCHANGED troubles
           /\ todo' = [todo EXCEPT ![p] = <<"start", "release">> \o rest]
           /\ at' = [at EXCEPT ![p] = "begin"]

LoginProcess(p) ==
    /\ Begins(p, "login") \/ (at[p] = "want_login" /\ Ready(p))
    /\ \/ /\ login_lock # NoOne /\ at[p] = "begin" /\ Go(p, "want_login")
          /\ UNCHANGED <<login_lock, troubles>>
       \/ /\ login_lock = NoOne /\ Return(p) /\ UNCHANGED <<login_lock, troubles>>  \* no account
       \/ login_lock = NoOne /\ LogIn(p, server_host)
       \/ /\ login_lock = NoOne /\ ~server_host
          /\ login_lock' = p /\ Go(p, "balance") /\ UNCHANGED troubles
    /\ UNCHANGED <<sessionVars, lock, server_host, pipe_running, conns, stopVars, cancelled,
                   history, calls>>

\* The account's server has answered request_balance, with a server_host or not.
Balanced(p) ==
    /\ Ready(p) /\ at[p] = "balance" /\ server_host' \in {server_host, TRUE}
    /\ IF server_host' THEN LogIn(p, TRUE)
       ELSE login_lock' = NoOne /\ Return(p) /\ UNCHANGED troubles
    /\ UNCHANGED <<sessionVars, lock, pipe_running, conns, stopVars, cancelled, history, calls>>

\* After the reset a session that does not run is started, and the lock released.
LoginEnds(p) ==
    /\ \/ Begins(p, "again") /\ running /\ Return(p) /\ UNCHANGED login_lock
       \/ /\ Begins(p, "again") /\ ~running /\ UNCHANGED <<at, login_lock>>
          /\ todo' = [todo EXCEPT ![p][1] = "start"]
       \/ Begins(p, "release") /\ login_lock' = NoOne /\ Return(p)
    /\ UNCHANGED <<sessionVars, lock, server_host, pipe_running, conns, stopVars, cancelled,
                   history, bounds>>

------------------------------------------------------------------------------
(* Workers.                                                                   *)

\* A worker sends a request; one that has waited for data does so after a stop, too.
TakeRoad(w) ==
    /\ Ready(w) /\ at[w] = "loop" /\ lock = NoOne
    /\ on_road' = on_road + 1 /\ Go(w, "road")
    /\ UNCHANGED <<running, session_id, tasks, lives, accepted, lockVars, server_host, pipe_running,
                   conns, stopVars, cancelled, history, bounds>>

WorkerExits(w) ==
    /\ Ready(w) /\ at[w] = "loop" /\ ~running /\ Go(w, "ended")
    /\ UNCHANGED <<sessionVars, lockVars, server_host, pipe_running, conns, stopVars, cancelled,
                   history, bounds>>

\* The request has ended; an answer may say that the server is down (521), that
\* there is no quota (error 1), that there is no such session (3); one of its blocks
\* may close a connection because there are too many, which resets the session, too.
Answered(w) ==
    /\ Ready(w) /\ at[w] = "road" /\ lock = NoOne /\ on_road' = on_road - 1
    /\ \/ Go(w, Home(w, running)) /\ UNCHANGED <<server_host, troubles>>
       \/ /\ troubles < MaxTroubles /\ troubles' = troubles + 1
          /\ \E calls_next \in {<<"stop", "login">>, <<"stop">>, <<"stop", "start">>} :
                 /\ todo' = [todo EXCEPT ![w] = calls_next]
                 /\ server_host' = (server_host /\ calls_next # <<"stop", "login">>)
          /\ at' = [at EXCEPT ![w] = "begin"]
    /\ UNCHANGED <<running, session_id, tasks, lives, accepted, lockVars, pipe_running, conns,
                   stopVars, cancelled, history, calls>>

\* The exception ends the task, whatever it was calling; the locks it holds are released.
Dies(t) ==
    /\ at' = [at EXCEPT ![t] = "ended"] /\ todo' = [todo EXCEPT ![t] = <<>>]
    /\ lock' = IF lock = t THEN NoOne ELSE lock
    /\ login_lock' = IF login_lock = t THEN NoOne ELSE login_lock

\* A cancellation reaches a worker. On the road it first gives its place back, for
\* which it may have to wait for the lock; a second one ends that too. Inside a
\* stop's loop it goes on to the task that is awaited and is then forgotten, and so
\* it is while the pipe waits for a reader, but not while it waits for its lock.
Cancelled(t) ==
    /\ Calm /\ t \in cancelled
    /\ \/ at[t] \notin {"road", "await", "overdue"} /\ Dies(t) /\ UNCHANGED on_road
       \/ at[t] = "road" /\ lock = NoOne /\ on_road' = on_road - 1 /\ Dies(t)
       \/ at[t] = "road" /\ lock # NoOne /\ Dies(t) /\ UNCHANGED on_road
       \/ at[t] = "road" /\ lock # NoOne /\ Go(t, "fin") /\ UNCHANGED <<on_road, lockVars>>
       \/ at[t] \in {"await", "overdue", "pipe"} /\ UNCHANGED <<at, todo, on_road, lockVars>>
    /\ cancelled' = (cancelled \ {t}) \cup
                    {u \in {waits_for[t]} : at[t] \in {"await", "overdue"} /\ u # t /\ Alive(u)}
    /\ UNCHANGED <<running, session_id, tasks, lives, accepted, server_host, pipe_running, conns,
                   stopVars, history, bounds>>

Finally(w) ==
    /\ Ready(w) /\ at[w] = "fin" /\ lock = NoOne /\ on_road' = on_road - 1 /\ Go(w, "ended")
    /\ UNCHANGED <<running, session_id, tasks, lives, accepted, lockVars, server_host, pipe_running,
                   conns, stopVars, cancelled, history, bounds>>

------------------------------------------------------------------------------
StopStep(p) ==
    \/ StopBegins(p) \/ StopCancels(p) \/ StopAwaited(p) \/ StopWaitsLong(p)
    \/ StopCloses(p) \/ StopReturns(p)

StartStep(p) ==
    \/ StartBegins(p) \/ LoginSucceeds(p) \/ LoginFails(p)
    \/ LoginProcess(p) \/ Balanced(p) \/ LoginEnds(p)

WorkerStep(w) == WorkerExits(w) \/ Answered(w) \/ Cancelled(w) \/ Finally(w)

WorkerGoesOn(w) == StopStep(w) \/ StartStep(w) \/ WorkerStep(w)

CallerGoesOn(c) == StopStep(c) \/ StartStep(c) \/ CreateConn(c)

Next ==
    \/ \E w \in Workers : WorkerGoesOn(w) \/ TakeRoad(w)
    \/ \E c \in Callers : CallerGoesOn(c) \/ Call(c) \/ ConnEnds(c) \/ RemoveConn(c)

Spec == Init /\ [][Next]_vars

\* The event loop runs every task that can go on; requests are answered or time out.
Fairness ==
    /\ \A w \in Workers : WF_vars(WorkerGoesOn(w))
    /\ \A c \in Callers : WF_vars(CallerGoesOn(c)) /\ WF_vars(RemoveConn(c))

FairSpec == Spec /\ Fairness
------------------------------------------------------------------------------
\* A session that runs works under the session_id the server has accepted last:
\* no other start, stop or login in between has changed the one or the other.
LoggedIn == running => accepted = session_id /\ session_id = lives

\* Unless its start fell into a stop, a running session has exactly its own workers
\* to cancel, all of them alive, and a pipe that runs. Of the workers of former lives
\* only those are alive that stopped the session themselves.
Mine == {session_id} \X (1 .. ThreadNum)

WorkersExact ==
    running /\ ~overlap =>
        /\ {tasks[i] : i \in DOMAIN tasks} = Mine /\ Len(tasks) = ThreadNum /\ pipe_running
        /\ \A w \in Mine : Alive(w)
        /\ \A w \in Workers \ Mine : Alive(w) => w \in stoppers

\* Unless its start fell into a stop, a running session counts the requests on the
\* road. What is wrong with the count is what it was set up with: the requests of
\* workers of former lives that were under way then.
RoadExact == running /\ ~overlap => on_road = Cardinality(OnRoad) - strays

\* A stop that waits for itself: it holds the lock the connection it stops wants.
SelfLocked == \E p \in Procs : at[p] = "self"

\* Every call of start, stop, reset or login returns, or its task is cancelled:
\* tasks, locks and logins never wait for each other for ever (calls are bounded,
\* so there comes a time without any). Only a stop that finds a live connection
\* hangs, and what a start during a stop leaves is not said.
NobodyCalls == \A p \in Procs : todo[p] = <<>>

CallsReturn == ~NobodyCalls ~> NobodyCalls \/ SelfLocked \/ overlap
==============================================================================
