--------------------------- MODULE HttpDispatcher ---------------------------
(***************************************************************************)
(* How a front carries a request: HttpsDispatcher of front_base with its   *)
(* HTTP/1 workers.  A caller puts a task into request_queue and waits for  *)
(* an answer; the dispatcher thread hands the task to a worker that        *)
(* accepts one; the worker's thread sends it, answers it and stores the    *)
(* body, or gives it back to be retried.  Connections come at any time      *)
(* from two threads, see CreateWorker for the one that asks for them.      *)
(* Workers are closed by themselves, and from outside: by the connection   *)
(* checker or their own keep-alive thread ("checker"), by the dispatcher,  *)
(* and by stop.                                                            *)
(*                                                                         *)
(* All of them are threads.  A step is a stretch between two accesses to   *)
(* shared state that another thread can tell apart.  A comparison with a   *)
(* clock, a score or a worker's life may come out either way.              *)
(***************************************************************************)
EXTENDS Naturals, Sequences, FiniteSets, Functions

CONSTANTS
    Tasks,        \* the requests
    Workers,      \* the connections, and the workers made for them
    None, Ping,   \* what a queue holds besides tasks
    RetryLimit,   \* a task is retried while its retry_count is at most this
    DisturbBound  \* bound: pings, and closes that checker and dispatcher begin

Outside == {"checker", "dispatcher", "stopper"}
Closers == Outside \cup Workers   \* a worker stands for its own thread


ASSUME DispatcherAssumption ==
    /\ IsFiniteSet(Tasks) /\ IsFiniteSet(Workers)
    /\ None \notin Tasks \cup Workers /\ Ping \notin Tasks \cup {None}
    /\ Outside \cap Workers = {}
    /\ RetryLimit \in Nat /\ DisturbBound \in Nat

VARIABLES
    running, request_queue,
    caller,           \* where the caller of each task is
    responsed, finished, retry_count,   \* of each task
    answers,          \* history: responses put into each task's queue
    raced,            \* history: tasks that were taken from a working worker,
    late,             \* and tasks handed to a worker that was told to exit
    dispatcher, d_task, d_worker,       \* the dispatcher thread
    making,           \* connections a thread is about to make a worker for
    stopper, to_stop, \* the thread in stop, and its copy of the list
    workers,          \* the list
    sock,             \* of each connection: "none", "open" or "closed"
    accept_task, keep_running,
    worker_task,      \* self.task of each worker
    task_queue,
    work_loop, doing, \* where a worker's thread is, and its local task
    closing, target,  \* where each closer is in close, and of which worker
    disturbed         \* history: disturbances

taskVars == <<request_queue, responsed, finished, retry_count, answers>>
dispatcherVars == <<dispatcher, d_task, d_worker>>
stopVars == <<running, stopper, to_stop>>
workerVars == <<sock, accept_task, keep_running, worker_task, task_queue>>
loopVars == <<work_loop, doing>>
closeVars == <<closing, target>>
vars == <<taskVars, raced, late, caller, dispatcherVars, making, stopVars,
          workers, workerVars, loopVars, closeVars, disturbed>>

-----------------------------------------------------------------------------
(* Tasks *)

Finish(t) == finished' = [finished EXCEPT ![t] = TRUE]

\* response_fail; after a response it only puts another end mark.
ResponseFail(t) ==
    /\ responsed' = [responsed EXCEPT ![t] = TRUE]
    /\ IF responsed[t] THEN UNCHANGED <<finished, answers>>
       ELSE Finish(t) /\ answers' = [answers EXCEPT ![t] = @ + 1]

\* The response's head goes to the caller.
Answer(t) ==
    /\ responsed' = [responsed EXCEPT ![t] = TRUE]
    /\ answers' = [answers EXCEPT ![t] = @ + 1]

Requeue(t) ==
    /\ retry_count' = [retry_count EXCEPT ![t] = @ + 1]
    /\ request_queue' = Append(request_queue, t)
    /\ UNCHANGED <<responsed, finished, answers>>

\* (Mutant: a task that was answered is retried all the same.)
RetryAnswered(t) ==
    \/ ~responsed[t] /\ ResponseFail(t) /\ UNCHANGED <<request_queue, retry_count>>
    \/ retry_count[t] <= RetryLimit /\ running /\ Requeue(t)

\* retry_task_cb.  A task fails that was retried too often or too long ago, or
\* when the dispatcher is stopped.
RetryTask(t) ==
    \/ responsed[t] /\ Finish(t) /\ UNCHANGED <<request_queue, responsed, retry_count, answers>>
    \/ ~responsed[t] /\ ResponseFail(t) /\ UNCHANGED <<request_queue, retry_count>>
    \/ ~responsed[t] /\ retry_count[t] <= RetryLimit /\ running /\ Requeue(t)

-----------------------------------------------------------------------------
(* request: a caller is "out", in "wait", or "back", with an answer or       *)
(* because its time is over.  The limit max_task_num only refuses requests. *)

callerSame == <<responsed, finished, retry_count, answers, raced, late, dispatcherVars, making,
                stopVars, workers, workerVars, loopVars, closeVars, disturbed>>

Request(t) ==
    /\ caller[t] = "out"
    /\ caller' = [caller EXCEPT ![t] = "wait"]
    /\ request_queue' = Append(request_queue, t)
    /\ UNCHANGED callerSame

Return(t) ==
    /\ caller[t] = "wait"
    /\ caller' = [caller EXCEPT ![t] = "back"]
    /\ UNCHANGED <<callerSame, request_queue>>

-----------------------------------------------------------------------------
(* close of a worker, by any closer c.  A closer is at its "check" of       *)
(* self.task, about to "use" it, to "clear" it, or goes to the "lock".      *)

\* Http1Worker.close begins by telling the worker's thread to exit.
CloseBegins(c, w) ==
    /\ closing' = [closing EXCEPT ![c] = "check"]
    /\ target' = [target EXCEPT ![c] = w]
    /\ task_queue' = [task_queue EXCEPT ![w] = Append(@, None)]

CloseGoes(c, where) == closing' = [closing EXCEPT ![c] = where]

closeSame == <<late, caller, making, running, to_stop, disturbed>>

CloseChecks(c) ==
    /\ closing[c] = "check"
    /\ CloseGoes(c, IF worker_task[target[c]] = None THEN "lock" ELSE "use")
    /\ UNCHANGED <<closeSame, taskVars, raced, dispatcherVars, stopper, workers, workerVars,
                   loopVars, target>>

\* The task has gone since the check, and None has no responsed: the checker logs
\* this, the dispatcher fails the task it has, stop ends, a worker's thread dies.
CloseRaises(c) ==
    /\ CloseGoes(c, "no")
    /\ stopper' = IF c = "stopper" THEN "returned" ELSE stopper
    /\ IF c \in Workers
       THEN work_loop' = [work_loop EXCEPT ![c] = "ended"] /\ doing' = [doing EXCEPT ![c] = None]
       ELSE UNCHANGED loopVars
    /\ IF c = "dispatcher"
       THEN /\ ResponseFail(d_task)
            /\ dispatcher' = "loop" /\ d_task' = None
            /\ UNCHANGED <<request_queue, retry_count, d_worker>>
       ELSE UNCHANGED <<taskVars, dispatcherVars>>
    /\ UNCHANGED raced

\* The worker's thread may be working on the task, or another close may have handed
\* it back and not cleared it yet.
Races(c, w) ==
    \/ c # w /\ work_loop[w] # "ended"
    \/ \E other \in Closers \ {c} : target[other] = w /\ closing[other] = "clear"

\* Its task is finished or retried.
CloseHandsBack(c, w) ==
    /\ RetryTask(worker_task[w])
    /\ raced' = IF Races(c, w) THEN raced \cup {worker_task[w]} ELSE raced
    /\ CloseGoes(c, "clear")
    /\ UNCHANGED <<stopper, loopVars, dispatcherVars>>

CloseUses(c) ==
    /\ closing[c] = "use"
    /\ IF worker_task[target[c]] = None THEN CloseRaises(c)
                                       ELSE CloseHandsBack(c, target[c])
    /\ UNCHANGED <<closeSame, workers, workerVars, target>>

\* HttpWorker.close under the worker's lock; close_cb takes it from the list, and so
\* does the dispatcher after it in any case.
CloseLocked(c) ==
    /\ closing[c] \in {"clear", "lock"}
    /\ worker_task' = IF closing[c] = "clear" THEN [worker_task EXCEPT ![target[c]] = None]
                                              ELSE worker_task
    /\ LET w == target[c] IN
       /\ IF keep_running[w]
          THEN /\ accept_task' = [accept_task EXCEPT ![w] = FALSE]
               /\ keep_running' = [keep_running EXCEPT ![w] = FALSE]
               /\ sock' = [sock EXCEPT ![w] = "closed"]
          ELSE UNCHANGED <<accept_task, keep_running, sock>>
       /\ workers' = IF keep_running[w] \/ c = "dispatcher" THEN workers \ {w} ELSE workers
    /\ CloseGoes(c, "no")
    /\ UNCHANGED <<closeSame, taskVars, raced, dispatcherVars, stopper, task_queue,
                   loopVars, target>>

CloseStep(c) == CloseChecks(c) \/ CloseUses(c) \/ CloseLocked(c)

\* connection_checker, or keep_alive_thread.
CheckerCloses(w) ==
    /\ closing["checker"] = "no" /\ work_loop[w] # "none"
    /\ disturbed < DisturbBound /\ disturbed' = disturbed + 1
    /\ CloseBegins("checker", w)
    /\ UNCHANGED <<taskVars, raced, late, caller, dispatcherVars, making,
                   stopVars, workers, sock, accept_task, keep_running, worker_task,
                   loopVars>>

\* keep_alive_thread
PutPing(w) ==
    /\ work_loop[w] \in {"loop", "get", "after"}
    /\ disturbed < DisturbBound /\ disturbed' = disturbed + 1
    /\ task_queue' = [task_queue EXCEPT ![w] = Append(@, Ping)]
    /\ UNCHANGED <<taskVars, raced, late, caller, dispatcherVars, making,
                   stopVars, workers, sock, accept_task, keep_running, worker_task,
                   loopVars, closeVars>>

-----------------------------------------------------------------------------
(* The thread of an HTTP/1 worker: at the top of its "loop"; in a "get";    *)
(* with a request on the "road", or one that has "failed"; reading a        *)
(* "body", or with its "end"; "after" a request; or "ended".  While it      *)
(* closes itself this says where it goes on.                                *)

loopSame == <<caller, dispatcherVars, making, stopVars, workers, disturbed>>

WorkGoes(w, where) == work_loop' = [work_loop EXCEPT ![w] = where]

ClosesItself(w, then) == CloseBegins(w, w) /\ WorkGoes(w, then)

LoopTop(w) ==
    /\ work_loop[w] = "loop"
    /\ WorkGoes(w, IF keep_running[w] THEN "get" ELSE "ended")
    /\ UNCHANGED <<loopSame, taskVars, raced, late, workerVars, doing, closeVars>>

\* Told to exit: the worker is not closed here.
GetNone(w) ==
    /\ work_loop[w] = "get" /\ task_queue[w] # <<>> /\ Head(task_queue[w]) = None
    /\ task_queue' = [task_queue EXCEPT ![w] = Tail(@)]
    /\ accept_task' = [accept_task EXCEPT ![w] = FALSE]
    /\ keep_running' = [keep_running EXCEPT ![w] = FALSE]
    /\ WorkGoes(w, "ended")
    /\ UNCHANGED <<loopSame, taskVars, raced, late, sock, worker_task, doing, closeVars>>

\* head_request; a worker whose ping fails closes itself and leaves.
GetPing(w) ==
    /\ work_loop[w] = "get" /\ task_queue[w] # <<>> /\ Head(task_queue[w]) = Ping
    /\ \/ /\ task_queue' = [task_queue EXCEPT ![w] = Tail(@)]
          /\ WorkGoes(w, "loop") /\ UNCHANGED closeVars
       \/ /\ task_queue' = [task_queue EXCEPT ![w] = Append(Tail(@), None)]
          /\ WorkGoes(w, "ended")
          /\ CloseGoes(w, "check") /\ target' = [target EXCEPT ![w] = w]
    /\ UNCHANGED <<loopSame, taskVars, raced, late, sock, accept_task, keep_running,
                   worker_task, doing>>

\* A task, which is sent, or given back after too long an idle time.
GetTask(w) ==
    /\ work_loop[w] = "get" /\ task_queue[w] # <<>> /\ Head(task_queue[w]) \in Tasks
    /\ \/ /\ task_queue' = [task_queue EXCEPT ![w] = Tail(@)]
          /\ doing' = [doing EXCEPT ![w] = Head(task_queue[w])]
          /\ WorkGoes(w, "road") /\ UNCHANGED <<worker_task, closeVars>>
       \/ /\ worker_task' = [worker_task EXCEPT ![w] = Head(task_queue[w])]
          /\ task_queue' = [task_queue EXCEPT ![w] = Append(Tail(@), None)]
          /\ WorkGoes(w, "ended") /\ UNCHANGED doing
          /\ CloseGoes(w, "check") /\ target' = [target EXCEPT ![w] = w]
    /\ UNCHANGED <<loopSame, taskVars, raced, late, sock, accept_task, keep_running>>

\* Sending, or waiting for the response's head, fails.
RequestFails(w) ==
    /\ work_loop[w] = "road"
    /\ RetryTask(doing[w])
    /\ doing' = [doing EXCEPT ![w] = None]
    /\ WorkGoes(w, "failed")
    /\ UNCHANGED <<loopSame, raced, late, workerVars, closeVars>>

CloseFailed(w) ==
    /\ work_loop[w] = "failed"
    /\ worker_task' = [worker_task EXCEPT ![w] = None]
    /\ ClosesItself(w, "after")
    /\ UNCHANGED <<loopSame, taskVars, raced, late, sock, accept_task, keep_running, doing>>

ResponseBegins(w) ==
    /\ work_loop[w] = "road" /\ sock[w] = "open"
    /\ Answer(doing[w])
    /\ WorkGoes(w, "body")
    /\ UNCHANGED <<loopSame, request_queue, finished, retry_count, raced, late, workerVars,
                   doing, closeVars>>

\* (Mutant: the task is cleared before the close, as after a failed request.)
BodyFailsCleared(w) ==
    /\ work_loop[w] = "body"
    /\ doing' = [doing EXCEPT ![w] = None]
    /\ worker_task' = [worker_task EXCEPT ![w] = None]
    /\ ClosesItself(w, "after")
    /\ UNCHANGED <<loopSame, taskVars, raced, late, sock, accept_task, keep_running>>

\* Reading fails: close finishes the task.
BodyFails(w) ==
    /\ work_loop[w] = "body"
    /\ doing' = [doing EXCEPT ![w] = None]
    /\ ClosesItself(w, "after")
    /\ UNCHANGED <<loopSame, taskVars, raced, late, sock, accept_task, keep_running, worker_task>>

\* The body is shorter than it should be: the worker is closed, and goes on.
BodyShort(w) ==
    /\ work_loop[w] = "body"
    /\ ClosesItself(w, "end")
    /\ UNCHANGED <<loopSame, taskVars, raced, late, sock, accept_task, keep_running, worker_task,
                   doing>>

BodyEnds(w) ==
    /\ work_loop[w] \in {"body", "end"}
    /\ Finish(doing[w])
    /\ doing' = [doing EXCEPT ![w] = None]
    /\ worker_task' = [worker_task EXCEPT ![w] = None]
    /\ accept_task' = [accept_task EXCEPT ![w] = TRUE]
    /\ WorkGoes(w, "after")
    /\ UNCHANGED <<loopSame, request_queue, responsed, retry_count, answers, raced, late, sock,
                   keep_running, task_queue, closeVars>>

\* The worker's life may have ended.
AfterRequest(w) ==
    /\ work_loop[w] = "after"
    /\ \/ WorkGoes(w, "loop") /\ UNCHANGED <<task_queue, closeVars>>
       \/ ClosesItself(w, "ended")
    /\ UNCHANGED <<loopSame, taskVars, raced, late, sock, accept_task, keep_running, worker_task,
                   doing>>

WorkStep(w) ==
    /\ closing[w] = "no"
    /\ \/ LoopTop(w) \/ GetNone(w) \/ GetPing(w) \/ GetTask(w)
       \/ RequestFails(w) \/ CloseFailed(w) \/ ResponseBegins(w)
       \/ BodyFails(w) \/ BodyShort(w) \/ BodyEnds(w) \/ AfterRequest(w)

-----------------------------------------------------------------------------
(* dispatcher *)

dispatcherSame == <<raced, late, caller, making, stopVars, loopVars, disturbed>>

DispatcherLoop ==
    /\ dispatcher = "loop"
    /\ dispatcher' = IF running THEN "get" ELSE "exit"
    /\ UNCHANGED <<dispatcherSame, taskVars, d_task, d_worker, workers,
                   workerVars, closeVars>>

DispatcherGets ==
    /\ dispatcher = "get" /\ request_queue # <<>>
    /\ request_queue' = Tail(request_queue)
    /\ IF Head(request_queue) = None
       THEN dispatcher' = "exit" /\ UNCHANGED d_task
       ELSE dispatcher' = "choose" /\ d_task' = Head(request_queue)
    /\ UNCHANGED <<dispatcherSame, responsed, finished, retry_count, answers, d_worker,
                   workers, workerVars, closeVars>>

\* get_worker: the best of the workers that accept a task.  While none does, the loop
\* goes round, or waits a second for a worker to be idle.
ChooseWorker ==
    /\ dispatcher = "choose" /\ closing["dispatcher"] = "no" /\ running
    /\ \E w \in workers :
          /\ accept_task[w]
          /\ d_worker' = w /\ dispatcher' = "hand"
    /\ UNCHANGED <<dispatcherSame, taskVars, d_task, workers,
                   workerVars, closeVars>>

\* _remove_life_end_workers; a worker with a request under way is not spared.
DispatcherCloses ==
    /\ dispatcher = "choose" /\ closing["dispatcher"] = "no" /\ running
    /\ disturbed < DisturbBound /\ disturbed' = disturbed + 1
    /\ \E w \in workers : CloseBegins("dispatcher", w)
    /\ UNCHANGED <<raced, late, caller, making, stopVars, loopVars, taskVars,
                   dispatcherVars, workers, sock, accept_task, keep_running,
                   worker_task>>

\* (Mutant: the task is dropped.)
NoWorkerDrops ==
    /\ dispatcher = "choose" /\ closing["dispatcher"] = "no" /\ ~running
    /\ dispatcher' = "loop" /\ d_task' = None
    /\ UNCHANGED <<responsed, finished, answers>>

\* get_worker returns None when the dispatcher is stopped.
NoWorkerFails ==
    /\ dispatcher = "choose" /\ closing["dispatcher"] = "no" /\ ~running
    /\ dispatcher' = "loop" /\ d_task' = None
    /\ ResponseFail(d_task)

NoWorker ==
    /\ NoWorkerFails
    /\ UNCHANGED <<dispatcherSame, request_queue, retry_count, d_worker, 
                   workers, workerVars, closeVars>>

\* Http1Worker.request, of a worker that may have been closed since.
HandOver ==
    /\ dispatcher = "hand"
    /\ accept_task' = [accept_task EXCEPT ![d_worker] = FALSE]
    /\ worker_task' = [worker_task EXCEPT ![d_worker] = d_task]
    /\ task_queue' = [task_queue EXCEPT ![d_worker] = Append(@, d_task)]
    /\ dispatcher' = "loop" /\ d_task' = None /\ d_worker' = None
    /\ late' = IF None \in Range(task_queue[d_worker]) \/ work_loop[d_worker] = "ended"
               THEN late \cup {d_task} ELSE late
    /\ UNCHANGED <<raced, caller, making, stopVars, loopVars, disturbed, taskVars, workers,
                   sock, keep_running, closeVars>>

DispatcherExits ==
    /\ dispatcher = "exit" /\ dispatcher' = "ended"
    /\ UNCHANGED <<dispatcherSame, taskVars, d_task, d_worker, workers,
                   workerVars, closeVars>>

DispatcherStep ==
    \/ DispatcherLoop \/ DispatcherGets \/ ChooseWorker \/ NoWorker
    \/ HandOver \/ DispatcherExits

-----------------------------------------------------------------------------
(* Connections become workers: in create_worker_thread, and in the           *)
(* keep-alive thread of the connect manager.                                *)

makerSame == <<taskVars, raced, late, caller, dispatcherVars, stopVars, doing, closeVars, disturbed>>

\* on_ssl_created_cb closes the connection when the dispatcher is stopped.
SslCreated(w) ==
    /\ sock[w] = "none" /\ Cardinality(making) < 2
    /\ sock' = [sock EXCEPT ![w] = IF running THEN "open" ELSE "closed"]
    /\ making' = IF running THEN making \cup {w} ELSE making
    /\ UNCHANGED <<makerSame, workers, accept_task, keep_running, worker_task, task_queue,
                   work_loop>>

\* The new worker's thread is started, and it is appended to the list.
AppendWorker(w) ==
    /\ w \in making /\ making' = making \ {w}
    /\ workers' = workers \cup {w}
    /\ accept_task' = [accept_task EXCEPT ![w] = TRUE]
    /\ keep_running' = [keep_running EXCEPT ![w] = TRUE]
    /\ work_loop' = [work_loop EXCEPT ![w] = "loop"]
    /\ UNCHANGED <<makerSame, sock, worker_task, task_queue>>

-----------------------------------------------------------------------------
(* stop *)

stopSame == <<raced, late, caller, dispatcherVars, making, sock, accept_task,
              keep_running, worker_task, loopVars, disturbed>>

StopRunning ==
    /\ stopper = "none" /\ stopper' = "put" /\ running' = FALSE
    /\ UNCHANGED <<stopSame, taskVars, to_stop, workers, task_queue, closeVars>>

\* The dispatcher is told to exit; close_all_worker takes a copy of the list.
StopPuts ==
    /\ stopper = "put" /\ stopper' = "close"
    /\ request_queue' = Append(request_queue, None)
    /\ to_stop' = workers
    /\ UNCHANGED <<stopSame, running, responsed, finished, retry_count, answers, workers,
                   task_queue, closeVars>>

\* Only a worker that accepts a task is closed.
StopCloses(w) ==
    /\ stopper = "close" /\ closing["stopper"] = "no" /\ w \in to_stop
    /\ to_stop' = to_stop \ {w}
    /\ IF accept_task[w] THEN CloseBegins("stopper", w) ELSE UNCHANGED <<task_queue, closeVars>>
    /\ UNCHANGED <<stopSame, taskVars, running, stopper, workers>>

StopReturns ==
    /\ stopper = "close" /\ closing["stopper"] = "no" /\ to_stop = {}
    /\ stopper' = "returned" /\ workers' = {}
    /\ UNCHANGED <<stopSame, taskVars, running, to_stop, task_queue, closeVars>>

StopStep == StopPuts \/ (\E w \in Workers : StopCloses(w)) \/ StopReturns

-----------------------------------------------------------------------------
Init ==
    /\ running = TRUE /\ request_queue = <<>>
    /\ caller = [t \in Tasks |-> "out"]
    /\ responsed = [t \in Tasks |-> FALSE] /\ finished = [t \in Tasks |-> FALSE]
    /\ retry_count = [t \in Tasks |-> 0] /\ answers = [t \in Tasks |-> 0] /\ raced = {} /\ late = {}
    /\ dispatcher = "loop" /\ d_task = None /\ d_worker = None
    /\ making = {}
    /\ stopper = "none" /\ to_stop = {}
    /\ workers = {} /\ sock = [w \in Workers |-> "none"]
    /\ accept_task = [w \in Workers |-> FALSE] /\ keep_running = [w \in Workers |-> FALSE]
    /\ worker_task = [w \in Workers |-> None] /\ task_queue = [w \in Workers |-> <<>>]
    /\ work_loop = [w \in Workers |-> "none"] /\ doing = [w \in Workers |-> None]
    /\ closing = [c \in Closers |-> "no"] /\ target = [c \in Closers |-> None]
    /\ disturbed = 0

\* After stop, nothing is left to do.
Quiet ==
    /\ stopper = "returned" /\ dispatcher = "ended"
    /\ making = {}
    /\ \A t \in Tasks : caller[t] \in {"out", "back"}
    /\ \A c \in Closers : closing[c] = "no"
    /\ \A w \in Workers : \/ work_loop[w] \in {"none", "ended"}
                           \/ (work_loop[w] = "get" /\ task_queue[w] = <<>>)
    /\ UNCHANGED vars

Next ==
    \/ \E t \in Tasks : Request(t) \/ Return(t)
    \/ \E w \in Workers : WorkStep(w) \/ CheckerCloses(w) \/ PutPing(w)
    \/ \E w \in Workers : SslCreated(w) \/ AppendWorker(w)
    \/ \E c \in Closers : CloseStep(c)
    \/ DispatcherStep \/ DispatcherCloses
    \/ StopRunning \/ StopStep
    \/ Quiet

Spec == Init /\ [][Next]_vars

-----------------------------------------------------------------------------
(* Properties *)

(* A requested task is in the dispatcher's queue or hands, with a worker whose  *)
(* thread works on it or will take it, or with a close that will retry it.  The *)
(* one way to lose it is to hand it to a worker that was told to exit after it   *)
(* had been chosen.                                                             *)
InClose(t, w) ==
    /\ worker_task[w] = t
    /\ \E c \in Closers : target[c] = w /\ closing[c] \in {"check", "use"}
Located(t) ==
    \/ t \in Range(request_queue) \/ d_task = t
    \/ \E w \in Workers : \/ doing[w] = t
                        \/ (t \in Range(task_queue[w]) /\ work_loop[w] # "ended")
                        \/ InClose(t, w)
NoTaskForgotten ==
    \A t \in Tasks : (caller[t] # "out" /\ ~responsed[t] /\ t \notin late) => Located(t)

(* A task is answered once, however often it is retried, unless it is taken from *)
(* a worker whose thread has it: that thread fails and retries the task, too, and *)
(* two workers may answer it into the same queue and the same body.               *)
AnsweredOnce == \A t \in Tasks \ raced : answers[t] <= 1

(* An answered task whose body has no end mark yet will get it, from the thread   *)
(* that reads the body or from a close that still holds the task, so its reader   *)
(* does not wait for its time-out.  Again a task taken from a thread may be left. *)
BodyWillEnd ==
    \A t \in Tasks \ raced : responsed[t] /\ ~finished[t] =>
        \E w \in Workers : doing[w] = t \/ InClose(t, w)
=============================================================================
