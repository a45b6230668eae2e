---------------------------- MODULE CreateWorker ----------------------------
(***************************************************************************)
(* create_worker_thread of HttpsDispatcher, which gets connections for new *)
(* workers.  Between two of them it waits for a trigger, without a         *)
(* time-out, on a SimpleCondition.  That keeps no flag: a notification     *)
(* wakes a thread that waits, or nobody.  Triggers come from the           *)
(* dispatcher thread, from requests that fail, from whoever wants all      *)
(* connections, and at last from the dispatcher thread when it exits.      *)
(*                                                                         *)
(* Other threads append and close workers at any time, so a comparison of  *)
(* the number of workers with a limit may come out either way.             *)
(***************************************************************************)

VARIABLES
    running,
    connect_all_workers,
    creator,       \* where create_worker_thread is
    dispatcher,    \* whether the dispatcher thread "runs", is at its "exit", or has "ended"
    requests       \* there are requests that may still fail

vars == <<running, connect_all_workers, creator, dispatcher, requests>>

-----------------------------------------------------------------------------
(* The creator is at the top of its "loop"; about to "wait"; "waiting"; in  *)
(* get_ssl_connection, "connect"; about to "append" a worker; or "ended".   *)

\* SimpleCondition.notify
NotifyCreator == creator' = IF creator = "waiting" THEN "connect" ELSE creator

CreatorLoop ==
    /\ creator = "loop"
    /\ \/ ~running /\ creator' = "ended"
       \/ running /\ creator' = "wait"
       \/ running /\ connect_all_workers /\ creator' = "connect"
    /\ UNCHANGED <<running, connect_all_workers, dispatcher, requests>>

\* SimpleCondition.wait: from here on a notification is heard.
CreatorWaits ==
    /\ creator = "wait" /\ creator' = "waiting"
    /\ UNCHANGED <<running, connect_all_workers, dispatcher, requests>>

\* With enough workers, connect_all_workers is reset.
EnoughOrNot == connect_all_workers' \in {FALSE, connect_all_workers}

\* No connection in a minute; one for a new worker; or one that is closed because
\* the dispatcher is stopped.
CreatorConnects ==
    /\ creator = "connect"
    /\ \/ creator' = "loop" /\ connect_all_workers' = FALSE
       \/ running /\ creator' = "append" /\ UNCHANGED connect_all_workers
       \/ ~running /\ creator' = "loop" /\ EnoughOrNot
    /\ UNCHANGED <<running, dispatcher, requests>>

CreatorAppends ==
    /\ creator = "append" /\ creator' = "loop" /\ EnoughOrNot
    /\ UNCHANGED <<running, dispatcher, requests>>

CreatorStep == CreatorLoop \/ CreatorWaits \/ CreatorConnects \/ CreatorAppends

-----------------------------------------------------------------------------
(* The others *)

\* get_worker, and request after a failure.
Trigger ==
    /\ dispatcher = "runs" \/ requests
    /\ NotifyCreator
    /\ UNCHANGED <<running, connect_all_workers, dispatcher, requests>>

\* start_connect_all_ips; a score is asked for while the front is in use.
ConnectAll ==
    /\ requests
    /\ connect_all_workers' = TRUE /\ NotifyCreator
    /\ UNCHANGED <<running, dispatcher, requests>>

RequestsEnd ==
    /\ requests' = FALSE
    /\ UNCHANGED <<running, connect_all_workers, creator, dispatcher>>

Stop ==
    /\ running' = FALSE
    /\ UNCHANGED <<connect_all_workers, creator, dispatcher, requests>>

\* The loop of dispatcher ends: not running, or None from the queue.
DispatcherLeaves ==
    /\ dispatcher = "runs" /\ ~running /\ dispatcher' = "exit"
    /\ UNCHANGED <<running, connect_all_workers, creator, requests>>

\* "wait up threads to exit."
DispatcherExits ==
    /\ dispatcher = "exit" /\ dispatcher' = "ended"
    /\ NotifyCreator
    /\ UNCHANGED <<running, connect_all_workers, requests>>

-----------------------------------------------------------------------------
Init ==
    /\ running = TRUE /\ connect_all_workers \in BOOLEAN
    /\ creator = "loop" /\ dispatcher = "runs" /\ requests = TRUE

Next ==
    \/ CreatorStep
    \/ Trigger \/ ConnectAll \/ RequestsEnd
    \/ Stop \/ DispatcherLeaves \/ DispatcherExits

\* Both threads run, and get_ssl_connection returns.
Spec == /\ Init /\ [][Next]_vars
        /\ WF_vars(CreatorStep) /\ WF_vars(DispatcherLeaves) /\ WF_vars(DispatcherExits)

(* "wait up threads to exit": once the dispatcher is stopped, the thread ends. *)
CreatorEnds == ~running ~> creator = "ended"
=============================================================================
