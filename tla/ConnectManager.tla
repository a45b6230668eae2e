--------------------------- MODULE ConnectManager ---------------------------
(***************************************************************************)
(* The TLS connections a front opens ahead of use: ConnectPool and         *)
(* ConnectManager of front_base.  Callers (HttpsDispatcher's               *)
(* create_worker_thread) wait for a connection, connect threads open       *)
(* connections while there is demand, the keep-alive thread hands unused   *)
(* ones to the dispatcher, and stop ends it all.                           *)
(*                                                                         *)
(* Everything here runs in threads.  A step is what happens under the      *)
(* pool's lock, or between two reads of shared state.  The fastest of the  *)
(* pooled connections may be any of them.  connect_thread_cond only        *)
(* shortens a wait of one second, after which a connect thread looks       *)
(* again by itself, so a waiting connect thread may look at any time.  The *)
(* same holds for keep_connection_daemon, which does nothing but notify,    *)
(* and for the ten seconds after no IP was found (no_ip_time).             *)
(***************************************************************************)
EXTENDS Naturals, FiniteSets

CONSTANTS
    Callers,      \* threads that call get_ssl_connection
    Connectors,   \* the https_max_connect_thread connect threads
    Socks,        \* the connections that can be opened
    PoolMin,      \* https_connection_pool_min; 0 stands for no keep_conn_th, too
    PoolMax,      \* https_connection_pool_max
    CallBound     \* bound: calls of get_ssl_connection

ASSUME ConnectAssumption ==
    /\ IsFiniteSet(Callers) /\ IsFiniteSet(Connectors) /\ IsFiniteSet(Socks)
    /\ PoolMin \in Nat /\ PoolMax \in Nat /\ PoolMin <= PoolMax
    /\ CallBound \in Nat

VARIABLES
    running,
    pool,             \* new_conn_pool.pool
    waiting_num,      \* _connection_waiting_num
    ssl_timeout_cb,   \* the dispatcher's callback is set
    pc,               \* where each caller is in get_ssl_connection
    hand,             \* the connection each caller has taken from the pool
    connector,        \* where each connect thread is
    keeper,           \* where the keep-alive thread is
    keep_list,        \* the connections it has taken out of the pool
    calling,          \* the one it is calling the callback with
    stopper,          \* where the front's stop is
    opened,           \* history: connections that were opened,
    gone,             \* were given to the dispatcher or closed,
    lost,             \* are open although nobody has them
    calls             \* history: calls made

callerVars == <<waiting_num, pc, hand, calls>>
keeperVars == <<keeper, keep_list, calling>>
vars == <<running, pool, ssl_timeout_cb, callerVars, connector, keeperVars,
          stopper, opened, gone, lost>>

-----------------------------------------------------------------------------
(* ConnectPool *)

Asleep == {c \in Callers : pc[c] = "asleep"}

\* The callers that are registered with not_empty: one whose wait has timed out
\* leaves the queue only when it has the lock again.
Waiting == {c \in Callers : pc[c] \in {"asleep", "timed_out"}}

\* not_empty.notify(): one waiting caller will look into the pool.
Notify ==
    \/ Waiting = {} /\ UNCHANGED pc
    \/ \E c \in Waiting : pc' = [pc EXCEPT ![c] = "get"]

\* (Mutant: the callers are only told when the pool was empty.)
PutFirstNotifies(s) ==
    /\ pool' = pool \cup {s}
    /\ IF pool = {} THEN Notify ELSE UNCHANGED pc

\* put
Put(s) == pool' = pool \cup {s} /\ Notify

\* (Mutant: the connection is not popped.)
TakeKeeps(c) ==
    \E s \in pool : /\ hand' = [hand EXCEPT ![c] = {s}]
                    /\ UNCHANGED pool

\* _get: a connection leaves the pool for the caller that looked.
Take(c) ==
    \E s \in pool : /\ pool' = pool \ {s}
                    /\ hand' = [hand EXCEPT ![c] = {s}]

-----------------------------------------------------------------------------
(* get_ssl_connection.  A caller is "out"; at the top of the "loop"; about *)
(* to "try" the pool; about to look into it in a "get" that blocks;        *)
(* "asleep" in that; about to look for the last time, "timed_out"; has     *)
(* "got" a connection; or will "leave".                                    *)

Goto(c, where) == pc' = [pc EXCEPT ![c] = where]

others == <<running, ssl_timeout_cb, connector, keeperVars, stopper, opened, lost>>

Call(c) ==
    /\ pc[c] = "out" /\ calls < CallBound
    /\ calls' = calls + 1
    /\ waiting_num' = waiting_num + 1
    /\ Goto(c, "loop")
    /\ UNCHANGED <<others, pool, hand, gone>>

\* (Mutant: a return that does not pass through the finally.)
WhileRunningReturns(c) == pc[c] = "loop" /\ Goto(c, IF running THEN "try" ELSE "out")

\* while self.running
WhileRunning(c) == pc[c] = "loop" /\ Goto(c, IF running THEN "try" ELSE "leave")

Loop(c) ==
    /\ WhileRunning(c)
    /\ UNCHANGED <<others, pool, waiting_num, hand, calls, gone>>

\* get(block=False); without a connection the caller goes on to the get that
\* blocks, or its time is over.
TryGet(c) ==
    /\ pc[c] = "try"
    /\ \/ pool # {} /\ Take(c) /\ Goto(c, "got")
       \/ /\ pool = {} /\ (Goto(c, "leave") \/ Goto(c, "get"))
          /\ UNCHANGED <<pool, hand>>
    /\ UNCHANGED <<others, waiting_num, calls, gone>>

\* (Mutant: the wait starts anew whenever it ends.)
GetForEver(c) ==
    /\ pc[c] \in {"get", "timed_out"}
    /\ \/ pool # {} /\ Take(c) /\ Goto(c, "got")
       \/ pool = {} /\ Goto(c, "asleep") /\ UNCHANGED <<pool, hand>>

\* Under the lock, also after a wait: the pool is looked at before the time.
\* A caller that was notified when its time was over leaves, or sleeps for no
\* time at all.
GetOrSleep(c) ==
    /\ pc[c] \in {"get", "timed_out"}
    /\ \/ pool # {} /\ Take(c) /\ Goto(c, "got")
       \/ pool = {} /\ Goto(c, "leave") /\ UNCHANGED <<pool, hand>>
       \/ /\ pool = {} /\ pc[c] = "get" /\ Goto(c, "asleep")
          /\ UNCHANGED <<pool, hand>>

BlockingGet(c) ==
    /\ GetOrSleep(c)
    /\ UNCHANGED <<others, waiting_num, calls, gone>>

\* Condition.wait ends without a notification.
WaitEnds(c) ==
    /\ pc[c] = "asleep" /\ Goto(c, "timed_out")
    /\ UNCHANGED <<others, pool, waiting_num, hand, calls, gone>>

\* The caller returns the connection, or closes one that was unused for too
\* long and looks again.
ReturnOrClose(c) ==
    /\ hand' = [hand EXCEPT ![c] = {}]
    /\ gone' = gone \cup hand[c]
    /\ Goto(c, "leave") \/ Goto(c, "loop")

Got(c) ==
    /\ pc[c] = "got" /\ ReturnOrClose(c)
    /\ UNCHANGED <<others, pool, waiting_num, calls>>

Leave(c) ==
    /\ pc[c] = "leave"
    /\ waiting_num' = waiting_num - 1
    /\ Goto(c, "out")
    /\ UNCHANGED <<others, pool, hand, calls, gone>>

CallerStep(c) == Loop(c) \/ TryGet(c) \/ BlockingGet(c) \/ WaitEnds(c) \/ Got(c) \/ Leave(c)

-----------------------------------------------------------------------------
(* The connect threads: a thread that waits looks "idle"; it has "chosen"   *)
(* to open a connection, is "connecting", or has "ended".                  *)

Moves(t, where) == connector' = [connector EXCEPT ![t] = where]

NeedMore == waiting_num > 0 \/ Cardinality(pool) < PoolMin

\* (Mutant: the pool's limit is not looked at.)
MayConnectUnlimited == NeedMore

\* What the inner loop of _connect_thread waits for.
MayConnect == NeedMore /\ Cardinality(pool) <= PoolMax

\* (Mutant: the inner loop waits for demand only.)
InnerLoopUnstopped(t) ==
    /\ connector[t] = "idle"
    /\ MayConnect /\ Moves(t, IF running THEN "chosen" ELSE "ended")

\* The inner loop ends when a connection is wanted or the manager stops.
InnerLoop(t) ==
    /\ connector[t] = "idle"
    /\ \/ running /\ MayConnect /\ Moves(t, "chosen")
       \/ ~running /\ Moves(t, "ended")

Choose(t) ==
    /\ InnerLoop(t)
    /\ UNCHANGED <<running, pool, ssl_timeout_cb, callerVars, keeperVars, stopper,
                   opened, gone, lost>>

\* get_ip_sni_host gives an IP, or none: the threads then wait a while.
Begin(t) ==
    /\ connector[t] = "chosen"
    /\ \/ running /\ Moves(t, "connecting")
       \/ running /\ Moves(t, "idle")
       \/ ~running /\ Moves(t, "ended")
    /\ UNCHANGED <<running, pool, ssl_timeout_cb, callerVars, keeperVars, stopper,
                   opened, gone, lost>>

Connected(t, s) ==
    /\ connector[t] = "connecting" /\ s \notin opened
    /\ opened' = opened \cup {s}
    /\ Put(s)
    /\ Moves(t, "idle")
    /\ UNCHANGED <<running, ssl_timeout_cb, waiting_num, hand, calls, keeperVars, stopper,
                   gone, lost>>

ConnectFails(t) ==
    /\ connector[t] = "connecting"
    /\ Moves(t, "idle")
    /\ UNCHANGED <<running, pool, ssl_timeout_cb, callerVars, keeperVars, stopper,
                   opened, gone, lost>>

ConnectorStep(t) ==
    Choose(t) \/ Begin(t) \/ ConnectFails(t) \/ \E s \in Socks : Connected(t, s)

-----------------------------------------------------------------------------
(* keep_alive_thread.  get_need_keep_alive takes the connections that have *)
(* been unused for nearly https_keep_alive.                                *)

KeeperLoop ==
    /\ keeper = "loop"
    /\ IF running
       THEN /\ \E old \in SUBSET pool : keep_list' = old /\ pool' = pool \ old
            /\ keeper' = "work"
       ELSE keeper' = "ended" /\ UNCHANGED <<keep_list, pool>>
    /\ UNCHANGED <<running, ssl_timeout_cb, callerVars, connector, calling, stopper,
                   opened, gone, lost>>

\* The next connection of the list: too old, or nobody to give it to.
KeeperTakes ==
    /\ keeper = "work"
    /\ \E s \in keep_list :
          /\ keep_list' = keep_list \ {s}
          /\ \/ gone' = gone \cup {s} /\ UNCHANGED <<keeper, calling>>
             \/ /\ ssl_timeout_cb
                /\ keeper' = "call" /\ calling' = {s} /\ UNCHANGED gone
    /\ UNCHANGED <<running, pool, ssl_timeout_cb, callerVars, connector, stopper,
                   opened, lost>>

\* self.ssl_timeout_cb is read again; None is not callable, and the exception
\* leaves the connection open with nobody to own it.
KeeperCalls ==
    /\ keeper = "call"
    /\ keeper' = "work" /\ calling' = {}
    /\ IF ssl_timeout_cb THEN gone' = gone \cup calling /\ UNCHANGED lost
                         ELSE lost' = lost \cup calling /\ UNCHANGED gone
    /\ UNCHANGED <<running, pool, ssl_timeout_cb, callerVars, connector, keep_list,
                   stopper, opened>>

KeeperSleeps ==
    /\ keeper = "work" /\ keep_list = {}
    /\ keeper' = "loop"
    /\ UNCHANGED <<running, pool, ssl_timeout_cb, callerVars, connector, keep_list,
                   calling, stopper, opened, gone, lost>>

KeeperStep == KeeperLoop \/ KeeperTakes \/ KeeperCalls \/ KeeperSleeps

-----------------------------------------------------------------------------
(* The stop of a front: set_ssl_created_cb(None), then the manager's stop.  *)

StopCallback ==
    /\ stopper = "none"
    /\ stopper' = "called" /\ ssl_timeout_cb' = FALSE
    /\ UNCHANGED <<running, pool, callerVars, connector, keeperVars, opened,
                   gone, lost>>

StopRunning ==
    /\ stopper = "called"
    /\ stopper' = "clear" /\ running' = FALSE
    /\ UNCHANGED <<pool, ssl_timeout_cb, callerVars, connector, keeperVars, opened,
                   gone, lost>>

\* ConnectPool.clear: nobody is notified.
StopClears ==
    /\ stopper = "clear"
    /\ stopper' = "join"
    /\ gone' = gone \cup pool /\ pool' = {}
    /\ UNCHANGED <<running, ssl_timeout_cb, callerVars, connector, keeperVars, opened, lost>>

\* Each join ends with its thread or after five seconds, whichever is first;
\* a connect takes up to the creator's own time-out, so both do happen.
StopReturns ==
    /\ stopper = "join"
    /\ stopper' = "returned"
    /\ UNCHANGED <<running, pool, ssl_timeout_cb, callerVars, connector, keeperVars, opened,
                   gone, lost>>

StopStep == StopCallback \/ StopRunning \/ StopClears \/ StopReturns

-----------------------------------------------------------------------------
Init ==
    /\ running = TRUE /\ pool = {} /\ waiting_num = 0
    /\ ssl_timeout_cb = TRUE \* set before the front is used
    /\ pc = [c \in Callers |-> "out"]
    /\ hand = [c \in Callers |-> {}]
    /\ connector = [t \in Connectors |-> "idle"]
    /\ keeper = "loop" /\ keep_list = {} /\ calling = {}
    /\ stopper = "none"
    /\ opened = {} /\ gone = {} /\ lost = {} /\ calls = 0

ThreadsEnded ==
    /\ keeper = "ended"
    /\ \A t \in Connectors : connector[t] = "ended"

\* Everything has stopped, nobody is left to call.
Quiet ==
    /\ stopper = "returned" /\ ThreadsEnded
    /\ \A c \in Callers : pc[c] = "out"
    /\ UNCHANGED vars

Next ==
    \/ \E c \in Callers : Call(c) \/ CallerStep(c)
    \/ \E t \in Connectors : ConnectorStep(t)
    \/ KeeperStep
    \/ StopStep
    \/ Quiet

\* The threads run, and a wait ends when its time is over.  Nobody has to stop the front.
Fairness ==
    /\ \A c \in Callers : WF_vars(CallerStep(c))
    /\ \A t \in Connectors : WF_vars(ConnectorStep(t))
    /\ WF_vars(KeeperStep)

Spec == Init /\ [][Next]_vars /\ Fairness

-----------------------------------------------------------------------------
(* Properties *)

(* Type correctness, the number of callers included. *)
TypeOK ==
    /\ running \in BOOLEAN /\ ssl_timeout_cb \in BOOLEAN
    /\ waiting_num \in Nat /\ calls \in 0..CallBound
    /\ pc \in [Callers -> {"out", "loop", "try", "get", "asleep", "timed_out", "got", "leave"}]
    /\ hand \in [Callers -> SUBSET Socks]
    /\ \A c \in Callers : (hand[c] # {}) = (pc[c] = "got")
    /\ connector \in [Connectors -> {"idle", "chosen", "connecting", "ended"}]
    /\ keeper \in {"loop", "work", "call", "ended"}
    /\ keep_list \in SUBSET Socks /\ (keep_list # {} => keeper \in {"work", "call"})
    /\ calling \in SUBSET Socks /\ (calling # {}) = (keeper = "call")
    /\ stopper \in {"none", "called", "clear", "join", "returned"}
    /\ pool \in SUBSET Socks /\ opened \in SUBSET Socks
    /\ gone \in SUBSET Socks /\ lost \in SUBSET Socks

(* The demand the connect threads see (_need_more_ip) is the callers inside  *)
(* get_ssl_connection, through each of its returns.                          *)
Inside == {c \in Callers : pc[c] # "out"}
DemandExact == waiting_num = Cardinality(Inside)

(* No wake-up is lost: while a caller sleeps, there are at least as many     *)
(* callers that have been notified, or have just come, and will look into    *)
(* the pool as connections in it.  put notifies one caller, perhaps one that *)
(* has given up; others take what a notified caller was to get; and the      *)
(* keep-alive thread and stop empty the pool.                                *)
Getting == {c \in Callers : pc[c] = "get"}
NoLostWakeUp ==
    Asleep # {} => Cardinality(pool) <= Cardinality(Getting)

(* Connect threads check the limit before they connect and put without a     *)
(* second look, so the pool exceeds its limit, by one for each thread at     *)
(* most, those under way counted.                                            *)
Connecting == {t \in Connectors : connector[t] \in {"chosen", "connecting"}}
PoolBounded == Cardinality(pool) + Cardinality(Connecting) <= PoolMax + Cardinality(Connectors)

(* Every connection opened has exactly one owner: the pool, a caller that    *)
(* took it, the keep-alive thread, whoever it was given to, or it is closed. *)
(* Nothing is given away twice, closed while somebody has it, or forgotten,  *)
(* except a connection whose callback is removed between its two reads.      *)
Kept == keep_list \cup calling
InHand == {s \in Socks : \E c \in Callers : s \in hand[c]}
OneOwner ==
    /\ opened = pool \cup Kept \cup InHand \cup gone \cup lost
    /\ \A c, d \in Callers : c # d => hand[c] \cap hand[d] = {}
    /\ \A c \in Callers : hand[c] \cap (pool \cup Kept \cup gone \cup lost) = {}
    /\ pool \cap (Kept \cup gone \cup lost) = {}
    /\ keep_list \cap calling = {}
    /\ Kept \cap (gone \cup lost) = {}
    /\ gone \cap lost = {}
    /\ lost # {} => ~ssl_timeout_cb

(* A caller comes back, with or without a connection. *)
CallersReturn == \A c \in Callers : pc[c] # "out" ~> pc[c] = "out"

(* After stop every thread of the manager ends. *)
ThreadsEnd == ~running ~> ThreadsEnded
=============================================================================
