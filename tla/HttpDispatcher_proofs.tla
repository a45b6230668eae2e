----------------------- MODULE HttpDispatcher_proofs -----------------------
(***************************************************************************)
(* Proofs about the HTTP dispatcher: no task is forgotten, a task is       *)
(* answered once and a body is ended, for any number of tasks, workers,    *)
(* retries and disturbances.                                               *)
(***************************************************************************)
EXTENDS HttpDispatcher, SequenceTheorems, TLAPS

-----------------------------------------------------------------------------
(* Queues *)

Items == Tasks \cup {None, Ping}

(***************************************************************************)
(* A worker's queue holds at most one task.                                *)
(***************************************************************************)
OneTask(q) == \A i, j \in 1 .. Len(q) : q[i] \in Tasks /\ q[j] \in Tasks => i = j

(***************************************************************************)
(* No None comes before t: the worker takes t before it is told to exit.   *)
(***************************************************************************)
First(q, t) == \E i \in 1 .. Len(q) : q[i] = t /\ \A j \in 1 .. (i - 1) : q[j] # None

(***************************************************************************)
(* t is in the queue at most once.                                         *)
(***************************************************************************)
Once(q, t) == \A i, j \in 1 .. Len(q) : q[i] = t /\ q[j] = t => i = j

LEMMA RangeOf ==
  ASSUME NEW S, NEW q \in Seq(S), NEW x
  PROVE  x \in Range(q) <=> \E i \in 1 .. Len(q) : q[i] = x
<1>1. DOMAIN q = 1 .. Len(q)
  OBVIOUS
<1>2. QED
  BY <1>1 DEF Range

LEMMA EmptyQueue ==
  /\ OneTask(<<>>)
  /\ \A x : x \notin Range(<<>>)
  /\ \A t : Once(<<>>, t)
<1>1. Len(<<>>) = 0 /\ <<>> \in Seq({}) /\ DOMAIN <<>> = {}
  OBVIOUS
<1>2. \A x : x \notin Range(<<>>)
  BY <1>1 DEF Range
<1>3. QED
  BY <1>1, <1>2 DEF OneTask, Once

LEMMA AppendQueue ==
  ASSUME NEW S, NEW q \in Seq(S), NEW x \in S
  PROVE  /\ Append(q, x) \in Seq(S)
         /\ \A y : y \in Range(Append(q, x)) <=> y \in Range(q) \/ y = x
         /\ \A t : First(q, t) => First(Append(q, x), t)
         /\ None \notin Range(q) => First(Append(q, x), x)
         /\ \A t : First(Append(q, x), t) => First(q, t) \/ (t = x /\ None \notin Range(q))
         /\ \A t : Once(q, t) /\ (t # x \/ t \notin Range(q)) => Once(Append(q, x), t)
<1> DEFINE p == Append(q, x)
           n == Len(q)
<1>1. /\ n \in Nat /\ p \in Seq(S) /\ Len(p) = n + 1
      /\ \A i \in 1 .. n : p[i] = q[i]
      /\ p[n + 1] = x
  OBVIOUS
<1>2. \A i \in 1 .. (n + 1) : i \in 1 .. n \/ i = n + 1
  BY <1>1
<1>3. \A i \in 1 .. n : i \in 1 .. (n + 1)
  BY <1>1
<1>5. \A y : y \in Range(q) <=> \E i \in 1 .. n : q[i] = y
  BY RangeOf
<1> HIDE DEF p, n
<1>4. \A y : y \in Range(p) <=> \E i \in 1 .. (n + 1) : p[i] = y
  BY <1>1, RangeOf
<1>6. n + 1 \in 1 .. (n + 1)
  BY <1>1
<1>7. \A y : y \in Range(p) <=> y \in Range(q) \/ y = x
  BY <1>1, <1>2, <1>3, <1>4, <1>5, <1>6
<1>8. \A i \in 1 .. n : \A j \in 1 .. (i - 1) : j \in 1 .. n
  BY <1>1
<1>9. \A j \in 1 .. ((n + 1) - 1) : j \in 1 .. n
  BY <1>1
<1>10. \A j \in 1 .. n : j \in 1 .. ((n + 1) - 1)
  BY <1>1
<1>11. \A t : First(q, t) => First(p, t)
  <2>1. SUFFICES ASSUME NEW t, First(q, t) PROVE First(p, t)
    OBVIOUS
  <2>2. PICK i \in 1 .. n : q[i] = t /\ \A j \in 1 .. (i - 1) : q[j] # None
    BY <2>1 DEF First, n
  <2>3. p[i] = t /\ \A j \in 1 .. (i - 1) : p[j] # None
    BY <1>1, <1>8, <2>2
  <2>4. QED
    BY <1>1, <1>3, <2>3 DEF First
<1>12. None \notin Range(q) => First(p, x)
  BY <1>1, <1>5, <1>6, <1>9 DEF First
<1>13. \A t : First(p, t) => First(q, t) \/ (t = x /\ None \notin Range(q))
  <2>1. SUFFICES ASSUME NEW t, First(p, t)
                 PROVE  First(q, t) \/ (t = x /\ None \notin Range(q))
    OBVIOUS
  <2>2. PICK i \in 1 .. (n + 1) : p[i] = t /\ \A j \in 1 .. (i - 1) : p[j] # None
    BY <1>1, <2>1 DEF First
  <2>3. CASE i \in 1 .. n
    <3>1. q[i] = t /\ \A j \in 1 .. (i - 1) : q[j] # None
      BY <1>1, <1>8, <2>2, <2>3
    <3>2. QED
      BY <2>3, <3>1 DEF First, n
  <2>4. CASE i = n + 1
    <3>1. \A j \in 1 .. n : p[j] # None
      BY <1>10, <2>2, <2>4
    <3>2. QED
      BY <1>1, <1>5, <2>2, <2>4, <3>1
  <2>5. QED
    BY <1>2, <2>3, <2>4
<1>14. \A t : Once(q, t) /\ (t # x \/ t \notin Range(q)) => Once(p, t)
  <2>1. SUFFICES ASSUME NEW t, Once(q, t), t # x \/ t \notin Range(q),
                        NEW i \in 1 .. (n + 1), NEW j \in 1 .. (n + 1), p[i] = t, p[j] = t
                 PROVE  i = j
    BY <1>1 DEF Once
  <2>2. CASE i \in 1 .. n /\ j \in 1 .. n
    BY <1>1, <2>1, <2>2 DEF Once, n
  <2>3. CASE i = n + 1 \/ j = n + 1
    BY <1>1, <1>2, <1>5, <2>1, <2>3
  <2>4. QED
    BY <1>2, <2>2, <2>3
<1>15. QED
  BY <1>1, <1>7, <1>11, <1>12, <1>13, <1>14 DEF p

LEMMA AppendOneTask ==
  ASSUME NEW S, NEW q \in Seq(S), NEW x \in S, OneTask(q),
         x \notin Tasks \/ \A t \in Tasks : t \notin Range(q)
  PROVE  OneTask(Append(q, x))
<1> DEFINE p == Append(q, x)
           n == Len(q)
<1>1. /\ n \in Nat /\ Len(p) = n + 1
      /\ \A i \in 1 .. n : p[i] = q[i]
      /\ p[n + 1] = x
  OBVIOUS
<1>2. \A i \in 1 .. (n + 1) : i \in 1 .. n \/ i = n + 1
  BY <1>1
<1>3. \A y : y \in Range(q) <=> \E i \in 1 .. n : q[i] = y
  BY RangeOf
<1> HIDE DEF p, n
<1>4. SUFFICES ASSUME NEW i \in 1 .. (n + 1), NEW j \in 1 .. (n + 1), p[i] \in Tasks, p[j] \in Tasks
               PROVE  i = j
  BY <1>1 DEF OneTask, p
<1>5. CASE i \in 1 .. n /\ j \in 1 .. n
  BY <1>1, <1>4, <1>5 DEF OneTask, n
<1>6. CASE i = n + 1 \/ j = n + 1
  BY <1>1, <1>2, <1>3, <1>4, <1>6
<1>7. QED
  BY <1>2, <1>5, <1>6

LEMMA TailQueue ==
  ASSUME NEW S, NEW q \in Seq(S), q # <<>>
  PROVE  /\ Head(q) \in S /\ Tail(q) \in Seq(S)
         /\ \A y : y \in Range(q) <=> y \in Range(Tail(q)) \/ y = Head(q)
         /\ \A t : First(q, t) => t = Head(q) \/ (Head(q) # None /\ First(Tail(q), t))
         /\ Head(q) # None => \A t : First(Tail(q), t) => First(q, t)
         /\ First(q, Head(q))
         /\ \A t : Once(q, t) => Once(Tail(q), t) /\ (t = Head(q) => t \notin Range(Tail(q)))
         /\ OneTask(q) => OneTask(Tail(q))
         /\ OneTask(q) /\ Head(q) \in Tasks => \A t \in Tasks : t \notin Range(Tail(q))
<1> DEFINE p == Tail(q)
           n == Len(q)
<1>1. /\ n \in Nat \ {0} /\ p \in Seq(S) /\ Len(p) = n - 1
      /\ \A i \in 1 .. (n - 1) : p[i] = q[i + 1]
      /\ Head(q) = q[1] /\ Head(q) \in S
  OBVIOUS
<1>2. \A i \in 1 .. n : i = 1 \/ (i - 1 \in 1 .. (n - 1) /\ (i - 1) + 1 = i)
  BY <1>1
<1>3. \A i \in 1 .. (n - 1) : i + 1 \in 1 .. n /\ i + 1 # 1
  BY <1>1
<1>5. \A y : y \in Range(q) <=> \E i \in 1 .. n : q[i] = y
  BY RangeOf
<1> HIDE DEF p, n
<1>4. \A y : y \in Range(p) <=> \E i \in 1 .. (n - 1) : p[i] = y
  BY <1>1, RangeOf
<1>6. 1 \in 1 .. n
  BY <1>1
<1>7. \A y : y \in Range(q) <=> y \in Range(p) \/ y = Head(q)
  <2>1. \A y : y \in Range(p) => y \in Range(q)
    BY <1>1, <1>3, <1>4, <1>5
  <2>2. \A y : y \in Range(q) => y \in Range(p) \/ y = Head(q)
    <3>1. SUFFICES ASSUME NEW y, y \in Range(q) PROVE y \in Range(p) \/ y = Head(q)
      OBVIOUS
    <3>2. PICK i \in 1 .. n : q[i] = y
      BY <1>5, <3>1
    <3>3. CASE i = 1
      BY <1>1, <3>2, <3>3
    <3>4. CASE i # 1
      <4>1. i - 1 \in 1 .. (n - 1) /\ p[i - 1] = y
        BY <1>1, <1>2, <3>2, <3>4
      <4>2. QED
        BY <1>4, <4>1
    <3>5. QED
      BY <3>3, <3>4
  <2>3. QED
    BY <1>1, <1>5, <1>6, <2>1, <2>2
<1>8. \A t : First(q, t) => t = Head(q) \/ (Head(q) # None /\ First(p, t))
  <2>1. SUFFICES ASSUME NEW t, First(q, t), t # Head(q) PROVE Head(q) # None /\ First(p, t)
    OBVIOUS
  <2>2. PICK i \in 1 .. n : q[i] = t /\ \A j \in 1 .. (i - 1) : q[j] # None
    BY <2>1 DEF First, n
  <2>3. i - 1 \in 1 .. (n - 1) /\ (i - 1) + 1 = i /\ i # 1
    BY <1>1, <1>2, <2>1, <2>2
  <2>4. 1 \in 1 .. (i - 1)
    BY <1>1, <2>3
  <2>5. \A j \in 1 .. ((i - 1) - 1) : j \in 1 .. (n - 1) /\ j + 1 \in 1 .. (i - 1)
    BY <1>1
  <2>6. p[i - 1] = t /\ \A j \in 1 .. ((i - 1) - 1) : p[j] # None
    BY <1>1, <2>2, <2>3, <2>5
  <2>7. First(p, t)
    BY <1>1, <2>3, <2>6 DEF First
  <2>8. QED
    BY <1>1, <2>2, <2>4, <2>7
<1>9. Head(q) # None => \A t : First(p, t) => First(q, t)
  <2>1. SUFFICES ASSUME Head(q) # None, NEW t, First(p, t) PROVE First(q, t)
    OBVIOUS
  <2>2. PICK i \in 1 .. (n - 1) : p[i] = t /\ \A j \in 1 .. (i - 1) : p[j] # None
    BY <1>1, <2>1 DEF First
  <2>3. i + 1 \in 1 .. n /\ q[i + 1] = t
    BY <1>1, <1>3, <2>2
  <2>4. \A j \in 1 .. ((i + 1) - 1) : q[j] # None
    <3>1. SUFFICES ASSUME NEW j \in 1 .. ((i + 1) - 1) PROVE q[j] # None
      OBVIOUS
    <3>2. CASE j = 1
      BY <1>1, <2>1, <3>2
    <3>3. CASE j # 1
      <4>1. j - 1 \in 1 .. (i - 1) /\ j - 1 \in 1 .. (n - 1) /\ (j - 1) + 1 = j
        BY <1>1, <3>3
      <4>2. QED
        BY <1>1, <2>2, <4>1
    <3>4. QED
      BY <3>2, <3>3
  <2>5. QED
    BY <2>3, <2>4 DEF First, n
<1>10. First(q, Head(q))
  <2>1. 1 .. (1 - 1) = {}
    OBVIOUS
  <2>2. QED
    BY <1>1, <1>6, <2>1 DEF First, n
<1>11. \A t : Once(q, t) => Once(p, t) /\ (t = Head(q) => t \notin Range(p))
  <2>1. SUFFICES ASSUME NEW t, Once(q, t)
                 PROVE  Once(p, t) /\ (t = Head(q) => t \notin Range(p))
    OBVIOUS
  <2>2. ASSUME NEW i \in 1 .. (n - 1), NEW j \in 1 .. (n - 1), p[i] = t, p[j] = t PROVE i = j
    <3>1. i + 1 = j + 1
      BY <1>1, <1>3, <2>1, <2>2 DEF Once, n
    <3>2. QED
      BY <1>1, <3>1
  <2>3. ASSUME NEW i \in 1 .. (n - 1), p[i] = t PROVE t # Head(q)
    BY <1>1, <1>3, <1>6, <2>1, <2>3 DEF Once, n
  <2>4. QED
    BY <1>1, <1>4, <2>2, <2>3 DEF Once
<1>12. OneTask(q) => OneTask(p)
  <2>1. SUFFICES ASSUME OneTask(q), NEW i \in 1 .. (n - 1), NEW j \in 1 .. (n - 1),
                        p[i] \in Tasks, p[j] \in Tasks
                 PROVE  i = j
    BY <1>1 DEF OneTask
  <2>2. i + 1 = j + 1
    BY <1>1, <1>3, <2>1 DEF OneTask, n
  <2>3. QED
    BY <1>1, <2>2
<1>13. OneTask(q) /\ Head(q) \in Tasks => \A t \in Tasks : t \notin Range(p)
  BY <1>1, <1>3, <1>4, <1>6 DEF OneTask, n
<1>14. QED
  BY <1>1, <1>7, <1>8, <1>9, <1>10, <1>11, <1>12, <1>13 DEF p

LEMMA OneOfTasks ==
  ASSUME NEW S, NEW q \in Seq(S), OneTask(q),
         NEW t \in Tasks, t \in Range(q), NEW u \in Tasks, u \in Range(q)
  PROVE  t = u
BY RangeOf DEF OneTask

-----------------------------------------------------------------------------
(* Types, with what is known of a closer's target and the dispatcher's hands *)

Loops == {"none", "loop", "get", "road", "failed", "body", "end", "after", "ended"}

TaskTypes ==
    /\ running \in BOOLEAN
    /\ request_queue \in Seq(Tasks \cup {None})
    /\ caller \in [Tasks -> {"out", "wait", "back"}]
    /\ responsed \in [Tasks -> BOOLEAN] /\ finished \in [Tasks -> BOOLEAN]
    /\ answers \in [Tasks -> Nat]
    /\ raced \subseteq Tasks /\ late \subseteq Tasks

WorkerTypes ==
    /\ workers \subseteq Workers
    /\ sock \in [Workers -> {"none", "open", "closed"}]
    /\ accept_task \in [Workers -> BOOLEAN] /\ keep_running \in [Workers -> BOOLEAN]
    /\ worker_task \in [Workers -> Tasks \cup {None}]
    /\ task_queue \in [Workers -> Seq(Items)]
    /\ work_loop \in [Workers -> Loops] /\ doing \in [Workers -> Tasks \cup {None}]

CloserTypes ==
    /\ closing \in [Closers -> {"no", "check", "use", "clear", "lock"}]
    /\ target \in [Closers -> Workers \cup {None}]
    /\ \A c \in Closers : closing[c] # "no" => target[c] \in Workers

DispatcherTypes ==
    /\ dispatcher \in {"loop", "get", "choose", "hand", "exit", "ended"}
    /\ d_task \in Tasks \cup {None} /\ d_worker \in Workers \cup {None}
    /\ dispatcher \in {"choose", "hand"} <=> d_task # None
    /\ dispatcher = "hand" <=> d_worker # None
    /\ closing["dispatcher"] # "no" => dispatcher = "choose"

Types == TaskTypes /\ WorkerTypes /\ CloserTypes /\ DispatcherTypes

LEMMA Apart ==
  /\ None \notin Tasks /\ None \notin Workers /\ Ping \notin Tasks /\ Ping # None
  /\ "checker" \in Closers /\ "dispatcher" \in Closers /\ "stopper" \in Closers
  /\ "checker" \notin Workers /\ "dispatcher" \notin Workers /\ "stopper" \notin Workers
  /\ \A w \in Workers : w \in Closers
  /\ \A c \in Closers : c \in Workers \/ c \in {"checker", "dispatcher", "stopper"}
BY DispatcherAssumption DEF Closers, Outside

LEMMA TypesInit == Init => Types
<1> SUFFICES ASSUME Init PROVE Types
  OBVIOUS
<1>1. TaskTypes
  BY DEF Init, TaskTypes
<1>2. WorkerTypes
  <2>1. <<>> \in Seq(Items)
    OBVIOUS
  <2>2. QED
    BY <2>1 DEF Init, WorkerTypes, Loops
<1>3. CloserTypes
  BY DEF Init, CloserTypes
<1>4. DispatcherTypes
  BY Apart DEF Init, DispatcherTypes
<1>5. QED
  BY <1>1, <1>2, <1>3, <1>4 DEF Types

(***************************************************************************)
(* What the operations do to the tasks: at most one answer is added, to a  *)
(* task that had none or that begins its answer; nothing is undone.        *)
(***************************************************************************)
LEMMA OneMoreAnswer ==
  ASSUME NEW f \in [Tasks -> Nat], NEW t
  PROVE  [f EXCEPT ![t] = @ + 1] \in [Tasks -> Nat]
<1> DEFINE g == [f EXCEPT ![t] = @ + 1]
<1>1. DOMAIN g = Tasks /\ g \in [Tasks -> Nat] <=> \A u \in Tasks : g[u] \in Nat
  OBVIOUS
<1>2. \A u \in Tasks : g[u] \in Nat
  OBVIOUS
<1>3. QED
  BY <1>1, <1>2

LEMMA FailTypes ==
  ASSUME TaskTypes, NEW t \in Tasks \cup {None}, ResponseFail(t)
  PROVE  /\ responsed' \in [Tasks -> BOOLEAN] /\ finished' \in [Tasks -> BOOLEAN]
         /\ answers' \in [Tasks -> Nat]
<1>1. responsed' \in [Tasks -> BOOLEAN]
  BY DEF ResponseFail, TaskTypes
<1>2. CASE responsed[t]
  BY <1>1, <1>2 DEF ResponseFail, TaskTypes
<1>3. CASE ~responsed[t]
  <2>1. answers' = [answers EXCEPT ![t] = @ + 1] /\ finished' = [finished EXCEPT ![t] = TRUE]
    BY <1>3 DEF ResponseFail, Finish
  <2>2. answers' \in [Tasks -> Nat]
    BY <2>1, OneMoreAnswer DEF TaskTypes
  <2>3. finished' \in [Tasks -> BOOLEAN]
    BY <2>1 DEF TaskTypes
  <2>4. QED
    BY <1>1, <2>2, <2>3
<1>4. QED
  BY <1>2, <1>3

LEMMA RetryTypes ==
  ASSUME TaskTypes, NEW t \in Tasks \cup {None}, RetryTask(t)
  PROVE  /\ responsed' \in [Tasks -> BOOLEAN] /\ finished' \in [Tasks -> BOOLEAN]
         /\ answers' \in [Tasks -> Nat]
         /\ request_queue' \in Seq(Tasks \cup {None})
<1>1. CASE Finish(t) /\ UNCHANGED <<request_queue, responsed, answers>>
  BY <1>1 DEF Finish, TaskTypes
<1>2. CASE ResponseFail(t) /\ UNCHANGED request_queue
  BY <1>2, FailTypes DEF TaskTypes
<1>3. CASE Requeue(t)
  BY <1>3, AppendQueue DEF Requeue, TaskTypes
<1>4. QED
  BY <1>1, <1>2, <1>3 DEF RetryTask

LEMMA TaskTypesNext ==
  ASSUME Types, Next
  PROVE  TaskTypes'
<1> USE DEF Types
<1>1. ASSUME NEW t \in Tasks, Request(t) \/ Return(t) PROVE TaskTypes'
  <2>1. request_queue' \in Seq(Tasks \cup {None})
    <3>1. request_queue \in Seq(Tasks \cup {None}) /\ t \in Tasks \cup {None}
      BY DEF TaskTypes
    <3>2. Append(request_queue, t) \in Seq(Tasks \cup {None})
      BY <3>1, AppendQueue
    <3>3. QED
      BY <1>1, <3>1, <3>2 DEF Request, Return
  <2>2. caller' \in [Tasks -> {"out", "wait", "back"}]
    BY <1>1 DEF Request, Return, TaskTypes
  <2>3. QED
    BY <1>1, <2>1, <2>2 DEF Request, Return, callerSame, TaskTypes, stopVars
<1>2. ASSUME NEW w \in Workers, WorkStep(w) PROVE TaskTypes'
  <2> doing[w] \in Tasks \cup {None}
    BY DEF WorkerTypes
  <2>1. CASE RequestFails(w)
    BY <2>1, RetryTypes DEF RequestFails, loopSame, stopVars, TaskTypes
  <2>2. CASE ResponseBegins(w)
    <3>1. answers' = [answers EXCEPT ![doing[w]] = @ + 1] /\ responsed' = [responsed EXCEPT ![doing[w]] = TRUE]
      BY <2>2 DEF ResponseBegins, Answer
    <3>2. answers' \in [Tasks -> Nat] /\ responsed' \in [Tasks -> BOOLEAN]
      BY <3>1, OneMoreAnswer DEF TaskTypes
    <3>3. QED
      BY <2>2, <3>2 DEF ResponseBegins, loopSame, stopVars, TaskTypes
  <2>3. CASE BodyEnds(w)
    BY <2>3 DEF BodyEnds, Finish, loopSame, stopVars, TaskTypes
  <2>4. CASE UNCHANGED <<running, taskVars, caller, raced, late>>
    BY <2>4 DEF taskVars, TaskTypes
  <2>5. QED
    BY <1>2, <2>1, <2>2, <2>3, <2>4
       DEF WorkStep, LoopTop, GetNone, GetPing, GetTask, CloseFailed, BodyFails, BodyShort,
           AfterRequest, loopSame, stopVars
<1>3. ASSUME NEW w \in Workers, CheckerCloses(w) \/ PutPing(w) \/ SslCreated(w) \/ AppendWorker(w)
      PROVE TaskTypes'
  BY <1>3 DEF CheckerCloses, PutPing, SslCreated, AppendWorker, makerSame, taskVars, stopVars, TaskTypes
<1>4. ASSUME NEW c \in Closers, CloseStep(c) PROVE TaskTypes'
  <2>1. CASE CloseChecks(c) \/ CloseLocked(c)
    BY <2>1 DEF CloseChecks, CloseLocked, closeSame, taskVars, TaskTypes
  <2>2. CASE CloseUses(c)
    <3>1. closing[c] = "use" /\ target[c] \in Workers /\ UNCHANGED <<running, caller, late>>
      BY <2>2 DEF CloseUses, closeSame, CloserTypes
    <3>2. worker_task[target[c]] \in Tasks \cup {None} /\ d_task \in Tasks \cup {None}
      BY <3>1 DEF WorkerTypes, DispatcherTypes
    <3>3. CASE CloseHandsBack(c, target[c]) /\ worker_task[target[c]] # None
      BY <3>1, <3>2, <3>3, RetryTypes DEF CloseHandsBack, TaskTypes
    <3>4. CASE CloseRaises(c)
      BY <3>1, <3>2, <3>4, FailTypes DEF CloseRaises, TaskTypes, taskVars
    <3>5. QED
      BY <2>2, <3>3, <3>4 DEF CloseUses
  <2>3. QED
    BY <1>4, <2>1, <2>2 DEF CloseStep
<1>5. ASSUME DispatcherStep \/ DispatcherCloses PROVE TaskTypes'
  <2>1. CASE DispatcherGets
    BY <2>1, TailQueue DEF DispatcherGets, dispatcherSame, stopVars, TaskTypes
  <2>2. CASE NoWorker
    BY <2>2, FailTypes DEF NoWorker, NoWorkerFails, dispatcherSame, stopVars, TaskTypes, DispatcherTypes
  <2>3. CASE HandOver
    BY <2>3, Apart DEF HandOver, taskVars, stopVars, TaskTypes, DispatcherTypes
  <2>4. CASE UNCHANGED <<running, taskVars, caller, raced, late>>
    BY <2>4 DEF taskVars, TaskTypes
  <2>5. QED
    BY <1>5, <2>1, <2>2, <2>3, <2>4
       DEF DispatcherStep, DispatcherLoop, ChooseWorker, DispatcherExits, DispatcherCloses,
           dispatcherSame, stopVars
<1>6. ASSUME StopRunning \/ StopStep PROVE TaskTypes'
  <2>1. CASE StopPuts
    BY <2>1, AppendQueue DEF StopPuts, stopSame, TaskTypes
  <2>2. CASE StopRunning
    BY <2>2 DEF StopRunning, stopSame, TaskTypes, taskVars
  <2>3. CASE UNCHANGED <<running, taskVars, caller, raced, late>>
    BY <2>3 DEF taskVars, TaskTypes
  <2>4. QED
    BY <1>6, <2>1, <2>2, <2>3 DEF StopStep, StopCloses, StopReturns, stopSame
<1>7. ASSUME Quiet PROVE TaskTypes'
  BY <1>7 DEF Quiet, vars, taskVars, stopVars, TaskTypes
<1>8. QED
  BY <1>1, <1>2, <1>3, <1>4, <1>5, <1>6, <1>7 DEF Next

LEMMA QueuesTyped ==
  ASSUME WorkerTypes, NEW w \in Workers, NEW q \in Seq(Items),
         task_queue' = [task_queue EXCEPT ![w] = q]
  PROVE  task_queue' \in [Workers -> Seq(Items)]
BY DEF WorkerTypes

LEMMA WorkerTypesNext ==
  ASSUME Types, Next
  PROVE  WorkerTypes'
<1> USE DEF Types
<1> DEFINE workersKept == UNCHANGED <<workers, workerVars, loopVars>>
<1>1. None \in Items /\ Ping \in Items /\ \A t \in Tasks : t \in Items
  BY DEF Items
<1>2. ASSUME NEW w \in Workers, NEW x \in Items PROVE Append(task_queue[w], x) \in Seq(Items)
  BY AppendQueue DEF WorkerTypes
<1>3. ASSUME NEW w \in Workers, task_queue[w] # <<>>
      PROVE  Tail(task_queue[w]) \in Seq(Items) /\ Append(Tail(task_queue[w]), None) \in Seq(Items)
  <2>1. task_queue[w] \in Seq(Items)
    BY DEF WorkerTypes
  <2>2. Tail(task_queue[w]) \in Seq(Items)
    BY <1>3, <2>1, TailQueue
  <2>3. QED
    BY <1>1, <2>2, AppendQueue
<1>4. ASSUME NEW w \in Workers, WorkStep(w) PROVE WorkerTypes'
  <2> USE DEF workerVars, loopSame, WorkGoes, WorkerTypes, Loops
  <2>1. CASE LoopTop(w)
    BY <2>1 DEF LoopTop
  <2>2. CASE GetNone(w)
    BY <1>3, <2>2 DEF GetNone
  <2>3. CASE GetPing(w)
    <3>1. \/ task_queue' = [task_queue EXCEPT ![w] = Tail(task_queue[w])]
          \/ task_queue' = [task_queue EXCEPT ![w] = Append(Tail(task_queue[w]), None)]
      BY <2>3 DEF GetPing
    <3>2. task_queue' \in [Workers -> Seq(Items)]
      BY <1>3, <2>3, <3>1, QueuesTyped DEF GetPing
    <3> work_loop' = [work_loop EXCEPT ![w] = "loop"] \/ work_loop' = [work_loop EXCEPT ![w] = "ended"]
      BY <2>3 DEF GetPing
    <3>3. work_loop' \in [Workers -> Loops]
      OBVIOUS
    <3>4. QED
      BY <2>3, <3>2, <3>3 DEF GetPing
  <2>4. CASE GetTask(w)
    <3>1. Head(task_queue[w]) \in Tasks
      BY <2>4 DEF GetTask
    <3>2. \/ task_queue' = [task_queue EXCEPT ![w] = Tail(task_queue[w])]
          \/ task_queue' = [task_queue EXCEPT ![w] = Append(Tail(task_queue[w]), None)]
      BY <2>4 DEF GetTask
    <3>3. task_queue' \in [Workers -> Seq(Items)]
      BY <1>3, <2>4, <3>2, QueuesTyped DEF GetTask
    <3> work_loop' = [work_loop EXCEPT ![w] = "road"] \/ work_loop' = [work_loop EXCEPT ![w] = "ended"]
      BY <2>4 DEF GetTask
    <3>4. work_loop' \in [Workers -> Loops]
      OBVIOUS
    <3>5. worker_task' \in [Workers -> Tasks \cup {None}]
      BY <2>4, <3>1 DEF GetTask
    <3>6. doing' \in [Workers -> Tasks \cup {None}]
      BY <2>4, <3>1 DEF GetTask
    <3>7. QED
      BY <2>4, <3>3, <3>4, <3>5, <3>6 DEF GetTask
  <2>5. CASE RequestFails(w) \/ ResponseBegins(w)
    BY <2>5 DEF RequestFails, ResponseBegins
  <2>6. CASE CloseFailed(w) \/ BodyFails(w) \/ BodyShort(w)
    <3>1. task_queue' = [task_queue EXCEPT ![w] = Append(task_queue[w], None)]
      BY <2>6 DEF CloseFailed, BodyFails, BodyShort, ClosesItself, CloseBegins
    <3> task_queue' \in [Workers -> Seq(Items)]
      BY <1>1, <1>2, <3>1, QueuesTyped
    <3>2. work_loop' \in [Workers -> Loops]
      BY <2>6 DEF CloseFailed, BodyFails, BodyShort, ClosesItself
    <3>3. QED
      BY <2>6, <3>2 DEF CloseFailed, BodyFails, BodyShort
  <2>7. CASE BodyEnds(w)
    BY <2>7 DEF BodyEnds
  <2>8. CASE AfterRequest(w)
    <3>1. \/ task_queue' = [task_queue EXCEPT ![w] = Append(task_queue[w], None)]
          \/ task_queue' = task_queue
      BY <2>8 DEF AfterRequest, ClosesItself, CloseBegins
    <3>2. task_queue' \in [Workers -> Seq(Items)]
      BY <1>1, <1>2, <3>1, QueuesTyped
    <3>3. work_loop' \in [Workers -> Loops]
      BY <2>8 DEF AfterRequest, ClosesItself
    <3>4. QED
      BY <2>8, <3>2, <3>3 DEF AfterRequest
  <2>9. QED
    BY <1>4, <2>1, <2>2, <2>3, <2>4, <2>5, <2>6, <2>7, <2>8 DEF WorkStep
<1>5. ASSUME NEW w \in Workers, CheckerCloses(w) \/ PutPing(w) PROVE WorkerTypes'
  <2> task_queue' = [task_queue EXCEPT ![w] = Append(task_queue[w], None)] \/ task_queue' = [task_queue EXCEPT ![w] = Append(task_queue[w], Ping)]
    BY <1>5 DEF CheckerCloses, PutPing, CloseBegins
  <2>1. task_queue' \in [Workers -> Seq(Items)]
    BY <1>1, <1>2, QueuesTyped
  <2>2. QED
    BY <1>5, <2>1 DEF CheckerCloses, PutPing, WorkerTypes, loopVars
<1>6. ASSUME NEW w \in Workers, SslCreated(w) \/ AppendWorker(w) PROVE WorkerTypes'
  BY <1>6 DEF SslCreated, AppendWorker, makerSame, WorkerTypes, Loops
<1>7. ASSUME NEW c \in Closers, CloseStep(c) PROVE WorkerTypes'
  <2>1. CASE CloseChecks(c)
    BY <2>1 DEF CloseChecks, WorkerTypes, workerVars, loopVars
  <2>2. CASE CloseUses(c)
    <3>1. work_loop' \in [Workers -> Loops] /\ doing' \in [Workers -> Tasks \cup {None}]
      BY <2>2 DEF CloseUses, CloseRaises, CloseHandsBack, WorkerTypes, loopVars, Loops
    <3>2. QED
      BY <2>2, <3>1 DEF CloseUses, WorkerTypes, workerVars
  <2>3. CASE CloseLocked(c)
    BY <2>3 DEF CloseLocked, WorkerTypes, loopVars
  <2>4. QED
    BY <1>7, <2>1, <2>2, <2>3 DEF CloseStep
<1>8. ASSUME HandOver PROVE WorkerTypes'
  <2>1. d_worker \in Workers /\ d_task \in Tasks
    BY <1>8 DEF HandOver, DispatcherTypes
  <2>2. task_queue' \in [Workers -> Seq(Items)]
    <3>1. task_queue' = [task_queue EXCEPT ![d_worker] = Append(task_queue[d_worker], d_task)]
      BY <1>8 DEF HandOver
    <3>2. QED
      BY <1>1, <1>2, <2>1, <3>1, QueuesTyped
  <2>3. QED
    BY <1>8, <2>1, <2>2 DEF HandOver, WorkerTypes, loopVars
<1>9. ASSUME DispatcherCloses PROVE WorkerTypes'
  <2>1. PICK w \in Workers : CloseBegins("dispatcher", w)
    BY <1>9 DEF DispatcherCloses, WorkerTypes
  <2>2. task_queue' \in [Workers -> Seq(Items)]
    <3>1. task_queue' = [task_queue EXCEPT ![w] = Append(task_queue[w], None)]
      BY <2>1 DEF CloseBegins
    <3>2. QED
      BY <1>1, <1>2, <3>1, QueuesTyped
  <2>3. QED
    BY <1>9, <2>2 DEF DispatcherCloses, WorkerTypes, loopVars
<1>10. ASSUME NEW w \in Workers, StopCloses(w) PROVE WorkerTypes'
  <2>1. task_queue' \in [Workers -> Seq(Items)]
    <3>1. task_queue' = [task_queue EXCEPT ![w] = Append(task_queue[w], None)] \/ task_queue' = task_queue
      BY <1>10 DEF StopCloses, CloseBegins
    <3>2. QED
      BY <1>1, <1>2, <3>1, QueuesTyped DEF WorkerTypes
  <2>2. QED
    BY <1>10, <2>1 DEF StopCloses, stopSame, WorkerTypes, loopVars
<1>11. ASSUME NEW t \in Tasks, Request(t) \/ Return(t) PROVE WorkerTypes'
  BY <1>11 DEF Request, Return, callerSame, workerVars, loopVars, WorkerTypes
<1>12. ASSUME DispatcherStep PROVE WorkerTypes'
  BY <1>8, <1>12 DEF DispatcherStep, DispatcherLoop, DispatcherGets, ChooseWorker, NoWorker, DispatcherExits,
         dispatcherSame, workerVars, loopVars, WorkerTypes
<1>13. ASSUME StopRunning \/ StopStep PROVE WorkerTypes'
  BY <1>10, <1>13 DEF StopRunning, StopStep, StopPuts, StopReturns, stopSame, loopVars, WorkerTypes
<1>14. ASSUME Quiet PROVE WorkerTypes'
  BY <1>14 DEF Quiet, vars, workerVars, loopVars, WorkerTypes
<1>15. QED
  BY <1>4, <1>5, <1>6, <1>7, <1>9, <1>11, <1>12, <1>13, <1>14 DEF Next

(***************************************************************************)
(* Which steps move a closer, and how.                                     *)
(***************************************************************************)
BeginsAt(c, w) == closing[c] = "no" /\ closing' = [closing EXCEPT ![c] = "check"] /\ target' = [target EXCEPT ![c] = w]

LEMMA CloserMoves ==
  ASSUME Types, Next
  PROVE  \/ UNCHANGED closeVars
         \/ \E c \in Closers, w \in Workers : BeginsAt(c, w) /\ (c \in Workers => c = w)
         \/ \E c \in Closers : CloseStep(c)
<1> SUFFICES ASSUME ~ UNCHANGED closeVars, \A c \in Closers : ~CloseStep(c)
             PROVE  \E c \in Closers, w \in Workers : BeginsAt(c, w) /\ (c \in Workers => c = w)
  OBVIOUS
<1>1. ASSUME NEW w \in Workers, WorkStep(w) PROVE BeginsAt(w, w)
  BY <1>1 DEF WorkStep, LoopTop, GetNone, GetPing, GetTask, RequestFails, CloseFailed, ResponseBegins, BodyFails,
              BodyShort, BodyEnds, AfterRequest, ClosesItself, CloseBegins, CloseGoes, closeVars, BeginsAt
<1>2. ASSUME NEW w \in Workers, CheckerCloses(w) PROVE BeginsAt("checker", w)
  BY <1>2 DEF CheckerCloses, CloseBegins, BeginsAt
<1>3. ASSUME DispatcherCloses PROVE \E w \in Workers : BeginsAt("dispatcher", w)
  BY <1>3 DEF DispatcherCloses, CloseBegins, BeginsAt, Types, WorkerTypes
<1>4. ASSUME NEW w \in Workers, StopCloses(w) PROVE BeginsAt("stopper", w)
  BY <1>4 DEF StopCloses, CloseBegins, BeginsAt, closeVars, stopSame
<1>5. \/ \E w \in Workers : WorkStep(w) \/ CheckerCloses(w) \/ StopCloses(w)
      \/ DispatcherCloses
  <2>1. ASSUME NEW t \in Tasks PROVE ~(Request(t) \/ Return(t))
    BY DEF Request, Return, callerSame
  <2>2. ASSUME NEW w \in Workers PROVE ~(PutPing(w) \/ SslCreated(w) \/ AppendWorker(w))
    BY DEF PutPing, SslCreated, AppendWorker, makerSame
  <2>3. ~DispatcherStep
    BY DEF DispatcherStep, DispatcherLoop, DispatcherGets, ChooseWorker, NoWorker, DispatcherExits, HandOver
  <2>4. ~StopRunning /\ ~StopPuts /\ ~StopReturns /\ ~Quiet
    BY DEF StopRunning, StopPuts, StopReturns, Quiet, vars
  <2>5. QED
    BY <2>1, <2>2, <2>3, <2>4 DEF Next, StopStep
<1>6. QED
  BY <1>1, <1>2, <1>3, <1>4, <1>5, Apart

LEMMA CloseMoves ==
  ASSUME NEW c, CloseStep(c)
  PROVE  /\ closing[c] # "no" /\ target' = target
         /\ \E x \in {"no", "use", "clear", "lock"} : closing' = [closing EXCEPT ![c] = x]
BY DEF CloseStep, CloseChecks, CloseUses, CloseRaises, CloseHandsBack, CloseLocked, CloseGoes

LEMMA CloserTypesNext ==
  ASSUME Types, Next
  PROVE  CloserTypes'
<1> USE DEF Types, CloserTypes
<1>1. CASE UNCHANGED closeVars
  BY <1>1 DEF closeVars
<1>2. ASSUME NEW c \in Closers, NEW w \in Workers, BeginsAt(c, w) PROVE CloserTypes'
  BY <1>2 DEF BeginsAt
<1>3. ASSUME NEW c \in Closers, CloseStep(c) PROVE CloserTypes'
  BY <1>3, CloseMoves
<1>4. QED
  BY <1>1, <1>2, <1>3, CloserMoves

LEMMA DispatcherTypesNext ==
  ASSUME Types, Next
  PROVE  DispatcherTypes'
<1> USE DEF Types
<1>1. ASSUME UNCHANGED <<dispatcherVars>>, closing'["dispatcher"] # "no" => closing["dispatcher"] # "no"
      PROVE  DispatcherTypes'
  BY <1>1 DEF DispatcherTypes, dispatcherVars
<1>2. CASE UNCHANGED <<dispatcherVars, closeVars>>
  BY <1>1, <1>2 DEF closeVars
<1>3. ASSUME NEW w \in Workers, WorkStep(w) \/ CheckerCloses(w) PROVE DispatcherTypes'
  <2>1. closing'["dispatcher"] = closing["dispatcher"]
    BY <1>3, Apart DEF CloserTypes, WorkStep, LoopTop, GetNone, GetPing, GetTask, RequestFails, CloseFailed, ResponseBegins, BodyFails,
              BodyShort, BodyEnds, AfterRequest, ClosesItself, CloseBegins, CloseGoes, closeVars, CheckerCloses
  <2>2. UNCHANGED dispatcherVars
    BY <1>3 DEF WorkStep, LoopTop, GetNone, GetPing, GetTask, RequestFails, CloseFailed, ResponseBegins, BodyFails,
              BodyShort, BodyEnds, AfterRequest, CheckerCloses, loopSame
  <2>3. QED
    BY <1>1, <2>1, <2>2
<1>4. ASSUME NEW c \in Closers, CloseStep(c) PROVE DispatcherTypes'
  <2>1. closing'["dispatcher"] # "no" => closing["dispatcher"] # "no"
    BY <1>4, CloseMoves, Apart DEF CloserTypes
  <2>2. CASE UNCHANGED dispatcherVars
    BY <1>1, <2>1, <2>2
  <2>3. CASE CloseUses(c) /\ CloseRaises(c) /\ c = "dispatcher"
    <3>1. closing'["dispatcher"] = "no" /\ dispatcher' = "loop" /\ d_task' = None /\ d_worker' = d_worker
      BY <2>3, Apart DEF CloseRaises, CloseGoes, CloserTypes
    <3>2. dispatcher = "choose"
      BY <1>4, <2>3, CloseMoves DEF DispatcherTypes
    <3>3. QED
      BY <3>1, <3>2 DEF DispatcherTypes
  <2>4. QED
    BY <1>4, <2>2, <2>3 DEF CloseStep, CloseChecks, CloseUses, CloseRaises, CloseHandsBack, CloseLocked
<1>5. ASSUME DispatcherStep PROVE DispatcherTypes'
  <2>1. UNCHANGED closing
    BY <1>5 DEF DispatcherStep, DispatcherLoop, DispatcherGets, ChooseWorker, NoWorker, DispatcherExits, HandOver, closeVars
  <2>2. CASE DispatcherLoop \/ DispatcherExits
    BY <2>1, <2>2 DEF DispatcherLoop, DispatcherExits, DispatcherTypes
  <2>3. CASE DispatcherGets
    <3>1. Head(request_queue) \in Tasks \cup {None}
      BY <2>3, TailQueue DEF DispatcherGets, TaskTypes
    <3>2. QED
      BY <2>1, <2>3, <3>1 DEF DispatcherGets, DispatcherTypes
  <2>4. CASE ChooseWorker
    BY <2>1, <2>4, Apart DEF ChooseWorker, DispatcherTypes, WorkerTypes
  <2>5. CASE NoWorker
    BY <2>1, <2>5 DEF NoWorker, NoWorkerFails, DispatcherTypes
  <2>6. CASE HandOver
    BY <2>1, <2>6 DEF HandOver, DispatcherTypes
  <2>7. QED
    BY <1>5, <2>2, <2>3, <2>4, <2>5, <2>6 DEF DispatcherStep
<1>6. ASSUME DispatcherCloses PROVE DispatcherTypes'
  BY <1>6 DEF DispatcherCloses, DispatcherTypes, dispatcherVars
<1>7. ASSUME NEW w \in Workers, StopCloses(w) PROVE DispatcherTypes'
  <2>1. closing'["dispatcher"] = closing["dispatcher"]
    BY <1>7, Apart DEF StopCloses, CloseBegins, closeVars, CloserTypes
  <2>2. QED
    BY <1>1, <1>7, <2>1 DEF StopCloses, stopSame
<1>8. ASSUME NEW t \in Tasks, Request(t) \/ Return(t) PROVE DispatcherTypes'
  BY <1>2, <1>8 DEF Request, Return, callerSame
<1>9. ASSUME NEW w \in Workers, PutPing(w) \/ SslCreated(w) \/ AppendWorker(w) PROVE DispatcherTypes'
  BY <1>2, <1>9 DEF PutPing, SslCreated, AppendWorker, makerSame
<1>10. ASSUME StopRunning \/ StopPuts \/ StopReturns \/ Quiet PROVE DispatcherTypes'
  BY <1>2, <1>10 DEF StopRunning, StopPuts, StopReturns, Quiet, vars, stopSame
<1>11. QED
  BY <1>3, <1>4, <1>5, <1>6, <1>7, <1>8, <1>9, <1>10 DEF Next, StopStep

LEMMA TypesNext ==
  ASSUME Types, Next
  PROVE  Types'
BY TaskTypesNext, WorkerTypesNext, CloserTypesNext, DispatcherTypesNext DEF Types

-----------------------------------------------------------------------------
(***************************************************************************)
(* What a step does to one worker w, read off the functions at w.  Of a    *)
(* worker's thread: where it goes, what its queue, its task and its close  *)
(* become.                                                                 *)
(***************************************************************************)
KeepsQueue(w) == task_queue'[w] = task_queue[w]
Puts(w, x) == task_queue'[w] = Append(task_queue[w], x)
Takes(w) == task_queue[w] # <<>> /\ task_queue'[w] = Tail(task_queue[w])
TakesAndCloses(w) == task_queue[w] # <<>> /\ task_queue'[w] = Append(Tail(task_queue[w]), None)

KeepsTask(w) == doing'[w] = doing[w] /\ worker_task'[w] = worker_task[w]
KeepsFlags(w) == accept_task'[w] = accept_task[w] /\ keep_running'[w] = keep_running[w]
KeepsClose(w) == closing'[w] = closing[w] /\ target'[w] = target[w]
BeginsClose(w) == closing'[w] = "check" /\ target'[w] = w
KeepsPlace(w) == work_loop'[w] = work_loop[w]

Same(w) == KeepsQueue(w) /\ KeepsTask(w) /\ KeepsFlags(w) /\ KeepsClose(w) /\ KeepsPlace(w)

TopAt(w) ==
    /\ work_loop[w] = "loop" /\ work_loop'[w] = (IF keep_running[w] THEN "get" ELSE "ended")
    /\ KeepsQueue(w) /\ KeepsTask(w) /\ KeepsFlags(w) /\ KeepsClose(w)

NoneAt(w) ==
    /\ work_loop[w] = "get" /\ work_loop'[w] = "ended"
    /\ Takes(w) /\ Head(task_queue[w]) = None
    /\ accept_task'[w] = FALSE /\ keep_running'[w] = FALSE
    /\ KeepsTask(w) /\ KeepsClose(w)

PingAt(w) ==
    /\ work_loop[w] = "get" /\ Head(task_queue[w]) = Ping
    /\ KeepsTask(w) /\ KeepsFlags(w)
    /\ \/ work_loop'[w] = "loop" /\ Takes(w) /\ KeepsClose(w)
       \/ work_loop'[w] = "ended" /\ TakesAndCloses(w) /\ BeginsClose(w)

SendAt(w) ==
    /\ work_loop[w] = "get" /\ Head(task_queue[w]) \in Tasks /\ work_loop'[w] = "road"
    /\ Takes(w) /\ doing'[w] = Head(task_queue[w]) /\ worker_task'[w] = worker_task[w]
    /\ KeepsFlags(w) /\ KeepsClose(w)

GiveBackAt(w) ==
    /\ work_loop[w] = "get" /\ Head(task_queue[w]) \in Tasks /\ work_loop'[w] = "ended"
    /\ TakesAndCloses(w) /\ worker_task'[w] = Head(task_queue[w]) /\ doing'[w] = doing[w]
    /\ KeepsFlags(w) /\ BeginsClose(w)

FailAt(w) ==
    /\ work_loop[w] = "road" /\ work_loop'[w] = "failed" /\ RetryTask(doing[w])
    /\ doing'[w] = None /\ worker_task'[w] = worker_task[w]
    /\ KeepsQueue(w) /\ KeepsFlags(w) /\ KeepsClose(w)

CloseFailedAt(w) ==
    /\ work_loop[w] = "failed" /\ work_loop'[w] = "after"
    /\ worker_task'[w] = None /\ doing'[w] = doing[w]
    /\ Puts(w, None) /\ KeepsFlags(w) /\ BeginsClose(w)

AnswerAt(w) ==
    /\ work_loop[w] = "road" /\ work_loop'[w] = "body" /\ Answer(doing[w])
    /\ UNCHANGED <<request_queue, finished>>
    /\ KeepsQueue(w) /\ KeepsTask(w) /\ KeepsFlags(w) /\ KeepsClose(w)

BodyFailsAt(w) ==
    /\ work_loop[w] = "body" /\ work_loop'[w] = "after"
    /\ doing'[w] = None /\ worker_task'[w] = worker_task[w]
    /\ Puts(w, None) /\ KeepsFlags(w) /\ BeginsClose(w)

BodyShortAt(w) ==
    /\ work_loop[w] = "body" /\ work_loop'[w] = "end"
    /\ KeepsTask(w) /\ Puts(w, None) /\ KeepsFlags(w) /\ BeginsClose(w)

BodyEndsAt(w) ==
    /\ work_loop[w] \in {"body", "end"} /\ work_loop'[w] = "after"
    /\ Finish(doing[w]) /\ UNCHANGED <<request_queue, responsed, answers>>
    /\ doing'[w] = None /\ worker_task'[w] = None
    /\ accept_task'[w] = TRUE /\ keep_running'[w] = keep_running[w]
    /\ KeepsQueue(w) /\ KeepsClose(w)

AfterAt(w) ==
    /\ work_loop[w] = "after" /\ KeepsTask(w) /\ KeepsFlags(w)
    /\ \/ work_loop'[w] = "loop" /\ KeepsQueue(w) /\ KeepsClose(w)
       \/ work_loop'[w] = "ended" /\ Puts(w, None) /\ BeginsClose(w)

TasksSame == UNCHANGED <<request_queue, responsed, finished, answers>>

WorksAt(w) ==
    \/ TasksSame /\ \/ TopAt(w) \/ NoneAt(w) \/ PingAt(w) \/ SendAt(w) \/ GiveBackAt(w)
                    \/ CloseFailedAt(w) \/ BodyFailsAt(w) \/ BodyShortAt(w) \/ AfterAt(w)
    \/ FailAt(w) \/ AnswerAt(w) \/ BodyEndsAt(w)

LEMMA WorkEffect ==
  ASSUME Types, NEW w \in Workers, WorkStep(w)
  PROVE  closing[w] = "no" /\ WorksAt(w)
<1> USE DEF Types, WorkerTypes, CloserTypes, workerVars, closeVars, taskVars, WorkGoes, CloseGoes, ClosesItself,
            CloseBegins, KeepsQueue, Puts, Takes, TakesAndCloses, KeepsTask, KeepsFlags, KeepsClose, BeginsClose, TasksSame
<1> SUFFICES WorksAt(w)
  BY DEF WorkStep
<1>0. w \in Closers
  BY Apart
<1>1. CASE LoopTop(w)
  BY <1>0, <1>1 DEF LoopTop, TopAt, WorksAt
<1>2. CASE GetNone(w)
  BY <1>0, <1>2 DEF GetNone, NoneAt, WorksAt
<1>3. CASE GetPing(w)
  <2> DEFINE fine == task_queue' = [task_queue EXCEPT ![w] = Tail(@)] /\ WorkGoes(w, "loop") /\ UNCHANGED closeVars
             bad == /\ task_queue' = [task_queue EXCEPT ![w] = Append(Tail(@), None)]
                    /\ WorkGoes(w, "ended")
                    /\ CloseGoes(w, "check") /\ target' = [target EXCEPT ![w] = w]
  <2>1. CASE fine
    BY <1>0, <1>3, <2>1 DEF GetPing, PingAt, WorksAt
  <2>2. CASE bad
    BY <1>0, <1>3, <2>2 DEF GetPing, PingAt, WorksAt
  <2>3. QED
    BY <1>3, <2>1, <2>2 DEF GetPing
<1>4. CASE GetTask(w)
  <2> DEFINE sent == /\ task_queue' = [task_queue EXCEPT ![w] = Tail(@)]
                     /\ doing' = [doing EXCEPT ![w] = Head(task_queue[w])]
                     /\ WorkGoes(w, "road") /\ UNCHANGED <<worker_task, closeVars>>
             back == /\ worker_task' = [worker_task EXCEPT ![w] = Head(task_queue[w])]
                     /\ task_queue' = [task_queue EXCEPT ![w] = Append(Tail(@), None)]
                     /\ WorkGoes(w, "ended") /\ UNCHANGED doing
                     /\ CloseGoes(w, "check") /\ target' = [target EXCEPT ![w] = w]
  <2>1. CASE sent
    BY <1>0, <1>4, <2>1 DEF GetTask, SendAt, WorksAt
  <2>2. CASE back
    BY <1>0, <1>4, <2>2 DEF GetTask, GiveBackAt, WorksAt
  <2>3. QED
    BY <1>4, <2>1, <2>2 DEF GetTask
<1>5. CASE RequestFails(w)
  BY <1>0, <1>5 DEF RequestFails, FailAt, WorksAt
<1>6. CASE CloseFailed(w)
  BY <1>0, <1>6 DEF CloseFailed, CloseFailedAt, WorksAt
<1>7. CASE ResponseBegins(w)
  BY <1>0, <1>7 DEF ResponseBegins, AnswerAt, WorksAt
<1>8. CASE BodyFails(w)
  BY <1>0, <1>8 DEF BodyFails, BodyFailsAt, WorksAt
<1>9. CASE BodyShort(w)
  BY <1>0, <1>9 DEF BodyShort, BodyShortAt, WorksAt
<1>10. CASE BodyEnds(w)
  BY <1>0, <1>10 DEF BodyEnds, BodyEndsAt, WorksAt
<1>11. CASE AfterRequest(w)
  <2>1. CASE WorkGoes(w, "loop") /\ UNCHANGED <<task_queue, closeVars>>
    BY <1>0, <1>11, <2>1 DEF AfterRequest, AfterAt, WorksAt
  <2>2. CASE ClosesItself(w, "ended")
    BY <1>0, <1>11, <2>2 DEF AfterRequest, AfterAt, WorksAt
  <2>3. QED
    BY <1>11, <2>1, <2>2 DEF AfterRequest
<1>12. QED
  BY <1>1, <1>2, <1>3, <1>4, <1>5, <1>6, <1>7, <1>8, <1>9, <1>10, <1>11 DEF WorkStep

(***************************************************************************)
(* A worker's thread touches no other worker and no other closer.          *)
(***************************************************************************)
LEMMA WorkElsewhere ==
  ASSUME Types, NEW w \in Workers, WorkStep(w)
  PROVE  /\ UNCHANGED <<raced, late, caller, dispatcher, d_task, d_worker, making, running, workers>>
         /\ \A v \in Workers \ {w} : Same(v)
         /\ \A c \in Closers \ {w} : closing'[c] = closing[c] /\ target'[c] = target[c]
<1> USE DEF Types, WorkerTypes, CloserTypes, workerVars, closeVars, taskVars, loopSame, WorkGoes, CloseGoes,
            ClosesItself, CloseBegins, dispatcherVars, stopVars
<1>0. \A v \in Workers : v \in Closers
  BY Apart
<1>1. UNCHANGED <<raced, late, caller, dispatcher, d_task, d_worker, making, running, workers>>
  BY DEF WorkStep, LoopTop, GetNone, GetPing, GetTask, RequestFails, CloseFailed, ResponseBegins, BodyFails,
         BodyShort, BodyEnds, AfterRequest
<1>2. ASSUME NEW c \in Closers \ {w} PROVE closing'[c] = closing[c] /\ target'[c] = target[c]
  BY <1>2 DEF WorkStep, LoopTop, GetNone, GetPing, GetTask, RequestFails, CloseFailed, ResponseBegins, BodyFails,
         BodyShort, BodyEnds, AfterRequest
<1>3. ASSUME NEW v \in Workers \ {w} PROVE Same(v)
  <2>1. KeepsQueue(v)
    BY <1>3 DEF WorkStep, LoopTop, GetNone, GetPing, GetTask, RequestFails, CloseFailed, ResponseBegins, BodyFails,
         BodyShort, BodyEnds, AfterRequest, KeepsQueue
  <2>2. KeepsTask(v)
    BY <1>3 DEF WorkStep, LoopTop, GetNone, GetPing, GetTask, RequestFails, CloseFailed, ResponseBegins, BodyFails,
         BodyShort, BodyEnds, AfterRequest, KeepsTask
  <2>3. KeepsFlags(v)
    BY <1>3 DEF WorkStep, LoopTop, GetNone, GetPing, GetTask, RequestFails, CloseFailed, ResponseBegins, BodyFails,
         BodyShort, BodyEnds, AfterRequest, KeepsFlags
  <2>4. KeepsPlace(v)
    BY <1>3 DEF WorkStep, LoopTop, GetNone, GetPing, GetTask, RequestFails, CloseFailed, ResponseBegins, BodyFails,
         BodyShort, BodyEnds, AfterRequest, KeepsPlace
  <2>5. KeepsClose(v)
    BY <1>0, <1>2, <1>3 DEF KeepsClose
  <2>6. QED
    BY <2>1, <2>2, <2>3, <2>4, <2>5 DEF Same
<1>4. QED
  BY <1>1, <1>2, <1>3

(***************************************************************************)
(* Of any other step.                                                      *)
(***************************************************************************)
Stays(w) == KeepsQueue(w) /\ KeepsTask(w) /\ KeepsFlags(w) /\ KeepsPlace(w)

HandsSame == UNCHANGED <<d_task, d_worker>>

ChecksAt(c) ==
    /\ closing[c] = "check"
    /\ closing'[c] = (IF worker_task[target[c]] = None THEN "lock" ELSE "use")
    /\ TasksSame /\ HandsSame /\ UNCHANGED raced
    /\ \A v \in Workers : Stays(v)

RaisesAt(c) ==
    /\ closing[c] = "use" /\ worker_task[target[c]] = None /\ closing'[c] = "no"
    /\ UNCHANGED <<raced, d_worker>>
    /\ \A v \in Workers \ {c} : Stays(v)
    /\ c \in Workers => /\ KeepsQueue(c) /\ KeepsFlags(c) /\ worker_task'[c] = worker_task[c]
                        /\ work_loop'[c] = "ended" /\ doing'[c] = None
    /\ IF c = "dispatcher" THEN ResponseFail(d_task) /\ d_task' = None /\ UNCHANGED request_queue
                           ELSE TasksSame /\ UNCHANGED d_task

HandsBackAt(c) ==
    /\ closing[c] = "use" /\ worker_task[target[c]] \in Tasks /\ closing'[c] = "clear"
    /\ RetryTask(worker_task[target[c]])
    /\ raced' = IF Races(c, target[c]) THEN raced \cup {worker_task[target[c]]} ELSE raced
    /\ HandsSame
    /\ \A v \in Workers : Stays(v)

LockedAt(c) ==
    /\ closing[c] \in {"clear", "lock"} /\ closing'[c] = "no"
    /\ TasksSame /\ HandsSame /\ UNCHANGED raced
    /\ \A v \in Workers \ {target[c]} : Stays(v)
    /\ LET w == target[c] IN
       /\ KeepsQueue(w) /\ KeepsPlace(w) /\ doing'[w] = doing[w]
       /\ worker_task'[w] = (IF closing[c] = "clear" THEN None ELSE worker_task[w])
       /\ keep_running'[w] = FALSE
       /\ accept_task'[w] => accept_task[w]

CloseAt(c) ==
    /\ target[c] \in Workers /\ target' = target /\ UNCHANGED <<late, caller>>
    /\ \A e \in Closers \ {c} : closing'[e] = closing[e]
    /\ ChecksAt(c) \/ RaisesAt(c) \/ HandsBackAt(c) \/ LockedAt(c)

LEMMA CloseEffect ==
  ASSUME Types, NEW c \in Closers, CloseStep(c)
  PROVE  CloseAt(c)
<1> USE DEF Types, WorkerTypes, CloserTypes, KeepsQueue, KeepsTask, KeepsFlags, KeepsPlace, Stays, TasksSame,
            HandsSame, workerVars, loopVars, taskVars, dispatcherVars, closeSame, CloseGoes
<1>1. target[c] \in Workers /\ target' = target /\ UNCHANGED <<late, caller>>
  BY CloseMoves DEF CloseStep, CloseChecks, CloseUses, CloseLocked
<1>2. \A e \in Closers \ {c} : closing'[e] = closing[e]
  BY CloseMoves
<1>3. CASE CloseChecks(c)
  <2>1. ChecksAt(c)
    BY <1>3 DEF CloseChecks, ChecksAt
  <2>2. QED
    BY <1>1, <1>2, <2>1 DEF CloseAt
<1>4. CASE CloseUses(c) /\ CloseRaises(c) /\ worker_task[target[c]] = None
  <2>1. \A v \in Workers \ {c} : Stays(v)
    BY <1>4 DEF CloseUses, CloseRaises
  <2>2. c \in Workers => /\ KeepsQueue(c) /\ KeepsFlags(c) /\ worker_task'[c] = worker_task[c]
                         /\ work_loop'[c] = "ended" /\ doing'[c] = None
    BY <1>4 DEF CloseUses, CloseRaises
  <2>3. IF c = "dispatcher" THEN ResponseFail(d_task) /\ d_task' = None /\ UNCHANGED request_queue
                            ELSE TasksSame /\ UNCHANGED d_task
    BY <1>4 DEF CloseUses, CloseRaises
  <2>4. closing[c] = "use" /\ closing'[c] = "no" /\ UNCHANGED <<raced, d_worker>>
    BY <1>4 DEF CloseUses, CloseRaises
  <2>5. QED
    BY <1>1, <1>2, <1>4, <2>1, <2>2, <2>3, <2>4 DEF CloseAt, RaisesAt
<1>5. CASE CloseUses(c) /\ CloseHandsBack(c, target[c]) /\ worker_task[target[c]] # None
  <2>1. HandsBackAt(c)
    BY <1>1, <1>5 DEF CloseUses, CloseHandsBack, HandsBackAt
  <2>2. QED
    BY <1>1, <1>2, <2>1 DEF CloseAt
<1>6. CASE CloseLocked(c)
  <2>1. \A v \in Workers \ {target[c]} : Stays(v)
    BY <1>1, <1>6 DEF CloseLocked
  <2>2. worker_task'[target[c]] = (IF closing[c] = "clear" THEN None ELSE worker_task[target[c]])
    BY <1>1, <1>6 DEF CloseLocked
  <2>3. keep_running'[target[c]] = FALSE
    BY <1>1, <1>6 DEF CloseLocked
  <2>4. accept_task'[target[c]] => accept_task[target[c]]
    BY <1>1, <1>6 DEF CloseLocked
  <2>5. /\ closing[c] \in {"clear", "lock"} /\ closing'[c] = "no"
        /\ TasksSame /\ HandsSame /\ UNCHANGED raced
        /\ KeepsQueue(target[c]) /\ KeepsPlace(target[c]) /\ doing'[target[c]] = doing[target[c]]
    BY <1>1, <1>6 DEF CloseLocked
  <2>6. QED
    BY <1>1, <1>2, <2>1, <2>2, <2>3, <2>4, <2>5 DEF CloseAt, LockedAt
<1>7. QED
  BY <1>3, <1>4, <1>5, <1>6 DEF CloseStep, CloseUses

\* Everything else that a task's whereabouts depend on is as it was.
Otherwise == UNCHANGED <<responsed, finished, answers, raced>>

\* A close begins from outside.
OutsideAt(c, w) ==
    /\ c \in Closers \ Workers /\ closing[c] = "no" /\ closing'[c] = "check" /\ target'[c] = w
    /\ \A e \in Closers \ {c} : closing'[e] = closing[e] /\ target'[e] = target[e]
    /\ work_loop[w] # "none" \/ w \in workers \/ accept_task[w]
    /\ Puts(w, None) /\ KeepsTask(w) /\ KeepsFlags(w) /\ KeepsPlace(w)
    /\ \A v \in Workers \ {w} : Stays(v)
    /\ Otherwise /\ HandsSame /\ UNCHANGED <<request_queue, late, caller>>

PingPut(w) ==
    /\ work_loop[w] # "none" /\ Puts(w, Ping) /\ KeepsTask(w) /\ KeepsFlags(w) /\ KeepsPlace(w)
    /\ \A v \in Workers \ {w} : Stays(v)
    /\ Otherwise /\ HandsSame /\ UNCHANGED <<request_queue, late, caller, closing, target>>

MadeAt(w) ==
    /\ w \in making /\ work_loop'[w] = "loop" /\ KeepsQueue(w) /\ KeepsTask(w)
    /\ keep_running'[w] = TRUE
    /\ making' = making \ {w} /\ workers' = workers \cup {w} /\ sock' = sock
    /\ \A v \in Workers \ {w} : Stays(v)
    /\ Otherwise /\ HandsSame /\ UNCHANGED <<request_queue, late, caller, closing, target>>

HandedAt(t, w) ==
    /\ t \in Tasks /\ d_task = t /\ d_worker = w /\ d_task' = None /\ d_worker' = None
    /\ accept_task'[w] = FALSE /\ keep_running'[w] = keep_running[w]
    /\ worker_task'[w] = t /\ doing'[w] = doing[w] /\ KeepsPlace(w) /\ Puts(w, t)
    /\ late' = IF None \in Range(task_queue[w]) \/ work_loop[w] = "ended" THEN late \cup {t} ELSE late
    /\ \A v \in Workers \ {w} : Stays(v)
    /\ Otherwise /\ UNCHANGED <<request_queue, caller, closing, target>>

Elsewhere == UNCHANGED <<closing, target, late, raced>> /\ \A v \in Workers : Stays(v)

AskedAt(t) ==
    /\ caller[t] = "out" /\ caller' = [caller EXCEPT ![t] = "wait"]
    /\ request_queue' = Append(request_queue, t)
    /\ HandsSame /\ Otherwise /\ Elsewhere

GotAt(x) ==
    /\ request_queue # <<>> /\ Head(request_queue) = x /\ request_queue' = Tail(request_queue)
    /\ d_task = None /\ d_task' = x /\ d_worker' = d_worker
    /\ Otherwise /\ Elsewhere /\ UNCHANGED caller

ChosenAt(w) ==
    /\ d_worker' = w /\ accept_task[w] /\ w \in workers
    /\ d_task' = d_task /\ Otherwise /\ Elsewhere /\ UNCHANGED <<request_queue, caller>>

FailedAt(t) ==
    /\ t \in Tasks /\ d_task = t /\ d_task' = None /\ d_worker' = d_worker /\ ResponseFail(t)
    /\ Elsewhere /\ UNCHANGED <<request_queue, caller>>

IdleAt ==
    /\ request_queue' \in {request_queue, Append(request_queue, None)}
    /\ \A t \in Tasks : caller'[t] = "out" <=> caller[t] = "out"
    /\ HandsSame /\ Otherwise /\ Elsewhere

LEMMA NextEffect ==
  ASSUME Types, Next
  PROVE  \/ \E w \in Workers : WorkStep(w)
         \/ \E c \in Closers : CloseStep(c)
         \/ \E w \in Workers : \/ PingPut(w) \/ MadeAt(w) \/ ChosenAt(w)
                               \/ \E c \in Closers : OutsideAt(c, w)
                               \/ HandedAt(d_task, w)
         \/ \E t \in Tasks : AskedAt(t) \/ FailedAt(t)
         \/ \E x \in Tasks \cup {None} : GotAt(x)
         \/ IdleAt
<1> USE DEF Types, WorkerTypes, CloserTypes, KeepsQueue, KeepsTask, KeepsFlags, KeepsPlace, Stays,
            HandsSame, Otherwise, Elsewhere, workerVars, loopVars, closeVars, taskVars, dispatcherVars
<1>1. ASSUME NEW t \in Tasks, Request(t) PROVE AskedAt(t)
  BY <1>1 DEF Request, callerSame, AskedAt
<1>2. ASSUME NEW t \in Tasks, Return(t) PROVE IdleAt
  <2>1. \A u \in Tasks : caller'[u] = "out" <=> caller[u] = "out"
    BY <1>2 DEF Return, TaskTypes
  <2>2. QED
    BY <1>2, <2>1 DEF Return, callerSame, IdleAt
<1>3. ASSUME NEW c \in Closers \ Workers, NEW w \in Workers, closing[c] = "no", CloseBegins(c, w),
             work_loop[w] # "none" \/ w \in workers \/ accept_task[w],
             UNCHANGED <<taskVars, raced, late, caller, dispatcherVars, accept_task, keep_running, worker_task, loopVars>>
      PROVE  OutsideAt(c, w)
  <2>1. \A v \in Workers \ {w} : Stays(v)
    BY <1>3 DEF CloseBegins
  <2>2. Puts(w, None) /\ KeepsTask(w) /\ KeepsFlags(w) /\ KeepsPlace(w)
    BY <1>3 DEF CloseBegins, Puts
  <2>3. /\ closing'[c] = "check" /\ target'[c] = w
        /\ \A e \in Closers \ {c} : closing'[e] = closing[e] /\ target'[e] = target[e]
    BY <1>3 DEF CloseBegins
  <2>4. QED
    BY <1>3, <2>1, <2>2, <2>3 DEF OutsideAt
<1>4. ASSUME NEW w \in Workers, CheckerCloses(w) PROVE OutsideAt("checker", w)
  BY <1>3, <1>4, Apart DEF CheckerCloses
<1>5. ASSUME DispatcherCloses PROVE \E w \in Workers : OutsideAt("dispatcher", w)
  <2>1. PICK w \in workers : CloseBegins("dispatcher", w)
    BY <1>5 DEF DispatcherCloses
  <2>2. OutsideAt("dispatcher", w)
    BY <1>3, <1>5, <2>1, Apart DEF DispatcherCloses
  <2>3. QED
    BY <2>2
<1>6. ASSUME NEW w \in Workers, StopCloses(w) PROVE OutsideAt("stopper", w) \/ IdleAt
  <2>1. CASE accept_task[w]
    BY <1>3, <1>6, <2>1, Apart DEF StopCloses, stopSame
  <2>2. CASE ~accept_task[w]
    BY <1>6, <2>2 DEF StopCloses, stopSame, IdleAt
  <2>3. QED
    BY <2>1, <2>2
<1>7. ASSUME NEW w \in Workers, PutPing(w) PROVE PingPut(w)
  <2>1. \A v \in Workers \ {w} : Stays(v)
    BY <1>7 DEF PutPing
  <2>2. QED
    BY <1>7, <2>1 DEF PutPing, PingPut, Puts
<1>8. ASSUME NEW w \in Workers, SslCreated(w) PROVE IdleAt
  BY <1>8 DEF SslCreated, makerSame, IdleAt
<1>9. ASSUME NEW w \in Workers, AppendWorker(w) PROVE MadeAt(w)
  <2>1. \A v \in Workers \ {w} : Stays(v)
    BY <1>9 DEF AppendWorker, makerSame
  <2>2. QED
    BY <1>9, <2>1 DEF AppendWorker, makerSame, MadeAt
<1>10. ASSUME DispatcherLoop \/ DispatcherExits PROVE IdleAt
  BY <1>10 DEF DispatcherLoop, DispatcherExits, dispatcherSame, IdleAt
<1>11. ASSUME DispatcherGets PROVE \E x \in Tasks \cup {None} : GotAt(x)
  <2>1. Head(request_queue) \in Tasks \cup {None}
    BY <1>11, TailQueue DEF DispatcherGets, TaskTypes
  <2>2. d_task = None
    BY <1>11 DEF DispatcherGets, DispatcherTypes
  <2>3. GotAt(Head(request_queue))
    BY <1>11, <2>2 DEF DispatcherGets, dispatcherSame, GotAt
  <2>4. QED
    BY <2>1, <2>3
<1>12. ASSUME ChooseWorker PROVE \E w \in Workers : ChosenAt(w)
  BY <1>12 DEF ChooseWorker, dispatcherSame, ChosenAt
<1>13. ASSUME NoWorker PROVE \E t \in Tasks : FailedAt(t)
  <2>1. d_task \in Tasks
    BY <1>13 DEF NoWorker, NoWorkerFails, DispatcherTypes
  <2>2. FailedAt(d_task)
    BY <1>13, <2>1 DEF NoWorker, NoWorkerFails, dispatcherSame, FailedAt
  <2>3. QED
    BY <2>1, <2>2
<1>14. ASSUME HandOver PROVE \E w \in Workers : HandedAt(d_task, w)
  <2>1. d_task \in Tasks /\ d_worker \in Workers
    BY <1>14 DEF HandOver, DispatcherTypes
  <2>2. \A v \in Workers \ {d_worker} : Stays(v)
    BY <1>14 DEF HandOver
  <2>3. HandedAt(d_task, d_worker)
    BY <1>14, <2>1, <2>2 DEF HandOver, HandedAt, Puts
  <2>4. QED
    BY <2>1, <2>3
<1>15. ASSUME StopRunning \/ StopPuts \/ StopReturns PROVE IdleAt
  BY <1>15 DEF StopRunning, StopPuts, StopReturns, stopSame, IdleAt
<1>16. ASSUME Quiet PROVE IdleAt
  BY <1>16 DEF Quiet, vars, IdleAt
<1>17. QED
  BY <1>1, <1>2, <1>4, <1>5, <1>6, <1>7, <1>8, <1>9, <1>10, <1>11, <1>12, <1>13, <1>14, <1>15, <1>16, Apart
     DEF Next, DispatcherStep, StopStep

-----------------------------------------------------------------------------
(***************************************************************************)
(* What a worker is made of.  It is told to exit before it is closed, it   *)
(* has at most one task at a time, in its queue or its hands, and accepts  *)
(* another one only without.  A thread that closes itself is where its     *)
(* requests end.                                                           *)
(***************************************************************************)
Told(w) ==
    /\ work_loop[w] # "none"
    /\ None \in Range(task_queue[w]) \/ work_loop[w] = "ended"

Occupied(w) ==
    \/ work_loop[w] \in {"road", "failed", "body", "end"}
    \/ work_loop[w] = "after" /\ closing[w] # "no"

Empty(w) == \A t \in Tasks : t \notin Range(task_queue[w])

CloserInv(c) ==
    closing[c] # "no" => /\ Told(target[c])
                         /\ c \in Workers => target[c] = c /\ work_loop[c] \in {"after", "end", "ended"}

NewInv(w) ==
    /\ work_loop[w] = "none" => /\ None \notin Range(task_queue[w]) /\ Empty(w)
                                /\ worker_task[w] = None /\ ~accept_task[w]
    /\ w \in workers => work_loop[w] # "none"
    /\ w \in making => work_loop[w] = "none" /\ sock[w] # "none"
    /\ sock[w] = "none" => work_loop[w] = "none"
    /\ d_worker = w => work_loop[w] # "none"

WorkInv(w) ==
    /\ work_loop[w] \in {"road", "body", "end"} <=> doing[w] # None
    /\ OneTask(task_queue[w])
    /\ accept_task[w] \/ d_worker = w => Empty(w) /\ worker_task[w] = None /\ ~Occupied(w)
    /\ Occupied(w) => Empty(w)
    /\ \A t \in Tasks : t \in Range(task_queue[w]) => worker_task[w] \in {t, None}
    /\ doing[w] # None => worker_task[w] \in {doing[w], None}
    /\ work_loop[w] \notin {"none", "ended"} /\ ~keep_running[w] => None \in Range(task_queue[w])
    /\ work_loop[w] \in {"body", "end"} => responsed[doing[w]]

Structure ==
    /\ \A c \in Closers : CloserInv(c)
    /\ \A w \in Workers : NewInv(w) /\ WorkInv(w)

LEMMA StructureInit == Init => Structure
<1> SUFFICES ASSUME Init PROVE Structure
  OBVIOUS
<1>1. \A c \in Closers : CloserInv(c)
  BY DEF Init, CloserInv
<1>2. \A w \in Workers : NewInv(w)
  BY EmptyQueue, Apart DEF Init, NewInv, Empty
<1>3. \A w \in Workers : WorkInv(w)
  BY EmptyQueue, Apart DEF Init, WorkInv, Empty, Occupied
<1>4. QED
  BY <1>1, <1>2, <1>3 DEF Structure

(***************************************************************************)
(* The queue operations, on the tasks and the None in a worker's queue.    *)
(***************************************************************************)
LEMMA PutInto ==
  ASSUME Types, NEW w \in Workers, NEW x \in Items, Puts(w, x)
  PROVE  /\ \A y : y \in Range(task_queue'[w]) <=> y \in Range(task_queue[w]) \/ y = x
         /\ x \notin Tasks \/ Empty(w) => (OneTask(task_queue[w]) => OneTask(task_queue'[w]))
         /\ \A t : First(task_queue[w], t) => First(task_queue'[w], t)
         /\ \A t : First(task_queue'[w], t) => \/ First(task_queue[w], t)
                                               \/ t = x /\ None \notin Range(task_queue[w])
         /\ None \notin Range(task_queue[w]) => First(task_queue'[w], x)
<1>1. task_queue[w] \in Seq(Items)
  BY DEF Types, WorkerTypes
<1>2. QED
  BY <1>1, AppendQueue, AppendOneTask DEF Puts, Empty

LEMMA TakeFrom ==
  ASSUME Types, NEW w \in Workers, Takes(w)
  PROVE  LET h == Head(task_queue[w]) IN
         /\ \A y : y \in Range(task_queue[w]) <=> y \in Range(task_queue'[w]) \/ y = h
         /\ OneTask(task_queue[w]) => OneTask(task_queue'[w])
         /\ OneTask(task_queue[w]) /\ h \in Tasks => Empty(w)'
         /\ \A t : First(task_queue[w], t) => t = h \/ (h # None /\ First(task_queue'[w], t))
         /\ h # None => \A t : First(task_queue'[w], t) => First(task_queue[w], t)
         /\ First(task_queue[w], h)
<1>1. task_queue[w] \in Seq(Items) /\ task_queue[w] # <<>> /\ task_queue'[w] = Tail(task_queue[w])
  BY DEF Types, WorkerTypes, Takes
<1>2. QED
  BY <1>1, TailQueue DEF Empty

LEMMA TakeAndClose ==
  ASSUME Types, NEW w \in Workers, TakesAndCloses(w)
  PROVE  LET h == Head(task_queue[w]) IN
         /\ None \in Range(task_queue'[w])
         /\ \A y : y # None => (y \in Range(task_queue[w]) <=> y \in Range(task_queue'[w]) \/ y = h)
         /\ OneTask(task_queue[w]) => OneTask(task_queue'[w])
         /\ OneTask(task_queue[w]) /\ h \in Tasks => Empty(w)'
         /\ First(task_queue[w], h)
         /\ \A t : First(task_queue[w], t) => t = h \/ First(task_queue'[w], t)
<1> DEFINE q == task_queue[w]
           p == Tail(q)
<1>1. q \in Seq(Items) /\ q # <<>> /\ task_queue'[w] = Append(p, None)
  BY DEF Types, WorkerTypes, TakesAndCloses
<1>2. None \in Items /\ None \notin Tasks
  BY Apart DEF Items
<1> HIDE DEF q
<1>3. /\ Head(q) \in Items /\ p \in Seq(Items)
      /\ \A y : y \in Range(q) <=> y \in Range(p) \/ y = Head(q)
      /\ First(q, Head(q))
      /\ \A t : First(q, t) => t = Head(q) \/ First(p, t)
      /\ OneTask(q) => OneTask(p)
      /\ OneTask(q) /\ Head(q) \in Tasks => \A t \in Tasks : t \notin Range(p)
  BY <1>1, TailQueue
<1> HIDE DEF p
<1>4. /\ \A y : y \in Range(task_queue'[w]) <=> y \in Range(p) \/ y = None
      /\ OneTask(p) => OneTask(task_queue'[w])
      /\ \A t : First(p, t) => First(task_queue'[w], t)
  BY <1>1, <1>2, <1>3, AppendQueue, AppendOneTask
<1>5. QED
  BY <1>2, <1>3, <1>4 DEF Empty, q

(***************************************************************************)
(* Nothing is undone: a task that was answered or ended stays so.          *)
(***************************************************************************)
LEMMA FailEffect ==
  ASSUME Types, NEW t \in Tasks, ResponseFail(t)
  PROVE  /\ responsed'[t] /\ (~responsed[t] => finished'[t])
         /\ responsed[t] => UNCHANGED <<finished, answers>>
         /\ ~responsed[t] => answers'[t] = answers[t] + 1
         /\ finished[t] => finished'[t]
         /\ \A u \in Tasks \ {t} : /\ responsed'[u] = responsed[u] /\ finished'[u] = finished[u]
                                   /\ answers'[u] = answers[u]
BY DEF ResponseFail, Finish, Types, TaskTypes

LEMMA RetryEffect ==
  ASSUME Types, NEW t \in Tasks, RetryTask(t)
  PROVE  /\ \/ responsed[t] /\ responsed'[t] /\ finished'[t] /\ UNCHANGED <<request_queue, answers>>
            \/ /\ ~responsed[t] /\ responsed'[t] /\ finished'[t] /\ answers'[t] = answers[t] + 1
               /\ UNCHANGED request_queue
            \/ /\ ~responsed[t] /\ UNCHANGED <<responsed, finished, answers>>
               /\ request_queue' = Append(request_queue, t)
         /\ \A u \in Tasks \ {t} : /\ responsed'[u] = responsed[u] /\ finished'[u] = finished[u]
                                   /\ answers'[u] = answers[u]
<1>1. CASE responsed[t] /\ Finish(t) /\ UNCHANGED <<request_queue, responsed, retry_count, answers>>
  BY <1>1 DEF Finish, Types, TaskTypes
<1>2. CASE ~responsed[t] /\ ResponseFail(t) /\ UNCHANGED <<request_queue, retry_count>>
  BY <1>2, FailEffect
<1>3. CASE ~responsed[t] /\ Requeue(t)
  BY <1>3 DEF Requeue
<1>4. QED
  BY <1>1, <1>2, <1>3 DEF RetryTask

LEMMA AnswerEffect ==
  ASSUME Types, NEW t \in Tasks, Answer(t)
  PROVE  /\ responsed'[t] /\ answers'[t] = answers[t] + 1
         /\ \A u \in Tasks \ {t} : responsed'[u] = responsed[u] /\ answers'[u] = answers[u]
BY DEF Answer, Types, TaskTypes

LEMMA FinishEffect ==
  ASSUME Types, NEW t \in Tasks, Finish(t)
  PROVE  /\ finished'[t]
         /\ \A u \in Tasks \ {t} : finished'[u] = finished[u]
BY DEF Finish, Types, TaskTypes

LEMMA Doing ==
  ASSUME Types, Structure, NEW w \in Workers
  PROVE  work_loop[w] \in {"road", "body", "end"} => doing[w] \in Tasks
BY DEF Types, WorkerTypes, Structure, WorkInv

LEMMA NothingUndone ==
  ASSUME Types, Structure, Next, NEW t \in Tasks
  PROVE  /\ responsed[t] => responsed'[t]
         /\ finished[t] => finished'[t]
         /\ t \in raced => t \in raced'
         /\ t \in late => t \in late'
<1>1. ASSUME NEW w \in Workers, WorkStep(w)
      PROVE  /\ responsed[t] => responsed'[t]
             /\ finished[t] => finished'[t]
             /\ UNCHANGED <<raced, late>>
  <2>1. CASE TasksSame
    BY <1>1, <2>1, WorkElsewhere DEF TasksSame
  <2>2. CASE FailAt(w)
    BY <1>1, <2>2, WorkElsewhere, Doing, RetryEffect DEF FailAt
  <2>3. CASE AnswerAt(w)
    BY <1>1, <2>3, WorkElsewhere, Doing, AnswerEffect DEF AnswerAt
  <2>4. CASE BodyEndsAt(w)
    BY <1>1, <2>4, WorkElsewhere, Doing, FinishEffect DEF BodyEndsAt
  <2>5. QED
    BY <1>1, <2>1, <2>2, <2>3, <2>4, WorkEffect DEF WorksAt
<1>2. ASSUME NEW c \in Closers, CloseStep(c)
      PROVE  /\ responsed[t] => responsed'[t]
             /\ finished[t] => finished'[t]
             /\ t \in raced => t \in raced'
             /\ UNCHANGED late
  <2>1. CASE ChecksAt(c) \/ LockedAt(c)
    BY <1>2, <2>1, CloseEffect DEF ChecksAt, LockedAt, TasksSame, CloseAt
  <2>2. CASE RaisesAt(c)
    <3>1. c = "dispatcher" => d_task \in Tasks
      BY <2>2 DEF RaisesAt, Types, DispatcherTypes
    <3>2. QED
      BY <1>2, <2>2, <3>1, CloseEffect, FailEffect DEF RaisesAt, TasksSame, CloseAt
  <2>3. CASE HandsBackAt(c)
    <3>1. PICK u \in Tasks : RetryTask(u)
      BY <2>3 DEF HandsBackAt
    <3>2. (responsed[t] => responsed'[t]) /\ (finished[t] => finished'[t])
      BY <3>1, RetryEffect
    <3>3. t \in raced => t \in raced'
      BY <2>3 DEF HandsBackAt
    <3>4. QED
      BY <1>2, <3>2, <3>3, CloseEffect DEF CloseAt
  <2>4. QED
    BY <1>2, <2>1, <2>2, <2>3, CloseEffect DEF CloseAt
<1>3. ASSUME NEW u \in Tasks, FailedAt(u)
      PROVE  /\ responsed[t] => responsed'[t]
             /\ finished[t] => finished'[t]
             /\ UNCHANGED <<raced, late>>
  BY <1>3, FailEffect DEF FailedAt, Elsewhere
<1>4. QED
  BY <1>1, <1>2, <1>3, NextEffect
     DEF PingPut, MadeAt, ChosenAt, OutsideAt, HandedAt, AskedAt, GotAt, IdleAt, Otherwise, Elsewhere

(***************************************************************************)
(* The structure is kept.  A worker that was told to exit stays told.      *)
(***************************************************************************)
LEMMA ToldNext ==
  ASSUME Types, Structure, Next, NEW w \in Workers, Told(w)
  PROVE  Told(w)'
<1> NewInv(w)
  BY DEF Structure
<1>1. CASE WorkStep(w)
  <2>1. Told(w) /\ WorksAt(w)
    BY <1>1, WorkEffect
  <2>2. CASE TopAt(w) \/ FailAt(w) \/ AnswerAt(w) \/ BodyEndsAt(w)
    BY <2>1, <2>2 DEF TopAt, FailAt, AnswerAt, BodyEndsAt, KeepsQueue, Told
  <2>3. CASE NoneAt(w)
    BY <2>3 DEF NoneAt, Told
  <2>4. CASE PingAt(w) \/ SendAt(w) \/ GiveBackAt(w)
    <3>1. CASE work_loop'[w] = "ended"
      BY <3>1 DEF Told
    <3>2. CASE Takes(w) /\ work_loop'[w] # "none"
      BY <2>1, <2>4, <3>2, TakeFrom, Apart DEF PingAt, SendAt, GiveBackAt, Told
    <3>3. QED
      BY <2>4, <3>1, <3>2 DEF PingAt, SendAt, GiveBackAt
  <2>5. CASE CloseFailedAt(w) \/ BodyFailsAt(w) \/ BodyShortAt(w)
    <3>1. Puts(w, None) /\ work_loop'[w] # "none"
      BY <2>5 DEF CloseFailedAt, BodyFailsAt, BodyShortAt
    <3>2. QED
      BY <3>1, PutInto DEF Told, Items
  <2>6. CASE AfterAt(w)
    BY <2>1, <2>6 DEF AfterAt, KeepsQueue, Told
  <2>7. QED
    BY <2>1, <2>2, <2>3, <2>4, <2>5, <2>6 DEF WorksAt
<1>2. ASSUME KeepsQueue(w), KeepsPlace(w) \/ work_loop'[w] = "ended" PROVE Told(w)'
  BY <1>2 DEF Told, KeepsQueue, KeepsPlace
<1>3. ASSUME KeepsPlace(w), NEW x \in Items, Puts(w, x) PROVE Told(w)'
  BY <1>3, PutInto DEF Told, KeepsPlace
<1>4. ASSUME Stays(w) PROVE Told(w)'
  BY <1>2, <1>4 DEF Stays
<1>5. ASSUME NEW v \in Workers, v # w, WorkStep(v) PROVE Told(w)'
  BY <1>4, <1>5, WorkElsewhere DEF Same, Stays
<1>6. ASSUME NEW c \in Closers, CloseStep(c) PROVE Told(w)'
  <2>1. CloseAt(c)
    BY <1>6, CloseEffect
  <2>2. CASE ChecksAt(c) \/ HandsBackAt(c)
    BY <1>4, <2>2 DEF ChecksAt, HandsBackAt
  <2>3. CASE RaisesAt(c)
    BY <1>2, <1>4, <2>3 DEF RaisesAt
  <2>4. CASE LockedAt(c)
    BY <1>2, <1>4, <2>4 DEF LockedAt
  <2>5. QED
    BY <2>1, <2>2, <2>3, <2>4 DEF CloseAt
<1>7. ASSUME NEW v \in Workers, PingPut(v) \/ (\E c \in Closers : OutsideAt(c, v)) PROVE Told(w)'
  <2>1. CASE v = w
    BY <1>3, <1>7, <2>1 DEF PingPut, OutsideAt, Items
  <2>2. CASE v # w
    BY <1>4, <1>7, <2>2 DEF PingPut, OutsideAt
  <2>3. QED
    BY <2>1, <2>2
<1>8. ASSUME NEW v \in Workers, HandedAt(d_task, v) PROVE Told(w)'
  <2>1. CASE v = w
    BY <1>3, <1>8, <2>1 DEF HandedAt, Items
  <2>2. CASE v # w
    BY <1>4, <1>8, <2>2 DEF HandedAt
  <2>3. QED
    BY <2>1, <2>2
<1>9. ASSUME NEW v \in Workers, MadeAt(v) PROVE Told(w)'
  <2>1. v # w
    BY <1>9 DEF MadeAt, NewInv, Told
  <2>2. QED
    BY <1>4, <1>9, <2>1 DEF MadeAt
<1>10. ASSUME Elsewhere PROVE Told(w)'
  BY <1>4, <1>10 DEF Elsewhere
<1>11. QED
  BY <1>1, <1>5, <1>6, <1>7, <1>8, <1>9, <1>10, NextEffect DEF ChosenAt, AskedAt, FailedAt, GotAt, IdleAt

LEMMA CloserInvNext ==
  ASSUME Types, Structure, Next, NEW c \in Closers
  PROVE  CloserInv(c)'
<1> CloserInv(c)
  BY DEF Structure
<1>1. ASSUME closing'[c] = closing[c] \/ closing[c] # "no", target'[c] = target[c],
             c \in Workers /\ closing'[c] # "no" => KeepsPlace(c)
      PROVE  CloserInv(c)'
  <2>1. SUFFICES ASSUME closing'[c] # "no"
                 PROVE  /\ Told(target[c])'
                        /\ c \in Workers => target[c] = c /\ work_loop'[c] \in {"after", "end", "ended"}
    BY <1>1 DEF CloserInv
  <2>2. target[c] \in Workers /\ Told(target[c])
    BY <1>1, <2>1 DEF CloserInv, Types, CloserTypes
  <2>3. Told(target[c])'
    <3>1. PICK v \in Workers : v = target[c]
      BY <2>2
    <3>2. Told(v)'
      BY <2>2, <3>1, ToldNext
    <3>3. target'[c] = v
      BY <1>1, <3>1
    <3>4. QED
      BY <1>1, <3>1, <3>2 DEF Told
  <2>4. QED
    BY <1>1, <2>1, <2>3 DEF CloserInv, KeepsPlace
<1>2. ASSUME NEW w \in Workers, target'[c] = w, Told(w)',
             c \in Workers => w = c /\ work_loop'[c] \in {"after", "end", "ended"}
      PROVE  CloserInv(c)'
  BY <1>2 DEF CloserInv, Told
<1>3. ASSUME NEW w \in Workers, WorkStep(w) PROVE CloserInv(c)'
  <2>1. CASE c # w
    BY <1>1, <1>3, <2>1, WorkElsewhere DEF Same
  <2>2. CASE c = w
    <3>1. closing[w] = "no" /\ WorksAt(w)
      BY <1>3, WorkEffect
    <3>2. CASE KeepsClose(w)
      BY <2>2, <3>1, <3>2 DEF KeepsClose, CloserInv
    <3>3. CASE BeginsClose(w) /\ work_loop'[w] \in {"after", "end", "ended"} /\ (Puts(w, None) \/ TakesAndCloses(w))
      <4>1. Told(w)'
        BY <3>3, PutInto, TakeAndClose DEF Told, Items
      <4>2. QED
        BY <1>2, <2>2, <3>3, <4>1 DEF BeginsClose
    <3>4. QED
      BY <3>1, <3>2, <3>3 DEF WorksAt, TopAt, NoneAt, PingAt, SendAt, GiveBackAt, FailAt, CloseFailedAt,
                              AnswerAt, BodyFailsAt, BodyShortAt, BodyEndsAt, AfterAt
  <2>3. QED
    BY <2>1, <2>2
<1>4. ASSUME NEW e \in Closers, CloseStep(e) PROVE CloserInv(c)'
  <2>1. CloseAt(e)
    BY <1>4, CloseEffect
  <2>2. closing[e] # "no" /\ target' = target
    BY <2>1 DEF CloseAt, ChecksAt, RaisesAt, HandsBackAt, LockedAt
  <2>3. closing'[c] = closing[c] \/ closing[c] # "no"
    BY <2>1, <2>2 DEF CloseAt
  <2>4. ASSUME c \in Workers, closing'[c] # "no" PROVE KeepsPlace(c)
    BY <2>1, <2>4 DEF CloseAt, ChecksAt, RaisesAt, HandsBackAt, LockedAt, Stays
  <2>5. QED
    BY <1>1, <2>2, <2>3, <2>4
<1>5. ASSUME NEW e \in Closers, NEW w \in Workers, OutsideAt(e, w) PROVE CloserInv(c)'
  <2>1. CASE c # e
    BY <1>1, <1>5, <2>1 DEF OutsideAt, Stays
  <2>2. CASE c = e
    <3>1. work_loop[w] # "none"
      BY <1>5 DEF OutsideAt, Structure, NewInv
    <3>2. Told(w)'
      BY <1>5, <3>1, PutInto DEF OutsideAt, Told, KeepsPlace, Items
    <3>3. QED
      BY <1>2, <1>5, <2>2, <3>2 DEF OutsideAt
  <2>3. QED
    BY <2>1, <2>2
<1>6. ASSUME NEW w \in Workers, MadeAt(w) PROVE CloserInv(c)'
  <2>1. closing'[c] = closing[c] /\ target'[c] = target[c]
    BY <1>6 DEF MadeAt
  <2>2. ASSUME c \in Workers, closing'[c] # "no" PROVE KeepsPlace(c)
    <3>1. c # w
      BY <1>6, <2>1, <2>2 DEF MadeAt, Structure, NewInv, CloserInv
    <3>2. QED
      BY <1>6, <2>2, <3>1 DEF MadeAt, Stays
  <2>3. QED
    BY <1>1, <2>1, <2>2
<1>7. ASSUME UNCHANGED <<closing, target>>, \A w \in Workers : KeepsPlace(w) PROVE CloserInv(c)'
  BY <1>1, <1>7
<1>8. ASSUME NEW w \in Workers, PingPut(w) \/ HandedAt(d_task, w) PROVE CloserInv(c)'
  BY <1>7, <1>8 DEF PingPut, HandedAt, Stays
<1>9. ASSUME Elsewhere PROVE CloserInv(c)'
  BY <1>7, <1>9 DEF Elsewhere, Stays
<1>10. QED
  BY <1>3, <1>4, <1>5, <1>6, <1>8, <1>9, NextEffect DEF ChosenAt, AskedAt, FailedAt, GotAt, IdleAt

LEMMA ListsNext ==
  ASSUME Types, Next
  PROVE  \/ \E w \in Workers : MadeAt(w)
         \/ /\ workers' \subseteq workers
            /\ \A v \in Workers :
                  /\ v \in making' => \/ v \in making /\ sock'[v] \in {sock[v], "closed"}
                                      \/ sock[v] = "none" /\ sock'[v] # "none"
                  /\ sock'[v] = "none" => sock[v] = "none"
<1> DEFINE listed == workers' \subseteq workers
           connected == \A v \in Workers : /\ v \in making' => \/ v \in making /\ sock'[v] \in {sock[v], "closed"}
                                                               \/ sock[v] = "none" /\ sock'[v] # "none"
                                           /\ sock'[v] = "none" => sock[v] = "none"
<1> USE DEF Types, WorkerTypes, workerVars
<1>1. CASE \E w \in Workers : AppendWorker(w)
  <2>1. PICK w \in Workers : AppendWorker(w)
    BY <1>1
  <2>2. \A v \in Workers \ {w} : Stays(v)
    BY <2>1 DEF AppendWorker, makerSame, loopVars, Stays, KeepsQueue, KeepsTask, KeepsFlags, KeepsPlace
  <2>3. MadeAt(w)
    BY <2>1, <2>2 DEF AppendWorker, makerSame, MadeAt, loopVars, KeepsQueue, KeepsTask, HandsSame, Otherwise,
                      taskVars, dispatcherVars, closeVars
  <2>4. QED
    BY <2>3
<1>2. ASSUME NEW w \in Workers, SslCreated(w) PROVE listed /\ connected
  BY <1>2 DEF SslCreated
<1>3. ASSUME workers' \subseteq workers, UNCHANGED <<making, sock>> PROVE listed /\ connected
  BY <1>3
<1>4. ASSUME NEW c \in Closers, CloseStep(c) PROVE listed /\ connected
  <2>1. listed /\ making' = making
    BY <1>4 DEF CloseStep, CloseChecks, CloseUses, CloseRaises, CloseHandsBack, CloseLocked, closeSame
  <2>2. CASE sock' = sock
    BY <2>1, <2>2
  <2>3. CASE sock' = [sock EXCEPT ![target[c]] = "closed"]
    <3>1. \A v \in Workers : sock'[v] \in {sock[v], "closed"}
      BY <2>3
    <3>2. QED
      BY <2>1, <3>1
  <2>4. QED
    BY <1>4, <2>2, <2>3 DEF CloseStep, CloseChecks, CloseUses, CloseLocked
<1>5. ASSUME NEW w \in Workers, WorkStep(w) PROVE listed /\ connected
  BY <1>3, <1>5 DEF WorkStep, LoopTop, GetNone, GetPing, GetTask, RequestFails, CloseFailed, ResponseBegins, BodyFails,
         BodyShort, BodyEnds, AfterRequest, loopSame
<1>6. ASSUME NEW w \in Workers, CheckerCloses(w) \/ PutPing(w) PROVE listed /\ connected
  BY <1>3, <1>6 DEF CheckerCloses, PutPing
<1>7. ASSUME NEW t \in Tasks, Request(t) \/ Return(t) PROVE listed /\ connected
  BY <1>3, <1>7 DEF Request, Return, callerSame
<1>8. ASSUME DispatcherStep \/ DispatcherCloses PROVE listed /\ connected
  BY <1>3, <1>8 DEF DispatcherStep, DispatcherLoop, DispatcherGets, ChooseWorker, NoWorker, DispatcherExits, HandOver,
         DispatcherCloses, dispatcherSame
<1>9. ASSUME StopRunning \/ StopStep PROVE listed /\ connected
  BY <1>3, <1>9 DEF StopRunning, StopStep, StopPuts, StopCloses, StopReturns, stopSame
<1>10. ASSUME Quiet PROVE listed /\ connected
  BY <1>3, <1>10 DEF Quiet, vars
<1>11. QED
  BY <1>1, <1>2, <1>4, <1>5, <1>6, <1>7, <1>8, <1>9, <1>10 DEF Next

(***************************************************************************)
(* A connection without a worker is left alone until it is made one.       *)
(***************************************************************************)
LEMMA UnmadeStays ==
  ASSUME Types, Structure, Next, NEW v \in Workers
  PROVE  /\ work_loop[v] = "none" => Stays(v) \/ MadeAt(v)
         /\ work_loop[v] # "none" => work_loop'[v] # "none"
<1> /\ NewInv(v)
    /\ \A c \in Closers : CloserInv(c)
  BY DEF Structure
<1>1. ASSUME Stays(v) PROVE work_loop[v] # "none" => work_loop'[v] # "none"
  BY <1>1 DEF Stays, KeepsPlace
<1>2. ASSUME NEW w \in Workers, WorkStep(w)
      PROVE  /\ work_loop[v] = "none" => Stays(v)
             /\ work_loop[v] # "none" => work_loop'[v] # "none"
  <2>1. CASE v = w
    BY <1>2, <2>1, WorkEffect DEF WorksAt, TopAt, NoneAt, PingAt, SendAt, GiveBackAt, FailAt, CloseFailedAt,
                                  AnswerAt, BodyFailsAt, BodyShortAt, BodyEndsAt, AfterAt
  <2>2. CASE v # w
    BY <1>1, <1>2, <2>2, WorkElsewhere DEF Same, Stays
  <2>3. QED
    BY <2>1, <2>2
<1>3. ASSUME NEW c \in Closers, CloseStep(c)
      PROVE  /\ work_loop[v] = "none" => Stays(v)
             /\ work_loop[v] # "none" => work_loop'[v] # "none"
  <2>1. CloseAt(c) /\ CloserInv(c) /\ closing[c] # "no"
    BY <1>3, CloseEffect DEF CloseAt, ChecksAt, RaisesAt, HandsBackAt, LockedAt
  <2>2. CASE ChecksAt(c) \/ HandsBackAt(c)
    BY <1>1, <2>2 DEF ChecksAt, HandsBackAt
  <2>3. CASE RaisesAt(c)
    BY <1>1, <2>1, <2>3 DEF RaisesAt, CloserInv
  <2>4. CASE LockedAt(c)
    BY <1>1, <2>1, <2>4 DEF LockedAt, CloserInv, Told, KeepsPlace
  <2>5. QED
    BY <2>1, <2>2, <2>3, <2>4 DEF CloseAt
<1>4. ASSUME NEW w \in Workers, PingPut(w) \/ (\E c \in Closers : OutsideAt(c, w)) \/ HandedAt(d_task, w)
      PROVE  /\ work_loop[v] = "none" => Stays(v)
             /\ work_loop[v] # "none" => work_loop'[v] # "none"
  <2>1. CASE v = w
    BY <1>4, <2>1 DEF PingPut, OutsideAt, HandedAt, NewInv, KeepsPlace
  <2>2. CASE v # w
    BY <1>1, <1>4, <2>2 DEF PingPut, OutsideAt, HandedAt
  <2>3. QED
    BY <2>1, <2>2
<1>5. ASSUME NEW w \in Workers, MadeAt(w)
      PROVE  /\ work_loop[v] = "none" => Stays(v) \/ MadeAt(v)
             /\ work_loop[v] # "none" => work_loop'[v] # "none"
  BY <1>1, <1>5 DEF MadeAt
<1>6. ASSUME Elsewhere
      PROVE  /\ work_loop[v] = "none" => Stays(v)
             /\ work_loop[v] # "none" => work_loop'[v] # "none"
  BY <1>1, <1>6 DEF Elsewhere
<1>7. QED
  BY <1>2, <1>3, <1>4, <1>5, <1>6, NextEffect DEF ChosenAt, AskedAt, FailedAt, GotAt, IdleAt

LEMMA NewInvNext ==
  ASSUME Types, Structure, Next, NEW v \in Workers
  PROVE  NewInv(v)'
<1> NewInv(v)
  BY DEF Structure
<1>1. work_loop'[v] = "none" => Stays(v) /\ work_loop[v] = "none"
  BY UnmadeStays DEF MadeAt
<1>2. work_loop'[v] = "none" => /\ None \notin Range(task_queue'[v]) /\ Empty(v)'
                                /\ worker_task'[v] = None /\ ~accept_task'[v]
  BY <1>1 DEF NewInv, Stays, KeepsQueue, KeepsTask, KeepsFlags, Empty
<1>3. d_worker' = v => work_loop'[v] # "none"
  <2>1. \/ d_worker' = d_worker
        \/ d_worker' = None
        \/ \E w \in Workers : d_worker' = w /\ w \in workers
    BY NextEffect, WorkElsewhere, CloseEffect
       DEF CloseAt, ChecksAt, RaisesAt, HandsBackAt, LockedAt, PingPut, MadeAt, ChosenAt, OutsideAt, HandedAt,
           AskedAt, FailedAt, GotAt, IdleAt, HandsSame
  <2>2. QED
    BY <2>1, UnmadeStays, Apart DEF NewInv
<1>4. /\ v \in workers' => work_loop'[v] # "none"
      /\ v \in making' => work_loop'[v] = "none" /\ sock'[v] # "none"
      /\ sock'[v] = "none" => work_loop'[v] = "none"
  <2>1. CASE MadeAt(v)
    BY <2>1 DEF MadeAt, NewInv
  <2>2. CASE ~MadeAt(v)
    <3>1. work_loop[v] = "none" => Stays(v) /\ work_loop'[v] = "none"
      BY <2>2, UnmadeStays DEF Stays, KeepsPlace
    <3>2. CASE \E w \in Workers : MadeAt(w)
      BY <1>1, <2>2, <3>1, <3>2 DEF NewInv, MadeAt
    <3>3. CASE ~ \E w \in Workers : MadeAt(w)
      BY <1>1, <3>1, <3>3, ListsNext DEF NewInv
    <3>4. QED
      BY <3>2, <3>3
  <2>3. QED
    BY <2>1, <2>2
<1>5. QED
  BY <1>2, <1>3, <1>4 DEF NewInv, Empty

LEMMA WorkInvStays ==
  ASSUME Types, Structure, Next, NEW v \in Workers, Stays(v), closing'[v] = closing[v],
         d_worker' = v => d_worker = v \/ accept_task[v]
  PROVE  WorkInv(v)'
<1>1. WorkInv(v) /\ (work_loop[v] \in {"body", "end"} => doing[v] \in Tasks)
  BY Doing DEF Structure
<1>2. work_loop[v] \in {"body", "end"} => responsed'[doing[v]]
  BY <1>1, NothingUndone DEF WorkInv
<1>3. QED
  BY <1>1, <1>2 DEF WorkInv, Stays, KeepsQueue, KeepsTask, KeepsFlags, KeepsPlace, Occupied, Empty

LEMMA WorkInvWorks ==
  ASSUME Types, Structure, Next, NEW w \in Workers, WorkStep(w)
  PROVE  WorkInv(w)'
<1> USE Apart DEF KeepsQueue, KeepsTask, KeepsFlags, KeepsClose
<1>0. /\ WorkInv(w) /\ NewInv(w) /\ closing[w] = "no" /\ WorksAt(w)
      /\ d_worker' = d_worker
      /\ doing[w] # None => doing[w] \in Tasks
      /\ \A t \in Tasks : responsed[t] => responsed'[t]
  BY WorkEffect, WorkElsewhere, NothingUndone DEF Structure, Types, WorkerTypes
<1>1. CASE TopAt(w)
  BY <1>0, <1>1 DEF TopAt, WorkInv, Occupied, Empty
<1>2. CASE NoneAt(w)
  BY <1>0, <1>2, TakeFrom DEF NoneAt, WorkInv, Occupied, Empty
<1>3. CASE PingAt(w)
  <2>1. CASE Takes(w) /\ work_loop'[w] = "loop"
    BY <1>0, <1>3, <2>1, TakeFrom DEF PingAt, WorkInv, Occupied, Empty
  <2>2. CASE TakesAndCloses(w) /\ work_loop'[w] = "ended"
    BY <1>0, <1>3, <2>2, TakeAndClose DEF PingAt, WorkInv, Occupied, Empty
  <2>3. QED
    BY <1>3, <2>1, <2>2 DEF PingAt
<1>4. CASE SendAt(w)
  <2>1. Takes(w) /\ OneTask(task_queue[w]) /\ Head(task_queue[w]) \in Tasks
    BY <1>0, <1>4 DEF SendAt, WorkInv
  <2>2. Head(task_queue[w]) \in Range(task_queue[w]) /\ Empty(w)'
    BY <2>1, TakeFrom
  <2>3. ~accept_task[w] /\ d_worker # w /\ worker_task[w] \in {Head(task_queue[w]), None}
    BY <1>0, <2>1, <2>2 DEF WorkInv, Empty
  <2>4. None \in Range(task_queue[w]) => None \in Range(task_queue'[w])
    BY <2>1, TakeFrom
  <2>5. OneTask(task_queue'[w])
    BY <2>1, TakeFrom
  <2>6. QED
    BY <1>0, <1>4, <2>1, <2>2, <2>3, <2>4, <2>5 DEF SendAt, WorkInv, Empty, Occupied
<1>5. CASE GiveBackAt(w)
  <2>1. TakesAndCloses(w) /\ OneTask(task_queue[w]) /\ Head(task_queue[w]) \in Tasks
    BY <1>0, <1>5 DEF GiveBackAt, WorkInv
  <2>2. Head(task_queue[w]) \in Range(task_queue[w]) /\ Empty(w)' /\ OneTask(task_queue'[w])
    BY <2>1, TakeAndClose
  <2>3. ~accept_task[w] /\ d_worker # w
    BY <1>0, <2>1, <2>2 DEF WorkInv, Empty
  <2>4. QED
    BY <1>0, <1>5, <2>1, <2>2, <2>3 DEF GiveBackAt, WorkInv, Empty, Occupied
<1>6. CASE FailAt(w)
  BY <1>0, <1>6 DEF FailAt, WorkInv, Occupied, Empty
<1>7. CASE CloseFailedAt(w)
  BY <1>0, <1>7, PutInto DEF CloseFailedAt, WorkInv, Occupied, Empty, BeginsClose, Items
<1>8. CASE AnswerAt(w)
  BY <1>0, <1>8, AnswerEffect DEF AnswerAt, WorkInv, Occupied, Empty
<1>9. CASE BodyFailsAt(w)
  BY <1>0, <1>9, PutInto DEF BodyFailsAt, WorkInv, Occupied, Empty, BeginsClose, Items
<1>10. CASE BodyShortAt(w)
  BY <1>0, <1>10, PutInto DEF BodyShortAt, WorkInv, Occupied, Empty, BeginsClose, Items
<1>11. CASE BodyEndsAt(w)
  BY <1>0, <1>11 DEF BodyEndsAt, WorkInv, Occupied, Empty
<1>12. CASE AfterAt(w)
  <2>1. CASE KeepsQueue(w) /\ work_loop'[w] = "loop"
    BY <1>0, <1>12, <2>1 DEF AfterAt, WorkInv, Occupied, Empty
  <2>2. CASE Puts(w, None) /\ work_loop'[w] = "ended"
    BY <1>0, <1>12, <2>2, PutInto DEF AfterAt, WorkInv, Occupied, Empty, Items
  <2>3. QED
    BY <1>12, <2>1, <2>2 DEF AfterAt
<1>13. QED
  BY <1>0, <1>1, <1>2, <1>3, <1>4, <1>5, <1>6, <1>7, <1>8, <1>9, <1>10, <1>11, <1>12 DEF WorksAt

LEMMA WorkInvCloses ==
  ASSUME Types, Structure, Next, NEW c \in Closers, CloseStep(c), NEW v \in Workers
  PROVE  WorkInv(v)'
<1> USE Apart
<1>0. CloseAt(c) /\ CloserInv(c) /\ closing[c] # "no" /\ WorkInv(v) /\ NewInv(v)
  BY CloseEffect DEF CloseAt, ChecksAt, RaisesAt, HandsBackAt, LockedAt, Structure
<1>1. \A t \in Tasks : responsed[t] => responsed'[t]
  BY NothingUndone
<1>2. doing[v] # None => doing[v] \in Tasks
  BY DEF Types, WorkerTypes
<1>3. v # c => closing'[v] = closing[v]
  BY <1>0 DEF CloseAt
<1>4. v = c => work_loop[v] \in {"after", "end", "ended"}
  BY <1>0 DEF CloserInv
<1>5. CASE ChecksAt(c) \/ HandsBackAt(c)
  <2>1. Stays(v) /\ d_worker' = d_worker
    BY <1>5 DEF ChecksAt, HandsBackAt, HandsSame
  <2>2. closing'[c] # "no"
    BY <1>5 DEF ChecksAt, HandsBackAt
  <2>3. Occupied(v)' <=> Occupied(v)
    BY <1>0, <1>3, <2>1, <2>2 DEF Occupied, Stays, KeepsPlace
  <2>4. QED
    BY <1>0, <1>1, <1>2, <2>1, <2>3 DEF WorkInv, Stays, KeepsQueue, KeepsTask, KeepsFlags, KeepsPlace, Empty
<1>6. CASE RaisesAt(c)
  <2>1. d_worker' = d_worker
    BY <1>6 DEF RaisesAt
  <2>2. CASE v # c
    BY <1>3, <1>6, <2>1, <2>2, WorkInvStays DEF RaisesAt
  <2>3. CASE v = c
    <3>1. /\ KeepsQueue(v) /\ KeepsFlags(v) /\ worker_task'[v] = worker_task[v]
          /\ work_loop'[v] = "ended" /\ doing'[v] = None
      BY <1>6, <2>3 DEF RaisesAt
    <3>2. QED
      BY <1>0, <2>1, <3>1 DEF WorkInv, KeepsQueue, KeepsFlags, Empty, Occupied
  <2>4. QED
    BY <2>2, <2>3
<1>7. CASE LockedAt(c)
  <2>1. d_worker' = d_worker
    BY <1>7 DEF LockedAt, HandsSame
  <2>2. CASE v # target[c]
    <3>1. v # c
      BY <1>0, <2>2 DEF CloserInv
    <3>2. QED
      BY <1>3, <1>7, <2>1, <2>2, <3>1, WorkInvStays DEF LockedAt
  <2>3. CASE v = target[c]
    <3>1. /\ KeepsQueue(v) /\ KeepsPlace(v) /\ doing'[v] = doing[v]
          /\ worker_task'[v] \in {worker_task[v], None}
          /\ keep_running'[v] = FALSE
          /\ accept_task'[v] => accept_task[v]
      BY <1>7, <2>3 DEF LockedAt
    <3>2. Told(v)
      BY <1>0, <2>3 DEF CloserInv
    <3>3. Occupied(v)' => Occupied(v)
      BY <1>0, <1>3, <1>7, <3>1 DEF Occupied, KeepsPlace, LockedAt
    <3>4. QED
      BY <1>0, <1>1, <1>2, <2>1, <3>1, <3>2, <3>3 DEF WorkInv, KeepsQueue, KeepsPlace, Empty, Told
  <2>4. QED
    BY <2>2, <2>3
<1>8. QED
  BY <1>0, <1>5, <1>6, <1>7 DEF CloseAt

LEMMA WorkInvNext ==
  ASSUME Types, Structure, Next, NEW v \in Workers
  PROVE  WorkInv(v)'
<1> USE Apart
<1>0. WorkInv(v) /\ NewInv(v)
  BY DEF Structure
<1>1. ASSUME NEW w \in Workers, WorkStep(w) PROVE WorkInv(v)'
  <2>1. CASE v # w
    BY <1>1, <2>1, WorkElsewhere, WorkInvStays DEF Same, Stays, KeepsClose
  <2>2. CASE v = w
    BY <1>1, <2>2, WorkInvWorks
  <2>3. QED
    BY <2>1, <2>2
<1>2. ASSUME NEW x \in Items \ Tasks, Puts(v, x), KeepsTask(v), KeepsFlags(v), KeepsPlace(v),
             closing'[v] = closing[v], d_worker' = d_worker
      PROVE  WorkInv(v)'
  <2>1. /\ \A t \in Tasks : responsed[t] => responsed'[t]
        /\ doing[v] # None => doing[v] \in Tasks
    BY NothingUndone DEF Types, WorkerTypes
  <2>2. /\ OneTask(task_queue'[v])
        /\ \A y : y \in Range(task_queue'[v]) <=> y \in Range(task_queue[v]) \/ y = x
    BY <1>0, <1>2, PutInto DEF WorkInv
  <2>3. QED
    BY <1>0, <1>2, <2>1, <2>2 DEF WorkInv, KeepsTask, KeepsFlags, KeepsPlace, Empty, Occupied
<1>3. ASSUME NEW w \in Workers, NEW c \in Closers, OutsideAt(c, w) PROVE WorkInv(v)'
  <2>1. closing'[v] = closing[v] /\ d_worker' = d_worker
    BY <1>3 DEF OutsideAt, HandsSame
  <2>2. CASE v = w
    BY <1>2, <1>3, <2>1, <2>2 DEF OutsideAt, Items
  <2>3. CASE v # w
    BY <1>3, <2>1, <2>3, WorkInvStays DEF OutsideAt
  <2>4. QED
    BY <2>2, <2>3
<1>4. ASSUME NEW w \in Workers, PingPut(w) PROVE WorkInv(v)'
  <2>1. closing'[v] = closing[v] /\ d_worker' = d_worker
    BY <1>4 DEF PingPut, HandsSame
  <2>2. CASE v = w
    BY <1>2, <1>4, <2>1, <2>2 DEF PingPut, Items
  <2>3. CASE v # w
    BY <1>4, <2>1, <2>3, WorkInvStays DEF PingPut
  <2>4. QED
    BY <2>2, <2>3
<1>5. ASSUME NEW w \in Workers, MadeAt(w) PROVE WorkInv(v)'
  <2>1. closing'[v] = closing[v] /\ d_worker' = d_worker
    BY <1>5 DEF MadeAt, HandsSame
  <2>2. CASE v = w
    <3>1. /\ work_loop[v] = "none" /\ work_loop'[v] = "loop" /\ KeepsQueue(v) /\ KeepsTask(v)
          /\ keep_running'[v] = TRUE
      BY <1>0, <1>5, <2>2 DEF MadeAt, NewInv
    <3>2. QED
      BY <1>0, <2>1, <3>1 DEF WorkInv, NewInv, KeepsQueue, KeepsTask, Empty, Occupied
  <2>3. CASE v # w
    BY <1>5, <2>1, <2>3, WorkInvStays DEF MadeAt
  <2>4. QED
    BY <2>2, <2>3
<1>6. ASSUME NEW w \in Workers, HandedAt(d_task, w) PROVE WorkInv(v)'
  <2>1. closing'[v] = closing[v] /\ d_worker' = None /\ d_worker = w /\ d_task \in Tasks
    BY <1>6 DEF HandedAt
  <2>2. CASE v = w
    <3>1. Empty(v) /\ worker_task[v] = None /\ ~Occupied(v)
      BY <1>0, <2>1, <2>2 DEF WorkInv
    <3>2. /\ Puts(v, d_task) /\ doing'[v] = doing[v] /\ worker_task'[v] = d_task /\ KeepsPlace(v)
          /\ accept_task'[v] = FALSE /\ keep_running'[v] = keep_running[v]
      BY <1>6, <2>2 DEF HandedAt
    <3>3. /\ OneTask(task_queue'[v])
          /\ \A y : y \in Range(task_queue'[v]) <=> y \in Range(task_queue[v]) \/ y = d_task
      BY <1>0, <2>1, <3>1, <3>2, PutInto DEF WorkInv, Items
    <3>4. doing[v] = None /\ ~Occupied(v)'
      BY <1>0, <2>1, <3>1, <3>2 DEF WorkInv, Occupied, KeepsPlace
    <3>5. QED
      BY <1>0, <2>1, <3>1, <3>2, <3>3, <3>4 DEF WorkInv, KeepsPlace, Empty, Occupied
  <2>3. CASE v # w
    BY <1>6, <2>1, <2>3, WorkInvStays DEF HandedAt
  <2>4. QED
    BY <2>2, <2>3
<1>7. ASSUME Elsewhere, d_worker' = v => d_worker = v \/ accept_task[v] PROVE WorkInv(v)'
  BY <1>7, WorkInvStays DEF Elsewhere
<1>8. ASSUME Elsewhere, d_worker' = d_worker PROVE WorkInv(v)'
  BY <1>7, <1>8
<1>9. ASSUME NEW w \in Workers, ChosenAt(w) PROVE WorkInv(v)'
  BY <1>7, <1>9 DEF ChosenAt
<1>10. QED
  BY <1>1, <1>3, <1>4, <1>5, <1>6, <1>8, <1>9, WorkInvCloses, NextEffect DEF AskedAt, FailedAt, GotAt, IdleAt, HandsSame

LEMMA StructureNext ==
  ASSUME Types, Structure, Next
  PROVE  Structure'
<1>1. ASSUME NEW c \in Closers PROVE CloserInv(c)'
  BY CloserInvNext
<1>2. ASSUME NEW w \in Workers PROVE NewInv(w)' /\ WorkInv(w)'
  BY NewInvNext, WorkInvNext
<1>3. QED
  BY <1>1, <1>2 DEF Structure

-----------------------------------------------------------------------------
(* Where a task is kept *)

\* A close has handed the worker's task back, and is about to clear it.
Clears(w) == \E c \in Closers : target[c] = w /\ closing[c] = "clear"

\* The worker's task is t, and what becomes of it is not decided.
Kept(t, w) == worker_task[w] = t /\ work_loop[w] # "failed" /\ ~Clears(w)

Queued(t, w) == t \in Range(task_queue[w]) /\ work_loop[w] # "ended"

LEMMA ClearsSame ==
  ASSUME UNCHANGED <<closing, target>>, NEW v
  PROVE  Clears(v)' <=> Clears(v)
BY DEF Clears

LEMMA ClearsBut ==
  ASSUME NEW c \in Closers, NEW v,
         \A e \in Closers \ {c} : closing'[e] = closing[e] /\ target'[e] = target[e],
         closing[c] # "clear" \/ target[c] # v, closing'[c] # "clear" \/ target'[c] # v
  PROVE  Clears(v)' <=> Clears(v)
BY DEF Clears

LEMMA ClearsWork ==
  ASSUME Types, NEW w \in Workers, WorkStep(w), NEW v
  PROVE  Clears(v)' <=> Clears(v)
<1>1. closing[w] = "no" /\ WorksAt(w) /\ w \in Closers
  BY WorkEffect, Apart
<1>2. closing'[w] \in {"no", "check"}
  BY <1>1 DEF WorksAt, TopAt, NoneAt, PingAt, SendAt, GiveBackAt, FailAt, CloseFailedAt,
              AnswerAt, BodyFailsAt, BodyShortAt, BodyEndsAt, AfterAt, KeepsClose, BeginsClose
<1>3. \A e \in Closers \ {w} : closing'[e] = closing[e] /\ target'[e] = target[e]
  BY WorkElsewhere
<1>4. QED
  BY <1>1, <1>2, <1>3, ClearsBut

LEMMA ClearsOutside ==
  ASSUME NEW c \in Closers, NEW w, OutsideAt(c, w), NEW v
  PROVE  Clears(v)' <=> Clears(v)
<1>1. /\ closing[c] = "no" /\ closing'[c] = "check"
      /\ \A e \in Closers \ {c} : closing'[e] = closing[e] /\ target'[e] = target[e]
  BY DEF OutsideAt
<1>2. QED
  BY <1>1, ClearsBut

LEMMA ClearsClose ==
  ASSUME NEW c \in Closers, CloseAt(c), NEW v, v # target[c] \/ ChecksAt(c) \/ RaisesAt(c) \/ closing[c] = "lock"
  PROVE  Clears(v)' <=> Clears(v)
<1>1. /\ target' = target
      /\ \A e \in Closers \ {c} : closing'[e] = closing[e] /\ target'[e] = target[e]
  BY DEF CloseAt
<1>2. CASE v # target[c]
  BY <1>1, <1>2, ClearsBut
<1>3. CASE ChecksAt(c) \/ RaisesAt(c) \/ closing[c] = "lock"
  <2>1. closing[c] # "clear" /\ closing'[c] # "clear"
    BY <1>3 DEF CloseAt, ChecksAt, RaisesAt, HandsBackAt, LockedAt
  <2>2. QED
    BY <1>1, <2>1, ClearsBut
<1>4. QED
  BY <1>2, <1>3

-----------------------------------------------------------------------------
(***************************************************************************)
(* A task that was not answered, and not handed over too late, is in the   *)
(* dispatcher's queue or hands, in a worker's hands, or kept by a worker   *)
(* that will take it from its queue or give it back.  A worker with such a *)
(* task is not told to exit before it takes it.                            *)
(***************************************************************************)
Pending(t) == caller[t] # "out" /\ ~responsed[t] /\ t \notin late

HeldBy(t, w) == doing[w] = t \/ (Kept(t, w) /\ (Queued(t, w) \/ InClose(t, w)))

Held(t) ==
    \/ t \in Range(request_queue) \/ d_task = t
    \/ \E w \in Workers : HeldBy(t, w)

InTime(w) ==
    \A t \in Tasks \ late : t \in Range(task_queue[w]) =>
        /\ First(task_queue[w], t)
        /\ work_loop[w] # "ended" /\ Kept(t, w) =>
              keep_running[w] /\ \A c \in Closers : target[c] = w => closing[c] # "lock"

HeldInv ==
    /\ \A t \in Tasks : Pending(t) => Held(t)
    /\ \A w \in Workers : InTime(w)

LEMMA HeldInit == Init => HeldInv
<1> SUFFICES ASSUME Init PROVE HeldInv
  OBVIOUS
<1>1. \A t \in Tasks : ~Pending(t)
  BY DEF Init, Pending
<1>2. \A w \in Workers : InTime(w)
  BY EmptyQueue DEF Init, InTime
<1>3. QED
  BY <1>1, <1>2 DEF HeldInv

(***************************************************************************)
(* A worker that is not touched, or only told something, keeps its task.   *)
(***************************************************************************)
LEMMA HeldByStays ==
  ASSUME NEW t \in Tasks, NEW w \in Workers, HeldBy(t, w),
         KeepsTask(w), KeepsPlace(w), Clears(w)' <=> Clears(w),
         t \in Range(task_queue[w]) => t \in Range(task_queue'[w]),
         \A c \in Closers : target[c] = w /\ closing[c] \in {"check", "use"} =>
                               target'[c] = w /\ closing'[c] \in {"check", "use"}
  PROVE  HeldBy(t, w)'
<1>1. /\ doing'[w] = doing[w] /\ worker_task'[w] = worker_task[w] /\ work_loop'[w] = work_loop[w]
  BY DEF KeepsTask, KeepsPlace
<1>2. CASE doing[w] = t
  BY <1>1, <1>2 DEF HeldBy
<1>3. CASE Kept(t, w) /\ (Queued(t, w) \/ InClose(t, w))
  <2>1. Kept(t, w)'
    BY <1>1, <1>3 DEF Kept
  <2>2. Queued(t, w) => Queued(t, w)'
    BY <1>1 DEF Queued
  <2>3. InClose(t, w) => InClose(t, w)'
    BY <1>1 DEF InClose
  <2>4. QED
    BY <1>3, <2>1, <2>2, <2>3 DEF HeldBy
<1>4. QED
  BY <1>2, <1>3 DEF HeldBy

LEMMA HeldByWorks ==
  ASSUME Types, Structure, HeldInv, Next, NEW w \in Workers, WorkStep(w),
         NEW t \in Tasks, Pending(t), Pending(t)', HeldBy(t, w)
  PROVE  HeldBy(t, w)' \/ t \in Range(request_queue')
<1> USE Apart
<1>0. /\ WorkInv(w) /\ InTime(w) /\ closing[w] = "no" /\ WorksAt(w) /\ w \in Closers
      /\ task_queue[w] \in Seq(Items)
      /\ Clears(w)' <=> Clears(w)
      /\ request_queue \in Seq(Tasks \cup {None})
      /\ t # None /\ t # Ping
  BY WorkEffect, ClearsWork DEF Structure, HeldInv, Types, WorkerTypes, TaskTypes
<1>1. CASE doing[w] = t
  <2>1. CASE KeepsTask(w)
    BY <1>1, <2>1 DEF HeldBy, KeepsTask
  <2>2. work_loop[w] = "road"
    BY <1>0, <1>1 DEF WorkInv, Pending
  <2>3. CASE FailAt(w)
    <3>1. RetryTask(t) /\ ~responsed'[t]
      BY <1>1, <2>3 DEF FailAt, Pending
    <3>2. request_queue' = Append(request_queue, t)
      BY <3>1, RetryEffect
    <3>3. QED
      BY <1>0, <3>2, AppendQueue
  <2>4. QED
    BY <1>0, <2>1, <2>2, <2>3 DEF WorksAt, TopAt, NoneAt, PingAt, SendAt, GiveBackAt, CloseFailedAt,
                                  AnswerAt, BodyFailsAt, BodyShortAt, BodyEndsAt, AfterAt
<1>2. ASSUME BeginsClose(w), worker_task'[w] = t, work_loop'[w] # "failed", Kept(t, w) PROVE HeldBy(t, w)'
  <2>1. InClose(t, w)'
    BY <1>0, <1>2 DEF InClose, BeginsClose
  <2>2. Kept(t, w)'
    BY <1>0, <1>2 DEF Kept
  <2>3. QED
    BY <2>1, <2>2 DEF HeldBy
<1>3. CASE Kept(t, w) /\ Queued(t, w)
  <2>1. /\ ~Occupied(w) /\ First(task_queue[w], t) /\ keep_running[w] /\ worker_task[w] = t
        /\ t \in Range(task_queue[w])
    BY <1>0, <1>3 DEF WorkInv, Empty, Queued, InTime, Kept, Pending
  <2>2. ASSUME KeepsTask(w), work_loop'[w] \notin {"ended", "failed"}, t \in Range(task_queue'[w]) PROVE HeldBy(t, w)'
    BY <1>0, <1>3, <2>2 DEF HeldBy, Kept, Queued, KeepsTask
  <2>3. CASE TopAt(w)
    BY <2>1, <2>2, <2>3 DEF TopAt, KeepsQueue
  <2>4. CASE NoneAt(w)
    BY <1>0, <2>1, <2>4, TakeFrom DEF NoneAt
  <2>5. CASE PingAt(w)
    <3>1. CASE Takes(w) /\ work_loop'[w] = "loop"
      BY <1>0, <2>1, <2>2, <2>5, <3>1, TakeFrom DEF PingAt
    <3>2. CASE BeginsClose(w) /\ work_loop'[w] = "ended"
      BY <1>2, <1>3, <2>1, <2>5, <3>2 DEF PingAt, KeepsTask
    <3>3. QED
      BY <2>5, <3>1, <3>2 DEF PingAt
  <2>6. CASE SendAt(w) \/ GiveBackAt(w)
    <3>1. Head(task_queue[w]) \in Range(task_queue[w]) /\ Head(task_queue[w]) \in Tasks
      BY <2>6, TakeFrom, TakeAndClose DEF SendAt, GiveBackAt
    <3>2. Head(task_queue[w]) = t
      BY <1>0, <2>1, <3>1, OneOfTasks DEF WorkInv
    <3>3. CASE SendAt(w)
      BY <3>2, <3>3 DEF SendAt, HeldBy
    <3>4. CASE GiveBackAt(w)
      BY <1>2, <1>3, <3>2, <3>4 DEF GiveBackAt
    <3>5. QED
      BY <2>6, <3>3, <3>4
  <2>7. CASE AfterAt(w)
    <3>1. CASE work_loop'[w] = "loop" /\ KeepsQueue(w)
      BY <2>1, <2>2, <2>7, <3>1 DEF AfterAt, KeepsQueue
    <3>2. CASE work_loop'[w] = "ended" /\ BeginsClose(w)
      BY <1>2, <1>3, <2>1, <2>7, <3>2 DEF AfterAt, KeepsTask
    <3>3. QED
      BY <2>7, <3>1, <3>2 DEF AfterAt
  <2>8. QED
    BY <1>0, <2>1, <2>3, <2>4, <2>5, <2>6, <2>7 DEF WorksAt, Occupied, FailAt, CloseFailedAt,
                                  AnswerAt, BodyFailsAt, BodyShortAt, BodyEndsAt
<1>4. CASE Kept(t, w) /\ InClose(t, w)
  <2>1. PICK c \in Closers : target[c] = w /\ closing[c] \in {"check", "use"}
    BY <1>4 DEF InClose
  <2>2. target'[c] = w /\ closing'[c] \in {"check", "use"}
    BY <1>0, <2>1, WorkElsewhere
  <2>3. worker_task[w] = t /\ work_loop[w] # "failed"
    BY <1>4 DEF Kept
  <2>4. CASE worker_task'[w] = t /\ work_loop'[w] # "failed"
    BY <1>0, <1>4, <2>2, <2>4 DEF HeldBy, Kept, InClose
  <2>5. CASE FailAt(w) \/ BodyEndsAt(w)
    <3>1. doing[w] = t
      BY <1>0, <2>3, <2>5 DEF FailAt, BodyEndsAt, WorkInv
    <3>2. QED
      BY <1>1, <3>1
  <2>6. CASE GiveBackAt(w)
    <3>1. Head(task_queue[w]) \in Range(task_queue[w]) /\ Head(task_queue[w]) \in Tasks
      BY <2>6, TakeAndClose DEF GiveBackAt
    <3>2. Head(task_queue[w]) = t
      BY <1>0, <2>3, <3>1 DEF WorkInv
    <3>3. QED
      BY <2>4, <2>6, <3>2 DEF GiveBackAt
  <2>7. QED
    BY <1>0, <2>3, <2>4, <2>5, <2>6 DEF WorksAt, TopAt, NoneAt, PingAt, SendAt, CloseFailedAt,
                                  AnswerAt, BodyFailsAt, BodyShortAt, AfterAt, KeepsTask
<1>5. QED
  BY <1>1, <1>3, <1>4 DEF HeldBy

LEMMA HeldByCloses ==
  ASSUME Types, Structure, HeldInv, Next, NEW c \in Closers, CloseStep(c), NEW w \in Workers,
         NEW t \in Tasks, Pending(t), Pending(t)', HeldBy(t, w)
  PROVE  HeldBy(t, w)' \/ t \in Range(request_queue')
<1> USE Apart
<1>0. /\ CloseAt(c) /\ WorkInv(w) /\ CloserInv(c) /\ target[c] \in Workers /\ target' = target
      /\ \A e \in Closers \ {c} : closing'[e] = closing[e]
      /\ closing[c] # "no"
      /\ request_queue \in Seq(Tasks \cup {None})
      /\ t # None
  BY CloseEffect DEF Structure, CloseAt, ChecksAt, RaisesAt, HandsBackAt, LockedAt, Types, TaskTypes
<1>1. ASSUME Stays(w), Clears(w)' <=> Clears(w),
             target[c] = w /\ closing[c] \in {"check", "use"} => closing'[c] \in {"check", "use"}
      PROVE  HeldBy(t, w)'
  <2>1. \A e \in Closers : target[e] = w /\ closing[e] \in {"check", "use"} =>
                               target'[e] = w /\ closing'[e] \in {"check", "use"}
    BY <1>0, <1>1
  <2>2. KeepsTask(w) /\ KeepsPlace(w) /\ (t \in Range(task_queue[w]) => t \in Range(task_queue'[w]))
    BY <1>1 DEF Stays, KeepsQueue
  <2>3. QED
    BY <1>1, <2>1, <2>2, HeldByStays
<1>2. ASSUME doing'[w] = doing[w], doing[w] = t PROVE HeldBy(t, w)'
  BY <1>2 DEF HeldBy
<1>3. CASE target[c] # w
  <2>1. Clears(w)' <=> Clears(w)
    BY <1>0, <1>3, ClearsClose
  <2>2. CASE Stays(w)
    BY <1>1, <1>3, <2>1, <2>2
  <2>3. c # w
    BY <1>0, <1>3 DEF CloserInv
  <2>4. QED
    BY <1>0, <1>3, <2>2, <2>3 DEF CloseAt, ChecksAt, RaisesAt, HandsBackAt, LockedAt
<1>4. CASE target[c] = w
  <2>1. CASE ChecksAt(c)
    <3>1. CASE doing[w] = t
      BY <1>2, <2>1, <3>1 DEF ChecksAt, Stays, KeepsTask
    <3>2. CASE worker_task[w] = t
      <4>1. closing'[c] = "use"
        BY <1>4, <2>1, <3>2 DEF ChecksAt
      <4>2. QED
        BY <1>0, <1>1, <2>1, <4>1, ClearsClose DEF ChecksAt
    <3>3. QED
      BY <3>1, <3>2 DEF HeldBy, Kept
  <2>2. CASE RaisesAt(c)
    <3>1. doing[w] = t
      BY <1>4, <2>2 DEF RaisesAt, HeldBy, Kept
    <3>2. w # c
      BY <1>0, <3>1 DEF CloserInv, WorkInv, Pending
    <3>3. QED
      BY <1>2, <2>2, <3>1, <3>2 DEF RaisesAt, Stays, KeepsTask
  <2>3. CASE HandsBackAt(c)
    <3>1. CASE doing[w] = t
      BY <1>2, <2>3, <3>1 DEF HandsBackAt, Stays, KeepsTask
    <3>2. CASE worker_task[w] = t
      <4>1. RetryTask(t) /\ ~responsed'[t]
        BY <1>4, <2>3, <3>2 DEF HandsBackAt, Pending
      <4>2. request_queue' = Append(request_queue, t)
        BY <4>1, RetryEffect
      <4>3. QED
        BY <1>0, <4>2, AppendQueue
    <3>3. QED
      BY <3>1, <3>2 DEF HeldBy, Kept
  <2>4. CASE LockedAt(c)
    <3>1. /\ KeepsQueue(w) /\ KeepsPlace(w) /\ doing'[w] = doing[w]
      BY <1>4, <2>4 DEF LockedAt
    <3>2. CASE doing[w] = t
      BY <1>2, <3>1, <3>2
    <3>3. CASE Kept(t, w) /\ (Queued(t, w) \/ InClose(t, w))
      <4>1. closing[c] = "lock"
        BY <1>4, <2>4, <3>3 DEF LockedAt, Kept, Clears
      <4>2. KeepsTask(w)
        BY <1>4, <2>4, <3>1, <4>1 DEF LockedAt, KeepsTask
      <4>3. Clears(w)' <=> Clears(w)
        BY <1>0, <4>1, ClearsClose
      <4>4. \A e \in Closers : target[e] = w /\ closing[e] \in {"check", "use"} =>
                               target'[e] = w /\ closing'[e] \in {"check", "use"}
        BY <1>0, <4>1
      <4>5. QED
        BY <3>1, <4>2, <4>3, <4>4, HeldByStays DEF KeepsQueue
    <3>4. QED
      BY <3>2, <3>3 DEF HeldBy
  <2>5. QED
    BY <1>0, <2>1, <2>2, <2>3, <2>4 DEF CloseAt
<1>5. QED
  BY <1>3, <1>4

LEMMA HeldByNext ==
  ASSUME Types, Structure, HeldInv, Next, NEW w \in Workers,
         NEW t \in Tasks, Pending(t), Pending(t)', HeldBy(t, w)
  PROVE  HeldBy(t, w)' \/ t \in Range(request_queue')
<1> USE Apart
<1>0. WorkInv(w) /\ NewInv(w) /\ t # None
  BY DEF Structure
<1>1. ASSUME NEW v \in Workers, v # w, WorkStep(v) PROVE HeldBy(t, w)'
  <2>1. Same(w) /\ (Clears(w)' <=> Clears(w)) /\ closing[v] = "no"
    BY <1>1, WorkElsewhere, ClearsWork, WorkEffect
  <2>2. \A e \in Closers : closing[e] # "no" => target'[e] = target[e] /\ closing'[e] = closing[e]
    BY <1>1, <2>1, WorkElsewhere
  <2>3. QED
    BY <2>1, <2>2, HeldByStays DEF Same, KeepsQueue
<1>2. ASSUME UNCHANGED <<closing, target>>, KeepsTask(w), KeepsPlace(w),
             t \in Range(task_queue[w]) => t \in Range(task_queue'[w])
      PROVE  HeldBy(t, w)'
  BY <1>2, HeldByStays, ClearsSame
<1>3. ASSUME UNCHANGED <<closing, target>>, Stays(w) PROVE HeldBy(t, w)'
  BY <1>2, <1>3 DEF Stays, KeepsQueue
<1>4. ASSUME NEW v \in Workers, NEW c \in Closers, OutsideAt(c, v) PROVE HeldBy(t, w)'
  <2>1. KeepsTask(w) /\ KeepsPlace(w)
    BY <1>4 DEF OutsideAt, Stays
  <2>2. t \in Range(task_queue[w]) => t \in Range(task_queue'[w])
    BY <1>4, PutInto DEF OutsideAt, Stays, KeepsQueue, Items
  <2>3. Clears(w)' <=> Clears(w)
    BY <1>4, ClearsOutside
  <2>4. \A e \in Closers : closing[e] # "no" => target'[e] = target[e] /\ closing'[e] = closing[e]
    BY <1>4 DEF OutsideAt
  <2>5. QED
    BY <2>1, <2>2, <2>3, <2>4, HeldByStays
<1>5. ASSUME NEW v \in Workers, PingPut(v) PROVE HeldBy(t, w)'
  <2>1. KeepsTask(w) /\ KeepsPlace(w) /\ UNCHANGED <<closing, target>>
    BY <1>5 DEF PingPut, Stays
  <2>2. t \in Range(task_queue[w]) => t \in Range(task_queue'[w])
    BY <1>5, PutInto DEF PingPut, Stays, KeepsQueue, Items
  <2>3. QED
    BY <1>2, <2>1, <2>2
<1>6. ASSUME NEW v \in Workers, MadeAt(v) PROVE HeldBy(t, w)'
  <2>1. CASE v # w
    BY <1>3, <1>6, <2>1 DEF MadeAt
  <2>2. CASE v = w
    BY <1>0, <1>6, <2>2 DEF MadeAt, NewInv, HeldBy, Kept, KeepsTask
  <2>3. QED
    BY <2>1, <2>2
<1>7. ASSUME NEW v \in Workers, HandedAt(d_task, v) PROVE HeldBy(t, w)'
  <2>1. CASE v # w
    BY <1>3, <1>7, <2>1 DEF HandedAt
  <2>2. CASE v = w
    BY <1>0, <1>7, <2>2 DEF HandedAt, WorkInv, HeldBy, Kept
  <2>3. QED
    BY <2>1, <2>2
<1>8. ASSUME Elsewhere PROVE HeldBy(t, w)'
  BY <1>3, <1>8 DEF Elsewhere
<1>9. QED
  BY <1>1, <1>4, <1>5, <1>6, <1>7, <1>8, HeldByWorks, HeldByCloses, NextEffect
     DEF ChosenAt, AskedAt, FailedAt, GotAt, IdleAt

(***************************************************************************)
(* A task in the dispatcher's queue or hands goes on.                      *)
(***************************************************************************)
LEMMA QueueNext ==
  ASSUME Types, Structure, Next, NEW t \in Tasks, t \in Range(request_queue)
  PROVE  t \in Range(request_queue') \/ d_task' = t
<1>0. request_queue \in Seq(Tasks \cup {None}) /\ None \in Tasks \cup {None}
  BY DEF Types, TaskTypes
<1>1. ASSUME NEW x \in Tasks \cup {None}, request_queue' = Append(request_queue, x)
      PROVE  t \in Range(request_queue')
  BY <1>0, <1>1, AppendQueue
<1>2. ASSUME NEW u \in Tasks, RetryTask(u) PROVE t \in Range(request_queue')
  BY <1>1, <1>2, RetryEffect
<1>3. ASSUME NEW w \in Workers, WorkStep(w) PROVE t \in Range(request_queue')
  BY <1>2, <1>3, WorkEffect, Doing DEF WorksAt, TasksSame, FailAt, AnswerAt, BodyEndsAt
<1>4. ASSUME NEW c \in Closers, CloseStep(c) PROVE t \in Range(request_queue')
  BY <1>2, <1>4, CloseEffect DEF CloseAt, ChecksAt, RaisesAt, HandsBackAt, LockedAt, TasksSame
<1>5. ASSUME NEW x \in Tasks \cup {None}, GotAt(x) PROVE t \in Range(request_queue') \/ d_task' = t
  <2>1. /\ request_queue # <<>> /\ Head(request_queue) = x /\ request_queue' = Tail(request_queue)
        /\ d_task' = x
    BY <1>5 DEF GotAt
  <2>2. t \in Range(Tail(request_queue)) \/ t = Head(request_queue)
    BY <1>0, <2>1, TailQueue
  <2>3. QED
    BY <2>1, <2>2
<1>6. ASSUME NEW u \in Tasks, AskedAt(u) PROVE t \in Range(request_queue')
  BY <1>1, <1>6 DEF AskedAt
<1>7. CASE IdleAt
  BY <1>1, <1>7 DEF IdleAt
<1>8. QED
  BY <1>3, <1>4, <1>5, <1>6, <1>7, NextEffect DEF PingPut, MadeAt, ChosenAt, OutsideAt, HandedAt, FailedAt

LEMMA HandedNext ==
  ASSUME Types, Structure, Next, NEW t \in Tasks, d_task = t, Pending(t)'
  PROVE  d_task' = t \/ \E w \in Workers : HeldBy(t, w)'
<1>1. CASE \E w \in Workers : HandedAt(d_task, w)
  <2>1. PICK w \in Workers : HandedAt(t, w)
    BY <1>1
  <2>2. WorkInv(w) /\ NewInv(w) /\ \A c \in Closers : CloserInv(c)
    BY DEF Structure
  <2>3. None \notin Range(task_queue[w]) /\ work_loop[w] # "ended"
    BY <2>1 DEF HandedAt, Pending
  <2>4. /\ worker_task'[w] = t /\ Puts(w, t) /\ work_loop'[w] = work_loop[w] /\ UNCHANGED <<closing, target>>
        /\ d_worker = w
    BY <2>1 DEF HandedAt, KeepsPlace
  <2>5. work_loop[w] # "failed"
    BY <2>2, <2>4 DEF WorkInv, Occupied
  <2>6. ~Clears(w)
    BY <2>2, <2>3 DEF Clears, CloserInv, Told
  <2>7. Kept(t, w)'
    BY <2>4, <2>5, <2>6, ClearsSame DEF Kept
  <2>8. Queued(t, w)'
    BY <2>3, <2>4, PutInto DEF Queued, Items
  <2>9. QED
    BY <2>7, <2>8 DEF HeldBy
<1>2. ASSUME NEW u \in Tasks, FailedAt(u) PROVE FALSE
  BY <1>2, FailEffect DEF FailedAt, Pending
<1>3. ASSUME NEW c \in Closers, CloseStep(c) PROVE d_task' = t
  BY <1>3, CloseEffect, FailEffect DEF CloseAt, ChecksAt, RaisesAt, HandsBackAt, LockedAt, HandsSame, Pending
<1>4. ASSUME NEW x \in Tasks \cup {None}, GotAt(x) PROVE FALSE
  BY <1>4, Apart DEF GotAt
<1>5. QED
  BY <1>1, <1>2, <1>3, <1>4, NextEffect, WorkElsewhere DEF PingPut, MadeAt, ChosenAt, OutsideAt, AskedAt, IdleAt, HandsSame

LEMMA PendingNext ==
  ASSUME Types, Structure, Next, NEW t \in Tasks, Pending(t)'
  PROVE  Pending(t) \/ t \in Range(request_queue')
<1>1. ~responsed[t] /\ t \notin late /\ caller'[t] # "out"
  BY NothingUndone DEF Pending
<1>2. CASE \E u \in Tasks : AskedAt(u)
  <2>1. PICK u \in Tasks : AskedAt(u)
    BY <1>2
  <2>2. CASE u = t
    <3>1. request_queue \in Seq(Tasks \cup {None}) /\ request_queue' = Append(request_queue, t)
      BY <2>1, <2>2 DEF AskedAt, Types, TaskTypes
    <3>2. QED
      BY <3>1, AppendQueue
  <2>3. CASE u # t
    BY <1>1, <2>1, <2>3 DEF AskedAt, Pending, Types, TaskTypes
  <2>4. QED
    BY <2>2, <2>3
<1>3. CASE ~ \E u \in Tasks : AskedAt(u)
  BY <1>1, <1>3, NextEffect, WorkElsewhere, CloseEffect
     DEF CloseAt, PingPut, MadeAt, ChosenAt, OutsideAt, HandedAt, FailedAt, GotAt, IdleAt, Pending
<1>4. QED
  BY <1>2, <1>3

(***************************************************************************)
(* A task that comes into a worker's queue in time is taken in time.       *)
(***************************************************************************)
LEMMA EndedNext ==
  ASSUME Types, Structure, Next, NEW w \in Workers, work_loop[w] = "ended"
  PROVE  work_loop'[w] = "ended"
<1>1. ASSUME NEW v \in Workers, WorkStep(v) PROVE work_loop'[w] = "ended"
  BY <1>1, WorkEffect, WorkElsewhere DEF WorksAt, TopAt, NoneAt, PingAt, SendAt, GiveBackAt, FailAt, CloseFailedAt,
                  AnswerAt, BodyFailsAt, BodyShortAt, BodyEndsAt, AfterAt, Same, KeepsPlace
<1>2. ASSUME NEW c \in Closers, CloseStep(c) PROVE work_loop'[w] = "ended"
  BY <1>2, CloseEffect DEF CloseAt, ChecksAt, RaisesAt, HandsBackAt, LockedAt, Stays, KeepsPlace
<1>3. ASSUME NEW v \in Workers, MadeAt(v) PROVE work_loop'[w] = "ended"
  BY <1>3 DEF MadeAt, Structure, NewInv, Stays, KeepsPlace
<1>4. QED
  BY <1>1, <1>2, <1>3, NextEffect
     DEF PingPut, ChosenAt, OutsideAt, HandedAt, AskedAt, FailedAt, GotAt, IdleAt, Elsewhere, Stays, KeepsPlace

LEMMA QueueMoves ==
  ASSUME Types, Structure, Next, NEW w \in Workers
  PROVE  \/ KeepsQueue(w) \/ Puts(w, None) \/ Puts(w, Ping) \/ HandedAt(d_task, w)
         \/ Takes(w) /\ (Head(task_queue[w]) # None \/ work_loop'[w] = "ended")
         \/ TakesAndCloses(w) /\ work_loop'[w] = "ended"
<1>1. ASSUME NEW v \in Workers, WorkStep(v)
      PROVE  \/ KeepsQueue(w) \/ Puts(w, None)
             \/ Takes(w) /\ (Head(task_queue[w]) # None \/ work_loop'[w] = "ended")
             \/ TakesAndCloses(w) /\ work_loop'[w] = "ended"
  <2>1. CASE v = w
    BY <1>1, <2>1, Apart, WorkEffect DEF WorksAt, TopAt, NoneAt, PingAt, SendAt, GiveBackAt, FailAt, CloseFailedAt,
                AnswerAt, BodyFailsAt, BodyShortAt, BodyEndsAt, AfterAt
  <2>2. CASE v # w
    BY <1>1, <2>2, WorkElsewhere DEF Same
  <2>3. QED
    BY <2>1, <2>2
<1>2. ASSUME NEW c \in Closers, CloseStep(c) PROVE KeepsQueue(w)
  <2>1. CloseAt(c)
    BY <1>2, CloseEffect
  <2>2. CASE ChecksAt(c) \/ HandsBackAt(c)
    BY <2>2 DEF ChecksAt, HandsBackAt, Stays
  <2>3. CASE RaisesAt(c)
    BY <2>3 DEF RaisesAt, Stays
  <2>4. CASE LockedAt(c)
    BY <2>4 DEF LockedAt, Stays
  <2>5. QED
    BY <2>1, <2>2, <2>3, <2>4 DEF CloseAt
<1>3. ASSUME NEW v \in Workers, PingPut(v) \/ MadeAt(v) \/ HandedAt(d_task, v) \/ \E c \in Closers : OutsideAt(c, v)
      PROVE  KeepsQueue(w) \/ Puts(w, None) \/ Puts(w, Ping) \/ HandedAt(d_task, w)
  <2>1. CASE v = w
    BY <1>3, <2>1 DEF PingPut, MadeAt, OutsideAt
  <2>2. CASE v # w
    BY <1>3, <2>2 DEF PingPut, MadeAt, OutsideAt, HandedAt, Stays
  <2>3. QED
    BY <2>1, <2>2
<1>4. ASSUME Elsewhere PROVE KeepsQueue(w)
  BY <1>4 DEF Elsewhere, Stays
<1>5. QED
  BY <1>1, <1>2, <1>3, <1>4, NextEffect DEF ChosenAt, AskedAt, FailedAt, GotAt, IdleAt

LEMMA FirstNext ==
  ASSUME Types, Structure, HeldInv, Next, NEW w \in Workers, NEW t \in Tasks \ late', t \in Range(task_queue'[w])
  PROVE  /\ First(task_queue'[w], t)
         /\ t \in Range(task_queue[w]) \/ HandedAt(t, w)
<1> USE Apart
<1>0. /\ WorkInv(w) /\ task_queue[w] \in Seq(Items)
      /\ t \notin late /\ InTime(w) /\ t # None /\ t # Ping /\ t \in Tasks
  BY NothingUndone DEF Structure, HeldInv, Types, WorkerTypes
<1>1. CASE KeepsQueue(w)
  BY <1>0, <1>1 DEF KeepsQueue, InTime
<1>2. CASE Puts(w, None) \/ Puts(w, Ping)
  <2>1. PICK x \in Items \ Tasks : Puts(w, x)
    BY <1>2 DEF Items
  <2>2. t \in Range(task_queue[w])
    BY <1>0, <2>1, PutInto
  <2>3. QED
    BY <1>0, <2>1, <2>2, PutInto DEF InTime
<1>3. CASE Takes(w)
  <2>1. t \in Range(task_queue[w])
    BY <1>0, <1>3, TakeFrom
  <2>2. First(task_queue[w], t)
    BY <1>0, <2>1 DEF InTime
  <2>3. t # Head(task_queue[w])
    BY <1>0, <1>3, TakeFrom DEF WorkInv, Empty
  <2>4. QED
    BY <1>3, <2>1, <2>2, <2>3, TakeFrom
<1>4. CASE TakesAndCloses(w)
  <2>1. t \in Range(task_queue[w])
    BY <1>0, <1>4, TakeAndClose
  <2>2. First(task_queue[w], t)
    BY <1>0, <2>1 DEF InTime
  <2>3. t # Head(task_queue[w])
    BY <1>0, <1>4, TakeAndClose DEF WorkInv, Empty
  <2>4. QED
    BY <1>4, <2>1, <2>2, <2>3, TakeAndClose
<1>5. CASE HandedAt(d_task, w)
  <2>1. Puts(w, d_task) /\ d_task \in Items /\ d_worker = w
    BY <1>5 DEF HandedAt, Items
  <2>2. Empty(w)
    BY <1>0, <2>1 DEF WorkInv
  <2>3. d_task = t
    BY <1>0, <2>1, <2>2, PutInto DEF Empty
  <2>4. None \notin Range(task_queue[w])
    BY <1>0, <1>5, <2>3 DEF HandedAt
  <2>5. QED
    BY <1>5, <2>1, <2>3, <2>4, PutInto
<1>6. QED
  BY <1>1, <1>2, <1>3, <1>4, <1>5, QueueMoves

LEMMA InTimeHanded ==
  ASSUME Types, Structure, Next, NEW w \in Workers, NEW t \in Tasks \ late', HandedAt(t, w)
  PROVE  keep_running'[w] /\ \A c \in Closers : target'[c] = w => closing'[c] # "lock"
<1>1. WorkInv(w) /\ NewInv(w) /\ \A c \in Closers : CloserInv(c)
  BY DEF Structure
<1>2. /\ None \notin Range(task_queue[w]) /\ work_loop[w] # "ended" /\ d_worker = w
      /\ keep_running'[w] = keep_running[w] /\ UNCHANGED <<closing, target>>
  BY DEF HandedAt
<1>3. work_loop[w] # "none" /\ keep_running[w]
  BY <1>1, <1>2 DEF NewInv, WorkInv
<1>4. \A c \in Closers : target[c] = w => closing[c] = "no"
  BY <1>1, <1>2 DEF CloserInv, Told
<1>5. QED
  BY <1>2, <1>3, <1>4

LEMMA KeptNext ==
  ASSUME Types, Structure, Next, NEW w \in Workers, NEW t \in Tasks,
         Kept(t, w)', ~HandedAt(t, w)
  PROVE  Kept(t, w) \/ (Queued(t, w) /\ work_loop'[w] = "ended")
<1> USE Apart
<1>0. /\ worker_task'[w] = t /\ work_loop'[w] # "failed" /\ ~Clears(w)'
      /\ WorkInv(w) /\ NewInv(w) /\ t # None
  BY DEF Kept, Structure
<1>1. ASSUME worker_task'[w] = worker_task[w], work_loop[w] # "failed", Clears(w)' <=> Clears(w)
      PROVE  Kept(t, w)
  BY <1>0, <1>1 DEF Kept
<1>2. ASSUME Stays(w), Clears(w)' <=> Clears(w) PROVE Kept(t, w)
  BY <1>0, <1>1, <1>2 DEF Stays, KeepsTask, KeepsPlace
<1>3. ASSUME NEW v \in Workers, WorkStep(v) PROVE Kept(t, w) \/ (Queued(t, w) /\ work_loop'[w] = "ended")
  <2>1. Clears(w)' <=> Clears(w)
    BY <1>3, ClearsWork
  <2>2. CASE v # w
    BY <1>2, <1>3, <2>1, <2>2, WorkElsewhere DEF Same, Stays
  <2>3. CASE v = w
    <3>1. WorksAt(w)
      BY <1>3, <2>3, WorkEffect
    <3> CASE GiveBackAt(w)
      BY <1>0, TakeAndClose DEF GiveBackAt, Queued
    <3>2. CASE worker_task'[w] = worker_task[w] /\ work_loop[w] # "failed"
      BY <1>1, <2>1, <3>2
    <3>3. QED
      BY <1>0, <3>1, <3>2 DEF WorksAt, TopAt, NoneAt, PingAt, SendAt, FailAt, CloseFailedAt,
                  AnswerAt, BodyFailsAt, BodyShortAt, BodyEndsAt, AfterAt, KeepsTask
  <2>4. QED
    BY <2>2, <2>3
<1>4. ASSUME NEW c \in Closers, CloseStep(c) PROVE Kept(t, w)
  <2>1. CloseAt(c)
    BY <1>4, CloseEffect
  <2>2. CASE ChecksAt(c)
    BY <1>2, <2>1, <2>2, ClearsClose DEF ChecksAt
  <2>3. CASE RaisesAt(c)
    <3>1. worker_task'[w] = worker_task[w] /\ work_loop[w] # "failed"
      BY <1>0, <2>1, <2>3 DEF RaisesAt, Stays, KeepsTask, KeepsPlace, Structure, CloserInv
    <3>2. QED
      BY <1>0, <1>1, <2>1, <2>3, <3>1, ClearsClose
  <2>4. CASE HandsBackAt(c)
    <3>1. target[c] # w
      BY <1>0, <2>1, <2>4 DEF HandsBackAt, Clears, CloseAt
    <3>2. QED
      BY <1>2, <2>1, <2>4, <3>1, ClearsClose DEF HandsBackAt
  <2>5. CASE LockedAt(c)
    <3>1. CASE target[c] # w
      BY <1>2, <2>1, <2>5, <3>1, ClearsClose DEF LockedAt
    <3>2. CASE target[c] = w
      <4>1. closing[c] = "lock"
        BY <1>0, <2>5, <3>2 DEF LockedAt
      <4>2. worker_task'[w] = worker_task[w] /\ work_loop'[w] = work_loop[w]
        BY <2>5, <3>2, <4>1 DEF LockedAt, KeepsPlace
      <4>3. QED
        BY <1>0, <1>1, <2>1, <4>1, <4>2, ClearsClose
    <3>3. QED
      BY <3>1, <3>2
  <2>6. QED
    BY <2>1, <2>2, <2>3, <2>4, <2>5 DEF CloseAt
<1>5. ASSUME NEW v \in Workers, MadeAt(v) PROVE Kept(t, w)
  <2>1. Clears(w)' <=> Clears(w)
    BY <1>5, ClearsSame DEF MadeAt
  <2>2. CASE v # w
    BY <1>2, <1>5, <2>1, <2>2 DEF MadeAt
  <2>3. CASE v = w
    BY <1>0, <1>5, <2>3 DEF MadeAt, NewInv, KeepsTask
  <2>4. QED
    BY <2>2, <2>3
<1>6. ASSUME NEW v \in Workers, HandedAt(d_task, v) PROVE Kept(t, w)
  <2>1. v # w
    BY <1>0, <1>6 DEF HandedAt
  <2>2. QED
    BY <1>2, <1>6, <2>1, ClearsSame DEF HandedAt
<1>7. ASSUME NEW v \in Workers, NEW c \in Closers, OutsideAt(c, v) PROVE Kept(t, w)
  <2>1. worker_task'[w] = worker_task[w] /\ work_loop'[w] = work_loop[w]
    BY <1>7 DEF OutsideAt, Stays, KeepsTask, KeepsPlace
  <2>2. QED
    BY <1>0, <1>1, <1>7, <2>1, ClearsOutside
<1>8. ASSUME NEW v \in Workers, PingPut(v) PROVE Kept(t, w)
  <2>1. worker_task'[w] = worker_task[w] /\ work_loop'[w] = work_loop[w]
    BY <1>8 DEF PingPut, Stays, KeepsTask, KeepsPlace
  <2>2. QED
    BY <1>0, <1>1, <1>8, <2>1, ClearsSame DEF PingPut
<1>9. ASSUME Elsewhere PROVE Kept(t, w)
  BY <1>2, <1>9, ClearsSame DEF Elsewhere
<1>10. QED
  BY <1>3, <1>4, <1>5, <1>6, <1>7, <1>8, <1>9, NextEffect DEF ChosenAt, AskedAt, FailedAt, GotAt, IdleAt

LEMMA InTimeNext ==
  ASSUME Types, Structure, HeldInv, Next, NEW w \in Workers
  PROVE  InTime(w)'
<1> USE Apart
<1>1. SUFFICES ASSUME NEW t \in Tasks \ late', t \in Range(task_queue'[w]),
                      work_loop'[w] # "ended", Kept(t, w)'
               PROVE  keep_running'[w] /\ \A c \in Closers : target'[c] = w => closing'[c] # "lock"
  BY FirstNext DEF InTime
<1>2. CASE HandedAt(t, w)
  BY <1>2, InTimeHanded
<1>3. CASE ~HandedAt(t, w)
  <2>1. Kept(t, w)
    BY <1>1, <1>3, KeptNext
  <2>2. t \in Range(task_queue[w]) /\ t \notin late
    BY <1>1, <1>3, FirstNext, NothingUndone
  <2>3. work_loop[w] # "ended"
    BY <1>1, EndedNext
  <2>4. keep_running[w] /\ \A c \in Closers : target[c] = w => closing[c] # "lock"
    BY <2>1, <2>2, <2>3 DEF HeldInv, InTime
  <2>5. worker_task[w] = t /\ t # None
    BY <2>1 DEF Kept
  <2>6. CASE UNCHANGED <<closing, target>> /\ (keep_running'[w] = keep_running[w] \/ keep_running'[w])
    BY <2>4, <2>6
  <2>7. ASSUME NEW v \in Workers, WorkStep(v)
        PROVE  keep_running'[w] /\ \A c \in Closers : target'[c] = w => closing'[c] # "lock"
    <3>1. keep_running'[w] = keep_running[w]
      <4>1. CASE v = w
        BY <1>1, <2>7, <4>1, WorkEffect DEF WorksAt, TopAt, NoneAt, PingAt, SendAt, GiveBackAt, FailAt, CloseFailedAt,
                  AnswerAt, BodyFailsAt, BodyShortAt, BodyEndsAt, AfterAt, KeepsFlags
      <4>2. CASE v # w
        BY <2>7, <4>2, WorkElsewhere DEF Same, KeepsFlags
      <4>3. QED
        BY <4>1, <4>2
    <3>2. closing[v] = "no" /\ closing'[v] \in {"no", "check"}
      BY <2>7, WorkEffect DEF WorksAt, TopAt, NoneAt, PingAt, SendAt, GiveBackAt, FailAt, CloseFailedAt,
                  AnswerAt, BodyFailsAt, BodyShortAt, BodyEndsAt, AfterAt, KeepsClose, BeginsClose
    <3>3. \A c \in Closers \ {v} : closing'[c] = closing[c] /\ target'[c] = target[c]
      BY <2>7, WorkElsewhere
    <3>4. QED
      BY <2>4, <3>1, <3>2, <3>3
  <2>8. ASSUME NEW c \in Closers, CloseStep(c)
        PROVE  keep_running'[w] /\ \A e \in Closers : target'[e] = w => closing'[e] # "lock"
    <3>1. CloseAt(c)
      BY <2>8, CloseEffect
    <3>2. target' = target /\ \A e \in Closers \ {c} : closing'[e] = closing[e]
      BY <3>1 DEF CloseAt
    <3>3. target[c] = w => closing'[c] # "lock"
      BY <2>5, <3>1 DEF CloseAt, ChecksAt, RaisesAt, HandsBackAt, LockedAt
    <3>4. LockedAt(c) => target[c] # w
      BY <2>1, <2>4 DEF LockedAt, Kept, Clears
    <3>5. keep_running'[w] = keep_running[w]
      BY <3>1, <3>4 DEF CloseAt, ChecksAt, RaisesAt, HandsBackAt, LockedAt, Stays, KeepsFlags
    <3>6. QED
      BY <2>4, <3>2, <3>3, <3>5
  <2>9. ASSUME NEW v \in Workers, NEW c \in Closers, OutsideAt(c, v)
        PROVE  keep_running'[w] /\ \A e \in Closers : target'[e] = w => closing'[e] # "lock"
    <3>1. keep_running'[w] = keep_running[w]
      BY <2>9 DEF OutsideAt, Stays, KeepsFlags
    <3>2. /\ closing'[c] = "check"
          /\ \A e \in Closers \ {c} : closing'[e] = closing[e] /\ target'[e] = target[e]
      BY <2>9 DEF OutsideAt
    <3>3. QED
      BY <2>4, <3>1, <3>2
  <2>10. ASSUME NEW v \in Workers, PingPut(v) \/ MadeAt(v) \/ HandedAt(d_task, v)
         PROVE  UNCHANGED <<closing, target>> /\ (keep_running'[w] = keep_running[w] \/ keep_running'[w])
    BY <2>10 DEF PingPut, MadeAt, HandedAt, Stays, KeepsFlags
  <2>11. ASSUME Elsewhere PROVE UNCHANGED <<closing, target>> /\ keep_running'[w] = keep_running[w]
    BY <2>11 DEF Elsewhere, Stays, KeepsFlags
  <2>12. QED
    BY <2>6, <2>7, <2>8, <2>9, <2>10, <2>11, NextEffect DEF ChosenAt, AskedAt, FailedAt, GotAt, IdleAt
<1>4. QED
  BY <1>2, <1>3

LEMMA HeldNext ==
  ASSUME Types, Structure, HeldInv, Next
  PROVE  HeldInv'
<1>1. ASSUME NEW t \in Tasks, Pending(t)' PROVE Held(t)'
  <2>1. CASE t \in Range(request_queue')
    BY <2>1 DEF Held
  <2>2. CASE Pending(t)
    <3>1. CASE t \in Range(request_queue)
      BY <3>1, QueueNext DEF Held
    <3>2. CASE d_task = t
      BY <1>1, <3>2, HandedNext DEF Held
    <3>3. CASE \E w \in Workers : HeldBy(t, w)
      <4>1. PICK w \in Workers : HeldBy(t, w)
        BY <3>3
      <4>2. HeldBy(t, w)' \/ t \in Range(request_queue')
        BY <1>1, <2>2, <4>1, HeldByNext
      <4>3. QED
        BY <4>2 DEF Held
    <3>4. QED
      BY <2>2, <3>1, <3>2, <3>3 DEF HeldInv, Held
  <2>3. QED
    BY <1>1, <2>1, <2>2, PendingNext
<1>2. ASSUME NEW w \in Workers PROVE InTime(w)'
  BY InTimeNext
<1>3. QED
  BY <1>1, <1>2 DEF HeldInv

-----------------------------------------------------------------------------
(***************************************************************************)
(* A task that was never taken from a working worker is in one place, and  *)
(* was answered at most once; while it waits to be sent or answered it was *)
(* not answered.  Nobody has a task that was not asked for.                *)
(***************************************************************************)
Has(t, w) == doing[w] = t \/ Queued(t, w) \/ Kept(t, w)

Alone(t) ==
    /\ Once(request_queue, t)
    /\ d_task = t => t \notin Range(request_queue)
    /\ \A w \in Workers : Has(t, w) =>
          /\ t \notin Range(request_queue) /\ d_task # t
          /\ \A v \in Workers : Has(t, v) => v = w

FreshAt(t, w) == Queued(t, w) \/ (doing[w] = t /\ work_loop[w] = "road")

Fresh(t) ==
    \/ t \in Range(request_queue) \/ d_task = t
    \/ \E w \in Workers : FreshAt(t, w)

Answers(t) ==
    /\ answers[t] <= 1
    /\ ~responsed[t] => answers[t] = 0
    /\ Fresh(t) => ~responsed[t]

New(t) ==
    caller[t] = "out" =>
        /\ t \notin raced /\ ~responsed[t]
        /\ t \notin Range(request_queue) /\ d_task # t
        /\ \A w \in Workers : worker_task[w] # t /\ doing[w] # t /\ t \notin Range(task_queue[w])

AnswerInv ==
    /\ \A t \in Tasks : New(t)
    /\ \A t \in Tasks \ raced : Alone(t) /\ Answers(t)

LEMMA AnswerInit == Init => AnswerInv
<1> SUFFICES ASSUME Init PROVE AnswerInv
  OBVIOUS
<1> USE EmptyQueue, Apart
<1>1. ASSUME NEW t \in Tasks PROVE New(t)
  BY DEF Init, New
<1>2. ASSUME NEW t \in Tasks PROVE \A w \in Workers : ~Has(t, w)
  BY DEF Init, Has, Queued, Kept
<1>3. ASSUME NEW t \in Tasks PROVE Alone(t)
  BY <1>2 DEF Init, Alone
<1>4. ASSUME NEW t \in Tasks PROVE ~Fresh(t)
  BY DEF Init, Fresh, FreshAt, Queued
<1>5. ASSUME NEW t \in Tasks PROVE Answers(t)
  BY <1>4 DEF Init, Answers
<1>6. QED
  BY <1>1, <1>3, <1>5 DEF AnswerInv

(***************************************************************************)
(* A worker gets a task from the dispatcher only.                          *)
(***************************************************************************)
LEMMA QueuedNext ==
  ASSUME Types, Structure, Next, NEW w \in Workers, NEW t \in Tasks, t \in Range(task_queue'[w])
  PROVE  t \in Range(task_queue[w]) \/ HandedAt(t, w)
<1> USE Apart
<1>1. CASE KeepsQueue(w)
  BY <1>1 DEF KeepsQueue
<1>2. CASE Puts(w, None) \/ Puts(w, Ping)
  BY <1>2, PutInto DEF Items
<1>3. CASE Takes(w)
  BY <1>3, TakeFrom
<1>4. CASE TakesAndCloses(w)
  BY <1>4, TakeAndClose
<1>5. CASE HandedAt(d_task, w)
  <2>1. Puts(w, d_task) /\ d_task \in Items
    BY <1>5 DEF HandedAt, Items
  <2>2. t \in Range(task_queue[w]) \/ t = d_task
    BY <2>1, PutInto
  <2>3. QED
    BY <1>5, <2>2
<1>6. QED
  BY <1>1, <1>2, <1>3, <1>4, <1>5, QueueMoves

\* The queue holds t and its head is a task only if the worker got t from it.
LEMMA DoingNext ==
  ASSUME Types, Structure, Next, NEW w \in Workers, NEW t \in Tasks, doing'[w] = t
  PROVE  \/ doing[w] = t /\ (work_loop'[w] = "road" => work_loop[w] = "road")
         \/ Queued(t, w)
<1> USE Apart
<1>1. ASSUME Stays(w) PROVE doing[w] = t /\ (work_loop'[w] = "road" => work_loop[w] = "road")
  BY <1>1 DEF Stays, KeepsTask, KeepsPlace
<1>2. ASSUME NEW v \in Workers, WorkStep(v), v # w PROVE Stays(w)
  BY <1>2, WorkElsewhere DEF Same, Stays
<1>3. ASSUME WorkStep(w)
      PROVE  (doing[w] = t /\ (work_loop'[w] = "road" => work_loop[w] = "road")) \/ Queued(t, w)
  <2>1. CASE SendAt(w)
    BY <2>1, TakeFrom DEF SendAt, Queued
  <2>2. CASE ~SendAt(w)
    BY <1>3, <2>2, WorkEffect DEF WorksAt, TopAt, NoneAt, PingAt, GiveBackAt, FailAt, CloseFailedAt,
                  AnswerAt, BodyFailsAt, BodyShortAt, BodyEndsAt, AfterAt, KeepsTask
  <2>3. QED
    BY <2>1, <2>2
<1>4. ASSUME NEW c \in Closers, CloseStep(c)
      PROVE  doing[w] = t /\ (work_loop'[w] = "road" => work_loop[w] = "road")
  <2>1. CloseAt(c)
    BY <1>4, CloseEffect
  <2>2. CASE ChecksAt(c) \/ HandsBackAt(c)
    BY <1>1, <2>2 DEF ChecksAt, HandsBackAt
  <2>3. CASE RaisesAt(c)
    BY <1>1, <2>3 DEF RaisesAt
  <2>4. CASE LockedAt(c)
    BY <1>1, <2>4 DEF LockedAt, KeepsPlace
  <2>5. QED
    BY <2>1, <2>2, <2>3, <2>4 DEF CloseAt
<1>5. ASSUME NEW v \in Workers, PingPut(v) \/ MadeAt(v) \/ HandedAt(d_task, v) \/ \E c \in Closers : OutsideAt(c, v)
      PROVE  doing[w] = t /\ (work_loop'[w] = "road" => work_loop[w] = "road")
  BY <1>1, <1>5 DEF PingPut, MadeAt, HandedAt, OutsideAt, KeepsTask, KeepsPlace
<1>6. ASSUME Elsewhere PROVE Stays(w)
  BY <1>6 DEF Elsewhere
<1>7. QED
  BY <1>1, <1>2, <1>3, <1>4, <1>5, <1>6, NextEffect DEF ChosenAt, AskedAt, FailedAt, GotAt, IdleAt

LEMMA HasNext ==
  ASSUME Types, Structure, Next, NEW w \in Workers, NEW t \in Tasks, ~HandedAt(t, w)
  PROVE  /\ Has(t, w)' => Has(t, w)
         /\ FreshAt(t, w)' => FreshAt(t, w)
<1>1. Queued(t, w)' => Queued(t, w)
  BY QueuedNext, EndedNext DEF Queued
<1>2. Kept(t, w)' => Kept(t, w) \/ Queued(t, w)
  BY KeptNext
<1>3. doing'[w] = t => doing[w] = t \/ Queued(t, w)
  BY DoingNext
<1>4. doing'[w] = t /\ work_loop'[w] = "road" => (doing[w] = t /\ work_loop[w] = "road") \/ Queued(t, w)
  BY DoingNext
<1>5. QED
  BY <1>1, <1>2, <1>3, <1>4 DEF Has, FreshAt

LEMMA FreshHas ==
  ASSUME NEW t, NEW w, FreshAt(t, w)
  PROVE  Has(t, w)
BY DEF FreshAt, Has

(***************************************************************************)
(* The steps that answer, end or retry t, or move it in the dispatcher.    *)
(***************************************************************************)
Touched(t) ==
    \/ \E w \in Workers : WorkStep(w) /\ doing[w] = t /\ (FailAt(w) \/ AnswerAt(w) \/ BodyEndsAt(w))
    \/ \E c \in Closers : CloseStep(c) /\ HandsBackAt(c) /\ worker_task[target[c]] = t
    \/ \E c \in Closers : CloseStep(c) /\ RaisesAt(c) /\ c = "dispatcher" /\ d_task = t
    \/ FailedAt(t) \/ AskedAt(t) \/ GotAt(t)

LEMMA OnceAppended ==
  ASSUME NEW q \in Seq(Tasks \cup {None}), NEW x \in Tasks \cup {None}, NEW t \in Tasks, t # x
  PROVE  /\ t \in Range(Append(q, x)) => t \in Range(q)
         /\ Once(q, t) => Once(Append(q, x), t)
BY AppendQueue

LEMMA Untouched ==
  ASSUME Types, Structure, Next, NEW t \in Tasks, ~Touched(t)
  PROVE  /\ responsed'[t] = responsed[t] /\ answers'[t] = answers[t] /\ finished'[t] = finished[t]
         /\ t \in Range(request_queue') => t \in Range(request_queue)
         /\ Once(request_queue, t) => Once(request_queue', t)
         /\ d_task' = t => d_task = t
<1> USE Apart
<1> DEFINE tasks == responsed'[t] = responsed[t] /\ answers'[t] = answers[t] /\ finished'[t] = finished[t]
           queue == /\ t \in Range(request_queue') => t \in Range(request_queue)
                    /\ Once(request_queue, t) => Once(request_queue', t)
<1>0. request_queue \in Seq(Tasks \cup {None})
  BY DEF Types, TaskTypes
<1>1. ASSUME NEW x \in Tasks \cup {None}, x # t, request_queue' \in {request_queue, Append(request_queue, x)}
      PROVE  queue
  BY <1>0, <1>1, OnceAppended
<1>2. ASSUME NEW u \in Tasks, u # t, RetryTask(u) PROVE tasks /\ queue
  <2>1. tasks
    BY <1>2, RetryEffect
  <2>2. request_queue' \in {request_queue, Append(request_queue, u)}
    BY <1>2, RetryEffect
  <2>3. QED
    BY <1>1, <1>2, <2>1, <2>2
<1>3. ASSUME NEW w \in Workers, WorkStep(w) PROVE tasks /\ queue /\ d_task' = d_task
  <2>1. d_task' = d_task /\ WorksAt(w)
    BY <1>3, WorkElsewhere, WorkEffect
  <2>2. CASE TasksSame
    BY <2>1, <2>2 DEF TasksSame
  <2>3. CASE FailAt(w)
    <3>1. doing[w] # t /\ doing[w] \in Tasks /\ RetryTask(doing[w])
      BY <1>3, <2>3, Doing DEF Touched, FailAt
    <3>2. QED
      BY <1>2, <2>1, <3>1
  <2>4. CASE AnswerAt(w)
    <3>1. doing[w] # t /\ doing[w] \in Tasks
      BY <1>3, <2>4, Doing DEF Touched, AnswerAt
    <3>2. QED
      BY <2>1, <2>4, <3>1, AnswerEffect DEF AnswerAt
  <2>5. CASE BodyEndsAt(w)
    <3>1. doing[w] # t /\ doing[w] \in Tasks
      BY <1>3, <2>5, Doing DEF Touched, BodyEndsAt
    <3>2. QED
      BY <2>1, <2>5, <3>1, FinishEffect DEF BodyEndsAt
  <2>6. QED
    BY <2>1, <2>2, <2>3, <2>4, <2>5 DEF WorksAt
<1>4. ASSUME NEW c \in Closers, CloseStep(c) PROVE tasks /\ queue /\ (d_task' = t => d_task = t)
  <2>1. CloseAt(c)
    BY <1>4, CloseEffect
  <2>2. CASE ChecksAt(c) \/ LockedAt(c)
    BY <2>2 DEF ChecksAt, LockedAt, TasksSame, HandsSame
  <2>3. CASE RaisesAt(c)
    <3>1. CASE c = "dispatcher"
      <4>1. d_task # t /\ d_task \in Tasks /\ ResponseFail(d_task) /\ d_task' = None /\ request_queue' = request_queue
        BY <1>4, <2>3, <3>1 DEF Touched, RaisesAt, Types, DispatcherTypes
      <4>2. QED
        BY <4>1, FailEffect
    <3>2. CASE c # "dispatcher"
      BY <2>3, <3>2 DEF RaisesAt, TasksSame
    <3>3. QED
      BY <3>1, <3>2
  <2>4. CASE HandsBackAt(c)
    <3>1. /\ worker_task[target[c]] # t /\ worker_task[target[c]] \in Tasks
          /\ RetryTask(worker_task[target[c]]) /\ d_task' = d_task
      BY <1>4, <2>4 DEF Touched, HandsBackAt, HandsSame
    <3>2. QED
      BY <1>2, <3>1
  <2>5. QED
    BY <2>1, <2>2, <2>3, <2>4 DEF CloseAt
<1>5. ASSUME NEW w \in Workers, PingPut(w) \/ MadeAt(w) \/ ChosenAt(w) \/ HandedAt(d_task, w) \/ \E c \in Closers : OutsideAt(c, w)
      PROVE  tasks /\ queue /\ (d_task' = t => d_task = t)
  BY <1>5 DEF PingPut, MadeAt, ChosenAt, HandedAt, OutsideAt, Otherwise, HandsSame
<1>6. ASSUME NEW u \in Tasks, AskedAt(u) PROVE tasks /\ queue /\ d_task' = d_task
  <2>1. u # t /\ request_queue' = Append(request_queue, u) /\ tasks /\ d_task' = d_task
    BY <1>6 DEF AskedAt, Touched, Otherwise, HandsSame
  <2>2. QED
    BY <1>1, <2>1
<1>7. ASSUME NEW u \in Tasks, FailedAt(u) PROVE tasks /\ queue /\ d_task' = None
  <2>1. u # t /\ request_queue' = request_queue /\ ResponseFail(u) /\ d_task' = None
    BY <1>7 DEF FailedAt, Touched
  <2>2. QED
    BY <2>1, FailEffect
<1>8. ASSUME NEW x \in Tasks \cup {None}, GotAt(x) PROVE tasks /\ queue /\ d_task' # t
  <2>1. x # t /\ request_queue # <<>> /\ request_queue' = Tail(request_queue) /\ d_task' = x /\ tasks
    BY <1>8 DEF GotAt, Touched, Otherwise
  <2>2. QED
    BY <1>0, <2>1, TailQueue
<1>9. CASE IdleAt
  <2>1. tasks /\ d_task' = d_task /\ request_queue' \in {request_queue, Append(request_queue, None)}
    BY <1>9 DEF IdleAt, Otherwise, HandsSame
  <2>2. QED
    BY <1>1, <2>1
<1>10. QED
  BY <1>3, <1>4, <1>5, <1>6, <1>7, <1>8, <1>9, NextEffect

-----------------------------------------------------------------------------
LEMMA CallerNext ==
  ASSUME Types, Next, NEW t \in Tasks, caller'[t] = "out"
  PROVE  caller[t] = "out" /\ ~AskedAt(t)
<1>1. ASSUME NEW w \in Workers, WorkStep(w) PROVE caller' = caller
  BY <1>1, WorkElsewhere
<1>2. ASSUME NEW c \in Closers, CloseStep(c) PROVE caller' = caller
  BY <1>2, CloseEffect DEF CloseAt
<1>3. ASSUME NEW u \in Tasks, AskedAt(u) PROVE caller[t] = "out" /\ u # t
  BY <1>3 DEF AskedAt, Types, TaskTypes
<1>4. ASSUME AskedAt(t) PROVE FALSE
  BY <1>3, <1>4
<1>5. QED
  BY <1>1, <1>2, <1>3, <1>4, NextEffect
     DEF PingPut, MadeAt, ChosenAt, OutsideAt, HandedAt, FailedAt, GotAt, IdleAt

LEMMA RacedNext ==
  ASSUME Types, Next, NEW t \in Tasks
  PROVE  /\ t \in raced => t \in raced'
         /\ t \in raced' => \/ t \in raced
                            \/ \E c \in Closers : CloseStep(c) /\ HandsBackAt(c) /\ worker_task[target[c]] = t
<1>1. ASSUME NEW w \in Workers, WorkStep(w) PROVE raced' = raced
  BY <1>1, WorkElsewhere
<1>2. ASSUME NEW c \in Closers, CloseStep(c)
      PROVE  raced' = raced \/ (HandsBackAt(c) /\ raced' = raced \cup {worker_task[target[c]]})
  BY <1>2, CloseEffect DEF CloseAt, ChecksAt, RaisesAt, HandsBackAt, LockedAt
<1>3. ASSUME ~\E c \in Closers : CloseStep(c) PROVE raced' = raced
  BY <1>1, <1>3, NextEffect DEF PingPut, MadeAt, ChosenAt, OutsideAt, HandedAt, AskedAt, FailedAt, GotAt, IdleAt,
                                Otherwise, Elsewhere
<1>4. QED
  BY <1>2, <1>3

LEMMA WorkerTaskNext ==
  ASSUME Types, Structure, Next, NEW w \in Workers, NEW t \in Tasks, worker_task'[w] = t
  PROVE  worker_task[w] = t \/ HandedAt(t, w) \/ t \in Range(task_queue[w])
<1> USE Apart
<1>1. ASSUME Stays(w) PROVE worker_task[w] = t
  BY <1>1 DEF Stays, KeepsTask
<1>2. ASSUME NEW v \in Workers, WorkStep(v), v # w PROVE Stays(w)
  BY <1>2, WorkElsewhere DEF Same, Stays
<1>3. ASSUME WorkStep(w) PROVE worker_task[w] = t \/ t \in Range(task_queue[w])
  <2>1. CASE GiveBackAt(w)
    BY <2>1, TakeAndClose DEF GiveBackAt
  <2>2. CASE ~GiveBackAt(w)
    BY <1>3, <2>2, WorkEffect DEF WorksAt, TopAt, NoneAt, PingAt, SendAt, FailAt, CloseFailedAt,
                  AnswerAt, BodyFailsAt, BodyShortAt, BodyEndsAt, AfterAt, KeepsTask
  <2>3. QED
    BY <2>1, <2>2
<1>4. ASSUME NEW c \in Closers, CloseStep(c) PROVE worker_task[w] = t
  <2>1. CloseAt(c)
    BY <1>4, CloseEffect
  <2>2. CASE ChecksAt(c) \/ HandsBackAt(c)
    BY <1>1, <2>2 DEF ChecksAt, HandsBackAt
  <2>3. CASE RaisesAt(c)
    BY <1>1, <2>3 DEF RaisesAt
  <2>4. CASE LockedAt(c)
    BY <1>1, <2>4 DEF LockedAt
  <2>5. QED
    BY <2>1, <2>2, <2>3, <2>4 DEF CloseAt
<1>5. ASSUME NEW v \in Workers, PingPut(v) \/ MadeAt(v) \/ \E c \in Closers : OutsideAt(c, v)
      PROVE  worker_task[w] = t
  BY <1>1, <1>5 DEF PingPut, MadeAt, OutsideAt, KeepsTask
<1>6. ASSUME NEW v \in Workers, HandedAt(d_task, v) PROVE worker_task[w] = t \/ HandedAt(t, w)
  <2>1. CASE v = w
    BY <1>6, <2>1 DEF HandedAt
  <2>2. CASE v # w
    BY <1>1, <1>6, <2>2 DEF HandedAt
  <2>3. QED
    BY <2>1, <2>2
<1>7. ASSUME Elsewhere PROVE Stays(w)
  BY <1>7 DEF Elsewhere
<1>8. QED
  BY <1>1, <1>2, <1>3, <1>4, <1>5, <1>6, <1>7, NextEffect DEF ChosenAt, AskedAt, FailedAt, GotAt, IdleAt

LEMMA GotHead ==
  ASSUME Types, NEW x \in Tasks, GotAt(x)
  PROVE  /\ x \in Range(request_queue)
         /\ Once(request_queue, x) => x \notin Range(request_queue') /\ Once(request_queue', x)
<1>1. request_queue \in Seq(Tasks \cup {None}) /\ request_queue # <<>> /\ request_queue' = Tail(request_queue)
      /\ Head(request_queue) = x
  BY DEF Types, TaskTypes, GotAt
<1>2. QED
  BY <1>1, TailQueue

LEMMA NewNext ==
  ASSUME Types, Structure, AnswerInv, Next, NEW t \in Tasks
  PROVE  New(t)'
<1> USE Apart
<1>1. SUFFICES ASSUME caller'[t] = "out"
               PROVE  /\ t \notin raced' /\ ~responsed'[t]
                      /\ t \notin Range(request_queue') /\ d_task' # t
                      /\ \A w \in Workers : worker_task'[w] # t /\ doing'[w] # t /\ t \notin Range(task_queue'[w])
  BY DEF New
<1>2. /\ t \notin raced /\ ~responsed[t]
      /\ t \notin Range(request_queue) /\ d_task # t
      /\ \A w \in Workers : worker_task[w] # t /\ doing[w] # t /\ t \notin Range(task_queue[w])
  BY <1>1, CallerNext DEF AnswerInv, New
<1>3. ASSUME NEW c \in Closers, CloseStep(c), HandsBackAt(c), worker_task[target[c]] = t PROVE FALSE
  <2>1. target[c] \in Workers
    BY <1>3, CloseEffect DEF CloseAt
  <2>2. QED
    BY <1>2, <1>3, <2>1
<1>4. ~Touched(t)
  BY <1>1, <1>2, <1>3, CallerNext, GotHead DEF Touched, FailedAt
<1>5. t \notin raced'
  BY <1>2, <1>3, RacedNext
<1>6. ~responsed'[t] /\ t \notin Range(request_queue') /\ d_task' # t
  BY <1>2, <1>4, Untouched
<1>7. ASSUME NEW w \in Workers PROVE worker_task'[w] # t /\ doing'[w] # t /\ t \notin Range(task_queue'[w])
  <2>1. ~HandedAt(t, w)
    BY <1>2 DEF HandedAt
  <2>2. worker_task'[w] # t
    BY <1>2, <2>1, WorkerTaskNext
  <2>3. doing'[w] # t
    BY <1>2, <2>1, DoingNext DEF Queued
  <2>4. t \notin Range(task_queue'[w])
    BY <1>2, <2>1, QueuedNext
  <2>5. QED
    BY <2>2, <2>3, <2>4
<1>8. QED
  BY <1>5, <1>6, <1>7

LEMMA AloneShrinks ==
  ASSUME NEW t \in Tasks, Alone(t), Once(request_queue', t),
         t \in Range(request_queue') => t \in Range(request_queue), d_task' = t => d_task = t,
         \A w \in Workers : Has(t, w)' => Has(t, w)
  PROVE  Alone(t)'
BY DEF Alone

LEMMA FreshShrinks ==
  ASSUME NEW t \in Tasks, Fresh(t)',
         t \in Range(request_queue') => t \in Range(request_queue), d_task' = t => d_task = t,
         \A w \in Workers : FreshAt(t, w)' => FreshAt(t, w)
  PROVE  Fresh(t)
BY DEF Fresh

\* A task that is given back to the dispatcher, and to nobody else.
LEMMA Released ==
  ASSUME Types, NEW t \in Tasks, RetryTask(t), Alone(t), Answers(t),
         t \notin Range(request_queue), d_task' # t, \A w \in Workers : ~Has(t, w)'
  PROVE  Alone(t)' /\ Answers(t)'
<1>1. request_queue \in Seq(Tasks \cup {None}) /\ Once(request_queue, t)
  BY DEF Types, TaskTypes, Alone
<1>2. \A w \in Workers : ~FreshAt(t, w)'
  BY FreshHas DEF FreshAt, Has
<1>3. Once(request_queue', t)
  <2>1. Once(Append(request_queue, t), t)
    BY <1>1, AppendQueue
  <2>2. request_queue' \in {request_queue, Append(request_queue, t)}
    BY RetryEffect
  <2>3. QED
    BY <1>1, <2>1, <2>2
<1>4. Alone(t)'
  BY <1>3 DEF Alone
<1>5. Answers(t)'
  <2>1. CASE /\ responsed[t] /\ responsed'[t] /\ UNCHANGED <<request_queue, answers>>
    BY <1>2, <2>1 DEF Answers, Fresh
  <2>2. CASE /\ ~responsed[t] /\ responsed'[t] /\ answers'[t] = answers[t] + 1 /\ UNCHANGED request_queue
    BY <1>2, <2>2 DEF Answers, Fresh
  <2>3. CASE ~responsed[t] /\ UNCHANGED <<responsed, finished, answers>>
    BY <2>3 DEF Answers
  <2>4. QED
    BY <2>1, <2>2, <2>3, RetryEffect
<1>6. QED
  BY <1>4, <1>5

\* A task that fails in the dispatcher's hands.
LEMMA FailsInHand ==
  ASSUME Types, Structure, Next, NEW t \in Tasks, Alone(t), Answers(t),
         d_task = t, ResponseFail(t), d_task' # t, request_queue' = request_queue
  PROVE  Alone(t)' /\ Answers(t)'
<1>1. ~responsed[t] /\ answers[t] = 0
  BY DEF Answers, Fresh
<1>2. responsed'[t] /\ answers'[t] = 1
  BY <1>1, FailEffect
<1>3. \A w \in Workers : ~HandedAt(t, w)
  BY <1>1, <1>2 DEF HandedAt, Otherwise
<1>4. \A w \in Workers : ~Has(t, w)
  BY DEF Alone
<1>5. \A w \in Workers : ~Has(t, w)'
  BY <1>3, <1>4, HasNext
<1>6. t \notin Range(request_queue) /\ Once(request_queue, t)
  BY DEF Alone
<1>7. Alone(t)'
  BY <1>5, <1>6 DEF Alone
<1>8. \A w \in Workers : ~FreshAt(t, w)'
  BY <1>5 DEF FreshAt, Has
<1>9. ~Fresh(t)'
  BY <1>6, <1>8 DEF Fresh
<1>10. QED
  BY <1>2, <1>7, <1>9 DEF Answers

LEMMA HandedIsAlone ==
  ASSUME Types, Structure, Next, NEW t \in Tasks, Alone(t), Answers(t), NEW w \in Workers, HandedAt(t, w)
  PROVE  Alone(t)' /\ Answers(t)'
<1>1. /\ d_task = t /\ d_task' # t /\ d_worker = w /\ Otherwise /\ request_queue' = request_queue
  BY Apart DEF HandedAt
<1>2. t \notin Range(request_queue) /\ Once(request_queue, t) /\ \A v \in Workers : ~Has(t, v)
  BY <1>1 DEF Alone
<1>3. \A v \in Workers \ {w} : ~HandedAt(t, v)
  BY <1>1 DEF HandedAt
<1>4. \A v \in Workers \ {w} : ~Has(t, v)'
  BY <1>2, <1>3, HasNext
<1>5. Alone(t)'
  BY <1>1, <1>2, <1>4 DEF Alone
<1>6. ~responsed[t] /\ answers[t] = 0
  BY <1>1 DEF Answers, Fresh
<1>7. QED
  BY <1>1, <1>5, <1>6 DEF Answers, Otherwise

LEMMA AskedIsAlone ==
  ASSUME Types, Structure, Next, NEW t \in Tasks, New(t), Answers(t), AskedAt(t)
  PROVE  Alone(t)' /\ Answers(t)'
<1>1. /\ ~responsed[t] /\ t \notin Range(request_queue) /\ d_task # t
      /\ \A w \in Workers : worker_task[w] # t /\ doing[w] # t /\ t \notin Range(task_queue[w])
  BY DEF New, AskedAt
<1>2. \A w \in Workers : ~Has(t, w)
  BY <1>1 DEF Has, Queued, Kept
<1>3. \A w \in Workers : ~HandedAt(t, w)
  BY <1>1 DEF HandedAt
<1>4. \A w \in Workers : ~Has(t, w)'
  BY <1>2, <1>3, HasNext
<1>5. request_queue \in Seq(Tasks \cup {None}) /\ request_queue' = Append(request_queue, t)
  BY DEF Types, TaskTypes, AskedAt
<1>6. Once(request_queue, t)
  BY <1>1, <1>5, RangeOf DEF Once
<1>7. Once(request_queue', t)
  BY <1>1, <1>5, <1>6, AppendQueue
<1>8. d_task' # t
  BY <1>1 DEF AskedAt, HandsSame
<1>9. Alone(t)'
  BY <1>4, <1>7, <1>8 DEF Alone
<1>10. ~responsed'[t] /\ answers'[t] = 0
  BY <1>1 DEF Answers, AskedAt, Otherwise
<1>11. QED
  BY <1>9, <1>10 DEF Answers

LEMMA GotIsAlone ==
  ASSUME Types, Structure, Next, NEW t \in Tasks, Alone(t), Answers(t), GotAt(t)
  PROVE  Alone(t)' /\ Answers(t)'
<1>1. t \in Range(request_queue) /\ t \notin Range(request_queue') /\ Once(request_queue', t)
  BY GotHead DEF Alone
<1>2. \A w \in Workers : ~Has(t, w) /\ ~HandedAt(t, w)
  BY <1>1, Apart DEF Alone, GotAt, HandedAt
<1>3. \A w \in Workers : ~Has(t, w)'
  BY <1>2, HasNext
<1>4. Alone(t)'
  BY <1>1, <1>3 DEF Alone
<1>5. ~responsed[t] /\ answers[t] = 0
  BY <1>1 DEF Answers, Fresh
<1>6. QED
  BY <1>4, <1>5 DEF Answers, GotAt, Otherwise

\* What the worker that has t does to it.
LEMMA WorkedIsAlone ==
  ASSUME Types, Structure, Next, NEW t \in Tasks, Alone(t), Answers(t),
         NEW w \in Workers, WorkStep(w), doing[w] = t, FailAt(w) \/ AnswerAt(w) \/ BodyEndsAt(w)
  PROVE  Alone(t)' /\ Answers(t)'
<1>0. WorkInv(w) /\ t # None
  BY Apart DEF Structure
<1>1. Has(t, w)
  BY DEF Has
<1>2. /\ t \notin Range(request_queue) /\ d_task # t /\ Once(request_queue, t)
      /\ \A v \in Workers : Has(t, v) => v = w
  BY <1>1 DEF Alone
<1>3. \A v \in Workers : ~HandedAt(t, v)
  BY <1>2 DEF HandedAt
<1>4. \A v \in Workers : (Has(t, v)' => Has(t, v)) /\ (FreshAt(t, v)' => FreshAt(t, v))
  BY <1>3, HasNext
<1>5. d_task' = d_task
  BY WorkElsewhere
<1>6. Empty(w) /\ KeepsQueue(w)
  BY <1>0 DEF WorkInv, Occupied, FailAt, AnswerAt, BodyEndsAt
<1>7. t \notin Range(task_queue'[w])
  BY <1>6 DEF Empty, KeepsQueue
<1>8. CASE FailAt(w)
  <2>1. doing'[w] # t /\ work_loop'[w] = "failed" /\ RetryTask(t)
    BY <1>0, <1>8 DEF FailAt
  <2>2. ~Has(t, w)'
    BY <1>7, <2>1 DEF Has, Queued, Kept
  <2>3. \A v \in Workers : ~Has(t, v)'
    BY <1>2, <1>4, <2>2
  <2>4. QED
    BY <1>2, <1>5, <2>1, <2>3, Released
<1>9. CASE AnswerAt(w)
  <2>1. work_loop[w] = "road" /\ work_loop'[w] = "body" /\ Answer(t) /\ request_queue' = request_queue
    BY <1>9 DEF AnswerAt
  <2>2. Alone(t)'
    BY <1>2, <1>4, <1>5, <2>1, AloneShrinks
  <2>3. ~FreshAt(t, w)'
    BY <1>7, <2>1 DEF FreshAt, Queued
  <2>4. \A v \in Workers : ~FreshAt(t, v)'
    BY <1>2, <1>4, <2>3, FreshHas
  <2>5. ~Fresh(t)'
    BY <1>2, <1>5, <2>1, <2>4 DEF Fresh
  <2>6. Fresh(t)
    BY <2>1 DEF Fresh, FreshAt
  <2>7. answers[t] = 0
    BY <2>6 DEF Answers
  <2>8. responsed'[t] /\ answers'[t] = 1
    BY <2>1, <2>7, AnswerEffect
  <2>9. QED
    BY <2>2, <2>5, <2>8 DEF Answers
<1>10. CASE BodyEndsAt(w)
  <2>1. UNCHANGED <<request_queue, responsed, answers>>
    BY <1>10 DEF BodyEndsAt
  <2>2. Alone(t)'
    BY <1>2, <1>4, <1>5, <2>1, AloneShrinks
  <2>3. Fresh(t)' => Fresh(t)
    BY <1>4, <1>5, <2>1, FreshShrinks
  <2>4. QED
    BY <2>1, <2>2, <2>3 DEF Answers
<1>11. QED
  BY <1>8, <1>9, <1>10

\* A close that hands back its own task, or that of a worker that has ended.
LEMMA BackByOwn ==
  ASSUME Types, Structure, Next, NEW t \in Tasks, t \notin raced',
         NEW c \in Closers, CloseStep(c), HandsBackAt(c), worker_task[target[c]] = t
  PROVE  \E w \in Workers :
            /\ target[c] = w
            /\ c = w \/ work_loop[w] = "ended"
            /\ Kept(t, w) /\ Clears(w)'
            /\ ~responsed[t] => doing[w] # t
            /\ ~Queued(t, w)
<1>1. PICK w \in Workers : target[c] = w
  BY CloseEffect DEF CloseAt
<1>2. closing[c] = "use" /\ closing'[c] = "clear" /\ target' = target /\ ~Races(c, w)
  BY <1>1, CloseEffect DEF HandsBackAt, CloseAt
<1>3. CloserInv(c) /\ WorkInv(w) /\ t # None
  BY Apart DEF Structure
<1>4. c = w \/ work_loop[w] = "ended"
  BY <1>2 DEF Races
<1>5. ~Clears(w)
  BY <1>2 DEF Races, Clears
<1>6. c = w => work_loop[w] \in {"after", "end", "ended"}
  BY <1>2, <1>3 DEF CloserInv
<1>7. Kept(t, w)
  BY <1>1, <1>4, <1>5, <1>6 DEF Kept
<1>8. Clears(w)'
  BY <1>1, <1>2 DEF Clears
<1>9. ~responsed[t] => doing[w] # t
  BY <1>3, <1>4, <1>6 DEF WorkInv
<1>10. work_loop[w] # "ended" => Empty(w)
  BY <1>2, <1>3, <1>4, <1>6 DEF WorkInv, Occupied
<1>11. ~Queued(t, w)
  BY <1>10 DEF Queued, Empty
<1>12. QED
  BY <1>1, <1>4, <1>7, <1>8, <1>9, <1>11

LEMMA BackIsAlone ==
  ASSUME Types, Structure, Next, NEW t \in Tasks, t \notin raced', Alone(t), Answers(t),
         NEW c \in Closers, CloseStep(c), HandsBackAt(c), worker_task[target[c]] = t
  PROVE  Alone(t)' /\ Answers(t)'
<1>1. PICK w \in Workers : /\ target[c] = w /\ Kept(t, w) /\ Clears(w)'
                           /\ ~responsed[t] => doing[w] # t
                           /\ ~Queued(t, w)
  BY BackByOwn
<1>2. /\ Kept(t, w) /\ Clears(w)' /\ (~responsed[t] => doing[w] # t) /\ ~Queued(t, w)
  BY <1>1
<1>3. RetryTask(t) /\ d_task' = d_task /\ doing'[w] = doing[w]
  BY <1>1 DEF HandsBackAt, HandsSame, Stays, KeepsTask
<1>4. Has(t, w)
  BY <1>2 DEF Has
<1>5. /\ t \notin Range(request_queue) /\ d_task # t /\ Once(request_queue, t)
      /\ \A v \in Workers : Has(t, v) => v = w
  BY <1>4 DEF Alone
<1>6. \A v \in Workers : ~HandedAt(t, v)
  BY <1>5 DEF HandedAt
<1>7. \A v \in Workers : (Has(t, v)' => Has(t, v)) /\ (FreshAt(t, v)' => FreshAt(t, v))
  BY <1>6, HasNext
<1>8. CASE responsed[t]
  <2>1. UNCHANGED <<request_queue, answers>> /\ responsed'[t]
    BY <1>3, <1>8, RetryEffect
  <2>2. Alone(t)'
    BY <1>3, <1>5, <1>7, <2>1, AloneShrinks
  <2>3. Fresh(t)' => Fresh(t)
    BY <1>3, <1>7, <2>1, FreshShrinks
  <2>4. QED
    BY <1>8, <2>1, <2>2, <2>3 DEF Answers
<1>9. CASE ~responsed[t]
  <2>1. ~Queued(t, w)'
    BY <1>2, <1>6, QueuedNext, EndedNext DEF Queued
  <2>2. ~Has(t, w)'
    BY <1>2, <1>3, <1>9, <2>1 DEF Has, Kept
  <2>3. \A v \in Workers : ~Has(t, v)'
    BY <1>5, <1>7, <2>2
  <2>4. QED
    BY <1>3, <1>5, <2>3, Released
<1>10. QED
  BY <1>8, <1>9

LEMMA AnswerNext ==
  ASSUME Types, Structure, AnswerInv, Next
  PROVE  AnswerInv'
<1>1. ASSUME NEW t \in Tasks \ raced' PROVE Alone(t)' /\ Answers(t)'
  <2>1. t \in Tasks /\ t \notin raced /\ New(t) /\ Alone(t) /\ Answers(t)
    BY <1>1, RacedNext DEF AnswerInv
  <2>2. CASE ~Touched(t) /\ \A w \in Workers : ~HandedAt(t, w)
    <3>1. /\ responsed'[t] = responsed[t] /\ answers'[t] = answers[t]
          /\ t \in Range(request_queue') => t \in Range(request_queue)
          /\ Once(request_queue', t) /\ (d_task' = t => d_task = t)
      BY <2>1, <2>2, Untouched DEF Alone
    <3>2. \A w \in Workers : (Has(t, w)' => Has(t, w)) /\ (FreshAt(t, w)' => FreshAt(t, w))
      BY <2>1, <2>2, HasNext
    <3>3. Alone(t)'
      BY <2>1, <3>1, <3>2, AloneShrinks
    <3>4. Fresh(t)' => Fresh(t)
      BY <2>1, <3>1, <3>2, FreshShrinks
    <3>5. QED
      BY <2>1, <3>1, <3>3, <3>4 DEF Answers
  <2>3. CASE \E w \in Workers : HandedAt(t, w)
    BY <2>1, <2>3, HandedIsAlone
  <2>4. CASE Touched(t)
    <3>1. CASE \E w \in Workers : WorkStep(w) /\ doing[w] = t /\ (FailAt(w) \/ AnswerAt(w) \/ BodyEndsAt(w))
      BY <2>1, <3>1, WorkedIsAlone
    <3>2. CASE \E c \in Closers : CloseStep(c) /\ HandsBackAt(c) /\ worker_task[target[c]] = t
      BY <1>1, <2>1, <3>2, BackIsAlone
    <3>3. CASE \E c \in Closers : CloseStep(c) /\ RaisesAt(c) /\ c = "dispatcher" /\ d_task = t
      <4>1. ResponseFail(t) /\ d_task' # t /\ request_queue' = request_queue /\ d_task = t
        BY <2>1, <3>3, Apart DEF RaisesAt
      <4>2. QED
        BY <2>1, <4>1, FailsInHand
    <3>4. CASE FailedAt(t)
      <4>1. ResponseFail(t) /\ d_task' # t /\ request_queue' = request_queue /\ d_task = t
        BY <2>1, <3>4, Apart DEF FailedAt
      <4>2. QED
        BY <2>1, <4>1, FailsInHand
    <3>5. QED
      BY <2>1, <2>4, <3>1, <3>2, <3>3, <3>4, AskedIsAlone, GotIsAlone DEF Touched
  <2>5. QED
    BY <2>2, <2>3, <2>4
<1>2. \A t \in Tasks : New(t)'
  BY NewNext
<1>3. QED
  BY <1>1, <1>2 DEF AnswerInv

-----------------------------------------------------------------------------
(***************************************************************************)
(* A worker that works on a task, or will take it from its queue before it *)
(* is told to exit, still has it as its own task, and no close has handed  *)
(* it back; so a close of this worker finishes the task if it was answered.*)
(***************************************************************************)
Taken(t, w) == First(task_queue[w], t) /\ work_loop[w] # "ended"

Own(t, w) == worker_task[w] = t /\ ~Clears(w)

OwnInv(t, w) == (doing[w] = t /\ ~finished[t]) \/ Taken(t, w) => Own(t, w)

BodyHeldBy(t, w) == doing[w] = t \/ (InClose(t, w) /\ Kept(t, w))

BodyInv ==
    \A t \in Tasks \ raced :
        /\ \A w \in Workers : OwnInv(t, w)
        /\ responsed[t] /\ ~finished[t] => \E w \in Workers : BodyHeldBy(t, w)

LEMMA FirstInRange ==
  ASSUME Types, NEW w \in Workers, NEW t, First(task_queue[w], t)
  PROVE  t \in Range(task_queue[w])
<1>1. task_queue[w] \in Seq(Items)
  BY DEF Types, WorkerTypes
<1>2. QED
  BY <1>1, RangeOf DEF First

LEMMA BodyInit == Init => BodyInv
<1> SUFFICES ASSUME Init PROVE BodyInv
  OBVIOUS
<1>1. ASSUME NEW t \in Tasks, NEW w \in Workers PROVE OwnInv(t, w)
  <2>1. Types
    BY TypesInit
  <2>2. ~First(task_queue[w], t)
    BY <2>1, FirstInRange, EmptyQueue DEF Init
  <2>3. doing[w] # t
    BY Apart DEF Init
  <2>4. QED
    BY <2>2, <2>3 DEF OwnInv, Taken
<1>2. \A t \in Tasks : ~responsed[t]
  BY DEF Init
<1>3. QED
  BY <1>1, <1>2 DEF BodyInv

LEMMA TakenNext ==
  ASSUME Types, Structure, Next, NEW w \in Workers, NEW t \in Tasks, Taken(t, w)'
  PROVE  \/ Taken(t, w)
         \/ HandedAt(t, w) /\ None \notin Range(task_queue[w]) /\ work_loop[w] # "ended"
<1> USE Apart
<1>1. First(task_queue'[w], t) /\ work_loop[w] # "ended" /\ work_loop'[w] # "ended" /\ t # None /\ t # Ping
  BY EndedNext DEF Taken
<1>2. SUFFICES First(task_queue[w], t) \/ (HandedAt(t, w) /\ None \notin Range(task_queue[w]))
  BY <1>1 DEF Taken
<1>3. CASE KeepsQueue(w)
  BY <1>1, <1>3 DEF KeepsQueue
<1>4. CASE Puts(w, None) \/ Puts(w, Ping)
  BY <1>1, <1>4, PutInto DEF Items
<1>5. CASE Takes(w) /\ Head(task_queue[w]) # None
  BY <1>1, <1>5, TakeFrom
<1>6. CASE HandedAt(d_task, w)
  <2>1. Puts(w, d_task) /\ d_task \in Items
    BY <1>6 DEF HandedAt, Items
  <2>2. First(task_queue[w], t) \/ (t = d_task /\ None \notin Range(task_queue[w]))
    BY <1>1, <2>1, PutInto
  <2>3. QED
    BY <1>6, <2>2
<1>7. QED
  BY <1>1, <1>3, <1>4, <1>5, <1>6, QueueMoves

\* The worker's thread, which takes the task as its own.
LEMMA OwnWorks ==
  ASSUME Types, Structure, BodyInv, Next, NEW w \in Workers, WorkStep(w), NEW t \in Tasks \ raced, OwnInv(t, w)
  PROVE  OwnInv(t, w)'
<1> USE Apart
<1>0. WorkInv(w) /\ t # None /\ t # Ping /\ (Clears(w)' <=> Clears(w)) /\ WorksAt(w) /\ t \in Tasks
  BY WorkEffect, ClearsWork DEF Structure
<1>1. SUFFICES ASSUME (doing'[w] = t /\ ~finished'[t]) \/ Taken(t, w)' PROVE worker_task'[w] = t /\ ~Clears(w)
  BY <1>0 DEF OwnInv, Own
<1>2. ~HandedAt(t, w)
  <2>1. HandedAt(t, w) => d_task # d_task'
    BY <1>0 DEF HandedAt
  <2>2. QED
    BY <2>1, WorkElsewhere
<1>3. CASE SendAt(w)
  <2>1. Taken(t, w)
    <3>1. doing'[w] = t \/ Taken(t, w)'
      BY <1>1
    <3>2. doing'[w] = t => First(task_queue[w], t) /\ work_loop[w] = "get"
      BY <1>3, TakeFrom DEF SendAt
    <3>3. QED
      BY <1>2, <3>1, <3>2, TakenNext DEF Taken
  <2>2. worker_task'[w] = worker_task[w]
    BY <1>3 DEF SendAt
  <2>3. QED
    BY <2>1, <2>2 DEF OwnInv, Own
<1>4. CASE ~SendAt(w)
  <2>1. doing'[w] \in {doing[w], None}
    BY <1>0, <1>4 DEF WorksAt, TopAt, NoneAt, PingAt, GiveBackAt, FailAt, CloseFailedAt,
                  AnswerAt, BodyFailsAt, BodyShortAt, BodyEndsAt, AfterAt, KeepsTask
  <2>2. (doing[w] = t /\ ~finished[t]) \/ Taken(t, w)
    BY <1>0, <1>1, <1>2, <2>1, NothingUndone, TakenNext
  <2>3. worker_task[w] = t /\ ~Clears(w)
    BY <2>2 DEF OwnInv, Own
  <2>4. CASE GiveBackAt(w) \/ CloseFailedAt(w) \/ BodyEndsAt(w)
    <3>1. doing'[w] # t
      BY <1>0, <2>4 DEF WorkInv, GiveBackAt, CloseFailedAt, BodyEndsAt
    <3>2. Taken(t, w)
      BY <1>1, <1>2, <3>1, TakenNext
    <3>3. t \in Range(task_queue[w])
      BY <3>2, FirstInRange DEF Taken
    <3>4. GiveBackAt(w)
      BY <1>0, <2>4, <3>3 DEF WorkInv, Occupied, Empty, CloseFailedAt, BodyEndsAt
    <3>5. Taken(t, w)' => FALSE
      BY <3>4 DEF GiveBackAt, Taken
    <3>6. QED
      BY <1>1, <3>1, <3>5
  <2>5. CASE ~(GiveBackAt(w) \/ CloseFailedAt(w) \/ BodyEndsAt(w))
    <3>1. worker_task'[w] = worker_task[w]
      BY <1>0, <2>5 DEF WorksAt, TopAt, NoneAt, PingAt, SendAt, FailAt, AnswerAt, BodyFailsAt, BodyShortAt, AfterAt, KeepsTask
    <3>2. QED
      BY <2>3, <3>1
  <2>6. QED
    BY <2>4, <2>5
<1>5. QED
  BY <1>3, <1>4

\* A close.  It hands back a task of which the worker's thread knows only if it
\* is that thread's own, and then the task was answered, and is finished.
LEMMA OwnCloses ==
  ASSUME Types, Structure, Next, NEW c \in Closers, CloseStep(c),
         NEW w \in Workers, NEW t \in Tasks, t \notin raced', OwnInv(t, w)
  PROVE  OwnInv(t, w)'
<1> USE Apart
<1>0. CloseAt(c) /\ WorkInv(w) /\ CloserInv(c) /\ t # None
  BY CloseEffect DEF Structure
<1>1. SUFFICES ASSUME (doing'[w] = t /\ ~finished'[t]) \/ Taken(t, w)' PROVE Own(t, w)'
  BY DEF OwnInv
<1>2. ~HandedAt(t, w)
  <2>1. closing'[c] # closing[c]
    BY <1>0 DEF CloseAt, ChecksAt, RaisesAt, HandsBackAt, LockedAt
  <2>2. QED
    BY <2>1 DEF HandedAt
<1>3. doing'[w] \in {doing[w], None}
  BY <1>0 DEF CloseAt, ChecksAt, RaisesAt, HandsBackAt, LockedAt, Stays, KeepsTask
<1>4. (doing[w] = t /\ ~finished[t]) \/ Taken(t, w)
  BY <1>0, <1>1, <1>2, <1>3, NothingUndone, TakenNext
<1>5. worker_task[w] = t /\ ~Clears(w)
  BY <1>4 DEF OwnInv, Own
<1>6. CASE HandsBackAt(c) /\ target[c] = w
  <2>1. /\ c = w \/ work_loop[w] = "ended"
        /\ ~responsed[t] => doing[w] # t
        /\ ~Queued(t, w)
    BY <1>5, <1>6, BackByOwn
  <2>2. ~Taken(t, w)
    BY <2>1, FirstInRange DEF Taken, Queued
  <2>3. doing[w] = t /\ responsed[t] /\ doing'[w] = t /\ RetryTask(t)
    BY <1>4, <1>5, <1>6, <2>1, <2>2 DEF HandsBackAt, Stays, KeepsTask
  <2>4. finished'[t]
    BY <2>3, RetryEffect
  <2>5. QED
    BY <1>1, <1>2, <2>2, <2>4, TakenNext
<1>7. CASE ~(HandsBackAt(c) /\ target[c] = w)
  <2>1. ~(closing[c] = "clear" /\ target[c] = w)
    BY <1>5 DEF Clears
  <2>2. worker_task'[w] = worker_task[w]
    BY <1>0, <1>7, <2>1 DEF CloseAt, ChecksAt, RaisesAt, HandsBackAt, LockedAt, Stays, KeepsTask
  <2>3. w # target[c] \/ ChecksAt(c) \/ RaisesAt(c) \/ closing[c] = "lock"
    BY <1>0, <1>7, <2>1 DEF CloseAt, LockedAt
  <2>4. Clears(w)' <=> Clears(w)
    BY <1>0, <2>3, ClearsClose
  <2>5. QED
    BY <1>5, <2>2, <2>4 DEF Own
<1>8. QED
  BY <1>6, <1>7

LEMMA OwnNext ==
  ASSUME Types, Structure, BodyInv, Next, NEW w \in Workers, NEW t \in Tasks \ raced'
  PROVE  OwnInv(t, w)'
<1> USE Apart
<1>0. t \in Tasks \ raced /\ OwnInv(t, w) /\ WorkInv(w) /\ t \notin raced' /\ t # None /\ t \in Tasks
  BY RacedNext DEF BodyInv, Structure
<1>1. ASSUME KeepsTask(w), Clears(w)' <=> Clears(w), ~HandedAt(t, w) PROVE OwnInv(t, w)'
  <2>1. SUFFICES ASSUME (doing'[w] = t /\ ~finished'[t]) \/ Taken(t, w)' PROVE Own(t, w)'
    BY DEF OwnInv
  <2>2. (doing[w] = t /\ ~finished[t]) \/ Taken(t, w)
    BY <1>0, <1>1, <2>1, NothingUndone, TakenNext DEF KeepsTask
  <2>3. QED
    BY <1>0, <1>1, <2>2 DEF OwnInv, Own, KeepsTask
<1>2. ASSUME NEW v \in Workers, WorkStep(v) PROVE OwnInv(t, w)'
  <2>1. CASE v = w
    BY <1>0, <1>2, <2>1, OwnWorks
  <2>2. CASE v # w
    <3>1. KeepsTask(w) /\ d_task' = d_task
      BY <1>2, <2>2, WorkElsewhere DEF Same
    <3>2. ~HandedAt(t, w)
      BY <1>0, <3>1 DEF HandedAt
    <3>3. QED
      BY <1>1, <1>2, <3>1, <3>2, ClearsWork
  <2>3. QED
    BY <2>1, <2>2
<1>3. ASSUME NEW c \in Closers, CloseStep(c) PROVE OwnInv(t, w)'
  BY <1>0, <1>3, OwnCloses
<1>4. ASSUME NEW v \in Workers, NEW c \in Closers, OutsideAt(c, v) PROVE OwnInv(t, w)'
  <2>1. KeepsTask(w) /\ d_task' = d_task
    BY <1>4 DEF OutsideAt, Stays, HandsSame
  <2>2. ~HandedAt(t, w)
    BY <1>0, <2>1 DEF HandedAt
  <2>3. QED
    BY <1>1, <1>4, <2>1, <2>2, ClearsOutside
<1>5. ASSUME NEW v \in Workers, PingPut(v) \/ MadeAt(v) PROVE OwnInv(t, w)'
  <2>1. KeepsTask(w) /\ d_task' = d_task /\ UNCHANGED <<closing, target>>
    BY <1>5 DEF PingPut, MadeAt, Stays, HandsSame
  <2>2. ~HandedAt(t, w)
    BY <1>0, <2>1 DEF HandedAt
  <2>3. QED
    BY <1>1, <2>1, <2>2, ClearsSame
<1>6. ASSUME NEW v \in Workers, HandedAt(d_task, v) PROVE OwnInv(t, w)'
  <2>1. CASE v # w
    <3>1. KeepsTask(w) /\ UNCHANGED <<closing, target>> /\ ~HandedAt(t, w)
      BY <1>6, <2>1 DEF HandedAt, Stays
    <3>2. QED
      BY <1>1, <3>1, ClearsSame
  <2>2. CASE v = w
    <3>1. /\ d_worker = w /\ worker_task'[w] = d_task /\ doing'[w] = doing[w]
          /\ UNCHANGED <<closing, target>>
      BY <1>6, <2>2 DEF HandedAt
    <3>2. doing[w] = None /\ Empty(w)
      BY <1>0, <3>1 DEF WorkInv, Occupied
    <3>3. SUFFICES ASSUME Taken(t, w)' PROVE Own(t, w)'
      BY <1>0, <3>1, <3>2 DEF OwnInv
    <3>4. ~Taken(t, w)
      BY <1>0, <3>2, FirstInRange DEF Taken, Empty
    <3>5. HandedAt(t, w) /\ None \notin Range(task_queue[w]) /\ work_loop[w] # "ended"
      BY <1>0, <3>3, <3>4, TakenNext
    <3>6. \A c \in Closers : target[c] = w => closing[c] = "no"
      BY <3>5 DEF Structure, CloserInv, Told
    <3>7. ~Clears(w)
      BY <3>6 DEF Clears
    <3>8. QED
      BY <3>1, <3>5, <3>7, ClearsSame DEF Own, HandedAt
  <2>3. QED
    BY <2>1, <2>2
<1>7. ASSUME Elsewhere, ~HandedAt(t, w) PROVE OwnInv(t, w)'
  <2>1. KeepsTask(w) /\ UNCHANGED <<closing, target>>
    BY <1>7 DEF Elsewhere, Stays
  <2>2. QED
    BY <1>1, <1>7, <2>1, ClearsSame
<1>8. HandedAt(t, w) => HandedAt(d_task, w)
  BY DEF HandedAt
<1>9. QED
  BY <1>2, <1>3, <1>4, <1>5, <1>6, <1>7, <1>8, NextEffect DEF ChosenAt, AskedAt, FailedAt, GotAt, IdleAt

\* An answered task is given to nobody any more; its body is read where it is.
LEMMA BodyOf ==
  ASSUME Types, Structure, AnswerInv, BodyInv, NEW t \in Tasks \ raced, responsed[t], ~finished[t],
         NEW w \in Workers, doing[w] = t
  PROVE  worker_task[w] = t /\ ~Clears(w) /\ work_loop[w] \in {"body", "end"}
<1>1. OwnInv(t, w) /\ WorkInv(w) /\ Answers(t) /\ t # None
  BY Apart DEF BodyInv, AnswerInv, Structure
<1>2. work_loop[w] # "road"
  BY <1>1 DEF Answers, Fresh, FreshAt
<1>3. work_loop[w] \in {"road", "body", "end"}
  BY <1>1 DEF WorkInv
<1>4. QED
  BY <1>1, <1>2, <1>3 DEF OwnInv, Own

\* The worker's thread leaves the body to its close, or ends it.
LEMMA BodyWorks ==
  ASSUME Types, Structure, AnswerInv, BodyInv, Next, NEW t \in Tasks \ raced, responsed[t], ~finished'[t],
         NEW w \in Workers, BodyHeldBy(t, w), WorkStep(w)
  PROVE  BodyHeldBy(t, w)'
<1> USE Apart
<1>0. /\ t \in Tasks /\ t # None /\ ~finished[t] /\ WorkInv(w) /\ WorksAt(w) /\ w \in Closers
      /\ closing[w] = "no" /\ (Clears(w)' <=> Clears(w)) /\ target[w] \in Workers \cup {None}
  BY NothingUndone, WorkEffect, ClearsWork DEF Structure, Types, CloserTypes
<1>1. CASE doing[w] = t
  <2>1. worker_task[w] = t /\ ~Clears(w) /\ work_loop[w] \in {"body", "end"}
    BY <1>0, <1>1, BodyOf
  <2>2. ~BodyEndsAt(w)
    BY <1>0, <1>1, FinishEffect DEF BodyEndsAt
  <2>3. BodyFailsAt(w) \/ BodyShortAt(w)
    BY <1>0, <2>1, <2>2 DEF WorksAt, TopAt, NoneAt, PingAt, SendAt, GiveBackAt, FailAt, CloseFailedAt, AnswerAt, AfterAt
  <2>4. CASE BodyFailsAt(w)
    <3>1. /\ worker_task'[w] = t /\ work_loop'[w] = "after" /\ closing'[w] = "check" /\ target'[w] = w
      BY <2>1, <2>4 DEF BodyFailsAt, BeginsClose
    <3>2. InClose(t, w)'
      BY <1>0, <3>1 DEF InClose
    <3>3. Kept(t, w)'
      BY <1>0, <2>1, <3>1 DEF Kept
    <3>4. QED
      BY <3>2, <3>3 DEF BodyHeldBy
  <2>5. CASE BodyShortAt(w)
    BY <1>1, <2>5 DEF BodyShortAt, KeepsTask, BodyHeldBy
  <2>6. QED
    BY <2>3, <2>4, <2>5
<1>2. CASE doing[w] # t
  <2>1. /\ worker_task[w] = t /\ work_loop[w] # "failed" /\ ~Clears(w)
    BY <1>2 DEF BodyHeldBy, Kept
  <2>2. PICK c \in Closers : target[c] = w /\ closing[c] \in {"check", "use"}
    BY <1>2 DEF BodyHeldBy, InClose
  <2>3. c # w
    BY <1>0, <2>2
  <2>4. target'[c] = w /\ closing'[c] \in {"check", "use"}
    BY <2>2, <2>3, WorkElsewhere
  <2>5. worker_task'[w] = t /\ work_loop'[w] # "failed"
    <3>1. ~FailAt(w) /\ ~BodyEndsAt(w) /\ ~CloseFailedAt(w)
      BY <1>0, <1>2, <2>1 DEF WorkInv, FailAt, BodyEndsAt, CloseFailedAt
    <3>2. CASE GiveBackAt(w)
      <4>1. Head(task_queue[w]) \in Range(task_queue[w]) /\ Head(task_queue[w]) \in Tasks
        BY <1>0, <3>2, TakeAndClose DEF GiveBackAt
      <4>2. Head(task_queue[w]) = t
        BY <1>0, <2>1, <4>1 DEF WorkInv
      <4>3. QED
        BY <3>2, <4>2 DEF GiveBackAt
    <3>3. CASE ~GiveBackAt(w)
      BY <1>0, <2>1, <3>1, <3>3 DEF WorksAt, TopAt, NoneAt, PingAt, SendAt, AnswerAt, BodyFailsAt, BodyShortAt,
                                    AfterAt, KeepsTask
    <3>4. QED
      BY <3>2, <3>3
  <2>6. InClose(t, w)'
    BY <2>4, <2>5 DEF InClose
  <2>7. Kept(t, w)'
    BY <1>0, <2>1, <2>5 DEF Kept
  <2>8. QED
    BY <2>6, <2>7 DEF BodyHeldBy
<1>3. QED
  BY <1>1, <1>2

\* A close finishes it, or goes on; it does not find that the task has gone.
LEMMA BodyCloses ==
  ASSUME Types, Structure, AnswerInv, BodyInv, Next, NEW t \in Tasks \ raced, responsed[t], ~finished'[t],
         NEW w \in Workers, BodyHeldBy(t, w), NEW e \in Closers, CloseStep(e)
  PROVE  BodyHeldBy(t, w)'
<1> USE Apart
<1>0. /\ t \in Tasks /\ t # None /\ ~finished[t] /\ CloseAt(e) /\ CloserInv(e) /\ target' = target
      /\ \A c \in Closers \ {e} : closing'[c] = closing[c]
  BY NothingUndone, CloseEffect DEF Structure, CloseAt
<1>1. worker_task[w] = t /\ ~Clears(w)
  BY <1>0, BodyOf DEF BodyHeldBy, Kept
<1>2. ~(RaisesAt(e) /\ (e = w \/ target[e] = w))
  BY <1>0, <1>1 DEF RaisesAt, CloserInv
<1>3. ~(HandsBackAt(e) /\ target[e] = w)
  BY <1>0, <1>1, RetryEffect DEF HandsBackAt
<1>4. ~(closing[e] = "clear" /\ target[e] = w)
  BY <1>1 DEF Clears
<1>5. worker_task'[w] = t /\ doing'[w] = doing[w] /\ work_loop'[w] = work_loop[w]
  BY <1>0, <1>1, <1>2, <1>4 DEF CloseAt, ChecksAt, RaisesAt, HandsBackAt, LockedAt, Stays, KeepsTask, KeepsPlace
<1>6. CASE doing[w] = t
  BY <1>5, <1>6 DEF BodyHeldBy
<1>7. CASE doing[w] # t
  <2>1. InClose(t, w) /\ Kept(t, w)
    BY <1>7 DEF BodyHeldBy
  <2>2. PICK c \in Closers : target[c] = w /\ closing[c] \in {"check", "use"}
    BY <2>1 DEF InClose
  <2>3. closing'[c] \in {"check", "use"}
    <3>1. CASE c # e
      BY <1>0, <2>2, <3>1
    <3>2. CASE c = e
      BY <1>0, <1>1, <1>2, <1>3, <2>2, <3>2 DEF CloseAt, ChecksAt, LockedAt
    <3>3. QED
      BY <3>1, <3>2
  <2>4. InClose(t, w)'
    BY <1>0, <1>5, <2>2, <2>3 DEF InClose
  <2>5. w # target[e] \/ ChecksAt(e) \/ RaisesAt(e) \/ closing[e] = "lock"
    BY <1>0, <1>3, <1>4 DEF CloseAt, LockedAt
  <2>6. Clears(w)' <=> Clears(w)
    BY <1>0, <2>5, ClearsClose
  <2>7. Kept(t, w)'
    BY <1>1, <1>5, <2>1, <2>6 DEF Kept
  <2>8. QED
    BY <2>4, <2>7 DEF BodyHeldBy
<1>8. QED
  BY <1>6, <1>7

LEMMA BodyHeldNext ==
  ASSUME Types, Structure, AnswerInv, BodyInv, Next, NEW t \in Tasks \ raced, responsed[t], ~finished'[t],
         NEW w \in Workers, BodyHeldBy(t, w)
  PROVE  BodyHeldBy(t, w)'
<1> USE Apart
<1>0. WorkInv(w) /\ t \in Tasks /\ t # None /\ (doing[w] = t \/ worker_task[w] = t)
  BY DEF Structure, BodyHeldBy, Kept
<1>1. ASSUME KeepsTask(w), work_loop'[w] # "failed" \/ KeepsPlace(w), Clears(w)' <=> Clears(w),
             \A c \in Closers : target[c] = w /\ closing[c] \in {"check", "use"} =>
                                   target'[c] = w /\ closing'[c] \in {"check", "use"}
      PROVE  BodyHeldBy(t, w)'
  <2>1. CASE doing[w] = t
    BY <1>1, <2>1 DEF KeepsTask, BodyHeldBy
  <2>2. CASE doing[w] # t
    <3>1. InClose(t, w) /\ Kept(t, w)
      BY <2>2 DEF BodyHeldBy
    <3>2. Kept(t, w)'
      BY <1>1, <3>1 DEF Kept, KeepsTask, KeepsPlace
    <3>3. InClose(t, w)'
      BY <1>1, <3>1 DEF InClose, KeepsTask
    <3>4. QED
      BY <3>2, <3>3 DEF BodyHeldBy
  <2>3. QED
    BY <2>1, <2>2
<1>2. ASSUME NEW v \in Workers, WorkStep(v) PROVE BodyHeldBy(t, w)'
  <2>1. CASE v = w
    BY <1>2, <2>1, BodyWorks
  <2>2. CASE v # w
    <3>1. closing[v] = "no" /\ v \in Closers
      BY <1>2, WorkEffect
    <3>2. /\ KeepsTask(w) /\ KeepsPlace(w)
          /\ \A c \in Closers \ {v} : closing'[c] = closing[c] /\ target'[c] = target[c]
      BY <1>2, <2>2, WorkElsewhere DEF Same
    <3>3. \A c \in Closers : target[c] = w /\ closing[c] \in {"check", "use"} =>
                                target'[c] = w /\ closing'[c] \in {"check", "use"}
      BY <3>1, <3>2
    <3>4. QED
      BY <1>1, <1>2, <3>2, <3>3, ClearsWork
  <2>3. QED
    BY <2>1, <2>2
<1>3. ASSUME NEW v \in Workers, NEW c \in Closers, OutsideAt(c, v) PROVE BodyHeldBy(t, w)'
  <2>1. /\ KeepsTask(w) /\ KeepsPlace(w) /\ closing[c] = "no"
        /\ \A e \in Closers \ {c} : closing'[e] = closing[e] /\ target'[e] = target[e]
    BY <1>3 DEF OutsideAt, Stays
  <2>2. \A e \in Closers : target[e] = w /\ closing[e] \in {"check", "use"} =>
                              target'[e] = w /\ closing'[e] \in {"check", "use"}
    BY <2>1
  <2>3. QED
    BY <1>1, <1>3, <2>1, <2>2, ClearsOutside
<1>4. ASSUME UNCHANGED <<closing, target>>, KeepsTask(w), work_loop'[w] # "failed" \/ KeepsPlace(w)
      PROVE  BodyHeldBy(t, w)'
  BY <1>1, <1>4, ClearsSame
<1>5. ASSUME NEW v \in Workers, PingPut(v) \/ MadeAt(v)
      PROVE  UNCHANGED <<closing, target>> /\ KeepsTask(w) /\ (work_loop'[w] # "failed" \/ KeepsPlace(w))
  BY <1>5 DEF PingPut, MadeAt, Stays
<1>6. ASSUME NEW v \in Workers, HandedAt(d_task, v)
      PROVE  UNCHANGED <<closing, target>> /\ KeepsTask(w) /\ KeepsPlace(w)
  <2>1. v # w
    BY <1>0, <1>6 DEF HandedAt, WorkInv, Occupied
  <2>2. QED
    BY <1>6, <2>1 DEF HandedAt, Stays
<1>7. ASSUME Elsewhere PROVE UNCHANGED <<closing, target>> /\ KeepsTask(w) /\ KeepsPlace(w)
  BY <1>7 DEF Elsewhere, Stays
<1>8. QED
  BY <1>2, <1>3, <1>4, <1>5, <1>6, <1>7, BodyCloses, NextEffect DEF ChosenAt, AskedAt, FailedAt, GotAt, IdleAt

\* A task is answered by the worker that will read the body, or it fails and is finished.
LEMMA BodyBegins ==
  ASSUME Types, Structure, Next, NEW t \in Tasks, ~responsed[t], responsed'[t], ~finished'[t]
  PROVE  \E w \in Workers : doing'[w] = t
<1>1. Touched(t)
  BY Untouched
<1>2. ~RetryTask(t) /\ ~ResponseFail(t)
  BY RetryEffect, FailEffect
<1>3. ~FailedAt(t) /\ ~AskedAt(t) /\ ~GotAt(t)
  BY <1>2 DEF FailedAt, AskedAt, GotAt, Otherwise
<1>4. ASSUME NEW c \in Closers, CloseStep(c) PROVE ~(HandsBackAt(c) /\ worker_task[target[c]] = t)
  BY <1>2 DEF HandsBackAt
<1>5. ASSUME NEW c \in Closers, CloseStep(c) PROVE ~(RaisesAt(c) /\ c = "dispatcher" /\ d_task = t)
  BY <1>2 DEF RaisesAt
<1>6. PICK w \in Workers : WorkStep(w) /\ doing[w] = t /\ (FailAt(w) \/ AnswerAt(w) \/ BodyEndsAt(w))
  BY <1>1, <1>3, <1>4, <1>5 DEF Touched
<1>7. ~FailAt(w) /\ ~BodyEndsAt(w)
  BY <1>2, <1>6 DEF FailAt, BodyEndsAt
<1>8. doing'[w] = t
  BY <1>6, <1>7 DEF AnswerAt, KeepsTask
<1>9. QED
  BY <1>8

LEMMA BodyNext ==
  ASSUME Types, Structure, AnswerInv, BodyInv, Next
  PROVE  BodyInv'
<1>1. ASSUME NEW t \in Tasks \ raced', responsed'[t], ~finished'[t]
      PROVE  \E w \in Workers : BodyHeldBy(t, w)'
  <2>1. t \in Tasks \ raced /\ t \in Tasks /\ ~finished[t]
    BY <1>1, RacedNext, NothingUndone
  <2>2. CASE responsed[t]
    <3>1. PICK w \in Workers : BodyHeldBy(t, w)
      BY <2>1, <2>2 DEF BodyInv
    <3>2. BodyHeldBy(t, w)'
      BY <1>1, <2>1, <2>2, <3>1, BodyHeldNext
    <3>3. QED
      BY <3>2
  <2>3. CASE ~responsed[t]
    BY <1>1, <2>1, <2>3, BodyBegins DEF BodyHeldBy
  <2>4. QED
    BY <2>2, <2>3
<1>2. ASSUME NEW t \in Tasks \ raced', NEW w \in Workers PROVE OwnInv(t, w)'
  BY <1>2, OwnNext
<1>3. QED
  BY <1>1, <1>2 DEF BodyInv

-----------------------------------------------------------------------------
(* The theorems *)

IInv == Types /\ Structure /\ HeldInv /\ AnswerInv /\ BodyInv

LEMMA Stutter ==
  ASSUME IInv, UNCHANGED vars
  PROVE  IInv'
<1> USE DEF vars, taskVars, dispatcherVars, stopVars, workerVars, loopVars, closeVars
<1>1. Types'
  BY DEF IInv, Types, TaskTypes, WorkerTypes, CloserTypes, DispatcherTypes
<1>2. Structure'
  BY DEF IInv, Structure, CloserInv, Told, NewInv, WorkInv, Occupied, Empty
<1>3. \A w \in Workers : Clears(w)' <=> Clears(w)
  BY DEF Clears
<1>4. \A t \in Tasks, w \in Workers : (Kept(t, w)' <=> Kept(t, w)) /\ (Queued(t, w)' <=> Queued(t, w))
                                      /\ (InClose(t, w)' <=> InClose(t, w))
  BY <1>3 DEF Kept, Queued, InClose
<1>5. HeldInv'
  <2>1. \A t \in Tasks : (Pending(t)' => Pending(t)) /\ (Held(t) => Held(t)')
    BY <1>4 DEF Pending, Held, HeldBy
  <2>2. \A w \in Workers : InTime(w) => InTime(w)'
    BY <1>4 DEF InTime
  <2>3. QED
    BY <2>1, <2>2 DEF IInv, HeldInv
<1>6. AnswerInv'
  <2>1. \A t \in Tasks, w \in Workers : (Has(t, w)' <=> Has(t, w)) /\ (FreshAt(t, w)' <=> FreshAt(t, w))
    BY <1>4 DEF Has, FreshAt
  <2>2. \A t \in Tasks : (New(t) => New(t)') /\ (Alone(t) => Alone(t)') /\ (Answers(t) => Answers(t)')
    BY <2>1 DEF New, Alone, Answers, Fresh
  <2>3. QED
    BY <2>2 DEF IInv, AnswerInv
<1>7. BodyInv'
  <2>1. \A t \in Tasks, w \in Workers : (OwnInv(t, w) => OwnInv(t, w)') /\ (BodyHeldBy(t, w)' <=> BodyHeldBy(t, w))
    BY <1>3, <1>4 DEF OwnInv, Own, Taken, BodyHeldBy
  <2>2. QED
    BY <2>1 DEF IInv, BodyInv
<1>8. QED
  BY <1>1, <1>2, <1>5, <1>6, <1>7 DEF IInv

(***************************************************************************)
(* The inductive invariant of the dispatcher, its workers and the closes.  *)
(***************************************************************************)
THEOREM Invariant == Spec => []IInv
<1>1. Init => IInv
  BY TypesInit, StructureInit, HeldInit, AnswerInit, BodyInit DEF IInv
<1>2. IInv /\ [Next]_vars => IInv'
  <2>1. ASSUME IInv, Next PROVE IInv'
    BY <2>1, TypesNext, StructureNext, HeldNext, AnswerNext, BodyNext DEF IInv
  <2>2. QED
    BY <2>1, Stutter
<1>3. QED
  BY <1>1, <1>2, PTL DEF Spec

(***************************************************************************)
(* A task that a caller waits for is in the dispatcher's queue or hands,   *)
(* with a thread that works on it or will take it, or with a close that    *)
(* will retry it, whatever the closes of its worker do, unless it was      *)
(* handed to a worker that had been told to exit since it was chosen.      *)
(***************************************************************************)
THEOREM NothingForgotten == Spec => []NoTaskForgotten
<1>1. IInv => NoTaskForgotten
  BY DEF IInv, HeldInv, Pending, Held, HeldBy, Queued, NoTaskForgotten, Located
<1>2. QED
  BY <1>1, Invariant, PTL

(***************************************************************************)
(* A task is answered at most once, whatever fails and is retried, if it   *)
(* was not taken from a thread that works on it or handed back twice.      *)
(***************************************************************************)
THEOREM AnswersOnce == Spec => []AnsweredOnce
<1>1. IInv => AnsweredOnce
  BY DEF IInv, AnswerInv, Answers, AnsweredOnce
<1>2. QED
  BY <1>1, Invariant, PTL

(***************************************************************************)
(* Somebody still has to end the body of an answered task: the thread that *)
(* reads it, or a close that finds the task with the worker.               *)
(***************************************************************************)
THEOREM BodiesEnd == Spec => []BodyWillEnd
<1>1. IInv => BodyWillEnd
  BY DEF IInv, BodyInv, BodyHeldBy, BodyWillEnd
<1>2. QED
  BY <1>1, Invariant, PTL

=============================================================================
