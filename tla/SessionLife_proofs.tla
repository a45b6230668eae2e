-------------------------- MODULE SessionLife_proofs --------------------------
(* A running session works under the session_id the server has accepted last. *)
EXTENDS SessionLife, FiniteSetTheorems, TLAPS

\* A task that logs the session in holds the lock, and nobody has taken the
\* session_id it sends for an accepted one.
LoginHolds ==
    \A p \in Procs : at[p] = "login" => lock = p /\ ~running /\ session_id = lives + 1

LifeInv == DOMAIN at = Procs /\ lives \in Nat /\ LoggedIn /\ LoginHolds

\* What most steps do: they leave the session's numbers alone, move one task from a
\* place that is not a login's to another, and take the lock only when it is free.
Quietly(p) ==
    /\ UNCHANGED <<session_id, lives, accepted>>
    /\ running' => running
    /\ DOMAIN at' = Procs /\ \A q \in Procs : q # p => at'[q] = at[q]
    /\ at'[p] # "login"
    /\ lock' = lock \/ lock \in {NoOne, p}

LEMMA InitLife == Init => LifeInv
BY DEF Init, LifeInv, LoggedIn, LoginHolds

\* Such a step keeps the invariant: a login of another task holds the lock all along.
LEMMA QuietlyKeeps ==
    ASSUME LifeInv, NEW p \in Procs, Quietly(p)
    PROVE  LifeInv'
<1>1. DOMAIN at' = Procs /\ lives' \in Nat
  BY DEF LifeInv, Quietly
<1>2. LoggedIn'
  BY DEF LifeInv, LoggedIn, Quietly
<1>3. ASSUME NEW q \in Procs, at'[q] = "login"
      PROVE  lock' = q /\ ~running' /\ session_id' = lives' + 1
  <2>1. q # p /\ at[q] = "login"
    BY <1>3 DEF Quietly
  <2>2. lock = q /\ ~running /\ session_id = lives + 1
    BY <2>1 DEF LifeInv, LoginHolds
  <2>3. lock' = q
    BY <2>1, <2>2, CallersAssumption DEF Quietly
  <2>4. QED
    BY <2>2, <2>3 DEF Quietly
<1>4. QED
  BY <1>1, <1>2, <1>3 DEF LifeInv, LoginHolds

\* Where a call returns to is no login.
LEMMA ReturnMoves ==
    ASSUME DOMAIN at = Procs, NEW p \in Procs, Return(p)
    PROVE  /\ DOMAIN at' = Procs /\ \A q \in Procs : q # p => at'[q] = at[q]
           /\ at'[p] # "login"
BY DEF Return, Home

LEMMA GoMoves ==
    ASSUME DOMAIN at = Procs, NEW p \in Procs, NEW place, place # "login", Go(p, place)
    PROVE  /\ DOMAIN at' = Procs /\ \A q \in Procs : q # p => at'[q] = at[q]
           /\ at'[p] # "login"
BY DEF Go

LEMMA StopSteps ==
    ASSUME LifeInv, NEW p \in Procs, StopStep(p)
    PROVE  Quietly(p)
<1>0. DOMAIN at = Procs
  BY DEF LifeInv
<1>1. CASE StopBegins(p)
  BY <1>0, <1>1, ReturnMoves, GoMoves DEF StopBegins, lockVars, Quietly
<1>2. CASE StopCancels(p)
  BY <1>0, <1>2, ReturnMoves, GoMoves DEF StopCancels, lockVars, Quietly
<1>3. CASE StopAwaited(p)
  BY <1>0, <1>3, ReturnMoves, GoMoves DEF StopAwaited, sessionVars, lockVars, Quietly
<1>4. CASE StopWaitsLong(p)
  BY <1>0, <1>4, ReturnMoves, GoMoves DEF StopWaitsLong, sessionVars, lockVars, Quietly
<1>5. CASE StopCloses(p)
  BY <1>0, <1>5, ReturnMoves, GoMoves DEF StopCloses, sessionVars, Quietly
<1>6. CASE StopReturns(p)
  BY <1>0, <1>6, ReturnMoves, GoMoves DEF StopReturns, sessionVars, lockVars, Quietly
<1>7. QED
  BY <1>1, <1>2, <1>3, <1>4, <1>5, <1>6 DEF StopStep

\* Logins through the account: they call start later, and do not log in themselves.
LEMMA AccountSteps ==
    ASSUME LifeInv, NEW p \in Procs, LoginProcess(p) \/ Balanced(p) \/ LoginEnds(p)
    PROVE  Quietly(p)
<1>0. DOMAIN at = Procs
  BY DEF LifeInv
<1>1. UNCHANGED <<running, session_id, lives, accepted, lock>>
  BY DEF LoginProcess, Balanced, LoginEnds, sessionVars
<1>2. ASSUME NEW isKnown, LogIn(p, isKnown)
      PROVE  /\ DOMAIN at' = Procs /\ \A q \in Procs : q # p => at'[q] = at[q]
             /\ at'[p] # "login"
  BY <1>0, <1>2, ReturnMoves DEF LogIn
<1>3. /\ DOMAIN at' = Procs /\ \A q \in Procs : q # p => at'[q] = at[q]
      /\ at'[p] # "login"
  <2>1. CASE LoginProcess(p)
    BY <1>0, <1>2, <2>1, ReturnMoves, GoMoves DEF LoginProcess
  <2>2. CASE Balanced(p)
    BY <1>0, <1>2, <2>2, ReturnMoves DEF Balanced
  <2>3. CASE LoginEnds(p)
    BY <1>0, <2>3, ReturnMoves DEF LoginEnds, Begins
  <2>4. QED
    BY <2>1, <2>2, <2>3
<1>4. QED
  BY <1>1, <1>3 DEF Quietly

LEMMA WorkerSteps ==
    ASSUME LifeInv, NEW w \in Workers, WorkerStep(w) \/ TakeRoad(w)
    PROVE  w \in Procs /\ Quietly(w)
<1>0. DOMAIN at = Procs /\ w \in Procs
  BY DEF LifeInv, Procs
<1>1. CASE TakeRoad(w)
  BY <1>0, <1>1, GoMoves DEF TakeRoad, lockVars, Quietly
<1>2. CASE WorkerExits(w)
  BY <1>0, <1>2, GoMoves DEF WorkerExits, sessionVars, lockVars, Quietly
<1>3. CASE Answered(w)
  <2>1. Home(w, running) # "login"
    BY DEF Home
  <2>2. QED
    BY <1>0, <1>3, <2>1, GoMoves DEF Answered, lockVars, Quietly
<1>4. CASE Finally(w)
  BY <1>0, <1>4, GoMoves DEF Finally, lockVars, Quietly
<1>5. CASE Cancelled(w)
  BY <1>0, <1>5, GoMoves DEF Cancelled, Dies, lockVars, Quietly
<1>6. QED
  BY <1>0, <1>1, <1>2, <1>3, <1>4, <1>5 DEF WorkerStep

LEMMA CallerSteps ==
    ASSUME LifeInv, NEW c \in Callers, CreateConn(c) \/ Call(c) \/ ConnEnds(c) \/ RemoveConn(c)
    PROVE  LifeInv'
<1>0. DOMAIN at = Procs /\ c \in Procs
  BY DEF LifeInv, Procs
<1>1. CASE CreateConn(c)
  <2>1. Quietly(c)
    BY <1>0, <1>1, ReturnMoves, GoMoves DEF CreateConn, sessionVars, lockVars, Quietly
  <2>2. QED
    BY <1>0, <2>1, QuietlyKeeps
<1>2. CASE Call(c)
  <2>1. Quietly(c)
    BY <1>0, <1>2 DEF Call, sessionVars, lockVars, Quietly
  <2>2. QED
    BY <1>0, <2>1, QuietlyKeeps
<1>3. CASE ConnEnds(c) \/ RemoveConn(c)
  <2>1. UNCHANGED <<running, session_id, lives, accepted, lock, at>>
    BY <1>3 DEF ConnEnds, RemoveConn, sessionVars, lockVars
  <2>2. QED
    BY <2>1 DEF LifeInv, LoggedIn, LoginHolds
<1>4. QED
  BY <1>1, <1>2, <1>3

\* The lock is free, so nobody else logs in, and the session does not run.
LEMMA StartBeginsKeeps ==
    ASSUME LifeInv, NEW p \in Procs, StartBegins(p)
    PROVE  LifeInv'
<1>0. DOMAIN at = Procs /\ lives \in Nat
  BY DEF LifeInv
<1>1. CASE lock = NoOne /\ ~running /\ session_id' = lives + 1
  <2>1. ~running' /\ lives' = lives /\ accepted' = accepted
    BY <1>1 DEF StartBegins
  <2>2. \A q \in Procs : at[q] # "login"
    BY <1>1, CallersAssumption DEF LifeInv, LoginHolds
  <2>3. CASE lock' = p /\ Go(p, "login")
    <3>1. DOMAIN at' = Procs /\ \A q \in Procs : at'[q] = "login" => q = p
      BY <1>0, <2>2, <2>3 DEF Go
    <3>2. QED
      BY <1>0, <1>1, <2>1, <2>3, <3>1 DEF LifeInv, LoggedIn, LoginHolds
  <2>4. CASE Return(p)
    <3>1. DOMAIN at' = Procs /\ \A q \in Procs : at'[q] # "login"
      BY <1>0, <2>2, <2>4, ReturnMoves
    <3>2. QED
      BY <1>0, <2>1, <3>1 DEF LifeInv, LoggedIn, LoginHolds
  <2>5. QED
    BY <1>1, <2>3, <2>4 DEF StartBegins, Begins
<1>2. CASE UNCHANGED session_id /\ UNCHANGED lock
  <2>1. /\ DOMAIN at' = Procs /\ \A q \in Procs : q # p => at'[q] = at[q]
        /\ at'[p] # "login"
    BY <1>0, <1>2, CallersAssumption, ReturnMoves, GoMoves DEF StartBegins
  <2>2. running' => running
    BY DEF StartBegins
  <2>3. UNCHANGED <<session_id, lives, accepted, lock>>
    BY <1>2 DEF StartBegins
  <2>4. Quietly(p)
    BY <2>1, <2>2, <2>3 DEF Quietly
  <2>5. QED
    BY <2>4, QuietlyKeeps
<1>3. QED
  BY <1>1, <1>2 DEF StartBegins

\* The number the server has accepted is that of the life that begins.
LEMMA LoginSucceedsKeeps ==
    ASSUME LifeInv, NEW p \in Procs, LoginSucceeds(p)
    PROVE  LifeInv'
<1>1. at[p] = "login" /\ lock = p /\ session_id = lives + 1 /\ lives \in Nat
  BY DEF LoginSucceeds, LifeInv, LoginHolds
<1>2. \A q \in Procs : at[q] = "login" => q = p
  BY <1>1 DEF LifeInv, LoginHolds
<1>3. accepted' = session_id' /\ session_id' = lives' /\ lives' \in Nat
  BY <1>1 DEF LoginSucceeds
<1>4. DOMAIN at' = Procs
  BY DEF LoginSucceeds
<1>5. ASSUME NEW q \in Procs PROVE at'[q] # "login"
  <2>1. CASE q = p
    BY <2>1 DEF LoginSucceeds, Home
  <2>2. CASE q # p
    BY <1>2, <2>2 DEF LoginSucceeds
  <2>3. QED
    BY <2>1, <2>2
<1>6. QED
  BY <1>3, <1>4, <1>5 DEF LifeInv, LoggedIn, LoginHolds

LEMMA LoginFailsKeeps ==
    ASSUME LifeInv, NEW p \in Procs, LoginFails(p)
    PROVE  LifeInv'
<1>1. lock = p
  BY DEF LifeInv, LoginHolds, LoginFails
<1>2. Quietly(p)
  BY <1>1, ReturnMoves DEF LifeInv, LoginFails, sessionVars, Quietly
<1>3. QED
  BY <1>2, QuietlyKeeps

LEMMA StepKeepsLife == LifeInv /\ [Next]_vars => LifeInv'
<1> SUFFICES ASSUME LifeInv, [Next]_vars PROVE LifeInv'
  OBVIOUS
<1>1. ASSUME NEW p \in Procs, StopStep(p) \/ StartStep(p) PROVE LifeInv'
  BY <1>1, StopSteps, AccountSteps, QuietlyKeeps, StartBeginsKeeps, LoginSucceedsKeeps, LoginFailsKeeps
     DEF StartStep
<1>2. ASSUME NEW w \in Workers, WorkerGoesOn(w) \/ TakeRoad(w) PROVE LifeInv'
  <2>1. w \in Procs
    BY DEF Procs
  <2>2. QED
    BY <1>1, <1>2, <2>1, WorkerSteps, QuietlyKeeps DEF WorkerGoesOn
<1>3. ASSUME NEW c \in Callers, CallerGoesOn(c) \/ Call(c) \/ ConnEnds(c) \/ RemoveConn(c) PROVE LifeInv'
  <2>1. c \in Procs
    BY DEF Procs
  <2>2. QED
    BY <1>1, <1>3, <2>1, CallerSteps DEF CallerGoesOn
<1>4. CASE UNCHANGED vars
  BY <1>4 DEF vars, sessionVars, lockVars, LifeInv, LoggedIn, LoginHolds
<1>5. CASE \E w \in Workers : WorkerGoesOn(w) \/ TakeRoad(w)
  BY <1>2, <1>5
<1>6. CASE \E c \in Callers : CallerGoesOn(c) \/ Call(c) \/ ConnEnds(c) \/ RemoveConn(c)
  BY <1>3, <1>6
<1>7. QED
  BY <1>4, <1>5, <1>6 DEF Next

\* For any number of callers and workers, a session that runs works under the
\* session_id of the last login the server has accepted (AsyncProxySession.start, stop
\* and async_login_process).
THEOREM SessionLoggedIn == Spec => []LoggedIn
<1>1. LifeInv => LoggedIn
  BY DEF LifeInv
<1>2. QED
  BY <1>1, InitLife, StepKeepsLife, PTL DEF Spec

-----------------------------------------------------------------------------
(* Which workers and which count a running session has.                       *)

\* What a step does to the session, apart from the calls the task has still to make.
Moves(p) == DOMAIN at' = Procs /\ \A q \in Procs : q # p => at'[q] = at[q]

GoesOn(p) == Ready(p) \/ at[p] \in Busy

\* The count goes with the place of the task.
Counted(p) ==
    \/ on_road' = on_road /\ at[p] \notin {"road", "fin"} /\ at'[p] \notin {"road", "fin"}
    \/ on_road' = on_road + 1 /\ p \in Workers /\ at[p] = "loop" /\ at'[p] = "road"
    \/ on_road' = on_road - 1 /\ p \in Workers /\ at[p] \in {"road", "fin"} /\ at'[p] \notin {"road", "fin"}

\* Steps of a task that neither starts nor stops the session.
Plain(p) ==
    /\ UNCHANGED <<running, session_id, tasks, lives, pipe_running, overlap, stoppers, strays,
                   index, waits_for, cancelled>>
    /\ Moves(p) /\ GoesOn(p)
    /\ at[p] \notin Stopping \cup {"none", "ended"}
    /\ at'[p] \notin Stopping \cup {"none", "login", "fin"}
    /\ at'[p] = "ended" => ~running \/ at[p] = "fin"
    /\ Counted(p)

SetsUp(p) ==
    /\ UNCHANGED <<running, tasks, lives, pipe_running, overlap, stoppers, index, waits_for, cancelled>>
    /\ Moves(p) /\ GoesOn(p) /\ ~running
    /\ at[p] \in {"begin", "want_start"} /\ at'[p] \in {"login", "begin", "out", "loop", "ended"}
    /\ on_road' = 0 /\ strays' = Cardinality(OnRoad)

Stops(p) ==
    /\ UNCHANGED <<session_id, on_road, tasks, lives, pipe_running, overlap, strays, waits_for, cancelled>>
    /\ Moves(p) /\ at[p] = "begin" /\ at'[p] = "cancel"
    /\ running /\ running' = FALSE
    /\ index' = [index EXCEPT ![p] = 1] /\ stoppers' = stoppers \cup {p}

\* Nothing of this changes.
Rests ==
    UNCHANGED <<running, session_id, tasks, lives, pipe_running, overlap, stoppers, strays, index, waits_for,
                cancelled, at, on_road, todo, calls, troubles>>

LEMMA Returns ==
    ASSUME DOMAIN at = Procs, NEW p \in Procs, Return(p)
    PROVE  /\ Moves(p) /\ at'[p] \in {"begin", "out", "loop", "ended"}
           /\ at'[p] = "ended" => ~running
BY DEF Return, Home, Moves

LEMMA Goes ==
    ASSUME DOMAIN at = Procs, NEW p \in Procs, NEW place, Go(p, place)
    PROVE  Moves(p) /\ at'[p] = place
BY DEF Go, Moves

LEMMA PlainStops ==
    ASSUME DOMAIN at = Procs, NEW p \in Procs, StopStep(p)
    PROVE  \/ Plain(p) \/ Stops(p) \/ StopCancels(p) \/ StopAwaited(p) \/ StopWaitsLong(p)
           \/ StopCloses(p) \/ StopReturns(p)
<1>1. ASSUME StopBegins(p), running PROVE Stops(p)
  BY <1>1, Goes DEF StopBegins, Begins, lockVars, Stops
<1>2. ASSUME StopBegins(p), ~running PROVE Plain(p)
  BY <1>2, Returns DEF StopBegins, Begins, lockVars, Plain, GoesOn, Busy, Counted, Stopping
<1>3. QED
  BY <1>1, <1>2 DEF StopStep

LEMMA PlainStarts ==
    ASSUME DOMAIN at = Procs, NEW p \in Procs, StartStep(p)
    PROVE  Plain(p) \/ SetsUp(p) \/ LoginSucceeds(p)
<1>1. CASE StartBegins(p)
  <2>1. GoesOn(p) /\ at[p] \in {"begin", "want_start"}
    BY <1>1 DEF StartBegins, Begins, GoesOn, Busy
  <2>2. UNCHANGED <<running, tasks, lives, pipe_running, overlap, stoppers, index, waits_for, cancelled>>
    BY <1>1 DEF StartBegins, stopVars
  <2>3. CASE UNCHANGED <<session_id, on_road, strays>> /\ (Go(p, "want_start") \/ Return(p))
    BY <2>1, <2>2, <2>3, Returns, Goes DEF Plain, Counted, Stopping
  <2>4. CASE ~running /\ on_road' = 0 /\ strays' = Cardinality(OnRoad) /\ (Go(p, "login") \/ Return(p))
    BY <2>1, <2>2, <2>4, Returns, Goes DEF SetsUp
  <2>5. QED
    BY <1>1, <2>3, <2>4 DEF StartBegins
<1>2. CASE LoginFails(p)
  BY <1>2, Returns DEF LoginFails, sessionVars, stopVars, history, Plain, GoesOn, Counted, Stopping
<1>3. ASSUME NEW isKnown, LogIn(p, isKnown)
      PROVE  /\ Moves(p) /\ at'[p] \in {"begin", "out", "loop", "ended"}
             /\ at'[p] = "ended" => ~running
  BY <1>3, Returns DEF LogIn, Moves
<1>4. CASE LoginProcess(p)
  <2>1. GoesOn(p) /\ at[p] \in {"begin", "want_login"}
    BY <1>4 DEF LoginProcess, Begins, GoesOn, Busy
  <2>2. UNCHANGED <<running, session_id, tasks, lives, pipe_running, overlap, stoppers, strays,
                   index, waits_for, cancelled, on_road>>
    BY <1>4 DEF LoginProcess, sessionVars, stopVars, history
  <2>3. /\ Moves(p) /\ at'[p] \in {"begin", "out", "loop", "ended", "want_login", "balance"}
        /\ at'[p] = "ended" => ~running
    BY <1>3, <1>4, Returns, Goes DEF LoginProcess
  <2>4. QED
    BY <2>1, <2>2, <2>3 DEF Plain, Counted, Stopping
<1>5. CASE Balanced(p)
  <2>1. GoesOn(p) /\ at[p] = "balance"
    BY <1>5 DEF Balanced, GoesOn
  <2>2. UNCHANGED <<running, session_id, tasks, lives, pipe_running, overlap, stoppers, strays,
                   index, waits_for, cancelled, on_road>>
    BY <1>5 DEF Balanced, sessionVars, stopVars, history
  <2>3. /\ Moves(p) /\ at'[p] \in {"begin", "out", "loop", "ended"}
        /\ at'[p] = "ended" => ~running
    BY <1>3, <1>5, Returns DEF Balanced
  <2>4. QED
    BY <2>1, <2>2, <2>3 DEF Plain, Counted, Stopping
<1>6. CASE LoginEnds(p)
  <2>1. GoesOn(p) /\ at[p] = "begin"
    BY <1>6 DEF LoginEnds, Begins, GoesOn, Busy
  <2>2. UNCHANGED <<running, session_id, tasks, lives, pipe_running, overlap, stoppers, strays,
                   index, waits_for, cancelled, on_road>>
    BY <1>6 DEF LoginEnds, sessionVars, stopVars, history
  <2>3. /\ Moves(p) /\ at'[p] \in {"begin", "out", "loop", "ended"}
        /\ at'[p] = "ended" => ~running
    BY <1>6, <2>1, Returns DEF LoginEnds, Moves
  <2>4. QED
    BY <2>1, <2>2, <2>3 DEF Plain, Counted, Stopping
<1>7. QED
  BY <1>1, <1>2, <1>4, <1>5, <1>6 DEF StartStep

LEMMA PlainWorks ==
    ASSUME DOMAIN at = Procs, NEW w \in Workers, WorkerStep(w) \/ TakeRoad(w)
    PROVE  w \in Procs /\ (Plain(w) \/ Cancelled(w))
<1>0. w \in Procs /\ w \notin Callers
  BY CallersAssumption DEF Procs
<1>1. CASE TakeRoad(w)
  BY <1>0, <1>1, Goes DEF TakeRoad, stopVars, history, Plain, GoesOn, Counted, Stopping
<1>2. CASE WorkerExits(w)
  BY <1>0, <1>2, Goes DEF WorkerExits, sessionVars, stopVars, history, Plain, GoesOn, Counted, Stopping
<1>3. CASE Answered(w)
  <2>1. Moves(w) /\ at'[w] \in {"begin", "loop", "ended"} /\ (at'[w] = "ended" => ~running)
    BY <1>0, <1>3, Goes DEF Answered, Moves, Home
  <2>2. QED
    BY <1>0, <1>3, <2>1 DEF Answered, stopVars, history, Plain, GoesOn, Counted, Stopping
<1>4. CASE Finally(w)
  <2>1. Moves(w) /\ at'[w] = "ended"
    BY <1>0, <1>4, Goes DEF Finally
  <2>2. QED
    BY <1>0, <1>4, <2>1 DEF Finally, stopVars, history, Plain, GoesOn, Counted, Stopping
<1>5. QED
  BY <1>0, <1>1, <1>2, <1>3, <1>4 DEF WorkerStep

LEMMA PlainCalls ==
    ASSUME DOMAIN at = Procs, NEW c \in Callers, CreateConn(c) \/ Call(c) \/ ConnEnds(c) \/ RemoveConn(c)
    PROVE  c \in Procs /\ (Plain(c) \/ Rests)
<1>0. c \in Procs
  BY DEF Procs
<1>1. CASE CreateConn(c)
  <2>1. GoesOn(c) /\ at[c] \in {"begin", "create"}
    BY <1>1 DEF CreateConn, Begins, GoesOn, Busy
  <2>2. Moves(c) /\ at'[c] \in {"begin", "out", "loop", "ended", "create"} /\ (at'[c] = "ended" => ~running)
    BY <1>0, <1>1, Returns, Goes DEF CreateConn
  <2>3. QED
    BY <1>0, <1>1, <2>1, <2>2 DEF CreateConn, sessionVars, stopVars, history, Plain, Counted, Stopping
<1>2. CASE Call(c)
  <2>1. Moves(c) /\ at'[c] = "begin"
    BY <1>0, <1>2 DEF Call, Moves
  <2>2. QED
    BY <1>0, <1>2, <2>1 DEF Call, sessionVars, stopVars, history, Plain, GoesOn, Counted, Stopping
<1>3. CASE ConnEnds(c) \/ RemoveConn(c)
  BY <1>0, <1>3 DEF ConnEnds, RemoveConn, sessionVars, stopVars, history, bounds, Rests
<1>4. QED
  BY <1>1, <1>2, <1>3

\* A step is one of these.
LEMMA Steps ==
    ASSUME DOMAIN at = Procs, [Next]_vars
    PROVE  \/ Rests
           \/ \E p \in Procs : \/ Plain(p) \/ SetsUp(p) \/ LoginSucceeds(p) \/ Stops(p) \/ StopCancels(p)
                               \/ StopAwaited(p) \/ StopWaitsLong(p) \/ StopCloses(p) \/ StopReturns(p)
                               \/ (p \in Workers /\ Cancelled(p))
<1>1. CASE UNCHANGED vars
  BY <1>1 DEF vars, sessionVars, stopVars, history, bounds, Rests
<1>2. ASSUME NEW w \in Workers, WorkerGoesOn(w) \/ TakeRoad(w)
      PROVE  \E p \in Procs : \/ Plain(p) \/ SetsUp(p) \/ LoginSucceeds(p) \/ Stops(p) \/ StopCancels(p)
                               \/ StopAwaited(p) \/ StopWaitsLong(p) \/ StopCloses(p) \/ StopReturns(p)
                               \/ (p \in Workers /\ Cancelled(p))
  <2>1. w \in Procs
    BY DEF Procs
  <2>2. CASE StopStep(w)
    BY <2>1, <2>2, PlainStops
  <2>3. CASE StartStep(w)
    BY <2>1, <2>3, PlainStarts
  <2>4. CASE WorkerStep(w) \/ TakeRoad(w)
    BY <2>1, <2>4, PlainWorks
  <2>5. QED
    BY <1>2, <2>2, <2>3, <2>4 DEF WorkerGoesOn
<1>3. ASSUME NEW c \in Callers, CallerGoesOn(c) \/ Call(c) \/ ConnEnds(c) \/ RemoveConn(c)
      PROVE  \/ Rests
             \/ \E p \in Procs : \/ Plain(p) \/ SetsUp(p) \/ LoginSucceeds(p) \/ Stops(p) \/ StopCancels(p)
                                 \/ StopAwaited(p) \/ StopWaitsLong(p) \/ StopCloses(p) \/ StopReturns(p)
  <2>1. c \in Procs
    BY DEF Procs
  <2>2. CASE StopStep(c)
    BY <2>1, <2>2, PlainStops
  <2>3. CASE StartStep(c)
    BY <2>1, <2>3, PlainStarts
  <2>4. CASE CreateConn(c) \/ Call(c) \/ ConnEnds(c) \/ RemoveConn(c)
    BY <2>1, <2>4, PlainCalls
  <2>5. QED
    BY <1>3, <2>2, <2>3, <2>4 DEF CallerGoesOn
<1>4. QED
  BY <1>1, <1>2, <1>3 DEF Next

-----------------------------------------------------------------------------
(* What a task has still to call, and how many lives there may be. Only the    *)
(* first call of a task is ever a stop, and each stop that ends a life has     *)
(* been counted when it was called.                                            *)
Calls == {"start", "stop", "login", "create", "again", "release"}

\* A task at one of these places is in no call.
Outside == {"none", "out", "loop", "road", "fin", "ended"}

OnlyFirst(s) == s \in Seq(Calls) /\ \A i \in 2 .. Len(s) : s[i] # "stop"

TaskTodo(p) == OnlyFirst(todo[p]) /\ (at[p] \notin Outside => todo[p] # <<>>)

StopsSoon(p) == at[p] = "begin" /\ Head(todo[p]) = "stop"

OneBusy == \A p, q \in Procs : at[p] \in Busy /\ at[q] \in Busy => p = q

Bounded == calls \in 0 .. MaxCalls /\ troubles \in 0 .. MaxTroubles

Fits(n) == n <= calls + troubles + 1 /\ (~running => n <= calls + troubles)

LivesCounted == Fits(lives) /\ \A p \in Procs : StopsSoon(p) => Fits(lives + 1)

Scheduled ==
    /\ DOMAIN todo = Procs /\ \A p \in Procs : TaskTodo(p)
    /\ OneBusy /\ Bounded /\ LivesCounted

LEMMA InitScheduled == Init => Scheduled
<1>1. SUFFICES ASSUME Init PROVE Scheduled
  OBVIOUS
<1>2. DOMAIN todo = Procs /\ \A p \in Procs : TaskTodo(p)
  <2>1. <<>> \in Seq(Calls) /\ Len(<<>>) = 0
    OBVIOUS
  <2>2. QED
    BY <1>1, <2>1 DEF Init, TaskTodo, OnlyFirst, Outside
<1>3. \A p \in Procs : at[p] \notin Busy
  BY <1>1 DEF Init, Busy
<1>4. OneBusy /\ Bounded /\ LivesCounted
  BY <1>1, <1>3, SessionLifeAssumption DEF Init, OneBusy, Bounded, LivesCounted, Fits, StopsSoon, Busy
<1>5. QED
  BY <1>2, <1>4 DEF Scheduled

LEMMA TailCalls ==
    ASSUME NEW s, OnlyFirst(s), s # <<>>
    PROVE  /\ OnlyFirst(Tail(s)) /\ Len(Tail(s)) = Len(s) - 1
           /\ \A i \in 1 .. Len(Tail(s)) : Tail(s)[i] # "stop"
BY DEF OnlyFirst

\* A task puts the calls of a login or a reset before the others.
LEMMA MoreCalls ==
    ASSUME NEW s \in Seq(Calls), OnlyFirst(s), NEW r \in Seq(Calls), Len(s) > 0,
           \A i \in 1 .. Len(r) : r[i] # "stop"
    PROVE  OnlyFirst(s \o r) /\ Len(s \o r) > 0 /\ (s \o r)[1] = s[1]
BY DEF OnlyFirst

\* What a step does to the calls of its task, and to what bounds them.
StepTodo(p) ==
    /\ Calm \/ at[p] \in Busy
    /\ \A q \in Procs : q # p => todo'[q] = todo[q] /\ (at'[q] = at[q] \/ at'[q] = "loop")
    /\ DOMAIN todo' = Procs /\ TaskTodo(p)'
    /\ Bounded'
    /\ \E m \in Nat : /\ m = calls' + troubles' /\ m >= calls + troubles
                      /\ StopsSoon(p)' => m >= calls + troubles + 1
    /\ \/ lives' = lives /\ running' = running
       \/ lives' = lives /\ StopsSoon(p) /\ running /\ ~running'
       \/ lives' = lives + 1 /\ ~running /\ running' /\ Calm

LEMMA StepTodoKeeps ==
    ASSUME Scheduled, LifeInv, NEW p \in Procs, StepTodo(p)
    PROVE  Scheduled'
<1>1. ASSUME NEW q \in Procs, q # p PROVE TaskTodo(q)'
  BY <1>1 DEF Scheduled, StepTodo, TaskTodo, Outside
<1>2. ASSUME NEW q \in Procs, q # p, at'[q] \in Busy PROVE FALSE
  <2>1. at[q] \in Busy
    BY <1>2 DEF StepTodo, Busy
  <2>2. QED
    BY <1>2, <2>1 DEF StepTodo, Calm, Scheduled, OneBusy
<1>3. OneBusy'
  BY <1>2 DEF OneBusy
<1>4. ASSUME NEW q \in Procs, StopsSoon(q)' PROVE q = p
  BY <1>2, <1>4 DEF StopsSoon, Busy
<1>5. LivesCounted'
  <2>1. calls \in Nat /\ troubles \in Nat /\ lives \in Nat
    BY SessionLifeAssumption DEF Scheduled, Bounded, LifeInv
  <2>2. PICK m \in Nat : /\ m = calls' + troubles' /\ m >= calls + troubles
                         /\ StopsSoon(p)' => m >= calls + troubles + 1
    BY DEF StepTodo
  <2>3. lives <= calls + troubles + 1 /\ (~running => lives <= calls + troubles)
    BY DEF Scheduled, LivesCounted, Fits
  <2>4. CASE lives' = lives /\ running' = running
    <3>1. lives' <= calls' + troubles' + 1
      BY <2>1, <2>2, <2>3, <2>4
    <3>2. ASSUME ~running' PROVE lives' <= calls' + troubles'
      <4>1. lives <= calls + troubles
        BY Zenon, <2>3, <2>4, <3>2
      <4>2. lives' = lives
        BY <2>4
      <4>3. QED
        BY <2>1, <2>2, <4>1, <4>2
    <3>3. ASSUME StopsSoon(p)' PROVE Fits(lives + 1)'
      <4>1. m = calls' + troubles' /\ m >= calls + troubles + 1
        BY <2>2, <3>3
      <4>2. lives' = lives /\ lives <= calls + troubles + 1
        BY <2>3, <2>4
      <4>3. lives' + 1 <= calls' + troubles' + 1
        BY <2>1, <4>1, <4>2
      <4>4. ASSUME ~running' PROVE lives' + 1 <= calls' + troubles'
        <5>1. lives <= calls + troubles
          BY Zenon, <2>3, <2>4, <4>4
        <5>2. QED
          BY <2>1, <4>1, <4>2, <5>1
      <4>5. QED
        BY Zenon, <4>3, <4>4 DEF Fits
    <3>4. Fits(lives)'
      BY Zenon, <3>1, <3>2 DEF Fits
    <3>5. QED
      BY <1>4, <3>3, <3>4 DEF LivesCounted
  <2>5. CASE lives' = lives /\ StopsSoon(p)
    <3>1. lives + 1 <= calls + troubles + 1 /\ lives' = lives
      BY <2>5 DEF Scheduled, LivesCounted, Fits
    <3>2. lives' <= calls' + troubles' /\ lives' <= calls' + troubles' + 1
      BY <2>1, <2>2, <3>1
    <3>3. ASSUME StopsSoon(p)' PROVE Fits(lives + 1)'
      <4>1. m = calls' + troubles' /\ m >= calls + troubles + 1
        BY <2>2, <3>3
      <4>2. lives' + 1 <= calls' + troubles' /\ lives' + 1 <= calls' + troubles' + 1
        BY <2>1, <3>1, <4>1
      <4>3. QED
        BY Zenon, <4>2 DEF Fits
    <3>4. Fits(lives)'
      BY Zenon, <3>2 DEF Fits
    <3>5. QED
      BY <1>4, <3>3, <3>4 DEF LivesCounted
  <2>6. CASE lives' = lives + 1 /\ ~running /\ running'
    <3>1. lives <= calls + troubles /\ lives' = lives + 1
      BY Zenon, <2>3, <2>6
    <3>2. lives' <= calls' + troubles' + 1
      BY <2>1, <2>2, <3>1
    <3>3. ASSUME StopsSoon(p)' PROVE Fits(lives + 1)'
      <4>1. m = calls' + troubles' /\ m >= calls + troubles + 1
        BY <2>2, <3>3
      <4>2. lives' + 1 <= calls' + troubles' + 1
        BY <2>1, <3>1, <4>1
      <4>3. QED
        BY Zenon, <2>6, <4>2 DEF Fits
    <3>4. Fits(lives)'
      BY Zenon, <2>6, <3>2 DEF Fits
    <3>5. QED
      BY <1>4, <3>3, <3>4 DEF LivesCounted
  <2>7. QED
    BY <2>4, <2>5, <2>6 DEF StepTodo
<1>6. QED
  BY <1>1, <1>3, <1>5 DEF Scheduled, StepTodo

LEMMA NextCall ==
    ASSUME NEW s, OnlyFirst(s), Len(s) > 1, s # <<>>
    PROVE  OnlyFirst(Tail(s)) /\ Tail(s) # <<>> /\ Head(Tail(s)) # "stop"
<1>1. /\ OnlyFirst(Tail(s)) /\ Len(Tail(s)) = Len(s) - 1 /\ Len(s) \in Nat
      /\ \A i \in 1 .. Len(Tail(s)) : Tail(s)[i] # "stop"
  BY TailCalls DEF OnlyFirst
<1>2. PICK t \in Seq(Calls) : t = Tail(s)
  BY <1>1 DEF OnlyFirst
<1>3. Len(t) > 0 /\ t[1] # "stop"
  BY <1>1, <1>2
<1>4. t # <<>> /\ Head(t) = t[1]
  BY <1>3
<1>5. QED
  BY <1>1, <1>2, <1>3, <1>4

MovesTodo(p) ==
    /\ \A q \in Procs : q # p => todo'[q] = todo[q] /\ at'[q] = at[q]
    /\ DOMAIN todo' = Procs /\ TaskTodo(p)'

\* What a call that returns leaves to call begins with no stop.
LEMMA CallReturns ==
    ASSUME DOMAIN at = Procs, DOMAIN todo = Procs, NEW p \in Procs, TaskTodo(p), at[p] \notin Outside, Return(p)
    PROVE  MovesTodo(p) /\ ~StopsSoon(p)'
<1> DEFINE s == todo[p]
<1>1. OnlyFirst(s) /\ s # <<>>
  BY DEF TaskTodo
<1>2. /\ OnlyFirst(Tail(s)) /\ Len(Tail(s)) = Len(s) - 1 /\ Len(s) \in Nat
      /\ \A i \in 1 .. Len(Tail(s)) : Tail(s)[i] # "stop"
  BY <1>1, TailCalls DEF OnlyFirst
<1>3. todo'[p] = Tail(s) /\ at'[p] = IF Len(s) > 1 THEN "begin" ELSE Home(p, running)
  BY DEF Return
<1>4. CASE Len(s) > 1
  BY <1>1, <1>3, <1>4, NextCall DEF Return, TaskTodo, StopsSoon, MovesTodo
<1>5. CASE ~(Len(s) > 1)
  BY <1>2, <1>3, <1>5 DEF Return, TaskTodo, StopsSoon, MovesTodo, Home, Outside
<1>6. QED
  BY <1>4, <1>5

LEMMA CallGoes ==
    ASSUME DOMAIN at = Procs, DOMAIN todo = Procs, NEW p \in Procs, TaskTodo(p), NEW place, Go(p, place),
           at[p] \notin Outside \/ place \in Outside, place # "begin"
    PROVE  MovesTodo(p) /\ ~StopsSoon(p)'
BY DEF Go, TaskTodo, StopsSoon, MovesTodo

\* A task begins with other calls.
LEMMA CallBegins ==
    ASSUME DOMAIN at = Procs, DOMAIN todo = Procs, NEW p \in Procs, NEW s, OnlyFirst(s), Len(s) > 0,
           at' = [at EXCEPT ![p] = "begin"], todo' = [todo EXCEPT ![p] = s]
    PROVE  MovesTodo(p) /\ (StopsSoon(p)' => s[1] = "stop")
<1>1. todo'[p] = s /\ at'[p] = "begin"
  OBVIOUS
<1>2. s \in Seq(Calls) /\ s # <<>> /\ Head(s) = s[1]
  BY DEF OnlyFirst
<1>3. QED
  BY <1>1, <1>2 DEF TaskTodo, StopsSoon, MovesTodo

LEMMA SameCounts ==
    ASSUME Bounded, NEW p \in Procs, MovesTodo(p), ~StopsSoon(p)', GoesOn(p) \/ Calm,
           UNCHANGED <<calls, troubles, lives, running>>
    PROVE  StepTodo(p)
<1>1. \E m \in Nat : m = calls' + troubles' /\ m >= calls + troubles
  BY SessionLifeAssumption DEF Bounded
<1>2. Bounded'
  BY DEF Bounded
<1>3. QED
  BY <1>1, <1>2 DEF StepTodo, MovesTodo, GoesOn, Ready

LEMMA OneMoreCall ==
    ASSUME Bounded, NEW p \in Procs, MovesTodo(p), GoesOn(p), UNCHANGED <<lives, running>>,
           \/ calls < MaxCalls /\ calls' = calls + 1 /\ troubles' = troubles
           \/ troubles < MaxTroubles /\ troubles' = troubles + 1 /\ calls' = calls
    PROVE  StepTodo(p)
<1>1. \E m \in Nat : m = calls' + troubles' /\ m >= calls + troubles /\ m >= calls + troubles + 1
  BY SessionLifeAssumption DEF Bounded
<1>2. Bounded'
  BY SessionLifeAssumption DEF Bounded
<1>3. QED
  BY <1>1, <1>2 DEF StepTodo, MovesTodo, GoesOn, Ready

LEMMA StopTodo ==
    ASSUME Scheduled, LifeInv, NEW p \in Procs, StopStep(p)
    PROVE  StepTodo(p)
<1>0. DOMAIN at = Procs /\ DOMAIN todo = Procs /\ TaskTodo(p) /\ Bounded
  BY DEF Scheduled, LifeInv
<1>2. CASE StopBegins(p)
  <2>1. at[p] \notin Outside /\ at[p] \in Busy /\ StopsSoon(p)
    BY <1>2 DEF StopBegins, Begins, Outside, Busy, StopsSoon
  <2>2. MovesTodo(p) /\ ~StopsSoon(p)'
    BY <1>0, <1>2, <2>1, CallReturns, CallGoes DEF StopBegins
  <2>3. UNCHANGED <<calls, troubles, lives>> /\ (running' = running \/ (running /\ ~running'))
    BY <1>2 DEF StopBegins, bounds
  <2>4. \E m \in Nat : m = calls' + troubles' /\ m >= calls + troubles
    BY <1>0, <2>3, SessionLifeAssumption DEF Bounded
  <2>5. Bounded'
    BY <1>0, <2>3 DEF Bounded
  <2>6. QED
    BY <2>1, <2>2, <2>3, <2>4, <2>5 DEF StepTodo, MovesTodo
<1>3. CASE StopCancels(p)
  <2>1. MovesTodo(p) /\ ~StopsSoon(p)'
    BY <1>0, <1>3, CallGoes DEF StopCancels, Outside
  <2>2. QED
    BY <1>0, SameCounts, <1>3, <2>1 DEF StopCancels, bounds, GoesOn, Busy
<1>4. CASE StopAwaited(p)
  <2>1. MovesTodo(p) /\ ~StopsSoon(p)'
    BY <1>0, <1>4, CallGoes DEF StopAwaited, Outside
  <2>2. QED
    BY <1>0, SameCounts, <1>4, <2>1 DEF StopAwaited, bounds, sessionVars, GoesOn
<1>5. CASE StopWaitsLong(p)
  <2>1. MovesTodo(p) /\ ~StopsSoon(p)'
    BY <1>0, <1>5, CallGoes DEF StopWaitsLong, Outside
  <2>2. QED
    BY <1>0, SameCounts, <1>5, <2>1 DEF StopWaitsLong, bounds, sessionVars, GoesOn
<1>6. CASE StopCloses(p)
  <2>1. MovesTodo(p) /\ ~StopsSoon(p)'
    BY <1>0, <1>6, CallGoes DEF StopCloses, Outside
  <2>2. QED
    BY <1>0, SameCounts, <1>6, <2>1 DEF StopCloses, bounds, sessionVars, GoesOn, Busy
<1>7. CASE StopReturns(p)
  <2>1. MovesTodo(p) /\ ~StopsSoon(p)'
    BY <1>0, <1>7, CallReturns DEF StopReturns, Outside
  <2>2. QED
    BY <1>0, SameCounts, <1>7, <2>1 DEF StopReturns, bounds, sessionVars, GoesOn
<1>8. QED
  BY <1>2, <1>3, <1>4, <1>5, <1>6, <1>7 DEF StopStep

\* The calls of a login, a reset, and of the answers that stop or restart a session.
LEMMA CallSequences ==
    /\ \A s \in {<<"start">>, <<"stop">>, <<"stop", "start">>, <<"login", "create">>, <<"stop", "login">>,
                 <<"start", "release">>, <<"stop", "start", "again", "release">>} :
          OnlyFirst(s) /\ s \in Seq(Calls) /\ Len(s) > 0
    /\ <<"start", "release">>[1] = "start"
BY DEF OnlyFirst, Calls

LEMMA LogInTodo ==
    ASSUME Scheduled, LifeInv, NEW p \in Procs, NEW isKnown, LogIn(p, isKnown), at[p] \notin Outside, GoesOn(p),
           UNCHANGED <<calls, lives, running>>
    PROVE  StepTodo(p)
<1>0. DOMAIN at = Procs /\ DOMAIN todo = Procs /\ TaskTodo(p) /\ Bounded
  BY DEF Scheduled, LifeInv
<1> DEFINE rest == Tail(todo[p])
<1>1. rest \in Seq(Calls) /\ \A i \in 1 .. Len(rest) : rest[i] # "stop"
  BY <1>0, TailCalls DEF TaskTodo, OnlyFirst
<1>2. ASSUME NEW s \in Seq(Calls), OnlyFirst(s), Len(s) > 0,
             todo' = [todo EXCEPT ![p] = s \o rest], at' = [at EXCEPT ![p] = "begin"]
      PROVE  MovesTodo(p) /\ (StopsSoon(p)' => s[1] = "stop")
  <2>1. OnlyFirst(s \o rest) /\ Len(s \o rest) > 0 /\ (s \o rest)[1] = s[1]
    BY <1>1, <1>2, MoreCalls
  <2>2. QED
    BY <1>0, <1>2, <2>1, CallBegins
<1>3. CASE /\ troubles < MaxTroubles /\ troubles' = troubles + 1
           /\ todo' = [todo EXCEPT ![p] = <<"stop", "start", "again", "release">> \o rest]
           /\ at' = [at EXCEPT ![p] = "begin"]
  <2>1. MovesTodo(p)
    BY <1>2, <1>3, CallSequences
  <2>2. QED
    BY <1>0, <1>3, <2>1, OneMoreCall
<1>4. CASE Return(p) /\ UNCHANGED troubles
  <2>1. MovesTodo(p) /\ ~StopsSoon(p)'
    BY <1>0, <1>4, CallReturns
  <2>2. QED
    BY <1>0, <1>4, <2>1, SameCounts
<1>5. CASE /\ UNCHANGED troubles /\ todo' = [todo EXCEPT ![p] = <<"start", "release">> \o rest]
           /\ at' = [at EXCEPT ![p] = "begin"]
  <2>1. MovesTodo(p) /\ ~StopsSoon(p)'
    BY <1>2, <1>5, CallSequences
  <2>2. QED
    BY <1>0, <1>5, <2>1, SameCounts
<1>6. QED
  BY <1>3, <1>4, <1>5 DEF LogIn

LEMMA StartTodo ==
    ASSUME Scheduled, LifeInv, NEW p \in Procs, StartStep(p)
    PROVE  StepTodo(p)
<1>0. DOMAIN at = Procs /\ DOMAIN todo = Procs /\ TaskTodo(p) /\ Bounded
  BY DEF Scheduled, LifeInv
<1>1. CASE StartBegins(p)
  <2>1. at[p] \in {"begin", "want_start"} /\ GoesOn(p) /\ at[p] \notin Outside
    BY <1>1 DEF StartBegins, Begins, GoesOn, Busy, Outside
  <2>2. MovesTodo(p) /\ ~StopsSoon(p)'
    BY <1>0, <1>1, <2>1, CallReturns, CallGoes DEF StartBegins
  <2>3. QED
    BY <1>0, <1>1, <2>1, <2>2, SameCounts DEF StartBegins, bounds
<1>2. CASE LoginSucceeds(p)
  <2>1. at[p] = "login" /\ Calm /\ ~running /\ lives' = lives + 1 /\ running'
    BY <1>2 DEF LoginSucceeds, Ready, LifeInv, LoginHolds
  <2>2. /\ todo' = [todo EXCEPT ![p] = Tail(@)]
        /\ at'[p] = IF Len(todo[p]) > 1 THEN "begin" ELSE Home(p, TRUE)
        /\ \A q \in Procs : q # p => at'[q] = at[q] \/ at'[q] = "loop"
    BY <1>2 DEF LoginSucceeds
  <2>3. /\ OnlyFirst(Tail(todo[p])) /\ Len(Tail(todo[p])) = Len(todo[p]) - 1 /\ Len(todo[p]) \in Nat
        /\ \A i \in 1 .. Len(Tail(todo[p])) : Tail(todo[p])[i] # "stop"
    BY <1>0, <2>1, TailCalls DEF TaskTodo, OnlyFirst, Outside
  <2>4. TaskTodo(p)' /\ ~StopsSoon(p)'
    <3>1. CASE Len(todo[p]) > 1
      <4>1. OnlyFirst(Tail(todo[p])) /\ Tail(todo[p]) # <<>> /\ Head(Tail(todo[p])) # "stop"
        BY <1>0, <2>1, <3>1, NextCall DEF TaskTodo, Outside
      <4>2. todo'[p] = Tail(todo[p])
        BY <1>0, <2>2
      <4>3. QED
        BY <4>1, <4>2 DEF TaskTodo, StopsSoon
    <3>2. CASE ~(Len(todo[p]) > 1)
      BY <1>0, <2>2, <2>3, <3>2 DEF TaskTodo, StopsSoon, Home, Outside
    <3>3. QED
      BY <3>1, <3>2
  <2>5. UNCHANGED <<calls, troubles>>
    BY <1>2 DEF LoginSucceeds, bounds
  <2>6. (\E m \in Nat : m = calls' + troubles' /\ m >= calls + troubles) /\ Bounded'
    BY <1>0, <2>5, SessionLifeAssumption DEF Bounded
  <2>7. DOMAIN todo' = Procs /\ \A q \in Procs : q # p => todo'[q] = todo[q]
    BY <1>0, <2>2
  <2>8. QED
    BY <2>1, <2>2, <2>4, <2>6, <2>7 DEF StepTodo
<1>3. CASE LoginFails(p)
  <2>1. MovesTodo(p) /\ ~StopsSoon(p)'
    BY <1>0, <1>3, CallReturns DEF LoginFails, Outside
  <2>2. QED
    BY <1>0, <1>3, <2>1, SameCounts DEF LoginFails, sessionVars, bounds, GoesOn
<1>4. CASE LoginProcess(p)
  <2>1. at[p] \in {"begin", "want_login"} /\ GoesOn(p) /\ at[p] \notin Outside
    BY <1>4 DEF LoginProcess, Begins, GoesOn, Busy, Outside
  <2>2. UNCHANGED <<calls, lives, running>>
    BY <1>4 DEF LoginProcess, sessionVars
  <2>3. CASE LogIn(p, server_host)
    BY <1>0, <2>1, <2>2, <2>3, LogInTodo
  <2>4. CASE UNCHANGED troubles /\ (Go(p, "want_login") \/ Return(p) \/ Go(p, "balance"))
    <3>1. MovesTodo(p) /\ ~StopsSoon(p)'
      BY <1>0, <2>1, <2>4, CallReturns, CallGoes
    <3>2. QED
      BY <1>0, <2>1, <2>2, <2>4, <3>1, SameCounts
  <2>5. QED
    BY <1>4, <2>3, <2>4 DEF LoginProcess
<1>5. CASE Balanced(p)
  <2>1. at[p] = "balance" /\ GoesOn(p) /\ at[p] \notin Outside
    BY <1>5 DEF Balanced, GoesOn, Outside
  <2>2. UNCHANGED <<calls, lives, running>>
    BY <1>5 DEF Balanced, sessionVars
  <2>3. CASE LogIn(p, TRUE)
    BY <1>0, <2>1, <2>2, <2>3, LogInTodo
  <2>4. CASE UNCHANGED troubles /\ Return(p)
    <3>1. MovesTodo(p) /\ ~StopsSoon(p)'
      BY <1>0, <2>1, <2>4, CallReturns
    <3>2. QED
      BY <1>0, <2>1, <2>2, <2>4, <3>1, SameCounts
  <2>5. QED
    BY <1>5, <2>3, <2>4 DEF Balanced
<1>6. CASE LoginEnds(p)
  <2>1. at[p] = "begin" /\ GoesOn(p) /\ at[p] \notin Outside
    BY <1>6 DEF LoginEnds, Begins, GoesOn, Busy, Outside
  <2>2. MovesTodo(p) /\ ~StopsSoon(p)'
    <3>1. CASE Return(p)
      BY <1>0, <2>1, <3>1, CallReturns
    <3>2. CASE UNCHANGED at /\ todo' = [todo EXCEPT ![p][1] = "start"]
      <4>1. todo[p] \in Seq(Calls) /\ todo[p] # <<>> /\ 1 \in DOMAIN todo[p]
        BY <1>0, <2>1 DEF TaskTodo, OnlyFirst
      <4>2. todo'[p] = [todo[p] EXCEPT ![1] = "start"]
        BY <1>0, <3>2
      <4>3. todo'[p] \in Seq(Calls) /\ Len(todo'[p]) = Len(todo[p]) /\ todo'[p][1] = "start"
        BY <4>1, <4>2 DEF Calls
      <4>4. \A i \in 2 .. Len(todo'[p]) : todo'[p][i] # "stop"
        BY <1>0, <4>1, <4>2, <4>3 DEF TaskTodo, OnlyFirst
      <4>5. Len(todo'[p]) > 0 /\ todo'[p] # <<>> /\ Head(todo'[p]) = "start"
        BY <4>1, <4>3
      <4>6. DOMAIN todo' = Procs /\ \A q \in Procs : q # p => todo'[q] = todo[q]
        BY <1>0, <3>2
      <4>7. QED
        BY <3>2, <4>3, <4>4, <4>5, <4>6 DEF MovesTodo, TaskTodo, OnlyFirst, StopsSoon
    <3>3. QED
      BY <1>6, <3>1, <3>2 DEF LoginEnds
  <2>3. QED
    BY <1>0, <1>6, <2>1, <2>2, SameCounts DEF LoginEnds, sessionVars, bounds
<1>7. QED
  BY <1>1, <1>2, <1>3, <1>4, <1>5, <1>6 DEF StartStep

LEMMA WorkTodo ==
    ASSUME Scheduled, LifeInv, NEW w \in Workers, WorkerStep(w) \/ TakeRoad(w)
    PROVE  w \in Procs /\ StepTodo(w)
<1>0. w \in Procs /\ DOMAIN at = Procs /\ DOMAIN todo = Procs /\ TaskTodo(w) /\ Bounded
  BY DEF Scheduled, LifeInv, Procs
<1>1. CASE TakeRoad(w)
  <2>1. MovesTodo(w) /\ ~StopsSoon(w)'
    BY <1>0, <1>1, CallGoes DEF TakeRoad, Outside
  <2>2. QED
    BY <1>0, <1>1, <2>1, SameCounts DEF TakeRoad, bounds, GoesOn
<1>2. CASE WorkerExits(w)
  <2>1. MovesTodo(w) /\ ~StopsSoon(w)'
    BY <1>0, <1>2, CallGoes DEF WorkerExits, Outside
  <2>2. QED
    BY <1>0, <1>2, <2>1, SameCounts DEF WorkerExits, sessionVars, bounds, GoesOn
<1>3. CASE Finally(w)
  <2>1. MovesTodo(w) /\ ~StopsSoon(w)'
    BY <1>0, <1>3, CallGoes DEF Finally, Outside
  <2>2. QED
    BY <1>0, <1>3, <2>1, SameCounts DEF Finally, bounds, GoesOn
<1>4. CASE Answered(w)
  <2>1. GoesOn(w) /\ UNCHANGED <<lives, running, calls>>
    BY <1>4 DEF Answered, GoesOn
  <2>2. CASE Go(w, Home(w, running)) /\ UNCHANGED troubles
    <3>1. Home(w, running) \in Outside /\ Home(w, running) # "begin"
      BY DEF Home, Outside
    <3>2. MovesTodo(w) /\ ~StopsSoon(w)'
      BY <1>0, <2>2, <3>1, CallGoes
    <3>3. QED
      BY <1>0, <2>1, <2>2, <3>2, SameCounts
  <2>3. CASE /\ troubles < MaxTroubles /\ troubles' = troubles + 1
             /\ \E s \in {<<"stop", "login">>, <<"stop">>, <<"stop", "start">>} :
                   todo' = [todo EXCEPT ![w] = s]
             /\ at' = [at EXCEPT ![w] = "begin"]
    <3>1. MovesTodo(w)
      BY <1>0, <2>3, CallBegins, CallSequences
    <3>2. QED
      BY <1>0, <2>1, <2>3, <3>1, OneMoreCall
  <2>4. QED
    BY <1>4, <2>2, <2>3 DEF Answered
<1>5. CASE Cancelled(w)
  <2>1. Calm /\ UNCHANGED <<lives, running, calls, troubles>>
    BY <1>5 DEF Cancelled, bounds
  <2>2. CASE Dies(w)
    <3>1. todo'[w] = <<>> /\ at'[w] = "ended"
      BY <1>0, <2>2 DEF Dies
    <3>2. OnlyFirst(<<>>)
      BY DEF OnlyFirst
    <3>3. MovesTodo(w) /\ ~StopsSoon(w)'
      BY <1>0, <2>2, <3>1, <3>2 DEF Dies, MovesTodo, TaskTodo, StopsSoon, Outside
    <3>4. QED
      BY <1>0, <2>1, <3>3, SameCounts
  <2>3. CASE Go(w, "fin")
    <3>1. MovesTodo(w) /\ ~StopsSoon(w)'
      BY <1>0, <2>3, CallGoes DEF Outside
    <3>2. QED
      BY <1>0, <2>1, <3>1, SameCounts
  <2>4. CASE at[w] \in {"await", "overdue", "pipe"} /\ UNCHANGED <<at, todo>>
    <3>1. MovesTodo(w) /\ ~StopsSoon(w)'
      BY <1>0, <2>4 DEF MovesTodo, TaskTodo, StopsSoon
    <3>2. QED
      BY <1>0, <2>1, <3>1, SameCounts
  <2>5. QED
    BY <1>5, <2>2, <2>3, <2>4 DEF Cancelled
<1>6. QED
  BY <1>0, <1>1, <1>2, <1>3, <1>4, <1>5 DEF WorkerStep

LEMMA OutsideTodo ==
    ASSUME Scheduled, LifeInv, NEW c \in Callers, CreateConn(c) \/ Call(c)
    PROVE  c \in Procs /\ StepTodo(c)
<1>0. c \in Procs /\ DOMAIN at = Procs /\ DOMAIN todo = Procs /\ TaskTodo(c) /\ Bounded
  BY DEF Scheduled, LifeInv, Procs
<1>1. CASE CreateConn(c)
  <2>1. GoesOn(c) /\ at[c] \notin Outside
    BY <1>1 DEF CreateConn, Begins, GoesOn, Busy, Outside
  <2>2. MovesTodo(c) /\ ~StopsSoon(c)'
    BY <1>0, <1>1, <2>1, CallReturns, CallGoes DEF CreateConn
  <2>3. QED
    BY <1>0, <1>1, <2>1, <2>2, SameCounts DEF CreateConn, sessionVars, bounds
<1>2. CASE Call(c)
  <2>1. MovesTodo(c)
    <3>1. PICK call \in {<<"start">>, <<"stop">>, <<"stop", "start">>, <<"login", "create">>} :
              todo' = [todo EXCEPT ![c] = call]
      BY <1>2 DEF Call
    <3>2. OnlyFirst(call) /\ Len(call) > 0
      BY CallSequences
    <3>3. QED
      BY <1>0, <1>2, <3>1, <3>2, CallBegins DEF Call
  <2>2. QED
    BY <1>0, <1>2, <2>1, OneMoreCall DEF Call, sessionVars, GoesOn
<1>3. QED
  BY <1>1, <1>2

LEMMA ScheduledNext ==
    ASSUME Scheduled, LifeInv, [Next]_vars
    PROVE  Scheduled'
<1>1. ASSUME Rests PROVE Scheduled'
  BY <1>1 DEF Rests, Scheduled, TaskTodo, OneBusy, Bounded, LivesCounted, Fits, StopsSoon
<1>2. CASE UNCHANGED vars
  BY <1>1, <1>2 DEF vars, sessionVars, stopVars, history, bounds, Rests
<1>3. ASSUME NEW w \in Workers, WorkerGoesOn(w) \/ TakeRoad(w) PROVE Scheduled'
  BY <1>3, StopTodo, StartTodo, WorkTodo, StepTodoKeeps DEF WorkerGoesOn, Procs
<1>4. ASSUME NEW c \in Callers, CallerGoesOn(c) \/ Call(c) PROVE Scheduled'
  BY <1>4, StopTodo, StartTodo, OutsideTodo, StepTodoKeeps DEF CallerGoesOn, Procs
<1>5. ASSUME NEW c \in Callers, ConnEnds(c) \/ RemoveConn(c) PROVE Scheduled'
  BY <1>1, <1>5 DEF ConnEnds, RemoveConn, sessionVars, stopVars, history, bounds, Rests
<1>6. QED
  BY <1>2, <1>3, <1>4, <1>5 DEF Next

-----------------------------------------------------------------------------
(* While no start falls into a stop: one task stops the session at a time,     *)
(* whoever is cancelled is awaited by it, and what it has awaited is over.     *)
Looping == {"cancel", "await", "overdue"}

OfLife == {lives} \X (1 .. ThreadNum)

StopTypes == DOMAIN index = Procs /\ DOMAIN waits_for = Procs /\ strays \in Nat

OneStops ==
    /\ \A p, q \in Procs : at[p] \in Stopping /\ at[q] \in Stopping => p = q
    /\ \A p \in Procs : at[p] \in Stopping => ~running /\ p \in stoppers

\* A stop waits for t, which is not its own task.
Awaited(t) == \E p \in Procs : at[p] \in {"await", "overdue"} /\ waits_for[p] = t /\ t # p

CancelInv ==
    /\ cancelled \subseteq Procs
    /\ \A t \in cancelled : Alive(t) /\ at[t] \notin Busy
    /\ \A t \in Procs : t \in cancelled \/ at[t] = "fin" => Awaited(t)

NewLives == \A w \in Workers : w[1] > lives => at[w] = "none"

\* From a login on until a stop begins, and again once it waits for the pipe, the
\* count is right.
RoadInv ==
    /\ running \/ \E p \in Procs : at[p] = "login"
    /\ \A p \in Procs : at[p] \notin Stopping \ {"pipe"}
    => on_road = Cardinality(OnRoad) - strays

Listed ==
    /\ lives \in Lives /\ tasks \in Seq(OfLife)
    /\ Len(tasks) = ThreadNum /\ {tasks[i] : i \in DOMAIN tasks} = OfLife

\* Of these workers only those are alive that have stopped the session themselves.
Left(ws) == \A w \in ws : Alive(w) => w \in stoppers

RunsInv ==
    running => Listed /\ pipe_running /\ (\A w \in OfLife : Alive(w)) /\ Left(Workers \ OfLife)

\* A stop in its loop: the tasks before its index have ended, and it waits for the one there.
Looped(p) ==
    /\ Listed /\ Left(Workers \ OfLife) /\ index[p] \in Nat \ {0}
    /\ \A j \in DOMAIN tasks : j < index[p] /\ Alive(tasks[j]) => tasks[j] \in stoppers
    /\ at[p] # "cancel" => index[p] \in DOMAIN tasks /\ waits_for[p] = tasks[index[p]]

LoopInv == \A p \in Procs : at[p] \in Looping => Looped(p)

RestInv == ~running /\ (\A p \in Procs : at[p] \notin Looping) => tasks = <<>> /\ Left(Workers)

StopInv ==
    /\ StopTypes /\ OneStops /\ CancelInv /\ NewLives
    /\ RoadInv /\ RunsInv /\ LoopInv /\ RestInv

LEMMA InitStop == Init => StopInv
<1>1. SUFFICES ASSUME Init PROVE StopInv
  OBVIOUS
<1>2. \A p \in Procs : at[p] \in {"out", "none"} /\ (p \in Workers => at[p] = "none")
  BY <1>1, CallersAssumption DEF Init
<1>3. StopTypes /\ OneStops /\ CancelInv /\ NewLives
  BY <1>1, <1>2 DEF Init, StopTypes, OneStops, CancelInv, NewLives, Stopping, Procs
<1>4. RoadInv /\ RunsInv /\ LoopInv
  BY <1>1, <1>2 DEF Init, RoadInv, RunsInv, LoopInv, Looping
<1>5. RestInv
  BY <1>1, <1>2 DEF Init, RestInv, Left, Alive, Procs
<1>6. QED
  BY <1>3, <1>4, <1>5 DEF StopInv

LEMMA RoadFinite == IsFiniteSet(OnRoad) /\ Cardinality(OnRoad) \in Nat
<1>1. IsFiniteSet(Lives) /\ IsFiniteSet(1 .. ThreadNum)
  BY SessionLifeAssumption, FS_Interval DEF Lives
<1>2. IsFiniteSet(Workers)
  BY <1>1, FS_Product DEF Workers
<1>3. OnRoad \subseteq Workers
  BY DEF OnRoad
<1>4. QED
  BY <1>2, <1>3, FS_Subset, FS_CardinalityType

\* Nobody steps onto the road or off it.
SameRoad == \A w \in Workers : at'[w] \in {"road", "fin"} <=> at[w] \in {"road", "fin"}

LEMMA RoadStays == SameRoad => OnRoad' = OnRoad
BY DEF SameRoad, OnRoad

LEMMA CountedRoad ==
    ASSUME NEW p \in Procs, Moves(p), Counted(p), strays \in Nat, strays' = strays,
           on_road = Cardinality(OnRoad) - strays
    PROVE  on_road' = Cardinality(OnRoad)' - strays'
<1>0. IsFiniteSet(OnRoad) /\ Cardinality(OnRoad) \in Nat /\ Workers \subseteq Procs
  BY RoadFinite DEF Procs
<1>1. CASE on_road' = on_road /\ at[p] \notin {"road", "fin"} /\ at'[p] \notin {"road", "fin"}
  <2>1. SameRoad
    BY <1>0, <1>1 DEF SameRoad, Moves
  <2>2. OnRoad' = OnRoad
    BY <2>1, RoadStays
  <2>3. QED
    BY <1>1, <2>2
<1>2. CASE on_road' = on_road + 1 /\ p \in Workers /\ at[p] = "loop" /\ at'[p] = "road"
  <2>1. OnRoad' = OnRoad \cup {p} /\ p \notin OnRoad
    BY <1>0, <1>2 DEF OnRoad, Moves
  <2>2. Cardinality(OnRoad)' = Cardinality(OnRoad) + 1
    BY <1>0, <2>1, FS_AddElement
  <2>3. QED
    BY <1>0, <1>2, <2>2
<1>3. CASE /\ on_road' = on_road - 1 /\ p \in Workers
           /\ at[p] \in {"road", "fin"} /\ at'[p] \notin {"road", "fin"}
  <2>1. OnRoad' = OnRoad \ {p} /\ p \in OnRoad
    BY <1>0, <1>3 DEF OnRoad, Moves
  <2>2. Cardinality(OnRoad)' = Cardinality(OnRoad) - 1
    BY <1>0, <2>1, FS_RemoveElement
  <2>3. QED
    BY <1>0, <1>3, <2>2
<1>4. QED
  BY <1>1, <1>2, <1>3 DEF Counted

\* Only a login makes workers.
NoneRises == stoppers \subseteq stoppers' /\ \A w \in Workers : Alive(w)' => Alive(w)

LEMMA LeftStays ==
    ASSUME NoneRises, NEW ws \in SUBSET Workers, Left(ws)
    PROVE  Left(ws)'
BY DEF NoneRises, Left

LEMMA LeftOutside ==
    ASSUME NoneRises, lives' = lives, Left(Workers \ OfLife)
    PROVE  Left(Workers \ OfLife)'
<1>1. OfLife' = OfLife /\ Workers \ OfLife \in SUBSET Workers
  BY DEF OfLife
<1>2. \A w \in Workers \ OfLife : Alive(w)' => w \in stoppers'
  BY <1>1 DEF NoneRises, Left
<1>3. QED
  BY <1>1, <1>2 DEF Left

LEMMA ListedStays ==
    ASSUME UNCHANGED <<lives, tasks>>, Listed
    PROVE  Listed'
BY DEF Listed, OfLife

LEMMA OfLifeWorks == Listed => OfLife \subseteq Workers /\ \A j \in DOMAIN tasks : tasks[j] \in Workers
BY DEF Listed, OfLife, Workers

\* The tasks before a stop's index stay ended.
LEMMA PastStays ==
    ASSUME UNCHANGED <<lives, tasks>>, Listed, NoneRises,
           NEW n, \A j \in DOMAIN tasks : j < n /\ Alive(tasks[j]) => tasks[j] \in stoppers
    PROVE  \A j \in DOMAIN tasks' : j < n /\ Alive(tasks[j])' => tasks'[j] \in stoppers'
BY OfLifeWorks DEF NoneRises

LEMMA LoopedStays ==
    ASSUME NoneRises, UNCHANGED <<lives, tasks>>, NEW q \in Procs, Looped(q),
           at'[q] = at[q], index'[q] = index[q], waits_for'[q] = waits_for[q]
    PROVE  Looped(q)'
<1>1. Listed' /\ Left(Workers \ OfLife)'
  BY ListedStays, LeftOutside DEF Looped
<1>2. \A j \in DOMAIN tasks' : j < index'[q] /\ Alive(tasks[j])' => tasks'[j] \in stoppers'
  BY PastStays DEF Looped
<1>3. QED
  BY <1>1, <1>2 DEF Looped

LEMMA PlainKeeps ==
    ASSUME StopInv, NEW p \in Procs, Plain(p)
    PROVE  StopInv'
<1>0. /\ StopTypes /\ OneStops /\ CancelInv /\ NewLives /\ RoadInv /\ RunsInv /\ LoopInv /\ RestInv
      /\ Workers \subseteq Procs
  BY DEF StopInv, Procs
<1>1. /\ UNCHANGED <<running, tasks, lives, pipe_running, stoppers, strays, index, waits_for, cancelled>>
      /\ \A q \in Procs : q # p => at'[q] = at[q]
      /\ at[p] \notin Stopping \cup {"none", "ended"} /\ at'[p] \notin Stopping \cup {"none", "login", "fin"}
  BY DEF Plain, Moves
<1>2. p \notin cancelled
  BY <1>0 DEF Plain, GoesOn, Ready, CancelInv
<1>3. NoneRises
  BY <1>0, <1>1 DEF NoneRises, Alive
<1>4. StopTypes'
  BY <1>0, <1>1 DEF StopTypes
<1>5. OneStops'
  BY <1>0, <1>1 DEF OneStops
<1>6. CancelInv'
  <2>1. ASSUME NEW t \in Procs, Awaited(t) PROVE Awaited(t)'
    <3>1. PICK q \in Procs : at[q] \in {"await", "overdue"} /\ waits_for[q] = t /\ t # q
      BY <2>1 DEF Awaited
    <3>2. q # p
      BY <1>1, <3>1 DEF Stopping
    <3>3. QED
      BY <1>1, <3>1, <3>2 DEF Awaited
  <2>2. ASSUME NEW t \in cancelled PROVE Alive(t)' /\ at'[t] \notin Busy
    BY <1>0, <1>1, <1>2, <2>2 DEF CancelInv, Alive
  <2>3. ASSUME NEW t \in Procs, at'[t] = "fin" PROVE at[t] = "fin"
    BY <1>1, <2>3
  <2>4. QED
    BY <1>0, <1>1, <2>1, <2>2, <2>3 DEF CancelInv
<1>7. NewLives'
  BY <1>0, <1>1 DEF NewLives
<1>8. RoadInv'
  <2>1. ASSUME running' \/ \E q \in Procs : at'[q] = "login",
               \A q \in Procs : at'[q] \notin Stopping \ {"pipe"}
        PROVE  on_road' = Cardinality(OnRoad)' - strays'
    <3>1. running \/ \E q \in Procs : at[q] = "login"
      BY <1>1, <2>1
    <3>2. \A q \in Procs : at[q] \notin Stopping \ {"pipe"}
      BY <1>1, <2>1
    <3>3. on_road = Cardinality(OnRoad) - strays
      BY <1>0, <3>1, <3>2 DEF RoadInv
    <3>4. QED
      BY <1>0, <1>1, <3>3, CountedRoad DEF Plain, StopTypes
  <2>2. QED
    BY <2>1 DEF RoadInv
<1>9. RunsInv'
  <2>1. ASSUME running' PROVE /\ Listed' /\ pipe_running' /\ Left(Workers \ OfLife)'
                              /\ \A w \in OfLife' : Alive(w)'
    <3>1. running /\ Listed /\ pipe_running /\ (\A w \in OfLife : Alive(w)) /\ Left(Workers \ OfLife)
      BY <1>0, <1>1, <2>1 DEF RunsInv
    <3>2. Listed' /\ pipe_running' /\ Left(Workers \ OfLife)'
      BY <1>1, <1>3, <3>1, ListedStays, LeftOutside
    <3>3. at'[p] = "ended" => at[p] = "fin"
      BY <3>1 DEF Plain
    <3>4. at[p] = "fin" => FALSE
      <4>1. ASSUME at[p] = "fin" PROVE FALSE
        <5>1. PICK q \in Procs : at[q] \in {"await", "overdue"}
          BY <1>0, <4>1 DEF CancelInv, Awaited
        <5>2. QED
          BY <1>0, <3>1, <5>1 DEF OneStops, Stopping
      <4>2. QED
        BY <4>1
    <3>5. \A w \in OfLife' : Alive(w)'
      BY <1>0, <1>1, <3>1, <3>3, <3>4, OfLifeWorks DEF OfLife, Alive
    <3>6. QED
      BY <3>2, <3>5
  <2>2. QED
    BY <2>1 DEF RunsInv
<1>10. LoopInv'
  <2>1. ASSUME NEW q \in Procs, at'[q] \in Looping PROVE Looped(q)'
    <3>1. q # p /\ at'[q] = at[q]
      BY <1>1, <2>1 DEF Looping, Stopping
    <3>2. Looped(q)
      BY <1>0, <2>1, <3>1 DEF LoopInv
    <3>3. QED
      BY <1>1, <1>3, <3>1, <3>2, LoopedStays
  <2>2. QED
    BY <2>1 DEF LoopInv
<1>11. RestInv'
  <2>1. ASSUME ~running', \A q \in Procs : at'[q] \notin Looping PROVE tasks' = <<>> /\ Left(Workers)'
    <3>1. \A q \in Procs : at[q] \notin Looping
      BY <1>1, <2>1 DEF Looping, Stopping
    <3>2. tasks = <<>> /\ Left(Workers)
      BY <1>0, <1>1, <2>1, <3>1 DEF RestInv
    <3>3. QED
      BY <1>1, <1>3, <3>2, LeftStays
  <2>2. QED
    BY <2>1 DEF RestInv
<1>12. QED
  BY <1>4, <1>5, <1>6, <1>7, <1>8, <1>9, <1>10, <1>11 DEF StopInv

LEMMA SetsUpKeeps ==
    ASSUME StopInv, NEW p \in Procs, SetsUp(p)
    PROVE  StopInv'
<1>0. /\ StopTypes /\ OneStops /\ CancelInv /\ NewLives /\ LoopInv /\ RestInv
      /\ Workers \subseteq Procs
  BY DEF StopInv, Procs
<1>1. /\ UNCHANGED <<running, tasks, lives, stoppers, index, waits_for, cancelled>> /\ ~running
      /\ \A q \in Procs : q # p => at'[q] = at[q]
      /\ at[p] \in {"begin", "want_start"} /\ at'[p] \in {"login", "begin", "out", "loop", "ended"}
      /\ on_road' = 0 /\ strays' = Cardinality(OnRoad)
  BY DEF SetsUp, Moves
<1>2. p \notin cancelled
  BY <1>0 DEF SetsUp, GoesOn, Ready, CancelInv
<1>3. NoneRises
  BY <1>0, <1>1 DEF NoneRises, Alive
<1>4. StopTypes'
  BY <1>0, <1>1, RoadFinite DEF StopTypes
<1>5. OneStops'
  BY <1>0, <1>1 DEF OneStops, Stopping
<1>6. CancelInv'
  <2>1. ASSUME NEW t \in Procs, Awaited(t) PROVE Awaited(t)'
    <3>1. PICK q \in Procs : at[q] \in {"await", "overdue"} /\ waits_for[q] = t /\ t # q
      BY <2>1 DEF Awaited
    <3>2. QED
      BY <1>1, <3>1 DEF Awaited
  <2>2. ASSUME NEW t \in cancelled PROVE Alive(t)' /\ at'[t] \notin Busy
    BY <1>0, <1>1, <1>2, <2>2 DEF CancelInv, Alive
  <2>3. ASSUME NEW t \in Procs, at'[t] = "fin" PROVE at[t] = "fin"
    BY <1>1, <2>3
  <2>4. QED
    BY <1>0, <1>1, <2>1, <2>2, <2>3 DEF CancelInv
<1>7. NewLives'
  BY <1>0, <1>1 DEF NewLives
<1>8. RoadInv'
  <2>1. SameRoad
    BY <1>0, <1>1 DEF SameRoad
  <2>2. OnRoad' = OnRoad
    BY <2>1, RoadStays
  <2>3. on_road' = Cardinality(OnRoad)' - strays'
    BY <1>1, <2>2, RoadFinite
  <2>4. QED
    BY <2>3 DEF RoadInv
<1>9. RunsInv'
  BY <1>1 DEF RunsInv
<1>10. LoopInv'
  <2>1. ASSUME NEW q \in Procs, at'[q] \in Looping PROVE Looped(q)'
    <3>1. q # p /\ at'[q] = at[q]
      BY <1>1, <2>1 DEF Looping
    <3>2. Looped(q)
      BY <1>0, <2>1, <3>1 DEF LoopInv
    <3>3. QED
      BY <1>1, <1>3, <3>1, <3>2, LoopedStays
  <2>2. QED
    BY <2>1 DEF LoopInv
<1>11. RestInv'
  <2>1. ASSUME \A q \in Procs : at'[q] \notin Looping PROVE tasks' = <<>> /\ Left(Workers)'
    <3>1. \A q \in Procs : at[q] \notin Looping
      BY <1>1, <2>1 DEF Looping
    <3>2. tasks = <<>> /\ Left(Workers)
      BY <1>0, <1>1, <3>1 DEF RestInv
    <3>3. QED
      BY <1>1, <1>3, <3>2, LeftStays
  <2>2. QED
    BY <2>1 DEF RestInv
<1>12. QED
  BY <1>4, <1>5, <1>6, <1>7, <1>8, <1>9, <1>10, <1>11 DEF StopInv

LEMMA StopsKeeps ==
    ASSUME StopInv, NEW p \in Procs, Stops(p)
    PROVE  StopInv'
<1>0. /\ StopTypes /\ OneStops /\ CancelInv /\ NewLives /\ RunsInv /\ Workers \subseteq Procs
  BY DEF StopInv, Procs
<1>1. /\ UNCHANGED <<tasks, lives, strays, waits_for, cancelled>> /\ running /\ ~running'
      /\ \A q \in Procs : q # p => at'[q] = at[q]
      /\ at[p] = "begin" /\ at'[p] = "cancel" /\ stoppers' = stoppers \cup {p}
  BY DEF Stops, Moves
<1>2. p \notin cancelled
  BY <1>0, <1>1 DEF CancelInv, Busy
<1>3. NoneRises
  BY <1>0, <1>1 DEF NoneRises, Alive
<1>4. StopTypes' /\ index'[p] = 1
  BY <1>0, <1>1 DEF StopTypes, Stops
<1>5. OneStops'
  BY <1>0, <1>1 DEF OneStops
<1>6. CancelInv'
  <2>1. ASSUME NEW t \in Procs, Awaited(t) PROVE FALSE
    BY <1>0, <1>1, <2>1 DEF Awaited, OneStops, Stopping
  <2>2. cancelled = {} /\ \A t \in Procs : at[t] # "fin"
    BY <1>0, <2>1 DEF CancelInv
  <2>3. QED
    BY <1>1, <2>2 DEF CancelInv
<1>7. NewLives'
  BY <1>0, <1>1 DEF NewLives
<1>8. RoadInv'
  <2>1. at'[p] \in Stopping \ {"pipe"}
    BY <1>1 DEF Stopping
  <2>2. QED
    BY <2>1 DEF RoadInv
<1>9. RunsInv' /\ RestInv'
  BY <1>1 DEF RunsInv, RestInv, Looping
<1>10. LoopInv'
  <2>1. ASSUME NEW q \in Procs, at'[q] \in Looping PROVE q = p
    BY <1>0, <1>1, <2>1 DEF OneStops, Looping, Stopping
  <2>2. Listed' /\ Left(Workers \ OfLife)'
    BY <1>0, <1>1, <1>3, ListedStays, LeftOutside DEF RunsInv
  <2>3. \A j \in DOMAIN tasks' : ~(j < 1)
    BY <2>2 DEF Listed
  <2>4. Looped(p)'
    BY <1>1, <1>4, <2>2, <2>3 DEF Looped
  <2>5. QED
    BY <2>1, <2>4 DEF LoopInv
<1>11. QED
  BY <1>4, <1>5, <1>6, <1>7, <1>8, <1>9, <1>10 DEF StopInv

LEMMA Alone ==
    ASSUME OneStops, NEW p \in Procs, at[p] \in Stopping
    PROVE  ~running /\ p \in stoppers /\ \A q \in Procs : q # p => at[q] \notin Stopping
BY DEF OneStops

LEMMA NobodyAwaited ==
    ASSUME CancelInv, \A q \in Procs : at[q] \notin {"await", "overdue"}
    PROVE  cancelled = {} /\ \A t \in Procs : at[t] # "fin"
BY DEF CancelInv, Awaited

\* A task inside its stop moves on within it.
StopMoves(p) ==
    /\ UNCHANGED <<running, lives, stoppers, strays>>
    /\ \A q \in Procs : q # p => at'[q] = at[q]
    /\ at[p] \in Stopping /\ at'[p] \in Stopping

LEMMA StopMovesOn ==
    ASSUME OneStops, NewLives, StopTypes, DOMAIN index' = Procs, DOMAIN waits_for' = Procs,
           NEW p \in Procs, StopMoves(p)
    PROVE  /\ StopTypes' /\ OneStops' /\ NewLives' /\ RunsInv' /\ NoneRises
           /\ at'[p] # "pipe" => RoadInv'
           /\ at'[p] \in Looping => RestInv'
           /\ (at'[p] \in Looping => Looped(p)') => LoopInv'
<1>0. Workers \subseteq Procs
  BY DEF Procs
<1>1. ~running /\ p \in stoppers /\ \A q \in Procs : q # p => at[q] \notin Stopping
  BY Alone DEF StopMoves
<1>2. StopTypes' /\ OneStops'
  BY <1>1 DEF StopTypes, OneStops, StopMoves
<1>3. NewLives'
  BY <1>0 DEF NewLives, StopMoves, Stopping
<1>4. NoneRises
  BY <1>0 DEF NoneRises, StopMoves, Alive, Stopping
<1>5. RunsInv'
  BY <1>1 DEF RunsInv, StopMoves
<1>6. at'[p] # "pipe" => RoadInv'
  BY DEF RoadInv, StopMoves
<1>7. at'[p] \in Looping => RestInv'
  BY DEF RestInv
<1>8. ASSUME at'[p] \in Looping => Looped(p)' PROVE LoopInv'
  <2>1. ASSUME NEW q \in Procs, at'[q] \in Looping PROVE q = p
    BY <1>1, <2>1 DEF StopMoves, Looping, Stopping
  <2>2. QED
    BY <1>8, <2>1 DEF LoopInv
<1>9. QED
  BY <1>2, <1>3, <1>4, <1>5, <1>6, <1>7, <1>8

LEMMA CancelsKeeps ==
    ASSUME StopInv, Scheduled, DOMAIN at = Procs, NEW p \in Procs, StopCancels(p)
    PROVE  StopInv'
<1>0. /\ StopTypes /\ OneStops /\ CancelInv /\ NewLives /\ LoopInv /\ Workers \subseteq Procs
  BY DEF StopInv, Procs
<1>1. at[p] = "cancel" /\ Looped(p)
  BY <1>0 DEF StopCancels, LoopInv, Looping
<1>2. ~running /\ p \in stoppers /\ \A q \in Procs : q # p => at[q] \notin Stopping
  BY <1>0, <1>1, Alone DEF Stopping
<1>3. cancelled = {} /\ \A t \in Procs : at[t] # "fin"
  BY <1>0, <1>1, <1>2, NobodyAwaited DEF Stopping
<1>4. UNCHANGED <<running, lives, stoppers, strays, index>>
  BY DEF StopCancels, history
<1>5. /\ Listed /\ Left(Workers \ OfLife) /\ index[p] \in Nat \ {0}
      /\ \A j \in DOMAIN tasks : j < index[p] /\ Alive(tasks[j]) => tasks[j] \in stoppers
  BY <1>1 DEF Looped
<1>6. DOMAIN tasks = 1 .. Len(tasks) /\ Len(tasks) \in Nat
  BY <1>5 DEF Listed
<1>7. CASE index[p] > Len(tasks)
  <2>1. tasks' = <<>> /\ Go(p, "close") /\ UNCHANGED <<waits_for, cancelled>>
    BY <1>7 DEF StopCancels
  <2>2. StopMoves(p) /\ at'[p] = "close"
    BY <1>1, <1>4, <2>1 DEF Go, StopMoves, Stopping
  <2>3. /\ StopTypes' /\ OneStops' /\ NewLives' /\ RunsInv' /\ NoneRises /\ RoadInv' /\ LoopInv'
    BY <1>0, <1>4, <2>1, <2>2, StopMovesOn DEF StopTypes, Looping
  <2>4. CancelInv'
    BY <1>3, <2>1, <2>2 DEF CancelInv, StopMoves
  <2>5. Left(Workers)
    <3>1. ASSUME NEW w \in OfLife, Alive(w) PROVE w \in stoppers
      <4>1. PICK j \in DOMAIN tasks : w = tasks[j]
        BY <1>5 DEF Listed
      <4>2. j < index[p]
        BY <1>5, <1>6, <1>7
      <4>3. QED
        BY <1>5, <3>1, <4>1, <4>2
    <3>2. QED
      BY <1>5, <3>1 DEF Left
  <2>6. RestInv'
    BY <2>1, <2>3, <2>5, LeftStays DEF RestInv
  <2>7. QED
    BY <2>3, <2>4, <2>6 DEF StopInv
<1>8. CASE ~(index[p] > Len(tasks))
  <2> DEFINE t == tasks[index[p]]
  <2>1. /\ waits_for' = [waits_for EXCEPT ![p] = t] /\ Go(p, "await") /\ UNCHANGED tasks
        /\ cancelled' = IF t # p /\ Alive(t) THEN cancelled \cup {t} ELSE cancelled
    BY <1>8 DEF StopCancels
  <2>2. StopMoves(p) /\ at'[p] = "await"
    BY <1>1, <1>4, <2>1 DEF Go, StopMoves, Stopping
  <2>3. index[p] \in DOMAIN tasks /\ t \in Procs
    BY <1>0, <1>5, <1>6, <1>8, OfLifeWorks
  <2>4. waits_for'[p] = t /\ DOMAIN waits_for' = Procs /\ DOMAIN index' = Procs
    BY <1>0, <1>4, <2>1 DEF StopTypes
  <2>5. CancelInv'
    <3>1. ASSUME NEW u \in cancelled' PROVE u = t /\ t # p /\ Alive(t)
      BY <1>3, <2>1, <3>1
    <3>2. ASSUME NEW u \in cancelled' PROVE Alive(u)' /\ at'[u] \notin Busy
      <4>1. at'[u] = at[u] /\ Alive(u)
        BY <2>2, <2>3, <3>1 DEF StopMoves
      <4>2. at[u] \notin Busy
        BY <1>1, <2>3, <3>1 DEF Scheduled, OneBusy, Busy
      <4>3. QED
        BY <4>1, <4>2 DEF Alive
    <3>3. \A q \in Procs : at'[q] # "fin"
      BY <1>3, <2>2 DEF StopMoves
    <3>4. ASSUME NEW u \in cancelled' PROVE Awaited(u)'
      BY <2>2, <2>4, <3>1 DEF Awaited
    <3>5. cancelled' \subseteq Procs
      BY <2>3, <3>1
    <3>6. QED
      BY <3>2, <3>3, <3>4, <3>5 DEF CancelInv
  <2>6. NoneRises
    BY <1>0, <2>2, <2>4, StopMovesOn
  <2>7. Looped(p)'
    <3>1. Listed' /\ Left(Workers \ OfLife)'
      BY <1>4, <1>5, <2>1, <2>6, ListedStays, LeftOutside
    <3>2. \A j \in DOMAIN tasks' : j < index'[p] /\ Alive(tasks[j])' => tasks'[j] \in stoppers'
      BY <1>4, <1>5, <2>1, <2>6, PastStays
    <3>3. index'[p] \in DOMAIN tasks' /\ waits_for'[p] = tasks'[index'[p]] /\ index'[p] \in Nat \ {0}
      BY <1>4, <1>5, <2>1, <2>3, <2>4
    <3>4. QED
      BY <3>1, <3>2, <3>3 DEF Looped
  <2>8. /\ StopTypes' /\ OneStops' /\ NewLives' /\ RunsInv' /\ RoadInv' /\ LoopInv' /\ RestInv'
    BY <1>0, <2>2, <2>4, <2>7, StopMovesOn DEF Looping
  <2>9. QED
    BY <2>5, <2>8 DEF StopInv
<1>9. QED
  BY <1>7, <1>8

LEMMA AwaitedKeeps ==
    ASSUME StopInv, DOMAIN at = Procs, NEW p \in Procs, StopAwaited(p)
    PROVE  StopInv'
<1>0. /\ StopTypes /\ OneStops /\ CancelInv /\ NewLives /\ LoopInv /\ Workers \subseteq Procs
  BY DEF StopInv, Procs
<1>1. at[p] \in {"await", "overdue"} /\ Looped(p) /\ (waits_for[p] = p \/ ~Alive(waits_for[p]))
  BY <1>0 DEF StopAwaited, LoopInv, Looping
<1>2. ~running /\ p \in stoppers /\ \A q \in Procs : q # p => at[q] \notin Stopping
  BY <1>0, <1>1, Alone DEF Stopping
<1>3. UNCHANGED <<running, lives, stoppers, strays, tasks, waits_for, cancelled>>
  BY DEF StopAwaited, history, sessionVars
<1>4. StopMoves(p) /\ at'[p] = "cancel"
  BY <1>1, <1>3 DEF StopAwaited, Go, StopMoves, Stopping
<1>5. index' = [index EXCEPT ![p] = @ + 1]
  BY DEF StopAwaited
<1>6. index'[p] = index[p] + 1 /\ DOMAIN index' = Procs /\ DOMAIN waits_for' = Procs
  BY <1>0, <1>3, <1>5 DEF StopTypes
<1>7. ASSUME NEW t \in Procs, Awaited(t) PROVE waits_for[p] = t /\ t # p
  BY <1>2, <1>7 DEF Awaited, Stopping
<1>8. cancelled = {} /\ \A t \in Procs : at[t] # "fin"
  <2>1. ASSUME NEW t \in Procs, t \in cancelled \/ at[t] = "fin" PROVE FALSE
    <3>1. Alive(t) /\ Awaited(t)
      BY <1>0, <2>1 DEF CancelInv, Alive
    <3>2. QED
      BY <1>1, <1>7, <3>1
  <2>2. QED
    BY <1>0, <2>1 DEF CancelInv
<1>9. CancelInv'
  BY <1>3, <1>4, <1>8 DEF CancelInv, StopMoves
<1>10. NoneRises
  BY <1>0, <1>4, <1>6, StopMovesOn
<1>11. Looped(p)'
  <2>1. /\ Listed /\ Left(Workers \ OfLife) /\ index[p] \in Nat \ {0}
        /\ \A j \in DOMAIN tasks : j < index[p] /\ Alive(tasks[j]) => tasks[j] \in stoppers
        /\ index[p] \in DOMAIN tasks /\ waits_for[p] = tasks[index[p]]
    BY <1>1 DEF Looped
  <2>2. DOMAIN tasks \subseteq Nat
    BY <2>1 DEF Listed
  <2>3. \A j \in DOMAIN tasks : j < index[p] + 1 /\ Alive(tasks[j]) => tasks[j] \in stoppers
    <3>1. ASSUME NEW j \in DOMAIN tasks, j < index[p] + 1, Alive(tasks[j]) PROVE tasks[j] \in stoppers
      <4>1. j < index[p] \/ j = index[p]
        BY <2>1, <2>2, <3>1
      <4>2. CASE j = index[p]
        BY <1>1, <1>2, <2>1, <3>1, <4>2
      <4>3. QED
        BY <2>1, <3>1, <4>1, <4>2
    <3>2. QED
      BY <3>1
  <2>4. Listed' /\ Left(Workers \ OfLife)'
    BY <1>3, <1>10, <2>1, ListedStays, LeftOutside
  <2>5. \A j \in DOMAIN tasks' : j < index[p] + 1 /\ Alive(tasks[j])' => tasks'[j] \in stoppers'
    BY <1>3, <1>10, <2>1, <2>3, PastStays
  <2>6. index'[p] \in Nat \ {0}
    BY <1>6, <2>1
  <2>7. QED
    BY <1>4, <1>6, <2>4, <2>5, <2>6 DEF Looped
<1>12. /\ StopTypes' /\ OneStops' /\ NewLives' /\ RunsInv' /\ RoadInv' /\ LoopInv' /\ RestInv'
  BY <1>0, <1>4, <1>6, <1>11, StopMovesOn DEF Looping
<1>13. QED
  BY <1>9, <1>12 DEF StopInv

LEMMA WaitsLongKeeps ==
    ASSUME StopInv, DOMAIN at = Procs, NEW p \in Procs, StopWaitsLong(p)
    PROVE  StopInv'
<1>0. /\ StopTypes /\ OneStops /\ CancelInv /\ NewLives /\ LoopInv /\ Workers \subseteq Procs
  BY DEF StopInv, Procs
<1> DEFINE t == waits_for[p]
<1>1. at[p] = "await" /\ Looped(p) /\ t # p /\ Alive(t) /\ Calm
  BY <1>0 DEF StopWaitsLong, LoopInv, Looping, Ready
<1>2. ~running /\ p \in stoppers /\ \A q \in Procs : q # p => at[q] \notin Stopping
  BY <1>0, <1>1, Alone DEF Stopping
<1>3. /\ UNCHANGED <<running, lives, stoppers, strays, tasks, index, waits_for>>
      /\ cancelled' = cancelled \cup {t}
  BY DEF StopWaitsLong, history, sessionVars, stopVars
<1>4. StopMoves(p) /\ at'[p] = "overdue"
  BY <1>1, <1>3 DEF StopWaitsLong, Go, StopMoves, Stopping
<1>5. t \in Procs
  BY <1>0, <1>1, OfLifeWorks DEF Looped
<1>6. CancelInv'
  <2>1. ASSUME NEW u \in Procs, Awaited(u) PROVE Awaited(u)'
    <3>1. waits_for[p] = u /\ u # p
      BY <1>2, <2>1 DEF Awaited, Stopping
    <3>2. QED
      BY <1>3, <1>4, <3>1 DEF Awaited
  <2>2. Awaited(t)'
    BY <1>1, <1>3, <1>4 DEF Awaited
  <2>3. ASSUME NEW u \in cancelled' PROVE Alive(u)' /\ at'[u] \notin Busy
    <3>1. Alive(u) /\ u \in Procs
      BY <1>0, <1>1, <1>3, <1>5, <2>3 DEF CancelInv
    <3>2. CASE u = p
      BY <1>4, <3>2 DEF Alive, Busy
    <3>3. CASE u # p
      BY <1>1, <1>4, <3>1, <3>3 DEF StopMoves, Calm, Alive
    <3>4. QED
      BY <3>2, <3>3
  <2>4. ASSUME NEW u \in Procs, u \in cancelled' \/ at'[u] = "fin" PROVE Awaited(u)'
    BY <1>0, <1>3, <1>4, <2>1, <2>2, <2>4 DEF CancelInv, StopMoves
  <2>5. cancelled' \subseteq Procs
    BY <1>0, <1>3, <1>5 DEF CancelInv
  <2>6. QED
    BY <2>3, <2>4, <2>5 DEF CancelInv
<1>7. NoneRises
  BY <1>0, <1>3, <1>4, StopMovesOn DEF StopTypes
<1>8. Looped(p)'
  <2>1. Listed' /\ Left(Workers \ OfLife)'
    BY <1>1, <1>3, <1>7, ListedStays, LeftOutside DEF Looped
  <2>2. \A j \in DOMAIN tasks' : j < index[p] /\ Alive(tasks[j])' => tasks'[j] \in stoppers'
    BY <1>1, <1>3, <1>7, PastStays DEF Looped
  <2>3. QED
    BY <1>1, <1>3, <2>1, <2>2 DEF Looped
<1>9. /\ StopTypes' /\ OneStops' /\ NewLives' /\ RunsInv' /\ RoadInv' /\ LoopInv' /\ RestInv'
  BY <1>0, <1>3, <1>4, <1>8, StopMovesOn DEF Looping, StopTypes
<1>10. QED
  BY <1>6, <1>9 DEF StopInv

\* After the loop the list is empty, and nobody logs in who does not hold the lock.
LEMMA ClosesKeeps ==
    ASSUME StopInv, LifeInv, NEW p \in Procs, StopCloses(p)
    PROVE  StopInv'
<1>0. /\ StopTypes /\ OneStops /\ CancelInv /\ NewLives /\ RestInv /\ DOMAIN at = Procs
      /\ Workers \subseteq Procs
  BY DEF StopInv, Procs, LifeInv
<1>1. at[p] \in {"close", "closing"}
  BY DEF StopCloses
<1>2. ~running /\ p \in stoppers /\ \A q \in Procs : q # p => at[q] \notin Stopping
  BY <1>0, <1>1, Alone DEF Stopping
<1>3. cancelled = {} /\ \A t \in Procs : at[t] # "fin"
  BY <1>0, <1>1, <1>2, NobodyAwaited DEF Stopping
<1>4. UNCHANGED <<running, lives, stoppers, strays, tasks, index, waits_for, cancelled>>
  BY DEF StopCloses, history, sessionVars, stopVars
<1>5. StopMoves(p) /\ at'[p] \in {"closing", "self", "pipe"}
  BY <1>0, <1>1, <1>4 DEF StopCloses, Go, StopMoves, Stopping
<1>6. /\ StopTypes' /\ OneStops' /\ NewLives' /\ RunsInv' /\ LoopInv' /\ NoneRises
      /\ at'[p] # "pipe" => RoadInv'
  BY <1>0, <1>4, <1>5, StopMovesOn DEF Looping, StopTypes
<1>7. CancelInv'
  BY <1>3, <1>4, <1>5 DEF CancelInv, StopMoves
<1>8. RoadInv'
  <2>1. CASE at'[p] = "pipe"
    <3>1. lock = NoOne
      BY <1>0, <2>1 DEF StopCloses, Go
    <3>2. \A q \in Procs : at'[q] # "login"
      BY <1>5, <3>1, CallersAssumption DEF LifeInv, LoginHolds, StopMoves
    <3>3. QED
      BY <1>2, <1>4, <3>2 DEF RoadInv
  <2>2. QED
    BY <1>6, <2>1
<1>9. RestInv'
  <2>1. tasks = <<>> /\ Left(Workers)
    BY <1>0, <1>1, <1>2 DEF RestInv, Looping, Stopping
  <2>2. QED
    BY <1>4, <1>6, <2>1, LeftStays DEF RestInv
<1>10. QED
  BY <1>6, <1>7, <1>8, <1>9 DEF StopInv

LEMMA ReturnsKeeps ==
    ASSUME StopInv, DOMAIN at = Procs, NEW p \in Procs, StopReturns(p)
    PROVE  StopInv'
<1>0. /\ StopTypes /\ OneStops /\ CancelInv /\ NewLives /\ RoadInv /\ RestInv /\ Workers \subseteq Procs
  BY DEF StopInv, Procs
<1>1. at[p] = "pipe"
  BY DEF StopReturns
<1>2. ~running /\ p \in stoppers /\ \A q \in Procs : q # p => at[q] \notin Stopping
  BY <1>0, <1>1, Alone DEF Stopping
<1>3. cancelled = {} /\ \A t \in Procs : at[t] # "fin"
  BY <1>0, <1>1, <1>2, NobodyAwaited DEF Stopping
<1>4. UNCHANGED <<running, lives, stoppers, strays, tasks, index, waits_for, cancelled, on_road>>
  BY DEF StopReturns, history, sessionVars, stopVars
<1>5. /\ \A q \in Procs : q # p => at'[q] = at[q]
      /\ at'[p] \in {"begin", "out", "loop", "ended"}
  BY Returns DEF StopReturns, Moves
<1>6. NoneRises
  BY <1>0, <1>1, <1>4, <1>5 DEF NoneRises, Alive
<1>7. StopTypes' /\ OneStops' /\ NewLives' /\ RunsInv'
  BY <1>0, <1>1, <1>2, <1>4, <1>5 DEF StopTypes, OneStops, NewLives, RunsInv, Stopping
<1>8. CancelInv'
  BY <1>3, <1>4, <1>5 DEF CancelInv
<1>9. \A q \in Procs : at[q] \notin Looping /\ at'[q] \notin Looping
  BY <1>1, <1>2, <1>5 DEF Looping, Stopping
<1>10. LoopInv'
  BY <1>9 DEF LoopInv
<1>11. RestInv'
  <2>1. tasks = <<>> /\ Left(Workers)
    BY <1>0, <1>2, <1>9 DEF RestInv
  <2>2. QED
    BY <1>4, <1>6, <2>1, LeftStays DEF RestInv
<1>12. RoadInv'
  <2>1. ASSUME \E q \in Procs : at'[q] = "login" PROVE on_road' = Cardinality(OnRoad)' - strays'
    <3>1. \E q \in Procs : at[q] = "login"
      BY <1>5, <2>1
    <3>2. \A q \in Procs : at[q] \notin Stopping \ {"pipe"}
      BY <1>1, <1>2
    <3>3. on_road = Cardinality(OnRoad) - strays
      BY <1>0, <3>1, <3>2 DEF RoadInv
    <3>4. SameRoad
      BY <1>0, <1>1, <1>5 DEF SameRoad
    <3>5. QED
      BY <1>4, <3>3, <3>4, RoadStays
  <2>2. QED
    BY <1>2, <1>4, <2>1 DEF RoadInv
<1>13. QED
  BY <1>7, <1>8, <1>10, <1>11, <1>12 DEF StopInv

\* Whom a cancellation reaches, the one task inside its stop waits for.
LEMMA CancelledKeeps ==
    ASSUME StopInv, DOMAIN at = Procs, NEW t \in Workers, Cancelled(t)
    PROVE  StopInv'
<1>0. /\ StopTypes /\ OneStops /\ CancelInv /\ NewLives /\ LoopInv /\ Workers \subseteq Procs /\ t \in Procs
  BY DEF StopInv, Procs
<1>1. t \in cancelled /\ Alive(t) /\ Awaited(t)
  BY <1>0 DEF Cancelled, CancelInv
<1>2. PICK p \in Procs : at[p] \in {"await", "overdue"} /\ waits_for[p] = t /\ t # p
  BY <1>1 DEF Awaited
<1>3. ~running /\ \A q \in Procs : q # p => at[q] \notin Stopping
  BY <1>0, <1>2, Alone DEF Stopping
<1>4. at[t] \notin Stopping
  BY <1>0, <1>2, <1>3
<1>5. UNCHANGED <<running, lives, stoppers, strays, tasks, index, waits_for>>
  BY DEF Cancelled, history, stopVars
<1>6. cancelled' = cancelled \ {t}
  BY <1>4 DEF Cancelled, Stopping
<1>7. (\A q \in Procs : q # t => at'[q] = at[q]) /\ at'[t] \in {"ended", "fin"}
  BY <1>0, <1>4 DEF Cancelled, Dies, Go, Stopping
<1>8. at'[p] = at[p]
  BY <1>2, <1>7
<1>9. NoneRises
  BY <1>0, <1>1, <1>5, <1>7 DEF NoneRises, Alive
<1>10. StopTypes' /\ OneStops' /\ NewLives' /\ RunsInv'
  BY <1>0, <1>1, <1>3, <1>5, <1>7 DEF StopTypes, OneStops, NewLives, RunsInv, Stopping, Alive
<1>11. CancelInv'
  <2>1. ASSUME NEW u \in Procs, Awaited(u) PROVE u = t
    BY <1>2, <1>3, <2>1 DEF Awaited, Stopping
  <2>2. cancelled' = {}
    BY <1>0, <1>6, <2>1 DEF CancelInv
  <2>3. ASSUME NEW u \in Procs, at'[u] = "fin" PROVE Awaited(u)'
    <3>1. u = t
      BY <1>0, <1>7, <2>1, <2>3 DEF CancelInv
    <3>2. QED
      BY <1>2, <1>5, <1>8, <3>1 DEF Awaited
  <2>4. QED
    BY <2>2, <2>3 DEF CancelInv
<1>12. RoadInv' /\ RestInv'
  BY <1>2, <1>8 DEF RoadInv, RestInv, Looping, Stopping
<1>13. LoopInv'
  <2>1. ASSUME NEW q \in Procs, at'[q] \in Looping PROVE Looped(q)'
    <3>1. q # t /\ at'[q] = at[q]
      BY <1>7, <2>1 DEF Looping
    <3>2. QED
      BY <1>0, <1>5, <1>9, <2>1, <3>1, LoopedStays DEF LoopInv
  <2>2. QED
    BY <2>1 DEF LoopInv
<1>14. QED
  BY <1>10, <1>11, <1>12, <1>13 DEF StopInv

LEMMA RestsKeeps ==
    ASSUME StopInv, Rests
    PROVE  StopInv'
<1>1. UNCHANGED <<running, tasks, lives, pipe_running, stoppers, strays, index, waits_for,
                cancelled, at, on_road>>
  BY DEF Rests
<1>2. StopTypes' /\ OneStops' /\ CancelInv' /\ NewLives'
  BY <1>1 DEF StopInv, StopTypes, OneStops, CancelInv, NewLives, Awaited, Alive
<1>3. RoadInv'
  BY <1>1 DEF StopInv, RoadInv, OnRoad
<1>4. RunsInv' /\ LoopInv' /\ RestInv'
  BY <1>1 DEF StopInv, RunsInv, LoopInv, RestInv, Looped, Listed, OfLife, Left, Alive
<1>5. QED
  BY <1>2, <1>3, <1>4 DEF StopInv

\* A login that did not fall into a stop finds an empty list, and the workers it makes are new.
LEMMA LoginKeeps ==
    ASSUME StopInv, LifeInv, Scheduled, NEW p \in Procs, LoginSucceeds(p), ~overlap'
    PROVE  StopInv'
<1>0. /\ StopTypes /\ OneStops /\ CancelInv /\ NewLives /\ RoadInv /\ RestInv
      /\ DOMAIN at = Procs /\ Workers \subseteq Procs /\ lives \in Nat
  BY DEF StopInv, Procs, LifeInv
<1>1. at[p] = "login" /\ ~running /\ session_id = lives + 1
  BY DEF LoginSucceeds, LifeInv, LoginHolds
<1>2. \A q \in Procs : at[q] \notin Stopping
  BY DEF LoginSucceeds
<1>3. cancelled = {} /\ \A t \in Procs : at[t] # "fin"
  BY <1>0, <1>2, NobodyAwaited DEF Stopping
<1>4. tasks = <<>> /\ Left(Workers)
  BY <1>0, <1>1, <1>2 DEF RestInv, Looping, Stopping
<1>5. /\ UNCHANGED <<on_road, stoppers, strays, index, waits_for, cancelled>>
      /\ running' = TRUE /\ pipe_running' = TRUE /\ lives' = lives + 1
  BY DEF LoginSucceeds, stopVars
<1>6. lives' \in Lives
  <2>1. lives <= calls + troubles
    BY <1>1 DEF Scheduled, LivesCounted, Fits
  <2>2. calls \in Nat /\ troubles \in Nat /\ calls <= MaxCalls /\ troubles <= MaxTroubles
    BY SessionLifeAssumption DEF Scheduled, Bounded
  <2>3. lives + 1 \in 1 .. MaxCalls + MaxTroubles + 1
    BY <1>0, <2>1, <2>2, SessionLifeAssumption
  <2>4. QED
    BY <1>5, <2>3 DEF Lives
<1> DEFINE New == {lives + 1} \X (1 .. ThreadNum)
<1>7. New = OfLife' /\ New \subseteq Workers
  BY <1>5, <1>6 DEF OfLife, Workers
<1>8. \A w \in New : at[w] = "none" /\ w # p
  <2>1. ASSUME NEW w \in New PROVE at[w] = "none"
    <3>1. w \in Workers /\ w[1] = lives + 1
      BY <1>7
    <3>2. w[1] > lives
      BY <1>0, <3>1
    <3>3. QED
      BY <1>0, <3>1, <3>2 DEF NewLives
  <2>2. QED
    BY <1>1, <2>1
<1>9. /\ DOMAIN at' = Procs /\ \A w \in New : at'[w] = "loop"
      /\ \A q \in Procs : q # p /\ q \notin New => at'[q] = at[q]
      /\ at'[p] \in {"begin", "out", "loop", "ended"}
  BY <1>0, <1>1, <1>7, <1>8 DEF LoginSucceeds, Home
<1> HIDE DEF New
<1>10. StopTypes'
  BY <1>0, <1>5 DEF StopTypes
<1>11. \A q \in Procs : at'[q] \notin Stopping
  BY <1>2, <1>9 DEF Stopping
<1>12. OneStops'
  BY <1>11 DEF OneStops
<1>13. CancelInv'
  <2>1. \A q \in Procs : at'[q] # "fin"
    BY <1>3, <1>9
  <2>2. QED
    BY <1>3, <1>5, <2>1 DEF CancelInv
<1>14. NewLives'
  <2>1. ASSUME NEW w \in Workers, w[1] > lives + 1 PROVE at'[w] = "none"
    <3>1. w \notin New
      BY <1>0, <2>1 DEF New
    <3>2. w[1] \in Nat
      BY <2>1, SessionLifeAssumption DEF Workers, Lives
    <3>3. w[1] > lives
      BY <1>0, <2>1, <3>2
    <3>4. at[w] = "none"
      BY <1>0, <3>3 DEF NewLives
    <3>5. QED
      BY <1>0, <1>1, <1>9, <3>1, <3>4
  <2>2. QED
    BY <1>5, <2>1 DEF NewLives
<1>15. RoadInv'
  <2>1. on_road = Cardinality(OnRoad) - strays
    BY <1>0, <1>1, <1>2 DEF RoadInv
  <2>2. SameRoad
    BY <1>0, <1>1, <1>8, <1>9 DEF SameRoad
  <2>3. QED
    BY <1>5, <2>1, <2>2, RoadStays DEF RoadInv
<1>16. Listed'
  <2> DEFINE s == [i \in 1 .. ThreadNum |-> <<lives + 1, i>>]
  <2>1. s \in Seq(New) /\ Len(s) = ThreadNum /\ DOMAIN s = 1 .. ThreadNum
    BY SessionLifeAssumption DEF New
  <2>2. tasks' = s
    <3>1. tasks' = <<>> \o s
      BY <1>1, <1>4 DEF LoginSucceeds
    <3>2. QED
      BY <2>1, <3>1
  <2>3. {s[i] : i \in DOMAIN s} = New
    BY DEF New
  <2> HIDE DEF s
  <2>4. QED
    BY <1>6, <1>7, <2>1, <2>2, <2>3 DEF Listed
<1>17. RunsInv'
  <2>1. \A w \in OfLife' : Alive(w)'
    BY <1>7, <1>9 DEF Alive
  <2>2. ASSUME NEW w \in Workers, w \notin New, Alive(w)' PROVE w \in stoppers'
    <3>1. Alive(w)
      BY <1>0, <1>1, <1>9, <2>2 DEF Alive
    <3>2. QED
      BY <1>4, <1>5, <3>1 DEF Left
  <2>3. Left(Workers \ OfLife)'
    BY <1>7, <2>2 DEF Left
  <2>4. QED
    BY <1>5, <1>16, <2>1, <2>3 DEF RunsInv
<1>18. LoopInv' /\ RestInv'
  BY <1>5, <1>11 DEF LoopInv, RestInv, Looping, Stopping
<1>19. QED
  BY <1>10, <1>12, <1>13, <1>14, <1>15, <1>17, <1>18 DEF StopInv

\* A start that has fallen into a stop is remembered.
LEMMA OverlapStays ==
    ASSUME DOMAIN at = Procs, [Next]_vars
    PROVE  overlap => overlap'
<1>1. ASSUME Rests PROVE overlap' = overlap
  BY <1>1 DEF Rests
<1>2. ASSUME NEW p \in Procs, LoginSucceeds(p) PROVE overlap => overlap'
  BY <1>2 DEF LoginSucceeds
<1>3. ASSUME NEW p \in Procs, Plain(p) \/ SetsUp(p) \/ Stops(p) PROVE overlap' = overlap
  BY <1>3 DEF Plain, SetsUp, Stops
<1>4. ASSUME NEW p \in Procs,
             \/ StopCancels(p) \/ StopAwaited(p) \/ StopWaitsLong(p) \/ StopCloses(p) \/ StopReturns(p)
             \/ Cancelled(p)
      PROVE  overlap' = overlap
  BY <1>4 DEF StopCancels, StopAwaited, StopWaitsLong, StopCloses, StopReturns, Cancelled, history
<1>5. QED
  BY <1>1, <1>2, <1>3, <1>4, Steps

\* The inductive invariant.
SessionInv == LifeInv /\ Scheduled /\ (~overlap => StopInv)

LEMMA SessionInit == Init => SessionInv
BY InitLife, InitScheduled, InitStop DEF SessionInv

LEMMA SessionNext == SessionInv /\ [Next]_vars => SessionInv'
<1>1. SUFFICES ASSUME SessionInv, [Next]_vars PROVE SessionInv'
  OBVIOUS
<1>2. LifeInv /\ Scheduled /\ DOMAIN at = Procs
  BY <1>1 DEF SessionInv, LifeInv
<1>3. LifeInv' /\ Scheduled'
  BY <1>1, <1>2, StepKeepsLife, ScheduledNext
<1>4. ASSUME ~overlap' PROVE StopInv'
  <2>1. StopInv
    BY <1>1, <1>2, <1>4, OverlapStays DEF SessionInv
  <2>2. CASE Rests
    BY <2>1, <2>2, RestsKeeps
  <2>3. ASSUME NEW p \in Procs, Plain(p) \/ SetsUp(p) \/ LoginSucceeds(p) \/ Stops(p) PROVE StopInv'
    BY <1>2, <1>4, <2>1, <2>3, PlainKeeps, SetsUpKeeps, LoginKeeps, StopsKeeps
  <2>4. ASSUME NEW p \in Procs, \/ StopCancels(p) \/ StopAwaited(p) \/ StopWaitsLong(p) \/ StopCloses(p)
                                \/ StopReturns(p) \/ (p \in Workers /\ Cancelled(p))
        PROVE  StopInv'
    BY <1>2, <2>1, <2>4, CancelsKeeps, AwaitedKeeps, WaitsLongKeeps, ClosesKeeps, ReturnsKeeps, CancelledKeeps
  <2>5. QED
    BY <1>1, <1>2, <2>2, <2>3, <2>4, Steps
<1>5. QED
  BY <1>3, <1>4 DEF SessionInv

\* For any number of callers, workers, calls and restarts, unless its start fell into
\* a stop, a running session has exactly its own workers to cancel, all alive, and a
\* pipe that runs; of former workers only those live on that stopped it themselves
\* (AsyncProxySession.start and stop, and the workers that call them).
THEOREM WorkersKnown == Spec => []WorkersExact
<1>1. SessionInv => WorkersExact
  <2>1. SUFFICES ASSUME SessionInv, running, ~overlap
                 PROVE  /\ {tasks[i] : i \in DOMAIN tasks} = Mine /\ Len(tasks) = ThreadNum /\ pipe_running
                        /\ \A w \in Mine : Alive(w)
                        /\ \A w \in Workers \ Mine : Alive(w) => w \in stoppers
    BY DEF WorkersExact
  <2>2. Mine = OfLife
    BY <2>1 DEF SessionInv, LifeInv, LoggedIn, Mine, OfLife
  <2>3. Listed /\ pipe_running /\ (\A w \in OfLife : Alive(w)) /\ Left(Workers \ OfLife)
    BY <2>1 DEF SessionInv, StopInv, RunsInv
  <2>4. QED
    BY <2>2, <2>3 DEF Listed, Left
<1>2. QED
  BY <1>1, SessionInit, SessionNext, PTL DEF Spec

\* Likewise its count of requests under way is right, but for those of workers of former
\* lives that were under way when it was set up (on_road_num, set to 0 by start).
THEOREM RequestsCounted == Spec => []RoadExact
<1>1. SessionInv => RoadExact
  <2>1. SUFFICES ASSUME SessionInv, running, ~overlap PROVE on_road = Cardinality(OnRoad) - strays
    BY DEF RoadExact
  <2>2. OneStops /\ RoadInv
    BY <2>1 DEF SessionInv, StopInv
  <2>3. \A p \in Procs : at[p] \notin Stopping
    BY <2>1, <2>2 DEF OneStops
  <2>4. QED
    BY <2>1, <2>2, <2>3 DEF RoadInv
<1>2. QED
  BY <1>1, SessionInit, SessionNext, PTL DEF Spec

=============================================================================
