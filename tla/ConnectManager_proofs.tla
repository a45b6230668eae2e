----------------------- MODULE ConnectManager_proofs -----------------------
(***************************************************************************)
(* Proofs about the connection pool: its invariants hold for any number of *)
(* callers, connect threads and connections, and any limits.               *)
(***************************************************************************)
EXTENDS ConnectManager, FiniteSetTheorems, TLAPS

(***************************************************************************)
(* The sets that are counted are finite.                                   *)
(***************************************************************************)
LEMMA FiniteSubsets ==
  /\ \A S \in SUBSET Callers : IsFiniteSet(S) /\ Cardinality(S) \in Nat
  /\ \A S \in SUBSET Connectors :
        IsFiniteSet(S) /\ Cardinality(S) \in Nat /\ Cardinality(S) <= Cardinality(Connectors)
  /\ \A S \in SUBSET Socks : IsFiniteSet(S) /\ Cardinality(S) \in Nat
BY ConnectAssumption, FS_Subset, FS_CardinalityType

(***************************************************************************)
(* A smaller set has fewer elements, a set with one more element one more. *)
(***************************************************************************)
LEMMA SmallerSet ==
  ASSUME NEW S, IsFiniteSet(S), NEW T \in SUBSET S
  PROVE  Cardinality(T) <= Cardinality(S)
BY FS_Subset

LEMMA OneMore ==
  ASSUME NEW S, NEW x, IsFiniteSet(S), x \notin S
  PROVE  Cardinality(S \cup {x}) = Cardinality(S) + 1
BY FS_AddElement

LEMMA OneLess ==
  ASSUME NEW S, NEW x, IsFiniteSet(S), x \in S
  PROVE  Cardinality(S \ {x}) = Cardinality(S) - 1
BY FS_RemoveElement

LEMMA AtMostOneMore ==
  ASSUME NEW S, NEW x, IsFiniteSet(S)
  PROVE  /\ Cardinality(S \cup {x}) \in Nat
         /\ Cardinality(S \cup {x}) <= Cardinality(S) + 1
<1>1. Cardinality(S) \in Nat
  BY FS_CardinalityType
<1>2. Cardinality(S \cup {x}) = IF x \in S THEN Cardinality(S) ELSE Cardinality(S) + 1
  BY FS_AddElement
<1>3. QED
  BY <1>1, <1>2

LEMMA AtMostOneLess ==
  ASSUME NEW S, NEW x, IsFiniteSet(S)
  PROVE  /\ Cardinality(S \ {x}) \in Nat
         /\ Cardinality(S \ {x}) >= Cardinality(S) - 1
<1>1. Cardinality(S) \in Nat /\ (Cardinality(S) = 0 <=> S = {})
  BY FS_CardinalityType, FS_EmptySet
<1>2. Cardinality(S \ {x}) = IF x \in S THEN Cardinality(S) - 1 ELSE Cardinality(S)
  BY FS_RemoveElement
<1>3. QED
  BY <1>1, <1>2

-----------------------------------------------------------------------------
(***************************************************************************)
(* Type correctness and the number of callers inside get_ssl_connection.   *)
(* They need each other: the counter stays a natural number because the    *)
(* caller that leaves has been counted.                                    *)
(***************************************************************************)
CallerInv == TypeOK /\ DemandExact

LEMMA CallerInit == Init => CallerInv
<1> SUFFICES ASSUME Init PROVE CallerInv
  OBVIOUS
<1>1. TypeOK
  BY ConnectAssumption DEF Init, TypeOK
<1>2. Inside = {}
  BY DEF Init, Inside
<1>3. QED
  BY <1>1, <1>2, FS_EmptySet DEF Init, DemandExact, CallerInv

(***************************************************************************)
(* The steps in which nobody enters or leaves get_ssl_connection.          *)
(***************************************************************************)
LEMMA InsideSame ==
  ASSUME TypeOK, NEW c \in Callers, pc[c] # "out", NEW where, where # "out", Goto(c, where)
  PROVE  Inside' = Inside
BY DEF TypeOK, Goto, Inside

LEMMA CallerActions ==
  ASSUME CallerInv, NEW c \in Callers, Call(c) \/ CallerStep(c)
  PROVE  CallerInv'
<1> USE DEF CallerInv
<1>1. CASE Call(c)
  <2>1. Inside' = Inside \cup {c} /\ c \notin Inside
    BY <1>1 DEF Call, Goto, Inside, TypeOK
  <2>2. Inside \in SUBSET Callers
    BY DEF Inside
  <2>3. DemandExact'
    BY <1>1, <2>1, <2>2, FiniteSubsets, OneMore DEF Call, DemandExact
  <2>4. TypeOK'
    BY <1>1, ConnectAssumption DEF Call, Goto, others, keeperVars, TypeOK
  <2>5. QED
    BY <2>3, <2>4
<1>2. CASE Loop(c)
  <2>1. TypeOK'
    BY <1>2 DEF Loop, WhileRunning, Goto, others, keeperVars, TypeOK
  <2>2. Inside' = Inside
    BY <1>2, InsideSame DEF Loop, WhileRunning
  <2>3. QED
    BY <1>2, <2>1, <2>2 DEF Loop, DemandExact
<1>3. CASE TryGet(c)
  <2>1. TypeOK'
    BY <1>3 DEF TryGet, Take, Goto, others, keeperVars, TypeOK
  <2>2. Inside' = Inside
    BY <1>3, InsideSame DEF TryGet
  <2>3. QED
    BY <1>3, <2>1, <2>2 DEF TryGet, DemandExact
<1>4. CASE BlockingGet(c)
  <2>1. TypeOK'
    BY <1>4 DEF BlockingGet, GetOrSleep, Take, Goto, others, keeperVars, TypeOK
  <2>2. Inside' = Inside
    BY <1>4, InsideSame DEF BlockingGet, GetOrSleep
  <2>3. QED
    BY <1>4, <2>1, <2>2 DEF BlockingGet, DemandExact
<1>5. CASE WaitEnds(c)
  <2>1. TypeOK'
    BY <1>5 DEF WaitEnds, Goto, others, keeperVars, TypeOK
  <2>2. Inside' = Inside
    BY <1>5, InsideSame DEF WaitEnds
  <2>3. QED
    BY <1>5, <2>1, <2>2 DEF WaitEnds, DemandExact
<1>6. CASE Got(c)
  <2>1. TypeOK'
    BY <1>6 DEF Got, ReturnOrClose, Goto, others, keeperVars, TypeOK
  <2>2. Inside' = Inside
    BY <1>6, InsideSame DEF Got, ReturnOrClose
  <2>3. QED
    BY <1>6, <2>1, <2>2 DEF Got, DemandExact
<1>7. CASE Leave(c)
  <2>1. Inside' = Inside \ {c} /\ c \in Inside
    BY <1>7 DEF Leave, Goto, Inside, TypeOK
  <2>2. Inside \in SUBSET Callers /\ Inside' \in SUBSET Callers
    BY DEF Inside
  <2>3. DemandExact' /\ waiting_num' \in Nat
    BY <1>7, <2>1, <2>2, FiniteSubsets, OneLess DEF Leave, DemandExact
  <2>4. TypeOK'
    BY <1>7, <2>3 DEF Leave, Goto, others, keeperVars, TypeOK
  <2>5. QED
    BY <2>3, <2>4
<1>8. QED
  BY <1>1, <1>2, <1>3, <1>4, <1>5, <1>6, <1>7 DEF CallerStep

(***************************************************************************)
(* A connection put into the pool may notify a caller, which stays inside. *)
(***************************************************************************)
LEMMA ConnectedKeepsCallers ==
  ASSUME CallerInv, NEW t \in Connectors, NEW s \in Socks, Connected(t, s)
  PROVE  CallerInv'
<1> USE DEF CallerInv
<1>1. Inside' = Inside
  BY DEF Connected, Put, Notify, Waiting, Inside, TypeOK
<1>2. TypeOK'
  BY DEF Connected, Put, Notify, Waiting, Moves, keeperVars, TypeOK
<1>3. QED
  BY <1>1, <1>2 DEF Connected, DemandExact

(***************************************************************************)
(* The steps of the other threads.                                         *)
(***************************************************************************)
LEMMA OtherActions ==
  ASSUME CallerInv,
         \/ \E t \in Connectors : Choose(t) \/ Begin(t) \/ ConnectFails(t)
         \/ KeeperStep
         \/ StopStep
         \/ UNCHANGED vars
  PROVE  CallerInv'
<1> USE DEF CallerInv
<1>1. UNCHANGED callerVars
  BY DEF Choose, Begin, ConnectFails, KeeperStep, KeeperLoop, KeeperTakes, KeeperCalls,
         KeeperSleeps, StopStep, StopCallback, StopRunning, StopClears, StopReturns, vars
<1>2. DemandExact'
  BY <1>1 DEF callerVars, Inside, DemandExact
<1>3. ASSUME NEW t \in Connectors, Choose(t) \/ Begin(t) \/ ConnectFails(t) PROVE TypeOK'
  BY <1>3 DEF Choose, InnerLoop, Begin, ConnectFails, Moves, callerVars, keeperVars, TypeOK
<1>4. CASE KeeperLoop
  BY <1>4, <1>2 DEF KeeperLoop, callerVars, TypeOK
<1>5. CASE KeeperTakes
  BY <1>5, <1>2 DEF KeeperTakes, callerVars, TypeOK
<1>6. CASE KeeperCalls
  BY <1>6, <1>2 DEF KeeperCalls, callerVars, TypeOK
<1>7. CASE KeeperSleeps
  BY <1>7, <1>2 DEF KeeperSleeps, callerVars, TypeOK
<1>8. CASE StopStep
  BY <1>8, <1>2 DEF StopStep, StopCallback, StopRunning, StopClears, StopReturns, callerVars,
                    keeperVars, TypeOK
<1>9. CASE UNCHANGED vars
  BY <1>9, <1>2 DEF vars, callerVars, keeperVars, TypeOK
<1>10. QED
  BY <1>2, <1>3, <1>4, <1>5, <1>6, <1>7, <1>8, <1>9 DEF KeeperStep

LEMMA CallerNext == CallerInv /\ [Next]_vars => CallerInv'
BY CallerActions, ConnectedKeepsCallers, OtherActions DEF Next, ConnectorStep, Quiet

-----------------------------------------------------------------------------
(***************************************************************************)
(* What the steps do to the pool: only a new connection is ever put.       *)
(***************************************************************************)
LEMMA PoolSteps ==
  ASSUME [Next]_vars
  PROVE  \/ pool' \in SUBSET pool
         \/ \E t \in Connectors, s \in Socks : Connected(t, s)
<1>1. ASSUME NEW c \in Callers, Call(c) \/ CallerStep(c) PROVE pool' \in SUBSET pool
  BY <1>1 DEF Call, CallerStep, Loop, WhileRunning, TryGet, Take, BlockingGet, GetOrSleep,
              WaitEnds, Got, Leave
<1>2. ASSUME NEW t \in Connectors, Choose(t) \/ Begin(t) \/ ConnectFails(t)
      PROVE  pool' \in SUBSET pool
  BY <1>2 DEF Choose, Begin, ConnectFails
<1>3. ASSUME KeeperStep PROVE pool' \in SUBSET pool
  BY <1>3 DEF KeeperStep, KeeperLoop, KeeperTakes, KeeperCalls, KeeperSleeps
<1>4. ASSUME StopStep PROVE pool' \in SUBSET pool
  BY <1>4 DEF StopStep, StopCallback, StopRunning, StopClears, StopReturns
<1>5. ASSUME UNCHANGED vars PROVE pool' \in SUBSET pool
  BY <1>5 DEF vars
<1>6. QED
  BY <1>1, <1>2, <1>3, <1>4, <1>5 DEF Next, ConnectorStep, Quiet

(***************************************************************************)
(* And to the connect threads that have looked at the limit.               *)
(***************************************************************************)
LEMMA ConnectingSteps ==
  ASSUME TypeOK, [Next]_vars
  PROVE  \/ Connecting' \in SUBSET Connecting
         \/ \E t \in Connectors : Choose(t)
<1>1. ASSUME NEW t \in Connectors, Begin(t) \/ ConnectFails(t) \/ \E s \in Socks : Connected(t, s)
      PROVE  Connecting' \in SUBSET Connecting
  BY <1>1 DEF Begin, ConnectFails, Connected, Moves, Connecting, TypeOK
<1>2. ASSUME UNCHANGED connector PROVE Connecting' \in SUBSET Connecting
  BY <1>2 DEF Connecting
<1>3. ASSUME NEW c \in Callers, Call(c) \/ CallerStep(c) PROVE UNCHANGED connector
  BY <1>3 DEF Call, CallerStep, Loop, TryGet, BlockingGet, WaitEnds, Got, Leave, others
<1>4. ASSUME KeeperStep PROVE UNCHANGED connector
  BY <1>4 DEF KeeperStep, KeeperLoop, KeeperTakes, KeeperCalls, KeeperSleeps
<1>5. ASSUME StopStep PROVE UNCHANGED connector
  BY <1>5 DEF StopStep, StopCallback, StopRunning, StopClears, StopReturns
<1>6. ASSUME UNCHANGED vars PROVE UNCHANGED connector
  BY <1>6 DEF vars
<1>7. QED
  BY <1>1, <1>2, <1>3, <1>4, <1>5, <1>6 DEF Next, ConnectorStep, Quiet

(***************************************************************************)
(* The pool's limit: a thread that starts to connect has just seen a pool  *)
(* within the limit, whatever the other threads are about to put.          *)
(***************************************************************************)
LEMMA BoundInit == Init => PoolBounded
<1> SUFFICES ASSUME Init PROVE PoolBounded
  OBVIOUS
<1>1. Connecting = {} /\ pool = {}
  BY DEF Init, Connecting
<1>2. QED
  BY <1>1, FS_EmptySet, FiniteSubsets, ConnectAssumption DEF PoolBounded

LEMMA BoundNext ==
  ASSUME TypeOK, PoolBounded, [Next]_vars
  PROVE  PoolBounded'
<1>1. /\ IsFiniteSet(pool) /\ Cardinality(pool) \in Nat
      /\ IsFiniteSet(Connecting) /\ Cardinality(Connecting) \in Nat
      /\ Cardinality(Connectors) \in Nat
  BY FiniteSubsets DEF TypeOK, Connecting
<1>2. CASE \E t \in Connectors, s \in Socks : Connected(t, s)
  <2>1. PICK t \in Connectors, s \in Socks : Connected(t, s)
    BY <1>2
  <2>2. pool' = pool \cup {s} /\ Connecting' = Connecting \ {t} /\ t \in Connecting
    BY <2>1 DEF Connected, Put, Moves, Connecting, TypeOK
  <2>3. Cardinality(Connecting') = Cardinality(Connecting) - 1
    BY <1>1, <2>2, OneLess
  <2>4. Cardinality(pool') \in Nat /\ Cardinality(pool') <= Cardinality(pool) + 1
    BY <1>1, <2>2, AtMostOneMore
  <2>5. QED
    BY <1>1, <2>3, <2>4, ConnectAssumption DEF PoolBounded
<1>3. CASE \E t \in Connectors : Choose(t)
  <2>1. PICK t \in Connectors : Choose(t)
    BY <1>3
  <2>2. pool' = pool
    BY <2>1 DEF Choose
  <2>3. CASE Cardinality(pool) <= PoolMax
    <3>1. Connecting' \in SUBSET Connectors
      BY DEF Connecting
    <3>2. Cardinality(Connecting') \in Nat /\ Cardinality(Connecting') <= Cardinality(Connectors)
      BY <3>1, FiniteSubsets
    <3>3. QED
      BY <1>1, <2>2, <2>3, <3>2, ConnectAssumption DEF PoolBounded
  <2>4. CASE ~(Cardinality(pool) <= PoolMax)
    <3>1. Connecting' = Connecting
      BY <2>1, <2>4 DEF Choose, InnerLoop, MayConnect, Moves, Connecting, TypeOK
    <3>2. QED
      BY <2>2, <3>1 DEF PoolBounded
  <2>5. QED
    BY <2>3, <2>4
<1>4. CASE pool' \in SUBSET pool /\ Connecting' \in SUBSET Connecting
  <2>1. Cardinality(pool') \in Nat /\ Cardinality(pool') <= Cardinality(pool)
    BY <1>1, <1>4, SmallerSet, FS_Subset, FS_CardinalityType
  <2>2. Cardinality(Connecting') \in Nat /\ Cardinality(Connecting') <= Cardinality(Connecting)
    BY <1>1, <1>4, SmallerSet, FS_Subset, FS_CardinalityType
  <2>3. QED
    BY <1>1, <2>1, <2>2, ConnectAssumption DEF PoolBounded
<1>5. QED
  BY <1>2, <1>3, <1>4, PoolSteps, ConnectingSteps

-----------------------------------------------------------------------------
(***************************************************************************)
(* No lost wake-up.  A caller falls asleep only beside an empty pool, and  *)
(* each connection that comes makes a caller look.                         *)
(***************************************************************************)
LEMMA WakeUpInit == Init => NoLostWakeUp
BY DEF Init, NoLostWakeUp, Asleep

(***************************************************************************)
(* A caller that does not look less, while nobody new falls asleep and the *)
(* pool does not grow, disturbs nothing.                                   *)
(***************************************************************************)
LEMMA WakeUpKept ==
  ASSUME TypeOK, NoLostWakeUp,
         Asleep' \in SUBSET Asleep, pool' \in SUBSET pool,
         Getting \in SUBSET Getting'
  PROVE  NoLostWakeUp'
<1>1. /\ IsFiniteSet(pool) /\ Cardinality(pool) \in Nat
      /\ IsFiniteSet(Getting') /\ Cardinality(Getting') \in Nat
      /\ Cardinality(Getting) \in Nat
  BY FiniteSubsets DEF TypeOK, Getting
<1>2. Cardinality(pool') \in Nat /\ Cardinality(pool') <= Cardinality(pool)
  BY <1>1, FS_Subset, FS_CardinalityType
<1>3. Cardinality(Getting) <= Cardinality(Getting')
  BY <1>1, SmallerSet
<1>4. QED
  BY <1>1, <1>2, <1>3 DEF NoLostWakeUp

(***************************************************************************)
(* An empty pool owes nobody anything.                                     *)
(***************************************************************************)
LEMMA WakeUpEmpty ==
  ASSUME pool' = {}
  PROVE  NoLostWakeUp'
<1>1. Getting' \in SUBSET Callers
  BY DEF Getting
<1>2. Cardinality(pool') = 0 /\ Cardinality(Getting') \in Nat
  BY <1>1, FS_EmptySet, FiniteSubsets
<1>3. QED
  BY <1>2 DEF NoLostWakeUp

LEMMA WakeUpTake ==
  ASSUME TypeOK, NoLostWakeUp, NEW c \in Callers, pc[c] \in {"try", "get", "timed_out"},
         Take(c), Goto(c, "got")
  PROVE  NoLostWakeUp'
<1>1. PICK s \in pool : pool' = pool \ {s}
  BY DEF Take
<1>2. Asleep' \in SUBSET Asleep /\ Getting' = Getting \ {c}
  BY DEF Goto, Asleep, Getting, TypeOK
<1>3. /\ IsFiniteSet(pool) /\ Cardinality(pool) \in Nat
      /\ IsFiniteSet(Getting) /\ Cardinality(Getting) \in Nat
  BY FiniteSubsets DEF TypeOK, Getting
<1>4. Cardinality(pool') = Cardinality(pool) - 1
  BY <1>1, <1>3, OneLess
<1>5. Cardinality(Getting') \in Nat /\ Cardinality(Getting') >= Cardinality(Getting) - 1
  BY <1>2, <1>3, AtMostOneLess
<1>6. QED
  BY <1>2, <1>3, <1>4, <1>5 DEF NoLostWakeUp

LEMMA WakeUpPut ==
  ASSUME TypeOK, NoLostWakeUp, NEW s \in Socks, Put(s)
  PROVE  NoLostWakeUp'
<1>1. /\ IsFiniteSet(pool) /\ Cardinality(pool) \in Nat
      /\ IsFiniteSet(Getting) /\ Cardinality(Getting) \in Nat
  BY FiniteSubsets DEF TypeOK, Getting
<1>2. pool' = pool \cup {s}
  BY DEF Put
<1>3. Cardinality(pool') \in Nat /\ Cardinality(pool') <= Cardinality(pool) + 1
  BY <1>1, <1>2, AtMostOneMore
<1>4. CASE Waiting = {} /\ UNCHANGED pc
  <2>1. Asleep' = {}
    BY <1>4 DEF Waiting, Asleep
  <2>2. QED
    BY <2>1 DEF NoLostWakeUp
<1>5. CASE \E c \in Waiting : pc' = [pc EXCEPT ![c] = "get"]
  <2>1. PICK c \in Waiting : pc' = [pc EXCEPT ![c] = "get"]
    BY <1>5
  <2>2. /\ Asleep' \in SUBSET Asleep
        /\ Getting' = Getting \cup {c} /\ c \notin Getting
    BY <2>1 DEF Waiting, Asleep, Getting, TypeOK
  <2>3. Cardinality(Getting') = Cardinality(Getting) + 1
    BY <1>1, <2>2, OneMore
  <2>4. QED
    BY <1>1, <1>3, <2>2, <2>3 DEF NoLostWakeUp
<1>6. QED
  BY <1>4, <1>5 DEF Put, Notify

LEMMA WakeUpCaller ==
  ASSUME TypeOK, NoLostWakeUp, NEW c \in Callers, Call(c) \/ CallerStep(c)
  PROVE  NoLostWakeUp'
<1>1. ASSUME Call(c) \/ Loop(c) \/ WaitEnds(c) \/ Got(c) \/ Leave(c)
      PROVE  NoLostWakeUp'
  <2>1. pool' = pool
    BY <1>1 DEF Call, Loop, WaitEnds, Got, Leave
  <2>2. Asleep' \in SUBSET Asleep /\ Getting \in SUBSET Getting'
    BY <1>1 DEF Call, Loop, WhileRunning, WaitEnds, Got, ReturnOrClose, Leave, Goto, Asleep,
                Getting, TypeOK
  <2>3. QED
    BY <2>1, <2>2, WakeUpKept
<1>2. CASE TryGet(c)
  <2>1. CASE pool = {} /\ pool' = pool
    BY <2>1, WakeUpEmpty
  <2>2. CASE Take(c) /\ Goto(c, "got")
    BY <1>2, <2>2, WakeUpTake DEF TryGet
  <2>3. QED
    BY <1>2, <2>1, <2>2 DEF TryGet
<1>3. CASE BlockingGet(c)
  <2>1. CASE pool = {} /\ pool' = pool
    BY <2>1, WakeUpEmpty
  <2>2. CASE Take(c) /\ Goto(c, "got")
    BY <1>3, <2>2, WakeUpTake DEF BlockingGet, GetOrSleep
  <2>3. QED
    BY <1>3, <2>1, <2>2 DEF BlockingGet, GetOrSleep
<1>4. QED
  BY <1>1, <1>2, <1>3 DEF CallerStep

LEMMA WakeUpNext ==
  ASSUME TypeOK, NoLostWakeUp, [Next]_vars
  PROVE  NoLostWakeUp'
<1>1. ASSUME NEW t \in Connectors, NEW s \in Socks, Connected(t, s) PROVE NoLostWakeUp'
  BY <1>1, WakeUpPut DEF Connected
<1>2. ASSUME UNCHANGED pc, pool' \in SUBSET pool PROVE NoLostWakeUp'
  BY <1>2, WakeUpKept DEF Asleep, Getting
<1>3. ASSUME NEW t \in Connectors, Choose(t) \/ Begin(t) \/ ConnectFails(t) PROVE UNCHANGED pc
  BY <1>3 DEF Choose, Begin, ConnectFails, callerVars
<1>4. ASSUME KeeperStep \/ StopStep PROVE UNCHANGED pc
  BY <1>4 DEF KeeperStep, KeeperLoop, KeeperTakes, KeeperCalls, KeeperSleeps, StopStep,
              StopCallback, StopRunning, StopClears, StopReturns, callerVars
<1>5. ASSUME UNCHANGED vars PROVE UNCHANGED pc
  BY <1>5 DEF vars, callerVars
<1>6. QED
  BY <1>1, <1>2, <1>3, <1>4, <1>5, PoolSteps, WakeUpCaller DEF Next, ConnectorStep, Quiet

-----------------------------------------------------------------------------
(***************************************************************************)
(* One owner.                                                              *)
(***************************************************************************)
LEMMA OwnerInit == Init => OneOwner
BY DEF Init, OneOwner, Kept, InHand

(***************************************************************************)
(* What caller c holds, and what the others hold.                          *)
(***************************************************************************)
LEMMA HandsApart ==
  ASSUME TypeOK, NEW c \in Callers, NEW S \in SUBSET Socks,
         hand' = [hand EXCEPT ![c] = S]
  PROVE  /\ hand'[c] = S
         /\ \A d \in Callers : d # c => hand'[d] = hand[d]
         /\ InHand' \cup hand[c] = InHand \cup S
<1>1. /\ hand'[c] = S
      /\ \A d \in Callers : d # c => hand'[d] = hand[d]
  BY DEF TypeOK
<1>2. \A d \in Callers : hand[d] \in SUBSET Socks
  BY DEF TypeOK
<1>3. InHand' \cup hand[c] = InHand \cup S
  BY <1>1, <1>2 DEF InHand
<1>4. QED
  BY <1>1, <1>3

LEMMA HandsElsewhere ==
  ASSUME OneOwner
  PROVE  InHand \cap (pool \cup Kept \cup gone \cup lost) = {}
BY DEF InHand, OneOwner

LEMMA OwnerTake ==
  ASSUME TypeOK, OneOwner, NEW c \in Callers, hand[c] = {}, Take(c),
         UNCHANGED <<ssl_timeout_cb, keep_list, calling, opened, gone, lost>>
  PROVE  OneOwner'
<1>1. PICK s \in pool : pool' = pool \ {s} /\ hand' = [hand EXCEPT ![c] = {s}]
  BY DEF Take
<1>2. {s} \in SUBSET Socks
  BY <1>1 DEF TypeOK
<1>3. /\ hand'[c] = {s}
      /\ \A d \in Callers : d # c => hand'[d] = hand[d]
      /\ InHand' = InHand \cup {s}
  <2>1. /\ hand'[c] = {s}
        /\ \A d \in Callers : d # c => hand'[d] = hand[d]
        /\ InHand' \cup hand[c] = InHand \cup {s}
    BY <1>1, <1>2, HandsApart
  <2>2. QED
    BY <2>1
<1>4. opened' = pool' \cup Kept' \cup InHand' \cup gone' \cup lost'
  BY <1>1, <1>3 DEF OneOwner, Kept
<1>5. \A a, b \in Callers : a # b => hand'[a] \cap hand'[b] = {}
  BY <1>1, <1>3 DEF OneOwner
<1>6. \A a \in Callers : hand'[a] \cap (pool' \cup Kept' \cup gone' \cup lost') = {}
  BY <1>1, <1>3 DEF OneOwner, Kept
<1>7. QED
  BY <1>1, <1>4, <1>5, <1>6 DEF OneOwner, Kept

LEMMA OwnerCaller ==
  ASSUME TypeOK, OneOwner, NEW c \in Callers, Call(c) \/ CallerStep(c)
  PROVE  OneOwner'
<1>1. CASE UNCHANGED <<pool, hand, keep_list, calling, opened, gone, lost, ssl_timeout_cb>>
  BY <1>1 DEF OneOwner, Kept, InHand
<1>2. CASE Take(c) /\ (TryGet(c) \/ BlockingGet(c))
  <2>1. hand[c] = {}
    BY <1>2 DEF TryGet, BlockingGet, GetOrSleep, TypeOK
  <2>2. QED
    BY <1>2, <2>1, OwnerTake DEF TryGet, BlockingGet, others, keeperVars
<1>3. CASE Got(c)
  <2>1. hand' = [hand EXCEPT ![c] = {}] /\ gone' = gone \cup hand[c]
    BY <1>3 DEF Got, ReturnOrClose
  <2>2. UNCHANGED <<pool, keep_list, calling, opened, lost, ssl_timeout_cb>>
    BY <1>3 DEF Got, others, keeperVars
  <2>3. /\ hand'[c] = {}
        /\ \A d \in Callers : d # c => hand'[d] = hand[d]
        /\ InHand' \cup hand[c] = InHand
    <3>1. /\ hand'[c] = {}
          /\ \A d \in Callers : d # c => hand'[d] = hand[d]
          /\ InHand' \cup hand[c] = InHand \cup {}
      <4>1. {} \in SUBSET Socks
        OBVIOUS
      <4>2. QED
        BY <2>1, <4>1, HandsApart
    <3>2. QED
      BY <3>1
  <2>4. opened' = pool' \cup Kept' \cup InHand' \cup gone' \cup lost'
    <3>1. opened = pool \cup Kept \cup InHand \cup gone \cup lost
      BY DEF OneOwner
    <3>2. Kept' = Kept
      BY <2>2 DEF Kept
    <3>3. QED
      BY <2>1, <2>2, <2>3, <3>1, <3>2
  <2>5. \A a \in Callers : hand'[a] \cap (pool' \cup Kept' \cup gone' \cup lost') = {}
    BY <2>1, <2>2, <2>3 DEF OneOwner, Kept
  <2>6. QED
    BY <2>1, <2>2, <2>3, <2>4, <2>5 DEF OneOwner, Kept
<1>4. QED
  BY <1>1, <1>2, <1>3 DEF Call, CallerStep, Loop, TryGet, BlockingGet, GetOrSleep, WaitEnds,
                          Leave, others, keeperVars

LEMMA OwnerConnected ==
  ASSUME TypeOK, OneOwner, NEW t \in Connectors, NEW s \in Socks, Connected(t, s)
  PROVE  OneOwner'
<1>1. s \notin opened /\ opened' = opened \cup {s} /\ pool' = pool \cup {s}
  BY DEF Connected, Put
<1>2. UNCHANGED <<hand, keep_list, calling, gone, lost, ssl_timeout_cb>> /\ InHand' = InHand
  BY DEF Connected, keeperVars, InHand
<1>3. \A c \in Callers : s \notin hand[c]
  BY <1>1 DEF OneOwner, InHand
<1>4. \A c \in Callers : hand'[c] \cap (pool' \cup Kept' \cup gone' \cup lost') = {}
  BY <1>1, <1>2, <1>3 DEF OneOwner, Kept
<1>5. QED
  BY <1>1, <1>2, <1>4 DEF OneOwner, Kept

LEMMA OwnerThreads ==
  ASSUME TypeOK, OneOwner,
         \/ \E t \in Connectors : Choose(t) \/ Begin(t) \/ ConnectFails(t)
         \/ KeeperStep
         \/ StopStep
         \/ UNCHANGED vars
  PROVE  OneOwner'
<1>1. UNCHANGED hand /\ InHand' = InHand
  BY DEF Choose, Begin, ConnectFails, KeeperStep, KeeperLoop, KeeperTakes, KeeperCalls,
         KeeperSleeps, StopStep, StopCallback, StopRunning, StopClears, StopReturns, vars,
         callerVars, InHand
<1>2. ASSUME (pool \cup Kept \cup gone \cup lost)' = pool \cup Kept \cup gone \cup lost,
             UNCHANGED opened
      PROVE  /\ opened' = pool' \cup Kept' \cup InHand' \cup gone' \cup lost'
             /\ \A c, d \in Callers : c # d => hand'[c] \cap hand'[d] = {}
             /\ \A c \in Callers : hand'[c] \cap (pool' \cup Kept' \cup gone' \cup lost') = {}
  BY <1>1, <1>2 DEF OneOwner
<1>3. CASE KeeperLoop
  <2>1. PICK old \in SUBSET pool : IF running THEN keep_list' = old /\ pool' = pool \ old
                                              ELSE UNCHANGED <<keep_list, pool>>
    BY <1>3 DEF KeeperLoop
  <2>2. keep_list = {} /\ UNCHANGED <<calling, gone, lost, opened, ssl_timeout_cb>>
    BY <1>3 DEF KeeperLoop, TypeOK
  <2>3. (pool \cup Kept \cup gone \cup lost)' = pool \cup Kept \cup gone \cup lost
    BY <2>1, <2>2 DEF Kept
  <2>4. QED
    BY <1>2, <2>1, <2>2, <2>3 DEF OneOwner, Kept
<1>4. CASE KeeperTakes
  <2>1. calling = {} /\ UNCHANGED <<pool, lost, opened, ssl_timeout_cb>>
    BY <1>4 DEF KeeperTakes, TypeOK
  <2>2. PICK s \in keep_list :
           /\ keep_list' = keep_list \ {s}
           /\ \/ gone' = gone \cup {s} /\ UNCHANGED calling
              \/ calling' = {s} /\ UNCHANGED gone
    BY <1>4 DEF KeeperTakes
  <2>3. (pool \cup Kept \cup gone \cup lost)' = pool \cup Kept \cup gone \cup lost
    BY <2>1, <2>2 DEF Kept
  <2>4. QED
    BY <1>2, <2>1, <2>2, <2>3 DEF OneOwner, Kept
<1>5. CASE KeeperCalls
  <2>1. /\ calling' = {} /\ UNCHANGED <<pool, keep_list, opened, ssl_timeout_cb>>
        /\ \/ gone' = gone \cup calling /\ UNCHANGED lost
           \/ lost' = lost \cup calling /\ UNCHANGED gone /\ ~ssl_timeout_cb
    BY <1>5 DEF KeeperCalls
  <2>2. (pool \cup Kept \cup gone \cup lost)' = pool \cup Kept \cup gone \cup lost
    BY <2>1 DEF Kept
  <2>3. QED
    BY <1>2, <2>1, <2>2 DEF OneOwner, Kept
<1>6. CASE StopClears
  <2>1. /\ gone' = gone \cup pool /\ pool' = {}
        /\ UNCHANGED <<keep_list, calling, lost, opened, ssl_timeout_cb>>
    BY <1>6 DEF StopClears, keeperVars
  <2>2. (pool \cup Kept \cup gone \cup lost)' = pool \cup Kept \cup gone \cup lost
    BY <2>1 DEF Kept
  <2>3. QED
    BY <1>2, <2>1, <2>2 DEF OneOwner, Kept
<1>7. CASE StopCallback
  BY <1>1, <1>7 DEF StopCallback, keeperVars, OneOwner, Kept
<1>8. CASE UNCHANGED <<pool, hand, keep_list, calling, opened, gone, lost, ssl_timeout_cb>>
  BY <1>1, <1>8 DEF OneOwner, Kept
<1>9. QED
  BY <1>3, <1>4, <1>5, <1>6, <1>7, <1>8
     DEF Choose, Begin, ConnectFails, KeeperStep, KeeperSleeps, StopStep, StopRunning,
         StopReturns, vars, callerVars, keeperVars

LEMMA OwnerNext ==
  ASSUME TypeOK, OneOwner, [Next]_vars
  PROVE  OneOwner'
BY OwnerCaller, OwnerConnected, OwnerThreads DEF Next, ConnectorStep, Quiet

-----------------------------------------------------------------------------
(***************************************************************************)
(* The theorems.                                                           *)
(***************************************************************************)

(* The counter by which connect threads know the demand is the number of   *)
(* callers inside get_ssl_connection, and every variable has its type.     *)
THEOREM DemandCounted == Spec => [](TypeOK /\ DemandExact)
<1>1. Init => CallerInv
  BY CallerInit
<1>2. CallerInv /\ [Next]_vars => CallerInv'
  BY CallerNext
<1>3. QED
  BY <1>1, <1>2, PTL DEF Spec, CallerInv

(* The pool exceeds https_connection_pool_max by at most one connection    *)
(* for each connect thread.                                                *)
THEOREM PoolLimited == Spec => []PoolBounded
<1>1. TypeOK /\ PoolBounded /\ [Next]_vars => PoolBounded'
  BY BoundNext
<1>2. QED
  BY <1>1, BoundInit, DemandCounted, PTL DEF Spec

(* No put of ConnectPool is unnoticed while somebody sleeps in get.        *)
THEOREM WakeUpsSuffice == Spec => []NoLostWakeUp
<1>1. TypeOK /\ NoLostWakeUp /\ [Next]_vars => NoLostWakeUp'
  BY WakeUpNext
<1>2. QED
  BY <1>1, WakeUpInit, DemandCounted, PTL DEF Spec

(* Every opened connection has one owner, or is the one whose callback     *)
(* stop removed.                                                           *)
THEOREM ConnectionsOwned == Spec => []OneOwner
<1>1. TypeOK /\ OneOwner /\ [Next]_vars => OneOwner'
  BY OwnerNext
<1>2. QED
  BY <1>1, OwnerInit, DemandCounted, PTL DEF Spec
=============================================================================
