-------------------------- MODULE Download_proofs --------------------------
(***************************************************************************)
(* Proofs about the download side: for any number of workers and           *)
(* connections, any blocks and any bounds, blocks and commands are         *)
(* executed in their order, acks tell the truth and the upload is well     *)
(* formed.                                                                 *)
(***************************************************************************)
EXTENDS Download, FiniteSetTheorems, SequenceTheorems, WellFoundedInduction, TLAPS

-----------------------------------------------------------------------------
(***************************************************************************)
(* The receive process                                                     *)
(***************************************************************************)
ReceiveInv ==
  /\ next_sn \in Nat \ {0}
  /\ 1 .. (next_sn - 1) \subseteq DOMAIN Blocks
  /\ block_list \subseteq DOMAIN Blocks
  /\ timeout_list \subseteq DOMAIN Blocks
  /\ todo \in [Workers -> SUBSET DOMAIN Blocks]
  /\ ReceiveExact

LEMMA BlockNumbers == DOMAIN Blocks = 1 .. Len(Blocks) /\ Len(Blocks) \in Nat
BY DownloadAssumption

LEMMA PutKeepsReceived ==
  ASSUME ReceiveInv, NEW sn \in DOMAIN Blocks, Put(sn)
  PROVE  /\ next_sn' \in Nat \ {0}
         /\ 1 .. (next_sn' - 1) \subseteq DOMAIN Blocks
         /\ block_list' \subseteq DOMAIN Blocks
         /\ timeout_list' \subseteq DOMAIN Blocks
         /\ ReceiveExact'
         /\ next_sn <= next_sn'
<1>1. /\ next_sn \in Nat \ {0} /\ sn \in Nat
      /\ 1 .. (next_sn - 1) \subseteq DOMAIN Blocks
      /\ block_list \subseteq DOMAIN Blocks /\ timeout_list \subseteq DOMAIN Blocks
      /\ \A x \in DOMAIN Blocks : x \in Nat
  BY BlockNumbers DEF ReceiveInv
<1>2. /\ \A x \in block_list : x > next_sn
      /\ \A x \in timeout_list : ~(x < next_sn) /\ x \notin block_list
  BY DEF ReceiveInv, ReceiveExact, IsReceived
<1>3. CASE PutOld(sn)
  <2>1. next_sn' = next_sn /\ block_list' = block_list /\ timeout_list' = timeout_list \ {sn}
    BY <1>3 DEF PutOld, Forget
  <2>2. QED
    BY <1>1, <1>2, <2>1 DEF ReceiveExact, IsReceived
<1>4. CASE PutEarly(sn)
  <2>1. /\ next_sn' = next_sn /\ block_list' = block_list \cup {sn} /\ sn > next_sn
        /\ timeout_list' = timeout_list \ {sn}
    BY <1>4 DEF PutEarly, Forget
  <2>2. QED
    BY <1>1, <1>2, <2>1 DEF ReceiveExact, IsReceived
<1>5. CASE PutNext(sn)
  <2>1. sn = next_sn /\ timeout_list' = timeout_list \ {sn}
    BY <1>5 DEF PutNext, Forget
  <2>2. PICK last \in {sn} \cup block_list :
           /\ (sn + 1) .. last \subseteq block_list /\ last + 1 \notin block_list
           /\ next_sn' = last + 1 /\ block_list' = block_list \ (sn .. last)
    BY <1>5 DEF PutNext
  <2>3. last \in Nat /\ last >= sn /\ last \in DOMAIN Blocks
    BY <1>1, <1>2, <2>1
  <2>4. \A x \in block_list' : x > next_sn'
    <3>1. SUFFICES ASSUME NEW x \in block_list' PROVE x > next_sn'
      OBVIOUS
    <3>2. x \in block_list /\ x \notin sn .. last /\ x \in Nat /\ x # last + 1
      BY <1>1, <2>2, <3>1
    <3>3. x > sn
      BY <1>2, <2>1, <3>2
    <3>4. QED
      BY <1>1, <2>2, <2>3, <3>2, <3>3
  <2>5. \A x \in timeout_list' : ~(x < next_sn') /\ x \notin block_list'
    <3>1. SUFFICES ASSUME NEW x \in timeout_list' PROVE ~(x < next_sn') /\ x \notin block_list'
      OBVIOUS
    <3>2. x \in timeout_list /\ x # sn /\ x \in Nat /\ x \notin block_list
      BY <1>1, <1>2, <2>1, <3>1
    <3>3. x \notin (sn + 1) .. last
      BY <2>2, <3>2
    <3>4. ~(x < sn)
      BY <1>2, <2>1, <3>2
    <3>5. QED
      BY <1>1, <2>2, <2>3, <3>2, <3>3, <3>4
  <2>6. 1 .. (next_sn' - 1) \subseteq DOMAIN Blocks
    BY <1>1, <2>2, <2>3, BlockNumbers
  <2>7. next_sn' \in Nat \ {0} /\ next_sn <= next_sn'
    BY <1>1, <2>1, <2>2, <2>3
  <2>8. QED
    BY <1>1, <2>1, <2>2, <2>4, <2>5, <2>6, <2>7 DEF ReceiveExact, IsReceived
<1>6. QED
  BY <1>3, <1>4, <1>5 DEF Put

(***************************************************************************)
(* The steps that change the receive process or the blocks still to put.   *)
(***************************************************************************)
LEMMA ReceiveSteps ==
  ASSUME [Next]_vars
  PROVE  \/ \E w \in Workers : PutBlock(w)
         \/ \E w \in Workers, sns \in SUBSET DOMAIN Blocks : Respond(w, sns)
         \/ \E sn \in DOMAIN Blocks : ServerUnacked(sn)
         \/ UNCHANGED <<receiveVars, todo>>
<1> USE DEF workerVars
<1>1. ASSUME NEW c \in Conns, CreateConn(c) \/ AppWrite(c) \/ AppClose(c)
      PROVE  UNCHANGED <<receiveVars, todo>>
  BY <1>1 DEF CreateConn, AppWrite, AppClose
<1>2. ASSUME NEW c \in Conns, ConnStep(c)
      PROVE  UNCHANGED <<receiveVars, todo>>
  BY <1>2 DEF ConnStep, AddSock, AddSockFails, HandlerRelays, HandlerFails,
              ReadPiece, ReaderEnd, ReaderStop, ReaderStopped,
              RelayEnd, RelayStop, RelayStopped
<1>3. ASSUME NEW w \in Workers, WorkerStep(w)
      PROVE  PutBlock(w) \/ UNCHANGED <<receiveVars, todo>>
  BY <1>3 DEF WorkerStep, HandleCommand, ProcessData, ProcessAck, ProcessClose, ProcessEnd,
              Drained, DrainFails, Stopped
<1>4. CASE Quiet \/ UNCHANGED vars
  BY <1>4 DEF Quiet, vars
<1>5. QED
  BY <1>1, <1>2, <1>3, <1>4 DEF Next

LEMMA ReceiveNext == ReceiveInv /\ [Next]_vars => ReceiveInv'
<1>1. SUFFICES ASSUME ReceiveInv, [Next]_vars PROVE ReceiveInv'
  OBVIOUS
<1>2. ASSUME NEW w \in Workers, PutBlock(w) PROVE ReceiveInv'
  <2>1. PICK sn \in todo[w] : Put(sn) /\ todo' = [todo EXCEPT ![w] = @ \ {sn}]
    BY <1>2 DEF PutBlock
  <2>2. todo \in [Workers -> SUBSET DOMAIN Blocks] /\ sn \in DOMAIN Blocks
    BY <1>1, <2>1 DEF ReceiveInv
  <2>3. todo' \in [Workers -> SUBSET DOMAIN Blocks]
    BY <2>1, <2>2
  <2>4. QED
    BY <1>1, <2>1, <2>2, <2>3, PutKeepsReceived DEF ReceiveInv
<1>3. ASSUME NEW w \in Workers, NEW sns \in SUBSET DOMAIN Blocks, Respond(w, sns) PROVE ReceiveInv'
  BY <1>1, <1>3 DEF Respond, ReceiveInv, ReceiveExact, IsReceived, receiveVars
<1>4. ASSUME NEW sn \in DOMAIN Blocks, ServerUnacked(sn) PROVE ReceiveInv'
  BY <1>1, <1>4 DEF ServerUnacked, MarkTimeout, ReceiveInv, ReceiveExact, IsReceived, workerVars
<1>5. CASE UNCHANGED <<receiveVars, todo>>
  BY <1>1, <1>5 DEF ReceiveInv, ReceiveExact, IsReceived, receiveVars
<1>6. QED
  BY <1>1, <1>2, <1>3, <1>4, <1>5, ReceiveSteps

LEMMA ReceiveInit == InitDownload => ReceiveInv
BY BlockNumbers DEF InitDownload, InitReceive, ReceiveInv, ReceiveExact, IsReceived

(***************************************************************************)
(* put() holds back no block it could hand over, and a block it has got is *)
(* not listed as missing any more, in whatever order and however often     *)
(* blocks come and are marked.                                             *)
(***************************************************************************)
THEOREM BlocksReceived == Spec => []ReceiveExact
<1>1. ReceiveInv => ReceiveExact
  BY DEF ReceiveInv
<1>2. QED
  BY <1>1, ReceiveInit, ReceiveNext, PTL DEF Spec

-----------------------------------------------------------------------------
(***************************************************************************)
(* Where the workers are                                                   *)
(***************************************************************************)
Place == [step : {"idle", "process", "drain", "stop", "reset"}, conn : Conns \cup {"none"}]

WorkersInv ==
  /\ conn_list \subseteq Conns
  /\ at \in [Workers -> Place]
  /\ \A w \in Workers : at[w].step # "idle" => at[w].conn \in Conns

LEMMA IdlePlace == Idle \in Place
BY DEF Idle, Place

LEMMA InPlace ==
  ASSUME NEW step \in {"process", "drain", "stop", "reset"}, NEW c \in Conns
  PROVE  In(step, c) \in Place /\ In(step, c).step = step /\ In(step, c).conn = c
BY DEF In, Place

(***************************************************************************)
(* A worker's step, seen from outside: it goes on to another place.        *)
(***************************************************************************)
Moves(w, to) == at' = [at EXCEPT ![w] = to]

LEMMA AtSteps ==
  ASSUME [Next]_vars
  PROVE  \/ UNCHANGED at
         \/ \E w \in Workers : \/ HandleCommand(w) \/ ProcessData(w) \/ ProcessClose(w)
                              \/ ProcessEnd(w) \/ Drained(w) \/ DrainFails(w) \/ Stopped(w)
<1> USE DEF workerVars
<1>1. ASSUME NEW c \in Conns, CreateConn(c) \/ AppWrite(c) \/ AppClose(c)
      PROVE  UNCHANGED at
  BY <1>1 DEF CreateConn, AppWrite, AppClose
<1>2. ASSUME NEW c \in Conns, ConnStep(c)
      PROVE  UNCHANGED at
  BY <1>2 DEF ConnStep, AddSock, AddSockFails, HandlerRelays, HandlerFails,
              ReadPiece, ReaderEnd, ReaderStop, ReaderStopped,
              RelayEnd, RelayStop, RelayStopped
<1>3. ASSUME NEW w \in Workers, PutBlock(w) \/ ProcessAck(w)
      PROVE  UNCHANGED at
  BY <1>3 DEF PutBlock, ProcessAck
<1>4. ASSUME NEW w \in Workers, NEW sns, Respond(w, sns)
      PROVE  UNCHANGED at
  BY <1>4 DEF Respond
<1>5. ASSUME NEW sn, ServerUnacked(sn)
      PROVE  UNCHANGED at
  BY <1>5 DEF ServerUnacked
<1>6. CASE Quiet \/ UNCHANGED vars
  BY <1>6 DEF Quiet, vars
<1>7. QED
  BY <1>1, <1>2, <1>3, <1>4, <1>5, <1>6 DEF Next, WorkerStep

LEMMA ListSteps ==
  ASSUME [Next]_vars, conn_list \subseteq Conns
  PROVE  conn_list' \subseteq Conns
<1> USE DEF stopVars, BeginStop, EndStop
<1>1. ASSUME NEW c \in Conns, CreateConn(c) \/ AppWrite(c) \/ AppClose(c)
      PROVE  conn_list' \subseteq Conns
  BY <1>1 DEF CreateConn, AppWrite, AppClose
<1>2. ASSUME NEW c \in Conns, ConnStep(c)
      PROVE  conn_list' \subseteq Conns
  BY <1>2 DEF ConnStep, AddSock, AddSockFails, HandlerRelays, HandlerFails,
              ReadPiece, ReaderEnd, ReaderStop, ReaderStopped,
              RelayEnd, RelayStop, RelayStopped
<1>3. ASSUME NEW w \in Workers, WorkerStep(w)
      PROVE  conn_list' \subseteq Conns
  BY <1>3 DEF WorkerStep, PutBlock, HandleCommand, ProcessData, ProcessAck, ProcessClose, ProcessEnd,
              Drained, DrainFails, Stopped
<1>4. ASSUME NEW w \in Workers, NEW sns, Respond(w, sns)
      PROVE  conn_list' \subseteq Conns
  BY <1>4 DEF Respond
<1>5. ASSUME NEW sn, ServerUnacked(sn)
      PROVE  conn_list' \subseteq Conns
  BY <1>5 DEF ServerUnacked
<1>6. CASE Quiet \/ UNCHANGED vars
  BY <1>6 DEF Quiet, vars
<1>7. QED
  BY <1>1, <1>2, <1>3, <1>4, <1>5, <1>6 DEF Next

(***************************************************************************)
(* What each of these steps does to the place of its worker.               *)
(***************************************************************************)
LEMMA WorkerMoves ==
  ASSUME WorkersInv, NEW w \in Workers
  PROVE  /\ HandleCommand(w) =>
              /\ at[w] = Idle
              /\ \/ Moves(w, Idle)
                 \/ \E c \in Conns : Moves(w, In("process", c))
         /\ ProcessData(w) =>
              /\ at[w].step = "process" /\ at[w].conn \in Conns
              /\ Moves(w, at[w]) \/ Moves(w, In("drain", at[w].conn))
         /\ ProcessAck(w) =>
              at[w].step = "process" /\ at[w].conn \in Conns /\ Moves(w, at[w])
         /\ ProcessClose(w) =>
              /\ at[w].step = "process" /\ at[w].conn \in Conns
              /\ \/ Moves(w, Idle) \/ Moves(w, In("stop", at[w].conn))
                 \/ Moves(w, In("reset", at[w].conn))
         /\ ProcessEnd(w) => at[w].step = "process" /\ Moves(w, Idle)
         /\ Drained(w) \/ DrainFails(w) =>
              /\ at[w].step = "drain" /\ at[w].conn \in Conns
              /\ Moves(w, In("process", at[w].conn))
         /\ Stopped(w) => at[w].step = "stop" /\ at[w].conn \in Conns /\ Moves(w, Idle)
<1>1. /\ at \in [Workers -> Place] /\ at = [at EXCEPT ![w] = at[w]]
      /\ at[w].step # "idle" => at[w].conn \in Conns
  BY DEF WorkersInv
<1>2. ASSUME HandleCommand(w)
      PROVE  at[w] = Idle /\ (Moves(w, Idle) \/ \E c \in Conns : Moves(w, In("process", c)))
  <2>1. CASE ~Accepted(Head(ready[w]))
    BY <1>1, <1>2, <2>1 DEF HandleCommand, Moves
  <2>2. CASE Accepted(Head(ready[w]))
    <3>1. Head(ready[w]).conn \in Conns
      BY <2>2 DEF Accepted, WorkersInv
    <3>2. QED
      BY <1>2, <2>2, <3>1 DEF HandleCommand, Moves
  <2>3. QED
    BY <2>1, <2>2
<1>3. ASSUME ProcessData(w)
      PROVE  /\ at[w].step = "process" /\ at[w].conn \in Conns
             /\ Moves(w, at[w]) \/ Moves(w, In("drain", at[w].conn))
  BY <1>1, <1>3 DEF ProcessData, TakeCommand, Moves
<1>4. ASSUME ProcessAck(w)
      PROVE  at[w].step = "process" /\ at[w].conn \in Conns /\ Moves(w, at[w])
  BY <1>1, <1>4 DEF ProcessAck, TakeCommand, Moves, workerVars
<1>5. ASSUME ProcessClose(w)
      PROVE  /\ at[w].step = "process" /\ at[w].conn \in Conns
             /\ \/ Moves(w, Idle) \/ Moves(w, In("stop", at[w].conn))
                \/ Moves(w, In("reset", at[w].conn))
  BY <1>1, <1>5 DEF ProcessClose, TakeCommand, Moves
<1>6. ASSUME ProcessEnd(w)
      PROVE  at[w].step = "process" /\ Moves(w, Idle)
  BY <1>6 DEF ProcessEnd, Moves
<1>7. ASSUME Drained(w) \/ DrainFails(w)
      PROVE  /\ at[w].step = "drain" /\ at[w].conn \in Conns
             /\ Moves(w, In("process", at[w].conn))
  BY <1>1, <1>7 DEF Drained, DrainFails, Moves
<1>8. ASSUME Stopped(w)
      PROVE  at[w].step = "stop" /\ at[w].conn \in Conns /\ Moves(w, Idle)
  BY <1>1, <1>8 DEF Stopped, Moves
<1>9. QED
  BY <1>2, <1>3, <1>4, <1>5, <1>6, <1>7, <1>8

LEMMA WorkersNext == WorkersInv /\ [Next]_vars => WorkersInv'
<1>1. SUFFICES ASSUME WorkersInv, [Next]_vars PROVE WorkersInv'
  OBVIOUS
<1>2. conn_list' \subseteq Conns
  BY <1>1, ListSteps DEF WorkersInv
<1>3. CASE UNCHANGED at
  BY <1>1, <1>2, <1>3 DEF WorkersInv
<1>4. ASSUME NEW w \in Workers, NEW to \in Place, Moves(w, to), to.step # "idle" => to.conn \in Conns
      PROVE  WorkersInv'
  BY <1>1, <1>2, <1>4 DEF WorkersInv, Moves
<1>5. ASSUME NEW w \in Workers, Moves(w, Idle) PROVE WorkersInv'
  BY <1>4, <1>5, IdlePlace DEF Idle
<1>6. ASSUME NEW w \in Workers, NEW step \in {"process", "drain", "stop", "reset"}, NEW c \in Conns,
             Moves(w, In(step, c))
      PROVE  WorkersInv'
  BY <1>4, <1>6, InPlace
<1>7. ASSUME NEW w \in Workers, Moves(w, at[w]) PROVE WorkersInv'
  BY <1>1, <1>3, <1>7 DEF WorkersInv, Moves
<1>8. ASSUME NEW w \in Workers,
             \/ HandleCommand(w) \/ ProcessData(w) \/ ProcessClose(w)
             \/ ProcessEnd(w) \/ Drained(w) \/ DrainFails(w) \/ Stopped(w)
      PROVE  WorkersInv'
  BY <1>1, <1>5, <1>6, <1>7, <1>8, WorkerMoves
<1>9. QED
  BY <1>1, <1>3, <1>8, AtSteps

LEMMA WorkersInit == InitDownload => WorkersInv
BY IdlePlace DEF InitDownload, WorkersInv, Idle

-----------------------------------------------------------------------------
(***************************************************************************)
(* What connections tell the server                                        *)
(***************************************************************************)
Told == [seq : Nat, kind : {"data", "ack", "close"}]

\* n is the next number, closed says whether the close has been told.
Formed(u, n, closed) ==
  /\ u \in Seq(Told)
  /\ n = Len(u) + 1
  /\ \A i \in DOMAIN u : u[i].seq = i
  /\ \A i \in DOMAIN u : u[i].kind = "close" => i = Len(u)
  /\ closed <=> \E i \in DOMAIN u : u[i].kind = "close"

UploadInv ==
  /\ DOMAIN upload = Conns /\ DOMAIN next_recv_seq = Conns /\ DOMAIN transferred_close = Conns
  /\ \A c \in Conns : Formed(upload[c], next_recv_seq[c], transferred_close[c])

LEMMA SameClosed ==
  ASSUME NEW u, NEW n, NEW closed, NEW after, closed <=> after, Formed(u, n, closed)
  PROVE  Formed(u, n, after)
BY Zenon DEF Formed

LEMMA TellFormed ==
  ASSUME NEW u, NEW n, Formed(u, n, FALSE), NEW kind \in {"data", "ack", "close"}
  PROVE  Formed(Append(u, [seq |-> n, kind |-> kind]), n + 1, kind = "close")
<1> DEFINE x == [seq |-> n, kind |-> kind]
           v == Append(u, x)
<1>1. u \in Seq(Told) /\ Len(u) \in Nat /\ n = Len(u) + 1 /\ DOMAIN u = 1 .. Len(u)
  BY DEF Formed
<1>2. x \in Told /\ x.seq = n /\ x.kind = kind
  BY <1>1 DEF Told
<1> HIDE DEF x
<1>3. /\ v \in Seq(Told) /\ Len(v) = n /\ DOMAIN v = 1 .. n
      /\ v[n] = x /\ \A i \in DOMAIN u : v[i] = u[i]
  BY <1>1, <1>2
<1> HIDE DEF v
<1>4. \A i \in DOMAIN v : i = n \/ i \in DOMAIN u
  BY <1>1, <1>3
<1>5. \A i \in DOMAIN u : u[i].seq = i /\ u[i].kind # "close"
  BY DEF Formed
<1>6. /\ \A i \in DOMAIN v : v[i].seq = i
      /\ \A i \in DOMAIN v : v[i].kind = "close" => i = Len(v)
  BY <1>2, <1>3, <1>4, <1>5
<1>7. kind = "close" <=> \E i \in DOMAIN v : v[i].kind = "close"
  <2>1. n \in DOMAIN v
    BY <1>1, <1>3
  <2>2. QED
    BY <1>2, <1>3, <1>4, <1>5, <2>1
<1>8. Formed(v, n + 1, kind = "close")
  <2>1. n + 1 = Len(v) + 1
    BY <1>3
  <2>2. QED
    BY <1>3, <1>6, <1>7, <2>1, Zenon DEF Formed
<1>9. QED
  BY <1>8 DEF v, x

\* One connection has told something.
LEMMA OneTold ==
  ASSUME UploadInv, NEW c \in Conns, NEW u, NEW n, NEW closed, Formed(u, n, closed),
         DOMAIN upload' = Conns, upload'[c] = u,
         DOMAIN next_recv_seq' = Conns, next_recv_seq'[c] = n,
         DOMAIN transferred_close' = Conns, transferred_close'[c] = closed,
         \A d \in Conns \ {c} : /\ upload'[d] = upload[d]
                                /\ next_recv_seq'[d] = next_recv_seq[d]
                                /\ transferred_close'[d] = transferred_close[d]
  PROVE  UploadInv'
<1>1. \A d \in Conns : Formed(upload'[d], next_recv_seq'[d], transferred_close'[d])
  <2>1. SUFFICES ASSUME NEW d \in Conns
                 PROVE  Formed(upload'[d], next_recv_seq'[d], transferred_close'[d])
    OBVIOUS
  <2>2. CASE d = c
    <3>1. upload'[d] = u /\ next_recv_seq'[d] = n /\ transferred_close'[d] = closed
      BY <2>2
    <3>2. QED
      BY <3>1, Zenon
  <2>3. CASE d # c
    <3>1. /\ upload'[d] = upload[d] /\ next_recv_seq'[d] = next_recv_seq[d]
          /\ transferred_close'[d] = transferred_close[d]
      BY <2>3
    <3>2. Formed(upload[d], next_recv_seq[d], transferred_close[d])
      BY DEF UploadInv
    <3>3. QED
      BY <3>1, <3>2, Zenon
  <2>4. QED
    BY <2>2, <2>3
<1>2. QED
  BY <1>1 DEF UploadInv

LEMMA TransferKeeps ==
  ASSUME UploadInv, NEW c \in Conns, NEW kind \in {"data", "ack"}, Transfer(c, kind)
  PROVE  UploadInv'
<1>1. CASE transferred_close[c]
  BY <1>1 DEF Transfer, UploadInv
<1>2. CASE ~transferred_close[c]
  <2> DEFINE x == Append(upload[c], [seq |-> next_recv_seq[c], kind |-> kind])
             n == next_recv_seq[c] + 1
             closed == transferred_close[c]
  <2>1. /\ upload' = [upload EXCEPT ![c] = x]
        /\ next_recv_seq' = [next_recv_seq EXCEPT ![c] = n]
        /\ transferred_close' = transferred_close
    BY <1>2 DEF Transfer, Tell
  <2>2. Formed(upload[c], next_recv_seq[c], closed) /\ DOMAIN transferred_close = Conns
    BY DEF UploadInv
  <2>3. kind # "close"
    OBVIOUS
  <2>4. Formed(x, n, closed)
    <3>1. Formed(upload[c], next_recv_seq[c], FALSE)
      BY <1>2, <2>2, Zenon DEF Formed
    <3>2. kind \in {"data", "ack", "close"}
      OBVIOUS
    <3>3. Formed(x, n, kind = "close")
      BY <3>1, <3>2, TellFormed
    <3> HIDE DEF x, n, closed
    <3>4. (kind = "close") <=> closed
      BY <1>2, <2>3 DEF closed
    <3>5. QED
      BY <3>3, <3>4, SameClosed, Zenon
  <2> HIDE DEF x, n
  <2>5. /\ DOMAIN upload' = Conns /\ upload'[c] = x
        /\ DOMAIN next_recv_seq' = Conns /\ next_recv_seq'[c] = n
        /\ \A d \in Conns \ {c} : upload'[d] = upload[d] /\ next_recv_seq'[d] = next_recv_seq[d]
    BY <2>1 DEF UploadInv
  <2>6. /\ DOMAIN transferred_close' = Conns /\ transferred_close'[c] = closed
        /\ \A d \in Conns \ {c} : transferred_close'[d] = transferred_close[d]
    BY <2>1, <2>2, Zenon
  <2> HIDE DEF closed
  <2>7. QED
    BY <2>4, <2>5, <2>6, OneTold, Zenon
<1>3. QED
  BY <1>1, <1>2

LEMMA TransferCloseKeeps ==
  ASSUME UploadInv, NEW c \in Conns, TransferClose(c)
  PROVE  UploadInv'
<1>1. transferred_close' = [transferred_close EXCEPT ![c] = TRUE]
  BY DEF TransferClose
<1>2. /\ DOMAIN transferred_close' = Conns /\ transferred_close'[c] = TRUE
      /\ \A d \in Conns \ {c} : transferred_close'[d] = transferred_close[d]
  BY <1>1, Zenon DEF UploadInv
<1>3. Formed(upload[c], next_recv_seq[c], transferred_close[c])
  BY DEF UploadInv
<1>4. CASE transferred_close[c]
  <2>1. upload' = upload /\ next_recv_seq' = next_recv_seq
    BY <1>4 DEF TransferClose
  <2>2. DOMAIN upload = Conns /\ DOMAIN next_recv_seq = Conns
    BY DEF UploadInv
  <2>3. Formed(upload[c], next_recv_seq[c], TRUE)
    BY <1>3, <1>4, Zenon DEF Formed
  <2>4. QED
    BY <1>2, <2>1, <2>2, <2>3, OneTold, Zenon
<1>5. CASE ~transferred_close[c]
  <2> DEFINE x == Append(upload[c], [seq |-> next_recv_seq[c], kind |-> "close"])
             n == next_recv_seq[c] + 1
  <2>1. /\ upload' = [upload EXCEPT ![c] = x]
        /\ next_recv_seq' = [next_recv_seq EXCEPT ![c] = n]
    BY <1>5 DEF TransferClose, Tell
  <2>2. Formed(x, n, TRUE)
    <3>1. Formed(upload[c], next_recv_seq[c], FALSE)
      BY <1>3, <1>5, Zenon DEF Formed
    <3>2. Formed(x, n, "close" = "close")
      BY <3>1, TellFormed
    <3> HIDE DEF x, n
    <3>3. QED
      BY <3>2, SameClosed, Zenon
  <2> HIDE DEF x, n
  <2>3. /\ DOMAIN upload' = Conns /\ upload'[c] = x
        /\ DOMAIN next_recv_seq' = Conns /\ next_recv_seq'[c] = n
        /\ \A d \in Conns \ {c} : upload'[d] = upload[d] /\ next_recv_seq'[d] = next_recv_seq[d]
    BY <2>1 DEF UploadInv
  <2>4. QED
    BY <1>2, <2>2, <2>3, OneTold, Zenon
<1>6. QED
  BY <1>4, <1>5

LEMMA UploadSteps ==
  ASSUME [Next]_vars, WorkersInv
  PROVE  \/ UNCHANGED upVars
         \/ \E c \in Conns, kind \in {"data", "ack"} : Transfer(c, kind)
         \/ \E c \in Conns : TransferClose(c)
<1>1. ASSUME NEW c \in Conns, CreateConn(c) \/ AppWrite(c) \/ AppClose(c)
      PROVE  UNCHANGED upVars
  BY <1>1 DEF CreateConn, AppWrite, AppClose
<1>2. ASSUME NEW c \in Conns, ConnStep(c)
      PROVE  UNCHANGED upVars \/ Transfer(c, "data") \/ TransferClose(c)
  BY <1>2 DEF ConnStep, AddSock, AddSockFails, HandlerRelays, HandlerFails,
              ReadPiece, ReaderEnd, ReaderStop, ReaderStopped,
              RelayEnd, RelayStop, RelayStopped
<1>3. ASSUME NEW w \in Workers, WorkerStep(w)
      PROVE  \/ UNCHANGED upVars
             \/ \E c \in Conns : Transfer(c, "ack") \/ TransferClose(c)
  <2>1. CASE PutBlock(w) \/ HandleCommand(w) \/ ProcessData(w) \/ ProcessAck(w) \/ ProcessEnd(w)
               \/ DrainFails(w) \/ Stopped(w)
    BY <2>1 DEF PutBlock, HandleCommand, ProcessData, ProcessAck, ProcessEnd, DrainFails, Stopped
  <2>2. CASE ProcessClose(w)
    <3>1. at[w].conn \in Conns
      BY <2>2, WorkerMoves
    <3>2. QED
      BY <2>2, <3>1 DEF ProcessClose
  <2>3. CASE Drained(w)
    <3>1. at[w].conn \in Conns
      BY <2>3, WorkerMoves
    <3>2. QED
      BY <2>3, <3>1 DEF Drained
  <2>4. QED
    BY <1>3, <2>1, <2>2, <2>3 DEF WorkerStep
<1>4. ASSUME NEW w \in Workers, NEW sns, Respond(w, sns)
      PROVE  UNCHANGED upVars
  BY <1>4 DEF Respond
<1>5. ASSUME NEW sn, ServerUnacked(sn)
      PROVE  UNCHANGED upVars
  BY <1>5 DEF ServerUnacked
<1>6. CASE Quiet \/ UNCHANGED vars
  BY <1>6 DEF Quiet, vars
<1>7. QED
  BY <1>1, <1>2, <1>3, <1>4, <1>5, <1>6 DEF Next

LEMMA UploadNext == UploadInv /\ WorkersInv /\ [Next]_vars => UploadInv'
<1>1. SUFFICES ASSUME UploadInv, WorkersInv, [Next]_vars PROVE UploadInv'
  OBVIOUS
<1>2. CASE UNCHANGED upVars
  BY <1>1, <1>2 DEF UploadInv, upVars
<1>3. QED
  BY <1>1, <1>2, UploadSteps, TransferKeeps, TransferCloseKeeps

LEMMA UploadInit == InitDownload => UploadInv
<1>1. SUFFICES ASSUME InitDownload PROVE UploadInv
  OBVIOUS
<1>2. /\ upload = [c \in Conns |-> <<>>] /\ next_recv_seq = [c \in Conns |-> 1]
      /\ transferred_close = [c \in Conns |-> FALSE]
  BY <1>1 DEF InitDownload
<1>3. Formed(<<>>, 1, FALSE)
  BY DEF Formed
<1>4. QED
  BY <1>2, <1>3 DEF UploadInv

(***************************************************************************)
(* What a connection tells the server is numbered without a hole, and the  *)
(* close is told at most once and last, though its reader, its relay and   *)
(* any number of workers write and stop it in any order.                   *)
(***************************************************************************)
THEOREM UploadFormed == Spec => []UploadWellFormed
<1>1. UploadInv => UploadWellFormed
  BY DEF UploadInv, UploadWellFormed, Formed
<1>2. QED
  BY <1>1, WorkersInit, WorkersNext, UploadInit, UploadNext, PTL DEF Spec
-----------------------------------------------------------------------------
(***************************************************************************)
(* Commands: which steps change them, and which stop a connection          *)
(***************************************************************************)
CmdTypes ==
  /\ next_cmd_seq \in [Conns -> Nat \ {0}]
  /\ DOMAIN cmd_queue = Conns
  /\ output \in [Conns -> Seq(Nat)]
  /\ DOMAIN dropped = Conns
  /\ DOMAIN running = Conns

LEMMA CmdSteps ==
  ASSUME [Next]_vars
  PROVE  \/ UNCHANGED <<at, ackVars, cmdVars>>
         \/ \E w \in Workers : \/ HandleCommand(w) \/ ProcessData(w) \/ ProcessAck(w) \/ ProcessClose(w)
                              \/ ProcessEnd(w) \/ Drained(w) \/ DrainFails(w) \/ Stopped(w)
<1> USE DEF workerVars
<1>1. ASSUME NEW c \in Conns, CreateConn(c) \/ AppWrite(c) \/ AppClose(c)
      PROVE  UNCHANGED <<at, ackVars, cmdVars>>
  BY <1>1 DEF CreateConn, AppWrite, AppClose
<1>2. ASSUME NEW c \in Conns, ConnStep(c)
      PROVE  UNCHANGED <<at, ackVars, cmdVars>>
  BY <1>2 DEF ConnStep, AddSock, AddSockFails, HandlerRelays, HandlerFails,
              ReadPiece, ReaderEnd, ReaderStop, ReaderStopped,
              RelayEnd, RelayStop, RelayStopped
<1>3. ASSUME NEW w \in Workers, PutBlock(w)
      PROVE  UNCHANGED <<at, ackVars, cmdVars>>
  BY <1>3 DEF PutBlock
<1>4. ASSUME NEW w \in Workers, NEW sns, Respond(w, sns)
      PROVE  UNCHANGED <<at, ackVars, cmdVars>>
  BY <1>4 DEF Respond
<1>5. ASSUME NEW sn, ServerUnacked(sn)
      PROVE  UNCHANGED <<at, ackVars, cmdVars>>
  BY <1>5 DEF ServerUnacked
<1>6. CASE Quiet \/ UNCHANGED vars
  BY <1>6 DEF Quiet, vars
<1>7. QED
  BY <1>1, <1>2, <1>3, <1>4, <1>5, <1>6 DEF Next, WorkerStep

\* A connection stops for good.
LEMMA RunningSteps ==
  ASSUME [Next]_vars, WorkersInv
  PROVE  \/ UNCHANGED running
         \/ \E c \in Conns : running' = [running EXCEPT ![c] = FALSE]
<1> USE DEF stopVars, BeginStop, EndStop
<1>1. ASSUME NEW c \in Conns, CreateConn(c) \/ AppWrite(c) \/ AppClose(c)
      PROVE  UNCHANGED running
  BY <1>1 DEF CreateConn, AppWrite, AppClose
<1>2. ASSUME NEW c \in Conns, ConnStep(c)
      PROVE  UNCHANGED running \/ running' = [running EXCEPT ![c] = FALSE]
  BY <1>2 DEF ConnStep, AddSock, AddSockFails, HandlerRelays, HandlerFails,
              ReadPiece, ReaderEnd, ReaderStop, ReaderStopped,
              RelayEnd, RelayStop, RelayStopped
<1>3. ASSUME NEW w \in Workers, WorkerStep(w), ~ProcessClose(w)
      PROVE  UNCHANGED running
  BY <1>3 DEF WorkerStep, PutBlock, HandleCommand, ProcessData, ProcessAck, ProcessEnd,
              Drained, DrainFails, Stopped
<1>4. ASSUME NEW w \in Workers, ProcessClose(w)
      PROVE  \/ UNCHANGED running
             \/ \E c \in Conns : running' = [running EXCEPT ![c] = FALSE]
  <2>1. at[w].conn \in Conns
    BY <1>4, WorkerMoves
  <2>2. QED
    BY <1>4, <2>1 DEF ProcessClose
<1>5. ASSUME NEW w \in Workers, NEW sns, Respond(w, sns)
      PROVE  UNCHANGED running
  BY <1>5 DEF Respond
<1>6. ASSUME NEW sn, ServerUnacked(sn)
      PROVE  UNCHANGED running
  BY <1>6 DEF ServerUnacked
<1>7. CASE Quiet \/ UNCHANGED vars
  BY <1>7 DEF Quiet, vars
<1>8. QED
  BY <1>1, <1>2, <1>3, <1>4, <1>5, <1>6, <1>7 DEF Next

LEMMA RunningStays ==
  ASSUME [Next]_vars, WorkersInv, DOMAIN running = Conns
  PROVE  DOMAIN running' = Conns /\ \A c \in Conns : running'[c] => running[c]
<1>1. CASE UNCHANGED running
  BY <1>1, Zenon
<1>2. ASSUME NEW c \in Conns, running' = [running EXCEPT ![c] = FALSE]
      PROVE  DOMAIN running' = Conns /\ \A d \in Conns : running'[d] => running[d]
  BY <1>2, Zenon
<1>3. QED
  BY <1>1, <1>2, RunningSteps, Zenon

\* The next command is taken.
LEMMA TakenTypes ==
  ASSUME CmdTypes, NEW w \in Workers, NEW cmd, TakeCommand(w, cmd), at[w].conn \in Conns
  PROVE  /\ next_cmd_seq' \in [Conns -> Nat \ {0}] /\ DOMAIN cmd_queue' = Conns
         /\ next_cmd_seq'[at[w].conn] = next_cmd_seq[at[w].conn] + 1
         /\ \A d \in Conns \ {at[w].conn} : /\ next_cmd_seq'[d] = next_cmd_seq[d]
                                           /\ cmd_queue'[d] = cmd_queue[d]
BY DEF CmdTypes, TakeCommand

LEMMA CmdTypesNext == CmdTypes /\ WorkersInv /\ [Next]_vars => CmdTypes'
<1>1. SUFFICES ASSUME CmdTypes, WorkersInv, [Next]_vars PROVE CmdTypes'
  OBVIOUS
<1>2. DOMAIN running' = Conns
  BY <1>1, RunningStays DEF CmdTypes
<1>3. CASE UNCHANGED cmdVars
  BY <1>1, <1>2, <1>3 DEF CmdTypes, cmdVars
<1>4. ASSUME NEW w \in Workers, HandleCommand(w)
      PROVE  CmdTypes'
  BY <1>1, <1>2, <1>4 DEF HandleCommand, CmdTypes
<1>5. ASSUME NEW w \in Workers, ProcessData(w)
      PROVE  CmdTypes'
  <2>1. at[w].conn \in Conns /\ TakeCommand(w, "data")
    BY <1>1, <1>5, WorkerMoves DEF ProcessData
  <2>2. next_cmd_seq' \in [Conns -> Nat \ {0}] /\ DOMAIN cmd_queue' = Conns
    BY <1>1, <2>1, TakenTypes
  <2>3. DOMAIN dropped' = Conns
    BY <1>1, <1>5, <2>1 DEF ProcessData, CmdTypes
  <2>4. output' \in [Conns -> Seq(Nat)]
    <3>1. Append(output[at[w].conn], next_cmd_seq[at[w].conn]) \in Seq(Nat)
      BY <1>1, <2>1 DEF CmdTypes
    <3>2. QED
      BY <1>1, <1>5, <2>1, <3>1 DEF ProcessData, CmdTypes
  <2>5. QED
    BY <1>2, <2>2, <2>3, <2>4 DEF CmdTypes
<1>6. ASSUME NEW w \in Workers, ProcessAck(w) \/ ProcessClose(w)
      PROVE  CmdTypes'
  <2>1. /\ at[w].conn \in Conns /\ UNCHANGED <<output, dropped>>
        /\ \E cmd : TakeCommand(w, cmd)
    BY <1>1, <1>6, WorkerMoves DEF ProcessAck, ProcessClose
  <2>2. next_cmd_seq' \in [Conns -> Nat \ {0}] /\ DOMAIN cmd_queue' = Conns
    BY <1>1, <2>1, TakenTypes
  <2>3. QED
    BY <1>1, <1>2, <2>1, <2>2 DEF CmdTypes
<1>7. ASSUME NEW w \in Workers, ProcessEnd(w) \/ Drained(w) \/ DrainFails(w) \/ Stopped(w)
      PROVE  UNCHANGED cmdVars
  BY <1>7 DEF ProcessEnd, Drained, DrainFails, Stopped
<1>8. QED
  BY <1>1, <1>3, <1>4, <1>5, <1>6, <1>7, CmdSteps

LEMMA CmdTypesInit == InitDownload => CmdTypes
BY DEF InitDownload, CmdTypes

-----------------------------------------------------------------------------
(***************************************************************************)
(* Acks.  Data is counted as sent once drain() returns; until then the     *)
(* worker that wrote it is in drain().                                     *)
(***************************************************************************)
Draining(c) == {w \in Workers : at[w].step = "drain" /\ at[w].conn = c}

AckCount(c) ==
  /\ sent_window_position[c] <= sended_position[c]
  /\ sended_position[c] + Cardinality(Draining(c)) <= Len(output[c])

AckInv ==
  /\ sended_position \in [Conns -> Nat] /\ sent_window_position \in [Conns -> Nat]
  /\ \A c \in Conns : AckCount(c)

LEMMA DrainingFinite ==
  \A c : IsFiniteSet(Draining(c)) /\ Cardinality(Draining(c)) \in Nat
<1>1. SUFFICES ASSUME NEW c PROVE IsFiniteSet(Draining(c)) /\ Cardinality(Draining(c)) \in Nat
  OBVIOUS
<1>2. Draining(c) \subseteq Workers /\ IsFiniteSet(Workers)
  BY DownloadAssumption DEF Draining
<1>3. QED
  BY <1>2, FS_Subset, FS_CardinalityType

\* A worker that does not enter drain() may have left it.
LEMMA LeavesDrain ==
  ASSUME AckInv, CmdTypes, WorkersInv, UNCHANGED <<ackVars, output>>,
         NEW w \in Workers, NEW to, Moves(w, to), to.step # "drain"
  PROVE  AckInv'
<1>1. SUFFICES ASSUME NEW c \in Conns PROVE AckCount(c)'
  BY DEF AckInv, ackVars
<1>2. Draining(c)' \subseteq Draining(c)
  BY DEF Draining, Moves, WorkersInv
<1>3. Cardinality(Draining(c)') <= Cardinality(Draining(c)) /\ Cardinality(Draining(c)') \in Nat
  BY <1>2, DrainingFinite, FS_Subset, FS_CardinalityType
<1>4. /\ sended_position[c] \in Nat /\ Cardinality(Draining(c)) \in Nat /\ Len(output[c]) \in Nat
      /\ sended_position' = sended_position /\ sent_window_position' = sent_window_position
      /\ output' = output
  BY DrainingFinite DEF AckInv, CmdTypes, ackVars
<1>5. AckCount(c)
  BY DEF AckInv
<1>6. QED
  BY <1>3, <1>4, <1>5 DEF AckCount
LEMMA AckNext == AckInv /\ CmdTypes /\ WorkersInv /\ [Next]_vars => AckInv'
<1>1. SUFFICES ASSUME AckInv, CmdTypes, WorkersInv, [Next]_vars PROVE AckInv'
  OBVIOUS
<1>2. CASE UNCHANGED <<at, ackVars, output>>
  BY <1>1, <1>2 DEF AckInv, AckCount, Draining, ackVars
<1>3. ASSUME NEW w \in Workers,
             HandleCommand(w) \/ ProcessClose(w) \/ ProcessEnd(w) \/ DrainFails(w) \/ Stopped(w)
      PROVE  AckInv'
  <2>1. UNCHANGED <<ackVars, output>>
    BY <1>3 DEF HandleCommand, ProcessClose, ProcessEnd, DrainFails, Stopped, cmdVars
  <2>2. \/ Moves(w, Idle)
        \/ \E c \in Conns, step \in {"process", "stop", "reset"} : Moves(w, In(step, c))
    BY <1>1, <1>3, WorkerMoves
  <2>3. Idle.step # "drain" /\ \A c, step : In(step, c).step = step
    BY DEF Idle, In
  <2>4. CASE Moves(w, Idle)
    BY <1>1, <2>1, <2>3, <2>4, LeavesDrain
  <2>5. ASSUME NEW c \in Conns, NEW step \in {"process", "stop", "reset"}, Moves(w, In(step, c))
        PROVE  AckInv'
    BY <1>1, <2>1, <2>3, <2>5, LeavesDrain
  <2>6. QED
    BY <2>2, <2>4, <2>5
<1>4. ASSUME NEW w \in Workers, ProcessAck(w)
      PROVE  AckInv'
  BY <1>2, <1>4 DEF ProcessAck, workerVars
<1>5. ASSUME NEW w \in Workers, ProcessData(w)
      PROVE  AckInv'
  <2>0. PICK c \in Conns : c = at[w].conn
    BY <1>1, <1>5, WorkerMoves
  <2>1. at[w].step = "process" /\ c = at[w].conn /\ UNCHANGED ackVars
    BY <1>1, <1>5, <2>0, WorkerMoves DEF ProcessData
  <2>2. CASE UNCHANGED <<output, at>>
    BY <1>2, <2>1, <2>2
  <2>3. CASE output' = [output EXCEPT ![c] = Append(output[c], next_cmd_seq[c])] /\ Moves(w, In("drain", c))
    <3>1. /\ w \notin Draining(c) /\ Draining(c)' = Draining(c) \cup {w}
          /\ \A d \in Conns \ {c} : Draining(d)' = Draining(d)
      BY <1>1, <2>1, <2>3, InPlace DEF Draining, Moves, WorkersInv
    <3>2. /\ Len(output'[c]) = Len(output[c]) + 1 /\ Len(output[c]) \in Nat
          /\ \A d \in Conns \ {c} : output'[d] = output[d]
      BY <1>1, <2>1, <2>3 DEF CmdTypes
    <3>3. Cardinality(Draining(c)') = Cardinality(Draining(c)) + 1
      BY <3>1, DrainingFinite, FS_AddElement
    <3>4. AckCount(c) /\ sended_position[c] \in Nat
      BY <1>1, <2>1 DEF AckInv
    <3>5. AckCount(c)'
      BY <2>1, <3>2, <3>3, <3>4, DrainingFinite DEF AckCount, ackVars
    <3>6. \A d \in Conns \ {c} : AckCount(d)'
      BY <1>1, <2>1, <3>1, <3>2 DEF AckInv, AckCount, ackVars
    <3>7. QED
      BY <1>1, <2>1, <3>5, <3>6 DEF AckInv, ackVars
  <2>4. QED
    BY <1>5, <2>1, <2>2, <2>3 DEF ProcessData, Moves
<1>6. ASSUME NEW w \in Workers, Drained(w)
      PROVE  AckInv'
  <2>0. PICK c \in Conns : c = at[w].conn
    BY <1>1, <1>6, WorkerMoves
  <2> DEFINE sent == sended_position[c] + 1
  <2>1. at[w].step = "drain" /\ c = at[w].conn /\ Moves(w, In("process", c)) /\ UNCHANGED output
    BY <1>1, <1>6, <2>0, WorkerMoves DEF Drained, cmdVars
  <2>2. /\ w \in Draining(c) /\ Draining(c)' = Draining(c) \ {w}
        /\ \A d \in Conns \ {c} : Draining(d)' = Draining(d)
    BY <1>1, <2>1, InPlace DEF Draining, Moves, WorkersInv
  <2>3. Cardinality(Draining(c)') = Cardinality(Draining(c)) - 1
    BY <2>2, DrainingFinite, FS_RemoveElement
  <2>4. /\ sended_position' = [sended_position EXCEPT ![c] = sent]
        /\ \/ sent_window_position' = [sent_window_position EXCEPT ![c] = sent]
           \/ sent_window_position' = sent_window_position
    BY <1>6, <2>1 DEF Drained
  <2>5. /\ sended_position \in [Conns -> Nat] /\ sent_window_position \in [Conns -> Nat]
        /\ AckCount(c) /\ Len(output[c]) \in Nat
    BY <1>1, <2>1 DEF AckInv, CmdTypes
  <2>6. sended_position' \in [Conns -> Nat] /\ sent_window_position' \in [Conns -> Nat]
    <3>1. sent \in Nat
      BY <2>5
    <3> HIDE DEF sent
    <3>2. QED
      BY <2>4, <2>5, <3>1
  <2>7. /\ sended_position'[c] = sended_position[c] + 1
        /\ sent_window_position'[c] \in {sended_position[c] + 1, sent_window_position[c]}
        /\ \A d \in Conns \ {c} : /\ sended_position'[d] = sended_position[d]
                                  /\ sent_window_position'[d] = sent_window_position[d]
    BY <2>1, <2>4, <2>5
  <2> HIDE DEF sent
  <2>8. AckCount(c)'
    BY <2>1, <2>3, <2>5, <2>7, DrainingFinite DEF AckCount
  <2>9. \A d \in Conns \ {c} : AckCount(d)'
    BY <1>1, <2>1, <2>2, <2>7 DEF AckInv, AckCount
  <2>10. QED
    BY <2>6, <2>8, <2>9 DEF AckInv
<1>7. QED
  BY <1>1, <1>2, <1>3, <1>4, <1>5, <1>6, CmdSteps DEF cmdVars

LEMMA AckInit == InitDownload => AckInv
<1>1. SUFFICES ASSUME InitDownload PROVE AckInv
  OBVIOUS
<1>2. \A c \in Conns : /\ sended_position[c] = 0 /\ sent_window_position[c] = 0
                       /\ Draining(c) = {} /\ output[c] = <<>>
  BY <1>1 DEF InitDownload, Draining, Idle
<1>3. \A c \in Conns : AckCount(c)
  <2>1. Cardinality({}) = 0 /\ Len(<<>>) = 0
    BY FS_EmptySet
  <2>2. SUFFICES ASSUME NEW c \in Conns PROVE AckCount(c)
    OBVIOUS
  <2>3. /\ sended_position[c] = 0 /\ sent_window_position[c] = 0
        /\ Cardinality(Draining(c)) = 0 /\ Len(output[c]) = 0
    BY <1>2, <2>1
  <2>4. QED
    BY <2>3 DEF AckCount
<1>4. QED
  BY <1>1, <1>3 DEF InitDownload, AckInv

(***************************************************************************)
(* A window ack never tells the server of data that the socket has not     *)
(* taken, whichever workers are suspended in drain() and fail there.       *)
(***************************************************************************)
THEOREM AcksTrue == Spec => []AckHonest
<1>1. AckInv /\ CmdTypes => AckHonest
  <2>1. SUFFICES ASSUME AckInv, CmdTypes, NEW c \in Conns
                 PROVE  /\ sent_window_position[c] <= sended_position[c]
                        /\ sended_position[c] <= Len(output[c])
    BY DEF AckHonest
  <2>2. AckCount(c) /\ sended_position[c] \in Nat /\ Len(output[c]) \in Nat
    BY <2>1 DEF AckInv, CmdTypes
  <2>3. QED
    BY <2>2, DrainingFinite DEF AckCount
<1>2. QED
  BY <1>1, WorkersInit, WorkersNext, CmdTypesInit, CmdTypesNext, AckInit, AckNext, PTL DEF Spec

-----------------------------------------------------------------------------
(***************************************************************************)
(* Commands that can be executed                                           *)
(***************************************************************************)
Busy(c) == \E w \in Workers : at[w].conn = c /\ at[w].step \in {"process", "drain", "reset"}

Attended(c) == running[c] /\ next_cmd_seq[c] \in DOMAIN cmd_queue[c] => Busy(c)

\* A worker's step is about one connection: who attends to another one stays.
LEMMA OthersBusy ==
  ASSUME WorkersInv, NEW w \in Workers, NEW to, Moves(w, to), NEW d, Busy(d),
         at[w].step \notin {"process", "drain", "reset"} \/ at[w].conn # d
  PROVE  Busy(d)'
<1>1. PICK v \in Workers : at[v].conn = d /\ at[v].step \in {"process", "drain", "reset"}
  BY DEF Busy
<1>2. v # w
  BY <1>1
<1>3. QED
  BY <1>1, <1>2 DEF Busy, Moves, WorkersInv

\* A worker that goes on with d attends to it.
LEMMA GoesOn ==
  ASSUME WorkersInv, NEW w \in Workers, NEW to, Moves(w, to), NEW d,
         to.conn = d, to.step \in {"process", "drain", "reset"}
  PROVE  Busy(d)'
BY DEF Busy, Moves, WorkersInv

LEMMA AttendedNext ==
  ASSUME NoStuckCommand, CmdTypes, WorkersInv, [Next]_vars
  PROVE  NoStuckCommand'
<1>1. SUFFICES ASSUME NEW d \in Conns, running'[d], next_cmd_seq'[d] \in DOMAIN cmd_queue'[d]
               PROVE  Busy(d)'
  BY DEF NoStuckCommand, Busy
<1>2. running[d]
  BY <1>1, RunningStays DEF CmdTypes
<1>3. next_cmd_seq[d] \in DOMAIN cmd_queue[d] => Busy(d)
  BY <1>2 DEF NoStuckCommand, Busy
<1>4. CASE UNCHANGED <<at, cmdVars>>
  <2>1. Busy(d)
    BY <1>1, <1>3, <1>4 DEF cmdVars
  <2>2. QED
    BY <1>4, <2>1 DEF Busy
<1>5. ASSUME NEW w \in Workers, HandleCommand(w)
      PROVE  Busy(d)'
  <2>1. at[w] = Idle /\ next_cmd_seq' = next_cmd_seq
    BY <1>5 DEF HandleCommand
  <2>2. at[w].step \notin {"process", "drain", "reset"}
    BY <2>1 DEF Idle
  <2>3. Moves(w, Idle) \/ \E c \in Conns : Moves(w, In("process", c))
    BY <1>5, WorkerMoves
  <2> DEFINE r == Head(ready[w])
  <2>4. CASE next_cmd_seq[d] \in DOMAIN cmd_queue[d]
    BY <1>3, <2>2, <2>3, <2>4, OthersBusy
  <2>5. CASE next_cmd_seq[d] \notin DOMAIN cmd_queue[d]
    <3>1. Accepted(r) /\ r.conn = d /\ r.seq = next_cmd_seq[d]
      <4>1. DOMAIN cmd_queue'[d] # DOMAIN cmd_queue[d]
        BY <1>1, <2>1, <2>5
      <4>2. /\ Accepted(r)
            /\ cmd_queue' = [cmd_queue EXCEPT ![r.conn] =
                               [seq \in DOMAIN cmd_queue[r.conn] \cup {r.seq} |->
                                  IF seq = r.seq THEN r.cmd ELSE cmd_queue[r.conn][seq]]]
        BY <1>5, <4>1 DEF HandleCommand
      <4> HIDE DEF r
      <4>3. r.conn = d
        BY <4>1, <4>2 DEF CmdTypes
      <4>4. DOMAIN cmd_queue'[d] = DOMAIN cmd_queue[d] \cup {r.seq}
        BY <4>2, <4>3 DEF CmdTypes
      <4>5. QED
        BY <1>1, <2>1, <2>5, <4>2, <4>3, <4>4
    <3>2. Moves(w, In("process", d))
      BY <1>5, <3>1 DEF HandleCommand, Moves
    <3>3. QED
      BY <3>2, GoesOn, InPlace
  <2>6. QED
    BY <2>4, <2>5
<1>6. ASSUME NEW w \in Workers, ProcessData(w) \/ ProcessAck(w)
      PROVE  Busy(d)'
  <2>1. /\ at[w].step = "process" /\ at[w].conn \in Conns
        /\ Moves(w, at[w]) \/ Moves(w, In("drain", at[w].conn))
        /\ \E cmd : TakeCommand(w, cmd)
    BY <1>6, WorkerMoves DEF ProcessData, ProcessAck
  <2>2. CASE d = at[w].conn
    BY <2>1, <2>2, GoesOn, InPlace
  <2>3. CASE d # at[w].conn
    <3>1. Busy(d)
      BY <1>1, <1>3, <2>1, <2>3, TakenTypes
    <3>2. QED
      BY <2>1, <2>3, <3>1, OthersBusy
  <2>4. QED
    BY <2>2, <2>3
<1>7. ASSUME NEW w \in Workers, ProcessClose(w)
      PROVE  Busy(d)'
  <2>1. /\ at[w].step = "process" /\ at[w].conn \in Conns
        /\ TakeCommand(w, "close")
        /\ \/ Moves(w, In("reset", at[w].conn))
           \/ /\ Moves(w, Idle) \/ Moves(w, In("stop", at[w].conn))
              /\ running' = [running EXCEPT ![at[w].conn] = FALSE]
    <3>1. CASE BeginStop(at[w].conn)
      BY <1>7, <3>1, WorkerMoves DEF ProcessClose, BeginStop, Moves
    <3>2. CASE at' = [at EXCEPT ![w] = In("reset", at[w].conn)]
      BY <1>7, <3>2, WorkerMoves DEF ProcessClose, Moves
    <3>3. QED
      BY <1>7, <3>1, <3>2 DEF ProcessClose
  <2>2. CASE d = at[w].conn
    <3>1. Moves(w, In("reset", at[w].conn))
      BY <1>1, <2>1, <2>2, Zenon DEF CmdTypes
    <3>2. QED
      BY <2>1, <2>2, <3>1, GoesOn, InPlace
  <2>3. CASE d # at[w].conn
    <3>1. Busy(d)
      BY <1>1, <1>3, <2>1, <2>3, TakenTypes
    <3>2. QED
      BY <2>1, <2>3, <3>1, OthersBusy
  <2>4. QED
    BY <2>2, <2>3
<1>8. ASSUME NEW w \in Workers, ProcessEnd(w) \/ Drained(w) \/ DrainFails(w) \/ Stopped(w)
      PROVE  Busy(d)'
  <2>1. UNCHANGED cmdVars
    BY <1>8 DEF ProcessEnd, Drained, DrainFails, Stopped
  <2>2. Busy(d)
    BY <1>1, <1>3, <2>1 DEF cmdVars
  <2>3. CASE ProcessEnd(w)
    <3>1. d # at[w].conn /\ Moves(w, Idle)
      BY <1>1, <1>2, <2>1, <2>3 DEF ProcessEnd, Moves, cmdVars
    <3>2. QED
      BY <2>2, <3>1, OthersBusy
  <2>4. CASE Drained(w) \/ DrainFails(w)
    <3>1. Moves(w, In("process", at[w].conn)) /\ at[w].conn \in Conns
      BY <2>4, WorkerMoves
    <3>2. QED
      BY <2>2, <3>1, OthersBusy, GoesOn, InPlace
  <2>5. CASE Stopped(w)
    <3>1. at[w].step = "stop" /\ Moves(w, Idle)
      BY <2>5, WorkerMoves
    <3>2. QED
      BY <2>2, <3>1, OthersBusy
  <2>6. QED
    BY <1>8, <2>3, <2>4, <2>5
<1>9. QED
  BY <1>4, <1>5, <1>6, <1>7, <1>8, CmdSteps

LEMMA AttendedInit == InitDownload => NoStuckCommand
BY DEF InitDownload, NoStuckCommand, NoCommands

(***************************************************************************)
(* The worker that queues the missing command and the one about to leave   *)
(* the loop never miss each other: a command that can be executed has a    *)
(* worker that will.                                                       *)
(***************************************************************************)
THEOREM CommandsAttended == Spec => []NoStuckCommand
BY WorkersInit, WorkersNext, CmdTypesInit, CmdTypesNext, AttendedInit, AttendedNext, PTL DEF Spec
-----------------------------------------------------------------------------
(***************************************************************************)
(* The commands a worker collects from its blocks                          *)
(***************************************************************************)
LEMMA NatMin ==
  ASSUME NEW S \in SUBSET Nat, S # {}
  PROVE  \E x \in S : \A y \in S : x <= y
<1>1. PICK m \in S : \A k \in S : ~(<<k, m>> \in OpToRel(<, Nat))
  BY NatLessThanWellFounded, WFMin, Zenon
<1>2. OpToRel(<, Nat) = {ss \in Nat \X Nat : ss[1] < ss[2]}
  BY Zenon DEF OpToRel
<1>3. ASSUME NEW k \in S PROVE m <= k
  <2>1. k < m => <<k, m>> \in {ss \in Nat \X Nat : ss[1] < ss[2]}
    OBVIOUS
  <2>2. ~(k < m)
    BY <1>1, <1>2, <2>1, Zenon
  <2>3. QED
    BY <2>2
<1>4. QED
  BY <1>3

\* The concatenation of sequences over A is one, too.
LEMMA FlattenType ==
  ASSUME NEW A, NEW n \in Nat \ {0}, NEW s \in [1 .. n -> Seq(A)]
  PROVE  FlattenSeq(s) \in Seq(A)
<1> DEFINE Step(g, i) == IF i = 1 THEN s[i] ELSE g[i - 1] \o s[i]
           Flat(g, m) == g = [i \in 1 .. m |-> Step(g, i)]
           Bad == {m \in 1 .. n : ~\E g : Flat(g, m)}
<1>1. Len(s) = n
  OBVIOUS
<1>2. \A m \in 1 .. n : \E g : Flat(g, m)
  <2>1. SUFFICES ASSUME Bad # {} PROVE FALSE
    OBVIOUS
  <2>2. PICK m \in Bad : \A k \in Bad : m <= k
    <3>1. Bad \in SUBSET Nat
      <4> HIDE DEF Flat
      <4>1. QED
        OBVIOUS
    <3> HIDE DEF Bad
    <3>2. QED
      BY <2>1, <3>1, NatMin
  <2>3. CASE m = 1
    <3>1. Flat([i \in 1 .. 1 |-> s[i]], 1)
      OBVIOUS
    <3>2. QED
      BY <2>3, <3>1
  <2>4. CASE m # 1
    <3>1. m - 1 \in 1 .. n /\ m - 1 \notin Bad /\ m \in 1 .. n
      <4> HIDE DEF Flat
      <4>1. m \in 1 .. n
        BY <2>2
      <4>2. m - 1 \in 1 .. n /\ ~(m <= m - 1)
        BY <2>4, <4>1
      <4> HIDE DEF Bad
      <4>3. QED
        BY <2>2, <4>1, <4>2
    <3>2. PICK g : Flat(g, m - 1)
      <4> HIDE DEF Flat
      <4>1. QED
        BY <3>1
    <3> DEFINE h == [i \in 1 .. m |-> Step(g, i)]
    <3>3. \A i \in 1 .. (m - 1) : g[i] = Step(g, i) /\ h[i] = g[i]
      <4> HIDE DEF Step
      <4>1. \A i \in 1 .. (m - 1) : g[i] = Step(g, i)
        BY <3>2
      <4>2. \A i \in 1 .. (m - 1) : i \in 1 .. m
        BY <3>1
      <4>3. QED
        BY <4>1, <4>2
    <3>4. ASSUME NEW i \in 1 .. m PROVE Step(g, i) = Step(h, i)
      <4>1. CASE i = 1
        BY <4>1
      <4>2. CASE i # 1
        <5>1. i - 1 \in 1 .. (m - 1)
          BY <3>1, <4>2
        <5>2. QED
          BY <3>3, <4>2, <5>1
      <4>3. QED
        BY <4>1, <4>2
    <3>5. Flat(h, m)
      <4> HIDE DEF Step
      <4>1. QED
        BY <3>4
    <3>6. QED
      <4> HIDE DEF Flat, h
      <4>1. QED
        BY <3>5, <2>2
  <2>5. QED
    BY <2>3, <2>4
<1> DEFINE F == CHOOSE g : Flat(g, n)
<1>3. Flat(F, n)
  <2>1. \E g : Flat(g, n)
    <3> HIDE DEF Flat
    <3>1. QED
      BY <1>2
  <2> HIDE DEF Flat
  <2>2. QED
    BY <2>1
<1>4. FlattenSeq(s) = F[n]
  BY <1>1 DEF FlattenSeq
<1> HIDE DEF F
<1>5. \A i \in 1 .. n : F[i] = Step(F, i)
  BY <1>3
<1>6. \A i \in 1 .. n : F[i] \in Seq(A)
  <2> DEFINE Odd == {i \in 1 .. n : F[i] \notin Seq(A)}
  <2>1. SUFFICES ASSUME Odd # {} PROVE FALSE
    OBVIOUS
  <2>2. PICK m \in Odd : \A k \in Odd : m <= k
    <3>1. Odd \in SUBSET Nat
      OBVIOUS
    <3> HIDE DEF Odd
    <3>2. QED
      BY <2>1, <3>1, NatMin
  <2>3. m # 1
    BY <1>5, <2>2
  <2>4. m - 1 \in 1 .. n /\ m - 1 \notin Odd /\ m \in 1 .. n
    BY <2>2, <2>3
  <2>5. F[m - 1] \in Seq(A) /\ s[m] \in Seq(A) /\ F[m] = F[m - 1] \o s[m]
    BY <1>5, <2>3, <2>4
  <2>6. F[m] \in Seq(A)
    BY <2>5
  <2>7. QED
    BY <2>2, <2>6
<1>7. QED
  BY <1>4, <1>6

\* ... and so is that of a part of a sequence of them.
LEMMA SliceType ==
  ASSUME NEW A, NEW f, NEW a \in Nat \ {0}, NEW b \in Nat \ {0}, a <= b,
         \A j \in 1 .. (b - 1) : f[j] \in Seq(A)
  PROVE  FlattenSeq([i \in 1 .. (b - a) |-> f[a + i - 1]]) \in Seq(A)
<1> DEFINE n == b - a
           s == [i \in 1 .. n |-> f[a + i - 1]]
<1>1. n \in Nat
  OBVIOUS
<1>2. CASE n # 0
  <2>1. \A i \in 1 .. n : a + i - 1 \in 1 .. (b - 1)
    OBVIOUS
  <2>2. s \in [1 .. n -> Seq(A)]
    BY <2>1
  <2> HIDE DEF s, n
  <2>3. FlattenSeq(s) \in Seq(A)
    BY <1>1, <1>2, <2>2, FlattenType
  <2>4. QED
    BY <2>3 DEF s, n
<1>3. CASE n = 0
  <2>1. s = <<>> /\ Len(s) = 0
    BY <1>3
  <2> HIDE DEF s
  <2>2. FlattenSeq(s) = <<>>
    BY <2>1 DEF FlattenSeq
  <2>3. <<>> \in Seq(A)
    OBVIOUS
  <2>4. FlattenSeq(s) \in Seq(A)
    BY <2>2, <2>3
  <2>5. QED
    BY <2>4 DEF s
<1>4. QED
  BY <1>2, <1>3

LEMMA BlockType == \A j \in DOMAIN Blocks : Blocks[j] \in Seq(Record)
<1>1. Blocks \in Seq(Seq(Record))
  BY DownloadAssumption
<1> DEFINE S == Seq(Record)
<1> HIDE DEF S
<1>2. Blocks \in Seq(S)
  BY <1>1 DEF S
<1>3. \A j \in DOMAIN Blocks : Blocks[j] \in S
  BY <1>2
<1>4. QED
  BY <1>3 DEF S

LEMMA IntervalGrows ==
  ASSUME NEW a \in Nat, NEW b \in Nat, a <= b
  PROVE  1 .. (a - 1) \subseteq 1 .. (b - 1)
OBVIOUS

\* The commands in the blocks handed over so far.
Given == Commands(1 .. (next_sn - 1))

ReadyInv == ready \in [Workers -> Seq(Given)]

LEMMA CommandsGrow ==
  ASSUME NEW S, NEW T, S \subseteq T
  PROVE  Commands(S) \subseteq Commands(T)
BY DEF Commands

LEMMA GivenGrows ==
  ASSUME ReceiveInv, [Next]_vars
  PROVE  Given \subseteq Given'
<1>1. next_sn \in Nat /\ next_sn' \in Nat
  BY ReceiveNext DEF ReceiveInv
<1>2. next_sn <= next_sn'
  <2>1. ASSUME NEW w \in Workers, PutBlock(w) PROVE next_sn <= next_sn'
    <3>1. PICK sn \in todo[w] : Put(sn)
      BY <2>1 DEF PutBlock
    <3>2. sn \in DOMAIN Blocks
      BY <3>1 DEF ReceiveInv
    <3>3. QED
      BY <3>1, <3>2, PutKeepsReceived
  <2>2. ASSUME NEW w, NEW sns, Respond(w, sns) PROVE next_sn <= next_sn'
    BY <1>1, <2>2 DEF Respond, receiveVars
  <2>3. ASSUME NEW sn, ServerUnacked(sn) PROVE next_sn <= next_sn'
    BY <1>1, <2>3 DEF ServerUnacked, MarkTimeout
  <2>4. CASE UNCHANGED <<receiveVars, todo>>
    BY <1>1, <2>4 DEF receiveVars
  <2>5. QED
    BY <2>1, <2>2, <2>3, <2>4, ReceiveSteps
<1>3. 1 .. (next_sn - 1) \subseteq 1 .. (next_sn' - 1)
  BY <1>1, <1>2, IntervalGrows
<1>4. QED
  BY <1>3, CommandsGrow DEF Given

LEMMA GivenKnown == ReceiveInv => Given \subseteq Commands(DOMAIN Blocks)
BY CommandsGrow DEF Given, ReceiveInv

LEMMA ReadySteps ==
  ASSUME [Next]_vars
  PROVE  \/ UNCHANGED ready
         \/ \E w \in Workers : PutBlock(w) \/ HandleCommand(w)
<1> USE DEF workerVars
<1>1. ASSUME NEW c \in Conns, CreateConn(c) \/ AppWrite(c) \/ AppClose(c)
      PROVE  UNCHANGED ready
  BY <1>1 DEF CreateConn, AppWrite, AppClose
<1>2. ASSUME NEW c \in Conns, ConnStep(c)
      PROVE  UNCHANGED ready
  BY <1>2 DEF ConnStep, AddSock, AddSockFails, HandlerRelays, HandlerFails,
              ReadPiece, ReaderEnd, ReaderStop, ReaderStopped,
              RelayEnd, RelayStop, RelayStopped
<1>3. ASSUME NEW w \in Workers, WorkerStep(w)
      PROVE  PutBlock(w) \/ HandleCommand(w) \/ UNCHANGED ready
  BY <1>3 DEF WorkerStep, ProcessData, ProcessAck, ProcessClose, ProcessEnd,
              Drained, DrainFails, Stopped
<1>4. ASSUME NEW w \in Workers, NEW sns, Respond(w, sns)
      PROVE  UNCHANGED ready
  BY <1>4 DEF Respond
<1>5. ASSUME NEW sn, ServerUnacked(sn)
      PROVE  UNCHANGED ready
  BY <1>5 DEF ServerUnacked
<1>6. CASE Quiet \/ UNCHANGED vars
  BY <1>6 DEF Quiet, vars
<1>7. QED
  BY <1>1, <1>2, <1>3, <1>4, <1>5, <1>6 DEF Next

LEMMA SeqGrows ==
  ASSUME NEW S, NEW T, S \subseteq T
  PROVE  Seq(S) \subseteq Seq(T)
OBVIOUS

LEMMA ReadyNext == ReadyInv /\ ReceiveInv /\ [Next]_vars => ReadyInv'
<1>1. SUFFICES ASSUME ReadyInv, ReceiveInv, [Next]_vars PROVE ReadyInv'
  OBVIOUS
<1>2. Seq(Given) \subseteq Seq(Given')
  BY <1>1, GivenGrows, SeqGrows
<1>3. ready \in [Workers -> Seq(Given')]
  BY <1>1, <1>2 DEF ReadyInv
<1>4. CASE UNCHANGED ready
  BY <1>3, <1>4 DEF ReadyInv
<1>5. ASSUME NEW w \in Workers, HandleCommand(w) PROVE ReadyInv'
  <2>1. ready' = [ready EXCEPT ![w] = Tail(ready[w])] /\ ready[w] # <<>>
    BY <1>5 DEF HandleCommand
  <2>2. Tail(ready[w]) \in Seq(Given')
    BY <1>3, <2>1
  <2>3. QED
    BY <1>3, <2>1, <2>2 DEF ReadyInv
<1>6. ASSUME NEW w \in Workers, PutBlock(w) PROVE ReadyInv'
  <2>1. /\ ready' = [ready EXCEPT ![w] =
                        FlattenSeq([i \in 1 .. (next_sn' - next_sn) |-> Blocks[next_sn + i - 1]])]
        /\ \E sn \in todo[w] : Put(sn)
    BY <1>6 DEF PutBlock
  <2>2. PICK sn \in DOMAIN Blocks : Put(sn)
    BY <1>1, <2>1 DEF ReceiveInv
  <2>3. /\ next_sn \in Nat \ {0} /\ next_sn' \in Nat \ {0} /\ next_sn <= next_sn'
        /\ 1 .. (next_sn' - 1) \subseteq DOMAIN Blocks
    BY <1>1, <2>2, PutKeepsReceived DEF ReceiveInv
  <2>4. ASSUME NEW j \in 1 .. (next_sn' - 1) PROVE Blocks[j] \in Seq(Given')
    <3>1. Blocks[j] \in Seq(Record)
      BY <2>3, BlockType
    <3>2. \A i \in DOMAIN Blocks[j] : Blocks[j][i] \in Given'
      BY DEF Given, Commands, Range
    <3>3. QED
      BY <3>1, <3>2
  <2>5. FlattenSeq([i \in 1 .. (next_sn' - next_sn) |-> Blocks[next_sn + i - 1]]) \in Seq(Given')
    BY <2>3, <2>4, SliceType
  <2>6. QED
    BY <1>3, <2>1, <2>5 DEF ReadyInv
<1>7. QED
  BY <1>1, <1>4, <1>5, <1>6, ReadySteps

LEMMA ReadyInit == InitDownload => ReadyInv
BY DEF InitDownload, ReadyInv
-----------------------------------------------------------------------------
(***************************************************************************)
(* Stopping.  Whoever waits for a writer to close has stopped the          *)
(* connection before.                                                      *)
(***************************************************************************)
StopInv ==
  /\ DOMAIN reader = Conns /\ DOMAIN relay = Conns
  /\ \A c \in Conns : reader[c] = "stopping" \/ relay[c] = "stopping" => ~running[c]
  /\ \A w \in Workers : at[w].step = "stop" => ~running[at[w].conn]

LEMMA ReaderSteps ==
  ASSUME [Next]_vars
  PROVE  \/ UNCHANGED reader
         \/ \E c \in Conns, to \in {"reading", "ending", "ended"} : reader' = [reader EXCEPT ![c] = to]
         \/ \E c \in Conns : BeginStop(c) /\ reader' = [reader EXCEPT ![c] = "stopping"]
<1>1. ASSUME NEW c \in Conns, CreateConn(c) \/ AppWrite(c) \/ AppClose(c)
      PROVE  UNCHANGED reader
  BY <1>1 DEF CreateConn, AppWrite, AppClose
<1>2. ASSUME NEW c \in Conns, ConnStep(c)
      PROVE  \/ UNCHANGED reader
             \/ \E to \in {"reading", "ending", "ended"} : reader' = [reader EXCEPT ![c] = to]
             \/ BeginStop(c) /\ reader' = [reader EXCEPT ![c] = "stopping"]
  BY <1>2 DEF ConnStep, AddSock, AddSockFails, HandlerRelays, HandlerFails,
              ReadPiece, ReaderEnd, ReaderStop, ReaderStopped,
              RelayEnd, RelayStop, RelayStopped
<1>3. ASSUME NEW w \in Workers, WorkerStep(w)
      PROVE  UNCHANGED reader
  BY <1>3 DEF WorkerStep, PutBlock, HandleCommand, ProcessData, ProcessAck, ProcessClose, ProcessEnd,
              Drained, DrainFails, Stopped, taskVars
<1>4. ASSUME NEW w \in Workers, NEW sns, Respond(w, sns)
      PROVE  UNCHANGED reader
  BY <1>4 DEF Respond, taskVars
<1>5. ASSUME NEW sn, ServerUnacked(sn)
      PROVE  UNCHANGED reader
  BY <1>5 DEF ServerUnacked, taskVars
<1>6. CASE Quiet \/ UNCHANGED vars
  BY <1>6 DEF Quiet, vars, taskVars
<1>7. QED
  BY <1>1, <1>2, <1>3, <1>4, <1>5, <1>6 DEF Next

RelayPlaces == {"reply", "on", "bare", "told", "ended", "failed"}

LEMMA RelaySteps ==
  ASSUME [Next]_vars
  PROVE  \/ UNCHANGED relay
         \/ \E c \in Conns, to \in RelayPlaces : relay' = [relay EXCEPT ![c] = to]
         \/ \E c \in Conns : BeginStop(c) /\ relay' = [relay EXCEPT ![c] = "stopping"]
<1>1. ASSUME NEW c \in Conns, CreateConn(c) \/ AppWrite(c) \/ AppClose(c)
      PROVE  UNCHANGED relay
  BY <1>1 DEF CreateConn, AppWrite, AppClose
<1>2. ASSUME NEW c \in Conns, ConnStep(c)
      PROVE  \/ UNCHANGED relay
             \/ \E to \in RelayPlaces : relay' = [relay EXCEPT ![c] = to]
             \/ BeginStop(c) /\ relay' = [relay EXCEPT ![c] = "stopping"]
  BY <1>2 DEF ConnStep, AddSock, AddSockFails, HandlerRelays, HandlerFails,
              ReadPiece, ReaderEnd, ReaderStop, ReaderStopped,
              RelayEnd, RelayStop, RelayStopped, RelayPlaces
<1>3. ASSUME NEW w \in Workers, WorkerStep(w)
      PROVE  UNCHANGED relay
  BY <1>3 DEF WorkerStep, PutBlock, HandleCommand, ProcessData, ProcessAck, ProcessClose, ProcessEnd,
              Drained, DrainFails, Stopped, taskVars
<1>4. ASSUME NEW w \in Workers, NEW sns, Respond(w, sns)
      PROVE  UNCHANGED relay
  BY <1>4 DEF Respond, taskVars
<1>5. ASSUME NEW sn, ServerUnacked(sn)
      PROVE  UNCHANGED relay
  BY <1>5 DEF ServerUnacked, taskVars
<1>6. CASE Quiet \/ UNCHANGED vars
  BY <1>6 DEF Quiet, vars, taskVars
<1>7. QED
  BY <1>1, <1>2, <1>3, <1>4, <1>5, <1>6 DEF Next

LEMMA StopNext ==
  ASSUME StopInv, CmdTypes, WorkersInv, [Next]_vars
  PROVE  StopInv'
<1>1. \A c \in Conns : running'[c] => running[c]
  BY RunningStays DEF CmdTypes
<1>2. \A c \in Conns : BeginStop(c) => ~running'[c]
  BY Zenon DEF BeginStop, CmdTypes
<1>3. DOMAIN reader' = Conns /\ \A c \in Conns : reader'[c] = "stopping" => ~running'[c]
  <2>1. /\ DOMAIN reader = Conns
        /\ \A c \in Conns : reader[c] = "stopping" => ~running[c]
    BY DEF StopInv
  <2>2. CASE UNCHANGED reader
    BY <1>1, <2>1, <2>2
  <2>3. ASSUME NEW c \in Conns, NEW to \in {"reading", "ending", "ended"},
               reader' = [reader EXCEPT ![c] = to]
        PROVE  DOMAIN reader' = Conns /\ \A d \in Conns : reader'[d] = "stopping" => ~running'[d]
    <3>1. to # "stopping"
      OBVIOUS
    <3>2. QED
      BY <1>1, <2>1, <2>3, <3>1
  <2>4. ASSUME NEW c \in Conns, BeginStop(c), reader' = [reader EXCEPT ![c] = "stopping"]
        PROVE  DOMAIN reader' = Conns /\ \A d \in Conns : reader'[d] = "stopping" => ~running'[d]
    BY <1>1, <1>2, <2>1, <2>4
  <2>5. QED
    BY <2>2, <2>3, <2>4, ReaderSteps
<1>4. DOMAIN relay' = Conns /\ \A c \in Conns : relay'[c] = "stopping" => ~running'[c]
  <2>1. /\ DOMAIN relay = Conns
        /\ \A c \in Conns : relay[c] = "stopping" => ~running[c]
    BY DEF StopInv
  <2>2. CASE UNCHANGED relay
    BY <1>1, <2>1, <2>2
  <2>3. ASSUME NEW c \in Conns, NEW to \in RelayPlaces,
               relay' = [relay EXCEPT ![c] = to]
        PROVE  DOMAIN relay' = Conns /\ \A d \in Conns : relay'[d] = "stopping" => ~running'[d]
    <3>1. to # "stopping"
      BY <2>3 DEF RelayPlaces
    <3>2. QED
      BY <1>1, <2>1, <2>3, <3>1
  <2>4. ASSUME NEW c \in Conns, BeginStop(c), relay' = [relay EXCEPT ![c] = "stopping"]
        PROVE  DOMAIN relay' = Conns /\ \A d \in Conns : relay'[d] = "stopping" => ~running'[d]
    BY <1>1, <1>2, <2>1, <2>4
  <2>5. QED
    BY <2>2, <2>3, <2>4, RelaySteps
<1>5. ASSUME NEW w \in Workers, at'[w].step = "stop" PROVE ~running'[at'[w].conn]
  <2>1. at[w].step # "idle" => at[w].conn \in Conns
    BY DEF WorkersInv
  <2>2. CASE at'[w] = at[w]
    BY <1>1, <1>5, <2>1, <2>2 DEF StopInv
  <2>3. CASE at'[w] # at[w]
    <3>1. PICK v \in Workers : \/ HandleCommand(v) \/ ProcessData(v) \/ ProcessClose(v)
                               \/ ProcessEnd(v) \/ Drained(v) \/ DrainFails(v) \/ Stopped(v)
      BY <2>3, AtSteps
    <3>2. \A to : Moves(v, to) => v = w /\ at'[w] = to
      BY <2>3 DEF Moves, WorkersInv
    <3>3. /\ Idle.step # "stop"
          /\ \A c, step : In(step, c).step = step /\ In(step, c).conn = c
      BY DEF Idle, In
    <3>4. ProcessClose(v) /\ at'[w] = In("stop", at[v].conn) /\ at[v].conn \in Conns
      BY <1>5, <2>3, <3>1, <3>2, <3>3, WorkerMoves
    <3>5. BeginStop(at[v].conn)
      <4>1. at' # [at EXCEPT ![v] = In("reset", at[v].conn)]
        BY <1>5, <3>2, <2>3, <3>3, <3>4 DEF WorkersInv
      <4>2. QED
        BY <3>4, <4>1 DEF ProcessClose
    <3>6. QED
      BY <1>2, <3>3, <3>4, <3>5
  <2>4. QED
    BY <2>2, <2>3
<1>6. QED
  BY <1>3, <1>4, <1>5 DEF StopInv

LEMMA StopInit == InitDownload => StopInv
BY DEF InitDownload, StopInv, Idle

(***************************************************************************)
(* A connection that runs and has no writer has never had one.             *)
(***************************************************************************)
Unwritten(c) == running[c] /\ writer[c] = "none" => output[c] = <<>>

WriterInv == DOMAIN writer = Conns /\ \A c \in Conns : Unwritten(c)

LEMMA WriterSteps ==
  ASSUME [Next]_vars, StopInv, WorkersInv
  PROVE  \/ UNCHANGED writer
         \/ \E c \in Conns : writer' = [writer EXCEPT ![c] = "open"]
         \/ \E c \in Conns : BeginStop(c) \/ (EndStop(c) /\ ~running[c])
<1>1. ASSUME NEW c \in Conns, CreateConn(c) \/ AppWrite(c) \/ AppClose(c)
      PROVE  UNCHANGED writer
  BY <1>1 DEF CreateConn, AppWrite, AppClose, stopVars
<1>2. ASSUME NEW c \in Conns, ConnStep(c)
      PROVE  \/ UNCHANGED writer
             \/ writer' = [writer EXCEPT ![c] = "open"]
             \/ BeginStop(c) \/ (EndStop(c) /\ ~running[c])
  BY <1>2 DEF ConnStep, AddSock, AddSockFails, HandlerRelays, HandlerFails,
              ReadPiece, ReaderEnd, ReaderStop, ReaderStopped,
              RelayEnd, RelayStop, RelayStopped, stopVars, StopInv
<1>3. ASSUME NEW w \in Workers, WorkerStep(w), ~ProcessClose(w), ~Stopped(w)
      PROVE  UNCHANGED writer
  BY <1>3 DEF WorkerStep, PutBlock, HandleCommand, ProcessData, ProcessAck, ProcessEnd,
              Drained, DrainFails, stopVars
<1>4. ASSUME NEW w \in Workers, ProcessClose(w) \/ Stopped(w)
      PROVE  \/ UNCHANGED writer
             \/ \E c \in Conns : BeginStop(c) \/ (EndStop(c) /\ ~running[c])
  <2>1. at[w].conn \in Conns
    BY <1>4, WorkerMoves
  <2>2. ProcessClose(w) => BeginStop(at[w].conn) \/ UNCHANGED writer
    BY DEF ProcessClose, stopVars
  <2>3. Stopped(w) => EndStop(at[w].conn) /\ ~running[at[w].conn]
    BY DEF Stopped, StopInv
  <2>4. QED
    BY <1>4, <2>1, <2>2, <2>3
<1>5. ASSUME NEW w \in Workers, NEW sns, Respond(w, sns)
      PROVE  UNCHANGED writer
  BY <1>5 DEF Respond, stopVars
<1>6. ASSUME NEW sn, ServerUnacked(sn)
      PROVE  UNCHANGED writer
  BY <1>6 DEF ServerUnacked, stopVars
<1>7. CASE Quiet \/ UNCHANGED vars
  BY <1>7 DEF Quiet, vars, stopVars
<1>8. QED
  BY <1>1, <1>2, <1>3, <1>4, <1>5, <1>6, <1>7 DEF Next

\* Output is written to a writer.
LEMMA OutputSteps ==
  ASSUME [Next]_vars, CmdTypes, WorkersInv, NEW d \in Conns, writer[d] = "none"
  PROVE  output'[d] = output[d]
<1>1. CASE UNCHANGED output
  BY <1>1
<1>2. ASSUME NEW w \in Workers,
             \/ HandleCommand(w) \/ ProcessAck(w) \/ ProcessClose(w)
             \/ ProcessEnd(w) \/ Drained(w) \/ DrainFails(w) \/ Stopped(w)
      PROVE  UNCHANGED output
  BY <1>2 DEF HandleCommand, ProcessAck, ProcessClose, ProcessEnd, Drained, DrainFails, Stopped, cmdVars
<1>3. ASSUME NEW w \in Workers, ProcessData(w)
      PROVE  output'[d] = output[d]
  <2>1. \/ UNCHANGED output
        \/ /\ writer[at[w].conn] # "none"
           /\ output' = [output EXCEPT ![at[w].conn] = Append(output[at[w].conn], next_cmd_seq[at[w].conn])]
    BY <1>3 DEF ProcessData
  <2>2. QED
    BY <2>1 DEF CmdTypes
<1>4. QED
  BY <1>1, <1>2, <1>3, CmdSteps DEF cmdVars

LEMMA WriterNext ==
  ASSUME WriterInv, StopInv, CmdTypes, WorkersInv, [Next]_vars
  PROVE  WriterInv'
<1>1. \A c \in Conns : running'[c] => running[c]
  BY RunningStays DEF CmdTypes
<1>2. DOMAIN writer' = Conns
  BY WriterSteps DEF WriterInv, BeginStop, EndStop
<1>3. SUFFICES ASSUME NEW d \in Conns, running'[d], writer'[d] = "none" PROVE output'[d] = <<>>
  BY <1>2 DEF WriterInv, Unwritten
<1>4. writer[d] = "none"
  <2>1. ASSUME NEW c \in Conns, BeginStop(c) PROVE writer[d] = "none"
    <3>1. c # d
      BY <1>3, <2>1, Zenon DEF BeginStop, CmdTypes
    <3>2. QED
      BY <1>3, <2>1, <3>1 DEF BeginStop, WriterInv
  <2>2. ASSUME NEW c \in Conns, EndStop(c), ~running[c] PROVE writer[d] = "none"
    <3>1. c # d
      BY <1>1, <1>3, <2>2
    <3>2. QED
      BY <1>3, <2>2, <3>1 DEF EndStop, WriterInv
  <2>3. ASSUME NEW c \in Conns, writer' = [writer EXCEPT ![c] = "open"] PROVE writer[d] = "none"
    BY <1>3, <2>3 DEF WriterInv
  <2>4. QED
    BY <1>3, <2>1, <2>2, <2>3, WriterSteps
<1>5. output[d] = <<>>
  BY <1>1, <1>3, <1>4 DEF WriterInv, Unwritten
<1>6. QED
  BY <1>4, <1>5, OutputSteps

LEMMA WriterInit == InitDownload => WriterInv
BY DEF InitDownload, WriterInv, Unwritten
-----------------------------------------------------------------------------
(***************************************************************************)
(* What was executed and what is queued is what the server sent            *)
(***************************************************************************)
Rec(c, n, cmd) == [conn |-> c, seq |-> n, cmd |-> cmd]

Queued(c) == \A n \in DOMAIN cmd_queue[c] : Rec(c, n, cmd_queue[c][n]) \in Given
Executed(c) == \A n \in 1 .. (next_cmd_seq[c] - 1) : \E cmd : Rec(c, n, cmd) \in Given
DataSent(c) == {n \in 1 .. (next_cmd_seq[c] - 1) : Rec(c, n, "data") \in Given}

OutputSorted(c) ==
  /\ \A i \in 1 .. (Len(output[c]) - 1) : output[c][i] < output[c][i + 1]
  /\ \A i \in DOMAIN output[c], lost \in dropped[c] : lost < output[c][i]

OutputSent(c) ==
  /\ Executed(c)
  /\ Range(output[c]) \cup dropped[c] = DataSent(c)
  /\ OutputSorted(c)

CmdInv == \A c \in Conns : Queued(c) /\ OutputSent(c)

LEMMA RecFields ==
  \A c, n, cmd : Rec(c, n, cmd).conn = c /\ Rec(c, n, cmd).seq = n /\ Rec(c, n, cmd).cmd = cmd
BY DEF Rec

\* The server numbers no two commands of a connection alike.
LEMMA OneCommand ==
  ASSUME NEW G, G \subseteq Commands(DOMAIN Blocks),
         NEW c, NEW n, NEW j, NEW k, Rec(c, n, j) \in G, Rec(c, n, k) \in G
  PROVE  j = k
<1>1. Rec(c, n, j) = Rec(c, n, k)
  BY RecFields, ServerAssumption
<1>2. QED
  BY <1>1, RecFields

LEMMA GivenRecords ==
  ASSUME ReceiveInv, NEW r \in Given
  PROVE  r \in Record /\ r = Rec(r.conn, r.seq, r.cmd)
<1>1. PICK sn \in DOMAIN Blocks : r \in Range(Blocks[sn])
  BY GivenKnown DEF Commands
<1>2. Blocks[sn] \in Seq(Record)
  BY BlockType
<1>3. r \in Record
  BY <1>1, <1>2 DEF Range
<1>4. QED
  BY <1>3 DEF Record, Rec

\* Blocks handed over later bring nothing that was already executed.
LEMMA SameOutput ==
  ASSUME ReceiveInv', Given \subseteq Given', NEW d \in Conns, OutputSent(d),
         next_cmd_seq'[d] = next_cmd_seq[d], output'[d] = output[d], dropped'[d] = dropped[d]
  PROVE  OutputSent(d)'
<1>0. Given' \subseteq Commands(DOMAIN Blocks)
  BY CommandsGrow DEF Given, ReceiveInv
<1>1. Executed(d)'
  BY DEF OutputSent, Executed
<1>2. ASSUME NEW n \in 1 .. (next_cmd_seq[d] - 1)
      PROVE  Rec(d, n, "data") \in Given' <=> Rec(d, n, "data") \in Given
  <2>1. PICK cmd : Rec(d, n, cmd) \in Given
    BY DEF OutputSent, Executed
  <2>2. Rec(d, n, cmd) \in Given'
    BY <2>1
  <2>3. Rec(d, n, "data") \in Given' => cmd = "data"
    BY <1>0, <2>2, OneCommand
  <2>4. QED
    BY <2>1, <2>3
<1>3. DataSent(d)' = DataSent(d)
  BY <1>2 DEF DataSent
<1>4. QED
  BY <1>1, <1>3 DEF OutputSent, OutputSorted

\* The next command is executed.
LEMMA NextExecuted ==
  ASSUME ReceiveInv, Given' = Given, NEW d \in Conns, OutputSent(d),
         NEW n \in Nat \ {0}, n = next_cmd_seq[d], next_cmd_seq'[d] = n + 1,
         NEW cmd, Rec(d, n, cmd) \in Given
  PROVE  /\ Executed(d)'
         /\ cmd = "data" => DataSent(d)' = DataSent(d) \cup {n}
         /\ cmd # "data" => DataSent(d)' = DataSent(d)
<1>1. n + 1 - 1 = n /\ 1 .. n = 1 .. (n - 1) \cup {n}
  OBVIOUS
<1>2. Executed(d)'
  BY <1>1 DEF OutputSent, Executed
<1>3. Rec(d, n, "data") \in Given <=> cmd = "data"
  BY GivenKnown, OneCommand
<1>4. QED
  BY <1>1, <1>2, <1>3 DEF DataSent

\* Where the next command was data, it is in the output or was dropped.
LEMMA DataExecuted ==
  ASSUME ReceiveInv, Given' = Given, NEW d \in Conns, OutputSent(d),
         NEW n \in Nat \ {0}, n = next_cmd_seq[d], next_cmd_seq'[d] = n + 1,
         Rec(d, n, "data") \in Given, output[d] \in Seq(Nat),
         \/ output'[d] = Append(output[d], n) /\ dropped'[d] = dropped[d]
         \/ output'[d] = output[d] /\ output[d] = <<>> /\ dropped'[d] = dropped[d] \cup {n}
  PROVE  OutputSent(d)'
<1>1. Executed(d)' /\ DataSent(d)' = DataSent(d) \cup {n}
  BY NextExecuted
<1>2. Range(output[d]) \cup dropped[d] = DataSent(d) /\ OutputSorted(d)
  BY DEF OutputSent
<1>3. \A m \in Range(output[d]) \cup dropped[d] : m \in Nat /\ m < n
  BY <1>2 DEF DataSent
<1>4. CASE output'[d] = Append(output[d], n) /\ dropped'[d] = dropped[d]
  <2> DEFINE s == output[d]
             t == Append(s, n)
  <2>1. /\ Len(s) \in Nat /\ DOMAIN s = 1 .. Len(s)
        /\ Len(t) = Len(s) + 1 /\ DOMAIN t = 1 .. (Len(s) + 1)
        /\ t[Len(s) + 1] = n /\ \A i \in 1 .. Len(s) : t[i] = s[i]
    OBVIOUS
  <2>2. \A i \in 1 .. Len(s) : s[i] < n
    BY <1>3, <2>1 DEF Range
  <2>3. /\ \A i \in 1 .. (Len(s) - 1) : s[i] < s[i + 1]
        /\ \A i \in 1 .. Len(s), lost \in dropped[d] : lost < s[i]
    BY <1>2, <2>1 DEF OutputSorted
  <2>4. output'[d] = t
    BY <1>4
  <2> HIDE DEF s, t
  <2>5. Range(t) = Range(s) \cup {n}
    <3>1. \A i \in 1 .. (Len(s) + 1) : i = Len(s) + 1 \/ i \in 1 .. Len(s)
      BY <2>1
    <3>2. \A i \in 1 .. Len(s) : i \in 1 .. (Len(s) + 1)
      BY <2>1
    <3>3. Len(s) + 1 \in 1 .. (Len(s) + 1)
      BY <2>1
    <3>4. QED
      BY <2>1, <3>1, <3>2, <3>3 DEF Range
  <2>6. \A i \in 1 .. (Len(t) - 1) : t[i] < t[i + 1]
    <3>1. SUFFICES ASSUME NEW i \in 1 .. Len(s) PROVE t[i] < t[i + 1]
      BY <2>1
    <3>2. CASE i = Len(s)
      BY <2>1, <2>2, <3>2
    <3>3. CASE i # Len(s)
      <4>1. i \in 1 .. (Len(s) - 1) /\ i + 1 \in 1 .. Len(s)
        <5>1. PICK m \in Nat : m = Len(s)
          BY <2>1
        <5>2. i \in 1 .. m /\ i # m => i \in 1 .. (m - 1) /\ i + 1 \in 1 .. m
          OBVIOUS
        <5>3. QED
          BY <3>1, <3>3, <5>1, <5>2
      <4>2. QED
        BY <2>1, <2>3, <4>1
    <3>4. QED
      BY <3>2, <3>3
  <2>7. \A i \in DOMAIN t, lost \in dropped[d] : lost < t[i]
    <3>1. SUFFICES ASSUME NEW i \in 1 .. (Len(s) + 1), NEW lost \in dropped[d] PROVE lost < t[i]
      BY <2>1
    <3>2. CASE i = Len(s) + 1
      BY <1>3, <2>1, <3>2
    <3>3. CASE i # Len(s) + 1
      <4>1. i \in 1 .. Len(s)
        BY <2>1, <3>3
      <4>2. QED
        BY <2>1, <2>3, <4>1
    <3>4. QED
      BY <3>2, <3>3
  <2>8. Range(t) \cup dropped[d] = DataSent(d) \cup {n}
    BY <1>2, <2>5 DEF s
  <2>9. QED
    BY <1>1, <1>4, <2>4, <2>6, <2>7, <2>8 DEF OutputSent, OutputSorted
<1>5. CASE output'[d] = output[d] /\ output[d] = <<>> /\ dropped'[d] = dropped[d] \cup {n}
  <2>1. OutputSorted(d)'
    BY <1>5 DEF OutputSorted
  <2>2. Range(output'[d]) \cup dropped'[d] = DataSent(d) \cup {n}
    BY <1>2, <1>5
  <2>3. QED
    BY <1>1, <2>1, <2>2 DEF OutputSent
<1>6. QED
  BY <1>4, <1>5

LEMMA OtherExecuted ==
  ASSUME ReceiveInv, Given' = Given, NEW d \in Conns, OutputSent(d),
         NEW n \in Nat \ {0}, n = next_cmd_seq[d], next_cmd_seq'[d] = n + 1,
         NEW cmd, Rec(d, n, cmd) \in Given, cmd # "data",
         output'[d] = output[d], dropped'[d] = dropped[d]
  PROVE  OutputSent(d)'
<1>1. Executed(d)' /\ DataSent(d)' = DataSent(d)
  BY NextExecuted
<1>2. QED
  BY <1>1 DEF OutputSent, OutputSorted
LEMMA CmdInvNext ==
  ASSUME CmdInv, CmdTypes, WriterInv, WorkersInv, ReadyInv, ReceiveInv, [Next]_vars
  PROVE  CmdInv'
<1>1. Given \subseteq Given' /\ ReceiveInv'
  BY GivenGrows, ReceiveNext
<1>2. SUFFICES ASSUME NEW d \in Conns PROVE Queued(d)' /\ OutputSent(d)'
  BY DEF CmdInv
<1>3. /\ Queued(d) /\ OutputSent(d)
      /\ next_cmd_seq[d] \in Nat \ {0} /\ output[d] \in Seq(Nat)
  BY DEF CmdInv, CmdTypes
<1>4. ASSUME cmd_queue'[d] = cmd_queue[d], next_cmd_seq'[d] = next_cmd_seq[d],
             output'[d] = output[d], dropped'[d] = dropped[d]
      PROVE  Queued(d)' /\ OutputSent(d)'
  <2>1. Queued(d)'
    BY <1>1, <1>3, <1>4 DEF Queued
  <2>2. QED
    BY <1>1, <1>3, <1>4, <2>1, SameOutput
<1>5. CASE UNCHANGED cmdVars
  BY <1>4, <1>5 DEF cmdVars
<1>6. ASSUME NEW w \in Workers, HandleCommand(w)
      PROVE  Queued(d)' /\ OutputSent(d)'
  <2> DEFINE r == Head(ready[w])
  <2>1. UNCHANGED <<next_cmd_seq, output, dropped>>
    BY <1>6 DEF HandleCommand
  <2>2. OutputSent(d)'
    BY <1>1, <1>3, <2>1, SameOutput
  <2>3. r \in Given
    <3>1. ready[w] \in Seq(Given) /\ ready[w] # <<>>
      BY <1>6 DEF ReadyInv, HandleCommand
    <3>2. QED
      BY <3>1
  <2>4. r = Rec(r.conn, r.seq, r.cmd)
    BY <2>3, GivenRecords
  <2>5. \/ cmd_queue' = cmd_queue
        \/ cmd_queue' = [cmd_queue EXCEPT ![r.conn] =
                           [seq \in DOMAIN cmd_queue[r.conn] \cup {r.seq} |->
                              IF seq = r.seq THEN r.cmd ELSE cmd_queue[r.conn][seq]]]
    BY <1>6 DEF HandleCommand
  <2> HIDE DEF r
  <2>6. CASE cmd_queue'[d] = cmd_queue[d]
    BY <1>4, <2>1, <2>6
  <2>7. CASE cmd_queue'[d] # cmd_queue[d]
    <3>1. /\ r.conn = d
          /\ cmd_queue'[d] = [seq \in DOMAIN cmd_queue[d] \cup {r.seq} |->
                                IF seq = r.seq THEN r.cmd ELSE cmd_queue[d][seq]]
      BY <2>5, <2>7 DEF CmdTypes
    <3>2. ASSUME NEW n \in DOMAIN cmd_queue'[d] PROVE Rec(d, n, cmd_queue'[d][n]) \in Given'
      <4>1. CASE n = r.seq
        <5>1. cmd_queue'[d][n] = r.cmd
          BY <3>1, <4>1
        <5>2. QED
          BY <1>1, <2>3, <2>4, <3>1, <4>1, <5>1
      <4>2. CASE n # r.seq
        <5>1. n \in DOMAIN cmd_queue[d] /\ cmd_queue'[d][n] = cmd_queue[d][n]
          BY <3>1, <3>2, <4>2
        <5>2. QED
          BY <1>1, <1>3, <5>1 DEF Queued
      <4>3. QED
        BY <4>1, <4>2
    <3>3. Queued(d)'
      BY <3>2 DEF Queued
    <3>4. QED
      BY <2>2, <3>3
  <2>8. QED
    BY <2>6, <2>7
<1>7. ASSUME NEW w \in Workers, NEW cmd, TakeCommand(w, cmd), at[w].conn \in Conns,
             Given' = Given, at[w].conn # d,
             output'[d] = output[d], dropped'[d] = dropped[d]
      PROVE  Queued(d)' /\ OutputSent(d)'
  BY <1>4, <1>7, TakenTypes
<1>8. ASSUME NEW w \in Workers, NEW cmd, TakeCommand(w, cmd), at[w].conn = d
      PROVE  /\ next_cmd_seq'[d] = next_cmd_seq[d] + 1 /\ Queued(d)'
             /\ Rec(d, next_cmd_seq[d], cmd) \in Given
  <2>1. /\ next_cmd_seq[d] \in DOMAIN cmd_queue[d] /\ cmd_queue[d][next_cmd_seq[d]] = cmd
        /\ cmd_queue' = [cmd_queue EXCEPT ![d] =
                           [seq \in DOMAIN cmd_queue[d] \ {next_cmd_seq[d]} |-> cmd_queue[d][seq]]]
    BY <1>8 DEF TakeCommand
  <2>2. Rec(d, next_cmd_seq[d], cmd) \in Given
    BY <1>3, <2>1 DEF Queued
  <2>3. cmd_queue'[d] = [seq \in DOMAIN cmd_queue[d] \ {next_cmd_seq[d]} |-> cmd_queue[d][seq]]
    BY <2>1 DEF CmdTypes
  <2>4. \A n \in DOMAIN cmd_queue'[d] : n \in DOMAIN cmd_queue[d] /\ cmd_queue'[d][n] = cmd_queue[d][n]
    BY <2>3
  <2>5. Queued(d)'
    BY <1>1, <1>3, <2>4 DEF Queued
  <2>6. QED
    BY <1>8, <2>2, <2>5, TakenTypes
<1>9. ASSUME NEW w \in Workers, ProcessData(w)
      PROVE  Queued(d)' /\ OutputSent(d)'
  <2>1. TakeCommand(w, "data") /\ at[w].conn \in Conns /\ Given' = Given
    BY <1>9, WorkerMoves DEF ProcessData, Given, receiveVars
  <2> DEFINE c == at[w].conn
  <2>2. running[c]
    BY <2>1 DEF TakeCommand
  <2>3. \/ /\ output' = [output EXCEPT ![c] = Append(output[c], next_cmd_seq[c])]
           /\ dropped' = dropped
        \/ /\ dropped' = [dropped EXCEPT ![c] = dropped[c] \cup {next_cmd_seq[c]}]
           /\ output' = output /\ writer[c] = "none"
    BY <1>9 DEF ProcessData
  <2>4. CASE c # d
    <3>1. output'[d] = output[d] /\ dropped'[d] = dropped[d]
      BY <2>3, <2>4 DEF CmdTypes
    <3>2. QED
      BY <1>7, <2>1, <2>4, <3>1
  <2>5. CASE c = d
    <3>1. /\ next_cmd_seq'[d] = next_cmd_seq[d] + 1 /\ Queued(d)'
          /\ Rec(d, next_cmd_seq[d], "data") \in Given
      BY <1>8, <2>1, <2>5
    <3>2. \/ output'[d] = Append(output[d], next_cmd_seq[d]) /\ dropped'[d] = dropped[d]
          \/ /\ output'[d] = output[d] /\ writer[d] = "none"
             /\ dropped'[d] = dropped[d] \cup {next_cmd_seq[d]}
      BY <2>3, <2>5 DEF CmdTypes
    <3>3. writer[d] = "none" => output[d] = <<>>
      BY <2>2, <2>5 DEF WriterInv, Unwritten
    <3>4. OutputSent(d)'
      BY <1>3, <2>1, <3>1, <3>2, <3>3, DataExecuted
    <3>5. QED
      BY <3>1, <3>4
  <2>6. QED
    BY <2>4, <2>5
<1>10. ASSUME NEW w \in Workers, NEW cmd, cmd # "data", TakeCommand(w, cmd), at[w].conn \in Conns,
              UNCHANGED <<receiveVars, output, dropped>>
       PROVE  Queued(d)' /\ OutputSent(d)'
  <2>1. Given' = Given
    BY <1>10 DEF Given, receiveVars
  <2>2. CASE at[w].conn # d
    BY <1>7, <1>10, <2>1, <2>2
  <2>3. CASE at[w].conn = d
    <3>1. /\ next_cmd_seq'[d] = next_cmd_seq[d] + 1 /\ Queued(d)'
          /\ Rec(d, next_cmd_seq[d], cmd) \in Given
      BY <1>8, <1>10, <2>3
    <3>2. OutputSent(d)'
      BY <1>3, <1>10, <2>1, <3>1, OtherExecuted
    <3>3. QED
      BY <3>1, <3>2
  <2>4. QED
    BY <2>2, <2>3
<1>11. ASSUME NEW w \in Workers, ProcessAck(w) PROVE Queued(d)' /\ OutputSent(d)'
  <2>1. TakeCommand(w, "ack") /\ at[w].conn \in Conns /\ UNCHANGED <<receiveVars, output, dropped>>
    BY <1>11, WorkerMoves DEF ProcessAck
  <2>2. QED
    BY <1>10, <2>1
<1>12. ASSUME NEW w \in Workers, ProcessClose(w) PROVE Queued(d)' /\ OutputSent(d)'
  <2>1. TakeCommand(w, "close") /\ at[w].conn \in Conns /\ UNCHANGED <<receiveVars, output, dropped>>
    BY <1>12, WorkerMoves DEF ProcessClose
  <2>2. QED
    BY <1>10, <2>1
<1>13. ASSUME NEW w \in Workers, ProcessEnd(w) \/ Drained(w) \/ DrainFails(w) \/ Stopped(w)
       PROVE  UNCHANGED cmdVars
  BY <1>13 DEF ProcessEnd, Drained, DrainFails, Stopped
<1>14. QED
  BY <1>5, <1>6, <1>9, <1>11, <1>12, <1>13, CmdSteps

LEMMA CmdInvInit == InitDownload => CmdInv
<1>1. SUFFICES ASSUME InitDownload, NEW c \in Conns PROVE Queued(c) /\ OutputSent(c)
  BY DEF CmdInv
<1>2. /\ next_cmd_seq[c] = 1 /\ DOMAIN cmd_queue[c] = {}
      /\ output[c] = <<>> /\ dropped[c] = {}
  BY <1>1 DEF InitDownload, NoCommands
<1>3. Range(<<>>) = {}
  BY DEF Range
<1>4. QED
  BY <1>2, <1>3 DEF Queued, OutputSent, Executed, DataSent, OutputSorted

\* DataSent is what OutputInOrder says was handed over.
LEMMA HandedData ==
  ASSUME ReceiveInv, NEW c \in Conns, next_cmd_seq[c] \in Nat
  PROVE  DataSent(c) = {seq \in Handed(c, {"data"}) : seq < next_cmd_seq[c]}
<1>1. ASSUME NEW n \in DataSent(c) PROVE n \in Handed(c, {"data"}) /\ n < next_cmd_seq[c]
  <2>1. Rec(c, n, "data") \in Given /\ n \in 1 .. (next_cmd_seq[c] - 1)
    BY DEF DataSent
  <2>2. n \in Handed(c, {"data"})
    BY <2>1, RecFields DEF Handed, Given
  <2>3. QED
    BY <2>1, <2>2
<1>2. ASSUME NEW n \in Handed(c, {"data"}), n < next_cmd_seq[c] PROVE n \in DataSent(c)
  <2>1. PICK r \in Given : r.conn = c /\ r.cmd = "data" /\ r.seq = n
    BY DEF Handed, Given
  <2>2. r \in Record /\ r = Rec(c, n, "data")
    BY <2>1, GivenRecords
  <2>3. n \in Nat \ {0}
    BY <2>1, <2>2 DEF Record
  <2>4. QED
    BY <1>2, <2>1, <2>2, <2>3 DEF DataSent
<1>3. QED
  BY <1>1, <1>2

(***************************************************************************)
(* What the application reads is what the server sent, in its order,       *)
(* without a hole and never twice, whatever the workers and the three      *)
(* ways to stop a connection do; only what came before the socket was      *)
(* attached is missing, at the beginning.                                  *)
(***************************************************************************)
THEOREM OutputOrdered == Spec => []OutputInOrder
<1> DEFINE IInv == /\ CmdInv /\ CmdTypes /\ WriterInv /\ StopInv
                   /\ WorkersInv /\ ReadyInv /\ ReceiveInv
<1>1. InitDownload => IInv
  BY CmdInvInit, CmdTypesInit, WriterInit, StopInit, WorkersInit, ReadyInit, ReceiveInit
<1>2. IInv /\ [Next]_vars => IInv'
  BY CmdInvNext, CmdTypesNext, WriterNext, StopNext, WorkersNext, ReadyNext, ReceiveNext
<1>3. IInv => OutputInOrder
  <2>1. SUFFICES ASSUME IInv, NEW c \in Conns PROVE InOrder(c)
    BY DEF OutputInOrder
  <2>2. OutputSent(c) /\ next_cmd_seq[c] \in Nat
    BY <2>1 DEF CmdInv, CmdTypes
  <2>3. QED
    BY <2>1, <2>2, HandedData DEF OutputSent, OutputSorted, InOrder
<1> HIDE DEF IInv
<1>4. QED
  BY <1>1, <1>2, <1>3, PTL DEF Spec
=============================================================================
