---------------------- MODULE TcpConnectionTypeProofs -----------------------
(***************************************************************************)
(* Type correctness of TcpConnection, for any finite number of threads and *)
(* whatever a client does: the types, where the loop thread can be, and    *)
(* room for every message that send() has let in.  From it, which conduct  *)
(* of a client endangers the lifetime of the connection, and which cannot. *)
(***************************************************************************)
EXTENDS TcpConnectionProofs, FiniteSetTheorems, FunctionTheorems

-----------------------------------------------------------------------------
(***************************************************************************)
(* The control state and the interest set.                                 *)
(***************************************************************************)
ControlTypes ==
  /\ state \in {"kConnecting", "kConnected", "kDisconnecting", "kDisconnected"}
  /\ events \subseteq {"IN", "PRI", "OUT"}
  /\ phase \in {"poll", "dispatch", "jobs", "returned"}
  /\ callback \in {"none", "up", "message", "down", "job", "other"}
  /\ revents \subseteq {"close", "error", "read", "write"}
  /\ fault \in Faults

\* No handler, job or call leaves these sets.
LEMMA ControlStep ==
  ASSUME ControlTypes, [Next]_vars
  PROVE  ControlTypes'
<1> USE DEF ControlTypes, conn, interest, loop, iteration, refs, peer, sending, sock,
        calls, ConnectionUnchanged, ThreadUnchanged, PeerUnchanged, Fails, Faults
<1>1. CASE UNCHANGED <<state, events, phase, callback, revents, fault>>
  BY <1>1
<1>2. CASE Establish
  BY <1>2 DEF Establish, ConnectEstablished, EnableRead, SetEvents
<1>p. Reported \subseteq {"close", "error", "read", "write"}
  BY DEF Reported
<1>17. CASE Poll
  BY <1>17, <1>p DEF Poll
<1>3. CASE PollOther \/ OtherHandler \/ BeginHandling \/ EndHandling
           \/ CallbackReturns \/ SwapPendingJobs \/ BatchDone \/ DestroyServer
  <2>1. CASE PollOther
    BY <2>1 DEF PollOther
  <2>2. CASE OtherHandler
    BY <2>2 DEF OtherHandler
  <2>3. CASE BeginHandling
    BY <2>3 DEF BeginHandling
  <2>4. CASE EndHandling
    BY <2>4 DEF EndHandling
  <2>5. CASE CallbackReturns
    BY <2>5 DEF CallbackReturns
  <2>6. CASE SwapPendingJobs
    BY <2>6 DEF SwapPendingJobs
  <2>7. CASE BatchDone
    BY <2>7 DEF BatchDone
  <2>8. CASE DestroyServer
    BY <2>8 DEF DestroyServer
  <2> QED
    BY <1>3, <2>1, <2>2, <2>3, <2>4, <2>5, <2>6, <2>7, <2>8
<1>h. ASSUME HandleClose
      PROVE  /\ state' \in {"kConnecting", "kConnected", "kDisconnecting", "kDisconnected"}
             /\ events' \subseteq {"IN", "PRI", "OUT"}
             /\ callback' \in {"none", "up", "message", "down", "job", "other"}
             /\ fault' \in Faults
  BY <1>h DEF HandleClose, CloseFault, DisableAll, SetEvents, CloseConnection
<1>4. CASE CloseEvent \/ RunForceClose
  <2>1. CASE CloseEvent
    BY <2>1, <1>h DEF CloseEvent, Turn
  <2>2. CASE RunForceClose
    <3>1. UNCHANGED <<phase, revents>>
      BY <2>2 DEF RunForceClose, RunJob
    <3>2. HandleClose \/ UNCHANGED <<state, events, callback, fault>>
      BY <2>2 DEF RunForceClose
    <3> QED
      BY <1>h, <3>1, <3>2
  <2> QED
    BY <1>4, <2>1, <2>2
<1>5. CASE ErrorEvent
  BY <1>5 DEF ErrorEvent, Turn
<1>6. CASE ReadEvent
  BY <1>6, <1>h DEF ReadEvent, Turn, EndOfStream
<1>7. CASE WriteEvent
  BY <1>7 DEF WriteEvent, Turn, OutputDone, DisableWrite, SetEvents
<1>s. ASSUME SendInLoop
      PROVE  events' \subseteq {"IN", "PRI", "OUT"} /\ fault' \in Faults
  BY <1>s DEF SendInLoop, SendIgnored, SendAsserts, SendFails, SendWrites, SendAppends,
     AppendOutput, EnableWrite, SetEvents
<1>8. CASE RunSend \/ UserSend
  BY <1>8, <1>s DEF RunSend, UserSend, RunJob
<1>9. CASE RunShutdown
  BY <1>9 DEF RunShutdown, RunJob
<1>10. ASSUME NEW kind \in CallbackKinds, RunCallback(kind) PROVE ControlTypes'
  BY <1>10 DEF RunCallback, RunJob
<1>r. ASSUME StopReadInLoop \/ StartReadInLoop
      PROVE  events' \subseteq {"IN", "PRI", "OUT"}
  BY <1>r DEF StopReadInLoop, StartReadInLoop, DisableRead, EnableRead, SetEvents
<1>11. ASSUME NEW kind \in {"stopRead", "startRead"}, RunReadJob(kind)
       PROVE  ControlTypes'
  <2>1. UNCHANGED <<state, phase, callback, revents>>
    BY <1>11 DEF RunReadJob, RunJob
  <2>2. fault' \in Faults /\ (events' = events \/ StopReadInLoop \/ StartReadInLoop)
    BY <1>11 DEF RunReadJob
  <2>3. events' \subseteq {"IN", "PRI", "OUT"}
    BY <2>2, <1>r
  <2> QED
    BY <2>1, <2>2, <2>3
<1>12. CASE UserShutdown \/ UserForceClose \/ UserDrop
  <2>1. CASE UserShutdown
    BY <2>1 DEF UserShutdown
  <2>2. CASE UserForceClose
    BY <2>2 DEF UserForceClose
  <2>3. CASE UserDrop
    BY <2>3 DEF UserDrop
  <2> QED
    BY <1>12, <2>1, <2>2, <2>3
<1>13. CASE UserRead
  <2>1. UNCHANGED <<state, phase, callback, revents, fault>>
    BY <1>13 DEF UserRead
  <2>2. StopReadInLoop \/ StartReadInLoop
    BY <1>13 DEF UserRead
  <2>3. events' \subseteq {"IN", "PRI", "OUT"}
    BY <2>2, <1>r
  <2> QED
    BY <2>1, <2>3
<1>14. ASSUME NEW t \in Threads, ThreadCall(t) \/ ThreadStep(t) PROVE ControlTypes'
  <2>1. CASE ThreadSend(t)
    BY <2>1 DEF ThreadSend
  <2>2. CASE ThreadCloses(t)
    BY <2>2 DEF ThreadCloses
  <2>3. CASE ThreadRead(t)
    BY <2>3 DEF ThreadRead
  <2>4. CASE ThreadQueues(t)
    BY <2>4 DEF ThreadQueues
  <2>5. CASE ThreadExchanges(t)
    BY <2>5 DEF ThreadExchanges
  <2> QED
    BY <1>14, <2>1, <2>2, <2>3, <2>4, <2>5 DEF ThreadCall, ThreadStep
<1>15. CASE Peer
  BY <1>15, <1>1 DEF Peer, PeerSends, PeerSendsUrgent, PeerCloses, PeerResets, PeerReads
<1>16. CASE UNCHANGED vars
  BY <1>16, <1>1 DEF vars
<1> QED
  BY <1>2, <1>3, <1>4, <1>5, <1>6, <1>7, <1>8, <1>9, <1>10, <1>11, <1>12, <1>13, <1>14,
     <1>15, <1>16, <1>17 DEF Next, LoopStep, UserCall, Jobs

-----------------------------------------------------------------------------
(***************************************************************************)
(* The number of sends in a queue.                                         *)
(***************************************************************************)

\* A message fewer on its way makes room for a message accepted.
LEMMA RoomArithmetic ==
  ASSUME NEW m \in Nat, NEW max \in Nat, NEW u \in Nat, NEW v \in Nat,
         NEW s \in Nat, NEW p \in Nat,
         u + m * s <= max,
         (v = u /\ p <= s) \/ (v = u + m /\ p + 1 <= s)
  PROVE  v + m * p <= max
<1>1. ASSUME NEW a \in Nat, NEW b \in Nat, a <= b
      PROVE  m * a \in Nat /\ m * a <= m * b /\ m * b \in Nat
  <2>1. PICK d \in Nat : b = a + d
    BY <1>1, b - a \in Nat
  <2>2. m * b = m * a + m * d
    BY <2>1
  <2>3. m * a \in Nat /\ m * d \in Nat
    OBVIOUS
  <2> QED
    BY <2>2, <2>3
<1>2. CASE v = u /\ p <= s
  <2>1. m * p <= m * s /\ m * p \in Nat /\ m * s \in Nat
    BY <1>1, <1>2
  <2> QED
    BY <1>2, <2>1
<1>3. CASE v = u + m /\ p + 1 <= s
  <2>1. m * (p + 1) <= m * s /\ m * (p + 1) = m * p + m /\ m * p \in Nat
        /\ m * s \in Nat
    <3>1. p + 1 \in Nat
      OBVIOUS
    <3>2. m * (p + 1) <= m * s /\ m * s \in Nat
      BY <1>1, <1>3, <3>1
    <3>3. m * (p + 1) = m * p + m /\ m * p \in Nat
      OBVIOUS
    <3> QED
      BY <3>2, <3>3
  <2> QED
    BY <1>3, <2>1
<1> QED
  BY <1>2, <1>3

\* A queue has finitely many sends.
LEMMA SendsFinite ==
  ASSUME NEW q \in Seq(JobKinds)
  PROVE  IsFiniteSet(Sends(q)) /\ Cardinality(Sends(q)) \in Nat
<1>1. Len(q) \in Nat /\ DOMAIN q = 1 .. Len(q)
  BY LenProperties
<1>2. IsFiniteSet(1 .. Len(q))
  BY <1>1, FS_Interval
<1>3. Sends(q) \in SUBSET (1 .. Len(q))
  BY <1>1 DEF Sends
<1> QED
  BY <1>2, <1>3, FS_Subset, FS_CardinalityType

\* An empty queue has none.
LEMMA SendsOfNone == Cardinality(Sends(<<>>)) = 0
<1>1. Sends(<<>>) = {}
  BY DEF Sends
<1> QED
  BY <1>1, FS_EmptySet

\* queueInLoop()
LEMMA SendsOfAppend ==
  ASSUME NEW q \in Seq(JobKinds), NEW job \in JobKinds
  PROVE  /\ Append(q, job) \in Seq(JobKinds)
         /\ Cardinality(Sends(Append(q, job)))
              = Cardinality(Sends(q)) + IF job = "send" THEN 1 ELSE 0
<1> DEFINE n == Len(q) + 1
<1>1. /\ Append(q, job) \in Seq(JobKinds) /\ Len(q) \in Nat
      /\ DOMAIN Append(q, job) = 1 .. n /\ DOMAIN q = 1 .. Len(q)
      /\ \A i \in 1 .. Len(q) : Append(q, job)[i] = q[i]
      /\ Append(q, job)[n] = job
  <2>1. /\ Append(q, job) \in Seq(JobKinds) /\ Len(q) \in Nat
        /\ Len(Append(q, job)) = n
        /\ \A i \in 1 .. Len(q) : Append(q, job)[i] = q[i]
        /\ Append(q, job)[n] = job
    BY AppendProperties, LenProperties
  <2> QED
    BY <2>1, LenProperties
<1>2. Sends(Append(q, job)) = IF job = "send" THEN Sends(q) \cup {n} ELSE Sends(q)
  BY <1>1 DEF Sends
<1>3. n \notin Sends(q)
  BY <1>1 DEF Sends
<1>4. IsFiniteSet(Sends(q)) /\ Cardinality(Sends(q)) \in Nat
  BY SendsFinite
<1> HIDE DEF n
<1>5. Cardinality(Sends(q) \cup {n}) = Cardinality(Sends(q)) + 1
  BY <1>3, <1>4, FS_AddElement
<1>6. CASE job = "send"
  BY <1>1, <1>2, <1>5, <1>6
<1>7. CASE job # "send"
  BY <1>1, <1>2, <1>4, <1>7
<1> QED
  BY <1>6, <1>7

\* doPendingJobs() takes the next job.
LEMMA SendsOfTail ==
  ASSUME NEW q \in Seq(JobKinds), q # <<>>
  PROVE  /\ Tail(q) \in Seq(JobKinds)
         /\ Cardinality(Sends(q))
              = Cardinality(Sends(Tail(q))) + IF Head(q) = "send" THEN 1 ELSE 0
<1> DEFINE T == Sends(Tail(q))  R == Sends(q) \ {1}
<1>1. /\ Tail(q) \in Seq(JobKinds) /\ Len(q) \in Nat \ {0}
      /\ Len(Tail(q)) = Len(q) - 1 /\ Head(q) = q[1]
      /\ DOMAIN q = 1 .. Len(q) /\ DOMAIN Tail(q) = 1 .. Len(q) - 1
      /\ \A i \in 1 .. Len(q) - 1 : Tail(q)[i] = q[i + 1]
  BY HeadTailProperties, LenProperties, EmptySeq
<1>2. /\ IsFiniteSet(Sends(q)) /\ Cardinality(Sends(q)) \in Nat
      /\ IsFiniteSet(T) /\ Cardinality(T) \in Nat
  BY <1>1, SendsFinite
<1>3. ExistsBijection(T, R)
  <2> DEFINE f == [i \in T |-> i + 1]
  <2>1. \A i \in T : i \in Nat /\ i + 1 \in R
    BY <1>1 DEF Sends
  <2>2. \A j \in R : j - 1 \in T /\ j = (j - 1) + 1
    BY <1>1 DEF Sends
  <2>3. f \in [T -> R] /\ \A i, j \in T : f[i] = f[j] => i = j
    BY <2>1
  <2>4. \A j \in R : \E i \in T : f[i] = j
    BY <2>2
  <2> HIDE DEF f, T, R
  <2> QED
    BY <2>3, <2>4, Fun_IsBij DEF ExistsBijection
<1>4. Cardinality(R) = Cardinality(T)
  BY <1>2, <1>3, FS_Bijection
<1>5. Cardinality(R) = IF 1 \in Sends(q) THEN Cardinality(Sends(q)) - 1
                       ELSE Cardinality(Sends(q))
  BY <1>2, FS_RemoveElement
<1>6. 1 \in Sends(q) <=> Head(q) = "send"
  BY <1>1 DEF Sends
<1> QED
  BY <1>1, <1>2, <1>4, <1>5, <1>6

-----------------------------------------------------------------------------
(***************************************************************************)
(* The queue of jobs, the threads, and the room for messages.              *)
(***************************************************************************)
QueueTypes == pendingJobs \in Seq(JobKinds) /\ jobs \in Seq(JobKinds)

ThreadPlaces == {"idle", "send", "shutdown", "forceClose",
                 "shutdown:exchange", "forceClose:exchange"}

ThreadTypes == threadPc \in [Threads -> ThreadPlaces]

\* Every message on its way finds room.
RoomKept == units \in Nat /\ units + MsgLen * SendsPending <= MaxUnits

Accounted == QueueTypes /\ ThreadTypes /\ RoomKept

\* The numbers of sends that SendsPending adds up.
LEMMA CountsTyped ==
  ASSUME QueueTypes
  PROVE  /\ Cardinality(Sends(jobs)) \in Nat /\ Cardinality(Sends(pendingJobs)) \in Nat
         /\ IsFiniteSet(Senders) /\ Cardinality(Senders) \in Nat
         /\ SendsPending \in Nat
<1>1. Senders \in SUBSET Threads
  BY DEF Senders
<1>2. IsFiniteSet(Senders) /\ Cardinality(Senders) \in Nat
  BY <1>1, TcpConnectionAssumption, FS_Subset, FS_CardinalityType
<1>3. Cardinality(Sends(jobs)) \in Nat /\ Cardinality(Sends(pendingJobs)) \in Nat
  BY SendsFinite DEF QueueTypes
<1> QED
  BY <1>2, <1>3 DEF SendsPending

\* A step that accepts a message has taken one off, or found room for one more.
LEMMA RoomStep ==
  ASSUME Accounted, QueueTypes', ThreadTypes', NEW most,
         most = SendsPending \/ (most = SendsPending + 1 /\ RoomForMessage),
         \/ units' = units /\ SendsPending' <= most
         \/ units' = units + MsgLen /\ SendsPending' + 1 <= most
  PROVE  Accounted'
<1>1. /\ MsgLen \in Nat /\ MaxUnits \in Nat /\ units \in Nat
      /\ SendsPending \in Nat /\ most \in Nat
  BY CountsTyped, TcpConnectionAssumption DEF Accounted, RoomKept
<1>2. SendsPending' \in Nat
  <2>1. Cardinality(Sends(jobs')) \in Nat /\ Cardinality(Sends(pendingJobs')) \in Nat
    BY SendsFinite DEF QueueTypes
  <2>2. Senders' \in SUBSET Threads
    BY DEF Senders
  <2>3. Cardinality(Senders') \in Nat
    BY <2>2, TcpConnectionAssumption, FS_Subset, FS_CardinalityType
  <2> QED
    BY <2>1, <2>3 DEF SendsPending
<1>3. units + MsgLen * most <= MaxUnits
  BY DEF Accounted, RoomKept, RoomForMessage
<1>4. units' \in Nat
  BY <1>1
<1> DEFINE p == SendsPending'  v == units'
<1>5. p \in Nat /\ v \in Nat /\ ((v = units /\ p <= most) \/ (v = units + MsgLen /\ p + 1 <= most))
  BY <1>2, <1>4
<1> HIDE DEF p, v
<1>6. v + MsgLen * p <= MaxUnits
  BY <1>1, <1>3, <1>5, RoomArithmetic
<1> QED
  BY <1>4, <1>6 DEF Accounted, RoomKept, p, v

\* A thread goes on in its call.
LEMMA SendersStep ==
  ASSUME QueueTypes, ThreadTypes, NEW t \in Threads, NEW place \in ThreadPlaces,
         GoTo(t, place)
  PROVE  /\ ThreadTypes'
         /\ Cardinality(Senders') <= Cardinality(Senders) + 1
         /\ place # "send" => Cardinality(Senders') <= Cardinality(Senders)
         /\ place # "send" /\ threadPc[t] = "send"
              => Cardinality(Senders') = Cardinality(Senders) - 1
<1>1. ThreadTypes'
  BY DEF ThreadTypes, GoTo
<1>2. Senders' = IF place = "send" THEN Senders \cup {t} ELSE Senders \ {t}
  BY DEF ThreadTypes, GoTo, Senders
<1>3. IsFiniteSet(Senders) /\ Cardinality(Senders) \in Nat
  BY CountsTyped
<1>4. t \in Senders <=> threadPc[t] = "send"
  BY DEF Senders
<1>5. CASE place = "send"
  <2>1. Cardinality(Senders \cup {t})
          = IF t \in Senders THEN Cardinality(Senders) ELSE Cardinality(Senders) + 1
    BY <1>3, FS_AddElement
  <2> QED
    BY <1>1, <1>2, <1>3, <1>5, <2>1
<1>6. CASE place # "send"
  <2>1. Cardinality(Senders \ {t})
          = IF t \in Senders THEN Cardinality(Senders) - 1 ELSE Cardinality(Senders)
    BY <1>3, FS_RemoveElement
  <2> QED
    BY <1>1, <1>2, <1>3, <1>4, <1>6, <2>1
<1> QED
  BY <1>5, <1>6

\* queueInLoop() of a user callback.
LEMMA CallbackQueued ==
  ASSUME QueueTypes, NEW cb \in CallbackKinds, NEW due, QueueCallback(cb, due)
  PROVE  /\ pendingJobs' \in Seq(JobKinds)
         /\ Cardinality(Sends(pendingJobs')) = Cardinality(Sends(pendingJobs))
<1>1. cb \in JobKinds /\ cb # "send"
  BY DEF CallbackKinds, JobKinds
<1>2. /\ Append(pendingJobs, cb) \in Seq(JobKinds)
      /\ Cardinality(Sends(Append(pendingJobs, cb)))
           = Cardinality(Sends(pendingJobs)) + IF cb = "send" THEN 1 ELSE 0
  BY <1>1, SendsOfAppend DEF QueueTypes
<1>3. Cardinality(Sends(pendingJobs)) \in Nat
  BY CountsTyped
<1>4. pendingJobs' = pendingJobs \/ pendingJobs' = Append(pendingJobs, cb)
  BY DEF QueueCallback
<1>5. CASE pendingJobs' = pendingJobs
  BY <1>5 DEF QueueTypes
<1>6. CASE pendingJobs' = Append(pendingJobs, cb)
  BY <1>1, <1>2, <1>3, <1>6
<1> QED
  BY <1>4, <1>5, <1>6

\* sendInLoop() accepts one message or none.
LEMMA SendQueues ==
  ASSUME QueueTypes, SendInLoop
  PROVE  /\ pendingJobs' \in Seq(JobKinds)
         /\ Cardinality(Sends(pendingJobs')) = Cardinality(Sends(pendingJobs))
         /\ units' = units \/ units' = units + MsgLen
<1>1. CASE pendingJobs' = pendingJobs /\ units' = units
  BY <1>1 DEF QueueTypes
<1>2. ASSUME NEW cb \in CallbackKinds, NEW due, QueueCallback(cb, due),
             units' = units + MsgLen
      PROVE  /\ pendingJobs' \in Seq(JobKinds)
             /\ Cardinality(Sends(pendingJobs')) = Cardinality(Sends(pendingJobs))
             /\ units' = units \/ units' = units + MsgLen
  BY <1>2, CallbackQueued
<1>3. "writeComplete" \in CallbackKinds /\ "highWater" \in CallbackKinds
  BY DEF CallbackKinds
<1>4. CASE SendWrites
  <2>1. /\ units' = units + MsgLen
        /\ \/ \E rest : QueueCallback("highWater", CrossesMark(Len(rest)))
           \/ QueueCallback("writeComplete", TRUE)
    BY <1>4 DEF SendWrites, AppendOutput
  <2> QED
    BY <1>2, <1>3, <2>1
<1>5. CASE SendAppends
  <2>1. /\ units' = units + MsgLen
        /\ QueueCallback("highWater", CrossesMark(Len(Message)))
    BY <1>5 DEF SendAppends, AppendOutput
  <2> QED
    BY <1>2, <1>3, <2>1
<1> QED
  BY <1>1, <1>4, <1>5 DEF SendInLoop, SendIgnored, SendAsserts, SendFails

\* Steps that touch neither jobs nor calls of send().
LEMMA CountsUntouched ==
  ASSUME Accounted, UNCHANGED <<jobs, pendingJobs, threadPc, units>>
  PROVE  Accounted'
BY DEF Accounted, QueueTypes, ThreadTypes, RoomKept, SendsPending, Sends, Senders

\* The loop takes a job; if it is a send, a message is accepted.
LEMMA JobTaken ==
  ASSUME Accounted, NEW kind, RunJob(kind), UNCHANGED threadPc,
         pendingJobs' \in Seq(JobKinds),
         Cardinality(Sends(pendingJobs')) = Cardinality(Sends(pendingJobs)),
         units' = units \/ (kind = "send" /\ units' = units + MsgLen)
  PROVE  Accounted'
<1>1. jobs \in Seq(JobKinds) /\ jobs # <<>> /\ jobs' = Tail(jobs) /\ Head(jobs) = kind
  BY DEF RunJob, Accounted, QueueTypes
<1>2. /\ jobs' \in Seq(JobKinds)
      /\ Cardinality(Sends(jobs))
           = Cardinality(Sends(jobs')) + IF kind = "send" THEN 1 ELSE 0
  BY <1>1, SendsOfTail
<1>3. QueueTypes' /\ ThreadTypes' /\ Senders' = Senders
  BY <1>2 DEF Accounted, QueueTypes, ThreadTypes, Senders
<1>4. /\ Cardinality(Sends(jobs)) \in Nat /\ Cardinality(Sends(pendingJobs)) \in Nat
      /\ Cardinality(Senders) \in Nat /\ Cardinality(Sends(jobs')) \in Nat
  BY <1>2, CountsTyped, SendsFinite DEF Accounted
<1>5. \/ units' = units /\ SendsPending' <= SendsPending
      \/ units' = units + MsgLen /\ SendsPending' + 1 <= SendsPending
  BY <1>2, <1>3, <1>4 DEF SendsPending
<1> QED
  BY <1>3, <1>5, RoomStep

\* A job is queued by the loop thread or by another one that keeps its place.
LEMMA JobQueued ==
  ASSUME Accounted, NEW job \in JobKinds \ {"send"},
         pendingJobs' = Append(pendingJobs, job), UNCHANGED <<jobs, threadPc, units>>
  PROVE  Accounted'
<1>1. /\ pendingJobs' \in Seq(JobKinds)
      /\ Cardinality(Sends(pendingJobs')) = Cardinality(Sends(pendingJobs)) + 0
  BY SendsOfAppend DEF Accounted, QueueTypes
<1>2. /\ Cardinality(Sends(jobs)) \in Nat /\ Cardinality(Sends(pendingJobs)) \in Nat
      /\ Cardinality(Senders) \in Nat
  BY CountsTyped DEF Accounted
<1>3. QueueTypes' /\ ThreadTypes'
  BY <1>1 DEF Accounted, QueueTypes, ThreadTypes
<1>4. SendsPending' <= SendsPending
  <2>1. Senders' = Senders
    BY DEF Senders
  <2> QED
    BY <1>1, <1>2, <2>1 DEF SendsPending
<1> QED
  BY <1>3, <1>4, RoomStep

\* Every step of the program keeps the account of the messages.
LEMMA AccountedStep ==
  ASSUME Accounted, [Next]_vars
  PROVE  Accounted'
<1> USE DEF conn, interest, loop, iteration, refs, peer, sending, sock, calls,
        ConnectionUnchanged, ThreadUnchanged, PeerUnchanged
<1>0. /\ pendingJobs \in Seq(JobKinds) /\ jobs \in Seq(JobKinds)
      /\ QueueTypes /\ ThreadTypes
      /\ Cardinality(Sends(jobs)) \in Nat /\ Cardinality(Sends(pendingJobs)) \in Nat
      /\ Cardinality(Senders) \in Nat /\ SendsPending \in Nat
  BY CountsTyped DEF Accounted, QueueTypes
<1>1. CASE Establish \/ Poll \/ PollOther \/ OtherHandler \/ BeginHandling
  BY <1>1, CountsUntouched DEF Establish, Poll, PollOther, OtherHandler, BeginHandling
<1>2. CASE CloseEvent \/ ErrorEvent \/ ReadEvent
  BY <1>2, CountsUntouched DEF CloseEvent, ErrorEvent, ReadEvent, Turn
<1>3. CASE WriteEvent
  <2>1. UNCHANGED <<jobs, threadPc, units>>
    BY <1>3 DEF WriteEvent, Turn
  <2>2. pendingJobs' = pendingJobs \/ QueueCallback("writeComplete", TRUE)
    BY <1>3 DEF WriteEvent, OutputDone
  <2>3. \/ pendingJobs' = pendingJobs
        \/ pendingJobs' = Append(pendingJobs, "writeComplete")
    BY <2>2 DEF QueueCallback
  <2>4. "writeComplete" \in JobKinds \ {"send"}
    BY DEF JobKinds
  <2> QED
    BY <2>1, <2>3, <2>4, CountsUntouched, JobQueued
<1>4. CASE EndHandling \/ CallbackReturns \/ BatchDone \/ DestroyServer
  BY <1>4, CountsUntouched DEF EndHandling, CallbackReturns, BatchDone, DestroyServer
<1>5. CASE SwapPendingJobs
  <2>1. jobs' = pendingJobs /\ pendingJobs' = <<>> /\ UNCHANGED <<threadPc, units>>
    BY <1>5 DEF SwapPendingJobs
  <2>2. QueueTypes' /\ ThreadTypes' /\ Senders' = Senders
    BY <1>0, <2>1 DEF QueueTypes, ThreadTypes, Senders
  <2>3. SendsPending' <= SendsPending
    BY <1>0, <2>1, <2>2, SendsOfNone DEF SendsPending
  <2> QED
    BY <2>1, <2>2, <2>3, RoomStep
<1>6. CASE RunSend
  <2>1. RunJob("send") /\ SendInLoop /\ UNCHANGED threadPc
    BY <1>6 DEF RunSend
  <2> QED
    BY <1>0, <2>1, SendQueues, JobTaken
<1>7. ASSUME NEW kind, RunJob(kind), UNCHANGED calls PROVE Accounted'
  BY <1>0, <1>7, JobTaken
<1>8. CASE RunShutdown \/ RunForceClose
  BY <1>7, <1>8 DEF RunShutdown, RunForceClose
<1>9. ASSUME NEW kind, RunCallback(kind) \/ RunReadJob(kind) PROVE Accounted'
  BY <1>7, <1>9 DEF RunCallback, RunReadJob
<1>10. CASE UserSend
  <2>1. SendInLoop /\ RoomForMessage /\ UNCHANGED <<jobs, threadPc>>
    BY <1>10 DEF UserSend
  <2>2. /\ pendingJobs' \in Seq(JobKinds)
        /\ Cardinality(Sends(pendingJobs')) = Cardinality(Sends(pendingJobs))
        /\ units' = units \/ units' = units + MsgLen
    BY <1>0, <2>1, SendQueues
  <2>3. QueueTypes' /\ ThreadTypes'
    BY <1>0, <2>1, <2>2 DEF QueueTypes, ThreadTypes
  <2>4. SendsPending' = SendsPending
    BY <1>0, <2>1, <2>2 DEF SendsPending, Sends, Senders
  <2> DEFINE most == SendsPending + 1
  <2>5. \/ units' = units /\ SendsPending' <= most
        \/ units' = units + MsgLen /\ SendsPending' + 1 <= most
    BY <1>0, <2>2, <2>4
  <2> QED
    BY <2>1, <2>3, <2>5, RoomStep
<1>11. CASE UserForceClose
  <2>1. "forceClose" \in JobKinds \ {"send"}
    BY DEF JobKinds
  <2> QED
    BY <1>11, <2>1, JobQueued DEF UserForceClose
<1>12. CASE UserShutdown \/ UserRead \/ UserDrop
  BY <1>12, CountsUntouched DEF UserShutdown, UserRead, UserDrop
<1>13. ASSUME NEW t \in Threads, ThreadCall(t) \/ ThreadStep(t) PROVE Accounted'
  <2>1. CASE ThreadSend(t)
    <3>1. /\ GoTo(t, "send") /\ RoomForMessage /\ UNCHANGED <<jobs, pendingJobs, units>>
      BY <2>1 DEF ThreadSend
    <3>2. ThreadTypes' /\ Cardinality(Senders') <= Cardinality(Senders) + 1
      BY <1>0, <3>1, SendersStep DEF ThreadPlaces
    <3>3. QueueTypes' /\ Cardinality(Senders') \in Nat
      <4>1. Senders' \in SUBSET Threads
        BY DEF Senders
      <4> QED
        BY <1>0, <3>1, <4>1, TcpConnectionAssumption, FS_Subset, FS_CardinalityType
           DEF QueueTypes
    <3> DEFINE most == SendsPending + 1
    <3>4. SendsPending' <= most
      BY <1>0, <3>1, <3>2, <3>3 DEF SendsPending, Sends
    <3> QED
      BY <3>1, <3>2, <3>3, <3>4, RoomStep
  <2>2. CASE ThreadQueues(t)
    <3>1. /\ threadPc[t] \in {"send", "shutdown", "forceClose"}
          /\ pendingJobs' = Append(pendingJobs, threadPc[t]) /\ GoTo(t, "idle")
          /\ UNCHANGED <<jobs, units>>
      BY <2>2 DEF ThreadQueues
    <3>2. threadPc[t] \in JobKinds
      BY <3>1 DEF JobKinds
    <3>3. /\ pendingJobs' \in Seq(JobKinds)
          /\ Cardinality(Sends(pendingJobs'))
               = Cardinality(Sends(pendingJobs)) + IF threadPc[t] = "send" THEN 1 ELSE 0
      BY <1>0, <3>1, <3>2, SendsOfAppend
    <3>4. /\ ThreadTypes' /\ Cardinality(Senders') <= Cardinality(Senders)
          /\ threadPc[t] = "send" => Cardinality(Senders') = Cardinality(Senders) - 1
      BY <1>0, <3>1, SendersStep DEF ThreadPlaces
    <3>5. QueueTypes'
      BY <1>0, <3>1, <3>3 DEF QueueTypes
    <3>n. Cardinality(Senders') \in Nat
      <4>1. Senders' \in SUBSET Threads
        BY DEF Senders
      <4> QED
        BY <4>1, TcpConnectionAssumption, FS_Subset, FS_CardinalityType
    <3>6. SendsPending' <= SendsPending
      <4>1. CASE threadPc[t] = "send"
        BY <1>0, <3>1, <3>3, <3>4, <3>n, <4>1 DEF SendsPending
      <4>2. CASE threadPc[t] # "send"
        BY <1>0, <3>1, <3>3, <3>4, <3>n, <4>2 DEF SendsPending
      <4> QED
        BY <4>1, <4>2
    <3> QED
      BY <3>1, <3>4, <3>5, <3>6, RoomStep
  <2>3. CASE ThreadRead(t)
    <3>1. {"stopRead", "startRead"} \subseteq JobKinds \ {"send"}
      BY DEF JobKinds
    <3>2. PICK kind \in {"stopRead", "startRead"} :
            pendingJobs' = Append(pendingJobs, kind)
      BY <2>3 DEF ThreadRead
    <3> QED
      BY <2>3, <3>1, <3>2, JobQueued DEF ThreadRead
  <2>4. CASE ThreadCloses(t) \/ ThreadExchanges(t)
    <3>1. UNCHANGED <<jobs, pendingJobs, units>>
      BY <2>4 DEF ThreadCloses, ThreadExchanges
    <3>2. \/ threadPc' = threadPc
          \/ \E place \in ThreadPlaces \ {"send"} : GoTo(t, place)
      BY <2>4 DEF ThreadCloses, ThreadExchanges, ThreadPlaces
    <3>3. ASSUME NEW place \in ThreadPlaces \ {"send"}, GoTo(t, place)
          PROVE  Accounted'
      <4>1. ThreadTypes' /\ Cardinality(Senders') <= Cardinality(Senders)
        BY <1>0, <3>3, SendersStep
      <4>2. QueueTypes'
        BY <1>0, <3>1 DEF QueueTypes
      <4>n. Cardinality(Senders') \in Nat
        <5>1. Senders' \in SUBSET Threads
          BY DEF Senders
        <5> QED
          BY <5>1, TcpConnectionAssumption, FS_Subset, FS_CardinalityType
      <4>3. SendsPending' <= SendsPending
        BY <1>0, <3>1, <4>1, <4>n DEF SendsPending, Sends
      <4> QED
        BY <3>1, <4>1, <4>2, <4>3, RoomStep
    <3> QED
      BY <3>1, <3>2, <3>3, CountsUntouched
  <2> QED
    BY <1>13, <2>1, <2>2, <2>3, <2>4 DEF ThreadCall, ThreadStep
<1>14. CASE Peer
  BY <1>14, CountsUntouched DEF Peer, PeerSends, PeerSendsUrgent, PeerCloses,
     PeerResets, PeerReads
<1>15. CASE UNCHANGED vars
  BY <1>15, CountsUntouched DEF vars
<1> QED
  BY <1>1, <1>2, <1>3, <1>4, <1>5, <1>6, <1>8, <1>9, <1>10, <1>11, <1>12, <1>13, <1>14,
     <1>15 DEF Next, LoopStep, UserCall, Jobs

-----------------------------------------------------------------------------
(***************************************************************************)
(* The flags of the loop and of the socket.                                *)
(***************************************************************************)
LoopFlags ==
  /\ polling \in BOOLEAN /\ handling \in BOOLEAN /\ other \in BOOLEAN
  /\ serverRef \in BOOLEAN /\ userRef \in BOOLEAN /\ batchRef \in BOOLEAN

PhaseTypes ==
  /\ (revents # {} \/ handling \/ other => phase = "dispatch")
  /\ (jobs # <<>> \/ batchRef => phase = "jobs")

SocketFlags ==
  /\ rcv \in BOOLEAN /\ urg \in BOOLEAN /\ fin \in BOOLEAN /\ rst \in BOOLEAN
  /\ sockErr \in BOOLEAN /\ writable \in BOOLEAN /\ shutWr \in BOOLEAN

\* Every call of the client, another thread or the peer leaves the loop alone.
LEMMA OutsideLoop ==
  ASSUME UserCall \/ Peer \/ UNCHANGED vars
           \/ \E t \in Threads : ThreadCall(t) \/ ThreadStep(t)
  PROVE  UNCHANGED <<phase, handling, revents, other, jobs, batchRef>>
<1> USE DEF loop, iteration, vars
<1>1. CASE UserCall
  BY <1>1 DEF UserCall, UserSend, UserShutdown, UserForceClose, UserRead, UserDrop
<1>2. CASE \E t \in Threads : ThreadCall(t) \/ ThreadStep(t)
  BY <1>2 DEF ThreadCall, ThreadStep, ThreadSend, ThreadCloses, ThreadRead,
     ThreadQueues, ThreadExchanges, ThreadUnchanged
<1>3. CASE Peer
  BY <1>3 DEF Peer, PeerSends, PeerSendsUrgent, PeerCloses, PeerResets, PeerReads,
     PeerUnchanged
<1> QED
  BY <1>1, <1>2, <1>3

\* Where the loop is.
LEMMA PhaseStep ==
  ASSUME PhaseTypes, [Next]_vars
  PROVE  PhaseTypes'
<1> USE DEF loop, iteration, At
<1>1. CASE UNCHANGED <<phase, handling, revents, other, jobs, batchRef>>
  BY <1>1 DEF PhaseTypes
<1>2. CASE Establish \/ CallbackReturns
  BY <1>1, <1>2 DEF Establish, CallbackReturns
<1>3. CASE Poll \/ PollOther
  BY <1>3 DEF Poll, PollOther, PhaseTypes
<1>4. CASE OtherHandler \/ BeginHandling \/ EndHandling
  <2>1. CASE OtherHandler
    BY <2>1 DEF OtherHandler, PhaseTypes
  <2>2. CASE BeginHandling
    BY <2>2 DEF BeginHandling, PhaseTypes
  <2>3. CASE EndHandling
    BY <2>3 DEF EndHandling, PhaseTypes
  <2> QED
    BY <1>4, <2>1, <2>2, <2>3
<1>5. CASE CloseEvent \/ ErrorEvent \/ ReadEvent \/ WriteEvent
  <2>1. PICK cb, before : Turn(cb, before)
    BY <1>5 DEF CloseEvent, ErrorEvent, ReadEvent, WriteEvent
  <2> QED
    BY <2>1 DEF Turn, PhaseTypes
<1>6. CASE SwapPendingJobs
  BY <1>6 DEF SwapPendingJobs, PhaseTypes
<1>7. CASE Jobs
  <2>1. PICK kind : RunJob(kind)
    BY <1>7 DEF Jobs, RunSend, RunShutdown, RunForceClose, RunCallback, RunReadJob
  <2> QED
    BY <2>1 DEF RunJob, PhaseTypes
<1>8. CASE BatchDone \/ DestroyServer
  BY <1>8 DEF BatchDone, DestroyBatch, DestroyServer, PhaseTypes
<1> QED
  BY <1>1, <1>2, <1>3, <1>4, <1>5, <1>6, <1>7, <1>8, OutsideLoop DEF Next, LoopStep

\* Channel::update() sets the flag one way or the other.
LEMMA PollingTyped ==
  ASSUME NEW ev, SetEvents(ev)
  PROVE  polling' \in BOOLEAN
BY DEF SetEvents

\* handleClose() and the flags.
LEMMA CloseFlags ==
  ASSUME polling \in BOOLEAN, serverRef \in BOOLEAN, HandleClose
  PROVE  polling' \in BOOLEAN /\ serverRef' \in BOOLEAN
<1>1. CASE UNCHANGED <<conn, serverRef>>
  BY <1>1 DEF conn, interest
<1>2. CASE DisableAll /\ CloseConnection
  BY <1>2, PollingTyped DEF DisableAll, CloseConnection
<1> QED
  BY <1>1, <1>2 DEF HandleClose

\* sendInLoop() and polling.
LEMMA SendFlags ==
  ASSUME polling \in BOOLEAN, SendInLoop
  PROVE  polling' \in BOOLEAN
<1>1. CASE UNCHANGED interest
  BY <1>1 DEF interest
<1>2. CASE EnableWrite
  BY <1>2, PollingTyped DEF EnableWrite
<1> QED
  BY <1>1, <1>2 DEF SendInLoop, SendIgnored, SendAsserts, SendFails, SendWrites,
     SendAppends, AppendOutput

\* stopRead(), startRead() and polling.
LEMMA ReadFlags ==
  ASSUME polling \in BOOLEAN, StopReadInLoop \/ StartReadInLoop
  PROVE  polling' \in BOOLEAN
<1>1. CASE UNCHANGED interest
  BY <1>1 DEF interest
<1>2. CASE DisableRead \/ EnableRead
  BY <1>2, PollingTyped DEF DisableRead, EnableRead
<1> QED
  BY <1>1, <1>2 DEF StopReadInLoop, StartReadInLoop

\* The flags of the channel, the loop and the references.
LEMMA LoopFlagsStep ==
  ASSUME LoopFlags, [Next]_vars
  PROVE  LoopFlags'
<1> USE DEF conn, interest, loop, iteration, refs, ConnectionUnchanged, LoopFlags
<1>0. CASE UNCHANGED <<polling, handling, other, serverRef, userRef, batchRef>>
  BY <1>0
<1>1. CASE Establish
  <2>1. polling' \in BOOLEAN
    BY <1>1, PollingTyped DEF Establish, ConnectEstablished, EnableRead
  <2> QED
    BY <1>1, <2>1 DEF Establish
<1>2. CASE Poll
  BY <1>2 DEF Poll
<1>3. CASE PollOther \/ OtherHandler
  BY <1>3 DEF PollOther, OtherHandler
<1>4. CASE BeginHandling
  BY <1>4 DEF BeginHandling
<1>5. CASE EndHandling \/ CallbackReturns
  BY <1>5 DEF EndHandling, CallbackReturns
<1>6. CASE BatchDone
  BY <1>6 DEF BatchDone, DestroyBatch
<1>7. CASE DestroyServer
  BY <1>7 DEF DestroyServer
<1>8. CASE SwapPendingJobs
  BY <1>8, <1>0 DEF SwapPendingJobs
<1>9. ASSUME UNCHANGED <<handling, other, userRef>>, batchRef' \in BOOLEAN,
             HandleClose \/ UNCHANGED <<polling, serverRef>>
      PROVE  LoopFlags'
  BY <1>9, CloseFlags
<1>10. CASE CloseEvent \/ ErrorEvent
  BY <1>9, <1>10 DEF CloseEvent, ErrorEvent, Turn
<1>11. CASE ReadEvent
  BY <1>9, <1>11 DEF ReadEvent, Turn, EndOfStream
<1>12. CASE WriteEvent
  <2>1. UNCHANGED <<handling, other, serverRef, userRef, batchRef>>
    BY <1>12 DEF WriteEvent, Turn
  <2>2. polling' = polling \/ DisableWrite
    BY <1>12 DEF WriteEvent, OutputDone
  <2>3. polling' \in BOOLEAN
    BY <2>2, PollingTyped DEF DisableWrite
  <2> QED
    BY <2>1, <2>3
<1>13. ASSUME NEW kind, RunJob(kind)
       PROVE  batchRef' \in BOOLEAN /\ UNCHANGED <<handling, other>>
  BY <1>13 DEF RunJob
<1>14. CASE RunForceClose
  BY <1>9, <1>13, <1>14 DEF RunForceClose
<1>15. CASE RunSend
  BY <1>13, <1>15, SendFlags DEF RunSend
<1>16. CASE RunShutdown
  BY <1>9, <1>13, <1>16 DEF RunShutdown
<1>17. ASSUME NEW kind, RunCallback(kind) PROVE LoopFlags'
  BY <1>9, <1>13, <1>17 DEF RunCallback
<1>18. ASSUME NEW kind, RunReadJob(kind) PROVE LoopFlags'
  <2>1. batchRef' \in BOOLEAN /\ UNCHANGED <<handling, other, serverRef, userRef>>
    BY <1>13, <1>18 DEF RunReadJob
  <2>2. polling' = polling \/ StopReadInLoop \/ StartReadInLoop
    BY <1>18 DEF RunReadJob
  <2>3. polling' \in BOOLEAN
    BY <2>2, ReadFlags
  <2> QED
    BY <2>1, <2>3
<1>19. CASE UserSend
  BY <1>19, SendFlags DEF UserSend
<1>20. CASE UserRead
  <2>1. UNCHANGED <<handling, other, serverRef, userRef, batchRef>>
    BY <1>20 DEF UserRead
  <2>2. polling' \in BOOLEAN
    BY <1>20, ReadFlags DEF UserRead
  <2> QED
    BY <2>1, <2>2
<1>21. CASE UserShutdown \/ UserForceClose
  BY <1>0, <1>21 DEF UserShutdown, UserForceClose
<1>22. CASE UserDrop
  BY <1>22 DEF UserDrop
<1>23. ASSUME NEW t \in Threads, ThreadCall(t) \/ ThreadStep(t) PROVE LoopFlags'
  BY <1>0, <1>23 DEF ThreadCall, ThreadStep, ThreadSend, ThreadCloses, ThreadRead,
     ThreadQueues, ThreadExchanges, ThreadUnchanged
<1>24. CASE Peer \/ UNCHANGED vars
  BY <1>0, <1>24 DEF Peer, PeerSends, PeerSendsUrgent, PeerCloses, PeerResets, PeerReads,
     PeerUnchanged, vars
<1> QED
  BY <1>1, <1>2, <1>3, <1>4, <1>5, <1>6, <1>7, <1>8, <1>10, <1>11, <1>12, <1>14, <1>15,
     <1>16, <1>17, <1>18, <1>19, <1>20, <1>21, <1>22, <1>23, <1>24
     DEF Next, LoopStep, UserCall, Jobs

\* The flags of the socket.
LEMMA SocketFlagsStep ==
  ASSUME SocketFlags, [Next]_vars
  PROVE  SocketFlags'
<1> USE DEF sock, sending, peer, ConnectionUnchanged, ThreadUnchanged, PeerUnchanged,
        SocketFlags
<1>1. CASE UNCHANGED <<sock, peer>>
  BY <1>1
<1>2. CASE Establish \/ Poll \/ PollOther \/ OtherHandler \/ BeginHandling
           \/ EndHandling \/ CallbackReturns \/ SwapPendingJobs
  BY <1>1, <1>2 DEF Establish, Poll, PollOther, OtherHandler, BeginHandling, EndHandling,
     CallbackReturns, SwapPendingJobs
<1>3. CASE BatchDone \/ DestroyServer \/ CloseEvent \/ RunForceClose
  BY <1>1, <1>3 DEF BatchDone, DestroyServer, CloseEvent, RunForceClose
<1>4. CASE ErrorEvent
  BY <1>4 DEF ErrorEvent
<1>5. CASE ReadEvent
  <2>1. UNCHANGED <<fin, rst, sending>>
    BY <1>5 DEF ReadEvent
  <2>2. sockErr' = sockErr \/ sockErr' = FALSE
    BY <1>5 DEF ReadEvent, EndOfStream
  <2>3. urg' \in {FALSE, urg} /\ rcv' \in {FALSE, rcv, urg'}
    BY <1>5 DEF ReadEvent
  <2> QED
    BY <2>1, <2>2, <2>3
<1>6. ASSUME NEW data, NEW n, WriteTakes(data, n)
      PROVE  writable' \in BOOLEAN /\ UNCHANGED sockErr
  BY <1>6 DEF WriteTakes
<1>7. CASE WriteEvent
  <2>1. UNCHANGED peer
    BY <1>7 DEF WriteEvent
  <2>2. CASE UNCHANGED sock
    BY <1>1, <2>1, <2>2
  <2>3. CASE sockErr' = FALSE /\ UNCHANGED sending
    BY <2>1, <2>3
  <2>4. CASE (\E n : WriteTakes(outputBuffer, n)) /\ shutWr' \in BOOLEAN
    BY <1>6, <2>1, <2>4
  <2>5. ShutdownWaits \in BOOLEAN
    BY DEF ShutdownWaits
  <2> QED
    BY <1>7, <2>2, <2>3, <2>4, <2>5 DEF WriteEvent, OutputDone
<1>8. ASSUME SendInLoop, UNCHANGED peer PROVE SocketFlags'
  <2>1. CASE SendWrites
    BY <1>6, <1>8, <2>1 DEF SendWrites
  <2>2. CASE SendFails
    BY <1>8, <2>2 DEF SendFails
  <2>3. CASE UNCHANGED sock
    BY <1>1, <1>8, <2>3
  <2> QED
    BY <1>8, <2>1, <2>2, <2>3 DEF SendInLoop, SendIgnored, SendAsserts, SendAppends
<1>9. CASE RunSend \/ UserSend
  BY <1>8, <1>9 DEF RunSend, UserSend
<1>10. ASSUME ShutdownInLoop, UNCHANGED peer PROVE SocketFlags'
  <2>1. (shutWr \/ MaySendFin) \in BOOLEAN
    OBVIOUS
  <2> QED
    BY <1>10, <2>1 DEF ShutdownInLoop
<1>11. CASE RunShutdown
  BY <1>10, <1>11 DEF RunShutdown
<1>12. CASE UserShutdown
  BY <1>1, <1>10, <1>12 DEF UserShutdown
<1>13. ASSUME NEW kind, RunCallback(kind) \/ RunReadJob(kind) PROVE SocketFlags'
  BY <1>1, <1>13 DEF RunCallback, RunReadJob
<1>14. CASE UserForceClose \/ UserRead \/ UserDrop
  BY <1>1, <1>14 DEF UserForceClose, UserRead, UserDrop
<1>15. ASSUME NEW t \in Threads, ThreadCall(t) \/ ThreadStep(t) PROVE SocketFlags'
  BY <1>1, <1>15 DEF ThreadCall, ThreadStep, ThreadSend, ThreadCloses, ThreadRead,
     ThreadQueues, ThreadExchanges
<1>16. CASE Peer
  BY <1>16 DEF Peer, PeerSends, PeerSendsUrgent, PeerCloses, PeerResets, PeerReads
<1>17. CASE UNCHANGED vars
  BY <1>1, <1>17 DEF vars
<1> QED
  BY <1>2, <1>3, <1>4, <1>5, <1>7, <1>9, <1>11, <1>12, <1>13, <1>14, <1>15, <1>16, <1>17
     DEF Next, LoopStep, UserCall, Jobs

-----------------------------------------------------------------------------
(***************************************************************************)
(* Type correctness.                                                       *)
(***************************************************************************)

\* A sequence of elements of T.
LEMMA SeqOf ==
  ASSUME NEW S, NEW T, NEW q \in Seq(S), \A i \in 1 .. Len(q) : q[i] \in T
  PROVE  q \in Seq(T)
<1>1. Len(q) \in Nat /\ q \in [1 .. Len(q) -> S]
  BY LenProperties
<1>2. q \in [1 .. Len(q) -> T]
  BY <1>1
<1> QED
  BY <1>1, <1>2, SeqDef

\* The units on the wire and in the buffer are numbers of accepted ones.
LEMMA OutputTyped ==
  ASSUME OutputSound, units <= MaxUnits
  PROVE  outputBuffer \in Seq(1 .. MaxUnits) /\ wire \in Seq(1 .. MaxUnits)
<1> DEFINE w == wire  b == outputBuffer
<1>1. w \in Seq(Nat) /\ b \in Seq(Nat) /\ units \in Nat /\ MaxUnits \in Nat
  BY TcpConnectionAssumption DEF OutputSound
<1>2. w \o b = [i \in 1 .. units |-> i]
  BY DEF OutputSound, BytesInOrder
<1> HIDE DEF w, b
<1>3. /\ Len(w) \in Nat /\ Len(b) \in Nat /\ Len(w \o b) = Len(w) + Len(b)
      /\ \A i \in 1 .. Len(w) : (w \o b)[i] = w[i]
      /\ \A i \in 1 .. Len(b) : (w \o b)[Len(w) + i] = b[i]
  BY <1>1, ConcatProperties, LenProperties
<1>n. Len(w \o b) = units /\ \A i \in 1 .. units : (w \o b)[i] = i
  <2> DEFINE seq == [i \in 1 .. units |-> i]
  <2>1. Len(seq) = units /\ \A i \in 1 .. units : seq[i] = i
    BY <1>1
  <2> HIDE DEF seq
  <2> QED
    BY <1>2, <2>1 DEF seq
<1>4. Len(w) + Len(b) = units
  BY <1>3, <1>n
<1>5. \A i \in 1 .. Len(w) : w[i] \in 1 .. MaxUnits
  <2> TAKE i \in 1 .. Len(w)
  <2>1. i \in 1 .. units
    BY <1>1, <1>3, <1>4
  <2>2. (w \o b)[i] = i /\ (w \o b)[i] = w[i]
    BY <1>3, <1>n, <2>1
  <2> QED
    BY <1>1, <2>1, <2>2
<1>6. \A i \in 1 .. Len(b) : b[i] \in 1 .. MaxUnits
  <2> TAKE i \in 1 .. Len(b)
  <2>1. Len(w) + i \in 1 .. units
    BY <1>1, <1>3, <1>4
  <2>2. (w \o b)[Len(w) + i] = Len(w) + i /\ (w \o b)[Len(w) + i] = b[i]
    BY <1>3, <1>n, <2>1
  <2> QED
    BY <1>1, <2>1, <2>2
<1>7. w \in Seq(1 .. MaxUnits) /\ b \in Seq(1 .. MaxUnits)
  BY <1>1, <1>5, <1>6, SeqOf
<1> QED
  BY <1>7 DEF w, b

\* The inductive invariant.
Typed == ControlTypes /\ LoopFlags /\ SocketFlags /\ PhaseTypes /\ Accounted

\* The state in which the accepted connection is handed over.
LEMMA TypedInitially == Init => Typed
<1> SUFFICES ASSUME Init PROVE Typed
  OBVIOUS
<1>1. ControlTypes /\ LoopFlags /\ SocketFlags /\ PhaseTypes
  BY DEF Init, ControlTypes, LoopFlags, SocketFlags, PhaseTypes, Faults
<1>2. QueueTypes /\ ThreadTypes
  BY DEF Init, QueueTypes, ThreadTypes, ThreadPlaces
<1>3. Cardinality(Sends(jobs)) = 0 /\ Cardinality(Sends(pendingJobs)) = 0
  BY SendsOfNone DEF Init
<1>4. Senders = {}
  BY DEF Init, Senders
<1>5. SendsPending = 0
  BY <1>3, <1>4, FS_EmptySet DEF SendsPending
<1>6. RoomKept
  BY <1>5, TcpConnectionAssumption DEF Init, RoomKept
<1> QED
  BY <1>1, <1>2, <1>6 DEF Typed, Accounted

\* The types, where the loop thread can be, and room for every message that
\* send() has let in, for any finite number of threads and whatever the client does:
\* each sendInLoop() takes a message that was counted when send() found room for it.
THEOREM TypeCorrect == SafeSpec => []TypeOK
<1>1. Typed /\ [Next]_vars => Typed'
  BY ControlStep, LoopFlagsStep, SocketFlagsStep, PhaseStep, AccountedStep DEF Typed
<1>2. OutputSound /\ Typed => TypeOK
  <2> SUFFICES ASSUME OutputSound, Typed PROVE TypeOK
    OBVIOUS
  <2>1. units \in 0 .. MaxUnits
    <3>1. SendsPending \in Nat
      BY CountsTyped DEF Typed, Accounted
    <3>2. MsgLen * SendsPending \in Nat
      BY <3>1, TcpConnectionAssumption
    <3> QED
      BY <3>2, TcpConnectionAssumption DEF Typed, Accounted, RoomKept
  <2>2. outputBuffer \in Seq(1 .. MaxUnits) /\ wire \in Seq(1 .. MaxUnits)
    BY <2>1, OutputTyped
  <2> QED
    BY <2>1, <2>2 DEF TypeOK, Typed, ControlTypes, LoopFlags, SocketFlags, PhaseTypes,
       Accounted, QueueTypes, ThreadTypes, ThreadPlaces
<1> QED
  BY <1>1, <1>2, TypedInitially, OutputInvariance, PTL DEF SafeSpec

-----------------------------------------------------------------------------
(***************************************************************************)
(* Lifetime, one condition at a time: which conduct of the client it takes *)
(* to destroy the connection too early, or to use it too late.             *)
(***************************************************************************)

\* ~TcpConnection() never meets its assertion.
DestroyedOnlyClosed == ~DestroyedConnected

\* TcpServer::closeConnection() alone takes an open connection out of the set.
ServerHolds == ~Disconnected => serverRef

\* handleClose() ends the connection and takes it out of the server's set, or
\* fails and changes neither.
LEMMA CloseReleases ==
  ASSUME HandleClose
  PROVE  \/ UNCHANGED <<state, events, polling, serverRef, callback>>
         \/ /\ Live /\ serverRef /\ polling
            /\ state' = "kDisconnected" /\ events' = {} /\ ~polling'
            /\ serverRef' = FALSE /\ callback' = "down" /\ fault' = fault
<1>1. CASE CloseFault # "none"
  BY <1>1 DEF HandleClose, conn, interest
<1>2. CASE CloseFault = "none"
  <2>1. Live /\ serverRef /\ polling
    BY <1>2 DEF CloseFault, Live
  <2> QED
    BY <1>2, <2>1 DEF HandleClose, DisableAll, SetEvents, CloseConnection
<1> QED
  BY <1>1, <1>2

LEMMA ServerHoldsStep ==
  ASSUME "destroyServer" \notin Usage, NoExchange, ServerHolds, [Next]_vars
  PROVE  ServerHolds'
<1> USE DEF ServerHolds, Disconnected, conn, refs
<1>1. CASE UNCHANGED <<state, serverRef>>
  BY <1>1
<1>2. CASE HandleClose
  BY <1>2, <1>1, CloseReleases
<1>3. CASE UserShutdown \/ UserForceClose \/ Establish
  BY <1>3 DEF UserShutdown, UserForceClose, Establish
<1>4. CASE LoopStep
  BY <1>1, <1>2, <1>3, <1>4 DEF LoopStep, Poll, OtherHandler, BeginHandling,
     CloseEvent, ErrorEvent, ReadEvent, EndOfStream, WriteEvent, EndHandling,
     CallbackReturns, SwapPendingJobs, Jobs, RunSend, RunShutdown, RunForceClose,
     RunCallback, RunReadJob, BatchDone, ConnectionUnchanged
<1>5. CASE PollOther \/ DestroyServer
  BY <1>1, <1>5 DEF PollOther, DestroyServer, ConnectionUnchanged
<1>6. CASE UserCall
  BY <1>1, <1>3, <1>6 DEF UserCall, UserSend, UserRead, UserDrop
<1>7. ASSUME NEW t \in Threads, ThreadCall(t) \/ ThreadStep(t) PROVE ServerHolds'
  <2>1. ~ThreadExchanges(t)
    BY DEF ThreadExchanges, NoExchange
  <2> QED
    BY <1>1, <1>7, <2>1 DEF ThreadCall, ThreadStep, ThreadSend, ThreadCloses,
       ThreadRead, ThreadQueues, ThreadUnchanged
<1>8. CASE Peer \/ UNCHANGED vars
  BY <1>1, <1>8 DEF Peer, PeerSends, PeerSendsUrgent, PeerCloses, PeerResets, PeerReads,
     PeerUnchanged, vars
<1> QED
  BY <1>4, <1>5, <1>6, <1>7, <1>8 DEF Next

\* Unless another thread closes it or the server is destroyed, a connection is
\* destroyed only after its close, however early the client drops its reference
\* and whatever else it does: the reference in connections_ is enough.
THEOREM DestroyedOnlyWhenClosed ==
  ASSUME "threadClose" \notin Usage, "destroyServer" \notin Usage
  PROVE  SafeSpec => []DestroyedOnlyClosed
<1>1. Init => ServerHolds
  BY DEF Init, ServerHolds
<1>2. WriteSound /\ ServerHolds /\ [Next]_vars => ServerHolds'
  BY ServerHoldsStep DEF WriteSound
<1>3. ServerHolds => DestroyedOnlyClosed
  BY DEF ServerHolds, DestroyedOnlyClosed, DestroyedConnected, Alive, Disconnected
<1> QED
  BY <1>1, <1>2, <1>3, InterestInvariance, PTL DEF SafeSpec

-----------------------------------------------------------------------------
(***************************************************************************)
(* Use after free.                                                         *)
(***************************************************************************)

\* Channel::handleEvents() and the jobs meet a connection that exists.
NothingUsedAfterFree == fault # "use after free"

\* A closed channel is out of the epoll set for good, so that what epoll_wait
\* reported is open until its handler begins, and every job holds a reference.
ReportsOpen ==
  /\ Disconnected => ~polling /\ events = {}
  /\ revents # {} /\ ~handling => ~Disconnected
  /\ JobsHold
  /\ NothingUsedAfterFree

\* A step that neither closes the connection nor changes what epoll_wait has
\* reported, other than by handling it.
LEMMA ReportsOpenKept ==
  ASSUME ReportsOpen, JobsHold', fault' = fault \/ fault' # "use after free",
         Disconnected' => Disconnected /\ UNCHANGED <<events, polling>>,
         handling' = handling, revents' \subseteq revents
  PROVE  ReportsOpen'
<1>1. Disconnected' => ~polling' /\ events' = {}
  BY DEF ReportsOpen
<1>2. revents' # {} /\ ~handling' => ~Disconnected'
  BY DEF ReportsOpen
<1> QED
  BY <1>1, <1>2 DEF ReportsOpen, NothingUsedAfterFree

\* A step that leaves the jobs alone, or queues one that holds a reference.
LEMMA JobsHoldKept ==
  ASSUME JobsHold, jobs' = jobs,
         pendingJobs' = pendingJobs
           \/ \E job \in HoldingJobs : pendingJobs' = Append(pendingJobs, job)
  PROVE  JobsHold'
<1>1. CASE pendingJobs' = pendingJobs
  BY <1>1 DEF JobsHold
<1>2. ASSUME NEW job \in HoldingJobs, pendingJobs' = Append(pendingJobs, job)
      PROVE  JobsHold'
  <2>1. Append(pendingJobs, job) \in Seq(HoldingJobs)
    BY QueuedHolds
  <2> QED
    BY <1>2, <2>1 DEF JobsHold
<1> QED
  BY <1>1, <1>2

\* sendInLoop() queues one callback at most.
LEMMA SendPushes ==
  ASSUME SendInLoop
  PROVE  \/ pendingJobs' = pendingJobs
         \/ \E job \in HoldingJobs : pendingJobs' = Append(pendingJobs, job)
<1>1. CallbackKinds \subseteq HoldingJobs
  BY DEF CallbackKinds, HoldingJobs, JobKinds
<1>2. ASSUME NEW cb \in CallbackKinds, NEW due, QueueCallback(cb, due)
      PROVE  \/ pendingJobs' = pendingJobs
             \/ \E job \in HoldingJobs : pendingJobs' = Append(pendingJobs, job)
  BY <1>1, <1>2 DEF QueueCallback
<1>3. "writeComplete" \in CallbackKinds /\ "highWater" \in CallbackKinds
  BY DEF CallbackKinds
<1>4. CASE SendWrites
  <2>1. \/ \E rest : QueueCallback("highWater", CrossesMark(Len(rest)))
        \/ QueueCallback("writeComplete", TRUE)
    BY <1>4 DEF SendWrites, AppendOutput
  <2> QED
    BY <1>2, <1>3, <2>1
<1>5. CASE SendAppends
  <2>1. QueueCallback("highWater", CrossesMark(Len(Message)))
    BY <1>5 DEF SendAppends, AppendOutput
  <2> QED
    BY <1>2, <1>3, <2>1
<1> QED
  BY <1>4, <1>5 DEF SendInLoop, SendIgnored, SendAsserts, SendFails

\* handleWrite() queues one callback at most.
LEMMA WritePushes ==
  ASSUME WriteEvent
  PROVE  \/ pendingJobs' = pendingJobs
         \/ \E job \in HoldingJobs : pendingJobs' = Append(pendingJobs, job)
<1>1. "writeComplete" \in HoldingJobs
  BY DEF HoldingJobs, JobKinds
<1>2. CASE QueueCallback("writeComplete", TRUE)
  BY <1>1, <1>2 DEF QueueCallback
<1> QED
  BY <1>2 DEF WriteEvent, OutputDone

\* sendInLoop() after the close changes nothing, and its assertion is its own.
LEMMA SendAfterClose ==
  ASSUME SendInLoop
  PROVE  /\ Disconnected => UNCHANGED <<events, polling>>
         /\ fault' = fault \/ fault' # "use after free"
BY DEF SendInLoop, SendIgnored, SendAsserts, SendFails, SendWrites, SendAppends,
   Fails, interest

\* epoll_wait and handleEventsWithGuard().
LEMMA EventsOpen ==
  ASSUME TypeOK, ReportsOpen,
         \/ Establish \/ Poll \/ PollOther \/ OtherHandler \/ BeginHandling
         \/ CloseEvent \/ ErrorEvent \/ ReadEvent \/ WriteEvent \/ EndHandling
         \/ CallbackReturns
  PROVE  ReportsOpen'
<1> USE DEF conn, interest, iteration, refs, peer, sock, sending, calls,
        ConnectionUnchanged, At
<1>0. JobsHold
  BY DEF ReportsOpen
<1>1. CASE Establish
  <2>1. state' = "kConnected" /\ UNCHANGED <<handling, revents, jobs, pendingJobs, fault>>
    BY <1>1 DEF Establish, ConnectEstablished
  <2> QED
    BY <1>0, <2>1, JobsHoldKept, ReportsOpenKept DEF Disconnected
<1>2. CASE Poll \/ PollOther
  <2>1. /\ phase = "poll" /\ (revents' = Reported \/ revents' = revents)
        /\ UNCHANGED <<state, events, polling, handling, jobs, pendingJobs, fault>>
    BY <1>2 DEF Poll, PollOther
  <2>2. revents = {} /\ ~handling
    BY <2>1 DEF TypeOK
  <2>3. Reported # {} => ~Disconnected
    BY DEF Reported, ReportsOpen
  <2>4. JobsHold'
    BY <1>0, <2>1, JobsHoldKept
  <2> QED
    BY <2>1, <2>2, <2>3, <2>4 DEF ReportsOpen, NothingUsedAfterFree, Disconnected
<1>3. CASE OtherHandler \/ CallbackReturns
  <2>1. UNCHANGED <<state, events, polling, handling, revents, jobs, pendingJobs, fault>>
    BY <1>3 DEF OtherHandler, CallbackReturns
  <2> QED
    BY <1>0, <2>1, JobsHoldKept, ReportsOpenKept DEF Disconnected
<1>4. CASE BeginHandling
  <2>1. revents # {} /\ ~handling /\ ~Aborted
    BY <1>4 DEF BeginHandling
  <2>2. Alive
    BY <2>1 DEF ReportsOpen, Aborted, DestroyedConnected, Disconnected
  <2>3. handling' /\ UNCHANGED <<state, events, polling, revents, jobs, pendingJobs, fault>>
    BY <1>4, <2>2 DEF BeginHandling
  <2>4. JobsHold'
    BY <1>0, <2>3, JobsHoldKept
  <2> QED
    BY <2>3, <2>4 DEF ReportsOpen, NothingUsedAfterFree, Disconnected
<1>5. CASE EndHandling
  <2>1. /\ revents' = {}
        /\ UNCHANGED <<state, events, polling, jobs, pendingJobs, fault>>
    BY <1>5 DEF EndHandling
  <2>2. JobsHold'
    BY <1>0, <2>1, JobsHoldKept
  <2> QED
    BY <2>1, <2>2 DEF ReportsOpen, NothingUsedAfterFree, Disconnected
<1>6. ASSUME HandleClose, handling, UNCHANGED <<handling, jobs, pendingJobs>>,
             revents' \subseteq revents
      PROVE  ReportsOpen'
  <2>1. JobsHold'
    BY <1>0, <1>6, JobsHoldKept
  <2>2. fault' = fault \/ fault' # "use after free"
    BY <1>6 DEF HandleClose, CloseFault, Fails
  <2>3. CASE UNCHANGED <<state, events, polling>>
    BY <1>6, <2>1, <2>2, <2>3, ReportsOpenKept DEF Disconnected
  <2>4. CASE events' = {} /\ ~polling'
    BY <1>6, <2>1, <2>2, <2>4 DEF ReportsOpen, NothingUsedAfterFree
  <2> QED
    BY <1>6, <2>3, <2>4, CloseReleases
<1>7. CASE CloseEvent
  BY <1>6, <1>7 DEF CloseEvent, Turn
<1>8. CASE ErrorEvent
  <2>1. /\ revents' \subseteq revents
        /\ UNCHANGED <<state, events, polling, handling, jobs, pendingJobs, fault>>
    BY <1>8 DEF ErrorEvent, Turn
  <2> QED
    BY <1>0, <2>1, JobsHoldKept, ReportsOpenKept DEF Disconnected
<1>9. CASE ReadEvent
  <2>1. /\ handling /\ revents' \subseteq revents
        /\ UNCHANGED <<handling, jobs, pendingJobs>>
    BY <1>9 DEF ReadEvent, Turn
  <2>2. CASE UNCHANGED conn /\ (fault' = fault \/ fault' = "handleRead: state_")
    BY <1>0, <2>1, <2>2, JobsHoldKept, ReportsOpenKept DEF Disconnected
  <2> QED
    BY <1>6, <1>9, <2>1, <2>2 DEF ReadEvent, EndOfStream, Fails
<1>10. CASE WriteEvent
  <2>1. /\ revents' \subseteq revents /\ UNCHANGED <<state, handling, jobs>>
    BY <1>10 DEF WriteEvent, Turn
  <2>2. JobsHold'
    BY <1>0, <1>10, <2>1, WritePushes, JobsHoldKept
  <2>3. /\ Disconnected => UNCHANGED <<events, polling>>
        /\ fault' = fault \/ fault' # "use after free"
    BY <1>10 DEF WriteEvent, Fails
  <2> QED
    BY <2>1, <2>2, <2>3, ReportsOpenKept DEF Disconnected
<1> QED
  BY <1>1, <1>2, <1>3, <1>4, <1>5, <1>7, <1>8, <1>9, <1>10

\* doPendingJobs().
LEMMA JobsOpen ==
  ASSUME TypeOK, ReportsOpen, SwapPendingJobs \/ Jobs \/ BatchDone \/ DestroyServer
  PROVE  ReportsOpen'
<1> USE DEF conn, interest, iteration, refs, peer, sock, sending, calls,
        ConnectionUnchanged, At
<1>0. JobsHold
  BY DEF ReportsOpen
<1>1. CASE SwapPendingJobs
  <2>1. /\ jobs' = pendingJobs /\ pendingJobs' = <<>>
        /\ UNCHANGED <<state, events, polling, handling, revents, fault>>
    BY <1>1 DEF SwapPendingJobs
  <2>2. JobsHold'
    BY <1>0, <2>1 DEF JobsHold
  <2> QED
    BY <2>1, <2>2, ReportsOpenKept DEF Disconnected
<1>2. CASE BatchDone \/ DestroyServer
  <2>1. UNCHANGED <<state, events, polling, handling, revents, jobs, pendingJobs, fault>>
    BY <1>2 DEF BatchDone, DestroyServer
  <2> QED
    BY <1>0, <2>1, JobsHoldKept, ReportsOpenKept DEF Disconnected
<1>3. ASSUME NEW kind, RunJob(kind)
      PROVE  /\ revents = {} /\ UNCHANGED <<handling, revents>>
             /\ kind \in HoldingJobs /\ jobs' \in Seq(HoldingJobs)
  <2>1. /\ phase = "jobs" /\ jobs # <<>> /\ Head(jobs) = kind /\ jobs' = Tail(jobs)
        /\ UNCHANGED <<handling, revents>>
    BY <1>3 DEF RunJob
  <2>2. revents = {}
    BY <2>1 DEF TypeOK
  <2>3. kind \in HoldingJobs /\ jobs' \in Seq(HoldingJobs)
    BY <1>0, <2>1, HeadTailProperties DEF JobsHold
  <2> QED
    BY <2>1, <2>2, <2>3
<1>4. ASSUME NEW kind, RunJob(kind),
             pendingJobs' = pendingJobs
               \/ \E job \in HoldingJobs : pendingJobs' = Append(pendingJobs, job)
      PROVE  JobsHold'
  <2>1. pendingJobs' \in Seq(HoldingJobs)
    BY <1>0, <1>4, QueuedHolds DEF JobsHold
  <2> QED
    BY <1>3, <1>4, <2>1 DEF JobsHold
<1>5. CASE RunSend
  <2>1. RunJob("send") /\ SendInLoop /\ state' = state
    BY <1>5 DEF RunSend
  <2>2. JobsHold' /\ UNCHANGED <<handling, revents>>
    BY <1>3, <1>4, <2>1, SendPushes
  <2> QED
    BY <2>1, <2>2, SendAfterClose, ReportsOpenKept DEF Disconnected
<1>6. CASE RunShutdown \/ \E kind \in CallbackKinds : RunCallback(kind)
  <2>1. /\ \E kind : RunJob(kind)
        /\ UNCHANGED <<state, events, polling, pendingJobs, fault>>
    BY <1>6 DEF RunShutdown, RunCallback
  <2>2. JobsHold' /\ UNCHANGED <<handling, revents>>
    BY <1>3, <1>4, <2>1
  <2> QED
    BY <2>1, <2>2, ReportsOpenKept DEF Disconnected
<1>7. CASE RunForceClose
  <2>1. RunJob("forceClose") /\ pendingJobs' = pendingJobs
    BY <1>7 DEF RunForceClose
  <2>2. JobsHold' /\ revents' = {} /\ UNCHANGED <<handling, revents>>
    BY <1>3, <1>4, <2>1
  <2>3. CASE UNCHANGED <<state, events, polling>> /\ (fault' = fault \/ HandleClose)
    <3>1. fault' = fault \/ fault' # "use after free"
      BY <2>3 DEF HandleClose, CloseFault, Fails
    <3> QED
      BY <2>2, <2>3, <3>1, ReportsOpenKept DEF Disconnected
  <2>4. CASE events' = {} /\ ~polling' /\ fault' = fault
    BY <2>2, <2>4 DEF ReportsOpen, NothingUsedAfterFree
  <2> QED
    BY <1>7, <2>3, <2>4, CloseReleases DEF RunForceClose
<1>8. ASSUME NEW kind \in {"stopRead", "startRead"}, RunReadJob(kind) PROVE FALSE
  BY <1>3, <1>8 DEF RunReadJob, HoldingJobs
<1> QED
  BY <1>1, <1>2, <1>5, <1>6, <1>7, <1>8 DEF Jobs

\* The client, other threads, and the peer.
LEMMA CallsOpen ==
  ASSUME "threadRead" \notin Usage, "lateRead" \notin Usage, ReportsOpen,
         UserCall \/ Peer \/ UNCHANGED vars
           \/ \E t \in Threads : ThreadCall(t) \/ ThreadStep(t)
  PROVE  ReportsOpen'
<1> USE DEF conn, interest, refs, peer, sock, sending, calls
<1>0. JobsHold /\ UNCHANGED <<handling, revents, jobs>>
  BY OutsideLoop DEF ReportsOpen
<1>1. CASE UserSend
  <2>1. SendInLoop /\ state' = state
    BY <1>1 DEF UserSend
  <2>2. JobsHold'
    BY <1>0, <2>1, SendPushes, JobsHoldKept
  <2> QED
    BY <1>0, <2>1, <2>2, SendAfterClose, ReportsOpenKept DEF Disconnected
<1>2. CASE UserShutdown
  <2>1. UNCHANGED <<events, polling, pendingJobs>> /\ fault' # "use after free"
    BY <1>2 DEF UserShutdown, Fails, ReportsOpen, NothingUsedAfterFree
  <2>2. state' = state \/ state' = "kDisconnecting"
    BY <1>2 DEF UserShutdown
  <2> QED
    BY <1>0, <2>1, <2>2, JobsHoldKept, ReportsOpenKept DEF Disconnected
<1>3. CASE UserForceClose
  <2>1. "forceClose" \in HoldingJobs
    BY DEF HoldingJobs, JobKinds
  <2>2. JobsHold'
    BY <1>0, <1>3, <2>1, JobsHoldKept DEF UserForceClose
  <2> QED
    BY <1>0, <1>3, <2>2, ReportsOpenKept DEF UserForceClose, Disconnected
<1>4. CASE UserRead
  <2>1. Disconnected => UNCHANGED <<events, polling>>
    BY <1>4 DEF UserRead, StopReadInLoop, ReportsOpen
  <2>2. UNCHANGED <<state, pendingJobs, fault>>
    BY <1>4 DEF UserRead
  <2> QED
    BY <1>0, <2>1, <2>2, JobsHoldKept, ReportsOpenKept DEF Disconnected
<1>5. CASE UserDrop \/ Peer \/ UNCHANGED vars
  <2>1. UNCHANGED <<state, events, polling, pendingJobs, fault>>
    BY <1>5 DEF UserDrop, Peer, PeerSends, PeerSendsUrgent, PeerCloses, PeerResets,
       PeerReads,
       PeerUnchanged, vars
  <2> QED
    BY <1>0, <2>1, JobsHoldKept, ReportsOpenKept DEF Disconnected
<1>6. ASSUME NEW t \in Threads, ThreadCall(t) \/ ThreadStep(t) PROVE ReportsOpen'
  <2>1. /\ UNCHANGED <<events, polling>> /\ (fault' = fault \/ fault' # "use after free")
        /\ state' = state \/ state' = "kDisconnecting"
    BY <1>6 DEF ThreadCall, ThreadStep, ThreadSend, ThreadCloses, ThreadRead,
       ThreadQueues, ThreadExchanges, ThreadUnchanged, Fails
  <2>2. \/ pendingJobs' = pendingJobs
        \/ \E job \in HoldingJobs : pendingJobs' = Append(pendingJobs, job)
    BY <1>6 DEF ThreadCall, ThreadStep, ThreadSend, ThreadCloses, ThreadRead,
       ThreadQueues, ThreadExchanges, HoldingJobs, JobKinds
  <2>3. JobsHold'
    BY <1>0, <2>2, JobsHoldKept
  <2> QED
    BY <1>0, <2>1, <2>3, ReportsOpenKept DEF Disconnected
<1> QED
  BY <1>1, <1>2, <1>3, <1>4, <1>5, <1>6 DEF UserCall

\* Only a startRead() after the close, or a job of stopRead() and startRead(), which
\* captures a bare this, lets anything use the connection after its end: epoll_wait
\* never reports a closed channel otherwise, and what it has reported stays open
\* until its handler begins, even if the client drops its reference in between and
\* other threads close the connection.
THEOREM NoUseAfterFree ==
  ASSUME "threadRead" \notin Usage, "lateRead" \notin Usage
  PROVE  SafeSpec => []NothingUsedAfterFree
<1>1. Init => ReportsOpen
  BY DEF Init, ReportsOpen, NothingUsedAfterFree, JobsHold, Disconnected
<1>2. TypeOK /\ ReportsOpen /\ [Next]_vars => ReportsOpen'
  BY EventsOpen, JobsOpen, CallsOpen DEF Next, LoopStep
<1>3. ReportsOpen => NothingUsedAfterFree
  BY DEF ReportsOpen
<1> QED
  BY <1>1, <1>2, <1>3, TypeCorrect, PTL DEF SafeSpec

-----------------------------------------------------------------------------
(***************************************************************************)
(* The channel under its handler.                                          *)
(***************************************************************************)

\* Someone other than the server holds the connection until the loop comes to its
\* jobs.
HeldElsewhere ==
  userRef \/ HoldsRef(pendingJobs) \/ \E t \in Threads : threadPc[t] # "idle"

\* Only an open connection is in the server's set, and one that has been handed over
\* is with its user too; so the handler may go on after handleClose().
HandlerOwned ==
  /\ NotYetUp
  /\ serverRef => ~Disconnected /\ (state # "kConnecting" => userRef)
  /\ handling => HeldElsewhere

\* A step that adds a job at most.
Pushes ==
  pendingJobs' = pendingJobs
    \/ \E job \in HoldingJobs \cup {"stopRead", "startRead"} :
         pendingJobs' = Append(pendingJobs, job)

\* A queued job is not forgotten.
LEMMA PushKeepsHold ==
  ASSUME TypeOK, HoldsRef(pendingJobs), NEW job
  PROVE  HoldsRef(Append(pendingJobs, job))
<1>1. PICK i \in DOMAIN pendingJobs : pendingJobs[i] \notin {"stopRead", "startRead"}
  BY DEF HoldsRef
<1>2. /\ i \in DOMAIN Append(pendingJobs, job)
      /\ Append(pendingJobs, job)[i] = pendingJobs[i]
  BY <1>1 DEF TypeOK
<1> QED
  BY <1>1, <1>2 DEF HoldsRef

\* A job that holds a reference holds it from the moment it is queued.
LEMMA PushHolds ==
  ASSUME TypeOK, NEW job, job \notin {"stopRead", "startRead"}
  PROVE  HoldsRef(Append(pendingJobs, job))
<1>1. /\ Len(pendingJobs) + 1 \in DOMAIN Append(pendingJobs, job)
      /\ Append(pendingJobs, job)[Len(pendingJobs) + 1] = job
  BY DEF TypeOK
<1> QED
  BY <1>1 DEF HoldsRef

LEMMA HeldStep ==
  ASSUME TypeOK, HeldElsewhere, userRef' = userRef, threadPc' = threadPc, Pushes
  PROVE  HeldElsewhere'
<1>1. HoldsRef(pendingJobs) => HoldsRef(pendingJobs')
  BY PushKeepsHold DEF Pushes
<1>2. HoldsRef(pendingJobs') = HoldsRef(pendingJobs)'
  BY DEF HoldsRef
<1> QED
  BY <1>1, <1>2 DEF HeldElsewhere

\* A step that changes neither the references nor the place of the loop.
LEMMA OwnedKept ==
  ASSUME TypeOK, HandlerOwned, Pushes,
         UNCHANGED <<serverRef, userRef, threadPc, handling, phase, other>>,
         state' = state \/ (state # "kConnecting" /\ state' = "kDisconnecting"),
         revents' \subseteq revents, callback' = callback \/ state # "kConnecting"
  PROVE  HandlerOwned'
<1>1. handling' => HeldElsewhere'
  BY HeldStep DEF HandlerOwned
<1> QED
  BY <1>1 DEF HandlerOwned, NotYetUp, Disconnected

\* A step outside the handlers of the channel, after connectEstablished().
LEMMA OwnedOutside ==
  ASSUME HandlerOwned, state # "kConnecting", ~handling',
         UNCHANGED <<state, serverRef, userRef>>
  PROVE  HandlerOwned'
BY DEF HandlerOwned, NotYetUp, Disconnected

\* handleClose(), from a handler or a job: the client still has its reference.
LEMMA OwnedClose ==
  ASSUME TypeOK, HandlerOwned, HandleClose, Pushes,
         UNCHANGED <<userRef, threadPc, handling, phase, other>>,
         state # "kConnecting", revents' \subseteq revents
  PROVE  HandlerOwned'
<1>1. CASE UNCHANGED <<state, events, polling, serverRef, callback>>
  BY <1>1, OwnedKept
<1>2. CASE Live /\ serverRef /\ state' = "kDisconnected" /\ serverRef' = FALSE
  <2>1. userRef'
    BY <1>2 DEF HandlerOwned
  <2> QED
    BY <1>2, <2>1 DEF HandlerOwned, NotYetUp, HeldElsewhere
<1> QED
  BY <1>1, <1>2, CloseReleases

LEMMA OwnedEvents ==
  ASSUME TypeOK, HandlerOwned,
         \/ Establish \/ Poll \/ PollOther \/ OtherHandler \/ BeginHandling
         \/ CloseEvent \/ ErrorEvent \/ ReadEvent \/ WriteEvent \/ EndHandling
         \/ CallbackReturns
  PROVE  HandlerOwned'
<1> USE DEF conn, interest, iteration, refs, peer, sock, sending, calls,
        ConnectionUnchanged, At
<1>1. CASE Establish
  BY <1>1 DEF Establish, ConnectEstablished, HandlerOwned, NotYetUp, HeldElsewhere,
     Disconnected
<1>2. CASE Poll \/ PollOther
  <2>1. phase = "poll" /\ UNCHANGED <<state, serverRef, userRef, handling>>
    BY <1>2 DEF Poll, PollOther
  <2>2. ~handling /\ state # "kConnecting"
    BY <2>1 DEF TypeOK, HandlerOwned, NotYetUp
  <2> QED
    BY <2>1, <2>2, OwnedOutside
<1>3. CASE OtherHandler
  <2>1. other /\ ~handling /\ UNCHANGED <<state, serverRef, userRef, handling>>
    BY <1>3 DEF OtherHandler
  <2>2. state # "kConnecting"
    BY <2>1 DEF HandlerOwned, NotYetUp
  <2> QED
    BY <2>1, <2>2, OwnedOutside
<1>4. CASE BeginHandling
  <2>1. /\ phase = "dispatch" /\ callback = "none" /\ revents # {}
        /\ UNCHANGED <<state, serverRef, userRef, threadPc, pendingJobs, phase, callback,
                       revents, other>>
    BY <1>4 DEF BeginHandling
  <2>2. state # "kConnecting"
    BY <2>1 DEF HandlerOwned, NotYetUp
  <2>3. CASE Alive
    <3>1. ~batchRef /\ jobs = <<>>
      BY <2>1 DEF TypeOK
    <3>2. ~HoldsRef(jobs)
      BY <3>1 DEF HoldsRef
    <3>3. HeldElsewhere
      BY <2>1, <2>2, <2>3, <3>1, <3>2 DEF Alive, HeldElsewhere, HandlerOwned
    <3>4. HeldElsewhere'
      BY <2>1, <3>3 DEF HeldElsewhere, HoldsRef
    <3> QED
      BY <2>1, <2>2, <3>4 DEF HandlerOwned, NotYetUp, Disconnected
  <2>4. CASE ~Alive
    <3>1. ~handling'
      BY <1>4, <2>4 DEF BeginHandling
    <3> QED
      BY <2>1, <2>2, <3>1, OwnedOutside
  <2> QED
    BY <2>3, <2>4
<1>5. CASE EndHandling
  <2>1. /\ handling /\ handling' = FALSE /\ UNCHANGED <<state, serverRef, userRef>>
    BY <1>5 DEF EndHandling
  <2>2. state # "kConnecting"
    BY <2>1 DEF HandlerOwned, NotYetUp
  <2> QED
    BY <2>1, <2>2, OwnedOutside
<1>6. CASE CallbackReturns
  <2>1. callback # "none"
    BY <1>6 DEF CallbackReturns
  <2>2. state # "kConnecting"
    BY <2>1 DEF HandlerOwned, NotYetUp
  <2> QED
    BY <1>6, <2>2, OwnedKept DEF CallbackReturns, Pushes
<1>7. ASSUME NEW cb, NEW before, Turn(cb, before)
      PROVE  /\ state # "kConnecting" /\ revents' \subseteq revents
             /\ UNCHANGED <<handling, phase, other>>
  BY <1>7 DEF Turn, HandlerOwned, NotYetUp
<1>8. CASE CloseEvent
  BY <1>7, <1>8, OwnedClose DEF CloseEvent, Pushes
<1>9. CASE ErrorEvent
  BY <1>7, <1>9, OwnedKept DEF ErrorEvent, Pushes
<1>10. CASE ReadEvent
  <2>1. /\ state # "kConnecting" /\ revents' \subseteq revents
        /\ UNCHANGED <<handling, phase, other, userRef, threadPc>> /\ Pushes
    BY <1>7, <1>10 DEF ReadEvent, Pushes
  <2>2. CASE UNCHANGED <<conn, serverRef>>
    BY <2>1, <2>2, OwnedKept
  <2>3. CASE HandleClose
    BY <2>1, <2>3, OwnedClose
  <2> QED
    BY <1>10, <2>2, <2>3 DEF ReadEvent, EndOfStream
<1>11. CASE WriteEvent
  <2>1. /\ state # "kConnecting" /\ revents' \subseteq revents
        /\ UNCHANGED <<state, callback, handling, phase, other, serverRef, userRef,
                       threadPc>>
    BY <1>7, <1>11 DEF WriteEvent
  <2>2. Pushes
    BY <1>11, WritePushes DEF Pushes
  <2> QED
    BY <2>1, <2>2, OwnedKept
<1> QED
  BY <1>1, <1>2, <1>3, <1>4, <1>5, <1>6, <1>8, <1>9, <1>10, <1>11

LEMMA OwnedJobs ==
  ASSUME TypeOK, HandlerOwned, SwapPendingJobs \/ Jobs \/ BatchDone \/ DestroyServer
  PROVE  HandlerOwned'
<1> USE DEF conn, interest, iteration, refs, peer, sock, sending, calls,
        ConnectionUnchanged, At
<1>1. CASE SwapPendingJobs
  BY <1>1, OwnedOutside DEF SwapPendingJobs
<1>2. CASE BatchDone
  <2>1. phase = "jobs" /\ UNCHANGED <<state, serverRef, userRef, handling>>
    BY <1>2 DEF BatchDone
  <2>2. ~handling /\ state # "kConnecting"
    BY <2>1 DEF TypeOK, HandlerOwned, NotYetUp
  <2> QED
    BY <2>1, <2>2, OwnedOutside
<1>3. CASE DestroyServer
  <2>1. phase = "poll" /\ serverRef' = FALSE /\ UNCHANGED <<state, handling>>
    BY <1>3 DEF DestroyServer
  <2>2. ~handling /\ state # "kConnecting"
    BY <2>1 DEF TypeOK, HandlerOwned, NotYetUp
  <2> QED
    BY <2>1, <2>2 DEF HandlerOwned, NotYetUp
<1>4. ASSUME NEW kind, RunJob(kind)
      PROVE  /\ ~handling /\ state # "kConnecting"
             /\ UNCHANGED <<handling, phase, revents, other>>
  BY <1>4 DEF RunJob, TypeOK, HandlerOwned, NotYetUp
<1>5. CASE RunForceClose
  <2>1. /\ ~handling' /\ state # "kConnecting" /\ Pushes
        /\ UNCHANGED <<handling, phase, revents, other, userRef, threadPc>>
    BY <1>4, <1>5 DEF RunForceClose, Pushes
  <2>2. CASE UNCHANGED <<conn, serverRef>>
    BY <2>1, <2>2, OwnedOutside
  <2>3. CASE HandleClose
    BY <2>1, <2>3, OwnedClose
  <2> QED
    BY <1>5, <2>2, <2>3 DEF RunForceClose
<1>6. CASE RunSend \/ RunShutdown \/ (\E kind \in CallbackKinds : RunCallback(kind))
           \/ (\E kind \in {"stopRead", "startRead"} : RunReadJob(kind))
  <2>1. (\E kind : RunJob(kind)) /\ UNCHANGED <<state, serverRef, userRef>>
    BY <1>6 DEF RunSend, RunShutdown, RunCallback, RunReadJob
  <2> QED
    BY <1>4, <2>1, OwnedOutside
<1> QED
  BY <1>1, <1>2, <1>3, <1>5, <1>6 DEF Jobs

LEMMA OwnedCalls ==
  ASSUME "dropRef" \notin Usage, TypeOK, NoExchange, HandlerOwned,
         UserCall \/ Peer \/ UNCHANGED vars
           \/ \E t \in Threads : ThreadCall(t) \/ ThreadStep(t)
  PROVE  HandlerOwned'
<1> USE DEF conn, interest, loop, refs, peer, sock, sending, calls
<1>0. UNCHANGED <<phase, handling, revents, other>>
  BY OutsideLoop
<1>1. ASSUME UserCode PROVE state # "kConnecting"
  BY <1>1 DEF UserCode, HandlerOwned, NotYetUp
<1>2. CASE UserSend
  <2>1. Pushes
    BY <1>2, SendPushes DEF UserSend, Pushes
  <2> QED
    BY <1>0, <1>2, <2>1, OwnedKept DEF UserSend
<1>3. CASE UserShutdown
  <2>1. state' = state \/ (state # "kConnecting" /\ state' = "kDisconnecting")
    BY <1>3 DEF UserShutdown
  <2> QED
    BY <1>0, <1>3, <2>1, OwnedKept DEF UserShutdown, Pushes
<1>4. CASE UserForceClose
  <2>1. Pushes
    BY <1>4 DEF UserForceClose, Pushes, HoldingJobs, JobKinds
  <2> QED
    BY <1>0, <1>1, <1>4, <2>1, OwnedKept DEF UserForceClose
<1>5. CASE UserRead \/ Peer \/ UNCHANGED vars
  <2>1. UNCHANGED <<state, serverRef, userRef, threadPc, pendingJobs, callback>>
    BY <1>5 DEF UserRead, Peer, PeerSends, PeerSendsUrgent, PeerCloses, PeerResets,
       PeerReads,
       PeerUnchanged, vars
  <2> QED
    BY <1>0, <2>1, OwnedKept DEF Pushes
<1>6. CASE UserDrop
  <2>1. Disconnected /\ ~handling /\ UNCHANGED <<state, serverRef, callback>>
    BY <1>6 DEF UserDrop
  <2> QED
    BY <1>0, <2>1 DEF HandlerOwned, NotYetUp, Disconnected
<1>7. ASSUME NEW t \in Threads, ThreadCall(t) \/ ThreadStep(t) PROVE HandlerOwned'
  <2>1. ~ThreadExchanges(t)
    BY DEF ThreadExchanges, NoExchange
  <2>2. UNCHANGED <<state, serverRef, userRef, callback>>
    BY <1>7, <2>1 DEF ThreadCall, ThreadStep, ThreadSend, ThreadCloses, ThreadRead,
       ThreadQueues, ThreadUnchanged
  <2>3. CASE ThreadQueues(t)
    <3>1. HoldsRef(Append(pendingJobs, threadPc[t]))
      BY <2>3, PushHolds DEF ThreadQueues
    <3>2. HeldElsewhere'
      BY <2>3, <3>1 DEF ThreadQueues, HeldElsewhere, HoldsRef
    <3> QED
      BY <1>0, <2>2, <3>2 DEF HandlerOwned, NotYetUp, Disconnected
  <2>4. CASE threadPc' = threadPc /\ Pushes
    BY <1>0, <2>2, <2>4, OwnedKept
  <2>5. ASSUME NEW place, place # "idle", GoTo(t, place) PROVE HandlerOwned'
    <3>1. threadPc'[t] = place
      BY <2>5 DEF GoTo, TypeOK
    <3>2. HeldElsewhere'
      BY <2>5, <3>1 DEF HeldElsewhere
    <3> QED
      BY <1>0, <2>2, <3>2 DEF HandlerOwned, NotYetUp, Disconnected
  <2>6. CASE ThreadSend(t)
    BY <2>5, <2>6 DEF ThreadSend
  <2>7. CASE ThreadCloses(t)
    BY <2>4, <2>5, <2>7 DEF ThreadCloses, Pushes
  <2>8. CASE ThreadRead(t)
    BY <2>4, <2>8 DEF ThreadRead, Pushes
  <2> QED
    BY <1>7, <2>1, <2>3, <2>6, <2>7, <2>8 DEF ThreadCall, ThreadStep
<1> QED
  BY <1>2, <1>3, <1>4, <1>5, <1>6, <1>7 DEF UserCall

\* A client that keeps its reference until the connection is disconnected and no event
\* of it is being handled, and whose other threads do not close it, never has the
\* channel destroyed under handleEvents(), whatever else it does: ~Channel() and its
\* assertion come later, also after handleClose() has emptied the server's set.
THEOREM HandlerKeepsChannel ==
  ASSUME "dropRef" \notin Usage, "threadClose" \notin Usage
  PROVE  SafeSpec => []ChannelOutlivesHandler
<1>1. Init => HandlerOwned
  BY DEF Init, HandlerOwned, NotYetUp, Disconnected
<1>2. TypeOK /\ WriteSound /\ HandlerOwned /\ [Next]_vars => HandlerOwned'
  BY OwnedEvents, OwnedJobs, OwnedCalls DEF WriteSound, Next, LoopStep
<1>3. HandlerOwned => ChannelOutlivesHandler
  BY DEF HandlerOwned, HeldElsewhere, ChannelOutlivesHandler, DestroyedInHandler, Alive
<1> QED
  BY <1>1, <1>2, <1>3, TypeCorrect, InterestInvariance, PTL DEF SafeSpec
=============================================================================
