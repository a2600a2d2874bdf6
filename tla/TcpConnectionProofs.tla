------------------------ MODULE TcpConnectionProofs -------------------------
(***************************************************************************)
(* Theorems about TcpConnection, for messages of any length, any number of *)
(* threads and any bounds: its output path, sendInLoop(), handleWrite()    *)
(* and shutdownInLoop() between the calls of a client; then its assertions *)
(* and its lifetime.                                                       *)
(***************************************************************************)
EXTENDS TcpConnection, SequenceTheorems, TLAPS

\* The output with its types, whatever the bounds.
OutputSound ==
  /\ outputBuffer \in Seq(Nat) /\ wire \in Seq(Nat) /\ units \in Nat
  /\ BytesInOrder

-----------------------------------------------------------------------------
(***************************************************************************)
(* Lemmas about sequences.                                                 *)
(***************************************************************************)

\* Concatenation is associative.
LEMMA Associative ==
  \A a, b, c \in Seq(Nat) : (a \o b) \o c = a \o (b \o c)
BY ConcatAssociative

\* A sequence is the first n of its elements followed by the others.
LEMMA Split ==
  \A w, d \in Seq(Nat) : \A n \in 0 .. Len(d) :
    /\ w \o SubSeq(d, 1, n) \in Seq(Nat)
    /\ SubSeq(d, n + 1, Len(d)) \in Seq(Nat)
    /\ (w \o SubSeq(d, 1, n)) \o SubSeq(d, n + 1, Len(d)) = w \o d
<1> SUFFICES ASSUME NEW w \in Seq(Nat), NEW d \in Seq(Nat), NEW n \in 0 .. Len(d)
             PROVE  /\ w \o SubSeq(d, 1, n) \in Seq(Nat)
                    /\ SubSeq(d, n + 1, Len(d)) \in Seq(Nat)
                    /\ (w \o SubSeq(d, 1, n)) \o SubSeq(d, n + 1, Len(d)) = w \o d
  OBVIOUS
<1>1. Len(d) \in Nat
  BY LenProperties
<1>2. SubSeq(d, 1, n) \in Seq(Nat) /\ SubSeq(d, n + 1, Len(d)) \in Seq(Nat)
  BY <1>1
<1>3. SubSeq(d, 1, n) \o SubSeq(d, n + 1, Len(d)) = SubSeq(d, 1, Len(d))
  <2>1. 1 \in 1 .. Len(d) + 1 /\ n \in 1 - 1 .. Len(d) /\ Len(d) \in n .. Len(d)
    BY <1>1
  <2> QED
    BY <2>1, ConcatAdjacentSubSeq, Zenon
<1>4. SubSeq(d, 1, Len(d)) = d
  BY SubSeqFull
<1>5. (w \o SubSeq(d, 1, n)) \o SubSeq(d, n + 1, Len(d))
        = w \o (SubSeq(d, 1, n) \o SubSeq(d, n + 1, Len(d)))
  BY <1>2, Associative
<1>6. w \o SubSeq(d, 1, n) \in Seq(Nat)
  BY <1>2, ConcatProperties
<1> QED
  BY <1>2, <1>3, <1>4, <1>5, <1>6

\* The next m numbers continue the sequence of the first u.
LEMMA Numbers ==
  ASSUME NEW u \in Nat, NEW m \in Nat
  PROVE  [i \in 1 .. u |-> i] \o [i \in 1 .. m |-> u + i] = [i \in 1 .. u + m |-> i]
OBVIOUS

\* A message is numbered after all units before it.
LEMMA MessageType ==
  ASSUME units \in Nat
  PROVE  Message \in Seq(Nat) /\ Len(Message) = MsgLen
<1>1. MsgLen \in Nat
  BY TcpConnectionAssumption
<1>2. \A i \in 1 .. MsgLen : units + i \in Nat
  BY <1>1
<1> QED
  BY <1>1, <1>2 DEF Message

-----------------------------------------------------------------------------
(***************************************************************************)
(* The bytes.                                                              *)
(***************************************************************************)

\* sendInLoop(): written at once, buffered, or a part of each.
LEMMA SendKeepsOrder ==
  ASSUME OutputSound, SendInLoop
  PROVE  OutputSound'
<1>1. MsgLen \in Nat \ {0}
  BY TcpConnectionAssumption
<1>2. Message \in Seq(Nat) /\ Len(Message) = MsgLen
  BY MessageType DEF OutputSound
<1>3. (wire \o outputBuffer) \o Message = [i \in 1 .. units + MsgLen |-> i]
  BY <1>1, Numbers DEF OutputSound, BytesInOrder, Message
<1>4. CASE UNCHANGED <<outputBuffer, wire, units>>
  BY <1>4 DEF OutputSound, BytesInOrder
<1>5. CASE SendWrites
  <2>1. PICK n \in 0 .. MsgLen :
          /\ wire' = wire \o SubSeq(Message, 1, n)
          /\ IF n < MsgLen
             THEN outputBuffer' = outputBuffer \o SubSeq(Message, n + 1, MsgLen)
             ELSE outputBuffer' = outputBuffer
          /\ outputBuffer = <<>> /\ units' = units + MsgLen
    BY <1>5 DEF SendWrites, WriteTakes, AppendOutput, FollowedBy
  <2> DEFINE rest == SubSeq(Message, n + 1, Len(Message))
  <2>s. /\ wire \o SubSeq(Message, 1, n) \in Seq(Nat) /\ rest \in Seq(Nat)
        /\ (wire \o SubSeq(Message, 1, n)) \o rest = wire \o Message
    <3>1. n \in 0 .. Len(Message) /\ wire \in Seq(Nat)
      BY <1>2 DEF OutputSound
    <3>2. rest = SubSeq(Message, n + 1, Len(Message))
      OBVIOUS
    <3> HIDE DEF rest
    <3> QED
      BY <3>1, <3>2, <1>2, Split
  <2>2. outputBuffer' = rest
    <3>1. CASE n < MsgLen
      <4>1. rest \in Seq(Nat) /\ rest = SubSeq(Message, n + 1, MsgLen)
        BY <2>s, <1>2
      <4> QED
        BY <3>1, <2>1, <4>1, ConcatEmptySeq
    <3>2. CASE n = MsgLen
      <4>1. rest = <<>>
        BY <3>2, <1>1, <1>2, SubSeqEmpty
      <4>2. ~(n < MsgLen)
        BY <3>2, <1>1
      <4> QED
        BY <2>1, <4>1, <4>2, Zenon
    <3>3. n < MsgLen \/ n = MsgLen
      BY <1>1
    <3> QED
      BY <3>1, <3>2, <3>3, Zenon
  <2>3. /\ wire' \in Seq(Nat) /\ outputBuffer' \in Seq(Nat)
        /\ wire' \o outputBuffer' = wire \o Message
    BY <2>1, <2>2, <2>s
  <2>4. wire \o outputBuffer = wire
    BY <2>1, ConcatEmptySeq DEF OutputSound
  <2>5. wire' \o outputBuffer' = [i \in 1 .. units + MsgLen |-> i]
    BY <2>3, <2>4, <1>3, Zenon
  <2>6. units' \in Nat
    BY <2>1, <1>1 DEF OutputSound
  <2>7. BytesInOrder'
    BY <2>1, <2>5, Zenon DEF BytesInOrder
  <2> QED
    BY <2>3, <2>6, <2>7 DEF OutputSound
<1>6. CASE SendAppends
  <2>1. /\ outputBuffer' = outputBuffer \o Message /\ wire' = wire
        /\ units' = units + MsgLen
    BY <1>6 DEF SendAppends, AppendOutput, FollowedBy, sock, sending
  <2>2. outputBuffer' \in Seq(Nat) /\ wire' \in Seq(Nat) /\ units' \in Nat
    BY <2>1, <1>1, <1>2, ConcatProperties DEF OutputSound
  <2>3. wire' \o outputBuffer' = (wire \o outputBuffer) \o Message
    <3>1. wire \in Seq(Nat) /\ outputBuffer \in Seq(Nat) /\ Message \in Seq(Nat)
      BY <1>2 DEF OutputSound
    <3>2. wire \o (outputBuffer \o Message) = (wire \o outputBuffer) \o Message
      BY <3>1, Associative
    <3> QED
      BY <2>1, <3>2, Zenon
  <2>4. BytesInOrder'
    BY <2>1, <2>3, <1>3, Zenon DEF BytesInOrder
  <2> QED
    BY <2>2, <2>4 DEF OutputSound
<1> QED
  BY <1>4, <1>5, <1>6
     DEF SendInLoop, SendIgnored, SendAsserts, SendFails, sock, sending

\* handleWrite(): what is written leaves the front of the buffer.
LEMMA WriteKeepsOrder ==
  ASSUME OutputSound, WriteEvent
  PROVE  OutputSound'
<1>1. units' = units
  BY DEF WriteEvent
<1>2. CASE UNCHANGED <<outputBuffer, wire>>
  BY <1>1, <1>2 DEF OutputSound, BytesInOrder
<1>3. ASSUME NEW n \in 1 .. Len(outputBuffer),
             wire' = wire \o SubSeq(outputBuffer, 1, n),
             outputBuffer' = SubSeq(outputBuffer, n + 1, Len(outputBuffer))
      PROVE  OutputSound'
  <2>1. n \in 0 .. Len(outputBuffer)
    BY LenProperties DEF OutputSound
  <2>2. /\ wire' \in Seq(Nat) /\ outputBuffer' \in Seq(Nat)
        /\ wire' \o outputBuffer' = wire \o outputBuffer
    <3>1. wire \in Seq(Nat) /\ outputBuffer \in Seq(Nat)
      BY DEF OutputSound
    <3> QED
      BY <2>1, <1>3, <3>1, Split
  <2> QED
    BY <1>1, <2>2 DEF OutputSound, BytesInOrder
<1> QED
  BY <1>2, <1>3 DEF WriteEvent, WriteTakes, conn, sock, sending

\* Whatever else the loop, the client, the threads and the peer do.
LEMMA OutputInvariance == SafeSpec => []OutputSound
<1>1. Init => OutputSound
  BY DEF Init, OutputSound, BytesInOrder
<1>2. OutputSound /\ [Next]_vars => OutputSound'
  <2> SUFFICES ASSUME OutputSound, [Next]_vars PROVE OutputSound'
    OBVIOUS
  <2>1. CASE UNCHANGED <<outputBuffer, wire, units>>
    BY <2>1 DEF OutputSound, BytesInOrder
  <2> USE DEF vars, conn, loop, iteration, refs, peer, sending, sock, calls,
          ConnectionUnchanged, ThreadUnchanged, PeerUnchanged
  <2>2. CASE LoopStep
    <3>1. CASE RunSend
      BY <3>1, SendKeepsOrder DEF RunSend
    <3>2. CASE WriteEvent
      BY <3>2, WriteKeepsOrder
    <3>3. CASE Establish \/ Poll \/ OtherHandler \/ BeginHandling \/ ErrorEvent
      BY <3>3, <2>1 DEF Establish, Poll, OtherHandler, BeginHandling, ErrorEvent
    <3>4. CASE CloseEvent \/ ReadEvent \/ RunForceClose
      BY <3>4, <2>1 DEF CloseEvent, ReadEvent, RunForceClose, EndOfStream, HandleClose
    <3>5. CASE EndHandling \/ CallbackReturns \/ SwapPendingJobs \/ BatchDone
      BY <3>5, <2>1 DEF EndHandling, CallbackReturns, SwapPendingJobs, BatchDone
    <3>6. CASE RunShutdown
      BY <3>6, <2>1 DEF RunShutdown, ShutdownInLoop
    <3>7. ASSUME NEW kind \in CallbackKinds, RunCallback(kind) PROVE OutputSound'
      BY <3>7, <2>1 DEF RunCallback
    <3>8. ASSUME NEW kind \in {"stopRead", "startRead"}, RunReadJob(kind)
          PROVE  OutputSound'
      BY <3>8, <2>1 DEF RunReadJob
    <3> QED
      BY <2>2, <3>1, <3>2, <3>3, <3>4, <3>5, <3>6, <3>7, <3>8 DEF LoopStep, Jobs
  <2>3. CASE PollOther \/ DestroyServer
    BY <2>3, <2>1 DEF PollOther, DestroyServer
  <2>4. CASE UserSend
    BY <2>4, SendKeepsOrder DEF UserSend
  <2>5. CASE UserShutdown \/ UserForceClose \/ UserRead \/ UserDrop
    BY <2>5, <2>1 DEF UserShutdown, UserForceClose, UserRead, UserDrop, ShutdownInLoop
  <2>6. ASSUME NEW t \in Threads, ThreadCall(t) \/ ThreadStep(t) PROVE OutputSound'
    BY <2>6, <2>1 DEF ThreadCall, ThreadStep, ThreadSend, ThreadCloses, ThreadRead,
       ThreadQueues, ThreadExchanges
  <2>7. CASE Peer
    BY <2>7, <2>1 DEF Peer, PeerSends, PeerSendsUrgent, PeerCloses, PeerResets, PeerReads
  <2>8. CASE UNCHANGED vars
    BY <2>8, <2>1
  <2> QED
    BY <2>2, <2>3, <2>4, <2>5, <2>6, <2>7, <2>8 DEF Next, UserCall
<1> QED
  BY <1>1, <1>2, PTL DEF SafeSpec

\* Whatever a client and its threads do, sendInLoop() and handleWrite() put the
\* bytes on the wire in the order of the messages, each once.
THEOREM OutputInOrder == SafeSpec => []BytesInOrder
<1>1. OutputSound => BytesInOrder
  BY DEF OutputSound
<1> QED
  BY <1>1, OutputInvariance, PTL

-----------------------------------------------------------------------------
(***************************************************************************)
(* The interest in EPOLLOUT and the FIN, when no other thread closes the   *)
(* connection: its exchange of state_ could take back kDisconnected.       *)
(***************************************************************************)

\* No call of a thread is about to exchange state_.
NoExchange ==
  /\ DOMAIN threadPc = Threads
  /\ \A t \in Threads :
       threadPc[t] \notin {"shutdown:exchange", "forceClose:exchange"}

WriteSound == OutputSound /\ NoExchange /\ WriteInterest /\ FinAfterOutput

\* Steps that leave the output, the FIN and state_ alone, and EPOLLOUT too.
LEMMA OutputUntouched ==
  ASSUME WriteInterest, FinAfterOutput, UNCHANGED <<outputBuffer, shutWr>>,
         state' = "kDisconnected" \/ ~Disconnected,
         ("OUT" \in events') = ("OUT" \in events) \/ state' = "kDisconnected"
  PROVE  WriteInterest' /\ FinAfterOutput'
BY DEF WriteInterest, FinAfterOutput, Disconnected

\* The same with state_ itself untouched.
LEMMA StateUntouched ==
  ASSUME WriteInterest, FinAfterOutput, UNCHANGED <<state, outputBuffer, shutWr>>,
         ("OUT" \in events') = ("OUT" \in events)
  PROVE  WriteInterest' /\ FinAfterOutput'
BY DEF WriteInterest, FinAfterOutput, Disconnected

\* sendInLoop(): what write() leaves over is not empty and enables EPOLLOUT, and
\* output that is waiting has kept the FIN back.
LEMMA SendKeepsInterest ==
  ASSUME OutputSound, WriteInterest, FinAfterOutput, SendInLoop, UNCHANGED state
  PROVE  WriteInterest' /\ FinAfterOutput'
<1>1. MsgLen \in Nat \ {0} /\ Message \in Seq(Nat) /\ Len(Message) = MsgLen
  BY TcpConnectionAssumption, MessageType DEF OutputSound
<1>2. CASE SendIgnored \/ SendAsserts \/ SendFails
  <2>1. UNCHANGED <<state, outputBuffer, shutWr, events>>
    BY <1>2 DEF SendIgnored, SendAsserts, SendFails, sock, sending, interest
  <2> QED
    BY <2>1, StateUntouched
<1>3. CASE SendWrites /\ ~Disconnected
  <2>1. PICK n \in 0 .. MsgLen :
          /\ WriteTakes(Message, n)
          /\ IF n < MsgLen THEN AppendOutput(SubSeq(Message, n + 1, MsgLen))
             ELSE /\ QueueCallback("writeComplete", TRUE)
                  /\ UNCHANGED <<interest, outputBuffer>>
    BY <1>3 DEF SendWrites
  <2>2. outputBuffer = <<>> /\ UNCHANGED shutWr /\ ~shutWr
    BY <1>3, <2>1 DEF SendWrites, WriteTakes, CannotWrite
  <2>3. CASE n < MsgLen
    <3> DEFINE rest == SubSeq(Message, n + 1, MsgLen)
    <3>1. outputBuffer' = outputBuffer \o rest /\ "OUT" \in events'
      BY <2>1, <2>3 DEF AppendOutput, FollowedBy, EnableWrite, SetEvents
    <3>2. rest \in Seq(Nat) /\ Len(rest) > 0
      BY <1>1, <2>3
    <3>3. outputBuffer' # <<>>
      <4> HIDE DEF rest
      <4> QED
        BY <2>2, <3>1, <3>2, ConcatEmptySeq
    <3> QED
      BY <2>2, <3>1, <3>3 DEF WriteInterest, FinAfterOutput, Disconnected
  <2>4. CASE ~(n < MsgLen)
    BY <2>1, <2>2, <2>4, StateUntouched DEF interest
  <2> QED
    BY <2>3, <2>4
<1>4. CASE SendAppends /\ ~Disconnected /\ "OUT" \in events
  <2>1. /\ outputBuffer' = outputBuffer \o Message /\ "OUT" \in events'
        /\ UNCHANGED shutWr
    BY <1>4 DEF SendAppends, AppendOutput, FollowedBy, EnableWrite, SetEvents,
       sock, sending
  <2>2. ~shutWr
    BY <1>4 DEF WriteInterest, FinAfterOutput
  <2>3. outputBuffer' # <<>>
    BY <1>1, <2>1, ConcatProperties DEF OutputSound
  <2> QED
    BY <2>1, <2>2, <2>3 DEF WriteInterest, FinAfterOutput, Disconnected
<1> QED
  BY <1>2, <1>3, <1>4 DEF SendInLoop

\* handleWrite(): EPOLLOUT ends with the last of the output, the FIN follows it.
LEMMA WriteKeepsInterest ==
  ASSUME WriteInterest, FinAfterOutput, WriteEvent
  PROVE  WriteInterest' /\ FinAfterOutput'
<1>1. CASE UNCHANGED <<state, outputBuffer, shutWr, events>>
  BY <1>1, StateUntouched
<1>2. CASE /\ ~Disconnected /\ "OUT" \in events /\ UNCHANGED state /\ ~CannotWrite
           /\ IF outputBuffer' = <<>>
              THEN OutputDone
              ELSE UNCHANGED <<interest, shutWr, pendingJobs>>
  <2>1. ~shutWr
    BY <1>2 DEF CannotWrite
  <2>2. CASE outputBuffer' = <<>>
    BY <1>2, <2>2 DEF OutputDone, DisableWrite, SetEvents, WriteInterest,
       FinAfterOutput, Disconnected
  <2>3. CASE outputBuffer' # <<>>
    BY <1>2, <2>1, <2>3 DEF interest, WriteInterest, FinAfterOutput, Disconnected
  <2> QED
    BY <2>2, <2>3
<1> QED
  BY <1>1, <1>2 DEF WriteEvent, WriteTakes, conn, sock, sending, interest

\* shutdownInLoop(): EPOLLOUT is off only when nothing waits.
LEMMA ShutdownKeepsInterest ==
  ASSUME WriteInterest, FinAfterOutput, ShutdownInLoop,
         UNCHANGED <<outputBuffer, interest>>,
         state' = state \/ ~Disconnected
  PROVE  WriteInterest' /\ FinAfterOutput'
BY DEF WriteInterest, FinAfterOutput, ShutdownInLoop, MaySendFin, Disconnected,
   interest

\* handleClose(): the connection is disconnected, or nothing has changed.
LEMMA CloseKeepsInterest ==
  ASSUME WriteInterest, FinAfterOutput, HandleClose, UNCHANGED shutWr
  PROVE  WriteInterest' /\ FinAfterOutput'
<1>1. UNCHANGED <<state, outputBuffer, events>> \/ state' = "kDisconnected"
  BY DEF HandleClose, conn, interest
<1>2. UNCHANGED outputBuffer
  BY DEF HandleClose, conn
<1> QED
  BY <1>1, <1>2, OutputUntouched, StateUntouched

\* stopRead() and startRead() leave EPOLLOUT as it is.
LEMMA ReadKeepsInterest ==
  ASSUME StopReadInLoop \/ StartReadInLoop
  PROVE  ("OUT" \in events') = ("OUT" \in events)
BY DEF StopReadInLoop, StartReadInLoop, DisableRead, EnableRead, SetEvents, interest

\* One step of the loop thread.
LEMMA LoopKeepsInterest ==
  ASSUME OutputSound, WriteInterest, FinAfterOutput, LoopStep
  PROVE  WriteInterest' /\ FinAfterOutput'
<1> USE DEF conn, interest, refs, peer, sock, sending, calls, iteration,
        ConnectionUnchanged
<1>1. CASE Establish
  <2>1. /\ ~Disconnected /\ UNCHANGED <<outputBuffer, shutWr>>
        /\ ("OUT" \in events') = ("OUT" \in events)
    BY <1>1 DEF Establish, Disconnected, ConnectEstablished, EnableRead, SetEvents
  <2> QED
    BY <2>1, OutputUntouched
<1>2. CASE Poll \/ OtherHandler \/ BeginHandling \/ ErrorEvent \/ EndHandling
           \/ CallbackReturns \/ SwapPendingJobs \/ BatchDone
  BY <1>2, StateUntouched DEF Poll, OtherHandler, BeginHandling, ErrorEvent,
     EndHandling, CallbackReturns, SwapPendingJobs, BatchDone
<1>3. CASE CloseEvent
  BY <1>3, CloseKeepsInterest DEF CloseEvent
<1>4. CASE ReadEvent
  <2>1. CASE UNCHANGED conn
    BY <1>4, <2>1, StateUntouched DEF ReadEvent
  <2>2. CASE HandleClose
    BY <1>4, <2>2, CloseKeepsInterest DEF ReadEvent
  <2> QED
    BY <1>4, <2>1, <2>2 DEF ReadEvent, EndOfStream
<1>5. CASE WriteEvent
  BY <1>5, WriteKeepsInterest
<1>6. CASE RunSend
  BY <1>6, SendKeepsInterest DEF RunSend
<1>7. CASE RunShutdown
  BY <1>7, ShutdownKeepsInterest DEF RunShutdown
<1>8. CASE RunForceClose
  <2>1. CASE UNCHANGED conn
    BY <1>8, <2>1, StateUntouched DEF RunForceClose
  <2>2. CASE HandleClose
    BY <1>8, <2>2, CloseKeepsInterest DEF RunForceClose
  <2> QED
    BY <1>8, <2>1, <2>2 DEF RunForceClose
<1>9. ASSUME NEW kind \in CallbackKinds, RunCallback(kind)
      PROVE  WriteInterest' /\ FinAfterOutput'
  BY <1>9, StateUntouched DEF RunCallback
<1>10. ASSUME NEW kind \in {"stopRead", "startRead"}, RunReadJob(kind)
       PROVE  WriteInterest' /\ FinAfterOutput'
  <2>1. ("OUT" \in events') = ("OUT" \in events)
    BY <1>10, ReadKeepsInterest DEF RunReadJob
  <2> QED
    BY <1>10, <2>1, StateUntouched DEF RunReadJob
<1> QED
  BY <1>1, <1>2, <1>3, <1>4, <1>5, <1>6, <1>7, <1>8, <1>9, <1>10 DEF LoopStep, Jobs

\* The exchange of state_ is only ever begun by a thread that closes.
LEMMA NobodyExchanges ==
  ASSUME "threadClose" \notin Usage, NoExchange, [Next]_vars
  PROVE  NoExchange'
<1>1. CASE UNCHANGED threadPc
  BY <1>1 DEF NoExchange
<1>2. ASSUME NEW t \in Threads, ThreadCall(t) \/ ThreadStep(t)
      PROVE  NoExchange'
  BY <1>2 DEF NoExchange, ThreadCall, ThreadStep, ThreadSend, ThreadCloses,
     ThreadRead, ThreadQueues, ThreadExchanges, GoTo
<1>3. CASE LoopStep \/ PollOther \/ DestroyServer
  BY <1>1, <1>3 DEF LoopStep, Establish, Poll, OtherHandler, BeginHandling,
     CloseEvent, ErrorEvent, ReadEvent, WriteEvent, EndHandling, CallbackReturns,
     SwapPendingJobs, Jobs, RunSend, RunShutdown, RunForceClose, RunCallback,
     RunReadJob, BatchDone, PollOther, DestroyServer, ConnectionUnchanged, calls
<1>4. CASE UserCall \/ Peer
  BY <1>1, <1>4 DEF UserCall, UserSend, UserShutdown, UserForceClose, UserRead,
     UserDrop, Peer, PeerSends, PeerSendsUrgent, PeerCloses, PeerResets, PeerReads,
     PeerUnchanged,
     calls
<1>5. CASE UNCHANGED vars
  BY <1>1, <1>5 DEF vars, calls
<1> QED
  BY <1>2, <1>3, <1>4, <1>5 DEF Next

\* EPOLLOUT and the FIN, whatever else happens.
LEMMA InterestInvariance ==
  ASSUME "threadClose" \notin Usage
  PROVE  SafeSpec => []WriteSound
<1>1. Init => WriteSound
  <2>1. Init => NoExchange
    BY DEF Init, NoExchange
  <2>2. Init => OutputSound /\ WriteInterest /\ FinAfterOutput
    BY DEF Init, OutputSound, BytesInOrder, WriteInterest, FinAfterOutput
  <2> QED
    BY <2>1, <2>2 DEF WriteSound
<1>2. OutputSound' /\ WriteSound /\ [Next]_vars => WriteSound'
  <2> SUFFICES ASSUME OutputSound', WriteSound, [Next]_vars PROVE WriteSound'
    OBVIOUS
  <2>1. NoExchange'
    BY NobodyExchanges DEF WriteSound
  <2>2. WriteInterest' /\ FinAfterOutput'
    <3> USE DEF vars, conn, interest, loop, refs, peer, sock, sending, calls
    <3>1. OutputSound /\ WriteInterest /\ FinAfterOutput /\ NoExchange
      BY DEF WriteSound
    <3>2. CASE LoopStep
      BY <3>1, <3>2, LoopKeepsInterest
    <3>3. CASE PollOther \/ DestroyServer \/ UserDrop
      BY <3>1, <3>3, StateUntouched DEF PollOther, DestroyServer, UserDrop,
         ConnectionUnchanged
    <3>4. CASE UserSend
      BY <3>1, <3>4, SendKeepsInterest DEF UserSend
    <3>5. CASE UserShutdown
      <4>1. CASE UNCHANGED <<state, sock>>
        BY <3>1, <3>5, <4>1, StateUntouched DEF UserShutdown
      <4>2. CASE ~Disconnected /\ ShutdownInLoop
        BY <3>1, <3>5, <4>2, ShutdownKeepsInterest DEF UserShutdown
      <4> QED
        BY <3>5, <4>1, <4>2 DEF UserShutdown, Disconnected
    <3>6. CASE UserForceClose
      BY <3>1, <3>6, OutputUntouched DEF UserForceClose
    <3>7. CASE UserRead
      <4>1. ("OUT" \in events') = ("OUT" \in events)
        BY <3>7, ReadKeepsInterest DEF UserRead
      <4> QED
        BY <3>1, <3>7, <4>1, StateUntouched DEF UserRead
    <3>8. ASSUME NEW t \in Threads, ThreadCall(t) \/ ThreadStep(t)
          PROVE  WriteInterest' /\ FinAfterOutput'
      <4>1. ~ThreadExchanges(t)
        BY <3>1 DEF ThreadExchanges, NoExchange
      <4>2. UNCHANGED <<state, outputBuffer, shutWr, events>>
        BY <3>8, <4>1 DEF ThreadCall, ThreadStep, ThreadSend, ThreadCloses,
           ThreadRead, ThreadQueues, ThreadUnchanged
      <4> QED
        BY <3>1, <4>2, StateUntouched
    <3>9. CASE Peer
      BY <3>1, <3>9, StateUntouched DEF Peer, PeerSends, PeerSendsUrgent,
         PeerCloses, PeerResets, PeerReads, PeerUnchanged
    <3>10. CASE UNCHANGED vars
      BY <3>1, <3>10, StateUntouched
    <3> QED
      BY <3>2, <3>3, <3>4, <3>5, <3>6, <3>7, <3>8, <3>9, <3>10 DEF Next, UserCall
  <2> QED
    BY <2>1, <2>2 DEF WriteSound
<1> QED
  BY <1>1, <1>2, OutputInvariance, PTL DEF SafeSpec

\* EPOLLOUT is watched exactly while output waits, if no other thread closes the
\* connection: sendInLoop(), handleWrite() and handleClose() agree on it.
THEOREM WatchedWhileOutputWaits ==
  ASSUME "threadClose" \notin Usage
  PROVE  SafeSpec => []WriteInterest
<1>1. WriteSound => WriteInterest
  BY DEF WriteSound
<1> QED
  BY <1>1, InterestInvariance, PTL

\* Under the same condition shutdown() puts the FIN behind all the output.
THEOREM FinComesLast ==
  ASSUME "threadClose" \notin Usage
  PROVE  SafeSpec => []FinAfterOutput
<1>1. WriteSound => FinAfterOutput
  BY DEF WriteSound
<1> QED
  BY <1>1, InterestInvariance, PTL

-----------------------------------------------------------------------------
(***************************************************************************)
(* The assertions and the lifetime, for clients whose calls reach an open  *)
(* connection: the other threads only send, and nobody starts reading      *)
(* after the close.  What else a client may do is stop reading, drop its   *)
(* reference, call shutdown() too late, and destroy the server.            *)
(***************************************************************************)

\* disableRead() leaves EPOLLPRI watched: a close and an urgent byte reported
\* together would call handleRead() for a closed connection.
NoUrgentWhileStopped == ~({"stopRead", "urgent"} \subseteq Usage)

CallsInTime ==
  /\ Usage \subseteq {"dropRef", "lateShutdown", "destroyServer", "stopRead", "urgent"}
  /\ NoUrgentWhileStopped

Live == state \in {"kConnected", "kDisconnecting"}

\* What an open connection is watched for: EPOLLPRI whatever the client does, and
\* EPOLLIN until a client stops reading.
Watches(ev) == "PRI" \in ev /\ ("IN" \in ev \/ "stopRead" \in Usage)

\* Until it is closed a connection is in the epoll set and, while the server
\* exists, in the server's set, and not after.  The client has it as long, and
\* under a handler, unless it drops references early.
Registered ==
  /\ Disconnected \/ Live \/ state = "kConnecting"
  /\ Live => polling /\ Watches(events)
  /\ Disconnected => ~polling /\ events = {}
  /\ phase = "returned" => "destroyServer" \in Usage
  /\ phase # "returned" =>
       /\ ~Disconnected => serverRef
       /\ "dropRef" \notin Usage /\ (Live \/ handling) => userRef

\* What epoll_wait reported is of use until handleClose(): it reports a close or
\* something to read, not both, and EPOLLOUT stays on until handleWrite().
ReportsSound ==
  /\ revents # {} \/ handling => phase = "dispatch"
  /\ revents # {} /\ ~handling => Live
  /\ "close" \in revents \/ "read" \in revents => Live
  /\ ~("close" \in revents /\ "read" \in revents)
  /\ "write" \in revents /\ ~Disconnected => "OUT" \in events

\* Nothing happens before connectEstablished().
NotYetUp ==
  state = "kConnecting" =>
    phase = "dispatch" /\ callback = "none" /\ revents = {} /\ ~handling /\ ~other

\* The jobs that hold a reference to the connection.
HoldingJobs == JobKinds \ {"stopRead", "startRead"}

JobsHold == pendingJobs \in Seq(HoldingJobs) /\ jobs \in Seq(HoldingJobs)

\* The only assertion that fails is the one of a late shutdown().
FaultSound == fault = "none" \/ (fault = "shutdown: state_" /\ "lateShutdown" \in Usage)

Disciplined ==
  Registered /\ ReportsSound /\ NotYetUp /\ JobsHold /\ FaultSound

\* queueInLoop() of a job that holds a reference.
LEMMA QueuedHolds ==
  ASSUME JobsHold, NEW job \in HoldingJobs
  PROVE  Append(pendingJobs, job) \in Seq(HoldingJobs)
BY AppendProperties DEF JobsHold

\* A callback of the user is such a job.
LEMMA CallbackHolds ==
  ASSUME JobsHold, NEW cb \in CallbackKinds, NEW due, QueueCallback(cb, due)
  PROVE  pendingJobs' \in Seq(HoldingJobs)
<1>1. cb \in HoldingJobs
  BY DEF CallbackKinds, HoldingJobs, JobKinds
<1>2. pendingJobs' = pendingJobs \/ pendingJobs' = Append(pendingJobs, cb)
  BY DEF QueueCallback
<1>3. Append(pendingJobs, cb) \in Seq(HoldingJobs)
  BY <1>1, QueuedHolds
<1> QED
  BY <1>2, <1>3 DEF JobsHold

\* A step in which the interest set of an open connection changes, or nothing
\* that the invariant speaks of.
LEMMA InterestChange ==
  ASSUME Registered, ReportsSound, NotYetUp,
         UNCHANGED <<state, serverRef, userRef, handling, phase>>,
         revents' \subseteq revents,
         callback' = callback \/ state # "kConnecting", other' = other,
         \/ UNCHANGED <<events, polling>>
         \/ /\ Live /\ polling' /\ Watches(events')
            /\ "OUT" \in events => "OUT" \in events' \/ "write" \notin revents'
  PROVE  Registered' /\ ReportsSound' /\ NotYetUp'
<1>1. Registered'
  BY DEF Registered, Live, Disconnected
<1>2. ReportsSound'
  BY DEF Registered, ReportsSound, Live, Disconnected
<1>3. NotYetUp'
  BY DEF NotYetUp, Live
<1> QED
  BY <1>1, <1>2, <1>3

\* sendInLoop() keeps what is watched and its assertion, by WriteInterest.
LEMMA SendDisciplined ==
  ASSUME WriteInterest, JobsHold, Registered, state # "kConnecting", SendInLoop
  PROVE  /\ fault' = fault /\ pendingJobs' \in Seq(HoldingJobs)
         /\ \/ UNCHANGED <<events, polling>>
            \/ /\ Live /\ polling' /\ Watches(events')
               /\ "OUT" \in events => "OUT" \in events'
<1>1. ASSUME ~Disconnected, NEW rest, AppendOutput(rest)
      PROVE  /\ pendingJobs' \in Seq(HoldingJobs)
             /\ Live /\ polling' /\ Watches(events')
             /\ "OUT" \in events => "OUT" \in events'
  <2>1. Live /\ Watches(events)
    BY <1>1 DEF Registered
  <2>2. pendingJobs' \in Seq(HoldingJobs)
    BY <1>1, CallbackHolds DEF AppendOutput, CallbackKinds
  <2> QED
    BY <1>1, <2>1, <2>2 DEF AppendOutput, EnableWrite, SetEvents, Watches
<1>2. CASE Disconnected /\ SendIgnored
  BY <1>2 DEF SendIgnored, interest, JobsHold
<1>3. CASE ~Disconnected /\ "OUT" \notin events /\ (SendAsserts \/ SendFails)
  BY <1>3 DEF SendAsserts, SendFails, WriteInterest, interest, JobsHold
<1>4. CASE ~Disconnected /\ SendWrites
  <2>1. PICK n \in 0 .. MsgLen :
          IF n < MsgLen THEN AppendOutput(SubSeq(Message, n + 1, MsgLen))
          ELSE /\ QueueCallback("writeComplete", TRUE)
               /\ UNCHANGED <<interest, outputBuffer>>
    BY <1>4 DEF SendWrites
  <2>2. fault' = fault
    BY <1>4 DEF SendWrites
  <2>3. CASE n < MsgLen
    BY <1>1, <1>4, <2>1, <2>2, <2>3
  <2>4. CASE ~(n < MsgLen)
    BY <2>1, <2>2, <2>4, CallbackHolds DEF CallbackKinds, interest
  <2> QED
    BY <2>3, <2>4
<1>5. CASE ~Disconnected /\ SendAppends
  BY <1>1, <1>5 DEF SendAppends
<1> QED
  BY <1>2, <1>3, <1>4, <1>5 DEF SendInLoop

\* handleClose(): its assertions, and those of updateChannel() and
\* closeConnection(), hold for an open connection.
LEMMA CloseDisciplined ==
  ASSUME Registered, Live, phase # "returned", HandleClose
  PROVE  /\ state' = "kDisconnected" /\ events' = {} /\ ~polling'
         /\ callback' = "down" /\ fault' = fault
<1>1. CloseFault = "none"
  BY DEF CloseFault, Registered, Live, Disconnected
<1> QED
  BY <1>1 DEF HandleClose, DisableAll, SetEvents, CloseConnection

\* A channel with an event left is polled.
LEMMA SetEventsPolls ==
  ASSUME NEW ev, NEW e \in ev, SetEvents(ev)
  PROVE  events' = ev /\ polling'
<1>1. events' = ev /\ polling' = (ev # {})
  BY DEF SetEvents
<1>2. ev # {}
  OBVIOUS
<1> QED
  BY <1>1, <1>2

\* stopRead() and startRead() of an open connection leave EPOLLPRI and EPOLLOUT.
LEMMA ReadDisciplined ==
  ASSUME Registered, Live \/ Disconnected,
         \/ "stopRead" \in Usage /\ StopReadInLoop
         \/ ~Disconnected /\ StartReadInLoop
  PROVE  \/ UNCHANGED <<events, polling>>
         \/ /\ Live /\ polling' /\ Watches(events')
            /\ "OUT" \in events => "OUT" \in events'
<1>1. CASE "stopRead" \in Usage /\ StopReadInLoop /\ "IN" \in events
  <2>1. Live /\ Watches(events \ {"IN"})
    BY <1>1 DEF Registered, Watches, Disconnected
  <2>2. SetEvents(events \ {"IN"})
    BY <1>1 DEF StopReadInLoop, DisableRead
  <2>3. events' = events \ {"IN"} /\ polling'
    <3>1. "PRI" \in events \ {"IN"}
      BY <2>1 DEF Watches
    <3> QED
      BY <2>2, <3>1, SetEventsPolls
  <2> QED
    BY <2>1, <2>3
<1>2. CASE ~Disconnected /\ StartReadInLoop /\ "IN" \notin events
  <2>1. SetEvents(events \cup {"IN", "PRI"})
    BY <1>2 DEF StartReadInLoop, EnableRead
  <2>2. events' = events \cup {"IN", "PRI"} /\ polling'
    <3>1. "PRI" \in events \cup {"IN", "PRI"}
      OBVIOUS
    <3> QED
      BY <2>1, <3>1, SetEventsPolls
  <2>3. Live /\ Watches(events \cup {"IN", "PRI"})
    BY <1>2 DEF Watches
  <2> QED
    BY <1>2, <2>2, <2>3
<1> QED
  BY <1>1, <1>2 DEF StopReadInLoop, StartReadInLoop, interest

-----------------------------------------------------------------------------
(***************************************************************************)
(* The steps of the loop thread.                                           *)
(***************************************************************************)

\* An urgent byte comes from peers that send urgent data.
UrgentKnown == urg => "urgent" \in Usage

LEMMA UrgentInvariance == SafeSpec => []UrgentKnown
<1>1. Init => UrgentKnown
  BY DEF Init, UrgentKnown
<1>2. UrgentKnown /\ [Next]_vars => UrgentKnown'
  <2> SUFFICES ASSUME UrgentKnown, [Next]_vars PROVE UrgentKnown'
    OBVIOUS
  <2> USE DEF UrgentKnown, peer, ConnectionUnchanged, ThreadUnchanged
  <2>1. CASE UNCHANGED urg
    BY <2>1
  <2>2. CASE ReadEvent
    BY <2>2 DEF ReadEvent
  <2>3. CASE LoopStep /\ ~ReadEvent
    BY <2>1, <2>3 DEF LoopStep, Establish, Poll, OtherHandler, BeginHandling,
       CloseEvent, ErrorEvent, WriteEvent, EndHandling, CallbackReturns,
       SwapPendingJobs, Jobs, RunSend, RunShutdown, RunForceClose, RunCallback,
       RunReadJob, BatchDone
  <2>4. CASE PollOther \/ DestroyServer \/ UserCall
    BY <2>1, <2>4 DEF PollOther, DestroyServer, UserCall, UserSend, UserShutdown,
       UserForceClose, UserRead, UserDrop
  <2>5. ASSUME NEW t \in Threads, ThreadCall(t) \/ ThreadStep(t) PROVE UNCHANGED urg
    BY <2>5 DEF ThreadCall, ThreadStep, ThreadSend, ThreadCloses, ThreadRead,
       ThreadQueues, ThreadExchanges
  <2>6. CASE Peer
    BY <2>6 DEF Peer, PeerSends, PeerSendsUrgent, PeerCloses, PeerResets, PeerReads
  <2> QED
    BY <2>1, <2>2, <2>3, <2>4, <2>5, <2>6 DEF Next, vars
<1> QED
  BY <1>1, <1>2, PTL DEF SafeSpec

\* epoll_wait and the handlers of other channels.
LEMMA PollDisciplined ==
  ASSUME CallsInTime, UrgentKnown, Disciplined,
         Establish \/ Poll \/ PollOther \/ OtherHandler
  PROVE  Disciplined'
<1> USE DEF Disciplined, FaultSound, conn, interest, refs, peer, sock, sending, calls,
        iteration, ConnectionUnchanged, At
<1>1. CASE Establish
  <2>1. /\ state = "kConnecting" /\ state' = "kConnected" /\ polling'
        /\ Watches(events') /\ userRef' /\ serverRef' = serverRef /\ phase = "dispatch"
        /\ UNCHANGED <<phase, revents, handling, jobs, pendingJobs, fault>>
    BY <1>1 DEF Establish, ConnectEstablished, EnableRead, SetEvents, Watches
  <2> QED
    BY <2>1 DEF Registered, ReportsSound, NotYetUp, JobsHold, Live, Disconnected
<1>2. CASE Poll
  <2>1. /\ phase = "poll" /\ phase' = "dispatch" /\ revents' = Reported
        /\ UNCHANGED <<state, events, polling, serverRef, userRef, handling, jobs,
                       pendingJobs, fault>>
    BY <1>2 DEF Poll
  <2>2. ~handling /\ state # "kConnecting"
    BY <2>1 DEF ReportsSound, NotYetUp
  <2>3. ASSUME Reported # {} PROVE Live
    BY <2>2, <2>3 DEF Reported, Registered
  <2>4. /\ ~("close" \in Reported /\ "read" \in Reported)
        /\ "write" \in Reported => "OUT" \in events
    <3>1. ASSUME "close" \in Reported, "read" \in Reported PROVE FALSE
      <4>1. /\ (rst \/ fin) /\ ~("IN" \in events /\ (rcv \/ fin \/ rst))
            /\ "PRI" \in events /\ urg
        BY <3>1 DEF Reported, HangUpOnly
      <4>2. Live
        BY <2>3, <3>1
      <4>3. {"stopRead", "urgent"} \subseteq Usage
        BY <4>1, <4>2 DEF Registered, Watches, UrgentKnown
      <4> QED
        BY <4>3 DEF CallsInTime, NoUrgentWhileStopped
    <3> QED
      BY <3>1 DEF Reported
  <2>5. Registered' /\ NotYetUp' /\ JobsHold'
    BY <2>1, <2>2 DEF Registered, NotYetUp, JobsHold, Live, Disconnected
  <2>6. ReportsSound'
    <3> HIDE DEF Disciplined
    <3>1. Live' <=> Live
      BY <2>1 DEF Live
    <3> QED
      BY <2>1, <2>2, <2>3, <2>4, <3>1 DEF ReportsSound
  <2> QED
    BY <2>1, <2>5, <2>6
<1>3. CASE PollOther
  <2>1. /\ phase = "poll" /\ phase' = "dispatch"
        /\ UNCHANGED <<state, events, polling, serverRef, userRef, handling, revents,
                       jobs, pendingJobs, fault>>
    BY <1>3 DEF PollOther
  <2>2. ~handling /\ revents = {} /\ state # "kConnecting"
    BY <2>1 DEF ReportsSound, NotYetUp
  <2> QED
    BY <2>1, <2>2 DEF Registered, ReportsSound, NotYetUp, JobsHold, Live, Disconnected
<1>4. CASE OtherHandler
  <2>1. /\ other
        /\ UNCHANGED <<state, events, polling, serverRef, userRef, handling, revents,
                       phase, jobs, pendingJobs, fault>>
    BY <1>4 DEF OtherHandler
  <2>2. state # "kConnecting"
    BY <2>1 DEF NotYetUp
  <2> QED
    BY <2>1, <2>2 DEF Registered, ReportsSound, NotYetUp, JobsHold, Live, Disconnected
<1> QED
  BY <1>1, <1>2, <1>3, <1>4

\* handleEventsWithGuard(): begin and end.
LEMMA HandlingDisciplined ==
  ASSUME Disciplined, BeginHandling \/ EndHandling \/ CallbackReturns
  PROVE  Disciplined'
<1> USE DEF Disciplined, FaultSound, conn, interest, refs, peer, sock, sending, calls,
        iteration, ConnectionUnchanged, At
<1>1. CASE BeginHandling
  <2>1. revents # {} /\ ~handling /\ Live /\ phase = "dispatch"
    BY <1>1 DEF BeginHandling, ReportsSound
  <2>2. Alive /\ ("dropRef" \notin Usage => userRef)
    BY <2>1 DEF Registered, Alive, Live, Disconnected
  <2>3. /\ handling' = TRUE
        /\ UNCHANGED <<state, events, polling, serverRef, userRef, revents, phase,
                       callback, other, jobs, pendingJobs, fault>>
    BY <1>1, <2>2 DEF BeginHandling
  <2> QED
    BY <2>1, <2>2, <2>3 DEF Registered, ReportsSound, NotYetUp,
       JobsHold, Live, Disconnected
<1>2. CASE EndHandling
  <2>1. /\ handling' = FALSE /\ revents = {}
        /\ UNCHANGED <<state, events, polling, serverRef, userRef, revents, phase,
                       callback, other, jobs, pendingJobs, fault>>
    BY <1>2 DEF EndHandling
  <2> QED
    BY <2>1 DEF Registered, ReportsSound, NotYetUp, JobsHold, Live, Disconnected
<1>3. CASE CallbackReturns
  <2>1. /\ callback # "none" /\ callback' = "none"
        /\ UNCHANGED <<state, events, polling, serverRef, userRef, handling, revents,
                       phase, other, jobs, pendingJobs, fault>>
    BY <1>3 DEF CallbackReturns
  <2> QED
    BY <2>1 DEF Registered, ReportsSound, NotYetUp, JobsHold, Live, Disconnected
<1> QED
  BY <1>1, <1>2, <1>3

\* handleClose() from one of the handlers.
LEMMA ClosedInHandler ==
  ASSUME Disciplined, HandleClose, NEW cb \in {"close", "read"}, cb \in revents,
         handling, revents' = revents \ {cb},
         UNCHANGED <<phase, handling, jobs, pendingJobs, userRef>>
  PROVE  Disciplined'
<1>1. Live /\ phase # "returned"
  BY DEF Disciplined, ReportsSound
<1>2. /\ state' = "kDisconnected" /\ events' = {} /\ ~polling' /\ fault' = fault
  BY <1>1, CloseDisciplined DEF Disciplined
<1>3. "close" \notin revents' /\ "read" \notin revents'
  BY DEF Disciplined, ReportsSound
<1>4. Registered' /\ NotYetUp' /\ JobsHold'
  BY <1>1, <1>2 DEF Disciplined, Registered, NotYetUp, JobsHold, Live, Disconnected
<1>5. ReportsSound'
  BY <1>2, <1>3 DEF Disciplined, ReportsSound, Live, Disconnected
<1> QED
  BY <1>2, <1>4, <1>5 DEF Disciplined, FaultSound

\* The four callbacks of handleEventsWithGuard().
LEMMA EventDisciplined ==
  ASSUME Disciplined, WriteInterest,
         CloseEvent \/ ErrorEvent \/ ReadEvent \/ WriteEvent
  PROVE  Disciplined'
<1> USE DEF conn, interest, refs, peer, sock, sending, calls, iteration
<1>0. /\ Registered /\ ReportsSound /\ NotYetUp /\ JobsHold /\ FaultSound
  BY DEF Disciplined
<1>1. CASE CloseEvent
  BY <1>1, ClosedInHandler DEF CloseEvent, Turn
<1>2. CASE ErrorEvent
  <2>1. /\ revents' \subseteq revents
        /\ UNCHANGED <<state, events, polling, serverRef, userRef, handling, phase,
                       callback, other, jobs, pendingJobs, fault>>
    BY <1>2 DEF ErrorEvent, Turn
  <2> QED
    BY <1>0, <2>1, InterestChange DEF Disciplined, FaultSound, JobsHold
<1>3. CASE ReadEvent
  <2>1. /\ "read" \in revents /\ handling /\ revents' = revents \ {"read"}
        /\ UNCHANGED <<phase, handling, other, jobs, pendingJobs, userRef>>
    BY <1>3 DEF ReadEvent, Turn
  <2>2. Live /\ ~Disconnected /\ state # "kConnecting"
    BY <1>0, <2>1 DEF ReportsSound, Live, Disconnected
  <2>3. CASE HandleClose
    BY <2>1, <2>3, ClosedInHandler
  <2>4. CASE UNCHANGED <<state, events, polling, serverRef, fault>>
    <3>1. Registered' /\ ReportsSound' /\ NotYetUp'
      BY <1>0, <2>1, <2>2, <2>4, InterestChange
    <3> QED
      BY <1>0, <2>1, <2>4, <3>1 DEF Disciplined, FaultSound, JobsHold
  <2> QED
    BY <1>3, <2>2, <2>3, <2>4 DEF ReadEvent, EndOfStream
<1>4. CASE WriteEvent
  <2>1. /\ "write" \in revents /\ handling /\ revents' = revents \ {"write"}
        /\ UNCHANGED <<state, phase, handling, callback, other, jobs, serverRef,
                       userRef>>
    BY <1>4 DEF WriteEvent, Turn
  <2>2. ~Disconnected => "OUT" \in events /\ outputBuffer # <<>> /\ Live
    BY <1>0, <2>1 DEF ReportsSound, WriteInterest, NotYetUp, Registered
  <2>3. fault' = fault
    BY <1>4, <2>2 DEF WriteEvent
  <2>4. CASE UNCHANGED <<events, polling, pendingJobs>>
    <3>1. Registered' /\ ReportsSound' /\ NotYetUp'
      BY <1>0, <2>1, <2>4, InterestChange
    <3> QED
      BY <1>0, <2>1, <2>3, <2>4, <3>1 DEF Disciplined, FaultSound, JobsHold
  <2>5. CASE OutputDone /\ ~Disconnected
    <3>1. Live /\ polling' /\ Watches(events')
      <4>1. Live /\ Watches(events \ {"OUT"}) /\ "PRI" \in events \ {"OUT"}
        BY <1>0, <2>2, <2>5 DEF Registered, Watches
      <4>2. SetEvents(events \ {"OUT"})
        BY <2>5 DEF OutputDone, DisableWrite
      <4>3. events' = events \ {"OUT"} /\ polling'
        BY <4>1, <4>2, SetEventsPolls
      <4> QED
        BY <4>1, <4>3
    <3>2. Registered' /\ ReportsSound' /\ NotYetUp'
      BY <1>0, <2>1, <3>1, InterestChange
    <3>3. pendingJobs' \in Seq(HoldingJobs)
      BY <1>0, <2>5, CallbackHolds DEF OutputDone, CallbackKinds
    <3> QED
      BY <1>0, <2>1, <2>3, <3>2, <3>3 DEF Disciplined, FaultSound, JobsHold
  <2> QED
    BY <1>4, <2>2, <2>4, <2>5 DEF WriteEvent
<1> QED
  BY <1>1, <1>2, <1>3, <1>4

\* doPendingJobs(): forceCloseInLoop() closes what is open, and the jobs with a
\* bare this do not occur.
LEMMA JobDisciplined ==
  ASSUME Disciplined, WriteInterest, SwapPendingJobs \/ Jobs \/ BatchDone
  PROVE  Disciplined'
<1> USE DEF conn, interest, refs, peer, sock, sending, calls, iteration,
        ConnectionUnchanged, At
<1>0. /\ Registered /\ ReportsSound /\ NotYetUp /\ JobsHold /\ FaultSound
  BY DEF Disciplined
<1>1. CASE SwapPendingJobs
  <2>1. /\ state # "kConnecting" /\ revents = {} /\ ~handling
        /\ phase = "dispatch" /\ phase' = "jobs"
        /\ jobs' = pendingJobs /\ pendingJobs' = <<>>
        /\ UNCHANGED <<state, events, polling, serverRef, userRef, handling, revents,
                       fault>>
    BY <1>1 DEF SwapPendingJobs
  <2>2. JobsHold'
    BY <1>0, <2>1 DEF JobsHold
  <2> QED
    BY <1>0, <2>1, <2>2 DEF Disciplined, FaultSound, Registered, ReportsSound, NotYetUp,
       Live, Disconnected
<1>2. CASE BatchDone
  <2>1. /\ phase = "jobs" /\ phase' = "poll"
        /\ UNCHANGED <<state, events, polling, serverRef, userRef, handling, revents,
                       jobs, pendingJobs, fault>>
    BY <1>2 DEF BatchDone
  <2>2. revents = {} /\ ~handling /\ state # "kConnecting"
    BY <1>0, <2>1 DEF ReportsSound, NotYetUp
  <2> QED
    BY <1>0, <2>1, <2>2 DEF Disciplined, FaultSound, Registered, ReportsSound, NotYetUp,
       JobsHold, Live, Disconnected
<1>3. ASSUME NEW kind, RunJob(kind)
      PROVE  /\ revents = {} /\ ~handling /\ state # "kConnecting" /\ phase = "jobs"
             /\ UNCHANGED <<phase, handling, revents, other>>
             /\ kind \in HoldingJobs /\ jobs' \in Seq(HoldingJobs)
  <2>1. /\ phase = "jobs" /\ jobs # <<>> /\ Head(jobs) = kind /\ jobs' = Tail(jobs)
        /\ UNCHANGED <<phase, handling, revents, other>>
    BY <1>3 DEF RunJob
  <2>2. revents = {} /\ ~handling /\ state # "kConnecting"
    BY <1>0, <2>1 DEF ReportsSound, NotYetUp
  <2>3. kind \in HoldingJobs /\ jobs' \in Seq(HoldingJobs)
    BY <1>0, <2>1, HeadTailProperties DEF JobsHold
  <2> QED
    BY <2>1, <2>2, <2>3
<1>4. CASE RunSend
  <2>1. /\ RunJob("send") /\ SendInLoop
        /\ UNCHANGED <<state, callback, serverRef, userRef>>
    BY <1>4 DEF RunSend
  <2>2. /\ revents = {} /\ state # "kConnecting" /\ jobs' \in Seq(HoldingJobs)
        /\ UNCHANGED <<phase, handling, revents, other>>
    BY <1>3, <2>1
  <2>3. /\ fault' = fault /\ pendingJobs' \in Seq(HoldingJobs)
        /\ \/ UNCHANGED <<events, polling>>
           \/ /\ Live /\ polling' /\ Watches(events')
              /\ "OUT" \in events => "OUT" \in events'
    BY <1>0, <2>1, <2>2, SendDisciplined
  <2>4. Registered' /\ ReportsSound' /\ NotYetUp'
    BY <1>0, <2>1, <2>2, <2>3, InterestChange
  <2> QED
    BY <1>0, <2>2, <2>3, <2>4 DEF Disciplined, FaultSound, JobsHold
<1>5. CASE RunShutdown \/ \E kind \in CallbackKinds : RunCallback(kind)
  <2>1. PICK kind : RunJob(kind)
    BY <1>5 DEF RunShutdown, RunCallback
  <2>2. UNCHANGED <<state, events, polling, serverRef, userRef, pendingJobs, fault>>
    BY <1>5 DEF RunShutdown, RunCallback
  <2>3. /\ revents = {} /\ state # "kConnecting" /\ jobs' \in Seq(HoldingJobs)
        /\ UNCHANGED <<phase, handling, revents, other>>
    BY <1>3, <2>1
  <2>4. Registered' /\ ReportsSound' /\ NotYetUp'
    BY <1>0, <2>2, <2>3, InterestChange
  <2> QED
    BY <1>0, <2>2, <2>3, <2>4 DEF Disciplined, FaultSound, JobsHold
<1>6. CASE RunForceClose
  <2>1. /\ revents = {} /\ ~handling /\ state # "kConnecting" /\ phase = "jobs"
        /\ UNCHANGED <<phase, handling, revents, other>>
        /\ jobs' \in Seq(HoldingJobs) /\ UNCHANGED <<userRef, pendingJobs>>
    BY <1>3, <1>6 DEF RunForceClose
  <2>2. CASE UNCHANGED <<state, events, polling, callback, serverRef, fault>>
    <3>1. Registered' /\ ReportsSound' /\ NotYetUp'
      BY <1>0, <2>1, <2>2, InterestChange
    <3> QED
      BY <1>0, <2>1, <2>2, <3>1 DEF Disciplined, FaultSound, JobsHold
  <2>3. CASE ~Disconnected /\ HandleClose
    <3>1. Live
      BY <1>0, <2>1, <2>3 DEF Registered, Disconnected
    <3>2. /\ state' = "kDisconnected" /\ events' = {} /\ ~polling' /\ fault' = fault
      BY <1>0, <2>1, <2>3, <3>1, CloseDisciplined
    <3> QED
      BY <1>0, <2>1, <3>1, <3>2 DEF Disciplined, FaultSound, Registered,
         ReportsSound, NotYetUp, JobsHold, Live, Disconnected
  <2> QED
    BY <1>6, <2>2, <2>3 DEF RunForceClose
<1>7. ASSUME NEW kind \in {"stopRead", "startRead"}, RunReadJob(kind) PROVE FALSE
  BY <1>3, <1>7 DEF RunReadJob, HoldingJobs
<1> QED
  BY <1>1, <1>2, <1>4, <1>5, <1>6, <1>7 DEF Jobs

-----------------------------------------------------------------------------
(***************************************************************************)
(* The client and its threads.                                             *)
(***************************************************************************)

\* What user code calls on the loop thread.
LEMMA CallDisciplined ==
  ASSUME CallsInTime, Disciplined, WriteInterest, UserCall
  PROVE  Disciplined'
<1> USE DEF conn, interest, loop, refs, peer, sock, sending, calls, iteration
<1>0. /\ Registered /\ ReportsSound /\ NotYetUp /\ JobsHold /\ FaultSound
  BY DEF Disciplined
<1>1. state # "kConnecting" /\ (Live \/ Disconnected)
  <2>1. callback # "none"
    BY DEF UserCall, UserSend, UserShutdown, UserForceClose, UserRead, UserDrop, UserCode
  <2> QED
    BY <1>0, <2>1 DEF NotYetUp, Registered
<1>2. CASE UserSend
  <2>1. SendInLoop /\ UNCHANGED <<state, callback, serverRef, userRef, phase, handling,
                                  revents, other, jobs>>
    BY <1>2 DEF UserSend
  <2>2. /\ fault' = fault /\ pendingJobs' \in Seq(HoldingJobs)
        /\ \/ UNCHANGED <<events, polling>>
           \/ /\ Live /\ polling' /\ Watches(events')
              /\ "OUT" \in events => "OUT" \in events'
    BY <1>0, <1>1, <2>1, SendDisciplined
  <2>3. Registered' /\ ReportsSound' /\ NotYetUp'
    BY <1>0, <2>1, <2>2, InterestChange
  <2> QED
    BY <1>0, <2>1, <2>2, <2>3 DEF Disciplined, FaultSound, JobsHold
<1>3. CASE (UserShutdown /\ ~Disconnected) \/ UserForceClose
  <2>1. /\ Live /\ state' = "kDisconnecting"
        /\ UNCHANGED <<events, polling, callback, serverRef, userRef, phase, handling,
                       revents, other, jobs, fault>>
    BY <1>1, <1>3 DEF UserShutdown, UserForceClose, Live, Disconnected
  <2>2. pendingJobs' \in Seq(HoldingJobs)
    <3>1. CASE pendingJobs' = pendingJobs
      BY <1>0, <3>1 DEF JobsHold
    <3>2. CASE pendingJobs' = Append(pendingJobs, "forceClose")
      <4>1. "forceClose" \in HoldingJobs
        BY DEF HoldingJobs, JobKinds
      <4> QED
        BY <1>0, <3>2, <4>1, QueuedHolds
    <3> QED
      BY <1>3, <3>1, <3>2 DEF UserShutdown, UserForceClose
  <2>3. Registered' /\ ReportsSound' /\ NotYetUp'
    BY <1>0, <2>1 DEF Registered, ReportsSound, NotYetUp, Live, Disconnected
  <2> QED
    BY <1>0, <2>1, <2>2, <2>3 DEF Disciplined, FaultSound, JobsHold
<1>4. CASE UserShutdown /\ Disconnected
  <2>1. /\ "lateShutdown" \in Usage /\ fault' = "shutdown: state_"
        /\ UNCHANGED <<state, events, polling, callback, serverRef, userRef, phase,
                       handling, revents, other, jobs, pendingJobs>>
    BY <1>4 DEF UserShutdown, Fails, Disconnected
  <2>2. Registered' /\ ReportsSound' /\ NotYetUp'
    BY <1>0, <2>1, InterestChange
  <2> QED
    BY <1>0, <2>1, <2>2 DEF Disciplined, FaultSound, JobsHold
<1>5. CASE UserRead
  <2>1. /\ \/ "stopRead" \in Usage /\ StopReadInLoop
           \/ ~Disconnected /\ StartReadInLoop
        /\ UNCHANGED <<state, callback, serverRef, userRef, phase, handling, revents,
                       other, jobs, pendingJobs, fault>>
    BY <1>5 DEF UserRead, CallsInTime
  <2>2. \/ UNCHANGED <<events, polling>>
        \/ /\ Live /\ polling' /\ Watches(events')
           /\ "OUT" \in events => "OUT" \in events'
    BY <1>0, <1>1, <2>1, ReadDisciplined
  <2>3. Registered' /\ ReportsSound' /\ NotYetUp'
    BY <1>0, <2>1, <2>2, InterestChange
  <2> QED
    BY <1>0, <2>1, <2>3 DEF Disciplined, FaultSound, JobsHold
<1>6. CASE UserDrop
  <2>1. /\ "dropRef" \notin Usage => Disconnected /\ ~handling
        /\ UNCHANGED <<state, events, polling, callback, serverRef, phase, handling,
                       revents, other, jobs, pendingJobs, fault>>
    BY <1>6 DEF UserDrop
  <2> QED
    BY <1>0, <2>1 DEF Disciplined, FaultSound, Registered, ReportsSound, NotYetUp,
       JobsHold, Live, Disconnected
<1> QED
  BY <1>2, <1>3, <1>4, <1>5, <1>6 DEF UserCall

\* What other threads do: a send() only.
LEMMA ThreadDisciplined ==
  ASSUME CallsInTime, Disciplined, NoExchange, NEW t \in Threads,
         ThreadCall(t) \/ ThreadStep(t)
  PROVE  Disciplined'
<1>1. ThreadSend(t) \/ ThreadQueues(t)
  BY DEF ThreadCall, ThreadStep, ThreadCloses, ThreadRead, ThreadExchanges, NoExchange,
     CallsInTime
<1>2. UNCHANGED <<state, events, polling, callback, serverRef, userRef, phase, handling,
                  revents, other, jobs, fault>>
  BY <1>1 DEF ThreadSend, ThreadQueues, ThreadUnchanged, interest, loop, refs, iteration
<1>3. pendingJobs' \in Seq(HoldingJobs)
  <2>1. CASE ThreadSend(t)
    BY <2>1 DEF ThreadSend, Disciplined, JobsHold
  <2>2. CASE ThreadQueues(t)
    <3>1. threadPc[t] \in HoldingJobs /\ pendingJobs' = Append(pendingJobs, threadPc[t])
      BY <2>2 DEF ThreadQueues, HoldingJobs, JobKinds
    <3> QED
      BY <3>1, QueuedHolds DEF Disciplined
  <2> QED
    BY <1>1, <2>1, <2>2
<1>4. Registered' /\ ReportsSound' /\ NotYetUp'
  BY <1>2, InterestChange DEF Disciplined
<1> QED
  BY <1>2, <1>3, <1>4 DEF Disciplined, FaultSound, JobsHold

\* The server's destruction, after the loop.
LEMMA DestroyDisciplined ==
  ASSUME Disciplined, DestroyServer
  PROVE  Disciplined'
<1>1. /\ "destroyServer" \in Usage /\ phase = "poll" /\ phase' = "returned"
      /\ UNCHANGED <<state, events, polling, handling, revents, jobs, pendingJobs, fault>>
  BY DEF DestroyServer, At, conn, interest, iteration, calls
<1>2. ~handling /\ revents = {} /\ state # "kConnecting"
  BY <1>1 DEF Disciplined, ReportsSound, NotYetUp
<1> QED
  BY <1>1, <1>2 DEF Disciplined, FaultSound, Registered, ReportsSound, NotYetUp, JobsHold,
     Live, Disconnected

\* Every step of the program keeps the invariant.
LEMMA DisciplineInvariance ==
  ASSUME CallsInTime
  PROVE  SafeSpec => []Disciplined
<1>1. Init => Disciplined
  BY DEF Init, Disciplined, FaultSound, Registered, ReportsSound, NotYetUp, JobsHold,
     Live, Disconnected
<1>2. "threadClose" \notin Usage
  BY DEF CallsInTime
<1>3. WriteSound /\ UrgentKnown /\ Disciplined /\ [Next]_vars => Disciplined'
  <2> SUFFICES ASSUME WriteSound, UrgentKnown, Disciplined, [Next]_vars PROVE Disciplined'
    OBVIOUS
  <2>1. WriteInterest /\ NoExchange
    BY DEF WriteSound
  <2>2. CASE UNCHANGED <<state, events, polling, callback, serverRef, userRef, phase,
                         handling, revents, other, jobs, pendingJobs, fault>>
    <3>1. Registered' /\ ReportsSound' /\ NotYetUp'
      BY <2>2, InterestChange DEF Disciplined
    <3> QED
      BY <2>2, <3>1 DEF Disciplined, FaultSound, JobsHold
  <2>3. CASE LoopStep
    BY <2>1, <2>3, PollDisciplined, HandlingDisciplined, EventDisciplined, JobDisciplined
       DEF LoopStep
  <2>4. CASE PollOther
    BY <2>4, PollDisciplined
  <2>5. CASE DestroyServer
    BY <2>5, DestroyDisciplined
  <2>6. CASE UserCall
    BY <2>1, <2>6, CallDisciplined
  <2>7. ASSUME NEW t \in Threads, ThreadCall(t) \/ ThreadStep(t) PROVE Disciplined'
    BY <2>1, <2>7, ThreadDisciplined
  <2>8. CASE Peer \/ UNCHANGED vars
    BY <2>2, <2>8 DEF Peer, PeerSends, PeerSendsUrgent, PeerCloses, PeerResets,
       PeerReads, PeerUnchanged, vars, conn, interest, loop, iteration, refs, calls
  <2> QED
    BY <2>3, <2>4, <2>5, <2>6, <2>7, <2>8 DEF Next
<1>4. SafeSpec => []WriteSound
  BY <1>2, InterestInvariance
<1> QED
  BY <1>1, <1>3, <1>4, UrgentInvariance, PTL DEF SafeSpec

\* If the other threads only send, nobody starts reading after the close, and no
\* urgent data meets a client that has stopped reading, then no assertion of
\* handleClose(), handleRead(), handleWrite(), sendInLoop(), updateChannel() and
\* closeConnection() fails and nothing is used after its end, even if the client
\* drops references early, destroys the server, or shuts down late: then it is the
\* assertion of shutdown() itself that fails.
OnlyShutdownFails == fault \in {"none", "shutdown: state_"}

THEOREM OnlyLateShutdownFails ==
  ASSUME CallsInTime
  PROVE  SafeSpec => []OnlyShutdownFails
<1>1. Disciplined => OnlyShutdownFails
  BY DEF Disciplined, FaultSound, OnlyShutdownFails
<1> QED
  BY <1>1, DisciplineInvariance, PTL

\* For a disciplined client, that may stop reading or have peers that send urgent
\* data but not both, with any number of threads that send: no assertion of
\* TcpConnection and Channel fails, nothing is used after its end, and the
\* connection is destroyed neither under its handler nor while it is up.
THEOREM NothingAborts ==
  ASSUME Usage \subseteq {"stopRead", "urgent"}, NoUrgentWhileStopped
  PROVE  SafeSpec => []NoAbort
<1>1. CallsInTime
  BY DEF CallsInTime
<1>2. Disciplined => NoAbort
  BY DEF Disciplined, FaultSound, Registered, NoAbort, Aborted, DestroyedInHandler,
     DestroyedConnected, Alive, Disconnected
<1>3. SafeSpec => []Disciplined
  BY <1>1, DisciplineInvariance
<1> QED
  BY <1>2, <1>3, PTL
=============================================================================
