--------------------------- MODULE TcpConnection ----------------------------
(***************************************************************************)
(* One leven::TcpConnection with the parts of Channel, Epoller and         *)
(* TcpServer it lives in: the loop thread that dispatches its events and   *)
(* runs its jobs, user callbacks, threads that call its interface, and the *)
(* socket.  The loop is the one of module EventLoop, seen by one channel:  *)
(* epoll_wait, dispatch, one batch of jobs.                                *)
(*                                                                         *)
(* A step of the loop thread ends where user code runs or another thread   *)
(* may act in between; a call of another thread takes one step per access  *)
(* to shared state.  A failed assertion or a use of freed memory is        *)
(* recorded in "fault" and stops the program.                              *)
(***************************************************************************)
EXTENDS Naturals, Sequences, FiniteSets

CONSTANTS
  Threads,        \* threads other than the loop thread
  MsgLen,         \* length of a message, in units
  MaxUnits,       \* bound of the model: units ever sent
  MaxJobs,        \* bound of the model: no call queues a job behind so many
  HighWaterMark,  \* highWaterMark_, in units
  Callbacks,      \* which optional user callbacks are set, see CallbackKinds
  Usage           \* what clients and peers do beyond the ordinary, see UsageKinds

CallbackKinds == {"writeComplete", "highWater"}

\* "dropRef": a client gives up its TcpConnPtr at any point (the examples do it
\*   in the connection callback); otherwise it keeps it until the connection is
\*   disconnected and no event of it is being handled.
\* "threadClose": other threads call shutdown() and forceClose().
\* "threadRead": other threads call stopRead() and startRead().
\* "lateShutdown", "lateRead": a callback calls shutdown(), startRead() without
\*   asking first whether the connection is still up.
\* "destroyServer": the loop returns and the TcpServer is destroyed.
\* "stopRead": a callback calls stopRead().
\* "urgent": the peer sends urgent (out-of-band) data, which EPOLLPRI reports.
UsageKinds == {"dropRef", "threadClose", "threadRead", "lateShutdown",
               "lateRead", "destroyServer", "stopRead", "urgent"}

ASSUME TcpConnectionAssumption ==
  /\ IsFiniteSet(Threads)
  /\ MsgLen \in Nat \ {0}
  /\ MaxUnits \in Nat
  /\ MaxJobs \in Nat
  /\ HighWaterMark \in Nat
  /\ Callbacks \subseteq CallbackKinds
  /\ Usage \subseteq UsageKinds

VARIABLES
  \* TcpConnection and Channel
  state,         \* state_
  events,        \* events_, a subset of {"IN", "PRI", "OUT"}
  polling,       \* polling: the channel is in the epoll set
  handling,      \* handlingEvents_
  outputBuffer,  \* outputBuffer_, the numbers of the units in it
  \* the loop thread
  phase,         \* "poll", "dispatch", "jobs" or "returned"
  callback,      \* the user callback that runs, or "none"
  revents,       \* callbacks of the channel still to be called for revents_
  other,         \* another channel is active in this iteration
  pendingJobs,   \* pendingJobs_
  jobs,          \* what is left of the batch in doPendingJobs()
  \* who holds a shared_ptr to the connection
  serverRef,     \* TcpServer::connections_
  userRef,       \* the client
  batchRef,      \* jobs of this batch that have run, destroyed with the vector
  threadPc,      \* a call in progress, by another thread
  \* the socket
  rcv,           \* there are bytes to read
  urg,           \* an urgent byte has come that no read has passed
  fin, rst,      \* the peer has closed, has reset the connection
  sockErr,       \* SO_ERROR is set
  writable,      \* the send buffer has room
  shutWr,        \* shutdown(SHUT_WR) was called
  wire,          \* the units that write() has taken
  \* history
  units,         \* units accepted by sendInLoop()
  fault          \* the assertion that has failed, or "none"

interest == <<events, polling>>
conn == <<state, interest, outputBuffer>>
iteration == <<other, jobs, batchRef>>
loop == <<phase, callback, handling, revents, iteration>>
refs == <<serverRef, userRef>>
peer == <<rcv, urg, fin, rst>>
sending == <<writable, shutWr, wire>>
sock == <<sockErr, sending>>
calls == <<pendingJobs, threadPc, units>>
vars == <<conn, loop, refs, peer, sock, calls, fault>>

\* A step that concerns the loop thread only.
ConnectionUnchanged ==
  UNCHANGED <<conn, refs, peer, sock, calls, fault>>

JobKinds == {"send", "shutdown", "forceClose", "writeComplete", "highWater",
             "stopRead", "startRead"}

Init ==
  /\ state = "kConnecting" /\ events = {} /\ polling = FALSE /\ handling = FALSE
  /\ outputBuffer = <<>>
  /\ phase = "dispatch" /\ callback = "none" /\ revents = {} /\ other = FALSE
  /\ pendingJobs = <<>> /\ jobs = <<>>
  /\ serverRef = TRUE /\ userRef = FALSE /\ batchRef = FALSE
  /\ threadPc = [t \in Threads |-> "idle"]
  /\ rcv = FALSE /\ urg = FALSE /\ fin = FALSE /\ rst = FALSE
  /\ sockErr = FALSE /\ writable = TRUE /\ shutWr = FALSE /\ wire = <<>>
  /\ units = 0 /\ fault = "none"

-----------------------------------------------------------------------------
(***************************************************************************)
(* Lifetime.  Jobs hold a reference, except those of stopRead() and        *)
(* startRead(), which capture a bare this.                                 *)
(***************************************************************************)

HoldsRef(queue) ==
  \E i \in DOMAIN queue : queue[i] \notin {"stopRead", "startRead"}

Alive ==
  \/ serverRef \/ userRef \/ batchRef
  \/ callback = "down"              \* the argument of closeCallback_
  \/ HoldsRef(jobs) \/ HoldsRef(pendingJobs)
  \/ \E t \in Threads : threadPc[t] # "idle"

\* Destroyed while Channel::handleEventsWithGuard() is on the stack:
\* assert(!handlingEvents_) in ~Channel().
DestroyedInHandler == ~Alive /\ handling

\* assert(state_ == kDisconnected) in ~TcpConnection().
DestroyedConnected == ~Alive /\ state # "kDisconnected"

Aborted == fault # "none" \/ DestroyedInHandler \/ DestroyedConnected

Fails(assertion) == fault' = assertion

-----------------------------------------------------------------------------
(***************************************************************************)
(* Private member functions, as parts of the actions below.                *)
(***************************************************************************)

Disconnected == state = "kDisconnected"

\* Channel::update() and Epoller::updateChannel().
SetEvents(ev) == events' = ev /\ polling' = (ev # {})

\* Faulty variant of the calls below: the call is forgotten.
NoChange == UNCHANGED interest

EnableRead == SetEvents(events \cup {"IN", "PRI"})
DisableRead == SetEvents(events \ {"IN"})
EnableWrite == SetEvents(events \cup {"OUT"})
DisableWrite == SetEvents(events \ {"OUT"})
DisableAll == SetEvents({})

\* queueInLoop() of a user callback, if it is set and its time has come.
QueueCallback(cb, due) ==
  pendingJobs' = IF due /\ cb \in Callbacks THEN Append(pendingJobs, cb)
                 ELSE pendingJobs

\* highWaterMarkCallback_, when appending "len" units crosses the mark.
CrossesMark(len) ==
  /\ Len(outputBuffer) < HighWaterMark
  /\ Len(outputBuffer) + len >= HighWaterMark

\* Faulty variant: a message takes the place of the output that waits.
ReplacedBy(rest) == rest

FollowedBy(rest) == outputBuffer \o rest

\* What sendInLoop() does with the units that write() did not take.
AppendOutput(rest) ==
  /\ QueueCallback("highWater", CrossesMark(Len(rest)))
  /\ outputBuffer' = FollowedBy(rest)
  /\ EnableWrite

Message == [i \in 1 .. MsgLen |-> units + i]

\* write() to a socket whose sending side is closed or reset: EPIPE, ECONNRESET.
CannotWrite == rst \/ shutWr

\* write() of "data" takes the first n units; less than all of it when the send
\* buffer is full.
WriteTakes(data, n) ==
  /\ ~CannotWrite
  /\ n > 0 => writable
  /\ wire' = wire \o SubSeq(data, 1, n)
  /\ IF n < Len(data) THEN writable' = FALSE ELSE writable' \in BOOLEAN
  /\ UNCHANGED sockErr

SendIgnored ==
  UNCHANGED <<interest, outputBuffer, sock, units, pendingJobs, fault>>

SendAsserts ==
  /\ outputBuffer # <<>> /\ Fails("sendInLoop: outputBuffer_")
  /\ UNCHANGED <<interest, outputBuffer, sock, units, pendingJobs>>

SendFails ==
  /\ outputBuffer = <<>> /\ CannotWrite
  /\ sockErr' = FALSE
  /\ UNCHANGED <<interest, outputBuffer, sending, units, pendingJobs, fault>>

SendWrites ==
  /\ outputBuffer = <<>>
  /\ units' = units + MsgLen
  /\ \E n \in 0 .. MsgLen :
       /\ WriteTakes(Message, n)
       /\ IF n < MsgLen THEN AppendOutput(SubSeq(Message, n + 1, MsgLen))
          ELSE /\ QueueCallback("writeComplete", TRUE)
               /\ UNCHANGED <<interest, outputBuffer>>
  /\ UNCHANGED <<shutWr, fault>>

SendAppends ==
  /\ units' = units + MsgLen
  /\ AppendOutput(Message)
  /\ UNCHANGED <<sock, fault>>

\* sendInLoop(): nothing once disconnected; write() what it takes at once unless
\* output is waiting, and keep the rest; a failed write drops the message.
SendInLoop ==
  \/ Disconnected /\ SendIgnored
  \/ /\ ~Disconnected /\ "OUT" \notin events
     /\ SendAsserts \/ SendFails \/ SendWrites
  \/ ~Disconnected /\ "OUT" \in events /\ SendAppends

\* Faulty variant: shutdownInLoop() does not wait for the output.
MayAtOnce == ~Disconnected

MaySendFin == ~Disconnected /\ "OUT" \notin events

\* shutdownInLoop(): not while output waits; handleWrite() comes back to it.
ShutdownInLoop ==
  /\ shutWr' = (shutWr \/ MaySendFin)
  /\ UNCHANGED <<sockErr, writable, wire>>

CloseFault ==
  CASE state \notin {"kConnected", "kDisconnecting"} -> "handleClose: state_"
    [] ~polling                                      -> "updateChannel: no events"
    [] ~serverRef                                    -> "closeConnection: erase"
    [] OTHER                                         -> "none"

\* TcpServer::closeConnection(): the erase, then the user's connection callback.
CloseConnection == serverRef' = FALSE /\ callback' = "down"

\* handleClose(), with the assertions on the way.
HandleClose ==
  \/ /\ CloseFault # "none"
     /\ Fails(CloseFault)
     /\ UNCHANGED <<conn, serverRef, callback>>
  \/ /\ CloseFault = "none"
     /\ state' = "kDisconnected"
     /\ DisableAll /\ CloseConnection
     /\ UNCHANGED <<outputBuffer, fault>>

-----------------------------------------------------------------------------
(***************************************************************************)
(* The loop thread.                                                        *)
(***************************************************************************)
At(p) == ~Aborted /\ phase = p /\ callback = "none"

ConnectEstablished == state' = "kConnected" /\ EnableRead

\* TcpServer::newConnection(): connectEstablished(), then the user's connection
\* callback, in which the client takes its reference.
Establish ==
  /\ At("dispatch") /\ state = "kConnecting"
  /\ ConnectEstablished
  /\ callback' = "up" /\ userRef' = TRUE
  /\ UNCHANGED <<outputBuffer, phase, handling, revents, iteration, serverRef,
                 peer, sock, calls, fault>>

\* Faulty variant: EPOLLHUP closes although there is something to read.
HangUpFirst(hup, in) == hup

\* The close callback is left to handleRead() when EPOLLIN is reported too.
HangUpOnly(hup, in) == hup /\ ~in

\* What epoll_wait reports for the channel, as the callbacks that
\* handleEventsWithGuard() calls for it.  An urgent byte is reported as EPOLLPRI,
\* also once reading has been stopped: disableRead() leaves that interest.
\* (EPOLLRDHUP, which calls handleRead() too, is never asked for.)
Reported ==
  LET in  == "IN" \in events /\ (rcv \/ fin \/ rst)
      pri == "PRI" \in events /\ urg
      out == "OUT" \in events /\ (writable \/ rst)
      hup == rst \/ (fin /\ shutWr)
  IN  IF ~(polling /\ Alive) THEN {}
      ELSE (IF HangUpOnly(hup, in) THEN {"close"} ELSE {})
           \cup (IF sockErr THEN {"error"} ELSE {})
           \cup (IF in \/ pri THEN {"read"} ELSE {})
           \cup (IF out THEN {"write"} ELSE {})

\* epoll_wait returns for this channel or because a job was queued (module
\* EventLoop); other channels may be active too.
Poll ==
  /\ At("poll")
  /\ Reported # {} \/ pendingJobs # <<>>
  /\ phase' = "dispatch" /\ revents' = Reported /\ other' \in BOOLEAN
  /\ UNCHANGED <<callback, handling, jobs, batchRef>> /\ ConnectionUnchanged

\* epoll_wait returns for another channel only.
PollOther ==
  /\ At("poll") /\ Reported = {}
  /\ phase' = "dispatch" /\ other' = TRUE
  /\ UNCHANGED <<callback, handling, revents, jobs, batchRef>>
  /\ ConnectionUnchanged

\* The handler of the other channel (timer, connection) runs user code.
OtherHandler ==
  /\ At("dispatch") /\ other /\ ~handling
  /\ other' = FALSE /\ callback' = "other"
  /\ UNCHANGED <<phase, handling, revents, jobs, batchRef>> /\ ConnectionUnchanged

\* Channel::handleEventsWithGuard() is entered, on the pointer epoll_wait gave.
BeginHandling ==
  /\ At("dispatch") /\ revents # {} /\ ~handling
  /\ \/ Alive /\ handling' = TRUE /\ UNCHANGED fault
     \/ ~Alive /\ Fails("use after free") /\ UNCHANGED handling
  /\ UNCHANGED <<conn, phase, callback, revents, iteration, refs, peer, sock,
                 calls>>

\* The next callback of handleEventsWithGuard(): close, error, read, write.
Turn(cb, before) ==
  /\ At("dispatch") /\ handling /\ cb \in revents /\ revents \cap before = {}
  /\ revents' = revents \ {cb}
  /\ UNCHANGED <<phase, handling, iteration>>

CloseEvent ==
  /\ Turn("close", {}) /\ HandleClose
  /\ UNCHANGED <<userRef, peer, sock, calls>>

\* handleError(): reading SO_ERROR clears it.
ErrorEvent ==
  /\ Turn("error", {"close"})
  /\ sockErr' = FALSE
  /\ UNCHANGED <<conn, callback, refs, peer, sending, calls, fault>>

\* Faulty variant: a read of zero bytes is taken for nothing to read.
EndOfStreamIgnored ==
  UNCHANGED <<conn, callback, serverRef, sockErr, fault>>

EndOfStream == HandleClose /\ UNCHANGED sockErr

\* The socket has an error to return, or nothing at all (EAGAIN): all there was
\* is an urgent byte, which read() skips.
ReadFails == sockErr \/ ~(fin \/ rst)

\* handleRead(): bytes go to the message callback, an error to handleError(),
\* the end of the stream to handleClose().  A read() stops in front of an urgent
\* byte that it does not begin with.
ReadEvent ==
  /\ Turn("read", {"close", "error"})
  /\ \/ /\ Disconnected
        /\ Fails("handleRead: state_")
        /\ UNCHANGED <<conn, callback, serverRef, rcv, urg, sockErr>>
     \/ /\ ~Disconnected /\ rcv
        /\ urg' \in {FALSE, urg} /\ rcv' \in {FALSE, urg'} /\ callback' = "message"
        /\ UNCHANGED <<conn, serverRef, sockErr, fault>>
     \/ /\ ~Disconnected /\ ~rcv /\ ReadFails
        /\ urg' = FALSE /\ sockErr' = FALSE
        /\ UNCHANGED <<conn, callback, serverRef, rcv, fault>>
     \/ /\ ~Disconnected /\ ~rcv /\ ~ReadFails
        /\ urg' = FALSE /\ EndOfStream
        /\ UNCHANGED rcv
  /\ UNCHANGED <<userRef, fin, rst, sending, calls>>

\* Faulty variant: a shutdown() that waits for the output is forgotten.
NeverShutdown == FALSE

ShutdownWaits == state = "kDisconnecting"

OutputDone ==
  /\ DisableWrite
  /\ shutWr' = ShutdownWaits
  /\ QueueCallback("writeComplete", TRUE)

\* handleWrite(): what write() takes leaves outputBuffer_; the last of it ends
\* the interest in EPOLLOUT, finishes a shutdown() and queues the callback.
WriteEvent ==
  /\ Turn("write", {"close", "error", "read"})
  /\ \/ /\ Disconnected
        /\ UNCHANGED <<conn, sock, pendingJobs, fault>>
     \/ /\ ~Disconnected /\ (outputBuffer = <<>> \/ "OUT" \notin events)
        /\ Fails("handleWrite: isWriting")
        /\ UNCHANGED <<conn, sock, pendingJobs>>
     \/ /\ ~Disconnected /\ "OUT" \in events /\ CannotWrite
        /\ sockErr' = FALSE
        /\ UNCHANGED <<conn, sending, pendingJobs, fault>>
     \/ /\ ~Disconnected /\ "OUT" \in events
        /\ \E n \in 1 .. Len(outputBuffer) :
             /\ WriteTakes(outputBuffer, n)
             /\ outputBuffer' = SubSeq(outputBuffer, n + 1, Len(outputBuffer))
        /\ IF outputBuffer' = <<>>
           THEN OutputDone
           ELSE UNCHANGED <<interest, shutWr, pendingJobs>>
        /\ UNCHANGED <<state, fault>>
  /\ UNCHANGED <<callback, refs, peer, threadPc, units>>

EndHandling ==
  /\ At("dispatch") /\ handling /\ revents = {}
  /\ handling' = FALSE
  /\ UNCHANGED <<phase, callback, revents, iteration>> /\ ConnectionUnchanged

CallbackReturns ==
  /\ ~Aborted /\ callback # "none"
  /\ callback' = "none"
  /\ UNCHANGED <<phase, handling, revents, iteration>> /\ ConnectionUnchanged

SwapPendingJobs ==
  /\ At("dispatch")
  /\ state # "kConnecting" /\ revents = {} /\ ~handling /\ ~other
  /\ phase' = "jobs" /\ jobs' = pendingJobs /\ pendingJobs' = <<>>
  /\ UNCHANGED <<conn, callback, handling, revents, other, batchRef, refs,
                 peer, sock, threadPc, units, fault>>

\* The next job of the batch.  A job that holds a reference keeps it until the
\* vector is destroyed at the end of doPendingJobs().
RunJob(kind) ==
  /\ At("jobs") /\ jobs # <<>> /\ Head(jobs) = kind
  /\ jobs' = Tail(jobs)
  /\ batchRef' = (batchRef \/ HoldsRef(<<kind>>))
  /\ UNCHANGED <<phase, handling, revents, other>>

RunSend ==
  /\ RunJob("send") /\ SendInLoop
  /\ UNCHANGED <<state, callback, refs, peer, threadPc>>

RunShutdown ==
  /\ RunJob("shutdown") /\ ShutdownInLoop
  /\ UNCHANGED <<conn, callback, refs, peer, calls, fault>>

\* forceCloseInLoop()
RunForceClose ==
  /\ RunJob("forceClose")
  /\ \/ Disconnected /\ UNCHANGED <<conn, callback, serverRef, fault>>
     \/ ~Disconnected /\ HandleClose
  /\ UNCHANGED <<userRef, peer, sock, calls>>

\* writeCompleteCallback_ or highWaterMarkCallback_
RunCallback(kind) ==
  /\ RunJob(kind)
  /\ callback' = "job"
  /\ UNCHANGED <<conn, refs, peer, sock, calls, fault>>

\* The lambdas of stopRead() and startRead().
StopReadInLoop ==
  IF "IN" \in events THEN DisableRead ELSE UNCHANGED interest

StartReadInLoop ==
  IF "IN" \in events THEN UNCHANGED interest ELSE EnableRead

RunReadJob(kind) ==
  /\ RunJob(kind)
  /\ \/ ~Alive /\ Fails("use after free") /\ UNCHANGED interest
     \/ /\ Alive
        /\ IF kind = "stopRead" THEN StopReadInLoop ELSE StartReadInLoop
        /\ UNCHANGED fault
  /\ UNCHANGED <<state, outputBuffer, callback, refs, peer, sock, calls>>

\* Faulty variant: the batch outlives doPendingJobs().
KeepBatch == UNCHANGED batchRef

DestroyBatch == batchRef' = FALSE

BatchDone ==
  /\ At("jobs") /\ jobs = <<>>
  /\ phase' = "poll" /\ DestroyBatch
  /\ UNCHANGED <<callback, handling, revents, other, jobs>> /\ ConnectionUnchanged

\* The loop has returned, the server goes out of scope with its connections_.
DestroyServer ==
  /\ "destroyServer" \in Usage
  /\ At("poll")
  /\ phase' = "returned" /\ serverRef' = FALSE /\ userRef' = FALSE
  /\ UNCHANGED <<conn, callback, handling, revents, iteration, peer, sock,
                 calls, fault>>

-----------------------------------------------------------------------------
(***************************************************************************)
(* Calls made by user code on the loop thread, in a callback of this       *)
(* connection or in another handler of a client that has a reference.      *)
(***************************************************************************)
UserCode == ~Aborted /\ callback # "none" /\ (userRef \/ callback # "other")

\* Bounds of the model: room for a job, and for every message on its way.
RoomForJob == Len(pendingJobs) < MaxJobs
Sends(queue) == {i \in DOMAIN queue : queue[i] = "send"}
Senders == {t \in Threads : threadPc[t] = "send"}
SendsPending ==
  Cardinality(Sends(jobs)) + Cardinality(Sends(pendingJobs)) + Cardinality(Senders)
RoomForMessage == units + MsgLen * (SendsPending + 1) <= MaxUnits

\* send(): refused unless connected.
UserSend ==
  /\ UserCode
  /\ RoomForMessage
  /\ state = "kConnected" /\ SendInLoop
  /\ UNCHANGED <<state, loop, refs, peer, threadPc>>

\* shutdown(): assertion, exchange, shutdownInLoop() if it was connected.
UserShutdown ==
  /\ UserCode
  /\ \/ /\ Disconnected /\ "lateShutdown" \in Usage
        /\ Fails("shutdown: state_")
        /\ UNCHANGED <<state, sock>>
     \/ /\ state = "kConnected"
        /\ state' = "kDisconnecting"
        /\ ShutdownInLoop
        /\ UNCHANGED fault
  /\ UNCHANGED <<interest, outputBuffer, loop, refs, peer, calls>>

\* forceClose(): exchange and queueInLoop(), always through the queue.
UserForceClose ==
  /\ UserCode /\ ~Disconnected /\ RoomForJob
  /\ state' = "kDisconnecting"
  /\ pendingJobs' = Append(pendingJobs, "forceClose")
  /\ UNCHANGED <<interest, outputBuffer, loop, refs, peer, sock, threadPc,
                 units, fault>>

\* stopRead() and startRead() run in place.
UserRead ==
  /\ UserCode
  /\ \/ "stopRead" \in Usage /\ StopReadInLoop
     \/ (Disconnected => "lateRead" \in Usage) /\ StartReadInLoop
  /\ UNCHANGED <<state, outputBuffer, loop, refs, peer, sock, calls, fault>>

\* The client gives up its reference.
UserDrop ==
  /\ UserCode /\ userRef
  /\ "dropRef" \in Usage \/ (Disconnected /\ ~handling)
  /\ userRef' = FALSE
  /\ UNCHANGED <<conn, loop, serverRef, peer, sock, calls, fault>>

-----------------------------------------------------------------------------
(***************************************************************************)
(* Calls made by other threads.  A thread copies the client's reference    *)
(* and holds it during the call.                                           *)
(***************************************************************************)
ThreadUnchanged ==
  UNCHANGED <<interest, outputBuffer, loop, refs, peer, sock, units>>

Enter(t) ==
  ~Aborted /\ userRef /\ threadPc[t] = "idle" /\ state # "kConnecting"

GoTo(t, pc) == threadPc' = [threadPc EXCEPT ![t] = pc]

\* send(): the test of state_ ...
ThreadSend(t) ==
  /\ Enter(t)
  /\ RoomForMessage
  /\ state = "kConnected" /\ GoTo(t, "send")
  /\ UNCHANGED <<state, pendingJobs, fault>> /\ ThreadUnchanged

\* ... and queueInLoop(), as in shutdown() and forceClose().
ThreadQueues(t) ==
  /\ ~Aborted /\ threadPc[t] \in {"send", "shutdown", "forceClose"}
  /\ pendingJobs' = Append(pendingJobs, threadPc[t])
  /\ GoTo(t, "idle")
  /\ UNCHANGED <<state, fault>> /\ ThreadUnchanged

\* shutdown() and forceClose(): the first look at state_, which shutdown() takes
\* in an assertion ...
ThreadCloses(t) ==
  /\ "threadClose" \in Usage
  /\ Enter(t)
  /\ RoomForJob
  /\ \/ /\ ~Disconnected
        /\ GoTo(t, "shutdown:exchange") \/ GoTo(t, "forceClose:exchange")
        /\ UNCHANGED fault
     \/ /\ Disconnected
        /\ Fails("shutdown: state_")
        /\ UNCHANGED threadPc
  /\ UNCHANGED <<state, pendingJobs>> /\ ThreadUnchanged

\* ... then stateAtomicGetAndSet(kDisconnecting), and what follows from it.
ThreadExchanges(t) ==
  /\ ~Aborted
  /\ \/ /\ threadPc[t] = "shutdown:exchange"
        /\ GoTo(t, IF state = "kConnected" THEN "shutdown" ELSE "idle")
     \/ /\ threadPc[t] = "forceClose:exchange"
        /\ GoTo(t, IF Disconnected THEN "idle" ELSE "forceClose")
  /\ state' = "kDisconnecting"
  /\ UNCHANGED <<pendingJobs, fault>> /\ ThreadUnchanged

\* stopRead() and startRead(): queueInLoop() of a lambda with a bare this.
ThreadRead(t) ==
  /\ "threadRead" \in Usage
  /\ Enter(t)
  /\ RoomForJob
  /\ \E kind \in {"stopRead", "startRead"} : pendingJobs' = Append(pendingJobs, kind)
  /\ UNCHANGED <<state, threadPc, fault>> /\ ThreadUnchanged

-----------------------------------------------------------------------------
(***************************************************************************)
(* The peer and the kernel.                                                *)
(***************************************************************************)
Established == ~Aborted /\ state # "kConnecting" /\ Alive

PeerUnchanged ==
  UNCHANGED <<conn, loop, refs, shutWr, wire, calls, fault>>

PeerSends ==
  /\ Established /\ ~fin /\ ~rst
  /\ rcv' = TRUE
  /\ UNCHANGED <<urg, fin, rst, sockErr, writable>> /\ PeerUnchanged

\* send(2) with MSG_OOB.
PeerSendsUrgent ==
  /\ "urgent" \in Usage
  /\ Established /\ ~fin /\ ~rst
  /\ urg' = TRUE
  /\ UNCHANGED <<rcv, fin, rst, sockErr, writable>> /\ PeerUnchanged

PeerCloses ==
  /\ Established /\ ~rst
  /\ fin' = TRUE
  /\ UNCHANGED <<rcv, urg, rst, sockErr, writable>> /\ PeerUnchanged

PeerResets ==
  /\ Established /\ ~rst
  /\ rst' = TRUE /\ sockErr' = TRUE
  /\ UNCHANGED <<rcv, urg, fin, writable>> /\ PeerUnchanged

\* The peer has taken what was in flight.
PeerReads ==
  /\ Established /\ ~writable
  /\ writable' = TRUE
  /\ UNCHANGED <<rcv, urg, fin, rst, sockErr>> /\ PeerUnchanged

Peer == PeerSends \/ PeerSendsUrgent \/ PeerCloses \/ PeerResets \/ PeerReads

-----------------------------------------------------------------------------
Jobs ==
  \/ RunSend \/ RunShutdown \/ RunForceClose
  \/ \E kind \in CallbackKinds : RunCallback(kind)
  \/ \E kind \in {"stopRead", "startRead"} : RunReadJob(kind)

LoopStep ==
  \/ Establish \/ Poll \/ OtherHandler \/ BeginHandling
  \/ CloseEvent \/ ErrorEvent \/ ReadEvent \/ WriteEvent \/ EndHandling
  \/ CallbackReturns \/ SwapPendingJobs \/ Jobs \/ BatchDone

UserCall ==
  UserSend \/ UserShutdown \/ UserForceClose \/ UserRead \/ UserDrop

ThreadCall(t) == ThreadSend(t) \/ ThreadCloses(t) \/ ThreadRead(t)

ThreadStep(t) == ThreadQueues(t) \/ ThreadExchanges(t)

Next ==
  \/ LoopStep
  \/ PollOther
  \/ DestroyServer
  \/ UserCall
  \/ \E t \in Threads : ThreadCall(t) \/ ThreadStep(t)
  \/ Peer

\* The loop thread is scheduled, callbacks return, a thread finishes its call.
Fairness ==
  /\ WF_vars(LoopStep)
  /\ \A t \in Threads : WF_vars(ThreadStep(t))

\* A peer that keeps reading, which no code of ours can make it do.
PeerFairness == WF_vars(PeerReads)

SafeSpec == Init /\ [][Next]_vars
Spec == SafeSpec /\ Fairness /\ PeerFairness

-----------------------------------------------------------------------------
(***************************************************************************)
(* Invariants.                                                             *)
(***************************************************************************)
Faults == {"none", "handleClose: state_", "updateChannel: no events",
           "closeConnection: erase", "handleRead: state_", "shutdown: state_",
           "sendInLoop: outputBuffer_", "handleWrite: isWriting", "use after free"}

\* Types, and where the loop thread can be: events of the channel are handled
\* in "dispatch" only, jobs run in "jobs" only.
TypeOK ==
  /\ state \in {"kConnecting", "kConnected", "kDisconnecting", "kDisconnected"}
  /\ events \subseteq {"IN", "PRI", "OUT"}
  /\ {polling, handling, other, serverRef, userRef, batchRef, rcv, urg, fin, rst,
      sockErr, writable, shutWr} \subseteq BOOLEAN
  /\ outputBuffer \in Seq(1 .. MaxUnits) /\ wire \in Seq(1 .. MaxUnits)
  /\ phase \in {"poll", "dispatch", "jobs", "returned"}
  /\ callback \in {"none", "up", "message", "down", "job", "other"}
  /\ revents \subseteq {"close", "error", "read", "write"}
  /\ pendingJobs \in Seq(JobKinds) /\ jobs \in Seq(JobKinds)
  /\ (revents # {} \/ handling \/ other => phase = "dispatch")
  /\ (jobs # <<>> \/ batchRef => phase = "jobs")
  /\ threadPc \in [Threads -> {"idle", "send", "shutdown", "forceClose",
                               "shutdown:exchange", "forceClose:exchange"}]
  /\ units \in 0 .. MaxUnits
  /\ fault \in Faults

\* The bytes of the accepted messages reach the socket in the order of the
\* sends, none twice and none left out, whether they are written at once by
\* sendInLoop() or later by handleWrite(), and whoever sent them.
BytesInOrder == wire \o outputBuffer = [i \in 1 .. units |-> i]

\* EPOLLOUT is watched exactly while output waits: never a busy loop on an idle
\* connection, never output that nobody will write (the assertions of
\* sendInLoop() and handleWrite()).
WriteInterest ==
  ~Disconnected => ("OUT" \in events <=> outputBuffer # <<>>)

\* shutdown() sends the FIN only after all the output, although sends and
\* partial writes may come between shutdown() and the last handleWrite().
FinAfterOutput == shutWr /\ ~Disconnected => outputBuffer = <<>>

\* No assertion fails, no freed object is used and the connection is destroyed
\* neither under its own handler nor while it is up: what ~Channel(),
\* ~TcpConnection() and the assertions of the two classes demand.
NoAbort == ~Aborted

\* A part of NoAbort that the code states by itself:
\* ~Channel() never runs under Channel::handleEventsWithGuard().
ChannelOutlivesHandler == ~DestroyedInHandler

\* Another part, the assertion of handleRead(): it is not called for a connection
\* that the close callback of the same report has closed (handleEventsWithGuard).
ReadsWhileOpen == fault # "handleRead: state_"

-----------------------------------------------------------------------------
(***************************************************************************)
(* Liveness properties.                                                    *)
(***************************************************************************)

\* Every close gets through: a connection whose peer has closed or reset it is
\* closed, unless the client has stopped reading from it (handleRead), and so is
\* one that forceClose() was called for, whatever else happens to it meanwhile
\* (forceCloseInLoop).
ClosesComplete ==
  /\ (fin \/ rst) /\ "IN" \in events ~> (Disconnected \/ "IN" \notin events)
  /\ (\E i \in DOMAIN pendingJobs : pendingJobs[i] = "forceClose") ~> Disconnected

\* If the peer reads, waiting output is written out and shutdown() ends in the
\* FIN behind it (handleWrite, shutdownInLoop).
OutputDrains ==
  /\ outputBuffer # <<>> ~> (outputBuffer = <<>> \/ Disconnected)
  /\ state = "kDisconnecting" ~> (shutWr \/ Disconnected)
=============================================================================
