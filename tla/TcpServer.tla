----------------------------- MODULE TcpServer ------------------------------
(***************************************************************************)
(* A leven::TcpServer with its Acceptor and several connections on one     *)
(* loop, and a client that keeps a TcpConnPtr to each and closes some      *)
(* (examples/EchoServer.cc, but for where it gives the pointer up).        *)
(* Module TcpConnection has all of one connection; this one has what only  *)
(* several show: the channels epoll_wait reported together, the objects,   *)
(* and the descriptors, which only the destructor of an object closes.     *)
(*                                                                         *)
(* Nothing here is called by another thread, so that a step is the whole   *)
(* handling of one channel, with the user callback it ends in, or one job. *)
(***************************************************************************)
EXTENDS Naturals, FiniteSets, SequencesExt

CONSTANTS
  Conns,        \* TcpConnection objects, used again after their destruction
  Fds,          \* descriptors that connections can have
  NoFd,         \* -1
  AcceptChl,    \* acceptChannel_
  Timer,        \* a timer of the client, whose callback closes connections
  MaxPhantoms   \* bound of the model: connections without descriptor at a time

\* There is an object for every descriptor and every failed accept.
ASSUME TcpServerAssumption ==
  /\ IsFiniteSet(Conns) /\ IsFiniteSet(Fds)
  /\ MaxPhantoms \in Nat
  /\ Cardinality(Conns) >= Cardinality(Fds) + MaxPhantoms
  /\ NoFd \notin Fds
  /\ AcceptChl \notin Conns /\ Timer \notin Conns /\ Timer # AcceptChl

VARIABLES
  backlog,       \* connections that wait in the listen queue
  \* TcpConnection objects
  fd,            \* sockfd_ of the objects that exist
  disconnected,  \* those whose state_ is kDisconnected
  polling,       \* those whose channel has polling set
  \* who holds a shared_ptr
  connections,   \* TcpServer::connections_
  userRefs,      \* the client
  batch,         \* jobs of doPendingJobs() that have run, until its return
  \* the kernel
  openFds,       \* descriptors in use
  registered,    \* connections whose descriptor is in the epoll set
  fin,           \* connections whose next read() returns 0
  \* the loop
  phase,         \* "poll", "dispatch" or "jobs"
  active,        \* activeChnls_ still to be handled
  pendingJobs,   \* pendingJobs_: the connections forceClose() was called for
  jobs           \* what is left of the local vector of doPendingJobs()

object == <<fd, disconnected, polling>>
kernel == <<openFds, registered, fin>>
queues == <<pendingJobs, jobs>>
vars == <<backlog, object, connections, userRefs, batch, kernel, phase, active,
          queues>>

Objects == DOMAIN fd
Phantoms == {c \in Objects : fd[c] = NoFd}
Queued == ToSet(pendingJobs) \cup ToSet(jobs)

\* The acceptor is bound and listens, its channel is in the epoll set for good.
Listening == backlog = 0

Init ==
  /\ Listening /\ fd = << >> /\ disconnected = {} /\ polling = {}
  /\ connections = {} /\ userRefs = {} /\ batch = {}
  /\ openFds = {} /\ registered = {} /\ fin = {}
  /\ phase = "poll" /\ active = {} /\ pendingJobs = <<>> /\ jobs = <<>>

-----------------------------------------------------------------------------
(***************************************************************************)
(* The life of an object.                                                  *)
(***************************************************************************)
Referenced(c) == c \in connections \cup userRefs \cup batch \cup Queued

\* Faulty variant: ~TcpConnection() leaves the descriptors open.
LeakDescriptors(open, dead) == openFds' = open

\* close() in ~TcpConnection(); the channel has left the epoll set before.
CloseDescriptors(open, dead) == openFds' = open \ {fd[c] : c \in dead}

\* The last conjunct of a step: of the objects, those that no shared_ptr is left
\* to are destroyed.
Release(objects, closed, open) ==
  LET dead == {c \in DOMAIN objects : ~Referenced(c)'}
  IN  /\ fd' = [c \in DOMAIN objects \ dead |-> objects[c]]
      /\ disconnected' = closed \ dead
      /\ fin' = fin \ dead
      /\ CloseDescriptors(open, dead)

\* A callback of the client, in the handler of channel "here": forceClose() of
\* some connections, which always queues a job, and the end of some references.
\* The client gives a reference up once the connection is closed, and not in
\* its own handler, or together with a forceClose(), as onTimeout() does.
\* Bound of the model: no second forceClose() while a first one is queued.
UserCode(refs, closed, here) ==
  \E force \in SUBSET refs, drop \in SUBSET refs :
    /\ force \cap (closed \cup Queued) = {}
    /\ drop \subseteq force \cup Queued \cup (closed \ {here})
    /\ pendingJobs' = pendingJobs \o SetToSeq(force)
    /\ userRefs' = refs \ drop

\* Faulty variants of the two calls below: the call is forgotten.
KeepChannel(c) == UNCHANGED <<polling, registered>>
EraseNothing(c) == UNCHANGED connections

\* EventLoop::removeChannel(): a descriptor of -1 only makes epoll_ctl() fail.
RemoveChannel(c) ==
  polling' = polling \ {c} /\ registered' = registered \ {c}

\* TcpServer::closeConnection(): the erase; the callback comes after.
Erase(c) == connections' = connections \ {c}

\* handleClose() with the connection callback of the client.
HandleClose(c) ==
  LET closed == disconnected \cup {c}
  IN  /\ RemoveChannel(c)
      /\ Erase(c)
      /\ UserCode(userRefs, closed, c)
      /\ Release(fd, closed, openFds)

\* TcpServer::newConnection(): the object, connections_, connectEstablished()
\* and the connection callback, in which the client takes its reference.
NewConnection(c, d) ==
  /\ c \in Conns \ Objects
  /\ connections' = connections \cup {c}
  /\ polling' = polling \cup {c}
  /\ registered' = registered \cup (IF d = NoFd THEN {} ELSE {c})
  /\ UserCode(userRefs \cup {c}, disconnected, AcceptChl)
  /\ Release([e \in Objects \cup {c} |-> IF e = c THEN d ELSE fd[e]],
             disconnected, openFds \cup ({d} \ {NoFd}))

-----------------------------------------------------------------------------
(***************************************************************************)
(* The loop thread.                                                        *)
(***************************************************************************)
MustReport ==
  (registered \cap fin) \cup (IF backlog > 0 THEN {AcceptChl} ELSE {})

\* epoll_wait returns for what is ready, or for the wakeup of a job that was
\* queued by a job; connections with data and the timer may be ready too.
Poll ==
  /\ phase = "poll"
  /\ \E more \in SUBSET ((registered \ fin) \cup {Timer}) :
       /\ MustReport \cup more # {} \/ pendingJobs # <<>>
       /\ active' = MustReport \cup more
  /\ phase' = "dispatch"
  /\ UNCHANGED <<backlog, object, connections, userRefs, batch, kernel, queues>>

Turn(chl) ==
  /\ phase = "dispatch" /\ chl \in active
  /\ active' = active \ {chl}
  /\ UNCHANGED <<phase, batch, jobs>>

\* A free object for the next connection.
Fresh == CHOOSE c \in Conns : c \notin Objects

\* Acceptor::handleRead(): accept4() returns a descriptor ...
AcceptSucceeds ==
  /\ Turn(AcceptChl)
  /\ \E d \in Fds \ openFds : NewConnection(Fresh, d)
  /\ backlog' = backlog - 1

\* ... or fails, with ECONNABORTED, which takes the connection from the queue,
\* or with EMFILE, when the rest of the process uses all descriptors; either
\* way the handler goes on with -1.
AcceptFails ==
  /\ Turn(AcceptChl)
  /\ Cardinality(Phantoms) < MaxPhantoms
  /\ NewConnection(Fresh, NoFd)
  /\ backlog' \in {backlog, backlog - 1}

\* handleRead() with bytes: the message callback, in which the client may take
\* its reference again that it gave up with a forceClose().
HandleMessage(c) ==
  /\ Turn(c) /\ c \notin fin
  /\ UNCHANGED <<backlog, connections, polling, registered>>
  /\ \E refs \in {userRefs, userRefs \cup {c}} : UserCode(refs, disconnected, c)
  /\ Release(fd, disconnected, openFds)

\* handleRead() at the end of the stream.
HandleEndOfStream(c) ==
  /\ Turn(c) /\ c \in fin
  /\ HandleClose(c)
  /\ UNCHANGED backlog

HandleTimer ==
  /\ Turn(Timer)
  /\ UNCHANGED <<backlog, connections, polling, registered>>
  /\ UserCode(userRefs, disconnected, Timer)
  /\ Release(fd, disconnected, openFds)

SwapPendingJobs ==
  /\ phase = "dispatch" /\ active = {}
  /\ phase' = "jobs" /\ jobs' = pendingJobs /\ pendingJobs' = <<>>
  /\ UNCHANGED <<backlog, object, connections, userRefs, batch, kernel, active>>

\* forceCloseInLoop(): handleClose() unless the connection is closed already.
\* The job holds a reference until the vector is destroyed.
RunForceClose ==
  /\ phase = "jobs" /\ jobs # <<>>
  /\ jobs' = Tail(jobs) /\ batch' = batch \cup {Head(jobs)}
  /\ IF Head(jobs) \in disconnected
       THEN UNCHANGED <<object, connections, userRefs, kernel, pendingJobs>>
       ELSE HandleClose(Head(jobs))
  /\ UNCHANGED <<backlog, phase, active>>

\* Faulty variant: the vector of jobs outlives doPendingJobs().
KeepBatch == UNCHANGED batch

DestroyBatch == batch' = {}

BatchDone ==
  /\ phase = "jobs" /\ jobs = <<>>
  /\ phase' = "poll" /\ DestroyBatch
  /\ UNCHANGED <<backlog, connections, polling, registered, userRefs, active,
                 queues>>
  /\ Release(fd, disconnected, openFds)

-----------------------------------------------------------------------------
(***************************************************************************)
(* The peers.                                                              *)
(***************************************************************************)

\* Bound of the model: no more peers than descriptors, so that accept4() can
\* succeed.
PeerConnects ==
  /\ backlog + Cardinality(openFds) < Cardinality(Fds)
  /\ backlog' = backlog + 1
  /\ UNCHANGED <<object, connections, userRefs, batch, kernel, phase, active,
                 queues>>

\* Bytes that were reported are read before the end of the stream.
PeerCloses(c) ==
  /\ c \in registered \ active
  /\ fin' = fin \cup {c}
  /\ UNCHANGED <<backlog, object, connections, userRefs, batch, openFds,
                 registered, phase, active, queues>>

LoopStep ==
  \/ Poll \/ AcceptSucceeds \/ AcceptFails
  \/ \E c \in Conns : HandleMessage(c) \/ HandleEndOfStream(c)
  \/ HandleTimer \/ SwapPendingJobs \/ RunForceClose \/ BatchDone

Next ==
  \/ LoopStep
  \/ PeerConnects
  \/ \E c \in Conns : PeerCloses(c)

\* The loop thread is scheduled and callbacks return.
Fairness == WF_vars(LoopStep)

\* The timer of the client fires again and again, and again and again its
\* callback gives up what is closed: an obligation of the client.
ClientFairness ==
  /\ SF_vars(Poll /\ Timer \in active')
  /\ SF_vars(HandleTimer /\ userRefs' \cap disconnected = {})

SafeSpec == Init /\ [][Next]_vars
Spec == SafeSpec /\ Fairness /\ ClientFairness
-----------------------------------------------------------------------------
\* Types; jobs and their references only while a batch runs.
TypeOK ==
  /\ backlog \in 0 .. Cardinality(Fds)
  /\ Objects \subseteq Conns /\ fd \in [Objects -> Fds \cup {NoFd}]
  /\ disconnected \subseteq Objects /\ polling \subseteq Objects
  /\ connections \cup userRefs \cup batch \cup Queued \subseteq Objects
  /\ openFds \subseteq Fds /\ registered \subseteq Conns
  /\ fin \subseteq Objects
  /\ phase \in {"poll", "dispatch", "jobs"}
  /\ active \subseteq Conns \cup {AcceptChl, Timer}
  /\ pendingJobs \in Seq(Conns) /\ jobs \in Seq(Conns)
  /\ active # {} => phase = "dispatch"
  /\ jobs # <<>> \/ batch # {} => phase = "jobs"

\* EventLoop::loop() walks activeChnls_, computed once, while the callbacks of
\* the client close and release other connections of the list: a channel still
\* ahead exists, belongs to an open connection and is in the epoll set.
ActiveChannelsExist ==
  active \cap Conns \subseteq (Objects \cap registered) \ disconnected

\* connections_, state_, Channel::polling and the epoll set agree about every
\* connection, also when accept4() or epoll_ctl() have failed for it: one that
\* has no descriptor is open to the client and unknown to epoll.
ConnectionsAgree ==
  /\ connections = Objects \ disconnected
  /\ polling = connections
  /\ registered = connections \ Phantoms

\* No descriptor is lost, closed too early or shared by two connections,
\* although a closed connection keeps its own until its last reference goes.
DescriptorsOwned ==
  /\ openFds = {fd[c] : c \in Objects \ Phantoms}
  /\ \A c, e \in Objects \ Phantoms : c # e => fd[c] # fd[e]

\* A connection that its peer has closed, or that was force-closed, gives its
\* object and its descriptor back, if the client gives up its reference.
ConnectionFreed ==
  \A c \in Conns : (c \in fin \/ c \in Queued) ~> c \notin Objects
=============================================================================
