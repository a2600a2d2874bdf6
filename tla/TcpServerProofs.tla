-------------------------- MODULE TcpServerProofs ---------------------------
(***************************************************************************)
(* Theorems about TcpServer, for any number of connections, descriptors    *)
(* and failed accepts.                                                     *)
(***************************************************************************)
EXTENDS TcpServer, SequenceTheorems, FiniteSetTheorems, TLAPS

\* acceptChannel_ is reported only while a connection waits, and only its own
\* handler takes one.
AcceptReported == AcceptChl \in active => backlog > 0

\* The four invariants support each other: a channel that is reported exists
\* because connections_ holds its connection, and connections_ holds it because
\* it is registered; a descriptor is free once its object is gone.
IInv ==
  /\ TypeOK /\ AcceptReported
  /\ ActiveChannelsExist /\ ConnectionsAgree /\ DescriptorsOwned

-----------------------------------------------------------------------------
(***************************************************************************)
(* Sequences and sets.                                                     *)
(***************************************************************************)

\* A finite set has a sequence of its elements.
LEMMA SetToSeqElements ==
  ASSUME NEW U, NEW S \in SUBSET U, IsFiniteSet(U)
  PROVE  SetToSeq(S) \in Seq(U) /\ ToSet(SetToSeq(S)) \subseteq S
<1> DEFINE n == Cardinality(S)
<1>1. n \in Nat /\ ExistsBijection(1 .. n, S)
  BY FS_Subset, FS_CardinalityType
<1>2. \E f \in [1 .. n -> S] : IsInjective(f)
  BY <1>1, Zenon DEF ExistsBijection, Bijection, Injection
<1>3. SetToSeq(S) \in [1 .. n -> S]
  BY <1>2, Zenon DEF SetToSeq
<1> QED
  BY <1>1, <1>3 DEF ToSet

\* What a concatenation contains.
LEMMA ConcatElements ==
  ASSUME NEW U, NEW s \in Seq(U), NEW r \in Seq(U)
  PROVE  s \o r \in Seq(U) /\ ToSet(s \o r) \subseteq ToSet(s) \cup ToSet(r)
<1>1. ASSUME NEW i \in DOMAIN (s \o r)
      PROVE  (s \o r)[i] \in ToSet(s) \cup ToSet(r)
  <2>1. /\ Len(s) \in Nat /\ Len(r) \in Nat
        /\ DOMAIN s = 1 .. Len(s) /\ DOMAIN r = 1 .. Len(r)
        /\ DOMAIN (s \o r) = 1 .. Len(s) + Len(r)
    BY ConcatProperties, LenProperties
  <2>2. CASE i <= Len(s)
    <3>1. (s \o r)[i] = s[i] /\ i \in DOMAIN s
      BY <2>1, <2>2, ConcatProperties
    <3> QED
      BY <3>1 DEF ToSet
  <2>3. CASE ~(i <= Len(s))
    <3>1. (s \o r)[i] = r[i - Len(s)] /\ i - Len(s) \in DOMAIN r
      BY <2>1, <2>3, ConcatProperties
    <3> QED
      BY <3>1 DEF ToSet
  <2> QED
    BY <2>2, <2>3
<1> QED
  BY <1>1, ConcatProperties DEF ToSet

\* What is left of a sequence.
LEMMA HeadAndTailElements ==
  ASSUME NEW U, NEW s \in Seq(U), s # <<>>
  PROVE  /\ Head(s) \in U /\ Head(s) \in ToSet(s)
         /\ Tail(s) \in Seq(U) /\ ToSet(Tail(s)) \subseteq ToSet(s)
<1>1. Len(s) \in Nat \ {0} /\ DOMAIN s = 1 .. Len(s)
  BY EmptySeq, LenProperties
<1>2. Head(s) = s[1] /\ Head(s) \in U /\ Tail(s) \in Seq(U)
  BY <1>1, HeadTailProperties
<1>3. DOMAIN Tail(s) = 1 .. Len(s) - 1
      /\ \A i \in 1 .. Len(s) - 1 : Tail(s)[i] = s[i + 1] /\ i + 1 \in DOMAIN s
  BY <1>1, HeadTailProperties, LenProperties
<1>4. Head(s) \in ToSet(s)
  BY <1>1, <1>2 DEF ToSet
<1>5. ToSet(Tail(s)) \subseteq ToSet(s)
  BY <1>3 DEF ToSet
<1> QED
  BY <1>2, <1>4, <1>5

-----------------------------------------------------------------------------
(***************************************************************************)
(* The parts that the handlers share.                                      *)
(***************************************************************************)
Holders == connections \cup userRefs \cup batch \cup Queued

\* IInv in two parts, what Release() works on and the rest.
ObjectsSound ==
  /\ Objects \subseteq Conns /\ fd \in [Objects -> Fds \cup {NoFd}]
  /\ disconnected \subseteq Objects /\ fin \subseteq Objects
  /\ Holders \subseteq Objects
  /\ openFds \subseteq Fds
  /\ ConnectionsAgree /\ DescriptorsOwned

LoopSound ==
  /\ backlog \in 0 .. Cardinality(Fds) /\ AcceptReported
  /\ phase \in {"poll", "dispatch", "jobs"}
  /\ active \subseteq Conns \cup {AcceptChl, Timer}
  /\ active \cap Conns \subseteq registered
  /\ pendingJobs \in Seq(Conns) /\ jobs \in Seq(Conns)
  /\ active # {} => phase = "dispatch"
  /\ jobs # <<>> \/ batch # {} => phase = "jobs"

\* The invariant is the conjunction of what concerns the objects (connections_,
\* references, descriptors) and what concerns the loop (activeChnls_, jobs).
LEMMA Parts == IInv <=> ObjectsSound /\ LoopSound
<1>1. ObjectsSound => /\ registered \subseteq connections
                      /\ connections = Objects \ disconnected
                      /\ connections \subseteq Objects
                      /\ polling \subseteq Objects
  BY DEF ObjectsSound, ConnectionsAgree
<1>2. IInv => ObjectsSound /\ LoopSound
  BY DEF IInv, TypeOK, ObjectsSound, LoopSound, Holders, ActiveChannelsExist
<1>3. ObjectsSound /\ LoopSound => IInv
  BY <1>1 DEF IInv, TypeOK, ObjectsSound, LoopSound, Holders, ActiveChannelsExist
<1> QED
  BY <1>2, <1>3

\* A callback of the client only gives references up and queues jobs for
\* connections it refers to.
LEMMA UserCodeEffect ==
  ASSUME TypeOK, NEW refs \in SUBSET Conns, NEW closed, NEW here,
         UserCode(refs, closed, here)
  PROVE  /\ userRefs' \subseteq refs
         /\ pendingJobs' \in Seq(Conns)
         /\ ToSet(pendingJobs') \subseteq ToSet(pendingJobs) \cup refs
<1>1. PICK force \in SUBSET refs : /\ pendingJobs' = pendingJobs \o SetToSeq(force)
                                   /\ userRefs' \subseteq refs
  BY DEF UserCode
<1>2. SetToSeq(force) \in Seq(Conns) /\ ToSet(SetToSeq(force)) \subseteq force
  BY SetToSeqElements, TcpServerAssumption
<1>3. pendingJobs \in Seq(Conns)
  BY DEF TypeOK
<1> QED
  BY <1>1, <1>2, <1>3, ConcatElements

\* Release() destroys objects that nobody refers to, none that is connected, and
\* closes their descriptors only.
LEMMA ReleaseEffect ==
  ASSUME NEW D \in SUBSET Conns, NEW objects \in [D -> Fds \cup {NoFd}],
         NEW closed \in SUBSET D, NEW open,
         fin \subseteq D, Holders' \subseteq D,
         \A c \in D \ connections' : fd[c] = objects[c],
         connections' = D \ closed,
         polling' = connections',
         registered' = {c \in connections' : objects[c] # NoFd},
         open = {objects[c] : c \in {e \in D : objects[e] # NoFd}},
         \A c, e \in D : objects[c] = objects[e] /\ objects[c] # NoFd => c = e,
         Release(objects, closed, open)
  PROVE  ObjectsSound'
<1> DEFINE dead == {c \in D : c \notin Holders'}
           kept == D \ dead
<1>1. /\ fd' = [c \in kept |-> objects[c]]
      /\ disconnected' = closed \ dead
      /\ fin' = fin \ dead
      /\ openFds' = open \ {fd[c] : c \in dead}
  BY DEF Release, CloseDescriptors, Referenced, Holders
<1>2. connections' \subseteq Holders'
  BY DEF Holders
<1> HIDE DEF dead
<1>3. dead \subseteq D \ connections' /\ Holders' \subseteq kept
  BY <1>2 DEF dead
<1>4. Objects' = kept /\ \A c \in kept : fd'[c] = objects[c]
  BY <1>1 DEF Objects
<1>5. Phantoms' = {c \in kept : objects[c] = NoFd}
  BY <1>4 DEF Phantoms
<1>6. ConnectionsAgree'
  <2>1. connections' = kept \ disconnected'
    BY <1>1, <1>3
  <2>2. registered' = connections' \ Phantoms'
    BY <1>3, <1>5, <2>1
  <2> QED
    BY <1>4, <2>1, <2>2 DEF ConnectionsAgree
<1>7. {fd[c] : c \in dead} = {objects[c] : c \in dead}
  BY <1>3
<1>8. openFds' = {objects[c] : c \in {e \in kept : objects[e] # NoFd}}
  <2>1. openFds' = open \ {objects[c] : c \in dead}
    BY <1>1, <1>7
  <2>2. ASSUME NEW d \in openFds'
        PROVE  d \in {objects[c] : c \in {e \in kept : objects[e] # NoFd}}
    BY <2>1, <2>2
  <2>3. ASSUME NEW c \in kept, objects[c] # NoFd
        PROVE  objects[c] \in openFds'
    BY <1>3, <2>1, <2>3
  <2> QED
    BY <2>2, <2>3
<1>9. DescriptorsOwned'
  <2>1. Objects' \ Phantoms' = {e \in kept : objects[e] # NoFd}
    BY <1>4, <1>5
  <2>2. openFds' = {fd'[c] : c \in Objects' \ Phantoms'}
    BY <1>4, <1>8, <2>1
  <2>3. \A c, e \in Objects' \ Phantoms' : c # e => fd'[c] # fd'[e]
    BY <1>4, <2>1
  <2> QED
    BY <2>2, <2>3 DEF DescriptorsOwned
<1>10. openFds' \subseteq Fds
  BY <1>8
<1>11. /\ Objects' \subseteq Conns /\ fd' \in [Objects' -> Fds \cup {NoFd}]
       /\ disconnected' \subseteq Objects' /\ fin' \subseteq Objects'
  BY <1>1, <1>4
<1> QED
  BY <1>3, <1>4, <1>6, <1>9, <1>10, <1>11 DEF ObjectsSound
\* A step that calls the client and closes nothing.
LEMMA PlainEffect ==
  ASSUME IInv, NEW refs \in SUBSET Objects, NEW here,
         UserCode(refs, disconnected, here),
         UNCHANGED <<connections, polling, registered, batch, jobs>>,
         Release(fd, disconnected, openFds)
  PROVE  ObjectsSound' /\ pendingJobs' \in Seq(Conns)
<1>1. ObjectsSound /\ TypeOK
  BY Parts DEF IInv
<1>2. refs \in SUBSET Conns
  BY <1>1 DEF ObjectsSound
<1>3. /\ userRefs' \subseteq refs
      /\ pendingJobs' \in Seq(Conns)
      /\ ToSet(pendingJobs') \subseteq ToSet(pendingJobs) \cup refs
  BY <1>1, <1>2, UserCodeEffect
<1>4. Holders' \subseteq Objects
  BY <1>1, <1>3 DEF ObjectsSound, Holders, Queued
<1>5. registered' = {c \in connections' : fd[c] # NoFd}
  BY <1>1 DEF ObjectsSound, ConnectionsAgree, Phantoms
<1>6. /\ openFds = {fd[c] : c \in {e \in Objects : fd[e] # NoFd}}
      /\ \A c, e \in Objects : fd[c] = fd[e] /\ fd[c] # NoFd => c = e
  BY <1>1 DEF ObjectsSound, DescriptorsOwned, Phantoms
<1>7. /\ Objects \in SUBSET Conns /\ fd \in [Objects -> Fds \cup {NoFd}]
      /\ disconnected \in SUBSET Objects /\ fin \subseteq Objects
      /\ connections' = Objects \ disconnected /\ polling' = connections'
  BY <1>1 DEF ObjectsSound, ConnectionsAgree
<1>8. ObjectsSound'
  BY <1>4, <1>5, <1>6, <1>7, ReleaseEffect
<1> QED
  BY <1>3, <1>8

\* handleClose() of a connection that is open.
LEMMA HandleCloseEffect ==
  ASSUME IInv, NEW c \in Objects, HandleClose(c),
         batch' \subseteq Objects, ToSet(jobs') \subseteq Objects
  PROVE  /\ ObjectsSound' /\ pendingJobs' \in Seq(Conns)
         /\ registered' = registered \ {c}
<1> DEFINE closed == disconnected \cup {c}
<1>1. ObjectsSound /\ TypeOK
  BY Parts DEF IInv
<1>2. /\ connections' = connections \ {c} /\ polling' = polling \ {c}
      /\ registered' = registered \ {c}
      /\ UserCode(userRefs, closed, c)
      /\ Release(fd, closed, openFds)
  BY DEF HandleClose, RemoveChannel, Erase
<1>3. userRefs \in SUBSET Conns
  BY <1>1 DEF ObjectsSound, Holders
<1>4. /\ userRefs' \subseteq userRefs
      /\ pendingJobs' \in Seq(Conns)
      /\ ToSet(pendingJobs') \subseteq ToSet(pendingJobs) \cup userRefs
  BY <1>1, <1>2, <1>3, UserCodeEffect
<1>5. Holders' \subseteq Objects
  BY <1>1, <1>2, <1>4 DEF ObjectsSound, Holders, Queued
<1>6. /\ connections' = Objects \ closed /\ polling' = connections'
      /\ registered' = {e \in connections' : fd[e] # NoFd}
  BY <1>1, <1>2 DEF ObjectsSound, ConnectionsAgree, Phantoms
<1>7. /\ openFds = {fd[d] : d \in {e \in Objects : fd[e] # NoFd}}
      /\ \A d, e \in Objects : fd[d] = fd[e] /\ fd[d] # NoFd => d = e
  BY <1>1 DEF ObjectsSound, DescriptorsOwned, Phantoms
<1>8. /\ Objects \in SUBSET Conns /\ fd \in [Objects -> Fds \cup {NoFd}]
      /\ closed \in SUBSET Objects /\ fin \subseteq Objects
  BY <1>1 DEF ObjectsSound
<1>9. ObjectsSound'
  <2> HIDE DEF closed
  <2> QED
    BY <1>2, <1>5, <1>6, <1>7, <1>8, ReleaseEffect
<1> QED
  BY <1>2, <1>4, <1>9

\* newConnection() for a new descriptor, or for -1.
LEMMA NewConnectionEffect ==
  ASSUME IInv, NEW c, NEW d \in (Fds \ openFds) \cup {NoFd}, NewConnection(c, d),
         UNCHANGED <<batch, jobs>>
  PROVE  /\ ObjectsSound' /\ pendingJobs' \in Seq(Conns)
         /\ registered \subseteq registered'
<1> DEFINE D == Objects \cup {c}
           objects == [e \in D |-> IF e = c THEN d ELSE fd[e]]
           open == openFds \cup ({d} \ {NoFd})
<1>1. ObjectsSound /\ TypeOK
  BY Parts DEF IInv
<1>2. /\ c \in Conns \ Objects
      /\ connections' = connections \cup {c} /\ polling' = polling \cup {c}
      /\ registered' = registered \cup (IF d = NoFd THEN {} ELSE {c})
      /\ UserCode(userRefs \cup {c}, disconnected, AcceptChl)
      /\ Release(objects, disconnected, open)
  BY DEF NewConnection
<1>3. userRefs \cup {c} \in SUBSET Conns
  BY <1>1, <1>2 DEF ObjectsSound, Holders
<1>4. /\ userRefs' \subseteq userRefs \cup {c}
      /\ pendingJobs' \in Seq(Conns)
      /\ ToSet(pendingJobs') \subseteq ToSet(pendingJobs) \cup userRefs \cup {c}
  BY <1>1, <1>2, <1>3, UserCodeEffect
<1>5. Holders' \subseteq D
  BY <1>1, <1>2, <1>4 DEF ObjectsSound, Holders, Queued
<1>6. /\ D \in SUBSET Conns /\ objects \in [D -> Fds \cup {NoFd}]
      /\ disconnected \in SUBSET D /\ fin \subseteq D
  BY <1>1, <1>2 DEF ObjectsSound
<1>7. \A e \in Objects : objects[e] = fd[e] /\ e # c
  BY <1>2
<1>8. objects[c] = d
  OBVIOUS
<1>9. connections' = D \ disconnected /\ polling' = connections'
  BY <1>1, <1>2 DEF ObjectsSound, ConnectionsAgree
<1>10. registered' = {e \in connections' : objects[e] # NoFd}
  BY <1>1, <1>2, <1>7, <1>8 DEF ObjectsSound, ConnectionsAgree, Phantoms
<1>11. openFds = {fd[b] : b \in {e \in Objects : fd[e] # NoFd}}
  BY <1>1 DEF ObjectsSound, DescriptorsOwned, Phantoms
<1>12. \A b, e \in Objects : fd[b] = fd[e] /\ fd[b] # NoFd => b = e
  BY <1>1 DEF ObjectsSound, DescriptorsOwned, Phantoms
<1>13. open = {objects[b] : b \in {e \in D : objects[e] # NoFd}}
  BY <1>7, <1>8, <1>11
<1>14. \A b, e \in D : objects[b] = objects[e] /\ objects[b] # NoFd => b = e
  BY <1>7, <1>8, <1>11, <1>12, TcpServerAssumption
<1>15. \A e \in D \ connections' : fd[e] = objects[e]
  BY <1>2, <1>7
<1>16. ObjectsSound'
  <2> HIDE DEF D, objects, open
  <2> QED
    BY <1>2, <1>5, <1>6, <1>9, <1>10, <1>13, <1>14, <1>15, ReleaseEffect
<1> QED
  BY <1>2, <1>4, <1>16
-----------------------------------------------------------------------------
(***************************************************************************)
(* The invariant.                                                          *)
(***************************************************************************)

\* A server starts without connections.
LEMMA InitInvariant == Init => IInv
<1> SUFFICES ASSUME Init PROVE ObjectsSound /\ LoopSound
  BY Parts
<1>1. Cardinality(Fds) \in Nat
  BY FS_CardinalityType, TcpServerAssumption
<1>2. Objects = {} /\ Phantoms = {} /\ Holders = {}
  BY DEF Init, Objects, Phantoms, Holders, Queued, ToSet
<1>3. ObjectsSound
  BY <1>2 DEF Init, ObjectsSound, ConnectionsAgree, DescriptorsOwned
<1>4. LoopSound
  BY <1>1, EmptySeq DEF Init, Listening, LoopSound, AcceptReported
<1> QED
  BY <1>3, <1>4

\* The handler of one channel, or of the timer, is in activeChnls_; it leaves the
\* rest of the list to the handlers that follow.
LEMMA TurnKeeps ==
  ASSUME IInv, NEW chl, Turn(chl), ObjectsSound', pendingJobs' \in Seq(Conns),
         registered \ {chl} \subseteq registered',
         backlog' \in 0 .. Cardinality(Fds), chl = AcceptChl \/ UNCHANGED backlog
  PROVE  IInv'
<1>1. LoopSound
  BY Parts
<1>2. LoopSound'
  BY <1>1 DEF LoopSound, Turn, AcceptReported
<1>3. (ObjectsSound /\ LoopSound)' => IInv'
  BY Parts, PTL
<1> QED
  BY <1>2, <1>3

\* Every step of the loop and of the peers keeps the invariant.
LEMMA Inductive == IInv /\ [Next]_vars => IInv'
<1> SUFFICES ASSUME IInv, [Next]_vars PROVE IInv'
  OBVIOUS
<1>1. ObjectsSound /\ LoopSound
  BY Parts
<1>2. (ObjectsSound /\ LoopSound)' => IInv'
  BY Parts, PTL
<1>3. Cardinality(Fds) \in Nat
  BY FS_CardinalityType, TcpServerAssumption
<1> DEFINE ObjectsSame == UNCHANGED <<object, connections, openFds, registered>>
<1>4. ASSUME ObjectsSame, Holders' \subseteq Objects, fin' \subseteq Objects
      PROVE  ObjectsSound'
  BY <1>1, <1>4
  DEF ObjectsSound, ConnectionsAgree, DescriptorsOwned, Objects, Phantoms, object
<1>5. CASE Poll
  <2>1. ObjectsSame /\ fin' = fin /\ Holders' = Holders
    BY <1>5 DEF Poll, kernel, object, queues, Holders, Queued
  <2>2. ObjectsSound'
    BY <1>1, <1>4, <2>1 DEF ObjectsSound
  <2>3. registered \subseteq Conns
    BY <1>1 DEF ObjectsSound, ConnectionsAgree
  <2>4. LoopSound'
    BY <1>1, <1>5, <2>3, TcpServerAssumption
    DEF Poll, LoopSound, AcceptReported, MustReport, kernel, queues
  <2> QED
    BY <1>2, <2>2, <2>4
<1>6. CASE AcceptSucceeds
  <2>1. PICK d \in Fds \ openFds : NewConnection(Fresh, d)
    BY <1>6 DEF AcceptSucceeds
  <2>2. Turn(AcceptChl) /\ backlog' = backlog - 1 /\ UNCHANGED <<batch, jobs>>
    BY <1>6 DEF AcceptSucceeds, Turn
  <2>3. backlog > 0
    BY <1>1, <2>2 DEF LoopSound, AcceptReported, Turn
  <2>4. /\ ObjectsSound' /\ pendingJobs' \in Seq(Conns)
        /\ registered \subseteq registered'
    BY <2>1, <2>2, NewConnectionEffect
  <2>5. backlog' \in 0 .. Cardinality(Fds)
    BY <1>1, <1>3, <2>2, <2>3 DEF LoopSound
  <2> QED
    BY <2>2, <2>4, <2>5, TurnKeeps
<1>7. CASE AcceptFails
  <2>1. NewConnection(Fresh, NoFd)
    BY <1>7 DEF AcceptFails
  <2>2. /\ Turn(AcceptChl) /\ backlog' \in {backlog, backlog - 1}
        /\ UNCHANGED <<batch, jobs>>
    BY <1>7 DEF AcceptFails, Turn
  <2>3. backlog > 0
    BY <1>1, <2>2 DEF LoopSound, AcceptReported, Turn
  <2>4. /\ ObjectsSound' /\ pendingJobs' \in Seq(Conns)
        /\ registered \subseteq registered'
    BY <2>1, <2>2, NewConnectionEffect
  <2>5. backlog' \in 0 .. Cardinality(Fds)
    BY <1>1, <1>3, <2>2, <2>3 DEF LoopSound
  <2> QED
    BY <2>2, <2>4, <2>5, TurnKeeps
<1>8. ASSUME NEW c \in Conns, HandleMessage(c) PROVE IInv'
  <2>1. /\ UNCHANGED <<backlog, connections, polling, registered, batch, jobs>>
        /\ Release(fd, disconnected, openFds) /\ Turn(c)
    BY <1>8 DEF HandleMessage, Turn
  <2>2. PICK refs \in {userRefs, userRefs \cup {c}} : UserCode(refs, disconnected, c)
    BY <1>8 DEF HandleMessage
  <2>3. refs \in SUBSET Objects
    BY <1>1, <1>8, <2>1
    DEF ObjectsSound, ConnectionsAgree, LoopSound, Turn, Holders
  <2>4. ObjectsSound' /\ pendingJobs' \in Seq(Conns)
    BY <2>1, <2>2, <2>3, PlainEffect
  <2>5. backlog' \in 0 .. Cardinality(Fds)
    BY <1>1, <2>1 DEF LoopSound
  <2> QED
    BY <2>1, <2>4, <2>5, TurnKeeps
<1>9. ASSUME NEW c \in Conns, HandleEndOfStream(c) PROVE IInv'
  <2>1. HandleClose(c) /\ Turn(c) /\ UNCHANGED <<backlog, batch, jobs>>
    BY <1>9 DEF HandleEndOfStream, Turn
  <2>2. /\ c \in Objects /\ batch' \subseteq Objects
        /\ ToSet(jobs') \subseteq Objects
    BY <1>1, <2>1 DEF ObjectsSound, ConnectionsAgree, LoopSound, Turn, Holders, Queued
  <2>3. /\ ObjectsSound' /\ pendingJobs' \in Seq(Conns)
        /\ registered' = registered \ {c}
    BY <2>1, <2>2, HandleCloseEffect
  <2>4. backlog' \in 0 .. Cardinality(Fds)
    BY <1>1, <2>1 DEF LoopSound
  <2> QED
    BY <2>1, <2>3, <2>4, TurnKeeps
<1>10. CASE HandleTimer
  <2>1. /\ UserCode(userRefs, disconnected, Timer)
        /\ UNCHANGED <<backlog, connections, polling, registered, batch, jobs>>
        /\ Release(fd, disconnected, openFds) /\ Turn(Timer)
    BY <1>10 DEF HandleTimer, Turn
  <2>2. ObjectsSound' /\ pendingJobs' \in Seq(Conns)
    BY <1>1, <2>1, PlainEffect DEF ObjectsSound, Holders
  <2>3. backlog' \in 0 .. Cardinality(Fds)
    BY <1>1, <2>1 DEF LoopSound
  <2> QED
    BY <2>1, <2>2, <2>3, TurnKeeps
<1>11. CASE SwapPendingJobs
  <2>1. /\ ObjectsSame /\ fin' = fin
        /\ phase' = "jobs" /\ active' = {} /\ jobs' = pendingJobs /\ pendingJobs' = <<>>
        /\ UNCHANGED <<backlog, connections, userRefs, batch, registered>>
    BY <1>11 DEF SwapPendingJobs, kernel, object
  <2>2. Holders' \subseteq Objects
    BY <1>1, <2>1 DEF ObjectsSound, Holders, Queued, ToSet
  <2>3. ObjectsSound'
    BY <1>1, <1>4, <2>1, <2>2 DEF ObjectsSound
  <2>4. LoopSound'
    BY <1>1, <2>1, EmptySeq DEF LoopSound, AcceptReported
  <2> QED
    BY <1>2, <2>3, <2>4
<1>12. CASE RunForceClose
  <2>1. /\ phase = "jobs" /\ jobs # <<>>
        /\ jobs' = Tail(jobs) /\ batch' = batch \cup {Head(jobs)}
        /\ UNCHANGED <<backlog, phase, active>>
    BY <1>12 DEF RunForceClose
  <2>2. /\ Head(jobs) \in ToSet(jobs)
        /\ Tail(jobs) \in Seq(Conns) /\ ToSet(Tail(jobs)) \subseteq ToSet(jobs)
    BY <1>1, <2>1, HeadAndTailElements DEF LoopSound
  <2>3. /\ Head(jobs) \in Objects /\ batch' \subseteq Objects
        /\ ToSet(jobs') \subseteq Objects
    BY <1>1, <2>1, <2>2 DEF ObjectsSound, Holders, Queued
  <2>4. ObjectsSound' /\ pendingJobs' \in Seq(Conns)
    <3>1. CASE Head(jobs) \in disconnected
      <4>1. /\ ObjectsSame /\ fin' = fin
            /\ UNCHANGED <<connections, userRefs, pendingJobs>>
        BY <1>12, <3>1 DEF RunForceClose, kernel, object
      <4>2. Holders' \subseteq Objects
        BY <1>1, <2>1, <2>2, <2>3, <4>1 DEF ObjectsSound, Holders, Queued
      <4> QED
        BY <1>1, <1>4, <4>1, <4>2 DEF ObjectsSound, LoopSound
    <3>2. CASE Head(jobs) \notin disconnected
      BY <1>12, <2>3, <3>2, HandleCloseEffect DEF RunForceClose
    <3> QED
      BY <3>1, <3>2
  <2>5. LoopSound'
    BY <1>1, <2>1, <2>2, <2>4 DEF LoopSound, AcceptReported
  <2> QED
    BY <1>2, <2>4, <2>5
<1>13. CASE BatchDone
  <2>1. /\ jobs = <<>> /\ active = {} /\ phase' = "poll" /\ batch' = {}
        /\ UNCHANGED <<backlog, connections, polling, registered, userRefs, active,
                       pendingJobs, jobs>>
        /\ Release(fd, disconnected, openFds)
    BY <1>1, <1>13 DEF BatchDone, DestroyBatch, queues, LoopSound
  <2>2. Holders' \subseteq Objects
    BY <1>1, <2>1 DEF ObjectsSound, Holders, Queued
  <2>3. registered' = {c \in connections' : fd[c] # NoFd}
    BY <1>1, <2>1 DEF ObjectsSound, ConnectionsAgree, Phantoms
  <2>4. /\ openFds = {fd[c] : c \in {e \in Objects : fd[e] # NoFd}}
        /\ \A c, e \in Objects : fd[c] = fd[e] /\ fd[c] # NoFd => c = e
    BY <1>1 DEF ObjectsSound, DescriptorsOwned, Phantoms
  <2>5. /\ Objects \in SUBSET Conns /\ fd \in [Objects -> Fds \cup {NoFd}]
        /\ disconnected \in SUBSET Objects /\ fin \subseteq Objects
        /\ connections' = Objects \ disconnected /\ polling' = connections'
    BY <1>1, <2>1 DEF ObjectsSound, ConnectionsAgree
  <2>6. ObjectsSound'
    BY <2>1, <2>2, <2>3, <2>4, <2>5, ReleaseEffect
  <2>7. LoopSound'
    BY <1>1, <2>1 DEF LoopSound, AcceptReported
  <2> QED
    BY <1>2, <2>6, <2>7
<1>14. CASE PeerConnects
  <2>1. /\ ObjectsSame /\ fin' = fin /\ Holders' = Holders
        /\ backlog' = backlog + 1
        /\ backlog + Cardinality(openFds) < Cardinality(Fds)
        /\ UNCHANGED <<phase, active, pendingJobs, jobs, batch, registered>>
    BY <1>14 DEF PeerConnects, kernel, object, queues, Holders, Queued
  <2>2. Cardinality(openFds) \in Nat
    BY <1>1, FS_Subset, FS_CardinalityType, TcpServerAssumption DEF ObjectsSound
  <2>3. ObjectsSound'
    BY <1>1, <1>4, <2>1 DEF ObjectsSound
  <2>4. LoopSound'
    BY <1>1, <1>3, <2>1, <2>2 DEF LoopSound, AcceptReported
  <2> QED
    BY <1>2, <2>3, <2>4
<1>15. ASSUME NEW c \in Conns, PeerCloses(c) PROVE IInv'
  <2>1. /\ ObjectsSame /\ fin' = fin \cup {c} /\ c \in registered
        /\ Holders' = Holders
        /\ UNCHANGED <<backlog, phase, active, pendingJobs, jobs, batch, registered>>
    BY <1>15 DEF PeerCloses, object, queues, Holders, Queued
  <2>2. ObjectsSound'
    BY <1>1, <1>4, <2>1 DEF ObjectsSound, ConnectionsAgree
  <2>3. LoopSound'
    BY <1>1, <2>1 DEF LoopSound, AcceptReported
  <2> QED
    BY <1>2, <2>2, <2>3
<1>16. CASE UNCHANGED vars
  <2>1. /\ ObjectsSame /\ fin' = fin /\ Holders' = Holders
        /\ UNCHANGED <<backlog, phase, active, pendingJobs, jobs, batch, registered>>
    BY <1>16 DEF vars, object, kernel, queues, Holders, Queued
  <2>2. ObjectsSound'
    BY <1>1, <1>4, <2>1 DEF ObjectsSound
  <2>3. LoopSound'
    BY <1>1, <2>1 DEF LoopSound, AcceptReported
  <2> QED
    BY <1>2, <2>2, <2>3
<1> QED
  BY <1>5, <1>6, <1>7, <1>8, <1>9, <1>10, <1>11, <1>12, <1>13, <1>14, <1>15, <1>16
  DEF Next, LoopStep

\* Whatever the peers and the client do.
LEMMA Invariance == SafeSpec => []IInv
BY InitInvariant, Inductive, PTL DEF SafeSpec

\* For any number of connections the sets have their types, and jobs and their
\* references are found while a batch of jobs runs only.
THEOREM TypeCorrect == SafeSpec => []TypeOK
<1>1. IInv => TypeOK
  BY DEF IInv
<1> QED
  BY <1>1, Invariance, PTL

\* For any number of connections that are ready together, no callback of the
\* client destroys or unregisters a channel that loop() has still to visit.
THEOREM NoDanglingChannel == SafeSpec => []ActiveChannelsExist
<1>1. IInv => ActiveChannelsExist
  BY DEF IInv
<1> QED
  BY <1>1, Invariance, PTL

\* For any number of connections and failed accepts, TcpServer, TcpConnection,
\* Channel and epoll agree about which connections are open.
THEOREM Agreement == SafeSpec => []ConnectionsAgree
<1>1. IInv => ConnectionsAgree
  BY DEF IInv
<1> QED
  BY <1>1, Invariance, PTL

\* For any number of descriptors, each one in use belongs to exactly one object,
\* until the destructor of that object closes it.
THEOREM NoDescriptorLost == SafeSpec => []DescriptorsOwned
<1>1. IInv => DescriptorsOwned
  BY DEF IInv
<1> QED
  BY <1>1, Invariance, PTL
=============================================================================
