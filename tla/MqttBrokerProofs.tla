-------------------------- MODULE MqttBrokerProofs --------------------------
(* For any number of clients, ids, descriptors, topics and packets, whatever   *)
(* ids are shared and however descriptor numbers are reused: the broker's      *)
(* threads, session table and descriptors stay consistent (IInv), stop()       *)
(* leaves nothing behind, and the broker implements ServerLifecycle; and what  *)
(* the clients that are not mixed up with another one are sent, in which       *)
(* order, and who may disconnect them (OwnInv).                                *)
EXTENDS MqttProperties, TLAPS

-----------------------------------------------------------------------------
(* Type correctness.                                                           *)

(* Hanging up keeps the types of what it writes.                               *)
LEMMA HangUpTypes ==
  ASSUME TypeOK, NEW fds, HangUp(fds)
  PROVE  /\ table' \in [Fds -> Conns \union {None}]
         /\ shut' \subseteq Conns
BY DEF TypeOK, HangUp

(* Sending a frame appends it to what one client has received, or to nothing.  *)
LEMMA SendTypes ==
  ASSUME TypeOK, NEW f \in Fds, NEW frame \in Frames, NEW ok \in BOOLEAN,
         SendAll(f, frame, ok)
  PROVE  rcvd' \in [Conns -> Seq(Frames)]
<1>1. CASE UNCHANGED rcvd
  BY <1>1 DEF TypeOK
<1>2. CASE table[f] # None /\ rcvd' = [rcvd EXCEPT ![table[f]] = Append(@, frame)]
  <2>1. table[f] \in Conns /\ rcvd[table[f]] \in Seq(Frames)
    BY <1>2 DEF TypeOK
  <2>2. Append(rcvd[table[f]], frame) \in Seq(Frames)
    BY <2>1
  <2> QED BY <1>2, <2>2 DEF TypeOK
<1> QED BY <1>1, <1>2 DEF SendAll

(* The initial state is well typed.                                            *)
LEMMA InitTypeOK == Init => TypeOK
<1> SUFFICES ASSUME Init PROVE TypeOK
  OBVIOUS
<1>1. \A c \in Conns : Wired(c)
  BY DEF Init, Wired, Registered
<1>2. /\ sent \in [Conns -> Nat] /\ starts \in 0..MaxStarts
      /\ rcvd \in [Conns -> Seq(Frames)] /\ history \in Seq(Messages)
  BY BoundAssumption DEF Init
<1>3. /\ table \in [Fds -> Conns \union {None}]
      /\ sessions \in [ClientIds -> Sessions \union {None}]
  BY DEF Init
<1> QED BY <1>1, <1>2, <1>3 DEF Init, TypeOK, Running

(* Every step of the owner keeps the types.                                    *)
LEMMA OwnerTypeOK ==
  TypeOK /\ (Start \/ StopAgain \/ StopBegin \/ StopStep \/ ClearMessages) => TypeOK'
<1> SUFFICES ASSUME TypeOK, Start \/ StopAgain \/ StopBegin \/ StopStep \/ ClearMessages
             PROVE  TypeOK'
  OBVIOUS
<1> USE DEF ownerVars, serverVars, netVars, clientVars, threadVars, recordVars
<1>1. CASE Start
  BY <1>1, BoundAssumption DEF Start, TypeOK, Wired
<1>2. CASE StopAgain
  BY <1>2 DEF StopAgain, vars, TypeOK, Wired
<1>3. CASE StopBegin
  BY <1>3 DEF StopBegin, TypeOK, Wired
<1>4. CASE StopCloseListener
  BY <1>4 DEF StopCloseListener, TypeOK, Wired
<1>5. CASE StopUnsetListener
  BY <1>5 DEF StopUnsetListener, TypeOK, Wired
<1>6. CASE StopJoinAcceptor
  BY <1>6 DEF StopJoinAcceptor, TypeOK, Wired
<1>7. CASE StopCloseSessions
  BY <1>7, HangUpTypes DEF StopCloseSessions, TypeOK, Wired
<1>8. CASE StopJoinAll
  BY <1>8 DEF StopJoinAll, TypeOK, Wired
<1>9. CASE ClearMessages
  <2>1. cleared' \subseteq Messages
    BY <1>9 DEF ClearMessages, TypeOK
  <2>2. history' \in Seq(Messages)
    BY <1>9 DEF ClearMessages
  <2> QED BY <1>9, <2>1, <2>2 DEF ClearMessages, TypeOK, Wired
<1> QED BY <1>1, <1>2, <1>3, <1>4, <1>5, <1>6, <1>7, <1>8, <1>9 DEF StopStep

(* Every step of the acceptor keeps the types.                                 *)
LEMMA AcceptorTypeOK == TypeOK /\ AcceptorStep => TypeOK'
<1> SUFFICES ASSUME TypeOK, AcceptorStep PROVE TypeOK'
  OBVIOUS
<1> USE DEF ownerVars, serverVars, netVars, clientVars, threadVars, recordVars,
            acceptorFrame
<1>1. CASE AcceptCheck
  BY <1>1 DEF AcceptCheck, TypeOK, Wired
<1>2. CASE AcceptNothing
  BY <1>2 DEF AcceptNothing, TypeOK, Wired
<1>3. CASE AcceptBreaks
  BY <1>3 DEF AcceptBreaks, TypeOK, Wired
<1>4. CASE AcceptAborts
  BY <1>4 DEF AcceptAborts, TypeOK, Wired
<1>5. ASSUME NEW c \in Conns, NEW f \in Fds, AcceptClient(c, f)
      PROVE  TypeOK'
  <2>1. \A d \in Conns : Wired(d)'
    BY <1>5 DEF AcceptClient, Goto, TypeOK, Wired, Registered
  <2>2. group' \subseteq Conns
    BY <1>5 DEF AcceptClient, Unfinished, TypeOK
  <2>3. mixed' \subseteq Conns
    BY <1>5 DEF AcceptClient, MixedNumber, StillHave, TypeOK
  <2> QED BY <1>5, <2>1, <2>2, <2>3 DEF AcceptClient, Goto, TypeOK, Running
<1> QED BY <1>1, <1>2, <1>3, <1>4, <1>5 DEF AcceptorStep

(* The frames handlers send.                                                   *)
LEMMA FrameKinds ==
  /\ Connack \in Frames /\ Pingresp \in Frames
  /\ Messages \subseteq Frames /\ Subacks \subseteq Frames
BY DEF Frames

(* Every step of a handler keeps the types.                                    *)
LEMMA HandlerTypeOK ==
  ASSUME TypeOK, NEW c \in Conns, HandlerStep(c)
  PROVE  TypeOK'
<1> USE DEF ownerVars, serverVars, netVars, clientVars, threadVars, recordVars,
            handlerFrame, Goto
<1>0. pc[c] # "none" => sock[c] \in Fds
  BY DEF TypeOK, Wired
<1>1. CASE Receive(c)
  <2>1. table[sock[c]] \in Conns \union {None}
    BY <1>0, <1>1 DEF Receive, TypeOK
  <2>2. \A d \in Conns : Wired(d)'
    BY <1>1, <2>1 DEF Receive, BindRecv, TypeOK, Wired, Registered
  <2>3. file' \in [Conns -> Conns \union {None}]
    BY <1>1, <2>1 DEF Receive, BindRecv, TypeOK
  <2>4. pc' \in [Conns -> Running \union {"none", "exited"}]
    BY <1>1 DEF Receive, TypeOK, Running, Registered
  <2> QED BY <1>1, <2>2, <2>3, <2>4 DEF Receive, TypeOK
<1>2. CASE HandleEof(c)
  <2>1. \A d \in Conns : Wired(d)'
    BY <1>2 DEF HandleEof, TypeOK, Wired, Registered
  <2>2. pc' \in [Conns -> Running \union {"none", "exited"}]
    BY <1>2 DEF HandleEof, TypeOK, Running, Registered
  <2> QED BY <1>2, <2>1, <2>2 DEF HandleEof, TypeOK
<1>3. CASE Register(c)
  <2>1. NewSession(c) \in Sessions
    BY <1>0, <1>3 DEF Register, NewSession, Sessions
  <2> QED BY <1>3, <2>1 DEF Register, TypeOK, Wired, Running, Registered
<1>4. CASE SendConnack(c)
  <2>1. rcvd' \in [Conns -> Seq(Frames)]
    BY <1>0, <1>4, SendTypes, FrameKinds DEF SendConnack
  <2>2. \A d \in Conns : Wired(d)'
    BY <1>4 DEF SendConnack, TypeOK, Wired, Registered
  <2>3. pc' \in [Conns -> Running \union {"none", "exited"}]
    BY <1>4 DEF SendConnack, TypeOK, Running, Registered
  <2> QED BY <1>4, <2>1, <2>2, <2>3 DEF SendConnack, TypeOK
<1>5. CASE RecordPublish(c)
  <2>1. history' \in Seq(Messages)
    BY <1>5 DEF RecordPublish, Recorded, TypeOK, Wired
  <2>2. \A d \in Conns : Wired(d)'
    BY <1>5 DEF RecordPublish, TypeOK, Wired, Registered
  <2> QED BY <1>5, <2>1, <2>2 DEF RecordPublish, TypeOK, Running, Registered
<1>6. CASE SnapshotTargets(c)
  <2>1. Subscribers(job[c].topic) \subseteq ClientIds \X Fds
    BY DEF Subscribers, TypeOK, Sessions
  <2>2. \A d \in Conns : Wired(d)'
    BY <1>6 DEF SnapshotTargets, TypeOK, Wired, Registered
  <2> QED BY <1>6, <2>1, <2>2 DEF SnapshotTargets, TypeOK, Running, Registered
<1>7. ASSUME NEW t \in targets[c], Deliver(c, t)
      PROVE  TypeOK'
  <2>1. t[2] \in Fds /\ job[c] \in Messages
    BY <1>7 DEF Deliver, TypeOK, Wired
  <2>2. rcvd' \in [Conns -> Seq(Frames)]
    BY <1>7, <2>1, SendTypes, FrameKinds DEF Deliver
  <2>3. targets' \in [Conns -> SUBSET (ClientIds \X Fds)]
    BY <1>7 DEF Deliver, TargetsLeft, TypeOK
  <2> QED BY <1>7, <2>2, <2>3 DEF Deliver, TypeOK, Wired
<1>8. CASE PublishDone(c)
  BY <1>8 DEF PublishDone, TypeOK, Wired, Running, Registered
<1>9. CASE StoreFilter(c)
  <2>1. job'[c] \in Subacks /\ job' = [job EXCEPT ![c] = job'[c]]
    BY <1>9 DEF StoreFilter, Subacks, TypeOK
  <2>2. sessions' \in [ClientIds -> Sessions \union {None}]
    <3>1. CASE UNCHANGED sessions
      BY <3>1 DEF TypeOK
    <3>2. CASE FindsSession(c)
      <4>1. id[c] \in ClientIds /\ job[c].filter \in Filters
        BY <1>9 DEF StoreFilter, TypeOK, Wired, Registered, Requests
      <4>2. sessions[id[c]] \in Sessions
        BY <3>2, <4>1 DEF FindsSession, TypeOK
      <4>3. [sessions[id[c]] EXCEPT !.filters = @ \union {job[c].filter}] \in Sessions
        BY <4>1, <4>2 DEF Sessions
      <4>4. sessions' = [sessions EXCEPT ![id[c]] =
                          [sessions[id[c]] EXCEPT !.filters = @ \union {job[c].filter}]]
        BY <1>9, <3>2 DEF StoreFilter
      <4> QED BY <4>1, <4>3, <4>4 DEF TypeOK
    <3> QED BY <1>9, <3>1, <3>2 DEF StoreFilter
  <2>3. \A d \in Conns : Wired(d)'
    BY <1>9, <2>1 DEF StoreFilter, TypeOK, Wired, Registered
  <2>4. job' \in [Conns -> Messages \union Requests \union Subacks \union {None}]
    BY <2>1 DEF TypeOK
  <2> QED BY <1>9, <2>2, <2>3, <2>4 DEF StoreFilter, TypeOK, Running, Registered
<1>10. CASE SendSuback(c)
  <2>1. rcvd' \in [Conns -> Seq(Frames)]
    BY <1>0, <1>10, SendTypes, FrameKinds DEF SendSuback, TypeOK, Wired
  <2>2. \A d \in Conns : Wired(d)'
    BY <1>10 DEF SendSuback, TypeOK, Wired, Registered
  <2> QED BY <1>10, <2>1, <2>2 DEF SendSuback, TypeOK, Running, Registered
<1>11. CASE SendPingresp(c)
  <2>1. rcvd' \in [Conns -> Seq(Frames)]
    BY <1>0, <1>11, SendTypes, FrameKinds DEF SendPingresp
  <2>2. \A d \in Conns : Wired(d)'
    BY <1>11 DEF SendPingresp, TypeOK, Wired, Registered
  <2> QED BY <1>11, <2>1, <2>2 DEF SendPingresp, TypeOK, Running, Registered
<1>12. CASE RemoveSession(c)
  <2>1. table' \in [Fds -> Conns \union {None}] /\ shut' \subseteq Conns
    BY <1>12, HangUpTypes DEF RemoveSession
  <2>2. sessions' \in [ClientIds -> Sessions \union {None}]
    BY <1>12 DEF RemoveSession, Erased, TypeOK
  <2>3. \A d \in Conns : Wired(d)'
    BY <1>12 DEF RemoveSession, TypeOK, Wired, Registered
  <2>4. pc' \in [Conns -> Running \union {"none", "exited"}]
    BY <1>12 DEF RemoveSession, TypeOK, Running, Registered
  <2> QED BY <1>12, <2>1, <2>2, <2>3, <2>4 DEF RemoveSession, TypeOK
<1>13. CASE CloseSocket(c)
  <2>1. table' \in [Fds -> Conns \union {None}]
    BY <1>13 DEF CloseSocket, Close, TypeOK
  <2>2. \A d \in Conns : Wired(d)'
    BY <1>13 DEF CloseSocket, TypeOK, Wired, Registered
  <2>3. pc' \in [Conns -> Running \union {"none", "exited"}]
    BY <1>13 DEF CloseSocket, TypeOK, Running, Registered
  <2> QED BY <1>13, <2>1, <2>2, <2>3 DEF CloseSocket, TypeOK
<1> QED BY <1>1, <1>2, <1>3, <1>4, <1>5, <1>6, <1>7, <1>8, <1>9, <1>10, <1>11,
           <1>12, <1>13 DEF HandlerStep

(* Every step of a client keeps the types.                                     *)
LEMMA ClientTypeOK == TypeOK /\ ClientStep => TypeOK'
<1> SUFFICES ASSUME TypeOK, ClientStep PROVE TypeOK'
  OBVIOUS
<1> USE DEF ownerVars, serverVars, netVars, clientVars, threadVars, recordVars,
            clientFrame, Goto
<1>0. ASSUME NEW c \in Conns, NEW d \in Conns, Packet(c, d)
      PROVE  /\ sent' \in [Conns -> Nat]
             /\ file' \in [Conns -> Conns \union {None}]
             /\ sent[d] + 1 \in Nat
  BY <1>0, BoundAssumption DEF Packet, TypeOK
<1>1. ASSUME NEW c \in Conns, ClientConnect(c) PROVE TypeOK'
  BY <1>1 DEF ClientConnect, TypeOK, Wired
<1>2. ASSUME NEW c \in Conns, ClientClose(c) PROVE TypeOK'
  BY <1>2 DEF ClientClose, TypeOK, Wired
<1>3. ASSUME NEW c \in Conns, NEW d \in Conns, GreetPacket(c, d) PROVE TypeOK'
  <2>1. GivenId(d) \in ClientIds
    BY IdAssumption DEF GivenId
  <2>2. Packet(c, d) /\ pc[c] = "greeting"
    BY <1>3 DEF GreetPacket
  <2>3. \A e \in Conns : Wired(e)'
    BY <1>3, <2>1 DEF GreetPacket, Packet, TypeOK, Wired, Registered
  <2>4. pc' \in [Conns -> Running \union {"none", "exited"}]
    BY <1>3 DEF GreetPacket, TypeOK, Running
  <2>5. id' \in [Conns -> ClientIds \union {None}]
    BY <1>3, <2>1 DEF GreetPacket, TypeOK
  <2>6. mixed' \subseteq Conns
    BY <1>3 DEF GreetPacket, MixedId, Holders, TypeOK
  <2> QED BY <1>0, <1>3, <2>2, <2>3, <2>4, <2>5, <2>6 DEF GreetPacket, TypeOK
<1>4. ASSUME NEW c \in Conns, NEW d \in Conns, NEW topic \in Topics,
             PublishPacket(c, d, topic)
      PROVE  TypeOK'
  <2>1. Packet(c, d) /\ pc[c] = "wait"
    BY <1>4 DEF PublishPacket
  <2>2. [from |-> d, n |-> sent[d] + 1, topic |-> topic] \in Messages
    BY <1>0, <2>1 DEF Messages
  <2>3. \A e \in Conns : Wired(e)'
    BY <1>4, <2>2 DEF PublishPacket, Packet, TypeOK, Wired, Registered
  <2> QED BY <1>0, <1>4, <2>1, <2>2, <2>3
          DEF PublishPacket, TypeOK, Running, Registered
<1>5. ASSUME NEW c \in Conns, NEW d \in Conns, NEW filter \in Filters,
             SubscribePacket(c, d, filter)
      PROVE  TypeOK'
  <2>1. Packet(c, d) /\ pc[c] = "wait"
    BY <1>5 DEF SubscribePacket
  <2>2. [filter |-> filter] \in Requests
    BY DEF Requests
  <2>3. \A e \in Conns : Wired(e)'
    BY <1>5, <2>2 DEF SubscribePacket, Packet, TypeOK, Wired, Registered
  <2> QED BY <1>0, <1>5, <2>1, <2>2, <2>3
          DEF SubscribePacket, TypeOK, Running, Registered
<1>6. ASSUME NEW c \in Conns, NEW d \in Conns, OtherPacket(c, d) PROVE TypeOK'
  <2>1. Packet(c, d) /\ pc[c] = "wait"
    BY <1>6 DEF OtherPacket
  <2>2. \A e \in Conns : Wired(e)'
    BY <1>6 DEF OtherPacket, Packet, TypeOK, Wired, Registered
  <2> QED BY <1>0, <1>6, <2>1, <2>2 DEF OtherPacket, TypeOK, Running, Registered
<1> QED BY <1>1, <1>2, <1>3, <1>4, <1>5, <1>6 DEF ClientStep

(* Every step keeps the types.                                                 *)
LEMMA NextTypeOK == TypeOK /\ [Next]_vars => TypeOK'
<1>1. TypeOK /\ UNCHANGED vars => TypeOK'
  BY DEF vars, ownerVars, serverVars, netVars, clientVars, threadVars, recordVars,
         TypeOK, Wired
<1> QED BY <1>1, OwnerTypeOK, AcceptorTypeOK, HandlerTypeOK, ClientTypeOK DEF Next

(* TypeOK holds in every state of every instance.                              *)
THEOREM TypeInvariance == Spec => []TypeOK
BY InitTypeOK, NextTypeOK, PTL DEF Spec

-----------------------------------------------------------------------------
(* The inductive invariant.                                                    *)

(* Nothing has happened yet.                                                   *)
LEMMA InitIInv == Init => IInv
<1> SUFFICES ASSUME Init PROVE IInv
  OBVIOUS
<1>1. TypeOK
  BY InitTypeOK
<1>2. BacklogIsNew /\ SessionsBacked /\ DescriptorsOwned /\ LiveInGroup
  BY DEF Init, BacklogIsNew, SessionsBacked, DescriptorsOwned, LiveInGroup, Live,
         Running, Registered
<1>3. PhasesAgree /\ StoppedIsQuiescent
  BY DEF Init, PhasesAgree, StoppedIsQuiescent, Live, Running, Registered
<1> QED BY <1>1, <1>2, <1>3 DEF IInv

(* What a step of a handler does to the threads: it stays one of the running   *)
(* ones until it has closed its socket.                                        *)
LEMMA HandlerMoves ==
  ASSUME TypeOK, NEW c \in Conns, HandlerStep(c)
  PROVE  /\ UNCHANGED <<owner, starts, running, listener, acceptor, group, peer,
                         backlog, sock, id>>
         /\ Live(c)
         /\ \A d \in Conns \ {c} : pc'[d] = pc[d]
         /\ pc'[c] \in Running \/ (pc'[c] = "exited" /\ pc[c] = "close")
         /\ pc[c] \in Registered => pc'[c] \in Registered \/ RemoveSession(c)
<1> USE DEF ownerVars, serverVars, netVars, clientVars, threadVars, recordVars,
            handlerFrame, Goto, Running, Registered, Live, TypeOK
<1>1. CASE Receive(c)
  BY <1>1 DEF Receive
<1>2. CASE HandleEof(c)
  BY <1>2 DEF HandleEof
<1>3. CASE Register(c)
  BY <1>3 DEF Register
<1>4. CASE SendConnack(c)
  BY <1>4 DEF SendConnack
<1>5. CASE RecordPublish(c)
  BY <1>5 DEF RecordPublish
<1>6. CASE SnapshotTargets(c)
  BY <1>6 DEF SnapshotTargets
<1>7. CASE \E t \in targets[c] : Deliver(c, t)
  BY <1>7 DEF Deliver
<1>8. CASE PublishDone(c)
  BY <1>8 DEF PublishDone
<1>9. CASE StoreFilter(c)
  BY <1>9 DEF StoreFilter
<1>10. CASE SendSuback(c)
  BY <1>10 DEF SendSuback
<1>11. CASE SendPingresp(c)
  BY <1>11 DEF SendPingresp
<1>12. CASE RemoveSession(c)
  BY <1>12 DEF RemoveSession
<1>13. CASE CloseSocket(c)
  BY <1>13 DEF CloseSocket
<1> QED BY <1>1, <1>2, <1>3, <1>4, <1>5, <1>6, <1>7, <1>8, <1>9, <1>10, <1>11,
           <1>12, <1>13 DEF HandlerStep

(* What a step of a client does: it may let a handler read on.                 *)
LEMMA ClientMoves ==
  ASSUME TypeOK, ClientStep
  PROVE  /\ UNCHANGED <<owner, starts, running, listener, acceptor, group, sock,
                         table, shut, sessions>>
         /\ \A c \in Conns :
              /\ Live(c) <=> Live(c)'
              /\ pc[c] \in Registered => pc'[c] \in Registered /\ id'[c] = id[c]
              /\ pc[c] = "none" => pc'[c] = "none"
<1> USE DEF ownerVars, serverVars, netVars, clientVars, threadVars, recordVars,
            clientFrame, Goto, Running, Registered, Live, TypeOK
<1>1. CASE \E c \in Conns : ClientConnect(c) \/ ClientClose(c)
  BY <1>1 DEF ClientConnect, ClientClose
<1>2. CASE \E c, d \in Conns : GreetPacket(c, d)
  BY <1>2 DEF GreetPacket
<1>3. CASE \E c, d \in Conns : OtherPacket(c, d)
  BY <1>3 DEF OtherPacket
<1>4. CASE \E c, d \in Conns, topic \in Topics : PublishPacket(c, d, topic)
  BY <1>4 DEF PublishPacket
<1>5. CASE \E c, d \in Conns, filter \in Filters : SubscribePacket(c, d, filter)
  BY <1>5 DEF SubscribePacket
<1> QED BY <1>1, <1>2, <1>3, <1>4, <1>5 DEF ClientStep

(* What the owner leaves alone, StopJoinAll's group apart.                     *)
LEMMA OwnerMoves ==
  ASSUME Start \/ StopAgain \/ StopBegin \/ StopStep \/ ClearMessages
  PROVE  /\ UNCHANGED <<pc, sock, id>>
         /\ UNCHANGED <<sessions, table>> \/ StopCloseSessions
         /\ UNCHANGED group \/ StopJoinAll
         /\ UNCHANGED <<peer, backlog>> \/ StopCloseListener
BY DEF ownerVars, serverVars, netVars, clientVars, threadVars, recordVars, vars,
       Start, StopAgain, StopBegin, StopStep, ClearMessages, StopCloseListener,
       StopUnsetListener, StopJoinAcceptor, StopCloseSessions, StopJoinAll

(* What the acceptor leaves alone unless it takes a client.                    *)
LEMMA AcceptorMoves ==
  ASSUME AcceptorStep
  PROVE  /\ UNCHANGED <<owner, starts, running, listener, sessions, peer, id, shut>>
         /\ acceptor # "none" /\ acceptor' # "none"
         /\ \/ UNCHANGED <<pc, sock, table, group, backlog>>
            \/ \E c \in Conns, f \in Fds : AcceptClient(c, f)
BY DEF ownerVars, serverVars, netVars, clientVars, threadVars, recordVars,
       acceptorFrame, AcceptorStep, AcceptCheck, AcceptNothing, AcceptBreaks,
       AcceptAborts, AcceptClient

-----------------------------------------------------------------------------
(* BacklogIsNew: only AcceptClient gives a connection a thread, and takes it   *)
(* out of the backlog.                                                         *)
LEMMA NextBacklogIsNew == IInv /\ [Next]_vars => BacklogIsNew'
<1> SUFFICES ASSUME IInv, [Next]_vars PROVE BacklogIsNew'
  OBVIOUS
<1> USE DEF IInv, BacklogIsNew
<1>1. CASE Start \/ StopAgain \/ StopBegin \/ StopStep \/ ClearMessages
  <2>1. CASE StopCloseListener
    BY <1>1, <2>1, OwnerMoves DEF StopCloseListener, TypeOK
  <2> QED BY <1>1, <2>1, OwnerMoves
<1>2. CASE AcceptorStep
  <2>1. ASSUME NEW c \in Conns, NEW f \in Fds, AcceptClient(c, f)
        PROVE  BacklogIsNew'
    BY <2>1 DEF AcceptClient, Goto, TypeOK
  <2> QED BY <1>2, <2>1, AcceptorMoves
<1>3. ASSUME NEW c \in Conns, HandlerStep(c) PROVE BacklogIsNew'
  BY <1>3, HandlerMoves DEF Live, Running, Registered, TypeOK
<1>4. CASE ClientStep
  <2>1. ASSUME NEW c \in Conns, ClientConnect(c) PROVE BacklogIsNew'
    BY <2>1 DEF ClientConnect, TypeOK
  <2>2. ASSUME NEW c \in Conns, ClientClose(c) PROVE BacklogIsNew'
    BY <2>2 DEF ClientClose, TypeOK
  <2>3. CASE UNCHANGED <<peer, backlog>>
    BY <1>4, <2>3, ClientMoves
  <2> QED BY <1>4, <2>1, <2>2, <2>3 DEF ClientStep, clientFrame, GreetPacket, OtherPacket,
             PublishPacket, SubscribePacket
<1>5. CASE UNCHANGED vars
  BY <1>5 DEF vars, netVars
<1> QED BY <1>1, <1>2, <1>3, <1>4, <1>5 DEF Next

(* SessionsBacked: the session of an id belongs to the connection that         *)
(* registered it last, and goes when that connection's handler does.           *)
LEMMA NextSessionsBacked == IInv /\ [Next]_vars => SessionsBacked'
<1> SUFFICES ASSUME IInv, [Next]_vars,
                    NEW i \in ClientIds, sessions'[i] # None
             PROVE  \E c \in Conns : /\ pc'[c] \in Registered
                                     /\ id'[c] = i /\ sock'[c] = sessions'[i].sock
  BY DEF SessionsBacked
<1> DEFINE Owner(c) == pc[c] \in Registered /\ id[c] = i /\ sock[c] = sessions[i].sock
<1>0. sessions[i] # None => \E c \in Conns : Owner(c)
  BY DEF IInv, SessionsBacked
<1>1. CASE Start \/ StopAgain \/ StopBegin \/ StopStep \/ ClearMessages
  BY <1>0, <1>1, OwnerMoves DEF StopCloseSessions
<1>2. CASE AcceptorStep
  <2>1. ASSUME NEW c \in Conns, NEW f \in Fds, AcceptClient(c, f)
        PROVE  pc[c] = "none" /\ \A d \in Conns \ {c} : pc'[d] = pc[d] /\ sock'[d] = sock[d]
    BY <2>1 DEF AcceptClient, Goto, IInv, BacklogIsNew, TypeOK
  <2> QED BY <1>0, <1>2, <2>1, AcceptorMoves DEF Registered
<1>3. ASSUME NEW c \in Conns, HandlerStep(c)
      PROVE  \E d \in Conns : /\ pc'[d] \in Registered
                              /\ id'[d] = i /\ sock'[d] = sessions'[i].sock
  <2>0. TypeOK /\ UNCHANGED <<sock, id>>
    BY <1>3, HandlerMoves DEF IInv
  <2>1. CASE Register(c)
    <3>1. pc'[c] \in Registered
      BY <2>0, <2>1 DEF Register, Goto, Registered, TypeOK
    <3>2. CASE id[c] = i
      <4>1. sessions'[i].sock = sock[c]
        BY <2>0, <2>1, <3>2 DEF Register, NewSession, TypeOK
      <4> QED BY <2>0, <3>1, <3>2, <4>1
    <3>3. CASE id[c] # i
      <4>1. sessions'[i] = sessions[i]
        BY <2>0, <2>1, <3>3 DEF Register, TypeOK
      <4> QED BY <1>0, <1>3, <2>0, <3>1, <4>1, HandlerMoves
    <3> QED BY <3>2, <3>3
  <2>2. CASE RemoveSession(c)
    <3>1. id[c] # i /\ sessions'[i] = sessions[i]
      BY <2>0, <2>2 DEF RemoveSession, Erased, TypeOK
    <3> QED BY <1>0, <1>3, <2>0, <3>1, HandlerMoves
  <2>3. CASE StoreFilter(c)
    <3>1. sessions[i] # None /\ sessions'[i].sock = sessions[i].sock
      <4>1. CASE UNCHANGED sessions
        BY <4>1
      <4>2. CASE FindsSession(c) /\ id[c] = i
        <5>1. sessions[i] \in Sessions
          BY <2>0, <4>2 DEF FindsSession, TypeOK
        <5>2. sessions'[i] = [sessions[i] EXCEPT !.filters = @ \union {job[c].filter}]
          BY <2>0, <2>3, <4>2 DEF StoreFilter, TypeOK
        <5> QED BY <4>2, <5>1, <5>2 DEF FindsSession, Sessions
      <4>3. CASE FindsSession(c) /\ id[c] # i
        BY <2>0, <2>3, <4>3 DEF StoreFilter, TypeOK
      <4> QED BY <2>3, <4>1, <4>2, <4>3 DEF StoreFilter
    <3>2. ~RemoveSession(c)
      BY <2>3 DEF StoreFilter, RemoveSession
    <3> QED BY <1>0, <1>3, <2>0, <3>1, <3>2, HandlerMoves
  <2>4. CASE UNCHANGED sessions /\ ~RemoveSession(c)
    BY <1>0, <1>3, <2>0, <2>4, HandlerMoves
  <2> QED BY <1>3, <2>1, <2>2, <2>3, <2>4
          DEF HandlerStep, Receive, HandleEof, SendConnack, RecordPublish,
              SnapshotTargets, Deliver, PublishDone, SendSuback, SendPingresp,
              CloseSocket
<1>4. CASE ClientStep
  BY <1>0, <1>4, ClientMoves DEF IInv
<1>5. CASE UNCHANGED vars
  BY <1>0, <1>5 DEF vars, threadVars
<1> QED BY <1>1, <1>2, <1>3, <1>4, <1>5 DEF Next

(* DescriptorsOwned: a handler that ends has closed its descriptor, and the    *)
(* kernel gives only free ones to new clients.                                 *)
LEMMA NextDescriptorsOwned == IInv /\ [Next]_vars => DescriptorsOwned'
<1> SUFFICES ASSUME IInv, [Next]_vars PROVE DescriptorsOwned'
  OBVIOUS
<1>0. TypeOK /\ DescriptorsOwned
  BY DEF IInv
<1>h. ASSUME NEW fds, HangUp(fds)
      PROVE  \A f \in Fds : table'[f] # None => table'[f] = table[f]
  BY <1>0, <1>h DEF HangUp, TypeOK
<1>1. CASE Start \/ StopAgain \/ StopBegin \/ StopStep \/ ClearMessages
  <2>1. \A f \in Fds : table'[f] # None => table'[f] = table[f]
    BY <1>1, <1>h, OwnerMoves DEF StopCloseSessions
  <2> QED BY <1>0, <1>1, <2>1, OwnerMoves DEF DescriptorsOwned, Live, TypeOK
<1>2. CASE AcceptorStep
  <2>1. ASSUME NEW c \in Conns, NEW f \in Fds, AcceptClient(c, f)
        PROVE  DescriptorsOwned'
    <3>1. /\ pc[c] = "none" /\ table' = [table EXCEPT ![f] = c]
          /\ sock' = [sock EXCEPT ![c] = f] /\ pc' = [pc EXCEPT ![c] = "greet"]
      BY <2>1 DEF AcceptClient, Goto, IInv, BacklogIsNew
    <3> SUFFICES ASSUME NEW g \in Fds, table'[g] # None
                 PROVE  pc'[table'[g]] \in Running /\ sock'[table'[g]] = g
      BY DEF DescriptorsOwned, Live
    <3>2. CASE g = f
      <4>1. table'[g] = c
        BY <1>0, <3>1, <3>2 DEF TypeOK
      <4>2. pc'[c] = "greet" /\ sock'[c] = f
        BY <1>0, <3>1 DEF TypeOK
      <4> QED BY <3>2, <4>1, <4>2 DEF Live, Running
    <3>3. CASE g # f
      <4>1. table'[g] = table[g] /\ table[g] \in Conns
        BY <1>0, <3>1, <3>3 DEF TypeOK
      <4>2. Live(table[g]) /\ sock[table[g]] = g
        BY <1>0, <4>1 DEF DescriptorsOwned
      <4>3. table[g] # c
        BY <3>1, <4>2 DEF Live, Running, Registered
      <4>4. pc'[table[g]] = pc[table[g]] /\ sock'[table[g]] = sock[table[g]]
        BY <1>0, <3>1, <4>1, <4>3 DEF TypeOK
      <4> QED BY <4>1, <4>2, <4>4 DEF Live
    <3> QED BY <3>2, <3>3
  <2> QED BY <1>0, <1>2, <2>1, AcceptorMoves DEF DescriptorsOwned, Live
<1>3. ASSUME NEW c \in Conns, HandlerStep(c) PROVE DescriptorsOwned'
  <2>1. \A f \in Fds : table'[f] # None => table'[f] = table[f]
    BY <1>0, <1>3, <1>h
    DEF HandlerStep, Receive, HandleEof, Register, SendConnack, RecordPublish,
        SnapshotTargets, Deliver, PublishDone, StoreFilter, SendSuback,
        SendPingresp, RemoveSession, CloseSocket, handlerFrame, Close, TypeOK
  <2>2. pc'[c] = "exited" => \A f \in Fds : table'[f] # None => f # sock[c]
    <3> SUFFICES ASSUME pc'[c] = "exited"
                 PROVE  \A f \in Fds : table'[f] # None => f # sock[c]
      OBVIOUS
    <3>1. CloseSocket(c)
      BY <1>0, <1>3
      DEF HandlerStep, Receive, HandleEof, Register, SendConnack, RecordPublish,
          SnapshotTargets, Deliver, PublishDone, StoreFilter, SendSuback,
          SendPingresp, RemoveSession, Goto, Live, Running, Registered, TypeOK
    <3> QED BY <1>0, <3>1 DEF CloseSocket, Close, TypeOK
  <2> SUFFICES ASSUME NEW f \in Fds, table'[f] # None
               PROVE  pc'[table'[f]] \in Running /\ sock'[table'[f]] = f
    BY DEF DescriptorsOwned, Live
  <2>3. /\ table'[f] = table[f] /\ table[f] \in Conns
        /\ Live(table[f]) /\ sock[table[f]] = f
    BY <1>0, <2>1 DEF DescriptorsOwned, TypeOK
  <2>4. sock' = sock /\ (table[f] = c => pc'[c] # "exited")
    BY <1>0, <1>3, <2>2, <2>3, HandlerMoves
  <2> QED BY <1>0, <1>3, <2>3, <2>4, HandlerMoves DEF Live
<1>4. CASE ClientStep
  BY <1>0, <1>4, ClientMoves DEF DescriptorsOwned, TypeOK
<1>5. CASE UNCHANGED vars
  BY <1>0, <1>5 DEF vars, netVars, threadVars, DescriptorsOwned, Live
<1> QED BY <1>1, <1>2, <1>3, <1>4, <1>5 DEF Next

(* LiveInGroup: join_finished() drops only threads that are done, and join_all *)
(* waits for the others.                                                       *)
LEMMA NextLiveInGroup == IInv /\ [Next]_vars => LiveInGroup'
<1> SUFFICES ASSUME IInv, [Next]_vars PROVE LiveInGroup'
  OBVIOUS
<1>0. TypeOK /\ LiveInGroup
  BY DEF IInv
<1>1. CASE Start \/ StopAgain \/ StopBegin \/ StopStep \/ ClearMessages
  <2>1. CASE StopJoinAll
    BY <1>0, <1>1, <2>1, OwnerMoves
    DEF StopJoinAll, AllDone, LiveInGroup, Live, Running, Registered
  <2> QED BY <1>0, <1>1, <2>1, OwnerMoves DEF LiveInGroup, Live
<1>2. CASE AcceptorStep
  <2>1. ASSUME NEW c \in Conns, NEW f \in Fds, AcceptClient(c, f)
        PROVE  LiveInGroup'
    BY <1>0, <2>1
    DEF AcceptClient, Unfinished, Goto, LiveInGroup, Live, Running, Registered, TypeOK
  <2> QED BY <1>0, <1>2, <2>1, AcceptorMoves DEF LiveInGroup, Live
<1>3. ASSUME NEW c \in Conns, HandlerStep(c) PROVE LiveInGroup'
  BY <1>0, <1>3, HandlerMoves DEF LiveInGroup, Live
<1>4. CASE ClientStep
  BY <1>0, <1>4, ClientMoves DEF LiveInGroup
<1>5. CASE UNCHANGED vars
  BY <1>0, <1>5 DEF vars, LiveInGroup, Live
<1> QED BY <1>1, <1>2, <1>3, <1>4, <1>5 DEF Next

(* PhasesAgree: each step of stop() leaves the server where the next expects.  *)
LEMMA NextPhasesAgree == IInv /\ [Next]_vars => PhasesAgree'
<1> SUFFICES ASSUME IInv, [Next]_vars PROVE PhasesAgree'
  OBVIOUS
<1>0. TypeOK /\ PhasesAgree
  BY DEF IInv
<1> USE DEF PhasesAgree
<1>1. CASE Start \/ StopAgain \/ StopBegin \/ StopStep \/ ClearMessages
  BY <1>0, <1>1
  DEF ownerVars, serverVars, netVars, vars, Start, StopAgain, StopBegin, StopStep,
      ClearMessages, StopCloseListener, StopUnsetListener, StopJoinAcceptor,
      StopCloseSessions, StopJoinAll
<1>2. CASE AcceptorStep
  <2>1. backlog = {} => backlog' = {}
    BY <1>2, AcceptorMoves DEF AcceptClient
  <2> QED BY <1>0, <1>2, <2>1, AcceptorMoves
<1>3. ASSUME NEW c \in Conns, HandlerStep(c) PROVE PhasesAgree'
  BY <1>0, <1>3, HandlerMoves
<1>4. CASE ClientStep
  <2>1. listener # "open" => UNCHANGED backlog
    BY <1>4 DEF ClientStep, ClientConnect, ClientClose, GreetPacket, OtherPacket,
                PublishPacket, SubscribePacket, clientFrame
  <2> QED BY <1>0, <1>4, <2>1, ClientMoves
<1>5. CASE UNCHANGED vars
  BY <1>0, <1>5 DEF vars, ownerVars, serverVars, netVars
<1> QED BY <1>1, <1>2, <1>3, <1>4, <1>5 DEF Next

(* When no handler thread is left, neither is a session nor a descriptor.      *)
LEMMA QuietIsEmpty ==
  ASSUME SessionsBacked, DescriptorsOwned, PhasesAgree, TypeOK,
         owner = "stopped", \A c \in Conns : ~Live(c)
  PROVE  StoppedIsQuiescent
<1>1. \A i \in ClientIds : sessions[i] = None
  BY DEF SessionsBacked, Live, Running
<1>2. \A f \in Fds : table[f] = None
  BY DEF DescriptorsOwned, TypeOK
<1>3. backlog = {} /\ listener = "unset" /\ acceptor = "none"
  BY DEF PhasesAgree, TypeOK
<1> QED BY <1>1, <1>2, <1>3 DEF StoppedIsQuiescent

(* No handler runs when stop() returns, and none starts before start().        *)
LEMMA NextAllQuiet ==
  IInv /\ [Next]_vars /\ owner' = "stopped" => \A c \in Conns : ~Live(c)'
<1> SUFFICES ASSUME IInv, [Next]_vars, owner' = "stopped" PROVE \A c \in Conns : ~Live(c)'
  OBVIOUS
<1>0. /\ TypeOK /\ LiveInGroup /\ PhasesAgree
      /\ owner = "stopped" => \A c \in Conns : ~Live(c)
  BY DEF IInv, StoppedIsQuiescent
<1>1. CASE Start \/ StopAgain \/ StopBegin \/ StopStep \/ ClearMessages
  <2>1. CASE StopJoinAll
    BY <1>0, <1>1, <2>1, OwnerMoves
    DEF StopJoinAll, AllDone, LiveInGroup, Live, Running, Registered
  <2>2. CASE ~StopJoinAll
    <3>1. owner = "stopped"
      BY <1>1, <2>2
      DEF ownerVars, vars, Start, StopAgain, StopBegin, StopStep, ClearMessages,
          StopCloseListener, StopUnsetListener, StopJoinAcceptor, StopCloseSessions
    <3> QED BY <1>0, <1>1, <3>1, OwnerMoves DEF Live
  <2> QED BY <2>1, <2>2
<1>2. CASE AcceptorStep
  BY <1>0, <1>2, AcceptorMoves DEF PhasesAgree
<1>3. ASSUME NEW c \in Conns, HandlerStep(c) PROVE FALSE
  BY <1>0, <1>3, HandlerMoves
<1>4. CASE ClientStep
  BY <1>0, <1>4, ClientMoves
<1>5. CASE UNCHANGED vars
  BY <1>0, <1>5 DEF vars, ownerVars, Live
<1> QED BY <1>1, <1>2, <1>3, <1>4, <1>5 DEF Next

(* IInv is inductive.                                                          *)
LEMMA NextIInv == IInv /\ [Next]_vars => IInv'
<1> SUFFICES ASSUME IInv, [Next]_vars PROVE IInv'
  OBVIOUS
<1>1. TypeOK'
  BY NextTypeOK DEF IInv
<1>2. BacklogIsNew' /\ SessionsBacked' /\ DescriptorsOwned' /\ LiveInGroup' /\ PhasesAgree'
  BY NextBacklogIsNew, NextSessionsBacked, NextDescriptorsOwned, NextLiveInGroup,
     NextPhasesAgree
<1>3. StoppedIsQuiescent'
  <2>1. CASE owner' = "stopped"
    <3>1. \A c \in Conns : ~Live(c)'
      BY <2>1, NextAllQuiet
    <3>2. (/\ SessionsBacked /\ DescriptorsOwned /\ PhasesAgree /\ TypeOK
           /\ owner = "stopped" /\ \A c \in Conns : ~Live(c)
           => StoppedIsQuiescent)'
      BY QuietIsEmpty, PTL
    <3> QED BY <1>1, <1>2, <2>1, <3>1, <3>2
  <2>2. CASE owner' # "stopped"
    BY <2>2 DEF StoppedIsQuiescent
  <2> QED BY <2>1, <2>2
<1> QED BY <1>1, <1>2, <1>3 DEF IInv

(* The threads, the session table and the descriptors agree in every state.    *)
THEOREM Consistency == Spec => []IInv
BY InitIInv, NextIInv, PTL DEF Spec

(* When stop() has returned nothing of the broker is left: no thread that      *)
(* could touch the implementation object, no session, no descriptor.           *)
THEOREM StopLeavesNothing == Spec => []StoppedIsQuiescent
<1>1. IInv => StoppedIsQuiescent
  BY DEF IInv
<1> QED BY <1>1, Consistency, PTL

(* A session always has a handler that will still remove it, even when two     *)
(* clients have taken turns with its id.                                       *)
THEOREM EverySessionIsBacked == Spec => []SessionsBacked
<1>1. IInv => SessionsBacked
  BY DEF IInv
<1> QED BY <1>1, Consistency, PTL

(* No descriptor outlives the handler that has to close it.                    *)
THEOREM NoDescriptorLeaks == Spec => []DescriptorsOwned
<1>1. IInv => DescriptorsOwned
  BY DEF IInv
<1> QED BY <1>1, Consistency, PTL

-----------------------------------------------------------------------------
(* The broker implements ServerLifecycle.                                      *)

(* The initial states map to initial states.                                   *)
LEMMA InitImplements == Init => Lifecycle!Init
BY DEF Init, Lifecycle!Init, Phase, Live, Running, Registered

(* Every step maps to one of ServerLifecycle or to a stutter.                  *)
LEMMA NextImplements == IInv /\ [Next]_vars => [Lifecycle!Next]_Lifecycle!vars
<1> SUFFICES ASSUME IInv, [Next]_vars
             PROVE  Lifecycle!Next \/ UNCHANGED Lifecycle!vars
  OBVIOUS
<1> DEFINE working == {c \in Conns : Live(c)}
<1>0. TypeOK /\ PhasesAgree /\ LiveInGroup
  BY DEF IInv
<1>1. CASE Start \/ StopAgain \/ StopBegin \/ StopStep \/ ClearMessages
  <2>1. working' = working
    BY <1>1, OwnerMoves DEF Live
  <2>2. CASE Start
    BY <2>1, <2>2 DEF Start, Phase, Lifecycle!Next, Lifecycle!Start
  <2>3. CASE StopBegin
    BY <2>1, <2>3 DEF StopBegin, Phase, Lifecycle!Next, Lifecycle!BeginStop
  <2>4. CASE StopJoinAcceptor
    BY <2>1, <2>4 DEF StopJoinAcceptor, Phase, Lifecycle!Next, Lifecycle!JoinAcceptor
  <2>5. CASE StopJoinAll
    <3>1. working = {}
      BY <1>0, <2>5
      DEF StopJoinAll, AllDone, LiveInGroup, Live, Running, Registered
    <3> QED BY <2>1, <2>5, <3>1 DEF StopJoinAll, Phase, Lifecycle!Next, Lifecycle!EndStop
  <2>6. CASE StopAgain \/ StopCloseListener \/ StopUnsetListener \/ StopCloseSessions
             \/ ClearMessages
    <3>1. Phase' = Phase
      BY <2>6 DEF StopAgain, StopCloseListener, StopUnsetListener, StopCloseSessions,
                  ClearMessages, ownerVars, vars, Phase
    <3> QED BY <2>1, <3>1 DEF Lifecycle!vars
  <2> QED BY <1>1, <2>2, <2>3, <2>4, <2>5, <2>6 DEF StopStep
<1>2. CASE AcceptorStep
  <2>1. Phase' = Phase
    BY <1>2, AcceptorMoves DEF Phase
  <2>2. CASE UNCHANGED pc
    BY <2>1, <2>2 DEF Lifecycle!vars, Live
  <2>3. ASSUME NEW c \in Conns, NEW f \in Fds, AcceptClient(c, f)
        PROVE  Lifecycle!Take(c)
    <3>1. Phase \in {"serving", "closing"}
      BY <1>0, <2>3 DEF AcceptClient, PhasesAgree, Phase, TypeOK
    <3>2. c \notin working
      BY <2>3 DEF AcceptClient, IInv, BacklogIsNew, Live, Running, Registered
    <3>3. working' = working \union {c}
      BY <1>0, <2>3 DEF AcceptClient, Goto, Live, Running, TypeOK
    <3> QED BY <2>1, <3>1, <3>2, <3>3 DEF Lifecycle!Take
  <2> QED BY <1>2, <2>2, <2>3, AcceptorMoves DEF Lifecycle!Next
<1>3. ASSUME NEW c \in Conns, HandlerStep(c)
      PROVE  Lifecycle!Next \/ UNCHANGED Lifecycle!vars
  <2>1. Phase' = Phase
    BY <1>0, <1>3, HandlerMoves DEF Phase
  <2>2. CASE pc'[c] \in Running
    <3>1. working' = working
      BY <1>0, <1>3, <2>2, HandlerMoves DEF Live
    <3> QED BY <2>1, <3>1 DEF Lifecycle!vars
  <2>3. CASE pc'[c] = "exited"
    <3>1. c \in working /\ working' = working \ {c}
      BY <1>0, <1>3, <2>3, HandlerMoves DEF Live, Running, Registered
    <3> QED BY <2>1, <3>1 DEF Lifecycle!Next, Lifecycle!Finish
  <2> QED BY <1>0, <1>3, <2>2, <2>3, HandlerMoves
<1>4. CASE ClientStep
  BY <1>0, <1>4, ClientMoves DEF Lifecycle!vars, Phase
<1>5. CASE UNCHANGED vars
  BY <1>5 DEF vars, ownerVars, Lifecycle!vars, Phase, Live
<1> QED BY <1>1, <1>2, <1>3, <1>4, <1>5 DEF Next

(* start() and stop() are those of ServerLifecycle: clients are taken only     *)
(* before the acceptor is joined, and stop() returns only when every handler   *)
(* thread has finished.                                                        *)
THEOREM BrokerImplementsLifecycle == Spec => ImplementsLifecycle
BY InitImplements, NextImplements, Consistency, PTL
DEF Spec, ImplementsLifecycle, Lifecycle!Spec

-----------------------------------------------------------------------------
(* What messages() shows.                                                      *)

(* The message a handler routes is in the history, or was before it was        *)
(* cleared.                                                                    *)
Kept == cleared \union {history[k] : k \in DOMAIN history}
RoutedIsKept == \A c \in Conns : pc[c] \in {"snapshot", "send"} => job[c] \in Kept
HInv == IInv /\ RecordedBeforeDelivered /\ RoutedIsKept

(* No step loses a message from both.                                          *)
LEMMA KeptGrows == TypeOK /\ [Next]_vars => Kept \subseteq Kept'
<1> SUFFICES ASSUME TypeOK, [Next]_vars PROVE Kept \subseteq Kept'
  OBVIOUS
<1>1. CASE UNCHANGED <<history, cleared>>
  BY <1>1 DEF Kept
<1>2. CASE ClearMessages
  BY <1>2 DEF ClearMessages, Kept
<1>3. ASSUME NEW c \in Conns, RecordPublish(c) PROVE Kept \subseteq Kept'
  <2>1. history \in Seq(Messages) /\ history' = Append(history, job[c]) /\ cleared' = cleared
    BY <1>3 DEF RecordPublish, Recorded, TypeOK
  <2>2. \A k \in DOMAIN history : k \in DOMAIN history' /\ history'[k] = history[k]
    BY <2>1
  <2> QED BY <2>1, <2>2 DEF Kept
<1>4. CASE Start \/ StopAgain \/ StopBegin \/ StopStep
  BY <1>1, <1>4
  DEF vars, recordVars, Start, StopAgain, StopBegin, StopStep, StopCloseListener,
      StopUnsetListener, StopJoinAcceptor, StopCloseSessions, StopJoinAll
<1>5. CASE AcceptorStep
  BY <1>1, <1>5
  DEF recordVars, AcceptorStep, AcceptCheck, AcceptNothing, AcceptBreaks, AcceptAborts,
      AcceptClient, acceptorFrame
<1>6. ASSUME NEW c \in Conns, HandlerStep(c), ~RecordPublish(c) PROVE Kept \subseteq Kept'
  BY <1>1, <1>6
  DEF recordVars, HandlerStep, Receive, HandleEof, Register, SendConnack, SnapshotTargets,
      Deliver, PublishDone, StoreFilter, SendSuback, SendPingresp, RemoveSession, CloseSocket
<1>7. CASE ClientStep
  BY <1>1, <1>7
  DEF recordVars, ClientStep, GreetPacket, OtherPacket, PublishPacket, SubscribePacket,
      ClientConnect, ClientClose, clientFrame
<1>8. CASE UNCHANGED vars
  BY <1>1, <1>8 DEF vars, recordVars
<1> QED BY <1>2, <1>3, <1>4, <1>5, <1>6, <1>7, <1>8 DEF Next

(* A frame that arrives is appended; the others stay where they are.           *)
LEMMA SendAppends ==
  ASSUME TypeOK, NEW f \in Fds, NEW frame \in Frames, NEW ok \in BOOLEAN,
         SendAll(f, frame, ok),
         NEW d \in Conns, NEW k \in DOMAIN rcvd'[d]
  PROVE  (k \in DOMAIN rcvd[d] /\ rcvd'[d][k] = rcvd[d][k]) \/ rcvd'[d][k] = frame
<1>1. CASE UNCHANGED rcvd
  BY <1>1
<1>2. CASE table[f] # None /\ rcvd' = [rcvd EXCEPT ![table[f]] = Append(@, frame)]
  <2>1. rcvd[d] \in Seq(Frames)
    BY DEF TypeOK
  <2>2. CASE table[f] = d
    <3>1. rcvd'[d] = Append(rcvd[d], frame)
      BY <1>2, <2>2 DEF TypeOK
    <3> QED BY <2>1, <3>1
  <2>3. CASE table[f] # d
    BY <1>2, <2>3 DEF TypeOK
  <2> QED BY <2>2, <2>3
<1> QED BY <1>1, <1>2 DEF SendAll

(* The other frames are no messages.                                           *)
LEMMA NoMessages ==
  /\ ~IsMessage(Connack) /\ ~IsMessage(Pingresp)
  /\ \A frame \in Subacks : ~IsMessage(frame)
BY DEF IsMessage, Connack, Pingresp, Subacks

(* What reaches a client in a step was there before, is the message a handler  *)
(* is sending, or is no message.                                               *)
LEMMA Arrivals ==
  ASSUME TypeOK, [Next]_vars, NEW d \in Conns, NEW k \in DOMAIN rcvd'[d],
         IsMessage(rcvd'[d][k])
  PROVE  \/ k \in DOMAIN rcvd[d] /\ rcvd'[d][k] = rcvd[d][k]
         \/ \E c \in Conns : pc[c] = "send" /\ rcvd'[d][k] = job[c]
<1>1. CASE UNCHANGED rcvd
  BY <1>1
<1>2. ASSUME NEW c \in Conns, SendConnack(c)
      PROVE  k \in DOMAIN rcvd[d] /\ rcvd'[d][k] = rcvd[d][k]
  <2>1. sock[c] \in Fds
    BY <1>2 DEF SendConnack, TypeOK, Wired
  <2> QED BY <1>2, <2>1, SendAppends, FrameKinds, NoMessages DEF SendConnack
<1>3. ASSUME NEW c \in Conns, SendPingresp(c)
      PROVE  k \in DOMAIN rcvd[d] /\ rcvd'[d][k] = rcvd[d][k]
  <2>1. sock[c] \in Fds
    BY <1>3 DEF SendPingresp, TypeOK, Wired
  <2> QED BY <1>3, <2>1, SendAppends, FrameKinds, NoMessages DEF SendPingresp
<1>4. ASSUME NEW c \in Conns, SendSuback(c)
      PROVE  k \in DOMAIN rcvd[d] /\ rcvd'[d][k] = rcvd[d][k]
  <2>1. sock[c] \in Fds /\ job[c] \in Subacks
    BY <1>4 DEF SendSuback, TypeOK, Wired
  <2> QED BY <1>4, <2>1, SendAppends, FrameKinds, NoMessages DEF SendSuback
<1>5. ASSUME NEW c \in Conns, NEW t \in targets[c], Deliver(c, t)
      PROVE  \/ k \in DOMAIN rcvd[d] /\ rcvd'[d][k] = rcvd[d][k]
             \/ pc[c] = "send" /\ rcvd'[d][k] = job[c]
  <2>1. t[2] \in Fds /\ job[c] \in Messages
    BY <1>5 DEF Deliver, TypeOK, Wired
  <2> QED BY <1>5, <2>1, SendAppends, FrameKinds DEF Deliver
<1>6. CASE Start \/ StopAgain \/ StopBegin \/ StopStep \/ ClearMessages
  BY <1>1, <1>6
  DEF vars, netVars, Start, StopAgain, StopBegin, StopStep, StopCloseListener,
      StopUnsetListener, StopJoinAcceptor, StopCloseSessions, StopJoinAll, ClearMessages
<1>7. CASE AcceptorStep
  BY <1>1, <1>7
  DEF netVars, AcceptorStep, AcceptCheck, AcceptNothing, AcceptBreaks, AcceptAborts,
      AcceptClient
<1>8. ASSUME NEW c \in Conns,
             \/ Receive(c) \/ HandleEof(c) \/ Register(c) \/ RecordPublish(c)
             \/ SnapshotTargets(c) \/ PublishDone(c) \/ StoreFilter(c) \/ RemoveSession(c)
             \/ CloseSocket(c)
      PROVE  k \in DOMAIN rcvd[d] /\ rcvd'[d][k] = rcvd[d][k]
  BY <1>8
  DEF Receive, HandleEof, Register, RecordPublish, SnapshotTargets, PublishDone,
      StoreFilter, RemoveSession, CloseSocket
<1>9. CASE ClientStep
  BY <1>1, <1>9
  DEF ClientStep, GreetPacket, OtherPacket, PublishPacket, SubscribePacket, ClientConnect,
      ClientClose, clientFrame
<1>10. CASE UNCHANGED vars
  BY <1>1, <1>10 DEF vars, netVars
<1> QED BY <1>2, <1>3, <1>4, <1>5, <1>6, <1>7, <1>8, <1>9, <1>10 DEF Next, HandlerStep

(* A handler reaches the routing of a message only through recording it.       *)
LEMMA NextRoutedIsKept == IInv /\ RoutedIsKept /\ [Next]_vars => RoutedIsKept'
<1> SUFFICES ASSUME IInv, RoutedIsKept, [Next]_vars,
                    NEW c \in Conns, pc'[c] \in {"snapshot", "send"}
             PROVE  job'[c] \in Kept'
  BY DEF RoutedIsKept
<1>0. TypeOK /\ Kept \subseteq Kept'
  BY KeptGrows DEF IInv
<1>1. CASE pc[c] \in {"snapshot", "send"} /\ job'[c] = job[c]
  BY <1>0, <1>1 DEF RoutedIsKept
<1>2. CASE RecordPublish(c)
  <2>1. /\ history \in Seq(Messages) /\ history' = Append(history, job[c])
        /\ job' = job
    BY <1>0, <1>2 DEF RecordPublish, Recorded, threadVars, TypeOK
  <2>2. Len(history) + 1 \in DOMAIN history' /\ history'[Len(history) + 1] = job[c]
    BY <2>1
  <2> QED BY <2>1, <2>2 DEF Kept
<1>3. CASE Start \/ StopAgain \/ StopBegin \/ StopStep \/ ClearMessages \/ UNCHANGED vars
  <2>1. pc' = pc /\ job' = job
    BY <1>3
    DEF vars, threadVars, Start, StopAgain, StopBegin, StopStep, ClearMessages,
        StopCloseListener, StopUnsetListener, StopJoinAcceptor, StopCloseSessions,
        StopJoinAll
  <2> QED BY <1>1, <2>1
<1>4. CASE AcceptorStep
  <2>1. job' = job /\ pc'[c] \in {pc[c], "greet"}
    BY <1>0, <1>4
    DEF AcceptorStep, AcceptCheck, AcceptNothing, AcceptBreaks, AcceptAborts,
        AcceptClient, Goto, threadVars, TypeOK
  <2> QED BY <1>1, <2>1
<1>5. CASE ClientStep
  <2>1. pc'[c] = pc[c] /\ (pc[c] \in {"snapshot", "send"} => job'[c] = job[c])
    BY <1>0, <1>5
    DEF ClientStep, ClientConnect, ClientClose, GreetPacket, OtherPacket, PublishPacket,
        SubscribePacket, Goto, threadVars, clientFrame, TypeOK
  <2> QED BY <1>1, <2>1
<1>6. ASSUME NEW d \in Conns, HandlerStep(d), ~RecordPublish(c)
      PROVE  pc[c] \in {"snapshot", "send"} /\ job'[c] = job[c]
  BY <1>0, <1>6
  DEF HandlerStep, Receive, HandleEof, Register, SendConnack, RecordPublish,
      SnapshotTargets, Deliver, PublishDone, StoreFilter, SendSuback, SendPingresp,
      RemoveSession, CloseSocket, Goto, threadVars, TypeOK
<1> QED BY <1>1, <1>2, <1>3, <1>4, <1>5, <1>6 DEF Next

(* HInv is inductive.                                                          *)
LEMMA NextHInv == HInv /\ [Next]_vars => HInv'
<1> SUFFICES ASSUME HInv, [Next]_vars PROVE HInv'
  OBVIOUS
<1>0. IInv /\ TypeOK /\ RecordedBeforeDelivered /\ RoutedIsKept
  BY DEF HInv, IInv
<1>1. RecordedBeforeDelivered'
  <2> SUFFICES ASSUME NEW d \in Conns, NEW k \in DOMAIN rcvd'[d], IsMessage(rcvd'[d][k])
               PROVE  rcvd'[d][k] \in Kept'
    BY DEF RecordedBeforeDelivered, MessagesAt, IsMessage, Kept
  <2>1. Kept \subseteq Kept'
    BY <1>0, KeptGrows
  <2>2. CASE k \in DOMAIN rcvd[d] /\ rcvd'[d][k] = rcvd[d][k]
    BY <1>0, <2>1, <2>2 DEF RecordedBeforeDelivered, MessagesAt, Kept
  <2>3. CASE \E c \in Conns : pc[c] = "send" /\ rcvd'[d][k] = job[c]
    BY <1>0, <2>1, <2>3 DEF RoutedIsKept
  <2> QED BY <1>0, <2>2, <2>3, Arrivals
<1> QED BY <1>0, <1>1, NextIInv, NextRoutedIsKept DEF HInv

(* A test that has received a message finds it in messages(), unless it has    *)
(* cleared it.                                                                 *)
THEOREM DeliveredIsRecorded == Spec => []RecordedBeforeDelivered
<1>1. Init => HInv
  <2>1. Init => RecordedBeforeDelivered /\ RoutedIsKept
    BY DEF Init, RecordedBeforeDelivered, MessagesAt, RoutedIsKept
  <2> QED BY <2>1, InitIInv DEF HInv
<1>2. HInv => RecordedBeforeDelivered
  BY DEF HInv
<1> QED BY <1>1, <1>2, NextHInv, PTL DEF Spec

-----------------------------------------------------------------------------
(* Delivery, whatever ids clients choose and whenever a descriptor number is   *)
(* given out again: what is said is about the clients that are not mixed up    *)
(* with another one, whoever else is.                                          *)

\* Handler c has read a packet of connection d.
ReadsPacket(c, d) ==
  \/ GreetPacket(c, d) \/ OtherPacket(c, d)
  \/ \E topic \in Topics : PublishPacket(c, d, topic)
  \/ \E filter \in Filters : SubscribePacket(c, d, filter)

(* What the owner leaves alone besides.                                        *)
LEMMA OwnerKeeps ==
  ASSUME Start \/ StopAgain \/ StopBegin \/ StopStep \/ ClearMessages
  PROVE  /\ UNCHANGED <<pc, sent, asked, mixed, rcvd, sock, file, id, job, targets>>
         /\ UNCHANGED history \/ history' = <<>>
         /\ UNCHANGED peer \/ StopCloseListener
         /\ UNCHANGED <<table, shut, sessions>> \/ (StopCloseSessions /\ owner' # owner)
BY DEF ownerVars, serverVars, netVars, clientVars, threadVars, recordVars, vars,
       Start, StopAgain, StopBegin, StopStep, ClearMessages, StopCloseListener,
       StopUnsetListener, StopJoinAcceptor, StopCloseSessions, StopJoinAll

(* The acceptor gives a new client a descriptor and a thread, or does nothing  *)
(* to clients.                                                                 *)
LEMMA AcceptorKeeps ==
  ASSUME AcceptorStep
  PROVE  /\ UNCHANGED <<owner, peer, sent, asked, rcvd, file, id, job, targets, sessions,
                         history, shut>>
         /\ \/ UNCHANGED <<pc, sock, table, mixed>>
            \/ \E c \in Conns, f \in Fds : AcceptClient(c, f)
BY DEF ownerVars, serverVars, netVars, clientVars, threadVars, recordVars,
       acceptorFrame, AcceptorStep, AcceptCheck, AcceptNothing, AcceptBreaks,
       AcceptAborts, AcceptClient

(* What a new client changes: its own thread, and whom its number mixes it up  *)
(* with.                                                                       *)
LEMMA Accepts ==
  ASSUME IInv, NEW c \in Conns, NEW f \in Fds, AcceptClient(c, f)
  PROVE  /\ pc[c] = "none" /\ table[f] = None
         /\ pc' = [pc EXCEPT ![c] = "greet"] /\ sock' = [sock EXCEPT ![c] = f]
         /\ table' = [table EXCEPT ![f] = c]
         /\ mixed \subseteq mixed'
         /\ \A e \in Conns : Live(e) /\ sock[e] = f => {c, e} \subseteq mixed'
         /\ \A e \in Conns : \A t \in targets[e] : t[2] = f => c \in mixed'
<1>1. /\ pc[c] = "none" /\ table[f] = None
      /\ pc' = [pc EXCEPT ![c] = "greet"] /\ sock' = [sock EXCEPT ![c] = f]
      /\ table' = [table EXCEPT ![f] = c]
      /\ mixed' = mixed \union MixedNumber(c, f)
  BY DEF AcceptClient, Goto, IInv, BacklogIsNew
<1> QED BY <1>1 DEF MixedNumber, StillHave, StillTarget

(* A handler leaves the clients and the other handlers alone.                  *)
LEMMA HandlerKeeps ==
  ASSUME TypeOK, NEW c \in Conns, HandlerStep(c)
  PROVE  /\ UNCHANGED <<owner, peer, sent, asked, mixed, sock, id>>
         /\ Live(c)
         /\ \A d \in Conns \ {c} : /\ pc'[d] = pc[d] /\ file'[d] = file[d]
                                   /\ job'[d] = job[d] /\ targets'[d] = targets[d]
         /\ UNCHANGED history \/ RecordPublish(c)
         /\ UNCHANGED sessions \/ Register(c) \/ StoreFilter(c) \/ RemoveSession(c)
         /\ UNCHANGED table \/ RemoveSession(c) \/ CloseSocket(c)
<1> USE DEF ownerVars, serverVars, netVars, clientVars, threadVars, recordVars,
            handlerFrame, Goto, TypeOK
<1>0. UNCHANGED <<owner, peer, sent, asked, mixed, sock, id>> /\ Live(c)
  BY HandlerMoves
  DEF HandlerStep, Receive, HandleEof, Register, SendConnack, RecordPublish,
      SnapshotTargets, Deliver, PublishDone, StoreFilter, SendSuback, SendPingresp,
      RemoveSession, CloseSocket
<1>1. CASE Receive(c) \/ HandleEof(c)
  BY <1>0, <1>1 DEF Receive, HandleEof, BindRecv
<1>2. CASE Register(c) \/ SendConnack(c) \/ RecordPublish(c) \/ SendPingresp(c)
           \/ RemoveSession(c) \/ CloseSocket(c)
  BY <1>0, <1>2
  DEF Register, SendConnack, RecordPublish, SendPingresp, RemoveSession, CloseSocket
<1>3. CASE SnapshotTargets(c) \/ (\E t \in targets[c] : Deliver(c, t))
  BY <1>0, <1>3 DEF SnapshotTargets, Deliver
<1>4. CASE PublishDone(c) \/ StoreFilter(c) \/ SendSuback(c)
  BY <1>0, <1>4 DEF PublishDone, StoreFilter, SendSuback
<1> QED BY <1>1, <1>2, <1>3, <1>4 DEF HandlerStep

(* What a packet does, once it has been read: it counts as one of the client   *)
(* the recv() was bound to.                                                    *)
LEMMA PacketSteps ==
  ASSUME TypeOK, NEW c \in Conns, NEW d \in Conns, ReadsPacket(c, d)
  PROVE  /\ UNCHANGED <<owner, peer, table, shut, sock, rcvd, targets, sessions, history>>
         /\ file[c] = d /\ file' = [file EXCEPT ![c] = None]
         /\ sent' = [sent EXCEPT ![d] = @ + 1]
         /\ \A e \in Conns \ {c} : pc'[e] = pc[e] /\ job'[e] = job[e] /\ id'[e] = id[e]
         /\ \A e \in Conns \ {d} : asked'[e] = asked[e]
         /\ \/ /\ pc[c] = "greeting" /\ pc'[c] \in {"register", "close"}
               /\ UNCHANGED <<job, asked>> /\ mixed \subseteq mixed'
               /\ pc'[c] = "register" =>
                    \A e \in Conns : e \in Holders(id'[c]) => {c, e} \subseteq mixed'
            \/ /\ pc[c] = "wait" /\ UNCHANGED <<id, mixed>>
               /\ \/ /\ pc'[c] \in {"ping", "badsub", "remove", "loop"}
                     /\ UNCHANGED <<job, asked>>
                  \/ /\ pc'[c] = "record" /\ UNCHANGED asked
                     /\ job'[c].from = d /\ job'[c].n = sent[d] + 1
                  \/ /\ pc'[c] = "subscribe"
                     /\ asked'[d] = asked[d] \union {job'[c].filter}
<1> USE DEF clientFrame, ownerVars, serverVars, recordVars, Goto, TypeOK
<1>1. file[c] = d /\ sent' = [sent EXCEPT ![d] = @ + 1] /\ file' = [file EXCEPT ![c] = None]
  BY DEF ReadsPacket, GreetPacket, OtherPacket, PublishPacket, SubscribePacket, Packet
<1>2. CASE GreetPacket(c, d)
  <2>1. CASE Goto(c, "register") /\ id' = [id EXCEPT ![c] = GivenId(d)]
             /\ mixed' = mixed \union MixedId(c, GivenId(d))
    <3>1. GivenId(d) \in ClientIds
      BY IdAssumption DEF GivenId
    <3>2. id'[c] = GivenId(d)
      BY <2>1
    <3> QED BY <1>1, <1>2, <2>1, <3>2 DEF GreetPacket, MixedId
  <2>2. CASE Goto(c, "close") /\ UNCHANGED <<id, mixed>>
    BY <1>1, <1>2, <2>2 DEF GreetPacket
  <2> QED BY <1>2, <2>1, <2>2 DEF GreetPacket
<1>3. CASE OtherPacket(c, d)
  BY <1>1, <1>3 DEF OtherPacket
<1>4. ASSUME NEW topic \in Topics, PublishPacket(c, d, topic)
      PROVE  /\ UNCHANGED <<owner, peer, table, shut, sock, rcvd, targets, sessions, history,
                            asked, id, mixed>>
             /\ \A e \in Conns \ {c} : pc'[e] = pc[e] /\ job'[e] = job[e]
             /\ pc[c] = "wait" /\ pc'[c] = "record"
             /\ job'[c].from = d /\ job'[c].n = sent[d] + 1
  <2>1. job' = [job EXCEPT ![c] = [from |-> d, n |-> sent[d] + 1, topic |-> topic]]
    BY <1>4 DEF PublishPacket
  <2>2. job'[c] = [from |-> d, n |-> sent[d] + 1, topic |-> topic]
    BY <2>1
  <2> QED BY <1>4, <2>1, <2>2 DEF PublishPacket
<1>5. ASSUME NEW filter \in Filters, SubscribePacket(c, d, filter)
      PROVE  /\ UNCHANGED <<owner, peer, table, shut, sock, rcvd, targets, sessions, history,
                            id, mixed>>
             /\ \A e \in Conns \ {c} : pc'[e] = pc[e] /\ job'[e] = job[e]
             /\ \A e \in Conns \ {d} : asked'[e] = asked[e]
             /\ pc[c] = "wait" /\ pc'[c] = "subscribe"
             /\ asked'[d] = asked[d] \union {job'[c].filter}
  <2>1. job' = [job EXCEPT ![c] = [filter |-> filter]]
    BY <1>5 DEF SubscribePacket
  <2>2. job'[c] = [filter |-> filter]
    BY <2>1
  <2>3. asked'[d] = asked[d] \union {filter} /\ \A e \in Conns \ {d} : asked'[e] = asked[e]
    BY <1>5 DEF SubscribePacket
  <2> QED BY <1>5, <2>1, <2>2, <2>3 DEF SubscribePacket
<1> QED BY <1>1, <1>2, <1>3, <1>4, <1>5 DEF ReadsPacket

(* The kernel's steps of a client do nothing to handlers.                      *)
LEMMA ClientKeeps ==
  ASSUME NEW c \in Conns, ClientConnect(c) \/ ClientClose(c)
  PROVE  UNCHANGED <<owner, table, shut, sock, rcvd, targets, sessions, history, file, sent,
                     pc, job, id, asked, mixed>>
BY DEF ClientConnect, ClientClose, ownerVars, clientVars, threadVars, recordVars

(* What happens in a step.                                                     *)
LEMMA Steps ==
  ASSUME [Next]_vars
  PROVE  \/ Start \/ StopAgain \/ StopBegin \/ StopStep \/ ClearMessages
         \/ AcceptorStep
         \/ \E c \in Conns : HandlerStep(c)
         \/ \E c, d \in Conns : ReadsPacket(c, d)
         \/ \E c \in Conns : ClientConnect(c) \/ ClientClose(c)
         \/ UNCHANGED <<owner, peer, table, shut, sock, rcvd, targets, sessions, history, file,
                         sent, pc, job, id, asked, mixed>>
BY DEF Next, ClientStep, ReadsPacket, vars, ownerVars, netVars, clientVars, threadVars,
       recordVars

(* Who was mixed up stays so.                                                  *)
LEMMA MixedGrows ==
  ASSUME IInv, [Next]_vars
  PROVE  mixed \subseteq mixed' /\ Clean' \subseteq Clean
<1>0. TypeOK
  BY DEF IInv
<1>1. CASE AcceptorStep
  BY <1>1, AcceptorKeeps, Accepts DEF Clean
<1>2. ASSUME NEW c \in Conns, HandlerStep(c) PROVE mixed' = mixed
  BY <1>0, <1>2, HandlerKeeps
<1>3. ASSUME NEW c \in Conns, NEW d \in Conns, ReadsPacket(c, d) PROVE mixed \subseteq mixed'
  BY <1>0, <1>3, PacketSteps
<1> QED BY <1>1, <1>2, <1>3, Steps, OwnerKeeps, ClientKeeps DEF Clean

(* Two that may be mixed up share a number, an id or a connection.             *)
LEMMA KeptApart ==
  ASSUME MixedIfShared, NEW c \in Conns, NEW d \in Conns, c \in Clean \/ d \in Clean,
         Numbered(c, d) \/ Named(c, d) \/ file[c] = d
  PROVE  c = d
BY DEF MixedIfShared, Clean

(* A number of the table is that of a client with a handler, and a handler's   *)
(* number leads to its client or nowhere, if either is not mixed up.           *)
LEMMA OwnDescriptor ==
  ASSUME TypeOK, BacklogIsNew, DescriptorsOwned, MixedIfShared
  PROVE  /\ \A c \in Conns : pc[c] # "none" => sock[c] \in Fds
         /\ \A f \in Fds : table[f] # None =>
              /\ table[f] \in Conns /\ sock[table[f]] = f /\ Live(table[f])
              /\ peer[table[f]] \in {"here", "gone"}
         /\ \A c \in Conns : LET d == table[sock[c]] IN
              Live(c) /\ (c \in Clean \/ d \in Clean) => d \in {c, None}
         /\ \A c \in Conns : pc[c] \in Registered \union {"register"} => id[c] \in ClientIds
<1>1. \A f \in Fds : table[f] # None => table[f] \in Conns /\ sock[table[f]] = f /\ Live(table[f])
  BY DEF TypeOK, DescriptorsOwned
<1>2. \A f \in Fds : table[f] # None => peer[table[f]] \in {"here", "gone"}
  <2>1. \A c \in Conns : Live(c) => peer[c] \in {"here", "gone"}
    <3>1. \A c \in Conns : Live(c) => pc[c] # "none"
      BY DEF Live, Running, Registered
    <3>2. peer \in [Conns -> {"away", "here", "gone"}]
      BY DEF TypeOK
    <3> QED BY <3>1, <3>2 DEF BacklogIsNew
  <2> QED BY <1>1, <2>1
<1>3. \A c \in Conns : /\ pc[c] # "none" => sock[c] \in Fds
                       /\ pc[c] \in Registered \union {"register"} => id[c] \in ClientIds
  BY DEF TypeOK, Wired
<1>4. ASSUME NEW c \in Conns, Live(c), c \in Clean \/ table[sock[c]] \in Clean,
             table[sock[c]] # None
      PROVE  table[sock[c]] = c
  <2>1. sock[c] \in Fds
    BY <1>3, <1>4 DEF Live, Running, Registered
  <2>2. Numbered(c, table[sock[c]]) /\ table[sock[c]] \in Conns
    BY <1>1, <1>4, <2>1 DEF Numbered
  <2> QED BY <1>4, <2>2, KeptApart
<1> QED BY <1>1, <1>2, <1>3, <1>4

(* Handlers that come to share something are mixed up.                         *)
LEMMA NextMixedIfShared ==
  ASSUME IInv, MixedIfShared, [Next]_vars
  PROVE  MixedIfShared'
<1>0. TypeOK /\ mixed \subseteq mixed'
  BY MixedGrows DEF IInv
<1>a. \A f \in Fds : table[f] # None =>
        table[f] \in Conns /\ sock[table[f]] = f /\ Live(table[f])
  BY OwnDescriptor DEF IInv
<1> SUFFICES ASSUME NEW c \in Conns, NEW d \in Conns, c # d,
                    Numbered(c, d)' \/ Named(c, d)' \/ file'[c] = d
             PROVE  {c, d} \subseteq mixed'
  BY DEF MixedIfShared
<1>1. CASE Numbered(c, d) \/ Named(c, d) \/ file[c] = d
  BY <1>0, <1>1 DEF MixedIfShared
<1>n. ASSUME UNCHANGED sock, Live(c)' => Live(c), Live(d)' => Live(d), Numbered(c, d)'
      PROVE  Numbered(c, d)
  BY <1>n DEF Numbered
<1>i. ASSUME UNCHANGED id, c \in Holders(id[c])' => c \in Holders(id[c]),
             d \in Holders(id[c])' => d \in Holders(id[c]), Named(c, d)'
      PROVE  Named(c, d)
  BY <1>i DEF Named
<1>2. CASE UNCHANGED <<pc, sock, id, file>>
  BY <1>1, <1>2 DEF Numbered, Live, Named, Holders
<1>3. ASSUME NEW x \in Conns, NEW f \in Fds, AcceptClient(x, f), UNCHANGED <<id, file>>
      PROVE  {c, d} \subseteq mixed'
  <2>1. /\ pc' = [pc EXCEPT ![x] = "greet"] /\ sock' = [sock EXCEPT ![x] = f]
        /\ \A e \in Conns : Live(e) /\ sock[e] = f => {x, e} \subseteq mixed'
    BY <1>3, Accepts
  <2>2. \A e \in Conns : /\ e # x => pc'[e] = pc[e] /\ sock'[e] = sock[e]
                         /\ e = x => pc'[e] = "greet" /\ sock'[e] = f
    BY <1>0, <2>1 DEF TypeOK
  <2>3. CASE Numbered(c, d)'
    <3>1. CASE x \notin {c, d}
      BY <1>1, <2>2, <2>3, <3>1 DEF Numbered, Live
    <3>2. CASE x = c
      BY <2>1, <2>2, <2>3, <3>2 DEF Numbered, Live
    <3>3. CASE x = d
      BY <2>1, <2>2, <2>3, <3>3 DEF Numbered, Live
    <3> QED BY <3>1, <3>2, <3>3
  <2>4. Named(c, d)' => Named(c, d)
    BY <1>3, <2>2 DEF Named, Holders, Registered
  <2> QED BY <1>1, <1>3, <2>3, <2>4
<1>4. ASSUME NEW x \in Conns, HandlerStep(x)
      PROVE  {c, d} \subseteq mixed'
  <2>1. /\ UNCHANGED <<sock, id>> /\ Live(x)
        /\ \A e \in Conns \ {x} : pc'[e] = pc[e] /\ file'[e] = file[e]
    BY <1>0, <1>4, HandlerKeeps
  <2>2. Numbered(c, d)' => Numbered(c, d)
    BY <2>1 DEF Numbered, Live
  <2>3. pc'[x] \in Registered \union {"register"} => pc[x] \in Registered \union {"register"}
    BY <1>0, <1>4
    DEF HandlerStep, Receive, HandleEof, Register, SendConnack, RecordPublish, SnapshotTargets,
        PublishDone, StoreFilter, SendSuback, SendPingresp, RemoveSession, CloseSocket,
        Deliver, Goto, Registered, TypeOK
  <2>4. Named(c, d)' => Named(c, d)
    BY <2>1, <2>3 DEF Named, Holders
  <2>5. file'[x] = file[x] \/ file'[x] = None \/ (file'[x] = table[sock[x]] /\ sock[x] \in Fds)
    <3>1. sock[x] \in Fds
      BY <1>0, <2>1, OwnDescriptor DEF IInv, Live, Running, Registered
    <3> QED
      BY <1>0, <1>4, <3>1
      DEF HandlerStep, Receive, BindRecv, HandleEof, Register, SendConnack, RecordPublish,
          SnapshotTargets, Deliver, PublishDone, StoreFilter, SendSuback, SendPingresp,
          RemoveSession, CloseSocket, threadVars, TypeOK
  <2>6. CASE file'[c] = d /\ file[c] # d
    <3>1. x = c /\ table[sock[c]] = d /\ sock[c] \in Fds
      BY <2>1, <2>5, <2>6, ConnAssumption
    <3>2. Numbered(c, d)
      BY <1>a, <2>1, <3>1, ConnAssumption DEF Numbered
    <3> QED BY <1>1, <3>2
  <2> QED BY <1>1, <2>2, <2>4, <2>6
<1>5. ASSUME NEW x \in Conns, NEW y \in Conns, ReadsPacket(x, y)
      PROVE  {c, d} \subseteq mixed'
  <2>1. /\ UNCHANGED sock /\ file' = [file EXCEPT ![x] = None]
        /\ \A e \in Conns \ {x} : pc'[e] = pc[e] /\ id'[e] = id[e]
        /\ \/ /\ pc[x] = "greeting" /\ pc'[x] \in {"register", "close"}
              /\ pc'[x] = "register" =>
                   \A e \in Conns : e \in Holders(id'[x]) => {x, e} \subseteq mixed'
           \/ /\ pc[x] = "wait" /\ UNCHANGED id
    BY <1>0, <1>5, PacketSteps
  <2>2. Numbered(c, d)' => Numbered(c, d)
    BY <2>1 DEF Numbered, Live, Running, Registered
  <2>3. file'[c] # d \/ file[c] = d
    BY <1>0, <2>1, ConnAssumption DEF TypeOK
  <2>4. CASE Named(c, d)'
    <3>1. CASE x \notin {c, d} \/ pc[x] = "wait"
      <4>1. /\ id'[c] = id[c] /\ id'[d] = id[d]
            /\ \A e \in {c, d} : pc'[e] \in Registered \union {"register"} =>
                                   pc[e] \in Registered \union {"register"}
        BY <2>1, <3>1 DEF Registered
      <4> QED BY <1>1, <2>4, <4>1 DEF Named, Holders
    <3>2. CASE x = c /\ pc[x] = "greeting"
      BY <2>1, <2>4, <3>2 DEF Named, Holders, Registered
    <3>3. CASE x = d /\ pc[x] = "greeting"
      BY <2>1, <2>4, <3>3 DEF Named, Holders, Registered
    <3> QED BY <2>1, <3>1, <3>2, <3>3
  <2> QED BY <1>1, <2>2, <2>3, <2>4
<1>6. CASE AcceptorStep
  <2>1. CASE UNCHANGED <<pc, sock>>
    BY <1>2, <1>6, <2>1, AcceptorKeeps
  <2> QED BY <1>3, <1>6, <2>1, AcceptorKeeps
<1> QED BY <1>2, <1>4, <1>5, <1>6, Steps, OwnerKeeps, ClientKeeps

(* A packet is its client's, if either is not mixed up.                        *)
LEMMA OwnPacket ==
  ASSUME TypeOK, MixedIfShared, NEW c \in Conns, NEW d \in Conns, ReadsPacket(c, d),
         c \in Clean \/ d \in Clean
  PROVE  c = d
BY PacketSteps, KeptApart

(* Its session is its handler's own.                                           *)
LEMMA NextSessionOwned ==
  ASSUME OwnInv, [Next]_vars, NEW e \in Conns, e \in Clean'
  PROVE  SessionOwned(e)'
<1>0. /\ TypeOK /\ IInv /\ MixedIfShared /\ WorksOnLast
      /\ e \in Clean /\ SessionOwned(e) /\ Greeted(e)
  BY MixedGrows DEF OwnInv, IInv
<1>a. /\ pc[e] # "none" => sock[e] \in Fds
      /\ pc[e] \in Registered \union {"register"} => id[e] \in ClientIds
  BY <1>0, OwnDescriptor DEF IInv
<1>h. ASSUME NEW fds, HangUp(fds)
      PROVE  \A f \in Fds : /\ table'[f] # None => table'[f] = table[f]
                            /\ f \in fds => table'[f] = None
  BY <1>0, <1>h DEF HangUp, TypeOK
<1>1. CASE UNCHANGED <<pc, id, asked, sock, sessions, table>>
  BY <1>0, <1>1 DEF SessionOwned
<1>2. CASE Start \/ StopAgain \/ StopBegin \/ StopStep \/ ClearMessages
  <2>1. CASE StopCloseSessions
    <3>1. /\ \A i \in ClientIds : sessions'[i] = None
          /\ UNCHANGED <<pc, id, asked, sock>>
          /\ HangUp({f \in Fds : \E i \in ClientIds : sessions[i] # None /\ sessions[i].sock = f})
      BY <1>2, <2>1, OwnerKeeps DEF StopCloseSessions
    <3>2. /\ sock[e] \in Fds /\ table'[sock[e]] # None => table[sock[e]] # None
          /\ pc[e] \in Registered /\ sessions[id[e]] # None => table'[sock[e]] = None
      BY <1>0, <1>a, <1>h, <3>1 DEF SessionOwned, Registered
    <3>3. pc[e] \in Registered \union {"close"} => sock[e] \in Fds
      BY <1>a DEF Registered
    <3>4. pc[e] \in Registered => sessions'[id[e]] = None
      BY <1>a, <3>1
    <3> QED BY <1>0, <3>1, <3>2, <3>3, <3>4 DEF SessionOwned, Registered
  <2> QED BY <1>1, <1>2, <2>1, OwnerKeeps
<1>3. CASE AcceptorStep
  <2>0. UNCHANGED <<id, asked, sessions>>
    BY <1>3, AcceptorKeeps
  <2>1. ASSUME NEW c \in Conns, NEW f \in Fds, AcceptClient(c, f) PROVE SessionOwned(e)'
    <3>1. /\ pc[c] = "none" /\ pc' = [pc EXCEPT ![c] = "greet"]
          /\ table' = [table EXCEPT ![f] = c] /\ sock' = [sock EXCEPT ![c] = f]
          /\ Live(e) => sock[e] # f
      BY <1>0, <2>1, Accepts DEF Clean
    <3>2. CASE e = c
      BY <1>0, <3>1, <3>2 DEF SessionOwned, Registered, TypeOK
    <3>3. CASE e # c
      BY <1>0, <2>0, <3>1, <3>3 DEF SessionOwned, Registered, Live, Running, TypeOK
    <3> QED BY <3>2, <3>3
  <2> QED BY <1>1, <1>3, <2>0, <2>1, AcceptorKeeps
<1>4. ASSUME NEW c \in Conns, c # e, HandlerStep(c) PROVE SessionOwned(e)'
  <2>1. UNCHANGED <<asked, sock, id>> /\ pc'[e] = pc[e]
    BY <1>0, <1>4, HandlerKeeps
  <2>2. pc[e] \in Registered => sessions'[id[e]] = sessions[id[e]]
    <3> SUFFICES ASSUME pc[e] \in Registered, sessions' # sessions
                 PROVE  sessions'[id[e]] = sessions[id[e]]
      OBVIOUS
    <3>1. Register(c) \/ StoreFilter(c) \/ RemoveSession(c)
      BY <1>0, <1>4, HandlerKeeps
    <3>2. pc[c] \in Registered \union {"register"}
      BY <3>1 DEF Register, StoreFilter, RemoveSession, Registered
    <3>3. id[c] \in ClientIds /\ id[e] \in ClientIds
      BY <1>0, <1>a, <3>2 DEF TypeOK, Wired
    <3>4. id[c] # id[e]
      BY <1>0, <1>4, <3>2, KeptApart DEF Named, Holders
    <3>5. CASE Register(c) \/ RemoveSession(c)
      BY <1>0, <3>3, <3>4, <3>5 DEF Register, RemoveSession, Erased, TypeOK
    <3>6. CASE StoreFilter(c)
      <4>1. sessions' = [sessions EXCEPT ![id[c]] = sessions'[id[c]]]
        BY <1>0, <3>6 DEF StoreFilter, TypeOK
      <4> QED BY <1>0, <3>3, <3>4, <4>1 DEF TypeOK
    <3> QED BY <3>1, <3>5, <3>6
  <2>3. \A f \in Fds : table'[f] # None => table'[f] = table[f]
    BY <1>0, <1>4, <1>h, HandlerKeeps DEF RemoveSession, CloseSocket, Close, TypeOK
  <2>4. pc[e] \in Registered \union {"close"} => sock[e] \in Fds
    BY <1>a DEF Registered
  <2> QED BY <1>0, <2>1, <2>2, <2>3, <2>4 DEF SessionOwned, Registered
<1>5. CASE HandlerStep(e)
  <2>0. UNCHANGED <<asked, sock, id>> /\ sock[e] \in Fds
    BY <1>0, <1>5, <1>a, HandlerKeeps DEF Live, Running, Registered
  <2>1. CASE Register(e)
    <3>1. sessions'[id[e]] = NewSession(e) /\ pc'[e] = "connack" /\ UNCHANGED table
      BY <1>0, <1>a, <2>1 DEF Register, handlerFrame, Goto, TypeOK
    <3>2. NewSession(e).sock = sock[e] /\ NewSession(e).filters = {} /\ NewSession(e) # None
      BY <1>0, <2>0, <2>1, <3>1, SessionAssumption DEF NewSession, Sessions
    <3> QED BY <2>0, <3>1, <3>2 DEF SessionOwned, Registered
  <2>2. CASE RemoveSession(e)
    <3>1. sessions'[id[e]] = None /\ pc'[e] \in {"close", "badclose"}
      BY <1>0, <1>a, <2>2 DEF RemoveSession, Erased, Goto, TypeOK, Registered
    <3>2. table'[sock[e]] = None
      <4>1. HangUp(IF sessions[id[e]] = None THEN {} ELSE {sessions[id[e]].sock})
            /\ pc[e] \in {"remove", "badsub"}
        BY <2>2 DEF RemoveSession
      <4>2. CASE sessions[id[e]] = None
        <5>1. table[sock[e]] = None
          BY <1>0, <4>1, <4>2 DEF SessionOwned, Registered
        <5> QED BY <1>h, <2>0, <4>1, <5>1
      <4>3. CASE sessions[id[e]] # None
        <5>1. sessions[id[e]].sock = sock[e]
          BY <1>0, <4>1, <4>3 DEF SessionOwned, Registered
        <5>2. sock[e] \in (IF sessions[id[e]] = None THEN {} ELSE {sessions[id[e]].sock})
          BY <4>3, <5>1
        <5> QED BY <1>h, <2>0, <4>1, <5>2
      <4> QED BY <4>2, <4>3
    <3> QED BY <2>0, <3>1, <3>2 DEF SessionOwned, Registered
  <2>3. CASE CloseSocket(e)
    <3>1. /\ table'[sock[e]] = None /\ UNCHANGED sessions
          /\ pc'[e] = IF pc[e] = "close" THEN "exited" ELSE "loop"
          /\ pc[e] \in {"close", "badclose"}
      BY <1>0, <2>0, <2>3 DEF CloseSocket, Close, Goto, TypeOK
    <3> QED BY <1>0, <2>0, <3>1 DEF SessionOwned, Registered
  <2>4. CASE StoreFilter(e)
    <3>1. pc[e] = "subscribe" /\ pc'[e] = "suback" /\ id[e] \in ClientIds /\ UNCHANGED table
      BY <1>0, <1>a, <2>4 DEF StoreFilter, Goto, TypeOK, Registered
    <3>2. CASE UNCHANGED sessions
      BY <1>0, <2>0, <3>1, <3>2 DEF SessionOwned, Registered
    <3>3. CASE FindsSession(e)
      <4>1. sessions[id[e]] \in Sessions /\ sessions[id[e]] # None
        BY <1>0, <3>1, <3>3 DEF FindsSession, TypeOK
      <4>2. sessions'[id[e]] = [sessions[id[e]] EXCEPT !.filters = @ \union {job[e].filter}]
        <5>1. sessions' = [sessions EXCEPT ![id[e]] =
                            [sessions[id[e]] EXCEPT !.filters = @ \union {job[e].filter}]]
          BY <2>4, <3>1, <3>3 DEF StoreFilter
        <5> QED BY <1>0, <3>1, <5>1 DEF TypeOK
      <4>3. job[e].filter \in asked[e]
        BY <1>0, <3>1 DEF WorksOnLast
      <4>4. /\ sessions'[id[e]].sock = sessions[id[e]].sock
            /\ sessions'[id[e]].filters = sessions[id[e]].filters \union {job[e].filter}
        BY <4>1, <4>2 DEF Sessions
      <4>5. sessions'[id[e]] # None
        <5>2. [sessions[id[e]] EXCEPT !.filters = @ \union {job[e].filter}] # None
          <6>1. job[e].filter \in Filters
            BY <1>0, <3>1 DEF TypeOK, Wired, Requests
          <6>2. [sessions[id[e]] EXCEPT !.filters = @ \union {job[e].filter}] \in Sessions
            BY <4>1, <6>1 DEF Sessions
          <6> QED BY <6>2, SessionAssumption
        <5> QED BY <4>2, <5>2
      <4> QED BY <1>0, <2>0, <3>1, <4>1, <4>3, <4>4, <4>5 DEF SessionOwned, Registered
    <3> QED BY <2>4, <3>2, <3>3 DEF StoreFilter
  <2>5. CASE HandleEof(e) /\ pc[e] = "greeting"
    <3>1. asked[e] = {} /\ pc'[e] = "close" /\ UNCHANGED <<sessions, table>>
      BY <1>0, <2>5 DEF HandleEof, Goto, handlerFrame, Greeted, TypeOK
    <3> QED BY <1>0, <2>0, <2>5, <3>1 DEF SessionOwned, Registered
  <2>6. CASE Receive(e) /\ pc[e] = "greet"
    <3>1. /\ pc'[e] \in {"greeting", "close"} /\ UNCHANGED <<sessions, table>>
          /\ pc'[e] = "close" => table[sock[e]] = None
      BY <1>0, <2>6 DEF Receive, Goto, TypeOK
    <3> QED BY <1>0, <2>0, <2>6, <3>1 DEF SessionOwned, Registered
  <2>7. CASE /\ UNCHANGED <<sessions, table>>
             /\ {pc[e], pc'[e]} \subseteq Registered \ {"badclose"}
    BY <1>0, <2>0, <2>7 DEF SessionOwned, Registered
  <2>8. CASE \/ HandleEof(e) /\ pc[e] # "greeting"
             \/ Receive(e) /\ pc[e] # "greet"
             \/ SendConnack(e) \/ RecordPublish(e) \/ SnapshotTargets(e) \/ PublishDone(e)
             \/ SendSuback(e) \/ SendPingresp(e) \/ \E t \in targets[e] : Deliver(e, t)
    BY <1>0, <2>7, <2>8
    DEF HandleEof, Receive, SendConnack, RecordPublish, SnapshotTargets, PublishDone,
        SendSuback, SendPingresp, Deliver, Goto, Registered, TypeOK
  <2> QED BY <1>5, <2>1, <2>2, <2>3, <2>4, <2>5, <2>6, <2>8 DEF HandlerStep
<1>6. ASSUME NEW c \in Conns, NEW d \in Conns, ReadsPacket(c, d)
      PROVE  SessionOwned(e)'
  <2>1. UNCHANGED <<table, sock, sessions>> /\ asked[e] \subseteq asked'[e]
    BY <1>0, <1>6, PacketSteps
  <2>2. CASE c # e
    <3>1. d # e
      BY <1>0, <1>6, <2>2, OwnPacket
    <3>2. pc'[e] = pc[e] /\ id'[e] = id[e] /\ asked'[e] = asked[e]
      BY <1>0, <1>6, <2>2, <3>1, PacketSteps
    <3> QED BY <1>0, <2>1, <3>2 DEF SessionOwned
  <2>3. CASE c = e /\ pc[e] = "greeting"
    <3>1. asked'[e] = {} /\ pc'[e] \in {"register", "close"}
      BY <1>0, <1>6, <2>3, PacketSteps DEF Greeted
    <3> QED BY <1>0, <2>1, <2>3, <3>1 DEF SessionOwned, Registered
  <2>4. CASE c = e /\ pc[e] # "greeting"
    <3>1. /\ pc[e] = "wait" /\ id'[e] = id[e]
          /\ pc'[e] \in {"ping", "badsub", "remove", "loop", "record", "subscribe"}
      BY <1>0, <1>6, <2>4, PacketSteps
    <3> QED BY <1>0, <2>1, <3>1 DEF SessionOwned, Registered
  <2> QED BY <2>2, <2>3, <2>4
<1> QED BY <1>1, <1>2, <1>3, <1>4, <1>5, <1>6, Steps, ClientKeeps

(* Whom a handler sends what.                                                  *)
LEMMA Sends ==
  ASSUME TypeOK, DescriptorsOwned, NEW c \in Conns, HandlerStep(c)
  PROVE  \/ UNCHANGED rcvd
         \/ \E d \in Conns, frame \in Frames :
              /\ rcvd' = [rcvd EXCEPT ![d] = Append(rcvd[d], frame)]
              /\ peer[d] = "here"
              /\ \/ /\ pc[c] = "connack" /\ pc'[c] = "loop"
                    /\ table[sock[c]] = d /\ frame = Connack
                 \/ /\ pc[c] \in {"suback", "ping"} /\ pc'[c] = "loop"
                    /\ table[sock[c]] = d /\ frame \in Subacks \union {Pingresp}
                 \/ /\ pc[c] = "send" /\ frame = job[c] /\ UNCHANGED <<pc, job, table>>
                    /\ \E t \in targets[c] : table[t[2]] = d /\ targets'[c] = targets[c] \ {t}
<1>0. sock[c] \in Fds
  BY HandlerKeeps DEF Live, Running, Registered, TypeOK, Wired
<1>1. ASSUME NEW f \in Fds, NEW frame, NEW ok \in BOOLEAN, SendAll(f, frame, ok), rcvd' # rcvd
      PROVE  \E d \in Conns : /\ rcvd' = [rcvd EXCEPT ![d] = Append(rcvd[d], frame)]
                              /\ peer[d] = "here" /\ table[f] = d /\ ok
  BY <1>1 DEF SendAll, TypeOK
<1>2. CASE SendConnack(c)
  <2>0. pc[c] = "connack"
    BY <1>2 DEF SendConnack
  <2>1. PICK ok \in BOOLEAN : /\ SendAll(sock[c], Connack, ok)
                              /\ Goto(c, IF ok THEN "loop" ELSE "remove")
    BY <1>2 DEF SendConnack
  <2>2. CASE rcvd' # rcvd
    <3>1. PICK d \in Conns : /\ rcvd' = [rcvd EXCEPT ![d] = Append(rcvd[d], Connack)]
                             /\ peer[d] = "here" /\ table[sock[c]] = d /\ ok
      BY <1>0, <1>1, <2>1, <2>2
    <3>2. pc'[c] = "loop"
      BY <2>1, <3>1 DEF Goto, TypeOK
    <3> QED BY <2>0, <3>1, <3>2, FrameKinds
  <2> QED BY <2>2
<1>3. CASE SendSuback(c) \/ SendPingresp(c)
  <2>0. pc[c] \in {"suback", "ping"} /\ pc'[c] = "loop"
    BY <1>3 DEF SendSuback, SendPingresp, Goto, TypeOK
  <2>1. PICK ok \in BOOLEAN, frame \in Subacks \union {Pingresp} : SendAll(sock[c], frame, ok)
    BY <1>3 DEF SendSuback, SendPingresp, TypeOK, Wired
  <2>2. CASE rcvd' # rcvd
    BY <1>0, <1>1, <2>0, <2>1, <2>2, FrameKinds
  <2> QED BY <2>2
<1>4. ASSUME NEW t \in targets[c], Deliver(c, t), rcvd' # rcvd
      PROVE  \E d \in Conns, frame \in Frames :
              /\ rcvd' = [rcvd EXCEPT ![d] = Append(rcvd[d], frame)]
              /\ peer[d] = "here"
              /\ pc[c] = "send" /\ frame = job[c] /\ UNCHANGED <<pc, job, table>>
              /\ \E u \in targets[c] : table[u[2]] = d /\ targets'[c] = targets[c] \ {u}
  <2>1. t[2] \in Fds /\ job[c] \in Frames /\ pc[c] = "send"
    BY <1>4, FrameKinds DEF Deliver, TypeOK, Wired
  <2>2. PICK ok \in BOOLEAN : /\ SendAll(t[2], job[c], ok)
                              /\ targets' = [targets EXCEPT ![c] = TargetsLeft(c, t, ok)]
    BY <1>4 DEF Deliver
  <2>3. targets'[c] = targets[c] \ {t} /\ UNCHANGED <<pc, job, table>>
    BY <1>4, <2>2 DEF Deliver, TargetsLeft, TypeOK
  <2> QED BY <1>1, <1>4, <2>1, <2>2, <2>3
<1>5. CASE \/ Receive(c) \/ HandleEof(c) \/ Register(c) \/ RecordPublish(c) \/ SnapshotTargets(c)
           \/ PublishDone(c) \/ StoreFilter(c) \/ RemoveSession(c) \/ CloseSocket(c)
  BY <1>5
  DEF Receive, HandleEof, Register, RecordPublish, SnapshotTargets, PublishDone, StoreFilter,
      RemoveSession, CloseSocket
<1> QED BY <1>2, <1>3, <1>4, <1>5 DEF HandlerStep

(* A client that has gone does not come back.                                  *)
LEMMA GoneStaysGone ==
  ASSUME TypeOK, [Next]_vars, NEW e \in Conns, peer[e] = "gone"
  PROVE  peer'[e] = "gone"
<1>1. CASE Start \/ StopAgain \/ StopBegin \/ StopStep \/ ClearMessages
  BY <1>1, OwnerKeeps DEF StopCloseListener, TypeOK
<1>2. CASE AcceptorStep
  BY <1>2, AcceptorKeeps
<1>3. ASSUME NEW c \in Conns, HandlerStep(c) PROVE peer'[e] = "gone"
  BY <1>3, HandlerKeeps
<1>4. ASSUME NEW c \in Conns, NEW d \in Conns, ReadsPacket(c, d) PROVE peer'[e] = "gone"
  BY <1>4, PacketSteps
<1>5. ASSUME NEW c \in Conns, ClientConnect(c) \/ ClientClose(c) PROVE peer'[e] = "gone"
  BY <1>5 DEF ClientConnect, ClientClose, TypeOK
<1> QED BY <1>1, <1>2, <1>3, <1>4, <1>5, Steps

(* CONNACK comes before anything else a client is sent or asks for.            *)
LEMMA NextGreeted ==
  ASSUME OwnInv, [Next]_vars, NEW e \in Conns, e \in Clean'
  PROVE  Greeted(e)'
<1>0. /\ TypeOK /\ BacklogIsNew /\ DescriptorsOwned /\ MixedIfShared /\ TargetsAsked
      /\ e \in Clean /\ Greeted(e)
  BY MixedGrows DEF OwnInv, IInv
<1>g. peer[e] = "gone" => peer'[e] = "gone"
  BY <1>0, GoneStaysGone
<1>1. CASE UNCHANGED <<pc, asked, rcvd>>
  BY <1>0, <1>g, <1>1 DEF Greeted
<1>3. CASE AcceptorStep
  <2>1. ASSUME NEW c \in Conns, NEW f \in Fds, AcceptClient(c, f) PROVE Greeted(e)'
    <3>1. pc[c] = "none" /\ pc' = [pc EXCEPT ![c] = "greet"]
      BY <2>1, Accepts DEF OwnInv
    <3> QED BY <1>0, <1>g, <1>3, <3>1, AcceptorKeeps DEF Greeted, Registered, TypeOK
  <2> QED BY <1>1, <1>3, <2>1, AcceptorKeeps
<1>4. ASSUME NEW c \in Conns, HandlerStep(c) PROVE Greeted(e)'
  <2>0. /\ UNCHANGED asked /\ rcvd[e] \in Seq(Frames) /\ Live(c)
        /\ \A d \in Conns \ {c} : pc'[d] = pc[d]
    BY <1>0, <1>4, HandlerKeeps DEF TypeOK
  <2>1. \/ rcvd'[e] = rcvd[e]
        \/ /\ \E frame \in Frames : rcvd'[e] = Append(rcvd[e], frame)
           /\ asked[e] # {} \/ (c = e /\ pc[e] \in {"connack", "suback", "ping"} /\ pc'[e] = "loop")
    <3>1. CASE UNCHANGED rcvd
      BY <3>1
    <3>2. ASSUME NEW d \in Conns, NEW frame \in Frames,
                 rcvd' = [rcvd EXCEPT ![d] = Append(rcvd[d], frame)],
                 \/ /\ pc[c] \in {"connack", "suback", "ping"} /\ pc'[c] = "loop"
                    /\ table[sock[c]] = d
                 \/ \E t \in targets[c] : table[t[2]] = d
          PROVE  \/ rcvd'[e] = rcvd[e]
                 \/ /\ \E fr \in Frames : rcvd'[e] = Append(rcvd[e], fr)
                    /\ \/ asked[e] # {}
                       \/ c = e /\ pc[e] \in {"connack", "suback", "ping"} /\ pc'[e] = "loop"
      <4>1. rcvd'[e] = IF e = d THEN Append(rcvd[e], frame) ELSE rcvd[e]
        BY <1>0, <3>2 DEF TypeOK
      <4>2. ASSUME e = d, NEW t \in targets[c], table[t[2]] = d PROVE asked[e] # {}
        BY <1>0, <4>2 DEF TargetsAsked
      <4>3. ASSUME e = d, table[sock[c]] = d PROVE c = e
        BY <1>0, <2>0, <4>3, OwnDescriptor, ConnAssumption
      <4> QED BY <3>2, <4>1, <4>2, <4>3
    <3>3. CASE ~UNCHANGED rcvd
      <4>1. PICK d \in Conns, frame \in Frames :
              /\ rcvd' = [rcvd EXCEPT ![d] = Append(rcvd[d], frame)]
              /\ \/ /\ pc[c] \in {"connack", "suback", "ping"} /\ pc'[c] = "loop"
                    /\ table[sock[c]] = d
                 \/ \E t \in targets[c] : table[t[2]] = d
        BY <1>0, <1>4, <3>3, Sends
      <4> QED BY <3>2, <4>1
    <3> QED BY <3>1, <3>3
  <2>2. rcvd[e] # <<>> => rcvd'[e] # <<>>
    <3>1. \A frame \in Frames : Append(rcvd[e], frame) # <<>>
      BY <2>0
    <3> QED BY <2>1, <3>1
  <2>3. /\ pc'[e] \in {"none", "greet", "greeting", "register", "connack"} =>
             pc[e] \in {"none", "greet", "greeting", "register", "connack"}
        /\ pc'[e] \in Registered \ {"connack", "remove"} =>
             pc[e] \in Registered \ {"connack", "remove"} \/ SendConnack(e)
    <3>1. CASE c = e
      BY <1>0, <1>4, <3>1
      DEF HandlerStep, Receive, HandleEof, Register, SendConnack, RecordPublish, SnapshotTargets,
          PublishDone, StoreFilter, SendSuback, SendPingresp, RemoveSession, CloseSocket,
          Deliver, Goto, Registered, TypeOK
    <3>2. CASE c # e
      <4>1. pc'[e] = pc[e]
        BY <2>0, <3>2
      <4> QED BY <4>1
    <3> QED BY <3>1, <3>2
  <2>4. SendConnack(e) /\ pc'[e] = "loop" => rcvd'[e] # <<>> \/ peer[e] = "gone"
    <3> SUFFICES ASSUME SendConnack(e), pc'[e] = "loop" PROVE rcvd'[e] # <<>> \/ peer[e] = "gone"
      OBVIOUS
    <3>1. PICK ok \in BOOLEAN : /\ SendAll(sock[e], Connack, ok)
                                /\ Goto(e, IF ok THEN "loop" ELSE "remove")
      BY DEF SendConnack
    <3>2. ok = TRUE
      BY <1>0, <3>1 DEF Goto, TypeOK
    <3>3. table[sock[e]] = e /\ peer[e] \in {"here", "gone"}
      <4>1. Live(e)
        BY DEF SendConnack, Live, Running, Registered
      <4>2. sock[e] \in Fds
        BY <1>0, <4>1, OwnDescriptor DEF Live, Running, Registered
      <4>3. table[sock[e]] # None
        BY <3>1, <3>2 DEF SendAll
      <4> QED BY <1>0, <4>1, <4>2, <4>3, OwnDescriptor
    <3>4. CASE peer[e] = "here"
      <4>1. rcvd' = [rcvd EXCEPT ![e] = Append(rcvd[e], Connack)]
        BY <3>1, <3>2, <3>3, <3>4, ConnAssumption DEF SendAll
      <4>2. rcvd'[e] = Append(rcvd[e], Connack)
        BY <1>0, <4>1 DEF TypeOK
      <4> QED BY <2>0, <4>2, FrameKinds
    <3> QED BY <3>3, <3>4
  <2>5. pc'[e] \in Registered \ {"connack", "remove"} /\ SendConnack(e) => pc'[e] = "loop"
    BY <1>0 DEF SendConnack, Goto, TypeOK
  <2> QED BY <1>0, <1>g, <2>0, <2>1, <2>2, <2>3, <2>4, <2>5 DEF Greeted
<1>5. ASSUME NEW c \in Conns, NEW d \in Conns, ReadsPacket(c, d)
      PROVE  Greeted(e)'
  <2>1. UNCHANGED rcvd /\ (d = e => c = e)
    BY <1>0, <1>5, PacketSteps, OwnPacket
  <2>2. CASE e # c
    BY <1>0, <1>5, <1>g, <2>1, <2>2, PacketSteps DEF Greeted
  <2>3. CASE e = c
    <3>1. \/ pc[e] = "greeting" /\ pc'[e] \in {"register", "close"} /\ UNCHANGED asked
          \/ /\ pc[e] = "wait"
             /\ pc'[e] \in {"ping", "badsub", "remove", "loop", "record", "subscribe"}
      BY <1>0, <1>5, <2>3, PacketSteps
    <3> QED BY <1>0, <1>g, <2>1, <3>1 DEF Greeted, Registered
  <2> QED BY <2>2, <2>3
<1> QED BY <1>1, <1>3, <1>4, <1>5, Steps, OwnerKeeps, ClientKeeps

(* Filters are not forgotten.                                                  *)
LEMMA AskedStays ==
  ASSUME TypeOK, [Next]_vars, NEW d \in Conns
  PROVE  asked[d] \subseteq asked'[d]
<1>1. ASSUME NEW c \in Conns, HandlerStep(c) PROVE UNCHANGED asked
  BY <1>1, HandlerKeeps
<1>2. ASSUME NEW c \in Conns, NEW e \in Conns, ReadsPacket(c, e)
      PROVE  asked[d] \subseteq asked'[d]
  BY <1>2, PacketSteps
<1> QED BY <1>1, <1>2, Steps, OwnerKeeps, AcceptorKeeps, ClientKeeps

(* A number on a list of targets that stands for a client nobody is mixed up   *)
(* with stood for it before.                                                   *)
LEMMA TargetStays ==
  ASSUME IInv, [Next]_vars, NEW c \in Conns, NEW t \in targets[c], table'[t[2]] \in Clean'
  PROVE  table[t[2]] = table'[t[2]] /\ table[t[2]] \in Clean
<1>0. TypeOK /\ t[2] \in Fds /\ Clean' \subseteq Clean
  BY MixedGrows DEF IInv, TypeOK
<1>1. table'[t[2]] # None
  BY ConnAssumption DEF Clean
<1>2. CASE UNCHANGED table
  BY <1>0, <1>2
<1>h. ASSUME NEW fds, HangUp(fds) PROVE table[t[2]] = table'[t[2]]
  BY <1>0, <1>1, <1>h DEF HangUp, TypeOK
<1>3. CASE Start \/ StopAgain \/ StopBegin \/ StopStep \/ ClearMessages
  BY <1>0, <1>2, <1>3, <1>h, OwnerKeeps DEF StopCloseSessions
<1>4. ASSUME NEW x \in Conns, NEW f \in Fds, AcceptClient(x, f)
      PROVE  table[t[2]] = table'[t[2]]
  <2>1. t[2] # f
    BY <1>0, <1>4, Accepts DEF Clean, TypeOK
  <2> QED BY <1>0, <1>4, <2>1, Accepts DEF TypeOK
<1>5. CASE AcceptorStep
  BY <1>0, <1>2, <1>4, <1>5, AcceptorKeeps
<1>6. ASSUME NEW x \in Conns, HandlerStep(x)
      PROVE  table[t[2]] = table'[t[2]]
  BY <1>0, <1>1, <1>2, <1>6, <1>h, HandlerKeeps DEF RemoveSession, CloseSocket, Close, TypeOK
<1>7. ASSUME NEW x \in Conns, NEW y \in Conns, ReadsPacket(x, y) PROVE UNCHANGED table
  BY <1>0, <1>7, PacketSteps
<1> QED BY <1>0, <1>2, <1>3, <1>5, <1>6, <1>7, Steps, ClientKeeps

(* route_publish() finds the clients whose sessions have a filter that matches,*)
(* and has asked nobody else.                                                  *)
LEMMA NextTargetsAsked ==
  ASSUME OwnInv, [Next]_vars
  PROVE  TargetsAsked'
<1>0. TypeOK /\ IInv /\ MixedIfShared /\ TargetsAsked /\ BacklogIsNew /\ DescriptorsOwned
  BY DEF OwnInv, IInv
<1>d. DEFINE Asked(c, t) ==
        /\ pc[c] = "send"
        /\ table[t[2]] \in Clean =>
             /\ \E filter \in asked[table[t[2]]] : Matches(filter, job[c].topic)
             /\ \A u \in targets[c] : u[2] = t[2] => u = t
<1>1. ASSUME NEW c \in Conns, targets'[c] \subseteq targets[c],
             targets'[c] # {} => pc'[c] = pc[c] /\ job'[c] = job[c],
             NEW t \in targets'[c]
      PROVE  Asked(c, t)'
  <2>1. pc'[c] = "send"
    BY <1>0, <1>1 DEF TargetsAsked
  <2>2. ASSUME table'[t[2]] \in Clean'
        PROVE  /\ \E filter \in asked'[table'[t[2]]] : Matches(filter, job'[c].topic)
               /\ \A u \in targets'[c] : u[2] = t[2] => u = t
    <3>1. table[t[2]] = table'[t[2]] /\ table[t[2]] \in Clean /\ table[t[2]] \in Conns
      BY <1>0, <1>1, <2>2, TargetStays DEF Clean
    <3>2. asked[table[t[2]]] \subseteq asked'[table[t[2]]]
      BY <1>0, <3>1, AskedStays
    <3> QED BY <1>0, <1>1, <3>1, <3>2 DEF TargetsAsked
  <2> QED BY <2>1, <2>2
<1>2. CASE \A c \in Conns : /\ targets'[c] \subseteq targets[c]
                            /\ targets'[c] # {} => pc'[c] = pc[c] /\ job'[c] = job[c]
  BY <1>1, <1>2 DEF TargetsAsked
<1>3. CASE UNCHANGED <<pc, job, targets>>
  BY <1>2, <1>3
<1>4. CASE AcceptorStep
  <2>1. ASSUME NEW c \in Conns, NEW f \in Fds, AcceptClient(c, f), NEW d \in Conns
        PROVE  targets[d] # {} => pc'[d] = pc[d]
    BY <1>0, <2>1, Accepts DEF TargetsAsked, TypeOK
  <2>2. UNCHANGED <<job, targets>>
    BY <1>4, AcceptorKeeps
  <2> QED BY <1>2, <1>3, <1>4, <2>1, <2>2, AcceptorKeeps
<1>5. ASSUME NEW c \in Conns, HandlerStep(c) PROVE TargetsAsked'
  <2>0. \A d \in Conns \ {c} : targets'[d] = targets[d] /\ pc'[d] = pc[d] /\ job'[d] = job[d]
    BY <1>0, <1>5, HandlerKeeps
  <2>1. CASE SnapshotTargets(c)
    <3>1. /\ targets'[c] = Subscribers(job[c].topic) /\ pc'[c] = "send"
          /\ UNCHANGED <<job, sock, asked, table, mixed>>
      BY <1>0, <2>1 DEF SnapshotTargets, Goto, TypeOK, handlerFrame, clientVars
    <3>2. ASSUME NEW t \in targets'[c], table[t[2]] \in Clean
          PROVE  /\ id[table[t[2]]] = t[1] /\ t = <<t[1], t[2]>>
                 /\ \E filter \in asked[table[t[2]]] : Matches(filter, job[c].topic)
      <4>1. PICK i \in ClientIds :
              /\ t = <<i, sessions[i].sock>> /\ sessions[i] # None
              /\ \E filter \in sessions[i].filters : Matches(filter, job[c].topic)
        BY <3>1, <3>2 DEF Subscribers
      <4>2. PICK d \in Conns : pc[d] \in Registered /\ id[d] = i /\ sock[d] = sessions[i].sock
        BY <1>0, <4>1 DEF IInv, SessionsBacked
      <4>3. Live(d) /\ table[sock[d]] \in Clean /\ table[sock[d]] # None
        BY <3>2, <4>1, <4>2, ConnAssumption DEF Live, Running, Clean
      <4>4. table[t[2]] = d
        BY <1>0, <4>1, <4>2, <4>3, OwnDescriptor
      <4>5. sessions[i].filters \subseteq asked[d]
        BY <3>2, <4>1, <4>2, <4>4 DEF OwnInv, SessionOwned
      <4> QED BY <4>1, <4>2, <4>4, <4>5
    <3>3. ASSUME NEW t \in targets'[c], table[t[2]] \in Clean, NEW u \in targets'[c], u[2] = t[2]
          PROVE  u = t
      <4>1. t = <<id[table[t[2]]], t[2]>>
        BY <3>2, <3>3
      <4>2. u = <<id[table[t[2]]], t[2]>>
        BY <3>2, <3>3
      <4> QED BY <4>1, <4>2
    <3>4. \A t \in targets'[c] : Asked(c, t)'
      BY <3>1, <3>2, <3>3 DEF Clean
    <3>5. ASSUME NEW d \in Conns, d # c, NEW t \in targets'[d]
          PROVE  Asked(d, t)'
      BY <1>1, <2>0, <3>5
    <3> QED BY <3>4, <3>5 DEF TargetsAsked
  <2>2. CASE ~SnapshotTargets(c)
    <3>1. targets'[c] \subseteq targets[c] /\ (pc[c] # "send" => UNCHANGED targets)
      BY <1>0, <1>5, <2>2
      DEF HandlerStep, Receive, HandleEof, Register, SendConnack, RecordPublish, PublishDone,
          StoreFilter, SendSuback, SendPingresp, RemoveSession, CloseSocket, Deliver,
          TargetsLeft, threadVars, TypeOK
    <3>2. pc[c] # "send" => targets[c] = {}
      BY <1>0 DEF TargetsAsked
    <3>3. pc[c] = "send" => \/ PublishDone(c) /\ targets'[c] = {}
                            \/ UNCHANGED <<pc, job>>
      BY <1>5
      DEF HandlerStep, Receive, HandleEof, Register, SendConnack, RecordPublish, PublishDone,
          StoreFilter, SendSuback, SendPingresp, RemoveSession, CloseSocket, Deliver,
          SnapshotTargets, TypeOK
    <3> QED BY <1>2, <2>0, <3>1, <3>2, <3>3
  <2> QED BY <2>1, <2>2
<1>6. ASSUME NEW c \in Conns, NEW d \in Conns, ReadsPacket(c, d)
      PROVE  TargetsAsked'
  <2>1. UNCHANGED targets /\ pc[c] \in {"greeting", "wait"}
        /\ \A e \in Conns \ {c} : pc'[e] = pc[e] /\ job'[e] = job[e]
    BY <1>0, <1>6, PacketSteps
  <2>2. targets[c] = {}
    BY <1>0, <2>1 DEF TargetsAsked
  <2> QED BY <1>2, <2>1, <2>2
<1> QED BY <1>3, <1>4, <1>5, <1>6, Steps, OwnerKeeps, ClientKeeps

(* The message a handler works on is the last packet of its client.            *)
LEMMA NextWorksOnLast ==
  ASSUME OwnInv, [Next]_vars
  PROVE  WorksOnLast'
<1>0. TypeOK /\ IInv /\ WorksOnLast /\ MixedIfShared /\ Clean' \subseteq Clean /\ mixed \subseteq mixed'
  BY MixedGrows DEF OwnInv, IInv
<1>1. CASE UNCHANGED <<pc, job, sent, asked>>
  BY <1>0, <1>1 DEF WorksOnLast
<1>2. CASE AcceptorStep
  <2>1. ASSUME NEW c \in Conns, NEW f \in Fds, AcceptClient(c, f), NEW d \in Conns
        PROVE  pc'[d] = pc[d] \/ pc'[d] = "greet"
    BY <1>0, <2>1 DEF AcceptClient, Goto, TypeOK
  <2> QED BY <1>0, <1>1, <1>2, <2>1, AcceptorKeeps DEF WorksOnLast
<1>3. ASSUME NEW c \in Conns, HandlerStep(c) PROVE WorksOnLast'
  <2>0. /\ \A d \in Conns \ {c} : pc'[d] = pc[d] /\ job'[d] = job[d]
        /\ UNCHANGED <<sent, asked>>
    BY <1>0, <1>3, HandlerKeeps
  <2>1. pc'[c] \in {"record", "snapshot", "send"} =>
          pc[c] \in {"record", "snapshot", "send"} /\ job'[c] = job[c]
    BY <1>0, <1>3
    DEF HandlerStep, Receive, HandleEof, Register, SendConnack, RecordPublish, SnapshotTargets,
        PublishDone, StoreFilter, SendSuback, SendPingresp, RemoveSession, CloseSocket,
        Deliver, Goto, Registered, TypeOK, threadVars
  <2>2. pc'[c] # "subscribe"
    BY <1>0, <1>3
    DEF HandlerStep, Receive, HandleEof, Register, SendConnack, RecordPublish, SnapshotTargets,
        PublishDone, StoreFilter, SendSuback, SendPingresp, RemoveSession, CloseSocket,
        Deliver, Goto, Registered, TypeOK
  <2> QED BY <1>0, <2>0, <2>1, <2>2 DEF WorksOnLast
<1>4. ASSUME NEW x \in Conns, NEW y \in Conns, ReadsPacket(x, y)
      PROVE  WorksOnLast'
  <2>1. /\ file[x] = y
        /\ \A e \in Conns \ {x} : pc'[e] = pc[e] /\ job'[e] = job[e]
        /\ \A e \in Conns \ {y} : asked'[e] = asked[e]
    BY <1>0, <1>4, PacketSteps
  <2>2. sent'[y] = sent[y] + 1 /\ \A e \in Conns \ {y} : sent'[e] = sent[e]
    <3>1. sent' = [sent EXCEPT ![y] = @ + 1]
      BY <1>0, <1>4, PacketSteps
    <3> QED BY <1>0, <3>1 DEF TypeOK
  <2>3. \/ pc'[x] \in {"register", "close", "ping", "badsub", "remove", "loop"}
        \/ pc'[x] = "record" /\ job'[x].from = y /\ job'[x].n = sent[y] + 1
        \/ pc'[x] = "subscribe" /\ asked'[y] = asked[y] \union {job'[x].filter}
    BY <1>0, <1>4, PacketSteps
  <2>4. x \in Clean \/ y \in Clean => x = y
    BY <1>0, <1>4, OwnPacket
  <2>5. x # y => {x, y} \subseteq mixed'
    BY <1>0, <2>1 DEF MixedIfShared
  <2>6. ASSUME NEW c \in Conns, c # x
        PROVE  /\ pc'[c] \in {"record", "snapshot", "send"} =>
                    /\ job'[c].from # c => {c, job'[c].from} \subseteq mixed'
                    /\ c \in Clean' => job'[c].n = sent'[c]
               /\ c \in Clean' /\ pc'[c] = "subscribe" => job'[c].filter \in asked'[c]
    BY <1>0, <2>1, <2>2, <2>4, <2>6 DEF WorksOnLast
  <2>7. /\ pc'[x] \in {"record", "snapshot", "send"} =>
             /\ job'[x].from # x => {x, job'[x].from} \subseteq mixed'
             /\ x \in Clean' => job'[x].n = sent'[x]
        /\ x \in Clean' /\ pc'[x] = "subscribe" => job'[x].filter \in asked'[x]
    BY <1>0, <2>2, <2>3, <2>4, <2>5
  <2> QED BY <2>6, <2>7 DEF WorksOnLast
<1> QED BY <1>1, <1>2, <1>3, <1>4, Steps, OwnerKeeps, ClientKeeps

(* A handler that works on a message has read nothing since.                   *)
LEMMA Progresses ==
  ASSUME OwnInv, [Next]_vars, NEW f \in Conns, f \in Clean
  PROVE  /\ sent[f] \in Nat /\ sent'[f] \in Nat /\ sent[f] <= sent'[f]
         /\ pc'[f] = "record" => sent'[f] > sent[f] \/ (pc[f] = "record" /\ sent'[f] = sent[f])
         /\ pc'[f] = "snapshot" => pc[f] \in {"record", "snapshot"} /\ sent'[f] = sent[f]
         /\ pc'[f] = "send" => /\ sent'[f] = sent[f]
                               /\ pc[f] = "snapshot"
                                    \/ (pc[f] = "send" /\ targets'[f] \subseteq targets[f])
<1>0. TypeOK /\ MixedIfShared
  BY DEF OwnInv, IInv
<1>s. sent[f] \in Nat /\ sent'[f] \in Nat
  BY <1>0, NextTypeOK DEF TypeOK
<1>1. CASE UNCHANGED sent /\ pc'[f] = pc[f] /\ targets'[f] = targets[f]
  BY <1>s, <1>1
<1>2. CASE AcceptorStep
  <2>1. ASSUME NEW c \in Conns, NEW g \in Fds, AcceptClient(c, g)
        PROVE  pc'[f] = pc[f] \/ pc'[f] = "greet"
    BY <1>0, <2>1 DEF AcceptClient, Goto, TypeOK
  <2>2. UNCHANGED <<sent, targets>>
    BY <1>2, AcceptorKeeps
  <2> QED BY <1>s, <1>1, <1>2, <2>1, <2>2, AcceptorKeeps
<1>3. ASSUME NEW c \in Conns, HandlerStep(c), c # f
      PROVE  UNCHANGED sent /\ pc'[f] = pc[f] /\ targets'[f] = targets[f]
  BY <1>0, <1>3, HandlerKeeps
<1>4. CASE HandlerStep(f)
  <2>1. UNCHANGED sent
    BY <1>0, <1>4, HandlerKeeps
  <2>2. /\ pc'[f] # "record"
        /\ pc'[f] = "snapshot" => pc[f] = "record"
        /\ pc'[f] = "send" => SnapshotTargets(f) \/ \E t \in targets[f] : Deliver(f, t)
    BY <1>0, <1>4
    DEF HandlerStep, Receive, HandleEof, Register, SendConnack, RecordPublish, SnapshotTargets,
        PublishDone, StoreFilter, SendSuback, SendPingresp, RemoveSession, CloseSocket,
        Deliver, Goto, TypeOK
  <2>3. pc'[f] = "send" =>
          pc[f] = "snapshot" \/ (pc[f] = "send" /\ targets'[f] \subseteq targets[f])
    BY <1>0, <2>2 DEF SnapshotTargets, Deliver, TargetsLeft, TypeOK
  <2> QED BY <1>s, <2>1, <2>2, <2>3
<1>5. ASSUME NEW c \in Conns, NEW d \in Conns, ReadsPacket(c, d)
      PROVE  /\ sent[f] <= sent'[f] /\ UNCHANGED targets
             /\ \/ pc'[f] = pc[f] /\ sent'[f] = sent[f]
                \/ sent'[f] > sent[f] /\ pc'[f] \notin {"snapshot", "send"}
  <2>1. sent' = [sent EXCEPT ![d] = @ + 1] /\ UNCHANGED targets
    BY <1>0, <1>5, PacketSteps
  <2>0. f \in {c, d} => c = d
    BY <1>0, <1>5, OwnPacket
  <2>2. CASE f = c
    <3>1. pc'[f] \notin {"snapshot", "send"}
      BY <1>0, <1>5, <2>2, PacketSteps
    <3> QED BY <1>0, <1>s, <2>0, <2>1, <2>2, <3>1 DEF TypeOK
  <2>3. CASE f # c
    <3>1. pc'[f] = pc[f]
      BY <1>0, <1>5, <2>3, PacketSteps
    <3> QED BY <1>0, <1>s, <2>0, <2>1, <2>3, <3>1 DEF TypeOK
  <2> QED BY <2>2, <2>3
<1>6. CASE \E c, d \in Conns : ReadsPacket(c, d)
  BY <1>s, <1>5, <1>6
<1> QED BY <1>1, <1>2, <1>3, <1>4, <1>6, Steps, OwnerKeeps, ClientKeeps

(* Among the frames the messages are those with a topic.                       *)
LEMMA FramesApart ==
  /\ \A m \in Messages : IsMessage(m)
  /\ \A m \in Frames : IsMessage(m) => m \in Messages
  /\ \A m \in Messages \union Subacks \union {Pingresp} : m # Connack
<1>1. \A m \in Messages : DOMAIN m = {"from", "n", "topic"}
  BY DEF Messages
<1>2. \A m \in Subacks : DOMAIN m = {"codes"}
  BY DEF Subacks
<1>3. DOMAIN Connack = {"kind"} /\ DOMAIN Pingresp = {"kind"} /\ Connack # Pingresp
  <2>1. DOMAIN Connack = {"kind"} /\ DOMAIN Pingresp = {"kind"}
    BY DEF Connack, Pingresp
  <2>2. Connack.kind = "connack" /\ Pingresp.kind = "pingresp"
    BY DEF Connack, Pingresp
  <2> QED BY <2>1, <2>2
<1> QED BY <1>1, <1>2, <1>3 DEF IsMessage, Frames

(* The messages at a client are those it had, and at most one from a handler   *)
(* that had it among its targets.                                              *)
LEMMA Receives ==
  ASSUME OwnInv, [Next]_vars, NEW d \in Conns, NEW k \in MessagesAt(d)'
  PROVE  \/ k \in MessagesAt(d) /\ rcvd'[d][k] = rcvd[d][k]
         \/ /\ k = Len(rcvd[d]) + 1
            /\ \E c \in Conns :
                 /\ pc[c] = "send" /\ rcvd'[d][k] = job[c]
                 /\ UNCHANGED <<pc, job, sent, asked, table>>
                 /\ \E t \in targets[c] : table[t[2]] = d /\ targets'[c] = targets[c] \ {t}
<1>0. TypeOK /\ DescriptorsOwned /\ rcvd[d] \in Seq(Frames)
  BY DEF OwnInv, IInv, TypeOK
<1>1. CASE UNCHANGED rcvd
  BY <1>1 DEF MessagesAt
<1>2. ASSUME NEW c \in Conns, HandlerStep(c)
      PROVE  \/ k \in MessagesAt(d) /\ rcvd'[d][k] = rcvd[d][k]
             \/ /\ k = Len(rcvd[d]) + 1
                /\ pc[c] = "send" /\ rcvd'[d][k] = job[c]
                /\ UNCHANGED <<pc, job, sent, asked, table>>
                /\ \E t \in targets[c] : table[t[2]] = d /\ targets'[c] = targets[c] \ {t}
  <2>1. UNCHANGED <<sent, asked>>
    BY <1>0, <1>2, HandlerKeeps
  <2>2. ASSUME NEW e \in Conns, NEW frame \in Frames,
               rcvd' = [rcvd EXCEPT ![e] = Append(rcvd[e], frame)],
               \/ frame = Connack
               \/ frame \in Subacks \union {Pingresp}
               \/ /\ pc[c] = "send" /\ frame = job[c] /\ UNCHANGED <<pc, job, table>>
                  /\ \E t \in targets[c] : table[t[2]] = e /\ targets'[c] = targets[c] \ {t}
        PROVE  \/ k \in MessagesAt(d) /\ rcvd'[d][k] = rcvd[d][k]
               \/ /\ k = Len(rcvd[d]) + 1
                  /\ pc[c] = "send" /\ rcvd'[d][k] = job[c] /\ UNCHANGED <<pc, job, table>>
                  /\ \E t \in targets[c] : table[t[2]] = d /\ targets'[c] = targets[c] \ {t}
    <3>1. CASE d # e
      <4>1. rcvd'[d] = rcvd[d]
        BY <2>2, <3>1
      <4> QED BY <4>1 DEF MessagesAt
    <3>2. CASE d = e
      <4>1. rcvd'[d] = Append(rcvd[d], frame)
        BY <1>0, <2>2, <3>2 DEF TypeOK
      <4>2. k \in DOMAIN rcvd'[d] /\ IsMessage(rcvd'[d][k])
        BY DEF MessagesAt
      <4>3. CASE k \in DOMAIN rcvd[d]
        <5>1. rcvd'[d][k] = rcvd[d][k]
          BY <1>0, <4>1, <4>3
        <5> QED BY <4>2, <4>3, <5>1 DEF MessagesAt
      <4>4. CASE k \notin DOMAIN rcvd[d]
        <5>1. k = Len(rcvd[d]) + 1 /\ rcvd'[d][k] = frame
          BY <1>0, <4>1, <4>2, <4>4
        <5>2. frame \in Messages
          BY <4>2, <5>1, FramesApart
        <5>3. frame \notin Subacks \union {Pingresp, Connack}
          BY <5>2, NoMessages, FramesApart
        <5> QED BY <2>2, <3>2, <5>1, <5>3
      <4> QED BY <4>3, <4>4
    <3> QED BY <3>1, <3>2
  <2>3. CASE rcvd' # rcvd
    <3>1. PICK e \in Conns, frame \in Frames :
            /\ rcvd' = [rcvd EXCEPT ![e] = Append(rcvd[e], frame)]
            /\ \/ frame = Connack
               \/ frame \in Subacks \union {Pingresp}
               \/ /\ pc[c] = "send" /\ frame = job[c] /\ UNCHANGED <<pc, job, table>>
                  /\ \E t \in targets[c] : table[t[2]] = e /\ targets'[c] = targets[c] \ {t}
      BY <1>0, <1>2, <2>3, Sends
    <3> QED BY <2>1, <2>2, <3>1
  <2>4. UNCHANGED rcvd => k \in MessagesAt(d) /\ rcvd'[d][k] = rcvd[d][k]
    BY DEF MessagesAt
  <2> QED BY <2>3, <2>4
<1>3. ASSUME NEW x \in Conns, NEW y \in Conns, ReadsPacket(x, y) PROVE UNCHANGED rcvd
  BY <1>0, <1>3, PacketSteps
<1> QED BY <1>1, <1>2, <1>3, Steps, OwnerKeeps, AcceptorKeeps, ClientKeeps

(* Messages come only to clients that asked for them.                          *)
LEMMA NextDelivered ==
  ASSUME OwnInv, [Next]_vars
  PROVE  DeliveredOnlyToSubscribers'
<1> SUFFICES ASSUME NEW d \in Clean', NEW k \in MessagesAt(d)'
             PROVE  \E filter \in asked'[d] : Matches(filter, rcvd'[d][k].topic)
  BY DEF DeliveredOnlyToSubscribers
<1>0. d \in Clean /\ d \in Conns /\ TypeOK
  BY MixedGrows DEF OwnInv, IInv, Clean
<1>1. asked[d] \subseteq asked'[d]
  BY <1>0, AskedStays
<1>2. CASE k \in MessagesAt(d) /\ rcvd'[d][k] = rcvd[d][k]
  BY <1>0, <1>1, <1>2 DEF OwnInv, DeliveredOnlyToSubscribers
<1>3. ASSUME NEW c \in Conns, rcvd'[d][k] = job[c], NEW t \in targets[c], table[t[2]] = d
      PROVE  \E filter \in asked'[d] : Matches(filter, rcvd'[d][k].topic)
  BY <1>0, <1>1, <1>3 DEF OwnInv, TargetsAsked
<1> QED BY <1>0, <1>2, <1>3, Receives

(* A client is sent CONNACK when it has nothing, and other frames afterwards.  *)
LEMMA ConnackStarts ==
  ASSUME OwnInv, [Next]_vars, NEW d \in Conns, d \in Clean
  PROVE  \/ rcvd'[d] = rcvd[d]
         \/ \E frame \in Frames : /\ rcvd'[d] = Append(rcvd[d], frame)
                                  /\ frame = Connack <=> rcvd[d] = <<>>
<1>0. /\ TypeOK /\ BacklogIsNew /\ DescriptorsOwned /\ MixedIfShared /\ TargetsAsked
      /\ Greeted(d) /\ rcvd \in [Conns -> Seq(Frames)]
  BY DEF OwnInv, IInv, TypeOK
<1>1. ASSUME NEW c \in Conns, HandlerStep(c), rcvd' # rcvd
      PROVE  \/ rcvd'[d] = rcvd[d]
             \/ \E frame \in Frames : /\ rcvd'[d] = Append(rcvd[d], frame)
                                      /\ frame = Connack <=> rcvd[d] = <<>>
  <2>1. PICK e \in Conns, frame \in Frames :
          /\ rcvd' = [rcvd EXCEPT ![e] = Append(rcvd[e], frame)]
          /\ peer[e] = "here"
          /\ \/ pc[c] = "connack" /\ table[sock[c]] = e /\ frame = Connack
             \/ /\ pc[c] \in {"suback", "ping"} /\ table[sock[c]] = e
                /\ frame \in Subacks \union {Pingresp}
             \/ pc[c] = "send" /\ frame = job[c] /\ \E t \in targets[c] : table[t[2]] = e
    BY <1>0, <1>1, Sends
  <2>2. rcvd'[d] = IF e = d THEN Append(rcvd[d], frame) ELSE rcvd[d]
    BY <1>0, <2>1
  <2>c. Live(c) /\ table[sock[c]] = d => c = d
    BY <1>0, OwnDescriptor, ConnAssumption
  <2>l. Live(c)
    BY <1>0, <1>1, HandlerKeeps
  <2>3. CASE pc[c] = "connack" /\ table[sock[c]] = e /\ frame = Connack
    BY <1>0, <2>2, <2>3, <2>c, <2>l DEF Greeted
  <2>4. CASE pc[c] \in {"suback", "ping"} /\ table[sock[c]] = e /\ frame \in Subacks \union {Pingresp}
    BY <1>0, <2>1, <2>2, <2>4, <2>c, <2>l, FramesApart DEF Greeted, Registered
  <2>5. CASE pc[c] = "send" /\ frame = job[c] /\ (\E t \in targets[c] : table[t[2]] = e) /\ e = d
    <3>0. PICK t \in targets[c] : table[t[2]] = d
      BY <2>5
    <3>1. asked[d] # {}
      BY <1>0, <3>0 DEF TargetsAsked
    <3>2. rcvd[d] # <<>>
      BY <1>0, <2>1, <2>5, <3>1 DEF Greeted
    <3>3. frame # Connack
      BY <1>0, <2>5, FramesApart DEF TypeOK, Wired
    <3> QED BY <2>2, <2>5, <3>2, <3>3
  <2> QED BY <2>1, <2>2, <2>3, <2>4, <2>5
<1>2. ASSUME NEW x \in Conns, NEW y \in Conns, ReadsPacket(x, y) PROVE UNCHANGED rcvd
  BY <1>0, <1>2, PacketSteps
<1> QED BY <1>1, <1>2, Steps, OwnerKeeps, AcceptorKeeps, ClientKeeps

(* CONNACK is the first frame, and only the first.                             *)
LEMMA NextConnackFirst ==
  ASSUME OwnInv, [Next]_vars
  PROVE  ConnackFirst'
<1> SUFFICES ASSUME NEW d \in Clean', NEW k \in DOMAIN rcvd'[d]
             PROVE  (rcvd'[d][k] = Connack) <=> (k = 1)
  BY DEF ConnackFirst
<1>c. d \in Conns /\ d \in Clean
  BY MixedGrows DEF OwnInv, Clean
<1>0. rcvd[d] \in Seq(Frames) /\ \A j \in DOMAIN rcvd[d] : (rcvd[d][j] = Connack) <=> (j = 1)
  BY <1>c DEF OwnInv, IInv, TypeOK, ConnackFirst
<1>1. CASE rcvd'[d] = rcvd[d]
  BY <1>0, <1>1
<1>2. ASSUME NEW frame \in Frames, rcvd'[d] = Append(rcvd[d], frame),
             frame = Connack <=> rcvd[d] = <<>>
      PROVE  (rcvd'[d][k] = Connack) <=> (k = 1)
  <2>1. CASE k \in DOMAIN rcvd[d]
    BY <1>0, <1>2, <2>1
  <2>2. CASE k \notin DOMAIN rcvd[d]
    <3>1. k = Len(rcvd[d]) + 1 /\ rcvd'[d][k] = frame
      BY <1>0, <1>2, <2>2
    <3>2. rcvd[d] = <<>> <=> Len(rcvd[d]) = 0
      BY <1>0
    <3>3. Len(rcvd[d]) \in Nat
      BY <1>0
    <3>4. k = 1 <=> rcvd[d] = <<>>
      BY <3>1, <3>2, <3>3
    <3> QED BY <1>2, <3>1, <3>4
  <2> QED BY <2>1, <2>2
<1> QED BY <1>1, <1>2, <1>c, ConnackStarts

(* The history gains the message of a handler that has just read it.           *)
LEMMA Records ==
  ASSUME OwnInv, [Next]_vars, NEW k \in DOMAIN history'
  PROVE  /\ history'[k] \in Messages
         /\ \/ k \in DOMAIN history /\ history'[k] = history[k]
            \/ /\ k = Len(history) + 1
               /\ \E c \in Conns : /\ history'[k] = job[c] /\ UNCHANGED sent
                                   /\ pc[c] = "record" /\ pc'[c] = "snapshot"
<1>0. TypeOK /\ history \in Seq(Messages)
  BY DEF OwnInv, IInv, TypeOK
<1>m. history'[k] \in Messages
  <2>1. history' \in Seq(Messages)
    BY <1>0, NextTypeOK DEF TypeOK
  <2> QED BY <2>1
<1>1. CASE UNCHANGED history
  BY <1>1, <1>m
<1>2. ASSUME NEW c \in Conns, RecordPublish(c)
      PROVE  \/ k \in DOMAIN history /\ history'[k] = history[k]
             \/ /\ k = Len(history) + 1 /\ history'[k] = job[c] /\ UNCHANGED sent
                /\ pc[c] = "record" /\ pc'[c] = "snapshot"
  <2>1. /\ history' = Append(history, job[c]) /\ UNCHANGED sent
        /\ pc[c] = "record" /\ pc'[c] = "snapshot"
    BY <1>0, <1>2 DEF RecordPublish, Recorded, Goto, handlerFrame, clientVars, TypeOK
  <2>2. job[c] \in Messages
    BY <1>0, <2>1 DEF TypeOK, Wired
  <2> QED BY <1>0, <2>1, <2>2
<1>3. CASE \E c \in Conns : HandlerStep(c)
  BY <1>0, <1>m, <1>1, <1>2, <1>3, HandlerKeeps
<1>4. CASE Start \/ StopAgain \/ StopBegin \/ StopStep \/ ClearMessages
  <2>1. history' # <<>>
    <3> SUFFICES ASSUME history' = <<>> PROVE FALSE
      OBVIOUS
    <3> QED OBVIOUS
  <2> QED BY <1>1, <1>4, <2>1, OwnerKeeps
<1>5. ASSUME NEW x \in Conns, NEW y \in Conns, ReadsPacket(x, y) PROVE UNCHANGED history
  BY <1>0, <1>5, PacketSteps
<1> QED BY <1>1, <1>3, <1>4, <1>5, Steps, AcceptorKeeps, ClientKeeps

(* What a handler has yet to record or to send is nowhere yet.                 *)
LEMMA NextNotYetThere ==
  ASSUME OwnInv, [Next]_vars
  PROVE  NotYetThere'
<1>0. /\ TypeOK /\ IInv /\ DescriptorsOwned /\ WorksOnLast /\ NotYetThere /\ TargetsAsked
      /\ Clean' \subseteq Clean /\ Clean \subseteq Conns
  BY MixedGrows DEF OwnInv, IInv, Clean
<1>p. ASSUME NEW f \in Conns, f \in Clean, NEW n \in Nat
      PROVE  /\ n <= sent[f] => n <= sent'[f]
             /\ n <= sent[f] /\ (pc[f] = "record" => n < sent[f]) =>
                  (pc'[f] = "record" => n < sent'[f])
             /\ n <= sent[f] /\ (pc[f] \in {"record", "snapshot"} => n < sent[f]) =>
                  /\ pc'[f] \in {"record", "snapshot"} => n < sent'[f]
                  /\ pc'[f] = "send" /\ n = sent'[f] =>
                       pc[f] = "send" /\ n = sent[f] /\ targets'[f] \subseteq targets[f]
  BY <1>p, Progresses
<1>1. ASSUME NEW k \in DOMAIN history', history'[k].from \in Clean'
      PROVE  LET m == history'[k] IN
             m.n <= sent'[m.from] /\ (pc'[m.from] = "record" => m.n < sent'[m.from])
  <2>1. history'[k].from \in Conns /\ history'[k].n \in Nat /\ history'[k].from \in Clean
    BY <1>0, <1>1, Records DEF Messages
  <2>2. CASE k \in DOMAIN history /\ history'[k] = history[k]
    BY <1>0, <1>p, <2>1, <2>2 DEF NotYetThere
  <2>3. ASSUME NEW c \in Conns, history'[k] = job[c], UNCHANGED sent,
               pc[c] = "record", pc'[c] = "snapshot"
        PROVE  LET m == history'[k] IN
               m.n <= sent'[m.from] /\ (pc'[m.from] = "record" => m.n < sent'[m.from])
    <3>1. job[c].from = c /\ job[c].n = sent[c]
      BY <1>0, <2>1, <2>3 DEF WorksOnLast, Clean
    <3> QED BY <2>1, <2>3, <3>1
  <2> QED BY <2>2, <2>3, Records
<1>2. ASSUME NEW d \in Clean', NEW k \in MessagesAt(d)', rcvd'[d][k].from \in Clean'
      PROVE  LET m == rcvd'[d][k] IN
             /\ m.n <= sent'[m.from]
             /\ pc'[m.from] \in {"record", "snapshot"} => m.n < sent'[m.from]
             /\ pc'[m.from] = "send" /\ m.n = sent'[m.from] =>
                  \A t \in targets'[m.from] : table'[t[2]] # d
  <2>0. d \in Conns /\ d \in Clean /\ rcvd'[d][k].from \in Clean
    BY <1>0, <1>2
  <2>1. rcvd'[d][k].from \in Conns /\ rcvd'[d][k].n \in Nat
    <3>1. rcvd' \in [Conns -> Seq(Frames)]
      BY <1>0, NextTypeOK DEF TypeOK
    <3>2. k \in DOMAIN rcvd'[d] /\ IsMessage(rcvd'[d][k])
      BY DEF MessagesAt
    <3>3. rcvd'[d][k] \in Messages
      BY <2>0, <3>1, <3>2, FramesApart
    <3> QED BY <3>3 DEF Messages
  <2>3. CASE k \in MessagesAt(d) /\ rcvd'[d][k] = rcvd[d][k]
    <3>2. LET m == rcvd[d][k] IN
          /\ m.n <= sent[m.from]
          /\ pc[m.from] \in {"record", "snapshot"} => m.n < sent[m.from]
          /\ pc[m.from] = "send" /\ m.n = sent[m.from] =>
               \A t \in targets[m.from] : table[t[2]] # d
      BY <1>0, <2>0, <2>3 DEF NotYetThere
    <3>3. \A t \in targets[rcvd[d][k].from] : table'[t[2]] = d => table[t[2]] = d
      BY <1>0, <1>2, <2>1, <2>3, TargetStays
    <3> QED BY <1>p, <2>0, <2>1, <2>3, <3>2, <3>3
  <2>4. ASSUME NEW c \in Conns, pc[c] = "send", rcvd'[d][k] = job[c],
               UNCHANGED <<pc, job, sent, asked, table>>,
               NEW t \in targets[c], table[t[2]] = d, targets'[c] = targets[c] \ {t}
        PROVE  LET m == rcvd'[d][k] IN
               /\ m.n <= sent'[m.from]
               /\ pc'[m.from] \in {"record", "snapshot"} => m.n < sent'[m.from]
               /\ pc'[m.from] = "send" /\ m.n = sent'[m.from] =>
                    \A u \in targets'[m.from] : table'[u[2]] # d
    <3>1. rcvd'[d][k].from = c /\ rcvd'[d][k].n = sent[c]
      BY <1>0, <2>0, <2>4 DEF WorksOnLast, Clean
    <3>2. \A u \in targets[c] : table[u[2]] = d => u = t
      <4>1. \A u \in targets[c] : table[u[2]] = d => u[2] = sock[d]
        BY <1>0, <2>0, ConnAssumption DEF TypeOK, DescriptorsOwned
      <4> QED BY <1>0, <2>0, <2>4, <4>1 DEF TargetsAsked
    <3> QED BY <2>1, <2>4, <3>1, <3>2
  <2>5. CASE k \in MessagesAt(d) /\ rcvd'[d][k] = rcvd[d][k]
    BY <2>3, <2>5
  <2>6. ASSUME NEW c \in Conns, pc[c] = "send", rcvd'[d][k] = job[c],
               UNCHANGED <<pc, job, sent, asked, table>>,
               \E t \in targets[c] : table[t[2]] = d /\ targets'[c] = targets[c] \ {t}
        PROVE  LET m == rcvd'[d][k] IN
               /\ m.n <= sent'[m.from]
               /\ pc'[m.from] \in {"record", "snapshot"} => m.n < sent'[m.from]
               /\ pc'[m.from] = "send" /\ m.n = sent'[m.from] =>
                    \A u \in targets'[m.from] : table'[u[2]] # d
    BY <2>4, <2>6
  <2> QED BY <2>0, <2>5, <2>6, Receives
<1> QED BY <1>1, <1>2 DEF NotYetThere

(* Each message comes after those its publisher sent before.                   *)
LEMMA NextFifo ==
  ASSUME OwnInv, [Next]_vars
  PROVE  FifoPerPublisher'
<1>0. /\ TypeOK /\ WorksOnLast /\ NotYetThere /\ FifoPerPublisher
      /\ Clean' \subseteq Clean /\ Clean \subseteq Conns
  BY MixedGrows DEF OwnInv, IInv, Clean
<1>1. ASSUME NEW d \in Clean', NEW j \in MessagesAt(d)', NEW k \in MessagesAt(d)', j < k,
             rcvd'[d][j].from = rcvd'[d][k].from, rcvd'[d][j].from \in Clean'
      PROVE  rcvd'[d][j].n < rcvd'[d][k].n
  <2>0. /\ d \in Conns /\ d \in Clean /\ rcvd'[d][j].from \in Clean
        /\ rcvd[d] \in Seq(Frames) /\ \A i \in MessagesAt(d) : i \in DOMAIN rcvd[d]
    BY <1>0, <1>1 DEF TypeOK, MessagesAt
  <2>1. j \in MessagesAt(d) /\ rcvd'[d][j] = rcvd[d][j]
    <3>1. k \in DOMAIN rcvd[d] \/ k = Len(rcvd[d]) + 1
      BY <2>0, Receives
    <3>2. j # Len(rcvd[d]) + 1
      BY <1>1, <2>0, <3>1
    <3> QED BY <2>0, <3>2, Receives
  <2>2. CASE k \in MessagesAt(d) /\ rcvd'[d][k] = rcvd[d][k]
    BY <1>0, <1>1, <2>0, <2>1, <2>2 DEF FifoPerPublisher
  <2>3. ASSUME NEW c \in Conns, pc[c] = "send", rcvd'[d][k] = job[c],
               NEW t \in targets[c], table[t[2]] = d
        PROVE  rcvd'[d][j].n < rcvd'[d][k].n
    <3>1. rcvd'[d][k].from = c /\ rcvd'[d][k].n = sent[c] /\ sent[c] \in Nat
      BY <1>0, <1>1, <2>0, <2>3 DEF WorksOnLast, TypeOK, Clean
    <3>2. rcvd[d][j].n \in Nat
      <4>1. rcvd[d][j] \in Messages
        BY <2>0, <2>1, FramesApart DEF MessagesAt
      <4> QED BY <4>1 DEF Messages
    <3>3. rcvd[d][j].n <= sent[c] /\ rcvd[d][j].n # sent[c]
      BY <1>0, <1>1, <2>0, <2>1, <2>3, <3>1 DEF NotYetThere
    <3> QED BY <2>1, <3>1, <3>2, <3>3
  <2> QED BY <2>0, <2>2, <2>3, Receives
<1>2. ASSUME NEW j \in DOMAIN history', NEW k \in DOMAIN history', j < k,
             history'[j].from = history'[k].from, history'[j].from \in Clean'
      PROVE  history'[j].n < history'[k].n
  <2>0. history \in Seq(Messages) /\ history'[j].from \in Clean
    BY <1>0, <1>2 DEF TypeOK
  <2>1. j \in DOMAIN history /\ history'[j] = history[j]
    <3>1. k \in DOMAIN history \/ k = Len(history) + 1
      BY Records
    <3>2. j # Len(history) + 1
      BY <1>2, <2>0, <3>1
    <3> QED BY <3>2, Records
  <2>2. CASE k \in DOMAIN history /\ history'[k] = history[k]
    BY <1>0, <1>2, <2>0, <2>1, <2>2 DEF FifoPerPublisher
  <2>3. ASSUME NEW c \in Conns, history'[k] = job[c], pc[c] = "record"
        PROVE  history'[j].n < history'[k].n
    <3>1. history'[k].from = c /\ history'[k].n = sent[c]
      BY <1>0, <1>2, <2>0, <2>3 DEF WorksOnLast, Clean
    <3> QED BY <1>0, <1>2, <2>0, <2>1, <2>3, <3>1 DEF NotYetThere
  <2> QED BY <2>2, <2>3, Records
<1> QED BY <1>1, <1>2 DEF FifoPerPublisher

(* OwnInv is inductive.                                                        *)
LEMMA NextOwnInv ==
  ASSUME OwnInv, [Next]_vars
  PROVE  OwnInv'
<1>1. IInv' /\ MixedIfShared'
  BY NextIInv, NextMixedIfShared DEF OwnInv
<1>2. \A c \in Clean' : SessionOwned(c)' /\ Greeted(c)'
  BY NextSessionOwned, NextGreeted DEF Clean
<1>3. TargetsAsked' /\ WorksOnLast' /\ NotYetThere'
  BY NextTargetsAsked, NextWorksOnLast, NextNotYetThere
<1>4. DeliveredOnlyToSubscribers' /\ ConnackFirst' /\ FifoPerPublisher'
  BY NextDelivered, NextConnackFirst, NextFifo
<1> QED BY <1>1, <1>2, <1>3, <1>4 DEF OwnInv

(* Nobody has asked for, sent or received anything.                            *)
LEMMA InitOwnInv == Init => OwnInv
<1> SUFFICES ASSUME Init PROVE OwnInv
  OBVIOUS
<1>1. IInv
  BY InitIInv
<1>2. MixedIfShared /\ TargetsAsked /\ WorksOnLast
  BY ConnAssumption
  DEF Init, MixedIfShared, Numbered, Named, Holders, Live, Running, Registered, TargetsAsked,
      WorksOnLast
<1>3. \A c \in Conns : SessionOwned(c) /\ Greeted(c)
  BY DEF Init, SessionOwned, Greeted, Registered
<1>4. \A d \in Conns : rcvd[d] = <<>> /\ MessagesAt(d) = {}
  BY DEF Init, MessagesAt
<1>5. history = <<>> /\ Clean \subseteq Conns
  BY DEF Init, Clean
<1>6. NotYetThere /\ DeliveredOnlyToSubscribers
  BY <1>4, <1>5 DEF NotYetThere, DeliveredOnlyToSubscribers
<1>7. ConnackFirst
  BY <1>4, <1>5 DEF ConnackFirst
<1>8. FifoPerPublisher
  BY <1>4, <1>5 DEF FifoPerPublisher
<1> QED BY <1>1, <1>2, <1>3, <1>5, <1>6, <1>7, <1>8 DEF OwnInv

(* In every state, whatever ids clients choose and whichever descriptor        *)
(* numbers come again, the clients that are not mixed up with another one are  *)
(* kept apart from the rest.                                                   *)
THEOREM ClientsAreKeptApart == Spec => []OwnInv
<1>1. OwnInv /\ [Next]_vars => OwnInv'
  BY NextOwnInv
<1> QED BY <1>1, InitOwnInv, PTL DEF Spec

(* A client nobody is mixed up with receives only messages whose topic matches *)
(* a filter it asked for.                                                      *)
THEOREM OnlySubscribersReceive == Spec => []DeliveredOnlyToSubscribers
<1>1. OwnInv => DeliveredOnlyToSubscribers
  BY DEF OwnInv
<1> QED BY <1>1, ClientsAreKeptApart, PTL

(* CONNACK is the first frame such a client sees, whoever publishes meanwhile. *)
THEOREM ConnackIsFirst == Spec => []ConnackFirst
<1>1. OwnInv => ConnackFirst
  BY DEF OwnInv
<1> QED BY <1>1, ClientsAreKeptApart, PTL

(* Such subscribers and the history have the messages of such a publisher in   *)
(* its order, none of them twice.                                              *)
THEOREM OrderIsKept == Spec => []FifoPerPublisher
<1>1. OwnInv => FifoPerPublisher
  BY DEF OwnInv
<1> QED BY <1>1, ClientsAreKeptApart, PTL

(* Only its own handler, or stop(), closes a client's descriptor.              *)
LEMMA HangsUpOwn ==
  ASSUME OwnInv, [Next]_vars, NEW f \in Fds, table[f] \in Clean, table'[f] = None
  PROVE  pc'[table[f]] # pc[table[f]] \/ owner' # owner
<1>0. /\ TypeOK /\ BacklogIsNew /\ SessionsBacked /\ DescriptorsOwned /\ MixedIfShared
      /\ table[f] # None
  BY ConnAssumption DEF OwnInv, IInv, Clean
<1>a. \A c \in Conns : Live(c) /\ sock[c] = f => c = table[f]
  BY <1>0, OwnDescriptor
<1>1. CASE Start \/ StopAgain \/ StopBegin \/ StopStep \/ ClearMessages
  BY <1>0, <1>1, OwnerKeeps
<1>2. ASSUME AcceptorStep PROVE FALSE
  <2>1. ASSUME NEW c \in Conns, NEW g \in Fds, AcceptClient(c, g) PROVE table'[f] # None
    BY <1>0, <2>1, ConnAssumption DEF AcceptClient, TypeOK
  <2> QED BY <1>0, <1>2, <2>1, AcceptorKeeps
<1>3. ASSUME NEW c \in Conns, HandlerStep(c)
      PROVE  pc'[table[f]] # pc[table[f]]
  <2>1. CASE RemoveSession(c)
    <3>1. pc[c] \in {"remove", "badsub"} /\ pc'[c] \in {"close", "badclose"}
      BY <1>0, <2>1 DEF RemoveSession, Goto, TypeOK
    <3>2. id[c] \in ClientIds
      BY <1>0, <3>1 DEF TypeOK, Wired, Registered
    <3>3. sessions[id[c]] # None /\ sessions[id[c]].sock = f
      BY <1>0, <2>1 DEF RemoveSession, HangUp, TypeOK
    <3>4. PICK e \in Conns : pc[e] \in Registered /\ id[e] = id[c] /\ sock[e] = f
      BY <1>0, <3>2, <3>3 DEF SessionsBacked
    <3>5. e = table[f]
      BY <1>a, <3>4 DEF Live, Running
    <3>6. Named(c, e)
      BY <3>1, <3>4 DEF Named, Holders, Registered
    <3>7. c = e
      BY <1>0, <3>5, <3>6, KeptApart
    <3> QED BY <3>1, <3>5, <3>7
  <2>2. CASE CloseSocket(c)
    <3>1. pc[c] \in {"close", "badclose"} /\ pc'[c] \in {"exited", "loop"}
      BY <1>0, <2>2 DEF CloseSocket, Goto, TypeOK
    <3>2. sock[c] = f
      BY <1>0, <2>2 DEF CloseSocket, Close, TypeOK
    <3>3. table[f] = c
      BY <1>a, <3>1, <3>2 DEF Live, Running, Registered
    <3> QED BY <3>1, <3>3
  <2> QED BY <1>0, <1>3, <2>1, <2>2, HandlerKeeps
<1>4. ASSUME NEW c \in Conns, NEW d \in Conns, ReadsPacket(c, d) PROVE FALSE
  BY <1>0, <1>4, PacketSteps
<1> QED BY <1>0, <1>1, <1>2, <1>3, <1>4, Steps, ClientKeeps

(* No client that is not mixed up with another one is disconnected by another  *)
(* client's handler, however often handlers close their numbers.               *)
THEOREM NobodyElseDisconnects == Spec => DisconnectedByOwnHandlerOrStop
<1>1. OwnInv /\ [Next]_vars =>
        [\A f \in Fds : table[f] \in Clean /\ table'[f] = None =>
           pc'[table[f]] # pc[table[f]] \/ owner' # owner]_vars
  BY HangsUpOwn
<1> QED BY <1>1, ClientsAreKeptApart, PTL DEF Spec, DisconnectedByOwnHandlerOrStop

(* Whoever closes the descriptor a handler reads from hangs it up.             *)
LEMMA HandlerWaits ==
  ASSUME OwnInv, WaitersReachable, NEW c \in Conns, HandlerStep(c),
         NEW d \in Conns, d \in Clean, pc'[d] = "wait"
  PROVE  file'[d] = d /\ (table'[sock'[d]] = d \/ d \in shut')
<1>0. TypeOK /\ BacklogIsNew /\ DescriptorsOwned /\ MixedIfShared
  BY DEF OwnInv, IInv
<1>1. sock' = sock /\ sock[d] \in Fds /\ Live(d) /\ table[sock[d]] \in {d, None}
  <2>1. Live(d)
    BY <1>0, HandlerKeeps DEF Live, Running, Registered
  <2> QED BY <1>0, <2>1, HandlerKeeps, OwnDescriptor DEF Live, Running, Registered
<1>2. CASE d = c
  <2>1. Receive(c) /\ pc[c] = "loop" /\ table[sock[c]] # None
    BY <1>0, <1>2
    DEF HandlerStep, Receive, HandleEof, Register, SendConnack, RecordPublish,
        SnapshotTargets, Deliver, PublishDone, StoreFilter, SendSuback, SendPingresp,
        RemoveSession, CloseSocket, Goto, TypeOK
  <2>2. file'[c] = table[sock[c]] /\ table' = table
    BY <1>0, <1>2, <2>1 DEF Receive, BindRecv, Goto, TypeOK
  <2> QED BY <1>1, <1>2, <2>1, <2>2
<1>3. CASE d # c
  <2>1. pc[d] = "wait" /\ file'[d] = file[d]
    BY <1>0, <1>3, HandlerKeeps
  <2>2. file[d] = d /\ (table[sock[d]] = d \/ d \in shut)
    BY <2>1 DEF WaitersReachable
  <2>3. CASE UNCHANGED <<table, shut>>
    BY <1>1, <2>1, <2>2, <2>3
  <2>4. CASE RemoveSession(c)
    BY <1>0, <1>1, <2>1, <2>2, <2>4 DEF RemoveSession, HangUp, TypeOK
  <2>5. CASE CloseSocket(c)
    <3>1. sock[c] # sock[d]
      BY <1>0, <1>1, <1>3, HandlerKeeps, KeptApart DEF Numbered
    <3> QED BY <1>0, <1>1, <2>1, <2>2, <2>5, <3>1 DEF CloseSocket, Close, TypeOK
  <2> QED
    BY <1>3, <2>3, <2>4, <2>5
    DEF HandlerStep, Receive, HandleEof, Register, SendConnack, RecordPublish,
        SnapshotTargets, Deliver, PublishDone, StoreFilter, SendSuback, SendPingresp,
        handlerFrame, netVars
<1> QED BY <1>2, <1>3

(* A handler that waits can be reached, or has been, in every state.           *)
LEMMA NextWaitersReachable ==
  ASSUME OwnInv, WaitersReachable, [Next]_vars
  PROVE  WaitersReachable'
<1>0. /\ TypeOK /\ IInv /\ MixedIfShared
      /\ Clean' \subseteq Clean /\ Clean \subseteq Conns
  BY MixedGrows DEF OwnInv, IInv, Clean
<1>2. \A c \in Conns : pc[c] = "wait" => sock[c] \in Fds
  BY <1>0 DEF TypeOK, Wired
<1>3. CASE Start \/ StopAgain \/ StopBegin \/ StopStep \/ ClearMessages
  <2>1. CASE UNCHANGED <<table, shut, sessions>>
    BY <1>0, <1>3, <2>1, OwnerKeeps DEF WaitersReachable
  <2>2. CASE StopCloseSessions
    <3>1. /\ UNCHANGED <<pc, file, sock>>
          /\ HangUp({f \in Fds : \E i \in ClientIds : sessions[i] # None /\ sessions[i].sock = f})
      BY <1>3, <2>2, OwnerKeeps DEF StopCloseSessions
    <3> QED BY <1>0, <1>2, <3>1 DEF WaitersReachable, HangUp, TypeOK
  <2> QED BY <1>3, <2>1, <2>2, OwnerKeeps
<1>4. CASE AcceptorStep
  <2>0. UNCHANGED <<file, shut>>
    BY <1>4, AcceptorKeeps
  <2>1. CASE UNCHANGED <<pc, sock, table, mixed>>
    BY <1>0, <2>0, <2>1 DEF WaitersReachable
  <2>2. ASSUME NEW c \in Conns, NEW f \in Fds, AcceptClient(c, f) PROVE WaitersReachable'
    <3>1. table' = [table EXCEPT ![f] = c]
          /\ sock' = [sock EXCEPT ![c] = f] /\ pc' = [pc EXCEPT ![c] = "greet"]
          /\ \A d \in Conns : d \in Clean' /\ Live(d) => sock[d] # f
      BY <1>0, <2>2, Accepts DEF Clean
    <3>2. \A d \in Conns : pc'[d] = "wait" => d # c /\ pc[d] = "wait" /\ Live(d)
      BY <1>0, <3>1 DEF TypeOK, Live, Running, Registered
    <3> QED BY <1>0, <1>2, <2>0, <3>1, <3>2 DEF WaitersReachable, TypeOK
  <2> QED BY <1>4, <2>1, <2>2, AcceptorKeeps
<1>5. ASSUME NEW c \in Conns, HandlerStep(c) PROVE WaitersReachable'
  BY <1>0, <1>5, HandlerWaits DEF WaitersReachable
<1>6. ASSUME NEW x \in Conns, NEW y \in Conns, ReadsPacket(x, y) PROVE WaitersReachable'
  <2>1. UNCHANGED <<table, shut, sock>> /\ file' = [file EXCEPT ![x] = None]
    BY <1>0, <1>6, PacketSteps
  <2>2. \A d \in Conns : pc'[d] = "wait" => d # x /\ pc[d] = "wait"
    BY <1>0, <1>6, PacketSteps
  <2> QED BY <1>0, <2>1, <2>2 DEF WaitersReachable, TypeOK
<1>7. ASSUME NEW c \in Conns, ClientConnect(c) \/ ClientClose(c) PROVE WaitersReachable'
  BY <1>0, <1>7, ClientKeeps DEF WaitersReachable, ClientConnect, ClientClose
<1>8. CASE UNCHANGED vars
  BY <1>0, <1>8 DEF WaitersReachable, vars, netVars, threadVars
<1> QED BY <1>3, <1>4, <1>5, <1>6, <1>7, <1>8 DEF Next, ClientStep, ReadsPacket

(* A connection that was hung up stays so.                                     *)
LEMMA ShutStaysShut ==
  ASSUME TypeOK, [Next]_vars
  PROVE  shut \subseteq shut'
<1>1. CASE Start \/ StopAgain \/ StopBegin \/ StopStep \/ ClearMessages
  BY <1>1, OwnerKeeps DEF StopCloseSessions, HangUp
<1>2. CASE AcceptorStep
  BY <1>2, AcceptorKeeps
<1>3. ASSUME NEW c \in Conns, HandlerStep(c) PROVE shut \subseteq shut'
  <2>1. CASE RemoveSession(c)
    BY <2>1 DEF RemoveSession, HangUp
  <2> QED
    BY <1>3, <2>1
    DEF HandlerStep, Receive, HandleEof, Register, SendConnack, RecordPublish,
        SnapshotTargets, Deliver, PublishDone, StoreFilter, SendSuback, SendPingresp,
        CloseSocket
<1>4. ASSUME NEW c \in Conns, NEW d \in Conns, ReadsPacket(c, d) PROVE UNCHANGED shut
  BY <1>4, PacketSteps
<1> QED BY <1>1, <1>2, <1>3, <1>4, Steps, ClientKeeps

(* The hanging up in stop() misses no handler that waits, and none begins to.  *)
LEMMA NextDrainingIsHungUp ==
  ASSUME OwnInv, WaitersReachable, DrainingIsHungUp, [Next]_vars
  PROVE  DrainingIsHungUp'
<1>0. TypeOK /\ PhasesAgree
  BY DEF OwnInv, IInv
<1> SUFFICES ASSUME owner' = "draining", NEW d \in Clean', pc'[d] = "wait"
             PROVE  EndOfFile(file[d])'
  BY DEF DrainingIsHungUp
<1>c. d \in Clean /\ d \in Conns
  BY MixedGrows DEF OwnInv, Clean
<1>a. WaitersReachable'
  BY NextWaitersReachable
<1>b. file'[d] = d
  BY <1>a DEF WaitersReachable
<1>1. CASE StopCloseSessions
  <2>1. pc[d] = "wait" /\ UNCHANGED <<file, sock>>
    BY <1>1, OwnerKeeps DEF StopStep
  <2>2. CASE table[sock[d]] = d
    <3>1. sessions[id[d]] # None /\ sessions[id[d]].sock = sock[d]
      BY <1>c, <2>1, <2>2, ConnAssumption DEF OwnInv, SessionOwned, Registered
    <3>2. sock[d] \in Fds /\ id[d] \in ClientIds
      BY <1>0, <1>c, <2>1 DEF TypeOK, Wired, Registered
    <3> QED BY <1>1, <1>b, <1>c, <2>2, <3>1, <3>2 DEF StopCloseSessions, HangUp, EndOfFile
  <2>3. CASE d \in shut
    BY <1>1, <1>b, <2>3 DEF StopCloseSessions, HangUp, EndOfFile
  <2> QED BY <1>c, <2>1, <2>2, <2>3 DEF WaitersReachable
<1>2. CASE owner = "draining"
  <2>1. ~running
    BY <1>0, <1>2 DEF PhasesAgree
  <2>2. pc[d] = "wait"
    <3>1. ASSUME NEW c \in Conns, HandlerStep(c) PROVE pc[d] = "wait"
      BY <1>0, <1>c, <2>1, <3>1
      DEF HandlerStep, Receive, HandleEof, Register, SendConnack, RecordPublish,
          SnapshotTargets, Deliver, PublishDone, StoreFilter, SendSuback, SendPingresp,
          RemoveSession, CloseSocket, Goto, TypeOK
    <3>2. ASSUME NEW x \in Conns, NEW y \in Conns, ReadsPacket(x, y) PROVE pc[d] = "wait"
      BY <1>0, <1>c, <3>2, PacketSteps
    <3>3. CASE AcceptorStep
      BY <1>0, <1>c, <3>3, AcceptorKeeps DEF AcceptClient, Goto, TypeOK
    <3> QED BY <3>1, <3>2, <3>3, Steps, OwnerKeeps, ClientKeeps
  <2>3. file[d] = d /\ EndOfFile(d)
    BY <1>2, <1>c, <2>2 DEF WaitersReachable, DrainingIsHungUp
  <2>4. peer[d] = "gone" => peer'[d] = "gone"
    BY <1>0, <1>c, GoneStaysGone
  <2>5. shut \subseteq shut'
    BY <1>0, ShutStaysShut
  <2> QED BY <1>b, <2>3, <2>4, <2>5 DEF EndOfFile
<1>3. owner # "draining" => StopCloseSessions
  <2>1. owner' # "draining" \/ owner' = owner \/ StopCloseSessions
    <3>1. CASE Start \/ StopAgain \/ StopBegin \/ StopStep \/ ClearMessages
      BY <3>1 DEF Start, StopAgain, StopBegin, StopStep, ClearMessages, StopCloseListener,
                  StopUnsetListener, StopJoinAcceptor, StopJoinAll, vars, ownerVars
    <3>2. CASE AcceptorStep
      BY <3>2, AcceptorKeeps
    <3>3. CASE \E c \in Conns : HandlerStep(c)
      BY <1>0, <3>3, HandlerKeeps
    <3>4. CASE \E x, y \in Conns : ReadsPacket(x, y)
      BY <1>0, <3>4, PacketSteps
    <3> QED BY <3>1, <3>2, <3>3, <3>4, Steps, ClientKeeps
  <2> QED BY <2>1
<1> QED BY <1>1, <1>2, <1>3

(* stop() has woken every handler that waits for a packet, and is not mixed up *)
(* with another one, before it waits for the handlers, whatever publishers and *)
(* other handlers do meanwhile.                                                *)
THEOREM StopHangsUpAll == Spec => []DrainingIsHungUp
<1>1. Init => WaitersReachable /\ DrainingIsHungUp
  BY DEF Init, WaitersReachable, DrainingIsHungUp, Clean
<1>2. OwnInv /\ WaitersReachable /\ DrainingIsHungUp /\ [Next]_vars =>
        WaitersReachable' /\ DrainingIsHungUp'
  BY NextWaitersReachable, NextDrainingIsHungUp
<1> QED BY <1>1, <1>2, ClientsAreKeptApart, PTL DEF Spec

(* What a handler owes a client it pays, unless the client leaves first.       *)
LEMMA PaysWhatItOwes ==
  ASSUME OwnInv, [Next]_vars, NEW c \in Conns, NEW d \in Conns, d \in Clean,
         Owes(c, d), ~Owes(c, d)'
  PROVE  \/ \E k \in MessagesAt(d)' : rcvd'[d][k] = job[c]
         \/ peer[d] = "gone" \/ d \in shut'
<1>0. /\ TypeOK /\ IInv /\ BacklogIsNew /\ DescriptorsOwned /\ MixedIfShared /\ TargetsAsked
      /\ pc[c] = "send"
  BY DEF OwnInv, IInv, Owes
<1>1. PICK t \in targets[c] : table[t[2]] = d
  BY DEF Owes
<1>2. t[2] \in Fds /\ d # None
  BY <1>0, ConnAssumption DEF TypeOK
<1>3. sock[d] = t[2] /\ Live(d) /\ peer[d] \in {"here", "gone"}
  BY <1>0, <1>1, <1>2, OwnDescriptor
<1>4. asked[d] # {}
  BY <1>0, <1>1 DEF TargetsAsked
<1>n. pc'[c] = pc[c] /\ t \in targets'[c] => table'[t[2]] # d
  BY <1>0 DEF Owes
<1>h. ASSUME NEW fds, HangUp(fds), table'[t[2]] # d PROVE d \in shut'
  BY <1>0, <1>1, <1>2, <1>h DEF HangUp, TypeOK
<1>5. CASE Start \/ StopAgain \/ StopBegin \/ StopStep \/ ClearMessages
  <2>1. table'[t[2]] # d
    BY <1>n, <1>5, OwnerKeeps
  <2> QED BY <1>1, <1>5, <1>h, <2>1, OwnerKeeps DEF StopCloseSessions
<1>6. ASSUME AcceptorStep PROVE FALSE
  <2>1. ASSUME NEW e \in Conns, NEW f \in Fds, AcceptClient(e, f) PROVE FALSE
    <3>1. /\ pc[e] = "none" /\ pc' = [pc EXCEPT ![e] = "greet"]
          /\ table[f] = None /\ table' = [table EXCEPT ![f] = e] /\ UNCHANGED targets
      BY <1>0, <1>6, <2>1, Accepts, AcceptorKeeps
    <3> QED BY <1>0, <1>1, <1>2, <1>n, <3>1 DEF TypeOK
  <2> QED BY <1>1, <1>6, <1>n, <2>1, AcceptorKeeps
<1>7. ASSUME NEW e \in Conns, e # c, HandlerStep(e)
      PROVE  d \in shut'
  <2>1. table'[t[2]] # d
    BY <1>0, <1>7, <1>n, HandlerKeeps
  <2>2. CASE RemoveSession(e)
    BY <1>h, <2>1, <2>2 DEF RemoveSession
  <2>3. ASSUME CloseSocket(e) PROVE FALSE
    <3>1. pc[e] \in {"close", "badclose"} /\ sock[e] = t[2]
      BY <1>0, <1>1, <1>2, <2>1, <2>3 DEF CloseSocket, Close, TypeOK
    <3>2. e = d
      BY <1>0, <1>1, <1>2, <3>1, OwnDescriptor DEF Live, Running, Registered
    <3>3. SessionOwned(d)
      BY DEF OwnInv
    <3> QED BY <1>1, <1>2, <1>3, <1>4, <3>1, <3>2, <3>3 DEF SessionOwned
  <2> QED BY <1>0, <1>1, <1>7, <2>1, <2>2, <2>3, HandlerKeeps
<1>8. CASE HandlerStep(c)
  <2>1. PICK u \in targets[c] : Deliver(c, u)
    BY <1>0, <1>1, <1>8
    DEF HandlerStep, Receive, HandleEof, Register, SendConnack, RecordPublish, SnapshotTargets,
        PublishDone, StoreFilter, SendSuback, SendPingresp, RemoveSession, CloseSocket
  <2>2. PICK ok \in BOOLEAN : /\ SendAll(u[2], job[c], ok)
                              /\ targets' = [targets EXCEPT ![c] = TargetsLeft(c, u, ok)]
    BY <2>1 DEF Deliver
  <2>3. targets'[c] = targets[c] \ {u} /\ UNCHANGED <<pc, table>>
    BY <1>0, <2>1, <2>2 DEF Deliver, TargetsLeft, TypeOK
  <2>4. u = t
    BY <1>1, <1>n, <2>3
  <2>5. CASE peer[d] = "here"
    <3>1. rcvd' = [rcvd EXCEPT ![d] = Append(rcvd[d], job[c])]
      BY <1>1, <1>2, <2>2, <2>4, <2>5 DEF SendAll
    <3>2. job[c] \in Messages /\ rcvd[d] \in Seq(Frames)
      BY <1>0 DEF TypeOK, Wired
    <3>3. rcvd'[d] = Append(rcvd[d], job[c])
      BY <1>0, <3>1 DEF TypeOK
    <3>4. Len(rcvd[d]) + 1 \in DOMAIN rcvd'[d] /\ rcvd'[d][Len(rcvd[d]) + 1] = job[c]
      BY <3>2, <3>3
    <3>5. Len(rcvd[d]) + 1 \in MessagesAt(d)'
      BY <3>2, <3>4, FramesApart DEF MessagesAt
    <3> QED BY <3>4, <3>5
  <2> QED BY <1>3, <2>5
<1>9. ASSUME NEW e \in Conns, NEW g \in Conns, ReadsPacket(e, g)
      PROVE  FALSE
  <2>1. UNCHANGED <<table, targets>> /\ pc[e] \in {"greeting", "wait"}
    BY <1>0, <1>9, PacketSteps
  <2>2. pc'[c] = pc[c]
    BY <1>0, <1>9, <2>1, PacketSteps
  <2> QED BY <1>1, <1>n, <2>1, <2>2
<1>10. ASSUME NEW e \in Conns, ClientConnect(e) \/ ClientClose(e) PROVE FALSE
  BY <1>1, <1>n, <1>10, ClientKeeps
<1>11. UNCHANGED <<pc, targets, table>> => FALSE
  BY <1>1, <1>n
<1> QED BY <1>5, <1>6, <1>7, <1>8, <1>9, <1>10, <1>11, Steps

(* Every subscriber route_publish() found, and that is not mixed up with       *)
(* another client, is sent the message.                                        *)
THEOREM SubscribersAreServed == Spec => RoutedIsDelivered
<1>1. OwnInv /\ [Next]_vars =>
        [\A c \in Conns, d \in Clean : Owes(c, d) /\ ~Owes(c, d)' =>
           \/ \E k \in MessagesAt(d)' : rcvd'[d][k] = job[c]
           \/ peer[d] = "gone" \/ d \in shut']_vars
  BY PaysWhatItOwes DEF Clean
<1> QED BY <1>1, ClientsAreKeptApart, PTL DEF Spec, RoutedIsDelivered
=============================================================================
