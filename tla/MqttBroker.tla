----------------------------- MODULE MqttBroker -----------------------------
(* mqtt_server::implementation (src/mqtt_server.cpp) with the thread_group of  *)
(* detail/thread_utils.h: the owner's start() and stop(), the acceptor thread, *)
(* one handler thread per client, the session table behind sessions_mtx_, the  *)
(* message history behind history_mtx_, and as much of the kernel's sockets as *)
(* the code depends on: descriptor numbers that are given out again after      *)
(* close(), a recv() that keeps hold of the connection it was called on, and   *)
(* shutdown() that wakes it.                                                   *)
(*                                                                             *)
(* A section under a mutex is one action; everything between two sections, and *)
(* every call that touches a socket, is an action of its own.                  *)
(*                                                                             *)
(* A definition marked "Faulty:" is not part of the specification: it is the   *)
(* one below it with a bug a change to the code could introduce, kept to show  *)
(* which property would notice.                                                *)
EXTENDS TopicFilter, FiniteSets

CONSTANTS
  Conns,        \* TCP connections; a client program opens each at most once
  Fds,          \* descriptor numbers the process has left for clients
  ClientIds,    \* MQTT client ids
  IdOf,         \* the id a connection gives in its CONNECT ("anon-.." included)
  Topics,       \* topics clients publish to,  as sequences of segments
  Filters,      \* filters clients ask for,    as sequences of segments
  MaxPackets,   \* bound: packets sent on each connection, CONNECT included
  MaxStarts,    \* bound: calls of start()
  MayClear,     \* does the test call clear_messages()?
  Reuse,        \* may the kernel give a closed descriptor number out again?
  Signals,      \* may a signal interrupt select() with EINTR?
  Fortify,      \* does FD_SET(-1) abort, as in a _FORTIFY_SOURCE build?
  None          \* no descriptor, no connection, no message, ...

ASSUME ConnAssumption   == IsFiniteSet(Conns) /\ None \notin Conns
ASSUME FdAssumption     == None \notin Fds
ASSUME IdAssumption     == IdOf \in [Conns -> ClientIds] /\ None \notin ClientIds
ASSUME FilterAssumption == None \notin Filters
ASSUME BoundAssumption  == MaxPackets \in [Conns -> Nat] /\ MaxStarts \in Nat
ASSUME FlagAssumption   == {MayClear, Reuse, Signals, Fortify} \subseteq BOOLEAN

VARIABLES
  owner,        \* where the thread that calls start() and stop() is
  running,      \* running_
  listener,     \* listen_sock_: "open", "closed" (number kept) or "unset" (-1)
  acceptor,     \* where accept_loop() is
  starts,       \* how often start() has been called
  group,        \* client_thread_group_: handlers not yet joined
  peer,         \* the client's end of a connection: "away", "here", "gone"
  backlog,      \* connections the kernel completed and nobody accepted yet
  table,        \* the process's descriptor table: number -> connection or None
  shut,         \* connections that shutdown() was called on
  sent,         \* packets sent by the client so far
  rcvd,         \* frames that reached the client, in order
  pc,           \* where the handler of a connection is
  sock,         \* the handler's `socket`, a descriptor number
  file,         \* the connection the handler's current recv() is bound to
  id,           \* the handler's `client_id`
  job,          \* the packet the handler works on, or the frame it will send
  targets,      \* route_publish's `targets`: <<id, descriptor>> pairs
  sessions,     \* sessions_: id -> [sock, filters] or None
  history,      \* history_
  asked,        \* auxiliary: filters in the SUBSCRIBEs a connection has sent
  mixed,        \* auxiliary: connections whose descriptor number or client id
                \*   stood for another one while somebody still used it
  cleared       \* auxiliary: messages clear_messages() has dropped

ownerVars   == <<owner, starts>>
serverVars  == <<running, listener>>
netVars     == <<peer, backlog, table, shut, rcvd>>
clientVars  == <<sent, asked, mixed>>
threadVars  == <<sock, file, id, job, targets>>
recordVars  == <<history, cleared>>
vars == <<ownerVars, serverVars, acceptor, group, netVars, clientVars, pc,
          threadVars, sessions, recordVars>>

-----------------------------------------------------------------------------
(* The data.                                                                   *)

\* A published message: who sent it, as which of its packets, to what topic.
Messages == [from : Conns, n : Nat, topic : Topics]

\* A decoded SUBSCRIBE, and its SUBACK with one return code per filter stored.
Requests == [filter : Filters]
Subacks  == [codes : 0..1]
Connack  == [kind |-> "connack"]
Pingresp == [kind |-> "pingresp"]
Frames   == {Connack, Pingresp} \union Subacks \union Messages

Sessions == [sock : Fds, filters : SUBSET Filters]

ASSUME SessionAssumption == None \notin Sessions

\* The handler threads that exist, and those that are between registering their
\* session and leaving through remove_session().
Registered == {"connack", "loop", "wait", "record", "snapshot", "send",
               "subscribe", "suback", "ping", "badsub", "badclose", "remove"}
Running    == {"greet", "greeting", "register", "close"} \union Registered
Live(c)    == pc[c] \in Running

\* What a handler holds at each place of its code.
Wired(c) ==
  /\ pc[c] # "none" => sock[c] \in Fds
  /\ pc[c] \in Registered \union {"register"} => id[c] \in ClientIds
  /\ pc[c] \in {"greeting", "wait"} => file[c] \in Conns
  /\ pc[c] \in {"record", "snapshot", "send"} => job[c] \in Messages
  /\ pc[c] = "subscribe" => job[c] \in Requests
  /\ pc[c] = "suback" => job[c] \in Subacks

TypeOK ==
  /\ owner \in {"stopped", "running", "closing", "unsetting", "joining",
                "sessions", "draining"}
  /\ running \in BOOLEAN
  /\ listener \in {"open", "closed", "unset"}
  /\ acceptor \in {"none", "check", "select", "exited", "aborted"}
  /\ starts \in 0..MaxStarts
  /\ group \subseteq Conns
  /\ peer \in [Conns -> {"away", "here", "gone"}]
  /\ backlog \subseteq Conns
  /\ table \in [Fds -> Conns \union {None}]
  /\ shut \subseteq Conns
  /\ sent \in [Conns -> Nat]
  /\ rcvd \in [Conns -> Seq(Frames)]
  /\ pc \in [Conns -> Running \union {"none", "exited"}]
  /\ sock \in [Conns -> Fds \union {None}]
  /\ file \in [Conns -> Conns \union {None}]
  /\ id \in [Conns -> ClientIds \union {None}]
  /\ job \in [Conns -> Messages \union Requests \union Subacks \union {None}]
  /\ targets \in [Conns -> SUBSET (ClientIds \X Fds)]
  /\ sessions \in [ClientIds -> Sessions \union {None}]
  /\ history \in Seq(Messages)
  /\ asked \in [Conns -> SUBSET Filters]
  /\ mixed \subseteq Conns
  /\ cleared \subseteq Messages
  /\ \A c \in Conns : Wired(c)

Init ==
  /\ owner = "stopped" /\ running = FALSE /\ listener = "unset"
  /\ acceptor = "none" /\ starts = 0 /\ group = {}
  /\ peer = [c \in Conns |-> "away"] /\ backlog = {}
  /\ table = [f \in Fds |-> None] /\ shut = {}
  /\ sent = [c \in Conns |-> 0] /\ rcvd = [c \in Conns |-> <<>>]
  /\ pc = [c \in Conns |-> "none"]
  /\ sock = [c \in Conns |-> None] /\ file = [c \in Conns |-> None]
  /\ id = [c \in Conns |-> None] /\ job = [c \in Conns |-> None]
  /\ targets = [c \in Conns |-> {}]
  /\ sessions = [i \in ClientIds |-> None]
  /\ history = <<>>
  /\ asked = [c \in Conns |-> {}] /\ mixed = {} /\ cleared = {}

-----------------------------------------------------------------------------
(* The kernel.                                                                 *)

\* Faulty: without the shutdown().
JustClose(fds) ==
  /\ UNCHANGED shut
  /\ table' = [f \in Fds |-> IF f \in fds THEN None ELSE table[f]]

\* sock_shutdown() and sock_close() of a set of descriptors: whatever
\* connections these numbers stand for now, a closed number being ignored.
HangUp(fds) ==
  /\ shut' = shut \union {c \in Conns : \E f \in fds : table[f] = c}
  /\ table' = [f \in Fds |-> IF f \in fds THEN None ELSE table[f]]

\* Faulty: the descriptor is left open.
Leak(f) == f \in Fds /\ UNCHANGED table

\* sock_close() alone does not wake a recv() another thread is blocked in.
Close(f) == table' = [table EXCEPT ![f] = None]

\* send_all() of a small frame to a descriptor, and what it returns.  A closed
\* number fails; a client that is gone may or may not be noticed.
SendAll(f, frame, ok) ==
  LET d == table[f] IN
  \/ d = None /\ ~ok /\ UNCHANGED rcvd
  \/ d # None /\ peer[d] = "here" /\ ok /\ rcvd' = [rcvd EXCEPT ![d] = Append(@, frame)]
  \/ d # None /\ peer[d] # "here" /\ UNCHANGED rcvd

\* recv() takes hold of the connection the number stands for when it is called.
BindRecv(c) == file' = [file EXCEPT ![c] = table[sock[c]]]

\* It returns 0 once that connection is shut down at either end.
EndOfFile(d) == d \in shut \/ peer[d] = "gone"

Goto(c, label) == pc' = [pc EXCEPT ![c] = label]

-----------------------------------------------------------------------------
(* The owner: start() and stop(), called from one thread.                      *)

\* Every error path of start() throws and leaves the server stopped.
Start ==
  /\ owner = "stopped" /\ starts < MaxStarts
  /\ owner' = "running" /\ starts' = starts + 1
  /\ listener' = "open" /\ running' = TRUE /\ acceptor' = "check"
  /\ UNCHANGED <<group, netVars, clientVars, pc, threadVars, sessions, recordVars>>

\* stop() of a stopped server returns at once.
StopAgain == owner = "stopped" /\ UNCHANGED vars

StopBegin ==
  /\ owner = "running"
  /\ owner' = "closing" /\ running' = FALSE
  /\ UNCHANGED <<starts, listener, acceptor, group, netVars, clientVars, pc,
                 threadVars, sessions, recordVars>>

\* sock_close(listen_sock_): the kernel resets whoever was not accepted yet.
StopCloseListener ==
  /\ owner = "closing"
  /\ owner' = "unsetting" /\ listener' = "closed" /\ backlog' = {}
  /\ peer' = [c \in Conns |-> IF c \in backlog THEN "gone" ELSE peer[c]]
  /\ UNCHANGED <<starts, running, acceptor, group, table, shut, rcvd, clientVars,
                 pc, threadVars, sessions, recordVars>>

\* listen_sock_ = kInvalidSock, unsynchronised with the acceptor's reads of it.
StopUnsetListener ==
  /\ owner = "unsetting"
  /\ owner' = "joining" /\ listener' = "unset"
  /\ UNCHANGED <<starts, running, acceptor, group, netVars, clientVars, pc,
                 threadVars, sessions, recordVars>>

StopJoinAcceptor ==
  /\ owner = "joining" /\ acceptor = "exited"
  /\ owner' = "sessions" /\ acceptor' = "none"
  /\ UNCHANGED <<starts, serverVars, group, netVars, clientVars, pc, threadVars,
                 sessions, recordVars>>

\* The sockets that sessions_ knows of are hung up, and it is cleared.
StopCloseSessions ==
  /\ owner = "sessions"
  /\ owner' = "draining"
  /\ HangUp({f \in Fds : \E i \in ClientIds : sessions[i] # None /\ sessions[i].sock = f})
  /\ sessions' = [i \in ClientIds |-> None]
  /\ UNCHANGED <<starts, serverVars, acceptor, group, peer, backlog, rcvd,
                 clientVars, pc, threadVars, recordVars>>

\* Faulty: the threads are detached.
NoneToWaitFor == TRUE
AllDone == \A c \in group : pc[c] = "exited"

\* thread_group::join_all
StopJoinAll ==
  /\ owner = "draining" /\ AllDone
  /\ owner' = "stopped" /\ group' = {}
  /\ UNCHANGED <<starts, serverVars, acceptor, netVars, clientVars, pc, threadVars,
                 sessions, recordVars>>

\* clear_messages(), from any thread of the test.
ClearMessages ==
  /\ MayClear /\ history # <<>>
  /\ history' = <<>>
  /\ cleared' = cleared \union {history[k] : k \in DOMAIN history}
  /\ UNCHANGED <<ownerVars, serverVars, acceptor, group, netVars, clientVars, pc,
                 threadVars, sessions>>

StopStep == \/ StopCloseListener \/ StopUnsetListener \/ StopJoinAcceptor
            \/ StopCloseSessions \/ StopJoinAll

-----------------------------------------------------------------------------
(* The acceptor thread: accept_loop().                                         *)

acceptorFrame == <<ownerVars, serverVars, sent, asked, sessions, recordVars>>

\* while (running_.load())
AcceptCheck ==
  /\ acceptor = "check"
  /\ acceptor' = IF running THEN "select" ELSE "exited"
  /\ UNCHANGED <<acceptorFrame, mixed, group, netVars, pc, threadVars>>

\* thread_group::join_finished
Unfinished == {c \in group : pc[c] # "exited"}

\* Auxiliary: a descriptor number that is given out again while other handlers
\* still have it as their `socket` mixes up their clients and the new one; one
\* that is still on a publisher's list of targets, the new client.
StillHave(f)   == {e \in Conns : Live(e) /\ sock[e] = f}
StillTarget(f) == \E e \in Conns : \E t \in targets[e] : t[2] = f
MixedNumber(c, f) ==
  StillHave(f) \union {e \in {c} : StillHave(f) # {} \/ StillTarget(f)}

\* Faulty: join_all() in place of join_finished().
AcceptAlone(c, f) ==
  /\ acceptor = "select" /\ listener = "open"
  /\ c \in backlog /\ Unfinished = {}
  /\ table[f] = None
  /\ Reuse \/ \A d \in Conns : sock[d] # f
  /\ acceptor' = "check"
  /\ backlog' = backlog \ {c}
  /\ table' = [table EXCEPT ![f] = c]
  /\ sock' = [sock EXCEPT ![c] = f]
  /\ Goto(c, "greet")
  /\ group' = {c}
  /\ mixed' = mixed \union MixedNumber(c, f)
  /\ UNCHANGED <<acceptorFrame, peer, shut, rcvd, file, id, job, targets>>

\* select() has a client waiting for which accept() gets a descriptor; the client
\* gets a handler thread in client_thread_group_, and join_finished() drops the
\* threads that are done.  The acceptor alone changes the group meanwhile.
AcceptClient(c, f) ==
  /\ acceptor = "select" /\ listener = "open"
  /\ c \in backlog
  /\ table[f] = None
  /\ Reuse \/ \A d \in Conns : sock[d] # f
  /\ acceptor' = "check"
  /\ backlog' = backlog \ {c}
  /\ table' = [table EXCEPT ![f] = c]
  /\ sock' = [sock EXCEPT ![c] = f]
  /\ Goto(c, "greet")
  /\ group' = Unfinished \union {c}
  /\ mixed' = mixed \union MixedNumber(c, f)
  /\ UNCHANGED <<acceptorFrame, peer, shut, rcvd, file, id, job, targets>>

\* Or its second passes, or accept() fails for want of a descriptor or because
\* stop() has just closed the listener: the loop goes on.
AcceptNothing ==
  /\ acceptor = "select"
  /\ listener # "open" \/ backlog = {} \/ \A f \in Fds : table[f] # None
  /\ acceptor' = "check"
  /\ UNCHANGED <<acceptorFrame, mixed, group, netVars, pc, threadVars>>

\* Or it fails, on a number stop() has closed or because of a signal: the thread
\* ends, whatever running_ says.
AcceptBreaks ==
  /\ acceptor = "select"
  /\ listener = "closed" \/ Signals
  /\ acceptor' = "exited"
  /\ UNCHANGED <<acceptorFrame, mixed, group, netVars, pc, threadVars>>

\* FD_SET(-1) is undefined: a fortified build aborts; in others it sets a bit
\* select() does not look at, which is AcceptNothing.
AcceptAborts ==
  /\ acceptor = "select" /\ listener = "unset" /\ Fortify
  /\ acceptor' = "aborted"
  /\ UNCHANGED <<acceptorFrame, mixed, group, netVars, pc, threadVars>>

AcceptorStep ==
  \/ AcceptCheck \/ AcceptNothing \/ AcceptBreaks \/ AcceptAborts
  \/ \E c \in Conns, f \in Fds : AcceptClient(c, f)

-----------------------------------------------------------------------------
(* A handler thread: client_handler().                                         *)

handlerFrame == <<ownerVars, serverVars, acceptor, group, peer, backlog, clientVars>>

\* The first recv_exact(), or the first thing the loop does while running_.
\* A closed number makes recv() fail at once.
Receive(c) ==
  /\ \/ /\ pc[c] = "greet"
        /\ Goto(c, IF table[sock[c]] = None THEN "close" ELSE "greeting")
        /\ BindRecv(c)
     \/ /\ pc[c] = "loop" /\ running
        /\ Goto(c, IF table[sock[c]] = None THEN "remove" ELSE "wait")
        /\ BindRecv(c)
     \/ /\ pc[c] = "loop" /\ ~running
        /\ Goto(c, "remove")
        /\ UNCHANGED file
  /\ UNCHANGED <<handlerFrame, table, shut, rcvd, sock, id, job, targets,
                 sessions, recordVars>>

\* recv() reports the end of the stream, perhaps in the middle of a packet.
HandleEof(c) ==
  /\ \/ pc[c] = "greeting" /\ Goto(c, "close")
     \/ pc[c] = "wait" /\ Goto(c, "remove")
  /\ EndOfFile(file[c])
  /\ file' = [file EXCEPT ![c] = None]
  /\ UNCHANGED <<handlerFrame, table, shut, rcvd, sock, id, job, targets,
                 sessions, recordVars>>

NewSession(c) == [sock |-> sock[c], filters |-> {}]

\* Faulty: the client is served without a CONNACK.
RegisterSilently(c) ==
  /\ pc[c] = "register"
  /\ sessions' = [sessions EXCEPT ![id[c]] = NewSession(c)]
  /\ Goto(c, "loop")
  /\ UNCHANGED <<handlerFrame, table, shut, rcvd, threadVars, recordVars>>

\* sessions_[client_id] = session{client_id, socket, {}}, whoever had that id.
Register(c) ==
  /\ pc[c] = "register"
  /\ sessions' = [sessions EXCEPT ![id[c]] = NewSession(c)]
  /\ Goto(c, "connack")
  /\ UNCHANGED <<handlerFrame, table, shut, rcvd, threadVars, recordVars>>

SendConnack(c) ==
  /\ pc[c] = "connack"
  /\ \E ok \in BOOLEAN : /\ SendAll(sock[c], Connack, ok)
                         /\ Goto(c, IF ok THEN "loop" ELSE "remove")
  /\ UNCHANGED <<handlerFrame, table, shut, threadVars, sessions, recordVars>>

\* Faulty: an equal message is taken out, and the new one is not put in.
Unrecorded(message) == SelectSeq(history, LAMBDA m : m # message)
Recorded(message) == Append(history, message)

\* handle_publish: the message is recorded, then routed.
RecordPublish(c) ==
  /\ pc[c] = "record"
  /\ history' = Recorded(job[c])
  /\ Goto(c, "snapshot")
  /\ UNCHANGED <<handlerFrame, table, shut, rcvd, threadVars, sessions, cleared>>

\* Faulty: whoever has a session.
AnySubscribers(topic) ==
  {<<i, sessions[i].sock>> : i \in {j \in ClientIds : sessions[j] # None}}

\* route_publish copies the sockets of the matching sessions under the lock ...
Subscribers(topic) ==
  {<<i, sessions[i].sock>> : i \in {j \in ClientIds : /\ sessions[j] # None
      /\ \E filter \in sessions[j].filters : Matches(filter, topic)}}

SnapshotTargets(c) ==
  /\ pc[c] = "snapshot"
  /\ targets' = [targets EXCEPT ![c] = Subscribers(job[c].topic)]
  /\ Goto(c, "send")
  /\ UNCHANGED <<handlerFrame, table, shut, rcvd, sock, file, id, job, sessions,
                 recordVars>>

\* Faulty: a target that was served stays in the list ...
ServedStays(c, t, ok) == IF ok THEN targets[c] ELSE targets[c] \ {t}
\* ... or the loop ends with the first send that fails.
UntilFailure(c, t, ok) == IF ok THEN targets[c] \ {t} ELSE {}
TargetsLeft(c, t, ok) == targets[c] \ {t}

\* Faulty: the publisher's handler closes a subscriber it cannot send to.
DeliverOrDrop(c, t) ==
  /\ pc[c] = "send" /\ t \in targets[c]
  /\ \E ok \in BOOLEAN :
       /\ SendAll(t[2], job[c], ok)
       /\ targets' = [targets EXCEPT ![c] = TargetsLeft(c, t, ok)]
       /\ IF ok THEN UNCHANGED table ELSE Close(t[2])
  /\ UNCHANGED <<handlerFrame, shut, pc, sock, file, id, job, sessions, recordVars>>

\* ... and sends to them without it, in the order of ids nobody here chose.
Deliver(c, t) ==
  /\ pc[c] = "send" /\ t \in targets[c]
  /\ \E ok \in BOOLEAN :
       /\ SendAll(t[2], job[c], ok)
       /\ targets' = [targets EXCEPT ![c] = TargetsLeft(c, t, ok)]
  /\ UNCHANGED <<handlerFrame, table, shut, pc, sock, file, id, job, sessions,
                 recordVars>>

PublishDone(c) ==
  /\ pc[c] = "send" /\ targets[c] = {}
  /\ job' = [job EXCEPT ![c] = None]
  /\ Goto(c, "loop")
  /\ UNCHANGED <<handlerFrame, table, shut, rcvd, sock, file, id, targets, sessions,
                 recordVars>>

FindsSession(c) == sessions[id[c]] # None

\* handle_subscribe: the filter joins the session of this id, if there is one.
StoreFilter(c) ==
  /\ pc[c] = "subscribe"
  /\ IF FindsSession(c)
     THEN /\ sessions' = [sessions EXCEPT ![id[c]].filters = @ \union {job[c].filter}]
          /\ job' = [job EXCEPT ![c] = [codes |-> 1]]
     ELSE /\ job' = [job EXCEPT ![c] = [codes |-> 0]]
          /\ UNCHANGED sessions
  /\ Goto(c, "suback")
  /\ UNCHANGED <<handlerFrame, table, shut, rcvd, sock, file, id, targets, recordVars>>

SendSuback(c) ==
  /\ pc[c] = "suback"
  /\ \E ok \in BOOLEAN : SendAll(sock[c], job[c], ok)
  /\ job' = [job EXCEPT ![c] = None]
  /\ Goto(c, "loop")
  /\ UNCHANGED <<handlerFrame, table, shut, sock, file, id, targets, sessions,
                 recordVars>>

SendPingresp(c) ==
  /\ pc[c] = "ping"
  /\ \E ok \in BOOLEAN : SendAll(sock[c], Pingresp, ok)
  /\ Goto(c, "loop")
  /\ UNCHANGED <<handlerFrame, table, shut, threadVars, sessions, recordVars>>

\* Faulty: the entry stays.
NoneErased(i) == [sessions EXCEPT ![i] = @]
Erased(i) == [sessions EXCEPT ![i] = None]

\* remove_session(client_id): the entry of that id is hung up and erased, even
\* if another connection has taken the id over.  Called on the way out, and by
\* handle_subscribe for a malformed packet, after which the loop goes on.
RemoveSession(c) ==
  /\ pc[c] \in {"remove", "badsub"}
  /\ HangUp(IF sessions[id[c]] = None THEN {} ELSE {sessions[id[c]].sock})
  /\ sessions' = Erased(id[c])
  /\ Goto(c, IF pc[c] = "remove" THEN "close" ELSE "badclose")
  /\ UNCHANGED <<handlerFrame, rcvd, threadVars, recordVars>>

\* sock_close(socket), once more.
CloseSocket(c) ==
  /\ pc[c] \in {"close", "badclose"}
  /\ Close(sock[c])
  /\ Goto(c, IF pc[c] = "close" THEN "exited" ELSE "loop")
  /\ UNCHANGED <<handlerFrame, shut, rcvd, threadVars, sessions, recordVars>>

HandlerStep(c) ==
  \/ Receive(c) \/ HandleEof(c) \/ Register(c) \/ SendConnack(c)
  \/ RecordPublish(c) \/ SnapshotTargets(c) \/ PublishDone(c)
  \/ StoreFilter(c) \/ SendSuback(c) \/ SendPingresp(c)
  \/ RemoveSession(c) \/ CloseSocket(c)
  \/ \E t \in targets[c] : Deliver(c, t)

-----------------------------------------------------------------------------
(* The clients.  What a packet says is chosen when the handler has read all of *)
(* it; what it has not sent yet it need never send.                            *)

clientFrame == <<ownerVars, serverVars, acceptor, group, backlog, table, shut, rcvd,
                 sock, targets, sessions, recordVars>>

\* Handler c has read the next packet of the connection d its recv() holds.
Packet(c, d) ==
  /\ d = file[c] /\ sent[d] < MaxPackets[d]
  /\ sent' = [sent EXCEPT ![d] = @ + 1]
  /\ file' = [file EXCEPT ![c] = None]

\* Auxiliary: so does a client id that a handler takes while others have it.
Holders(i)    == {e \in Conns : pc[e] \in Registered \union {"register"} /\ id[e] = i}
MixedId(c, i) == Holders(i) \union {e \in {c} : Holders(i) # {}}

GivenId(d) == IdOf[d]

\* The first packet must be a CONNECT that decode_connect() accepts.
GreetPacket(c, d) ==
  /\ pc[c] = "greeting" /\ Packet(c, d)
  /\ \/ /\ Goto(c, "register")
        /\ id' = [id EXCEPT ![c] = GivenId(d)]
        /\ mixed' = mixed \union MixedId(c, GivenId(d))
     \/ Goto(c, "close") /\ UNCHANGED <<id, mixed>>
  /\ UNCHANGED <<clientFrame, peer, job, asked>>

PublishPacket(c, d, topic) ==
  /\ pc[c] = "wait" /\ Packet(c, d)
  /\ job' = [job EXCEPT ![c] = [from |-> d, n |-> sent[d] + 1, topic |-> topic]]
  /\ Goto(c, "record")
  /\ UNCHANGED <<clientFrame, peer, id, asked, mixed>>

SubscribePacket(c, d, filter) ==
  /\ pc[c] = "wait" /\ Packet(c, d)
  /\ job' = [job EXCEPT ![c] = [filter |-> filter]]
  /\ asked' = [asked EXCEPT ![d] = @ \union {filter}]
  /\ Goto(c, "subscribe")
  /\ UNCHANGED <<clientFrame, peer, id, mixed>>

\* PINGREQ; a malformed SUBSCRIBE; DISCONNECT or an unknown type; a malformed
\* PUBLISH, which handle_publish ignores.
OtherPacket(c, d) ==
  /\ pc[c] = "wait" /\ Packet(c, d)
  /\ \E label \in {"ping", "badsub", "remove", "loop"} : Goto(c, label)
  /\ UNCHANGED <<clientFrame, peer, id, job, asked, mixed>>

\* connect() succeeds as soon as the kernel has queued the connection.
ClientConnect(c) ==
  /\ peer[c] = "away" /\ listener = "open"
  /\ peer' = [peer EXCEPT ![c] = "here"]
  /\ backlog' = backlog \union {c}
  /\ UNCHANGED <<ownerVars, serverVars, acceptor, group, table, shut, rcvd,
                 clientVars, pc, threadVars, sessions, recordVars>>

ClientClose(c) ==
  /\ peer[c] = "here"
  /\ peer' = [peer EXCEPT ![c] = "gone"]
  /\ UNCHANGED <<ownerVars, serverVars, acceptor, group, backlog, table, shut, rcvd,
                 clientVars, pc, threadVars, sessions, recordVars>>

ClientStep ==
  \/ \E c \in Conns : ClientConnect(c) \/ ClientClose(c)
  \/ \E c, d \in Conns : \/ GreetPacket(c, d) \/ OtherPacket(c, d)
                         \/ \E topic \in Topics : PublishPacket(c, d, topic)
                         \/ \E filter \in Filters : SubscribePacket(c, d, filter)

-----------------------------------------------------------------------------
\* abort() in the acceptor ends every thread of the process.
Next ==
  /\ acceptor # "aborted"
  /\ \/ Start \/ StopAgain \/ StopBegin \/ StopStep \/ ClearMessages
     \/ AcceptorStep
     \/ \E c \in Conns : HandlerStep(c)
     \/ ClientStep

Spec == Init /\ [][Next]_vars
=============================================================================
