--------------------------- MODULE MqttProperties ---------------------------
(* What the MQTT broker owes its clients and the test that owns it.            *)
EXTENDS MqttBroker

IsMessage(frame) == "topic" \in DOMAIN frame
MessagesAt(d)    == {k \in DOMAIN rcvd[d] : IsMessage(rcvd[d][k])}

-----------------------------------------------------------------------------
(* Invariants of every instance: whatever ids clients choose and however the   *)
(* kernel numbers descriptors.                                                 *)

(* A connection the kernel still holds, or that was never made, has no thread. *)
BacklogIsNew ==
  \A c \in Conns : /\ peer[c] = "away" \/ c \in backlog => pc[c] = "none"
                   /\ c \in backlog => peer[c] # "away"

(* A session in sessions_ always has a handler that will still call            *)
(* remove_session() for it: its connection is the last that registered the id, *)
(* and its handler has not left.  Without this an entry outlives its threads.  *)
SessionsBacked ==
  \A i \in ClientIds : sessions[i] # None =>
    \E c \in Conns : /\ pc[c] \in Registered
                     /\ id[c] = i
                     /\ sock[c] = sessions[i].sock

(* A descriptor that names a client's connection is still the `socket` of that *)
(* connection's handler, which has yet to close it: none is leaked.            *)
DescriptorsOwned ==
  \A f \in Fds : table[f] # None =>
    Live(table[f]) /\ sock[table[f]] = f

(* A handler thread that runs is in client_thread_group_, where join_all()     *)
(* finds it; join_finished() drops only threads that are done.                 *)
LiveInGroup == \A c \in Conns : Live(c) => c \in group

(* The owner, the listener and the acceptor thread agree on the phase: there   *)
(* is an acceptor thread exactly from start() to its join, and the listening   *)
(* socket is closed before stop() waits for anyone.                            *)
PhasesAgree ==
  /\ running <=> owner = "running"
  /\ listener = "open" <=> owner \in {"running", "closing"}
  /\ listener = "closed" <=> owner = "unsetting"
  /\ acceptor = "none" <=> owner \in {"stopped", "sessions", "draining"}
  /\ listener # "open" => backlog = {}

(* When stop() has returned nothing of the broker is left: no handler thread,  *)
(* no session, no descriptor, no client the kernel holds for it.  The          *)
(* destructor relies on this: handlers capture `this`.                         *)
StoppedIsQuiescent ==
  owner = "stopped" =>
    /\ \A c \in Conns : ~Live(c)
    /\ \A i \in ClientIds : sessions[i] = None
    /\ \A f \in Fds : table[f] = None
    /\ backlog = {} /\ listener = "unset" /\ acceptor = "none"

(* The inductive invariant: what the threads agree on while stop() works its   *)
(* way to a broker of which nothing is left.                                   *)
IInv ==
  /\ TypeOK /\ BacklogIsNew /\ SessionsBacked /\ DescriptorsOwned
  /\ LiveInGroup /\ PhasesAgree /\ StoppedIsQuiescent

(* A message reaches no subscriber before messages() can show it: a test that  *)
(* has received one finds it in the history, unless it cleared that.           *)
RecordedBeforeDelivered ==
  \A d \in Conns : \A k \in MessagesAt(d) :
    rcvd[d][k] \in cleared \union {history[j] : j \in DOMAIN history}

-----------------------------------------------------------------------------
(* Guarantees to clients, whatever ids are chosen and whichever descriptor     *)
(* numbers are given out again: they are given to the clients that are not     *)
(* mixed up with another one, whatever becomes of those that are.              *)

\* The clients whose number and id stood for nobody else while they were in use.
Clean == Conns \ mixed

(* A client receives only messages whose topic matches a filter it asked for   *)
(* itself (PublishNonMatchingFilterNoDelivery, test/mqtt_server_test.cpp).    *)
DeliveredOnlyToSubscribers ==
  \A d \in Clean : \A k \in MessagesAt(d) :
    \E filter \in asked[d] : Matches(filter, rcvd[d][k].topic)

(* CONNACK is the first frame a client sees, although its session is in the    *)
(* table, where publishers find it, before CONNACK is sent.                    *)
ConnackFirst ==
  \A d \in Clean : \A k \in DOMAIN rcvd[d] : (rcvd[d][k] = Connack) <=> (k = 1)

(* A subscriber receives the messages of one publisher in the order they were  *)
(* sent and none of them twice; the history keeps that order too.              *)
FifoPerPublisher ==
  LET InOrder(s, at) == \A j, k \in at :
        j < k /\ s[j].from = s[k].from /\ s[j].from \in Clean => s[j].n < s[k].n
  IN /\ \A d \in Clean : InOrder(rcvd[d], MessagesAt(d))
     /\ InOrder(history, DOMAIN history)

(* A client is disconnected only by its own handler or by stop(): no other     *)
(* client's remove_session() or sock_close() takes its descriptor away.        *)
DisconnectedByOwnHandlerOrStop ==
  [][\A f \in Fds : table[f] \in Clean /\ table'[f] = None =>
       pc'[table[f]] # pc[table[f]] \/ owner' # owner]_vars

\* Handler c still has its message to send to connection d.
Owes(c, d) == pc[c] = "send" /\ \E t \in targets[c] : table[t[2]] = d

(* A subscriber that route_publish found is dropped from its list only with    *)
(* the message delivered, unless that client has left or is being hung up: the *)
(* lock is not held while sending, and nobody's departure eats what another    *)
(* subscriber is owed.                                                         *)
RoutedIsDelivered ==
  [][\A c \in Conns, d \in Clean : Owes(c, d) /\ ~Owes(c, d)' =>
       \/ \E k \in MessagesAt(d)' : rcvd'[d][k] = job[c]
       \/ peer[d] = "gone" \/ d \in shut']_vars

-----------------------------------------------------------------------------
(* What makes these inductive: handlers keep to their own client, its number   *)
(* and its id unless they are mixed up with another one.                       *)

Numbered(c, d) == Live(c) /\ Live(d) /\ sock[c] = sock[d]
Named(c, d)    == {c, d} \subseteq Holders(id[c])

\* Two that share a number or an id, or of which one reads from the other's
\* connection, are both mixed up.
MixedIfShared ==
  \A c, d \in Conns : c # d /\ (Numbered(c, d) \/ Named(c, d) \/ file[c] = d) =>
    {c, d} \subseteq mixed

\* A session is its client's, with filters that client asked for; a handler that
\* has lost its session has been hung up, and one that closes an open connection
\* has never served it.
SessionOwned(c) ==
  /\ pc[c] \in Registered /\ sessions[id[c]] # None =>
       sessions[id[c]].sock = sock[c] /\ sessions[id[c]].filters \subseteq asked[c]
  /\ pc[c] \in Registered \ {"badclose"} /\ table[sock[c]] # None => sessions[id[c]] # None
  /\ pc[c] = "badclose" => table[sock[c]] = None
  /\ pc[c] = "close" /\ table[sock[c]] # None => asked[c] = {}

\* Nothing is sent to a client, or asked by it, before CONNACK.
Greeted(d) ==
  /\ pc[d] \in {"none", "greet", "greeting", "register", "connack"} =>
       rcvd[d] = <<>> /\ asked[d] = {}
  /\ asked[d] # {} \/ pc[d] \in Registered \ {"connack", "remove"} =>
       rcvd[d] # <<>> \/ peer[d] = "gone"

\* A client route_publish() still has to send to asked for it, and is on the
\* list once.
TargetsAsked ==
  \A c \in Conns : \A t \in targets[c] :
    /\ pc[c] = "send"
    /\ table[t[2]] \in Clean =>
         /\ \E filter \in asked[table[t[2]]] : Matches(filter, job[c].topic)
         /\ \A u \in targets[c] : u[2] = t[2] => u = t

\* The message a handler works on is the last packet of its client.
WorksOnLast ==
  \A c \in Conns :
    /\ pc[c] \in {"record", "snapshot", "send"} =>
         /\ job[c].from # c => {c, job[c].from} \subseteq mixed
         /\ c \in Clean => job[c].n = sent[c]
    /\ c \in Clean /\ pc[c] = "subscribe" => job[c].filter \in asked[c]

\* It is not in the history before it is recorded, and at no client before it
\* is sent there.
NotYetThere ==
  /\ \A k \in DOMAIN history : LET m == history[k] IN m.from \in Clean =>
       m.n <= sent[m.from] /\ (pc[m.from] = "record" => m.n < sent[m.from])
  /\ \A d \in Clean : \A k \in MessagesAt(d) : LET m == rcvd[d][k] IN m.from \in Clean =>
       /\ m.n <= sent[m.from]
       /\ pc[m.from] \in {"record", "snapshot"} => m.n < sent[m.from]
       /\ pc[m.from] = "send" /\ m.n = sent[m.from] =>
            \A t \in targets[m.from] : table[t[2]] # d

OwnInv ==
  /\ IInv /\ MixedIfShared /\ (\A c \in Clean : SessionOwned(c) /\ Greeted(c)) /\ TargetsAsked
  /\ WorksOnLast /\ NotYetThere
  /\ DeliveredOnlyToSubscribers /\ ConnackFirst /\ FifoPerPublisher

\* A handler that waits for a packet of its client still has the descriptor, or
\* has been hung up.
WaitersReachable ==
  \A c \in Clean : pc[c] = "wait" =>
    file[c] = c /\ (table[sock[c]] = c \/ c \in shut)

(* When stop() comes to wait for the handlers, it has hung up every one that   *)
(* waits for a packet: sessions_ named them all.  (Not those that wait for     *)
(* CONNECT, which have no session, nor those mixed up with another client.)    *)
DrainingIsHungUp ==
  owner = "draining" => \A c \in Clean : pc[c] = "wait" => EndOfFile(file[c])

-----------------------------------------------------------------------------
(* Progress.  The threads of the broker are scheduled; clients do what they    *)
(* like, except where a specification says that they give up.                  *)

\* What the acceptor does by itself: no signal has to come.
AcceptorWork ==
  AcceptCheck \/ AcceptNothing \/ \E c \in Conns, f \in Fds : AcceptClient(c, f)

Fairness ==
  /\ WF_vars(AcceptorWork)
  /\ WF_vars(StopStep)
  /\ \A c \in Conns : WF_vars(HandlerStep(c))

\* A client whose CONNECT the broker has not read yet hangs up in the end.
GiveUp(c) == pc[c] \in {"greet", "greeting"} /\ ClientClose(c)

FairSpec    == Spec /\ Fairness
PatientSpec == FairSpec /\ \A c \in Conns : WF_vars(GiveUp(c))

(* stop() returns.  It can only interrupt a handler it finds in sessions_.     *)
StopReturns == (owner = "closing") ~> (owner = "stopped")

(* A client in the backlog gets its handler, unless the broker is stopped or a *)
(* signal has ended accept_loop(): then, with running_ still true, nobody is    *)
(* accepted any more.                                                          *)
AcceptedEventually ==
  \A c \in Conns : (c \in backlog) ~>
    \/ c \notin backlog /\ (Live(c) \/ ~running)
    \/ acceptor = "exited" /\ running

-----------------------------------------------------------------------------
(* The broker implements ServerLifecycle.                                      *)

Phase == CASE owner = "stopped" -> "stopped"
           [] owner = "running" -> "serving"
           [] owner \in {"closing", "unsetting", "joining"} -> "closing"
           [] owner \in {"sessions", "draining"} -> "draining"

Lifecycle == INSTANCE ServerLifecycle
               WITH Workers <- Conns, phase <- Phase,
                    working <- {c \in Conns : Live(c)}

(* start() and stop() of the broker are those of ServerLifecycle: clients are  *)
(* taken only between start() and the join of the acceptor, and stop() returns *)
(* only once every handler thread has finished.                                *)
ImplementsLifecycle == Lifecycle!Spec
=============================================================================
