----------------------------- MODULE SftpServer -----------------------------
(* sftp_server::implementation (src/sftp_server.cpp): start(), stop() and the  *)
(* registration of users by the test that owns the server, the acceptor thread *)
(* that also exchanges keys, and one thread per session, which logs the client *)
(* in and opens its channel through callbacks libssh makes while it handles    *)
(* packets, and then serves it.  What it serves is SftpRequests' subject.      *)
(*                                                                             *)
(* Sessions are addresses of ssh_session objects: session_users_ and           *)
(* handshakes_ are keyed by them, and an address that has been freed may be    *)
(* that of the next session.  A client opens one channel.  libssh is modelled  *)
(* by what this code relies on: it asks for a login before it opens a channel, *)
(* and what waits with a time limit returns.  The host key, which start()      *)
(* hands to the bind object, is left out: only the thread of the owner has it. *)
(*                                                                             *)
(* A definition marked "Faulty:" is not part of the specification: it is the   *)
(* one below it with a bug a change to the code could introduce, kept to show  *)
(* which property would notice.                                                *)
EXTENDS Naturals

CONSTANTS
  Sessions,     \* addresses ssh_new() may return
  Users,        \* names of accounts
  MaxConns,     \* bound: connections the clients make
  MaxStarts,    \* bound: calls of start()
  None          \* no session, no user, no handshake

ASSUME SessionAssumption == None \notin Sessions
ASSUME UserAssumption    == None \notin Users
ASSUME HandshakeAssumption == \A h \in SUBSET {"channel", "subsystem"} : h # None
ASSUME BoundAssumption   == MaxConns \in Nat /\ MaxStarts \in Nat

VARIABLES
  owner,        \* where the thread that calls start() and stop() is
  starts,       \* how often start() has been called
  running,      \* running_
  bind,         \* is there an ssh_bind, listening?
  acceptor,     \* where acceptor_loop() is
  guest,        \* the session in the acceptor's hands
  cb,           \* the local `cb` of the loop body of acceptor_loop(), which
                \* sessions point to: "blank" after the memset, "set", "dead"
                \* outside the iteration that has made one
  threads,      \* session_threads_: sessions whose threads nobody has joined
  backlog,      \* connections that have not been accepted
  knock,        \* has unblock_accept() connected?
  made,         \* connections made by clients so far
  peer,         \* the client of a session: "here" or "gone"
  pc,           \* where the thread of a session is; "free" is a free address
  users,        \* the names in users_
  cleared,      \* auxiliary: names clear_users() has taken out
  sessionUsers, \* session_users_
  connected,    \* conn_users_, in which a name is once
  handshakes,   \* handshakes_: what a session has asked for, or None
  channelCb,    \* is channel_callbacks_ filled in?
  ctx           \* the SftpContext of a session: its user and whether its root
                \* and rights were found, or None

ownerVars    == <<owner, starts>>
serverVars   == <<running, bind>>
acceptorVars == <<acceptor, guest, cb>>
netVars      == <<backlog, knock, made, peer>>
accountVars  == <<users, cleared>>
loginVars    == <<sessionUsers, connected>>
setupVars    == <<handshakes, channelCb, ctx>>
sessionVars  == <<pc, loginVars, setupVars>>
vars == <<ownerVars, serverVars, acceptorVars, threads, netVars, accountVars, sessionVars>>

Serving == {"serve", "read"}
Live    == {"start", "blank", "loop", "packets", "init", "lookup", "leave", "remove",
            "release"} \union Serving

TypeOK ==
  /\ owner \in {"stopped", "running", "unblocking", "joining", "draining", "clearing",
                "crashed"}
  /\ starts \in 0..MaxStarts
  /\ running \in BOOLEAN /\ bind \in BOOLEAN /\ knock \in BOOLEAN /\ channelCb \in BOOLEAN
  /\ acceptor \in {"none", "check", "accept", "blank", "kex", "exited"}
  /\ guest \in Sessions \union {None} /\ \A s \in Sessions : pc[s] = "guest" <=> guest = s
  /\ cb \in {"blank", "set", "dead"}
  /\ threads \subseteq Sessions
  /\ made \in 0..MaxConns /\ backlog \in 0..made
  /\ peer \in [Sessions -> {"here", "gone"}]
  /\ pc \in [Sessions -> {"free", "guest"} \union Live]
  /\ users \subseteq Users /\ cleared \subseteq Users /\ connected \subseteq Users
  /\ sessionUsers \in [Sessions -> Users \union {None}]
  /\ handshakes \in [Sessions -> (SUBSET {"channel", "subsystem"}) \union {None}]
  /\ ctx \in [Sessions -> [user : Users \union {None}, found : BOOLEAN] \union {None}]

Init ==
  /\ owner = "stopped" /\ starts = 0 /\ running = FALSE /\ bind = TRUE
  /\ acceptor = "none" /\ guest = None /\ cb = "dead"
  /\ threads = {} /\ backlog = 0 /\ knock = FALSE /\ made = 0
  /\ peer = [s \in Sessions |-> "gone"] /\ pc = [s \in Sessions |-> "free"]
  /\ users = {} /\ cleared = {}
  /\ sessionUsers = [s \in Sessions |-> None] /\ connected = {}
  /\ handshakes = [s \in Sessions |-> None] /\ channelCb = FALSE
  /\ ctx = [s \in Sessions |-> None]

-----------------------------------------------------------------------------
(* start() and stop().                                                         *)

Start ==
  /\ owner = "stopped" /\ starts < MaxStarts
  /\ owner' = "running" /\ starts' = starts + 1
  /\ bind' = TRUE /\ running' = TRUE /\ acceptor' = "check"
  /\ UNCHANGED <<guest, cb, threads, netVars, accountVars, sessionVars>>

\* Listening fails, or the port cannot be found out: start() throws.  When an
\* option is refused, it asks ssh_get_error() about the bind_ it has just reset,
\* which libssh does not expect: the process may not survive that.
StartFails ==
  /\ owner = "stopped" /\ starts < MaxStarts
  /\ owner' \in {"stopped", "crashed"} /\ starts' = starts + 1
  /\ bind' = FALSE
  /\ UNCHANGED <<running, acceptorVars, threads, netVars, accountVars, sessionVars>>

stopFrame == <<starts, acceptorVars, accountVars, sessionVars>>

StopBegin ==
  /\ owner = "running"
  /\ owner' = "unblocking" /\ running' = FALSE
  /\ UNCHANGED <<stopFrame, bind, threads, netVars>>

\* Faulty: nobody connects to the server to wake its acceptor.
NoKnock == UNCHANGED knock
Knock == knock' = TRUE

\* unblock_accept().
StopUnblock ==
  /\ owner = "unblocking"
  /\ owner' = "joining"
  /\ Knock
  /\ UNCHANGED <<stopFrame, serverVars, threads, backlog, made, peer>>

StopJoinAcceptor ==
  /\ owner = "joining" /\ acceptor = "exited"
  /\ owner' = "draining" /\ acceptor' = "none"
  /\ UNCHANGED <<starts, guest, cb, serverVars, threads, netVars, accountVars, sessionVars>>

\* Faulty: the threads are swapped out and forgotten.
Abandoned(s) == s \in Sessions
Joined(s) == pc[s] \notin Live

StopJoinAll ==
  /\ owner = "draining" /\ \A s \in threads : Joined(s)
  /\ owner' = "clearing" /\ threads' = {}
  /\ UNCHANGED <<stopFrame, serverVars, netVars>>

\* bind_.reset() closes the socket with who waits for it.
StopClear ==
  /\ owner = "clearing"
  /\ owner' = "stopped"
  /\ bind' = FALSE /\ backlog' = 0 /\ knock' = FALSE
  /\ connected' = {} /\ sessionUsers' = [s \in Sessions |-> None]
  /\ UNCHANGED <<starts, running, acceptorVars, threads, made, peer, accountVars, pc, setupVars>>

StopStep == StopUnblock \/ StopJoinAcceptor \/ StopJoinAll \/ StopClear

usersFrame == <<ownerVars, serverVars, acceptorVars, threads, netVars, sessionVars>>

AddUser(u) ==
  /\ owner # "crashed"
  /\ users' = users \union {u}
  /\ UNCHANGED <<usersFrame, cleared>>

ClearUsers ==
  /\ owner # "crashed"
  /\ users' = {} /\ cleared' = cleared \union users
  /\ UNCHANGED usersFrame

OwnerStep == Start \/ StartFails \/ StopBegin \/ StopStep \/ ClearUsers
               \/ \E u \in Users : AddUser(u)

-----------------------------------------------------------------------------
(* remove_session().                                                           *)

\* Faulty: the entry of session_users_ is erased, the name is not.
ForgetEntry(s) ==
  /\ sessionUsers' = [sessionUsers EXCEPT ![s] = None]
  /\ UNCHANGED connected

\* The name goes, whoever else is logged in under it.
Forget(s) ==
  /\ connected' = connected \ {sessionUsers[s]}
  /\ sessionUsers' = [sessionUsers EXCEPT ![s] = None]

-----------------------------------------------------------------------------
(* acceptor_loop().                                                            *)

acceptFrame == <<ownerVars, serverVars, accountVars>>

\* An iteration ends, and with it the life of its `cb`.
AcceptLoop(on) ==
  /\ acceptor' = IF on THEN "check" ELSE "exited"
  /\ cb' = "dead"

AcceptCheck ==
  /\ acceptor = "check"
  /\ acceptor' = IF running THEN "accept" ELSE "exited"
  /\ UNCHANGED <<acceptFrame, guest, cb, threads, netVars, sessionVars>>

\* ssh_new(), which may return any free address, ssh_bind_accept(), the second
\* look at running_ and the memset() of a new `cb`, which takes the place of the
\* one that earlier sessions still point to.
AcceptSession(s) ==
  /\ acceptor = "accept" /\ running /\ pc[s] = "free"
  /\ backlog > 0 /\ backlog' = backlog - 1
  /\ acceptor' = "blank" /\ guest' = s /\ cb' = "blank"
  /\ pc' = [pc EXCEPT ![s] = "guest"]
  /\ peer' = [peer EXCEPT ![s] = "here"]
  /\ UNCHANGED <<acceptFrame, threads, knock, made, loginVars, setupVars>>

\* ssh_bind_accept() fails, or running_ is false when it returns with a client's
\* connection or that of unblock_accept(): the session is freed again.
AcceptNobody ==
  /\ acceptor = "accept"
  /\ \/ backlog > 0 /\ backlog' = backlog - 1 /\ UNCHANGED knock
     \/ knock /\ knock' = FALSE /\ UNCHANGED backlog
  /\ AcceptLoop(running)
  /\ UNCHANGED <<acceptFrame, guest, threads, made, peer, sessionVars>>

\* ssh_set_server_callbacks(): the guest points to `cb`.
AcceptRegisters ==
  /\ acceptor = "blank"
  /\ acceptor' = "kex" /\ cb' = "set"
  /\ UNCHANGED <<acceptFrame, guest, threads, netVars, sessionVars>>

\* session_threads_ keeps the thread until stop().
Kept == threads' = threads \union {guest}

KeyExchanged ==
  /\ acceptor = "kex" /\ peer[guest] = "here"
  /\ Kept
  /\ pc' = [pc EXCEPT ![guest] = "start"]
  /\ guest' = None
  /\ AcceptLoop(TRUE)
  /\ UNCHANGED <<acceptFrame, netVars, loginVars, setupVars>>

\* Faulty: ssh_free() is forgotten.
Leak == guest' = None /\ UNCHANGED <<pc, peer>>
\* The guest is freed: no thread has been told of it.
Dismiss ==
  /\ guest' = None
  /\ pc' = [pc EXCEPT ![guest] = "free"]
  /\ peer' = [peer EXCEPT ![guest] = "gone"]

\* The client leaves, fails or says nothing: ssh_handle_key_exchange() waits
\* for a limited time.
KexFails ==
  /\ acceptor = "kex"
  /\ Forget(guest)
  /\ Dismiss
  /\ AcceptLoop(running)
  /\ UNCHANGED <<acceptFrame, threads, backlog, knock, made, setupVars>>

AcceptorStep ==
  \/ AcceptCheck \/ AcceptNobody \/ AcceptRegisters \/ KeyExchanged \/ KexFails
  \/ \E s \in Sessions : AcceptSession(s)

-----------------------------------------------------------------------------
(* handle_session_after_auth(), which in spite of its name also runs the login. *)

threadFrame == <<ownerVars, serverVars, acceptorVars, threads, netVars, accountVars>>

Goto(s, place) == pc' = [pc EXCEPT ![s] = place]

\* make_hs(): emplace() keeps what may be there; the memset() of
\* channel_callbacks_, which every session uses.
MakeHandshake(s) ==
  /\ pc[s] = "start"
  /\ handshakes' = [handshakes EXCEPT ![s] = IF @ = None THEN {} ELSE @]
  /\ channelCb' = FALSE
  /\ Goto(s, "blank")
  /\ UNCHANGED <<threadFrame, loginVars, ctx>>

SetCallbacks(s) ==
  /\ pc[s] = "blank"
  /\ channelCb' = TRUE
  /\ Goto(s, "loop")
  /\ UNCHANGED <<threadFrame, loginVars, handshakes, ctx>>

EnterPackets(s) ==
  /\ pc[s] = "loop"
  /\ Goto(s, IF running THEN "packets" ELSE "leave")
  /\ UNCHANGED <<threadFrame, loginVars, setupVars>>

Asks(s) == pc[s] = "packets" /\ peer[s] = "here"

\* on_auth_password(), check_auth().  The session points to where its `cb` was:
\* nothing is called back through a blank one, and through a dead one what its
\* place on the acceptor's stack still holds, if anything.
Auth(s, u) ==
  /\ Asks(s) /\ cb # "blank"
  /\ sessionUsers[s] = None /\ u \in users
  /\ sessionUsers' = [sessionUsers EXCEPT ![s] = u]
  /\ connected' = connected \union {u}
  /\ UNCHANGED <<threadFrame, pc, setupVars>>

\* on_channel_open_session().
OpenChannel(s) ==
  /\ Asks(s) /\ cb # "blank"
  /\ sessionUsers[s] # None /\ handshakes[s] = {}
  /\ handshakes' = [handshakes EXCEPT ![s] = {"channel"}]
  /\ UNCHANGED <<threadFrame, pc, loginVars, channelCb, ctx>>

\* on_channel_subsystem().
Subsystem(s) ==
  /\ Asks(s) /\ channelCb
  /\ handshakes[s] = {"channel"}
  /\ handshakes' = [handshakes EXCEPT ![s] = @ \union {"subsystem"}]
  /\ UNCHANGED <<threadFrame, pc, loginVars, channelCb, ctx>>

\* ssh_handle_packets() returns, at the latest when its time is up.
PacketsReturn(s) ==
  /\ pc[s] = "packets"
  /\ Goto(s, IF handshakes[s] = {"channel", "subsystem"} THEN "init" ELSE "loop")
  /\ UNCHANGED <<threadFrame, loginVars, setupVars>>

\* ssh_handle_packets(), sftp_server_init() and the reads of process_sftp()
\* fail when the client has gone.
ClientLost(s) ==
  /\ pc[s] \in {"packets", "init", "serve", "read"} /\ peer[s] = "gone"
  /\ Goto(s, "leave")
  /\ UNCHANGED <<threadFrame, loginVars, setupVars>>

\* sftp_server_init() has read what the client begins with, for which it waits
\* as long as it takes; or the client begins with something else.
InitDone(s) ==
  /\ pc[s] = "init" /\ peer[s] = "here"
  /\ \E place \in {"lookup", "leave"} : Goto(s, place)
  /\ UNCHANGED <<threadFrame, loginVars, setupVars>>

\* Faulty: lookup_user() takes a name from conn_users_.
LookedUpAmongListed(s) == IF connected = {} THEN None ELSE CHOOSE u \in connected : TRUE
LookedUp(s) == sessionUsers[s]

\* lookup_user(): without the account the session keeps its name, an empty root
\* and no right.
Lookup(s) ==
  /\ pc[s] = "lookup"
  /\ ctx' = [ctx EXCEPT ![s] = [user |-> LookedUp(s), found |-> LookedUp(s) \in users]]
  /\ Goto(s, "serve")
  /\ UNCHANGED <<threadFrame, loginVars, handshakes, channelCb>>

\* process_sftp() looks at running_ at least every 100 ms.
Serve(s) ==
  /\ pc[s] = "serve" /\ ~running
  /\ Goto(s, "leave")
  /\ UNCHANGED <<threadFrame, loginVars, setupVars>>

\* Data, which may be the beginning of a message that takes long to come, or the
\* end of the channel.
Data(s) ==
  /\ pc[s] = "serve" /\ running /\ peer[s] = "here"
  /\ \E place \in {"read", "leave"} : Goto(s, place)
  /\ UNCHANGED <<threadFrame, loginVars, setupVars>>

\* A message is complete, read and answered (SftpRequests).
Request(s) ==
  /\ pc[s] = "read" /\ peer[s] = "here"
  /\ Goto(s, "serve")
  /\ UNCHANGED <<threadFrame, loginVars, setupVars>>

\* Faulty: remove_hs() is forgotten.
KeepHandshake(s) == s \in Sessions /\ UNCHANGED handshakes
RemoveHandshake(s) == handshakes' = [handshakes EXCEPT ![s] = None]

Leave(s) ==
  /\ pc[s] = "leave"
  /\ RemoveHandshake(s)
  /\ Goto(s, "remove")
  /\ UNCHANGED <<threadFrame, loginVars, channelCb, ctx>>

RemoveSession(s) ==
  /\ pc[s] = "remove"
  /\ Forget(s)
  /\ Goto(s, "release")
  /\ UNCHANGED <<threadFrame, setupVars>>

\* ssh_free(), and the end of the thread with its locals.
Release(s) ==
  /\ pc[s] = "release"
  /\ Goto(s, "free")
  /\ peer' = [peer EXCEPT ![s] = "gone"]
  /\ ctx' = [ctx EXCEPT ![s] = None]
  /\ UNCHANGED <<ownerVars, serverVars, acceptorVars, threads, backlog, knock, made,
                 accountVars, loginVars, handshakes, channelCb>>

\* What the thread of a session does without its client.
ThreadStep(s) ==
  \/ MakeHandshake(s) \/ SetCallbacks(s) \/ EnterPackets(s) \/ PacketsReturn(s)
  \/ ClientLost(s) \/ Lookup(s) \/ Serve(s)
  \/ Leave(s) \/ RemoveSession(s) \/ Release(s)

\* What it does when its client has sent something.
MessageStep(s) ==
  \/ OpenChannel(s) \/ Subsystem(s) \/ InitDone(s) \/ Data(s) \/ Request(s)
  \/ \E u \in Users : Auth(s, u)

-----------------------------------------------------------------------------
(* The clients.                                                                *)

ClientConnect ==
  /\ bind /\ owner # "stopped" /\ made < MaxConns
  /\ made' = made + 1 /\ backlog' = backlog + 1
  /\ UNCHANGED <<acceptFrame, acceptorVars, threads, knock, peer, sessionVars>>

ClientClose(s) ==
  /\ peer[s] = "here"
  /\ peer' = [peer EXCEPT ![s] = "gone"]
  /\ UNCHANGED <<acceptFrame, acceptorVars, threads, backlog, knock, made, sessionVars>>

-----------------------------------------------------------------------------
Next ==
  \/ OwnerStep \/ AcceptorStep \/ ClientConnect
  \/ \E s \in Sessions : ThreadStep(s) \/ MessageStep(s) \/ ClientClose(s)

Spec == Init /\ [][Next]_vars
=============================================================================
