----------------------------- MODULE FtpServer -----------------------------
(* ftp_server::implementation (src/ftp_server.cpp) with the thread_group of    *)
(* detail/thread_utils.h: the owner's start() and stop(), the acceptor thread, *)
(* one thread per client that runs client_loop(), the list clients_ behind     *)
(* clients_mtx_, the registered users behind users_mtx_, the set conn_users_   *)
(* behind conn_mtx_, the passive-mode data connections, and the files below    *)
(* temp_root() as far as two sessions can meet in one.                         *)
(*                                                                             *)
(* client->sock and client->data_sock are written by the client's own thread   *)
(* and, without a lock they share, by stop() and the acceptor: every use of    *)
(* them is a step.  A descriptor number is not given out again while a thread  *)
(* may still use the old one (MqttBroker is about what happens when it is).    *)
(* Accounts have the root "/"; where a path leads is FtpPath's subject, here   *)
(* None stands for an argument that is empty or that resolve() refuses.        *)
(*                                                                             *)
(* A definition marked "Faulty:" is not part of the specification: it is the   *)
(* one below it with a bug a change to the code could introduce, kept to show  *)
(* which property would notice.                                                *)
EXTENDS Naturals, Sequences, FiniteSets

CONSTANTS
  Conns,        \* control connections; a client program opens each at most once
  Users,        \* names of accounts
  Anonymous,    \* the name of the account add_anonymous_user() makes
  Logins,       \* the names the client of a connection gives in USER
  Grants,       \* what a test may register a name with: sets of rights
  Files,        \* entries of the directory clients work in
  Commands,     \* bound: the commands the client of a connection may send as its
                \* first, second ... command, a sequence of sets
  MaxStarts,    \* bound: calls of start()
  UsersChange,  \* does the test register and clear users while the server runs?
  Signals,      \* may a signal interrupt select() with EINTR?
  None          \* no user, no file, no connection

Rights    == {"read", "write"}
Transfers == {"LIST", "RETR", "STOR"}

ASSUME ConnAssumption    == IsFiniteSet(Conns) /\ None \notin Conns
ASSUME UserAssumption    == None \notin Users /\ Anonymous # None
ASSUME LoginAssumption   == Logins \in [Conns -> SUBSET Users]
ASSUME GrantAssumption   == Grants \in [Users -> SUBSET SUBSET Rights]
ASSUME FileAssumption    == None \notin Files /\ "no argument" \notin Files \union {None}
ASSUME CommandAssumption ==
  Commands \in [Conns -> Seq(SUBSET (Transfers \union
    {"USER", "PASS", "INFO", "NOOP", "PASV", "DELE", "MKD", "RMD", "CWD", "QUIT"}))]
ASSUME BoundAssumption   == MaxStarts \in Nat
ASSUME FlagAssumption    == {UsersChange, Signals} \subseteq BOOLEAN

VARIABLES
  owner,        \* where the thread that calls start() and stop() is
  starts,       \* how often start() has been called
  running,      \* running_
  listener,     \* is ctrl_ a listening socket?
  acceptor,     \* where accept_loop() is
  guest,        \* the client accept_loop() has accepted and not started yet
  group,        \* client_thread_group_: threads not yet joined
  clients,      \* clients_
  users,        \* users_: name -> rights, None for a name not registered
  connected,    \* conn_users_
  peer,         \* the client's end of a connection: "away", "here", "gone"
  backlog,      \* connections the kernel completed and nobody accepted yet
  pc,           \* where the thread of a connection is
  sock,         \* client->sock: "none" before accept(), "open", "closed" (-1),
                \* "stale" while its thread has closed the number and not written -1
  user,         \* client->user
  auth,         \* client->auth
  perm,         \* client->perm
  transfer,     \* the transfer the thread is in: [op, file] or None
  passive,      \* client->data_sock: "none", "open", "stale" as above, or "held"
                \* when its number is closed but a blocked accept() keeps the
                \* socket alive
  data,         \* the data connection: "none", "queued" in that socket's
                \* backlog, or "open" between the client and the thread
  done,         \* connections whose client keeps nobody waiting: it has taken all
                \* it is sent, or has closed its data connection
  sent,         \* commands the client has sent so far
  last,         \* the code of the last reply that reached the client
  store,        \* the entries: "absent", "dir", or a file that is "partial"
                \* while one STOR writes it, "mixed" after two, "whole"
  \* Auxiliary: read by properties only.
  again,        \* connections a number of which has been closed a second time
  late,         \* connections that opened a data socket after the sweep that
                \* took them off clients_
  cut           \* connections the last STOR of which lost a part of the file

ownerVars    == <<owner, starts>>
serverVars   == <<running, listener>>
acceptorVars == <<acceptor, guest>>
dataVars     == <<passive, data, done, late>>
sockVars     == <<sock, again>>
fileVars     == <<store, cut>>
loginVars    == <<user, auth, perm>>
netVars      == <<peer, backlog>>
clientVars   == <<sent, last>>
vars == <<ownerVars, serverVars, acceptorVars, group, clients, users, connected,
          netVars, pc, sockVars, loginVars, transfer, dataVars, clientVars, fileVars>>

-----------------------------------------------------------------------------
Codes     == {150, 200, 220, 221, 226, 227, 230, 250, 257, 331, 425, 501, 503, 530, 550}

NoArgument == "no argument"
Arguments  == Files \union {None, NoArgument}
Jobs       == [op : Transfers, file : Arguments]

ASSUME NoneAssumption == None \notin Codes /\ None \notin Jobs

Places    == {"loop", "recv", "lines", "hangup", "unpasv", "bind", "pasv", "accept",
              "accepting", "accepted", "send", "open", "storing", "complete",
              "leave", "remove"}
Live(c)   == pc[c] \in Places

TypeOK ==
  /\ owner \in {"stopped", "running", "sweeping", "joining", "draining"}
  /\ starts \in 0..MaxStarts
  /\ running \in BOOLEAN
  /\ listener \in BOOLEAN
  /\ acceptor \in {"none", "check", "select", "push", "spawn",
                   "unlisten", "sweep", "exited"}
  /\ guest \in Conns \union {None}
  /\ acceptor \in {"push", "spawn"} <=> guest # None
  /\ group \subseteq Conns
  /\ clients \subseteq Conns
  /\ users \in [Users -> (SUBSET Rights) \union {None}]
  /\ connected \subseteq Users
  /\ peer \in [Conns -> {"away", "here", "gone"}]
  /\ backlog \subseteq Conns
  /\ pc \in [Conns -> Places \union {"none", "exited"}]
  /\ sock \in [Conns -> {"none", "open", "stale", "closed"}]
  /\ user \in [Conns -> Users \union {None}]
  /\ auth \in [Conns -> BOOLEAN]
  /\ perm \in [Conns -> SUBSET Rights]
  /\ transfer \in [Conns -> Jobs \union {None}]
  /\ passive \in [Conns -> {"none", "open", "stale", "held"}]
  /\ data \in [Conns -> {"none", "queued", "open"}]
  /\ done \subseteq Conns
  /\ sent \in [Conns -> Nat]
  /\ last \in [Conns -> Codes \union {None}]
  /\ store \in [Files -> {"absent", "dir", "partial", "mixed", "whole"}]
  /\ again \subseteq Conns /\ late \subseteq Conns /\ cut \subseteq Conns

Init ==
  /\ owner = "stopped" /\ starts = 0 /\ running = FALSE /\ listener = FALSE
  /\ acceptor = "none" /\ guest = None /\ group = {} /\ clients = {}
  /\ users = [u \in Users |-> None] /\ connected = {}
  /\ peer = [c \in Conns |-> "away"] /\ backlog = {}
  /\ pc = [c \in Conns |-> "none"] /\ sock = [c \in Conns |-> "none"]
  /\ user = [c \in Conns |-> None] /\ auth = [c \in Conns |-> FALSE]
  /\ perm = [c \in Conns |-> {}] /\ transfer = [c \in Conns |-> None]
  /\ passive = [c \in Conns |-> "none"] /\ data = [c \in Conns |-> "none"]
  /\ done = {}
  /\ sent = [c \in Conns |-> 0] /\ last = [c \in Conns |-> None]
  /\ store = [f \in Files |-> "absent"]
  /\ again = {} /\ late = {} /\ cut = {}

-----------------------------------------------------------------------------
(* What several operations share.                                              *)

Goto(c, label) == pc' = [pc EXCEPT ![c] = label]

\* ftp_send(client->sock, ...): nothing is sent on a closed socket.
Reply(c, code) ==
  last' = IF sock[c] = "open" /\ peer[c] = "here" THEN [last EXCEPT ![c] = code]
                                                  ELSE last

\* What a close_pasv() that another thread runs leaves of the data socket of a
\* client: close() does not wake an accept() its thread is blocked in.
Unlistened(c) == IF passive[c] # "none" /\ pc[c] = "accepting" THEN "held" ELSE "none"

\* A client whose connection was not accepted when its socket went away.
Reset(c) == data[c] = "queued" /\ Unlistened(c) = "none"

\* close_pasv() of some clients, in the thread that sweeps them.
ClosePasv(C) ==
  /\ passive' = [c \in Conns |-> IF c \in C THEN Unlistened(c) ELSE passive[c]]
  /\ data' = [c \in Conns |-> IF c \in C /\ Reset(c) THEN "none" ELSE data[c]]
  /\ UNCHANGED <<done, late>>

\* A number its own thread has closed, and not overwritten yet, is closed again.
ClosesAgain(C) == {c \in C : "stale" \in {sock[c], passive[c]}}

\* Faulty: the data socket is left to whoever opened it.
CloseControlOnly(C) ==
  /\ sock' = [c \in Conns |-> IF c \in C THEN "closed" ELSE sock[c]]
  /\ UNCHANGED <<again, dataVars>>

\* close_client() of some clients under clients_mtx_: the control sockets, shut
\* down first, which wakes their recv(), then the data sockets.
CloseClients(C) ==
  /\ sock' = [c \in Conns |-> IF c \in C THEN "closed" ELSE sock[c]]
  /\ again' = again \union ClosesAgain(C)
  /\ ClosePasv(C)

\* A client's own thread takes no lock: it closes the number of its data socket,
\* if it finds one, and writes -1 in a later step (Overwritten).
CloseOwnPasv(c) ==
  /\ passive' = [passive EXCEPT ![c] = IF @ = "none" THEN "none" ELSE "stale"]
  /\ data' = [data EXCEPT ![c] = "none"]
  /\ UNCHANGED <<done, late>>

\* Faulty: the number stays in client->data_sock.
NotOverwritten(c) == passive[c]
Overwritten(c) == IF passive[c] = "stale" THEN "none" ELSE passive[c]

-----------------------------------------------------------------------------
(* The owner: start(), stop(), and the registration of users.                  *)

sessionVars == <<pc, loginVars, transfer, clientVars, fileVars>>

\* Every error path of start() throws and leaves the server stopped.
Start ==
  /\ owner = "stopped" /\ starts < MaxStarts
  /\ owner' = "running" /\ starts' = starts + 1
  /\ running' = TRUE /\ listener' = TRUE /\ acceptor' = "check"
  /\ UNCHANGED <<guest, group, clients, users, connected, netVars, sockVars, dataVars,
                 sessionVars>>

\* stop() of a stopped server returns at once.
StopAgain == owner = "stopped" /\ UNCHANGED vars

StopBegin ==
  /\ owner = "running"
  /\ owner' = "sweeping" /\ running' = FALSE
  /\ UNCHANGED <<starts, listener, acceptorVars, group, clients, users, connected,
                 netVars, sockVars, dataVars, sessionVars>>

\* Under clients_mtx_: every client in clients_ is closed, the list cleared.
StopSweep ==
  /\ owner = "sweeping"
  /\ owner' = "joining"
  /\ CloseClients(clients) /\ clients' = {}
  /\ UNCHANGED <<starts, serverVars, acceptorVars, group, users, connected, netVars,
                 sessionVars>>

StopJoinAcceptor ==
  /\ owner = "joining" /\ acceptor = "exited"
  /\ owner' = "draining" /\ acceptor' = "none"
  /\ UNCHANGED <<starts, serverVars, guest, group, clients, users, connected,
                 netVars, sockVars, dataVars, sessionVars>>

\* Faulty: the threads are detached.
NoneToWaitFor == TRUE
AllDone == \A c \in group : pc[c] = "exited"

\* thread_group::join_all
StopJoinAll ==
  /\ owner = "draining" /\ AllDone
  /\ owner' = "stopped" /\ group' = {}
  /\ UNCHANGED <<starts, serverVars, acceptorVars, clients, users, connected,
                 netVars, sockVars, dataVars, sessionVars>>

StopStep == StopSweep \/ StopJoinAcceptor \/ StopJoinAll

usersFrame == <<ownerVars, serverVars, acceptorVars, group, clients, connected,
                netVars, sockVars, dataVars, sessionVars>>

\* add_user() replaces what a name had, add_anonymous_user() appends an entry
\* that is found only if it is the first.  From any thread of the test.
AddUser(u, rights) ==
  /\ owner = "stopped" \/ UsersChange
  /\ users' = [users EXCEPT ![u] = IF u = Anonymous /\ @ # None THEN @ ELSE rights]
  /\ UNCHANGED usersFrame

ClearUsers ==
  /\ UsersChange
  /\ users' = [u \in Users |-> None]
  /\ UNCHANGED usersFrame

OwnerStep ==
  \/ Start \/ StopAgain \/ StopBegin \/ StopStep \/ ClearUsers
  \/ \E u \in Users : \E rights \in Grants[u] : AddUser(u, rights)

-----------------------------------------------------------------------------
(* The acceptor thread: accept_loop().                                         *)

acceptorFrame == <<ownerVars, running, users, connected, loginVars, transfer, sent,
                   fileVars>>

\* while (running_.load())
AcceptCheck ==
  /\ acceptor = "check"
  /\ acceptor' = IF running THEN "select" ELSE "unlisten"
  /\ UNCHANGED <<acceptorFrame, listener, guest, group, clients, netVars, pc, sockVars,
                 dataVars, last>>

AcceptClient(c) ==
  /\ acceptor = "select" /\ c \in backlog
  /\ acceptor' = "push" /\ guest' = c
  /\ backlog' = backlog \ {c}
  /\ sock' = [sock EXCEPT ![c] = "open"]
  /\ UNCHANGED <<acceptorFrame, listener, group, clients, peer, pc, again, dataVars,
                 last>>

\* A second passes without a client.
AcceptNothing ==
  /\ acceptor = "select" /\ backlog = {}
  /\ acceptor' = "check"
  /\ UNCHANGED <<acceptorFrame, listener, guest, group, clients, netVars, pc, sockVars,
                 dataVars, last>>

\* select() fails because of a signal: the loop ends, whatever running_ says.
AcceptBreaks ==
  /\ acceptor = "select" /\ Signals
  /\ acceptor' = "unlisten"
  /\ UNCHANGED <<acceptorFrame, listener, guest, group, clients, netVars, pc, sockVars,
                 dataVars, last>>

\* Faulty: the client is never entered in clients_.
NotListed(c) == c \in Conns /\ UNCHANGED clients
\* clients_.push_back(client), under clients_mtx_.
Listed(c) == clients' = clients \union {c}

AcceptPush ==
  /\ acceptor = "push"
  /\ acceptor' = "spawn"
  /\ Listed(guest)
  /\ UNCHANGED <<acceptorFrame, listener, guest, group, netVars, pc, sockVars, dataVars,
                 last>>

\* thread_group::join_finished
Unfinished == {c \in group : pc[c] # "exited"}

\* The client is greeted and gets its thread.
AcceptSpawn ==
  /\ acceptor = "spawn"
  /\ acceptor' = "check" /\ guest' = None
  /\ Reply(guest, 220)
  /\ Goto(guest, "loop")
  /\ group' = Unfinished \union {guest}
  /\ UNCHANGED <<acceptorFrame, listener, clients, netVars, sockVars, dataVars>>

\* The acceptor closes ctrl_ itself; the kernel resets whoever still waits.
AcceptUnlisten ==
  /\ acceptor = "unlisten"
  /\ acceptor' = "sweep" /\ listener' = FALSE
  /\ backlog' = {}
  /\ peer' = [c \in Conns |-> IF c \in backlog THEN "gone" ELSE peer[c]]
  /\ UNCHANGED <<acceptorFrame, guest, group, clients, pc, sockVars, dataVars, last>>

\* Faulty: the acceptor leaves the clients to stop().
LeaveClients ==
  /\ acceptor = "sweep"
  /\ acceptor' = "exited"
  /\ UNCHANGED <<acceptorFrame, listener, guest, group, clients, netVars, pc, sockVars,
                 dataVars, last>>

\* ... and closes, once more, every client in clients_: those it took after
\* stop() had swept them.
AcceptSweep ==
  /\ acceptor = "sweep"
  /\ acceptor' = "exited"
  /\ CloseClients(clients) /\ clients' = {}
  /\ UNCHANGED <<acceptorFrame, listener, guest, group, netVars, pc, last>>

AcceptorStep ==
  \/ AcceptCheck \/ AcceptNothing \/ AcceptBreaks \/ AcceptPush \/ AcceptSpawn
  \/ AcceptUnlisten \/ AcceptSweep
  \/ \E c \in Conns : AcceptClient(c)

-----------------------------------------------------------------------------
(* A client's thread: client_loop() and dispatch().                            *)

threadFrame == <<ownerVars, serverVars, acceptorVars, group, netVars>>

\* `partial` holds no further complete line, if the thread has been round the
\* loop; while (!done->load() && client->sock != kInvalidSock)
NextRecv(c) ==
  /\ pc[c] \in {"loop", "lines"}
  /\ Goto(c, IF sock[c] = "open" THEN "recv" ELSE "leave")
  /\ UNCHANGED <<threadFrame, clients, users, connected, sockVars, loginVars, transfer,
                 dataVars, clientVars, fileVars>>

\* recv() returns 0 or an error: either end has shut the connection down.
RecvEnds(c) ==
  /\ pc[c] = "recv" /\ (sock[c] = "closed" \/ peer[c] = "gone")
  /\ Goto(c, "leave")
  /\ UNCHANGED <<threadFrame, clients, users, connected, sockVars, loginVars, transfer,
                 dataVars, clientVars, fileVars>>

\* The thread has a line to dispatch: from recv(), or because the client sent
\* several at once, which are all dispatched, whatever became of client->sock.
Line(c, cmd) ==
  /\ pc[c] \in {"recv", "lines"}
  /\ sent[c] < Len(Commands[c])
  /\ cmd \in Commands[c][sent[c] + 1]
  /\ sent' = [sent EXCEPT ![c] = @ + 1]

\* require_auth(), require_perm() and the checks of the argument, which only LIST
\* and CWD can do without: the code a command is refused with, or None.
Refusal(c, cmd, rights, file) ==
  IF ~auth[c] THEN 530
  ELSE IF ~(rights \subseteq perm[c]) THEN 550
  ELSE IF file = NoArgument /\ cmd \in {"RETR", "STOR", "DELE", "MKD", "RMD"} THEN 501
  ELSE IF file = None THEN 550 ELSE None

commandFrame == <<threadFrame, clients, users>>

\* USER: the anonymous user is logged in at once, whoever it was before; a name
\* that is registered is noted, also when the client has logged in already.
UserCmd(c, u) ==
  /\ Line(c, "USER") /\ u \in Logins[c]
  /\ Goto(c, "lines")
  /\ \/ /\ users[u] = None
        /\ Reply(c, 530)
        /\ UNCHANGED <<connected, loginVars>>
     \/ /\ users[u] # None /\ u = Anonymous
        /\ user' = [user EXCEPT ![c] = u]
        /\ auth' = [auth EXCEPT ![c] = TRUE]
        /\ perm' = [perm EXCEPT ![c] = users[u]]
        /\ connected' = connected \union {u}
        /\ Reply(c, 230)
     \/ /\ users[u] # None /\ u # Anonymous
        /\ user' = [user EXCEPT ![c] = u]
        /\ Reply(c, 331)
        /\ UNCHANGED <<connected, auth, perm>>
  /\ UNCHANGED <<commandFrame, sockVars, transfer, dataVars, fileVars>>

\* Faulty: the login is not recorded.
NotTracked(u) == u \in Users /\ UNCHANGED connected
\* conn_users_.insert(user.name), under conn_mtx_.
Tracked(u) == connected' = connected \union {u}

\* PASS: the account is looked up again, it may be gone by now.
PassCmd(c) ==
  /\ Line(c, "PASS")
  /\ Goto(c, "lines")
  /\ \/ auth[c] /\ Reply(c, 230) /\ UNCHANGED <<connected, loginVars>>
     \/ ~auth[c] /\ user[c] = None /\ Reply(c, 503) /\ UNCHANGED <<connected, loginVars>>
     \/ /\ ~auth[c] /\ user[c] # None /\ users[user[c]] # None
        /\ auth' = [auth EXCEPT ![c] = TRUE]
        /\ perm' = [perm EXCEPT ![c] = users[user[c]]]
        /\ Tracked(user[c])
        /\ Reply(c, 230)
        /\ UNCHANGED user
     \/ \* wrong password, or the user has been cleared
        ~auth[c] /\ user[c] # None /\ Reply(c, 530) /\ UNCHANGED <<connected, loginVars>>
  /\ UNCHANGED <<commandFrame, sockVars, transfer, dataVars, fileVars>>

\* NOOP and FEAT, and what is not a command, are answered and that is all.
NoopCmd(c) ==
  /\ Line(c, "NOOP")
  /\ Goto(c, "lines")
  /\ Reply(c, 200)
  /\ UNCHANGED <<commandFrame, connected, sockVars, loginVars, transfer, dataVars, fileVars>>

\* SYST, PWD and TYPE of a session; CWD and CDUP, which change client->cwd.
SessionCmd(c, cmd, rights) ==
  /\ Line(c, cmd)
  /\ Goto(c, "lines")
  /\ LET refusal == Refusal(c, cmd, rights, NoArgument) IN
     Reply(c, IF refusal # None THEN refusal ELSE IF cmd = "CWD" THEN 250 ELSE 200)
  /\ UNCHANGED <<commandFrame, connected, sockVars, loginVars, transfer, dataVars, fileVars>>

\* PASV: close_pasv() of the data socket there was ...
PasvCmd(c) ==
  /\ Line(c, "PASV")
  /\ \/ ~auth[c] /\ Reply(c, 530) /\ Goto(c, "lines") /\ UNCHANGED dataVars
     \/ auth[c] /\ CloseOwnPasv(c) /\ Goto(c, "bind") /\ UNCHANGED last
  /\ UNCHANGED <<commandFrame, connected, sockVars, loginVars, transfer, fileVars>>

\* ... and a new one, if the system has one to give, whoever has swept the client
\* meanwhile.
PasvBind(c) ==
  /\ pc[c] = "bind"
  /\ \/ /\ passive' = [passive EXCEPT ![c] = "none"]
        /\ Reply(c, 425) /\ Goto(c, "lines")
        /\ UNCHANGED <<done, late>>
     \/ /\ passive' = [passive EXCEPT ![c] = "open"]
        /\ done' = done \ {c}
        /\ late' = IF c \in clients THEN late ELSE late \union {c}
        /\ Goto(c, "pasv")
        /\ UNCHANGED last
  /\ UNCHANGED <<commandFrame, connected, sockVars, loginVars, transfer, data, sent,
                 fileVars>>

PasvReply(c) ==
  /\ pc[c] = "pasv"
  /\ Reply(c, 227)
  /\ Goto(c, "lines")
  /\ UNCHANGED <<commandFrame, connected, sockVars, loginVars, transfer, dataVars, sent,
                 fileVars>>

\* Faulty: QUIT only says goodbye.
QuitKeepsSocket(c) ==
  /\ Line(c, "QUIT")
  /\ Reply(c, 221)
  /\ Goto(c, "lines")
  /\ UNCHANGED <<commandFrame, connected, sockVars, loginVars, transfer, dataVars, fileVars>>

\* QUIT runs close_client() without clients_mtx_: the control socket is closed,
QuitCmd(c) ==
  /\ Line(c, "QUIT")
  /\ Reply(c, 221)
  /\ sock' = [sock EXCEPT ![c] = IF @ = "open" THEN "stale" ELSE @]
  /\ Goto(c, "hangup")
  /\ UNCHANGED <<commandFrame, connected, again, loginVars, transfer, dataVars, fileVars>>

\* Faulty: its number stays in client->sock.
SocketKept(c) == c \in Conns /\ UNCHANGED sock
SocketForgotten(c) == sock' = [sock EXCEPT ![c] = "closed"]

\* its number overwritten, the data socket closed,
QuitHangsUp(c) ==
  /\ pc[c] = "hangup"
  /\ SocketForgotten(c)
  /\ CloseOwnPasv(c)
  /\ Goto(c, IF passive[c] = "none" THEN "lines" ELSE "unpasv")
  /\ UNCHANGED <<commandFrame, connected, again, loginVars, transfer, clientVars, fileVars>>

\* and its number overwritten.
QuitDone(c) ==
  /\ pc[c] = "unpasv"
  /\ passive' = [passive EXCEPT ![c] = Overwritten(c)]
  /\ Goto(c, "lines")
  /\ UNCHANGED <<commandFrame, connected, sockVars, loginVars, transfer, data, done, late,
                 clientVars, fileVars>>

-----------------------------------------------------------------------------
(* Transfers: LIST, RETR and STOR over a passive data connection.              *)

Needed(op) == IF op = "STOR" THEN {"write"} ELSE {"read"}

\* 150 is sent before the data connection is there.
TransferCmd(c, op, file) ==
  /\ Line(c, op)
  /\ LET refusal == Refusal(c, op, Needed(op), file) IN
     \/ refusal # None /\ Reply(c, refusal) /\ Goto(c, "lines") /\ UNCHANGED transfer
     \/ /\ refusal = None /\ Reply(c, 150) /\ Goto(c, "accept")
        /\ transfer' = [transfer EXCEPT ![c] = [op |-> op, file |-> file]]
  /\ UNCHANGED <<commandFrame, connected, sockVars, loginVars, dataVars, fileVars>>

\* accept_data(): without a data socket there is none to wait for ...
BeginAccept(c) ==
  /\ pc[c] = "accept"
  /\ IF passive[c] = "none"
     THEN Reply(c, 425) /\ Goto(c, "lines") /\ transfer' = [transfer EXCEPT ![c] = None]
     ELSE Goto(c, "accepting") /\ UNCHANGED <<last, transfer>>
  /\ UNCHANGED <<commandFrame, connected, sockVars, loginVars, dataVars, sent, fileVars>>

\* ... and with one, accept() waits for the client, for as long as it takes,
DataAccepted(c) ==
  /\ pc[c] = "accepting" /\ data[c] = "queued"
  /\ data' = [data EXCEPT ![c] = "open"]
  /\ passive' = [passive EXCEPT ![c] = IF @ = "held" THEN "none" ELSE "stale"]
  /\ Goto(c, "accepted")
  /\ UNCHANGED <<commandFrame, connected, sockVars, loginVars, transfer, done, late,
                 clientVars, fileVars>>

\* or fails: a signal, no descriptor left.
AcceptFails(c) ==
  /\ pc[c] = "accepting"
  /\ data' = [data EXCEPT ![c] = "none"]
  /\ passive' = [passive EXCEPT ![c] = IF @ = "held" THEN "none" ELSE "stale"]
  /\ Goto(c, "accepted")
  /\ UNCHANGED <<commandFrame, connected, sockVars, loginVars, transfer, done, late,
                 clientVars, fileVars>>

\* Either way the data socket is used up.
AcceptDone(c) ==
  /\ pc[c] = "accepted"
  /\ passive' = [passive EXCEPT ![c] = Overwritten(c)]
  /\ IF data[c] = "open"
     THEN /\ Goto(c, IF transfer[c].op = "STOR" THEN "open" ELSE "send")
          /\ UNCHANGED <<last, transfer>>
     ELSE Reply(c, 425) /\ Goto(c, "lines") /\ transfer' = [transfer EXCEPT ![c] = None]
  /\ UNCHANGED <<commandFrame, connected, sockVars, loginVars, data, done, late, sent,
                 fileVars>>

\* LIST and RETR send what there is, which waits for the client to take what the
\* socket has no room for or to close, and close; a directory reads as empty.
SendData(c) ==
  /\ pc[c] = "send"
  /\ LET absent == transfer[c].op = "RETR" /\ store[transfer[c].file] = "absent" IN
     /\ absent \/ c \in done
     /\ IF absent
        THEN Reply(c, 550) /\ Goto(c, "lines") /\ transfer' = [transfer EXCEPT ![c] = None]
        ELSE Goto(c, "complete") /\ UNCHANGED <<last, transfer>>
  /\ data' = [data EXCEPT ![c] = "none"]
  /\ UNCHANGED <<commandFrame, connected, sockVars, loginVars, passive, done, late, sent,
                 fileVars>>

\* The threads that have a file open for writing that is still in the directory.
Writers(file) == {c \in Conns : pc[c] = "storing" /\ transfer[c].file = file}

\* STOR truncates the file as it opens it.
OpenFile(c) ==
  /\ pc[c] = "open"
  /\ LET file == transfer[c].file IN
     IF store[file] = "dir"
     THEN /\ data' = [data EXCEPT ![c] = "none"]
          /\ Reply(c, 550) /\ Goto(c, "lines")
          /\ transfer' = [transfer EXCEPT ![c] = None]
          /\ UNCHANGED fileVars
     ELSE /\ cut' = cut \ {c}
          /\ store' = [store EXCEPT ![file] = IF Writers(file) = {} THEN "partial"
                                                                    ELSE "mixed"]
          /\ Goto(c, "storing")
          /\ UNCHANGED <<data, last, transfer>>
  /\ UNCHANGED <<commandFrame, connected, sockVars, loginVars, passive, done, late, sent>>

\* Faulty: the reply does not wait for output.close().
Unflushed(c) == c \in Conns /\ UNCHANGED store
\* output.close() writes the rest of the file, unless it has been deleted.
Flushed(c) ==
  store' = [f \in Files |-> IF f = transfer[c].file /\ store[f] = "partial"
                            THEN "whole" ELSE store[f]]

\* The client has closed the data connection and all it sent is in the file.
DataEnds(c) ==
  /\ pc[c] = "storing" /\ c \in done
  /\ Flushed(c)
  /\ data' = [data EXCEPT ![c] = "none"]
  /\ Goto(c, "complete")
  /\ UNCHANGED <<commandFrame, connected, sockVars, loginVars, transfer, passive, done,
                 late, clientVars, cut>>

\* Or it is not: the loop ends as well when recv() fails, because the client has
\* reset the connection or a signal came, and nobody looks at what became of
\* output.write() and output.close().
DataLost(c) ==
  /\ pc[c] = "storing"
  /\ c \in done \/ Signals
  /\ cut' = cut \union {c}
  /\ data' = [data EXCEPT ![c] = "none"]
  /\ Goto(c, "complete")
  /\ UNCHANGED <<commandFrame, connected, sockVars, loginVars, transfer, passive, done,
                 late, clientVars, store>>

TransferComplete(c) ==
  /\ pc[c] = "complete"
  /\ Reply(c, 226)
  /\ transfer' = [transfer EXCEPT ![c] = None]
  /\ Goto(c, "lines")
  /\ UNCHANGED <<commandFrame, connected, sockVars, loginVars, dataVars, sent, fileVars>>

-----------------------------------------------------------------------------
(* DELE, MKD and RMD: one system call each.  A file deleted under a STOR goes   *)
(* on being written, under no name.                                            *)

Possible(cmd, file) ==
  /\ file \in Files
  /\ \/ cmd = "DELE" /\ store[file] \in {"partial", "mixed", "whole"}
     \/ cmd = "MKD" /\ store[file] = "absent"
     \/ cmd = "RMD" /\ store[file] = "dir"

FileCmd(c, cmd, file) ==
  /\ Line(c, cmd)
  /\ Goto(c, "lines")
  /\ LET refusal == Refusal(c, cmd, {"write"}, file) IN
     \/ /\ refusal # None \/ ~Possible(cmd, file)
        /\ Reply(c, IF refusal # None THEN refusal ELSE 550)
        /\ UNCHANGED <<fileVars, transfer>>
     \/ /\ refusal = None /\ Possible(cmd, file)
        /\ Reply(c, IF cmd = "MKD" THEN 257 ELSE 250)
        /\ store' = [store EXCEPT ![file] = IF cmd = "MKD" THEN "dir" ELSE "absent"]
        /\ UNCHANGED cut
        /\ transfer' = [d \in Conns |-> IF d \in Writers(file)
                                        THEN [transfer[d] EXCEPT !.file = None]
                                        ELSE transfer[d]]
  /\ UNCHANGED <<commandFrame, connected, sockVars, loginVars, dataVars>>

-----------------------------------------------------------------------------
(* The end of a session.                                                       *)

\* Faulty: the name stays in conn_users_.
Remembered(c) == c \in Conns /\ UNCHANGED connected
\* conn_users_.erase(client->user), whoever else logged in under that name.
Forgotten(c) == connected' = IF auth[c] THEN connected \ {user[c]} ELSE connected

LeaveSession(c) ==
  /\ pc[c] = "leave"
  /\ Forgotten(c)
  /\ Goto(c, "remove")
  /\ UNCHANGED <<commandFrame, sockVars, loginVars, transfer, dataVars, clientVars, fileVars>>

\* remove_client(), under clients_mtx_: a client that stop() or the acceptor has
\* taken off the list is left as it is.
RemoveClient(c) ==
  /\ pc[c] = "remove"
  /\ CloseClients(IF c \in clients THEN {c} ELSE {})
  /\ clients' = clients \ {c}
  /\ Goto(c, "exited")
  /\ UNCHANGED <<threadFrame, users, connected, loginVars, transfer, clientVars, fileVars>>

HandlerStep(c) ==
  \/ NextRecv(c) \/ RecvEnds(c) \/ PasvBind(c) \/ PasvReply(c) \/ QuitHangsUp(c)
  \/ QuitDone(c) \/ BeginAccept(c) \/ DataAccepted(c) \/ AcceptDone(c) \/ SendData(c)
  \/ OpenFile(c) \/ DataEnds(c) \/ TransferComplete(c) \/ LeaveSession(c)
  \/ RemoveClient(c)

\* What no thread can count on.
HandlerFails(c) == AcceptFails(c) \/ DataLost(c)

CommandStep(c) ==
  \/ \E u \in Users : UserCmd(c, u)
  \/ PassCmd(c) \/ NoopCmd(c) \/ SessionCmd(c, "INFO", {}) \/ SessionCmd(c, "CWD", {"read"})
  \/ PasvCmd(c) \/ QuitCmd(c)
  \/ \E file \in Arguments :
       \/ \E op \in Transfers : TransferCmd(c, op, file)
       \/ \E cmd \in {"DELE", "MKD", "RMD"} : FileCmd(c, cmd, file)

-----------------------------------------------------------------------------
(* The clients.                                                                *)

clientFrame == <<ownerVars, serverVars, acceptorVars, group, clients, users,
                 connected, pc, sockVars, loginVars, transfer, passive, late, clientVars,
                 fileVars>>

\* connect() succeeds as soon as the kernel has queued the connection.
ClientConnect(c) ==
  /\ peer[c] = "away" /\ listener
  /\ peer' = [peer EXCEPT ![c] = "here"]
  /\ backlog' = backlog \union {c}
  /\ UNCHANGED <<clientFrame, data, done>>

ClientClose(c) ==
  /\ peer[c] = "here"
  /\ peer' = [peer EXCEPT ![c] = "gone"]
  /\ UNCHANGED <<clientFrame, backlog, data, done>>

\* The client connects to the data socket it was told of: once per transfer.
DataConnect(c) ==
  /\ passive[c] \in {"open", "held"} /\ data[c] = "none"
  /\ data' = [data EXCEPT ![c] = "queued"]
  /\ done' = done \ {c}
  /\ UNCHANGED <<clientFrame, netVars>>

\* The client has read all it is sent, or closes the data connection.
DataClose(c) ==
  /\ data[c] # "none" /\ c \notin done
  /\ done' = done \union {c}
  /\ UNCHANGED <<clientFrame, netVars, data>>

ClientStep(c) ==
  ClientConnect(c) \/ ClientClose(c) \/ DataConnect(c) \/ DataClose(c)

-----------------------------------------------------------------------------
Next ==
  \/ OwnerStep
  \/ AcceptorStep
  \/ \E c \in Conns : HandlerStep(c) \/ HandlerFails(c) \/ CommandStep(c)
                     \/ ClientStep(c)

Spec == Init /\ [][Next]_vars
=============================================================================
