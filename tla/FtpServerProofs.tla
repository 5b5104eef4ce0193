--------------------------- MODULE FtpServerProofs ---------------------------
(* For any connections, users, rights, files and commands: where the threads   *)
(* of the FTP server are, what it lists and what it has open agree (IInv); it  *)
(* implements ServerLifecycle.                                                 *)
EXTENDS FtpProperties, TLAPS

USE DEF ownerVars, serverVars, acceptorVars, dataVars, loginVars, netVars, clientVars,
        sockVars, fileVars, sessionVars, usersFrame, acceptorFrame, threadFrame,
        commandFrame, clientFrame

-----------------------------------------------------------------------------
(* What replies and closing do.                                                *)

(* A reply leaves one of the codes of the server.                              *)
LEMMA ReplyType ==
  ASSUME TypeOK, NEW c \in Conns, NEW code \in Codes, Reply(c, code)
  PROVE  last' \in [Conns -> Codes \union {None}]
BY DEF TypeOK, Reply

(* Closing data sockets leaves each where it was, gone, or held.               *)
LEMMA ClosePasvType ==
  ASSUME TypeOK, NEW C, ClosePasv(C)
  PROVE  /\ passive' \in [Conns -> {"none", "open", "stale", "held"}]
         /\ data' \in [Conns -> {"none", "queued", "open"}]
         /\ done' \subseteq Conns /\ late' \subseteq Conns
BY DEF TypeOK, ClosePasv, Unlistened

(* Closing clients closes their control sockets as well.                       *)
LEMMA CloseClientsType ==
  ASSUME TypeOK, NEW C \in SUBSET Conns, CloseClients(C)
  PROVE  /\ sock' \in [Conns -> {"none", "open", "stale", "closed"}]
         /\ passive' \in [Conns -> {"none", "open", "stale", "held"}]
         /\ data' \in [Conns -> {"none", "queued", "open"}]
         /\ done' \subseteq Conns /\ late' \subseteq Conns /\ again' \subseteq Conns
<1>1. ClosePasv(C) /\ sock' = [c \in Conns |-> IF c \in C THEN "closed" ELSE sock[c]]
  BY DEF CloseClients
<1>2. sock' \in [Conns -> {"none", "open", "stale", "closed"}]
  BY <1>1 DEF TypeOK
<1>3. again' \subseteq Conns
  BY DEF CloseClients, ClosesAgain, TypeOK
<1> QED BY <1>1, <1>2, <1>3, ClosePasvType

(* A thread that closes its own data socket leaves its number behind.          *)
LEMMA CloseOwnPasvType ==
  ASSUME TypeOK, NEW c \in Conns, CloseOwnPasv(c)
  PROVE  /\ passive' \in [Conns -> {"none", "open", "stale", "held"}]
         /\ data' \in [Conns -> {"none", "queued", "open"}]
         /\ UNCHANGED <<done, late>>
BY DEF TypeOK, CloseOwnPasv

-----------------------------------------------------------------------------
(* Type correctness.                                                           *)
(* A server that has not been started keeps its types ...                      *)
LEMMA InitTypeOK == Init => TypeOK
<1> SUFFICES ASSUME Init PROVE TypeOK
  OBVIOUS
<1>1. starts \in 0..MaxStarts /\ (acceptor \in {"push", "spawn"} <=> guest # None)
  BY BoundAssumption DEF Init
<1>2. auth \in [Conns -> BOOLEAN] /\ sent \in [Conns -> Nat]
  BY DEF Init
<1>3. /\ users \in [Users -> (SUBSET Rights) \union {None}]
      /\ perm \in [Conns -> SUBSET Rights]
  BY DEF Init
<1>4. /\ pc \in [Conns -> Places \union {"none", "exited"}]
      /\ user \in [Conns -> Users \union {None}]
      /\ transfer \in [Conns -> Jobs \union {None}]
      /\ last \in [Conns -> Codes \union {None}]
  BY DEF Init
<1> QED BY <1>1, <1>2, <1>3, <1>4 DEF Init, TypeOK

(* ... and so does every step of the owner and the test,                       *)
LEMMA OwnerTypeOK == TypeOK /\ PhasesAgree /\ OwnerStep => TypeOK'
<1> SUFFICES ASSUME TypeOK, PhasesAgree, OwnerStep PROVE TypeOK'
  OBVIOUS
<1>1. CASE Start
  BY <1>1, BoundAssumption DEF Start, PhasesAgree, TypeOK
<1>2. CASE StopAgain
  BY <1>2 DEF StopAgain, vars, TypeOK
<1>3. CASE StopBegin
  BY <1>3 DEF StopBegin, TypeOK
<1>4. CASE StopSweep
  BY <1>4, CloseClientsType DEF StopSweep, TypeOK
<1>5. CASE StopJoinAcceptor
  BY <1>5 DEF StopJoinAcceptor, TypeOK
<1>6. CASE StopJoinAll
  BY <1>6 DEF StopJoinAll, TypeOK
<1>7. CASE ClearUsers
  BY <1>7 DEF ClearUsers, TypeOK
<1>8. ASSUME NEW u \in Users, NEW rights \in Grants[u], AddUser(u, rights) PROVE TypeOK'
  <2>1. rights \in SUBSET Rights
    BY GrantAssumption
  <2>2. users' \in [Users -> (SUBSET Rights) \union {None}]
    BY <1>8, <2>1 DEF AddUser, TypeOK
  <2> QED BY <1>8, <2>2 DEF AddUser, TypeOK
<1> QED BY <1>1, <1>2, <1>3, <1>4, <1>5, <1>6, <1>7, <1>8 DEF OwnerStep, StopStep

(* of the acceptor,                                                            *)
LEMMA AcceptorTypeOK == TypeOK /\ AcceptorStep => TypeOK'
<1> SUFFICES ASSUME TypeOK, AcceptorStep PROVE TypeOK'
  OBVIOUS
<1>1. CASE AcceptCheck
  BY <1>1 DEF AcceptCheck, TypeOK
<1>2. CASE AcceptNothing
  BY <1>2 DEF AcceptNothing, TypeOK
<1>3. CASE AcceptBreaks
  BY <1>3 DEF AcceptBreaks, TypeOK
<1>4. CASE AcceptPush
  BY <1>4 DEF AcceptPush, Listed, TypeOK
<1>5. CASE AcceptSpawn
  <2>1. guest \in Conns /\ 220 \in Codes
    BY <1>5 DEF AcceptSpawn, TypeOK, Codes
  <2>2. last' \in [Conns -> Codes \union {None}]
    BY <1>5, <2>1, ReplyType DEF AcceptSpawn
  <2>3. group' \subseteq Conns /\ pc' \in [Conns -> Places \union {"none", "exited"}]
    BY <1>5, <2>1 DEF AcceptSpawn, Unfinished, Goto, TypeOK, Places
  <2> QED BY <1>5, <2>2, <2>3 DEF AcceptSpawn, TypeOK
<1>6. CASE AcceptUnlisten
  BY <1>6 DEF AcceptUnlisten, TypeOK
<1>7. CASE AcceptSweep
  BY <1>7, CloseClientsType DEF AcceptSweep, TypeOK
<1>8. ASSUME NEW c \in Conns, AcceptClient(c) PROVE TypeOK'
  BY <1>8, ConnAssumption DEF AcceptClient, TypeOK
<1> QED BY <1>1, <1>2, <1>3, <1>4, <1>5, <1>6, <1>7, <1>8 DEF AcceptorStep

(* A thread changes nothing of the owner, the acceptor and the lists.          *)
LEMMA CommandFrameType ==
  ASSUME TypeOK, UNCHANGED commandFrame,
         connected' \subseteq Users,
         pc' \in [Conns -> Places \union {"none", "exited"}],
         sock' \in [Conns -> {"none", "open", "stale", "closed"}], again' \subseteq Conns,
         user' \in [Conns -> Users \union {None}], auth' \in [Conns -> BOOLEAN],
         perm' \in [Conns -> SUBSET Rights], transfer' \in [Conns -> Jobs \union {None}],
         passive' \in [Conns -> {"none", "open", "stale", "held"}],
         data' \in [Conns -> {"none", "queued", "open"}],
         done' \subseteq Conns, late' \subseteq Conns, cut' \subseteq Conns,
         sent' \in [Conns -> Nat], last' \in [Conns -> Codes \union {None}],
         store' \in [Files -> {"absent", "dir", "partial", "mixed", "whole"}]
  PROVE  TypeOK'
BY DEF TypeOK

(* of a client's thread,                                                      *)
LEMMA HandlerTypeOK ==
  ASSUME TypeOK, NEW c \in Conns, HandlerStep(c) \/ HandlerFails(c) PROVE TypeOK'
<1> USE DEF Goto, Places
<1>0. {220, 221, 226, 227, 425, 550} \subseteq Codes
  BY DEF Codes
<1>1. CASE NextRecv(c)
  BY <1>1 DEF NextRecv, TypeOK
<1>2. CASE RecvEnds(c)
  BY <1>2 DEF RecvEnds, TypeOK
<1>3. CASE PasvReply(c)
  BY <1>0, <1>3, ReplyType DEF PasvReply, TypeOK
<1>4. CASE BeginAccept(c)
  <2>1. last' \in [Conns -> Codes \union {None}]
    BY <1>0, <1>4, ReplyType DEF BeginAccept, TypeOK
  <2> QED BY <1>4, <2>1 DEF BeginAccept, TypeOK
<1>5. CASE DataAccepted(c) \/ AcceptFails(c)
  BY <1>5 DEF DataAccepted, AcceptFails, TypeOK
<1>6. CASE SendData(c)
  <2>1. last' \in [Conns -> Codes \union {None}]
    BY <1>0, <1>6, ReplyType DEF SendData, TypeOK
  <2>2. transfer' \in [Conns -> Jobs \union {None}] /\ data' \in [Conns -> {"none", "queued", "open"}]
    BY <1>6 DEF SendData, TypeOK
  <2>3. pc' \in [Conns -> Places \union {"none", "exited"}]
    BY <1>6 DEF SendData, TypeOK
  <2>4. UNCHANGED <<commandFrame, connected, sockVars, loginVars, passive, done, late, sent,
                    fileVars>>
    BY <1>6 DEF SendData
  <2> QED BY <2>1, <2>2, <2>3, <2>4, CommandFrameType DEF TypeOK
<1>7. CASE OpenFile(c)
  <2>1. last' \in [Conns -> Codes \union {None}]
    BY <1>0, <1>7, ReplyType DEF OpenFile, TypeOK
  <2>2. /\ store' \in [Files -> {"absent", "dir", "partial", "mixed", "whole"}]
        /\ cut' \subseteq Conns
    BY <1>7 DEF OpenFile, TypeOK
  <2> QED BY <1>7, <2>1, <2>2 DEF OpenFile, TypeOK
<1>8. CASE DataEnds(c) \/ DataLost(c)
  BY <1>8 DEF DataEnds, DataLost, Flushed, TypeOK
<1>9. CASE TransferComplete(c)
  BY <1>0, <1>9, ReplyType DEF TransferComplete, TypeOK
<1>10. CASE LeaveSession(c)
  BY <1>10 DEF LeaveSession, Forgotten, TypeOK
<1>11. CASE RemoveClient(c)
  <2>1. (IF c \in clients THEN {c} ELSE {}) \in SUBSET Conns
    OBVIOUS
  <2> QED BY <1>11, <2>1, CloseClientsType DEF RemoveClient, TypeOK
<1>12. CASE PasvBind(c)
  <2>1. last' \in [Conns -> Codes \union {None}]
    BY <1>0, <1>12, ReplyType DEF PasvBind, TypeOK
  <2> QED BY <1>12, <2>1 DEF PasvBind, TypeOK
<1>13. CASE QuitHangsUp(c)
  <2>1. /\ passive' \in [Conns -> {"none", "open", "stale", "held"}]
        /\ data' \in [Conns -> {"none", "queued", "open"}] /\ UNCHANGED <<done, late>>
    BY <1>13, CloseOwnPasvType DEF QuitHangsUp
  <2>2. sock' \in [Conns -> {"none", "open", "stale", "closed"}]
    BY <1>13 DEF QuitHangsUp, SocketForgotten, TypeOK
  <2> QED BY <1>13, <2>1, <2>2 DEF QuitHangsUp, TypeOK
<1>14. CASE QuitDone(c)
  BY <1>14 DEF QuitDone, Overwritten, TypeOK
<1>15. CASE AcceptDone(c)
  <2>1. last' \in [Conns -> Codes \union {None}]
    BY <1>0, <1>15, ReplyType DEF AcceptDone, TypeOK
  <2>2. /\ transfer' \in [Conns -> Jobs \union {None}]
        /\ passive' \in [Conns -> {"none", "open", "stale", "held"}]
    BY <1>15 DEF AcceptDone, Overwritten, TypeOK
  <2>3. pc' \in [Conns -> Places \union {"none", "exited"}]
    BY <1>15 DEF AcceptDone, TypeOK
  <2>4. UNCHANGED <<commandFrame, connected, sockVars, loginVars, data, done, late, sent,
                    fileVars>>
    BY <1>15 DEF AcceptDone
  <2> QED BY <2>1, <2>2, <2>3, <2>4, CommandFrameType DEF TypeOK
<1> QED BY <1>1, <1>2, <1>3, <1>4, <1>5, <1>6, <1>7, <1>8, <1>9, <1>10, <1>11, <1>12, <1>13,
           <1>14, <1>15
    DEF HandlerStep, HandlerFails

(* A command counts as sent, and takes its thread to another place.            *)
LEMMA LineType ==
  ASSUME TypeOK, NEW c \in Conns, NEW cmd, Line(c, cmd), NEW label \in Places, Goto(c, label)
  PROVE  sent' \in [Conns -> Nat] /\ pc' \in [Conns -> Places \union {"none", "exited"}]
BY DEF TypeOK, Line, Goto

(* and of a command it dispatches.                                             *)
LEMMA CommandTypeOK == ASSUME TypeOK, DataMatchesPlace, NEW c \in Conns, CommandStep(c) PROVE TypeOK'
<1>0. {150, 200, 221, 230, 250, 257, 331, 425, 501, 503, 530, 550} \subseteq Codes
        /\ {"lines", "hangup", "bind", "accept"} \subseteq Places
  BY DEF Codes, Places
<1>1. ASSUME NEW u \in Users, UserCmd(c, u) PROVE TypeOK'
  <2>1. last' \in [Conns -> Codes \union {None}]
    BY <1>0, <1>1, ReplyType DEF UserCmd
  <2>2. sent' \in [Conns -> Nat] /\ pc' \in [Conns -> Places \union {"none", "exited"}]
    BY <1>0, <1>1, LineType DEF UserCmd
  <2>3. /\ user' \in [Conns -> Users \union {None}] /\ connected' \subseteq Users
        /\ perm' \in [Conns -> SUBSET Rights]
    BY <1>1 DEF UserCmd, TypeOK
  <2>4. auth' \in [Conns -> BOOLEAN]
    BY <1>1 DEF UserCmd, TypeOK
  <2>5. UNCHANGED <<commandFrame, sockVars, transfer, dataVars, fileVars>>
    BY <1>1 DEF UserCmd
  <2> QED BY <2>1, <2>2, <2>3, <2>4, <2>5, CommandFrameType DEF TypeOK
<1>2. CASE PassCmd(c)
  <2>1. last' \in [Conns -> Codes \union {None}]
    BY <1>0, <1>2, ReplyType DEF PassCmd
  <2>2. sent' \in [Conns -> Nat] /\ pc' \in [Conns -> Places \union {"none", "exited"}]
    BY <1>0, <1>2, LineType DEF PassCmd
  <2>3. /\ user' \in [Conns -> Users \union {None}] /\ connected' \subseteq Users
        /\ perm' \in [Conns -> SUBSET Rights]
    BY <1>2 DEF PassCmd, Tracked, TypeOK
  <2>4. auth' \in [Conns -> BOOLEAN]
    BY <1>2 DEF PassCmd, TypeOK
  <2>5. UNCHANGED <<commandFrame, sockVars, transfer, dataVars, fileVars>>
    BY <1>2 DEF PassCmd
  <2> QED BY <2>1, <2>2, <2>3, <2>4, <2>5, CommandFrameType DEF TypeOK
<1>3. CASE NoopCmd(c)
  <2>1. last' \in [Conns -> Codes \union {None}]
    BY <1>0, <1>3, ReplyType DEF NoopCmd
  <2>2. sent' \in [Conns -> Nat] /\ pc' \in [Conns -> Places \union {"none", "exited"}]
    BY <1>0, <1>3, LineType DEF NoopCmd
  <2>3. UNCHANGED <<commandFrame, connected, sockVars, loginVars, transfer, dataVars, fileVars>>
    BY <1>3 DEF NoopCmd
  <2> QED BY <2>1, <2>2, <2>3, CommandFrameType DEF TypeOK
<1>4. ASSUME NEW cmd, NEW rights, SessionCmd(c, cmd, rights) PROVE TypeOK'
  <2>1. Refusal(c, cmd, rights, NoArgument) \in {501, 530, 550, None}
    BY DEF Refusal
  <2>2. last' \in [Conns -> Codes \union {None}]
    BY <1>0, <1>4, <2>1, ReplyType DEF SessionCmd
  <2>3. sent' \in [Conns -> Nat] /\ pc' \in [Conns -> Places \union {"none", "exited"}]
    BY <1>0, <1>4, LineType DEF SessionCmd
  <2>4. UNCHANGED <<commandFrame, connected, sockVars, loginVars, transfer, dataVars, fileVars>>
    BY <1>4 DEF SessionCmd
  <2> QED BY <2>2, <2>3, <2>4, CommandFrameType DEF TypeOK
<1>5. CASE PasvCmd(c)
  <2>1. last' \in [Conns -> Codes \union {None}]
    BY <1>0, <1>5, ReplyType DEF PasvCmd, TypeOK
  <2>2. sent' \in [Conns -> Nat] /\ pc' \in [Conns -> Places \union {"none", "exited"}]
    BY <1>0, <1>5, LineType DEF PasvCmd
  <2>3. /\ passive' \in [Conns -> {"none", "open", "stale", "held"}]
        /\ data' \in [Conns -> {"none", "queued", "open"}] /\ UNCHANGED <<done, late>>
    BY <1>5, CloseOwnPasvType DEF PasvCmd, TypeOK
  <2>4. UNCHANGED <<commandFrame, connected, sockVars, loginVars, transfer, fileVars>>
    BY <1>5 DEF PasvCmd
  <2> QED BY <2>1, <2>2, <2>3, <2>4, CommandFrameType DEF TypeOK
<1>6. CASE QuitCmd(c)
  <2>1. last' \in [Conns -> Codes \union {None}]
    BY <1>0, <1>6, ReplyType DEF QuitCmd
  <2>2. sent' \in [Conns -> Nat] /\ pc' \in [Conns -> Places \union {"none", "exited"}]
    BY <1>0, <1>6, LineType DEF QuitCmd
  <2>3. sock' \in [Conns -> {"none", "open", "stale", "closed"}]
    BY <1>6 DEF QuitCmd, TypeOK
  <2>4. UNCHANGED <<commandFrame, connected, again, loginVars, transfer, dataVars, fileVars>>
    BY <1>6 DEF QuitCmd
  <2> QED BY <2>1, <2>2, <2>3, <2>4, CommandFrameType DEF TypeOK
<1>7. ASSUME NEW file \in Arguments, NEW op \in Transfers, TransferCmd(c, op, file)
      PROVE  TypeOK'
  <2>1. Refusal(c, op, Needed(op), file) \in {501, 530, 550, None}
    BY DEF Refusal
  <2>2. last' \in [Conns -> Codes \union {None}]
    BY <1>0, <1>7, <2>1, ReplyType DEF TransferCmd
  <2>3. [op |-> op, file |-> file] \in Jobs
    BY DEF Jobs
  <2>4. transfer' \in [Conns -> Jobs \union {None}]
    BY <1>7, <2>3 DEF TransferCmd, TypeOK
  <2>5. sent' \in [Conns -> Nat] /\ pc' \in [Conns -> Places \union {"none", "exited"}]
    BY <1>0, <1>7, LineType DEF TransferCmd
  <2>6. UNCHANGED <<commandFrame, connected, sockVars, loginVars, dataVars, fileVars>>
    BY <1>7 DEF TransferCmd
  <2> QED BY <2>2, <2>4, <2>5, <2>6, CommandFrameType DEF TypeOK
<1>8. ASSUME NEW file \in Arguments, NEW cmd, FileCmd(c, cmd, file) PROVE TypeOK'
  <2>1. Refusal(c, cmd, {"write"}, file) \in {501, 530, 550, None}
    BY DEF Refusal
  <2>2. last' \in [Conns -> Codes \union {None}]
    BY <1>0, <1>8, <2>1, ReplyType DEF FileCmd
  <2>3. ASSUME NEW d \in Writers(file)
        PROVE  [transfer[d] EXCEPT !.file = None] \in Jobs
    <3>1. transfer[d] \in Jobs
      BY DEF Writers, TypeOK, DataMatchesPlace
    <3> QED BY <3>1 DEF Jobs, Arguments
  <2>4. transfer' \in [Conns -> Jobs \union {None}]
    BY <1>8, <2>3 DEF FileCmd, TypeOK
  <2>5. /\ store' \in [Files -> {"absent", "dir", "partial", "mixed", "whole"}]
        /\ UNCHANGED cut
    BY <1>8 DEF FileCmd, TypeOK
  <2>6. sent' \in [Conns -> Nat] /\ pc' \in [Conns -> Places \union {"none", "exited"}]
    BY <1>0, <1>8, LineType DEF FileCmd
  <2>7. UNCHANGED <<commandFrame, connected, sockVars, loginVars, dataVars>>
    BY <1>8 DEF FileCmd
  <2> QED BY <2>2, <2>4, <2>5, <2>6, <2>7, CommandFrameType DEF TypeOK
<1> QED BY <1>1, <1>2, <1>3, <1>4, <1>5, <1>6, <1>7, <1>8 DEF CommandStep

(* Types are kept by every step.                                               *)
LEMMA NextTypeOK == IInv /\ [Next]_vars => TypeOK'
<1> SUFFICES ASSUME IInv, [Next]_vars PROVE TypeOK'
  OBVIOUS
<1>0. TypeOK /\ PhasesAgree /\ DataMatchesPlace
  BY DEF IInv
<1>1. ASSUME NEW c \in Conns, ClientStep(c) PROVE TypeOK'
  BY <1>0, <1>1 DEF ClientStep, ClientConnect, ClientClose, DataConnect, DataClose, TypeOK
<1>2. CASE UNCHANGED vars
  BY <1>0, <1>2 DEF vars, TypeOK
<1> QED BY <1>0, <1>1, <1>2, OwnerTypeOK, AcceptorTypeOK, HandlerTypeOK, CommandTypeOK DEF Next

-----------------------------------------------------------------------------
(* The phases of start() and stop().                                           *)
LEMMA NextPhasesAgree == IInv /\ [Next]_vars => PhasesAgree'
<1> SUFFICES ASSUME IInv, [Next]_vars PROVE PhasesAgree'
  OBVIOUS
<1> USE DEF PhasesAgree
<1>0. TypeOK /\ PhasesAgree
  BY DEF IInv
<1>1. CASE OwnerStep
  BY <1>0, <1>1
  DEF OwnerStep, Start, StopAgain, StopBegin, StopStep, StopSweep, StopJoinAcceptor,
      StopJoinAll, ClearUsers, AddUser, vars
<1>2. CASE AcceptorStep
  BY <1>0, <1>2
  DEF AcceptorStep, AcceptCheck, AcceptNothing, AcceptBreaks, AcceptPush, AcceptSpawn,
      AcceptUnlisten, AcceptSweep, AcceptClient
<1>3. ASSUME NEW c \in Conns, HandlerStep(c) \/ HandlerFails(c) PROVE PhasesAgree'
  BY <1>0, <1>3
  DEF HandlerStep, NextRecv, RecvEnds, PasvBind, PasvReply, QuitHangsUp, QuitDone,
      CloseOwnPasv, Overwritten, SocketForgotten, BeginAccept, DataAccepted, AcceptDone,
      SendData, OpenFile, DataEnds, HandlerFails, AcceptFails, DataLost, TransferComplete,
      LeaveSession, RemoveClient
<1>4. ASSUME NEW c \in Conns, CommandStep(c) PROVE PhasesAgree'
  BY <1>0, <1>4
  DEF CommandStep, UserCmd, PassCmd, NoopCmd, SessionCmd, PasvCmd, QuitCmd, TransferCmd,
      FileCmd
<1>5. ASSUME NEW c \in Conns, ClientStep(c) PROVE PhasesAgree'
  BY <1>0, <1>5 DEF ClientStep, ClientConnect, ClientClose, DataConnect, DataClose
<1>6. CASE UNCHANGED vars
  BY <1>0, <1>6 DEF vars
<1> QED BY <1>1, <1>2, <1>3, <1>4, <1>5, <1>6 DEF Next

(* Connections, their sockets and their threads.                               *)
LEMMA NextWired == IInv /\ [Next]_vars => Wired'
<1> SUFFICES ASSUME IInv, [Next]_vars PROVE Wired'
  OBVIOUS
<1> USE ConnAssumption DEF Wired, Goto, Live, Places
<1>0. TypeOK /\ PhasesAgree /\ Wired
  BY DEF IInv
<1>1. CASE OwnerStep
  BY <1>0, <1>1
  DEF OwnerStep, Start, StopAgain, StopBegin, StopStep, StopSweep, StopJoinAcceptor,
      StopJoinAll, AllDone, ClearUsers, AddUser, CloseClients, vars, TypeOK, PhasesAgree
<1>2. CASE AcceptorStep
  BY <1>0, <1>2
  DEF AcceptorStep, AcceptCheck, AcceptNothing, AcceptBreaks, AcceptPush, AcceptSpawn,
      AcceptUnlisten, AcceptSweep, AcceptClient, Listed, Unfinished, CloseClients, TypeOK
<1>3. ASSUME NEW c \in Conns, HandlerStep(c) \/ HandlerFails(c) PROVE Wired'
  BY <1>0, <1>3
  DEF HandlerStep, NextRecv, RecvEnds, PasvBind, PasvReply, QuitHangsUp, QuitDone,
      CloseOwnPasv, Overwritten, SocketForgotten, BeginAccept, DataAccepted, AcceptDone,
      SendData, OpenFile, DataEnds, HandlerFails, AcceptFails, DataLost, TransferComplete,
      LeaveSession, RemoveClient, CloseClients, TypeOK
<1>4. ASSUME NEW c \in Conns, CommandStep(c) PROVE Wired'
  BY <1>0, <1>4
  DEF CommandStep, UserCmd, PassCmd, NoopCmd, SessionCmd, PasvCmd, QuitCmd, TransferCmd,
      FileCmd, Line, CloseClients, TypeOK
<1>5. ASSUME NEW c \in Conns, ClientStep(c) PROVE Wired'
  BY <1>0, <1>5 DEF ClientStep, ClientConnect, ClientClose, DataConnect, DataClose, TypeOK
<1>6. CASE UNCHANGED vars
  BY <1>0, <1>6 DEF vars
<1> QED BY <1>1, <1>2, <1>3, <1>4, <1>5, <1>6 DEF Next

(* Who is open is listed.                                                      *)
LEMMA NextOpenIsListed == IInv /\ [Next]_vars => OpenIsListed'
<1> SUFFICES ASSUME IInv, [Next]_vars PROVE OpenIsListed'
  OBVIOUS
<1> USE ConnAssumption DEF OpenIsListed, Goto, Live, Places
<1>0. TypeOK /\ PhasesAgree /\ Wired /\ OpenIsListed
  BY DEF IInv
<1>1. CASE OwnerStep
  BY <1>0, <1>1
  DEF OwnerStep, Start, StopAgain, StopBegin, StopStep, StopSweep, StopJoinAcceptor,
      StopJoinAll, ClearUsers, AddUser, CloseClients, vars, TypeOK, PhasesAgree
<1>2. CASE AcceptorStep
  BY <1>0, <1>2
  DEF AcceptorStep, AcceptCheck, AcceptNothing, AcceptBreaks, AcceptPush, AcceptSpawn,
      AcceptUnlisten, AcceptSweep, AcceptClient, Listed, CloseClients, TypeOK, Wired
<1>3. ASSUME NEW c \in Conns, HandlerStep(c) \/ HandlerFails(c) PROVE OpenIsListed'
  BY <1>0, <1>3
  DEF HandlerStep, NextRecv, RecvEnds, PasvBind, PasvReply, QuitHangsUp, QuitDone,
      CloseOwnPasv, Overwritten, SocketForgotten, BeginAccept, DataAccepted, AcceptDone,
      SendData, OpenFile, DataEnds, HandlerFails, AcceptFails, DataLost, TransferComplete,
      LeaveSession, RemoveClient, CloseClients, TypeOK, Wired
<1>4. ASSUME NEW c \in Conns, CommandStep(c) PROVE OpenIsListed'
  <2>1. UNCHANGED <<clients, acceptor, guest>>
    BY <1>4
    DEF CommandStep, UserCmd, PassCmd, NoopCmd, SessionCmd, PasvCmd, QuitCmd, TransferCmd,
        FileCmd
  <2>2. CASE QuitCmd(c)
    BY <1>0, <2>1, <2>2 DEF QuitCmd, TypeOK
  <2>3. CASE ~QuitCmd(c)
    <3>1. UNCHANGED sock /\ \E label \in Places : pc' = [pc EXCEPT ![c] = label]
      BY <1>4, <2>3
      DEF CommandStep, UserCmd, PassCmd, NoopCmd, SessionCmd, PasvCmd, TransferCmd,
          FileCmd, Line
    <3> QED BY <1>0, <2>1, <3>1 DEF TypeOK
  <2> QED BY <2>2, <2>3
<1>5. ASSUME NEW c \in Conns, ClientStep(c) PROVE OpenIsListed'
  BY <1>0, <1>5 DEF ClientStep, ClientConnect, ClientClose, DataConnect, DataClose
<1>6. CASE UNCHANGED vars
  BY <1>0, <1>6 DEF vars
<1> QED BY <1>1, <1>2, <1>3, <1>4, <1>5, <1>6 DEF Next

(* A socket that said goodbye is closed for good.                              *)
LEMMA NextSaidGoodbye == IInv /\ [Next]_vars => SaidGoodbye'
<1> SUFFICES ASSUME IInv, [Next]_vars PROVE SaidGoodbye'
  OBVIOUS
<1> USE DEF SaidGoodbye, Reply
<1>0. TypeOK /\ Wired /\ SaidGoodbye
  BY DEF IInv
<1>1. CASE OwnerStep
  BY <1>0, <1>1
  DEF OwnerStep, Start, StopAgain, StopBegin, StopStep, StopSweep, StopJoinAcceptor,
      StopJoinAll, ClearUsers, AddUser, CloseClients, vars
<1>2. CASE AcceptorStep
  BY <1>0, <1>2
  DEF AcceptorStep, AcceptCheck, AcceptNothing, AcceptBreaks, AcceptPush, AcceptSpawn,
      AcceptUnlisten, AcceptSweep, AcceptClient, CloseClients, TypeOK, Wired
<1>3. ASSUME NEW c \in Conns, HandlerStep(c) \/ HandlerFails(c) PROVE SaidGoodbye'
  BY <1>0, <1>3
  DEF HandlerStep, NextRecv, RecvEnds, PasvBind, PasvReply, QuitHangsUp, QuitDone,
      CloseOwnPasv, Overwritten, SocketForgotten, BeginAccept, DataAccepted, AcceptDone,
      SendData, OpenFile, DataEnds, HandlerFails, AcceptFails, DataLost, TransferComplete,
      LeaveSession, RemoveClient, CloseClients, TypeOK
<1>4. ASSUME NEW c \in Conns, CommandStep(c) PROVE SaidGoodbye'
  BY <1>0, <1>4, NoneAssumption
  DEF CommandStep, UserCmd, PassCmd, NoopCmd, SessionCmd, PasvCmd, QuitCmd, TransferCmd,
      FileCmd, Refusal, CloseClients, TypeOK
<1>5. ASSUME NEW c \in Conns, ClientStep(c) PROVE SaidGoodbye'
  BY <1>0, <1>5 DEF ClientStep, ClientConnect, ClientClose, DataConnect, DataClose
<1>6. CASE UNCHANGED vars
  BY <1>0, <1>6 DEF vars
<1> QED BY <1>1, <1>2, <1>3, <1>4, <1>5, <1>6 DEF Next

(* The data socket and the data connection are where the thread is.            *)
LEMMA NextDataMatchesPlace == IInv /\ [Next]_vars => DataMatchesPlace'
<1> SUFFICES ASSUME IInv, [Next]_vars PROVE DataMatchesPlace'
  OBVIOUS
<1> USE DEF DataMatchesPlace, Goto, ClosePasv, CloseClients, Unlistened, Reset
<1>0. TypeOK /\ Wired /\ DataMatchesPlace
  BY DEF IInv
<1>1. CASE OwnerStep
  BY <1>0, <1>1
  DEF OwnerStep, Start, StopAgain, StopBegin, StopStep, StopSweep, StopJoinAcceptor,
      StopJoinAll, ClearUsers, AddUser, vars
<1>2. CASE AcceptorStep
  BY <1>0, <1>2
  DEF AcceptorStep, AcceptCheck, AcceptNothing, AcceptBreaks, AcceptPush, AcceptSpawn,
      AcceptUnlisten, AcceptSweep, AcceptClient, TypeOK, Wired
<1>3. ASSUME NEW c \in Conns, HandlerStep(c) \/ HandlerFails(c) PROVE DataMatchesPlace'
  <2> USE DEF Overwritten, CloseOwnPasv
  <2>1. CASE NextRecv(c) \/ RecvEnds(c) \/ PasvReply(c) \/ TransferComplete(c) \/ LeaveSession(c)
    BY <1>0, <2>1 DEF NextRecv, RecvEnds, PasvReply, TransferComplete, LeaveSession, TypeOK
  <2>2. CASE BeginAccept(c)
    BY <1>0, <2>2 DEF BeginAccept, TypeOK
  <2>3. CASE DataAccepted(c) \/ AcceptFails(c)
    BY <1>0, <2>3 DEF DataAccepted, AcceptFails, TypeOK
  <2>4. CASE SendData(c)
    BY <1>0, <2>4 DEF SendData, TypeOK
  <2>5. CASE OpenFile(c)
    BY <1>0, <2>5 DEF OpenFile, TypeOK
  <2>6. CASE DataEnds(c) \/ DataLost(c)
    BY <1>0, <2>6 DEF DataEnds, DataLost, TypeOK
  <2>7. CASE RemoveClient(c)
    BY <1>0, <2>7 DEF RemoveClient, TypeOK
  <2>8. CASE PasvBind(c)
    BY <1>0, <2>8 DEF PasvBind, TypeOK
  <2>9. CASE QuitHangsUp(c) \/ QuitDone(c)
    BY <1>0, <2>9 DEF QuitHangsUp, QuitDone, TypeOK
  <2>10. CASE AcceptDone(c)
    BY <1>0, <2>10 DEF AcceptDone, TypeOK
  <2> QED BY <1>3, <2>1, <2>2, <2>3, <2>4, <2>5, <2>6, <2>7, <2>8, <2>9, <2>10
          DEF HandlerStep, HandlerFails
<1>4. ASSUME NEW c \in Conns, CommandStep(c) PROVE DataMatchesPlace'
  <2> USE DEF Line
  <2>1. CASE \/ \E u \in Users : UserCmd(c, u)
             \/ PassCmd(c) \/ NoopCmd(c) \/ \E cmd, rights : SessionCmd(c, cmd, rights)
    BY <1>0, <2>1 DEF UserCmd, PassCmd, NoopCmd, SessionCmd, TypeOK
  <2>2. CASE PasvCmd(c)
    BY <1>0, <2>2 DEF PasvCmd, CloseOwnPasv, TypeOK
  <2>3. CASE QuitCmd(c)
    BY <1>0, <2>3 DEF QuitCmd, TypeOK
  <2>4. ASSUME NEW op \in Transfers, NEW file \in Arguments, TransferCmd(c, op, file)
        PROVE  DataMatchesPlace'
    <3>1. [op |-> op, file |-> file] # None
      BY NoneAssumption DEF Jobs
    <3> QED BY <1>0, <2>4, <3>1 DEF TransferCmd, TypeOK
  <2>5. ASSUME NEW cmd, NEW file \in Arguments, FileCmd(c, cmd, file)
        PROVE  DataMatchesPlace'
    <3>1. ASSUME NEW d \in Writers(file) PROVE [transfer[d] EXCEPT !.file = None] # None
      <4>1. transfer[d] \in Jobs
        BY <1>0 DEF Writers, TypeOK
      <4>2. [transfer[d] EXCEPT !.file = None] \in Jobs
        BY <4>1 DEF Jobs, Arguments
      <4> QED BY <4>2, NoneAssumption
    <3>2. ASSUME NEW d \in Conns PROVE transfer'[d] # None <=> transfer[d] # None
      BY <1>0, <2>5, <3>1 DEF FileCmd, Writers
    <3> QED BY <1>0, <2>5, <3>2 DEF FileCmd, TypeOK
  <2> QED BY <1>4, <2>1, <2>2, <2>3, <2>4, <2>5 DEF CommandStep
<1>5. ASSUME NEW c \in Conns, ClientStep(c) PROVE DataMatchesPlace'
  BY <1>0, <1>5 DEF ClientStep, ClientConnect, ClientClose, DataConnect, DataClose, TypeOK
<1>6. CASE UNCHANGED vars
  BY <1>0, <1>6 DEF vars
<1> QED BY <1>1, <1>2, <1>3, <1>4, <1>5, <1>6 DEF Next

(* An open data socket belongs to a client a sweep will still find, or was      *)
(* opened after the sweep.                                                     *)
LEMMA NextSocketsAreFound == IInv /\ [Next]_vars => SocketsAreFound'
<1> SUFFICES ASSUME IInv, [Next]_vars PROVE SocketsAreFound'
  OBVIOUS
<1> USE DEF SocketsAreFound
<1>0. TypeOK /\ DataMatchesPlace /\ SocketsAreFound
  BY DEF IInv
<1>1. ASSUME NEW C \in SUBSET Conns, CloseClients(C), clients' = clients \ C
      PROVE  SocketsAreFound'
  BY <1>0, <1>1 DEF CloseClients, ClosePasv, Unlistened, TypeOK
<1>2. CASE OwnerStep
  <2>1. CASE StopSweep
    BY <1>0, <1>1, <2>1 DEF StopSweep, TypeOK
  <2>2. CASE ~StopSweep
    BY <1>0, <1>2, <2>2
    DEF OwnerStep, Start, StopAgain, StopBegin, StopStep, StopJoinAcceptor, StopJoinAll,
        ClearUsers, AddUser, vars
  <2> QED BY <2>1, <2>2
<1>3. CASE AcceptorStep
  <2>1. CASE AcceptSweep
    BY <1>0, <1>1, <2>1 DEF AcceptSweep, TypeOK
  <2>2. CASE ~AcceptSweep
    BY <1>0, <1>3, <2>2
    DEF AcceptorStep, AcceptCheck, AcceptNothing, AcceptBreaks, AcceptPush, AcceptSpawn,
        AcceptUnlisten, AcceptClient, Listed
  <2> QED BY <2>1, <2>2
<1>4. ASSUME NEW c \in Conns, HandlerStep(c) \/ HandlerFails(c) PROVE SocketsAreFound'
  <2>1. CASE RemoveClient(c)
    <3>1. (IF c \in clients THEN {c} ELSE {}) \in SUBSET Conns
          /\ clients' = clients \ (IF c \in clients THEN {c} ELSE {})
      BY <2>1 DEF RemoveClient
    <3> QED BY <1>1, <2>1, <3>1 DEF RemoveClient
  <2>2. CASE PasvBind(c)
    BY <1>0, <2>2 DEF PasvBind, TypeOK
  <2>3. CASE ~RemoveClient(c) /\ ~PasvBind(c)
    BY <1>0, <1>4, <2>3
    DEF HandlerStep, NextRecv, RecvEnds, PasvReply, QuitHangsUp, QuitDone, CloseOwnPasv,
        Overwritten, BeginAccept, DataAccepted, AcceptDone, SendData, OpenFile, DataEnds,
        TransferComplete, LeaveSession, HandlerFails, AcceptFails, DataLost, TypeOK
  <2> QED BY <2>1, <2>2, <2>3
<1>5. ASSUME NEW c \in Conns, CommandStep(c) PROVE SocketsAreFound'
  BY <1>0, <1>5
  DEF CommandStep, UserCmd, PassCmd, NoopCmd, SessionCmd, PasvCmd, CloseOwnPasv, QuitCmd,
      TransferCmd, FileCmd, TypeOK
<1>6. ASSUME NEW c \in Conns, ClientStep(c) PROVE SocketsAreFound'
  BY <1>0, <1>6 DEF ClientStep, ClientConnect, ClientClose, DataConnect, DataClose
<1>7. CASE UNCHANGED vars
  BY <1>0, <1>7 DEF vars
<1> QED BY <1>2, <1>3, <1>4, <1>5, <1>6, <1>7 DEF Next

(* stop() returns to a server of which nothing is left: threads that are not   *)
(* done are in client_thread_group_, and nobody is listed who could be open.   *)
LEMMA NextStoppedIsQuiescent == IInv /\ [Next]_vars => StoppedIsQuiescent'
<1> SUFFICES ASSUME IInv, [Next]_vars, owner' = "stopped"
             PROVE  StoppedIsQuiescent'
  BY DEF StoppedIsQuiescent
<1>0. TypeOK' /\ PhasesAgree' /\ OpenIsListed' /\ DataMatchesPlace' /\ SocketsAreFound'
  BY NextTypeOK, NextPhasesAgree, NextOpenIsListed, NextDataMatchesPlace, NextSocketsAreFound
<1>1. acceptor' = "none" /\ clients' = {} /\ backlog' = {} /\ guest' = None
  BY <1>0 DEF TypeOK, PhasesAgree
<1>2. \A c \in Conns : sock'[c] # "open"
  BY <1>0, <1>1 DEF OpenIsListed
<1>3. \A c \in Conns : ~Live(c)'
  <2>0. TypeOK /\ Wired /\ PhasesAgree /\ StoppedIsQuiescent
    BY DEF IInv
  <2>1. CASE StopJoinAll
    BY <2>0, <2>1 DEF StopJoinAll, AllDone, Wired, Live, Places
  <2>2. CASE owner = "stopped" /\ UNCHANGED pc
    BY <2>0, <2>2 DEF StoppedIsQuiescent, Live
  <2>3. CASE OwnerStep
    BY <2>1, <2>2, <2>3
    DEF OwnerStep, Start, StopAgain, StopBegin, StopStep, StopSweep, StopJoinAcceptor,
        ClearUsers, AddUser, vars
  <2>4. owner = "stopped" => acceptor = "none" /\ \A c \in Conns : pc[c] \notin Places
    BY <2>0 DEF PhasesAgree, StoppedIsQuiescent, Live
  <2>5. CASE AcceptorStep
    BY <2>4, <2>5
    DEF AcceptorStep, AcceptCheck, AcceptNothing, AcceptBreaks, AcceptPush, AcceptSpawn,
        AcceptUnlisten, AcceptSweep, AcceptClient
  <2>6. ASSUME NEW c \in Conns, HandlerStep(c) \/ HandlerFails(c) PROVE FALSE
    BY <2>4, <2>6
    DEF HandlerStep, NextRecv, RecvEnds, PasvBind, PasvReply, QuitHangsUp, QuitDone,
        CloseOwnPasv, Overwritten, SocketForgotten, BeginAccept, DataAccepted, AcceptDone,
        SendData, OpenFile, DataEnds, HandlerFails, AcceptFails, DataLost,
        TransferComplete, LeaveSession, RemoveClient, Places
  <2>7. ASSUME NEW c \in Conns, CommandStep(c) PROVE FALSE
    BY <2>4, <2>7
    DEF CommandStep, UserCmd, PassCmd, NoopCmd, SessionCmd, PasvCmd, QuitCmd, TransferCmd,
        FileCmd, Line, Places
  <2>8. CASE (\E c \in Conns : ClientStep(c)) \/ UNCHANGED vars
    BY <2>2, <2>8 DEF ClientStep, ClientConnect, ClientClose, DataConnect, DataClose, vars
  <2> QED BY <2>3, <2>5, <2>6, <2>7, <2>8 DEF Next
<1>4. \A c \in Conns : data'[c] # "open"
  BY <1>0, <1>3 DEF DataMatchesPlace, Live, Places
<1>5. \A c \in Conns : passive'[c] # "none" => c \in late'
  BY <1>0, <1>1, <1>3 DEF TypeOK, DataMatchesPlace, SocketsAreFound, Live, Places
<1> QED BY <1>1, <1>2, <1>3, <1>4, <1>5 DEF StoppedIsQuiescent

(* The rights of a transfer are those its client logged in with.               *)
LEMMA NextAllowed == IInv /\ [Next]_vars => Allowed'
<1> SUFFICES ASSUME IInv, [Next]_vars PROVE Allowed'
  OBVIOUS
<1> USE DEF Allowed, Goto
<1>0. TypeOK /\ DataMatchesPlace /\ Allowed
  BY DEF IInv
<1>1. CASE OwnerStep
  BY <1>0, <1>1
  DEF OwnerStep, Start, StopAgain, StopBegin, StopStep, StopSweep, StopJoinAcceptor,
      StopJoinAll, ClearUsers, AddUser, vars
<1>2. CASE AcceptorStep
  <2>1. UNCHANGED <<user, auth, perm, transfer>>
    BY <1>2
    DEF AcceptorStep, AcceptCheck, AcceptNothing, AcceptBreaks, AcceptPush, AcceptSpawn,
        AcceptUnlisten, AcceptSweep, AcceptClient
  <2>2. UNCHANGED pc \/ (guest \in Conns /\ pc' = [pc EXCEPT ![guest] = "loop"])
    BY <1>0, <1>2
    DEF AcceptorStep, AcceptCheck, AcceptNothing, AcceptBreaks, AcceptPush, AcceptSpawn,
        AcceptUnlisten, AcceptSweep, AcceptClient, TypeOK
  <2>3. \A c \in Conns : c = guest => pc[c] = "none"
    BY DEF IInv, Wired
  <2> QED BY <1>0, <2>1, <2>2, <2>3 DEF TypeOK, DataMatchesPlace
<1>3. ASSUME NEW c \in Conns, HandlerStep(c) \/ HandlerFails(c) PROVE Allowed'
  <2>1. CASE NextRecv(c) \/ RecvEnds(c) \/ PasvBind(c) \/ PasvReply(c) \/ QuitHangsUp(c)
             \/ QuitDone(c) \/ TransferComplete(c) \/ LeaveSession(c) \/ RemoveClient(c)
    BY <1>0, <2>1
    DEF NextRecv, RecvEnds, PasvBind, PasvReply, QuitHangsUp, QuitDone, TransferComplete,
        LeaveSession, RemoveClient, TypeOK, DataMatchesPlace
  <2>2. CASE BeginAccept(c) \/ DataAccepted(c) \/ AcceptFails(c)
    BY <1>0, <2>2 DEF BeginAccept, DataAccepted, AcceptFails, TypeOK, DataMatchesPlace
  <2>3. CASE AcceptDone(c) \/ SendData(c)
    BY <1>0, <2>3 DEF AcceptDone, SendData, TypeOK, DataMatchesPlace
  <2>4. CASE OpenFile(c) \/ DataEnds(c) \/ DataLost(c)
    BY <1>0, <2>4 DEF OpenFile, DataEnds, DataLost, TypeOK, DataMatchesPlace
  <2> QED BY <1>3, <2>1, <2>2, <2>3, <2>4 DEF HandlerStep, HandlerFails
<1>4. ASSUME NEW c \in Conns, CommandStep(c) PROVE Allowed'
  <2> USE DEF Line
  <2>0. pc[c] \in {"recv", "lines"} /\ transfer[c] = None
    BY <1>0, <1>4
    DEF CommandStep, UserCmd, PassCmd, NoopCmd, SessionCmd, PasvCmd, QuitCmd, TransferCmd,
        FileCmd, DataMatchesPlace
  <2>1. ASSUME NEW u \in Users, UserCmd(c, u) PROVE Allowed'
    <3>1. /\ \/ UNCHANGED user
             \/ user' = [user EXCEPT ![c] = u] /\ u \in Logins[c] /\ u # None
          /\ auth'[c] => auth[c] \/ user'[c] = u
      BY <1>0, <2>1, UserAssumption DEF UserCmd, TypeOK
    <3>2. \A d \in Conns \ {c} : auth'[d] = auth[d] /\ perm'[d] = perm[d]
      BY <1>0, <2>1 DEF UserCmd, TypeOK
    <3>3. UNCHANGED transfer /\ pc' = [pc EXCEPT ![c] = "lines"]
      BY <2>1 DEF UserCmd
    <3>4. ASSUME NEW d \in Conns PROVE auth'[d] => user'[d] # None
      BY <1>0, <2>1, <3>1, <3>2, UserAssumption DEF UserCmd, TypeOK
    <3> QED BY <1>0, <2>0, <3>1, <3>2, <3>3, <3>4 DEF TypeOK
  <2>2. CASE PassCmd(c)
    <3>1. UNCHANGED user /\ (auth'[c] => user[c] # None)
      BY <1>0, <2>2 DEF PassCmd, TypeOK
    <3>2. \A d \in Conns \ {c} : auth'[d] = auth[d] /\ perm'[d] = perm[d]
      BY <1>0, <2>2 DEF PassCmd, TypeOK
    <3>3. UNCHANGED transfer /\ pc' = [pc EXCEPT ![c] = "lines"]
      BY <2>2 DEF PassCmd
    <3> QED BY <1>0, <2>0, <3>1, <3>2, <3>3 DEF TypeOK
  <2>3. CASE NoopCmd(c) \/ PasvCmd(c) \/ QuitCmd(c) \/ \E cmd, rights : SessionCmd(c, cmd, rights)
    <3>1. UNCHANGED <<user, auth, perm, transfer>>
      BY <2>3 DEF NoopCmd, PasvCmd, QuitCmd, SessionCmd
    <3>2. \E label \in {"lines", "bind", "hangup"} : pc' = [pc EXCEPT ![c] = label]
      BY <2>3 DEF NoopCmd, PasvCmd, QuitCmd, SessionCmd
    <3> QED BY <1>0, <2>0, <3>1, <3>2 DEF TypeOK
  <2>4. ASSUME NEW op \in Transfers, NEW file \in Arguments, TransferCmd(c, op, file)
        PROVE  Allowed'
    <3>1. Refusal(c, op, Needed(op), file) = None =>
            /\ Needed(op) \subseteq perm[c] /\ file # None
            /\ op # "LIST" => file # NoArgument
      BY NoneAssumption DEF Refusal, Codes, Transfers
    <3>2. CASE UNCHANGED transfer /\ Goto(c, "lines")
      BY <1>0, <2>4, <3>2 DEF TransferCmd, TypeOK
    <3>3. CASE /\ Refusal(c, op, Needed(op), file) = None /\ Goto(c, "accept")
               /\ transfer' = [transfer EXCEPT ![c] = [op |-> op, file |-> file]]
      BY <1>0, <2>4, <3>1, <3>3 DEF TransferCmd, TypeOK
    <3> QED BY <2>4, <3>2, <3>3 DEF TransferCmd
  <2>5. ASSUME NEW cmd, NEW file \in Arguments, FileCmd(c, cmd, file)
        PROVE  Allowed'
    <3>1. ASSUME NEW d \in Conns
          PROVE  /\ transfer'[d] # None => transfer[d] # None /\ transfer'[d].op = transfer[d].op
                 /\ transfer'[d].file # transfer[d].file =>
                      pc[d] = "storing" /\ transfer'[d].file = None
      <4>1. CASE d \in Writers(file)
        <5>1. transfer[d] \in Jobs /\ pc[d] = "storing"
          BY <1>0, <4>1 DEF Writers, TypeOK, DataMatchesPlace
        <5>2. transfer'[d] = transfer[d] \/ transfer'[d] = [transfer[d] EXCEPT !.file = None]
          BY <2>5, <4>1 DEF FileCmd
        <5> QED BY <5>1, <5>2, NoneAssumption, FileAssumption DEF Jobs, NoArgument
      <4>2. CASE d \notin Writers(file)
        BY <2>5, <4>2 DEF FileCmd
      <4> QED BY <4>1, <4>2
    <3>2. UNCHANGED <<user, auth, perm>> /\ pc' = [pc EXCEPT ![c] = "lines"]
      BY <2>5 DEF FileCmd
    <3>3. \A d \in Conns : pc'[d] \in {"send", "open", "storing"} => transfer'[d] # None
      <4>1. DataMatchesPlace'
        BY NextDataMatchesPlace
      <4> QED BY <4>1 DEF DataMatchesPlace
    <3>4. None # NoArgument
      BY FileAssumption DEF NoArgument
    <3> QED BY <1>0, <2>0, <3>1, <3>2, <3>3, <3>4 DEF TypeOK
  <2> QED BY <1>4, <2>1, <2>2, <2>3, <2>4, <2>5 DEF CommandStep
<1>5. ASSUME NEW c \in Conns, ClientStep(c) PROVE Allowed'
  BY <1>0, <1>5 DEF ClientStep, ClientConnect, ClientClose, DataConnect, DataClose
<1>6. CASE UNCHANGED vars
  BY <1>0, <1>6 DEF vars
<1> QED BY <1>1, <1>2, <1>3, <1>4, <1>5, <1>6 DEF Next

-----------------------------------------------------------------------------
(* The inductive invariant.                                                    *)
(* It holds of a server that has not been started.                             *)
LEMMA InitIInv == Init => IInv
<1> SUFFICES ASSUME Init PROVE IInv
  OBVIOUS
<1>1. TypeOK
  BY InitTypeOK
<1>2. OpenIsListed /\ StoppedIsQuiescent /\ DataMatchesPlace
  BY DEF Init, OpenIsListed, StoppedIsQuiescent, DataMatchesPlace, Live, Places
<1>3. PhasesAgree /\ Wired
  BY ConnAssumption DEF Init, PhasesAgree, Wired, Live, Places
<1>4. SaidGoodbye /\ Allowed /\ SocketsAreFound
  BY NoneAssumption DEF Init, SaidGoodbye, Allowed, Codes, SocketsAreFound
<1> QED BY <1>1, <1>2, <1>3, <1>4 DEF IInv

(* Every state of the server satisfies it.                                     *)
THEOREM Consistency == Spec => []IInv
<1>1. Init => IInv
  BY InitIInv
<1>2. IInv /\ [Next]_vars => IInv'
  BY NextTypeOK, NextOpenIsListed, NextStoppedIsQuiescent, NextDataMatchesPlace,
     NextPhasesAgree, NextWired, NextSaidGoodbye, NextAllowed, NextSocketsAreFound
  DEF IInv
<1> QED BY <1>1, <1>2, PTL DEF Spec

(* The server keeps its types.                                                 *)
THEOREM TypeInvariance == Spec => []TypeOK
<1>1. IInv => TypeOK
  BY DEF IInv
<1> QED BY <1>1, Consistency, PTL

(* Nobody is open whom stop() and the acceptor would not find in clients_.     *)
THEOREM OpenAreListed == Spec => []OpenIsListed
<1>1. IInv => OpenIsListed
  BY DEF IInv
<1> QED BY <1>1, Consistency, PTL

(* When stop() has returned nothing of the server is left.                     *)
THEOREM StopLeavesNothing == Spec => []StoppedIsQuiescent
<1>1. IInv => StoppedIsQuiescent
  BY DEF IInv
<1> QED BY <1>1, Consistency, PTL

(* Sockets are given and closed, never taken away.                             *)
LEMMA NextHasSocket == IInv /\ HasSocket /\ [Next]_vars => HasSocket'
<1> SUFFICES ASSUME IInv, HasSocket, [Next]_vars PROVE HasSocket'
  OBVIOUS
<1> USE DEF HasSocket, Goto
<1>0. TypeOK /\ Wired
  BY DEF IInv
<1>1. CASE OwnerStep
  BY <1>0, <1>1
  DEF OwnerStep, Start, StopAgain, StopBegin, StopStep, StopSweep, StopJoinAcceptor,
      StopJoinAll, ClearUsers, AddUser, CloseClients, acceptorVars, sessionVars,
      usersFrame, vars
<1>2. CASE AcceptorStep
  BY <1>0, <1>2, ConnAssumption
  DEF AcceptorStep, AcceptCheck, AcceptNothing, AcceptBreaks, AcceptPush, AcceptSpawn,
      AcceptUnlisten, AcceptSweep, AcceptClient, CloseClients, TypeOK
<1>3. ASSUME NEW c \in Conns, HandlerStep(c) \/ HandlerFails(c) PROVE HasSocket'
  BY <1>0, <1>3
  DEF HandlerStep, NextRecv, RecvEnds, PasvBind, PasvReply, QuitHangsUp, QuitDone,
      CloseOwnPasv, Overwritten, SocketForgotten, BeginAccept, DataAccepted, AcceptDone,
      SendData, OpenFile, DataEnds, HandlerFails, AcceptFails, DataLost, TransferComplete,
      LeaveSession, RemoveClient, CloseClients, commandFrame, threadFrame, acceptorVars,
      TypeOK
<1>4. ASSUME NEW c \in Conns, CommandStep(c) PROVE HasSocket'
  BY <1>0, <1>4
  DEF CommandStep, UserCmd, PassCmd, NoopCmd, SessionCmd, PasvCmd, QuitCmd, TransferCmd,
      FileCmd, Line, CloseClients, commandFrame, threadFrame, acceptorVars, TypeOK
<1>5. ASSUME NEW c \in Conns, ClientStep(c) PROVE HasSocket'
  BY <1>0, <1>5
  DEF ClientStep, ClientConnect, ClientClose, DataConnect, DataClose, clientFrame, acceptorVars
<1>6. CASE UNCHANGED vars
  BY <1>6 DEF vars, acceptorVars
<1> QED BY <1>1, <1>2, <1>3, <1>4, <1>5, <1>6 DEF Next

(* stop() waits for no thread whose control socket is open, over any number of *)
(* starts: the sweeps of stop() and of the acceptor shut them all down.        *)
THEOREM StopHangsUpAll == Spec => []DrainingIsHungUp
<1>1. Init => HasSocket
  BY ConnAssumption DEF Init, HasSocket
<1>2. IInv /\ HasSocket => DrainingIsHungUp
  <2> SUFFICES ASSUME IInv, HasSocket, owner = "draining", NEW c \in Conns, Live(c)
               PROVE  sock[c] = "closed"
    BY DEF DrainingIsHungUp
  <2>1. acceptor = "none" /\ clients = {}
    BY DEF IInv, PhasesAgree
  <2>2. sock[c] \notin {"open", "stale"}
    BY <2>1 DEF IInv, OpenIsListed
  <2>3. sock[c] # "none"
    BY DEF HasSocket, Live, Places
  <2> QED BY <2>2, <2>3 DEF IInv, TypeOK
<1>3. IInv /\ HasSocket /\ [Next]_vars => HasSocket'
  BY NextHasSocket
<1> QED BY <1>1, <1>2, <1>3, Consistency, PTL DEF Spec

(* No transfer inherits the port or the connection of another.                 *)
THEOREM DataIsTheTransfers == Spec => []DataMatchesPlace
<1>1. IInv => DataMatchesPlace
  BY DEF IInv
<1> QED BY <1>1, Consistency, PTL

(* Nothing is sent after 221: whoever said it has closed the socket.           *)
THEOREM NothingFollowsGoodbye == Spec => GoodbyeIsLast
<1>1. ASSUME IInv, [Next]_vars
      PROVE  [\A c \in Conns : last[c] = 221 => last'[c] = 221]_vars
  <2> SUFFICES ASSUME NEW c \in Conns, last[c] = 221 PROVE last'[c] = 221
    OBVIOUS
  <2>1. TypeOK /\ sock[c] # "open"
    BY <1>1 DEF IInv, SaidGoodbye
  <2>2. ASSUME NEW d, NEW code, Reply(d, code) PROVE last'[c] = last[c]
    BY <2>1, <2>2 DEF Reply, TypeOK
  <2>3. CASE OwnerStep
    BY <2>3
    DEF OwnerStep, Start, StopAgain, StopBegin, StopStep, StopSweep, StopJoinAcceptor,
        StopJoinAll, ClearUsers, AddUser, vars
  <2>4. CASE AcceptorStep
    BY <2>2, <2>4
    DEF AcceptorStep, AcceptCheck, AcceptNothing, AcceptBreaks, AcceptPush, AcceptSpawn,
        AcceptUnlisten, AcceptSweep, AcceptClient
  <2>5. ASSUME NEW d \in Conns, HandlerStep(d) \/ HandlerFails(d) PROVE last'[c] = last[c]
    BY <2>2, <2>5
    DEF HandlerStep, NextRecv, RecvEnds, PasvBind, PasvReply, QuitHangsUp, QuitDone,
        CloseOwnPasv, Overwritten, SocketForgotten, BeginAccept, DataAccepted, AcceptDone,
        SendData, OpenFile, DataEnds, HandlerFails, AcceptFails, DataLost,
        TransferComplete, LeaveSession, RemoveClient
  <2>6. ASSUME NEW d \in Conns, CommandStep(d) PROVE last'[c] = last[c]
    BY <2>2, <2>6
    DEF CommandStep, UserCmd, PassCmd, NoopCmd, SessionCmd, PasvCmd, QuitCmd, TransferCmd,
        FileCmd
  <2>7. ASSUME NEW d \in Conns, ClientStep(d) PROVE last'[c] = last[c]
    BY <2>7 DEF ClientStep, ClientConnect, ClientClose, DataConnect, DataClose
  <2>8. CASE UNCHANGED vars
    BY <2>8 DEF vars
  <2> QED BY <1>1, <2>3, <2>4, <2>5, <2>6, <2>7, <2>8 DEF Next
<1> QED BY <1>1, Consistency, PTL DEF Spec, GoodbyeIsLast

(* While the server accepts clients no number is closed twice: a thread that   *)
(* comes to remove_client() has overwritten what it closed.                    *)
THEOREM NumbersAreClosedOnce == Spec => NothingIsClosedTwice
<1>1. ASSUME IInv, [Next]_vars PROVE [again' # again => ~running \/ ~listener]_vars
  <2>0. TypeOK /\ PhasesAgree /\ Wired /\ DataMatchesPlace
    BY <1>1 DEF IInv
  <2>1. CASE StopSweep \/ AcceptSweep
    BY <2>0, <2>1 DEF StopSweep, AcceptSweep, PhasesAgree
  <2>2. ASSUME NEW c \in Conns, RemoveClient(c) PROVE UNCHANGED again
    <3>1. "stale" \notin {sock[c], passive[c]}
      BY <2>0, <2>2 DEF RemoveClient, Wired, DataMatchesPlace
    <3> QED BY <2>2, <3>1 DEF RemoveClient, CloseClients, ClosesAgain
  <2>3. CASE OwnerStep /\ ~StopSweep
    BY <2>3
    DEF OwnerStep, Start, StopAgain, StopBegin, StopStep, StopJoinAcceptor, StopJoinAll,
        ClearUsers, AddUser, vars
  <2>4. CASE AcceptorStep /\ ~AcceptSweep
    BY <2>4
    DEF AcceptorStep, AcceptCheck, AcceptNothing, AcceptBreaks, AcceptPush, AcceptSpawn,
        AcceptUnlisten, AcceptClient
  <2>5. ASSUME NEW c \in Conns, HandlerStep(c) \/ HandlerFails(c), ~RemoveClient(c)
        PROVE  UNCHANGED again
    BY <2>5
    DEF HandlerStep, NextRecv, RecvEnds, PasvBind, PasvReply, QuitHangsUp, QuitDone,
        BeginAccept, DataAccepted, AcceptDone, SendData, OpenFile, DataEnds,
        TransferComplete, LeaveSession, HandlerFails, AcceptFails, DataLost
  <2>6. ASSUME NEW c \in Conns, CommandStep(c) PROVE UNCHANGED again
    BY <2>6
    DEF CommandStep, UserCmd, PassCmd, NoopCmd, SessionCmd, PasvCmd, QuitCmd, TransferCmd,
        FileCmd
  <2>7. ASSUME NEW c \in Conns, ClientStep(c) PROVE UNCHANGED again
    BY <2>7 DEF ClientStep, ClientConnect, ClientClose, DataConnect, DataClose
  <2> QED BY <1>1, <2>1, <2>2, <2>3, <2>4, <2>5, <2>6, <2>7 DEF Next
<1> QED BY <1>1, Consistency, PTL DEF Spec, NothingIsClosedTwice

-----------------------------------------------------------------------------
(* The refinement of ServerLifecycle: a client is worked for from the spawn of *)
(* its thread to the end of remove_client().                                   *)

(* A server that has not been started works for nobody.                        *)
LEMMA InitImplements == Init => Lifecycle!Init
BY DEF Init, Lifecycle!Init, Phase, Live, Places

(* A client's thread ends in remove_client(), and is there till then.          *)
LEMMA ThreadImplements ==
  ASSUME IInv, NEW c \in Conns, HandlerStep(c) \/ HandlerFails(c) \/ CommandStep(c)
  PROVE  Lifecycle!Next \/ UNCHANGED Lifecycle!vars
<1> DEFINE working == {d \in Conns : Live(d)}
<1>0. pc \in [Conns -> Places \union {"none", "exited"}] /\ "exited" \notin Places
  BY DEF IInv, TypeOK, Places
<1>1. Phase' = Phase
  BY DEF HandlerStep, NextRecv, RecvEnds, PasvBind, PasvReply, QuitHangsUp, QuitDone,
         CloseOwnPasv, Overwritten, SocketForgotten, BeginAccept, DataAccepted, AcceptDone,
         SendData, OpenFile, DataEnds, HandlerFails, AcceptFails, DataLost,
         TransferComplete, LeaveSession, RemoveClient, CommandStep, UserCmd, PassCmd,
         NoopCmd, SessionCmd, PasvCmd, QuitCmd, TransferCmd, FileCmd, Phase
<1>2. CASE RemoveClient(c)
  <2>1. c \in working /\ pc' = [pc EXCEPT ![c] = "exited"]
    BY <1>2 DEF RemoveClient, Live, Places, Goto
  <2>2. working' = working \ {c}
    BY <1>0, <2>1 DEF Live
  <2> QED BY <1>1, <2>1, <2>2 DEF Lifecycle!Next, Lifecycle!Finish
<1>3. CASE ~RemoveClient(c)
  <2>1. pc[c] \in Places /\ \E label \in Places : Goto(c, label)
    <3>1. CASE HandlerStep(c) \/ HandlerFails(c)
      BY <1>3, <3>1
      DEF HandlerStep, NextRecv, RecvEnds, PasvBind, PasvReply, QuitHangsUp, QuitDone,
          CloseOwnPasv, Overwritten, SocketForgotten, BeginAccept, DataAccepted,
          AcceptDone, SendData, OpenFile, DataEnds, HandlerFails, AcceptFails, DataLost,
          TransferComplete, LeaveSession, Places
    <3>2. CASE CommandStep(c)
      <4>1. pc[c] \in {"recv", "lines"}
        BY <3>2
        DEF CommandStep, UserCmd, PassCmd, NoopCmd, SessionCmd, PasvCmd, QuitCmd,
            TransferCmd, FileCmd, Line
      <4>2. \E label \in {"lines", "bind", "hangup", "accept"} : Goto(c, label)
        BY <3>2
        DEF CommandStep, UserCmd, PassCmd, NoopCmd, SessionCmd, PasvCmd, QuitCmd,
            TransferCmd, FileCmd
      <4> QED BY <4>1, <4>2 DEF Places
    <3> QED BY <3>1, <3>2
  <2>2. working' = working
    BY <1>0, <2>1 DEF Live, Goto
  <2> QED BY <1>1, <2>2 DEF Lifecycle!vars
<1> QED BY <1>2, <1>3

(* Every step maps to one of ServerLifecycle or to a stutter.                  *)
LEMMA NextImplements == IInv /\ [Next]_vars => [Lifecycle!Next]_Lifecycle!vars
<1> SUFFICES ASSUME IInv, [Next]_vars
             PROVE  Lifecycle!Next \/ UNCHANGED Lifecycle!vars
  OBVIOUS
<1> DEFINE working == {d \in Conns : Live(d)}
<1>0. TypeOK /\ PhasesAgree /\ Wired
  BY DEF IInv
<1>1. CASE OwnerStep
  <2>1. working' = working
    BY <1>1 DEF OwnerStep, Start, StopAgain, StopBegin, StopStep, StopSweep,
                StopJoinAcceptor, StopJoinAll, ClearUsers, AddUser, vars, Live
  <2>2. CASE Start
    BY <2>1, <2>2 DEF Start, Phase, Lifecycle!Next, Lifecycle!Start
  <2>3. CASE StopBegin
    BY <2>1, <2>3 DEF StopBegin, Phase, Lifecycle!Next, Lifecycle!BeginStop
  <2>4. CASE StopJoinAcceptor
    BY <2>1, <2>4 DEF StopJoinAcceptor, Phase, Lifecycle!Next, Lifecycle!JoinAcceptor
  <2>5. CASE StopJoinAll
    <3>1. working = {}
      BY <1>0, <2>5 DEF StopJoinAll, AllDone, Wired, Live, Places
    <3> QED BY <2>1, <2>5, <3>1 DEF StopJoinAll, Phase, Lifecycle!Next, Lifecycle!EndStop
  <2>6. CASE StopAgain \/ StopSweep \/ ClearUsers
             \/ \E u \in Users : \E rights \in Grants[u] : AddUser(u, rights)
    <3>1. Phase' = Phase
      BY <2>6 DEF StopAgain, StopSweep, ClearUsers, AddUser, Phase, vars
    <3> QED BY <2>1, <3>1 DEF Lifecycle!vars
  <2> QED BY <1>1, <2>2, <2>3, <2>4, <2>5, <2>6 DEF OwnerStep, StopStep
<1>2. CASE AcceptorStep
  <2>1. Phase' = Phase
    BY <1>2 DEF AcceptorStep, AcceptCheck, AcceptNothing, AcceptBreaks, AcceptPush,
                AcceptSpawn, AcceptUnlisten, AcceptSweep, AcceptClient, Phase
  <2>2. CASE AcceptSpawn
    <3>1. Phase \in {"serving", "closing"} /\ guest \in Conns /\ guest \notin working
      BY <1>0, <2>2 DEF AcceptSpawn, PhasesAgree, Wired, Phase, TypeOK, Live, Places
    <3>2. working' = working \union {guest}
      BY <1>0, <2>2, <3>1 DEF AcceptSpawn, TypeOK, Goto, Live, Places
    <3> QED BY <2>1, <3>1, <3>2 DEF Lifecycle!Next, Lifecycle!Take
  <2>3. CASE ~AcceptSpawn
    <3>1. working' = working
      BY <1>2, <2>3
      DEF AcceptorStep, AcceptCheck, AcceptNothing, AcceptBreaks, AcceptPush,
          AcceptUnlisten, AcceptSweep, AcceptClient, Live
    <3> QED BY <2>1, <3>1 DEF Lifecycle!vars
  <2> QED BY <2>2, <2>3
<1>3. ASSUME NEW c \in Conns, HandlerStep(c) \/ HandlerFails(c) \/ CommandStep(c)
      PROVE  Lifecycle!Next \/ UNCHANGED Lifecycle!vars
  BY <1>3, ThreadImplements
<1>4. ASSUME NEW c \in Conns, ClientStep(c) PROVE UNCHANGED Lifecycle!vars
  BY <1>4 DEF ClientStep, ClientConnect, ClientClose, DataConnect, DataClose, Phase, Live,
              Lifecycle!vars
<1>5. CASE UNCHANGED vars
  BY <1>5 DEF vars, Phase, Live, Lifecycle!vars
<1> QED BY <1>1, <1>2, <1>3, <1>4, <1>5 DEF Next

(* start() and stop() are those of ServerLifecycle: a client gets its thread   *)
(* only before the acceptor is joined, and stop() returns only when every      *)
(* client's thread has left.                                                   *)
THEOREM FtpImplementsLifecycle == Spec => ImplementsLifecycle
BY InitImplements, NextImplements, Consistency, PTL
DEF Spec, ImplementsLifecycle, Lifecycle!Spec

-----------------------------------------------------------------------------
(* Files.                                                                      *)

(* Where only w may write, nobody else has a file open or changes the          *)
(* directory.                                                                  *)
LEMMA NextOwnFile ==
  ASSUME NEW w \in Conns, IInv, OnlyWriter(w), OwnFile(w), [Next]_vars
  PROVE  OwnFile(w)'
<1> USE DEF Goto
<1>0. TypeOK /\ DataMatchesPlace /\ Allowed
  BY DEF IInv
<1>1. ASSUME NEW d \in Conns, d # w PROVE pc[d] \notin {"open", "storing"}
  BY <1>0, <1>1 DEF OnlyWriter, Allowed, DataMatchesPlace, Needed
<1>2. CASE OwnerStep
  BY <1>2
  DEF OwnerStep, Start, StopAgain, StopBegin, StopStep, StopSweep, StopJoinAcceptor,
      StopJoinAll, ClearUsers, AddUser, vars, OwnFile
<1>3. CASE AcceptorStep
  <2>1. UNCHANGED <<transfer, store, cut>>
    BY <1>3
    DEF AcceptorStep, AcceptCheck, AcceptNothing, AcceptBreaks, AcceptPush, AcceptSpawn,
        AcceptUnlisten, AcceptSweep, AcceptClient
  <2>2. pc'[w] = pc[w] \/ pc'[w] = "loop"
    BY <1>0, <1>3
    DEF AcceptorStep, AcceptCheck, AcceptNothing, AcceptBreaks, AcceptPush, AcceptSpawn,
        AcceptUnlisten, AcceptSweep, AcceptClient, TypeOK
  <2> QED BY <2>1, <2>2 DEF OwnFile
<1>4. ASSUME NEW c \in Conns, HandlerStep(c) \/ HandlerFails(c) PROVE OwnFile(w)'
  <2>1. CASE c # w
    <3>1. UNCHANGED store /\ (w \in cut' <=> w \in cut)
      BY <1>1, <1>4, <2>1
      DEF HandlerStep, NextRecv, RecvEnds, PasvBind, PasvReply, QuitHangsUp, QuitDone,
          CloseOwnPasv, Overwritten, SocketForgotten, BeginAccept, DataAccepted,
          AcceptDone, SendData, OpenFile, DataEnds, HandlerFails, AcceptFails, DataLost,
          TransferComplete, LeaveSession, RemoveClient
    <3>2. pc'[w] = pc[w] /\ transfer'[w] = transfer[w]
      BY <1>0, <1>4, <2>1
      DEF HandlerStep, NextRecv, RecvEnds, PasvBind, PasvReply, QuitHangsUp, QuitDone,
          CloseOwnPasv, Overwritten, SocketForgotten, BeginAccept, DataAccepted,
          AcceptDone, SendData, OpenFile, DataEnds, HandlerFails, AcceptFails, DataLost,
          TransferComplete, LeaveSession, RemoveClient, TypeOK
    <3> QED BY <3>1, <3>2 DEF OwnFile
  <2>2. CASE c = w /\ OpenFile(w)
    <3>1. transfer[w] \in Jobs /\ transfer[w].file \in Files
      BY <1>0, <2>2 DEF OpenFile, TypeOK, DataMatchesPlace, Allowed, Jobs, Arguments
    <3>2. Writers(transfer[w].file) = {}
      BY <1>1, <2>2 DEF OpenFile, Writers
    <3> QED BY <1>0, <2>2, <3>1, <3>2 DEF OpenFile, OwnFile, TypeOK
  <2>3. CASE c = w /\ (DataEnds(w) \/ DataLost(w))
    BY <1>0, <2>3 DEF DataEnds, DataLost, Flushed, OwnFile, TypeOK
  <2>4. CASE c = w /\ (SendData(w) \/ BeginAccept(w) \/ DataAccepted(w))
    BY <1>0, <2>4 DEF SendData, BeginAccept, DataAccepted, OwnFile, TypeOK, Allowed
  <2>5. CASE c = w /\ (AcceptDone(w) \/ AcceptFails(w))
    BY <1>0, <2>5 DEF AcceptDone, AcceptFails, OwnFile, TypeOK, Allowed
  <2>6. CASE /\ c = w
             /\ \/ NextRecv(w) \/ RecvEnds(w) \/ PasvBind(w) \/ PasvReply(w)
                \/ QuitHangsUp(w) \/ QuitDone(w) \/ TransferComplete(w)
                \/ LeaveSession(w) \/ RemoveClient(w)
    BY <1>0, <2>6
    DEF NextRecv, RecvEnds, PasvBind, PasvReply, QuitHangsUp, QuitDone, TransferComplete,
        LeaveSession, RemoveClient, OwnFile, TypeOK
  <2> QED BY <1>4, <2>1, <2>2, <2>3, <2>4, <2>5, <2>6 DEF HandlerStep, HandlerFails
<1>5. ASSUME NEW c \in Conns, CommandStep(c) PROVE OwnFile(w)'
  <2>1. CASE c = w
    <3>1. pc'[w] \in {"lines", "bind", "hangup", "accept"}
      BY <1>0, <1>5, <2>1
      DEF CommandStep, UserCmd, PassCmd, NoopCmd, SessionCmd, PasvCmd, QuitCmd,
          TransferCmd, FileCmd, TypeOK
    <3> QED BY <3>1 DEF OwnFile
  <2>2. CASE c # w
    <3>1. ASSUME NEW cmd, NEW file PROVE Refusal(c, cmd, {"write"}, file) # None
      BY <2>2, NoneAssumption DEF OnlyWriter, Refusal, Codes
    <3>2. UNCHANGED <<store, cut>> /\ pc'[w] = pc[w] /\ transfer'[w] = transfer[w]
      BY <1>0, <1>5, <2>2, <3>1
      DEF CommandStep, UserCmd, PassCmd, NoopCmd, SessionCmd, PasvCmd, QuitCmd,
          TransferCmd, FileCmd, TypeOK
    <3> QED BY <3>2 DEF OwnFile
  <2> QED BY <2>1, <2>2
<1>6. ASSUME NEW c \in Conns, ClientStep(c) PROVE OwnFile(w)'
  BY <1>6 DEF ClientStep, ClientConnect, ClientClose, DataConnect, DataClose, OwnFile
<1>7. CASE UNCHANGED vars
  BY <1>7 DEF vars, OwnFile
<1> QED BY <1>2, <1>3, <1>4, <1>5, <1>6, <1>7 DEF Next

(* Where only one client ever has the right to write, 226 answers a STOR that  *)
(* was read to its end and written without an error only when the whole file   *)
(* is in the directory.                                                        *)
THEOREM StoredFilesAreWhole ==
  ASSUME NEW w \in Conns
  PROVE  Spec /\ []OnlyWriter(w) => []StoredIsWhole
<1>1. Init => OwnFile(w)
  BY DEF Init, OwnFile
<1>2. IInv /\ OnlyWriter(w) /\ OwnFile(w) /\ [Next]_vars => OwnFile(w)'
  BY NextOwnFile
<1>3. IInv /\ OnlyWriter(w) /\ OwnFile(w) => StoredIsWhole
  <2> SUFFICES ASSUME IInv, OnlyWriter(w), OwnFile(w), NEW c \in Conns,
                      pc[c] = "complete", transfer[c].op = "STOR", c \notin cut
               PROVE  transfer[c].file \in Files /\ store[transfer[c].file] = "whole"
    BY DEF StoredIsWhole
  <2>1. "write" \in perm[c]
    BY DEF IInv, DataMatchesPlace, Allowed, Needed
  <2> QED BY <2>1 DEF OnlyWriter, OwnFile
<1> QED BY <1>1, <1>2, <1>3, Consistency, PTL DEF Spec

-----------------------------------------------------------------------------
(* connected_users().                                                          *)

(* A name is in conn_users_ as long as the one session that has it, when no     *)
(* session shares or changes its name.                                         *)
LEMMA NextConnected ==
  ASSUME IInv, NoSharedName, NoSharedName', NameKept, ConnectedMatchesSessions, [Next]_vars
  PROVE  ConnectedMatchesSessions'
<1> USE DEF Goto
<1>0. TypeOK /\ Wired /\ Allowed
  BY DEF IInv
<1>1. CASE UNCHANGED <<connected, user>> /\ \A c \in Conns : Session(c)' = Session(c)
  BY <1>1 DEF ConnectedMatchesSessions
<1>2. CASE OwnerStep \/ (\E c \in Conns : ClientStep(c)) \/ UNCHANGED vars
  <2>1. UNCHANGED <<connected, user, auth, pc>>
    BY <1>2
    DEF OwnerStep, Start, StopAgain, StopBegin, StopStep, StopSweep, StopJoinAcceptor,
        StopJoinAll, ClearUsers, AddUser, vars, ClientStep, ClientConnect, ClientClose,
        DataConnect, DataClose
  <2> QED BY <1>1, <2>1 DEF Session, Live
<1>3. CASE AcceptorStep
  <2>1. UNCHANGED <<connected, user, auth>>
    BY <1>3
    DEF AcceptorStep, AcceptCheck, AcceptNothing, AcceptBreaks, AcceptPush, AcceptSpawn,
        AcceptUnlisten, AcceptSweep, AcceptClient
  <2>2. ASSUME NEW c \in Conns PROVE pc'[c] = pc[c] \/ ~auth[c]
    BY <1>0, <1>3
    DEF AcceptorStep, AcceptCheck, AcceptNothing, AcceptBreaks, AcceptPush, AcceptSpawn,
        AcceptUnlisten, AcceptSweep, AcceptClient, TypeOK, Wired
  <2> QED BY <1>1, <2>1, <2>2 DEF Session, Live
<1>4. ASSUME NEW c \in Conns, HandlerStep(c) \/ HandlerFails(c) PROVE ConnectedMatchesSessions'
  <2>1. CASE LeaveSession(c)
    <3>1. /\ UNCHANGED <<user, auth>> /\ pc[c] = "leave" /\ pc' = [pc EXCEPT ![c] = "remove"]
          /\ connected' = IF auth[c] THEN connected \ {user[c]} ELSE connected
      BY <2>1 DEF LeaveSession, Forgotten
    <3>2. ~Session(c)' /\ \A d \in Conns \ {c} : Session(d)' = Session(d)
      BY <1>0, <3>1 DEF TypeOK, Session, Live
    <3>3. \A d \in Conns \ {c} : Session(d) /\ auth[c] => user[d] # user[c]
      BY <3>1 DEF NoSharedName, Session, Live, Places
    <3>4. Session(c) <=> auth[c]
      BY <3>1 DEF Session, Live, Places
    <3> QED BY <3>1, <3>2, <3>3, <3>4 DEF ConnectedMatchesSessions
  <2>2. CASE ~LeaveSession(c)
    <3>1. UNCHANGED <<connected, user, auth>> /\ \A d \in Conns \ {c} : pc'[d] = pc[d]
      BY <1>0, <1>4, <2>2
      DEF HandlerStep, NextRecv, RecvEnds, PasvBind, PasvReply, QuitHangsUp, QuitDone,
          CloseOwnPasv, Overwritten, SocketForgotten, BeginAccept, DataAccepted,
          AcceptDone, SendData, OpenFile, DataEnds, HandlerFails, AcceptFails, DataLost,
          TransferComplete, RemoveClient, TypeOK
    <3>2. pc[c] \in Places \ {"remove"} <=> pc'[c] \in Places \ {"remove"}
      BY <1>0, <1>4, <2>2
      DEF HandlerStep, NextRecv, RecvEnds, PasvBind, PasvReply, QuitHangsUp, QuitDone,
          CloseOwnPasv, Overwritten, SocketForgotten, BeginAccept, DataAccepted,
          AcceptDone, SendData, OpenFile, DataEnds, HandlerFails, AcceptFails, DataLost,
          TransferComplete, RemoveClient, TypeOK, Places
    <3>3. \A d \in Conns : Session(d)' = Session(d)
      BY <3>1, <3>2 DEF Session, Live
    <3> QED BY <1>1, <3>1, <3>3
  <2> QED BY <2>1, <2>2
<1>5. ASSUME NEW c \in Conns, CommandStep(c) PROVE ConnectedMatchesSessions'
  <2>0. /\ pc[c] \in Places \ {"remove"} /\ pc'[c] \in Places \ {"remove"}
        /\ \A d \in Conns \ {c} : pc'[d] = pc[d]
    BY <1>0, <1>5
    DEF CommandStep, UserCmd, PassCmd, NoopCmd, SessionCmd, PasvCmd, QuitCmd, TransferCmd,
        FileCmd, Line, TypeOK, Places
  <2>1. (Session(c) <=> auth[c]) /\ (Session(c)' <=> auth'[c])
    BY <2>0 DEF Session, Live
  <2>2. CASE UNCHANGED <<connected, user, auth>>
    <3>1. \A d \in Conns : Session(d)' = Session(d)
      BY <2>0, <2>2 DEF Session, Live
    <3> QED BY <1>1, <2>2, <3>1
  <2>3. ASSUME NEW u \in Logins[c], auth'[c] = TRUE, user' = [user EXCEPT ![c] = u],
               \A d \in Conns \ {c} : auth'[d] = auth[d],
               connected' = connected \union {u}
        PROVE  ConnectedMatchesSessions'
    <3>1. auth[c] => user[c] = u
      BY <1>0, <2>3 DEF NameKept, TypeOK
    <3>2. \A d \in Conns \ {c} : Session(d)' = Session(d) /\ user'[d] = user[d]
      BY <1>0, <2>0, <2>3 DEF Session, Live, TypeOK
    <3>3. Session(c)' /\ user'[c] = u
      BY <1>0, <2>1, <2>3 DEF TypeOK
    <3> QED BY <2>1, <2>3, <3>1, <3>2, <3>3 DEF ConnectedMatchesSessions
  <2>4. ASSUME NEW u \in Users, UserCmd(c, u) PROVE ConnectedMatchesSessions'
    <3>1. CASE /\ user' = [user EXCEPT ![c] = u] /\ auth' = [auth EXCEPT ![c] = TRUE]
               /\ connected' = connected \union {u}
      <4>1. auth'[c] = TRUE /\ \A d \in Conns \ {c} : auth'[d] = auth[d]
        BY <1>0, <3>1 DEF TypeOK
      <4> QED BY <2>3, <2>4, <3>1, <4>1 DEF UserCmd
    <3>2. CASE user' = [user EXCEPT ![c] = u] /\ UNCHANGED <<auth, connected>>
      <4>1. auth[c] => user[c] = u
        BY <1>0, <3>2 DEF NameKept, TypeOK
      <4>2. \A d \in Conns : Session(d)' = Session(d)
        BY <2>0, <3>2 DEF Session, Live
      <4>3. \A d \in Conns : Session(d) => user'[d] = user[d]
        BY <1>0, <3>2, <4>1 DEF Session, TypeOK
      <4> QED BY <3>2, <4>2, <4>3 DEF ConnectedMatchesSessions
    <3> QED BY <2>2, <2>4, <3>1, <3>2 DEF UserCmd
  <2>5. CASE PassCmd(c)
    <3>1. CASE /\ user[c] # None /\ auth' = [auth EXCEPT ![c] = TRUE] /\ UNCHANGED user
               /\ connected' = connected \union {user[c]}
      <4>1. auth'[c] = TRUE /\ \A d \in Conns \ {c} : auth'[d] = auth[d]
        BY <1>0, <3>1 DEF TypeOK
      <4>2. user[c] \in Logins[c] /\ user' = [user EXCEPT ![c] = user[c]]
        BY <1>0, <3>1 DEF Allowed, TypeOK
      <4> QED BY <2>3, <3>1, <4>1, <4>2
    <3> QED BY <2>2, <2>5, <3>1 DEF PassCmd, Tracked
  <2>6. CASE \/ NoopCmd(c) \/ (\E cmd, rights : SessionCmd(c, cmd, rights)) \/ PasvCmd(c)
             \/ QuitCmd(c) \/ (\E op, file : TransferCmd(c, op, file))
             \/ \E cmd, file : FileCmd(c, cmd, file)
    BY <2>2, <2>6 DEF NoopCmd, SessionCmd, PasvCmd, QuitCmd, TransferCmd, FileCmd
  <2> QED BY <1>5, <2>4, <2>5, <2>6 DEF CommandStep
<1> QED BY <1>2, <1>3, <1>4, <1>5 DEF Next

(* connected_users() names exactly those who are logged in, as long as no two  *)
(* sessions have one name at a time and no session changes its name: whatever  *)
(* names clients give one after the other.                                     *)
THEOREM ConnectedUsersAreTrue ==
  Spec /\ []NoSharedName /\ [][NameKept]_vars => []ConnectedMatchesSessions
<1>1. Init => ConnectedMatchesSessions
  BY DEF Init, ConnectedMatchesSessions, Session, Live, Places
<1>2. /\ IInv /\ NoSharedName /\ NoSharedName' /\ ConnectedMatchesSessions
      /\ [Next]_vars /\ [NameKept]_vars
      => ConnectedMatchesSessions'
  <2>1. CASE UNCHANGED vars
    BY <2>1 DEF vars, ConnectedMatchesSessions, Session, Live
  <2> QED BY <2>1, NextConnected
<1> QED BY <1>1, <1>2, Consistency, PTL DEF Spec
=============================================================================
