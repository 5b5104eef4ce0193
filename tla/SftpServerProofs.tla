-------------------------- MODULE SftpServerProofs --------------------------
(* For any number of sessions, users and connections, however addresses of     *)
(* sessions are used again and names are shared: what the SFTP server keeps    *)
(* about a session agrees with where its thread is (IInv), and the server      *)
(* implements ServerLifecycle.                                                 *)
EXTENDS SftpProperties, TLAPS

USE DEF ownerVars, serverVars, acceptorVars, netVars, accountVars, loginVars,
        setupVars, sessionVars, stopFrame, usersFrame, acceptFrame, threadFrame,
        Serving, Live

-----------------------------------------------------------------------------
(* The initial state.                                                          *)

(* Nothing is kept about any session before start().                           *)
LEMMA InitIInv == Init => IInv
<1> SUFFICES ASSUME Init PROVE IInv
  OBVIOUS
<1>1. TypeOK
  <2>1. starts \in 0..MaxStarts /\ made \in 0..MaxConns /\ backlog \in 0..made
    BY BoundAssumption DEF Init
  <2>2. /\ handshakes \in [Sessions -> (SUBSET {"channel", "subsystem"}) \union {None}]
        /\ ctx \in [Sessions -> [user : Users \union {None}, found : BOOLEAN] \union {None}]
    BY DEF Init
  <2> QED BY <2>1, <2>2, SessionAssumption DEF Init, TypeOK
<1>2. Wired /\ PhasesAgree
  BY DEF Init, Wired, PhasesAgree
<1>3. ListedHasSession /\ ServedAsLoggedIn
  BY DEF Init, ListedHasSession, ServedAsLoggedIn
<1> QED BY <1>1, <1>2, <1>3 DEF IInv

-----------------------------------------------------------------------------
(* Type correctness, step by step.                                             *)

(* Steps of start(), stop(), add_user() and clear_users().                     *)
LEMMA OwnerTypeOK == IInv /\ OwnerStep => TypeOK'
<1> SUFFICES ASSUME IInv, OwnerStep PROVE TypeOK'
  OBVIOUS
<1>0. TypeOK
  BY DEF IInv
<1>1. CASE Start
  BY <1>0, <1>1, BoundAssumption DEF Start, TypeOK
<1>2. CASE StartFails
  <2>1. starts' \in 0..MaxStarts
    BY <1>0, <1>2, BoundAssumption DEF StartFails, TypeOK
  <2> QED BY <1>0, <1>2, <2>1 DEF StartFails, TypeOK
<1>3. CASE StopBegin
  BY <1>0, <1>3 DEF StopBegin, TypeOK
<1>4. CASE StopUnblock
  BY <1>0, <1>4 DEF StopUnblock, Knock, TypeOK
<1>5. CASE StopJoinAcceptor
  BY <1>0, <1>5 DEF StopJoinAcceptor, TypeOK
<1>6. CASE StopJoinAll
  BY <1>0, <1>6 DEF StopJoinAll, TypeOK
<1>7. CASE StopClear
  <2>1. backlog' \in 0..made'
    BY <1>0, <1>7, BoundAssumption DEF StopClear, TypeOK
  <2>2. sessionUsers' \in [Sessions -> Users \union {None}] /\ connected' \subseteq Users
    BY <1>7 DEF StopClear
  <2> QED BY <1>0, <1>7, <2>1, <2>2 DEF StopClear, TypeOK
<1>8. CASE ClearUsers
  BY <1>0, <1>8 DEF ClearUsers, TypeOK
<1>9. ASSUME NEW u \in Users, AddUser(u) PROVE TypeOK'
  BY <1>0, <1>9 DEF AddUser, TypeOK
<1> QED BY <1>1, <1>2, <1>3, <1>4, <1>5, <1>6, <1>7, <1>8, <1>9 DEF OwnerStep, StopStep

(* Steps of acceptor_loop(), to the creation of a session's thread.            *)
LEMMA AcceptorTypeOK == IInv /\ AcceptorStep => TypeOK'
<1> SUFFICES ASSUME IInv, AcceptorStep PROVE TypeOK'
  OBVIOUS
<1>0. TypeOK /\ PhasesAgree
  BY DEF IInv
<1>1. CASE AcceptCheck
  BY <1>0, <1>1 DEF AcceptCheck, TypeOK
<1>2. CASE AcceptNobody
  <2>1. backlog' \in 0..made'
    BY <1>0, <1>2, BoundAssumption DEF AcceptNobody, TypeOK
  <2>2. knock' \in BOOLEAN
    BY <1>0, <1>2 DEF AcceptNobody, TypeOK
  <2> QED BY <1>0, <1>2, <2>1, <2>2 DEF AcceptNobody, AcceptLoop, TypeOK
<1>3. CASE AcceptRegisters
  BY <1>0, <1>3 DEF AcceptRegisters, TypeOK
<1>4. CASE KeyExchanged
  BY <1>0, <1>4, SessionAssumption DEF KeyExchanged, AcceptLoop, Kept, TypeOK, PhasesAgree
<1>5. CASE KexFails
  BY <1>0, <1>5, SessionAssumption
  DEF KexFails, Forget, Dismiss, AcceptLoop, TypeOK, PhasesAgree
<1>6. ASSUME NEW s \in Sessions, AcceptSession(s) PROVE TypeOK'
  BY <1>0, <1>6, SessionAssumption, BoundAssumption
  DEF AcceptSession, TypeOK, PhasesAgree
<1> QED BY <1>1, <1>2, <1>3, <1>4, <1>5, <1>6 DEF AcceptorStep

(* Steps of a session's thread by itself: its callbacks, its two loops, its    *)
(* clean-up.                                                                   *)
LEMMA ThreadTypeOK == ASSUME IInv, NEW s \in Sessions, ThreadStep(s) PROVE TypeOK'
<1> USE DEF Goto
<1>0. TypeOK
  BY DEF IInv
<1>1. CASE MakeHandshake(s)
  <2>1. handshakes' \in [Sessions -> (SUBSET {"channel", "subsystem"}) \union {None}]
    BY <1>0, <1>1 DEF MakeHandshake, TypeOK
  <2>2. channelCb' \in BOOLEAN /\ pc' = [pc EXCEPT ![s] = "blank"] /\ pc[s] = "start"
    BY <1>1 DEF MakeHandshake
  <2>3. UNCHANGED <<threadFrame, loginVars, ctx>>
    BY <1>1 DEF MakeHandshake
  <2> QED BY <1>0, <2>1, <2>2, <2>3 DEF TypeOK
<1>2. CASE SetCallbacks(s)
  BY <1>0, <1>2 DEF SetCallbacks, TypeOK
<1>3. CASE EnterPackets(s)
  BY <1>0, <1>3 DEF EnterPackets, TypeOK
<1>4. CASE PacketsReturn(s)
  BY <1>0, <1>4 DEF PacketsReturn, TypeOK
<1>5. CASE ClientLost(s)
  BY <1>0, <1>5 DEF ClientLost, TypeOK
<1>6. CASE Lookup(s)
  BY <1>0, <1>6 DEF Lookup, LookedUp, TypeOK
<1>7. CASE Serve(s)
  BY <1>0, <1>7 DEF Serve, TypeOK
<1>8. CASE Leave(s)
  BY <1>0, <1>8 DEF Leave, RemoveHandshake, TypeOK
<1>9. CASE RemoveSession(s)
  BY <1>0, <1>9 DEF RemoveSession, Forget, TypeOK
<1>10. CASE Release(s)
  BY <1>0, <1>10 DEF Release, TypeOK
<1> QED BY <1>1, <1>2, <1>3, <1>4, <1>5, <1>6, <1>7, <1>8, <1>9, <1>10 DEF ThreadStep

(* Steps of a session's thread on a message of its client.                     *)
LEMMA MessageTypeOK == ASSUME IInv, NEW s \in Sessions, MessageStep(s) PROVE TypeOK'
<1> USE DEF Goto, Asks
<1>0. TypeOK
  BY DEF IInv
<1>1. CASE OpenChannel(s)
  BY <1>0, <1>1 DEF OpenChannel, TypeOK
<1>2. CASE Subsystem(s)
  BY <1>0, <1>2 DEF Subsystem, TypeOK
<1>3. CASE InitDone(s)
  BY <1>0, <1>3 DEF InitDone, TypeOK
<1>4. CASE Data(s)
  BY <1>0, <1>4 DEF Data, TypeOK
<1>5. CASE Request(s)
  BY <1>0, <1>5 DEF Request, TypeOK
<1>6. ASSUME NEW u \in Users, Auth(s, u) PROVE TypeOK'
  BY <1>0, <1>6 DEF Auth, TypeOK
<1> QED BY <1>1, <1>2, <1>3, <1>4, <1>5, <1>6 DEF MessageStep

(* Every step keeps every variable's type.                                     *)
LEMMA NextTypeOK == IInv /\ [Next]_vars => TypeOK'
<1> SUFFICES ASSUME IInv, [Next]_vars PROVE TypeOK'
  OBVIOUS
<1>0. TypeOK
  BY DEF IInv
<1>1. CASE ClientConnect
  BY <1>0, <1>1, BoundAssumption DEF ClientConnect, TypeOK
<1>2. ASSUME NEW s \in Sessions, ClientClose(s) PROVE TypeOK'
  BY <1>0, <1>2 DEF ClientClose, TypeOK
<1>3. CASE UNCHANGED vars
  BY <1>0, <1>3 DEF vars, TypeOK
<1> QED BY <1>1, <1>2, <1>3, OwnerTypeOK, AcceptorTypeOK, ThreadTypeOK, MessageTypeOK DEF Next

-----------------------------------------------------------------------------
(* What is kept about a session agrees with the place of its thread.           *)

(* A session has the login and the handshake its thread's place calls for.     *)
LEMMA NextWired == IInv /\ [Next]_vars => Wired'
<1> SUFFICES ASSUME IInv, [Next]_vars PROVE Wired'
  OBVIOUS
<1> USE UserAssumption, HandshakeAssumption DEF Goto, Forget, Wired
<1>0. TypeOK /\ Wired /\ PhasesAgree
  BY DEF IInv
<1>1. CASE OwnerStep
  BY <1>0, <1>1
  DEF OwnerStep, Start, StartFails, StopBegin, StopStep, StopUnblock, StopJoinAcceptor,
      StopJoinAll, StopClear, ClearUsers, AddUser, TypeOK, PhasesAgree
<1>2. CASE AcceptorStep
  <2>1. CASE AcceptCheck \/ AcceptNobody \/ AcceptRegisters
    BY <1>0, <2>1 DEF AcceptCheck, AcceptNobody, AcceptRegisters
  <2>2. CASE KeyExchanged
    BY <1>0, <2>2 DEF KeyExchanged, TypeOK, PhasesAgree
  <2>3. CASE KexFails
    BY <1>0, <2>3 DEF KexFails, Dismiss, TypeOK, PhasesAgree
  <2>4. ASSUME NEW s \in Sessions, AcceptSession(s) PROVE Wired'
    BY <1>0, <2>4 DEF AcceptSession, TypeOK
  <2> QED BY <1>2, <2>1, <2>2, <2>3, <2>4 DEF AcceptorStep
<1>3. ASSUME NEW s \in Sessions, ThreadStep(s) PROVE Wired'
  BY <1>0, <1>3
  DEF ThreadStep, MakeHandshake, SetCallbacks, EnterPackets, PacketsReturn, ClientLost,
      Lookup, Serve, Leave, RemoveSession, Release, RemoveHandshake, TypeOK
<1>4. ASSUME NEW s \in Sessions, MessageStep(s) PROVE Wired'
  <2>1. CASE OpenChannel(s)
    BY <1>0, <2>1 DEF OpenChannel, Asks, TypeOK
  <2>2. CASE Subsystem(s)
    <3>1. /\ pc[s] = "packets" /\ handshakes[s] = {"channel"}
          /\ handshakes' = [handshakes EXCEPT ![s] = {"channel", "subsystem"}]
      BY <2>2 DEF Subsystem, Asks
    <3>2. handshakes'[s] # None /\ UNCHANGED <<pc, sessionUsers, users, cleared>>
      BY <1>0, <2>2, <3>1 DEF Subsystem, TypeOK
    <3> QED BY <1>0, <3>1, <3>2 DEF TypeOK
  <2>3. CASE InitDone(s) \/ Data(s) \/ Request(s)
    BY <1>0, <2>3 DEF InitDone, Data, Request, TypeOK
  <2>4. ASSUME NEW u \in Users, Auth(s, u) PROVE Wired'
    BY <1>0, <2>4 DEF Auth, Asks, TypeOK
  <2> QED BY <1>4, <2>1, <2>2, <2>3, <2>4 DEF MessageStep
<1>5. CASE ClientConnect \/ \E s \in Sessions : ClientClose(s)
  BY <1>0, <1>5 DEF ClientConnect, ClientClose
<1>6. CASE UNCHANGED vars
  BY <1>0, <1>6 DEF vars
<1> QED BY <1>1, <1>2, <1>3, <1>4, <1>5, <1>6 DEF Next

(* Each step of stop() leaves the acceptor and the sessions as the next one    *)
(* expects them.                                                               *)
LEMMA NextPhasesAgree == IInv /\ [Next]_vars => PhasesAgree'
<1> SUFFICES ASSUME IInv, [Next]_vars PROVE PhasesAgree'
  OBVIOUS
<1> USE SessionAssumption DEF Goto, PhasesAgree, TypeOK
<1>0. TypeOK /\ PhasesAgree
  BY DEF IInv
<1>1. CASE OwnerStep
  BY <1>0, <1>1
  DEF OwnerStep, Start, StartFails, StopBegin, StopStep, StopUnblock, StopJoinAcceptor,
      StopJoinAll, StopClear, ClearUsers, AddUser, Joined
<1>2. CASE AcceptorStep
  BY <1>0, <1>2
  DEF AcceptorStep, AcceptCheck, AcceptNobody, AcceptRegisters, KeyExchanged, KexFails,
      AcceptSession, AcceptLoop, Kept, Dismiss
<1>3. ASSUME NEW s \in Sessions, ThreadStep(s) PROVE PhasesAgree'
  BY <1>0, <1>3
  DEF ThreadStep, MakeHandshake, SetCallbacks, EnterPackets, PacketsReturn, ClientLost,
      Lookup, Serve, Leave, RemoveSession, Release
<1>4. ASSUME NEW s \in Sessions, MessageStep(s) PROVE PhasesAgree'
  BY <1>0, <1>4 DEF MessageStep, OpenChannel, Subsystem, InitDone, Data, Request, Auth, Asks
<1>5. CASE ClientConnect \/ \E s \in Sessions : ClientClose(s)
  BY <1>0, <1>5 DEF ClientConnect, ClientClose
<1>6. CASE UNCHANGED vars
  BY <1>0, <1>6 DEF vars
<1> QED BY <1>1, <1>2, <1>3, <1>4, <1>5, <1>6 DEF Next

-----------------------------------------------------------------------------
(* Names and logins.                                                           *)

(* remove_session() takes a name off the list with the login it came from.     *)
LEMMA NextListedHasSession == IInv /\ [Next]_vars => ListedHasSession'
<1> SUFFICES ASSUME IInv, [Next]_vars PROVE ListedHasSession'
  OBVIOUS
<1> USE UserAssumption DEF TypeOK, ListedHasSession
<1>0. TypeOK /\ ListedHasSession
  BY DEF IInv
<1>1. ASSUME NEW s \in Sessions, Forget(s) PROVE ListedHasSession'
  BY <1>0, <1>1 DEF Forget
<1>2. ASSUME NEW s \in Sessions, NEW u \in Users, Auth(s, u) PROVE ListedHasSession'
  BY <1>0, <1>2 DEF Auth
<1>3. CASE StopClear
  BY <1>0, <1>3 DEF StopClear
<1>4. CASE UNCHANGED loginVars
  BY <1>0, <1>4
<1>5. CASE KexFails
  BY <1>0, <1>1, <1>5 DEF KexFails, IInv, PhasesAgree
<1>6. ASSUME NEW s \in Sessions, RemoveSession(s) PROVE ListedHasSession'
  BY <1>1, <1>6 DEF RemoveSession
<1> QED BY <1>2, <1>3, <1>4, <1>5, <1>6
  DEF vars, Next, OwnerStep, Start, StartFails, StopBegin, StopStep, StopUnblock,
      StopJoinAcceptor, StopJoinAll, ClearUsers, AddUser, AcceptorStep, AcceptCheck,
      AcceptNobody, AcceptRegisters, KeyExchanged, AcceptSession, ThreadStep,
      MakeHandshake, SetCallbacks, EnterPackets, PacketsReturn, ClientLost, Lookup,
      Serve, Leave, Release, MessageStep, OpenChannel, Subsystem, InitDone, Data,
      Request, ClientConnect, ClientClose

(* The context of a session is made from the login recorded for that session.  *)
LEMMA NextServedAsLoggedIn == IInv /\ [Next]_vars => ServedAsLoggedIn'
<1> SUFFICES ASSUME IInv, [Next]_vars PROVE ServedAsLoggedIn'
  OBVIOUS
<1> USE UserAssumption DEF Goto, TypeOK, ServedAsLoggedIn
<1>0. TypeOK /\ Wired /\ PhasesAgree /\ ServedAsLoggedIn
  BY DEF IInv
<1>1. CASE OwnerStep
  BY <1>0, <1>1
  DEF OwnerStep, Start, StartFails, StopBegin, StopStep, StopUnblock, StopJoinAcceptor,
      StopJoinAll, StopClear, ClearUsers, AddUser, PhasesAgree
<1>2. CASE AcceptorStep
  <2>1. CASE AcceptCheck \/ AcceptNobody \/ AcceptRegisters
    BY <1>0, <2>1 DEF AcceptCheck, AcceptNobody, AcceptRegisters
  <2>2. CASE KeyExchanged
    BY <1>0, <2>2 DEF KeyExchanged, PhasesAgree
  <2>3. CASE KexFails
    BY <1>0, <2>3 DEF KexFails, Dismiss, Forget, PhasesAgree
  <2>4. ASSUME NEW s \in Sessions, AcceptSession(s) PROVE ServedAsLoggedIn'
    BY <1>0, <2>4 DEF AcceptSession
  <2> QED BY <1>2, <2>1, <2>2, <2>3, <2>4 DEF AcceptorStep
<1>3. ASSUME NEW s \in Sessions, ThreadStep(s) PROVE ServedAsLoggedIn'
  <2>1. CASE Lookup(s)
    <3>1. sessionUsers[s] \in Users /\ sessionUsers[s] \in users \union cleared
      BY <1>0, <2>1, HandshakeAssumption DEF Lookup, Wired
    <3>2. ctx'[s] = [user |-> sessionUsers[s], found |-> sessionUsers[s] \in users]
      BY <1>0, <2>1 DEF Lookup, LookedUp
    <3>3. ctx'[s].user = sessionUsers[s]
      BY <3>2
    <3>4. ASSUME sessionUsers[s] \in users PROVE ctx'[s].found
      <4>1. (sessionUsers[s] \in users) = TRUE
        BY <3>4
      <4>2. ctx'[s] = [user |-> sessionUsers[s], found |-> TRUE]
        BY <3>2, <4>1, Zenon
      <4> QED BY <4>2
    <3>5. /\ UNCHANGED <<sessionUsers, cleared>>
          /\ \A t \in Sessions \ {s} : pc'[t] = pc[t] /\ ctx'[t] = ctx[t]
      BY <1>0, <2>1 DEF Lookup
    <3> QED BY <1>0, <3>1, <3>3, <3>4, <3>5
  <2>2. CASE ~Lookup(s)
    BY <1>0, <1>3, <2>2
    DEF ThreadStep, MakeHandshake, SetCallbacks, EnterPackets, PacketsReturn, ClientLost,
        Serve, Leave, RemoveSession, Release, Forget
  <2> QED BY <2>1, <2>2
<1>4. ASSUME NEW s \in Sessions, MessageStep(s) PROVE ServedAsLoggedIn'
  BY <1>0, <1>4 DEF MessageStep, OpenChannel, Subsystem, InitDone, Data, Request, Auth, Asks
<1>5. CASE ClientConnect \/ \E s \in Sessions : ClientClose(s)
  BY <1>0, <1>5 DEF ClientConnect, ClientClose
<1>6. CASE UNCHANGED vars
  BY <1>0, <1>6 DEF vars
<1> QED BY <1>1, <1>2, <1>3, <1>4, <1>5, <1>6 DEF Next

-----------------------------------------------------------------------------
(* The server's data, its threads and its phase agree in every state.          *)
THEOREM Consistency == Spec => []IInv
<1>1. IInv /\ [Next]_vars => IInv'
  BY NextTypeOK, NextWired, NextPhasesAgree, NextListedHasSession,
     NextServedAsLoggedIn DEF IInv
<1> QED BY <1>1, InitIInv, PTL DEF Spec

(* Every variable keeps its type.                                              *)
THEOREM TypeInvariance == Spec => []TypeOK
<1>1. IInv => TypeOK
  BY DEF IInv
<1> QED BY <1>1, Consistency, PTL

(* An address of a session that is used again carries no login and no          *)
(* handshake of the session before, and no callback finds its entry gone.      *)
THEOREM AddressesAreClean == Spec => []NothingOutlivesSession
<1>1. IInv => NothingOutlivesSession
  BY DEF IInv, Wired, NothingOutlivesSession
<1> QED BY <1>1, Consistency, PTL

(* connected_users() names nobody who has no session left.                     *)
THEOREM NobodyIsLeftListed == Spec => []ListedHasSession
<1>1. IInv => ListedHasSession
  BY DEF IInv
<1> QED BY <1>1, Consistency, PTL

(* No session is served under another name, root or rights than those of its   *)
(* login.                                                                      *)
THEOREM LoginDecides == Spec => []ServedAsLoggedIn
<1>1. IInv => ServedAsLoggedIn
  BY DEF IInv
<1> QED BY <1>1, Consistency, PTL

(* The connection of unblock_accept() is used by the acceptor alone, and for   *)
(* the last time round its loop.                                               *)
LEMMA NextAcceptorIsWoken == IInv /\ AcceptorIsWoken /\ [Next]_vars => AcceptorIsWoken'
<1> SUFFICES ASSUME IInv, AcceptorIsWoken, [Next]_vars PROVE AcceptorIsWoken'
  OBVIOUS
<1> USE DEF AcceptorIsWoken
<1>0. PhasesAgree
  BY DEF IInv
<1>1. CASE OwnerStep
  BY <1>0, <1>1
  DEF OwnerStep, Start, StartFails, StopBegin, StopStep, StopUnblock, Knock, StopJoinAcceptor,
      StopJoinAll, StopClear, ClearUsers, AddUser, usersFrame, stopFrame, ownerVars,
      acceptorVars, netVars
<1>2. CASE AcceptorStep
  BY <1>0, <1>2
  DEF AcceptorStep, AcceptCheck, AcceptNobody, AcceptRegisters, KeyExchanged, KexFails,
      AcceptSession, AcceptLoop, acceptFrame, ownerVars, PhasesAgree
<1>3. CASE UNCHANGED <<owner, acceptor, knock>>
  BY <1>0, <1>3
<1>4. ASSUME ~OwnerStep, ~AcceptorStep PROVE UNCHANGED <<owner, acceptor, knock>>
  BY <1>4
  DEF vars, Next, ThreadStep, MakeHandshake, SetCallbacks, EnterPackets,
      PacketsReturn, ClientLost, Lookup, Serve, Leave, RemoveSession, Release,
      MessageStep, OpenChannel, Subsystem, InitDone, Data, Request, Auth, ClientConnect,
      ClientClose, threadFrame, ownerVars, acceptorVars, netVars
<1> QED BY <1>1, <1>2, <1>3, <1>4

(* stop() does not wait for an acceptor that nothing wakes.                    *)
THEOREM StopWakesAcceptor == Spec => []AcceptorIsWoken
<1>1. Init => AcceptorIsWoken
  BY DEF Init, AcceptorIsWoken
<1> QED BY <1>1, NextAcceptorIsWoken, Consistency, PTL DEF Spec

-----------------------------------------------------------------------------
(* The server implements ServerLifecycle.                                      *)

(* A server that was never started is ServerLifecycle's stopped one.           *)
LEMMA InitImplements == Init => Lifecycle!Init
BY DEF Init, Lifecycle!Init, Phase

(* A session is worked for from the end of its key exchange to its release.    *)
LEMMA ThreadImplements ==
  ASSUME IInv, NEW s \in Sessions, ThreadStep(s) \/ MessageStep(s)
  PROVE  Lifecycle!Next \/ UNCHANGED Lifecycle!vars
<1> DEFINE working == {t \in Sessions : pc[t] \in Live}
<1> USE DEF Goto
<1>0. pc \in [Sessions -> {"free", "guest"} \union Live]
  BY DEF IInv, TypeOK
<1>1. owner' = owner
  BY DEF ThreadStep, MakeHandshake, SetCallbacks, EnterPackets, PacketsReturn, ClientLost,
         Lookup, Serve, Leave, RemoveSession, Release, MessageStep, OpenChannel, Subsystem,
         InitDone, Data, Request, Auth
<1>2. CASE Release(s)
  <2>1. s \in working /\ working' = working \ {s}
    BY <1>0, <1>2 DEF Release
  <2> QED BY <1>1, <2>1 DEF Phase, Lifecycle!Next, Lifecycle!Finish
<1>3. CASE ~Release(s)
  <2>1. /\ pc[s] \in Live /\ pc'[s] \in Live
        /\ \A t \in Sessions : pc'[t] \in {pc[t], pc'[s]} /\ (t # s => pc'[t] = pc[t])
    BY <1>0, <1>3
    DEF ThreadStep, MakeHandshake, SetCallbacks, EnterPackets, PacketsReturn, ClientLost,
        Lookup, Serve, Leave, RemoveSession, MessageStep, OpenChannel, Subsystem,
        InitDone, Data, Request, Auth, Asks
  <2>2. working' = working
    BY <2>1
  <2> QED BY <1>1, <2>2 DEF Phase, Lifecycle!vars
<1> QED BY <1>2, <1>3

(* Every step maps to one of ServerLifecycle or to a stutter.                  *)
LEMMA NextImplements == IInv /\ [Next]_vars => [Lifecycle!Next]_Lifecycle!vars
<1> SUFFICES ASSUME IInv, [Next]_vars
             PROVE  Lifecycle!Next \/ UNCHANGED Lifecycle!vars
  OBVIOUS
<1> DEFINE working == {s \in Sessions : pc[s] \in Live}
<1>0. TypeOK /\ PhasesAgree
  BY DEF IInv
<1>1. CASE OwnerStep
  <2>1. working' = working
    BY <1>1 DEF OwnerStep, Start, StartFails, StopBegin, StopStep, StopUnblock,
                StopJoinAcceptor, StopJoinAll, StopClear, ClearUsers, AddUser
  <2>2. CASE Start
    BY <2>1, <2>2 DEF Start, Phase, Lifecycle!Next, Lifecycle!Start
  <2>3. CASE StopBegin
    BY <2>1, <2>3 DEF StopBegin, Phase, Lifecycle!Next, Lifecycle!BeginStop
  <2>4. CASE StopJoinAcceptor
    BY <2>1, <2>4 DEF StopJoinAcceptor, Phase, Lifecycle!Next, Lifecycle!JoinAcceptor
  <2>5. CASE StopClear
    <3>1. working = {}
      BY <1>0, <2>5 DEF StopClear, PhasesAgree
    <3> QED BY <2>1, <2>5, <3>1 DEF StopClear, Phase, Lifecycle!Next, Lifecycle!EndStop
  <2>6. CASE StartFails \/ StopUnblock \/ StopJoinAll \/ ClearUsers
             \/ \E u \in Users : AddUser(u)
    <3>1. Phase' = Phase
      BY <2>6 DEF StartFails, StopUnblock, StopJoinAll, ClearUsers, AddUser, Phase
    <3> QED BY <2>1, <3>1 DEF Lifecycle!vars
  <2> QED BY <1>1, <2>2, <2>3, <2>4, <2>5, <2>6 DEF OwnerStep, StopStep
<1>2. CASE AcceptorStep
  <2>1. Phase' = Phase
    BY <1>2 DEF AcceptorStep, AcceptCheck, AcceptNobody, AcceptRegisters, KeyExchanged,
                KexFails, AcceptSession, Phase
  <2>2. CASE KeyExchanged
    <3>1. Phase \in {"serving", "closing"} /\ guest \in Sessions /\ guest \notin working
      BY <1>0, <2>2 DEF KeyExchanged, PhasesAgree, Phase, TypeOK
    <3>2. working' = working \union {guest}
      BY <1>0, <2>2, <3>1 DEF KeyExchanged, TypeOK
    <3> QED BY <2>1, <3>1, <3>2 DEF Lifecycle!Next, Lifecycle!Take
  <2>3. CASE ~KeyExchanged
    <3>1. working' = working
      BY <1>0, <1>2, <2>3
      DEF AcceptorStep, AcceptCheck, AcceptNobody, AcceptRegisters, KexFails,
          AcceptSession, Dismiss, TypeOK, PhasesAgree
    <3> QED BY <2>1, <3>1 DEF Lifecycle!vars
  <2> QED BY <2>2, <2>3
<1>3. ASSUME NEW s \in Sessions, ThreadStep(s) \/ MessageStep(s)
      PROVE  Lifecycle!Next \/ UNCHANGED Lifecycle!vars
  BY <1>3, ThreadImplements
<1>4. CASE ClientConnect \/ \E s \in Sessions : ClientClose(s)
  BY <1>4 DEF ClientConnect, ClientClose, Phase, Lifecycle!vars
<1>5. CASE UNCHANGED vars
  BY <1>5 DEF vars, Phase, Lifecycle!vars
<1> QED BY <1>1, <1>2, <1>3, <1>4, <1>5 DEF Next

(* start() and stop() are those of ServerLifecycle: a session gets its thread  *)
(* only before the acceptor is joined, and stop() returns only when every      *)
(* session has been released.                                                  *)
THEOREM SftpImplementsLifecycle == Spec => ImplementsLifecycle
BY InitImplements, NextImplements, Consistency, PTL
DEF Spec, ImplementsLifecycle, Lifecycle!Spec
=============================================================================
