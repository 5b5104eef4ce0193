-------------------------- MODULE HttpServerProofs --------------------------
(* For any keys, handlers and requests: the REST and the SOAP server answer a  *)
(* request by a handler that was registered while it was under way, and their  *)
(* history of requests is true.                                                *)
EXTENDS HttpServer, TLAPS

USE DEF ownerVars, routeVars, requestVars, historyVars, ownerFrame

-----------------------------------------------------------------------------
(* Type correctness.                                                           *)

(* A server that has not been started keeps its types.                         *)
LEMMA InitTypeOK == Init => TypeOK
<1> SUFFICES ASSUME Init PROVE TypeOK
  OBVIOUS
<1>1. handlers \in Found /\ wanted \in Found /\ running \in BOOLEAN /\ routed \in BOOLEAN
  BY DEF Init, Found
<1>2. key \in [Requests -> Keys] /\ history \in Seq(Requests)
  BY KeyAssumption DEF Init
<1>3. /\ chosen \in [Requests -> Handlers \union {None}]
      /\ seen \in [Requests -> SUBSET (Handlers \union {None})]
      /\ before \in [Requests -> SUBSET Requests]
  BY DEF Init
<1> QED BY <1>1, <1>2, <1>3 DEF Init, TypeOK

(* A step of start() and stop() changes no route and no record, and answers    *)
(* nobody; some requests may be dropped.                                       *)
LEMMA OwnerSteps ==
  ASSUME TypeOK, Start \/ StopBegin \/ Listen \/ Started \/ StopServer \/ ListenReturns \/ StopJoin
  PROVE  /\ UNCHANGED <<kind, routeVars, historyVars, key, chosen, seen, before>>
         /\ pc' = pc \/ pc' = [r \in Requests |-> IF pc[r] = "queued" THEN "dropped" ELSE pc[r]]
         /\ owner' \in {"stopped", "starting", "running", "stopping", "joining"}
         /\ listener' \in {"none", "bound", "listening", "closed", "returned"}
         /\ running' \in BOOLEAN
<1>1. running' \in BOOLEAN
  BY DEF TypeOK, Start, StopBegin, Listen, Started, StopServer, ListenReturns, StopJoin
<1>2. /\ owner' \in {"stopped", "starting", "running", "stopping", "joining"}
      /\ listener' \in {"none", "bound", "listening", "closed", "returned"}
  BY DEF TypeOK, Start, StopBegin, Listen, Started, StopServer, ToldToStop, ListenReturns,
         StopJoin
<1> QED BY <1>1, <1>2
        DEF Start, StopBegin, Listen, Started, StopServer, ListenReturns, StopJoin

(* A method add_route() does not know is taken for one of the keys.            *)
LEMMA RouteKeyType == ASSUME NEW k \in Keys PROVE RouteKey(k) \in Keys
BY KeyAssumption DEF RouteKey

(* Types are kept by every step.                                               *)
LEMMA NextTypeOK == TypeOK /\ [Next]_vars => TypeOK'
<1> SUFFICES ASSUME TypeOK, [Next]_vars PROVE TypeOK'
  OBVIOUS
<1>1. CASE Start \/ StopBegin \/ Listen \/ Started \/ StopServer \/ ListenReturns \/ StopJoin
  <2>1. pc' \in [Requests -> {"away", "queued", "record", "find", "handle", "answered",
                              "unknown", "dropped"}]
    BY <1>1, OwnerSteps DEF TypeOK
  <2> QED BY <1>1, <2>1, OwnerSteps DEF TypeOK
<1>2. CASE ClearRequests
  <2>1. history' \in Seq(Requests)
    BY <1>2 DEF ClearRequests
  <2>2. cleared' \subseteq Requests
    BY <1>2 DEF ClearRequests, TypeOK
  <2> QED BY <1>2, <2>1, <2>2 DEF ClearRequests, TypeOK
<1>3. ASSUME NEW k \in Keys, NEW h \in Handlers, AddRoute(k, h) PROVE TypeOK'
  <2>1. handlers' \in Found
    BY <1>3, RouteKeyType DEF AddRoute, Registered, TypeOK, Found
  <2>2. PICK w \in Handlers \union {None} :
          /\ wanted' = [wanted EXCEPT ![RouteKey(k)] = w]
          /\ seen' = [r \in Requests |->
                        IF key[r] = RouteKey(k) /\ (pc[r] = "queued" \/ r \in Busy)
                        THEN seen[r] \union {w} ELSE seen[r]]
    BY <1>3, RouteKeyType DEF AddRoute, TypeOK, Found
  <2>3. wanted' \in Found
    BY <2>2, RouteKeyType DEF TypeOK, Found
  <2>4. seen' \in [Requests -> SUBSET (Handlers \union {None})]
    BY <2>2 DEF TypeOK
  <2>5. routed' \in BOOLEAN
    BY <1>3 DEF AddRoute
  <2> QED BY <1>3, <2>1, <2>3, <2>4, <2>5 DEF AddRoute, TypeOK
<1>4. ASSUME NEW r \in Requests, NEW k \in Keys, Arrive(r, k) PROVE TypeOK'
  <2>1. seen' \in [Requests -> SUBSET (Handlers \union {None})]
    BY <1>4 DEF Arrive, TypeOK, Found
  <2>2. before' \in [Requests -> SUBSET Requests] /\ key' \in [Requests -> Keys]
    BY <1>4 DEF Arrive, TypeOK
  <2>3. pc' \in [Requests -> {"away", "queued", "record", "find", "handle", "answered",
                              "unknown", "dropped"}]
    BY <1>4 DEF Arrive, Goto, TypeOK
  <2> QED BY <1>4, <2>1, <2>2, <2>3 DEF Arrive, TypeOK
<1>5. ASSUME NEW r \in Requests, WorkerStep(r) PROVE TypeOK'
  <2>1. pc' \in [Requests -> {"away", "queued", "record", "find", "handle", "answered",
                              "unknown", "dropped"}]
    BY <1>5 DEF WorkerStep, Take, Record, Find, Answer, Goto, TypeOK
  <2>2. chosen' \in [Requests -> Handlers \union {None}]
    BY <1>5 DEF WorkerStep, Take, Record, Find, Answer, TypeOK, Found
  <2>3. history' \in Seq(Requests)
    BY <1>5 DEF WorkerStep, Take, Record, Recorded, Find, Answer, TypeOK
  <2>4. UNCHANGED <<ownerVars, routeVars, key, seen, before, cleared>>
    BY <1>5 DEF WorkerStep, Take, Record, Find, Answer
  <2> QED BY <2>1, <2>2, <2>3, <2>4 DEF TypeOK
<1>6. CASE UNCHANGED vars
  BY <1>6 DEF vars, TypeOK
<1> QED BY <1>1, <1>2, <1>3, <1>4, <1>5, <1>6 DEF Next, ServerStep

-----------------------------------------------------------------------------
(* Handlers.                                                                   *)

(* A route the test adds is in the table as it is wanted there, and every      *)
(* request under way has seen it.                                              *)
LEMMA AddRouteWanted ==
  ASSUME IInv, NEW k \in Keys, NEW h \in Handlers, AddRoute(k, h)
  PROVE  /\ wanted' = handlers' /\ routed' = TRUE
         /\ \A r \in Requests : seen[r] \subseteq seen'[r]
         /\ \A r \in Requests : pc[r] = "queued" \/ r \in Busy => wanted'[key[r]] \in seen'[r]
<1>0. TypeOK /\ TakesWhatIsWanted
  BY DEF IInv
<1> DEFINE w == IF kind = "rest" /\ wanted[RouteKey(k)] # None THEN wanted[RouteKey(k)] ELSE h
<1>1. /\ wanted' = [wanted EXCEPT ![RouteKey(k)] = w]
      /\ seen' = [r \in Requests |->
                    IF key[r] = RouteKey(k) /\ (pc[r] = "queued" \/ r \in Busy)
                    THEN seen[r] \union {w} ELSE seen[r]]
  BY DEF AddRoute
<1>2. handlers' = [handlers EXCEPT ![RouteKey(k)] = w]
  BY <1>0 DEF AddRoute, Registered, TakesWhatIsWanted
<1>3. RouteKey(k) \in Keys /\ wanted \in [Keys -> Handlers \union {None}]
  BY <1>0, RouteKeyType DEF TypeOK, Found
<1>4. ASSUME NEW r \in Requests, pc[r] = "queued" \/ r \in Busy
      PROVE  wanted'[key[r]] \in seen'[r]
  BY <1>0, <1>1, <1>3, <1>4 DEF TakesWhatIsWanted, TypeOK
<1>5. wanted' = handlers'
  BY <1>0, <1>1, <1>2 DEF TakesWhatIsWanted
<1> HIDE DEF w
<1> QED BY <1>1, <1>4, <1>5 DEF AddRoute

(* What a worker has taken was wanted while its request was under way.         *)
LEMMA NextTakesWhatIsWanted ==
  IInv /\ [Next]_vars => TakesWhatIsWanted' /\ AnsweredAsRegistered'
<1> SUFFICES ASSUME IInv, [Next]_vars PROVE TakesWhatIsWanted' /\ AnsweredAsRegistered'
  OBVIOUS
<1> USE DEF Goto, Busy, TakesWhatIsWanted, AnsweredAsRegistered
<1>0. TypeOK /\ TakesWhatIsWanted /\ AnsweredAsRegistered
  BY DEF IInv
<1>1. CASE Start \/ StopBegin \/ Listen \/ Started \/ StopServer \/ ListenReturns \/ StopJoin
  BY <1>0, <1>1, OwnerSteps
<1>2. CASE ClearRequests
  BY <1>0, <1>2 DEF ClearRequests
<1>3. ASSUME NEW k \in Keys, NEW h \in Handlers, AddRoute(k, h)
      PROVE  TakesWhatIsWanted' /\ AnsweredAsRegistered'
  <2>1. UNCHANGED <<pc, key, chosen, kind>>
    BY <1>3 DEF AddRoute
  <2> QED BY <1>0, <1>3, <2>1, AddRouteWanted
<1>4. ASSUME NEW r \in Requests, NEW k \in Keys, Arrive(r, k)
      PROVE  TakesWhatIsWanted' /\ AnsweredAsRegistered'
  <2>1. pc'[r] = "queued" /\ key'[r] = k /\ seen'[r] = {wanted[k]}
    BY <1>0, <1>4 DEF Arrive, TypeOK
  <2>2. \A q \in Requests \ {r} : pc'[q] = pc[q] /\ key'[q] = key[q] /\ seen'[q] = seen[q]
    BY <1>0, <1>4 DEF Arrive, TypeOK
  <2>3. UNCHANGED <<routeVars, chosen, kind>>
    BY <1>4 DEF Arrive
  <2> QED BY <1>0, <2>1, <2>2, <2>3
<1>5. ASSUME NEW r \in Requests, WorkerStep(r)
      PROVE  TakesWhatIsWanted' /\ AnsweredAsRegistered'
  <2>1. UNCHANGED <<routeVars, kind, key, seen>>
    BY <1>5 DEF WorkerStep, Take, Record, Find, Answer
  <2>2. \A q \in Requests \ {r} : pc'[q] = pc[q] /\ chosen'[q] = chosen[q]
    BY <1>0, <1>5 DEF WorkerStep, Take, Record, Find, Answer, TypeOK
  <2>3. /\ pc'[r] \in {"queued", "record", "find", "handle"} => wanted'[key'[r]] \in seen'[r]
        /\ pc'[r] = "record" /\ kind' = "rest" => chosen'[r] \in seen'[r]
        /\ pc'[r] \in {"handle", "answered"} => chosen'[r] \in seen'[r]
        /\ pc'[r] = "unknown" => None \in seen'[r]
    <3>1. CASE Take(r)
      BY <1>0, <2>1, <3>1 DEF Take, TypeOK
    <3>2. CASE Record(r)
      <4>1. kind # "rest" => kind = "soap"
        BY <1>0 DEF TypeOK
      <4> QED BY <1>0, <2>1, <3>2, <4>1 DEF Record, TypeOK
    <3>3. CASE Find(r)
      BY <1>0, <2>1, <3>3 DEF Find, TypeOK
    <3>4. CASE Answer(r)
      BY <1>0, <2>1, <3>4 DEF Answer, TypeOK
    <3> QED BY <1>5, <3>1, <3>2, <3>3, <3>4 DEF WorkerStep
  <2> QED BY <1>0, <2>1, <2>2, <2>3
<1>6. CASE UNCHANGED vars
  BY <1>0, <1>6 DEF vars
<1> QED BY <1>1, <1>2, <1>3, <1>4, <1>5, <1>6 DEF Next, ServerStep

-----------------------------------------------------------------------------
(* The history.                                                                *)

(* A request is entered once, behind those answered before it was made.        *)
LEMMA RecordHistory ==
  ASSUME IInv, NEW r \in Requests, Record(r)
  PROVE  HistoryMatchesPlaces'
<1> DEFINE n == Len(history)
<1>0. TypeOK /\ HistoryMatchesPlaces /\ n \in Nat
  BY DEF IInv, TypeOK
<1>1. /\ history' = Append(history, r) /\ UNCHANGED <<before, cleared>>
      /\ pc[r] = "record"
      /\ pc' = [pc EXCEPT ![r] = IF kind = "rest" THEN "handle" ELSE "find"]
  BY DEF Record, Recorded, Goto
<1>2. /\ DOMAIN history = 1..n /\ DOMAIN history' = 1..(n + 1)
      /\ history'[n + 1] = r
      /\ \A i \in 1..n : history'[i] = history[i]
      /\ \A i \in 1..n : history[i] \in Requests
  BY <1>0, <1>1 DEF TypeOK
<1> HIDE DEF n
<1>3. r \notin cleared /\ \A i \in 1..n : history[i] # r
  BY <1>0, <1>1, <1>2 DEF HistoryMatchesPlaces, Listed
<1>4. \A q \in Requests : pc[q] # "answered" => \A p \in Requests : q \notin before[p]
  BY <1>0 DEF HistoryMatchesPlaces
<1>5. ASSUME NEW q \in Requests
      PROVE  pc'[q] \in {"find", "handle", "answered"} <=> Listed(q)' \/ q \in cleared'
  <2>1. CASE q = r
    BY <1>0, <1>1, <1>2, <2>1 DEF TypeOK, Listed
  <2>2. CASE q # r
    <3>1. Listed(q)' <=> Listed(q)
      BY <1>0, <1>2, <2>2 DEF Listed
    <3> QED BY <1>0, <1>1, <2>2, <3>1 DEF TypeOK, HistoryMatchesPlaces
  <2> QED BY <2>1, <2>2
<1>6. ASSUME NEW i \in DOMAIN history', NEW j \in DOMAIN history', i # j
      PROVE  history'[i] # history'[j]
  BY <1>0, <1>2, <1>3, <1>6 DEF HistoryMatchesPlaces
<1>7. ASSUME NEW i \in DOMAIN history', NEW j \in DOMAIN history',
             history'[j] \in before'[history'[i]]
      PROVE  j < i
  <2>1. j \in 1..n
    <3>1. history'[i] \in Requests
      BY <1>0, <1>2
    <3>2. history'[j] # r
      BY <1>1, <1>4, <1>7, <3>1
    <3> QED BY <1>0, <1>2, <3>2
  <2>2. CASE i \in 1..n
    BY <1>0, <1>1, <1>2, <1>7, <2>1, <2>2 DEF HistoryMatchesPlaces
  <2>3. CASE i \notin 1..n
    BY <1>0, <1>2, <2>1, <2>3
  <2> QED BY <2>2, <2>3
<1>8. ASSUME NEW p \in Requests, NEW q \in before'[p] PROVE pc'[q] = "answered"
  <2>1. q \in Requests /\ pc[q] = "answered" /\ q # r
    BY <1>0, <1>1, <1>8 DEF TypeOK, HistoryMatchesPlaces
  <2> QED BY <1>0, <1>1, <2>1 DEF TypeOK
<1> QED BY <1>5, <1>6, <1>7, <1>8 DEF HistoryMatchesPlaces

(* A request is in the history, or was cleared from it, once it is past its    *)
(* record.                                                                     *)
LEMMA NextHistory == IInv /\ [Next]_vars => HistoryMatchesPlaces'
<1> SUFFICES ASSUME IInv, [Next]_vars PROVE HistoryMatchesPlaces'
  OBVIOUS
<1> USE DEF Goto
<1>0. TypeOK /\ HistoryMatchesPlaces
  BY DEF IInv
<1>1. ASSUME UNCHANGED <<history, cleared, before>>,
             \A r \in Requests : /\ pc'[r] \in {"find", "handle", "answered"}
                                      <=> pc[r] \in {"find", "handle", "answered"}
                                 /\ pc[r] = "answered" => pc'[r] = "answered"
      PROVE  HistoryMatchesPlaces'
  BY <1>0, <1>1 DEF HistoryMatchesPlaces, Listed, TypeOK
<1>2. CASE Start \/ StopBegin \/ Listen \/ Started \/ StopServer \/ ListenReturns \/ StopJoin
  BY <1>0, <1>1, <1>2, OwnerSteps
<1>3. CASE ClearRequests
  <2>1. /\ history' = <<>> /\ DOMAIN history' = {} /\ UNCHANGED <<pc, before>>
        /\ cleared' = cleared \union {history[i] : i \in DOMAIN history}
    BY <1>3 DEF ClearRequests
  <2>2. \A r \in Requests : ~Listed(r)' /\ (r \in cleared' <=> Listed(r) \/ r \in cleared)
    BY <2>1 DEF Listed
  <2> QED BY <1>0, <2>1, <2>2 DEF HistoryMatchesPlaces
<1>4. ASSUME NEW k \in Keys, NEW h \in Handlers, AddRoute(k, h) PROVE HistoryMatchesPlaces'
  BY <1>1, <1>4 DEF AddRoute
<1>5. ASSUME NEW r \in Requests, NEW k \in Keys, Arrive(r, k) PROVE HistoryMatchesPlaces'
  <2>1. /\ pc[r] = "away" /\ pc'[r] = "queued" /\ UNCHANGED historyVars
        /\ before'[r] = {q \in Requests : pc[q] = "answered"}
        /\ \A q \in Requests \ {r} : pc'[q] = pc[q] /\ before'[q] = before[q]
    BY <1>0, <1>5 DEF Arrive, TypeOK
  <2>2. \A i \in DOMAIN history : history[i] \in Requests \ {r}
    <3>1. \A i \in DOMAIN history : history[i] \in Requests
      BY <1>0 DEF TypeOK
    <3> QED BY <1>0, <2>1, <3>1 DEF HistoryMatchesPlaces, Listed
  <2>3. \A q \in Requests : Listed(q)' <=> Listed(q)
    BY <2>1 DEF Listed
  <2>4. ASSUME NEW p \in Requests, NEW q \in before'[p] PROVE pc'[q] = "answered"
    <3>1. q \in Requests /\ pc[q] = "answered"
      BY <1>0, <2>1, <2>4 DEF HistoryMatchesPlaces, TypeOK
    <3> QED BY <2>1, <3>1
  <2> QED BY <1>0, <2>1, <2>2, <2>3, <2>4 DEF HistoryMatchesPlaces
<1>6. ASSUME NEW r \in Requests, Take(r) \/ Find(r) \/ Answer(r) PROVE HistoryMatchesPlaces'
  BY <1>0, <1>1, <1>6 DEF Take, Find, Answer, TypeOK
<1>7. ASSUME NEW r \in Requests, Record(r) PROVE HistoryMatchesPlaces'
  BY <1>7, RecordHistory
<1>8. CASE UNCHANGED vars
  BY <1>1, <1>8 DEF vars
<1> QED BY <1>2, <1>3, <1>4, <1>5, <1>6, <1>7, <1>8 DEF Next, ServerStep, WorkerStep

-----------------------------------------------------------------------------
(* start() and stop().                                                         *)

(* A worker begins while httplib listens, and goes on until it has answered.   *)
LEMMA WorkerMoves ==
  ASSUME TypeOK, NEW r \in Requests, WorkerStep(r)
  PROVE  /\ UNCHANGED ownerVars
         /\ \A q \in Requests \ {r} : pc'[q] = pc[q]
         /\ \/ /\ listener = "listening" /\ pc[r] = "queued"
               /\ pc'[r] \in {"record", "unknown"}
            \/ r \in Busy /\ pc'[r] \in {"find", "handle", "answered"}
BY DEF WorkerStep, Take, Record, Find, Answer, Goto, Busy, TypeOK

(* Owner and listener keep agreeing, and nobody is served by neither.          *)
LEMMA NextPhasesAgree == IInv /\ [Next]_vars => PhasesAgree'
<1> SUFFICES ASSUME IInv, [Next]_vars PROVE PhasesAgree'
  OBVIOUS
<1> USE DEF PhasesAgree, Busy
<1>0. TypeOK /\ PhasesAgree
  BY DEF IInv
<1>1. CASE Start \/ StopBegin \/ Listen \/ Started \/ StopServer \/ StopJoin
  BY <1>0, <1>1
  DEF Start, StopBegin, Listen, Started, StopServer, ToldToStop, StopJoin, Joined, TypeOK
<1>2. CASE ListenReturns
  BY <1>0, <1>2 DEF ListenReturns, TypeOK
<1>3. CASE ClearRequests \/ \E k \in Keys, h \in Handlers : AddRoute(k, h)
  BY <1>0, <1>3 DEF ClearRequests, AddRoute
<1>4. ASSUME NEW r \in Requests, NEW k \in Keys, Arrive(r, k) PROVE PhasesAgree'
  BY <1>0, <1>4 DEF Arrive, Goto, TypeOK
<1>5. ASSUME NEW r \in Requests, WorkerStep(r) PROVE PhasesAgree'
  BY <1>0, <1>5, WorkerMoves
<1>6. CASE UNCHANGED vars
  BY <1>0, <1>6 DEF vars
<1> QED BY <1>1, <1>2, <1>3, <1>4, <1>5, <1>6 DEF Next, ServerStep

(* Every step is one of ServerLifecycle, or a stutter.                         *)
LEMMA NextImplements == IInv /\ [Next]_vars => [Lifecycle!Next]_Lifecycle!vars
<1> SUFFICES ASSUME IInv, [Next]_vars PROVE [Lifecycle!Next]_Lifecycle!vars
  OBVIOUS
<1> USE DEF Lifecycle!vars
<1>0. TypeOK /\ PhasesAgree
  BY DEF IInv
<1>1. CASE Start
  <2>1. UNCHANGED Busy
    BY <1>1 DEF Start, Busy
  <2> QED BY <1>1, <2>1 DEF Start, Phase, Lifecycle!Next, Lifecycle!Start
<1>2. CASE StopBegin
  <2>1. UNCHANGED Busy
    BY <1>2 DEF StopBegin, Busy
  <2> QED BY <1>2, <2>1 DEF StopBegin, Phase, Lifecycle!Next, Lifecycle!BeginStop
<1>3. CASE StopServer
  <2>1. UNCHANGED Busy
    BY <1>3 DEF StopServer, Busy
  <2> QED BY <1>3, <2>1 DEF StopServer, Phase, Lifecycle!Next, Lifecycle!JoinAcceptor
<1>4. CASE StopJoin
  <2>1. UNCHANGED Busy
    BY <1>4 DEF StopJoin, Busy
  <2>2. Busy = {}
    BY <1>0, <1>4 DEF StopJoin, Joined, PhasesAgree
  <2> QED BY <1>4, <2>1, <2>2 DEF StopJoin, Phase, Lifecycle!Next, Lifecycle!EndStop
<1>5. CASE Listen \/ Started
  BY <1>5 DEF Listen, Started, Phase, Busy
<1>6. CASE ListenReturns
  <2>1. UNCHANGED Busy
    BY <1>0, <1>6 DEF ListenReturns, Busy, TypeOK
  <2> QED BY <1>6, <2>1 DEF ListenReturns, Phase
<1>7. CASE ClearRequests \/ \E k \in Keys, h \in Handlers : AddRoute(k, h)
  BY <1>7 DEF ClearRequests, AddRoute, Phase, Busy
<1>8. ASSUME NEW r \in Requests, NEW k \in Keys, Arrive(r, k) PROVE UNCHANGED <<Phase, Busy>>
  BY <1>0, <1>8 DEF Arrive, Goto, Phase, Busy, TypeOK
<1>9. ASSUME NEW r \in Requests, WorkerStep(r) PROVE [Lifecycle!Next]_Lifecycle!vars
  <2>1. UNCHANGED Phase
    BY <1>0, <1>9, WorkerMoves DEF Phase
  <2>2. CASE listener = "listening" /\ pc[r] = "queued" /\ pc'[r] = "record"
    <3>1. Busy' = Busy \union {r} /\ r \notin Busy
      BY <1>0, <1>9, <2>2, WorkerMoves DEF Busy
    <3>2. Phase \in {"serving", "closing"}
      BY <1>0, <2>2 DEF PhasesAgree, Phase, TypeOK
    <3> QED BY <2>1, <3>1, <3>2 DEF Lifecycle!Next, Lifecycle!Take
  <2>3. CASE r \in Busy /\ pc'[r] = "answered"
    <3>1. Busy' = Busy \ {r}
      BY <1>0, <1>9, <2>3, WorkerMoves DEF Busy
    <3> QED BY <2>1, <2>3, <3>1 DEF Lifecycle!Next, Lifecycle!Finish
  <2>4. CASE pc[r] = "queued" /\ pc'[r] = "unknown"
    BY <1>0, <1>9, <2>1, <2>4, WorkerMoves DEF Busy
  <2>5. CASE r \in Busy /\ pc'[r] \in {"find", "handle"}
    BY <1>0, <1>9, <2>1, <2>5, WorkerMoves DEF Busy
  <2> QED BY <1>0, <1>9, <2>2, <2>3, <2>4, <2>5, WorkerMoves
<1>10. CASE UNCHANGED vars
  BY <1>10 DEF vars, Phase, Busy
<1> QED BY <1>1, <1>2, <1>3, <1>4, <1>5, <1>6, <1>7, <1>8, <1>9, <1>10 DEF Next, ServerStep

-----------------------------------------------------------------------------
(* The theorems.                                                               *)

(* Every state of the server satisfies the inductive invariant.                *)
THEOREM Consistency == Spec => []IInv
<1>1. Init => IInv
  <2> SUFFICES ASSUME Init PROVE IInv
    OBVIOUS
  <2>1. TypeOK
    BY InitTypeOK
  <2>2. AnsweredAsRegistered /\ TakesWhatIsWanted
    BY DEF Init, AnsweredAsRegistered, TakesWhatIsWanted, Busy
  <2>3. HistoryMatchesPlaces
    BY DEF Init, HistoryMatchesPlaces, Listed
  <2>4. PhasesAgree
    BY DEF Init, PhasesAgree, Busy
  <2> QED BY <2>1, <2>2, <2>3, <2>4 DEF IInv
<1>2. IInv /\ [Next]_vars => IInv'
  BY NextTypeOK, NextTakesWhatIsWanted, NextHistory, NextPhasesAgree DEF IInv
<1> QED BY <1>1, <1>2, PTL DEF Spec

(* The server keeps its types.                                                 *)
THEOREM TypeInvariance == Spec => []TypeOK
<1>1. IInv => TypeOK
  BY DEF IInv
<1> QED BY <1>1, Consistency, PTL

(* A request is answered by a handler that was registered for it while it was  *)
(* under way, or as unknown when there was a moment without one.               *)
THEOREM AnswersAreRegistered == Spec => []AnsweredAsRegistered
<1>1. IInv => AnsweredAsRegistered
  BY DEF IInv
<1> QED BY <1>1, Consistency, PTL

(* requests() has what was answered, once, and in an order in which it was     *)
(* made.                                                                       *)
THEOREM HistoryOfRequests == Spec => []HistoryIsTrue
<1>1. IInv => HistoryIsTrue
  <2> SUFFICES ASSUME IInv PROVE HistoryIsTrue
    OBVIOUS
  <2>0. HistoryMatchesPlaces /\ TypeOK
    BY DEF IInv
  <2>1. ASSUME NEW r \in Requests, Listed(r)
        PROVE  Position(r) \in DOMAIN history /\ history[Position(r)] = r
    BY <2>1 DEF Listed, Position
  <2>2. ASSUME NEW r \in Requests, NEW q \in Requests, Listed(r), Listed(q), q \in before[r]
        PROVE  Position(q) < Position(r)
    BY <2>0, <2>1, <2>2 DEF HistoryMatchesPlaces
  <2> QED BY <2>0, <2>2 DEF HistoryMatchesPlaces, HistoryIsTrue
<1> QED BY <1>1, Consistency, PTL

(* Both servers start and stop as ServerLifecycle says: a worker begins on a   *)
(* request only until httplib has been told to stop, and stop() returns only   *)
(* when no handler of the test is running.                                     *)
THEOREM HttpImplementsLifecycle == Spec => ImplementsLifecycle
<1>1. Init => Lifecycle!Init
  BY DEF Init, Phase, Busy, Lifecycle!Init
<1>2. IInv /\ [Next]_vars => [Lifecycle!Next]_Lifecycle!vars
  BY NextImplements
<1> QED BY <1>1, <1>2, Consistency, PTL DEF Spec, ImplementsLifecycle, Lifecycle!Spec
=============================================================================
