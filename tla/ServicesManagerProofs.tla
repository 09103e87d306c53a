------------------------ MODULE ServicesManagerProofs ------------------------
(***************************************************************************)
(* Proofs about the services page, for every set of deployments, every    *)
(* initial server state and every bound on the user's operations.         *)
(*                                                                         *)
(* TypeOK needs one more fact: an undeploy or a redeploy request is about *)
(* a deployment, not None, so the undeploy's success adds a deployment to  *)
(* gone.  SwitchOffMeansUndeploying is inductive given                   *)
(* TypeOK: only turnOff turns the switch off, and it sends the undeploy   *)
(* that the undeploy's success turns into a member of gone.                *)
(***************************************************************************)
EXTENDS ServicesManager, TLAPS

USE ConstantsAssumption

(* Undeploy and redeploy requests are about a deployment. *)
ReqsHaveDeps ==
    \A q \in reqs : q.kind \in {"undeploy", "redeploy"} => q.dep \in Deps

IInv == TypeOK /\ ReqsHaveDeps

-----------------------------------------------------------------------------
(* A request built by the page has the request type. *)
LEMMA NewRequestType ==
    ASSUME NEW k \in Kinds, NEW d \in Deps \cup {None}, nextId \in Nat
    PROVE  NewRequest(k, d) \in Request
BY DEF NewRequest, Request

(* The server's processing of a request keeps the request type. *)
LEMMA ProcessedType ==
    ASSUME NEW r \in Request, NEW ok \in BOOLEAN, NEW d \in Deps \cup {None},
           NEW snap \in SUBSET Deps
    PROVE  [r EXCEPT !.stage = "processed", !.ok = ok, !.dep = d,
                     !.snap = snap] \in Request
BY DEF Request

(* Processing one request keeps the set of requests typed. *)
LEMMA ProcessedReqs ==
    ASSUME reqs \subseteq Request, NEW r \in reqs, NEW ok \in BOOLEAN,
           NEW d \in Deps \cup {None}, NEW snap \in SUBSET Deps
    PROVE  Processed(r, ok, d, snap) \subseteq Request
BY ProcessedType DEF Processed

(* TypeOK of the next state, one conjunct per variable. *)
LEMMA TypeFrame ==
    ASSUME server' \subseteq Deps, ever' \subseteq Deps, list' \subseteq Deps,
           current' \in Deps \cup {None}, detail' \in Deps \cup {None},
           switchOn' \in BOOLEAN, busy' \in {"off", "plain", "modal"},
           reqs' \subseteq Request, nextId' \in Nat, userOps' \in Nat,
           timerFired' \in BOOLEAN, gone' \subseteq Deps
    PROVE  TypeOK'
BY DEF TypeOK

(* A refresh's list and current item come from its snapshot. *)
LEMMA ApplyRefreshSelection ==
    ASSUME NEW snap \in SUBSET Deps, detail \in Deps \cup {None},
           switchOn \in BOOLEAN, ApplyRefresh(snap)
    PROVE  /\ list' = snap
           /\ current' \in snap \cup {None}
           /\ detail' \in Deps \cup {None}
           /\ switchOn' \in BOOLEAN
<1>1. list' = snap
  BY DEF ApplyRefresh
<1>2. /\ current' \in snap \cup {None}
      /\ detail' \in Deps \cup {None}
      /\ switchOn' \in BOOLEAN
  BY Zenon DEF ApplyRefresh
<1>3. QED
  BY <1>1, <1>2

-----------------------------------------------------------------------------
LEMMA InitIInv == Init => IInv
<1> SUFFICES ASSUME Init PROVE IInv
  OBVIOUS
<1>1. server \subseteq Deps /\ ever \subseteq Deps /\ list \subseteq Deps
  BY DEF Init
<1>2. current \in Deps \cup {None} /\ detail \in Deps \cup {None}
  BY DEF Init
<1>3. reqs \subseteq Request /\ nextId \in Nat /\ userOps \in Nat
  BY DEF Init
<1>4. switchOn \in BOOLEAN /\ busy \in {"off", "plain", "modal"}
      /\ timerFired \in BOOLEAN /\ gone \subseteq Deps
  BY DEF Init
<1>5. QED
  BY <1>1, <1>2, <1>3, <1>4 DEF Init, IInv, TypeOK, ReqsHaveDeps

LEMMA NextTypeOK == IInv /\ [Next]_vars => TypeOK'
<1> SUFFICES ASSUME IInv, [Next]_vars PROVE TypeOK'
  OBVIOUS
<1> USE DEF IInv, ReqsHaveDeps
<1>0. TypeOK
  OBVIOUS
<1>1. CASE StartupRefresh
  <2>1. reqs' \subseteq Request /\ nextId' \in Nat
    BY <1>0, <1>1, NewRequestType DEF StartupRefresh, Send, Kinds, TypeOK
  <2>2. QED
    BY <1>0, <1>1, <2>1, TypeFrame DEF StartupRefresh, TypeOK
<1>2. ASSUME NEW d \in Deps, SelectItem(d) PROVE TypeOK'
  BY <1>0, <1>2, TypeFrame DEF SelectItem, TypeOK
<1>3. CASE TurnOff
  <2>1. detail \in Deps
    BY <1>0, <1>3 DEF TurnOff, TypeOK
  <2>2. reqs' \subseteq Request /\ nextId' \in Nat /\ userOps' \in Nat
    BY <1>0, <1>3, <2>1, NewRequestType DEF TurnOff, Send, Kinds, TypeOK
  <2>3. QED
    BY <1>0, <1>3, <2>2, TypeFrame DEF TurnOff, TypeOK
<1>4. CASE Redeploy
  <2>1. current \in Deps
    BY <1>0, <1>4 DEF Redeploy, TypeOK
  <2>2. reqs' \subseteq Request /\ nextId' \in Nat /\ userOps' \in Nat
    BY <1>0, <1>4, <2>1, NewRequestType DEF Redeploy, Send, Kinds, TypeOK
  <2>3. QED
    BY <1>0, <1>4, <2>2, TypeFrame DEF Redeploy, TypeOK
<1>5. CASE Deploy
  <2>1. reqs' \subseteq Request /\ nextId' \in Nat /\ userOps' \in Nat
    BY <1>0, <1>5, NewRequestType DEF Deploy, Send, Kinds, TypeOK
  <2>2. QED
    BY <1>0, <1>5, <2>1, TypeFrame DEF Deploy, TypeOK
<1>6. ASSUME NEW r \in reqs, ServerProcess(r) PROVE TypeOK'
  <2>1. r \in Request /\ reqs \subseteq Request /\ server \subseteq Deps
    BY <1>0 DEF TypeOK
  <2>2. r.dep \in Deps \cup {None} /\ r.kind \in Kinds
    BY <2>1 DEF Request
  <2>3. UNCHANGED <<list, current, detail, switchOn, busy, nextId, userOps,
                    timerFired, gone>>
    BY <1>6 DEF ServerProcess
  <2>4. server' \subseteq Deps /\ ever' \subseteq Deps /\ reqs' \subseteq Request
    <3>1. CASE r.kind = "refresh"
      BY <1>0, <1>6, <2>1, <3>1, ProcessedReqs DEF ServerProcess, TypeOK
    <3>2. CASE r.kind = "undeploy"
      <4>1. reqs' = Processed(r, r.dep \in server, r.dep, {})
        BY <1>6, <3>2 DEF ServerProcess
      <4>2. Processed(r, r.dep \in server, r.dep, {}) \subseteq Request
        <5>1. (r.dep \in server) \in BOOLEAN /\ {} \in SUBSET Deps
          OBVIOUS
        <5>2. QED
          BY <2>1, <2>2, <5>1, ProcessedReqs
      <4>3. server' \subseteq server /\ ever' = ever
        BY <1>6, <3>2 DEF ServerProcess
      <4>4. QED
        BY <1>0, <2>1, <4>1, <4>2, <4>3 DEF TypeOK
    <3>3. CASE r.kind = "redeploy"
      <4>1. reqs' = Processed(r, r.dep \in server, r.dep, {})
        BY <1>6, <3>3 DEF ServerProcess
      <4>2. Processed(r, r.dep \in server, r.dep, {}) \subseteq Request
        <5>1. (r.dep \in server) \in BOOLEAN /\ {} \in SUBSET Deps
          OBVIOUS
        <5>2. QED
          BY <2>1, <2>2, <5>1, ProcessedReqs
      <4>3. server' \subseteq server /\ ever' = ever
        BY <1>6, <3>3 DEF ServerProcess
      <4>4. QED
        BY <1>0, <2>1, <4>1, <4>2, <4>3 DEF TypeOK
    <3>4. CASE r.kind = "deploy"
      BY <1>0, <1>6, <2>1, <3>4, ProcessedReqs DEF ServerProcess, TypeOK
    <3>5. QED
      BY <2>2, <3>1, <3>2, <3>3, <3>4 DEF Kinds
  <2>5. QED
    BY <1>0, <2>3, <2>4, TypeFrame DEF TypeOK
<1>7. ASSUME NEW r \in reqs, RefreshSucceeds(r) PROVE TypeOK'
  <2>1. r.snap \in SUBSET Deps
    BY <1>0 DEF TypeOK, Request
  <2>2. /\ list' = r.snap
        /\ current' \in r.snap \cup {None}
        /\ detail' \in Deps \cup {None}
        /\ switchOn' \in BOOLEAN
    BY <1>0, <1>7, <2>1, ApplyRefreshSelection DEF RefreshSucceeds, TypeOK
  <2>3. reqs' \subseteq Request
    BY <1>0, <1>7 DEF RefreshSucceeds, TypeOK
  <2>4. QED
    BY <1>0, <1>7, <2>1, <2>2, <2>3, TypeFrame DEF RefreshSucceeds, TypeOK
<1>8. ASSUME NEW r \in reqs, UndeploySucceeds(r) PROVE TypeOK'
  <2>1. r.dep \in Deps
    BY <1>8 DEF UndeploySucceeds, Succeeds
  <2>2. /\ list' \subseteq Deps /\ gone' \subseteq Deps
        /\ current' \in Deps \cup {None} /\ reqs' \subseteq Request
    BY <1>0, <1>8, <2>1 DEF UndeploySucceeds, TypeOK
  <2>3. QED
    BY <1>0, <1>8, <2>2, TypeFrame DEF UndeploySucceeds, TypeOK
<1>9. ASSUME NEW r \in reqs, RedeploySucceeds(r) PROVE TypeOK'
  <2>1. reqs' \subseteq Request /\ nextId' \in Nat
    BY <1>0, <1>9, NewRequestType DEF RedeploySucceeds, Kinds, TypeOK
  <2>2. QED
    BY <1>0, <1>9, <2>1, TypeFrame DEF RedeploySucceeds, TypeOK
<1>10. ASSUME NEW r \in reqs, DeploySucceeds(r) PROVE TypeOK'
  <2>1. reqs' \subseteq Request /\ nextId' \in Nat
    BY <1>0, <1>10, NewRequestType DEF DeploySucceeds, Kinds, TypeOK
  <2>2. r.dep \in Deps \cup {None}
    BY <1>0 DEF TypeOK, Request
  <2>3. QED
    BY <1>0, <1>10, <2>1, <2>2, TypeFrame DEF DeploySucceeds, TypeOK
<1>11. ASSUME NEW r \in reqs,
              RefreshFails(r) \/ UndeployFails(r) \/ RedeployFails(r)
              \/ DeployFails(r)
       PROVE  TypeOK'
  <2>1. reqs' \subseteq Request /\ UNCHANGED <<list, current>>
    BY <1>0, <1>11 DEF RefreshFails, UndeployFails, RedeployFails,
       DeployFails, Fails, TypeOK
  <2>2. busy' \in {"off", "plain", "modal"} /\ switchOn' \in BOOLEAN
    BY <1>0, <1>11 DEF RefreshFails, UndeployFails, RedeployFails,
       DeployFails, TypeOK
  <2>3. QED
    BY <1>0, <1>11, <2>1, <2>2, TypeFrame DEF RefreshFails, UndeployFails,
       RedeployFails, DeployFails, TypeOK
<1>12. CASE UNCHANGED vars
  BY <1>0, <1>12 DEF vars, TypeOK
<1>13. QED
  BY <1>1, <1>2, <1>3, <1>4, <1>5, <1>6, <1>7, <1>8, <1>9, <1>10, <1>11,
     <1>12 DEF Next

(* A step adds at most one request, and an undeploy or a redeploy it adds *)
(* is about a deployment.                                                  *)
LEMMA AddKeepsDeps ==
    ASSUME ReqsHaveDeps, NEW q, reqs' \subseteq reqs \cup {q},
           q.kind \in {"undeploy", "redeploy"} => q.dep \in Deps
    PROVE  ReqsHaveDeps'
BY DEF ReqsHaveDeps

LEMMA NextReqsHaveDeps == IInv /\ [Next]_vars => ReqsHaveDeps'
<1> SUFFICES ASSUME IInv, [Next]_vars PROVE ReqsHaveDeps'
  OBVIOUS
<1>0. TypeOK /\ ReqsHaveDeps
  BY DEF IInv
<1>1. CASE StartupRefresh
  BY <1>0, <1>1, AddKeepsDeps DEF StartupRefresh, Send, NewRequest
<1>2. CASE \E d \in Deps : SelectItem(d)
  BY <1>0, <1>2 DEF SelectItem, ReqsHaveDeps
<1>3. CASE TurnOff
  <2>1. detail \in Deps
    BY <1>0, <1>3 DEF TurnOff, TypeOK
  <2>2. QED
    BY <1>0, <1>3, <2>1, AddKeepsDeps DEF TurnOff, Send, NewRequest
<1>4. CASE Redeploy
  <2>1. current \in Deps
    BY <1>0, <1>4 DEF Redeploy, TypeOK
  <2>2. QED
    BY <1>0, <1>4, <2>1, AddKeepsDeps DEF Redeploy, Send, NewRequest
<1>5. CASE Deploy
  BY <1>0, <1>5, AddKeepsDeps DEF Deploy, Send, NewRequest
<1>6. ASSUME NEW r \in reqs, ServerProcess(r) PROVE ReqsHaveDeps'
  <2>1. r.kind \in {"undeploy", "redeploy"} => r.dep \in Deps
    BY <1>0 DEF ReqsHaveDeps
  <2>2. \E ok, d, snap :
           /\ reqs' = Processed(r, ok, d, snap)
           /\ r.kind \in {"undeploy", "redeploy"} => d = r.dep
    BY <1>6 DEF ServerProcess
  <2>3. PICK ok, d, snap :
           /\ reqs' = Processed(r, ok, d, snap)
           /\ r.kind \in {"undeploy", "redeploy"} => d = r.dep
    BY <2>2
  <2>4. DEFINE q == [r EXCEPT !.stage = "processed", !.ok = ok, !.dep = d,
                              !.snap = snap]
  <2>5. reqs' \subseteq reqs \cup {q}
    BY <2>3 DEF Processed
  <2>6. q.kind \in {"undeploy", "redeploy"} => q.dep \in Deps
    <3>1. r \in Request
      BY <1>0 DEF TypeOK
    <3>2. q.kind = r.kind /\ q.dep = d
      BY <3>1 DEF Request
    <3>3. QED
      BY <2>1, <2>3, <3>2
  <2>7. QED
    BY <1>0, <2>5, <2>6, AddKeepsDeps
<1>7. ASSUME NEW r \in reqs,
             \/ RefreshSucceeds(r) \/ UndeploySucceeds(r)
             \/ RefreshFails(r) \/ UndeployFails(r) \/ RedeployFails(r)
             \/ DeployFails(r)
      PROVE  ReqsHaveDeps'
  <2>1. reqs' \subseteq reqs
    BY <1>7 DEF RefreshSucceeds, UndeploySucceeds, RefreshFails,
       UndeployFails, RedeployFails, DeployFails, Fails
  <2>2. QED
    BY <1>0, <2>1 DEF ReqsHaveDeps
<1>8. ASSUME NEW r \in reqs, RedeploySucceeds(r) \/ DeploySucceeds(r)
      PROVE  ReqsHaveDeps'
  BY <1>0, <1>8, AddKeepsDeps DEF RedeploySucceeds, DeploySucceeds,
     NewRequest
<1>9. CASE UNCHANGED vars
  BY <1>0, <1>9 DEF vars, ReqsHaveDeps
<1>10. QED
  BY <1>1, <1>2, <1>3, <1>4, <1>5, <1>6, <1>7, <1>8, <1>9 DEF Next

LEMMA NextIInv == IInv /\ [Next]_vars => IInv'
BY NextTypeOK, NextReqsHaveDeps DEF IInv

-----------------------------------------------------------------------------
(* A step that keeps every undeploy request, the pane and the switch, and  *)
(* forgets no undeploy it saw succeed, keeps SwitchOffMeansUndeploying.    *)
LEMMA SwitchFrame ==
    ASSUME SwitchOffMeansUndeploying,
           \A q \in reqs : q.kind = "undeploy" => q \in reqs',
           detail' = detail, switchOn' = switchOn, gone \subseteq gone'
    PROVE  SwitchOffMeansUndeploying'
BY DEF SwitchOffMeansUndeploying

(* A reload of the pane by a refresh turns the switch on or leaves the    *)
(* pane and the switch alone.                                              *)
LEMMA ApplyRefreshSwitch ==
    ASSUME NEW snap, ApplyRefresh(snap)
    PROVE  switchOn' = TRUE \/ (detail' = detail /\ switchOn' = switchOn)
BY Zenon DEF ApplyRefresh

LEMMA NextSwitchOff ==
    IInv /\ SwitchOffMeansUndeploying /\ [Next]_vars
        => SwitchOffMeansUndeploying'
<1> SUFFICES ASSUME IInv, SwitchOffMeansUndeploying, [Next]_vars
             PROVE  SwitchOffMeansUndeploying'
  OBVIOUS
<1>0. TypeOK
  BY DEF IInv
<1>1. CASE StartupRefresh \/ Redeploy \/ Deploy
  <2>1. reqs \subseteq reqs' /\ UNCHANGED <<detail, switchOn, gone>>
    BY <1>1 DEF StartupRefresh, Redeploy, Deploy, Send
  <2>2. QED
    BY <2>1, SwitchFrame
<1>2. CASE TurnOff
  <2>1. NewRequest("undeploy", detail) \in reqs' /\ detail' = detail
    BY <1>2 DEF TurnOff, Send
  <2>2. NewRequest("undeploy", detail).kind = "undeploy"
        /\ NewRequest("undeploy", detail).dep = detail
    BY DEF NewRequest
  <2>3. QED
    BY <2>1, <2>2 DEF SwitchOffMeansUndeploying
<1>3. ASSUME NEW r \in reqs, DeploySucceeds(r) \/ UndeployFails(r)
      PROVE  SwitchOffMeansUndeploying'
  <2>1. switchOn' = TRUE
    BY <1>3 DEF DeploySucceeds, UndeployFails
  <2>2. QED
    BY <2>1 DEF SwitchOffMeansUndeploying
<1>4. ASSUME NEW r \in reqs, ServerProcess(r) PROVE SwitchOffMeansUndeploying'
  <2>1. r \in Request
    BY <1>0 DEF TypeOK
  <2>2. PICK ok, d, snap :
           /\ reqs' = Processed(r, ok, d, snap)
           /\ r.kind = "undeploy" => d = r.dep
    BY <1>4 DEF ServerProcess
  <2>3. UNCHANGED <<detail, switchOn, gone>>
    BY <1>4 DEF ServerProcess
  <2>4. DEFINE p == [r EXCEPT !.stage = "processed", !.ok = ok, !.dep = d,
                              !.snap = snap]
  <2>5. p \in reqs' /\ reqs \ {r} \subseteq reqs'
    BY <2>2 DEF Processed
  <2>6. r.kind = "undeploy" => p.kind = "undeploy" /\ p.dep = r.dep
    BY <2>1, <2>2 DEF Request
  <2>7. QED
    BY <2>3, <2>5, <2>6 DEF SwitchOffMeansUndeploying
<1>5. ASSUME NEW r \in reqs, RefreshSucceeds(r) PROVE SwitchOffMeansUndeploying'
  <2>1. reqs' = reqs \ {r} /\ r.kind = "refresh" /\ UNCHANGED gone
    BY <1>5 DEF RefreshSucceeds, Succeeds
  <2>2. switchOn' = TRUE \/ (detail' = detail /\ switchOn' = switchOn)
    BY <1>5, ApplyRefreshSwitch DEF RefreshSucceeds
  <2>3. QED
    BY <2>1, <2>2, SwitchFrame DEF SwitchOffMeansUndeploying
<1>6. ASSUME NEW r \in reqs, UndeploySucceeds(r) PROVE SwitchOffMeansUndeploying'
  <2>1. reqs' = reqs \ {r} /\ r.kind = "undeploy" /\ gone' = gone \cup {r.dep}
        /\ UNCHANGED <<detail, switchOn>>
    BY <1>6 DEF UndeploySucceeds, Succeeds
  <2>2. QED
    BY <2>1 DEF SwitchOffMeansUndeploying
<1>7. ASSUME NEW r \in reqs, RedeploySucceeds(r) PROVE SwitchOffMeansUndeploying'
  <2>1. reqs \ {r} \subseteq reqs' /\ r.kind = "redeploy"
        /\ UNCHANGED <<detail, switchOn, gone>>
    BY <1>7 DEF RedeploySucceeds, Succeeds
  <2>2. QED
    BY <2>1, SwitchFrame
<1>8. ASSUME NEW r \in reqs,
             RefreshFails(r) \/ RedeployFails(r) \/ DeployFails(r)
      PROVE  SwitchOffMeansUndeploying'
  <2>1. reqs' = reqs \ {r} /\ r.kind # "undeploy"
        /\ UNCHANGED <<detail, switchOn, gone>>
    BY <1>8 DEF RefreshFails, RedeployFails, DeployFails, Fails
  <2>2. QED
    BY <2>1, SwitchFrame
<1>9. CASE UNCHANGED vars
  BY <1>9, SwitchFrame DEF vars
<1>10. CASE \E d \in Deps : SelectItem(d)
  BY <1>10 DEF SelectItem, SwitchOffMeansUndeploying
<1>11. QED
  BY <1>1, <1>2, <1>3, <1>4, <1>5, <1>6, <1>7, <1>8, <1>9, <1>10 DEF Next

-----------------------------------------------------------------------------
(* The variables keep their types in every reachable state. *)
THEOREM TypeCorrect == Spec => []TypeOK
<1>1. IInv => TypeOK
  BY DEF IInv
<1>2. QED
  BY <1>1, InitIInv, NextIInv, PTL DEF Spec

(* The detail pane's switch reads "off" only for a deployment whose       *)
(* undeploy is in flight or was seen to succeed, whatever order turnOff's  *)
(* answers, refreshes, selections and deploys happen in.                   *)
THEOREM SwitchShowsUndeploy == Spec => []SwitchOffMeansUndeploying
<1>1. Init => SwitchOffMeansUndeploying
  BY DEF Init, SwitchOffMeansUndeploying
<1>2. IInv /\ SwitchOffMeansUndeploying /\ [Next]_vars
        => IInv' /\ SwitchOffMeansUndeploying'
  BY NextIInv, NextSwitchOff
<1>3. QED
  BY <1>1, <1>2, InitIInv, PTL DEF Spec

=============================================================================
