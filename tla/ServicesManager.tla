--------------------------- MODULE ServicesManager ---------------------------
(***************************************************************************)
(* The services page (duradmin/src/main/webapp/js/services-manager.js):    *)
(* the list of deployed services, the detail pane of one deployment, and   *)
(* the operations that change them over asynchronous requests:            *)
(* refreshDeployedServices (at start-up from a timer, and after a deploy   *)
(* or a redeploy), undeploy from the detail pane's switch, redeploy from  *)
(* the reconfigure dialog and deploy from the configure dialog.  All of    *)
(* them share one busy indicator (dc.busy / dc.done); deploy and redeploy  *)
(* show it modally, which blocks the user's clicks.                       *)
(*                                                                         *)
(* Requests are answered in any order.  The server is modelled by the set *)
(* of deployments it has; a request is processed by it at some moment     *)
(* (a refresh reads a snapshot then) and its answer is delivered later,    *)
(* or the transport fails before or after the server processed it.        *)
(* The selectable list widget and dc.busy are outside src/ and are        *)
(* modelled from what the page asks of them: the list holds a set of      *)
(* deployments and a current item; the indicator is off, plain or modal.  *)
(* The page's Details panel (GetServiceDeploymentConfig) only fills the   *)
(* pane it was issued for and is left out; the session check of dc.ajax   *)
(* is modelled in StoreApi.                                               *)
(***************************************************************************)
EXTENDS Naturals, FiniteSets

CONSTANTS
    Deps,          \* deployment ids the server can hand out
    InitDeployed,  \* the deployments on the server when the page loads
    MaxUserOps,    \* bound on the undeploys, deploys and redeploys started
    None

ASSUME ConstantsAssumption ==
    /\ InitDeployed \subseteq Deps
    /\ MaxUserOps \in Nat
    /\ None \notin Deps

VARIABLES
    server,      \* the deployments the server has
    ever,        \* the deployment ids the server has ever handed out
    list,        \* the deployments in the services list
    current,     \* the list's current item, or None
    detail,      \* the deployment the detail pane shows (#deployment-id)
    switchOn,    \* the detail pane's deploy switch is on
    busy,        \* the busy indicator: "off", "plain" or "modal"
    reqs,        \* the requests sent and not yet answered
    nextId,      \* the id of the next request
    userOps,     \* the operations the user has started
    timerFired,  \* the start-up timer has run
    gone         \* the deployments whose undeploy the page saw succeed

vars == <<server, ever, list, current, detail, switchOn, busy, reqs,
          nextId, userOps, timerFired, gone>>

Kinds == {"refresh", "undeploy", "redeploy", "deploy"}

(* A request: its kind, the deployment it is about, whether the server has *)
(* processed it, whether the server's answer is a success, and for a      *)
(* refresh the deployments the server listed.                              *)
Request == [id : Nat, kind : Kinds, dep : Deps \cup {None},
            stage : {"sent", "processed"}, ok : BOOLEAN, snap : SUBSET Deps]

TypeOK ==
    /\ server \subseteq Deps /\ ever \subseteq Deps
    /\ list \subseteq Deps
    /\ current \in Deps \cup {None}
    /\ detail \in Deps \cup {None}
    /\ switchOn \in BOOLEAN
    /\ busy \in {"off", "plain", "modal"}
    /\ reqs \subseteq Request
    /\ nextId \in Nat /\ userOps \in Nat
    /\ timerFired \in BOOLEAN
    /\ gone \subseteq Deps

Init ==
    /\ server = InitDeployed
    /\ ever = InitDeployed
    /\ list = {}
    /\ current = None
    /\ detail = None
    /\ switchOn = FALSE
    /\ busy = "off"
    /\ reqs = {}
    /\ nextId = 0
    /\ userOps = 0
    /\ timerFired = FALSE
    /\ gone = {}

-----------------------------------------------------------------------------
NewRequest(kind, dep) ==
    [id |-> nextId, kind |-> kind, dep |-> dep,
     stage |-> "sent", ok |-> FALSE, snap |-> {}]

(* Sending request kind about dep. *)
Send(kind, dep) ==
    /\ reqs' = reqs \cup {NewRequest(kind, dep)}
    /\ nextId' = nextId + 1

(* The user can click only while no modal busy indicator covers the page. *)
UserCanStart ==
    /\ busy # "modal"
    /\ userOps < MaxUserOps

(* setTimeout(refreshDeployedServices, 1000): begin shows "Retrieving      *)
(* services..." and GetDeployedServices is sent.                           *)
StartupRefresh ==
    /\ ~timerFired
    /\ timerFired' = TRUE
    /\ busy' = "plain"
    /\ Send("refresh", None)
    /\ UNCHANGED <<server, ever, list, current, detail, switchOn, userOps, gone>>

(* A click on an item of the list: currentItemChanged loads its detail     *)
(* pane, whose deploy switch starts "on".                                  *)
SelectItem(d) ==
    /\ busy # "modal"
    /\ d \in list
    /\ current' = d
    /\ detail' = d
    /\ switchOn' = TRUE
    /\ UNCHANGED <<server, ever, list, busy, reqs, nextId, userOps,
                   timerFired, gone>>

(* turnOff of the detail pane's switch: begin shows "Undeploying ..." and  *)
(* dc.service.Undeploy is sent for the pane's deployment.                  *)
TurnOff ==
    /\ UserCanStart
    /\ detail # None
    /\ switchOn
    /\ switchOn' = FALSE
    /\ busy' = "plain"
    /\ Send("undeploy", detail)
    /\ userOps' = userOps + 1
    /\ UNCHANGED <<server, ever, list, current, detail, timerFired, gone>>

(* The reconfigure dialog opens only with a current item; Redeploy shows  *)
(* the modal indicator and posts method=reconfigure for it.                *)
Redeploy ==
    /\ UserCanStart
    /\ current # None
    /\ busy' = "modal"
    /\ Send("redeploy", current)
    /\ userOps' = userOps + 1
    /\ UNCHANGED <<server, ever, list, current, detail, switchOn, timerFired,
                   gone>>

(* Deploy in the configure dialog shows the modal indicator and posts     *)
(* method=deploy; the server picks the new deployment's id.               *)
Deploy ==
    /\ UserCanStart
    /\ busy' = "modal"
    /\ Send("deploy", None)
    /\ userOps' = userOps + 1
    /\ UNCHANGED <<server, ever, list, current, detail, switchOn, timerFired,
                   gone>>

-----------------------------------------------------------------------------
(* The server processes request r. *)
Processed(r, ok, dep, snap) ==
    (reqs \ {r}) \cup {[r EXCEPT !.stage = "processed", !.ok = ok,
                                 !.dep = dep, !.snap = snap]}

ServerProcess(r) ==
    /\ r \in reqs
    /\ r.stage = "sent"
    /\ \/ /\ r.kind = "refresh"
          /\ reqs' = Processed(r, TRUE, None, server)
          /\ UNCHANGED <<server, ever>>
       \/ /\ r.kind = "undeploy"
          /\ server' = server \ {r.dep}
          /\ reqs' = Processed(r, r.dep \in server, r.dep, {})
          /\ UNCHANGED ever
       \/ /\ r.kind = "redeploy"
          /\ reqs' = Processed(r, r.dep \in server, r.dep, {})
          /\ UNCHANGED <<server, ever>>
       \/ /\ r.kind = "deploy"
          /\ \E d \in Deps \ ever :
                /\ server' = server \cup {d}
                /\ ever' = ever \cup {d}
                /\ reqs' = Processed(r, TRUE, d, {})
    /\ UNCHANGED <<list, current, detail, switchOn, busy, nextId, userOps,
                   timerFired, gone>>

-----------------------------------------------------------------------------
(* loadDeployedServiceList(services) followed by the reselection of        *)
(* refreshDeployedServices' success: an empty list returns early; else the *)
(* item of the detail pane's #deployment-id is made current when the pane  *)
(* has one, the first item otherwise; currentItemChanged reloads the pane. *)
ApplyRefresh(snap) ==
    /\ list' = snap
    /\ \/ /\ snap = {}
          /\ current' = None
          /\ UNCHANGED <<detail, switchOn>>
       \/ /\ snap # {}
          /\ detail # None
          /\ detail \in snap
          /\ current' = detail
          /\ UNCHANGED detail
          /\ switchOn' = TRUE
       \/ /\ snap # {}
          /\ detail # None
          /\ detail \notin snap
          /\ current' = None
          /\ UNCHANGED <<detail, switchOn>>
       \/ /\ snap # {}
          /\ detail = None
          /\ \E d \in snap : current' = d /\ detail' = d
          /\ switchOn' = TRUE

(* Request r of kind k is in flight and its answer is a success. *)
Succeeds(r, k) ==
    /\ r \in reqs
    /\ r.kind = k
    /\ r.stage = "processed"
    /\ r.ok

(* refreshDeployedServices' success: dc.done, then the list is reloaded. *)
RefreshSucceeds(r) ==
    /\ Succeeds(r, "refresh")
    /\ busy' = "off"
    /\ reqs' = reqs \ {r}
    /\ ApplyRefresh(r.snap)
    /\ UNCHANGED <<server, ever, nextId, userOps, timerFired, gone>>

(* Undeploy's success: dc.done, the item is removed from the list by id, *)
(* and future.success() leaves the switch off.                           *)
UndeploySucceeds(r) ==
    /\ Succeeds(r, "undeploy")
    /\ busy' = "off"
    /\ reqs' = reqs \ {r}
    /\ list' = list \ {r.dep}
    /\ current' = IF current = r.dep THEN None ELSE current
    /\ gone' = gone \cup {r.dep}
    /\ UNCHANGED <<server, ever, detail, switchOn, nextId, userOps, timerFired>>

(* Redeploy's success: dc.done, then refreshDeployedServices(), whose     *)
(* begin shows the plain indicator.                                        *)
RedeploySucceeds(r) ==
    /\ Succeeds(r, "redeploy")
    /\ busy' = "plain"
    /\ reqs' = (reqs \ {r}) \cup {NewRequest("refresh", None)}
    /\ nextId' = nextId + 1
    /\ UNCHANGED <<server, ever, list, current, detail, switchOn, userOps,
                   timerFired, gone>>

(* Deploy's success: dc.done, loadDeploymentDetail of the new deployment, *)
(* then refreshDeployedServices().                                         *)
DeploySucceeds(r) ==
    /\ Succeeds(r, "deploy")
    /\ busy' = "plain"
    /\ reqs' = (reqs \ {r}) \cup {NewRequest("refresh", None)}
    /\ nextId' = nextId + 1
    /\ detail' = r.dep
    /\ switchOn' = TRUE
    /\ UNCHANGED <<server, ever, list, current, userOps, timerFired, gone>>

(* A request of kind k fails: the server answered with an error, or the   *)
(* transport failed before or after the server processed it.              *)
Fails(r, k) ==
    /\ r \in reqs
    /\ r.kind = k
    /\ reqs' = reqs \ {r}

(* refreshDeployedServices' failure: dc.done and an alert. *)
RefreshFails(r) ==
    /\ Fails(r, "refresh")
    /\ busy' = "off"
    /\ UNCHANGED <<server, ever, list, current, detail, switchOn, nextId,
                   userOps, timerFired, gone>>

(* Faulty variant of UndeployFails: the switch's future has no failure    *)
(* member, so the guarded future.failure(text) is skipped and the switch  *)
(* stays off.                                                              *)
UndeployFailsNoRestore(r) ==
    /\ Fails(r, "undeploy")
    /\ busy' = "off"
    /\ UNCHANGED <<server, ever, list, current, detail, switchOn, nextId,
                   userOps, timerFired, gone>>

(* Undeploy's failure: dc.done, an alert, and future.failure puts the     *)
(* switch back on.                                                         *)
UndeployFails(r) ==
    /\ Fails(r, "undeploy")
    /\ busy' = "off"
    /\ switchOn' = TRUE
    /\ UNCHANGED <<server, ever, list, current, detail, nextId,
                   userOps, timerFired, gone>>

(* Redeploy's failure: dc.done and an alert. *)
RedeployFails(r) ==
    /\ Fails(r, "redeploy")
    /\ busy' = "off"
    /\ UNCHANGED <<server, ever, list, current, detail, switchOn, nextId,
                   userOps, timerFired, gone>>

(* Deploy's dc.ajax settings have no failure handler: nothing runs. *)
DeployFails(r) ==
    /\ Fails(r, "deploy")
    /\ UNCHANGED <<server, ever, list, current, detail, switchOn, busy,
                   nextId, userOps, timerFired, gone>>

Next ==
    \/ StartupRefresh
    \/ \E d \in Deps : SelectItem(d)
    \/ TurnOff
    \/ Redeploy
    \/ Deploy
    \/ \E r \in reqs :
          \/ ServerProcess(r)
          \/ RefreshSucceeds(r) \/ UndeploySucceeds(r)
          \/ RedeploySucceeds(r) \/ DeploySucceeds(r)
          \/ RefreshFails(r) \/ UndeployFails(r)
          \/ RedeployFails(r) \/ DeployFails(r)

Spec == Init /\ [][Next]_vars

-----------------------------------------------------------------------------
(* The detail pane's switch reads "off" for a deployment only while an    *)
(* undeploy of it is in flight or after the page saw one succeed: turnOff  *)
(* sends the undeploy, its failure handler turns the switch back on, and   *)
(* every reload of the pane (selection, refresh, deploy) starts it on.     *)
SwitchOffMeansUndeploying ==
    ~switchOn /\ detail # None =>
        \/ \E q \in reqs : q.kind = "undeploy" /\ q.dep = detail
        \/ detail \in gone

(* Once the page has seen a deployment's undeploy succeed, the services    *)
(* list never shows it again (callers must tolerate completions out of     *)
(* order).                                                                 *)
NoResurrection == \A d \in gone : d \notin list

(* The busy indicator is hidden whenever no operation is in flight. *)
BusyOffWhenIdle == reqs = {} => busy = "off"

(* While a deploy or a redeploy is in flight the modal indicator stays up. *)
ModalWhileDeploying ==
    (\E r \in reqs : r.kind \in {"deploy", "redeploy"}) => busy = "modal"

=============================================================================
