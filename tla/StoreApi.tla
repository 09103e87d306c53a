------------------------------ MODULE StoreApi ------------------------------
(***************************************************************************)
(* The asynchronous call lifecycle of the DuraStore client API             *)
(* (duradmin/src/main/webapp/jquery/dc/api/durastore-api.js).              *)
(*                                                                         *)
(* Every API function takes a caller-supplied "future" with success and    *)
(* failure members and an optional begin member.  All but AddContentItem   *)
(* go through dc.ajax(settings, future), which calls future.begin when it  *)
(* exists, dispatches the request, checks the answer for the session-      *)
(* expiry marker and then runs the settings' success or failure handler    *)
(* (falling back on the future's failure when the settings have none).     *)
(* dc.ajax and dc.checkSession live outside src/ and are modelled from the *)
(* specification.  AddContentItem calls future.begin() itself and submits  *)
(* a form with ajaxSubmit.                                                 *)
(*                                                                         *)
(* An element of Ops is one invocation of an API function.  Its log is    *)
(* the sequence of members of its future that have been called.           *)
(***************************************************************************)
EXTENDS Naturals, Sequences

CONSTANTS Ops    \* invocation slots, each used for at most one call

ASSUME OpsAssumption == Ops # {}

VARIABLES
    site,        \* site[o]: the API function invocation o called
    phase,       \* phase[o]: "idle", "inflight", "done" or "thrown"
    resp,        \* resp[o]: how the transport answered o, "none" before
    log,         \* log[o]: the members of o's future called so far
    redirected,  \* the page has been routed to the session-renewal page
    unloaded     \* the navigation has happened: no script runs any more

vars == <<site, phase, resp, log, redirected, unloaded>>

Sites == {"GetSpace", "DeleteSpace", "AddSpace", "GetSpaces",
          "GetContentItem", "DeleteContentItem", "UpdateContentItemMimetype",
          "AddContentItem", "CheckIfContentItemExists"}

NoSite == "none"

(* The call sites that go through dc.ajax. *)
AjaxSites == Sites \ {"AddContentItem"}

(* The call sites whose dc.ajax settings carry a failure handler; GetSpace *)
(* passes only success and relies on the future's failure.                 *)
SettingsWithFailure == AjaxSites \ {"GetSpace"}

(* "ok": a 2xx body carrying the field the call site reads (data.space,    *)
(* data.contentItem, ...); "okEmpty": a 2xx body without it; "expired": a  *)
(* 2xx body carrying the session-expiry marker; "error": a non-2xx status, *)
(* a network error or an unparsable body.                                  *)
Responses == {"ok", "okEmpty", "expired", "error"}

Events == {"begin", "success", "failure"}
Outcomes == {"success", "failure"}

TypeOK ==
    /\ site \in [Ops -> Sites \cup {NoSite}]
    /\ phase \in [Ops -> {"idle", "inflight", "done", "thrown"}]
    /\ resp \in [Ops -> Responses \cup {"none"}]
    /\ log \in [Ops -> Seq(Events)]
    /\ redirected \in BOOLEAN
    /\ unloaded \in BOOLEAN

Init ==
    /\ site = [o \in Ops |-> NoSite]
    /\ phase = [o \in Ops |-> "idle"]
    /\ resp = [o \in Ops |-> "none"]
    /\ log = [o \in Ops |-> <<>>]
    /\ redirected = FALSE
    /\ unloaded = FALSE

-----------------------------------------------------------------------------
(* What an invocation calls on its future before the request leaves.      *)
(* dc.ajax calls future.begin when the future has one; CheckIfContentItem- *)
(* Exists hands GetContentItem a future of its own whose begin is empty,   *)
(* so the caller's begin is never called; AddContentItem calls begin      *)
(* unconditionally.                                                        *)
BeginEvents(s, hasBegin) ==
    IF hasBegin /\ s # "CheckIfContentItemExists" THEN <<"begin">> ELSE <<>>

(* Faulty variant of AjaxFailure: dc.ajax calls only the settings'        *)
(* failure, so a call site that leaves it to the future is never answered. *)
AjaxFailureNoFallback(s) ==
    CASE s = "CheckIfContentItemExists"                 -> <<"success">>
      [] s \in SettingsWithFailure \ {"CheckIfContentItemExists"} -> <<"failure">>
      [] s \notin SettingsWithFailure                    -> <<>>

(* dc.ajax's failure path: the settings' failure, else the future's. The   *)
(* future of CheckIfContentItemExists maps failure to callback.success.    *)
AjaxFailure(s) ==
    CASE s = "CheckIfContentItemExists"                 -> <<"success">>
      [] s \in SettingsWithFailure \ {"CheckIfContentItemExists"} -> <<"failure">>
      [] s \notin SettingsWithFailure                    -> <<"failure">>

(* Faulty variant of AjaxSuccess: UpdateContentItemMimetype's this.failure *)
(* is not in an else branch and also runs after callback.success.          *)
AjaxSuccessMissingElse(s, r) ==
    CASE s = "UpdateContentItemMimetype" /\ r = "okEmpty" -> <<"failure">>
      [] s = "UpdateContentItemMimetype" /\ r # "okEmpty" -> <<"success", "failure">>
      [] OTHER                                           -> <<"success">>

(* Faulty variant of AjaxSuccess: CheckIfContentItemExists reports only   *)
(* an item that exists and says nothing when the body has none.           *)
AjaxSuccessDropsEmpty(s, r) ==
    CASE s = "UpdateContentItemMimetype" /\ r = "okEmpty" -> <<"failure">>
      [] s = "CheckIfContentItemExists" /\ r = "okEmpty"  -> <<>>
      [] OTHER                                           -> <<"success">>

(* The call sites' success handlers.  UpdateContentItemMimetype calls      *)
(* this.failure when the body has no contentItem; CheckIfContentItemExists *)
(* reports success(contentItem != undefined).                             *)
AjaxSuccess(s, r) ==
    IF s = "UpdateContentItemMimetype" /\ r = "okEmpty"
    THEN <<"failure">>
    ELSE <<"success">>

(* dc.ajax: an expired session short-circuits both handlers. *)
AjaxHandler(s, r) ==
    CASE r = "expired" -> <<>>
      [] r = "error"   -> AjaxFailure(s)
      [] OTHER         -> AjaxSuccess(s, r)

(* AddContentItem's ajaxSubmit handlers: success calls dc.checkSession     *)
(* and then future.success whatever the session check found.              *)
SubmitHandler(r) ==
    IF r = "error" THEN <<"failure">> ELSE <<"success">>

Handler(s, r) ==
    IF s = "AddContentItem" THEN SubmitHandler(r) ELSE AjaxHandler(s, r)

-----------------------------------------------------------------------------
(* A caller invokes API function s with a future that has (hasBegin) or    *)
(* lacks a begin member; the request is dispatched in the same turn.       *)
Invoke(o, s, hasBegin) ==
    /\ ~unloaded
    /\ phase[o] = "idle"
    /\ ~(s = "AddContentItem" /\ ~hasBegin)
    /\ site' = [site EXCEPT ![o] = s]
    /\ phase' = [phase EXCEPT ![o] = "inflight"]
    /\ log' = [log EXCEPT ![o] = BeginEvents(s, hasBegin)]
    /\ UNCHANGED <<resp, redirected, unloaded>>

(* AddContentItem with a future that has no begin: future.begin() throws  *)
(* a TypeError to the caller before the form is submitted.                 *)
InvokeWithoutBegin(o) ==
    /\ ~unloaded
    /\ phase[o] = "idle"
    /\ site' = [site EXCEPT ![o] = "AddContentItem"]
    /\ phase' = [phase EXCEPT ![o] = "thrown"]
    /\ UNCHANGED <<resp, log, redirected, unloaded>>

(* The transport answers o with r and the event loop runs the handler:    *)
(* the session check (routing the page to the login page on the marker)   *)
(* and the call site's success or failure path.                            *)
Complete(o, r) ==
    /\ ~unloaded
    /\ phase[o] = "inflight"
    /\ phase' = [phase EXCEPT ![o] = "done"]
    /\ resp' = [resp EXCEPT ![o] = r]
    /\ log' = [log EXCEPT ![o] = @ \o Handler(site[o], r)]
    /\ redirected' = (redirected \/ r = "expired")
    /\ UNCHANGED <<site, unloaded>>

(* The session-renewal navigation takes effect: the page is gone. *)
Unload ==
    /\ redirected
    /\ ~unloaded
    /\ unloaded' = TRUE
    /\ UNCHANGED <<site, phase, resp, log, redirected>>

(* Nothing is left to do: every slot is used up, or the page is gone. *)
Quiescent ==
    /\ unloaded \/ \A o \in Ops : phase[o] \in {"done", "thrown"}
    /\ ~(redirected /\ ~unloaded)

Next ==
    \/ \E o \in Ops, s \in Sites, b \in BOOLEAN : Invoke(o, s, b)
    \/ \E o \in Ops : InvokeWithoutBegin(o)
    \/ \E o \in Ops, r \in Responses : Complete(o, r)
    \/ Unload
    \/ Quiescent /\ UNCHANGED vars

(* The transport eventually answers every dispatched request (the browser *)
(* ends a hung connection with an error) and a started navigation ends.   *)
(* Callers are not obliged to invoke anything.                             *)
Fairness ==
    /\ \A o \in Ops : WF_vars(\E r \in Responses : Complete(o, r))
    /\ WF_vars(Unload)

Spec == Init /\ [][Next]_vars /\ Fairness

-----------------------------------------------------------------------------
Answered(o) == \E i \in DOMAIN log[o] : log[o][i] \in Outcomes

(* The contract of every API function: success and failure are together   *)
(* called at most once per invocation (e.g. UpdateContentItemMimetype's   *)
(* success handler turning into this.failure must not also succeed).      *)
AtMostOneOutcome ==
    \A o \in Ops : \A i, j \in DOMAIN log[o] :
        log[o][i] \in Outcomes /\ log[o][j] \in Outcomes => i = j

(* Every dispatched request ends in a call of success or failure, unless  *)
(* the page has navigated away (the one exception the contract allows).   *)
EveryCallAnswered ==
    \A o \in Ops : phase[o] = "inflight" ~> (Answered(o) \/ unloaded)

(* The request lifecycle as the caller sees it: an invocation is pending  *)
(* while in flight, answered once an outcome was called, abandoned when it *)
(* completed without one; an invocation that threw never started.         *)
ContractStatus(o) ==
    CASE phase[o] = "inflight"              -> "pending"
      [] phase[o] = "done" /\ Answered(o)   -> "answered"
      [] phase[o] = "done" /\ ~Answered(o) -> "abandoned"
      [] OTHER                             -> "idle"

Contract == INSTANCE FutureContract
              WITH status <- [o \in Ops |-> ContractStatus(o)],
                   out <- log,
                   gone <- unloaded

(* Every API function implements the future contract: begin only before   *)
(* dispatch, one outcome after it and nothing after that, and a call left *)
(* without an outcome only when the page then navigates away.             *)
ImplementsContract == Contract!Spec

(* A response carrying the session-expiry marker calls neither success    *)
(* nor failure: session handling short-circuits the contract.             *)
SessionExpiryShortCircuits ==
    \A o \in Ops : resp[o] = "expired" => ~Answered(o)

(* A transport error reaches the caller as exactly one call of failure,   *)
(* after what was called before dispatch (spec section 7), for every API   *)
(* function but CheckIfContentItemExists, which turns it into              *)
(* success(false) (the store_errors run).                                  *)
ErrorsReachFailure ==
    \A o \in Ops : resp[o] = "error" /\ site[o] # "CheckIfContentItemExists" =>
        log[o] \in {<<"failure">>, <<"begin", "failure">>}

(* A transport failure reaches the caller only through failure, never as  *)
(* a success.                                                              *)
ErrorsSurfaceAsFailure ==
    \A o \in Ops : resp[o] = "error" =>
        \A i \in DOMAIN log[o] : log[o][i] # "success"

=============================================================================
