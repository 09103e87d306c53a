# Formal model of the DuraCloud administration client

This directory holds TLA+ models of the two browser-side components of
`duradmin` that are under `src/`:

- `jquery/dc/api/durastore-api.js` is the DuraStore client API. Each
  function takes a caller-supplied *future* (`success`, `failure`, and an
  optional `begin`). All functions except `AddContentItem` go through
  `dc.ajax`. `AddContentItem` submits a form itself.
- `js/services-manager.js` is the services page. It has a list of deployed
  services and the detail pane of one deployment. The page fetches the list
  at start-up from a timer and again after a deploy or a redeploy. An
  undeploy is started from the pane's switch, a redeploy from the reconfigure
  dialog, and a deploy from the configure dialog. All of these share one busy
  indicator. The pane's Configuration panel filters the deployment's user
  configs by their *exclusions*.

The components interact through `dc.ajax`. The services page's requests are
`dc.ajax` calls with the same lifecycle as the store API's. `dc.ajax`,
`dc.checkSession`, `dc.busy` and the selectable-list widget are not under
`src/`, so they are modelled from the specification (`spec.md`). Their map
entries in `PROJECT.json` are marked `spec_modelled`.

## Inventory

| Part | Source | Module | Status |
|---|---|---|---|
| Call lifecycle of the 9 store functions | durastore-api.js 28-199 | `StoreApi` | modelled (URLs abstracted) |
| dc.ajax / dc.checkSession | outside src/ | `StoreApi` (`AjaxHandler`, `Complete`, `Unload`) | from the spec |
| URL/thumbnail formatting | durastore-api.js 204-245 | none | not modelled: pure string formatting |
| Exclusion resolution | services-manager.js 158-224 | `ExclusionResolver` | modelled |
| Caller's view of the call lifecycle | spec.md §3, 4.1, 5 | `FutureContract` | abstract spec that `StoreApi` refines |
| List, detail pane, deploy/undeploy/redeploy, busy indicator | services-manager.js 61-113, 241-318, 448-548 | `ServicesManager` | partly: listener accumulation (line 279) and fadeOut (line 65) left out |
| Details panel (GetServiceDeploymentConfig) | services-manager.js 119-143 | none | not modelled: fills only its own pane |
| Dialog and layout wiring | services-manager.js 1-54, 320-440 | none | not modelled: widget configuration |

## Modules

### `StoreApi` (store API call lifecycle)

Each element of the constant `Ops` is one invocation slot. The state of an
invocation is:

- `site`: which function was called;
- `phase`: `idle`, `inflight`, `done`, or `thrown`;
- `resp`: the transport's answer;
- `log`: the future members called so far.

`redirected` and `unloaded` model the session-expiry navigation.

The actions are these:

- `Invoke(o, s, hasBegin)` is any store function called with a future with or
  without `begin`. `BeginEvents` gives what is called before dispatch:
  `CheckIfContentItemExists` passes its own empty `begin`.
- `InvokeWithoutBegin` is `AddContentItem` with a future lacking `begin`. Its
  line 165 throws.
- `Complete(o, r)` is the answer `r` arriving:
  - `ok` is a body with the field the call site reads;
  - `okEmpty` is a body without that field;
  - `expired` is a body with the session-expiry marker;
  - `error` is a failed request.

  The handler runs: `AjaxHandler` for `dc.ajax` and `SubmitHandler` for
  `ajaxSubmit`. `AjaxSuccess` and `AjaxFailure` are the call sites' own
  handlers, translated from the source. They include:
  - `UpdateContentItemMimetype` switching to `this.failure`;
  - `GetSpace` having no settings failure, which uses the future's failure
    as the fallback;
  - `CheckIfContentItemExists` mapping failure to `success(false)`.
- `Unload`: the navigation to the login page takes effect.

### `FutureContract` (what a caller is promised)

This is the abstract spec of an invocation as its caller sees it, written
from the specification. Its state is `status` (`idle`, `pending`,
`answered` or `abandoned`), `out` (the future members called) and `gone`
(the page has navigated away). Its actions are:

- `Call(o)`: the invocation, with `begin` or without it;
- `Answer(o)`: exactly one outcome is appended;
- `Abandon(o)`: session expiry intercepts the answer;
- `Leave`: the navigation.

Its fairness says that every pending invocation is resolved, and that an
abandoned one is followed by the navigation (`LeaveAfterAbandon`).

`StoreApi` implements it through `Contract == INSTANCE FutureContract`:

- `status` is `ContractStatus`: `inflight` is pending; `done` is answered
  when the log holds an outcome and abandoned when it does not; `idle` and
  `thrown` are idle;
- `out` is `log`;
- `gone` is `unloaded`.

An `AddContentItem` that throws stays idle in the contract.
`InvokeWithoutBegin` models that throw: `future.begin()` is called without a
check (line 165), although the specification makes `begin` optional. The
divergence is visible in that one line of code, so no run is spent on it.

### `ExclusionResolver` (Configuration panel)

This is a one-step model. `Init` picks a userConfigs array from `Inputs`, and
`Render` computes `convertUserConfigsToArray` on it. Strings are represented
by their split on `|`, so a "|"-joined string is a concatenation, and `""` is
`<<Empty>>`. This keeps the `split("|")` at line 203 exact, including its
`[""]` result for the empty string.

`ScanDefinitions` keeps the loop's order. It breaks at the first matching
definition, and `split` throws on the first definition resolved to
`undefined` before that. The reference definition `SpecShown` is the
specification's rule as sets. It is independent of the order of the entries.

### `ServicesManager` (services page)

The state is:

- the server's deployments (`server`, plus `ever` for fresh ids);
- the list's items and current item (`list`, `current`);
- the deployment the pane shows (`detail`, from `#deployment-id`);
- the switch (`switchOn`);
- the indicator (`busy`: off, plain or modal);
- the outstanding requests `reqs`;
- a bound `userOps`;
- `gone`, the deployments whose undeploy the page saw succeed.

A request is processed by the server at one moment (`ServerProcess`; a
refresh takes its snapshot then), and its answer is delivered later. It can
also fail at any point. Answers are delivered in any order.

One action per handler:

| Handler | Success | Failure |
|---|---|---|
| Start-up refresh | `RefreshSucceeds` | `RefreshFails` |
| Undeploy | `UndeploySucceeds` | `UndeployFails` |
| Redeploy | `RedeploySucceeds` | `RedeployFails` |
| Deploy | `DeploySucceeds` | `DeployFails` |

The start-up refresh is started by `StartupRefresh` (timer), the undeploy by
`TurnOff` (switch), the redeploy by `Redeploy`, and the deploy by `Deploy`.
`DeployFails` has no handler: the deploy's settings have no `failure`.

`ApplyRefresh` is the whole of `loadDeployedServiceList` followed by the
reselection of the refresh's success handler (lines 241-311):

- an empty answer clears the list and returns early;
- otherwise the pane's deployment is made current if it is listed;
- otherwise nothing is current if the pane shows an unlisted one;
- otherwise the first item is made current.

`UserCanStart` encodes that a modal indicator blocks the user's clicks.

## Runs

| Run | Checks | Result |
|---|---|---|
| `store_api` (`StoreApi.cfg`) | `AtMostOneOutcome`, `ErrorsReachFailure`, `EveryCallAnswered`, `ImplementsContract` | pass, 9,092 states |
| `store_expiry` | `SessionExpiryShortCircuits` | violated: AddContentItem succeeds after expiry (line 171) |
| `store_errors` | `ErrorsSurfaceAsFailure` | violated: CheckIfContentItemExists maps errors to `success(false)` (line 192) |
| `resolver` (`ExclusionResolver.cfg`) | `RegularVisibilityMatchesSpec` | pass, 22,765 inputs (45,530 states) |
| `resolver_definitions` | `DefinitionsNeverEmitted` | violated: definitions are rows (line 215) |
| `resolver_total` | `ResolutionTotal` | violated: a definition without options resolves to `undefined` (the "no value" is assigned, never returned) and aborts the panel (lines 177-179, 203) |
| `resolver_empty_key` | `ShownOnlyIfKeySelected` | violated: `"".split("|")` is `[""]` (line 203) |
| `services` (`ServicesManager.cfg`) | `SwitchOffMeansUndeploying` | pass, 96,200 states |
| `services_resurrection` | `NoResurrection` | violated: a stale refresh re-lists an undeployed item (line 305) |
| `services_busy` | `BusyOffWhenIdle` | violated: a failed deploy leaves the modal indicator up (line 524) |
| `services_modal` | `ModalWhileDeploying` | violated: the start-up refresh's `dc.done` hides a deploy's modal indicator (line 304) |

Each property of a passing run has a mutant in `PROJECT.json`. A mutant is a
faulty variant of a mapped definition, defined just before it, that TLC
catches:

- `AjaxSuccessMissingElse`;
- `AjaxFailureNoFallback`, which catches `EveryCallAnswered` and
  `ErrorsReachFailure`;
- `AjaxSuccessDropsEmpty`, in which `CheckIfContentItemExists` stays silent
  on a body without an item. The call then ends without an outcome and
  without the navigation that the contract requires after an abandoned call;
- `ConvertOnePass`, which only sees definitions that come earlier;
- `UndeployFailsNoRestore`, in which the guarded `future.failure` of the
  switch is skipped, so the switch stays off after a failed undeploy.

### Bounds

- `MCStoreApi` has two invocation slots. That is the least needed for one
  call's expiry redirect to cut off another call's answer. Each slot ranges
  over all 9 functions, both kinds of future and all 4 answers.
- `MCExclusionResolver` enumerates every array of up to three entries from a
  universe that has:
  - definitions with no, one or two selected options;
  - a value containing `|`;
  - a definition without options;
  - regular TEXT and SELECT entries with no exclusion, one key, two keys, or
    an empty key.

  Three entries are enough for a regular entry placed between two
  definitions.
- `MCServicesManager` has two deployments at load time, one fresh id for a
  deploy, and three user operations. That is enough for a deploy, an undeploy
  and a redeploy to overlap with the start-up refresh and the refreshes they
  trigger. `CHECK_DEADLOCK FALSE` is set because the page legitimately stops
  once the operations are used up and every request is answered.

### Fairness

`StoreApi` assumes weak fairness of each invocation's `Complete`: the browser
ends every connection, with an error at worst. It also assumes weak fairness
of `Unload`: a started navigation ends. Callers are not obliged to invoke
anything. `ServicesManager` is only checked for safety.

`ImplementsContract` includes the contract's fairness. Checking it under
`StoreApi`'s fairness shows two things. The transport's answer resolves every
pending call. An expiry, the only way a call ends without an outcome, also
sets `redirected`, so `Unload` follows.

## Proofs (TLAPS)

### `StoreApiProofs`

The proofs hold for every set `Ops` of invocation slots:

- `TypeCorrect`: `Spec => []TypeOK`.
- `OutcomeUnique`: `Spec => []AtMostOneOutcome`.
- `ErrorsAnsweredByFailure`: `Spec => []ErrorsReachFailure`. A transport
  error reaches the caller as exactly one `failure` for every function
  except `CheckIfContentItemExists`, the exception shown by the
  `store_errors` run.
- `RefinesContract`: `Spec => Contract!Init /\ [][Contract!Next]_Contract!avars`.
  This is the safety part of `ImplementsContract`.

`AtMostOneOutcome` is not inductive by itself. A `Complete` step appends the
handler's callbacks, so the invariant must know that a log that has not been
completed has no outcome yet. The strengthening `IInv` says three things:

- every log is one of six shapes: the *prefixes* `<<>>` and `<<"begin">>`,
  each followed by one of the *suffixes* `<<>>`, `<<"success">>` or
  `<<"failure">>`;
- a log that is not `done` is a prefix;
- `TypeOK` holds.

The proof uses these lemmas:

- `HandlerShape`: every handler returns a suffix.
- `ConcatShape`: a prefix followed by a suffix is a shape. It uses
  `BeginThen`, which computes `<<"begin">> \o <<e>>` from `ConcatProperties`
  and `SeqEqual`.
- `InitIInv` and `NextIInv`. `NextIInv` has one step per action.

`ErrorsAnsweredByFailure` needs a second inductive invariant,
`LogMatchesAnswer`. It has two parts:

- a completed call's log is a prefix followed by the callbacks of
  `Handler(site, resp)` for the answer it recorded;
- an answer is recorded only when the call completes.

`IInv` alone does not say which answer produced a log's suffix, so it cannot
tell a failure caused by a transport error from one caused by an empty body. TLC checked `LogMatchesAnswer`
as an invariant of the `store_api` instance before the proof was written.

- `NextLogMatches` proves it inductive, with one step per action and one
  case per slot (the slot the action changes, and every other slot).
- `AnswerInvariant` lifts it to `[]`.
- `LogMatchesErrors` derives the property. It uses `ErrorHandlerFails`,
  which states what every handler but `CheckIfContentItemExists` returns
  for an error.

The refinement proof rests on the same `IInv`. `NextRefines` maps each step:

- `Invoke` maps to `Call`;
- `InvokeWithoutBegin` maps to a stutter;
- `Complete` maps to `Abandon` when the handler is `<<>>` (expiry). Otherwise
  it maps to `Answer`: the suffix is one outcome, and a prefix has none
  (`PrefixUnanswered`);
- `Unload` maps to `Leave`.

`StatusFrame` and `StatusUpdate` compute the mapped `status` after a step
that changes one slot.

### `ServicesManagerProofs`

The proofs hold for all `Deps`, `InitDeployed \subseteq Deps`, `MaxUserOps`
and `None \notin Deps` (`ConstantsAssumption`):

- `TypeCorrect`: `Spec => []TypeOK`.
- `SwitchShowsUndeploy`: `Spec => []SwitchOffMeansUndeploying`.

The inductive invariant is `TypeOK /\ ReqsHaveDeps`.
`ReqsHaveDeps` says that an undeploy or redeploy request names a deployment.
It is needed because `UndeploySucceeds` adds the request's deployment to
`gone`, and `TypeOK` requires `gone \subseteq Deps`.

`ApplyRefreshSelection` gives the types after a refresh: `ApplyRefresh` sets
the list to the snapshot and takes the current item from it or `None`.

`SwitchOffMeansUndeploying` is inductive relative to `TypeOK`. Its proof
(`NextSwitchOff`) has one step per action:

- `TurnOff` adds the undeploy request that explains the switch being off.
- `ServerProcess` keeps an undeploy request's kind and deployment. It needs
  `TypeOK`, because the request is a record.
- `UndeploySucceeds` moves the deployment into `gone` as it consumes the
  request.
- `UndeployFails`, `SelectItem` and `DeploySucceeds` turn the switch on.
- A refresh turns it on or leaves the pane alone (`ApplyRefreshSwitch`).
- Every other step keeps the undeploy requests (`SwitchFrame`).

### Only model-checked

These properties are only model-checked:

- the liveness properties `EveryCallAnswered` and the fairness part of
  `ImplementsContract`, which are beyond TLAPS;
- the `ExclusionResolver` properties, which rest on `SelectSeq` and
  `FlattenSeq`. Both are RECURSIVE operators, so a module that reaches them
  cannot hold a theorem. Even written as recursive functions, relating
  the panel to `SpecShown` for arrays of every length is an induction over
  sequences. That induction needs the library's induction theorems, and
  the installed provers cannot instantiate their predicate parameter.

## Not modelled

- The `currentItemChanged` handler bound on every refresh (line 279). How
  often the pane loads per selection depends on how the selectablelist
  widget dispatches to its handlers. That widget is neither under `src/` nor
  described by the specification.
- The fadeOut callback of line 65. `detail` models `#deployment-id`, which
  the late `html('')` would clear. But the callback is only scheduled by
  `loadDeploymentDetail(null)`, when the selectablelist widget reports no
  current item. When the widget does that, and how long the fade takes
  against the next load, are up to the widget and jQuery's animation queue.
  Neither is under `src/` nor in the specification.
- `option.selected` missing (line 170). The server always sends it, so it is
  outside the model's inputs.

## Further work

A composition in which the services page's requests go through the
`StoreApi` lifecycle, so that the session-expiry unload cuts off page
requests.
