--------------------------- MODULE StoreApiProofs ---------------------------
(***************************************************************************)
(* Proofs about the call lifecycle of StoreApi: the type invariant, the   *)
(* at-most-one-outcome contract and the refinement of FutureContract,    *)
(* for every set of invocation slots, and what a failed answer calls     *)
(* back, from a second invariant, LogMatchesAnswer, that ties a log to   *)
(* the recorded answer.                                                   *)
(*                                                                         *)
(* AtMostOneOutcome is not inductive by itself: a step of Complete appends *)
(* the handler's callbacks to the log, so the invariant must also know     *)
(* that a log not yet completed holds no outcome.  IInv says that every    *)
(* log is one of six shapes, and that only a completed invocation has a    *)
(* shape with an outcome in it.                                            *)
(***************************************************************************)
EXTENDS StoreApi, SequenceTheorems, TLAPS

(* The callbacks made before the request leaves. *)
Prefixes == {<<>>, <<"begin">>}

(* The callbacks a handler makes when the answer arrives. *)
Suffixes == {<<>>, <<"success">>, <<"failure">>}

LogShapes == {<<>>, <<"begin">>, <<"success">>, <<"failure">>,
              <<"begin", "success">>, <<"begin", "failure">>}

IInv ==
    /\ TypeOK
    /\ \A o \in Ops : log[o] \in LogShapes
    /\ \A o \in Ops : phase[o] # "done" => log[o] \in Prefixes

(* A completed invocation's log is what it called before dispatch         *)
(* followed by the callbacks of the handler of the answer it recorded; an  *)
(* answer is recorded only when the invocation completes.                  *)
LogMatchesAnswer ==
    /\ \A o \in Ops : phase[o] = "done" =>
          \E p \in Prefixes : log[o] = p \o Handler(site[o], resp[o])
    /\ \A o \in Ops : phase[o] # "done" => resp[o] = "none"

-----------------------------------------------------------------------------
(* Every handler of every call site makes at most one callback, and it is  *)
(* success or failure.                                                     *)
LEMMA HandlerShape ==
    ASSUME NEW s \in Sites \cup {NoSite}, NEW r \in Responses
    PROVE  Handler(s, r) \in Suffixes
BY DEF Handler, SubmitHandler, AjaxHandler, AjaxFailure, AjaxSuccess, Suffixes

(* begin followed by one more callback is the pair of the two. *)
LEMMA BeginThen ==
    ASSUME NEW e \in Events
    PROVE  <<"begin">> \o <<e>> = <<"begin", e>>
<1>1. <<"begin">> \in Seq(Events) /\ <<e>> \in Seq(Events)
  BY DEF Events
<1>2. /\ <<"begin">> \o <<e>> \in Seq(Events)
      /\ Len(<<"begin">> \o <<e>>) = 2
      /\ \A i \in 1..2 : (<<"begin">> \o <<e>>)[i] = IF i <= 1 THEN "begin" ELSE e
  BY <1>1, ConcatProperties
<1>3. /\ <<"begin", e>> \in Seq(Events)
      /\ Len(<<"begin", e>>) = 2
      /\ \A i \in 1..2 : <<"begin", e>>[i] = IF i <= 1 THEN "begin" ELSE e
  BY DEF Events
<1>4. QED
  BY <1>2, <1>3, SeqEqual, Zenon

(* A prefix followed by a suffix is one of the six shapes. *)
LEMMA ConcatShape ==
    ASSUME NEW p \in Prefixes, NEW h \in Suffixes
    PROVE  p \o h \in LogShapes
<1>1. CASE p = <<>>
  <2>1. h \in Seq(Events)
    <3>1. <<>> \in Seq(Events) /\ <<"success">> \in Seq(Events)
          /\ <<"failure">> \in Seq(Events)
      BY DEF Events
    <3>2. QED
      BY <3>1 DEF Suffixes
  <2>2. QED
    BY <1>1, <2>1, ConcatEmptySeq DEF Suffixes, LogShapes
<1>2. CASE p = <<"begin">>
  <2>1. CASE h = <<>>
    <3>1. <<"begin">> \in Seq(Events)
      BY DEF Events
    <3>2. QED
      BY <1>2, <2>1, <3>1, ConcatEmptySeq DEF LogShapes
  <2>2. CASE h = <<"success">>
    BY <1>2, <2>2, BeginThen DEF LogShapes, Events
  <2>3. CASE h = <<"failure">>
    BY <1>2, <2>3, BeginThen DEF LogShapes, Events
  <2>4. QED
    BY <2>1, <2>2, <2>3 DEF Suffixes
<1>3. QED
  BY <1>1, <1>2 DEF Prefixes

LEMMA ShapesAreLogs == LogShapes \subseteq Seq(Events)
BY DEF LogShapes, Events

-----------------------------------------------------------------------------
LEMMA InitIInv == Init => IInv
<1> SUFFICES ASSUME Init PROVE IInv
  OBVIOUS
<1>1. <<>> \in Seq(Events)
  OBVIOUS
<1>2. TypeOK
  BY <1>1 DEF Init, TypeOK, NoSite
<1>3. QED
  BY <1>2 DEF Init, IInv, LogShapes, Prefixes

LEMMA NextIInv == IInv /\ [Next]_vars => IInv'
<1> SUFFICES ASSUME IInv, [Next]_vars PROVE IInv'
  OBVIOUS
<1>1. ASSUME NEW o \in Ops, NEW s \in Sites, NEW b \in BOOLEAN,
             Invoke(o, s, b)
      PROVE  IInv'
  <2>1. BeginEvents(s, b) \in Prefixes
    BY DEF BeginEvents, Prefixes
  <2>2. QED
    BY <1>1, <2>1, ShapesAreLogs
       DEF Invoke, IInv, TypeOK, Prefixes, LogShapes
<1>2. ASSUME NEW o \in Ops, InvokeWithoutBegin(o)
      PROVE  IInv'
  BY <1>2 DEF InvokeWithoutBegin, IInv, TypeOK, Sites
<1>3. ASSUME NEW o \in Ops, NEW r \in Responses, Complete(o, r)
      PROVE  IInv'
  <2>1. log[o] \in Prefixes
    BY <1>3 DEF Complete, IInv
  <2>2. Handler(site[o], r) \in Suffixes
    BY HandlerShape DEF IInv, TypeOK
  <2>3. log'[o] \in LogShapes
    BY <1>3, <2>1, <2>2, ConcatShape DEF Complete, IInv, TypeOK
  <2>4. QED
    BY <1>3, <2>3, ShapesAreLogs DEF Complete, IInv, TypeOK
<1>4. CASE Unload
  BY <1>4 DEF Unload, IInv, TypeOK
<1>5. CASE UNCHANGED vars
  BY <1>5 DEF vars, IInv, TypeOK
<1>6. QED
  BY <1>1, <1>2, <1>3, <1>4, <1>5 DEF Next

LEMMA IInvAtMostOne == IInv => AtMostOneOutcome
BY DEF IInv, AtMostOneOutcome, LogShapes, Outcomes

-----------------------------------------------------------------------------
(* The refinement of FutureContract.  CStatus is the mapping of status;   *)
(* out is log and gone is unloaded.                                        *)
CStatus == [o \in Ops |-> ContractStatus(o)]

(* A call that has not completed has called no outcome. *)
LEMMA PrefixUnanswered ==
    ASSUME NEW o \in Ops, log[o] \in Prefixes
    PROVE  ~Answered(o)
BY DEF Prefixes, Answered, Outcomes

(* The status of a call depends on its own phase and log only. *)
LEMMA StatusFrame ==
    ASSUME NEW p \in Ops, phase'[p] = phase[p], log'[p] = log[p]
    PROVE  CStatus'[p] = CStatus[p]
BY DEF CStatus, ContractStatus, Answered

(* A step that changes the status of call o alone. *)
LEMMA StatusUpdate ==
    ASSUME NEW o \in Ops, NEW v, CStatus'[o] = v,
           \A p \in Ops \ {o} : CStatus'[p] = CStatus[p]
    PROVE  CStatus' = [CStatus EXCEPT ![o] = v]
BY DEF CStatus

LEMMA InitRefines == Init => Contract!Init
<1> SUFFICES ASSUME Init PROVE Contract!Init
  OBVIOUS
<1>1. CStatus = [o \in Ops |-> "idle"]
  BY DEF Init, CStatus, ContractStatus
<1>2. QED
  BY <1>1 DEF Init, Contract!Init, CStatus

LEMMA NextRefines ==
    IInv /\ [Next]_vars => [Contract!Next]_Contract!avars
<1> SUFFICES ASSUME IInv, [Next]_vars
             PROVE  [Contract!Next]_Contract!avars
  OBVIOUS
<1> USE DEF Contract!Next, Contract!avars
<1>1. ASSUME NEW o \in Ops, NEW s \in Sites, NEW b \in BOOLEAN,
             Invoke(o, s, b)
      PROVE  Contract!Call(o)
  <2>1. CStatus[o] = "idle"
    BY <1>1 DEF Invoke, CStatus, ContractStatus
  <2>2. CStatus' = [CStatus EXCEPT ![o] = "pending"]
    <3>1. CStatus'[o] = "pending"
      BY <1>1 DEF Invoke, CStatus, ContractStatus, IInv, TypeOK
    <3>2. \A p \in Ops \ {o} : CStatus'[p] = CStatus[p]
      BY <1>1, StatusFrame DEF Invoke, IInv, TypeOK
    <3>3. QED
      BY <3>1, <3>2, StatusUpdate
  <2>3. BeginEvents(s, b) \in {<<>>, <<"begin">>}
    BY DEF BeginEvents
  <2>4. QED
    BY <1>1, <2>1, <2>2, <2>3 DEF Invoke, Contract!Call, CStatus
<1>2. ASSUME NEW o \in Ops, InvokeWithoutBegin(o)
      PROVE  UNCHANGED Contract!avars
  <2>1. CStatus' = CStatus
    BY <1>2 DEF InvokeWithoutBegin, CStatus, ContractStatus, Answered,
             IInv, TypeOK
  <2>2. QED
    BY <1>2, <2>1 DEF InvokeWithoutBegin, CStatus
<1>3. ASSUME NEW o \in Ops, NEW r \in Responses, Complete(o, r)
      PROVE  Contract!Answer(o) \/ Contract!Abandon(o)
  <2> DEFINE h == Handler(site[o], r)
  <2>1. log[o] \in Prefixes /\ log[o] \in Seq(Events)
    BY <1>3 DEF Complete, IInv, TypeOK
  <2>2. h \in Suffixes
    BY HandlerShape DEF IInv, TypeOK
  <2>3. CStatus[o] = "pending"
    BY <1>3 DEF Complete, CStatus, ContractStatus
  <2>4. \A p \in Ops \ {o} : CStatus'[p] = CStatus[p]
    BY <1>3, StatusFrame DEF Complete, IInv, TypeOK
  <2>9. phase'[o] = "done"
    BY <1>3 DEF Complete, IInv, TypeOK
  <2>5. CASE h = <<>>
    <3>1. log'[o] = log[o]
      BY <1>3, <2>1, <2>5, ConcatEmptySeq DEF Complete, IInv, TypeOK
    <3>2. ~Answered(o)'
      BY <1>3, <2>1, <3>1, PrefixUnanswered DEF Complete, Answered
    <3>3. CStatus'[o] = "abandoned"
      BY <2>9, <3>2 DEF CStatus, ContractStatus
    <3>4. CStatus' = [CStatus EXCEPT ![o] = "abandoned"]
      BY <2>4, <3>3, StatusUpdate
    <3>5. log' = log
      BY <1>3, <3>1 DEF Complete, IInv, TypeOK
    <3>6. QED
      BY <1>3, <2>3, <3>4, <3>5 DEF Complete, Contract!Abandon, CStatus
  <2>6. CASE h # <<>>
    <3>1. PICK e \in Outcomes : h = <<e>>
      BY <2>2, <2>6 DEF Suffixes, Outcomes
    <3>2. log'[o] = Append(log[o], e)
      BY <1>3, <2>1, <3>1, AppendIsConcat DEF Complete, IInv, TypeOK,
         Outcomes, Events
    <3>3. Answered(o)'
      <4>1. e \in Events
        BY DEF Outcomes, Events
      <4>2. /\ Len(log[o]) + 1 \in DOMAIN log'[o]
            /\ log'[o][Len(log[o]) + 1] = e
        BY <2>1, <3>2, <4>1, AppendProperties
      <4>3. QED
        BY <4>2 DEF Answered, Outcomes
    <3>4. CStatus'[o] = "answered"
      <4>1. ContractStatus(o)' = "answered"
        BY <2>9, <3>3, Zenon DEF ContractStatus
      <4>2. QED
        BY <4>1 DEF CStatus
    <3>5. CStatus' = [CStatus EXCEPT ![o] = "answered"]
      BY <2>4, <3>4, StatusUpdate
    <3>6. log' = [log EXCEPT ![o] = Append(@, e)]
      BY <1>3, <3>2 DEF Complete, IInv, TypeOK
    <3>7. QED
      BY <1>3, <2>3, <3>5, <3>6 DEF Complete, Contract!Answer, CStatus,
         Contract!Outcomes, Outcomes
  <2>7. QED
    BY <2>5, <2>6
<1>4. CASE Unload
  <2>1. CStatus' = CStatus
    BY <1>4 DEF Unload, CStatus, ContractStatus, Answered
  <2>2. QED
    BY <1>4, <2>1 DEF Unload, Contract!Leave, CStatus
<1>5. CASE UNCHANGED vars
  <2>1. CStatus' = CStatus
    BY <1>5 DEF vars, CStatus, ContractStatus, Answered
  <2>2. QED
    BY <1>5, <2>1 DEF vars, CStatus
<1>6. QED
  BY <1>1, <1>2, <1>3, <1>4, <1>5 DEF Next

-----------------------------------------------------------------------------
(* The log of a completed call is explained by its recorded answer.       *)
LEMMA InitLogMatches == Init => LogMatchesAnswer
BY DEF Init, LogMatchesAnswer

LEMMA NextLogMatches ==
    IInv /\ LogMatchesAnswer /\ [Next]_vars => LogMatchesAnswer'
<1> SUFFICES ASSUME IInv, LogMatchesAnswer, [Next]_vars,
                    NEW x \in Ops
             PROVE  /\ phase'[x] = "done" =>
                          \E p \in Prefixes :
                             log'[x] = p \o Handler(site'[x], resp'[x])
                    /\ phase'[x] # "done" => resp'[x] = "none"
  BY DEF LogMatchesAnswer
<1>0. TypeOK
  BY DEF IInv
<1>1. ASSUME NEW o \in Ops, NEW s \in Sites, NEW b \in BOOLEAN,
             Invoke(o, s, b)
      PROVE  /\ phase'[x] = "done" =>
                  \E p \in Prefixes : log'[x] = p \o Handler(site'[x], resp'[x])
             /\ phase'[x] # "done" => resp'[x] = "none"
  <2>1. CASE x = o
    <3>1. phase'[x] = "inflight" /\ resp'[x] = resp[x] /\ phase[x] = "idle"
      BY <1>0, <1>1, <2>1 DEF Invoke, TypeOK
    <3>2. resp[x] = "none"
      BY <3>1 DEF LogMatchesAnswer
    <3>3. QED
      BY <3>1, <3>2
  <2>2. CASE x # o
    <3>1. phase'[x] = phase[x] /\ log'[x] = log[x] /\ site'[x] = site[x]
          /\ resp'[x] = resp[x]
      BY <1>0, <1>1, <2>2 DEF Invoke, TypeOK
    <3>2. QED
      BY <3>1 DEF LogMatchesAnswer
  <2>3. QED
    BY <2>1, <2>2
<1>2. ASSUME NEW o \in Ops, InvokeWithoutBegin(o)
      PROVE  /\ phase'[x] = "done" =>
                  \E p \in Prefixes : log'[x] = p \o Handler(site'[x], resp'[x])
             /\ phase'[x] # "done" => resp'[x] = "none"
  <2>1. CASE x = o
    <3>1. phase'[x] = "thrown" /\ resp'[x] = resp[x] /\ phase[x] = "idle"
      BY <1>0, <1>2, <2>1 DEF InvokeWithoutBegin, TypeOK
    <3>2. QED
      BY <3>1 DEF LogMatchesAnswer
  <2>2. CASE x # o
    <3>1. phase'[x] = phase[x] /\ log'[x] = log[x] /\ site'[x] = site[x]
          /\ resp'[x] = resp[x]
      BY <1>0, <1>2, <2>2 DEF InvokeWithoutBegin, TypeOK
    <3>2. QED
      BY <3>1 DEF LogMatchesAnswer
  <2>3. QED
    BY <2>1, <2>2
<1>3. ASSUME NEW o \in Ops, NEW r \in Responses, Complete(o, r)
      PROVE  /\ phase'[x] = "done" =>
                  \E p \in Prefixes : log'[x] = p \o Handler(site'[x], resp'[x])
             /\ phase'[x] # "done" => resp'[x] = "none"
  <2>1. CASE x = o
    <3>1. log[x] \in Prefixes
      BY <1>3, <2>1 DEF Complete, IInv
    <3>2. /\ phase'[x] = "done" /\ resp'[x] = r /\ site'[x] = site[x]
          /\ log'[x] = log[x] \o Handler(site[x], r)
      BY <1>0, <1>3, <2>1 DEF Complete, TypeOK
    <3>3. QED
      BY <3>1, <3>2
  <2>2. CASE x # o
    <3>1. phase'[x] = phase[x] /\ log'[x] = log[x] /\ site'[x] = site[x]
          /\ resp'[x] = resp[x]
      BY <1>0, <1>3, <2>2 DEF Complete, TypeOK
    <3>2. QED
      BY <3>1 DEF LogMatchesAnswer
  <2>3. QED
    BY <2>1, <2>2
<1>4. CASE Unload \/ UNCHANGED vars
  BY <1>4 DEF Unload, vars, LogMatchesAnswer
<1>5. QED
  BY <1>1, <1>2, <1>3, <1>4 DEF Next

(* Every call site but CheckIfContentItemExists answers an error with     *)
(* failure alone.                                                          *)
LEMMA ErrorHandlerFails ==
    ASSUME NEW s \in Sites \cup {NoSite}, s # "CheckIfContentItemExists"
    PROVE  Handler(s, "error") = <<"failure">>
BY DEF Handler, SubmitHandler, AjaxHandler, AjaxFailure, SettingsWithFailure,
   AjaxSites, Sites, NoSite

LEMMA LogMatchesErrors == IInv /\ LogMatchesAnswer => ErrorsReachFailure
<1> SUFFICES ASSUME IInv, LogMatchesAnswer, NEW o \in Ops,
                    resp[o] = "error", site[o] # "CheckIfContentItemExists"
             PROVE  log[o] \in {<<"failure">>, <<"begin", "failure">>}
  BY DEF ErrorsReachFailure
<1>1. phase[o] = "done"
  BY DEF LogMatchesAnswer
<1>2. PICK p \in Prefixes : log[o] = p \o Handler(site[o], resp[o])
  BY <1>1 DEF LogMatchesAnswer
<1>3. Handler(site[o], resp[o]) = <<"failure">>
  BY ErrorHandlerFails DEF IInv, TypeOK
<1>4. CASE p = <<>>
  <2>1. <<"failure">> \in Seq(Events)
    BY DEF Events
  <2>2. QED
    BY <1>2, <1>3, <1>4, <2>1, ConcatEmptySeq
<1>5. CASE p = <<"begin">>
  BY <1>2, <1>3, <1>5, BeginThen DEF Events
<1>6. QED
  BY <1>4, <1>5 DEF Prefixes

-----------------------------------------------------------------------------
(* The variables keep their types in every reachable state. *)
THEOREM TypeCorrect == Spec => []TypeOK
<1>1. IInv => TypeOK
  BY DEF IInv
<1>2. QED
  BY <1>1, InitIInv, NextIInv, PTL DEF Spec

(* No API invocation ever calls both success and failure, or either of     *)
(* them twice, for any number of concurrent invocations.                   *)
THEOREM OutcomeUnique == Spec => []AtMostOneOutcome
BY InitIInv, NextIInv, IInvAtMostOne, PTL DEF Spec

(* The log shapes and LogMatchesAnswer hold in every reachable state. *)
LEMMA AnswerInvariant == Spec => [](IInv /\ LogMatchesAnswer)
<1>1. Init => IInv /\ LogMatchesAnswer
  BY InitIInv, InitLogMatches
<1>2. IInv /\ LogMatchesAnswer /\ [Next]_vars => IInv' /\ LogMatchesAnswer'
  BY NextIInv, NextLogMatches
<1>3. QED
  BY <1>1, <1>2, PTL DEF Spec

(* A transport error reaches the caller as exactly one call of failure,   *)
(* for every API function but CheckIfContentItemExists and any number of  *)
(* concurrent calls.                                                       *)
THEOREM ErrorsAnsweredByFailure == Spec => []ErrorsReachFailure
BY AnswerInvariant, LogMatchesErrors, PTL

(* Every behaviour of the API's call lifecycle is a behaviour of the      *)
(* future contract: the calls of begin, success and failure, and the page *)
(* navigation, happen only in the ways FutureContract allows.              *)
THEOREM RefinesContract ==
    Spec => Contract!Init /\ [][Contract!Next]_Contract!avars
<1>1. Init => IInv /\ Contract!Init
  BY InitIInv, InitRefines
<1>2. IInv /\ [Next]_vars => [Contract!Next]_Contract!avars
  BY NextRefines
<1>3. QED
  BY <1>1, <1>2, InitIInv, NextIInv, PTL DEF Spec

=============================================================================
