--------------------------- MODULE FutureContract ---------------------------
(***************************************************************************)
(* What the request lifecycle promises a caller (spec.md, sections 3, 4.1 *)
(* and 5), stated without transport, call sites or session handling.      *)
(*                                                                         *)
(* Each element of Ops is one invocation.  It is called once: begin, when *)
(* the future has one, runs in that same step.  Later the invocation is   *)
(* answered with exactly one outcome, or abandoned with none.  Abandoning  *)
(* is what session expiry does, and the page then navigates away.  After  *)
(* the navigation no callback runs at all.                                 *)
(***************************************************************************)
EXTENDS Sequences

CONSTANTS Ops

VARIABLES
    status,  \* status[o]: "idle", "pending", "answered" or "abandoned"
    out,     \* out[o]: the members of o's future called so far
    gone     \* the page has navigated away

avars == <<status, out, gone>>

Outcomes == {"success", "failure"}

Init ==
    /\ status = [o \in Ops |-> "idle"]
    /\ out = [o \in Ops |-> <<>>]
    /\ gone = FALSE

(* The invocation; begin is called before dispatch when it exists. *)
Call(o) ==
    /\ ~gone
    /\ status[o] = "idle"
    /\ status' = [status EXCEPT ![o] = "pending"]
    /\ \E pre \in {<<>>, <<"begin">>} : out' = [out EXCEPT ![o] = pre]
    /\ UNCHANGED gone

(* Exactly one outcome, after begin. *)
Answer(o) ==
    /\ ~gone
    /\ status[o] = "pending"
    /\ status' = [status EXCEPT ![o] = "answered"]
    /\ \E e \in Outcomes : out' = [out EXCEPT ![o] = Append(@, e)]
    /\ UNCHANGED gone

(* Session expiry intercepts the answer: no outcome is called. *)
Abandon(o) ==
    /\ ~gone
    /\ status[o] = "pending"
    /\ status' = [status EXCEPT ![o] = "abandoned"]
    /\ UNCHANGED <<out, gone>>

(* The page navigates away; the caller may do so at any time. *)
Leave ==
    /\ ~gone
    /\ gone' = TRUE
    /\ UNCHANGED <<status, out>>

Next ==
    \/ \E o \in Ops : Call(o) \/ Answer(o) \/ Abandon(o)
    \/ Leave

(* An abandoned invocation is followed by the navigation. *)
LeaveAfterAbandon == Leave /\ \E o \in Ops : status[o] = "abandoned"

(* Every pending invocation is eventually resolved, and an abandoned one  *)
(* is eventually followed by the navigation that explains it.            *)
Fairness ==
    /\ \A o \in Ops : WF_avars(Answer(o) \/ Abandon(o))
    /\ WF_avars(LeaveAfterAbandon)

Spec == Init /\ [][Next]_avars /\ Fairness

=============================================================================
