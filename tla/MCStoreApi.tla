----------------------------- MODULE MCStoreApi -----------------------------
(* Model-checking instance of StoreApi: two concurrent invocations, so    *)
(* that one call's session-expiry redirect can cut off another one.       *)
EXTENDS StoreApi

CONSTANTS o1, o2

MCOps == {o1, o2}

=============================================================================
