-------------------------- MODULE ReadinessInterface --------------------------
(***************************************************************************)
(* What the readiness engine (readiness.Interface) promises its caller,    *)
(* the secret controller: an answer to IsReady() and the requeue request   *)
(* that Result() hands back to the work queue.  How the answer is found    *)
(* (ClusterOperators, Prometheus, the clock) is left open; the Readiness   *)
(* module gives the detail and implements this specification.              *)
(***************************************************************************)
CONSTANT
    RequeueDelay    \* Result{Requeue: true, RequeueAfter: ...}, one for each delay

VARIABLES
    ready,      \* impl.ready: the cached positive verdict
    result,     \* impl.result: when the caller should be requeued
    answer      \* what the last call of IsReady() returned

ivars == <<ready, result, answer>>

\* reconcile.Result{}.
NoRequeue == "none"

Result == {NoRequeue} \cup RequeueDelay

\* (true, nil), (false, nil), (false, err), and "no answer yet".
Answer == {"none", "ready", "notReady", "error"}

Init ==
    /\ ready = FALSE
    /\ result = NoRequeue
    /\ answer = "none"

\* A check is under way: the previous request to requeue is withdrawn.
Check ==
    /\ ~ready
    /\ result' = NoRequeue
    /\ answer' = "none"
    /\ UNCHANGED ready

\* A verdict that is positive stays so and asks for nothing.
CachedReady ==
    /\ ready
    /\ answer' = "ready"
    /\ UNCHANGED <<ready, result>>

DeclareReady ==
    /\ ~ready
    /\ ready' = TRUE
    /\ result' = NoRequeue
    /\ answer' = "ready"

\* A negative answer always comes with a request to be asked again.
KeepWaiting ==
    /\ ~ready
    /\ result' \in RequeueDelay
    /\ answer' = "notReady"
    /\ UNCHANGED ready

\* An unusable MAX_CLUSTER_AGE_MINUTES: the caller gets the error.
Misconfigured ==
    /\ ~ready
    /\ result' = NoRequeue
    /\ answer' = "error"
    /\ UNCHANGED ready

\* The engine lives in the operator's memory.
Restart ==
    /\ ready' = FALSE
    /\ result' = NoRequeue
    /\ answer' = "none"

Next ==
    \/ Check \/ CachedReady \/ DeclareReady
    \/ KeepWaiting \/ Misconfigured \/ Restart

Spec == Init /\ [][Next]_ivars
================================================================================
