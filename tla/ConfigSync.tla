------------------------------ MODULE ConfigSync ------------------------------
(***************************************************************************)
(* What the operator promises: alertmanager-main follows the objects it is *)
(* configured from.  How it finds out what they ask for (events, queue,    *)
(* Lists, Gets, retries) is left open; SecretController has the detail and *)
(* implements this specification.                                          *)
(***************************************************************************)
CONSTANTS
    Others,         \* what others may make of alertmanager-main
    Loads(_),       \* Alertmanager can load the configuration
    Pages(_)        \* the configuration has a receiver that pages

VARIABLES
    stored,         \* alertmanager-main
    demanded,       \* the configuration that the cluster asks for
    atRest,         \* the operator has done what there was to do
    mayPage         \* the cluster has been found ready once

cvars == <<stored, demanded, atRest, mayPage>>

Init ==
    /\ stored \in Others
    /\ ~atRest
    /\ ~mayPage

\* There is something to do: the cluster asks for something else, perhaps because
\* it was found ready, or the operator looks again unasked.
Demand ==
    /\ ~atRest'
    /\ mayPage => mayPage'
    /\ UNCHANGED stored

\* Somebody else edits or deletes alertmanager-main.
Overwrite ==
    /\ stored' \in Others
    /\ ~atRest'
    /\ UNCHANGED <<demanded, mayPage>>

\* An operator that is not at rest writes: nothing that cannot be loaded, and
\* nothing that pages too early.  It need not be what is demanded by now.
Write ==
    /\ ~atRest /\ ~atRest'
    /\ Loads(stored')
    /\ Pages(stored') => mayPage
    /\ UNCHANGED <<demanded, mayPage>>

\* It comes to rest only when what is stored is what is demanded.
Rest ==
    /\ atRest'
    /\ stored = demanded
    /\ UNCHANGED <<stored, demanded, mayPage>>

Next == Demand \/ Overwrite \/ Write \/ Rest

Spec == Init /\ [][Next]_cvars
================================================================================
