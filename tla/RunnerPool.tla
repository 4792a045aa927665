----------------------------- MODULE RunnerPool -----------------------------
(***************************************************************************)
(* What the dispatcher promises about the runners of one host, without     *)
(* saying how it polls, counts or talks to GitHub: a pool of one-job       *)
(* runners with a global limit and a limit per flavor, which grows by one  *)
(* runner at a time and, once closed, only shrinks.  src/dispatcher.js     *)
(* implements it (Dispatcher!Pool).                                        *)
(***************************************************************************)
EXTENDS Integers, FiniteSets

CONSTANTS Slots, Flavors, Limit, FlavorCap

VARIABLES
    starting,   \* runners that have not been seen to start a job
    working,    \* runners that have
    kind,       \* the flavor of each runner, 0 for none
    open        \* shutdown has not been requested

vars == <<starting, working, kind, open>>

Runners == starting \union working
OfKind(f) == {s \in Runners : kind[s] = f}

\* Runners of earlier processes are not in the pool.
Init ==
    /\ starting = {} /\ working = {} /\ open = TRUE
    /\ kind = [s \in Slots |-> 0]

\* A runner enters the pool.
Start(s, f) ==
    /\ open
    /\ s \in Slots \ Runners
    /\ Cardinality(Runners) < Limit
    /\ Cardinality(OfKind(f)) < FlavorCap[f]
    /\ starting' = starting \union {s}
    /\ kind' = [kind EXCEPT ![s] = f]
    /\ UNCHANGED <<working, open>>

\* Its job starts.
Begin(s) ==
    /\ s \in starting
    /\ starting' = starting \ {s}
    /\ working' = working \union {s}
    /\ UNCHANGED <<kind, open>>

\* It leaves the pool, with or without having had a job.
Finish(s) ==
    /\ s \in Runners
    /\ starting' = starting \ {s}
    /\ working' = working \ {s}
    /\ kind' = [kind EXCEPT ![s] = 0]
    /\ UNCHANGED open

Close ==
    /\ open /\ open' = FALSE
    /\ UNCHANGED <<starting, working, kind>>

Next ==
    \/ Close
    \/ \E s \in Slots :
         \/ Begin(s) \/ Finish(s)
         \/ \E f \in Flavors : Start(s, f)

Spec == Init /\ [][Next]_vars

=============================================================================
