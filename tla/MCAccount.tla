--------------------------- MODULE MCAccount ---------------------------
(* Account on a small instance.  Webhooks and pages meet in the row only, and so *)
(* do plans and balances: one side is explored in full while the others do       *)
(* little.                                                                       *)
EXTENDS Account, FiniteSets, TLC

Symmetry == Permutations(Hooks)

\* No page has been opened and no session been verified.
PagesRest == /\ page = "other" /\ sub = None /\ subAsked
             /\ session = [p \in Pods |-> None]
             /\ topUp = [i \in TopUps |-> Unused]

\* Nobody asks Redis for the plan.
NoReaders == planCache = None /\ reader = [p \in Pods |-> None]

\* One change, which one handler at a time writes, and the first top-up only.
OneChange == /\ NoReaders /\ Len(reported) <= 2
             /\ Cardinality({h \in Hooks : hook[h] # None}) <= 1
             /\ \A h \in Hooks : hook[h] # None => hook[h].nr = 2
             /\ \A i \in TopUps \ {1} : topUp[i] = Unused

\* No webhook at all.
NoChange == NoReaders /\ NoHook /\ Len(reported) = 1

OneSideInFull == PagesRest \/ OneChange \/ NoChange
=============================================================================
