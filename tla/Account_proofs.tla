--------------------------- MODULE Account_proofs ---------------------------
(***************************************************************************)
(* The invariant of Account is inductive for any number of pods and        *)
(* webhook handlers, and what follows for plans and balances.  One lemma   *)
(* per part of the invariant; actions that share no variable with a part   *)
(* are one step of it.                                                     *)
(***************************************************************************)
EXTENDS Account, TLAPS

(* The steps that leave the row, the webhooks and the plan cache alone.      *)
Dashboard == \/ \E p \in Pods : SessionExpires(p)
             \/ Navigate \/ PortalRedirect \/ LoadServed \/ LoadAnswered
             \/ AskTopUp \/ AddFundsRefused \/ TopUpAnswered \/ SubServed \/ InvoicesServed

(* The steps of webhooks and plan readers.                                   *)
Server == \/ StripeChanges
          \/ \E h \in Hooks : \/ SubscriptionUpdated(h) \/ InvoicePaid(h) \/ UpdatePlan(h)
                              \/ EvictPlan(h) \/ HandlerFails(h)
          \/ \E p \in Pods : MissPlan(p) \/ ReadPlan(p) \/ StorePlan(p)
          \/ PlanExpires

LEMMA Sides == Next <=> Dashboard \/ Server \/ AddFunds
  BY Zenon DEF Next, Dashboard, Server

LEMMA DashboardKeeps == Dashboard => UNCHANGED <<row, hooks, plans>>
  BY DEF Dashboard, SessionExpires, Navigate, PortalRedirect, LoadServed, LoadAnswered, AskTopUp,
     AddFundsRefused, TopUpAnswered, SubServed, InvoicesServed, row

LEMMA ServerKeeps == Server => UNCHANGED <<funds, session, page, bill, queries>> /\ had \subseteq had'
  BY DEF Server, StripeChanges, SubscriptionUpdated, InvoicePaid, Starts, UpdatePlan, EvictPlan,
     HandlerFails, MissPlan, ReadPlan, StorePlan, PlanExpires, row

LEMMA AddFundsKeeps == AddFunds => UNCHANGED <<plan, had, hooks, plans>>
  BY DEF AddFunds

(* The account of a context is the row, or an earlier one.                   *)
LEMMA ContextIsPast ==
  ASSUME TypeOK, CopiesInv, NEW p \in Pods
  PROVE /\ Context(p) \in Row
        /\ Context(p).plan \in had /\ Context(p).funds \in Opening..funds
  BY BoundsAssumption DEF TypeOK, CopiesInv, Context, Row

LEMMA VerifyKeepsType ==
  ASSUME TypeOK, NEW p \in Pods, Verify(p)
  PROVE session' \in [Pods -> Row \cup {None}]
  BY DEF TypeOK, Verify, Context, Row

(* A page that is mounted begins with nothing shown.                         *)
LEMMA MountKeepsType ==
  ASSUME TypeOK, NEW q \in Pages, Mount(q)
  PROVE /\ page' \in Pages /\ shown' = None /\ shownPlan' = None /\ alone' \in BOOLEAN
        /\ load' \in [at : {"asked", "answered", "over"}, plan : Plans \cup {None}, funds : Nat]
        /\ topUp' \in [TopUps -> [at : {"unused", "asked", "answered", "failed", "done"},
                                  here : BOOLEAN, funds : Nat]]
<1>1. topUp \in [TopUps -> [at : {"unused", "asked", "answered", "failed", "done"},
                            here : BOOLEAN, funds : Nat]]
  BY DEF TypeOK
<1>2. topUp' = [i \in TopUps |-> [topUp[i] EXCEPT !.here = FALSE]]
  BY DEF Mount
<1>3. topUp' \in [TopUps -> [at : {"unused", "asked", "answered", "failed", "done"},
                             here : BOOLEAN, funds : Nat]]
  BY <1>1, <1>2
<1>4. page' \in Pages /\ shown' = None /\ shownPlan' = None
  BY DEF Mount
<1>5. load' \in [at : {"asked", "answered", "over"}, plan : Plans \cup {None}, funds : Nat]
  BY BoundsAssumption DEF Mount
<1>6. alone' \in BOOLEAN
  BY Zenon DEF Mount
<1> QED
  BY <1>3, <1>4, <1>5, <1>6

(* A delivered event is one of the reported changes.                         *)
LEMMA DeliveredIsEvent ==
  ASSUME TypeOK, NEW n \in DOMAIN reported
  PROVE /\ n \in 1..Newest /\ n # 0 /\ reported[n] \in Plans
        /\ [nr |-> n, plan |-> reported[n], at |-> "update"] \in Event
  BY BoundsAssumption DEF TypeOK, Event, Newest
-----------------------------------------------------------------------------
LEMMA InitOK == Init => IInv
<1> SUFFICES ASSUME Init PROVE IInv
  OBVIOUS
<1> USE DEF Init
<1>1. TypeOK
  <2>1. /\ had \in SUBSET Plans
        /\ reported \in Seq(Plans) /\ Len(reported) \in 1..(MaxReports + 1)
    BY BoundsAssumption
  <2>2. topUp \in [TopUps -> [at : {"unused", "asked", "answered", "failed", "done"},
                              here : BOOLEAN, funds : Nat]]
    BY BoundsAssumption DEF Unused
  <2>3. load \in [at : {"asked", "answered", "over"}, plan : Plans \cup {None}, funds : Nat]
    BY BoundsAssumption
  <2>4. hook \in [Hooks -> Event \cup {None}] /\ reader \in [Pods -> Reading \cup {None, Missed}]
        /\ session \in [Pods -> Row \cup {None}]
    OBVIOUS
  <2> QED
    BY <2>1, <2>2, <2>3, <2>4, BoundsAssumption DEF TypeOK, Pages
<1>2. HookInv /\ CacheInv
  BY MarksAssumption DEF HookInv, CacheInv, Newest, Reading
<1>3. CopiesInv
  BY <1>1, MarksAssumption, BoundsAssumption DEF CopiesInv, TypeOK, Unused, Row
<1>4. AloneInv
  BY DEF AloneInv
<1> QED
  BY <1>1, <1>2, <1>3, <1>4 DEF IInv

LEMMA TypeInductive == TypeOK /\ [Next]_vars => TypeOK'
<1> SUFFICES ASSUME TypeOK, [Next]_vars PROVE TypeOK'
  OBVIOUS
<1> USE BoundsAssumption, MarksAssumption DEF TypeOK
<1>0. CASE StripeChanges
  <2> PICK p \in Plans : reported' = Append(reported, p)
    BY <1>0 DEF StripeChanges
  <2>1. reported' \in Seq(Plans) /\ Len(reported') \in 1..(MaxReports + 1)
    BY <1>0 DEF StripeChanges
  <2>2. inOrder' \in BOOLEAN
    BY <1>0, Zenon DEF StripeChanges
  <2> QED
    BY <1>0, <2>1, <2>2 DEF StripeChanges, row, plans, bill, queries
<1>1. ASSUME NEW h \in Hooks, SubscriptionUpdated(h) PROVE TypeOK'
  <2> PICK n \in DOMAIN reported :
         /\ Starts(h, [nr |-> n, plan |-> reported[n], at |-> "update"])
         /\ inOrder' = (n = Newest /\ (inOrder \/ OnlyNewest))
    BY <1>1 DEF SubscriptionUpdated
  <2>1. inOrder' \in BOOLEAN
    BY Zenon
  <2>2. hook' \in [Hooks -> Event \cup {None}]
    BY DeliveredIsEvent DEF Starts
  <2> QED
    BY <2>1, <2>2 DEF Starts, row, plans, bill, queries
<1>2. ASSUME NEW h \in Hooks, InvoicePaid(h) PROVE TypeOK'
  <2>1. inOrder' \in BOOLEAN
    BY <1>2, Zenon DEF InvoicePaid
  <2>2. [nr |-> 0, plan |-> plan, at |-> "update"] \in Event
    BY DEF Event
  <2>3. hook' \in [Hooks -> Event \cup {None}]
    BY <1>2, <2>2 DEF InvoicePaid, Starts
  <2> QED
    BY <1>2, <2>1, <2>3 DEF InvoicePaid, Starts, row, plans, bill, queries
<1>3. ASSUME NEW h \in Hooks, UpdatePlan(h) PROVE TypeOK'
  <2>0. hook[h] \in Event
    BY <1>3 DEF UpdatePlan
  <2>1. hook' \in [Hooks -> Event \cup {None}]
    <3>1. [hook[h] EXCEPT !.at = "evict"] \in Event
      BY <2>0 DEF Event
    <3> QED
      BY <1>3, <3>1 DEF UpdatePlan
  <2>2. reader' \in [Pods -> Reading \cup {None, Missed}]
    <3> DEFINE now(p) == IF reader[p] \in {None, Missed} THEN reader[p]
                         ELSE [reader[p] EXCEPT !.old = TRUE]
    <3>1. \A p \in Pods : now(p) \in Reading \cup {None, Missed}
      BY DEF Reading
    <3>2. reader' = [p \in Pods |-> now(p)]
      BY <1>3 DEF UpdatePlan
    <3> QED
      BY <3>1, <3>2
  <2>3. hook[h].plan \in Plans
    BY <2>0 DEF Event
  <2> QED
    BY <1>3, <2>1, <2>2, <2>3 DEF UpdatePlan, bill, queries
<1>4. ASSUME NEW h \in Hooks, EvictPlan(h) PROVE TypeOK'
  <2>1. aged' \in BOOLEAN
    BY <1>4, Zenon DEF EvictPlan
  <2>2. hook' \in [Hooks -> Event \cup {None}] /\ planCache' \in Plans \cup {None}
    BY <1>4 DEF EvictPlan
  <2> QED
    BY <1>4, <2>1, <2>2 DEF EvictPlan, row, bill, queries
<1>5. ASSUME NEW h \in Hooks, HandlerFails(h) PROVE TypeOK'
  <2>1. inOrder' \in BOOLEAN /\ aged' \in BOOLEAN
    BY <1>5, Zenon DEF HandlerFails
  <2>2. hook' \in [Hooks -> Event \cup {None}]
    BY <1>5 DEF HandlerFails
  <2> QED
    BY <1>5, <2>1, <2>2 DEF HandlerFails, row, bill, queries
<1>6. ASSUME NEW p \in Pods, MissPlan(p) PROVE TypeOK'
  BY <1>6 DEF MissPlan, row, hooks, bill, queries
<1>7. ASSUME NEW p \in Pods, ReadPlan(p) PROVE TypeOK'
  BY <1>7 DEF ReadPlan, Reading, row, hooks, bill, queries
<1>8. ASSUME NEW p \in Pods, StorePlan(p) PROVE TypeOK'
  BY <1>8 DEF StorePlan, Reading, row, hooks, bill, queries
<1>9. ASSUME NEW p \in Pods, SessionExpires(p) PROVE TypeOK'
  BY <1>9 DEF SessionExpires, row, hooks, plans, bill, queries
<1>10. CASE PlanExpires
  BY <1>10 DEF PlanExpires, row, hooks, bill, queries
<1>11. CASE Navigate
  <2> PICK q \in Pages : Mount(q)
    BY <1>11 DEF Navigate
  <2>1. subAsked' \in BOOLEAN /\ invoices' \in {"none", "asked", "have"}
    BY <1>11 DEF Navigate
  <2> QED
    BY <1>11, <2>1, MountKeepsType DEF Navigate, row, hooks, plans
<1>12. CASE PortalRedirect
  <2>1. "billing" \in Pages
    BY DEF Pages
  <2>2. Mount("billing")
    BY <1>12 DEF PortalRedirect
  <2> QED
    BY <1>12, <2>1, <2>2, MountKeepsType DEF PortalRedirect, row, hooks, plans
<1>13. CASE LoadServed
  <2>1. session' \in [Pods -> Row \cup {None}]
    BY <1>13, VerifyKeepsType DEF LoadServed
  <2>2. load' \in [at : {"asked", "answered", "over"}, plan : Plans \cup {None}, funds : Nat]
    BY <1>13 DEF LoadServed, Context, Row
  <2> QED
    BY <1>13, <2>1, <2>2 DEF LoadServed, row, hooks, plans, queries
<1>14. CASE LoadAnswered
  BY <1>14 DEF LoadAnswered, row, hooks, plans, queries
<1>15. CASE AskTopUp
  BY <1>15 DEF AskTopUp, Quiet, InFlight, row, hooks, plans, queries
<1>16. CASE AddFunds
  <2> PICK i \in TopUps, p \in Pods :
         /\ topUp[i].at = "asked" /\ Verify(p) /\ funds' = funds + 1
         /\ \E at \in {"answered", "failed"} :
              /\ topUp' = [topUp EXCEPT ![i] = [at |-> at, here |-> topUp[i].here, funds |-> funds + 1]]
              /\ alone' = (alone /\ at = "answered")
    BY <1>16 DEF AddFunds
  <2>1. session' \in [Pods -> Row \cup {None}]
    BY VerifyKeepsType
  <2>2. topUp' \in [TopUps -> [at : {"unused", "asked", "answered", "failed", "done"},
                               here : BOOLEAN, funds : Nat]]
    <3> PICK at \in {"answered", "failed"} :
           topUp' = [topUp EXCEPT ![i] = [at |-> at, here |-> topUp[i].here, funds |-> funds + 1]]
      OBVIOUS
    <3>1. [at |-> at, here |-> topUp[i].here, funds |-> funds + 1]
            \in [at : {"unused", "asked", "answered", "failed", "done"}, here : BOOLEAN, funds : Nat]
      OBVIOUS
    <3> QED
      BY <3>1
  <2>3. alone' \in BOOLEAN /\ funds' \in Nat
    OBVIOUS
  <2> QED
    BY <1>16, <2>1, <2>2, <2>3 DEF AddFunds, hooks, plans, queries
<1>17. CASE AddFundsRefused
  <2> PICK i \in TopUps : topUp' = [topUp EXCEPT ![i].at = "failed"]
    BY <1>17 DEF AddFundsRefused
  <2>1. topUp' \in [TopUps -> [at : {"unused", "asked", "answered", "failed", "done"},
                               here : BOOLEAN, funds : Nat]]
    OBVIOUS
  <2>2. alone' \in BOOLEAN
    BY <1>17, Zenon DEF AddFundsRefused
  <2> QED
    BY <1>17, <2>1, <2>2 DEF AddFundsRefused, row, hooks, plans, queries
<1>18. CASE TopUpAnswered
  <2> PICK i \in TopUps :
         /\ topUp[i].at = "answered"
         /\ shown' = IF topUp[i].here THEN topUp[i].funds ELSE shown
         /\ topUp' = [topUp EXCEPT ![i].at = "done"]
    BY <1>18 DEF TopUpAnswered
  <2>1. shown' \in Nat \cup {None}
    OBVIOUS
  <2>2. topUp' \in [TopUps -> [at : {"unused", "asked", "answered", "failed", "done"},
                               here : BOOLEAN, funds : Nat]]
    OBVIOUS
  <2> QED
    BY <1>18, <2>1, <2>2 DEF TopUpAnswered, row, hooks, plans, queries
<1>19. CASE SubServed
  <2>1. session' \in [Pods -> Row \cup {None}]
    BY <1>19, VerifyKeepsType DEF SubServed
  <2>2. sub' \in Row \cup {None, Null}
    BY <1>19 DEF SubServed, Context, Row
  <2> QED
    BY <1>19, <2>1, <2>2 DEF SubServed, row, hooks, plans, bill
<1>20. CASE InvoicesServed
  BY <1>20 DEF InvoicesServed, row, hooks, plans, bill
<1>21. CASE UNCHANGED vars
  BY <1>21 DEF vars, row, hooks, plans, bill, queries
<1> QED
  BY <1>0, <1>1, <1>2, <1>3, <1>4, <1>5, <1>6, <1>7, <1>8, <1>9, <1>10, <1>11, <1>12, <1>13, <1>14,
     <1>15, <1>16, <1>17, <1>18, <1>19, <1>20, <1>21 DEF Next
-----------------------------------------------------------------------------
(* Handlers carry what Stripe reported, and the newest of it while inOrder.  *)
LEMMA HookInductive == TypeOK /\ CopiesInv /\ HookInv /\ [Next]_vars => HookInv'
<1> SUFFICES ASSUME TypeOK, plan \in had, HookInv, [Next]_vars PROVE HookInv'
  BY DEF CopiesInv
<1> USE MarksAssumption DEF TypeOK, HookInv, Newest
<1>1. CASE StripeChanges
  <2> PICK p \in Plans : reported' = Append(reported, p)
    BY <1>1 DEF StripeChanges
  <2>1. \A n \in DOMAIN reported : n \in DOMAIN reported' /\ reported'[n] = reported[n]
    OBVIOUS
  <2>2. UNCHANGED <<hook, had>> /\ ~inOrder'
    BY <1>1 DEF StripeChanges, row
  <2> QED
    BY <2>1, <2>2
<1>2. ASSUME NEW h \in Hooks, SubscriptionUpdated(h) PROVE HookInv'
  <2> PICK n \in DOMAIN reported :
         /\ Starts(h, [nr |-> n, plan |-> reported[n], at |-> "update"])
         /\ inOrder' = (n = Newest /\ (inOrder \/ OnlyNewest))
    BY <1>2 DEF SubscriptionUpdated
  <2> DEFINE e == [nr |-> n, plan |-> reported[n], at |-> "update"]
  <2>0. UNCHANGED <<had, reported>>
    BY DEF Starts, row
  <2>1. /\ hook'[h] = e /\ hook'[h] # None
        /\ \A g \in Hooks \ {h} : hook'[g] = hook[g]
    BY DeliveredIsEvent DEF Starts
  <2>2. \A g \in Hooks : hook'[g] # None =>
          \E m \in DOMAIN reported : hook'[g].plan = reported[m] /\ (hook'[g].nr = 0 \/ hook'[g].nr = m)
    BY <2>1
  <2>3. ~Written'
    BY <2>1, DeliveredIsEvent DEF Written
  <2>4. ASSUME inOrder', NEW g \in Hooks, hook'[g] # None PROVE hook'[g].plan = reported[Newest]
    <3>1. CASE g = h
      <4>1. n = Newest
        BY <2>4, Zenon
      <4>2. hook'[h].plan = reported[n]
        BY <2>1
      <4> QED
        BY <3>1, <4>1, <4>2
    <3>2. CASE g # h /\ inOrder
      BY <2>1, <2>4, <3>2
    <3>3. CASE g # h /\ OnlyNewest
      BY <2>1, <2>4, <3>3 DEF OnlyNewest
    <3> QED
      BY <2>4, <3>1, <3>2, <3>3
  <2> QED
    BY <2>0, <2>2, <2>3, <2>4
<1>3. ASSUME NEW h \in Hooks, InvoicePaid(h) PROVE HookInv'
  <2>1. /\ hook'[h] = [nr |-> 0, plan |-> plan, at |-> "update"] /\ hook[h] = None
        /\ \A g \in Hooks \ {h} : hook'[g] = hook[g]
        /\ UNCHANGED <<row, reported>> /\ inOrder' = (inOrder /\ Written)
    BY <1>3 DEF InvoicePaid, Starts
  <2>2. \E m \in DOMAIN reported : plan = reported[m]
    OBVIOUS
  <2>3. inOrder' => plan = reported[Newest]
    BY <2>1
  <2> QED
    BY <2>1, <2>2, <2>3 DEF row
<1>4. ASSUME NEW h \in Hooks, UpdatePlan(h) PROVE HookInv'
  <2>1. /\ hook[h] # None /\ plan' = hook[h].plan /\ had' = had \cup {hook[h].plan}
        /\ hook'[h].plan = hook[h].plan /\ hook'[h].nr = hook[h].nr
        /\ \A g \in Hooks \ {h} : hook'[g] = hook[g]
        /\ UNCHANGED <<reported, inOrder>>
    BY <1>4 DEF UpdatePlan, Event
  <2>2. \A g \in Hooks : hook'[g] # None =>
          hook[g] # None /\ hook'[g].plan = hook[g].plan /\ hook'[g].nr = hook[g].nr
    BY <2>1
  <2>3. had' \subseteq {reported[n] : n \in DOMAIN reported}
    BY <2>1
  <2> QED
    BY <2>1, <2>2, <2>3
<1>5. ASSUME NEW h \in Hooks, EvictPlan(h) PROVE HookInv'
  <2>1. /\ hook[h].at = "evict" /\ hook'[h] = None
        /\ \A g \in Hooks \ {h} : hook'[g] = hook[g]
        /\ UNCHANGED <<row, reported, inOrder>>
    BY <1>5 DEF EvictPlan
  <2>2. Written' => Written
    BY <2>1 DEF Written
  <2>3. \A g \in Hooks : hook'[g] # None => hook'[g] = hook[g]
    BY <2>1
  <2> QED
    BY <2>1, <2>2, <2>3 DEF row
<1>6. ASSUME NEW h \in Hooks, HandlerFails(h) PROVE HookInv'
  <2>1. /\ hook'[h] = None /\ \A g \in Hooks \ {h} : hook'[g] = hook[g]
        /\ UNCHANGED <<row, reported>>
        /\ inOrder' = (inOrder /\ (hook[h].nr = 0 \/ hook[h].at = "evict"))
    BY <1>6 DEF HandlerFails
  <2>2. inOrder' => inOrder /\ (Written' => Written)
    BY <2>1, Zenon DEF Written
  <2>3. \A g \in Hooks : hook'[g] # None => hook'[g] = hook[g]
    BY <2>1
  <2> QED
    BY <2>1, <2>2, <2>3 DEF row
<1>7. CASE UNCHANGED <<row, hooks>>
  BY <1>7 DEF row, hooks, Written
<1>8. ASSUME NEW p \in Pods, MissPlan(p) \/ ReadPlan(p) \/ StorePlan(p) PROVE HookInv'
  BY <1>7, <1>8 DEF MissPlan, ReadPlan, StorePlan
<1>9. CASE PlanExpires
  BY <1>7, <1>9 DEF PlanExpires
<1>10. CASE Dashboard \/ UNCHANGED vars
  BY <1>7, <1>10, DashboardKeeps DEF vars
<1>11. CASE AddFunds
  BY <1>11, AddFundsKeeps DEF hooks, Written
<1> QED
  BY <1>1, <1>2, <1>3, <1>4, <1>5, <1>6, <1>8, <1>9, <1>10, <1>11, Sides DEF Server

(* What a reader holds, and what Redis holds, is the row's plan.             *)
LEMMA CacheInductive == TypeOK /\ CacheInv /\ [Next]_vars => CacheInv'
<1> SUFFICES ASSUME TypeOK, CacheInv, [Next]_vars PROVE CacheInv'
  OBVIOUS
<1> USE MarksAssumption DEF TypeOK, CacheInv, Evicting
<1>0. CASE StripeChanges
  BY <1>0 DEF StripeChanges, row, plans
<1>1. ASSUME NEW h \in Hooks, SubscriptionUpdated(h) \/ InvoicePaid(h) PROVE CacheInv'
  <2>1. /\ hook[h] = None /\ \A g \in Hooks \ {h} : hook'[g] = hook[g]
        /\ UNCHANGED <<row, plans>>
    BY <1>1 DEF SubscriptionUpdated, InvoicePaid, Starts
  <2>2. Evicting => Evicting'
    BY <2>1
  <2> QED
    BY <2>1, <2>2 DEF row, plans
<1>2. ASSUME NEW h \in Hooks, UpdatePlan(h) PROVE CacheInv'
  <2>1. hook'[h] # None /\ hook'[h].at = "evict"
    BY <1>2 DEF UpdatePlan, Event
  <2>2. ASSUME NEW p \in Pods, reader'[p] \in Reading PROVE reader'[p].old
    BY <1>2, <2>2 DEF UpdatePlan, Reading
  <2> QED
    BY <1>2, <2>1, <2>2 DEF UpdatePlan
<1>3. ASSUME NEW h \in Hooks, EvictPlan(h) PROVE CacheInv'
  BY <1>3 DEF EvictPlan, row
<1>4. ASSUME NEW h \in Hooks, HandlerFails(h) PROVE CacheInv'
  <2>1. /\ hook'[h] = None /\ \A g \in Hooks \ {h} : hook'[g] = hook[g]
        /\ UNCHANGED <<plan, planCache, reader>> /\ aged' = (aged \/ hook[h].at = "evict")
    BY <1>4 DEF HandlerFails, row
  <2>2. ~aged' /\ ~Evicting' => ~aged /\ ~Evicting
    BY <2>1
  <2> QED
    BY <2>1, <2>2
<1>5. ASSUME NEW p \in Pods, MissPlan(p) PROVE CacheInv'
  BY <1>5 DEF MissPlan, row, hooks
<1>6. ASSUME NEW p \in Pods, ReadPlan(p) PROVE CacheInv'
  BY <1>6 DEF ReadPlan, Reading, row, hooks
<1>7. ASSUME NEW p \in Pods, StorePlan(p) PROVE CacheInv'
  BY <1>7 DEF StorePlan, Reading, row, hooks
<1>8. CASE PlanExpires
  BY <1>8 DEF PlanExpires, row, hooks
<1>9. CASE Dashboard \/ AddFunds \/ UNCHANGED vars
  BY <1>9, DashboardKeeps, AddFundsKeeps DEF vars, row, hooks, plans
<1> QED
  BY <1>0, <1>1, <1>2, <1>3, <1>4, <1>5, <1>6, <1>7, <1>8, <1>9, Sides DEF Server
-----------------------------------------------------------------------------
(* A copy of the row is one of an earlier row; the row only gains.           *)
LEMMA CopiesInductive == TypeOK /\ HookInv /\ CopiesInv /\ [Next]_vars => CopiesInv'
<1> SUFFICES ASSUME TypeOK, HookInv, CopiesInv, [Next]_vars PROVE CopiesInv'
  OBVIOUS
<1> USE MarksAssumption, BoundsAssumption DEF TypeOK, CopiesInv
<1>1. CASE Server
  <2>1. plan' \in had'
    <3>1. \/ plan' = plan /\ had' = had
          \/ \E h \in Hooks : plan' = hook[h].plan /\ had' = had \cup {hook[h].plan}
      BY <1>1 DEF Server, StripeChanges, SubscriptionUpdated, InvoicePaid, Starts, UpdatePlan,
         EvictPlan, HandlerFails, MissPlan, ReadPlan, StorePlan, PlanExpires, row
    <3> QED
      BY <3>1
  <2> QED
    BY <1>1, <2>1, ServerKeeps DEF bill, queries
<1>2. ASSUME NEW p \in Pods, SessionExpires(p) PROVE CopiesInv'
  BY <1>2 DEF SessionExpires, row, bill, queries
<1>3. CASE Navigate \/ PortalRedirect
  <2>1. /\ UNCHANGED <<row, session>> /\ sub' \in {sub, None}
        /\ load'.funds = Opening /\ load'.plan = None /\ shown' = None /\ shownPlan' = None
        /\ \A i \in TopUps : topUp'[i].funds = topUp[i].funds
    <3>1. /\ UNCHANGED <<row, session>> /\ sub' \in {sub, None}
          /\ \E q \in Pages : Mount(q)
      BY <1>3 DEF Navigate, PortalRedirect, Pages
    <3>2. PICK q \in Pages : Mount(q)
      BY <3>1
    <3> QED
      BY <3>1, <3>2 DEF Mount
  <2> QED
    BY <2>1 DEF row
<1>4. CASE LoadServed
  <2>1. CASE load' = [load EXCEPT !.at = "over"] /\ UNCHANGED session
    BY <1>4, <2>1 DEF LoadServed, row, queries
  <2>2. ASSUME NEW p \in Pods, Verify(p),
               load' = [at |-> "answered", plan |-> Context(p).plan, funds |-> Context(p).funds]
        PROVE CopiesInv'
    <3>1. load'.plan \in had /\ load'.funds \in Opening..funds
      BY <2>2, ContextIsPast
    <3>2. \A q \in Pods : session'[q] # None =>
            session'[q].plan \in had /\ session'[q].funds \in Opening..funds
      BY <2>2, ContextIsPast DEF Verify
    <3> QED
      BY <1>4, <3>1, <3>2 DEF LoadServed, row, queries
  <2> QED
    BY <1>4, <2>1, <2>2 DEF LoadServed
<1>5. CASE LoadAnswered
  BY <1>5 DEF LoadAnswered, row, queries
<1>6. CASE AskTopUp
  BY <1>6 DEF AskTopUp, row, queries
<1>7. CASE AddFunds
  <2> PICK i \in TopUps, p \in Pods :
         /\ Verify(p) /\ funds' = funds + 1
         /\ \E at \in {"answered", "failed"} :
              topUp' = [topUp EXCEPT ![i] = [at |-> at, here |-> topUp[i].here, funds |-> funds + 1]]
    BY <1>7 DEF AddFunds
  <2>1. \A q \in Pods : session'[q] # None =>
          session'[q].plan \in had /\ session'[q].funds \in Opening..(funds + 1)
    BY ContextIsPast DEF Verify, Row
  <2>2. \A j \in TopUps : topUp'[j].funds \in Opening..(funds + 1)
    OBVIOUS
  <2> QED
    BY <1>7, <2>1, <2>2 DEF AddFunds, queries
<1>8. CASE AddFundsRefused
  BY <1>8 DEF AddFundsRefused, row, queries
<1>9. CASE TopUpAnswered
  BY <1>9 DEF TopUpAnswered, row, queries
<1>10. CASE SubServed
  BY <1>10, ContextIsPast DEF SubServed, Verify, row, bill
<1>11. CASE InvoicesServed
  BY <1>11 DEF InvoicesServed, row, bill
<1>12. CASE UNCHANGED vars
  BY <1>12 DEF vars, row, bill, queries
<1> QED
  BY <1>1, <1>2, <1>3, <1>4, <1>5, <1>6, <1>7, <1>8, <1>9, <1>10, <1>11, <1>12, Sides DEF Dashboard

(* A top-up on its own meets no other answer.                                *)
LEMMA AloneInductive == TypeOK /\ AloneInv /\ [Next]_vars => AloneInv'
<1> SUFFICES ASSUME TypeOK, AloneInv, [Next]_vars PROVE AloneInv'
  OBVIOUS
<1> USE DEF TypeOK, AloneInv, InFlight
<1>1. CASE Server
  BY <1>1, ServerKeeps DEF bill
<1>2. ASSUME NEW p \in Pods, SessionExpires(p) PROVE AloneInv'
  BY <1>2 DEF SessionExpires, row, bill
<1>3. CASE Navigate \/ PortalRedirect
  BY <1>3 DEF Navigate, PortalRedirect, Mount
<1>4. CASE LoadServed
  BY <1>4 DEF LoadServed, row
<1>5. CASE LoadAnswered
  BY <1>5 DEF LoadAnswered, row
<1>6. CASE AskTopUp
  <2> PICK i \in TopUps :
         /\ topUp[i].at = "unused"
         /\ topUp' = [topUp EXCEPT ![i] = [at |-> "asked", here |-> TRUE, funds |-> Opening]]
    BY <1>6 DEF AskTopUp
  <2>1. topUp'[i] = [at |-> "asked", here |-> TRUE, funds |-> Opening]
    OBVIOUS
  <2>2. \A j \in TopUps \ {i} : topUp'[j] = topUp[j]
    OBVIOUS
  <2> QED
    BY <1>6, <2>1, <2>2 DEF AskTopUp, Quiet, row
<1>7. CASE AddFunds
  <2> PICK i \in TopUps :
         /\ topUp[i].at = "asked" /\ funds' = funds + 1
         /\ \E at \in {"answered", "failed"} :
              /\ topUp' = [topUp EXCEPT ![i] = [at |-> at, here |-> topUp[i].here, funds |-> funds + 1]]
              /\ alone' = (alone /\ at = "answered")
    BY <1>7 DEF AddFunds
  <2>1. alone' => alone /\ topUp' = [topUp EXCEPT ![i] = [at |-> "answered", here |-> topUp[i].here, funds |-> funds + 1]]
    OBVIOUS
  <2>2. alone' => /\ topUp'[i].at = "answered" /\ topUp'[i].funds = funds'
                  /\ topUp'[i].here = topUp[i].here
    BY <2>1
  <2>3. alone' => \A j \in TopUps \ {i} : topUp'[j] = topUp[j]
    BY <2>1
  <2> QED
    BY <1>7, <2>1, <2>2, <2>3 DEF AddFunds
<1>8. CASE AddFundsRefused
  BY <1>8 DEF AddFundsRefused
<1>9. CASE TopUpAnswered
  <2> PICK i \in TopUps :
         /\ topUp[i].at = "answered"
         /\ shown' = IF topUp[i].here THEN topUp[i].funds ELSE shown
         /\ topUp' = [topUp EXCEPT ![i].at = "done"]
    BY <1>9 DEF TopUpAnswered
  <2>1. topUp'[i].at = "done" /\ \A j \in TopUps \ {i} : topUp'[j] = topUp[j]
    OBVIOUS
  <2>2. alone => shown' = funds
    OBVIOUS
  <2> QED
    BY <1>9, <2>1, <2>2 DEF TopUpAnswered, row
<1>10. CASE SubServed \/ InvoicesServed \/ UNCHANGED vars
  BY <1>10 DEF SubServed, InvoicesServed, vars, row, bill
<1> QED
  BY <1>1, <1>2, <1>3, <1>4, <1>5, <1>6, <1>7, <1>8, <1>9, <1>10, Sides DEF Dashboard
-----------------------------------------------------------------------------
(* Types, webhooks, plan readers and copies hold together in every state.    *)
THEOREM Inductive == Spec => []IInv
<1>1. Init => IInv
  BY InitOK
<1>2. IInv /\ [Next]_vars => IInv'
  BY TypeInductive, HookInductive, CacheInductive, CopiesInductive, AloneInductive DEF IInv
<1> QED
  BY <1>1, <1>2, PTL DEF Spec

(* The account's plan is always one of the reported ones, and the newest     *)
(* once that was handled, but for older changes and renewals run beside it.  *)
THEOREM PlansArrive == Spec => []PlanIsReported
<1>1. IInv => PlanIsReported
  BY MarksAssumption DEF IInv, HookInv, CopiesInv, PlanIsReported, NoHook, Written
<1> QED
  BY <1>1, Inductive, PTL

(* The plan cache agrees with the row, unless a handler is yet to evict it,  *)
(* or an eviction failed or was overtaken by a reader.                       *)
THEOREM PlanCacheFollows == Spec => []PlanCacheIsCurrent
<1>1. IInv => PlanCacheIsCurrent
  BY DEF IInv, CacheInv, PlanCacheIsCurrent
<1> QED
  BY <1>1, Inductive, PTL

(* No answer puts a balance or a plan on a page that the account never had:  *)
(* on the billing page, and as PRO or FREE in the sidebar.                   *)
THEOREM PagesInventNothing == Spec => []ShownWasTrue
<1>1. IInv => ShownWasTrue
  BY DEF IInv, TypeOK, CopiesInv, ShownWasTrue, BillingView, Badge
<1> QED
  BY <1>1, Inductive, PTL

(* A top-up on its own leaves the account's balance on the page.             *)
THEOREM TopUpIsShown == Spec => []FundsAreShown
<1>1. IInv => FundsAreShown
  BY MarksAssumption DEF IInv, TypeOK, AloneInv, FundsAreShown, Quiet, BillingView
<1> QED
  BY <1>1, Inductive, PTL
=============================================================================
