------------------------------ MODULE Account ------------------------------
(***************************************************************************)
(* One account between Stripe, the API's pods and the dashboard.           *)
(*                                                                         *)
(* Stripe reports plans by webhooks; a handler writes the row and then     *)
(* evicts the plan cache in Redis.  Two more copies of the row exist which *)
(* no webhook evicts: each pod keeps the account of a session for five     *)
(* minutes (its requests carry it as the account of their context), and    *)
(* the dashboard keeps the answers it got.  The billing page has a state   *)
(* of its own, filled by its load and by the answers to its top-ups; the   *)
(* sidebar and the pages usage and status share a query.                   *)
(*                                                                         *)
(* Stripe creates events in an order and delivers them in any: late, more  *)
(* than once, several at a time, one that failed long after a newer one.   *)
(* No handler looks at the time an event was created.  The session's entry *)
(* in Redis is never found (its digest is empty), so the pod's own copy is *)
(* the only one.  Reading the row for a session and keeping it is one      *)
(* step: only age removes a copy, so one kept late is one read early.  The *)
(* suspension of unpaid accounts and the list of invoices on the billing   *)
(* page are left out.                                                      *)
(*                                                                         *)
(* Bounds: MaxReports plan changes, MaxTopUps top-ups of one unit each.    *)
(***************************************************************************)
EXTENDS Naturals, Sequences

CONSTANTS Pods,         \* API processes
          Hooks,        \* webhook handlers that may run at once
          Plans,        \* plans Stripe may report
          MaxReports,   \* bound on the plan changes
          MaxTopUps,    \* bound on the top-ups
          Opening,      \* the balance before them
          Null,         \* what a refused request of the query is stored as
          Missed,       \* a reader that found no plan in Redis
          None          \* no value

ASSUME BoundsAssumption == MaxReports \in Nat /\ MaxTopUps \in Nat /\ Opening \in Nat

Row == [plan : Plans, funds : Nat]
TopUps == 1..MaxTopUps
Pages == {"billing", "usage", "status", "other"}

Reading == [plan : Plans, old : BOOLEAN]

\* What a handler is to write: the plan of a change, by its number, or for a
\* renewal, nr = 0, the plan it has read.
Event == [nr : 0..(MaxReports + 1), plan : Plans, at : {"update", "evict"}]

ASSUME PlansAssumption == Plans # {} /\ None \notin Plans
ASSUME MarksAssumption == /\ None \notin Nat /\ None \notin Row \cup Reading \cup Event \cup {Null, Missed}
                          /\ Null \notin Row /\ Missed \notin Reading

VARIABLES
  plan, funds,   \* the row of accounts: plan and balance
  had,           \* history: the plans the row has had
  reported,      \* the plans of Stripe's changes in the order they were created,
                 \* the first the plan the account began with
  hook,          \* per handler: its event and where it is
  planCache,     \* plan:<id> in Redis
  reader,        \* per pod: a GetAccountPlan that missed, or what it has read
  session,       \* per pod: the account in its local cache
  page,          \* the dashboard's page on screen
  shown,         \* balance of the billing page, None until an answer sets it
  shownPlan,     \* its subscription?.plan
  load,          \* its loadData: where it is, and what was answered
  topUp,         \* its top-ups
  sub, subAsked, \* data of the query ["billing", "subscription"], and its fetch
  invoices,      \* the query ["billing", "invoices"]
  inOrder,       \* history: the newest change was delivered, and neither an older one
                 \* nor a renewal ran beside it, nor an older one later
  aged,          \* history: planCache was read before an update and outlived it
  alone          \* history: the last top-up was the only request, and did not fail

row == <<plan, funds, had>>
hooks == <<reported, hook, inOrder>>
plans == <<planCache, reader, aged>>
bill == <<shown, shownPlan, load, topUp, alone>>
queries == <<sub, subAsked, invoices>>
vars == <<row, hooks, plans, session, page, bill, queries>>

Unused == [at |-> "unused", here |-> FALSE, funds |-> Opening]

TypeOK ==
  /\ plan \in Plans /\ funds \in Nat /\ had \in SUBSET Plans
  /\ reported \in Seq(Plans) /\ Len(reported) \in 1..(MaxReports + 1)
  /\ hook \in [Hooks -> Event \cup {None}]
  /\ planCache \in Plans \cup {None}
  /\ reader \in [Pods -> Reading \cup {None, Missed}]
  /\ session \in [Pods -> Row \cup {None}]
  /\ page \in Pages
  /\ shown \in Nat \cup {None} /\ shownPlan \in Plans \cup {None}
  /\ load \in [at : {"asked", "answered", "over"}, plan : Plans \cup {None}, funds : Nat]
  /\ topUp \in [TopUps -> [at : {"unused", "asked", "answered", "failed", "done"},
                           here : BOOLEAN, funds : Nat]]
  /\ sub \in Row \cup {None, Null} /\ subAsked \in BOOLEAN
  /\ invoices \in {"none", "asked", "have"}
  /\ inOrder \in BOOLEAN /\ aged \in BOOLEAN /\ alone \in BOOLEAN
-----------------------------------------------------------------------------
(* Stripe changes the subscription; the events of it follow when they may. *)
StripeChanges ==
  /\ Len(reported) <= MaxReports
  /\ \E p \in Plans : reported' = Append(reported, p)
  /\ inOrder' = FALSE
  /\ UNCHANGED <<row, hook, plans, session, page, bill, queries>>

(* A delivery is given to a handler.                                       *)
Starts(h, event) ==
  /\ hook[h] = None
  /\ hook' = [hook EXCEPT ![h] = event]
  /\ UNCHANGED <<row, reported, plans, session, page, bill, queries>>

NoHook == \A h \in Hooks : hook[h] = None
Newest == Len(reported)

\* No handler but those of the newest change; no change that is not yet written.
OnlyNewest == \A h \in Hooks : hook[h] # None => hook[h].nr = Newest
Written == \A h \in Hooks : hook[h] # None => hook[h].nr = 0 \/ hook[h].at = "evict"

SubscriptionUpdated(h) ==
  \E n \in DOMAIN reported :
    /\ Starts(h, [nr |-> n, plan |-> reported[n], at |-> "update"])
    /\ inOrder' = (n = Newest /\ (inOrder \/ OnlyNewest))

\* Mutant: the plan that is written back is the one of the plan cache.
InvoicePaidCached(h) ==
  /\ Starts(h, [nr |-> 0, plan |-> IF planCache = None THEN plan ELSE planCache, at |-> "update"])
  /\ inOrder' = (inOrder /\ Written)

(* invoice.paid reads the account and is to write its plan back.           *)
InvoicePaid(h) ==
  /\ Starts(h, [nr |-> 0, plan |-> plan, at |-> "update"])
  /\ inOrder' = (inOrder /\ Written)

UpdatePlan(h) ==
  /\ hook[h] # None /\ hook[h].at = "update"
  /\ plan' = hook[h].plan /\ had' = had \cup {hook[h].plan}
  /\ hook' = [hook EXCEPT ![h].at = "evict"]
  /\ reader' = [p \in Pods |-> IF reader[p] \in {None, Missed} THEN reader[p]
                               ELSE [reader[p] EXCEPT !.old = TRUE]]
  /\ UNCHANGED <<funds, reported, inOrder, planCache, aged, session, page, bill, queries>>

\* Mutant: the eviction is forgotten.
EvictPlanNot(h) ==
  /\ hook[h] # None /\ hook[h].at = "evict"
  /\ hook' = [hook EXCEPT ![h] = None]
  /\ UNCHANGED <<row, reported, inOrder, plans, session, page, bill, queries>>

(* A deletion that Redis refuses is not noticed.                           *)
EvictPlan(h) ==
  /\ hook[h] # None /\ hook[h].at = "evict"
  /\ hook' = [hook EXCEPT ![h] = None]
  /\ \/ planCache' = None /\ aged' = FALSE
     \/ planCache' = planCache /\ aged' = TRUE
  /\ UNCHANGED <<row, reported, inOrder, reader, session, page, bill, queries>>

(* A statement fails or the pod dies, before the update or after it; the   *)
(* event is delivered again at another time.                               *)
HandlerFails(h) ==
  /\ hook[h] # None
  /\ hook' = [hook EXCEPT ![h] = None]
  /\ inOrder' = (inOrder /\ (hook[h].nr = 0 \/ hook[h].at = "evict"))
  /\ aged' = (aged \/ hook[h].at = "evict")
  /\ UNCHANGED <<row, reported, planCache, reader, session, page, bill, queries>>
-----------------------------------------------------------------------------
(* GetAccountPlan of RequirePlan: Redis, then the row, kept for a minute.  *)
MissPlan(p) ==
  /\ reader[p] = None /\ planCache = None
  /\ reader' = [reader EXCEPT ![p] = Missed]
  /\ UNCHANGED <<row, hooks, planCache, aged, session, page, bill, queries>>

ReadPlan(p) ==
  /\ reader[p] = Missed
  /\ reader' = [reader EXCEPT ![p] = [plan |-> plan, old |-> FALSE]]
  /\ UNCHANGED <<row, hooks, planCache, aged, session, page, bill, queries>>

StorePlan(p) ==
  /\ reader[p] \notin {None, Missed}
  /\ planCache' = reader[p].plan /\ aged' = reader[p].old
  /\ reader' = [reader EXCEPT ![p] = None]
  /\ UNCHANGED <<row, hooks, session, page, bill, queries>>

PlanExpires ==
  /\ planCache # None
  /\ planCache' = None /\ aged' = FALSE
  /\ UNCHANGED <<row, hooks, reader, session, page, bill, queries>>
-----------------------------------------------------------------------------
(* VerifyClerkToken: the account of a request's context.                   *)
Context(p) == IF session[p] = None THEN [plan |-> plan, funds |-> funds] ELSE session[p]
Verify(p) == session' = [session EXCEPT ![p] = Context(p)]

SessionExpires(p) ==
  /\ session[p] # None
  /\ session' = [session EXCEPT ![p] = None]
  /\ UNCHANGED <<row, hooks, plans, page, bill, queries>>
-----------------------------------------------------------------------------
(* A page is mounted: the billing page begins anew and loads; top-ups it   *)
(* left behind end without it; a query that is aged, or has no data, is    *)
(* fetched (a second fetch of the invoices would change nothing here).     *)
(* Among the other pages, home reads the subscription too.                 *)
Mount(q) ==
  /\ page' = q /\ shown' = None /\ shownPlan' = None /\ alone' = FALSE
  /\ load' = [at |-> IF q = "billing" THEN "asked" ELSE "over", plan |-> None, funds |-> Opening]
  /\ topUp' = [i \in TopUps |-> [topUp[i] EXCEPT !.here = FALSE]]

Navigate ==
  /\ \E q \in Pages \ {page} :
       /\ Mount(q)
       /\ \E stale \in BOOLEAN :
            /\ subAsked' = \/ subAsked \/ (q # "billing" /\ stale)
                           \/ (q \in {"usage", "status"} /\ sub = None)
            /\ invoices' = IF q = "usage" /\ invoices = "none" THEN "asked" ELSE invoices
  /\ UNCHANGED <<row, hooks, plans, session, sub>>

(* handlePortalRedirect: the browser leaves for Stripe's portal and comes  *)
(* back to the billing page of a new client.                               *)
PortalRedirect ==
  /\ page = "billing"
  /\ Mount("billing")
  /\ sub' = None /\ subAsked' = TRUE /\ invoices' = "none"
  /\ UNCHANGED <<row, hooks, plans, session>>

(* loadData of the billing page: getSubscription answers with the account  *)
(* of the context, or refuses; or there is no answer.                      *)
LoadServed ==
  /\ load.at = "asked"
  /\ \/ load' = [load EXCEPT !.at = "over"] /\ UNCHANGED session
     \/ \E p \in Pods :
          /\ load' = [at |-> "answered", plan |-> Context(p).plan, funds |-> Context(p).funds]
          /\ Verify(p)
  /\ UNCHANGED <<row, hooks, plans, page, shown, shownPlan, topUp, alone, queries>>

LoadAnswered ==
  /\ load.at = "answered"
  /\ shown' = load.funds /\ shownPlan' = load.plan
  /\ load' = [load EXCEPT !.at = "over"]
  /\ UNCHANGED <<row, hooks, plans, session, page, topUp, alone, queries>>
-----------------------------------------------------------------------------
InFlight(i) == topUp[i].at \in {"asked", "answered"}
Quiet == load.at = "over" /\ \A i \in TopUps : ~InFlight(i)

\* Mutant: the page adds the amount before it is asked for.
AskTopUpOptimistic ==
  /\ page = "billing"
  /\ \E i \in TopUps :
       /\ topUp[i].at = "unused"
       /\ topUp' = [topUp EXCEPT ![i] = [at |-> "asked", here |-> TRUE, funds |-> Opening]]
  /\ shown' = IF shown = None THEN None ELSE shown + 1
  /\ alone' = Quiet
  /\ UNCHANGED <<row, hooks, plans, session, page, shownPlan, load, queries>>

(* handleTopUp, up to its request; nothing keeps the user from the next.   *)
AskTopUp ==
  /\ page = "billing"
  /\ \E i \in TopUps :
       /\ topUp[i].at = "unused"
       /\ topUp' = [topUp EXCEPT ![i] = [at |-> "asked", here |-> TRUE, funds |-> Opening]]
  /\ alone' = Quiet
  /\ UNCHANGED <<row, hooks, plans, session, page, shown, shownPlan, load, queries>>

\* Mutant: the balance of the answer is that of the context's account.
AddFundsContext ==
  /\ \E i \in TopUps, p \in Pods :
       /\ topUp[i].at = "asked"
       /\ Verify(p)
       /\ funds' = funds + 1
       /\ topUp' = [topUp EXCEPT ![i] = [at |-> "answered", here |-> topUp[i].here, funds |-> Context(p).funds]]
  /\ UNCHANGED <<plan, had, hooks, plans, page, shown, shownPlan, load, alone, queries>>

(* addFunds: one UPDATE, whose answer may be lost.                         *)
AddFunds ==
  /\ \E i \in TopUps, p \in Pods :
       /\ topUp[i].at = "asked"
       /\ Verify(p)
       /\ funds' = funds + 1
       /\ \E at \in {"answered", "failed"} :
            /\ topUp' = [topUp EXCEPT ![i] = [at |-> at, here |-> topUp[i].here, funds |-> funds + 1]]
            /\ alone' = (alone /\ at = "answered")
  /\ UNCHANGED <<plan, had, hooks, plans, page, shown, shownPlan, load, queries>>

AddFundsRefused ==
  /\ \E i \in TopUps :
       /\ topUp[i].at = "asked"
       /\ topUp' = [topUp EXCEPT ![i].at = "failed"]
  /\ alone' = FALSE
  /\ UNCHANGED <<row, hooks, plans, session, page, shown, shownPlan, load, queries>>

(* The answer is shown if the page that asked is still there.              *)
TopUpAnswered ==
  /\ \E i \in TopUps :
       /\ topUp[i].at = "answered"
       /\ shown' = IF topUp[i].here THEN topUp[i].funds ELSE shown
       /\ topUp' = [topUp EXCEPT ![i].at = "done"]
  /\ UNCHANGED <<row, hooks, plans, session, page, shownPlan, load, alone, queries>>
-----------------------------------------------------------------------------
(* The fetch of the query ends: a refusal is stored as null; a failure     *)
(* leaves the data.                                                        *)
SubServed ==
  /\ subAsked
  /\ \/ \E p \in Pods : sub' = Context(p) /\ Verify(p)
     \/ sub' \in {sub, Null} /\ UNCHANGED session
  /\ subAsked' = FALSE
  /\ UNCHANGED <<row, hooks, plans, page, bill, invoices>>

InvoicesServed ==
  /\ invoices = "asked"
  /\ invoices' \in {"have", "none"}
  /\ UNCHANGED <<row, hooks, plans, session, page, bill, sub, subAsked>>

(* What the pages show.  Until an answer sets them, the billing page has   *)
(* "..." for the plan and 0 for the balance.  The usage page reads a       *)
(* prepaidBalance the API does not send; the status page calls every       *)
(* account's system operational.                                           *)
BillingView == [plan |-> IF shownPlan = None THEN "..." ELSE shownPlan,
                funds |-> IF shown = None THEN 0 ELSE shown]
Loading == sub = None /\ subAsked
UsageView == IF Loading \/ invoices = "asked" THEN "loader" ELSE "usage"
StatusView == IF Loading THEN "loader" ELSE "operational"

(* The sidebar's isPro: no answer, a refusal and every other plan are FREE. *)
Badge == IF sub \in Row /\ sub.plan = "pro" THEN "PRO" ELSE "FREE"
-----------------------------------------------------------------------------
Init ==
  /\ plan \in Plans /\ funds = Opening /\ had = {plan}
  /\ reported = <<plan>>
  /\ hook = [h \in Hooks |-> None]
  /\ planCache = None /\ reader = [p \in Pods |-> None]
  /\ session = [p \in Pods |-> None]
  /\ page = "other" /\ shown = None /\ shownPlan = None
  /\ load = [at |-> "over", plan |-> None, funds |-> Opening]
  /\ topUp = [i \in TopUps |-> Unused]
  /\ sub = None /\ subAsked = TRUE /\ invoices = "none"
  /\ inOrder = TRUE /\ aged = FALSE /\ alone = FALSE

Next ==
  \/ StripeChanges
  \/ \E h \in Hooks : \/ SubscriptionUpdated(h) \/ InvoicePaid(h) \/ UpdatePlan(h)
                      \/ EvictPlan(h) \/ HandlerFails(h)
  \/ \E p \in Pods : MissPlan(p) \/ ReadPlan(p) \/ StorePlan(p) \/ SessionExpires(p)
  \/ PlanExpires
  \/ Navigate \/ PortalRedirect \/ LoadServed \/ LoadAnswered
  \/ AskTopUp \/ AddFunds \/ AddFundsRefused \/ TopUpAnswered
  \/ SubServed \/ InvoicesServed

Spec == Init /\ [][Next]_vars
-----------------------------------------------------------------------------
\* What the handlers carry, and when that is the plan of the newest change.
HookInv ==
  /\ \A h \in Hooks : hook[h] # None =>
       \E n \in DOMAIN reported :
         hook[h].plan = reported[n] /\ (hook[h].nr = 0 \/ hook[h].nr = n)
  /\ had \subseteq {reported[n] : n \in DOMAIN reported}
  /\ inOrder =>
       /\ \A h \in Hooks : hook[h] # None => hook[h].plan = reported[Newest]
       /\ Written => plan = reported[Newest]

Evicting == \E h \in Hooks : hook[h] # None /\ hook[h].at = "evict"

\* Who reads the row keeps its plan until the next update.
CacheInv ==
  /\ \A p \in Pods : reader[p] \in Reading /\ ~reader[p].old => reader[p].plan = plan
  /\ planCache # None /\ ~aged /\ ~Evicting => planCache = plan

\* Every copy of the row is one of an earlier row.
CopiesInv ==
  /\ plan \in had /\ Opening <= funds
  /\ \A p \in Pods : session[p] # None =>
       session[p].plan \in had /\ session[p].funds \in Opening..funds
  /\ sub \in Row => sub.plan \in had
  /\ shown # None => shown \in Opening..funds
  /\ shownPlan # None => shownPlan \in had
  /\ load.funds \in Opening..funds /\ (load.plan # None => load.plan \in had)
  /\ \A i \in TopUps : topUp[i].funds \in Opening..funds

\* A top-up on its own: its answer is the row's balance.
AloneInv ==
  alone =>
    /\ page = "billing" /\ load.at = "over"
    /\ \A i, j \in TopUps : InFlight(i) /\ InFlight(j) => i = j
    /\ \A i \in TopUps : InFlight(i) =>
         topUp[i].here /\ (topUp[i].at = "answered" => topUp[i].funds = funds)
    /\ (\A i \in TopUps : ~InFlight(i)) => shown = funds

\* The inductive invariant.
IInv == TypeOK /\ HookInv /\ CacheInv /\ CopiesInv /\ AloneInv

\* The account's plan is always one Stripe reported, whatever overlaps and in whatever
\* order.  It is the one of the newest change when that was delivered and nothing is
\* being handled, over duplicates, failed handlers and later renewals, with two
\* exceptions: a change delivered after a newer one is written over it, and a renewal
\* that ran beside the change may have written back the plan it had read before.
PlanIsReported ==
  /\ \E n \in DOMAIN reported : plan = reported[n]
  /\ NoHook /\ inOrder => plan = reported[Newest]

\* Unless a handler stands between its update and its eviction the plan in Redis is
\* that of the row, with two exceptions: a reader that had read an older row stored
\* it after the eviction, or the eviction failed.
PlanCacheIsCurrent ==
  planCache # None /\ planCache # plan => aged \/ Evicting

\* Every plan and balance that an answer put on a page is one the account has had,
\* however answers, copies and changes overtake each other: the plan and the balance
\* of the billing page, and the sidebar's badge.  What is shown without an answer
\* need not be: FREE to an account that always was pro, while the sidebar has no
\* data or was refused, and a balance of 0.
ShownWasTrue ==
  /\ BillingView.plan \in had \cup {"..."}
  /\ shown # None => Opening <= BillingView.funds /\ BillingView.funds <= funds
  /\ Badge = "PRO" => "pro" \in had
  /\ Badge = "FREE" => sub \in {None, Null} \/ \E p \in had : p # "pro"

\* After a top-up that was the only request of the billing page, and whose answer
\* arrived, the page shows exactly what the account has.
FundsAreShown ==
  page = "billing" /\ alone /\ Quiet => BillingView.funds = funds
=============================================================================
