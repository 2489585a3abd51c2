---------------------------- MODULE Entitlements ----------------------------
(***************************************************************************)
(* Shared subscriptions (internal/subscription: plan.go, subscriber.go,    *)
(* usage.go, published_node.go, and the Server lifecycle that calls them): *)
(* plans of published nodes, subscribers, and the clients the Panel keeps  *)
(* for every subscriber on every proxy of the plan.                        *)
(*                                                                         *)
(* Every operation is one transaction.  It ends by reconciling the         *)
(* subscribers it concerns and by bumping the Servers whose clients have   *)
(* changed, and is rolled back when one of those is being decommissioned.  *)
(***************************************************************************)
EXTENDS Naturals, FiniteSets, FiniteSetsExt

CONSTANTS
    Users, Plans, Servers, Proxies,
    Nodes,        \* ids of published nodes
    At,           \* the Server of a proxy
    Target,       \* the proxy of a published node
    Via,          \* the Server of its relay, or None for a direct node
    Limits,       \* traffic limits of plans; None is no limit
    MaxUsage,     \* bound: traffic charged to a subscriber
    Leaving,      \* bound: the Servers that may be taken out of use
    None

\* What the Panel keeps of a plan, and of a client it keeps for a subscriber.
PlanRow == [on : BOOLEAN, limit : Limits, nodes : SUBSET Nodes]
ManagedClient == [snap : BOOLEAN, charged : Nat]

ASSUME EntitlementAssumption ==
    /\ IsFiniteSet(Proxies)
    /\ None \notin Plans \cup BOOLEAN \cup PlanRow \cup ManagedClient
    /\ At \in [Proxies -> Servers] /\ Target \in [Nodes -> Proxies]
    /\ Via \in [Nodes -> Servers \cup {None}]
    /\ Limits \subseteq Nat \cup {None} /\ MaxUsage \in Nat /\ Leaving \subseteq Servers

VARIABLES
    plan,      \* rows: on, limit, nodes, or None
    enabled,   \* published nodes: BOOLEAN, or None for no row
    sub,       \* profiles: plan, on, expired, due (a new cycle has begun),
               \* archived usage, clients: snap and charged usage, or None
    server,    \* "active", "leaving" (decommission requested), "archived", "deleted"
    told,      \* the clients in the desired state of a Server at its last version
    waiting    \* history: subscribers for whom time has passed since they were reconciled

entVars == <<plan, enabled, sub, server, told, waiting>>

(***************************************************************************)
(* What a subscriber is entitled to.                                       *)
(***************************************************************************)
Held(r) == {p \in Proxies : r.clients[p] # None}
Charged(r) == [p \in Proxies |-> IF r.clients[p] = None THEN 0 ELSE r.clients[p].charged]
Used(r) == r.archived + SumFunction(Charged(r))
PlanOf(r, pl) == IF r.plan = None THEN None ELSE pl[r.plan]

Active(r, pl) ==
    LET k == PlanOf(r, pl) IN
    /\ r.on /\ k # None /\ ~r.expired
    /\ k.on /\ (k.limit = None \/ Used(r) < k.limit)

Required(r, pl, en, sv) ==
    LET k == PlanOf(r, pl) IN
    IF k = None THEN {}
    ELSE {p \in {Target[n] : n \in {m \in k.nodes : en[m] = TRUE}} : sv[At[p]] \in {"active", "leaving"}}

ZeroUsage(r) ==
    [r EXCEPT !.archived = 0,
              !.clients = [p \in Proxies |-> IF @[p] = None THEN None ELSE [@[p] EXCEPT !.charged = 0]]]

ResetCycleIfDue(r) == IF r.due THEN [ZeroUsage(r) EXCEPT !.due = FALSE] ELSE r

\* Mistake: the usage of a removed client goes with it.
ForgetUsage(r, p) == 0

ArchiveUsage(r, p) == r.clients[p].charged

NewClient(active) == [snap |-> active, charged |-> 0]

\* reconcileSubscriberTx.
Reconcile(s, pl, en, sv) ==
    LET r == ResetCycleIfDue(s)
        need == Required(r, pl, en, sv)
        gone == [p \in Proxies |-> IF p \in Held(r) \ need THEN ArchiveUsage(r, p) ELSE 0]
        active == Active(r, pl)
    IN  [r EXCEPT !.archived = @ + SumFunction(gone),
                  !.clients = [p \in Proxies |->
                      IF p \notin need THEN None
                      ELSE IF @[p] = None THEN NewClient(active) ELSE [@[p] EXCEPT !.snap = active]]]

\* Mistake: the Servers of clients that changed state, but not of clients that came or went.
AffectedByState(r, q) == {At[p] : p \in {p \in Held(r) \cap Held(q) : r.clients[p].snap # q.clients[p].snap}}

Affected(r, q) ==
    {At[p] : p \in {p \in Proxies :
        \/ (p \in Held(r)) # (p \in Held(q))
        \/ p \in Held(r) \cap Held(q) /\ r.clients[p].snap # q.clients[p].snap}}

Content(s, b) == {x \in Users \X Proxies :
    At[x[2]] = s /\ b[x[1]].clients[x[2]] # None /\ b[x[1]].clients[x[2]].snap}

\* A Server that is no longer active makes the whole transaction fail.
BumpServerVersions(touched, b) ==
    /\ \A s \in touched : server[s] = "active"
    /\ told' = [s \in Servers |-> IF s \in touched THEN Content(s, b) ELSE told[s]]

\* The end of a transaction that reconciles the users U: b are the profiles as
\* the transaction has left them so far.
ReconcileAll(b, U) ==
    LET c == [u \in Users |-> IF u \in U THEN Reconcile(b[u], plan', enabled', server') ELSE b[u]]
    IN  /\ BumpServerVersions(UNION {Affected(b[u], c[u]) : u \in U}, c)
        /\ sub' = c
        /\ waiting' = waiting \ U

SubscribersOf(K) == {u \in Users : sub[u].plan \in K}

(***************************************************************************)
(* Plans and published nodes.                                              *)
(***************************************************************************)
EntInit ==
    /\ plan = [k \in Plans |-> None]
    /\ enabled = [n \in Nodes |-> None]
    /\ sub = [u \in Users |-> [plan |-> None, on |-> TRUE, expired |-> FALSE, due |-> FALSE, archived |-> 0,
                               clients |-> [p \in Proxies |-> None]]]
    /\ server = [s \in Servers |-> "active"]
    /\ told = [s \in Servers |-> {}]
    /\ waiting = {}

CreatePlan(k, limit) ==
    /\ plan[k] = None
    /\ plan' = [plan EXCEPT ![k] = [on |-> TRUE, limit |-> limit, nodes |-> {}]]
    /\ UNCHANGED <<enabled, sub, server, told, waiting>>

UpdatePlan(k, on, limit) ==
    /\ plan[k] # None
    /\ plan' = [plan EXCEPT ![k].on = on, ![k].limit = limit]
    /\ UNCHANGED <<enabled, server>>
    /\ ReconcileAll(sub, SubscribersOf({k}))

\* No two nodes of a plan lead to the same proxy.
DistinctTargets(N) == \A m, n \in N : Target[m] = Target[n] => m = n

SetPlanNodes(k, N) ==
    /\ plan[k] # None
    /\ \A n \in N : enabled[n] # None
    /\ DistinctTargets(N)
    /\ plan' = [plan EXCEPT ![k].nodes = N]
    /\ UNCHANGED <<enabled, server>>
    /\ ReconcileAll(sub, SubscribersOf({k}))

DeletePlan(k) ==
    /\ plan[k] # None /\ SubscribersOf({k}) = {}
    /\ plan' = [plan EXCEPT ![k] = None]
    /\ UNCHANGED <<enabled, sub, server, told, waiting>>

\* The node is to be in the plans K and in no other.
InPlans(n, K) == [k \in Plans |->
    IF plan[k] = None THEN None
    ELSE [plan[k] EXCEPT !.nodes = IF k \in K THEN @ \cup {n} ELSE @ \ {n}]]

PlanConflict(n, k) == \E m \in plan[k].nodes \ {n} : Target[m] = Target[n]

SyncPublishedNodePlans(n, K) ==
    /\ \A k \in K : plan[k] # None /\ ~PlanConflict(n, k)
    /\ plan' = InPlans(n, K)

PlansWith(n) == {k \in Plans : plan[k] # None /\ n \in plan[k].nodes}

Changed(n, K) == (PlansWith(n) \ K) \cup (K \ PlansWith(n))

\* A proxy of a Server that is being decommissioned can still be published, as long as
\* no one gets a client there; a relay needs a Server that is active.
CreatePublishedNode(n, on, K) ==
    /\ enabled[n] = None
    /\ server[At[Target[n]]] \in {"active", "leaving"}
    /\ Via[n] # None => server[Via[n]] = "active"
    /\ enabled' = [enabled EXCEPT ![n] = on]
    /\ SyncPublishedNodePlans(n, K)
    /\ UNCHANGED server
    /\ ReconcileAll(sub, SubscribersOf(K))

\* A change of the switch of a relayed node goes through its relay, whose Server
\* must be active.
UpdatePublishedNode(n, on, K) ==
    /\ enabled[n] # None
    /\ Via[n] # None /\ on # enabled[n] => server[Via[n]] = "active"
    /\ enabled' = [enabled EXCEPT ![n] = on]
    /\ SyncPublishedNodePlans(n, K)
    /\ UNCHANGED server
    /\ ReconcileAll(sub, SubscribersOf(IF on # enabled[n] THEN K \cup Changed(n, K) ELSE Changed(n, K)))

DeletePublishedNode(n) ==
    /\ enabled[n] # None /\ PlansWith(n) = {}
    /\ Via[n] # None => server[Via[n]] = "active"
    /\ enabled' = [enabled EXCEPT ![n] = None]
    /\ UNCHANGED <<plan, sub, server, told, waiting>>

(***************************************************************************)
(* Subscribers and their traffic.                                          *)
(***************************************************************************)
UpdateSubscriber(u, k, on) ==
    /\ k # None => plan[k] # None
    /\ UNCHANGED <<plan, enabled, server>>
    /\ \E expired \in {FALSE, sub[u].expired} :
          ReconcileAll([sub EXCEPT ![u] = [@ EXCEPT !.plan = k, !.on = on, !.expired = expired]], {u})

ResetSubscriberTraffic(u) ==
    /\ UNCHANGED <<plan, enabled, server>>
    /\ ReconcileAll([sub EXCEPT ![u] = [ZeroUsage(@) EXCEPT !.due = FALSE]], {u})

\* A download of the subscription, or a visit to the portal.
ReconcileSubscriber(u) ==
    /\ UNCHANGED <<plan, enabled, server>>
    /\ ReconcileAll(sub, {u})

\* The expiry date or the reset day of a subscriber passes.
TimePasses(u) ==
    /\ \/ ~sub[u].expired /\ sub' = [sub EXCEPT ![u].expired = TRUE]
       \/ ~sub[u].due /\ sub' = [sub EXCEPT ![u].due = TRUE]
    /\ waiting' = waiting \cup {u}
    /\ UNCHANGED <<plan, enabled, server, told>>

ClientsOn(s) == {x \in Users \X Proxies : At[x[2]] = s /\ sub[x[1]].clients[x[2]] # None}

\* The one node of the plan that says how traffic on the proxy is charged.
Multipliers(u, p) == {n \in (PlanOf(sub[u], plan)).nodes : Target[n] = p}

\* The clients of u that R names have carried traffic.
Charge(r, u, R) == [r EXCEPT !.clients = [p \in Proxies |->
    IF <<u, p>> \in R THEN [r.clients[p] EXCEPT !.charged = @ + 1] ELSE r.clients[p]]]

\* A report of the Agent of s about the clients R: a client that is not there,
\* or whose charge cannot be resolved, is an error and nothing is recorded.
RecordClientTraffic(s, R) ==
    LET reporting == {x[1] : x \in R}
    IN  /\ server[s] \in {"active", "leaving"} /\ R # {} /\ R \subseteq ClientsOn(s)
        /\ \A x \in R : PlanOf(sub[x[1]], plan) # None /\ Cardinality(Multipliers(x[1], x[2])) = 1
        /\ \A x \in R : Used(sub[x[1]]) < MaxUsage
        /\ UNCHANGED <<plan, enabled, server>>
        /\ ReconcileAll([u \in Users |->
              IF u \in reporting THEN Charge(ResetCycleIfDue(sub[u]), u, R) ELSE sub[u]], reporting)

\* The Agent of s fetches its desired state, every minute and when told to.
FetchConfig(s) ==
    /\ server[s] = "active"
    /\ UNCHANGED <<plan, enabled, server>>
    /\ ReconcileAll(sub, {x[1] : x \in ClientsOn(s)})

(***************************************************************************)
(* The lifecycle of Servers.                                               *)
(***************************************************************************)
RequestDecommission(s) ==
    /\ server[s] = "active"
    /\ server' = [server EXCEPT ![s] = "leaving"]
    /\ UNCHANGED <<plan, enabled, sub, told, waiting>>

NodesOn(s) == {n \in Nodes : enabled[n] # None /\ s \in {At[Target[n]], Via[n]}}

\* cleanupArchivedDependenciesTx: the nodes of the Server are disabled and those
\* who used them reconciled; only Servers that are still active are bumped.
Disabled(s) == [n \in Nodes |-> IF n \in NodesOn(s) THEN FALSE ELSE enabled[n]]

CleanupDependencies(s, sv) ==
    LET U == SubscribersOf(UNION {PlansWith(n) : n \in {m \in NodesOn(s) : enabled[m]}})
               \cup {x[1] : x \in ClientsOn(s)}
        c == [u \in Users |-> IF u \in U THEN Reconcile(sub[u], plan, Disabled(s), sv) ELSE sub[u]]
        touched == {t \in (UNION {Affected(sub[u], c[u]) : u \in U}) \ {s} : server[t] = "active"}
    IN  /\ sub' = c
        /\ told' = [t \in Servers |-> IF t \in touched THEN Content(t, c) ELSE told[t]]
        /\ waiting' = waiting \ U

\* FinalizeDecommission or ForceArchive.
ArchiveServer(s) ==
    /\ server[s] \in {"active", "leaving"}
    /\ server' = [server EXCEPT ![s] = "archived"]
    /\ enabled' = Disabled(s)
    /\ CleanupDependencies(s, server')
    /\ UNCHANGED plan

\* The nodes of the Server and their places in plans.
DeleteDependencies(s) ==
    /\ enabled' = [n \in Nodes |-> IF n \in NodesOn(s) THEN None ELSE enabled[n]]
    /\ plan' = [k \in Plans |-> IF plan[k] = None THEN None ELSE [plan[k] EXCEPT !.nodes = @ \ NodesOn(s)]]

\* The dependencies are cleaned once more (a direct node can have been enabled
\* again) before they go with the Server.
PermanentlyDelete(s) ==
    /\ server[s] = "archived"
    /\ CleanupDependencies(s, server)
    /\ server' = [server EXCEPT ![s] = "deleted"]
    /\ DeleteDependencies(s)

EntNext ==
    \/ \E k \in Plans : DeletePlan(k)
    \/ \E k \in Plans, limit \in Limits :
          CreatePlan(k, limit) \/ \E on \in BOOLEAN : UpdatePlan(k, on, limit)
    \/ \E k \in Plans, N \in SUBSET Nodes : SetPlanNodes(k, N)
    \/ \E n \in Nodes : DeletePublishedNode(n)
    \/ \E n \in Nodes, on \in BOOLEAN, K \in SUBSET Plans :
          CreatePublishedNode(n, on, K) \/ UpdatePublishedNode(n, on, K)
    \/ \E u \in Users, k \in Plans \cup {None}, on \in BOOLEAN : UpdateSubscriber(u, k, on)
    \/ \E u \in Users : ResetSubscriberTraffic(u) \/ ReconcileSubscriber(u) \/ TimePasses(u)
    \/ \E s \in Servers : FetchConfig(s) \/ \E R \in SUBSET ClientsOn(s) : RecordClientTraffic(s, R)
    \/ \E s \in Leaving : RequestDecommission(s) \/ ArchiveServer(s) \/ PermanentlyDelete(s)

EntSpec == EntInit /\ [][EntNext]_entVars

(***************************************************************************)
(* Properties.                                                             *)
(***************************************************************************)
\* Every client of a subscriber is charged by exactly one node of the plan.
\* Otherwise recordSubscriberChargeTx (usage.go:190) rejects every report of the
\* Server, those of all its other clients included.
ChargesResolve ==
    \A u \in Users : \A p \in Held(sub[u]) :
        sub[u].plan # None /\ Cardinality(Multipliers(u, p)) = 1

\* Whatever plans, nodes, profiles and Servers go through, a subscriber has the
\* clients of the enabled nodes of the plan and no other, switched on exactly
\* while the subscription is valid; only time may have passed since.
ClientsFollowPlan ==
    \A u \in Users \ waiting :
        /\ Held(sub[u]) = Required(sub[u], plan, enabled, server)
        /\ \A p \in Held(sub[u]) : sub[u].clients[p].snap = Active(sub[u], plan)

\* The version of an active Server is bumped whenever its clients change: what it
\* was last told to serve is what it is to serve.
ServersAreTold ==
    \A s \in Servers : server[s] = "active" => told[s] = Content(s, sub)

\* The three together: what the plans say is what every subscriber has, is charged
\* by and is served (ChargesResolve, ClientsFollowPlan, ServersAreTold).
PlansReachServers == ChargesResolve /\ ClientsFollowPlan /\ ServersAreTold

\* The usage of a subscriber shrinks only in a new cycle or by a reset: not when
\* the plan, a node or a Server is taken away or comes back.
UsageIsKept ==
    [][\A u \in Users : Used(sub[u])' < Used(sub[u]) => sub[u].due \/ ResetSubscriberTraffic(u)]_entVars

\* A subscriber whose time is up is cut off on every Server that is in use.
LapsedIsCutOff ==
    \A u \in Users :
        sub[u].expired ~> (~sub[u].expired \/ \A s \in Servers : server[s] = "active" =>
                              \A p \in Proxies : <<u, p>> \notin told[s])
=============================================================================
