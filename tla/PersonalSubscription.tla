------------------------ MODULE PersonalSubscription ------------------------
(***************************************************************************)
(* Personal subscriptions (internal/subscription/personal.go and its       *)
(* handlers): groups of nodes that refer to proxies, relays and landing    *)
(* nodes, and the routing bindings that name those nodes.                  *)
(*                                                                         *)
(* A reference to a source is no foreign key.  The handlers that edit a    *)
(* group read it, check every source, and write in a later transaction;    *)
(* `edit' holds what a running handler has read.  The deletion of a source *)
(* removes the references to it in its own transaction.                    *)
(***************************************************************************)
EXTENDS Naturals, Sequences, SequencesExt

CONSTANTS
    Groups,      \* ids of personal subscription groups
    Sources,     \* ids of proxies, relays and landing nodes
    Cascade,     \* the sources that go with a source (relays with their proxy)
    Presets,     \* routing presets
    KeysOf,      \* the policy groups of a preset
    MaxNodes,    \* bound: node rows ever inserted
    MaxNew,      \* bound: nodes that one request adds
    Edits,       \* bound: handlers that run at the same time
    Nobody,      \* no row, no handler
    Removed      \* a group that was deleted: its id is not given out again

NodeIds == 1..MaxNodes

\* A row of personal_subscription_nodes: its group, its source, and whether it
\* bears its own name.
NodeRow == [group : Groups, source : Sources, named : BOOLEAN]

\* A row of personal_subscription_groups: its preset and its bindings, pairs of a policy
\* group and a node.
GroupRow == [preset : Presets, bindings : SUBSET ((UNION {KeysOf[p] : p \in Presets}) \X NodeIds)]

ASSUME PersonalAssumption ==
    /\ Cascade \in [Sources -> SUBSET Sources] /\ MaxNodes \in Nat /\ MaxNew \in Nat
    /\ \A s \in Sources : s \in Cascade[s]
    /\ Nobody \notin NodeRow \cup GroupRow /\ Removed \notin GroupRow

VARIABLES
    source,    \* "ready", "blocked" (not selectable) or "gone"
    group,     \* rows: preset and bindings, pairs of a policy group and a node
    node,      \* rows: group, source and whether the row bears its own name
    nodes,     \* node ids given out so far: AUTOINCREMENT
    edit,      \* what a running handler has read and is to write
    overtaken, \* history: nodes saved after their source had gone
    crossed    \* history: groups written by a handler that had read other nodes

personalVars == <<source, group, node, nodes, edit, overtaken, crossed>>

Rows == {n \in NodeIds : node[n] # Nobody}
Open(g) == group[g] \notin {Nobody, Removed}
NodesOf(g) == {n \in Rows : node[n].group = g}
Absent == {s \in Sources : source[s] = "gone"}

(***************************************************************************)
(* The handlers.                                                           *)
(***************************************************************************)
PersonalInit ==
    /\ source \in [Sources -> {"ready"}]
    /\ group = [g \in Groups |-> Nobody]
    /\ node = [n \in NodeIds |-> Nobody]
    /\ nodes = 0
    /\ edit = [k \in Edits |-> Nobody]
    /\ overtaken = {} /\ crossed = {}

CreatePersonalSubscription(g, p) ==
    /\ group[g] = Nobody
    /\ group' = [group EXCEPT ![g] = [preset |-> p, bindings |-> {}]]
    /\ UNCHANGED <<source, node, nodes, edit, overtaken, crossed>>

\* The nodes go with the group: ON DELETE CASCADE.
DeletePersonalSubscription(g) ==
    /\ Open(g)
    /\ group' = [group EXCEPT ![g] = Removed]
    /\ node' = [n \in NodeIds |-> IF n \in NodesOf(g) THEN Nobody ELSE node[n]]
    /\ crossed' = crossed \ {g}
    /\ UNCHANGED <<source, nodes, edit, overtaken>>

Begin(k, q) == edit[k] = Nobody /\ edit' = [edit EXCEPT ![k] = q]
Running(k, op) == edit[k] # Nobody /\ edit[k].op = op
End(k) == edit' = [edit EXCEPT ![k] = Nobody]
Stale(q) == NodesOf(q.group) # q.rows

\* A source may be chosen when it exists and is in use; a node that keeps its id
\* and its source may keep it in any case.
Selectable(s) == source[s] = "ready"

\* keep: the ids the request keeps, with their sources; new: the sources it adds, in
\* order.  The same source may come again under another name or host.
BeginSetNodes(k, g) ==
    /\ Open(g)
    /\ \E keep \in SUBSET NodesOf(g), new \in BoundedSeq(Sources, MaxNew) : \E to \in [keep -> Sources] :
          /\ nodes + Len(new) <= MaxNodes
          /\ \A i \in DOMAIN new : Selectable(new[i])
          /\ \A n \in keep : to[n] = node[n].source \/ Selectable(to[n])
          /\ Begin(k, [op |-> "nodes", group |-> g, rows |-> NodesOf(g),
                       bindings |-> group[g].bindings, keep |-> to, new |-> new])
    /\ UNCHANGED <<source, group, node, nodes, overtaken, crossed>>

PruneRoutingBindings(b, ids) == {x \in b : x[2] \in ids}

\* The transaction renames every row of the group, writes the rows it keeps and
\* adds, deletes the others it had read, and writes back the bindings it had read.
SetPersonalSubscriptionNodes(k) ==
    LET q == edit[k]  g == q.group
        kept == DOMAIN q.keep
        added == (nodes + 1)..(nodes + Len(q.new))
    IN  /\ Running(k, "nodes")
        /\ Open(g) /\ kept \subseteq NodesOf(g)
        /\ nodes + Len(q.new) <= MaxNodes
        /\ node' = [n \in NodeIds |->
              CASE n \in kept -> [group |-> g, source |-> q.keep[n], named |-> TRUE]
                [] n \in added -> [group |-> g, source |-> q.new[n - nodes], named |-> TRUE]
                [] n \in q.rows \ kept -> Nobody
                [] n \in NodesOf(g) \ q.rows -> [node[n] EXCEPT !.named = FALSE]
                [] OTHER -> node[n]]
        /\ nodes' = nodes + Len(q.new)
        /\ group' = [group EXCEPT ![g].bindings = PruneRoutingBindings(q.bindings, kept \cup added)]
        /\ overtaken' = overtaken \cup {n \in kept \cup added : node'[n].source \in Absent}
        /\ crossed' = IF Stale(q) THEN crossed \cup {g} ELSE crossed \ {g}
        /\ End(k)
        /\ UNCHANGED source

\* Policy groups of the preset, nodes of the group; anything else is an error.
NormalizeRoutingBindings(g) == SUBSET (KeysOf[group[g].preset] \X NodesOf(g))

BeginSetBindings(k, g) ==
    /\ Open(g)
    /\ \E b \in NormalizeRoutingBindings(g) :
          Begin(k, [op |-> "bindings", group |-> g, rows |-> NodesOf(g), bindings |-> b])
    /\ UNCHANGED <<source, group, node, nodes, overtaken, crossed>>

SetPersonalSubscriptionRoutingBindings(k) ==
    LET q == edit[k] IN
    /\ Running(k, "bindings") /\ Open(q.group)
    /\ group' = [group EXCEPT ![q.group].bindings = q.bindings]
    /\ crossed' = crossed \cup {g \in {q.group} : Stale(q)}
    /\ End(k)
    /\ UNCHANGED <<source, node, nodes, overtaken>>

\* The bindings stay.  Read and write are one step here: no other handler writes
\* these columns.
UpdatePersonalSubscription(g, p) ==
    /\ Open(g)
    /\ group' = [group EXCEPT ![g].preset = p]
    /\ UNCHANGED <<source, node, nodes, edit, overtaken, crossed>>

\* An error, an overtaken row or group, or the end of the request.
GiveUp(k) ==
    /\ edit[k] # Nobody /\ End(k)
    /\ UNCHANGED <<source, group, node, nodes, overtaken, crossed>>

(***************************************************************************)
(* Sources.                                                                *)
(***************************************************************************)
\* Disabled, enabled, turned into a landing proxy, its Server archived.
SourceChanges(s) ==
    /\ source[s] # "gone"
    /\ source' = [source EXCEPT ![s] = IF @ = "ready" THEN "blocked" ELSE "ready"]
    /\ UNCHANGED <<group, node, nodes, edit, overtaken, crossed>>

\* Mistake: only the references to the source that was asked for.
PruneNamedSource(s, G) == {n \in Rows : node[n].source = s}

\* Every reference to a source that is not there, whoever deleted it.
PruneDeletedSources(s, G) == {n \in Rows : node[n].source \in G}

\* One transaction: the source, what cascades from it, and the references.
DeletePersonalSubscriptionSource(s) ==
    LET lost == PruneDeletedSources(s, Absent \cup Cascade[s])
        touched == {node[n].group : n \in lost}
    IN  /\ source[s] # "gone"
        /\ source' = [t \in Sources |-> IF t \in Cascade[s] THEN "gone" ELSE source[t]]
        /\ node' = [n \in NodeIds |-> IF n \in lost THEN Nobody ELSE node[n]]
        /\ group' = [g \in Groups |->
              IF g \notin touched THEN group[g]
              ELSE [group[g] EXCEPT !.bindings = PruneRoutingBindings(@, NodesOf(g) \ lost)]]
        /\ overtaken' = {}
        /\ UNCHANGED <<nodes, edit, crossed>>

PersonalNext ==
    \/ \E g \in Groups, p \in Presets : CreatePersonalSubscription(g, p) \/ UpdatePersonalSubscription(g, p)
    \/ \E g \in Groups : DeletePersonalSubscription(g)
    \/ \E k \in Edits, g \in Groups : BeginSetNodes(k, g) \/ BeginSetBindings(k, g)
    \/ \E k \in Edits :
          SetPersonalSubscriptionNodes(k) \/ SetPersonalSubscriptionRoutingBindings(k) \/ GiveUp(k)
    \/ \E s \in Sources : SourceChanges(s) \/ DeletePersonalSubscriptionSource(s)

PersonalSpec == PersonalInit /\ [][PersonalNext]_personalVars

(***************************************************************************)
(* Properties.                                                             *)
(***************************************************************************)
\* A node refers to a source that exists: the deletion of a source takes every
\* reference along, the ones to what cascades from it and the ones that earlier
\* requests left behind included.  The exception is a request that had checked
\* the source before it went and saved the node after (personal.go:235, 264).
ReferencesAreLive ==
    \A n \in Rows : node[n].source \in Absent => n \in overtaken

\* Unless the last writer of a group had read other nodes than it found,
\* its bindings name nodes it has, and no node is left under the temporary name
\* that SetPersonalSubscriptionNodes gives to every row first (personal.go:256).
GroupsAreWhole ==
    \A g \in Groups \ crossed : Open(g) =>
        /\ \A b \in group[g].bindings : b[2] \in NodesOf(g)
        /\ \A n \in NodesOf(g) : node[n].named

\* Both together, whatever requests of holders and administrators cross.
SubscriptionsAreWhole == ReferencesAreLive /\ GroupsAreWhole
=============================================================================
