----------------------------- MODULE MCTopology -----------------------------
(***************************************************************************)
(* The topology of two Servers, explored from three starting points, each  *)
(* with the operations its question is about.                              *)
(***************************************************************************)
EXTENDS Topology, TLC

CONSTANTS s1, s2, p1, p2, c1, c2, c3, r1, r2, l1, u1, u2, h1, h2

VARIABLE explored
allVars == <<explored, topologyVars>>

MCHome == p1 :> s1 @@ p2 :> s2
MCOf == c1 :> p1 @@ c2 :> p2 @@ c3 :> p1
MCNetwork == p1 :> "tcp" @@ p2 :> "both"

\* Rows that are there at the start; the ids in spent are not given out.
Start(px, cl, ad, spent) ==
    /\ proxy = px /\ client = cl /\ address = ad
    /\ relay = [r \in RelayIds |-> None] /\ landing = [l \in LandingIds |-> None]
    /\ published = {} /\ missed = {} /\ late = {}
    /\ used = spent
    /\ request = [k \in Requests |-> None]
    /\ shipped = [s \in Servers |-> Content(s)]

Row(port) == [port |-> port, on |-> TRUE, entry |-> "auto"]
Unassigned == [user |-> None, ports |-> {}]

\* A proxy on s2 that one relay may lead to.
EndpointStart == Start(p1 :> None @@ p2 :> Row(1), c1 :> None @@ c2 :> Unassigned @@ c3 :> None,
                       s1 :> None @@ s2 :> h1, {p1, p2, c1, c2, c3, r2})
EndpointBounds ==
    /\ address'[s1] = None
    /\ proxy'[p2].port = 1 /\ proxy'[p2].entry \in {"auto", h2}
    /\ \A r \in RelayIds : relay'[r] # None => relay'[r].port = 2
    /\ \A k \in Requests : request'[k] # None /\ request'[k].op = "updateProxy" =>
          request'[k].field \in {"on", "entry"} /\ request'[k].value # h1

\* Two proxies; one client is assigned, the other is not.
HolderStart == Start(p1 :> Row(2) @@ p2 :> Row(2),
                     c1 :> [user |-> u1, ports |-> {1}] @@ c2 :> Unassigned @@ c3 :> None,
                     [s \in Servers |-> h1], {p1, p2, c1, c2, l1})
HolderBounds ==
    /\ client'[c3] # None => \A k \in Requests : request'[k] = None
    /\ \A r \in RelayIds : relay'[r] # None /\ relay'[r].to.type = "manual" => relay'[r].to.host = h1
    /\ \A k \in Requests : request'[k] # None /\ request'[k].op = "createRelay" /\ request'[k].to.type = "manual"
          => request'[k].to.host = h1

\* Nothing on s1 yet; everything listens there.
ListenerStart == Start(p1 :> None @@ p2 :> None, [c \in ClientIds |-> None],
                       [s \in Servers |-> None], {p2, c2, l1})
ListenerBounds ==
    /\ \A r \in RelayIds : relay'[r] # None => relay'[r].server = s1 /\ relay'[r].to # [type |-> "manual", host |-> h2]
    /\ proxy'[p1] # None => proxy'[p1].entry = "auto"
    /\ \A k \in Requests : request'[k] # None /\ request'[k].op = "createRelay" => request'[k].to.host = h1

MCInit ==
    \/ explored = "endpoints" /\ EndpointStart
    \/ explored = "holders" /\ HolderStart
    \/ explored = "listeners" /\ ListenerStart

MCNext ==
    /\ UNCHANGED explored
    /\ \/ explored = "endpoints" /\ EndpointNext /\ EndpointBounds
       \/ explored = "holders" /\ HolderNext /\ HolderBounds
       \/ explored = "listeners" /\ ListenerNext /\ ListenerBounds

Interchangeable == Permutations(Requests)

MCSpec == MCInit /\ [][MCNext]_allVars
=============================================================================
