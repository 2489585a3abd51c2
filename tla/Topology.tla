------------------------------ MODULE Topology ------------------------------
(***************************************************************************)
(* Proxies, their clients, relays, landing nodes and published nodes       *)
(* (internal/proxy, relay, landing, listener, subscription/published_node  *)
(* and their handlers in internal/api).                                    *)
(*                                                                         *)
(* The database has one connection, so a transaction is one step.  Several *)
(* handlers are more than one transaction: `request' holds what a handler  *)
(* has read and what it still has to do, and Abandon ends it between two   *)
(* transactions (an error, a client that went away, the end of the Panel). *)
(***************************************************************************)
EXTENDS Naturals, FiniteSets

CONSTANTS
    Servers,       \* Servers that are neither archived nor being decommissioned
    Capable,       \* the ones whose Agent can run what is asked of it
    Purging,       \* the ones whose Agent can remove the last service
    ProxyIds, ClientIds, RelayIds, LandingIds,   \* row ids; none is used twice
    Home,          \* the Server of a proxy
    Of,            \* the proxy of a client
    Network,       \* what a proxy listens on: "tcp", or "both" for Shadowsocks
    Users,         \* accounts with the role carpool
    PortNos,       \* ports, all in the range of user relays
    Addresses,     \* addresses of Servers, entry hosts and other targets
    MaxUserRelays, \* relays one user may have
    Requests,      \* bound: handlers that run at the same time
    None           \* no value

\* The rows of proxies, clients, relays and landing_nodes.
Targets == [type : {"manual"}, host : Addresses] \cup [type : {"landing"}, id : LandingIds]
           \cup [type : {"proxy"}, id : ProxyIds]
ProxyRow == [port : PortNos, on : BOOLEAN, entry : Addresses \cup {"auto"}]
ClientRow == [user : Users \cup {None}, ports : SUBSET PortNos]
RelayRow == [server : Servers, port : PortNos, net : {"tcp", "udp", "both"}, to : Targets, on : BOOLEAN,
             owner : Users \cup {None}, source : ClientIds \cup {None}, via : ClientIds \cup {None}]
LandingRow == [host : Addresses, public : BOOLEAN]

\* A handler before its second transaction, which bumps the Servers that relay.
BumpRequest == [op : {"bumpProxy", "bumpLanding", "bumpServer"}, id : ProxyIds \cup LandingIds \cup Servers]

ASSUME TopologyAssumption ==
    /\ Capable \subseteq Servers /\ Purging \subseteq Servers
    /\ Home \in [ProxyIds -> Servers] /\ Of \in [ClientIds -> ProxyIds]
    /\ Network \in [ProxyIds -> {"tcp", "both"}]
    /\ PortNos \subseteq Nat /\ IsFiniteSet(PortNos) /\ MaxUserRelays \in Nat
    /\ None \notin Users \cup Addresses \cup ClientIds \cup RelayIds
    /\ None \notin ProxyRow \cup ClientRow \cup RelayRow \cup LandingRow \cup BumpRequest

VARIABLES
    proxy,      \* rows: port, on, entry ("auto" or a manual host), or None
    client,     \* rows: user it is assigned to, reserved relay ports, or None
    relay,      \* rows: server, port, net, to, on, owner, source, via, or None
    landing,    \* rows: host, public, or None
    published,  \* published nodes: target proxy and relay (None: direct)
    address,    \* the public address a Server last reported
    used,       \* ids given out so far
    request,    \* per running handler: what it read and still has to do
    shipped,    \* what a Server was to run when its version was last bumped
    missed,     \* history: Servers whose bump was lost or judged needless
    late        \* history: user relays made behind the back of a reassignment

rows == <<proxy, client, relay, landing, published, address, used>>
topologyVars == <<rows, request, shipped, missed, late>>

(***************************************************************************)
(* Rows, and what the Panel derives from them.                             *)
(***************************************************************************)
Proxies == {p \in ProxyIds : proxy[p] # None}
Clients == {c \in ClientIds : client[c] # None}
Relays == {r \in RelayIds : relay[r] # None}
Landings == {l \in LandingIds : landing[l] # None}
Targeting(t) == {r \in Relays : relay[r].to = t}
Managed(r) == \E n \in published : n.relay = r

\* Mistake: without the ones that lead to the client.
RelaysFrom(c) == {r \in Relays : relay[r].owner # None /\ relay[r].source = c}

UserRelaysOf(c) == {r \in Relays : relay[r].owner # None /\ c \in {relay[r].source, relay[r].via}}

\* The triggers keep one reservation per listener of these rows.
Reservations(s) ==
    {[type |-> "proxy", id |-> p, port |-> proxy[p].port, net |-> Network[p]] :
        p \in {q \in Proxies : Home[q] = s}}
    \cup {[type |-> "relay", id |-> r, port |-> relay[r].port, net |-> relay[r].net] :
        r \in {q \in Relays : relay[q].server = s}}
    \cup UNION {{[type |-> "client_relay", id |-> c, port |-> n, net |-> "tcp"] : n \in client[c].ports} :
        c \in {d \in Clients : Home[Of[d]] = s}}

\* Mistake: a listener on both networks is told apart from one on either.
OverlapExact(a, b) == a = b

NetworksOverlap(a, b) == a = b \/ "both" \in {a, b}

\* The port is free but for the listener itself and the ports of its own client.
ListenerAvailable(s, port, net, type, id, own) ==
    \A v \in Reservations(s) :
        \/ v.port # port \/ ~NetworksOverlap(net, v.net)
        \/ v.type = type /\ v.id = id
        \/ v.type = "client_relay" /\ own # None /\ v.id = own

Occupied(s) == {v.port : v \in Reservations(s)}

\* RandomUserRelayPort, and the ranges reserveClientRelayPorts chooses from.
RandomUserRelayPorts(s) == PortNos \ Occupied(s)

FreeRanges(s, n) == {r \in SUBSET RandomUserRelayPorts(s) :
                        Cardinality(r) = n /\ \A a, b \in r : a..b \subseteq r}

\* Where a relay leads: None while its target has no usable address.
Endpoint(to) ==
    CASE to.type = "manual"  -> [host |-> to.host, port |-> None]
      [] to.type = "landing" -> [host |-> landing[to.id].host, port |-> None]
      [] to.type = "proxy"   ->
            LET p == proxy[to.id]
                host == IF p.entry = "auto" THEN address[Home[to.id]] ELSE p.entry
            IN  IF p.on /\ host # None THEN [host |-> host, port |-> p.port] ELSE None

ListDesired(s) == {[relay |-> r, port |-> relay[r].port, net |-> relay[r].net, to |-> Endpoint(relay[r].to)] :
                      r \in {q \in Relays : relay[q].server = s /\ relay[q].on /\ Endpoint(relay[q].to) # None}}

\* What a Server is to run.
Content(s) ==
    [proxies |-> {[id |-> p, port |-> proxy[p].port, clients |-> {c \in Clients : Of[c] = p}] :
                     p \in {q \in Proxies : Home[q] = s /\ proxy[q].on}},
     relays  |-> ListDesired(s)]

\* bumpVersion for the Servers S, at the end of a transaction.
BumpVersion(S) ==
    /\ shipped' = [s \in Servers |-> IF s \in S THEN Content(s)' ELSE shipped[s]]
    /\ missed' = missed \ S

BumpForProxyTarget(p) == {relay[r].server : r \in Targeting([type |-> "proxy", id |-> p])} \ {Home[p]}

BumpForLandingTarget(l) == {relay[r].server : r \in Targeting([type |-> "landing", id |-> l])}

BumpForAutoTargetServer(s) ==
    UNION {{relay[r].server : r \in Targeting([type |-> "proxy", id |-> p])} :
              p \in {q \in Proxies : Home[q] = s /\ proxy[q].entry = "auto"}}

\* The Servers a handler still has to bump.
Dependents(q) ==
    CASE q.op = "bumpProxy"   -> BumpForProxyTarget(q.id)
      [] q.op = "bumpLanding" -> BumpForLandingTarget(q.id)
      [] q.op = "bumpServer"  -> BumpForAutoTargetServer(q.id)
      [] OTHER -> {}

Begin(k, q) == request[k] = None /\ request' = [request EXCEPT ![k] = q]
Finish(k) == request' = [request EXCEPT ![k] = None]
At(k, op) == request[k] # None /\ request[k].op = op

\* The second transaction of three handlers.
BumpDependencies(k) ==
    /\ request[k] # None /\ request[k].op \in {"bumpProxy", "bumpLanding", "bumpServer"}
    /\ Finish(k) /\ UNCHANGED <<rows, late>> /\ BumpVersion(Dependents(request[k]))

Abandon(k) ==
    /\ request[k] # None
    /\ Finish(k) /\ missed' = missed \cup Dependents(request[k])
    /\ UNCHANGED <<rows, shipped, late>>

(***************************************************************************)
(* Proxies.                                                                *)
(***************************************************************************)
\* Create also makes the first client.
InsertProxy(p, c, row) ==
    /\ p \notin used /\ c \notin used /\ Of[c] = p
    /\ ListenerAvailable(Home[p], row.port, Network[p], "proxy", p, None)
    /\ proxy' = [proxy EXCEPT ![p] = row]
    /\ client' = [client EXCEPT ![c] = [user |-> None, ports |-> {}]]
    /\ used' = used \cup {p, c}
    /\ UNCHANGED <<relay, landing, published, address, request, late>>
    /\ BumpVersion({Home[p]})

CreateProxy(p, c, row) == Home[p] \in Capable /\ InsertProxy(p, c, row)

\* prepareUpdate: the row as it is now, with the fields of the request.
PrepareUpdate(p, field, value) == [proxy[p] EXCEPT ![field] = value]

ProxyRuntimeChanged(previous, value) == previous # value

\* updateProxy reads the row before its transaction,
UpdateProxyRead(k, p, field, value) ==
    /\ proxy[p] # None
    /\ LET row == PrepareUpdate(p, field, value)
       IN  row.on /\ ProxyRuntimeChanged(proxy[p], row) => Home[p] \in Capable
    /\ Begin(k, [op |-> "updateProxy", id |-> p, field |-> field, value |-> value, previous |-> proxy[p]])
    /\ UNCHANGED <<rows, shipped, missed, late>>

\* Mistake: only the fields of the listener.
EndpointMoved(previous, value) == previous.port # value.port \/ previous.entry # value.entry

\* compares the row it left with the one it had read, and bumps the Servers that
\* relay to the proxy when they differ.
EndpointChanged(previous, value) == previous # value

UpdateProxy(k) ==
    /\ At(k, "updateProxy")
    /\ LET q == request[k]
           p == q.id
           row == PrepareUpdate(p, q.field, q.value)
           told == IF ProxyRuntimeChanged(proxy[p], row) THEN {Home[p]} ELSE {}
       IN  /\ proxy[p] # None
           /\ ListenerAvailable(Home[p], row.port, Network[p], "proxy", p, None)
           /\ proxy' = [proxy EXCEPT ![p] = row]
           /\ UNCHANGED <<client, relay, landing, published, address, used, late>>
           /\ shipped' = [s \in Servers |-> IF s \in told THEN Content(s)' ELSE shipped[s]]
           /\ IF EndpointChanged(q.previous, row)
              THEN /\ request' = [request EXCEPT ![k] = [op |-> "bumpProxy", id |-> p]]
                   /\ missed' = missed \ told
              ELSE /\ Finish(k)
                   /\ missed' = (missed \ told) \cup
                                (IF q.previous = proxy[p] THEN {} ELSE BumpForProxyTarget(p))

AllowManagedPurge(s) == s \in Purging

\* Neither published, nor the target of a relay, nor the last proxy of an Agent
\* that cannot remove Xray.
ValidateProxyDelete(p) ==
    /\ proxy[p] # None
    /\ \A n \in published : n.proxy # p
    /\ Targeting([type |-> "proxy", id |-> p]) = {}
    /\ AllowManagedPurge(Home[p]) \/ \E q \in Proxies \ {p} : Home[q] = Home[p]

\* prepareUserRelayDeletions: every one of the user relays may go.
PurgesAllowed(doomed) ==
    \A s \in {t \in Servers : ~AllowManagedPurge(t)} :
        LET here == {r \in Relays : relay[r].server = s}
        IN  doomed \cap here # {} => ~(here \subseteq doomed)

DeleteProxyRead(k, p) ==
    LET doomed == UNION {UserRelaysOf(c) : c \in {d \in Clients : Of[d] = p}}
    IN  /\ ValidateProxyDelete(p) /\ PurgesAllowed(doomed)
        /\ Begin(k, [op |-> "deleteProxy", id |-> p, doomed |-> doomed, seen |-> used \cap RelayIds])
        /\ UNCHANGED <<rows, shipped, missed, late>>

\* Clients go with their proxy, unless one is the source of a relay.
DeleteProxy(k) ==
    /\ At(k, "deleteProxy") /\ request[k].doomed = {}
    /\ LET p == request[k].id
       IN  /\ ValidateProxyDelete(p)
           /\ \A r \in Relays : relay[r].source = None \/ Of[relay[r].source] # p
           /\ proxy' = [proxy EXCEPT ![p] = None]
           /\ client' = [c \in ClientIds |-> IF Of[c] = p THEN None ELSE client[c]]
           /\ Finish(k) /\ UNCHANGED <<relay, landing, published, address, used, late>>
           /\ BumpVersion({Home[p]})

(***************************************************************************)
(* Clients.                                                                *)
(***************************************************************************)
CreateClient(c) ==
    /\ c \notin used /\ proxy[Of[c]] # None
    /\ client' = [client EXCEPT ![c] = [user |-> None, ports |-> {}]]
    /\ used' = used \cup {c}
    /\ UNCHANGED <<proxy, relay, landing, published, address, request, late>>
    /\ BumpVersion({Home[Of[c]]})

\* One client per user and proxy, with a range of relay ports of its own.
CreateAssignedClient(c, u, n) ==
    /\ c \notin used /\ proxy[Of[c]] # None
    /\ \A d \in Clients : Of[d] = Of[c] => client[d].user # u
    /\ \E range \in FreeRanges(Home[Of[c]], n) :
          client' = [client EXCEPT ![c] = [user |-> u, ports |-> range]]
    /\ used' = used \cup {c}
    /\ UNCHANGED <<proxy, relay, landing, published, address, request, late>>
    /\ BumpVersion({Home[Of[c]]})

UpdateClientRelayPortCount(c, n) ==
    /\ client[c] # None /\ client[c].user # None /\ Cardinality(client[c].ports) # n
    /\ \A r \in Relays : relay[r].owner # None => relay[r].source # c
    /\ \E range \in {q \in SUBSET PortNos : Cardinality(q) = n /\ \A a, b \in q : a..b \subseteq q} :
          /\ \A port \in range, v \in Reservations(Home[Of[c]]) :
                v.port = port => v.type = "client_relay" /\ v.id = c
          /\ client' = [client EXCEPT ![c].ports = range]
    /\ UNCHANGED <<proxy, relay, landing, published, address, used, request, shipped, missed, late>>

\* assignProxyClient: the user relays go first when the client changes hands.
Reassigned(c, u) == client[c].user # None /\ client[c].user # u

AssignClientRead(k, c, u) ==
    /\ client[c] # None
    /\ Begin(k, [op |-> "assign", id |-> c, user |-> u, seen |-> used \cap RelayIds,
                 doomed |-> IF Reassigned(c, u) THEN UserRelaysOf(c) ELSE {}])
    /\ UNCHANGED <<rows, shipped, missed, late>>

AssignClient(k) ==
    /\ At(k, "assign") /\ request[k].doomed = {}
    /\ LET c == request[k].id
           u == request[k].user
       IN  /\ client[c] # None
           /\ client' = [client EXCEPT ![c] =
                 [user |-> u, ports |-> IF u = None THEN {} ELSE client[c].ports]]
           /\ late' = late \cup {r \in UserRelaysOf(c) : r \notin request[k].seen}
           /\ Finish(k)
           /\ UNCHANGED <<proxy, relay, landing, published, address, used, shipped, missed>>

DeleteClientRead(k, c) ==
    /\ client[c] # None
    /\ Begin(k, [op |-> "deleteClient", id |-> c, doomed |-> UserRelaysOf(c), seen |-> used \cap RelayIds])
    /\ UNCHANGED <<rows, shipped, missed, late>>

DeleteClient(k) ==
    /\ At(k, "deleteClient") /\ request[k].doomed = {}
    /\ LET c == request[k].id
       IN  /\ client[c] # None
           /\ \A r \in Relays : relay[r].source # c
           /\ client' = [client EXCEPT ![c] = None]
           /\ relay' = [r \in RelayIds |->
                 IF r \in Relays /\ relay[r].via = c THEN [relay[r] EXCEPT !.via = None] ELSE relay[r]]
           /\ late' = late \cup {r \in UserRelaysOf(c) : r \notin request[k].seen}
           /\ Finish(k) /\ UNCHANGED <<proxy, landing, published, address, used>>
           /\ BumpVersion({Home[Of[c]]})

(***************************************************************************)
(* Relays.                                                                 *)
(***************************************************************************)
LastRelay(r) == \A q \in Relays \ {r} : relay[q].server # relay[r].server

\* validateDelete and deleteTx of a relay that no subscription manages.
RemoveRelay(r) ==
    /\ relay[r] # None /\ ~Managed(r)
    /\ AllowManagedPurge(relay[r].server) \/ ~LastRelay(r)
    /\ relay' = [relay EXCEPT ![r] = None]
    /\ UNCHANGED <<proxy, client, landing, published, address, used>>

\* deletePreparedUserRelays and deleteUserRelaysForClient: one transaction each.
DeleteDoomedRelay(k) ==
    /\ request[k] # None /\ request[k].op \in {"deleteProxy", "deleteClient", "assign"}
    /\ \E r \in request[k].doomed :
          /\ RemoveRelay(r)
          /\ request' = [request EXCEPT ![k].doomed = @ \ {r}]
          /\ late' = late \ {r} /\ BumpVersion({relay[r].server})

\* validateTarget.
TargetExists(to, via) ==
    CASE to.type = "proxy"   -> proxy[to.id] # None /\ (via # None => client[via] # None /\ Of[via] = to.id)
      [] to.type = "landing" -> landing[to.id] # None /\ via = None
      [] to.type = "manual"  -> via = None

\* createTx of any relay.
InsertRelay(r, row) ==
    /\ r \notin used
    /\ TargetExists(row.to, row.via)
    /\ ListenerAvailable(row.server, row.port, row.net, "relay", r, row.source)
    /\ row.source # None => client[row.source] # None
    /\ relay' = [relay EXCEPT ![r] = row]
    /\ used' = used \cup {r}
    /\ UNCHANGED <<proxy, client, landing, address>>

\* ValidateCreateInput: a target proxy comes with a client.
HasCredential(to, via) == to.type = "proxy" => via # None

CreateRelay(r, s, port, net, to, via) ==
    /\ s \in Capable /\ HasCredential(to, via)
    /\ InsertRelay(r, [server |-> s, port |-> port, net |-> net, to |-> to, on |-> TRUE,
                       owner |-> None, source |-> None, via |-> via])
    /\ UNCHANGED <<published, request, late>> /\ BumpVersion({s})

\* ValidateUpdateInput: the row with the fields of the request; another target
\* proxy without a client of it is refused.
UpdatedRelay(r, field, value, via) == [relay[r] EXCEPT ![field] = value, !.via = via]

Retargeted(r, field, value) == field = "to" /\ value # relay[r].to

\* updateTx: the row is read in the transaction that writes it.
ChangeRelay(r, field, value, via) ==
    LET row == UpdatedRelay(r, field, value, via)
    IN  /\ relay[r] # None
        /\ TargetExists(row.to, row.via)
        /\ ListenerAvailable(row.server, row.port, row.net, "relay", r, row.source)
        /\ relay' = [relay EXCEPT ![r] = row]
        /\ UNCHANGED <<proxy, client, landing, address, used>>

UpdateRelay(r, field, value, via) ==
    /\ relay[r] # None /\ ~Managed(r) /\ relay[r].owner = None
    /\ field # "to" => via = relay[r].via
    /\ Retargeted(r, field, value) => HasCredential(value, via)
    /\ UpdatedRelay(r, field, value, via).on => relay[r].server \in Capable
    /\ ChangeRelay(r, field, value, via)
    /\ UNCHANGED <<published, request, late>> /\ BumpVersion({relay[r].server})

DeleteRelay(r) ==
    /\ relay[r] # None /\ relay[r].owner = None
    /\ RemoveRelay(r) /\ UNCHANGED <<request, late>> /\ BumpVersion({relay[r].server})

\* createMyRelay: both clients are read and belong to the user.
CreateMyRelayRead(k, u, c, via, host) ==
    /\ client[c] # None /\ client[c].user = u /\ Home[Of[c]] \in Capable
    /\ via # None => via # c /\ client[via] # None /\ client[via].user = u
    /\ Begin(k, [op |-> "createRelay", user |-> u, source |-> c, via |-> via, port |-> None,
                 to |-> IF via # None THEN [type |-> "proxy", id |-> Of[via]]
                        ELSE [type |-> "manual", host |-> host]])
    /\ UNCHANGED <<rows, shipped, missed, late>>

\* ListAvailableClientRelayPorts.
PortsLeft(c) ==
    IF client[c] = None THEN {}
    ELSE client[c].ports \ {v.port : v \in {w \in Reservations(Home[Of[c]]) : w.type # "client_relay"}}

PickRelayPort(k) ==
    /\ At(k, "createRelay") /\ request[k].port = None
    /\ \E port \in PortsLeft(request[k].source) : request' = [request EXCEPT ![k].port = port]
    /\ UNCHANGED <<rows, shipped, missed, late>>

RelaysOf(u) == {r \in Relays : relay[r].owner = u}

\* createUserRelay counts, checks the port and inserts; it does not look again
\* whether the clients still belong to the user.
CreateUserRelay(k, r) ==
    /\ At(k, "createRelay") /\ request[k].port # None
    /\ LET q == request[k]
           s == Home[Of[q.source]]
           row == [server |-> s, port |-> q.port, net |-> "tcp", to |-> q.to, on |-> TRUE,
                   owner |-> q.user, source |-> q.source, via |-> q.via]
       IN  /\ Cardinality(RelaysOf(q.user)) < MaxUserRelays
           /\ InsertRelay(r, row)
           /\ late' = IF \A c \in {q.source, q.via} \ {None} : client[c].user = q.user
                      THEN late ELSE late \cup {r}
           /\ Finish(k) /\ UNCHANGED published /\ BumpVersion({s})

\* The port was taken meanwhile: the handler picks again.
RetryRelayPort(k) ==
    /\ At(k, "createRelay") /\ request[k].port # None
    /\ client[request[k].source] # None
    /\ ~ListenerAvailable(Home[Of[request[k].source]], request[k].port, "tcp", "relay", None, request[k].source)
    /\ request' = [request EXCEPT ![k].port = None]
    /\ UNCHANGED <<rows, shipped, missed, late>>

\* Only a target of one's own choice can be changed.
UpdateMyRelay(r, host) ==
    /\ relay[r] # None /\ relay[r].owner # None /\ relay[r].to.type = "manual"
    /\ ChangeRelay(r, "to", [type |-> "manual", host |-> host], None)
    /\ UNCHANGED <<published, request, late>> /\ BumpVersion({relay[r].server})

\* By its user, or by an administrator.
DeleteOwnedRelay(r) ==
    /\ relay[r] # None /\ relay[r].owner # None
    /\ RemoveRelay(r) /\ UNCHANGED request /\ late' = late \ {r} /\ BumpVersion({relay[r].server})

(***************************************************************************)
(* Published nodes.                                                        *)
(***************************************************************************)
PublishDirect(p) ==
    /\ proxy[p] # None
    /\ published' = published \cup {[proxy |-> p, relay |-> None]}
    /\ UNCHANGED <<proxy, client, relay, landing, address, used, request, shipped, missed, late>>

\* With a relay of its own, on a free port of the user range or on a given one.
CreatePublishedNode(p, r, s, port) ==
    /\ port = None => RandomUserRelayPorts(s) # {}
    /\ \E n \in (IF port = None THEN RandomUserRelayPorts(s) ELSE {port}) :
          InsertRelay(r, [server |-> s, port |-> n, net |-> "tcp", to |-> [type |-> "proxy", id |-> p],
                          on |-> TRUE, owner |-> None, source |-> None, via |-> None])
    /\ published' = published \cup {[proxy |-> p, relay |-> r]}
    /\ UNCHANGED <<request, late>> /\ BumpVersion({s})

\* The Server is bumped when the relay changed.
UpdatePublishedNode(n, field, value) ==
    /\ n \in published /\ n.relay # None
    /\ ChangeRelay(n.relay, field, value, None)
    /\ UNCHANGED <<published, request, late>>
    /\ BumpVersion(IF value = relay[n.relay][field] THEN {} ELSE {relay[n.relay].server})

\* No plan holds the node any more; the relay goes with it.
DeletePublishedNode(n) ==
    /\ n \in published
    /\ published' = published \ {n}
    /\ relay' = IF n.relay = None THEN relay ELSE [relay EXCEPT ![n.relay] = None]
    /\ UNCHANGED <<proxy, client, landing, address, used, request, late>>
    /\ BumpVersion(IF n.relay = None THEN {} ELSE {relay[n.relay].server})

(***************************************************************************)
(* Landing nodes and addresses.                                            *)
(***************************************************************************)
CreateLanding(l, row) ==
    /\ l \notin used
    /\ landing' = [landing EXCEPT ![l] = row] /\ used' = used \cup {l}
    /\ UNCHANGED <<proxy, client, relay, published, address, request, shipped, missed, late>>

LandingReferenced(l) == Targeting([type |-> "landing", id |-> l]) # {}

\* The relays that lead there are bumped in a transaction that follows.
UpdateLanding(k, l, row) ==
    /\ landing[l] # None /\ row # landing[l]
    /\ landing[l].public /\ ~row.public => ~LandingReferenced(l)
    /\ landing' = [landing EXCEPT ![l] = row]
    /\ IF row.host # landing[l].host THEN Begin(k, [op |-> "bumpLanding", id |-> l])
                                     ELSE request[k] = None /\ UNCHANGED request
    /\ UNCHANGED <<proxy, client, relay, published, address, used, shipped, missed, late>>

DeleteLanding(l) ==
    /\ landing[l] # None /\ ~LandingReferenced(l)
    /\ landing' = [landing EXCEPT ![l] = None]
    /\ UNCHANGED <<proxy, client, relay, published, address, used, request, shipped, missed, late>>

\* A report with another public address; the relays follow in the next transaction.
SaveSystemInfo(s, a) == a # address[s] /\ address' = [address EXCEPT ![s] = a]

ReportSystemInfo(k, s, a) ==
    /\ SaveSystemInfo(s, a)
    /\ Begin(k, [op |-> "bumpServer", id |-> s])
    /\ UNCHANGED <<proxy, client, relay, landing, published, used, shipped, missed, late>>

(***************************************************************************)
(* The specification, by the questions asked of it.                        *)
(***************************************************************************)
TopologyInit ==
    /\ proxy = [p \in ProxyIds |-> None] /\ client = [c \in ClientIds |-> None]
    /\ relay = [r \in RelayIds |-> None] /\ landing = [l \in LandingIds |-> None]
    /\ published = {} /\ used = {} /\ missed = {} /\ late = {}
    /\ address = [s \in Servers |-> None]
    /\ request = [k \in Requests |-> None]
    /\ shipped = [s \in Servers |-> Content(s)]

ProxyRows == [port : PortNos, on : {TRUE}, entry : Addresses \cup {"auto"}]
ProxyChanges == ({"port"} \X PortNos) \cup ({"on"} \X BOOLEAN) \cup ({"entry"} \X (Addresses \cup {"auto"}))

\* validateClientRelayPortCount.
RelayPortCounts == 0..5

\* Where relays lead, and who has to be told.
EndpointNext ==
    \/ \E k \in Requests, p \in ProxyIds, ch \in ProxyChanges : UpdateProxyRead(k, p, ch[1], ch[2])
    \/ \E k \in Requests : UpdateProxy(k) \/ BumpDependencies(k) \/ Abandon(k)
    \/ \E l \in LandingIds, h \in Addresses, b \in BOOLEAN : CreateLanding(l, [host |-> h, public |-> b])
    \/ \E k \in Requests, l \in LandingIds, h \in Addresses, b \in BOOLEAN :
          UpdateLanding(k, l, [host |-> h, public |-> b])
    \/ \E l \in LandingIds : DeleteLanding(l)
    \/ \E k \in Requests, s \in Servers, a \in Addresses \cup {None} : ReportSystemInfo(k, s, a)
    \/ \E r \in RelayIds, s \in Servers, n \in PortNos, to \in Targets, via \in ClientIds \cup {None} :
          CreateRelay(r, s, n, "tcp", to, via)
    \/ \E r \in RelayIds, to \in Targets, via \in ClientIds \cup {None} : UpdateRelay(r, "to", to, via)
    \/ \E r \in Relays, b \in BOOLEAN : UpdateRelay(r, "on", b, relay[r].via)
    \/ \E r \in RelayIds : DeleteRelay(r)

\* Who holds a client, and the relays made with it.
HolderNext ==
    \/ \E c \in ClientIds, u \in Users, n \in RelayPortCounts : CreateAssignedClient(c, u, n)
    \/ \E c \in ClientIds : CreateClient(c)
    \/ \E k \in Requests, c \in ClientIds, u \in Users \cup {None} : AssignClientRead(k, c, u)
    \/ \E k \in Requests, c \in ClientIds : DeleteClientRead(k, c)
    \/ \E k \in Requests, p \in ProxyIds : DeleteProxyRead(k, p)
    \/ \E k \in Requests, u \in Users, c \in ClientIds, v \in ClientIds \cup {None}, h \in Addresses :
          CreateMyRelayRead(k, u, c, v, h)
    \/ \E k \in Requests :
          \/ AssignClient(k) \/ DeleteClient(k) \/ DeleteProxy(k) \/ DeleteDoomedRelay(k) \/ Abandon(k)
          \/ PickRelayPort(k) \/ RetryRelayPort(k) \/ \E r \in RelayIds : CreateUserRelay(k, r)
    \/ \E r \in RelayIds : DeleteOwnedRelay(r) \/ \E h \in Addresses : UpdateMyRelay(r, h)

\* Who listens where.
ListenerNext ==
    \/ \E p \in ProxyIds, c \in ClientIds, row \in ProxyRows : CreateProxy(p, c, row)
    \/ \E k \in Requests, p \in ProxyIds, n \in PortNos : UpdateProxyRead(k, p, "port", n)
    \/ \E k \in Requests : UpdateProxy(k) \/ BumpDependencies(k) \/ Abandon(k)
    \/ \E c \in ClientIds, u \in Users, n \in RelayPortCounts : CreateAssignedClient(c, u, n)
    \/ \E c \in ClientIds, n \in RelayPortCounts : UpdateClientRelayPortCount(c, n)
    \/ \E r \in RelayIds, s \in Servers, n \in PortNos, net \in {"tcp", "udp", "both"}, h \in Addresses :
          CreateRelay(r, s, n, net, [type |-> "manual", host |-> h], None)
    \/ \E r \in Relays, n \in PortNos : UpdateRelay(r, "port", n, relay[r].via)
    \/ \E r \in Relays, net \in {"tcp", "udp", "both"} : UpdateRelay(r, "net", net, relay[r].via)
    \/ \E k \in Requests, u \in Users, c \in ClientIds, h \in Addresses : CreateMyRelayRead(k, u, c, None, h)
    \/ \E k \in Requests : PickRelayPort(k) \/ RetryRelayPort(k) \/ \E r \in RelayIds : CreateUserRelay(k, r)
    \/ \E p \in ProxyIds : PublishDirect(p)
    \/ \E p \in ProxyIds, r \in RelayIds, s \in Servers, n \in PortNos \cup {None} : CreatePublishedNode(p, r, s, n)
    \/ \E n \in published : DeletePublishedNode(n) \/ \E port \in PortNos : UpdatePublishedNode(n, "port", port)
    \/ \E n \in published, b \in BOOLEAN : UpdatePublishedNode(n, "on", b)

TopologyNext == EndpointNext \/ HolderNext \/ ListenerNext

TopologySpec == TopologyInit /\ [][TopologyNext]_topologyVars

(***************************************************************************)
(* Properties.                                                             *)
(***************************************************************************)
\* No two rows of a Server listen on the same port of the same network, but for
\* a user's relay on a port reserved for its own client: ListenerAvailable and
\* the triggers on server_listener_reservations, over all the ways to get a port.
ListenersDisjoint ==
    \A s \in Servers : \A v, w \in Reservations(s) :
        \/ v = w \/ v.port # w.port
        \/ v.net # w.net /\ "both" \notin {v.net, w.net}
        \/ v.type = "relay" /\ w.type = "client_relay" /\ relay[v.id].source = w.id
        \/ w.type = "relay" /\ v.type = "client_relay" /\ relay[w.id].source = v.id

\* What a Server is to run is what it was told of with its last version, unless a
\* handler is about to bump it, or its bump was lost with the handler, or updateProxy
\* compared with a row that another update had replaced in between.
RelaysFollowTargets ==
    \A s \in Servers :
        Content(s) # shipped[s] => s \in missed \cup UNION {Dependents(q) : q \in {request[k] : k \in Requests} \ {None}}

\* Relay r uses clients that are assigned to the user who owns it.
Held(r) ==
    /\ client[relay[r].source].user = relay[r].owner
    /\ relay[r].to.type = "proxy" =>
          relay[r].via # None /\ client[relay[r].via].user = relay[r].owner

\* A user's relay uses clients assigned to that user, and a target client that is
\* gone took its relays along, unless the relay was made while the client changed
\* hands (assignProxyClient, deleteProxyClient and createMyRelay are several
\* transactions each).
RelaysStayWithHolder == \A r \in Relays : relay[r].owner # None => Held(r) \/ r \in late
=============================================================================
