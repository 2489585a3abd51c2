--------------------------- MODULE TopologyProofs ---------------------------
(* Theorems about Topology, for every value of its constants.              *)
EXTENDS Topology, TLAPS

(***************************************************************************)
(* The inductive invariant.                                                *)
(***************************************************************************)
Doing(q, op) == q # None /\ q.op = op

\* What a handler may be in the middle of.
HandlerType(q) ==
  /\ Doing(q, "bumpProxy") => q \in [op : {"bumpProxy"}, id : ProxyIds]
  /\ Doing(q, "bumpLanding") => q \in [op : {"bumpLanding"}, id : LandingIds]
  /\ Doing(q, "bumpServer") => q \in [op : {"bumpServer"}, id : Servers]
  /\ Doing(q, "updateProxy") =>
       /\ q.id \in ProxyIds /\ <<q.field, q.value>> \in ProxyChanges
       /\ q.previous \in ProxyRow
  /\ Doing(q, "deleteProxy") =>
       q \in [op : {"deleteProxy"}, id : ProxyIds, doomed : SUBSET RelayIds, seen : SUBSET RelayIds]
  /\ Doing(q, "deleteClient") =>
       q \in [op : {"deleteClient"}, id : ClientIds, doomed : SUBSET RelayIds, seen : SUBSET RelayIds]
  /\ Doing(q, "assign") =>
       q \in [op : {"assign"}, id : ClientIds, user : Users \cup {None},
              doomed : SUBSET RelayIds, seen : SUBSET RelayIds]
  /\ Doing(q, "createRelay") =>
       /\ q \in [op : {"createRelay"}, user : Users, source : ClientIds, via : ClientIds \cup {None},
                 port : PortNos \cup {None}, to : Targets]
       /\ q.via # None => q.to = [type |-> "proxy", id |-> Of[q.via]]
       /\ q.via = None => q.to.type = "manual"

TopologyType ==
  /\ proxy \in [ProxyIds -> ProxyRow \cup {None}]
  /\ client \in [ClientIds -> ClientRow \cup {None}]
  /\ relay \in [RelayIds -> RelayRow \cup {None}]
  /\ landing \in [LandingIds -> LandingRow \cup {None}]
  /\ address \in [Servers -> Addresses \cup {None}]
  /\ published \subseteq [proxy : ProxyIds, relay : RelayIds \cup {None}]
  /\ request = [k \in Requests |-> request[k]]
  /\ shipped = [s \in Servers |-> shipped[s]]
  /\ \A k \in Requests : HandlerType(request[k])

\* What the rows of a relay refer to is there, and no id is given out twice.
RefsInv ==
  /\ Proxies \cup Clients \cup Relays \cup Landings \subseteq used
  /\ \A r \in Relays :
       /\ relay[r].to.type = "proxy" => relay[r].to.id \in Proxies
       /\ relay[r].to.type = "landing" => relay[r].to.id \in Landings
       /\ relay[r].via # None => relay[r].via \in Clients /\ relay[r].to = [type |-> "proxy", id |-> Of[relay[r].via]]
       /\ relay[r].source # None => relay[r].source \in Clients
       /\ relay[r].owner # None => relay[r].source # None
  /\ \A n \in published :
       n.relay # None => n.relay \in used /\ (n.relay \in Relays => relay[n.relay].owner = None)

\* A handler that takes a client away from its user has the user's relays on its list,
\* or they are the new user's, or were made behind the back of another such handler.
HandlersInv ==
  \A k \in Requests :
    /\ Doing(request[k], "assign") =>
         /\ request[k].seen \subseteq used
         /\ \A r \in UserRelaysOf(request[k].id) \cap request[k].seen :
              r \in request[k].doomed \cup late \/ relay[r].owner = request[k].user
    /\ Doing(request[k], "deleteClient") =>
         /\ request[k].seen \subseteq used
         /\ UserRelaysOf(request[k].id) \cap request[k].seen \subseteq request[k].doomed

TopologyInv ==
  /\ TopologyType /\ RefsInv /\ HandlersInv
  /\ ListenersDisjoint /\ RelaysFollowTargets /\ RelaysStayWithHolder

(***************************************************************************)
(* Rows.                                                                   *)
(***************************************************************************)
\* A change of a proxy names one of its fields.
LEMMA ChangeCases ==
  ASSUME NEW f, NEW v, <<f, v>> \in ProxyChanges
  PROVE  \/ f = "port" /\ v \in PortNos
         \/ f = "on" /\ v \in BOOLEAN
         \/ f = "entry" /\ v \in Addresses \cup {"auto"}
<1>1. <<f, v>>[1] = f /\ <<f, v>>[2] = v
  OBVIOUS
<1>2. CASE <<f, v>> \in {"port"} \X PortNos
  BY <1>1, <1>2
<1>3. CASE <<f, v>> \in {"on"} \X BOOLEAN
  BY <1>1, <1>3
<1>4. CASE <<f, v>> \in {"entry"} \X (Addresses \cup {"auto"})
  BY <1>1, <1>4
<1> QED BY <1>2, <1>3, <1>4 DEF ProxyChanges

\* prepareUpdate makes a row of a row.
LEMMA UpdateIsRow ==
  ASSUME NEW row \in ProxyRow, NEW f, NEW v, <<f, v>> \in ProxyChanges
  PROVE  [row EXCEPT ![f] = v] \in ProxyRow
<1>1. CASE f = "port"
  BY <1>1, ChangeCases DEF ProxyRow
<1>2. CASE f = "on"
  BY <1>2, ChangeCases DEF ProxyRow
<1>3. CASE f = "entry"
  BY <1>3, ChangeCases DEF ProxyRow
<1> QED BY <1>1, <1>2, <1>3, ChangeCases

\* A row is not the absence of one.
LEMMA RowsAreThere ==
  /\ None \notin ProxyRow /\ None \notin ClientRow /\ None \notin RelayRow /\ None \notin LandingRow
  /\ None \notin Users /\ None \notin ClientIds /\ None \notin RelayIds
  BY TopologyAssumption

(***************************************************************************)
(* Listeners.  The rows are parameters, so that what is shown here holds   *)
(* of the rows before and after a step.                                    *)
(***************************************************************************)
Listeners(px, cl, rl, s) ==
  {[type |-> "proxy", id |-> p, port |-> px[p].port, net |-> Network[p]] :
      p \in {q \in {i \in ProxyIds : px[i] # None} : Home[q] = s}}
  \cup {[type |-> "relay", id |-> r, port |-> rl[r].port, net |-> rl[r].net] :
      r \in {q \in {i \in RelayIds : rl[i] # None} : rl[q].server = s}}
  \cup UNION {{[type |-> "client_relay", id |-> c, port |-> n, net |-> "tcp"] : n \in cl[c].ports} :
      c \in {d \in {i \in ClientIds : cl[i] # None} : Home[Of[d]] = s}}

Apart(rl, v, w) ==
  \/ v = w \/ v.port # w.port
  \/ v.net # w.net /\ "both" \notin {v.net, w.net}
  \/ v.type = "relay" /\ w.type = "client_relay" /\ rl[v.id].source = w.id
  \/ w.type = "relay" /\ v.type = "client_relay" /\ rl[w.id].source = v.id

Disjoint(px, cl, rl) ==
  \A s \in Servers : \A v, w \in Listeners(px, cl, rl, s) : Apart(rl, v, w)

LEMMA DisjointIs ==
  /\ ListenersDisjoint <=> Disjoint(proxy, client, relay)
  /\ ListenersDisjoint' <=> Disjoint(proxy', client', relay')
  /\ \A s : Reservations(s) = Listeners(proxy, client, relay, s)
  BY DEF ListenersDisjoint, Disjoint, Reservations, Listeners, Apart, Proxies, Clients, Relays

\* The three kinds of listeners of a Server.
LEMMA ListenerKinds ==
  ASSUME NEW px, NEW cl, NEW rl, NEW s, NEW v
  PROVE  v \in Listeners(px, cl, rl, s) <=>
           \/ \E p \in ProxyIds : /\ px[p] # None /\ Home[p] = s
                                  /\ v = [type |-> "proxy", id |-> p, port |-> px[p].port, net |-> Network[p]]
           \/ \E r \in RelayIds : /\ rl[r] # None /\ rl[r].server = s
                                  /\ v = [type |-> "relay", id |-> r, port |-> rl[r].port, net |-> rl[r].net]
           \/ \E c \in ClientIds : /\ cl[c] # None /\ Home[Of[c]] = s
                                   /\ \E n \in cl[c].ports :
                                        v = [type |-> "client_relay", id |-> c, port |-> n, net |-> "tcp"]
  BY DEF Listeners

\* A row has one listener, or several on different ports.
LEMMA OneRowApart ==
  ASSUME NEW px, NEW cl, NEW rl, NEW s,
         NEW v \in Listeners(px, cl, rl, s), NEW w \in Listeners(px, cl, rl, s),
         v.type = w.type, v.id = w.id
  PROVE  Apart(rl, v, w)
<1>1. CASE v.type = "proxy"
  <2>1. \A x \in Listeners(px, cl, rl, s) : x.type = "proxy" =>
          x = [type |-> "proxy", id |-> x.id, port |-> px[x.id].port, net |-> Network[x.id]]
    BY ListenerKinds
  <2> QED BY <1>1, <2>1 DEF Apart
<1>2. CASE v.type = "relay"
  <2>1. \A x \in Listeners(px, cl, rl, s) : x.type = "relay" =>
          x = [type |-> "relay", id |-> x.id, port |-> rl[x.id].port, net |-> rl[x.id].net]
    BY ListenerKinds
  <2> QED BY <1>2, <2>1 DEF Apart
<1>3. CASE v.type = "client_relay"
  <2>1. \A x \in Listeners(px, cl, rl, s) : x.type = "client_relay" =>
          x = [type |-> "client_relay", id |-> x.id, port |-> x.port, net |-> "tcp"]
    BY ListenerKinds
  <2> QED BY <1>3, <2>1 DEF Apart
<1> QED BY <1>1, <1>2, <1>3, ListenerKinds

\* Listeners that are left keep apart.
LEMMA FewerListeners ==
  ASSUME NEW px, NEW cl, NEW rl, NEW px2, NEW cl2, NEW rl2,
         Disjoint(px, cl, rl),
         \A p \in ProxyIds : px2[p] # None => px[p] # None /\ px2[p].port = px[p].port,
         \A c \in ClientIds : cl2[c] # None => cl2[c].ports = {} \/ (cl[c] # None /\ cl2[c].ports = cl[c].ports),
         \A r \in RelayIds : rl2[r] # None =>
            /\ rl[r] # None /\ rl2[r].server = rl[r].server /\ rl2[r].port = rl[r].port
            /\ rl2[r].net = rl[r].net /\ rl2[r].source = rl[r].source
  PROVE  Disjoint(px2, cl2, rl2)
<1> SUFFICES ASSUME NEW s \in Servers,
                    NEW v \in Listeners(px2, cl2, rl2, s), NEW w \in Listeners(px2, cl2, rl2, s)
             PROVE  Apart(rl2, v, w)
  BY DEF Disjoint
<1>1. v \in Listeners(px, cl, rl, s)
  BY ListenerKinds
<1>2. w \in Listeners(px, cl, rl, s)
  BY ListenerKinds
<1>3. Apart(rl, v, w)
  BY <1>1, <1>2 DEF Disjoint
<1>4. v.type = "relay" => rl2[v.id].source = rl[v.id].source
  BY ListenerKinds
<1>5. w.type = "relay" => rl2[w.id].source = rl[w.id].source
  BY ListenerKinds
<1> QED BY <1>3, <1>4, <1>5 DEF Apart

\* ListenerAvailable is enough for a proxy,
LEMMA ProxyListens ==
  ASSUME NEW px, NEW cl, NEW rl, NEW p \in ProxyIds, NEW px2,
         Disjoint(px, cl, rl), px2[p] # None,
         \A q \in ProxyIds \ {p} : px2[q] = px[q],
         \A v \in Listeners(px, cl, rl, Home[p]) :
            \/ v.port # px2[p].port \/ ~NetworksOverlap(Network[p], v.net)
            \/ v.type = "proxy" /\ v.id = p
            \/ v.type = "client_relay" /\ None # None /\ v.id = None
  PROVE  Disjoint(px2, cl, rl)
<1> SUFFICES ASSUME NEW s \in Servers,
                    NEW v \in Listeners(px2, cl, rl, s), NEW w \in Listeners(px2, cl, rl, s)
             PROVE  Apart(rl, v, w)
  BY DEF Disjoint
<1> DEFINE Own(x) == x.type = "proxy" /\ x.id = p
<1>1. \A x \in Listeners(px2, cl, rl, s) : ~Own(x) => x \in Listeners(px, cl, rl, s)
  BY ListenerKinds
<1>2. \A x \in Listeners(px2, cl, rl, s) : Own(x) =>
        s = Home[p] /\ x.port = px2[p].port /\ x.net = Network[p]
  BY ListenerKinds
<1>3. CASE ~Own(v) /\ ~Own(w)
  BY <1>1, <1>3 DEF Disjoint
<1>4. CASE Own(v) /\ Own(w)
  BY <1>4, OneRowApart
<1>5. CASE Own(v) /\ ~Own(w)
  BY <1>1, <1>2, <1>5 DEF Apart, NetworksOverlap
<1>6. CASE ~Own(v) /\ Own(w)
  BY <1>1, <1>2, <1>6 DEF Apart, NetworksOverlap
<1> QED BY <1>3, <1>4, <1>5, <1>6

\* for a relay, which may use the ports of the client it starts from,
LEMMA RelayListens ==
  ASSUME NEW px, NEW cl, NEW rl, NEW r \in RelayIds, NEW rl2,
         Disjoint(px, cl, rl), rl2[r] # None,
         \A q \in RelayIds \ {r} : rl2[q] = rl[q],
         \A v \in Listeners(px, cl, rl, rl2[r].server) :
            \/ v.port # rl2[r].port \/ ~NetworksOverlap(rl2[r].net, v.net)
            \/ v.type = "relay" /\ v.id = r
            \/ v.type = "client_relay" /\ rl2[r].source # None /\ v.id = rl2[r].source
  PROVE  Disjoint(px, cl, rl2)
<1> SUFFICES ASSUME NEW s \in Servers,
                    NEW v \in Listeners(px, cl, rl2, s), NEW w \in Listeners(px, cl, rl2, s)
             PROVE  Apart(rl2, v, w)
  BY DEF Disjoint
<1> DEFINE Own(x) == x.type = "relay" /\ x.id = r
<1>1. \A x \in Listeners(px, cl, rl2, s) : ~Own(x) => x \in Listeners(px, cl, rl, s)
  BY ListenerKinds
<1>2. \A x \in Listeners(px, cl, rl2, s) : Own(x) =>
        s = rl2[r].server /\ x.port = rl2[r].port /\ x.net = rl2[r].net
  BY ListenerKinds
<1>3. CASE ~Own(v) /\ ~Own(w)
  <2>1. Apart(rl, v, w)
    BY <1>1, <1>3 DEF Disjoint
  <2>2. \A x \in Listeners(px, cl, rl2, s) : x.type = "relay" /\ ~Own(x) => rl2[x.id] = rl[x.id]
    BY ListenerKinds
  <2> QED BY <2>1, <2>2, <1>3 DEF Apart
<1>4. CASE Own(v) /\ Own(w)
  BY <1>4, OneRowApart
<1>5. CASE Own(v) /\ ~Own(w)
  BY <1>1, <1>2, <1>5 DEF Apart, NetworksOverlap
<1>6. CASE ~Own(v) /\ Own(w)
  BY <1>1, <1>2, <1>6 DEF Apart, NetworksOverlap
<1> QED BY <1>3, <1>4, <1>5, <1>6

\* and for a client ports that only it has.
LEMMA ClientReserves ==
  ASSUME NEW px, NEW cl, NEW rl, NEW c \in ClientIds, NEW cl2,
         Disjoint(px, cl, rl), cl2[c] # None,
         \A d \in ClientIds \ {c} : cl2[d] = cl[d],
         \A port \in cl2[c].ports, v \in Listeners(px, cl, rl, Home[Of[c]]) :
            v.port = port => v.type = "client_relay" /\ v.id = c
  PROVE  Disjoint(px, cl2, rl)
<1> SUFFICES ASSUME NEW s \in Servers,
                    NEW v \in Listeners(px, cl2, rl, s), NEW w \in Listeners(px, cl2, rl, s)
             PROVE  Apart(rl, v, w)
  BY DEF Disjoint
<1> DEFINE Own(x) == x.type = "client_relay" /\ x.id = c
<1>1. \A x \in Listeners(px, cl2, rl, s) : ~Own(x) => x \in Listeners(px, cl, rl, s)
  BY ListenerKinds
<1>2. \A x \in Listeners(px, cl2, rl, s) : Own(x) => s = Home[Of[c]] /\ x.port \in cl2[c].ports
  BY ListenerKinds
<1>3. CASE ~Own(v) /\ ~Own(w)
  BY <1>1, <1>3 DEF Disjoint
<1>4. CASE Own(v) /\ Own(w)
  BY <1>4, OneRowApart
<1>5. CASE Own(v) /\ ~Own(w)
  BY <1>1, <1>2, <1>5 DEF Apart
<1>6. CASE ~Own(v) /\ Own(w)
  BY <1>1, <1>2, <1>6 DEF Apart
<1> QED BY <1>3, <1>4, <1>5, <1>6
(***************************************************************************)
(* Steps.  What the handlers of relays do to the rows falls into a few     *)
(* kinds.                                                                  *)
(***************************************************************************)
\* The new relay is on the list of its owner, or the list says it is not.
Recorded(r, row) ==
  \/ late' = late \cup {r}
  \/ /\ late' = late
     /\ client[row.source].user = row.owner
     /\ row.to.type = "proxy" => row.via # None /\ client[row.via].user = row.owner

Inserted(r, row) ==
  /\ r \in RelayIds /\ row \in RelayRow
  /\ InsertRelay(r, row) /\ BumpVersion({row.server})
  /\ \/ published' = published
     \/ row.owner = None /\ \E p \in ProxyIds : published' = published \cup {[proxy |-> p, relay |-> r]}
  /\ \/ row.owner = None /\ row.source = None /\ request' = request /\ late' = late
     \/ /\ row.owner # None /\ row.source # None /\ Recorded(r, row)
        /\ \E k \in Requests : request[k].op = "createRelay" /\ request[k] # None /\ Finish(k)

\* A relay with an owner keeps leading to an address of the owner's choice.
Changed(r, row) ==
  /\ r \in RelayIds /\ relay[r] # None /\ row \in RelayRow
  /\ row.server = relay[r].server /\ row.owner = relay[r].owner /\ row.source = relay[r].source
  /\ row.owner # None => relay[r].to.type = "manual" /\ row.to.type = "manual" /\ row.via = None
  /\ TargetExists(row.to, row.via)
  /\ ListenerAvailable(row.server, row.port, row.net, "relay", r, row.source)
  /\ relay' = [relay EXCEPT ![r] = row]
  /\ UNCHANGED <<proxy, client, landing, published, address, used, request, late>>
  /\ \/ BumpVersion({row.server})
     \/ /\ BumpVersion({})
        /\ row.port = relay[r].port /\ row.net = relay[r].net /\ row.to = relay[r].to /\ row.on = relay[r].on

Removed(r) ==
  /\ r \in RelayIds /\ relay[r] # None
  /\ relay' = [relay EXCEPT ![r] = None]
  /\ published' \subseteq published
  /\ UNCHANGED <<proxy, client, landing, address, used>>
  /\ BumpVersion({relay[r].server})
  /\ \/ request' = request
     \/ \E k \in Requests : /\ request[k] # None /\ request[k].op \in {"deleteProxy", "deleteClient", "assign"}
                            /\ request' = [request EXCEPT ![k].doomed = @ \ {r}]
  /\ late' \in {late, late \ {r}}

\* A node is published or withdrawn that has no relay.
Listed ==
  /\ UNCHANGED <<proxy, client, relay, landing, address, used, request, late>>
  /\ \/ published' \subseteq published
     \/ \E p \in ProxyIds : published' = published \cup {[proxy |-> p, relay |-> None]}
  /\ \E S : shipped' = [s \in Servers |-> IF s \in S THEN Content(s)' ELSE shipped[s]] /\ missed' = missed \ S
  /\ shipped' = [s \in Servers |-> shipped'[s]]

\* A transaction that only reads rows.
ReadStep ==
  /\ UNCHANGED <<rows, shipped, missed, late>>
  /\ \E k \in Requests :
       \/ \E p \in ProxyIds, ch \in ProxyChanges : UpdateProxyRead(k, p, ch[1], ch[2])
       \/ \E p \in ProxyIds : DeleteProxyRead(k, p)
       \/ \E c \in ClientIds, u \in Users \cup {None} : AssignClientRead(k, c, u)
       \/ \E c \in ClientIds : DeleteClientRead(k, c)
       \/ \E u \in Users, c \in ClientIds, v \in ClientIds \cup {None}, h \in Addresses : CreateMyRelayRead(k, u, c, v, h)
       \/ PickRelayPort(k) \/ RetryRelayPort(k)

EndStep == \E k \in Requests : BumpDependencies(k) \/ Abandon(k)

ProxyStep ==
  \/ \E p \in ProxyIds, c \in ClientIds, row \in ProxyRow : InsertProxy(p, c, row)
  \/ \E k \in Requests : UpdateProxy(k) \/ DeleteProxy(k)

ClientStep ==
  \/ \E c \in ClientIds : CreateClient(c)
  \/ \E c \in ClientIds, u \in Users, n \in RelayPortCounts : CreateAssignedClient(c, u, n)
  \/ \E c \in ClientIds, n \in RelayPortCounts : UpdateClientRelayPortCount(c, n)
  \/ \E k \in Requests : AssignClient(k) \/ DeleteClient(k)

RelayStep ==
  \/ \E r \in RelayIds, row \in RelayRow : Inserted(r, row) \/ Changed(r, row)
  \/ \E r \in RelayIds : Removed(r)
  \/ Listed

EndpointStep ==
  \/ \E l \in LandingIds, row \in LandingRow : CreateLanding(l, row)
  \/ \E k \in Requests, l \in LandingIds, row \in LandingRow : UpdateLanding(k, l, row)
  \/ \E l \in LandingIds : DeleteLanding(l)
  \/ \E k \in Requests, s \in Servers, a \in Addresses \cup {None} : ReportSystemInfo(k, s, a)

\* createTx with a row of an administrator,
LEMMA CreateRelayInserts ==
  ASSUME NEW r \in RelayIds, NEW s \in Servers, NEW n \in PortNos, NEW net \in {"tcp", "udp", "both"},
         NEW to \in Targets, NEW via \in ClientIds \cup {None}, CreateRelay(r, s, n, net, to, via)
  PROVE  RelayStep
<1> DEFINE row == [server |-> s, port |-> n, net |-> net, to |-> to, on |-> TRUE,
                   owner |-> None, source |-> None, via |-> via]
<1>1. row \in RelayRow
  BY DEF RelayRow
<1>2. Inserted(r, row)
  BY <1>1 DEF CreateRelay, Inserted
<1> QED BY <1>1, <1>2 DEF RelayStep

\* of a published node,
LEMMA PublishInserts ==
  ASSUME NEW p \in ProxyIds, NEW r \in RelayIds, NEW s \in Servers, NEW port \in PortNos \cup {None},
         CreatePublishedNode(p, r, s, port)
  PROVE  RelayStep
<1> DEFINE row(n) == [server |-> s, port |-> n, net |-> "tcp", to |-> [type |-> "proxy", id |-> p],
                      on |-> TRUE, owner |-> None, source |-> None, via |-> None]
<1>1. PICK n \in PortNos : InsertRelay(r, row(n))
  <2>1. RandomUserRelayPorts(s) \subseteq PortNos
    BY DEF RandomUserRelayPorts
  <2> QED BY <2>1 DEF CreatePublishedNode
<1>2. row(n) \in RelayRow
  BY DEF RelayRow, Targets
<1>3. Inserted(r, row(n))
  BY <1>1, <1>2 DEF CreatePublishedNode, Inserted
<1> QED BY <1>2, <1>3 DEF RelayStep

\* or of a user.
LEMMA CreateUserInserts ==
  ASSUME TopologyType, NEW k \in Requests, NEW r \in RelayIds, CreateUserRelay(k, r)
  PROVE  RelayStep
<1> DEFINE q == request[k]
           s == Home[Of[q.source]]
           row == [server |-> s, port |-> q.port, net |-> "tcp", to |-> q.to, on |-> TRUE,
                   owner |-> q.user, source |-> q.source, via |-> q.via]
<1>1. /\ q.user \in Users /\ q.source \in ClientIds /\ q.via \in ClientIds \cup {None}
      /\ q.port \in PortNos /\ q.to \in Targets /\ (q.via = None => q.to.type = "manual")
  BY DEF CreateUserRelay, At, TopologyType, HandlerType, Doing
<1>2. s \in Servers
  BY <1>1, TopologyAssumption
<1>3. row \in RelayRow
  BY <1>1, <1>2 DEF RelayRow
<1>4. InsertRelay(r, row) /\ BumpVersion({s}) /\ published' = published /\ Finish(k)
  BY DEF CreateUserRelay
<1>5. Recorded(r, row)
  <2>1. CASE \A c \in {q.source, q.via} \ {None} : client[c].user = q.user
    <3>1. late' = late
      BY <2>1 DEF CreateUserRelay
    <3>2. q.source # None
      BY <1>1, RowsAreThere
    <3> QED BY <1>1, <2>1, <3>1, <3>2 DEF Recorded
  <2>2. CASE ~(\A c \in {q.source, q.via} \ {None} : client[c].user = q.user)
    BY <2>2 DEF CreateUserRelay, Recorded
  <2> QED BY <2>1, <2>2
<1>6. row.owner # None /\ row.source # None
  BY <1>1, RowsAreThere
<1>7. Inserted(r, row)
  BY <1>3, <1>4, <1>5, <1>6 DEF Inserted, CreateUserRelay, At
<1> QED BY <1>3, <1>7 DEF RelayStep
\* The fields of a relay that requests change.
RelayChanges == ({"to"} \X Targets) \cup ({"port"} \X PortNos) \cup ({"net"} \X {"tcp", "udp", "both"})
                \cup ({"on"} \X BOOLEAN)

LEMMA RelayChangeCases ==
  ASSUME NEW f, NEW v, <<f, v>> \in RelayChanges
  PROVE  \/ f = "to" /\ v \in Targets
         \/ f = "port" /\ v \in PortNos
         \/ f = "net" /\ v \in {"tcp", "udp", "both"}
         \/ f = "on" /\ v \in BOOLEAN
<1>1. <<f, v>>[1] = f /\ <<f, v>>[2] = v
  OBVIOUS
<1>2. CASE <<f, v>> \in {"to"} \X Targets
  BY <1>1, <1>2
<1>3. CASE <<f, v>> \in {"port"} \X PortNos
  BY <1>1, <1>3
<1>4. CASE <<f, v>> \in {"net"} \X {"tcp", "udp", "both"}
  BY <1>1, <1>4
<1>5. CASE <<f, v>> \in {"on"} \X BOOLEAN
  BY <1>1, <1>5
<1> QED BY <1>2, <1>3, <1>4, <1>5 DEF RelayChanges

\* updateTx makes a row of a row, on the same Server and for the same owner.
Reworked(row, f, v, via) == [row EXCEPT ![f] = v, !.via = via]

LEMMA UpdatedIsRow ==
  ASSUME NEW row \in RelayRow, NEW f, NEW v, <<f, v>> \in RelayChanges, NEW via \in ClientIds \cup {None}
  PROVE  LET new == Reworked(row, f, v, via)
         IN  /\ new \in RelayRow
             /\ new.server = row.server /\ new.owner = row.owner /\ new.source = row.source
             /\ new.via = via /\ new.to = (IF f = "to" THEN v ELSE row.to)
             /\ v = row[f] => /\ new.port = row.port /\ new.net = row.net
                              /\ new.to = row.to /\ new.on = row.on
<1>1. CASE f = "to"
  BY <1>1, RelayChangeCases DEF RelayRow, Reworked
<1>2. CASE f = "port"
  BY <1>2, RelayChangeCases DEF RelayRow, Reworked
<1>3. CASE f = "net"
  BY <1>3, RelayChangeCases DEF RelayRow, Reworked
<1>4. CASE f = "on"
  BY <1>4, RelayChangeCases DEF RelayRow, Reworked
<1> QED BY <1>1, <1>2, <1>3, <1>4, RelayChangeCases

LEMMA UpdateRelayChanges ==
  ASSUME TopologyType, NEW r \in RelayIds, NEW f, NEW v, <<f, v>> \in RelayChanges,
         NEW via \in ClientIds \cup {None}, UpdateRelay(r, f, v, via)
  PROVE  RelayStep
<1> DEFINE row == Reworked(relay[r], f, v, via)
<1>1. relay[r] \in RelayRow /\ relay[r] # None
  BY DEF UpdateRelay, TopologyType
<1>2. /\ row \in RelayRow
      /\ row.server = relay[r].server /\ row.owner = relay[r].owner /\ row.source = relay[r].source
  BY <1>1, UpdatedIsRow
<1>3. /\ TargetExists(row.to, row.via)
      /\ ListenerAvailable(row.server, row.port, row.net, "relay", r, row.source)
      /\ relay' = [relay EXCEPT ![r] = row]
      /\ UNCHANGED <<proxy, client, landing, address, used, published, request, late>>
      /\ BumpVersion({relay[r].server}) /\ relay[r].owner = None
  BY DEF UpdateRelay, ChangeRelay, UpdatedRelay, Reworked
<1>4. Changed(r, row)
  BY <1>1, <1>2, <1>3 DEF Changed
<1> QED BY <1>2, <1>4 DEF RelayStep

LEMMA UpdateMyRelayChanges ==
  ASSUME TopologyType, NEW r \in RelayIds, NEW host \in Addresses, UpdateMyRelay(r, host)
  PROVE  RelayStep
<1> DEFINE to == [type |-> "manual", host |-> host]
           row == Reworked(relay[r], "to", to, None)
<1>1. relay[r] \in RelayRow /\ relay[r] # None
  BY DEF UpdateMyRelay, TopologyType
<1>2. to \in Targets
  BY DEF Targets
<1>3. <<"to", to>> \in RelayChanges
  BY <1>2 DEF RelayChanges
<1>4. /\ row \in RelayRow /\ row.via = None /\ row.to.type = "manual"
      /\ row.server = relay[r].server /\ row.owner = relay[r].owner /\ row.source = relay[r].source
  BY <1>1, <1>3, UpdatedIsRow
<1>5. /\ TargetExists(row.to, row.via) /\ relay[r].to.type = "manual"
      /\ ListenerAvailable(row.server, row.port, row.net, "relay", r, row.source)
      /\ relay' = [relay EXCEPT ![r] = row]
      /\ UNCHANGED <<proxy, client, landing, address, used, published, request, late>>
      /\ BumpVersion({relay[r].server})
  BY DEF UpdateMyRelay, ChangeRelay, UpdatedRelay, Reworked
<1>6. Changed(r, row)
  BY <1>1, <1>4, <1>5 DEF Changed
<1> QED BY <1>4, <1>6 DEF RelayStep

\* A published node's relay has no owner.
LEMMA UpdatePublishedChanges ==
  ASSUME TopologyType, RefsInv, NEW n \in published, NEW f, NEW v, <<f, v>> \in RelayChanges,
         UpdatePublishedNode(n, f, v)
  PROVE  RelayStep
<1> DEFINE r == n.relay
           row == Reworked(relay[r], f, v, None)
<1>0. r \in RelayIds
  BY DEF UpdatePublishedNode, TopologyType
<1>1. relay[r] \in RelayRow /\ relay[r] # None /\ relay[r].owner = None
  <2>1. relay[r] # None /\ r # None
    BY DEF UpdatePublishedNode, ChangeRelay
  <2> QED BY <1>0, <2>1 DEF TopologyType, RefsInv, Relays
<1>2. /\ row \in RelayRow
      /\ row.server = relay[r].server /\ row.owner = relay[r].owner /\ row.source = relay[r].source
      /\ v = relay[r][f] => /\ row.port = relay[r].port /\ row.net = relay[r].net
                            /\ row.to = relay[r].to /\ row.on = relay[r].on
  BY <1>1, UpdatedIsRow
<1>3. /\ TargetExists(row.to, row.via)
      /\ ListenerAvailable(row.server, row.port, row.net, "relay", r, row.source)
      /\ relay' = [relay EXCEPT ![r] = row]
      /\ UNCHANGED <<proxy, client, landing, address, used, published, request, late>>
      /\ BumpVersion(IF v = relay[r][f] THEN {} ELSE {relay[r].server})
  BY DEF UpdatePublishedNode, ChangeRelay, UpdatedRelay, Reworked
<1>4. Changed(r, row)
  <2>1. CASE v = relay[r][f]
    BY <1>0, <1>1, <1>2, <1>3, <2>1 DEF Changed
  <2>2. CASE v # relay[r][f]
    BY <1>0, <1>1, <1>2, <1>3, <2>2 DEF Changed
  <2> QED BY <2>1, <2>2
<1> QED BY <1>0, <1>2, <1>4 DEF RelayStep

\* The ways to delete a relay.
LEMMA DeleteRemoves ==
  ASSUME NEW r \in RelayIds, DeleteRelay(r) \/ DeleteOwnedRelay(r)
  PROVE  RelayStep
<1>1. Removed(r)
  BY DEF DeleteRelay, DeleteOwnedRelay, RemoveRelay, Removed
<1> QED BY <1>1 DEF RelayStep

LEMMA SweepRemoves ==
  ASSUME TopologyType, NEW k \in Requests, DeleteDoomedRelay(k)
  PROVE  RelayStep
<1>1. PICK r \in request[k].doomed :
        /\ RemoveRelay(r)
        /\ request' = [request EXCEPT ![k].doomed = @ \ {r}]
        /\ late' = late \ {r} /\ BumpVersion({relay[r].server})
  BY DEF DeleteDoomedRelay
<1>2. r \in RelayIds
  BY <1>1 DEF DeleteDoomedRelay, TopologyType, HandlerType, Doing
<1>3. Removed(r)
  BY <1>1, <1>2 DEF DeleteDoomedRelay, RemoveRelay, Removed
<1> QED BY <1>2, <1>3 DEF RelayStep

LEMMA PublishedSteps ==
  ASSUME TopologyType, (\E p \in ProxyIds : PublishDirect(p)) \/ (\E n \in published : DeletePublishedNode(n))
  PROVE  RelayStep
<1>1. ASSUME NEW p \in ProxyIds, PublishDirect(p) PROVE Listed
  <2>1. shipped' = [s \in Servers |-> IF s \in {} THEN Content(s)' ELSE shipped[s]]
    BY <1>1 DEF PublishDirect, TopologyType
  <2>2. missed' = missed \ {}
    BY <1>1 DEF PublishDirect
  <2>3. shipped' = [s \in Servers |-> shipped'[s]]
    BY <1>1 DEF PublishDirect, TopologyType
  <2> QED BY <1>1, <2>1, <2>2, <2>3 DEF PublishDirect, Listed
<1>2. ASSUME NEW n \in published, DeletePublishedNode(n), n.relay = None \/ relay[n.relay] = None PROVE Listed
  <2> DEFINE S == IF n.relay = None THEN {} ELSE {relay[n.relay].server}
  <2>1. relay' = relay
    <3>1. n.relay \in RelayIds \cup {None}
      BY DEF TopologyType
    <3> QED BY <1>2, <3>1 DEF DeletePublishedNode, TopologyType
  <2>2. /\ shipped' = [s \in Servers |-> IF s \in S THEN Content(s)' ELSE shipped[s]]
        /\ missed' = missed \ S
    BY <1>2 DEF DeletePublishedNode, BumpVersion
  <2>3. shipped' = [s \in Servers |-> shipped'[s]]
    BY <2>2
  <2> QED BY <1>2, <2>1, <2>2, <2>3 DEF DeletePublishedNode, Listed
<1>3. ASSUME NEW n \in published, DeletePublishedNode(n), n.relay # None, relay[n.relay] # None
      PROVE  n.relay \in RelayIds /\ Removed(n.relay)
  <2>1. n.relay \in RelayIds
    BY <1>3 DEF TopologyType
  <2> QED BY <1>3, <2>1 DEF DeletePublishedNode, Removed
<1> QED BY <1>1, <1>2, <1>3 DEF RelayStep

LEMMA NextIsStep ==
  ASSUME TopologyType, RefsInv, TopologyNext
  PROVE  ReadStep \/ EndStep \/ ProxyStep \/ ClientStep \/ RelayStep \/ EndpointStep
<1>1. CASE EndpointNext
  <2>1. ASSUME NEW k \in Requests, NEW p \in ProxyIds, NEW ch \in ProxyChanges, UpdateProxyRead(k, p, ch[1], ch[2])
        PROVE  ReadStep
    BY <2>1 DEF ReadStep, UpdateProxyRead
  <2>2. ASSUME NEW k \in Requests, UpdateProxy(k) \/ BumpDependencies(k) \/ Abandon(k)
        PROVE  ProxyStep \/ EndStep
    BY <2>2 DEF ProxyStep, EndStep
  <2>3. ASSUME NEW l \in LandingIds, NEW h \in Addresses, NEW b \in BOOLEAN
        PROVE  [host |-> h, public |-> b] \in LandingRow
    BY DEF LandingRow
  <2>4. ASSUME NEW r \in Relays, NEW b \in BOOLEAN, UpdateRelay(r, "on", b, relay[r].via)
        PROVE  RelayStep
    <3>1. r \in RelayIds /\ relay[r].via \in ClientIds \cup {None}
      BY DEF Relays, TopologyType, RelayRow
    <3>2. <<"on", b>> \in RelayChanges
      BY DEF RelayChanges
    <3> QED BY <2>4, <3>1, <3>2, UpdateRelayChanges
  <2>5. ASSUME NEW r \in RelayIds, NEW to \in Targets, NEW via \in ClientIds \cup {None}, UpdateRelay(r, "to", to, via)
        PROVE  RelayStep
    <3>1. <<"to", to>> \in RelayChanges
      BY DEF RelayChanges
    <3> QED BY <2>5, <3>1, UpdateRelayChanges
  <2>6. ASSUME NEW l \in LandingIds, NEW h \in Addresses, NEW b \in BOOLEAN, CreateLanding(l, [host |-> h, public |-> b])
        PROVE  EndpointStep
    BY <2>3, <2>6 DEF EndpointStep
  <2>7. ASSUME NEW k \in Requests, NEW l \in LandingIds, NEW h \in Addresses, NEW b \in BOOLEAN,
               UpdateLanding(k, l, [host |-> h, public |-> b])
        PROVE  EndpointStep
    BY <2>3, <2>7 DEF EndpointStep
  <2>8. ASSUME NEW r \in RelayIds, NEW s \in Servers, NEW n \in PortNos, NEW to \in Targets,
               NEW via \in ClientIds \cup {None}, CreateRelay(r, s, n, "tcp", to, via)
        PROVE  RelayStep
    BY <2>8, CreateRelayInserts
  <2>9. ASSUME NEW k \in Requests, NEW s \in Servers, NEW a \in Addresses \cup {None}, ReportSystemInfo(k, s, a)
        PROVE  EndpointStep
    BY <2>9 DEF EndpointStep
  <2>10. ASSUME NEW l \in LandingIds, DeleteLanding(l) PROVE EndpointStep
    BY <2>10 DEF EndpointStep
  <2>11. ASSUME NEW r \in RelayIds, DeleteRelay(r) PROVE RelayStep
    BY <2>11, DeleteRemoves
  <2> QED BY <1>1, <2>1, <2>2, <2>4, <2>5, <2>6, <2>7, <2>8, <2>9, <2>10, <2>11 DEF EndpointNext
<1>2. CASE HolderNext
  <2>1. ASSUME NEW k \in Requests, NEW c \in ClientIds, NEW u \in Users \cup {None}, AssignClientRead(k, c, u)
        PROVE  ReadStep
    BY <2>1 DEF ReadStep, AssignClientRead
  <2>2. ASSUME NEW k \in Requests, NEW c \in ClientIds, DeleteClientRead(k, c) PROVE ReadStep
    BY <2>2 DEF ReadStep, DeleteClientRead
  <2>3. ASSUME NEW k \in Requests, NEW p \in ProxyIds, DeleteProxyRead(k, p) PROVE ReadStep
    BY <2>3 DEF ReadStep, DeleteProxyRead
  <2>4. ASSUME NEW k \in Requests, NEW u \in Users, NEW c \in ClientIds, NEW v \in ClientIds \cup {None},
               NEW h \in Addresses, CreateMyRelayRead(k, u, c, v, h)
        PROVE  ReadStep
    BY <2>4 DEF ReadStep, CreateMyRelayRead
  <2>5. ASSUME NEW k \in Requests, PickRelayPort(k) \/ RetryRelayPort(k) PROVE ReadStep
    BY <2>5 DEF ReadStep, PickRelayPort, RetryRelayPort
  <2>6. ASSUME NEW k \in Requests, AssignClient(k) \/ DeleteClient(k) PROVE ClientStep
    BY <2>6 DEF ClientStep
  <2>7. ASSUME NEW k \in Requests, DeleteProxy(k) \/ Abandon(k) PROVE ProxyStep \/ EndStep
    BY <2>7 DEF ProxyStep, EndStep
  <2>8. ASSUME NEW c \in ClientIds, CreateClient(c) PROVE ClientStep
    BY <2>8 DEF ClientStep
  <2>9. ASSUME NEW c \in ClientIds, NEW u \in Users, NEW n \in RelayPortCounts, CreateAssignedClient(c, u, n)
        PROVE  ClientStep
    BY <2>9 DEF ClientStep
  <2>10. ASSUME NEW r \in RelayIds, DeleteOwnedRelay(r) PROVE RelayStep
    BY <2>10, DeleteRemoves
  <2>11. ASSUME NEW r \in RelayIds, NEW h \in Addresses, UpdateMyRelay(r, h) PROVE RelayStep
    BY <2>11, UpdateMyRelayChanges
  <2> QED BY <1>2, <2>1, <2>2, <2>3, <2>4, <2>5, <2>6, <2>7, <2>8, <2>9, <2>10, <2>11,
             SweepRemoves, CreateUserInserts DEF HolderNext
<1>3. CASE ListenerNext
  <2>1. ASSUME NEW p \in ProxyIds, NEW c \in ClientIds, NEW row \in ProxyRows, CreateProxy(p, c, row)
        PROVE  ProxyStep
    <3>1. row \in ProxyRow
      BY DEF ProxyRow, ProxyRows
    <3> QED BY <2>1, <3>1 DEF ProxyStep, CreateProxy
  <2>2. ASSUME NEW k \in Requests, NEW p \in ProxyIds, NEW n \in PortNos, UpdateProxyRead(k, p, "port", n)
        PROVE  ReadStep
    <3>1. <<"port", n>> \in ProxyChanges /\ <<"port", n>>[1] = "port" /\ <<"port", n>>[2] = n
      BY DEF ProxyChanges
    <3>2. \E ch \in ProxyChanges : UpdateProxyRead(k, p, ch[1], ch[2])
      BY <2>2, <3>1
    <3> QED BY <2>2, <3>2 DEF ReadStep, UpdateProxyRead
  <2>3. ASSUME NEW k \in Requests, UpdateProxy(k) \/ BumpDependencies(k) \/ Abandon(k)
        PROVE  ProxyStep \/ EndStep
    BY <2>3 DEF ProxyStep, EndStep
  <2>4. ASSUME NEW c \in ClientIds, NEW n \in RelayPortCounts,
               UpdateClientRelayPortCount(c, n) \/ (\E u \in Users : CreateAssignedClient(c, u, n))
        PROVE  ClientStep
    BY <2>4 DEF ClientStep
  <2>5. ASSUME NEW r \in RelayIds, NEW s \in Servers, NEW n \in PortNos, NEW net \in {"tcp", "udp", "both"},
               NEW h \in Addresses, CreateRelay(r, s, n, net, [type |-> "manual", host |-> h], None)
        PROVE  RelayStep
    <3>1. [type |-> "manual", host |-> h] \in Targets
      BY DEF Targets
    <3> QED BY <2>5, <3>1, CreateRelayInserts
  <2>6. ASSUME NEW r \in Relays, NEW n \in PortNos, UpdateRelay(r, "port", n, relay[r].via)
        PROVE  RelayStep
    <3>1. r \in RelayIds /\ relay[r].via \in ClientIds \cup {None}
      BY DEF Relays, TopologyType, RelayRow
    <3>2. <<"port", n>> \in RelayChanges
      BY DEF RelayChanges
    <3> QED BY <2>6, <3>1, <3>2, UpdateRelayChanges
  <2>7. ASSUME NEW r \in Relays, NEW net \in {"tcp", "udp", "both"}, UpdateRelay(r, "net", net, relay[r].via)
        PROVE  RelayStep
    <3>1. r \in RelayIds /\ relay[r].via \in ClientIds \cup {None}
      BY DEF Relays, TopologyType, RelayRow
    <3>2. <<"net", net>> \in RelayChanges
      BY DEF RelayChanges
    <3> QED BY <2>7, <3>1, <3>2, UpdateRelayChanges
  <2>8. ASSUME NEW k \in Requests, NEW u \in Users, NEW c \in ClientIds, NEW h \in Addresses,
               CreateMyRelayRead(k, u, c, None, h)
        PROVE  ReadStep
    BY <2>8 DEF ReadStep, CreateMyRelayRead
  <2>9. ASSUME NEW k \in Requests, PickRelayPort(k) \/ RetryRelayPort(k) PROVE ReadStep
    BY <2>9 DEF ReadStep, PickRelayPort, RetryRelayPort
  <2>10. ASSUME NEW n \in published, NEW port \in PortNos, UpdatePublishedNode(n, "port", port)
         PROVE  RelayStep
    <3>1. <<"port", port>> \in RelayChanges
      BY DEF RelayChanges
    <3> QED BY <2>10, <3>1, UpdatePublishedChanges
  <2>11. ASSUME NEW n \in published, NEW b \in BOOLEAN, UpdatePublishedNode(n, "on", b)
         PROVE  RelayStep
    <3>1. <<"on", b>> \in RelayChanges
      BY DEF RelayChanges
    <3> QED BY <2>11, <3>1, UpdatePublishedChanges
  <2> QED BY <1>3, <2>1, <2>2, <2>3, <2>4, <2>5, <2>6, <2>7, <2>8, <2>9, <2>10, <2>11,
             CreateUserInserts, PublishInserts, PublishedSteps DEF ListenerNext
<1> QED BY <1>1, <1>2, <1>3 DEF TopologyNext
(***************************************************************************)
(* Types.                                                                  *)
(***************************************************************************)
HandlersTyped == request = [k \in Requests |-> request[k]] /\ \A k \in Requests : HandlerType(request[k])

\* A handler that goes on, or ends.
LEMMA HandlerMoves ==
  ASSUME TopologyType, NEW k \in Requests, NEW q, HandlerType(q),
         request' = [request EXCEPT ![k] = q]
  PROVE  HandlersTyped'
  BY DEF TopologyType, HandlersTyped

LEMMA NoneIsTyped == HandlerType(None)
  BY DEF HandlerType, Doing

LEMMA HandlerEnds ==
  ASSUME TopologyType, NEW k \in Requests, Finish(k)
  PROVE  HandlersTyped'
  BY HandlerMoves, NoneIsTyped DEF Finish

LEMMA HandlersStay ==
  ASSUME TopologyType, request' = request
  PROVE  HandlersTyped'
  BY DEF TopologyType, HandlersTyped

LEMMA ReadTyped ==
  ASSUME TopologyType, ReadStep
  PROVE  TopologyType'
<1>1. PICK k \in Requests :
       \/ \E p \in ProxyIds, ch \in ProxyChanges : UpdateProxyRead(k, p, ch[1], ch[2])
       \/ \E p \in ProxyIds : DeleteProxyRead(k, p)
       \/ \E c \in ClientIds, u \in Users \cup {None} : AssignClientRead(k, c, u)
       \/ \E c \in ClientIds : DeleteClientRead(k, c)
       \/ \E u \in Users, c \in ClientIds, v \in ClientIds \cup {None}, h \in Addresses : CreateMyRelayRead(k, u, c, v, h)
       \/ PickRelayPort(k) \/ RetryRelayPort(k)
  BY DEF ReadStep
<1>a. \A c : UserRelaysOf(c) \subseteq RelayIds
  BY DEF UserRelaysOf, Relays
<1>2. HandlersTyped'
  <2>1. ASSUME NEW p \in ProxyIds, NEW ch \in ProxyChanges, UpdateProxyRead(k, p, ch[1], ch[2])
        PROVE  HandlersTyped'
    <3> DEFINE q == [op |-> "updateProxy", id |-> p, field |-> ch[1], value |-> ch[2], previous |-> proxy[p]]
    <3>1. <<ch[1], ch[2]>> \in ProxyChanges
      <4>1. ch = <<ch[1], ch[2]>>
        BY DEF ProxyChanges
      <4> QED BY <4>1
    <3>2. proxy[p] \in ProxyRow
      BY <2>1 DEF UpdateProxyRead, TopologyType
    <3>3. HandlerType(q)
      BY <3>1, <3>2 DEF HandlerType, Doing
    <3>4. request' = [request EXCEPT ![k] = q]
      BY <2>1 DEF UpdateProxyRead, Begin
    <3> QED BY <3>3, <3>4, HandlerMoves
  <2>2. ASSUME NEW p \in ProxyIds, DeleteProxyRead(k, p)
        PROVE  HandlersTyped'
    <3> DEFINE doomed == UNION {UserRelaysOf(c) : c \in {d \in Clients : Of[d] = p}}
               q == [op |-> "deleteProxy", id |-> p, doomed |-> doomed, seen |-> used \cap RelayIds]
    <3>1. doomed \subseteq RelayIds
      BY <1>a
    <3>2. HandlerType(q)
      BY <3>1 DEF HandlerType, Doing
    <3>3. request' = [request EXCEPT ![k] = q]
      BY <2>2 DEF DeleteProxyRead, Begin
    <3> QED BY <3>2, <3>3, HandlerMoves
  <2>3. ASSUME NEW c \in ClientIds, NEW u \in Users \cup {None}, AssignClientRead(k, c, u)
        PROVE  HandlersTyped'
    <3> DEFINE doomed == IF Reassigned(c, u) THEN UserRelaysOf(c) ELSE {}
               q == [op |-> "assign", id |-> c, user |-> u, seen |-> used \cap RelayIds, doomed |-> doomed]
    <3>1. doomed \subseteq RelayIds
      BY <1>a
    <3>2. HandlerType(q)
      BY <3>1 DEF HandlerType, Doing
    <3>3. request' = [request EXCEPT ![k] = q]
      BY <2>3 DEF AssignClientRead, Begin
    <3> QED BY <3>2, <3>3, HandlerMoves
  <2>4. ASSUME NEW c \in ClientIds, DeleteClientRead(k, c)
        PROVE  HandlersTyped'
    <3> DEFINE q == [op |-> "deleteClient", id |-> c, doomed |-> UserRelaysOf(c), seen |-> used \cap RelayIds]
    <3>2. HandlerType(q)
      BY <1>a DEF HandlerType, Doing
    <3>3. request' = [request EXCEPT ![k] = q]
      BY <2>4 DEF DeleteClientRead, Begin
    <3> QED BY <3>2, <3>3, HandlerMoves
  <2>5. ASSUME NEW u \in Users, NEW c \in ClientIds, NEW v \in ClientIds \cup {None}, NEW h \in Addresses,
               CreateMyRelayRead(k, u, c, v, h)
        PROVE  HandlersTyped'
    <3> DEFINE to == IF v # None THEN [type |-> "proxy", id |-> Of[v]] ELSE [type |-> "manual", host |-> h]
               q == [op |-> "createRelay", user |-> u, source |-> c, via |-> v, port |-> None, to |-> to]
    <3>1. to \in Targets
      <4>1. CASE v # None
        BY <4>1, TopologyAssumption DEF Targets
      <4>2. CASE v = None
        BY <4>2 DEF Targets
      <4> QED BY <4>1, <4>2
    <3>2. HandlerType(q)
      <4>1. /\ v # None => to = [type |-> "proxy", id |-> Of[v]]
            /\ v = None => to.type = "manual"
        OBVIOUS
      <4> HIDE DEF to
      <4> QED BY <3>1, <4>1 DEF HandlerType, Doing
    <3>3. request' = [request EXCEPT ![k] = q]
      BY <2>5 DEF CreateMyRelayRead, Begin
    <3> QED BY <3>2, <3>3, HandlerMoves
  <2>6. ASSUME PickRelayPort(k) \/ RetryRelayPort(k)
        PROVE  HandlersTyped'
    <3>1. PICK port \in PortNos \cup {None} : request' = [request EXCEPT ![k].port = port]
      <4>1. ASSUME PickRelayPort(k) PROVE \E port \in PortNos : request' = [request EXCEPT ![k].port = port]
        <5>1. request[k].source \in ClientIds
          BY <4>1 DEF PickRelayPort, At, TopologyType, HandlerType, Doing
        <5>2. PortsLeft(request[k].source) \subseteq PortNos
          BY <5>1 DEF PortsLeft, TopologyType, ClientRow
        <5> QED BY <4>1, <5>2 DEF PickRelayPort
      <4> QED BY <2>6, <4>1 DEF RetryRelayPort
    <3> DEFINE q == [request[k] EXCEPT !.port = port]
    <3>2. Doing(request[k], "createRelay")
      BY <2>6 DEF PickRelayPort, RetryRelayPort, At, Doing
    <3>3. HandlerType(request[k])
      BY DEF TopologyType
    <3>4. /\ q \in [op : {"createRelay"}, user : Users, source : ClientIds, via : ClientIds \cup {None},
                    port : PortNos \cup {None}, to : Targets]
          /\ q.op = "createRelay" /\ q.via = request[k].via /\ q.to = request[k].to
      BY <3>2, <3>3 DEF HandlerType
    <3>5. HandlerType(q)
      BY <3>2, <3>3, <3>4 DEF HandlerType, Doing
    <3>6. request' = [request EXCEPT ![k] = q]
      BY <3>1
    <3> QED BY <3>5, <3>6, HandlerMoves
  <2> QED BY <1>1, <2>1, <2>2, <2>3, <2>4, <2>5, <2>6
<1> QED BY <1>2 DEF ReadStep, rows, TopologyType, HandlersTyped
LEMMA BumpTyped ==
  ASSUME NEW S, BumpVersion(S)
  PROVE  shipped' = [s \in Servers |-> shipped'[s]]
  BY DEF BumpVersion

LEMMA EndTyped ==
  ASSUME TopologyType, EndStep
  PROVE  TopologyType'
<1> PICK k \in Requests : BumpDependencies(k) \/ Abandon(k)
  BY DEF EndStep
<1>1. HandlersTyped'
  BY HandlerEnds DEF BumpDependencies, Abandon
<1>2. shipped' = [s \in Servers |-> shipped'[s]]
  BY BumpTyped DEF BumpDependencies, Abandon, TopologyType
<1> QED BY <1>1, <1>2 DEF BumpDependencies, Abandon, rows, TopologyType, HandlersTyped

\* The row that updateProxy writes.
LEMMA UpdateProxyRow ==
  ASSUME TopologyType, NEW k \in Requests, UpdateProxy(k)
  PROVE  LET q == request[k]
             p == q.id
             row == PrepareUpdate(p, q.field, q.value)
         IN  /\ p \in ProxyIds /\ proxy[p] \in ProxyRow /\ proxy[p] # None
             /\ row \in ProxyRow /\ row # None
             /\ proxy' = [proxy EXCEPT ![p] = row]
<1>1. /\ request[k].id \in ProxyIds
      /\ <<request[k].field, request[k].value>> \in ProxyChanges
  BY DEF UpdateProxy, At, TopologyType, HandlerType, Doing
<1>2. proxy[request[k].id] \in ProxyRow /\ proxy[request[k].id] # None
  BY <1>1 DEF UpdateProxy, TopologyType
<1>3. PrepareUpdate(request[k].id, request[k].field, request[k].value) \in ProxyRow
  BY <1>1, <1>2, UpdateIsRow DEF PrepareUpdate
<1> QED BY <1>1, <1>2, <1>3, RowsAreThere DEF UpdateProxy

LEMMA ProxyTyped ==
  ASSUME TopologyType, ProxyStep
  PROVE  TopologyType'
<1>1. ASSUME NEW p \in ProxyIds, NEW c \in ClientIds, NEW row \in ProxyRow, InsertProxy(p, c, row)
      PROVE  TopologyType'
  <2>1. HandlersTyped'
    BY <1>1, HandlersStay DEF InsertProxy
  <2>2. shipped' = [s \in Servers |-> shipped'[s]]
    BY <1>1, BumpTyped DEF InsertProxy
  <2>3. [user |-> None, ports |-> {}] \in ClientRow
    BY DEF ClientRow
  <2> QED BY <1>1, <2>1, <2>2, <2>3 DEF InsertProxy, TopologyType, HandlersTyped
<1>2. ASSUME NEW k \in Requests, UpdateProxy(k)
      PROVE  TopologyType'
  <2> DEFINE p == request[k].id
             row == PrepareUpdate(p, request[k].field, request[k].value)
  <2>1. p \in ProxyIds /\ row \in ProxyRow /\ proxy' = [proxy EXCEPT ![p] = row]
    BY <1>2, UpdateProxyRow
  <2>2. HandlersTyped'
    <3>1. HandlerType([op |-> "bumpProxy", id |-> p])
      BY <2>1 DEF HandlerType, Doing
    <3>2. \/ request' = [request EXCEPT ![k] = [op |-> "bumpProxy", id |-> p]]
          \/ Finish(k)
      BY <1>2 DEF UpdateProxy
    <3> QED BY <3>1, <3>2, HandlerMoves, HandlerEnds
  <2>3. shipped' = [s \in Servers |-> shipped'[s]]
    BY <1>2 DEF UpdateProxy
  <2>4. UNCHANGED <<client, relay, landing, published, address>>
    BY <1>2 DEF UpdateProxy
  <2> QED BY <2>1, <2>2, <2>3, <2>4 DEF TopologyType, HandlersTyped
<1>3. ASSUME NEW k \in Requests, DeleteProxy(k)
      PROVE  TopologyType'
  <2>1. HandlersTyped'
    BY <1>3, HandlerEnds DEF DeleteProxy
  <2>2. shipped' = [s \in Servers |-> shipped'[s]]
    BY <1>3, BumpTyped DEF DeleteProxy
  <2>3. client' \in [ClientIds -> ClientRow \cup {None}] /\ proxy' \in [ProxyIds -> ProxyRow \cup {None}]
    BY <1>3 DEF DeleteProxy, TopologyType
  <2>4. UNCHANGED <<relay, landing, published, address>>
    BY <1>3 DEF DeleteProxy
  <2> QED BY <2>1, <2>2, <2>3, <2>4 DEF TopologyType, HandlersTyped
<1> QED BY <1>1, <1>2, <1>3 DEF ProxyStep

\* What the handlers of clients write.
LEMMA ClientRows ==
  ASSUME TopologyType, ClientStep
  PROVE  client' \in [ClientIds -> ClientRow \cup {None}]
<1>1. ASSUME NEW c \in ClientIds, CreateClient(c)
      PROVE  client' \in [ClientIds -> ClientRow \cup {None}]
  BY <1>1 DEF CreateClient, TopologyType, ClientRow
<1>2. ASSUME NEW c \in ClientIds, NEW u \in Users, NEW n \in RelayPortCounts, CreateAssignedClient(c, u, n)
      PROVE  client' \in [ClientIds -> ClientRow \cup {None}]
  <2>1. PICK range \in SUBSET PortNos : client' = [client EXCEPT ![c] = [user |-> u, ports |-> range]]
    <3>1. FreeRanges(Home[Of[c]], n) \subseteq SUBSET PortNos
      BY DEF FreeRanges, RandomUserRelayPorts
    <3> QED BY <1>2, <3>1 DEF CreateAssignedClient
  <2> QED BY <2>1 DEF TopologyType, ClientRow
<1>3. ASSUME NEW c \in ClientIds, NEW n \in RelayPortCounts, UpdateClientRelayPortCount(c, n)
      PROVE  client' \in [ClientIds -> ClientRow \cup {None}]
  <2>1. PICK range \in SUBSET PortNos : client' = [client EXCEPT ![c].ports = range]
    BY <1>3 DEF UpdateClientRelayPortCount
  <2>2. client[c] \in ClientRow
    BY <1>3 DEF UpdateClientRelayPortCount, TopologyType
  <2>3. [client[c] EXCEPT !.ports = range] \in ClientRow
    BY <2>2 DEF ClientRow
  <2> QED BY <2>1, <2>3 DEF TopologyType
<1>4. ASSUME NEW k \in Requests, AssignClient(k)
      PROVE  client' \in [ClientIds -> ClientRow \cup {None}]
  <2> DEFINE c == request[k].id
             u == request[k].user
             row == [user |-> u, ports |-> IF u = None THEN {} ELSE client[c].ports]
  <2>1. c \in ClientIds /\ u \in Users \cup {None}
    BY <1>4 DEF AssignClient, At, TopologyType, HandlerType, Doing
  <2>2. client[c] \in ClientRow /\ client' = [client EXCEPT ![c] = row]
    BY <1>4, <2>1 DEF AssignClient, TopologyType
  <2>3. row \in ClientRow
    BY <2>1, <2>2 DEF ClientRow
  <2> QED BY <2>2, <2>3 DEF TopologyType
<1>5. ASSUME NEW k \in Requests, DeleteClient(k)
      PROVE  client' \in [ClientIds -> ClientRow \cup {None}]
  BY <1>5 DEF DeleteClient, TopologyType
<1> QED BY <1>1, <1>2, <1>3, <1>4, <1>5 DEF ClientStep

LEMMA ClientTyped ==
  ASSUME TopologyType, ClientStep
  PROVE  TopologyType'
<1>1. client' \in [ClientIds -> ClientRow \cup {None}]
  BY ClientRows
<1>2. HandlersTyped'
  BY HandlersStay, HandlerEnds
     DEF ClientStep, CreateClient, CreateAssignedClient, UpdateClientRelayPortCount, AssignClient, DeleteClient
<1>3. shipped' = [s \in Servers |-> shipped'[s]]
  BY BumpTyped DEF ClientStep, CreateClient, CreateAssignedClient, UpdateClientRelayPortCount,
                   AssignClient, DeleteClient, TopologyType
<1>4. UNCHANGED <<proxy, landing, published, address>>
  BY DEF ClientStep, CreateClient, CreateAssignedClient, UpdateClientRelayPortCount, AssignClient, DeleteClient
<1>5. relay' \in [RelayIds -> RelayRow \cup {None}]
  <2>1. ASSUME NEW k \in Requests, DeleteClient(k) PROVE relay' \in [RelayIds -> RelayRow \cup {None}]
    <3>1. \A r \in Relays : [relay[r] EXCEPT !.via = None] \in RelayRow
      BY DEF Relays, TopologyType, RelayRow
    <3>2. relay' = [r \in RelayIds |->
                      IF r \in Relays /\ relay[r].via = request[k].id
                      THEN [relay[r] EXCEPT !.via = None] ELSE relay[r]]
      BY <2>1 DEF DeleteClient
    <3> QED BY <3>1, <3>2 DEF TopologyType
  <2> QED BY <2>1 DEF ClientStep, CreateClient, CreateAssignedClient, UpdateClientRelayPortCount,
                      AssignClient, TopologyType
<1> QED BY <1>1, <1>2, <1>3, <1>4, <1>5 DEF TopologyType, HandlersTyped

LEMMA RelayTyped ==
  ASSUME TopologyType, RelayStep
  PROVE  TopologyType'
<1>1. ASSUME NEW r \in RelayIds, NEW row \in RelayRow, Inserted(r, row)
      PROVE  TopologyType'
  <2>1. HandlersTyped'
    BY <1>1, HandlersStay, HandlerEnds DEF Inserted
  <2>2. shipped' = [s \in Servers |-> shipped'[s]]
    BY <1>1, BumpTyped DEF Inserted
  <2>3. relay' \in [RelayIds -> RelayRow \cup {None}] /\ UNCHANGED <<proxy, client, landing, address>>
    BY <1>1 DEF Inserted, InsertRelay, TopologyType
  <2>4. published' \subseteq [proxy : ProxyIds, relay : RelayIds \cup {None}]
    BY <1>1 DEF Inserted, TopologyType
  <2> QED BY <2>1, <2>2, <2>3, <2>4 DEF TopologyType, HandlersTyped
<1>2. ASSUME NEW r \in RelayIds, NEW row \in RelayRow, Changed(r, row)
      PROVE  TopologyType'
  <2>1. HandlersTyped'
    BY <1>2, HandlersStay DEF Changed
  <2>2. shipped' = [s \in Servers |-> shipped'[s]]
    BY <1>2, BumpTyped DEF Changed
  <2>3. relay' \in [RelayIds -> RelayRow \cup {None}] /\ UNCHANGED <<proxy, client, landing, address, published>>
    BY <1>2 DEF Changed, TopologyType
  <2> QED BY <2>1, <2>2, <2>3 DEF TopologyType, HandlersTyped
<1>3. ASSUME NEW r \in RelayIds, Removed(r)
      PROVE  TopologyType'
  <2>1. HandlersTyped'
    <3>1. ASSUME NEW k \in Requests, request[k] # None,
                 request[k].op \in {"deleteProxy", "deleteClient", "assign"},
                 request' = [request EXCEPT ![k].doomed = @ \ {r}]
          PROVE  HandlersTyped'
      <4> DEFINE q == [request[k] EXCEPT !.doomed = @ \ {r}]
      <4>1. HandlerType(request[k])
        BY DEF TopologyType
      <4>2. HandlerType(q)
        <5>1. CASE request[k].op = "deleteProxy"
          BY <3>1, <4>1, <5>1 DEF HandlerType, Doing
        <5>2. CASE request[k].op = "deleteClient"
          BY <3>1, <4>1, <5>2 DEF HandlerType, Doing
        <5>3. CASE request[k].op = "assign"
          BY <3>1, <4>1, <5>3 DEF HandlerType, Doing
        <5> QED BY <3>1, <5>1, <5>2, <5>3
      <4>3. request' = [request EXCEPT ![k] = q]
        BY <3>1
      <4> QED BY <4>2, <4>3, HandlerMoves
    <3> QED BY <1>3, <3>1, HandlersStay DEF Removed
  <2>2. shipped' = [s \in Servers |-> shipped'[s]]
    BY <1>3, BumpTyped DEF Removed
  <2>3. relay' \in [RelayIds -> RelayRow \cup {None}] /\ UNCHANGED <<proxy, client, landing, address>>
    BY <1>3 DEF Removed, TopologyType
  <2>4. published' \subseteq [proxy : ProxyIds, relay : RelayIds \cup {None}]
    BY <1>3 DEF Removed, TopologyType
  <2> QED BY <2>1, <2>2, <2>3, <2>4 DEF TopologyType, HandlersTyped
<1>4. ASSUME Listed PROVE TopologyType'
  <2>1. published' \subseteq [proxy : ProxyIds, relay : RelayIds \cup {None}]
    BY <1>4 DEF Listed, TopologyType
  <2>2. UNCHANGED <<proxy, client, relay, landing, address, request>> /\ shipped' = [s \in Servers |-> shipped'[s]]
    BY <1>4 DEF Listed
  <2> QED BY <2>1, <2>2 DEF TopologyType
<1> QED BY <1>1, <1>2, <1>3, <1>4 DEF RelayStep

LEMMA EndpointTyped ==
  ASSUME TopologyType, EndpointStep
  PROVE  TopologyType'
<1>1. HandlersTyped'
  <2>1. \A l \in LandingIds : HandlerType([op |-> "bumpLanding", id |-> l])
    BY DEF HandlerType, Doing
  <2>2. \A s \in Servers : HandlerType([op |-> "bumpServer", id |-> s])
    BY DEF HandlerType, Doing
  <2>3. \/ request' = request
        \/ \E k \in Requests, l \in LandingIds : request' = [request EXCEPT ![k] = [op |-> "bumpLanding", id |-> l]]
        \/ \E k \in Requests, s \in Servers : request' = [request EXCEPT ![k] = [op |-> "bumpServer", id |-> s]]
    BY DEF EndpointStep, CreateLanding, UpdateLanding, DeleteLanding, ReportSystemInfo, Begin
  <2> QED BY <2>1, <2>2, <2>3, HandlersStay, HandlerMoves
<1>2. landing' \in [LandingIds -> LandingRow \cup {None}] /\ address' \in [Servers -> Addresses \cup {None}]
  BY DEF EndpointStep, CreateLanding, UpdateLanding, DeleteLanding, ReportSystemInfo, SaveSystemInfo, TopologyType
<1>3. UNCHANGED <<proxy, client, relay, published, shipped>>
  BY DEF EndpointStep, CreateLanding, UpdateLanding, DeleteLanding, ReportSystemInfo
<1> QED BY <1>1, <1>2, <1>3 DEF TopologyType, HandlersTyped
(***************************************************************************)
(* References.                                                             *)
(***************************************************************************)
\* The targets of a relay, by their kind.
LEMMA TargetKinds ==
  ASSUME NEW to \in Targets
  PROVE  /\ to.type \in {"manual", "landing", "proxy"}
         /\ to.type = "manual" => to.host \in Addresses
         /\ to.type = "landing" => to.id \in LandingIds /\ to = [type |-> "landing", id |-> to.id]
         /\ to.type = "proxy" => to.id \in ProxyIds /\ to = [type |-> "proxy", id |-> to.id]
  BY DEF Targets

LEMMA RelayFields ==
  ASSUME TopologyType, NEW r \in Relays
  PROVE  /\ r \in RelayIds /\ relay[r] \in RelayRow /\ relay[r] # None
         /\ relay[r].server \in Servers /\ relay[r].port \in PortNos /\ relay[r].net \in {"tcp", "udp", "both"}
         /\ relay[r].to \in Targets /\ relay[r].on \in BOOLEAN
         /\ relay[r].owner \in Users \cup {None} /\ relay[r].source \in ClientIds \cup {None}
         /\ relay[r].via \in ClientIds \cup {None}
  BY DEF TopologyType, Relays, RelayRow

\* validateTarget.
LEMMA TargetIsThere ==
  ASSUME NEW to \in Targets, NEW via \in ClientIds \cup {None}, TargetExists(to, via)
  PROVE  /\ to.type = "proxy" => to.id \in Proxies
         /\ to.type = "landing" => to.id \in Landings
         /\ via # None => via \in Clients /\ to = [type |-> "proxy", id |-> Of[via]]
  BY TargetKinds DEF TargetExists, Proxies, Landings, Clients

\* More rows, and the relays as they were.
LEMMA RowsAdded ==
  ASSUME RefsInv, Proxies \subseteq Proxies', Clients \subseteq Clients', Landings \subseteq Landings',
         used \subseteq used', Proxies' \cup Clients' \cup Landings' \subseteq used',
         relay' = relay, published' = published
  PROVE  RefsInv'
  BY DEF RefsInv, Relays

LEMMA ProxyRefs ==
  ASSUME TopologyType, RefsInv, ProxyStep
  PROVE  RefsInv'
<1>1. ASSUME NEW p \in ProxyIds, NEW c \in ClientIds, NEW row \in ProxyRow, InsertProxy(p, c, row)
      PROVE  RefsInv'
  <2>1. [user |-> None, ports |-> {}] # None
    BY RowsAreThere DEF ClientRow
  <2>2. Proxies' = Proxies \cup {p}
    BY <1>1, RowsAreThere DEF InsertProxy, Proxies, TopologyType
  <2>3. Clients' = Clients \cup {c}
    BY <1>1, <2>1 DEF InsertProxy, Clients, TopologyType
  <2>4. Landings' = Landings /\ used' = used \cup {p, c} /\ relay' = relay /\ published' = published
    BY <1>1 DEF InsertProxy, Landings
  <2>5. Proxies' \cup Clients' \cup Landings' \subseteq used'
    BY <2>2, <2>3, <2>4 DEF RefsInv
  <2> QED BY <2>2, <2>3, <2>4, <2>5, RowsAdded
<1>2. ASSUME NEW k \in Requests, UpdateProxy(k)
      PROVE  RefsInv'
  <2>1. Proxies' = Proxies
    BY <1>2, UpdateProxyRow DEF Proxies, TopologyType
  <2>2. UNCHANGED <<client, relay, landing, published, used>>
    BY <1>2 DEF UpdateProxy
  <2> QED BY <2>1, <2>2, RowsAdded DEF Clients, Landings, RefsInv
<1>3. ASSUME NEW k \in Requests, DeleteProxy(k)
      PROVE  RefsInv'
  <2> DEFINE p == request[k].id
  <2>1. /\ Targeting([type |-> "proxy", id |-> p]) = {}
        /\ \A r \in Relays : relay[r].source = None \/ Of[relay[r].source] # p
        /\ proxy' = [proxy EXCEPT ![p] = None]
        /\ client' = [c \in ClientIds |-> IF Of[c] = p THEN None ELSE client[c]]
        /\ UNCHANGED <<relay, landing, published, used>>
    BY <1>3 DEF DeleteProxy, ValidateProxyDelete
  <2>2. Proxies' = Proxies \ {p}
    BY <2>1 DEF Proxies, TopologyType
  <2>3. Clients' = {c \in Clients : Of[c] # p}
    BY <2>1 DEF Clients, TopologyType
  <2>4. Relays' = Relays /\ Landings' = Landings
    BY <2>1 DEF Relays, Landings
  <2>5. ASSUME NEW r \in Relays
        PROVE  /\ relay[r].to.type = "proxy" => relay[r].to.id \in Proxies'
               /\ relay[r].to.type = "landing" => relay[r].to.id \in Landings'
               /\ relay[r].via # None =>
                    relay[r].via \in Clients' /\ relay[r].to = [type |-> "proxy", id |-> Of[relay[r].via]]
               /\ relay[r].source # None => relay[r].source \in Clients'
    <3>1. relay[r].to # [type |-> "proxy", id |-> p]
      BY <2>1 DEF Targeting
    <3>2. relay[r].to.type = "proxy" => relay[r].to.id # p
      BY <3>1, RelayFields, TargetKinds
    <3>3. relay[r].via # None => Of[relay[r].via] # p
      BY <3>1 DEF RefsInv
    <3> QED BY <2>1, <2>2, <2>3, <2>4, <3>2, <3>3 DEF RefsInv
  <2> QED BY <2>1, <2>2, <2>3, <2>4, <2>5 DEF RefsInv
<1> QED BY <1>1, <1>2, <1>3 DEF ProxyStep

LEMMA ClientRefs ==
  ASSUME TopologyType, RefsInv, ClientStep
  PROVE  RefsInv'
<1>1. ASSUME NEW c \in ClientIds, NEW row \in ClientRow, client' = [client EXCEPT ![c] = row],
             used' = used \cup {c}, UNCHANGED <<proxy, relay, landing, published>>
      PROVE  RefsInv'
  <2>1. Clients' = Clients \cup {c}
    BY <1>1, RowsAreThere DEF Clients, TopologyType
  <2>2. Proxies' = Proxies /\ Landings' = Landings
    BY <1>1 DEF Proxies, Landings
  <2>3. Proxies' \cup Clients' \cup Landings' \subseteq used'
    BY <1>1, <2>1, <2>2 DEF RefsInv
  <2> QED BY <1>1, <2>1, <2>2, <2>3, RowsAdded
<1>2. ASSUME NEW c \in ClientIds, CreateClient(c)
      PROVE  RefsInv'
  <2>1. [user |-> None, ports |-> {}] \in ClientRow
    BY DEF ClientRow
  <2> QED BY <1>1, <1>2, <2>1 DEF CreateClient
<1>3. ASSUME NEW c \in ClientIds, NEW u \in Users, NEW n \in RelayPortCounts, CreateAssignedClient(c, u, n)
      PROVE  RefsInv'
  <2>1. PICK range \in SUBSET PortNos : client' = [client EXCEPT ![c] = [user |-> u, ports |-> range]]
    <3>1. FreeRanges(Home[Of[c]], n) \subseteq SUBSET PortNos
      BY DEF FreeRanges, RandomUserRelayPorts
    <3> QED BY <1>3, <3>1 DEF CreateAssignedClient
  <2>2. [user |-> u, ports |-> range] \in ClientRow
    BY DEF ClientRow
  <2>3. used' = used \cup {c} /\ UNCHANGED <<proxy, relay, landing, published>>
    BY <1>3 DEF CreateAssignedClient
  <2> QED BY <1>1, <2>1, <2>2, <2>3
<1>4. ASSUME NEW c \in ClientIds, client[c] # None, client'[c] # None,
             \A d \in ClientIds \ {c} : client'[d] = client[d], UNCHANGED <<proxy, relay, landing, published, used>>
      PROVE  RefsInv'
  <2>1. Clients' = Clients
    BY <1>4 DEF Clients
  <2> QED BY <1>4, <2>1, RowsAdded DEF Proxies, Landings, RefsInv
<1>5. ASSUME NEW c \in ClientIds, NEW n \in RelayPortCounts, UpdateClientRelayPortCount(c, n)
      PROVE  RefsInv'
  <2>1. PICK range \in SUBSET PortNos : client' = [client EXCEPT ![c].ports = range]
    BY <1>5 DEF UpdateClientRelayPortCount
  <2>2. client[c] \in ClientRow /\ client[c] # None
    BY <1>5 DEF UpdateClientRelayPortCount, TopologyType
  <2>3. [client[c] EXCEPT !.ports = range] \in ClientRow
    BY <2>2 DEF ClientRow
  <2>4. client'[c] # None /\ \A d \in ClientIds \ {c} : client'[d] = client[d]
    BY <2>1, <2>3, RowsAreThere DEF TopologyType
  <2>5. UNCHANGED <<proxy, relay, landing, published, used>>
    BY <1>5 DEF UpdateClientRelayPortCount
  <2> QED BY <1>4, <2>2, <2>4, <2>5
<1>6. ASSUME NEW k \in Requests, AssignClient(k)
      PROVE  RefsInv'
  <2> DEFINE c == request[k].id
             u == request[k].user
             row == [user |-> u, ports |-> IF u = None THEN {} ELSE client[c].ports]
  <2>1. c \in ClientIds /\ u \in Users \cup {None}
    BY <1>6 DEF AssignClient, At, TopologyType, HandlerType, Doing
  <2>2. client[c] \in ClientRow /\ client[c] # None /\ client' = [client EXCEPT ![c] = row]
    BY <1>6, <2>1 DEF AssignClient, TopologyType
  <2>3. row \in ClientRow
    BY <2>1, <2>2 DEF ClientRow
  <2>4. client'[c] # None /\ \A d \in ClientIds \ {c} : client'[d] = client[d]
    BY <2>1, <2>2, <2>3, RowsAreThere DEF TopologyType
  <2>5. UNCHANGED <<proxy, relay, landing, published, used>>
    BY <1>6 DEF AssignClient
  <2> QED BY <1>4, <2>1, <2>2, <2>4, <2>5
<1>7. ASSUME NEW k \in Requests, DeleteClient(k)
      PROVE  RefsInv'
  <2> DEFINE c == request[k].id
  <2>1. /\ \A r \in Relays : relay[r].source # c
        /\ client' = [client EXCEPT ![c] = None]
        /\ relay' = [r \in RelayIds |->
              IF r \in Relays /\ relay[r].via = c THEN [relay[r] EXCEPT !.via = None] ELSE relay[r]]
        /\ UNCHANGED <<proxy, landing, published, used>>
    BY <1>7 DEF DeleteClient
  <2>2. Clients' = Clients \ {c} /\ Proxies' = Proxies /\ Landings' = Landings
    BY <2>1 DEF Clients, Proxies, Landings, TopologyType
  <2>3. \A r \in Relays : [relay[r] EXCEPT !.via = None] # None
    <3>1. \A r \in Relays : [relay[r] EXCEPT !.via = None] \in RelayRow
      BY DEF Relays, TopologyType, RelayRow
    <3> QED BY <3>1, RowsAreThere
  <2>4. Relays' = Relays
    BY <2>1, <2>3 DEF Relays, TopologyType
  <2>5. \A r \in Relays : /\ relay'[r].to = relay[r].to /\ relay'[r].source = relay[r].source
                          /\ relay'[r].owner = relay[r].owner
                          /\ relay'[r].via = IF relay[r].via = c THEN None ELSE relay[r].via
    BY <2>1, RelayFields DEF RelayRow
  <2>6. Proxies' \cup Clients' \cup Relays' \cup Landings' \subseteq used'
    BY <2>1, <2>2, <2>4 DEF RefsInv
  <2>7. ASSUME NEW r \in Relays
        PROVE  /\ relay'[r].to.type = "proxy" => relay'[r].to.id \in Proxies'
               /\ relay'[r].to.type = "landing" => relay'[r].to.id \in Landings'
               /\ relay'[r].via # None =>
                    relay'[r].via \in Clients' /\ relay'[r].to = [type |-> "proxy", id |-> Of[relay'[r].via]]
               /\ relay'[r].source # None => relay'[r].source \in Clients'
               /\ relay'[r].owner # None => relay'[r].source # None
    <3>1. /\ relay[r].to.type = "proxy" => relay[r].to.id \in Proxies
          /\ relay[r].to.type = "landing" => relay[r].to.id \in Landings
          /\ relay[r].via # None =>
               relay[r].via \in Clients /\ relay[r].to = [type |-> "proxy", id |-> Of[relay[r].via]]
          /\ relay[r].source # None => relay[r].source \in Clients
          /\ relay[r].owner # None => relay[r].source # None
      BY DEF RefsInv
    <3>2. relay'[r].via # None => relay'[r].via = relay[r].via /\ relay[r].via # c
      BY <2>5
    <3>3. relay[r].source # c
      BY <2>1
    <3>4. relay'[r].to = relay[r].to /\ relay'[r].source = relay[r].source /\ relay'[r].owner = relay[r].owner
      BY <2>5
    <3> HIDE DEF c
    <3> QED BY <2>2, <3>1, <3>2, <3>3, <3>4
  <2>8. \A n \in published' : n.relay # None =>
          n.relay \in used' /\ (n.relay \in Relays' => relay'[n.relay].owner = None)
    BY <2>1, <2>4, <2>5 DEF RefsInv
  <2> QED BY <2>4, <2>6, <2>7, <2>8 DEF RefsInv
<1> QED BY <1>2, <1>3, <1>5, <1>6, <1>7 DEF ClientStep

LEMMA RelayRefs ==
  ASSUME TopologyType, RefsInv, RelayStep
  PROVE  RefsInv'
<1>1. ASSUME NEW r \in RelayIds, NEW row \in RelayRow, Inserted(r, row)
      PROVE  RefsInv'
  <2>1. /\ r \notin used /\ used' = used \cup {r}
        /\ TargetExists(row.to, row.via) /\ relay' = [relay EXCEPT ![r] = row]
        /\ row.source # None => client[row.source] # None
        /\ UNCHANGED <<proxy, client, landing>>
    BY <1>1 DEF Inserted, InsertRelay
  <2>2. Relays' = Relays \cup {r} /\ \A q \in Relays : q # r /\ relay'[q] = relay[q]
    BY <2>1, RowsAreThere DEF Relays, RefsInv, TopologyType
  <2>3. Proxies' = Proxies /\ Clients' = Clients /\ Landings' = Landings /\ relay'[r] = row
    BY <2>1 DEF Proxies, Clients, Landings, TopologyType
  <2>4. /\ row.to \in Targets /\ row.via \in ClientIds \cup {None} /\ row.source \in ClientIds \cup {None}
    BY DEF RelayRow
  <2>5. /\ row.to.type = "proxy" => row.to.id \in Proxies
        /\ row.to.type = "landing" => row.to.id \in Landings
        /\ row.via # None => row.via \in Clients /\ row.to = [type |-> "proxy", id |-> Of[row.via]]
    BY <2>1, <2>4, TargetIsThere
  <2>6. row.source # None => row.source \in Clients
    BY <2>1, <2>4 DEF Clients
  <2>7. row.owner # None => row.source # None
    BY <1>1 DEF Inserted
  <2>8. ASSUME NEW n \in published', n.relay # None
        PROVE  n.relay \in used' /\ (n.relay \in Relays' => relay'[n.relay].owner = None)
    <3>1. CASE n \in published
      BY <2>1, <2>2, <2>8, <3>1 DEF RefsInv
    <3>2. CASE n \notin published
      BY <1>1, <2>1, <2>3, <3>2 DEF Inserted
    <3> QED BY <3>1, <3>2
  <2> QED BY <2>1, <2>2, <2>3, <2>5, <2>6, <2>7, <2>8 DEF RefsInv
<1>2. ASSUME NEW r \in RelayIds, NEW row \in RelayRow, Changed(r, row)
      PROVE  RefsInv'
  <2>1. /\ relay[r] # None /\ relay' = [relay EXCEPT ![r] = row] /\ TargetExists(row.to, row.via)
        /\ row.owner = relay[r].owner /\ row.source = relay[r].source
        /\ UNCHANGED <<proxy, client, landing, published, used>>
    BY <1>2 DEF Changed
  <2>2. Relays' = Relays /\ r \in Relays /\ \A q \in Relays \ {r} : relay'[q] = relay[q]
    BY <2>1, RowsAreThere DEF Relays, TopologyType
  <2>3. Proxies' = Proxies /\ Clients' = Clients /\ Landings' = Landings /\ relay'[r] = row
    BY <2>1 DEF Proxies, Clients, Landings, TopologyType
  <2>4. /\ row.to \in Targets /\ row.via \in ClientIds \cup {None}
    BY DEF RelayRow
  <2>5. /\ row.to.type = "proxy" => row.to.id \in Proxies
        /\ row.to.type = "landing" => row.to.id \in Landings
        /\ row.via # None => row.via \in Clients /\ row.to = [type |-> "proxy", id |-> Of[row.via]]
    BY <2>1, <2>4, TargetIsThere
  <2>6. Proxies' \cup Clients' \cup Relays' \cup Landings' \subseteq used'
    BY <2>1, <2>2, <2>3 DEF RefsInv
  <2>7. ASSUME NEW q \in Relays
        PROVE  /\ relay'[q].to.type = "proxy" => relay'[q].to.id \in Proxies
               /\ relay'[q].to.type = "landing" => relay'[q].to.id \in Landings
               /\ relay'[q].via # None =>
                    relay'[q].via \in Clients /\ relay'[q].to = [type |-> "proxy", id |-> Of[relay'[q].via]]
               /\ relay'[q].source # None => relay'[q].source \in Clients
               /\ relay'[q].owner # None => relay'[q].source # None
    <3>1. CASE q = r
      BY <2>1, <2>2, <2>3, <2>5, <3>1 DEF RefsInv
    <3>2. CASE q # r
      BY <2>2, <3>2 DEF RefsInv
    <3> QED BY <3>1, <3>2
  <2>8. \A n \in published' : n.relay # None =>
          n.relay \in used' /\ (n.relay \in Relays' => relay'[n.relay].owner = None)
    <3>1. \A q \in Relays : relay'[q].owner = relay[q].owner
      BY <2>1, <2>2, <2>3
    <3> QED BY <2>1, <2>2, <3>1 DEF RefsInv
  <2> QED BY <2>2, <2>3, <2>6, <2>7, <2>8 DEF RefsInv
<1>3. ASSUME NEW r \in RelayIds, Removed(r)
      PROVE  RefsInv'
  <2>1. /\ relay' = [relay EXCEPT ![r] = None] /\ published' \subseteq published
        /\ UNCHANGED <<proxy, client, landing, used>>
    BY <1>3 DEF Removed
  <2>2. Relays' = Relays \ {r} /\ \A q \in Relays' : relay'[q] = relay[q]
    BY <2>1 DEF Relays, TopologyType
  <2>3. Proxies' = Proxies /\ Clients' = Clients /\ Landings' = Landings
    BY <2>1 DEF Proxies, Clients, Landings
  <2> QED BY <2>1, <2>2, <2>3 DEF RefsInv
<1>4. ASSUME Listed PROVE RefsInv'
  <2>1. UNCHANGED <<proxy, client, relay, landing, used>>
    BY <1>4 DEF Listed
  <2>2. \A n \in published' : n \in published \/ n.relay = None
    BY <1>4 DEF Listed
  <2> QED BY <2>1, <2>2 DEF RefsInv, Proxies, Clients, Relays, Landings
<1> QED BY <1>1, <1>2, <1>3, <1>4 DEF RelayStep

LEMMA EndpointRefs ==
  ASSUME TopologyType, RefsInv, EndpointStep
  PROVE  RefsInv'
<1>1. ASSUME NEW l \in LandingIds, NEW row \in LandingRow, CreateLanding(l, row)
      PROVE  RefsInv'
  <2>1. Landings' = Landings \cup {l}
    BY <1>1, RowsAreThere DEF CreateLanding, Landings, TopologyType
  <2>2. Proxies' = Proxies /\ Clients' = Clients /\ used' = used \cup {l} /\ relay' = relay /\ published' = published
    BY <1>1 DEF CreateLanding, Proxies, Clients
  <2>3. Proxies' \cup Clients' \cup Landings' \subseteq used'
    BY <2>1, <2>2 DEF RefsInv
  <2> QED BY <2>1, <2>2, <2>3, RowsAdded
<1>2. ASSUME NEW k \in Requests, NEW l \in LandingIds, NEW row \in LandingRow, UpdateLanding(k, l, row)
      PROVE  RefsInv'
  <2>1. Landings' = Landings
    BY <1>2, RowsAreThere DEF UpdateLanding, Landings, TopologyType
  <2>2. Proxies' = Proxies /\ Clients' = Clients /\ used' = used /\ relay' = relay /\ published' = published
    BY <1>2 DEF UpdateLanding, Proxies, Clients
  <2> QED BY <2>1, <2>2, RowsAdded DEF RefsInv
<1>3. ASSUME NEW l \in LandingIds, DeleteLanding(l)
      PROVE  RefsInv'
  <2>1. Landings' = Landings \ {l}
    BY <1>3 DEF DeleteLanding, Landings, TopologyType
  <2>2. /\ Proxies' = Proxies /\ Clients' = Clients /\ Relays' = Relays
        /\ used' = used /\ relay' = relay /\ published' = published
    BY <1>3 DEF DeleteLanding, Proxies, Clients, Relays
  <2>3. \A r \in Relays : relay[r].to.type = "landing" => relay[r].to.id # l
    BY <1>3, RelayFields, TargetKinds DEF DeleteLanding, LandingReferenced, Targeting
  <2> QED BY <2>1, <2>2, <2>3 DEF RefsInv
<1>4. ASSUME NEW k \in Requests, NEW s \in Servers, NEW a \in Addresses \cup {None}, ReportSystemInfo(k, s, a)
      PROVE  RefsInv'
  BY <1>4, RowsAdded DEF ReportSystemInfo, Proxies, Clients, Landings, RefsInv
<1> QED BY <1>1, <1>2, <1>3, <1>4 DEF EndpointStep

LEMMA RefsStep ==
  ASSUME TopologyType, RefsInv, TopologyNext
  PROVE  RefsInv'
<1>1. ASSUME ReadStep \/ EndStep PROVE RefsInv'
  <2>1. UNCHANGED rows
    BY <1>1 DEF ReadStep, EndStep, BumpDependencies, Abandon
  <2> QED BY <2>1 DEF rows, RefsInv, Proxies, Clients, Relays, Landings
<1> QED BY <1>1, NextIsStep, ProxyRefs, ClientRefs, RelayRefs, EndpointRefs

(***************************************************************************)
(* No two listeners collide.                                               *)
(***************************************************************************)
LEMMA ListenersStep ==
  ASSUME TopologyType, RefsInv, ListenersDisjoint, TopologyNext
  PROVE  ListenersDisjoint'
<1>0. Disjoint(proxy, client, relay)
  BY DisjointIs
<1>1. ASSUME UNCHANGED <<proxy, client, relay>> PROVE ListenersDisjoint'
  BY <1>0, <1>1, DisjointIs
<1>2. ASSUME NEW p \in ProxyIds, NEW c \in ClientIds, NEW row \in ProxyRow, InsertProxy(p, c, row)
      PROVE  ListenersDisjoint'
  <2>1. /\ ListenerAvailable(Home[p], row.port, Network[p], "proxy", p, None)
        /\ proxy' = [proxy EXCEPT ![p] = row]
        /\ client' = [client EXCEPT ![c] = [user |-> None, ports |-> {}]] /\ relay' = relay
    BY <1>2 DEF InsertProxy
  <2>2. proxy'[p] = row /\ row # None /\ \A q \in ProxyIds \ {p} : proxy'[q] = proxy[q]
    BY <2>1, RowsAreThere DEF TopologyType
  <2>3. Disjoint(proxy', client, relay)
    BY <1>0, <2>1, <2>2, DisjointIs, ProxyListens DEF ListenerAvailable
  <2>4. \A d \in ClientIds : client'[d] # None => client'[d].ports = {} \/ (client[d] # None /\ client'[d].ports = client[d].ports)
    BY <2>1 DEF TopologyType
  <2>5. Disjoint(proxy', client', relay)
    BY <2>3, <2>4, FewerListeners
  <2> QED BY <2>1, <2>5, DisjointIs
<1>3. ASSUME NEW k \in Requests, UpdateProxy(k)
      PROVE  ListenersDisjoint'
  <2> DEFINE p == request[k].id
             row == PrepareUpdate(p, request[k].field, request[k].value)
  <2>1. p \in ProxyIds /\ row # None /\ proxy' = [proxy EXCEPT ![p] = row]
    BY <1>3, UpdateProxyRow
  <2>2. ListenerAvailable(Home[p], row.port, Network[p], "proxy", p, None) /\ client' = client /\ relay' = relay
    BY <1>3 DEF UpdateProxy
  <2>3. proxy'[p] = row /\ \A q \in ProxyIds \ {p} : proxy'[q] = proxy[q]
    BY <2>1 DEF TopologyType
  <2> HIDE DEF p, row
  <2>4. Disjoint(proxy', client, relay)
    BY <1>0, <2>1, <2>2, <2>3, DisjointIs, ProxyListens DEF ListenerAvailable
  <2> QED BY <2>2, <2>4, DisjointIs
<1>4. ASSUME NEW k \in Requests, DeleteProxy(k)
      PROVE  ListenersDisjoint'
  <2>1. /\ \A q \in ProxyIds : proxy'[q] # None => proxy'[q] = proxy[q]
        /\ \A c \in ClientIds : client'[c] # None => client'[c] = client[c]
        /\ relay' = relay
    BY <1>4 DEF DeleteProxy, TopologyType
  <2>2. Disjoint(proxy', client', relay')
    BY <1>0, <2>1, FewerListeners
  <2> QED BY <2>2, DisjointIs
<1>5. ASSUME NEW c \in ClientIds, CreateClient(c)
      PROVE  ListenersDisjoint'
  <2>1. /\ \A d \in ClientIds : client'[d] # None => client'[d].ports = {} \/ (client[d] # None /\ client'[d].ports = client[d].ports)
        /\ proxy' = proxy /\ relay' = relay
    BY <1>5 DEF CreateClient, TopologyType
  <2>2. Disjoint(proxy', client', relay')
    BY <1>0, <2>1, FewerListeners
  <2> QED BY <2>2, DisjointIs
<1>6. ASSUME NEW c \in ClientIds, NEW u \in Users, NEW n \in RelayPortCounts, CreateAssignedClient(c, u, n)
      PROVE  ListenersDisjoint'
  <2>1. PICK range \in FreeRanges(Home[Of[c]], n) : client' = [client EXCEPT ![c] = [user |-> u, ports |-> range]]
    BY <1>6 DEF CreateAssignedClient
  <2>2. range \subseteq PortNos \ Occupied(Home[Of[c]])
    BY DEF FreeRanges, RandomUserRelayPorts
  <2>3. [user |-> u, ports |-> range] \in ClientRow
    BY <2>2 DEF ClientRow
  <2>4. /\ client'[c] # None /\ client'[c].ports = range /\ \A d \in ClientIds \ {c} : client'[d] = client[d]
        /\ proxy' = proxy /\ relay' = relay
    BY <1>6, <2>1, <2>3, RowsAreThere DEF CreateAssignedClient, TopologyType
  <2>5. \A v \in Listeners(proxy, client, relay, Home[Of[c]]) : v.port \notin range
    BY <2>2, DisjointIs DEF Occupied
  <2>6. Disjoint(proxy, client', relay)
    BY <1>0, <2>4, <2>5, ClientReserves
  <2> QED BY <2>4, <2>6, DisjointIs
<1>7. ASSUME NEW c \in ClientIds, NEW n \in RelayPortCounts, UpdateClientRelayPortCount(c, n)
      PROVE  ListenersDisjoint'
  <2>1. PICK range \in SUBSET PortNos :
          /\ \A port \in range, v \in Reservations(Home[Of[c]]) : v.port = port => v.type = "client_relay" /\ v.id = c
          /\ client' = [client EXCEPT ![c].ports = range]
    BY <1>7 DEF UpdateClientRelayPortCount
  <2>2. client[c] \in ClientRow
    BY <1>7 DEF UpdateClientRelayPortCount, TopologyType
  <2>3. [client[c] EXCEPT !.ports = range] \in ClientRow /\ [client[c] EXCEPT !.ports = range].ports = range
    BY <2>2 DEF ClientRow
  <2>4. /\ client'[c] # None /\ client'[c].ports = range /\ \A d \in ClientIds \ {c} : client'[d] = client[d]
        /\ proxy' = proxy /\ relay' = relay
    BY <1>7, <2>1, <2>3, RowsAreThere DEF UpdateClientRelayPortCount, TopologyType
  <2>5. \A port \in range, v \in Listeners(proxy, client, relay, Home[Of[c]]) :
          v.port = port => v.type = "client_relay" /\ v.id = c
    BY <2>1, DisjointIs
  <2>6. Disjoint(proxy, client', relay)
    BY <1>0, <2>4, <2>5, ClientReserves
  <2> QED BY <2>4, <2>6, DisjointIs
<1>8. ASSUME NEW k \in Requests, AssignClient(k)
      PROVE  ListenersDisjoint'
  <2>1. /\ \A d \in ClientIds : client'[d] # None => client'[d].ports = {} \/ (client[d] # None /\ client'[d].ports = client[d].ports)
        /\ proxy' = proxy /\ relay' = relay
    BY <1>8 DEF AssignClient, TopologyType
  <2>2. Disjoint(proxy', client', relay')
    BY <1>0, <2>1, FewerListeners
  <2> QED BY <2>2, DisjointIs
<1>9. ASSUME NEW k \in Requests, DeleteClient(k)
      PROVE  ListenersDisjoint'
  <2>1. /\ \A d \in ClientIds : client'[d] # None => client[d] # None /\ client'[d].ports = client[d].ports
        /\ proxy' = proxy
        /\ relay' = [r \in RelayIds |->
              IF r \in Relays /\ relay[r].via = request[k].id THEN [relay[r] EXCEPT !.via = None] ELSE relay[r]]
    BY <1>9 DEF DeleteClient, TopologyType
  <2>2. \A r \in RelayIds : relay'[r] # None =>
            /\ relay[r] # None /\ relay'[r].server = relay[r].server /\ relay'[r].port = relay[r].port
            /\ relay'[r].net = relay[r].net /\ relay'[r].source = relay[r].source
    BY <2>1 DEF Relays, TopologyType, RelayRow
  <2>3. Disjoint(proxy, client', relay')
    <3>1. \A d \in ClientIds : client'[d] # None =>
            client'[d].ports = {} \/ (client[d] # None /\ client'[d].ports = client[d].ports)
      BY <2>1
    <3>2. \A p \in ProxyIds : proxy[p] # None => proxy[p] # None /\ proxy[p].port = proxy[p].port
      OBVIOUS
    <3> QED BY <1>0, <2>2, <3>1, <3>2, FewerListeners
  <2> QED BY <2>1, <2>3, DisjointIs
<1>10. ASSUME NEW r \in RelayIds, NEW row \in RelayRow, Inserted(r, row) \/ Changed(r, row)
       PROVE  ListenersDisjoint'
  <2>1. /\ ListenerAvailable(row.server, row.port, row.net, "relay", r, row.source)
        /\ relay' = [relay EXCEPT ![r] = row] /\ proxy' = proxy /\ client' = client
    BY <1>10 DEF Inserted, InsertRelay, Changed
  <2>2. relay'[r] = row /\ row # None /\ \A q \in RelayIds \ {r} : relay'[q] = relay[q]
    BY <2>1, RowsAreThere DEF TopologyType
  <2>3. \A v \in Listeners(proxy, client, relay, relay'[r].server) :
            \/ v.port # relay'[r].port \/ ~NetworksOverlap(relay'[r].net, v.net)
            \/ v.type = "relay" /\ v.id = r
            \/ v.type = "client_relay" /\ relay'[r].source # None /\ v.id = relay'[r].source
    BY <2>1, <2>2, DisjointIs DEF ListenerAvailable
  <2>4. Disjoint(proxy, client, relay')
    BY <1>0, <2>2, <2>3, RelayListens
  <2> QED BY <2>1, <2>4, DisjointIs
<1>11. ASSUME NEW r \in RelayIds, Removed(r)
       PROVE  ListenersDisjoint'
  <2>1. /\ \A q \in RelayIds : relay'[q] # None => relay'[q] = relay[q]
        /\ proxy' = proxy /\ client' = client
    BY <1>11 DEF Removed, TopologyType
  <2>2. Disjoint(proxy', client', relay')
    BY <1>0, <2>1, FewerListeners
  <2> QED BY <2>2, DisjointIs
<1>12. ASSUME ReadStep \/ EndStep \/ EndpointStep \/ Listed PROVE ListenersDisjoint'
  <2>1. UNCHANGED <<proxy, client, relay>>
    BY <1>12 DEF ReadStep, rows, EndStep, BumpDependencies, Abandon, Listed,
                 EndpointStep, CreateLanding, UpdateLanding, DeleteLanding, ReportSystemInfo
  <2> QED BY <1>1, <2>1
<1> QED BY NextIsStep, <1>2, <1>3, <1>4, <1>5, <1>6, <1>7, <1>8, <1>9, <1>10, <1>11, <1>12
           DEF ProxyStep, ClientStep, RelayStep
(***************************************************************************)
(* The relays of a user go with the client.                                *)
(***************************************************************************)
UserRelays(rl, c) ==
  {r \in {i \in RelayIds : rl[i] # None} : rl[r].owner # None /\ c \in {rl[r].source, rl[r].via}}

LEMMA UserRelaysAre == \A c : UserRelaysOf(c) = UserRelays(relay, c)
  BY DEF UserRelaysOf, UserRelays, Relays

\* What HandlersInv says of a handler after the step.
Sweeping(q) ==
  /\ Doing(q, "assign") =>
       /\ q.seen \subseteq used'
       /\ \A r \in UserRelays(relay', q.id) \cap q.seen : r \in q.doomed \cup late' \/ relay'[r].owner = q.user
  /\ Doing(q, "deleteClient") =>
       /\ q.seen \subseteq used'
       /\ UserRelays(relay', q.id) \cap q.seen \subseteq q.doomed

LEMMA SweepingIs == (\A k \in Requests : Sweeping(request'[k])) => HandlersInv'
  BY DEF Sweeping, HandlersInv, UserRelaysOf, UserRelays, Relays

\* Relays that a handler has seen only become fewer, and so does its list.
LEMMA HandlersKept ==
  ASSUME TopologyType, HandlersInv, used \subseteq used',
         \A r \in Relays' : r \in used =>
           /\ r \in Relays /\ relay'[r].owner = relay[r].owner
           /\ relay[r].owner # None => relay'[r].source = relay[r].source /\ relay'[r].via \in {relay[r].via, None}
           /\ r \in late => r \in late',
         \A k \in Requests :
           \/ ~Doing(request'[k], "assign") /\ ~Doing(request'[k], "deleteClient")
           \/ request'[k] = request[k]
           \/ \E r \in RelayIds : /\ r \notin Relays' /\ request[k] # None
                                  /\ request[k].op \in {"deleteProxy", "deleteClient", "assign"}
                                  /\ request'[k] = [request[k] EXCEPT !.doomed = @ \ {r}]
  PROVE  HandlersInv'
<1> SUFFICES ASSUME NEW k \in Requests, Doing(request'[k], "assign") \/ Doing(request'[k], "deleteClient")
             PROVE  Sweeping(request'[k])
  BY SweepingIs DEF Sweeping
<1>1. HandlerType(request[k])
  BY DEF TopologyType
<1>2. /\ Doing(request[k], "assign") \/ Doing(request[k], "deleteClient")
      /\ Doing(request[k], "assign") => Doing(request'[k], "assign")
      /\ request'[k].id = request[k].id /\ request'[k].seen = request[k].seen
      /\ Doing(request[k], "assign") => request'[k].user = request[k].user
      /\ \A r \in Relays' : r \in request[k].doomed => r \in request'[k].doomed
  <2>1. CASE request'[k] = request[k]
    BY <2>1
  <2>2. ASSUME NEW r \in RelayIds, r \notin Relays', request[k] # None,
               request[k].op \in {"deleteProxy", "deleteClient", "assign"},
               request'[k] = [request[k] EXCEPT !.doomed = @ \ {r}]
        PROVE  /\ Doing(request[k], "assign") \/ Doing(request[k], "deleteClient")
               /\ Doing(request[k], "assign") => Doing(request'[k], "assign")
               /\ request'[k].id = request[k].id /\ request'[k].seen = request[k].seen
               /\ Doing(request[k], "assign") => request'[k].user = request[k].user
               /\ \A x \in Relays' : x \in request[k].doomed => x \in request'[k].doomed
    <3>1. CASE request[k].op = "deleteProxy"
      BY <1>1, <2>2, <3>1 DEF HandlerType, Doing
    <3>2. CASE request[k].op = "deleteClient"
      BY <1>1, <2>2, <3>2 DEF HandlerType, Doing
    <3>3. CASE request[k].op = "assign"
      BY <1>1, <2>2, <3>3 DEF HandlerType, Doing
    <3> QED BY <2>2, <3>1, <3>2, <3>3
  <2> QED BY <2>1, <2>2
<1>3. request[k].id \in ClientIds
  BY <1>1, <1>2 DEF HandlerType
<1>4. request[k].seen \subseteq used
  BY <1>2 DEF HandlersInv
<1>5. ASSUME NEW r \in UserRelays(relay', request'[k].id) \cap request'[k].seen
      PROVE  \/ r \in request'[k].doomed
             \/ /\ Doing(request'[k], "assign")
                /\ r \in late' \/ relay'[r].owner = request'[k].user
  <2>1. /\ r \in Relays' /\ relay'[r].owner # None /\ request[k].id \in {relay'[r].source, relay'[r].via}
        /\ r \in request[k].seen
    BY <1>2 DEF UserRelays, Relays
  <2>2. r \in used
    BY <1>4, <2>1
  <2>3. /\ r \in Relays /\ relay'[r].owner = relay[r].owner /\ relay[r].owner # None
        /\ request[k].id \in {relay[r].source, relay[r].via}
        /\ r \in late => r \in late'
    BY <1>3, <2>1, <2>2, RowsAreThere
  <2>4. r \in UserRelaysOf(request[k].id)
    BY <2>3 DEF UserRelaysOf
  <2>5. \/ r \in request[k].doomed
        \/ Doing(request[k], "assign") /\ (r \in late \/ relay[r].owner = request[k].user)
    BY <1>2, <2>1, <2>4 DEF HandlersInv
  <2> QED BY <1>2, <2>1, <2>3, <2>5
<1>6. ~(Doing(request'[k], "assign") /\ Doing(request'[k], "deleteClient"))
  BY DEF Doing
<1> QED BY <1>2, <1>4, <1>5, <1>6 DEF Sweeping

LEMMA ReadHandlers ==
  ASSUME TopologyType, RefsInv, HandlersInv, RelaysStayWithHolder, ReadStep
  PROVE  HandlersInv'
<1>0. UNCHANGED <<rows, shipped, missed, late>>
  BY DEF ReadStep
<1>1. PICK k \in Requests :
       \/ \E p \in ProxyIds, ch \in ProxyChanges : UpdateProxyRead(k, p, ch[1], ch[2])
       \/ \E p \in ProxyIds : DeleteProxyRead(k, p)
       \/ \E c \in ClientIds, u \in Users \cup {None} : AssignClientRead(k, c, u)
       \/ \E c \in ClientIds : DeleteClientRead(k, c)
       \/ \E u \in Users, c \in ClientIds, v \in ClientIds \cup {None}, h \in Addresses : CreateMyRelayRead(k, u, c, v, h)
       \/ PickRelayPort(k) \/ RetryRelayPort(k)
  BY DEF ReadStep
<1>2. \A r \in Relays' : /\ r \in Relays /\ relay'[r] = relay[r]
  BY <1>0 DEF rows, Relays
<1>3. \A c : UserRelays(relay', c) = UserRelaysOf(c)
  BY <1>0, UserRelaysAre DEF rows
<1>s. ASSUME NEW j \in Requests, request'[j] = request[j] PROVE Sweeping(request'[j])
  BY <1>0, <1>3, <1>s DEF HandlersInv, Sweeping, rows
<1>4. ASSUME ~Doing(request'[k], "assign"), ~Doing(request'[k], "deleteClient"),
             \A j \in Requests \ {k} : request'[j] = request[j]
      PROVE  HandlersInv'
  BY <1>0, <1>2, <1>4, HandlersKept DEF rows
<1>5. ASSUME NEW p \in ProxyIds, NEW ch \in ProxyChanges, UpdateProxyRead(k, p, ch[1], ch[2]) PROVE HandlersInv'
  <2>1. request'[k].op = "updateProxy" /\ \A j \in Requests \ {k} : request'[j] = request[j]
    BY <1>5 DEF UpdateProxyRead, Begin, TopologyType
  <2> QED BY <1>4, <2>1 DEF Doing
<1>6. ASSUME NEW p \in ProxyIds, DeleteProxyRead(k, p) PROVE HandlersInv'
  <2>1. request'[k].op = "deleteProxy" /\ \A j \in Requests \ {k} : request'[j] = request[j]
    BY <1>6 DEF DeleteProxyRead, Begin, TopologyType
  <2> QED BY <1>4, <2>1 DEF Doing
<1>7. ASSUME NEW u \in Users, NEW c \in ClientIds, NEW v \in ClientIds \cup {None}, NEW h \in Addresses,
             CreateMyRelayRead(k, u, c, v, h)
      PROVE  HandlersInv'
  <2>1. request'[k].op = "createRelay" /\ \A j \in Requests \ {k} : request'[j] = request[j]
    BY <1>7 DEF CreateMyRelayRead, Begin, TopologyType
  <2> QED BY <1>4, <2>1 DEF Doing
<1>8. ASSUME PickRelayPort(k) \/ RetryRelayPort(k) PROVE HandlersInv'
  <2>1. request[k].op = "createRelay" /\ request[k] # None /\ HandlerType(request[k])
    BY <1>8 DEF PickRelayPort, RetryRelayPort, At, TopologyType
  <2>2. PICK port : request' = [request EXCEPT ![k].port = port]
    BY <1>8 DEF PickRelayPort, RetryRelayPort
  <2>3. request'[k].op = "createRelay" /\ \A j \in Requests \ {k} : request'[j] = request[j]
    BY <2>1, <2>2 DEF TopologyType, HandlerType, Doing
  <2> QED BY <1>4, <2>3 DEF Doing
<1>9. ASSUME NEW c \in ClientIds, DeleteClientRead(k, c) PROVE HandlersInv'
  <2>1. /\ request'[k] = [op |-> "deleteClient", id |-> c, doomed |-> UserRelaysOf(c), seen |-> used \cap RelayIds]
        /\ \A j \in Requests \ {k} : request'[j] = request[j]
    BY <1>9 DEF DeleteClientRead, Begin, TopologyType
  <2>2. /\ ~Doing(request'[k], "assign") /\ request'[k].id = c /\ request'[k].doomed = UserRelaysOf(c)
        /\ request'[k].seen \subseteq used'
    BY <1>0, <2>1 DEF rows, Doing
  <2>3. Sweeping(request'[k])
    BY <1>3, <2>2 DEF Sweeping
  <2> QED BY <1>s, <2>1, <2>3, SweepingIs
<1>10. ASSUME NEW c \in ClientIds, NEW u \in Users \cup {None}, AssignClientRead(k, c, u) PROVE HandlersInv'
  <2>1. /\ request'[k] = [op |-> "assign", id |-> c, user |-> u, seen |-> used \cap RelayIds,
                          doomed |-> IF Reassigned(c, u) THEN UserRelaysOf(c) ELSE {}]
        /\ \A j \in Requests \ {k} : request'[j] = request[j]
    BY <1>10 DEF AssignClientRead, Begin, TopologyType
  <2>2. ASSUME NEW r \in UserRelaysOf(c)
        PROVE  r \in request'[k].doomed \/ r \in late \/ relay[r].owner = u
    <3>1. CASE Reassigned(c, u)
      BY <2>1, <3>1
    <3>2. CASE ~Reassigned(c, u)
      <4>1. r \in Relays /\ relay[r].owner # None /\ c \in {relay[r].source, relay[r].via}
        BY DEF UserRelaysOf
      <4>2. Held(r) \/ r \in late
        BY <4>1 DEF RelaysStayWithHolder
      <4>3. Held(r) => client[c].user = relay[r].owner
        <5>1. c = relay[r].via => relay[r].to = [type |-> "proxy", id |-> Of[c]]
          BY <4>1, RowsAreThere DEF RefsInv
        <5>2. c = relay[r].via => relay[r].to.type = "proxy"
          BY <5>1
        <5> QED BY <4>1, <5>2 DEF Held
      <4> QED BY <3>2, <4>1, <4>2, <4>3 DEF Reassigned
    <3> QED BY <3>1, <3>2
  <2>3. /\ ~Doing(request'[k], "deleteClient")
        /\ request'[k].seen \subseteq used'
        /\ request'[k].id = c /\ request'[k].user = u
    BY <1>0, <2>1 DEF rows, Doing
  <2>4. \A r \in UserRelays(relay', request'[k].id) : r \in request'[k].doomed \cup late' \/ relay'[r].owner = request'[k].user
    BY <1>0, <1>3, <2>2, <2>3 DEF rows
  <2>5. Sweeping(request'[k])
    BY <2>3, <2>4 DEF Sweeping
  <2> QED BY <1>s, <2>1, <2>5, SweepingIs
<1> QED BY <1>1, <1>5, <1>6, <1>7, <1>8, <1>9, <1>10
\* A handler that ends or turns to something else, the others going on.
LEMMA OtherHandlers ==
  ASSUME TopologyType, NEW k \in Requests, NEW q, request' = [request EXCEPT ![k] = q],
         ~Doing(q, "assign"), ~Doing(q, "deleteClient")
  PROVE  \A j \in Requests :
           (~Doing(request'[j], "assign") /\ ~Doing(request'[j], "deleteClient")) \/ request'[j] = request[j]
  BY DEF TopologyType

LEMMA EndedHandlers ==
  ASSUME TopologyType, NEW k \in Requests, Finish(k)
  PROVE  \A j \in Requests :
           (~Doing(request'[j], "assign") /\ ~Doing(request'[j], "deleteClient")) \/ request'[j] = request[j]
<1>1. ~Doing(None, "assign") /\ ~Doing(None, "deleteClient")
  BY DEF Doing
<1> QED BY <1>1, OtherHandlers DEF Finish

\* Relays as they were.
LEMMA RelaysSame ==
  ASSUME TopologyType, HandlersInv, relay' = relay, used \subseteq used', late \subseteq late',
         \A k \in Requests :
           (~Doing(request'[k], "assign") /\ ~Doing(request'[k], "deleteClient")) \/ request'[k] = request[k]
  PROVE  HandlersInv'
<1>1. \A r \in Relays' : r \in used =>
           /\ r \in Relays /\ relay'[r].owner = relay[r].owner
           /\ relay[r].owner # None => relay'[r].source = relay[r].source /\ relay'[r].via \in {relay[r].via, None}
           /\ r \in late => r \in late'
  BY DEF Relays
<1> QED BY <1>1, HandlersKept

LEMMA HandlersStep ==
  ASSUME TopologyType, RefsInv, HandlersInv, RelaysStayWithHolder, TopologyNext
  PROVE  HandlersInv'
<1>1. ASSUME EndStep PROVE HandlersInv'
  <2> PICK k \in Requests : BumpDependencies(k) \/ Abandon(k)
    BY <1>1 DEF EndStep
  <2>1. Finish(k) /\ relay' = relay /\ used' = used /\ late' = late
    BY DEF BumpDependencies, Abandon, rows
  <2> QED BY <2>1, EndedHandlers, RelaysSame
<1>2. ASSUME ProxyStep PROVE HandlersInv'
  <2>1. relay' = relay /\ used \subseteq used' /\ late' = late
    BY <1>2 DEF ProxyStep, InsertProxy, UpdateProxy, DeleteProxy
  <2>2. \/ request' = request
        \/ \E k \in Requests : Finish(k)
        \/ \E k \in Requests : \E p : request' = [request EXCEPT ![k] = [op |-> "bumpProxy", id |-> p]]
    BY <1>2 DEF ProxyStep, InsertProxy, UpdateProxy, DeleteProxy
  <2>3. \A p : LET q == [op |-> "bumpProxy", id |-> p] IN ~Doing(q, "assign") /\ ~Doing(q, "deleteClient")
    BY DEF Doing
  <2>4. \A k \in Requests :
           (~Doing(request'[k], "assign") /\ ~Doing(request'[k], "deleteClient")) \/ request'[k] = request[k]
    BY <2>2, <2>3, EndedHandlers, OtherHandlers
  <2> QED BY <2>1, <2>4, RelaysSame
<1>3. ASSUME EndpointStep PROVE HandlersInv'
  <2>1. relay' = relay /\ used \subseteq used' /\ late' = late
    BY <1>3 DEF EndpointStep, CreateLanding, UpdateLanding, DeleteLanding, ReportSystemInfo
  <2>2. \/ request' = request
        \/ \E k \in Requests : \E l : request' = [request EXCEPT ![k] = [op |-> "bumpLanding", id |-> l]]
        \/ \E k \in Requests : \E s : request' = [request EXCEPT ![k] = [op |-> "bumpServer", id |-> s]]
    BY <1>3 DEF EndpointStep, CreateLanding, UpdateLanding, DeleteLanding, ReportSystemInfo, Begin
  <2>3. \A l : LET q == [op |-> "bumpLanding", id |-> l] IN ~Doing(q, "assign") /\ ~Doing(q, "deleteClient")
    BY DEF Doing
  <2>4. \A s : LET q == [op |-> "bumpServer", id |-> s] IN ~Doing(q, "assign") /\ ~Doing(q, "deleteClient")
    BY DEF Doing
  <2>5. \A k \in Requests :
           (~Doing(request'[k], "assign") /\ ~Doing(request'[k], "deleteClient")) \/ request'[k] = request[k]
    BY <2>2, <2>3, <2>4, OtherHandlers
  <2> QED BY <2>1, <2>5, RelaysSame
<1>4. ASSUME ClientStep PROVE HandlersInv'
  <2>1. used \subseteq used' /\ late \subseteq late'
    BY <1>4 DEF ClientStep, CreateClient, CreateAssignedClient, UpdateClientRelayPortCount, AssignClient, DeleteClient
  <2>2. request' = request \/ \E k \in Requests : Finish(k)
    BY <1>4 DEF ClientStep, CreateClient, CreateAssignedClient, UpdateClientRelayPortCount, AssignClient, DeleteClient
  <2>3. \A k \in Requests :
           (~Doing(request'[k], "assign") /\ ~Doing(request'[k], "deleteClient")) \/ request'[k] = request[k]
    BY <2>2, EndedHandlers
  <2>4. CASE relay' = relay
    BY <2>1, <2>3, <2>4, RelaysSame
  <2>5. ASSUME NEW k \in Requests, DeleteClient(k) PROVE HandlersInv'
    <3>1. relay' = [r \in RelayIds |->
              IF r \in Relays /\ relay[r].via = request[k].id THEN [relay[r] EXCEPT !.via = None] ELSE relay[r]]
      BY <2>5 DEF DeleteClient
    <3>2. \A r \in Relays' :
           /\ r \in Relays /\ relay'[r].owner = relay[r].owner
           /\ relay'[r].source = relay[r].source /\ relay'[r].via \in {relay[r].via, None}
      BY <3>1, RelayFields DEF Relays, RelayRow
    <3> QED BY <2>1, <2>3, <3>2, HandlersKept
  <2> QED BY <1>4, <2>4, <2>5
             DEF ClientStep, CreateClient, CreateAssignedClient, UpdateClientRelayPortCount, AssignClient
<1>5. ASSUME NEW r \in RelayIds, NEW row \in RelayRow, Inserted(r, row) PROVE HandlersInv'
  <2>1. /\ r \notin used /\ used' = used \cup {r} /\ relay' = [relay EXCEPT ![r] = row]
        /\ late \subseteq late'
    BY <1>5 DEF Inserted, InsertRelay, Recorded
  <2>2. \A q \in Relays' : q \in used => q \in Relays /\ relay'[q] = relay[q]
    BY <2>1 DEF Relays, TopologyType
  <2>3. \A k \in Requests :
           (~Doing(request'[k], "assign") /\ ~Doing(request'[k], "deleteClient")) \/ request'[k] = request[k]
    BY <1>5, EndedHandlers DEF Inserted
  <2> QED BY <2>1, <2>2, <2>3, HandlersKept
<1>6. ASSUME NEW r \in RelayIds, NEW row \in RelayRow, Changed(r, row) PROVE HandlersInv'
  <2>1. /\ relay[r] # None /\ relay' = [relay EXCEPT ![r] = row]
        /\ row.owner = relay[r].owner /\ row.source = relay[r].source
        /\ row.owner # None => row.via = None
        /\ UNCHANGED <<used, request, late>>
    BY <1>6 DEF Changed
  <2>2. \A q \in Relays' :
           /\ q \in Relays /\ relay'[q].owner = relay[q].owner
           /\ relay[q].owner # None => relay'[q].source = relay[q].source /\ relay'[q].via \in {relay[q].via, None}
    BY <2>1 DEF Relays, TopologyType
  <2> QED BY <2>1, <2>2, HandlersKept
<1>7. ASSUME NEW r \in RelayIds, Removed(r) PROVE HandlersInv'
  <2>1. relay' = [relay EXCEPT ![r] = None] /\ used' = used /\ late' \in {late, late \ {r}}
    BY <1>7 DEF Removed
  <2>2. r \notin Relays' /\ \A q \in Relays' : q \in Relays /\ relay'[q] = relay[q]
    BY <2>1 DEF Relays, TopologyType
  <2>3. \A q \in Relays' : q \in late => q \in late'
    BY <2>1, <2>2
  <2>4. \A k \in Requests :
           \/ request'[k] = request[k]
           \/ /\ request[k] # None /\ request[k].op \in {"deleteProxy", "deleteClient", "assign"}
              /\ request'[k] = [request[k] EXCEPT !.doomed = @ \ {r}]
    BY <1>7 DEF Removed, TopologyType
  <2> QED BY <2>1, <2>2, <2>3, <2>4, HandlersKept
<1>8. ASSUME Listed PROVE HandlersInv'
  BY <1>8, RelaysSame DEF Listed
<1> QED BY NextIsStep, ReadHandlers, <1>1, <1>2, <1>3, <1>4, <1>5, <1>6, <1>7, <1>8 DEF RelayStep

\* The clients that relays use keep their users.
LEMMA HoldersSame ==
  ASSUME TopologyType, RefsInv, RefsInv', RelaysStayWithHolder, relay' = relay, late \subseteq late',
         \A c \in Clients \cap Clients' : client'[c].user = client[c].user
  PROVE  RelaysStayWithHolder'
<1> SUFFICES ASSUME NEW r \in Relays, relay[r].owner # None, r \notin late'
             PROVE  Held(r)'
  BY DEF RelaysStayWithHolder, Relays
<1>1. Held(r)
  BY DEF RelaysStayWithHolder
<1>2. relay[r].source \in Clients \cap Clients'
  BY DEF RefsInv, Relays
<1>3. relay[r].via # None => relay[r].via \in Clients \cap Clients'
  BY DEF RefsInv, Relays
<1> QED BY <1>1, <1>2, <1>3 DEF Held

LEMMA HolderStep ==
  ASSUME TopologyType, RefsInv, HandlersInv, RelaysStayWithHolder, TopologyNext
  PROVE  RelaysStayWithHolder'
<1>0. RefsInv'
  BY RefsStep
<1>1. ASSUME ReadStep \/ EndStep \/ EndpointStep \/ Listed PROVE RelaysStayWithHolder'
  <2>1. UNCHANGED <<client, relay, late>>
    BY <1>1 DEF ReadStep, rows, EndStep, BumpDependencies, Abandon, Listed,
                EndpointStep, CreateLanding, UpdateLanding, DeleteLanding, ReportSystemInfo
  <2> QED BY <1>0, <2>1, HoldersSame
<1>2. ASSUME ProxyStep PROVE RelaysStayWithHolder'
  <2>1. relay' = relay /\ late' = late
    BY <1>2 DEF ProxyStep, InsertProxy, UpdateProxy, DeleteProxy
  <2>2. \A c \in Clients \cap Clients' : client'[c] = client[c]
    <3>1. ASSUME NEW p \in ProxyIds, NEW c \in ClientIds, NEW row \in ProxyRow, InsertProxy(p, c, row)
          PROVE  \A d \in Clients : client'[d] = client[d]
      <4>1. c \notin Clients
        BY <3>1 DEF InsertProxy, RefsInv
      <4> QED BY <3>1, <4>1 DEF InsertProxy, Clients, TopologyType
    <3>2. ASSUME NEW k \in Requests, DeleteProxy(k)
          PROVE  \A d \in Clients' : client'[d] = client[d]
      BY <3>2 DEF DeleteProxy, Clients
    <3> QED BY <1>2, <3>1, <3>2 DEF ProxyStep, UpdateProxy
  <2> QED BY <1>0, <2>1, <2>2, HoldersSame
<1>3. ASSUME NEW c \in ClientIds,
             CreateClient(c) \/ (\E u \in Users, n \in RelayPortCounts : CreateAssignedClient(c, u, n))
      PROVE  RelaysStayWithHolder'
  <2>1. c \notin Clients /\ relay' = relay /\ late' = late
    BY <1>3 DEF CreateClient, CreateAssignedClient, RefsInv
  <2>2. \A d \in Clients : client'[d] = client[d]
    BY <1>3, <2>1 DEF CreateClient, CreateAssignedClient, Clients, TopologyType
  <2> QED BY <1>0, <2>1, <2>2, HoldersSame
<1>4. ASSUME NEW c \in ClientIds, NEW n \in RelayPortCounts, UpdateClientRelayPortCount(c, n)
      PROVE  RelaysStayWithHolder'
  <2>1. PICK range \in SUBSET PortNos : client' = [client EXCEPT ![c].ports = range]
    BY <1>4 DEF UpdateClientRelayPortCount
  <2>2. \A d \in Clients : client'[d].user = client[d].user
    BY <2>1 DEF Clients, TopologyType, ClientRow
  <2>3. relay' = relay /\ late' = late
    BY <1>4 DEF UpdateClientRelayPortCount
  <2> QED BY <1>0, <2>2, <2>3, HoldersSame
<1>5. ASSUME NEW k \in Requests, AssignClient(k) PROVE RelaysStayWithHolder'
  <2> DEFINE c == request[k].id
             u == request[k].user
  <2>1. /\ Doing(request[k], "assign") /\ request[k].doomed = {}
        /\ late' = late \cup {r \in UserRelaysOf(c) : r \notin request[k].seen}
        /\ relay' = relay
    BY <1>5 DEF AssignClient, At, Doing
  <2>2. c \in ClientIds
    BY <2>1 DEF TopologyType, HandlerType
  <2>3. client'[c].user = u /\ \A d \in ClientIds \ {c} : client'[d] = client[d]
    BY <1>5, <2>2 DEF AssignClient, TopologyType
  <2> SUFFICES ASSUME NEW r \in Relays, relay[r].owner # None, r \notin late'
               PROVE  Held(r)'
    BY <2>1 DEF RelaysStayWithHolder, Relays
  <2>4. Held(r) /\ r \notin late
    BY <2>1 DEF RelaysStayWithHolder
  <2>5. r \in UserRelaysOf(c) => relay[r].owner = u
    BY <2>1 DEF HandlersInv
  <2>6. relay[r].source \in ClientIds /\ (relay[r].via # None => relay[r].via \in ClientIds)
    BY DEF RefsInv, Clients
  <2>7. c \in {relay[r].source, relay[r].via} => relay[r].owner = u
    BY <2>5 DEF UserRelaysOf
  <2>8. client'[relay[r].source].user = relay[r].owner
    BY <2>3, <2>4, <2>6, <2>7 DEF Held
  <2>9. relay[r].to.type = "proxy" => relay[r].via # None /\ client'[relay[r].via].user = relay[r].owner
    BY <2>3, <2>4, <2>6, <2>7 DEF Held
  <2> QED BY <2>1, <2>8, <2>9 DEF Held
<1>6. ASSUME NEW k \in Requests, DeleteClient(k) PROVE RelaysStayWithHolder'
  <2> DEFINE c == request[k].id
  <2>1. /\ Doing(request[k], "deleteClient") /\ request[k].doomed = {}
        /\ late' = late \cup {r \in UserRelaysOf(c) : r \notin request[k].seen}
        /\ \A r \in Relays : relay[r].source # c
        /\ client' = [client EXCEPT ![c] = None]
        /\ relay' = [r \in RelayIds |->
              IF r \in Relays /\ relay[r].via = c THEN [relay[r] EXCEPT !.via = None] ELSE relay[r]]
    BY <1>6 DEF DeleteClient, At, Doing
  <2>2. \A r \in Relays' : r \in Relays /\ relay'[r].owner = relay[r].owner
    BY <2>1, RelayFields DEF Relays, RelayRow
  <2> SUFFICES ASSUME NEW r \in Relays', relay'[r].owner # None, r \notin late'
               PROVE  Held(r)'
    BY DEF RelaysStayWithHolder
  <2>3. r \in Relays /\ relay[r].owner # None /\ r \notin late /\ Held(r)
    BY <2>1, <2>2 DEF RelaysStayWithHolder
  <2>4. r \notin UserRelaysOf(c)
    BY <2>1 DEF HandlersInv
  <2>5. relay[r].via # c /\ relay[r].source # c
    BY <2>1, <2>3, <2>4 DEF UserRelaysOf
  <2>6. relay'[r] = relay[r]
    BY <2>1, <2>3, <2>5 DEF Relays
  <2>7. relay[r].source \in ClientIds /\ (relay[r].via # None => relay[r].via \in ClientIds)
    BY <2>3 DEF RefsInv, Clients
  <2>8. client'[relay[r].source] = client[relay[r].source]
    BY <2>1, <2>5, <2>7 DEF TopologyType
  <2>9. relay[r].via # None => client'[relay[r].via] = client[relay[r].via]
    BY <2>1, <2>5, <2>7 DEF TopologyType
  <2> QED BY <2>3, <2>6, <2>8, <2>9 DEF Held
<1>7. ASSUME NEW r \in RelayIds, NEW row \in RelayRow, Inserted(r, row) PROVE RelaysStayWithHolder'
  <2>1. /\ r \notin used /\ relay' = [relay EXCEPT ![r] = row] /\ client' = client
        /\ late \subseteq late' /\ (row.owner # None => Recorded(r, row))
    BY <1>7 DEF Inserted, InsertRelay, Recorded
  <2>2. relay'[r] = row /\ \A q \in Relays' \ {r} : q \in Relays /\ relay'[q] = relay[q]
    BY <2>1 DEF Relays, TopologyType
  <2>3. row.owner # None => Held(r)' \/ r \in late'
    BY <2>1, <2>2 DEF Recorded, Held
  <2>4. ASSUME NEW q \in Relays' \ {r}, relay'[q].owner # None PROVE Held(q)' \/ q \in late'
    BY <2>1, <2>2, <2>4 DEF RelaysStayWithHolder, Held
  <2> QED BY <2>2, <2>3, <2>4 DEF RelaysStayWithHolder
<1>8. ASSUME NEW r \in RelayIds, NEW row \in RelayRow, Changed(r, row) PROVE RelaysStayWithHolder'
  <2>1. /\ relay[r] # None /\ relay' = [relay EXCEPT ![r] = row] /\ client' = client /\ late' = late
        /\ row.owner = relay[r].owner /\ row.source = relay[r].source
        /\ row.owner # None => row.to.type = "manual"
    BY <1>8 DEF Changed
  <2>2. relay'[r] = row /\ r \in Relays /\ \A q \in Relays' \ {r} : q \in Relays /\ relay'[q] = relay[q]
    BY <2>1 DEF Relays, TopologyType
  <2>3. row.owner # None => Held(r)' \/ r \in late'
    BY <2>1, <2>2 DEF RelaysStayWithHolder, Held
  <2>4. ASSUME NEW q \in Relays' \ {r}, relay'[q].owner # None PROVE Held(q)' \/ q \in late'
    BY <2>1, <2>2, <2>4 DEF RelaysStayWithHolder, Held
  <2> QED BY <2>2, <2>3, <2>4 DEF RelaysStayWithHolder
<1>9. ASSUME NEW r \in RelayIds, Removed(r) PROVE RelaysStayWithHolder'
  <2>1. relay' = [relay EXCEPT ![r] = None] /\ client' = client /\ late' \in {late, late \ {r}}
    BY <1>9 DEF Removed
  <2>2. \A q \in Relays' : q # r /\ q \in Relays /\ relay'[q] = relay[q]
    BY <2>1 DEF Relays, TopologyType
  <2>3. ASSUME NEW q \in Relays', relay'[q].owner # None PROVE Held(q)' \/ q \in late'
    BY <2>1, <2>2, <2>3 DEF RelaysStayWithHolder, Held
  <2> QED BY <2>3 DEF RelaysStayWithHolder
<1> QED BY NextIsStep, <1>1, <1>2, <1>3, <1>4, <1>5, <1>6, <1>7, <1>8, <1>9 DEF ClientStep, RelayStep
(***************************************************************************)
(* What a Server is to run, and who is still to be told, with the rows as  *)
(* parameters.                                                             *)
(***************************************************************************)
Leads(px, ld, ad, to) ==
  CASE to.type = "manual"  -> [host |-> to.host, port |-> None]
    [] to.type = "landing" -> [host |-> ld[to.id].host, port |-> None]
    [] to.type = "proxy"   ->
          LET p == px[to.id]
              host == IF p.entry = "auto" THEN ad[Home[to.id]] ELSE p.entry
          IN  IF p.on /\ host # None THEN [host |-> host, port |-> p.port] ELSE None

Runs(px, cl, rl, ld, ad, s) ==
  [proxies |-> {[id |-> p, port |-> px[p].port, clients |-> {c \in {i \in ClientIds : cl[i] # None} : Of[c] = p}] :
                   p \in {q \in {i \in ProxyIds : px[i] # None} : Home[q] = s /\ px[q].on}},
   relays  |-> {[relay |-> r, port |-> rl[r].port, net |-> rl[r].net, to |-> Leads(px, ld, ad, rl[r].to)] :
                   r \in {q \in {i \in RelayIds : rl[i] # None} :
                             rl[q].server = s /\ rl[q].on /\ Leads(px, ld, ad, rl[q].to) # None}}]

\* A relay of Server s leads there.
Reaches(rl, s, to) == \E r \in RelayIds : rl[r] # None /\ rl[r].server = s /\ rl[r].to = to

Depends(px, rl, q, s) ==
  \/ q.op = "bumpProxy" /\ s # Home[q.id] /\ Reaches(rl, s, [type |-> "proxy", id |-> q.id])
  \/ q.op = "bumpLanding" /\ Reaches(rl, s, [type |-> "landing", id |-> q.id])
  \/ q.op = "bumpServer" /\ \E p \in ProxyIds : /\ px[p] # None /\ Home[p] = q.id /\ px[p].entry = "auto"
                                                /\ Reaches(rl, s, [type |-> "proxy", id |-> p])

Owed(px, rl, rq, ms, s) == s \in ms \/ \E k \in Requests : rq[k] # None /\ Depends(px, rl, rq[k], s)

LEMMA RunsIs ==
  \A s : /\ Content(s) = Runs(proxy, client, relay, landing, address, s)
         /\ Content(s)' = Runs(proxy', client', relay', landing', address', s)
  BY DEF Content, ListDesired, Endpoint, Runs, Leads, Proxies, Clients, Relays

LEMMA DependsIs ==
  \A q, s : /\ s \in Dependents(q) <=> Depends(proxy, relay, q, s)
            /\ s \in Dependents(q)' <=> Depends(proxy', relay', q, s)
<1>1. ASSUME NEW q, NEW s PROVE s \in Dependents(q) <=> Depends(proxy, relay, q, s)
  <2>1. \A t : s \in {relay[r].server : r \in Targeting(t)} <=> Reaches(relay, s, t)
    BY DEF Targeting, Relays, Reaches
  <2>2. CASE q.op = "bumpProxy"
    BY <2>1, <2>2 DEF Dependents, BumpForProxyTarget, Depends
  <2>3. CASE q.op = "bumpLanding"
    BY <2>1, <2>3 DEF Dependents, BumpForLandingTarget, Depends
  <2>4. CASE q.op = "bumpServer"
    <3>1. s \in BumpForAutoTargetServer(q.id) <=>
            \E p \in ProxyIds : /\ proxy[p] # None /\ Home[p] = q.id /\ proxy[p].entry = "auto"
                                /\ s \in {relay[r].server : r \in Targeting([type |-> "proxy", id |-> p])}
      BY DEF BumpForAutoTargetServer, Proxies
    <3> QED BY <2>1, <2>4, <3>1 DEF Dependents, Depends
  <2>5. CASE q.op \notin {"bumpProxy", "bumpLanding", "bumpServer"}
    BY <2>5 DEF Dependents, Depends
  <2> QED BY <2>2, <2>3, <2>4, <2>5
<1>2. ASSUME NEW CONSTANT q, NEW CONSTANT s PROVE s \in Dependents(q)' <=> Depends(proxy', relay', q, s)
  <2>1. \A t : s \in {relay'[r].server : r \in Targeting(t)'} <=> Reaches(relay', s, t)
    BY DEF Targeting, Relays, Reaches
  <2>2. CASE q.op = "bumpProxy"
    BY <2>1, <2>2 DEF Dependents, BumpForProxyTarget, Depends
  <2>3. CASE q.op = "bumpLanding"
    BY <2>1, <2>3 DEF Dependents, BumpForLandingTarget, Depends
  <2>4. CASE q.op = "bumpServer"
    <3>1. s \in BumpForAutoTargetServer(q.id)' <=>
            \E p \in ProxyIds : /\ proxy'[p] # None /\ Home[p] = q.id /\ proxy'[p].entry = "auto"
                                /\ s \in {relay'[r].server : r \in Targeting([type |-> "proxy", id |-> p])'}
      BY DEF BumpForAutoTargetServer, Proxies
    <3> QED BY <2>1, <2>4, <3>1 DEF Dependents, Depends
  <2>5. CASE q.op \notin {"bumpProxy", "bumpLanding", "bumpServer"}
    BY <2>5 DEF Dependents, Depends
  <2> QED BY <2>2, <2>3, <2>4, <2>5
<1> QED BY <1>1, <1>2

LEMMA FollowIs ==
  /\ RelaysFollowTargets <=>
       \A s \in Servers : Content(s) = shipped[s] \/ Owed(proxy, relay, request, missed, s)
  /\ RelaysFollowTargets' <=>
       \A s \in Servers : Content(s)' = shipped'[s] \/ Owed(proxy', relay', request', missed', s)
<1>1. \A s : s \in UNION {Dependents(q) : q \in {request[k] : k \in Requests} \ {None}} <=>
               \E k \in Requests : request[k] # None /\ Depends(proxy, relay, request[k], s)
  BY DependsIs
<1>2. \A s : s \in UNION {Dependents(q)' : q \in {request'[k] : k \in Requests} \ {None}} <=>
               \E k \in Requests : request'[k] # None /\ Depends(proxy', relay', request'[k], s)
  BY DependsIs
<1> QED BY <1>1, <1>2 DEF RelaysFollowTargets, Owed

\* A step that leaves alone what Server s is to run.
LEMMA RunsSame ==
  ASSUME NEW px, NEW cl, NEW rl, NEW ld, NEW ad, NEW px2, NEW cl2, NEW rl2, NEW ld2, NEW ad2, NEW s,
         \A p \in ProxyIds : Home[p] = s => px2[p] = px[p],
         \A c \in ClientIds : Home[Of[c]] = s => (cl2[c] = None <=> cl[c] = None),
         \A r \in RelayIds : (rl2[r] # None /\ rl2[r].server = s) <=> (rl[r] # None /\ rl[r].server = s),
         \A r \in RelayIds : rl[r] # None /\ rl[r].server = s =>
            /\ rl2[r].port = rl[r].port /\ rl2[r].net = rl[r].net /\ rl2[r].on = rl[r].on /\ rl2[r].to = rl[r].to
            /\ Leads(px2, ld2, ad2, rl[r].to) = Leads(px, ld, ad, rl[r].to)
  PROVE  Runs(px2, cl2, rl2, ld2, ad2, s) = Runs(px, cl, rl, ld, ad, s)
<1>1. {q \in {i \in ProxyIds : px2[i] # None} : Home[q] = s /\ px2[q].on} =
      {q \in {i \in ProxyIds : px[i] # None} : Home[q] = s /\ px[q].on}
  OBVIOUS
<1>2. ASSUME NEW p \in ProxyIds, Home[p] = s
      PROVE  {c \in {i \in ClientIds : cl2[i] # None} : Of[c] = p} = {c \in {i \in ClientIds : cl[i] # None} : Of[c] = p}
  BY <1>2
<1>3. Runs(px2, cl2, rl2, ld2, ad2, s).proxies = Runs(px, cl, rl, ld, ad, s).proxies
  BY <1>1, <1>2 DEF Runs
<1> DEFINE R2 == {q \in {i \in RelayIds : rl2[i] # None} : rl2[q].server = s /\ rl2[q].on /\ Leads(px2, ld2, ad2, rl2[q].to) # None}
           R1 == {q \in {i \in RelayIds : rl[i] # None} : rl[q].server = s /\ rl[q].on /\ Leads(px, ld, ad, rl[q].to) # None}
<1>4. R2 = R1
  OBVIOUS
<1> DEFINE F2(r) == [relay |-> r, port |-> rl2[r].port, net |-> rl2[r].net, to |-> Leads(px2, ld2, ad2, rl2[r].to)]
           F1(r) == [relay |-> r, port |-> rl[r].port, net |-> rl[r].net, to |-> Leads(px, ld, ad, rl[r].to)]
<1>5. \A r \in R1 : F2(r) = F1(r)
  OBVIOUS
<1>6. {F2(r) : r \in R2} = {F1(r) : r \in R1}
  <2> HIDE DEF R1, R2, F1, F2
  <2> QED BY <1>4, <1>5
<1>7. Runs(px2, cl2, rl2, ld2, ad2, s).relays = Runs(px, cl, rl, ld, ad, s).relays
  BY <1>6 DEF Runs
<1> QED BY <1>3, <1>7 DEF Runs

\* Where a relay leads depends on its target, and on an address if the target is automatic.
LEMMA LeadsSame ==
  ASSUME NEW px, NEW ld, NEW ad, NEW px2, NEW ld2, NEW ad2, NEW to \in Targets,
         to.type = "landing" => ld2[to.id].host = ld[to.id].host,
         to.type = "proxy" =>
            px2[to.id] = px[to.id] /\ (px[to.id].entry = "auto" => ad2[Home[to.id]] = ad[Home[to.id]])
  PROVE  Leads(px2, ld2, ad2, to) = Leads(px, ld, ad, to)
<1>1. CASE to.type = "manual"
  BY <1>1 DEF Leads
<1>2. CASE to.type = "landing"
  BY <1>2 DEF Leads
<1>3. CASE to.type = "proxy"
  BY <1>3 DEF Leads
<1> QED BY <1>1, <1>2, <1>3, TargetKinds

\* A debt is kept while its handler is, with the relays of the Server and their targets.
LEMMA OwedKept ==
  ASSUME NEW px, NEW rl, NEW rq, NEW ms, NEW px2, NEW rl2, NEW rq2, NEW ms2, NEW s,
         s \in ms => s \in ms2,
         \A k \in Requests : rq2[k] = rq[k] \/ rq[k] = None \/ ~Depends(px, rl, rq[k], s),
         \A r \in RelayIds : rl[r] # None /\ rl[r].server = s =>
            rl2[r] # None /\ rl2[r].server = s /\ rl2[r].to = rl[r].to,
         \A p \in ProxyIds : Reaches(rl, s, [type |-> "proxy", id |-> p]) => px2[p] = px[p],
         Owed(px, rl, rq, ms, s)
  PROVE  Owed(px2, rl2, rq2, ms2, s)
<1>1. CASE s \in ms
  BY <1>1 DEF Owed
<1>2. CASE s \notin ms
  <2>1. PICK k \in Requests : rq[k] # None /\ Depends(px, rl, rq[k], s)
    BY <1>2 DEF Owed
  <2>2. rq2[k] = rq[k]
    BY <2>1
  <2>3. \A to : Reaches(rl, s, to) => Reaches(rl2, s, to)
    BY DEF Reaches
  <2>4. Depends(px2, rl2, rq[k], s)
    BY <2>1, <2>3 DEF Depends
  <2> QED BY <2>1, <2>2, <2>4 DEF Owed
<1> QED BY <1>1, <1>2

\* Only the three bumps are waited for.
LEMMA NotWaited ==
  ASSUME NEW px, NEW rl, NEW s, NEW q, q.op \notin {"bumpProxy", "bumpLanding", "bumpServer"}
  PROVE  ~Depends(px, rl, q, s)
  BY DEF Depends
\* Server s has been told, or is going to be.
Followed(s) == Content(s) = shipped[s] \/ Owed(proxy, relay, request, missed, s)

\* The relays of Server s are as they were.
RelaysKept(s) ==
  /\ \A r \in RelayIds : (relay'[r] # None /\ relay'[r].server = s) <=> (relay[r] # None /\ relay[r].server = s)
  /\ \A r \in RelayIds : relay[r] # None /\ relay[r].server = s =>
       /\ relay'[r].port = relay[r].port /\ relay'[r].net = relay[r].net
       /\ relay'[r].on = relay[r].on /\ relay'[r].to = relay[r].to

\* So are its proxies and clients, and what its relays lead to.
TargetsKept(s) ==
  /\ \A p \in ProxyIds : Home[p] = s => proxy'[p] = proxy[p]
  /\ \A c \in ClientIds : Home[Of[c]] = s => (client'[c] = None <=> client[c] = None)
  /\ \A p \in ProxyIds : Reaches(relay, s, [type |-> "proxy", id |-> p]) =>
       proxy'[p] = proxy[p] /\ (proxy[p].entry = "auto" => address'[Home[p]] = address[Home[p]])
  /\ \A l \in LandingIds : Reaches(relay, s, [type |-> "landing", id |-> l]) => landing'[l].host = landing[l].host

\* No handler that owes it something has ended.
DebtsKept(s) ==
  \A k \in Requests : request'[k] = request[k] \/ request[k] = None \/ ~Depends(proxy, relay, request[k], s)

LEMMA Untouched ==
  ASSUME TopologyType, NEW s \in Servers, Followed(s), shipped'[s] = shipped[s], s \in missed => s \in missed',
         DebtsKept(s), RelaysKept(s), TargetsKept(s)
  PROVE  Followed(s)'
<1>1. ASSUME NEW r \in RelayIds, relay[r] # None, relay[r].server = s
      PROVE  Leads(proxy', landing', address', relay[r].to) = Leads(proxy, landing, address, relay[r].to)
  <2> DEFINE to == relay[r].to
  <2>1. to \in Targets
    BY <1>1, RelayFields DEF Relays
  <2>2. Reaches(relay, s, to)
    BY <1>1 DEF Reaches
  <2> HIDE DEF to
  <2>3. to.type = "landing" => landing'[to.id].host = landing[to.id].host
    BY <2>1, <2>2, TargetKinds DEF TargetsKept
  <2>4. to.type = "proxy" =>
          proxy'[to.id] = proxy[to.id] /\ (proxy[to.id].entry = "auto" => address'[Home[to.id]] = address[Home[to.id]])
    BY <2>1, <2>2, TargetKinds DEF TargetsKept
  <2>5. Leads(proxy', landing', address', to) = Leads(proxy, landing, address, to)
    BY <2>1, <2>3, <2>4, LeadsSame
  <2> QED BY <2>5 DEF to
<1>2. Runs(proxy', client', relay', landing', address', s) = Runs(proxy, client, relay, landing, address, s)
  BY <1>1, RunsSame DEF RelaysKept, TargetsKept
<1>3. Content(s)' = Content(s)
  BY <1>2, RunsIs
<1>4. Owed(proxy, relay, request, missed, s) => Owed(proxy', relay', request', missed', s)
  BY OwedKept DEF DebtsKept, RelaysKept, TargetsKept
<1> QED BY <1>3, <1>4 DEF Followed

LEMMA FollowedAll ==
  /\ RelaysFollowTargets <=> \A s \in Servers : Followed(s)
  /\ RelaysFollowTargets' <=> \A s \in Servers : Followed(s)'
  BY FollowIs DEF Followed

\* bumpVersion.
LEMMA Bumped ==
  ASSUME NEW S, NEW s \in Servers, BumpVersion(S)
  PROVE  /\ s \in S => Followed(s)'
         /\ s \notin S => shipped'[s] = shipped[s] /\ (s \in missed => s \in missed')
  BY DEF BumpVersion, Followed

\* What a relay leads to is there.
LEMMA ReachesThere ==
  ASSUME TopologyType, RefsInv, NEW s
  PROVE  /\ \A p \in ProxyIds : Reaches(relay, s, [type |-> "proxy", id |-> p]) => p \in Proxies
         /\ \A l \in LandingIds : Reaches(relay, s, [type |-> "landing", id |-> l]) => l \in Landings
         /\ \A to : Targeting(to) = {} => ~Reaches(relay, s, to)
<1>1. \A to : Reaches(relay, s, to) => \E r \in Relays : relay[r].to = to
  BY DEF Reaches, Relays
<1>2. \A p \in ProxyIds : LET to == [type |-> "proxy", id |-> p] IN to.type = "proxy" /\ to.id = p
  OBVIOUS
<1>3. \A l \in LandingIds : LET to == [type |-> "landing", id |-> l] IN to.type = "landing" /\ to.id = l
  OBVIOUS
<1>4. ASSUME NEW p \in ProxyIds, Reaches(relay, s, [type |-> "proxy", id |-> p]) PROVE p \in Proxies
  <2>1. PICK r \in Relays : relay[r].to = [type |-> "proxy", id |-> p]
    BY <1>1, <1>4
  <2> QED BY <1>2, <2>1 DEF RefsInv
<1>5. ASSUME NEW l \in LandingIds, Reaches(relay, s, [type |-> "landing", id |-> l]) PROVE l \in Landings
  <2>1. PICK r \in Relays : relay[r].to = [type |-> "landing", id |-> l]
    BY <1>1, <1>5
  <2> QED BY <1>3, <2>1 DEF RefsInv
<1> QED BY <1>1, <1>4, <1>5 DEF Targeting

\* Handlers of other kinds are not waited for.
LEMMA DebtsStay ==
  ASSUME TopologyType, NEW s,
         \/ request' = request
         \/ \E k \in Requests : /\ request[k] = None \/ request[k].op \notin {"bumpProxy", "bumpLanding", "bumpServer"}
                                /\ \A j \in Requests \ {k} : request'[j] = request[j]
  PROVE  DebtsKept(s)
  BY NotWaited DEF DebtsKept

LEMMA ReadFollows ==
  ASSUME TopologyType, RelaysFollowTargets, ReadStep, NEW s \in Servers
  PROVE  Followed(s)'
<1>1. UNCHANGED <<proxy, client, relay, landing, address, shipped, missed>>
  BY DEF ReadStep, rows
<1>2. PICK k \in Requests :
       \/ \E p \in ProxyIds, ch \in ProxyChanges : UpdateProxyRead(k, p, ch[1], ch[2])
       \/ \E p \in ProxyIds : DeleteProxyRead(k, p)
       \/ \E c \in ClientIds, u \in Users \cup {None} : AssignClientRead(k, c, u)
       \/ \E c \in ClientIds : DeleteClientRead(k, c)
       \/ \E u \in Users, c \in ClientIds, v \in ClientIds \cup {None}, h \in Addresses : CreateMyRelayRead(k, u, c, v, h)
       \/ PickRelayPort(k) \/ RetryRelayPort(k)
  BY DEF ReadStep
<1>3. request[k] = None \/ request[k].op = "createRelay"
  BY <1>2 DEF UpdateProxyRead, DeleteProxyRead, AssignClientRead, DeleteClientRead, CreateMyRelayRead,
              PickRelayPort, RetryRelayPort, Begin, At
<1>4. \A j \in Requests \ {k} : request'[j] = request[j]
  BY <1>2 DEF UpdateProxyRead, DeleteProxyRead, AssignClientRead, DeleteClientRead, CreateMyRelayRead,
              PickRelayPort, RetryRelayPort, Begin, TopologyType
<1>5. DebtsKept(s)
  BY <1>3, <1>4, DebtsStay
<1> QED BY <1>1, <1>5, Untouched, FollowedAll DEF RelaysKept, TargetsKept

LEMMA EndFollows ==
  ASSUME TopologyType, RelaysFollowTargets, EndStep, NEW s \in Servers
  PROVE  Followed(s)'
<1> PICK k \in Requests : BumpDependencies(k) \/ Abandon(k)
  BY DEF EndStep
<1>1. UNCHANGED <<proxy, client, relay, landing, address>> /\ \A j \in Requests \ {k} : request'[j] = request[j]
  BY DEF BumpDependencies, Abandon, rows, Finish, TopologyType
<1>2. CASE s \notin Dependents(request[k])
  <2>1. DebtsKept(s)
    BY <1>1, <1>2, DependsIs DEF DebtsKept
  <2>2. shipped'[s] = shipped[s] /\ (s \in missed => s \in missed')
    BY <1>2, Bumped DEF BumpDependencies, Abandon
  <2> QED BY <1>1, <2>1, <2>2, Untouched, FollowedAll DEF RelaysKept, TargetsKept
<1>3. CASE s \in Dependents(request[k]) /\ BumpDependencies(k)
  BY <1>3, Bumped DEF BumpDependencies
<1>4. CASE s \in Dependents(request[k]) /\ Abandon(k)
  BY <1>4 DEF Abandon, Followed, Owed
<1> QED BY <1>2, <1>3, <1>4

LEMMA ProxyFollows ==
  ASSUME TopologyType, RefsInv, RelaysFollowTargets, ProxyStep, NEW s \in Servers
  PROVE  Followed(s)'
<1>1. ASSUME NEW p \in ProxyIds, NEW c \in ClientIds, NEW row \in ProxyRow, InsertProxy(p, c, row)
      PROVE  Followed(s)'
  <2>1. /\ proxy' = [proxy EXCEPT ![p] = row] /\ p \notin Proxies /\ Of[c] = p
        /\ client' = [client EXCEPT ![c] = [user |-> None, ports |-> {}]]
        /\ UNCHANGED <<relay, landing, address, request>> /\ BumpVersion({Home[p]})
    BY <1>1 DEF InsertProxy, RefsInv
  <2>2. CASE s = Home[p]
    BY <2>1, <2>2, Bumped
  <2>3. CASE s # Home[p]
    <3>1. TargetsKept(s)
      BY <2>1, <2>3, ReachesThere DEF TargetsKept, TopologyType
    <3>2. RelaysKept(s) /\ DebtsKept(s)
      BY <2>1 DEF RelaysKept, DebtsKept
    <3> QED BY <2>1, <2>3, <3>1, <3>2, Bumped, Untouched, FollowedAll
  <2> QED BY <2>2, <2>3
<1>2. ASSUME NEW k \in Requests, UpdateProxy(k)
      PROVE  Followed(s)'
  <2> DEFINE q == request[k]
             p == q.id
             row == PrepareUpdate(p, q.field, q.value)
             told == IF ProxyRuntimeChanged(proxy[p], row) THEN {Home[p]} ELSE {}
             to == [type |-> "proxy", id |-> p]
  <2>1. p \in ProxyIds /\ proxy' = [proxy EXCEPT ![p] = row]
    BY <1>2, UpdateProxyRow
  <2>2. /\ UNCHANGED <<client, relay, landing, address>> /\ request[k].op = "updateProxy"
        /\ shipped' = [t \in Servers |-> IF t \in told THEN Content(t)' ELSE shipped[t]]
        /\ missed \ told \subseteq missed'
        /\ \A j \in Requests \ {k} : request'[j] = request[j]
    BY <1>2 DEF UpdateProxy, At, Finish, TopologyType
  <2>3. \/ request'[k] = [op |-> "bumpProxy", id |-> p]
        \/ row = q.previous /\ (q.previous = proxy[p] \/ BumpForProxyTarget(p) \subseteq missed')
    BY <1>2 DEF UpdateProxy, EndpointChanged, TopologyType
  <2>4. DebtsKept(s)
    BY <2>2, DebtsStay
  <2>5. RelaysKept(s)
    BY <2>2 DEF RelaysKept
  <2>6. CASE s \in told
    BY <2>2, <2>6 DEF Followed
  <2>7. CASE s \notin told /\ (row = proxy[p] \/ ~Reaches(relay, s, to))
    <3>1. TargetsKept(s)
      <4>1. CASE row = proxy[p]
        <5>1. proxy' = proxy
          BY <2>1, <4>1 DEF TopologyType
        <5> QED BY <2>2, <5>1 DEF TargetsKept
      <4>2. CASE row # proxy[p] /\ ~Reaches(relay, s, to)
        <5>1. Home[p] # s
          BY <2>7, <4>2 DEF ProxyRuntimeChanged
        <5>2. \A i \in ProxyIds \ {p} : proxy'[i] = proxy[i]
          BY <2>1 DEF TopologyType
        <5> HIDE DEF p, row
        <5> QED BY <2>2, <4>2, <5>1, <5>2 DEF TargetsKept
      <4> QED BY <2>7, <4>1, <4>2
    <3>2. shipped'[s] = shipped[s] /\ (s \in missed => s \in missed')
      BY <2>2, <2>7
    <3> QED BY <2>4, <2>5, <3>1, <3>2, Untouched, FollowedAll
  <2>8. CASE s \notin told /\ row # proxy[p] /\ Reaches(relay, s, to)
    <3>1. s # Home[p]
      BY <2>8 DEF ProxyRuntimeChanged
    <3>2. s \in BumpForProxyTarget(p)
      BY <2>8, <3>1 DEF Reaches, BumpForProxyTarget, Targeting, Relays
    <3>3. CASE request'[k] = [op |-> "bumpProxy", id |-> p]
      <4>1. request'[k].op = "bumpProxy" /\ request'[k].id = p
        BY <3>3
      <4>2. Depends(proxy', relay', request'[k], s)
        BY <2>2, <2>8, <3>1, <4>1 DEF Depends
      <4>3. request'[k] # None
        BY <2>1, <3>3, TopologyAssumption DEF BumpRequest
      <4> QED BY <4>2, <4>3 DEF Followed, Owed
    <3>4. CASE row = q.previous /\ BumpForProxyTarget(p) \subseteq missed'
      BY <3>2, <3>4 DEF Followed, Owed
    <3> QED BY <2>3, <2>8, <3>3, <3>4
  <2> QED BY <2>6, <2>7, <2>8
<1>3. ASSUME NEW k \in Requests, DeleteProxy(k)
      PROVE  Followed(s)'
  <2> DEFINE p == request[k].id
  <2>1. /\ Targeting([type |-> "proxy", id |-> p]) = {}
        /\ proxy' = [proxy EXCEPT ![p] = None]
        /\ client' = [c \in ClientIds |-> IF Of[c] = p THEN None ELSE client[c]]
        /\ UNCHANGED <<relay, landing, address>> /\ BumpVersion({Home[p]})
        /\ request[k].op = "deleteProxy" /\ \A j \in Requests \ {k} : request'[j] = request[j]
    BY <1>3 DEF DeleteProxy, ValidateProxyDelete, At, Finish, TopologyType
  <2>2. CASE s = Home[p]
    BY <2>1, <2>2, Bumped
  <2>3. CASE s # Home[p]
    <3>0. ~Reaches(relay, s, [type |-> "proxy", id |-> p])
      BY <2>1, ReachesThere
    <3>1. TargetsKept(s)
      <4> HIDE DEF p
      <4> QED BY <2>1, <2>3, <3>0 DEF TargetsKept, TopologyType
    <3>2. RelaysKept(s)
      BY <2>1 DEF RelaysKept
    <3>3. DebtsKept(s)
      BY <2>1, DebtsStay
    <3> QED BY <2>1, <2>3, <3>1, <3>2, <3>3, Bumped, Untouched, FollowedAll
  <2> QED BY <2>2, <2>3
<1> QED BY <1>1, <1>2, <1>3 DEF ProxyStep
LEMMA ClientFollows ==
  ASSUME TopologyType, RelaysFollowTargets, ClientStep, NEW s \in Servers
  PROVE  Followed(s)'
<1>0. UNCHANGED <<proxy, landing, address>>
  BY DEF ClientStep, CreateClient, CreateAssignedClient, UpdateClientRelayPortCount, AssignClient, DeleteClient
<1>1. DebtsKept(s)
  <2>1. \/ request' = request
        \/ \E k \in Requests : request[k].op \in {"assign", "deleteClient"} /\ \A j \in Requests \ {k} : request'[j] = request[j]
    BY DEF ClientStep, CreateClient, CreateAssignedClient, UpdateClientRelayPortCount, AssignClient, DeleteClient,
           At, Finish, TopologyType
  <2> QED BY <2>1, DebtsStay
<1>2. RelaysKept(s)
  <2>1. CASE relay' = relay
    BY <2>1 DEF RelaysKept
  <2>2. ASSUME NEW k \in Requests, DeleteClient(k) PROVE RelaysKept(s)
    <3>1. relay' = [r \in RelayIds |->
              IF r \in Relays /\ relay[r].via = request[k].id THEN [relay[r] EXCEPT !.via = None] ELSE relay[r]]
      BY <2>2 DEF DeleteClient
    <3>2. \A r \in Relays : LET new == [relay[r] EXCEPT !.via = None]
                            IN  /\ new # None /\ new.server = relay[r].server /\ new.port = relay[r].port
                                /\ new.net = relay[r].net /\ new.on = relay[r].on /\ new.to = relay[r].to
      <4>1. \A r \in Relays : [relay[r] EXCEPT !.via = None] \in RelayRow
        BY DEF Relays, TopologyType, RelayRow
      <4> QED BY <4>1, RelayFields, RowsAreThere DEF RelayRow
    <3>3. \A r \in RelayIds : relay[r] # None <=> r \in Relays
      BY DEF Relays
    <3>4. \A r \in Relays : /\ relay'[r] # None /\ relay'[r].server = relay[r].server
                            /\ relay'[r].port = relay[r].port /\ relay'[r].net = relay[r].net
                            /\ relay'[r].on = relay[r].on /\ relay'[r].to = relay[r].to
      <4>1. ASSUME NEW r \in Relays
            PROVE  relay'[r] = [relay[r] EXCEPT !.via = None] \/ relay'[r] = relay[r]
        BY <3>1 DEF Relays
      <4>2. \A r \in Relays : relay[r] # None
        BY DEF Relays
      <4> QED BY <3>2, <4>1, <4>2
    <3>5. \A r \in RelayIds : r \notin Relays => relay'[r] = relay[r]
      BY <3>1
    <3> QED BY <3>3, <3>4, <3>5 DEF RelaysKept
  <2> QED BY <2>1, <2>2
             DEF ClientStep, CreateClient, CreateAssignedClient, UpdateClientRelayPortCount, AssignClient
<1>3. ASSUME NEW c \in ClientIds, BumpVersion({Home[Of[c]]}),
             \A d \in ClientIds \ {c} : client'[d] = client[d]
      PROVE  Followed(s)'
  <2>1. CASE s = Home[Of[c]]
    BY <1>3, <2>1, Bumped
  <2>2. CASE s # Home[Of[c]]
    <3>1. TargetsKept(s)
      BY <1>0, <1>3, <2>2 DEF TargetsKept
    <3> QED BY <1>1, <1>2, <1>3, <2>2, <3>1, Bumped, Untouched, FollowedAll
  <2> QED BY <2>1, <2>2
<1>4. ASSUME NEW c \in ClientIds, client[c] # None, client'[c] # None, shipped' = shipped, missed' = missed,
             \A d \in ClientIds \ {c} : client'[d] = client[d]
      PROVE  Followed(s)'
  <2>1. TargetsKept(s)
    BY <1>0, <1>4 DEF TargetsKept
  <2> QED BY <1>1, <1>2, <1>4, <2>1, Untouched, FollowedAll
<1>5. ASSUME NEW c \in ClientIds,
             CreateClient(c) \/ (\E u \in Users, n \in RelayPortCounts : CreateAssignedClient(c, u, n))
      PROVE  Followed(s)'
  <2>1. BumpVersion({Home[Of[c]]}) /\ \A d \in ClientIds \ {c} : client'[d] = client[d]
    BY <1>5 DEF CreateClient, CreateAssignedClient, TopologyType
  <2> QED BY <1>3, <2>1
<1>6. ASSUME NEW c \in ClientIds, NEW n \in RelayPortCounts, UpdateClientRelayPortCount(c, n)
      PROVE  Followed(s)'
  <2>1. PICK range \in SUBSET PortNos : client' = [client EXCEPT ![c].ports = range]
    BY <1>6 DEF UpdateClientRelayPortCount
  <2>2. client[c] \in ClientRow /\ client[c] # None
    BY <1>6 DEF UpdateClientRelayPortCount, TopologyType
  <2>3. [client[c] EXCEPT !.ports = range] \in ClientRow
    BY <2>2 DEF ClientRow
  <2>4. client'[c] # None /\ \A d \in ClientIds \ {c} : client'[d] = client[d]
    BY <2>1, <2>3, RowsAreThere DEF TopologyType
  <2>5. shipped' = shipped /\ missed' = missed
    BY <1>6 DEF UpdateClientRelayPortCount
  <2> QED BY <1>4, <2>2, <2>4, <2>5
<1>7. ASSUME NEW k \in Requests, AssignClient(k)
      PROVE  Followed(s)'
  <2> DEFINE c == request[k].id
             u == request[k].user
             row == [user |-> u, ports |-> IF u = None THEN {} ELSE client[c].ports]
  <2>1. c \in ClientIds /\ u \in Users \cup {None}
    BY <1>7 DEF AssignClient, At, TopologyType, HandlerType, Doing
  <2>2. client[c] \in ClientRow /\ client[c] # None /\ client' = [client EXCEPT ![c] = row]
    BY <1>7, <2>1 DEF AssignClient, TopologyType
  <2>3. row \in ClientRow
    BY <2>1, <2>2 DEF ClientRow
  <2>4. client'[c] # None /\ \A d \in ClientIds \ {c} : client'[d] = client[d]
    BY <2>1, <2>2, <2>3, RowsAreThere DEF TopologyType
  <2>5. shipped' = shipped /\ missed' = missed
    BY <1>7 DEF AssignClient
  <2> QED BY <1>4, <2>1, <2>2, <2>4, <2>5
<1>8. ASSUME NEW k \in Requests, DeleteClient(k)
      PROVE  Followed(s)'
  <2>1. request[k].id \in ClientIds
    BY <1>8 DEF DeleteClient, At, TopologyType, HandlerType, Doing
  <2>2. BumpVersion({Home[Of[request[k].id]]}) /\ \A d \in ClientIds \ {request[k].id} : client'[d] = client[d]
    BY <1>8 DEF DeleteClient, TopologyType
  <2> QED BY <1>3, <2>1, <2>2
<1> QED BY <1>5, <1>6, <1>7, <1>8 DEF ClientStep

LEMMA RelayFollows ==
  ASSUME TopologyType, RefsInv, RelaysFollowTargets, RelayStep, NEW s \in Servers
  PROVE  Followed(s)'
<1>0. UNCHANGED <<proxy, client, landing, address>>
  BY DEF RelayStep, Inserted, InsertRelay, Changed, Removed, Listed
<1>1. TargetsKept(s)
  BY <1>0 DEF TargetsKept
<1>2. DebtsKept(s)
  <2>1. \/ request' = request
        \/ \E k \in Requests : /\ request[k].op \in {"createRelay", "deleteProxy", "deleteClient", "assign"}
                               /\ \A j \in Requests \ {k} : request'[j] = request[j]
    BY DEF RelayStep, Inserted, Changed, Removed, Listed, Finish, TopologyType
  <2> QED BY <2>1, DebtsStay
<1>3. ASSUME NEW r \in RelayIds, NEW row \in RelayRow, Inserted(r, row)
      PROVE  Followed(s)'
  <2>1. r \notin Relays /\ relay' = [relay EXCEPT ![r] = row] /\ BumpVersion({row.server})
    BY <1>3 DEF Inserted, InsertRelay, RefsInv
  <2>2. CASE s = row.server
    BY <2>1, <2>2, Bumped
  <2>3. CASE s # row.server
    <3>1. RelaysKept(s)
      BY <2>1, <2>3 DEF RelaysKept, Relays, TopologyType
    <3> QED BY <1>1, <1>2, <2>1, <2>3, <3>1, Bumped, Untouched, FollowedAll
  <2> QED BY <2>2, <2>3
<1>4. ASSUME NEW r \in RelayIds, NEW row \in RelayRow, Changed(r, row)
      PROVE  Followed(s)'
  <2>1. relay[r] # None /\ row # None /\ row.server = relay[r].server /\ relay' = [relay EXCEPT ![r] = row]
    BY <1>4, RowsAreThere DEF Changed
  <2>2. relay'[r] = row /\ \A q \in RelayIds \ {r} : relay'[q] = relay[q]
    BY <2>1 DEF TopologyType
  <2>3. CASE BumpVersion({row.server}) /\ s = row.server
    BY <2>3, Bumped
  <2>4. CASE BumpVersion({row.server}) /\ s # row.server
    <3>1. RelaysKept(s)
      BY <2>1, <2>2, <2>4 DEF RelaysKept
    <3> QED BY <1>1, <1>2, <2>4, <3>1, Bumped, Untouched, FollowedAll
  <2>5. CASE /\ BumpVersion({})
             /\ row.port = relay[r].port /\ row.net = relay[r].net /\ row.to = relay[r].to /\ row.on = relay[r].on
    <3>1. RelaysKept(s)
      BY <2>1, <2>2, <2>5 DEF RelaysKept
    <3>2. s \notin {}
      OBVIOUS
    <3>3. shipped'[s] = shipped[s] /\ (s \in missed => s \in missed')
      BY <2>5, <3>2, Bumped
    <3> QED BY <1>1, <1>2, <3>1, <3>3, Untouched, FollowedAll
  <2> QED BY <1>4, <2>3, <2>4, <2>5 DEF Changed
<1>5. ASSUME NEW r \in RelayIds, Removed(r)
      PROVE  Followed(s)'
  <2>1. relay[r] # None /\ relay' = [relay EXCEPT ![r] = None] /\ BumpVersion({relay[r].server})
    BY <1>5 DEF Removed
  <2>2. CASE s = relay[r].server
    BY <2>1, <2>2, Bumped
  <2>3. CASE s # relay[r].server
    <3>1. RelaysKept(s)
      BY <2>1, <2>3 DEF RelaysKept, TopologyType
    <3> QED BY <1>1, <1>2, <2>1, <2>3, <3>1, Bumped, Untouched, FollowedAll
  <2> QED BY <2>2, <2>3
<1>6. ASSUME Listed PROVE Followed(s)'
  <2>1. PICK S : shipped' = [t \in Servers |-> IF t \in S THEN Content(t)' ELSE shipped[t]] /\ missed' = missed \ S
    BY <1>6 DEF Listed
  <2>2. RelaysKept(s)
    BY <1>6 DEF Listed, RelaysKept
  <2>3. CASE s \in S
    BY <2>1, <2>3 DEF Followed
  <2>4. CASE s \notin S
    BY <1>1, <1>2, <2>1, <2>2, <2>4, Untouched, FollowedAll
  <2> QED BY <2>3, <2>4
<1> QED BY <1>3, <1>4, <1>5, <1>6 DEF RelayStep

LEMMA EndpointFollows ==
  ASSUME TopologyType, RefsInv, RelaysFollowTargets, EndpointStep, NEW s \in Servers
  PROVE  Followed(s)'
<1>0. UNCHANGED <<proxy, client, relay, shipped, missed>>
  BY DEF EndpointStep, CreateLanding, UpdateLanding, DeleteLanding, ReportSystemInfo
<1>1. RelaysKept(s)
  BY <1>0 DEF RelaysKept
<1>2. DebtsKept(s)
  <2>1. \/ request' = request
        \/ \E k \in Requests : request[k] = None /\ \A j \in Requests \ {k} : request'[j] = request[j]
    BY DEF EndpointStep, CreateLanding, UpdateLanding, DeleteLanding, ReportSystemInfo, Begin, TopologyType
  <2> QED BY <2>1, DebtsStay
<1>3. ASSUME TargetsKept(s) PROVE Followed(s)'
  BY <1>0, <1>1, <1>2, <1>3, Untouched, FollowedAll
<1>4. ASSUME NEW l \in LandingIds, NEW row \in LandingRow, CreateLanding(l, row)
      PROVE  Followed(s)'
  <2>1. l \notin Landings /\ landing' = [landing EXCEPT ![l] = row] /\ address' = address
    BY <1>4 DEF CreateLanding, RefsInv
  <2>2. TargetsKept(s)
    BY <1>0, <2>1, ReachesThere DEF TargetsKept, TopologyType
  <2> QED BY <1>3, <2>2
<1>5. ASSUME NEW l \in LandingIds, DeleteLanding(l)
      PROVE  Followed(s)'
  <2>1. /\ Targeting([type |-> "landing", id |-> l]) = {}
        /\ landing' = [landing EXCEPT ![l] = None] /\ address' = address
    BY <1>5 DEF DeleteLanding, LandingReferenced
  <2>2. TargetsKept(s)
    BY <1>0, <2>1, ReachesThere DEF TargetsKept, TopologyType
  <2> QED BY <1>3, <2>2
<1>6. ASSUME NEW k \in Requests, NEW l \in LandingIds, NEW row \in LandingRow, UpdateLanding(k, l, row)
      PROVE  Followed(s)'
  <2>1. landing' = [landing EXCEPT ![l] = row] /\ address' = address
    BY <1>6 DEF UpdateLanding
  <2>2. CASE row.host = landing[l].host \/ ~Reaches(relay, s, [type |-> "landing", id |-> l])
    <3>1. TargetsKept(s)
      BY <1>0, <2>1, <2>2 DEF TargetsKept, TopologyType
    <3> QED BY <1>3, <3>1
  <2>3. CASE row.host # landing[l].host /\ Reaches(relay, s, [type |-> "landing", id |-> l])
    <3>1. request'[k] = [op |-> "bumpLanding", id |-> l]
      BY <1>6, <2>3 DEF UpdateLanding, Begin, TopologyType
    <3>2. request'[k].op = "bumpLanding" /\ request'[k].id = l
      BY <3>1
    <3>3. request'[k] # None
      BY <3>1, TopologyAssumption DEF BumpRequest
    <3>4. Depends(proxy', relay', request'[k], s)
      BY <1>0, <2>3, <3>2 DEF Depends
    <3> QED BY <3>3, <3>4 DEF Followed, Owed
  <2> QED BY <2>2, <2>3
<1>7. ASSUME NEW k \in Requests, NEW t \in Servers, NEW a \in Addresses \cup {None}, ReportSystemInfo(k, t, a)
      PROVE  Followed(s)'
  <2>1. address' = [address EXCEPT ![t] = a] /\ landing' = landing
    BY <1>7 DEF ReportSystemInfo, SaveSystemInfo
  <2>2. ASSUME NEW p \in ProxyIds, Home[p] = t, proxy[p].entry = "auto", Reaches(relay, s, [type |-> "proxy", id |-> p])
        PROVE  Followed(s)'
    <3>1. request'[k] = [op |-> "bumpServer", id |-> t]
      BY <1>7 DEF ReportSystemInfo, Begin, TopologyType
    <3>2. request'[k].op = "bumpServer" /\ request'[k].id = t
      BY <3>1
    <3>3. request'[k] # None
      BY <3>1, TopologyAssumption DEF BumpRequest
    <3>4. proxy[p] # None
      BY <2>2, ReachesThere DEF Proxies
    <3>5. Depends(proxy', relay', request'[k], s)
      BY <1>0, <2>2, <3>2, <3>4 DEF Depends
    <3> QED BY <3>3, <3>5 DEF Followed, Owed
  <2>3. CASE \A p \in ProxyIds : Reaches(relay, s, [type |-> "proxy", id |-> p]) => Home[p] # t \/ proxy[p].entry # "auto"
    <3>1. \A u \in Servers \ {t} : address'[u] = address[u]
      BY <2>1 DEF TopologyType
    <3>2. \A p \in ProxyIds : Home[p] \in Servers
      BY TopologyAssumption
    <3>3. TargetsKept(s)
      BY <1>0, <2>1, <2>3, <3>1, <3>2 DEF TargetsKept
    <3> QED BY <1>3, <3>3
  <2> QED BY <2>2, <2>3
<1> QED BY <1>4, <1>5, <1>6, <1>7 DEF EndpointStep

LEMMA FollowStep ==
  ASSUME TopologyType, RefsInv, RelaysFollowTargets, TopologyNext
  PROVE  RelaysFollowTargets'
  BY NextIsStep, ReadFollows, EndFollows, ProxyFollows, ClientFollows, RelayFollows, EndpointFollows, FollowedAll

(***************************************************************************)
(* The theorems.                                                           *)
(***************************************************************************)
LEMMA InitTopology == TopologyInit => TopologyInv
<1> SUFFICES ASSUME TopologyInit PROVE TopologyInv
  OBVIOUS
<1>1. Proxies = {} /\ Clients = {} /\ Relays = {} /\ Landings = {}
  BY DEF TopologyInit, Proxies, Clients, Relays, Landings
<1>2. TopologyType
  <2>1. \A k \in Requests : HandlerType(request[k])
    BY NoneIsTyped DEF TopologyInit
  <2> QED BY <2>1 DEF TopologyInit, TopologyType
<1>3. RefsInv
  BY <1>1 DEF TopologyInit, RefsInv
<1>4. HandlersInv
  BY DEF TopologyInit, HandlersInv, Doing
<1>5. ListenersDisjoint
  BY <1>1 DEF ListenersDisjoint, Reservations
<1>6. RelaysFollowTargets
  BY DEF TopologyInit, RelaysFollowTargets
<1>7. RelaysStayWithHolder
  BY <1>1 DEF RelaysStayWithHolder
<1> QED BY <1>2, <1>3, <1>4, <1>5, <1>6, <1>7 DEF TopologyInv

LEMMA TypedStep ==
  ASSUME TopologyType, RefsInv, TopologyNext
  PROVE  TopologyType'
  BY NextIsStep, ReadTyped, EndTyped, ProxyTyped, ClientTyped, RelayTyped, EndpointTyped

LEMMA TopologyStutters == TopologyInv /\ UNCHANGED topologyVars => TopologyInv'
<1> SUFFICES ASSUME TopologyInv, UNCHANGED topologyVars PROVE TopologyInv'
  OBVIOUS
<1>1. UNCHANGED <<proxy, client, relay, landing, published, address, used, request, shipped, missed, late>>
  BY DEF topologyVars, rows
<1>2. TopologyType'
  BY <1>1 DEF TopologyInv, TopologyType
<1>3. RefsInv' /\ HandlersInv'
  BY <1>1 DEF TopologyInv, RefsInv, HandlersInv, Proxies, Clients, Relays, Landings, UserRelaysOf
<1>4. ListenersDisjoint'
  BY <1>1, DisjointIs DEF TopologyInv
<1>5. RelaysFollowTargets'
  <2>1. \A s : Content(s)' = Content(s)
    BY <1>1, RunsIs
  <2> QED BY <1>1, <2>1, FollowIs DEF TopologyInv
<1>6. RelaysStayWithHolder'
  BY <1>1 DEF TopologyInv, RelaysStayWithHolder, Relays, Held
<1> QED BY <1>2, <1>3, <1>4, <1>5, <1>6 DEF TopologyInv

LEMMA TopologyStep == TopologyInv /\ [TopologyNext]_topologyVars => TopologyInv'
<1>1. ASSUME TopologyInv, TopologyNext PROVE TopologyInv'
  BY <1>1, TypedStep, RefsStep, HandlersStep, ListenersStep, FollowStep, HolderStep DEF TopologyInv
<1> QED BY <1>1, TopologyStutters

LEMMA TopologyHolds == TopologySpec => []TopologyInv
  BY InitTopology, TopologyStep, PTL DEF TopologySpec

\* ListenerAvailable before every insert and update keeps the listeners of a Server
\* apart, for any number of rows, handlers and ports.
THEOREM ListenersNeverCollide == TopologySpec => []ListenersDisjoint
<1>1. TopologyInv => ListenersDisjoint
  BY DEF TopologyInv
<1> QED BY <1>1, TopologyHolds, PTL

\* A Server that relays to something is told when it changes, or a handler is about
\* to tell it, or the bump is on the list of the lost ones.
THEOREM TargetsAreFollowed == TopologySpec => []RelaysFollowTargets
<1>1. TopologyInv => RelaysFollowTargets
  BY DEF TopologyInv
<1> QED BY <1>1, TopologyHolds, PTL

\* A user's relay uses the clients of that user only, but for the relays that
\* were made while a client changed hands.
THEOREM RelaysGoWithHolder == TopologySpec => []RelaysStayWithHolder
<1>1. TopologyInv => RelaysStayWithHolder
  BY DEF TopologyInv
<1> QED BY <1>1, TopologyHolds, PTL
=============================================================================
