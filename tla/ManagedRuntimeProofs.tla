------------------------ MODULE ManagedRuntimeProofs ------------------------
(* Theorems about ManagedRuntime, for every set of ports and of desired    *)
(* states, and every number of changes and faults.                         *)
EXTENDS ManagedRuntime, SequenceTheorems, TLAPS

(***************************************************************************)
(* What is still to do, by name: the reachable tails of every procedure.   *)
(***************************************************************************)
E4 == <<"validate", "unit", "enable", "compare">>
E5 == <<"unit", "enable", "compare">>
E6 == <<"enable", "compare">>
E7 == <<"compare">>

\* Xray: enable, after its installation and with its certificate.
XE1 == <<"conflicts", "install", "certificate", "validate", "unit", "enable", "compare">>
XE2 == <<"install", "certificate", "validate", "unit", "enable", "compare">>
XE3 == <<"certificate", "validate", "unit", "enable", "compare">>
XI1 == <<"download", "extract", "mark", "place",
         "certificate", "validate", "unit", "enable", "compare">>
XI2 == <<"extract", "mark", "place", "certificate", "validate", "unit", "enable", "compare">>
XI3 == <<"mark", "place", "certificate", "validate", "unit", "enable", "compare">>
XI4 == <<"place", "certificate", "validate", "unit", "enable", "compare">>
XC1 == <<"toolScript", "toolMarker", "open80", "issue", "putCertificate", "putKey", "close80",
         "validate", "unit", "enable", "compare">>
XC2 == <<"toolMarker", "open80", "issue", "putCertificate", "putKey", "close80",
         "validate", "unit", "enable", "compare">>
XC3 == <<"open80", "issue", "putCertificate", "putKey", "close80",
         "validate", "unit", "enable", "compare">>
XC4 == <<"issue", "putCertificate", "putKey", "close80", "validate", "unit", "enable", "compare">>
XC5 == <<"putCertificate", "putKey", "close80", "validate", "unit", "enable", "compare">>
XC6 == <<"putKey", "close80", "validate", "unit", "enable", "compare">>
XC7 == <<"close80", "validate", "unit", "enable", "compare">>

\* Realm: the same without a certificate.
RE1 == <<"conflicts", "install", "validate", "unit", "enable", "compare">>
RE2 == <<"install", "validate", "unit", "enable", "compare">>
RI1 == <<"download", "extract", "mark", "place", "validate", "unit", "enable", "compare">>
RI2 == <<"extract", "mark", "place", "validate", "unit", "enable", "compare">>
RI3 == <<"mark", "place", "validate", "unit", "enable", "compare">>
RI4 == <<"place", "validate", "unit", "enable", "compare">>

\* The exchange of the configuration, and the rollbacks.
S1 == <<"save", "replace", "restart", "health", "firewall">>
S2 == <<"replace", "restart", "health", "firewall">>
S3 == <<"restart", "health", "firewall">>
S4 == <<"health", "firewall">>
S5 == <<"firewall">>
B1 == <<"restore", "restart", "health", "firewall">>
XD1 == <<"stop", "disable", "dropConfig">>
XD2 == <<"disable", "dropConfig">>
XD3 == <<"dropConfig">>
RD1 == <<"stop", "disable", "dropConfig", "firewall">>
RD2 == <<"disable", "dropConfig", "firewall">>
RD3 == <<"dropConfig", "firewall">>

\* Disable and purge.
K1 == <<"stop", "disable", "removeConfigs", "firewall">>
K2 == <<"disable", "removeConfigs", "firewall">>
K3 == <<"removeConfigs", "firewall">>
G1 == <<"stop", "disable", "firewall", "removeUnit",
        "emptyConfigDir", "emptyInstallDir", "removeMarker">>
G2 == <<"disable", "firewall", "removeUnit", "emptyConfigDir", "emptyInstallDir", "removeMarker">>
G3 == <<"firewall", "removeUnit", "emptyConfigDir", "emptyInstallDir", "removeMarker">>
G4 == <<"removeUnit", "emptyConfigDir", "emptyInstallDir", "removeMarker">>
H4 == <<"firewall", "emptyConfigDir", "emptyInstallDir", "removeMarker">>
G5 == <<"emptyConfigDir", "emptyInstallDir", "removeMarker">>
G6 == <<"emptyInstallDir", "removeMarker">>
G7 == <<"removeMarker">>

\* The other parts, the renewal of a certificate, and the helper.
N1 == <<"block">>
A1 == <<"stage">>
P1 == <<"close80", "emptyTool", "dropCertificates", "dropToolMarker">>
P2 == <<"emptyTool", "dropCertificates", "dropToolMarker">>
P3 == <<"dropCertificates", "dropToolMarker">>
P4 == <<"dropToolMarker">>
C1 == <<"toolScript", "toolMarker", "open80", "issue", "putCertificate", "putKey", "close80">>
C2 == <<"toolMarker", "open80", "issue", "putCertificate", "putKey", "close80">>
C3 == <<"open80", "issue", "putCertificate", "putKey", "close80">>
C4 == <<"issue", "putCertificate", "putKey", "close80">>
C5 == <<"putCertificate", "putKey", "close80">>
C6 == <<"putKey", "close80">>
C7 == <<"close80">>
U0 == <<"activate">>
U1 == <<"stop", "disable", "removeUnit", "removeDirs", "removeHelper">>
U2 == <<"disable", "removeUnit", "removeDirs", "removeHelper">>
U3 == <<"removeUnit", "removeDirs", "removeHelper">>
U4 == <<"removeDirs", "removeHelper">>
U5 == <<"removeHelper">>

(***************************************************************************)
(* Types, and what holds between two syncs.                                *)
(***************************************************************************)
Service == [marker : BOOLEAN, tmp : BOOLEAN, bin : BOOLEAN, unit : BOOLEAN, enabled : BOOLEAN,
            conf : Config \cup {None}, prev : Config \cup {None}, run : Config \cup {None},
            rules : SUBSET Ports]

Certificates == {None, "split", "valid", "due"}

Acme == [marker : BOOLEAN, script : BOOLEAN, cert : Certificates, old : Certificates,
         open80 : BOOLEAN]

Host == [up : BOOLEAN, unit : BOOLEAN, enabled : BOOLEAN, dirs : BOOLEAN, helper : BOOLEAN]

RuntimeType ==
  /\ st \in [Services -> Service]
  /\ acme \in Acme
  /\ desired \in Jobs /\ version \in Nat \ {0}
  /\ job \in Jobs \cup {None} /\ fetched \in Nat
  /\ undoing \in BOOLEAN /\ failed \subseteq Parts
  /\ before \in Service /\ slips \in Nat
  /\ host \in Host /\ archived \in BOOLEAN

IdleInv ==
  /\ job = None => part = None /\ ~undoing /\ failed = {}
  /\ job # None => part \in Parts /\ (fetched = 0 => part = "acme")
  /\ part = "xray" => failed \subseteq {"xray"}
  /\ part = "realm" => failed \subseteq {"xray", "realm"}

(***************************************************************************)
(* The Agent on its host: while the Server is not archived it is whole, and*)
(* the helper has done what its remaining operations leave out.            *)
(***************************************************************************)
HelperInv ==
  \/ helper = <<>> \/ (helper = U0 /\ host.unit) \/ helper = U1
  \/ helper = U2 /\ ~host.up
  \/ helper = U3 /\ ~host.up /\ ~host.enabled
  \/ helper \in {U4, U5} /\ ~host.up /\ ~host.enabled /\ ~host.unit

HostInv ==
  /\ AgentOutlivesItsDuty
  /\ HelperInv
  /\ helper # <<>> => archived
  /\ job # None /\ fetched # 0 => ~archived

(***************************************************************************)
(* A service that is not ours has nothing of us but a download, and without*)
(* its unit it neither runs nor starts.                                    *)
(***************************************************************************)
Blank(x) ==
  /\ ~x.marker /\ ~x.bin /\ ~x.unit /\ ~x.enabled
  /\ x.conf = None /\ x.prev = None /\ x.run = None /\ x.rules = {}

OursOnly(s) ==
  /\ ~st[s].marker => Blank(st[s])
  /\ ~st[s].unit => st[s].run = None /\ ~st[s].enabled

OwnedInv == \A s \in Services : OursOnly(s)

(***************************************************************************)
(* Bringing a service up.  Found: it is as its manager found it, unless it *)
(* was restarted.  Calm: such a restart did no harm, because nothing has   *)
(* been done to the certificate yet.                                       *)
(***************************************************************************)
Found(s) ==
  /\ st[s].conf = before.conf /\ st[s].rules = before.rules
  /\ st[s].run = before.run \/ (slips # 0 /\ st[s].run \in {None, before.conf})

Calm(s) == before.run = before.conf /\ CanRun(s, before.conf) => st[s].run = before.conf

Owned(s) == Found(s) /\ Calm(s) /\ st[s].marker

Checked(s) == st[s].marker /\ CanRun(s, job[s].config)

Ready(s) == Checked(s) /\ st[s].unit /\ st[s].enabled

Saved(s) == before.conf # None => st[s].prev = before.conf

\* The new configuration is in place; its manager found another one, and kept a copy
\* of it, or found this one and not running.
Replaced(s) ==
  /\ st[s].conf = job[s].config /\ st[s].rules = before.rules
  /\ \/ before.conf # job[s].config /\ Saved(s)
     \/ before.conf = job[s].config /\ (slips # 0 \/ before.run # before.conf)

\* Only the firewall is left.
Serving(s) ==
  /\ st[s].conf = job[s].config /\ st[s].rules = before.rules
  /\ st[s].run = job[s].config \/ FoundTorn
  /\ \/ before.conf # job[s].config /\ Saved(s) /\ st[s].run = job[s].config
     \/ before.conf = job[s].config
        /\ (st[s].run = before.run \/ slips # 0 \/ before.run # before.conf)

Bringing(s) ==
  \/ s = "xray" /\ todo \in {XE1, XE2, XI1, XI2, XI3} /\ Found(s) /\ Calm(s)
  \/ s = "xray" /\ todo \in {XI4, XE3, XC1, XC2, XC3, XC4, XC5} /\ Owned(s)
  \/ s = "xray" /\ todo = XC6 /\ Found(s) /\ st[s].marker
  \/ s = "xray" /\ todo = XC7 /\ Found(s) /\ Checked(s)
  \/ s = "realm" /\ todo \in {RE1, RE2, RI1, RI2, RI3} /\ Found(s) /\ Calm(s)
  \/ s = "realm" /\ todo = RI4 /\ Owned(s)
  \/ todo \in {E4, E5} /\ Found(s) /\ Checked(s)
  \/ todo = E6 /\ Found(s) /\ Checked(s) /\ st[s].unit
  \/ todo = E7 /\ Found(s) /\ Ready(s)
  \/ todo = S1 /\ Found(s) /\ Ready(s) /\ before.conf \notin {None, job[s].config}
  \/ todo = S2 /\ Found(s) /\ Ready(s) /\ before.conf # job[s].config /\ Saved(s)
  \/ todo = S3 /\ Ready(s) /\ Replaced(s)
  \/ todo = S4 /\ Ready(s) /\ Replaced(s) /\ st[s].run = job[s].config
  \/ todo = S5 /\ Ready(s) /\ Serving(s)
  \/ /\ todo = <<>> /\ Ready(s) /\ st[s].conf = job[s].config
     /\ st[s].rules = RulesOf(job[s].config)
     /\ st[s].run = job[s].config \/ FoundTorn

(***************************************************************************)
(* An error on the way.  Excused: the promise of FailureKeepsService does  *)
(* not cover what the manager found, or a second fault came.               *)
(***************************************************************************)
Excused(s) ==
  \/ slips > 1 \/ before.conf = None \/ before.run # before.conf
  \/ before.rules # RulesOf(before.conf) \/ ~CanRun(s, before.conf)

Kept(s) ==
  \/ Excused(s)
  \/ st[s].conf = before.conf /\ st[s].run = before.run /\ st[s].rules = before.rules

\* Undoing a change: the old configuration is in place.
Restored(s) ==
  /\ before.conf # None /\ st[s].conf = before.conf
  /\ slips > 1 \/ (CanRun(s, before.conf) => st[s].run = before.conf)

Failing(s) ==
  \/ todo = <<>> /\ Kept(s)
  \/ s = "xray" /\ todo = C7 /\ ~undoing /\ Kept(s)
  \/ /\ undoing /\ slips # 0 /\ st[s].marker /\ st[s].unit
     /\ \/ todo = B1 /\ before.conf # None /\ st[s].prev = before.conf
        \/ todo = S3 /\ before.conf # None /\ st[s].conf = before.conf
        \/ todo \in {S4, S5} /\ Restored(s)
        \/ todo \in {XD1, XD2, XD3, RD1, RD2, RD3, S5} /\ before.conf = None

(***************************************************************************)
(* Stopping a service and removing it: each operation left out is done.    *)
(***************************************************************************)
Off(s) == st[s].run = None /\ ~st[s].enabled

Stopping(s) ==
  \/ todo = K1
  \/ todo = K2 /\ st[s].run = None
  \/ todo = K3 /\ Off(s)
  \/ todo = S5 /\ Off(s) /\ st[s].conf = None
  \/ todo = <<>> /\ Off(s) /\ st[s].conf = None /\ st[s].rules = {}

NoConfig(s) == Off(s) /\ st[s].rules = {} /\ st[s].conf = None /\ st[s].prev = None

Purging(s) ==
  \/ todo = S5 /\ ~st[s].marker
  \/ todo = G1
  \/ todo = G2 /\ st[s].run = None
  \/ todo = G3 /\ Off(s)
  \/ todo = G4 /\ Off(s) /\ st[s].rules = {}
  \/ todo = H4 /\ ~st[s].unit
  \/ todo = G5 /\ ~st[s].unit /\ st[s].rules = {}
  \/ todo = G6 /\ ~st[s].unit /\ NoConfig(s)
  \/ todo = G7 /\ ~st[s].unit /\ NoConfig(s) /\ ~st[s].bin /\ ~st[s].tmp
  \/ todo = <<>> /\ ~st[s].marker

ServicePhase(s) ==
  \/ job[s].do = "run" /\ s \notin failed /\ ~undoing /\ Bringing(s)
  \/ job[s].do = "run" /\ s \in failed /\ Failing(s)
  \/ job[s].do = "stop" /\ s \notin failed /\ ~undoing /\ Stopping(s)
  \/ job[s].do = "purge" /\ s \notin failed /\ ~undoing /\ Purging(s)
  \/ job[s].do # "run" /\ s \in failed /\ todo = <<>>

ServiceInv == \A s \in Services : part = s => ServicePhase(s)

(***************************************************************************)
(* The other parts, and what a decommission has done so far.               *)
(***************************************************************************)
Clearing ==
  \/ todo = P1
  \/ todo \in {P2, P3} /\ ~acme.open80
  \/ todo = P4 /\ ~acme.open80 /\ acme.cert = None
  \/ todo = <<>> /\ ~acme.open80 /\ acme.cert = None /\ ~acme.marker

OtherInv ==
  /\ part = "china" => ~undoing /\ todo \in {N1, <<>>}
  /\ part = "agent" => ~undoing /\ todo \in {A1, <<>>}
  /\ part = "acme" /\ fetched = 0 =>
       ~undoing /\ todo \in {C1, C2, C3, C4, C5, C6, C7, <<>>}
  /\ part = "acme" /\ fetched # 0 =>
       ~undoing /\ job.decommission /\ (IF failed = {} THEN Clearing ELSE todo = <<>>)

GoneInv ==
  job # None /\ fetched # 0 /\ job.decommission /\ failed = {} =>
    /\ part # "xray" => Blank(st["xray"])
    /\ part \notin Services => Blank(st["realm"])
    /\ part \in {"acme", "agent"} \/ (part = "china" /\ todo = <<>>) => china = None
    /\ part = "agent" => ~acme.open80 /\ acme.cert = None /\ ~acme.marker

RuntimeInv ==
  /\ RuntimeType /\ IdleInv /\ HostInv
  /\ OwnedInv /\ ServiceInv /\ OtherInv /\ GoneInv

(***************************************************************************)
(* The names unfolded.                                                     *)
(***************************************************************************)
First(todos, op, rest) ==
  todos # <<>> /\ Head(todos) = op /\ Tail(todos) = rest /\ <<>> \o Tail(todos) = rest

\* What follows each operation of enable,
LEMMA EnableTails ==
  /\ First(E4, "validate", E5)
  /\ First(E5, "unit", E6)
  /\ First(E6, "enable", E7)
  /\ First(E7, "compare", <<>>)
  /\ First(XE1, "conflicts", XE2)
  /\ First(XE2, "install", XE3)
  /\ First(XE3, "certificate", E4)
  /\ First(RE1, "conflicts", RE2)
  /\ First(RE2, "install", E4)
BY DEF First, E4, E5, E6, E7, XE1, XE2, XE3, RE1, RE2

\* of an installation,
LEMMA InstallTails ==
  /\ First(XI1, "download", XI2)
  /\ First(XI2, "extract", XI3)
  /\ First(XI3, "mark", XI4)
  /\ First(XI4, "place", XE3)
  /\ First(RI1, "download", RI2)
  /\ First(RI2, "extract", RI3)
  /\ First(RI3, "mark", RI4)
  /\ First(RI4, "place", E4)
BY DEF First, XI1, XI2, XI3, XI4, XE3, RI1, RI2, RI3, RI4, E4

\* of a certificate on the way to run Xray,
LEMMA CertificateTails ==
  /\ First(XC1, "toolScript", XC2)
  /\ First(XC2, "toolMarker", XC3)
  /\ First(XC3, "open80", XC4)
  /\ First(XC4, "issue", XC5)
  /\ First(XC5, "putCertificate", XC6)
  /\ First(XC6, "putKey", XC7)
  /\ First(XC7, "close80", E4)
BY DEF First, XC1, XC2, XC3, XC4, XC5, XC6, XC7, E4

\* of the exchange of a configuration,
LEMMA ExchangeTails ==
  /\ First(S1, "save", S2)
  /\ First(S2, "replace", S3)
  /\ First(S3, "restart", S4)
  /\ First(S4, "health", S5)
  /\ First(S5, "firewall", <<>>)
BY DEF First, S1, S2, S3, S4, S5

\* of a rollback,
LEMMA RollbackTails ==
  /\ First(B1, "restore", S3)
  /\ First(XD1, "stop", XD2)
  /\ First(XD2, "disable", XD3)
  /\ First(XD3, "dropConfig", <<>>)
  /\ First(RD1, "stop", RD2)
  /\ First(RD2, "disable", RD3)
  /\ First(RD3, "dropConfig", S5)
BY DEF First, B1, S3, XD1, XD2, XD3, RD1, RD2, RD3, S5

\* of disable,
LEMMA StopTails ==
  /\ First(K1, "stop", K2)
  /\ First(K2, "disable", K3)
  /\ First(K3, "removeConfigs", S5)
BY DEF First, K1, K2, K3, S5

\* of purge,
LEMMA PurgeTails ==
  /\ First(G1, "stop", G2)
  /\ First(G2, "disable", G3)
  /\ First(G3, "firewall", G4)
  /\ First(G4, "removeUnit", G5)
  /\ First(H4, "firewall", G5)
  /\ First(G5, "emptyConfigDir", G6)
  /\ First(G6, "emptyInstallDir", G7)
  /\ First(G7, "removeMarker", <<>>)
BY DEF First, G1, G2, G3, G4, G5, H4, G6, G7

\* of the other parts,
LEMMA OtherTails ==
  /\ First(N1, "block", <<>>)
  /\ First(A1, "stage", <<>>)
  /\ First(P1, "close80", P2)
  /\ First(P2, "emptyTool", P3)
  /\ First(P3, "dropCertificates", P4)
  /\ First(P4, "dropToolMarker", <<>>)
BY DEF First, N1, A1, P1, P2, P3, P4

\* of a renewal,
LEMMA RenewTails ==
  /\ First(C1, "toolScript", C2)
  /\ First(C2, "toolMarker", C3)
  /\ First(C3, "open80", C4)
  /\ First(C4, "issue", C5)
  /\ First(C5, "putCertificate", C6)
  /\ First(C6, "putKey", C7)
  /\ First(C7, "close80", <<>>)
BY DEF First, C1, C2, C3, C4, C5, C6, C7

\* and of the helper.
LEMMA HelperTails ==
  /\ First(U0, "activate", <<>>)
  /\ First(U1, "stop", U2)
  /\ First(U2, "disable", U3)
  /\ First(U3, "removeUnit", U4)
  /\ First(U4, "removeDirs", U5)
  /\ First(U5, "removeHelper", <<>>)
BY DEF First, U0, U1, U2, U3, U4, U5

(***************************************************************************)
(* The procedures by name.  Two sequences joined, checked place by place.  *)
(***************************************************************************)
Ops == {"conflicts", "install", "certificate", "validate", "unit", "enable", "compare",
        "download", "extract", "mark", "place", "toolScript", "toolMarker", "open80", "issue",
        "putCertificate", "putKey", "close80", "save", "replace", "restart", "health",
        "firewall", "stop", "disable", "removeConfigs", "removeUnit", "emptyConfigDir",
        "emptyInstallDir", "removeMarker", "removeDirs", "removeHelper"}

Join(p, q, r) ==
  /\ p \in Seq(Ops) /\ q \in Seq(Ops) /\ r \in Seq(Ops)
  /\ Len(r) = Len(p) + Len(q)
  /\ \A i \in 1..Len(p) : r[i] = p[i]
  /\ \A i \in 1..Len(q) : r[Len(p) + i] = q[i]

LEMMA Joined ==
  ASSUME NEW p, NEW q, NEW r, Join(p, q, r)
  PROVE  p \o q = r
<1> USE DEF Join
<1>1. p \o q \in Seq(Ops) /\ Len(p \o q) = Len(p) + Len(q)
  BY ConcatProperties
<1>2. \A i \in 1..Len(p \o q) : (p \o q)[i] = IF i <= Len(p) THEN p[i] ELSE q[i - Len(p)]
  BY ConcatProperties
<1>3. Len(p) \in Nat /\ Len(q) \in Nat
  BY LenProperties
<1>4. ASSUME NEW i \in 1..Len(r) PROVE (p \o q)[i] = r[i]
  <2>1. CASE i <= Len(p)
    BY <1>1, <1>2, <1>3, <2>1
  <2>2. CASE ~(i <= Len(p))
    <3>1. i - Len(p) \in 1..Len(q) /\ i = Len(p) + (i - Len(p))
      BY <1>3, <2>2
    <3> QED
      BY <1>1, <1>2, <1>3, <2>2, <3>1
  <2> QED
    BY <2>1, <2>2
<1> QED
  BY <1>1, <1>4, SeqEqual

LEMMA InstallPrograms ==
  /\ XrayInstall \o XE3 = XI1
  /\ RealmInstall \o E4 = RI1
<1> DEFINE files == <<"download", "extract">>
           placing == <<"mark", "place">>
           install == <<"download", "extract", "mark", "place">>
<1>1. Join(files, placing, install) /\ Join(install, XE3, XI1) /\ Join(install, E4, RI1)
  BY DEF Join, Ops, XE3, XI1, E4, RI1
<1> HIDE DEF files, placing, install
<1>2. files \o placing = install /\ install \o XE3 = XI1 /\ install \o E4 = RI1
  BY <1>1, Joined
<1>3. XrayInstall = install /\ RealmInstall = install
  BY <1>2 DEF XrayInstall, RealmInstall, XrayDownload, RealmDownload, files, placing
<1> QED
  BY <1>2, <1>3

LEMMA CertificatePrograms ==
  /\ CertificateProgram \in {C1, C3}
  /\ C1 \o E4 = XC1 /\ C3 \o E4 = XC3
<1> DEFINE tool == <<"toolScript", "toolMarker">>
           order == <<"open80", "issue", "putCertificate", "putKey", "close80">>
<1>1. Join(tool, order, C1) /\ Join(C1, E4, XC1) /\ Join(C3, E4, XC3)
  BY DEF Join, Ops, C1, C3, E4, XC1, XC3
<1>2. order = C3 /\ <<>> \o order = order
  BY DEF C3
<1> HIDE DEF tool, order
<1>3. tool \o order = C1 /\ C1 \o E4 = XC1 /\ C3 \o E4 = XC3
  BY <1>1, Joined
<1>4. CertificateProgram \in {tool \o order, <<>> \o order}
  BY DEF CertificateProgram, tool, order
<1> QED
  BY <1>2, <1>3, <1>4

LEMMA ExchangePrograms ==
  ASSUME NEW b \in BOOLEAN
  PROVE  /\ Exchange(b) \o <<>> = IF b THEN S1 ELSE S2
         /\ Resume(b) \o <<>> = IF b THEN S5 ELSE S3
         /\ XrayRollback(b) = IF b THEN B1 ELSE XD1
         /\ RealmRollback(b) = IF b THEN B1 ELSE RD1
<1> DEFINE save == <<"save">>
           tail == <<"replace", "restart", "health", "firewall">>
<1>1. Join(save, tail, S1)
  BY DEF Join, Ops, S1
<1>2. tail = S2 /\ <<>> \o tail = tail
  BY DEF S2
<1>3. S1 \o <<>> = S1 /\ S2 \o <<>> = S2 /\ S3 \o <<>> = S3 /\ S5 \o <<>> = S5
  BY DEF S1, S2, S3, S5
<1> HIDE DEF save, tail
<1>4. save \o tail = S1
  BY <1>1, Joined
<1>5. Exchange(b) = IF b THEN save \o tail ELSE <<>> \o tail
  BY DEF Exchange, save, tail
<1>6. Resume(b) = IF b THEN S5 ELSE S3
  BY DEF Resume, S3, S5
<1>7. /\ XrayRollback(b) = IF b THEN B1 ELSE XD1
      /\ RealmRollback(b) = IF b THEN B1 ELSE RD1
  BY DEF XrayRollback, RealmRollback, B1, XD1, RD1
<1> QED
  BY <1>2, <1>3, <1>4, <1>5, <1>6, <1>7

LEMMA RemovalPrograms ==
  ASSUME NEW m \in BOOLEAN, NEW u \in BOOLEAN
  PROVE  /\ XrayDisable(m, u) = IF m THEN IF u THEN K1 ELSE K3 ELSE <<>>
         /\ RealmDisable(m, u) = IF m THEN IF u THEN K1 ELSE K3 ELSE <<>>
         /\ XrayPurge(m, u) = IF m THEN IF u THEN G1 ELSE H4 ELSE S5
         /\ RealmPurge(m, u) = IF m THEN IF u THEN G1 ELSE H4 ELSE S5
         /\ Uninstall(u) = IF u THEN U1 ELSE U4
<1> DEFINE off == <<"stop", "disable">>
           configs == <<"removeConfigs", "firewall">>
           gone == <<"stop", "disable", "firewall", "removeUnit">>
           rules == <<"firewall">>
           files == <<"emptyConfigDir", "emptyInstallDir", "removeMarker">>
           unit == <<"stop", "disable", "removeUnit">>
           agent == <<"removeDirs", "removeHelper">>
<1>1. /\ Join(off, configs, K1) /\ Join(gone, files, G1) /\ Join(rules, files, H4)
      /\ Join(unit, agent, U1)
  BY DEF Join, Ops, K1, G1, H4, U1
<1>2. /\ configs = K3 /\ <<>> \o configs = configs /\ agent = U4 /\ <<>> \o agent = agent
      /\ rules = S5
  BY DEF K3, U4, S5
<1> HIDE DEF off, configs, gone, rules, files, unit, agent
<1>3. off \o configs = K1 /\ gone \o files = G1 /\ rules \o files = H4 /\ unit \o agent = U1
  BY <1>1, Joined
<1>4. /\ XrayDisable(m, u) = IF m THEN IF u THEN off \o configs ELSE <<>> \o configs ELSE <<>>
      /\ RealmDisable(m, u) = IF m THEN IF u THEN off \o configs ELSE <<>> \o configs ELSE <<>>
  BY DEF XrayDisable, RealmDisable, off, configs
<1>5. /\ XrayPurge(m, u) = IF m THEN IF u THEN gone \o files ELSE rules \o files ELSE rules
      /\ RealmPurge(m, u) = IF m THEN IF u THEN gone \o files ELSE rules \o files ELSE rules
  BY DEF XrayPurge, RealmPurge, gone, rules, files
<1>6. Uninstall(u) = IF u THEN unit \o agent ELSE <<>> \o agent
  BY DEF Uninstall, unit, agent
<1> QED
  BY <1>2, <1>3, <1>4, <1>5, <1>6

LEMMA OtherPrograms ==
  /\ XrayEnable = XE1 /\ RealmEnable = RE1
  /\ AcmePurge = P1 /\ ChinaApply = N1 /\ PrepareUninstall = A1 /\ C7 = <<"close80">>
  /\ U0 = <<"activate">>
BY DEF XrayEnable, RealmEnable, XE1, RE1, AcmePurge, P1, ChinaApply, N1, PrepareUninstall, A1,
       C7, U0

(***************************************************************************)
(* The Agent on its host.                                                  *)
(***************************************************************************)
LEMMA NoneApart ==
  /\ None \notin Jobs /\ None \notin Config /\ None \notin Parts
  /\ None \notin {"split", "valid", "due"}
BY JobsAssumption

LEMMA HostInit == ASSUME RuntimeInit PROVE HostInv
BY DEF RuntimeInit, HostInv, AgentOutlivesItsDuty, HelperInv

\* Whatever leaves the host alone.
LEMMA HostKept ==
  ASSUME HostInv, UNCHANGED hostVars, job' # None /\ fetched' # 0 => ~archived
  PROVE  HostInv'
BY DEF HostInv, HelperInv, AgentOutlivesItsDuty, hostVars

LEMMA HostReport ==
  ASSUME RuntimeType, HostInv, NEW reached \in BOOLEAN, Report(reached)
  PROVE  HostInv'
<1> USE DEF RuntimeType, Host
<1>1. job' = None
  BY DEF Report, Idle
<1> DEFINE done == (failed = {} /\ fetched # 0) /\ job.decommission
<1>2. CASE done /\ reached
  <2>1. archived' = TRUE /\ helper' = U0 /\ host' = host /\ ~archived
    BY <1>2, OtherPrograms DEF Report, HostInv
  <2> QED
    BY <1>1, <2>1 DEF HostInv, AgentOutlivesItsDuty, HelperInv
<1>3. CASE done /\ ~reached
  <2>1. archived' = archived /\ helper' = helper /\ host' = [host EXCEPT !.helper = FALSE]
    BY <1>3 DEF Report
  <2>2. /\ host'.up = host.up /\ host'.unit = host.unit /\ host'.enabled = host.enabled
        /\ host'.dirs = host.dirs
    BY <2>1
  <2> QED
    BY <1>1, <2>1, <2>2 DEF HostInv, AgentOutlivesItsDuty, HelperInv
<1>4. CASE ~done
  <2>1. archived' = archived /\ helper' = helper /\ host' = host
    BY <1>4 DEF Report
  <2> QED
    BY <1>1, <2>1 DEF HostInv, AgentOutlivesItsDuty, HelperInv
<1> QED
  BY <1>2, <1>3, <1>4

LEMMA HostActivate ==
  ASSUME RuntimeType, HostInv, NEW ok \in BOOLEAN, Activate(ok)
  PROVE  HostInv'
<1> USE DEF RuntimeType, Host
<1>1. helper = U0 /\ U0 # <<>> /\ archived /\ archived' = archived
      /\ job' = job /\ fetched' = fetched
  BY HelperTails, OtherPrograms DEF Activate, HostInv, First, syncVars
<1>2. host.unit \/ (~host.up /\ ~host.enabled /\ ~host.unit)
  BY <1>1, HelperTails DEF HostInv, HelperInv, First
<1>3. /\ helper' \in {<<>>, U1} \/ (helper' = U4 /\ ~host.unit)
      /\ host'.up = host.up /\ host'.unit = host.unit /\ host'.enabled = host.enabled
      /\ host'.dirs = host.dirs
  BY RemovalPrograms DEF Activate
<1> QED
  BY <1>1, <1>2, <1>3 DEF HostInv, AgentOutlivesItsDuty, HelperInv

LEMMA HostHelper ==
  ASSUME RuntimeType, HostInv, HelperStep
  PROVE  HostInv'
<1> USE DEF RuntimeType, Host
<1> DEFINE op == Head(helper)
<1>1. /\ archived /\ archived' = archived /\ helper' = Tail(helper) /\ helper # <<>>
      /\ helper # U0
      /\ job' # None /\ fetched' # 0 => job # None /\ fetched # 0
  BY HelperTails DEF HelperStep, HostInv, syncVars, Idle, First
<1>2. CASE helper = U1
  <2>1. helper' = U2 /\ host' = [host EXCEPT !.up = FALSE]
    BY <1>1, <1>2, HelperTails DEF HelperStep, First
  <2> QED
    BY <1>1, <2>1 DEF HostInv, AgentOutlivesItsDuty, HelperInv
<1>3. CASE helper = U2 /\ ~host.up
  <2>1. helper' = U3 /\ host' = [host EXCEPT !.enabled = FALSE]
    BY <1>1, <1>3, HelperTails DEF HelperStep, First
  <2> QED
    BY <1>1, <1>3, <2>1 DEF HostInv, AgentOutlivesItsDuty, HelperInv
<1>4. CASE helper = U3 /\ ~host.up /\ ~host.enabled
  <2>1. helper' = U4 /\ host' = [host EXCEPT !.unit = FALSE]
    BY <1>1, <1>4, HelperTails DEF HelperStep, First
  <2> QED
    BY <1>1, <1>4, <2>1 DEF HostInv, AgentOutlivesItsDuty, HelperInv
<1>5. CASE helper \in {U4, U5} /\ ~host.up /\ ~host.enabled /\ ~host.unit
  <2>1. \/ helper' = U5 /\ host' = [host EXCEPT !.dirs = FALSE]
        \/ helper' = <<>> /\ host' = [host EXCEPT !.helper = FALSE]
    BY <1>1, <1>5, HelperTails DEF HelperStep, First
  <2> QED
    BY <1>1, <1>5, <2>1 DEF HostInv, AgentOutlivesItsDuty, HelperInv
<1> QED
  BY <1>1, <1>2, <1>3, <1>4, <1>5 DEF HostInv, HelperInv

LEMMA HostLost ==
  ASSUME RuntimeType, HostInv, Crash \/ Reboot
  PROVE  HostInv'
<1> USE DEF RuntimeType, Host
<1>1. job' = None /\ archived' = archived
  BY DEF Crash, Reboot, Idle
<1>2. CASE Crash
  <2>1. host' = host /\ helper' \in {<<>>, helper}
    BY <1>2 DEF Crash
  <2> QED
    BY <1>1, <2>1 DEF HostInv, AgentOutlivesItsDuty, HelperInv
<1>3. CASE Reboot
  <2>1. host' = [host EXCEPT !.up = host.enabled /\ host.dirs] /\ helper' = <<>>
    BY <1>3 DEF Reboot
  <2> QED
    BY <1>1, <2>1 DEF HostInv, AgentOutlivesItsDuty, HelperInv
<1> QED
  BY <1>2, <1>3

LEMMA HostNext ==
  ASSUME RuntimeType, OtherInv, IdleInv, HostInv, [RuntimeNext]_vars
  PROVE  HostInv'
<1>1. CASE UNCHANGED vars
  BY <1>1, HostKept DEF vars, hostVars, syncVars, HostInv
<1>2. ASSUME NEW j \in Jobs, ChangeDesired(j) PROVE HostInv'
  BY <1>2, HostKept DEF ChangeDesired, syncVars, HostInv
<1>3. CASE StartSync
  BY <1>3, HostKept DEF StartSync
<1>4. CASE Step
  <2>1. CASE part # "agent"
    BY <1>4, <2>1, HostKept DEF Step, HostInv, hostVars
  <2>2. CASE part = "agent"
    <3>1. todo = A1
      BY <1>4, <2>2 DEF Step, OtherInv
    <3>2. Head(todo) = "stage" /\ "stage" \notin AcmeOps
      BY <3>1, OtherTails DEF First, AcmeOps
    <3>3. /\ host' = [host EXCEPT !.helper = TRUE] /\ helper' = helper /\ archived' = archived
          /\ job' = job /\ fetched' = fetched
      BY <1>4, <2>2, <3>2 DEF Step
    <3> QED
      BY <3>3 DEF HostInv, AgentOutlivesItsDuty, HelperInv, RuntimeType, Host
  <2> QED
    BY <2>1, <2>2
<1>5. CASE StepFails
  BY <1>5, HostKept DEF StepFails, HostInv
<1>6. CASE FinishPart
  BY <1>6, HostKept DEF FinishPart, HostInv
<1>7. ASSUME NEW b \in BOOLEAN, Report(b) \/ Activate(b) PROVE HostInv'
  BY <1>7, HostReport, HostActivate
<1>8. CASE HelperStep
  BY <1>8, HostHelper
<1>9. CASE HelperFails
  BY <1>9 DEF HelperFails, HostInv, HelperInv, AgentOutlivesItsDuty, syncVars
<1>10. CASE CertificateDue
  BY <1>10, HostKept DEF CertificateDue, HostInv, syncVars
<1>11. CASE Renew
  BY <1>11, HostKept DEF Renew
<1>12. CASE refreshChinaPrefixes
  BY <1>12, HostKept DEF refreshChinaPrefixes, HostInv, syncVars
<1>13. CASE Crash \/ Reboot
  BY <1>13, HostLost
<1>14. ASSUME NEW s \in Services, ServiceRestarts(s) PROVE HostInv'
  BY <1>14, HostKept DEF ServiceRestarts, HostInv
<1> QED
  BY <1>1, <1>2, <1>3, <1>4, <1>5, <1>6, <1>7, <1>8, <1>9, <1>10, <1>11, <1>12, <1>13, <1>14
  DEF RuntimeNext

\* A service that is to run has a configuration to run.
LEMMA RunTarget ==
  ASSUME RuntimeType, NEW s \in Services, job # None, job[s].do = "run"
  PROVE  job[s].config \in Config /\ job[s].config # None
<1>1. job \in Job
  BY JobsAssumption DEF RuntimeType
<1>2. job[s] \in Target
  BY <1>1 DEF Job, Services
<1> QED
  BY <1>2, NoneApart DEF Target

(***************************************************************************)
(* One operation of a service.                                             *)
(***************************************************************************)
Same == UNCHANGED <<panelVars, job, fetched, part, undoing, failed, before, slips, archived>>

\* The service becomes x and the rest of the procedure is left.
Moves(s, x, rest) ==
  /\ st' = [st EXCEPT ![s] = x] /\ st'[s] = x
  /\ \A r \in Services : r # s => st'[r] = st[r]
  /\ todo' = rest /\ china' = china
  /\ Same

LEMMA Operation ==
  ASSUME RuntimeType, Step, NEW s \in Services, part = s,
         NEW op, NEW rest, First(todo, op, rest), op \notin AcmeOps
  PROVE  /\ Moves(s, Done(op), Branch(op) \o Tail(todo)) /\ Permitted(op)
         /\ ~(s = "xray" /\ op = "emptyConfigDir") => acme' = acme
         /\ s = "xray" /\ op = "emptyConfigDir" => acme' = [acme EXCEPT !.cert = None, !.old = None]
<1>1. part # "agent" /\ part # "china"
  BY DEF Services
<1>2. Head(todo) = op
  BY DEF First
<1>3. /\ Permitted(op) /\ st' = [st EXCEPT ![part] = Done(op)] /\ todo' = Branch(op) \o Tail(todo)
      /\ acme' = IF part = "xray" /\ op = "emptyConfigDir"
                 THEN [acme EXCEPT !.cert = None, !.old = None] ELSE acme
      /\ china' = china
  BY <1>1, <1>2 DEF Step
<1>4. Same
  BY DEF Step, Same, panelVars
<1>5. st'[s] = Done(op) /\ \A r \in Services : r # s => st'[r] = st[r]
  BY <1>3 DEF RuntimeType
<1> QED
  BY <1>3, <1>4, <1>5 DEF Moves

\* The operations that only go on.
Simple == {"conflicts", "extract", "validate", "health", "download", "mark", "place", "unit",
           "enable", "save", "replace", "restore", "restart", "stop", "disable", "dropConfig",
           "removeConfigs", "firewall", "removeUnit", "emptyConfigDir", "emptyInstallDir",
           "removeMarker"}

LEMMA SimpleOperation ==
  ASSUME RuntimeType, Step, NEW s \in Services, part = s,
         NEW op \in Simple, NEW rest, First(todo, op, rest)
  PROVE  /\ Moves(s, Done(op), rest) /\ Permitted(op)
         /\ op # "emptyConfigDir" => acme' = acme
         /\ acme' \in {acme, [acme EXCEPT !.cert = None, !.old = None]}
<1>1. op \notin AcmeOps
  BY DEF AcmeOps, Simple
<1>2. Branch(op) = <<>>
  BY DEF Branch, Simple
<1>3. Branch(op) \o Tail(todo) = rest
  BY <1>2 DEF First
<1> QED
  BY <1>1, <1>3, Operation

\* What each of them does, field by field.
Is(x, marker, tmp, bin, unit, enabled, conf, prev, run, rules) ==
  /\ x \in Service
  /\ x.marker = marker /\ x.tmp = tmp /\ x.bin = bin /\ x.unit = unit /\ x.enabled = enabled
  /\ x.conf = conf /\ x.prev = prev /\ x.run = run /\ x.rules = rules

LEMMA FilesDone ==
  ASSUME RuntimeType, NEW s \in Services, part = s, NEW x, x = st[s]
  PROVE  /\ \A op \in {"conflicts", "extract", "validate", "health"} :
              Is(Done(op), x.marker, x.tmp, x.bin, x.unit, x.enabled, x.conf, x.prev, x.run, x.rules)
         /\ Is(Done("download"), x.marker, TRUE, x.bin, x.unit, x.enabled, x.conf, x.prev, x.run, x.rules)
         /\ Is(Done("mark"), TRUE, x.tmp, x.bin, x.unit, x.enabled, x.conf, x.prev, x.run, x.rules)
         /\ Is(Done("place"), x.marker, FALSE, TRUE, x.unit, x.enabled, x.conf, x.prev, x.run, x.rules)
         /\ Is(Done("unit"), x.marker, x.tmp, x.bin, TRUE, x.enabled, x.conf, x.prev, x.run, x.rules)
         /\ Is(Done("enable"), x.marker, x.tmp, x.bin, x.unit, TRUE, x.conf, x.prev, x.run, x.rules)
<1>1. x \in Service /\ svc = x
  BY DEF RuntimeType, svc
<1>2. ASSUME NEW op \in {"conflicts", "extract", "validate", "health"}
      PROVE  Is(Done(op), x.marker, x.tmp, x.bin, x.unit, x.enabled, x.conf, x.prev, x.run, x.rules)
  BY <1>1 DEF Done, Is, Service
<1>3. Is(Done("download"), x.marker, TRUE, x.bin, x.unit, x.enabled, x.conf, x.prev, x.run, x.rules)
  BY <1>1 DEF Done, Is, Service
<1>4. Is(Done("mark"), TRUE, x.tmp, x.bin, x.unit, x.enabled, x.conf, x.prev, x.run, x.rules)
  BY <1>1 DEF Done, Is, Service
<1>5. Is(Done("place"), x.marker, FALSE, TRUE, x.unit, x.enabled, x.conf, x.prev, x.run, x.rules)
  BY <1>1 DEF Done, Is, Service
<1>6. Is(Done("unit"), x.marker, x.tmp, x.bin, TRUE, x.enabled, x.conf, x.prev, x.run, x.rules)
  BY <1>1 DEF Done, Is, Service
<1>7. Is(Done("enable"), x.marker, x.tmp, x.bin, x.unit, TRUE, x.conf, x.prev, x.run, x.rules)
  BY <1>1 DEF Done, Is, Service
<1> QED
  BY <1>2, <1>3, <1>4, <1>5, <1>6, <1>7

LEMMA RemovalDone ==
  ASSUME RuntimeType, NEW s \in Services, part = s, NEW x, x = st[s]
  PROVE  /\ Is(Done("disable"), x.marker, x.tmp, x.bin, x.unit, FALSE, x.conf, x.prev, x.run, x.rules)
         /\ Is(Done("stop"), x.marker, x.tmp, x.bin, x.unit, x.enabled, x.conf, x.prev, None, x.rules)
         /\ Is(Done("dropConfig"), x.marker, x.tmp, x.bin, x.unit, x.enabled, None, x.prev, x.run, x.rules)
         /\ \A op \in {"removeConfigs", "emptyConfigDir"} :
              Is(Done(op), x.marker, x.tmp, x.bin, x.unit, x.enabled, None, None, x.run, x.rules)
         /\ Is(Done("removeUnit"), x.marker, x.tmp, x.bin, FALSE, x.enabled, x.conf, x.prev, x.run, x.rules)
         /\ Is(Done("emptyInstallDir"), x.marker, FALSE, FALSE, x.unit, x.enabled, x.conf, x.prev, x.run, x.rules)
         /\ Is(Done("removeMarker"), FALSE, x.tmp, x.bin, x.unit, x.enabled, x.conf, x.prev, x.run, x.rules)
<1>1. x \in Service /\ svc = x
  BY DEF RuntimeType, svc
<1>2. Is(Done("disable"), x.marker, x.tmp, x.bin, x.unit, FALSE, x.conf, x.prev, x.run, x.rules)
  BY <1>1 DEF Done, Is, Service
<1>3. Is(Done("stop"), x.marker, x.tmp, x.bin, x.unit, x.enabled, x.conf, x.prev, None, x.rules)
  BY <1>1 DEF Done, Is, Service
<1>4. Is(Done("dropConfig"), x.marker, x.tmp, x.bin, x.unit, x.enabled, None, x.prev, x.run, x.rules)
  BY <1>1 DEF Done, Is, Service
<1>5. ASSUME NEW op \in {"removeConfigs", "emptyConfigDir"}
      PROVE  Is(Done(op), x.marker, x.tmp, x.bin, x.unit, x.enabled, None, None, x.run, x.rules)
  BY <1>1 DEF Done, Is, Service
<1>6. Is(Done("removeUnit"), x.marker, x.tmp, x.bin, FALSE, x.enabled, x.conf, x.prev, x.run, x.rules)
  BY <1>1 DEF Done, Is, Service
<1>7. Is(Done("emptyInstallDir"), x.marker, FALSE, FALSE, x.unit, x.enabled, x.conf, x.prev, x.run, x.rules)
  BY <1>1 DEF Done, Is, Service
<1>8. Is(Done("removeMarker"), FALSE, x.tmp, x.bin, x.unit, x.enabled, x.conf, x.prev, x.run, x.rules)
  BY <1>1 DEF Done, Is, Service
<1> QED
  BY <1>2, <1>3, <1>4, <1>5, <1>6, <1>7, <1>8

LEMMA WantedType ==
  ASSUME RuntimeType, NEW s \in Services, part = s, job # None
  PROVE  WantedRules \in SUBSET Ports
<1>1. RulesOf(before.conf) \in SUBSET Ports
  BY DEF RulesOf, RuntimeType, Service, Config
<1>2. wish.do = "run" => RulesOf(wish.config) \in SUBSET Ports
  BY RunTarget DEF wish, RulesOf, Config
<1> QED
  BY <1>1, <1>2 DEF WantedRules

LEMMA ExchangeDone ==
  ASSUME RuntimeType, NEW s \in Services, part = s, NEW x, x = st[s], job # None
  PROVE  /\ Is(Done("save"), x.marker, x.tmp, x.bin, x.unit, x.enabled, x.conf, x.conf, x.run, x.rules)
         /\ job[s].do = "run" =>
              Is(Done("replace"), x.marker, x.tmp, x.bin, x.unit, x.enabled, job[s].config, x.prev,
                 x.run, x.rules)
         /\ Is(Done("restore"), x.marker, x.tmp, x.bin, x.unit, x.enabled, x.prev, x.prev, x.run, x.rules)
         /\ Is(Done("restart"), x.marker, x.tmp, x.bin, x.unit, x.enabled, x.conf, x.prev,
               Started(s, x.conf), x.rules)
         /\ Is(Done("firewall"), x.marker, x.tmp, x.bin, x.unit, x.enabled, x.conf, x.prev, x.run,
               WantedRules)
<1>1. x \in Service /\ svc = x /\ wish = job[s]
  BY DEF RuntimeType, svc, wish
<1>2. WantedRules \in SUBSET Ports
  BY WantedType
<1>3. Started(s, x.conf) \in Config \cup {None}
  BY <1>1 DEF Started, Service
<1>4. job[s].do = "run" => job[s].config \in Config
  BY RunTarget
<1>5. Is(Done("save"), x.marker, x.tmp, x.bin, x.unit, x.enabled, x.conf, x.conf, x.run, x.rules)
  BY <1>1 DEF Done, Is, Service
<1>6. Is(Done("restore"), x.marker, x.tmp, x.bin, x.unit, x.enabled, x.prev, x.prev, x.run, x.rules)
  BY <1>1 DEF Done, Is, Service
<1>7. job[s].do = "run" =>
        Is(Done("replace"), x.marker, x.tmp, x.bin, x.unit, x.enabled, job[s].config, x.prev,
           x.run, x.rules)
  <2> DEFINE c == job[s].config
  <2>1. Done("replace") = [x EXCEPT !.conf = c]
    BY <1>1 DEF Done
  <2> HIDE DEF c
  <2>2. c \in Config =>
        Is(Done("replace"), x.marker, x.tmp, x.bin, x.unit, x.enabled, c, x.prev, x.run, x.rules)
    BY <1>1, <2>1 DEF Is, Service
  <2> QED
    BY <1>4, <2>2 DEF c
<1>8. Is(Done("restart"), x.marker, x.tmp, x.bin, x.unit, x.enabled, x.conf, x.prev,
         Started(s, x.conf), x.rules)
  BY <1>1, <1>3 DEF Done, Is, Service
<1>9. Is(Done("firewall"), x.marker, x.tmp, x.bin, x.unit, x.enabled, x.conf, x.prev, x.run,
         WantedRules)
  BY <1>1, <1>2 DEF Done, Is, Service
<1> QED
  BY <1>5, <1>6, <1>7, <1>8, <1>9

(***************************************************************************)
(* Bringing a service up, operation by operation.                          *)
(***************************************************************************)
Sound(s) == st[s] \in Service /\ OursOnly(s)

LEMMA AcmeOperation ==
  ASSUME Step, NEW op \in AcmeOps, NEW rest, First(todo, op, rest)
  PROVE  /\ st' = st /\ china' = china /\ acme' = DoneAcme(op) /\ todo' = rest /\ Permitted(op)
         /\ Same
<1>1. Head(todo) = op /\ Tail(todo) = rest
  BY DEF First
<1> QED
  BY <1>1 DEF Step, Same, panelVars

LEMMA BringingStep ==
  ASSUME RuntimeType, Step, NEW s \in Services, part = s, job # None, job[s].do = "run",
         ~undoing, OursOnly(s), Bringing(s)
  PROVE  Sound(s)' /\ Bringing(s)'
<1> DEFINE x == st[s]
<1>0. /\ job[s].config \in Config /\ job[s].config # None
      /\ x \in Service /\ before \in Service /\ svc = x /\ wish = job[s]
  BY RunTarget DEF RuntimeType, svc, wish
<1> USE DEF Sound, OursOnly, Blank
<1>1. CASE todo = XE1 /\ Found(s) /\ Calm(s) /\ s = "xray"
  <2>1. First(todo, "conflicts", XE2)
    BY <1>1, EnableTails
  <2>2. Moves(s, Done("conflicts"), XE2) /\ Permitted("conflicts") /\ acme' = acme
    BY <2>1, SimpleOperation DEF Simple
  <2>3. Is(Done("conflicts"), x.marker, x.tmp, x.bin, x.unit, x.enabled, x.conf, x.prev, x.run, x.rules)
    BY <1>0, FilesDone
  <2>4. Sound(s)' /\ Found(s)' /\ Calm(s)'
    BY <1>0, <1>1, <2>2, <2>3 DEF Moves, Same, Is, Found, Calm, CanRun
  <2> QED
    BY <1>1, <2>2, <2>4 DEF Bringing, Moves
<1>2. CASE todo = RE1 /\ Found(s) /\ Calm(s) /\ s = "realm"
  <2>1. First(todo, "conflicts", RE2)
    BY <1>2, EnableTails
  <2>2. Moves(s, Done("conflicts"), RE2) /\ Permitted("conflicts") /\ acme' = acme
    BY <2>1, SimpleOperation DEF Simple
  <2>3. Is(Done("conflicts"), x.marker, x.tmp, x.bin, x.unit, x.enabled, x.conf, x.prev, x.run, x.rules)
    BY <1>0, FilesDone
  <2>4. Sound(s)' /\ Found(s)' /\ Calm(s)'
    BY <1>0, <1>2, <2>2, <2>3 DEF Moves, Same, Is, Found, Calm, CanRun
  <2> QED
    BY <1>2, <2>2, <2>4 DEF Bringing, Moves
<1>3. CASE todo = XI1 /\ Found(s) /\ Calm(s) /\ s = "xray"
  <2>1. First(todo, "download", XI2)
    BY <1>3, InstallTails
  <2>2. Moves(s, Done("download"), XI2) /\ Permitted("download") /\ acme' = acme
    BY <2>1, SimpleOperation DEF Simple
  <2>3. Is(Done("download"), x.marker, TRUE, x.bin, x.unit, x.enabled, x.conf, x.prev, x.run, x.rules)
    BY <1>0, FilesDone
  <2>4. Sound(s)' /\ Found(s)' /\ Calm(s)'
    BY <1>0, <1>3, <2>2, <2>3 DEF Moves, Same, Is, Found, Calm, CanRun
  <2> QED
    BY <1>3, <2>2, <2>4 DEF Bringing, Moves
<1>4. CASE todo = RI1 /\ Found(s) /\ Calm(s) /\ s = "realm"
  <2>1. First(todo, "download", RI2)
    BY <1>4, InstallTails
  <2>2. Moves(s, Done("download"), RI2) /\ Permitted("download") /\ acme' = acme
    BY <2>1, SimpleOperation DEF Simple
  <2>3. Is(Done("download"), x.marker, TRUE, x.bin, x.unit, x.enabled, x.conf, x.prev, x.run, x.rules)
    BY <1>0, FilesDone
  <2>4. Sound(s)' /\ Found(s)' /\ Calm(s)'
    BY <1>0, <1>4, <2>2, <2>3 DEF Moves, Same, Is, Found, Calm, CanRun
  <2> QED
    BY <1>4, <2>2, <2>4 DEF Bringing, Moves
<1>5. CASE todo = XI2 /\ Found(s) /\ Calm(s) /\ s = "xray"
  <2>1. First(todo, "extract", XI3)
    BY <1>5, InstallTails
  <2>2. Moves(s, Done("extract"), XI3) /\ Permitted("extract") /\ acme' = acme
    BY <2>1, SimpleOperation DEF Simple
  <2>3. Is(Done("extract"), x.marker, x.tmp, x.bin, x.unit, x.enabled, x.conf, x.prev, x.run, x.rules)
    BY <1>0, FilesDone
  <2>4. Sound(s)' /\ Found(s)' /\ Calm(s)'
    BY <1>0, <1>5, <2>2, <2>3 DEF Moves, Same, Is, Found, Calm, CanRun
  <2> QED
    BY <1>5, <2>2, <2>4 DEF Bringing, Moves
<1>6. CASE todo = RI2 /\ Found(s) /\ Calm(s) /\ s = "realm"
  <2>1. First(todo, "extract", RI3)
    BY <1>6, InstallTails
  <2>2. Moves(s, Done("extract"), RI3) /\ Permitted("extract") /\ acme' = acme
    BY <2>1, SimpleOperation DEF Simple
  <2>3. Is(Done("extract"), x.marker, x.tmp, x.bin, x.unit, x.enabled, x.conf, x.prev, x.run, x.rules)
    BY <1>0, FilesDone
  <2>4. Sound(s)' /\ Found(s)' /\ Calm(s)'
    BY <1>0, <1>6, <2>2, <2>3 DEF Moves, Same, Is, Found, Calm, CanRun
  <2> QED
    BY <1>6, <2>2, <2>4 DEF Bringing, Moves
<1>7. CASE todo = XI3 /\ Found(s) /\ Calm(s) /\ s = "xray"
  <2>1. First(todo, "mark", XI4)
    BY <1>7, InstallTails
  <2>2. Moves(s, Done("mark"), XI4) /\ Permitted("mark") /\ acme' = acme
    BY <2>1, SimpleOperation DEF Simple
  <2>3. Is(Done("mark"), TRUE, x.tmp, x.bin, x.unit, x.enabled, x.conf, x.prev, x.run, x.rules)
    BY <1>0, FilesDone
  <2>4. Sound(s)' /\ Owned(s)'
    BY <1>0, <1>7, <2>2, <2>3 DEF Moves, Same, Is, Owned, Found, Calm, CanRun
  <2> QED
    BY <1>7, <2>2, <2>4 DEF Bringing, Moves
<1>8. CASE todo = RI3 /\ Found(s) /\ Calm(s) /\ s = "realm"
  <2>1. First(todo, "mark", RI4)
    BY <1>8, InstallTails
  <2>2. Moves(s, Done("mark"), RI4) /\ Permitted("mark") /\ acme' = acme
    BY <2>1, SimpleOperation DEF Simple
  <2>3. Is(Done("mark"), TRUE, x.tmp, x.bin, x.unit, x.enabled, x.conf, x.prev, x.run, x.rules)
    BY <1>0, FilesDone
  <2>4. Sound(s)' /\ Owned(s)'
    BY <1>0, <1>8, <2>2, <2>3 DEF Moves, Same, Is, Owned, Found, Calm, CanRun
  <2> QED
    BY <1>8, <2>2, <2>4 DEF Bringing, Moves
<1>9. CASE todo = XI4 /\ Owned(s) /\ s = "xray"
  <2>1. First(todo, "place", XE3)
    BY <1>9, InstallTails
  <2>2. Moves(s, Done("place"), XE3) /\ Permitted("place") /\ acme' = acme
    BY <2>1, SimpleOperation DEF Simple
  <2>3. Is(Done("place"), x.marker, FALSE, TRUE, x.unit, x.enabled, x.conf, x.prev, x.run, x.rules)
    BY <1>0, FilesDone
  <2>4. Sound(s)' /\ Owned(s)'
    BY <1>0, <1>9, <2>2, <2>3 DEF Moves, Same, Is, Owned, Found, Calm, CanRun
  <2> QED
    BY <1>9, <2>2, <2>4 DEF Bringing, Moves
<1>10. CASE todo = RI4 /\ Owned(s) /\ s = "realm"
  <2>1. First(todo, "place", E4)
    BY <1>10, InstallTails
  <2>2. Moves(s, Done("place"), E4) /\ Permitted("place") /\ acme' = acme
    BY <2>1, SimpleOperation DEF Simple
  <2>3. Is(Done("place"), x.marker, FALSE, TRUE, x.unit, x.enabled, x.conf, x.prev, x.run, x.rules)
    BY <1>0, FilesDone
  <2>4. Sound(s)' /\ Found(s)' /\ Checked(s)'
    BY <1>0, <1>10, <2>2, <2>3 DEF Moves, Same, Is, Owned, Found, Checked, CanRun
  <2> QED
    BY <1>10, <2>2, <2>4 DEF Bringing, Moves
<1>11. CASE todo = XE2 /\ Found(s) /\ Calm(s) /\ s = "xray"
  <2>1. First(todo, "install", XE3)
    BY <1>11, EnableTails
  <2>2. Moves(s, x, Branch("install") \o Tail(todo)) /\ acme' = acme
    <3>1. "install" \notin AcmeOps /\ Done("install") = x
      BY <1>0 DEF AcmeOps, Done
    <3> QED
      BY <2>1, <3>1, Operation
  <2>3. Branch("install") = IF x.marker /\ x.bin THEN <<>> ELSE XrayInstall
    BY <1>0, <1>11 DEF Branch
  <2>4. Found(s)' /\ Calm(s)' /\ Sound(s)'
    BY <1>0, <1>11, <2>2 DEF Moves, Same, Found, Calm, CanRun
  <2>5. CASE x.marker /\ x.bin
    <3>1. todo' = XE3
      BY <2>1, <2>2, <2>3, <2>5 DEF Moves, First
    <3>2. Owned(s)'
      BY <1>0, <1>11, <2>2, <2>4, <2>5 DEF Moves, Same, Owned
    <3> QED
      BY <1>11, <2>4, <3>1, <3>2 DEF Bringing
  <2>6. CASE ~(x.marker /\ x.bin)
    <3>1. todo' = XI1
      BY <2>1, <2>2, <2>3, <2>6, InstallPrograms DEF Moves, First
    <3> QED
      BY <1>11, <2>4, <3>1 DEF Bringing
  <2> QED
    BY <2>5, <2>6
<1>12. CASE todo = RE2 /\ Found(s) /\ Calm(s) /\ s = "realm"
  <2>1. First(todo, "install", E4)
    BY <1>12, EnableTails
  <2>2. Moves(s, x, Branch("install") \o Tail(todo)) /\ acme' = acme
    <3>1. "install" \notin AcmeOps /\ Done("install") = x
      BY <1>0 DEF AcmeOps, Done
    <3> QED
      BY <2>1, <3>1, Operation
  <2>3. Branch("install") = IF x.marker /\ x.bin THEN <<>> ELSE RealmInstall
    BY <1>0, <1>12 DEF Branch
  <2>4. Found(s)' /\ Calm(s)' /\ Sound(s)'
    BY <1>0, <1>12, <2>2 DEF Moves, Same, Found, Calm, CanRun
  <2>5. CASE x.marker /\ x.bin
    <3>1. todo' = E4
      BY <2>1, <2>2, <2>3, <2>5 DEF Moves, First
    <3>2. Checked(s)'
      BY <1>0, <1>12, <2>2, <2>4, <2>5 DEF Moves, Same, Checked, CanRun
    <3> QED
      BY <1>12, <2>4, <3>1, <3>2 DEF Bringing
  <2>6. CASE ~(x.marker /\ x.bin)
    <3>1. todo' = RI1
      BY <2>1, <2>2, <2>3, <2>6, InstallPrograms DEF Moves, First
    <3> QED
      BY <1>12, <2>4, <3>1 DEF Bringing
  <2> QED
    BY <2>5, <2>6
<1>13. CASE todo = XE3 /\ Owned(s) /\ s = "xray"
  <2>1. First(todo, "certificate", E4)
    BY <1>13, EnableTails
  <2>2. Moves(s, x, Branch("certificate") \o Tail(todo)) /\ acme' = acme
    <3>1. "certificate" \notin AcmeOps /\ Done("certificate") = x
      BY <1>0 DEF AcmeOps, Done
    <3> QED
      BY <2>1, <3>1, Operation
  <2>3. Branch("certificate") =
          IF job[s].config.tls /\ acme.cert # "valid" THEN CertificateProgram ELSE <<>>
    BY <1>0 DEF Branch
  <2>4. Owned(s)' /\ Sound(s)'
    BY <1>0, <1>13, <2>2 DEF Moves, Same, Owned, Found, Calm, CanRun
  <2>5. CASE job[s].config.tls /\ acme.cert # "valid"
    <3>1. todo' \in {XC1, XC3}
      BY <2>1, <2>2, <2>3, <2>5, CertificatePrograms DEF Moves, First
    <3> QED
      BY <1>13, <2>4, <3>1 DEF Bringing
  <2>6. CASE ~(job[s].config.tls /\ acme.cert # "valid")
    <3>1. todo' = E4
      BY <2>1, <2>2, <2>3, <2>6 DEF Moves, First
    <3>2. Found(s)' /\ Checked(s)'
      BY <1>0, <2>2, <2>4, <2>6 DEF Moves, Same, Owned, Checked, CanRun
    <3> QED
      BY <2>4, <3>1, <3>2 DEF Bringing
  <2> QED
    BY <2>5, <2>6
<1>14. CASE todo \in {XC1, XC2, XC3, XC4} /\ Owned(s) /\ s = "xray"
  <2>1. First(todo, "toolScript", XC2) \/ First(todo, "toolMarker", XC3) \/ First(todo, "open80", XC4) \/ First(todo, "issue", XC5)
    BY <1>14, CertificateTails
  <2>2. st' = st /\ Same /\ (\E op \in {"toolScript", "toolMarker", "open80", "issue"} : acme' = DoneAcme(op)) /\ todo' \in {XC2, XC3, XC4, XC5}
    BY <2>1, AcmeOperation DEF AcmeOps
  <2>3. Owned(s)'
    BY <1>0, <1>14, <2>2 DEF Same, DoneAcme, RuntimeType, Acme, Owned, Found, Calm, CanRun
  <2> QED
    BY <1>0, <1>14, <2>2, <2>3 DEF Bringing
<1>15. CASE todo = XC5 /\ Owned(s) /\ s = "xray"
  <2>1. First(todo, "putCertificate", XC6)
    BY <1>15, CertificateTails
  <2>2. st' = st /\ Same /\ acme' = DoneAcme("putCertificate") /\ todo' = XC6
    BY <2>1, AcmeOperation DEF AcmeOps
  <2>3. Found(s)' /\ st'[s].marker
    BY <1>0, <1>15, <2>2 DEF Same, DoneAcme, RuntimeType, Acme, Owned, Found
  <2> QED
    BY <1>0, <1>15, <2>2, <2>3 DEF Bringing
<1>16. CASE todo = XC6 /\ Found(s) /\ x.marker /\ s = "xray"
  <2>1. First(todo, "putKey", XC7)
    BY <1>16, CertificateTails
  <2>2. st' = st /\ Same /\ acme' = DoneAcme("putKey") /\ todo' = XC7
    BY <2>1, AcmeOperation DEF AcmeOps
  <2>3. Found(s)' /\ Checked(s)'
    BY <1>0, <1>16, <2>2 DEF Same, DoneAcme, RuntimeType, Acme, Found, Checked, CanRun
  <2> QED
    BY <1>0, <1>16, <2>2, <2>3 DEF Bringing
<1>17. CASE todo = XC7 /\ Found(s) /\ Checked(s) /\ s = "xray"
  <2>1. First(todo, "close80", E4)
    BY <1>17, CertificateTails
  <2>2. st' = st /\ Same /\ acme' = DoneAcme("close80") /\ todo' = E4
    BY <2>1, AcmeOperation DEF AcmeOps
  <2>3. Found(s)' /\ Checked(s)'
    BY <1>0, <1>17, <2>2 DEF Same, DoneAcme, RuntimeType, Acme, Found, Checked, CanRun
  <2> QED
    BY <1>0, <1>17, <2>2, <2>3 DEF Bringing
<1>18. CASE todo = E4 /\ Found(s) /\ Checked(s)
  <2>1. First(todo, "validate", E5)
    BY <1>18, EnableTails
  <2>2. Moves(s, Done("validate"), E5) /\ Permitted("validate") /\ acme' = acme
    BY <2>1, SimpleOperation DEF Simple
  <2>3. Is(Done("validate"), x.marker, x.tmp, x.bin, x.unit, x.enabled, x.conf, x.prev, x.run, x.rules)
    BY <1>0, FilesDone
  <2>4. Sound(s)' /\ Found(s)' /\ Checked(s)'
    BY <1>0, <1>18, <2>2, <2>3 DEF Moves, Same, Is, Found, Checked, CanRun
  <2> QED
    BY <1>18, <2>2, <2>4 DEF Bringing, Moves
<1>19. CASE todo = E5 /\ Found(s) /\ Checked(s)
  <2>1. First(todo, "unit", E6)
    BY <1>19, EnableTails
  <2>2. Moves(s, Done("unit"), E6) /\ Permitted("unit") /\ acme' = acme
    BY <2>1, SimpleOperation DEF Simple
  <2>3. Is(Done("unit"), x.marker, x.tmp, x.bin, TRUE, x.enabled, x.conf, x.prev, x.run, x.rules)
    BY <1>0, FilesDone
  <2>4. Sound(s)' /\ Found(s)' /\ Checked(s)' /\ st'[s].unit
    BY <1>0, <1>19, <2>2, <2>3 DEF Moves, Same, Is, Found, Checked, CanRun
  <2> QED
    BY <1>19, <2>2, <2>4 DEF Bringing, Moves
<1>20. CASE todo = E6 /\ Found(s) /\ Checked(s) /\ x.unit
  <2>1. First(todo, "enable", E7)
    BY <1>20, EnableTails
  <2>2. Moves(s, Done("enable"), E7) /\ Permitted("enable") /\ acme' = acme
    BY <2>1, SimpleOperation DEF Simple
  <2>3. Is(Done("enable"), x.marker, x.tmp, x.bin, x.unit, TRUE, x.conf, x.prev, x.run, x.rules)
    BY <1>0, FilesDone
  <2>4. Sound(s)' /\ Found(s)' /\ Ready(s)'
    BY <1>0, <1>20, <2>2, <2>3 DEF Moves, Same, Is, Found, Ready, Checked, CanRun
  <2> QED
    BY <1>20, <2>2, <2>4 DEF Bringing, Moves
<1>21. CASE todo = E7 /\ Found(s) /\ Ready(s)
  <2> DEFINE c == job[s].config
  <2>1. First(todo, "compare", <<>>)
    BY <1>21, EnableTails
  <2>2. Moves(s, x, Branch("compare") \o <<>>) /\ acme' = acme
    <3>1. "compare" \notin AcmeOps /\ Done("compare") = x
      BY <1>0 DEF AcmeOps, Done
    <3> QED
      BY <2>1, <3>1, Operation DEF First
  <2>3. Branch("compare") = IF x.conf = c THEN Resume(Listening(c)) ELSE Exchange(x.conf # None)
    BY <1>0 DEF Branch
  <2>4. Found(s)' /\ Ready(s)' /\ Sound(s)' /\ Same /\ st'[s] = x
    BY <1>0, <1>21, <2>2 DEF Moves, Same, Found, Ready, Checked, CanRun
  <2>5. CASE x.conf = c /\ Listening(c)
    <3>1. todo' = S5
      BY <2>2, <2>3, <2>5, ExchangePrograms DEF Moves
    <3>2. x.run # None
      BY <1>0, <2>5 DEF Listening
    <3>3. Serving(s)'
      BY <1>0, <1>21, <2>4, <2>5, <3>2 DEF Found, Serving, FoundTorn, Same
    <3> QED
      BY <2>4, <3>1, <3>3 DEF Bringing
  <2>6. CASE x.conf = c /\ ~Listening(c)
    <3>0. Listening(c) = FALSE
      BY <2>6 DEF Listening
    <3>1. todo' = S3
      BY <2>2, <2>3, <2>6, <3>0, ExchangePrograms DEF Moves
    <3>2. x.run # c
      BY <1>0, <2>6 DEF Listening
    <3>3. Replaced(s)'
      BY <1>0, <1>21, <2>4, <2>6, <3>2 DEF Found, Replaced, Same
    <3> QED
      BY <2>4, <3>1, <3>3 DEF Bringing
  <2>7. CASE x.conf # c
    <3>1. todo' = IF x.conf # None THEN S1 ELSE S2
      BY <2>2, <2>3, <2>7, ExchangePrograms DEF Moves
    <3>2. (before.conf = x.conf)' /\ (job[s].config)' = c /\ (x.conf = None => Saved(s)')
      BY <1>21, <2>4 DEF Found, Saved, Same
    <3> QED
      BY <2>4, <2>7, <3>1, <3>2 DEF Bringing
  <2> QED
    BY <2>5, <2>6, <2>7
<1>22. CASE todo = S1 /\ Found(s) /\ Ready(s) /\ before.conf \notin {None, job[s].config}
  <2>1. First(todo, "save", S2)
    BY <1>22, ExchangeTails
  <2>2. Moves(s, Done("save"), S2) /\ Permitted("save") /\ acme' = acme
    BY <2>1, SimpleOperation DEF Simple
  <2>3. Is(Done("save"), x.marker, x.tmp, x.bin, x.unit, x.enabled, x.conf, x.conf, x.run, x.rules)
    BY <1>0, ExchangeDone
  <2>4. Sound(s)' /\ Found(s)' /\ Ready(s)' /\ (before.conf # job[s].config)' /\ Saved(s)'
    BY <1>0, <1>22, <2>2, <2>3 DEF Moves, Same, Is, Found, Saved, Ready, Checked, CanRun
  <2> QED
    BY <1>22, <2>2, <2>4 DEF Bringing, Moves
<1>23. CASE todo = S2 /\ Found(s) /\ Ready(s) /\ before.conf # job[s].config /\ Saved(s)
  <2>1. First(todo, "replace", S3)
    BY <1>23, ExchangeTails
  <2>2. Moves(s, Done("replace"), S3) /\ Permitted("replace") /\ acme' = acme
    BY <2>1, SimpleOperation DEF Simple
  <2>3. Is(Done("replace"), x.marker, x.tmp, x.bin, x.unit, x.enabled, job[s].config, x.prev, x.run, x.rules)
    BY <1>0, ExchangeDone
  <2>4. Sound(s)' /\ Ready(s)' /\ Replaced(s)'
    BY <1>0, <1>23, <2>2, <2>3 DEF Moves, Same, Is, Found, Saved, Replaced, Ready, Checked, CanRun
  <2> QED
    BY <1>23, <2>2, <2>4 DEF Bringing, Moves
<1>24. CASE todo = S3 /\ Ready(s) /\ Replaced(s)
  <2>1. First(todo, "restart", S4)
    BY <1>24, ExchangeTails
  <2>2. Moves(s, Done("restart"), S4) /\ Permitted("restart") /\ acme' = acme
    BY <2>1, SimpleOperation DEF Simple
  <2>3. Is(Done("restart"), x.marker, x.tmp, x.bin, x.unit, x.enabled, x.conf, x.prev, Started(s, x.conf), x.rules)
    BY <1>0, ExchangeDone
  <2>4. Sound(s)' /\ Ready(s)' /\ Replaced(s)' /\ (st[s].run = job[s].config)'
    BY <1>0, <1>24, <2>2, <2>3 DEF Moves, Same, Is, Started, Saved, Replaced, Ready, Checked, CanRun
  <2> QED
    BY <1>24, <2>2, <2>4 DEF Bringing, Moves
<1>25. CASE todo = S4 /\ Ready(s) /\ Replaced(s) /\ x.run = job[s].config
  <2>1. First(todo, "health", S5)
    BY <1>25, ExchangeTails
  <2>2. Moves(s, Done("health"), S5) /\ Permitted("health") /\ acme' = acme
    BY <2>1, SimpleOperation DEF Simple
  <2>3. Is(Done("health"), x.marker, x.tmp, x.bin, x.unit, x.enabled, x.conf, x.prev, x.run, x.rules)
    BY <1>0, FilesDone
  <2>4. Sound(s)' /\ Ready(s)' /\ Serving(s)'
    BY <1>0, <1>25, <2>2, <2>3 DEF Moves, Same, Is, Saved, Replaced, Serving, Ready, Checked, CanRun
  <2> QED
    BY <1>25, <2>2, <2>4 DEF Bringing, Moves
<1>26. CASE todo = S5 /\ Ready(s) /\ Serving(s)
  <2>1. First(todo, "firewall", <<>>)
    BY <1>26, ExchangeTails
  <2>2. Moves(s, Done("firewall"), <<>>) /\ acme' = acme
    BY <2>1, SimpleOperation DEF Simple
  <2>3. Is(Done("firewall"), x.marker, x.tmp, x.bin, x.unit, x.enabled, x.conf, x.prev, x.run,
           WantedRules)
    BY <1>0, ExchangeDone
  <2>4. WantedRules = RulesOf(job[s].config)
    BY <1>0 DEF WantedRules
  <2>5. /\ Sound(s)' /\ Ready(s)' /\ (st[s].conf = job[s].config)'
        /\ st'[s].rules = RulesOf(job'[s].config)
        /\ (st[s].run = job[s].config \/ FoundTorn)'
    BY <1>0, <1>26, <2>2, <2>3, <2>4 DEF Moves, Same, Is, Serving, FoundTorn, Ready, Checked, CanRun
  <2>6. (st[s].rules = RulesOf(job[s].config))'
    BY <2>5 DEF RulesOf
  <2> QED
    BY <2>2, <2>5, <2>6 DEF Bringing, Moves
<1>27. todo # <<>>
  BY DEF Step
<1> QED
  BY <1>1, <1>2, <1>3, <1>4, <1>5, <1>6, <1>7, <1>8, <1>9, <1>10, <1>11, <1>12, <1>13, <1>14, <1>15, <1>16, <1>17, <1>18, <1>19, <1>20, <1>21, <1>22, <1>23, <1>24, <1>25, <1>26, <1>27
  DEF Bringing, Owned

\* A failed manager cleans up.
LEMMA FailingStep ==
  ASSUME RuntimeType, Step, NEW s \in Services, part = s, job # None, job[s].do = "run",
         OursOnly(s), Failing(s)
  PROVE  Sound(s)' /\ Failing(s)'
<1> DEFINE x == st[s]
<1>0. /\ x \in Service /\ before \in Service /\ svc = x /\ wish = job[s]
  BY DEF RuntimeType, svc, wish
<1> USE DEF Sound, OursOnly, Blank
<1>1. CASE todo = C7 /\ s = "xray" /\ Kept(s)
  <2>1. First(todo, "close80", <<>>)
    BY <1>1, RenewTails
  <2>2. st' = st /\ Same /\ acme' = DoneAcme("close80") /\ todo' = <<>>
    BY <2>1, AcmeOperation DEF AcmeOps
  <2>3. Sound(s)' /\ Kept(s)'
    BY <1>0, <1>1, <2>2 DEF Same, DoneAcme, RuntimeType, Acme, Kept, Excused, CanRun
  <2> QED
    BY <2>2, <2>3 DEF Failing
<1>2. CASE todo = B1 /\ undoing /\ slips # 0 /\ x.marker /\ x.unit /\ before.conf # None /\ x.prev = before.conf
  <2>1. First(todo, "restore", S3)
    BY <1>2, RollbackTails
  <2>2. Moves(s, Done("restore"), S3) /\ Permitted("restore") /\ acme' = acme
    BY <2>1, SimpleOperation DEF Simple
  <2>3. Is(Done("restore"), x.marker, x.tmp, x.bin, x.unit, x.enabled, x.prev, x.prev, x.run, x.rules)
    BY <1>0, ExchangeDone
  <2>4. Sound(s)' /\ undoing' /\ slips' # 0 /\ st'[s].marker /\ st'[s].unit /\ (before.conf # None)' /\ (st[s].conf = before.conf)'
    BY <1>0, <1>2, <2>2, <2>3 DEF Moves, Same, Is, Service
  <2> QED
    BY <1>2, <2>2, <2>4 DEF Failing, Moves
<1>3. CASE todo = S3 /\ undoing /\ slips # 0 /\ x.marker /\ x.unit /\ before.conf # None /\ x.conf = before.conf
  <2>1. First(todo, "restart", S4)
    BY <1>3, ExchangeTails
  <2>2. Moves(s, Done("restart"), S4) /\ Permitted("restart") /\ acme' = acme
    BY <2>1, SimpleOperation DEF Simple
  <2>3. Is(Done("restart"), x.marker, x.tmp, x.bin, x.unit, x.enabled, x.conf, x.prev, Started(s, x.conf), x.rules)
    BY <1>0, ExchangeDone
  <2>4. Sound(s)' /\ undoing' /\ slips' # 0 /\ st'[s].marker /\ st'[s].unit /\ Restored(s)'
    BY <1>0, <1>3, <2>2, <2>3 DEF Moves, Same, Is, Restored, Started, CanRun
  <2> QED
    BY <1>3, <2>2, <2>4 DEF Failing, Moves
<1>4. CASE todo = S4 /\ undoing /\ slips # 0 /\ x.marker /\ x.unit /\ Restored(s)
  <2>1. First(todo, "health", S5)
    BY <1>4, ExchangeTails
  <2>2. Moves(s, Done("health"), S5) /\ Permitted("health") /\ acme' = acme
    BY <2>1, SimpleOperation DEF Simple
  <2>3. Is(Done("health"), x.marker, x.tmp, x.bin, x.unit, x.enabled, x.conf, x.prev, x.run, x.rules)
    BY <1>0, FilesDone
  <2>4. Sound(s)' /\ undoing' /\ slips' # 0 /\ st'[s].marker /\ st'[s].unit /\ Restored(s)'
    BY <1>0, <1>4, <2>2, <2>3 DEF Moves, Same, Is, Restored, CanRun
  <2> QED
    BY <1>4, <2>2, <2>4 DEF Failing, Moves
<1>5. CASE todo = S5 /\ undoing /\ slips # 0 /\ x.marker /\ x.unit /\ Restored(s)
  <2>1. First(todo, "firewall", <<>>)
    BY <1>5, ExchangeTails
  <2>2. Moves(s, Done("firewall"), <<>>) /\ acme' = acme
    BY <2>1, SimpleOperation DEF Simple
  <2>3. Is(Done("firewall"), x.marker, x.tmp, x.bin, x.unit, x.enabled, x.conf, x.prev, x.run,
           WantedRules)
    BY <1>0, ExchangeDone
  <2>4. WantedRules = RulesOf(before.conf)
    BY <1>5 DEF WantedRules
  <2>5. CASE Excused(s)
    <3>1. Sound(s)' /\ Excused(s)'
      BY <1>0, <1>5, <2>2, <2>3, <2>5 DEF Moves, Same, Is, Excused, CanRun, RulesOf
    <3> QED
      BY <2>2, <3>1 DEF Failing, Kept, Moves
  <2>6. CASE ~Excused(s)
    <3>1. /\ Sound(s)' /\ (st[s].conf = before.conf)' /\ (st[s].run = before.run)'
          /\ (st[s].rules = before.rules)'
      BY <1>0, <1>5, <2>2, <2>3, <2>4, <2>6 DEF Moves, Same, Is, Restored, Excused
    <3> QED
      BY <2>2, <3>1 DEF Failing, Kept, Moves
  <2> QED
    BY <2>5, <2>6
<1>6. CASE todo \in {XD1, RD1} /\ undoing /\ slips # 0 /\ x.marker /\ x.unit /\ before.conf = None
  <2>1. (todo = XD1 /\ First(todo, "stop", XD2)) \/ (todo = RD1 /\ First(todo, "stop", RD2))
    BY <1>6, RollbackTails
  <2>2. /\ (todo = XD1 /\ Moves(s, Done("stop"), XD2)) \/ (todo = RD1 /\ Moves(s, Done("stop"), RD2))
        /\ Permitted("stop") /\ acme' = acme
    BY <2>1, SimpleOperation DEF Simple
  <2>3. Is(Done("stop"), x.marker, x.tmp, x.bin, x.unit, x.enabled, x.conf, x.prev, None, x.rules)
    BY <1>0, RemovalDone
  <2>4. Sound(s)' /\ undoing' /\ slips' # 0 /\ st'[s].marker /\ st'[s].unit /\ (before.conf = None)'
    BY <1>0, <1>6, <2>2, <2>3 DEF Moves, Same, Is, Service
  <2> QED
    BY <1>6, <2>2, <2>4 DEF Failing, Moves
<1>7. CASE todo \in {XD2, RD2} /\ undoing /\ slips # 0 /\ x.marker /\ x.unit /\ before.conf = None
  <2>1. (todo = XD2 /\ First(todo, "disable", XD3)) \/ (todo = RD2 /\ First(todo, "disable", RD3))
    BY <1>7, RollbackTails
  <2>2. /\ (todo = XD2 /\ Moves(s, Done("disable"), XD3)) \/ (todo = RD2 /\ Moves(s, Done("disable"), RD3))
        /\ Permitted("disable") /\ acme' = acme
    BY <2>1, SimpleOperation DEF Simple
  <2>3. Is(Done("disable"), x.marker, x.tmp, x.bin, x.unit, FALSE, x.conf, x.prev, x.run, x.rules)
    BY <1>0, RemovalDone
  <2>4. Sound(s)' /\ undoing' /\ slips' # 0 /\ st'[s].marker /\ st'[s].unit /\ (before.conf = None)'
    BY <1>0, <1>7, <2>2, <2>3 DEF Moves, Same, Is, Service
  <2> QED
    BY <1>7, <2>2, <2>4 DEF Failing, Moves
<1>8. CASE todo \in {XD3, RD3} /\ undoing /\ slips # 0 /\ x.marker /\ x.unit /\ before.conf = None
  <2>1. First(todo, "dropConfig", <<>>) \/ First(todo, "dropConfig", S5)
    BY <1>8, RollbackTails
  <2>2. Moves(s, Done("dropConfig"), <<>>) \/ Moves(s, Done("dropConfig"), S5)
    BY <2>1, SimpleOperation DEF Simple
  <2>3. Is(Done("dropConfig"), x.marker, x.tmp, x.bin, x.unit, x.enabled, None, x.prev, x.run, x.rules)
    BY <1>0, RemovalDone
  <2>4. Sound(s)' /\ undoing' /\ slips' # 0 /\ st'[s].marker /\ st'[s].unit /\ (before.conf = None)' /\ todo' \in {<<>>, S5}
    BY <1>0, <1>8, <2>2, <2>3 DEF Moves, Same, Is
  <2> QED
    BY <2>4 DEF Failing, Kept, Excused
<1>9. CASE todo = S5 /\ undoing /\ slips # 0 /\ x.marker /\ x.unit /\ before.conf = None
  <2>1. First(todo, "firewall", <<>>)
    BY <1>9, ExchangeTails
  <2>2. Moves(s, Done("firewall"), <<>>)
    BY <2>1, SimpleOperation DEF Simple
  <2>3. Is(Done("firewall"), x.marker, x.tmp, x.bin, x.unit, x.enabled, x.conf, x.prev, x.run,
           WantedRules)
    BY <1>0, ExchangeDone
  <2>4. Sound(s)' /\ (before.conf = None)' /\ todo' = <<>>
    BY <1>0, <1>9, <2>2, <2>3 DEF Moves, Same, Is
  <2> QED
    BY <2>4 DEF Failing, Kept, Excused
<1>10. todo # <<>>
  BY DEF Step
<1> QED
  BY <1>1, <1>2, <1>3, <1>4, <1>5, <1>6, <1>7, <1>8, <1>9, <1>10 DEF Failing

\* A service stops.
LEMMA StoppingStep ==
  ASSUME RuntimeType, Step, NEW s \in Services, part = s, job # None, job[s].do = "stop", ~undoing,
         OursOnly(s), Stopping(s)
  PROVE  Sound(s)' /\ Stopping(s)'
<1> DEFINE x == st[s]
<1>0. /\ x \in Service /\ before \in Service /\ svc = x /\ wish = job[s]
  BY DEF RuntimeType, svc, wish
<1> USE DEF Sound, OursOnly, Blank
<1>1. CASE todo = K1
  <2>1. First(todo, "stop", K2)
    BY <1>1, StopTails
  <2>2. Moves(s, Done("stop"), K2) /\ Permitted("stop") /\ acme' = acme
    BY <2>1, SimpleOperation DEF Simple
  <2>3. Is(Done("stop"), x.marker, x.tmp, x.bin, x.unit, x.enabled, x.conf, x.prev, None, x.rules)
    BY <1>0, RemovalDone
  <2>4. Sound(s)' /\ st'[s].run = None
    BY <1>0, <1>1, <2>2, <2>3 DEF Moves, Same, Is, Service
  <2> QED
    BY <1>1, <2>2, <2>4 DEF Stopping, Moves
<1>2. CASE todo = K2 /\ x.run = None
  <2>1. First(todo, "disable", K3)
    BY <1>2, StopTails
  <2>2. Moves(s, Done("disable"), K3) /\ Permitted("disable") /\ acme' = acme
    BY <2>1, SimpleOperation DEF Simple
  <2>3. Is(Done("disable"), x.marker, x.tmp, x.bin, x.unit, FALSE, x.conf, x.prev, x.run, x.rules)
    BY <1>0, RemovalDone
  <2>4. Sound(s)' /\ Off(s)'
    BY <1>0, <1>2, <2>2, <2>3 DEF Moves, Same, Is, Off
  <2> QED
    BY <1>2, <2>2, <2>4 DEF Stopping, Moves
<1>3. CASE todo = K3 /\ Off(s)
  <2>1. First(todo, "removeConfigs", S5)
    BY <1>3, StopTails
  <2>2. Moves(s, Done("removeConfigs"), S5) /\ Permitted("removeConfigs") /\ acme' = acme
    BY <2>1, SimpleOperation DEF Simple
  <2>3. Is(Done("removeConfigs"), x.marker, x.tmp, x.bin, x.unit, x.enabled, None, None, x.run, x.rules)
    BY <1>0, RemovalDone
  <2>4. Sound(s)' /\ Off(s)' /\ st'[s].conf = None
    BY <1>0, <1>3, <2>2, <2>3 DEF Moves, Same, Is, Off
  <2> QED
    BY <1>3, <2>2, <2>4 DEF Stopping, Moves
<1>4. CASE todo = S5 /\ Off(s) /\ x.conf = None
  <2>1. First(todo, "firewall", <<>>)
    BY <1>4, ExchangeTails
  <2>2. Moves(s, Done("firewall"), <<>>)
    BY <2>1, SimpleOperation DEF Simple
  <2>3. Is(Done("firewall"), x.marker, x.tmp, x.bin, x.unit, x.enabled, x.conf, x.prev, x.run,
           WantedRules)
    BY <1>0, ExchangeDone
  <2>4. WantedRules = {}
    BY <1>0 DEF WantedRules
  <2>5. Sound(s)' /\ Off(s)' /\ st'[s].conf = None /\ st'[s].rules = {}
    BY <1>0, <1>4, <2>2, <2>3, <2>4 DEF Moves, Same, Is, Off
  <2> QED
    BY <2>2, <2>5 DEF Stopping, Moves
<1>5. todo # <<>>
  BY DEF Step
<1> QED
  BY <1>1, <1>2, <1>3, <1>4, <1>5 DEF Stopping

\* A service is removed.
LEMMA PurgingStep ==
  ASSUME RuntimeType, Step, NEW s \in Services, part = s, job # None, job[s].do = "purge", ~undoing,
         OursOnly(s), Purging(s)
  PROVE  Sound(s)' /\ Purging(s)'
<1> DEFINE x == st[s]
<1>0. /\ x \in Service /\ before \in Service /\ svc = x /\ wish = job[s]
  BY DEF RuntimeType, svc, wish
<1> USE DEF Sound, OursOnly, Blank
<1>1. CASE todo = S5 /\ ~x.marker
  <2>1. First(todo, "firewall", <<>>)
    BY <1>1, ExchangeTails
  <2>2. Moves(s, Done("firewall"), <<>>)
    BY <2>1, SimpleOperation DEF Simple
  <2>3. Is(Done("firewall"), x.marker, x.tmp, x.bin, x.unit, x.enabled, x.conf, x.prev, x.run,
           WantedRules)
    BY <1>0, ExchangeDone
  <2>4. WantedRules = {}
    BY <1>0 DEF WantedRules
  <2>5. Sound(s)' /\ ~st'[s].marker
    BY <1>0, <1>1, <2>2, <2>3, <2>4 DEF Moves, Same, Is, Service
  <2> QED
    BY <2>2, <2>5 DEF Purging, Moves
<1>2. CASE todo = G1
  <2>1. First(todo, "stop", G2)
    BY <1>2, PurgeTails
  <2>2. Moves(s, Done("stop"), G2) /\ Permitted("stop") /\ acme' = acme
    BY <2>1, SimpleOperation DEF Simple
  <2>3. Is(Done("stop"), x.marker, x.tmp, x.bin, x.unit, x.enabled, x.conf, x.prev, None, x.rules)
    BY <1>0, RemovalDone
  <2>4. Sound(s)' /\ st'[s].run = None
    BY <1>0, <1>2, <2>2, <2>3 DEF Moves, Same, Is, Service
  <2> QED
    BY <1>2, <2>2, <2>4 DEF Purging, Moves
<1>3. CASE todo = G2 /\ x.run = None
  <2>1. First(todo, "disable", G3)
    BY <1>3, PurgeTails
  <2>2. Moves(s, Done("disable"), G3) /\ Permitted("disable") /\ acme' = acme
    BY <2>1, SimpleOperation DEF Simple
  <2>3. Is(Done("disable"), x.marker, x.tmp, x.bin, x.unit, FALSE, x.conf, x.prev, x.run, x.rules)
    BY <1>0, RemovalDone
  <2>4. Sound(s)' /\ Off(s)'
    BY <1>0, <1>3, <2>2, <2>3 DEF Moves, Same, Is, Off
  <2> QED
    BY <1>3, <2>2, <2>4 DEF Purging, Moves
<1>4. CASE todo = G3 /\ Off(s)
  <2>1. First(todo, "firewall", G4)
    BY <1>4, PurgeTails
  <2>2. Moves(s, Done("firewall"), G4)
    BY <2>1, SimpleOperation DEF Simple
  <2>3. Is(Done("firewall"), x.marker, x.tmp, x.bin, x.unit, x.enabled, x.conf, x.prev, x.run,
           WantedRules)
    BY <1>0, ExchangeDone
  <2>4. WantedRules = {}
    BY <1>0 DEF WantedRules
  <2>5. Sound(s)' /\ Off(s)' /\ st'[s].rules = {}
    BY <1>0, <1>4, <2>2, <2>3, <2>4 DEF Moves, Same, Is, Off
  <2> QED
    BY <2>2, <2>5 DEF Purging, Moves
<1>5. CASE todo = G4 /\ Off(s) /\ x.rules = {}
  <2>1. First(todo, "removeUnit", G5)
    BY <1>5, PurgeTails
  <2>2. Moves(s, Done("removeUnit"), G5) /\ Permitted("removeUnit") /\ acme' = acme
    BY <2>1, SimpleOperation DEF Simple
  <2>3. Is(Done("removeUnit"), x.marker, x.tmp, x.bin, FALSE, x.enabled, x.conf, x.prev, x.run, x.rules)
    BY <1>0, RemovalDone
  <2>4. Sound(s)' /\ ~st'[s].unit /\ st'[s].rules = {}
    BY <1>0, <1>5, <2>2, <2>3 DEF Moves, Same, Is, Off
  <2> QED
    BY <1>5, <2>2, <2>4 DEF Purging, Moves
<1>6. CASE todo = H4 /\ ~x.unit
  <2>1. First(todo, "firewall", G5)
    BY <1>6, PurgeTails
  <2>2. Moves(s, Done("firewall"), G5)
    BY <2>1, SimpleOperation DEF Simple
  <2>3. Is(Done("firewall"), x.marker, x.tmp, x.bin, x.unit, x.enabled, x.conf, x.prev, x.run,
           WantedRules)
    BY <1>0, ExchangeDone
  <2>4. WantedRules = {}
    BY <1>0 DEF WantedRules
  <2>5. Sound(s)' /\ ~st'[s].unit /\ st'[s].rules = {}
    BY <1>0, <1>6, <2>2, <2>3, <2>4 DEF Moves, Same, Is, Off
  <2> QED
    BY <2>2, <2>5 DEF Purging, Moves
<1>7. CASE todo = G5 /\ ~x.unit /\ x.rules = {}
  <2>1. First(todo, "emptyConfigDir", G6)
    BY <1>7, PurgeTails
  <2>2. Moves(s, Done("emptyConfigDir"), G6)
    BY <2>1, SimpleOperation DEF Simple
  <2>3. Is(Done("emptyConfigDir"), x.marker, x.tmp, x.bin, x.unit, x.enabled, None, None, x.run, x.rules)
    BY <1>0, RemovalDone
  <2>4. Sound(s)' /\ ~st'[s].unit /\ NoConfig(s)'
    BY <1>0, <1>7, <2>2, <2>3 DEF Moves, Same, Is, NoConfig, Off
  <2> QED
    BY <2>2, <2>4 DEF Purging, Moves
<1>8. CASE todo = G6 /\ ~x.unit /\ NoConfig(s)
  <2>1. First(todo, "emptyInstallDir", G7)
    BY <1>8, PurgeTails
  <2>2. Moves(s, Done("emptyInstallDir"), G7) /\ Permitted("emptyInstallDir") /\ acme' = acme
    BY <2>1, SimpleOperation DEF Simple
  <2>3. Is(Done("emptyInstallDir"), x.marker, FALSE, FALSE, x.unit, x.enabled, x.conf, x.prev, x.run, x.rules)
    BY <1>0, RemovalDone
  <2>4. Sound(s)' /\ ~st'[s].unit /\ NoConfig(s)' /\ ~st'[s].bin /\ ~st'[s].tmp
    BY <1>0, <1>8, <2>2, <2>3 DEF Moves, Same, Is, NoConfig, Off
  <2> QED
    BY <1>8, <2>2, <2>4 DEF Purging, Moves
<1>9. CASE todo = G7 /\ ~x.unit /\ NoConfig(s) /\ ~x.bin /\ ~x.tmp
  <2>1. First(todo, "removeMarker", <<>>)
    BY <1>9, PurgeTails
  <2>2. Moves(s, Done("removeMarker"), <<>>) /\ Permitted("removeMarker") /\ acme' = acme
    BY <2>1, SimpleOperation DEF Simple
  <2>3. Is(Done("removeMarker"), FALSE, x.tmp, x.bin, x.unit, x.enabled, x.conf, x.prev, x.run, x.rules)
    BY <1>0, RemovalDone
  <2>4. Sound(s)' /\ ~st'[s].marker
    BY <1>0, <1>9, <2>2, <2>3 DEF Moves, Same, Is, NoConfig, Off
  <2> QED
    BY <1>9, <2>2, <2>4 DEF Purging, Moves
<1>10. todo # <<>>
  BY DEF Step
<1> QED
  BY <1>1, <1>2, <1>3, <1>4, <1>5, <1>6, <1>7, <1>8, <1>9, <1>10 DEF Purging

(***************************************************************************)
(* An operation of a service fails: what it may have done, and where the   *)
(* error goes.                                                             *)
(***************************************************************************)
LeftSame == UNCHANGED <<china, panelVars, job, fetched, part, before, archived>>

Fails(s, op) ==
  /\ st'[s] \in Service
  /\ st'[s].marker = st[s].marker /\ st'[s].bin = st[s].bin /\ st'[s].unit = st[s].unit
  /\ st'[s].enabled = st[s].enabled /\ st'[s].conf = st[s].conf /\ st'[s].prev = st[s].prev
  /\ \/ st'[s].run = st[s].run
     \/ op \in {"restart", "health", "stop"} /\ st'[s].run = None
     \/ op = "restart" /\ st'[s].run = Started(s, st[s].conf)
  /\ st'[s].rules = st[s].rules \/ (op = "firewall" /\ st'[s].rules \in PartialRules)
  /\ \A r \in Services : r # s => st'[r] = st[r]
  /\ acme' = UndoneAcme(op)
  /\ todo' = AfterError(op)
  /\ undoing' = (undoing \/ (todo' # <<>> /\ Head(todo') # "close80"))
  /\ failed' = failed \cup {s}
  /\ slips' = slips + 1 \/ (slips' = slips /\ ~Permitted(op))
  /\ LeftSame

LEMMA Failure ==
  ASSUME RuntimeType, StepFails, NEW s \in Services, part = s, NEW op, NEW rest,
         First(todo, op, rest)
  PROVE  Fails(s, op)
<1> DEFINE x == st[s]
<1>0. x \in Service /\ svc = x /\ job # None
  BY DEF RuntimeType, svc, StepFails
<1>1. Head(todo) = op
  BY DEF First
<1>2. /\ acme' = UndoneAcme(op) /\ todo' = AfterError(op) /\ failed' = failed \cup {s}
      /\ undoing' = (undoing \/ (todo' # <<>> /\ Head(todo') # "close80"))
      /\ slips' = slips + 1 \/ (slips' = slips /\ ~Permitted(op))
      /\ LeftSame
  BY <1>1 DEF StepFails, LeftSame, hostVars
<1>3. CASE op \in AcmeOps
  <2>1. st' = st
    BY <1>1, <1>3 DEF StepFails
  <2> QED
    BY <1>0, <1>2, <2>1 DEF Fails
<1>4. CASE op \notin AcmeOps
  <2>1. PICK y \in Undone(op) : st' = [st EXCEPT ![s] = y]
    BY <1>1, <1>4 DEF StepFails
  <2>2. st'[s] = y /\ \A r \in Services : r # s => st'[r] = st[r]
    BY <2>1 DEF RuntimeType
  <2>3. CASE op \in {"download", "extract", "mark", "place"}
    <3>1. y = [x EXCEPT !.tmp = FALSE]
      BY <1>0, <2>1, <2>3 DEF Undone
    <3> QED
      BY <1>0, <1>2, <2>2, <3>1 DEF Fails, Service
  <2>4. CASE op = "restart"
    <3> DEFINE z == Started(s, x.conf)
    <3>1. z \in Config \cup {None}
      BY <1>0 DEF Started, Service
    <3>2. y \in {x, [x EXCEPT !.run = None], [x EXCEPT !.run = z]}
      BY <1>0, <2>1, <2>4 DEF Undone
    <3> HIDE DEF z
    <3>3. /\ y \in Service
          /\ y.marker = x.marker /\ y.bin = x.bin /\ y.unit = x.unit /\ y.enabled = x.enabled
          /\ y.conf = x.conf /\ y.prev = x.prev /\ y.rules = x.rules
          /\ y.run \in {x.run, None, z}
      BY <1>0, <3>1, <3>2 DEF Service
    <3> QED
      BY <1>2, <2>2, <2>4, <3>3 DEF Fails, z
  <2>5. CASE op \in {"health", "stop"}
    <3>1. y \in {x, [x EXCEPT !.run = None]}
      BY <1>0, <2>1, <2>5 DEF Undone
    <3> QED
      BY <1>0, <1>2, <2>2, <2>5, <3>1 DEF Fails, Service
  <2>6. CASE op = "firewall"
    <3>1. PICK R \in PartialRules : y = [x EXCEPT !.rules = R]
      BY <1>0, <2>1, <2>6 DEF Undone
    <3>2. R \in SUBSET Ports
      BY <1>0, WantedType DEF PartialRules, Service
    <3>3. /\ y \in Service
          /\ y.marker = x.marker /\ y.bin = x.bin /\ y.unit = x.unit /\ y.enabled = x.enabled
          /\ y.conf = x.conf /\ y.prev = x.prev /\ y.run = x.run /\ y.rules = R
      BY <1>0, <3>1, <3>2 DEF Service
    <3> QED
      BY <1>2, <2>2, <2>6, <3>3 DEF Fails
  <2>7. CASE op \notin {"download", "extract", "mark", "place", "restart", "health", "stop",
                        "firewall"}
    <3>1. y = x
      BY <1>0, <2>1, <2>7 DEF Undone
    <3> QED
      BY <1>0, <1>2, <2>2, <3>1 DEF Fails
  <2> QED
    BY <2>3, <2>4, <2>5, <2>6, <2>7
<1> QED
  BY <1>3, <1>4

\* Rules half reconciled: nothing is added where nothing is wanted, and nothing
\* changes where what is wanted is there.
LEMMA HalfReconciled ==
  ASSUME NEW R \in PartialRules
  PROVE  /\ svc.rules = {} /\ WantedRules = {} => R = {}
         /\ svc.rules = WantedRules => R = svc.rules
BY DEF PartialRules

\* A service that is to stop or to go: the error ends its manager.
LEMMA RemovalFails ==
  ASSUME RuntimeType, StepFails, NEW s \in Services, part = s, job[s].do # "run", ~undoing,
         OursOnly(s), NEW op, NEW rest, First(todo, op, rest),
         op \notin {"restart", "issue", "putCertificate", "putKey"}
  PROVE  Sound(s)' /\ todo' = <<>> /\ ~undoing' /\ failed' = failed \cup {s}
<1>1. Fails(s, op)
  BY Failure
<1>2. svc = st[s] /\ wish = job[s]
  BY DEF svc, wish
<1>3. WantedRules = {}
  BY <1>2 DEF WantedRules
<1>4. AfterError(op) = <<>>
  BY <1>2 DEF AfterError
<1>5. st[s].rules = {} => st'[s].rules = {}
  BY <1>1, <1>2, <1>3, HalfReconciled DEF Fails
<1>6. Sound(s)'
  BY <1>1, <1>5 DEF Fails, Sound, OursOnly, Blank
<1> QED
  BY <1>1, <1>4, <1>6 DEF Fails

\* Bringing a service up fails.
LEMMA BringingFails ==
  ASSUME RuntimeType, StepFails, NEW s \in Services, part = s, job # None, job[s].do = "run",
         ~undoing, OursOnly(s), Bringing(s)
  PROVE  Sound(s)' /\ Failing(s)' /\ failed' = failed \cup {s}
<1> DEFINE x == st[s]
<1>0. /\ job[s].config \in Config /\ job[s].config # None /\ slips \in Nat
      /\ x \in Service /\ before \in Service /\ svc = x /\ wish = job[s]
  BY RunTarget DEF RuntimeType, svc, wish
<1> USE DEF Sound, OursOnly, Blank
\* Before the configuration is exchanged the error ends the manager.
<1>1. ASSUME Found(s), NEW op, NEW rest, First(todo, op, rest),
             op \notin {"restart", "health", "firewall", "stop", "issue", "putCertificate", "putKey"},
             ~Permitted(op) => Calm(s) \/ before.conf = None
      PROVE  Sound(s)' /\ Failing(s)' /\ failed' = failed \cup {s}
  <2>1. Fails(s, op)
    BY <1>1, Failure
  <2>2. AfterError(op) = <<>> /\ UndoneAcme(op) = acme
    BY <1>1 DEF AfterError, UndoneAcme
  <2>3. Sound(s)'
    BY <1>0, <1>1, <2>1 DEF Fails
  <2>4. Kept(s)'
    BY <1>0, <1>1, <2>1, <2>2 DEF Fails, LeftSame, Kept, Excused, Found, Calm, CanRun
  <2> QED
    BY <2>1, <2>2, <2>3, <2>4 DEF Fails, Failing
\* A certificate that was begun leaves port 80 to be closed.
<1>2. ASSUME Found(s), s = "xray", NEW op \in {"issue", "putCertificate", "putKey"}, NEW rest,
             First(todo, op, rest)
      PROVE  Sound(s)' /\ Failing(s)' /\ failed' = failed \cup {s}
  <2>1. Fails(s, op) /\ Permitted(op)
    BY <1>2, Failure DEF Permitted
  <2>2. AfterError(op) = C7
    BY <1>2, OtherPrograms DEF AfterError
  <2>3. Sound(s)'
    BY <1>0, <1>2, <2>1 DEF Fails
  <2>4. Kept(s)'
    BY <1>0, <1>2, <2>1 DEF Fails, LeftSame, Kept, Excused, Found
  <2>5. Head(C7) = "close80"
    BY RenewTails DEF First
  <2> QED
    BY <1>2, <2>1, <2>2, <2>3, <2>4, <2>5 DEF Fails, Failing
<1>3. CASE Found(s) /\ Calm(s) /\ todo \in {XE1, XE2, XI1, XI2, XI3, RE1, RE2, RI1, RI2, RI3}
  <2>1. PICK op \in {"conflicts", "install", "download", "extract", "mark"} :
          \E rest : First(todo, op, rest)
    BY <1>3, EnableTails, InstallTails
  <2> QED
    BY <1>1, <1>3, <2>1
<1>4. CASE Owned(s) /\ todo \in {XI4, XE3, XC1, XC2, XC3, RI4}
  <2>1. PICK op \in {"place", "certificate", "toolScript", "toolMarker", "open80"} :
          \E rest : First(todo, op, rest)
    BY <1>4, EnableTails, InstallTails, CertificateTails
  <2> QED
    BY <1>1, <1>4, <2>1 DEF Owned
<1>5. CASE Found(s) /\ s = "xray" /\ todo \in {XC4, XC5, XC6}
  <2>1. PICK op \in {"issue", "putCertificate", "putKey"} : \E rest : First(todo, op, rest)
    BY <1>5, CertificateTails
  <2> QED
    BY <1>2, <1>5, <2>1
<1>6. CASE Found(s) /\ todo \in {XC7, E4, E5, E6, E7, S1, S2}
  <2>1. PICK op \in {"close80", "validate", "unit", "enable", "compare", "save", "replace"} :
          \E rest : First(todo, op, rest)
    BY <1>6, CertificateTails, EnableTails, ExchangeTails
  <2>2. Permitted(op)
    BY <2>1 DEF Permitted
  <2> QED
    BY <1>1, <1>6, <2>1, <2>2
\* The configuration is the old one: nothing to undo.
<1>7. CASE Ready(s) /\ before.conf = job[s].config /\ todo \in {S3, S4}
           /\ Replaced(s) /\ (todo = S4 => x.run = job[s].config)
  <2>1. PICK op \in {"restart", "health"} :
          (\E rest : First(todo, op, rest)) /\ (op = "health" => x.run = job[s].config)
    BY <1>7, ExchangeTails
  <2>2. Fails(s, op)
    BY <2>1, Failure
  <2>3. Permitted(op)
    BY <1>0, <2>1 DEF Permitted, Listening
  <2>4. AfterError(op) = <<>>
    BY <1>0, <1>7, <2>1 DEF AfterError
  <2>5. Sound(s)'
    BY <1>0, <1>7, <2>1, <2>2 DEF Fails, Ready, Checked
  <2>6. Excused(s)'
    BY <1>0, <1>7, <2>2, <2>3 DEF Fails, LeftSame, Replaced, Excused
  <2> QED
    BY <2>2, <2>4, <2>5, <2>6 DEF Fails, Failing, Kept
<1>8. CASE Ready(s) /\ before.conf = job[s].config /\ todo = S5 /\ Serving(s)
  <2>1. First(todo, "firewall", <<>>)
    BY <1>8, ExchangeTails
  <2>2. Fails(s, "firewall") /\ Permitted("firewall")
    BY <2>1, Failure DEF Permitted
  <2>3. AfterError("firewall") = <<>>
    BY <1>0, <1>8 DEF AfterError
  <2>4. Sound(s)'
    BY <1>0, <1>8, <2>2 DEF Fails, Ready, Checked
  <2>5. WantedRules = RulesOf(before.conf)
    BY <1>0, <1>8 DEF WantedRules
  <2>6. before.rules = RulesOf(before.conf) => st'[s].rules = before.rules
    BY <1>0, <1>8, <2>2, <2>5, HalfReconciled DEF Fails, Serving
  <2>7. CASE slips # 0 \/ before.run # before.conf
    <3>1. Excused(s)'
      BY <1>0, <2>2, <2>7 DEF Fails, LeftSame, Excused
    <3> QED
      BY <2>2, <2>3, <2>4, <3>1 DEF Fails, Failing, Kept
  <2>8. CASE before.rules # RulesOf(before.conf)
    <3>1. Excused(s)'
      BY <1>0, <2>2, <2>8 DEF Fails, LeftSame, Excused, RulesOf
    <3> QED
      BY <2>2, <2>3, <2>4, <3>1 DEF Fails, Failing, Kept
  <2>9. CASE slips = 0 /\ before.run = before.conf /\ before.rules = RulesOf(before.conf)
    <3>1. Kept(s)'
      BY <1>0, <1>8, <2>2, <2>6, <2>9 DEF Fails, LeftSame, Serving, Kept
    <3> QED
      BY <2>2, <2>3, <2>4, <3>1 DEF Fails, Failing
  <2> QED
    BY <2>7, <2>8, <2>9
\* The configuration is new: the rollback begins.
<1>9. CASE Ready(s) /\ before.conf # job[s].config /\ x.conf = job[s].config /\ Saved(s)
           /\ todo \in {S3, S4, S5} /\ (todo = S4 => x.run = job[s].config)
  <2>1. PICK op \in {"restart", "health", "firewall"} :
          (\E rest : First(todo, op, rest)) /\ (op = "health" => x.run = job[s].config)
    BY <1>9, ExchangeTails
  <2>2. Fails(s, op)
    BY <2>1, Failure
  <2>3. Permitted(op)
    BY <1>0, <2>1 DEF Permitted, Listening
  <2>4. AfterError(op) = IF before.conf # None THEN B1 ELSE IF s = "xray" THEN XD1 ELSE RD1
    BY <1>0, <1>9, <2>1, ExchangePrograms DEF AfterError
  <2>5. st'[s].marker /\ st'[s].unit /\ st'[s] \in Service
    BY <1>0, <1>9, <2>2 DEF Fails, Ready, Checked
  <2>6. /\ B1 # <<>> /\ Head(B1) = "restore" /\ XD1 # <<>> /\ Head(XD1) = "stop"
        /\ RD1 # <<>> /\ Head(RD1) = "stop"
    BY RollbackTails DEF First
  <2>7. slips' # 0 /\ todo' = AfterError(op) /\ before' = before
    BY <1>0, <2>2, <2>3 DEF Fails, LeftSame
  <2>9. undoing'
    <3>1. todo' # <<>> /\ Head(todo') # "close80"
      BY <2>4, <2>6, <2>7
    <3> QED
      BY <2>2, <3>1 DEF Fails
  <2>8. before.conf # None => st'[s].prev = before.conf
    BY <1>9, <2>2 DEF Fails, Saved
  <2> QED
    BY <2>2, <2>4, <2>5, <2>7, <2>8, <2>9 DEF Failing, Fails
<1>10. CASE todo = S3 /\ Ready(s) /\ Replaced(s)
  <2>1. todo # S4
    BY <1>10, ExchangeTails DEF First
  <2> QED
    BY <1>7, <1>9, <1>10, <2>1 DEF Replaced
<1>11. CASE todo = S4 /\ Ready(s) /\ Replaced(s) /\ x.run = job[s].config
  BY <1>7, <1>9, <1>11 DEF Replaced
<1>12. CASE todo = S5 /\ Ready(s) /\ Serving(s)
  <2>1. todo # S4
    BY <1>12, ExchangeTails DEF First
  <2> QED
    BY <1>8, <1>9, <1>12, <2>1 DEF Serving
<1>13. todo # <<>>
  BY DEF StepFails
<1> QED
  BY <1>3, <1>4, <1>5, <1>6, <1>10, <1>11, <1>12, <1>13 DEF Bringing, Owned

\* The rollback fails.
LEMMA FailingFails ==
  ASSUME RuntimeType, StepFails, NEW s \in Services, part = s, job # None, job[s].do = "run",
         OursOnly(s), Failing(s)
  PROVE  Sound(s)' /\ Failing(s)' /\ failed' = failed \cup {s}
<1> DEFINE x == st[s]
<1>0. slips \in Nat /\ x \in Service /\ before \in Service /\ svc = x /\ wish = job[s]
  BY DEF RuntimeType, svc, wish
<1> USE DEF Sound, OursOnly, Blank
<1>1. CASE todo = C7 /\ s = "xray" /\ ~undoing /\ Kept(s)
  <2>1. First(todo, "close80", <<>>)
    BY <1>1, RenewTails
  <2>2. Fails(s, "close80")
    BY <2>1, Failure
  <2>3. AfterError("close80") = <<>> /\ UndoneAcme("close80") = acme
    BY <1>1 DEF AfterError, UndoneAcme
  <2>4. Sound(s)' /\ Kept(s)'
    BY <1>0, <1>1, <2>2, <2>3 DEF Fails, LeftSame, Kept, Excused, CanRun
  <2> QED
    BY <2>2, <2>3, <2>4 DEF Fails, Failing
<1> DEFINE Undo == undoing /\ slips # 0 /\ x.marker /\ x.unit
\* With a configuration to restore.
<1>2. CASE Undo /\ before.conf # None /\ ((todo = B1 /\ x.prev = before.conf) \/ todo = S3)
  <2>1. PICK op \in {"restore", "restart"} :
          (\E rest : First(todo, op, rest)) /\ (op = "restore" => x.prev = before.conf)
    BY <1>2, RollbackTails, ExchangeTails
  <2>2. Fails(s, op)
    BY <2>1, Failure
  <2>3. Permitted(op) /\ AfterError(op) = <<>>
    BY <1>0, <1>2, <2>1 DEF Permitted, AfterError
  <2>4. Sound(s)' /\ Excused(s)'
    BY <1>0, <1>2, <2>2, <2>3 DEF Fails, LeftSame, Excused
  <2> QED
    BY <2>2, <2>3, <2>4 DEF Fails, Failing, Kept
<1>3. CASE Undo /\ todo = S4 /\ Restored(s)
  <2>1. First(todo, "health", S5)
    BY <1>3, ExchangeTails
  <2>2. Fails(s, "health")
    BY <2>1, Failure
  <2>3. AfterError("health") = S5 /\ UndoneAcme("health") = acme
    BY <1>3, <2>1 DEF AfterError, UndoneAcme, First
  <2>4. ~Permitted("health") => x.run # before.conf
    BY <1>0, <1>3 DEF Permitted, Listening, Restored
  <2>5. Sound(s)' /\ slips' # 0 /\ st'[s].marker /\ st'[s].unit
    BY <1>0, <1>3, <2>2 DEF Fails
  <2>6. undoing'
    BY <1>3, <2>2 DEF Fails
  <2>7. Restored(s)'
    <3>1. /\ before' = before /\ st'[s].conf = st[s].conf /\ acme' = acme
          /\ slips' = slips + 1 \/ (slips' = slips /\ ~Permitted("health"))
          /\ st'[s].run \in {x.run, None}
      BY <2>2, <2>3 DEF Fails, LeftSame
    <3> QED
      BY <1>0, <1>3, <2>4, <3>1 DEF Restored, CanRun
  <2> QED
    BY <2>2, <2>3, <2>5, <2>6, <2>7 DEF Fails, Failing
<1>4. CASE Undo /\ todo = S5 /\ Restored(s)
  <2>1. First(todo, "firewall", <<>>)
    BY <1>4, ExchangeTails
  <2>2. Fails(s, "firewall") /\ Permitted("firewall")
    BY <2>1, Failure DEF Permitted
  <2>3. AfterError("firewall") = <<>>
    BY <1>4, <2>1 DEF AfterError, First
  <2>4. Sound(s)' /\ Excused(s)'
    BY <1>0, <1>4, <2>2 DEF Fails, LeftSame, Excused
  <2> QED
    BY <2>2, <2>3, <2>4 DEF Fails, Failing, Kept
\* Without one.
<1>5. CASE Undo /\ before.conf = None /\ todo \in {XD1, XD2, XD3, RD1, RD2, RD3, S5}
  <2>1. PICK op \in {"stop", "disable", "dropConfig", "firewall"} :
          \E rest \in {XD2, XD3, RD2, RD3, S5, <<>>} : First(todo, op, rest)
    BY <1>5, RollbackTails, ExchangeTails
  <2>2. Fails(s, op)
    BY <2>1, Failure
  <2>3. AfterError(op) \in {XD2, XD3, RD2, RD3, S5, <<>>}
    BY <1>5, <2>1 DEF AfterError, First
  <2>4. Sound(s)' /\ (before.conf = None)' /\ slips' # 0 /\ st'[s].marker /\ st'[s].unit
    BY <1>0, <1>5, <2>2 DEF Fails, LeftSame
  <2>5. undoing'
    BY <1>5, <2>2 DEF Fails
  <2> QED
    BY <2>2, <2>3, <2>4, <2>5 DEF Fails, Failing, Kept, Excused
<1>6. todo # <<>>
  BY DEF StepFails
<1> QED
  BY <1>1, <1>2, <1>3, <1>4, <1>5, <1>6 DEF Failing

(***************************************************************************)
(* What may happen between two operations: the service restarts, or a      *)
(* certificate enters its last month.                                      *)
(***************************************************************************)
LEMMA RestartSound ==
  ASSUME RuntimeType, NEW s \in Services, ServiceRestarts(s), OursOnly(s)
  PROVE  /\ Sound(s)'
         /\ st'[s].marker = st[s].marker /\ st'[s].unit = st[s].unit /\ st[s].marker /\ st[s].unit
         /\ st'[s].enabled = st[s].enabled /\ st'[s].bin = st[s].bin /\ st'[s].tmp = st[s].tmp
         /\ st'[s].conf = st[s].conf /\ st'[s].prev = st[s].prev /\ st'[s].rules = st[s].rules
         /\ st[s].run # None /\ st'[s].run = Started(s, st[s].conf)
         /\ \A r \in Services : r # s => st'[r] = st[r]
<1> DEFINE x == st[s]
           y == [x EXCEPT !.run = Started(s, x.conf)]
<1>1. x \in Service /\ x.run # None
  BY DEF RuntimeType, ServiceRestarts
<1>2. Started(s, x.conf) \in Config \cup {None}
  BY <1>1 DEF Started, Service
<1>3. st' = [st EXCEPT ![s] = y]
  BY DEF ServiceRestarts
<1>4. st'[s] = y /\ \A r \in Services : r # s => st'[r] = st[r]
  BY <1>3 DEF RuntimeType
<1>5. /\ y \in Service
      /\ y.marker = x.marker /\ y.unit = x.unit /\ y.enabled = x.enabled /\ y.bin = x.bin
      /\ y.tmp = x.tmp /\ y.conf = x.conf /\ y.prev = x.prev /\ y.rules = x.rules
      /\ y.run = Started(s, x.conf)
  BY <1>1, <1>2 DEF Service
<1>6. x.marker /\ x.unit
  BY <1>1 DEF OursOnly, Blank
<1> HIDE DEF y
<1> QED
  BY <1>1, <1>4, <1>5, <1>6 DEF Sound, OursOnly, Blank

LEMMA RestartPhase ==
  ASSUME RuntimeType, NEW s \in Services, part = s, job # None, ServiceRestarts(s), OursOnly(s),
         ServicePhase(s)
  PROVE  ServicePhase(s)'
<1> DEFINE x == st[s]
<1>0. /\ slips \in Nat /\ slips' = slips + 1
      /\ acme' = acme /\ job' = job /\ todo' = todo /\ undoing' = undoing /\ failed' = failed
      /\ before' = before
  BY DEF RuntimeType, ServiceRestarts
<1>1. /\ x.marker /\ x.unit /\ x.run # None
      /\ st'[s].marker = x.marker /\ st'[s].unit = x.unit /\ st'[s].enabled = x.enabled
      /\ st'[s].conf = x.conf /\ st'[s].prev = x.prev /\ st'[s].rules = x.rules
      /\ st'[s].run = IF CanRun(s, x.conf) THEN x.conf ELSE None
  BY RestartSound DEF Started
<1>2. \A c : CanRun(s, c)' <=> CanRun(s, c)
  BY <1>0 DEF CanRun
<1>3. CASE job[s].do = "run" /\ s \notin failed /\ ~undoing /\ Bringing(s)
  <2>1. /\ Found(s) => Found(s)'
        /\ Found(s) /\ Calm(s) => Calm(s)'
        /\ Owned(s) => Owned(s)'
        /\ Checked(s) => Checked(s)'
        /\ Ready(s) => Ready(s)'
        /\ Saved(s) => Saved(s)'
    BY <1>0, <1>1, <1>2 DEF Found, Calm, Owned, Checked, Ready, Saved
  <2>2. /\ Replaced(s) => Replaced(s)'
        /\ Ready(s) /\ Replaced(s) => (st[s].run = job[s].config)'
    BY <1>0, <1>1, <1>2 DEF Ready, Checked, Replaced, Saved
  <2>3. Ready(s) /\ Serving(s) => Serving(s)'
    BY <1>0, <1>1, <1>2 DEF Ready, Checked, Serving, Saved, FoundTorn
  <2>4. Ready(s) /\ x.conf = job[s].config => (st[s].run = job[s].config)'
    BY <1>0, <1>1, <1>2 DEF Ready, Checked
  <2>5. Bringing(s)'
    BY <1>0, <1>1, <1>3, <2>1, <2>2, <2>3, <2>4 DEF Bringing
  <2> QED
    BY <1>0, <1>3, <2>5 DEF ServicePhase
<1>4. CASE job[s].do = "run" /\ s \in failed /\ Failing(s)
  <2>1. Kept(s) => Kept(s)'
    BY <1>0, <1>1, <1>2 DEF Kept, Excused
  <2>2. Restored(s) => Restored(s)'
    BY <1>0, <1>1, <1>2 DEF Restored
  <2>3. slips # 0 => slips' # 0
    BY <1>0
  <2>4. Failing(s)'
    BY <1>0, <1>1, <1>4, <2>1, <2>2, <2>3 DEF Failing
  <2> QED
    BY <1>0, <1>4, <2>4 DEF ServicePhase
<1>5. CASE job[s].do = "stop" /\ s \notin failed /\ ~undoing /\ Stopping(s)
  BY <1>0, <1>1, <1>5 DEF ServicePhase, Stopping, Off
<1>6. CASE job[s].do = "purge" /\ s \notin failed /\ ~undoing /\ Purging(s)
  BY <1>0, <1>1, <1>6 DEF ServicePhase, Purging, Off, NoConfig, OursOnly, Blank
<1>7. CASE job[s].do # "run" /\ s \in failed /\ todo = <<>>
  BY <1>0, <1>7 DEF ServicePhase
<1> QED
  BY <1>3, <1>4, <1>5, <1>6, <1>7 DEF ServicePhase

\* Nothing that the manager at work looks at changes.
LEMMA PhaseStays ==
  ASSUME NEW s \in Services, st'[s] = st[s], UNCHANGED <<todo, undoing, slips, before, job, failed>>,
         \A c : CanRun(s, c)' <=> CanRun(s, c), ServicePhase(s)
  PROVE  ServicePhase(s)'
<1>1. /\ Found(s)' <=> Found(s)
      /\ Calm(s)' <=> Calm(s)
      /\ Owned(s)' <=> Owned(s)
      /\ Checked(s)' <=> Checked(s)
      /\ Ready(s)' <=> Ready(s)
      /\ Saved(s)' <=> Saved(s)
      /\ Replaced(s)' <=> Replaced(s)
      /\ Serving(s)' <=> Serving(s)
      /\ FoundTorn' <=> FoundTorn
  BY DEF Found, Calm, Owned, Checked, Ready, Saved, Replaced, Serving, FoundTorn
<1>2. /\ Kept(s)' <=> Kept(s)
      /\ Restored(s)' <=> Restored(s)
  BY DEF Kept, Excused, Restored
<1>3. Bringing(s)' <=> Bringing(s)
  BY <1>1 DEF Bringing, RulesOf
<1>4. Failing(s)' <=> Failing(s)
  BY <1>2 DEF Failing
<1>5. /\ Stopping(s)' <=> Stopping(s)
      /\ Purging(s)' <=> Purging(s)
  BY DEF Stopping, Purging, Off, NoConfig
<1> QED
  BY <1>3, <1>4, <1>5 DEF ServicePhase

LEMMA DueRuns ==
  ASSUME RuntimeType, CertificateDue
  PROVE  acme' \in Acme /\ \A s, c : CanRun(s, c)' <=> CanRun(s, c)
<1>1. acme' = [acme EXCEPT !.cert = "due"] /\ acme.cert = "valid" /\ acme \in Acme
  BY DEF CertificateDue, RuntimeType
<1>2. acme'.cert = "due" /\ acme' \in Acme
  BY <1>1 DEF Acme, Certificates
<1> QED
  BY <1>1, <1>2 DEF CanRun

(***************************************************************************)
(* A manager begins.                                                       *)
(***************************************************************************)
LEMMA EnterService ==
  ASSUME RuntimeType, NEW s \in Services, NEW j \in Jobs, Enter(s, j), job' = j, st' = st,
         OursOnly(s), s \notin failed'
  PROVE  ServicePhase(s)'
<1>1. /\ todo' = ProgramOf(s, j) /\ before' = st[s] /\ ~undoing' /\ slips' = 0
      /\ st[s] \in Service
  BY DEF Enter, RuntimeType
<1>2. j \in Job
  BY JobsAssumption
<1>3. j[s] \in Target
  BY <1>2 DEF Job, Services
<1>4. ProgramOf(s, j) = IF s = "xray" THEN XrayApply(j[s], st[s]) ELSE RealmApply(j[s], st[s])
  BY <1>2 DEF ProgramOf, Services, Job
<1>5. CASE j[s].do = "run"
  <2>1. todo' = IF s = "xray" THEN XE1 ELSE RE1
    BY <1>1, <1>4, <1>5, OtherPrograms DEF XrayApply, RealmApply
  <2>2. (Found(s) /\ Calm(s))'
    BY <1>1 DEF Found, Calm
  <2> QED
    BY <1>1, <1>5, <2>1, <2>2 DEF ServicePhase, Bringing, Services
<1>6. CASE j[s].do = "stop"
  <2>1. todo' = IF st[s].marker THEN IF st[s].unit THEN K1 ELSE K3 ELSE <<>>
    BY <1>1, <1>4, <1>6, RemovalPrograms DEF XrayApply, RealmApply, Service
  <2>2. Stopping(s)'
    BY <1>1, <2>1 DEF Stopping, Off, OursOnly, Blank
  <2> QED
    BY <1>1, <1>6, <2>2 DEF ServicePhase
<1>7. CASE j[s].do = "purge"
  <2>1. todo' = IF st[s].marker THEN IF st[s].unit THEN G1 ELSE H4 ELSE S5
    BY <1>1, <1>4, <1>7, RemovalPrograms DEF XrayApply, RealmApply, Service
  <2>2. Purging(s)'
    BY <1>1, <2>1 DEF Purging
  <2> QED
    BY <1>1, <1>7, <2>2 DEF ServicePhase
<1> QED
  BY <1>3, <1>5, <1>6, <1>7 DEF Target

(***************************************************************************)
(* The managers of the services: every step leaves the service ours and    *)
(* its manager in its phase.                                               *)
(***************************************************************************)
LEMMA StepSame ==
  ASSUME Step
  PROVE  Same /\ job # None /\ todo # <<>> /\ helper' = helper
BY DEF Step, Same, panelVars

LEMMA ServiceSteps ==
  ASSUME RuntimeType, Step, NEW s \in Services, part = s, OursOnly(s), ServicePhase(s)
  PROVE  Sound(s)' /\ ServicePhase(s)'
<1>1. /\ job # None /\ todo # <<>>
      /\ job' = job /\ failed' = failed /\ undoing' = undoing
  BY StepSame DEF Same
<1>2. CASE job[s].do = "run" /\ s \notin failed /\ ~undoing /\ Bringing(s)
  BY <1>1, <1>2, BringingStep DEF ServicePhase
<1>3. CASE job[s].do = "run" /\ s \in failed /\ Failing(s)
  BY <1>1, <1>3, FailingStep DEF ServicePhase
<1>4. CASE job[s].do = "stop" /\ s \notin failed /\ ~undoing /\ Stopping(s)
  BY <1>1, <1>4, StoppingStep DEF ServicePhase
<1>5. CASE job[s].do = "purge" /\ s \notin failed /\ ~undoing /\ Purging(s)
  BY <1>1, <1>5, PurgingStep DEF ServicePhase
<1> QED
  BY <1>1, <1>2, <1>3, <1>4, <1>5 DEF ServicePhase

LEMMA ServiceStepFails ==
  ASSUME RuntimeType, StepFails, NEW s \in Services, part = s, OursOnly(s), ServicePhase(s)
  PROVE  Sound(s)' /\ ServicePhase(s)' /\ failed' = failed \cup {s}
<1>1. job # None /\ todo # <<>> /\ job' = job
  BY DEF StepFails
<1>2. CASE job[s].do = "run" /\ s \notin failed /\ ~undoing /\ Bringing(s)
  <2>1. Sound(s)' /\ Failing(s)' /\ failed' = failed \cup {s}
    BY <1>1, <1>2, BringingFails
  <2> QED
    BY <1>1, <1>2, <2>1 DEF ServicePhase
<1>3. CASE job[s].do = "run" /\ s \in failed /\ Failing(s)
  <2>1. Sound(s)' /\ Failing(s)' /\ failed' = failed \cup {s}
    BY <1>1, <1>3, FailingFails
  <2> QED
    BY <1>1, <1>3, <2>1 DEF ServicePhase
<1>4. CASE job[s].do \in {"stop", "purge"} /\ ~undoing /\ (Stopping(s) \/ Purging(s))
  <2>1. PICK op \in {"stop", "disable", "removeConfigs", "firewall", "removeUnit",
                     "emptyConfigDir", "emptyInstallDir", "removeMarker"} :
          \E rest : First(todo, op, rest)
    BY <1>1, <1>4, StopTails, PurgeTails, ExchangeTails DEF Stopping, Purging
  <2>2. Sound(s)' /\ todo' = <<>> /\ ~undoing' /\ failed' = failed \cup {s}
    BY <1>4, <2>1, RemovalFails
  <2> QED
    BY <1>1, <1>4, <2>2 DEF ServicePhase
<1> QED
  BY <1>1, <1>2, <1>3, <1>4 DEF ServicePhase

\* Which variables the two kinds of step leave alone.
LEMMA AcmeHead ==
  ASSUME OtherInv, part = "acme", todo # <<>>
  PROVE  Head(todo) \in AcmeOps
<1>1. todo \in {C1, C2, C3, C4, C5, C6, C7, P1, P2, P3, P4}
  BY DEF OtherInv, Clearing
<1> QED
  BY <1>1, RenewTails, OtherTails DEF First, AcmeOps

LEMMA StepFrame ==
  ASSUME RuntimeType, IdleInv, OtherInv, Step
  PROVE  /\ acme' \in Acme
         /\ st' = st \/ (part \in Services /\ \E y : st' = [st EXCEPT ![part] = y])
         /\ part # "china" => china' = china
         /\ part \in {"china", "agent"} => st' = st /\ acme' = acme /\ todo' = <<>>
         /\ part = "acme" => st' = st
         /\ host' = host \/ host' = [host EXCEPT !.helper = TRUE]
<1> DEFINE op == Head(todo)
<1>1. acme \in Acme /\ part \in Parts /\ todo # <<>>
  BY DEF RuntimeType, IdleInv, Step
<1>2. DoneAcme(op) \in Acme
  BY <1>1 DEF DoneAcme, Acme, Certificates
<1>3. [acme EXCEPT !.cert = None, !.old = None] \in Acme
  BY <1>1 DEF Acme, Certificates
<1>4. part \in {"china", "agent"} => op \notin AcmeOps /\ Tail(todo) = <<>>
  BY <1>1, OtherTails DEF OtherInv, First, AcmeOps
<1>5. part = "acme" => op \in AcmeOps
  BY <1>1, AcmeHead
<1>6. CASE op \in AcmeOps
  BY <1>2, <1>4, <1>6 DEF Step
<1>7. CASE op \notin AcmeOps /\ part = "agent"
  BY <1>1, <1>4, <1>7 DEF Step
<1>8. CASE op \notin AcmeOps /\ part = "china"
  BY <1>1, <1>4, <1>8 DEF Step
<1>9. CASE op \notin AcmeOps /\ part \in Services
  <2>1. part # "agent" /\ part # "china"
    BY <1>9 DEF Services
  <2>2. /\ st' = [st EXCEPT ![part] = Done(op)] /\ china' = china
        /\ acme' \in {acme, [acme EXCEPT !.cert = None, !.old = None]} /\ host' = host
    BY <1>9, <2>1 DEF Step
  <2> QED
    BY <1>1, <1>3, <1>9, <2>1, <2>2 DEF Services
<1> QED
  BY <1>1, <1>5, <1>6, <1>7, <1>8, <1>9 DEF Parts

LEMMA FailFrame ==
  ASSUME RuntimeType, StepFails
  PROVE  /\ acme' \in Acme /\ slips' \in Nat
         /\ st' = st \/ (part \in Services /\ \E y : st' = [st EXCEPT ![part] = y])
         /\ failed' = failed \cup {part}
         /\ LeftSame /\ job # None /\ todo # <<>> /\ UNCHANGED hostVars
<1>1. acme' = UndoneAcme(Head(todo)) /\ acme \in Acme
  BY DEF StepFails, RuntimeType
<1>2. UndoneAcme(Head(todo)) \in Acme
  BY <1>1 DEF UndoneAcme, Acme, Certificates
<1>3. slips' \in Nat
  BY DEF StepFails, RuntimeType
<1>4. LeftSame /\ UNCHANGED hostVars
  BY DEF StepFails, LeftSame, hostVars
<1>5. st' = st \/ (part \in Services /\ \E y : st' = [st EXCEPT ![part] = y])
  BY DEF StepFails
<1> QED
  BY <1>1, <1>2, <1>3, <1>4, <1>5 DEF StepFails

LEMMA UndoingBoolean ==
  ASSUME RuntimeType, StepFails
  PROVE  undoing' \in BOOLEAN
BY DEF StepFails, RuntimeType

(***************************************************************************)
(* Types.                                                                  *)
(***************************************************************************)
LEMMA RuntimeTypeInit == ASSUME RuntimeInit PROVE RuntimeType
<1>1. NoService \in Service
  BY DEF NoService, Service
<1>2. acme \in Acme
  BY DEF RuntimeInit, Acme, Certificates
<1>3. st \in [Services -> Service]
  BY <1>1 DEF RuntimeInit
<1>4. host \in Host
  BY DEF RuntimeInit, Host
<1>5. /\ desired \in Jobs /\ version \in Nat \ {0} /\ job = None /\ fetched \in Nat
      /\ failed \subseteq Parts /\ before \in Service /\ slips \in Nat
  BY <1>1 DEF RuntimeInit
<1>6. undoing \in BOOLEAN /\ archived \in BOOLEAN
  BY DEF RuntimeInit
<1> QED
  BY <1>2, <1>3, <1>4, <1>5, <1>6 DEF RuntimeType

LEMMA ServicesTyped ==
  ASSUME RuntimeType, \/ st' = st
                      \/ \E s \in Services : (\E y : st' = [st EXCEPT ![s] = y]) /\ st'[s] \in Service
  PROVE  st' \in [Services -> Service]
BY DEF RuntimeType

\* A manager that has rules to add owns its service.
LEMMA RulesAreOurs ==
  ASSUME NEW s \in Services, ServicePhase(s), todo # <<>>, Head(todo) = "firewall",
         job[s].do = "run" \/ undoing
  PROVE  st[s].marker
<1>1. CASE job[s].do = "run" /\ s \notin failed /\ ~undoing /\ Bringing(s)
  <2>1. todo = S5 /\ Ready(s)
    BY <1>1, EnableTails, InstallTails, CertificateTails, ExchangeTails DEF Bringing, First
  <2> QED
    BY <2>1 DEF Ready, Checked
<1>2. CASE job[s].do = "run" /\ s \in failed /\ Failing(s)
  BY <1>2, RenewTails DEF Failing, First
<1> QED
  BY <1>1, <1>2 DEF ServicePhase

LEMMA CrashServices ==
  ASSUME RuntimeType, IdleInv, OwnedInv, ServiceInv, Crash
  PROVE  st' \in [Services -> Service] /\ OwnedInv'
<1>1. CASE ~(part \in Services /\ todo # <<>> /\ Head(todo) = "firewall")
  <2>1. st' = st
    BY <1>1 DEF Crash
  <2> QED
    BY <2>1 DEF RuntimeType, OwnedInv, OursOnly
<1>2. CASE part \in Services /\ todo # <<>> /\ Head(todo) = "firewall"
  <2>1. PICK R \in PartialRules : st' = [st EXCEPT ![part].rules = R]
    BY <1>2 DEF Crash
  <2>2. svc = st[part] /\ svc \in Service /\ job # None
    BY <1>2, NoneApart DEF svc, RuntimeType, IdleInv, Parts
  <2>3. R \in SUBSET Ports
    BY <1>2, <2>2, WantedType DEF PartialRules, Service
  <2> DEFINE y == [svc EXCEPT !.rules = R]
  <2>4. st'[part] = y /\ \A r \in Services : r # part => st'[r] = st[r]
    BY <1>2, <2>1, <2>2 DEF RuntimeType
  <2>5. /\ y \in Service /\ y.rules = R
        /\ y.marker = svc.marker /\ y.bin = svc.bin /\ y.unit = svc.unit
        /\ y.enabled = svc.enabled /\ y.conf = svc.conf /\ y.prev = svc.prev /\ y.run = svc.run
    BY <2>2, <2>3 DEF Service
  <2> HIDE DEF y
  <2>6. st' \in [Services -> Service]
    BY <1>2, <2>1, <2>4, <2>5 DEF RuntimeType
  <2>7. OursOnly(part) /\ ServicePhase(part)
    BY <1>2 DEF OwnedInv, ServiceInv
  <2>8. ~svc.marker => R = {}
    <3>1. ~svc.marker => WantedRules = {}
      BY <1>2, <2>2, <2>7, RulesAreOurs DEF WantedRules, wish
    <3> QED
      BY <2>2, <2>7, <3>1, HalfReconciled DEF OursOnly, Blank
  <2>9. /\ ~st'[part].marker => Blank(st'[part])
        /\ ~st'[part].unit => st'[part].run = None /\ ~st'[part].enabled
    BY <2>2, <2>4, <2>5, <2>7, <2>8 DEF OursOnly, Blank
  <2>10. ASSUME NEW s \in Services PROVE OursOnly(s)'
    <3>1. CASE s = part
      BY <2>9, <3>1 DEF OursOnly
    <3>2. CASE s # part
      BY <2>4, <3>2 DEF OursOnly, OwnedInv
    <3> QED
      BY <3>1, <3>2
  <2> QED
    BY <2>6, <2>10 DEF OwnedInv
<1> QED
  BY <1>1, <1>2

LEMMA RebootServices ==
  ASSUME RuntimeType, OwnedInv, Reboot
  PROVE  st' \in [Services -> Service] /\ OwnedInv' /\ acme' \in Acme
<1>1. PICK keep \in BOOLEAN :
        /\ st' = [s \in Services |->
                    [st[s] EXCEPT !.run = IF st[s].enabled THEN Started(s, st[s].conf) ELSE None,
                                  !.rules = IF keep THEN @ ELSE {}]]
        /\ acme' = IF keep THEN acme ELSE [acme EXCEPT !.open80 = FALSE]
  BY DEF Reboot
<1>2. acme' \in Acme
  BY <1>1 DEF RuntimeType, Acme
<1>3. ASSUME NEW s \in Services
      PROVE  st'[s] \in Service /\ OursOnly(s)'
  <2> DEFINE x == st[s]
             run == IF x.enabled THEN Started(s, x.conf) ELSE None
             rules == IF keep THEN x.rules ELSE {}
             y == [x EXCEPT !.run = run, !.rules = rules]
  <2>1. x \in Service /\ OursOnly(s)
    BY DEF RuntimeType, OwnedInv
  <2>2. run \in Config \cup {None} /\ rules \in SUBSET Ports
    BY <2>1 DEF Started, Service
  <2>3. st'[s] = y
    BY <1>1, <2>1 DEF Service
  <2> HIDE DEF run, rules
  <2>4. /\ y \in Service /\ y.rules = rules /\ y.run = run
        /\ y.marker = x.marker /\ y.bin = x.bin /\ y.unit = x.unit
        /\ y.enabled = x.enabled /\ y.conf = x.conf /\ y.prev = x.prev
    BY <2>1, <2>2 DEF Service
  <2> HIDE DEF y
  <2>5. (~x.enabled => run = None) /\ (x.rules = {} => rules = {})
    BY DEF run, rules
  <2> QED
    BY <2>1, <2>3, <2>4, <2>5 DEF OursOnly, Blank
<1>4. st' \in [Services -> Service]
  <2>1. DOMAIN st' = Services /\ st' = [s \in Services |-> st'[s]]
    BY <1>1
  <2> QED
    BY <1>3, <2>1
<1> QED
  BY <1>2, <1>3, <1>4 DEF OwnedInv

LEMMA RuntimeTypeNext ==
  ASSUME RuntimeType, IdleInv, HostInv, OwnedInv, ServiceInv, OtherInv, [RuntimeNext]_vars
  PROVE  RuntimeType'
<1> USE DEF RuntimeType
<1>0. NoService \in Service /\ version + 1 \in Nat \ {0}
  BY DEF NoService, Service
<1>1. CASE UNCHANGED vars
  BY <1>1 DEF vars, panelVars, syncVars, hostVars
<1>2. ASSUME NEW j \in Jobs, ChangeDesired(j) PROVE RuntimeType'
  BY <1>0, <1>2 DEF ChangeDesired, syncVars, hostVars
<1>3. CASE StartSync
  <2>1. st["xray"] \in Service /\ "xray" \in Services
    BY DEF Services
  <2> QED
    BY <1>3, <2>1 DEF StartSync, Enter, panelVars, hostVars
<1>4. CASE Step
  <2>1. st' \in [Services -> Service]
    <3>1. CASE part \in Services
      <4>1. OursOnly(part) /\ ServicePhase(part)
        BY <3>1 DEF OwnedInv, ServiceInv
      <4>2. st'[part] \in Service
        BY <1>4, <3>1, <4>1, ServiceSteps DEF Sound
      <4> QED
        BY <1>4, <3>1, <4>2, StepFrame, ServicesTyped
    <3>2. CASE part \notin Services
      BY <1>4, <3>2, StepFrame
    <3> QED
      BY <3>1, <3>2
  <2>2. host' \in Host
    BY <1>4, StepFrame DEF Host
  <2>3. acme' \in Acme
    BY <1>4, StepFrame
  <2>4. Same
    BY <1>4, StepSame
  <2> QED
    BY <2>1, <2>2, <2>3, <2>4 DEF Same, panelVars
<1>5. CASE StepFails
  <2>1. st' \in [Services -> Service]
    <3>1. CASE part \in Services
      <4>1. OursOnly(part) /\ ServicePhase(part)
        BY <3>1 DEF OwnedInv, ServiceInv
      <4>2. st'[part] \in Service
        BY <1>5, <3>1, <4>1, ServiceStepFails DEF Sound
      <4> QED
        BY <1>5, <3>1, <4>2, FailFrame, ServicesTyped
    <3>2. CASE part \notin Services
      BY <1>5, <3>2, FailFrame
    <3> QED
      BY <3>1, <3>2
  <2>2. undoing' \in BOOLEAN /\ acme' \in Acme /\ slips' \in Nat
    BY <1>5, FailFrame, UndoingBoolean
  <2>3. failed' \subseteq Parts
    BY <1>5, FailFrame DEF IdleInv
  <2>4. LeftSame /\ UNCHANGED hostVars
    BY <1>5, FailFrame
  <2> QED
    BY <2>1, <2>2, <2>3, <2>4 DEF LeftSame, panelVars, hostVars
<1>6. CASE FinishPart
  <2>1. before' \in Service
    BY <1>0, <1>6 DEF FinishPart, Enter
  <2> QED
    BY <1>6, <2>1 DEF FinishPart, Enter, panelVars, hostVars
<1>7. ASSUME NEW b \in BOOLEAN, Report(b) PROVE RuntimeType'
  <2>1. host' \in Host
    BY <1>7 DEF Report, Host
  <2>2. archived' \in BOOLEAN
    BY <1>7 DEF Report
  <2> QED
    BY <1>0, <1>7, <2>1, <2>2 DEF Report, Idle, panelVars
<1>8. ASSUME NEW b \in BOOLEAN, Activate(b) PROVE RuntimeType'
  <2>1. host' \in Host
    BY <1>8 DEF Activate, Host
  <2> QED
    BY <1>8, <2>1 DEF Activate, panelVars, syncVars
<1>9. CASE HelperStep
  <2>1. helper \in {U1, U2, U3, U4, U5}
    BY <1>9, HelperTails DEF HelperStep, HostInv, HelperInv, First
  <2>2. \/ host' = [host EXCEPT !.up = FALSE] \/ host' = [host EXCEPT !.enabled = FALSE]
        \/ host' = [host EXCEPT !.unit = FALSE] \/ host' = [host EXCEPT !.dirs = FALSE]
        \/ host' = [host EXCEPT !.helper = FALSE]
    BY <1>9, <2>1, HelperTails DEF HelperStep, First
  <2>3. host' \in Host
    BY <2>2 DEF Host
  <2>4. /\ st' = st /\ acme' = acme /\ desired' = desired /\ version' = version
        /\ archived' = archived
    BY <1>9 DEF HelperStep, panelVars
  <2>5. CASE Idle
    BY <1>0, <2>3, <2>4, <2>5 DEF Idle
  <2>6. CASE UNCHANGED syncVars
    BY <2>3, <2>4, <2>6 DEF syncVars
  <2> QED
    BY <1>9, <2>5, <2>6 DEF HelperStep
<1>10. CASE HelperFails
  BY <1>10 DEF HelperFails, panelVars, syncVars
<1>11. CASE CertificateDue
  BY <1>11, DueRuns DEF CertificateDue, panelVars, syncVars, hostVars
<1>12. CASE Renew
  BY <1>12 DEF Renew, panelVars, hostVars
<1>13. CASE refreshChinaPrefixes
  BY <1>13 DEF refreshChinaPrefixes, panelVars, syncVars, hostVars
<1>14. CASE Crash
  BY <1>0, <1>14, CrashServices DEF Crash, Idle, panelVars
<1>15. CASE Reboot
  <2>1. host' \in Host
    BY <1>15 DEF Reboot, Host
  <2> QED
    BY <1>0, <1>15, <2>1, RebootServices DEF Reboot, Idle, panelVars
<1>16. ASSUME NEW s \in Services, ServiceRestarts(s) PROVE RuntimeType'
  <2>1. st'[s] \in Service
    BY <1>16, RestartSound DEF OwnedInv, Sound
  <2>2. st' \in [Services -> Service]
    BY <1>16, <2>1, ServicesTyped DEF ServiceRestarts
  <2> QED
    BY <1>16, <2>2 DEF ServiceRestarts, panelVars, hostVars
<1> QED
  BY <1>1, <1>2, <1>3, <1>4, <1>5, <1>6, <1>7, <1>8, <1>9, <1>10, <1>11, <1>12, <1>13, <1>14,
     <1>15, <1>16 DEF RuntimeNext

(***************************************************************************)
(* The sync: between two managers, and between two syncs.                  *)
(***************************************************************************)
SyncInv == IdleInv /\ OwnedInv /\ ServiceInv /\ OtherInv /\ GoneInv

LEMMA SyncInit == ASSUME RuntimeInit PROVE SyncInv
<1>1. part = None /\ part \notin Services /\ part \notin Parts
  BY NoneApart DEF RuntimeInit, Parts
<1>2. part \notin {"xray", "realm", "china", "acme", "agent"}
  BY <1>1 DEF Parts, Services
<1>3. IdleInv /\ ServiceInv /\ OtherInv /\ GoneInv
  BY <1>1, <1>2 DEF RuntimeInit, IdleInv, ServiceInv, OtherInv, GoneInv
<1>4. OwnedInv
  BY DEF RuntimeInit, OwnedInv, OursOnly, Blank, NoService
<1> QED
  BY <1>3, <1>4 DEF SyncInv

LEMMA SyncIdle ==
  ASSUME Idle
  PROVE  IdleInv' /\ ServiceInv' /\ OtherInv' /\ GoneInv'
<1>1. part' = None /\ part' \notin Services /\ part' \notin {"xray", "realm", "china", "acme", "agent"}
  BY NoneApart DEF Idle, Parts, Services
<1> QED
  BY <1>1 DEF Idle, IdleInv, ServiceInv, OtherInv, GoneInv

LEMMA SyncKept ==
  ASSUME SyncInv, UNCHANGED <<st, acme, china, syncVars>>
  PROVE  SyncInv'
<1> USE DEF SyncInv, syncVars
<1>1. \A s, c : CanRun(s, c)' <=> CanRun(s, c)
  BY DEF CanRun
<1>2. ServiceInv'
  BY <1>1, PhaseStays DEF ServiceInv
<1>3. IdleInv' /\ OwnedInv' /\ GoneInv'
  BY DEF IdleInv, OwnedInv, OursOnly, GoneInv
<1>4. OtherInv'
  BY DEF OtherInv, Clearing
<1> QED
  BY <1>2, <1>3, <1>4

LEMMA SyncStart ==
  ASSUME RuntimeType, SyncInv, StartSync
  PROVE  SyncInv'
<1> USE DEF SyncInv
<1>1. /\ Enter("xray", desired) /\ job' = desired /\ desired \in Jobs /\ fetched' # 0
      /\ failed' = {} /\ part' = "xray" /\ st' = st /\ job' # None
  BY NoneApart DEF StartSync, Enter, RuntimeType
<1>2. ServicePhase("xray")'
  BY <1>1, EnterService DEF OwnedInv, Services
<1>3. IdleInv'
  BY <1>1 DEF IdleInv, Parts, Services
<1>4. OwnedInv'
  BY <1>1 DEF OwnedInv, OursOnly
<1>5. ServiceInv' /\ OtherInv' /\ GoneInv'
  BY <1>1, <1>2 DEF ServiceInv, OtherInv, GoneInv, Services
<1> QED
  BY <1>3, <1>4, <1>5

\* A decommission asks both services to go and nothing to be blocked.
LEMMA DecommissionJob ==
  ASSUME RuntimeType, job # None, job.decommission
  PROVE  job["xray"].do = "purge" /\ job["realm"].do = "purge" /\ ~job.block
<1>1. job \in Jobs
  BY DEF RuntimeType
<1>2. job.xray.do = "purge" /\ job.realm.do = "purge" /\ ~job.block
  BY <1>1, JobsAssumption
<1> QED
  BY <1>2

LEMMA OthersOwned ==
  ASSUME RuntimeType, OwnedInv,
         st' = st \/ \E y : st' = [st EXCEPT ![part] = y],
         st' # st => \A s \in Services : s = part => OursOnly(s)'
  PROVE  OwnedInv'
<1>1. CASE st' = st
  BY <1>1 DEF OwnedInv, OursOnly
<1>2. CASE st' # st
  <2>1. \A r \in Services : r # part => st'[r] = st[r]
    BY <1>2 DEF RuntimeType
  <2>2. ASSUME NEW s \in Services PROVE OursOnly(s)'
    <3>1. CASE s = part
      BY <1>2, <3>1
    <3>2. CASE s # part
      BY <2>1, <2>2, <3>2 DEF OursOnly, OwnedInv
    <3> QED
      BY <3>1, <3>2
  <2> QED
    BY <2>2 DEF OwnedInv
<1> QED
  BY <1>1, <1>2

LEMMA ClearingStep ==
  ASSUME RuntimeType, Step, Clearing
  PROVE  Clearing'
<1>0. todo # <<>> /\ acme \in Acme
  BY DEF Step, RuntimeType
<1>1. CASE todo = P1
  <2>1. First(todo, "close80", P2) /\ "close80" \in AcmeOps
    BY <1>1, OtherTails DEF AcmeOps
  <2>2. acme' = [acme EXCEPT !.open80 = FALSE] /\ todo' = P2
    BY <2>1, AcmeOperation DEF DoneAcme
  <2> QED
    BY <1>0, <2>2 DEF Clearing, Acme
<1>2. CASE todo = P2 /\ ~acme.open80
  <2>1. First(todo, "emptyTool", P3) /\ "emptyTool" \in AcmeOps
    BY <1>2, OtherTails DEF AcmeOps
  <2>2. acme' \in {acme, [acme EXCEPT !.script = FALSE]} /\ todo' = P3
    BY <2>1, AcmeOperation DEF DoneAcme
  <2> QED
    BY <1>0, <1>2, <2>2 DEF Clearing, Acme
<1>3. CASE todo = P3 /\ ~acme.open80
  <2>1. First(todo, "dropCertificates", P4) /\ "dropCertificates" \in AcmeOps
    BY <1>3, OtherTails DEF AcmeOps
  <2>2. acme' = [acme EXCEPT !.cert = None, !.old = None] /\ todo' = P4
    BY <2>1, AcmeOperation DEF DoneAcme
  <2> QED
    BY <1>0, <1>3, <2>2 DEF Clearing, Acme
<1>4. CASE todo = P4 /\ ~acme.open80 /\ acme.cert = None
  <2>1. First(todo, "dropToolMarker", <<>>) /\ "dropToolMarker" \in AcmeOps
    BY <1>4, OtherTails DEF AcmeOps
  <2>2. acme' = [acme EXCEPT !.marker = FALSE] /\ todo' = <<>>
    BY <2>1, AcmeOperation DEF DoneAcme
  <2> QED
    BY <1>0, <1>4, <2>2 DEF Clearing, Acme
<1> QED
  BY <1>0, <1>1, <1>2, <1>3, <1>4 DEF Clearing

LEMMA SyncStep ==
  ASSUME RuntimeType, SyncInv, Step
  PROVE  SyncInv'
<1> USE DEF SyncInv
<1>0. Same /\ job # None /\ todo # <<>> /\ part \in Parts
  BY StepSame DEF IdleInv
<1>1. IdleInv'
  BY <1>0 DEF IdleInv, Same
<1>2. \A s \in Services : s = part => OursOnly(s)' /\ ServicePhase(s)'
  BY ServiceSteps DEF Sound, OwnedInv, ServiceInv
<1>3. OwnedInv'
  BY <1>2, StepFrame, OthersOwned
<1>4. ServiceInv'
  BY <1>0, ServiceSteps DEF ServiceInv, OwnedInv, Same
<1>5. CASE part \in Services
  <2>1. part \notin {"china", "acme", "agent"}
    BY <1>5 DEF Services
  <2>2. OtherInv'
    BY <1>0, <2>1 DEF OtherInv, Same
  <2>3. GoneInv'
    <3>1. part # "xray" => st'["xray"] = st["xray"]
      BY <1>5, StepFrame DEF RuntimeType, Services
    <3> QED
      BY <1>0, <1>5, <2>1, <3>1 DEF GoneInv, Same
  <2> QED
    BY <1>1, <1>3, <1>4, <2>2, <2>3
<1>6. CASE part = "china"
  <2>1. st' = st /\ acme' = acme /\ todo' = <<>>
    BY <1>6, StepFrame
  <2>2. Head(todo) = "block"
    BY <1>0, <1>6, OtherTails DEF OtherInv, First
  <2>3. china' = IF job.block THEN managedChinaInboundPorts(job) ELSE None
    BY <1>6, <2>2 DEF Step, AcmeOps
  <2>4. OtherInv'
    BY <1>0, <1>6, <2>1 DEF OtherInv, Same
  <2>5. job.decommission => china' = None
    BY <1>0, <2>3, DecommissionJob
  <2>6. GoneInv'
    BY <1>0, <1>6, <2>1, <2>5 DEF GoneInv, Same
  <2> QED
    BY <1>1, <1>3, <1>4, <2>4, <2>6
<1>7. CASE part = "agent"
  <2>1. st' = st /\ acme' = acme /\ todo' = <<>> /\ china' = china
    BY <1>7, StepFrame
  <2>2. OtherInv'
    BY <1>0, <1>7, <2>1 DEF OtherInv, Same
  <2>3. GoneInv'
    BY <1>0, <1>7, <2>1 DEF GoneInv, Same
  <2> QED
    BY <1>1, <1>3, <1>4, <2>2, <2>3
<1>8. CASE part = "acme"
  <2>1. st' = st /\ china' = china
    BY <1>8, StepFrame
  <2>2. GoneInv'
    BY <1>0, <1>8, <2>1 DEF GoneInv, Same, Services
  <2>3. CASE fetched = 0
    <3>1. ~undoing /\ todo \in {C1, C2, C3, C4, C5, C6, C7}
      BY <1>0, <1>8, <2>3 DEF OtherInv
    <3>2. PICK op \in AcmeOps : \E rest \in {C2, C3, C4, C5, C6, C7, <<>>} : First(todo, op, rest)
      BY <3>1, RenewTails DEF AcmeOps
    <3>3. todo' \in {C2, C3, C4, C5, C6, C7, <<>>}
      BY <3>2, AcmeOperation
    <3>4. OtherInv'
      BY <1>0, <1>8, <2>3, <3>1, <3>3 DEF OtherInv, Same
    <3> QED
      BY <1>1, <1>3, <1>4, <2>2, <3>4
  <2>4. CASE fetched # 0
    <3>1. ~undoing /\ job.decommission /\ failed = {} /\ Clearing
      BY <1>0, <1>8, <2>4 DEF OtherInv
    <3>2. Clearing'
      BY <3>1, ClearingStep
    <3>3. OtherInv'
      BY <1>0, <1>8, <2>4, <3>1, <3>2 DEF OtherInv, Same
    <3> QED
      BY <1>1, <1>3, <1>4, <2>2, <3>3
  <2> QED
    BY <2>3, <2>4
<1> QED
  BY <1>0, <1>5, <1>6, <1>7, <1>8 DEF Parts

LEMMA SyncStepFails ==
  ASSUME RuntimeType, SyncInv, StepFails
  PROVE  SyncInv'
<1> USE DEF SyncInv
<1>0. /\ LeftSame /\ job # None /\ todo # <<>> /\ part \in Parts /\ failed' = failed \cup {part}
      /\ todo' = AfterError(Head(todo))
      /\ undoing' = (undoing \/ (todo' # <<>> /\ Head(todo') # "close80"))
  BY FailFrame DEF IdleInv, StepFails
<1>1. IdleInv'
  BY <1>0 DEF IdleInv, LeftSame
<1>2. \A s \in Services : s = part => OursOnly(s)' /\ ServicePhase(s)'
  BY ServiceStepFails DEF Sound, OwnedInv, ServiceInv
<1>3. OwnedInv'
  BY <1>2, FailFrame, OthersOwned
<1>4. ServiceInv'
  BY <1>0, ServiceStepFails DEF ServiceInv, OwnedInv, LeftSame
<1>5. GoneInv'
  BY <1>0 DEF GoneInv
<1>6. OtherInv'
  <2>1. CASE part \in {"china", "agent"}
    <3>1. Head(todo) \in {"block", "stage"} /\ ~undoing
      BY <1>0, <2>1, OtherTails DEF OtherInv, First
    <3>2. todo' = <<>>
      BY <1>0, <3>1 DEF AfterError
    <3>3. ~undoing'
      BY <1>0, <3>1, <3>2
    <3> QED
      BY <1>0, <2>1, <3>2, <3>3 DEF OtherInv, LeftSame
  <2>2. CASE part = "acme" /\ fetched = 0
    <3>1. Head(todo) \in AcmeOps /\ ~undoing
      BY <1>0, <2>2, AcmeHead DEF OtherInv
    <3>2. todo' \in {C7, <<>>}
      BY <1>0, <3>1, OtherPrograms DEF AfterError, AcmeOps
    <3>3. ~undoing'
      BY <1>0, <3>1, <3>2, RenewTails DEF First
    <3> QED
      BY <1>0, <2>2, <3>2, <3>3 DEF OtherInv, LeftSame
  <2>3. CASE part = "acme" /\ fetched # 0
    <3>1. ~undoing /\ job.decommission /\ todo \in {P1, P2, P3, P4}
      BY <1>0, <2>3 DEF OtherInv, Clearing
    <3>2. Head(todo) \in {"close80", "emptyTool", "dropCertificates", "dropToolMarker"}
      BY <3>1, OtherTails DEF First
    <3>3. todo' = <<>>
      BY <1>0, <3>1, <3>2 DEF AfterError
    <3>4. ~undoing'
      BY <1>0, <3>1, <3>3
    <3> QED
      BY <1>0, <2>3, <3>1, <3>3, <3>4 DEF OtherInv, LeftSame
  <2>4. CASE part \in Services
    BY <1>0, <2>4 DEF OtherInv, LeftSame, Services
  <2> QED
    BY <1>0, <2>1, <2>2, <2>3, <2>4 DEF Parts
<1> QED
  BY <1>1, <1>3, <1>4, <1>5, <1>6

\* A manager that removed its service without an error left nothing.
LEMMA Purged ==
  ASSUME NEW s \in Services, OursOnly(s), ServicePhase(s), todo = <<>>,
         job[s].do = "purge", s \notin failed
  PROVE  Blank(st[s])
<1>1. Purging(s)
  BY DEF ServicePhase
<1>2. ~st[s].marker
  BY <1>1, ExchangeTails, PurgeTails DEF Purging, First
<1> QED
  BY <1>2 DEF OursOnly

\* Which manager follows.
LEMMA FollowingPart ==
  ASSUME RuntimeType, IdleInv, FinishPart
  PROVE  /\ job # None /\ job \in Jobs /\ fetched # 0 /\ todo = <<>>
         /\ job.decommission => failed = {}
         /\ \/ part = "xray" /\ Following = "realm"
            \/ part = "realm" /\ Following = "china"
            \/ part = "china" /\ Following = "acme" /\ job.decommission
            \/ part = "acme" /\ Following = "agent" /\ job.decommission
<1>1. job # None /\ job \in Jobs /\ todo = <<>> /\ part \in Parts /\ Following # None
  BY DEF FinishPart, RuntimeType, IdleInv
<1>2. fetched # 0 /\ Following = NextPart(part, job, failed = {})
  BY <1>1 DEF Following
<1>3. job.decommission \in BOOLEAN
  BY <1>1, JobsAssumption DEF Job
<1>4. ~(job.decommission /\ failed # {})
  BY <1>1, <1>2 DEF NextPart
<1>5. part \in {"xray", "realm", "china", "acme", "agent"}
  BY <1>1 DEF Parts, Services
<1>6. part # "agent"
  BY <1>1, <1>2, <1>4 DEF NextPart
<1>7. part \in {"china", "acme"} => job.decommission
  BY <1>1, <1>2, <1>4 DEF NextPart
<1>8. Following = CASE part = "xray"  -> "realm"
                    [] part = "realm" -> "china"
                    [] part = "china" -> "acme"
                    [] part = "acme"  -> "agent"
  BY <1>2, <1>4, <1>5, <1>6, <1>7 DEF NextPart
<1> QED
  BY <1>1, <1>2, <1>4, <1>5, <1>6, <1>7, <1>8

LEMMA SyncFinish ==
  ASSUME RuntimeType, SyncInv, FinishPart
  PROVE  SyncInv'
<1> USE DEF SyncInv
<1>0. /\ job # None /\ job \in Jobs /\ fetched # 0 /\ todo = <<>>
      /\ job.decommission => failed = {}
      /\ st' = st /\ acme' = acme /\ china' = china /\ job' = job /\ failed' = failed
      /\ fetched' = fetched /\ Enter(Following, job) /\ part' = Following
      /\ todo' = ProgramOf(Following, job) /\ ~undoing'
  BY FollowingPart DEF FinishPart, Enter
<1>1. OwnedInv'
  BY <1>0 DEF OwnedInv, OursOnly
<1>2. CASE part = "xray" /\ Following = "realm"
  <2>1. failed \subseteq {"xray"} /\ "realm" \notin failed /\ part' = "realm"
    BY <1>0, <1>2 DEF IdleInv
  <2>2. IdleInv'
    BY <1>0, <2>1 DEF IdleInv, Parts, Services
  <2>3. ServicePhase("realm")'
    BY <1>0, <1>2, <2>1, EnterService DEF OwnedInv, Services
  <2>4. job.decommission => Blank(st["xray"])
    BY <1>0, <1>2, Purged, DecommissionJob DEF OwnedInv, ServiceInv, Services
  <2>5. ServiceInv' /\ OtherInv'
    BY <1>0, <2>1, <2>3 DEF ServiceInv, OtherInv, Services
  <2>6. GoneInv'
    BY <1>0, <2>1, <2>4 DEF GoneInv, Services, Blank
  <2> QED
    BY <1>1, <2>2, <2>5, <2>6
<1>3. CASE part = "realm" /\ Following = "china"
  <2>1. part' = "china" /\ todo' = N1
    BY <1>0, <1>3, OtherPrograms DEF ProgramOf
  <2>2. IdleInv' /\ ServiceInv'
    BY <1>0, <2>1 DEF IdleInv, ServiceInv, Parts, Services
  <2>3. OtherInv'
    BY <1>0, <2>1 DEF OtherInv
  <2>4. job.decommission => Blank(st["realm"])
    BY <1>0, <1>3, Purged, DecommissionJob DEF OwnedInv, ServiceInv, Services
  <2>5. job.decommission => Blank(st["xray"])
    BY <1>0, <1>3 DEF GoneInv
  <2>6. N1 # <<>>
    BY OtherTails DEF First
  <2>7. GoneInv'
    BY <1>0, <2>1, <2>4, <2>5, <2>6 DEF GoneInv, Blank
  <2> QED
    BY <1>1, <2>2, <2>3, <2>7
<1>4. CASE part = "china" /\ Following = "acme" /\ job.decommission
  <2>1. part' = "acme" /\ todo' = P1 /\ failed = {}
    BY <1>0, <1>4, OtherPrograms DEF ProgramOf
  <2>2. IdleInv' /\ ServiceInv'
    BY <1>0, <2>1 DEF IdleInv, ServiceInv, Parts, Services
  <2>3. OtherInv'
    BY <1>0, <1>4, <2>1 DEF OtherInv, Clearing
  <2>4. Blank(st["xray"]) /\ Blank(st["realm"]) /\ china = None
    BY <1>0, <1>4, <2>1 DEF GoneInv, Services
  <2>5. GoneInv'
    BY <1>0, <2>1, <2>4 DEF GoneInv, Blank
  <2> QED
    BY <1>1, <2>2, <2>3, <2>5
<1>5. CASE part = "acme" /\ Following = "agent" /\ job.decommission
  <2>1. part' = "agent" /\ todo' = A1 /\ failed = {}
    BY <1>0, <1>5, OtherPrograms DEF ProgramOf
  <2>2. IdleInv' /\ ServiceInv'
    BY <1>0, <2>1 DEF IdleInv, ServiceInv, Parts, Services
  <2>3. OtherInv'
    BY <1>0, <2>1 DEF OtherInv
  <2>4. Blank(st["xray"]) /\ Blank(st["realm"]) /\ china = None
    BY <1>0, <1>5, <2>1 DEF GoneInv, Services
  <2>5. ~acme.open80 /\ acme.cert = None /\ ~acme.marker
    BY <1>0, <1>5, <2>1, OtherTails DEF OtherInv, Clearing, First
  <2>6. GoneInv'
    BY <1>0, <2>1, <2>4, <2>5 DEF GoneInv, Blank
  <2> QED
    BY <1>1, <2>2, <2>3, <2>6
<1> QED
  BY <1>2, <1>3, <1>4, <1>5, FollowingPart

LEMMA SyncEnds ==
  ASSUME SyncInv, Idle, st' = st
  PROVE  SyncInv'
<1>1. OwnedInv'
  BY DEF SyncInv, OwnedInv, OursOnly
<1> QED
  BY <1>1, SyncIdle DEF SyncInv

LEMMA SyncDue ==
  ASSUME RuntimeType, SyncInv, CertificateDue
  PROVE  SyncInv'
<1> USE DEF SyncInv
<1>1. /\ st' = st /\ china' = china /\ UNCHANGED syncVars
      /\ acme' = [acme EXCEPT !.cert = "due"] /\ acme.cert = "valid" /\ acme \in Acme
  BY DEF CertificateDue, RuntimeType
<1>2. /\ acme'.open80 = acme.open80 /\ acme'.marker = acme.marker /\ acme.cert # None
  BY <1>1, NoneApart DEF Acme
<1>3. ServiceInv'
  BY <1>1, DueRuns, PhaseStays DEF ServiceInv, syncVars
<1>4. IdleInv' /\ OwnedInv'
  BY <1>1 DEF IdleInv, OwnedInv, OursOnly, syncVars
<1>5. GoneInv'
  BY <1>1, <1>2 DEF GoneInv, Blank, syncVars
<1>6. OtherInv'
  BY <1>1, <1>2 DEF OtherInv, Clearing, syncVars
<1> QED
  BY <1>3, <1>4, <1>5, <1>6

LEMMA SyncRenew ==
  ASSUME RuntimeType, SyncInv, Renew
  PROVE  SyncInv'
<1> USE DEF SyncInv
<1>1. /\ st' = st /\ part' = "acme" /\ fetched' = 0 /\ todo' \in {C1, C3} /\ job = None
      /\ undoing' = undoing /\ failed' = failed /\ job' # None
  BY CertificatePrograms, NoneApart DEF Renew, RuntimeType
<1>2. OwnedInv'
  BY <1>1 DEF OwnedInv, OursOnly
<1>3. ~undoing
  BY <1>1 DEF IdleInv
<1>4. IdleInv'
  BY <1>1, <1>3 DEF IdleInv, Parts, Services
<1>5. ServiceInv' /\ GoneInv'
  BY <1>1 DEF ServiceInv, GoneInv, Services
<1>6. OtherInv'
  BY <1>1, <1>3 DEF OtherInv
<1> QED
  BY <1>2, <1>4, <1>5, <1>6

\* Nothing is being applied: no manager is at work.
LEMMA SyncAtRest ==
  ASSUME SyncInv, job = None, UNCHANGED <<st, syncVars>>
  PROVE  SyncInv'
<1> USE DEF SyncInv, syncVars
<1>1. part = None /\ part \notin Parts
  BY NoneApart DEF IdleInv
<1>2. part \notin {"xray", "realm", "china", "acme", "agent"} /\ part \notin Services
  BY <1>1 DEF Parts, Services
<1>3. IdleInv' /\ OwnedInv'
  BY DEF IdleInv, OwnedInv, OursOnly
<1>4. ServiceInv' /\ OtherInv' /\ GoneInv'
  BY <1>2 DEF ServiceInv, OtherInv, GoneInv
<1> QED
  BY <1>3, <1>4

LEMMA SyncRestart ==
  ASSUME RuntimeType, SyncInv, NEW s \in Services, ServiceRestarts(s)
  PROVE  SyncInv'
<1> USE DEF SyncInv
<1>0. /\ acme' = acme /\ china' = china /\ job' = job /\ fetched' = fetched /\ part' = part
      /\ todo' = todo /\ undoing' = undoing /\ failed' = failed /\ before' = before
      /\ slips' = IF s = part THEN slips + 1 ELSE slips
  BY DEF ServiceRestarts
<1>1. Sound(s)' /\ st[s].run # None /\ \A r \in Services : r # s => st'[r] = st[r]
  BY RestartSound DEF OwnedInv
<1>2. OwnedInv'
  <2>1. ASSUME NEW r \in Services PROVE OursOnly(r)'
    <3>1. CASE r = s
      BY <1>1, <3>1 DEF Sound
    <3>2. CASE r # s
      BY <1>1, <3>2 DEF OwnedInv, OursOnly
    <3> QED
      BY <3>1, <3>2
  <2> QED
    BY <2>1 DEF OwnedInv
<1>3. IdleInv'
  BY <1>0 DEF IdleInv
<1>4. OtherInv'
  BY <1>0 DEF OtherInv, Clearing
<1>5. \A r, c : CanRun(r, c)' <=> CanRun(r, c)
  BY <1>0 DEF CanRun
<1>6. ServiceInv'
  <2>1. ASSUME NEW r \in Services, part = r PROVE ServicePhase(r)'
    <3>1. ServicePhase(r) /\ OursOnly(r) /\ job # None
      BY <2>1, NoneApart DEF ServiceInv, OwnedInv, IdleInv, Parts
    <3>2. CASE r = s
      BY <2>1, <3>1, <3>2, RestartPhase
    <3>3. CASE r # s
      <4>1. st'[r] = st[r] /\ slips' = slips
        BY <1>0, <1>1, <2>1, <3>3
      <4> QED
        BY <1>0, <1>5, <3>1, <4>1, PhaseStays
    <3> QED
      BY <3>2, <3>3
  <2> QED
    BY <1>0, <2>1 DEF ServiceInv
<1>7. GoneInv'
  <2>1. ~Blank(st[s])
    BY <1>1 DEF Blank
  <2>2. \A r \in Services : Blank(st[r]) => st'[r] = st[r]
    BY <1>1, <2>1
  <2>3. \A r \in Services : Blank(st[r]) => Blank(st'[r])
    BY <2>2
  <2> QED
    BY <1>0, <2>3 DEF GoneInv, Services
<1> QED
  BY <1>2, <1>3, <1>4, <1>6, <1>7

LEMMA SyncLost ==
  ASSUME RuntimeType, SyncInv, Crash \/ Reboot
  PROVE  SyncInv'
<1>1. OwnedInv' /\ Idle
  BY CrashServices, RebootServices DEF SyncInv, Crash, Reboot
<1> QED
  BY <1>1, SyncIdle DEF SyncInv

LEMMA SyncNext ==
  ASSUME RuntimeType, SyncInv, [RuntimeNext]_vars
  PROVE  SyncInv'
<1>1. CASE UNCHANGED vars
  BY <1>1, SyncKept DEF vars
<1>2. ASSUME NEW j \in Jobs, ChangeDesired(j) PROVE SyncInv'
  BY <1>2, SyncKept DEF ChangeDesired
<1>3. ASSUME NEW reached \in BOOLEAN, Report(reached) PROVE SyncInv'
  BY <1>3, SyncEnds DEF Report
<1>4. ASSUME NEW ok \in BOOLEAN, Activate(ok) PROVE SyncInv'
  BY <1>4, SyncKept DEF Activate
<1>5. CASE HelperStep
  <2>1. st' = st /\ acme' = acme /\ china' = china /\ (Idle \/ UNCHANGED syncVars)
    BY <1>5 DEF HelperStep
  <2> QED
    BY <2>1, SyncEnds, SyncKept
<1>6. CASE HelperFails
  BY <1>6, SyncKept DEF HelperFails
<1>7. CASE refreshChinaPrefixes
  BY <1>7, SyncAtRest DEF refreshChinaPrefixes
<1> QED
  BY <1>1, <1>2, <1>3, <1>4, <1>5, <1>6, <1>7, SyncStart, SyncStep, SyncStepFails, SyncFinish,
     SyncDue, SyncRenew, SyncRestart, SyncLost DEF RuntimeNext

(***************************************************************************)
(* The theorems.                                                           *)
(***************************************************************************)
LEMMA RuntimeInductive == RuntimeSpec => []RuntimeInv
<1>1. RuntimeInit => RuntimeInv
  BY RuntimeTypeInit, HostInit, SyncInit DEF RuntimeInv, SyncInv
<1>2. RuntimeInv /\ [RuntimeNext]_vars => RuntimeInv'
  <2> SUFFICES ASSUME RuntimeInv, [RuntimeNext]_vars PROVE RuntimeInv'
    OBVIOUS
  <2>1. RuntimeType' /\ HostInv'
    BY RuntimeTypeNext, HostNext DEF RuntimeInv
  <2>2. SyncInv'
    BY SyncNext DEF RuntimeInv, SyncInv
  <2> QED
    BY <2>1, <2>2 DEF RuntimeInv, SyncInv
<1> QED
  BY <1>1, <1>2, PTL DEF RuntimeSpec

\* Until the Panel has archived the Server the Agent, its unit and its directories are
\* there, and the self-uninstall helper removes the directories only when nothing can
\* start the Agent any more (prepareAgentSelfUninstall, activate and run of
\* cmd/agent/self_uninstall.go), wherever the helper fails or the VPS restarts.
THEOREM AgentStaysWhole == RuntimeSpec => []AgentOutlivesItsDuty
BY RuntimeInductive, PTL DEF RuntimeInv, HostInv

\* Nothing but a download is left of a service that is not ours.
LEMMA BlankService ==
  ASSUME NEW x \in Service, Blank(x)
  PROVE  x = [NoService EXCEPT !.tmp = x.tmp]
<1> DEFINE y == [NoService EXCEPT !.tmp = x.tmp]
<1>1. NoService \in Service /\ x.tmp \in BOOLEAN
  BY DEF NoService, Service
<1>2. y \in Service
  BY <1>1 DEF Service
<1>3. /\ y.marker = NoService.marker /\ y.tmp = x.tmp /\ y.bin = NoService.bin
      /\ y.unit = NoService.unit /\ y.enabled = NoService.enabled /\ y.conf = NoService.conf
      /\ y.prev = NoService.prev /\ y.run = NoService.run /\ y.rules = NoService.rules
  BY <1>1 DEF Service
<1>4. /\ x.marker = NoService.marker /\ x.bin = NoService.bin
      /\ x.unit = NoService.unit /\ x.enabled = NoService.enabled /\ x.conf = NoService.conf
      /\ x.prev = NoService.prev /\ x.run = NoService.run /\ x.rules = NoService.rules
  BY DEF Blank, Service, NoService
<1> HIDE DEF y
<1>5. x = y
  BY <1>2, <1>3, <1>4 DEF Service
<1> QED
  BY <1>5 DEF y

LEMMA DoneAsAsked == RuntimeInv => SuccessMeansDone
<1> SUFFICES ASSUME RuntimeInv, NEW s \in Services, Ended(s), s \notin failed
             PROVE  LET x == st[s] t == job[s] IN
               /\ t.do = "run" => /\ x.conf = t.config /\ x.rules = RulesOf(t.config) /\ x.enabled
                                  /\ x.run = t.config \/ FoundTorn
               /\ t.do = "stop" => x.run = None /\ ~x.enabled /\ x.conf = None /\ x.rules = {}
               /\ t.do = "purge" => x = [NoService EXCEPT !.tmp = x.tmp]
  BY DEF SuccessMeansDone
<1>1. todo = <<>> /\ ServicePhase(s) /\ OursOnly(s) /\ st[s] \in Service
  BY DEF Ended, RuntimeInv, ServiceInv, OwnedInv, RuntimeType
<1>2. ASSUME job[s].do = "run"
      PROVE  /\ st[s].conf = job[s].config /\ st[s].rules = RulesOf(job[s].config)
             /\ st[s].enabled /\ (st[s].run = job[s].config \/ FoundTorn)
  <2>1. Bringing(s)
    BY <1>1, <1>2 DEF ServicePhase
  <2> QED
    BY <1>1, <2>1, EnableTails, InstallTails, CertificateTails, ExchangeTails
       DEF Bringing, First, Ready
<1>3. ASSUME job[s].do = "stop"
      PROVE  st[s].run = None /\ ~st[s].enabled /\ st[s].conf = None /\ st[s].rules = {}
  <2>1. Stopping(s)
    BY <1>1, <1>3 DEF ServicePhase
  <2> QED
    BY <1>1, <2>1, ExchangeTails, StopTails DEF Stopping, First, Off
<1>4. ASSUME job[s].do = "purge"
      PROVE  st[s] = [NoService EXCEPT !.tmp = st[s].tmp]
  BY <1>1, <1>4, Purged, BlankService
<1> QED
  BY <1>2, <1>3, <1>4

LEMMA KeptAsFound == RuntimeInv => FailureKeepsService
<1> SUFFICES ASSUME RuntimeInv, NEW s \in Services,
                    Ended(s), s \in failed, slips <= 1,
                    job[s].do = "run", before.conf # None, before.run = before.conf,
                    before.rules = RulesOf(before.conf), CanRun(s, before.conf)
             PROVE  st[s].conf = before.conf /\ st[s].run = before.run
                    /\ st[s].rules = before.rules
  BY DEF FailureKeepsService
<1>1. todo = <<>> /\ ServicePhase(s) /\ slips \in Nat
  BY DEF Ended, RuntimeInv, ServiceInv, RuntimeType
<1>2. Failing(s)
  BY <1>1 DEF ServicePhase
<1>3. Kept(s)
  BY <1>1, <1>2, ExchangeTails, RollbackTails, RenewTails DEF Failing, First
<1> QED
  BY <1>1, <1>3 DEF Kept, Excused

\* What apply of a service returns is how it left the service: without an error the
\* service is what was asked for, with one the service that ran before runs again
\* (enable, rollbackFailedApply, disable and purge of cmd/agent/xray.go and realm.go),
\* through every failed operation, crash and restart.
THEOREM ReportsAreTrue == RuntimeSpec => []ServicesAsReported
<1>1. RuntimeInv => ServicesAsReported
  BY DoneAsAsked, KeptAsFound DEF ServicesAsReported
<1> QED
  BY <1>1, RuntimeInductive, PTL

\* The report that archives the Server comes after the last manager of a decommission.
LEMMA ArchivingReport ==
  ASSUME RuntimeType, IdleInv, [RuntimeNext]_vars, archived', ~archived
  PROVE  /\ job # None /\ fetched # 0 /\ job.decommission /\ failed = {} /\ part = "agent"
         /\ todo = <<>>
<1>1. PICK reached \in BOOLEAN : Report(reached)
  <2>1. archived' # archived
    OBVIOUS
  <2>2. [RuntimeNext]_vars /\ archived' # archived => \E reached \in BOOLEAN : Report(reached)
    BY DEF RuntimeNext, vars, hostVars, ChangeDesired, StartSync, Step, StepFails, FinishPart,
           Activate, HelperStep, HelperFails, CertificateDue, Renew, refreshChinaPrefixes,
           Crash, Reboot, ServiceRestarts
  <2> QED
    BY <2>1, <2>2
<1>2. job # None /\ todo = <<>> /\ Following = None /\ failed = {} /\ fetched # 0
      /\ job.decommission
  BY <1>1 DEF Report
<1>3. part \in {"xray", "realm", "china", "acme", "agent"}
  BY <1>2 DEF IdleInv, Parts, Services
<1>4. NextPart(part, job, TRUE) = None
  BY <1>2 DEF Following
<1>5. None \notin {"realm", "china", "acme", "agent"}
  BY NoneApart DEF Parts, Services
<1>6. part = "agent"
  BY <1>2, <1>3, <1>4, <1>5 DEF NextPart
<1> QED
  BY <1>2, <1>6

\* When the Panel archives the Server nothing of it is left on the VPS: neither service,
\* rule nor table, neither the ACME tool nor a certificate (applyDecommission of
\* cmd/agent/config_sync.go reports only after every manager removed what is its own).
THEOREM ArchivedIsClean == RuntimeSpec => ArchivedLeavesNothing
<1> DEFINE Clean == /\ \A s \in Services : st[s] = [NoService EXCEPT !.tmp = st[s].tmp]
                    /\ china = None
                    /\ ~acme.open80 /\ ~acme.marker /\ acme.cert = None
<1>1. RuntimeInv /\ [RuntimeNext]_vars => [archived' /\ ~archived => Clean]_vars
  <2> SUFFICES ASSUME RuntimeInv, [RuntimeNext]_vars, archived', ~archived PROVE Clean
    OBVIOUS
  <2>1. /\ job # None /\ fetched # 0 /\ job.decommission /\ failed = {} /\ part = "agent"
    BY ArchivingReport DEF RuntimeInv
  <2>2. /\ Blank(st["xray"]) /\ Blank(st["realm"]) /\ china = None
        /\ ~acme.open80 /\ acme.cert = None /\ ~acme.marker
    BY <2>1 DEF RuntimeInv, GoneInv, Services
  <2>3. \A s \in Services : st[s] \in Service /\ Blank(st[s])
    BY <2>2 DEF RuntimeInv, RuntimeType, Services
  <2> QED
    BY <2>2, <2>3, BlankService
<1> QED
  BY <1>1, RuntimeInductive, PTL DEF RuntimeSpec, ArchivedLeavesNothing
=============================================================================
