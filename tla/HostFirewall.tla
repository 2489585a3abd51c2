---------------------------- MODULE HostFirewall ----------------------------
(***************************************************************************)
(* The firewall of one VPS as the Agent sees it (cmd/agent/firewall.go):   *)
(* ufw, firewalld, nftables or iptables, whichever is active, each changed *)
(* by one command after the other.  ufw is external: it keeps an IPv6 rule *)
(* beside every IPv4 rule unless IPv6 is switched off in its settings, it  *)
(* numbers the IPv4 rules before the IPv6 rules, and every addition or     *)
(* deletion moves the numbers behind it.  The code does not look which it  *)
(* is, so both are explored.                                               *)
(***************************************************************************)
EXTENDS Naturals, Sequences, SequencesExt

CONSTANTS
    FwPorts,      \* ports the Panel may ask to open
    MaxFwRuns,    \* bound: reconciliations
    MaxFwFaults   \* bound: failed commands, crashes, changes of the backend, reboots

ASSUME FwAssumption ==
    IsFiniteSet(FwPorts) /\ MaxFwRuns \in Nat /\ MaxFwFaults \in Nat

Backends == {"ufw", "firewalld", "nft", "iptables"}
Managed(p) == [port |-> p, mine |-> TRUE]
Foreign == [port |-> 22, mine |-> FALSE]

VARIABLES
    fwActive,   \* the backend in use, or "none"
    fwV6,       \* whether ufw has IPv6 enabled (its default)
    fwUfw,      \* ufw's rules in the order of their numbers, per family
    fwDirect,   \* managed rules of firewalld and of iptables
    fwTable,    \* the nftables table: "none", "table", "chain" or "owned", and
    fwTableRules, \* its rules
    fwWant,     \* ports of the current or last run, and
    fwPurging,  \*   whether it is a purge
    fwTodo,     \* its commands still to run
    fwResult,   \* "running", "ok", "error" or "cut" (nobody waits for it any more)
    fwFound,    \* history: ports the run found in one family of ufw only (half), and
                \*   whether its additions move numbers it is to delete (moves)
    fwRuns, fwFaults

fwRules == <<fwUfw, fwDirect, fwTable, fwTableRules>>
fwRun == <<fwWant, fwPurging, fwFound>>
fwVars == <<fwActive, fwV6, fwRules, fwRun, fwTodo, fwResult, fwRuns, fwFaults>>

Families == {"v4", "v6"}
UfwOpen(f) == {p \in FwPorts : Contains(fwUfw[f], Managed(p))}

\* The managed ports a backend lets in; parseUFWManagedRules takes a port that is open
\* in one family for open.
Open(b) ==
    CASE b = "ufw"  -> UfwOpen("v4") \cup UfwOpen("v6")
      [] b = "nft"  -> fwTableRules
      [] b \in {"firewalld", "iptables"} -> fwDirect[b]
      [] OTHER      -> {}

FwInit ==
    /\ fwActive \in Backends \cup {"none"}
    /\ fwV6 \in BOOLEAN
    /\ fwUfw = [v4 |-> <<Foreign>>, v6 |-> IF fwV6 THEN <<Foreign>> ELSE <<>>]
    /\ fwDirect = [firewalld |-> {}, iptables |-> {}]
    /\ fwTable = "none" /\ fwTableRules = {}
    /\ fwWant = {} /\ fwPurging = FALSE /\ fwTodo = <<>> /\ fwResult = "ok"
    /\ fwFound = [half |-> {}, moves |-> FALSE]
    /\ fwRuns = 0 /\ fwFaults = 0

(***************************************************************************)
(* The commands of a reconciliation: what is missing is added before what  *)
(* is stale is removed.  A command is <<backend, what, on what>>.          *)
(***************************************************************************)
Commands(b, what, S) == LET q == SetToSeq(S) IN [i \in DOMAIN q |-> <<b, what, q[i]>>]

missingFirewallRules(b, want) == Commands(b, "add", want \ Open(b))

\* Mistake: everything there was.
staleAll(b, want) == Commands(b, "remove", Open(b))

staleFirewallRules(b, want) == Commands(b, "remove", Open(b) \ want)

\* Positions of the stale managed rules, as the listing showed them.
Numbers(want) ==
    LET all == fwUfw.v4 \o fwUfw.v6 IN {i \in DOMAIN all : all[i].mine /\ all[i].port \notin want}

\* What is added goes to the end of the IPv4 rules, so before the IPv6 rules.
NumbersMove(want) ==
    /\ fwActive = "ufw" /\ want \ Open("ufw") # {}
    /\ \E n \in Numbers(want) : n > Len(fwUfw.v4)

\* Mistake: the lowest number first.
Ascending(S) ==
    CHOOSE q \in [1..Cardinality(S) -> S] : \A i, j \in 1..Cardinality(S) : i < j => q[i] < q[j]

Descending(S) ==
    CHOOSE q \in [1..Cardinality(S) -> S] : \A i, j \in 1..Cardinality(S) : i < j => q[i] > q[j]

\* ufw deletes by number, the highest first.
reconcileUFW(want) ==
    missingFirewallRules("ufw", want)
    \o LET q == Descending(Numbers(want)) IN [i \in DOMAIN q |-> <<"ufw", "number", q[i]>>]

reconcileFirewalld(want) == missingFirewallRules("firewalld", want) \o staleFirewallRules("firewalld", want)

reconcileIPTables(want) == missingFirewallRules("iptables", want) \o staleFirewallRules("iptables", want)

\* A table that is there without the owner's rule is somebody else's.
reconcileNFT(want) ==
    IF fwTable \in {"none", "table"} /\ want = {} THEN <<>>
    ELSE CASE fwTable = "none"  -> <<<<"nft", "table", 0>>, <<"nft", "chain", 0>>, <<"nft", "owner", 0>>>>
                                   \o missingFirewallRules("nft", want)
           [] fwTable = "owned" -> missingFirewallRules("nft", want) \o staleFirewallRules("nft", want)
           [] OTHER             -> <<<<"nft", "refuse", 0>>>>

\* reconcileRules touches the active backend only.
reconcileRules(want) ==
    CASE fwActive = "ufw"       -> reconcileUFW(want)
      [] fwActive = "firewalld" -> reconcileFirewalld(want)
      [] fwActive = "nft"       -> reconcileNFT(want)
      [] fwActive = "iptables"  -> reconcileIPTables(want)
      [] OTHER                  -> <<>>

PurgeNFT ==
    CASE fwTable = "none"  -> <<>>
      [] fwTable = "owned" -> <<<<"nft", "drop", 0>>>>
      [] OTHER             -> <<<<"nft", "refuse", 0>>>>

\* Mistake: the active backend only.
purgeActive == reconcileRules({})

\* purge goes through every backend it can reach.
purgeRules ==
    (IF fwActive = "ufw" THEN reconcileUFW({}) ELSE <<>>)
    \o (IF fwActive = "firewalld" THEN reconcileFirewalld({}) ELSE <<>>)
    \o PurgeNFT
    \o reconcileIPTables({})

Begin(want, purging, commands) ==
    /\ fwResult # "running" /\ fwTodo = <<>> /\ fwRuns < MaxFwRuns
    /\ fwRuns' = fwRuns + 1
    /\ fwWant' = want /\ fwPurging' = purging
    /\ fwTodo' = commands /\ fwResult' = "running"
    /\ fwFound' = [half |-> (UfwOpen("v4") \cup UfwOpen("v6")) \ (UfwOpen("v4") \cap UfwOpen("v6")),
                   moves |-> NumbersMove(want)]
    /\ UNCHANGED <<fwActive, fwV6, fwRules, fwFaults>>

Reconcile(want) == Begin(want, FALSE, reconcileRules(want))

Purge == Begin({}, TRUE, purgeRules)

Ufw(port) == [v4 |-> Append(fwUfw.v4, Managed(port)),
              v6 |-> IF fwV6 THEN Append(fwUfw.v6, Managed(port)) ELSE fwUfw.v6]

\* Deletes rule number n of the list as it is now.
UfwWithout(n) ==
    LET k == Len(fwUfw.v4) IN
    CASE n <= k                              -> [fwUfw EXCEPT !.v4 = RemoveAt(@, n)]
      [] n > k /\ n <= k + Len(fwUfw.v6)     -> [fwUfw EXCEPT !.v6 = RemoveAt(@, n - k)]
      [] OTHER                               -> fwUfw

Command ==
    /\ fwTodo # <<>> /\ Head(fwTodo)[2] # "refuse"
    /\ LET b == Head(fwTodo)[1] what == Head(fwTodo)[2] on == Head(fwTodo)[3] IN
        /\ fwUfw' = CASE b = "ufw" /\ what = "add"    -> Ufw(on)
                      [] b = "ufw" /\ what = "number" -> UfwWithout(on)
                      [] OTHER                        -> fwUfw
        /\ fwDirect' = CASE b \in DOMAIN fwDirect /\ what = "add"    -> [fwDirect EXCEPT ![b] = @ \cup {on}]
                         [] b \in DOMAIN fwDirect /\ what = "remove" -> [fwDirect EXCEPT ![b] = @ \ {on}]
                         [] OTHER                                    -> fwDirect
        /\ fwTable' = CASE what \in {"table", "chain"} -> what
                        [] what = "owner"              -> "owned"
                        [] what = "drop"               -> "none"
                        [] OTHER                       -> fwTable
        /\ fwTableRules' = CASE b = "nft" /\ what = "add"    -> fwTableRules \cup {on}
                             [] b = "nft" /\ what = "remove" -> fwTableRules \ {on}
                             [] b = "nft" /\ what = "drop"   -> {}
                             [] OTHER                        -> fwTableRules
    /\ fwTodo' = Tail(fwTodo)
    /\ UNCHANGED <<fwActive, fwV6, fwRun, fwResult, fwRuns, fwFaults>>

\* The commands for the backends after b, whose commands come first.
NextBackend(b) ==
    LET n == Min({i \in 1..Len(fwTodo) + 1 : i = Len(fwTodo) + 1 \/ fwTodo[i][1] # b})
    IN SubSeq(fwTodo, n, Len(fwTodo))

\* A command fails, or a table is refused.  A reconciliation ends; a purge goes on
\* with the next backend.  A table that could not be finished is deleted again.
CommandFails ==
    /\ fwTodo # <<>>
    /\ LET b == Head(fwTodo)[1] what == Head(fwTodo)[2] IN
        /\ what # "refuse" => fwFaults < MaxFwFaults
        /\ fwFaults' = IF what = "refuse" THEN fwFaults ELSE fwFaults + 1
        /\ fwTable' = IF what \in {"chain", "owner"} THEN "none" ELSE fwTable
        /\ fwTodo' = IF fwPurging THEN NextBackend(b) ELSE <<>>
    /\ fwResult' = "error"
    /\ UNCHANGED <<fwActive, fwV6, fwUfw, fwDirect, fwTableRules, fwRun, fwRuns>>

FwDone ==
    /\ fwResult = "running" /\ fwTodo = <<>>
    /\ fwResult' = "ok"
    /\ UNCHANGED <<fwActive, fwV6, fwRules, fwRun, fwTodo, fwRuns, fwFaults>>

\* The Agent is killed between two commands.
FwCrash ==
    /\ fwTodo # <<>> /\ fwFaults < MaxFwFaults
    /\ fwFaults' = fwFaults + 1
    /\ fwTodo' = <<>> /\ fwResult' = "cut"
    /\ UNCHANGED <<fwActive, fwV6, fwRules, fwRun, fwRuns>>

\* The administrator turns to another backend (external).  The rules of firewalld
\* end with it; the tables of the kernel stay.
SwitchBackend(b) ==
    /\ fwTodo = <<>> /\ fwResult # "running" /\ b # fwActive /\ fwFaults < MaxFwFaults
    /\ fwFaults' = fwFaults + 1
    /\ fwActive' = b
    /\ fwDirect' = IF fwActive = "firewalld" THEN [fwDirect EXCEPT !.firewalld = {}] ELSE fwDirect
    /\ fwResult' = "cut"
    /\ UNCHANGED <<fwV6, fwUfw, fwTable, fwTableRules, fwRun, fwTodo, fwRuns>>

\* A reboot (external) keeps ufw's rules only.
FwReboot ==
    /\ fwFaults < MaxFwFaults
    /\ fwFaults' = fwFaults + 1
    /\ fwDirect' = [firewalld |-> {}, iptables |-> {}]
    /\ fwTable' = "none" /\ fwTableRules' = {}
    /\ fwTodo' = <<>> /\ fwResult' = "cut"
    /\ UNCHANGED <<fwActive, fwV6, fwUfw, fwRun, fwRuns>>

FwNext ==
    \/ \E want \in SUBSET FwPorts : Reconcile(want)
    \/ Purge \/ Command \/ CommandFails \/ FwDone \/ FwCrash \/ FwReboot
    \/ \E b \in Backends \cup {"none"} : SwitchBackend(b)

FwSpec == FwInit /\ [][FwNext]_fwVars

(***************************************************************************)
(* Properties.                                                             *)
(***************************************************************************)
\* A reconciliation that reports success has left exactly the wanted ports open in the
\* active backend, and a purge none.
SuccessIsExact == fwResult = "ok" /\ fwActive # "none" => Open(fwActive) = fwWant

\* What is reported of a run is true, whatever interrupted runs left there before: the
\* wanted ports, and only they, are open in the active backend, in both families of
\* ufw; and a purge that reports success leaves no managed rule in force, not even in
\* a backend used before.  Two exceptions are ufw's with IPv6: a run whose additions
\* move the numbers it deletes by (firewall.go:252), and a port that was found open
\* in one family, which is taken for open (firewall.go:393).
FirewallAsReported ==
    /\ fwFound.moves \/ SuccessIsExact
    /\ fwResult = "ok" /\ fwActive = "ufw" /\ fwV6 /\ ~fwFound.moves =>
        fwWant \ fwFound.half \subseteq UfwOpen("v4") \cap UfwOpen("v6")
    /\ fwResult = "ok" /\ fwPurging =>
        fwTable = "none" /\ fwDirect.iptables = {} /\ fwDirect.firewalld = {}

\* No command of a run closes a port that is open and wanted.
WantedNotClosed ==
    /\ Open(fwActive) \cap fwWant \subseteq Open(fwActive)'
    /\ \A f \in Families : UfwOpen(f) \cap fwWant \subseteq UfwOpen(f)'

\* No run closes a wanted port, and no proxy is cut off because another one changed,
\* unless additions of the run move the numbers it deletes by.
WantedStaysOpen ==
    [][fwTodo # <<>> /\ fwFaults' = fwFaults /\ ~fwFound.moves => WantedNotClosed]_fwVars

\* An IPv4 rule of the administrator is never deleted, however the numbers move, and
\* an IPv6 rule only by a run whose additions move the numbers it deletes by.
ForeignRulesStay ==
    [][\A f \in Families :
         Contains(fwUfw[f], Foreign) /\ (f = "v6" => ~fwFound.moves) => Contains(fwUfw[f], Foreign)']_fwVars

\* A reconciliation of ufw that reports success has done what it was to do and nothing
\* else, without exception: the wanted ports, and only they, are open, in each family ufw
\* has, and the rules of the administrator are there.
SuccessMeansReconciled ==
    fwResult = "ok" /\ fwActive = "ufw" =>
        /\ SuccessIsExact
        /\ \A f \in Families : f = "v4" \/ fwV6 =>
              fwWant \subseteq UfwOpen(f) /\ Contains(fwUfw[f], Foreign)
=============================================================================
