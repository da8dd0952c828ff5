---------------------------- MODULE JobsNetwork ----------------------------
(***************************************************************************)
(* The jobs network of the container driver (launcher/driver/network.go):   *)
(* what its firewall rules let a job open, how EnsureNetwork writes them    *)
(* when a launcher starts, and how a placement denies the networks that     *)
(* appeared on the engine since.                                            *)
(*                                                                          *)
(* A rule set is a sequence of rules in the order they are written; each    *)
(* is of one hook, and the first one of a connection's hook that matches    *)
(* it decides.  Addresses stand for ranges, one address family for both:    *)
(* "internet", "meta" (instance metadata), "wire" (AlwaysDenyCIDRs), "site" *)
(* (the operator's denials), "peer" (another container of the network),     *)
(* "gateway" (the host) and the subnets of the engine's other networks.     *)
(* Consecutive rules that differ in their range alone are one rule.          *)
(* Only connections a job, or somebody towards a job, newly opens are       *)
(* modelled: replies pass in every chain.                                   *)
(***************************************************************************)
EXTENDS Naturals, FiniteSets, Sequences

CONSTANTS
  Subnets,    \* the subnets other networks of the engine may have
  Hidden,     \* those behind no bridge the engine isolates or names itself
  Engines,    \* the engines to consider: what the driver can tell apart
  Policies,   \* the endpoints allowed (the API, as a job dials it), and whether metadata stays open
  MaxMoves,   \* bound: networks that appear on the engine or go
  MaxBoots,   \* bound: starts of the launcher
  None

\* The other ranges, each apart from every subnet.
Named == {"internet", "meta", "wire", "site", "peer", "gateway", "jobs"}

ASSUME NetworkAssumption ==
  /\ IsFiniteSet(Subnets) /\ Hidden \subseteq Subnets
  /\ Subnets \cap Named = {} /\ \A ss \in SUBSET Subnets : ss # None
  /\ Engines \subseteq [podman : BOOLEAN, nftables : BOOLEAN, rootless : BOOLEAN, subpath : BOOLEAN]
  /\ Policies \subseteq [allow : SUBSET {"internet", "site", "peer", "gateway"}, metadata : BOOLEAN]
  /\ MaxMoves \in Nat /\ MaxBoots \in Nat

VARIABLES
  engine,    \* the engine of the host
  pol,       \* the launcher's policy
  nets,      \* the subnets of the other networks present
  jobsnet,   \* the jobs network: "none", or whether the engine isolates its members
  rules,     \* the rules the host has
  phase,     \* where the launcher is in EnsureNetwork, or in a placement's closeNewNetworks
  listed,    \* the subnets its last listing found
  known,     \* fw.known: the subnets the rules deny by address; None without a firewall
  moves, boots

netVars == <<engine, pol, nets, jobsnet, rules, phase, listed, known, moves, boots>>
still   == <<engine, pol>>

-----------------------------------------------------------------------------
(* The rules. *)

\* Docker's iptables backend, or a table of our own.
detectFirewall == IF engine.podman \/ engine.nftables THEN "nftables" ELSE "iptables"

\* The engine keeps the members of the network from each other: Docker's switch where its iptables
\* rules enforce it, a rootless engine's only isolation, and never under a table of our own.
jobsNetworkOptions == detectFirewall = "iptables" \/ engine.rootless

HostRule == [hook : {"forward", "input", "bridge", "inbound"},
             on : {"dialed", "endpoint", "rewritten", "bridge", "to", "dns", "any"},
             of : SUBSET (Subnets \cup Named), verdict : {"accept", "reject"}]
Rule(hook, on, of, verdict) == [hook |-> hook, on |-> on, of |-> of, verdict |-> verdict]

\* The ranges refused to a job: AlwaysDenyCIDRs, the metadata ranges, the operator's and the other
\* networks', then the network's own and the host.
parseJobsRules(others) ==
  {"wire", "site"} \cup (IF pol.metadata THEN {} ELSE {"meta"}) \cup others \cup {"jobs", "gateway"}
Denials(others) == Rule("forward", "to", parseJobsRules(others), "reject")
Allowed(hook, on) == Rule(hook, on, pol.allow, "accept")
Rewritten == Rule("forward", "rewritten", {}, "reject")
Else(hook) == Rule(hook, "any", {}, "reject")

\* The chain of DOCKER-USER, then the one of INPUT.
FirewallScript(others) ==
  <<Allowed("forward", "dialed"), Rewritten, Denials(others), Allowed("input", "endpoint"), Else("input")>>
\* The table inet, then the table bridge: the engine does not part the network's members here, so the
\* rules do; they refuse what comes in, name Podman's bridges and open DNS where its resolver listens.
NFTablesScript(others) ==
  <<Allowed("forward", "dialed"), Rewritten>>
    \o (IF engine.podman THEN <<Rule("forward", "bridge", {}, "reject")>> ELSE <<>>)
    \o <<Denials(others), Else("inbound"), Allowed("input", "endpoint")>>
    \o (IF engine.podman THEN <<Rule("input", "dns", {"gateway"}, "accept")>> ELSE <<>>)
    \o <<Else("input"), Allowed("bridge", "endpoint"), Else("bridge")>>

Script(others) == IF detectFirewall = "iptables" THEN FirewallScript(others) ELSE NFTablesScript(others)

\* Denials appended to the forward chain, which ends in its denials; one already there adds nothing.
denySubnets(fresh) ==
  LET add == {s \in fresh : \A i \in DOMAIN rules : rules[i].on = "to" => s \notin rules[i].of}
  IN  IF add = {} THEN rules ELSE Append(rules, Rule("forward", "to", add, "reject"))

-----------------------------------------------------------------------------
(* What the host does with them. *)

\* A connection: the address dialed, the one it ends at, the port, the hook that sees it.
Hook(a) == CASE a = "gateway" -> "input" [] a = "peer" -> "bridge" [] OTHER -> "forward"
Direct(a, port) == [dialed |-> a, to |-> a, port |-> port, hook |-> Hook(a)]
\* A port the host publishes: dialed at the host, rewritten to a container.
Published(a, port) == [dialed |-> "gateway", to |-> a, port |-> port, hook |-> "forward"]
Inbound == [dialed |-> "peer", to |-> "peer", port |-> "other", hook |-> "inbound"]
Connections(present) ==
  {Direct(a, port) : a \in {"internet", "meta", "wire", "site", "peer", "gateway"} \cup present,
                     port \in {"api", "dns", "other"}}
    \cup {Published(a, port) : a \in {"peer"} \cup present, port \in {"api", "other"}}
    \cup {Inbound}

\* The jobs network's subnet holds its members and its gateway.
Ranges(a) == {a} \cup (IF a \in {"peer", "gateway"} THEN {"jobs"} ELSE {})
Matches(r, c) ==
  CASE r.on = "dialed"    -> c.dialed \in r.of /\ c.port = "api"
    [] r.on = "endpoint"  -> c.to \in r.of /\ c.port = "api"
    [] r.on = "rewritten" -> c.dialed # c.to
    [] r.on = "bridge"    -> c.to \in (Subnets \ Hidden) \cup {"peer"}
    [] r.on = "to"        -> Ranges(c.to) \cap r.of # {}
    [] r.on = "dns"       -> c.to \in r.of /\ c.port = "dns"
    [] r.on = "any"       -> TRUE

\* Docker loads the bridge netfilter module, so its forward chain sees bridged traffic.
SeenBy(c) == IF detectFirewall = "iptables" /\ c.hook = "bridge" THEN "forward" ELSE c.hook
Verdict(c) ==
  LET hits == {i \in DOMAIN rules : rules[i].hook = SeenBy(c) /\ Matches(rules[i], c)}
  IN  IF hits = {} THEN "none" ELSE rules[CHOOSE i \in hits : \A j \in hits : i <= j].verdict

\* What the engine's own rules refuse: members of an isolated network, and Docker a network's own
\* addresses from another network, unless it rewrote the connection.
EngineRefuses(c) ==
  \/ jobsnet = "isolated" /\ c.hook = "bridge"
  \/ ~engine.podman /\ (c.hook = "inbound" \/ (c.dialed = c.to /\ c.to \in Subnets \ Hidden))

\* An accept in DOCKER-USER passes Docker's own rules, one in a table of our own does not.
Reaches(c) == \/ Verdict(c) = "accept" /\ detectFirewall = "iptables"
              \/ Verdict(c) # "reject" /\ ~EngineRefuses(c)

\* What NetworkPolicy promises: the API on its port, DNS where the resolver is the gateway, and of
\* the rest only what the host did not rewrite and nothing denies.
Policy(c) ==
  /\ c.hook # "inbound"
  /\ \/ c.dialed \in pol.allow /\ c.port = "api"
     \/ engine.podman /\ c = Direct("gateway", "dns")
     \/ c.to = "internet" \/ (c.to = "meta" /\ pol.metadata)

-----------------------------------------------------------------------------
(* EnsureNetwork, when the launcher starts. *)

NetInit ==
  /\ engine \in Engines
  /\ pol \in Policies
  /\ nets \in SUBSET Subnets
  /\ jobsnet = "none" /\ rules = <<>> /\ phase = "down"
  /\ listed = {} /\ known = None
  /\ moves = 0 /\ boots = 0

Starts ==
  /\ phase = "down" /\ boots < MaxBoots
  /\ boots' = boots + 1
  /\ phase' = "network" /\ known' = None /\ listed' = {}
  /\ UNCHANGED <<still, nets, jobsnet, rules, moves>>

\* A launcher that cannot prepare the network does not start.
StartFails ==
  /\ phase \in {"network", "list"}
  /\ phase' = "down"
  /\ UNCHANGED <<still, nets, jobsnet, rules, listed, known, moves, boots>>

\* The jobs network is created if it is missing.  A rootless engine has no host firewall.
createJobsNetwork ==
  /\ phase = "network"
  /\ jobsnet' = IF jobsnet # "none" THEN jobsnet
                ELSE IF jobsNetworkOptions THEN "isolated" ELSE "open"
  /\ phase' = IF engine.rootless THEN "up" ELSE "list"
  /\ UNCHANGED <<still, nets, rules, listed, known, moves, boots>>

subnetsExcept ==
  /\ phase = "list"
  /\ listed' = nets
  /\ phase' = "write"
  /\ UNCHANGED <<still, nets, jobsnet, rules, known, moves, boots>>

\* A table refilled rule by rule.
RefilledInPlace(script, n) == SubSeq(script, 1, n)
\* What a writer that ran to its n-th rule of script leaves: iptables flushes and refills, nft -f
\* replaces its tables in one transaction or not at all.
Written(script, n) ==
  IF detectFirewall = "iptables" THEN SubSeq(script, 1, n) ELSE IF n = Len(script) THEN script ELSE rules

\* The firewall writer gets to its end, or somewhere on the way when it fails or is cut off.
WriteRules ==
  /\ phase = "write"
  /\ LET script == Script(listed)
     IN  \E n \in 0 .. Len(script) :
           /\ rules' = Written(script, n)
           /\ \/ n = Len(script) /\ phase' = "up" /\ known' = listed
              \/ phase' = "down" /\ UNCHANGED known
  /\ UNCHANGED <<still, nets, jobsnet, listed, moves, boots>>

-----------------------------------------------------------------------------
(* closeNewNetworks, when a job is placed. *)

CloseLists ==
  /\ phase = "close"
  /\ IF known = None
     THEN phase' = "closed" /\ UNCHANGED listed
     ELSE /\ listed' = nets
          /\ phase' = IF nets \subseteq known THEN "closed" ELSE "append"
  /\ UNCHANGED <<still, nets, jobsnet, rules, known, moves, boots>>

\* A writer that failed taken for one that wrote: the next placement does not try again.
CloseTrusts ==
  /\ phase = "append"
  /\ LET fresh == listed \ known
     IN  \E done \in SUBSET fresh :
           /\ rules' = denySubnets(done)
           /\ phase' = IF done = fresh THEN "closed" ELSE "refused"
           /\ known' = known \cup fresh
  /\ UNCHANGED <<still, nets, jobsnet, listed, moves, boots>>

\* The writer appends its denials one by one; what it denied before it failed stays denied, and is
\* not known.
CloseWrites ==
  /\ phase = "append"
  /\ LET fresh == listed \ known
     IN  \E done \in SUBSET fresh :
           /\ rules' = denySubnets(done)
           /\ \/ done = fresh /\ phase' = "closed" /\ known' = known \cup fresh
              \/ phase' = "refused" /\ UNCHANGED known
  /\ UNCHANGED <<still, nets, jobsnet, listed, moves, boots>>

CloseFails ==
  /\ phase = "close" /\ known # None
  /\ phase' = "refused"
  /\ UNCHANGED <<still, nets, jobsnet, rules, listed, known, moves, boots>>

\* Networks come and go beside the launcher, with subnets used before.  Only its listings see them:
\* a move while it is elsewhere is one just before it looks.
NetworkMoves ==
  /\ phase \in {"list", "write", "close", "append"} /\ moves < MaxMoves
  /\ moves' = moves + 1
  /\ \E s \in Subnets : nets' = IF s \in nets THEN nets \ {s} ELSE nets \cup {s}
  /\ UNCHANGED <<still, jobsnet, rules, phase, listed, known, boots>>

EnsureNetwork == Starts \/ StartFails \/ createJobsNetwork \/ subnetsExcept \/ WriteRules
closeNewNetworks == CloseLists \/ CloseWrites \/ CloseFails

=============================================================================
