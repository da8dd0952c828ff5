--------------------------- MODULE ContainerProofs ---------------------------
(***************************************************************************)
(* Proofs about ContainerPlacement and the jobs network it places into, for  *)
(* every engine and policy and any number of attempts, networks and starts:  *)
(* the type invariant, that a job starts behind rules that mean the policy    *)
(* and keeps them, that what starts is ready, and that a failed job's          *)
(* container is kept for its window.                                           *)
(***************************************************************************)
EXTENDS ContainerPlacement, WellFoundedInduction, TLAPS

-----------------------------------------------------------------------------
(* The first rule that matches. *)

\* A nonempty set of numbers has a least one.
LEMMA Least ==
  ASSUME NEW T \in SUBSET Nat, T # {}
  PROVE  \E i \in T : \A j \in T : i <= j
<1>1. PICK i \in T : \A j \in T : ~ (<<j, i>> \in OpToRel(<, Nat))
  BY NatLessThanWellFounded, WFMin
<1>2. \A j \in T : ~ (j < i)
  BY <1>1 DEF OpToRel
<1> QED BY <1>2

Hit(r, c) == r.hook = SeenBy(c) /\ Matches(r, c)

LEMMA FirstDecides ==
  ASSUME rules \in Seq(HostRule), NEW c, NEW k \in DOMAIN rules, Hit(rules[k], c),
         \A j \in DOMAIN rules : j < k => ~Hit(rules[j], c)
  PROVE  Verdict(c) = rules[k].verdict
<1> DEFINE hits == {i \in DOMAIN rules : rules[i].hook = SeenBy(c) /\ Matches(rules[i], c)}
<1>1. hits \subseteq Nat /\ k \in hits /\ \A j \in hits : k <= j
  BY DEF Hit
<1>2. Verdict(c) = rules[CHOOSE i \in hits : \A j \in hits : i <= j].verdict
  BY <1>1 DEF Verdict
<1> HIDE DEF hits
<1>3. \A i \in hits : (\A j \in hits : i <= j) => i = k
  BY <1>1
<1>4. (CHOOSE i \in hits : \A j \in hits : i <= j) = k
  BY <1>1, <1>3
<1> QED
  BY <1>2, <1>4

LEMMA RejectsDecide ==
  ASSUME rules \in Seq(HostRule), NEW c, NEW k \in DOMAIN rules, Hit(rules[k], c),
         \A j \in DOMAIN rules : Hit(rules[j], c) => rules[j].verdict = "reject"
  PROVE  Verdict(c) = "reject"
<1> DEFINE hits == {i \in DOMAIN rules : Hit(rules[i], c)}
<1>1. hits \in SUBSET Nat /\ hits # {}
  OBVIOUS
<1>2. PICK i \in hits : \A j \in hits : i <= j
  <2> HIDE DEF hits
  <2> QED BY <1>1, Least
<1>3. \A j \in DOMAIN rules : j < i => ~Hit(rules[j], c)
  BY <1>2
<1> QED
  BY <1>2, <1>3, FirstDecides

LEMMA NothingDecides ==
  ASSUME NEW c, \A j \in DOMAIN rules : ~Hit(rules[j], c)
  PROVE  Verdict(c) = "none"
BY DEF Verdict, Hit

\* What each rule matches.
LEMMA Hits ==
  ASSUME NEW c
  PROVE  /\ \A h : Hit(Allowed(h, "dialed"), c) <=> SeenBy(c) = h /\ c.dialed \in pol.allow /\ c.port = "api"
         /\ \A h : Hit(Allowed(h, "endpoint"), c) <=> SeenBy(c) = h /\ c.to \in pol.allow /\ c.port = "api"
         /\ Hit(Rewritten, c) <=> SeenBy(c) = "forward" /\ c.dialed # c.to
         /\ Hit(Rule("forward", "bridge", {}, "reject"), c) <=>
              SeenBy(c) = "forward" /\ c.to \in (Subnets \ Hidden) \cup {"peer"}
         /\ \A S : Hit(Rule("forward", "to", S, "reject"), c) <=> SeenBy(c) = "forward" /\ Ranges(c.to) \cap S # {}
         /\ Hit(Rule("input", "dns", {"gateway"}, "accept"), c) <=>
              SeenBy(c) = "input" /\ c.to = "gateway" /\ c.port = "dns"
         /\ \A h : Hit(Else(h), c) <=> SeenBy(c) = h
BY DEF Hit, Matches, Allowed, Rewritten, Else, Rule

-----------------------------------------------------------------------------
(* The rules a host has once they are written. *)

\* The script of the networks L, with the denials that were appended to it since.
Appended(r) == \E S \in SUBSET Subnets : r = Rule("forward", "to", S, "reject")
Stands(L) ==
  /\ Len(Script(L)) <= Len(rules)
  /\ \A i \in 1..Len(Script(L)) : rules[i] = Script(L)[i]
  /\ \A i \in DOMAIN rules : i > Len(Script(L)) => Appended(rules[i])

\* What matters of their order, whichever tables they are in.
ForwardLayout(L) ==
  /\ 1 \in DOMAIN rules /\ rules[1] = Allowed("forward", "dialed")
  /\ 2 \in DOMAIN rules /\ rules[2] = Rewritten
  /\ \E i \in DOMAIN rules : rules[i] = Denials(L)
  /\ \A i \in DOMAIN rules : i > 2 /\ rules[i].hook = "forward" =>
       rules[i] = Denials(L) \/ rules[i] = Rule("forward", "bridge", {}, "reject") \/ Appended(rules[i])
  /\ \A i \in DOMAIN rules : rules[i].on = "to" => rules[i].hook = "forward"
InputLayout ==
  \E k \in DOMAIN rules :
    /\ rules[k] = Allowed("input", "endpoint") /\ k + 1 \in DOMAIN rules
    /\ \A i \in DOMAIN rules : i < k => rules[i].hook # "input"
    /\ IF engine.podman
       THEN /\ rules[k+1] = Rule("input", "dns", {"gateway"}, "accept")
            /\ k + 2 \in DOMAIN rules /\ rules[k+2] = Else("input")
       ELSE rules[k+1] = Else("input")
BridgeLayout ==
  \E k \in DOMAIN rules :
    /\ rules[k] = Allowed("bridge", "endpoint") /\ k + 1 \in DOMAIN rules /\ rules[k+1] = Else("bridge")
    /\ \A i \in DOMAIN rules : i < k => rules[i].hook # "bridge"
InboundLayout ==
  /\ \E k \in DOMAIN rules : rules[k] = Else("inbound")
  /\ \A i \in DOMAIN rules : rules[i].hook = "inbound" => rules[i].verdict = "reject"

\* The script is a sequence of rules.
LEMMA ScriptType ==
  ASSUME pol \in Policies, NEW L \in SUBSET Subnets
  PROVE  Script(L) \in Seq(HostRule)
<1>1. /\ pol.allow \subseteq Subnets \cup Named /\ parseJobsRules(L) \subseteq Subnets \cup Named
      /\ {} \subseteq Subnets \cup Named /\ {"gateway"} \subseteq Subnets \cup Named
  <2>1. pol.allow \subseteq {"internet", "site", "peer", "gateway"}
    BY NetworkAssumption
  <2> QED BY <2>1 DEF Named, parseJobsRules
<1>2. /\ Allowed("forward", "dialed") \in HostRule /\ Allowed("input", "endpoint") \in HostRule
      /\ Allowed("bridge", "endpoint") \in HostRule
  BY <1>1 DEF Allowed, Rule, HostRule
<1>3. /\ Rewritten \in HostRule /\ Rule("forward", "bridge", {}, "reject") \in HostRule
      /\ Rule("input", "dns", {"gateway"}, "accept") \in HostRule
  BY <1>1 DEF Rewritten, Rule, HostRule
<1>4. Else("input") \in HostRule /\ Else("bridge") \in HostRule /\ Else("inbound") \in HostRule
  BY <1>1 DEF Else, Rule, HostRule
<1>5. Denials(L) \in HostRule
  BY <1>1 DEF Denials, Rule, HostRule
<1> QED
  BY <1>2, <1>3, <1>4, <1>5 DEF Script, FirewallScript, NFTablesScript

\* Its rules, by their place.
LEMMA FirewallPlaces ==
  ASSUME NEW L, detectFirewall = "iptables"
  PROVE  /\ Len(Script(L)) = 5
         /\ Script(L)[1] = Allowed("forward", "dialed") /\ Script(L)[2] = Rewritten /\ Script(L)[3] = Denials(L)
         /\ Script(L)[4] = Allowed("input", "endpoint") /\ Script(L)[5] = Else("input")
BY DEF Script, FirewallScript

LEMMA NFTablesPlaces ==
  ASSUME NEW L, detectFirewall = "nftables", ~engine.podman
  PROVE  /\ Len(Script(L)) = 8
         /\ Script(L)[1] = Allowed("forward", "dialed") /\ Script(L)[2] = Rewritten /\ Script(L)[3] = Denials(L)
         /\ Script(L)[4] = Else("inbound") /\ Script(L)[5] = Allowed("input", "endpoint") /\ Script(L)[6] = Else("input")
         /\ Script(L)[7] = Allowed("bridge", "endpoint") /\ Script(L)[8] = Else("bridge")
<1> DEFINE a == <<Allowed("forward", "dialed"), Rewritten>>
           b == <<Denials(L), Else("inbound"), Allowed("input", "endpoint")>>
           c == <<Else("input"), Allowed("bridge", "endpoint"), Else("bridge")>>
<1>1. Script(L) = a \o <<>> \o b \o <<>> \o c
  BY DEF Script, NFTablesScript
<1> QED
  BY <1>1

LEMMA PodmanPlaces ==
  ASSUME NEW L, detectFirewall = "nftables", engine.podman
  PROVE  /\ Len(Script(L)) = 10
         /\ Script(L)[1] = Allowed("forward", "dialed") /\ Script(L)[2] = Rewritten
         /\ Script(L)[3] = Rule("forward", "bridge", {}, "reject") /\ Script(L)[4] = Denials(L)
         /\ Script(L)[5] = Else("inbound") /\ Script(L)[6] = Allowed("input", "endpoint")
         /\ Script(L)[7] = Rule("input", "dns", {"gateway"}, "accept") /\ Script(L)[8] = Else("input")
         /\ Script(L)[9] = Allowed("bridge", "endpoint") /\ Script(L)[10] = Else("bridge")
<1> DEFINE a == <<Allowed("forward", "dialed"), Rewritten>>
           b == <<Denials(L), Else("inbound"), Allowed("input", "endpoint")>>
           c == <<Else("input"), Allowed("bridge", "endpoint"), Else("bridge")>>
<1>1. Script(L) = a \o <<Rule("forward", "bridge", {}, "reject")>> \o b \o <<Rule("input", "dns", {"gateway"}, "accept")>> \o c
  BY DEF Script, NFTablesScript
<1> QED
  BY <1>1

\* The fields of the rules.
LEMMA Fields ==
  /\ \A h, o : Allowed(h, o).hook = h /\ Allowed(h, o).on = o /\ Allowed(h, o).verdict = "accept"
  /\ \A h : Else(h).hook = h /\ Else(h).on = "any" /\ Else(h).verdict = "reject"
  /\ \A S : Denials(S).hook = "forward" /\ Denials(S).on = "to" /\ Denials(S).verdict = "reject"
            /\ Denials(S).of = parseJobsRules(S)
  /\ Rewritten.hook = "forward" /\ Rewritten.on = "rewritten" /\ Rewritten.verdict = "reject"
  /\ \A h, o, S, v : /\ Rule(h, o, S, v).hook = h /\ Rule(h, o, S, v).on = o
                     /\ Rule(h, o, S, v).of = S /\ Rule(h, o, S, v).verdict = v
  /\ \A r : Appended(r) => r.hook = "forward" /\ r.on = "to" /\ r.verdict = "reject"
BY DEF Allowed, Else, Denials, Rewritten, Rule, Appended

LEMMA FirewallLayout ==
  ASSUME rules \in Seq(HostRule), NEW L, Stands(L), detectFirewall = "iptables", ~engine.podman
  PROVE  ForwardLayout(L) /\ InputLayout /\ \A i \in DOMAIN rules : rules[i].hook # "inbound"
<1>1. Len(rules) \in Nat /\ DOMAIN rules = 1..Len(rules)
  OBVIOUS
<1>2. Len(rules) >= 5 /\ (\A i \in 1..5 : rules[i] = Script(L)[i]) /\ \A i \in DOMAIN rules : i > 5 => Appended(rules[i])
  BY FirewallPlaces DEF Stands
<1>3. /\ {1, 2, 3, 4, 5} \subseteq DOMAIN rules
      /\ rules[1] = Allowed("forward", "dialed") /\ rules[2] = Rewritten
      /\ rules[3] = Denials(L) /\ rules[4] = Allowed("input", "endpoint")
      /\ rules[5] = Else("input")
  BY <1>1, <1>2, FirewallPlaces
<1>4. \A i \in DOMAIN rules : i \in {1, 2, 3, 4, 5} \/ i > 5
  BY <1>1
<1>5. \A i \in DOMAIN rules : i > 5 => rules[i].hook = "forward" /\ rules[i].on = "to" /\ Appended(rules[i])
  BY <1>2, Fields
<1>6. /\ rules[1].hook = "forward" /\ rules[1].on = "dialed" /\ rules[2].hook = "forward" /\ rules[2].on = "rewritten"
      /\ rules[3].hook = "forward" /\ rules[3].on = "to" /\ rules[4].hook = "input" /\ rules[4].on = "endpoint"
      /\ rules[5].hook = "input" /\ rules[5].on = "any"
  BY <1>3, Fields
<1>7. ForwardLayout(L)
  <2>1. \A i \in DOMAIN rules : i > 2 /\ rules[i].hook = "forward" =>
          rules[i] = Denials(L) \/ rules[i] = Rule("forward", "bridge", {}, "reject") \/ Appended(rules[i])
    BY <1>3, <1>4, <1>5, <1>6
  <2>2. \A i \in DOMAIN rules : rules[i].on = "to" => rules[i].hook = "forward"
    BY <1>4, <1>5, <1>6
  <2>3. \E i \in DOMAIN rules : rules[i] = Denials(L)
    BY <1>3
  <2> QED BY <1>3, <2>1, <2>2, <2>3 DEF ForwardLayout
<1>8. InputLayout
  <2>1. \A i \in DOMAIN rules : i < 4 => rules[i].hook # "input"
    BY <1>4, <1>6
  <2>2. 4 + 1 = 5 /\ 4 + 2 = 6 /\ 4 \in DOMAIN rules /\ 5 \in DOMAIN rules
    BY <1>3
  <2> QED BY <1>3, <2>1, <2>2 DEF InputLayout
<1>9. \A i \in DOMAIN rules : rules[i].hook # "inbound"
  BY <1>4, <1>5, <1>6
<1> QED
  BY <1>7, <1>8, <1>9

LEMMA NFTablesLayout ==
  ASSUME rules \in Seq(HostRule), NEW L, Stands(L), detectFirewall = "nftables", ~engine.podman
  PROVE  ForwardLayout(L) /\ InputLayout /\ BridgeLayout /\ InboundLayout
<1>1. Len(rules) \in Nat /\ DOMAIN rules = 1..Len(rules)
  OBVIOUS
<1>2. Len(rules) >= 8 /\ (\A i \in 1..8 : rules[i] = Script(L)[i]) /\ \A i \in DOMAIN rules : i > 8 => Appended(rules[i])
  BY NFTablesPlaces DEF Stands
<1>3. /\ {1, 2, 3, 4, 5, 6, 7, 8} \subseteq DOMAIN rules
      /\ rules[1] = Allowed("forward", "dialed") /\ rules[2] = Rewritten
      /\ rules[3] = Denials(L) /\ rules[4] = Else("inbound")
      /\ rules[5] = Allowed("input", "endpoint") /\ rules[6] = Else("input")
      /\ rules[7] = Allowed("bridge", "endpoint") /\ rules[8] = Else("bridge")
  BY <1>1, <1>2, NFTablesPlaces
<1>4. \A i \in DOMAIN rules : i \in {1, 2, 3, 4, 5, 6, 7, 8} \/ i > 8
  BY <1>1
<1>5. \A i \in DOMAIN rules : i > 8 => rules[i].hook = "forward" /\ rules[i].on = "to" /\ Appended(rules[i])
  BY <1>2, Fields
<1>6. /\ rules[1].hook = "forward" /\ rules[1].on = "dialed" /\ rules[2].hook = "forward" /\ rules[2].on = "rewritten"
      /\ rules[3].hook = "forward" /\ rules[3].on = "to" /\ rules[4].hook = "inbound" /\ rules[4].on = "any"
      /\ rules[5].hook = "input" /\ rules[5].on = "endpoint" /\ rules[6].hook = "input" /\ rules[6].on = "any"
      /\ rules[7].hook = "bridge" /\ rules[7].on = "endpoint" /\ rules[8].hook = "bridge" /\ rules[8].on = "any"
  BY <1>3, Fields
<1>7. ForwardLayout(L)
  <2>1. \A i \in DOMAIN rules : i > 2 /\ rules[i].hook = "forward" =>
          rules[i] = Denials(L) \/ rules[i] = Rule("forward", "bridge", {}, "reject") \/ Appended(rules[i])
    BY <1>3, <1>4, <1>5, <1>6
  <2>2. \A i \in DOMAIN rules : rules[i].on = "to" => rules[i].hook = "forward"
    BY <1>4, <1>5, <1>6
  <2>3. \E i \in DOMAIN rules : rules[i] = Denials(L)
    BY <1>3
  <2> QED BY <1>3, <2>1, <2>2, <2>3 DEF ForwardLayout
<1>8. InputLayout
  <2>1. \A i \in DOMAIN rules : i < 5 => rules[i].hook # "input"
    BY <1>4, <1>6
  <2>2. 5 + 1 = 6 /\ 5 + 2 = 7 /\ 5 \in DOMAIN rules /\ 6 \in DOMAIN rules
    BY <1>3
  <2> QED BY <1>3, <2>1, <2>2 DEF InputLayout
<1>9. BridgeLayout
  <2>1. \A i \in DOMAIN rules : i < 7 => rules[i].hook # "bridge"
    BY <1>4, <1>6
  <2>2. 7 + 1 = 8 /\ 7 \in DOMAIN rules /\ 8 \in DOMAIN rules
    BY <1>3
  <2> QED BY <1>3, <2>1, <2>2 DEF BridgeLayout
<1>10. InboundLayout
  <2>1. \A i \in DOMAIN rules : rules[i].hook = "inbound" => i = 4
    BY <1>4, <1>5, <1>6
  <2> QED BY <1>3, <2>1, Fields DEF InboundLayout
<1> QED
  BY <1>7, <1>8, <1>9, <1>10

LEMMA PodmanLayout ==
  ASSUME rules \in Seq(HostRule), NEW L, Stands(L), detectFirewall = "nftables", engine.podman
  PROVE  ForwardLayout(L) /\ InputLayout /\ BridgeLayout /\ InboundLayout
<1>1. Len(rules) \in Nat /\ DOMAIN rules = 1..Len(rules)
  OBVIOUS
<1>2. Len(rules) >= 10 /\ (\A i \in 1..10 : rules[i] = Script(L)[i]) /\ \A i \in DOMAIN rules : i > 10 => Appended(rules[i])
  BY PodmanPlaces DEF Stands
<1>3. /\ {1, 2, 3, 4, 5, 6, 7, 8, 9, 10} \subseteq DOMAIN rules
      /\ rules[1] = Allowed("forward", "dialed") /\ rules[2] = Rewritten
      /\ rules[3] = Rule("forward", "bridge", {}, "reject") /\ rules[4] = Denials(L)
      /\ rules[5] = Else("inbound") /\ rules[6] = Allowed("input", "endpoint")
      /\ rules[7] = Rule("input", "dns", {"gateway"}, "accept") /\ rules[8] = Else("input")
      /\ rules[9] = Allowed("bridge", "endpoint") /\ rules[10] = Else("bridge")
  BY <1>1, <1>2, PodmanPlaces
<1>4. \A i \in DOMAIN rules : i \in {1, 2, 3, 4, 5, 6, 7, 8, 9, 10} \/ i > 10
  BY <1>1
<1>5. \A i \in DOMAIN rules : i > 10 => rules[i].hook = "forward" /\ rules[i].on = "to" /\ Appended(rules[i])
  BY <1>2, Fields
<1>6. /\ rules[1].hook = "forward" /\ rules[1].on = "dialed" /\ rules[2].hook = "forward" /\ rules[2].on = "rewritten"
      /\ rules[3].hook = "forward" /\ rules[3].on = "bridge" /\ rules[4].hook = "forward" /\ rules[4].on = "to"
      /\ rules[5].hook = "inbound" /\ rules[5].on = "any" /\ rules[6].hook = "input" /\ rules[6].on = "endpoint"
      /\ rules[7].hook = "input" /\ rules[7].on = "dns" /\ rules[8].hook = "input" /\ rules[8].on = "any"
      /\ rules[9].hook = "bridge" /\ rules[9].on = "endpoint" /\ rules[10].hook = "bridge" /\ rules[10].on = "any"
  BY <1>3, Fields
<1>7. ForwardLayout(L)
  <2>1. \A i \in DOMAIN rules : i > 2 /\ rules[i].hook = "forward" =>
          rules[i] = Denials(L) \/ rules[i] = Rule("forward", "bridge", {}, "reject") \/ Appended(rules[i])
    BY <1>3, <1>4, <1>5, <1>6
  <2>2. \A i \in DOMAIN rules : rules[i].on = "to" => rules[i].hook = "forward"
    BY <1>4, <1>5, <1>6
  <2>3. \E i \in DOMAIN rules : rules[i] = Denials(L)
    BY <1>3
  <2> QED BY <1>3, <2>1, <2>2, <2>3 DEF ForwardLayout
<1>8. InputLayout
  <2>1. \A i \in DOMAIN rules : i < 6 => rules[i].hook # "input"
    BY <1>4, <1>6
  <2>2. 6 + 1 = 7 /\ 6 + 2 = 8 /\ 6 \in DOMAIN rules /\ 7 \in DOMAIN rules /\ 8 \in DOMAIN rules
    BY <1>3
  <2> QED BY <1>3, <2>1, <2>2 DEF InputLayout
<1>9. BridgeLayout
  <2>1. \A i \in DOMAIN rules : i < 9 => rules[i].hook # "bridge"
    BY <1>4, <1>6
  <2>2. 9 + 1 = 10 /\ 9 \in DOMAIN rules /\ 10 \in DOMAIN rules
    BY <1>3
  <2> QED BY <1>3, <2>1, <2>2 DEF BridgeLayout
<1>10. InboundLayout
  <2>1. \A i \in DOMAIN rules : rules[i].hook = "inbound" => i = 5
    BY <1>4, <1>5, <1>6
  <2> QED BY <1>3, <2>1, Fields DEF InboundLayout
<1> QED
  BY <1>7, <1>8, <1>9, <1>10

-----------------------------------------------------------------------------
(* What they let a job open. *)

\* The networks a rule denies.
Denied(s) == \E i \in DOMAIN rules : rules[i].on = "to" /\ s \in rules[i].of

\* A forwarded connection is decided by the first rule, or refused by any other that matches it.
LEMMA ForwardVerdict ==
  ASSUME rules \in Seq(HostRule), NEW L, ForwardLayout(L), NEW c, SeenBy(c) = "forward"
  PROVE  /\ c.dialed \in pol.allow /\ c.port = "api" => Verdict(c) = "accept"
         /\ ~(c.dialed \in pol.allow /\ c.port = "api") =>
              IF \E i \in DOMAIN rules : Hit(rules[i], c) THEN Verdict(c) = "reject" ELSE Verdict(c) = "none"
<1>1. 1 \in DOMAIN rules /\ DOMAIN rules \subseteq Nat \ {0}
  BY DEF ForwardLayout
<1>2. Hit(rules[1], c) <=> c.dialed \in pol.allow /\ c.port = "api"
  BY Hits DEF ForwardLayout
<1>3. ASSUME c.dialed \in pol.allow /\ c.port = "api" PROVE Verdict(c) = "accept"
  <2>1. Hit(rules[1], c) /\ rules[1].verdict = "accept"
    BY <1>2, <1>3, Fields DEF ForwardLayout
  <2>2. \A j \in DOMAIN rules : ~(j < 1)
    BY <1>1
  <2> QED BY <1>1, <2>1, <2>2, FirstDecides
<1>4. ASSUME ~(c.dialed \in pol.allow /\ c.port = "api"), NEW j \in DOMAIN rules, Hit(rules[j], c)
      PROVE  rules[j].verdict = "reject"
  <2>1. j # 1
    BY <1>2, <1>4
  <2>2. CASE j = 2
    BY <2>2, Fields DEF ForwardLayout
  <2>3. CASE j > 2
    <3>1. rules[j].hook = "forward"
      BY <1>4 DEF Hit
    <3> QED BY <2>3, <3>1, Fields DEF ForwardLayout
  <2>4. j = 1 \/ j = 2 \/ j > 2
    BY <1>1
  <2> QED BY <2>1, <2>2, <2>3, <2>4
<1>5. ASSUME ~(c.dialed \in pol.allow /\ c.port = "api"), NEW j \in DOMAIN rules, Hit(rules[j], c)
      PROVE  Verdict(c) = "reject"
  BY <1>4, <1>5, RejectsDecide
<1>6. (\A j \in DOMAIN rules : ~Hit(rules[j], c)) => Verdict(c) = "none"
  BY NothingDecides
<1> QED
  BY <1>3, <1>5, <1>6

\* What the host's own chain decides.
LEMMA InputVerdict ==
  ASSUME rules \in Seq(HostRule), InputLayout, NEW c, SeenBy(c) = "input"
  PROVE  Verdict(c) = IF \/ c.to \in pol.allow /\ c.port = "api"
                         \/ engine.podman /\ c.to = "gateway" /\ c.port = "dns"
                      THEN "accept" ELSE "reject"
<1>1. PICK k \in DOMAIN rules :
        /\ rules[k] = Allowed("input", "endpoint") /\ k + 1 \in DOMAIN rules
        /\ \A i \in DOMAIN rules : i < k => rules[i].hook # "input"
        /\ IF engine.podman
           THEN /\ rules[k+1] = Rule("input", "dns", {"gateway"}, "accept")
                /\ k + 2 \in DOMAIN rules /\ rules[k+2] = Else("input")
           ELSE rules[k+1] = Else("input")
  BY DEF InputLayout
<1>2. DOMAIN rules \subseteq Nat /\ k \in Nat /\ k + 1 \in Nat /\ k + 2 \in Nat
  OBVIOUS
<1>3. \A i \in DOMAIN rules : i < k => ~Hit(rules[i], c)
  BY <1>1 DEF Hit
<1>4. \A j \in DOMAIN rules : j < k + 1 => j < k \/ j = k
  BY <1>2
<1>5. \A j \in DOMAIN rules : j < k + 2 => j < k \/ j = k \/ j = k + 1
  BY <1>2
<1>6. CASE c.to \in pol.allow /\ c.port = "api"
  <2>1. Hit(rules[k], c) /\ rules[k].verdict = "accept"
    BY <1>1, <1>6, Hits, Fields
  <2> QED BY <1>3, <1>6, <2>1, FirstDecides
<1>7. CASE ~(c.to \in pol.allow /\ c.port = "api") /\ ~engine.podman
  <2>1. Hit(rules[k+1], c) /\ rules[k+1].verdict = "reject" /\ ~Hit(rules[k], c)
    BY <1>1, <1>7, Hits, Fields
  <2>2. \A j \in DOMAIN rules : j < k + 1 => ~Hit(rules[j], c)
    BY <1>3, <1>4, <2>1
  <2> QED BY <1>1, <1>7, <2>1, <2>2, FirstDecides
<1>8. CASE ~(c.to \in pol.allow /\ c.port = "api") /\ engine.podman
  <2>1. ~Hit(rules[k], c) /\ Hit(rules[k+2], c) /\ rules[k+2].verdict = "reject" /\ rules[k+1].verdict = "accept"
    BY <1>1, <1>8, Hits, Fields
  <2>2. Hit(rules[k+1], c) <=> c.to = "gateway" /\ c.port = "dns"
    BY <1>1, <1>8, Hits
  <2>3. \A j \in DOMAIN rules : j < k + 1 => ~Hit(rules[j], c)
    BY <1>3, <1>4, <2>1
  <2>4. CASE Hit(rules[k+1], c)
    BY <1>1, <1>8, <2>1, <2>2, <2>3, <2>4, FirstDecides
  <2>5. CASE ~Hit(rules[k+1], c)
    <3>1. \A j \in DOMAIN rules : j < k + 2 => ~Hit(rules[j], c)
      BY <1>3, <1>5, <2>1, <2>5
    <3> QED BY <1>1, <1>8, <2>1, <2>2, <2>5, <3>1, FirstDecides
  <2> QED BY <2>4, <2>5
<1> QED
  BY <1>6, <1>7, <1>8

LEMMA BridgeVerdict ==
  ASSUME rules \in Seq(HostRule), BridgeLayout, NEW c, SeenBy(c) = "bridge"
  PROVE  Verdict(c) = IF c.to \in pol.allow /\ c.port = "api" THEN "accept" ELSE "reject"
<1>1. PICK k \in DOMAIN rules :
        /\ rules[k] = Allowed("bridge", "endpoint") /\ k + 1 \in DOMAIN rules /\ rules[k+1] = Else("bridge")
        /\ \A i \in DOMAIN rules : i < k => rules[i].hook # "bridge"
  BY DEF BridgeLayout
<1>2. DOMAIN rules \subseteq Nat /\ k \in Nat /\ k + 1 \in Nat
  OBVIOUS
<1>3. \A i \in DOMAIN rules : i < k => ~Hit(rules[i], c)
  BY <1>1 DEF Hit
<1>4. \A j \in DOMAIN rules : j < k + 1 => j < k \/ j = k
  BY <1>2
<1>5. CASE c.to \in pol.allow /\ c.port = "api"
  <2>1. Hit(rules[k], c) /\ rules[k].verdict = "accept"
    BY <1>1, <1>5, Hits, Fields
  <2> QED BY <1>3, <1>5, <2>1, FirstDecides
<1>6. CASE ~(c.to \in pol.allow /\ c.port = "api")
  <2>1. Hit(rules[k+1], c) /\ rules[k+1].verdict = "reject" /\ ~Hit(rules[k], c)
    BY <1>1, <1>6, Hits, Fields
  <2>2. \A j \in DOMAIN rules : j < k + 1 => ~Hit(rules[j], c)
    BY <1>3, <1>4, <2>1
  <2> QED BY <1>1, <1>6, <2>1, <2>2, FirstDecides
<1> QED
  BY <1>5, <1>6

\* A forwarded connection that ends where nothing is denied meets no rule but the first.
LEMMA NothingForwardMatches ==
  ASSUME rules \in Seq(HostRule), NEW L \in SUBSET Subnets, ForwardLayout(L), NEW c, SeenBy(c) = "forward",
         c.dialed = c.to, c.to \notin Subnets \cup {"peer"}, Ranges(c.to) \cap (parseJobsRules(L) \cup Subnets) = {},
         ~(c.dialed \in pol.allow /\ c.port = "api")
  PROVE  Verdict(c) = "none"
<1>1. ASSUME NEW i \in DOMAIN rules, Hit(rules[i], c) PROVE FALSE
  <2>1. i = 1 \/ i = 2 \/ i > 2
    OBVIOUS
  <2>2. i # 1 /\ i # 2
    BY <1>1, Hits DEF ForwardLayout
  <2>3. rules[i].hook = "forward"
    BY <1>1 DEF Hit
  <2>4. rules[i] = Denials(L) \/ rules[i] = Rule("forward", "bridge", {}, "reject") \/ Appended(rules[i])
    BY <2>1, <2>2, <2>3 DEF ForwardLayout
  <2>5. CASE rules[i] = Denials(L)
    BY <1>1, <2>5, Hits DEF Denials
  <2>6. CASE rules[i] = Rule("forward", "bridge", {}, "reject")
    BY <1>1, <2>6, Hits
  <2>7. CASE Appended(rules[i])
    <3>1. PICK S \in SUBSET Subnets : rules[i] = Rule("forward", "to", S, "reject")
      BY <2>7 DEF Appended
    <3>2. Ranges(c.to) \cap S # {}
      BY <1>1, <3>1, Hits
    <3> QED BY <3>2
  <2> QED BY <2>4, <2>5, <2>6, <2>7
<1> QED
  BY <1>1, NothingDecides

\* A forwarded connection that was rewritten, or ends where something is denied, is refused.
LEMMA DeniedIsRefused ==
  ASSUME rules \in Seq(HostRule), NEW L \in SUBSET Subnets, ForwardLayout(L), NEW c, SeenBy(c) = "forward",
         ~(c.dialed \in pol.allow /\ c.port = "api"),
         \/ c.dialed # c.to
         \/ Ranges(c.to) \cap parseJobsRules(L) # {}
         \/ \E s \in Ranges(c.to) : Denied(s)
  PROVE  Verdict(c) = "reject"
<1>1. CASE c.dialed # c.to
  <2>1. 2 \in DOMAIN rules /\ Hit(rules[2], c)
    BY <1>1, Hits DEF ForwardLayout
  <2> QED BY <2>1, ForwardVerdict
<1>2. CASE Ranges(c.to) \cap parseJobsRules(L) # {}
  <2>1. PICK i \in DOMAIN rules : rules[i] = Denials(L)
    BY DEF ForwardLayout
  <2>2. Hit(rules[i], c)
    BY <1>2, <2>1, Hits DEF Denials
  <2> QED BY <2>2, ForwardVerdict
<1>3. ASSUME NEW s \in Ranges(c.to), Denied(s) PROVE Verdict(c) = "reject"
  <2>1. PICK i \in DOMAIN rules : rules[i].on = "to" /\ s \in rules[i].of
    BY <1>3 DEF Denied
  <2>2. rules[i].hook = "forward"
    BY <2>1 DEF ForwardLayout
  <2>3. Hit(rules[i], c)
    BY <1>3, <2>1, <2>2 DEF Hit, Matches
  <2> QED BY <2>3, ForwardVerdict
<1> QED
  BY <1>1, <1>2, <1>3

\* Behind the rules of a script, and the denials since, a job opens what the policy promises: nothing
\* less, and nothing more towards the networks they deny.
LEMMA PolicyHolds ==
  ASSUME rules \in Seq(HostRule), engine \in Engines, pol \in Policies, ~engine.rootless,
         jobsnet = IF jobsNetworkOptions THEN "isolated" ELSE "open",
         NEW L \in SUBSET Subnets, Stands(L),
         NEW present \in SUBSET Subnets, \A s \in present : Denied(s),
         NEW c \in Connections(present)
  PROVE  Reaches(c) <=> Policy(c)
<1>1. /\ engine.podman \in BOOLEAN /\ pol.allow \subseteq {"internet", "site", "peer", "gateway"}
      /\ pol.metadata \in BOOLEAN
  BY NetworkAssumption
<1>2. detectFirewall = "iptables" \/ detectFirewall = "nftables"
  BY DEF detectFirewall
<1>3. detectFirewall = "iptables" => ~engine.podman
  BY DEF detectFirewall
<1>4. ForwardLayout(L) /\ InputLayout
  BY <1>2, <1>3, FirewallLayout, NFTablesLayout, PodmanLayout
<1>5. detectFirewall = "nftables" => BridgeLayout /\ InboundLayout /\ jobsnet = "open"
  BY NFTablesLayout, PodmanLayout DEF jobsNetworkOptions
<1>6. detectFirewall = "iptables" => \A i \in DOMAIN rules : rules[i].hook # "inbound"
  BY <1>3, FirewallLayout
<1>7. Subnets \cap Named = {} /\ present \subseteq Subnets
  BY NetworkAssumption
<1>8. PICK a, port :
        \/ /\ c = Direct(a, port) /\ port \in {"api", "dns", "other"}
           /\ a \in {"internet", "meta", "wire", "site", "peer", "gateway"} \cup present
        \/ /\ c = Published(a, port) /\ port \in {"api", "other"} /\ a \in {"peer"} \cup present
        \/ c = Inbound
  BY DEF Connections
<1>9. CASE c = Direct(a, port) /\ a \in {"internet", "meta", "wire", "site"} \cup present
  <2>1. /\ c.dialed = a /\ c.to = a /\ c.port = port /\ c.hook = "forward" /\ SeenBy(c) = "forward"
        /\ Ranges(a) = {a} /\ a \notin {"peer", "gateway"}
    BY <1>7, <1>9 DEF Direct, Hook, SeenBy, Ranges, Named
  <2>2. CASE a \in pol.allow /\ port = "api"
    <3>1. Verdict(c) = "accept"
      BY <1>4, <2>1, <2>2, ForwardVerdict
    <3>2. ~EngineRefuses(c)
      BY <1>1, <1>7, <2>1, <2>2 DEF EngineRefuses, Named
    <3>3. Policy(c)
      BY <2>1, <2>2 DEF Policy
    <3> QED BY <3>1, <3>2, <3>3 DEF Reaches
  <2>3. CASE ~(a \in pol.allow /\ port = "api") /\ (a = "internet" \/ (a = "meta" /\ pol.metadata))
    <3>1. a \notin Subnets \cup {"peer"} /\ a \notin parseJobsRules(L)
      BY <1>7, <2>3 DEF Named, parseJobsRules
    <3>2. Verdict(c) = "none"
      BY <1>4, <2>1, <2>3, <3>1, NothingForwardMatches
    <3>3. ~EngineRefuses(c)
      BY <2>1, <3>1 DEF EngineRefuses
    <3>4. Policy(c)
      BY <2>1, <2>3 DEF Policy
    <3> QED BY <3>2, <3>3, <3>4 DEF Reaches
  <2>4. CASE ~(a \in pol.allow /\ port = "api") /\ ~(a = "internet" \/ (a = "meta" /\ pol.metadata))
    <3>1. a \in parseJobsRules(L) \/ Denied(a)
      BY <1>9, <2>4 DEF parseJobsRules
    <3>2. Verdict(c) = "reject"
      BY <1>4, <2>1, <2>4, <3>1, DeniedIsRefused
    <3>3. ~Policy(c)
      BY <1>7, <2>1, <2>4 DEF Policy, Direct, Named
    <3> QED BY <3>2, <3>3 DEF Reaches
  <2> QED BY <2>2, <2>3, <2>4
<1>10. CASE c = Published(a, port) /\ a \in {"peer"} \cup present
  <2>1. /\ c.dialed = "gateway" /\ c.to = a /\ c.port = port /\ c.hook = "forward" /\ SeenBy(c) = "forward"
        /\ a # "gateway" /\ a \notin {"internet", "meta"}
    BY <1>7, <1>10 DEF Published, SeenBy, Named
  <2>2. CASE "gateway" \in pol.allow /\ port = "api"
    <3>1. Verdict(c) = "accept"
      BY <1>4, <2>1, <2>2, ForwardVerdict
    <3>2. ~EngineRefuses(c)
      BY <2>1 DEF EngineRefuses
    <3>3. Policy(c)
      BY <2>1, <2>2 DEF Policy
    <3> QED BY <3>1, <3>2, <3>3 DEF Reaches
  <2>3. CASE ~("gateway" \in pol.allow /\ port = "api")
    <3>1. Verdict(c) = "reject"
      BY <1>4, <2>1, <2>3, DeniedIsRefused
    <3>2. c # Direct("gateway", "dns")
      BY <2>1 DEF Direct
    <3>3. ~Policy(c)
      BY <2>1, <2>3, <3>2 DEF Policy
    <3> QED BY <3>1, <3>3 DEF Reaches
  <2> QED BY <2>2, <2>3
<1>11. CASE c = Direct(a, port) /\ a = "gateway"
  <2>1. c.dialed = "gateway" /\ c.to = "gateway" /\ c.port = port /\ c.hook = "input" /\ SeenBy(c) = "input"
    BY <1>11 DEF Direct, Hook, SeenBy
  <2>2. Verdict(c) = IF \/ "gateway" \in pol.allow /\ port = "api"
                        \/ engine.podman /\ port = "dns"
                     THEN "accept" ELSE "reject"
    BY <1>4, <2>1, InputVerdict
  <2>3. ~EngineRefuses(c)
    BY <1>7, <2>1 DEF EngineRefuses, Named
  <2>4. c = Direct("gateway", "dns") <=> port = "dns"
    BY <1>11, <2>1 DEF Direct
  <2>5. Policy(c) <=> ("gateway" \in pol.allow /\ port = "api") \/ (engine.podman /\ port = "dns")
    BY <2>1, <2>4 DEF Policy
  <2> QED BY <2>2, <2>3, <2>5 DEF Reaches
<1>12. CASE c = Direct(a, port) /\ a = "peer"
  <2>1. c.dialed = "peer" /\ c.to = "peer" /\ c.port = port /\ c.hook = "bridge" /\ "jobs" \in Ranges(c.to)
    BY <1>12 DEF Direct, Hook, Ranges
  <2>2. Policy(c) <=> "peer" \in pol.allow /\ port = "api"
    BY <2>1 DEF Policy, Direct
  <2>3. CASE detectFirewall = "iptables"
    <3>1. SeenBy(c) = "forward"
      BY <2>1, <2>3 DEF SeenBy
    <3>2. CASE "peer" \in pol.allow /\ port = "api"
      <4>1. Verdict(c) = "accept"
        BY <1>4, <2>1, <3>1, <3>2, ForwardVerdict
      <4> QED BY <2>2, <2>3, <3>2, <4>1 DEF Reaches
    <3>3. CASE ~("peer" \in pol.allow /\ port = "api")
      <4>1. "jobs" \in parseJobsRules(L)
        BY DEF parseJobsRules
      <4>2. Verdict(c) = "reject"
        BY <1>4, <2>1, <3>1, <3>3, <4>1, DeniedIsRefused
      <4> QED BY <2>2, <3>3, <4>2 DEF Reaches
    <3> QED BY <3>2, <3>3
  <2>4. CASE detectFirewall = "nftables"
    <3>1. SeenBy(c) = "bridge"
      BY <2>1, <2>4 DEF SeenBy
    <3>2. Verdict(c) = IF "peer" \in pol.allow /\ port = "api" THEN "accept" ELSE "reject"
      BY <1>5, <2>1, <2>4, <3>1, BridgeVerdict
    <3>3. ~EngineRefuses(c)
      BY <1>5, <1>7, <2>1, <2>4 DEF EngineRefuses, Named
    <3> QED BY <2>2, <3>2, <3>3 DEF Reaches
  <2> QED BY <1>2, <2>3, <2>4
<1>13. CASE c = Inbound
  <2>1. c.hook = "inbound" /\ SeenBy(c) = "inbound"
    BY <1>13 DEF Inbound, SeenBy
  <2>2. ~Policy(c)
    BY <2>1 DEF Policy
  <2>3. CASE detectFirewall = "iptables"
    <3>1. Verdict(c) = "none"
      BY <1>6, <2>1, <2>3, NothingDecides DEF Hit
    <3>2. EngineRefuses(c)
      BY <1>3, <2>1, <2>3 DEF EngineRefuses
    <3> QED BY <2>2, <3>1, <3>2 DEF Reaches
  <2>4. CASE detectFirewall = "nftables"
    <3>1. PICK k \in DOMAIN rules : rules[k] = Else("inbound")
      BY <1>5, <2>4 DEF InboundLayout
    <3>2. Hit(rules[k], c)
      BY <2>1, <3>1, Hits
    <3>3. \A j \in DOMAIN rules : Hit(rules[j], c) => rules[j].verdict = "reject"
      BY <1>5, <2>1, <2>4 DEF InboundLayout, Hit
    <3>4. Verdict(c) = "reject"
      BY <3>2, <3>3, RejectsDecide
    <3> QED BY <2>2, <3>4 DEF Reaches
  <2> QED BY <1>2, <2>3, <2>4
<1> QED
  BY <1>8, <1>9, <1>10, <1>11, <1>12, <1>13

-----------------------------------------------------------------------------
(* The inductive invariants. *)

\* A launcher that is up prepared the network: the rules of a script stand, and deny what it knows of.
\* On the nftables backend they stand for as long as a job runs, whatever the launcher is at.
Prepared == {"up", "close", "append", "closed", "refused"}
NetInv ==
  /\ engine \in Engines /\ pol \in Policies
  /\ jobsnet # "none" => jobsnet = IF jobsNetworkOptions THEN "isolated" ELSE "open"
  /\ phase \notin {"down", "network"} => jobsnet # "none"
  /\ phase = "append" => known # None
  /\ phase \in {"list", "write"} => ~engine.rootless
  /\ phase \in Prepared /\ ~engine.rootless =>
       known # None /\ (\A s \in known : Denied(s)) /\ \E L \in SUBSET Subnets : Stands(L)
  /\ phase = "closed" /\ ~engine.rootless => listed \subseteq known
StandInv ==
  detectFirewall = "nftables" /\ ~engine.rootless /\ (\E x \in Attempts : box[x].st = "running")
    => jobsnet # "none" /\ \E L \in SUBSET Subnets : Stands(L)

\* Where a placement is, and what it has made so far.
Calls == {"pull", "volume", "copy", "copystart", "copywait", "create", "confine", "bind", "checkbind", "bare", "start"}
Mounted(x) == vol[x] \in {"none", "whole"} /\ copy[x] \in {"none", "ended"}
StepInv ==
  /\ step \notin {"idle", "list", "reconcile"} => cur # None
  /\ step \in Calls => phase = "closed"
  /\ cur # None => asks \in Asked /\ watch[cur] = "none" /\ state[cur] # "pending" /\ box[cur].st \in {"none", "created"}
  /\ step \in {"close", "pull", "volume"} => vol[cur] = "none" /\ copy[cur] = "none"
  /\ step = "copystart" => copy[cur] = "created"
  /\ step \in {"close", "pull", "volume", "copy", "copystart", "copywait", "create"} => box[cur] = NoBox
  /\ step \in {"create", "confine", "bind", "checkbind", "bare", "start"} => Mounted(cur)
  /\ step \in {"confine", "checkbind", "start"} => box[cur].st = "created"
  /\ step = "start" => box[cur].sees \in {"none", "own"}

\* What the attempts have on the engine.
FreshInv ==
  \A x \in Attempts :
    state[x] = "pending" => box[x] = NoBox /\ vol[x] = "none" /\ copy[x] = "none" /\ watch[x] = "none"
BoxInv ==
  \A x \in Attempts :
    /\ box[x].st = "none" => box[x] = NoBox
    /\ box[x] # NoBox => Mounted(x)
    /\ box[x].st = "running" => box[x].sees \in {"none", "own"}

IInv == TypeOK /\ NetInv /\ StandInv /\ StepInv /\ FreshInv /\ BoxInv

LEMMA InitContainer == Init => IInv
<1> SUFFICES ASSUME Init PROVE IInv
  OBVIOUS
<1>1. rules = <<>> /\ rules \in Seq(HostRule)
  BY DEF Init, NetInit
<1>2. \A x \in Attempts : box[x] = NoBox /\ box[x].st = "none" /\ vol[x] = "none" /\ copy[x] = "none" /\ watch[x] = "none"
  BY DEF Init, NoBox, Box
<1>3. TypeOK
  BY <1>1 DEF Init, NetInit, TypeOK, NoBox, Box, Steps
<1>4. NetInv
  BY <1>3 DEF Init, NetInit, NetInv, Prepared
<1>5. StandInv /\ BoxInv /\ FreshInv
  BY <1>2 DEF StandInv, BoxInv, FreshInv
<1>6. StepInv
  BY DEF Init, StepInv, Calls
<1> QED
  BY <1>3, <1>4, <1>5, <1>6 DEF IInv

-----------------------------------------------------------------------------
(* The network's steps. *)

\* Denials appended to rules that stand leave them standing, and deny what they were appended for.
LEMMA AppendStands ==
  ASSUME rules \in Seq(HostRule), NEW fresh \in SUBSET Subnets, rules' = denySubnets(fresh), engine' = engine, pol' = pol
  PROVE  /\ rules' \in Seq(HostRule)
         /\ \A L : Stands(L) => Stands(L)'
         /\ \A s : Denied(s) => Denied(s)'
         /\ \A s \in fresh : Denied(s)'
<1> DEFINE add == {s \in fresh : \A i \in DOMAIN rules : rules[i].on = "to" => s \notin rules[i].of}
           new == Rule("forward", "to", add, "reject")
<1>1. rules' = IF add = {} THEN rules ELSE Append(rules, new)
  BY DEF denySubnets
<1>2. \A s \in fresh : s \in add \/ Denied(s)
  BY DEF Denied
<1>3. add \subseteq Subnets
  OBVIOUS
<1>4. new \in HostRule /\ Appended(new) /\ new.on = "to" /\ new.of = add
  <2>1. Appended(new)
    BY <1>3 DEF Appended
  <2>2. new.on = "to" /\ new.of = add
    BY DEF Rule
  <2>3. new \in HostRule
    BY <1>3 DEF Rule, HostRule
  <2> QED BY <2>1, <2>2, <2>3
<1> HIDE DEF add, new
<1>5. \A L : Script(L)' = Script(L)
  BY DEF Script, FirewallScript, NFTablesScript, detectFirewall, Allowed, Rewritten, Denials, Else, parseJobsRules
<1>6. CASE add = {}
  BY <1>1, <1>2, <1>5, <1>6 DEF Stands, Denied
<1>7. CASE add # {}
  <2>1. /\ rules' \in Seq(HostRule) /\ Len(rules') = Len(rules) + 1 /\ Len(rules) \in Nat
        /\ DOMAIN rules = 1..Len(rules) /\ DOMAIN rules' = 1..(Len(rules) + 1)
        /\ \A i \in DOMAIN rules : rules'[i] = rules[i]
        /\ rules'[Len(rules) + 1] = new
    BY <1>1, <1>4, <1>7
  <2>2. ASSUME NEW s, Denied(s) PROVE Denied(s)'
    BY <2>1, <2>2 DEF Denied
  <2>3. ASSUME NEW s \in add PROVE Denied(s)'
    BY <1>4, <2>1 DEF Denied
  <2>4. ASSUME NEW L, Stands(L) PROVE Stands(L)'
    <3>1. Len(Script(L)) <= Len(rules) /\ \A i \in 1..Len(Script(L)) : rules[i] = Script(L)[i]
      BY <2>4 DEF Stands
    <3>2. Len(Script(L)) \in Nat
      <4>1. Len(Script(L)) = 5 \/ Len(Script(L)) = 8 \/ Len(Script(L)) = 10
        BY FirewallPlaces, NFTablesPlaces, PodmanPlaces DEF detectFirewall
      <4> QED BY <4>1
    <3>3. \A i \in 1..Len(Script(L)) : i \in DOMAIN rules
      BY <2>1, <3>1, <3>2
    <3>4. \A i \in DOMAIN rules' : i > Len(Script(L)) => Appended(rules'[i])
      <4>1. \A i \in DOMAIN rules' : i \in DOMAIN rules \/ i = Len(rules) + 1
        BY <2>1
      <4>2. \A i \in DOMAIN rules : i > Len(Script(L)) => Appended(rules[i])
        BY <2>4 DEF Stands
      <4> QED BY <1>4, <2>1, <4>1, <4>2
    <3>5. Len(Script(L)) <= Len(rules') /\ \A i \in 1..Len(Script(L)) : rules'[i] = Script(L)[i]
      BY <2>1, <3>1, <3>2, <3>3
    <3> QED BY <1>5, <3>4, <3>5 DEF Stands, Appended
  <2> QED BY <1>2, <2>1, <2>2, <2>3, <2>4
<1> QED
  BY <1>6, <1>7

\* A writer that got to the end of the script leaves it standing, and on the nftables backend any other
\* leaves what was there.
LEMMA WriteStands ==
  ASSUME rules \in Seq(HostRule), pol \in Policies, NEW L \in SUBSET Subnets, NEW n \in 0..Len(Script(L)),
         rules' = Written(Script(L), n), engine' = engine, pol' = pol
  PROVE  /\ rules' \in Seq(HostRule)
         /\ n = Len(Script(L)) => Stands(L)' /\ \A s \in L : Denied(s)'
         /\ n # Len(Script(L)) /\ detectFirewall = "nftables" => rules' = rules
<1>1. Script(L) \in Seq(HostRule) /\ Len(Script(L)) \in Nat
  BY ScriptType
<1>2. Script(L)' = Script(L)
  BY DEF Script, FirewallScript, NFTablesScript, detectFirewall, Allowed, Rewritten, Denials, Else, parseJobsRules
<1>3. SubSeq(Script(L), 1, n) \in Seq(HostRule)
  BY <1>1
<1>4. n = Len(Script(L)) => SubSeq(Script(L), 1, n) = Script(L)
  BY <1>1
<1>5. rules' \in Seq(HostRule)
  BY <1>1, <1>3 DEF Written
<1>6. n = Len(Script(L)) => rules' = Script(L)
  BY <1>4 DEF Written
<1>7. ASSUME rules' = Script(L) PROVE Stands(L)' /\ \A s \in L : Denied(s)'
  <2>1. DOMAIN rules' = 1..Len(Script(L)) /\ Len(rules') = Len(Script(L))
    BY <1>1, <1>7
  <2>2. Stands(L)'
    BY <1>1, <1>2, <1>7, <2>1 DEF Stands
  <2>3. \E i \in DOMAIN rules' : rules'[i] = Denials(L)
    <3>1. \E i \in {3, 4} : i <= Len(Script(L)) /\ Script(L)[i] = Denials(L)
      BY FirewallPlaces, NFTablesPlaces, PodmanPlaces DEF detectFirewall
    <3> QED BY <1>1, <1>7, <2>1, <3>1
  <2>4. Denials(L).on = "to" /\ \A s \in L : s \in Denials(L).of
    BY Fields DEF parseJobsRules
  <2> QED BY <2>2, <2>3, <2>4 DEF Denied
<1>8. n # Len(Script(L)) /\ detectFirewall = "nftables" => rules' = rules
  BY DEF Written
<1> QED
  BY <1>5, <1>6, <1>7, <1>8

\* With the engine and the policy, what depends on nothing else stays.
LEMMA RulesStay ==
  ASSUME UNCHANGED <<engine, pol, rules>>
  PROVE  /\ \A L : Stands(L)' = Stands(L)
         /\ \A s : Denied(s)' = Denied(s)
         /\ detectFirewall' = detectFirewall /\ jobsNetworkOptions' = jobsNetworkOptions
<1>1. \A L : Script(L)' = Script(L)
  BY DEF Script, FirewallScript, NFTablesScript, detectFirewall, Allowed, Rewritten, Denials, Else, parseJobsRules
<1> QED
  BY <1>1 DEF Stands, Denied, detectFirewall, jobsNetworkOptions

LEMMA StepNet == IInv /\ NetNext => TypeOK' /\ NetInv' /\ StandInv'
<1> SUFFICES ASSUME IInv, NetNext PROVE TypeOK' /\ NetInv' /\ StandInv'
  OBVIOUS
<1> USE DEF IInv
<1>0. UNCHANGED <<placeVars, boxVars, jobVars, recVars, engine, pol>>
  BY DEF NetNext, EnsureNetwork, closeNewNetworks, Starts, StartFails, createJobsNetwork, subnetsExcept, WriteRules,
         CloseLists, CloseWrites, CloseFails, NetworkMoves, still
<1>a. UNCHANGED <<cur, step, asks, box, vol, copy, state, watch, canceled, old, todo, dead, lost, losses, engine, pol>>
  BY <1>0 DEF placeVars, boxVars, jobVars, recVars
<1>b. \A ss \in SUBSET Subnets : ss # None
  BY NetworkAssumption
<1>p. pol \in Policies /\ engine \in Engines /\ rules \in Seq(HostRule)
  BY DEF NetInv, TypeOK
<1>1. CASE Starts \/ StartFails \/ createJobsNetwork \/ subnetsExcept
  <2>1. UNCHANGED rules
    BY <1>1 DEF Starts, StartFails, createJobsNetwork, subnetsExcept
  <2>2. phase \in {"down", "network", "list"}
    BY <1>1 DEF Starts, StartFails, createJobsNetwork, subnetsExcept
  <2>3. TypeOK'
    BY <1>1, <1>a, <2>1 DEF Starts, StartFails, createJobsNetwork, subnetsExcept, TypeOK
  <2>4. NetInv'
    <3>1. CASE Starts \/ StartFails \/ subnetsExcept
      BY <1>a, <2>1, <2>2, <3>1, RulesStay DEF Starts, StartFails, subnetsExcept, NetInv, Prepared
    <3>2. CASE createJobsNetwork
      <4>1. jobsnet' = IF jobsNetworkOptions THEN "isolated" ELSE "open"
        BY <3>2 DEF createJobsNetwork, NetInv
      <4>2. phase' = IF engine.rootless THEN "up" ELSE "list"
        BY <3>2 DEF createJobsNetwork
      <4> QED BY <1>a, <2>1, <4>1, <4>2, RulesStay DEF NetInv, Prepared
    <3> QED BY <1>1, <3>1, <3>2
  <2>5. StandInv'
    <3>1. jobsnet # "none" => jobsnet' # "none"
      BY <1>1 DEF Starts, StartFails, createJobsNetwork, subnetsExcept
    <3> QED BY <1>a, <2>1, <3>1, RulesStay DEF StandInv
  <2> QED BY <2>3, <2>4, <2>5
<1>2. CASE WriteRules
  <2>0. PICK L \in SUBSET Subnets : L = listed
    BY DEF TypeOK
  <2>1. PICK n \in 0..Len(Script(L)) :
          /\ rules' = Written(Script(L), n)
          /\ \/ n = Len(Script(L)) /\ phase' = "up" /\ known' = L
             \/ phase' = "down" /\ UNCHANGED known
    BY <1>2, <2>0 DEF WriteRules
  <2>3. /\ rules' \in Seq(HostRule)
        /\ n = Len(Script(L)) => Stands(L)' /\ \A s \in L : Denied(s)'
        /\ n # Len(Script(L)) /\ detectFirewall = "nftables" => rules' = rules
    BY <1>a, <1>p, <2>1, WriteStands
  <2>4. phase = "write" /\ UNCHANGED <<nets, jobsnet, listed>>
    BY <1>2 DEF WriteRules
  <2>5. TypeOK'
    BY <1>a, <2>1, <2>3, <2>4 DEF TypeOK
  <2>6. detectFirewall' = detectFirewall /\ jobsNetworkOptions' = jobsNetworkOptions
    BY <1>a DEF detectFirewall, jobsNetworkOptions
  <2>7. NetInv'
    BY <1>a, <1>b, <2>1, <2>3, <2>4, <2>6 DEF NetInv, Prepared
  <2>8. StandInv'
    <3>1. CASE n = Len(Script(L))
      BY <1>a, <2>3, <2>4, <2>6, <3>1 DEF StandInv, NetInv
    <3>2. CASE n # Len(Script(L)) /\ detectFirewall = "nftables"
      BY <1>a, <2>3, <2>4, <3>2, RulesStay DEF StandInv
    <3>3. CASE detectFirewall # "nftables"
      BY <2>6, <3>3 DEF StandInv
    <3> QED BY <3>1, <3>2, <3>3
  <2> QED BY <2>5, <2>7, <2>8
<1>3. CASE CloseLists \/ CloseFails \/ NetworkMoves
  <2>1. UNCHANGED <<rules, jobsnet, known>>
    BY <1>3 DEF CloseLists, CloseFails, NetworkMoves
  <2>2. TypeOK'
    BY <1>3, <1>a, <2>1 DEF CloseLists, CloseFails, NetworkMoves, TypeOK
  <2>3. NetInv'
    BY <1>3, <1>a, <2>1, RulesStay DEF CloseLists, CloseFails, NetworkMoves, NetInv, Prepared
  <2>4. StandInv'
    BY <1>a, <2>1, RulesStay DEF StandInv
  <2> QED BY <2>2, <2>3, <2>4
<1>4. CASE CloseWrites
  <2>1. PICK done \in SUBSET (listed \ known) :
          /\ rules' = denySubnets(done)
          /\ \/ done = listed \ known /\ phase' = "closed" /\ known' = known \cup (listed \ known)
             \/ phase' = "refused" /\ UNCHANGED known
    BY <1>4 DEF CloseWrites
  <2>2. listed \in SUBSET Subnets /\ known \in SUBSET Subnets /\ done \in SUBSET Subnets
    BY <1>4 DEF CloseWrites, NetInv, TypeOK
  <2>3. /\ rules' \in Seq(HostRule)
        /\ \A L : Stands(L) => Stands(L)'
        /\ \A s : Denied(s) => Denied(s)'
        /\ \A s \in done : Denied(s)'
    BY <1>a, <1>p, <2>1, <2>2, AppendStands
  <2>4. phase = "append" /\ UNCHANGED <<nets, jobsnet, listed>>
    BY <1>4 DEF CloseWrites
  <2>5. TypeOK'
    BY <1>a, <2>1, <2>2, <2>3, <2>4 DEF TypeOK
  <2>6. detectFirewall' = detectFirewall /\ jobsNetworkOptions' = jobsNetworkOptions
    BY <1>a DEF detectFirewall, jobsNetworkOptions
  <2>7. known' # None /\ known' \subseteq Subnets
    BY <1>b, <2>1, <2>2
  <2>8. NetInv'
    BY <1>a, <2>1, <2>2, <2>3, <2>4, <2>6, <2>7 DEF NetInv, Prepared
  <2>9. StandInv'
    BY <1>a, <2>3, <2>4, <2>6 DEF StandInv
  <2> QED BY <2>5, <2>8, <2>9
<1> QED
  BY <1>1, <1>2, <1>3, <1>4 DEF NetNext, EnsureNetwork, closeNewNetworks

\* The network's steps leave the attempts alone, and no call of a placement is under way meanwhile.
LEMMA StepNetRest == IInv /\ NetNext => StepInv' /\ FreshInv' /\ BoxInv'
<1> SUFFICES ASSUME IInv, NetNext PROVE StepInv' /\ FreshInv' /\ BoxInv'
  OBVIOUS
<1> USE DEF IInv
<1>1. UNCHANGED <<cur, step, asks, box, vol, copy, state, watch>>
  BY DEF NetNext, placeVars, boxVars, jobVars
<1>2. phase = "closed" => phase' = "closed"
  BY DEF NetNext, EnsureNetwork, closeNewNetworks, Starts, StartFails, createJobsNetwork, subnetsExcept, WriteRules,
         CloseLists, CloseWrites, CloseFails, NetworkMoves
<1> QED
  BY <1>1, <1>2 DEF StepInv, FreshInv, BoxInv, Mounted

-----------------------------------------------------------------------------
(* A placement's steps. *)

\* What every call leaves alone.
restVars == <<engine, pol, nets, jobsnet, rules, listed, known, moves, boots, asks, todo, dead, old, canceled>>

LEMMA LoseType == ASSUME TypeOK, Lose PROVE losses' \in Nat /\ losses' > losses
BY DEF Lose, TypeOK

\* A placement that fails is over, and its job failed where it was still active.
LEMMA FailsShape ==
  ASSUME TypeOK, cur \in Attempts, PlaceFails
  PROVE  /\ UNCHANGED restVars /\ UNCHANGED watch
         /\ cur' = None /\ step' = "idle" /\ phase' = "up"
         /\ state' \in [Attempts -> {"pending", "active", "canceled", "settled"}]
         /\ \A x \in Attempts : state'[x] = "pending" => state[x] = "pending"
         /\ lost' \subseteq Attempts /\ losses' \in Nat
<1>1. UNCHANGED restVars /\ UNCHANGED watch /\ cur' = None /\ step' = "idle" /\ phase' = "up"
  BY DEF PlaceFails, PlacingOver, Rest, still, recVars, restVars
<1>2. CASE UNCHANGED state /\ Lose /\ lost' = lost \cup {cur}
  BY <1>1, <1>2, LoseType DEF TypeOK
<1>3. CASE state' = [state EXCEPT ![cur] = IF @ = "active" THEN "settled" ELSE @] /\ UNCHANGED <<lost, losses>>
  <2>1. state' \in [Attempts -> {"pending", "active", "canceled", "settled"}]
    BY <1>3 DEF TypeOK
  <2>2. \A x \in Attempts : state'[x] = "pending" => state[x] = "pending"
    BY <1>3 DEF TypeOK
  <2> QED BY <1>1, <1>3, <2>1, <2>2 DEF TypeOK
<1> QED
  BY <1>1, <1>2, <1>3 DEF PlaceFails

LEMMA GoesOnShape ==
  ASSUME NEW next, GoesOn(next)
  PROVE  UNCHANGED restVars /\ UNCHANGED <<watch, phase, cur, state, lost>> /\ step' = next
BY DEF GoesOn, Rest, still, recVars, restVars

\* What a placement may do to the rest of the state, whichever call it is at.
Over == /\ cur' = None /\ step' = "idle" /\ phase' = "up"
Onward == /\ cur' = cur /\ step' \in Calls /\ phase' = "closed" /\ phase = "closed" /\ state' = state /\ watch' = watch
PlaceStep ==
  /\ cur \in Attempts /\ UNCHANGED restVars
  /\ Over \/ Onward
  /\ state' \in [Attempts -> {"pending", "active", "canceled", "settled"}]
  /\ \A x \in Attempts : state'[x] = "pending" => state[x] = "pending"
  /\ lost' \subseteq Attempts /\ losses' \in Nat
  /\ watch' \in [Attempts -> {"none", "watch", "removing", "done"}]
  /\ \A x \in Attempts : x # cur => box'[x] = box[x] /\ vol'[x] = vol[x] /\ copy'[x] = copy[x] /\ watch'[x] = watch[x]
  /\ box' \in [Attempts -> [st : {"none", "created", "running", "ended"},
                           code : {"none", "completed", "failed", "stopped", "killed"},
                           sees : {"none", "own", "other", "every"}]]
  /\ vol' \in [Attempts -> {"none", "empty", "partial", "whole"}]
  /\ copy' \in [Attempts -> {"none", "created", "running", "ended"}]

LEMMA PlaceStepIsSound ==
  ASSUME IInv, PlaceStep,
         box'[cur].st = "none" => box'[cur] = NoBox,
         box'[cur] # NoBox => vol'[cur] \in {"none", "whole"} /\ copy'[cur] \in {"none", "ended"},
         box'[cur].st = "running" => box'[cur].sees \in {"none", "own"} /\ jobsnet # "none" /\ phase = "closed",
         Onward => /\ box'[cur].st \in {"none", "created"}
                   /\ step' \in {"pull", "volume"} => vol'[cur] = "none" /\ copy'[cur] = "none"
                   /\ step' = "copystart" => copy'[cur] = "created"
                   /\ step' \in {"pull", "volume", "copy", "copystart", "copywait", "create"} => box'[cur] = NoBox
                   /\ step' \in {"create", "confine", "bind", "checkbind", "bare", "start"} =>
                        vol'[cur] \in {"none", "whole"} /\ copy'[cur] \in {"none", "ended"}
                   /\ step' \in {"confine", "checkbind", "start"} => box'[cur].st = "created"
                   /\ step' = "start" => box'[cur].sees \in {"none", "own"}
  PROVE  IInv'
<1> USE DEF IInv
<1>0. UNCHANGED <<engine, pol, nets, jobsnet, rules, listed, known, moves, boots, asks, todo, dead, old, canceled>>
  BY DEF PlaceStep, restVars
<1>1. cur \in Attempts /\ cur # None /\ None \notin Attempts
  BY ContainerAssumption DEF PlaceStep
<1>2. phase' = "up" \/ (phase' = "closed" /\ phase = "closed")
  BY DEF PlaceStep, Over, Onward
<1>3. (cur' = None <=> step' = "idle") /\ step' \notin {"list", "reconcile"} /\ (cur' = cur \/ cur' = None)
  BY <1>1 DEF PlaceStep, Over, Onward, Calls
<1>4. TypeOK'
  <2>1. cur' \in Attempts \cup {None} /\ step' \in Steps
    BY <1>1 DEF PlaceStep, Over, Onward, Calls, Steps
  <2>2. /\ cur' # None => phase' = "closed"
        /\ phase' = "closed" => cur' # None
    BY <1>1 DEF PlaceStep, Over, Onward
  <2>3. /\ box' \in [Attempts -> [st : {"none", "created", "running", "ended"},
                                 code : {"none", "completed", "failed", "stopped", "killed"},
                                 sees : {"none", "own", "other", "every"}]]
        /\ vol' \in [Attempts -> {"none", "empty", "partial", "whole"}]
        /\ copy' \in [Attempts -> {"none", "created", "running", "ended"}]
        /\ state' \in [Attempts -> {"pending", "active", "canceled", "settled"}]
        /\ watch' \in [Attempts -> {"none", "watch", "removing", "done"}]
        /\ lost' \subseteq Attempts /\ losses' \in Nat
    BY DEF PlaceStep
  <2> QED BY <1>0, <1>2, <1>3, <2>1, <2>2, <2>3 DEF TypeOK
<1>5. NetInv'
  <2>1. phase \in Prepared
    BY <1>1 DEF TypeOK, Prepared
  <2> QED BY <1>0, <1>2, <2>1, RulesStay DEF NetInv, Prepared
<1>6. StandInv'
  <2>1. ASSUME detectFirewall = "nftables", ~engine.rootless, NEW x \in Attempts, box'[x].st = "running"
        PROVE  jobsnet # "none" /\ \E L \in SUBSET Subnets : Stands(L)
    <3>1. CASE x # cur
      BY <2>1, <3>1 DEF PlaceStep, StandInv
    <3>2. CASE x = cur
      BY <2>1, <3>2 DEF NetInv, Prepared
    <3> QED BY <3>1, <3>2
  <2> QED BY <1>0, <2>1, RulesStay DEF StandInv
<1>7. FreshInv'
  <2>1. ASSUME NEW x \in Attempts, state'[x] = "pending"
        PROVE  box'[x] = NoBox /\ vol'[x] = "none" /\ copy'[x] = "none" /\ watch'[x] = "none"
    <3>1. state[x] = "pending"
      BY <2>1 DEF PlaceStep
    <3>2. x # cur
      BY <1>1, <3>1 DEF StepInv
    <3> QED BY <3>1, <3>2 DEF PlaceStep, FreshInv
  <2> QED BY <2>1 DEF FreshInv
<1>8. BoxInv'
  <2>1. ASSUME NEW x \in Attempts
        PROVE  /\ box'[x].st = "none" => box'[x] = NoBox
               /\ box'[x] # NoBox => Mounted(x)'
               /\ box'[x].st = "running" => box'[x].sees \in {"none", "own"}
    <3>1. CASE x = cur
      BY <3>1 DEF Mounted
    <3>2. CASE x # cur
      BY <3>2 DEF PlaceStep, BoxInv, Mounted
    <3> QED BY <3>1, <3>2
  <2> QED BY <2>1 DEF BoxInv
<1>9. StepInv'
  <2>1. CASE Over
    BY <2>1 DEF Over, StepInv, Calls
  <2>2. CASE Onward
    <3>1. cur' = cur /\ phase' = "closed" /\ state' = state /\ watch' = watch /\ asks' = asks /\ step' # "close"
      BY <1>0, <2>2 DEF Onward, Calls
    <3>2. asks \in Asked /\ watch[cur] = "none" /\ state[cur] # "pending"
      BY <1>1 DEF StepInv
    <3> QED BY <1>1, <2>2, <3>1, <3>2 DEF StepInv, Mounted
  <2> QED BY <2>1, <2>2 DEF PlaceStep
<1> QED
  BY <1>4, <1>5, <1>6, <1>7, <1>8, <1>9

\* Each call is such a step.
LEMMA StepPlace == IInv /\ Place => IInv'
<1> SUFFICES ASSUME IInv, Place PROVE IInv'
  OBVIOUS
<1>1. cur \in Attempts /\ cur # None
  <2>1. step \notin {"idle", "list", "reconcile"}
    BY DEF Place, PlaceClosed, PullImage, createVolume, CreateCopy, StartCopy, CopyEnded, CreateBox, Confine, BindPart,
           CheckBind, CreateBare, StartBox
  <2> QED BY <2>1 DEF IInv, StepInv, TypeOK
<1>2. TypeOK /\ StepInv /\ BoxInv /\ NetInv
  BY DEF IInv
<1>3. /\ box[cur] \in [st : {"none", "created", "running", "ended"},
                      code : {"none", "completed", "failed", "stopped", "killed"},
                      sees : {"none", "own", "other", "every"}]
      /\ vol[cur] \in {"none", "empty", "partial", "whole"} /\ copy[cur] \in {"none", "created", "running", "ended"}
  BY <1>1, <1>2 DEF TypeOK
<1>4. /\ NoBox.st = "none" /\ NoBox.code = "none" /\ NoBox.sees = "none"
      /\ \A sees : Box("created", "none", sees).st = "created" /\ Box("created", "none", sees).sees = sees
      /\ \A sees \in {"none", "own", "other", "every"} :
           Box("created", "none", sees) \in [st : {"none", "created", "running", "ended"},
                                            code : {"none", "completed", "failed", "stopped", "killed"},
                                            sees : {"none", "own", "other", "every"}]
      /\ NoBox \in [st : {"none", "created", "running", "ended"},
                    code : {"none", "completed", "failed", "stopped", "killed"},
                    sees : {"none", "own", "other", "every"}]
  BY DEF NoBox, Box
\* A call that is over, or goes on, with what it did to the attempt's own containers and volume.
<1>5. ASSUME PlaceFails
      PROVE  /\ UNCHANGED restVars /\ Over /\ watch' = watch /\ ~Onward
             /\ state' \in [Attempts -> {"pending", "active", "canceled", "settled"}]
             /\ \A x \in Attempts : state'[x] = "pending" => state[x] = "pending"
             /\ lost' \subseteq Attempts /\ losses' \in Nat
  BY <1>1, <1>2, <1>5, FailsShape DEF Over, Onward
<1>6. ASSUME NEW next \in Calls, GoesOn(next), phase = "closed"
      PROVE  /\ UNCHANGED restVars /\ Onward /\ step' = next /\ watch' = watch
             /\ state' \in [Attempts -> {"pending", "active", "canceled", "settled"}]
             /\ \A x \in Attempts : state'[x] = "pending" => state[x] = "pending"
             /\ lost' \subseteq Attempts
  BY <1>2, <1>6, GoesOnShape DEF Onward, TypeOK
<1>7. losses \in Nat /\ (Lose => losses' \in Nat) /\ (step \in Calls => phase = "closed")
  BY <1>2, LoseType DEF TypeOK, StepInv
<1>8. /\ box \in [Attempts -> [st : {"none", "created", "running", "ended"},
                              code : {"none", "completed", "failed", "stopped", "killed"},
                              sees : {"none", "own", "other", "every"}]]
      /\ vol \in [Attempts -> {"none", "empty", "partial", "whole"}]
      /\ copy \in [Attempts -> {"none", "created", "running", "ended"}]
      /\ watch \in [Attempts -> {"none", "watch", "removing", "done"}]
  BY <1>2 DEF TypeOK
<1>9. CASE PlaceClosed
  <2>1. box[cur] = NoBox /\ vol[cur] = "none" /\ copy[cur] = "none"
    BY <1>2, <1>9 DEF PlaceClosed, StepInv
  <2>2. UNCHANGED <<box, vol, copy>>
    BY <1>9 DEF PlaceClosed
  <2>3. CASE PlaceFails
    <3>1. PlaceStep
      BY <1>1, <1>5, <1>8, <2>2, <2>3 DEF PlaceStep
    <3> QED BY <1>4, <1>5, <2>1, <2>2, <2>3, <3>1, PlaceStepIsSound
  <2>4. CASE phase = "closed" /\ GoesOn("pull") /\ UNCHANGED losses
    <3>1. PlaceStep /\ step' = "pull"
      BY <1>1, <1>6, <1>7, <1>8, <2>2, <2>4 DEF PlaceStep, Calls
    <3> QED BY <1>4, <2>1, <2>2, <3>1, PlaceStepIsSound
  <2> QED BY <1>9, <2>3, <2>4 DEF PlaceClosed
<1>10. CASE PullImage
  <2>1. box[cur] = NoBox /\ vol[cur] = "none" /\ copy[cur] = "none" /\ phase = "closed"
    BY <1>2, <1>7, <1>10 DEF PullImage, StepInv, Calls
  <2>2. UNCHANGED <<box, vol, copy>>
    BY <1>10 DEF PullImage
  <2>3. CASE PlaceFails
    <3>1. PlaceStep
      BY <1>1, <1>5, <1>8, <2>2, <2>3 DEF PlaceStep
    <3> QED BY <1>4, <1>5, <2>1, <2>2, <2>3, <3>1, PlaceStepIsSound
  <2>4. ASSUME NEW next \in {"volume", "create"}, GoesOn(next), UNCHANGED losses PROVE IInv'
    <3>1. PlaceStep /\ step' = next
      BY <1>1, <1>6, <1>7, <1>8, <2>1, <2>2, <2>4 DEF PlaceStep, Calls
    <3> QED BY <1>4, <2>1, <2>2, <2>4, <3>1, PlaceStepIsSound
  <2> QED BY <1>10, <2>3, <2>4 DEF PullImage
<1>11. CASE createVolume
  <2>1. box[cur] = NoBox /\ vol[cur] = "none" /\ copy[cur] = "none" /\ phase = "closed"
    BY <1>2, <1>7, <1>11 DEF createVolume, StepInv, Calls
  <2>2. UNCHANGED <<box, copy>>
    BY <1>11 DEF createVolume
  <2>3. /\ vol' \in [Attempts -> {"none", "empty", "partial", "whole"}]
        /\ \A x \in Attempts : x # cur => vol'[x] = vol[x]
    BY <1>8, <1>11 DEF createVolume
  <2>4. CASE PlaceFails
    <3>1. PlaceStep
      BY <1>1, <1>5, <1>8, <2>2, <2>3, <2>4 DEF PlaceStep
    <3> QED BY <1>4, <1>5, <2>1, <2>2, <2>4, <3>1, PlaceStepIsSound
  <2>5. CASE GoesOn("copy") /\ UNCHANGED losses
    <3>1. PlaceStep /\ step' = "copy"
      BY <1>1, <1>6, <1>7, <1>8, <2>1, <2>2, <2>3, <2>5 DEF PlaceStep, Calls
    <3> QED BY <1>4, <2>1, <2>2, <3>1, PlaceStepIsSound
  <2> QED BY <1>11, <2>4, <2>5 DEF createVolume
<1>12. CASE CreateCopy
  <2>1. box[cur] = NoBox /\ phase = "closed"
    BY <1>2, <1>7, <1>12 DEF CreateCopy, StepInv, Calls
  <2>2. UNCHANGED box
    BY <1>12 DEF CreateCopy
  <2>3. /\ vol' \in [Attempts -> {"none", "empty", "partial", "whole"}]
        /\ copy' \in [Attempts -> {"none", "created", "running", "ended"}]
        /\ \A x \in Attempts : x # cur => vol'[x] = vol[x] /\ copy'[x] = copy[x]
    BY <1>8, <1>12 DEF CreateCopy
  <2>4. CASE PlaceFails
    <3>1. PlaceStep
      BY <1>1, <1>5, <1>8, <2>2, <2>3, <2>4 DEF PlaceStep
    <3> QED BY <1>4, <1>5, <2>1, <2>2, <2>4, <3>1, PlaceStepIsSound
  <2>5. CASE copy' = [copy EXCEPT ![cur] = "created"] /\ GoesOn("copystart") /\ UNCHANGED <<vol, losses>>
    <3>1. PlaceStep /\ step' = "copystart"
      BY <1>1, <1>6, <1>7, <1>8, <2>1, <2>2, <2>3, <2>5 DEF PlaceStep, Calls
    <3>2. copy'[cur] = "created"
      BY <1>1, <1>8, <2>5
    <3> QED BY <1>4, <2>1, <2>2, <3>1, <3>2, PlaceStepIsSound
  <2> QED BY <1>12, <2>4, <2>5 DEF CreateCopy
<1>13. CASE StartCopy
  <2>1. box[cur] = NoBox /\ phase = "closed"
    BY <1>2, <1>7, <1>13 DEF StartCopy, StepInv, Calls
  <2>2. UNCHANGED <<box, vol>>
    BY <1>13 DEF StartCopy
  <2>3. /\ copy' \in [Attempts -> {"none", "created", "running", "ended"}]
        /\ \A x \in Attempts : x # cur => copy'[x] = copy[x]
    BY <1>8, <1>13 DEF StartCopy
  <2>4. CASE PlaceFails
    <3>1. PlaceStep
      BY <1>1, <1>5, <1>8, <2>2, <2>3, <2>4 DEF PlaceStep
    <3> QED BY <1>4, <1>5, <2>1, <2>2, <2>4, <3>1, PlaceStepIsSound
  <2>5. CASE GoesOn("copywait") /\ UNCHANGED losses
    <3>1. PlaceStep /\ step' = "copywait"
      BY <1>1, <1>6, <1>7, <1>8, <2>1, <2>2, <2>3, <2>5 DEF PlaceStep, Calls
    <3> QED BY <1>4, <2>1, <2>2, <3>1, PlaceStepIsSound
  <2> QED BY <1>13, <2>4, <2>5 DEF StartCopy
<1>14. CASE CopyEnded
  <2>1. box[cur] = NoBox /\ phase = "closed"
    BY <1>2, <1>7, <1>14 DEF CopyEnded, StepInv, Calls
  <2>2. UNCHANGED <<box, vol>>
    BY <1>14 DEF CopyEnded
  <2>3. /\ copy' \in [Attempts -> {"none", "created", "running", "ended"}]
        /\ \A x \in Attempts : x # cur => copy'[x] = copy[x]
        /\ copy'[cur] \in {"none", copy[cur]}
    BY <1>1, <1>8, <1>14 DEF CopyEnded
  <2>4. CASE PlaceFails
    <3>1. PlaceStep
      BY <1>1, <1>5, <1>8, <2>2, <2>3, <2>4 DEF PlaceStep
    <3> QED BY <1>4, <1>5, <2>1, <2>2, <2>4, <3>1, PlaceStepIsSound
  <2>5. CASE CopyIsDone /\ GoesOn("create") /\ losses' \in Nat
    <3>1. PlaceStep /\ step' = "create"
      BY <1>1, <1>6, <1>7, <1>8, <2>1, <2>2, <2>3, <2>5 DEF PlaceStep, Calls
    <3>2. vol'[cur] = "whole" /\ copy'[cur] \in {"none", "ended"}
      BY <2>2, <2>3, <2>5 DEF CopyIsDone
    <3> QED BY <1>4, <2>1, <2>2, <3>1, <3>2, PlaceStepIsSound
  <2>6. PlaceFails \/ (CopyIsDone /\ GoesOn("create") /\ losses' \in Nat)
    BY <1>7, <1>14 DEF CopyEnded
  <2> QED BY <2>4, <2>5, <2>6
\* The container is made, or is there, or the placement is over.
<1>c. ASSUME NEW sees \in {"none", "own", "other", "every"}, NEW next \in {"confine", "checkbind", "start"},
             Creates(sees, next), next = "start" => sees \in {"none", "own"},
             step \in {"create", "bind", "bare"}, UNCHANGED <<vol, copy>>
      PROVE  IInv'
  <2>1. /\ box[cur].st \in {"none", "created"} /\ phase = "closed"
        /\ vol[cur] \in {"none", "whole"} /\ copy[cur] \in {"none", "ended"}
    BY <1>1, <1>2, <1>7, <1>c DEF StepInv, Mounted, Calls
  <2>2. /\ box' \in [Attempts -> [st : {"none", "created", "running", "ended"},
                                 code : {"none", "completed", "failed", "stopped", "killed"},
                                 sees : {"none", "own", "other", "every"}]]
        /\ \A x \in Attempts : x # cur => box'[x] = box[x]
        /\ box'[cur] = box[cur] \/ box'[cur] = Box("created", "none", sees)
    BY <1>1, <1>4, <1>8, <1>c DEF Creates
  <2>3. box[cur].st = "none" => box[cur] = NoBox
    BY <1>1, <1>2 DEF BoxInv
  <2>4. CASE PlaceFails
    <3>1. PlaceStep
      BY <1>1, <1>5, <1>8, <1>c, <2>2, <2>4 DEF PlaceStep
    <3> QED BY <1>4, <1>5, <1>c, <2>1, <2>2, <2>3, <2>4, <3>1, PlaceStepIsSound
  <2>5. CASE GoesOn(next) /\ UNCHANGED losses /\ box' = [box EXCEPT ![cur] = Box("created", "none", sees)]
    <3>1. PlaceStep /\ step' = next
      BY <1>1, <1>6, <1>7, <1>8, <1>c, <2>1, <2>2, <2>5 DEF PlaceStep, Calls
    <3>2. box'[cur].st = "created" /\ box'[cur].sees = sees
      BY <1>1, <1>4, <1>8, <2>5
    <3> QED BY <1>4, <1>c, <2>1, <3>1, <3>2, PlaceStepIsSound
  <2> QED BY <1>c, <2>4, <2>5 DEF Creates
<1>15. CASE CreateBox
  <2>1. asks.cache \in {"none", "dir", "volume"}
    BY <1>1, <1>2, ContainerAssumption DEF StepInv
  <2>2. step = "create" /\ UNCHANGED <<vol, copy>>
    BY <1>15 DEF CreateBox
  <2>3. CASE asks.cache = "none"
    <3>1. Creates("none", "start")
      BY <1>15, <2>3 DEF CreateBox
    <3> QED BY <1>c, <2>2, <3>1
  <2>4. CASE asks.cache = "dir"
    <3>1. Creates("own", "start")
      BY <1>15, <2>4 DEF CreateBox
    <3> QED BY <1>c, <2>2, <3>1
  <2>5. CASE asks.cache = "volume"
    <3>1. Creates(IF engine.subpath THEN "own" ELSE "every", "confine")
      BY <1>15, <2>5 DEF CreateBox
    <3>2. CASE engine.subpath
      BY <1>c, <2>2, <3>1, <3>2
    <3>3. CASE ~engine.subpath
      BY <1>c, <2>2, <3>1, <3>3
    <3> QED BY <3>2, <3>3
  <2> QED BY <2>1, <2>3, <2>4, <2>5
\* A container that was made stays, or goes, and the placement goes on.
<1>m. ASSUME NEW next \in {"bind", "bare", "start"}, GoesOn(next), losses' \in Nat, box[cur].st = "created",
             step \in {"confine", "checkbind"}, UNCHANGED <<vol, copy>>,
             box' = box \/ (box' = [box EXCEPT ![cur] = NoBox] /\ next # "start"),
             next = "start" => box[cur].sees \in {"none", "own"}
      PROVE  IInv'
  <2>1. vol[cur] \in {"none", "whole"} /\ copy[cur] \in {"none", "ended"} /\ phase = "closed"
    BY <1>2, <1>7, <1>m DEF StepInv, Mounted, Calls
  <2>2. /\ box' \in [Attempts -> [st : {"none", "created", "running", "ended"},
                                 code : {"none", "completed", "failed", "stopped", "killed"},
                                 sees : {"none", "own", "other", "every"}]]
        /\ \A x \in Attempts : x # cur => box'[x] = box[x]
        /\ box'[cur] = box[cur] \/ (box'[cur] = NoBox /\ next # "start")
    BY <1>1, <1>4, <1>8, <1>m
  <2>3. PlaceStep /\ step' = next
    BY <1>1, <1>6, <1>8, <1>m, <2>1, <2>2 DEF PlaceStep, Calls
  <2> QED BY <1>4, <1>m, <2>1, <2>2, <2>3, PlaceStepIsSound
<1>16. CASE Confine \/ CheckBind
  <2>1. /\ step \in {"confine", "checkbind"} /\ box[cur].st = "created" /\ UNCHANGED <<vol, copy>>
    BY <1>2, <1>16 DEF Confine, CheckBind, StepInv
  <2>2. \E next \in {"bind", "bare", "start"} :
          /\ GoesOn(next) /\ losses' \in Nat
          /\ box' = box \/ (box' = [box EXCEPT ![cur] = NoBox] /\ next # "start")
          /\ next = "start" => box[cur].sees \in {"none", "own"}
    BY <1>7, <1>16 DEF Confine, CheckBind, Unmade
  <2> QED BY <1>m, <2>1, <2>2
<1>17. CASE BindPart \/ CreateBare
  <2>1. CASE BindPart
    BY <1>c, <2>1 DEF BindPart
  <2>2. CASE CreateBare
    BY <1>c, <2>2 DEF CreateBare
  <2> QED BY <1>17, <2>1, <2>2
<1>18. CASE StartBox
  <2>1. /\ box[cur].st = "created" /\ box[cur].sees \in {"none", "own"} /\ phase = "closed" /\ jobsnet # "none"
        /\ vol[cur] \in {"none", "whole"} /\ copy[cur] \in {"none", "ended"}
    BY <1>2, <1>7, <1>18 DEF StartBox, StepInv, Mounted, Calls, NetInv
  <2>2. UNCHANGED <<vol, copy>>
    BY <1>18 DEF StartBox
  <2>3. CASE PlaceFails /\ box' = [box EXCEPT ![cur] = NoBox]
    <3>1. /\ box' \in [Attempts -> [st : {"none", "created", "running", "ended"},
                                   code : {"none", "completed", "failed", "stopped", "killed"},
                                   sees : {"none", "own", "other", "every"}]]
          /\ \A x \in Attempts : x # cur => box'[x] = box[x]
          /\ box'[cur] = NoBox
      BY <1>1, <1>4, <1>8, <2>3
    <3>2. PlaceStep
      BY <1>1, <1>5, <1>8, <2>2, <2>3, <3>1 DEF PlaceStep
    <3> QED BY <1>4, <1>5, <2>3, <3>1, <3>2, PlaceStepIsSound
  <2>4. CASE /\ PlacingOver /\ UNCHANGED Rest /\ box' \in {box, [box EXCEPT ![cur].st = "running"]}
             /\ watch' \in {watch, [watch EXCEPT ![cur] = "watch"]}
             /\ state' \in {state, [state EXCEPT ![cur] = IF @ = "active" THEN "settled" ELSE @]}
             /\ UNCHANGED lost /\ losses' \in Nat
    <3>1. /\ box' \in [Attempts -> [st : {"none", "created", "running", "ended"},
                                   code : {"none", "completed", "failed", "stopped", "killed"},
                                   sees : {"none", "own", "other", "every"}]]
          /\ \A x \in Attempts : x # cur => box'[x] = box[x]
          /\ box'[cur].st \in {"created", "running"} /\ box'[cur].sees = box[cur].sees
      BY <1>1, <1>3, <1>8, <2>1, <2>4
    <3>2. /\ state' \in [Attempts -> {"pending", "active", "canceled", "settled"}]
          /\ \A x \in Attempts : state'[x] = "pending" => state[x] = "pending"
      <4>1. state \in [Attempts -> {"pending", "active", "canceled", "settled"}]
        BY <1>2 DEF TypeOK
      <4>2. CASE state' = state
        BY <4>1, <4>2
      <4>3. CASE state' = [state EXCEPT ![cur] = IF @ = "active" THEN "settled" ELSE @]
        <5>1. \A x \in Attempts : state'[x] = IF x = cur /\ state[x] = "active" THEN "settled" ELSE state[x]
          BY <1>1, <4>1, <4>3
        <5>2. DOMAIN state' = Attempts /\ state' = [x \in Attempts |-> state'[x]]
          BY <4>1, <4>3
        <5>3. \A x \in Attempts : state'[x] \in {"pending", "active", "canceled", "settled"}
          BY <4>1, <5>1
        <5> QED BY <5>1, <5>2, <5>3
      <4> QED BY <2>4, <4>2, <4>3
    <3>3. /\ watch' \in [Attempts -> {"none", "watch", "removing", "done"}]
          /\ \A x \in Attempts : x # cur => watch'[x] = watch[x]
      BY <1>8, <2>4
    <3>4. Over /\ UNCHANGED restVars /\ ~Onward
      BY <1>1, <2>4 DEF PlacingOver, Over, Onward, Rest, restVars, still, recVars
    <3>5. lost' \subseteq Attempts
      BY <1>2, <2>4 DEF TypeOK
    <3>6. PlaceStep
      BY <1>1, <1>8, <2>2, <2>4, <3>1, <3>2, <3>3, <3>4, <3>5 DEF PlaceStep
    <3> QED BY <2>1, <2>2, <3>1, <3>4, <3>6, PlaceStepIsSound
  <2>5. \/ PlaceFails /\ box' = [box EXCEPT ![cur] = NoBox]
        \/ /\ PlacingOver /\ UNCHANGED Rest /\ box' \in {box, [box EXCEPT ![cur].st = "running"]}
           /\ watch' \in {watch, [watch EXCEPT ![cur] = "watch"]}
           /\ state' \in {state, [state EXCEPT ![cur] = IF @ = "active" THEN "settled" ELSE @]}
           /\ UNCHANGED lost /\ losses' \in Nat
    BY <1>7, <1>18 DEF StartBox
  <2> QED BY <2>3, <2>4, <2>5
<1> QED
  BY <1>9, <1>10, <1>11, <1>12, <1>13, <1>14, <1>15, <1>16, <1>17, <1>18 DEF Place

-----------------------------------------------------------------------------
(* The steps beside a placement. *)

\* Another action touches one attempt; of the one being placed it leaves the container, and ends a copy
\* no later than the wait for it.
BesideStep(x) ==
  /\ x \in Attempts /\ UNCHANGED <<netVars, cur, step, asks>>
  /\ box' \in [Attempts -> [st : {"none", "created", "running", "ended"},
                           code : {"none", "completed", "failed", "stopped", "killed"},
                           sees : {"none", "own", "other", "every"}]]
  /\ vol' \in [Attempts -> {"none", "empty", "partial", "whole"}]
  /\ copy' \in [Attempts -> {"none", "created", "running", "ended"}]
  /\ state' \in [Attempts -> {"pending", "active", "canceled", "settled"}]
  /\ watch' \in [Attempts -> {"none", "watch", "removing", "done"}]
  /\ canceled' \cup old' \cup todo' \cup lost' \subseteq Attempts /\ dead' \subseteq todo' /\ losses' \in Nat
  /\ \A y \in Attempts : y # x => /\ box'[y] = box[y] /\ vol'[y] = vol[y] /\ copy'[y] = copy[y]
                                  /\ state'[y] = state[y] /\ watch'[y] = watch[y]

LEMMA BesideStepIsSound ==
  ASSUME IInv, NEW x \in Attempts, BesideStep(x),
         box'[x].st = "none" => box'[x] = NoBox,
         box'[x] # NoBox => vol'[x] \in {"none", "whole"} /\ copy'[x] \in {"none", "ended"},
         box'[x].st = "running" => box[x].st = "running" /\ box'[x].sees = box[x].sees,
         state'[x] = "pending" => box'[x] = NoBox /\ vol'[x] = "none" /\ copy'[x] = "none" /\ watch'[x] = "none",
         x = cur => /\ box'[x] = box[x] /\ watch'[x] = watch[x] /\ state'[x] # "pending"
                    /\ (vol'[x] = vol[x] /\ copy'[x] = copy[x]) \/ copy[x] = "running"
  PROVE  IInv'
<1> USE DEF IInv
<1>0. UNCHANGED <<engine, pol, nets, jobsnet, rules, phase, listed, known, moves, boots, cur, step, asks>>
  BY DEF BesideStep, netVars, still
<1>1. TypeOK'
  BY <1>0 DEF BesideStep, TypeOK
<1>2. NetInv'
  BY <1>0, RulesStay DEF NetInv, Prepared
<1>3. StandInv'
  <2>1. \A y \in Attempts : box'[y].st = "running" => box[y].st = "running"
    BY DEF BesideStep
  <2> QED BY <1>0, <2>1, RulesStay DEF StandInv
<1>4. FreshInv'
  <2>1. ASSUME NEW y \in Attempts, state'[y] = "pending"
        PROVE  box'[y] = NoBox /\ vol'[y] = "none" /\ copy'[y] = "none" /\ watch'[y] = "none"
    <3>1. CASE y = x
      BY <2>1, <3>1
    <3>2. CASE y # x
      BY <2>1, <3>2 DEF BesideStep, FreshInv
    <3> QED BY <3>1, <3>2
  <2> QED BY <2>1 DEF FreshInv
<1>5. BoxInv'
  <2>1. ASSUME NEW y \in Attempts
        PROVE  /\ box'[y].st = "none" => box'[y] = NoBox
               /\ box'[y] # NoBox => Mounted(y)'
               /\ box'[y].st = "running" => box'[y].sees \in {"none", "own"}
    <3>1. CASE y = x
      BY <3>1 DEF BoxInv, Mounted
    <3>2. CASE y # x
      BY <3>2 DEF BesideStep, BoxInv, Mounted
    <3> QED BY <3>1, <3>2
  <2> QED BY <2>1 DEF BoxInv
<1>6. StepInv'
  <2>1. CASE cur = None
    BY <1>0, <2>1 DEF StepInv, Calls
  <2>2. CASE cur \in Attempts /\ x # cur
    <3>1. box'[cur] = box[cur] /\ vol'[cur] = vol[cur] /\ copy'[cur] = copy[cur] /\ state'[cur] = state[cur] /\ watch'[cur] = watch[cur]
      BY <2>2 DEF BesideStep
    <3> QED BY <1>0, <2>2, <3>1 DEF StepInv, Mounted
  <2>3. CASE x = cur /\ vol'[x] = vol[x] /\ copy'[x] = copy[x]
    BY <1>0, <2>3 DEF StepInv, Mounted
  <2>4. CASE x = cur /\ copy[x] = "running"
    <3>1. step \notin {"close", "pull", "volume", "copystart", "create", "confine", "bind", "checkbind", "bare", "start"}
      BY <2>4 DEF StepInv, Mounted
    <3> QED BY <1>0, <2>4, <3>1 DEF StepInv
  <2> QED BY <2>1, <2>2, <2>3, <2>4 DEF TypeOK
<1> QED
  BY <1>1, <1>2, <1>3, <1>4, <1>5, <1>6

\* What the engine makes of a placement that is stopped or removed, or not: it ends where it ran, or it
\* is gone, with its volume or without.
BoxType == [Attempts -> [st : {"none", "created", "running", "ended"},
                         code : {"none", "completed", "failed", "stopped", "killed"},
                         sees : {"none", "own", "other", "every"}]]
EngineStep(x) ==
  /\ copy' = copy /\ old' \subseteq Attempts
  /\ box' \in BoxType /\ vol' \in [Attempts -> {"none", "empty", "partial", "whole"}]
  /\ \A y \in Attempts : y # x => box'[y] = box[y] /\ vol'[y] = vol[y]
  /\ \/ (box'[x] = box[x] \/ (box[x].st = "running" /\ box'[x].st = "ended")) /\ vol'[x] = vol[x]
     \/ box'[x] = NoBox /\ vol'[x] \in {vol[x], "none"}

LEMMA NoBoxType ==
  /\ NoBox.st = "none" /\ NoBox.code = "none" /\ NoBox.sees = "none"
  /\ NoBox \in [st : {"none", "created", "running", "ended"},
                code : {"none", "completed", "failed", "stopped", "killed"},
                sees : {"none", "own", "other", "every"}]
BY DEF NoBox, Box

LEMMA StoppedShape ==
  ASSUME TypeOK, NEW x \in Attempts, NEW b \in Stopped(x)
  PROVE  /\ b \in BoxType /\ \A y \in Attempts : y # x => b[y] = box[y]
         /\ b[x] = box[x] \/ (box[x].st = "running" /\ b[x].st = "ended")
         /\ b[x].code = box[x].code \/ (box[x].st = "running" /\ b[x].code \in {"stopped", "killed"})
         /\ b[x].sees = box[x].sees
<1>1. box \in BoxType
  BY DEF TypeOK, BoxType
<1>2. CASE box[x].st # "running"
  <2>1. b = box
    BY <1>2 DEF Stopped
  <2> QED BY <1>1, <2>1
<1>3. CASE box[x].st = "running"
  <2>1. PICK k \in {"stopped", "killed"} : b = [box EXCEPT ![x].st = "ended", ![x].code = k]
    BY <1>3 DEF Stopped
  <2> QED BY <1>1, <1>3, <2>1 DEF BoxType
<1> QED
  BY <1>2, <1>3

LEMMA DeletedShape ==
  ASSUME TypeOK, NEW x \in Attempts, Deleted(x), copy' = copy
  PROVE  EngineStep(x) /\ box'[x] = NoBox
<1>1. box \in BoxType /\ vol \in [Attempts -> {"none", "empty", "partial", "whole"}] /\ old \subseteq Attempts
  BY DEF TypeOK, BoxType
<1>2. box' \in BoxType /\ box'[x] = NoBox /\ \A y \in Attempts : y # x => box'[y] = box[y]
  BY <1>1, NoBoxType DEF Deleted, BoxType
<1>3. vol' = vol \/ vol' = [vol EXCEPT ![x] = "none"]
  BY DEF Deleted
<1>4. /\ vol' \in [Attempts -> {"none", "empty", "partial", "whole"}]
      /\ vol'[x] \in {vol[x], "none"} /\ \A y \in Attempts : y # x => vol'[y] = vol[y]
  BY <1>1, <1>3
<1>5. old' \subseteq Attempts
  BY <1>1 DEF Deleted
<1> QED
  BY <1>2, <1>4, <1>5 DEF EngineStep

\* A removal that does not go as far.
LEMMA PartlyShape ==
  ASSUME TypeOK, NEW x \in Attempts, copy' = copy, vol' = vol, old' \in {old, old \ {x}},
         box' = [box EXCEPT ![x] = NoBox] \/ (\E b \in Stopped(x) : box' = b)
  PROVE  EngineStep(x)
<1>1. box \in BoxType /\ vol \in [Attempts -> {"none", "empty", "partial", "whole"}] /\ old' \subseteq Attempts
  BY DEF TypeOK, BoxType
<1>2. CASE box' = [box EXCEPT ![x] = NoBox]
  <2>1. box' \in BoxType /\ box'[x] = NoBox /\ \A y \in Attempts : y # x => box'[y] = box[y]
    BY <1>1, <1>2, NoBoxType DEF BoxType
  <2> QED BY <1>1, <2>1 DEF EngineStep
<1>3. CASE \E b \in Stopped(x) : box' = b
  BY <1>1, <1>3, StoppedShape DEF EngineStep
<1> QED
  BY <1>2, <1>3

LEMMA StillShape == ASSUME TypeOK, NEW x \in Attempts, UNCHANGED boxVars PROVE EngineStep(x)
BY DEF TypeOK, boxVars, EngineStep, BoxType

LEMMA RemovalShape ==
  ASSUME TypeOK, NEW x \in Attempts,
         StopAndRemove(x) \/ RemovalFails(x) \/ RemovePlacement(x)
  PROVE  EngineStep(x)
<1>1. CASE StopAndRemove(x)
  <2>1. PICK b \in Stopped(x) : (box' = b /\ UNCHANGED <<vol, copy, old>>) \/ (Deleted(x) /\ UNCHANGED copy)
    BY <1>1 DEF StopAndRemove
  <2> QED BY <2>1, DeletedShape, PartlyShape
<1>2. CASE RemovalFails(x)
  <2>1. copy' = copy
    BY <1>2 DEF RemovalFails
  <2>2. \/ Deleted(x)
        \/ (\E b \in Stopped(x) : box' = b) /\ vol' = vol /\ old' = old
        \/ box' = [box EXCEPT ![x] = NoBox] /\ old' = old \ {x} /\ vol' = vol
    BY <1>2 DEF RemovalFails
  <2> QED BY <2>1, <2>2, DeletedShape, PartlyShape
<1>3. CASE RemovePlacement(x)
  <2>1. \/ UNCHANGED boxVars
        \/ Deleted(x) /\ copy' = copy
        \/ box' = [box EXCEPT ![x] = NoBox] /\ old' = old \ {x} /\ vol' = vol /\ copy' = copy
    BY <1>3 DEF RemovePlacement
  <2> QED BY <2>1, StillShape, DeletedShape, PartlyShape
<1> QED
  BY <1>1, <1>2, <1>3

\* Such a step on another attempt than the one being placed, with what the launcher makes of it.
LEMMA EngineStepIsSound ==
  ASSUME IInv, NEW x \in Attempts, x # cur, EngineStep(x), UNCHANGED <<netVars, cur, step, asks>>,
         state' \in [Attempts -> {"pending", "active", "canceled", "settled"}],
         watch' \in [Attempts -> {"none", "watch", "removing", "done"}],
         canceled' \cup todo' \cup lost' \subseteq Attempts, dead' \subseteq todo', losses' \in Nat,
         \A y \in Attempts : y # x => state'[y] = state[y] /\ watch'[y] = watch[y],
         state'[x] = "pending" => state[x] = "pending" /\ watch'[x] = watch[x]
  PROVE  IInv'
<1>1. TypeOK /\ FreshInv /\ BoxInv
  BY DEF IInv
<1>2. BesideStep(x)
  <2>1. copy' \in [Attempts -> {"none", "created", "running", "ended"}] /\ \A y \in Attempts : copy'[y] = copy[y]
    BY <1>1 DEF EngineStep, TypeOK
  <2> QED BY <2>1 DEF EngineStep, BoxType, BesideStep
<1>3. box'[x].st = "none" => box'[x] = NoBox
  BY <1>1, NoBoxType DEF EngineStep, BoxInv
<1>4. box'[x] # NoBox => vol'[x] \in {"none", "whole"} /\ copy'[x] \in {"none", "ended"}
  <2>1. ASSUME box'[x] # NoBox PROVE box[x] # NoBox /\ vol'[x] = vol[x] /\ copy'[x] = copy[x]
    BY <2>1, NoBoxType DEF EngineStep
  <2> QED BY <1>1, <2>1 DEF BoxInv, Mounted
<1>5. box'[x].st = "running" => box[x].st = "running" /\ box'[x].sees = box[x].sees
  BY NoBoxType DEF EngineStep
<1>6. ASSUME state'[x] = "pending"
      PROVE  box'[x] = NoBox /\ vol'[x] = "none" /\ copy'[x] = "none" /\ watch'[x] = "none"
  <2>1. box[x] = NoBox /\ vol[x] = "none" /\ copy[x] = "none" /\ watch[x] = "none" /\ watch'[x] = watch[x]
    BY <1>1, <1>6 DEF FreshInv
  <2> QED BY <2>1, NoBoxType DEF EngineStep
<1> QED
  BY <1>2, <1>3, <1>4, <1>5, <1>6, BesideStepIsSound

\* The API's status of an attempt that is settled, where it was still active.
LEMMA Settles ==
  ASSUME TypeOK, NEW x \in Attempts,
         state' = state \/ state' = [state EXCEPT ![x] = IF @ = "active" THEN "settled" ELSE @]
  PROVE  /\ state' \in [Attempts -> {"pending", "active", "canceled", "settled"}]
         /\ \A y \in Attempts : y # x => state'[y] = state[y]
         /\ state'[x] = "pending" => state[x] = "pending"
<1>1. state \in [Attempts -> {"pending", "active", "canceled", "settled"}]
  BY DEF TypeOK
<1>2. CASE state' = state
  BY <1>1, <1>2
<1>3. CASE state' = [state EXCEPT ![x] = IF @ = "active" THEN "settled" ELSE @]
  <2>1. \A y \in Attempts : state'[y] = IF y = x /\ state[y] = "active" THEN "settled" ELSE state[y]
    BY <1>1, <1>3
  <2>2. DOMAIN state' = Attempts /\ state' = [y \in Attempts |-> state'[y]]
    BY <1>1, <1>3
  <2>3. \A y \in Attempts : state'[y] \in {"pending", "active", "canceled", "settled"}
    BY <1>1, <2>1
  <2> QED BY <2>1, <2>2, <2>3
<1> QED
  BY <1>2, <1>3

LEMMA Watches ==
  ASSUME TypeOK, NEW x \in Attempts, NEW w \in {"none", "watch", "removing", "done"},
         watch' = [watch EXCEPT ![x] = w]
  PROVE  /\ watch' \in [Attempts -> {"none", "watch", "removing", "done"}]
         /\ watch'[x] = w /\ \A y \in Attempts : y # x => watch'[y] = watch[y]
BY DEF TypeOK

LEMMA StepWatcher ==
  ASSUME IInv, NEW x \in Attempts, WatchStops(x) \/ WatchEnds(x) \/ WatchRemoves(x) \/ Reap(x) \/ Reconcile(x)
  PROVE  IInv'
<1>0. /\ TypeOK /\ StepInv /\ FreshInv
      /\ watch \in [Attempts -> {"none", "watch", "removing", "done"}]
      /\ state \in [Attempts -> {"pending", "active", "canceled", "settled"}]
      /\ canceled \subseteq Attempts /\ todo \subseteq Attempts /\ lost \subseteq Attempts /\ dead \subseteq todo /\ losses \in Nat
  BY DEF IInv, TypeOK
<1>1. Lose => losses' \in Nat
  BY <1>0, LoseType
<1>2. watch[x] # "none" => x # cur /\ state[x] # "pending"
  BY <1>0, ContainerAssumption DEF StepInv, FreshInv
<1>3. CASE WatchStops(x)
  <2>1. x # cur /\ state[x] # "pending"
    BY <1>2, <1>3 DEF WatchStops
  <2>2. EngineStep(x)
    BY <1>0, <1>3, PartlyShape DEF WatchStops
  <2>3. UNCHANGED <<netVars, cur, step, asks, todo, dead, state, watch, lost, losses>>
    BY <1>3 DEF WatchStops, beside, placeVars, recVars
  <2>4. canceled' \subseteq Attempts
    BY <1>0, <1>3 DEF WatchStops
  <2> QED BY <1>0, <2>1, <2>2, <2>3, <2>4, EngineStepIsSound
<1>4. CASE WatchEnds(x)
  <2>1. x # cur /\ state[x] # "pending"
    BY <1>2, <1>4 DEF WatchEnds
  <2>2. EngineStep(x)
    BY <1>0, <1>4, StillShape DEF WatchEnds
  <2>3. UNCHANGED <<netVars, cur, step, asks, todo, dead>>
    BY <1>4 DEF WatchEnds, beside, placeVars, recVars
  <2>4. state' = state \/ state' = [state EXCEPT ![x] = IF @ = "active" THEN "settled" ELSE @]
    BY <1>4 DEF WatchEnds
  <2>5. canceled' \subseteq Attempts /\ lost' \subseteq Attempts /\ losses' \in Nat
    BY <1>0, <1>1, <1>4 DEF WatchEnds
  <2>6. watch' = [watch EXCEPT ![x] = "removing"]
    BY <1>4 DEF WatchEnds
  <2>7. /\ watch' \in [Attempts -> {"none", "watch", "removing", "done"}]
        /\ \A y \in Attempts : y # x => watch'[y] = watch[y]
    BY <1>0, <2>6, Watches
  <2>8. /\ state' \in [Attempts -> {"pending", "active", "canceled", "settled"}]
        /\ \A y \in Attempts : y # x => state'[y] = state[y]
        /\ state'[x] # "pending"
    BY <1>0, <2>1, <2>4, Settles
  <2> QED BY <1>0, <2>1, <2>2, <2>3, <2>5, <2>7, <2>8, EngineStepIsSound
<1>5. CASE WatchRemoves(x)
  <2>1. x # cur /\ state[x] # "pending"
    BY <1>2, <1>5 DEF WatchRemoves
  <2>2. EngineStep(x)
    BY <1>0, <1>5, RemovalShape DEF WatchRemoves
  <2>3. UNCHANGED <<netVars, cur, step, asks, todo, dead, state, canceled, lost>> /\ losses' \in Nat
    BY <1>0, <1>1, <1>5 DEF WatchRemoves, RemovePlacement, beside, placeVars, recVars
  <2>4. watch' = [watch EXCEPT ![x] = "done"]
    BY <1>5 DEF WatchRemoves
  <2>5. /\ watch' \in [Attempts -> {"none", "watch", "removing", "done"}]
        /\ \A y \in Attempts : y # x => watch'[y] = watch[y]
    BY <1>0, <2>4, Watches
  <2> QED BY <1>0, <2>1, <2>2, <2>3, <2>5, EngineStepIsSound
<1>6. CASE Reap(x)
  <2>1. x # cur
    BY <1>0, <1>6, ContainerAssumption DEF Reap, ReapsIt, StepInv
  <2>2. EngineStep(x)
    BY <1>0, <1>6, DeletedShape DEF Reap
  <2>3. UNCHANGED <<netVars, cur, step, asks, todo, dead, state, watch, canceled, lost, losses>>
    BY <1>6 DEF Reap, beside, placeVars, recVars, jobVars
  <2> QED BY <1>0, <2>1, <2>2, <2>3, EngineStepIsSound
<1>7. CASE Reconcile(x)
  <2>1. x # cur
    BY <1>0, <1>7, ContainerAssumption DEF Reconcile, TypeOK
  <2>2. UNCHANGED <<netVars, cur, step, asks, canceled>> /\ todo' \subseteq Attempts /\ dead' \subseteq todo'
    BY <1>0, <1>7 DEF Reconcile, placeVars
  <2>3. CASE /\ state[x] = "active" /\ watch' = [watch EXCEPT ![x] = "watch"]
             /\ UNCHANGED <<boxVars, state, lost, losses>>
    <3>1. EngineStep(x)
      BY <1>0, <2>3, StillShape
    <3>2. /\ watch' \in [Attempts -> {"none", "watch", "removing", "done"}]
          /\ \A y \in Attempts : y # x => watch'[y] = watch[y]
      BY <1>0, <2>3, Watches
    <3> QED BY <1>0, <2>1, <2>2, <2>3, <3>1, <3>2, EngineStepIsSound
  <2>4. CASE /\ StopAndRemove(x) \/ RemovalFails(x)
             /\ state' = state \/ state' = [state EXCEPT ![x] = IF @ = "active" THEN "settled" ELSE @]
             /\ watch' = watch /\ lost' \subseteq Attempts /\ losses' \in Nat
    <3>1. EngineStep(x)
      BY <1>0, <2>4, RemovalShape
    <3>2. /\ state' \in [Attempts -> {"pending", "active", "canceled", "settled"}]
          /\ \A y \in Attempts : y # x => state'[y] = state[y]
          /\ state'[x] = "pending" => state[x] = "pending"
      BY <1>0, <2>4, Settles
    <3> QED BY <1>0, <2>1, <2>2, <2>4, <3>1, <3>2, EngineStepIsSound
  <2>5. \/ /\ state[x] = "active" /\ watch' = [watch EXCEPT ![x] = "watch"]
           /\ UNCHANGED <<boxVars, state, lost, losses>>
        \/ /\ state' = [state EXCEPT ![x] = IF @ = "active" THEN "settled" ELSE @]
           /\ (StopAndRemove(x) /\ UNCHANGED losses) \/ RemovalFails(x)
           /\ watch' = watch /\ lost' = lost
        \/ Lose /\ lost' = lost \cup {x} /\ StopAndRemove(x) /\ state' = state /\ watch' = watch
    BY <1>7 DEF Reconcile
  <2>6. RemovalFails(x) => Lose
    BY DEF RemovalFails
  <2>7. CASE /\ state' = [state EXCEPT ![x] = IF @ = "active" THEN "settled" ELSE @]
             /\ (StopAndRemove(x) /\ UNCHANGED losses) \/ RemovalFails(x)
             /\ watch' = watch /\ lost' = lost
    BY <1>0, <1>1, <2>4, <2>6, <2>7
  <2>8. CASE Lose /\ lost' = lost \cup {x} /\ StopAndRemove(x) /\ state' = state /\ watch' = watch
    BY <1>0, <1>1, <2>4, <2>8
  <2> QED BY <2>3, <2>5, <2>7, <2>8
<1> QED
  BY <1>3, <1>4, <1>5, <1>6, <1>7

\* The job and the API beside it.
LEMMA StepJob ==
  ASSUME IInv, NEW x \in Attempts, CopyEnds(x) \/ ExecutorEnds(x) \/ Cancel(x) \/ Ages(x) \/ NextAttempt(x)
  PROVE  IInv'
<1>0. /\ TypeOK /\ StepInv /\ FreshInv /\ BoxInv
      /\ box \in BoxType /\ vol \in [Attempts -> {"none", "empty", "partial", "whole"}]
      /\ copy \in [Attempts -> {"none", "created", "running", "ended"}]
      /\ watch \in [Attempts -> {"none", "watch", "removing", "done"}]
      /\ state \in [Attempts -> {"pending", "active", "canceled", "settled"}]
      /\ canceled \subseteq Attempts /\ old \subseteq Attempts /\ todo \subseteq Attempts /\ lost \subseteq Attempts
      /\ dead \subseteq todo /\ losses \in Nat
  BY DEF IInv, TypeOK, BoxType
<1>1. CASE CopyEnds(x)
  <2>1. /\ UNCHANGED <<netVars, cur, step, asks, box, old, state, watch, canceled, lost, losses, todo, dead>>
        /\ copy[x] = "running" /\ copy' = [copy EXCEPT ![x] = "ended"]
        /\ \E v \in {"partial", "whole"} : vol' = [vol EXCEPT ![x] = v]
    BY <1>1 DEF CopyEnds, placeVars, jobVars, recVars
  <2>2. /\ copy' \in [Attempts -> {"none", "created", "running", "ended"}]
        /\ vol' \in [Attempts -> {"none", "empty", "partial", "whole"}]
        /\ \A y \in Attempts : y # x => copy'[y] = copy[y] /\ vol'[y] = vol[y]
    BY <1>0, <2>1
  <2>3. BesideStep(x)
    BY <1>0, <2>1, <2>2 DEF BesideStep, BoxType
  <2>4. box[x] = NoBox /\ state[x] # "pending"
    BY <1>0, <2>1 DEF BoxInv, Mounted, FreshInv
  <2> QED BY <1>0, <2>1, <2>3, <2>4, NoBoxType, BesideStepIsSound
<1>2. CASE ExecutorEnds(x)
  <2>1. box[x].st = "running"
    BY <1>2 DEF ExecutorEnds
  <2>2. x # cur /\ state[x] # "pending"
    BY <1>0, <2>1, NoBoxType, ContainerAssumption DEF StepInv, FreshInv
  <2>3. \E k \in {"completed", "failed", "killed"} : box' = [box EXCEPT ![x].st = "ended", ![x].code = k]
    BY <1>2 DEF ExecutorEnds
  <2>4. state' = state \/ state' = [state EXCEPT ![x] = IF @ = "active" THEN "settled" ELSE @]
    BY <1>2 DEF ExecutorEnds
  <2>5. UNCHANGED <<netVars, cur, step, asks, vol, copy, old, watch, canceled, lost, losses, todo, dead>>
    BY <1>2 DEF ExecutorEnds, placeVars, recVars
  <2>6. EngineStep(x)
    <3>1. PICK k \in {"completed", "failed", "killed"} : box' = [box EXCEPT ![x].st = "ended", ![x].code = k]
      BY <2>3
    <3>2. /\ box' \in BoxType /\ box'[x].st = "ended"
          /\ \A y \in Attempts : y # x => box'[y] = box[y]
      <4>1. box[x] \in [st : {"none", "created", "running", "ended"},
                        code : {"none", "completed", "failed", "stopped", "killed"},
                        sees : {"none", "own", "other", "every"}]
        BY <1>0 DEF BoxType
      <4> DEFINE new == [[box[x] EXCEPT !.st = "ended"] EXCEPT !.code = k]
      <4>2. /\ new.st = "ended"
            /\ new \in [st : {"none", "created", "running", "ended"},
                       code : {"none", "completed", "failed", "stopped", "killed"},
                       sees : {"none", "own", "other", "every"}]
        BY <4>1
      <4>3. box' = [box EXCEPT ![x] = new]
        BY <1>0, <3>1 DEF BoxType
      <4> HIDE DEF new
      <4> QED BY <1>0, <4>2, <4>3 DEF BoxType
    <3> QED BY <1>0, <2>1, <2>5, <3>2 DEF EngineStep
  <2>7. /\ state' \in [Attempts -> {"pending", "active", "canceled", "settled"}]
        /\ \A y \in Attempts : y # x => state'[y] = state[y]
        /\ state'[x] = "pending" => state[x] = "pending"
    BY <1>0, <2>4, Settles
  <2> QED BY <1>0, <2>2, <2>5, <2>6, <2>7, EngineStepIsSound
<1>3. CASE Cancel(x)
  <2>1. /\ UNCHANGED <<netVars, cur, step, asks, box, vol, copy, old, watch, canceled, lost, losses, todo, dead>>
        /\ state' = [state EXCEPT ![x] = "canceled"]
    BY <1>3 DEF Cancel, placeVars, boxVars, recVars
  <2>2. /\ state' \in [Attempts -> {"pending", "active", "canceled", "settled"}]
        /\ state'[x] = "canceled" /\ \A y \in Attempts : y # x => state'[y] = state[y]
    BY <1>0, <2>1
  <2>3. BesideStep(x)
    BY <1>0, <2>1, <2>2 DEF BesideStep, BoxType
  <2> QED BY <1>0, <2>1, <2>2, <2>3, BesideStepIsSound DEF BoxInv, Mounted
<1>4. CASE Ages(x)
  <2>1. /\ UNCHANGED <<netVars, cur, step, asks, box, vol, copy, state, watch, canceled, lost, losses, todo, dead>>
        /\ old' = old \cup {x} /\ box[x].st = "ended"
    BY <1>4 DEF Ages, placeVars, jobVars, recVars
  <2>2. x # cur
    BY <1>0, <2>1, ContainerAssumption DEF StepInv
  <2>3. EngineStep(x)
    BY <1>0, <2>1 DEF EngineStep
  <2> QED BY <1>0, <2>1, <2>2, <2>3, EngineStepIsSound
<1>5. CASE NextAttempt(x)
  <2>1. /\ UNCHANGED <<netVars, cur, step, asks, box, vol, copy, old, losses, todo, dead>>
        /\ x # cur /\ box[x] = NoBox /\ vol[x] = "none" /\ copy[x] = "none"
        /\ state' = [state EXCEPT ![x] = "pending"] /\ watch' = [watch EXCEPT ![x] = "none"]
        /\ lost' = lost \ {x} /\ canceled' = canceled \ {x}
    BY <1>5 DEF NextAttempt, placeVars, boxVars, recVars
  <2>2. /\ state' \in [Attempts -> {"pending", "active", "canceled", "settled"}]
        /\ \A y \in Attempts : y # x => state'[y] = state[y]
    BY <1>0, <2>1
  <2>3. /\ watch' \in [Attempts -> {"none", "watch", "removing", "done"}]
        /\ watch'[x] = "none" /\ \A y \in Attempts : y # x => watch'[y] = watch[y]
    BY <1>0, <2>1, Watches
  <2>4. BesideStep(x)
    BY <1>0, <2>1, <2>2, <2>3 DEF BesideStep, BoxType
  <2> QED BY <2>1, <2>3, <2>4, NoBoxType, BesideStepIsSound
<1> QED
  BY <1>1, <1>2, <1>3, <1>4, <1>5

\* The launcher claims a job, stops, and comes back.
LEMMA StepLauncher ==
  ASSUME IInv, (\E x \in Attempts : Claim(x)) \/ Crash \/ ListBoxes \/ Reconciled
  PROVE  IInv'
<1>0. /\ TypeOK /\ NetInv /\ StandInv /\ StepInv /\ FreshInv /\ BoxInv
      /\ None \notin Attempts
  BY ContainerAssumption DEF IInv
<1>1. CASE \E x \in Attempts : Claim(x)
  <2>1. PICK x \in Attempts : Claim(x)
    BY <1>1
  <2>2. /\ phase = "up" /\ phase' = "close" /\ state[x] = "pending" /\ state' = [state EXCEPT ![x] = "active"]
        /\ cur' = x /\ step' = "close" /\ asks' \in Asked
        /\ UNCHANGED <<engine, pol, nets, jobsnet, rules, listed, known, moves, boots, box, vol, copy, old,
                       watch, canceled, lost, losses, todo, dead>>
    BY <2>1 DEF Claim, still, boxVars, recVars
  <2>3. /\ state' \in [Attempts -> {"pending", "active", "canceled", "settled"}]
        /\ state'[x] = "active" /\ \A y \in Attempts : y # x => state'[y] = state[y]
    BY <1>0, <2>2 DEF TypeOK
  <2>4. box[x] = NoBox /\ box[x].st = "none" /\ vol[x] = "none" /\ copy[x] = "none" /\ watch[x] = "none"
    BY <1>0, <2>2, NoBoxType DEF FreshInv
  <2>5. TypeOK'
    BY <1>0, <2>2, <2>3 DEF TypeOK, Steps
  <2>6. NetInv' /\ StandInv'
    <3>1. NetInv'
      BY <1>0, <2>2, RulesStay DEF NetInv, Prepared
    <3>2. StandInv'
      BY <1>0, <2>2, RulesStay DEF StandInv
    <3> QED BY <3>1, <3>2
  <2>7. StepInv'
    BY <1>0, <2>2, <2>3, <2>4 DEF StepInv, Calls
  <2>8. FreshInv'
    BY <1>0, <2>2, <2>3 DEF FreshInv
  <2>9. BoxInv'
    BY <1>0, <2>2 DEF BoxInv, Mounted
  <2> QED BY <2>5, <2>6, <2>7, <2>8, <2>9 DEF IInv
<1>2. CASE Crash
  <2>1. /\ phase' = "down" /\ cur' = None /\ step' = "list" /\ todo' = {} /\ dead' = {} /\ canceled' = {}
        /\ watch' = [x \in Attempts |-> IF watch[x] = "done" THEN "done" ELSE "none"]
        /\ UNCHANGED <<engine, pol, nets, jobsnet, rules, listed, known, moves, boots, asks, box, vol, copy, old,
                       state, lost, losses>>
    BY <1>2 DEF Crash, still, boxVars
  <2>2. watch' \in [Attempts -> {"none", "watch", "removing", "done"}] /\ \A x \in Attempts : watch[x] = "none" => watch'[x] = "none"
    BY <2>1
  <2>3. TypeOK'
    BY <1>0, <2>1, <2>2 DEF TypeOK, Steps
  <2>4. NetInv'
    BY <1>0, <2>1, RulesStay DEF NetInv, Prepared
  <2>5. StandInv'
    BY <1>0, <2>1, RulesStay DEF StandInv
  <2>6. StepInv' /\ FreshInv' /\ BoxInv'
    BY <1>0, <2>1, <2>2 DEF StepInv, FreshInv, BoxInv, Mounted, Calls
  <2> QED BY <2>3, <2>4, <2>5, <2>6 DEF IInv
<1>3. CASE ListBoxes \/ Reconciled
  <2>1. /\ step \in {"list", "reconcile"} /\ step' \in {"idle", "reconcile"}
        /\ UNCHANGED <<engine, pol, nets, jobsnet, rules, phase, listed, known, moves, boots, cur, asks, box, vol, copy, old,
                       state, watch, canceled>>
    BY <1>3 DEF ListBoxes, Reconciled, netVars, still, boxVars, jobVars
  <2>2. todo' \subseteq Attempts /\ dead' \subseteq todo' /\ lost' \subseteq Attempts /\ losses' \in Nat
    <3>1. \A x \in Attempts : box[x].st = "ended" => box[x] # NoBox
      BY NoBoxType
    <3>2. Lose => losses' \in Nat
      BY <1>0, LoseType
    <3> QED BY <1>0, <1>3, <3>1, <3>2 DEF ListBoxes, Reconciled, jobVars, recVars, TypeOK
  <2>3. cur = None
    BY <1>0, <2>1 DEF TypeOK
  <2>4. TypeOK'
    BY <1>0, <2>1, <2>2, <2>3 DEF TypeOK, Steps
  <2>5. NetInv'
    BY <1>0, <2>1, RulesStay DEF NetInv, Prepared
  <2>6. StandInv'
    BY <1>0, <2>1, RulesStay DEF StandInv
  <2>7. StepInv' /\ FreshInv' /\ BoxInv'
    BY <1>0, <2>1, <2>3 DEF StepInv, FreshInv, BoxInv, Mounted, Calls
  <2> QED BY <2>4, <2>5, <2>6, <2>7 DEF IInv
<1> QED
  BY <1>1, <1>2, <1>3

LEMMA StepContainer == IInv /\ [Next]_vars => IInv'
<1> SUFFICES ASSUME IInv, [Next]_vars PROVE IInv'
  OBVIOUS
<1>1. CASE NetNext
  BY <1>1, StepNet, StepNetRest DEF IInv
<1>2. CASE Place
  BY <1>2, StepPlace
<1>3. CASE Crash \/ ListBoxes \/ Reconciled \/ \E x \in Attempts : Claim(x)
  BY <1>3, StepLauncher
<1>4. ASSUME NEW x \in Attempts, CopyEnds(x) \/ ExecutorEnds(x) \/ Cancel(x) \/ Ages(x) \/ NextAttempt(x)
      PROVE  IInv'
  BY <1>4, StepJob
<1>5. ASSUME NEW x \in Attempts, WatchStops(x) \/ WatchEnds(x) \/ WatchRemoves(x) \/ Reap(x) \/ Reconcile(x)
      PROVE  IInv'
  BY <1>5, StepWatcher
<1>6. CASE UNCHANGED vars
  <2>1. UNCHANGED <<engine, pol, nets, jobsnet, rules, phase, listed, known, moves, boots, cur, step, asks, box, vol, copy, old,
                    state, watch, canceled, lost, losses, todo, dead>>
    BY <1>6 DEF vars, netVars, still, placeVars, boxVars, jobVars, recVars
  <2>2. TypeOK'
    BY <2>1 DEF IInv, TypeOK
  <2>3. NetInv'
    BY <2>1, RulesStay DEF IInv, NetInv, Prepared
  <2>4. StandInv'
    BY <2>1, RulesStay DEF IInv, StandInv
  <2>5. StepInv' /\ FreshInv' /\ BoxInv'
    BY <2>1 DEF IInv, StepInv, FreshInv, BoxInv, Mounted
  <2> QED BY <2>2, <2>3, <2>4, <2>5 DEF IInv
<1> QED
  BY <1>1, <1>2, <1>3, <1>4, <1>5, <1>6 DEF Next

THEOREM ContainerInvariant == Spec => []IInv
<1>1. Init => IInv
  BY InitContainer
<1>2. IInv /\ [Next]_vars => IInv'
  BY StepContainer
<1> QED
  BY <1>1, <1>2, PTL DEF Spec

-----------------------------------------------------------------------------
(* The properties. *)

\* The container driver's state stays within its type.
THEOREM TypeCorrect == Spec => []TypeOK
<1>1. IInv => TypeOK
  BY DEF IInv
<1> QED
  BY <1>1, ContainerInvariant, PTL

\* A placement that closed the new networks starts its job behind the policy: whatever the engine, the
\* policy, the networks that came and went, and the writers that failed on the way.
THEOREM PolicyCorrect == Spec => []PlacedIsThePolicy
<1>1. IInv => PlacedIsThePolicy
  <2> SUFFICES ASSUME IInv, phase = "closed", ~engine.rootless, NEW c \in Connections(listed)
               PROVE  Reaches(c) <=> Policy(c)
    BY DEF PlacedIsThePolicy
  <2>1. /\ rules \in Seq(HostRule) /\ engine \in Engines /\ pol \in Policies
        /\ jobsnet = IF jobsNetworkOptions THEN "isolated" ELSE "open"
        /\ listed \in SUBSET Subnets /\ listed \subseteq known /\ \A s \in known : Denied(s)
    BY DEF IInv, TypeOK, NetInv, Prepared
  <2>2. PICK L \in SUBSET Subnets : Stands(L)
    BY DEF IInv, NetInv, Prepared
  <2>3. \A s \in listed : Denied(s)
    BY <2>1
  <2> QED BY <2>1, <2>2, <2>3, PolicyHolds
<1> QED
  BY <1>1, ContainerInvariant, PTL

\* On the nftables backend no running job is ever left with less than the rules, a launcher that starts
\* again and one that fails to included.
THEOREM RulesStandCorrect == Spec => []RulesStand
<1>1. IInv => RulesStand
  <2> SUFFICES ASSUME IInv, detectFirewall = "nftables", ~engine.rootless,
                      NEW x \in Attempts, box[x].st = "running", NEW c \in Connections({})
               PROVE  Reaches(c) <=> Policy(c)
    BY DEF RulesStand
  <2>1. rules \in Seq(HostRule) /\ engine \in Engines /\ pol \in Policies
    BY DEF IInv, TypeOK, NetInv
  <2>2. jobsnet # "none" /\ \E L \in SUBSET Subnets : Stands(L)
    BY DEF IInv, StandInv
  <2>3. jobsnet = IF jobsNetworkOptions THEN "isolated" ELSE "open"
    BY <2>2 DEF IInv, NetInv
  <2>4. PICK L \in SUBSET Subnets : Stands(L)
    BY <2>2
  <2>5. {} \in SUBSET Subnets /\ \A s \in {} : Denied(s)
    OBVIOUS
  <2> QED BY <2>1, <2>3, <2>4, <2>5, PolicyHolds
<1> QED
  BY <1>1, ContainerInvariant, PTL

\* A job container runs with the whole executor it mounts and sees nothing of the cache but its
\* organization's part, whichever calls the engine ignored or failed before.
THEOREM ReadyCorrect == Spec => []StartedIsReady
<1>1. IInv => StartedIsReady
  BY NoBoxType DEF IInv, BoxInv, Mounted, StartedIsReady
<1> QED
  BY <1>1, ContainerInvariant, PTL

\* What is kept of a failed job is there until its window has passed, unless a call to the engine fails.
THEOREM KeptCorrect == Spec => KeptUntilOld
<1>1. IInv /\ [Next]_vars =>
        [\A x \in Kept \ (old \cup canceled) :
           box[x].st = "ended" /\ box[x].code \in {"failed", "killed"} => box'[x].st # "none" \/ losses' > losses]_vars
  <2> SUFFICES ASSUME IInv, Next, NEW x \in Kept, x \notin old, x \notin canceled,
                      box[x].st = "ended", box[x].code \in {"failed", "killed"}
               PROVE  box'[x].st # "none" \/ losses' > losses
    OBVIOUS
  <2>0. TypeOK /\ StepInv /\ x \in Attempts /\ box \in BoxType /\ (Lose => losses' > losses)
    BY LoseType, ContainerAssumption DEF IInv, TypeOK, BoxType
  <2>1. CASE NetNext \/ Crash \/ ListBoxes \/ Reconciled
    BY <2>1 DEF NetNext, Crash, ListBoxes, Reconciled, boxVars
  <2>2. CASE Place
    <3>1. cur \in Attempts /\ x # cur
      <4>1. step \notin {"idle", "list", "reconcile"}
        BY <2>2 DEF Place, PlaceClosed, PullImage, createVolume, CreateCopy, StartCopy, CopyEnded, CreateBox, Confine, BindPart,
               CheckBind, CreateBare, StartBox
      <4> QED BY <2>0, <4>1 DEF StepInv, TypeOK
    <3>2. box' = box \/ (\E b : box' = [box EXCEPT ![cur] = b])
      <4>1. \A sees, next : Creates(sees, next) => box' = box \/ (\E b : box' = [box EXCEPT ![cur] = b])
        BY DEF Creates
      <4>2. \A next : Unmade(next) => box' = box \/ (\E b : box' = [box EXCEPT ![cur] = b])
        BY DEF Unmade
      <4>3. CASE CreateBox \/ BindPart \/ CreateBare
        BY <4>1, <4>3 DEF CreateBox, BindPart, CreateBare
      <4>4. CASE Confine \/ CheckBind
        BY <4>2, <4>4 DEF Confine, CheckBind
      <4>5. CASE StartBox
        BY <4>5 DEF StartBox
      <4>6. CASE PlaceClosed \/ PullImage \/ createVolume \/ CreateCopy \/ StartCopy \/ CopyEnded
        BY <4>6 DEF PlaceClosed, PullImage, createVolume, CreateCopy, StartCopy, CopyEnded
      <4> QED BY <2>2, <4>3, <4>4, <4>5, <4>6 DEF Place
    <3>3. box'[x] = box[x]
      BY <2>0, <3>1, <3>2 DEF BoxType
    <3> QED BY <3>3
  <2>3. ASSUME NEW y \in Attempts, y # x, EngineStep(y) PROVE box'[x] = box[x]
    BY <2>0, <2>3 DEF EngineStep
  <2>4. ASSUME NEW y \in Attempts, Claim(y) \/ CopyEnds(y) \/ Cancel(y) \/ Ages(y) \/ NextAttempt(y) PROVE box' = box
    BY <2>4 DEF Claim, CopyEnds, Cancel, Ages, NextAttempt, boxVars
  <2>5. ASSUME NEW y \in Attempts, ExecutorEnds(y) PROVE box'[x].st # "none"
    <3>1. y # x
      BY <2>5 DEF ExecutorEnds
    <3>2. \E k \in {"completed", "failed", "killed"} : box' = [box EXCEPT ![y].st = "ended", ![y].code = k]
      BY <2>5 DEF ExecutorEnds
    <3> QED BY <2>0, <3>1, <3>2 DEF BoxType
  <2>6. \A b \in Stopped(x) : b = box
    BY DEF Stopped
  <2>7. KeepsIt(box, x)
    BY DEF KeepsIt
  <2>8. ASSUME NEW y \in Attempts, WatchStops(y) PROVE box'[x].st # "none"
    <3>1. CASE y = x
      BY <2>6, <2>8, <3>1 DEF WatchStops
    <3>2. CASE y # x
      BY <2>0, <2>3, <2>8, <3>2, PartlyShape DEF WatchStops
    <3> QED BY <3>1, <3>2
  <2>9. ASSUME NEW y \in Attempts, WatchEnds(y) PROVE box' = box
    BY <2>9 DEF WatchEnds, boxVars
  <2>10. ASSUME NEW y \in Attempts, WatchRemoves(y) PROVE box'[x].st # "none" \/ losses' > losses
    <3>1. CASE y = x
      BY <2>0, <2>7, <2>10, <3>1 DEF WatchRemoves, RemovePlacement, boxVars
    <3>2. CASE y # x
      BY <2>0, <2>3, <2>10, <3>2, RemovalShape DEF WatchRemoves
    <3> QED BY <3>1, <3>2
  <2>11. ASSUME NEW y \in Attempts, Reap(y) PROVE box'[x].st # "none"
    <3>1. y # x
      BY <2>11 DEF Reap, ReapsIt
    <3> QED BY <2>0, <2>3, <2>11, <3>1, DeletedShape DEF Reap
  <2>12. ASSUME NEW y \in Attempts, Reconcile(y) PROVE box'[x].st # "none" \/ losses' > losses
    <3>1. UNCHANGED boxVars \/ StopAndRemove(y) \/ (RemovalFails(y) /\ Lose)
      BY <2>12 DEF Reconcile, RemovalFails
    <3>2. CASE y = x
      BY <2>0, <2>6, <2>7, <3>1, <3>2 DEF StopAndRemove, boxVars
    <3>3. CASE y # x
      BY <2>0, <2>3, <3>1, <3>3, RemovalShape, StillShape
    <3> QED BY <3>2, <3>3
  <2> QED
    BY <2>1, <2>2, <2>4, <2>5, <2>8, <2>9, <2>10, <2>11, <2>12 DEF Next
<1> QED
  BY <1>1, ContainerInvariant, PTL DEF Spec, KeptUntilOld

=============================================================================
