-------------------------- MODULE KubernetesProofs --------------------------
(***************************************************************************)
(* Theorems about KubernetesPlacement, for every set of attempts, whatever  *)
(* they ask for, and any number of failed deletions and cuts.              *)
(***************************************************************************)
EXTENDS KubernetesPlacement, TLAPS

\* Place has a write to make.
Writing == cur # None /\ step \notin {"undo", "none"}

\* The API names a launcher it does not hear, and whose attempts it has settled.
NamedInv == named => launcher # "up" /\ \A x \in Attempts : state[x] # "active"

\* Nothing was written for an attempt nobody claimed, and it has not aged.
FreshInv == \A x \in Attempts : state[x] = "pending" => x # cur /\ age[x] = 0 /\ pod[x] = "none"

\* The attempt being placed is young, and its gate is closed until Place's last write.
PlacedInv ==
  /\ cur = None => step = "none"
  /\ cur # None => age[cur] = 0
  /\ Writing => pod[cur] \in {"none", "gated"}

\* Past the write of an object, a pod still at its gate owns it.
OwnedInv ==
  Writing /\ pod[cur] = "gated" =>
    /\ step \in {"pull", "owner", "gate"} => secret[cur] = "owned"
    /\ step \in {"owner", "gate"} /\ "pull" \in asks => pull[cur] = "owned"
    /\ step = "gate" /\ "sa" \in asks => sa[cur] = "owned"

\* Of what a sweep has listed nothing is being written: an account listed was too old for that, and a
\* pod a launcher lists of its own has ended, or is gone by now.
SweepInv ==
  /\ \A w \in Sweepers : sweep[w].does = "idle" => sweep[w].todo = {}
  /\ \A w \in Sweepers, x \in Attempts :
       x \in sweep[w].todo /\ sweep[w].does = "accounts" => x # cur /\ state[x] # "pending"
  /\ sweep["own"].does # "kill"
  /\ sweep["own"].does = "pods" =>
       \A x \in sweep["own"].todo :
         /\ Ended(x) \/ pod[x] = "none"
         /\ state[x] # "pending" /\ ~(x = cur /\ Writing)

KInv == TypeOK /\ NamedInv /\ FreshInv /\ PlacedInv /\ OwnedInv /\ SweepInv

-----------------------------------------------------------------------------
(* The initial states and each step keep them. *)

LEMMA InitK == Init => KInv
<1> SUFFICES ASSUME Init PROVE KInv
  OBVIOUS
<1>1. TypeOK
  <2>1. losses \in 0 .. Losses /\ cuts \in 0 .. Cuts BY PlacementAssumption DEF Init
  <2>2. sweep \in [Sweepers -> [does : {"idle", "kill", "pods", "accounts"}, todo : SUBSET Attempts]]
    BY DEF Init
  <2>3. age \in [Attempts -> 0 .. 2] BY DEF Init
  <2> QED BY <2>1, <2>2, <2>3 DEF Init, TypeOK, Steps
<1>2. NamedInv /\ FreshInv /\ PlacedInv /\ OwnedInv
  BY PlacementAssumption DEF Init, NamedInv, FreshInv, PlacedInv, OwnedInv, Writing
<1>3. SweepInv BY DEF Init, SweepInv, Sweepers
<1> QED BY <1>1, <1>2, <1>3 DEF KInv

\* What the five writing actions do to an object: it is replaced, or as it was.
LEMMA AppliedTypes ==
  ASSUME TypeOK, cur # None, Applied
  PROVE  /\ pod' \in [Attempts -> {"none", "gated", "released", "running", "stuck", "ok", "failed", "expired"}]
         /\ sa' \in [Attempts -> {"none", "unowned", "owned", "stale"}]
         /\ secret' \in [Attempts -> {"none", "owned", "stale"}]
         /\ pull' \in [Attempts -> {"none", "owned", "stale"}]
         /\ \A x \in Attempts \ {cur} : pod'[x] = pod[x] /\ sa'[x] = sa[x]
BY DEF TypeOK, Applied, Owned

\* A deleted pod is gone, what it owned is stale, and the others' objects are as they were.
LEMMA DeletePodDoes ==
  ASSUME TypeOK, NEW x \in Attempts, DeletePod(x)
  PROVE  /\ pod' \in [Attempts -> {"none", "gated", "released", "running", "stuck", "ok", "failed", "expired"}]
         /\ sa' \in [Attempts -> {"none", "unowned", "owned", "stale"}]
         /\ secret' \in [Attempts -> {"none", "owned", "stale"}]
         /\ pull' \in [Attempts -> {"none", "owned", "stale"}]
         /\ pod'[x] = "none"
         /\ \A y \in Attempts \ {x} : /\ pod'[y] = pod[y] /\ sa'[y] = sa[y]
                                      /\ secret'[y] = secret[y] /\ pull'[y] = pull[y]
BY DEF TypeOK, DeletePod, Orphan

\* A step that deletes a pod and places nothing keeps all of the invariant but
\* the types: what a sweep lists does not come back to life.
LEMMA PodGoes ==
  ASSUME KInv, NEW x \in Attempts, DeletePod(x),
         UNCHANGED <<launcher, cur, step, asks, state, named, age, sweep>>
  PROVE  (NamedInv /\ FreshInv /\ PlacedInv /\ OwnedInv /\ SweepInv)'
<1> USE DEF KInv
<1>1. NamedInv' BY DEF NamedInv
<1>2. /\ pod'[x] = "none"
      /\ \A y \in Attempts \ {x} : /\ pod'[y] = pod[y] /\ sa'[y] = sa[y]
                                   /\ secret'[y] = secret[y] /\ pull'[y] = pull[y]
  BY DeletePodDoes
<1>3. FreshInv' BY <1>2 DEF FreshInv
<1>4. PlacedInv' BY <1>2 DEF PlacedInv, Writing, TypeOK
<1>5. OwnedInv' BY <1>2 DEF OwnedInv, Writing, TypeOK
<1>6. SweepInv' BY <1>2 DEF SweepInv, Ended, Writing, TypeOK, Sweepers
<1> QED BY <1>1, <1>3, <1>4, <1>5, <1>6


LEMMA NextTyped == KInv /\ [Next]_vars => TypeOK'
<1> SUFFICES ASSUME TypeOK, PlacedInv, [Next]_vars PROVE TypeOK'
  BY DEF KInv
<1> USE PlacementAssumption DEF vars, placeVars, apiVars, objVars, bounds
<1>1. ASSUME NEW x \in Attempts, Claim(x) PROVE TypeOK'
  BY <1>1 DEF Claim, TypeOK, Steps, Objects
<1>2. ASSUME Write \/ WriteFails PROVE TypeOK'
  <2>1. step' \in Steps /\ written' \subseteq Objects
    BY <1>2 DEF Write, WriteFails, StepAfter, TypeOK, Steps, Objects
  <2>2. CASE Applied
    BY <1>2, <2>1, <2>2, AppliedTypes DEF Write, WriteFails, TypeOK
  <2>3. CASE UNCHANGED <<pod, sa, secret, pull>>
    BY <1>2, <2>1, <2>3 DEF Write, WriteFails, TypeOK
  <2> QED BY <1>2, <2>2, <2>3 DEF Write, WriteFails
<1>3. CASE Placed BY <1>3 DEF Placed, TypeOK
<1>4. CASE Undo
  <2>1. cur \in Attempts BY <1>4 DEF Undo, TypeOK, PlacedInv
  <2>2. /\ pod' \in [Attempts -> {"none", "gated", "released", "running", "stuck", "ok", "failed", "expired"}]
        /\ sa' \in [Attempts -> {"none", "unowned", "owned", "stale"}]
        /\ secret' \in [Attempts -> {"none", "owned", "stale"}]
        /\ pull' \in [Attempts -> {"none", "owned", "stale"}]
    <3>1. CASE UNCHANGED <<pod, sa, secret, pull>> BY <3>1 DEF TypeOK
    <3>2. CASE DeletePod(cur) BY <2>1, <3>2, DeletePodDoes
    <3>3. CASE sa' = [sa EXCEPT ![cur] = "none"] /\ UNCHANGED <<pod, secret, pull>>
      BY <3>3 DEF TypeOK
    <3>4. CASE secret' = [secret EXCEPT ![cur] = "none"] /\ UNCHANGED <<pod, sa, pull>>
      BY <3>4 DEF TypeOK
    <3>5. CASE pull' = [pull EXCEPT ![cur] = "none"] /\ UNCHANGED <<pod, sa, secret>>
      BY <3>5 DEF TypeOK
    <3>6. LastWritten \in Objects BY DEF LastWritten, Objects
    <3> QED BY <1>4, <3>1, <3>2, <3>3, <3>4, <3>5, <3>6 DEF Undo, Objects
  <2>3. losses' \in 0 .. Losses
    <3>1. UNCHANGED losses \/ Lose BY <1>4, Zenon DEF Undo
    <3> QED BY <3>1 DEF Lose, TypeOK
  <2> QED BY <1>4, <2>2, <2>3 DEF Undo, TypeOK
<1>5. CASE PlaceFailed BY <1>5 DEF PlaceFailed, TypeOK, Steps
<1>6. CASE SweepOwn BY <1>6 DEF SweepOwn, Sweeps, TypeOK
<1>7. CASE SweepPeer BY <1>7 DEF SweepPeer, Sweeps, TypeOK
<1>8. ASSUME NEW w \in Sweepers, SweepNext(w) PROVE TypeOK'
  BY <1>8 DEF SweepNext, Sweeps, TypeOK
<1>9. ASSUME NEW w \in Sweepers, NEW x \in Attempts, SweepDelete(w, x) PROVE TypeOK'
  <2>1. sweep' \in [Sweepers -> [does : {"idle", "kill", "pods", "accounts"}, todo : SUBSET Attempts]]
    BY <1>9 DEF SweepDelete, TypeOK
  <2>2. losses' \in 0 .. Losses BY <1>9 DEF SweepDelete, Lose, TypeOK
  <2>3. CASE DeletePod(x) BY <1>9, <2>1, <2>2, <2>3, DeletePodDoes DEF SweepDelete, TypeOK
  <2>4. CASE UNCHANGED <<pod, sa, secret, pull>> BY <1>9, <2>1, <2>2, <2>4 DEF SweepDelete, TypeOK
  <2>5. CASE sa' = [sa EXCEPT ![x] = "none"] /\ UNCHANGED <<pod, secret, pull>>
    BY <1>9, <2>1, <2>2, <2>5 DEF SweepDelete, TypeOK
  <2> QED BY <1>9, <2>3, <2>4, <2>5 DEF SweepDelete
<1>10. CASE Crash
  <2>1. sweep' \in [Sweepers -> [does : {"idle", "kill", "pods", "accounts"}, todo : SUBSET Attempts]]
    BY <1>10 DEF Crash, TypeOK
  <2> QED BY <1>10, <2>1 DEF Crash, TypeOK, Steps
<1>11. CASE Cut BY <1>11 DEF Cut, TypeOK
<1>12. CASE Lost
  <2>1. state' \in [Attempts -> {"pending", "active", "settled"}] BY <1>12 DEF Lost, TypeOK
  <2> QED BY <1>12, <2>1 DEF Lost, TypeOK
<1>13. CASE Back \/ PeerHears BY <1>13 DEF Back, PeerHears, TypeOK
<1>14. ASSUME NEW x \in Attempts, Watch(x) PROVE TypeOK'
  <2>1. state' \in [Attempts -> {"pending", "active", "settled"}] /\ watched' \subseteq Attempts
    BY <1>14 DEF Watch, TypeOK
  <2>2. CASE DeletePod(x) BY <1>14, <2>1, <2>2, DeletePodDoes DEF Watch, TypeOK
  <2>3. CASE UNCHANGED <<pod, sa, secret, pull>> BY <1>14, <2>1, <2>3 DEF Watch, TypeOK
  <2> QED BY <1>14, <2>2, <2>3 DEF Watch
<1>15. ASSUME NEW x \in Attempts, Collect(x) PROVE TypeOK'
  BY <1>15 DEF Collect, TypeOK
<1>16. ASSUME NEW x \in Attempts, PodStarts(x) \/ PodEnds(x) \/ KeepOver(x) PROVE TypeOK'
  <2>1. CASE PodStarts(x) \/ KeepOver(x) BY <2>1 DEF PodStarts, KeepOver, TypeOK
  <2>2. CASE PodEnds(x)
    <3>1. state' \in [Attempts -> {"pending", "active", "settled"}] BY <2>2 DEF PodEnds, TypeOK
    <3> QED BY <2>2, <3>1 DEF PodEnds, TypeOK
  <2> QED BY <1>16, <2>1, <2>2
<1>17. ASSUME NEW x \in Attempts, PodDeleted(x) PROVE TypeOK'
  BY <1>17, DeletePodDoes DEF PodDeleted, TypeOK, Lose
<1>18. ASSUME NEW x \in Attempts, Ages(x) PROVE TypeOK'
  BY <1>18 DEF Ages, TypeOK
<1>19. CASE UNCHANGED vars BY <1>19 DEF TypeOK
<1> QED
  BY <1>1, <1>2, <1>3, <1>4, <1>5, <1>6, <1>7, <1>8, <1>9, <1>10, <1>11, <1>12, <1>13, <1>14,
     <1>15, <1>16, <1>17, <1>18, <1>19 DEF Next, Placing, Swept


\* The parts of the invariant besides the types.
Kept == NamedInv /\ FreshInv /\ PlacedInv /\ OwnedInv /\ SweepInv

LEMMA NextK == KInv /\ [Next]_vars => KInv'
<1> SUFFICES ASSUME KInv, [Next]_vars PROVE Kept'
  BY NextTyped DEF KInv, Kept
<1> USE PlacementAssumption DEF KInv, Kept, vars, placeVars, apiVars, objVars, bounds
<1>1. ASSUME NEW x \in Attempts, Claim(x) PROVE Kept'
  <2>1. cur' = x /\ x # None /\ pod[x] = "none" /\ age[x] = 0 BY <1>1 DEF Claim, FreshInv
  <2>2. NamedInv' BY <1>1 DEF Claim, NamedInv
  <2>3. FreshInv' BY <1>1 DEF Claim, FreshInv, TypeOK
  <2>4. PlacedInv' /\ OwnedInv' BY <1>1, <2>1 DEF Claim, PlacedInv, OwnedInv, Writing
  <2>5. SweepInv' BY <1>1 DEF Claim, SweepInv, Ended, TypeOK, Sweepers
  <2> QED BY <2>2, <2>3, <2>4, <2>5
<1>2. CASE Write \/ WriteFails
  <2>1. cur \in Attempts /\ Writing /\ cur' = cur /\ asks' = asks
    BY <1>2 DEF Write, WriteFails, Writing, TypeOK
  <2>2. \A x \in Attempts \ {cur} : pod'[x] = pod[x] /\ sa'[x] = sa[x]
    BY <1>2, <2>1, AppliedTypes DEF Write, WriteFails
  <2>3. NamedInv' BY <1>2 DEF Write, WriteFails, NamedInv
  <2>4. FreshInv' BY <1>2, <2>1, <2>2 DEF Write, WriteFails, FreshInv
  <2>5. PlacedInv' /\ OwnedInv'
    <3>1. CASE WriteFails BY <2>1, <3>1 DEF WriteFails, PlacedInv, OwnedInv, Writing
    <3>2. CASE Write
      <4>1. step' # "none" => pod'[cur] \in {"none", "gated"}
        BY <2>1, <3>2 DEF Write, Applied, StepAfter, PlacedInv, TypeOK, Steps
      <4>2. PlacedInv' BY <2>1, <3>2, <4>1 DEF Write, PlacedInv, Writing
      <4>3. ASSUME pod'[cur] = "gated", step' # "none"
            PROVE  /\ step' \in {"pull", "owner", "gate"} => secret'[cur] = "owned"
                   /\ step' \in {"owner", "gate"} /\ "pull" \in asks => pull'[cur] = "owned"
                   /\ step' = "gate" /\ "sa" \in asks => sa'[cur] = "owned"
        <5>1. CASE step \in {"sa", "pod"}
          BY <2>1, <3>2, <4>3, <5>1 DEF Write, StepAfter
        <5>2. CASE step \in {"secret", "pull", "owner"}
          <6>1. pod[cur] = "gated" /\ Owned = "owned"
            BY <2>1, <3>2, <4>3, <5>2 DEF Write, Applied, Owned
          <6> QED
            BY <2>1, <3>2, <4>3, <5>2, <6>1 DEF Write, Applied, StepAfter, OwnedInv, TypeOK
        <5>3. CASE step = "gate" BY <3>2, <4>3, <5>3 DEF Write, StepAfter
        <5> QED BY <2>1, <5>1, <5>2, <5>3 DEF Writing, TypeOK, Steps
      <4>4. OwnedInv' BY <2>1, <4>3 DEF OwnedInv, Writing
      <4> QED BY <4>2, <4>4
    <3> QED BY <1>2, <3>1, <3>2
  <2>6. SweepInv' BY <1>2, <2>1, <2>2 DEF Write, WriteFails, SweepInv, Ended,
    Writing, Sweepers, TypeOK
  <2> QED BY <2>3, <2>4, <2>5, <2>6
<1>3. CASE Placed
  <2>1. NamedInv' /\ FreshInv' /\ PlacedInv' /\ OwnedInv'
    BY <1>3 DEF Placed, NamedInv, FreshInv, PlacedInv, OwnedInv, Writing
  <2>2. SweepInv' BY <1>3 DEF Placed, SweepInv, Ended, Writing, TypeOK, Sweepers
  <2> QED BY <2>1, <2>2
<1>4. CASE Undo
  <2>1. cur \in Attempts BY <1>4 DEF Undo, TypeOK, PlacedInv
  <2>2. CASE DeletePod(cur) BY <1>4, <2>1, <2>2, PodGoes DEF Undo
  <2>3. CASE pod' = pod
    <3>1. NamedInv' /\ FreshInv' /\ PlacedInv' /\ OwnedInv'
      BY <1>4, <2>3 DEF Undo, NamedInv, FreshInv, PlacedInv, OwnedInv, Writing
    <3>2. SweepInv' BY <1>4, <2>3 DEF Undo, SweepInv, Ended, Writing
    <3> QED BY <3>1, <3>2
  <2>4. DeletePod(cur) \/ pod' = pod
    <3>1. LastWritten \in Objects BY DEF LastWritten, Objects
    <3> QED BY <1>4, <3>1 DEF Undo, Objects
  <2> QED BY <2>2, <2>3, <2>4
<1>5. CASE PlaceFailed
  <2>1. NamedInv' /\ PlacedInv' /\ OwnedInv'
    BY <1>5 DEF PlaceFailed, NamedInv, PlacedInv, OwnedInv, Writing, TypeOK
  <2>2. FreshInv' BY <1>5 DEF PlaceFailed, FreshInv, TypeOK
  <2>3. SweepInv' BY <1>5 DEF PlaceFailed, SweepInv, Ended, Writing, TypeOK, Sweepers
  <2> QED BY <2>1, <2>2, <2>3
<1>6. CASE SweepOwn
  <2>1. \A x \in Attempts : Reapable(x) => /\ Ended(x) /\ state[x] # "pending"
                                           /\ ~(x = cur /\ Writing)
    <3> TAKE x \in Attempts
    <3> HAVE Reapable(x)
    <3>1. Ended(x) /\ pod[x] # "none" BY DEF Reapable, Ended
    <3>2. state[x] # "pending" BY <3>1 DEF FreshInv
    <3>3. x = cur => ~Writing BY <3>1 DEF PlacedInv, Ended, TypeOK
    <3> QED BY <3>1, <3>2, <3>3
  <2>2. SweepInv' BY <1>6, <2>1 DEF SweepOwn, Sweeps, SweepInv, Ended, Writing, TypeOK, Sweepers
  <2>3. NamedInv' /\ FreshInv' /\ PlacedInv' /\ OwnedInv'
    BY <1>6 DEF SweepOwn, NamedInv, FreshInv, PlacedInv, OwnedInv, Writing
  <2> QED BY <2>2, <2>3
<1>7. CASE SweepPeer
  <2>1. SweepInv' BY <1>7 DEF SweepPeer, Sweeps, SweepInv, Ended, Writing, TypeOK, Sweepers
  <2>2. NamedInv' /\ FreshInv' /\ PlacedInv' /\ OwnedInv'
    BY <1>7 DEF SweepPeer, NamedInv, FreshInv, PlacedInv, OwnedInv, Writing
  <2> QED BY <2>1, <2>2
<1>8. ASSUME NEW w \in Sweepers, SweepNext(w) PROVE Kept'
  <2>1. \A x \in Attempts : Unowned(x) => x # cur /\ state[x] # "pending"
    BY DEF Unowned, PlacedInv, FreshInv, TypeOK
  <2>2. sweep["own"].does \in {"idle", "pods", "accounts"} BY DEF SweepInv, TypeOK, Sweepers
  <2>3. SweepInv' BY <1>8, <2>1, <2>2 DEF SweepNext, Sweeping, Sweeps, SweepInv, Ended, Writing, TypeOK, Sweepers
  <2>4. NamedInv' /\ FreshInv' /\ PlacedInv' /\ OwnedInv'
    BY <1>8 DEF SweepNext, NamedInv, FreshInv, PlacedInv, OwnedInv, Writing
  <2> QED BY <2>3, <2>4
<1>9. ASSUME NEW w \in Sweepers, NEW x \in Attempts, SweepDelete(w, x) PROVE Kept'
  <2>1. \A v \in Sweepers : sweep'[v].does = sweep[v].does /\ sweep'[v].todo \subseteq sweep[v].todo
    BY <1>9 DEF SweepDelete, TypeOK
  <2>2. NamedInv' BY <1>9 DEF SweepDelete, NamedInv
  <2>3. CASE DeletePod(x)
    <3>1. /\ pod'[x] = "none"
          /\ \A y \in Attempts \ {x} : /\ pod'[y] = pod[y] /\ sa'[y] = sa[y]
                                       /\ secret'[y] = secret[y] /\ pull'[y] = pull[y]
      BY <2>3, DeletePodDoes
    <3>2. FreshInv' BY <1>9, <3>1 DEF SweepDelete, FreshInv
    <3>3. PlacedInv' /\ OwnedInv' BY <1>9, <3>1 DEF SweepDelete, PlacedInv, OwnedInv, Writing, TypeOK
    <3>4. SweepInv' BY <1>9, <2>1, <3>1 DEF SweepDelete, SweepInv, Ended, Writing, Sweepers, TypeOK
    <3> QED BY <2>2, <3>2, <3>3, <3>4
  <2>4. CASE UNCHANGED <<pod, sa, secret, pull>>
    <3>1. FreshInv' /\ PlacedInv' /\ OwnedInv'
      BY <1>9, <2>4 DEF SweepDelete, FreshInv, PlacedInv, OwnedInv, Writing
    <3>2. SweepInv' BY <1>9, <2>1, <2>4 DEF SweepDelete, SweepInv, Ended, Writing, Sweepers, TypeOK
    <3> QED BY <2>2, <3>1, <3>2
  <2>5. CASE /\ sweep[w].does = "accounts" /\ sa' = [sa EXCEPT ![x] = "none"]
             /\ UNCHANGED <<pod, secret, pull>>
    <3>1. x # cur BY <1>9, <2>5 DEF SweepDelete, SweepInv
    <3>2. FreshInv' /\ PlacedInv' /\ OwnedInv'
      BY <1>9, <2>5, <3>1 DEF SweepDelete, FreshInv, PlacedInv, OwnedInv, Writing, TypeOK
    <3>3. SweepInv' BY <1>9, <2>1, <2>5 DEF SweepDelete, SweepInv, Ended, Writing, Sweepers, TypeOK
    <3> QED BY <2>2, <3>2, <3>3
  <2> QED BY <1>9, <2>3, <2>4, <2>5 DEF SweepDelete
<1>10. CASE Crash
  <2>1. NamedInv' /\ FreshInv' /\ PlacedInv' /\ OwnedInv'
    BY <1>10 DEF Crash, NamedInv, FreshInv, PlacedInv, OwnedInv, Writing
  <2>2. /\ sweep'["own"].does = "idle" /\ sweep'["own"].todo = {}
        /\ sweep'["peer"] = sweep["peer"]
    BY <1>10 DEF Crash, TypeOK, Sweepers
  <2>3. SweepInv' BY <1>10, <2>2 DEF Crash, SweepInv, Sweepers
  <2> QED BY <2>1, <2>3
<1>11. CASE Cut \/ Back \/ PeerHears
  <2>1. NamedInv' BY <1>11 DEF Cut, Back, PeerHears, NamedInv
  <2>2. FreshInv' /\ PlacedInv' /\ OwnedInv'
    BY <1>11 DEF Cut, Back, PeerHears, FreshInv, PlacedInv, OwnedInv, Writing
  <2>3. SweepInv' BY <1>11 DEF Cut, Back, PeerHears, SweepInv, Ended, Writing
  <2> QED BY <2>1, <2>2, <2>3
<1>12. CASE Lost
  <2>1. \A x \in Attempts : state'[x] # "active" /\ (state'[x] = "pending") = (state[x] = "pending")
    BY <1>12 DEF Lost
  <2>2. NamedInv' BY <1>12, <2>1 DEF Lost, NamedInv
  <2>3. FreshInv' /\ PlacedInv' /\ OwnedInv'
    BY <1>12, <2>1 DEF Lost, FreshInv, PlacedInv, OwnedInv, Writing
  <2>4. SweepInv' BY <1>12, <2>1 DEF Lost, SweepInv, Ended, Writing, TypeOK, Sweepers
  <2> QED BY <2>2, <2>3, <2>4
<1>13. ASSUME NEW x \in Attempts, Watch(x) PROVE Kept'
  <2>1. \A y \in Attempts : state'[y] = state[y] \/ (y = x /\ state'[y] = "settled")
    BY <1>13 DEF Watch, TypeOK
  <2>2. NamedInv' BY <1>13, <2>1 DEF Watch, NamedInv
  <2>3. CASE DeletePod(x)
    <3>1. /\ pod'[x] = "none"
          /\ \A y \in Attempts \ {x} : /\ pod'[y] = pod[y] /\ sa'[y] = sa[y]
                                       /\ secret'[y] = secret[y] /\ pull'[y] = pull[y]
      BY <2>3, DeletePodDoes
    <3>2. FreshInv' BY <1>13, <2>1, <3>1 DEF Watch, FreshInv
    <3>3. PlacedInv' /\ OwnedInv' BY <1>13, <3>1 DEF Watch, PlacedInv, OwnedInv, Writing, TypeOK
    <3>4. SweepInv' BY <1>13, <2>1, <3>1 DEF Watch, SweepInv, Ended, Writing, Sweepers, TypeOK
    <3> QED BY <2>2, <3>2, <3>3, <3>4
  <2>4. CASE UNCHANGED <<pod, sa, secret, pull>>
    <3>1. FreshInv' /\ PlacedInv' /\ OwnedInv'
      BY <1>13, <2>1, <2>4 DEF Watch, FreshInv, PlacedInv, OwnedInv, Writing
    <3>2. SweepInv' BY <1>13, <2>1, <2>4 DEF Watch, SweepInv, Ended, Writing, Sweepers, TypeOK
    <3> QED BY <2>2, <3>1, <3>2
  <2> QED BY <1>13, <2>3, <2>4 DEF Watch
<1>14. ASSUME NEW x \in Attempts, Collect(x) PROVE Kept'
  <2>1. NamedInv' /\ FreshInv' /\ PlacedInv' BY <1>14 DEF Collect, NamedInv, FreshInv, PlacedInv, Writing
  <2>2. OwnedInv' BY <1>14 DEF Collect, OwnedInv, Writing, TypeOK
  <2>3. SweepInv' BY <1>14 DEF Collect, SweepInv, Ended, Writing
  <2> QED BY <2>1, <2>2, <2>3
<1>15. ASSUME NEW x \in Attempts, PodStarts(x) \/ PodEnds(x) \/ KeepOver(x) PROVE Kept'
  <2>1. /\ pod[x] \in {"released", "running", "failed"} /\ pod'[x] \notin {"none", "gated"}
        /\ \A y \in Attempts \ {x} : pod'[y] = pod[y] /\ state'[y] = state[y]
        /\ state'[x] \in {state[x], "settled"}
        /\ UNCHANGED <<launcher, placeVars, named, sa, secret, pull, age, sweep>>
    BY <1>15 DEF PodStarts, PodEnds, KeepOver, TypeOK
  <2>2. x = cur => ~Writing BY <2>1 DEF PlacedInv
  <2>3. Ended(x) => Ended(x)'
    BY <1>15 DEF PodStarts, PodEnds, KeepOver, Ended, TypeOK
  <2>4. NamedInv' /\ FreshInv' /\ PlacedInv'
    BY <2>1, <2>2 DEF NamedInv, FreshInv, PlacedInv, Writing, TypeOK
  <2>5. OwnedInv' BY <2>1, <2>2 DEF OwnedInv, Writing, TypeOK
  <2>6. \A y \in Attempts : Ended(y) => Ended(y)' BY <2>1, <2>3 DEF Ended
  <2>7. SweepInv' BY <2>1, <2>6 DEF SweepInv, Writing, Sweepers, TypeOK
  <2> QED BY <2>4, <2>5, <2>7
<1>16. ASSUME NEW x \in Attempts, PodDeleted(x) PROVE Kept'
  BY <1>16, PodGoes DEF PodDeleted
<1>17. ASSUME NEW x \in Attempts, Ages(x) PROVE Kept'
  <2>1. NamedInv' /\ FreshInv' /\ PlacedInv' /\ OwnedInv'
    BY <1>17 DEF Ages, NamedInv, FreshInv, PlacedInv, OwnedInv, Writing, TypeOK
  <2>2. \A y \in Attempts : Ended(y) => Ended(y)' BY <1>17 DEF Ages, Ended, TypeOK
  <2>3. SweepInv' BY <1>17, <2>2 DEF Ages, SweepInv, Writing, Sweepers, TypeOK
  <2> QED BY <2>1, <2>3
<1>18. CASE UNCHANGED vars
  <2>1. NamedInv' /\ FreshInv' /\ PlacedInv' /\ OwnedInv'
    BY <1>18 DEF NamedInv, FreshInv, PlacedInv, OwnedInv, Writing
  <2>2. SweepInv' BY <1>18 DEF SweepInv, Ended, Writing
  <2> QED BY <2>1, <2>2
<1> QED
  BY <1>1, <1>2, <1>3, <1>4, <1>5, <1>6, <1>7, <1>8, <1>9, <1>10, <1>11, <1>12, <1>13, <1>14,
     <1>15, <1>16, <1>17, <1>18 DEF Next, Placing, Swept

-----------------------------------------------------------------------------
(* What every behaviour satisfies. *)

LEMMA KInvariant == Spec => []KInv
BY InitK, NextK, PTL DEF Spec

\* The state stays of its type (kubernetes.go).
THEOREM TypeCorrect == Spec => []TypeOK
<1>1. KInv => TypeOK BY DEF KInv
<1> QED BY <1>1, KInvariant, PTL

\* A gate is lifted only from a pod that owns its Secrets and its account, whatever sweeps, the
\* garbage collector and the peers do between Place's writes (Place, Reap).
THEOREM ReleasedCorrect == Spec => ReleasedIsComplete
<1> DEFINE A == \A x \in Attempts : pod[x] = "gated" /\ pod'[x] = "released" => Complete(x)
<1>1. KInv /\ [Next]_vars => A
  <2> SUFFICES ASSUME KInv, [Next]_vars, NEW x \in Attempts, pod[x] = "gated", pod'[x] = "released"
               PROVE  Complete(x)
    OBVIOUS
  <2> USE DEF KInv
  <2>1. CASE (Write \/ WriteFails) /\ Applied
    <3>1. cur \in Attempts /\ Writing BY <2>1 DEF Write, WriteFails, Writing, TypeOK
    <3>2. x = cur /\ step = "gate"
      BY <2>1, <3>1, AppliedTypes DEF Applied, TypeOK
    <3> QED BY <3>1, <3>2 DEF Complete, OwnedInv
  <2>2. CASE UNCHANGED pod BY <2>2
  <2>3. ASSUME NEW y \in Attempts, DeletePod(y) PROVE FALSE BY <2>3, DeletePodDoes
  <2>4. ASSUME Undo PROVE FALSE
    <3>1. LastWritten \in Objects BY DEF LastWritten, Objects
    <3>2. cur \in Attempts BY <2>4 DEF Undo, TypeOK, PlacedInv
    <3>3. DeletePod(cur) \/ UNCHANGED pod BY <2>4, <3>1 DEF Undo, Objects
    <3> QED BY <2>3, <3>2, <3>3
  <2>5. ASSUME NEW y \in Attempts, PodStarts(y) \/ PodEnds(y) \/ KeepOver(y) PROVE FALSE
    BY <2>5 DEF PodStarts, PodEnds, KeepOver, TypeOK
  <2> QED
    BY <2>1, <2>2, <2>3, <2>4, <2>5 DEF Next, Placing, Swept, Write, WriteFails, Placed, PlaceFailed,
      SweepOwn, SweepPeer, SweepNext, SweepDelete, Crash, Cut, Lost, Back, PeerHears, Claim, Watch,
      Collect, PodDeleted, Ages, vars, objVars
<1>2. KInv /\ [Next]_vars => [A]_vars BY <1>1
<1> QED BY <1>2, KInvariant, PTL DEF Spec, ReleasedIsComplete

\* A launcher's own sweep deletes no pod of an active attempt that has not ended, and a peer's only
\* from a list that is out of date: whatever was listed cannot come back to life (Reap,
\* reapLostPeers).
THEOREM SweepsCorrect == Spec => SweepsOnlyTheOver
<1> DEFINE A == \A w \in Sweepers, x \in Attempts : SweepsRunning(w, x) => w = "peer" /\ ~named
<1>1. KInv => A
  <2> SUFFICES ASSUME KInv, NEW w \in Sweepers, NEW x \in Attempts, SweepsRunning(w, x)
               PROVE  w = "peer" /\ ~named
    OBVIOUS
  <2>1. ~named BY DEF SweepsRunning, KInv, NamedInv
  <2>2. ASSUME w = "own" PROVE FALSE
    <3>1. x \in sweep["own"].todo /\ ~Ended(x) /\ pod[x] # "none"
      BY <2>2 DEF SweepsRunning, SweepDelete
    <3>2. sweep["own"].does = "accounts" BY <3>1 DEF KInv, SweepInv, TypeOK, Sweepers
    <3>3. pod' = pod BY <2>2, <3>2 DEF SweepsRunning, SweepDelete
    <3> QED BY <3>1, <3>3 DEF SweepsRunning
  <2> QED BY <2>1, <2>2 DEF Sweepers
<1>2. KInv => [A]_vars BY <1>1
<1> QED BY <1>2, KInvariant, PTL DEF SweepsOnlyTheOver

=============================================================================
