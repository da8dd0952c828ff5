------------------------------- MODULE Cache -------------------------------
(***************************************************************************)
(* The organizations' caches between the API, a launcher's node and its    *)
(* jobs (launcher/cache, launcher/populate.go, executor/cache.go).  The     *)
(* launcher copies to its node what a job it places is about to read, and  *)
(* evicts what nobody read lately; the executor reads the copy, or the     *)
(* API's; what it had to install from a source the API asks a launcher's   *)
(* populator to verify and store.                                           *)
(*                                                                          *)
(* A key stands for an organization, a kind and a sha256; a body hashes to *)
(* its key ("good") or does not.  Entries are of one size.                  *)
(***************************************************************************)
EXTENDS Integers, Sequences, FiniteSets, SequencesExt

CONSTANTS
  Keys,
  Jobs,
  Wants,     \* the keys of each job's cache descriptor
  Limit,     \* cache.local_size_limit, in entries; 0 is no bound
  QueueCap,  \* the capacity of the promotions' channel
  Crashes,   \* bound: how often the launcher dies and starts again
  Faults,    \* bound: bodies that do not hash, copies altered on the node, calls that fail
  None

ASSUME CacheAssumption ==
  /\ Wants \in [Jobs -> SUBSET Keys]
  /\ Limit \in Nat /\ QueueCap \in Nat \ {0} /\ Crashes \in Nat /\ Faults \in Nat
  /\ None \notin Keys \cup Jobs

VARIABLES
  store,      \* the entries the API holds
  pending,    \* the promotions the API asks for
  source,     \* whether a key's source publishes what was reported
  answer,     \* a heartbeat answer on its way, or None
  promoting,  \* Launcher.promoting
  queue,      \* Launcher.promotions
  verifying,  \* the promotion the populator is at, or None
  node,       \* the files of the node's copy, the least recently used first
  prep,       \* the job Prepare runs for, or None
  todo,       \* the entries Prepare has not come to
  fetching,   \* the entry whose body it is reading, or None
  tidy,       \* history: no Prepare ended early since the last eviction
  job,        \* each job: queued, placed with the node's copy mounted or without, or never placed
  got,        \* where each executor has each key from: a cache, or the source
  crashes, faults

promotionVars == <<answer, promoting, queue, verifying>>
nodeVars      == <<node, prep, todo, fetching, tidy>>
jobVars       == <<job, got>>
bounds        == <<crashes, faults>>
vars == <<store, pending, source, promotionVars, nodeVars, jobVars, bounds>>

File(k, body) == [key |-> k, body |-> body]

TypeOK ==
  /\ store \subseteq Keys /\ pending \subseteq Keys
  /\ source \in [Keys -> {"same", "differs"}]
  /\ answer \in (SUBSET Keys) \cup {None}
  /\ promoting \subseteq Keys
  /\ queue \in Seq(Keys) /\ Len(queue) <= QueueCap
  /\ verifying \in Keys \cup {None}
  /\ node \in Seq([key : Keys, body : {"good", "bad", "temp"}])
  /\ prep \in Jobs \cup {None} /\ todo \subseteq Keys /\ fetching \in Keys \cup {None}
  /\ tidy \in BOOLEAN
  /\ job \in [Jobs -> {"queued", "mounted", "unmounted", "unplaced"}]
  /\ got \in [Jobs -> [Keys -> {"nothing", "cached", "installed"}]]
  /\ crashes \in 0 .. Crashes /\ faults \in 0 .. Faults

Fault == faults < Faults /\ faults' = faults + 1

\* The file at a key's path, of which there is one at most; a temporary file is at none.
At(k) == {i \in DOMAIN node : node[i].key = k /\ node[i].body # "temp"}
Holds(k) == At(k) # {}
Verifies(k) == \E i \in At(k) : node[i].body = "good"
Without(k) == IF Holds(k) THEN RemoveAt(node, CHOOSE i \in At(k) : TRUE) ELSE node
\* The temporary file Prepare writes is the newest; those of earlier crashes stay where they are.
WithoutTemp == Front(node)

-----------------------------------------------------------------------------
(* ReadThrough.Prepare: the node's copy. *)

\* prepareCache, for one claimed job at a time.  Where nothing can be mounted (a pod, a launcher in a
\* container without a cache volume) or named, the job has no copy.
PrepareBegins(j) ==
  /\ job[j] = "queued" /\ prep = None
  /\ \/ job' = [job EXCEPT ![j] = "unmounted"] /\ UNCHANGED <<prep, todo>>
     \/ Wants[j] # {} /\ prep' = j /\ todo' = Wants[j] /\ UNCHANGED job
  /\ UNCHANGED <<store, pending, source, promotionVars, node, fetching, tidy, got, bounds>>

\* An entry the node has is used again; one it lacks, or that does not verify, is asked for, and its
\* body arrives in a temporary file beside the path.
PrepareEntry(k) ==
  /\ prep # None /\ fetching = None /\ k \in todo
  /\ todo' = todo \ {k}
  /\ \/ Verifies(k) /\ node' = Append(Without(k), File(k, "good")) /\ UNCHANGED <<fetching, faults>>
     \/ ~Verifies(k) /\ k \in store
        /\ node' = Append(Without(k), File(k, "temp")) /\ fetching' = k /\ UNCHANGED faults
     \/ ~Verifies(k) /\ node' = Without(k) /\ UNCHANGED fetching
        /\ IF k \in store THEN Fault ELSE UNCHANGED faults
  /\ UNCHANGED <<store, pending, source, promotionVars, prep, tidy, jobVars, crashes>>

\* fetch renames only a body that hashes to its key.
Places(body) == body = "good"

FetchEnds ==
  /\ fetching # None
  /\ \E body \in {"good", "bad"} :
       /\ IF body = "bad" THEN Fault ELSE UNCHANGED faults
       /\ node' = IF Places(body) THEN Append(WithoutTemp, File(fetching, body))
                                  ELSE WithoutTemp
  /\ fetching' = None
  /\ UNCHANGED <<store, pending, source, promotionVars, prep, todo, tidy, jobVars, crashes>>

\* An eviction that takes from the job being placed too.
KeepsNothing(f) == FALSE
\* Never what the job being placed is about to read.
Keeps(f) == f.key \in Wants[prep] /\ f.body # "temp"

\* A limit on the entries, temporary files aside.
FitsEntries(files) == Limit = 0 \/ Len(SelectSeq(files, LAMBDA f : f.body # "temp")) <= Limit
\* Everything under the directory counts.
Fits(files) == Limit = 0 \/ Len(files) <= Limit

\* evict: the oldest files that are not kept go, one after the other, until the rest fits.
Removable == {i \in DOMAIN node : ~Keeps(node[i])}
Prepared == prep # None /\ fetching = None /\ todo = {}
Evict ==
  /\ Prepared /\ ~Fits(node) /\ Removable # {}
  /\ node' = RemoveAt(node, Min(Removable))
  /\ UNCHANGED <<store, pending, source, promotionVars, prep, todo, fetching, tidy, jobVars, bounds>>

PrepareEnds ==
  /\ Prepared /\ (Fits(node) \/ Removable = {})
  /\ job' = [job EXCEPT ![prep] = "mounted"]
  /\ prep' = None /\ tidy' = TRUE
  /\ UNCHANGED <<store, pending, source, promotionVars, node, todo, fetching, got, bounds>>

\* A copy altered or cut short on the node.
Altered(k) ==
  /\ Verifies(k) /\ Fault
  /\ node' = [i \in DOMAIN node |-> IF i \in At(k) THEN File(k, "bad") ELSE node[i]]
  /\ UNCHANGED <<store, pending, source, promotionVars, prep, todo, fetching, tidy, jobVars, crashes>>

-----------------------------------------------------------------------------
(* The executor reads: Cache.Fetch. *)

\* copyVerified: the mounted copy only if what was copied of it hashes to the key.
Local(j, k) == job[j] = "mounted" /\ Verifies(k)
\* hashes: a body of the API that does not hash to the key is thrown away.
Hashes(body) == body = "good"

\* The local copy, else the API's, else, if that fails too, the source: the job then reports what it
\* installed, and the API asks for what it lacks.
Fetch(j, k) ==
  /\ job[j] \in {"mounted", "unmounted"} /\ k \in Wants[j] /\ got[j][k] = "nothing"
  /\ \/ Local(j, k)
        /\ got' = [got EXCEPT ![j][k] = "cached"] /\ UNCHANGED <<pending, faults>>
     \/ ~Local(j, k) /\ k \in store
        /\ \E body \in {"good", "bad"} :
             /\ IF body = "bad" THEN Fault ELSE UNCHANGED faults
             /\ got' = [got EXCEPT ![j][k] = IF Hashes(body) THEN "cached" ELSE "installed"]
        /\ UNCHANGED pending
     \/ ~Local(j, k)
        /\ got' = [got EXCEPT ![j][k] = "installed"] /\ pending' = pending \cup ({k} \ store)
        /\ IF k \in store THEN Fault ELSE UNCHANGED faults
  /\ UNCHANGED <<store, source, promotionVars, nodeVars, job, crashes>>

-----------------------------------------------------------------------------
(* Promotions. *)

\* The API answers a heartbeat; the answer arrives later.
Answer ==
  /\ answer = None
  /\ answer' = pending
  /\ UNCHANGED <<store, pending, source, promoting, queue, verifying, nodeVars, jobVars, bounds>>

AnswerLost ==
  /\ answer # None /\ Fault
  /\ answer' = None
  /\ UNCHANGED <<store, pending, source, promoting, queue, verifying, nodeVars, jobVars, crashes>>

\* A promotion that stays marked although the queue had no room for it.
MarkedAll(k) == TRUE
\* Marked as taken only while it is queued or being verified.
Marked(k) == Len(queue) < QueueCap

\* queuePromotions, over the answer's promotions one by one; a full queue leaves it to a later answer.
Enqueue(k) ==
  /\ answer # None /\ k \in answer
  /\ answer' = answer \ {k}
  /\ IF k \in promoting THEN UNCHANGED <<promoting, queue>>
     ELSE /\ promoting' = IF Marked(k) THEN promoting \cup {k} ELSE promoting
          /\ queue' = IF Len(queue) < QueueCap THEN Append(queue, k) ELSE queue
  /\ UNCHANGED <<store, pending, source, verifying, nodeVars, jobVars, bounds>>

\* The loop goes on to the next heartbeat.
Handled ==
  /\ answer = {}
  /\ answer' = None
  /\ UNCHANGED <<store, pending, source, promoting, queue, verifying, nodeVars, jobVars, bounds>>

\* The promotion before this one marked.
MarkedLast(k) == promoting \cup {verifying}
\* A promotion unmarked as soon as the populator takes it.
MarkedNoMore(k) == promoting \ {k}
\* ... or only once it is done with it.
MarkedStill(k) == promoting

Take ==
  /\ verifying = None /\ queue # <<>>
  /\ verifying' = Head(queue) /\ queue' = Tail(queue)
  /\ promoting' = MarkedStill(Head(queue))
  /\ UNCHANGED <<store, pending, source, answer, nodeVars, jobVars, bounds>>

\* Promote compares what it fetched with what the job reported.
Matches(k) == source[k] = "same"

\* Promote: verified and uploaded, or dropped with its reason; a call that fails leaves it pending.
\* The API takes the outcome of a promotion that is still pending only.
Promote ==
  /\ verifying # None
  /\ \/ Matches(verifying) /\ verifying \in pending
        /\ store' = store \cup {verifying} /\ pending' = pending \ {verifying} /\ UNCHANGED faults
     \/ pending' = pending \ {verifying} /\ UNCHANGED <<store, faults>>
     \/ Fault /\ UNCHANGED <<store, pending>>
  /\ promoting' = promoting \ {verifying} /\ verifying' = None
  /\ UNCHANGED <<source, answer, queue, nodeVars, jobVars, crashes>>

-----------------------------------------------------------------------------
(* The specification. *)

\* The launcher dies, or is told to stop, which ends Prepare with its temporary file removed; it
\* starts again.  Its node's directory, the API and the placed jobs remain.
Crash ==
  /\ crashes < Crashes /\ crashes' = crashes + 1
  /\ answer' = None /\ promoting' = {} /\ queue' = <<>> /\ verifying' = None
  /\ node' \in {node} \cup {IF fetching = None THEN node ELSE WithoutTemp}
  /\ prep' = None /\ todo' = {} /\ fetching' = None
  /\ tidy' = (tidy /\ prep = None)
  /\ job' = IF prep = None THEN job ELSE [job EXCEPT ![prep] = "unplaced"]
  /\ UNCHANGED <<store, pending, source, got, faults>>

\* The organization's cache drops an entry.
StoreDrops(k) ==
  /\ k \in store /\ Fault
  /\ store' = store \ {k}
  /\ UNCHANGED <<pending, source, promotionVars, nodeVars, jobVars, crashes>>

Init ==
  /\ store \in SUBSET Keys /\ pending = {}
  /\ source \in [Keys -> {"same", "differs"}] /\ \A k \in store : source[k] = "same"
  /\ answer = None /\ promoting = {} /\ queue = <<>> /\ verifying = None
  /\ node = <<>> /\ prep = None /\ todo = {} /\ fetching = None /\ tidy = TRUE
  /\ job = [j \in Jobs |-> "queued"]
  /\ got = [j \in Jobs |-> [k \in Keys |-> "nothing"]]
  /\ crashes = 0 /\ faults = 0

Preparing == (\E k \in Keys : PrepareEntry(k)) \/ FetchEnds \/ Evict \/ PrepareEnds
Populating == Take \/ Promote
Beating == Answer \/ Handled \/ \E k \in Keys : Enqueue(k)

Next ==
  \/ Preparing \/ Populating \/ Beating \/ AnswerLost \/ Crash
  \/ \E j \in Jobs : PrepareBegins(j) \/ \E k \in Keys : Fetch(j, k)
  \/ \E k \in Keys : Altered(k) \/ StoreDrops(k)

Spec == Init /\ [][Next]_vars

\* The launcher heartbeats for as long as it runs, and its populator runs beside it.
Fairness ==
  /\ WF_vars(Preparing) /\ WF_vars(Populating) /\ WF_vars(Beating)

FairSpec == Spec /\ Fairness

-----------------------------------------------------------------------------
(* Properties. *)

\* After an eviction the copy is within its limit, or holds nothing but what one descriptor names,
\* what crashes left there included (evict).
NodeIsBounded ==
  Limit > 0 /\ tidy /\ prep = None =>
    \/ Len(node) <= Limit
    \/ \E j \in Jobs : \A i \in DOMAIN node : node[i].key \in Wants[j] /\ node[i].body # "temp"

\* What the job being placed is about to read stays until it is placed (Prepare, evict).
KeepsItsOwn ==
  [][\A k \in Keys :
       prep # None /\ k \in Wants[prep] \ todo /\ Verifies(k) /\ faults' = faults => Verifies(k)']_vars

\* A promotion is queued and verified once at a time, although every answer names it until it is
\* settled (queuePromotions, populate).
PromotedOnce ==
  \A k \in Keys :
    Cardinality({i \in DOMAIN queue : queue[i] = k}) + (IF verifying = k THEN 1 ELSE 0) <= 1

\* Every promotion is settled: one the queue had no room for, one whose call failed and one a crash
\* dropped come back (queuePromotions, populate).
PromotionsSettle == \A k \in Keys : k \in pending ~> k \notin pending

=============================================================================
