----------------------------- MODULE CacheProofs -----------------------------
(***************************************************************************)
(* Theorems about Cache, for every set of entries and jobs, every limit    *)
(* and capacity, and any number of crashes and faults.                     *)
(***************************************************************************)
EXTENDS Cache, SequenceTheorems, FiniteSetTheorems, WellFoundedInduction, TLAPS

Files == [key : Keys, body : {"good", "bad", "temp"}]

-----------------------------------------------------------------------------
(* The node's copy as a sequence. *)

\* What is left of a sequence when one of its elements goes.
LEMMA RemoveAtProperties ==
  ASSUME NEW S, NEW s \in Seq(S), NEW i \in 1 .. Len(s)
  PROVE  /\ RemoveAt(s, i) \in Seq(S)
         /\ Len(RemoveAt(s, i)) = Len(s) - 1
         /\ \A j \in 1 .. Len(s) - 1 : RemoveAt(s, i)[j] = IF j < i THEN s[j] ELSE s[j + 1]
<1> DEFINE a == SubSeq(s, 1, i - 1)
           b == SubSeq(s, i + 1, Len(s))
<1>1. Len(s) \in Nat /\ i \in Int /\ 1 <= i /\ i <= Len(s)
  BY LenProperties
<1>2. \A n \in 1 .. Len(s) : s[n] \in S
  BY ElementOfSeq
<1>3. a \in Seq(S) /\ Len(a) = i - 1 /\ \A n \in 1 .. i - 1 : a[n] = s[n]
  BY <1>1, <1>2, SubSeqProperties
<1>4. b \in Seq(S) /\ Len(b) = Len(s) - i /\ \A n \in 1 .. Len(s) - i : b[n] = s[i + n]
  BY <1>1, <1>2, SubSeqProperties
<1>5. RemoveAt(s, i) = a \o b BY DEF RemoveAt
<1> HIDE DEF a, b
<1>6. /\ a \o b \in Seq(S)
      /\ Len(a \o b) = Len(a) + Len(b)
      /\ \A j \in 1 .. Len(a) + Len(b) : (a \o b)[j] = IF j <= Len(a) THEN a[j] ELSE b[j - Len(a)]
  BY <1>3, <1>4, ConcatProperties
<1>7. ASSUME NEW j \in 1 .. Len(s) - 1
      PROVE  (a \o b)[j] = IF j < i THEN s[j] ELSE s[j + 1]
  <2>1. (a \o b)[j] = IF j <= i - 1 THEN a[j] ELSE b[j - (i - 1)]
    BY <1>1, <1>3, <1>4, <1>6
  <2>2. CASE j < i BY <1>1, <1>3, <2>1, <2>2
  <2>3. CASE ~(j < i)
    <3>1. j - (i - 1) \in 1 .. Len(s) - i /\ i + (j - (i - 1)) = j + 1 BY <1>1, <2>3
    <3> QED BY <1>1, <1>4, <2>1, <2>3, <3>1
  <2> QED BY <2>2, <2>3
<1>8. Len(a \o b) = Len(s) - 1 BY <1>1, <1>3, <1>4, <1>6
<1> QED BY <1>5, <1>6, <1>7, <1>8

\* The least of a non-empty set of positions is one of them.
LEMMA MinIsThere ==
  ASSUME NEW S \in SUBSET Nat, S # {}
  PROVE  Min(S) \in S
<1>1. PICK x \in S : \A y \in S : ~(<<y, x>> \in OpToRel(<, Nat))
  BY NatLessThanWellFounded, WFMin
<1>2. \A y \in S : x <= y
  <2> TAKE y \in S
  <2>1. ~(y < x) BY <1>1 DEF OpToRel
  <2> QED BY <2>1
<1> QED BY <1>1, <1>2 DEF Min

\* What is left of a sequence without its last element.
LEMMA FrontProperties ==
  ASSUME NEW S, NEW s \in Seq(S), s # <<>>
  PROVE  /\ Front(s) \in Seq(S)
         /\ Len(Front(s)) = Len(s) - 1
         /\ \A j \in 1 .. Len(s) - 1 : Front(s)[j] = s[j]
<1> DEFINE n == Len(s) - 1
<1>1. n \in Nat /\ \A i \in 1 .. n : i \in 1 .. Len(s) BY EmptySeq
<1>2. \A i \in 1 .. n : s[i] \in S BY <1>1, ElementOfSeq
<1> HIDE DEF n
<1>3. /\ SubSeq(s, 1, n) \in Seq(S)
      /\ Len(SubSeq(s, 1, n)) = IF 1 <= n THEN n - 1 + 1 ELSE 0
      /\ \A j \in 1 .. n - 1 + 1 : SubSeq(s, 1, n)[j] = s[1 + j - 1]
  BY <1>1, <1>2, SubSeqProperties
<1>4. Len(SubSeq(s, 1, n)) = n /\ \A j \in 1 .. n : SubSeq(s, 1, n)[j] = s[j]
  BY <1>1, <1>3
<1>5. Front(s) = SubSeq(s, 1, n) BY DEF Front, n
<1> QED BY <1>3, <1>4, <1>5 DEF n

-----------------------------------------------------------------------------
(* A path's file. *)

\* A key's file in a copy; a copy with one file at a path at most.
FileIn(s, k) == \E i \in 1 .. Len(s) : s[i].key = k /\ s[i].body # "temp"
OnePathIn(s) ==
  \A i, j \in 1 .. Len(s) :
    s[i].key = s[j].key /\ s[i].body # "temp" /\ s[j].body # "temp" => i = j

\* A removal leaves one file at a path at most, and none where there was none.
LEMMA RemoveKeepsPaths ==
  ASSUME NEW s \in Seq(Files), NEW i \in 1 .. Len(s), OnePathIn(s)
  PROVE  /\ OnePathIn(RemoveAt(s, i))
         /\ \A k : ~FileIn(s, k) => ~FileIn(RemoveAt(s, i), k)
         /\ s[i].body # "temp" => ~FileIn(RemoveAt(s, i), s[i].key)
<1>1. Len(s) \in Nat BY LenProperties
<1> DEFINE t == RemoveAt(s, i)
           was(j) == IF j < i THEN j ELSE j + 1
<1>2. Len(t) = Len(s) - 1 /\ \A j \in 1 .. Len(t) : was(j) \in 1 .. Len(s) /\ was(j) # i /\ t[j] = s[was(j)]
  BY <1>1, RemoveAtProperties
<1>3. \A j, h \in 1 .. Len(t) : was(j) = was(h) => j = h
  BY <1>1, <1>2
<1> HIDE DEF t, was
<1>4. OnePathIn(t) BY <1>2, <1>3 DEF OnePathIn
<1>5. \A k : ~FileIn(s, k) => ~FileIn(t, k) BY <1>2 DEF FileIn
<1>6. s[i].body # "temp" => ~FileIn(t, s[i].key) BY <1>2 DEF FileIn, OnePathIn
<1> QED BY <1>4, <1>5, <1>6 DEF t

\* A new file takes a free path, or none while it is temporary.
LEMMA AppendKeepsPaths ==
  ASSUME NEW s \in Seq(Files), NEW f \in Files, OnePathIn(s), f.body # "temp" => ~FileIn(s, f.key)
  PROVE  /\ Append(s, f) \in Seq(Files) /\ OnePathIn(Append(s, f))
         /\ \A k : ~FileIn(s, k) /\ (f.body = "temp" \/ k # f.key) => ~FileIn(Append(s, f), k)
<1>1. Len(s) \in Nat BY LenProperties
<1> DEFINE t == Append(s, f)
<1>2. t \in Seq(Files) /\ Len(t) = Len(s) + 1 BY AppendProperties
<1>3. t[Len(s) + 1] = f /\ \A j \in 1 .. Len(s) : t[j] = s[j] BY <1>1, AppendProperties
<1> HIDE DEF t
<1>4. OnePathIn(t) BY <1>1, <1>2, <1>3 DEF OnePathIn, FileIn
<1>5. \A k : ~FileIn(s, k) /\ (f.body = "temp" \/ k # f.key) => ~FileIn(t, k)
  BY <1>1, <1>2, <1>3 DEF FileIn
<1> QED BY <1>2, <1>4, <1>5 DEF t

\* A copy without its last file.
LEMMA FrontKeepsPaths ==
  ASSUME NEW s \in Seq(Files), s # <<>>, OnePathIn(s)
  PROVE  /\ Front(s) \in Seq(Files) /\ OnePathIn(Front(s))
         /\ \A k : ~FileIn(s, k) => ~FileIn(Front(s), k)
<1>1. Len(s) \in Nat BY LenProperties
<1> DEFINE t == Front(s)
<1>2. t \in Seq(Files) /\ Len(t) = Len(s) - 1 /\ \A j \in 1 .. Len(t) : t[j] = s[j]
  BY FrontProperties
<1> HIDE DEF t
<1>3. OnePathIn(t) BY <1>1, <1>2 DEF OnePathIn
<1>4. \A k : ~FileIn(s, k) => ~FileIn(t, k) BY <1>1, <1>2 DEF FileIn
<1> QED BY <1>2, <1>3, <1>4 DEF t

\* Without(k) takes the file at k's path and nothing else.
LEMMA WithoutProperties ==
  ASSUME node \in Seq(Files), OnePathIn(node), NEW k \in Keys
  PROVE  /\ Without(k) \in Seq(Files) /\ OnePathIn(Without(k))
         /\ ~FileIn(Without(k), k)
         /\ \A h : ~FileIn(node, h) => ~FileIn(Without(k), h)
<1>1. Len(node) \in Nat /\ DOMAIN node = 1 .. Len(node) BY LenProperties
<1>2. CASE ~Holds(k)
  BY <1>1, <1>2 DEF Without, Holds, At, FileIn
<1>3. CASE Holds(k)
  <2>1. PICK i \in 1 .. Len(node) : /\ Without(k) = RemoveAt(node, i)
                                    /\ node[i].key = k /\ node[i].body # "temp"
    <3>1. (CHOOSE i \in At(k) : TRUE) \in At(k) BY <1>3 DEF Holds
    <3> QED BY <1>1, <1>3, <3>1 DEF Without, At
  <2> QED BY <2>1, RemoveAtProperties, RemoveKeepsPaths
<1> QED BY <1>2, <1>3

-----------------------------------------------------------------------------
(* The invariants. *)

\* The body on its way is in the last file, and its path is free; without a job to place nothing is
\* fetched.
FetchIsLast ==
  fetching # None => node # <<>> /\ node[Len(node)].body = "temp" /\ ~FileIn(node, fetching)
PrepIsIdle == prep = None => fetching = None /\ todo = {}
CopyInv == OnePathIn(node) /\ FetchIsLast /\ PrepIsIdle

\* What is queued or verified is marked, and is there once.
QueueInv ==
  /\ \A i, j \in 1 .. Len(queue) : queue[i] = queue[j] => i = j
  /\ \A i \in 1 .. Len(queue) : queue[i] # verifying /\ queue[i] \in promoting
  /\ verifying # None => verifying \in promoting

CacheInv == TypeOK /\ CopyInv /\ QueueInv

LEMMA InitCache == Init => CacheInv
<1> SUFFICES ASSUME Init PROVE CacheInv
  OBVIOUS
<1> USE CacheAssumption
<1>1. node = <<>> /\ queue = <<>> /\ Len(node) = 0 /\ Len(queue) = 0 /\ verifying = None
  BY DEF Init
<1>2. TypeOK BY <1>1 DEF Init, TypeOK
<1>3. CopyInv BY <1>1 DEF Init, CopyInv, FetchIsLast, PrepIsIdle, OnePathIn
<1>4. QueueInv BY <1>1 DEF QueueInv
<1> QED BY <1>2, <1>3, <1>4 DEF CacheInv

\* Steps that leave the node's copy alone keep what is said of it.
LEMMA CopyQuiet ==
  ASSUME CopyInv, UNCHANGED <<node, prep, todo, fetching>> PROVE CopyInv'
BY DEF CopyInv, FetchIsLast, PrepIsIdle, OnePathIn, FileIn

LEMMA QueueQuiet ==
  ASSUME QueueInv, UNCHANGED <<promoting, queue, verifying>> PROVE QueueInv'
BY DEF QueueInv

LEMMA NextCache == CacheInv /\ [Next]_vars => CacheInv'
<1> SUFFICES ASSUME CacheInv, [Next]_vars PROVE CacheInv'
  OBVIOUS
<1> USE CacheAssumption DEF CacheInv
<1>1. ASSUME NEW j \in Jobs, PrepareBegins(j) PROVE CacheInv'
  <2>1. TypeOK' BY <1>1 DEF PrepareBegins, TypeOK, promotionVars, bounds
  <2>2. CopyInv' BY <1>1 DEF PrepareBegins, CopyInv, FetchIsLast, PrepIsIdle, OnePathIn, FileIn
  <2>3. QueueInv' BY <1>1, QueueQuiet DEF PrepareBegins, promotionVars
  <2> QED BY <2>1, <2>2, <2>3
<1>2. ASSUME NEW k \in Keys, PrepareEntry(k) PROVE CacheInv'
  <2>1. node \in Seq(Files) /\ OnePathIn(node) BY DEF TypeOK, CopyInv, Files
  <2>2. /\ Without(k) \in Seq(Files) /\ OnePathIn(Without(k)) /\ ~FileIn(Without(k), k)
    BY <2>1, WithoutProperties
  <2>3. \A body \in {"good", "temp"} :
          /\ File(k, body) \in Files /\ File(k, body).key = k /\ File(k, body).body = body
          /\ Append(Without(k), File(k, body)) \in Seq(Files)
          /\ OnePathIn(Append(Without(k), File(k, body)))
    BY <2>2, AppendKeepsPaths DEF File, Files
  <2>4. node' \in Seq(Files) /\ OnePathIn(node') BY <1>2, <2>2, <2>3 DEF PrepareEntry
  <2>5. TypeOK' BY <1>2, <2>4 DEF PrepareEntry, TypeOK, promotionVars, jobVars, Files, Fault
  <2>6. FetchIsLast'
    <3>1. CASE fetching' = None BY <3>1 DEF FetchIsLast
    <3>2. CASE fetching' = k /\ node' = Append(Without(k), File(k, "temp"))
      <4>1. ~FileIn(node', k) BY <2>2, <2>3, <3>2, AppendKeepsPaths
      <4>2. node'[Len(node')] = File(k, "temp") /\ node' # <<>>
        BY <2>2, <2>3, <3>2, AppendProperties, LenProperties, EmptySeq
      <4> QED BY <2>3, <3>2, <4>1, <4>2 DEF FetchIsLast
    <3> QED BY <1>2, <3>1, <3>2 DEF PrepareEntry
  <2>7. CopyInv' BY <1>2, <2>4, <2>6 DEF PrepareEntry, CopyInv, PrepIsIdle
  <2>8. QueueInv' BY <1>2, QueueQuiet DEF PrepareEntry, promotionVars
  <2> QED BY <2>5, <2>7, <2>8
<1>3. CASE FetchEnds
  <2>1. /\ node \in Seq(Files) /\ OnePathIn(node) /\ node # <<>>
        /\ ~FileIn(node, fetching) /\ fetching \in Keys
    BY <1>3 DEF FetchEnds, TypeOK, CopyInv, FetchIsLast, Files
  <2>2. WithoutTemp \in Seq(Files) /\ OnePathIn(WithoutTemp) /\ ~FileIn(WithoutTemp, fetching)
    BY <2>1, FrontKeepsPaths DEF WithoutTemp
  <2>3. ASSUME NEW body \in {"good", "bad"}
        PROVE  /\ Append(WithoutTemp, File(fetching, body)) \in Seq(Files)
               /\ OnePathIn(Append(WithoutTemp, File(fetching, body)))
    <3>1. File(fetching, body) \in Files /\ File(fetching, body).key = fetching
      BY <2>1 DEF File, Files
    <3> QED BY <2>2, <3>1, AppendKeepsPaths
  <2>4. node' \in Seq(Files) /\ OnePathIn(node') BY <1>3, <2>2, <2>3 DEF FetchEnds
  <2>5. TypeOK' BY <1>3, <2>4 DEF FetchEnds, TypeOK, promotionVars, jobVars, Files, Fault
  <2>6. CopyInv' BY <1>3, <2>4 DEF FetchEnds, CopyInv, FetchIsLast, PrepIsIdle
  <2>7. QueueInv' BY <1>3, QueueQuiet DEF FetchEnds, promotionVars
  <2> QED BY <2>5, <2>6, <2>7
<1>4. CASE Evict
  <2>1. node \in Seq(Files) /\ OnePathIn(node) BY DEF TypeOK, CopyInv, Files
  <2>2. Min(Removable) \in 1 .. Len(node)
    <3>1. Removable \subseteq 1 .. Len(node) /\ Len(node) \in Nat BY <2>1, LenProperties DEF Removable
    <3>2. Removable \subseteq Nat /\ Removable # {} BY <1>4, <3>1 DEF Evict
    <3> QED BY <3>1, <3>2, MinIsThere
  <2>3. node' \in Seq(Files) /\ OnePathIn(node')
    BY <1>4, <2>1, <2>2, RemoveAtProperties, RemoveKeepsPaths DEF Evict
  <2>4. TypeOK' BY <1>4, <2>3 DEF Evict, TypeOK, promotionVars, jobVars, bounds, Files
  <2>5. CopyInv' BY <1>4, <2>3 DEF Evict, Prepared, CopyInv, FetchIsLast, PrepIsIdle
  <2>6. QueueInv' BY <1>4, QueueQuiet DEF Evict, promotionVars
  <2> QED BY <2>4, <2>5, <2>6
<1>5. CASE PrepareEnds
  <2>1. TypeOK' BY <1>5 DEF PrepareEnds, Prepared, TypeOK, promotionVars, bounds
  <2>2. CopyInv'
    BY <1>5 DEF PrepareEnds, Prepared, CopyInv, FetchIsLast, PrepIsIdle, OnePathIn, FileIn
  <2>3. QueueInv' BY <1>5, QueueQuiet DEF PrepareEnds, promotionVars
  <2> QED BY <2>1, <2>2, <2>3
<1>6. ASSUME NEW k \in Keys, Altered(k) PROVE CacheInv'
  <2>1. node \in Seq(Files) /\ Len(node) \in Nat /\ DOMAIN node = 1 .. Len(node)
    BY LenProperties DEF TypeOK, Files
  <2>2. \A i \in 1 .. Len(node) : node[i] \in Files BY <2>1, ElementOfSeq
  <2>3. /\ DOMAIN node' = 1 .. Len(node)
        /\ \A i \in 1 .. Len(node) :
             /\ node'[i] \in Files /\ node'[i].key = node[i].key
             /\ (node'[i].body = "temp") = (node[i].body = "temp")
    BY <1>6, <2>1, <2>2 DEF Altered, At, File, Files
  <2>4. node' \in Seq(Files) /\ Len(node') = Len(node)
    <3>1. node' = [i \in 1 .. Len(node) |-> node'[i]] BY <1>6, <2>1, <2>3 DEF Altered
    <3>2. node' \in [1 .. Len(node) -> Files] BY <2>3, <3>1
    <3> QED BY <2>1, <3>2, SeqDef, LenProperties
  <2>5. TypeOK' BY <1>6, <2>4 DEF Altered, TypeOK, promotionVars, jobVars, Files, Fault
  <2>6. OnePathIn(node') /\ \A h : FileIn(node', h) => FileIn(node, h)
    BY <2>1, <2>3, <2>4 DEF OnePathIn, FileIn, CopyInv
  <2>7. CopyInv'
    <3>1. node # <<>> => node' # <<>> /\ Len(node) \in 1 .. Len(node) BY <2>1, <2>4, EmptySeq
    <3>2. FetchIsLast' BY <1>6, <2>3, <2>4, <2>6, <3>1 DEF Altered, CopyInv, FetchIsLast
    <3>3. PrepIsIdle' BY <1>6 DEF Altered, CopyInv, PrepIsIdle
    <3> QED BY <2>6, <3>2, <3>3 DEF CopyInv
  <2>8. QueueInv' BY <1>6, QueueQuiet DEF Altered, promotionVars
  <2> QED BY <2>5, <2>7, <2>8
<1>7. ASSUME NEW j \in Jobs, NEW k \in Keys, Fetch(j, k) PROVE CacheInv'
  <2>1. TypeOK'
    <3>1. PICK b \in {"cached", "installed"} : got' = [got EXCEPT ![j][k] = b]
      BY <1>7 DEF Fetch
    <3>2. got' \in [Jobs -> [Keys -> {"nothing", "cached", "installed"}]]
      BY <3>1 DEF TypeOK
    <3> QED BY <1>7, <3>2 DEF Fetch, TypeOK, promotionVars, nodeVars, Fault
  <2>2. CopyInv' BY <1>7, CopyQuiet DEF Fetch, nodeVars
  <2>3. QueueInv' BY <1>7, QueueQuiet DEF Fetch, promotionVars
  <2> QED BY <2>1, <2>2, <2>3
<1>8. CASE Answer
  <2>1. TypeOK' BY <1>8 DEF Answer, TypeOK, nodeVars, jobVars, bounds
  <2>2. CopyInv' BY <1>8, CopyQuiet DEF Answer, nodeVars
  <2> QED BY <1>8, <2>1, <2>2, QueueQuiet DEF Answer
<1>9. CASE AnswerLost
  <2>1. TypeOK' BY <1>9 DEF AnswerLost, TypeOK, nodeVars, jobVars, Fault
  <2>2. CopyInv' BY <1>9, CopyQuiet DEF AnswerLost, nodeVars
  <2> QED BY <1>9, <2>1, <2>2, QueueQuiet DEF AnswerLost
<1>10. CASE Handled
  <2>1. TypeOK' BY <1>10 DEF Handled, TypeOK, nodeVars, jobVars, bounds
  <2>2. CopyInv' BY <1>10, CopyQuiet DEF Handled, nodeVars
  <2> QED BY <1>10, <2>1, <2>2, QueueQuiet DEF Handled
<1>11. ASSUME NEW k \in Keys, Enqueue(k) PROVE CacheInv'
  <2>1. CopyInv' BY <1>11, CopyQuiet DEF Enqueue, nodeVars
  <2>2. queue \in Seq(Keys) /\ Len(queue) \in Nat BY LenProperties DEF TypeOK
  <2>3. CASE queue' = queue /\ (promoting' = promoting \/ promoting' = promoting \cup {k})
    <3>1. TypeOK' BY <1>11, <2>3 DEF Enqueue, TypeOK, nodeVars, jobVars, bounds
    <3>2. QueueInv' BY <1>11, <2>3 DEF Enqueue, QueueInv
    <3> QED BY <2>1, <3>1, <3>2
  <2>4. CASE /\ k \notin promoting /\ Len(queue) < QueueCap
             /\ queue' = Append(queue, k) /\ promoting' = promoting \cup {k}
    <3>1. /\ queue' \in Seq(Keys) /\ Len(queue') = Len(queue) + 1
          /\ queue'[Len(queue) + 1] = k /\ \A i \in 1 .. Len(queue) : queue'[i] = queue[i]
      BY <2>2, <2>4, AppendProperties
    <3>2. TypeOK' BY <1>11, <2>2, <2>4, <3>1 DEF Enqueue, TypeOK, nodeVars, jobVars, bounds
    <3>3. verifying # k /\ verifying' = verifying BY <1>11, <2>4 DEF Enqueue, QueueInv
    <3>4. QueueInv'
      <4>1. \A i, j \in 1 .. Len(queue') : queue'[i] = queue'[j] => i = j
        BY <2>2, <2>4, <3>1 DEF QueueInv
      <4>2. \A i \in 1 .. Len(queue') : queue'[i] # verifying' /\ queue'[i] \in promoting'
        BY <2>2, <2>4, <3>1, <3>3 DEF QueueInv
      <4> QED BY <2>4, <3>3, <4>1, <4>2 DEF QueueInv
    <3> QED BY <2>1, <3>2, <3>4
  <2> QED BY <1>11, <2>3, <2>4 DEF Enqueue, Marked
<1>12. CASE Take
  <2>1. CopyInv' BY <1>12, CopyQuiet DEF Take, nodeVars
  <2>2. queue \in Seq(Keys) /\ queue # <<>> /\ Len(queue) \in Nat
    BY <1>12, LenProperties DEF TypeOK, Take
  <2>3. /\ Len(queue) >= 1 /\ verifying' = queue[1] /\ queue[1] \in Keys
        /\ queue' \in Seq(Keys) /\ Len(queue') = Len(queue) - 1
        /\ \A i \in 1 .. Len(queue') : queue'[i] = queue[i + 1]
    BY <1>12, <2>2, HeadTailProperties, EmptySeq, ElementOfSeq DEF Take
  <2>4. TypeOK' BY <1>12, <2>2, <2>3 DEF Take, MarkedStill, TypeOK, nodeVars, jobVars, bounds
  <2>5. QueueInv' BY <1>12, <2>2, <2>3 DEF Take, MarkedStill, QueueInv
  <2> QED BY <2>1, <2>4, <2>5
<1>13. CASE Promote
  <2>1. TypeOK' BY <1>13 DEF Promote, TypeOK, nodeVars, jobVars, Fault
  <2>2. CopyInv' BY <1>13, CopyQuiet DEF Promote, nodeVars
  <2>3. QueueInv'
    <3>1. \A i \in 1 .. Len(queue) : queue[i] \in Keys BY ElementOfSeq DEF TypeOK
    <3> QED BY <1>13, <3>1 DEF Promote, QueueInv
  <2> QED BY <2>1, <2>2, <2>3
<1>14. CASE Crash
  <2>1. node \in Seq(Files) /\ OnePathIn(node) BY DEF TypeOK, CopyInv, Files
  <2>2. node' \in Seq(Files) /\ OnePathIn(node')
    <3>1. CASE node' = node BY <2>1, <3>1
    <3>2. CASE fetching # None /\ node' = WithoutTemp
      BY <2>1, <3>2, FrontKeepsPaths DEF WithoutTemp, CopyInv, FetchIsLast
    <3> QED BY <1>14, <3>1, <3>2 DEF Crash
  <2>3. queue' = <<>> /\ queue' \in Seq(Keys) /\ Len(queue') = 0 BY <1>14 DEF Crash
  <2>4. job' \in [Jobs -> {"queued", "mounted", "unmounted", "unplaced"}]
    BY <1>14 DEF Crash, TypeOK
  <2>5. TypeOK' BY <1>14, <2>2, <2>3, <2>4 DEF Crash, TypeOK, Files
  <2>6. CopyInv' BY <1>14, <2>2 DEF Crash, CopyInv, FetchIsLast, PrepIsIdle
  <2>7. QueueInv' BY <1>14, <2>3 DEF Crash, QueueInv
  <2> QED BY <2>5, <2>6, <2>7
<1>15. ASSUME NEW k \in Keys, StoreDrops(k) PROVE CacheInv'
  <2>1. TypeOK' BY <1>15 DEF StoreDrops, TypeOK, promotionVars, nodeVars, jobVars, Fault
  <2>2. CopyInv' BY <1>15, CopyQuiet DEF StoreDrops, nodeVars
  <2> QED BY <1>15, <2>1, <2>2, QueueQuiet DEF StoreDrops, promotionVars
<1>16. CASE UNCHANGED vars
  <2>1. TypeOK' BY <1>16 DEF vars, TypeOK, promotionVars, nodeVars, jobVars, bounds
  <2>2. CopyInv' BY <1>16, CopyQuiet DEF vars, nodeVars
  <2> QED BY <1>16, <2>1, <2>2, QueueQuiet DEF vars, promotionVars
<1> QED
  BY <1>1, <1>2, <1>3, <1>4, <1>5, <1>6, <1>7, <1>8, <1>9, <1>10, <1>11, <1>12, <1>13, <1>14,
     <1>15, <1>16 DEF Next, Preparing, Populating, Beating

-----------------------------------------------------------------------------
(* What every behaviour satisfies. *)

LEMMA CacheInvariant == Spec => []CacheInv
BY InitCache, NextCache, PTL DEF Spec

\* The state stays of its type; one file has a key's path (readthrough.go).
THEOREM TypeCorrect == Spec => []TypeOK
<1>1. CacheInv => TypeOK BY DEF CacheInv
<1> QED BY <1>1, CacheInvariant, PTL

\* A promotion that every answer names is queued and verified once at a time (queuePromotions).
THEOREM PromotedCorrect == Spec => []PromotedOnce
<1>1. CacheInv => PromotedOnce
  <2> SUFFICES ASSUME CacheInv, NEW k \in Keys
               PROVE  Cardinality({i \in DOMAIN queue : queue[i] = k})
                        + (IF verifying = k THEN 1 ELSE 0) <= 1
    BY DEF PromotedOnce
  <2> DEFINE S == {i \in DOMAIN queue : queue[i] = k}
  <2>1. DOMAIN queue = 1 .. Len(queue) BY LenProperties DEF CacheInv, TypeOK
  <2>2. CASE S = {}
    <3>1. Cardinality(S) = 0 BY <2>2, FS_EmptySet
    <3> QED BY <3>1
  <2>3. CASE S # {}
    <3>1. PICK i \in S : TRUE BY <2>3
    <3>2. S = {i} BY <2>1, <3>1 DEF CacheInv, QueueInv
    <3>3. Cardinality(S) = 1 BY <3>2, FS_Singleton
    <3>4. verifying # k BY <2>1, <3>1 DEF CacheInv, QueueInv
    <3> QED BY <3>3, <3>4
  <2> QED BY <2>2, <2>3
<1> QED BY <1>1, CacheInvariant, PTL

\* A Prepare that came to its end leaves the copy within its limit, or with nothing but what its
\* job reads; only a Prepare adds to it (Prepare, evict).
THEOREM BoundedCorrect == Spec => []NodeIsBounded
<1>1. Init => NodeIsBounded
  <2> SUFFICES ASSUME Init, Limit > 0 PROVE NodeIsBounded
    BY DEF NodeIsBounded
  <2>1. Len(node) = 0 /\ Limit \in Nat BY CacheAssumption DEF Init
  <2> QED BY <2>1 DEF NodeIsBounded
<1>2. CacheInv /\ NodeIsBounded /\ [Next]_vars => NodeIsBounded'
  <2> SUFFICES ASSUME CacheInv, NodeIsBounded, [Next]_vars, Limit > 0, tidy', prep' = None
               PROVE  \/ Len(node') <= Limit
                      \/ \E j \in Jobs : \A i \in DOMAIN node' :
                           node'[i].key \in Wants[j] /\ node'[i].body # "temp"
    BY DEF NodeIsBounded
  <2>1. DOMAIN node = 1 .. Len(node) /\ Len(node) \in Nat
    BY LenProperties DEF CacheInv, TypeOK
  <2>2. CASE PrepareEnds
    <3>1. CASE Removable = {}
      <4>1. prep \in Jobs /\ node' = node
        BY <2>2, CacheAssumption DEF PrepareEnds, Prepared, CacheInv, TypeOK
      <4>2. \A i \in DOMAIN node : Keeps(node[i]) BY <3>1 DEF Removable
      <4> QED BY <4>1, <4>2 DEF Keeps
    <3> QED BY <2>2, <3>1 DEF PrepareEnds, Fits
  <2>3. ASSUME NEW k \in Keys, Altered(k)
        PROVE  \/ Len(node') <= Limit
               \/ \E j \in Jobs : \A i \in DOMAIN node' :
                    node'[i].key \in Wants[j] /\ node'[i].body # "temp"
    <3>1. /\ DOMAIN node' = DOMAIN node
          /\ \A i \in DOMAIN node : /\ node'[i].key = node[i].key
                                    /\ (node'[i].body = "temp") = (node[i].body = "temp")
      BY <2>3 DEF Altered, At, File
    <3>2. CacheInv' BY NextCache
    <3>3. DOMAIN node' = 1 .. Len(node') /\ Len(node') \in Nat
      BY <3>2, LenProperties DEF CacheInv, TypeOK
    <3>4. Len(node') = Len(node) BY <2>1, <3>1, <3>3
    <3> QED BY <2>3, <3>1, <3>4 DEF Altered, NodeIsBounded
  <2>4. CASE Crash
    BY <2>4 DEF Crash, NodeIsBounded, CacheInv, CopyInv, PrepIsIdle
  <2>5. CASE prep = None /\ tidy /\ node' = node BY <2>5 DEF NodeIsBounded
  <2> QED
    BY <2>2, <2>3, <2>4, <2>5 DEF Next, Preparing, Populating, Beating, PrepareBegins, PrepareEntry,
      FetchEnds, Evict, Prepared, Answer, AnswerLost, Handled, Enqueue, Take, Promote, Fetch,
      StoreDrops, vars, nodeVars, CacheInv, CopyInv, PrepIsIdle
<1> QED BY <1>1, <1>2, CacheInvariant, PTL DEF Spec

-----------------------------------------------------------------------------
(* What is about to be read. *)

\* A copy that has a key's verified file, and the steps on a copy that leave it there.
GoodIn(s, k) == \E i \in 1 .. Len(s) : s[i].key = k /\ s[i].body = "good"

LEMMA VerifiesIsGoodIn == ASSUME node \in Seq(Files) PROVE \A k : Verifies(k) <=> GoodIn(node, k)
BY LenProperties DEF Verifies, At, GoodIn

LEMMA AppendKeepsGood ==
  ASSUME NEW s \in Seq(Files), NEW f \in Files, NEW k, GoodIn(s, k) PROVE GoodIn(Append(s, f), k)
<1>1. Len(s) \in Nat BY LenProperties
<1>2. Len(Append(s, f)) = Len(s) + 1 /\ \A i \in 1 .. Len(s) : Append(s, f)[i] = s[i]
  BY AppendProperties
<1>3. PICK i \in 1 .. Len(s) : s[i].key = k /\ s[i].body = "good" BY DEF GoodIn
<1>4. i \in 1 .. Len(Append(s, f)) /\ Append(s, f)[i] = s[i] BY <1>1, <1>2
<1> QED BY <1>3, <1>4 DEF GoodIn

LEMMA RemoveKeepsGood ==
  ASSUME NEW s \in Seq(Files), NEW h \in 1 .. Len(s), NEW k, GoodIn(s, k),
         ~(s[h].key = k /\ s[h].body = "good")
  PROVE  GoodIn(RemoveAt(s, h), k)
<1>1. Len(s) \in Nat BY LenProperties
<1>2. PICK i \in 1 .. Len(s) : s[i].key = k /\ s[i].body = "good" BY DEF GoodIn
<1> DEFINE t == RemoveAt(s, h)
           to == IF i < h THEN i ELSE i - 1
<1>3. /\ Len(t) = Len(s) - 1
      /\ \A j \in 1 .. Len(s) - 1 : t[j] = IF j < h THEN s[j] ELSE s[j + 1]
  BY RemoveAtProperties
<1> HIDE DEF t
<1>4. to \in 1 .. Len(t) /\ t[to] = s[i] BY <1>1, <1>2, <1>3
<1>5. GoodIn(t, k) BY <1>2, <1>4 DEF GoodIn
<1> QED BY <1>5 DEF t

LEMMA FrontKeepsGood ==
  ASSUME NEW s \in Seq(Files), s # <<>>, NEW k, GoodIn(s, k), s[Len(s)].body = "temp"
  PROVE  GoodIn(Front(s), k)
<1>1. Len(s) \in Nat BY LenProperties
<1>2. PICK i \in 1 .. Len(s) : s[i].key = k /\ s[i].body = "good" BY DEF GoodIn
<1>3. Len(Front(s)) = Len(s) - 1 /\ \A j \in 1 .. Len(s) - 1 : Front(s)[j] = s[j]
  BY FrontProperties
<1>4. i \in 1 .. Len(Front(s)) /\ Front(s)[i] = s[i] BY <1>1, <1>2, <1>3
<1> QED BY <1>2, <1>4 DEF GoodIn

\* Nothing but a fault takes from the copy what the job being placed is about to read, its own
\* eviction included (Prepare, evict).
THEOREM KeepsCorrect == Spec => KeepsItsOwn
<1> DEFINE A == \A k \in Keys :
       prep # None /\ k \in Wants[prep] \ todo /\ Verifies(k) /\ faults' = faults => Verifies(k)'
<1>1. CacheInv /\ [Next]_vars => A
  <2> SUFFICES ASSUME CacheInv, [Next]_vars, NEW k \in Keys, prep # None,
                      k \in Wants[prep] \ todo, Verifies(k), faults' = faults
               PROVE  Verifies(k)'
    OBVIOUS
  <2>1. node \in Seq(Files) /\ GoodIn(node, k) /\ Len(node) \in Nat
    BY VerifiesIsGoodIn, LenProperties DEF CacheInv, TypeOK, Files
  <2>2. node' \in Seq(Files) BY NextCache DEF CacheInv, TypeOK, Files
  <2>3. SUFFICES GoodIn(node', k)
    <3>1. DOMAIN node' = 1 .. Len(node') BY <2>2, LenProperties
    <3> QED BY <3>1 DEF Verifies, At, GoodIn
  <2>4. ASSUME NEW h \in Keys, PrepareEntry(h) PROVE GoodIn(node', k)
    <3>1. h # k BY <2>4 DEF PrepareEntry
    <3>2. Without(h) \in Seq(Files) BY <2>1, WithoutProperties DEF CacheInv, CopyInv
    <3>3. GoodIn(Without(h), k)
      <4>1. CASE ~Holds(h) BY <2>1, <4>1 DEF Without
      <4>2. CASE Holds(h)
        <5>1. (CHOOSE i \in At(h) : TRUE) \in At(h) BY <4>2 DEF Holds
        <5>2. PICK i \in 1 .. Len(node) : Without(h) = RemoveAt(node, i) /\ node[i].key = h
          BY <2>1, <4>2, <5>1, LenProperties DEF Without, At
        <5> QED BY <2>1, <3>1, <5>2, RemoveKeepsGood
      <4> QED BY <4>1, <4>2
    <3>4. File(h, "good") \in Files /\ File(h, "temp") \in Files BY DEF File, Files
    <3> QED BY <2>4, <3>2, <3>3, <3>4, AppendKeepsGood DEF PrepareEntry
  <2>5. ASSUME fetching # None PROVE WithoutTemp \in Seq(Files) /\ GoodIn(WithoutTemp, k)
    <3>1. node # <<>> /\ node[Len(node)].body = "temp" BY <2>5 DEF CacheInv, CopyInv, FetchIsLast
    <3> QED BY <2>1, <3>1, FrontKeepsGood, FrontProperties DEF WithoutTemp
  <2>6. CASE FetchEnds
    <3>1. fetching \in Keys BY <2>6 DEF FetchEnds, CacheInv, TypeOK
    <3>2. \A body \in {"good", "bad"} : File(fetching, body) \in Files BY <3>1 DEF File, Files
    <3> QED BY <2>5, <2>6, <3>2, AppendKeepsGood DEF FetchEnds
  <2>7. CASE Evict
    <3>1. Removable \subseteq 1 .. Len(node) /\ Removable # {} BY <2>1, <2>7, LenProperties DEF Evict, Removable
    <3>2. Removable \in SUBSET Nat BY <2>1, <3>1
    <3>3. Min(Removable) \in Removable BY <3>1, <3>2, MinIsThere
    <3> DEFINE m == Min(Removable)
    <3> HIDE DEF m
    <3>4. m \in 1 .. Len(node) /\ ~Keeps(node[m]) BY <3>1, <3>3 DEF m, Removable
    <3>5. ~(node[m].key = k /\ node[m].body = "good") BY <3>4 DEF Keeps
    <3> QED BY <2>1, <2>7, <3>4, <3>5, RemoveKeepsGood DEF Evict, m
  <2>8. CASE Crash BY <2>1, <2>5, <2>8 DEF Crash
  <2>9. ASSUME NEW h \in Keys, Altered(h) PROVE FALSE
    BY <2>9 DEF Altered, Fault, CacheInv, TypeOK
  <2>10. CASE node' = node BY <2>1, <2>10
  <2> QED
    BY <2>4, <2>6, <2>7, <2>8, <2>9, <2>10 DEF Next, Preparing, Populating, Beating, PrepareBegins,
      PrepareEnds, Answer, AnswerLost, Handled, Enqueue, Take, Promote, Fetch, StoreDrops, vars,
      nodeVars
<1>2. CacheInv /\ [Next]_vars => [A]_vars BY <1>1
<1> QED BY <1>2, CacheInvariant, PTL DEF Spec, KeepsItsOwn

=============================================================================
