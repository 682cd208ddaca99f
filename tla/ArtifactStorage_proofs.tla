------------------------ MODULE ArtifactStorage_proofs ------------------------
(***************************************************************************)
(* Proofs about the artifact storage, for any number of artifacts,         *)
(* requests and contents, any quota, and any number of migrations at a     *)
(* time - or one at a time, if local files may be damaged.                 *)
(***************************************************************************)
EXTENDS ArtifactStorage, FiniteSetTheorems, TLAPS

-------------------------------------------------------------------------------
(* Sums over finite sets.  The library sums along the elements CHOOSE picks, *)
(* with a function on the subsets; facts about it are shown for a smallest   *)
(* subset for which they could fail.                                         *)

First(s) == CHOOSE x \in s : TRUE

\* g sums f over every subset of S.
SumsOf(f, S, g) ==
    g = [s \in SUBSET S |->
            IF s = {} THEN 0 ELSE LET x == First(s) IN f[x] + g[s \ {x}]]

\* Among subsets of a finite set, some is smallest.
LEMMA SmallestSubset ==
    ASSUME NEW S, IsFiniteSet(S), NEW B, B \subseteq SUBSET S, B # {}
    PROVE  \E T \in B : \A U \in B : U \subseteq T => U = T
<1>1. IsWellFoundedOn(StrictSubsetOrdering(S), SUBSET S)
    BY FS_StrictSubsetOrderingWellFounded, FS_FiniteSubsetsOfFinite
<1>2. PICK T \in B : \A U \in B : ~(<<U, T>> \in StrictSubsetOrdering(S))
    BY <1>1, WFMin
<1>3. ASSUME NEW U \in B, U \subseteq T PROVE U = T
    BY <1>2, <1>3 DEF StrictSubsetOrdering
<1> QED
    BY <1>3

\* The first element of a set is in it.
LEMMA FirstIsIn == ASSUME NEW s, s # {} PROVE First(s) \in s
BY DEF First

\* One step of the function.
LEMMA SumsStep ==
    ASSUME NEW f, NEW S, NEW g, SumsOf(f, S, g), NEW s \in SUBSET S
    PROVE  g[s] = IF s = {} THEN 0 ELSE f[First(s)] + g[s \ {First(s)}]
BY DEF SumsOf

\* There is at most one such function.
LEMMA SumsUnique ==
    ASSUME NEW f, NEW S, IsFiniteSet(S), NEW g, NEW h, SumsOf(f, S, g), SumsOf(f, S, h)
    PROVE  g = h
<1> DEFINE B == {s \in SUBSET S : g[s] # h[s]}
<1>1. g = [s \in SUBSET S |-> g[s]] /\ h = [s \in SUBSET S |-> h[s]]
    BY DEF SumsOf
<1>2. ASSUME B # {} PROVE FALSE
  <2>1. PICK T \in B : \A U \in B : U \subseteq T => U = T
    <3>1. B \subseteq SUBSET S
      OBVIOUS
    <3> HIDE DEF B
    <3> QED
      BY <1>2, <3>1, SmallestSubset
  <2>2. CASE T = {}
    BY <2>1, <2>2, SumsStep
  <2>3. CASE T # {}
    <3>1. First(T) \in T /\ T \in SUBSET S
      BY <2>1, <2>3, FirstIsIn
    <3>2. T \ {First(T)} \in SUBSET S /\ T \ {First(T)} \notin B
      BY <2>1, <3>1
    <3>3. g[T \ {First(T)}] = h[T \ {First(T)}]
      BY <3>2
    <3> QED
      BY <2>1, <2>3, <3>1, <3>3, SumsStep
  <2> QED
    BY <2>2, <2>3
<1> HIDE DEF B
<1>3. \A s \in SUBSET S : g[s] = h[s]
    BY <1>2 DEF B
<1> QED
    BY <1>1, <1>3

\* Restricted to the subsets of a subset, it sums over those.
LEMMA SumsRestrict ==
    ASSUME NEW f, NEW S, NEW g, SumsOf(f, S, g), NEW T \in SUBSET S
    PROVE  SumsOf(f, T, [s \in SUBSET T |-> g[s]])
<1> DEFINE h == [s \in SUBSET T |-> g[s]]
<1>1. ASSUME NEW s \in SUBSET T
      PROVE  h[s] = IF s = {} THEN 0 ELSE f[First(s)] + h[s \ {First(s)}]
    BY SumsStep
<1> HIDE DEF h
<1>2. h = [s \in SUBSET T |-> h[s]]
    BY DEF h
<1>3. SumsOf(f, T, h)
    BY <1>1, <1>2 DEF SumsOf
<1> QED
    BY <1>3 DEF h

\* The library's sum is what such a function says.
LEMMA SumIs ==
    ASSUME NEW f, NEW S, IsFiniteSet(S), NEW g, SumsOf(f, S, g)
    PROVE  SumFunctionOnSet(f, S) = g[S]
<1>1. SumFunctionOnSet(f, S) = (CHOOSE h : SumsOf(f, S, h))[S]
    BY DEF SumFunctionOnSet, FoldFunctionOnSet, MapThenFoldSet, SumsOf, First
<1>2. SumsOf(f, S, CHOOSE h : SumsOf(f, S, h))
    OBVIOUS
<1> QED
    BY <1>1, <1>2, SumsUnique

\* One step of the sum, where the function is there.
LEMMA SumUnfolds ==
    ASSUME NEW f, NEW S, IsFiniteSet(S), NEW g, SumsOf(f, S, g)
    PROVE  SumFunctionOnSet(f, S) =
             IF S = {} THEN 0 ELSE f[First(S)] + SumFunctionOnSet(f, S \ {First(S)})
<1>1. SumFunctionOnSet(f, S) = g[S]
    BY SumIs
<1>2. CASE S = {}
    BY <1>1, <1>2, SumsStep
<1>3. CASE S # {}
  <2>1. PICK T : T = S \ {First(S)}
    OBVIOUS
  <2>2. T \in SUBSET S /\ IsFiniteSet(T)
    BY <2>1, FS_Subset
  <2>3. SumsOf(f, T, [s \in SUBSET T |-> g[s]])
    BY <2>2, SumsRestrict
  <2>4. SumFunctionOnSet(f, T) = [s \in SUBSET T |-> g[s]][T]
    BY <2>2, <2>3, SumIs
  <2> QED
    BY <1>1, <1>3, <2>1, <2>4, SumsStep
<1> QED
    BY <1>2, <1>3

\* The function is there for every finite set.
LEMMA SumsExist ==
    ASSUME NEW f, NEW S, IsFiniteSet(S)
    PROVE  \E g : SumsOf(f, S, g)
<1> DEFINE B == {T \in SUBSET S : ~ \E g : SumsOf(f, T, g)}
<1> DEFINE V(s) == SumFunctionOnSet(f, s)
<1>1. ASSUME B # {} PROVE FALSE
  <2>1. PICK T \in B : \A U \in B : U \subseteq T => U = T
    <3>1. B \subseteq SUBSET S
      OBVIOUS
    <3> HIDE DEF B
    <3> QED
      BY <1>1, <3>1, SmallestSubset
  <2>2. T \in SUBSET S /\ ~ \E g : SumsOf(f, T, g)
    BY <2>1
  <2> DEFINE G == [s \in SUBSET T |-> IF s = T /\ s # {} THEN f[First(s)] + V(s \ {First(s)})
                                      ELSE IF s = {} THEN 0 ELSE V(s)]
  <2>3. ASSUME NEW s \in SUBSET T
        PROVE  G[s] = IF s = {} THEN 0 ELSE f[First(s)] + G[s \ {First(s)}]
    <3> DEFINE u == s \ {First(s)}
    <3>1. CASE s = {}
      BY <3>1
    <3>2. CASE s # {}
      <4>1. u \in SUBSET T /\ u # T
        BY <3>2, FirstIsIn
      <4>2. IsFiniteSet(u) /\ \E g : SumsOf(f, u, g)
        <5>1. u \in SUBSET S /\ u \notin B
          BY <2>1, <2>2, <4>1
        <5> QED
          BY <5>1, FS_Subset
      <4>3. G[u] = V(u)
        <5>1. CASE u = {}
          <6>1. V(u) = 0
            BY <4>2, <5>1, SumUnfolds
          <6> QED
            BY <4>1, <5>1, <6>1
        <5>2. CASE u # {}
          BY <4>1, <5>2
        <5> QED
          BY <5>1, <5>2
      <4>4. G[s] = f[First(s)] + V(u)
        <5>1. CASE s = T
          BY <3>2, <5>1
        <5>2. CASE s # T
          <6>1. s \in SUBSET S /\ s \notin B
            BY <2>1, <2>2, <5>2
          <6>2. IsFiniteSet(s) /\ \E g : SumsOf(f, s, g)
            BY <6>1, FS_Subset
          <6>3. V(s) = f[First(s)] + V(u)
            BY <3>2, <6>2, SumUnfolds
          <6> QED
            BY <3>2, <5>2, <6>3
        <5> QED
          BY <5>1, <5>2
      <4> QED
        BY <3>2, <4>3, <4>4
    <3> QED
      BY <3>1, <3>2
  <2>4. G = [s \in SUBSET T |-> G[s]]
    OBVIOUS
  <2> HIDE DEF G
  <2>5. SumsOf(f, T, G)
    BY <2>3, <2>4 DEF SumsOf
  <2> QED
    BY <2>2, <2>5
<1> QED
    BY <1>1

\* The sum over a set, by its first element.
LEMMA SumFirst ==
    ASSUME NEW f, NEW S, IsFiniteSet(S)
    PROVE  SumFunctionOnSet(f, S) =
             IF S = {} THEN 0 ELSE f[First(S)] + SumFunctionOnSet(f, S \ {First(S)})
BY SumsExist, SumUnfolds

\* The sum over nothing.
LEMMA SumEmpty == ASSUME NEW f PROVE SumFunctionOnSet(f, {}) = 0
<1>1. IsFiniteSet({})
    BY FS_EmptySet
<1>2. PICK S : S = {}
    OBVIOUS
<1>3. SumFunctionOnSet(f, S) = 0
    BY <1>1, <1>2, SumFirst
<1> QED
    BY <1>2, <1>3

\* A sum of natural numbers is one.
LEMMA SumIsNat ==
    ASSUME NEW f, NEW S, IsFiniteSet(S), \A s \in S : f[s] \in Nat
    PROVE  SumFunctionOnSet(f, S) \in Nat
<1> DEFINE B == {T \in SUBSET S : SumFunctionOnSet(f, T) \notin Nat}
<1>1. ASSUME B # {} PROVE FALSE
  <2>1. PICK T \in B : \A U \in B : U \subseteq T => U = T
    <3>1. B \subseteq SUBSET S
      OBVIOUS
    <3> HIDE DEF B
    <3> QED
      BY <1>1, <3>1, SmallestSubset
  <2>2. T \in SUBSET S /\ IsFiniteSet(T)
    BY <2>1, FS_Subset
  <2>3. T # {}
    BY <2>1, <2>2, SumFirst
  <2>4. First(T) \in T
    BY <2>3, FirstIsIn
  <2>5. T \ {First(T)} \in SUBSET S /\ T \ {First(T)} \notin B
    BY <2>1, <2>2, <2>4
  <2>6. SumFunctionOnSet(f, T \ {First(T)}) \in Nat /\ f[First(T)] \in Nat
    BY <2>2, <2>4, <2>5
  <2>7. SumFunctionOnSet(f, T) = f[First(T)] + SumFunctionOnSet(f, T \ {First(T)})
    BY <2>2, <2>3, SumFirst
  <2>8. SumFunctionOnSet(f, T) \in Nat
    BY <2>6, <2>7
  <2> QED
    BY <2>1, <2>8
<1> QED
    BY <1>1

\* Any element may be taken out of a sum.
LEMMA SumWithout ==
    ASSUME NEW f, NEW S, IsFiniteSet(S), \A s \in S : f[s] \in Nat, NEW y \in S
    PROVE  SumFunctionOnSet(f, S) = f[y] + SumFunctionOnSet(f, S \ {y})
<1> DEFINE Sum(s) == SumFunctionOnSet(f, s)
<1> DEFINE B == {T \in SUBSET S : \E x \in T : Sum(T) # f[x] + Sum(T \ {x})}
<1>1. ASSUME B # {} PROVE FALSE
  <2>1. PICK T \in B : \A U \in B : U \subseteq T => U = T
    <3>1. B \subseteq SUBSET S
      OBVIOUS
    <3> HIDE DEF B
    <3> QED
      BY <1>1, <3>1, SmallestSubset
  <2>2. PICK x \in T : Sum(T) # f[x] + Sum(T \ {x})
    BY <2>1
  <2>3. T \in SUBSET S /\ IsFiniteSet(T)
    BY <2>1, FS_Subset
  <2>4. PICK z \in T : Sum(T) = f[z] + Sum(T \ {z})
    BY <2>2, <2>3, SumFirst, FirstIsIn
  <2>5. z # x
    BY <2>2, <2>4
  <2>6. ASSUME NEW u \in T, NEW v \in T, u # v
        PROVE  Sum(T \ {u}) = f[v] + Sum((T \ {u}) \ {v})
    <3>1. T \ {u} \in SUBSET S /\ T \ {u} \notin B /\ v \in T \ {u}
      BY <2>1, <2>3, <2>6
    <3> QED
      BY <3>1
  <2>7. Sum(T \ {z}) = f[x] + Sum((T \ {z}) \ {x})
    BY <2>5, <2>6
  <2>8. Sum(T \ {x}) = f[z] + Sum((T \ {x}) \ {z})
    BY <2>5, <2>6
  <2>9. (T \ {z}) \ {x} = (T \ {x}) \ {z}
    OBVIOUS
  <2>10. f[x] \in Nat /\ f[z] \in Nat /\ Sum((T \ {x}) \ {z}) \in Nat
    <3>1. (T \ {x}) \ {z} \in SUBSET S /\ IsFiniteSet((T \ {x}) \ {z})
      BY <2>3, FS_Subset
    <3> QED
      BY <2>3, <3>1, SumIsNat
  <2> HIDE DEF Sum
  <2> QED
    BY <2>2, <2>4, <2>7, <2>8, <2>9, <2>10
<1> HIDE DEF B
<1>2. S \notin B
    BY <1>1
<1> QED
    BY <1>2 DEF B

\* Two functions that agree on a set have the same sum over it.
LEMMA SumSame ==
    ASSUME NEW f, NEW g, NEW S, IsFiniteSet(S), \A s \in S : f[s] = g[s]
    PROVE  SumFunctionOnSet(f, S) = SumFunctionOnSet(g, S)
<1> DEFINE B == {T \in SUBSET S : SumFunctionOnSet(f, T) # SumFunctionOnSet(g, T)}
<1>1. ASSUME B # {} PROVE FALSE
  <2>1. PICK T \in B : \A U \in B : U \subseteq T => U = T
    <3>1. B \subseteq SUBSET S
      OBVIOUS
    <3> HIDE DEF B
    <3> QED
      BY <1>1, <3>1, SmallestSubset
  <2>2. T \in SUBSET S /\ IsFiniteSet(T)
    BY <2>1, FS_Subset
  <2>3. T # {}
    BY <2>1, <2>2, SumFirst
  <2>4. First(T) \in T
    BY <2>3, FirstIsIn
  <2>5. T \ {First(T)} \in SUBSET S /\ T \ {First(T)} \notin B
    BY <2>1, <2>2, <2>4
  <2>6. SumFunctionOnSet(f, T \ {First(T)}) = SumFunctionOnSet(g, T \ {First(T)})
    BY <2>5
  <2> QED
    BY <2>1, <2>2, <2>3, <2>4, <2>6, SumFirst
<1> QED
    BY <1>1

-------------------------------------------------------------------------------
(* What holds of the rows, the bytes, the requests and the migrations.        *)

\* Damaged local files and two migrations at one time do not go together: the
\* second would copy over what the first has verified.
OneMigration == LocalFaults => \A m, n \in Migrators : m = n

Runs == [pc : {"idle", "running", "copied"}, work : SUBSET Artifacts,
         item : Artifacts \cup {NoArtifact}]

\* A request's record; what it measured and the revision it sent are not typed.
Shaped(q) ==
    \E used, expected :
        q \in [op : Operations, pc : {"idle", "ready", "locked", "cleanup", "opening"},
               target : Artifacts \cup {NoArtifact}, new : Artifacts \cup {NoArtifact},
               content : Contents \cup {NoContent}, backend : Backends,
               expected : {expected}, used : {used}, found : BOOLEAN]

ShapeInv ==
    /\ row \in [Artifacts -> Rows]
    /\ bytes \in [Backends -> [Artifacts -> Contents \cup {NoContent}]]
    /\ issued \subseteq Artifacts
    /\ told \in [Artifacts -> {"nothing", "success", "failure"}]
    /\ request = [r \in Requests |-> request[r]]
    /\ migration \in [Migrators -> Runs]
    /\ files \in {"intact", "damaged"}
    /\ files = "damaged" => LocalFaults

\* The backend has the content of the row, which its creator may rely on.
Held(b, a) == told[a] # "failure" => bytes[b][a] = row[a].content

\* The new artifact of a request is its own and not yet a row, its bytes are
\* stored until it failed; a target is a row, and a download's bytes are there.
RequestOK(q) ==
    /\ Shaped(q)
    /\ q.pc \in {"ready", "locked"} => q.op # "open"
    /\ q.new \in Artifacts => q.new \in issued /\ q.pc \in {"ready", "locked", "cleanup"}
    /\ q.new \in Artifacts /\ q.pc \in {"ready", "locked"} =>
          /\ ~Stored(q.new) /\ told[q.new] = "nothing"
          /\ files = "intact" \/ q.backend = "b2" => bytes[q.backend][q.new] = q.content
          /\ files = "intact" =>
                \A b \in Backends : bytes[b][q.new] \in {NoContent, q.content}
    /\ q.pc = "cleanup" => q.new \in Artifacts /\ told[q.new] = "failure"
    /\ q.target \in Artifacts => Stored(q.target)
    /\ q.pc = "opening" =>
          q.target \in Artifacts /\ (files = "intact" => Held(q.backend, q.target))

RequestsInv ==
    /\ \A r \in Requests : RequestOK(request[r])
    /\ \A r, s \in Requests :
          r # s /\ request[r].new \in Artifacts => request[s].new # request[r].new

\* What is not issued is nowhere; a row has its bytes; and while local files
\* are sound a backend has them or nothing.
RowOK(a) ==
    /\ a \notin issued =>
          ~Stored(a) /\ told[a] = "nothing" /\ \A b \in Backends : bytes[b][a] = NoContent
    /\ Stored(a) /\ (files = "intact" \/ row[a].backend = "b2") => Held(row[a].backend, a)
    /\ Stored(a) /\ files = "intact" =>
          \A b \in Backends : bytes[b][a] \in {NoContent, row[a].content}

RowsInv == \A a \in Artifacts : RowOK(a)

\* A run works on rows; what it has copied and verified is in B2.
RunOK(n) ==
    /\ n.pc = "idle" => n.work = {}
    /\ \A a \in n.work : Stored(a) /\ (LocalFaults => row[a].backend = "local")
    /\ n.pc = "copied" =>
          n.item \in Artifacts /\ n.item \notin n.work /\ Stored(n.item) /\ Held("b2", n.item)

RunsInv == \A m \in Migrators : RunOK(migration[m])

StoredInv == ShapeInv /\ RequestsInv /\ RowsInv /\ RunsInv

-------------------------------------------------------------------------------
(* What the handlers do to the tables and to the record of a request.        *)

\* One request's record changes.
LEMMA OneRequestChanges ==
    ASSUME ShapeInv, NEW r \in Requests, NEW q, request' = [request EXCEPT ![r] = q]
    PROVE  /\ request' = [s \in Requests |-> request'[s]]
           /\ request'[r] = q
           /\ \A s \in Requests \ {r} : request'[s] = request[s]
BY DEF ShapeInv

\* Bytes are put under one key of one backend.
LEMMA OneObjectChanges ==
    ASSUME ShapeInv, NEW b \in Backends, NEW a \in Artifacts,
           NEW c \in Contents \cup {NoContent}, PutAt(b, a, c)
    PROVE  /\ bytes' \in [Backends -> [Artifacts -> Contents \cup {NoContent}]]
           /\ bytes'[b][a] = c
           /\ \A d \in Backends, x \in Artifacts :
                 <<d, x>> # <<b, a>> => bytes'[d][x] = bytes[d][x]
BY DEF ShapeInv, PutAt

\* A request at rest.
LEMMA IdleIsOK == RequestOK(Idle) /\ Idle.new = NoArtifact /\ NoArtifact \notin Artifacts
<1>1. NoArtifact \notin Artifacts
    BY StorageAssumption
<1>2. Shaped(Idle)
    BY DEF Shaped, Idle, Operations, Backends
<1> QED
    BY <1>1, <1>2 DEF RequestOK, Idle

\* A step in which only one request's record changes.
LEMMA RequestMoves ==
    ASSUME StoredInv, NEW r \in Requests, NEW q, request' = [request EXCEPT ![r] = q],
           UNCHANGED <<row, bytes, issued, told, migration, files>>,
           RequestOK(q), q.new \in {NoArtifact, request[r].new}
    PROVE  StoredInv'
<1>1. /\ request' = [s \in Requests |-> request'[s]] /\ request'[r] = q
      /\ \A s \in Requests \ {r} : request'[s] = request[s]
    BY OneRequestChanges DEF StoredInv
<1>2. ShapeInv' /\ RowsInv' /\ RunsInv'
    BY <1>1 DEF StoredInv, ShapeInv, RowsInv, RowOK, RunsInv, RunOK, Stored, Held
<1>3. ASSUME NEW p, RequestOK(p) PROVE RequestOK(p)'
    BY <1>3 DEF RequestOK, Stored, Held
<1>4. \A s \in Requests : RequestOK(request[s])'
  <2> SUFFICES ASSUME NEW s \in Requests PROVE RequestOK(request[s])'
    OBVIOUS
  <2>1. CASE s = r
    BY <1>1, <2>1 DEF RequestOK, Stored, Held
  <2>2. CASE s # r
    BY <1>1, <2>2 DEF StoredInv, RequestsInv, RequestOK, Stored, Held
  <2> QED
    BY <2>1, <2>2
<1>5. NoArtifact \notin Artifacts
    BY StorageAssumption
<1>6. RequestsInv'
    BY <1>1, <1>4, <1>5 DEF StoredInv, RequestsInv
<1> QED
    BY <1>2, <1>6 DEF StoredInv

\* A request's step on the tables concerns one artifact: one that is not yet a
\* row, or one whose creator was told that it failed.
Concerns(k) ==
    /\ \A a \in Artifacts \ {k} :
          /\ Stored(a)' <=> Stored(a)
          /\ row'[a].content = row[a].content /\ row'[a].backend = row[a].backend
          /\ told'[a] = told[a] /\ (a \in issued' <=> a \in issued)
          /\ \A b \in Backends : bytes'[b][a] = bytes[b][a]
    /\ k \in Artifacts =>
          /\ k \in issued'
          /\ \/ ~Stored(k)
             \/ told[k] = "failure" /\ told'[k] = "failure" /\ row'[k] = row[k]

\* The other requests do not notice.
LEMMA OthersStayOK ==
    ASSUME NEW k, Concerns(k), UNCHANGED files, NEW p, RequestOK(p), k \in Artifacts => p.new # k
    PROVE  RequestOK(p)'
<1>1. /\ p.new \in Artifacts \cup {NoArtifact} /\ p.target \in Artifacts \cup {NoArtifact}
      /\ p.backend \in Backends
    BY DEF RequestOK, Shaped
<1>2. p.target \in Artifacts =>
        /\ Stored(p.target)'
        /\ files = "intact" /\ Held(p.backend, p.target) => Held(p.backend, p.target)'
  <2> SUFFICES ASSUME p.target \in Artifacts
               PROVE  /\ Stored(p.target)'
                      /\ Held(p.backend, p.target) => Held(p.backend, p.target)'
    OBVIOUS
  <2>1. Stored(p.target)
    BY DEF RequestOK
  <2>2. CASE p.target = k
    BY <2>1, <2>2 DEF Concerns, Stored, Held
  <2>3. CASE p.target # k
    BY <1>1, <2>1, <2>3 DEF Concerns, Held
  <2> QED
    BY <2>2, <2>3
<1>3. p.new \in Artifacts =>
        /\ p.new \in issued => p.new \in issued'
        /\ Stored(p.new)' <=> Stored(p.new)
        /\ told'[p.new] = told[p.new]
        /\ \A b \in Backends : bytes'[b][p.new] = bytes[b][p.new]
    BY DEF Concerns
<1> QED
    BY <1>1, <1>2, <1>3 DEF RequestOK, Shaped

\* A request's step on the tables, put together.
LEMMA TablesMove ==
    ASSUME StoredInv, NEW r \in Requests, NEW q, request' = [request EXCEPT ![r] = q],
           NEW k, Concerns(k), ShapeInv', UNCHANGED <<migration, files>>, RequestOK(q)',
           q.new \in {NoArtifact, k, request[r].new},
           k \in Artifacts =>
               RowOK(k)' /\ \A s \in Requests \ {r} : request[s].new # k
    PROVE  StoredInv'
<1>1. /\ request'[r] = q
      /\ \A s \in Requests \ {r} : request'[s] = request[s]
    BY OneRequestChanges DEF StoredInv
<1>2. ASSUME NEW s \in Requests PROVE RequestOK(request[s])'
  <2>1. CASE s = r
    <3>1. request'[s] = q
      BY <1>1, <2>1
    <3> QED
      BY <3>1 DEF RequestOK, Stored, Held
  <2>2. CASE s # r
    <3>1. PICK p : p = request[s] /\ p = request'[s]
      BY <1>1, <2>2
    <3>2. RequestOK(p) /\ (k \in Artifacts => p.new # k)
      BY <2>2, <3>1 DEF StoredInv, RequestsInv
    <3>3. RequestOK(p)'
      BY <3>2, OthersStayOK
    <3> QED
      BY <3>1, <3>3 DEF RequestOK, Stored, Held
  <2> QED
    BY <2>1, <2>2
<1>3. NoArtifact \notin Artifacts
    BY StorageAssumption
<1>4. RequestsInv'
    BY <1>1, <1>2, <1>3 DEF StoredInv, RequestsInv
<1>5. RowsInv'
  <2> SUFFICES ASSUME NEW a \in Artifacts PROVE RowOK(a)'
    BY DEF RowsInv
  <2>1. CASE a = k
    BY <2>1
  <2>2. CASE a # k
    <3>1. RowOK(a) /\ row[a].backend \in Backends
      BY DEF StoredInv, RowsInv, ShapeInv, Rows
    <3> QED
      BY <2>2, <3>1 DEF Concerns, RowOK, Held
  <2> QED
    BY <2>1, <2>2
<1>6. RunsInv'
  <2> SUFFICES ASSUME NEW m \in Migrators PROVE RunOK(migration[m])'
    BY DEF RunsInv
  <2>1. RunOK(migration[m]) /\ migration[m].work \subseteq Artifacts /\ migration'[m] = migration[m]
    BY DEF StoredInv, RunsInv, ShapeInv, Runs
  <2>2. \A a \in Artifacts : Stored(a) =>
          /\ Stored(a)' /\ row'[a].backend = row[a].backend
          /\ Held("b2", a) => Held("b2", a)'
    BY DEF Concerns, Held, Backends, Stored
  <2> QED
    BY <2>1, <2>2 DEF RunOK
<1> QED
    BY <1>4, <1>5, <1>6 DEF StoredInv

-------------------------------------------------------------------------------
(* The steps of a request.                                                   *)

\* Operations that start with their transaction.
LEMMA BeginKeeps ==
    ASSUME StoredInv, NEW r \in Requests, NEW op \in Operations \ {"open"}, Begin(r, op)
    PROVE  StoredInv'
<1>1. PICK a \in Artifacts :
        /\ Stored(a)
        /\ request' = [request EXCEPT ![r] =
              [Idle EXCEPT !.op = op, !.pc = "ready", !.target = a,
                           !.expected = row[a].revision]]
        /\ UNCHANGED <<row, bytes, issued, told, migration, files>>
    BY DEF Begin
<1>2. PICK q : q = [Idle EXCEPT !.op = op, !.pc = "ready", !.target = a,
                                !.expected = row[a].revision]
    OBVIOUS
<1>3. q.pc = "ready" /\ q.target = a /\ q.new = NoArtifact /\ q.op = op
    BY <1>2 DEF Idle
<1>4. Shaped(q)
    BY <1>2 DEF Shaped, Idle, Backends
<1>5. RequestOK(q)
    BY <1>1, <1>3, <1>4, IdleIsOK DEF RequestOK
<1> QED
    BY <1>1, <1>2, <1>3, <1>5, RequestMoves

\* The row lock and what is read under it.
LEMMA LockKeeps ==
    ASSUME StoredInv, NEW r \in Requests, LockProject(r)
    PROVE  StoredInv'
<1>1. /\ request[r].pc = "ready" /\ request' = [request EXCEPT ![r] = Measured(r)]
      /\ UNCHANGED <<row, bytes, issued, told, migration, files>>
    BY DEF LockProject, At
<1>2. PICK q : q = request[r] /\ RequestOK(q) /\ Shaped(q)
    BY DEF StoredInv, RequestsInv, RequestOK
<1>3. PICK found \in BOOLEAN :
        found = IF request[r].op = "restore" THEN Exists(request[r].target) ELSE FALSE
    BY DEF Exists
<1>4. PICK x, sum : /\ x = [q EXCEPT !.pc = "locked", !.used = sum, !.found = found]
                    /\ x = Measured(r)
    BY <1>2, <1>3 DEF Measured
<1>5. /\ Shaped(x) /\ x.pc = "locked" /\ x.target = q.target /\ x.new = q.new
      /\ x.content = q.content /\ x.backend = q.backend /\ x.op = q.op
  <2>1. PICK used, expected :
          q \in [op : Operations, pc : {"idle", "ready", "locked", "cleanup", "opening"},
                 target : Artifacts \cup {NoArtifact}, new : Artifacts \cup {NoArtifact},
                 content : Contents \cup {NoContent}, backend : Backends,
                 expected : {expected}, used : {used}, found : BOOLEAN]
    BY <1>2 DEF Shaped
  <2>2. x \in [op : Operations, pc : {"idle", "ready", "locked", "cleanup", "opening"},
               target : Artifacts \cup {NoArtifact}, new : Artifacts \cup {NoArtifact},
               content : Contents \cup {NoContent}, backend : Backends,
               expected : {expected}, used : {sum}, found : BOOLEAN]
    BY <1>3, <1>4, <2>1
  <2>3. Shaped(x)
    BY <2>2 DEF Shaped
  <2> QED
    BY <1>4, <2>1, <2>3
<1>6. RequestOK(x)
    BY <1>1, <1>2, <1>5 DEF RequestOK
<1> QED
    BY <1>1, <1>2, <1>3, <1>4, <1>5, <1>6, RequestMoves

\* A download reads its row.
LEMMA OpenKeeps ==
    ASSUME StoredInv, NEW r \in Requests, OpenPublic(r)
    PROVE  StoredInv'
<1>1. PICK a \in Artifacts :
        /\ Active(a)
        /\ request' = [request EXCEPT ![r] =
              [Idle EXCEPT !.pc = "opening", !.target = a,
                           !.backend = row[a].backend]]
        /\ UNCHANGED <<row, bytes, issued, told, migration, files>>
    BY DEF OpenPublic
<1>2. PICK q : q = [Idle EXCEPT !.pc = "opening", !.target = a,
                                !.backend = row[a].backend]
    OBVIOUS
<1>3. q.pc = "opening" /\ q.target = a /\ q.new = NoArtifact /\ q.backend = row[a].backend
    BY <1>2 DEF Idle
<1>4. row[a].backend \in Backends
    BY DEF StoredInv, ShapeInv, Rows
<1>5. Shaped(q)
    BY <1>2, <1>4 DEF Shaped, Idle, Operations
<1>6. Stored(a) /\ (files = "intact" => Held(q.backend, a))
    BY <1>1, <1>3 DEF Active, Stored, StoredInv, RowsInv, RowOK
<1>7. RequestOK(q)
    BY <1>3, <1>5, <1>6, IdleIsOK DEF RequestOK
<1> QED
    BY <1>1, <1>2, <1>3, <1>7, RequestMoves

\* A request ends, or its process does.
LEMMA EndKeeps ==
    ASSUME StoredInv, NEW r \in Requests, OpenContent(r) \/ Vanish(r)
    PROVE  StoredInv'
<1>1. request' = [request EXCEPT ![r] = Idle] /\ UNCHANGED <<row, bytes, issued, told, migration, files>>
    BY DEF OpenContent, Vanish
<1> QED
    BY <1>1, IdleIsOK, RequestMoves

\* The project moves.
LEMMA ProjectKeeps ==
    ASSUME StoredInv, UNCHANGED <<row, bytes, issued, told, request, migration, files>>
    PROVE  StoredInv'
<1>1. ShapeInv' /\ RowsInv' /\ RunsInv'
    BY DEF StoredInv, ShapeInv, RowsInv, RowOK, RunsInv, RunOK, Stored, Held
<1>2. RequestsInv'
    BY DEF StoredInv, RequestsInv, RequestOK, Stored, Held
<1> QED
    BY <1>1, <1>2 DEF StoredInv

\* The default backend of a process is a backend.
LEMMA DefaultIsBackend ==
    ASSUME NEW option \in Defaults PROVE DefaultName(option) \in Backends
BY StorageAssumption DEF DefaultName, Backends

\* Nobody works on what is not issued.
LEMMA UnissuedIsUnknown ==
    ASSUME StoredInv, NEW a \in Artifacts \ issued
    PROVE  /\ ~Stored(a) /\ told[a] = "nothing"
           /\ \A b \in Backends : bytes[b][a] = NoContent
           /\ \A s \in Requests : request[s].new # a
BY DEF StoredInv, RowsInv, RowOK, RequestsInv, RequestOK

\* Bytes are stored, and kept or refused, before any transaction.
LEMMA StoreKeeps ==
    ASSUME StoredInv, NEW r \in Requests, NEW op \in Operations \ {"open"},
           NEW target \in Artifacts \cup {NoArtifact}, NEW expected,
           target \in Artifacts => Stored(target),
           Store(r, op, target, expected)
    PROVE  StoredInv'
<1>1. PICK a \in Artifacts \ issued, c \in Contents, option \in Defaults,
           pc \in {"ready", "cleanup"} :
        /\ At(r, "idle")
        /\ PutAt(DefaultName(option), a, c)
        /\ issued' = issued \cup {a}
        /\ told' = [told EXCEPT ![a] = IF pc = "ready" THEN @ ELSE "failure"]
        /\ request' = [request EXCEPT ![r] =
              [Idle EXCEPT !.op = op, !.pc = pc, !.target = target, !.new = a,
                           !.content = c, !.backend = DefaultName(option),
                           !.expected = expected]]
        /\ UNCHANGED <<project, row, lock, migration, files>>
    BY Zenon DEF Store
<1>2. PICK b \in Backends : b = DefaultName(option)
    BY DefaultIsBackend
<1>3. PICK q : q = [Idle EXCEPT !.op = op, !.pc = pc, !.target = target, !.new = a,
                                !.content = c, !.backend = b, !.expected = expected]
    OBVIOUS
<1>4. /\ q.pc = pc /\ q.target = target /\ q.new = a /\ q.content = c /\ q.backend = b
      /\ q.op = op
    BY <1>3 DEF Idle
<1>5. Shaped(q)
    BY <1>2, <1>3 DEF Shaped, Idle
<1>6. /\ bytes' \in [Backends -> [Artifacts -> Contents \cup {NoContent}]]
      /\ bytes'[b][a] = c
      /\ \A d \in Backends, x \in Artifacts :
            <<d, x>> # <<b, a>> => bytes'[d][x] = bytes[d][x]
    BY <1>1, <1>2, OneObjectChanges DEF StoredInv
<1>7. /\ ~Stored(a) /\ told[a] = "nothing"
      /\ \A d \in Backends : bytes[d][a] = NoContent
      /\ \A s \in Requests : request[s].new # a
    BY UnissuedIsUnknown
<1>8. /\ told' \in [Artifacts -> {"nothing", "success", "failure"}]
      /\ told'[a] = IF pc = "ready" THEN "nothing" ELSE "failure"
      /\ \A x \in Artifacts \ {a} : told'[x] = told[x]
    BY <1>1, <1>7 DEF StoredInv, ShapeInv
<1>9. request' = [s \in Requests |-> request'[s]]
    BY <1>1, OneRequestChanges DEF StoredInv
<1>10. ShapeInv'
    BY <1>1, <1>6, <1>8, <1>9 DEF StoredInv, ShapeInv
<1>11. Concerns(a)
    BY <1>1, <1>6, <1>7, <1>8 DEF Concerns, Stored
<1>12. ~Stored(a)' /\ (target \in Artifacts => Stored(target)')
    BY <1>1, <1>7 DEF Stored
<1>13. RequestOK(q)'
    BY <1>1, <1>4, <1>5, <1>6, <1>7, <1>8, <1>12 DEF RequestOK, Shaped
<1>14. RowOK(a)'
    BY <1>1, <1>12 DEF RowOK
<1>15. /\ request' = [request EXCEPT ![r] = q] /\ UNCHANGED <<migration, files>>
       /\ q.new \in {NoArtifact, a, request[r].new}
    BY <1>1, <1>2, <1>3, <1>4
<1>16. a \in Artifacts => RowOK(a)' /\ \A s \in Requests \ {r} : request[s].new # a
    BY <1>7, <1>14
<1> QED
    BY <1>10, <1>11, <1>13, <1>15, <1>16, TablesMove

\* Storing fails, perhaps after B2 has kept the object.
LEMMA PutFailsKeeps ==
    ASSUME StoredInv, NEW r \in Requests, PutFails(r)
    PROVE  StoredInv'
<1>1. PICK a \in Artifacts \ issued, c \in Contents, option \in Defaults :
        /\ bytes' \in {bytes} \cup
              (IF DefaultName(option) = "b2" THEN {[bytes EXCEPT !["b2"][a] = c]} ELSE {})
        /\ issued' = issued \cup {a}
        /\ told' = [told EXCEPT ![a] = "failure"]
        /\ UNCHANGED <<row, request, migration, files>>
    BY DEF PutFails
<1>2. /\ bytes' \in [Backends -> [Artifacts -> Contents \cup {NoContent}]]
      /\ \A d \in Backends, x \in Artifacts \ {a} : bytes'[d][x] = bytes[d][x]
  <2>1. CASE bytes' = bytes
    BY <2>1 DEF StoredInv, ShapeInv
  <2>2. CASE PutAt("b2", a, c)
    BY <2>2, OneObjectChanges DEF StoredInv, Backends
  <2> QED
    BY <1>1, <2>1, <2>2 DEF PutAt
<1>3. /\ ~Stored(a) /\ \A s \in Requests : request[s].new # a
    BY UnissuedIsUnknown
<1>4. /\ told' \in [Artifacts -> {"nothing", "success", "failure"}]
      /\ \A x \in Artifacts \ {a} : told'[x] = told[x]
    BY <1>1 DEF StoredInv, ShapeInv
<1>5. ShapeInv'
    BY <1>1, <1>2, <1>4 DEF StoredInv, ShapeInv
<1>6. Concerns(a)
    BY <1>1, <1>2, <1>3, <1>4 DEF Concerns, Stored
<1>7. ~Stored(a)' /\ RowOK(a)'
    BY <1>1, <1>3 DEF RowOK, Stored
<1>8. request' = [request EXCEPT ![r] = request[r]]
    BY <1>1 DEF StoredInv, ShapeInv
<1>9. PICK q : q = request[r] /\ RequestOK(q)
    BY DEF StoredInv, RequestsInv
<1>10. RequestOK(q)'
    BY <1>1, <1>3, <1>6, <1>9, OthersStayOK
<1> QED
    BY <1>1, <1>3, <1>5, <1>6, <1>7, <1>8, <1>9, <1>10, TablesMove

\* A transaction that fails, or is refused, leaves the new bytes to be removed.
LEMMA AbortKeeps ==
    ASSUME StoredInv, NEW r \in Requests, Abort(r)
    PROVE  StoredInv'
<1>1. /\ request[r].pc \in {"ready", "locked"} /\ Answer(r, "failure")
      /\ request' = [request EXCEPT ![r] =
            IF request[r].new = NoArtifact THEN Idle ELSE [request[r] EXCEPT !.pc = "cleanup"]]
      /\ UNCHANGED <<row, bytes, issued, migration, files>>
    BY DEF Abort, At
<1>2. PICK q : q = request[r] /\ RequestOK(q) /\ Shaped(q)
    BY DEF StoredInv, RequestsInv, RequestOK
<1>3. CASE q.new = NoArtifact
  <2>1. request' = [request EXCEPT ![r] = Idle] /\ told' = told
    BY <1>1, <1>2, <1>3 DEF Answer
  <2> QED
    BY <1>1, <2>1, IdleIsOK, RequestMoves
<1>4. CASE q.new # NoArtifact
  <2>1. PICK a \in Artifacts : a = q.new
    BY <1>2, <1>4 DEF Shaped
  <2>2. PICK x : x = [q EXCEPT !.pc = "cleanup"]
    OBVIOUS
  <2>3. /\ Shaped(x) /\ x.pc = "cleanup" /\ x.target = q.target /\ x.new = a
    BY <1>2, <2>1, <2>2 DEF Shaped
  <2>4. /\ request' = [request EXCEPT ![r] = x] /\ told' = [told EXCEPT ![a] = "failure"]
    BY <1>1, <1>2, <1>4, <2>1, <2>2 DEF Answer
  <2>5. /\ told' \in [Artifacts -> {"nothing", "success", "failure"}]
        /\ told'[a] = "failure" /\ \A y \in Artifacts \ {a} : told'[y] = told[y]
    BY <2>4 DEF StoredInv, ShapeInv
  <2>6. request' = [s \in Requests |-> request'[s]]
    BY <2>4, OneRequestChanges DEF StoredInv
  <2>7. ShapeInv'
    BY <1>1, <2>5, <2>6 DEF StoredInv, ShapeInv
  <2>8. ~Stored(a) /\ a \in issued /\ (q.target \in Artifacts => Stored(q.target))
    BY <1>1, <1>2, <2>1 DEF RequestOK
  <2>9. Concerns(a)
    BY <1>1, <2>5, <2>8 DEF Concerns, Stored
  <2>10. RequestOK(x)'
    BY <1>1, <2>1, <2>3, <2>5, <2>8 DEF RequestOK, Stored, Shaped
  <2>11. RowOK(a)'
    BY <1>1, <2>8 DEF RowOK, Stored
  <2>12. \A s \in Requests \ {r} : request[s].new # a
    BY <1>2, <2>1 DEF StoredInv, RequestsInv
  <2>13. a \in Artifacts => RowOK(a)' /\ \A s \in Requests \ {r} : request[s].new # a
    BY <2>11, <2>12
  <2>14. UNCHANGED <<migration, files>> /\ x.new \in {NoArtifact, a, request[r].new}
    BY <1>1, <2>3
  <2> QED
    BY <2>4, <2>7, <2>9, <2>10, <2>13, <2>14, TablesMove
<1> QED
    BY <1>3, <1>4

\* The new bytes are removed, or their removal fails.
LEMMA CleanUpKeeps ==
    ASSUME StoredInv, NEW r \in Requests, CleanUp(r)
    PROVE  StoredInv'
<1>1. /\ request[r].pc = "cleanup" /\ request' = [request EXCEPT ![r] = Idle]
      /\ \/ PutAt(request[r].backend, request[r].new, NoContent)
         \/ bytes' = bytes
      /\ UNCHANGED <<row, issued, told, migration, files>>
    BY DEF CleanUp, RemoveNew, At
<1>2. PICK a \in Artifacts, b \in Backends :
        /\ a = request[r].new /\ b = request[r].backend /\ told[a] = "failure" /\ a \in issued
        /\ \A s \in Requests \ {r} : request[s].new # a
    BY <1>1 DEF StoredInv, RequestsInv, RequestOK, Shaped
<1>3. /\ bytes' \in [Backends -> [Artifacts -> Contents \cup {NoContent}]]
      /\ \A d \in Backends, x \in Artifacts \ {a} : bytes'[d][x] = bytes[d][x]
      /\ \A d \in Backends : bytes'[d][a] \in {bytes[d][a], NoContent}
  <2>1. CASE bytes' = bytes
    BY <2>1 DEF StoredInv, ShapeInv
  <2>2. CASE PutAt(b, a, NoContent)
    BY <2>2, OneObjectChanges DEF StoredInv
  <2> QED
    BY <1>1, <1>2, <2>1, <2>2
<1>4. request' = [s \in Requests |-> request'[s]]
    BY <1>1, OneRequestChanges DEF StoredInv
<1>5. ShapeInv'
    BY <1>1, <1>3, <1>4 DEF StoredInv, ShapeInv
<1>6. Concerns(a)
    BY <1>1, <1>2, <1>3 DEF Concerns, Stored
<1>7. RowOK(a)'
    BY <1>1, <1>2, <1>3 DEF StoredInv, RowsInv, RowOK, Stored, Held
<1>8. RequestOK(Idle)'
    BY IdleIsOK DEF RequestOK, Idle
<1>9. a \in Artifacts => RowOK(a)' /\ \A s \in Requests \ {r} : request[s].new # a
    BY <1>2, <1>7
<1>10. /\ request' = [request EXCEPT ![r] = Idle] /\ UNCHANGED <<migration, files>>
       /\ Idle.new \in {NoArtifact, a, request[r].new}
    BY <1>1, IdleIsOK
<1> QED
    BY <1>5, <1>6, <1>8, <1>9, <1>10, TablesMove

\* What a committed transaction writes: the new row, and the target's status.
LEMMA WrittenRows ==
    ASSUME StoredInv, NEW r \in Requests, NEW q, q = request[r], RequestOK(q),
           q.pc = "locked", row' = Written(r)
    PROVE  /\ row' \in [Artifacts -> Rows]
           /\ \A a \in Artifacts : a # q.new =>
                 /\ Stored(a)' <=> Stored(a)
                 /\ row'[a].content = row[a].content /\ row'[a].backend = row[a].backend
           /\ q.new \in Artifacts => row'[q.new] = [status |-> "active", backend |-> q.backend,
                                                    content |-> q.content, revision |-> 1]
<1>1. q.new \in Artifacts => q.new # q.target
    BY DEF RequestOK
<1>2. /\ row' = [a \in Artifacts |-> row'[a]]
      /\ q.new \in Artifacts => row'[q.new] = [status |-> "active", backend |-> q.backend,
                                               content |-> q.content, revision |-> 1]
      /\ \A a \in Artifacts : a # q.new /\ a # q.target => row'[a] = row[a]
    BY <1>1 DEF Written
<1>3. ASSUME NEW a \in Artifacts, a # q.new
      PROVE  /\ row'[a] \in Rows /\ (Stored(a)' <=> Stored(a))
             /\ row'[a].content = row[a].content /\ row'[a].backend = row[a].backend
  <2>1. row[a] \in Rows
    BY DEF StoredInv, ShapeInv
  <2>2. CASE a = q.target
    <3>1. PICK status : /\ status = CASE q.op \in {"replace", "delete"} -> "deleted"
                                      [] q.op = "restore" -> "active"
                                      [] OTHER -> row[q.target].status
                        /\ row'[a] = [row[a] EXCEPT !.status = status,
                                                   !.revision = row[a].revision + 1]
      BY <1>3, <2>2 DEF Written
    <3>2. status \in {"active", "deleted"} /\ row[a].status \in {"active", "deleted"}
      BY <2>1, <2>2, <3>1 DEF RequestOK, Stored, Rows
    <3>3. row[a].revision + 1 \in Nat
      BY <2>1 DEF Rows
    <3>5. row'[a] \in Rows /\ row'[a].status = status
          /\ row'[a].content = row[a].content /\ row'[a].backend = row[a].backend
      BY <2>1, <3>1, <3>2, <3>3 DEF Rows
    <3> QED
      BY <3>2, <3>5 DEF Stored
  <2>3. CASE a # q.target
    <3>1. row'[a] = row[a]
      BY <1>2, <1>3, <2>3
    <3> QED
      BY <2>1, <3>1 DEF Stored
  <2> QED
    BY <2>2, <2>3
<1>4. ASSUME q.new \in Artifacts
      PROVE  /\ row'[q.new] = [status |-> "active", backend |-> q.backend,
                               content |-> q.content, revision |-> 1]
             /\ row'[q.new] \in Rows
  <2>1. row'[q.new] = [status |-> "active", backend |-> q.backend,
                       content |-> q.content, revision |-> 1]
    BY <1>2, <1>4
  <2>2. q.backend \in Backends /\ q.content \in Contents \cup {NoContent}
    BY DEF RequestOK, Shaped
  <2> QED
    BY <2>1, <2>2 DEF Rows
<1>5. row' = [a \in Artifacts |-> row'[a]]
    BY <1>2
<1>6. \A a \in Artifacts : row'[a] \in Rows
    BY <1>3, <1>4
<1>7. row' \in [Artifacts -> Rows]
    BY <1>5, <1>6
<1> QED
    BY <1>3, <1>4, <1>7

\* A commit, heard of or not.
LEMMA CommitKeeps ==
    ASSUME StoredInv, NEW r \in Requests, Commit(r)
    PROVE  StoredInv'
<1>1. /\ request[r].pc = "locked" /\ row' = Written(r)
      /\ \/ Answer(r, "success") /\ request' = [request EXCEPT ![r] = Idle]
         \/ /\ Answer(r, "failure")
            /\ request' = [request EXCEPT ![r] = IF request[r].new = NoArtifact THEN Idle
                                                ELSE [request[r] EXCEPT !.pc = "cleanup"]]
      /\ UNCHANGED <<bytes, issued, migration, files>>
    BY DEF Commit, At
<1>2. PICK q : q = request[r] /\ RequestOK(q) /\ Shaped(q)
    BY DEF StoredInv, RequestsInv, RequestOK
<1>3. /\ row' \in [Artifacts -> Rows]
      /\ \A a \in Artifacts : a # q.new =>
            /\ Stored(a)' <=> Stored(a)
            /\ row'[a].content = row[a].content /\ row'[a].backend = row[a].backend
      /\ q.new \in Artifacts => row'[q.new] = [status |-> "active", backend |-> q.backend,
                                               content |-> q.content, revision |-> 1]
    BY <1>1, <1>2, WrittenRows
<1>4. NoArtifact \notin Artifacts
    BY StorageAssumption
<1>5. CASE q.new = NoArtifact
  <2>1. request' = [request EXCEPT ![r] = Idle] /\ told' = told
    BY <1>1, <1>2, <1>5 DEF Answer
  <2>2. request' = [s \in Requests |-> request'[s]]
    BY <2>1, OneRequestChanges DEF StoredInv
  <2>3. ShapeInv'
    BY <1>1, <1>3, <2>1, <2>2 DEF StoredInv, ShapeInv
  <2>4. Concerns(NoArtifact)
    BY <1>1, <1>3, <1>4, <1>5, <2>1 DEF Concerns
  <2>5. RequestOK(Idle)'
    BY IdleIsOK DEF RequestOK, Idle
  <2> QED
    BY <1>1, <1>4, <2>1, <2>3, <2>4, <2>5, IdleIsOK, TablesMove
<1>6. CASE q.new # NoArtifact
  <2>1. PICK a \in Artifacts : a = q.new
    BY <1>2, <1>6 DEF Shaped
  <2>2. /\ ~Stored(a) /\ a \in issued /\ q.target # a
        /\ files = "intact" \/ q.backend = "b2" => bytes[q.backend][a] = q.content
        /\ files = "intact" => \A b \in Backends : bytes[b][a] \in {NoContent, q.content}
    BY <1>1, <1>2, <2>1 DEF RequestOK
  <2>3. /\ Stored(a)' /\ row'[a].backend = q.backend /\ row'[a].content = q.content
    BY <1>3, <2>1 DEF Stored
  <2>4. RowOK(a)'
    BY <1>1, <2>2, <2>3 DEF RowOK, Held
  <2>5. \A s \in Requests \ {r} : request[s].new # a
    BY <1>2, <2>1 DEF StoredInv, RequestsInv
  <2>6. PICK x, verdict :
          /\ request' = [request EXCEPT ![r] = x] /\ told' = [told EXCEPT ![a] = verdict]
          /\ verdict \in {"success", "failure"}
          /\ \/ x = Idle
             \/ verdict = "failure" /\ x = [q EXCEPT !.pc = "cleanup"]
    <3>1. CASE Answer(r, "success") /\ request' = [request EXCEPT ![r] = Idle]
      BY <1>2, <1>6, <2>1, <3>1 DEF Answer
    <3>2. CASE /\ Answer(r, "failure")
               /\ request' = [request EXCEPT ![r] = [q EXCEPT !.pc = "cleanup"]]
      BY <1>2, <1>6, <2>1, <3>2 DEF Answer
    <3> QED
      BY <1>1, <1>2, <1>6, <3>1, <3>2
  <2>7. /\ told' \in [Artifacts -> {"nothing", "success", "failure"}]
        /\ told'[a] = verdict /\ \A y \in Artifacts \ {a} : told'[y] = told[y]
    BY <2>6 DEF StoredInv, ShapeInv
  <2>8. request' = [s \in Requests |-> request'[s]]
    BY <2>6, OneRequestChanges DEF StoredInv
  <2>9. ShapeInv'
    BY <1>1, <1>3, <2>7, <2>8 DEF StoredInv, ShapeInv
  <2>10. Concerns(a)
    BY <1>1, <1>3, <2>1, <2>2, <2>7 DEF Concerns
  <2>11. RequestOK(x)' /\ x.new \in {NoArtifact, a}
    <3>1. CASE x = Idle
      BY <3>1, IdleIsOK DEF RequestOK, Idle
    <3>2. CASE verdict = "failure" /\ x = [q EXCEPT !.pc = "cleanup"]
      <4>1. Shaped(x) /\ x.pc = "cleanup" /\ x.target = q.target /\ x.new = a
        BY <1>2, <2>1, <3>2 DEF Shaped
      <4>2. q.target \in Artifacts => Stored(q.target)'
        BY <1>2, <1>3, <2>1, <2>2 DEF RequestOK
      <4> QED
        BY <1>1, <2>2, <2>7, <3>2, <4>1, <4>2 DEF RequestOK, Shaped
    <3> QED
      BY <2>6, <3>1, <3>2
  <2> QED
    BY <1>1, <2>4, <2>5, <2>6, <2>9, <2>10, <2>11, TablesMove
<1> QED
    BY <1>5, <1>6

-------------------------------------------------------------------------------
(* The steps of a migration.                                                 *)

\* A step in which only one run's record changes.
LEMMA RunMoves ==
    ASSUME StoredInv, NEW m \in Migrators, NEW n \in Runs, RunOK(n),
           migration' = [migration EXCEPT ![m] = n],
           UNCHANGED <<row, bytes, issued, told, request, files>>
    PROVE  StoredInv'
<1>1. /\ migration' \in [Migrators -> Runs] /\ migration'[m] = n
      /\ \A k \in Migrators \ {m} : migration'[k] = migration[k]
    BY DEF StoredInv, ShapeInv
<1>2. ShapeInv' /\ RowsInv'
    BY <1>1 DEF StoredInv, ShapeInv, RowsInv, RowOK, Stored, Held
<1>3. RequestsInv'
    BY DEF StoredInv, RequestsInv, RequestOK, Stored, Held
<1>4. ASSUME NEW k \in Migrators PROVE RunOK(migration[k])'
  <2>1. CASE k = m
    <3>1. migration'[k] = n
      BY <1>1, <2>1
    <3> QED
      BY <3>1 DEF RunOK, Stored, Held
  <2>2. CASE k # m
    <3>1. RunOK(migration[k]) /\ migration'[k] = migration[k]
      BY <1>1, <2>2 DEF StoredInv, RunsInv
    <3> QED
      BY <3>1 DEF RunOK, Stored, Held
  <2> QED
    BY <2>1, <2>2
<1> QED
    BY <1>2, <1>3, <1>4 DEF StoredInv, RunsInv

\* A run makes its list, gives an item up, or ends.
LEMMA ListKeeps ==
    ASSUME StoredInv, NEW m \in Migrators, Plan(m) \/ StampFails(m) \/ EndRun(m)
    PROVE  StoredInv'
<1>1. UNCHANGED <<row, bytes, issued, told, request, files>>
    BY DEF Plan, StampFails, EndRun
<1>2. migration[m] \in Runs /\ RunOK(migration[m])
    BY DEF StoredInv, ShapeInv, RunsInv
<1>3. CASE Plan(m)
  <2> DEFINE n == [pc |-> "running", item |-> NoArtifact,
                   work |-> {a \in Artifacts : Stored(a) /\ row[a].backend = "local"}]
  <2>1. n \in Runs /\ RunOK(n)
    BY DEF Runs, RunOK
  <2> QED
    BY <1>1, <1>3, <2>1, RunMoves DEF Plan
<1>4. CASE StampFails(m)
  <2> DEFINE n == [migration[m] EXCEPT !.pc = "running", !.item = NoArtifact]
  <2>1. n \in Runs /\ RunOK(n)
    BY <1>2 DEF Runs, RunOK
  <2>2. migration' = [migration EXCEPT ![m] = n]
    BY <1>4 DEF StampFails, StoredInv, ShapeInv, Runs
  <2> QED
    BY <1>1, <2>1, <2>2, RunMoves
<1>5. CASE EndRun(m)
  <2> DEFINE n == [pc |-> "idle", work |-> {}, item |-> NoArtifact]
  <2>1. n \in Runs /\ RunOK(n)
    BY DEF Runs, RunOK
  <2> QED
    BY <1>1, <1>5, <2>1, RunMoves DEF EndRun
<1> QED
    BY <1>3, <1>4, <1>5

\* What a run copies to B2 disturbs nobody: sound bytes are what the row wants,
\* and where local files may be damaged nobody relies on B2 for this row yet.
LEMMA CopyDisturbsNothing ==
    ASSUME StoredInv, OneMigration, NEW m \in Migrators, migration[m].pc = "running",
           NEW a \in migration[m].work, bytes["local"][a] # NoContent,
           PutAt("b2", a, bytes["local"][a]), UNCHANGED <<row, issued, told, request, files>>
    PROVE  /\ bytes' \in [Backends -> [Artifacts -> Contents \cup {NoContent}]]
           /\ bytes'["b2"][a] = bytes["local"][a]
           /\ RequestsInv' /\ RowsInv'
           /\ \A k \in Migrators : RunOK(migration[k]) => \A n : n = migration[k] => RunOK(n)'
<1>1. /\ a \in Artifacts /\ Stored(a) /\ (LocalFaults => row[a].backend = "local")
      /\ files = "intact" \/ LocalFaults
    BY DEF StoredInv, ShapeInv, Runs, RunsInv, RunOK
<1>2. bytes["local"][a] \in Contents \cup {NoContent}
    BY <1>1 DEF StoredInv, ShapeInv, Backends
<1>3. /\ bytes' \in [Backends -> [Artifacts -> Contents \cup {NoContent}]]
      /\ bytes'["b2"][a] = bytes["local"][a]
      /\ \A d \in Backends, x \in Artifacts :
            <<d, x>> # <<"b2", a>> => bytes'[d][x] = bytes[d][x]
    BY <1>1, <1>2, OneObjectChanges DEF StoredInv, Backends
<1>4. files = "intact" => bytes["local"][a] = row[a].content
    BY <1>1 DEF StoredInv, RowsInv, RowOK, Backends
<1>5. \A b \in Backends, x \in Artifacts :
        files = "intact" \/ b = "local" \/ x # a => (Held(b, x) => Held(b, x)')
  <2> SUFFICES ASSUME NEW b \in Backends, NEW x \in Artifacts,
                      files = "intact" \/ b = "local" \/ x # a, Held(b, x)
               PROVE  Held(b, x)'
    OBVIOUS
  <2>1. CASE b = "b2" /\ x = a
    BY <1>3, <1>4, <2>1 DEF Held
  <2>2. CASE <<b, x>> # <<"b2", a>>
    BY <1>3, <2>2 DEF Held
  <2> QED
    BY <2>1, <2>2
<1>6. RowsInv'
  <2> SUFFICES ASSUME NEW x \in Artifacts PROVE RowOK(x)'
    BY DEF RowsInv
  <2>1. RowOK(x) /\ row[x].backend \in Backends
    BY DEF StoredInv, RowsInv, ShapeInv, Rows
  <2>2. CASE x = a
    <3>1. ~(x \notin issued)
      BY <1>1, <2>1, <2>2 DEF RowOK
    <3>2. files = "intact" \/ row[x].backend = "b2" => Held(row[x].backend, x)'
      BY <1>1, <1>5, <2>1, <2>2 DEF RowOK
    <3>3. files = "intact" => \A b \in Backends : bytes'[b][x] \in {NoContent, row[x].content}
      BY <1>1, <1>3, <1>4, <2>1, <2>2 DEF RowOK
    <3> QED
      BY <3>1, <3>2, <3>3 DEF RowOK, Stored, Held
  <2>3. CASE x # a
    <3>1. \A b \in Backends : bytes'[b][x] = bytes[b][x]
      BY <1>3, <2>3
    <3> QED
      BY <2>1, <3>1 DEF RowOK, Stored, Held
  <2> QED
    BY <2>2, <2>3
<1>7. ASSUME NEW p, RequestOK(p) PROVE RequestOK(p)'
  <2>1. /\ p.new \in Artifacts \cup {NoArtifact} /\ p.target \in Artifacts \cup {NoArtifact}
        /\ p.backend \in Backends
    BY <1>7 DEF RequestOK, Shaped
  <2>2. p.new \in Artifacts /\ p.pc \in {"ready", "locked"} =>
          \A b \in Backends : bytes'[b][p.new] = bytes[b][p.new]
    BY <1>1, <1>3, <1>7 DEF RequestOK
  <2>3. p.pc = "opening" /\ files = "intact" => Held(p.backend, p.target)'
    BY <1>5, <1>7, <2>1 DEF RequestOK
  <2> QED
    BY <1>7, <2>1, <2>2, <2>3 DEF RequestOK, Shaped, Stored, Held
<1>8. RequestsInv'
  <2>1. ASSUME NEW s \in Requests PROVE RequestOK(request[s])'
    <3>1. PICK p : p = request[s] /\ p = request'[s] /\ RequestOK(p)
      BY DEF StoredInv, RequestsInv
    <3>2. RequestOK(p)'
      BY <1>7, <3>1
    <3> QED
      BY <3>1, <3>2 DEF RequestOK, Stored, Held
  <2> QED
    BY <2>1 DEF StoredInv, RequestsInv
<1>9. ASSUME NEW k \in Migrators, RunOK(migration[k]), NEW n, n = migration[k]
      PROVE  RunOK(n)'
  <2>1. n.pc = "copied" => n.item \in Artifacts /\ Held("b2", n.item)
    BY <1>9 DEF RunOK
  <2>2. n.pc = "copied" => Held("b2", n.item)'
    <3>1. CASE LocalFaults
      BY <1>9, <3>1 DEF OneMigration
    <3>2. CASE files = "intact"
      BY <1>5, <2>1, <3>2 DEF Backends
    <3> QED
      BY <1>1, <3>1, <3>2
  <2> QED
    BY <1>9, <2>2 DEF RunOK, Stored
<1> QED
    BY <1>3, <1>6, <1>8, <1>9

\* A copy, put together with what the run makes of it.
LEMMA CopyMoves ==
    ASSUME StoredInv, OneMigration, NEW m \in Migrators, migration[m].pc = "running",
           NEW a \in migration[m].work, bytes["local"][a] # NoContent,
           PutAt("b2", a, bytes["local"][a]), UNCHANGED <<row, issued, told, request, files>>,
           NEW n \in Runs, RunOK(n)', migration' = [migration EXCEPT ![m] = n]
    PROVE  StoredInv'
<1>1. /\ bytes' \in [Backends -> [Artifacts -> Contents \cup {NoContent}]]
      /\ RequestsInv' /\ RowsInv'
      /\ \A k \in Migrators : RunOK(migration[k]) => \A x : x = migration[k] => RunOK(x)'
    BY CopyDisturbsNothing
<1>2. /\ migration' \in [Migrators -> Runs] /\ migration'[m] = n
      /\ \A k \in Migrators \ {m} : migration'[k] = migration[k]
    BY DEF StoredInv, ShapeInv
<1>3. ShapeInv'
    BY <1>1, <1>2 DEF StoredInv, ShapeInv
<1>4. ASSUME NEW k \in Migrators PROVE RunOK(migration[k])'
  <2>1. CASE k = m
    <3>1. migration'[k] = n
      BY <1>2, <2>1
    <3> QED
      BY <3>1 DEF RunOK, Stored, Held
  <2>2. CASE k # m
    <3>1. PICK x : x = migration[k] /\ x = migration'[k] /\ RunOK(migration[k])
      BY <1>2, <2>2 DEF StoredInv, RunsInv
    <3>2. RunOK(x)'
      BY <1>1, <3>1
    <3> QED
      BY <3>1, <3>2 DEF RunOK, Stored, Held
  <2> QED
    BY <2>1, <2>2
<1> QED
    BY <1>1, <1>3, <1>4 DEF StoredInv, RunsInv

\* The bytes of a row are copied and verified, or the copy is given up.
LEMMA CopyKeeps ==
    ASSUME StoredInv, OneMigration, NEW m \in Migrators, Copy(m)
    PROVE  StoredInv'
<1>1. PICK a \in migration[m].work :
        /\ migration[m].pc = "running" /\ bytes["local"][a] # NoContent
        /\ PutAt("b2", a, bytes["local"][a])
        /\ migration' = [migration EXCEPT ![m] =
             IF Verified(a, bytes["local"][a])
             THEN [migration[m] EXCEPT !.work = migration[m].work \ {a},
                                       !.pc = "copied", !.item = a]
             ELSE IF SizeOf(bytes["local"][a]) # SizeOf(row[a].content)
             THEN [migration[m] EXCEPT !.work = migration[m].work \ {a}]
             ELSE [pc |-> "idle", work |-> {}, item |-> NoArtifact]]
        /\ UNCHANGED <<row, issued, told, request, files>>
    BY DEF Copy, Moves
<1>2. migration[m] \in Runs /\ RunOK(migration[m])
    BY DEF StoredInv, ShapeInv, RunsInv
<1>3. bytes'["b2"][a] = bytes["local"][a]
    BY <1>1, CopyDisturbsNothing
<1>4. \A x \in migration[m].work : Stored(x)' /\ (LocalFaults => row'[x].backend = "local")
    BY <1>1, <1>2 DEF RunOK, Stored
<1>5. PICK n : /\ migration' = [migration EXCEPT ![m] = n]
               /\ \/ /\ Verified(a, bytes["local"][a])
                     /\ n = [migration[m] EXCEPT !.work = migration[m].work \ {a},
                                                 !.pc = "copied", !.item = a]
                  \/ n = [migration[m] EXCEPT !.work = migration[m].work \ {a}]
                  \/ n = [pc |-> "idle", work |-> {}, item |-> NoArtifact]
    BY <1>1
<1>6. n \in Runs /\ RunOK(n)'
  <2>1. CASE /\ Verified(a, bytes["local"][a])
             /\ n = [migration[m] EXCEPT !.work = migration[m].work \ {a},
                                         !.pc = "copied", !.item = a]
    <3>1. /\ n \in Runs /\ n.pc = "copied" /\ n.item = a
          /\ n.work = migration[m].work \ {a} /\ a \in Artifacts
      BY <1>2, <2>1 DEF Runs
    <3>2. Held("b2", a)'
      BY <1>1, <1>3, <2>1 DEF Held, Verified
    <3> QED
      BY <1>4, <3>1, <3>2 DEF RunOK
  <2>2. CASE n = [migration[m] EXCEPT !.work = migration[m].work \ {a}]
    <3>1. n \in Runs /\ n.pc = "running" /\ n.work = migration[m].work \ {a}
      BY <1>1, <1>2, <2>2 DEF Runs
    <3> QED
      BY <1>4, <3>1 DEF RunOK
  <2>3. CASE n = [pc |-> "idle", work |-> {}, item |-> NoArtifact]
    BY <2>3 DEF Runs, RunOK
  <2> QED
    BY <1>5, <2>1, <2>2, <2>3
<1> QED
    BY <1>1, <1>5, <1>6, CopyMoves

\* A copy fails, perhaps after B2 has kept the object.
LEMMA CopyFailsKeeps ==
    ASSUME StoredInv, OneMigration, NEW m \in Migrators, CopyFails(m)
    PROVE  StoredInv'
<1>1. PICK a \in migration[m].work :
        /\ migration[m].pc = "running"
        /\ \/ bytes' = bytes
           \/ bytes["local"][a] # NoContent /\ PutAt("b2", a, bytes["local"][a])
        /\ migration' = [migration EXCEPT ![m].work = migration[m].work \ {a}]
        /\ UNCHANGED <<row, issued, told, request, files>>
    BY DEF CopyFails, Moves
<1>2. migration[m] \in Runs /\ RunOK(migration[m])
    BY DEF StoredInv, ShapeInv, RunsInv
<1>3. PICK n : n = [migration[m] EXCEPT !.work = migration[m].work \ {a}]
    OBVIOUS
<1>4. n \in Runs /\ n.pc = "running" /\ n.work = migration[m].work \ {a}
    BY <1>1, <1>2, <1>3 DEF Runs
<1>5. migration' = [migration EXCEPT ![m] = n]
    BY <1>1, <1>3 DEF StoredInv, ShapeInv
<1>6. RunOK(n) /\ RunOK(n)'
    BY <1>1, <1>2, <1>4 DEF RunOK, Stored
<1>7. CASE bytes' = bytes
    BY <1>1, <1>4, <1>5, <1>6, <1>7, RunMoves
<1>8. CASE bytes["local"][a] # NoContent /\ PutAt("b2", a, bytes["local"][a])
    BY <1>1, <1>4, <1>5, <1>6, <1>8, CopyMoves
<1> QED
    BY <1>1, <1>7, <1>8

\* A row is stamped only after its bytes were verified in B2.
LEMMA StampKeeps ==
    ASSUME StoredInv, OneMigration, NEW m \in Migrators, Stamp(m)
    PROVE  StoredInv'
<1>1. PICK a : a = migration[m].item
    OBVIOUS
<1>2. /\ migration[m].pc = "copied" /\ row' = [row EXCEPT ![a].backend = "b2"]
      /\ migration' = [migration EXCEPT ![m].pc = "running", ![m].item = NoArtifact]
      /\ UNCHANGED <<bytes, issued, told, request, files>>
    BY <1>1 DEF Stamp, Moves
<1>3. migration[m] \in Runs /\ RunOK(migration[m])
    BY DEF StoredInv, ShapeInv, RunsInv
<1>4. a \in Artifacts /\ a \notin migration[m].work /\ Stored(a) /\ Held("b2", a)
    BY <1>1, <1>2, <1>3 DEF RunOK
<1>5. /\ row' \in [Artifacts -> Rows]
      /\ row'[a].backend = "b2"
      /\ \A x \in Artifacts : /\ Stored(x)' <=> Stored(x)
                              /\ row'[x].content = row[x].content
                              /\ x # a => row'[x] = row[x]
  <2>1. row \in [Artifacts -> Rows]
    BY DEF StoredInv, ShapeInv
  <2>2. row'[a] = [row[a] EXCEPT !.backend = "b2"]
        /\ \A x \in Artifacts : x # a => row'[x] = row[x]
    BY <1>2, <1>4, <2>1
  <2>3. /\ row'[a] \in Rows /\ row'[a].backend = "b2" /\ row'[a].status = row[a].status
        /\ row'[a].content = row[a].content
    BY <1>4, <2>1, <2>2 DEF Rows, Backends
  <2>4. row' = [x \in Artifacts |-> row'[x]]
    BY <1>2, <2>1
  <2>5. row' \in [Artifacts -> Rows]
    BY <2>1, <2>2, <2>3, <2>4
  <2> QED
    BY <2>2, <2>3, <2>5 DEF Stored
<1>6. \A b \in Backends, x \in Artifacts : Held(b, x)' <=> Held(b, x)
    BY <1>2, <1>5 DEF Held
<1>7. PICK n : n = [migration[m] EXCEPT !.pc = "running", !.item = NoArtifact]
    OBVIOUS
<1>8. n \in Runs /\ n.pc = "running" /\ n.work = migration[m].work
    BY <1>3, <1>7 DEF Runs
<1>9. /\ migration' \in [Migrators -> Runs] /\ migration'[m] = n
      /\ \A k \in Migrators \ {m} : migration'[k] = migration[k]
    BY <1>2, <1>7, <1>8 DEF StoredInv, ShapeInv
<1>10. ShapeInv'
    BY <1>2, <1>5, <1>9 DEF StoredInv, ShapeInv
<1>11. RowsInv'
  <2> SUFFICES ASSUME NEW x \in Artifacts PROVE RowOK(x)'
    BY DEF RowsInv
  <2>1. RowOK(x) /\ row[x].backend \in Backends
    BY DEF StoredInv, RowsInv, ShapeInv, Rows
  <2>2. CASE x = a
    BY <1>2, <1>4, <1>5, <1>6, <2>1, <2>2 DEF RowOK, Backends
  <2>3. CASE x # a
    BY <1>2, <1>5, <1>6, <2>1, <2>3 DEF RowOK
  <2> QED
    BY <2>2, <2>3
<1>12. RequestsInv'
  <2>1. ASSUME NEW s \in Requests PROVE RequestOK(request[s])'
    <3>1. PICK p : p = request[s] /\ p = request'[s] /\ RequestOK(p)
      BY <1>2 DEF StoredInv, RequestsInv
    <3>2. p.backend \in Backends
      BY <3>1 DEF RequestOK, Shaped
    <3>3. RequestOK(p)'
      BY <1>2, <1>5, <1>6, <3>1, <3>2 DEF RequestOK, Shaped
    <3> QED
      BY <3>1, <3>3 DEF RequestOK, Stored, Held
  <2> QED
    BY <1>2, <2>1 DEF StoredInv, RequestsInv
<1>13. ASSUME NEW k \in Migrators PROVE RunOK(migration[k])'
  <2>1. PICK x : x = migration[k] /\ RunOK(x) /\ x \in Runs
    BY DEF StoredInv, ShapeInv, RunsInv
  <2>2. \A y \in x.work : Stored(y)' /\ (LocalFaults => row'[y].backend = "local")
    <3> SUFFICES ASSUME NEW y \in x.work
                 PROVE  Stored(y)' /\ (LocalFaults => row'[y].backend = "local")
      OBVIOUS
    <3>1. y \in Artifacts /\ Stored(y) /\ (LocalFaults => row[y].backend = "local")
      BY <2>1 DEF RunOK, Runs
    <3>2. LocalFaults => y # a
      BY <1>4, <2>1 DEF OneMigration
    <3> QED
      BY <1>5, <3>1, <3>2
  <2>3. CASE k = m
    <3>1. migration'[k] = n /\ n.work = x.work
      BY <1>8, <1>9, <2>1, <2>3
    <3> QED
      BY <1>8, <2>2, <3>1 DEF RunOK
  <2>4. CASE k # m
    <3>1. migration'[k] = x
      BY <1>9, <2>1, <2>4
    <3>2. x.pc = "copied" => /\ x.item \in Artifacts /\ x.item \notin x.work
                             /\ Stored(x.item)' /\ Held("b2", x.item)'
      BY <1>5, <1>6, <2>1 DEF RunOK, Backends
    <3>3. x.pc = "idle" => x.work = {}
      BY <2>1 DEF RunOK
    <3> QED
      BY <2>2, <3>1, <3>2, <3>3 DEF RunOK
  <2> QED
    BY <2>3, <2>4
<1> QED
    BY <1>10, <1>11, <1>12, <1>13 DEF StoredInv, RunsInv

\* Nobody relies on local files while they may be damaged.
LEMMA DamageKeeps ==
    ASSUME StoredInv, DamageLocal
    PROVE  StoredInv'
<1>1. PICK a \in issued, c \in Contents \cup {NoContent} :
        /\ LocalFaults /\ PutAt("local", a, c) /\ files' = "damaged"
        /\ UNCHANGED <<row, issued, told, request, migration>>
    BY DEF DamageLocal
<1>2. a \in Artifacts
    BY DEF StoredInv, ShapeInv
<1>3. /\ bytes' \in [Backends -> [Artifacts -> Contents \cup {NoContent}]]
      /\ \A x \in Artifacts : bytes'["b2"][x] = bytes["b2"][x]
      /\ \A d \in Backends, x \in Artifacts \ {a} : bytes'[d][x] = bytes[d][x]
    BY <1>1, <1>2, OneObjectChanges DEF StoredInv, Backends
<1>4. \A x \in Artifacts : Held("b2", x)' <=> Held("b2", x)
    BY <1>1, <1>3 DEF Held
<1>5. ShapeInv'
    BY <1>1, <1>3 DEF StoredInv, ShapeInv
<1>6. RowsInv'
  <2> SUFFICES ASSUME NEW x \in Artifacts PROVE RowOK(x)'
    BY DEF RowsInv
  <2>1. RowOK(x)
    BY DEF StoredInv, RowsInv
  <2>2. x \notin issued => \A b \in Backends : bytes'[b][x] = bytes[b][x]
    BY <1>3
  <2> QED
    BY <1>1, <1>4, <2>1, <2>2 DEF RowOK, Stored
<1>7. RequestsInv'
  <2>1. ASSUME NEW s \in Requests PROVE RequestOK(request[s])'
    <3>1. PICK p : p = request[s] /\ p = request'[s] /\ RequestOK(p)
      BY <1>1 DEF StoredInv, RequestsInv
    <3>2. p.new \in Artifacts /\ p.backend = "b2" =>
            bytes'[p.backend][p.new] = bytes[p.backend][p.new]
      BY <1>3
    <3>3. RequestOK(p)'
      BY <1>1, <3>1, <3>2 DEF RequestOK, Shaped, Stored
    <3> QED
      BY <3>1, <3>3 DEF RequestOK, Stored, Held
  <2> QED
    BY <1>1, <2>1 DEF StoredInv, RequestsInv
<1>8. RunsInv'
  <2>1. ASSUME NEW k \in Migrators PROVE RunOK(migration[k])'
    <3>1. PICK x : x = migration[k] /\ x = migration'[k] /\ RunOK(x)
      BY <1>1 DEF StoredInv, RunsInv
    <3>2. RunOK(x)'
      BY <1>1, <1>4, <3>1 DEF RunOK, Stored
    <3> QED
      BY <3>1, <3>2 DEF RunOK, Stored, Held
  <2> QED
    BY <2>1 DEF RunsInv
<1> QED
    BY <1>5, <1>6, <1>7, <1>8 DEF StoredInv

-------------------------------------------------------------------------------
(* Theorems.                                                                 *)

\* Nothing is stored in the beginning.
LEMMA InitStored == Init => StoredInv
<1> SUFFICES ASSUME Init PROVE StoredInv
    OBVIOUS
<1>1. ShapeInv
    BY DEF Init, ShapeInv, Rows, Runs, Backends
<1>2. RequestsInv
    BY IdleIsOK DEF Init, RequestsInv
<1>3. RowsInv
    BY DEF Init, RowsInv, RowOK, Stored
<1>4. RunsInv
    BY DEF Init, RunsInv, RunOK
<1> QED
    BY <1>1, <1>2, <1>3, <1>4 DEF StoredInv

\* Every step keeps the invariant.
LEMMA NextStored ==
    ASSUME OneMigration, StoredInv, [Next]_vars
    PROVE  StoredInv'
<1>1. CASE UNCHANGED vars
    BY <1>1, ProjectKeeps DEF vars
<1>2. CASE MoveProject
  <2>1. UNCHANGED <<row, bytes, issued, told, request, migration, files>>
    BY <1>2 DEF MoveProject
  <2> QED
    BY <2>1, ProjectKeeps
<1>3. CASE DamageLocal
    BY <1>3, DamageKeeps
<1>4. ASSUME NEW m \in Migrators, Migrate(m) PROVE StoredInv'
    BY <1>4, ListKeeps, CopyKeeps, CopyFailsKeeps, StampKeeps DEF Migrate
<1>5. ASSUME NEW r \in Requests, Serve(r) PROVE StoredInv'
  <2>1. CASE Upload(r)
    <3>1. PICK expected \in 1 .. project.revision : Store(r, "upload", NoArtifact, expected)
      BY <2>1 DEF Upload
    <3>2. NoArtifact \notin Artifacts
      BY StorageAssumption
    <3> QED
      BY <3>1, <3>2, StoreKeeps DEF Operations
  <2>2. CASE Replace(r)
    <3>1. PICK a \in Artifacts : Stored(a) /\ Store(r, "replace", a, row[a].revision)
      BY <2>2 DEF Replace
    <3> QED
      BY <3>1, StoreKeeps DEF Operations
  <2>3. CASE Begin(r, "update") \/ Begin(r, "delete") \/ Begin(r, "restore")
    BY <2>3, BeginKeeps DEF Operations
  <2>4. CASE PutFails(r) \/ LockProject(r) \/ Commit(r) \/ Abort(r) \/ CleanUp(r)
    BY <2>4, PutFailsKeeps, LockKeeps, CommitKeeps, AbortKeeps, CleanUpKeeps
  <2>5. CASE OpenPublic(r) \/ OpenContent(r) \/ Vanish(r)
    BY <2>5, OpenKeeps, EndKeeps
  <2> QED
    BY <1>5, <2>1, <2>2, <2>3, <2>4, <2>5 DEF Serve
<1> QED
    BY <1>1, <1>2, <1>3, <1>4, <1>5 DEF Next

\* The inductive invariant holds always, with any number of migrations at a
\* time, or with damaged local files and one.
THEOREM StoredInvariant == ASSUME OneMigration PROVE Spec => []StoredInv
<1>1. Init => StoredInv
    BY InitStored
<1>2. StoredInv /\ [Next]_vars => StoredInv'
    BY NextStored
<1> QED
    BY <1>1, <1>2, PTL DEF Spec


-------------------------------------------------------------------------------
(* What the row lock keeps: the measure of the active files.                 *)

\* Where a request has come to: new bytes are uploaded or replace a row, every
\* other change has a row as its target.
CallOK(q) ==
    /\ q.used \in Nat /\ q.expected \in Nat
    /\ q.new \in Artifacts => q.content \in Contents
    /\ q.pc \in {"ready", "locked"} =>
          /\ q.new \in Artifacts <=> q.op \in {"upload", "replace"}
          /\ q.op # "upload" => q.target \in Artifacts

\* Whoever is in its transaction holds the lock, and what it measured is true.
Measuring(q, r) == q.pc = "locked" => lock = r /\ q.used = ActiveBytes

QuotaInv ==
    /\ project \in [status : {"draft", "published", "deleted"}, revision : Nat]
    /\ lock \in Requests \cup {NoRequest}
    /\ IsFiniteSet(issued)
    /\ \A r \in Requests : CallOK(request[r]) /\ Measuring(request[r], r)
    /\ QuotaHolds

\* The sizes of the rows' contents, and the rows that count.
Weight == [a \in Artifacts |-> SizeOf(row[a].content)]
Counted == {a \in Artifacts : Active(a)}

\* Only issued artifacts count, so the sum is one of finitely many numbers.
LEMMA CountedIsFinite ==
    ASSUME StoredInv, IsFiniteSet(issued)
    PROVE  /\ IsFiniteSet(Counted)
           /\ \A a \in Artifacts : Weight[a] \in Nat
           /\ ActiveBytes = SumFunctionOnSet(Weight, Counted)
           /\ ActiveBytes \in Nat
<1>1. Counted \subseteq issued
    BY DEF Counted, Active, Stored, StoredInv, RowsInv, RowOK
<1>2. IsFiniteSet(Counted)
    BY <1>1, FS_Subset
<1>3. \A a \in Artifacts : Weight[a] \in Nat
  <2> SUFFICES ASSUME NEW a \in Artifacts PROVE Weight[a] \in Nat
    OBVIOUS
  <2>1. row[a].content \in Contents \cup {NoContent}
    BY DEF StoredInv, ShapeInv, Rows
  <2>2. SizeOf(row[a].content) \in Nat
    BY <2>1, StorageAssumption DEF SizeOf
  <2> QED
    BY <2>2 DEF Weight
<1>4. ActiveBytes = SumFunctionOnSet(Weight, Counted)
    BY DEF ActiveBytes, Weight, Counted
<1>5. \A a \in Counted : Weight[a] \in Nat
    BY <1>3 DEF Counted
<1> QED
    BY <1>2, <1>3, <1>4, <1>5, SumIsNat

\* Rows whose status and content stay weigh the same.
LEMMA SameWeight ==
    ASSUME \A a \in Artifacts : /\ row'[a].content = row[a].content
                                /\ Active(a)' <=> Active(a)
    PROVE  ActiveBytes' = ActiveBytes
<1>1. [a \in Artifacts |-> SizeOf(row'[a].content)] = [a \in Artifacts |-> SizeOf(row[a].content)]
    OBVIOUS
<1>2. {a \in Artifacts : Active(a)'} = {a \in Artifacts : Active(a)}
    OBVIOUS
<1>3. ActiveBytes' = SumFunctionOnSet([a \in Artifacts |-> SizeOf(row'[a].content)],
                                      {a \in Artifacts : Active(a)'})
    BY DEF ActiveBytes, SizeOf
<1> QED
    BY <1>1, <1>2, <1>3 DEF ActiveBytes

\* One more number in a sum.
LEMMA SumWith ==
    ASSUME NEW f, NEW S, IsFiniteSet(S), NEW y, y \notin S, f[y] \in Nat,
           \A s \in S : f[s] \in Nat
    PROVE  SumFunctionOnSet(f, S \cup {y}) = f[y] + SumFunctionOnSet(f, S)
<1>1. PICK T : T = S \cup {y}
    OBVIOUS
<1>2. /\ IsFiniteSet(T) /\ y \in T /\ (\A s \in T : f[s] \in Nat) /\ T \ {y} = S
    BY <1>1, FS_AddElement
<1>3. SumFunctionOnSet(f, T) = f[y] + SumFunctionOnSet(f, T \ {y})
    BY <1>2, SumWithout
<1> QED
    BY <1>1, <1>2, <1>3

\* The other requests, when r alone moves: the lock is not taken from them, and
\* what they measured stays true.
LEMMA OneCallMoves ==
    ASSUME StoredInv, QuotaInv, NEW r \in Requests, NEW q, CallOK(q),
           request' = [request EXCEPT ![r] = q], UNCHANGED <<project, row>>,
           IsFiniteSet(issued'), lock' \in Requests \cup {NoRequest},
           \A s \in Requests \ {r} : lock = s => lock' = s,
           q.pc = "locked" => lock' = r /\ q.used = ActiveBytes
    PROVE  QuotaInv'
<1>1. /\ request'[r] = q
      /\ \A s \in Requests \ {r} : request'[s] = request[s]
    BY OneRequestChanges DEF StoredInv
<1>2. ActiveBytes' = ActiveBytes
    BY SameWeight DEF Active
<1>3. ASSUME NEW s \in Requests PROVE (CallOK(request[s]) /\ Measuring(request[s], s))'
  <2>1. CASE s = r
    <3>1. request'[s] = q
      BY <1>1, <2>1
    <3> QED
      BY <1>2, <2>1, <3>1 DEF CallOK, Measuring
  <2>2. CASE s # r
    <3>1. request'[s] = request[s] /\ CallOK(request[s]) /\ Measuring(request[s], s)
      BY <1>1, <2>2 DEF QuotaInv
    <3> QED
      BY <1>2, <2>2, <3>1 DEF CallOK, Measuring
  <2> QED
    BY <2>1, <2>2
<1>4. QuotaHolds'
    BY <1>2 DEF QuotaInv, QuotaHolds
<1> QED
    BY <1>3, <1>4 DEF QuotaInv

\* A request at rest measures nothing.
LEMMA IdleCallIsOK == CallOK(Idle) /\ Idle.pc = "idle"
BY StorageAssumption DEF CallOK, Idle

\* Storing, failing to store, beginning, opening, cleaning up and ending.
LEMMA CallsKeepQuota ==
    ASSUME StoredInv, QuotaInv, NEW r \in Requests,
           \/ Upload(r) \/ Replace(r) \/ PutFails(r) \/ CleanUp(r)
           \/ OpenPublic(r) \/ OpenContent(r) \/ Vanish(r)
           \/ \E op \in {"update", "delete", "restore"} : Begin(r, op)
    PROVE  QuotaInv'
<1>1. ASSUME NEW a \in Artifacts PROVE IsFiniteSet(issued \cup {a})
    BY FS_AddElement DEF QuotaInv
<1>2. ASSUME NEW op \in {"upload", "replace"}, NEW target \in Artifacts \cup {NoArtifact},
             NEW expected \in Nat, op # "upload" => target \in Artifacts,
             Store(r, op, target, expected)
      PROVE  QuotaInv'
  <2>1. PICK a \in Artifacts \ issued, c \in Contents, option \in Defaults,
             pc \in {"ready", "cleanup"} :
          /\ At(r, "idle")
          /\ PutAt(DefaultName(option), a, c)
          /\ issued' = issued \cup {a}
          /\ told' = [told EXCEPT ![a] = IF pc = "ready" THEN @ ELSE "failure"]
          /\ request' = [request EXCEPT ![r] =
                [Idle EXCEPT !.op = op, !.pc = pc, !.target = target, !.new = a,
                             !.content = c, !.backend = DefaultName(option),
                             !.expected = expected]]
          /\ UNCHANGED <<project, row, lock, migration, files>>
    BY <1>2, Zenon DEF Store
  <2>2. PICK q : q = [Idle EXCEPT !.op = op, !.pc = pc, !.target = target, !.new = a,
                                  !.content = c, !.backend = DefaultName(option),
                                  !.expected = expected]
    OBVIOUS
  <2>3. /\ q.op = op /\ q.pc = pc /\ q.target = target /\ q.new = a /\ q.used = 0
        /\ q.expected = expected /\ q.content = c
    BY <2>2 DEF Idle
  <2>4. CallOK(q) /\ q.pc # "locked"
    BY <1>2, <2>3 DEF CallOK
  <2>5. request' = [request EXCEPT ![r] = q] /\ IsFiniteSet(issued')
    BY <1>1, <2>1, <2>2
  <2>6. lock' \in Requests \cup {NoRequest}
    BY <2>1 DEF QuotaInv
  <2> QED
    BY <2>1, <2>4, <2>5, <2>6, OneCallMoves
<1>3. CASE Upload(r)
  <2>1. PICK expected \in 1 .. project.revision : Store(r, "upload", NoArtifact, expected)
    BY <1>3 DEF Upload
  <2>2. expected \in Nat
    BY DEF QuotaInv
  <2> QED
    BY <1>2, <2>1, <2>2
<1>4. CASE Replace(r)
  <2>1. PICK a \in Artifacts : Store(r, "replace", a, row[a].revision)
    BY <1>4 DEF Replace
  <2>2. row[a].revision \in Nat
    BY DEF StoredInv, ShapeInv, Rows
  <2> QED
    BY <1>2, <2>1, <2>2
<1>5. CASE PutFails(r)
  <2>1. PICK a \in Artifacts \ issued : issued' = issued \cup {a}
    BY <1>5 DEF PutFails
  <2>2. UNCHANGED <<project, row, request, lock>>
    BY <1>5 DEF PutFails
  <2>3. PICK q : q = request[r] /\ CallOK(q) /\ Measuring(q, r)
    BY DEF QuotaInv
  <2>4. request' = [request EXCEPT ![r] = q]
    BY <2>2, <2>3 DEF StoredInv, ShapeInv
  <2>5. IsFiniteSet(issued') /\ lock' \in Requests \cup {NoRequest}
    BY <1>1, <2>1, <2>2 DEF QuotaInv
  <2>6. q.pc = "locked" => lock' = r /\ q.used = ActiveBytes
    BY <2>2, <2>3 DEF Measuring
  <2> QED
    BY <2>2, <2>3, <2>4, <2>5, <2>6, OneCallMoves
<1>6. CASE CleanUp(r) \/ OpenContent(r) \/ Vanish(r)
  <2>1. /\ request' = [request EXCEPT ![r] = Idle] /\ UNCHANGED <<project, row, issued>>
        /\ lock' = lock \/ lock' = IF lock = r THEN NoRequest ELSE lock
    BY <1>6 DEF CleanUp, OpenContent, Vanish, Unlocked
  <2>2. /\ lock' \in Requests \cup {NoRequest} /\ IsFiniteSet(issued')
        /\ \A s \in Requests \ {r} : lock = s => lock' = s
    BY <2>1 DEF QuotaInv
  <2> QED
    BY <2>1, <2>2, IdleCallIsOK, OneCallMoves
<1>7. CASE OpenPublic(r)
  <2>1. PICK a \in Artifacts :
          request' = [request EXCEPT ![r] =
              [Idle EXCEPT !.pc = "opening", !.target = a, !.backend = row[a].backend]]
    BY <1>7 DEF OpenPublic
  <2>2. PICK q : q = [Idle EXCEPT !.pc = "opening", !.target = a, !.backend = row[a].backend]
    OBVIOUS
  <2>3. CallOK(q) /\ q.pc # "locked"
    BY <2>2, StorageAssumption DEF CallOK, Idle
  <2>4. UNCHANGED <<project, row, issued, lock>>
    BY <1>7 DEF OpenPublic
  <2>5. lock' \in Requests \cup {NoRequest} /\ IsFiniteSet(issued')
    BY <2>4 DEF QuotaInv
  <2> QED
    BY <2>1, <2>2, <2>3, <2>4, <2>5, OneCallMoves
<1>8. CASE \E op \in {"update", "delete", "restore"} : Begin(r, op)
  <2>1. PICK op \in {"update", "delete", "restore"} : Begin(r, op)
    BY <1>8
  <2>2. PICK a \in Artifacts :
          request' = [request EXCEPT ![r] =
              [Idle EXCEPT !.op = op, !.pc = "ready", !.target = a,
                           !.expected = row[a].revision]]
    BY <2>1 DEF Begin
  <2>3. PICK q : q = [Idle EXCEPT !.op = op, !.pc = "ready", !.target = a,
                                  !.expected = row[a].revision]
    OBVIOUS
  <2>4. row[a].revision \in Nat /\ NoArtifact \notin Artifacts
    BY StorageAssumption DEF StoredInv, ShapeInv, Rows
  <2>5. /\ q.op = op /\ q.pc = "ready" /\ q.target = a /\ q.new = NoArtifact /\ q.used = 0
        /\ q.expected = row[a].revision
    BY <2>3 DEF Idle
  <2>6. CallOK(q) /\ q.pc # "locked"
    BY <2>4, <2>5 DEF CallOK
  <2>7. UNCHANGED <<project, row, issued, lock>>
    BY <2>1 DEF Begin
  <2>8. lock' \in Requests \cup {NoRequest} /\ IsFiniteSet(issued')
    BY <2>7 DEF QuotaInv
  <2> QED
    BY <2>2, <2>3, <2>6, <2>7, <2>8, OneCallMoves
<1> QED
    BY <1>3, <1>4, <1>5, <1>6, <1>7, <1>8

\* The lock is taken while nobody has it, and the measure is taken under it.
LEMMA LockKeepsQuota ==
    ASSUME StoredInv, QuotaInv, NEW r \in Requests, LockProject(r)
    PROVE  QuotaInv'
<1>1. /\ request[r].pc = "ready" /\ request' = [request EXCEPT ![r] = Measured(r)]
      /\ lock = NoRequest /\ lock' = r /\ UNCHANGED <<project, row, issued>>
    BY DEF LockProject, At
<1>2. PICK q : q = request[r] /\ CallOK(q) /\ Shaped(q)
    BY DEF StoredInv, RequestsInv, RequestOK, QuotaInv
<1>3. PICK found : found = IF request[r].op = "restore" THEN Exists(request[r].target) ELSE FALSE
    OBVIOUS
<1>4. PICK x : x = [q EXCEPT !.pc = "locked", !.used = ActiveBytes, !.found = found]
    OBVIOUS
<1>5. x = Measured(r)
    BY <1>2, <1>3, <1>4 DEF Measured
<1>6. /\ x.pc = "locked" /\ x.used = ActiveBytes /\ x.expected = q.expected
      /\ x.new = q.new /\ x.op = q.op /\ x.target = q.target /\ x.content = q.content
    BY <1>2, <1>4 DEF Shaped
<1>7. ActiveBytes \in Nat
    BY CountedIsFinite DEF QuotaInv
<1>8. CallOK(x)
    BY <1>1, <1>2, <1>6, <1>7 DEF CallOK
<1>9. /\ lock' \in Requests \cup {NoRequest} /\ IsFiniteSet(issued')
      /\ \A s \in Requests \ {r} : lock = s => lock' = s
    BY <1>1, StorageAssumption DEF QuotaInv
<1> QED
    BY <1>1, <1>5, <1>6, <1>8, <1>9, OneCallMoves

\* A transaction that is rolled back gives its own lock up.
LEMMA AbortKeepsQuota ==
    ASSUME StoredInv, QuotaInv, NEW r \in Requests, Abort(r)
    PROVE  QuotaInv'
<1>1. /\ request' = [request EXCEPT ![r] =
            IF request[r].new = NoArtifact THEN Idle ELSE [request[r] EXCEPT !.pc = "cleanup"]]
      /\ lock' = IF lock = r THEN NoRequest ELSE lock
      /\ UNCHANGED <<project, row, issued>>
    BY DEF Abort, Unlocked
<1>2. PICK q : q = request[r] /\ CallOK(q) /\ Shaped(q)
    BY DEF StoredInv, RequestsInv, RequestOK, QuotaInv
<1>3. PICK x : /\ request' = [request EXCEPT ![r] = x]
               /\ x = Idle \/ x = [q EXCEPT !.pc = "cleanup"]
    BY <1>1, <1>2
<1>4. CallOK(x) /\ x.pc # "locked"
  <2>1. CASE x = Idle
    BY <2>1, IdleCallIsOK
  <2>2. CASE x = [q EXCEPT !.pc = "cleanup"]
    BY <1>2, <2>2 DEF CallOK, Shaped
  <2> QED
    BY <1>3, <2>1, <2>2
<1>5. /\ lock' \in Requests \cup {NoRequest} /\ IsFiniteSet(issued')
      /\ \A s \in Requests \ {r} : lock = s => lock' = s
    BY <1>1 DEF QuotaInv
<1> QED
    BY <1>1, <1>3, <1>4, <1>5, OneCallMoves

\* The bytes that count after a commit, from those that were measured.
LEMMA CommitWeighs ==
    ASSUME StoredInv, QuotaInv, NEW r \in Requests, Commit(r)
    PROVE  ActiveBytes' <= MaxProjectBytes
<1>1. request[r].pc = "locked" /\ row' = Written(r) /\ Permitted(r) /\ issued' = issued
    BY DEF Commit, At
<1>2. PICK q : /\ q = request[r] /\ RequestOK(q) /\ Shaped(q) /\ CallOK(q)
               /\ q.used = ActiveBytes /\ q.pc = "locked"
    BY <1>1 DEF StoredInv, RequestsInv, RequestOK, QuotaInv, Measuring
<1>3. PICK a : a = q.target
    OBVIOUS
<1>4. PICK n : n = q.new
    OBVIOUS
<1>5. /\ row' \in [Artifacts -> Rows]
      /\ \A x \in Artifacts : x # n => row'[x].content = row[x].content
      /\ n \in Artifacts => row'[n] = [status |-> "active", backend |-> q.backend,
                                       content |-> q.content, revision |-> 1]
    BY <1>1, <1>2, <1>4, WrittenRows
<1>6. /\ n \in Artifacts => ~Stored(n) /\ n # a
      /\ NoArtifact \notin Artifacts /\ n \in Artifacts \cup {NoArtifact}
    BY <1>2, <1>3, <1>4, StorageAssumption DEF RequestOK, Shaped
<1>7. /\ IsFiniteSet(Counted) /\ (\A x \in Artifacts : Weight[x] \in Nat)
      /\ q.used = SumFunctionOnSet(Weight, Counted) /\ q.used \in Nat
    BY <1>2, CountedIsFinite DEF QuotaInv
<1>8. PICK W : W = [x \in Artifacts |-> SizeOf(row'[x].content)]
    OBVIOUS
<1>9. PICK C : C = {x \in Artifacts : row'[x].status = "active"}
    OBVIOUS
<1>10. ActiveBytes' = SumFunctionOnSet(W, C)
    BY <1>8, <1>9 DEF ActiveBytes, Active, SizeOf
<1>11. PICK S : S = Counted
    OBVIOUS
<1>12. PICK w : w = Weight
    OBVIOUS
<1>13. /\ IsFiniteSet(S) /\ (\A x \in Artifacts : w[x] \in Nat) /\ S \subseteq Artifacts
       /\ q.used = SumFunctionOnSet(w, S)
       /\ \A x \in S : row[x].status = "active"
       /\ \A x \in Artifacts \ S : row[x].status # "active"
       /\ \A x \in Artifacts : w[x] = SizeOf(row[x].content)
    BY <1>7, <1>11, <1>12 DEF Counted, Weight, Active
<1>14. /\ \A x \in Artifacts : x # n => W[x] = w[x]
       /\ n \in Artifacts => W[n] = SizeOf(q.content) /\ n \notin S
    BY <1>5, <1>6, <1>8, <1>13 DEF Stored
<1>15. ASSUME NEW T, T \subseteq S
       PROVE  IsFiniteSet(T) /\ SumFunctionOnSet(W, T) = SumFunctionOnSet(w, T)
  <2>1. IsFiniteSet(T) /\ \A x \in T : W[x] = w[x]
    BY <1>13, <1>14, <1>15, FS_Subset
  <2> QED
    BY <2>1, SumSame
<1>16. SizeOf(q.content) \in Nat
  <2>1. q.content \in Contents \cup {NoContent}
    BY <1>2 DEF Shaped
  <2> QED
    BY <2>1, StorageAssumption DEF SizeOf
<1>17. \A x \in Artifacts : x # n /\ x # a => row'[x] = row[x]
    BY <1>1, <1>2, <1>3, <1>4 DEF Written
<1>18. q.op \in {"upload", "replace", "delete", "restore", "update"} /\ MaxProjectBytes \in Nat
    BY <1>2, StorageAssumption DEF RequestOK, Shaped, Operations
<1>19. a \in Artifacts /\ a # n =>
         row'[a].status = CASE q.op \in {"replace", "delete"} -> "deleted"
                            [] q.op = "restore" -> "active"
                            [] OTHER -> row[a].status
  <2> SUFFICES ASSUME a \in Artifacts, a # n
               PROVE  row'[a].status = CASE q.op \in {"replace", "delete"} -> "deleted"
                                         [] q.op = "restore" -> "active"
                                         [] OTHER -> row[a].status
    OBVIOUS
  <2>1. PICK status : /\ status = CASE q.op \in {"replace", "delete"} -> "deleted"
                                    [] q.op = "restore" -> "active"
                                    [] OTHER -> row[a].status
                      /\ row'[a] = [row[a] EXCEPT !.status = status,
                                                  !.revision = row[a].revision + 1]
    BY <1>1, <1>2, <1>3, <1>4 DEF Written
  <2>2. row[a] \in Rows
    BY DEF StoredInv, ShapeInv
  <2> QED
    BY <2>1, <2>2 DEF Rows
<1>20. SumFunctionOnSet(w, S) <= MaxProjectBytes
    BY <1>2, <1>13 DEF QuotaInv, QuotaHolds
<1>21. CASE q.op = "update"
  <2>1. n \notin Artifacts /\ a \in Artifacts
    BY <1>2, <1>3, <1>4, <1>21 DEF CallOK
  <2>2. C = S
    BY <1>6, <1>9, <1>13, <1>17, <1>19, <1>21, <2>1
  <2> QED
    BY <1>10, <1>15, <1>20, <2>2
<1>22. CASE q.op = "upload"
  <2>1. n \in Artifacts
    BY <1>2, <1>4, <1>22 DEF CallOK
  <2>2. C = S \cup {n}
    BY <1>5, <1>6, <1>9, <1>13, <1>14, <1>17, <1>19, <1>22, <2>1
  <2>3. \A x \in S : W[x] \in Nat
    BY <1>13, <1>14
  <2>4. SumFunctionOnSet(W, C) = SizeOf(q.content) + SumFunctionOnSet(W, S)
    BY <1>13, <1>14, <1>16, <2>1, <2>2, <2>3, SumWith
  <2>5. q.used - 0 + SizeOf(q.content) <= MaxProjectBytes
    BY <1>1, <1>2, <1>22 DEF Permitted, Fits
  <2> QED
    BY <1>7, <1>10, <1>13, <1>15, <1>16, <1>18, <2>4, <2>5
<1>23. CASE q.op = "replace"
  <2>1. n \in Artifacts /\ a \in Artifacts /\ n # a
    BY <1>2, <1>3, <1>4, <1>6, <1>23 DEF CallOK
  <2>2. /\ row[a].status = "active"
        /\ q.used - SizeOf(row[a].content) + SizeOf(q.content) <= MaxProjectBytes
    BY <1>1, <1>2, <1>3, <1>23 DEF Permitted, Fits, Active
  <2>3. PICK T : T = S \ {a}
    OBVIOUS
  <2>4. C = T \cup {n}
    BY <1>5, <1>9, <1>13, <1>14, <1>17, <1>19, <1>23, <2>1, <2>3
  <2>5. /\ a \in S /\ T \subseteq S /\ n \notin T /\ IsFiniteSet(T) /\ \A x \in T : W[x] \in Nat
    BY <1>13, <1>14, <1>15, <2>1, <2>2, <2>3
  <2>6. SumFunctionOnSet(W, C) = SizeOf(q.content) + SumFunctionOnSet(W, T)
    BY <1>14, <1>16, <2>1, <2>4, <2>5, SumWith
  <2>7. SumFunctionOnSet(w, S) = w[a] + SumFunctionOnSet(w, T)
    BY <1>13, <2>3, <2>5, SumWithout
  <2>8. SumFunctionOnSet(w, T) \in Nat /\ w[a] \in Nat /\ w[a] = SizeOf(row[a].content)
    BY <1>13, <2>1, <2>5, SumIsNat
  <2> QED
    BY <1>10, <1>13, <1>15, <1>16, <1>18, <2>2, <2>5, <2>6, <2>7, <2>8
<1>24. CASE q.op = "delete"
  <2>1. n \notin Artifacts /\ a \in Artifacts
    BY <1>2, <1>3, <1>4, <1>24 DEF CallOK
  <2>2. row[a].status = "active"
    BY <1>1, <1>2, <1>3, <1>24 DEF Permitted, Active
  <2>3. C = S \ {a}
    BY <1>6, <1>9, <1>13, <1>17, <1>19, <1>24, <2>1
  <2>4. a \in S /\ C \subseteq S
    BY <1>13, <2>1, <2>2, <2>3
  <2>5. SumFunctionOnSet(w, S) = w[a] + SumFunctionOnSet(w, C)
    BY <1>13, <2>3, <2>4, SumWithout
  <2>6. IsFiniteSet(C) /\ SumFunctionOnSet(w, C) \in Nat /\ w[a] \in Nat
    BY <1>13, <1>15, <2>1, <2>4, SumIsNat
  <2> QED
    BY <1>10, <1>15, <1>18, <1>20, <2>4, <2>5, <2>6
<1>25. CASE q.op = "restore"
  <2>1. n \notin Artifacts /\ a \in Artifacts
    BY <1>2, <1>3, <1>4, <1>25 DEF CallOK
  <2>2. /\ row[a].status = "deleted"
        /\ q.used - 0 + SizeOf(row[a].content) <= MaxProjectBytes
    BY <1>1, <1>2, <1>3, <1>25 DEF Permitted, Fits
  <2>3. C = S \cup {a}
    BY <1>6, <1>9, <1>13, <1>17, <1>19, <1>25, <2>1
  <2>4. a \notin S /\ W[a] = w[a] /\ w[a] = SizeOf(row[a].content) /\ w[a] \in Nat
    BY <1>6, <1>13, <1>14, <2>1, <2>2
  <2>5. \A x \in S : W[x] \in Nat
    BY <1>13, <1>14
  <2>6. SumFunctionOnSet(W, C) = W[a] + SumFunctionOnSet(W, S)
    BY <1>13, <2>3, <2>4, <2>5, SumWith
  <2> QED
    BY <1>7, <1>10, <1>13, <1>15, <1>18, <2>2, <2>4, <2>6
<1> QED
    BY <1>18, <1>21, <1>22, <1>23, <1>24, <1>25

\* A commit: only its own request was in a transaction.
LEMMA CommitKeepsQuota ==
    ASSUME StoredInv, QuotaInv, NEW r \in Requests, Commit(r)
    PROVE  QuotaInv'
<1>1. /\ request[r].pc = "locked"
      /\ \/ request' = [request EXCEPT ![r] = Idle]
         \/ request' = [request EXCEPT ![r] = IF request[r].new = NoArtifact THEN Idle
                                              ELSE [request[r] EXCEPT !.pc = "cleanup"]]
      /\ lock' = IF lock = r THEN NoRequest ELSE lock
      /\ project' = [project EXCEPT !.revision = project.revision + 1]
      /\ UNCHANGED <<bytes, issued, migration, files>>
    BY DEF Commit, Unlocked, At
<1>2. PICK q : q = request[r] /\ CallOK(q) /\ Shaped(q) /\ Measuring(q, r)
    BY DEF StoredInv, RequestsInv, RequestOK, QuotaInv
<1>3. PICK x : /\ request' = [request EXCEPT ![r] = x]
               /\ x = Idle \/ x = [q EXCEPT !.pc = "cleanup"]
    BY <1>1, <1>2
<1>4. CallOK(x) /\ x.pc # "locked"
  <2>1. CASE x = Idle
    BY <2>1, IdleCallIsOK
  <2>2. CASE x = [q EXCEPT !.pc = "cleanup"]
    BY <1>2, <2>2 DEF CallOK, Shaped
  <2> QED
    BY <1>3, <2>1, <2>2
<1>5. lock = r
    BY <1>1, <1>2 DEF Measuring
<1>6. /\ request'[r] = x
      /\ \A s \in Requests \ {r} : request'[s] = request[s]
    BY <1>3, OneRequestChanges DEF StoredInv
<1>7. ASSUME NEW s \in Requests PROVE (CallOK(request[s]) /\ Measuring(request[s], s))'
  <2>1. CASE s = r
    <3>1. request'[s] = x
      BY <1>6, <2>1
    <3> QED
      BY <1>4, <3>1 DEF CallOK, Measuring
  <2>2. CASE s # r
    <3>1. /\ request'[s] = request[s] /\ CallOK(request[s]) /\ Measuring(request[s], s)
      BY <1>6, <2>2 DEF QuotaInv
    <3>2. request[s].pc # "locked"
      BY <1>5, <2>2, <3>1 DEF Measuring
    <3> QED
      BY <3>1, <3>2 DEF CallOK, Measuring
  <2> QED
    BY <2>1, <2>2
<1>8. /\ project' \in [status : {"draft", "published", "deleted"}, revision : Nat]
      /\ lock' \in Requests \cup {NoRequest} /\ IsFiniteSet(issued')
    BY <1>1 DEF QuotaInv
<1>9. QuotaHolds'
    BY CommitWeighs DEF QuotaHolds
<1> QED
    BY <1>7, <1>8, <1>9 DEF QuotaInv

\* A migration writes the backend of a row, and nothing else the measure is
\* about; a project moves only while nobody is in a transaction of it.
LEMMA OthersKeepQuota ==
    ASSUME StoredInv, QuotaInv, UNCHANGED <<request, lock, issued>>,
           \/ UNCHANGED project
           \/ project' \in [status : {"draft", "published", "deleted"}, revision : Nat],
           \A a \in Artifacts : /\ row'[a].content = row[a].content
                                /\ row'[a].status = row[a].status
    PROVE  QuotaInv'
<1>1. ActiveBytes' = ActiveBytes
    BY SameWeight DEF Active
<1>2. ASSUME NEW s \in Requests PROVE (CallOK(request[s]) /\ Measuring(request[s], s))'
  <2>1. CallOK(request[s]) /\ Measuring(request[s], s)
    BY DEF QuotaInv
  <2> QED
    BY <1>1, <2>1 DEF CallOK, Measuring
<1>3. QuotaHolds'
    BY <1>1 DEF QuotaInv, QuotaHolds
<1> QED
    BY <1>2, <1>3 DEF QuotaInv

\* The steps of a migration.
LEMMA MigrationKeepsQuota ==
    ASSUME StoredInv, QuotaInv, NEW m \in Migrators, Migrate(m)
    PROVE  QuotaInv'
<1>1. UNCHANGED <<project, request, lock, issued>>
    BY DEF Migrate, Plan, Copy, CopyFails, Stamp, StampFails, EndRun
<1>2. ASSUME NEW a \in Artifacts
      PROVE  row'[a].content = row[a].content /\ row'[a].status = row[a].status
  <2>1. CASE Stamp(m)
    <3>1. PICK x : x = migration[m].item /\ row' = [row EXCEPT ![x].backend = "b2"]
      BY <2>1 DEF Stamp
    <3>2. row \in [Artifacts -> Rows]
      BY DEF StoredInv, ShapeInv
    <3>3. CASE a = x
      <4>1. row'[a] = [row[a] EXCEPT !.backend = "b2"]
        BY <3>1, <3>2, <3>3
      <4> QED
        BY <3>2, <4>1 DEF Rows
    <3>4. CASE a # x
      BY <3>1, <3>2, <3>4
    <3> QED
      BY <3>3, <3>4
  <2>2. CASE UNCHANGED row
    BY <2>2
  <2> QED
    BY <2>1, <2>2 DEF Migrate, Plan, Copy, CopyFails, StampFails, EndRun
<1> QED
    BY <1>1, <1>2, OthersKeepQuota

\* A new project without files.
LEMMA InitQuota == Init => QuotaInv
<1> SUFFICES ASSUME Init PROVE QuotaInv
    OBVIOUS
<1>1. /\ project \in [status : {"draft", "published", "deleted"}, revision : Nat]
      /\ lock \in Requests \cup {NoRequest}
    BY DEF Init
<1>2. IsFiniteSet(issued)
    BY FS_EmptySet DEF Init
<1>3. \A r \in Requests : CallOK(request[r]) /\ Measuring(request[r], r)
    BY IdleCallIsOK DEF Init, Measuring
<1>4. Counted = {}
    BY DEF Init, Counted, Active
<1>5. ActiveBytes = 0
  <2>1. ActiveBytes = SumFunctionOnSet(Weight, {})
    BY <1>4 DEF ActiveBytes, Weight, Counted
  <2> QED
    BY <2>1, SumEmpty
<1>6. QuotaHolds
  <2>1. MaxProjectBytes \in Nat
    BY StorageAssumption
  <2> QED
    BY <1>5, <2>1 DEF QuotaHolds
<1> QED
    BY <1>1, <1>2, <1>3, <1>6 DEF QuotaInv

\* Every step keeps it.
LEMMA NextQuota ==
    ASSUME StoredInv, QuotaInv, [Next]_vars
    PROVE  QuotaInv'
<1>1. CASE UNCHANGED vars
    BY <1>1, OthersKeepQuota DEF vars
<1>2. CASE MoveProject
  <2>1. UNCHANGED <<row, request, lock, issued>>
    BY <1>2 DEF MoveProject
  <2>2. project' \in [status : {"draft", "published", "deleted"}, revision : Nat]
    BY <1>2 DEF MoveProject, QuotaInv
  <2> QED
    BY <2>1, <2>2, OthersKeepQuota
<1>3. CASE DamageLocal
  <2>1. UNCHANGED <<project, row, request, lock, issued>>
    BY <1>3 DEF DamageLocal
  <2> QED
    BY <2>1, OthersKeepQuota
<1>4. ASSUME NEW m \in Migrators, Migrate(m) PROVE QuotaInv'
    BY <1>4, MigrationKeepsQuota
<1>5. ASSUME NEW r \in Requests, Serve(r) PROVE QuotaInv'
  <2>1. CASE \/ Upload(r) \/ Replace(r) \/ PutFails(r) \/ CleanUp(r)
             \/ OpenPublic(r) \/ OpenContent(r) \/ Vanish(r)
             \/ \E op \in {"update", "delete", "restore"} : Begin(r, op)
    BY <2>1, CallsKeepQuota
  <2>2. CASE LockProject(r) \/ Commit(r) \/ Abort(r)
    BY <2>2, LockKeepsQuota, CommitKeepsQuota, AbortKeepsQuota
  <2> QED
    BY <1>5, <2>1, <2>2 DEF Serve
<1> QED
    BY <1>1, <1>2, <1>3, <1>4, <1>5 DEF Next

\* The two parts together type every variable.
LEMMA PartsGiveTypes == StoredInv /\ QuotaInv => TypeOK
<1> SUFFICES ASSUME StoredInv, QuotaInv PROVE TypeOK
    OBVIOUS
<1>1. ASSUME NEW r \in Requests
      PROVE  request[r] \in
               [op : Operations,
                pc : {"idle", "ready", "locked", "cleanup", "opening"},
                target : Artifacts \cup {NoArtifact}, new : Artifacts \cup {NoArtifact},
                content : Contents \cup {NoContent}, backend : Backends,
                expected : Nat, used : Nat, found : BOOLEAN]
  <2>1. PICK q : q = request[r] /\ Shaped(q) /\ q.used \in Nat /\ q.expected \in Nat
    BY DEF StoredInv, RequestsInv, RequestOK, QuotaInv, CallOK
  <2> QED
    BY <2>1 DEF Shaped
<1>2. request = [r \in Requests |-> request[r]]
    BY DEF StoredInv, ShapeInv
<1>3. request \in [Requests ->
         [op : Operations,
          pc : {"idle", "ready", "locked", "cleanup", "opening"},
          target : Artifacts \cup {NoArtifact}, new : Artifacts \cup {NoArtifact},
          content : Contents \cup {NoContent}, backend : Backends,
          expected : Nat, used : Nat, found : BOOLEAN]]
    BY <1>1, <1>2
<1> QED
    BY <1>3 DEF TypeOK, StoredInv, ShapeInv, Runs, QuotaInv

-------------------------------------------------------------------------------
(* What the service promises, from both parts.                               *)

\* The types hold, the files that count fit the quota, and a row that says B2
\* has its bytes in B2, whatever happened to local files and however often a
\* migration was run.
THEOREM StorageTheorem == ASSUME OneMigration PROVE Spec => []StorageInv
<1>1. Init => QuotaInv
    BY InitQuota
<1>2. StoredInv /\ QuotaInv /\ [Next]_vars => QuotaInv'
    BY NextQuota
<1>3. StoredInv => MigratedRowsAreSound
    BY DEF StoredInv, RowsInv, RowOK, Held, MigratedRowsAreSound
<1>4. QuotaInv => QuotaHolds
    BY DEF QuotaInv
<1>5. StoredInv /\ QuotaInv => StorageInv
    BY <1>3, <1>4, PartsGiveTypes DEF StorageInv
<1>6. Spec => []StoredInv
    BY StoredInvariant
<1> QED
    BY <1>1, <1>2, <1>5, <1>6, PTL DEF Spec

\* Until a local file is damaged, rows have their bytes, and a download that
\* has read its row finds them.
THEOREM BytesTheorem == ASSUME OneMigration PROVE Spec => []BytesAreThere
<1>1. StoredInv => (Intact => RowsHaveBytes)
    BY DEF StoredInv, RowsInv, RowOK, Held, RowsHaveBytes, Intact
<1>2. StoredInv => (Intact => DownloadFindsBytes)
    BY DEF StoredInv, RequestsInv, RequestOK, Held, DownloadFindsBytes, At, Intact
<1>3. StoredInv => BytesAreThere
    BY <1>1, <1>2 DEF BytesAreThere
<1> QED
    BY <1>3, StoredInvariant, PTL

-------------------------------------------------------------------------------
(* The service implements a store of immutable contents.                     *)

\* What readers can tell of an artifact does not change.
SameToReaders(a) ==
    /\ Stored(a)' <=> Stored(a)
    /\ Active(a)' <=> Active(a)
    /\ row'[a].content = row[a].content

\* Nobody notices a step that changes none of this.
LEMMA Unnoticed ==
    ASSUME \A a \in Artifacts : /\ SameToReaders(a)
                                /\ told'[a] = "success" <=> told[a] = "success"
                                /\ Readable(a)' <=> Readable(a)
    PROVE  UNCHANGED Content!vars
<1>1. {a \in Artifacts : Stored(a)'} = {a \in Artifacts : Stored(a)}
    BY DEF SameToReaders
<1>2. {a \in Artifacts : Active(a)'} = {a \in Artifacts : Active(a)}
    BY DEF SameToReaders
<1>3. {a \in Artifacts : told'[a] = "success"} = {a \in Artifacts : told[a] = "success"}
    OBVIOUS
<1>4. [a \in Artifacts |-> row'[a].content] = [a \in Artifacts |-> row[a].content]
    BY DEF SameToReaders
<1>5. {a \in Artifacts : Readable(a)'} = {a \in Artifacts : Readable(a)}
    OBVIOUS
<1> QED
    BY <1>1, <1>2, <1>3, <1>4, <1>5 DEF Content!vars

\* A step that concerns the bytes of one artifact: if its creator was told of
\* success, a reader gets them before and after.
LEMMA OneFlickers ==
    ASSUME StoredInv, StoredInv', files = "intact", files' = "intact", UNCHANGED told,
           NEW a \in Artifacts, \A x \in Artifacts : SameToReaders(x),
           \A x \in Artifacts \ {a} : Readable(x)' <=> Readable(x)
    PROVE  Content!Flicker(a) \/ UNCHANGED Content!vars
<1>1. CASE Readable(a)' <=> Readable(a)
    BY <1>1, Unnoticed
<1>2. CASE ~(Readable(a)' <=> Readable(a))
  <2>1. Stored(a) /\ Stored(a)'
    BY <1>2 DEF Readable, SameToReaders
  <2>2. told[a] # "success"
    <3>1. Held(row[a].backend, a) /\ Held(row[a].backend, a)'
      BY <2>1 DEF StoredInv, RowsInv, RowOK
    <3> QED
      BY <1>2, <2>1, <3>1 DEF Held, Readable
  <2>3. {x \in Artifacts : Stored(x)'} = {x \in Artifacts : Stored(x)}
    BY DEF SameToReaders
  <2>4. {x \in Artifacts : Active(x)'} = {x \in Artifacts : Active(x)}
    BY DEF SameToReaders
  <2>5. [x \in Artifacts |-> row'[x].content] = [x \in Artifacts |-> row[x].content]
    BY DEF SameToReaders
  <2>6. {x \in Artifacts : told'[x] = "success"} = {x \in Artifacts : told[x] = "success"}
    OBVIOUS
  <2>7. {x \in Artifacts : Readable(x)'} \in {{x \in Artifacts : Readable(x)} \cup {a},
                                              {x \in Artifacts : Readable(x)} \ {a}}
    <3>1. CASE Readable(a)'
      <4>1. {x \in Artifacts : Readable(x)'} = {x \in Artifacts : Readable(x)} \cup {a}
        BY <3>1
      <4> QED
        BY <4>1
    <3>2. CASE ~Readable(a)'
      <4>1. {x \in Artifacts : Readable(x)'} = {x \in Artifacts : Readable(x)} \ {a}
        BY <3>2
      <4> QED
        BY <4>1
    <3> QED
      BY <3>1, <3>2
  <2>8. a \in {x \in Artifacts : Stored(x)} \ {x \in Artifacts : told[x] = "success"}
    BY <2>1, <2>2
  <2> QED
    BY <2>3, <2>4, <2>5, <2>6, <2>7, <2>8 DEF Content!Flicker
<1> QED
    BY <1>1, <1>2

\* The steps of a request that are not a commit.
LEMMA CallsAreContent ==
    ASSUME StoredInv, StoredInv', files = "intact", files' = "intact", NEW r \in Requests,
           Serve(r), ~Commit(r)
    PROVE  (\E a \in Artifacts : Content!Flicker(a)) \/ UNCHANGED Content!vars
<1>1. row' = row
    BY DEF Serve, Upload, Replace, Store, PutFails, Begin, LockProject, Abort, CleanUp,
           OpenPublic, OpenContent, Vanish
<1>2. \A x \in Artifacts : SameToReaders(x)
    BY <1>1 DEF SameToReaders, Stored, Active
<1>3. ASSUME NEW a \in Artifacts, ~Stored(a), told[a] # "success", told'[a] # "success",
             \A x \in Artifacts \ {a} : told'[x] = told[x],
             \A d \in Backends, x \in Artifacts \ {a} : bytes'[d][x] = bytes[d][x]
      PROVE  UNCHANGED Content!vars
  <2>1. \A x \in Artifacts : row[x].backend \in Backends
    BY DEF StoredInv, ShapeInv, Rows
  <2>2. ASSUME NEW x \in Artifacts PROVE Readable(x)' <=> Readable(x)
    BY <1>1, <1>3, <2>1 DEF Readable, Stored
  <2> QED
    BY <1>2, <1>3, <2>2, Unnoticed
<1>4. CASE UNCHANGED <<bytes, told>>
  <2>1. ASSUME NEW x \in Artifacts PROVE Readable(x)' <=> Readable(x)
    BY <1>1, <1>4 DEF Readable, Stored
  <2> QED
    BY <1>2, <1>4, <2>1, Unnoticed
<1>5. CASE Upload(r) \/ Replace(r)
  <2>1. PICK op, target, expected : Store(r, op, target, expected)
    BY <1>5 DEF Upload, Replace
  <2>2. PICK a \in Artifacts \ issued, c \in Contents, option \in Defaults,
             pc \in {"ready", "cleanup"} :
          /\ PutAt(DefaultName(option), a, c)
          /\ told' = [told EXCEPT ![a] = IF pc = "ready" THEN @ ELSE "failure"]
    BY <2>1 DEF Store
  <2>3. DefaultName(option) \in Backends
    BY DefaultIsBackend
  <2>4. ~Stored(a) /\ told[a] = "nothing"
    BY UnissuedIsUnknown
  <2>5. \A d \in Backends, x \in Artifacts \ {a} : bytes'[d][x] = bytes[d][x]
    BY <2>2, <2>3, OneObjectChanges DEF StoredInv
  <2>6. told'[a] # "success" /\ \A x \in Artifacts \ {a} : told'[x] = told[x]
    BY <2>2, <2>4 DEF StoredInv, ShapeInv
  <2> QED
    BY <1>3, <2>4, <2>5, <2>6
<1>6. CASE PutFails(r)
  <2>1. PICK a \in Artifacts \ issued, c \in Contents, option \in Defaults :
          /\ bytes' \in {bytes} \cup
                (IF DefaultName(option) = "b2" THEN {[bytes EXCEPT !["b2"][a] = c]} ELSE {})
          /\ told' = [told EXCEPT ![a] = "failure"]
    BY <1>6 DEF PutFails
  <2>2. ~Stored(a) /\ told[a] = "nothing"
    BY UnissuedIsUnknown
  <2>3. \A d \in Backends, x \in Artifacts \ {a} : bytes'[d][x] = bytes[d][x]
    <3>1. CASE bytes' = bytes
      BY <3>1
    <3>2. CASE PutAt("b2", a, c)
      BY <3>2, OneObjectChanges DEF StoredInv, Backends
    <3> QED
      BY <2>1, <3>1, <3>2 DEF PutAt
  <2>4. told'[a] # "success" /\ \A x \in Artifacts \ {a} : told'[x] = told[x]
    BY <2>1 DEF StoredInv, ShapeInv
  <2> QED
    BY <1>3, <2>2, <2>3, <2>4
<1>7. CASE Abort(r)
  <2>1. /\ request[r].pc \in {"ready", "locked"} /\ Answer(r, "failure") /\ bytes' = bytes
    BY <1>7 DEF Abort, At
  <2>2. CASE request[r].new = NoArtifact
    BY <1>4, <2>1, <2>2 DEF Answer
  <2>3. CASE request[r].new # NoArtifact
    <3>1. PICK a \in Artifacts : a = request[r].new
      BY <2>3 DEF StoredInv, RequestsInv, RequestOK, Shaped
    <3>2. ~Stored(a) /\ told[a] = "nothing"
      BY <2>1, <3>1 DEF StoredInv, RequestsInv, RequestOK
    <3>3. told' = [told EXCEPT ![a] = "failure"]
      BY <2>1, <2>3, <3>1 DEF Answer
    <3>4. told'[a] # "success" /\ \A x \in Artifacts \ {a} : told'[x] = told[x]
      BY <3>3 DEF StoredInv, ShapeInv
    <3> QED
      BY <1>3, <2>1, <3>2, <3>4
  <2> QED
    BY <2>2, <2>3
<1>8. CASE CleanUp(r)
  <2>1. /\ request[r].pc = "cleanup" /\ told' = told
        /\ \/ PutAt(request[r].backend, request[r].new, NoContent)
           \/ bytes' = bytes
    BY <1>8 DEF CleanUp, RemoveNew, At
  <2>2. PICK a \in Artifacts, b \in Backends : a = request[r].new /\ b = request[r].backend
    BY <2>1 DEF StoredInv, RequestsInv, RequestOK, Shaped
  <2>3. \A d \in Backends, x \in Artifacts \ {a} : bytes'[d][x] = bytes[d][x]
    <3>1. CASE bytes' = bytes
      BY <3>1
    <3>2. CASE PutAt(b, a, NoContent)
      BY <3>2, OneObjectChanges DEF StoredInv
    <3> QED
      BY <2>1, <2>2, <3>1, <3>2
  <2>4. \A x \in Artifacts : row[x].backend \in Backends
    BY DEF StoredInv, ShapeInv, Rows
  <2>5. ASSUME NEW x \in Artifacts \ {a} PROVE Readable(x)' <=> Readable(x)
    BY <1>1, <2>3, <2>4 DEF Readable, Stored
  <2> QED
    BY <1>2, <2>1, <2>5, OneFlickers
<1>9. CASE \/ Begin(r, "update") \/ Begin(r, "delete") \/ Begin(r, "restore")
           \/ LockProject(r) \/ OpenPublic(r) \/ OpenContent(r) \/ Vanish(r)
    BY <1>4, <1>9 DEF Begin, LockProject, OpenPublic, OpenContent, Vanish
<1> QED
    BY <1>5, <1>6, <1>7, <1>8, <1>9 DEF Serve

\* A commit creates an artifact, perhaps in place of another, withdraws or
\* returns one, or changes what readers do not see.
LEMMA CommitIsContent ==
    ASSUME StoredInv, StoredInv', QuotaInv, files = "intact", NEW r \in Requests, Commit(r)
    PROVE  Content!Next \/ UNCHANGED Content!vars
<1>1. /\ request[r].pc = "locked" /\ row' = Written(r) /\ Permitted(r) /\ bytes' = bytes
      /\ Answer(r, "success") \/ Answer(r, "failure")
    BY DEF Commit, At
<1>2. PICK q : /\ q = request[r] /\ RequestOK(q) /\ Shaped(q) /\ CallOK(q)
               /\ q.pc = "locked"
    BY <1>1 DEF StoredInv, RequestsInv, RequestOK, QuotaInv
<1>3. PICK t, n : t = q.target /\ n = q.new
    OBVIOUS
<1>4. /\ row' \in [Artifacts -> Rows]
      /\ \A a \in Artifacts : a # n =>
            /\ Stored(a)' <=> Stored(a)
            /\ row'[a].content = row[a].content /\ row'[a].backend = row[a].backend
      /\ n \in Artifacts => row'[n] = [status |-> "active", backend |-> q.backend,
                                       content |-> q.content, revision |-> 1]
    BY <1>1, <1>2, <1>3, WrittenRows
<1>5. /\ n \in Artifacts => ~Stored(n) /\ n # t
      /\ NoArtifact \notin Artifacts /\ n \in Artifacts \cup {NoArtifact}
      /\ t \in Artifacts => Stored(t)
      /\ q.op \in {"upload", "replace", "delete", "restore", "update"}
    BY <1>2, <1>3, StorageAssumption DEF RequestOK, Shaped, Operations
<1>6. \A a \in Artifacts : a # n /\ a # t => (Active(a)' <=> Active(a))
    BY <1>1, <1>2, <1>3 DEF Written, Active
<1>7. t \in Artifacts =>
         row'[t].status = CASE q.op \in {"replace", "delete"} -> "deleted"
                            [] q.op = "restore" -> "active"
                            [] OTHER -> row[t].status
  <2> SUFFICES ASSUME t \in Artifacts
               PROVE  row'[t].status = CASE q.op \in {"replace", "delete"} -> "deleted"
                                         [] q.op = "restore" -> "active"
                                         [] OTHER -> row[t].status
    OBVIOUS
  <2>1. PICK status : /\ status = CASE q.op \in {"replace", "delete"} -> "deleted"
                                    [] q.op = "restore" -> "active"
                                    [] OTHER -> row[t].status
                      /\ row'[t] = [row[t] EXCEPT !.status = status,
                                                  !.revision = row[t].revision + 1]
    BY <1>1, <1>2, <1>3, <1>5 DEF Written
  <2>2. row[t] \in Rows
    BY DEF StoredInv, ShapeInv
  <2> QED
    BY <2>1, <2>2 DEF Rows
<1>8. ASSUME NEW a \in Artifacts, a # n
      PROVE  Readable(a)' <=> Readable(a)
    BY <1>1, <1>4, <1>8 DEF Readable
<1>9. CASE n \notin Artifacts
  <2>1. told' = told /\ t \in Artifacts /\ q.op \in {"delete", "restore", "update"}
    BY <1>1, <1>2, <1>3, <1>5, <1>9 DEF Answer, CallOK
  <2>2. {a \in Artifacts : Stored(a)'} = {a \in Artifacts : Stored(a)}
    BY <1>4, <1>9
  <2>3. [a \in Artifacts |-> row'[a].content] = [a \in Artifacts |-> row[a].content]
    BY <1>4, <1>9
  <2>4. {a \in Artifacts : Readable(a)'} = {a \in Artifacts : Readable(a)}
    BY <1>8, <1>9
  <2>5. {a \in Artifacts : told'[a] = "success"} = {a \in Artifacts : told[a] = "success"}
    BY <2>1
  <2>6. CASE q.op = "update"
    <3>1. \A a \in Artifacts : Active(a)' <=> Active(a)
      BY <1>6, <1>7, <1>9, <2>1, <2>6 DEF Active
    <3> QED
      BY <1>4, <1>8, <1>9, <2>1, <3>1, Unnoticed DEF SameToReaders
  <2>7. CASE q.op = "delete"
    <3>1. Active(t) /\ ~Active(t)'
      BY <1>1, <1>2, <1>3, <1>7, <2>1, <2>7 DEF Permitted, Active
    <3>2. {a \in Artifacts : Active(a)'} = {a \in Artifacts : Active(a)} \ {t}
      BY <1>6, <1>9, <3>1
    <3>3. Content!Withdraw(t)
      BY <2>1, <2>2, <2>3, <2>4, <2>5, <3>1, <3>2 DEF Content!Withdraw
    <3> QED
      BY <2>1, <3>3 DEF Content!Next
  <2>8. CASE q.op = "restore"
    <3>1. Stored(t) /\ ~Active(t) /\ Active(t)'
      BY <1>1, <1>2, <1>3, <1>5, <1>7, <2>1, <2>8 DEF Permitted, Active
    <3>2. {a \in Artifacts : Active(a)'} = {a \in Artifacts : Active(a)} \cup {t}
      BY <1>6, <1>9, <2>1, <3>1
    <3>3. Content!Return(t)
      BY <2>1, <2>2, <2>3, <2>4, <2>5, <3>1, <3>2 DEF Content!Return
    <3> QED
      BY <2>1, <3>3 DEF Content!Next
  <2> QED
    BY <2>1, <2>6, <2>7, <2>8
<1>10. CASE n \in Artifacts
  <2>1. q.op \in {"upload", "replace"} /\ q.content \in Contents
    BY <1>2, <1>3, <1>10 DEF CallOK
  <2>2. bytes[q.backend][n] = q.content
    BY <1>2, <1>3, <1>10 DEF RequestOK
  <2>3. Stored(n)' /\ Active(n)' /\ row'[n].content = q.content /\ row'[n].backend = q.backend
    BY <1>4, <1>10 DEF Stored, Active
  <2>4. Readable(n)' /\ ~Active(n) /\ ~Readable(n)
    BY <1>1, <1>5, <1>10, <2>2, <2>3 DEF Readable, Active, Stored
  <2>5. {a \in Artifacts : Stored(a)'} = {a \in Artifacts : Stored(a)} \cup {n}
    BY <1>4, <1>10, <2>3
  <2>6. {a \in Artifacts : Readable(a)'} = {a \in Artifacts : Readable(a)} \cup {n}
    BY <1>8, <1>10, <2>4
  <2>7. [a \in Artifacts |-> row'[a].content] =
          [[a \in Artifacts |-> row[a].content] EXCEPT ![n] = q.content]
    BY <1>4, <1>10, <2>3
  <2>8. {a \in Artifacts : told'[a] = "success"} \in
          {{a \in Artifacts : told[a] = "success"}, {a \in Artifacts : told[a] = "success"} \cup {n}}
    <3>1. PICK verdict \in {"success", "failure"} : told' = [told EXCEPT ![n] = verdict]
      BY <1>1, <1>2, <1>3, <1>5, <1>10 DEF Answer
    <3>2. told[n] = "nothing"
      BY <1>2, <1>3, <1>10 DEF RequestOK
    <3>3. told'[n] = verdict /\ \A a \in Artifacts \ {n} : told'[a] = told[a]
      BY <1>10, <3>1 DEF StoredInv, ShapeInv
    <3>4. CASE verdict = "success"
      <4>1. {a \in Artifacts : told'[a] = "success"} = {a \in Artifacts : told[a] = "success"} \cup {n}
        BY <1>10, <3>3, <3>4
      <4> QED
        BY <4>1
    <3>5. CASE verdict = "failure"
      <4>1. {a \in Artifacts : told'[a] = "success"} = {a \in Artifacts : told[a] = "success"}
        BY <3>2, <3>3, <3>5
      <4> QED
        BY <4>1
    <3> QED
      BY <3>4, <3>5
  <2>9. n \notin {a \in Artifacts : Stored(a)}
    BY <1>5, <1>10
  <2>10. CASE q.op = "upload"
    <3>1. t \in Artifacts => (Active(t)' <=> Active(t))
      BY <1>7, <2>10 DEF Active
    <3>2. {a \in Artifacts : Active(a)'} = ({a \in Artifacts : Active(a)} \ {}) \cup {n}
      BY <1>6, <1>10, <2>3, <3>1
    <3>3. Content!Create(n, {})
      BY <2>1, <2>5, <2>6, <2>7, <2>8, <2>9, <3>2 DEF Content!Create
    <3> QED
      BY <1>10, <3>3 DEF Content!Next
  <2>11. CASE q.op = "replace"
    <3>1. t \in Artifacts /\ Active(t)
      BY <1>1, <1>2, <1>3, <2>11 DEF Permitted, CallOK
    <3>2. ~Active(t)'
      BY <1>7, <2>11, <3>1 DEF Active
    <3>3. {a \in Artifacts : Active(a)'} = ({a \in Artifacts : Active(a)} \ {t}) \cup {n}
      BY <1>5, <1>6, <1>10, <2>3, <3>1, <3>2
    <3>4. t \in {a \in Artifacts : Active(a)}
      BY <3>1
    <3>5. Content!Create(n, {t})
      BY <2>1, <2>5, <2>6, <2>7, <2>8, <2>9, <3>3, <3>4 DEF Content!Create
    <3> QED
      BY <1>10, <3>4, <3>5 DEF Content!Next
  <2> QED
    BY <2>1, <2>10, <2>11
<1> QED
    BY <1>9, <1>10

\* A migration: readers of what was acknowledged cannot tell.
LEMMA MigrationIsContent ==
    ASSUME StoredInv, StoredInv', files = "intact", files' = "intact", NEW m \in Migrators,
           Migrate(m)
    PROVE  (\E a \in Artifacts : Content!Flicker(a)) \/ UNCHANGED Content!vars
<1>1. told' = told
    BY DEF Migrate, Plan, Copy, CopyFails, Stamp, StampFails, EndRun
<1>2. \A x \in Artifacts : row[x].backend \in Backends /\ row[x] \in Rows
    BY DEF StoredInv, ShapeInv, Rows
<1>3. ASSUME NEW a \in Artifacts, row' = row,
             \A d \in Backends, x \in Artifacts \ {a} : bytes'[d][x] = bytes[d][x]
      PROVE  Content!Flicker(a) \/ UNCHANGED Content!vars
  <2>1. \A x \in Artifacts : SameToReaders(x)
    BY <1>3 DEF SameToReaders, Stored, Active
  <2>2. ASSUME NEW x \in Artifacts \ {a} PROVE Readable(x)' <=> Readable(x)
    BY <1>2, <1>3 DEF Readable, Stored
  <2> QED
    BY <1>1, <2>1, <2>2, OneFlickers
<1>4. CASE UNCHANGED <<row, bytes>>
  <2>1. \A x \in Artifacts : SameToReaders(x)
    BY <1>4 DEF SameToReaders, Stored, Active
  <2>2. ASSUME NEW x \in Artifacts PROVE Readable(x)' <=> Readable(x)
    BY <1>4 DEF Readable, Stored
  <2> QED
    BY <1>1, <2>1, <2>2, Unnoticed
<1>5. CASE Copy(m) \/ CopyFails(m)
  <2>1. PICK a \in migration[m].work :
          /\ bytes' = bytes \/ (bytes["local"][a] # NoContent /\ PutAt("b2", a, bytes["local"][a]))
          /\ row' = row
    BY <1>5 DEF Copy, CopyFails
  <2>2. a \in Artifacts
    BY DEF StoredInv, ShapeInv, Runs
  <2>3. bytes["local"][a] \in Contents \cup {NoContent}
    BY <2>2 DEF StoredInv, ShapeInv, Backends
  <2>4. \A d \in Backends, x \in Artifacts \ {a} : bytes'[d][x] = bytes[d][x]
    <3>1. CASE bytes' = bytes
      BY <3>1
    <3>2. CASE PutAt("b2", a, bytes["local"][a])
      BY <2>2, <2>3, <3>2, OneObjectChanges DEF StoredInv, Backends
    <3> QED
      BY <2>1, <3>1, <3>2
  <2> QED
    BY <1>3, <2>1, <2>2, <2>4
<1>6. CASE Stamp(m)
  <2>1. PICK a : a = migration[m].item
    OBVIOUS
  <2>2. /\ migration[m].pc = "copied" /\ row' = [row EXCEPT ![a].backend = "b2"]
        /\ bytes' = bytes
    BY <1>6, <2>1 DEF Stamp, Moves
  <2>3. a \in Artifacts
    BY <2>1, <2>2 DEF StoredInv, RunsInv, RunOK
  <2>4. row \in [Artifacts -> Rows]
    BY DEF StoredInv, ShapeInv
  <2>5. row'[a] = [row[a] EXCEPT !.backend = "b2"] /\ \A x \in Artifacts \ {a} : row'[x] = row[x]
    BY <2>2, <2>3, <2>4
  <2>6. row'[a].status = row[a].status /\ row'[a].content = row[a].content
    BY <2>3, <2>4, <2>5 DEF Rows
  <2>7. \A x \in Artifacts : SameToReaders(x)
    BY <2>5, <2>6 DEF SameToReaders, Stored, Active
  <2>8. ASSUME NEW x \in Artifacts \ {a} PROVE Readable(x)' <=> Readable(x)
    BY <2>2, <2>5 DEF Readable, Stored
  <2> QED
    BY <1>1, <2>3, <2>7, <2>8, OneFlickers
<1> QED
    BY <1>4, <1>5, <1>6 DEF Migrate, Plan, StampFails, EndRun

\* Every step before a local file is damaged.
LEMMA StepsAreContent ==
    ASSUME StoredInv, StoredInv', QuotaInv, [Next]_vars
    PROVE  [files' = "damaged" \/ Content!Next]_(Content!vars)
<1> SUFFICES ASSUME files' # "damaged"
             PROVE  Content!Next \/ UNCHANGED Content!vars
    OBVIOUS
<1>1. files' = "intact" /\ files \in {"intact", "damaged"}
    BY DEF StoredInv, ShapeInv
<1>2. ASSUME UNCHANGED <<row, bytes, told>> PROVE UNCHANGED Content!vars
  <2>1. ASSUME NEW x \in Artifacts
        PROVE  /\ SameToReaders(x) /\ (Readable(x)' <=> Readable(x))
               /\ told'[x] = "success" <=> told[x] = "success"
    BY <1>2 DEF SameToReaders, Stored, Active, Readable
  <2> QED
    BY <2>1, Unnoticed
<1>3. CASE UNCHANGED vars
    BY <1>2, <1>3 DEF vars
<1>4. CASE MoveProject
    BY <1>2, <1>4 DEF MoveProject
<1>5. CASE DamageLocal
    BY <1>1, <1>5 DEF DamageLocal
<1>6. ASSUME NEW m \in Migrators, Migrate(m) PROVE Content!Next \/ UNCHANGED Content!vars
  <2>1. files = "intact"
    BY <1>1, <1>6 DEF Migrate, Plan, Copy, CopyFails, Stamp, StampFails, EndRun
  <2> QED
    BY <1>1, <1>6, <2>1, MigrationIsContent DEF Content!Next
<1>7. ASSUME NEW r \in Requests, Serve(r) PROVE Content!Next \/ UNCHANGED Content!vars
  <2>1. files = "intact"
    BY <1>1, <1>7 DEF Serve, Upload, Replace, Store, PutFails, Begin, LockProject, Commit,
                      Abort, CleanUp, OpenPublic, OpenContent, Vanish
  <2>2. CASE Commit(r)
    BY <2>1, <2>2, CommitIsContent
  <2>3. CASE ~Commit(r)
    BY <1>1, <1>7, <2>1, <2>3, CallsAreContent DEF Content!Next
  <2> QED
    BY <2>2, <2>3
<1> QED
    BY <1>3, <1>4, <1>5, <1>6, <1>7 DEF Next

\* Until a local file is damaged the service takes only steps of a store of
\* immutable contents that never loses what it has acknowledged.
THEOREM ContentTheorem == ASSUME OneMigration PROVE Spec => ContentIsKept
<1>1. Spec => []StoredInv
    BY StoredInvariant
<1>2. Init => QuotaInv
    BY InitQuota
<1>3. StoredInv /\ QuotaInv /\ [Next]_vars => QuotaInv'
    BY NextQuota
<1>4. /\ StoredInv /\ StoredInv' /\ QuotaInv /\ [Next]_vars
      => [files' = "damaged" \/ Content!Next]_(Content!vars)
    BY StepsAreContent
<1> QED
    BY <1>1, <1>2, <1>3, <1>4, PTL DEF Spec, ContentIsKept

\* Where local files are never damaged, it implements that store.
THEOREM ContentRefinement == ASSUME LocalFaults = FALSE PROVE Spec => Content!Spec
<1>1. OneMigration
    BY DEF OneMigration
<1>2. Spec => []StoredInv
    BY <1>1, StoredInvariant
<1>3. Spec => ContentIsKept
    BY <1>1, ContentTheorem
<1>4. StoredInv' => files' # "damaged"
    BY DEF StoredInv, ShapeInv
<1>5. Init => Content!Init
    BY DEF Init, Content!Init, Stored, Active, Readable
<1>6. [files' = "damaged" \/ Content!Next]_(Content!vars) /\ files' # "damaged"
      => [Content!Next]_(Content!vars)
    OBVIOUS
<1> QED
    BY <1>2, <1>3, <1>4, <1>5, <1>6, PTL DEF Spec, ContentIsKept, Content!Spec
===============================================================================
