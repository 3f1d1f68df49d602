--------------------------- MODULE IdentityProofs ---------------------------
(***************************************************************************)
(* Proofs about the identity database, its administration and the cache in *)
(* front of it (Identity), for every set of keys, requests, documents and  *)
(* time bounds.                                                            *)
(***************************************************************************)
EXTENDS Identity, FiniteSetTheorems, SequenceTheorems, TLAPS

-----------------------------------------------------------------------------
(* The layers of a tier *)

\* One layer never admits a model that the tier under it refuses.
LEMMA LayerTightens ==
    ASSUME NEW tier, NEW doc, NEW m, AllowsModel(Layer(tier, doc), m)
    PROVE  AllowsModel(tier, m)
<1>1. {Wild, m} \cap tier.deny = {}
  BY DEF AllowsModel, Layer
<1>2. {Wild, m} \cap tier.allow # {}
  BY DEF AllowsModel, Layer, Intersect
<1> QED BY <1>1, <1>2 DEF AllowsModel

\* Whatever documents are stored, a key may call only what its user and its
\* tier may call (limits.go:23).
THEOREM TightenOnly == Spec => []LayersOnlyTighten
<1>1. LayersOnlyTighten
  BY LayerTightens DEF LayersOnlyTighten, MergeTier
<1> QED BY <1>1, PTL

-----------------------------------------------------------------------------
(* The key ceiling *)

\* The keys issued and not disabled since.
Issued == {k \in Keys : status[k] = "active"}

\* The row lock: one issuance at a time, and its count still holds when it
\* commits, because whatever happens in between only takes from it.
CeilingInv ==
    /\ status \in [Keys -> {"none", "active", "disabled", "restored"}]
    /\ Cardinality(Issued) <= MaxKeysPerUser
    /\ issuing # {} => Cardinality(Issued) < MaxKeysPerUser
    /\ \A a, b \in issuing : a = b

\* Some of the keys are finitely many.
LEMMA SomeKeys ==
    ASSUME NEW S \in SUBSET Keys, NEW T \in SUBSET S
    PROVE  /\ IsFiniteSet(S) /\ Cardinality(S) \in Nat
           /\ Cardinality(T) \in Nat /\ Cardinality(T) <= Cardinality(S)
BY IdentityAssumption, FS_Subset, FS_CardinalityType DEF IdentityAssumption

\* No key is issued at first.
LEMMA InitCeiling == Init => CeilingInv
<1> SUFFICES ASSUME Init PROVE CeilingInv
  OBVIOUS
<1>1. Issued = {}
  BY DEF Init, Issued
<1> QED BY <1>1, FS_EmptySet, IdentityAssumption DEF IdentityAssumption, Init, CeilingInv

\* Every step keeps the ceiling: an issuance counted under the row lock.
LEMMA NextCeiling == CeilingInv /\ [Next]_vars => CeilingInv'
<1> SUFFICES ASSUME CeilingInv, [Next]_vars PROVE CeilingInv'
  OBVIOUS
<1>0. MaxKeysPerUser \in Nat /\ Issued \subseteq Keys /\ Issued' \subseteq Keys
      /\ Cardinality(Issued) \in Nat /\ IsFiniteSet(Issued)
  BY SomeKeys, IdentityAssumption DEF IdentityAssumption, Issued
<1>1. ASSUME NEW a \in Admins, CreateKeyCount(a) PROVE CeilingInv'
  <2>1. issuing = {} /\ issuing' = {a} /\ UNCHANGED status /\ Cardinality(Held) < MaxKeysPerUser
    BY <1>1 DEF CreateKeyCount, RowFree
  <2>2. Issued' = Issued /\ Issued \subseteq Held /\ Held \subseteq Keys
    BY <2>1 DEF Issued, Held, Active
  <2>3. Cardinality(Held) \in Nat /\ Cardinality(Issued) <= Cardinality(Held)
    BY <2>2, SomeKeys
  <2> QED BY <1>0, <2>1, <2>2, <2>3 DEF CeilingInv
<1>2. ASSUME NEW a \in Admins, CreateKeyCommit(a) PROVE CeilingInv'
  <2>1. PICK k \in Keys : status[k] = "none" /\ status' = [status EXCEPT ![k] = "active"]
    BY <1>2 DEF CreateKeyCommit
  <2>2. a \in issuing /\ issuing' = issuing \ {a}
    BY <1>2 DEF CreateKeyCommit
  <2>3. issuing' = {}
    BY <2>2 DEF CeilingInv
  <2>4. Issued' = Issued \cup {k} /\ k \notin Issued
    BY <2>1 DEF CeilingInv, Issued
  <2>5. Cardinality(Issued') = Cardinality(Issued) + 1
    BY <1>0, <2>4, FS_AddElement
  <2>6. status' \in [Keys -> {"none", "active", "disabled", "restored"}]
    BY <2>1 DEF CeilingInv
  <2> QED BY <1>0, <2>2, <2>3, <2>5, <2>6 DEF CeilingInv
<1>3. ASSUME NEW a \in Admins, CreateKeyRollback(a) PROVE CeilingInv'
  BY <1>3 DEF CreateKeyRollback, CeilingInv, Issued
<1>4. ASSUME NEW k \in Keys, NEW active \in BOOLEAN, SetKeyStatus(k, active) PROVE CeilingInv'
  <2>1. /\ status' = [status EXCEPT ![k] = IF active THEN "restored" ELSE "disabled"]
        /\ UNCHANGED issuing
    BY <1>4 DEF SetKeyStatus
  <2>2. status' \in [Keys -> {"none", "active", "disabled", "restored"}] /\ Issued' \subseteq Issued
    BY <2>1 DEF CeilingInv, Issued
  <2>3. Cardinality(Issued') \in Nat /\ Cardinality(Issued') <= Cardinality(Issued)
    BY <1>0, <2>2, SomeKeys
  <2> QED BY <1>0, <2>1, <2>2, <2>3 DEF CeilingInv
<1>5. ASSUME UNCHANGED <<status, issuing>> PROVE CeilingInv'
  BY <1>5 DEF CeilingInv, Issued
<1> QED BY <1>1, <1>2, <1>3, <1>4, <1>5
       DEF Next, vars, record, ServeCreateKey, ServeKeyStatus, ServeLimitsReplace, Tick,
           SetUserLimits, SetKeyLimits, Hit, Miss, Query, ResolveFails, Store

-----------------------------------------------------------------------------
(* The list of the cache *)

\* Taking a key out of a list that holds each key once.
LEMMA WithoutKey ==
    ASSUME order \in Seq(Keys), IsInjective(order), NEW k \in Keys
    PROVE  /\ Without(k) \in Seq(Keys) /\ IsInjective(Without(k))
           /\ ToSet(Without(k)) = ToSet(order) \ {k}
           /\ Len(Without(k)) = IF k \in ToSet(order) THEN Len(order) - 1 ELSE Len(order)
<1>1. CASE k \notin ToSet(order)
  BY <1>1 DEF Without
<1>2. CASE k \in ToSet(order)
  <2> DEFINE p == CHOOSE i \in DOMAIN order : order[i] = k
             n == Len(order)
             s == Without(k)
             left == SubSeq(order, 1, p - 1)
             right == SubSeq(order, p + 1, n)
  <2>1. p \in 1..n /\ order[p] = k /\ n \in Nat
    BY <1>2 DEF ToSet
  <2> HIDE DEF p
  <2>2. s = left \o right
    BY <1>2 DEF Without, RemoveAt, p
  <2>3. /\ left \in Seq(Keys) /\ Len(left) = p - 1
        /\ \A i \in 1..(p - 1) : left[i] = order[i]
    <3>1. \A i \in 1..(p - 1) : order[i] \in Keys
      BY <2>1
    <3> QED BY <2>1, <3>1, SubSeqProperties
  <2>4. /\ right \in Seq(Keys) /\ Len(right) = n - p
        /\ \A i \in 1..(n - p) : right[i] = order[p + i]
    <3>1. \A i \in (p + 1)..n : order[i] \in Keys
      BY <2>1
    <3>2. /\ right \in Seq(Keys) /\ Len(right) = IF p + 1 <= n THEN n - (p + 1) + 1 ELSE 0
          /\ \A i \in 1..(n - (p + 1) + 1) : right[i] = order[(p + 1) + i - 1]
      BY <2>1, <3>1, SubSeqProperties
    <3> QED BY <2>1, <3>2
  <2> HIDE DEF left, right, n
  <2>5. /\ s \in Seq(Keys) /\ Len(s) = n - 1
        /\ \A i \in 1..(n - 1) : s[i] = IF i < p THEN order[i] ELSE order[i + 1]
    <3>1. /\ s \in Seq(Keys) /\ Len(s) = Len(left) + Len(right)
          /\ \A i \in 1..(Len(left) + Len(right)) :
               s[i] = IF i <= Len(left) THEN left[i] ELSE right[i - Len(left)]
      BY <2>2, <2>3, <2>4, ConcatProperties
    <3>2. Len(s) = n - 1
      BY <2>1, <2>3, <2>4, <3>1
    <3>3. ASSUME NEW i \in 1..(n - 1)
          PROVE  s[i] = IF i < p THEN order[i] ELSE order[i + 1]
      <4>1. CASE i < p
        BY <2>1, <2>3, <2>4, <3>1, <4>1
      <4>2. CASE ~(i < p)
        <5>1. s[i] = right[i - (p - 1)] /\ i - (p - 1) \in 1..(n - p)
          BY <2>1, <2>3, <2>4, <3>1, <4>2
        <5>2. right[i - (p - 1)] = order[p + (i - (p - 1))]
          BY <2>4, <5>1
        <5> QED BY <2>1, <4>2, <5>1, <5>2
      <4> QED BY <4>1, <4>2
    <3> QED BY <3>1, <3>2, <3>3
  <2> HIDE DEF s
  <2>6. DOMAIN order = 1..n /\ DOMAIN s = 1..(n - 1)
    BY <2>1, <2>5 DEF n
  <2>7. IsInjective(s)
    <3> SUFFICES ASSUME NEW a \in 1..(n - 1), NEW b \in 1..(n - 1), s[a] = s[b]
                 PROVE  a = b
      BY <2>6 DEF IsInjective
    <3>1. \A i, j \in 1..n : order[i] = order[j] => i = j
      BY <2>6 DEF IsInjective
    <3> QED BY <2>1, <2>5, <3>1
  <2>8. ToSet(s) = ToSet(order) \ {k}
    <3>1. ASSUME NEW x \in ToSet(s) PROVE x \in ToSet(order) \ {k}
      <4>1. PICK i \in 1..(n - 1) : x = s[i]
        BY <2>6, <3>1 DEF ToSet
      <4>2. PICK j \in 1..n : x = order[j] /\ j # p
        BY <2>1, <2>5, <4>1
      <4>3. order[j] # order[p]
        BY <2>1, <2>6, <4>2 DEF IsInjective
      <4> QED BY <2>1, <2>6, <4>2, <4>3 DEF ToSet
    <3>2. ASSUME NEW x \in ToSet(order), x # k PROVE x \in ToSet(s)
      <4>1. PICK j \in 1..n : x = order[j]
        BY <2>6, <3>2 DEF ToSet
      <4>2. j # p
        BY <2>1, <3>2, <4>1
      <4>3. CASE j < p
        BY <2>1, <2>5, <2>6, <4>1, <4>3 DEF ToSet
      <4>4. CASE j > p
        <5>1. j - 1 \in 1..(n - 1) /\ s[j - 1] = order[j]
          BY <2>1, <2>5, <4>4
        <5> QED BY <2>6, <4>1, <5>1 DEF ToSet
      <4> QED BY <2>1, <4>2, <4>3, <4>4
    <3> QED BY <3>1, <3>2
  <2> QED BY <1>2, <2>5, <2>7, <2>8 DEF s, n
<1> QED BY <1>1, <1>2

\* Moving a key to the front, or pushing it there.
LEMMA FrontKey ==
    ASSUME order \in Seq(Keys), IsInjective(order), NEW k \in Keys
    PROVE  /\ ToFront(k) \in Seq(Keys) /\ IsInjective(ToFront(k))
           /\ ToSet(ToFront(k)) = ToSet(order) \cup {k}
           /\ Len(ToFront(k)) = IF k \in ToSet(order) THEN Len(order) ELSE Len(order) + 1
<1> DEFINE s == Without(k)
           f == ToFront(k)
<1>1. /\ s \in Seq(Keys) /\ IsInjective(s) /\ ToSet(s) = ToSet(order) \ {k}
      /\ Len(s) = IF k \in ToSet(order) THEN Len(order) - 1 ELSE Len(order)
      /\ Len(order) \in Nat
  BY WithoutKey
<1>2. f = <<k>> \o s
  BY DEF ToFront
<1> HIDE DEF s, f
<1>3. <<k>> \in Seq(Keys) /\ Len(<<k>>) = 1 /\ <<k>>[1] = k
  OBVIOUS
<1>4. /\ f \in Seq(Keys) /\ Len(f) = 1 + Len(s)
      /\ \A i \in 1..(1 + Len(s)) : f[i] = IF i <= 1 THEN k ELSE s[i - 1]
  BY <1>1, <1>2, <1>3, ConcatProperties
<1>5. DOMAIN s = 1..Len(s) /\ DOMAIN f = 1..(1 + Len(s)) /\ Len(s) \in Nat
  BY <1>1, <1>4
<1>6. \A i \in 1..Len(s) : s[i] \in ToSet(s) /\ s[i] # k
  BY <1>1, <1>5 DEF ToSet
<1>7. IsInjective(f)
  <2> SUFFICES ASSUME NEW a \in 1..(1 + Len(s)), NEW b \in 1..(1 + Len(s)), f[a] = f[b]
               PROVE  a = b
    BY <1>5 DEF IsInjective
  <2>1. \A i, j \in 1..Len(s) : s[i] = s[j] => i = j
    BY <1>1, <1>5 DEF IsInjective
  <2> QED BY <1>4, <1>5, <1>6, <2>1
<1>8. ToSet(f) = ToSet(order) \cup {k}
  <2>1. ASSUME NEW x \in ToSet(f) PROVE x \in ToSet(s) \cup {k}
    BY <1>4, <1>5, <1>6, <2>1 DEF ToSet
  <2>2. k \in ToSet(f)
    BY <1>4, <1>5 DEF ToSet
  <2>3. ASSUME NEW x \in ToSet(s) PROVE x \in ToSet(f)
    <3>1. PICK i \in 1..Len(s) : x = s[i]
      BY <1>5, <2>3 DEF ToSet
    <3>2. i + 1 \in 1..(1 + Len(s)) /\ f[i + 1] = s[i]
      BY <1>4, <1>5
    <3> QED BY <1>5, <3>1, <3>2 DEF ToSet
  <2> QED BY <1>1, <2>1, <2>2, <2>3
<1> QED BY <1>1, <1>4, <1>7, <1>8 DEF f

\* The front of the list that Store keeps.
LEMMA KeptKeys ==
    ASSUME NEW f \in Seq(Keys), IsInjective(f), NEW k \in Keys, Len(f) >= 1, f[1] = k,
           NEW n \in Nat \ {0}, n <= Len(f)
    PROVE  /\ SubSeq(f, 1, n) \in Seq(Keys) /\ IsInjective(SubSeq(f, 1, n))
           /\ Len(SubSeq(f, 1, n)) = n /\ k \in ToSet(SubSeq(f, 1, n))
<1> DEFINE s == SubSeq(f, 1, n)
<1>1. \A i \in 1..n : f[i] \in Keys
  OBVIOUS
<1>2. s \in Seq(Keys) /\ Len(s) = n /\ \A i \in 1..n : s[i] = f[i]
  BY <1>1, SubSeqProperties
<1> HIDE DEF s
<1>3. DOMAIN s = 1..n /\ DOMAIN f = 1..Len(f)
  BY <1>2
<1>4. IsInjective(s)
  BY <1>2, <1>3 DEF IsInjective
<1>5. s[1] = k /\ 1 \in DOMAIN s
  BY <1>2, <1>3
<1>6. k \in ToSet(s)
  BY <1>5 DEF ToSet
<1> QED BY <1>2, <1>4, <1>6 DEF s

-----------------------------------------------------------------------------
(* The cache and the age of what it holds *)

\* A resolution is about a key.
Busy == \A w \in Workers : worker[w].pc # "idle" => worker[w].key \in Keys

\* An answer that is no longer the record's is at most as old as the change it
\* missed: a resolution in flight is older than that change, and an entry was
\* stored by such a resolution.
StaleIsYoung ==
    /\ \A w \in Workers :
         worker[w].pc = "store" /\ worker[w].answer # Resolved(worker[w].key)
         => settled[worker[w].key] <= worker[w].age
    /\ \A k \in Keys :
         cache[k].left >= 0 /\ cache[k].answer # Resolved(k)
         => settled[k] <= Bound - cache[k].left

CacheInv == TypeOK /\ Busy /\ CacheInStep /\ StaleIsYoung

\* What a resolution finds is an answer.
LEMMA ResolvedIsAnswer ==
    ASSUME TypeOK, NEW k \in Keys
    PROVE  Resolved(k) \in Answers
BY DEF TypeOK, Resolved, Answers

\* Nothing is cached at first.
LEMMA InitCache == Init => CacheInv
<1> SUFFICES ASSUME Init PROVE CacheInv
  OBVIOUS
<1> USE IdentityAssumption DEF IdentityAssumption, Init
<1>1. Unauthorized \in Answers /\ Bound \in Nat
  BY DEF Answers, Bound
<1>2. TypeOK
  BY <1>1 DEF TypeOK, Activity, Idle, NoEntry
<1>3. Busy /\ StaleIsYoung
  BY DEF Busy, StaleIsYoung, Idle, NoEntry
<1>4. CacheInStep
  BY DEF CacheInStep, IsInjective, NoEntry
<1> QED BY <1>2, <1>3, <1>4 DEF CacheInv

\* Administration touches the record, and restarts the clock of what it changed.
LEMMA RecordChange ==
    ASSUME CacheInv, UNCHANGED <<cache, order, worker>>,
           status' \in [Keys -> {"none", "active", "disabled", "restored"}],
           userDoc' \in Documents, keyDoc' \in [Keys -> Documents], issuing' \subseteq Admins,
           NEW ks \in SUBSET Keys, settled' = Changed(ks),
           \A k \in Keys \ ks : Resolved(k)' = Resolved(k)
    PROVE  CacheInv'
<1>0. Bound \in Nat /\ PosTTL \in Nat /\ ResolveMax \in Nat /\ Bound = PosTTL + ResolveMax
  BY IdentityAssumption DEF IdentityAssumption, Bound
<1>1. TypeOK'
  BY <1>0 DEF CacheInv, TypeOK, Changed
<1>2. Busy' /\ CacheInStep'
  BY DEF CacheInv, Busy, CacheInStep
<1>3. \A k \in Keys : settled'[k] = IF k \in ks THEN 0 ELSE settled[k]
  BY DEF Changed
<1>4. ASSUME NEW w \in Workers, worker'[w].pc = "store",
             worker'[w].answer # Resolved(worker[w].key)'
      PROVE  settled'[worker'[w].key] <= worker'[w].age
  <2>1. worker[w].key \in Keys /\ worker[w].age \in Nat
    BY <1>0, <1>4 DEF CacheInv, TypeOK, Activity, Busy
  <2>2. CASE worker[w].key \in ks
    BY <1>3, <2>1, <2>2
  <2>3. CASE worker[w].key \notin ks
    <3>1. Resolved(worker[w].key)' = Resolved(worker[w].key)
      BY <2>1, <2>3 DEF Resolved, Active
    <3> QED BY <1>3, <1>4, <2>1, <2>3, <3>1 DEF CacheInv, StaleIsYoung
  <2> QED BY <2>2, <2>3
<1>5. ASSUME NEW k \in Keys, cache'[k].left >= 0, cache'[k].answer # Resolved(k)'
      PROVE  settled'[k] <= Bound - cache'[k].left
  <2>1. cache[k].left \in -1..PosTTL
    BY DEF CacheInv, TypeOK
  <2>2. CASE k \in ks
    BY <1>0, <1>3, <2>1, <2>2
  <2>3. CASE k \notin ks
    BY <1>3, <1>5, <2>1, <2>3 DEF CacheInv, StaleIsYoung
  <2> QED BY <2>2, <2>3
<1>6. StaleIsYoung'
  BY <1>4, <1>5 DEF StaleIsYoung
<1> QED BY <1>1, <1>2, <1>6 DEF CacheInv

\* The admin API keeps the invariant.
LEMMA AdminCache ==
    ASSUME CacheInv
    PROVE  /\ \A a \in Admins : ServeCreateKey(a) => CacheInv'
           /\ ServeKeyStatus => CacheInv'
           /\ ServeLimitsReplace => CacheInv'
<1> USE DEF record
<1>0. settled = Changed({}) /\ TypeOK
  BY DEF Changed, CacheInv, TypeOK
<1>1. ASSUME NEW a \in Admins, CreateKeyCount(a) \/ CreateKeyRollback(a) PROVE CacheInv'
  <2>1. /\ UNCHANGED <<status, userDoc, keyDoc, cache, order, worker, settled>>
        /\ issuing' \subseteq Admins
    BY <1>0, <1>1 DEF CreateKeyCount, CreateKeyRollback, TypeOK
  <2>2. \A k \in Keys \ {} : Resolved(k)' = Resolved(k)
    BY <2>1 DEF Resolved, Active
  <2> QED BY <1>0, <2>1, <2>2, RecordChange DEF TypeOK
<1>2. ASSUME NEW a \in Admins, CreateKeyCommit(a) PROVE CacheInv'
  <2>1. PICK k \in Keys : status' = [status EXCEPT ![k] = "active"] /\ settled' = Changed({k})
    BY <1>2 DEF CreateKeyCommit
  <2>2. UNCHANGED <<userDoc, keyDoc, cache, order, worker>> /\ issuing' \subseteq Admins
    BY <1>0, <1>2 DEF CreateKeyCommit, TypeOK
  <2>3. \A q \in Keys \ {k} : Resolved(q)' = Resolved(q)
    BY <1>0, <2>1, <2>2 DEF Resolved, Active, TypeOK
  <2>4. status' \in [Keys -> {"none", "active", "disabled", "restored"}]
    BY <1>0, <2>1 DEF TypeOK
  <2> QED BY <1>0, <2>1, <2>2, <2>3, <2>4, RecordChange DEF TypeOK
<1>3. ASSUME NEW k \in Keys, NEW active \in BOOLEAN, SetKeyStatus(k, active) PROVE CacheInv'
  <2>1. /\ status' = [status EXCEPT ![k] = IF active THEN "restored" ELSE "disabled"]
        /\ settled' = Changed({k})
        /\ UNCHANGED <<userDoc, keyDoc, issuing, cache, order, worker>>
    BY <1>3 DEF SetKeyStatus
  <2>2. \A q \in Keys \ {k} : Resolved(q)' = Resolved(q)
    BY <1>0, <2>1 DEF Resolved, Active, TypeOK
  <2>3. status' \in [Keys -> {"none", "active", "disabled", "restored"}]
    BY <1>0, <2>1 DEF TypeOK
  <2> QED BY <1>0, <2>1, <2>2, <2>3, RecordChange DEF TypeOK
<1>4. ASSUME NEW doc \in Documents, SetUserLimits(doc) PROVE CacheInv'
  <2>1. /\ userDoc' = doc /\ settled' = Changed(Keys)
        /\ UNCHANGED <<status, keyDoc, issuing, cache, order, worker>>
    BY <1>4 DEF SetUserLimits
  <2> QED BY <1>0, <2>1, RecordChange DEF TypeOK
<1>5. ASSUME NEW k \in Keys, NEW doc \in Documents, SetKeyLimits(k, doc) PROVE CacheInv'
  <2>1. /\ keyDoc' = [keyDoc EXCEPT ![k] = doc] /\ settled' = Changed({k})
        /\ UNCHANGED <<status, userDoc, issuing, cache, order, worker>>
    BY <1>5 DEF SetKeyLimits
  <2>2. \A q \in Keys \ {k} : Resolved(q)' = Resolved(q)
    BY <1>0, <2>1 DEF Resolved, Active, TypeOK
  <2>3. keyDoc' \in [Keys -> Documents]
    BY <1>0, <2>1 DEF TypeOK
  <2> QED BY <1>0, <2>1, <2>2, <2>3, RecordChange DEF TypeOK
<1> QED BY <1>1, <1>2, <1>3, <1>4, <1>5
       DEF ServeCreateKey, ServeKeyStatus, ServeLimitsReplace

\* A step that leaves the record alone, and stores or finds nothing stale.
LEMMA SameRecord ==
    ASSUME StaleIsYoung, UNCHANGED <<status, userDoc, keyDoc, settled>>,
           \A v \in Workers : worker'[v].pc = "store"
             => \/ worker'[v] = worker[v]
                \/ \E k : worker'[v].key = k /\ worker'[v].answer = Resolved(k),
           \A q \in Keys : cache'[q].left >= 0
             => \/ cache'[q] = cache[q]
                \/ cache'[q].answer # Resolved(q) => settled[q] <= Bound - cache'[q].left
    PROVE  StaleIsYoung'
<1>1. \A v \in Workers :
        worker'[v].pc = "store" /\ worker'[v].answer # Resolved(worker[v].key)'
        => settled'[worker'[v].key] <= worker'[v].age
  BY DEF StaleIsYoung, Resolved, Active
<1>2. \A k \in Keys :
        cache'[k].left >= 0 /\ cache'[k].answer # Resolved(k)'
        => settled'[k] <= Bound - cache'[k].left
  BY DEF StaleIsYoung, Resolved, Active
<1> QED BY <1>1, <1>2 DEF StaleIsYoung

\* A request that does nothing is one that can be.
LEMMA IdleIsActivity == Idle \in Activity
BY IdentityAssumption DEF IdentityAssumption, Idle, Activity, Answers

\* One request moves on.
LEMMA OneWorker ==
    ASSUME worker \in [Workers -> Activity], NEW w \in Workers, NEW n \in Activity,
           worker' = [worker EXCEPT ![w] = n]
    PROVE  /\ worker' \in [Workers -> Activity] /\ worker'[w] = n
           /\ \A v \in Workers : v # w => worker'[v] = worker[v]
OBVIOUS

\* A hit only reorders the list.
LEMMA HitCache ==
    ASSUME CacheInv, NEW w \in Workers, NEW k \in Keys, Hit(w, k)
    PROVE  CacheInv'
<1>1. /\ cache[k].left >= 0 /\ order' = ToFront(k)
      /\ UNCHANGED <<status, userDoc, keyDoc, issuing, cache, worker, settled>>
  BY DEF Hit, AfterHit, record
<1>2. /\ ToFront(k) \in Seq(Keys) /\ IsInjective(ToFront(k))
      /\ ToSet(ToFront(k)) = ToSet(order) \cup {k}
      /\ Len(ToFront(k)) = IF k \in ToSet(order) THEN Len(order) ELSE Len(order) + 1
  BY FrontKey DEF CacheInv, TypeOK, CacheInStep
<1>3. TypeOK' /\ CacheInStep'
  BY <1>1, <1>2 DEF CacheInv, TypeOK, CacheInStep
<1>4. \A q : Resolved(q)' = Resolved(q)
  BY <1>1 DEF Resolved, Active
<1>5. Busy' /\ StaleIsYoung'
  BY <1>1, <1>4 DEF CacheInv, Busy, StaleIsYoung, Resolved, Active
<1> QED BY <1>3, <1>5 DEF CacheInv

\* A miss drops the key from both halves and starts a resolution.
LEMMA MissCache ==
    ASSUME CacheInv, NEW w \in Workers, NEW k \in Keys, Miss(w, k)
    PROVE  CacheInv'
<1>0. ResolveMax \in Nat /\ PosTTL \in Nat
  BY IdentityAssumption DEF IdentityAssumption
<1> DEFINE begun == [Idle EXCEPT !.pc = "query", !.key = k]
<1>1. /\ cache' = [cache EXCEPT ![k] = NoEntry] /\ order' = Without(k)
      /\ worker' = [worker EXCEPT ![w] = begun]
      /\ UNCHANGED <<status, userDoc, keyDoc, issuing, settled>>
  BY DEF Miss, Step, record
<1>9. begun \in Activity /\ begun.pc = "query" /\ begun.key = k
  BY IdleIsActivity DEF Activity
<1> HIDE DEF begun
<1>2. /\ Without(k) \in Seq(Keys) /\ IsInjective(Without(k))
      /\ ToSet(Without(k)) = ToSet(order) \ {k}
      /\ Len(Without(k)) = IF k \in ToSet(order) THEN Len(order) - 1 ELSE Len(order)
  BY WithoutKey DEF CacheInv, TypeOK, CacheInStep
<1>3. Unauthorized \in Answers
  BY DEF Answers
<1>4. TypeOK'
  <2>1. cache' \in [Keys -> [answer : Answers, left : -1 .. PosTTL]]
    BY <1>0, <1>1, <1>3 DEF CacheInv, TypeOK, NoEntry
  <2>2. worker' \in [Workers -> Activity]
    BY <1>1, <1>9, OneWorker DEF CacheInv, TypeOK
  <2> QED BY <1>1, <1>2, <2>1, <2>2 DEF CacheInv, TypeOK
<1>5. Len(Without(k)) <= CacheCapacity
  BY <1>2, IdentityAssumption DEF IdentityAssumption, CacheInv, TypeOK, CacheInStep
<1>6. CacheInStep'
  BY <1>1, <1>2, <1>5 DEF CacheInv, TypeOK, CacheInStep, NoEntry
<1>7. Busy'
  BY <1>1, <1>9, OneWorker DEF CacheInv, TypeOK, Busy
<1>8. StaleIsYoung'
  <2>1. \A v \in Workers : worker'[v].pc = "store" => worker'[v] = worker[v]
    BY <1>1, <1>9, OneWorker DEF CacheInv, TypeOK
  <2>2. \A q \in Keys : cache'[q].left >= 0 => cache'[q] = cache[q]
    BY <1>1 DEF CacheInv, TypeOK, NoEntry
  <2> QED BY <1>1, <2>1, <2>2, SameRecord DEF CacheInv
<1> QED BY <1>4, <1>6, <1>7, <1>8 DEF CacheInv

\* The query finds the record as it is; a failed resolution leaves nothing.
LEMMA QueryCache ==
    ASSUME CacheInv, NEW w \in Workers, Query(w) \/ ResolveFails(w)
    PROVE  CacheInv'
<1> DEFINE found == [worker[w] EXCEPT !.pc = "store", !.answer = Resolved(worker[w].key)]
<1>1. /\ worker[w].pc = "query"
      /\ \/ worker' = [worker EXCEPT ![w] = Idle]
         \/ worker' = [worker EXCEPT ![w] = found]
      /\ UNCHANGED <<status, userDoc, keyDoc, issuing, cache, order, settled>>
  BY DEF Query, ResolveFails, Step, record
<1>2. worker[w].key \in Keys /\ worker[w] \in Activity
  BY <1>1 DEF CacheInv, TypeOK, Busy
<1>3. Resolved(worker[w].key) \in Answers
  BY <1>2, ResolvedIsAnswer DEF CacheInv
<1>4. found \in Activity /\ found.key = worker[w].key /\ found.answer = Resolved(worker[w].key)
  BY <1>2, <1>3 DEF Activity
<1> HIDE DEF found
<1>5. PICK n \in {Idle, found} : worker' = [worker EXCEPT ![w] = n]
  BY <1>1
<1>6. n \in Activity /\ (n.pc # "idle" => n = found)
  BY <1>4, IdleIsActivity DEF Idle
<1>7. /\ worker' \in [Workers -> Activity] /\ worker'[w] = n
      /\ \A v \in Workers : v # w => worker'[v] = worker[v]
  BY <1>5, <1>6, OneWorker DEF CacheInv, TypeOK
<1>8. TypeOK' /\ CacheInStep'
  BY <1>1, <1>7 DEF CacheInv, TypeOK, CacheInStep
<1>9. Busy'
  BY <1>2, <1>4, <1>6, <1>7 DEF CacheInv, Busy
<1>10. \A v \in Workers : worker'[v].pc = "store"
        => \/ worker'[v] = worker[v]
           \/ worker'[v].key = worker[w].key /\ worker'[v].answer = Resolved(worker[w].key)
  BY <1>4, <1>6, <1>7
<1>11. StaleIsYoung'
  BY <1>1, <1>10, SameRecord DEF CacheInv
<1> QED BY <1>8, <1>9, <1>11 DEF CacheInv

\* The answer is cached: as young as its resolution, in front of what is kept.
LEMMA StoreCache ==
    ASSUME CacheInv, NEW w \in Workers, Store(w)
    PROVE  CacheInv'
<1> DEFINE k == worker[w].key
           f == ToFront(k)
           n == IF Len(f) > CacheCapacity THEN CacheCapacity ELSE Len(f)
           kept == SubSeq(f, 1, n)
           entry == [answer |-> worker[w].answer, left |-> TTL(worker[w].answer)]
<1>1. /\ worker[w].pc = "store" /\ order' = kept
      /\ cache' = [q \in Keys |-> IF q = k THEN entry
                                 ELSE IF q \in ToSet(kept) THEN cache[q] ELSE NoEntry]
      /\ worker' = [worker EXCEPT ![w] = Idle]
      /\ UNCHANGED <<status, userDoc, keyDoc, issuing, settled>>
  BY DEF Store, Step, record
<1>2. k \in Keys /\ worker[w].answer \in Answers /\ worker[w].age \in 0..ResolveMax
  BY <1>1 DEF CacheInv, TypeOK, Busy, Activity
<1>3. /\ PosTTL \in Nat /\ NegTTL \in 0..PosTTL /\ ResolveMax \in Nat
      /\ CacheCapacity \in Nat \ {0} /\ Bound = PosTTL + ResolveMax
  BY IdentityAssumption DEF IdentityAssumption, Bound
<1>4. f \in Seq(Keys) /\ IsInjective(f) /\ f[1] = k /\ Len(f) \in Nat \ {0}
  <2>1. order \in Seq(Keys) /\ IsInjective(order)
    BY DEF CacheInv, TypeOK, CacheInStep
  <2>2. f \in Seq(Keys) /\ IsInjective(f) /\ Without(k) \in Seq(Keys)
    BY <1>2, <2>1, FrontKey, WithoutKey
  <2>3. <<k>> \in Seq(Keys) /\ Len(<<k>>) = 1 /\ <<k>>[1] = k
    BY <1>2
  <2>4. f[1] = k /\ Len(f) = 1 + Len(Without(k))
    BY <2>2, <2>3, ConcatProperties DEF ToFront
  <2> QED BY <2>2, <2>4
<1>5. entry.answer = worker[w].answer /\ entry.left \in 0..PosTTL
      /\ entry \in [answer : Answers, left : -1..PosTTL]
  BY <1>2, <1>3 DEF TTL
<1>6. NoEntry \in [answer : Answers, left : -1..PosTTL] /\ NoEntry.left = -1
  BY <1>3 DEF NoEntry, Answers
<1> HIDE DEF k, f, entry
<1>7. n \in Nat \ {0} /\ n <= Len(f) /\ n <= CacheCapacity
  BY <1>3, <1>4
<1> HIDE DEF n
<1>8. kept \in Seq(Keys) /\ IsInjective(kept) /\ Len(kept) = n /\ k \in ToSet(kept)
  BY <1>2, <1>4, <1>7, KeptKeys
<1> HIDE DEF kept
<1>9. cache' \in [Keys -> [answer : Answers, left : -1..PosTTL]]
  BY <1>1, <1>5, <1>6 DEF CacheInv, TypeOK
<1>10. /\ worker' \in [Workers -> Activity] /\ worker'[w] = Idle
       /\ \A v \in Workers : v # w => worker'[v] = worker[v]
  BY <1>1, IdleIsActivity, OneWorker DEF CacheInv, TypeOK
<1>11. TypeOK'
  BY <1>1, <1>8, <1>9, <1>10 DEF CacheInv, TypeOK
<1>12. Busy'
  BY <1>10 DEF CacheInv, Busy, Idle
<1>13. CacheInStep'
  BY <1>1, <1>6, <1>7, <1>8 DEF CacheInStep
<1>14. \A v \in Workers : worker'[v].pc = "store" => worker'[v] = worker[v]
  BY <1>10 DEF Idle
<1>15. \A q \in Keys : cache'[q].left >= 0
        => \/ cache'[q] = cache[q]
           \/ cache'[q].answer # Resolved(q) => settled[q] <= Bound - cache'[q].left
  <2>1. worker[w].answer # Resolved(k) => settled[k] <= worker[w].age
    BY <1>1 DEF CacheInv, StaleIsYoung, k
  <2>2. settled[k] \in Int
    BY <1>2 DEF CacheInv, TypeOK
  <2>3. entry.answer # Resolved(k) => settled[k] <= Bound - entry.left
    BY <1>2, <1>3, <1>5, <2>1, <2>2
  <2> QED BY <1>1, <1>6, <2>3
<1>16. StaleIsYoung'
  BY <1>1, <1>14, <1>15, SameRecord DEF CacheInv
<1> QED BY <1>11, <1>12, <1>13, <1>16 DEF CacheInv

\* A tick: a change ages no faster than the resolution or the entry that missed it.
LEMMA TickCache ==
    ASSUME CacheInv, Tick
    PROVE  CacheInv'
<1>1. /\ \A w \in Resolving : worker[w].age < ResolveMax
      /\ worker' = [w \in Workers |-> IF w \in Resolving
                      THEN [worker[w] EXCEPT !.age = worker[w].age + 1] ELSE worker[w]]
      /\ cache' = [k \in Keys |-> [cache[k] EXCEPT !.left =
                      IF cache[k].left < 0 THEN cache[k].left ELSE cache[k].left - 1]]
      /\ settled' = [k \in Keys |-> IF settled[k] > Bound THEN settled[k] ELSE settled[k] + 1]
      /\ UNCHANGED <<status, userDoc, keyDoc, issuing, order>>
  BY DEF Tick, record
<1>2. /\ PosTTL \in Nat /\ ResolveMax \in Nat /\ Bound \in Nat /\ Bound = PosTTL + ResolveMax
  BY IdentityAssumption DEF IdentityAssumption, Bound
<1>3. ASSUME NEW w \in Workers
      PROVE  /\ worker'[w] \in Activity
             /\ worker'[w].pc = worker[w].pc /\ worker'[w].key = worker[w].key
             /\ worker'[w].answer = worker[w].answer
             /\ worker[w].age \in Nat
             /\ worker[w].pc = "store" => /\ worker'[w].age = worker[w].age + 1
                                          /\ worker[w].age < ResolveMax
  <2>1. worker[w] \in Activity
    BY DEF CacheInv, TypeOK
  <2>2. worker'[w] = IF w \in Resolving THEN [worker[w] EXCEPT !.age = worker[w].age + 1]
                     ELSE worker[w]
    BY <1>1
  <2>3. worker[w].age \in 0..ResolveMax /\ (worker[w].pc = "store" => w \in Resolving)
    BY <2>1 DEF Activity, Resolving
  <2>4. CASE w \in Resolving
    BY <1>1, <1>2, <2>1, <2>2, <2>3, <2>4 DEF Activity
  <2>5. CASE w \notin Resolving
    BY <2>1, <2>2, <2>3, <2>5
  <2> QED BY <2>4, <2>5
<1>4. ASSUME NEW k \in Keys
      PROVE  /\ cache'[k] \in [answer : Answers, left : -1 .. PosTTL]
             /\ cache'[k].answer = cache[k].answer
             /\ cache[k].left \in -1..PosTTL
             /\ cache'[k].left = IF cache[k].left < 0 THEN cache[k].left ELSE cache[k].left - 1
  <2>1. cache[k] \in [answer : Answers, left : -1 .. PosTTL]
    BY DEF CacheInv, TypeOK
  <2> QED BY <1>1, <1>2, <2>1
<1>5. \A k \in Keys : /\ settled[k] \in 0..Bound + 1
                      /\ settled'[k] = IF settled[k] > Bound THEN settled[k] ELSE settled[k] + 1
  BY <1>1 DEF CacheInv, TypeOK
<1>6. worker' \in [Workers -> Activity]
  BY <1>1, <1>3
<1>7. cache' \in [Keys -> [answer : Answers, left : -1 .. PosTTL]]
  BY <1>1, <1>4
<1>8. settled' \in [Keys -> 0..Bound + 1]
  BY <1>1, <1>2, <1>5
<1>9. TypeOK'
  BY <1>1, <1>6, <1>7, <1>8 DEF CacheInv, TypeOK
<1>10. Busy'
  BY <1>3 DEF CacheInv, Busy
<1>11. CacheInStep'
  <2>1. \A k \in Keys : cache'[k].left >= 0 => cache[k].left >= 0
    BY <1>4
  <2> QED BY <1>1, <2>1 DEF CacheInv, CacheInStep
<1>12. ASSUME NEW w \in Workers, worker'[w].pc = "store",
              worker'[w].answer # Resolved(worker[w].key)'
       PROVE  settled'[worker'[w].key] <= worker'[w].age
  <2>1. worker[w].key \in Keys
    BY <1>3, <1>12 DEF CacheInv, Busy
  <2>2. worker[w].answer # Resolved(worker[w].key)
    BY <1>1, <1>3, <1>12 DEF Resolved, Active
  <2>3. settled[worker[w].key] <= worker[w].age
    BY <1>3, <1>12, <2>2 DEF CacheInv, StaleIsYoung
  <2>4. worker'[w].age = worker[w].age + 1 /\ worker'[w].key = worker[w].key
    BY <1>3, <1>12
  <2>5. worker[w].age \in Nat /\ worker[w].age < ResolveMax
    BY <1>3, <1>12
  <2> QED BY <1>2, <1>5, <2>1, <2>3, <2>4, <2>5
<1>13. ASSUME NEW k \in Keys, cache'[k].left >= 0, cache'[k].answer # Resolved(k)'
       PROVE  settled'[k] <= Bound - cache'[k].left
  <2>1. cache[k].answer # Resolved(k)
    BY <1>1, <1>4, <1>13 DEF Resolved, Active
  <2>2. settled[k] <= Bound - cache[k].left
    BY <1>4, <1>13, <2>1 DEF CacheInv, StaleIsYoung
  <2> QED BY <1>2, <1>4, <1>5, <1>13, <2>2
<1>14. StaleIsYoung'
  BY <1>12, <1>13 DEF StaleIsYoung
<1> QED BY <1>9, <1>10, <1>11, <1>14 DEF CacheInv

\* Every step keeps the invariant of the cache.
LEMMA NextCache == CacheInv /\ [Next]_vars => CacheInv'
<1> SUFFICES ASSUME CacheInv, [Next]_vars PROVE CacheInv'
  OBVIOUS
<1>1. ASSUME UNCHANGED vars PROVE CacheInv'
  <2>1. \A q : Resolved(q)' = Resolved(q)
    BY <1>1 DEF vars, Resolved, Active
  <2>2. TypeOK' /\ Busy' /\ CacheInStep'
    BY <1>1 DEF vars, CacheInv, TypeOK, Busy, CacheInStep
  <2>3. StaleIsYoung'
    BY <1>1, SameRecord DEF vars, CacheInv
  <2> QED BY <2>2, <2>3 DEF CacheInv
<1> QED BY <1>1, AdminCache, HitCache, MissCache, QueryCache, StoreCache, TickCache DEF Next

-----------------------------------------------------------------------------
(* What follows *)

\* A user's keys stay within the ceiling for every number of concurrent
\* issuances, because each counts under the row lock (pgadmin.go:145), and
\* every variable keeps its type.
THEOREM CeilingHolds == Spec => []IssuanceBounded
<1>1. CeilingInv /\ CacheInv => IssuanceBounded
  BY DEF CeilingInv, CacheInv, IssuanceBounded, Issued
<1> QED BY <1>1, InitCeiling, NextCeiling, InitCache, NextCache, PTL DEF Spec

\* The map and the list of the cache agree, and stay within the capacity, for
\* every capacity and every overlap of resolutions (lru.go:153).
THEOREM CacheHalvesAgree == Spec => []CacheInStep
<1>1. CacheInv => CacheInStep
  BY DEF CacheInv
<1> QED BY <1>1, InitCache, NextCache, PTL DEF Spec

\* A change of the record decides every request once the time to live and one
\* resolution have passed, for every pair of time bounds (auth.go:107).
THEOREM ChangesReach == Spec => []ChangesSurface
<1>1. ASSUME CacheInv PROVE ChangesSurface
  <2> SUFFICES ASSUME NEW k \in Keys, NEW m \in Models, settled[k] > Bound
               PROVE  /\ cache[k].left >= 0 => Verdict(cache[k].answer, m) = Verdict(Resolved(k), m)
                      /\ \A w \in Workers : (worker[w].pc = "store" /\ worker[w].key = k)
                            => Verdict(worker[w].answer, m) = Verdict(Resolved(k), m)
    BY DEF ChangesSurface
  <2>1. /\ PosTTL \in Nat /\ ResolveMax \in Nat /\ Bound = PosTTL + ResolveMax
        /\ settled[k] \in Int /\ cache[k].left \in Int
        /\ \A w \in Workers : worker[w].age \in 0..ResolveMax
    BY <1>1, IdentityAssumption DEF IdentityAssumption, Bound, CacheInv, TypeOK, Activity
  <2>2. cache[k].left >= 0 => cache[k].answer = Resolved(k)
    BY <1>1, <2>1 DEF CacheInv, StaleIsYoung
  <2>3. \A w \in Workers : (worker[w].pc = "store" /\ worker[w].key = k)
          => worker[w].answer = Resolved(k)
    BY <1>1, <2>1 DEF CacheInv, StaleIsYoung
  <2> QED BY <2>2, <2>3
<1> QED BY <1>1, InitCache, NextCache, PTL DEF Spec
=============================================================================
