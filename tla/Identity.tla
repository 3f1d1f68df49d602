------------------------------ MODULE Identity -----------------------------
(***************************************************************************)
(* Who a request is: the identity database and its administration          *)
(* (internal/auth/pg.go, pgadmin.go, limits.go), the process-local cache in*)
(* front of it (lru.go) and the two stages that read it                    *)
(* (internal/pipeline/authstage.go, authzstage.go).                        *)
(*                                                                         *)
(* One user owns all keys: the row lock and the key ceiling are per user.  *)
(* A tier is reduced to its model lists, the part whose layers must not    *)
(* widen each other. Time is relative: an entry knows how long it stays    *)
(* fresh, a resolution how long it has been running.                       *)
(***************************************************************************)
EXTENDS Integers, FiniteSets, Sequences, SequencesExt

CONSTANTS Keys,           \* API keys, issued or not
          Workers,        \* concurrent requests
          Admins,         \* concurrent calls of the admin API
          Models,         \* model names
          Wild,           \* the wildcard "*"
          Base,           \* the tier template, [allow, deny]
          Documents,      \* override documents an operator may store
          Inherit,        \* the value of an allow list that is not set
          Unauthorized,   \* ErrUnauthorized
          PosTTL, NegTTL, \* freshness of a tenant and of a refusal, in ticks
          ResolveMax,     \* resolveTimeout, in ticks
          CacheCapacity,  \* entries the cache holds
          MaxKeysPerUser

None == [allow |-> Inherit, deny |-> {}]

ASSUME IdentityAssumption ==
    /\ IsFiniteSet(Keys) /\ Wild \notin Models
    /\ None \in Documents
    /\ PosTTL \in Nat /\ NegTTL \in 0 .. PosTTL /\ ResolveMax \in Nat
    /\ CacheCapacity \in Nat \ {0} /\ MaxKeysPerUser \in Nat \ {0}

VARIABLES status,    \* "none", "active", "disabled", "restored" (active again)
          userDoc,   \* the user's override document
          keyDoc,    \* the override document of each key
          issuing,   \* calls of CreateKey inside their transaction
          cache,     \* key -> entry
          order,     \* cached keys, most recently used first
          worker,    \* what each request is doing
          settled    \* ticks since the record of a key last changed

vars == <<status, userDoc, keyDoc, issuing, cache, order, worker, settled>>
record == <<status, userDoc, keyDoc, issuing>>

Idle == [pc |-> "idle", key |-> "none", age |-> 0,
         answer |-> Unauthorized]
NoEntry == [answer |-> Unauthorized, left |-> -1]

(* A change is past every cached answer after this many ticks.             *)
Bound == PosTTL + ResolveMax

----------------------------------------------------------------------------
(* The effective tier of a key.                                            *)

(* Mutant: a wildcard in the child list replaces the parent.               *)
WideIntersect(parent, child) ==
    IF Wild \in child \/ Wild \in parent THEN child ELSE parent \cap child

(* intersect: a child list may tighten its parent and never widen it.      *)
Intersect(parent, child) ==
    IF Wild \in child THEN parent
    ELSE IF Wild \in parent THEN child
    ELSE parent \cap child

(* One layer of MergeTier: denies grow, allows shrink.                     *)
Layer(tier, doc) ==
    [allow |-> IF doc.allow = Inherit THEN tier.allow
               ELSE Intersect(tier.allow, doc.allow),
     deny  |-> tier.deny \cup doc.deny]

MergeTier(user, key) == Layer(Layer(Base, user), key)

(* AllowsModel: deny wins, the wildcard matches everything, an empty allow *)
(* list admits nothing.                                                    *)
AllowsModel(tier, m) ==
    /\ {Wild, m} \cap tier.deny = {}
    /\ {Wild, m} \cap tier.allow # {}

(* The row the query of Resolve finds: only an active key has one.         *)
Active(k) == status[k] \in {"active", "restored"}

Resolved(k) ==
    IF Active(k) THEN MergeTier(userDoc, keyDoc[k]) ELSE Unauthorized

(* What the two stages make of an answer.                                  *)
Verdict(answer, m) ==
    IF answer = Unauthorized THEN "unauthorized"
    ELSE IF AllowsModel(answer, m) THEN "admitted" ELSE "forbidden"

----------------------------------------------------------------------------
Init ==
    /\ status = [k \in Keys |-> "none"]
    /\ userDoc = None
    /\ keyDoc = [k \in Keys |-> None]
    /\ issuing = {}
    /\ cache = [k \in Keys |-> NoEntry]
    /\ order = <<>>
    /\ worker = [w \in Workers |-> Idle]
    /\ settled = [k \in Keys |-> Bound + 1]

(* What a resolution can find.                                             *)
Answers == {MergeTier(user, key) : user \in Documents, key \in Documents} \cup {Unauthorized}

Activity == [pc : {"idle", "query", "store"}, key : Keys \cup {"none"},
             age : 0 .. ResolveMax, answer : Answers]

(* Every variable keeps its type.                                          *)
TypeOK ==
    /\ status \in [Keys -> {"none", "active", "disabled", "restored"}]
    /\ userDoc \in Documents
    /\ keyDoc \in [Keys -> Documents]
    /\ issuing \subseteq Admins
    /\ cache \in [Keys -> [answer : Answers, left : -1 .. PosTTL]]
    /\ order \in Seq(Keys)
    /\ worker \in [Workers -> Activity]
    /\ settled \in [Keys -> 0 .. Bound + 1]

----------------------------------------------------------------------------
(* Administration.                                                         *)

Changed(ks) == [k \in Keys |-> IF k \in ks THEN 0 ELSE settled[k]]
Held == {k \in Keys : Active(k)}

(* Mutant: the tenant row is read without FOR UPDATE.                      *)
RowSeen(a) == a \notin issuing

(* SELECT ... FOR UPDATE: one issuance at a time.                          *)
RowFree(a) == issuing = {}

(* createKeyTx up to its count: only active keys count, and a user at the  *)
(* ceiling is refused, which rolls the transaction back.                   *)
CreateKeyCount(a) ==
    /\ RowFree(a)
    /\ Cardinality(Held) < MaxKeysPerUser
    /\ issuing' = issuing \cup {a}
    /\ UNCHANGED <<status, userDoc, keyDoc, cache, order, worker, settled>>

(* The insert and the commit. A fresh key has no override.                 *)
CreateKeyCommit(a) ==
    /\ a \in issuing
    /\ \E k \in Keys :
         /\ status[k] = "none"
         /\ status' = [status EXCEPT ![k] = "active"]
         /\ settled' = Changed({k})
    /\ issuing' = issuing \ {a}
    /\ UNCHANGED <<userDoc, keyDoc, cache, order, worker>>

(* Any failing statement, or a caller that went away: rolled back.         *)
CreateKeyRollback(a) ==
    /\ a \in issuing
    /\ issuing' = issuing \ {a}
    /\ UNCHANGED <<status, userDoc, keyDoc, cache, order, worker, settled>>

(* SetKeyStatus: a plain UPDATE, no lock, no ceiling. An unknown key is    *)
(* refused.                                                                *)
SetKeyStatus(k, active) ==
    /\ status[k] # "none"
    /\ active # Active(k)
    /\ status' = [status EXCEPT ![k] = IF active THEN "restored" ELSE "disabled"]
    /\ settled' = Changed({k})
    /\ UNCHANGED <<userDoc, keyDoc, issuing, cache, order, worker>>

(* setOverrides: the document replaces the layer.                          *)
SetUserLimits(doc) ==
    /\ doc # userDoc
    /\ userDoc' = doc
    /\ settled' = Changed(Keys)
    /\ UNCHANGED <<status, keyDoc, issuing, cache, order, worker>>

SetKeyLimits(k, doc) ==
    /\ status[k] # "none"
    /\ doc # keyDoc[k]
    /\ keyDoc' = [keyDoc EXCEPT ![k] = doc]
    /\ settled' = Changed({k})
    /\ UNCHANGED <<status, userDoc, issuing, cache, order, worker>>

----------------------------------------------------------------------------
(* Requests.                                                               *)

(* list.Remove takes the element of the key out of the list.               *)
Without(k) ==
    IF k \in ToSet(order) THEN RemoveAt(order, CHOOSE i \in DOMAIN order : order[i] = k)
    ELSE order

(* Mutant: a key that is cached already is pushed a second time.           *)
PushedAgain(k) == <<k>> \o order

(* The key moved to the front, as list.MoveToFront and PushFront do.       *)
ToFront(k) == <<k>> \o Without(k)

Step(w, next) == worker' = [worker EXCEPT ![w] = next]

(* A request arrives with an issued key.                                   *)
Arrives(w, k) == worker[w] = Idle /\ status[k] # "none"

(* Mutant: a hit renews the entry.                                         *)
Renewed(k) == [cache EXCEPT ![k].left = PosTTL]

(* A hit moves the entry forward and leaves its expiry alone.              *)
AfterHit(k) == cache

Hit(w, k) ==
    /\ Arrives(w, k)
    /\ cache[k].left >= 0
    /\ order' = ToFront(k)
    /\ cache' = AfterHit(k)
    /\ UNCHANGED <<record, worker, settled>>

(* A miss drops an expired entry and goes to the database.                 *)
Miss(w, k) ==
    /\ Arrives(w, k)
    /\ cache[k].left < 0
    /\ cache' = [cache EXCEPT ![k] = NoEntry]
    /\ order' = Without(k)
    /\ Step(w, [Idle EXCEPT !.pc = "query", !.key = k])
    /\ UNCHANGED <<record, settled>>

(* The query runs: the record as it is at this instant.                    *)
Query(w) ==
    /\ worker[w].pc = "query"
    /\ Step(w, [worker[w] EXCEPT !.pc = "store", !.answer = Resolved(worker[w].key)])
    /\ UNCHANGED <<record, cache, order, settled>>

(* The resolution fails or outlives resolveTimeout: 503, nothing cached.   *)
ResolveFails(w) ==
    /\ worker[w].pc = "query"
    /\ Step(w, Idle)
    /\ UNCHANGED <<record, cache, order, settled>>

(* The answer is cached with a fresh expiry, and the least recently used   *)
(* entry leaves a full cache.                                              *)
TTL(answer) == IF answer = Unauthorized THEN NegTTL ELSE PosTTL

Store(w) ==
    LET k == worker[w].key
        kept == SubSeq(ToFront(k), 1, IF Len(ToFront(k)) > CacheCapacity
                                      THEN CacheCapacity ELSE Len(ToFront(k)))
    IN  /\ worker[w].pc = "store"
        /\ order' = kept
        /\ cache' = [q \in Keys |->
              IF q = k THEN [answer |-> worker[w].answer, left |-> TTL(worker[w].answer)]
              ELSE IF q \in ToSet(kept) THEN cache[q] ELSE NoEntry]
        /\ Step(w, Idle)
        /\ UNCHANGED <<record, settled>>

(* A tick. A resolution does not outlive resolveTimeout; past its expiry   *)
(* an entry only waits to be looked up or evicted.                         *)
Resolving == {w \in Workers : worker[w].pc \in {"query", "store"}}

Tick ==
    /\ \A w \in Resolving : worker[w].age < ResolveMax
    /\ worker' = [w \in Workers |-> IF w \in Resolving
                    THEN [worker[w] EXCEPT !.age = @ + 1] ELSE worker[w]]
    /\ cache' = [k \in Keys |-> [cache[k] EXCEPT !.left = IF @ < 0 THEN @ ELSE @ - 1]]
    /\ settled' = [k \in Keys |-> IF settled[k] > Bound THEN settled[k] ELSE settled[k] + 1]
    /\ UNCHANGED <<record, order>>

(* The handlers of the admin API.                                          *)
ServeCreateKey(a) == CreateKeyCount(a) \/ CreateKeyCommit(a) \/ CreateKeyRollback(a)

ServeKeyStatus == \E k \in Keys, active \in BOOLEAN : SetKeyStatus(k, active)

ServeLimitsReplace ==
    \E doc \in Documents : SetUserLimits(doc) \/ \E k \in Keys : SetKeyLimits(k, doc)

Next ==
    \/ Tick
    \/ \E a \in Admins : ServeCreateKey(a)
    \/ ServeKeyStatus \/ ServeLimitsReplace
    \/ \E w \in Workers, k \in Keys : Hit(w, k) \/ Miss(w, k)
    \/ \E w \in Workers : Query(w) \/ ResolveFails(w) \/ Store(w)

Spec == Init /\ [][Next]_vars

----------------------------------------------------------------------------
(* Properties.                                                             *)

(* A revocation, a re-enabled key or a changed limit decides every request *)
(* once PosTTL and one resolution have passed, whatever is cached, however *)
(* often it is hit, and whichever resolution stores last (auth.go:107-109, *)
(* "takes effect only after the implementation's cache TTL expires").      *)
ChangesSurface ==
    \A k \in Keys, m \in Models :
        settled[k] > Bound =>
            /\ cache[k].left >= 0 => Verdict(cache[k].answer, m) = Verdict(Resolved(k), m)
            /\ \A w \in Workers : (worker[w].pc = "store" /\ worker[w].key = k)
                   => Verdict(worker[w].answer, m) = Verdict(Resolved(k), m)

(* No layer widens what a layer below it narrowed: a model a key may call  *)
(* is one its user and its tier may call, whatever documents are stored    *)
(* (limits.go:23-26).                                                      *)
LayersOnlyTighten ==
    \A k \in Keys, m \in Models :
        AllowsModel(MergeTier(userDoc, keyDoc[k]), m)
        => AllowsModel(Base, m) /\ AllowsModel(Layer(Base, userDoc), m)

(* Issuing keys never takes a user past the ceiling, however many          *)
(* issuances run at once (pgadmin.go:145-148); keys that were disabled and *)
(* enabled again are beside the count, because SetKeyStatus does not ask.  *)
(* Every variable keeps its type.                                          *)
IssuanceBounded ==
    /\ TypeOK
    /\ Cardinality({k \in Keys : status[k] = "active"}) <= MaxKeysPerUser

(* The two halves of the cache never part: the list holds each key once,   *)
(* whatever is fresh is in it, so it can be evicted, and it stays within   *)
(* the capacity, whichever resolutions of a key overlap (lru.go:153-174).  *)
CacheInStep ==
    /\ Len(order) <= CacheCapacity
    /\ IsInjective(order)
    /\ \A k \in Keys : cache[k].left >= 0 => k \in ToSet(order)

============================================================================
