----------------------- MODULE LoginRateLimiterProofs -----------------------
(***************************************************************************)
(* The budget of the limiter for every number of keys, logins and buckets. *)
(* That failures and slots stay within the limit needs that a login that   *)
(* settles still finds its slot, so the exact count of slots is part of    *)
(* the induction.                                                          *)
(***************************************************************************)
EXTENDS LoginRateLimiter, FiniteSetTheorems, TLAPS

\* What every operation on a store keeps.
SoundStore(store, keys, limit) ==
    /\ store \in Store(keys)
    /\ Within(store, limit)
    /\ size(store) <= MaxBuckets

\* The invariant: sound stores that count the logins in flight.
LimiterInv == LimiterTypeOK /\ KeptUnderLimit /\ SlotsMatchLogins /\ StoresBounded

-----------------------------------------------------------------------------
\* Operations on one store.

\* A store that tracks no more keys is no larger.
LEMMA FewerKeys ==
    ASSUME NEW keys, IsFiniteSet(keys),
           NEW old \in Store(keys), NEW new \in Store(keys),
           tracked(new) \subseteq tracked(old), size(old) <= MaxBuckets
    PROVE  size(new) <= MaxBuckets
<1>1. tracked(old) \subseteq keys
  BY DEF tracked, Store
<1>2. IsFiniteSet(tracked(old))
  BY <1>1, FS_Subset
<1>3. /\ Cardinality(tracked(new)) <= Cardinality(tracked(old))
      /\ Cardinality(tracked(old)) \in Nat
      /\ Cardinality(tracked(new)) \in Nat
  BY <1>2, FS_Subset, FS_CardinalityType
<1> QED
  BY <1>3, LimitsAssumption DEF size

\* Pruning keeps a store sound and every slot in it.
LEMMA PruneSound ==
    ASSUME NEW keys, IsFiniteSet(keys), NEW limit \in Nat, NEW store,
           SoundStore(store, keys, limit)
    PROVE  /\ SoundStore(pruneStore(store), keys, limit)
           /\ \A k \in keys : inFlight(pruneStore(store)[k]) = inFlight(store[k])
<1> DEFINE new == pruneStore(store)
<1>1. store \in Store(keys) /\ new \in Store(keys)
  BY DEF SoundStore, Store, pruneStore
<1>2. \A k \in keys : new[k] # NoBucket => new[k] = store[k]
  BY <1>1 DEF pruneStore, Store
<1>3. Within(new, limit)
  BY <1>1, <1>2 DEF SoundStore, Within, Store
<1>4. tracked(new) \subseteq tracked(store)
  BY <1>1, <1>2 DEF tracked, Store
<1>5. size(new) <= MaxBuckets
  BY <1>1, <1>4, FewerKeys DEF SoundStore
<1>6. \A k \in keys : inFlight(new[k]) = inFlight(store[k])
  BY <1>1 DEF inFlight, pruneStore, Store
<1> QED
  BY <1>1, <1>3, <1>5, <1>6 DEF SoundStore

\* Time keeps a store sound and every slot in it.
LEMMA OlderSound ==
    ASSUME NEW keys, IsFiniteSet(keys), NEW limit \in Nat, NEW store,
           SoundStore(store, keys, limit)
    PROVE  /\ SoundStore(older(store), keys, limit)
           /\ \A k \in keys : inFlight(older(store)[k]) = inFlight(store[k])
<1> DEFINE new == older(store)
<1>1. store \in Store(keys)
  BY DEF SoundStore
<1>2. ASSUME NEW k \in keys
      PROVE  /\ new[k] \in Bucket \cup {NoBucket}
             /\ new[k] = NoBucket <=> store[k] = NoBucket
             /\ store[k] # NoBucket => /\ new[k].failures = store[k].failures
                                       /\ new[k].inFlight = store[k].inFlight
  <2>1. CASE store[k] = NoBucket \/ windowExpired(store[k])
    BY <1>1, <2>1 DEF older, Store
  <2>2. CASE store[k] # NoBucket /\ ~windowExpired(store[k])
    <3>1. store[k] \in Bucket /\ store[k].age \in 0..Window /\ store[k].age # Window
      BY <1>1, <2>2 DEF Store, Bucket, windowExpired
    <3>2. new[k] = [store[k] EXCEPT !.age = @ + 1]
      BY <1>1, <2>2 DEF older, Store
    <3>3. store[k].age + 1 \in 0..Window
      BY <3>1, LimitsAssumption
    <3> QED
      BY <3>1, <3>2, <3>3, NoBucketAssumption DEF Bucket
  <2> QED
    BY <2>1, <2>2
<1>3. new \in Store(keys)
  BY <1>1, <1>2 DEF older, Store
<1>4. Within(new, limit)
  BY <1>1, <1>2, <1>3 DEF SoundStore, Within, Store
<1>5. size(new) <= MaxBuckets
  <2>1. tracked(new) \subseteq tracked(store)
    BY <1>1, <1>2, <1>3 DEF tracked, Store
  <2> QED
    BY <1>1, <1>3, <2>1, FewerKeys DEF SoundStore
<1>6. \A k \in keys : inFlight(new[k]) = inFlight(store[k])
  BY <1>2 DEF inFlight
<1> QED
  BY <1>3, <1>4, <1>5, <1>6 DEF SoundStore

\* An admission takes one slot of its key and stays within limit and size.
LEMMA AdmitSound ==
    ASSUME NEW keys, IsFiniteSet(keys), NEW limit \in Nat \ {0}, NEW store, NEW key \in keys,
           SoundStore(store, keys, limit), admitsOne(store, key, limit)
    PROVE  /\ SoundStore(admitOne(store, key), keys, limit)
           /\ admitOne(store, key)[key] # NoBucket
           /\ \A k \in keys : inFlight(admitOne(store, key)[k]) =
                 IF k = key THEN inFlight(store[k]) + 1 ELSE inFlight(store[k])
<1> DEFINE new == admitOne(store, key)
<1>1. store \in Store(keys)
  BY DEF SoundStore
<1>2. \A k \in keys \ {key} : new[k] = store[k]
  BY <1>1 DEF admitOne, Store
<1>3. /\ new[key] \in Bucket
      /\ new[key].failures + new[key].inFlight <= limit
      /\ new[key].inFlight = inFlight(store[key]) + 1
  <2>1. CASE store[key] = NoBucket
    <3>1. new[key] = [age |-> 0, failures |-> 0, inFlight |-> 1]
      BY <1>1, <2>1 DEF admitOne, admitted, Store
    <3> QED
      BY <2>1, <3>1, LimitsAssumption DEF Bucket, inFlight
  <2>2. CASE store[key] # NoBucket
    <3>1. store[key] \in Bucket
      BY <1>1, <2>2 DEF Store
    <3>2. underLimit(store[key], limit)
      BY <2>2 DEF admitsOne
    <3>3. CASE windowExpired(store[key])
      <4>1. new[key] = [age |-> 0, failures |-> 0, inFlight |-> store[key].inFlight + 1]
        BY <1>1, <2>2, <3>3 DEF admitOne, admitted, Store
      <4>2. store[key].inFlight \in Nat /\ store[key].inFlight < limit
        BY <3>1, <3>2, <3>3 DEF underLimit, effectiveFailures, Bucket
      <4> QED
        BY <2>2, <4>1, <4>2, LimitsAssumption DEF Bucket, inFlight
    <3>4. CASE ~windowExpired(store[key])
      <4>1. new[key] = [store[key] EXCEPT !.inFlight = @ + 1]
        BY <1>1, <2>2, <3>4 DEF admitOne, admitted, Store
      <4>2. /\ store[key].inFlight \in Nat /\ store[key].failures \in Nat
            /\ store[key].failures + store[key].inFlight < limit
        BY <3>1, <3>2, <3>4 DEF underLimit, effectiveFailures, Bucket
      <4>3. new[key].failures = store[key].failures /\ new[key].inFlight = store[key].inFlight + 1
        BY <3>1, <4>1 DEF Bucket
      <4>4. new[key] \in Bucket
        BY <3>1, <4>1, <4>2 DEF Bucket
      <4> QED
        BY <2>2, <4>2, <4>3, <4>4 DEF inFlight
    <3> QED
      BY <3>3, <3>4
  <2> QED
    BY <2>1, <2>2
<1>4. new \in Store(keys)
  BY <1>1, <1>2, <1>3 DEF admitOne, Store
<1>5. Within(new, limit)
  BY <1>1, <1>2, <1>3, <1>4 DEF SoundStore, Within, Store
<1>6. size(new) <= MaxBuckets
  <2>1. CASE store[key] # NoBucket
    <3>1. tracked(new) \subseteq tracked(store)
      BY <1>1, <1>2, <1>4, <2>1 DEF tracked, Store
    <3> QED
      BY <1>1, <1>4, <3>1, FewerKeys DEF SoundStore
  <2>2. CASE store[key] = NoBucket
    <3>1. tracked(new) = tracked(store) \cup {key} /\ key \notin tracked(store)
      BY <1>1, <1>2, <1>3, <1>4, <2>2, NoBucketAssumption DEF tracked, Store
    <3>2. tracked(store) \subseteq keys
      BY <1>1 DEF tracked, Store
    <3>3. IsFiniteSet(tracked(store))
      BY <3>2, FS_Subset
    <3>4. Cardinality(tracked(new)) = Cardinality(tracked(store)) + 1
      BY <3>1, <3>3, FS_AddElement
    <3>5. Cardinality(tracked(store)) < MaxBuckets
      BY <2>2 DEF admitsOne, size
    <3>6. Cardinality(tracked(store)) \in Nat
      BY <3>3, FS_CardinalityType
    <3> QED
      BY <3>4, <3>5, <3>6, LimitsAssumption DEF size
  <2> QED
    BY <2>1, <2>2
<1>7. \A k \in keys : inFlight(new[k]) =
         IF k = key THEN inFlight(store[k]) + 1 ELSE inFlight(store[k])
  BY <1>2, <1>3, NoBucketAssumption DEF inFlight
<1> QED
  BY <1>3, <1>4, <1>5, <1>6, <1>7, NoBucketAssumption DEF SoundStore

\* A failure gives the slot up for a failure, within the limit as before.
LEMMA FailSound ==
    ASSUME NEW keys, IsFiniteSet(keys), NEW limit \in Nat \ {0}, NEW store, NEW key \in keys,
           SoundStore(store, keys, limit), inFlight(store[key]) > 0
    PROVE  /\ SoundStore(failOne(store, key), keys, limit)
           /\ \A k \in keys : inFlight(failOne(store, key)[k]) =
                 IF k = key THEN inFlight(store[k]) - 1 ELSE inFlight(store[k])
<1> DEFINE new == failOne(store, key)
<1>1. store \in Store(keys) /\ store[key] \in Bucket /\ store[key] # NoBucket
  BY DEF SoundStore, Store, inFlight
<1>2. new = [store EXCEPT ![key] = failed(store[key])]
  BY <1>1 DEF failOne
<1>3. /\ store[key].inFlight \in Nat /\ store[key].inFlight > 0
      /\ less(store[key].inFlight) = store[key].inFlight - 1
      /\ store[key].failures \in Nat
      /\ store[key].failures + store[key].inFlight <= limit
  BY <1>1 DEF inFlight, less, Bucket, SoundStore, Within, Store
<1>4. /\ new[key] \in Bucket
      /\ new[key].failures + new[key].inFlight <= limit
      /\ new[key].inFlight = store[key].inFlight - 1
  <2>1. CASE windowExpired(store[key])
    <3>1. new[key] = [age |-> 0, failures |-> 1, inFlight |-> store[key].inFlight - 1]
      BY <1>1, <1>2, <1>3, <2>1 DEF failed, Store
    <3> QED
      BY <1>3, <3>1, LimitsAssumption DEF Bucket
  <2>2. CASE ~windowExpired(store[key])
    <3>1. new[key] = [store[key] EXCEPT !.failures = store[key].failures + 1,
                                        !.inFlight = store[key].inFlight - 1]
      BY <1>1, <1>2, <1>3, <2>2 DEF failed, Store
    <3>2. /\ new[key].failures = store[key].failures + 1
          /\ new[key].inFlight = store[key].inFlight - 1
      BY <1>1, <3>1 DEF Bucket
    <3>3. store[key].failures + 1 \in Nat /\ store[key].inFlight - 1 \in Nat
      BY <1>3
    <3>4. new[key] \in Bucket
      BY <1>1, <3>1, <3>3 DEF Bucket
    <3> QED
      BY <1>3, <3>2, <3>4
  <2> QED
    BY <2>1, <2>2
<1>5. \A k \in keys \ {key} : new[k] = store[k]
  BY <1>1, <1>2 DEF Store
<1>6. new \in Store(keys)
  BY <1>1, <1>2, <1>4 DEF Store
<1>7. Within(new, limit)
  BY <1>1, <1>4, <1>5, <1>6 DEF SoundStore, Within, Store
<1>8. size(new) <= MaxBuckets
  <2>1. tracked(new) \subseteq tracked(store)
    BY <1>1, <1>5, <1>6 DEF tracked, Store
  <2> QED
    BY <1>1, <1>6, <2>1, FewerKeys DEF SoundStore
<1>9. \A k \in keys : inFlight(new[k]) =
         IF k = key THEN inFlight(store[k]) - 1 ELSE inFlight(store[k])
  BY <1>1, <1>4, <1>5, NoBucketAssumption DEF inFlight
<1> QED
  BY <1>6, <1>7, <1>8, <1>9 DEF SoundStore

\* A release gives one slot back and keeps the store sound.
LEMMA ReleaseSound ==
    ASSUME NEW keys, IsFiniteSet(keys), NEW limit \in Nat \ {0}, NEW store, NEW key \in keys,
           SoundStore(store, keys, limit), inFlight(store[key]) > 0
    PROVE  /\ SoundStore(releaseOne(store, key), keys, limit)
           /\ \A k \in keys : inFlight(releaseOne(store, key)[k]) =
                 IF k = key THEN inFlight(store[k]) - 1 ELSE inFlight(store[k])
<1> DEFINE new == releaseOne(store, key)
<1>1. store \in Store(keys) /\ store[key] \in Bucket /\ store[key] # NoBucket
  BY DEF SoundStore, Store, inFlight
<1>2. new = [store EXCEPT ![key] = released(store[key])]
  BY DEF releaseOne
<1>3. /\ store[key].inFlight \in Nat /\ store[key].inFlight > 0
      /\ less(store[key].inFlight) = store[key].inFlight - 1
      /\ store[key].failures \in Nat
      /\ store[key].failures + store[key].inFlight <= limit
  BY <1>1 DEF inFlight, less, Bucket, SoundStore, Within, Store
<1>4. /\ new[key] \in Bucket \cup {NoBucket}
      /\ new[key] # NoBucket => new[key].failures + new[key].inFlight <= limit
      /\ inFlight(new[key]) = store[key].inFlight - 1
  <2>1. CASE store[key].inFlight - 1 = 0 /\ store[key].failures = 0
    <3>1. new[key] = NoBucket
      BY <1>1, <1>2, <1>3, <2>1 DEF released, Store
    <3> QED
      BY <2>1, <3>1 DEF inFlight
  <2>2. CASE ~(store[key].inFlight - 1 = 0 /\ store[key].failures = 0)
    <3>1. new[key] = [store[key] EXCEPT !.inFlight = store[key].inFlight - 1]
      BY <1>1, <1>2, <1>3, <2>2 DEF released, Store
    <3>2. /\ new[key].failures = store[key].failures
          /\ new[key].inFlight = store[key].inFlight - 1
      BY <1>1, <3>1 DEF Bucket
    <3>3. new[key] \in Bucket
      BY <1>1, <1>3, <3>1 DEF Bucket
    <3> QED
      BY <1>3, <3>2, <3>3, NoBucketAssumption DEF inFlight
  <2> QED
    BY <2>1, <2>2
<1>5. \A k \in keys \ {key} : new[k] = store[k]
  BY <1>1, <1>2 DEF Store
<1>6. new \in Store(keys)
  BY <1>1, <1>2, <1>4 DEF Store
<1>7. Within(new, limit)
  BY <1>1, <1>4, <1>5, <1>6 DEF SoundStore, Within, Store
<1>8. size(new) <= MaxBuckets
  <2>1. tracked(new) \subseteq tracked(store)
    BY <1>1, <1>5, <1>6 DEF tracked, Store
  <2> QED
    BY <1>1, <1>6, <2>1, FewerKeys DEF SoundStore
<1>9. \A k \in keys : inFlight(new[k]) =
         IF k = key THEN inFlight(store[k]) - 1 ELSE inFlight(store[k])
  BY <1>1, <1>4, <1>5 DEF inFlight
<1> QED
  BY <1>6, <1>7, <1>8, <1>9 DEF SoundStore

-----------------------------------------------------------------------------
\* The logins in flight of a key.

\* A login that is admitted is one more holder of its two keys.
LEMMA HolderJoins ==
    ASSUME login \in [Logins -> Attempt \cup {NoBucket}],
           NEW a \in Logins, login[a] = NoBucket, NEW e \in Emails, NEW i \in Ips,
           login' = [login EXCEPT ![a] = [email |-> e, ip |-> i]]
    PROVE  /\ \A k \in Emails : Cardinality(emailHolders(k))' =
                 IF k = e THEN Cardinality(emailHolders(k)) + 1 ELSE Cardinality(emailHolders(k))
           /\ \A k \in Ips : Cardinality(ipHolders(k))' =
                 IF k = i THEN Cardinality(ipHolders(k)) + 1 ELSE Cardinality(ipHolders(k))
<1>1. /\ login'[a] = [email |-> e, ip |-> i]
      /\ login'[a] # NoBucket
      /\ \A b \in Logins \ {a} : login'[b] = login[b]
  BY NoBucketAssumption DEF Attempt
<1>2. ASSUME NEW k \in Emails
      PROVE  Cardinality(emailHolders(k))' =
                IF k = e THEN Cardinality(emailHolders(k)) + 1 ELSE Cardinality(emailHolders(k))
  <2>1. IsFiniteSet(emailHolders(k)) /\ a \notin emailHolders(k)
    BY LoginsAssumption, FS_Subset DEF emailHolders
  <2>2. CASE k = e
    <3>1. emailHolders(k)' = emailHolders(k) \cup {a}
      BY <1>1, <2>2 DEF emailHolders
    <3> QED
      BY <2>1, <2>2, <3>1, FS_AddElement
  <2>3. CASE k # e
    <3>1. emailHolders(k)' = emailHolders(k)
      BY <1>1, <2>3 DEF emailHolders
    <3> QED
      BY <2>3, <3>1
  <2> QED
    BY <2>2, <2>3
<1>3. ASSUME NEW k \in Ips
      PROVE  Cardinality(ipHolders(k))' =
                IF k = i THEN Cardinality(ipHolders(k)) + 1 ELSE Cardinality(ipHolders(k))
  <2>1. IsFiniteSet(ipHolders(k)) /\ a \notin ipHolders(k)
    BY LoginsAssumption, FS_Subset DEF ipHolders
  <2>2. CASE k = i
    <3>1. ipHolders(k)' = ipHolders(k) \cup {a}
      BY <1>1, <2>2 DEF ipHolders
    <3> QED
      BY <2>1, <2>2, <3>1, FS_AddElement
  <2>3. CASE k # i
    <3>1. ipHolders(k)' = ipHolders(k)
      BY <1>1, <2>3 DEF ipHolders
    <3> QED
      BY <2>3, <3>1
  <2> QED
    BY <2>2, <2>3
<1> QED
  BY <1>2, <1>3

\* A login in flight is counted by its two keys.
LEMMA HolderCounts ==
    ASSUME login \in [Logins -> Attempt \cup {NoBucket}], NEW a \in Logins, login[a] # NoBucket
    PROVE  /\ login[a].email \in Emails /\ Cardinality(emailHolders(login[a].email)) > 0
           /\ login[a].ip \in Ips /\ Cardinality(ipHolders(login[a].ip)) > 0
<1> DEFINE emailed == emailHolders(login[a].email)
           addressed == ipHolders(login[a].ip)
<1>1. login[a].email \in Emails /\ login[a].ip \in Ips
  BY DEF Attempt
<1>2. /\ a \in emailed /\ IsFiniteSet(emailed)
      /\ a \in addressed /\ IsFiniteSet(addressed)
  BY LoginsAssumption, FS_Subset DEF emailHolders, ipHolders
<1>3. ASSUME NEW S, IsFiniteSet(S), a \in S PROVE Cardinality(S) > 0
  BY <1>3, FS_EmptySet, FS_CardinalityType
<1> QED
  BY <1>1, <1>2, <1>3

\* A login that settles was a holder of its two keys and is one no more.
LEMMA HolderLeaves ==
    ASSUME login \in [Logins -> Attempt \cup {NoBucket}],
           NEW a \in Logins, login[a] # NoBucket,
           login' = [login EXCEPT ![a] = NoBucket]
    PROVE  /\ login[a].email \in Emails /\ login[a].ip \in Ips
           /\ Cardinality(emailHolders(login[a].email)) > 0
           /\ Cardinality(ipHolders(login[a].ip)) > 0
           /\ \A k \in Emails : Cardinality(emailHolders(k))' =
                 IF k = login[a].email THEN Cardinality(emailHolders(k)) - 1
                                       ELSE Cardinality(emailHolders(k))
           /\ \A k \in Ips : Cardinality(ipHolders(k))' =
                 IF k = login[a].ip THEN Cardinality(ipHolders(k)) - 1
                                    ELSE Cardinality(ipHolders(k))
<1>1. /\ login'[a] = NoBucket
      /\ \A b \in Logins \ {a} : login'[b] = login[b]
      /\ login[a].email \in Emails /\ login[a].ip \in Ips
  BY DEF Attempt
<1>2. ASSUME NEW k \in Emails
      PROVE  /\ k = login[a].email => Cardinality(emailHolders(k)) > 0
             /\ Cardinality(emailHolders(k))' =
                   IF k = login[a].email THEN Cardinality(emailHolders(k)) - 1
                                         ELSE Cardinality(emailHolders(k))
  <2>1. IsFiniteSet(emailHolders(k))
    BY LoginsAssumption, FS_Subset DEF emailHolders
  <2>2. CASE k = login[a].email
    <3>1. a \in emailHolders(k) /\ emailHolders(k)' = emailHolders(k) \ {a}
      BY <1>1, <2>2 DEF emailHolders
    <3>2. Cardinality(emailHolders(k)') = Cardinality(emailHolders(k)) - 1
      BY <2>1, <3>1, FS_RemoveElement
    <3>3. Cardinality(emailHolders(k)') \in Nat /\ Cardinality(emailHolders(k)) \in Nat
      BY <2>1, <3>1, FS_RemoveElement, FS_CardinalityType
    <3> QED
      BY <2>2, <3>2, <3>3
  <2>3. CASE k # login[a].email
    <3>1. emailHolders(k)' = emailHolders(k)
      BY <1>1, <2>3 DEF emailHolders
    <3> QED
      BY <2>3, <3>1
  <2> QED
    BY <2>2, <2>3
<1>3. ASSUME NEW k \in Ips
      PROVE  /\ k = login[a].ip => Cardinality(ipHolders(k)) > 0
             /\ Cardinality(ipHolders(k))' =
                   IF k = login[a].ip THEN Cardinality(ipHolders(k)) - 1
                                      ELSE Cardinality(ipHolders(k))
  <2>1. IsFiniteSet(ipHolders(k))
    BY LoginsAssumption, FS_Subset DEF ipHolders
  <2>2. CASE k = login[a].ip
    <3>1. a \in ipHolders(k) /\ ipHolders(k)' = ipHolders(k) \ {a}
      BY <1>1, <2>2 DEF ipHolders
    <3>2. Cardinality(ipHolders(k)') = Cardinality(ipHolders(k)) - 1
      BY <2>1, <3>1, FS_RemoveElement
    <3>3. Cardinality(ipHolders(k)') \in Nat /\ Cardinality(ipHolders(k)) \in Nat
      BY <2>1, <3>1, FS_RemoveElement, FS_CardinalityType
    <3> QED
      BY <2>2, <3>2, <3>3
  <2>3. CASE k # login[a].ip
    <3>1. ipHolders(k)' = ipHolders(k)
      BY <1>1, <2>3 DEF ipHolders
    <3> QED
      BY <2>3, <3>1
  <2> QED
    BY <2>2, <2>3
<1> QED
  BY <1>1, <1>2, <1>3

-----------------------------------------------------------------------------
\* A probe that is admitted fails at once, and holds no slot afterwards.
LEMMA ProbeSound ==
    ASSUME NEW keys, IsFiniteSet(keys), NEW limit \in Nat \ {0}, NEW store, NEW key \in keys,
           SoundStore(store, keys, limit), admitsOne(store, key, limit)
    PROVE  SoundStore(failOne(admitOne(store, key), key), keys, limit)
<1> DEFINE mid == admitOne(store, key)
<1>1. SoundStore(mid, keys, limit) /\ inFlight(mid[key]) = inFlight(store[key]) + 1
  BY AdmitSound
<1>2. inFlight(store[key]) \in Nat
  BY DEF SoundStore, Store, inFlight, Bucket
<1>3. inFlight(mid[key]) > 0
  BY <1>1, <1>2
<1> QED
  BY <1>1, <1>3, FailSound

\* An email that is admitted and given back leaves the store sound, no slot moved.
LEMMA BackSound ==
    ASSUME NEW keys, IsFiniteSet(keys), NEW limit \in Nat \ {0}, NEW store, NEW key \in keys,
           SoundStore(store, keys, limit), admitsOne(store, key, limit)
    PROVE  /\ SoundStore(releaseOne(admitOne(store, key), key), keys, limit)
           /\ \A k \in keys :
                 inFlight(releaseOne(admitOne(store, key), key)[k]) = inFlight(store[k])
<1> DEFINE mid == admitOne(store, key)
<1>1. /\ SoundStore(mid, keys, limit)
      /\ \A k \in keys : inFlight(mid[k]) =
            IF k = key THEN inFlight(store[k]) + 1 ELSE inFlight(store[k])
  BY AdmitSound
<1>2. inFlight(store[key]) \in Nat
  BY DEF SoundStore, Store, inFlight, Bucket
<1>3. inFlight(mid[key]) > 0
  BY <1>1, <1>2
<1>4. /\ SoundStore(releaseOne(mid, key), keys, limit)
      /\ \A k \in keys : inFlight(releaseOne(mid, key)[k]) =
            IF k = key THEN inFlight(mid[k]) - 1 ELSE inFlight(mid[k])
  BY <1>1, <1>3, ReleaseSound
<1> QED
  BY <1>1, <1>2, <1>4

-----------------------------------------------------------------------------
\* The invariant in terms of the three stores and the logins.
LEMMA InvParts ==
    LimiterInv <=>
      /\ SoundStore(emailBuckets, Emails, EmailLimit)
      /\ SoundStore(ipBuckets, Ips, IpLimit)
      /\ SoundStore(probeBuckets, Ips, IpLimit)
      /\ login \in [Logins -> Attempt \cup {NoBucket}]
      /\ SlotsMatchLogins
BY DEF LimiterInv, LimiterTypeOK, KeptUnderLimit, StoresBounded, SoundStore

\* The same after a step.
LEMMA InvPartsNext ==
    LimiterInv' <=>
      /\ SoundStore(emailBuckets', Emails, EmailLimit)
      /\ SoundStore(ipBuckets', Ips, IpLimit)
      /\ SoundStore(probeBuckets', Ips, IpLimit)
      /\ login' \in [Logins -> Attempt \cup {NoBucket}]
      /\ SlotsMatchLogins'
BY DEF LimiterInv, LimiterTypeOK, KeptUnderLimit, StoresBounded, SoundStore

\* Empty stores and no login in flight: the start, and the start after a restart.
LEMMA EmptyStores == LimiterInit => LimiterInv
<1> SUFFICES ASSUME LimiterInit PROVE LimiterInv
  OBVIOUS
<1>1. /\ SoundStore(emailBuckets, Emails, EmailLimit)
      /\ SoundStore(ipBuckets, Ips, IpLimit)
      /\ SoundStore(probeBuckets, Ips, IpLimit)
  <2>1. ASSUME NEW keys, NEW limit, NEW store, store = [k \in keys |-> NoBucket]
        PROVE  SoundStore(store, keys, limit)
    <3>1. tracked(store) = {}
      BY <2>1 DEF tracked
    <3>2. size(store) = 0
      BY <3>1, FS_EmptySet DEF size
    <3> QED
      BY <2>1, <3>2, LimitsAssumption DEF SoundStore, Store, Within
  <2> QED
    BY <2>1 DEF LimiterInit
<1>2. SlotsMatchLogins
  <2>1. ASSUME NEW e \in Emails PROVE Cardinality(emailHolders(e)) = 0
    <3>1. emailHolders(e) = {}
      BY DEF LimiterInit, emailHolders
    <3> QED
      BY <3>1, FS_EmptySet
  <2>2. ASSUME NEW i \in Ips PROVE Cardinality(ipHolders(i)) = 0
    <3>1. ipHolders(i) = {}
      BY DEF LimiterInit, ipHolders
    <3> QED
      BY <3>1, FS_EmptySet
  <2> QED
    BY <2>1, <2>2 DEF LimiterInit, SlotsMatchLogins, inFlight
<1> QED
  BY <1>1, <1>2, InvParts DEF LimiterInit

\* The same after a restart.
LEMMA EmptyStoresNext == LimiterInit' => LimiterInv'
<1>1. (LimiterInit => LimiterInv)'
  BY EmptyStores, PTL
<1> QED
  BY <1>1

\* Each action keeps the invariant.
LEMMA LimiterStep == LimiterInv /\ [LimiterNext \/ LimiterRestart]_limiterVars => LimiterInv'
<1> SUFFICES ASSUME LimiterInv, [LimiterNext \/ LimiterRestart]_limiterVars
             PROVE  LimiterInv'
  OBVIOUS
<1> USE LoginsAssumption
<1> DEFINE emails == pruneStore(emailBuckets)
           ips == pruneStore(ipBuckets)
           probes == pruneStore(probeBuckets)
<1>1. /\ SoundStore(emailBuckets, Emails, EmailLimit)
      /\ SoundStore(ipBuckets, Ips, IpLimit)
      /\ SoundStore(probeBuckets, Ips, IpLimit)
      /\ login \in [Logins -> Attempt \cup {NoBucket}]
      /\ SlotsMatchLogins
  BY InvParts
<1>2. EmailLimit \in Nat \ {0} /\ IpLimit \in Nat \ {0}
  BY LimitsAssumption
<1>3. /\ SoundStore(emails, Emails, EmailLimit)
      /\ \A k \in Emails : inFlight(emails[k]) = inFlight(emailBuckets[k])
      /\ SoundStore(ips, Ips, IpLimit)
      /\ \A k \in Ips : inFlight(ips[k]) = inFlight(ipBuckets[k])
      /\ SoundStore(probes, Ips, IpLimit)
  BY <1>1, <1>2, PruneSound
<1>4. ASSUME NEW e \in Emails, NEW i \in Ips, refuse(e, i)
      PROVE  LimiterInv'
  <2>1. /\ SoundStore(emailBuckets', Emails, EmailLimit)
        /\ \A k \in Emails : inFlight(emailBuckets'[k]) = inFlight(emailBuckets[k])
    <3>1. CASE admitsOne(emails, e, EmailLimit)
      <4>1. emailBuckets' = releaseOne(admitOne(emails, e), e)
        BY <1>4, <3>1 DEF refuse
      <4> QED
        BY <1>2, <1>3, <3>1, <4>1, BackSound
    <3>2. CASE ~admitsOne(emails, e, EmailLimit)
      BY <1>3, <1>4, <3>2 DEF refuse
    <3> QED
      BY <3>1, <3>2
  <2>2. ipBuckets' = ips /\ probeBuckets' = probeBuckets /\ login' = login
    BY <1>4 DEF refuse
  <2>3. SlotsMatchLogins'
    BY <1>1, <1>3, <2>1, <2>2 DEF SlotsMatchLogins, emailHolders, ipHolders
  <2> QED
    BY <1>1, <1>3, <2>1, <2>2, <2>3, InvPartsNext
<1>5. ASSUME NEW a \in Logins, NEW e \in Emails, NEW i \in Ips, admit(a, e, i)
      PROVE  LimiterInv'
  <2>1. /\ login[a] = NoBucket
        /\ admitsOne(emails, e, EmailLimit)
        /\ admitsOne(ips, i, IpLimit)
        /\ emailBuckets' = admitOne(emails, e)
        /\ ipBuckets' = admitOne(ips, i)
        /\ login' = [login EXCEPT ![a] = [email |-> e, ip |-> i]]
        /\ probeBuckets' = probeBuckets
    BY <1>5 DEF admit
  <2>2. /\ SoundStore(emailBuckets', Emails, EmailLimit)
        /\ \A k \in Emails : inFlight(emailBuckets'[k]) =
              IF k = e THEN inFlight(emails[k]) + 1 ELSE inFlight(emails[k])
    BY <1>2, <1>3, <2>1, AdmitSound
  <2>3. /\ SoundStore(ipBuckets', Ips, IpLimit)
        /\ \A k \in Ips : inFlight(ipBuckets'[k]) =
              IF k = i THEN inFlight(ips[k]) + 1 ELSE inFlight(ips[k])
    BY <1>2, <1>3, <2>1, AdmitSound
  <2>4. /\ \A k \in Emails : Cardinality(emailHolders(k))' =
              IF k = e THEN Cardinality(emailHolders(k)) + 1 ELSE Cardinality(emailHolders(k))
        /\ \A k \in Ips : Cardinality(ipHolders(k))' =
              IF k = i THEN Cardinality(ipHolders(k)) + 1 ELSE Cardinality(ipHolders(k))
    BY <1>1, <2>1, HolderJoins
  <2>5. SlotsMatchLogins'
    BY <1>1, <1>3, <2>2, <2>3, <2>4 DEF SlotsMatchLogins
  <2>6. login' \in [Logins -> Attempt \cup {NoBucket}]
    BY <1>1, <2>1 DEF Attempt
  <2> QED
    BY <1>1, <2>1, <2>2, <2>3, <2>5, <2>6, InvPartsNext
<1>6. ASSUME NEW a \in Logins, login[a] # NoBucket,
             login' = [login EXCEPT ![a] = NoBucket],
             /\ SoundStore(emailBuckets', Emails, EmailLimit)
             /\ \A k \in Emails : inFlight(emailBuckets'[k]) =
                   IF k = login[a].email THEN inFlight(emailBuckets[k]) - 1
                                         ELSE inFlight(emailBuckets[k])
             /\ SoundStore(ipBuckets', Ips, IpLimit)
             /\ \A k \in Ips : inFlight(ipBuckets'[k]) =
                   IF k = login[a].ip THEN inFlight(ipBuckets[k]) - 1
                                      ELSE inFlight(ipBuckets[k]),
             probeBuckets' = probeBuckets
      PROVE  LimiterInv'
  <2>1. /\ \A k \in Emails : Cardinality(emailHolders(k))' =
              IF k = login[a].email THEN Cardinality(emailHolders(k)) - 1
                                    ELSE Cardinality(emailHolders(k))
        /\ \A k \in Ips : Cardinality(ipHolders(k))' =
              IF k = login[a].ip THEN Cardinality(ipHolders(k)) - 1
                                 ELSE Cardinality(ipHolders(k))
    BY <1>1, <1>6, HolderLeaves
  <2>2. SlotsMatchLogins'
    BY <1>1, <1>6, <2>1 DEF SlotsMatchLogins
  <2>3. login' \in [Logins -> Attempt \cup {NoBucket}]
    BY <1>1, <1>6
  <2> QED
    BY <1>1, <1>6, <2>2, <2>3, InvPartsNext
<1>7. ASSUME NEW a \in Logins, login[a] # NoBucket
      PROVE  /\ login[a].email \in Emails /\ inFlight(emailBuckets[login[a].email]) > 0
             /\ login[a].ip \in Ips /\ inFlight(ipBuckets[login[a].ip]) > 0
  <2>1. /\ login[a].email \in Emails /\ Cardinality(emailHolders(login[a].email)) > 0
        /\ login[a].ip \in Ips /\ Cardinality(ipHolders(login[a].ip)) > 0
    BY <1>1, <1>7, HolderCounts
  <2> QED
    BY <1>1, <2>1 DEF SlotsMatchLogins
<1>8. ASSUME NEW a \in Logins, settleFailure(a)
      PROVE  LimiterInv'
  <2>1. /\ login[a] # NoBucket
        /\ emailBuckets' = pruneStore(failOne(emailBuckets, login[a].email))
        /\ ipBuckets' = pruneStore(failOne(ipBuckets, login[a].ip))
        /\ login' = [login EXCEPT ![a] = NoBucket]
        /\ probeBuckets' = probeBuckets
    BY <1>8 DEF settleFailure
  <2>2. /\ login[a].email \in Emails /\ inFlight(emailBuckets[login[a].email]) > 0
        /\ login[a].ip \in Ips /\ inFlight(ipBuckets[login[a].ip]) > 0
    BY <1>7, <2>1
  <2>3. /\ SoundStore(failOne(emailBuckets, login[a].email), Emails, EmailLimit)
        /\ \A k \in Emails : inFlight(failOne(emailBuckets, login[a].email)[k]) =
              IF k = login[a].email THEN inFlight(emailBuckets[k]) - 1
                                    ELSE inFlight(emailBuckets[k])
    BY <1>1, <1>2, <2>2, FailSound
  <2>4. /\ SoundStore(failOne(ipBuckets, login[a].ip), Ips, IpLimit)
        /\ \A k \in Ips : inFlight(failOne(ipBuckets, login[a].ip)[k]) =
              IF k = login[a].ip THEN inFlight(ipBuckets[k]) - 1
                                 ELSE inFlight(ipBuckets[k])
    BY <1>1, <1>2, <2>2, FailSound
  <2>5. /\ SoundStore(emailBuckets', Emails, EmailLimit)
        /\ \A k \in Emails : inFlight(emailBuckets'[k]) =
              inFlight(failOne(emailBuckets, login[a].email)[k])
    BY <1>2, <2>1, <2>3, PruneSound
  <2>6. /\ SoundStore(ipBuckets', Ips, IpLimit)
        /\ \A k \in Ips : inFlight(ipBuckets'[k]) =
              inFlight(failOne(ipBuckets, login[a].ip)[k])
    BY <1>2, <2>1, <2>4, PruneSound
  <2> QED
    BY <1>6, <2>1, <2>3, <2>4, <2>5, <2>6
<1>9. ASSUME NEW a \in Logins, settleSuccess(a)
      PROVE  LimiterInv'
  <2>1. /\ login[a] # NoBucket
        /\ emailBuckets' = pruneStore(releaseOne(emailBuckets, login[a].email))
        /\ ipBuckets' = pruneStore(releaseOne(ipBuckets, login[a].ip))
        /\ login' = [login EXCEPT ![a] = NoBucket]
        /\ probeBuckets' = probeBuckets
    BY <1>9 DEF settleSuccess
  <2>2. /\ login[a].email \in Emails /\ inFlight(emailBuckets[login[a].email]) > 0
        /\ login[a].ip \in Ips /\ inFlight(ipBuckets[login[a].ip]) > 0
    BY <1>7, <2>1
  <2>3. /\ SoundStore(releaseOne(emailBuckets, login[a].email), Emails, EmailLimit)
        /\ \A k \in Emails : inFlight(releaseOne(emailBuckets, login[a].email)[k]) =
              IF k = login[a].email THEN inFlight(emailBuckets[k]) - 1
                                    ELSE inFlight(emailBuckets[k])
    BY <1>1, <1>2, <2>2, ReleaseSound
  <2>4. /\ SoundStore(releaseOne(ipBuckets, login[a].ip), Ips, IpLimit)
        /\ \A k \in Ips : inFlight(releaseOne(ipBuckets, login[a].ip)[k]) =
              IF k = login[a].ip THEN inFlight(ipBuckets[k]) - 1
                                 ELSE inFlight(ipBuckets[k])
    BY <1>1, <1>2, <2>2, ReleaseSound
  <2>5. /\ SoundStore(emailBuckets', Emails, EmailLimit)
        /\ \A k \in Emails : inFlight(emailBuckets'[k]) =
              inFlight(releaseOne(emailBuckets, login[a].email)[k])
    BY <1>2, <2>1, <2>3, PruneSound
  <2>6. /\ SoundStore(ipBuckets', Ips, IpLimit)
        /\ \A k \in Ips : inFlight(ipBuckets'[k]) =
              inFlight(releaseOne(ipBuckets, login[a].ip)[k])
    BY <1>2, <2>1, <2>4, PruneSound
  <2> QED
    BY <1>6, <2>1, <2>3, <2>4, <2>5, <2>6
<1>10. ASSUME NEW i \in Ips, noteProbe(i)
       PROVE  LimiterInv'
  <2>1. SoundStore(probeBuckets', Ips, IpLimit)
    <3>1. CASE admitsOne(probes, i, IpLimit)
      <4>1. probeBuckets' = failOne(admitOne(probes, i), i)
        BY <1>10, <3>1 DEF noteProbe
      <4> QED
        BY <1>2, <1>3, <3>1, <4>1, ProbeSound
    <3>2. CASE ~admitsOne(probes, i, IpLimit)
      BY <1>3, <1>10, <3>2 DEF noteProbe
    <3> QED
      BY <3>1, <3>2
  <2>2. emailBuckets' = emailBuckets /\ ipBuckets' = ipBuckets /\ login' = login
    BY <1>10 DEF noteProbe
  <2>3. SlotsMatchLogins'
    BY <1>1, <2>2 DEF SlotsMatchLogins, emailHolders, ipHolders
  <2> QED
    BY <1>1, <2>1, <2>2, <2>3, InvPartsNext
<1>11. CASE Tick
  <2>1. /\ emailBuckets' = older(emailBuckets)
        /\ ipBuckets' = older(ipBuckets)
        /\ probeBuckets' = older(probeBuckets)
        /\ login' = login
    BY <1>11 DEF Tick
  <2>2. /\ SoundStore(emailBuckets', Emails, EmailLimit)
        /\ \A k \in Emails : inFlight(emailBuckets'[k]) = inFlight(emailBuckets[k])
        /\ SoundStore(ipBuckets', Ips, IpLimit)
        /\ \A k \in Ips : inFlight(ipBuckets'[k]) = inFlight(ipBuckets[k])
        /\ SoundStore(probeBuckets', Ips, IpLimit)
    BY <1>1, <1>2, <2>1, OlderSound
  <2>3. SlotsMatchLogins'
    BY <1>1, <2>1, <2>2 DEF SlotsMatchLogins, emailHolders, ipHolders
  <2> QED
    BY <1>1, <2>1, <2>2, <2>3, InvPartsNext
<1>12. CASE LimiterRestart
  BY <1>12, EmptyStoresNext DEF LimiterRestart, LimiterInit
<1>13. CASE UNCHANGED limiterVars
  <2>1. /\ emailBuckets' = emailBuckets /\ ipBuckets' = ipBuckets
        /\ probeBuckets' = probeBuckets /\ login' = login
    BY <1>13 DEF limiterVars
  <2>2. SlotsMatchLogins'
    BY <1>1, <2>1 DEF SlotsMatchLogins, emailHolders, ipHolders
  <2> QED
    BY <1>1, <2>1, <2>2, InvPartsNext
<1> QED
  BY <1>4, <1>5, <1>8, <1>9, <1>10, <1>11, <1>12, <1>13 DEF LimiterNext, Settles

\* The inductive invariant holds in every reachable state.
THEOREM LimiterInvariance == LimiterSpec => []LimiterInv
BY EmptyStores, LimiterStep, PTL DEF LimiterSpec

\* Every store holds buckets, every login in flight its two keys.
THEOREM LimiterTyped == LimiterSpec => []LimiterTypeOK
BY LimiterInvariance, PTL DEF LimiterInv

\* login-rate-limit.ts:7-9, for every number of logins in flight: their slots and the
\* failures of one window together stay within the limit of the key.
THEOREM BudgetKept == LimiterSpec => []KeptUnderLimit
BY LimiterInvariance, PTL DEF LimiterInv

\* A bucket counts the logins of its key that have not settled, no more and no fewer.
THEOREM SlotsExact == LimiterSpec => []SlotsMatchLogins
BY LimiterInvariance, PTL DEF LimiterInv

\* login-rate-limit.ts:16-17: no store outgrows MAX_TRACKED_BUCKETS.
THEOREM BucketsBounded == LimiterSpec => []StoresBounded
BY LimiterInvariance, PTL DEF LimiterInv

-----------------------------------------------------------------------------
\* What no operation forgets.

\* A bucket that counts failures of a window that goes on.
Counting(bucket) == bucket # NoBucket /\ ~windowExpired(bucket) /\ bucket.failures > 0

\* Those buckets stay, their windows as they were and their failures no fewer.
\* Unlike Keeps this composes: what an operation leaves counting the next one finds so.
Holds(old, new) ==
    \A k \in DOMAIN old : Counting(old[k]) =>
        /\ new[k] # NoBucket
        /\ new[k].age = old[k].age
        /\ new[k].failures >= old[k].failures

\* One operation after the other.
LEMMA HoldsTwice ==
    ASSUME NEW keys, NEW old \in Store(keys), NEW mid \in Store(keys), NEW new \in Store(keys),
           Holds(old, mid), Holds(mid, new)
    PROVE  Holds(old, new)
<1> SUFFICES ASSUME NEW k \in keys, Counting(old[k])
             PROVE  /\ new[k] # NoBucket
                    /\ new[k].age = old[k].age
                    /\ new[k].failures >= old[k].failures
  BY DEF Holds, Store
<1>1. /\ mid[k] # NoBucket
      /\ mid[k].age = old[k].age
      /\ mid[k].failures >= old[k].failures
  BY DEF Holds, Store
<1>2. old[k] \in Bucket /\ mid[k] \in Bucket
  BY <1>1 DEF Store, Counting
<1>3. Counting(mid[k])
  BY <1>1, <1>2 DEF Counting, windowExpired, Bucket
<1>4. /\ new[k] # NoBucket
      /\ new[k].age = mid[k].age
      /\ new[k].failures >= mid[k].failures
  BY <1>3 DEF Holds, Store
<1>5. new[k] \in Bucket
  BY <1>4 DEF Store
<1> QED
  BY <1>1, <1>2, <1>4, <1>5 DEF Bucket

\* What holds on to the failures of a window forgets none before it is over.
LEMMA HoldsKeeps ==
    ASSUME NEW keys, NEW old \in Store(keys), NEW new \in Store(keys), Holds(old, new)
    PROVE  Keeps(old, new)
BY DEF Holds, Keeps, Counting, Store

\* Pruning takes only windows that are over.
LEMMA PruneHolds ==
    ASSUME NEW keys, NEW store \in Store(keys)
    PROVE  pruneStore(store) \in Store(keys) /\ Holds(store, pruneStore(store))
<1>1. pruneStore(store) \in Store(keys)
  BY DEF pruneStore, Store
<1>2. ASSUME NEW k \in keys, Counting(store[k])
      PROVE  pruneStore(store)[k] = store[k] /\ store[k] \in Bucket
  BY <1>2 DEF pruneStore, Counting, Store
<1> QED
  BY <1>1, <1>2 DEF Holds, Counting, Store, Bucket

\* Another bucket of one key: the others are as they were.
LEMMA OneKeyHolds ==
    ASSUME NEW keys, NEW store \in Store(keys), NEW key \in keys,
           NEW bucket \in Bucket \cup {NoBucket},
           Counting(store[key]) => /\ bucket # NoBucket
                                   /\ bucket.age = store[key].age
                                   /\ bucket.failures >= store[key].failures
    PROVE  /\ [store EXCEPT ![key] = bucket] \in Store(keys)
           /\ Holds(store, [store EXCEPT ![key] = bucket])
<1> DEFINE new == [store EXCEPT ![key] = bucket]
<1>1. new \in Store(keys) /\ new[key] = bucket /\ \A k \in keys \ {key} : new[k] = store[k]
  BY DEF Store
<1>2. \A k \in keys : Counting(store[k]) => store[k].failures >= store[k].failures
  BY DEF Store, Counting, Bucket
<1> QED
  BY <1>1, <1>2 DEF Holds, Counting, Store

\* A slot that is taken leaves the failures of its key alone.
LEMMA AdmitHolds ==
    ASSUME NEW keys, NEW store \in Store(keys), NEW key \in keys
    PROVE  admitOne(store, key) \in Store(keys) /\ Holds(store, admitOne(store, key))
<1> DEFINE bucket == admitted(store[key])
<1>1. store[key] \in Bucket \cup {NoBucket} /\ 0 \in 0..Window
  BY LimitsAssumption DEF Store
<1>2. /\ bucket \in Bucket
      /\ Counting(store[key]) => /\ bucket.age = store[key].age
                                 /\ bucket.failures >= store[key].failures
  <2>1. CASE store[key] = NoBucket \/ windowExpired(store[key])
    BY <1>1, <2>1 DEF admitted, Bucket, Counting
  <2>2. CASE store[key] # NoBucket /\ ~windowExpired(store[key])
    <3>1. bucket = [store[key] EXCEPT !.inFlight = @ + 1] /\ store[key] \in Bucket
      BY <1>1, <2>2 DEF admitted
    <3> QED
      BY <3>1 DEF Bucket
  <2> QED
    BY <2>1, <2>2
<1>3. admitOne(store, key) = [store EXCEPT ![key] = bucket]
  BY DEF admitOne, Store
<1>4. bucket # NoBucket
  BY <1>2, NoBucketAssumption
<1> HIDE DEF bucket
<1>6. /\ [store EXCEPT ![key] = bucket] \in Store(keys)
      /\ Holds(store, [store EXCEPT ![key] = bucket])
  <2>1. bucket \in Bucket \cup {NoBucket}
    BY <1>2
  <2>2. Counting(store[key]) => /\ bucket # NoBucket
                                /\ bucket.age = store[key].age
                                /\ bucket.failures >= store[key].failures
    BY <1>2, <1>4
  <2> QED
    BY <2>1, <2>2, OneKeyHolds
<1> QED
  BY <1>3, <1>6

\* A failure adds to those of its window.
LEMMA FailHolds ==
    ASSUME NEW keys, NEW store \in Store(keys), NEW key \in keys
    PROVE  failOne(store, key) \in Store(keys) /\ Holds(store, failOne(store, key))
<1> DEFINE bucket == failed(store[key])
<1>1. store[key] \in Bucket \cup {NoBucket} /\ 0 \in 0..Window
  BY LimitsAssumption DEF Store
<1>2. /\ bucket \in Bucket
      /\ Counting(store[key]) => /\ bucket.age = store[key].age
                                 /\ bucket.failures >= store[key].failures
  <2>1. CASE store[key] = NoBucket
    BY <1>1, <2>1 DEF failed, Bucket, Counting
  <2>2. CASE store[key] # NoBucket
    <3>1. store[key] \in Bucket /\ less(store[key].inFlight) \in Nat
      BY <1>1, <2>2 DEF Bucket, less
    <3>2. CASE windowExpired(store[key])
      BY <1>1, <2>2, <3>1, <3>2 DEF failed, Bucket, Counting
    <3>3. CASE ~windowExpired(store[key])
      <4>1. bucket = [store[key] EXCEPT !.failures = store[key].failures + 1,
                                        !.inFlight = less(store[key].inFlight)]
        BY <2>2, <3>3 DEF failed
      <4>2. bucket.age = store[key].age /\ bucket.failures = store[key].failures + 1
        BY <3>1, <4>1 DEF Bucket
      <4>3. store[key].failures \in Nat /\ store[key].failures + 1 \in Nat
        BY <3>1 DEF Bucket
      <4>4. bucket \in Bucket
        BY <3>1, <4>1, <4>3 DEF Bucket
      <4> QED
        BY <4>2, <4>3, <4>4
    <3> QED
      BY <3>2, <3>3
  <2> QED
    BY <2>1, <2>2
<1>3. \/ failOne(store, key) = store
      \/ failOne(store, key) = [store EXCEPT ![key] = bucket]
  BY DEF failOne, Store
<1>4. bucket # NoBucket
  BY <1>2, NoBucketAssumption
<1>5. Holds(store, store)
  BY DEF Holds, Counting, Store, Bucket
<1> HIDE DEF bucket
<1>6. /\ [store EXCEPT ![key] = bucket] \in Store(keys)
      /\ Holds(store, [store EXCEPT ![key] = bucket])
  <2>1. bucket \in Bucket \cup {NoBucket}
    BY <1>2
  <2>2. Counting(store[key]) => /\ bucket # NoBucket
                                /\ bucket.age = store[key].age
                                /\ bucket.failures >= store[key].failures
    BY <1>2, <1>4
  <2> QED
    BY <2>1, <2>2, OneKeyHolds
<1> QED
  BY <1>3, <1>5, <1>6

\* A slot that is given back takes no failure with it.
LEMMA ReleaseHolds ==
    ASSUME NEW keys, NEW store \in Store(keys), NEW key \in keys
    PROVE  releaseOne(store, key) \in Store(keys) /\ Holds(store, releaseOne(store, key))
<1> DEFINE bucket == released(store[key])
<1>1. store[key] \in Bucket \cup {NoBucket}
  BY DEF Store
<1>2. /\ bucket \in Bucket \cup {NoBucket}
      /\ Counting(store[key]) => /\ bucket # NoBucket
                                 /\ bucket.age = store[key].age
                                 /\ bucket.failures >= store[key].failures
  <2>1. CASE store[key] = NoBucket
    BY <2>1 DEF released, Counting
  <2>2. CASE store[key] # NoBucket
    <3>1. store[key] \in Bucket /\ less(store[key].inFlight) \in Nat
      BY <1>1, <2>2 DEF Bucket, less
    <3>2. CASE less(store[key].inFlight) = 0 /\ store[key].failures = 0
      BY <3>1, <3>2 DEF released, Counting
    <3>3. CASE ~(less(store[key].inFlight) = 0 /\ store[key].failures = 0)
      <4>1. bucket = [store[key] EXCEPT !.inFlight = less(@)]
        BY <2>2, <3>3 DEF released
      <4>2. bucket \in Bucket /\ bucket.age = store[key].age
            /\ bucket.failures = store[key].failures
        BY <3>1, <4>1 DEF Bucket
      <4> QED
        BY <3>1, <4>2, NoBucketAssumption DEF Bucket
    <3> QED
      BY <3>2, <3>3
  <2> QED
    BY <2>1, <2>2
<1>3. releaseOne(store, key) = [store EXCEPT ![key] = bucket]
  BY DEF releaseOne, Store
<1> HIDE DEF bucket
<1>6. /\ [store EXCEPT ![key] = bucket] \in Store(keys)
      /\ Holds(store, [store EXCEPT ![key] = bucket])
  <2>1. bucket \in Bucket \cup {NoBucket}
    BY <1>2
  <2>2. Counting(store[key]) => /\ bucket # NoBucket
                                /\ bucket.age = store[key].age
                                /\ bucket.failures >= store[key].failures
    BY <1>2
  <2> QED
    BY <2>1, <2>2, OneKeyHolds
<1> QED
  BY <1>3, <1>6

\* Time takes no failure: it only brings the end of the window nearer.
LEMMA OlderKeeps ==
    ASSUME NEW keys, NEW store \in Store(keys)
    PROVE  Keeps(store, older(store))
<1> SUFFICES ASSUME NEW k \in keys, store[k] # NoBucket, ~windowExpired(store[k])
             PROVE  /\ older(store)[k] # NoBucket
                    /\ older(store)[k].failures >= store[k].failures
  BY DEF Keeps, Store
<1>1. store[k] \in Bucket
  BY DEF Store
<1>2. older(store)[k] = [store[k] EXCEPT !.age = @ + 1]
  BY DEF older, Store
<1>3. store[k].age + 1 \in 0..Window
  BY <1>1, LimitsAssumption DEF Bucket, windowExpired
<1>4. older(store)[k] \in Bucket /\ older(store)[k].failures = store[k].failures
  BY <1>1, <1>2, <1>3 DEF Bucket
<1> QED
  BY <1>1, <1>4, NoBucketAssumption DEF Bucket

\* The steps of the limiter, each as the operations it puts one after the other.
LEMMA NothingForgiven ==
    ASSUME LimiterTypeOK, [LimiterNext]_limiterVars
    PROVE  /\ Keeps(emailBuckets, emailBuckets')
           /\ Keeps(ipBuckets, ipBuckets')
           /\ Keeps(probeBuckets, probeBuckets')
<1> DEFINE emails == pruneStore(emailBuckets)
           ips == pruneStore(ipBuckets)
           probes == pruneStore(probeBuckets)
<1>1. /\ emailBuckets \in Store(Emails)
      /\ ipBuckets \in Store(Ips)
      /\ probeBuckets \in Store(Ips)
  BY DEF LimiterTypeOK
<1>2. /\ emails \in Store(Emails) /\ Holds(emailBuckets, emails)
      /\ ips \in Store(Ips) /\ Holds(ipBuckets, ips)
      /\ probes \in Store(Ips) /\ Holds(probeBuckets, probes)
  BY <1>1, PruneHolds
<1>3. ASSUME NEW keys, NEW store \in Store(keys) PROVE Keeps(store, store)
  BY DEF Keeps, Store, Bucket
<1>4. ASSUME NEW e \in Emails, NEW i \in Ips, refuse(e, i)
      PROVE  /\ Keeps(emailBuckets, emailBuckets')
             /\ Keeps(ipBuckets, ipBuckets')
             /\ Keeps(probeBuckets, probeBuckets')
  <2>1. /\ \/ emailBuckets' = releaseOne(admitOne(emails, e), e)
           \/ emailBuckets' = emails
        /\ ipBuckets' = ips
        /\ probeBuckets' = probeBuckets
    BY <1>4 DEF refuse
  <2>2. admitOne(emails, e) \in Store(Emails) /\ Holds(emails, admitOne(emails, e))
    BY <1>2, AdmitHolds
  <2>3. /\ releaseOne(admitOne(emails, e), e) \in Store(Emails)
        /\ Holds(admitOne(emails, e), releaseOne(admitOne(emails, e), e))
    BY <2>2, ReleaseHolds
  <2>4. Holds(emails, releaseOne(admitOne(emails, e), e))
    BY <1>2, <2>2, <2>3, HoldsTwice
  <2>5. Holds(emailBuckets, releaseOne(admitOne(emails, e), e))
    BY <1>1, <1>2, <2>3, <2>4, HoldsTwice
  <2>6. emailBuckets' \in Store(Emails) /\ Holds(emailBuckets, emailBuckets')
    BY <1>2, <2>1, <2>3, <2>5
  <2> QED
    BY <1>1, <1>2, <1>3, <2>1, <2>6, HoldsKeeps
<1>5. ASSUME NEW a \in Logins, NEW e \in Emails, NEW i \in Ips, admit(a, e, i)
      PROVE  /\ Keeps(emailBuckets, emailBuckets')
             /\ Keeps(ipBuckets, ipBuckets')
             /\ Keeps(probeBuckets, probeBuckets')
  <2>1. /\ emailBuckets' = admitOne(emails, e)
        /\ ipBuckets' = admitOne(ips, i)
        /\ probeBuckets' = probeBuckets
    BY <1>5 DEF admit
  <2>2. /\ emailBuckets' \in Store(Emails) /\ Holds(emails, emailBuckets')
        /\ ipBuckets' \in Store(Ips) /\ Holds(ips, ipBuckets')
    BY <1>2, <2>1, AdmitHolds
  <2>3. Holds(emailBuckets, emailBuckets') /\ Holds(ipBuckets, ipBuckets')
    BY <1>1, <1>2, <2>2, HoldsTwice
  <2> QED
    BY <1>1, <1>3, <2>1, <2>2, <2>3, HoldsKeeps
<1>6. ASSUME NEW a \in Logins, login[a] # NoBucket
      PROVE  login[a].email \in Emails /\ login[a].ip \in Ips
  BY <1>6 DEF LimiterTypeOK, Attempt
<1>7. ASSUME NEW keys, NEW store \in Store(keys), NEW mid \in Store(keys), Holds(store, mid)
      PROVE  Keeps(store, pruneStore(mid))
  <2>1. pruneStore(mid) \in Store(keys) /\ Holds(mid, pruneStore(mid))
    BY PruneHolds
  <2>2. Holds(store, pruneStore(mid))
    BY <1>7, <2>1, HoldsTwice
  <2> QED
    BY <2>1, <2>2, HoldsKeeps
<1>8. ASSUME NEW a \in Logins, settleFailure(a)
      PROVE  /\ Keeps(emailBuckets, emailBuckets')
             /\ Keeps(ipBuckets, ipBuckets')
             /\ Keeps(probeBuckets, probeBuckets')
  <2>1. /\ login[a] # NoBucket
        /\ emailBuckets' = pruneStore(failOne(emailBuckets, login[a].email))
        /\ ipBuckets' = pruneStore(failOne(ipBuckets, login[a].ip))
        /\ probeBuckets' = probeBuckets
    BY <1>8 DEF settleFailure
  <2>2. /\ failOne(emailBuckets, login[a].email) \in Store(Emails)
        /\ Holds(emailBuckets, failOne(emailBuckets, login[a].email))
        /\ failOne(ipBuckets, login[a].ip) \in Store(Ips)
        /\ Holds(ipBuckets, failOne(ipBuckets, login[a].ip))
    BY <1>1, <1>6, <2>1, FailHolds
  <2> QED
    BY <1>1, <1>3, <1>7, <2>1, <2>2
<1>9. ASSUME NEW a \in Logins, settleSuccess(a)
      PROVE  /\ Keeps(emailBuckets, emailBuckets')
             /\ Keeps(ipBuckets, ipBuckets')
             /\ Keeps(probeBuckets, probeBuckets')
  <2>1. /\ login[a] # NoBucket
        /\ emailBuckets' = pruneStore(releaseOne(emailBuckets, login[a].email))
        /\ ipBuckets' = pruneStore(releaseOne(ipBuckets, login[a].ip))
        /\ probeBuckets' = probeBuckets
    BY <1>9 DEF settleSuccess
  <2>2. /\ releaseOne(emailBuckets, login[a].email) \in Store(Emails)
        /\ Holds(emailBuckets, releaseOne(emailBuckets, login[a].email))
        /\ releaseOne(ipBuckets, login[a].ip) \in Store(Ips)
        /\ Holds(ipBuckets, releaseOne(ipBuckets, login[a].ip))
    BY <1>1, <1>6, <2>1, ReleaseHolds
  <2> QED
    BY <1>1, <1>3, <1>7, <2>1, <2>2
<1>10. ASSUME NEW i \in Ips, noteProbe(i)
       PROVE  /\ Keeps(emailBuckets, emailBuckets')
              /\ Keeps(ipBuckets, ipBuckets')
              /\ Keeps(probeBuckets, probeBuckets')
  <2>1. /\ \/ probeBuckets' = failOne(admitOne(probes, i), i)
           \/ probeBuckets' = probes
        /\ emailBuckets' = emailBuckets
        /\ ipBuckets' = ipBuckets
    BY <1>10 DEF noteProbe
  <2>2. admitOne(probes, i) \in Store(Ips) /\ Holds(probes, admitOne(probes, i))
    BY <1>2, AdmitHolds
  <2>3. /\ failOne(admitOne(probes, i), i) \in Store(Ips)
        /\ Holds(admitOne(probes, i), failOne(admitOne(probes, i), i))
    BY <2>2, FailHolds
  <2>4. Holds(probes, failOne(admitOne(probes, i), i))
    BY <1>2, <2>2, <2>3, HoldsTwice
  <2>5. Holds(probeBuckets, failOne(admitOne(probes, i), i))
    BY <1>1, <1>2, <2>3, <2>4, HoldsTwice
  <2>6. probeBuckets' \in Store(Ips) /\ Holds(probeBuckets, probeBuckets')
    BY <1>2, <2>1, <2>3, <2>5
  <2> QED
    BY <1>1, <1>3, <2>1, <2>6, HoldsKeeps
<1>11. CASE Tick
  <2>1. /\ emailBuckets' = older(emailBuckets)
        /\ ipBuckets' = older(ipBuckets)
        /\ probeBuckets' = older(probeBuckets)
    BY <1>11 DEF Tick
  <2> QED
    BY <1>1, <2>1, OlderKeeps
<1>12. CASE UNCHANGED limiterVars
  BY <1>1, <1>3, <1>12 DEF limiterVars
<1> QED
  BY <1>4, <1>5, <1>8, <1>9, <1>10, <1>11, <1>12 DEF LimiterNext, Settles

\* login-rate-limit.ts:4-5, for every limit and every number of keys: no success, no
\* refusal and no check of another login takes a failure away before its window is over.
THEOREM FailuresStay == LimiterSpec => NoForgiveness
<1>1. LimiterTypeOK /\ [LimiterNext \/ LimiterRestart]_limiterVars =>
        [\/ LimiterRestart
         \/ /\ Keeps(emailBuckets, emailBuckets')
            /\ Keeps(ipBuckets, ipBuckets')
            /\ Keeps(probeBuckets, probeBuckets')]_limiterVars
  BY NothingForgiven
<1> QED
  BY <1>1, LimiterTyped, PTL DEF LimiterSpec, NoForgiveness

=============================================================================
