-------------------------- MODULE LoginRateLimiter --------------------------
(***************************************************************************)
(* The limiter of failed logins: one bucket per email and one per address, *)
(* kept in the memory of the API process.  A login is admitted before its  *)
(* password is verified and settles afterwards, as a failure or without    *)
(* one; while it verifies, its slot counts against the same limits.  Each  *)
(* method runs to its end without an await, so each is one step.           *)
(***************************************************************************)
EXTENDS Integers, FiniteSets

CONSTANTS
    Emails,         \* normalized email keys
    Ips,            \* client addresses
    Logins,         \* logins in flight: bound on how many verify at a time
    EmailLimit,     \* LOGIN_MAX_FAILURES_PER_EMAIL
    IpLimit,        \* LOGIN_MAX_FAILURES_PER_IP
    MaxBuckets,     \* MAX_TRACKED_BUCKETS, per store
    Window,         \* FAILURE_WINDOW_MS, in ticks of the clock
    NoBucket        \* a key the Map does not hold, a login not in flight

ASSUME LimitsAssumption ==
    /\ EmailLimit \in Nat \ {0}
    /\ IpLimit \in Nat \ {0}
    /\ MaxBuckets \in Nat
    /\ Window \in Nat \ {0}

ASSUME LoginsAssumption == IsFiniteSet(Logins) /\ IsFiniteSet(Emails) /\ IsFiniteSet(Ips)

VARIABLES
    emailBuckets,
    ipBuckets,
    probeBuckets,   \* probes of signupEmailAvailability, per address
    login           \* the keys of each login between admit and settle

limiterVars == <<emailBuckets, ipBuckets, probeBuckets, login>>

\* age is the time since windowStartedAt; past the window it no longer matters.
Bucket == [age: 0..Window, failures: Nat, inFlight: Nat]
Attempt == [email: Emails, ip: Ips]

ASSUME NoBucketAssumption == NoBucket \notin Bucket /\ NoBucket \notin Attempt

Store(keys) == [keys -> Bucket \cup {NoBucket}]

\* Each store holds buckets, and each login in flight names its two keys.
LimiterTypeOK ==
    /\ emailBuckets \in Store(Emails)
    /\ ipBuckets \in Store(Ips)
    /\ probeBuckets \in Store(Ips)
    /\ login \in [Logins -> Attempt \cup {NoBucket}]

-----------------------------------------------------------------------------
\* Operations on one store.

tracked(store) == {k \in DOMAIN store : store[k] # NoBucket}

size(store) == Cardinality(tracked(store))

windowExpired(bucket) == bucket.age = Window

effectiveFailures(bucket) == IF windowExpired(bucket) THEN 0 ELSE bucket.failures

\* Mutant: a bucket past its window goes, whoever is still in flight.
pruneStore_inFlightToo(store) ==
    [k \in DOMAIN store |->
        IF store[k] # NoBucket /\ windowExpired(store[k]) THEN NoBucket ELSE store[k]]

pruneStore(store) ==
    [k \in DOMAIN store |->
        IF store[k] # NoBucket /\ windowExpired(store[k]) /\ store[k].inFlight = 0
        THEN NoBucket ELSE store[k]]

\* Mutant: the logins in flight are not counted.
underLimit_failuresOnly(bucket, limit) == effectiveFailures(bucket) < limit

underLimit(bucket, limit) == effectiveFailures(bucket) + bucket.inFlight < limit

\* A key that is tracked is under its limit, another one finds room.
admitsOne(store, key, limit) ==
    IF store[key] = NoBucket THEN size(store) < MaxBuckets
                             ELSE underLimit(store[key], limit)

\* The slot is taken; a window that is over starts again without failures.
admitted(bucket) ==
    IF bucket = NoBucket THEN [age |-> 0, failures |-> 0, inFlight |-> 1]
    ELSE IF windowExpired(bucket)
         THEN [age |-> 0, failures |-> 0, inFlight |-> bucket.inFlight + 1]
    ELSE [bucket EXCEPT !.inFlight = @ + 1]

admitOne(store, key) == [store EXCEPT ![key] = admitted(@)]

less(n) == IF n > 0 THEN n - 1 ELSE 0

\* The slot becomes a failure, the first one of a window if the last is over.
failed(bucket) ==
    IF bucket = NoBucket THEN [age |-> 0, failures |-> 1, inFlight |-> 0]
    ELSE IF windowExpired(bucket)
         THEN [age |-> 0, failures |-> 1, inFlight |-> less(bucket.inFlight)]
    ELSE [bucket EXCEPT !.failures = @ + 1, !.inFlight = less(@)]

\* A store that is full drops a failure it has no bucket for.
failOne(store, key) ==
    IF store[key] = NoBucket /\ size(store) >= MaxBuckets THEN store
    ELSE [store EXCEPT ![key] = failed(@)]

\* Mutant: the last slot takes the failures of the bucket with it.
released_forgets(bucket) ==
    IF bucket = NoBucket \/ less(bucket.inFlight) = 0 THEN NoBucket
    ELSE [bucket EXCEPT !.inFlight = less(@)]

\* The slot is given back; a bucket that counts nothing is deleted.
released(bucket) ==
    IF bucket = NoBucket \/ (less(bucket.inFlight) = 0 /\ bucket.failures = 0) THEN NoBucket
    ELSE [bucket EXCEPT !.inFlight = less(@)]

releaseOne(store, key) == [store EXCEPT ![key] = released(@)]

-----------------------------------------------------------------------------
\* The methods.

LimiterInit ==
    /\ emailBuckets = [e \in Emails |-> NoBucket]
    /\ ipBuckets = [i \in Ips |-> NoBucket]
    /\ probeBuckets = [i \in Ips |-> NoBucket]
    /\ login = [a \in Logins |-> NoBucket]

admit(a, e, i) ==
    LET emails == pruneStore(emailBuckets)
        ips == pruneStore(ipBuckets)
    IN  /\ login[a] = NoBucket
        /\ admitsOne(emails, e, EmailLimit)
        /\ admitsOne(ips, i, IpLimit)
        /\ emailBuckets' = admitOne(emails, e)
        /\ ipBuckets' = admitOne(ips, i)
        /\ login' = [login EXCEPT ![a] = [email |-> e, ip |-> i]]
        /\ UNCHANGED probeBuckets

\* Mutant: the email's slot is kept when the address is refused.
refuse_keepsSlot(e, i) ==
    LET emails == pruneStore(emailBuckets)
        ips == pruneStore(ipBuckets)
    IN  /\ ~(admitsOne(emails, e, EmailLimit) /\ admitsOne(ips, i, IpLimit))
        /\ emailBuckets' = IF admitsOne(emails, e, EmailLimit) THEN admitOne(emails, e) ELSE emails
        /\ ipBuckets' = ips
        /\ UNCHANGED <<probeBuckets, login>>

\* 429.  When only the address is over its limit, the email's slot is given back.
refuse(e, i) ==
    LET emails == pruneStore(emailBuckets)
        ips == pruneStore(ipBuckets)
    IN  /\ ~(admitsOne(emails, e, EmailLimit) /\ admitsOne(ips, i, IpLimit))
        /\ emailBuckets' = IF admitsOne(emails, e, EmailLimit)
                              THEN releaseOne(admitOne(emails, e), e)
                              ELSE emails
        /\ ipBuckets' = ips
        /\ UNCHANGED <<probeBuckets, login>>

settleFailure(a) ==
    /\ login[a] # NoBucket
    /\ emailBuckets' = pruneStore(failOne(emailBuckets, login[a].email))
    /\ ipBuckets' = pruneStore(failOne(ipBuckets, login[a].ip))
    /\ login' = [login EXCEPT ![a] = NoBucket]
    /\ UNCHANGED probeBuckets

\* settleSuccess, and abandon after an error of the infrastructure.
settleSuccess(a) ==
    /\ login[a] # NoBucket
    /\ emailBuckets' = pruneStore(releaseOne(emailBuckets, login[a].email))
    /\ ipBuckets' = pruneStore(releaseOne(ipBuckets, login[a].ip))
    /\ login' = [login EXCEPT ![a] = NoBucket]
    /\ UNCHANGED probeBuckets

\* A probe counts as a login that fails at once; refused, it only prunes.
noteProbe(i) ==
    LET probes == pruneStore(probeBuckets)
    IN  /\ probeBuckets' =
              IF admitsOne(probes, i, IpLimit)
              THEN failOne(admitOne(probes, i), i)
              ELSE probes
        /\ UNCHANGED <<emailBuckets, ipBuckets, login>>

\* Time passes.
older(store) ==
    [k \in DOMAIN store |->
        IF store[k] = NoBucket \/ windowExpired(store[k]) THEN store[k]
        ELSE [store[k] EXCEPT !.age = @ + 1]]

Tick ==
    /\ emailBuckets' = older(emailBuckets)
    /\ ipBuckets' = older(ipBuckets)
    /\ probeBuckets' = older(probeBuckets)
    /\ UNCHANGED login

\* The process restarts with empty stores; logins in flight are gone with it.
LimiterRestart ==
    /\ emailBuckets' = [e \in Emails |-> NoBucket]
    /\ ipBuckets' = [i \in Ips |-> NoBucket]
    /\ probeBuckets' = [i \in Ips |-> NoBucket]
    /\ login' = [a \in Logins |-> NoBucket]

Settles(a) == settleFailure(a) \/ settleSuccess(a)

LimiterNext ==
    \/ \E e \in Emails, i \in Ips : refuse(e, i) \/ \E a \in Logins : admit(a, e, i)
    \/ \E a \in Logins : Settles(a)
    \/ \E i \in Ips : noteProbe(i)
    \/ Tick

\* The clock goes on, and login settles what it has admitted in every branch,
\* its finally included.  Nobody has to try to log in.
LimiterSpec ==
    /\ LimiterInit
    /\ [][LimiterNext \/ LimiterRestart]_limiterVars
    /\ WF_limiterVars(Tick)
    /\ \A a \in Logins : WF_limiterVars(Settles(a))

-----------------------------------------------------------------------------
\* Properties.

overLimit(bucket, limit) == bucket # NoBucket /\ ~underLimit(bucket, limit)

Within(store, limit) ==
    \A k \in DOMAIN store : store[k] # NoBucket =>
        store[k].failures + store[k].inFlight <= limit

\* What login-rate-limit.ts:7-9 promises of a burst: logins in flight and failures of
\* one window together never exceed the limit, so no schedule of logins gets more
\* passwords tried within a window than the limit allows.
KeptUnderLimit ==
    /\ Within(emailBuckets, EmailLimit)
    /\ Within(ipBuckets, IpLimit)
    /\ Within(probeBuckets, IpLimit)

inFlight(bucket) == IF bucket = NoBucket THEN 0 ELSE bucket.inFlight

emailHolders(e) == {a \in Logins : login[a] # NoBucket /\ login[a].email = e}
ipHolders(i) == {a \in Logins : login[a] # NoBucket /\ login[a].ip = i}

\* A bucket counts exactly the logins of its key that have not settled: no slot
\* leaks on a refusal by the other store, and none is pruned away under a login.
SlotsMatchLogins ==
    /\ \A e \in Emails : inFlight(emailBuckets[e]) = Cardinality(emailHolders(e))
    /\ \A i \in Ips : inFlight(ipBuckets[i]) = Cardinality(ipHolders(i))

\* login-rate-limit.ts:16-17, "A store that is already at MAX_TRACKED_BUCKETS rejects
\* a new key instead of growing."
StoresBounded ==
    /\ size(emailBuckets) <= MaxBuckets
    /\ size(ipBuckets) <= MaxBuckets
    /\ size(probeBuckets) <= MaxBuckets

Keeps(old, new) ==
    \A k \in DOMAIN old : (old[k] # NoBucket /\ old[k].failures > 0) =>
        \/ windowExpired(old[k])
        \/ new[k] # NoBucket /\ new[k].failures >= old[k].failures

\* Failures are forgotten only when their window is over: no success, refusal or
\* check of another login in between lowers a count (login-rate-limit.ts:4-5).
NoForgiveness ==
    [][\/ LimiterRestart
       \/ /\ Keeps(emailBuckets, emailBuckets')
          /\ Keeps(ipBuckets, ipBuckets')
          /\ Keeps(probeBuckets, probeBuckets')]_limiterVars

\* Nobody is locked out for good: a key over its limit is under it again some time
\* later, whatever the logins that hold its slots end in.
LockoutEnds ==
    /\ \A e \in Emails :
          overLimit(emailBuckets[e], EmailLimit) ~> ~overLimit(emailBuckets[e], EmailLimit)
    /\ \A i \in Ips :
          overLimit(ipBuckets[i], IpLimit) ~> ~overLimit(ipBuckets[i], IpLimit)
=============================================================================
