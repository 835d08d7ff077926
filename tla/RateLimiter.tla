---------------------------- MODULE RateLimiter ----------------------------
(***************************************************************************)
(* rlimit.RateLimiter and the REST and Connect middlewares in front of the *)
(* handlers (http/rate_limit.go): one token bucket per key in a map, under *)
(* a mutex, and a goroutine that removes the entries nobody asked for in a *)
(* while.                                                                  *)
(*                                                                         *)
(* Wait looks the bucket up under the mutex and waits on it without, so a  *)
(* bucket may be removed from the map between the two, and while requests  *)
(* wait on it.  The bucket itself is golang.org/x/time/rate.Limiter.       *)
(*                                                                         *)
(* Time is an integer.  A bucket gains a token every Interval ticks; its   *)
(* level is counted in ticks, Interval of them for a token, and is         *)
(* negative while reservations are outstanding.                            *)
(***************************************************************************)
EXTENDS Integers, Sequences, FiniteSets

CONSTANTS
    NULL,        \* no entry in the map, no deadline
    Requests,    \* one element per request a client sends
    Devices,     \* device ids
    NoDevice,    \* the empty device id
    Peers,       \* remote addresses
    Tokens,      \* deviceRateLimit.tokens
    Interval,    \* ticks per token: deviceRateLimit.seconds / tokens
    MaxBurst,    \* the cap that run() puts on the burst
    TTL,         \* an entry not asked for during TTL ticks is removed
    GCInterval,  \* ticks between two rounds of the garbage collector
    CallInputs,  \* the calls that clients make
    MaxStall,    \* ticks that a goroutine that can go on may be kept waiting
    LastArrival, \* bound: no request arrives later
    MaxTime      \* bound: the clock stops there

Keys == Devices \cup {NoDevice} \cup Peers

\* A call: its API, what it says about the device, where it comes from, and
\* how many ticks its client waits, NULL for ever.  Only Connect passes the
\* timeout of a client on as a deadline.
Calls ==
    [api : {"rest"}, device : Devices \cup {NoDevice}, peer : Peers, timeout : {NULL}]
    \cup [api : {"connect"}, device : Devices \cup {NoDevice}, peer : Peers,
          timeout : Nat \cup {NULL}]

ASSUME RateAssumption ==
    /\ Tokens \in Nat \ {0} /\ Interval \in Nat \ {0} /\ MaxBurst \in Nat \ {0}
    /\ TTL \in Nat \ {0} /\ GCInterval \in Nat \ {0}
    /\ NULL \notin Int \cup [gen : Nat, seen : Nat]
    /\ NoDevice \notin Devices /\ IsFiniteSet(Requests)
    /\ CallInputs \subseteq Calls
    /\ MaxStall \in Nat /\ LastArrival \in Nat /\ MaxTime \in Nat

VARIABLES
    now,       \* the clock
    limiters,  \* the map: per key the number of its bucket and when it was
               \* last asked for, or NULL
    buckets,   \* per key, every bucket that was ever made for it
    nextGC,    \* when the ticker of the garbage collector fires next
    pc,        \* per request: where it is in Wait, or how it was answered
    req,       \* per request: the request, with its deadline
    held,      \* per request: the number of the bucket it uses
    since,     \* per request: when it looked its bucket up
    slot,      \* per request: when its reservation lets it go on
    canceled   \* the requests whose client went away

vars == <<now, limiters, buckets, nextGC, pc, req, held, since, slot, canceled>>

-----------------------------------------------------------------------------
(* The key of a request *)

\* Mutant: the APIs do not share their buckets.
KeyPerApi(q) == IF q.api = "rest" THEN q.peer ELSE q.device

\* A REST request without a device id falls back to the remote address; the
\* getter for Connect accepts an empty device id.
KeyOf(q) == IF q.api = "rest" /\ q.device = NoDevice THEN q.peer ELSE q.device

-----------------------------------------------------------------------------
(* The token bucket, rate.Limiter *)

Burst == IF Tokens <= MaxBurst THEN Tokens ELSE MaxBurst
Capacity == Burst * Interval
FullBucket == [level |-> Capacity, last |-> now, lastEvent |-> now]

\* The level of bucket b at this moment.
Advance(b) ==
    LET level == b.level + (now - b.last)
    IN  IF level > Capacity THEN Capacity ELSE level

\* What is left after one token is taken, and how long that has to wait.
Taken(b) == Advance(b) - Interval
Delay(b) == IF Taken(b) < 0 THEN -Taken(b) ELSE 0

\* A reservation is made unless it would come too late for the deadline.
Fits(b, deadline) == deadline # NULL => now + Delay(b) <= deadline
Reserved(b) == [level |-> Taken(b), last |-> now, lastEvent |-> now + Delay(b)]

\* Reservation.Cancel: the token is given back as far as no later reservation
\* has counted on it.
GivenBack(b, act) == Interval - (b.lastEvent - act)
Released(b, act) ==
    LET level == Advance(b) + GivenBack(b, act)
    IN  IF act < now \/ GivenBack(b, act) <= 0 THEN b
        ELSE [level     |-> IF level > Capacity THEN Capacity ELSE level,
              last      |-> now,
              lastEvent |-> IF act = b.lastEvent /\ act - Interval >= now
                            THEN act - Interval ELSE b.lastEvent]

-----------------------------------------------------------------------------
(* Wait *)

\* Mutant: a known entry is pointed at a bucket that was never made.
SeenElsewhere(k) == [limiters EXCEPT ![k] = [gen |-> @.gen + 1, seen |-> now]]

\* A known entry is marked as seen.
Seen(k) == [limiters EXCEPT ![k].seen = now]

Request(q) ==
    [api |-> q.api, key |-> KeyOf(q), device |-> q.device,
     deadline |-> IF q.timeout = NULL THEN NULL ELSE now + q.timeout]

\* getLimiter: call q looks its entry up or makes it, under the mutex.
GetLimiter(r, q) ==
    /\ pc[r] = "idle"
    /\ now <= LastArrival
    /\ req' = [req EXCEPT ![r] = Request(q)]
    /\ LET k == KeyOf(q)
       IN  /\ \/ /\ limiters[k] # NULL
                 /\ limiters' = Seen(k)
                 /\ UNCHANGED buckets
              \/ /\ limiters[k] = NULL
                 /\ buckets' = [buckets EXCEPT ![k] = Append(@, FullBucket)]
                 /\ limiters' = [limiters EXCEPT ![k] =
                       [gen |-> Len(buckets[k]) + 1, seen |-> now]]
           /\ held' = [held EXCEPT ![r] = limiters'[k].gen]
    /\ since' = [since EXCEPT ![r] = now]
    /\ pc' = [pc EXCEPT ![r] = "got"]
    /\ UNCHANGED <<now, nextGC, slot, canceled>>

Bucket(r) == buckets[req[r].key][held[r]]
Expired(r) == req[r].deadline # NULL /\ req[r].deadline <= now

\* Mutant: only a client that went away ends the wait.
GiveUpOnCancel(r) == r \in canceled /\ pc' = [pc EXCEPT ![r] = "canceled"]

\* The middlewares tell a client that went away from any other error.
GiveUp(r) ==
    \/ r \in canceled /\ pc' = [pc EXCEPT ![r] = "canceled"]
    \/ r \notin canceled /\ Expired(r) /\ pc' = [pc EXCEPT ![r] = "limited"]

\* Limiter.Wait up to its select: the context is over, the reservation would
\* be too late, or it is made and lets the request go on at once or later.
Reserve(r) ==
    LET b == Bucket(r)
    IN  /\ pc[r] = "got"
        /\ \/ /\ GiveUp(r)
              /\ UNCHANGED <<buckets, slot>>
           \/ /\ r \notin canceled /\ ~Expired(r)
              /\ ~Fits(b, req[r].deadline)
              /\ pc' = [pc EXCEPT ![r] = "limited"]
              /\ UNCHANGED <<buckets, slot>>
           \/ /\ r \notin canceled /\ ~Expired(r)
              /\ Fits(b, req[r].deadline)
              /\ buckets' = [buckets EXCEPT ![req[r].key][held[r]] = Reserved(b)]
              /\ slot' = [slot EXCEPT ![r] = now + Delay(b)]
              /\ pc' = [pc EXCEPT ![r] = IF Delay(b) = 0 THEN "admitted" ELSE "waiting"]
        /\ UNCHANGED <<now, limiters, nextGC, req, held, since, canceled>>

\* The timer fires: the request goes on to the handler.
Proceed(r) ==
    /\ pc[r] = "waiting"
    /\ slot[r] <= now
    /\ pc' = [pc EXCEPT ![r] = "admitted"]
    /\ UNCHANGED <<now, limiters, buckets, nextGC, req, held, since, slot, canceled>>

\* The context is over first: the reservation is canceled.
Abandon(r) ==
    /\ pc[r] = "waiting"
    /\ GiveUp(r)
    /\ buckets' = [buckets EXCEPT ![req[r].key][held[r]] = Released(Bucket(r), slot[r])]
    /\ UNCHANGED <<now, limiters, nextGC, req, held, since, slot, canceled>>

\* The client goes away.
Cancel(r) ==
    /\ pc[r] \in {"got", "waiting"}
    /\ r \notin canceled
    /\ canceled' = canceled \cup {r}
    /\ UNCHANGED <<now, limiters, buckets, nextGC, pc, req, held, since, slot>>

-----------------------------------------------------------------------------
(* The garbage collector and the clock *)

\* Mutant: every round removes the entries that were seen before it.
StaleAtOnce(k, fired) == fired > limiters[k].seen

\* Mutant: the times are subtracted the wrong way round.
StaleNever(k, fired) == limiters[k].seen - fired > TTL

\* An entry nobody asked for during the TTL before the ticker fired.
Stale(k, fired) == fired - limiters[k].seen > TTL

\* One round of startGC, under the mutex.  It may run late: it then works with
\* the time the ticker fired, and the ticker drops the ticks it missed.
GC ==
    /\ nextGC <= now
    /\ limiters' = [k \in Keys |->
          IF limiters[k] # NULL /\ Stale(k, nextGC) THEN NULL ELSE limiters[k]]
    /\ nextGC' = GCInterval * (now \div GCInterval + 1)
    /\ UNCHANGED <<now, buckets, pc, req, held, since, slot, canceled>>

\* A goroutine that can go on does so within MaxStall ticks.
Tick ==
    /\ now < MaxTime
    /\ \A r \in Requests :
          /\ pc[r] = "got" => now - since[r] < MaxStall
          /\ pc[r] = "waiting" => now - slot[r] < MaxStall
    /\ now' = now + 1
    /\ UNCHANGED <<limiters, buckets, nextGC, pc, req, held, since, slot, canceled>>

-----------------------------------------------------------------------------
(* Specification *)

Init ==
    /\ now = 0
    /\ limiters = [k \in Keys |-> NULL]
    /\ buckets = [k \in Keys |-> <<>>]
    /\ nextGC = GCInterval
    /\ pc = [r \in Requests |-> "idle"]
    /\ req = [r \in Requests |-> NULL]
    /\ held = [r \in Requests |-> 0]
    /\ since = [r \in Requests |-> 0]
    /\ slot = [r \in Requests |-> 0]
    /\ canceled = {}

\* Request r takes a step of Wait.
WaitStep(r) == Reserve(r) \/ Proceed(r) \/ Abandon(r)

Next ==
    \/ \E r \in Requests, q \in CallInputs : GetLimiter(r, q)
    \/ \E r \in Requests : WaitStep(r) \/ Cancel(r)
    \/ GC
    \/ Tick

Spec == Init /\ [][Next]_vars

-----------------------------------------------------------------------------
(* Properties *)

BucketType == [level : Int, last : Nat, lastEvent : Nat]
Entry == [gen : Nat \ {0}, seen : Nat]
Pending == [api : {"rest", "connect"}, key : Keys, device : Devices \cup {NoDevice},
            deadline : Nat \cup {NULL}]
Outcomes == {"admitted", "canceled", "limited"}

\* Type invariant; a bucket that is referred to exists.
TypeOK ==
    /\ now \in Nat
    /\ limiters \in [Keys -> Entry \cup {NULL}]
    /\ buckets \in [Keys -> Seq(BucketType)]
    /\ nextGC \in Nat
    /\ pc \in [Requests -> {"idle", "got", "waiting"} \cup Outcomes]
    /\ req \in [Requests -> Pending \cup {NULL}]
    /\ held \in [Requests -> Nat]
    /\ since \in [Requests -> Nat]
    /\ slot \in [Requests -> Nat]
    /\ canceled \in SUBSET Requests
    /\ \A k \in Keys : limiters[k] # NULL => limiters[k].gen <= Len(buckets[k])
    /\ \A r \in Requests : pc[r] # "idle" => held[r] \in 1..Len(buckets[req[r].key])

\* The requests of device d that were let through, or will be.
Granted(d) ==
    {r \in Requests : pc[r] \in {"waiting", "admitted"} /\ req[r].device = d}

Between(S, from, to) == {r \in S : from <= slot[r] /\ slot[r] <= to}

\* In any stretch of time, over both APIs and across the removal of idle
\* entries, a device gets no more than the burst and what is refilled in that
\* time.
RateBound ==
    \A d \in Devices : \A a, b \in Granted(d) :
        slot[a] <= slot[b] =>
            Cardinality(Between(Granted(d), slot[a], slot[b])) * Interval
                <= Capacity + (slot[b] - slot[a])

\* A request that waits shares its bucket with the requests that come after
\* it: the keys that are collected are inactive.
WaitersKeepTheirBucket ==
    \A r \in Requests : pc[r] = "waiting" /\ slot[r] > now =>
        /\ limiters[req[r].key] # NULL
        /\ limiters[req[r].key].gen = held[r]

\* A device makes at most Tokens requests in any Tokens * Interval ticks.
TokensPerInterval ==
    \A d \in Devices : \A a \in Granted(d) :
        Cardinality(Between(Granted(d), slot[a], slot[a] + Tokens * Interval - 1))
            <= Tokens

=============================================================================
