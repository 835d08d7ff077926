------------------------- MODULE RateLimiterProofs -------------------------
(***************************************************************************)
(* Proofs that the rate limiter bounds the rate for every number of        *)
(* requests, devices and tokens, every interval and every schedule, and    *)
(* that the garbage collector does not get in its way.                     *)
(*                                                                         *)
(* What a bucket has given away is measured by the moment at which it is   *)
(* empty, ZeroAt: a reservation moves it by an interval, or further when   *)
(* the bucket was full, and nothing but a canceled reservation moves it    *)
(* back.  An inductive bound on the requests let through needs this        *)
(* moment, the order of the reservations that are ahead, which decides     *)
(* what a cancellation gives back, and that a bucket which is removed from *)
(* the map has become full, so that a new one changes nothing.             *)
(*                                                                         *)
(* The last point is where the TTL comes in.  The collector may not remove *)
(* a bucket that is not full yet, and nothing in the code keeps it from    *)
(* doing so: the TTL is five minutes, whatever the limit and the queue.    *)
(* The theorems therefore hold as long as the TTL is at least the time     *)
(* that a bucket takes to refill, plus the longest that a request waits.   *)
(***************************************************************************)
EXTENDS RateLimiter, FiniteSetTheorems, SequenceTheorems, TLAPS

\* The moment at which bucket b is empty.
ZeroAt(b) == b.last - b.level

\* The bucket of key k that was made last.
Current(k) == buckets[k][Len(buckets[k])]

\* No bucket is short of more than so many ticks.
DrawnAtMost(draw) ==
    \A k \in Keys : \A i \in 1..Len(buckets[k]) : buckets[k][i].level >= Capacity - draw

\* No request is to wait for more than w ticks.
WaitsAtMost(w) == \A r \in Requests : pc[r] = "waiting" => slot[r] - now <= w

\* The requests that key k let through, or will.
GrantedBy(k) == {r \in Requests : pc[r] \in {"waiting", "admitted"} /\ req[r].key = k}
\* Those of S that go on at that time or later.
From(S, time) == {r \in S : time <= slot[r]}

\* The reservation of r is still ahead.
Ahead(r) == pc[r] = "waiting" /\ now <= slot[r]

\* The bucket of r is the one in the map.
OnCurrent(r) ==
    /\ limiters[req[r].key] # NULL
    /\ limiters[req[r].key].gen = held[r]
    /\ limiters[req[r].key].seen >= since[r]

\* The map has the bucket that was made last.
MapInv(k) ==
    /\ limiters[k] # NULL =>
          limiters[k].gen = Len(buckets[k]) /\ limiters[k].gen >= 1 /\ limiters[k].seen <= now
    /\ \A i \in 1..Len(buckets[k]) :
          buckets[k][i].last <= now /\ buckets[k][i].level <= Capacity

\* What was asked for.
RequestInv(r) ==
    /\ pc[r] # "idle" => /\ req[r] \in Pending
                         /\ req[r].device \in Devices => req[r].key = req[r].device
    /\ since[r] <= now
    /\ pc[r] = "got" => now - since[r] <= MaxStall
    /\ pc[r] = "admitted" => slot[r] <= now

\* The entry of a request is collected when its TTL is over, and not before.
KeepInv(r) == pc[r] \in {"got", "waiting"} /\ now - since[r] <= TTL => OnCurrent(r)

\* How far ahead a reservation may be, and when a bucket in the map is empty.
DrawInv(draw) ==
    /\ \A r \in Requests :
          pc[r] = "waiting" => slot[r] - since[r] <= MaxStall + draw - Capacity
    /\ \A k \in Keys : limiters[k] # NULL =>
          ZeroAt(Current(k)) <= limiters[k].seen + MaxStall + draw - Capacity

\* A bucket that was removed from the map has become full.
FullInv ==
    \A k \in Keys :
        limiters[k] = NULL /\ Len(buckets[k]) # 0 => ZeroAt(Current(k)) + Capacity <= now

\* Reservations that are ahead are an interval apart, the last of them when
\* the bucket is empty.
AheadInv ==
    /\ \A r \in Requests : Ahead(r) =>
          /\ Bucket(r).lastEvent = ZeroAt(Bucket(r))
          /\ \E n \in Nat : ZeroAt(Bucket(r)) = slot[r] + n * Interval
    /\ \A r, s \in Requests :
          r # s /\ Ahead(r) /\ Ahead(s) /\ req[r].key = req[s].key => slot[r] # slot[s]

\* What was let through since then is what the bucket has given away.
GivenInv ==
    \A k \in Keys : \A a \in GrantedBy(k) :
        Cardinality(From(GrantedBy(k), slot[a])) * Interval
            <= Capacity + ZeroAt(Current(k)) - slot[a]

\* RateBound, for keys.
KeyBound ==
    \A k \in Keys : \A a, b \in GrantedBy(k) :
        slot[a] <= slot[b] =>
            Cardinality(Between(GrantedBy(k), slot[a], slot[b])) * Interval
                <= Capacity + (slot[b] - slot[a])

\* Inductive with the type invariant, whatever the TTL is.
MapOK == /\ TypeOK
         /\ \A k \in Keys : MapInv(k)
         /\ \A r \in Requests : RequestInv(r) /\ KeepInv(r)

\* Inductive while no bucket is short of more than draw ticks.
Inv(draw) == MapOK /\ DrawInv(draw) /\ FullInv /\ AheadInv /\ GivenInv /\ KeyBound

-----------------------------------------------------------------------------
(* Lemmas about numbers and buckets *)

\* A bucket holds at least one token.
LEMMA Sizes ==
    /\ Interval \in Nat /\ Interval >= 1 /\ Capacity \in Nat /\ Capacity >= Interval
<1>1. Burst \in Nat /\ Burst >= 1 /\ Interval \in Nat /\ Interval >= 1
    BY RateAssumption DEF Burst
<1>2. \A x, y \in Nat : x >= 1 => x * y \in Nat /\ x * y >= y
    OBVIOUS
<1>. QED
    BY <1>1, <1>2 DEF Capacity

\* Adding or taking away one interval.
LEMMA Multiples ==
    ASSUME NEW n \in Nat
    PROVE  /\ n * Interval \in Nat
           /\ (n + 1) * Interval = n * Interval + Interval
           /\ n >= 1 => n * Interval >= Interval /\ (n - 1) * Interval = n * Interval - Interval
BY Sizes

\* More tokens take longer.
LEMMA MoreMultiples ==
    ASSUME NEW m \in Nat, NEW n \in Nat, m <= n
    PROVE  m * Interval <= n * Interval
BY Sizes

\* A bucket at this moment: filled up since, but not beyond its capacity.
LEMMA Advances ==
    ASSUME now \in Nat, NEW b \in BucketType
    PROVE  /\ Advance(b) \in Int /\ Advance(b) <= Capacity
           /\ Advance(b) <= now - ZeroAt(b)
           /\ now - ZeroAt(b) <= Capacity => Advance(b) = now - ZeroAt(b)
           /\ now - ZeroAt(b) > Capacity => Advance(b) = Capacity
           /\ b.last <= now /\ b.level <= Capacity => Advance(b) >= b.level
BY Sizes DEF BucketType, Advance, ZeroAt

\* A reservation moves the moment at which the bucket is empty by an interval,
\* or further if the bucket was full.
LEMMA Reserves ==
    ASSUME now \in Nat, NEW b \in BucketType
    PROVE  /\ Reserved(b) \in BucketType /\ Delay(b) \in Nat
           /\ Reserved(b).last = now /\ Reserved(b).level = Advance(b) - Interval
           /\ Reserved(b).lastEvent = now + Delay(b)
           /\ ZeroAt(Reserved(b)) = now - Advance(b) + Interval
           /\ ZeroAt(Reserved(b)) >= ZeroAt(b) + Interval
           /\ now + Delay(b) >= ZeroAt(Reserved(b))
           /\ Delay(b) # 0 => now + Delay(b) = ZeroAt(Reserved(b)) /\ Advance(b) < Interval
           /\ Delay(b) = 0 => Advance(b) >= Interval
<1>1. Advance(b) \in Int /\ Advance(b) <= now - ZeroAt(b)
    BY Advances
<1>2. Delay(b) \in Nat /\ Taken(b) \in Int
    BY <1>1, Sizes DEF Delay, Taken
<1>3. /\ Reserved(b).last = now /\ Reserved(b).level = Advance(b) - Interval
      /\ Reserved(b).lastEvent = now + Delay(b)
    BY DEF Reserved, Taken
<1>4. Reserved(b) \in BucketType
    BY <1>2 DEF Reserved, BucketType
<1>. QED
    BY <1>1, <1>2, <1>3, <1>4, Sizes DEF ZeroAt, BucketType, Delay, Taken

\* A canceled reservation: the bucket is left as it is, or gets back up to an
\* interval.
LEMMA Releases ==
    ASSUME now \in Nat, NEW b \in BucketType, NEW act \in Nat
    PROVE  /\ Released(b, act) \in BucketType
           /\ act < now \/ GivenBack(b, act) <= 0 => Released(b, act) = b
           /\ act >= now /\ GivenBack(b, act) > 0 =>
                 /\ Released(b, act).last = now
                 /\ Released(b, act).level \in Int /\ Released(b, act).level <= Capacity
                 /\ b.last <= now /\ b.level <= Capacity => Released(b, act).level >= b.level
                 /\ Advance(b) + GivenBack(b, act) <= Capacity =>
                       Released(b, act).level = Advance(b) + GivenBack(b, act)
                 /\ act = b.lastEvent /\ act - Interval >= now =>
                       Released(b, act).lastEvent = act - Interval
<1>1. /\ Advance(b) \in Int /\ Advance(b) <= Capacity
      /\ b.last <= now /\ b.level <= Capacity => Advance(b) >= b.level
    BY Advances
<1>2. GivenBack(b, act) \in Int /\ b.lastEvent \in Nat /\ b.level \in Int
    BY Sizes DEF GivenBack, BucketType
<1>. DEFINE level == Advance(b) + GivenBack(b, act)
<1>3. CASE act < now \/ GivenBack(b, act) <= 0
  <2>1. Released(b, act) = b
      BY <1>3 DEF Released
  <2>. QED
      BY <1>2, <1>3, <2>1
<1>4. CASE ~(act < now \/ GivenBack(b, act) <= 0)
  <2>1. Released(b, act) =
           [level     |-> IF level > Capacity THEN Capacity ELSE level,
            last      |-> now,
            lastEvent |-> IF act = b.lastEvent /\ act - Interval >= now
                          THEN act - Interval ELSE b.lastEvent]
      BY <1>4 DEF Released
  <2>2. level \in Int
      BY <1>1, <1>2
  <2>3. (IF level > Capacity THEN Capacity ELSE level) \in Int
      BY <2>2, Sizes
  <2>4. (IF act = b.lastEvent /\ act - Interval >= now
         THEN act - Interval ELSE b.lastEvent) \in Nat
      BY <1>2, Sizes
  <2>5. Released(b, act) \in BucketType
      BY <2>1, <2>3, <2>4 DEF BucketType
  <2>. QED
      BY <1>1, <1>2, <1>4, <2>1, <2>2, <2>5, Sizes
<1>. QED
    BY <1>3, <1>4

\* The bucket of one request is replaced.
LEMMA Rewritten ==
    ASSUME TypeOK, NEW r \in Requests, NEW b \in BucketType,
           req[r].key \in Keys, held[r] \in 1..Len(buckets[req[r].key]),
           buckets' = [buckets EXCEPT ![req[r].key][held[r]] = b]
    PROVE  /\ buckets' \in [Keys -> Seq(BucketType)]
           /\ \A l \in Keys : Len(buckets'[l]) = Len(buckets[l])
           /\ buckets'[req[r].key][held[r]] = b
           /\ \A l \in Keys : \A j \in 1..Len(buckets[l]) :
                 l # req[r].key \/ j # held[r] => buckets'[l][j] = buckets[l][j]
<1>. DEFINE k == req[r].key
            i == held[r]
<1>1. buckets[k] \in Seq(BucketType) /\ buckets' = [buckets EXCEPT ![k] = [buckets[k] EXCEPT ![i] = b]]
    BY DEF TypeOK
<1>2. DOMAIN buckets[k] = 1..Len(buckets[k])
    BY <1>1, LenProperties
<1>3. /\ [buckets[k] EXCEPT ![i] = b] \in Seq(BucketType)
      /\ Len([buckets[k] EXCEPT ![i] = b]) = Len(buckets[k])
    BY <1>1, <1>2, ExceptSeq
<1>. QED
    BY <1>1, <1>2, <1>3 DEF TypeOK

\* A bucket is added to those of one key.
LEMMA Appended ==
    ASSUME TypeOK, NEW k \in Keys, NEW b \in BucketType,
           buckets' = [buckets EXCEPT ![k] = Append(@, b)]
    PROVE  /\ buckets' \in [Keys -> Seq(BucketType)]
           /\ Len(buckets[k]) \in Nat
           /\ Len(buckets'[k]) = Len(buckets[k]) + 1
           /\ buckets'[k][Len(buckets[k]) + 1] = b
           /\ \A j \in 1..Len(buckets[k]) : buckets'[k][j] = buckets[k][j]
           /\ \A l \in Keys : l # k => buckets'[l] = buckets[l]
<1>1. buckets[k] \in Seq(BucketType) /\ buckets' = [buckets EXCEPT ![k] = Append(buckets[k], b)]
    BY DEF TypeOK
<1>2. /\ Append(buckets[k], b) \in Seq(BucketType) /\ Len(buckets[k]) \in Nat
      /\ Len(Append(buckets[k], b)) = Len(buckets[k]) + 1
      /\ Append(buckets[k], b)[Len(buckets[k]) + 1] = b
      /\ \A j \in 1..Len(buckets[k]) : Append(buckets[k], b)[j] = buckets[k][j]
    BY <1>1, AppendProperties, LenProperties
<1>. QED
    BY <1>1, <1>2 DEF TypeOK

\* The key and the request that come out of a call.
LEMMA CallFacts ==
    ASSUME now \in Nat, NEW q \in CallInputs
    PROVE  /\ KeyOf(q) \in Keys /\ Request(q).key = KeyOf(q)
           /\ Request(q) \in Pending
           /\ Request(q).device \in Devices => KeyOf(q) = Request(q).device
<1>1. /\ q.api \in {"rest", "connect"} /\ q.device \in Devices \cup {NoDevice}
      /\ q.peer \in Peers /\ q.timeout \in Nat \cup {NULL}
    BY RateAssumption DEF Calls
<1>2. KeyOf(q) \in Keys
    BY <1>1 DEF KeyOf, Keys
<1>3. (IF q.timeout = NULL THEN NULL ELSE now + q.timeout) \in Nat \cup {NULL}
    BY <1>1
<1>4. Request(q) \in Pending
    BY <1>1, <1>2, <1>3 DEF Request, Pending
<1>5. q.device \in Devices => KeyOf(q) = q.device
    BY RateAssumption DEF KeyOf
<1>. QED
    BY <1>2, <1>4, <1>5 DEF Request

-----------------------------------------------------------------------------
(* The map and the types *)

\* The parts of MapOK that a request has.
LEMMA MapOKParts ==
    ASSUME MapOK, NEW r \in Requests, pc[r] # "idle"
    PROVE  /\ req[r] \in Pending /\ req[r].key \in Keys
           /\ held[r] \in 1..Len(buckets[req[r].key])
           /\ Bucket(r) \in BucketType /\ Bucket(r).last <= now /\ Bucket(r).level <= Capacity
           /\ now \in Nat /\ slot[r] \in Nat /\ since[r] \in Nat
<1>1. req[r] \in Pending /\ req[r].key \in Keys
    BY DEF MapOK, RequestInv, Pending
<1>2. held[r] \in 1..Len(buckets[req[r].key])
    BY DEF MapOK, TypeOK
<1>3. buckets[req[r].key] \in Seq(BucketType)
    BY <1>1 DEF MapOK, TypeOK
<1>4. Bucket(r) \in BucketType
    BY <1>2, <1>3, ElementOfSeq DEF Bucket
<1>. QED
    BY <1>1, <1>2, <1>4 DEF MapOK, TypeOK, MapInv, Bucket

\* getLimiter looks a bucket up or makes it.
LEMMA GetLimiterMap ==
    ASSUME MapOK, NEW r \in Requests, NEW q \in CallInputs, GetLimiter(r, q)
    PROVE  MapOK'
<1>. DEFINE k == KeyOf(q)
<1>1. /\ pc[r] = "idle" /\ req' = [req EXCEPT ![r] = Request(q)]
      /\ held' = [held EXCEPT ![r] = limiters'[k].gen]
      /\ since' = [since EXCEPT ![r] = now]
      /\ pc' = [pc EXCEPT ![r] = "got"]
      /\ UNCHANGED <<now, nextGC, slot, canceled>>
    BY DEF GetLimiter
<1>2. now \in Nat /\ TypeOK
    BY DEF MapOK, TypeOK
<1>3. /\ k \in Keys /\ Request(q).key = k /\ Request(q) \in Pending
      /\ Request(q).device \in Devices => k = Request(q).device
    BY <1>2, CallFacts
<1>4. /\ buckets' \in [Keys -> Seq(BucketType)]
      /\ limiters' \in [Keys -> Entry \cup {NULL}]
      /\ limiters'[k] # NULL /\ limiters'[k] \in Entry /\ limiters'[k].seen = now
      /\ limiters'[k].gen = Len(buckets'[k])
      /\ \A l \in Keys : l # k => limiters'[l] = limiters[l] /\ buckets'[l] = buckets[l]
      /\ \A j \in 1..Len(buckets[k]) : buckets'[k][j] = buckets[k][j]
      /\ \/ Len(buckets'[k]) = Len(buckets[k]) /\ limiters[k] # NULL
         \/ /\ Len(buckets'[k]) = Len(buckets[k]) + 1 /\ limiters[k] = NULL
            /\ buckets'[k][Len(buckets[k]) + 1] = FullBucket
      /\ Len(buckets[k]) \in Nat
  <2>1. buckets[k] \in Seq(BucketType) /\ Len(buckets[k]) \in Nat
      BY <1>2, <1>3, LenProperties DEF TypeOK
  <2>2. CASE limiters[k] # NULL /\ limiters' = Seen(k) /\ UNCHANGED buckets
    <3>1. limiters[k] \in Entry /\ limiters[k].gen = Len(buckets[k])
        BY <1>3, <2>2 DEF MapOK, TypeOK, MapInv
    <3>2. limiters' = [limiters EXCEPT ![k] = [gen |-> Len(buckets[k]), seen |-> now]]
      <4>1. [limiters[k] EXCEPT !.seen = now] = [gen |-> Len(buckets[k]), seen |-> now]
          BY <3>1 DEF Entry
      <4>2. limiters' = [limiters EXCEPT ![k] = [limiters[k] EXCEPT !.seen = now]]
          BY <2>2 DEF Seen
      <4>. QED
          BY <4>1, <4>2
    <3>3. [gen |-> Len(buckets[k]), seen |-> now] \in Entry
        BY <1>2, <2>1, <3>1 DEF Entry
    <3>4. [gen |-> Len(buckets[k]), seen |-> now] # NULL
        BY <1>2, <2>1, RateAssumption
    <3>. QED
        BY <1>2, <1>3, <2>1, <2>2, <3>2, <3>3, <3>4 DEF TypeOK
  <2>3. CASE /\ limiters[k] = NULL
             /\ buckets' = [buckets EXCEPT ![k] = Append(@, FullBucket)]
             /\ limiters' = [limiters EXCEPT ![k] = [gen |-> Len(buckets[k]) + 1, seen |-> now]]
    <3>1. FullBucket \in BucketType
        BY <1>2, Sizes DEF FullBucket, BucketType
    <3>2. /\ buckets' \in [Keys -> Seq(BucketType)]
          /\ Len(buckets'[k]) = Len(buckets[k]) + 1
          /\ buckets'[k][Len(buckets[k]) + 1] = FullBucket
          /\ \A j \in 1..Len(buckets[k]) : buckets'[k][j] = buckets[k][j]
          /\ \A l \in Keys : l # k => buckets'[l] = buckets[l]
        BY <1>2, <1>3, <2>3, <3>1, Appended
    <3>3. [gen |-> Len(buckets[k]) + 1, seen |-> now] \in Entry
        BY <1>2, <2>1 DEF Entry
    <3>4. [gen |-> Len(buckets[k]) + 1, seen |-> now] # NULL
        BY <1>2, <2>1, RateAssumption
    <3>. QED
        BY <1>2, <1>3, <2>1, <2>3, <3>2, <3>3, <3>4 DEF TypeOK
  <2>. QED
      BY <2>2, <2>3 DEF GetLimiter
<1>5. \A l \in Keys : Len(buckets'[l]) \in Nat /\ Len(buckets[l]) \in Nat /\ Len(buckets'[l]) >= Len(buckets[l])
  <2>1. \A l \in Keys : Len(buckets[l]) \in Nat
      BY <1>2, LenProperties DEF TypeOK
  <2>. QED
      BY <1>4, <2>1
<1>6. TypeOK'
  <2>1. held' \in [Requests -> Nat]
      BY <1>1, <1>3, <1>4, <1>5 DEF MapOK, TypeOK
  <2>2. /\ req' \in [Requests -> Pending \cup {NULL}]
        /\ since' \in [Requests -> Nat]
        /\ pc' \in [Requests -> {"idle", "got", "waiting"} \cup Outcomes]
      BY <1>1, <1>3 DEF MapOK, TypeOK
  <2>3. ASSUME NEW l \in Keys, limiters'[l] # NULL PROVE limiters'[l].gen <= Len(buckets'[l])
    <3>1. CASE l = k
        BY <1>4, <1>5, <3>1
    <3>2. CASE l # k
        BY <1>4, <2>3, <3>2 DEF MapOK, TypeOK
    <3>. QED
        BY <3>1, <3>2
  <2>4. ASSUME NEW s \in Requests, pc'[s] # "idle"
        PROVE  held'[s] \in 1..Len(buckets'[req'[s].key])
    <3>1. CASE s = r
      <4>1. limiters'[k].gen \in Nat /\ limiters'[k].gen >= 1
          BY <1>4 DEF Entry
      <4>2. held'[s] = limiters'[k].gen /\ req'[s].key = k
          BY <1>1, <1>3, <3>1 DEF MapOK, TypeOK
      <4>. QED
          BY <1>3, <1>4, <1>5, <4>1, <4>2
    <3>2. CASE s # r
      <4>1. pc[s] # "idle" /\ held'[s] = held[s] /\ req'[s] = req[s]
          BY <1>1, <2>4, <3>2 DEF MapOK, TypeOK
      <4>2. held[s] \in 1..Len(buckets[req[s].key]) /\ req[s].key \in Keys
          BY <4>1, MapOKParts
      <4>. QED
          BY <1>5, <4>1, <4>2
    <3>. QED
        BY <3>1, <3>2
  <2>. QED
      BY <1>1, <1>2, <1>4, <2>1, <2>2, <2>3, <2>4 DEF TypeOK
<1>7. ASSUME NEW l \in Keys PROVE MapInv(l)'
  <2>1. limiters'[l] # NULL =>
           /\ limiters'[l].gen = Len(buckets'[l]) /\ limiters'[l].gen >= 1
           /\ limiters'[l].seen <= now'
    <3>1. CASE l = k
        BY <1>1, <1>2, <1>4, <3>1 DEF Entry
    <3>2. CASE l # k
        BY <1>1, <1>4, <3>2 DEF MapOK, MapInv
    <3>. QED
        BY <3>1, <3>2
  <2>2. ASSUME NEW i \in 1..Len(buckets'[l])
        PROVE  buckets'[l][i].last <= now' /\ buckets'[l][i].level <= Capacity
    <3>1. CASE l = k /\ i \notin 1..Len(buckets[k])
      <4>1. buckets'[l][i] = FullBucket
          BY <1>4, <3>1, <2>2
      <4>. QED
          BY <1>1, <1>2, <4>1, Sizes DEF FullBucket
    <3>2. CASE l # k \/ i \in 1..Len(buckets[k])
        BY <1>1, <1>3, <1>4, <3>2 DEF MapOK, MapInv
    <3>. QED
        BY <3>1, <3>2
  <2>. QED
      BY <2>1, <2>2 DEF MapInv
<1>8. ASSUME NEW s \in Requests PROVE RequestInv(s)' /\ KeepInv(s)'
  <2>1. CASE s = r
    <3>1. /\ pc'[s] = "got" /\ req'[s] = Request(q) /\ since'[s] = now
          /\ held'[s] = limiters'[k].gen
        BY <1>1, <2>1 DEF MapOK, TypeOK
    <3>2. RequestInv(s)'
        BY <1>1, <1>2, <1>3, <3>1, RateAssumption DEF RequestInv
    <3>3. OnCurrent(s)'
        BY <1>2, <1>3, <1>4, <3>1 DEF OnCurrent
    <3>. QED
        BY <3>2, <3>3 DEF KeepInv
  <2>2. CASE s # r
    <3>1. /\ pc'[s] = pc[s] /\ req'[s] = req[s] /\ since'[s] = since[s]
          /\ held'[s] = held[s] /\ slot'[s] = slot[s] /\ now' = now
        BY <1>1, <2>2 DEF MapOK, TypeOK
    <3>2. RequestInv(s)'
        BY <3>1 DEF MapOK, RequestInv
    <3>3. ASSUME pc[s] \in {"got", "waiting"}, now - since[s] <= TTL PROVE OnCurrent(s)'
      <4>1. OnCurrent(s) /\ req[s].key \in Keys /\ since[s] \in Nat /\ since[s] <= now
          BY <3>3, MapOKParts DEF MapOK, KeepInv, RequestInv
      <4>2. CASE req[s].key # k
          BY <1>4, <3>1, <4>1, <4>2 DEF OnCurrent
      <4>3. CASE req[s].key = k
        <5>1. limiters[k] # NULL /\ limiters[k].gen = Len(buckets[k])
            BY <1>3, <4>1, <4>3 DEF OnCurrent, MapOK, MapInv
        <5>. QED
            BY <1>2, <1>4, <3>1, <4>1, <4>3, <5>1 DEF OnCurrent
      <4>. QED
          BY <4>2, <4>3
    <3>. QED
        BY <3>1, <3>2, <3>3 DEF KeepInv
  <2>. QED
      BY <2>1, <2>2
<1>. QED
    BY <1>6, <1>7, <1>8 DEF MapOK


\* The outcomes of a step of Wait.  The request gives up before it reserves.
GivesUp(r) ==
    /\ pc[r] = "got" /\ pc'[r] \in {"canceled", "limited"}
    /\ UNCHANGED <<buckets, slot>>

\* It reserves, and goes on at once or waits.
MakesReservation(r) ==
    /\ pc[r] = "got"
    /\ buckets'[req[r].key][held[r]] = Reserved(Bucket(r))
    /\ slot'[r] = now + Delay(Bucket(r))
    /\ Delay(Bucket(r)) = 0 => pc'[r] = "admitted"
    /\ Delay(Bucket(r)) # 0 => pc'[r] = "waiting"

\* Its time has come.
GoesOn(r) ==
    /\ pc[r] = "waiting" /\ pc'[r] = "admitted" /\ slot[r] <= now
    /\ UNCHANGED <<buckets, slot>>

\* It stops waiting.
GivesReservationBack(r) ==
    /\ pc[r] = "waiting" /\ pc'[r] \in {"canceled", "limited"}
    /\ buckets'[req[r].key][held[r]] = Released(Bucket(r), slot[r])
    /\ UNCHANGED slot

\* What a step of Wait does, and leaves alone.
LEMMA WaitFacts ==
    ASSUME MapOK, NEW r \in Requests, WaitStep(r)
    PROVE  /\ GivesUp(r) \/ MakesReservation(r) \/ GoesOn(r) \/ GivesReservationBack(r)
           /\ UNCHANGED <<now, limiters, nextGC, req, held, since, canceled>>
           /\ pc' \in [Requests -> {"idle", "got", "waiting"} \cup Outcomes]
           /\ slot' \in [Requests -> Nat]
           /\ buckets' \in [Keys -> Seq(BucketType)]
           /\ \A s \in Requests : s # r => pc'[s] = pc[s] /\ slot'[s] = slot[s]
           /\ \A l \in Keys : Len(buckets'[l]) = Len(buckets[l])
           /\ \A l \in Keys : \A j \in 1..Len(buckets[l]) :
                 l # req[r].key \/ j # held[r] => buckets'[l][j] = buckets[l][j]
<1>1. pc[r] \in {"got", "waiting"} /\ UNCHANGED <<now, limiters, nextGC, req, held, since, canceled>>
    BY DEF WaitStep, Reserve, Proceed, Abandon
<1>2. /\ req[r].key \in Keys /\ held[r] \in 1..Len(buckets[req[r].key])
      /\ Bucket(r) \in BucketType /\ now \in Nat /\ slot[r] \in Nat /\ TypeOK
    BY <1>1, MapOKParts DEF MapOK
<1>3. CASE Reserve(r)
  <2>1. CASE GiveUp(r) /\ UNCHANGED <<buckets, slot>>
      BY <1>1, <1>2, <1>3, <2>1 DEF Reserve, GiveUp, GivesUp, TypeOK, Outcomes
  <2>2. CASE pc' = [pc EXCEPT ![r] = "limited"] /\ UNCHANGED <<buckets, slot>>
      BY <1>1, <1>2, <1>3, <2>2 DEF Reserve, GivesUp, TypeOK, Outcomes
  <2>3. CASE /\ buckets' = [buckets EXCEPT ![req[r].key][held[r]] = Reserved(Bucket(r))]
             /\ slot' = [slot EXCEPT ![r] = now + Delay(Bucket(r))]
             /\ pc' = [pc EXCEPT ![r] = IF Delay(Bucket(r)) = 0 THEN "admitted" ELSE "waiting"]
    <3>1. Reserved(Bucket(r)) \in BucketType /\ Delay(Bucket(r)) \in Nat
        BY <1>2, Reserves
    <3>2. /\ buckets' \in [Keys -> Seq(BucketType)]
          /\ \A l \in Keys : Len(buckets'[l]) = Len(buckets[l])
          /\ buckets'[req[r].key][held[r]] = Reserved(Bucket(r))
          /\ \A l \in Keys : \A j \in 1..Len(buckets[l]) :
                l # req[r].key \/ j # held[r] => buckets'[l][j] = buckets[l][j]
        BY <1>2, <2>3, <3>1, Rewritten
    <3>3. slot' \in [Requests -> Nat] /\ slot'[r] = now + Delay(Bucket(r))
        BY <1>2, <2>3, <3>1 DEF TypeOK
    <3>4. /\ pc' \in [Requests -> {"idle", "got", "waiting"} \cup Outcomes]
          /\ Delay(Bucket(r)) = 0 => pc'[r] = "admitted"
          /\ Delay(Bucket(r)) # 0 => pc'[r] = "waiting"
        BY <1>2, <2>3 DEF TypeOK, Outcomes
    <3>5. pc[r] = "got"
        BY <1>3 DEF Reserve
    <3>6. \A s \in Requests : s # r => pc'[s] = pc[s] /\ slot'[s] = slot[s]
        BY <1>2, <2>3 DEF TypeOK
    <3>. QED
        BY <1>1, <3>2, <3>3, <3>4, <3>5, <3>6 DEF MakesReservation
  <2>. QED
      BY <1>3, <2>1, <2>2, <2>3 DEF Reserve
<1>4. CASE Proceed(r)
    BY <1>1, <1>2, <1>4 DEF Proceed, GoesOn, TypeOK, Outcomes
<1>5. CASE Abandon(r)
  <2>1. /\ pc[r] = "waiting" /\ GiveUp(r) /\ UNCHANGED slot
        /\ buckets' = [buckets EXCEPT ![req[r].key][held[r]] = Released(Bucket(r), slot[r])]
      BY <1>5 DEF Abandon
  <2>2. Released(Bucket(r), slot[r]) \in BucketType
      BY <1>2, Releases
  <2>3. /\ buckets' \in [Keys -> Seq(BucketType)]
        /\ \A l \in Keys : Len(buckets'[l]) = Len(buckets[l])
        /\ buckets'[req[r].key][held[r]] = Released(Bucket(r), slot[r])
        /\ \A l \in Keys : \A j \in 1..Len(buckets[l]) :
              l # req[r].key \/ j # held[r] => buckets'[l][j] = buckets[l][j]
      BY <1>2, <2>1, <2>2, Rewritten
  <2>4. /\ pc' \in [Requests -> {"idle", "got", "waiting"} \cup Outcomes]
        /\ pc'[r] \in {"canceled", "limited"}
        /\ \A s \in Requests : s # r => pc'[s] = pc[s]
      BY <1>2, <2>1 DEF TypeOK, GiveUp, Outcomes
  <2>. QED
      BY <1>1, <1>2, <2>1, <2>3, <2>4 DEF GivesReservationBack, TypeOK
<1>. QED
    BY <1>3, <1>4, <1>5 DEF WaitStep

\* The steps of Wait leave the map alone.
LEMMA WaitMap == ASSUME MapOK, NEW r \in Requests, WaitStep(r) PROVE MapOK'
<1>. DEFINE k == req[r].key
<1>1. /\ GivesUp(r) \/ MakesReservation(r) \/ GoesOn(r) \/ GivesReservationBack(r)
      /\ UNCHANGED <<now, limiters, nextGC, req, held, since, canceled>>
      /\ pc' \in [Requests -> {"idle", "got", "waiting"} \cup Outcomes]
      /\ slot' \in [Requests -> Nat]
      /\ buckets' \in [Keys -> Seq(BucketType)]
      /\ \A s \in Requests : s # r => pc'[s] = pc[s] /\ slot'[s] = slot[s]
      /\ \A l \in Keys : Len(buckets'[l]) = Len(buckets[l])
      /\ \A l \in Keys : \A j \in 1..Len(buckets[l]) :
            l # k \/ j # held[r] => buckets'[l][j] = buckets[l][j]
    BY WaitFacts
<1>2. pc[r] \in {"got", "waiting"}
    BY <1>1 DEF GivesUp, MakesReservation, GoesOn, GivesReservationBack
<1>3. /\ req[r] \in Pending /\ k \in Keys /\ held[r] \in 1..Len(buckets[k])
      /\ Bucket(r) \in BucketType /\ Bucket(r).last <= now /\ Bucket(r).level <= Capacity
      /\ now \in Nat /\ slot[r] \in Nat /\ since[r] \in Nat
    BY <1>2, MapOKParts
<1>4. buckets'[k][held[r]].last <= now /\ buckets'[k][held[r]].level <= Capacity
  <2>1. CASE GivesUp(r) \/ GoesOn(r)
      BY <1>3, <2>1 DEF GivesUp, GoesOn, Bucket
  <2>2. CASE MakesReservation(r)
    <3>1. /\ Reserved(Bucket(r)).last = now
          /\ Reserved(Bucket(r)).level = Advance(Bucket(r)) - Interval
        BY <1>3, Reserves
    <3>2. Advance(Bucket(r)) \in Int /\ Advance(Bucket(r)) <= Capacity
        BY <1>3, Advances
    <3>. QED
        BY <1>3, <2>2, <3>1, <3>2, Sizes DEF MakesReservation
  <2>3. CASE GivesReservationBack(r)
    <3>1. GivenBack(Bucket(r), slot[r]) \in Int
        BY <1>3, Sizes DEF GivenBack, BucketType
    <3>2. \/ Released(Bucket(r), slot[r]) = Bucket(r)
          \/ /\ Released(Bucket(r), slot[r]).last = now
             /\ Released(Bucket(r), slot[r]).level <= Capacity
      <4>1. CASE slot[r] < now \/ GivenBack(Bucket(r), slot[r]) <= 0
          BY <1>3, <4>1 DEF Released
      <4>2. CASE slot[r] >= now /\ GivenBack(Bucket(r), slot[r]) > 0
          BY <1>3, <4>2, Releases
      <4>. QED
          BY <1>3, <3>1, <4>1, <4>2
    <3>. QED
        BY <1>3, <2>3, <3>2 DEF GivesReservationBack
  <2>. QED
      BY <1>1, <2>1, <2>2, <2>3
<1>5. TypeOK'
  <2>1. \A s \in Requests : pc'[s] # "idle" => pc[s] # "idle"
      BY <1>1, <1>2
  <2>2. \A s \in Requests : pc'[s] # "idle" => held'[s] \in 1..Len(buckets'[req'[s].key])
      BY <1>1, <2>1, MapOKParts
  <2>3. \A l \in Keys : limiters'[l] # NULL => limiters'[l].gen <= Len(buckets'[l])
      BY <1>1 DEF MapOK, TypeOK
  <2>. QED
      BY <1>1, <2>2, <2>3 DEF MapOK, TypeOK
<1>6. ASSUME NEW l \in Keys PROVE MapInv(l)'
  <2>1. limiters'[l] # NULL =>
           /\ limiters'[l].gen = Len(buckets'[l]) /\ limiters'[l].gen >= 1
           /\ limiters'[l].seen <= now'
      BY <1>1 DEF MapOK, MapInv
  <2>2. ASSUME NEW i \in 1..Len(buckets'[l])
        PROVE  buckets'[l][i].last <= now' /\ buckets'[l][i].level <= Capacity
    <3>1. i \in 1..Len(buckets[l]) /\ now' = now
        BY <1>1
    <3>2. CASE l = k /\ i = held[r]
        BY <1>4, <3>1, <3>2
    <3>3. CASE l # k \/ i # held[r]
      <4>1. buckets'[l][i] = buckets[l][i]
          BY <1>1, <3>1, <3>3
      <4>. QED
          BY <3>1, <4>1 DEF MapOK, MapInv
    <3>. QED
        BY <3>2, <3>3
  <2>. QED
      BY <2>1, <2>2 DEF MapInv
<1>7. ASSUME NEW s \in Requests PROVE RequestInv(s)' /\ KeepInv(s)'
  <2>1. CASE s # r
      BY <1>1, <2>1 DEF MapOK, RequestInv, KeepInv, OnCurrent
  <2>2. CASE s = r
    <3>1. RequestInv(r) /\ KeepInv(r)
        BY DEF MapOK
    <3>2. pc'[r] # "got" /\ pc'[r] # "idle"
        BY <1>1 DEF GivesUp, MakesReservation, GoesOn, GivesReservationBack
    <3>3. pc'[r] = "admitted" => slot'[r] <= now
      <4>1. Delay(Bucket(r)) \in Nat
          BY <1>3, Reserves
      <4>. QED
          BY <1>1, <1>3, <4>1 DEF GivesUp, MakesReservation, GoesOn, GivesReservationBack
    <3>4. KeepInv(r)'
        BY <1>1, <1>2, <3>1 DEF KeepInv, OnCurrent
    <3>5. RequestInv(r)'
        BY <1>1, <1>2, <3>1, <3>2, <3>3 DEF RequestInv
    <3>. QED
        BY <2>2, <3>4, <3>5
  <2>. QED
      BY <2>1, <2>2
<1>. QED
    BY <1>5, <1>6, <1>7 DEF MapOK

\* The client goes away.
LEMMA CancelMap == ASSUME MapOK, NEW r \in Requests, Cancel(r) PROVE MapOK'
<1>1. /\ canceled' = canceled \cup {r}
      /\ UNCHANGED <<now, limiters, buckets, nextGC, pc, req, held, since, slot>>
    BY DEF Cancel
<1>2. TypeOK'
    BY <1>1 DEF MapOK, TypeOK
<1>. QED
    BY <1>1, <1>2 DEF MapOK, MapInv, RequestInv, KeepInv, OnCurrent

\* A round of the collector removes an entry only when nobody has asked for it
\* during the TTL.
LEMMA GCMap == ASSUME MapOK, GC PROVE MapOK'
<1>1. /\ nextGC <= now
      /\ limiters' = [k \in Keys |->
            IF limiters[k] # NULL /\ Stale(k, nextGC) THEN NULL ELSE limiters[k]]
      /\ nextGC' = GCInterval * (now \div GCInterval + 1)
      /\ UNCHANGED <<now, buckets, pc, req, held, since, slot, canceled>>
    BY DEF GC
<1>2. now \in Nat /\ nextGC \in Nat /\ TypeOK /\ TTL \in Nat
    BY RateAssumption DEF MapOK, TypeOK
<1>3. nextGC' \in Nat
  <2>1. now \div GCInterval \in Nat
      BY <1>2, RateAssumption
  <2>2. \A x, y \in Nat : x * (y + 1) \in Nat
      OBVIOUS
  <2>. QED
      BY <1>1, <2>1, <2>2, RateAssumption
<1>4. ASSUME NEW k \in Keys
      PROVE  /\ limiters[k] # NULL => limiters[k] \in Entry
             /\ \/ limiters'[k] = limiters[k]
                \/ /\ limiters'[k] = NULL /\ limiters[k] # NULL
                   /\ nextGC - limiters[k].seen > TTL
    BY <1>1, <1>2 DEF TypeOK, Stale
<1>5. limiters' \in [Keys -> Entry \cup {NULL}]
    BY <1>1, <1>4
<1>6. TypeOK'
    BY <1>1, <1>3, <1>4, <1>5 DEF MapOK, TypeOK
<1>7. ASSUME NEW k \in Keys PROVE MapInv(k)'
    BY <1>1, <1>4 DEF MapOK, MapInv
<1>8. ASSUME NEW r \in Requests PROVE RequestInv(r)'
    BY <1>1 DEF MapOK, RequestInv
<1>9. ASSUME NEW r \in Requests, pc[r] \in {"got", "waiting"}, now - since[r] <= TTL
      PROVE  OnCurrent(r)'
  <2>1. OnCurrent(r) /\ req[r].key \in Keys /\ since[r] \in Nat
      BY <1>9, MapOKParts DEF MapOK, KeepInv
  <2>2. limiters[req[r].key] \in Entry
      BY <1>4, <2>1 DEF OnCurrent
  <2>3. ~(nextGC - limiters[req[r].key].seen > TTL)
      BY <1>1, <1>2, <1>9, <2>1, <2>2 DEF OnCurrent, Entry
  <2>4. limiters'[req[r].key] = limiters[req[r].key]
      BY <1>4, <2>1, <2>3
  <2>. QED
      BY <1>1, <2>1, <2>4 DEF OnCurrent
<1>10. ASSUME NEW r \in Requests PROVE KeepInv(r)'
    BY <1>1, <1>9 DEF KeepInv
<1>. QED
    BY <1>6, <1>7, <1>8, <1>10 DEF MapOK

\* Time passes, as far as nobody is kept waiting for too long.
LEMMA TickMap == ASSUME MapOK, Tick PROVE MapOK'
<1>1. /\ now' = now + 1
      /\ \A r \in Requests : pc[r] = "got" => now - since[r] < MaxStall
      /\ UNCHANGED <<limiters, buckets, nextGC, pc, req, held, since, slot, canceled>>
    BY DEF Tick
<1>2. now \in Nat /\ TypeOK
    BY DEF MapOK, TypeOK
<1>3. TypeOK'
    BY <1>1, <1>2 DEF TypeOK
<1>4. ASSUME NEW k \in Keys PROVE MapInv(k)'
  <2>1. limiters[k] # NULL => limiters[k].seen \in Nat
      BY <1>2 DEF TypeOK, Entry
  <2>2. \A i \in 1..Len(buckets[k]) : buckets[k][i].last \in Nat
    <3>1. buckets[k] \in Seq(BucketType)
        BY <1>2 DEF TypeOK
    <3>2. ASSUME NEW i \in 1..Len(buckets[k]) PROVE buckets[k][i] \in BucketType
        BY <3>1, ElementOfSeq
    <3>. QED
        BY <3>2 DEF BucketType
  <2>. QED
      BY <1>1, <1>2, <2>1, <2>2 DEF MapOK, MapInv
<1>5. ASSUME NEW r \in Requests PROVE RequestInv(r)' /\ KeepInv(r)'
  <2>1. since[r] \in Nat /\ slot[r] \in Nat
      BY <1>2 DEF TypeOK
  <2>. QED
      BY <1>1, <1>2, <2>1, RateAssumption DEF MapOK, RequestInv, KeepInv, OnCurrent
<1>. QED
    BY <1>3, <1>4, <1>5 DEF MapOK

\* Every step.
LEMMA MapStep == ASSUME MapOK, [Next]_vars PROVE MapOK'
<1>1. CASE UNCHANGED vars
    BY <1>1 DEF vars, MapOK, TypeOK, MapInv, RequestInv, KeepInv, OnCurrent
<1>2. CASE Next
    BY <1>2, GetLimiterMap, WaitMap, CancelMap, GCMap, TickMap DEF Next
<1>. QED
    BY <1>1, <1>2

\* Nothing was asked for yet.
LEMMA MapInit == Init => MapOK
<1>. SUFFICES ASSUME Init PROVE MapOK
    OBVIOUS
<1>1. \A k \in Keys : limiters[k] = NULL /\ buckets[k] = <<>> /\ Len(buckets[k]) = 0
    BY DEF Init
<1>2. \A r \in Requests : /\ pc[r] = "idle" /\ since[r] = 0
    BY DEF Init
<1>3. now = 0 /\ nextGC \in Nat
    BY RateAssumption DEF Init
<1>4. TypeOK
  <2>1. <<>> \in Seq(BucketType)
      BY EmptySeq
  <2>. QED
      BY <1>1, <1>2, <1>3, <2>1 DEF Init, TypeOK
<1>. QED
    BY <1>1, <1>2, <1>3, <1>4, RateAssumption DEF MapOK, MapInv, RequestInv, KeepInv

\* MapOK is an invariant, whatever the TTL is.
THEOREM MapInvariance == Spec => []MapOK
<1>1. Init => MapOK
    BY MapInit
<1>2. MapOK /\ [Next]_vars => MapOK'
    BY MapStep
<1>. QED
    BY <1>1, <1>2, PTL DEF Spec

\* Every variable keeps its type, and every bucket that the map or a request
\* refers to exists.
THEOREM TypeCorrect == Spec => []TypeOK
<1>1. MapOK => TypeOK
    BY DEF MapOK
<1>. QED
    BY <1>1, MapInvariance, PTL

-----------------------------------------------------------------------------
(* Counting requests *)

\* Fewer requests take fewer ticks.
LEMMA Counts ==
    ASSUME NEW T \in SUBSET Requests, NEW S \in SUBSET T
    PROVE  /\ Cardinality(S) * Interval \in Nat /\ Cardinality(T) * Interval \in Nat
           /\ Cardinality(S) * Interval <= Cardinality(T) * Interval
<1>1. IsFiniteSet(T)
    BY RateAssumption, FS_Subset
<1>2. IsFiniteSet(S) /\ Cardinality(S) <= Cardinality(T)
    BY <1>1, FS_Subset
<1>3. Cardinality(S) \in Nat /\ Cardinality(T) \in Nat
    BY <1>1, <1>2, FS_CardinalityType
<1>. QED
    BY <1>2, <1>3, Multiples, MoreMultiples

\* One more request takes at most an interval more.
LEMMA CountsOneMore ==
    ASSUME NEW T \in SUBSET Requests, NEW r \in Requests, NEW S \in SUBSET (T \cup {r})
    PROVE  Cardinality(S) * Interval <= Cardinality(T) * Interval + Interval
<1>1. IsFiniteSet(T) /\ Cardinality(T) \in Nat
    BY RateAssumption, FS_Subset, FS_CardinalityType
<1>2. Cardinality(T \cup {r}) = Cardinality(T) \/ Cardinality(T \cup {r}) = Cardinality(T) + 1
    BY <1>1, FS_AddElement
<1>3. Cardinality(S) * Interval <= Cardinality(T \cup {r}) * Interval /\ Cardinality(S) * Interval \in Nat
    BY Counts
<1>. QED
    BY <1>1, <1>2, <1>3, Multiples, Sizes

\* One request less takes an interval less.
LEMMA CountsOneLess ==
    ASSUME NEW T \in SUBSET Requests, NEW r \in T, NEW S \in SUBSET (T \ {r})
    PROVE  Cardinality(S) * Interval <= Cardinality(T) * Interval - Interval
<1>1. IsFiniteSet(T) /\ Cardinality(T) \in Nat
    BY RateAssumption, FS_Subset, FS_CardinalityType
<1>2. Cardinality(T \ {r}) = Cardinality(T) - 1 /\ Cardinality(T \ {r}) \in Nat
  <2>1. IsFiniteSet(T \ {r}) /\ Cardinality(T \ {r}) = Cardinality(T) - 1
      BY <1>1, FS_RemoveElement
  <2>. QED
      BY <2>1, FS_CardinalityType
<1>3. Cardinality(T) >= 1
    BY <1>1, <1>2
<1>4. Cardinality(S) * Interval <= Cardinality(T \ {r}) * Interval
    BY Counts
<1>. QED
    BY <1>1, <1>2, <1>3, <1>4, Multiples

-----------------------------------------------------------------------------
(* Where a request finds its bucket *)

\* The bucket that was made last, if there is one.
LEMMA CurrentFacts ==
    ASSUME MapOK, NEW k \in Keys, Len(buckets[k]) # 0
    PROVE  /\ Len(buckets[k]) \in Nat /\ Len(buckets[k]) >= 1
           /\ Current(k) \in BucketType /\ ZeroAt(Current(k)) \in Int
           /\ Current(k).last <= now /\ Current(k).level <= Capacity
<1>1. buckets[k] \in Seq(BucketType)
    BY DEF MapOK, TypeOK
<1>2. Len(buckets[k]) \in Nat /\ Len(buckets[k]) >= 1
    BY <1>1, LenProperties
<1>3. Current(k) \in BucketType
    BY <1>1, <1>2, ElementOfSeq DEF Current
<1>4. ZeroAt(Current(k)) \in Int
    BY <1>3 DEF BucketType, ZeroAt
<1>. QED
    BY <1>2, <1>3, <1>4 DEF MapOK, MapInv, Current

\* A request that uses the bucket in the map uses the one that was made last.
LEMMA UsesCurrent ==
    ASSUME MapOK, NEW r \in Requests, pc[r] # "idle", OnCurrent(r)
    PROVE  /\ Bucket(r) = Current(req[r].key) /\ held[r] = Len(buckets[req[r].key])
           /\ limiters[req[r].key] # NULL
           /\ limiters[req[r].key].seen \in Nat /\ limiters[req[r].key].seen >= since[r]
           /\ Len(buckets[req[r].key]) # 0 /\ ZeroAt(Bucket(r)) \in Int
<1>1. req[r].key \in Keys /\ held[r] \in 1..Len(buckets[req[r].key])
    BY MapOKParts
<1>2. held[r] = Len(buckets[req[r].key])
    BY <1>1 DEF OnCurrent, MapOK, MapInv
<1>3. limiters[req[r].key] \in Entry
    BY <1>1 DEF OnCurrent, MapOK, TypeOK
<1>4. Len(buckets[req[r].key]) # 0
    BY <1>1, <1>2
<1>5. Bucket(r) = Current(req[r].key)
    BY <1>2 DEF Bucket, Current
<1>. QED
    BY <1>1, <1>2, <1>3, <1>4, <1>5, CurrentFacts DEF OnCurrent, Entry

\* A request that was let through has a bucket.
LEMMA GrantedFacts ==
    ASSUME MapOK, NEW k \in Keys, NEW r \in GrantedBy(k)
    PROVE  /\ r \in Requests /\ pc[r] # "idle" /\ pc[r] \in {"waiting", "admitted"}
           /\ req[r].key = k /\ slot[r] \in Nat /\ Len(buckets[k]) # 0
           /\ Len(buckets[k]) \in Nat /\ ZeroAt(Current(k)) \in Int
           /\ pc[r] = "admitted" => slot[r] <= now
<1>1. /\ r \in Requests /\ pc[r] # "idle" /\ pc[r] \in {"waiting", "admitted"}
      /\ req[r].key = k
    BY DEF GrantedBy
<1>2. held[r] \in 1..Len(buckets[k]) /\ slot[r] \in Nat
    BY <1>1, MapOKParts
<1>3. Len(buckets[k]) # 0
    BY <1>2
<1>4. pc[r] = "admitted" => slot[r] <= now
    BY <1>1 DEF MapOK, RequestInv
<1>. QED
    BY <1>1, <1>2, <1>3, <1>4, CurrentFacts

\* A request that is about to reserve, and one whose reservation is ahead,
\* find the bucket in the map: the TTL is longer than they take.
LEMMA KeepsBucket ==
    ASSUME NEW CONSTANT draw \in Nat, TTL >= MaxStall + draw,
           MapOK, DrawInv(draw), NEW r \in Requests, pc[r] = "got" \/ Ahead(r)
    PROVE  OnCurrent(r)
<1>1. now \in Nat /\ slot[r] \in Nat /\ since[r] \in Nat /\ MaxStall \in Nat /\ TTL \in Nat
    BY RateAssumption DEF MapOK, TypeOK
<1>2. CASE pc[r] = "got"
  <2>1. now - since[r] <= MaxStall
      BY <1>2 DEF MapOK, RequestInv
  <2>. QED
      BY <1>1, <1>2, <2>1 DEF MapOK, KeepInv
<1>3. CASE Ahead(r)
  <2>1. slot[r] - since[r] <= MaxStall + draw - Capacity
      BY <1>3 DEF Ahead, DrawInv
  <2>2. now - since[r] <= TTL
      BY <1>1, <1>3, <2>1, Sizes DEF Ahead
  <2>. QED
      BY <1>3, <2>2 DEF MapOK, KeepInv, Ahead
<1>. QED
    BY <1>2, <1>3

-----------------------------------------------------------------------------
(* The steps that draw on no bucket *)

\* What depends on the buckets and the slots only.
LEMMA Unmoved ==
    ASSUME AheadInv, GivenInv, KeyBound,
           UNCHANGED <<buckets, slot, req, held>>,
           \A s \in Requests :
              pc'[s] \in {"waiting", "admitted"} <=> pc[s] \in {"waiting", "admitted"},
           \A s \in Requests : Ahead(s)' => Ahead(s)
    PROVE  AheadInv' /\ GivenInv' /\ KeyBound'
<1>1. \A k \in Keys : GrantedBy(k)' = GrantedBy(k) /\ Current(k)' = Current(k)
    BY DEF GrantedBy, Current
<1>2. AheadInv'
    BY DEF AheadInv, Bucket, ZeroAt
<1>3. GivenInv'
    BY <1>1 DEF GivenInv, From, ZeroAt
<1>4. KeyBound'
    BY <1>1 DEF KeyBound, Between
<1>. QED
    BY <1>2, <1>3, <1>4

\* Nothing happens.
LEMMA StutterInv ==
    ASSUME NEW CONSTANT draw \in Nat, Inv(draw), UNCHANGED vars
    PROVE  Inv(draw)'
<1>1. UNCHANGED <<now, limiters, buckets, nextGC, pc, req, held, since, slot, canceled>>
    BY DEF vars
<1>2. MapOK'
    BY MapStep DEF Inv
<1>3. DrawInv(draw)' /\ FullInv'
    BY <1>1 DEF Inv, DrawInv, FullInv, Current, ZeroAt
<1>4. AheadInv' /\ GivenInv' /\ KeyBound'
    BY <1>1, Unmoved DEF Inv, Ahead
<1>. QED
    BY <1>2, <1>3, <1>4 DEF Inv

\* The client goes away.
LEMMA CancelInv ==
    ASSUME NEW CONSTANT draw \in Nat, Inv(draw), NEW r \in Requests, Cancel(r)
    PROVE  Inv(draw)'
<1>1. UNCHANGED <<now, limiters, buckets, nextGC, pc, req, held, since, slot>>
    BY DEF Cancel
<1>2. MapOK'
    BY CancelMap DEF Inv
<1>3. DrawInv(draw)' /\ FullInv'
    BY <1>1 DEF Inv, DrawInv, FullInv, Current, ZeroAt
<1>4. AheadInv' /\ GivenInv' /\ KeyBound'
    BY <1>1, Unmoved DEF Inv, Ahead
<1>. QED
    BY <1>2, <1>3, <1>4 DEF Inv

\* Time passes: nothing moves but what is ahead.
LEMMA TickInv ==
    ASSUME NEW CONSTANT draw \in Nat, Inv(draw), Tick
    PROVE  Inv(draw)'
<1>1. /\ now' = now + 1
      /\ UNCHANGED <<limiters, buckets, nextGC, pc, req, held, since, slot, canceled>>
    BY DEF Tick
<1>2. MapOK' /\ MapOK
    BY TickMap DEF Inv
<1>3. now \in Nat /\ \A s \in Requests : slot[s] \in Nat
    BY <1>2 DEF MapOK, TypeOK
<1>4. DrawInv(draw)'
    BY <1>1 DEF Inv, DrawInv, Current, ZeroAt
<1>5. FullInv'
  <2>. SUFFICES ASSUME NEW k \in Keys, limiters[k] = NULL, Len(buckets[k]) # 0
                PROVE  ZeroAt(Current(k)) + Capacity <= now + 1
      BY <1>1 DEF FullInv, Current, ZeroAt
  <2>1. ZeroAt(Current(k)) + Capacity <= now /\ ZeroAt(Current(k)) \in Int
      BY <1>2, CurrentFacts DEF Inv, FullInv
  <2>. QED
      BY <1>3, <2>1, Sizes
<1>6. \A s \in Requests : Ahead(s)' => Ahead(s)
    BY <1>1, <1>3 DEF Ahead
<1>7. AheadInv' /\ GivenInv' /\ KeyBound'
    BY <1>1, <1>6, Unmoved DEF Inv
<1>. QED
    BY <1>2, <1>4, <1>5, <1>7 DEF Inv

\* A bucket that the collector removes is full: the TTL is longer than it
\* takes to fill it.
LEMMA GCInv ==
    ASSUME NEW CONSTANT draw \in Nat, TTL >= MaxStall + draw, Inv(draw), GC
    PROVE  Inv(draw)'
<1>1. /\ nextGC <= now
      /\ limiters' = [k \in Keys |->
            IF limiters[k] # NULL /\ Stale(k, nextGC) THEN NULL ELSE limiters[k]]
      /\ UNCHANGED <<now, buckets, pc, req, held, since, slot, canceled>>
    BY DEF GC
<1>2. MapOK' /\ MapOK
    BY GCMap DEF Inv
<1>3. now \in Nat /\ nextGC \in Nat /\ MaxStall \in Nat /\ TTL \in Nat
    BY <1>2, RateAssumption DEF MapOK, TypeOK
<1>4. DrawInv(draw)'
    BY <1>1 DEF Inv, DrawInv, Current, ZeroAt
<1>5. FullInv'
  <2>. SUFFICES ASSUME NEW k \in Keys, limiters'[k] = NULL, Len(buckets[k]) # 0
                PROVE  ZeroAt(Current(k)) + Capacity <= now
      BY <1>1 DEF FullInv, Current, ZeroAt
  <2>1. ZeroAt(Current(k)) \in Int
      BY <1>2, CurrentFacts
  <2>2. CASE limiters[k] = NULL
      BY <2>2 DEF Inv, FullInv
  <2>3. CASE limiters[k] # NULL
    <3>1. nextGC - limiters[k].seen > TTL /\ limiters[k].seen \in Nat
        BY <1>1, <1>2, <2>3 DEF Stale, MapOK, TypeOK, Entry
    <3>2. ZeroAt(Current(k)) <= limiters[k].seen + MaxStall + draw - Capacity
        BY <2>3 DEF Inv, DrawInv
    <3>. QED
        BY <1>1, <1>3, <2>1, <3>1, <3>2, Sizes
  <2>. QED
      BY <2>2, <2>3
<1>6. AheadInv' /\ GivenInv' /\ KeyBound'
    BY <1>1, Unmoved DEF Inv, Ahead
<1>. QED
    BY <1>2, <1>4, <1>5, <1>6 DEF Inv

\* A new bucket is full, and takes the place of one that was.
LEMMA GetLimiterInv ==
    ASSUME NEW CONSTANT draw \in Nat, Inv(draw),
           NEW r \in Requests, NEW q \in CallInputs, GetLimiter(r, q)
    PROVE  Inv(draw)'
<1>. DEFINE k == KeyOf(q)
<1>1. /\ pc[r] = "idle" /\ pc' = [pc EXCEPT ![r] = "got"]
      /\ req' = [req EXCEPT ![r] = Request(q)]
      /\ held' = [held EXCEPT ![r] = limiters'[k].gen]
      /\ since' = [since EXCEPT ![r] = now]
      /\ UNCHANGED <<now, slot>>
    BY DEF GetLimiter
<1>2. MapOK' /\ MapOK /\ TypeOK
    BY GetLimiterMap DEF Inv, MapOK
<1>3. now \in Nat /\ MaxStall \in Nat /\ k \in Keys
    BY <1>2, CallFacts, RateAssumption DEF MapOK, TypeOK
<1>4. /\ pc'[r] = "got"
      /\ \A s \in Requests : s # r =>
            /\ pc'[s] = pc[s] /\ req'[s] = req[s] /\ held'[s] = held[s]
            /\ since'[s] = since[s]
    BY <1>1, <1>2 DEF TypeOK
<1>5. \A l \in Keys : GrantedBy(l)' = GrantedBy(l)
    BY <1>1, <1>4 DEF GrantedBy
<1>6. FullBucket \in BucketType /\ ZeroAt(FullBucket) = now - Capacity
    BY <1>3, Sizes DEF FullBucket, BucketType, ZeroAt
<1>7. ASSUME NEW l \in Keys
      PROVE  /\ \A j \in 1..Len(buckets[l]) : buckets'[l][j] = buckets[l][j]
             /\ \/ /\ buckets'[l] = buckets[l] /\ Current(l)' = Current(l)
                   /\ \/ l # k /\ limiters'[l] = limiters[l]
                      \/ /\ l = k /\ limiters[l] # NULL
                         /\ limiters'[l] # NULL /\ limiters'[l].seen = now
                \/ /\ l = k /\ limiters[l] = NULL /\ limiters'[l] # NULL
                   /\ limiters'[l].seen = now /\ Current(l)' = FullBucket
  <2>1. CASE limiters[k] # NULL /\ limiters' = Seen(k) /\ UNCHANGED buckets
    <3>1. limiters[k] \in Entry /\ limiters \in [Keys -> Entry \cup {NULL}]
        BY <1>2, <1>3, <2>1 DEF TypeOK
    <3>2. limiters' = [limiters EXCEPT ![k] = [limiters[k] EXCEPT !.seen = now]]
        BY <2>1 DEF Seen
    <3>3. limiters'[k].seen = now /\ limiters'[k] # NULL
      <4>1. limiters'[k] = [limiters[k] EXCEPT !.seen = now]
          BY <1>3, <3>1, <3>2
      <4>2. limiters'[k] \in [gen : Nat, seen : Nat] /\ limiters'[k].seen = now
          BY <1>3, <3>1, <4>1 DEF Entry
      <4>. QED
          BY <4>2, RateAssumption
    <3>4. l # k => limiters'[l] = limiters[l]
        BY <3>1, <3>2
    <3>. QED
        BY <2>1, <3>3, <3>4 DEF Current
  <2>2. CASE /\ limiters[k] = NULL
             /\ buckets' = [buckets EXCEPT ![k] = Append(@, FullBucket)]
             /\ limiters' = [limiters EXCEPT ![k] =
                   [gen |-> Len(buckets[k]) + 1, seen |-> now]]
    <3>1. /\ Len(buckets[k]) \in Nat /\ Len(buckets'[k]) = Len(buckets[k]) + 1
          /\ buckets'[k][Len(buckets[k]) + 1] = FullBucket
          /\ \A j \in 1..Len(buckets[k]) : buckets'[k][j] = buckets[k][j]
          /\ \A m \in Keys : m # k => buckets'[m] = buckets[m]
        BY <1>2, <1>3, <1>6, <2>2, Appended
    <3>2. limiters'[k] = [gen |-> Len(buckets[k]) + 1, seen |-> now]
        BY <1>2, <1>3, <2>2 DEF TypeOK
    <3>3. limiters'[k] # NULL /\ limiters'[k].seen = now
        BY <1>3, <3>1, <3>2, RateAssumption
    <3>4. l # k => limiters'[l] = limiters[l]
        BY <1>2, <2>2 DEF TypeOK
    <3>5. Current(k)' = FullBucket
        BY <3>1 DEF Current
    <3>. QED
        BY <2>2, <3>1, <3>3, <3>4, <3>5 DEF Current
  <2>. QED
      BY <2>1, <2>2 DEF GetLimiter
<1>8. DrawInv(draw)'
  <2>1. ASSUME NEW s \in Requests, pc'[s] = "waiting"
        PROVE  slot'[s] - since'[s] <= MaxStall + draw - Capacity
      BY <1>1, <1>4, <2>1 DEF Inv, DrawInv
  <2>2. ASSUME NEW l \in Keys, limiters'[l] # NULL
        PROVE  ZeroAt(Current(l)') <= limiters'[l].seen + MaxStall + draw - Capacity
    <3>1. CASE Current(l)' = Current(l) /\ limiters'[l] = limiters[l]
        BY <2>2, <3>1 DEF Inv, DrawInv
    <3>2. CASE Current(l)' = Current(l) /\ limiters[l] # NULL /\ limiters'[l].seen = now
      <4>1. limiters[l].seen \in Nat /\ limiters[l].seen <= now /\ Len(buckets[l]) # 0
          BY <1>2, <3>2 DEF MapOK, TypeOK, MapInv, Entry
      <4>2. ZeroAt(Current(l)) <= limiters[l].seen + MaxStall + draw - Capacity
          BY <3>2 DEF Inv, DrawInv
      <4>3. ZeroAt(Current(l)) \in Int
          BY <1>2, <4>1, CurrentFacts
      <4>. QED
          BY <1>3, <3>2, <4>1, <4>2, <4>3, Sizes
    <3>3. CASE Current(l)' = FullBucket /\ limiters'[l].seen = now
        BY <1>3, <1>6, <3>3, Sizes
    <3>. QED
        BY <1>7, <3>1, <3>2, <3>3
  <2>. QED
      BY <2>1, <2>2 DEF DrawInv, ZeroAt
<1>9. FullInv'
  <2>. SUFFICES ASSUME NEW l \in Keys, limiters'[l] = NULL, Len(buckets'[l]) # 0
                PROVE  ZeroAt(Current(l)') + Capacity <= now
      BY <1>1 DEF FullInv, ZeroAt
  <2>1. limiters[l] = NULL /\ buckets'[l] = buckets[l] /\ Current(l)' = Current(l)
      BY <1>7
  <2>. QED
      BY <2>1 DEF Inv, FullInv
<1>10. AheadInv'
  <2>1. ASSUME NEW s \in Requests, Ahead(s)'
        PROVE  Ahead(s) /\ Bucket(s)' = Bucket(s) /\ req'[s] = req[s]
    <3>1. s # r /\ Ahead(s)
        BY <1>1, <1>4, <2>1 DEF Ahead
    <3>2. req[s].key \in Keys /\ held[s] \in 1..Len(buckets[req[s].key])
        BY <1>2, <3>1, MapOKParts DEF Ahead
    <3>3. req'[s] = req[s] /\ held'[s] = held[s]
        BY <1>4, <3>1
    <3>. QED
        BY <1>7, <3>1, <3>2, <3>3 DEF Bucket
  <2>. QED
      BY <1>1, <2>1 DEF Inv, AheadInv, ZeroAt
<1>11. GivenInv'
  <2>. SUFFICES ASSUME NEW l \in Keys, NEW a \in GrantedBy(l)
                PROVE  Cardinality(From(GrantedBy(l), slot[a])) * Interval
                          <= Capacity + ZeroAt(Current(l)') - slot[a]
      BY <1>1, <1>5 DEF GivenInv, From, ZeroAt
  <2>1. Cardinality(From(GrantedBy(l), slot[a])) * Interval
           <= Capacity + ZeroAt(Current(l)) - slot[a]
      BY DEF Inv, GivenInv
  <2>2. Len(buckets[l]) # 0 /\ ZeroAt(Current(l)) \in Int /\ slot[a] \in Nat
      BY <1>2, GrantedFacts
  <2>3. CASE Current(l)' = Current(l)
      BY <2>1, <2>3
  <2>4. CASE limiters[l] = NULL /\ Current(l)' = FullBucket
    <3>1. ZeroAt(Current(l)) + Capacity <= now
        BY <2>2, <2>4 DEF Inv, FullInv
    <3>2. ZeroAt(Current(l)') = now - Capacity
        BY <1>6, <2>4
    <3>3. Cardinality(From(GrantedBy(l), slot[a])) * Interval \in Nat
        BY Counts DEF From, GrantedBy
    <3>. QED
        BY <1>3, <2>1, <2>2, <3>1, <3>2, <3>3, Sizes
  <2>. QED
      BY <1>7, <2>3, <2>4
<1>12. KeyBound'
    BY <1>1, <1>5 DEF Inv, KeyBound, Between
<1>. QED
    BY <1>2, <1>8, <1>9, <1>10, <1>11, <1>12 DEF Inv

\* A request that gives up before it has a reservation, or whose time has come.
LEMMA QuietWaitInv ==
    ASSUME NEW CONSTANT draw \in Nat, Inv(draw), NEW r \in Requests, WaitStep(r),
           GivesUp(r) \/ GoesOn(r)
    PROVE  Inv(draw)'
<1>1. MapOK' /\ MapOK
    BY WaitMap DEF Inv
<1>2. /\ UNCHANGED <<now, limiters, buckets, slot, req, held, since>>
      /\ \A s \in Requests : s # r => pc'[s] = pc[s]
    BY <1>1, WaitFacts DEF GivesUp, GoesOn
<1>3. /\ pc'[r] # "waiting"
      /\ pc'[r] \in {"waiting", "admitted"} <=> pc[r] \in {"waiting", "admitted"}
    BY DEF GivesUp, GoesOn
<1>4. DrawInv(draw)' /\ FullInv'
  <2>1. \A s \in Requests : pc'[s] = "waiting" => pc[s] = "waiting"
      BY <1>2, <1>3
  <2>. QED
      BY <1>2, <2>1 DEF Inv, DrawInv, FullInv, Current, ZeroAt
<1>5. \A s \in Requests : Ahead(s)' => Ahead(s)
    BY <1>2, <1>3 DEF Ahead
<1>6. \A s \in Requests :
         pc'[s] \in {"waiting", "admitted"} <=> pc[s] \in {"waiting", "admitted"}
    BY <1>2, <1>3
<1>7. AheadInv' /\ GivenInv' /\ KeyBound'
    BY <1>2, <1>5, <1>6, Unmoved DEF Inv
<1>. QED
    BY <1>1, <1>4, <1>7 DEF Inv

-----------------------------------------------------------------------------
(* A reservation *)

\* While a reservation is ahead, the next one comes an interval after the last.
LEMMA ReservesBehind ==
    ASSUME now \in Nat, NEW b \in BucketType, ZeroAt(b) >= now
    PROVE  /\ ZeroAt(Reserved(b)) = ZeroAt(b) + Interval
           /\ Delay(b) # 0
           /\ now + Delay(b) = ZeroAt(Reserved(b))
<1>1. ZeroAt(b) \in Int
    BY DEF BucketType, ZeroAt
<1>2. Advance(b) = now - ZeroAt(b)
    BY <1>1, Advances, Sizes
<1>3. ZeroAt(Reserved(b)) = now - Advance(b) + Interval
    BY Reserves
<1>4. Delay(b) # 0
    BY <1>1, <1>2, Sizes DEF Delay, Taken
<1>5. now + Delay(b) = ZeroAt(Reserved(b))
    BY <1>4, Reserves
<1>. QED
    BY <1>1, <1>2, <1>3, <1>4, <1>5, Sizes

\* The bucket of a reservation that is ahead is empty at or after it.
LEMMA AheadFacts ==
    ASSUME NEW CONSTANT draw \in Nat, TTL >= MaxStall + draw, Inv(draw),
           NEW s \in Requests, Ahead(s)
    PROVE  /\ Bucket(s) = Current(req[s].key) /\ req[s].key \in Keys
           /\ held[s] = Len(buckets[req[s].key])
           /\ limiters[req[s].key] # NULL
           /\ Bucket(s).lastEvent = ZeroAt(Bucket(s))
           /\ ZeroAt(Bucket(s)) \in Int
           /\ slot[s] \in Nat /\ now <= slot[s] /\ slot[s] <= ZeroAt(Bucket(s))
           /\ \E n \in Nat : ZeroAt(Bucket(s)) = slot[s] + n * Interval
<1>1. pc[s] # "idle" /\ now <= slot[s] /\ MapOK /\ DrawInv(draw)
    BY DEF Ahead, Inv
<1>2. OnCurrent(s)
    BY <1>1, KeepsBucket
<1>3. req[s].key \in Keys /\ slot[s] \in Nat
    BY <1>1, MapOKParts
<1>4. /\ Bucket(s) = Current(req[s].key) /\ limiters[req[s].key] # NULL
      /\ held[s] = Len(buckets[req[s].key]) /\ ZeroAt(Bucket(s)) \in Int
    BY <1>1, <1>2, UsesCurrent
<1>5. /\ Bucket(s).lastEvent = ZeroAt(Bucket(s))
      /\ \E n \in Nat : ZeroAt(Bucket(s)) = slot[s] + n * Interval
    BY DEF Inv, AheadInv
<1>6. slot[s] <= ZeroAt(Bucket(s))
    BY <1>3, <1>5, Multiples
<1>. QED
    BY <1>1, <1>3, <1>4, <1>5, <1>6

\* What a reservation changes.
LEMMA ReservationFacts ==
    ASSUME NEW CONSTANT draw \in Nat, TTL >= MaxStall + draw, Inv(draw),
           NEW r \in Requests, WaitStep(r), MakesReservation(r)
    PROVE  /\ MapOK /\ MapOK' /\ now \in Nat /\ req[r].key \in Keys
           /\ UNCHANGED <<now, limiters, req, held, since>>
           /\ \A s \in Requests : s # r => pc'[s] = pc[s] /\ slot'[s] = slot[s]
           /\ Bucket(r) \in BucketType /\ Bucket(r) = Current(req[r].key)
           /\ held[r] = Len(buckets[req[r].key])
           /\ limiters[req[r].key] # NULL
           /\ limiters[req[r].key].seen \in Nat /\ limiters[req[r].key].seen >= since[r]
           /\ Current(req[r].key)' = Reserved(Bucket(r))
           /\ \A l \in Keys : l # req[r].key => Current(l)' = Current(l)
           /\ \A l \in Keys : Len(buckets'[l]) = Len(buckets[l])
           /\ \A l \in Keys : \A j \in 1..Len(buckets[l]) :
                 l # req[r].key \/ j # held[r] => buckets'[l][j] = buckets[l][j]
           /\ \A l \in Keys : l # req[r].key => GrantedBy(l)' = GrantedBy(l)
           /\ GrantedBy(req[r].key)' = GrantedBy(req[r].key) \cup {r}
           /\ r \notin GrantedBy(req[r].key)
           /\ slot'[r] = now + Delay(Bucket(r)) /\ slot'[r] \in Nat
<1>1. MapOK' /\ MapOK /\ DrawInv(draw) /\ pc[r] = "got"
    BY WaitMap DEF Inv, MakesReservation
<1>2. /\ UNCHANGED <<now, limiters, req, held, since>>
      /\ \A s \in Requests : s # r => pc'[s] = pc[s] /\ slot'[s] = slot[s]
      /\ \A l \in Keys : Len(buckets'[l]) = Len(buckets[l])
      /\ \A l \in Keys : \A j \in 1..Len(buckets[l]) :
            l # req[r].key \/ j # held[r] => buckets'[l][j] = buckets[l][j]
      /\ slot' \in [Requests -> Nat]
    BY <1>1, WaitFacts
<1>3. OnCurrent(r)
    BY <1>1, KeepsBucket
<1>4. req[r].key \in Keys /\ Bucket(r) \in BucketType /\ now \in Nat
    BY <1>1, MapOKParts
<1>5. /\ Bucket(r) = Current(req[r].key) /\ held[r] = Len(buckets[req[r].key])
      /\ limiters[req[r].key] # NULL
      /\ limiters[req[r].key].seen \in Nat /\ limiters[req[r].key].seen >= since[r]
    BY <1>1, <1>3, UsesCurrent
<1>6. Current(req[r].key)' = Reserved(Bucket(r))
    BY <1>2, <1>4, <1>5 DEF MakesReservation, Current
<1>7. ASSUME NEW l \in Keys, l # req[r].key PROVE Current(l)' = Current(l)
  <2>1. Len(buckets'[l]) = Len(buckets[l]) /\ buckets[l] \in Seq(BucketType)
        /\ buckets'[l] \in Seq(BucketType)
      BY <1>1, <1>2 DEF MapOK, TypeOK
  <2>2. \A j \in 1..Len(buckets[l]) : buckets'[l][j] = buckets[l][j]
      BY <1>2, <1>7
  <2>3. buckets'[l] = buckets[l]
      BY <2>1, <2>2, SeqEqual
  <2>. QED
      BY <2>3 DEF Current
<1>8. pc'[r] \in {"waiting", "admitted"} /\ slot'[r] = now + Delay(Bucket(r))
    BY DEF MakesReservation
<1>9. /\ \A l \in Keys : l # req[r].key => GrantedBy(l)' = GrantedBy(l)
      /\ GrantedBy(req[r].key)' = GrantedBy(req[r].key) \cup {r}
      /\ r \notin GrantedBy(req[r].key)
    BY <1>1, <1>2, <1>8 DEF GrantedBy
<1>. QED
    BY <1>1, <1>2, <1>4, <1>5, <1>6, <1>7, <1>8, <1>9

\* The new reservation, and the moment at which the bucket is empty then, are
\* not too far ahead.
LEMMA ReservationDraw ==
    ASSUME NEW CONSTANT draw \in Nat, TTL >= MaxStall + draw, Inv(draw), DrawnAtMost(draw)',
           NEW r \in Requests, WaitStep(r), MakesReservation(r)
    PROVE  DrawInv(draw)' /\ FullInv'
<1>. DEFINE k == req[r].key
            b == Bucket(r)
<1>1. /\ MapOK /\ MapOK' /\ now \in Nat /\ k \in Keys
      /\ UNCHANGED <<now, limiters, req, held, since>>
      /\ \A s \in Requests : s # r => pc'[s] = pc[s] /\ slot'[s] = slot[s]
      /\ b \in BucketType /\ held[r] = Len(buckets[k])
      /\ limiters[k] # NULL /\ limiters[k].seen \in Nat /\ limiters[k].seen >= since[r]
      /\ Current(k)' = Reserved(b)
      /\ \A l \in Keys : l # k => Current(l)' = Current(l)
      /\ \A l \in Keys : Len(buckets'[l]) = Len(buckets[l])
      /\ slot'[r] = now + Delay(b) /\ slot'[r] \in Nat
    BY ReservationFacts
<1>2. pc[r] = "got" /\ since[r] \in Nat /\ now - since[r] <= MaxStall /\ MaxStall \in Nat
    BY <1>1, MapOKParts, RateAssumption DEF MakesReservation, MapOK, RequestInv
<1>3. held[r] \in 1..Len(buckets'[k]) /\ buckets'[k][held[r]] = Reserved(b)
    BY <1>1, <1>2, MapOKParts DEF MakesReservation
<1>4. Reserved(b).level >= Capacity - draw
    BY <1>1, <1>3 DEF DrawnAtMost
<1>5. Reserved(b).last = now /\ Reserved(b) \in BucketType
    BY <1>1, Reserves
<1>6. /\ ZeroAt(Reserved(b)) \in Int
      /\ ZeroAt(Reserved(b)) <= now + draw - Capacity
    BY <1>1, <1>4, <1>5, Sizes DEF ZeroAt, BucketType
<1>7. ASSUME NEW s \in Requests, pc'[s] = "waiting"
      PROVE  slot'[s] - since'[s] <= MaxStall + draw - Capacity
  <2>1. CASE s = r
    <3>1. Delay(b) # 0
        BY <1>7, <2>1 DEF MakesReservation
    <3>2. slot'[r] = ZeroAt(Reserved(b))
        BY <1>1, <3>1, Reserves
    <3>. QED
        BY <1>1, <1>2, <1>6, <2>1, <3>2, Sizes
  <2>2. CASE s # r
      BY <1>1, <1>7, <2>2 DEF Inv, DrawInv
  <2>. QED
      BY <2>1, <2>2
<1>8. ASSUME NEW l \in Keys, limiters'[l] # NULL
      PROVE  ZeroAt(Current(l)') <= limiters'[l].seen + MaxStall + draw - Capacity
  <2>1. CASE l = k
    <3>1. ZeroAt(Current(l)') = ZeroAt(Reserved(b))
        BY <1>1, <2>1
    <3>2. limiters'[l].seen \in Nat /\ limiters'[l].seen + MaxStall >= now
        BY <1>1, <1>2, <2>1
    <3>. QED
        BY <1>1, <1>2, <1>6, <3>1, <3>2, Sizes
  <2>2. CASE l # k
      BY <1>1, <1>8, <2>2 DEF Inv, DrawInv
  <2>. QED
      BY <2>1, <2>2
<1>9. DrawInv(draw)'
    BY <1>7, <1>8 DEF DrawInv, ZeroAt
<1>10. ASSUME NEW l \in Keys, limiters'[l] = NULL, Len(buckets'[l]) # 0
       PROVE  ZeroAt(Current(l)') + Capacity <= now'
  <2>1. l # k /\ limiters[l] = NULL /\ Len(buckets[l]) # 0
      BY <1>1, <1>10
  <2>. QED
      BY <1>1, <2>1 DEF Inv, FullInv
<1>11. FullInv'
    BY <1>10 DEF FullInv, ZeroAt
<1>. QED
    BY <1>9, <1>11

\* The new reservation comes after those that are ahead.
LEMMA ReservationAhead ==
    ASSUME NEW CONSTANT draw \in Nat, TTL >= MaxStall + draw, Inv(draw),
           NEW r \in Requests, WaitStep(r), MakesReservation(r)
    PROVE  AheadInv'
<1>. DEFINE k == req[r].key
            b == Bucket(r)
<1>1. /\ MapOK /\ now \in Nat /\ k \in Keys
      /\ UNCHANGED <<now, limiters, req, held, since>>
      /\ \A s \in Requests : s # r => pc'[s] = pc[s] /\ slot'[s] = slot[s]
      /\ b \in BucketType /\ b = Current(k) /\ held[r] = Len(buckets[k])
      /\ \A l \in Keys : \A j \in 1..Len(buckets[l]) :
            l # k \/ j # held[r] => buckets'[l][j] = buckets[l][j]
      /\ slot'[r] = now + Delay(b) /\ slot'[r] \in Nat
    BY ReservationFacts
<1>2. Bucket(r)' = Reserved(b)
    BY <1>1 DEF MakesReservation, Bucket
<1>3. Reserved(b) \in BucketType /\ Reserved(b).lastEvent = now + Delay(b)
    BY <1>1, Reserves
<1>4. ASSUME NEW s \in Requests, s # r, Ahead(s)', req'[s].key = k
      PROVE  /\ Bucket(s)' = Reserved(b) /\ Reserved(b).lastEvent = ZeroAt(Reserved(b))
             /\ slot'[r] = ZeroAt(Reserved(b)) /\ slot'[s] < slot'[r]
             /\ \E n \in Nat : ZeroAt(Reserved(b)) = slot'[s] + n * Interval
  <2>1. Ahead(s) /\ req[s].key = k /\ slot'[s] = slot[s]
      BY <1>1, <1>4 DEF Ahead
  <2>2. /\ Bucket(s) = b /\ held[s] = held[r]
        /\ ZeroAt(b) \in Int /\ slot[s] \in Nat /\ now <= slot[s] /\ slot[s] <= ZeroAt(b)
        /\ \E n \in Nat : ZeroAt(b) = slot[s] + n * Interval
      BY <1>1, <2>1, AheadFacts
  <2>3. /\ ZeroAt(Reserved(b)) = ZeroAt(b) + Interval
        /\ now + Delay(b) = ZeroAt(Reserved(b))
    <3>1. ZeroAt(b) >= now
        BY <1>1, <2>2
    <3>. QED
        BY <1>1, <3>1, ReservesBehind
  <2>4. Bucket(s)' = Reserved(b)
      BY <1>1, <1>2, <2>1, <2>2 DEF Bucket
  <2>5. PICK n \in Nat : ZeroAt(b) = slot[s] + n * Interval
      BY <2>2
  <2>6. n + 1 \in Nat /\ ZeroAt(Reserved(b)) = slot'[s] + (n + 1) * Interval
    <3>1. n + 1 \in Nat /\ n * Interval \in Nat /\ (n + 1) * Interval = n * Interval + Interval
        BY Multiples
    <3>. QED
        BY <2>1, <2>2, <2>3, <2>5, <3>1, Sizes
  <2>7. \E m \in Nat : ZeroAt(Reserved(b)) = slot'[s] + m * Interval
      BY <2>6, Zenon
  <2>8. slot'[r] = ZeroAt(Reserved(b)) /\ Reserved(b).lastEvent = ZeroAt(Reserved(b))
      BY <1>1, <1>3, <2>3, Zenon
  <2>9. ZeroAt(b) < ZeroAt(b) + Interval /\ slot[s] < ZeroAt(b) + Interval
      BY <2>2, Sizes
  <2>10. slot'[s] < slot'[r]
      BY <2>1, <2>3, <2>8, <2>9, Zenon
  <2>. QED
      BY <2>4, <2>7, <2>8, <2>10, Zenon
<1>5. ASSUME Ahead(r)'
      PROVE  /\ Reserved(b).lastEvent = ZeroAt(Reserved(b))
             /\ ZeroAt(Reserved(b)) = slot'[r] + 0 * Interval
  <2>1. Delay(b) # 0
      BY <1>5 DEF Ahead, MakesReservation
  <2>2. now + Delay(b) = ZeroAt(Reserved(b))
      BY <1>1, <2>1, Reserves
  <2>. QED
      BY <1>1, <1>3, <2>2, Sizes
<1>6. ASSUME NEW s \in Requests, s # r, Ahead(s)', req'[s].key # k
      PROVE  Bucket(s)' = Bucket(s) /\ Ahead(s) /\ slot'[s] = slot[s]
  <2>1. Ahead(s) /\ slot'[s] = slot[s]
      BY <1>1, <1>6 DEF Ahead
  <2>2. req[s].key \in Keys /\ held[s] \in 1..Len(buckets[req[s].key])
      BY <1>1, <2>1, MapOKParts DEF Ahead
  <2>. QED
      BY <1>1, <1>6, <2>1, <2>2 DEF Bucket
<1>7. ASSUME NEW s \in Requests, Ahead(s)'
      PROVE  /\ (Bucket(s)').lastEvent = ZeroAt(Bucket(s)')
             /\ \E n \in Nat : ZeroAt(Bucket(s)') = slot'[s] + n * Interval
  <2>1. CASE s = r
      BY <1>2, <1>5, <1>7, <2>1
  <2>2. CASE s # r /\ req'[s].key = k
      BY <1>4, <1>7, <2>2
  <2>3. CASE s # r /\ req'[s].key # k
      BY <1>6, <1>7, <2>3 DEF Inv, AheadInv
  <2>. QED
      BY <2>1, <2>2, <2>3
<1>8. ASSUME NEW s \in Requests, NEW t \in Requests, s # t, Ahead(s)', Ahead(t)',
             req'[s].key = req'[t].key
      PROVE  slot'[s] # slot'[t]
  <2>1. CASE s # r /\ t # r
    <3>1. Ahead(s) /\ Ahead(t) /\ req[s].key = req[t].key
          /\ slot'[s] = slot[s] /\ slot'[t] = slot[t]
        BY <1>1, <1>8, <2>1 DEF Ahead
    <3>. QED
        BY <1>8, <3>1 DEF Inv, AheadInv
  <2>2. CASE t = r
    <3>1. slot'[s] < slot'[r] /\ slot'[s] \in Nat
        BY <1>1, <1>4, <1>8, <2>2 DEF MapOK, TypeOK
    <3>. QED
        BY <1>1, <2>2, <3>1
  <2>3. CASE s = r
    <3>1. slot'[t] < slot'[r] /\ slot'[t] \in Nat
        BY <1>1, <1>4, <1>8, <2>3 DEF MapOK, TypeOK
    <3>. QED
        BY <1>1, <2>3, <3>1
  <2>. QED
      BY <2>1, <2>2, <2>3
<1>. QED
    BY <1>7, <1>8 DEF AheadInv, ZeroAt

\* A reservation is paid for: it moves the moment at which the bucket is empty
\* by an interval.
LEMMA ReservationGiven ==
    ASSUME NEW CONSTANT draw \in Nat, TTL >= MaxStall + draw, Inv(draw),
           NEW r \in Requests, WaitStep(r), MakesReservation(r)
    PROVE  GivenInv' /\ KeyBound'
<1>. DEFINE k == req[r].key
            b == Bucket(r)
            z == ZeroAt(b)
            zz == ZeroAt(Reserved(b))
<1>1. /\ MapOK /\ now \in Nat /\ k \in Keys
      /\ UNCHANGED <<now, req>>
      /\ \A s \in Requests : s # r => pc'[s] = pc[s] /\ slot'[s] = slot[s]
      /\ b \in BucketType /\ b = Current(k)
      /\ Current(k)' = Reserved(b)
      /\ \A l \in Keys : l # k => Current(l)' = Current(l)
      /\ \A l \in Keys : l # k => GrantedBy(l)' = GrantedBy(l)
      /\ GrantedBy(k)' = GrantedBy(k) \cup {r}
      /\ r \notin GrantedBy(k)
      /\ slot'[r] = now + Delay(b) /\ slot'[r] \in Nat
    BY ReservationFacts
<1>2. /\ Reserved(b) \in BucketType /\ z \in Int /\ zz \in Int
      /\ Delay(b) \in Nat /\ zz >= z + Interval /\ slot'[r] >= zz
      /\ zz = now - Advance(b) + Interval
      /\ Delay(b) # 0 => slot'[r] = zz
      /\ Advance(b) \in Int /\ Advance(b) <= Capacity
  <2>1. z \in Int
      BY <1>1 DEF ZeroAt, BucketType
  <2>2. Reserved(b) \in BucketType
      BY <1>1, Reserves
  <2>3. zz \in Int
      BY <2>2 DEF ZeroAt, BucketType
  <2>4. Advance(b) \in Int /\ Advance(b) <= Capacity
      BY <1>1, Advances
  <2>. QED
      BY <1>1, <2>1, <2>2, <2>3, <2>4, Reserves
<1>3. \A l \in Keys : \A s \in GrantedBy(l) : slot'[s] = slot[s] /\ slot[s] \in Nat /\ s # r
  <2>1. pc[r] = "got"
      BY DEF MakesReservation
  <2>. QED
      BY <1>1, <2>1, GrantedFacts DEF GrantedBy
<1>4. ASSUME NEW a \in GrantedBy(k)
      PROVE  Cardinality(From(GrantedBy(k), slot[a])') * Interval <= Capacity + zz - slot[a]
  <2>1. From(GrantedBy(k), slot[a])' \in SUBSET (From(GrantedBy(k), slot[a]) \cup {r})
      BY <1>1, <1>3 DEF From
  <2>2. Cardinality(From(GrantedBy(k), slot[a])) * Interval <= Capacity + z - slot[a]
      BY <1>1 DEF Inv, GivenInv
  <2>3. From(GrantedBy(k), slot[a]) \in SUBSET Requests
      BY DEF From, GrantedBy
  <2>4. Cardinality(From(GrantedBy(k), slot[a])') * Interval
           <= Cardinality(From(GrantedBy(k), slot[a])) * Interval + Interval
      BY <2>1, <2>3, CountsOneMore
  <2>5. /\ Cardinality(From(GrantedBy(k), slot[a])) * Interval \in Nat
        /\ Cardinality(From(GrantedBy(k), slot[a])') * Interval \in Nat
    <3>1. From(GrantedBy(k), slot[a])' \in SUBSET Requests
        BY <2>1, <2>3
    <3>. QED
        BY <2>3, <3>1, Counts
  <2>6. slot[a] \in Nat
      BY <1>1, <1>3
  <2>. QED
      BY <1>2, <2>2, <2>4, <2>5, <2>6, Sizes
<1>5. Cardinality(From(GrantedBy(k), slot[r])') * Interval <= Capacity + zz - slot'[r]
  <2>1. CASE \A s \in GrantedBy(k) : slot[s] < slot'[r]
    <3>1. From(GrantedBy(k), slot[r])' = {r}
        BY <1>1, <1>3, <2>1 DEF From
    <3>2. Cardinality({r}) * Interval = Interval
      <4>1. Cardinality({r}) = 1
          BY FS_Singleton
      <4>. QED
          BY <4>1, Sizes
    <3>3. Interval <= Capacity + zz - slot'[r]
        BY <1>1, <1>2, Sizes
    <3>. QED
        BY <3>1, <3>2, <3>3
  <2>2. ASSUME NEW s \in GrantedBy(k), ~(slot[s] < slot'[r])
        PROVE  Cardinality(From(GrantedBy(k), slot[r])') * Interval <= Capacity + zz - slot'[r]
    <3>1. /\ s \in Requests /\ pc[s] \in {"waiting", "admitted"} /\ req[s].key = k
          /\ slot[s] \in Nat /\ (pc[s] = "admitted" => slot[s] <= now)
        BY <1>1, GrantedFacts
    <3>2. ~Ahead(s)
      <4>. SUFFICES ASSUME Ahead(s) PROVE FALSE
          OBVIOUS
      <4>1. z >= now /\ slot[s] <= z
          BY <1>1, <1>2, <3>1, AheadFacts
      <4>2. zz = z + Interval /\ slot'[r] = zz
          BY <1>1, <4>1, ReservesBehind
      <4>. QED
          BY <1>1, <1>2, <2>2, <3>1, <4>1, <4>2, Sizes
    <3>3. slot[s] = slot'[r]
        BY <1>1, <1>2, <2>2, <3>1, <3>2 DEF Ahead
    <3>4. From(GrantedBy(k), slot[r])' = From(GrantedBy(k), slot[s])'
        BY <1>1, <1>3, <3>3 DEF From
    <3>. QED
        BY <1>4, <3>3, <3>4
  <2>. QED
      BY <2>1, <2>2
<1>6. ASSUME NEW l \in Keys, NEW a \in GrantedBy(l)'
      PROVE  Cardinality(From(GrantedBy(l), slot[a])') * Interval
                <= Capacity + ZeroAt(Current(l)') - slot'[a]
  <2>1. CASE l # k
    <3>1. a \in GrantedBy(l) /\ slot'[a] = slot[a]
        BY <1>1, <1>3, <2>1
    <3>2. From(GrantedBy(l), slot[a])' = From(GrantedBy(l), slot[a])
        BY <1>1, <1>3, <2>1, <3>1 DEF From
    <3>. QED
        BY <1>1, <2>1, <3>1, <3>2 DEF Inv, GivenInv
  <2>2. CASE l = k /\ a = r
      BY <1>1, <1>5, <2>2
  <2>3. CASE l = k /\ a # r
    <3>1. a \in GrantedBy(k) /\ slot'[a] = slot[a]
        BY <1>1, <1>3, <2>3
    <3>. QED
        BY <1>1, <1>4, <2>3, <3>1
  <2>. QED
      BY <2>1, <2>2, <2>3
<1>7. ASSUME NEW l \in Keys, NEW a \in GrantedBy(l)', NEW c \in GrantedBy(l)',
             slot'[a] <= slot'[c]
      PROVE  Cardinality(Between(GrantedBy(l), slot[a], slot[c])') * Interval
                <= Capacity + (slot'[c] - slot'[a])
  <2>1. CASE r \notin Between(GrantedBy(l), slot[a], slot[c])'
    <3>1. a \in Between(GrantedBy(l), slot[a], slot[c])' /\ c \in Between(GrantedBy(l), slot[a], slot[c])'
      <4>1. slot'[a] \in Nat /\ slot'[c] \in Nat
          BY <1>1, <1>3
      <4>. QED
          BY <1>7, <4>1 DEF Between
    <3>2. a \in GrantedBy(l) /\ c \in GrantedBy(l) /\ slot'[a] = slot[a] /\ slot'[c] = slot[c]
        BY <1>1, <1>3, <1>7, <2>1, <3>1
    <3>3. Between(GrantedBy(l), slot[a], slot[c])' = Between(GrantedBy(l), slot[a], slot[c])
        BY <1>1, <1>3, <2>1, <3>2 DEF Between
    <3>. QED
        BY <1>7, <3>2, <3>3 DEF Inv, KeyBound
  <2>2. CASE r \in Between(GrantedBy(l), slot[a], slot[c])'
    <3>1. l = k /\ slot'[a] <= slot'[r] /\ slot'[r] <= slot'[c]
        BY <1>1, <1>3, <2>2 DEF Between
    <3>2. Between(GrantedBy(l), slot[a], slot[c])' \in SUBSET From(GrantedBy(l), slot[a])'
        BY DEF Between, From
    <3>3. From(GrantedBy(l), slot[a])' \in SUBSET Requests
        BY DEF From, GrantedBy
    <3>4. /\ Cardinality(Between(GrantedBy(l), slot[a], slot[c])') * Interval
                <= Cardinality(From(GrantedBy(l), slot[a])') * Interval
          /\ Cardinality(Between(GrantedBy(l), slot[a], slot[c])') * Interval \in Nat
          /\ Cardinality(From(GrantedBy(l), slot[a])') * Interval \in Nat
        BY <3>2, <3>3, Counts
    <3>5. Cardinality(From(GrantedBy(l), slot[a])') * Interval <= Capacity + zz - slot'[a]
        BY <1>1, <1>6, <3>1
    <3>6. slot'[a] \in Nat /\ slot'[c] \in Nat
        BY <1>1, <1>3, <3>1
    <3>. QED
        BY <1>1, <1>2, <3>1, <3>4, <3>5, <3>6, Sizes
  <2>. QED
      BY <2>1, <2>2
<1>8. GivenInv'
    BY <1>6 DEF GivenInv, ZeroAt
<1>9. KeyBound'
    BY <1>7 DEF KeyBound
<1>. QED
    BY <1>8, <1>9

\* A reservation keeps the invariant.
LEMMA ReservationInv ==
    ASSUME NEW CONSTANT draw \in Nat, TTL >= MaxStall + draw, Inv(draw), DrawnAtMost(draw)',
           NEW r \in Requests, WaitStep(r), MakesReservation(r)
    PROVE  Inv(draw)'
<1>1. MapOK'
    BY WaitMap DEF Inv
<1>. QED
    BY <1>1, ReservationDraw, ReservationAhead, ReservationGiven DEF Inv

-----------------------------------------------------------------------------
(* A canceled reservation *)

\* Only the last of the reservations that are ahead is given back, and then
\* all of it.
LEMMA ReleasesLast ==
    ASSUME NEW CONSTANT draw \in Nat, TTL >= MaxStall + draw, Inv(draw),
           NEW r \in Requests, Ahead(r), GivenBack(Bucket(r), slot[r]) > 0
    PROVE  /\ slot[r] = ZeroAt(Bucket(r))
           /\ Released(Bucket(r), slot[r]) \in BucketType
           /\ ZeroAt(Released(Bucket(r), slot[r])) = ZeroAt(Bucket(r)) - Interval
           /\ slot[r] - Interval >= now =>
                 Released(Bucket(r), slot[r]).lastEvent = slot[r] - Interval
<1>. DEFINE b == Bucket(r)
            z == ZeroAt(b)
<1>1. /\ b.lastEvent = z /\ z \in Int /\ slot[r] \in Nat /\ now <= slot[r]
      /\ \E n \in Nat : z = slot[r] + n * Interval
    BY AheadFacts
<1>2. b \in BucketType /\ now \in Nat /\ b.last <= now /\ b.level <= Capacity
    BY MapOKParts DEF Ahead, Inv
<1>3. PICK n \in Nat : z = slot[r] + n * Interval
    BY <1>1
<1>4. n = 0
  <2>1. n >= 1 => n * Interval >= Interval
      BY Multiples
  <2>2. n * Interval \in Nat
      BY Multiples
  <2>3. Interval - (z - slot[r]) > 0
      BY <1>1 DEF GivenBack
  <2>. QED
      BY <1>1, <1>3, <2>1, <2>2, <2>3, Sizes
<1>5. slot[r] = z
    BY <1>1, <1>3, <1>4, Sizes
<1>6. GivenBack(b, slot[r]) = Interval
    BY <1>1, <1>5, Sizes DEF GivenBack
<1>7. Advance(b) = now - z
    BY <1>1, <1>2, Advances, Sizes
<1>8. Released(b, slot[r]) \in BucketType
    BY <1>1, <1>2, Releases
<1>9. Advance(b) + GivenBack(b, slot[r]) <= Capacity
    BY <1>1, <1>2, <1>5, <1>6, <1>7, Sizes
<1>10. slot[r] >= now /\ GivenBack(b, slot[r]) > 0
    BY <1>1, <1>2
<1>11. /\ Released(b, slot[r]).last = now
       /\ Released(b, slot[r]).level = Advance(b) + GivenBack(b, slot[r])
       /\ slot[r] = b.lastEvent /\ slot[r] - Interval >= now =>
             Released(b, slot[r]).lastEvent = slot[r] - Interval
    BY <1>1, <1>2, <1>9, <1>10, Releases
<1>12. ZeroAt(Released(b, slot[r])) = z - Interval
    BY <1>1, <1>2, <1>6, <1>7, <1>11, Sizes DEF ZeroAt
<1>. QED
    BY <1>1, <1>5, <1>8, <1>11, <1>12

\* What a canceled reservation changes in any case.
LEMMA CancellationFacts ==
    ASSUME NEW CONSTANT draw \in Nat, Inv(draw),
           NEW r \in Requests, WaitStep(r), GivesReservationBack(r)
    PROVE  /\ MapOK /\ MapOK' /\ now \in Nat /\ req[r].key \in Keys
           /\ held[r] \in 1..Len(buckets[req[r].key])
           /\ Bucket(r) \in BucketType /\ slot[r] \in Nat
           /\ UNCHANGED <<now, limiters, req, held, since, slot>>
           /\ \A s \in Requests : s # r => pc'[s] = pc[s]
           /\ \A l \in Keys : Len(buckets'[l]) = Len(buckets[l])
           /\ \A l \in Keys : \A j \in 1..Len(buckets[l]) :
                 l # req[r].key \/ j # held[r] => buckets'[l][j] = buckets[l][j]
           /\ \A l \in Keys : l # req[r].key => buckets'[l] = buckets[l]
           /\ Bucket(r)' = Released(Bucket(r), slot[r])
           /\ \A l \in Keys : GrantedBy(l)' = GrantedBy(l) \ {r}
           /\ r \in GrantedBy(req[r].key)
           /\ \A s \in Requests : Ahead(s)' => Ahead(s) /\ s # r
<1>1. MapOK' /\ MapOK /\ pc[r] = "waiting" /\ pc'[r] \in {"canceled", "limited"}
    BY WaitMap DEF Inv, GivesReservationBack
<1>2. /\ UNCHANGED <<now, limiters, req, held, since, slot>>
      /\ \A s \in Requests : s # r => pc'[s] = pc[s]
      /\ \A l \in Keys : Len(buckets'[l]) = Len(buckets[l])
      /\ \A l \in Keys : \A j \in 1..Len(buckets[l]) :
            l # req[r].key \/ j # held[r] => buckets'[l][j] = buckets[l][j]
    BY <1>1, WaitFacts DEF GivesReservationBack
<1>3. /\ req[r].key \in Keys /\ Bucket(r) \in BucketType /\ now \in Nat /\ slot[r] \in Nat
      /\ held[r] \in 1..Len(buckets[req[r].key])
    BY <1>1, MapOKParts
<1>4. ASSUME NEW l \in Keys, l # req[r].key PROVE buckets'[l] = buckets[l]
  <2>1. Len(buckets'[l]) = Len(buckets[l]) /\ buckets[l] \in Seq(BucketType)
        /\ buckets'[l] \in Seq(BucketType)
      BY <1>1, <1>2 DEF MapOK, TypeOK
  <2>2. \A j \in 1..Len(buckets[l]) : buckets'[l][j] = buckets[l][j]
      BY <1>2, <1>4
  <2>. QED
      BY <2>1, <2>2, SeqEqual
<1>5. Bucket(r)' = Released(Bucket(r), slot[r])
    BY <1>2 DEF GivesReservationBack, Bucket
<1>6. /\ \A l \in Keys : GrantedBy(l)' = GrantedBy(l) \ {r}
      /\ r \in GrantedBy(req[r].key)
    BY <1>1, <1>2 DEF GrantedBy
<1>7. \A s \in Requests : Ahead(s)' => Ahead(s) /\ s # r
    BY <1>1, <1>2 DEF Ahead
<1>. QED
    BY <1>1, <1>2, <1>3, <1>4, <1>5, <1>6, <1>7

\* Fewer requests are let through.
LEMMA CancellationBound ==
    ASSUME NEW CONSTANT draw \in Nat, Inv(draw),
           NEW r \in Requests, WaitStep(r), GivesReservationBack(r)
    PROVE  KeyBound'
<1>1. /\ UNCHANGED slot /\ MapOK
      /\ \A l \in Keys : GrantedBy(l)' = GrantedBy(l) \ {r}
    BY CancellationFacts
<1>. SUFFICES ASSUME NEW l \in Keys, NEW a \in GrantedBy(l), NEW c \in GrantedBy(l),
                     slot[a] <= slot[c]
              PROVE  Cardinality(Between(GrantedBy(l), slot[a], slot[c])') * Interval
                        <= Capacity + (slot[c] - slot[a])
    BY <1>1 DEF KeyBound
<1>2. Cardinality(Between(GrantedBy(l), slot[a], slot[c])) * Interval
         <= Capacity + (slot[c] - slot[a])
    BY DEF Inv, KeyBound
<1>3. /\ Between(GrantedBy(l), slot[a], slot[c])' \in SUBSET Between(GrantedBy(l), slot[a], slot[c])
      /\ Between(GrantedBy(l), slot[a], slot[c]) \in SUBSET Requests
    BY <1>1 DEF Between, GrantedBy
<1>4. /\ Cardinality(Between(GrantedBy(l), slot[a], slot[c])') * Interval
            <= Cardinality(Between(GrantedBy(l), slot[a], slot[c])) * Interval
      /\ Cardinality(Between(GrantedBy(l), slot[a], slot[c])') * Interval \in Nat
      /\ Cardinality(Between(GrantedBy(l), slot[a], slot[c])) * Interval \in Nat
    BY <1>3, Counts
<1>5. slot[a] \in Nat /\ slot[c] \in Nat
    BY <1>1, GrantedFacts
<1>. QED
    BY <1>2, <1>4, <1>5, Sizes

\* Nothing is given back: the reservation is over, or later ones count on it.
LEMMA KeptCancellationInv ==
    ASSUME NEW CONSTANT draw \in Nat, Inv(draw),
           NEW r \in Requests, WaitStep(r), GivesReservationBack(r),
           Released(Bucket(r), slot[r]) = Bucket(r)
    PROVE  Inv(draw)'
<1>1. /\ MapOK /\ MapOK' /\ now \in Nat /\ req[r].key \in Keys
      /\ UNCHANGED <<now, limiters, req, held, since, slot>>
      /\ \A s \in Requests : s # r => pc'[s] = pc[s]
      /\ \A l \in Keys : Len(buckets'[l]) = Len(buckets[l])
      /\ \A l \in Keys : \A j \in 1..Len(buckets[l]) :
            l # req[r].key \/ j # held[r] => buckets'[l][j] = buckets[l][j]
      /\ \A l \in Keys : GrantedBy(l)' = GrantedBy(l) \ {r}
      /\ \A s \in Requests : Ahead(s)' => Ahead(s) /\ s # r
      /\ Bucket(r)' = Bucket(r)
    BY CancellationFacts
<1>2. ASSUME NEW l \in Keys PROVE buckets'[l] = buckets[l] /\ Current(l)' = Current(l)
  <2>1. Len(buckets'[l]) = Len(buckets[l]) /\ buckets[l] \in Seq(BucketType)
        /\ buckets'[l] \in Seq(BucketType)
      BY <1>1 DEF MapOK, TypeOK
  <2>2. \A j \in 1..Len(buckets[l]) : buckets'[l][j] = buckets[l][j]
      BY <1>1 DEF Bucket
  <2>3. buckets'[l] = buckets[l]
      BY <2>1, <2>2, SeqEqual
  <2>. QED
      BY <2>3 DEF Current
<1>3. DrawInv(draw)' /\ FullInv'
  <2>1. \A s \in Requests : pc'[s] = "waiting" => pc[s] = "waiting"
      BY <1>1 DEF GivesReservationBack
  <2>2. DrawInv(draw)'
      BY <1>1, <1>2, <2>1 DEF Inv, DrawInv, ZeroAt
  <2>3. FullInv'
      BY <1>1, <1>2 DEF Inv, FullInv, ZeroAt
  <2>. QED
      BY <2>2, <2>3
<1>4. AheadInv'
  <2>1. \A s \in Requests : Ahead(s) => Bucket(s)' = Bucket(s)
    <3>1. \A s \in Requests : Ahead(s) => req[s].key \in Keys
        BY <1>1, MapOKParts DEF Ahead
    <3>. QED
        BY <1>1, <1>2, <3>1 DEF Bucket
  <2>. QED
      BY <1>1, <2>1 DEF Inv, AheadInv, ZeroAt
<1>5. GivenInv'
  <2>. SUFFICES ASSUME NEW l \in Keys, NEW a \in GrantedBy(l)
                PROVE  Cardinality(From(GrantedBy(l), slot[a])') * Interval
                          <= Capacity + ZeroAt(Current(l)) - slot[a]
      BY <1>1, <1>2 DEF GivenInv, ZeroAt
  <2>1. Cardinality(From(GrantedBy(l), slot[a])) * Interval
           <= Capacity + ZeroAt(Current(l)) - slot[a]
      BY DEF Inv, GivenInv
  <2>2. /\ From(GrantedBy(l), slot[a])' \in SUBSET From(GrantedBy(l), slot[a])
        /\ From(GrantedBy(l), slot[a]) \in SUBSET Requests
      BY <1>1 DEF From, GrantedBy
  <2>3. /\ Cardinality(From(GrantedBy(l), slot[a])') * Interval
              <= Cardinality(From(GrantedBy(l), slot[a])) * Interval
        /\ Cardinality(From(GrantedBy(l), slot[a])') * Interval \in Nat
        /\ Cardinality(From(GrantedBy(l), slot[a])) * Interval \in Nat
      BY <2>2, Counts
  <2>4. slot[a] \in Nat /\ ZeroAt(Current(l)) \in Int
      BY <1>1, GrantedFacts
  <2>. QED
      BY <2>1, <2>3, <2>4, Sizes
<1>. QED
    BY <1>1, <1>3, <1>4, <1>5, CancellationBound DEF Inv

\* The last reservation is given back: the bucket is empty an interval earlier,
\* when the one before it is due.
LEMMA PaidCancellationInv ==
    ASSUME NEW CONSTANT draw \in Nat, TTL >= MaxStall + draw, Inv(draw),
           NEW r \in Requests, WaitStep(r), GivesReservationBack(r),
           slot[r] >= now, GivenBack(Bucket(r), slot[r]) > 0
    PROVE  Inv(draw)'
<1>. DEFINE k == req[r].key
            b == Bucket(r)
            z == ZeroAt(b)
            bb == Released(b, slot[r])
<1>1. /\ MapOK /\ MapOK' /\ now \in Nat /\ k \in Keys /\ slot[r] \in Nat
      /\ UNCHANGED <<now, limiters, req, held, since, slot>>
      /\ \A s \in Requests : s # r => pc'[s] = pc[s]
      /\ \A l \in Keys : Len(buckets'[l]) = Len(buckets[l])
      /\ \A l \in Keys : l # k => buckets'[l] = buckets[l]
      /\ Bucket(r)' = bb
      /\ \A l \in Keys : GrantedBy(l)' = GrantedBy(l) \ {r}
      /\ r \in GrantedBy(k)
      /\ \A s \in Requests : Ahead(s)' => Ahead(s) /\ s # r
    BY CancellationFacts
<1>2. Ahead(r)
    BY <1>1 DEF Ahead, GivesReservationBack
<1>3. /\ b = Current(k) /\ held[r] = Len(buckets[k]) /\ limiters[k] # NULL /\ z \in Int
    BY <1>2, AheadFacts
<1>4. /\ slot[r] = z /\ bb \in BucketType /\ ZeroAt(bb) = z - Interval
      /\ slot[r] - Interval >= now => bb.lastEvent = slot[r] - Interval
    BY <1>2, ReleasesLast
<1>5. Current(k)' = bb
    BY <1>1, <1>3 DEF Current, Bucket
<1>6. \A l \in Keys : l # k => Current(l)' = Current(l)
    BY <1>1 DEF Current
<1>7. DrawInv(draw)'
  <2>1. ASSUME NEW s \in Requests, pc'[s] = "waiting"
        PROVE  slot'[s] - since'[s] <= MaxStall + draw - Capacity
    <3>1. pc[s] = "waiting"
        BY <1>1, <2>1 DEF GivesReservationBack
    <3>. QED
        BY <1>1, <3>1 DEF Inv, DrawInv
  <2>2. ASSUME NEW l \in Keys, limiters'[l] # NULL
        PROVE  ZeroAt(Current(l)') <= limiters'[l].seen + MaxStall + draw - Capacity
    <3>1. ZeroAt(Current(l)) <= limiters[l].seen + MaxStall + draw - Capacity
        BY <1>1, <2>2 DEF Inv, DrawInv
    <3>2. CASE l = k
      <4>1. limiters[k].seen \in Nat /\ MaxStall \in Nat
          BY <1>1, <1>3, RateAssumption DEF MapOK, TypeOK, Entry
      <4>2. z <= limiters[k].seen + MaxStall + draw - Capacity
          BY <1>3, <3>1, <3>2
      <4>3. ZeroAt(Current(l)') = z - Interval /\ limiters'[l] = limiters[k]
          BY <1>1, <1>4, <1>5, <3>2
      <4>. QED
          BY <1>3, <4>1, <4>2, <4>3, Sizes, SMTT(30)
    <3>3. CASE l # k
        BY <1>1, <1>6, <3>1, <3>3
    <3>. QED
        BY <3>2, <3>3
  <2>. QED
      BY <2>1, <2>2 DEF DrawInv, ZeroAt
<1>8. FullInv'
  <2>1. ASSUME NEW l \in Keys, limiters'[l] = NULL, Len(buckets'[l]) # 0
        PROVE  ZeroAt(Current(l)') + Capacity <= now'
    <3>1. l # k /\ limiters[l] = NULL /\ Len(buckets[l]) # 0
        BY <1>1, <1>3, <2>1
    <3>. QED
        BY <1>1, <1>6, <3>1 DEF Inv, FullInv
  <2>. QED
      BY <2>1 DEF FullInv, ZeroAt
<1>9. ASSUME NEW s \in Requests, Ahead(s), s # r, req[s].key = k
      PROVE  /\ slot[s] \in Nat /\ slot[s] <= z - Interval /\ Bucket(s)' = bb
             /\ bb.lastEvent = ZeroAt(bb)
             /\ \E n \in Nat : ZeroAt(bb) = slot[s] + n * Interval
  <2>1. /\ Bucket(s) = b /\ held[s] = Len(buckets[k]) /\ slot[s] \in Nat /\ now <= slot[s]
        /\ \E n \in Nat : ZeroAt(b) = slot[s] + n * Interval
      BY <1>3, <1>9, AheadFacts
  <2>2. slot[s] # z
      BY <1>2, <1>4, <1>9 DEF Inv, AheadInv
  <2>3. PICK n \in Nat : z = slot[s] + n * Interval
      BY <2>1
  <2>4. n # 0
      BY <2>1, <2>2, <2>3, Sizes
  <2>5. /\ n * Interval \in Nat /\ n * Interval >= Interval
        /\ (n - 1) * Interval = n * Interval - Interval /\ n - 1 \in Nat
      BY <2>4, Multiples
  <2>6. ZeroAt(bb) = slot[s] + (n - 1) * Interval
      BY <1>3, <1>4, <2>1, <2>3, <2>5, Sizes
  <2>7. slot[s] <= z - Interval
      BY <1>3, <2>1, <2>3, <2>5, Sizes, SMTT(30)
  <2>8. bb.lastEvent = ZeroAt(bb)
      BY <1>1, <1>3, <1>4, <2>1, <2>7, Sizes
  <2>9. Bucket(s)' = bb
      BY <1>1, <1>3, <1>9, <2>1 DEF Bucket
  <2>. QED
      BY <2>1, <2>5, <2>6, <2>7, <2>8, <2>9
<1>10. AheadInv'
  <2>1. ASSUME NEW s \in Requests, Ahead(s)'
        PROVE  /\ (Bucket(s)').lastEvent = ZeroAt(Bucket(s)')
               /\ \E n \in Nat : ZeroAt(Bucket(s)') = slot'[s] + n * Interval
    <3>1. Ahead(s) /\ s # r /\ slot'[s] = slot[s]
        BY <1>1, <2>1
    <3>2. CASE req[s].key = k
        BY <1>9, <3>1, <3>2
    <3>3. CASE req[s].key # k
      <4>1. req[s].key \in Keys
          BY <1>1, <3>1, MapOKParts DEF Ahead
      <4>2. Bucket(s)' = Bucket(s)
          BY <1>1, <3>3, <4>1 DEF Bucket
      <4>. QED
          BY <3>1, <4>2 DEF Inv, AheadInv
    <3>. QED
        BY <3>2, <3>3
  <2>2. \A s, t \in Requests :
           s # t /\ Ahead(s)' /\ Ahead(t)' /\ req'[s].key = req'[t].key => slot'[s] # slot'[t]
      BY <1>1 DEF Inv, AheadInv
  <2>. QED
      BY <2>1, <2>2 DEF AheadInv, ZeroAt
<1>11. ASSUME NEW a \in GrantedBy(k), a # r
       PROVE  Cardinality(From(GrantedBy(k), slot[a])') * Interval
                 <= Capacity + ZeroAt(bb) - slot[a]
  <2>1. /\ a \in Requests /\ pc[a] \in {"waiting", "admitted"} /\ req[a].key = k
        /\ slot[a] \in Nat /\ (pc[a] = "admitted" => slot[a] <= now)
      BY <1>1, GrantedFacts
  <2>2. slot[a] <= slot[r]
    <3>1. CASE Ahead(a)
        BY <1>3, <1>4, <1>9, <1>11, <2>1, <3>1, Sizes
    <3>2. CASE ~Ahead(a)
        BY <1>1, <2>1, <3>2 DEF Ahead
    <3>. QED
        BY <3>1, <3>2
  <2>3. r \in From(GrantedBy(k), slot[a]) /\ From(GrantedBy(k), slot[a]) \in SUBSET Requests
      BY <1>1, <2>2 DEF From, GrantedBy
  <2>4. From(GrantedBy(k), slot[a])' \in SUBSET (From(GrantedBy(k), slot[a]) \ {r})
      BY <1>1 DEF From
  <2>5. Cardinality(From(GrantedBy(k), slot[a])') * Interval
           <= Cardinality(From(GrantedBy(k), slot[a])) * Interval - Interval
      BY <2>3, <2>4, CountsOneLess
  <2>6. Cardinality(From(GrantedBy(k), slot[a])) * Interval <= Capacity + z - slot[a]
      BY <1>1, <1>3 DEF Inv, GivenInv
  <2>7. /\ Cardinality(From(GrantedBy(k), slot[a])) * Interval \in Nat
        /\ Cardinality(From(GrantedBy(k), slot[a])') * Interval \in Nat
      BY <2>3, <2>4, Counts
  <2>. QED
      BY <1>3, <1>4, <2>1, <2>5, <2>6, <2>7, Sizes
<1>12. GivenInv'
  <2>1. ASSUME NEW l \in Keys, NEW a \in GrantedBy(l)'
        PROVE  Cardinality(From(GrantedBy(l), slot[a])') * Interval
                  <= Capacity + ZeroAt(Current(l)') - slot'[a]
    <3>1. a \in GrantedBy(l) /\ a # r /\ slot'[a] = slot[a]
        BY <1>1, <2>1
    <3>2. CASE l = k
        BY <1>1, <1>5, <1>11, <3>1, <3>2
    <3>3. CASE l # k
      <4>1. r \notin GrantedBy(l)
          BY <3>3 DEF GrantedBy
      <4>2. From(GrantedBy(l), slot[a])' = From(GrantedBy(l), slot[a])
          BY <1>1, <3>1, <4>1 DEF From
      <4>. QED
          BY <1>6, <3>1, <3>3, <4>2 DEF Inv, GivenInv
    <3>. QED
        BY <3>2, <3>3
  <2>. QED
      BY <2>1 DEF GivenInv, ZeroAt
<1>. QED
    BY <1>1, <1>7, <1>8, <1>10, <1>12, CancellationBound DEF Inv

-----------------------------------------------------------------------------
(* The invariant *)

\* Every step of Wait.
LEMMA WaitInv ==
    ASSUME NEW CONSTANT draw \in Nat, TTL >= MaxStall + draw, Inv(draw), DrawnAtMost(draw)',
           NEW r \in Requests, WaitStep(r)
    PROVE  Inv(draw)'
<1>1. GivesUp(r) \/ MakesReservation(r) \/ GoesOn(r) \/ GivesReservationBack(r)
    BY WaitFacts DEF Inv
<1>2. CASE GivesReservationBack(r)
  <2>1. CASE slot[r] < now \/ GivenBack(Bucket(r), slot[r]) <= 0
    <3>1. Released(Bucket(r), slot[r]) = Bucket(r)
        BY <2>1 DEF Released
    <3>. QED
        BY <1>2, <3>1, KeptCancellationInv
  <2>2. CASE slot[r] >= now /\ GivenBack(Bucket(r), slot[r]) > 0
      BY <1>2, <2>2, PaidCancellationInv
  <2>3. slot[r] \in Nat /\ now \in Nat /\ GivenBack(Bucket(r), slot[r]) \in Int
    <3>1. slot[r] \in Nat /\ now \in Nat /\ Bucket(r) \in BucketType
        BY <1>2, MapOKParts DEF GivesReservationBack, Inv
    <3>. QED
        BY <3>1, Sizes DEF GivenBack, BucketType
  <2>. QED
      BY <2>1, <2>2, <2>3
<1>. QED
    BY <1>1, <1>2, QuietWaitInv, ReservationInv

\* Every step that leaves no bucket short of more than draw ticks.
LEMMA StepInv ==
    ASSUME NEW CONSTANT draw \in Nat, TTL >= MaxStall + draw, Inv(draw), DrawnAtMost(draw)',
           [Next]_vars
    PROVE  Inv(draw)'
<1>1. CASE UNCHANGED vars
    BY <1>1, StutterInv
<1>2. CASE Next
    BY <1>2, GetLimiterInv, WaitInv, CancelInv, GCInv, TickInv DEF Next
<1>. QED
    BY <1>1, <1>2

\* Nothing was given away yet.
LEMMA InitInv == ASSUME NEW CONSTANT draw \in Nat, Init PROVE Inv(draw)
<1>1. \A k \in Keys : limiters[k] = NULL /\ Len(buckets[k]) = 0
    BY DEF Init
<1>2. \A r \in Requests : pc[r] = "idle"
    BY DEF Init
<1>3. \A k \in Keys : GrantedBy(k) = {}
    BY <1>2 DEF GrantedBy
<1>. QED
    BY <1>1, <1>2, <1>3, MapInit
       DEF Inv, DrawInv, FullInv, AheadInv, Ahead, GivenInv, KeyBound

\* A request counts against the key that is its device.
LEMMA DeviceBound == ASSUME MapOK, KeyBound PROVE RateBound
<1>. SUFFICES ASSUME NEW d \in Devices, NEW a \in Granted(d), NEW c \in Granted(d),
                     slot[a] <= slot[c]
              PROVE  Cardinality(Between(Granted(d), slot[a], slot[c])) * Interval
                        <= Capacity + (slot[c] - slot[a])
    BY DEF RateBound
<1>1. d \in Keys
    BY DEF Keys
<1>2. Granted(d) \in SUBSET GrantedBy(d)
    BY DEF Granted, GrantedBy, MapOK, RequestInv
<1>3. Cardinality(Between(GrantedBy(d), slot[a], slot[c])) * Interval
         <= Capacity + (slot[c] - slot[a])
    BY <1>1, <1>2 DEF KeyBound
<1>4. /\ Between(Granted(d), slot[a], slot[c]) \in SUBSET Between(GrantedBy(d), slot[a], slot[c])
      /\ Between(GrantedBy(d), slot[a], slot[c]) \in SUBSET Requests
    BY <1>2 DEF Between, GrantedBy
<1>5. /\ Cardinality(Between(Granted(d), slot[a], slot[c])) * Interval
            <= Cardinality(Between(GrantedBy(d), slot[a], slot[c])) * Interval
      /\ Cardinality(Between(Granted(d), slot[a], slot[c])) * Interval \in Nat
      /\ Cardinality(Between(GrantedBy(d), slot[a], slot[c])) * Interval \in Nat
    BY <1>4, Counts
<1>6. slot[a] \in Nat /\ slot[c] \in Nat
    BY <1>1, <1>2, GrantedFacts
<1>. QED
    BY <1>3, <1>5, <1>6, Sizes

\* A request whose reservation is ahead finds its bucket in the map.
LEMMA WaitersKeep ==
    ASSUME NEW CONSTANT draw \in Nat, TTL >= MaxStall + draw, Inv(draw)
    PROVE  WaitersKeepTheirBucket
<1>. SUFFICES ASSUME NEW r \in Requests, pc[r] = "waiting", slot[r] > now
              PROVE  OnCurrent(r)
    BY DEF WaitersKeepTheirBucket, OnCurrent
<1>1. MapOK /\ DrawInv(draw)
    BY DEF Inv
<1>2. now \in Nat /\ slot[r] \in Nat
    BY <1>1 DEF MapOK, TypeOK
<1>. QED
    BY <1>1, <1>2, KeepsBucket DEF Ahead

-----------------------------------------------------------------------------
(* How far a bucket is drawn by requests that do not wait for long *)

\* Only a reservation draws on a bucket, and it draws as much as it waits for.
LEMMA WaitsDraw ==
    ASSUME NEW CONSTANT w \in Nat, MapOK, DrawnAtMost(Capacity + w), [Next]_vars, WaitsAtMost(w)'
    PROVE  DrawnAtMost(Capacity + w)'
<1>1. ASSUME NEW k \in Keys, NEW i \in 1..Len(buckets[k])
      PROVE  buckets[k][i].level \in Int /\ buckets[k][i].level >= -w
  <2>1. buckets[k] \in Seq(BucketType)
      BY DEF MapOK, TypeOK
  <2>2. buckets[k][i] \in BucketType
      BY <2>1, ElementOfSeq
  <2>3. buckets[k][i].level >= Capacity - (Capacity + w)
      BY DEF DrawnAtMost
  <2>. QED
      BY <2>2, <2>3, Sizes DEF BucketType
<1>. SUFFICES ASSUME NEW l \in Keys, NEW i \in 1..Len(buckets'[l])
              PROVE  buckets'[l][i].level \in Int /\ buckets'[l][i].level >= -w
    BY Sizes DEF DrawnAtMost
<1>2. CASE i \in 1..Len(buckets[l]) /\ buckets'[l][i] = buckets[l][i]
    BY <1>1, <1>2
<1>3. ASSUME NEW r \in Requests, NEW q \in CallInputs, GetLimiter(r, q)
      PROVE  buckets'[l][i].level \in Int /\ buckets'[l][i].level >= -w
  <2>. DEFINE k == KeyOf(q)
  <2>1. now \in Nat /\ TypeOK /\ FullBucket \in BucketType /\ FullBucket.level = Capacity
      BY Sizes DEF MapOK, TypeOK, FullBucket, BucketType
  <2>2. k \in Keys
      BY <2>1, CallFacts
  <2>3. CASE UNCHANGED buckets
      BY <1>2, <2>3
  <2>4. CASE buckets' = [buckets EXCEPT ![k] = Append(@, FullBucket)]
    <3>1. /\ Len(buckets[k]) \in Nat /\ Len(buckets'[k]) = Len(buckets[k]) + 1
          /\ buckets'[k][Len(buckets[k]) + 1] = FullBucket
          /\ \A j \in 1..Len(buckets[k]) : buckets'[k][j] = buckets[k][j]
          /\ \A m \in Keys : m # k => buckets'[m] = buckets[m]
        BY <2>1, <2>2, <2>4, Appended
    <3>2. buckets'[l][i] = FullBucket \/ (i \in 1..Len(buckets[l]) /\ buckets'[l][i] = buckets[l][i])
        BY <3>1
    <3>. QED
        BY <1>2, <2>1, <3>2, Sizes
  <2>. QED
      BY <1>3, <2>3, <2>4 DEF GetLimiter
<1>4. ASSUME NEW r \in Requests, WaitStep(r)
      PROVE  buckets'[l][i].level \in Int /\ buckets'[l][i].level >= -w
  <2>1. /\ GivesUp(r) \/ MakesReservation(r) \/ GoesOn(r) \/ GivesReservationBack(r)
        /\ UNCHANGED now /\ i \in 1..Len(buckets[l])
        /\ l # req[r].key \/ i # held[r] => buckets'[l][i] = buckets[l][i]
      BY <1>4, WaitFacts
  <2>2. pc[r] # "idle"
      BY <2>1 DEF GivesUp, MakesReservation, GoesOn, GivesReservationBack
  <2>3. /\ now \in Nat /\ slot[r] \in Nat
        /\ Bucket(r) \in BucketType /\ Bucket(r).last <= now /\ Bucket(r).level <= Capacity
      BY <2>2, MapOKParts
  <2>4. CASE MakesReservation(r) /\ l = req[r].key /\ i = held[r]
    <3>1. buckets'[l][i] = Reserved(Bucket(r))
        BY <2>4 DEF MakesReservation
    <3>2. Reserved(Bucket(r)).level = Taken(Bucket(r)) /\ Taken(Bucket(r)) \in Int
      <4>1. Advance(Bucket(r)) \in Int
          BY <2>3, Advances
      <4>. QED
          BY <4>1, Sizes DEF Reserved, Taken
    <3>3. CASE Delay(Bucket(r)) = 0
        BY <3>1, <3>2, <3>3 DEF Delay
    <3>4. CASE Delay(Bucket(r)) # 0
      <4>1. pc'[r] = "waiting" /\ slot'[r] = now + Delay(Bucket(r)) /\ Delay(Bucket(r)) \in Nat
          BY <2>3, <2>4, <3>4, Reserves DEF MakesReservation
      <4>2. slot'[r] - now <= w
          BY <2>1, <4>1 DEF WaitsAtMost
      <4>. QED
          BY <2>3, <3>1, <3>2, <4>1, <4>2 DEF Delay
    <3>. QED
        BY <3>3, <3>4
  <2>5. CASE GivesReservationBack(r) /\ l = req[r].key /\ i = held[r]
    <3>1. buckets'[l][i] = Released(Bucket(r), slot[r]) /\ Bucket(r) = buckets[l][i]
        BY <2>5 DEF GivesReservationBack, Bucket
    <3>2. Bucket(r).level \in Int /\ GivenBack(Bucket(r), slot[r]) \in Int
        BY <2>3, Sizes DEF BucketType, GivenBack
    <3>3. CASE slot[r] < now \/ GivenBack(Bucket(r), slot[r]) <= 0
        BY <1>1, <2>1, <3>1, <3>3 DEF Released
    <3>4. CASE slot[r] >= now /\ GivenBack(Bucket(r), slot[r]) > 0
      <4>1. /\ Released(Bucket(r), slot[r]).level \in Int
            /\ Released(Bucket(r), slot[r]).level >= Bucket(r).level
          BY <2>3, <3>4, Releases
      <4>2. Bucket(r).level >= -w
          BY <1>1, <2>1, <3>1
      <4>. QED
          BY <3>1, <3>2, <4>1, <4>2
    <3>. QED
        BY <2>3, <3>2, <3>3, <3>4
  <2>6. CASE GivesUp(r) \/ GoesOn(r) \/ l # req[r].key \/ i # held[r]
      BY <1>2, <2>1, <2>6 DEF GivesUp, GoesOn
  <2>. QED
      BY <2>1, <2>4, <2>5, <2>6
<1>5. CASE UNCHANGED vars
    BY <1>2, <1>5 DEF vars
<1>6. ASSUME NEW r \in Requests, Cancel(r)
      PROVE  buckets'[l][i].level \in Int /\ buckets'[l][i].level >= -w
    BY <1>2, <1>6 DEF Cancel
<1>7. CASE GC \/ Tick
    BY <1>2, <1>7 DEF GC, Tick
<1>. QED
    BY <1>3, <1>4, <1>5, <1>6, <1>7 DEF Next

\* What is invariant as long as nobody waits for more than w ticks.
WaitsInv(w) == Inv(Capacity + w) /\ DrawnAtMost(Capacity + w)

\* There is no bucket yet.
LEMMA InitWaits == ASSUME NEW CONSTANT w \in Nat, Init PROVE WaitsInv(w)
<1>1. Capacity + w \in Nat
    BY Sizes
<1>2. \A k \in Keys : Len(buckets[k]) = 0
    BY DEF Init
<1>. QED
    BY <1>1, <1>2, InitInv DEF WaitsInv, DrawnAtMost

\* Every step after which nobody waits for more than w ticks.
LEMMA StepWaits ==
    ASSUME NEW CONSTANT w \in Nat, TTL >= MaxStall + Capacity + w, WaitsInv(w),
           WaitsAtMost(w)', [Next]_vars
    PROVE  WaitsInv(w)'
<1>1. Capacity + w \in Nat /\ TTL >= MaxStall + (Capacity + w)
    BY Sizes, RateAssumption
<1>2. DrawnAtMost(Capacity + w)'
    BY WaitsDraw DEF WaitsInv, Inv
<1>. QED
    BY <1>1, <1>2, StepInv DEF WaitsInv

\* As long as no request has to wait for so long that its wait and the refill
\* of its bucket exceed the TTL, the rate is bounded.
THEOREM RateBoundedWhile ==
    ASSUME NEW CONSTANT w \in Nat, TTL >= MaxStall + Capacity + w
    PROVE  Spec /\ []WaitsAtMost(w) => []RateBound
<1>1. Init => WaitsInv(w)
    BY InitWaits
<1>2. WaitsInv(w) /\ [Next]_vars /\ WaitsAtMost(w)' => WaitsInv(w)'
    BY StepWaits
<1>3. WaitsInv(w) => RateBound
    BY DeviceBound DEF WaitsInv, Inv
<1>. QED
    BY <1>1, <1>2, <1>3, PTL DEF Spec

\* Under the same condition no bucket is removed from the map while a
\* reservation on it is ahead.
THEOREM WaitersKeepBucketWhile ==
    ASSUME NEW CONSTANT w \in Nat, TTL >= MaxStall + Capacity + w
    PROVE  Spec /\ []WaitsAtMost(w) => []WaitersKeepTheirBucket
<1>1. Init => WaitsInv(w)
    BY InitWaits
<1>2. WaitsInv(w) /\ [Next]_vars /\ WaitsAtMost(w)' => WaitsInv(w)'
    BY StepWaits
<1>3. WaitsInv(w) => WaitersKeepTheirBucket
  <2>1. Capacity + w \in Nat /\ TTL >= MaxStall + (Capacity + w)
      BY Sizes, RateAssumption
  <2>. QED
      BY <2>1, WaitersKeep DEF WaitsInv
<1>. QED
    BY <1>1, <1>2, <1>3, PTL DEF Spec

-----------------------------------------------------------------------------
(* How far a bucket is drawn by any number of requests *)

\* The requests that drew on bucket i of key k.
Drawers(k, i) ==
    {r \in Requests : pc[r] \notin {"idle", "got"} /\ req[r].key = k /\ held[r] = i}

\* A bucket is short of no more than an interval for each of them.
DrawnInv ==
    \A k \in Keys : \A i \in 1..Len(buckets[k]) :
        buckets[k][i].level >= Capacity - Cardinality(Drawers(k, i)) * Interval

\* A bucket that is not lower, and on which no fewer requests drew.
LEMMA DrawnKept ==
    ASSUME MapOK, DrawnInv, NEW k \in Keys, NEW i \in 1..Len(buckets[k]),
           buckets'[k][i].level \in Int, buckets'[k][i].level >= buckets[k][i].level,
           Drawers(k, i) \subseteq Drawers(k, i)'
    PROVE  buckets'[k][i].level >= Capacity - Cardinality(Drawers(k, i)') * Interval
<1>1. buckets[k] \in Seq(BucketType)
    BY DEF MapOK, TypeOK
<1>2. buckets[k][i] \in BucketType
    BY <1>1, ElementOfSeq
<1>3. buckets[k][i].level \in Int
    BY <1>2 DEF BucketType
<1>4. buckets[k][i].level >= Capacity - Cardinality(Drawers(k, i)) * Interval
    BY DEF DrawnInv
<1>5. Drawers(k, i)' \in SUBSET Requests /\ Drawers(k, i) \in SUBSET Drawers(k, i)'
    BY DEF Drawers
<1>6. /\ Cardinality(Drawers(k, i)) * Interval <= Cardinality(Drawers(k, i)') * Interval
      /\ Cardinality(Drawers(k, i)) * Interval \in Nat
      /\ Cardinality(Drawers(k, i)') * Interval \in Nat
    BY <1>5, Counts
<1>. QED
    BY <1>3, <1>4, <1>6, Sizes

\* A reservation takes an interval from a bucket; nothing else takes any.
LEMMA DrawnStep == ASSUME MapOK, DrawnInv, [Next]_vars PROVE DrawnInv'
<1>1. MapOK'
    BY MapStep
<1>2. ASSUME NEW k \in Keys, NEW i \in 1..Len(buckets[k])
      PROVE  buckets[k][i] \in BucketType /\ buckets[k][i].level \in Int
  <2>1. buckets[k] \in Seq(BucketType)
      BY DEF MapOK, TypeOK
  <2>2. buckets[k][i] \in BucketType
      BY <2>1, ElementOfSeq
  <2>. QED
      BY <2>2 DEF BucketType
<1>3. CASE UNCHANGED <<buckets, pc, req, held>>
  <2>1. \A k \in Keys : \A i \in 1..Len(buckets[k]) : Drawers(k, i)' = Drawers(k, i)
      BY <1>3 DEF Drawers
  <2>. QED
      BY <1>3, <2>1 DEF DrawnInv
<1>4. ASSUME NEW r \in Requests, NEW q \in CallInputs, GetLimiter(r, q) PROVE DrawnInv'
  <2>. DEFINE k == KeyOf(q)
  <2>1. /\ pc[r] = "idle" /\ pc'[r] = "got"
        /\ \A s \in Requests : s # r =>
              pc'[s] = pc[s] /\ req'[s] = req[s] /\ held'[s] = held[s]
      BY <1>4 DEF GetLimiter, MapOK, TypeOK
  <2>2. \A l \in Keys : \A i \in Nat : Drawers(l, i)' = Drawers(l, i)
      BY <2>1 DEF Drawers
  <2>3. now \in Nat /\ TypeOK /\ FullBucket \in BucketType /\ FullBucket.level = Capacity
      BY Sizes DEF MapOK, TypeOK, FullBucket, BucketType
  <2>4. k \in Keys
      BY <2>3, CallFacts
  <2>. SUFFICES ASSUME NEW l \in Keys, NEW i \in 1..Len(buckets'[l])
                PROVE  buckets'[l][i].level >= Capacity - Cardinality(Drawers(l, i)') * Interval
      BY DEF DrawnInv
  <2>5. \/ i \in 1..Len(buckets[l]) /\ buckets'[l][i] = buckets[l][i]
        \/ buckets'[l][i] = FullBucket
    <3>1. CASE UNCHANGED buckets
        BY <3>1
    <3>2. CASE buckets' = [buckets EXCEPT ![k] = Append(@, FullBucket)]
      <4>1. /\ Len(buckets[k]) \in Nat /\ Len(buckets'[k]) = Len(buckets[k]) + 1
            /\ buckets'[k][Len(buckets[k]) + 1] = FullBucket
            /\ \A j \in 1..Len(buckets[k]) : buckets'[k][j] = buckets[k][j]
            /\ \A m \in Keys : m # k => buckets'[m] = buckets[m]
          BY <2>3, <2>4, <3>2, Appended
      <4>. QED
          BY <4>1
    <3>. QED
        BY <1>4, <3>1, <3>2 DEF GetLimiter
  <2>6. CASE i \in 1..Len(buckets[l]) /\ buckets'[l][i] = buckets[l][i]
    <3>1. Drawers(l, i) \subseteq Drawers(l, i)'
        BY <2>2
    <3>2. buckets[l][i].level \in Int
        BY <1>2, <2>6
    <3>. QED
        BY <2>6, <3>1, <3>2, DrawnKept
  <2>7. CASE buckets'[l][i] = FullBucket
    <3>1. Drawers(l, i)' \in SUBSET Requests
        BY DEF Drawers
    <3>2. Cardinality(Drawers(l, i)') * Interval \in Nat
        BY <3>1, Counts
    <3>. QED
        BY <2>3, <2>7, <3>2, Sizes
  <2>. QED
      BY <2>5, <2>6, <2>7
<1>5. ASSUME NEW r \in Requests, WaitStep(r) PROVE DrawnInv'
  <2>1. /\ GivesUp(r) \/ MakesReservation(r) \/ GoesOn(r) \/ GivesReservationBack(r)
        /\ UNCHANGED <<now, req, held>>
        /\ \A s \in Requests : s # r => pc'[s] = pc[s]
        /\ \A l \in Keys : Len(buckets'[l]) = Len(buckets[l])
        /\ \A l \in Keys : \A j \in 1..Len(buckets[l]) :
              l # req[r].key \/ j # held[r] => buckets'[l][j] = buckets[l][j]
      BY <1>5, WaitFacts
  <2>2. pc[r] # "idle" /\ pc'[r] \notin {"idle", "got"}
      BY <2>1 DEF GivesUp, MakesReservation, GoesOn, GivesReservationBack
  <2>3. /\ req[r].key \in Keys /\ held[r] \in 1..Len(buckets[req[r].key]) /\ now \in Nat
        /\ Bucket(r) \in BucketType /\ Bucket(r).last <= now /\ Bucket(r).level <= Capacity
        /\ slot[r] \in Nat
      BY <2>2, MapOKParts
  <2>4. ASSUME NEW l \in Keys, NEW i \in Nat PROVE Drawers(l, i) \subseteq Drawers(l, i)'
      BY <2>1, <2>2 DEF Drawers
  <2>. SUFFICES ASSUME NEW l \in Keys, NEW i \in 1..Len(buckets[l])
                PROVE  buckets'[l][i].level >= Capacity - Cardinality(Drawers(l, i)') * Interval
      BY <2>1 DEF DrawnInv
  <2>5. CASE buckets'[l][i] = buckets[l][i]
    <3>1. Drawers(l, i) \subseteq Drawers(l, i)'
        BY <2>4
    <3>2. buckets[l][i].level \in Int
        BY <1>2
    <3>. QED
        BY <2>5, <3>1, <3>2, DrawnKept
  <2>6. CASE MakesReservation(r) /\ l = req[r].key /\ i = held[r]
    <3>1. buckets'[l][i] = Reserved(Bucket(r)) /\ Bucket(r) = buckets[l][i]
        BY <2>6 DEF MakesReservation, Bucket
    <3>2. Reserved(Bucket(r)).level = Advance(Bucket(r)) - Interval
        BY <2>3, Reserves
    <3>3. Advance(Bucket(r)) \in Int /\ Advance(Bucket(r)) >= Bucket(r).level
        BY <2>3, Advances
    <3>4. r \in Drawers(l, i)' /\ r \notin Drawers(l, i)
        BY <2>1, <2>2, <2>6 DEF Drawers, MakesReservation
    <3>5. /\ Drawers(l, i)' \in SUBSET Requests
          /\ Drawers(l, i) \in SUBSET (Drawers(l, i)' \ {r})
        BY <2>4, <3>4 DEF Drawers
    <3>6. Cardinality(Drawers(l, i)) * Interval
             <= Cardinality(Drawers(l, i)') * Interval - Interval
        BY <3>4, <3>5, CountsOneLess
    <3>7. /\ Cardinality(Drawers(l, i)) * Interval \in Nat
          /\ Cardinality(Drawers(l, i)') * Interval \in Nat
        BY <3>5, Counts
    <3>8. /\ Bucket(r).level \in Int
          /\ Bucket(r).level >= Capacity - Cardinality(Drawers(l, i)) * Interval
        BY <1>2, <3>1 DEF DrawnInv
    <3>. QED
        BY <3>1, <3>2, <3>3, <3>6, <3>7, <3>8, Sizes
  <2>7. CASE GivesReservationBack(r) /\ l = req[r].key /\ i = held[r]
    <3>1. /\ buckets'[l][i] = Released(Bucket(r), slot[r]) /\ Bucket(r) = buckets[l][i]
        BY <2>7 DEF GivesReservationBack, Bucket
    <3>2. /\ Released(Bucket(r), slot[r]).level \in Int
          /\ Released(Bucket(r), slot[r]).level >= Bucket(r).level
      <4>1. Bucket(r).level \in Int /\ GivenBack(Bucket(r), slot[r]) \in Int
          BY <2>3, Sizes DEF BucketType, GivenBack
      <4>2. CASE slot[r] < now \/ GivenBack(Bucket(r), slot[r]) <= 0
          BY <4>1, <4>2 DEF Released
      <4>3. CASE slot[r] >= now /\ GivenBack(Bucket(r), slot[r]) > 0
          BY <2>3, <4>3, Releases
      <4>. QED
          BY <2>3, <4>1, <4>2, <4>3
    <3>3. Drawers(l, i) \subseteq Drawers(l, i)'
        BY <2>4
    <3>. QED
        BY <3>1, <3>2, <3>3, DrawnKept
  <2>8. CASE (GivesUp(r) \/ GoesOn(r)) \/ l # req[r].key \/ i # held[r]
      BY <2>1, <2>5, <2>8 DEF GivesUp, GoesOn
  <2>. QED
      BY <2>1, <2>6, <2>7, <2>8
<1>6. CASE UNCHANGED vars
    BY <1>3, <1>6 DEF vars
<1>7. ASSUME NEW r \in Requests, Cancel(r) PROVE DrawnInv'
    BY <1>3, <1>7 DEF Cancel
<1>8. CASE GC \/ Tick
    BY <1>3, <1>8 DEF GC, Tick
<1>. QED
    BY <1>4, <1>5, <1>6, <1>7, <1>8 DEF Next

\* No bucket is short of more than an interval for each request.
LEMMA DrawnBound ==
    ASSUME MapOK, DrawnInv PROVE DrawnAtMost(Cardinality(Requests) * Interval)
<1>. SUFFICES ASSUME NEW k \in Keys, NEW i \in 1..Len(buckets[k])
              PROVE  buckets[k][i].level >= Capacity - Cardinality(Requests) * Interval
    BY DEF DrawnAtMost
<1>1. buckets[k] \in Seq(BucketType)
    BY DEF MapOK, TypeOK
<1>2. buckets[k][i] \in BucketType
    BY <1>1, ElementOfSeq
<1>3. buckets[k][i].level \in Int
    BY <1>2 DEF BucketType
<1>4. buckets[k][i].level >= Capacity - Cardinality(Drawers(k, i)) * Interval
    BY DEF DrawnInv
<1>5. Drawers(k, i) \in SUBSET Requests /\ Requests \in SUBSET Requests
    BY DEF Drawers
<1>6. /\ Cardinality(Drawers(k, i)) * Interval <= Cardinality(Requests) * Interval
      /\ Cardinality(Drawers(k, i)) * Interval \in Nat
      /\ Cardinality(Requests) * Interval \in Nat
    BY <1>5, Counts
<1>. QED
    BY <1>3, <1>4, <1>6, Sizes

\* There is no bucket yet.
LEMMA InitDrawn == Init => DrawnInv
<1>1. ASSUME Init PROVE \A k \in Keys : Len(buckets[k]) = 0
    BY <1>1 DEF Init
<1>. QED
    BY <1>1 DEF DrawnInv

\* However the requests are scheduled, a bucket is short of no more than an
\* interval for each of them.
THEOREM DrawIsBounded == Spec => []DrawnAtMost(Cardinality(Requests) * Interval)
<1>1. Init => DrawnInv
    BY InitDrawn
<1>2. MapOK /\ DrawnInv /\ [Next]_vars => DrawnInv'
    BY DrawnStep
<1>3. MapOK /\ DrawnInv => DrawnAtMost(Cardinality(Requests) * Interval)
    BY DrawnBound
<1>. QED
    BY <1>1, <1>2, <1>3, MapInvariance, PTL DEF Spec

\* With a TTL that covers them all, a device gets no more than the burst and
\* what is refilled, in any stretch of time, over both APIs, across
\* cancellations and the removal of idle entries.
THEOREM RateBounded ==
    ASSUME TTL >= MaxStall + Cardinality(Requests) * Interval
    PROVE  Spec => []RateBound
<1>1. Cardinality(Requests) * Interval \in Nat
  <2>1. Requests \in SUBSET Requests
      OBVIOUS
  <2>. QED
      BY <2>1, Counts
<1>2. Init => Inv(Cardinality(Requests) * Interval)
    BY <1>1, InitInv
<1>3. /\ Inv(Cardinality(Requests) * Interval) /\ [Next]_vars
      /\ DrawnAtMost(Cardinality(Requests) * Interval)'
      => Inv(Cardinality(Requests) * Interval)'
    BY <1>1, StepInv
<1>4. Inv(Cardinality(Requests) * Interval) => RateBound
    BY DeviceBound DEF Inv
<1>. QED
    BY <1>2, <1>3, <1>4, DrawIsBounded, PTL DEF Spec

\* With such a TTL a request that waits shares its bucket with the requests
\* that come after it.
THEOREM WaitersKeepBucket ==
    ASSUME TTL >= MaxStall + Cardinality(Requests) * Interval
    PROVE  Spec => []WaitersKeepTheirBucket
<1>1. Cardinality(Requests) * Interval \in Nat
  <2>1. Requests \in SUBSET Requests
      OBVIOUS
  <2>. QED
      BY <2>1, Counts
<1>2. Init => Inv(Cardinality(Requests) * Interval)
    BY <1>1, InitInv
<1>3. /\ Inv(Cardinality(Requests) * Interval) /\ [Next]_vars
      /\ DrawnAtMost(Cardinality(Requests) * Interval)'
      => Inv(Cardinality(Requests) * Interval)'
    BY <1>1, StepInv
<1>4. Inv(Cardinality(Requests) * Interval) => WaitersKeepTheirBucket
    BY <1>1, WaitersKeep
<1>. QED
    BY <1>2, <1>3, <1>4, DrawIsBounded, PTL DEF Spec

=============================================================================
