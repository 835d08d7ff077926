-------------------------- MODULE WorkerPoolProofs --------------------------
(***************************************************************************)
(* Proofs that the safety properties of WorkerPool hold for every number   *)
(* of workers and of jobs.                                                 *)
(*                                                                         *)
(* CountsJobs, which the others rest on, is inductive together with the    *)
(* type invariant.  What it is used for is not: that the wait of Close,    *)
(* and the one of the setup, is over when the jobs are.  SetupInv and      *)
(* CloseInv say which goroutines may still use the wait group and the      *)
(* channels in every phase of the tool, and ReleaseInv what is known       *)
(* between the last Done and the release of those who wait for it.         *)
(***************************************************************************)
EXTENDS WorkerPool, FiniteSetTheorems, SequenceTheorems, TLAPS

\* The goroutines that the wait group counts a job for, and their statements.
Counted == {"busy", "report", "done", "select", "parked", "undo"}
Held == {p \in Procs : pc[p] \in Counted}

\* The statements of QueueJob: the caller has a job to queue.
Queuing == {"check", "add", "select", "parked", "undo", "release"}
QueueInv == \A c \in Callers : pc[c] \in Queuing => toQueue[c] > 0

\* The waiter starts when the setup has queued its jobs, the simulation when
\* the waiter is done.  Until then nobody adds to the wait group.
SetupInv ==
    /\ pc["waiter"] # "out" => pc["main"] \in {"await", "drain", "returned", "failed"}
    /\ pc["main"] \in {"drain", "returned"} => pc["waiter"] = "drained"
    /\ pc["producer"] # "out" \/ pc["closer"] # "out" => pc["main"] \in {"drain", "returned"}
    /\ pc["waiter"] = "woken" => wg = 0
    /\ pc["waiter"] # "panicked"

\* How far Close has come; after its wait there is nothing left to do.
Idle == jobs = <<>> /\ \A w \in Workers : ~Working(w)

CloseInv ==
    /\ pc["closer"] \in {"out", "armed"} => closed = {}
    /\ pc["closer"] = "closeJobs" => closed = {"closed"}
    /\ pc["closer"] \in {"wait", "waiting", "woken", "drained", "panicked"} =>
          closed = {"closed", "jobs"}
    /\ pc["closer"] = "finished" => closed = {"closed", "jobs", "errs"}
    /\ pc["closer"] \notin {"out", "armed"} => interrupted
    /\ pc["closer"] \in {"drained", "finished"} => Idle

\* No job of a kind is queued or running.
None(kind) ==
    /\ \A i \in 1..Len(jobs) : jobs[i] # kind
    /\ \A w \in Workers : Working(w) => doing[w] # kind

\* The jobs of the setup and those of the simulation never meet.
KindInv ==
    /\ pc["waiter"] # "drained" => None("record")
    /\ pc["waiter"] = "drained" => None("configure")

\* Who releases is alone, and releases somebody.  Until then nothing is
\* counted: who adds ends the tool.
ReleaseInv ==
    /\ \A p, q \in Releasing : p = q
    /\ Releasing # {} => pc["waiter"] = "waiting" \/ pc["closer"] = "waiting"
    /\ Releasing # {} => Over \/ wg = 0

\* The inductive invariant.
Inv == /\ TypeOK /\ CountsJobs /\ QueueInv /\ SetupInv
       /\ CloseInv /\ KindInv /\ ReleaseInv /\ PanicsOnlyOnInterrupt

-----------------------------------------------------------------------------
(* Lemmas about goroutines, the wait group and the channels *)

\* The goroutines that are not workers.
LEMMA Names ==
    /\ Workers \subseteq Procs /\ Callers \subseteq Procs
    /\ "main" \in Callers /\ "producer" \in Callers
    /\ "waiter" \in Procs /\ "closer" \in Procs
    /\ "main" \notin Workers /\ "producer" \notin Workers
    /\ "waiter" \notin Workers /\ "closer" \notin Workers
BY PoolAssumption DEF Procs, Callers

\* The wait group counts finitely many goroutines.
LEMMA HeldFinite == IsFiniteSet(Held) /\ Cardinality(Held) \in Nat
<1>1. IsFiniteSet({}) /\ IsFiniteSet({"waiter", "closer"}) /\ IsFiniteSet(Callers)
  <2>1. IsFiniteSet({})
      BY FS_EmptySet
  <2>2. IsFiniteSet({"waiter"}) /\ IsFiniteSet({"main"})
      BY FS_Singleton
  <2>3. IsFiniteSet({"waiter"} \cup {"closer"}) /\ IsFiniteSet({"main"} \cup {"producer"})
      BY <2>2, FS_AddElement
  <2>4. {"waiter"} \cup {"closer"} = {"waiter", "closer"} /\ {"main"} \cup {"producer"} = Callers
      BY DEF Callers
  <2>. QED
      BY <2>1, <2>3, <2>4
<1>2. IsFiniteSet(Workers \cup Callers)
    BY <1>1, PoolAssumption, FS_Union
<1>3. IsFiniteSet(Procs)
    BY <1>1, <1>2, FS_Union DEF Procs
<1>4. Held \subseteq Procs
    BY DEF Held
<1>. QED
    BY <1>3, <1>4, FS_Subset, FS_CardinalityType

\* A goroutine that comes to hold a job.
LEMMA Enter ==
    ASSUME NEW p, p \notin Held, Held' = Held \cup {p}
    PROVE  Cardinality(Held') = Cardinality(Held) + 1
BY HeldFinite, FS_AddElement

\* A goroutine that lets go of one.
LEMMA Leave ==
    ASSUME NEW p, p \in Held, Held' = Held \ {p}
    PROVE  Cardinality(Held') = Cardinality(Held) - 1 /\ Cardinality(Held) >= 1
<1>1. Cardinality(Held') = Cardinality(Held) - 1 /\ IsFiniteSet(Held')
    BY HeldFinite, FS_RemoveElement
<1>2. Cardinality(Held') \in Nat
    BY <1>1, FS_CardinalityType
<1>. QED
    BY <1>1, <1>2, HeldFinite

\* A parked caller hands its job over to the channel, and a worker takes one.
LEMMA HandOver ==
    ASSUME NEW p, NEW q, p \in Held, q \notin Held, Held' = (Held \ {p}) \cup {q}
    PROVE  Cardinality(Held') = Cardinality(Held)
<1>1. Cardinality(Held \ {p}) = Cardinality(Held) - 1 /\ IsFiniteSet(Held \ {p})
    BY HeldFinite, FS_RemoveElement
<1>2. Cardinality((Held \ {p}) \cup {q}) = Cardinality(Held \ {p}) + 1
    BY <1>1, FS_AddElement
<1>. QED
    BY <1>1, <1>2, HeldFinite

\* The count stays right when both sides change by the same amount.
LEMMA Recount ==
    ASSUME TypeOK, TypeOK', CountsJobs, ~Over, NEW d \in Int, NEW e \in Int,
           Len(jobs') = Len(jobs) + d, Cardinality(Held') = Cardinality(Held) + e,
           wg' = wg + d + e
    PROVE  CountsJobs'
<1>1. wg = Len(jobs) + Cardinality(Held)
    BY DEF CountsJobs, Held, Counted
<1>2. Len(jobs) \in Nat /\ wg \in Nat
    BY LenProperties DEF TypeOK
<1>3. wg' = Len(jobs') + Cardinality(Held')
    BY <1>1, <1>2, HeldFinite
<1>. QED
    BY <1>3 DEF CountsJobs, Held, Counted

\* When the counter is zero, nothing is queued and nobody holds a job.
LEMMA ZeroMeansIdle ==
    ASSUME TypeOK, CountsJobs, ~Over, wg = 0
    PROVE  Held = {} /\ Idle
<1>1. wg = Len(jobs) + Cardinality(Held)
    BY DEF CountsJobs, Held, Counted
<1>2. Len(jobs) \in Nat /\ (Len(jobs) = 0 => jobs = <<>>)
    BY LenProperties, EmptySeq DEF TypeOK
<1>3. Len(jobs) = 0 /\ Cardinality(Held) = 0
    BY <1>1, <1>2, HeldFinite
<1>4. Held = {}
    BY <1>3, HeldFinite, FS_EmptySet
<1>5. \A w \in Workers : ~Working(w)
    BY <1>4, Names DEF Held, Counted, Working
<1>. QED
    BY <1>2, <1>3, <1>4, <1>5 DEF Idle

\* A step that neither starts nor ends a release.
LEMMA Unreleased ==
    ASSUME ReleaseInv, ~Over,
           \A p \in Procs : pc'[p] = "release" => pc[p] = "release",
           \A p \in {"waiter", "closer"} : pc[p] = "waiting" => pc'[p] = "waiting",
           wg' = wg \/ Releasing = {}
    PROVE  ReleaseInv'
<1>1. Releasing' \subseteq Releasing
    BY DEF Releasing
<1>. QED
    BY <1>1 DEF ReleaseInv

\* A job at the end of the channel.
LEMMA Sent ==
    ASSUME NEW s \in Seq(Kinds), NEW k \in Kinds
    PROVE  /\ Append(s, k) \in Seq(Kinds) /\ Append(s, k) # <<>>
           /\ Len(Append(s, k)) = Len(s) + 1
           /\ \A i \in 1..Len(Append(s, k)) :
                 Append(s, k)[i] = k \/ \E j \in 1..Len(s) : Append(s, k)[i] = s[j]
BY AppendProperties, LenProperties

\* A job is taken from its front.
LEMMA Taken ==
    ASSUME NEW s \in Seq(Kinds), s # <<>>
    PROVE  /\ Tail(s) \in Seq(Kinds) /\ Head(s) \in Kinds
           /\ Len(Tail(s)) = Len(s) - 1 /\ Len(s) >= 1
           /\ \E j \in 1..Len(s) : Head(s) = s[j]
           /\ \A i \in 1..Len(Tail(s)) : \E j \in 1..Len(s) : Tail(s)[i] = s[j]
<1>1. Len(s) \in Nat /\ Len(s) >= 1
    BY LenProperties, EmptySeq
<1>2. /\ Tail(s) \in Seq(Kinds) /\ Head(s) \in Kinds
      /\ Len(Tail(s)) = Len(s) - 1
      /\ \A i \in 1..Len(Tail(s)) : Tail(s)[i] = s[i + 1]
    BY HeadTailProperties
<1>3. Head(s) = s[1]
    BY <1>1
<1>4. ASSUME NEW i \in 1..Len(Tail(s)) PROVE \E j \in 1..Len(s) : Tail(s)[i] = s[j]
  <2>1. i + 1 \in 1..Len(s)
      BY <1>1, <1>2
  <2>. QED
      BY <1>2, <2>1
<1>. QED
    BY <1>1, <1>2, <1>3, <1>4

-----------------------------------------------------------------------------
(* The steps of a caller of QueueJob *)

\* The loops decide whether there is another job.
LEMMA NextJobInv == ASSUME Inv, ~Over, NEW c \in Callers, NextJob(c) PROVE Inv'
<1>. USE Names DEF Inv, Goto
<1>1. /\ pc[c] = "next"
      /\ \/ pc' = [pc EXCEPT ![c] = "check"] /\ toQueue[c] > 0
         \/ pc' = [pc EXCEPT ![c] = "out"] /\ c = "producer"
      /\ UNCHANGED <<jobs, errs, closed, wg, doing, toQueue, interrupted>>
    BY DEF NextJob
<1>2. TypeOK'
    BY <1>1 DEF TypeOK, CallerPlaces, Callers
<1>3. Held' = Held
    BY <1>1 DEF TypeOK, Held, Counted
<1>4. CountsJobs'
    BY <1>1, <1>3 DEF CountsJobs, Held, Counted
<1>5. QueueInv'
    BY <1>1 DEF QueueInv, Queuing, TypeOK
<1>6. SetupInv'
    BY <1>1 DEF SetupInv, TypeOK, Callers
<1>7. CloseInv'
    BY <1>1 DEF CloseInv, Idle, Working, TypeOK, Callers
<1>8. KindInv'
    BY <1>1 DEF KindInv, None, Working, TypeOK, Callers
<1>9. PanicsOnlyOnInterrupt'
    BY <1>1 DEF PanicsOnlyOnInterrupt, TypeOK
<1>10. ReleaseInv'
    BY <1>1, Unreleased DEF TypeOK
<1>. QED
    BY <1>2, <1>4, <1>5, <1>6, <1>7, <1>8, <1>9, <1>10

\* A job that is dropped was not counted.
LEMMA CheckInv == ASSUME Inv, ~Over, NEW c \in Callers, Check(c) PROVE Inv'
<1>. USE Names DEF Inv, Goto
<1>1. /\ pc[c] = "check"
      /\ \/ pc' = AfterQueue(c) /\ OneQueued(c)
         \/ pc' = [pc EXCEPT ![c] = "add"] /\ UNCHANGED toQueue
      /\ UNCHANGED <<jobs, errs, closed, wg, doing, interrupted>>
    BY DEF Check
<1>2. TypeOK'
    BY <1>1 DEF TypeOK, QueueInv, Queuing, AfterQueue, OneQueued, CallerPlaces, Callers
<1>3. Held' = Held
    BY <1>1 DEF TypeOK, Held, Counted, AfterQueue
<1>4. CountsJobs'
    BY <1>1, <1>3 DEF CountsJobs, Held, Counted
<1>5. QueueInv'
    BY <1>1 DEF QueueInv, Queuing, TypeOK, AfterQueue, OneQueued
<1>6. SetupInv'
    BY <1>1 DEF SetupInv, TypeOK, Callers, AfterQueue
<1>7. CloseInv'
    BY <1>1 DEF CloseInv, Idle, Working, TypeOK, Callers, AfterQueue
<1>8. KindInv'
    BY <1>1 DEF KindInv, None, Working, TypeOK, Callers, AfterQueue
<1>9. PanicsOnlyOnInterrupt'
    BY <1>1 DEF PanicsOnlyOnInterrupt, TypeOK, AfterQueue
<1>10. ReleaseInv'
    BY <1>1, Unreleased DEF TypeOK, AfterQueue
<1>. QED
    BY <1>2, <1>4, <1>5, <1>6, <1>7, <1>8, <1>9, <1>10


\* The job is counted before it is offered.
LEMMA AddFine ==
    ASSUME Inv, ~Over, NEW c \in Callers, Add(c), Releasing = {}
    PROVE  Inv'
<1>. USE Names DEF Inv, Goto
<1>1. /\ pc[c] = "add" /\ wg' = wg + 1
      /\ pc' = [pc EXCEPT ![c] = "select"]
      /\ UNCHANGED <<jobs, errs, closed, doing, toQueue, interrupted>>
    BY DEF Add, CountUp
<1>2. TypeOK'
    BY <1>1 DEF TypeOK, CallerPlaces, Callers
<1>3. c \notin Held /\ Held' = Held \cup {c}
    BY <1>1 DEF TypeOK, Held, Counted
<1>4. CountsJobs'
  <2>1. Cardinality(Held') = Cardinality(Held) + 1
      BY <1>3, Enter
  <2>2. wg' = wg + 0 + 1 /\ Len(jobs') = Len(jobs) + 0
      BY <1>1, LenProperties DEF TypeOK
  <2>. QED
      BY <1>2, <2>1, <2>2, Recount
<1>5. QueueInv'
    BY <1>1 DEF QueueInv, Queuing, TypeOK
<1>6. SetupInv'
    BY <1>1 DEF SetupInv, TypeOK, Callers
<1>7. CloseInv'
    BY <1>1 DEF CloseInv, Idle, Working, TypeOK, Callers
<1>8. KindInv'
    BY <1>1 DEF KindInv, None, Working, TypeOK, Callers
<1>9. PanicsOnlyOnInterrupt'
    BY <1>1 DEF PanicsOnlyOnInterrupt, TypeOK
<1>10. ReleaseInv'
    BY <1>1, Unreleased DEF TypeOK, Callers
<1>. QED
    BY <1>2, <1>4, <1>5, <1>6, <1>7, <1>8, <1>9, <1>10

\* While somebody releases, to add panics.  Only Close can wait then, since the
\* setup has queued its jobs when the waiter starts: the interrupt has come.
LEMMA AddMisused ==
    ASSUME Inv, ~Over, NEW c \in Callers, Add(c), Releasing # {}
    PROVE  Inv'
<1>. USE Names DEF Inv
<1>1. pc[c] = "add" /\ wg' = wg + 1 /\ UNCHANGED <<jobs, errs, closed, doing, toQueue, interrupted>>
    BY DEF Add, CountUp
<1>2. PICK p \in Releasing \cup {c} : pc' = [pc EXCEPT ![p] = "panicked"]
    BY DEF Add, CountUp, Goto
<1>3. p \in Procs /\ p \in Workers \cup Callers /\ pc[p] \in {"release", "add"}
    BY <1>1, <1>2 DEF Releasing, TypeOK, WaitPlaces, Procs
<1>4. interrupted
  <2>1. pc["waiter"] # "waiting"
      BY <1>1 DEF SetupInv, Callers
  <2>2. pc["closer"] = "waiting"
      BY <2>1 DEF ReleaseInv
  <2>. QED
      BY <2>2 DEF CloseInv
<1>5. TypeOK'
    BY <1>1, <1>2, <1>3 DEF TypeOK, WorkerPlaces, CallerPlaces, Callers
<1>6. CountsJobs'
  <2>1. pc'[p] = "panicked"
      BY <1>2, <1>3 DEF TypeOK
  <2>. QED
      BY <1>3, <2>1 DEF CountsJobs, Over
<1>7. QueueInv'
    BY <1>1, <1>2, <1>3 DEF QueueInv, Queuing, TypeOK
<1>8. SetupInv'
  <2>1. pc["waiter"] # "woken"
      BY <1>1 DEF SetupInv, Callers
  <2>. QED
      BY <1>1, <1>2, <1>3, <2>1 DEF SetupInv, TypeOK, Callers
<1>9. CloseInv'
    BY <1>1, <1>2, <1>3 DEF CloseInv, Idle, Working, TypeOK, Callers
<1>10. KindInv'
    BY <1>1, <1>2, <1>3 DEF KindInv, None, Working, TypeOK, Callers
<1>11. PanicsOnlyOnInterrupt'
    BY <1>1, <1>4, Zenon DEF PanicsOnlyOnInterrupt
<1>12. ReleaseInv'
  <2>1. Over'
      BY <1>2, <1>3 DEF TypeOK, Over
  <2>2. Releasing' \subseteq Releasing
      BY <1>2 DEF Releasing, TypeOK
  <2>3. pc'["waiter"] = pc["waiter"] /\ pc'["closer"] = pc["closer"]
      BY <1>2, <1>3 DEF TypeOK, Callers
  <2>. QED
      BY <2>1, <2>2, <2>3 DEF ReleaseInv
<1>. QED
    BY <1>5, <1>6, <1>7, <1>8, <1>9, <1>10, <1>11, <1>12

\* The job goes from the caller to the channel.  It is one of the setup until
\* the waiter is done, and one of the simulation from then on.
LEMMA SendInv ==
    ASSUME Inv, ~Over, NEW c \in Callers, pc[c] = "select", Send(c),
           UNCHANGED <<errs, closed, wg, doing, interrupted>>
    PROVE  Inv'
<1>. USE Names DEF Inv, Goto
<1>1. /\ "jobs" \notin closed /\ Len(jobs) < N
      /\ jobs' = Append(jobs, Kind(c))
      /\ pc' = AfterQueue(c) /\ OneQueued(c)
    BY DEF Send
<1>2. Kind(c) \in Kinds /\ jobs \in Seq(Kinds)
    BY DEF Kind, Kinds, TypeOK
<1>3. Len(jobs) \in Nat /\ N \in Nat
    BY <1>2, LenProperties, PoolAssumption, FS_CardinalityType DEF N
<1>4. jobs' \in Seq(Kinds) /\ Len(jobs') = Len(jobs) + 1
    BY <1>1, <1>2, Sent
<1>5. TypeOK'
  <2>1. jobs' \in Seq(Kinds) /\ Len(jobs') <= N
      BY <1>1, <1>3, <1>4
  <2>. QED
      BY <1>1, <2>1 DEF TypeOK, QueueInv, Queuing, AfterQueue, OneQueued, CallerPlaces, Callers
<1>6. c \in Held /\ Held' = Held \ {c}
    BY <1>1 DEF TypeOK, Held, Counted, AfterQueue
<1>7. CountsJobs'
  <2>1. Cardinality(Held') = Cardinality(Held) + (-1)
      BY <1>6, Leave, HeldFinite
  <2>2. wg' = wg + 1 + (-1)
      BY DEF TypeOK
  <2>. QED
      BY <1>4, <1>5, <2>1, <2>2, Recount
<1>8. QueueInv'
    BY <1>1 DEF QueueInv, Queuing, TypeOK, AfterQueue, OneQueued
<1>9. SetupInv'
    BY <1>1 DEF SetupInv, TypeOK, Callers, AfterQueue
<1>10. CloseInv'
  <2>1. pc["closer"] \notin {"drained", "finished"}
      BY <1>1 DEF CloseInv
  <2>. QED
      BY <1>1, <2>1 DEF CloseInv, TypeOK, Callers, AfterQueue
<1>11. KindInv'
  <2>1. c = "main" => pc["waiter"] # "drained" /\ Kind(c) = "configure"
      BY DEF SetupInv, Kind
  <2>2. c = "producer" => pc["waiter"] = "drained" /\ Kind(c) = "record"
      BY DEF SetupInv, Kind
  <2>3. UNCHANGED pc["waiter"] /\ \A w \in Workers : UNCHANGED pc[w]
      BY <1>1 DEF TypeOK, AfterQueue, Callers
  <2>4. ASSUME NEW k, k # Kind(c), None(k) PROVE None(k)'
      BY <1>1, <1>2, <2>3, <2>4, Sent DEF None, Working
  <2>. QED
      BY <2>1, <2>2, <2>3, <2>4 DEF KindInv, Callers
<1>12. PanicsOnlyOnInterrupt'
    BY <1>1 DEF PanicsOnlyOnInterrupt, TypeOK, AfterQueue
<1>13. ReleaseInv'
    BY <1>1, Unreleased DEF TypeOK, AfterQueue
<1>. QED
    BY <1>5, <1>7, <1>8, <1>9, <1>10, <1>11, <1>12, <1>13

\* The other cases of the select: the caller is parked, or finds the pool
\* closed, and then the interrupt has come.
LEMMA SelectInv == ASSUME Inv, ~Over, NEW c \in Callers, Select(c) PROVE Inv'
<1>. USE Names DEF Inv, Goto
<1>1. CASE Send(c)
    BY <1>1, SendInv DEF Select
<1>2. CASE ~Send(c)
  <2>1. PICK there \in {"panicked", "undo", "parked"} :
           /\ pc' = [pc EXCEPT ![c] = there]
           /\ there = "panicked" => "jobs" \in closed
      BY <1>2 DEF Select
  <2>2. pc[c] = "select" /\ UNCHANGED <<jobs, errs, closed, wg, doing, toQueue, interrupted>>
      BY <1>2 DEF Select
  <2>3. TypeOK'
      BY <2>1, <2>2 DEF TypeOK, CallerPlaces, Callers
  <2>4. CountsJobs'
    <3>1. CASE there = "panicked"
      <4>1. pc'[c] = "panicked" /\ c \in Procs
          BY <2>1, <3>1 DEF TypeOK
      <4>. QED
          BY <4>1 DEF CountsJobs, Over
    <3>2. CASE there # "panicked"
      <4>1. Held' = Held
          BY <2>1, <2>2, <3>2 DEF TypeOK, Held, Counted
      <4>. QED
          BY <2>2, <4>1 DEF CountsJobs, Held, Counted
    <3>. QED
        BY <3>1, <3>2
  <2>5. QueueInv'
      BY <2>1, <2>2 DEF QueueInv, Queuing, TypeOK
  <2>6. SetupInv'
      BY <2>1, <2>2 DEF SetupInv, TypeOK, Callers
  <2>7. CloseInv'
      BY <2>1, <2>2 DEF CloseInv, Idle, Working, TypeOK, Callers
  <2>8. KindInv'
      BY <2>1, <2>2 DEF KindInv, None, Working, TypeOK, Callers
  <2>9. PanicsOnlyOnInterrupt'
    <3>1. there = "panicked" => interrupted
        BY <2>1 DEF CloseInv
    <3>2. \A p \in Procs : pc'[p] = "panicked" => pc[p] = "panicked" \/ there = "panicked"
        BY <2>1 DEF TypeOK
    <3>3. interrupted' = interrupted
        BY <2>2
    <3>. QED
        BY <3>1, <3>2, <3>3, Zenon DEF PanicsOnlyOnInterrupt
  <2>10. ReleaseInv'
      BY <2>1, <2>2, Unreleased DEF TypeOK, Callers
  <2>. QED
      BY <2>3, <2>4, <2>5, <2>6, <2>7, <2>8, <2>9, <2>10
<1>. QED
    BY <1>1, <1>2


\* Done: the counter goes down with the goroutine that held a job, and it is
\* about to release whoever waits for zero.
LEMMA DoneFacts ==
    ASSUME TypeOK, CountsJobs, ReleaseInv, ~Over, NEW p \in Procs, p \in Held, NEW there,
           DOMAIN there = Procs, there[p] \notin Counted \cup {"release"},
           \A q \in Procs : q # p => there[q] = pc[q],
           p \notin {"waiter", "closer"}, Done(p, there)
    PROVE  /\ wg \in Nat /\ wg >= 1 /\ wg' = wg - 1
           /\ DOMAIN pc' = Procs /\ pc'[p] = IF IsLast THEN "release" ELSE there[p]
           /\ \A q \in Procs : q # p => pc'[q] = pc[q]
           /\ Cardinality(Held') = Cardinality(Held) + (-1)
           /\ ReleaseInv'
<1>1. wg = Len(jobs) + Cardinality(Held)
    BY DEF CountsJobs, Held, Counted
<1>2. Len(jobs) \in Nat /\ wg \in Nat
    BY LenProperties DEF TypeOK
<1>3. wg' = wg - 1
    BY DEF Done
<1>4. /\ DOMAIN pc' = Procs /\ pc'[p] = IF IsLast THEN "release" ELSE there[p]
      /\ \A q \in Procs : q # p => pc'[q] = pc[q]
    BY DEF Done, Goto, TypeOK
<1>5. Held' = Held \ {p}
    BY <1>4 DEF Held, Counted
<1>6. Cardinality(Held') = Cardinality(Held) + (-1) /\ Cardinality(Held) >= 1
    BY <1>5, Leave, HeldFinite
<1>7. wg >= 1
    BY <1>1, <1>2, <1>6, HeldFinite
<1>8. ReleaseInv'
  <2>1. Releasing = {}
      BY <1>7 DEF ReleaseInv
  <2>2. Releasing' \subseteq {p}
      BY <1>4, <2>1 DEF Releasing
  <2>3. CASE IsLast
    <3>1. PICK q \in Procs : pc[q] = "waiting"
        BY <2>3 DEF IsLast
    <3>2. q \in {"waiter", "closer"}
        BY <3>1 DEF TypeOK, Procs, Callers, WorkerPlaces, CallerPlaces
    <3>3. pc'[q] = "waiting" /\ wg' = 0
        BY <1>3, <1>4, <2>3, <3>1, <3>2 DEF IsLast
    <3>. QED
        BY <2>2, <3>2, <3>3 DEF ReleaseInv
  <2>4. CASE ~IsLast
    <3>1. Releasing' = {}
        BY <1>4, <2>2, <2>4 DEF Releasing
    <3>. QED
        BY <3>1 DEF ReleaseInv
  <2>. QED
      BY <2>3, <2>4
<1>. QED
    BY <1>2, <1>3, <1>4, <1>6, <1>7, <1>8

\* The end of Done: those who wait go on.
LEMMA ReleaseFacts ==
    ASSUME TypeOK, ReleaseInv, ~Over, NEW p \in Procs, NEW there,
           DOMAIN there = Procs, there[p] \notin Counted \cup {"release", "waiting", "panicked"},
           \A q \in Procs : q # p => there[q] = pc[q],
           Release(p, there)
    PROVE  /\ wg = 0 /\ DOMAIN pc' = Procs /\ pc'[p] = there[p]
           /\ \A q \in Procs : q # p =>
                 pc'[q] = pc[q] \/ (pc[q] = "waiting" /\ pc'[q] = "woken")
           /\ Held' = Held /\ ReleaseInv'
<1>1. p \in Releasing /\ wg = 0
    BY DEF Release, Releasing, ReleaseInv
<1>2. DOMAIN pc' = Procs /\ pc'[p] = there[p]
    BY DEF Release
<1>3. ASSUME NEW q \in Procs, q # p
      PROVE  pc'[q] = pc[q] \/ (pc[q] = "waiting" /\ pc'[q] = "woken")
    BY <1>3 DEF Release
<1>4. Held' = Held
    BY <1>1, <1>2, <1>3 DEF Held, Counted, Releasing
<1>5. Releasing' = {}
    BY <1>1, <1>2, <1>3 DEF Releasing, ReleaseInv
<1>. QED
    BY <1>1, <1>2, <1>3, <1>4, <1>5 DEF ReleaseInv

\* A caller that finds the pool closed takes its job back.
LEMMA UndoInv == ASSUME Inv, ~Over, NEW c \in Callers, Undo(c) PROVE Inv'
<1>. USE Names DEF Inv
<1>1. /\ pc[c] = "undo" /\ Done(c, AfterQueue(c))
      /\ IF IsLast THEN UNCHANGED toQueue ELSE OneQueued(c)
      /\ UNCHANGED <<jobs, errs, closed, doing, interrupted>>
    BY DEF Undo
<1>2. /\ DOMAIN AfterQueue(c) = Procs
      /\ AfterQueue(c)[c] \in {"setup", "next"}
      /\ c # "main" => AfterQueue(c)[c] = "next"
      /\ c = "main" /\ toQueue[c] # 1 => AfterQueue(c)[c] = "next"
      /\ \A q \in Procs : q # c => AfterQueue(c)[q] = pc[q]
    BY DEF AfterQueue, Goto, TypeOK
<1>3. c \in Held
    BY <1>1 DEF Held, Counted
<1>4. /\ wg \in Nat /\ wg >= 1 /\ wg' = wg - 1
      /\ DOMAIN pc' = Procs /\ pc'[c] = IF IsLast THEN "release" ELSE AfterQueue(c)[c]
      /\ \A q \in Procs : q # c => pc'[q] = pc[q]
      /\ Cardinality(Held') = Cardinality(Held) + (-1)
      /\ ReleaseInv'
  <2>1. AfterQueue(c)[c] \notin Counted \cup {"release"} /\ c \notin {"waiter", "closer"}
      BY <1>2 DEF Counted, Callers
  <2>. QED
      BY <1>1, <1>2, <1>3, <2>1, DoneFacts
<1>5. TypeOK'
  <2>1. wg' \in Nat
      BY <1>4
  <2>2. toQueue' \in [Callers -> Nat]
      BY <1>1 DEF TypeOK, QueueInv, Queuing, OneQueued
  <2>3. \A w \in Workers : pc'[w] = pc[w]
      BY <1>4 DEF Callers
  <2>4. /\ pc'["main"] \in CallerPlaces \cup {"setup", "await", "drain", "returned", "failed"}
        /\ pc'["producer"] \in CallerPlaces \cup {"out"}
        /\ pc'["waiter"] \in WaitPlaces
        /\ pc'["closer"] \in WaitPlaces \cup {"armed", "closeJobs", "finished"}
      BY <1>2, <1>4 DEF TypeOK, CallerPlaces, Callers
  <2>. QED
      BY <1>1, <1>4, <2>1, <2>2, <2>3, <2>4 DEF TypeOK
<1>6. CountsJobs'
  <2>1. wg' = wg + 0 + (-1) /\ Len(jobs') = Len(jobs) + 0
      BY <1>1, <1>4, LenProperties DEF TypeOK
  <2>. QED
      BY <1>4, <1>5, <2>1, Recount
<1>7. QueueInv'
    BY <1>1, <1>2, <1>4 DEF QueueInv, Queuing, TypeOK, OneQueued
<1>8. SetupInv'
    BY <1>1, <1>2, <1>4 DEF SetupInv, TypeOK, Callers
<1>9. CloseInv'
    BY <1>1, <1>2, <1>4 DEF CloseInv, Idle, Working, TypeOK, Callers
<1>10. KindInv'
    BY <1>1, <1>2, <1>4 DEF KindInv, None, Working, TypeOK, Callers
<1>11. PanicsOnlyOnInterrupt'
    BY <1>1, <1>2, <1>4 DEF PanicsOnlyOnInterrupt
<1>. QED
    BY <1>4, <1>5, <1>6, <1>7, <1>8, <1>9, <1>10, <1>11

\* It may have to release Close.
LEMMA UndoReleasesInv == ASSUME Inv, ~Over, NEW c \in Callers, UndoReleases(c) PROVE Inv'
<1>. USE Names DEF Inv
<1>1. /\ Release(c, AfterQueue(c)) /\ pc[c] = "release" /\ OneQueued(c)
      /\ UNCHANGED <<jobs, errs, closed, wg, doing, interrupted>>
    BY DEF UndoReleases, Release
<1>2. /\ DOMAIN AfterQueue(c) = Procs
      /\ AfterQueue(c)[c] \in {"setup", "next"}
      /\ c # "main" => AfterQueue(c)[c] = "next"
      /\ c = "main" /\ toQueue[c] # 1 => AfterQueue(c)[c] = "next"
      /\ \A q \in Procs : q # c => AfterQueue(c)[q] = pc[q]
    BY DEF AfterQueue, Goto, TypeOK
<1>3. /\ wg = 0 /\ DOMAIN pc' = Procs /\ pc'[c] = AfterQueue(c)[c]
      /\ \A q \in Procs : q # c =>
            pc'[q] = pc[q] \/ (pc[q] = "waiting" /\ pc'[q] = "woken")
      /\ Held' = Held /\ ReleaseInv'
  <2>1. AfterQueue(c)[c] \notin Counted \cup {"release", "waiting", "panicked"}
      BY <1>2 DEF Counted
  <2>. QED
      BY <1>1, <1>2, <2>1, ReleaseFacts
<1>4. TypeOK'
  <2>1. toQueue' \in [Callers -> Nat]
      BY <1>1 DEF TypeOK, QueueInv, Queuing, OneQueued
  <2>2. \A w \in Workers : pc'[w] = pc[w]
      BY <1>3 DEF TypeOK, WorkerPlaces, Callers
  <2>3. /\ pc'["main"] \in CallerPlaces \cup {"setup", "await", "drain", "returned", "failed"}
        /\ pc'["producer"] \in CallerPlaces \cup {"out"}
        /\ pc'["waiter"] \in WaitPlaces
        /\ pc'["closer"] \in WaitPlaces \cup {"armed", "closeJobs", "finished"}
      BY <1>2, <1>3 DEF TypeOK, CallerPlaces, WaitPlaces, Callers
  <2>. QED
      BY <1>1, <1>3, <2>1, <2>2, <2>3 DEF TypeOK
<1>5. CountsJobs'
    BY <1>1, <1>3 DEF CountsJobs, Held, Counted
<1>6. QueueInv'
    BY <1>1, <1>2, <1>3 DEF QueueInv, Queuing, TypeOK, OneQueued
<1>7. SetupInv'
    BY <1>1, <1>2, <1>3 DEF SetupInv, TypeOK, Callers, CallerPlaces, WaitPlaces
<1>8. CloseInv'
    BY <1>1, <1>2, <1>3 DEF CloseInv, Idle, Working, TypeOK, Callers, WorkerPlaces
<1>9. KindInv'
    BY <1>1, <1>2, <1>3 DEF KindInv, None, Working, TypeOK, Callers, WorkerPlaces
<1>10. PanicsOnlyOnInterrupt'
    BY <1>1, <1>2, <1>3 DEF PanicsOnlyOnInterrupt
<1>. QED
    BY <1>3, <1>4, <1>5, <1>6, <1>7, <1>8, <1>9, <1>10

-----------------------------------------------------------------------------
(* The steps of a worker *)

\* A job goes from the channel to a worker, and one of a parked caller may
\* take its place.
LEMMA ReceiveInv == ASSUME Inv, ~Over, NEW w \in Workers, Receive(w) PROVE Inv'
<1>. USE Names DEF Inv, Goto
<1>1. /\ pc[w] = "idle" /\ jobs # <<>>
      /\ doing' = [doing EXCEPT ![w] = Head(jobs)]
      /\ UNCHANGED <<errs, closed, wg, interrupted>>
    BY DEF Receive
<1>2. jobs \in Seq(Kinds) /\ Len(jobs) \in Nat /\ N \in Nat /\ Len(jobs) <= N
    BY LenProperties, PoolAssumption, FS_CardinalityType DEF TypeOK, N
<1>3. /\ Tail(jobs) \in Seq(Kinds) /\ Head(jobs) \in Kinds
      /\ Len(Tail(jobs)) = Len(jobs) - 1 /\ Len(jobs) >= 1
      /\ \E j \in 1..Len(jobs) : Head(jobs) = jobs[j]
      /\ \A i \in 1..Len(Tail(jobs)) : \E j \in 1..Len(jobs) : Tail(jobs)[i] = jobs[j]
    BY <1>1, <1>2, Taken
<1>4. doing' \in [Workers -> Kinds \cup {"nothing"}]
    BY <1>1, <1>3 DEF TypeOK
<1>5. pc["closer"] \notin {"drained", "finished"}
    BY <1>1 DEF CloseInv, Idle
<1>6. CASE /\ \A c \in Callers : pc[c] # "parked"
           /\ jobs' = Tail(jobs)
           /\ pc' = Goto(w, "busy") /\ UNCHANGED toQueue
  <2>1. TypeOK'
    <3>1. jobs' \in Seq(Kinds) /\ Len(jobs') <= N
        BY <1>2, <1>3, <1>6
    <3>. QED
        BY <1>1, <1>4, <1>6, <3>1 DEF TypeOK, WorkerPlaces, Callers
  <2>2. CountsJobs'
    <3>1. w \notin Held /\ Held' = Held \cup {w}
        BY <1>1, <1>6 DEF TypeOK, Held, Counted
    <3>2. Cardinality(Held') = Cardinality(Held) + 1
        BY <3>1, Enter
    <3>3. wg' = wg + (-1) + 1 /\ Len(jobs') = Len(jobs) + (-1)
        BY <1>1, <1>2, <1>3, <1>6 DEF TypeOK
    <3>. QED
        BY <2>1, <3>2, <3>3, Recount
  <2>3. QueueInv'
      BY <1>6 DEF QueueInv, Queuing, TypeOK, Callers
  <2>4. SetupInv'
      BY <1>1, <1>6 DEF SetupInv, TypeOK, Callers
  <2>5. CloseInv'
      BY <1>1, <1>5, <1>6 DEF CloseInv, TypeOK, Callers
  <2>6. KindInv'
    <3>1. UNCHANGED pc["waiter"]
        BY <1>6 DEF TypeOK
    <3>2. ASSUME NEW k, None(k) PROVE None(k)'
      <4>1. \A i \in 1..Len(jobs') : jobs'[i] # k
          BY <1>3, <1>6, <3>2 DEF None
      <4>2. \A v \in Workers : Working(v)' => doing'[v] # k
          BY <1>1, <1>3, <1>6, <3>2 DEF None, Working, TypeOK
      <4>. QED
          BY <4>1, <4>2 DEF None
    <3>. QED
        BY <3>1, <3>2 DEF KindInv
  <2>7. PanicsOnlyOnInterrupt'
      BY <1>1, <1>6 DEF PanicsOnlyOnInterrupt, TypeOK
  <2>8. ReleaseInv'
      BY <1>1, <1>6, Unreleased DEF TypeOK
  <2>. QED
      BY <2>1, <2>2, <2>3, <2>4, <2>5, <2>6, <2>7, <2>8
<1>7. CASE \E c \in Callers :
              /\ pc[c] = "parked"
              /\ jobs' = Append(Tail(jobs), Kind(c))
              /\ pc' = [AfterQueue(c) EXCEPT ![w] = "busy"] /\ OneQueued(c)
  <2>1. PICK c \in Callers :
              /\ pc[c] = "parked"
              /\ jobs' = Append(Tail(jobs), Kind(c))
              /\ pc' = [AfterQueue(c) EXCEPT ![w] = "busy"] /\ OneQueued(c)
      BY <1>7
  <2>2. /\ DOMAIN pc' = Procs /\ pc'[w] = "busy" /\ c # w
        /\ pc'[c] \in {"setup", "next"}
        /\ c # "main" => pc'[c] = "next"
        /\ c = "main" /\ toQueue[c] # 1 => pc'[c] = "next"
        /\ \A q \in Procs : q # c /\ q # w => pc'[q] = pc[q]
      BY <2>1 DEF AfterQueue, TypeOK, Callers
  <2>3. Kind(c) \in Kinds
      BY DEF Kind, Kinds
  <2>4. /\ jobs' \in Seq(Kinds) /\ Len(jobs') = Len(jobs)
        /\ \A i \in 1..Len(jobs') : jobs'[i] = Kind(c) \/ \E j \in 1..Len(jobs) : jobs'[i] = jobs[j]
    <3>1. /\ jobs' \in Seq(Kinds) /\ Len(jobs') = Len(Tail(jobs)) + 1
          /\ \A i \in 1..Len(jobs') :
                jobs'[i] = Kind(c) \/ \E j \in 1..Len(Tail(jobs)) : jobs'[i] = Tail(jobs)[j]
        BY <1>3, <2>1, <2>3, Sent
    <3>. QED
        BY <1>2, <1>3, <3>1
  <2>5. TypeOK'
    <3>1. toQueue' \in [Callers -> Nat]
        BY <2>1 DEF TypeOK, QueueInv, Queuing, OneQueued
    <3>2. Len(jobs') <= N
        BY <1>2, <2>4
    <3>. QED
        BY <1>1, <1>4, <2>2, <2>4, <3>1, <3>2 DEF TypeOK, WorkerPlaces, CallerPlaces, Callers
  <2>6. CountsJobs'
    <3>1. c \in Held /\ w \notin Held /\ Held' = (Held \ {c}) \cup {w}
        BY <1>1, <2>1, <2>2 DEF Held, Counted
    <3>2. Cardinality(Held') = Cardinality(Held) + 0
      <4>1. Cardinality(Held') = Cardinality(Held)
          BY <3>1, HandOver
      <4>. QED
          BY <4>1, HeldFinite
    <3>3. wg' = wg + 0 + 0 /\ Len(jobs') = Len(jobs) + 0
        BY <1>1, <1>2, <2>4 DEF TypeOK
    <3>. QED
        BY <2>5, <3>2, <3>3, Recount
  <2>7. QueueInv'
      BY <2>1, <2>2 DEF QueueInv, Queuing, TypeOK, OneQueued, Callers
  <2>8. SetupInv'
      BY <1>1, <2>1, <2>2 DEF SetupInv, TypeOK, Callers
  <2>9. CloseInv'
      BY <1>1, <1>5, <2>2 DEF CloseInv, TypeOK, Callers
  <2>10. KindInv'
    <3>1. c = "main" => pc["waiter"] # "drained" /\ Kind(c) = "configure"
        BY <2>1 DEF SetupInv, Kind
    <3>2. c = "producer" => pc["waiter"] = "drained" /\ Kind(c) = "record"
        BY <2>1 DEF SetupInv, Kind
    <3>3. UNCHANGED pc["waiter"]
        BY <2>2 DEF Callers
    <3>4. ASSUME NEW k, k # Kind(c), None(k) PROVE None(k)'
      <4>1. \A i \in 1..Len(jobs') : jobs'[i] # k
          BY <2>4, <3>4 DEF None
      <4>2. \A v \in Workers : Working(v)' => doing'[v] # k
          BY <1>1, <1>3, <2>2, <3>4 DEF None, Working, TypeOK, Callers
      <4>. QED
          BY <4>1, <4>2 DEF None
    <3>. QED
        BY <3>1, <3>2, <3>3, <3>4 DEF KindInv, Callers
  <2>11. PanicsOnlyOnInterrupt'
      BY <1>1, <2>1, <2>2 DEF PanicsOnlyOnInterrupt, TypeOK, Callers
  <2>12. ReleaseInv'
      BY <1>1, <2>1, <2>2, Unreleased DEF TypeOK, Callers
  <2>. QED
      BY <2>5, <2>6, <2>7, <2>8, <2>9, <2>10, <2>11, <2>12
<1>. QED
    BY <1>6, <1>7 DEF Receive

\* A job that is running or reports is still counted.  The errs channel is
\* open then: Close is not past its wait.
LEMMA ReportInv == ASSUME Inv, ~Over, NEW w \in Workers, Finish(w) \/ Report(w) PROVE Inv'
<1>. USE Names DEF Inv, Goto
<1>1. pc[w] \in {"busy", "report"} /\ "errs" \notin closed
  <2>1. pc[w] \in {"busy", "report"}
      BY DEF Finish, Report
  <2>2. pc["closer"] \notin {"drained", "finished"}
      BY <2>1 DEF CloseInv, Idle, Working
  <2>. QED
      BY <2>1, <2>2 DEF CloseInv, TypeOK, WaitPlaces
<1>2. /\ \E there \in {"report", "done"} : pc' = [pc EXCEPT ![w] = there]
      /\ errs' = errs \/ (errs < N /\ errs' = errs + 1)
      /\ UNCHANGED <<jobs, closed, wg, doing, toQueue, interrupted>>
    BY <1>1 DEF Finish, Report
<1>3. PICK there \in {"report", "done"} : pc' = [pc EXCEPT ![w] = there]
    BY <1>2
<1>4. TypeOK'
  <2>1. errs' \in 0..N
    <3>1. N \in Nat
        BY PoolAssumption, FS_CardinalityType DEF N
    <3>. QED
        BY <1>2, <3>1 DEF TypeOK
  <2>. QED
      BY <1>2, <1>3, <2>1 DEF TypeOK, WorkerPlaces
<1>5. CountsJobs'
  <2>1. Held' = Held
      BY <1>1, <1>3 DEF TypeOK, Held, Counted
  <2>. QED
      BY <1>2, <2>1 DEF CountsJobs, Held, Counted
<1>6. QueueInv'
    BY <1>2, <1>3 DEF QueueInv, Queuing, TypeOK, Callers
<1>7. SetupInv'
    BY <1>2, <1>3 DEF SetupInv, TypeOK
<1>8. CloseInv'
    BY <1>1, <1>2, <1>3 DEF CloseInv, Idle, Working, TypeOK
<1>9. KindInv'
    BY <1>1, <1>2, <1>3 DEF KindInv, None, Working, TypeOK
<1>10. PanicsOnlyOnInterrupt'
    BY <1>2, <1>3 DEF PanicsOnlyOnInterrupt, TypeOK
<1>11. ReleaseInv'
    BY <1>2, <1>3, Unreleased DEF TypeOK
<1>. QED
    BY <1>4, <1>5, <1>6, <1>7, <1>8, <1>9, <1>10, <1>11

\* The job is counted out.
LEMMA JobDoneInv == ASSUME Inv, ~Over, NEW w \in Workers, JobDone(w) PROVE Inv'
<1>. USE Names DEF Inv
<1>1. /\ pc[w] = "done" /\ Done(w, Goto(w, "idle"))
      /\ UNCHANGED <<jobs, errs, closed, doing, toQueue, interrupted>>
    BY DEF JobDone
<1>2. /\ DOMAIN Goto(w, "idle") = Procs /\ Goto(w, "idle")[w] = "idle"
      /\ \A q \in Procs : q # w => Goto(w, "idle")[q] = pc[q]
    BY DEF Goto, TypeOK
<1>3. w \in Held
    BY <1>1 DEF Held, Counted
<1>4. /\ wg \in Nat /\ wg >= 1 /\ wg' = wg - 1
      /\ DOMAIN pc' = Procs /\ pc'[w] \in {"release", "idle"}
      /\ \A q \in Procs : q # w => pc'[q] = pc[q]
      /\ Cardinality(Held') = Cardinality(Held) + (-1)
      /\ ReleaseInv'
  <2>1. "idle" \notin Counted \cup {"release"} /\ w \notin {"waiter", "closer"}
      BY DEF Counted
  <2>. QED
      BY <1>1, <1>2, <1>3, <2>1, DoneFacts
<1>5. TypeOK'
  <2>1. wg' \in Nat
      BY <1>4
  <2>2. \A v \in Workers : pc'[v] \in WorkerPlaces
      BY <1>4 DEF TypeOK, WorkerPlaces
  <2>3. \A q \in Callers \cup {"waiter", "closer"} : pc'[q] = pc[q]
      BY <1>4 DEF Callers
  <2>. QED
      BY <1>1, <1>4, <2>1, <2>2, <2>3 DEF TypeOK
<1>6. CountsJobs'
  <2>1. wg' = wg + 0 + (-1) /\ Len(jobs') = Len(jobs) + 0
      BY <1>1, <1>4, LenProperties DEF TypeOK
  <2>. QED
      BY <1>4, <1>5, <2>1, Recount
<1>7. QueueInv'
    BY <1>1, <1>4 DEF QueueInv, Queuing, TypeOK, Callers
<1>8. SetupInv'
    BY <1>1, <1>4 DEF SetupInv, TypeOK, Callers, CallerPlaces, WaitPlaces
<1>9. CloseInv'
    BY <1>1, <1>4 DEF CloseInv, Idle, Working, TypeOK, Callers, WorkerPlaces
<1>10. KindInv'
    BY <1>1, <1>4 DEF KindInv, None, Working, TypeOK, Callers, WorkerPlaces
<1>11. PanicsOnlyOnInterrupt'
    BY <1>1, <1>4 DEF PanicsOnlyOnInterrupt
<1>. QED
    BY <1>4, <1>5, <1>6, <1>7, <1>8, <1>9, <1>10, <1>11

\* The worker releases whoever waits for the last job: the waiter, or Close.
LEMMA JobReleasesInv == ASSUME Inv, ~Over, NEW w \in Workers, JobReleases(w) PROVE Inv'
<1>. USE Names DEF Inv
<1>1. /\ Release(w, Goto(w, "idle")) /\ pc[w] = "release"
      /\ UNCHANGED <<jobs, errs, closed, wg, doing, toQueue, interrupted>>
    BY DEF JobReleases, Release
<1>2. /\ DOMAIN Goto(w, "idle") = Procs /\ Goto(w, "idle")[w] = "idle"
      /\ \A q \in Procs : q # w => Goto(w, "idle")[q] = pc[q]
    BY DEF Goto, TypeOK
<1>3. /\ wg = 0 /\ DOMAIN pc' = Procs /\ pc'[w] = "idle"
      /\ \A q \in Procs : q # w =>
            pc'[q] = pc[q] \/ (pc[q] = "waiting" /\ pc'[q] = "woken")
      /\ Held' = Held /\ ReleaseInv'
  <2>1. "idle" \notin Counted \cup {"release", "waiting", "panicked"}
      BY DEF Counted
  <2>. QED
      BY <1>1, <1>2, <2>1, ReleaseFacts
<1>4. TypeOK'
  <2>1. \A v \in Workers : pc'[v] \in WorkerPlaces
      BY <1>3 DEF TypeOK, WorkerPlaces
  <2>2. /\ pc'["main"] \in CallerPlaces \cup {"setup", "await", "drain", "returned", "failed"}
        /\ pc'["producer"] \in CallerPlaces \cup {"out"}
        /\ pc'["waiter"] \in WaitPlaces
        /\ pc'["closer"] \in WaitPlaces \cup {"armed", "closeJobs", "finished"}
      BY <1>3 DEF TypeOK, CallerPlaces, WaitPlaces, Callers
  <2>. QED
      BY <1>1, <1>3, <2>1, <2>2 DEF TypeOK
<1>5. CountsJobs'
    BY <1>1, <1>3 DEF CountsJobs, Held, Counted
<1>6. QueueInv'
    BY <1>1, <1>3 DEF QueueInv, Queuing, TypeOK, Callers
<1>7. SetupInv'
    BY <1>1, <1>3 DEF SetupInv, TypeOK, Callers, CallerPlaces, WaitPlaces
<1>8. CloseInv'
    BY <1>1, <1>3 DEF CloseInv, Idle, Working, TypeOK, Callers, WorkerPlaces
<1>9. KindInv'
    BY <1>1, <1>3 DEF KindInv, None, Working, TypeOK, Callers, WorkerPlaces
<1>10. PanicsOnlyOnInterrupt'
    BY <1>1, <1>3 DEF PanicsOnlyOnInterrupt
<1>. QED
    BY <1>3, <1>4, <1>5, <1>6, <1>7, <1>8, <1>9, <1>10

\* A worker leaves when the channel is closed and empty.
LEMMA ExitInv == ASSUME Inv, ~Over, NEW w \in Workers, Exit(w) PROVE Inv'
<1>. USE Names DEF Inv, Goto
<1>1. /\ pc[w] = "idle" /\ pc' = [pc EXCEPT ![w] = "exited"]
      /\ UNCHANGED <<jobs, errs, closed, wg, doing, toQueue, interrupted>>
    BY DEF Exit
<1>2. TypeOK'
    BY <1>1 DEF TypeOK, WorkerPlaces
<1>3. CountsJobs'
  <2>1. Held' = Held
      BY <1>1 DEF TypeOK, Held, Counted
  <2>. QED
      BY <1>1, <2>1 DEF CountsJobs, Held, Counted
<1>4. QueueInv' /\ SetupInv'
    BY <1>1 DEF QueueInv, Queuing, SetupInv, TypeOK, Callers
<1>5. CloseInv' /\ KindInv'
    BY <1>1 DEF CloseInv, Idle, KindInv, None, Working, TypeOK
<1>6. PanicsOnlyOnInterrupt'
    BY <1>1 DEF PanicsOnlyOnInterrupt, TypeOK
<1>7. ReleaseInv'
    BY <1>1, Unreleased DEF TypeOK
<1>. QED
    BY <1>2, <1>3, <1>4, <1>5, <1>6, <1>7

-----------------------------------------------------------------------------
(* Close and the two waits *)

\* The first close releases whoever is parked; its job is still counted.
LEMMA CloseClosedInv == ASSUME Inv, ~Over, CloseClosed PROVE Inv'
<1>. USE Names DEF Inv
<1>1. /\ pc["closer"] = "armed" /\ interrupted
      /\ closed' = closed \cup {"closed"}
      /\ UNCHANGED <<jobs, errs, wg, doing, toQueue, interrupted>>
    BY DEF CloseClosed
<1>2. /\ DOMAIN pc' = Procs /\ pc'["closer"] = "closeJobs"
      /\ \A q \in Procs : q # "closer" =>
            pc'[q] = pc[q] \/ (pc[q] = "parked" /\ pc'[q] = "undo")
    BY DEF CloseClosed, ReleaseParked
<1>3. TypeOK'
    BY <1>1, <1>2 DEF TypeOK, WorkerPlaces, CallerPlaces, WaitPlaces, Callers
<1>4. CountsJobs'
  <2>1. Held' = Held
      BY <1>1, <1>2 DEF TypeOK, Held, Counted
  <2>. QED
      BY <1>1, <2>1 DEF CountsJobs, Held, Counted
<1>5. QueueInv'
    BY <1>1, <1>2 DEF QueueInv, Queuing, TypeOK, Callers
<1>6. SetupInv'
    BY <1>1, <1>2 DEF SetupInv, TypeOK, Callers, WaitPlaces, CallerPlaces
<1>7. CloseInv'
    BY <1>1, <1>2 DEF CloseInv, TypeOK
<1>8. KindInv'
    BY <1>1, <1>2 DEF KindInv, None, Working, TypeOK, WorkerPlaces, WaitPlaces
<1>9. PanicsOnlyOnInterrupt'
    BY <1>1, <1>2 DEF PanicsOnlyOnInterrupt, TypeOK, WorkerPlaces
<1>10. ReleaseInv'
    BY <1>1, <1>2, Unreleased DEF TypeOK, WorkerPlaces
<1>. QED
    BY <1>3, <1>4, <1>5, <1>6, <1>7, <1>8, <1>9, <1>10

\* Close goes on from the jobs channel to the errs channel.
LEMMA CloseInvs == ASSUME Inv, ~Over, CloseJobs \/ CloseErrs PROVE Inv'
<1>. USE Names DEF Inv, Goto
<1>1. /\ \/ /\ pc["closer"] = "closeJobs" /\ closed' = closed \cup {"jobs"}
            /\ pc' = [pc EXCEPT !["closer"] = "wait"]
         \/ /\ pc["closer"] = "drained" /\ closed' = closed \cup {"errs"}
            /\ pc' = [pc EXCEPT !["closer"] = "finished"]
      /\ UNCHANGED <<jobs, errs, wg, doing, toQueue, interrupted>>
    BY DEF CloseJobs, CloseErrs
<1>2. TypeOK'
    BY <1>1 DEF TypeOK, WaitPlaces
<1>3. CountsJobs'
  <2>1. Held' = Held
      BY <1>1 DEF TypeOK, Held, Counted
  <2>. QED
      BY <1>1, <2>1 DEF CountsJobs, Held, Counted
<1>4. QueueInv' /\ SetupInv'
    BY <1>1 DEF QueueInv, Queuing, SetupInv, TypeOK, Callers
<1>5. CloseInv'
    BY <1>1 DEF CloseInv, Idle, Working, TypeOK
<1>6. KindInv'
    BY <1>1 DEF KindInv, None, Working, TypeOK
<1>7. PanicsOnlyOnInterrupt'
    BY <1>1 DEF PanicsOnlyOnInterrupt, TypeOK
<1>8. ReleaseInv'
    BY <1>1, Unreleased DEF TypeOK
<1>. QED
    BY <1>2, <1>3, <1>4, <1>5, <1>6, <1>7, <1>8

\* A wait that returns leaves nothing to do behind.  The one of the waiter
\* cannot panic: nobody has added to the wait group since it was released.
LEMMA WaitInv == ASSUME Inv, ~Over, NEW p \in {"waiter", "closer"}, Wait(p) PROVE Inv'
<1>. USE Names DEF Inv, Goto
<1>1. PICK there \in {"drained", "waiting", "panicked"} :
         /\ pc[p] \in {"wait", "woken"} /\ pc' = [pc EXCEPT ![p] = there]
         /\ there = "drained" => wg = 0
         /\ there = "panicked" => pc[p] = "woken" /\ wg # 0
    BY DEF Wait
<1>2. UNCHANGED <<jobs, errs, closed, wg, doing, toQueue, interrupted>>
    BY DEF Wait
<1>3. there = "drained" => Idle
    BY <1>1, ZeroMeansIdle
<1>4. there = "panicked" => p = "closer"
    BY <1>1 DEF SetupInv
<1>5. TypeOK'
    BY <1>1, <1>2 DEF TypeOK, WaitPlaces
<1>6. CountsJobs'
  <2>1. Held' = Held
      BY <1>1 DEF TypeOK, Held, Counted
  <2>. QED
      BY <1>2, <2>1 DEF CountsJobs, Held, Counted
<1>7. QueueInv'
    BY <1>1, <1>2 DEF QueueInv, Queuing, TypeOK, Callers
<1>8. SetupInv'
    BY <1>1, <1>2, <1>4 DEF SetupInv, TypeOK
<1>9. CloseInv'
    BY <1>1, <1>2, <1>3 DEF CloseInv, Idle, Working, TypeOK
<1>10. KindInv'
  <2>1. CASE p = "waiter" /\ there = "drained"
    <3>1. None("configure")'
        BY <1>1, <1>2, <1>3, <2>1, EmptySeq DEF Idle, None, Working, TypeOK
    <3>. QED
        BY <1>1, <2>1, <3>1 DEF KindInv, TypeOK
  <2>2. CASE ~(p = "waiter" /\ there = "drained")
      BY <1>1, <1>2, <2>2 DEF KindInv, None, Working, TypeOK
  <2>. QED
      BY <2>1, <2>2
<1>11. PanicsOnlyOnInterrupt'
  <2>1. p = "closer" => interrupted
      BY <1>1 DEF CloseInv
  <2>2. \A q \in Procs : pc'[q] = "panicked" => pc[q] = "panicked" \/ p = "closer"
      BY <1>1, <1>4 DEF TypeOK
  <2>3. interrupted' = interrupted
      BY <1>2
  <2>. QED
      BY <2>1, <2>2, <2>3, Zenon DEF PanicsOnlyOnInterrupt
<1>12. ReleaseInv'
    BY <1>1, <1>2, Unreleased DEF TypeOK
<1>. QED
    BY <1>5, <1>6, <1>7, <1>8, <1>9, <1>10, <1>11, <1>12

-----------------------------------------------------------------------------
(* run() and the interrupt *)

\* The waiter is started after the last job of the setup.
LEMMA StartWaiterInv == ASSUME Inv, ~Over, StartWaiter PROVE Inv'
<1>. USE Names DEF Inv
<1>1. /\ pc["main"] = "setup"
      /\ pc' = [pc EXCEPT !["main"] = "await", !["waiter"] = "wait"]
      /\ UNCHANGED <<jobs, errs, closed, wg, doing, toQueue, interrupted>>
    BY DEF StartWaiter
<1>2. pc["waiter"] = "out"
    BY <1>1 DEF SetupInv
<1>3. TypeOK'
    BY <1>1 DEF TypeOK, WaitPlaces, Callers
<1>4. CountsJobs'
  <2>1. Held' = Held
      BY <1>1, <1>2 DEF TypeOK, Held, Counted
  <2>. QED
      BY <1>1, <2>1 DEF CountsJobs, Held, Counted
<1>5. QueueInv' /\ SetupInv'
    BY <1>1, <1>2 DEF QueueInv, Queuing, SetupInv, TypeOK, Callers
<1>6. CloseInv' /\ KindInv'
    BY <1>1, <1>2 DEF CloseInv, Idle, KindInv, None, Working, TypeOK
<1>7. PanicsOnlyOnInterrupt'
    BY <1>1 DEF PanicsOnlyOnInterrupt, TypeOK
<1>8. ReleaseInv'
    BY <1>1, <1>2, Unreleased DEF TypeOK
<1>. QED
    BY <1>3, <1>4, <1>5, <1>6, <1>7, <1>8

\* The simulation is started after the setup, or the setup has failed.
LEMMA AwaitSetupInv == ASSUME Inv, ~Over, AwaitSetup PROVE Inv'
<1>. USE Names DEF Inv
<1>1. pc["main"] = "await" /\ UNCHANGED <<jobs, closed, wg, doing, toQueue, interrupted>>
    BY DEF AwaitSetup
<1>2. pc["producer"] = "out" /\ pc["closer"] = "out"
    BY <1>1 DEF SetupInv
<1>3. \/ /\ pc["waiter"] = "drained" /\ UNCHANGED errs
         /\ pc' = [pc EXCEPT !["main"] = "drain", !["producer"] = "next", !["closer"] = "armed"]
      \/ errs > 0 /\ errs' = errs - 1 /\ pc' = [pc EXCEPT !["main"] = "failed"]
    BY DEF AwaitSetup, SelectSetup, StartSimulation, Goto
<1>4. TypeOK'
  <2>1. errs' \in 0..N
    <3>1. N \in Nat
        BY PoolAssumption, FS_CardinalityType DEF N
    <3>. QED
        BY <1>3, <3>1 DEF TypeOK
  <2>. QED
      BY <1>1, <1>3, <2>1 DEF TypeOK, CallerPlaces, WaitPlaces, Callers
<1>5. CountsJobs'
  <2>1. Held' = Held
      BY <1>1, <1>2, <1>3 DEF TypeOK, Held, Counted
  <2>. QED
      BY <1>1, <2>1 DEF CountsJobs, Held, Counted
<1>6. QueueInv'
    BY <1>1, <1>2, <1>3 DEF QueueInv, Queuing, TypeOK, Callers
<1>7. SetupInv'
    BY <1>1, <1>2, <1>3 DEF SetupInv, TypeOK, Callers
<1>8. CloseInv' /\ KindInv'
    BY <1>1, <1>2, <1>3 DEF CloseInv, Idle, KindInv, None, Working, TypeOK
<1>9. PanicsOnlyOnInterrupt'
    BY <1>1, <1>2, <1>3 DEF PanicsOnlyOnInterrupt, TypeOK
<1>10. ReleaseInv'
    BY <1>1, <1>2, <1>3, Unreleased DEF TypeOK
<1>. QED
    BY <1>4, <1>5, <1>6, <1>7, <1>8, <1>9, <1>10

\* run() reads errors to the end.
LEMMA ReadErrsInv == ASSUME Inv, ~Over, ReadErrs PROVE Inv'
<1>. USE Names DEF Inv
<1>1. pc["main"] = "drain" /\ UNCHANGED <<jobs, closed, wg, doing, toQueue, interrupted>>
    BY DEF ReadErrs
<1>2. \/ errs > 0 /\ errs' = errs - 1 /\ UNCHANGED pc
      \/ UNCHANGED errs /\ pc' = [pc EXCEPT !["main"] = "returned"]
    BY DEF ReadErrs, Drain, Goto
<1>3. TypeOK'
  <2>1. errs' \in 0..N
    <3>1. N \in Nat
        BY PoolAssumption, FS_CardinalityType DEF N
    <3>. QED
        BY <1>2, <3>1 DEF TypeOK
  <2>. QED
      BY <1>1, <1>2, <2>1 DEF TypeOK, Callers
<1>4. CountsJobs'
  <2>1. Held' = Held
      BY <1>1, <1>2 DEF TypeOK, Held, Counted
  <2>. QED
      BY <1>1, <2>1 DEF CountsJobs, Held, Counted
<1>5. QueueInv' /\ SetupInv'
    BY <1>1, <1>2 DEF QueueInv, Queuing, SetupInv, TypeOK, Callers
<1>6. CloseInv' /\ KindInv'
    BY <1>1, <1>2 DEF CloseInv, Idle, KindInv, None, Working, TypeOK
<1>7. PanicsOnlyOnInterrupt'
    BY <1>1, <1>2 DEF PanicsOnlyOnInterrupt, TypeOK
<1>8. ReleaseInv'
    BY <1>1, <1>2, Unreleased DEF TypeOK
<1>. QED
    BY <1>3, <1>4, <1>5, <1>6, <1>7, <1>8

\* The interrupt itself changes nothing else.
LEMMA InterruptInv == ASSUME Inv, ~Over, Interrupt PROVE Inv'
<1>1. interrupted' = TRUE /\ UNCHANGED <<jobs, errs, closed, wg, pc, doing, toQueue>>
    BY DEF Interrupt
<1>2. TypeOK' /\ CountsJobs'
    BY <1>1 DEF Inv, TypeOK, CountsJobs
<1>3. QueueInv' /\ SetupInv' /\ KindInv'
    BY <1>1 DEF Inv, QueueInv, SetupInv, KindInv, None, Working
<1>4. CloseInv'
    BY <1>1 DEF Inv, CloseInv, Idle, Working
<1>5. PanicsOnlyOnInterrupt'
    BY <1>1 DEF Inv, PanicsOnlyOnInterrupt
<1>6. ReleaseInv'
    BY <1>1 DEF Inv, ReleaseInv, Releasing, Over
<1>. QED
    BY <1>2, <1>3, <1>4, <1>5, <1>6 DEF Inv

-----------------------------------------------------------------------------
(* The invariant *)

\* Nothing was queued yet.
LEMMA InitInv == Init => Inv
<1>. SUFFICES ASSUME Init PROVE Inv
    OBVIOUS
<1>. USE Names
<1>1. /\ DOMAIN pc = Procs /\ pc["main"] = "next"
      /\ \A w \in Workers : pc[w] = "idle"
      /\ pc["producer"] = "out" /\ pc["waiter"] = "out" /\ pc["closer"] = "out"
  <2>1. \A p \in Procs : pc[p] = IF p \in Workers THEN "idle" ELSE IF p = "main" THEN "next" ELSE "out"
      BY DEF Init
  <2>. QED
      BY <2>1 DEF Init, Callers
<1>2. jobs = <<>> /\ errs = 0 /\ closed = {} /\ wg = 0
    BY DEF Init
<1>3. jobs \in Seq(Kinds) /\ Len(jobs) = 0 /\ N \in Nat
    BY <1>2, EmptySeq, PoolAssumption, FS_CardinalityType DEF N
<1>4. TypeOK
  <2>1. interrupted \in BOOLEAN
      BY Zenon DEF Init
  <2>2. doing \in [Workers -> Kinds \cup {"nothing"}]
      BY DEF Init
  <2>3. toQueue \in [Callers -> Nat]
      BY <1>3, PoolAssumption DEF Init
  <2>. QED
      BY <1>1, <1>2, <1>3, <2>1, <2>2, <2>3 DEF TypeOK, WorkerPlaces, CallerPlaces, WaitPlaces
<1>5. CountsJobs
  <2>1. Held = {}
      BY <1>1 DEF Held, Counted, Procs, Callers
  <2>2. Cardinality(Held) = 0
      BY <2>1, FS_EmptySet
  <2>. QED
      BY <1>2, <1>3, <2>2 DEF CountsJobs, Held, Counted
<1>6. QueueInv /\ SetupInv
    BY <1>1 DEF QueueInv, Queuing, SetupInv, Callers
<1>7. CloseInv
    BY <1>1, <1>2 DEF CloseInv
<1>8. KindInv
    BY <1>1, <1>3 DEF KindInv, None, Working
<1>9. PanicsOnlyOnInterrupt
    BY <1>1 DEF PanicsOnlyOnInterrupt, Procs, Callers
<1>10. ReleaseInv
  <2>1. Releasing = {}
      BY <1>1 DEF Releasing, Procs, Callers
  <2>. QED
      BY <2>1 DEF ReleaseInv
<1>. QED
    BY <1>4, <1>5, <1>6, <1>7, <1>8, <1>9, <1>10 DEF Inv

\* Every step.
LEMMA StepInv == Inv /\ [Next]_vars => Inv'
<1>. SUFFICES ASSUME Inv, [Next]_vars PROVE Inv'
    OBVIOUS
<1>1. ASSUME NEW w \in Workers, WorkerStep(w) PROVE Inv'
    BY <1>1, ReceiveInv, ReportInv, JobDoneInv, JobReleasesInv, ExitInv DEF WorkerStep
<1>2. ASSUME NEW c \in Callers, QueueStep(c) PROVE Inv'
    BY <1>2, NextJobInv, CheckInv, AddFine, AddMisused, SelectInv, UndoInv, UndoReleasesInv
       DEF QueueStep
<1>3. CASE CloserStep
    BY <1>3, CloseClosedInv, CloseInvs, WaitInv DEF CloserStep
<1>4. CASE MainStep
    BY <1>4, StartWaiterInv, AwaitSetupInv, ReadErrsInv DEF MainStep
<1>5. CASE WaiterStep
    BY <1>5, WaitInv DEF WaiterStep
<1>6. CASE ~Over /\ Interrupt
    BY <1>6, InterruptInv
<1>7. CASE UNCHANGED vars
  <2>1. UNCHANGED <<jobs, errs, closed, wg, pc, doing, toQueue, interrupted>>
      BY <1>7 DEF vars
  <2>2. TypeOK' /\ CountsJobs'
      BY <2>1 DEF Inv, TypeOK, CountsJobs, Over
  <2>. QED
      BY <2>1, <2>2
      DEF Inv, QueueInv, SetupInv, CloseInv, Idle, KindInv, None, Working, ReleaseInv,
          Releasing, Over, PanicsOnlyOnInterrupt
<1>. QED
    BY <1>1, <1>2, <1>3, <1>4, <1>5, <1>6, <1>7 DEF Next

-----------------------------------------------------------------------------
(* Theorems *)

\* The invariant holds in every state.
THEOREM Invariance == Spec => []Inv
BY InitInv, StepInv, PTL DEF Spec

\* Type correctness: the channels keep their capacities, the counter of the
\* wait group never becomes negative, which would panic, and no caller queues
\* more jobs than it has.
THEOREM TypeCorrect == Spec => []TypeOK
<1>1. Inv => TypeOK
    BY DEF Inv
<1>. QED
    BY <1>1, Invariance, PTL

\* The wait group counts the jobs exactly, through every race of QueueJob
\* with Close.
THEOREM WaitGroupCountsJobs == Spec => []CountsJobs
<1>1. Inv => CountsJobs
    BY DEF Inv
<1>. QED
    BY <1>1, Invariance, PTL

\* When Close closes the errors, no job is queued or running: no worker ever
\* reports on a closed channel.
THEOREM CloseDrains == Spec => []DrainedWhenClosed
<1>1. ASSUME Inv, "errs" \in closed PROVE Idle
    BY <1>1 DEF Inv, CloseInv, TypeOK, WaitPlaces
<1>2. Inv => DrainedWhenClosed
    BY <1>1 DEF Idle, DrainedWhenClosed
<1>. QED
    BY <1>2, Invariance, PTL

\* No metric is sent before all devices were configured, or have failed to be.
THEOREM ConfiguresFirst == Spec => []ConfiguredFirst
<1>1. Inv => ConfiguredFirst
    BY DEF Inv, KindInv, None, ConfiguredFirst
<1>. QED
    BY <1>1, Invariance, PTL

\* Before the interrupt nothing panics: neither QueueJob, nor a worker, nor
\* one of the two waits on the same wait group.
THEOREM PanicsAfterInterrupt == Spec => []PanicsOnlyOnInterrupt
<1>1. Inv => PanicsOnlyOnInterrupt
    BY DEF Inv
<1>. QED
    BY <1>1, Invariance, PTL

=============================================================================
