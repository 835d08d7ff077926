----------------------------- MODULE WorkerPool -----------------------------
(***************************************************************************)
(* The stress tool: the pool of cmd/stress/worker_pool.go and run() of     *)
(* cmd/stress/main.go, which feeds it.                                     *)
(*                                                                         *)
(* run() queues one "configure" job per device, waits for all of them or   *)
(* for the first error, and then reads errors until the pool is closed,    *)
(* while a producer queues "record" jobs and a closer waits for the        *)
(* interrupt to close the pool.  There are as many workers as devices.     *)
(*                                                                         *)
(* Channels are modelled with what Go makes of them: a send on a closed    *)
(* one panics, a select takes any case that is ready, and a select that    *)
(* has none is parked until another goroutine completes one of its cases.  *)
(***************************************************************************)
EXTENDS Integers, Sequences, FiniteSets

CONSTANTS
    Workers,   \* one per device
    MaxJobs    \* bound: "record" jobs that the producer queues

Callers == {"main", "producer"}
Procs == Workers \cup Callers \cup {"waiter", "closer"}

ASSUME PoolAssumption ==
    /\ IsFiniteSet(Workers) /\ Workers # {}
    /\ Workers \cap (Callers \cup {"waiter", "closer"}) = {}
    /\ MaxJobs \in Nat

VARIABLES
    jobs,         \* the jobs channel: the kinds of the jobs it holds
    errs,         \* the errs channel: the number of errors it holds
    closed,       \* the channels that are closed: "closed", "jobs", "errs"
    wg,           \* the counter of the wait group
    pc,           \* per goroutine: the statement it is at
    doing,        \* per worker: the kind of its job
    toQueue,      \* per caller of QueueJob: the jobs it still has to queue
    interrupted   \* ctx is canceled

vars == <<jobs, errs, closed, wg, pc, doing, toQueue, interrupted>>

N == Cardinality(Workers)
Kind(c) == IF c = "main" THEN "configure" ELSE "record"
Goto(p, there) == [pc EXCEPT ![p] = there]

\* run() has returned, or some goroutine panicked: nothing happens any more.
Over == pc["main"] \in {"returned", "failed"} \/ \E p \in Procs : pc[p] = "panicked"

-----------------------------------------------------------------------------
(* The wait group *)

\* The goroutines that have counted down to zero and are about to release
\* those who wait.
Releasing == {p \in Procs : pc[p] = "release"}

\* This is the last count, and somebody waits for it.
IsLast == wg = 1 /\ \E p \in Procs : pc[p] = "waiting"

\* Mutant: a job that is done is not counted out.
DoneForgotten(p, there) == UNCHANGED wg /\ pc' = there

\* Done of goroutine p, on the way to "there".
Done(p, there) ==
    /\ wg' = wg - 1
    /\ pc' = IF IsLast THEN Goto(p, "release") ELSE there

\* The end of Done: those who wait are released, and run some time later.
Release(p, there) ==
    /\ pc[p] = "release"
    /\ pc' = [q \in Procs |-> IF there[q] = "waiting" THEN "woken" ELSE there[q]]

\* Counting up: it is misuse to do so between the last Done and the release,
\* and panics the one who adds, or the other one if that is faster.
CountUp(c, there) ==
    /\ wg' = wg + 1
    /\ \/ Releasing = {} /\ pc' = there
       \/ Releasing # {} /\ \E p \in Releasing \cup {c} : pc' = Goto(p, "panicked")

-----------------------------------------------------------------------------
(* QueueJob *)

\* Where a caller goes on: run() starts the wait for the setup after its
\* last job.
AfterQueue(c) == Goto(c, IF c = "main" /\ toQueue[c] = 1 THEN "setup" ELSE "next")
OneQueued(c) == toQueue' = [toQueue EXCEPT ![c] = @ - 1]

\* The job of a closed pool is dropped.
Check(c) ==
    /\ pc[c] = "check"
    /\ \/ /\ "closed" \in closed
          /\ pc' = AfterQueue(c) /\ OneQueued(c)
       \/ /\ "closed" \notin closed
          /\ pc' = Goto(c, "add") /\ UNCHANGED toQueue
    /\ UNCHANGED <<jobs, errs, closed, wg, doing, interrupted>>

\* Mutant: the job is not counted.
AddForgotten(c) ==
    /\ pc[c] = "add"
    /\ pc' = Goto(c, "select")
    /\ UNCHANGED <<jobs, errs, closed, wg, doing, toQueue, interrupted>>

Add(c) ==
    /\ pc[c] = "add"
    /\ CountUp(c, Goto(c, "select"))
    /\ UNCHANGED <<jobs, errs, closed, doing, toQueue, interrupted>>

Send(c) ==
    /\ "jobs" \notin closed /\ Len(jobs) < N
    /\ jobs' = Append(jobs, Kind(c))
    /\ pc' = AfterQueue(c) /\ OneQueued(c)

Select(c) ==
    /\ pc[c] = "select"
    /\ \/ Send(c)
       \/ /\ "jobs" \in closed
          /\ pc' = Goto(c, "panicked") /\ UNCHANGED <<jobs, toQueue>>
       \/ /\ "closed" \in closed
          /\ pc' = Goto(c, "undo") /\ UNCHANGED <<jobs, toQueue>>
       \/ /\ closed = {} /\ Len(jobs) = N
          /\ pc' = Goto(c, "parked") /\ UNCHANGED <<jobs, toQueue>>
    /\ UNCHANGED <<errs, closed, wg, doing, interrupted>>

Undo(c) ==
    /\ pc[c] = "undo"
    /\ Done(c, AfterQueue(c))
    /\ IF IsLast THEN UNCHANGED toQueue ELSE OneQueued(c)
    /\ UNCHANGED <<jobs, errs, closed, doing, interrupted>>

UndoReleases(c) ==
    /\ Release(c, AfterQueue(c)) /\ OneQueued(c)
    /\ UNCHANGED <<jobs, errs, closed, wg, doing, interrupted>>

-----------------------------------------------------------------------------
(* A worker *)

\* A parked sender puts its job in the place that becomes free.
Receive(w) ==
    /\ pc[w] = "idle" /\ jobs # <<>>
    /\ doing' = [doing EXCEPT ![w] = Head(jobs)]
    /\ \/ \E c \in Callers :
            /\ pc[c] = "parked"
            /\ jobs' = Append(Tail(jobs), Kind(c))
            /\ pc' = [AfterQueue(c) EXCEPT ![w] = "busy"] /\ OneQueued(c)
       \/ /\ \A c \in Callers : pc[c] # "parked"
          /\ jobs' = Tail(jobs)
          /\ pc' = Goto(w, "busy") /\ UNCHANGED toQueue
    /\ UNCHANGED <<errs, closed, wg, interrupted>>

\* The job ends, at the latest when its timeout is over.
Finish(w) ==
    /\ pc[w] = "busy"
    /\ \E there \in {"report", "done"} : pc' = Goto(w, there)
    /\ UNCHANGED <<jobs, errs, closed, wg, doing, toQueue, interrupted>>

Report(w) ==
    /\ pc[w] = "report"
    /\ \/ /\ "errs" \notin closed /\ errs < N
          /\ errs' = errs + 1 /\ pc' = Goto(w, "done")
       \/ /\ "errs" \in closed
          /\ pc' = Goto(w, "panicked") /\ UNCHANGED errs
    /\ UNCHANGED <<jobs, closed, wg, doing, toQueue, interrupted>>

JobDone(w) ==
    /\ pc[w] = "done"
    /\ Done(w, Goto(w, "idle"))
    /\ UNCHANGED <<jobs, errs, closed, doing, toQueue, interrupted>>

JobReleases(w) ==
    /\ Release(w, Goto(w, "idle"))
    /\ UNCHANGED <<jobs, errs, closed, wg, doing, toQueue, interrupted>>

Exit(w) ==
    /\ pc[w] = "idle" /\ "jobs" \in closed /\ jobs = <<>>
    /\ pc' = Goto(w, "exited")
    /\ UNCHANGED <<jobs, errs, closed, wg, doing, toQueue, interrupted>>

-----------------------------------------------------------------------------
(* Close *)

\* A parked sender is released by the close of p.closed.
ReleaseParked == [p \in Procs |-> CASE p = "closer" -> "closeJobs"
                                    [] pc[p] = "parked" -> "undo"
                                    [] OTHER -> pc[p]]

\* Mutant: the pool is closed without waiting for the interrupt.
CloseClosedEarly ==
    /\ pc["closer"] = "armed"
    /\ closed' = closed \cup {"closed"}
    /\ pc' = ReleaseParked
    /\ UNCHANGED <<jobs, errs, wg, doing, toQueue, interrupted>>

CloseClosed ==
    /\ pc["closer"] = "armed" /\ interrupted
    /\ closed' = closed \cup {"closed"}
    /\ pc' = ReleaseParked
    /\ UNCHANGED <<jobs, errs, wg, doing, toQueue, interrupted>>

CloseJobs ==
    /\ pc["closer"] = "closeJobs"
    /\ closed' = closed \cup {"jobs"}
    /\ pc' = Goto("closer", "wait")
    /\ UNCHANGED <<jobs, errs, wg, doing, toQueue, interrupted>>

\* Mutant: Close does not wait for the jobs that are running.
WaitNot(p) ==
    /\ pc[p] = "wait"
    /\ pc' = Goto(p, "drained")
    /\ UNCHANGED <<jobs, errs, closed, wg, doing, toQueue, interrupted>>

\* wg.Wait, of Close and of the waiter: it returns at once, or is released
\* later, and panics when the wait group is used again before it runs.
Wait(p) ==
    /\ \/ pc[p] = "wait" /\ pc' = Goto(p, IF wg = 0 THEN "drained" ELSE "waiting")
       \/ pc[p] = "woken" /\ pc' = Goto(p, IF wg = 0 THEN "drained" ELSE "panicked")
    /\ UNCHANGED <<jobs, errs, closed, wg, doing, toQueue, interrupted>>

CloseErrs ==
    /\ pc["closer"] = "drained"
    /\ closed' = closed \cup {"errs"}
    /\ pc' = Goto("closer", "finished")
    /\ UNCHANGED <<jobs, errs, wg, doing, toQueue, interrupted>>

-----------------------------------------------------------------------------
(* run *)

\* The setup loop and the loop of the producer; the latter ends with ctx.
\* Its pause after a round is a step that is taken late.
NextJob(c) ==
    /\ pc[c] = "next"
    /\ \/ /\ c = "producer" => ~interrupted
          /\ toQueue[c] > 0
          /\ pc' = Goto(c, "check")
       \/ /\ c = "producer" /\ interrupted
          /\ pc' = Goto(c, "out")
    /\ UNCHANGED <<jobs, errs, closed, wg, doing, toQueue, interrupted>>

\* All jobs of the setup are queued: a goroutine waits for them.
StartWaiter ==
    /\ pc["main"] = "setup"
    /\ pc' = [pc EXCEPT !["main"] = "await", !["waiter"] = "wait"]
    /\ UNCHANGED <<jobs, errs, closed, wg, doing, toQueue, interrupted>>

StartSimulation ==
    pc' = [pc EXCEPT !["main"] = "drain", !["producer"] = "next", !["closer"] = "armed"]

\* Mutant: the simulation starts when the jobs of the setup are queued.
SelectSetupNot == StartSimulation /\ UNCHANGED errs

\* The select of the setup: cfgsDoneCh is closed, which the waiter does
\* when its Wait returns, or there is an error.
SelectSetup ==
    \/ pc["waiter"] = "drained" /\ StartSimulation /\ UNCHANGED errs
    \/ errs > 0 /\ errs' = errs - 1 /\ pc' = Goto("main", "failed")

AwaitSetup ==
    /\ pc["main"] = "await"
    /\ SelectSetup
    /\ UNCHANGED <<jobs, closed, wg, doing, toQueue, interrupted>>

\* Mutant: errors are read until the interrupt only.
DrainUntilInterrupt == ~interrupted /\ errs > 0 /\ errs' = errs - 1 /\ UNCHANGED pc

\* range poolErrs: errors are logged until the channel is closed and empty.
Drain ==
    \/ errs > 0 /\ errs' = errs - 1 /\ UNCHANGED pc
    \/ errs = 0 /\ "errs" \in closed /\ pc' = Goto("main", "returned") /\ UNCHANGED errs

ReadErrs ==
    /\ pc["main"] = "drain"
    /\ Drain
    /\ UNCHANGED <<jobs, closed, wg, doing, toQueue, interrupted>>

Interrupt ==
    /\ ~interrupted
    /\ interrupted' = TRUE
    /\ UNCHANGED <<jobs, errs, closed, wg, pc, doing, toQueue>>

-----------------------------------------------------------------------------
(* Specification *)

Init ==
    /\ jobs = <<>> /\ errs = 0 /\ closed = {} /\ wg = 0
    /\ pc = [p \in Procs |-> CASE p \in Workers -> "idle"
                               [] p = "main" -> "next"
                               [] OTHER -> "out"]
    /\ doing = [w \in Workers |-> "nothing"]
    /\ toQueue = [c \in Callers |-> IF c = "main" THEN N ELSE MaxJobs]
    /\ interrupted = FALSE

WorkerStep(w) ==
    ~Over /\ (Receive(w) \/ Finish(w) \/ Report(w) \/ JobDone(w) \/ JobReleases(w) \/ Exit(w))
QueueStep(c) ==
    ~Over /\ (NextJob(c) \/ Check(c) \/ Add(c) \/ Select(c) \/ Undo(c) \/ UndoReleases(c))
CloserStep == ~Over /\ (CloseClosed \/ CloseJobs \/ Wait("closer") \/ CloseErrs)
MainStep == ~Over /\ (StartWaiter \/ AwaitSetup \/ ReadErrs)
WaiterStep == ~Over /\ Wait("waiter")

Next ==
    \/ \E w \in Workers : WorkerStep(w)
    \/ \E c \in Callers : QueueStep(c)
    \/ CloserStep
    \/ MainStep
    \/ WaiterStep
    \/ ~Over /\ Interrupt

Spec == Init /\ [][Next]_vars

\* Every goroutine that can go on is scheduled, and jobs end in time.
FairSpec ==
    /\ Spec
    /\ \A w \in Workers : WF_vars(WorkerStep(w))
    /\ \A c \in Callers : WF_vars(QueueStep(c))
    /\ WF_vars(CloserStep) /\ WF_vars(MainStep) /\ WF_vars(WaiterStep)

-----------------------------------------------------------------------------
(* Properties *)

Kinds == {"configure", "record"}
WorkerPlaces == {"idle", "busy", "report", "done", "release", "exited", "panicked"}
CallerPlaces == {"next", "check", "add", "select", "parked", "undo", "release", "panicked"}
WaitPlaces == {"out", "wait", "waiting", "woken", "drained", "panicked"}

\* Type invariant; the channels keep their capacities.
TypeOK ==
    /\ jobs \in Seq(Kinds) /\ Len(jobs) <= N
    /\ errs \in 0..N
    /\ closed \subseteq {"closed", "jobs", "errs"}
    /\ wg \in Nat
    /\ DOMAIN pc = Procs
    /\ \A w \in Workers : pc[w] \in WorkerPlaces
    /\ pc["main"] \in CallerPlaces \cup {"setup", "await", "drain", "returned", "failed"}
    /\ pc["producer"] \in CallerPlaces \cup {"out"}
    /\ pc["waiter"] \in WaitPlaces
    /\ pc["closer"] \in WaitPlaces \cup {"armed", "closeJobs", "finished"}
    /\ doing \in [Workers -> Kinds \cup {"nothing"}]
    /\ toQueue \in [Callers -> Nat]
    /\ interrupted \in BOOLEAN

Working(w) == pc[w] \in {"busy", "report", "done"}

\* The wait group counts the jobs that are queued, running or about to be
\* queued, whoever drops one and whenever the pool is closed.
CountsJobs ==
    ~Over => wg = Len(jobs) + Cardinality({p \in Procs : pc[p] \in
                      {"busy", "report", "done", "select", "parked", "undo"}})

\* Close returns after the last job: when the errors are closed, no job is
\* queued or running, so that no worker reports on a closed channel.
DrainedWhenClosed ==
    "errs" \in closed => jobs = <<>> /\ \A w \in Workers : ~Working(w)

\* No metric is sent before all devices were configured, or have failed to be.
ConfiguredFirst ==
    \A i \in 1..Len(jobs), w \in Workers :
        /\ jobs[i] = "record" => ~(Working(w) /\ doing[w] = "configure")
        /\ Working(w) /\ doing[w] = "record" => jobs[i] # "configure"

\* The races of QueueJob with Close, which can panic the producer, a worker or
\* Close itself, exist only after the interrupt: no order of jobs, errors and
\* waits ends a running test, and the first use of the wait group, by the
\* setup, never meets the second.
PanicsOnlyOnInterrupt == (\E p \in Procs : pc[p] = "panicked") => interrupted

\* After an interrupt the tool ends: no worker waits for ever on a full errs
\* channel, no sender on a full jobs channel, and Close on neither of them.
InterruptEnds == interrupted ~> Over

\* QueueJob does nothing when the pool is closed, whenever Close runs.
ClosedPoolIsNop == \A c \in Callers : pc[c] # "panicked"

=============================================================================
