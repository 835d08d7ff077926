--------------------------- MODULE ServerLifecycle ---------------------------
(***************************************************************************)
(* run() of main.go with what it calls on the way: config.Load,            *)
(* sqlite.Open with waitHealthy, sqlite.Migrate, Server.Serve in a         *)
(* goroutine of its own, and the deferred Server.Stop.                     *)
(*                                                                         *)
(* The process may be interrupted (ctx is canceled) or killed at any step  *)
(* and is then started again.  What survives is the schema, with the       *)
(* version that golang-migrate marks dirty while a migration is running.   *)
(***************************************************************************)
EXTENDS AppConfig

CONSTANTS
    FileInputs,  \* what the YAML file says
    EnvInputs,   \* what the environment says
    MaxBurst,    \* the cap that run() puts on the burst of the rate limiter
    Requests,    \* one element per request a client sends
    Hijacked,    \* those on HTTP/2 connections: h2c takes the connection over
    MaxRetries,  \* connMaxRetries
    MaxStarts    \* bound: starts of the process

ASSUME LifecycleAssumption ==
    /\ Hijacked \subseteq Requests
    /\ MaxRetries \in Nat \ {0} /\ MaxStarts \in Nat \ {0}
    /\ MaxBurst \in Nat \ {0} /\ NULL \notin Int

\* What does not decode to a number is an error before it is a setting.
ASSUME InputsAssumption ==
    /\ \A file \in FileInputs :
          file.limit # NULL => file.limit \in [tokens : Int, seconds : Int]
    /\ \A env \in EnvInputs :
          env.tokens \in Int \cup {NULL} /\ env.seconds \in Int \cup {NULL}

VARIABLES
    schema,       \* the database file: "none", "dirty", "created", "ready"
    starts,       \* how often the process was started
    pc,           \* where run() is, or how the process ended
    cfg,          \* the configuration, or NULL
    pings,        \* the failed pings of waitHealthy
    serve,        \* the goroutine that serves
    shutdown,     \* http.Server.Shutdown was called
    interrupted,  \* ctx is canceled
    reqs          \* per request: "none", "active", or how it ended

memory == <<cfg, pings, serve, shutdown, interrupted>>
vars == <<schema, starts, pc, memory, reqs>>

Ends == {"exited", "killed"}
Up == pc \notin Ends
Active == {r \in Requests : reqs[r] = "active"}

\* The requests that Shutdown waits for: it does not know of connections that
\* were taken over.
Awaited == Active \ Hijacked

\* Requests that are active when the process ends get no answer.
Ended(as) == [r \in Requests |-> IF reqs[r] = "active" THEN as ELSE reqs[r]]

\* Error returns of run() before the server was started.
Fail ==
    /\ pc' = "exited"
    /\ UNCHANGED <<schema, starts, memory, reqs>>

Goto(next) ==
    /\ pc' = next
    /\ UNCHANGED <<schema, starts, memory, reqs>>

-----------------------------------------------------------------------------
(* Start-up *)

\* config.Load: a file or a variable that cannot be decoded, or a value that
\* Validate rejects, ends the process.
LoadConfig ==
    /\ pc = "load"
    /\ \/ Fail
       \/ \E file \in FileInputs, env \in EnvInputs :
            /\ Accepts(file, env)
            /\ cfg' = Load(file, env)
            /\ pc' = "open"
            /\ UNCHANGED <<schema, starts, pings, serve, shutdown, interrupted, reqs>>

\* sqlite.Open up to waitHealthy.
Open == pc = "open" /\ (Goto("ping") \/ Fail)

\* One round of waitHealthy.  A ping under a context that is canceled fails.
Ping ==
    /\ pc = "ping"
    /\ \/ ~interrupted /\ Goto("migrate")
       \/ /\ pings' = pings + 1
          /\ pc' = "pause"
          /\ UNCHANGED <<schema, starts, cfg, serve, shutdown, interrupted, reqs>>

\* Mutant: one ping too many.
PauseOffByOne ==
    /\ pc = "pause"
    /\ \/ pings <= MaxRetries /\ Goto("ping")
       \/ interrupted /\ Fail

\* It pauses after the last ping, too.
Pause ==
    /\ pc = "pause"
    /\ \/ pings < MaxRetries /\ Goto("ping")
       \/ pings = MaxRetries /\ Fail
       \/ interrupted /\ Fail

\* Mutant: a version that is marked dirty is taken for a version.
MigrateDirty ==
    \/ schema # "none" /\ Goto("start")
    \/ schema = "none" /\ Goto("markDirty")

\* migrate.Up: nothing to do, a dirty version, or a migration to run.
MigrateUp ==
    \/ schema = "ready" /\ Goto("start")
    \/ schema \in {"dirty", "created"} /\ Fail
    \/ schema = "none" /\ Goto("markDirty")

Migrate == pc = "migrate" /\ (MigrateUp \/ Fail)

\* The migration: the version is marked dirty, the tables are created in one
\* transaction, the mark is removed.  A step that fails leaves the mark.
MigrationStep(at, from, to, next) ==
    /\ pc = at
    /\ schema = from
    /\ \/ schema' = to /\ pc' = next /\ UNCHANGED <<starts, memory, reqs>>
       \/ Fail

MarkDirty == MigrationStep("markDirty", "none", "dirty", "create")
CreateTables == MigrationStep("create", "dirty", "created", "markClean")
MarkClean == MigrationStep("markClean", "created", "ready", "start")

\* The burst that the rate limiter is made with.
Burst == IF cfg.limit.tokens <= MaxBurst THEN cfg.limit.tokens ELSE MaxBurst

\* The handlers are registered and the goroutine that serves is started.
Start ==
    /\ pc = "start"
    /\ serve' = "starting"
    /\ pc' = "select"
    /\ UNCHANGED <<schema, starts, cfg, pings, shutdown, interrupted, reqs>>

-----------------------------------------------------------------------------
(* Serving *)

\* The ports net.Listen takes; for 0 the system picks one.
CanListen(port) == 0 <= port /\ port <= 65535

\* ListenAndServe: it listens, or it fails, as it does after Shutdown.
Listen ==
    /\ Up /\ serve = "starting"
    /\ \/ ~shutdown /\ CanListen(cfg.port) /\ serve' = "listening"
       \/ serve' = "failed"
    /\ UNCHANGED <<schema, starts, pc, cfg, pings, shutdown, interrupted, reqs>>

\* The listener fails while requests are being served.
ListenerFails ==
    /\ Up /\ serve = "listening"
    /\ serve' = "failed"
    /\ UNCHANGED <<schema, starts, pc, cfg, pings, shutdown, interrupted, reqs>>

Arrive(r) ==
    /\ Up /\ serve = "listening"
    /\ reqs[r] = "none"
    /\ reqs' = [reqs EXCEPT ![r] = "active"]
    /\ UNCHANGED <<schema, starts, pc, memory>>

Answer(r) ==
    /\ Up /\ reqs[r] = "active"
    /\ reqs' = [reqs EXCEPT ![r] = "answered"]
    /\ UNCHANGED <<schema, starts, pc, memory>>

\* The select of run(): an error of Serve, handed over on a channel without
\* buffer, or the interrupt.
AwaitEnd ==
    \/ serve = "failed" /\ serve' = "ended"
    \/ interrupted /\ UNCHANGED serve

Select ==
    /\ pc = "select"
    /\ AwaitEnd
    /\ pc' = "stop"
    /\ UNCHANGED <<schema, starts, cfg, pings, shutdown, interrupted, reqs>>

-----------------------------------------------------------------------------
(* Stop *)

\* Shutdown closes the listener, and Serve returns.
Stop ==
    /\ pc = "stop"
    /\ shutdown' = TRUE
    /\ serve' = IF serve = "listening" THEN "failed" ELSE serve
    /\ pc' = "shutdown"
    /\ UNCHANGED <<schema, starts, cfg, pings, interrupted, reqs>>

\* Mutant: Shutdown waits for as long as it takes.
StoppedWhenIdle == Awaited = {} /\ reqs' = Ended("cut")

\* Shutdown returns when there is nothing to wait for; when its context is
\* done, which a context that the interrupt canceled is from the start; or
\* after ten seconds.  Then run() returns, and the process ends.
Stopped ==
    \/ Awaited = {} /\ reqs' = Ended("cut")
    \/ Awaited # {} /\ interrupted /\ reqs' = Ended("cut")
    \/ Awaited # {} /\ ~interrupted /\ reqs' = Ended("timedOut")

Shutdown ==
    /\ pc = "shutdown"
    /\ Stopped
    /\ pc' = "exited"
    /\ UNCHANGED <<schema, starts, memory>>

-----------------------------------------------------------------------------
(* The environment *)

Interrupt ==
    /\ Up /\ ~interrupted
    /\ interrupted' = TRUE
    /\ UNCHANGED <<schema, starts, pc, cfg, pings, serve, shutdown, reqs>>

Kill ==
    /\ Up
    /\ pc' = "killed"
    /\ reqs' = Ended("killed")
    /\ UNCHANGED <<schema, starts, memory>>

Restart ==
    /\ ~Up /\ starts < MaxStarts
    /\ starts' = starts + 1
    /\ pc' = "load"
    /\ cfg' = NULL /\ pings' = 0 /\ serve' = "off" /\ shutdown' = FALSE /\ interrupted' = FALSE
    /\ UNCHANGED <<schema, reqs>>

-----------------------------------------------------------------------------
(* Specification *)

Init ==
    /\ schema = "none" /\ starts = 1
    /\ pc = "load" /\ cfg = NULL /\ pings = 0
    /\ serve = "off" /\ shutdown = FALSE /\ interrupted = FALSE
    /\ reqs = [r \in Requests |-> "none"]

\* run() takes its next step.
RunStep ==
    \/ LoadConfig \/ Open \/ Ping \/ Pause
    \/ Migrate \/ MarkDirty \/ CreateTables \/ MarkClean
    \/ Start \/ Select \/ Stop \/ Shutdown

Next ==
    \/ RunStep
    \/ Listen \/ ListenerFails
    \/ \E r \in Requests : Arrive(r) \/ Answer(r)
    \/ Interrupt \/ Kill \/ Restart

Spec == Init /\ [][Next]_vars

\* run() and the goroutine that serves are scheduled; a handler may take as
\* long as it likes.
FairSpec == Spec /\ WF_vars(RunStep) /\ WF_vars(Listen)

-----------------------------------------------------------------------------
(* Properties *)

\* Type invariant.
TypeOK ==
    /\ schema \in {"none", "dirty", "created", "ready"}
    /\ starts \in 1..MaxStarts
    /\ pc \in Ends \cup {"load", "open", "ping", "pause", "migrate", "markDirty", "create",
                         "markClean", "start", "select", "stop", "shutdown"}
    /\ cfg \in {NULL} \cup {Load(file, env) : file \in FileInputs, env \in EnvInputs}
    /\ pings \in 0..MaxRetries
    /\ serve \in {"off", "starting", "listening", "failed", "ended"}
    /\ shutdown \in BOOLEAN /\ interrupted \in BOOLEAN
    /\ reqs \in [Requests -> {"none", "active", "answered", "cut", "timedOut", "killed"}]

\* No request is ever served on a schema that is not complete, in whichever
\* migration an earlier process was killed, interrupted or failed.
ServesMigrated == serve = "listening" \/ Active # {} => schema = "ready"

\* A rate limit that is in force is one under which requests are let through:
\* the bucket can hold a token and is refilled in finite time, whatever the
\* file says and the environment changes about it.
LimiterAdmits ==
    serve = "listening" /\ cfg.limit # NULL => Burst >= 1 /\ cfg.limit.seconds >= 1

\* After an interrupt, or when it can no longer serve, the process ends, in
\* whatever phase it is and however long its handlers take.
EndsWhenTold == interrupted \/ serve = "failed" ~> ~Up

\* Stop is graceful: requests that are active are answered, unless they take
\* longer than its ten seconds.
GracefulStop == \A r \in Requests : reqs[r] # "cut"

=============================================================================
