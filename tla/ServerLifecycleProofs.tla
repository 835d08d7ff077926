----------------------- MODULE ServerLifecycleProofs -----------------------
(***************************************************************************)
(* Proofs that the safety properties of ServerLifecycle hold for every     *)
(* file and environment, every set of requests and any number of crashes   *)
(* and starts.                                                             *)
(*                                                                         *)
(* The properties speak of a server that listens.  They are inductive once *)
(* it is said what run() has established by the time it gets there: how    *)
(* many pings were spent, that the schema is complete, and that the        *)
(* configuration is one that config.Load accepted.                         *)
(***************************************************************************)
EXTENDS ServerLifecycle, TLAPS

\* The statements of run() once the migration is over.
Serving == {"start", "select", "stop", "shutdown"}

\* The statements of run() between config.Load and the start of the server.
Opening == {"open", "ping", "pause", "migrate", "markDirty", "create", "markClean"}

\* waitHealthy pings only while it has pings left.
PingsInv ==
    /\ pc \in {"load", "open"} => pings = 0
    /\ pc = "ping" => pings < MaxRetries

\* Whoever serves, or is about to, and whatever was served, had all tables.
SchemaInv == serve # "off" \/ Active # {} \/ pc \in Serving => schema = "ready"

\* The configurations that config.Load returns.
Loaded == {Load(file, env) : file \in FileInputs, env \in EnvInputs}
AcceptedConfigs == {c \in Loaded : Validate(c)}

\* run() gets past config.Load with such a configuration only.
ConfigInv ==
    /\ pc \in Opening \cup Serving \/ serve # "off" => cfg \in AcceptedConfigs
    /\ pc \in Opening \cup {"load"} => serve = "off"

\* The inductive invariant.
Inv == TypeOK /\ PingsInv /\ SchemaInv /\ ConfigInv

-----------------------------------------------------------------------------
(* Lemmas *)

\* A rate limit that is loaded consists of numbers, wherever they come from.
LEMMA LoadedLimit ==
    ASSUME NEW c \in Loaded, c.limit # NULL
    PROVE  c.limit.tokens \in Int /\ c.limit.seconds \in Int
<1>1. PICK file \in FileInputs, env \in EnvInputs : c = Load(file, env)
    BY DEF Loaded
<1>2. DEFINE given == ReadFile(Defaults, file).limit
<1>3. given # NULL
    BY <1>1 DEF Load, ReadEnv
<1>4. given = file.limit /\ file.limit # NULL
    BY <1>3 DEF ReadFile, Defaults, Or
<1>5. given \in [tokens : Int, seconds : Int]
    BY <1>4, InputsAssumption
<1>6. /\ env.tokens \in Int \cup {NULL}
      /\ env.seconds \in Int \cup {NULL}
    BY InputsAssumption
<1>7. c.limit = [tokens |-> Or(env.tokens, given.tokens),
                 seconds |-> Or(env.seconds, given.seconds)]
    BY <1>1, <1>3 DEF Load, ReadEnv
<1>. QED
    BY <1>5, <1>6, <1>7 DEF Or

\* What Validate makes of the limit that is in force.
LEMMA AcceptedLimit ==
    ASSUME cfg \in AcceptedConfigs, cfg.limit # NULL
    PROVE  Burst >= 1 /\ cfg.limit.seconds >= 1
<1>1. cfg.limit.tokens \in Int /\ cfg.limit.seconds \in Int
    BY LoadedLimit DEF AcceptedConfigs
<1>2. cfg.limit.tokens > 0 /\ cfg.limit.seconds > 0
    BY DEF AcceptedConfigs, Validate
<1>. QED
    BY <1>1, <1>2, LifecycleAssumption DEF Burst

\* The requests that are still active when the process ends are active no more.
LEMMA EndedRequests ==
    ASSUME TypeOK, NEW as \in {"cut", "timedOut", "killed"}, reqs' = Ended(as)
    PROVE  /\ reqs' \in [Requests -> {"none", "active", "answered", "cut", "timedOut", "killed"}]
           /\ Active' = {}
<1>1. ASSUME NEW r \in Requests
      PROVE  /\ reqs'[r] \in {"none", "active", "answered", "cut", "timedOut", "killed"}
             /\ reqs'[r] # "active"
  <2>1. reqs[r] \in {"none", "active", "answered", "cut", "timedOut", "killed"}
      BY DEF TypeOK
  <2>2. reqs'[r] = IF reqs[r] = "active" THEN as ELSE reqs[r]
      BY DEF Ended
  <2>. QED
      BY <2>1, <2>2
<1>2. Active' = {}
    BY <1>1 DEF Active
<1>3. reqs' \in [Requests -> {"none", "active", "answered", "cut", "timedOut", "killed"}]
    BY <1>1 DEF Ended
<1>. QED
    BY <1>2, <1>3

-----------------------------------------------------------------------------
(* The steps *)

\* config.Load starts afresh and returns what Validate accepts.
LEMMA LoadConfigInv == ASSUME Inv, LoadConfig PROVE Inv'
<1>. USE DEF Inv, memory
<1>1. CASE Fail
    BY <1>1 DEF Fail, TypeOK, Ends, PingsInv, SchemaInv, ConfigInv, Active, Serving, Opening, LoadConfig
<1>2. CASE \E file \in FileInputs, env \in EnvInputs :
              /\ Accepts(file, env)
              /\ cfg' = Load(file, env)
              /\ pc' = "open"
              /\ UNCHANGED <<schema, starts, pings, serve, shutdown, interrupted, reqs>>
  <2>1. PICK file \in FileInputs, env \in EnvInputs : Accepts(file, env) /\ cfg' = Load(file, env)
      BY <1>2
  <2>2. cfg' \in Loaded /\ Validate(cfg')
      BY <2>1 DEF Loaded, Accepts
  <2>3. pc = "load" /\ pc' = "open" /\ UNCHANGED <<schema, starts, pings, serve, shutdown, interrupted, reqs>>
      BY <1>2 DEF LoadConfig
  <2>4. TypeOK'
      BY <2>2, <2>3 DEF TypeOK, Loaded
  <2>5. ConfigInv'
      BY <2>2, <2>3 DEF ConfigInv, AcceptedConfigs, Opening, Serving
  <2>. QED
      BY <2>3, <2>4, <2>5 DEF PingsInv, SchemaInv, Active, Serving
<1>. QED
    BY <1>1, <1>2 DEF LoadConfig

\* waitHealthy spends its pings one by one.
LEMMA OpenInv == ASSUME Inv, Open \/ Ping \/ Pause PROVE Inv'
<1>. USE LifecycleAssumption DEF Inv, memory, Goto, Fail
<1>1. CASE Open
    BY <1>1 DEF Open, TypeOK, Ends, PingsInv, SchemaInv, ConfigInv, Active, Serving, Opening
<1>2. CASE Ping
    BY <1>2 DEF Ping, TypeOK, Ends, PingsInv, SchemaInv, ConfigInv, Active, Serving, Opening
<1>3. CASE Pause
    BY <1>3 DEF Pause, TypeOK, Ends, PingsInv, SchemaInv, ConfigInv, Active, Serving, Opening
<1>. QED
    BY <1>1, <1>2, <1>3

\* The migration ends with all tables, or does not end.
LEMMA MigrateInv == ASSUME Inv, Migrate \/ MarkDirty \/ CreateTables \/ MarkClean PROVE Inv'
<1>. USE DEF Inv, memory, Goto, Fail, MigrationStep
<1>1. CASE Migrate
    BY <1>1 DEF Migrate, MigrateUp, TypeOK, Ends, PingsInv, SchemaInv, ConfigInv, Active, Serving, Opening
<1>2. CASE MarkDirty
    BY <1>2 DEF MarkDirty, TypeOK, Ends, PingsInv, SchemaInv, ConfigInv, Active, Serving, Opening
<1>3. CASE CreateTables
    BY <1>3 DEF CreateTables, TypeOK, Ends, PingsInv, SchemaInv, ConfigInv, Active, Serving, Opening
<1>4. CASE MarkClean
    BY <1>4 DEF MarkClean, TypeOK, Ends, PingsInv, SchemaInv, ConfigInv, Active, Serving, Opening
<1>. QED
    BY <1>1, <1>2, <1>3, <1>4

\* The server is started after the migration, and stopped by run() only.
LEMMA ServeInv == ASSUME Inv, Start \/ Listen \/ ListenerFails \/ Select \/ Stop PROVE Inv'
<1>. USE DEF Inv, memory
<1>1. CASE Start
    BY <1>1 DEF Start, TypeOK, Ends, PingsInv, SchemaInv, ConfigInv, Active, Serving, Opening
<1>2. CASE Listen
    BY <1>2 DEF Listen, TypeOK, Ends, PingsInv, SchemaInv, ConfigInv, Active, Serving, Opening
<1>3. CASE ListenerFails
    BY <1>3 DEF ListenerFails, TypeOK, Ends, PingsInv, SchemaInv, ConfigInv, Active, Serving, Opening
<1>4. CASE Select
    BY <1>4 DEF Select, AwaitEnd, TypeOK, Ends, PingsInv, SchemaInv, ConfigInv, Active, Serving, Opening
<1>5. CASE Stop
    BY <1>5 DEF Stop, TypeOK, Ends, PingsInv, SchemaInv, ConfigInv, Active, Serving, Opening
<1>. QED
    BY <1>1, <1>2, <1>3, <1>4, <1>5

\* A request arrives at a server that listens.
LEMMA RequestInv == ASSUME Inv, NEW r \in Requests, Arrive(r) \/ Answer(r) PROVE Inv'
<1>. USE DEF Inv, memory
<1>1. CASE Arrive(r)
    BY <1>1 DEF Arrive, TypeOK, Ends, PingsInv, SchemaInv, ConfigInv, Serving, Opening
<1>2. CASE Answer(r)
  <2>1. TypeOK'
      BY <1>2 DEF Answer, TypeOK
  <2>2. Active # {}
      BY <1>2 DEF Answer, Active
  <2>. QED
      BY <1>2, <2>1, <2>2 DEF Answer, PingsInv, SchemaInv, ConfigInv
<1>. QED
    BY <1>1, <1>2

\* However the process ends, what it leaves behind is the schema.
LEMMA EndInv == ASSUME Inv, Shutdown \/ Kill \/ Restart \/ Interrupt PROVE Inv'
<1>. USE DEF Inv, memory
<1>1. CASE Shutdown
  <2>1. \E as \in {"cut", "timedOut", "killed"} : reqs' = Ended(as)
      BY <1>1 DEF Shutdown, Stopped
  <2>2. /\ reqs' \in [Requests -> {"none", "active", "answered", "cut", "timedOut", "killed"}]
        /\ Active' = {}
      BY <2>1, EndedRequests
  <2>3. TypeOK'
      BY <1>1, <2>2 DEF Shutdown, TypeOK, Ends
  <2>. QED
      BY <1>1, <2>2, <2>3 DEF Shutdown, PingsInv, SchemaInv, ConfigInv, Serving, Opening
<1>2. CASE Kill
  <2>1. \E as \in {"cut", "timedOut", "killed"} : reqs' = Ended(as)
      BY <1>2 DEF Kill
  <2>. QED
      BY <1>2, <2>1, EndedRequests DEF Kill, TypeOK, Ends, PingsInv, SchemaInv, ConfigInv, Serving, Opening
<1>3. CASE Restart
  <2>1. starts' \in 1..MaxStarts /\ pings' \in 0..MaxRetries
      BY <1>3, LifecycleAssumption DEF Restart, TypeOK
  <2>2. PingsInv' /\ ConfigInv'
      BY <1>3, LifecycleAssumption DEF Restart, PingsInv, ConfigInv, Opening, Serving
  <2>3. SchemaInv'
      BY <1>3 DEF Restart, SchemaInv, Active, Serving
  <2>4. shutdown' \in BOOLEAN /\ interrupted' \in BOOLEAN
      BY <1>3, Zenon DEF Restart
  <2>5. cfg' \in {NULL} \cup Loaded
      BY <1>3 DEF Restart
  <2>6. TypeOK'
      BY <1>3, <2>1, <2>4, <2>5 DEF Restart, TypeOK, Loaded
  <2>. QED
      BY <2>2, <2>3, <2>6
<1>4. CASE Interrupt
    BY <1>4 DEF Interrupt, TypeOK, PingsInv, SchemaInv, ConfigInv, Active
<1>. QED
    BY <1>1, <1>2, <1>3, <1>4

\* Every step.
LEMMA StepInv == Inv /\ [Next]_vars => Inv'
<1>. SUFFICES ASSUME Inv, [Next]_vars PROVE Inv'
    OBVIOUS
<1>1. CASE Next
    BY <1>1, LoadConfigInv, OpenInv, MigrateInv, ServeInv, RequestInv, EndInv DEF Next, RunStep
<1>2. CASE UNCHANGED vars
    BY <1>2 DEF vars, memory, Inv, TypeOK, PingsInv, SchemaInv, ConfigInv, Active
<1>. QED
    BY <1>1, <1>2

\* The first start, on an empty database.
LEMMA InitInv == Init => Inv
<1>. SUFFICES ASSUME Init PROVE Inv
    OBVIOUS
<1>1. Active = {}
    BY DEF Init, Active
<1>2. TypeOK
  <2>1. shutdown \in BOOLEAN /\ interrupted \in BOOLEAN
      BY Zenon DEF Init
  <2>2. cfg \in {NULL} \cup Loaded
      BY DEF Init
  <2>3. starts \in 1..MaxStarts /\ pings \in 0..MaxRetries
      BY LifecycleAssumption DEF Init
  <2>4. /\ schema = "none" /\ pc = "load" /\ serve = "off"
        /\ reqs = [r \in Requests |-> "none"]
      BY DEF Init
  <2>. QED
      BY <2>1, <2>2, <2>3, <2>4 DEF TypeOK, Loaded
<1>3. PingsInv /\ SchemaInv /\ ConfigInv
    BY <1>1 DEF Init, PingsInv, SchemaInv, ConfigInv, Serving, Opening
<1>. QED
    BY <1>2, <1>3 DEF Inv

-----------------------------------------------------------------------------
(* Theorems *)

\* The invariant holds in every state, however often the process crashed.
THEOREM Invariance == Spec => []Inv
BY InitInv, StepInv, PTL DEF Spec

\* Type correctness: run() never pings the database more than connMaxRetries
\* times, and what it works with is a configuration that was loaded.
THEOREM TypeCorrect == Spec => []TypeOK
<1>1. Inv => TypeOK
    BY DEF Inv
<1>. QED
    BY <1>1, Invariance, PTL

\* No request is served on a schema that is not complete, wherever earlier
\* processes were killed, interrupted or failed in the migration.
THEOREM ServesOnlyMigrated == Spec => []ServesMigrated
<1>1. Inv => ServesMigrated
    BY DEF Inv, SchemaInv, ServesMigrated
<1>. QED
    BY <1>1, Invariance, PTL

\* A rate limit that is in force lets requests through, whatever the file and
\* the environment say.
THEOREM LimiterLetsThrough == Spec => []LimiterAdmits
<1>1. Inv => LimiterAdmits
    BY AcceptedLimit DEF Inv, ConfigInv, LimiterAdmits
<1>. QED
    BY <1>1, Invariance, PTL

=============================================================================
