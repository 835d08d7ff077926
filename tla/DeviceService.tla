--------------------------- MODULE DeviceService ---------------------------
(***************************************************************************)
(* device.Service (device/service.go, device/validation.go) with the two   *)
(* operations that write, ConfigureDevice and RecordMetric, over the three *)
(* tables of the SQLite database.  GetDeviceAlerts, which only reads, is   *)
(* in AlertPaging.                                                         *)
(*                                                                         *)
(* Every request is served by a goroutine of its own, and a handler is a   *)
(* series of separate statements on the one database connection, so the    *)
(* statements of several requests interleave.  pc[r] is the statement that *)
(* request r executes next, or the answer its client got.  A statement may *)
(* fail, the client of a request may go away (its context is canceled),    *)
(* and the process may be killed between any two statements; the rows that *)
(* were committed survive.                                                 *)
(***************************************************************************)
EXTENDS DeviceRepository

CONSTANTS
    Devices,           \* device ids that are not blank
    Blank,             \* a blank device id
    Requests,          \* one element per request a client sends
    NaN,               \* the float64 that compares with nothing
    ZeroTime,          \* time.Time{}
    MinTemp, MaxTemp,  \* minTemperature, maxTemperature
    MinBatt, MaxBatt,  \* minBattery, maxBattery
    TempInputs,        \* the temperatures clients send, valid or not
    BattInputs,        \* the battery levels clients send, valid or not
    TimeInputs         \* the timestamps clients send, valid or not

ASSUME ServiceAssumption ==
    /\ Blank \notin Devices
    /\ NaN \notin Int
    /\ ZeroTime \notin Int
    /\ NULL \notin [temp : Int, battery : Int]
    /\ MinTemp \in Int /\ MaxTemp \in Int
    /\ MinBatt \in Nat /\ MaxBatt \in Int
    /\ TempInputs \subseteq Int \cup {NaN}
    /\ BattInputs \subseteq Int
    /\ TimeInputs \subseteq Int \cup {ZeroTime}

VARIABLES
    configs,        \* table configs: a threshold pair, or NULL, per device
    metrics,        \* table metrics
    lastMetricId,   \* its AUTOINCREMENT counter
    alerts,         \* table alerts
    lastAlertId,    \* its AUTOINCREMENT counter
    pc,             \* per request: the next statement, or the answer given
    req,            \* per request: the request, once it passed validation
    cfg,            \* per request: the thresholds RecordMetric compares with
    canceled,       \* the requests whose context is canceled
    cfgErr,         \* the requests whose config read failed
    inForce         \* history: the configurations that were stored for the
                    \* device of a request between its metric being saved and
                    \* its config read

tables == <<configs, metrics, lastMetricId, alerts, lastAlertId>>
vars == <<tables, pc, req, cfg, canceled, cfgErr, inForce>>

TempHigh == "TEMPERATURE_HIGH"
BatteryLow == "BATTERY_LOW"

Answers == {"created", "badRequest", "internal", "lost"}
Statements == {"upsert", "saveMetric", "getConfig", "saveTempAlert",
               "saveBattAlert"}
InFlight(r) == pc[r] \in Statements

-----------------------------------------------------------------------------
(* Validation *)

\* x < y on float64: false as soon as one side is NaN.
Less(x, y) == x # NaN /\ y # NaN /\ x < y

validateConfigureDeviceReq(q) ==
    /\ q.device # Blank
    /\ ~(Less(q.temp, MinTemp) \/ Less(MaxTemp, q.temp))
    /\ ~(q.battery < MinBatt \/ q.battery > MaxBatt)

\* Mutant: the upper bound of the battery level is not checked.
validateRecordMetricReqNoMax(q) ==
    /\ q.device # Blank
    /\ q.time # ZeroTime
    /\ ~(Less(q.temp, MinTemp) \/ Less(MaxTemp, q.temp))
    /\ ~(q.battery < MinBatt)

validateRecordMetricReq(q) ==
    /\ q.device # Blank
    /\ q.time # ZeroTime
    /\ ~(Less(q.temp, MinTemp) \/ Less(MaxTemp, q.temp))
    /\ ~(q.battery < MinBatt \/ q.battery > MaxBatt)

ConfigureDeviceRequest ==
    [op : {"configure"}, device : Devices \cup {Blank}, temp : TempInputs,
     battery : BattInputs]

RecordMetricRequest ==
    [op : {"record"}, device : Devices \cup {Blank}, temp : TempInputs,
     battery : BattInputs, time : TimeInputs]

-----------------------------------------------------------------------------
(* One statement on behalf of a request *)

\* How a statement ends: it succeeds; it fails and changes nothing (an I/O or
\* constraint error, a locked file, a context that is already canceled); or it
\* takes effect but the context is canceled meanwhile, so that the driver
\* reports an error all the same.
Outcomes == {"ok", "failed", "interrupted"}

\* A canceled context and a NULL in a NOT NULL column make a statement fail.
Executes(r, storable, outcome) ==
    /\ outcome # "failed" => r \notin canceled /\ storable
    /\ canceled' = IF outcome = "interrupted" THEN canceled \cup {r}
                                              ELSE canceled

\* Mutant: the columns accept NULL.
StorableAnyFloat(q) == TRUE

\* SQLite turns a NaN into NULL, and every column is NOT NULL.
Storable(q) == q.temp # NaN

\* Mutant: an error is logged and the handler goes on.
AnswerIgnoringErrors(outcome, onSuccess) == onSuccess

\* The error middlewares answer any error but a BadRequestError (or a binding
\* error) with an internal error.
Answer(outcome, onSuccess) == IF outcome = "ok" THEN onSuccess ELSE "internal"

-----------------------------------------------------------------------------
(* ConfigureDevice *)

\* The handler decodes and validates the request.
ConfigureDevice(r) ==
    /\ pc[r] = "idle"
    /\ \E q \in ConfigureDeviceRequest :
          \/ /\ validateConfigureDeviceReq(q)
             /\ req' = [req EXCEPT ![r] = q]
             /\ pc' = [pc EXCEPT ![r] = "upsert"]
          \/ /\ ~validateConfigureDeviceReq(q)
             /\ pc' = [pc EXCEPT ![r] = "badRequest"]
             /\ UNCHANGED req
    /\ UNCHANGED <<tables, cfg, canceled, cfgErr, inForce>>

UpsertDeviceConfig(r) ==
    LET q == req[r]
        c == [temp |-> q.temp, battery |-> q.battery]
    IN  /\ pc[r] = "upsert"
        /\ \E o \in Outcomes :
              /\ Executes(r, Storable(q), o)
              /\ pc' = [pc EXCEPT ![r] = Answer(o, "created")]
              /\ \/ /\ o = "failed"
                    /\ UNCHANGED <<configs, inForce>>
                 \/ /\ o # "failed"
                    /\ configs' = [configs EXCEPT ![q.device] = c]
                    /\ inForce' = [s \in Requests |->
                          IF pc[s] = "getConfig" /\ req[s].device = q.device
                          THEN inForce[s] \cup {c} ELSE inForce[s]]
        /\ UNCHANGED <<metrics, lastMetricId, alerts, lastAlertId, req, cfg,
                       cfgErr>>

-----------------------------------------------------------------------------
(* RecordMetric *)

RecordMetric(r) ==
    /\ pc[r] = "idle"
    /\ \E q \in RecordMetricRequest :
          \/ /\ validateRecordMetricReq(q)
             /\ req' = [req EXCEPT ![r] = q]
             /\ pc' = [pc EXCEPT ![r] = "saveMetric"]
          \/ /\ ~validateRecordMetricReq(q)
             /\ pc' = [pc EXCEPT ![r] = "badRequest"]
             /\ UNCHANGED req
    /\ UNCHANGED <<tables, cfg, canceled, cfgErr, inForce>>

SaveDeviceMetric(r) ==
    LET q == req[r]
    IN  /\ pc[r] = "saveMetric"
        /\ \E o \in Outcomes :
              /\ Executes(r, Storable(q), o)
              /\ pc' = [pc EXCEPT ![r] = Answer(o, "getConfig")]
              /\ \/ /\ o = "failed"
                    /\ UNCHANGED <<metrics, lastMetricId, inForce>>
                 \/ /\ o # "failed"
                    /\ lastMetricId' = lastMetricId + 1
                    /\ metrics' = metrics \cup
                          {MetricRow(lastMetricId + 1, q.device, q, r)}
                    /\ inForce' = [inForce EXCEPT ![r] = {configs[q.device]}]
        /\ UNCHANGED <<configs, alerts, lastAlertId, req, cfg, cfgErr>>

\* Mutants: >= for > and <= for <.
TempReached(q, c) == ~Less(q.temp, c.temp)
BattReached(q, c) == q.battery <= c.battery

TempBreached(q, c) == Less(c.temp, q.temp)
BattBreached(q, c) == q.battery < c.battery

AfterTempCheck(q, c) == IF BattBreached(q, c) THEN "saveBattAlert" ELSE "created"
AfterConfig(q, c) == IF TempBreached(q, c) THEN "saveTempAlert"
                                           ELSE AfterTempCheck(q, c)

\* Config{}
ZeroConfig == [temp |-> 0, battery |-> 0]

\* Mutant: the config is read again until the read succeeds.
GetDeviceConfigUntilOk(r) ==
    /\ pc[r] = "getConfig"
    /\ r \notin canceled
    /\ pc' = [pc EXCEPT ![r] = "created"]
    /\ UNCHANGED <<tables, req, cfg, canceled, cfgErr, inForce>>

\* A device without configuration ends the request.  Any other error is
\* dropped: the metric is then compared with the zero Config.
GetDeviceConfig(r) ==
    LET q == req[r]
        compareWith(c) ==
            /\ cfg' = [cfg EXCEPT ![r] = c]
            /\ pc' = [pc EXCEPT ![r] = AfterConfig(q, c)]
    IN  /\ pc[r] = "getConfig"
        /\ \E o \in Outcomes :
              /\ Executes(r, TRUE, o)
              /\ \/ /\ o = "ok"
                    /\ configs[q.device] = NULL
                    /\ pc' = [pc EXCEPT ![r] = "created"]
                    /\ UNCHANGED <<cfg, cfgErr>>
                 \/ /\ o = "ok"
                    /\ configs[q.device] # NULL
                    /\ compareWith(configs[q.device])
                    /\ UNCHANGED cfgErr
                 \/ /\ o # "ok"
                    /\ compareWith(ZeroConfig)
                    /\ cfgErr' = cfgErr \cup {r}
        /\ UNCHANGED <<tables, req, inForce>>

\* One of the two SaveDeviceAlert blocks; next is where the handler goes on.
SaveDeviceAlert(r, reason, next) ==
    LET q == req[r]
    IN  /\ \E o \in Outcomes :
              /\ Executes(r, TRUE, o)
              /\ pc' = [pc EXCEPT ![r] = Answer(o, next)]
              /\ \/ /\ o = "failed"
                    /\ UNCHANGED <<alerts, lastAlertId>>
                 \/ /\ o # "failed"
                    /\ lastAlertId' = lastAlertId + 1
                    /\ alerts' = alerts \cup
                          {AlertRow(lastAlertId + 1, q.device,
                                    [reason |-> reason, time |-> q.time], r)}
        /\ UNCHANGED <<configs, metrics, lastMetricId, req, cfg, cfgErr, inForce>>

SaveTempAlert(r) ==
    /\ pc[r] = "saveTempAlert"
    /\ SaveDeviceAlert(r, TempHigh, AfterTempCheck(req[r], cfg[r]))

\* Mutant: the second block is a copy of the first.
SaveBattAlertAsTemp(r) ==
    /\ pc[r] = "saveBattAlert"
    /\ SaveDeviceAlert(r, TempHigh, "created")

SaveBattAlert(r) ==
    /\ pc[r] = "saveBattAlert"
    /\ SaveDeviceAlert(r, BatteryLow, "created")

-----------------------------------------------------------------------------
(* The environment *)

\* echo's Bind rejects a body or a parameter it cannot decode.
BindFails(r) ==
    /\ pc[r] = "idle"
    /\ pc' = [pc EXCEPT ![r] = "badRequest"]
    /\ UNCHANGED <<tables, req, cfg, canceled, cfgErr, inForce>>

\* The client disconnects or its deadline passes.
Cancel(r) ==
    /\ InFlight(r)
    /\ r \notin canceled
    /\ canceled' = canceled \cup {r}
    /\ UNCHANGED <<tables, pc, req, cfg, cfgErr, inForce>>

\* The process is killed and started again.  Committed rows survive, the
\* handlers and what they had in memory do not.
Crash ==
    /\ \E r \in Requests : InFlight(r)
    /\ pc' = [r \in Requests |-> IF InFlight(r) THEN "lost" ELSE pc[r]]
    /\ UNCHANGED <<tables, req, cfg, canceled, cfgErr, inForce>>

-----------------------------------------------------------------------------
(* Specification *)

Init ==
    /\ configs = [d \in Devices |-> NULL]
    /\ metrics = {} /\ lastMetricId = 0
    /\ alerts = {} /\ lastAlertId = 0
    /\ pc = [r \in Requests |-> "idle"]
    /\ req = [r \in Requests |-> NULL]
    /\ cfg = [r \in Requests |-> NULL]
    /\ canceled = {}
    /\ cfgErr = {}
    /\ inForce = [r \in Requests |-> {}]

\* The handler of r takes its next step.
HandlerStep(r) ==
    \/ UpsertDeviceConfig(r)
    \/ SaveDeviceMetric(r)
    \/ GetDeviceConfig(r)
    \/ SaveTempAlert(r)
    \/ SaveBattAlert(r)

Next ==
    \/ \E r \in Requests :
          \/ ConfigureDevice(r)
          \/ RecordMetric(r)
          \/ BindFails(r)
          \/ HandlerStep(r)
          \/ Cancel(r)
    \/ Crash

Spec == Init /\ [][Next]_vars

\* A statement always ends: SQLite executes it or reports an error, and gives
\* the connection to the next one; a goroutine that can run is scheduled.
FairSpec == Spec /\ \A r \in Requests : WF_vars(HandlerStep(r))

-----------------------------------------------------------------------------
(* Properties *)

\* The values a request that passed validation can hold.
ValidTemp == (MinTemp..MaxTemp) \cup {NaN}
Accepted ==
    [op : {"configure"}, device : Devices, temp : ValidTemp,
     battery : MinBatt..MaxBatt] \cup
    [op : {"record"}, device : Devices, temp : ValidTemp,
     battery : MinBatt..MaxBatt, time : Int]

Config == [temp : Int, battery : Int]

\* Type invariant of the tables and of the handlers' local state.
TypeOK ==
    /\ configs \in [Devices -> Config \cup {NULL}]
    /\ metrics \in SUBSET [id : Nat, device : Devices, temp : Int,
                           battery : Int, ts : Int, by : Requests]
    /\ lastMetricId \in Nat
    /\ alerts \in SUBSET [id : Nat, device : Devices,
                          reason : {TempHigh, BatteryLow}, ts : Int,
                          by : Requests]
    /\ lastAlertId \in Nat
    /\ pc \in [Requests -> {"idle"} \cup Statements \cup Answers]
    /\ req \in [Requests -> Accepted \cup {NULL}]
    /\ cfg \in [Requests -> Config \cup {NULL}]
    /\ canceled \in SUBSET Requests
    /\ cfgErr \in SUBSET Requests
    /\ inForce \in [Requests -> SUBSET (Config \cup {NULL})]

Recording == {r \in Requests : req[r] # NULL /\ req[r].op = "record"}

\* The alerts request r stored.
Raised(r) == {a.reason : a \in {b \in alerts : b.by = r}}

\* The alerts the documentation asks for: the reading is above the temperature
\* threshold, below the battery threshold; none without a configuration.
Breached(q, c) ==
    IF c = NULL THEN {}
    ELSE {x \in {TempHigh, BatteryLow} :
             \/ x = TempHigh /\ q.temp > c.temp
             \/ x = BatteryLow /\ q.battery < c.battery}

\* There is one configuration, stored for the device at some moment after the
\* metric was saved, that explains what r raised: all of its breaches when the
\* client was told "created", some of them when the request ended early.
EvaluatedAsConfigured(r) ==
    /\ pc[r] = "created" =>
          \E c \in inForce[r] : Raised(r) = Breached(req[r], c)
    /\ Raised(r) # {} =>
          \E c \in inForce[r] : Raised(r) \subseteq Breached(req[r], c)

\* RecordMetric compares a metric with one stored configuration, current after
\* the metric was saved, whatever ConfigureDevice requests run beside it and
\* wherever the request is cut short; unless its config read failed.
AlertsFollowConfig ==
    \A r \in Recording \ cfgErr : EvaluatedAsConfigured(r)

\* The same without the exception: what the comment on RecordMetric says.
AlertsAlwaysFollowConfig ==
    \A r \in Recording : EvaluatedAsConfigured(r)

\* What the dropped error of GetDeviceConfig can lead to: a temperature alert
\* for a positive reading, never a battery alert (validation keeps readings at
\* or above the zero Config's battery threshold).
FallbackAlertsOnlyTemperature ==
    \A r \in cfgErr : Raised(r) # {} => Raised(r) = {TempHigh} /\ req[r].temp > 0

\* Whatever fails or is killed, an alert is never stored without the metric
\* it is about: same request, device and second.
AlertBackedByMetric ==
    \A a \in alerts : \E m \in metrics :
        m.by = a.by /\ m.device = a.device /\ m.ts = a.ts

\* A request stores at most one metric and at most one alert per reason, and
\* exactly one metric when its client is told "created".
StoredOnce ==
    /\ \A m, n \in metrics : m.by = n.by => m = n
    /\ \A a, b \in alerts : a.by = b.by /\ a.reason = b.reason => a = b
    /\ \A r \in Recording : pc[r] = "created" => \E m \in metrics : m.by = r

\* Only values inside the documented ranges are ever stored, NaN included:
\* validation lets it through and the NOT NULL columns stop it.
StoredValuesInRange ==
    /\ \A d \in Devices : configs[d] # NULL =>
          configs[d] \in [temp : MinTemp..MaxTemp, battery : MinBatt..MaxBatt]
    /\ \A m \in metrics : m.temp \in MinTemp..MaxTemp /\ m.battery \in MinBatt..MaxBatt

\* The alerts and the metrics table each implement the append-only log.
AlertLog == INSTANCE AppendOnlyLog WITH log <- alerts
MetricLog == INSTANCE AppendOnlyLog WITH log <- metrics
AlertsAppendOnly == AlertLog!Spec
MetricsAppendOnly == MetricLog!Spec

\* Every request that reaches the database is answered or dies with the
\* process: no handler waits for another one.
EventuallyAnswered ==
    \A r \in Requests : InFlight(r) ~> pc[r] \in Answers

=============================================================================
