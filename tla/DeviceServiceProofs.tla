------------------------ MODULE DeviceServiceProofs ------------------------
(***************************************************************************)
(* Proofs that the safety properties of DeviceService hold for every set   *)
(* of devices and requests, every range of values and every resolution of  *)
(* the clock.                                                              *)
(*                                                                         *)
(* None of them is inductive: they say what the tables look like once a    *)
(* request is over, and nothing about a handler that is half way through.  *)
(* HandlerInv is the missing part, what the rows written so far and the    *)
(* handler's local variables have to do with the statement that is next.   *)
(***************************************************************************)
EXTENDS DeviceService, TLAPS

\* The statements of RecordMetric after the metric is saved.
Evaluating == {"getConfig", "saveTempAlert", "saveBattAlert"}

\* The metric of r is in the table.
MetricSaved(r) ==
    \E m \in metrics : /\ m.by = r
                       /\ m.device = req[r].device
                       /\ m.ts = Unix(req[r].time)

\* The request that a handler works on passed validation.
RequestInv(r) ==
    /\ pc[r] = "upsert" => req[r] \in Accepted /\ req[r].op = "configure"
    /\ pc[r] \in Evaluating \cup {"saveMetric"} =>
          req[r] \in Accepted /\ req[r].op = "record"

\* The metric is stored before anything else, and NaN stops there.
MetricInv(r) ==
    /\ pc[r] \in {"idle", "upsert", "saveMetric"} => \A m \in metrics : m.by # r
    /\ pc[r] \in Evaluating => MetricSaved(r) /\ req[r].temp # NaN
    /\ pc[r] = "created" /\ r \in Recording => MetricSaved(r)

\* What was compared, and what was stored, when an alert is to be saved.
AlertInv(r) ==
    /\ pc[r] \in {"idle", "upsert", "saveMetric", "getConfig", "saveTempAlert"} =>
          \A a \in alerts : a.by # r
    /\ pc[r] = "saveTempAlert" => cfg[r] \in Config /\ TempBreached(req[r], cfg[r])
    /\ pc[r] = "saveBattAlert" =>
          /\ cfg[r] \in Config /\ BattBreached(req[r], cfg[r])
          /\ \A a \in alerts : a.by = r => a.reason = TempHigh

\* All of them, for every request.
HandlerInv == \A r \in Requests : RequestInv(r) /\ MetricInv(r) /\ AlertInv(r)

\* The ids that were handed out.
IdInv ==
    /\ \A m \in metrics : m.id <= lastMetricId
    /\ \A a \in alerts : a.id <= lastAlertId

\* The inductive invariant.
Inv == /\ TypeOK /\ HandlerInv /\ IdInv
       /\ StoredOnce /\ AlertBackedByMetric /\ StoredValuesInRange

\* How the config that a handler compares with came about, and which alert a
\* handler that is about to store the second one has stored.
ConfigInv(r) ==
    /\ r \in cfgErr =>
          /\ pc[r] \notin {"idle", "upsert", "saveMetric", "getConfig"}
          /\ pc[r] \in {"saveTempAlert", "saveBattAlert"} => cfg[r] = ZeroConfig
    /\ r \notin cfgErr =>
          /\ pc[r] = "getConfig" => configs[req[r].device] \in inForce[r]
          /\ pc[r] \in {"saveTempAlert", "saveBattAlert"} => cfg[r] \in inForce[r]
          /\ pc[r] = "saveBattAlert" =>
                (TempBreached(req[r], cfg[r]) <=> Raised(r) = {TempHigh})

\* ConfigInv and the two properties, for one request.
EvalOf(r) ==
    /\ ConfigInv(r)
    /\ r \in Recording \ cfgErr => EvaluatedAsConfigured(r)
    /\ r \in cfgErr =>
          (Raised(r) # {} => Raised(r) = {TempHigh} /\ req[r].temp > 0)

\* Inductive together with Inv.
EvalInv == \A r \in Requests : EvalOf(r)

-----------------------------------------------------------------------------
(* Lemmas *)

\* Validation lets a temperature through if it is in range or NaN.
LEMMA TempCheck ==
    ASSUME NEW t \in TempInputs, ~(Less(t, MinTemp) \/ Less(MaxTemp, t))
    PROVE  t \in ValidTemp
BY ServiceAssumption DEF Less, ValidTemp

\* What validateConfigureDeviceReq accepts.
LEMMA ConfigureAccepted ==
    ASSUME NEW q \in ConfigureDeviceRequest, validateConfigureDeviceReq(q)
    PROVE  q \in Accepted /\ q.op = "configure"
<1>1. q.temp \in ValidTemp
    BY TempCheck DEF ConfigureDeviceRequest, validateConfigureDeviceReq
<1>2. q.battery \in MinBatt..MaxBatt
  <2>1. q.battery \in Int
      BY ServiceAssumption DEF ConfigureDeviceRequest
  <2>2. ~(q.battery < MinBatt \/ q.battery > MaxBatt)
      BY DEF validateConfigureDeviceReq
  <2>. QED
      BY <2>1, <2>2, ServiceAssumption
<1>3. q.device \in Devices
    BY DEF ConfigureDeviceRequest, validateConfigureDeviceReq
<1>. QED
    BY <1>1, <1>2, <1>3 DEF ConfigureDeviceRequest, Accepted

\* What validateRecordMetricReq accepts.
LEMMA RecordAccepted ==
    ASSUME NEW q \in RecordMetricRequest, validateRecordMetricReq(q)
    PROVE  q \in Accepted /\ q.op = "record"
<1>1. q.temp \in ValidTemp
    BY TempCheck DEF RecordMetricRequest, validateRecordMetricReq
<1>2. q.battery \in MinBatt..MaxBatt
  <2>1. q.battery \in Int
      BY ServiceAssumption DEF RecordMetricRequest
  <2>2. ~(q.battery < MinBatt \/ q.battery > MaxBatt)
      BY DEF validateRecordMetricReq
  <2>. QED
      BY <2>1, <2>2, ServiceAssumption
<1>3. q.device \in Devices
    BY DEF RecordMetricRequest, validateRecordMetricReq
<1>4. q.time \in Int
    BY ServiceAssumption DEF RecordMetricRequest, validateRecordMetricReq
<1>. QED
    BY <1>1, <1>2, <1>3, <1>4 DEF RecordMetricRequest, Accepted

\* The fields of a request that passed validation.
LEMMA AcceptedFields ==
    ASSUME NEW q \in Accepted
    PROVE  /\ q.device \in Devices
           /\ q.battery \in Int /\ q.battery \in MinBatt..MaxBatt
           /\ q.temp # NaN => q.temp \in Int /\ q.temp \in MinTemp..MaxTemp
           /\ q.op = "record" => q.time \in Int
BY ServiceAssumption DEF Accepted, ValidTemp

\* A second is an integer.
LEMMA UnixType == ASSUME NEW t \in Int PROVE Unix(t) \in Int
BY RepositoryAssumption DEF Unix

\* ConfigureDevice validates: the request it hands on has been accepted.
LEMMA ConfigureDeviceInv ==
    ASSUME Inv, NEW r \in Requests, ConfigureDevice(r)
    PROVE  Inv'
<1>. USE DEF Inv, tables
<1>1. PICK q \in ConfigureDeviceRequest :
         \/ /\ validateConfigureDeviceReq(q)
            /\ req' = [req EXCEPT ![r] = q]
            /\ pc' = [pc EXCEPT ![r] = "upsert"]
         \/ /\ ~validateConfigureDeviceReq(q)
            /\ pc' = [pc EXCEPT ![r] = "badRequest"]
            /\ UNCHANGED req
    BY DEF ConfigureDevice
<1>2. /\ pc[r] = "idle"
      /\ UNCHANGED <<configs, metrics, lastMetricId, alerts, lastAlertId, cfg, canceled, cfgErr, inForce>>
    BY DEF ConfigureDevice
<1>3. validateConfigureDeviceReq(q) => q \in Accepted /\ q.op = "configure"
    BY ConfigureAccepted
<1>4. TypeOK'
    BY <1>1, <1>2, <1>3 DEF TypeOK, Statements, Answers
<1>5. ASSUME NEW s \in Requests PROVE (RequestInv(s) /\ MetricInv(s) /\ AlertInv(s))'
  <2>1. CASE s # r
      BY <2>1, <1>1, <1>2 DEF TypeOK, HandlerInv, RequestInv, MetricInv, AlertInv, MetricSaved, Recording
  <2>2. CASE s = r
      BY <2>2, <1>1, <1>2, <1>3 DEF TypeOK, HandlerInv, RequestInv, MetricInv, AlertInv, MetricSaved, Recording, Evaluating
  <2>. QED BY <2>1, <2>2
<1>6. StoredOnce'
    BY <1>1, <1>2, <1>3 DEF StoredOnce, TypeOK, Recording
<1>. QED
    BY <1>2, <1>4, <1>5, <1>6 DEF HandlerInv, IdInv, AlertBackedByMetric, StoredValuesInRange

\* RecordMetric validates likewise.
LEMMA RecordMetricInv ==
    ASSUME Inv, NEW r \in Requests, RecordMetric(r)
    PROVE  Inv'
<1>. USE DEF Inv, tables
<1>1. PICK q \in RecordMetricRequest :
         \/ /\ validateRecordMetricReq(q)
            /\ req' = [req EXCEPT ![r] = q]
            /\ pc' = [pc EXCEPT ![r] = "saveMetric"]
         \/ /\ ~validateRecordMetricReq(q)
            /\ pc' = [pc EXCEPT ![r] = "badRequest"]
            /\ UNCHANGED req
    BY DEF RecordMetric
<1>2. /\ pc[r] = "idle"
      /\ UNCHANGED <<configs, metrics, lastMetricId, alerts, lastAlertId, cfg,
                     canceled, cfgErr, inForce>>
    BY DEF RecordMetric
<1>3. validateRecordMetricReq(q) => q \in Accepted /\ q.op = "record"
    BY RecordAccepted
<1>4. TypeOK'
    BY <1>1, <1>2, <1>3 DEF TypeOK, Statements, Answers
<1>5. ASSUME NEW s \in Requests PROVE (RequestInv(s) /\ MetricInv(s) /\ AlertInv(s))'
  <2>1. CASE s # r
      BY <2>1, <1>1, <1>2
      DEF TypeOK, HandlerInv, RequestInv, MetricInv, AlertInv, MetricSaved, Recording
  <2>2. CASE s = r
      BY <2>2, <1>1, <1>2, <1>3
      DEF TypeOK, HandlerInv, RequestInv, MetricInv, AlertInv, MetricSaved,
          Recording, Evaluating
  <2>. QED BY <2>1, <2>2
<1>6. StoredOnce'
    BY <1>1, <1>2, <1>3 DEF StoredOnce, TypeOK, Recording
<1>. QED
    BY <1>2, <1>4, <1>5, <1>6 DEF HandlerInv, IdInv, AlertBackedByMetric, StoredValuesInRange

\* The upsert stores a configuration that was validated and holds no NaN.
LEMMA UpsertDeviceConfigInv ==
    ASSUME Inv, NEW r \in Requests, UpsertDeviceConfig(r)
    PROVE  Inv'
<1>. DEFINE q == req[r]
            c == [temp |-> q.temp, battery |-> q.battery]
<1>. USE DEF Inv
<1>1. PICK o \in Outcomes :
         /\ Executes(r, Storable(q), o)
         /\ pc' = [pc EXCEPT ![r] = Answer(o, "created")]
         /\ \/ /\ o = "failed"
               /\ UNCHANGED <<configs, inForce>>
            \/ /\ o # "failed"
               /\ configs' = [configs EXCEPT ![q.device] = c]
               /\ inForce' = [s \in Requests |->
                     IF pc[s] = "getConfig" /\ req[s].device = q.device
                     THEN inForce[s] \cup {c} ELSE inForce[s]]
    BY DEF UpsertDeviceConfig
<1>2. /\ pc[r] = "upsert"
      /\ UNCHANGED <<metrics, lastMetricId, alerts, lastAlertId, req, cfg, cfgErr>>
    BY DEF UpsertDeviceConfig
<1>3. q \in Accepted /\ q.op = "configure"
    BY <1>2 DEF HandlerInv, RequestInv
<1>4. o # "failed" => c \in [temp : MinTemp..MaxTemp, battery : MinBatt..MaxBatt]
    BY <1>1, <1>3, AcceptedFields DEF Executes, Storable
<1>5. o # "failed" => c \in Config
    BY <1>4, ServiceAssumption DEF Config
<1>6. canceled' \in SUBSET Requests
    BY <1>1 DEF Executes, TypeOK
<1>7. pc' = [pc EXCEPT ![r] = "created"] \/ pc' = [pc EXCEPT ![r] = "internal"]
    BY <1>1 DEF Answer
<1>8. TypeOK'
    BY <1>1, <1>2, <1>3, <1>5, <1>6, <1>7, AcceptedFields DEF TypeOK, Statements, Answers
<1>9. ASSUME NEW s \in Requests PROVE (RequestInv(s) /\ MetricInv(s) /\ AlertInv(s))'
  <2>1. CASE s # r
      BY <2>1, <1>7, <1>2
      DEF TypeOK, HandlerInv, RequestInv, MetricInv, AlertInv, MetricSaved, Recording
  <2>2. CASE s = r
      BY <2>2, <1>7, <1>2, <1>3
      DEF TypeOK, HandlerInv, RequestInv, MetricInv, AlertInv, MetricSaved,
          Recording, Evaluating
  <2>. QED BY <2>1, <2>2
<1>10. StoredOnce'
    BY <1>7, <1>2, <1>3 DEF StoredOnce, TypeOK, Recording
<1>11. StoredValuesInRange'
    BY <1>1, <1>2, <1>3, <1>4, AcceptedFields DEF StoredValuesInRange, TypeOK
<1>. QED
    BY <1>2, <1>8, <1>9, <1>10, <1>11 DEF HandlerInv, IdInv, AlertBackedByMetric

\* The metric of r is the first row r writes, under a new id.
LEMMA SaveDeviceMetricInv ==
    ASSUME Inv, NEW r \in Requests, SaveDeviceMetric(r)
    PROVE  Inv'
<1>. DEFINE q == req[r]
            row == MetricRow(lastMetricId + 1, q.device, q, r)
<1>. USE DEF Inv
<1>1. PICK o \in Outcomes :
         /\ Executes(r, Storable(q), o)
         /\ pc' = [pc EXCEPT ![r] = Answer(o, "getConfig")]
         /\ \/ /\ o = "failed"
               /\ UNCHANGED <<metrics, lastMetricId, inForce>>
            \/ /\ o # "failed"
               /\ lastMetricId' = lastMetricId + 1
               /\ metrics' = metrics \cup {row}
               /\ inForce' = [inForce EXCEPT ![r] = {configs[q.device]}]
    BY DEF SaveDeviceMetric
<1>2. /\ pc[r] = "saveMetric"
      /\ UNCHANGED <<configs, alerts, lastAlertId, req, cfg, cfgErr>>
    BY DEF SaveDeviceMetric
<1>3. q \in Accepted /\ q.op = "record"
    BY <1>2 DEF HandlerInv, RequestInv
<1>4. canceled' \in SUBSET Requests /\ (o # "failed" => q.temp # NaN)
    BY <1>1 DEF Executes, Storable, TypeOK
<1>5. \/ pc' = [pc EXCEPT ![r] = "internal"]
      \/ o # "failed" /\ pc' = [pc EXCEPT ![r] = "getConfig"]
    BY <1>1 DEF Answer
<1>6. /\ row.id = lastMetricId + 1 /\ row.by = r /\ row.device = q.device
      /\ row.ts = Unix(q.time) /\ row.temp = q.temp /\ row.battery = q.battery
    BY DEF MetricRow
<1>7. o # "failed" => row \in [id : Nat, device : Devices, temp : Int,
                               battery : Int, ts : Int, by : Requests]
    BY <1>3, <1>4, AcceptedFields, UnixType DEF MetricRow, TypeOK
<1>8. TypeOK'
    BY <1>1, <1>2, <1>3, <1>4, <1>5, <1>7, AcceptedFields DEF TypeOK, Statements, Answers
<1>9. \A m \in metrics : m.by # r
    BY <1>2 DEF HandlerInv, MetricInv
<1>10. metrics \subseteq metrics' /\ metrics' \subseteq metrics \cup {row}
    BY <1>1
<1>11. ASSUME NEW s \in Requests PROVE (RequestInv(s) /\ MetricInv(s) /\ AlertInv(s))'
  <2>. HIDE DEF row, q
  <2>1. CASE s # r
      BY <2>1, <1>2, <1>5, <1>6, <1>10
      DEF TypeOK, HandlerInv, RequestInv, MetricInv, AlertInv, MetricSaved, Recording
  <2>2. CASE s = r
      BY <2>2, <1>1, <1>2, <1>3, <1>4, <1>5, <1>6
      DEF TypeOK, HandlerInv, RequestInv, MetricInv, AlertInv, MetricSaved,
          Recording, Evaluating, q
  <2>. QED BY <2>1, <2>2
<1>12. StoredOnce'
  <2>. HIDE DEF row
  <2>. QED BY <1>2, <1>5, <1>6, <1>9, <1>10 DEF StoredOnce, TypeOK, Recording
<1>13. StoredValuesInRange'
  <2>. HIDE DEF row
  <2>. QED BY <1>1, <1>2, <1>3, <1>4, <1>6, AcceptedFields DEF StoredValuesInRange, TypeOK
<1>14. IdInv'
  <2>. HIDE DEF row
  <2>. QED BY <1>1, <1>2, <1>6 DEF IdInv, TypeOK
<1>15. AlertBackedByMetric'
    BY <1>2, <1>10 DEF AlertBackedByMetric
<1>. QED
    BY <1>8, <1>11, <1>12, <1>13, <1>14, <1>15 DEF HandlerInv

\* The config read moves the handler to the alert that is due, or ends it.
LEMMA GetDeviceConfigInv ==
    ASSUME Inv, NEW r \in Requests, GetDeviceConfig(r)
    PROVE  Inv'
<1>. DEFINE q == req[r]
<1>. USE DEF Inv, tables
<1>1. /\ pc[r] = "getConfig"
      /\ UNCHANGED <<configs, metrics, lastMetricId, alerts, lastAlertId, req, inForce>>
    BY DEF GetDeviceConfig
<1>2. q \in Accepted /\ q.op = "record"
    BY <1>1 DEF HandlerInv, RequestInv, Evaluating
<1>3. /\ canceled' \in SUBSET Requests
      /\ cfgErr' \in SUBSET Requests
    BY DEF GetDeviceConfig, Executes, TypeOK
<1>4. \/ /\ pc' = [pc EXCEPT ![r] = "created"]
         /\ cfg' = cfg
      \/ \E c \in Config :
           /\ cfg' = [cfg EXCEPT ![r] = c]
           /\ pc' = [pc EXCEPT ![r] = AfterConfig(q, c)]
  <2>1. q.device \in Devices
      BY <1>2, AcceptedFields
  <2>2. configs[q.device] = NULL \/ configs[q.device] \in Config
      BY <2>1 DEF TypeOK
  <2>3. ZeroConfig \in Config
      BY DEF ZeroConfig, Config
  <2>. QED
      BY <2>2, <2>3 DEF GetDeviceConfig
<1>5. \/ /\ pc' = [pc EXCEPT ![r] = "created"]
         /\ cfg' \in [Requests -> Config \cup {NULL}]
         /\ \A s \in Requests \ {r} : cfg'[s] = cfg[s]
      \/ \E c \in Config :
           /\ cfg' = [cfg EXCEPT ![r] = c]
           /\ \/ /\ TempBreached(q, c)
                 /\ pc' = [pc EXCEPT ![r] = "saveTempAlert"]
              \/ /\ BattBreached(q, c)
                 /\ pc' = [pc EXCEPT ![r] = "saveBattAlert"]
  <2>1. cfg \in [Requests -> Config \cup {NULL}]
      BY DEF TypeOK
  <2>. QED
      BY <1>4, <2>1 DEF AfterConfig, AfterTempCheck
<1>6. TypeOK'
    BY <1>1, <1>3, <1>5 DEF TypeOK, Statements, Answers
<1>7. ASSUME NEW s \in Requests PROVE (RequestInv(s) /\ MetricInv(s) /\ AlertInv(s))'
  <2>1. CASE s # r
      BY <2>1, <1>1, <1>5
      DEF TypeOK, HandlerInv, RequestInv, MetricInv, AlertInv, MetricSaved, Recording,
          TempBreached, BattBreached
  <2>2. CASE s = r
    <3>1. RequestInv(s)'
        BY <2>2, <1>1, <1>2, <1>5 DEF TypeOK, RequestInv, Evaluating
    <3>2. MetricInv(s)'
        BY <2>2, <1>1, <1>5 DEF TypeOK, HandlerInv, MetricInv, MetricSaved, Evaluating
    <3>3. AlertInv(s)'
        BY <2>2, <1>1, <1>5 DEF TypeOK, HandlerInv, AlertInv, TempBreached, BattBreached
    <3>. QED BY <3>1, <3>2, <3>3
  <2>. QED BY <2>1, <2>2
<1>8. StoredOnce'
    BY <1>1, <1>5 DEF StoredOnce, TypeOK, Recording, HandlerInv, MetricInv, MetricSaved, Evaluating
<1>. QED
    BY <1>1, <1>6, <1>7, <1>8 DEF HandlerInv, IdInv, AlertBackedByMetric, StoredValuesInRange

\* What one of the two blocks that store an alert does.
LEMMA SaveDeviceAlertStep ==
    ASSUME Inv, NEW r \in Requests, NEW reason \in {TempHigh, BatteryLow}, NEW next,
           pc[r] \in {"saveTempAlert", "saveBattAlert"},
           SaveDeviceAlert(r, reason, next)
    PROVE  /\ UNCHANGED <<configs, metrics, lastMetricId, req, cfg, cfgErr, inForce>>
           /\ canceled' \in SUBSET Requests
           /\ \/ pc' = [pc EXCEPT ![r] = "internal"] /\ UNCHANGED <<alerts, lastAlertId>>
              \/ \E row \in [id : Nat, device : Devices, reason : {TempHigh, BatteryLow},
                             ts : Int, by : Requests] :
                    /\ row.id = lastAlertId + 1 /\ row.by = r /\ row.reason = reason
                    /\ row.device = req[r].device /\ row.ts = Unix(req[r].time)
                    /\ alerts' = alerts \cup {row}
                    /\ lastAlertId' = lastAlertId + 1
                    /\ \/ pc' = [pc EXCEPT ![r] = "internal"]
                       \/ pc' = [pc EXCEPT ![r] = next]
<1>. DEFINE q == req[r]
            row == AlertRow(lastAlertId + 1, q.device, [reason |-> reason, time |-> q.time], r)
<1>. USE DEF Inv
<1>1. q \in Accepted /\ q.op = "record"
    BY DEF HandlerInv, RequestInv, Evaluating
<1>2. row \in [id : Nat, device : Devices, reason : {TempHigh, BatteryLow},
               ts : Int, by : Requests]
    BY <1>1, AcceptedFields, UnixType DEF AlertRow, TypeOK
<1>3. /\ row.id = lastAlertId + 1 /\ row.by = r /\ row.reason = reason
      /\ row.device = q.device /\ row.ts = Unix(q.time)
    BY DEF AlertRow
<1>4. /\ UNCHANGED <<configs, metrics, lastMetricId, req, cfg, cfgErr, inForce>>
      /\ canceled' \in SUBSET Requests
    BY DEF SaveDeviceAlert, Executes, TypeOK
<1>5. PICK o \in Outcomes :
         /\ pc' = [pc EXCEPT ![r] = Answer(o, next)]
         /\ \/ o = "failed" /\ UNCHANGED <<alerts, lastAlertId>>
            \/ /\ o # "failed"
               /\ lastAlertId' = lastAlertId + 1
               /\ alerts' = alerts \cup {row}
    BY DEF SaveDeviceAlert
<1>6. pc' = [pc EXCEPT ![r] = "internal"] \/ (o = "ok" /\ pc' = [pc EXCEPT ![r] = next])
    BY <1>5 DEF Answer
<1>. HIDE DEF row
<1>7. CASE o = "failed"
    BY <1>4, <1>5, <1>6, <1>7
<1>8. CASE o # "failed"
    BY <1>2, <1>3, <1>4, <1>5, <1>6, <1>8
<1>. QED
    BY <1>7, <1>8

\* An alert is stored under a new id by a handler whose metric is in the table
\* and which has not stored one of that reason before.
LEMMA SaveAlertInv ==
    ASSUME Inv, NEW r \in Requests, SaveTempAlert(r) \/ SaveBattAlert(r)
    PROVE  Inv'
<1>. DEFINE reason == IF pc[r] = "saveTempAlert" THEN TempHigh ELSE BatteryLow
            next == IF pc[r] = "saveTempAlert" THEN AfterTempCheck(req[r], cfg[r]) ELSE "created"
            Row0 == [id : Nat, device : Devices, reason : {TempHigh, BatteryLow},
                     ts : Int, by : Requests]
<1>. USE DEF Inv
<1>1. /\ pc[r] \in {"saveTempAlert", "saveBattAlert"}
      /\ SaveDeviceAlert(r, reason, next)
    BY DEF SaveTempAlert, SaveBattAlert
<1>2. reason \in {TempHigh, BatteryLow} /\ TempHigh # BatteryLow
    BY DEF TempHigh, BatteryLow
<1>3. next = "created" \/ (pc[r] = "saveTempAlert" /\ next = "saveBattAlert"
                            /\ BattBreached(req[r], cfg[r]))
    BY <1>1 DEF AfterTempCheck
<1>. HIDE DEF next
<1>4. /\ UNCHANGED <<configs, metrics, lastMetricId, req, cfg, cfgErr, inForce>>
      /\ canceled' \in SUBSET Requests
      /\ \/ pc' = [pc EXCEPT ![r] = "internal"] /\ UNCHANGED <<alerts, lastAlertId>>
         \/ \E row \in Row0 :
               /\ row.id = lastAlertId + 1 /\ row.by = r /\ row.reason = reason
               /\ row.device = req[r].device /\ row.ts = Unix(req[r].time)
               /\ alerts' = alerts \cup {row}
               /\ lastAlertId' = lastAlertId + 1
               /\ \/ pc' = [pc EXCEPT ![r] = "internal"]
                  \/ pc' = [pc EXCEPT ![r] = next]
    BY <1>1, <1>2, SaveDeviceAlertStep
<1>5. req[r] \in Accepted /\ req[r].op = "record"
    BY <1>1 DEF HandlerInv, RequestInv, Evaluating
<1>6. MetricSaved(r) /\ req[r].temp # NaN
    BY <1>1 DEF HandlerInv, MetricInv, Evaluating
<1>7. CASE pc' = [pc EXCEPT ![r] = "internal"] /\ UNCHANGED <<alerts, lastAlertId>>
  <2>1. TypeOK'
      BY <1>7, <1>4 DEF TypeOK, Statements, Answers
  <2>2. ASSUME NEW s \in Requests PROVE (RequestInv(s) /\ MetricInv(s) /\ AlertInv(s))'
      BY <1>7, <1>4
      DEF TypeOK, HandlerInv, RequestInv, MetricInv, AlertInv, MetricSaved, Recording,
          TempBreached, BattBreached, Evaluating
  <2>3. StoredOnce'
      BY <1>7, <1>4 DEF StoredOnce, TypeOK, Recording
  <2>. QED
      BY <1>7, <1>4, <2>1, <2>2, <2>3
      DEF HandlerInv, IdInv, AlertBackedByMetric, StoredValuesInRange
<1>8. ASSUME NEW row \in Row0,
             row.id = lastAlertId + 1, row.by = r, row.reason = reason,
             row.device = req[r].device, row.ts = Unix(req[r].time),
             alerts' = alerts \cup {row},
             lastAlertId' = lastAlertId + 1,
             \/ pc' = [pc EXCEPT ![r] = "internal"]
             \/ pc' = [pc EXCEPT ![r] = next]
      PROVE  Inv'
  <2>1. TypeOK'
      BY <1>8, <1>4, <1>3 DEF TypeOK, Statements, Answers
  <2>2. ASSUME NEW s \in Requests PROVE (RequestInv(s) /\ MetricInv(s) /\ AlertInv(s))'
    <3>1. CASE s # r
        BY <3>1, <1>8, <1>4
        DEF TypeOK, HandlerInv, RequestInv, MetricInv, AlertInv, MetricSaved, Recording,
            TempBreached, BattBreached
    <3>2. CASE s = r
      <4>1. pc'[s] = "internal" \/ pc'[s] = next
          BY <3>2, <1>8 DEF TypeOK
      <4>2. RequestInv(s)'
          BY <3>2, <4>1, <1>3, <1>4, <1>5 DEF RequestInv, Evaluating
      <4>3. MetricInv(s)'
          BY <3>2, <4>1, <1>3, <1>4, <1>6 DEF MetricInv, MetricSaved, Evaluating
      <4>4. AlertInv(s)'
          BY <3>2, <4>1, <1>1, <1>3, <1>4, <1>8 DEF AlertInv, HandlerInv, BattBreached
      <4>. QED BY <4>2, <4>3, <4>4
    <3>. QED BY <3>1, <3>2
  <2>3. StoredOnce'
    <3>1. \A a \in alerts : a.by = r => a.reason # reason
        BY <1>1, <1>2 DEF HandlerInv, AlertInv
    <3>2. \A a, b \in alerts' : a.by = b.by /\ a.reason = b.reason => a = b
        BY <3>1, <1>8 DEF StoredOnce
    <3>3. \A s \in Recording' : pc'[s] = "created" => \E m \in metrics' : m.by = s
        BY <1>8, <1>3, <1>4, <1>6 DEF StoredOnce, Recording, TypeOK, MetricSaved
    <3>. QED
        BY <1>4, <3>2, <3>3 DEF StoredOnce
  <2>4. AlertBackedByMetric'
      BY <1>4, <1>6, <1>8 DEF AlertBackedByMetric, MetricSaved
  <2>5. IdInv'
      BY <1>4, <1>8 DEF IdInv, TypeOK
  <2>. QED
      BY <1>4, <2>1, <2>2, <2>3, <2>4, <2>5 DEF HandlerInv, StoredValuesInRange
<1>. QED
    BY <1>4, <1>7, <1>8

\* The environment moves handlers to an answer and changes no table.
LEMMA EnvironmentInv ==
    ASSUME Inv, \/ \E r \in Requests : BindFails(r) \/ Cancel(r)
                \/ Crash
                \/ UNCHANGED vars
    PROVE  Inv'
<1>. USE DEF Inv, tables
<1>1. /\ UNCHANGED <<configs, metrics, lastMetricId, alerts, lastAlertId, req, cfg,
                     cfgErr, inForce>>
      /\ canceled' \in SUBSET Requests
    BY DEF BindFails, Cancel, Crash, vars, TypeOK
<1>2. /\ pc' \in [Requests -> {"idle"} \cup Statements \cup Answers]
      /\ \A s \in Requests : pc'[s] = pc[s] \/ pc'[s] \in {"badRequest", "lost"}
    BY DEF BindFails, Cancel, Crash, vars, TypeOK, Answers
<1>3. TypeOK'
    BY <1>1, <1>2 DEF TypeOK
<1>4. ASSUME NEW s \in Requests PROVE (RequestInv(s) /\ MetricInv(s) /\ AlertInv(s))'
    BY <1>1, <1>2
    DEF HandlerInv, RequestInv, MetricInv, AlertInv, MetricSaved, Recording,
        TempBreached, BattBreached, Evaluating
<1>5. StoredOnce'
    BY <1>1, <1>2 DEF StoredOnce, Recording
<1>. QED
    BY <1>1, <1>3, <1>4, <1>5 DEF HandlerInv, IdInv, AlertBackedByMetric, StoredValuesInRange

\* An empty database with no request in flight satisfies Inv.
LEMMA InitInv == Init => Inv
<1>. SUFFICES ASSUME Init PROVE Inv
    OBVIOUS
<1>1. TypeOK
    BY DEF Init, TypeOK
<1>2. HandlerInv
    BY DEF Init, HandlerInv, RequestInv, MetricInv, AlertInv, Evaluating
<1>. QED
    BY <1>1, <1>2
    DEF Inv, Init, IdInv, StoredOnce, Recording, AlertBackedByMetric, StoredValuesInRange

\* Every statement of a handler and every step of the environment keeps Inv.
LEMMA NextInv == Inv /\ [Next]_vars => Inv'
BY ConfigureDeviceInv, RecordMetricInv, UpsertDeviceConfigInv, SaveDeviceMetricInv,
   GetDeviceConfigInv, SaveAlertInv, EnvironmentInv
DEF Next, HandlerStep

\* Inv holds in every state of every behaviour of the service.
THEOREM Invariance == Spec => []Inv
BY InitInv, NextInv, PTL DEF Spec

\* The tables and the handlers' local variables keep their types; NaN, which
\* validation accepts, is in none of the tables.
THEOREM TypeCorrect == Spec => []TypeOK
<1>1. Inv => TypeOK
    BY DEF Inv
<1>. QED
    BY <1>1, Invariance, PTL

\* No alert is stored without the metric it is about, wherever a RecordMetric
\* request fails, is canceled or dies with the process.
THEOREM AlertsAreBacked == Spec => []AlertBackedByMetric
<1>1. Inv => AlertBackedByMetric
    BY DEF Inv
<1>. QED
    BY <1>1, Invariance, PTL

\* No request stores a metric or an alert of a reason twice, and a request that
\* was answered with success has stored its metric.
THEOREM RowsAreStoredOnce == Spec => []StoredOnce
<1>1. Inv => StoredOnce
    BY DEF Inv
<1>. QED
    BY <1>1, Invariance, PTL

\* The configs and metrics tables only hold values in the documented ranges.
THEOREM ValuesAreInRange == Spec => []StoredValuesInRange
<1>1. Inv => StoredValuesInRange
    BY DEF Inv
<1>. QED
    BY <1>1, Invariance, PTL

-----------------------------------------------------------------------------
(* The alerts follow the configuration *)

\* The reasons that r stored, after an alert was added to the table.
LEMMA RaisedGrows ==
    ASSUME NEW row, alerts' = alerts \cup {row}, NEW s \in Requests
    PROVE  Raised(s)' = IF row.by = s THEN Raised(s) \cup {row.reason} ELSE Raised(s)
BY DEF Raised

\* A step keeps EvalOf(s) when it leaves s where it is or ends s without
\* success, and stores no alert for s.
LEMMA EvalKept ==
    ASSUME NEW s \in Requests, EvalOf(s),
           req'[s] = req[s], cfg'[s] = cfg[s], s \in cfgErr' <=> s \in cfgErr,
           Raised(s)' = Raised(s),
           inForce[s] \subseteq inForce'[s],
           \/ /\ pc'[s] = pc[s]
              /\ pc[s] = "getConfig" =>
                    \/ configs'[req[s].device] = configs[req[s].device]
                    \/ configs'[req[s].device] \in inForce'[s]
           \/ pc'[s] \in {"badRequest", "internal", "lost"}
    PROVE  EvalOf(s)'
<1>1. ConfigInv(s)'
    BY DEF EvalOf, ConfigInv, TempBreached
<1>2. s \in Recording' <=> s \in Recording
    BY DEF Recording
<1>3. EvaluatedAsConfigured(s) => EvaluatedAsConfigured(s)'
  <2>1. pc'[s] = "created" => pc[s] = "created"
      OBVIOUS
  <2>. QED
      BY <2>1 DEF EvaluatedAsConfigured, Breached
<1>. QED
    BY <1>1, <1>2, <1>3 DEF EvalOf

\* A request that begins has stored nothing.
LEMMA BeginEval ==
    ASSUME Inv, EvalInv, NEW r \in Requests, ConfigureDevice(r) \/ RecordMetric(r)
    PROVE  EvalInv'
<1>. SUFFICES ASSUME NEW s \in Requests PROVE EvalOf(s)'
    BY DEF EvalInv
<1>. USE DEF tables
<1>1. EvalOf(s)
    BY DEF EvalInv
<1>2. /\ pc[r] = "idle"
      /\ UNCHANGED <<configs, alerts, cfg, cfgErr, inForce>>
    BY DEF ConfigureDevice, RecordMetric
<1>3. \E p \in {"upsert", "saveMetric", "badRequest"} : pc' = [pc EXCEPT ![r] = p]
    BY DEF ConfigureDevice, RecordMetric
<1>4. req' = req \/ \E q : req' = [req EXCEPT ![r] = q]
    BY DEF ConfigureDevice, RecordMetric
<1>5. Raised(s)' = Raised(s)
    BY <1>2 DEF Raised
<1>6. pc \in [Requests -> {"idle"} \cup Statements \cup Answers] /\ DOMAIN req = Requests
    BY DEF Inv, TypeOK
<1>7. CASE s # r
    BY <1>1, <1>2, <1>3, <1>4, <1>5, <1>6, <1>7, EvalKept
<1>8. CASE s = r
  <2>1. Raised(s) = {}
      BY <1>2, <1>8 DEF Inv, HandlerInv, AlertInv, Raised
  <2>2. s \notin cfgErr'
      BY <1>1, <1>2, <1>8 DEF EvalOf, ConfigInv
  <2>3. pc'[s] \in {"upsert", "saveMetric", "badRequest"}
      BY <1>3, <1>6, <1>8
  <2>. QED
      BY <1>5, <2>1, <2>2, <2>3 DEF EvalOf, ConfigInv, EvaluatedAsConfigured
<1>. QED
    BY <1>7, <1>8

\* A configuration that is stored while a handler has yet to read it is in
\* force for that handler.
LEMMA UpsertEval ==
    ASSUME Inv, EvalInv, NEW r \in Requests, UpsertDeviceConfig(r)
    PROVE  EvalInv'
<1>. SUFFICES ASSUME NEW s \in Requests PROVE EvalOf(s)'
    BY DEF EvalInv
<1>. DEFINE q == req[r]
            c == [temp |-> q.temp, battery |-> q.battery]
<1>1. EvalOf(s)
    BY DEF EvalInv
<1>2. /\ pc[r] = "upsert"
      /\ UNCHANGED <<alerts, req, cfg, cfgErr>>
    BY DEF UpsertDeviceConfig
<1>3. \/ UNCHANGED <<configs, inForce>>
      \/ /\ configs' = [configs EXCEPT ![q.device] = c]
         /\ inForce' = [x \in Requests |->
               IF pc[x] = "getConfig" /\ req[x].device = q.device
               THEN inForce[x] \cup {c} ELSE inForce[x]]
    BY DEF UpsertDeviceConfig
<1>4. pc' = [pc EXCEPT ![r] = "created"] \/ pc' = [pc EXCEPT ![r] = "internal"]
    BY DEF UpsertDeviceConfig, Answer
<1>5. Raised(s)' = Raised(s)
    BY <1>2 DEF Raised
<1>6. TypeOK
    BY DEF Inv
<1>7. inForce[s] \subseteq inForce'[s]
    BY <1>3
<1>8. CASE s # r
  <2>1. pc'[s] = pc[s]
      BY <1>4, <1>6, <1>8 DEF TypeOK
  <2>2. pc[s] = "getConfig" =>
           \/ configs'[req[s].device] = configs[req[s].device]
           \/ configs'[req[s].device] \in inForce'[s]
    <3>1. pc[s] = "getConfig" => req[s].device \in Devices
        BY AcceptedFields DEF Inv, HandlerInv, RequestInv, Evaluating
    <3>. HIDE DEF c
    <3>. QED BY <3>1, <1>3, <1>6 DEF TypeOK
  <2>. QED
      BY <1>1, <1>2, <1>5, <1>7, <2>1, <2>2, EvalKept
<1>9. CASE s = r
  <2>1. s \notin Recording'
      BY <1>2, <1>9 DEF Inv, HandlerInv, RequestInv, Recording
  <2>2. s \notin cfgErr'
      BY <1>1, <1>2, <1>9 DEF EvalOf, ConfigInv
  <2>3. pc'[s] \in {"created", "internal"}
      BY <1>4, <1>6, <1>9 DEF TypeOK
  <2>. QED
      BY <2>1, <2>2, <2>3 DEF EvalOf, ConfigInv
<1>. QED
    BY <1>8, <1>9

\* When the metric is saved, the configuration of the moment is in force.
LEMMA SaveMetricEval ==
    ASSUME Inv, EvalInv, NEW r \in Requests, SaveDeviceMetric(r)
    PROVE  EvalInv'
<1>. SUFFICES ASSUME NEW s \in Requests PROVE EvalOf(s)'
    BY DEF EvalInv
<1>1. EvalOf(s)
    BY DEF EvalInv
<1>2. /\ pc[r] = "saveMetric"
      /\ UNCHANGED <<configs, alerts, req, cfg, cfgErr>>
    BY DEF SaveDeviceMetric
<1>3. inForce' = inForce \/ inForce' = [inForce EXCEPT ![r] = {configs[req[r].device]}]
    BY DEF SaveDeviceMetric
<1>4. \/ pc' = [pc EXCEPT ![r] = "internal"]
      \/ /\ pc' = [pc EXCEPT ![r] = "getConfig"]
         /\ inForce' = [inForce EXCEPT ![r] = {configs[req[r].device]}]
    BY DEF SaveDeviceMetric, Answer
<1>5. Raised(s)' = Raised(s)
    BY <1>2 DEF Raised
<1>6. TypeOK
    BY DEF Inv
<1>7. CASE s # r
  <2>1. pc'[s] = pc[s] /\ inForce'[s] = inForce[s]
      BY <1>3, <1>4, <1>6, <1>7 DEF TypeOK
  <2>. QED
      BY <1>1, <1>2, <1>5, <2>1, EvalKept
<1>8. CASE s = r
  <2>1. Raised(s) = {}
      BY <1>2, <1>8 DEF Inv, HandlerInv, AlertInv, Raised
  <2>2. s \notin cfgErr'
      BY <1>1, <1>2, <1>8 DEF EvalOf, ConfigInv
  <2>3. \/ pc'[s] = "internal"
        \/ pc'[s] = "getConfig" /\ inForce'[s] = {configs[req[s].device]}
      BY <1>4, <1>6, <1>8 DEF TypeOK
  <2>. QED
      BY <1>2, <1>5, <2>1, <2>2, <2>3 DEF EvalOf, ConfigInv, EvaluatedAsConfigured
<1>. QED
    BY <1>7, <1>8

\* The two comparisons of RecordMetric are those of the documentation.
LEMMA BreachedIs ==
    ASSUME NEW q \in Accepted, q.temp # NaN, NEW c \in Config
    PROVE  /\ TempHigh \in Breached(q, c) <=> TempBreached(q, c)
           /\ BatteryLow \in Breached(q, c) <=> BattBreached(q, c)
           /\ Breached(q, c) \subseteq {TempHigh, BatteryLow}
<1>1. c # NULL /\ c.temp \in Int /\ c.battery \in Int /\ NaN \notin Int
    BY ServiceAssumption DEF Config
<1>2. q.temp \in Int
    BY AcceptedFields
<1>3. TempBreached(q, c) <=> c.temp < q.temp
    BY <1>1, <1>2 DEF TempBreached, Less
<1>. QED
    BY <1>1, <1>2, <1>3 DEF Breached, BattBreached, TempHigh, BatteryLow

\* The config that is read is in force, and decides what comes next.
LEMMA GetConfigEval ==
    ASSUME Inv, EvalInv, NEW r \in Requests, GetDeviceConfig(r)
    PROVE  EvalInv'
<1>. SUFFICES ASSUME NEW s \in Requests PROVE EvalOf(s)'
    BY DEF EvalInv
<1>. DEFINE q == req[r]
            c == configs[q.device]
<1>. USE DEF tables
<1>1. EvalOf(s)
    BY DEF EvalInv
<1>2. /\ pc[r] = "getConfig"
      /\ UNCHANGED <<configs, alerts, req, inForce>>
    BY DEF GetDeviceConfig
<1>3. Raised(s)' = Raised(s)
    BY <1>2 DEF Raised
<1>4. TypeOK
    BY DEF Inv
<1>5. q \in Accepted /\ q.temp # NaN
    BY <1>2 DEF Inv, HandlerInv, RequestInv, MetricInv, Evaluating
<1>6. \/ /\ c = NULL
         /\ pc' = [pc EXCEPT ![r] = "created"]
         /\ UNCHANGED <<cfg, cfgErr>>
      \/ /\ c # NULL
         /\ cfg' = [cfg EXCEPT ![r] = c]
         /\ pc' = [pc EXCEPT ![r] = AfterConfig(q, c)]
         /\ UNCHANGED cfgErr
      \/ /\ cfg' = [cfg EXCEPT ![r] = ZeroConfig]
         /\ pc' = [pc EXCEPT ![r] = AfterConfig(q, ZeroConfig)]
         /\ cfgErr' = cfgErr \cup {r}
    BY DEF GetDeviceConfig
<1>. HIDE DEF c
<1>7. CASE s # r
  <2>1. pc'[s] = pc[s] /\ cfg'[s] = cfg[s] /\ (s \in cfgErr' <=> s \in cfgErr)
      BY <1>4, <1>6, <1>7 DEF TypeOK
  <2>. QED
      BY <1>1, <1>2, <1>3, <2>1, EvalKept
<1>8. CASE s = r
  <2>1. Raised(s) = {} /\ s \notin cfgErr /\ c \in inForce[s]
      BY <1>1, <1>2, <1>8
      DEF Inv, HandlerInv, AlertInv, Raised, EvalOf, ConfigInv, c
  <2>2. \A x : AfterConfig(q, x) \in {"saveTempAlert", "saveBattAlert", "created"}
      BY DEF AfterConfig, AfterTempCheck
  <2>3. CASE /\ c = NULL
             /\ pc' = [pc EXCEPT ![r] = "created"]
             /\ UNCHANGED <<cfg, cfgErr>>
    <3>1. pc'[s] = "created"
        BY <2>3, <1>4, <1>8 DEF TypeOK
    <3>2. Breached(q, c) = {}
        BY <2>3 DEF Breached
    <3>. QED
        BY <3>1, <3>2, <2>1, <2>3, <1>2, <1>3, <1>8
        DEF EvalOf, ConfigInv, EvaluatedAsConfigured, Breached
  <2>4. CASE /\ c # NULL
             /\ cfg' = [cfg EXCEPT ![r] = c]
             /\ pc' = [pc EXCEPT ![r] = AfterConfig(q, c)]
             /\ UNCHANGED cfgErr
    <3>1. c \in Config
        BY <2>4, <1>4, <1>5, AcceptedFields DEF TypeOK, c
    <3>2. pc'[s] = AfterConfig(q, c) /\ cfg'[s] = c /\ req'[s] = q
        BY <2>4, <1>2, <1>4, <1>8 DEF TypeOK
    <3>3. pc'[s] = "saveBattAlert" => ~TempBreached(q, c)
        BY <3>2 DEF AfterConfig
    <3>4. pc'[s] = "created" => ~TempBreached(q, c) /\ ~BattBreached(q, c)
        BY <3>2 DEF AfterConfig, AfterTempCheck
    <3>5. pc'[s] = "created" => Breached(q, c) = {}
        BY <3>1, <3>4, <1>5, BreachedIs
    <3>6. ConfigInv(s)'
        BY <3>2, <3>3, <2>1, <2>2, <2>4, <1>2, <1>3 DEF ConfigInv, TempBreached
    <3>7. EvaluatedAsConfigured(s)'
        BY <3>2, <3>5, <2>1, <1>2, <1>3 DEF EvaluatedAsConfigured, Breached
    <3>. QED
        BY <3>6, <3>7, <2>1, <2>4 DEF EvalOf
  <2>5. CASE /\ cfg' = [cfg EXCEPT ![r] = ZeroConfig]
             /\ pc' = [pc EXCEPT ![r] = AfterConfig(q, ZeroConfig)]
             /\ cfgErr' = cfgErr \cup {r}
    <3>1. pc'[s] \in {"saveTempAlert", "saveBattAlert", "created"} /\ cfg'[s] = ZeroConfig
        BY <2>2, <2>5, <1>4, <1>8 DEF TypeOK
    <3>. QED
        BY <3>1, <2>1, <2>5, <1>3, <1>8 DEF EvalOf, ConfigInv, ZeroConfig
  <2>. QED
      BY <1>6, <2>3, <2>4, <2>5
<1>. QED
    BY <1>7, <1>8

\* The alerts that a handler stores are the breaches of its config.
LEMMA SaveAlertEval ==
    ASSUME Inv, EvalInv, NEW r \in Requests, SaveTempAlert(r) \/ SaveBattAlert(r)
    PROVE  EvalInv'
<1>. SUFFICES ASSUME NEW s \in Requests PROVE EvalOf(s)'
    BY DEF EvalInv
<1>. DEFINE q == req[r]
            c == cfg[r]
            reason == IF pc[r] = "saveTempAlert" THEN TempHigh ELSE BatteryLow
            next == IF pc[r] = "saveTempAlert" THEN AfterTempCheck(q, c) ELSE "created"
<1>1. EvalOf(s) /\ EvalOf(r)
    BY DEF EvalInv
<1>2. /\ pc[r] \in {"saveTempAlert", "saveBattAlert"}
      /\ SaveDeviceAlert(r, reason, next)
    BY DEF SaveTempAlert, SaveBattAlert
<1>3. reason \in {TempHigh, BatteryLow}
    OBVIOUS
<1>4. /\ next \in {"created", "saveBattAlert"}
      /\ next = "created" /\ pc[r] = "saveTempAlert" => ~BattBreached(q, c)
    BY DEF AfterTempCheck
<1>5. TypeOK
    BY DEF Inv
<1>6. q \in Accepted /\ q.temp # NaN /\ c \in Config
    BY <1>2 DEF Inv, HandlerInv, RequestInv, MetricInv, AlertInv, Evaluating
<1>. HIDE DEF reason, next
<1>7. /\ UNCHANGED <<configs, req, cfg, cfgErr, inForce>>
      /\ \/ pc' = [pc EXCEPT ![r] = "internal"] /\ UNCHANGED alerts
         \/ /\ pc' = [pc EXCEPT ![r] = "internal"] \/ pc' = [pc EXCEPT ![r] = next]
            /\ \E row : row.by = r /\ row.reason = reason /\ alerts' = alerts \cup {row}
    BY <1>2, <1>3, SaveDeviceAlertStep
<1>8. \/ Raised(s)' = Raised(s) /\ pc'[s] \in {pc[s], "internal"}
      \/ s = r /\ Raised(s)' = Raised(s) \cup {reason} /\ pc'[s] \in {next, "internal"}
  <2>1. CASE pc' = [pc EXCEPT ![r] = "internal"] /\ UNCHANGED alerts
      BY <2>1, <1>5 DEF TypeOK, Raised
  <2>2. ASSUME NEW row, row.by = r, row.reason = reason, alerts' = alerts \cup {row},
               pc' = [pc EXCEPT ![r] = "internal"] \/ pc' = [pc EXCEPT ![r] = next]
        PROVE  \/ Raised(s)' = Raised(s) /\ pc'[s] \in {pc[s], "internal"}
               \/ s = r /\ Raised(s)' = Raised(s) \cup {reason}
                  /\ pc'[s] \in {next, "internal"}
    <3>1. Raised(s)' = IF r = s THEN Raised(s) \cup {reason} ELSE Raised(s)
        BY <2>2, RaisedGrows
    <3>. QED
        BY <3>1, <2>2, <1>5 DEF TypeOK
  <2>. QED
      BY <1>7, <2>1, <2>2
<1>9. CASE Raised(s)' = Raised(s) /\ pc'[s] \in {pc[s], "internal"}
    BY <1>1, <1>7, <1>9, EvalKept
<1>10. CASE s = r /\ Raised(s)' = Raised(s) \cup {reason} /\ pc'[s] \in {next, "internal"}
  <2>1. CASE pc[r] = "saveTempAlert"
    <3>1. Raised(s) = {} /\ TempBreached(q, c)
        BY <2>1, <1>10 DEF Inv, HandlerInv, AlertInv, Raised
    <3>2. Raised(s)' = {TempHigh}
        BY <3>1, <2>1, <1>10 DEF reason
    <3>3. TempHigh \in Breached(q, c)
        BY <3>1, <1>6, BreachedIs
    <3>4. pc'[s] = "created" => Breached(q, c) = {TempHigh}
        BY <3>3, <2>1, <1>4, <1>6, <1>10, BreachedIs
    <3>5. CASE s \in cfgErr
      <4>1. c = ZeroConfig
          BY <3>5, <2>1, <1>1, <1>10 DEF EvalOf, ConfigInv
      <4>2. q.temp > 0
          BY <4>1, <3>1, <1>6, AcceptedFields DEF TempBreached, Less, ZeroConfig
      <4>. QED
          BY <4>1, <4>2, <3>2, <3>5, <1>4, <1>7, <1>10
          DEF EvalOf, ConfigInv, ZeroConfig
    <3>6. CASE s \notin cfgErr
      <4>1. c \in inForce'[s]
          BY <3>6, <2>1, <1>1, <1>7, <1>10 DEF EvalOf, ConfigInv
      <4>2. EvaluatedAsConfigured(s)'
          BY <4>1, <3>2, <3>3, <3>4, <1>7, <1>10 DEF EvaluatedAsConfigured, Breached
      <4>3. ConfigInv(s)'
          BY <4>1, <3>1, <3>2, <3>6, <1>4, <1>7, <1>10 DEF ConfigInv, TempBreached
      <4>. QED
          BY <4>2, <4>3, <3>6, <1>7 DEF EvalOf
    <3>. QED
        BY <3>5, <3>6
  <2>2. CASE pc[r] = "saveBattAlert"
    <3>1. Raised(s) \subseteq {TempHigh} /\ BattBreached(q, c)
        BY <2>2, <1>10 DEF Inv, HandlerInv, AlertInv, Raised
    <3>2. s \notin cfgErr
      <4>1. q.battery \in Nat
          BY <1>6, AcceptedFields, ServiceAssumption
      <4>2. c # ZeroConfig
          BY <4>1, <3>1 DEF BattBreached, ZeroConfig
      <4>. QED
          BY <4>2, <2>2, <1>1, <1>10 DEF EvalOf, ConfigInv
    <3>3. c \in inForce'[s] /\ (TempBreached(q, c) <=> Raised(s) = {TempHigh})
        BY <3>2, <2>2, <1>1, <1>7, <1>10 DEF EvalOf, ConfigInv
    <3>4. Raised(s)' = Breached(q, c)
      <4>1. reason = BatteryLow
          BY <2>2 DEF reason
      <4>. QED
          BY <4>1, <3>1, <3>3, <1>6, <1>10, BreachedIs
    <3>5. EvaluatedAsConfigured(s)'
        BY <3>3, <3>4, <1>7, <1>10, ZenonT(40) DEF EvaluatedAsConfigured, Breached
    <3>6. pc'[s] \in {"created", "internal"}
        BY <2>2, <1>10 DEF next
    <3>. QED
        BY <3>2, <3>5, <3>6, <1>7 DEF EvalOf, ConfigInv
  <2>. QED
      BY <1>2, <2>1, <2>2
<1>. QED
    BY <1>8, <1>9, <1>10

\* The environment stores nothing and ends requests without success.
LEMMA EnvironmentEval ==
    ASSUME Inv, EvalInv, \/ \E r \in Requests : BindFails(r) \/ Cancel(r)
                         \/ Crash
                         \/ UNCHANGED vars
    PROVE  EvalInv'
<1>. SUFFICES ASSUME NEW s \in Requests PROVE EvalOf(s)'
    BY DEF EvalInv
<1>. USE DEF tables
<1>1. UNCHANGED <<configs, alerts, req, cfg, cfgErr, inForce>>
    BY DEF BindFails, Cancel, Crash, vars
<1>2. pc'[s] = pc[s] \/ pc'[s] \in {"badRequest", "lost"}
    BY DEF BindFails, Cancel, Crash, vars, Inv, TypeOK
<1>3. Raised(s)' = Raised(s)
    BY <1>1 DEF Raised
<1>4. EvalOf(s)
    BY DEF EvalInv
<1>. QED
    BY <1>1, <1>2, <1>3, <1>4, EvalKept

\* Before the first request nothing was compared and nothing was stored.
LEMMA InitEval == Init => EvalInv
BY DEF Init, EvalInv, EvalOf, ConfigInv, Recording

\* Every step keeps, for every request, what its alerts are explained by.
LEMMA NextEval == Inv /\ EvalInv /\ [Next]_vars => EvalInv'
BY BeginEval, UpsertEval, SaveMetricEval, GetConfigEval, SaveAlertEval, EnvironmentEval
DEF Next, HandlerStep

\* EvalInv holds in every state: what RecordMetric compares, and stores, is
\* explained by a configuration that was in force, or by the zero Config.
THEOREM EvalInvariance == Spec => []EvalInv
BY Invariance, InitEval, NextEval, PTL DEF Spec

\* Every alert is explained by one configuration that was stored for the device
\* after the metric was saved, and none is missing from a successful request,
\* unless the config read of the request failed.
THEOREM AlertsFollow == Spec => []AlertsFollowConfig
<1>1. EvalInv => AlertsFollowConfig
    BY DEF EvalInv, EvalOf, AlertsFollowConfig, Recording
<1>. QED
    BY <1>1, EvalInvariance, PTL

\* A failed config read leads to no other alert than a temperature alert for a
\* reading above zero.
THEOREM FallbackAlerts == Spec => []FallbackAlertsOnlyTemperature
<1>1. Inv /\ EvalInv => FallbackAlertsOnlyTemperature
    BY DEF Inv, TypeOK, EvalInv, EvalOf, FallbackAlertsOnlyTemperature
<1>. QED
    BY <1>1, Invariance, EvalInvariance, PTL

-----------------------------------------------------------------------------
(* Both tables are append-only logs *)

\* The alerts table implements AppendOnlyLog.
THEOREM AlertsRefineLog == Spec => AlertsAppendOnly
<1>1. Init => AlertLog!Init
    BY DEF Init, AlertLog!Init
<1>2. Inv /\ [Next]_vars => [AlertLog!Append]_alerts
  <2>. SUFFICES ASSUME Inv, [Next]_vars, alerts' # alerts PROVE AlertLog!Append
      OBVIOUS
  <2>. USE DEF tables
  <2>1. PICK r \in Requests : SaveTempAlert(r) \/ SaveBattAlert(r)
      BY DEF Next, HandlerStep, ConfigureDevice, RecordMetric, BindFails, UpsertDeviceConfig,
             SaveDeviceMetric, GetDeviceConfig, Cancel, Crash, vars
  <2>2. PICK row : row.id = lastAlertId + 1 /\ alerts' = alerts \cup {row}
      BY <2>1 DEF SaveTempAlert, SaveBattAlert, SaveDeviceAlert, AlertRow
  <2>3. \A a \in alerts : a.id < row.id
      BY <2>2 DEF Inv, IdInv, TypeOK
  <2>. QED
      BY <2>2, <2>3 DEF AlertLog!Append
<1>. QED
    BY <1>1, <1>2, Invariance, PTL DEF Spec, AlertsAppendOnly, AlertLog!Spec

\* The metrics table implements AppendOnlyLog.
THEOREM MetricsRefineLog == Spec => MetricsAppendOnly
<1>1. Init => MetricLog!Init
    BY DEF Init, MetricLog!Init
<1>2. Inv /\ [Next]_vars => [MetricLog!Append]_metrics
  <2>. SUFFICES ASSUME Inv, [Next]_vars, metrics' # metrics PROVE MetricLog!Append
      OBVIOUS
  <2>. USE DEF tables
  <2>1. PICK r \in Requests : SaveDeviceMetric(r)
      BY DEF Next, HandlerStep, ConfigureDevice, RecordMetric, BindFails, UpsertDeviceConfig,
             GetDeviceConfig, SaveTempAlert, SaveBattAlert, SaveDeviceAlert, Cancel, Crash, vars
  <2>2. PICK row : row.id = lastMetricId + 1 /\ metrics' = metrics \cup {row}
      BY <2>1 DEF SaveDeviceMetric, MetricRow
  <2>3. \A m \in metrics : m.id < row.id
      BY <2>2 DEF Inv, IdInv, TypeOK
  <2>. QED
      BY <2>2, <2>3 DEF MetricLog!Append
<1>. QED
    BY <1>1, <1>2, Invariance, PTL DEF Spec, MetricsAppendOnly, MetricLog!Spec

=============================================================================
