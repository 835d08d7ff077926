----------------------------- MODULE AlertPaging -----------------------------
(***************************************************************************)
(* Service.GetDeviceAlerts (device/service.go) and the handlers in front   *)
(* of it, used the way the cursor is meant to be used: a client asks for   *)
(* the first page of a device's alerts and then follows next_page_token    *)
(* until there is none.  Alerts are stored all the while, with timestamps  *)
(* that the devices choose, so a row may appear before or behind the       *)
(* cursor.  The client may change the page size from page to page, and     *)
(* repeats a request that failed.                                          *)
(*                                                                         *)
(* Pages are sets of rows: their order is ListedBefore.                    *)
(***************************************************************************)
EXTENDS DeviceRepository

CONSTANTS
    Devices, Blank,        \* device ids, and a blank one
    ZeroTime,              \* time.Time{}
    Garbled,               \* a page token that cannot be decoded
    Reasons,               \* the reasons of alerts
    DefaultPageSize,       \* defaultPageSize
    MaxPageSize,           \* maxPageSize
    MinJSONTs, MaxJSONTs,  \* the seconds that JSON can express (years 0-9999)
    MaxAlerts,             \* bound: alerts stored in a behaviour
    AlertTimes,            \* the instants metrics carry
    StartInputs,           \* what clients send as timeframe.start
    EndInputs,             \* what clients send as timeframe.end
    SizeInputs,            \* what clients send as page.size
    OddTokens              \* page tokens that no answer contained

\* What a page token can decode to.
DecodedToken == [lastTime : Int \cup {NULL}, lastId : Int \cup {NULL}]

ASSUME PagingAssumption ==
    /\ Blank \notin Devices
    /\ NULL # Garbled
    /\ NULL \notin DecodedToken /\ Garbled \notin DecodedToken
    /\ DefaultPageSize \in Nat \ {0}
    /\ MaxPageSize \in Nat \ {0}
    /\ DefaultPageSize <= MaxPageSize
    /\ MinJSONTs \in Int /\ MaxJSONTs \in Int
    /\ MaxAlerts \in Nat
    /\ ZeroTime \notin Int
    /\ AlertTimes \subseteq Int
    /\ StartInputs \subseteq Int \cup {NULL, ZeroTime}
    /\ EndInputs \subseteq Int \cup {NULL, ZeroTime}
    /\ SizeInputs \subseteq Int

VARIABLES
    alerts,        \* table alerts
    lastAlertId,   \* its AUTOINCREMENT counter
    phase,         \* the client: "idle", "walking" or "done"
    frame,         \* the device and the timeframe it walks through
    token,         \* the next_page_token of the last page, or NULL
    page,          \* the alerts of the last page
    delivered,     \* the alerts of the pages before it
    snapshot,      \* history: the alerts the walk was to list when it began
    reply          \* how the last request was answered

table == <<alerts, lastAlertId>>
walk == <<phase, frame, token, page, delivered, snapshot>>
vars == <<table, walk, reply>>

-----------------------------------------------------------------------------
(* Service.GetDeviceAlerts *)

validateGetDeviceAlertsReq(q) ==
    /\ q.device # Blank
    /\ q.start # ZeroTime
    /\ q.end # ZeroTime
    /\ ~(q.start # NULL /\ q.end # NULL /\ q.start > q.end)
    /\ ~(q.size < 0)

\* Mutant: sizes are not capped.
PageSizeUncapped(q) == IF q.size = 0 THEN DefaultPageSize ELSE q.size

\* 0 asks for the default, larger sizes are capped.
PageSize(q) ==
    IF q.size = 0 THEN DefaultPageSize
    ELSE IF q.size > MaxPageSize THEN MaxPageSize ELSE q.size

\* A request that validation or decodePageToken rejects.
Rejected(q) == ~validateGetDeviceAlertsReq(q) \/ q.token = Garbled

\* A token that decodes to one without LastTime: the repository dereferences a
\* nil pointer.
TokenPanics(q) == q.token # NULL /\ q.token.lastTime = NULL

\* A request that reaches the database.
Served(q) == ~Rejected(q) /\ ~TokenPanics(q)

\* time.Time.MarshalJSON fails outside the years 0 to 9999.
InJSON(ts) == MinJSONTs <= ts /\ ts <= MaxJSONTs

\* The next page token is JSON in base64.  The answer is JSON as well over REST,
\* and over Connect when the client asks for it.
Encodable(q, items, next) ==
    /\ next # NULL => InJSON(Unix(next.lastTime))
    /\ q.codec = "json" => \A a \in items : InJSON(a.ts)

\* The page, and the token of the next one, that the repository finds for q,
\* among the candidates.
Params(q) == QueryParams(q.device, q.start, q.end, q.token)
IsPageOf(items, next, q) == IsPage(items, next, alerts, Params(q), PageSize(q))

\* All that a walk through f finds, from its first page on.
Found(f) == Selected(alerts, QueryParams(f.device, f.start, f.end, NULL))

SomeItems(q) == SUBSET Selected(alerts, Params(q))
SomeNext(items) == {NULL} \cup {PageToken(FromUnix(a.ts), a.id) : a \in items}

\* A request that gets no page; the client keeps what it has.
Fails(q) ==
    /\ \/ Rejected(q) /\ reply' = "badRequest"
       \/ ~Rejected(q) /\ TokenPanics(q) /\ reply' = "panic"
       \/ Served(q) /\ reply' = "internal"     \* the query fails
    /\ UNCHANGED walk

\* A request whose page cannot be encoded.
FailsToEncode(q) ==
    /\ Served(q)
    /\ \E items \in SomeItems(q) : \E next \in SomeNext(items) :
          ~Encodable(q, items, next) /\ IsPageOf(items, next, q)
    /\ reply' = "internal"
    /\ UNCHANGED walk

\* A request that is answered with a page.
Answered(q, items, next) ==
    /\ IsPageOf(items, next, q)
    /\ Encodable(q, items, next)
    /\ reply' = "ok"

-----------------------------------------------------------------------------
(* The client *)

\* The alerts the client means: those of the device whose metric was taken in
\* the timeframe, by the instant it carried.
Matching(f) ==
    {a \in alerts : /\ a.device = f.device
                    /\ f.start = NULL \/ f.start <= a.by
                    /\ f.end = NULL \/ a.by <= f.end}

Request(f, size, tkn, codec) ==
    [device |-> f.device, start |-> f.start, end |-> f.end, size |-> size,
     token |-> tkn, codec |-> codec]

Frames == [device : Devices \cup {Blank}, start : StartInputs, end : EndInputs]
Codecs == {"json", "proto"}

FirstPage ==
    /\ phase # "walking"
    /\ \E f \in Frames, size \in SizeInputs, codec \in Codecs :
          LET q == Request(f, size, NULL, codec)
          IN  \/ Fails(q)
              \/ FailsToEncode(q)
              \/ /\ Served(q)
                 /\ \E items \in SomeItems(q) : \E next \in SomeNext(items) :
                    /\ Answered(q, items, next)
                    /\ phase' = IF next = NULL THEN "done" ELSE "walking"
                    /\ frame' = f
                    /\ token' = next
                    /\ page' = items
                    /\ delivered' = {}
                    /\ snapshot' = Matching(f)
    /\ UNCHANGED table

\* The client follows the token with the timeframe it started with.
NextPageFails ==
    /\ phase = "walking"
    /\ \E size \in SizeInputs, codec \in Codecs :
          LET q == Request(frame, size, token, codec)
          IN  Fails(q) \/ FailsToEncode(q)
    /\ UNCHANGED table

NextPage ==
    /\ phase = "walking"
    /\ \E size \in SizeInputs, codec \in Codecs :
          LET q == Request(frame, size, token, codec)
          IN  /\ Served(q)
              /\ \E items \in SomeItems(q) : \E next \in SomeNext(items) :
                    /\ Answered(q, items, next)
                    /\ phase' = IF next = NULL THEN "done" ELSE "walking"
                    /\ token' = next
                    /\ page' = items
                    /\ delivered' = delivered \cup page
    /\ UNCHANGED <<table, frame, snapshot>>

\* A request with a token that no answer contained.
OddToken ==
    /\ phase = "idle"
    /\ \E d \in Devices, tkn \in OddTokens, codec \in Codecs :
          LET q == Request([device |-> d, start |-> NULL, end |-> NULL], 0, tkn, codec)
          IN  \/ Fails(q)
              \/ /\ Served(q)
                 /\ \E items \in SomeItems(q) : \E next \in SomeNext(items) :
                       Answered(q, items, next)
                 /\ UNCHANGED walk
    /\ UNCHANGED table

-----------------------------------------------------------------------------
(* The writers *)

\* Some RecordMetric handler stores an alert.
SaveDeviceAlert ==
    /\ lastAlertId < MaxAlerts
    /\ \E d \in Devices, reason \in Reasons, t \in AlertTimes :
          alerts' = alerts \cup
             {AlertRow(lastAlertId + 1, d, [reason |-> reason, time |-> t], t)}
    /\ lastAlertId' = lastAlertId + 1
    /\ UNCHANGED <<walk, reply>>

-----------------------------------------------------------------------------
(* Specification *)

NoFrame == [device |-> Blank, start |-> NULL, end |-> NULL]

Init ==
    /\ alerts = {} /\ lastAlertId = 0
    /\ phase = "idle"
    /\ frame = NoFrame
    /\ token = NULL
    /\ page = {} /\ delivered = {} /\ snapshot = {}
    /\ reply = "none"

Next ==
    \/ FirstPage
    \/ NextPage
    \/ NextPageFails
    \/ OddToken
    \/ SaveDeviceAlert

Spec == Init /\ [][Next]_vars

\* The client repeats a request that failed, and a request that can be
\* answered does not fail for ever.
FairSpec == Spec /\ SF_vars(NextPage)

-----------------------------------------------------------------------------
(* Properties *)

Row == [id : Nat, device : Devices, reason : Reasons, ts : Int, by : AlertTimes]
Token == [lastTime : Int, lastId : Nat]

\* Type invariant of the table and of the client.
TypeOK ==
    /\ alerts \in SUBSET Row
    /\ IsFiniteSet(alerts)
    /\ lastAlertId \in Nat
    /\ phase \in {"idle", "walking", "done"}
    /\ frame \in Frames \cup {NoFrame}
    /\ token \in Token \cup {NULL}
    /\ page \in SUBSET alerts
    /\ delivered \in SUBSET alerts
    /\ snapshot \in SUBSET alerts
    /\ reply \in {"none", "ok", "badRequest", "internal", "panic"}

\* A walk lists alerts newest first across page boundaries and never lists
\* one twice, however many alerts are stored meanwhile and whatever page
\* sizes the client asks for.
PagesDescend ==
    \A a \in delivered, b \in page : ListedBefore(a, b)

\* A walk that ended has listed every alert of the device and timeframe that
\* was stored when it began: truncating both its time and the bounds of the
\* timeframe to seconds loses none.
WalkComplete ==
    phase = "done" => snapshot \subseteq delivered \cup page

\* A walk lists alerts of its device only, and none that is a second or more
\* outside of the timeframe.
WalkWithinASecond ==
    phase # "idle" =>
        \A a \in delivered \cup page :
            /\ a.device = frame.device
            /\ frame.start # NULL => a.by > frame.start - TicksPerSecond
            /\ frame.end # NULL => a.by < frame.end + TicksPerSecond

\* A walk lists alerts of its device and timeframe only.
WalkOnlyMatching ==
    phase # "idle" => delivered \cup page \subseteq Matching(frame)

\* A page is never larger than the cap, and a token always comes with a page
\* that is not empty: there is a last row to make the cursor of.
PagesBounded ==
    /\ Cardinality(page) <= MaxPageSize
    /\ token # NULL => page # {}

\* Following the tokens leads to the end of the walk, unless the walk meets a
\* timestamp that JSON cannot express.
WalkEnds ==
    phase = "walking" ~>
        \/ phase = "done"
        \/ \E a \in Found(frame) : ~InJSON(a.ts)

\* Every request is answered by a page or by a structured error.
NoPanic == reply # "panic"

=============================================================================
