---------------------------- MODULE ProviderQuota ----------------------------
(***************************************************************************)
(* Atomic provider quota accounting.  A request of the execution runtime   *)
(* (aria-execution-runtime-v1) reads the provider's own counter, reserves  *)
(* one request of the quota in the database, calls the provider and        *)
(* settles the reservation.  The database functions are those of migration *)
(* 20261102000000: quota_reserve_model_request_v1, whose work from the row *)
(* locks on is one transaction, and quota_settle_model_request_v1.         *)
(*                                                                         *)
(* Two kinds of models: those in Free share the account row, which is      *)
(* synchronised with the provider's counter; the others are limited by     *)
(* their own row.  Time is the UTC day.  Token counts, the identity checks *)
(* that every caller of the runtime passes and rows switched off by an     *)
(* administrator are left out.                                             *)
(***************************************************************************)
EXTENDS Integers, FiniteSets

CONSTANTS
    Request,        \* calls of the runtime
    Key,            \* reservation keys; two requests may carry the same one
    Model, Free,    \* models, and those whose name ends in ':free'
    AccountLimit,   \* data.free_model_daily_requests.limit of the provider
    ModelLimit,     \* limits_requests of the row of a model not in Free
    SpansMidnight,  \* may midnight pass between a snapshot and its reservation
    MaxDay,         \* bound: the last day
    MaxExternal,    \* bound: calls on the same provider key made elsewhere
    None            \* no key, no model, usage not known

ASSUME QuotaAssumption ==
    /\ IsFiniteSet(Key)
    /\ Free \subseteq Model
    /\ AccountLimit \in Nat \ {0}
    /\ ModelLimit \in Nat \ {0}
    /\ SpansMidnight \in BOOLEAN
    /\ MaxDay \in Nat
    /\ MaxExternal \in Nat
    /\ None \notin Key \cup Model \cup Nat

VARIABLES
    day,          \* the UTC day of clock_timestamp()
    account,      \* quota_registry: the account row of the free models
    modelRow,     \* quota_registry: the rows of the models
    reservation,  \* quota_request_reservations_v1
    request,      \* the runtime's calls and what each of them has read
    provider,     \* the provider's counter of free requests
    external,     \* calls made elsewhere so far
    arrived       \* history: the keys whose call the provider has counted

vars == <<day, account, modelRow, reservation, request, provider, external,
          arrived>>

NoDay == -1

Days == 0 .. MaxDay

(***************************************************************************)
(* A request is new, has its snapshot, has entered the reserve function    *)
(* (where v_now and v_day_start are computed) and waits for the row locks, *)
(* holds a reservation, was sent, was answered, and is done.  A refused    *)
(* request keeps the reason.  A dead one was cut with its edge function.   *)
(***************************************************************************)
Waiting == {"snapshot", "entered"}
Holding == {"reserved", "sent"}
Refusals == {"unavailable", "account_exhausted", "model_exhausted",
             "usage_unknown", "duplicate"}
Phases == {"new", "done", "dead"} \cup Waiting \cup Holding \cup Refusals

Outcomes == {"succeeded", "failed", "unknown"}

NoReservation == [status |-> "none", model |-> None, period |-> NoDay]

RequestRecord ==
    [phase : Phases, key : Key \cup {None}, model : Model \cup {None},
     used : Nat, day : {NoDay} \cup Days, outcome : Outcomes \cup {None}]

TypeOK ==
    /\ day \in Days
    /\ account \in [usage : Nat, period : {NoDay} \cup Days]
    /\ modelRow \in [Model -> [usage : Nat \cup {None},
                               period : {NoDay} \cup Days]]
    /\ reservation \in [Key -> [status : {"none", "reserved"} \cup Outcomes,
                                model : Model \cup {None},
                                period : {NoDay} \cup Days]]
    /\ request \in [Request -> RequestRecord]
    /\ provider \in 0 .. AccountLimit
    /\ external \in 0 .. MaxExternal
    /\ arrived \subseteq Key

Init ==
    /\ day = 0
    /\ account = [usage |-> 0, period |-> NoDay]
    /\ modelRow \in [Model -> [usage : {0, None}, period : {NoDay}]]
    /\ reservation = [k \in Key |-> NoReservation]
    /\ request = [r \in Request |->
                    [phase |-> "new", key |-> None, model |-> None, used |-> 0,
                     day |-> NoDay, outcome |-> None]]
    /\ provider = 0
    /\ external = 0
    /\ arrived = {}

-----------------------------------------------------------------------------
(***************************************************************************)
(* The runtime up to the reservation                                       *)
(***************************************************************************)

\* reserveModelQuota: a free model's request first reads the provider's
\* counter, and is refused when the provider cannot be read.
Snapshot(r) ==
    /\ request[r].phase = "new"
    /\ \E k \in Key, m \in Model :
         \/ request' = [request EXCEPT ![r].phase = "snapshot", ![r].key = k,
                            ![r].model = m,
                            ![r].used = IF m \in Free THEN provider ELSE 0]
         \/ /\ m \in Free
            /\ request' = [request EXCEPT ![r].phase = "unavailable"]
    /\ UNCHANGED <<day, account, modelRow, reservation, provider, external, arrived>>

\* The reserve function begins: its clock is read before the row locks.
Enter(r) ==
    /\ request[r].phase = "snapshot"
    /\ request' = [request EXCEPT ![r].phase = "entered", ![r].day = day]
    /\ UNCHANGED <<day, account, modelRow, reservation, provider, external, arrived>>

-----------------------------------------------------------------------------
(***************************************************************************)
(* quota_reserve_model_request_v1 from the row locks on                    *)
(***************************************************************************)

Larger(a, b) == IF a < b THEN b ELSE a

\* mutant: the local count of the day is ignored
AccountUsageProviderOnly(r) == request[r].used

\* mutant: yesterday's count is kept when a new day begins
AccountUsageOfAnyDay(r) == Larger(account.usage, request[r].used)

\* What the account has used today, as far as this call knows.
AccountUsage(r) ==
    IF account.period # request[r].day
    THEN request[r].used
    ELSE Larger(account.usage, request[r].used)

\* The account row takes over the provider's counter, whatever comes next.
SyncedAccount(r) == [usage |-> AccountUsage(r), period |-> request[r].day]

\* A row with a period is used up to its end; usage_period_end <= v_now is
\* that the call's day is a later one.
PeriodIsOver(m, d) == modelRow[m].period # NoDay /\ modelRow[m].period < d

ModelUsage(r) ==
    LET m == request[r].model
    IN  IF m \notin Free /\ PeriodIsOver(m, request[r].day) THEN 0
        ELSE IF m \in Free /\ modelRow[m].usage = None THEN 0
        ELSE modelRow[m].usage

\* The period a reservation is booked on: account_period_start for a free
\* model, model_period_start for the others.
BookedPeriod(r) ==
    LET m == request[r].model
    IN  IF m \in Free \/ PeriodIsOver(m, request[r].day)
        THEN request[r].day
        ELSE modelRow[m].period

\* The model row counts the request; only a row limited by the day has a period.
CountedRow(r) ==
    [usage |-> ModelUsage(r) + 1,
     period |-> IF request[r].model \in Free
                THEN modelRow[request[r].model].period
                ELSE request[r].day]

\* account_free_daily_quota_exhausted
RefuseAccountExhausted(r) ==
    /\ request[r].phase = "entered"
    /\ request[r].model \in Free
    /\ AccountUsage(r) >= AccountLimit
    /\ account' = SyncedAccount(r)
    /\ request' = [request EXCEPT ![r].phase = "account_exhausted"]
    /\ UNCHANGED <<day, modelRow, reservation, provider, external, arrived>>

\* model_quota_usage_unknown, model_quota_exhausted
RefuseModelExhausted(r) ==
    /\ request[r].phase = "entered"
    /\ request[r].model \notin Free
    /\ \/ /\ ModelUsage(r) = None
          /\ request' = [request EXCEPT ![r].phase = "usage_unknown"]
       \/ /\ ModelUsage(r) # None
          /\ ModelUsage(r) >= ModelLimit
          /\ request' = [request EXCEPT ![r].phase = "model_exhausted"]
    /\ UNCHANGED <<day, account, modelRow, reservation, provider, external, arrived>>

\* Both quotas leave room for one more request.
HasRoom(r) ==
    IF request[r].model \in Free
    THEN AccountUsage(r) < AccountLimit
    ELSE ModelUsage(r) # None /\ ModelUsage(r) < ModelLimit

\* INSERT ... ON CONFLICT DO NOTHING inserted nothing: the key was used
\* before.  The synchronisation of the account row stays.
RefuseDuplicate(r) ==
    /\ request[r].phase = "entered"
    /\ HasRoom(r)
    /\ reservation[request[r].key].status # "none"
    /\ account' = IF request[r].model \in Free THEN SyncedAccount(r) ELSE account
    /\ request' = [request EXCEPT ![r].phase = "duplicate"]
    /\ UNCHANGED <<day, modelRow, reservation, provider, external, arrived>>

\* mutant: the insert's row count is not looked at
GrantAgain(r) ==
    /\ request[r].phase = "entered"
    /\ HasRoom(r)
    /\ modelRow' = [modelRow EXCEPT ![request[r].model] = CountedRow(r)]
    /\ account' = IF request[r].model \in Free
                  THEN [usage |-> AccountUsage(r) + 1, period |-> request[r].day]
                  ELSE account
    /\ reservation' =
         IF reservation[request[r].key].status # "none" THEN reservation
         ELSE [reservation EXCEPT ![request[r].key] =
                 [status |-> "reserved", model |-> request[r].model,
                  period |-> BookedPeriod(r)]]
    /\ request' = [request EXCEPT ![r].phase = "reserved"]
    /\ UNCHANGED <<day, provider, external, arrived>>

\* The reservation is new: it is inserted, and both rows count the request.
Grant(r) ==
    /\ request[r].phase = "entered"
    /\ HasRoom(r)
    /\ reservation[request[r].key].status = "none"
    /\ reservation' = [reservation EXCEPT ![request[r].key] =
                         [status |-> "reserved", model |-> request[r].model,
                          period |-> BookedPeriod(r)]]
    /\ modelRow' = [modelRow EXCEPT ![request[r].model] = CountedRow(r)]
    /\ account' = IF request[r].model \in Free
                  THEN [usage |-> AccountUsage(r) + 1, period |-> request[r].day]
                  ELSE account
    /\ request' = [request EXCEPT ![r].phase = "reserved"]
    /\ UNCHANGED <<day, provider, external, arrived>>

-----------------------------------------------------------------------------
(***************************************************************************)
(* The provider's call and its settlement                                  *)
(***************************************************************************)

\* The request reaches the provider or it does not; a free one is counted
\* there, or refused at the limit.  A lost or late answer is 'unknown'.
Send(r) ==
    /\ request[r].phase = "reserved"
    /\ \/ /\ request[r].model \in Free /\ provider < AccountLimit
          /\ provider' = provider + 1
          /\ arrived' = arrived \cup {request[r].key}
          /\ \E o \in Outcomes :
               request' = [request EXCEPT ![r].phase = "sent", ![r].outcome = o]
       \/ /\ request[r].model \notin Free
          /\ \E o \in Outcomes :
               request' = [request EXCEPT ![r].phase = "sent", ![r].outcome = o]
          /\ UNCHANGED <<provider, arrived>>
       \/ /\ request[r].model \in Free
          /\ \E o \in {"failed", "unknown"} :
               request' = [request EXCEPT ![r].phase = "sent", ![r].outcome = o]
          /\ UNCHANGED <<provider, arrived>>
    /\ UNCHANGED <<day, account, modelRow, reservation, external>>

\* settleModelQuota and quota_settle_model_request_v1
Settle(r) ==
    /\ request[r].phase = "sent"
    /\ request' = [request EXCEPT ![r].phase = "done"]
    /\ reservation' =
         IF reservation[request[r].key].status = "reserved"
         THEN [reservation EXCEPT ![request[r].key].status = request[r].outcome]
         ELSE reservation
    /\ UNCHANGED <<day, account, modelRow, provider, external, arrived>>

\* The edge function is cut off: what it has reserved stays reserved.
Crash(r) ==
    /\ request[r].phase \in Waiting \cup Holding
    /\ request' = [request EXCEPT ![r].phase = "dead"]
    /\ UNCHANGED <<day, account, modelRow, reservation, provider, external, arrived>>

-----------------------------------------------------------------------------
(***************************************************************************)
(* The environment                                                         *)
(***************************************************************************)

\* Midnight UTC, when the provider's counter starts again.
NewDay ==
    /\ day < MaxDay
    /\ SpansMidnight \/ \A r \in Request : request[r].phase \notin Waiting
    /\ day' = day + 1
    /\ provider' = 0
    /\ UNCHANGED <<account, modelRow, reservation, request, external, arrived>>

\* The same provider key is used elsewhere.
ExternalCall ==
    /\ external < MaxExternal
    /\ provider < AccountLimit
    /\ external' = external + 1
    /\ provider' = provider + 1
    /\ UNCHANGED <<day, account, modelRow, reservation, request, arrived>>

Reserve(r) ==
    \/ RefuseAccountExhausted(r)
    \/ RefuseModelExhausted(r)
    \/ RefuseDuplicate(r)
    \/ Grant(r)

Next ==
    \/ \E r \in Request : \/ Snapshot(r) \/ Enter(r) \/ Reserve(r)
                          \/ Send(r) \/ Settle(r) \/ Crash(r)
    \/ NewDay
    \/ ExternalCall

Spec == Init /\ [][Next]_vars

-----------------------------------------------------------------------------
(***************************************************************************)
(* Properties                                                              *)
(***************************************************************************)

\* The reservations in table t for a model of M that are booked on day d.
BookedIn(t, M, d) ==
    {k \in Key : t[k].status # "none" /\ t[k].model \in M /\ t[k].period = d}

Booked(M, d) == BookedIn(reservation, M, d)

\* No day's quota is given away twice: the reservations booked on one day
\* stay within the account's limit for all the free models together, and
\* within its own limit for every other model, however the calls interleave.
QuotaHolds ==
    \A d \in Days :
        /\ Cardinality(Booked(Free, d)) <= AccountLimit
        /\ \A m \in Model \ Free : Cardinality(Booked({m}, d)) <= ModelLimit

\* A reservation key pays for one provider call: of the requests that carry
\* the same key, retries included, one at most gets past the reservation.
OneCallPerKey ==
    \A r, s \in Request :
        /\ request[r].phase \in Holding \cup {"done"}
        /\ request[s].phase \in Holding \cup {"done"}
        /\ request[r].key = request[s].key
        => r = s

\* A request is refused for an exhausted account only when the provider's
\* counter and the reservations of the day it has not seen do add up to the
\* limit: the account row never holds more than was spent or promised today.
RefusalIsJustified ==
    [][\A r \in Request :
         /\ request[r].phase # "account_exhausted"
         /\ request'[r].phase = "account_exhausted"
         => provider + Cardinality(Booked(Free, day) \ arrived)
              >= AccountLimit]_vars

=============================================================================
