------------------------- MODULE ProviderQuotaProofs -------------------------
(***************************************************************************)
(* Theorems about the quota accounting, for any number of requests, keys,  *)
(* models and days and for any limits.  That one key pays for one call     *)
(* holds always; that a day's quota is not given away twice, and that a    *)
(* refusal is justified, hold when no reservation waits across midnight.   *)
(***************************************************************************)
EXTENDS ProviderQuota, FiniteSetTheorems, TLAPS

\* A request knows its key and its model from the snapshot on, and its day
\* once it has entered the reserve function.
Known ==
    \A r \in Request :
        /\ request[r].phase \in Waiting \cup Holding \cup {"done"} =>
              request[r].key \in Key /\ request[r].model \in Model
        /\ request[r].phase = "entered" => request[r].day \in Days
        /\ request[r].phase = "sent" => request[r].outcome \in Outcomes

\* Whoever got past the reservation, or was counted, has a reservation.
Paid ==
    /\ \A r \in Request : request[r].phase \in Holding \cup {"done"} =>
          reservation[request[r].key].status # "none"
    /\ \A k \in arrived : reservation[k].status # "none"

KInv == TypeOK /\ Known /\ Paid /\ OneCallPerKey

LEMMA PhaseUpdate ==
    ASSUME NEW q \in RequestRecord, NEW p \in Phases
    PROVE  [q EXCEPT !.phase = p] \in RequestRecord
BY DEF RequestRecord

LEMMA SnapshotUpdate ==
    ASSUME NEW q \in RequestRecord, NEW k \in Key, NEW m \in Model, NEW u \in Nat
    PROVE  [q EXCEPT !.phase = "snapshot", !.key = k, !.model = m, !.used = u] \in RequestRecord
<1>1. "snapshot" \in Phases
  BY DEF Phases, Waiting
<1> QED
  BY <1>1 DEF RequestRecord

\* A request's phase, and nothing else of it, changes to one that holds nothing.
Leaves(r, p) ==
    /\ request' = [request EXCEPT ![r].phase = p]
    /\ UNCHANGED <<modelRow, reservation, provider, day, external, arrived>>

LEMMA LeavesKeeps ==
    ASSUME KInv, NEW r \in Request, NEW p \in Refusals \cup {"dead"}, Leaves(r, p),
           account' \in [usage : Nat, period : {NoDay} \cup Days]
    PROVE  KInv'
<1> USE DEF KInv, Leaves
<1>1. TypeOK'
  <2>1. p \in Phases
    BY DEF Phases
  <2>2. request' \in [Request -> RequestRecord]
    BY <2>1, PhaseUpdate DEF TypeOK
  <2> QED
    BY <2>2 DEF TypeOK
<1> USE DEF Waiting, Holding, Refusals
<1>2. \A s \in Request : request'[s].phase \in Waiting \cup Holding \cup {"done"} =>
          request'[s] = request[s]
  BY DEF TypeOK
<1>3. Known' /\ Paid' /\ OneCallPerKey'
  BY <1>2 DEF Known, Paid, OneCallPerKey
<1> QED
  BY <1>1, <1>3

LEMMA SnapshotKeeps ==
    ASSUME KInv, NEW r \in Request, Snapshot(r)
    PROVE  KInv'
<1> USE QuotaAssumption DEF KInv
<1>1. CASE \E k \in Key, m \in Model :
              request' = [request EXCEPT ![r].phase = "snapshot", ![r].key = k,
                            ![r].model = m,
                            ![r].used = IF m \in Free THEN provider ELSE 0]
  <2>1. PICK k \in Key, m \in Model :
              request' = [request EXCEPT ![r].phase = "snapshot", ![r].key = k,
                            ![r].model = m,
                            ![r].used = IF m \in Free THEN provider ELSE 0]
    BY <1>1
  <2>2. (IF m \in Free THEN provider ELSE 0) \in Nat
    BY DEF TypeOK
  <2>3. TypeOK'
    <3>1. \A q \in RequestRecord :
              [q EXCEPT !.phase = "snapshot", !.key = k, !.model = m,
                        !.used = IF m \in Free THEN provider ELSE 0]
                \in RequestRecord
      BY <2>2, SnapshotUpdate
    <3>2. request' \in [Request -> RequestRecord]
      BY <2>1, <3>1 DEF TypeOK
    <3> QED
      BY <3>2 DEF TypeOK, Snapshot
  <2>4. \A s \in Request : s # r => request'[s] = request[s]
    BY <2>1 DEF TypeOK
  <2>5. /\ request'[r].phase = "snapshot"
        /\ request'[r].key = k
        /\ request'[r].model = m
    BY <2>1 DEF TypeOK
  <2>6. Known' /\ Paid' /\ OneCallPerKey'
    BY <2>4, <2>5 DEF Known, Paid, OneCallPerKey, Snapshot, Waiting, Holding
  <2> QED
    BY <2>3, <2>6
<1>2. CASE request' = [request EXCEPT ![r].phase = "unavailable"]
  BY <1>2, LeavesKeeps DEF Leaves, Snapshot, Refusals, TypeOK
<1> QED
  BY <1>1, <1>2 DEF Snapshot

LEMMA EnterKeeps ==
    ASSUME KInv, NEW r \in Request, Enter(r)
    PROVE  KInv'
<1> USE DEF KInv, Enter
<1>1. TypeOK'
  <2>1. \A q \in RequestRecord :
            [q EXCEPT !.phase = "entered", !.day = day] \in RequestRecord
    BY DEF RequestRecord, TypeOK, Phases, Waiting
  <2>2. request' \in [Request -> RequestRecord]
    BY <2>1 DEF TypeOK
  <2> QED
    BY <2>2 DEF TypeOK
<1> USE DEF Waiting, Holding
<1>2. \A s \in Request : /\ request'[s].key = request[s].key
                         /\ request'[s].model = request[s].model
                         /\ request'[s].outcome = request[s].outcome
                         /\ s # r => request'[s] = request[s]
  BY DEF TypeOK
<1>3. request'[r].phase = "entered" /\ request'[r].day = day /\ day \in Days
  BY DEF TypeOK
<1>4. Known'
  BY <1>2, <1>3 DEF Known
<1>5. \A s \in Request : request'[s].phase \in Holding \cup {"done"} =>
          s # r /\ request'[s] = request[s]
  BY <1>2, <1>3
<1>6. Paid'
  BY <1>5 DEF Paid
<1>7. OneCallPerKey'
  BY <1>5 DEF OneCallPerKey
<1> QED
  BY <1>1, <1>4, <1>6, <1>7

LEMMA SyncedAccountType ==
    ASSUME KInv, NEW r \in Request, request[r].phase = "entered"
    PROVE  /\ AccountUsage(r) \in Nat
           /\ SyncedAccount(r) \in [usage : Nat, period : {NoDay} \cup Days]
<1>1. request[r] \in RequestRecord /\ request[r].day \in Days
  BY DEF KInv, TypeOK, Known
<1>2. request[r].used \in Nat
  BY <1>1 DEF RequestRecord
<1>3. AccountUsage(r) \in Nat
  BY <1>2 DEF AccountUsage, Larger, KInv, TypeOK
<1> QED
  BY <1>1, <1>3 DEF SyncedAccount

LEMMA GrantKeeps ==
    ASSUME KInv, NEW r \in Request, Grant(r)
    PROVE  KInv'
<1> USE QuotaAssumption DEF KInv
<1> DEFINE k == request[r].key
           m == request[r].model
           n == [status |-> "reserved", model |-> m, period |-> BookedPeriod(r)]
<1>1. k \in Key /\ m \in Model /\ request[r].day \in Days
  BY DEF Known, Grant, Waiting
<1>2. AccountUsage(r) \in Nat /\ ModelUsage(r) \in Nat
  <2>1. AccountUsage(r) \in Nat
    BY SyncedAccountType DEF Grant
  <2>2. ModelUsage(r) \in Nat \cup {None}
    BY <1>1 DEF ModelUsage, TypeOK
  <2>3. ModelUsage(r) # None
    BY <1>1 DEF ModelUsage, Grant, HasRoom, TypeOK
  <2> QED
    BY <2>1, <2>2, <2>3
<1>3. BookedPeriod(r) \in {NoDay} \cup Days
  BY <1>1 DEF BookedPeriod, TypeOK
<1>4. CountedRow(r) \in [usage : Nat \cup {None}, period : {NoDay} \cup Days]
  BY <1>1, <1>2 DEF CountedRow, TypeOK
<1>5. reservation' = [reservation EXCEPT ![k] = n]
  BY DEF Grant
<1>6. TypeOK'
  <2>1. modelRow' \in [Model -> [usage : Nat \cup {None}, period : {NoDay} \cup Days]]
    BY <1>1, <1>4 DEF TypeOK, Grant
  <2>2. reservation' \in [Key -> [status : {"none", "reserved"} \cup Outcomes,
                                  model : Model \cup {None},
                                  period : {NoDay} \cup Days]]
    BY <1>1, <1>3, <1>5 DEF TypeOK
  <2>3. account' \in [usage : Nat, period : {NoDay} \cup Days]
    BY <1>1, <1>2 DEF TypeOK, Grant
  <2>4. request' \in [Request -> RequestRecord]
    <3>1. "reserved" \in Phases
      BY DEF Phases, Holding
    <3> QED
      BY <3>1, PhaseUpdate DEF TypeOK, Grant
  <2> QED
    BY <2>1, <2>2, <2>3, <2>4 DEF TypeOK, Grant
<1>7. \A s \in Request : /\ request'[s].key = request[s].key
                         /\ request'[s].model = request[s].model
                         /\ s # r => request'[s] = request[s]
  BY DEF Grant, TypeOK
<1>8. request'[r].phase = "reserved"
  BY DEF Grant, TypeOK
<1>9. /\ \A l \in Key : l # k => reservation'[l] = reservation[l]
      /\ reservation'[k].status = "reserved"
      /\ reservation[k].status = "none"
  BY <1>1, <1>5 DEF TypeOK, Grant
<1>10. Known'
  BY <1>1, <1>7, <1>8 DEF Known, Waiting, Holding
<1>11. Paid'
  <2>1. \A s \in Request : request'[s].phase \in Holding \cup {"done"} =>
          reservation'[request'[s].key].status # "none"
    BY <1>1, <1>7, <1>8, <1>9 DEF Paid, Known, Holding, Waiting
  <2> QED
    BY <2>1, <1>9 DEF Paid, Grant, TypeOK
<1>12. OneCallPerKey'
  BY <1>7, <1>8, <1>9 DEF OneCallPerKey, Paid, Holding
<1> QED
  BY <1>6, <1>10, <1>11, <1>12

LEMMA SendKeeps ==
    ASSUME KInv, NEW r \in Request, Send(r)
    PROVE  KInv'
<1> USE QuotaAssumption DEF KInv
<1>1. PICK o \in Outcomes :
          request' = [request EXCEPT ![r].phase = "sent", ![r].outcome = o]
  BY DEF Send, Outcomes
<1>2. request[r].key \in Key
  BY DEF Known, Send, Holding
<1>3. /\ provider' \in 0 .. AccountLimit
      /\ arrived' \in {arrived, arrived \cup {request[r].key}}
  BY DEF TypeOK, Send
<1>4. TypeOK'
  <2>1. request' \in [Request -> RequestRecord]
    <3>1. \A q \in RequestRecord :
              [q EXCEPT !.phase = "sent", !.outcome = o] \in RequestRecord
      BY DEF RequestRecord, Phases, Holding
    <3> QED
      BY <1>1, <3>1 DEF TypeOK
  <2> QED
    BY <2>1, <1>2, <1>3 DEF TypeOK, Send
<1>5. \A s \in Request : /\ request'[s].key = request[s].key
                         /\ request'[s].model = request[s].model
                         /\ s # r => request'[s] = request[s]
  BY <1>1 DEF TypeOK
<1>6. request'[r].phase = "sent" /\ request'[r].outcome = o
  BY <1>1 DEF TypeOK
<1>7. Known'
  BY <1>5, <1>6 DEF Known, Send, Waiting, Holding
<1>8. Paid'
  BY <1>2, <1>3, <1>5, <1>6 DEF Paid, Send, Holding
<1>9. OneCallPerKey'
  BY <1>5, <1>6 DEF OneCallPerKey, Send, Holding
<1> QED
  BY <1>4, <1>7, <1>8, <1>9

\* Settling changes the status of a reservation from 'reserved' to an outcome.
LEMMA SettleUpdate ==
    ASSUME KInv, NEW r \in Request, Settle(r)
    PROVE  /\ reservation' \in [Key -> [status : {"none", "reserved"} \cup Outcomes,
                                        model : Model \cup {None},
                                        period : {NoDay} \cup Days]]
           /\ \A k \in Key : /\ reservation'[k].model = reservation[k].model
                             /\ reservation'[k].period = reservation[k].period
                             /\ reservation'[k].status = "none"
                                  <=> reservation[k].status = "none"
<1>1. request[r].key \in Key /\ request[r].outcome \in Outcomes
  BY DEF KInv, Known, Settle, Holding
<1> QED
  BY <1>1 DEF KInv, TypeOK, Settle, Outcomes

LEMMA SettleKeeps ==
    ASSUME KInv, NEW r \in Request, Settle(r)
    PROVE  KInv'
<1> USE DEF KInv
<1>1. request' \in [Request -> RequestRecord]
  <2>1. "done" \in Phases
    BY DEF Phases
  <2> QED
    BY <2>1, PhaseUpdate DEF TypeOK, Settle
<1>2. TypeOK'
  BY <1>1, SettleUpdate DEF TypeOK, Settle
<1>3. \A s \in Request : /\ request'[s].key = request[s].key
                         /\ request'[s].model = request[s].model
                         /\ s # r => request'[s] = request[s]
  BY DEF TypeOK, Settle
<1>4. request'[r].phase = "done"
  BY DEF TypeOK, Settle
<1>5. Known'
  BY <1>3, <1>4 DEF Known, Settle, Waiting, Holding
<1>6. Paid'
  <2>1. request[r].phase \in Holding
    BY DEF Settle, Holding
  <2>2. \A s \in Request : request'[s].phase \in Holding \cup {"done"} =>
            request[s].phase \in Holding \cup {"done"}
    BY <1>3, <2>1
  <2>3. \A s \in Request : request[s].phase \in Holding \cup {"done"} =>
            request[s].key \in Key /\ reservation[request[s].key].status # "none"
    BY DEF Known, Paid
  <2>4. \A k \in Key : reservation'[k].status = "none" <=> reservation[k].status = "none"
    BY SettleUpdate
  <2>5. \A k \in arrived' : reservation'[k].status # "none"
    BY <2>4 DEF Paid, TypeOK, Settle
  <2> QED
    BY <1>3, <2>2, <2>3, <2>4, <2>5 DEF Paid
<1>7. OneCallPerKey'
  BY <1>3, <1>4 DEF OneCallPerKey, Settle, Holding
<1> QED
  BY <1>2, <1>5, <1>6, <1>7

LEMMA KInvStep == KInv /\ [Next]_vars => KInv'
<1> SUFFICES ASSUME KInv, [Next]_vars PROVE KInv'
  OBVIOUS
<1>1. CASE UNCHANGED vars
  BY <1>1 DEF vars, KInv, TypeOK, Known, Paid, OneCallPerKey
<1>2. ASSUME NEW r \in Request, Snapshot(r) PROVE KInv'
  BY <1>2, SnapshotKeeps
<1>3. ASSUME NEW r \in Request, Enter(r) PROVE KInv'
  BY <1>3, EnterKeeps
<1>4. ASSUME NEW r \in Request, Reserve(r) PROVE KInv'
  <2>1. CASE RefuseAccountExhausted(r)
    BY <2>1, LeavesKeeps, SyncedAccountType
       DEF RefuseAccountExhausted, Leaves, Refusals
  <2>2. CASE RefuseModelExhausted(r)
    BY <2>2, LeavesKeeps DEF RefuseModelExhausted, Leaves, Refusals, KInv, TypeOK
  <2>3. CASE RefuseDuplicate(r)
    <3>1. account' \in [usage : Nat, period : {NoDay} \cup Days]
      BY <2>3, SyncedAccountType DEF RefuseDuplicate, KInv, TypeOK
    <3> QED
      BY <2>3, <3>1, LeavesKeeps DEF RefuseDuplicate, Leaves, Refusals
  <2>4. CASE Grant(r)
    BY <2>4, GrantKeeps
  <2> QED
    BY <1>4, <2>1, <2>2, <2>3, <2>4 DEF Reserve
<1>5. ASSUME NEW r \in Request, Send(r) PROVE KInv'
  BY <1>5, SendKeeps
<1>6. ASSUME NEW r \in Request, Settle(r) PROVE KInv'
  BY <1>6, SettleKeeps
<1>7. ASSUME NEW r \in Request, Crash(r) PROVE KInv'
  BY <1>7, LeavesKeeps DEF Crash, Leaves, KInv, TypeOK
<1>8. CASE NewDay
  BY <1>8, QuotaAssumption
     DEF NewDay, KInv, TypeOK, Known, Paid, OneCallPerKey, Days
<1>9. CASE ExternalCall
  BY <1>9, QuotaAssumption DEF ExternalCall, KInv, TypeOK, Known, Paid, OneCallPerKey
<1> QED
  BY <1>1, <1>2, <1>3, <1>4, <1>5, <1>6, <1>7, <1>8, <1>9 DEF Next

LEMMA KInvInit == Init => KInv
<1> SUFFICES ASSUME Init PROVE KInv
  OBVIOUS
<1>1. TypeOK
  BY QuotaAssumption DEF Init, TypeOK, RequestRecord, Days, NoDay, Phases, NoReservation
<1> QED
  BY <1>1 DEF Init, KInv, Known, Paid, OneCallPerKey, Waiting, Holding

\* Types: every row, reservation and request is of its type in every
\* reachable state; no usage_requests is lost or negative.
THEOREM QuotaTypes == Spec => []TypeOK
<1>1. KInv => TypeOK
  BY DEF KInv
<1> QED
  BY KInvInit, KInvStep, <1>1, PTL DEF Spec

\* A reservation key pays for one provider call, whatever is retried, cut off
\* or run at the same time, and also across midnight.
THEOREM OneCallPerKeyHolds == Spec => []OneCallPerKey
<1>1. KInv => OneCallPerKey
  BY DEF KInv
<1> QED
  BY KInvInit, KInvStep, <1>1, PTL DEF Spec

-----------------------------------------------------------------------------
(***************************************************************************)
(* The quota of a day.  A row counts at least the reservations booked on   *)
(* its period, and the account row at most what the provider has seen and  *)
(* what it has still to see; a call that waits for the row locks has read  *)
(* the clock, and the provider's counter, of the day it is.                *)
(***************************************************************************)
Fresh ==
    \A r \in Request : request[r].phase \in Waiting =>
        /\ request[r].phase = "entered" => request[r].day = day
        /\ request[r].model \in Free => request[r].used <= provider

Unseen == Booked(Free, day) \ arrived

AccountCounted ==
    /\ account.period <= day
    /\ \A d \in Days : d > account.period => Booked(Free, d) = {}
    /\ account.period \in Days =>
          Cardinality(Booked(Free, account.period)) <= account.usage
    /\ account.period = day => account.usage <= provider + Cardinality(Unseen)

RowCounted(m) ==
    /\ modelRow[m].period <= day
    /\ \A d \in Days : d > modelRow[m].period => Booked({m}, d) = {}
    /\ modelRow[m].period \in Days =>
          /\ modelRow[m].usage \in Nat
          /\ Cardinality(Booked({m}, modelRow[m].period)) <= modelRow[m].usage

QInv == KInv /\ Fresh /\ AccountCounted /\ (\A m \in Model \ Free : RowCounted(m))
        /\ QuotaHolds

USE DEF Booked

LEMMA BookedIsFinite ==
    ASSUME NEW M, NEW d
    PROVE  /\ IsFiniteSet(Booked(M, d)) /\ Cardinality(Booked(M, d)) \in Nat
           /\ IsFiniteSet(Booked(M, d) \ arrived)
           /\ Cardinality(Booked(M, d) \ arrived) \in Nat
<1>1. Booked(M, d) \in SUBSET Key /\ (Booked(M, d) \ arrived) \in SUBSET Key
  BY DEF Booked, BookedIn
<1>2. IsFiniteSet(Booked(M, d)) /\ IsFiniteSet(Booked(M, d) \ arrived)
  BY <1>1, FS_Subset, QuotaAssumption
<1> QED
  BY <1>2, FS_CardinalityType

\* What a granted request adds to the reservations of its day.
LEMMA BookedAfterGrant ==
    ASSUME KInv, NEW r \in Request, Grant(r), NEW M, NEW d
    PROVE  /\ request[r].key \notin Booked(M, d)
           /\ BookedIn(reservation', M, d) =
                IF request[r].model \in M /\ BookedPeriod(r) = d
                THEN Booked(M, d) \cup {request[r].key}
                ELSE Booked(M, d)
<1>1. request[r].key \in Key
  BY DEF KInv, Known, Grant, Waiting
<1>2. /\ \A l \in Key : l # request[r].key => reservation'[l] = reservation[l]
      /\ reservation'[request[r].key] =
           [status |-> "reserved", model |-> request[r].model,
            period |-> BookedPeriod(r)]
      /\ reservation[request[r].key].status = "none"
  BY <1>1 DEF KInv, TypeOK, Grant
<1> QED
  BY <1>1, <1>2 DEF Booked, BookedIn

\* What a waiting request for a free model takes the account's usage to be.
LEMMA AccountUsageBounds ==
    ASSUME QInv, NEW r \in Request, request[r].phase = "entered",
           request[r].model \in Free
    PROVE  /\ request[r].day = day /\ day \in Days
           /\ AccountUsage(r) \in Nat
           /\ Cardinality(Booked(Free, day)) <= AccountUsage(r)
           /\ AccountUsage(r) <= provider + Cardinality(Unseen)
           /\ \A d \in Days : d > day => Booked(Free, d) = {}
<1>1. request[r].day = day /\ request[r].used <= provider
  BY DEF QInv, Fresh, Waiting
<1>2. request[r] \in RequestRecord
  BY DEF QInv, KInv, TypeOK
<1>3. request[r].used \in Nat
  BY <1>2 DEF RequestRecord
<1>4. /\ day \in Days /\ provider \in Nat /\ account.usage \in Nat
      /\ account.period \in {NoDay} \cup Days
  BY QuotaAssumption DEF QInv, KInv, TypeOK
<1>5. Cardinality(Unseen) \in Nat
  BY BookedIsFinite DEF Unseen
<1>6. CASE account.period # day
  <2>1. Booked(Free, day) = {}
    BY <1>4, <1>6, QuotaAssumption DEF QInv, AccountCounted, Days, NoDay
  <2>2. Cardinality(Booked(Free, day)) = 0
    BY <2>1, FS_EmptySet
  <2>3. AccountUsage(r) = request[r].used
    BY <1>1, <1>6 DEF AccountUsage
  <2>4. \A d \in Days : d > day => Booked(Free, d) = {}
    BY <1>4, QuotaAssumption DEF QInv, AccountCounted, Days, NoDay
  <2> QED
    BY <1>1, <1>3, <1>4, <1>5, <2>2, <2>3, <2>4
<1>7. CASE account.period = day
  <2>1. AccountUsage(r) = Larger(account.usage, request[r].used)
    BY <1>1, <1>7 DEF AccountUsage
  <2>2. AccountUsage(r) \in {account.usage, request[r].used}
        /\ account.usage <= AccountUsage(r)
    BY <2>1, <1>3, <1>4 DEF Larger
  <2>3. /\ Cardinality(Booked(Free, day)) <= account.usage
        /\ account.usage <= provider + Cardinality(Unseen)
        /\ \A d \in Days : d > day => Booked(Free, d) = {}
    BY <1>4, <1>7 DEF QInv, AccountCounted
  <2>4. Cardinality(Booked(Free, day)) \in Nat
    BY BookedIsFinite
  <2> QED
    BY <1>1, <1>3, <1>4, <1>5, <2>2, <2>3, <2>4
<1> QED
  BY <1>6, <1>7

\* A call that ends without a reservation leaves the account row
\* synchronised, or alone.
LEMMA RefusalKeeps ==
    ASSUME QInv, KInv', NEW r \in Request, NEW p \in Refusals \cup {"dead"},
           Leaves(r, p),
           \/ account' = account
           \/ request[r].phase = "entered" /\ request[r].model \in Free
              /\ account' = SyncedAccount(r)
    PROVE  QInv'
<1>1. \A M, d : BookedIn(reservation', M, d) = Booked(M, d)
  BY DEF Booked, Leaves
<1>2. Unseen' = Unseen
  BY <1>1 DEF Unseen, Leaves
<1>3. Fresh'
  <2>1. \A s \in Request : request'[s].phase \in Waiting => request'[s] = request[s]
    BY DEF Leaves, QInv, KInv, TypeOK, Waiting, Refusals
  <2> QED
    BY <2>1 DEF QInv, Fresh, Leaves
<1>4. \A m \in Model \ Free : RowCounted(m)'
  BY <1>1 DEF QInv, RowCounted, Leaves
<1>5. QuotaHolds'
  BY <1>1 DEF QInv, QuotaHolds
<1>6. AccountCounted'
  <2>1. CASE account' = account
    BY <2>1, <1>1, <1>2 DEF QInv, AccountCounted, Leaves
  <2>2. CASE request[r].phase = "entered" /\ request[r].model \in Free
              /\ account' = SyncedAccount(r)
    <3>1. account'.period = day /\ account'.usage = AccountUsage(r) /\ day' = day
      BY <2>2, AccountUsageBounds DEF SyncedAccount, Leaves
    <3>2. day \in Int
      BY AccountUsageBounds, <2>2 DEF Days
    <3> QED
      BY <2>2, <3>1, <3>2, <1>1, <1>2, AccountUsageBounds DEF AccountCounted, Leaves
  <2> QED
    BY <2>1, <2>2
<1> QED
  BY <1>3, <1>4, <1>5, <1>6 DEF QInv

LEMMA FreshAfterGrant ==
    ASSUME QInv, NEW r \in Request, Grant(r)
    PROVE  Fresh'
<1>1. \A s \in Request : request'[s].phase \in Waiting => request'[s] = request[s]
  BY DEF Grant, QInv, KInv, TypeOK, Waiting
<1> QED
  BY <1>1 DEF QInv, Fresh, Grant

LEMMA GrantFreeKeeps ==
    ASSUME QInv, KInv', NEW r \in Request, Grant(r), request[r].model \in Free
    PROVE  QInv'
<1> DEFINE k == request[r].key
           u == AccountUsage(r)
<1>0. PICK D \in Days : D = day
  BY DEF QInv, KInv, TypeOK
<1>1. /\ request[r].phase = "entered"
      /\ request[r].day = day /\ day \in Days /\ day' = day
      /\ u \in Nat /\ u < AccountLimit
      /\ provider' = provider /\ arrived' = arrived
      /\ account' = [usage |-> u + 1, period |-> day]
      /\ BookedPeriod(r) = day
  BY AccountUsageBounds DEF Grant, HasRoom, BookedPeriod
<1>2. \A d : BookedIn(reservation', Free, d) = IF d = D THEN Booked(Free, d) \cup {k}
                                ELSE Booked(Free, d)
  BY <1>0, <1>1, BookedAfterGrant DEF QInv
<1>3. \A m \in Model \ Free : \A d : BookedIn(reservation', {m}, d) = Booked({m}, d)
  BY <1>1, BookedAfterGrant DEF QInv
<1>4. k \notin Booked(Free, D) /\ k \notin arrived
  BY BookedAfterGrant DEF QInv, KInv, Paid, Grant
<1>5. Cardinality(BookedIn(reservation', Free, D)) = Cardinality(Booked(Free, D)) + 1
  <2>1. BookedIn(reservation', Free, D) = Booked(Free, D) \cup {k}
    BY <1>2
  <2>2. IsFiniteSet(Booked(Free, D))
    BY BookedIsFinite
  <2> QED
    BY <1>4, <2>1, <2>2, FS_AddElement
<1>6. Cardinality(Unseen') = Cardinality(Unseen) + 1
  <2>1. Unseen' = BookedIn(reservation', Free, D) \ arrived
    BY <1>0, <1>1 DEF Unseen, Booked
  <2>3. Unseen = Booked(Free, D) \ arrived
    BY <1>0 DEF Unseen
  <2>2. k \notin Unseen /\ IsFiniteSet(Unseen)
    BY <1>4, <2>3, BookedIsFinite
  <2>4. Unseen' = Unseen \cup {k}
    BY <1>2, <1>4, <2>1, <2>3
  <2> QED
    BY <2>2, <2>4, FS_AddElement
<1>7. /\ Cardinality(Booked(Free, D)) \in Nat /\ Cardinality(Unseen) \in Nat
      /\ provider \in Nat /\ D \in Int /\ AccountLimit \in Nat
  <2>1. Cardinality(Booked(Free, D)) \in Nat
    BY BookedIsFinite
  <2>2. Cardinality(Unseen) \in Nat
    BY BookedIsFinite DEF Unseen
  <2> QED
    BY <1>0, <2>1, <2>2, QuotaAssumption DEF QInv, KInv, TypeOK, Days
<1>8. AccountCounted'
  <2>1. \A d \in Days : d > D => BookedIn(reservation', Free, d) = {}
    BY <1>0, <1>1, <1>2, <1>7, AccountUsageBounds
  <2>2. Cardinality(BookedIn(reservation', Free, D)) <= u + 1
    BY <1>0, <1>1, <1>5, <1>7, AccountUsageBounds
  <2>3. u + 1 <= provider + Cardinality(Unseen')
    BY <1>0, <1>1, <1>6, <1>7, AccountUsageBounds
  <2>4. account'.period = D /\ account'.usage = u + 1 /\ day' = D
    BY <1>0, <1>1
  <2>5. BookedIn(reservation', Free, account'.period) = BookedIn(reservation', Free, D)
    BY <2>4
  <2> QED
    BY <1>1, <1>7, <2>1, <2>2, <2>3, <2>4, <2>5 DEF AccountCounted
<1>9. \A m \in Model \ Free : RowCounted(m)'
  <2>1. \A m \in Model \ Free : modelRow'[m] = modelRow[m]
    BY DEF Grant, QInv, KInv, TypeOK
  <2> QED
    BY <1>1, <1>3, <2>1 DEF RowCounted, QInv
<1>10. QuotaHolds'
  <2>1. Cardinality(BookedIn(reservation', Free, D)) <= AccountLimit
    BY <1>0, <1>1, <1>5, <1>7, AccountUsageBounds
  <2>2. \A d \in Days : Cardinality(BookedIn(reservation', Free, d)) <= AccountLimit
    BY <1>2, <2>1 DEF QInv, QuotaHolds
  <2> QED
    BY <1>3, <2>2 DEF QInv, QuotaHolds
<1> QED
  BY <1>8, <1>9, <1>10, FreshAfterGrant DEF QInv

LEMMA GrantOtherKeeps ==
    ASSUME QInv, KInv', NEW r \in Request, Grant(r), request[r].model \notin Free
    PROVE  QInv'
<1> DEFINE k == request[r].key
           n == request[r].model
           row == modelRow[n]
<1>0. PICK D \in Days : D = day
  BY DEF QInv, KInv, TypeOK
<1>1. /\ request[r].phase = "entered"
      /\ request[r].day = day /\ day \in Days /\ day' = day
      /\ n \in Model \ Free
      /\ provider' = provider /\ arrived' = arrived /\ account' = account
  BY DEF Grant, QInv, KInv, TypeOK, Known, Fresh, Waiting
<1>2. \A d : BookedIn(reservation', Free, d) = Booked(Free, d)
  BY <1>0, <1>1, BookedAfterGrant DEF QInv
<1>3. \A m \in Model \ Free : m # n => \A d : BookedIn(reservation', {m}, d) = Booked({m}, d)
  BY <1>0, <1>1, BookedAfterGrant DEF QInv
<1>4. \A d : BookedIn(reservation', {n}, d) = IF d = BookedPeriod(r) THEN Booked({n}, d) \cup {k}
                               ELSE Booked({n}, d)
  <2>1. request[r].model \in {n} /\ KInv
    BY DEF QInv
  <2> QED
    BY <2>1, BookedAfterGrant
<1>5. /\ row.period \in {NoDay} \cup Days /\ row.period <= D /\ D \in Int
      /\ ModelLimit \in Nat /\ RowCounted(n)
  <2>1. RowCounted(n)
    BY <1>1 DEF QInv
  <2>2. row.period \in {NoDay} \cup Days
    BY <1>1, QuotaAssumption DEF QInv, KInv, TypeOK
  <2>3. row.period <= D
    BY <1>0, <2>1 DEF RowCounted
  <2> QED
    BY <2>1, <2>2, <2>3, QuotaAssumption DEF Days
<1>6. /\ modelRow'[n] = [usage |-> ModelUsage(r) + 1, period |-> D]
      /\ \A m \in Model \ Free : m # n => modelRow'[m] = modelRow[m]
  BY <1>0, <1>1 DEF Grant, CountedRow, QInv, KInv, TypeOK
<1>7. /\ ModelUsage(r) \in Nat /\ ModelUsage(r) < ModelLimit
      /\ Cardinality(BookedIn(reservation', {n}, D)) <= ModelUsage(r) + 1
      /\ \A d \in Days : d # D => BookedIn(reservation', {n}, d) = Booked({n}, d)
      /\ \A d \in Days : d > D => BookedIn(reservation', {n}, d) = {}
  <2>1. ModelUsage(r) \in Nat /\ ModelUsage(r) < ModelLimit
    BY <1>0, <1>1, QuotaAssumption
       DEF Grant, HasRoom, ModelUsage, QInv, KInv, TypeOK
  <2>2. /\ IsFiniteSet(Booked({n}, D))
        /\ Cardinality(Booked({n}, D)) \in Nat
    BY BookedIsFinite
  <2>3. \A d \in Days : d > D => Booked({n}, d) = {}
    <3>1. \A d \in Days : d > D => d > row.period
      BY <1>5, QuotaAssumption DEF Days, NoDay
    <3>2. \A d \in Days : d > row.period => Booked({n}, d) = {}
      BY <1>0, <1>5 DEF RowCounted
    <3> QED
      BY <3>1, <3>2
  <2>4. PeriodIsOver(n, D) \/ row.period = NoDay \/ row.period = D
    BY <1>0, <1>5, QuotaAssumption DEF PeriodIsOver, Days, NoDay
  <2>5. BookedPeriod(r) = D \/ BookedPeriod(r) \notin Days
    BY <1>0, <1>1, <2>4 DEF BookedPeriod, Days, NoDay
  <2>6. \A d \in Days : d # D => BookedIn(reservation', {n}, d) = Booked({n}, d)
    BY <1>4, <2>5
  <2>7. \A d \in Days : d > D => d # D
    BY <1>5
  <2>8. \A d \in Days : d > D => BookedIn(reservation', {n}, d) = {}
    BY <2>3, <2>6, <2>7
  <2>9. Cardinality(BookedIn(reservation', {n}, D)) <= ModelUsage(r) + 1
    <3>1. CASE row.period = D
      <4>1. row.usage \in Nat /\ Cardinality(Booked({n}, D)) <= row.usage
        BY <1>0, <1>5, <3>1 DEF RowCounted
      <4>2. ModelUsage(r) = row.usage
        BY <1>0, <1>1, <1>5, <3>1 DEF ModelUsage, PeriodIsOver
      <4>3. k \notin Booked({n}, D)
        BY BookedAfterGrant DEF QInv
      <4>4. Cardinality(Booked({n}, D) \cup {k}) = Cardinality(Booked({n}, D)) + 1
        BY <2>2, <4>3, FS_AddElement
      <4>5. \/ Cardinality(BookedIn(reservation', {n}, D))
                = Cardinality(Booked({n}, D)) + 1
            \/ Cardinality(BookedIn(reservation', {n}, D))
                = Cardinality(Booked({n}, D))
        BY <1>4, <4>4
      <4> HIDE DEF n, row, k
      <4> QED
        BY <2>2, <4>1, <4>2, <4>5
    <3>2. CASE row.period # D
      <4>1. Booked({n}, D) = {}
        BY <1>0, <1>5, <2>4, <3>2 DEF RowCounted, PeriodIsOver, NoDay, Days
      <4>2. BookedIn(reservation', {n}, D) = {} \/ BookedIn(reservation', {n}, D) = {k}
        BY <1>4, <4>1
      <4>3. Cardinality({}) = 0 /\ Cardinality({k}) = 1
        BY FS_EmptySet, FS_Singleton
      <4>4. Cardinality(BookedIn(reservation', {n}, D)) = 0
            \/ Cardinality(BookedIn(reservation', {n}, D)) = 1
        BY <4>2, <4>3
      <4> QED
        BY <2>1, <4>4
    <3> QED
      BY <3>1, <3>2
  <2> QED
    BY <2>1, <2>6, <2>8, <2>9
<1>8. AccountCounted'
  <2>1. Unseen' = Unseen
    BY <1>1, <1>2 DEF Unseen, Booked
  <2> QED
    BY <1>0, <1>1, <1>2, <2>1 DEF AccountCounted, QInv
<1>9. \A m \in Model \ Free : RowCounted(m)'
  <2>1. ASSUME NEW m \in Model \ Free, m # n PROVE RowCounted(m)'
    <3>1. /\ modelRow'[m] = modelRow[m] /\ RowCounted(m)
          /\ \A d : BookedIn(reservation', {m}, d) = Booked({m}, d)
      BY <1>3, <1>6, <2>1 DEF QInv
    <3> QED
      BY <1>1, <3>1 DEF RowCounted
  <2>2. ASSUME NEW m \in Model \ Free, m = n PROVE RowCounted(m)'
    <3>1. modelRow'[m].period = D /\ modelRow'[m].usage = ModelUsage(r) + 1
      BY <1>6, <2>2
    <3>2. Cardinality(BookedIn(reservation', {m}, D)) <= ModelUsage(r) + 1
      BY <1>7, <2>2
    <3>3. \A d \in Days : d > D => BookedIn(reservation', {m}, d) = {}
      BY <1>7, <2>2
    <3>4. /\ BookedIn(reservation', {m}, modelRow'[m].period)
               = BookedIn(reservation', {m}, D)
          /\ modelRow'[m].usage \in Nat
          /\ modelRow'[m].period <= day'
      BY <1>0, <1>1, <1>5, <1>7, <3>1
    <3> QED
      BY <3>1, <3>2, <3>3, <3>4 DEF RowCounted
  <2> QED
    BY <1>0, <2>1, <2>2
<1>10. QuotaHolds'
  <2>1. Cardinality(BookedIn(reservation', {n}, D)) \in Nat
    <3>1. BookedIn(reservation', {n}, D) \in {Booked({n}, D), Booked({n}, D) \cup {k}}
      BY <1>0, <1>4
    <3>2. IsFiniteSet(BookedIn(reservation', {n}, D))
      <4>1. IsFiniteSet(Booked({n}, D))
        BY BookedIsFinite
      <4>2. IsFiniteSet(Booked({n}, D) \cup {k})
        BY <4>1, FS_AddElement
      <4> QED
        BY <3>1, <4>1, <4>2
    <3> QED
      BY <3>2, FS_CardinalityType
  <2>2. Cardinality(BookedIn(reservation', {n}, D)) <= ModelLimit
    BY <1>0, <1>5, <1>7, <2>1
  <2>3. \A d \in Days : Cardinality(BookedIn(reservation', {n}, d)) <= ModelLimit
    BY <1>0, <1>1, <1>7, <2>2 DEF QInv, QuotaHolds
  <2> QED
    BY <1>0, <1>2, <1>3, <2>3 DEF QInv, QuotaHolds
<1> QED
  BY <1>0, <1>8, <1>9, <1>10, FreshAfterGrant DEF QInv

\* What a call reads changes no count.
LEMMA ReadingKeeps ==
    ASSUME QInv, KInv', Fresh',
           UNCHANGED <<account, modelRow, reservation, provider, day, arrived>>
    PROVE  QInv'
<1>1. \A M, d : BookedIn(reservation', M, d) = Booked(M, d)
  OBVIOUS
<1>2. Unseen' = Unseen
  BY DEF Unseen
<1>3. AccountCounted'
  BY <1>1, <1>2 DEF QInv, AccountCounted
<1>4. \A m \in Model \ Free : RowCounted(m)'
  BY <1>1 DEF QInv, RowCounted
<1>5. QuotaHolds'
  BY <1>1 DEF QInv, QuotaHolds
<1> QED
  BY <1>3, <1>4, <1>5 DEF QInv

LEMMA SnapshotQuota ==
    ASSUME QInv, KInv', NEW r \in Request, Snapshot(r)
    PROVE  QInv'
<1>1. CASE \E k \in Key, m \in Model :
              request' = [request EXCEPT ![r].phase = "snapshot", ![r].key = k,
                            ![r].model = m,
                            ![r].used = IF m \in Free THEN provider ELSE 0]
  <2>1. PICK k \in Key, m \in Model :
              request' = [request EXCEPT ![r].phase = "snapshot", ![r].key = k,
                            ![r].model = m,
                            ![r].used = IF m \in Free THEN provider ELSE 0]
    BY <1>1
  <2>2. /\ \A s \in Request : s # r => request'[s] = request[s]
        /\ request'[r].phase = "snapshot" /\ request'[r].model = m
        /\ request'[r].used = IF m \in Free THEN provider ELSE 0
    BY <2>1 DEF QInv, KInv, TypeOK
  <2>3. provider \in Nat
    BY QuotaAssumption DEF QInv, KInv, TypeOK
  <2>4. Fresh'
    BY <2>2, <2>3 DEF QInv, Fresh, Snapshot
  <2> QED
    BY <2>4, ReadingKeeps DEF Snapshot
<1>2. CASE request' = [request EXCEPT ![r].phase = "unavailable"]
  BY <1>2, RefusalKeeps DEF Leaves, Snapshot, Refusals
<1> QED
  BY <1>1, <1>2 DEF Snapshot

LEMMA EnterQuota ==
    ASSUME QInv, KInv', NEW r \in Request, Enter(r)
    PROVE  QInv'
<1>1. /\ \A s \in Request : s # r => request'[s] = request[s]
      /\ request'[r].phase = "entered" /\ request'[r].day = day
      /\ request'[r].model = request[r].model /\ request'[r].used = request[r].used
      /\ request[r].phase = "snapshot"
  BY DEF Enter, QInv, KInv, TypeOK
<1>2. Fresh'
  BY <1>1 DEF QInv, Fresh, Enter, Waiting
<1> QED
  BY <1>2, ReadingKeeps DEF Enter

\* The provider counts what it had not seen, or what it never will.
LEMMA SendQuota ==
    ASSUME QInv, KInv', NEW r \in Request, Send(r)
    PROVE  QInv'
<1> DEFINE k == request[r].key
<1>1. PICK o \in Outcomes :
          request' = [request EXCEPT ![r].phase = "sent", ![r].outcome = o]
  BY DEF Send, Outcomes
<1>2. /\ \A s \in Request : s # r => request'[s] = request[s]
      /\ request'[r].phase \notin Waiting
  BY <1>1 DEF QInv, KInv, TypeOK, Waiting
<1>3. /\ provider \in Nat /\ provider' \in Nat
      /\ \/ provider' = provider /\ arrived' = arrived
         \/ provider' = provider + 1 /\ arrived' = arrived \cup {k}
  BY QuotaAssumption DEF Send, QInv, KInv, TypeOK
<1>4. Fresh'
  <2>1. \A s \in Request : request'[s].phase \in Waiting => request[s].used \in Nat
    BY DEF QInv, KInv, TypeOK, RequestRecord
  <2> QED
    BY <1>2, <1>3, <2>1 DEF QInv, Fresh, Send
<1>5. \A M, d : BookedIn(reservation', M, d) = Booked(M, d)
  BY DEF Send
<1>6. provider + Cardinality(Unseen) <= provider' + Cardinality(Unseen')
  <2>1. Cardinality(Unseen) \in Nat /\ IsFiniteSet(Unseen)
    BY BookedIsFinite DEF Unseen
  <2>2. CASE arrived' = arrived /\ provider' = provider
    <3>1. Unseen' = Unseen
      BY <2>2, <1>5 DEF Unseen, Send
    <3> QED
      BY <1>3, <2>1, <2>2, <3>1
  <2>3. CASE arrived' = arrived \cup {k} /\ provider' = provider + 1
    <3>1. Unseen' = Unseen \ {k}
      BY <2>3, <1>5 DEF Unseen, Send
    <3>2. Cardinality(Unseen \ {k}) \in {Cardinality(Unseen), Cardinality(Unseen) - 1}
      BY <2>1, FS_RemoveElement
    <3> HIDE DEF k
    <3> QED
      BY <1>3, <2>1, <2>3, <3>1, <3>2
  <2> QED
    BY <1>3, <2>2, <2>3
<1>7. AccountCounted'
  <2>1. Cardinality(Unseen) \in Nat /\ Cardinality(Unseen') \in Int
    <3>1. KInv' => Unseen' \in SUBSET Key
      BY DEF Unseen, BookedIn
    <3>2. IsFiniteSet(Unseen')
      BY <3>1, FS_Subset, QuotaAssumption
    <3> QED
      BY <3>2, FS_CardinalityType, BookedIsFinite DEF Unseen
  <2>2. account.usage \in Nat
    BY DEF QInv, KInv, TypeOK
  <2> QED
    BY <1>3, <1>5, <1>6, <2>1, <2>2 DEF QInv, AccountCounted, Send
<1>8. \A m \in Model \ Free : RowCounted(m)'
  BY <1>5 DEF QInv, RowCounted, Send
<1>9. QuotaHolds'
  BY <1>5 DEF QInv, QuotaHolds
<1> QED
  BY <1>4, <1>7, <1>8, <1>9 DEF QInv

LEMMA SettleQuota ==
    ASSUME QInv, KInv', NEW r \in Request, Settle(r)
    PROVE  QInv'
<1>1. \A M, d : BookedIn(reservation', M, d) = Booked(M, d)
  BY SettleUpdate DEF QInv, BookedIn
<1>2. Unseen' = Unseen
  BY <1>1 DEF Unseen, Settle
<1>3. Fresh'
  <2>1. \A s \in Request : request'[s].phase \in Waiting => request'[s] = request[s]
    BY DEF Settle, QInv, KInv, TypeOK, Waiting
  <2> QED
    BY <2>1 DEF QInv, Fresh, Settle
<1>4. AccountCounted'
  BY <1>1, <1>2 DEF QInv, AccountCounted, Settle
<1>5. \A m \in Model \ Free : RowCounted(m)'
  BY <1>1 DEF QInv, RowCounted, Settle
<1>6. QuotaHolds'
  BY <1>1 DEF QInv, QuotaHolds
<1> QED
  BY <1>3, <1>4, <1>5, <1>6 DEF QInv

\* Midnight finds nobody waiting, and nothing booked on the new day.
LEMMA NewDayQuota ==
    ASSUME ~SpansMidnight, QInv, KInv', NewDay
    PROVE  QInv'
<1>1. Fresh'
  BY DEF NewDay, Fresh
<1>2. /\ day \in Int /\ day' = day + 1
      /\ account.period \in Int /\ account.period <= day
  BY DEF NewDay, QInv, KInv, TypeOK, AccountCounted, Days, NoDay
<1>3. AccountCounted'
  <2>1. account'.period < day'
    BY <1>2 DEF NewDay
  <2>2. account'.period # day' /\ account'.period <= day'
    BY <1>2, <2>1 DEF NewDay
  <2> QED
    BY <2>2 DEF QInv, AccountCounted, NewDay
<1>4. ASSUME NEW m \in Model \ Free PROVE RowCounted(m)'
  <2>1. RowCounted(m) /\ m \in Model
    BY <1>4 DEF QInv
  <2>3. modelRow[m].period \in {NoDay} \cup Days
    BY <2>1 DEF QInv, KInv, TypeOK
  <2>4. modelRow[m].period \in Int /\ modelRow[m].period <= day
    BY <2>1, <2>3, QuotaAssumption DEF RowCounted, Days, NoDay
  <2>2. modelRow'[m] = modelRow[m] /\ modelRow'[m].period <= day'
    BY <1>2, <2>4 DEF NewDay
  <2> QED
    BY <2>1, <2>2 DEF RowCounted, NewDay
<1>5. QuotaHolds'
  BY DEF QInv, QuotaHolds, NewDay
<1> QED
  BY <1>1, <1>3, <1>4, <1>5 DEF QInv

LEMMA ExternalQuota ==
    ASSUME QInv, KInv', ExternalCall
    PROVE  QInv'
<1>1. /\ provider \in Nat /\ provider' = provider + 1
      /\ account.usage \in Nat
  BY QuotaAssumption DEF ExternalCall, QInv, KInv, TypeOK
<1>5. Cardinality(Unseen) \in Nat
  BY BookedIsFinite DEF Unseen
<1>2. Fresh'
  <2>1. \A s \in Request : request[s].used \in Nat
    BY DEF QInv, KInv, TypeOK, RequestRecord
  <2> QED
    BY <1>1, <2>1 DEF QInv, Fresh, ExternalCall
<1>3. Unseen' = Unseen
  BY DEF Unseen, ExternalCall
<1>4. AccountCounted'
  BY <1>1, <1>3, <1>5 DEF QInv, AccountCounted, ExternalCall
<1> QED
  BY <1>2, <1>4 DEF QInv, RowCounted, QuotaHolds, ExternalCall

LEMMA QInvStep == ~SpansMidnight /\ QInv /\ [Next]_vars => QInv'
<1> SUFFICES ASSUME ~SpansMidnight, QInv, [Next]_vars PROVE QInv'
  OBVIOUS
<1>0. KInv'
  BY KInvStep DEF QInv
<1>1. CASE UNCHANGED vars
  <2>1. Fresh'
    BY <1>1 DEF vars, QInv, Fresh
  <2> QED
    BY <1>0, <1>1, <2>1, ReadingKeeps DEF vars
<1>2. ASSUME NEW r \in Request, Snapshot(r) PROVE QInv'
  BY <1>0, <1>2, SnapshotQuota
<1>3. ASSUME NEW r \in Request, Enter(r) PROVE QInv'
  BY <1>0, <1>3, EnterQuota
<1>4. ASSUME NEW r \in Request, Reserve(r) PROVE QInv'
  <2>1. CASE RefuseAccountExhausted(r)
    BY <1>0, <2>1, RefusalKeeps DEF RefuseAccountExhausted, Leaves, Refusals
  <2>2. CASE RefuseModelExhausted(r)
    BY <1>0, <2>2, RefusalKeeps DEF RefuseModelExhausted, Leaves, Refusals
  <2>3. CASE RefuseDuplicate(r)
    BY <1>0, <2>3, RefusalKeeps DEF RefuseDuplicate, Leaves, Refusals
  <2>4. CASE Grant(r)
    BY <1>0, <2>4, GrantFreeKeeps, GrantOtherKeeps
  <2> QED
    BY <1>4, <2>1, <2>2, <2>3, <2>4 DEF Reserve
<1>5. ASSUME NEW r \in Request, Send(r) PROVE QInv'
  BY <1>0, <1>5, SendQuota
<1>6. ASSUME NEW r \in Request, Settle(r) PROVE QInv'
  BY <1>0, <1>6, SettleQuota
<1>7. ASSUME NEW r \in Request, Crash(r) PROVE QInv'
  BY <1>0, <1>7, RefusalKeeps DEF Crash, Leaves
<1>8. CASE NewDay
  BY <1>0, <1>8, NewDayQuota
<1>9. CASE ExternalCall
  BY <1>0, <1>9, ExternalQuota
<1> QED
  BY <1>1, <1>2, <1>3, <1>4, <1>5, <1>6, <1>7, <1>8, <1>9 DEF Next

LEMMA QInvInit == Init => QInv
<1> SUFFICES ASSUME Init PROVE QInv
  OBVIOUS
<1>1. KInv
  BY KInvInit
<1>2. \A M, d : Booked(M, d) = {}
  BY DEF Init, BookedIn, NoReservation
<1>3. \A M, d : Cardinality(Booked(M, d)) = 0
  BY <1>2, FS_EmptySet
<1>4. Fresh
  BY DEF Init, Fresh, Waiting
<1>5. AccountCounted
  BY <1>2, <1>3 DEF Init, AccountCounted, NoDay, Days
<1>6. ASSUME NEW m \in Model \ Free PROVE RowCounted(m)
  <2>1. modelRow[m].period = NoDay
    BY <1>6 DEF Init
  <2> QED
    BY <1>2, <2>1 DEF Init, RowCounted, NoDay, Days
<1>7. QuotaHolds
  BY <1>3, QuotaAssumption DEF QuotaHolds
<1> QED
  BY <1>1, <1>4, <1>5, <1>6, <1>7 DEF QInv

\* When no reservation waits across midnight, a day's quota is not given away
\* twice, for any number of requests, keys and days.
THEOREM QuotaIsKept == ~SpansMidnight => (Spec => []QuotaHolds)
<1> SUFFICES ASSUME ~SpansMidnight PROVE Spec => []QuotaHolds
  OBVIOUS
<1>1. QInv /\ [Next]_vars => QInv'
  BY QInvStep
<1>2. QInv => QuotaHolds
  BY DEF QInv
<1> QED
  BY QInvInit, <1>1, <1>2, PTL DEF Spec

\* And then no request is turned away for an account that still has room.
THEOREM RefusalsAreJustified == ~SpansMidnight => (Spec => RefusalIsJustified)
<1> DEFINE A == \A r \in Request :
                  /\ request[r].phase # "account_exhausted"
                  /\ request'[r].phase = "account_exhausted"
                  => provider + Cardinality(Booked(Free, day) \ arrived)
                       >= AccountLimit
<1> SUFFICES ASSUME ~SpansMidnight PROVE Spec => [][A]_vars
  BY DEF RefusalIsJustified
<1>1. QInv /\ [Next]_vars => QInv'
  BY QInvStep
<1>2. QInv /\ [Next]_vars => [A]_vars
  <2> SUFFICES ASSUME QInv, Next, NEW r \in Request,
                      request[r].phase # "account_exhausted",
                      request'[r].phase = "account_exhausted"
               PROVE  provider + Cardinality(Unseen) >= AccountLimit
    BY DEF Unseen
  <2>1. RefuseAccountExhausted(r)
    <3>0. request \in [Request -> RequestRecord]
      BY DEF QInv, KInv, TypeOK
    <3>1. request' # request
      OBVIOUS
    <3>2. ASSUME NEW s \in Request,
                 \/ Snapshot(s) \/ Enter(s) \/ Send(s) \/ Settle(s) \/ Crash(s)
                 \/ RefuseModelExhausted(s) \/ RefuseDuplicate(s) \/ Grant(s)
          PROVE  FALSE
      <4>1. CASE s # r
        <5>1. request'[r] = request[r]
          BY <3>0, <3>2, <4>1 DEF Snapshot, Enter, Send, Settle, Crash,
             RefuseModelExhausted, RefuseDuplicate, Grant
        <5> QED
          BY <5>1
      <4>2. CASE s = r
        <5>1. CASE Snapshot(r)
          BY <3>0, <5>1 DEF RequestRecord, Snapshot
        <5>2. CASE Enter(r) \/ Settle(r) \/ Crash(r) \/ RefuseDuplicate(r) \/ Grant(r)
          BY <3>0, <5>2 DEF RequestRecord, Enter, Settle, Crash, RefuseDuplicate, Grant
        <5>3. CASE Send(r)
          BY <3>0, <5>3 DEF RequestRecord, Send
        <5>4. CASE RefuseModelExhausted(r)
          BY <3>0, <5>4 DEF RequestRecord, RefuseModelExhausted
        <5> QED
          BY <3>2, <4>2, <5>1, <5>2, <5>3, <5>4
      <4> QED
        BY <4>1, <4>2
    <3>3. ASSUME NEW s \in Request, RefuseAccountExhausted(s)
          PROVE  s = r
      BY <3>0, <3>3 DEF RefuseAccountExhausted
    <3> QED
      BY <3>1, <3>2, <3>3 DEF Next, Reserve, NewDay, ExternalCall
  <2>2. AccountUsage(r) >= AccountLimit /\ AccountUsage(r) \in Nat
        /\ AccountUsage(r) <= provider + Cardinality(Unseen)
    BY <2>1, AccountUsageBounds DEF RefuseAccountExhausted
  <2>3. provider \in Nat /\ Cardinality(Unseen) \in Nat /\ AccountLimit \in Nat
    <3>1. Cardinality(Unseen) \in Nat
      BY BookedIsFinite DEF Unseen
    <3> QED
      BY <3>1, QuotaAssumption DEF QInv, KInv, TypeOK
  <2> QED
    BY <2>2, <2>3
<1> QED
  BY QInvInit, <1>1, <1>2, PTL DEF Spec

=============================================================================
