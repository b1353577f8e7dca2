---------------------------- MODULE CapacityProofs ----------------------------
(***************************************************************************)
(* Theorems about Capacity, for every number of workers, every set of      *)
(* conditions and registrations, any number of accounts and of events.     *)
(*                                                                         *)
(* The slot count is a fold over the accounts of a worker and the choice a *)
(* maximum over the workers: what is so of them for every number is proved *)
(* from the least number it would not be so of (LeastNumber).              *)
(***************************************************************************)
EXTENDS Capacity, WellFoundedInduction, TLAPS

USE CapacityAssumption

-----------------------------------------------------------------------------
(* The slot count.                                                         *)

\* Every nonempty set of natural numbers has a least element: what the proofs
\* by induction below rest on.
LEMMA LeastNumber ==
    ASSUME NEW T \in SUBSET Nat, T # {}
    PROVE  \E n \in T : \A m \in T : n <= m
  <1>1. PICK n \in T : \A m \in T : ~(<<m, n>> \in OpToRel(<, Nat))
    BY NatLessThanWellFounded, WFMin, Zenon
  <1>2. ASSUME NEW m \in T, m < n PROVE FALSE
    <2>1. <<m, n>> \in OpToRel(<, Nat)
      BY <1>2 DEF OpToRel
    <2> QED
      BY <1>1, <2>1
  <1> QED
    BY <1>2

LEMMA MaxOfNumbers ==
    ASSUME NEW n \in Nat, NEW s \in SUBSET (1 .. n), n \in s
    PROVE  Max(s) = n
  <1>1. \A x \in s : (\A y \in s : x >= y) => x = n
    OBVIOUS
  <1>2. \A y \in s : n >= y
    OBVIOUS
  <1> QED
    BY <1>1, <1>2 DEF Max

\* g is the function AvailableSlots goes through: the slots of the accounts in a set
\* of positions.
SumsSlots(g, accounts, D) ==
    g = [s \in SUBSET D |->
            IF s = {} THEN 0 ELSE g[s \ {Max(s)}] + FreeSlots(accounts[Max(s)])]

LEMMA SlotsAreSummed ==
    ASSUME NEW accounts
    PROVE  AvailableSlots(accounts)
               = (CHOOSE g : SumsSlots(g, accounts, DOMAIN accounts))[DOMAIN accounts]
  BY DEF AvailableSlots, FoldLeft, MapThenFoldSet, SumsSlots

LEMMA SumExists ==
    ASSUME NEW accounts, NEW n \in Nat
    PROVE  \E g : SumsSlots(g, accounts, 1 .. n)
  <1> DEFINE Lacking == {k \in Nat : ~\E g : SumsSlots(g, accounts, 1 .. k)}
  <1> SUFFICES ASSUME Lacking # {} PROVE FALSE
    OBVIOUS
  <1>1. PICK k \in Lacking : \A m \in Lacking : k <= m
    BY LeastNumber
  <1>2. k # 0
    <2> DEFINE g == [s \in SUBSET {} |-> 0]
    <2>1. SumsSlots(g, accounts, {})
      BY DEF SumsSlots
    <2>2. 1 .. 0 = {}
      OBVIOUS
    <2> QED
      BY <2>1, <2>2
  <1>3. PICK g : SumsSlots(g, accounts, 1 .. (k - 1))
    BY <1>1, <1>2
  <1> DEFINE h == [s \in SUBSET (1 .. k) |->
                      IF k \in s THEN g[s \ {k}] + FreeSlots(accounts[k]) ELSE g[s]]
  <1>4. ASSUME NEW s \in SUBSET (1 .. k)
        PROVE  h[s] = IF s = {} THEN 0
                      ELSE h[s \ {Max(s)}] + FreeSlots(accounts[Max(s)])
    <2>1. CASE k \in s
      <3>1. Max(s) = k /\ s \ {k} \in SUBSET (1 .. k) /\ k \notin s \ {k}
        BY <2>1, MaxOfNumbers
      <3> QED
        BY <2>1, <3>1
    <2>2. CASE k \notin s
      <3> \A i \in s : i \in 1 .. (k - 1)
        BY <2>2
      <3>1. s \in SUBSET (1 .. (k - 1)) /\ s \ {Max(s)} \in SUBSET (1 .. k)
        OBVIOUS
      <3>2. h[s] = g[s] /\ h[s \ {Max(s)}] = g[s \ {Max(s)}]
        BY <2>2, <3>1
      <3>3. g[s] = IF s = {} THEN 0 ELSE g[s \ {Max(s)}] + FreeSlots(accounts[Max(s)])
        BY <1>3, <3>1 DEF SumsSlots
      <3> QED
        BY <3>2, <3>3
    <2> QED
      BY <2>1, <2>2
  <1>5. SumsSlots(h, accounts, 1 .. k)
    BY <1>4 DEF SumsSlots
  <1> QED
    BY <1>1, <1>5

\* What FreeSlots is worth.
LEMMA FreeSlotsType ==
    ASSUME NEW a \in Account
    PROVE  /\ FreeSlots(a) \in Nat
           /\ FreeSlots(a) > 0 <=> Usable(a) /\ a.running < Limit(a)
  BY DEF FreeSlots, Positive, Limit, Account

\* _available_account_slots is a number, positive just if an account is free.
LEMMA AvailableSlotsType ==
    ASSUME NEW accounts \in Seq(Account)
    PROVE  /\ AvailableSlots(accounts) \in Nat
           /\ AvailableSlots(accounts) > 0 <=>
                  \E i \in DOMAIN accounts :
                      Usable(accounts[i]) /\ accounts[i].running < Limit(accounts[i])
  <1> DEFINE D == DOMAIN accounts
             g == CHOOSE f : SumsSlots(f, accounts, D)
             Free(i) == Usable(accounts[i]) /\ accounts[i].running < Limit(accounts[i])
             Right(k) == g[1 .. k] \in Nat /\ (g[1 .. k] > 0 <=> \E i \in 1 .. k : Free(i))
             Wrong == {k \in 0 .. Len(accounts) : ~Right(k)}
  <1>1. D = 1 .. Len(accounts) /\ Len(accounts) \in Nat
    OBVIOUS
  <1>2. SumsSlots(g, accounts, D)
    BY <1>1, SumExists
  <1>3. ASSUME NEW k \in Wrong, \A m \in Wrong : k <= m PROVE FALSE
    <2>1. \A s \in SUBSET D :
             g[s] = IF s = {} THEN 0 ELSE g[s \ {Max(s)}] + FreeSlots(accounts[Max(s)])
      BY <1>2 DEF SumsSlots
    <2> HIDE DEF g
    <2>2. CASE k = 0
      <3>1. 1 .. k = {}
        BY <2>2
      <3>2. g[{}] = 0
        BY <2>1
      <3>3. Right(k)
        BY <3>1, <3>2
      <3> QED
        BY <1>3, <3>3
    <2>3. CASE k # 0
      <3>1. Right(k - 1)
        BY <1>1, <1>3, <2>3
      <3>7. k \in Nat /\ k \in 1 .. k /\ k <= Len(accounts)
        BY <1>1, <2>3
      <3>8. Max(1 .. k) = k
        BY <3>7, MaxOfNumbers
      <3>2. 1 .. k \in SUBSET D /\ 1 .. k # {} /\ Max(1 .. k) = k
        <4>1. \A i \in 1 .. k : i \in D
          BY <1>1, <3>7
        <4> QED
          BY <3>7, <3>8, <4>1
      <3>3. (1 .. k) \ {k} = 1 .. (k - 1)
        BY <1>1, <2>3
      <3>4. g[1 .. k] = g[1 .. (k - 1)] + FreeSlots(accounts[k])
        BY <2>1, <3>2, <3>3
      <3>5. FreeSlots(accounts[k]) \in Nat /\ (FreeSlots(accounts[k]) > 0 <=> Free(k))
        BY <1>1, <2>3, FreeSlotsType
      <3>6. (\E i \in 1 .. k : Free(i)) <=> Free(k) \/ \E i \in 1 .. (k - 1) : Free(i)
        BY <1>1, <2>3
      <3> HIDE DEF Free
      <3> QED
        BY <3>1, <3>4, <3>5, <3>6
    <2> QED
      BY <2>2, <2>3
  <1>4. Wrong = {}
    <2> HIDE DEF Right
    <2>1. Wrong \in SUBSET Nat
      BY <1>1
    <2> HIDE DEF Wrong
    <2> QED
      BY <1>3, <2>1, LeastNumber
  <1>5. Right(Len(accounts))
    BY <1>1, <1>4
  <1>6. AvailableSlots(accounts) = g[1 .. Len(accounts)]
    BY <1>1, SlotsAreSummed
  <1> HIDE DEF g
  <1> QED
    BY <1>1, <1>5, <1>6

-----------------------------------------------------------------------------
(* Types.                                                                  *)

HealthFirst == \A q \in requests : q.accounts # Nothing => q.health # Nothing

TypeInv == TypeOK /\ HealthFirst

\* health_score is a percentage, however many accounts are free.
LEMMA HealthScoreType ==
    ASSUME NEW cpu \in Nat, NEW ram \in Nat, NEW slots \in Nat
    PROVE  HealthScore(cpu, ram, slots) \in 0 .. 100
  <1> DEFINE s == (10000 - 35 * cpu - 35 * ram + 800 * slots) \div 100
  <1>1. s \in Int
    OBVIOUS
  <1>2. HealthScore(cpu, ram, slots) = IF s > 100 THEN 100 ELSE Positive(s)
    BY DEF HealthScore
  <1> HIDE DEF s
  <1> QED
    BY <1>1, <1>2 DEF Positive

LEMMA ConditionType ==
    /\ Conditions \subseteq Condition
    /\ Down \notin Condition /\ Nothing \notin Condition /\ Down # Nothing
  BY DEF Down, Nothing, Condition

LEMMA MeasuredType ==
    ASSUME NEW h \in Condition, NEW a \in Condition, NEW max \in Nat
    PROVE  Measured(h, a, max) \in Status
  <1>1. AvailableSlots(a.accounts) \in Nat
    BY AvailableSlotsType DEF Condition
  <1>2. h.active \in Nat /\ h.queued \in Nat /\ h.cpu \in Nat /\ h.ram \in Nat
    BY DEF Condition
  <1>3. HealthScore(h.cpu, h.ram, AvailableSlots(a.accounts)) \in 0 .. 100
    BY <1>1, <1>2, HealthScoreType
  <1> QED
    BY <1>1, <1>2, <1>3 DEF Measured, Status

\* The fields of a record and of a request.
LEMMA RecordType ==
    ASSUME TypeOK, NEW w \in Workers, rec[w] # Absent
    PROVE  rec[w] \in [version : Nat, enabled : BOOLEAN, weight : Nat, max : Nat \ {0},
                       measured : BOOLEAN, status : Status]
  BY DEF TypeOK, Record

LEMMA RefreshAllType ==
    ASSUME TypeOK, NEW by \in {"scheduler", "viewer", "admin"}
    PROVE  /\ RefreshAll(by) \subseteq RefreshRequest
           /\ \A q \in RefreshAll(by) :
                  /\ q.by = by /\ q.health = Nothing /\ q.accounts = Nothing
                  /\ q.w \in Workers /\ rec[q.w] # Absent /\ rec[q.w].enabled
                  /\ q.version = rec[q.w].version /\ q.max = rec[q.w].max
           /\ \A w \in Workers :
                  rec[w] # Absent /\ rec[w].enabled => \E q \in RefreshAll(by) : q.w = w
  <1>1. ASSUME NEW w \in Workers, rec[w] # Absent
        PROVE  Refresh(by, w, rec[w].version, rec[w].max) \in RefreshRequest
    BY <1>1, RecordType DEF Refresh, RefreshRequest
  <1>2. RefreshAll(by) \subseteq RefreshRequest
    BY <1>1 DEF RefreshAll
  <1>3. ASSUME NEW w \in Workers, rec[w] # Absent, rec[w].enabled
        PROVE  /\ Refresh(by, w, rec[w].version, rec[w].max) \in RefreshAll(by)
               /\ Refresh(by, w, rec[w].version, rec[w].max).w = w
    BY <1>3 DEF RefreshAll, Refresh
  <1>4. ASSUME NEW q \in RefreshAll(by)
        PROVE  /\ q.by = by /\ q.health = Nothing /\ q.accounts = Nothing
               /\ q.w \in Workers /\ rec[q.w] # Absent /\ rec[q.w].enabled
               /\ q.version = rec[q.w].version /\ q.max = rec[q.w].max
    <2>1. PICK w \in Workers :
             /\ rec[w] # Absent /\ rec[w].enabled
             /\ q = [by |-> by, w |-> w, version |-> rec[w].version, max |-> rec[w].max,
                     health |-> Nothing, accounts |-> Nothing]
      BY DEF RefreshAll, Refresh
    <2> QED
      BY <2>1
  <1> QED
    BY <1>2, <1>3, <1>4

\* Requests that go on.
LEMMA AnsweredType ==
    ASSUME TypeInv, NEW q \in requests, HealthAnswered(q) \/ AccountsAnswered(q)
    PROVE  TypeInv'
  <1>1. q \in RefreshRequest /\ cond[q.w] \in Condition
    <2>1. q \in RefreshRequest
      BY DEF TypeInv, TypeOK
    <2> QED
      BY <2>1 DEF TypeInv, TypeOK, RefreshRequest, HealthAnswered, AccountsAnswered
  <1>2. CASE HealthAnswered(q)
    <2> DEFINE p == [q EXCEPT !.health = cond[q.w]]
    <2>1. p \in RefreshRequest /\ p.health = cond[q.w] /\ p.health # Nothing
      BY <1>1, ConditionType DEF RefreshRequest
    <2>2. requests' = (requests \ {q}) \cup {p} /\ UNCHANGED <<cond, rec, events, selecting, pref, last, seen>>
      BY <1>2 DEF HealthAnswered
    <2> HIDE DEF p
    <2> QED
      BY <2>1, <2>2 DEF TypeInv, TypeOK, HealthFirst
  <1>3. CASE AccountsAnswered(q)
    <2> DEFINE p == [q EXCEPT !.accounts = cond[q.w]]
    <2>1. p \in RefreshRequest /\ p.health = q.health /\ p.health # Nothing
      BY <1>1, <1>3 DEF RefreshRequest, AccountsAnswered
    <2>2. requests' = (requests \ {q}) \cup {p} /\ UNCHANGED <<cond, rec, events, selecting, pref, last, seen>>
      BY <1>3 DEF AccountsAnswered
    <2> HIDE DEF p
    <2> QED
      BY <2>1, <2>2 DEF TypeInv, TypeOK, HealthFirst
  <1> QED
    BY <1>2, <1>3

\* What a status write does to the record of a worker.
LEMMA StoredRecord ==
    ASSUME TypeOK, NEW q \in requests, NEW status, Store(q, status)
    PROVE  /\ q.w \in Workers /\ requests' = requests \ {q}
           /\ rec' \in [Workers -> {rec'[w] : w \in Workers}]
           /\ \A w \in Workers \ {q.w} : rec'[w] = rec[w]
           /\ rec[q.w].version # q.version => rec' = rec
           /\ rec[q.w].version = q.version =>
                  /\ rec[q.w] # Absent
                  /\ rec'[q.w] = [version |-> rec[q.w].version, enabled |-> rec[q.w].enabled,
                                  weight |-> rec[q.w].weight, max |-> rec[q.w].max,
                                  measured |-> TRUE, status |-> status]
  <1>1. q \in RefreshRequest /\ rec \in [Workers -> Record]
    BY DEF TypeOK
  <1>2. q.w \in Workers /\ q.version \in Nat
    BY <1>1 DEF RefreshRequest
  <1>3. CASE rec[q.w].version # q.version
    BY <1>1, <1>2, <1>3 DEF Store
  <1>4. CASE rec[q.w].version = q.version
    <2> DEFINE old == rec[q.w]
    <2>1. old # Absent
      BY <1>2, <1>4 DEF Absent
    <2>2. old = [version |-> old.version, enabled |-> old.enabled, weight |-> old.weight,
                 max |-> old.max, measured |-> old.measured, status |-> old.status]
      BY <1>2, <2>1, RecordType
    <2>3. rec' = [rec EXCEPT ![q.w].status = status, ![q.w].measured = TRUE]
      BY <1>4 DEF Store
    <2>4. rec'[q.w] = [[old EXCEPT !.status = status] EXCEPT !.measured = TRUE]
      BY <1>1, <1>2, <2>3
    <2>5. rec'[q.w] = [version |-> old.version, enabled |-> old.enabled,
                       weight |-> old.weight, max |-> old.max,
                       measured |-> TRUE, status |-> status]
      BY <2>2, <2>4
    <2>6. DOMAIN rec' = Workers /\ \A w \in Workers \ {q.w} : rec'[w] = rec[w]
      BY <1>1, <1>2, <2>3
    <2>7. rec' = [w \in Workers |-> rec'[w]]
      BY <1>1, <2>3
    <2> HIDE DEF old
    <2> QED
      BY <1>2, <1>4, <2>1, <2>5, <2>6, <2>7 DEF Store, old
  <1> QED
    BY <1>3, <1>4

LEMMA StoreType ==
    ASSUME TypeInv, NEW q \in requests, NEW status \in Status, Store(q, status),
           UNCHANGED <<cond, events, selecting, pref, last>>,
           seen' \in [slots : SUBSET Workers, room : SUBSET Workers, lacked : SUBSET Workers,
                      disturbed : SUBSET Workers]
    PROVE  TypeInv'
  <1>1. TypeOK
    BY DEF TypeInv
  <1>2. rec' \in [Workers -> Record]
    <2>1. ASSUME NEW w \in Workers PROVE rec'[w] \in Record
      <3>1. CASE w = q.w /\ rec[q.w].version = q.version
        <4>1. rec'[w] = [version |-> rec[w].version, enabled |-> rec[w].enabled,
                         weight |-> rec[w].weight, max |-> rec[w].max,
                         measured |-> TRUE, status |-> status]
              /\ rec[w] # Absent
          BY <1>1, <3>1, StoredRecord
        <4> QED
          BY <1>1, <4>1, RecordType DEF Record
      <3>2. CASE ~(w = q.w /\ rec[q.w].version = q.version)
        <4>1. rec'[w] = rec[w]
          BY <1>1, <3>2, StoredRecord
        <4> QED
          BY <1>1, <4>1 DEF TypeOK
      <3> QED
        BY <3>1, <3>2
    <2>2. rec' \in [Workers -> {rec'[w] : w \in Workers}]
      BY <1>1, StoredRecord
    <2> QED
      BY <2>1, <2>2
  <1>3. requests' \subseteq requests
    BY DEF Store
  <1> QED
    BY <1>2, <1>3 DEF TypeInv, TypeOK, HealthFirst

LEMMA RefreshEndsType ==
    ASSUME TypeInv, NEW q \in requests, Refreshed(q) \/ RefreshFailed(q)
    PROVE  TypeInv'
  <1>1. q \in RefreshRequest
    BY DEF TypeInv, TypeOK
  <1>2. CASE Refreshed(q)
    <2>1. q.health \in Condition /\ q.accounts \in Condition /\ q.max \in Nat
      BY <1>1, <1>2 DEF Refreshed, TypeInv, HealthFirst, RefreshRequest
    <2>2. Measured(q.health, q.accounts, q.max) \in Status
      BY <2>1, MeasuredType
    <2> QED
      BY <1>2, <2>2, StoreType DEF Refreshed, TypeInv, TypeOK
  <1>3. CASE RefreshFailed(q)
    <2>1. Offline \in Status
      BY DEF Status
    <2>2. seen' \in [slots : SUBSET Workers, room : SUBSET Workers, lacked : SUBSET Workers,
                     disturbed : SUBSET Workers]
      BY <1>1, <1>3 DEF RefreshFailed, TypeInv, TypeOK, RefreshRequest
    <2> QED
      BY <1>3, <2>1, <2>2, StoreType DEF RefreshFailed
  <1> QED
    BY <1>2, <1>3

\* A candidate that no other one beats is found, so select_worker returns a worker
\* with capacity whenever there is one.
LEMMA ChoiceHasCapacity ==
    ASSUME TypeOK
    PROVE  /\ Choice \in Workers \cup {NoWorker}
           /\ Choice \in Workers => HasCapacity(Choice)
           /\ Choice = NoWorker => \A w \in Workers : ~HasCapacity(w)
  <1> DEFINE Beats(w, v) == Score(v) < Score(w) \/ (Score(v) = Score(w) /\ w <= v)
             Among(n) == {v \in Candidates : v <= n}
             HasBest(n) == Among(n) # {} => \E w \in Among(n) : \A v \in Among(n) : Beats(w, v)
             Wrong == {n \in Nat : ~HasBest(n)}
  <1>1. ASSUME NEW w \in Candidates PROVE Score(w) \in Int /\ w \in Nat /\ w <= NumWorkers
    <2>1. w \in Workers /\ rec[w] # Absent /\ rec[w].status.online
      BY DEF Candidates, HasCapacity
    <2> DEFINE s == rec[w].status
    <2>2. rec[w].weight \in Nat /\ s \in Status
      BY <2>1, RecordType
    <2>3. s \in [online : {TRUE}, slots : Nat, max : Nat, active : Nat, queued : Nat,
                 cpu : Nat, ram : Nat, score : 0 .. 100]
      <3>1. s.online
        BY <2>1
      <3>2. ~NoStatus.online /\ ~Offline.online
        BY DEF NoStatus, Offline
      <3>3. s # NoStatus /\ s # Offline
        BY <3>1, <3>2
      <3> HIDE DEF s
      <3> QED
        BY <2>2, <3>3 DEF Status
    <2>4. /\ s.slots \in Nat /\ s.max \in Nat /\ s.active \in Nat /\ s.queued \in Nat
          /\ s.cpu \in Nat /\ s.ram \in Nat /\ s.score \in Nat
      <3> HIDE DEF s
      <3> QED
        BY <2>3
    <2>5. Merit(w) = 4 * s.score + 50 * CapacityRemaining(s) + 2 * rec[w].weight
                         - 3 * s.cpu - s.ram - 16 * s.queued - 10 * s.active
      BY DEF Merit
    <2> HIDE DEF s
    <2>6. CapacityRemaining(s) \in Nat
      BY <2>4 DEF CapacityRemaining, Positive
    <2>7. Merit(w) \in Int
      BY <2>2, <2>4, <2>5, <2>6
    <2> QED
      BY <2>1, <2>7 DEF Score, Workers
  <1>2. ASSUME NEW n \in Wrong, \A m \in Wrong : n <= m PROVE FALSE
    <2>1. n # 0
      <3>1. Among(0) = {}
        BY <1>1 DEF Candidates, Workers
      <3> QED
        BY <3>1
    <2>2. HasBest(n - 1)
      BY <1>2, <2>1
    <2>3. CASE n \notin Candidates
      <3>1. Among(n) = Among(n - 1)
        BY <1>1, <2>3
      <3> HIDE DEF Among, Beats
      <3> QED
        BY <2>2, <3>1
    <2>4. CASE n \in Candidates
      <3>1. Among(n) = Among(n - 1) \cup {n}
        <4>1. \A v \in Candidates : v \in Nat /\ (v <= n <=> v <= n - 1 \/ v = n)
          BY <1>1
        <4> QED
          BY <2>4, <4>1
      <3>2. Beats(n, n)
        BY <1>1, <2>4
      <3>3. CASE Among(n - 1) = {}
        <4> HIDE DEF Among, Beats
        <4> QED
          BY <3>1, <3>2, <3>3
      <3>4. CASE Among(n - 1) # {}
        <4>1. PICK w \in Among(n - 1) : \A v \in Among(n - 1) : Beats(w, v)
          BY <2>2, <3>4
        <4>2. w \in Candidates /\ Score(w) \in Int /\ Score(n) \in Int /\ w < n /\ w \in Nat
          BY <1>1, <2>4
        <4>3. CASE Beats(w, n)
          <5> HIDE DEF Among, Beats
          <5> QED
            BY <3>1, <4>1, <4>3
        <4>4. CASE ~Beats(w, n)
          <5>1. Score(w) < Score(n)
            BY <4>2, <4>4
          <5>2. ASSUME NEW v \in Among(n - 1) PROVE Beats(n, v)
            <6>1. Beats(w, v) /\ Score(v) \in Int
              BY <1>1, <4>1
            <6> QED
              BY <4>2, <5>1, <6>1
          <5> HIDE DEF Among, Beats
          <5> QED
            BY <3>1, <3>2, <5>2
        <4> QED
          BY <4>3, <4>4
      <3> QED
        BY <3>3, <3>4
    <2> QED
      BY <2>3, <2>4
  <1>3. Wrong = {}
    <2> HIDE DEF HasBest
    <2>1. Wrong \in SUBSET Nat
      OBVIOUS
    <2> HIDE DEF Wrong
    <2> QED
      BY <1>2, <2>1, LeastNumber
  <1>4. Among(NumWorkers) = Candidates
    BY <1>1
  <1>5. Candidates # {} => \E w \in Candidates : \A v \in Candidates : Beats(w, v)
    BY <1>3, <1>4
  <1>6. pref \in Workers \cup {NoWorker} /\ NoWorker \notin Workers
    BY DEF TypeOK, Workers, NoWorker
  <1>7. CASE pref # NoWorker /\ HasCapacity(pref)
    BY <1>6, <1>7 DEF Choice
  <1>8. CASE ~(pref # NoWorker /\ HasCapacity(pref)) /\ Candidates = {}
    BY <1>6, <1>8 DEF Choice, Candidates
  <1>9. CASE ~(pref # NoWorker /\ HasCapacity(pref)) /\ Candidates # {}
    <2>1. Choice \in Candidates
      BY <1>5, <1>9 DEF Choice
    <2> QED
      BY <1>6, <2>1 DEF Candidates
  <1> QED
    BY <1>7, <1>8, <1>9

LEMMA RegisterType ==
    ASSUME TypeInv, NEW w \in Workers, NEW r \in Registrations, NEW saved \in BOOLEAN,
           Register(w, r, saved)
    PROVE  TypeInv'
  <1> DEFINE status == IF rec[w] = Absent THEN NoStatus ELSE rec[w].status
             new == [version |-> events + 1, enabled |-> r.enabled, weight |-> r.weight,
                     max |-> r.max, measured |-> FALSE, status |-> status]
             refresh == [by |-> "admin", w |-> w, version |-> events + 1, max |-> r.max,
                         health |-> Nothing, accounts |-> Nothing]
  <1>1. TypeOK /\ events + 1 \in Nat /\ events + 1 \in 0 .. MaxEvents
    BY DEF TypeInv, TypeOK, Register
  <1>2. status \in Status
    BY <1>1, RecordType DEF Status
  <1>3. r.enabled \in BOOLEAN /\ r.weight \in Nat /\ r.max \in Nat \ {0}
    BY DEF Registration
  <1>4. new \in Record
    <2> HIDE DEF status
    <2> QED
      BY <1>1, <1>2, <1>3 DEF Record
  <1>5. rec' = [rec EXCEPT ![w] = new]
    BY DEF Register
  <1>6. refresh \in RefreshRequest /\ refresh.accounts = Nothing
    BY <1>1, <1>3 DEF RefreshRequest
  <1>7. requests' \subseteq requests \cup {refresh}
    BY DEF Register, Refresh
  <1> HIDE DEF new, refresh
  <1>8. rec' \in [Workers -> Record]
    BY <1>4, <1>5 DEF TypeInv, TypeOK
  <1>9. seen' \in [slots : SUBSET Workers, room : SUBSET Workers, lacked : SUBSET Workers,
                   disturbed : SUBSET Workers]
    BY DEF TypeInv, TypeOK, Register, Disturb
  <1>10. events' \in 0 .. MaxEvents /\ UNCHANGED <<cond, selecting, pref, last>>
    BY <1>1 DEF Register
  <1> QED
    BY <1>6, <1>7, <1>8, <1>9, <1>10 DEF TypeInv, TypeOK, HealthFirst

LEMMA TypeInvInit == Init => TypeInv
  <1> SUFFICES ASSUME Init PROVE TypeInv
    OBVIOUS
  <1>1. PICK r \in Registrations, ws \in SUBSET Workers :
           rec = [w \in Workers |->
                     IF w \in ws
                     THEN [version |-> 0, enabled |-> r.enabled, weight |-> r.weight,
                           max |-> r.max, measured |-> FALSE, status |-> NoStatus]
                     ELSE Absent]
    BY DEF Init
  <1>2. r.enabled \in BOOLEAN /\ r.weight \in Nat /\ r.max \in Nat \ {0}
    BY DEF Registration
  <1>3. [version |-> 0, enabled |-> r.enabled, weight |-> r.weight, max |-> r.max,
         measured |-> FALSE, status |-> NoStatus] \in Record
    BY <1>2 DEF Record, Status
  <1>4. rec \in [Workers -> Record]
    BY <1>1, <1>3 DEF Record
  <1>5. cond \in [Workers -> Condition \cup {Down}]
    BY ConditionType DEF Init
  <1>6. /\ requests = {} /\ events = 0 /\ selecting = FALSE
        /\ pref = NoWorker /\ last = NoWorker /\ seen = Unseen
    BY DEF Init
  <1>7. Unseen \in [slots : SUBSET Workers, room : SUBSET Workers, lacked : SUBSET Workers,
                    disturbed : SUBSET Workers]
    BY DEF Unseen
  <1> QED
    <2>1. TypeOK
      <3>1. 0 \in 0 .. MaxEvents
        OBVIOUS
      <3>2. seen \in [slots : SUBSET Workers, room : SUBSET Workers, lacked : SUBSET Workers,
                      disturbed : SUBSET Workers]
        BY <1>6, <1>7
      <3> QED
        BY <1>4, <1>5, <1>6, <3>1, <3>2, Zenon DEF TypeOK
    <2> QED
      BY <1>6, <2>1 DEF TypeInv, HealthFirst

LEMMA TypeInvStep == TypeInv /\ [Next]_capacityVars => TypeInv'
  <1> SUFFICES ASSUME TypeInv, [Next]_capacityVars PROVE TypeInv'
    OBVIOUS
  <1> USE DEF TypeInv
  <1>1. ASSUME NEW p \in Preferences, Select(p) PROVE TypeInv'
    <2>1. p \in Workers \cup {NoWorker} /\ {q.w : q \in requests} \subseteq Workers
      BY DEF TypeOK, RefreshRequest
    <2>2. requests' = requests \cup RefreshAll("scheduler")
      BY <1>1 DEF Select
    <2>3. seen' \in [slots : SUBSET Workers, room : SUBSET Workers, lacked : SUBSET Workers,
                     disturbed : SUBSET Workers]
      BY <1>1, <2>1 DEF Select
    <2>4. UNCHANGED <<cond, rec, events, last>> /\ selecting' = TRUE /\ pref' = p
      BY <1>1 DEF Select
    <2> QED
      BY <2>1, <2>2, <2>3, <2>4, RefreshAllType DEF TypeOK, HealthFirst
  <1>2. CASE Choose
    BY <1>2, ChoiceHasCapacity DEF Choose, TypeOK, HealthFirst, Unseen
  <1>3. ASSUME NEW q \in requests, RefreshStep(q) PROVE TypeInv'
    BY <1>3, AnsweredType, RefreshEndsType DEF RefreshStep
  <1>4. CASE Look
    <2>1. {q.w : q \in RefreshAll("viewer")} \subseteq Workers
      BY RefreshAllType
    <2>2. requests' = requests \cup RefreshAll("viewer")
      BY <1>4 DEF Look
    <2>3. seen' \in [slots : SUBSET Workers, room : SUBSET Workers, lacked : SUBSET Workers,
                     disturbed : SUBSET Workers]
      BY <1>4, <2>1 DEF Look, Disturb, TypeOK
    <2>4. UNCHANGED <<cond, rec, selecting, pref, last>> /\ events' \in 0 .. MaxEvents
      BY <1>4 DEF Look, TypeOK
    <2> QED
      BY <2>2, <2>3, <2>4, RefreshAllType DEF TypeOK, HealthFirst
  <1>5. ASSUME NEW w \in Workers, Unregister(w) PROVE TypeInv'
    <2>1. rec' \in [Workers -> Record]
      BY <1>5 DEF Unregister, TypeOK, Record
    <2>2. seen' \in [slots : SUBSET Workers, room : SUBSET Workers, lacked : SUBSET Workers,
                     disturbed : SUBSET Workers]
      BY <1>5 DEF Unregister, Disturb, TypeOK
    <2>3. UNCHANGED <<cond, requests, selecting, pref, last>> /\ events' \in 0 .. MaxEvents
      BY <1>5 DEF Unregister, TypeOK
    <2> QED
      BY <2>1, <2>2, <2>3 DEF TypeOK, HealthFirst
  <1>6. CASE AdminStep
    BY <1>5, <1>6, RegisterType DEF AdminStep
  <1>7. ASSUME NEW w \in Workers, NEW c \in Conditions \cup {Down}, Work(w, c)
        PROVE  TypeInv'
    <2>1. cond' \in [Workers -> Condition \cup {Down}]
      BY <1>7, ConditionType DEF Work, TypeOK
    <2>2. seen' \in [slots : SUBSET Workers, room : SUBSET Workers, lacked : SUBSET Workers,
                     disturbed : SUBSET Workers]
      BY <1>7 DEF Work, Observe, TypeOK
    <2>3. UNCHANGED <<rec, requests, selecting, pref, last>> /\ events' \in 0 .. MaxEvents
      BY <1>7 DEF Work, TypeOK
    <2> QED
      BY <2>1, <2>2, <2>3 DEF TypeOK, HealthFirst
  <1>8. CASE UNCHANGED capacityVars
    BY <1>8 DEF capacityVars, TypeOK, HealthFirst
  <1> QED
    BY <1>1, <1>2, <1>3, <1>4, <1>6, <1>7, <1>8 DEF Next

-----------------------------------------------------------------------------
(* Job limits.                                                             *)

\* The registry's records and the refreshes are what their constructors make.
RecordsOK ==
    /\ DOMAIN rec = Workers
    /\ rec = [w \in Workers |-> rec[w]]
    /\ \A w \in Workers :
          \/ rec[w] = Absent
          \/ /\ rec[w] = [version |-> rec[w].version, enabled |-> rec[w].enabled,
                          weight |-> rec[w].weight, max |-> rec[w].max,
                          measured |-> rec[w].measured, status |-> rec[w].status]
             /\ rec[w].version \in Nat

RefreshesOK ==
    \A q \in requests :
        /\ q = [by |-> q.by, w |-> q.w, version |-> q.version, max |-> q.max,
                health |-> q.health, accounts |-> q.accounts]
        /\ q.w \in Workers
        /\ q.version \in Nat

\* Versions are not given twice, so a refresh of the record that is in the
\* registry was begun with its job limit.
VersionsOK ==
    /\ events \in Nat
    /\ \A w \in Workers : rec[w].version <= events
    /\ \A q \in requests :
          /\ q.version <= events
          /\ rec[q.w].version = q.version => q.max = rec[q.w].max

LimitInv == RecordsOK /\ RefreshesOK /\ VersionsOK /\ LimitIsCurrent

\* A step that leaves the records alone and begins, or goes on with, refreshes
\* of records that are in the registry.
LEMMA RequestsKeep ==
    ASSUME LimitInv, rec' = rec, events' \in Nat, events <= events',
           \A q \in requests' \ requests :
               /\ q = [by |-> q.by, w |-> q.w, version |-> q.version, max |-> q.max,
                       health |-> q.health, accounts |-> q.accounts]
               /\ q.w \in Workers /\ q.version \in Nat /\ q.version <= events
               /\ rec[q.w].version = q.version => q.max = rec[q.w].max
    PROVE  LimitInv'
  <1> USE DEF LimitInv
  <1>1. RecordsOK' /\ LimitIsCurrent'
    BY DEF RecordsOK, LimitIsCurrent
  <1>2. RefreshesOK'
    BY DEF RefreshesOK
  <1>3. VersionsOK'
    <2>1. \A w \in Workers : rec[w].version \in Int
      BY DEF RecordsOK, Absent
    <2>2. \A q \in requests' : q.version \in Nat /\ q.version <= events
      BY DEF RefreshesOK, VersionsOK
    <2> QED
      BY <2>1, <2>2 DEF VersionsOK
  <1> QED
    BY <1>1, <1>2, <1>3

\* What refresh_all begins.
LEMMA RefreshAllKeeps ==
    ASSUME LimitInv, NEW by, rec' = rec, events' \in Nat, events <= events',
           requests' = requests \cup RefreshAll(by)
    PROVE  LimitInv'
  <1>1. ASSUME NEW q \in RefreshAll(by)
        PROVE  /\ q = [by |-> q.by, w |-> q.w, version |-> q.version, max |-> q.max,
                       health |-> q.health, accounts |-> q.accounts]
               /\ q.w \in Workers /\ q.version \in Nat /\ q.version <= events
               /\ rec[q.w].version = q.version => q.max = rec[q.w].max
    <2>1. PICK w \in Workers :
             /\ rec[w] # Absent
             /\ q = [by |-> by, w |-> w, version |-> rec[w].version, max |-> rec[w].max,
                     health |-> Nothing, accounts |-> Nothing]
      BY DEF RefreshAll, Refresh
    <2>2. rec[w].version \in Nat /\ rec[w].version <= events
      BY <2>1 DEF LimitInv, RecordsOK, VersionsOK
    <2> QED
      BY <2>1, <2>2
  <1> QED
    BY <1>1, RequestsKeep

\* A request goes on.
LEMMA AnsweredKeeps ==
    ASSUME LimitInv, NEW q \in requests, HealthAnswered(q) \/ AccountsAnswered(q)
    PROVE  LimitInv'
  <1>1. /\ q = [by |-> q.by, w |-> q.w, version |-> q.version, max |-> q.max,
                health |-> q.health, accounts |-> q.accounts]
        /\ q.w \in Workers /\ q.version \in Nat /\ q.version <= events
        /\ rec[q.w].version = q.version => q.max = rec[q.w].max
    BY DEF LimitInv, RefreshesOK, VersionsOK
  <1>2. PICK h, a :
           requests' = (requests \ {q})
               \cup {[by |-> q.by, w |-> q.w, version |-> q.version, max |-> q.max,
                      health |-> h, accounts |-> a]}
    <2>1. CASE HealthAnswered(q)
      <3>1. [q EXCEPT !.health = cond[q.w]]
                = [by |-> q.by, w |-> q.w, version |-> q.version, max |-> q.max,
                   health |-> cond[q.w], accounts |-> q.accounts]
        BY <1>1
      <3> QED
        BY <2>1, <3>1 DEF HealthAnswered
    <2>2. CASE AccountsAnswered(q)
      <3>1. [q EXCEPT !.accounts = cond[q.w]]
                = [by |-> q.by, w |-> q.w, version |-> q.version, max |-> q.max,
                   health |-> q.health, accounts |-> cond[q.w]]
        BY <1>1
      <3> QED
        BY <2>2, <3>1 DEF AccountsAnswered
    <2> QED
      BY <2>1, <2>2
  <1>3. rec' = rec /\ events' = events
    BY DEF HealthAnswered, AccountsAnswered
  <1>4. events \in Nat
    BY DEF LimitInv, VersionsOK
  <1> QED
    BY <1>1, <1>2, <1>3, <1>4, RequestsKeep

\* A status is written to the record its refresh was begun with.
LEMMA StoreKeeps ==
    ASSUME LimitInv, NEW q \in requests, NEW status, Store(q, status), events' = events,
           status.online => status.max = q.max
    PROVE  LimitInv'
  <1> USE DEF LimitInv
  <1>1. q.w \in Workers /\ q.version \in Nat /\ requests' = requests \ {q}
    BY DEF RefreshesOK, Store
  <1>2. CASE rec[q.w].version # q.version
    <2>1. rec' = rec
      BY <1>2 DEF Store
    <2> QED
      BY <1>1, <2>1, RequestsKeep DEF VersionsOK
  <1>3. CASE rec[q.w].version = q.version
    <2> DEFINE old == rec[q.w]
    <2> DEFINE new == [version |-> old.version, enabled |-> old.enabled, weight |-> old.weight,
                       max |-> old.max, measured |-> TRUE, status |-> status]
    <2>1. old # Absent
      BY <1>1, <1>3 DEF Absent
    <2>2. old = [version |-> old.version, enabled |-> old.enabled, weight |-> old.weight,
                 max |-> old.max, measured |-> old.measured, status |-> old.status]
      BY <1>1, <2>1 DEF RecordsOK
    <2>3. rec' = [rec EXCEPT ![q.w].status = status, ![q.w].measured = TRUE]
      BY <1>3 DEF Store
    <2>4. rec'[q.w] = [[old EXCEPT !.status = status] EXCEPT !.measured = TRUE]
      BY <1>1, <2>3 DEF RecordsOK
    <2>5. rec'[q.w] = new
      BY <2>2, <2>4
    <2>6. \A w \in Workers \ {q.w} : rec'[w] = rec[w]
      BY <1>1, <2>3 DEF RecordsOK
    <2>7. DOMAIN rec' = Workers /\ rec' = [w \in Workers |-> rec'[w]]
      BY <2>3 DEF RecordsOK
    <2>8. /\ new.version = old.version /\ new.max = old.max /\ new.status = status
          /\ new = [version |-> new.version, enabled |-> new.enabled, weight |-> new.weight,
                    max |-> new.max, measured |-> new.measured, status |-> new.status]
      OBVIOUS
    <2>9. q.max = old.max /\ old.version \in Nat
      BY <1>1, <1>3 DEF VersionsOK
    <2> HIDE DEF old, new
    <2>10. \A w \in Workers : rec'[w].version = rec[w].version /\ rec'[w].max = rec[w].max
      BY <2>5, <2>6, <2>8 DEF old
    <2>11. RecordsOK'
      BY <2>5, <2>6, <2>7, <2>8, <2>9 DEF RecordsOK
    <2>12. RefreshesOK'
      BY <1>1 DEF RefreshesOK
    <2>13. VersionsOK'
      BY <1>1, <2>10 DEF VersionsOK, RefreshesOK
    <2>14. LimitIsCurrent'
      BY <2>5, <2>6, <2>8, <2>9 DEF LimitIsCurrent
    <2> QED
      BY <2>11, <2>12, <2>13, <2>14
  <1> QED
    BY <1>2, <1>3

LEMMA RefreshEndsKeeps ==
    ASSUME LimitInv, NEW q \in requests, Refreshed(q) \/ RefreshFailed(q)
    PROVE  LimitInv'
  <1>1. CASE Refreshed(q)
    <2>1. Measured(q.health, q.accounts, q.max).max = q.max
      BY DEF Measured
    <2> QED
      BY <1>1, <2>1, StoreKeeps DEF Refreshed
  <1>2. CASE RefreshFailed(q)
    <2>1. ~Offline.online
      BY DEF Offline
    <2> QED
      BY <1>2, <2>1, StoreKeeps DEF RefreshFailed
  <1> QED
    BY <1>1, <1>2

LEMMA RegisterKeeps ==
    ASSUME LimitInv, NEW w \in Workers, NEW r \in Registrations, NEW saved \in BOOLEAN,
           Register(w, r, saved)
    PROVE  LimitInv'
  <1> USE DEF LimitInv
  <1> DEFINE status == IF rec[w] = Absent THEN NoStatus ELSE rec[w].status
  <1> DEFINE new == [version |-> events + 1, enabled |-> r.enabled, weight |-> r.weight,
                     max |-> r.max, measured |-> FALSE, status |-> status]
  <1> DEFINE refresh == [by |-> "admin", w |-> w, version |-> events + 1, max |-> r.max,
                         health |-> Nothing, accounts |-> Nothing]
  <1>1. rec' = [rec EXCEPT ![w] = new] /\ events' = events + 1 /\ events \in Nat
    BY DEF Register, VersionsOK
  <1>2. requests' \subseteq requests \cup {refresh}
    BY DEF Register, Refresh
  <1>3. rec'[w] = new /\ \A v \in Workers \ {w} : rec'[v] = rec[v]
    BY <1>1 DEF RecordsOK
  <1>4. DOMAIN rec' = Workers /\ rec' = [v \in Workers |-> rec'[v]]
    BY <1>1 DEF RecordsOK
  <1> HIDE DEF status
  <1>5. /\ new.version = events + 1 /\ new.max = r.max /\ new.measured = FALSE
        /\ new = [version |-> new.version, enabled |-> new.enabled, weight |-> new.weight,
                  max |-> new.max, measured |-> new.measured, status |-> new.status]
    OBVIOUS
  <1>6. /\ refresh.w = w /\ refresh.version = events + 1 /\ refresh.max = r.max
        /\ refresh = [by |-> refresh.by, w |-> refresh.w, version |-> refresh.version,
                      max |-> refresh.max, health |-> refresh.health,
                      accounts |-> refresh.accounts]
    OBVIOUS
  <1> HIDE DEF new, refresh
  <1>7. RecordsOK'
    BY <1>1, <1>3, <1>4, <1>5 DEF RecordsOK
  <1>8. RefreshesOK'
    BY <1>1, <1>2, <1>6 DEF RefreshesOK
  <1>9. VersionsOK'
    <2>1. \A v \in Workers : rec[v].version \in Int /\ rec[v].version <= events
      BY DEF RecordsOK, VersionsOK, Absent
    <2>2. \A v \in Workers : rec'[v].version <= events + 1
      BY <1>1, <1>3, <1>5, <2>1
    <2>3. ASSUME NEW q \in requests'
          PROVE  /\ q.version <= events + 1
                 /\ rec'[q.w].version = q.version => q.max = rec'[q.w].max
      <3>1. CASE q = refresh
        BY <1>1, <1>3, <1>5, <1>6, <3>1
      <3>2. CASE q \in requests
        <4>1. q.w \in Workers /\ q.version \in Nat /\ q.version <= events
          BY <3>2 DEF RefreshesOK, VersionsOK
        <4>2. CASE q.w = w
          BY <1>1, <1>3, <1>5, <4>1, <4>2
        <4>3. CASE q.w # w
          BY <1>1, <1>3, <3>2, <4>1, <4>3 DEF VersionsOK
        <4> QED
          BY <4>2, <4>3
      <3> QED
        BY <1>2, <3>1, <3>2
    <2> QED
      BY <1>1, <2>2, <2>3 DEF VersionsOK
  <1>10. LimitIsCurrent'
    BY <1>3, <1>5 DEF LimitIsCurrent
  <1> QED
    BY <1>7, <1>8, <1>9, <1>10

LEMMA UnregisterKeeps ==
    ASSUME LimitInv, NEW w \in Workers, Unregister(w)
    PROVE  LimitInv'
  <1> USE DEF LimitInv
  <1>1. /\ rec' = [rec EXCEPT ![w] = Absent] /\ events' = events + 1 /\ events \in Nat
        /\ requests' = requests
    BY DEF Unregister, VersionsOK
  <1>2. rec'[w] = Absent /\ \A v \in Workers \ {w} : rec'[v] = rec[v]
    BY <1>1 DEF RecordsOK
  <1>3. Absent.version = -1
    BY DEF Absent
  <1>4. RecordsOK'
    BY <1>1, <1>2 DEF RecordsOK
  <1>5. RefreshesOK'
    BY <1>1 DEF RefreshesOK
  <1>6. VersionsOK'
    <2>1. \A v \in Workers : rec[v].version \in Int /\ rec[v].version <= events
      BY DEF RecordsOK, VersionsOK, Absent
    <2>2. \A v \in Workers : rec'[v].version <= events + 1
      BY <1>1, <1>2, <1>3, <2>1
    <2>3. ASSUME NEW q \in requests
          PROVE  /\ q.version <= events + 1
                 /\ rec'[q.w].version = q.version => q.max = rec'[q.w].max
      <3>1. q.w \in Workers /\ q.version \in Nat /\ q.version <= events
        BY DEF RefreshesOK, VersionsOK
      <3>2. CASE q.w = w
        BY <1>1, <1>2, <1>3, <3>1, <3>2
      <3>3. CASE q.w # w
        BY <1>1, <1>2, <3>1, <3>3 DEF VersionsOK
      <3> QED
        BY <3>2, <3>3
    <2> QED
      BY <1>1, <2>2, <2>3 DEF VersionsOK
  <1>7. LimitIsCurrent'
    BY <1>2 DEF LimitIsCurrent
  <1> QED
    BY <1>4, <1>5, <1>6, <1>7

LEMMA LimitInvInit == Init => LimitInv
  <1> SUFFICES ASSUME Init PROVE LimitInv
    OBVIOUS
  <1>1. PICK r \in Registrations, ws \in SUBSET Workers :
           rec = [w \in Workers |->
                     IF w \in ws
                     THEN [version |-> 0, enabled |-> r.enabled, weight |-> r.weight,
                           max |-> r.max, measured |-> FALSE, status |-> NoStatus]
                     ELSE Absent]
    BY DEF Init
  <1>2. DOMAIN rec = Workers /\ rec = [w \in Workers |-> rec[w]]
    BY <1>1
  <1>3. \A w \in Workers :
           \/ rec[w] = Absent
           \/ rec[w] = [version |-> 0, enabled |-> r.enabled, weight |-> r.weight,
                        max |-> r.max, measured |-> FALSE, status |-> NoStatus]
    BY <1>1
  <1>4. RecordsOK
    BY <1>2, <1>3 DEF RecordsOK
  <1>5. RefreshesOK /\ VersionsOK
    BY <1>3 DEF Init, RefreshesOK, VersionsOK, Absent
  <1>6. LimitIsCurrent
    BY <1>3 DEF LimitIsCurrent
  <1> QED
    BY <1>4, <1>5, <1>6 DEF LimitInv

LEMMA LimitInvStep == LimitInv /\ [Next]_capacityVars => LimitInv'
  <1> SUFFICES ASSUME LimitInv, [Next]_capacityVars PROVE LimitInv'
    OBVIOUS
  <1>1. events \in Nat
    BY DEF LimitInv, VersionsOK
  <1>2. ASSUME NEW p \in Preferences, Select(p) PROVE LimitInv'
    BY <1>1, <1>2, RefreshAllKeeps DEF Select
  <1>3. CASE Choose
    BY <1>1, <1>3, RequestsKeep DEF Choose
  <1>4. ASSUME NEW q \in requests, RefreshStep(q) PROVE LimitInv'
    BY <1>4, AnsweredKeeps, RefreshEndsKeeps DEF RefreshStep
  <1>5. CASE Look
    BY <1>1, <1>5, RefreshAllKeeps DEF Look
  <1>6. CASE AdminStep
    BY <1>6, RegisterKeeps, UnregisterKeeps DEF AdminStep
  <1>7. ASSUME NEW w \in Workers, NEW c \in Conditions \cup {Down}, Work(w, c)
        PROVE  LimitInv'
    BY <1>1, <1>7, RequestsKeep DEF Work
  <1>8. CASE UNCHANGED capacityVars
    BY <1>1, <1>8, RequestsKeep DEF capacityVars
  <1> QED
    BY <1>2, <1>3, <1>4, <1>5, <1>6, <1>7, <1>8 DEF Next

-----------------------------------------------------------------------------
(* What the client of a waiting job is told.                               *)

\* The remaining capacity is a number, and positive just if an account is free
\* and the worker runs less jobs than it may.
LEMMA CapacityRemainingType ==
    ASSUME NEW s \in Status, s.online
    PROVE  /\ s.max \in Nat /\ s.active \in Nat /\ s.ram \in Nat /\ s.cpu \in Nat
           /\ CapacityRemaining(s) \in Nat
           /\ CapacityRemaining(s) > 0 <=> s.slots > 0 /\ s.active < s.max
  <1>1. ~NoStatus.online /\ ~Offline.online
    BY DEF NoStatus, Offline
  <1>2. s # NoStatus /\ s # Offline
    BY <1>1
  <1>3. s \in [online : {TRUE}, slots : Nat, max : Nat, active : Nat, queued : Nat,
               cpu : Nat, ram : Nat, score : 0 .. 100]
    BY <1>2 DEF Status
  <1>4. s.slots \in Nat /\ s.max \in Nat /\ s.active \in Nat /\ s.ram \in Nat /\ s.cpu \in Nat
    BY <1>3
  <1> QED
    BY <1>4 DEF CapacityRemaining, Positive

-----------------------------------------------------------------------------
(* A selection.                                                            *)

\* What the history says of a worker that was seen in a condition.
RoomSeen(w, c) == IF HasRoom(w, c) THEN w \in seen.room ELSE w \in seen.lacked

SlotsSeen(w, c) == IF HasSlots(c) THEN w \in seen.slots ELSE w \in seen.lacked

\* A worker that nobody else has refreshed or changed: what its requests have
\* found so far, and what its record says when they have ended, was so during
\* the selection.
Followed(w) ==
    /\ RoomSeen(w, cond[w]) /\ SlotsSeen(w, cond[w])
    /\ \A q \in requests : q.w = w =>
          /\ q.by = "scheduler"
          /\ q.version = rec[w].version
          /\ q.health # Nothing => RoomSeen(w, q.health)
          /\ q.accounts # Nothing => SlotsSeen(w, q.accounts)
    /\ rec[w] # Absent /\ rec[w].enabled /\ (\A q \in requests : q.w # w) =>
          IF HasCapacity(w) THEN w \in seen.slots /\ w \in seen.room ELSE w \in seen.lacked

SelectionInv ==
    /\ ~selecting => \A q \in requests : q.by # "scheduler"
    /\ selecting => \A w \in Workers \ seen.disturbed : Followed(w)

CapacityInv == TypeInv /\ LimitInv /\ SelectionInv

\* A step that leaves worker w, its record and its requests alone.
LEMMA FollowedKeeps ==
    ASSUME NEW w \in Workers, Followed(w), cond'[w] = cond[w], rec'[w] = rec[w],
           \A q : q.w = w => (q \in requests' <=> q \in requests),
           seen.slots \subseteq seen'.slots, seen.room \subseteq seen'.room,
           seen.lacked \subseteq seen'.lacked
    PROVE  Followed(w)'
  <1>1. HasCapacity(w)' <=> HasCapacity(w)
    BY DEF HasCapacity
  <1>2. ASSUME NEW c
        PROVE  /\ RoomSeen(w, c) => RoomSeen(w, c)'
               /\ SlotsSeen(w, c) => SlotsSeen(w, c)'
    BY DEF RoomSeen, SlotsSeen, HasRoom
  <1>3. RoomSeen(w, cond[w])' /\ SlotsSeen(w, cond[w])'
    BY <1>2 DEF Followed, RoomSeen, SlotsSeen, HasRoom
  <1>4. \A q \in requests' : q.w = w =>
            /\ q.by = "scheduler" /\ q.version = rec'[w].version
            /\ q.health # Nothing => RoomSeen(w, q.health)'
            /\ q.accounts # Nothing => SlotsSeen(w, q.accounts)'
    BY <1>2 DEF Followed
  <1>5. rec'[w] # Absent /\ rec'[w].enabled /\ (\A q \in requests' : q.w # w) =>
            IF HasCapacity(w)' THEN w \in seen'.slots /\ w \in seen'.room ELSE w \in seen'.lacked
    <2>1. (\A q \in requests' : q.w # w) => \A q \in requests : q.w # w
      OBVIOUS
    <2> QED
      BY <1>1, <2>1 DEF Followed
  <1> QED
    BY <1>3, <1>4, <1>5 DEF Followed

LEMMA HistoryTypes ==
    ASSUME TypeOK
    PROVE  \A q \in requests : q \in RefreshRequest /\ q.w \in Workers
  BY DEF TypeOK, RefreshRequest

LEMMA SelectKeeps ==
    ASSUME CapacityInv, NEW p \in Preferences, Select(p)
    PROVE  SelectionInv'
  <1>1. TypeOK /\ \A q \in requests : q.w \in Workers
    BY HistoryTypes DEF CapacityInv, TypeInv
  <1>2. /\ UNCHANGED <<cond, rec>> /\ selecting' = TRUE
        /\ requests' = requests \cup RefreshAll("scheduler")
    BY DEF Select
  <1>3. /\ seen'.slots = {w \in Workers : HasSlots(cond[w])}
        /\ seen'.room = {w \in Workers : HasRoom(w, cond[w])}
        /\ seen'.lacked = {w \in Workers : ~(HasSlots(cond[w]) /\ HasRoom(w, cond[w]))}
        /\ seen'.disturbed = {q.w : q \in requests}
    BY DEF Select
  <1>4. ASSUME NEW w \in Workers, w \notin seen'.disturbed
        PROVE  Followed(w)'
    <2>1. \A q \in requests' : q.w = w => q \in RefreshAll("scheduler")
      BY <1>2, <1>3, <1>4
    <2>2. \A q \in requests' : q.w = w =>
              /\ q.by = "scheduler" /\ q.version = rec'[w].version
              /\ q.health = Nothing /\ q.accounts = Nothing
      BY <1>1, <1>2, <2>1, RefreshAllType
    <2>3. rec'[w] # Absent /\ rec'[w].enabled => \E q \in requests' : q.w = w
      BY <1>1, <1>2, RefreshAllType
    <2>4. RoomSeen(w, cond[w])' /\ SlotsSeen(w, cond[w])'
      BY <1>2, <1>3 DEF RoomSeen, SlotsSeen, HasRoom
    <2> QED
      BY <2>2, <2>3, <2>4 DEF Followed
  <1> QED
    BY <1>2, <1>4 DEF SelectionInv

LEMMA ChooseKeeps ==
    ASSUME CapacityInv, Choose
    PROVE  SelectionInv'
  BY DEF CapacityInv, SelectionInv, Choose

LEMMA AnsweredFollowed ==
    ASSUME CapacityInv, NEW q \in requests, HealthAnswered(q) \/ AccountsAnswered(q)
    PROVE  SelectionInv'
  <1>1. q \in RefreshRequest /\ q.w \in Workers
    BY HistoryTypes DEF CapacityInv, TypeInv
  <1>2. UNCHANGED <<cond, rec, selecting, seen>>
    BY DEF HealthAnswered, AccountsAnswered
  <1>3. PICK p : /\ requests' = (requests \ {q}) \cup {p}
                 /\ p.w = q.w /\ p.by = q.by /\ p.version = q.version
                 /\ \/ p.health = cond[q.w] /\ p.accounts = q.accounts
                    \/ p.health = q.health /\ p.accounts = cond[q.w]
    <2>1. CASE HealthAnswered(q)
      <3> DEFINE p == [q EXCEPT !.health = cond[q.w]]
      <3>1. /\ p.w = q.w /\ p.by = q.by /\ p.version = q.version
            /\ p.health = cond[q.w] /\ p.accounts = q.accounts
        BY <1>1 DEF RefreshRequest
      <3> QED
        BY <2>1, <3>1 DEF HealthAnswered
    <2>2. CASE AccountsAnswered(q)
      <3> DEFINE p == [q EXCEPT !.accounts = cond[q.w]]
      <3>1. /\ p.w = q.w /\ p.by = q.by /\ p.version = q.version
            /\ p.health = q.health /\ p.accounts = cond[q.w]
        BY <1>1 DEF RefreshRequest
      <3> QED
        BY <2>2, <3>1 DEF AccountsAnswered
    <2> QED
      BY <2>1, <2>2
  <1>4. ASSUME NEW w \in Workers, Followed(w) PROVE Followed(w)'
    <2>1. CASE w # q.w
      <3>1. \A r : r.w = w => (r \in requests' <=> r \in requests)
        BY <1>3, <2>1
      <3> QED
        BY <1>2, <1>4, <3>1, FollowedKeeps
    <2>2. CASE w = q.w
      <3>1. HasCapacity(w)' <=> HasCapacity(w)
        BY <1>2 DEF HasCapacity
      <3>2. ASSUME NEW c PROVE (RoomSeen(w, c)' <=> RoomSeen(w, c)) /\ (SlotsSeen(w, c)' <=> SlotsSeen(w, c))
        BY <1>2 DEF RoomSeen, SlotsSeen, HasRoom
      <3>3. p \in requests'
        BY <1>3
      <3>4. RoomSeen(w, cond[w]) /\ SlotsSeen(w, cond[w])
        BY <1>4 DEF Followed
      <3>5. ASSUME NEW r \in requests', r.w = w
            PROVE  /\ r.by = "scheduler" /\ r.version = rec[w].version
                   /\ r.health # Nothing => RoomSeen(w, r.health)
                   /\ r.accounts # Nothing => SlotsSeen(w, r.accounts)
        <4>1. CASE r \in requests
          BY <1>4, <3>5, <4>1 DEF Followed
        <4>2. CASE r = p
          BY <1>3, <1>4, <2>2, <3>4, <4>2 DEF Followed
        <4> QED
          BY <1>3, <4>1, <4>2
      <3>6. RoomSeen(w, cond[w])' /\ SlotsSeen(w, cond[w])'
        BY <1>2, <3>4 DEF RoomSeen, SlotsSeen, HasRoom
      <3> QED
        BY <1>2, <1>3, <2>2, <3>2, <3>3, <3>5, <3>6 DEF Followed
    <2> QED
      BY <2>1, <2>2
  <1>5. \A r \in requests' : r.by = q.by \/ r \in requests
    BY <1>3
  <1> QED
    BY <1>2, <1>4, <1>5 DEF CapacityInv, SelectionInv

\* The measured status says of the worker what was seen in the two answers.
LEMMA MeasuredCapacity ==
    ASSUME NEW h \in Condition, NEW a \in Condition, NEW max \in Nat, NEW s,
           s = Measured(h, a, max)
    PROVE  /\ s.online
           /\ CapacityRemaining(s) > 0 /\ s.ram < 92
                  <=> HasSlots(a) /\ h.active < max /\ h.ram < 92
  <1>1. s = [online |-> TRUE, slots |-> AvailableSlots(a.accounts), max |-> max,
             active |-> h.active, queued |-> h.queued, cpu |-> h.cpu, ram |-> h.ram,
             score |-> HealthScore(h.cpu, h.ram, AvailableSlots(a.accounts))]
    BY DEF Measured
  <1>2. /\ s.online /\ s.slots = AvailableSlots(a.accounts) /\ s.max = max
        /\ s.active = h.active /\ s.ram = h.ram
    BY <1>1
  <1>3. s \in Status
    BY MeasuredType
  <1>4. s.slots > 0 <=> HasSlots(a)
    <2>1. a.accounts \in Seq(Account) /\ a # Down
      BY ConditionType DEF Condition
    <2> QED
      BY <1>2, <2>1, AvailableSlotsType DEF HasSlots
  <1> QED
    BY <1>2, <1>3, <1>4, CapacityRemainingType

LEMMA EndsFollowed ==
    ASSUME CapacityInv, NEW q \in requests, Refreshed(q) \/ RefreshFailed(q)
    PROVE  SelectionInv'
  <1>1. q \in RefreshRequest /\ q.w \in Workers /\ TypeOK
    BY HistoryTypes DEF CapacityInv, TypeInv
  <1>2. /\ requests' = requests \ {q}
        /\ UNCHANGED <<cond, selecting>>
        /\ seen'.slots = seen.slots /\ seen'.room = seen.room
        /\ seen.lacked \subseteq seen'.lacked /\ seen'.disturbed = seen.disturbed
    BY DEF Refreshed, RefreshFailed, Store, TypeInv, TypeOK, CapacityInv
  <1>3. \A w \in Workers \ {q.w} : rec'[w] = rec[w]
    BY <1>1, StoredRecord DEF Refreshed, RefreshFailed
  <1>4. ASSUME NEW w \in Workers, Followed(w), w # q.w PROVE Followed(w)'
    <2>1. \A r : r.w = w => (r \in requests' <=> r \in requests)
      BY <1>2, <1>4
    <2> QED
      BY <1>2, <1>3, <1>4, <2>1, FollowedKeeps
  <1>5. ASSUME Followed(q.w) PROVE Followed(q.w)'
    <2> DEFINE w == q.w
    <2>1. q.by = "scheduler" /\ q.version = rec[w].version
      BY <1>5 DEF Followed
    <2>2. PICK status :
             /\ Store(q, status)
             /\ \/ Refreshed(q) /\ status = Measured(q.health, q.accounts, q.max)
                \/ RefreshFailed(q) /\ status = Offline
      BY DEF Refreshed, RefreshFailed
    <2>3. /\ rec[w] # Absent /\ rec'[w] # Absent /\ rec'[w].max = rec[w].max
          /\ rec'[w].version = rec[w].version /\ rec'[w].status = status
      <3>1. /\ rec[w] # Absent
            /\ rec'[w] = [version |-> rec[w].version, enabled |-> rec[w].enabled,
                          weight |-> rec[w].weight, max |-> rec[w].max,
                          measured |-> TRUE, status |-> status]
        BY <1>1, <2>1, <2>2, StoredRecord
      <3>2. rec[w].version # -1
        BY <1>1, <2>1 DEF RefreshRequest
      <3> QED
        BY <3>1, <3>2 DEF Absent
    <2>4. \A c : HasRoom(w, c)' <=> HasRoom(w, c)
      BY <2>3 DEF HasRoom
    <2>5. ASSUME NEW c
          PROVE  /\ RoomSeen(w, c) => RoomSeen(w, c)'
                 /\ SlotsSeen(w, c) => SlotsSeen(w, c)'
      BY <1>2, <2>4 DEF RoomSeen, SlotsSeen
    <2>6. RoomSeen(w, cond[w])' /\ SlotsSeen(w, cond[w])'
      BY <1>2, <1>5, <2>4 DEF Followed, RoomSeen, SlotsSeen
    <2>7. \A r \in requests' : r.w = w =>
              /\ r.by = "scheduler" /\ r.version = rec'[w].version
              /\ r.health # Nothing => RoomSeen(w, r.health)'
              /\ r.accounts # Nothing => SlotsSeen(w, r.accounts)'
      BY <1>2, <1>5, <2>3, <2>5 DEF Followed
    <2>8. ASSUME rec'[w].enabled
          PROVE  IF HasCapacity(w)' THEN w \in seen'.slots /\ w \in seen'.room ELSE w \in seen'.lacked
      <3>1. CASE RefreshFailed(q)
        <4>1. w \in seen'.lacked
          BY <1>1, <2>1, <3>1 DEF RefreshFailed, TypeOK
        <4>2. status = Offline
          BY <2>2, <3>1 DEF Refreshed, RefreshFailed
        <4>3. ~HasCapacity(w)'
          <5>1. ~Offline.online
            BY DEF Offline
          <5> QED
            BY <2>3, <4>2, <5>1 DEF HasCapacity
        <4> QED
          BY <4>1, <4>3
      <3>2. CASE Refreshed(q)
        <4>1. q.accounts # Nothing /\ q.health # Nothing
          BY <3>2 DEF Refreshed, CapacityInv, TypeInv, HealthFirst
        <4>2. q.health \in Condition /\ q.accounts \in Condition
          BY <1>1, <4>1 DEF RefreshRequest
        <4>3. RoomSeen(w, q.health) /\ SlotsSeen(w, q.accounts)
          BY <1>5, <4>1 DEF Followed
        <4>4. status = Measured(q.health, q.accounts, rec'[w].max)
          <5>1. q.max = rec[w].max
            BY <2>1 DEF CapacityInv, LimitInv, VersionsOK
          <5>2. status = Measured(q.health, q.accounts, q.max)
            BY <2>2, <3>2 DEF Refreshed, RefreshFailed
          <5> QED
            BY <2>3, <5>1, <5>2
        <4>5. rec[w].max \in Nat
          BY <1>1, <2>3, RecordType
        <4>6. HasCapacity(w)' <=> HasSlots(q.accounts) /\ HasRoom(w, q.health)'
          <5>1. /\ status.online
                /\ CapacityRemaining(status) > 0 /\ status.ram < 92
                       <=> /\ HasSlots(q.accounts)
                           /\ q.health.active < rec'[w].max /\ q.health.ram < 92
            BY <2>3, <4>2, <4>4, <4>5, MeasuredCapacity
          <5>2. HasRoom(w, q.health)' <=> q.health.active < rec'[w].max /\ q.health.ram < 92
            BY <2>3, <4>2, ConditionType DEF HasRoom
          <5>3. HasCapacity(w)' <=> CapacityRemaining(status) > 0 /\ status.ram < 92
            BY <2>3, <2>8, <5>1 DEF HasCapacity
          <5> QED
            BY <5>1, <5>2, <5>3
        <4> QED
          BY <1>2, <2>4, <2>8, <4>3, <4>6 DEF RoomSeen, SlotsSeen
      <3> QED
        BY <3>1, <3>2
    <2> QED
      BY <2>6, <2>7, <2>8 DEF Followed
  <1>6. \A r \in requests' : r \in requests
    BY <1>2
  <1> QED
    BY <1>2, <1>4, <1>5, <1>6 DEF CapacityInv, SelectionInv

\* The other coroutines: who disturbs a worker is known to have done so.
LEMMA LookFollowed ==
    ASSUME CapacityInv, Look
    PROVE  SelectionInv'
  <1>1. TypeOK
    BY DEF CapacityInv, TypeInv
  <1>2. /\ UNCHANGED <<cond, rec, selecting>>
        /\ requests' = requests \cup RefreshAll("viewer")
        /\ seen' = IF selecting
                   THEN [seen EXCEPT !.disturbed = @ \cup {q.w : q \in RefreshAll("viewer")}]
                   ELSE seen
    BY DEF Look, Disturb
  <1>3. \A q \in RefreshAll("viewer") : q.by = "viewer"
    BY <1>1, RefreshAllType
  <1>4. ASSUME selecting, NEW w \in Workers \ seen'.disturbed PROVE Followed(w)'
    <2>1. /\ seen'.slots = seen.slots /\ seen'.room = seen.room /\ seen'.lacked = seen.lacked
          /\ seen'.disturbed = seen.disturbed \cup {q.w : q \in RefreshAll("viewer")}
      BY <1>1, <1>2, <1>4 DEF TypeOK
    <2>2. Followed(w)
      BY <1>4, <2>1 DEF CapacityInv, SelectionInv
    <2>3. \A q : q.w = w => (q \in requests' <=> q \in requests)
      BY <1>2, <1>4, <2>1
    <2> QED
      BY <1>2, <2>1, <2>2, <2>3, FollowedKeeps
  <1> QED
    BY <1>2, <1>3, <1>4 DEF CapacityInv, SelectionInv

LEMMA AdminFollowed ==
    ASSUME CapacityInv, NEW w \in Workers,
           Unregister(w) \/ \E r \in Registrations, saved \in BOOLEAN : Register(w, r, saved)
    PROVE  SelectionInv'
  <1>1. TypeOK
    BY DEF CapacityInv, TypeInv
  <1>2. /\ UNCHANGED <<cond, selecting>>
        /\ seen' = IF selecting THEN [seen EXCEPT !.disturbed = @ \cup {w}] ELSE seen
    BY DEF Unregister, Register, Disturb
  <1>3. \A v \in Workers \ {w} : rec'[v] = rec[v]
    BY <1>1 DEF Unregister, Register, TypeOK
  <1>4. /\ requests \subseteq requests'
        /\ \A q \in requests' : q \in requests \/ (q.w = w /\ q.by = "admin")
    BY DEF Unregister, Register, Refresh
  <1>5. ASSUME selecting, NEW v \in Workers \ seen'.disturbed PROVE Followed(v)'
    <2>1. /\ seen'.slots = seen.slots /\ seen'.room = seen.room /\ seen'.lacked = seen.lacked
          /\ seen'.disturbed = seen.disturbed \cup {w}
      BY <1>1, <1>2, <1>5 DEF TypeOK
    <2>2. Followed(v) /\ v # w
      BY <1>5, <2>1 DEF CapacityInv, SelectionInv
    <2>3. \A q : q.w = v => (q \in requests' <=> q \in requests)
      BY <1>4, <2>2
    <2> QED
      BY <1>2, <1>3, <2>1, <2>2, <2>3, FollowedKeeps
  <1> QED
    BY <1>2, <1>4, <1>5 DEF CapacityInv, SelectionInv

LEMMA WorkFollowed ==
    ASSUME CapacityInv, NEW w \in Workers, NEW c \in Conditions \cup {Down}, Work(w, c)
    PROVE  SelectionInv'
  <1>1. TypeOK
    BY DEF CapacityInv, TypeInv
  <1>2. /\ UNCHANGED <<rec, requests, selecting>>
        /\ cond' = [cond EXCEPT ![w] = c]
        /\ seen' = IF selecting THEN Observe(seen, w, c) ELSE seen
    BY DEF Work
  <1>3. cond'[w] = c /\ \A v \in Workers \ {w} : cond'[v] = cond[v]
    BY <1>1, <1>2 DEF TypeOK
  <1>4. ASSUME selecting, NEW v \in Workers \ seen'.disturbed PROVE Followed(v)'
    <2>1. /\ seen'.slots = IF HasSlots(c) THEN seen.slots \cup {w} ELSE seen.slots
          /\ seen'.room = IF HasRoom(w, c) THEN seen.room \cup {w} ELSE seen.room
          /\ seen'.lacked = IF HasSlots(c) /\ HasRoom(w, c) THEN seen.lacked ELSE seen.lacked \cup {w}
          /\ seen'.disturbed = seen.disturbed
      BY <1>1, <1>2, <1>4 DEF TypeOK, Observe
    <2>2. Followed(v)
      BY <1>4, <2>1 DEF CapacityInv, SelectionInv
    <2>3. CASE v # w
      BY <1>2, <1>3, <2>1, <2>2, <2>3, FollowedKeeps
    <2>4. CASE v = w
      <3>1. HasCapacity(v)' <=> HasCapacity(v)
        BY <1>2 DEF HasCapacity
      <3>2. ASSUME NEW d
            PROVE  /\ RoomSeen(v, d) => RoomSeen(v, d)'
                   /\ SlotsSeen(v, d) => SlotsSeen(v, d)'
        BY <1>2, <2>1 DEF RoomSeen, SlotsSeen, HasRoom
      <3>3. RoomSeen(v, cond[v])' /\ SlotsSeen(v, cond[v])'
        BY <1>2, <1>3, <2>1, <2>4 DEF RoomSeen, SlotsSeen, HasRoom
      <3>4. \A q \in requests' : q.w = v =>
                /\ q.by = "scheduler" /\ q.version = rec'[v].version
                /\ q.health # Nothing => RoomSeen(v, q.health)'
                /\ q.accounts # Nothing => SlotsSeen(v, q.accounts)'
        BY <1>2, <2>2, <3>2 DEF Followed
      <3>5. rec'[v] # Absent /\ rec'[v].enabled /\ (\A q \in requests' : q.w # v) =>
                IF HasCapacity(v)' THEN v \in seen'.slots /\ v \in seen'.room
                ELSE v \in seen'.lacked
        BY <1>2, <2>1, <2>2, <3>1 DEF Followed
      <3> QED
        BY <3>3, <3>4, <3>5 DEF Followed
    <2> QED
      BY <2>3, <2>4
  <1> QED
    BY <1>2, <1>4 DEF CapacityInv, SelectionInv

LEMMA CapacityInvInit == Init => CapacityInv
  <1>1. Init => SelectionInv
    BY DEF Init, SelectionInv
  <1> QED
    BY <1>1, TypeInvInit, LimitInvInit DEF CapacityInv

LEMMA CapacityInvStep == CapacityInv /\ [Next]_capacityVars => CapacityInv'
  <1> SUFFICES ASSUME CapacityInv, [Next]_capacityVars PROVE CapacityInv'
    OBVIOUS
  <1>1. TypeInv' /\ LimitInv'
    BY TypeInvStep, LimitInvStep DEF CapacityInv
  <1>2. ASSUME NEW q \in requests, RefreshStep(q) PROVE SelectionInv'
    BY <1>2, AnsweredFollowed, EndsFollowed DEF RefreshStep
  <1>3. ASSUME AdminStep PROVE SelectionInv'
    BY <1>3, AdminFollowed DEF AdminStep
  <1>4. ASSUME UNCHANGED capacityVars PROVE SelectionInv'
    BY <1>4 DEF capacityVars, CapacityInv, SelectionInv, Followed, RoomSeen, SlotsSeen,
                HasRoom, HasCapacity
  <1>5. SelectionInv'
    BY <1>2, <1>3, <1>4, SelectKeeps, ChooseKeeps, LookFollowed, WorkFollowed DEF Next
  <1> QED
    BY <1>1, <1>5 DEF CapacityInv

LEMMA CapacityInvAlways == Spec => []CapacityInv
  BY CapacityInvInit, CapacityInvStep, PTL DEF Spec

\* When the choice is made no request is under way for a worker that nobody
\* else refreshed or changed, so its record says what the selection has seen.
LEMMA ChosenWasSeen ==
    ASSUME CapacityInv, Choose, NEW w \in Workers \ seen.disturbed, rec[w] # Absent, rec[w].enabled
    PROVE  IF HasCapacity(w) THEN w \in seen.slots /\ w \in seen.room ELSE w \in seen.lacked
  <1>1. Followed(w)
    BY DEF CapacityInv, SelectionInv, Choose
  <1>2. \A q \in requests : q.w # w
    BY <1>1 DEF Followed, Choose
  <1> QED
    BY <1>1, <1>2 DEF Followed

-----------------------------------------------------------------------------
\* The variables of Capacity keep their types for any number of workers and accounts;
\* among them, health_score stays within the bounds that pydantic checks.
THEOREM CapacityTypeCorrect == Spec => []TypeOK
  <1>1. CapacityInv => TypeOK
    BY DEF CapacityInv, TypeInv
  <1> QED
    BY <1>1, CapacityInvAlways, PTL

\* select_worker returns only a worker that had a free account, and room and memory
\* for a job, at some moment of this very selection.
THEOREM ChoicesAreCurrent == Spec => ChosenHadCapacity
  <1>1. CapacityInv /\ [Next]_capacityVars =>
            [Choose => \A w \in Workers \ seen.disturbed :
                 last' = w /\ Choice = w => w \in seen.slots /\ w \in seen.room]_capacityVars
    <2> SUFFICES ASSUME CapacityInv, Choose, NEW w \in Workers \ seen.disturbed, Choice = w
                 PROVE  w \in seen.slots /\ w \in seen.room
      OBVIOUS
    <2>1. HasCapacity(w)
      BY ChoiceHasCapacity DEF CapacityInv, TypeInv
    <2>2. rec[w] # Absent /\ rec[w].enabled
      BY <2>1 DEF HasCapacity
    <2> QED
      BY <2>1, <2>2, ChosenWasSeen
  <1> QED
    BY <1>1, CapacityInvAlways, PTL DEF Spec, ChosenHadCapacity

\* select_worker returns None only if every enabled worker lacked a free account or
\* room, or did not answer, at some moment of this very selection.
THEOREM WaitingIsJustified == Spec => WaitsOnlyWhenFull
  <1>1. CapacityInv /\ [Next]_capacityVars =>
            [Choose /\ Choice = NoWorker =>
                 \A w \in Workers \ seen.disturbed :
                     rec[w] # Absent /\ rec[w].enabled => w \in seen.lacked]_capacityVars
    <2> SUFFICES ASSUME CapacityInv, Choose, Choice = NoWorker,
                        NEW w \in Workers \ seen.disturbed, rec[w] # Absent, rec[w].enabled
                 PROVE  w \in seen.lacked
      OBVIOUS
    <2>1. ~HasCapacity(w)
      BY ChoiceHasCapacity DEF CapacityInv, TypeInv
    <2> QED
      BY <2>1, ChosenWasSeen
  <1> QED
    BY <1>1, CapacityInvAlways, PTL DEF Spec, WaitsOnlyWhenFull

\* Whatever refreshes and registrations overlap, the capacity of a worker that
\* has been measured since it was registered is computed from the job limit it
\* was registered with.
THEOREM LimitsAreCurrent == Spec => []LimitIsCurrent
  <1>1. LimitInv => LimitIsCurrent
    BY DEF LimitInv
  <1> QED
    BY <1>1, LimitInvInit, LimitInvStep, PTL DEF Spec

=============================================================================
