-------------------------- MODULE DrainRetryProofs --------------------------
(***************************************************************************)
(* A drain is reported as stuck in time and never early, for every timeout *)
(* and every interval of the retries.                                      *)
(***************************************************************************)
EXTENDS DrainRetry, TLAPS

\* Both clocks start together.  An old copy of the node may set the first one
\* back, but not later than the tick before the informer has the new copy.
Clocks ==
    /\ since = Never <=> begun = Never
    /\ since \in {begun, begun - 1}
    /\ listed => since # Never
    /\ ~listed /\ since # Never => sent /\ (begun = 0 \/ (begun = 1 /\ due))

\* A pass is due before the timeout: the timer runs out in time, or something is
\* waiting that makes one before the next tick.
PassInTime ==
    \/ timer # Never /\ since + timer <= Timeout
    \/ /\ sent \/ woken
       /\ since < Timeout \/ (since = Timeout /\ due)

NotEarly == stuck => begun >= Timeout

\* Ticks for which a node without pods may have been reported.
Left == IF pods > 0 THEN 0 ELSE gone

\* The same of a pass that takes back the report of a node whose pods have left.
ClearInTime ==
    \/ timer # Never /\ Left + timer <= calculateRetryInterval
    \/ /\ sent \/ woken
       /\ Left < calculateRetryInterval \/ (Left = calculateRetryInterval /\ due)

Clearing ==
    /\ gone = Never <=> pods > 0
    /\ stuck /\ ~failed => ClearInTime

DrainInv ==
    /\ TypeOK /\ timer # 0
    /\ Clocks
    /\ NotEarly /\ Clearing
    /\ pods > 0 /\ ~failed /\ ~stuck /\ since # Never => PassInTime

(***************************************************************************)
(* The times of the queue.                                                 *)
(***************************************************************************)

LEMMA TwoMax ==
    ASSUME NEW a \in Int, NEW b \in Int
    PROVE  Max({a, b}) = IF a >= b THEN a ELSE b
  <1>1. \E x \in {a, b} : \A y \in {a, b} : x >= y
    OBVIOUS
  <1>2. Max({a, b}) \in {a, b} /\ \A y \in {a, b} : Max({a, b}) >= y
    BY <1>1 DEF Max
  <1> QED
    BY <1>2

LEMMA TwoMin ==
    ASSUME NEW a \in Int, NEW b \in Int
    PROVE  Min({a, b}) = IF a <= b THEN a ELSE b
  <1>1. \E x \in {a, b} : \A y \in {a, b} : x =< y
    OBVIOUS
  <1>2. Min({a, b}) \in {a, b} /\ \A y \in {a, b} : Min({a, b}) =< y
    BY <1>1 DEF Min
  <1> QED
    BY <1>2

Longest == Max({calculateRetryInterval, Timeout})

LEMMA Interval ==
    /\ calculateRetryInterval \in Nat /\ calculateRetryInterval >= 1
    /\ Longest \in Nat /\ Longest >= calculateRetryInterval /\ Longest >= Timeout
  <1>1. Timeout \div 12 \in Int
    BY DrainRetryAssumption
  <1>2. calculateRetryInterval \in Nat /\ calculateRetryInterval >= 1
    BY <1>1, DrainRetryAssumption, TwoMax DEF calculateRetryInterval, DefaultDrainRetrySeconds
  <1> QED
    BY <1>2, DrainRetryAssumption, TwoMax DEF Longest

\* A retry comes at the timeout at the latest, and not at once (drain.go:247).
LEMMA RequeueCapped ==
    ASSUME NEW elapsed \in Nat
    PROVE  /\ Requeue(elapsed) \in 1..Longest
           /\ elapsed < Timeout => elapsed + Requeue(elapsed) <= Timeout
  <1>1. CASE elapsed >= Timeout
    BY <1>1, Interval, DrainRetryAssumption DEF Requeue
  <1>2. CASE elapsed < Timeout
    <2>1. Timeout - elapsed \in Int /\ Timeout - elapsed >= 1 /\ MinRequeue \in Int
      BY <1>2, DrainRetryAssumption DEF MinRequeue
    <2>2. /\ Min({calculateRetryInterval, Timeout - elapsed}) \in Int
          /\ Min({calculateRetryInterval, Timeout - elapsed}) >= 1
          /\ Min({calculateRetryInterval, Timeout - elapsed}) <= calculateRetryInterval
          /\ Min({calculateRetryInterval, Timeout - elapsed}) <= Timeout - elapsed
      BY <2>1, Interval, TwoMin
    <2>3. Requeue(elapsed) = Min({calculateRetryInterval, Timeout - elapsed})
      BY <1>2, <2>1, <2>2, TwoMax, DrainRetryAssumption DEF Requeue, MinRequeue
    <2> QED
      BY <1>2, <2>1, <2>2, <2>3, Interval, DrainRetryAssumption
  <1> QED
    BY <1>1, <1>2, DrainRetryAssumption

\* The queue keeps the earlier of the two times.
LEMMA RequeuedBy ==
    ASSUME TypeOK, timer # 0, NEW t \in 1..Longest, RequeueAfter(t)
    PROVE  timer' \in 1..Longest /\ timer' <= t
  <1>1. timer \in Never..Longest /\ timer \in Int /\ t \in Int
    BY Interval DEF TypeOK, Longest, Never
  <1>2. CASE timer = Never
    BY <1>2 DEF RequeueAfter
  <1>3. CASE timer # Never
    BY <1>1, <1>3, TwoMin, Interval DEF RequeueAfter, Never
  <1> QED
    BY <1>2, <1>3

\* A pass that succeeds reports what it found and comes back in t; one that fails
\* leaves the report.
LEMMA PassOutcome ==
    ASSUME TypeOK, timer # 0, NEW s \in BOOLEAN, NEW t \in 1..Longest, PassEnds(s, t)
    PROVE  /\ timer' \in 1..Longest
           /\ \/ stuck' = s /\ failed' = FALSE /\ timer' <= t
              \/ stuck' = stuck /\ failed' = TRUE
  <1>1. MinRequeue \in 1..Longest
    BY Interval DEF MinRequeue
  <1>2. CASE stuck' = s /\ failed' = FALSE /\ RequeueAfter(t)
    BY <1>2, RequeuedBy
  <1>3. CASE UNCHANGED stuck /\ failed' = TRUE /\ RequeueAfter(MinRequeue)
    BY <1>1, <1>3, RequeuedBy
  <1> QED
    BY <1>2, <1>3 DEF PassEnds

LEMMA Booleans ==
    ASSUME TypeOK
    PROVE  /\ listed \in BOOLEAN /\ sent \in BOOLEAN /\ woken \in BOOLEAN
           /\ due \in BOOLEAN /\ stuck \in BOOLEAN /\ failed \in BOOLEAN
  BY DEF TypeOK

LEMMA Times ==
    ASSUME TypeOK
    PROVE  /\ since \in Int /\ begun \in Int /\ last \in Int /\ pods \in Nat
           /\ gone \in Int /\ gone >= -1 /\ gone <= End
           /\ since >= -1 /\ begun >= -1 /\ End \in Nat /\ End >= Timeout /\ Timeout >= 1
           /\ since <= End /\ begun <= End /\ pods <= MaxPods
           /\ Timeout \in Nat /\ MaxPods \in Nat
           /\ timer \in Int /\ timer >= -1 /\ timer <= Longest
  BY Interval, DrainRetryAssumption DEF TypeOK, Never, End, Longest

(***************************************************************************)
(* The steps.                                                              *)
(***************************************************************************)

LEMMA InitDrain ==
    ASSUME Init
    PROVE  DrainInv
  <1>1. TypeOK
    <2>1. /\ pods \in 0..MaxPods
          /\ since \in Never..End /\ begun \in Never..End /\ last \in Never..End
          /\ gone \in Never..End /\ timer \in Never..Longest
      BY Interval, DrainRetryAssumption DEF Init, Never, End
    <2>2. {listed, sent, woken, due, stuck, failed} \subseteq BOOLEAN
      BY DEF Init
    <2> QED
      BY <2>1, <2>2 DEF TypeOK, Longest
  <1>2. since = Never /\ begun = Never /\ timer = Never /\ listed = FALSE /\ stuck = FALSE
        /\ gone = Never
    BY DEF Init
  <1>3. pods > 0
    BY DrainRetryAssumption DEF Init
  <1> QED
    BY <1>1, <1>2, <1>3 DEF DrainInv, Clocks, NotEarly, Clearing, Never

\* A pass that does not touch the annotation: it cannot list the pods, cannot
\* write when the drain began, or finds the drain complete.
LEMMA PassWithoutStart ==
    ASSUME DrainInv, DrainCheckFails \/ DrainNotStarted \/ DrainComplete
    PROVE  DrainInv'
  <1>1. /\ TypeOK /\ timer # 0 /\ Clocks /\ NotEarly /\ Clearing
        /\ MinRequeue \in 1..Longest /\ calculateRetryInterval \in 1..Longest
    BY Interval DEF DrainInv, MinRequeue
  <1>2. /\ UNCHANGED <<pods, since, listed, sent, begun, gone>>
        /\ woken' = FALSE /\ due' = (due /\ sent) /\ last' \in {last, 0}
    BY DEF DrainCheckFails, DrainNotStarted, DrainComplete, PassStarts
  <1>3. /\ timer' \in 1..Longest
        /\ \/ failed' = TRUE /\ stuck' = FALSE
           \/ failed' = TRUE /\ stuck' = stuck
           \/ failed' = FALSE /\ stuck' = FALSE
        /\ failed' \/ pods = 0 \/ ~listed
    <2>1. CASE DrainCheckFails
      BY <1>1, <2>1, RequeuedBy DEF DrainCheckFails
    <2>2. CASE DrainNotStarted
      BY <1>1, <2>2, PassOutcome DEF DrainNotStarted
    <2>3. CASE DrainComplete
      BY <1>1, <2>3, PassOutcome DEF DrainComplete
    <2> QED
      BY <2>1, <2>2, <2>3
  <1>4. {listed', sent', woken', due', stuck', failed'} \subseteq BOOLEAN
    BY <1>1, <1>2, <1>3, Booleans
  <1>5. TypeOK'
    <2>1. timer' \in Never..Longest /\ last' \in Never..End
      BY <1>1, <1>2, <1>3, Interval, Times DEF Never, TypeOK
    <2> QED
      BY <1>1, <1>2, <1>4, <2>1 DEF TypeOK, Longest
  <1>6. Clocks'
    BY <1>1, <1>2 DEF Clocks
  <1>7. NotEarly' /\ Clearing'
    BY <1>1, <1>2, <1>3 DEF NotEarly, Clearing
  <1>8. ASSUME pods' > 0, ~failed', ~stuck', since' # Never
        PROVE  PassInTime'
    <2>1. ~listed /\ since # Never
      BY <1>1, <1>2, <1>3, <1>8, Times
    <2>2. sent /\ (begun = 0 \/ (begun = 1 /\ due)) /\ since \in {begun, begun - 1}
      BY <1>1, <2>1 DEF Clocks
    <2>3. sent' /\ (since' < Timeout \/ (since' = Timeout /\ due'))
      <3>1. sent' /\ (due => due')
        BY <1>2, <2>2
      <3>2. since < Timeout \/ (since = Timeout /\ due)
        BY <1>1, <2>1, <2>2, Times DEF Never
      <3> QED
        BY <1>2, <3>1, <3>2
    <2> QED
      BY <2>3 DEF PassInTime
  <1> QED
    BY <1>3, <1>5, <1>6, <1>7, <1>8 DEF DrainInv

\* A pass that evicts, and writes when the drain began if its copy of the node
\* does not say it.
LEMMA PassWithStart ==
    ASSUME DrainInv, DrainSucceeds \/ DrainFailsFirst \/ HandleDrainRetry
    PROVE  DrainInv'
  <1>1. /\ TypeOK /\ timer # 0 /\ Clocks /\ NotEarly /\ Clearing
        /\ MinRequeue \in 1..Longest /\ calculateRetryInterval \in 1..Longest
    BY Interval DEF DrainInv, MinRequeue
  <1>2. /\ pods > 0 /\ pods' \in 0..pods /\ listed' = listed
        /\ woken' = FALSE /\ due' = (due /\ sent) /\ last' = 0
        /\ sent' \in {sent, TRUE} /\ (~listed => sent' = TRUE)
    <2>1. pods \in Nat
      BY <1>1, Times
    <2>2. sent \in BOOLEAN /\ listed \in BOOLEAN
      BY <1>1, Booleans
    <2>3. pods > 0 /\ pods' \in 0..pods
      <3>1. pods > 0 /\ (pods' = 0 \/ pods' \in 1..pods)
        BY DEF DrainSucceeds, DrainFailsFirst, HandleDrainRetry
      <3> QED
        BY <2>1, <3>1
    <2>4. sent' \in {sent, TRUE} /\ (~listed => sent' = TRUE)
      BY <2>2 DEF DrainSucceeds, DrainFailsFirst, HandleDrainRetry
    <2> QED
      BY <2>3, <2>4 DEF DrainSucceeds, DrainFailsFirst, HandleDrainRetry, PassStarts
  <1>3. /\ listed => since' = since /\ begun' = begun
        /\ ~listed => since' = 0 /\ begun' = IF begun >= 0 THEN begun ELSE 0
    <2>1. Max({begun, 0}) = IF begun >= 0 THEN begun ELSE 0
      BY <1>1, Times, TwoMax
    <2> QED
      BY <2>1 DEF DrainSucceeds, DrainFailsFirst, HandleDrainRetry, StartDrain
  <1>11. (pods' > 0 => gone' = gone) /\ (pods' = 0 => gone' = 0)
    <2>1. CASE DrainSucceeds
      BY <2>1 DEF DrainSucceeds
    <2>2. CASE DrainFailsFirst \/ HandleDrainRetry
      <3>1. pods' \in 1..pods /\ gone' = gone
        BY <2>2 DEF DrainFailsFirst, HandleDrainRetry
      <3> QED
        BY <3>1, <1>1, Times
    <2> QED
      BY <2>1, <2>2
  <1>4. since' \in Nat /\ since' <= begun' /\ begun' <= End
    BY <1>1, <1>3, Times DEF Clocks, Never
  <1>5. /\ timer' \in 1..Longest
        /\ \/ stuck' = stuck /\ failed' = TRUE
           \/ stuck' = FALSE /\ failed' = FALSE /\ (pods' = 0 \/ ~listed)
           \/ /\ listed /\ stuck' = IsStuck /\ failed' = FALSE /\ pods' > 0
              /\ timer' <= Requeue(since)
    <2>1. CASE DrainSucceeds
      BY <1>1, <2>1, PassOutcome DEF DrainSucceeds
    <2>2. CASE DrainFailsFirst
      BY <1>1, <2>2, PassOutcome DEF DrainFailsFirst
    <2>3. CASE HandleDrainRetry
      <3>1. listed /\ since \in Nat
        BY <1>1, <2>3, Times DEF HandleDrainRetry, Clocks, Never
      <3>2. Requeue(since) \in 1..Longest /\ IsStuck \in BOOLEAN
        BY <3>1, RequeueCapped DEF IsStuck
      <3>3. pods' > 0
        BY <1>1, <2>3, Times DEF HandleDrainRetry
      <3> QED
        BY <1>1, <2>3, <3>1, <3>2, <3>3, PassOutcome DEF HandleDrainRetry
    <2> QED
      BY <2>1, <2>2, <2>3
  <1>6. {listed', sent', woken', due', stuck', failed'} \subseteq BOOLEAN
    <2>1. sent' \in BOOLEAN /\ due' \in BOOLEAN /\ listed' \in BOOLEAN /\ woken' \in BOOLEAN
      BY <1>1, <1>2, Booleans
    <2>2. IsStuck \in BOOLEAN
      BY DEF IsStuck
    <2> QED
      BY <1>1, <1>5, <2>1, <2>2, Booleans
  <1>7. TypeOK'
    <2>1. /\ timer' \in Never..Longest /\ last' \in Never..End /\ pods' \in 0..MaxPods
          /\ since' \in Never..End /\ begun' \in Never..End /\ gone' \in Never..End
      BY <1>1, <1>2, <1>4, <1>5, <1>11, Interval, Times, <1>3 DEF Never
    <2> QED
      BY <1>6, <2>1 DEF TypeOK, Longest
  <1>8. Clocks'
    <2>1. CASE listed
      BY <1>1, <1>2, <1>3, <2>1 DEF Clocks
    <2>2. CASE ~listed
      <3>1. begun' \in {0, 1} /\ since' = 0 /\ sent' = TRUE /\ ~listed'
        BY <1>1, <1>2, <1>3, <2>2, Times DEF Clocks, Never
      <3>2. begun' = 1 => due'
        <4>1. begun' = 1 => begun = 1 /\ since # Never
          BY <1>1, <1>3, <2>2, Times DEF Clocks, Never
        <4>2. begun = 1 /\ since # Never => sent /\ due
          BY <1>1, <2>2 DEF Clocks
        <4> QED
          BY <1>2, <4>1, <4>2
      <3> QED
        BY <3>1, <3>2 DEF Clocks, Never
    <2> QED
      BY <2>1, <2>2
  <1>9. NotEarly'
    <2>1. CASE stuck' = stuck /\ failed' = TRUE
      BY <1>1, <1>3, <2>1, Times DEF NotEarly
    <2>2. CASE listed /\ stuck' = IsStuck /\ pods' > 0
      <3>1. stuck' => since >= Timeout
        BY <2>2 DEF IsStuck
      <3>2. since' = since /\ begun' \in Int
        BY <1>1, <1>3, <2>2, Times
      <3> QED
        BY <1>1, <1>4, <2>2, <3>1, <3>2, Times DEF NotEarly
    <2>3. CASE stuck' = FALSE
      BY <2>3 DEF NotEarly
    <2> QED
      BY <1>5, <2>1, <2>2, <2>3
  <1>12. Clearing'
    <2>1. gone' = Never <=> pods' > 0
      BY <1>1, <1>2, <1>11, Times DEF Clearing, Never
    <2>2. ASSUME stuck', ~failed'
          PROVE  ClearInTime'
      <3>1. pods' > 0 /\ timer' <= Requeue(since) /\ IsStuck /\ timer' \in 1..Longest
        BY <1>5, <2>2
      <3>2. Requeue(since) = calculateRetryInterval
        BY <3>1 DEF IsStuck, Requeue
      <3>3. Left' = 0
        BY <3>1 DEF Left
      <3> QED
        <4>1. timer' # Never /\ 0 + timer' <= calculateRetryInterval
          <5>1. timer' <= calculateRetryInterval
            BY <3>1, <3>2, Zenon
          <5>2. timer' \in Int /\ timer' >= 1
            BY <3>1, Interval
          <5> QED
            BY <5>1, <5>2 DEF Never
        <4> QED
          BY <3>3, <4>1 DEF ClearInTime
    <2> QED
      BY <2>1, <2>2 DEF Clearing
  <1>10. ASSUME pods' > 0, ~failed', ~stuck', since' # Never
         PROVE  PassInTime'
    <2>1. CASE ~listed
      BY <1>1, <1>2, <1>3, <2>1, Times DEF PassInTime
    <2>2. CASE listed
      <3>1. ~IsStuck /\ timer' <= Requeue(since) /\ since' = since
        BY <1>2, <1>3, <1>5, <1>10, <2>2
      <3>2. since \in Nat /\ since < Timeout
        BY <1>1, <1>4, <3>1, Times DEF IsStuck
      <3>3. since' + timer' <= Timeout /\ timer' # Never
        BY <1>1, <1>5, <3>1, <3>2, RequeueCapped, Interval, Times DEF Never
      <3> QED
        BY <3>3 DEF PassInTime
    <2> QED
      BY <2>1, <2>2
  <1> QED
    BY <1>5, <1>7, <1>8, <1>9, <1>10, <1>12 DEF DrainInv

\* An event brings the copy up to date and wakes the pool.
LEMMA EventStep ==
    ASSUME DrainInv, InformerDelivers \/ OtherEvent
    PROVE  DrainInv'
  <1>1. /\ TypeOK /\ timer # 0 /\ Clocks /\ NotEarly /\ Clearing
    BY DEF DrainInv
  <1>2. /\ UNCHANGED <<pods, since, due, timer, stuck, failed, begun, gone, last>>
        /\ woken' = TRUE
        /\ \/ listed' = (since # Never) /\ sent' = FALSE
           \/ UNCHANGED <<listed, sent>>
    BY DEF InformerDelivers, OtherEvent
  <1>3. {listed', sent', woken', due', stuck', failed'} \subseteq BOOLEAN
    BY <1>1, <1>2, Booleans
  <1>4. TypeOK'
    BY <1>1, <1>2, <1>3 DEF TypeOK
  <1>5. Clocks'
    <2>1. CASE listed' = (since # Never)
      <3>1. listed' <=> since' # Never
        BY <1>2, <2>1
      <3> QED
        BY <1>1, <1>2, <3>1 DEF Clocks
    <2>2. CASE UNCHANGED <<listed, sent>>
      BY <1>1, <1>2, <2>2 DEF Clocks
    <2> QED
      BY <1>2, <2>1, <2>2
  <1>6. NotEarly' /\ Clearing'
    BY <1>1, <1>2 DEF NotEarly, Clearing, ClearInTime, Left
  <1>7. ASSUME pods' > 0, ~failed', ~stuck', since' # Never
        PROVE  PassInTime'
    <2>1. PassInTime
      BY <1>2, <1>7 DEF DrainInv
    <2> QED
      BY <1>2, <2>1 DEF PassInTime
  <1> QED
    BY <1>1, <1>2, <1>4, <1>5, <1>6, <1>7 DEF DrainInv

\* Pods that leave tell nobody, and the clock of the node's report starts.
LEMMA LeaveStep ==
    ASSUME DrainInv, PodsLeave
    PROVE  DrainInv'
  <1>1. /\ TypeOK /\ timer # 0 /\ Clocks /\ NotEarly /\ Clearing
    BY DEF DrainInv
  <1>2. /\ UNCHANGED <<since, listed, sent, woken, due, timer, stuck, failed, begun, last>>
        /\ pods > 0 /\ pods' \in 0..pods - 1
        /\ gone' = IF pods' = 0 THEN 0 ELSE gone
    BY DEF PodsLeave
  <1>3. pods' \in 0..MaxPods /\ gone' \in Never..End /\ pods' \in Nat
    BY <1>1, <1>2, Times DEF Never
  <1>4. TypeOK'
    BY <1>1, <1>2, <1>3 DEF TypeOK
  <1>5. Clocks' /\ NotEarly'
    BY <1>1, <1>2 DEF Clocks, NotEarly
  <1>6. Left = 0 /\ Left' = 0
    BY <1>2, <1>3 DEF Left
  <1>7. Clearing'
    <2>1. gone' = Never <=> pods' > 0
      BY <1>1, <1>2, <1>3 DEF Clearing, Never
    <2>2. stuck' /\ ~failed' => ClearInTime'
      BY <1>1, <1>2, <1>6 DEF Clearing, ClearInTime
    <2> QED
      BY <2>1, <2>2 DEF Clearing
  <1>8. ASSUME pods' > 0, ~failed', ~stuck', since' # Never
        PROVE  PassInTime'
    BY <1>2, <1>8 DEF DrainInv, PassInTime
  <1> QED
    BY <1>1, <1>2, <1>4, <1>5, <1>7, <1>8 DEF DrainInv

\* Time passes only when nothing is due, so that what is waiting before the
\* timeout is done when it is over.
LEMMA TickStep ==
    ASSUME DrainInv, Tick
    PROVE  DrainInv'
  <1>1. /\ TypeOK /\ timer # 0 /\ Clocks /\ NotEarly /\ Clearing /\ ~due /\ begun # End
    BY DEF DrainInv, Tick
  <1>2. /\ UNCHANGED <<pods, listed, sent, stuck, failed>>
        /\ woken' = (woken \/ timer \in {0, 1}) /\ due' = (sent \/ woken')
    BY DEF Tick
  <1>3. timer' = IF timer \in {Never, 0, 1} THEN Never ELSE timer - 1
    BY DEF Tick
  <1>4. /\ since = Never => since' = Never /\ begun' = Never
        /\ since # Never => since' = since + 1 /\ begun' = begun + 1
        /\ begun' <= End
    BY <1>1, Times DEF Tick, Later, Clocks, Never
  <1>5. {listed', sent', woken', due', stuck', failed'} \subseteq BOOLEAN
    BY <1>1, <1>2, Booleans
  <1>6. TypeOK' /\ timer' # 0
    <2>1. timer' \in Never..Longest /\ timer' # 0
      BY <1>1, <1>3, Times, Interval DEF Never
    <2>2. since' \in Never..End /\ begun' \in Never..End
      BY <1>1, <1>4, Times DEF Never, Clocks
    <2>3. last' \in Never..End /\ gone' \in Never..End
      BY <1>1, Times DEF Tick, Later, TypeOK, Never
    <2> QED
      BY <1>1, <1>2, <1>5, <2>1, <2>2, <2>3 DEF TypeOK, Longest
  <1>7. Clocks'
    <2>1. CASE since = Never
      BY <1>1, <1>2, <1>4, <2>1 DEF Clocks
    <2>2. CASE since # Never
      <3>1. since' # Never /\ begun' # Never /\ since' \in {begun', begun' - 1}
        BY <1>1, <1>4, <2>2, Times DEF Clocks, Never
      <3>2. ~listed => sent /\ begun = 0
        BY <1>1, <2>2 DEF Clocks
      <3>3. ~listed => begun' = 1
        BY <1>4, <2>2, <3>2
      <3>4. sent => due'
        BY <1>2
      <3> QED
        BY <1>2, <3>1, <3>2, <3>3, <3>4 DEF Clocks
    <2> QED
      BY <2>1, <2>2
  <1>8. NotEarly'
    <2>1. begun' >= begun
      BY <1>1, <1>4, Times DEF Clocks, Never
    <2>2. begun' \in Int
      BY <1>1, <1>4, Times DEF Clocks, Never
    <2> QED
      BY <1>1, <1>2, <2>1, <2>2, Times DEF NotEarly
  <1>10. gone' = Never <=> pods' > 0
    BY <1>1, <1>2, Times DEF Tick, Later, Clearing, Never
  <1>11. ASSUME stuck', ~failed'
         PROVE  ClearInTime'
    <2> DEFINE I == calculateRetryInterval
    <2>1. Left \in Nat /\ Left' \in Nat /\ Left' <= Left + 1 /\ I \in Nat
      <3>1. gone' = gone \/ gone' = gone + 1
        BY <1>1, Times DEF Tick, Later
      <3> QED
        BY <1>1, <1>2, <1>10, <3>1, Times, Interval DEF Left, Clearing, Never
    <2>2. ClearInTime
      BY <1>1, <1>2, <1>11 DEF Clearing
    <2>3. CASE timer # Never /\ Left + timer <= I
      <3>1. CASE timer = 1
        <4>1. woken' /\ due'
          BY <1>2, <3>1
        <4>2. Left' < I \/ Left' = I
          BY <2>1, <2>3, <3>1
        <4> QED
          BY <4>1, <4>2 DEF ClearInTime
      <3>2. CASE timer # 1
        <4>1. timer' = timer - 1 /\ timer' # Never
          BY <1>1, <1>3, <2>3, <3>2, Times DEF Never
        <4>2. Left' + timer' <= I
          BY <1>1, <2>1, <2>3, <4>1, Times
        <4> QED
          BY <4>1, <4>2 DEF ClearInTime
      <3> QED
        BY <3>1, <3>2
    <2>4. CASE (sent \/ woken) /\ Left < I
      <3>1. (sent' \/ woken') /\ due'
        BY <1>2, <2>4
      <3>2. Left' < I \/ Left' = I
        BY <2>1, <2>4
      <3> QED
        BY <3>1, <3>2 DEF ClearInTime
    <2> QED
      BY <1>1, <2>2, <2>3, <2>4 DEF ClearInTime
  <1>9. ASSUME pods' > 0, ~failed', ~stuck', since' # Never
        PROVE  PassInTime'
    <2>1. PassInTime /\ since # Never /\ since' = since + 1
      BY <1>2, <1>4, <1>9 DEF DrainInv
    <2>2. CASE timer # Never /\ since + timer <= Timeout
      <3>1. CASE timer = 1
        <4>1. woken' /\ due'
          BY <1>2, <3>1
        <4>2. since' <= Timeout
          BY <1>1, <2>1, <2>2, <3>1, Times
        <4>3. since' < Timeout \/ since' = Timeout
          BY <1>1, <2>1, <4>2, Times
        <4> QED
          BY <4>1, <4>3 DEF PassInTime
      <3>2. CASE timer # 1
        <4>1. timer' = timer - 1 /\ timer' # Never
          BY <1>1, <1>3, <2>2, <3>2, Times DEF Never
        <4>2. since' + timer' <= Timeout
          BY <1>1, <2>1, <2>2, <4>1, Times
        <4> QED
          BY <4>1, <4>2 DEF PassInTime
      <3> QED
        BY <3>1, <3>2
    <2>3. CASE (sent \/ woken) /\ since < Timeout
      <3>1. (sent' \/ woken') /\ due'
        BY <1>2, <2>3
      <3>2. since' < Timeout \/ since' = Timeout
        BY <1>1, <2>1, <2>3, Times
      <3> QED
        BY <3>1, <3>2 DEF PassInTime
    <2> QED
      BY <1>1, <2>1, <2>2, <2>3 DEF PassInTime
  <1> QED
    BY <1>6, <1>7, <1>8, <1>9, <1>10, <1>11 DEF DrainInv, Clearing

LEMMA DrainInvariant == Spec => []DrainInv
  <1>1. Init => DrainInv
    BY InitDrain
  <1>2. DrainInv /\ [Next]_drainVars => DrainInv'
    <2> SUFFICES ASSUME DrainInv, [Next]_drainVars
                 PROVE  DrainInv'
      OBVIOUS
    <2>1. CASE UNCHANGED drainVars
      BY <2>1 DEF drainVars, DrainInv, TypeOK, Clocks, NotEarly, Clearing, ClearInTime,
                  Left, PassInTime
    <2> QED
      BY <2>1, PassWithoutStart, PassWithStart, EventStep, LeaveStep, TickStep DEF Next
  <1> QED
    BY <1>1, <1>2, PTL DEF Spec

\* Clocks, timer and pods stay within their bounds.
THEOREM DrainTypes == Spec => []TypeOK
  <1>1. DrainInv => TypeOK
    BY DEF DrainInv
  <1> QED
    BY <1>1, DrainInvariant, PTL

\* No drain is given up before its timeout (drain.go:243), and a node whose pods have
\* left, be it between two passes, is reported no longer than until the next retry.
THEOREM NeverStuckEarly == Spec => []StuckNotEarly
  <1>1. DrainInv => StuckNotEarly
    <2> SUFFICES ASSUME DrainInv, stuck
                 PROVE  begun >= Timeout
                        /\ (pods > 0 \/ failed \/ gone <= calculateRetryInterval)
      BY DEF StuckNotEarly
    <2>1. TypeOK /\ timer # 0 /\ NotEarly /\ Clearing
      BY DEF DrainInv
    <2>2. ASSUME ~failed, ~(pods > 0)
          PROVE  gone <= calculateRetryInterval
      <3>1. ClearInTime /\ Left = gone
        BY <2>1, <2>2 DEF Clearing, Left
      <3>2. timer # Never => timer >= 1
        BY <2>1, Times DEF Never
      <3> QED
        BY <2>1, <3>1, <3>2, Times, Interval DEF ClearInTime
    <2> QED
      BY <2>1, <2>2 DEF NotEarly
  <1> QED
    BY <1>1, DrainInvariant, PTL

\* A drain that still has pods when its timeout and one tick are over is reported
\* as stuck, whatever the interval of the retries, whatever else wakes the pool
\* and however many passes failed, unless the last one did (drain.go:247).
THEOREM AlwaysStuckInTime == Spec => []StuckInTime
  <1>1. DrainInv => StuckInTime
    <2> SUFFICES ASSUME DrainInv, begun > Timeout + 1, pods > 0, ~failed, ~stuck
                 PROVE  FALSE
      BY DEF StuckInTime
    <2>1. TypeOK /\ Clocks /\ timer # 0
      BY DEF DrainInv
    <2>2. since # Never /\ since >= begun - 1
      BY <2>1, Times DEF Clocks, Never
    <2>3. PassInTime
      BY <2>2 DEF DrainInv
    <2>4. timer # Never => timer >= 1
      BY <2>1, Times DEF Never
    <2>5. since <= Timeout
      BY <2>1, <2>3, <2>4, Times DEF PassInTime
    <2> QED
      BY <2>1, <2>2, <2>5, Times
  <1> QED
    BY <1>1, DrainInvariant, PTL
=============================================================================
