--------------------------- MODULE HeartbeatProofs ---------------------------
(***************************************************************************)
(* Proofs about the heartbeat monitor for any number of supplies and any   *)
(* intervals, delays and limits.                                           *)
(*                                                                         *)
(* A lost supply is noticed because what has been over the limit for as    *)
(* long as the watchdog has slept is reported already (NoticedInv).  There *)
(* are no false alarms because the age of a supply is bounded by how many  *)
(* of its heartbeats were lost and how far the next one is (AgeInv); that  *)
(* needs a limit of two intervals and a delay at least, which the code     *)
(* takes to be the 20 s of grace.                                          *)
(***************************************************************************)
EXTENDS Heartbeat, TLAPS

\* Every step keeps the types: the receiver notes supplies that were discovered and
\* no others.
LEMMA TypeStep ==
  ASSUME TypeOK, [Next]_vars
  PROVE  TypeOK'
<1> USE HeartbeatAssumption
<1>0. MaxAge \in Nat /\ CheckEvery + MaxLate \in Nat
  BY DEF MaxAge
<1>1. CASE Pass
  <2>1. age' \in [Tracked -> 0 .. MaxAge]
    BY <1>0, <1>1 DEF Pass, TypeOK
  <2>2. due' \in [Tracked -> 0 .. Interval]
    BY <1>1 DEF Pass, TypeOK
  <2>3. flying' \in [Tracked -> 0 .. MaxDelay \cup {NoBeat}]
    BY <1>1 DEF Pass, TypeOK, NoBeat
  <2>4. since_check' \in 0 .. CheckEvery + MaxLate
    BY <1>0, <1>1 DEF Pass, TypeOK
  <2>5. QED
    BY <1>1, <2>1, <2>2, <2>3, <2>4 DEF Pass, TypeOK
<1>2. CASE Watchdog
  <2>1. offline' \subseteq Tracked
    BY <1>2 DEF Watchdog, Judge, TypeOK
  <2>2. QED
    BY <1>0, <1>2, <2>1 DEF Watchdog, TypeOK
<1>3. ASSUME NEW p \in Tracked, Lose(p)
      PROVE  TypeOK'
  BY <1>3 DEF Lose, TypeOK
<1>4. ASSUME NEW p \in Tracked, Beat(p)
      PROVE  TypeOK'
  BY <1>4 DEF Beat, TypeOK
<1>5. ASSUME NEW p, age' = Note(p)
      PROVE  age' \in [Tracked -> 0 .. MaxAge]
  BY <1>0, <1>5 DEF Note, TypeOK
<1>6. ASSUME NEW p \in Tracked, ReceiveHeartbeat(p)
      PROVE  TypeOK'
  BY <1>5, <1>6 DEF ReceiveHeartbeat, TypeOK
<1>7. ASSUME NEW p \in Strangers, ReceiveFromStranger(p)
      PROVE  TypeOK'
  BY <1>5, <1>7 DEF ReceiveFromStranger, TypeOK
<1>8. CASE UNCHANGED vars
  BY <1>8 DEF vars, TypeOK
<1>9. QED
  BY <1>1, <1>2, <1>3, <1>4, <1>6, <1>7, <1>8 DEF Next

\* For any number of supplies and strangers, only supplies that were discovered are
\* noted and reported (heartbeat_thread, watchdog).
THEOREM TypeCorrect == Spec => []TypeOK
<1>1. Init => TypeOK
  BY HeartbeatAssumption DEF Init, TypeOK, MaxAge, NoBeat
<1>2. TypeOK /\ [Next]_vars => TypeOK'
  BY TypeStep
<1>3. QED
  BY <1>1, <1>2, PTL DEF Spec
-----------------------------------------------------------------------------
(* What is lost is noticed *)

\* What has been over the limit since the watchdog looked last is reported.
NoticedInv == \A p \in Tracked : age[p] > Limit + since_check => p \in offline

\* Time adds as much to an age as to the time since the watchdog looked.
LEMMA NoticedStep ==
  ASSUME TypeOK, NoticedInv, [Next]_vars
  PROVE  NoticedInv'
<1> USE HeartbeatAssumption
<1>0. since_check \in Nat /\ \A p \in Tracked : age[p] \in Nat
  BY DEF TypeOK
<1>1. CASE Pass
  <2>1. SUFFICES ASSUME NEW p \in Tracked, age'[p] > Limit + since_check'
                 PROVE  p \in offline'
    BY DEF NoticedInv
  <2>2. age'[p] <= age[p] + 1 /\ since_check' = since_check + 1 /\ offline' = offline
    <3>1. age'[p] = IF age[p] < MaxAge THEN age[p] + 1 ELSE MaxAge
      BY <1>1 DEF Pass, TypeOK
    <3>2. age[p] \in 0 .. MaxAge /\ MaxAge \in Nat
      BY DEF TypeOK, MaxAge
    <3>3. QED
      BY <1>1, <3>1, <3>2 DEF Pass
  <2>3. age'[p] \in Nat
    BY TypeStep DEF TypeOK
  <2>4. QED
    BY <1>0, <2>1, <2>2, <2>3 DEF NoticedInv
<1>2. CASE Watchdog
  <2>1. SUFFICES ASSUME NEW p \in Tracked, age'[p] > Limit + since_check'
                 PROVE  p \in offline'
    BY DEF NoticedInv
  <2>2. age[p] > Limit
    BY <1>2, <2>1 DEF Watchdog
  <2>3. p \in DOMAIN age /\ Silent(p)
    BY <2>2 DEF Silent, TypeOK
  <2>4. QED
    BY <1>2, <2>3 DEF Watchdog, Judge
<1>3. ASSUME NEW p, age' = Note(p), UNCHANGED <<offline, since_check>>
      PROVE  NoticedInv'
  <2>1. SUFFICES ASSUME NEW q \in Tracked, age'[q] > Limit + since_check'
                 PROVE  q \in offline'
    BY DEF NoticedInv
  <2>2. age'[q] = IF q = p THEN 0 ELSE age[q]
    BY <1>3 DEF Note, TypeOK
  <2>3. QED
    BY <1>0, <1>3, <2>1, <2>2 DEF NoticedInv
<1>4. CASE UNCHANGED <<age, offline, since_check>>
  BY <1>4 DEF NoticedInv
<1>5. QED
  BY <1>1, <1>2, <1>3, <1>4
     DEF Next, vars, Lose, Beat, ReceiveHeartbeat, ReceiveFromStranger

\* A supply that was silent for longer than the limit and a watchdog's round is
\* reported, whatever the other supplies and strangers do and however late the
\* watchdog wakes up (watchdog, PDS_TIMEOUT_LIMIT).
THEOREM LossCorrect == Spec => []LossNoticed
<1>1. Init => NoticedInv
  BY HeartbeatAssumption DEF Init, NoticedInv
<1>2. TypeOK /\ NoticedInv /\ [Next]_vars => NoticedInv'
  BY NoticedStep
<1>3. TypeOK /\ NoticedInv => LossNoticed
  <2>1. SUFFICES ASSUME TypeOK, NoticedInv, NEW p \in Tracked,
                        age[p] > Limit + CheckEvery + MaxLate
                 PROVE  p \in offline
    BY DEF LossNoticed
  <2>2. age[p] \in Nat /\ since_check \in 0 .. CheckEvery + MaxLate
    BY <2>1, HeartbeatAssumption DEF TypeOK
  <2>3. age[p] > Limit + since_check
    BY <2>1, <2>2, HeartbeatAssumption
  <2>4. QED
    BY <2>1, <2>3 DEF NoticedInv
<1>4. QED
  BY <1>1, <1>2, <1>3, TypeCorrect, PTL DEF Spec
-----------------------------------------------------------------------------
(* Nothing else is reported *)

\* A heartbeat on its way is the last that was sent.
FlyingInv == \A p \in Tracked : flying[p] # NoBeat => flying[p] + due[p] = Interval

\* The age of a supply counts the time since its last heartbeat was sent, and an
\* interval more for each one that was lost or is on its way since.
AgeInv ==
  \A p \in Tracked :
    /\ missed[p] = 0 /\ flying[p] = NoBeat => age[p] + due[p] <= Interval
    /\ missed[p] = 0 /\ flying[p] # NoBeat => age[p] + due[p] <= 2 * Interval
    /\ missed[p] = 1 /\ flying[p] = NoBeat => age[p] + due[p] <= 2 * Interval
    /\ missed[p] = 1 /\ flying[p] # NoBeat => age[p] + due[p] <= 3 * Interval

\* The next heartbeat is sent when the last has arrived.
LEMMA FlyingStep ==
  ASSUME TypeOK, FlyingInv, [Next]_vars
  PROVE  FlyingInv'
<1> USE HeartbeatAssumption
<1>1. CASE Pass
  BY <1>1 DEF Pass, FlyingInv, TypeOK, NoBeat
<1>2. ASSUME NEW p \in Tracked, Lose(p)
      PROVE  FlyingInv'
  <2>1. flying[p] = NoBeat
    BY <1>2 DEF Lose, FlyingInv, TypeOK, NoBeat
  <2>2. QED
    BY <1>2, <2>1 DEF Lose, FlyingInv, TypeOK
<1>3. ASSUME NEW p \in Tracked, Beat(p)
      PROVE  FlyingInv'
  BY <1>3 DEF Beat, FlyingInv, TypeOK
<1>4. ASSUME NEW p \in Tracked, ReceiveHeartbeat(p)
      PROVE  FlyingInv'
  BY <1>4 DEF ReceiveHeartbeat, FlyingInv, TypeOK
<1>5. CASE UNCHANGED <<flying, due>>
  BY <1>5 DEF FlyingInv
<1>6. QED
  BY <1>1, <1>2, <1>3, <1>4, <1>5 DEF Next, vars, Watchdog, ReceiveFromStranger

\* Hearing a supply makes no age longer.
LEMMA NoteYounger ==
  ASSUME TypeOK, NEW p, age' = Note(p)
  PROVE  \A q \in Tracked : age'[q] <= age[q] /\ age'[q] \in Nat /\ (q = p => age'[q] = 0)
<1>1. \A q \in Tracked : age'[q] = IF q = p THEN 0 ELSE age[q]
  BY DEF Note, TypeOK
<1>2. \A q \in Tracked : age[q] \in Nat
  BY DEF TypeOK
<1>3. QED
  BY <1>1, <1>2

\* Time moves from the next heartbeat to the age; a loss or a heartbeat adds an interval.
LEMMA AgeStep ==
  ASSUME TypeOK, FlyingInv, AgeInv, [Next]_vars
  PROVE  AgeInv'
<1> USE HeartbeatAssumption
<1>0. \A p \in Tracked : /\ age[p] \in Nat /\ due[p] \in 0 .. Interval
                         /\ missed[p] \in 0 .. 2
                         /\ flying[p] # NoBeat => flying[p] \in 0 .. MaxDelay
  BY DEF TypeOK
<1>1. CASE Pass
  <2>1. ASSUME NEW p \in Tracked
        PROVE  /\ age'[p] <= age[p] + 1 /\ age'[p] \in Nat
               /\ due'[p] = due[p] - 1
               /\ flying'[p] = NoBeat <=> flying[p] = NoBeat
               /\ missed'[p] = missed[p]
    <3>1. age'[p] = IF age[p] < MaxAge THEN age[p] + 1 ELSE MaxAge
      BY <1>1 DEF Pass, TypeOK
    <3>2. age[p] \in 0 .. MaxAge /\ MaxAge \in Nat
      BY DEF TypeOK, MaxAge
    <3>3. due'[p] = due[p] - 1 /\ missed'[p] = missed[p]
      BY <1>1 DEF Pass
    <3>4. flying'[p] = NoBeat <=> flying[p] = NoBeat
      BY <1>0, <1>1 DEF Pass, NoBeat
    <3>5. QED
      BY <3>1, <3>2, <3>3, <3>4
  <2>2. QED
    BY <1>0, <2>1 DEF AgeInv
<1>2. ASSUME NEW p \in Tracked, Lose(p)
      PROVE  AgeInv'
  <2>1. flying[p] = NoBeat /\ due[p] = 0
    BY <1>2 DEF Lose, FlyingInv, TypeOK, NoBeat
  <2>2. due'[p] = Interval /\ missed'[p] = IF missed[p] < 2 THEN missed[p] + 1 ELSE 2
    BY <1>2 DEF Lose, TypeOK
  <2>3. \A q \in Tracked \ {p} : due'[q] = due[q] /\ missed'[q] = missed[q]
    BY <1>2 DEF Lose, TypeOK
  <2>4. UNCHANGED <<age, flying>>
    BY <1>2 DEF Lose
  <2>5. QED
    BY <1>0, <2>1, <2>2, <2>3, <2>4 DEF AgeInv
<1>3. ASSUME NEW p \in Tracked, Beat(p)
      PROVE  AgeInv'
  <2>1. flying[p] = NoBeat /\ due[p] = 0
    BY <1>3 DEF Beat, FlyingInv, TypeOK, NoBeat
  <2>2. due'[p] = Interval /\ flying'[p] # NoBeat
    BY <1>3 DEF Beat, TypeOK, NoBeat
  <2>3. \A q \in Tracked \ {p} : due'[q] = due[q] /\ flying'[q] = flying[q]
    BY <1>3 DEF Beat, TypeOK
  <2>4. UNCHANGED <<age, missed>>
    BY <1>3 DEF Beat
  <2>5. QED
    BY <1>0, <2>1, <2>2, <2>3, <2>4 DEF AgeInv
<1>4. ASSUME NEW p \in Tracked, ReceiveHeartbeat(p)
      PROVE  AgeInv'
  <2>1. /\ age'[p] = 0 /\ flying'[p] = NoBeat /\ missed'[p] = 0
        /\ due' = due /\ due[p] <= Interval
    BY <1>0, <1>4, NoteYounger DEF ReceiveHeartbeat, TypeOK
  <2>2. \A q \in Tracked \ {p} : flying'[q] = flying[q] /\ missed'[q] = missed[q]
    BY <1>4 DEF ReceiveHeartbeat, TypeOK
  <2>3. \A q \in Tracked : age'[q] <= age[q] /\ age'[q] \in Nat
    BY <1>4, NoteYounger DEF ReceiveHeartbeat
  <2>4. QED
    BY <1>0, <2>1, <2>2, <2>3 DEF AgeInv
<1>5. ASSUME NEW p \in Strangers, ReceiveFromStranger(p)
      PROVE  AgeInv'
  <2>1. \A q \in Tracked : age'[q] <= age[q] /\ age'[q] \in Nat
    BY <1>5, NoteYounger DEF ReceiveFromStranger
  <2>2. UNCHANGED <<due, flying, missed>>
    BY <1>5 DEF ReceiveFromStranger
  <2>3. QED
    BY <1>0, <2>1, <2>2 DEF AgeInv
<1>6. CASE UNCHANGED <<age, due, flying, missed>>
  BY <1>6 DEF AgeInv
<1>7. QED
  BY <1>1, <1>2, <1>3, <1>4, <1>5, <1>6 DEF Next, vars, Watchdog

\* If the limit is two intervals and the longest delay at least, a supply is reported
\* only after two of its heartbeats in a row were lost (PDS_TIMEOUT_LIMIT).
THEOREM NoFalseAlarmCorrect ==
  ASSUME Limit >= 2 * Interval + MaxDelay
  PROVE  Spec => NoFalseAlarm
<1> USE HeartbeatAssumption
<1>1. Init => FlyingInv /\ AgeInv
  BY DEF Init, FlyingInv, AgeInv, NoBeat
<1>2. TypeOK /\ FlyingInv /\ AgeInv /\ [Next]_vars => FlyingInv' /\ AgeInv'
  BY FlyingStep, AgeStep
<1>3. TypeOK /\ FlyingInv /\ AgeInv /\ [Next]_vars =>
        [\A p \in offline' \ offline : missed[p] = 2]_vars
  <2>1. SUFFICES ASSUME TypeOK, FlyingInv, AgeInv, [Next]_vars,
                        NEW p \in offline', p \notin offline
                 PROVE  missed[p] = 2
    OBVIOUS
  <2>2. p \in Tracked /\ Silent(p)
    <3>1. Watchdog
      BY <2>1 DEF Next, vars, Pass, Lose, Beat, ReceiveHeartbeat, ReceiveFromStranger
    <3>2. p \in DOMAIN age /\ Silent(p)
      BY <2>1, <3>1 DEF Watchdog, Judge
    <3>3. QED
      BY <2>1, <3>2 DEF TypeOK
  <2>3. /\ age[p] \in Nat /\ due[p] \in 0 .. Interval /\ missed[p] \in 0 .. 2
        /\ flying[p] # NoBeat => flying[p] \in 0 .. MaxDelay
    BY <2>1, <2>2 DEF TypeOK
  <2>4. age[p] > 2 * Interval + MaxDelay
    BY <2>2, <2>3 DEF Silent
  <2>5. flying[p] # NoBeat => due[p] >= Interval - MaxDelay
    BY <2>1, <2>2, <2>3 DEF FlyingInv
  <2>6. QED
    BY <2>1, <2>2, <2>3, <2>4, <2>5 DEF AgeInv
<1>4. QED
  BY <1>1, <1>2, <1>3, TypeCorrect, PTL DEF Spec, NoFalseAlarm
=============================================================================
