------------------------------ MODULE Heartbeat ------------------------------
(***************************************************************************)
(* The heartbeat monitor of NetworkManager (lsserver/src/network.rs): a    *)
(* thread that notes when each tracked power supply was heard last, and a  *)
(* watchdog that reports supplies lost and back.                           *)
(*                                                                         *)
(* The two share pds_heartbeats behind a lock that each holds for one      *)
(* action here.  The supplies are the environment: each sends a heartbeat  *)
(* every Interval, which takes up to MaxDelay or gets lost, also because   *)
(* the supply is off.  Time is counted in a unit the constants share.      *)
(***************************************************************************)
EXTENDS Integers

CONSTANTS
  Tracked,     \* the supplies start put into pds_heartbeats
  Strangers,   \* others that send heartbeats to the port
  Interval, MaxDelay,
  Limit,       \* PDS_TIMEOUT_LIMIT
  CheckEvery,  \* the watchdog's sleep
  MaxLate      \* how much later it may look, for its wake-up and the lock

NoBeat == -1   \* no heartbeat of the supply is on its way

ASSUME HeartbeatAssumption ==
  /\ Tracked \cap Strangers = {}
  /\ Interval \in Nat /\ MaxDelay \in Nat /\ MaxDelay < Interval
  /\ Limit \in Nat
  /\ CheckEvery \in Nat \ {0}
  /\ MaxLate \in Nat

VARIABLES
  age,          \* elapsed() of each entry of pds_heartbeats
  offline,      \* the watchdog's set of supplies it has reported lost
  since_check,  \* time since the watchdog looked last
  (* the environment *)
  due,          \* time until a supply sends its next heartbeat
  flying,       \* time its last heartbeat has been on its way, or NoBeat
  missed        \* history: heartbeats of a supply lost in a row, 2 for more

vars == <<age, offline, since_check, due, flying, missed>>

\* Ages are told apart up to the time by which the watchdog must have noticed.
MaxAge == Limit + CheckEvery + MaxLate + 1
-----------------------------------------------------------------------------
(* The supplies and the network *)

Lose(p) ==
  /\ due[p] = 0
  /\ due' = [due EXCEPT ![p] = Interval]
  /\ missed' = [missed EXCEPT ![p] = IF @ < 2 THEN @ + 1 ELSE 2]
  /\ UNCHANGED <<age, offline, since_check, flying>>

Beat(p) ==
  /\ due[p] = 0
  /\ due' = [due EXCEPT ![p] = Interval]
  /\ flying' = [flying EXCEPT ![p] = 0]
  /\ UNCHANGED <<age, offline, since_check, missed>>

\* A unit of time passes unless something is due in it.
Pass ==
  /\ \A p \in Tracked : due[p] > 0 /\ flying[p] < MaxDelay
  /\ since_check < CheckEvery + MaxLate
  /\ age' = [p \in DOMAIN age |-> IF age[p] < MaxAge THEN age[p] + 1 ELSE MaxAge]
  /\ since_check' = since_check + 1
  /\ due' = [p \in Tracked |-> due[p] - 1]
  /\ flying' = [p \in Tracked |-> IF flying[p] = NoBeat THEN NoBeat ELSE flying[p] + 1]
  /\ UNCHANGED <<offline, missed>>
-----------------------------------------------------------------------------
(* The two threads *)

\* A receiver that starts to track whoever it hears.
NoteAnyone(p) == [q \in DOMAIN age \cup {p} |-> IF q = p THEN 0 ELSE age[q]]

\* Only supplies that are tracked already are noted.
Note(p) == [q \in DOMAIN age |-> IF q = p THEN 0 ELSE age[q]]

ReceiveHeartbeat(p) ==
  /\ flying[p] # NoBeat
  /\ age' = Note(p)
  /\ flying' = [flying EXCEPT ![p] = NoBeat]
  /\ missed' = [missed EXCEPT ![p] = 0]
  /\ UNCHANGED <<offline, since_check, due>>

\* A stranger may be heard at any time.
ReceiveFromStranger(p) ==
  /\ age' = Note(p)
  /\ UNCHANGED <<offline, since_check, due, flying, missed>>

\* A comparison that times out at the limit.
SilentFrom(p) == age[p] >= Limit

Silent(p) == age[p] > Limit

\* A watchdog that forgets to take a supply back.
JudgeForGood == offline \cup {p \in DOMAIN age : Silent(p)}

\* A watchdog that looks for one lost supply only.
JudgeOne ==
  IF \E p \in DOMAIN age : Silent(p)
    THEN {CHOOSE p \in DOMAIN age : Silent(p)} ELSE {}

\* Supplies over the limit are put in, with an error logged if they were not;
\* the others are taken out, with a note if they were in.
Judge ==
  (offline \cup {p \in DOMAIN age : Silent(p)}) \ {p \in DOMAIN age : ~Silent(p)}

Watchdog ==
  /\ since_check >= CheckEvery
  /\ offline' = Judge
  /\ since_check' = 0
  /\ UNCHANGED <<age, due, flying, missed>>
-----------------------------------------------------------------------------
Init ==
  /\ age = [p \in Tracked |-> 0]
  /\ offline = {}
  /\ since_check = 0
  /\ due \in [Tracked -> 0 .. Interval]
  /\ flying = [p \in Tracked |-> NoBeat]
  /\ missed = [p \in Tracked |-> 0]

Next ==
  \/ Pass
  \/ Watchdog
  \/ \E p \in Tracked : Lose(p) \/ Beat(p) \/ ReceiveHeartbeat(p)
  \/ \E p \in Strangers : ReceiveFromStranger(p)

Spec == Init /\ [][Next]_vars

\* Time passes, and what it bounds happens: nothing stops both.
FairSpec == Spec /\ WF_vars(Next)
-----------------------------------------------------------------------------
(* Properties *)

\* The receiver notes supplies that were discovered and no others.
TypeOK ==
  /\ age \in [Tracked -> 0 .. MaxAge]
  /\ offline \subseteq Tracked
  /\ since_check \in 0 .. CheckEvery + MaxLate
  /\ due \in [Tracked -> 0 .. Interval]
  /\ flying \in [Tracked -> 0 .. MaxDelay \cup {NoBeat}]
  /\ missed \in [Tracked -> 0 .. 2]

\* "90s interval * 2 + 20s grace period" (PDS_TIMEOUT_LIMIT): a supply is
\* reported lost only after two of its heartbeats in a row were lost, however
\* late the one before and the one after came.
NoFalseAlarm ==
  [][\A p \in offline' \ offline : missed[p] = 2]_vars

\* A supply that was silent for longer than the limit and a watchdog's round is
\* reported, whatever the other supplies do.
LossNoticed ==
  \A p \in Tracked : age[p] > Limit + CheckEvery + MaxLate => p \in offline

\* Once heartbeats get through again every report is taken back for good.
ReportsTakenBack ==
  <>[][~\E p \in Tracked : Lose(p)]_vars => <>[](offline = {})
=============================================================================
