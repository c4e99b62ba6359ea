---------------------------- MODULE SessionProofs ----------------------------
(***************************************************************************)
(* Proofs about WebSocket sessions for any number of clients, any captures *)
(* and any capacity of the channel.                                        *)
(*                                                                         *)
(* Whatever the stage announces ends with its mode, so a backlog that is   *)
(* not empty does too, however many events were dropped in front of it     *)
(* (Latest).  A session that has not lagged owes its client exactly what   *)
(* it is sending and what it has not read yet (Owed).                      *)
(***************************************************************************)
EXTENDS WsSession, SequenceTheorems, TLAPS

Message == {None, Answer} \cup Event \cup {ModeAnswer(m) : m \in Mode}

\* The domains and ranges of the functions.
TypeInv ==
  /\ mode \in Mode
  /\ conn \in [Client -> {"closed", "select", "send"}]
  /\ backlog \in [Client -> Seq(Event)]
  /\ due \in [Client -> Seq(Event)]
  /\ outgoing \in [Client -> Message]
  /\ lagged \in [Client -> BOOLEAN]
  /\ view \in [Client -> Mode \cup {"Unknown"}]

\* A backlog ends with the stage's mode.  Behind an empty one the client is being
\* told the mode, or knows it.
Latest(c) ==
  IF backlog[c] # <<>>
    THEN backlog[c][Len(backlog[c])] = ModeChanged(mode)
    ELSE IF conn[c] = "send" /\ outgoing[c].type \in {"ModeChanged", "ModeAnswer"}
           THEN outgoing[c].mode = mode
           ELSE view[c] \in {"Unknown", mode}

\* The session is sending an event.
Relaying(c) == conn[c] = "send" /\ IsEvent(outgoing[c])

\* What is due begins with the event that is being sent, and goes on with the
\* backlog unless the session has lagged.
Owed(c) ==
  /\ Relaying(c) => due[c] # <<>> /\ Head(due[c]) = outgoing[c]
  /\ ~lagged[c] => backlog[c] = IF Relaying(c) THEN Tail(due[c]) ELSE due[c]

\* What a session must keep; a closed one has nothing.
Kept(c) ==
  /\ Len(backlog[c]) <= Capacity
  /\ outgoing[c] = None <=> conn[c] # "send"
  /\ ~Open(c) => backlog[c] = <<>> /\ due[c] = <<>> /\ ~lagged[c] /\ view[c] = "Unknown"
  /\ Latest(c)
  /\ Owed(c)

SessionInv == TypeInv /\ \A c \in Client : Kept(c)

\* Messages are told apart by their type.
LEMMA Messages ==
  /\ ~IsEvent(None) /\ ~IsEvent(Answer) /\ Answer # None
  /\ Answer.type \notin {"ModeChanged", "ModeAnswer"}
  /\ \A m : /\ ~IsEvent(ModeAnswer(m)) /\ ModeAnswer(m) # None
            /\ ModeAnswer(m).type = "ModeAnswer" /\ ModeAnswer(m).mode = m
            /\ ModeChanged(m).type = "ModeChanged" /\ ModeChanged(m).mode = m
  /\ \A e \in Event : IsEvent(e) /\ e # None
BY DEF IsEvent, None, Answer, ModeAnswer, Event, ModeChanged, CaptureFinished

\* A message that tells a mode, of the modes there are.
LEMMA ModeOfMessage ==
  ASSUME NEW x \in Message, x.type \in {"ModeChanged", "ModeAnswer"}
  PROVE  x.mode \in Mode
BY DEF Message, None, Answer, ModeAnswer, Event, ModeChanged, CaptureFinished
-----------------------------------------------------------------------------
(* What the stage announces *)

\* An operation announces nothing and leaves the mode, or its last event tells the
\* mode it leaves the stage in.
Announces ==
  /\ mode' \in Mode
  /\ announced' \in Seq(Event)
  /\ announced' = <<>> => mode' = mode
  /\ announced' # <<>> => announced'[Len(announced')] = ModeChanged(mode')

\* Every operation of the stage announces its mode last.
LEMMA StageAnnounces ==
  ASSUME mode \in Mode,
         IdleTick \/ ManualTick \/ ShootTick \/ FinishTick \/ ChangeStage
  PROVE  Announces
<1>1. CASE UNCHANGED mode /\ announced' = <<>>
  <2>1. <<>> \in Seq(Event)
    OBVIOUS
  <2>2. QED
    BY <1>1, <2>1 DEF Announces
<1>2. ASSUME NEW m \in Mode, Enter(m)
      PROVE  Announces
  <2>1. CASE m = mode
    BY <1>1, <1>2, <2>1 DEF Enter
  <2>2. CASE m # mode
    <3>1. mode' = m /\ announced' = <<ModeChanged(m)>>
      BY <1>2, <2>2 DEF Enter
    <3>2. ModeChanged(m) \in Event
      BY DEF Event
    <3> DEFINE e == ModeChanged(m)
    <3>3. <<e>> \in Seq(Event) /\ <<e>> # <<>> /\ <<e>>[Len(<<e>>)] = e
      BY <3>2
    <3>4. QED
      BY <3>1, <3>3 DEF Announces
  <2>3. QED
    BY <2>1, <2>2
<1>3. CASE FinishTick
  <2> DEFINE e == ModeChanged("Demo")
             f == CaptureFinished
  <2>1. mode' = "Demo" /\ announced' = <<f, e>>
    BY <1>3 DEF FinishTick
  <2>2. e \in Event /\ f \in Event /\ "Demo" \in Mode
    BY DEF Event, Mode
  <2> HIDE DEF f
  <2>3. <<f, e>> \in Seq(Event) /\ <<f, e>> # <<>> /\ <<f, e>>[Len(<<f, e>>)] = e
    <3> HIDE DEF e
    <3>1. QED
      BY <2>2
  <2>4. QED
    BY <2>1, <2>2, <2>3 DEF Announces
<1>4. CASE IdleTick \/ ManualTick \/ ShootTick
  BY <1>1, <1>4 DEF IdleTick, ManualTick, ShootTick
<1>5. CASE ChangeStage
  <2>1. CASE BeginCapture
    BY <1>2, <2>1 DEF BeginCapture, Mode
  <2>2. CASE BeginIdleOrManual
    BY <1>2, <2>2 DEF BeginIdleOrManual, Mode
  <2>3. CASE QueueTrigger \/ Refuse
    BY <1>1, <2>3 DEF QueueTrigger, Refuse
  <2>4. QED
    BY <1>5, <2>1, <2>2, <2>3 DEF ChangeStage
<1>6. QED
  BY <1>3, <1>4, <1>5
-----------------------------------------------------------------------------
(* What the channel keeps *)

\* KeepLast keeps no more than the channel holds, and the last event.
LEMMA KeepLastKeeps ==
  ASSUME NEW S, NEW s \in Seq(S)
  PROVE  /\ KeepLast(s) \in Seq(S)
         /\ Len(KeepLast(s)) <= Capacity
         /\ Len(s) <= Capacity => KeepLast(s) = s
         /\ s # <<>> => KeepLast(s) # <<>> /\ KeepLast(s)[Len(KeepLast(s))] = s[Len(s)]
<1> USE SessionAssumption
<1>1. CASE Len(s) <= Capacity
  BY <1>1 DEF KeepLast
<1>2. CASE Len(s) > Capacity
  <2> DEFINE m == Len(s) - Capacity + 1
             kept == SubSeq(s, m, Len(s))
  <2>1. m \in 2 .. Len(s) /\ \A i \in m .. Len(s) : s[i] \in S
    BY <1>2
  <2>2. /\ kept \in Seq(S)
        /\ Len(kept) = Capacity
        /\ \A i \in 1 .. Capacity : kept[i] = s[m + i - 1]
    <3>1. Len(s) - m + 1 = Capacity /\ m \in Int /\ Len(s) \in Int /\ m <= Len(s)
      BY <1>2
    <3> HIDE DEF m
    <3>2. QED
      BY <2>1, <3>1, SubSeqProperties
  <2>3. kept[Capacity] = s[Len(s)]
    <3> HIDE DEF kept, m
    <3>1. kept[Capacity] = s[m + Capacity - 1]
      <4>1. Capacity \in 1 .. Capacity
        OBVIOUS
      <4>2. QED
        BY <2>2, <4>1
    <3>2. m + Capacity - 1 = Len(s)
      BY DEF m
    <3>3. QED
      BY <3>1, <3>2
  <2>4. KeepLast(s) = kept
    BY <1>2 DEF KeepLast
  <2> HIDE DEF kept, m
  <2>5. kept # <<>>
    BY <2>2
  <2>6. QED
    BY <1>2, <2>2, <2>3, <2>4, <2>5
<1>3. QED
  BY <1>1, <1>2

\* A list of two parts: its first element and its last.
LEMMA Parts ==
  ASSUME NEW S, NEW s \in Seq(S), NEW t \in Seq(S)
  PROVE  /\ s \o t \in Seq(S) /\ Len(s \o t) = Len(s) + Len(t)
         /\ t = <<>> => s \o t = s
         /\ t # <<>> => s \o t # <<>> /\ (s \o t)[Len(s \o t)] = t[Len(t)]
         /\ s # <<>> => /\ s \o t # <<>>
                        /\ Head(s \o t) = Head(s)
                        /\ Tail(s \o t) = Tail(s) \o t
<1>1. /\ s \o t \in Seq(S) /\ Len(s \o t) = Len(s) + Len(t)
      /\ \A i \in 1 .. Len(s) + Len(t) :
           (s \o t)[i] = IF i <= Len(s) THEN s[i] ELSE t[i - Len(s)]
  BY ConcatProperties
<1>2. t = <<>> => s \o t = s
  BY ConcatEmptySeq
<1>3. ASSUME t # <<>>
      PROVE  s \o t # <<>> /\ (s \o t)[Len(s \o t)] = t[Len(t)]
  <2>1. Len(t) \in Nat \ {0} /\ Len(s) \in Nat
    BY <1>3
  <2>2. (s \o t)[Len(s) + Len(t)] = t[(Len(s) + Len(t)) - Len(s)]
    BY <1>1, <2>1
  <2>3. (Len(s) + Len(t)) - Len(s) = Len(t)
    BY <2>1
  <2>4. QED
    BY <1>1, <2>1, <2>2, <2>3
<1>4. ASSUME s # <<>>
      PROVE  /\ s \o t # <<>>
             /\ Head(s \o t) = Head(s)
             /\ Tail(s \o t) = Tail(s) \o t
  <2>1. Len(s) \in Nat \ {0} /\ Len(t) \in Nat
    BY <1>4
  <2> DEFINE u == s \o t
  <2>2. u \in Seq(S) /\ Len(u) = Len(s) + Len(t) /\ u # <<>>
    BY <1>1, <2>1
  <2>3. Head(u) = Head(s)
    BY <1>1, <2>1, <2>2
  <2>4. /\ Tail(u) \in Seq(S) /\ Len(Tail(u)) = Len(u) - 1
        /\ \A i \in 1 .. Len(Tail(u)) : Tail(u)[i] = u[i + 1]
    BY <2>2, HeadTailProperties
  <2>5. /\ Tail(s) \in Seq(S) /\ Len(Tail(s)) = Len(s) - 1
        /\ \A i \in 1 .. Len(Tail(s)) : Tail(s)[i] = s[i + 1]
    BY <1>4, HeadTailProperties
  <2>6. /\ Tail(s) \o t \in Seq(S) /\ Len(Tail(s) \o t) = Len(Tail(s)) + Len(t)
        /\ \A i \in 1 .. Len(Tail(s)) + Len(t) : (Tail(s) \o t)[i] =
             IF i <= Len(Tail(s)) THEN Tail(s)[i] ELSE t[i - Len(Tail(s))]
    BY <2>5, ConcatProperties
  <2>7. ASSUME NEW i \in 1 .. Len(Tail(u))
        PROVE  Tail(u)[i] = (Tail(s) \o t)[i]
    <3>1. Tail(u)[i] = IF i + 1 <= Len(s) THEN s[i + 1] ELSE t[(i + 1) - Len(s)]
      BY <1>1, <2>1, <2>2, <2>4, <2>7
    <3>2. (i + 1) - Len(s) = i - Len(Tail(s))
      BY <2>1, <2>5, <2>7
    <3>3. QED
      BY <2>1, <2>2, <2>4, <2>5, <2>6, <2>7, <3>1, <3>2
  <2>8. Len(Tail(u)) = Len(Tail(s) \o t)
    BY <2>1, <2>2, <2>4, <2>5, <2>6
  <2>9. Tail(u) = Tail(s) \o t
    BY <2>4, <2>6, <2>7, <2>8, SeqEqual
  <2>10. QED
    BY <2>2, <2>3, <2>9
<1>5. QED
  BY <1>1, <1>2, <1>3, <1>4
-----------------------------------------------------------------------------
(* What Publish and Owe do to each session *)

\* What one operation adds to a backlog and to what is due.
Published(c) ==
  /\ backlog'[c] \in Seq(Event) /\ Len(backlog'[c]) <= Capacity
  /\ lagged'[c] \in BOOLEAN
  /\ due'[c] \in Seq(Event)
  /\ ~Open(c) => backlog'[c] = <<>> /\ due'[c] = <<>> /\ ~lagged'[c]
  /\ Open(c) /\ announced' = <<>> => backlog'[c] = backlog[c]
  /\ Open(c) /\ announced' # <<>> =>
       backlog'[c] # <<>> /\ backlog'[c][Len(backlog'[c])] = announced'[Len(announced')]
  /\ lagged[c] => lagged'[c]
  /\ Open(c) /\ due[c] # <<>> => due'[c] # <<>> /\ Head(due'[c]) = Head(due[c])
  /\ Open(c) /\ ~lagged'[c] /\ backlog[c] = due[c] => backlog'[c] = due'[c]
  /\ Open(c) /\ ~lagged'[c] /\ due[c] # <<>> /\ backlog[c] = Tail(due[c]) =>
       backlog'[c] = Tail(due'[c])

\* Publish and Owe do that to every session.
LEMMA PublishEffect ==
  ASSUME SessionInv, Announces, Publish, Owe
  PROVE  /\ backlog' \in [Client -> Seq(Event)]
         /\ lagged' \in [Client -> BOOLEAN]
         /\ due' \in [Client -> Seq(Event)]
         /\ \A c \in Client : Published(c)
<1> USE SessionAssumption
<1>1. ASSUME NEW c \in Client
      PROVE  Published(c)
  <2> DEFINE old == backlog[c]
             owed == due[c]
             new == announced'
  <2>1. old \in Seq(Event) /\ owed \in Seq(Event) /\ new \in Seq(Event) /\ lagged[c] \in BOOLEAN
    BY DEF SessionInv, TypeInv, Announces
  <2>2. Len(old) <= Capacity /\ Len(old) \in Nat /\ Len(new) \in Nat /\ Len(owed) \in Nat
    BY <2>1 DEF SessionInv, Kept
  <2>3. /\ backlog'[c] = IF Open(c) THEN KeepLast(old \o new) ELSE <<>>
        /\ lagged'[c] = (lagged[c] \/ (Open(c) /\ Len(old) + Len(new) > Capacity))
    BY Zenon DEF Publish
  <2>8. /\ lagged'[c] \in BOOLEAN
        /\ lagged[c] => lagged'[c]
        /\ Open(c) /\ ~lagged'[c] => ~ (Len(old) + Len(new) > Capacity)
        /\ ~Open(c) /\ ~lagged[c] => ~lagged'[c]
    BY <2>3, Zenon
  <2>4. due'[c] = IF ~Open(c) THEN <<>> ELSE IF Len(owed) > Capacity THEN owed ELSE owed \o new
    BY DEF Owe
  <2>5. CASE ~Open(c)
    <3>1. ~lagged[c]
      BY <2>5 DEF SessionInv, Kept
    <3>2. <<>> \in Seq(Event) /\ Len(<<>>) = 0
      OBVIOUS
    <3>3. QED
      BY <2>3, <2>4, <2>5, <2>8, <3>1, <3>2, SMT DEF Published
  <2>6. CASE Open(c)
    <3> HIDE DEF old, owed, new
    <3>1. old \o new \in Seq(Event) /\ Len(old \o new) = Len(old) + Len(new)
      BY <2>1, Parts
    <3>2. /\ backlog'[c] \in Seq(Event) /\ Len(backlog'[c]) <= Capacity
          /\ Len(old) + Len(new) <= Capacity => backlog'[c] = old \o new
          /\ old \o new # <<>> =>
               /\ backlog'[c] # <<>>
               /\ backlog'[c][Len(backlog'[c])] = (old \o new)[Len(old \o new)]
      <4> DEFINE both == old \o new
      <4>1. backlog'[c] = KeepLast(both)
        BY <2>3, <2>6
      <4>2. both \in Seq(Event) /\ (Len(old) + Len(new) <= Capacity => Len(both) <= Capacity)
        BY <3>1
      <4> HIDE DEF both
      <4>3. /\ KeepLast(both) \in Seq(Event)
            /\ Len(KeepLast(both)) <= Capacity
            /\ Len(both) <= Capacity => KeepLast(both) = both
            /\ both # <<>> => /\ KeepLast(both) # <<>>
                              /\ KeepLast(both)[Len(KeepLast(both))] = both[Len(both)]
        BY <4>2, KeepLastKeeps
      <4>4. QED
        BY <4>1, <4>2, <4>3, Zenon DEF both
    <3>3. new = <<>> => backlog'[c] = old /\ due'[c] = owed
      <4>1. new = <<>> => old \o new = old /\ owed \o new = owed /\ Len(new) = 0
        BY <2>1, Parts
      <4>2. QED
        BY <2>2, <2>4, <2>6, <3>2, <4>1
    <3>4. new # <<>> =>
            backlog'[c] # <<>> /\ backlog'[c][Len(backlog'[c])] = new[Len(new)]
      BY <2>1, <3>2, Parts
    <3>5. /\ due'[c] \in Seq(Event)
          /\ owed # <<>> => due'[c] # <<>> /\ Head(due'[c]) = Head(owed)
      BY <2>1, <2>4, <2>6, Parts
    <3>6. ASSUME ~lagged'[c], new # <<>>
          PROVE  backlog'[c] = old \o new /\ Len(old) < Capacity
      <4>1. Len(new) # 0
        BY <2>1, <3>6
      <4>2. Len(old) + Len(new) <= Capacity
        BY <2>2, <2>6, <2>8, <3>6
      <4>3. QED
        BY <2>2, <3>2, <4>1, <4>2
    <3>7. ~lagged'[c] /\ old = owed => backlog'[c] = due'[c]
      <4>1. CASE new = <<>>
        BY <3>3, <4>1
      <4>2. ASSUME new # <<>>, ~lagged'[c], old = owed
            PROVE  backlog'[c] = due'[c]
        <5>1. ~ (Len(owed) > Capacity)
          BY <2>2, <3>6, <4>2
        <5>2. QED
          BY <2>4, <2>6, <3>6, <4>2, <5>1
      <4>3. QED
        BY <4>1, <4>2
    <3>8. ~lagged'[c] /\ owed # <<>> /\ old = Tail(owed) => backlog'[c] = Tail(due'[c])
      <4>1. CASE new = <<>>
        BY <3>3, <4>1
      <4>2. ASSUME new # <<>>, ~lagged'[c], owed # <<>>, old = Tail(owed)
            PROVE  backlog'[c] = Tail(due'[c])
        <5>1. Len(owed) = Len(old) + 1
          BY <2>1, <2>2, <4>2, HeadTailProperties
        <5>2. due'[c] = owed \o new
          <6>1. ~ (Len(owed) > Capacity)
            BY <2>2, <3>6, <4>2, <5>1
          <6>2. QED
            BY <2>4, <2>6, <6>1
        <5>3. Tail(owed \o new) = Tail(owed) \o new
          BY <2>1, <4>2, Parts
        <5>4. backlog'[c] = old \o new
          BY <3>6, <4>2
        <5>5. QED
          BY <4>2, <5>2, <5>3, <5>4, Zenon
      <4>3. QED
        BY <4>1, <4>2
    <3>9. lagged'[c] \in BOOLEAN /\ (lagged[c] => lagged'[c])
      BY <2>8
    <3>10. QED
      BY <2>6, <3>2, <3>3, <3>4, <3>5, <3>7, <3>8, <3>9 DEF Published, old, owed, new
  <2>7. QED
    BY <2>5, <2>6
<1>2. QED
  <2>1. \A c \in Client :
          backlog'[c] \in Seq(Event) /\ lagged'[c] \in BOOLEAN /\ due'[c] \in Seq(Event)
    BY <1>1 DEF Published
  <2>2. QED
    BY <1>1, <2>1 DEF Publish, Owe
-----------------------------------------------------------------------------
(* Steps that reach a session from elsewhere *)

\* A session of which nothing changes keeps it.
LEMMA KeptUnchanged ==
  ASSUME NEW c \in Client, Kept(c), mode' = mode, conn'[c] = conn[c],
         backlog'[c] = backlog[c], due'[c] = due[c], outgoing'[c] = outgoing[c],
         lagged'[c] = lagged[c], view'[c] = view[c]
  PROVE  Kept(c)'
BY Zenon DEF Kept, Open, Latest, Owed, Relaying, IsEvent

\* A session that is reached by what is published keeps it, if it goes on as before.
LEMMA KeptPublished ==
  ASSUME NEW c \in Client, Kept(c), Announces, Published(c),
         conn'[c] = conn[c], outgoing'[c] = outgoing[c], view'[c] = view[c]
  PROVE  Kept(c)'
<1>1. Open(c)' <=> Open(c)
  BY DEF Open
<1>2. Relaying(c)' <=> Relaying(c)
  BY Zenon DEF Relaying, IsEvent
<1>3. CASE ~Open(c)
  <2>1. backlog'[c] = <<>> /\ due'[c] = <<>> /\ ~lagged'[c]
    BY <1>3 DEF Published
  <2>2. ~Relaying(c) /\ conn[c] # "send"
    BY <1>3 DEF Relaying, Open
  <2>3. Owed(c)'
    BY <1>2, <2>1, <2>2, Zenon DEF Owed
  <2>4. Len(<<>>) <= Capacity
    BY SessionAssumption
  <2>5. Latest(c)'
    BY <1>3, <2>1, <2>2, Zenon DEF Latest, Kept
  <2>6. outgoing'[c] = None <=> conn'[c] # "send"
    BY Zenon DEF Kept
  <2>7. QED
    BY <1>1, <1>3, <2>1, <2>3, <2>4, <2>5, <2>6, Zenon DEF Kept
<1>4. CASE Open(c)
  <2>1. Latest(c)'
    <3>1. CASE announced' # <<>>
      BY <1>4, <3>1 DEF Published, Announces, Latest
    <3>2. CASE announced' = <<>>
      <4>1. mode' = mode /\ backlog'[c] = backlog[c]
        BY <1>4, <3>2 DEF Published, Announces
      <4>2. QED
        BY <4>1, Zenon DEF Latest, Kept
    <3>3. QED
      BY <3>1, <3>2
  <2>2. Owed(c)'
    <3>1. Relaying(c) => due'[c] # <<>> /\ Head(due'[c]) = outgoing'[c]
      BY <1>4 DEF Published, Kept, Owed
    <3>2. ASSUME ~lagged'[c]
          PROVE  backlog'[c] = IF Relaying(c) THEN Tail(due'[c]) ELSE due'[c]
      <4>1. ~lagged[c]
        BY <3>2, Zenon DEF Published
      <4>2. CASE Relaying(c)
        <5>1. due[c] # <<>> /\ backlog[c] = Tail(due[c])
          BY <4>1, <4>2, Zenon DEF Kept, Owed
        <5>2. QED
          BY <1>4, <3>2, <4>2, <5>1, Zenon DEF Published
      <4>3. CASE ~Relaying(c)
        <5>1. backlog[c] = due[c]
          BY <4>1, <4>3, Zenon DEF Kept, Owed
        <5>2. QED
          BY <1>4, <3>2, <4>3, <5>1, Zenon DEF Published
      <4>4. QED
        BY <4>2, <4>3
    <3>3. QED
      BY <1>2, <3>1, <3>2, Zenon DEF Owed
  <2>3. Len(backlog'[c]) <= Capacity
    BY DEF Published
  <2>4. outgoing'[c] = None <=> conn'[c] # "send"
    BY Zenon DEF Kept
  <2>5. QED
    BY <1>1, <1>4, <2>1, <2>2, <2>3, <2>4, Zenon DEF Kept
<1>5. QED
  BY <1>3, <1>4
-----------------------------------------------------------------------------
(* Steps of a session *)

\* A session that begins or ends keeps it.
LEMMA KeptFresh ==
  ASSUME NEW c \in Client, conn'[c] \in {"closed", "select"},
         backlog'[c] = <<>>, ~lagged'[c], outgoing'[c] = None,
         view'[c] = "Unknown", due'[c] = <<>>
  PROVE  Kept(c)'
<1>1. Latest(c)'
  BY Zenon DEF Latest
<1>2. conn'[c] # "send"
  OBVIOUS
<1>3. Owed(c)'
  BY <1>2, Zenon DEF Owed, Relaying
<1>4. Len(<<>>) <= Capacity
  BY SessionAssumption
<1>5. QED
  BY <1>1, <1>2, <1>3, <1>4, Zenon DEF Kept

\* A command.
LEMMA KeptCommand ==
  ASSUME NEW c \in Client, Kept(c), conn[c] = "select", Announces, Published(c),
         conn'[c] = "send", outgoing'[c] = Answer, view'[c] = view[c]
  PROVE  Kept(c)'
<1>1. Open(c) /\ Open(c)'
  BY DEF Open
<1>2. ~Relaying(c) /\ ~Relaying(c)'
  BY Messages, Zenon DEF Relaying, IsEvent
<1>3. Latest(c)'
  <2>1. CASE announced' # <<>>
    BY <1>1, <2>1 DEF Published, Announces, Latest
  <2>2. CASE announced' = <<>>
    <3>1. mode' = mode /\ backlog'[c] = backlog[c]
      BY <1>1, <2>2 DEF Published, Announces
    <3>2. conn[c] # "send" /\ outgoing'[c].type \notin {"ModeChanged", "ModeAnswer"}
      BY Messages
    <3>3. QED
      BY <3>1, <3>2, Zenon DEF Latest, Kept
  <2>3. QED
    BY <2>1, <2>2
<1>4. Owed(c)'
  <2>1. ASSUME ~lagged'[c] PROVE backlog'[c] = due'[c]
    <3>1. ~lagged[c]
      BY <2>1, Zenon DEF Published
    <3>2. backlog[c] = due[c]
      BY <1>2, <3>1, Zenon DEF Kept, Owed
    <3>3. QED
      BY <1>1, <2>1, <3>2, Zenon DEF Published
  <2>2. QED
    BY <1>2, <2>1, Zenon DEF Owed
<1>5. Len(backlog'[c]) <= Capacity
  BY DEF Published
<1>6. Answer # None
  BY Messages
<1>7. QED
  BY <1>1, <1>3, <1>4, <1>5, <1>6, Zenon DEF Kept

\* The answer to a client that asks for the mode.
LEMMA KeptGetMode ==
  ASSUME NEW c \in Client, Kept(c), conn[c] = "select",
         conn'[c] = "send", outgoing'[c] = ModeAnswer(mode), mode' = mode,
         backlog'[c] = backlog[c], lagged'[c] = lagged[c], due'[c] = due[c], view'[c] = view[c]
  PROVE  Kept(c)'
<1>1. ~Relaying(c) /\ ~Relaying(c)'
  BY Messages, Zenon DEF Relaying, IsEvent
<1>2. /\ ModeAnswer(mode).type \in {"ModeChanged", "ModeAnswer"}
      /\ ModeAnswer(mode).mode = mode /\ ModeAnswer(mode) # None
  BY Messages
<1>3. Latest(c)'
  BY <1>2, Zenon DEF Latest, Kept
<1>4. Owed(c)'
  BY <1>1, Zenon DEF Owed, Kept
<1>5. Open(c) /\ Open(c)'
  BY DEF Open
<1>6. QED
  BY <1>2, <1>3, <1>4, <1>5, Zenon DEF Kept

\* The oldest event of the backlog is sent.
LEMMA KeptRelay ==
  ASSUME NEW c \in Client, Kept(c), conn[c] = "select", backlog[c] \in Seq(Event),
         backlog[c] # <<>>, ~lagged[c],
         conn'[c] = "send", outgoing'[c] = Head(backlog[c]), mode' = mode,
         backlog'[c] = Tail(backlog[c]), lagged'[c] = lagged[c], due'[c] = due[c],
         view'[c] = view[c]
  PROVE  Kept(c)'
<1> DEFINE old == backlog[c]
<1>1. /\ Head(old) \in Event /\ Tail(old) \in Seq(Event) /\ Len(Tail(old)) = Len(old) - 1
      /\ \A i \in 1 .. Len(Tail(old)) : Tail(old)[i] = old[i + 1]
      /\ Len(old) \in Nat
  BY HeadTailProperties
<1>2. IsEvent(Head(old)) /\ Head(old) # None
  BY <1>1, Messages
<1>3. ~Relaying(c) /\ Relaying(c)'
  BY <1>2, Zenon DEF Relaying, IsEvent
<1>4. Owed(c)'
  <2>1. old = due[c]
    BY <1>3, Zenon DEF Kept, Owed
  <2>2. QED
    BY <1>3, <2>1, Zenon DEF Owed
<1>5. old[Len(old)] = ModeChanged(mode)
  BY DEF Kept, Latest
<1>6. Latest(c)'
  <2>1. CASE Tail(old) # <<>>
    <3>1. Len(Tail(old)) \in 1 .. Len(Tail(old)) /\ Len(Tail(old)) + 1 = Len(old)
      BY <1>1, <2>1
    <3>2. Tail(old)[Len(Tail(old))] = old[Len(old)]
      BY <1>1, <3>1
    <3>3. QED
      BY <1>5, <2>1, <3>2, Zenon DEF Latest
  <2>2. CASE Tail(old) = <<>>
    <3>1. Len(old) = 1
      <4>1. Len(<<>>) = 0
        OBVIOUS
      <4>2. Len(Tail(old)) = 0
        BY <2>2, <4>1, Zenon
      <4>3. QED
        BY <1>1, <4>2
    <3>2. Head(old) = ModeChanged(mode)
      BY <1>5, <3>1
    <3>3. Head(old).type = "ModeChanged" /\ Head(old).mode = mode
      BY <3>2, Messages
    <3>4. QED
      BY <2>2, <3>3, Zenon DEF Latest
  <2>3. QED
    BY <2>1, <2>2
<1>7. Len(Tail(old)) <= Capacity
  <2>1. Len(old) <= Capacity
    BY DEF Kept
  <2>2. QED
    BY <1>1, <2>1, SessionAssumption
<1>8. Open(c) /\ Open(c)'
  BY DEF Open
<1>9. QED
  BY <1>2, <1>4, <1>6, <1>7, <1>8, Zenon DEF Kept

\* The client has received what was sent.
LEMMA KeptDeliver ==
  ASSUME NEW c \in Client, Kept(c), conn[c] = "send", outgoing[c] \in Message,
         conn'[c] = "select", outgoing'[c] = None, mode' = mode,
         backlog'[c] = backlog[c], lagged'[c] = lagged[c],
         view'[c] = IF outgoing[c].type \in {"ModeChanged", "ModeAnswer"}
                      THEN outgoing[c].mode ELSE view[c],
         due'[c] = IF IsEvent(outgoing[c]) /\ due[c] # <<>> THEN Tail(due[c]) ELSE due[c]
  PROVE  Kept(c)'
<1>1. Open(c) /\ Open(c)' /\ ~Relaying(c)'
  BY DEF Open, Relaying
<1>2. Latest(c)'
  <2>1. CASE backlog[c] # <<>>
    BY <2>1, Zenon DEF Latest, Kept
  <2>2. CASE backlog[c] = <<>>
    <3>1. view'[c] \in {"Unknown", mode}
      BY <2>2, Zenon DEF Latest, Kept
    <3>2. conn'[c] # "send"
      OBVIOUS
    <3>3. QED
      BY <2>2, <3>1, <3>2, Zenon DEF Latest
  <2>3. QED
    BY <2>1, <2>2
<1>3. Owed(c)'
  <2>1. CASE Relaying(c)
    <3>1. due'[c] = Tail(due[c])
      BY <2>1, Zenon DEF Relaying, Kept, Owed
    <3>2. ~lagged[c] => backlog[c] = Tail(due[c])
      BY <2>1, Zenon DEF Kept, Owed
    <3>3. QED
      BY <1>1, <3>1, <3>2, Zenon DEF Owed
  <2>2. CASE ~Relaying(c)
    <3>1. due'[c] = due[c]
      BY <2>2, Zenon DEF Relaying
    <3>2. ~lagged[c] => backlog[c] = due[c]
      BY <2>2, Zenon DEF Kept, Owed
    <3>3. QED
      BY <1>1, <3>1, <3>2, Zenon DEF Owed
  <2>3. QED
    BY <2>1, <2>2
<1>4. conn'[c] # "send"
  OBVIOUS
<1>5. QED
  BY <1>1, <1>2, <1>3, <1>4, Zenon DEF Kept
-----------------------------------------------------------------------------
(* Every step *)

\* What sessions send are messages.
LEMMA MessageTypes ==
  /\ None \in Message /\ Answer \in Message
  /\ \A m \in Mode : ModeAnswer(m) \in Message
  /\ Event \subseteq Message
BY DEF Message

\* Requests over REST and ticks.
LEMMA OthersStep ==
  ASSUME SessionInv, TickStage \/ RestRequest
  PROVE  SessionInv'
<1>1. Announces
  BY StageAnnounces DEF TickStage, RestRequest, SessionInv, TypeInv
<1>2. Publish /\ Owe /\ UNCHANGED <<conn, outgoing, view>>
  BY DEF TickStage, RestRequest
<1>3. /\ backlog' \in [Client -> Seq(Event)]
      /\ lagged' \in [Client -> BOOLEAN]
      /\ due' \in [Client -> Seq(Event)]
      /\ \A c \in Client : Published(c)
  BY <1>1, <1>2, PublishEffect
<1>4. ASSUME NEW c \in Client
      PROVE  Kept(c)'
  BY <1>1, <1>2, <1>3, KeptPublished DEF SessionInv
<1>5. TypeInv'
  BY <1>1, <1>2, <1>3 DEF SessionInv, TypeInv, Announces
<1>6. QED
  BY <1>4, <1>5 DEF SessionInv

\* A command reaches its own session as an answer and all sessions as an event.
LEMMA CommandStep ==
  ASSUME SessionInv, NEW c \in Client, ExecuteCommand(c)
  PROVE  SessionInv'
<1>1. Announces
  BY StageAnnounces DEF ExecuteCommand, SessionInv, TypeInv
<1>2. /\ Publish /\ Owe /\ view' = view /\ conn[c] = "select"
      /\ conn' = [conn EXCEPT ![c] = "send"]
      /\ outgoing' = [outgoing EXCEPT ![c] = Answer]
  BY DEF ExecuteCommand, StartSend
<1>3. /\ backlog' \in [Client -> Seq(Event)]
      /\ lagged' \in [Client -> BOOLEAN]
      /\ due' \in [Client -> Seq(Event)]
      /\ \A d \in Client : Published(d)
  BY <1>1, <1>2, PublishEffect
<1>4. TypeInv'
  BY <1>1, <1>2, <1>3, MessageTypes DEF SessionInv, TypeInv, Announces
<1>5. Kept(c)'
  <2>1. conn'[c] = "send" /\ outgoing'[c] = Answer
    BY <1>2 DEF SessionInv, TypeInv
  <2>2. QED
    BY <1>1, <1>2, <1>3, <2>1, KeptCommand DEF SessionInv
<1>6. ASSUME NEW d \in Client \ {c}
      PROVE  Kept(d)'
  <2>1. conn'[d] = conn[d] /\ outgoing'[d] = outgoing[d]
    BY <1>2 DEF SessionInv, TypeInv
  <2>2. QED
    BY <1>1, <1>2, <1>3, <2>1, KeptPublished DEF SessionInv
<1>7. QED
  BY <1>4, <1>5, <1>6 DEF SessionInv

\* A step of one session that the stage takes no part in changes no other.
LEMMA OneSession ==
  ASSUME SessionInv, NEW c \in Client, TypeInv', mode' = mode, Kept(c)',
         \A d \in Client \ {c} :
           /\ conn'[d] = conn[d] /\ backlog'[d] = backlog[d] /\ due'[d] = due[d]
           /\ outgoing'[d] = outgoing[d] /\ lagged'[d] = lagged[d] /\ view'[d] = view[d]
  PROVE  SessionInv'
<1>1. ASSUME NEW d \in Client \ {c}
      PROVE  Kept(d)'
  BY KeptUnchanged DEF SessionInv
<1>2. QED
  BY <1>1 DEF SessionInv

\* Sessions that begin or end.
LEMMA FreshStep ==
  ASSUME SessionInv, NEW c \in Client, Connect(c) \/ Close(c)
  PROVE  SessionInv'
<1>1. /\ \E state \in {"closed", "select"} : conn' = [conn EXCEPT ![c] = state]
      /\ backlog' = [backlog EXCEPT ![c] = <<>>]
      /\ lagged' = [lagged EXCEPT ![c] = FALSE]
      /\ outgoing' = [outgoing EXCEPT ![c] = None]
      /\ view' = [view EXCEPT ![c] = "Unknown"]
      /\ due' = [due EXCEPT ![c] = <<>>]
      /\ mode' = mode
  BY DEF Connect, Close, contractVars
<1>2. <<>> \in Seq(Event)
  OBVIOUS
<1>3. TypeInv'
  BY <1>1, <1>2, MessageTypes DEF SessionInv, TypeInv
<1>4. /\ conn'[c] \in {"closed", "select"}
      /\ backlog'[c] = <<>> /\ lagged'[c] = FALSE /\ outgoing'[c] = None
      /\ view'[c] = "Unknown" /\ due'[c] = <<>>
  BY <1>1 DEF SessionInv, TypeInv
<1>5. Kept(c)'
  BY <1>4, KeptFresh
<1>6. \A d \in Client \ {c} :
        /\ conn'[d] = conn[d] /\ backlog'[d] = backlog[d] /\ due'[d] = due[d]
        /\ outgoing'[d] = outgoing[d] /\ lagged'[d] = lagged[d] /\ view'[d] = view[d]
  BY <1>1 DEF SessionInv, TypeInv
<1>7. QED
  BY <1>1, <1>3, <1>5, <1>6, OneSession

\* GetMode changes its own session only.
LEMMA GetModeStep ==
  ASSUME SessionInv, NEW c \in Client, ExecuteGetMode(c)
  PROVE  SessionInv'
<1>1. /\ conn[c] = "select"
      /\ conn' = [conn EXCEPT ![c] = "send"]
      /\ outgoing' = [outgoing EXCEPT ![c] = ModeAnswer(mode)]
      /\ UNCHANGED <<mode, backlog, lagged, view, due>>
  BY DEF ExecuteGetMode, StartSend, contractVars
<1>2. TypeInv'
  BY <1>1, MessageTypes DEF SessionInv, TypeInv
<1>3. conn'[c] = "send" /\ outgoing'[c] = ModeAnswer(mode)
  BY <1>1 DEF SessionInv, TypeInv
<1>4. Kept(c)'
  BY <1>1, <1>3, KeptGetMode DEF SessionInv
<1>5. \A d \in Client \ {c} : conn'[d] = conn[d] /\ outgoing'[d] = outgoing[d]
  BY <1>1 DEF SessionInv, TypeInv
<1>6. QED
  BY <1>1, <1>2, <1>4, <1>5, OneSession

\* A session that has lagged closes; another relays its oldest event.
LEMMA RelayStep ==
  ASSUME SessionInv, NEW c \in Client, RelayEvent(c)
  PROVE  SessionInv'
<1>1. CASE lagged[c]
  BY <1>1, FreshStep DEF RelayEvent, RelayNext
<1>2. CASE ~lagged[c]
  <2>1. /\ conn[c] = "select" /\ backlog[c] # <<>>
        /\ conn' = [conn EXCEPT ![c] = "send"]
        /\ outgoing' = [outgoing EXCEPT ![c] = Head(backlog[c])]
        /\ backlog' = [backlog EXCEPT ![c] = Tail(backlog[c])]
        /\ UNCHANGED <<mode, lagged, view, due>>
    BY <1>2, Zenon DEF RelayEvent, RelayNext, StartSend, contractVars
  <2>2. backlog[c] \in Seq(Event)
    BY DEF SessionInv, TypeInv
  <2>3. Head(backlog[c]) \in Message /\ Tail(backlog[c]) \in Seq(Event)
    BY <2>1, <2>2, HeadTailProperties, MessageTypes
  <2>4. TypeInv'
    BY <2>1, <2>3 DEF SessionInv, TypeInv
  <2>5. conn'[c] = "send" /\ outgoing'[c] = Head(backlog[c]) /\ backlog'[c] = Tail(backlog[c])
    BY <2>1 DEF SessionInv, TypeInv
  <2>6. Kept(c)'
    BY <1>2, <2>1, <2>2, <2>5, KeptRelay DEF SessionInv
  <2>7. \A d \in Client \ {c} :
          conn'[d] = conn[d] /\ outgoing'[d] = outgoing[d] /\ backlog'[d] = backlog[d]
    BY <2>1 DEF SessionInv, TypeInv
  <2>8. QED
    BY <2>1, <2>4, <2>6, <2>7, OneSession
<1>3. QED
  BY <1>1, <1>2

\* A delivery changes its own session only.
LEMMA DeliverStep ==
  ASSUME SessionInv, NEW c \in Client, Deliver(c)
  PROVE  SessionInv'
<1> DEFINE known == IF outgoing[c].type \in {"ModeChanged", "ModeAnswer"}
                      THEN outgoing[c].mode ELSE view[c]
           owed == IF IsEvent(outgoing[c]) /\ due[c] # <<>> THEN Tail(due[c]) ELSE due[c]
<1>1. /\ conn[c] = "send"
      /\ conn' = [conn EXCEPT ![c] = "select"]
      /\ outgoing' = [outgoing EXCEPT ![c] = None]
      /\ view' = [view EXCEPT ![c] = known]
      /\ due' = [due EXCEPT ![c] = owed]
      /\ UNCHANGED <<mode, backlog, lagged>>
  BY Zenon DEF Deliver, contractVars
<1>2. outgoing[c] \in Message /\ due[c] \in Seq(Event) /\ view[c] \in Mode \cup {"Unknown"}
  BY DEF SessionInv, TypeInv
<1>3. known \in Mode \cup {"Unknown"}
  BY <1>2, ModeOfMessage
<1>4. owed \in Seq(Event)
  <2>1. due[c] # <<>> => Tail(due[c]) \in Seq(Event)
    BY <1>2, HeadTailProperties
  <2>2. QED
    BY <1>2, <2>1, Zenon
<1>5. conn'[c] = "select" /\ outgoing'[c] = None /\ view'[c] = known /\ due'[c] = owed
  BY <1>1, Zenon DEF SessionInv, TypeInv
<1>6. Kept(c)'
  BY <1>1, <1>2, <1>5, KeptDeliver, Zenon DEF SessionInv
<1> HIDE DEF known, owed
<1>7. TypeInv'
  BY <1>1, <1>3, <1>4, MessageTypes DEF SessionInv, TypeInv
<1>8. \A d \in Client \ {c} : /\ conn'[d] = conn[d] /\ outgoing'[d] = outgoing[d]
                              /\ view'[d] = view[d] /\ due'[d] = due[d]
  BY <1>1 DEF SessionInv, TypeInv
<1>9. QED
  BY <1>1, <1>6, <1>7, <1>8, OneSession

\* Every step keeps what sessions must keep.
LEMMA SessionStep ==
  ASSUME SessionInv, [SessionNext]_vars
  PROVE  SessionInv'
<1>1. CASE TickStage \/ RestRequest
  BY <1>1, OthersStep
<1>2. ASSUME NEW c \in Client,
             \/ Connect(c) \/ ExecuteCommand(c) \/ ExecuteGetMode(c) \/ Disconnect(c)
             \/ RelayEvent(c) \/ Deliver(c)
      PROVE  SessionInv'
  BY <1>2, FreshStep, CommandStep, GetModeStep, RelayStep, DeliverStep DEF Disconnect
<1>3. CASE UNCHANGED vars
  <2>1. UNCHANGED <<mode, conn, backlog, lagged, outgoing, view, due>>
    BY <1>3 DEF vars, contractVars, sessionVars
  <2>2. TypeInv'
    BY <2>1 DEF SessionInv, TypeInv
  <2>3. ASSUME NEW c \in Client PROVE Kept(c)'
    BY <2>1, KeptUnchanged DEF SessionInv
  <2>4. QED
    BY <2>2, <2>3 DEF SessionInv
<1>4. QED
  BY <1>1, <1>2, <1>3 DEF SessionNext, ClientStep

\* Nobody is connected at the beginning.
LEMMA SessionInitially == SessionInit => SessionInv
<1>1. SUFFICES ASSUME SessionInit PROVE SessionInv
  OBVIOUS
<1>2. <<>> \in Seq(Event) /\ Len(<<>>) = 0
  OBVIOUS
<1>3. TypeInv
  BY <1>1, <1>2, MessageTypes DEF SessionInit, Init, TypeInv, Mode
<1>4. ASSUME NEW c \in Client PROVE Kept(c)
  <2>1. /\ conn[c] = "closed" /\ backlog[c] = <<>> /\ lagged[c] = FALSE
        /\ outgoing[c] = None /\ view[c] = "Unknown" /\ due[c] = <<>>
    BY <1>1 DEF SessionInit
  <2>2. Latest(c)
    BY <2>1, Zenon DEF Latest
  <2>3. conn[c] # "send"
    BY <2>1
  <2>4. Owed(c)
    BY <2>1, <2>3, Zenon DEF Owed, Relaying
  <2>5. Len(<<>>) <= Capacity
    BY SessionAssumption
  <2>6. QED
    BY <2>1, <2>2, <2>3, <2>4, <2>5, Zenon DEF Kept
<1>5. QED
  BY <1>3, <1>4 DEF SessionInv
-----------------------------------------------------------------------------
(* Theorems *)

\* Every session of handle_socket keeps to the order of its events and to the mode.
THEOREM SessionInvCorrect == SessionSpec => []SessionInv
<1>1. SessionInv /\ [SessionNext]_vars => SessionInv'
  BY SessionStep
<1>2. QED
  BY <1>1, SessionInitially, PTL DEF SessionSpec

\* However many clients there are, no backlog outgrows the channel and only events of
\* the stage and answers are sent (handle_socket).
THEOREM SessionTypeCorrect == SessionSpec => []SessionTypeOK
<1>1. SessionInv => SessionTypeOK
  BY DEF SessionInv, TypeInv, Kept, SessionTypeOK, Message
<1>2. QED
  BY <1>1, SessionInvCorrect, PTL

\* A session with nothing to relay has left its client with the current mode, for
\* any number of clients and any capacity of the channel (handle_socket).
THEOREM ViewCorrect == SessionSpec => []ViewIsCurrent
<1>1. SessionInv => ViewIsCurrent
  <2>1. SUFFICES ASSUME SessionInv, NEW c \in Client,
                        conn[c] = "select", backlog[c] = <<>>, view[c] # "Unknown"
                 PROVE  view[c] = mode
    BY DEF ViewIsCurrent
  <2>2. conn[c] # "send"
    BY <2>1
  <2>3. QED
    BY <2>1, <2>2, Zenon DEF SessionInv, Kept, Latest
<1>2. QED
  BY <1>1, SessionInvCorrect, PTL

\* A client receives the events of its session in order and none is left out: one
\* that has missed an event is sent none after it (handle_socket, RecvError::Lagged).
THEOREM NoSkipCorrect == SessionSpec => NoEventSkipped
<1>1. SessionInv =>
        [\A c \in Client :
           conn[c] = "send" /\ conn'[c] = "select" /\ IsEvent(outgoing[c]) =>
             due[c] # <<>> /\ outgoing[c] = Head(due[c])]_vars
  BY Zenon DEF SessionInv, Kept, Owed, Relaying
<1>2. QED
  BY <1>1, SessionInvCorrect, PTL DEF NoEventSkipped
=============================================================================
