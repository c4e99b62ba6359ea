------------------------------ MODULE WsSession ------------------------------
(***************************************************************************)
(* WebSocket sessions (lsserver/src/api/ws.rs) of clients that watch and   *)
(* drive the stage, and the broadcast channel its events reach them by.    *)
(*                                                                         *)
(* The stage is CaptureContract, which Stage implements.  Each session is  *)
(* a task that selects between a command of its client and an event of the *)
(* channel, and then awaits a send: while it does, ticks and the requests  *)
(* of others go on and their events pile up.                               *)
(*                                                                         *)
(* The channel is tokio's: each receiver has a backlog of at most Capacity *)
(* events; a sender never waits but overwrites the oldest one, and the     *)
(* receiver is told that it lagged when it reads next.                     *)
(***************************************************************************)
EXTENDS CaptureContract

CONSTANTS
  Client,
  Capacity   \* of the channel, at least the 100 main asks for

ASSUME SessionAssumption == Capacity \in Nat \ {0}

VARIABLES
  conn,       \* "closed", or where the task of the session is
  backlog,    \* events the session's receiver has not read
  lagged,     \* the receiver has missed events and will be told so
  outgoing,   \* the message being sent, None if there is none
  view,       \* the mode the client knows of, from answers and events
  due         \* history: events sent since the session subscribed and not yet
              \* received by the client, the first Capacity + 1 or so of them

sessionVars == <<conn, backlog, lagged, outgoing, view, due>>
vars == <<contractVars, sessionVars>>

None == [type |-> "None"]
Answer == [type |-> "Answer"]              \* the response to any other command
ModeAnswer(m) == [type |-> "ModeAnswer", mode |-> m]

Open(c) == conn[c] # "closed"

\* A channel with room for one event more.
KeepLastLoose(s) == IF Len(s) > Capacity + 1
                      THEN SubSeq(s, Len(s) - Capacity, Len(s)) ELSE s

\* The events that are kept for a receiver.
KeepLast(s) == IF Len(s) > Capacity
                 THEN SubSeq(s, Len(s) - Capacity + 1, Len(s)) ELSE s
-----------------------------------------------------------------------------
(* The channel *)

\* A channel that refuses new events to a receiver whose backlog is full.
PublishDropNewest ==
  /\ backlog' = [c \in Client |->
       IF Open(c) THEN SubSeq(backlog[c] \o announced', 1,
                              IF Len(backlog[c] \o announced') > Capacity
                                THEN Capacity ELSE Len(backlog[c] \o announced'))
                  ELSE <<>>]
  /\ UNCHANGED lagged

\* Every subscriber gets what the operation has announced.
Publish ==
  /\ backlog' = [c \in Client |->
       IF Open(c) THEN KeepLast(backlog[c] \o announced') ELSE <<>>]
  /\ lagged' = [c \in Client |->
       lagged[c] \/ (Open(c) /\ Len(backlog[c]) + Len(announced') > Capacity)]

\* History of Publish; a client that has been owed too many is owed no more.
Owe ==
  due' = [c \in Client |->
    IF ~Open(c) THEN <<>>
    ELSE IF Len(due[c]) > Capacity THEN due[c] ELSE due[c] \o announced']
-----------------------------------------------------------------------------
(* Operations of the stage, under its lock *)

\* The network thread, and requests over REST, are nobody's session.
TickStage ==
  /\ IdleTick \/ ManualTick \/ ShootTick \/ FinishTick
  /\ Publish /\ Owe
  /\ UNCHANGED <<conn, outgoing, view>>

ChangeStage == BeginCapture \/ BeginIdleOrManual \/ QueueTrigger \/ Refuse

RestRequest ==
  /\ ChangeStage
  /\ Publish /\ Owe
  /\ UNCHANGED <<conn, outgoing, view>>
-----------------------------------------------------------------------------
(* handle_socket *)

\* A new session reads nothing of the stage; its client asks for the mode.
Connect(c) ==
  /\ conn[c] = "closed"
  /\ conn' = [conn EXCEPT ![c] = "select"]
  /\ backlog' = [backlog EXCEPT ![c] = <<>>]
  /\ lagged' = [lagged EXCEPT ![c] = FALSE]
  /\ outgoing' = [outgoing EXCEPT ![c] = None]
  /\ view' = [view EXCEPT ![c] = "Unknown"]
  /\ due' = [due EXCEPT ![c] = <<>>]
  /\ UNCHANGED contractVars

\* The loop is left and the receiver dropped with it.
Close(c) ==
  /\ conn' = [conn EXCEPT ![c] = "closed"]
  /\ backlog' = [backlog EXCEPT ![c] = <<>>]
  /\ lagged' = [lagged EXCEPT ![c] = FALSE]
  /\ outgoing' = [outgoing EXCEPT ![c] = None]
  /\ view' = [view EXCEPT ![c] = "Unknown"]
  /\ due' = [due EXCEPT ![c] = <<>>]
  /\ UNCHANGED contractVars

\* The message is about to be sent.
StartSend(c, message) ==
  /\ conn' = [conn EXCEPT ![c] = "send"]
  /\ outgoing' = [outgoing EXCEPT ![c] = message]

\* A command that changes the stage, or is refused; the event it causes goes to
\* the session that executes it as to all others.
ExecuteCommand(c) ==
  /\ conn[c] = "select"
  /\ ChangeStage
  /\ Publish /\ Owe
  /\ StartSend(c, Answer)
  /\ UNCHANGED view

\* GetMode, under the read lock.
ExecuteGetMode(c) ==
  /\ conn[c] = "select"
  /\ StartSend(c, ModeAnswer(mode))
  /\ UNCHANGED <<contractVars, backlog, lagged, view, due>>

\* A session that goes on after it has missed events.
RelayNextLagging(c) ==
  /\ backlog[c] # <<>>
  /\ StartSend(c, Head(backlog[c]))
  /\ backlog' = [backlog EXCEPT ![c] = Tail(@)]
  /\ lagged' = [lagged EXCEPT ![c] = FALSE]
  /\ UNCHANGED <<contractVars, view, due>>

\* A session that takes the error for an empty channel.
RelayNextDeaf(c) ==
  /\ ~lagged[c]
  /\ backlog[c] # <<>>
  /\ StartSend(c, Head(backlog[c]))
  /\ backlog' = [backlog EXCEPT ![c] = Tail(@)]
  /\ UNCHANGED <<contractVars, lagged, view, due>>

\* rx.recv() yields the oldest event, or the error that some are gone, which ends
\* the session.
RelayNext(c) ==
  IF lagged[c]
    THEN Close(c)
    ELSE /\ backlog[c] # <<>>
         /\ StartSend(c, Head(backlog[c]))
         /\ backlog' = [backlog EXCEPT ![c] = Tail(@)]
         /\ UNCHANGED <<contractVars, lagged, view, due>>

RelayEvent(c) ==
  /\ conn[c] = "select"
  /\ RelayNext(c)

IsEvent(message) == message.type \in {"ModeChanged", "CaptureFinished"}

\* send_message has succeeded and the client takes note.
Deliver(c) ==
  /\ conn[c] = "send"
  /\ conn' = [conn EXCEPT ![c] = "select"]
  /\ outgoing' = [outgoing EXCEPT ![c] = None]
  /\ view' = [view EXCEPT ![c] =
       IF outgoing[c].type \in {"ModeChanged", "ModeAnswer"} THEN outgoing[c].mode ELSE @]
  /\ due' = [due EXCEPT ![c] = IF IsEvent(outgoing[c]) /\ @ # <<>> THEN Tail(@) ELSE @]
  /\ UNCHANGED <<contractVars, backlog, lagged>>

\* The client leaves, or a send fails.
Disconnect(c) ==
  /\ Open(c)
  /\ Close(c)
-----------------------------------------------------------------------------
SessionInit ==
  /\ Init
  /\ conn = [c \in Client |-> "closed"]
  /\ backlog = [c \in Client |-> <<>>]
  /\ lagged = [c \in Client |-> FALSE]
  /\ outgoing = [c \in Client |-> None]
  /\ view = [c \in Client |-> "Unknown"]
  /\ due = [c \in Client |-> <<>>]

ClientStep ==
  \/ RestRequest
  \/ \E c \in Client : Connect(c) \/ ExecuteCommand(c) \/ ExecuteGetMode(c) \/ Disconnect(c)

SessionNext ==
  \/ TickStage
  \/ ClientStep
  \/ \E c \in Client : RelayEvent(c) \/ Deliver(c)

SessionSpec == SessionInit /\ [][SessionNext]_vars

\* The network thread goes on ticking, the runtime polls every session, and a
\* client that stays connected reads its socket.
SessionFairSpec ==
  /\ SessionSpec
  /\ WF_vars(TickStage)
  /\ \A c \in Client : WF_vars(RelayEvent(c)) /\ WF_vars(Deliver(c))
-----------------------------------------------------------------------------
(* Properties *)

Mode == {"Demo", "Manual"} \cup CaptureMode
Event == {ModeChanged(m) : m \in Mode} \cup {CaptureFinished}

SessionTypeOK ==
  /\ conn \in [Client -> {"closed", "select", "send"}]
  /\ \A c \in Client :
       /\ backlog[c] \in Seq(Event) /\ Len(backlog[c]) <= Capacity
       /\ due[c] \in Seq(Event)
       /\ outgoing[c] \in {None, Answer} \cup Event \cup {ModeAnswer(m) : m \in Mode}
       /\ outgoing[c] = None <=> conn[c] # "send"
  /\ lagged \in [Client -> BOOLEAN]
  /\ view \in [Client -> Mode \cup {"Unknown"}]

\* A client receives the events of its session in order and none is left out: a
\* session that has missed one sends no event after it.  A client that stays
\* connected can count captures.
NoEventSkipped ==
  [][\A c \in Client :
       conn[c] = "send" /\ conn'[c] = "select" /\ IsEvent(outgoing[c]) =>
         due[c] # <<>> /\ outgoing[c] = Head(due[c])]_vars

\* A session with nothing to relay has left its client with the current mode,
\* however commands, answers and the events of others have overtaken each other.
ViewIsCurrent ==
  \A c \in Client :
    conn[c] = "select" /\ backlog[c] = <<>> /\ view[c] # "Unknown" => view[c] = mode

\* Once clients are quiet, every one of them that is connected and knows a mode
\* knows at last that captures have ended, or is disconnected.
ViewSettles ==
  <>[][~ClientStep]_vars =>
    \A c \in Client : <>[](view[c] \in {"Unknown", "Demo", "Manual"} /\ ~lagged[c])
=============================================================================
