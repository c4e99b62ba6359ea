----------------------------- MODULE Broadcaster -----------------------------
(***************************************************************************)
(* DmxBroadcaster (lsserver/src/network.rs) over the target map that       *)
(* discovery has made: from the fixtures of the stage, through the octets  *)
(* of their universes and one packet buffer, to what each light shows.     *)
(*                                                                         *)
(* A handler, or an animator, changes fixtures under the stage's lock; the *)
(* thread copies the frame and then sends it datagram by datagram, while   *)
(* further changes are made.  A datagram may be lost.                      *)
(***************************************************************************)
EXTENDS Discovery, DmxLayout

CONSTANTS
  SequenceModulus,   \* sequence numbers wrap here, at 2^32
  Look               \* what the fixtures of the stage may be set to

Arc == 0 .. NumArcs - 1

\* Renderer, a colour for every fixture.
RendererType == [Kind -> [Arc -> [Light -> Colour]]]

ASSUME BroadcasterAssumption ==
  /\ SequenceModulus \in Nat \ {0}
  /\ Look \subseteq RendererType

VARIABLES
  renderer,       \* the fixtures of the stage
  current_frame,  \* StageState::current_frame
  net_frame,      \* the thread's copy
  sequence,
  packet_buf,
  cursor,         \* datagrams of this frame that are sent, NotSending between frames
  (* the environment *)
  received,       \* the last datagram at each address
  (* history *)
  look,           \* the fixtures when net_frame was copied
  reached         \* universes this broadcast has delivered

stageVars == <<renderer, current_frame>>
sendVars == <<net_frame, sequence, packet_buf, cursor, received, look, reached>>
allVars == <<vars, stageVars, sendVars>>

NotSending == -1
Nothing == <<>>

BlackFrame == [k \in Kind |-> [a \in Arc |-> Black]]
Unlit == [k \in Kind |-> [a \in Arc |-> [l \in Light |-> <<0, 0, 0>>]]]

Running == phase = "running"

\* The universes in the order in which they are sent: of each arc the colour
\* supply's, then the white one's.
Universe(i) == <<i \div 2, IF i % 2 = 0 THEN "rgb" ELSE "white">>

HeaderSize == PacketSize("DmxOut")

\* Addresses of the stage's supplies, and of others.
Addresses == {reply.src_ip : reply \in UNION Installations}
-----------------------------------------------------------------------------
\* The fixtures are set and Renderer::update writes them into the frame of the
\* stage, over what it held.
SetFixtures ==
  /\ Running
  /\ renderer' \in Look
  /\ current_frame' = [k \in Kind |-> [a \in Arc |->
                          Update(renderer'[k][a], current_frame[k][a])]]
  /\ UNCHANGED <<vars, sendVars>>

\* The packet buffer with something written over its octets from an offset on.
WriteAt(offset, octets) ==
  [i \in DOMAIN packet_buf |->
     IF i - offset \in DOMAIN octets THEN octets[i - offset] ELSE packet_buf[i]]

\* A turn of the loop: the frame is copied, unless it is one that is sent several
\* times, and the header is written.
BeginBroadcast ==
  /\ Running
  /\ cursor = NotSending
  /\ \/ net_frame' = current_frame /\ look' = renderer
     \/ UNCHANGED <<net_frame, look>>
  /\ packet_buf' = WriteAt(0, WriteTo("DmxOut", DefaultDmxOut(U32(sequence))))
  /\ cursor' = 0
  /\ reached' = {}
  /\ UNCHANGED <<vars, stageVars, sequence, received>>

\* A broadcaster that sends from the stage's frame itself.
PayloadUncopied(universe) == current_frame[universe[2]][universe[1]]

PayloadOf(universe) == net_frame[universe[2]][universe[1]]

\* A broadcaster that serves every supply of the map in turn.
RecipientAny(universe) ==
  {targets[key].src_ip : key \in {k \in DOMAIN targets : k[2] = universe[2]}}

\* The address that gets a universe.
Recipient(universe) ==
  {targets[key].src_ip : key \in {universe} \cap DOMAIN targets}

\* The payload is written behind the header and sent; errors are ignored.
SendUniverse ==
  LET universe == Universe(cursor)
  IN  /\ Running
      /\ cursor \in 0 .. 2 * NumArcs - 1
      /\ packet_buf' = WriteAt(HeaderSize, PayloadOf(universe))
      /\ \E delivered \in SUBSET Recipient(universe) :
           /\ received' = [address \in DOMAIN received |->
                             IF address \in delivered THEN packet_buf' ELSE received[address]]
           /\ reached' = IF delivered = {} THEN reached ELSE reached \cup {universe}
      /\ cursor' = cursor + 1
      /\ UNCHANGED <<vars, stageVars, net_frame, sequence, look>>

\* A sequence number that is not made to wrap.
NextSequenceWide(n) == n + 1

\* wrapping_add(1)
NextSequence(n) == (n + 1) % SequenceModulus

\* After the last arc.
EndBroadcast ==
  /\ Running
  /\ cursor = 2 * NumArcs
  /\ sequence' = NextSequence(sequence)
  /\ cursor' = NotSending
  /\ UNCHANGED <<vars, stageVars, net_frame, packet_buf, received, look, reached>>

\* run starts with a black frame and a buffer for one packet.
BroadcasterInit ==
  /\ Init
  /\ renderer = Unlit
  /\ current_frame = BlackFrame
  /\ net_frame = BlackFrame
  /\ sequence = 0
  /\ packet_buf = Zeros(HeaderSize + UniverseSize)
  /\ cursor = NotSending
  /\ received = [address \in Addresses |-> Nothing]
  /\ look = Unlit
  /\ reached = {}

Thread == BeginBroadcast \/ SendUniverse \/ EndBroadcast

BroadcasterNext ==
  \/ Next /\ UNCHANGED <<stageVars, sendVars>>
  \/ SetFixtures
  \/ Thread

BroadcasterSpec == BroadcasterInit /\ [][BroadcasterNext]_allVars

\* Each window of discovery ends by the clock and start is run by one thread.
BroadcasterFairSpec ==
  BroadcasterSpec /\ WF_allVars(Progress /\ UNCHANGED <<stageVars, sendVars>>)
-----------------------------------------------------------------------------
(* Properties *)

BroadcasterTypeOK ==
  /\ renderer \in RendererType
  /\ sequence \in 0 .. SequenceModulus - 1
  /\ cursor \in NotSending .. 2 * NumArcs
  /\ \A frame \in {current_frame, net_frame}, k \in Kind, a \in Arc :
       frame[k][a] \in [1 .. UniverseSize -> 0 .. 255]
  /\ packet_buf \in [1 .. HeaderSize + UniverseSize -> 0 .. 255]
  /\ reached \subseteq Expected

\* What the light at a DMX address makes of a datagram: three values, most
\* significant octet first, behind a valid DmxOut header.
Shown(datagram, light) ==
  LET octet(i) == datagram[HeaderSize + BaseAddress(light) + i]
  IN  [i \in 1 .. 3 |-> 256 * octet(2 * i - 2) + octet(2 * i - 1)]

\* Every universe that the broadcast in progress, or the last one, has delivered is
\* shown by its lights as the stage was at one moment, the same for all supplies,
\* although handlers change the stage and the buffer is used for other universes
\* meanwhile.  Where supplies with different labels claim one address, which nothing
\* checks, one of their universes is shown.
ShowsOneLook ==
  \A universe \in reached :
    LET address == targets[universe].src_ip
        datagram == received[address]
        packet == ReadFrom(datagram)
    IN  /\ Len(datagram) = HeaderSize + UniverseSize
        /\ packet.ok /\ packet.kind = "DmxOut"
        /\ packet.payload.sequence \in {U32(sequence), U32((sequence - 1) % SequenceModulus)}
        /\ \E shown \in reached :
             /\ targets[shown].src_ip = address
             /\ \A light \in Light :
                  Shown(datagram, light) = look[shown[2]][shown[1]][light]

\* Nobody but the supplies of the stage's own arcs is ever sent DMX: not those of
\* arcs it does not have, nor those whose label was not understood.
OnlyServedSupplies ==
  \A address \in DOMAIN received :
    received[address] # Nothing =>
      \E pds \in {Pds(reply) : reply \in installation} :
        pds.src_ip = address /\ pds.label \in Expected
=============================================================================
