------------------------------ MODULE Discovery ------------------------------
(***************************************************************************)
(* How the network manager finds its power supplies before it starts:      *)
(* NetworkManager::new, discover_pds and map_and_validate_targets, and     *)
(* what NetworkManager::start keeps of the result                          *)
(* (lsserver/src/network.rs).                                              *)
(*                                                                         *)
(* Polls and replies are datagrams.  A reply that is lost, late or         *)
(* repeated differs from any other only in when and how often it is        *)
(* received, so any reply of the installation, and any datagram of others, *)
(* may be received at any time while the socket is read.                   *)
(***************************************************************************)
EXTENDS KinetCodec

CONSTANTS
  NumArcs,         \* ServerConfig::num_arcs
  HasGpioPin,      \* ServerConfig::gpio_pin is Some
  MaxRetries,      \* polls sent, 3 in NetworkManager::start
  Interfaces,      \* lists of IPv4 addresses the host may have
  Installations,   \* sets of replies the supplies of a stage may give
  Noise            \* datagrams that are no replies to a poll

Kind == {"rgb", "white"}
IPv4 == [1 .. 4 -> 0 .. 255]
Serial == [1 .. 4 -> 0 .. 255]

\* The key of the target map; an arc index is parsed, not checked.
PdsKey == Nat \X Kind
Expected == (0 .. NumArcs - 1) \X Kind

NoLabel == <<NotANumber, "none">>   \* not a key
NoAddress == <<0, 0, 0, 0>>

\* PollReplyPayload; names and labels are characters, whether or not zeros end them.
PollReply ==
  [sequence : [1 .. 4 -> 0 .. 255], src_ip : IPv4, mac : [1 .. 6 -> 0 .. 255],
   data : [1 .. 2 -> 0 .. 255], serial : Serial,
   node_name : [1 .. 60 -> Text \cup {0}], node_label : [1 .. 33 -> Text \cup {0}]]

\* A datagram that discovery would take for the reply of a supply.
IsReply(datagram) ==
  LET size == Min({Len(datagram), PacketSize("PollReply")})
      packet == ReadFrom(SubSeq(datagram, 1, size))
  IN  packet.ok /\ packet.kind = "PollReply"

KinetPowerSupply == [serial : Serial, src_ip : IPv4, label : PdsKey]

ASSUME DiscoveryAssumption ==
  /\ NumArcs \in Nat
  /\ HasGpioPin \in BOOLEAN
  /\ MaxRetries \in Nat
  /\ Interfaces \subseteq Seq(IPv4)
  /\ \A replies \in Installations : replies \subseteq PollReply
  /\ Noise \subseteq Seq(Octet)
  /\ \A datagram \in Noise : ~IsReply(datagram)

VARIABLES
  phase,               \* "new", "bind", "poll", "listen", "map", then "running"
                       \* or "failed"
  local_ip,            \* of the interface discovery uses
  attempt,             \* polls sent
  recv_buf,
  seen_serials,
  discovered_targets,  \* in the order of their first replies
  targets,             \* the validated map, a function on keys
  tracked,             \* serials in pds_heartbeats
  error,               \* why new or start has returned Err
  (* the environment *)
  installation,        \* the replies the supplies of this stage may give
  heard                \* history: the replies received so far

localVars == <<recv_buf, seen_serials>>
resultVars == <<targets, tracked>>
vars == <<phase, local_ip, attempt, localVars, discovered_targets, resultVars,
          error, installation, heard>>

EmptyBuffer == Zeros(PacketSize("PollReply"))

Fail(why) == phase' = "failed" /\ error' = why
-----------------------------------------------------------------------------
(* NetworkManager::new *)

\* The GPIO line, if one is configured, is claimed or is not to be had.
ClaimPin ==
  /\ phase = "new"
  /\ \/ phase' = "bind" /\ UNCHANGED error
     \/ HasGpioPin /\ Fail("gpio")
  /\ UNCHANGED <<local_ip, attempt, localVars, discovered_targets, resultVars,
                 installation, heard>>
-----------------------------------------------------------------------------
(* discover_pds *)

\* The stage's network, 10.0.0.0/8.
KinetAddress(ip) == ip[1] = 10

\* get_local_kinet_ip, the first such interface, and a socket bound to it.
Bind ==
  /\ phase = "bind"
  /\ \E ifaces \in Interfaces :
       \/ /\ \E i \in DOMAIN ifaces :
               /\ KinetAddress(ifaces[i])
               /\ \A j \in 1 .. i - 1 : ~KinetAddress(ifaces[j])
               /\ local_ip' = ifaces[i]
          /\ phase' = IF MaxRetries = 0 THEN "map" ELSE "poll"
          /\ UNCHANGED error
       \/ /\ ~ \E i \in DOMAIN ifaces : KinetAddress(ifaces[i])
          /\ Fail("interface")
          /\ UNCHANGED local_ip
       \/ Fail("socket") /\ UNCHANGED local_ip
  /\ UNCHANGED <<attempt, localVars, discovered_targets, resultVars,
                 installation, heard>>

PollPacket ==
  WriteTo("Poll", [sequence |-> U32(0), magic_ip |-> <<10, 37, 1, 1>>])

\* Supplies answer a poll from their network, and send the answer where
\* magic_ip says, which must be somewhere.
Answered ==
  /\ KinetAddress(local_ip)
  /\ LET poll == ReadFrom(PollPacket)
     IN  /\ poll.ok /\ poll.kind = "Poll"
         /\ poll.payload.magic_ip \notin {NoAddress, <<255, 255, 255, 255>>}

\* A poll that does not count while no supply has answered.
PollUntilHeard ==
  /\ phase = "poll"
  /\ attempt < MaxRetries
  /\ \/ /\ phase' = "listen"
        /\ attempt' = IF discovered_targets = <<>> THEN attempt ELSE attempt + 1
        /\ UNCHANGED error
     \/ Fail("socket") /\ UNCHANGED attempt
  /\ UNCHANGED <<local_ip, localVars, discovered_targets, resultVars, installation, heard>>

\* One poll, to everyone; an error of the socket ends discovery.
Poll ==
  /\ phase = "poll"
  /\ attempt < MaxRetries
  /\ \/ /\ phase' = "listen" /\ attempt' = attempt + 1
        /\ UNCHANGED error
     \/ Fail("socket") /\ UNCHANGED attempt
  /\ UNCHANGED <<local_ip, localVars, discovered_targets, resultVars, installation, heard>>

\* The arc and kind a label names, if it is two words of which the second is a
\* number and C or W.
ParseLabel(label) ==
  LET words == IF label = <<>> THEN <<>> ELSE Words[label[1]]
  IN  IF /\ Len(words) = 2
         /\ words[2].suffix # "other"
         /\ words[2].number # NotANumber
        THEN <<words[2].number, IF words[2].suffix = "C" THEN "rgb" ELSE "white">>
        ELSE NoLabel

Pds(reply) ==
  [serial |-> reply.serial, src_ip |-> reply.src_ip,
   label |-> ParseLabel(UntilNul(reply.node_label))]

\* A supply that is registered again when it answers with another label.
ProcessRelabelled(reply) ==
  /\ seen_serials' = seen_serials \cup {reply.serial}
  /\ discovered_targets' =
       IF Pds(reply).label = NoLabel
          \/ \E i \in DOMAIN discovered_targets :
               discovered_targets[i].label = Pds(reply).label
         THEN discovered_targets ELSE Append(discovered_targets, Pds(reply))

\* A supply that is registered whatever its label.
ProcessUnlabelled(reply) ==
  /\ seen_serials' = seen_serials \cup {reply.serial}
  /\ discovered_targets' =
       IF reply.serial \in seen_serials
         THEN discovered_targets ELSE Append(discovered_targets, Pds(reply))

\* A supply counts by its first reply; one whose label does not parse is not
\* looked at again.
Process(reply) ==
  /\ seen_serials' = seen_serials \cup {reply.serial}
  /\ discovered_targets' =
       IF reply.serial \in seen_serials \/ Pds(reply).label = NoLabel
         THEN discovered_targets ELSE Append(discovered_targets, Pds(reply))

\* A reader of the whole buffer, whatever was received.
ReadWhole(buffer, size) == ReadFrom(buffer)

\* Only what was received is read: the rest of the buffer is older.
ReadReceived(buffer, size) == ReadFrom(SubSeq(buffer, 1, size))

\* recv_from cuts off what the buffer cannot hold.  What does not parse, or is
\* not a reply, is passed over.
Receive(datagram) ==
  LET size == Min({Len(datagram), Len(recv_buf)})
      packet == ReadReceived(recv_buf', size)
  IN  /\ phase = "listen"
      /\ recv_buf' = [i \in DOMAIN recv_buf |->
                        IF i <= size THEN datagram[i] ELSE recv_buf[i]]
      /\ IF packet.ok /\ packet.kind = "PollReply"
           THEN Process(packet.payload)
           ELSE UNCHANGED <<seen_serials, discovered_targets>>
      /\ UNCHANGED <<phase, local_ip, attempt, resultVars, error, installation>>

ReceiveReply(reply) ==
  /\ Answered
  /\ Receive(WriteTo("PollReply", reply))
  /\ heard' = heard \cup {reply}

ReceiveNoise(datagram) == Receive(datagram) /\ UNCHANGED heard

\* The next attempt, also if all expected supplies have answered: that only
\* makes the thread sleep first.
Retry == phase' = IF attempt < MaxRetries THEN "poll" ELSE "map"

\* The window of 500 ms is over, whatever was received in it; discover_pds
\* returns after the last.
EndWindow ==
  /\ phase = "listen"
  /\ Retry
  /\ IF phase' = "map" THEN recv_buf' = EmptyBuffer /\ seen_serials' = {}
                       ELSE UNCHANGED localVars
  /\ UNCHANGED <<local_ip, attempt, discovered_targets, resultVars, error,
                 installation, heard>>
-----------------------------------------------------------------------------
(* map_and_validate_targets *)

Keys(raw) == {raw[i].label : i \in DOMAIN raw}

\* Entry j replaces entry i, the last one under the same key.
Replaces(raw, i, j) ==
  /\ i < j
  /\ raw[i].label = raw[j].label
  /\ \A k \in i + 1 .. j - 1 : raw[k].label # raw[j].label

\* A check that compares serials instead of addresses.
DuplicatesBySerial(raw) ==
  \E i, j \in DOMAIN raw : Replaces(raw, i, j) /\ raw[i].serial # raw[j].serial

\* Two supplies with one label are duplicates if their addresses differ, whether
\* or not the stage has that arc.
Duplicates(raw) ==
  \E i, j \in DOMAIN raw : Replaces(raw, i, j) /\ raw[i].src_ip # raw[j].src_ip

\* A check of the colour supplies only.
MissingColour(raw) == ~((0 .. NumArcs - 1) \X {"rgb"} \subseteq Keys(raw))

\* A key of an expected universe that no supply has.
Missing(raw) == ~(Expected \subseteq Keys(raw))

\* The map that insert builds: the last entry of each key, out of bounds or not.
Mapped(raw) ==
  [key \in Keys(raw) |->
     raw[CHOOSE i \in DOMAIN raw :
           /\ raw[i].label = key
           /\ \A j \in DOMAIN raw : raw[j].label = key => j <= i]]

\* start: the loop and the heartbeat monitor run only with a validated map and
\* a socket to send from.
Start ==
  /\ phase = "map"
  /\ discovered_targets' = <<>>
  /\ \/ Duplicates(discovered_targets) /\ Fail("duplicates")
     \/ ~Duplicates(discovered_targets) /\ Missing(discovered_targets) /\ Fail("missing")
     \/ /\ ~Duplicates(discovered_targets) /\ ~Missing(discovered_targets)
        /\ \/ Fail("socket")
           \/ /\ phase' = "running"
              /\ targets' = Mapped(discovered_targets)
              /\ tracked' = {targets'[key].serial : key \in DOMAIN targets'}
              /\ heard' = {}
              /\ UNCHANGED error
  /\ phase' = "failed" => UNCHANGED <<resultVars, heard>>
  /\ UNCHANGED <<local_ip, attempt, localVars, installation>>
-----------------------------------------------------------------------------
Init ==
  /\ phase = "new"
  /\ local_ip = NoAddress
  /\ attempt = 0
  /\ recv_buf = EmptyBuffer
  /\ seen_serials = {}
  /\ discovered_targets = <<>>
  /\ targets = [key \in {} |-> NoLabel]
  /\ tracked = {}
  /\ error = "none"
  /\ installation \in Installations
  /\ heard = {}

Progress == ClaimPin \/ Bind \/ Poll \/ EndWindow \/ Start

Next ==
  \/ Progress
  \/ \E reply \in installation : ReceiveReply(reply)
  \/ \E datagram \in Noise : ReceiveNoise(datagram)

Spec == Init /\ [][Next]_vars

\* Each window ends by the clock and start is run by one thread.
FairSpec == Spec /\ WF_vars(Progress)
-----------------------------------------------------------------------------
(* Properties *)

TypeOK ==
  /\ phase \in {"new", "bind", "poll", "listen", "map", "running", "failed"}
  /\ local_ip \in IPv4
  /\ attempt \in 0 .. MaxRetries
  /\ DOMAIN recv_buf = DOMAIN EmptyBuffer
  /\ \A i \in DOMAIN recv_buf : recv_buf[i] \in Octet
  /\ seen_serials \subseteq Serial
  /\ discovered_targets \in Seq(KinetPowerSupply)
  /\ DOMAIN targets \subseteq PdsKey
  /\ \A key \in DOMAIN targets : targets[key] \in KinetPowerSupply
  /\ tracked \subseteq Serial
  /\ error \in {"none", "gpio", "interface", "socket", "duplicates", "missing"}
  /\ installation \in Installations
  /\ heard \subseteq installation

\* What decides: the first reply of each supply, if its label parses.
Registered == {discovered_targets[i] : i \in DOMAIN discovered_targets}

\* When the loop starts, every universe has a supply that carries its label, and no
\* supply elsewhere was heard to carry the same one.
UniversesServed ==
  [][phase # "running" /\ phase' = "running" =>
       \A key \in Expected :
         /\ key \in DOMAIN targets'
         /\ targets'[key].label = key
         /\ \A pds \in Registered :
              pds.label = key => pds.src_ip = targets'[key].src_ip]_vars

\* No supply is sent two universes, although replies repeat and a supply may be
\* given another label while it is looked for.
OneUniversePerSupply ==
  \A k1, k2 \in DOMAIN targets : targets[k1].serial = targets[k2].serial => k1 = k2

\* Every supply that is registered or driven is one of the installation, at the
\* address and with the label that it gave in one and the same reply, whatever
\* else arrives on the socket in between.
HeardAsSent ==
  Registered \cup {targets[key] : key \in DOMAIN targets}
    \subseteq {Pds(reply) : reply \in installation}

\* Supplies of distinct serials that cover the stage, one address to each label.
Sound(supplies) ==
  /\ \A p, q \in supplies : p.serial = q.serial => p = q
  /\ \A p, q \in supplies : p.label = q.label /\ p.label # NoLabel => p.src_ip = q.src_ip
  /\ \A key \in Expected : \E p \in supplies : p.label = key

\* A sound installation all of whose supplies were heard in one of the attempts,
\* in any order and however often, is accepted, also if it has more supplies
\* than the stage needs.
SoundStageStarts ==
  Sound({Pds(reply) : reply \in installation}) /\ heard = installation =>
    error \notin {"duplicates", "missing"}

\* Discovery ends with an answer, whatever is received.
DiscoveryEnds == <>(phase \in {"running", "failed"})

\* "Reattempts discovery `max_retries` times, or until all expected PDSs respond"
\* (network.rs:72).
StopsWhenAllRespond ==
  [][attempt' # attempt => ~(Expected \subseteq Keys(discovered_targets))]_vars
=============================================================================
