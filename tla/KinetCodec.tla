------------------------------ MODULE KinetCodec ------------------------------
(***************************************************************************)
(* KiNET v1 packets on the wire: KinetPacketHeader (kinetrs/src/packet.rs) *)
(* and the payloads (kinetrs/src/payload.rs), octet by octet.              *)
(*                                                                         *)
(* A payload is a record of fields, each a sequence of octets: integers    *)
(* most significant octet first, which the wire reverses unless the field  *)
(* is raw.  The characters of a name or label are one opaque octet, a      *)
(* member of Text, in front of the zeros that end and pad it.              *)
(***************************************************************************)
EXTENDS Integers, SequencesExt

CONSTANTS
  Text,          \* what names and labels may say
  Words          \* the words of a text, as split_whitespace and the suffix
                 \* and number parsers see them

Octet == 0 .. 255 \cup Text

\* A word, and what strip_suffix and parse::<usize> make of it.
NotANumber == -1
Word == [number : Nat \cup {NotANumber}, suffix : {"C", "W", "other"}]

ASSUME CodecAssumption ==
  /\ Text \cap (0 .. 255) = {}
  /\ Words \in [Text -> Seq(Word)]

Zeros(n) == [i \in 1 .. n |-> 0]

\* The octets of a number as an u32.
U32(n) ==
  <<(n \div 16777216) % 256, (n \div 65536) % 256, (n \div 256) % 256, n % 256>>
-----------------------------------------------------------------------------
(* The payloads, field by field *)

Field(name, width, form) == [name |-> name, width |-> width, form |-> form]
Int32(name) == Field(name, 4, "int")
Int16(name) == Field(name, 2, "int")
Raw(name, width) == Field(name, width, "raw")
Reserved(width) == Field("reserved", width, "zero")   \* refused unless zero
Ignored(width) == Field("ignored", width, "any")      \* written as zero

PollPayload == <<Int32("sequence"), Raw("magic_ip", 4), Reserved(2)>>

PollReplyPayload ==
  <<Int32("sequence"), Raw("src_ip", 4), Raw("mac", 6), Int16("data"),
    Int32("serial"), Ignored(4), Raw("node_name", 60), Raw("node_label", 33)>>

HeartBeatPayload ==
  <<Int32("sequence"), Raw("src_ip", 4), Raw("mac", 6), Int16("data16"),
    Int32("serial"), Int32("data32")>>

DmxOutHeader ==
  <<Int32("sequence"), Raw("port", 1), Ignored(1), Int16("flags"),
    Int32("timer_val"), Raw("universe", 1)>>

Payload == [Poll |-> PollPayload, PollReply |-> PollReplyPayload,
            HeartBeat |-> HeartBeatPayload, DmxOut |-> DmxOutHeader]

\* KinetPayload::SIZE, stated beside each write_to.
Size == [Poll |-> 10, PollReply |-> 117, HeartBeat |-> 24, DmxOut |-> 13]

DefaultDmxOut(sequence) ==
  [sequence |-> sequence, port |-> <<0>>, flags |-> <<0, 0>>,
   timer_val |-> <<255, 255, 255, 255>>, universe |-> <<0>>]

\* Where field i of a layout begins; the whole width is that of a last field.
Offset(layout, i) ==
  FoldLeft(LAMBDA n, field : n + field.width, 0, SubSeq(layout, 1, i - 1))

ASSUME SizesMatch ==
  \A kind \in DOMAIN Size :
    Offset(Payload[kind], Len(Payload[kind]) + 1) = Size[kind]
-----------------------------------------------------------------------------
(* KinetPacketHeader *)

KINET_MAGIC == <<4, 1, 220, 74>>
KINET_VERSION_1 == <<0, 1>>
HEADER_SIZE == 8

KinetPacketType ==
  [Poll |-> <<0, 1>>, PollReply |-> <<0, 2>>, SetIp |-> <<0, 3>>,
   SetUniverse |-> <<0, 5>>, SetName |-> <<0, 6>>, HeartBeat |-> <<0, 8>>,
   DmxOut |-> <<1, 1>>, DiscoverFixturesSerialRequest |-> <<2, 1>>,
   DiscoverFixturesSerialReply |-> <<2, 2>>,
   DiscoverFixturesChannelRequest |-> <<2, 3>>]

\* KinetPayload::PACKET_SIZE.
PacketSize(kind) == HEADER_SIZE + Size[kind]

\* Integers are little endian on the wire; reversing is its own inverse.
OnWire(field, octets) == IF field.form = "int" THEN Reverse(octets) ELSE octets

FieldOctets(field, payload) ==
  IF field.form \in {"zero", "any"} THEN Zeros(field.width)
                                    ELSE OnWire(field, payload[field.name])

WritePayload(kind, payload) ==
  FoldLeft(LAMBDA out, field : out \o FieldOctets(field, payload), <<>>, Payload[kind])

\* write_to: the magic is big endian, the rest of the header little endian.
WriteTo(kind, payload) ==
  KINET_MAGIC \o Reverse(KINET_VERSION_1) \o Reverse(KinetPacketType[kind])
    \o WritePayload(kind, payload)

Err(error) == [ok |-> FALSE, error |-> error]

\* The octets of field i of a payload.
At(kind, i, octets) ==
  SubSeq(octets, Offset(Payload[kind], i) + 1, Offset(Payload[kind], i + 1))

Fields(kind) == {i \in DOMAIN Payload[kind] : Payload[kind][i].form \in {"int", "raw"}}

FieldNamed(kind, name) == CHOOSE i \in Fields(kind) : Payload[kind][i].name = name

\* read_exact of each field in turn, then the check of a reserved one.
ReadPayload(kind, octets) ==
  LET layout == Payload[kind]
  IN  IF \/ Len(octets) < Size[kind]
         \/ \E i \in DOMAIN layout :
              layout[i].form = "zero" /\ At(kind, i, octets) # Zeros(layout[i].width)
        THEN Err("Io")
        ELSE [ok |-> TRUE, kind |-> kind,
              payload |-> [name \in {layout[i].name : i \in Fields(kind)} |->
                 LET i == FieldNamed(kind, name)
                 IN  OnWire(layout[i], At(kind, i, octets))]]

\* read_from: the checks in the order in which they are made.
ReadFrom(octets) ==
  LET kind == CHOOSE k \in DOMAIN KinetPacketType :
                Reverse(KinetPacketType[k]) = SubSeq(octets, 7, 8)
  IN  IF Len(octets) < HEADER_SIZE THEN Err("Io")
      ELSE IF SubSeq(octets, 1, 4) # KINET_MAGIC THEN Err("InvalidMagic")
      ELSE IF SubSeq(octets, 5, 6) # Reverse(KINET_VERSION_1)
        THEN Err("UnsupportedVersion")
      ELSE IF ~ \E k \in DOMAIN KinetPacketType :
                  Reverse(KinetPacketType[k]) = SubSeq(octets, 7, 8)
        THEN Err("UnknownPacketType")
      ELSE IF kind \notin DOMAIN Payload THEN Err("UnimplementedPacketType")
      ELSE ReadPayload(kind, SubSeq(octets, HEADER_SIZE + 1, Len(octets)))
-----------------------------------------------------------------------------
(* Names and labels *)

\* with_name, with_label: a text that leaves room for the terminator.
TextField(text, width) == <<text>> \o Zeros(width - 1)

\* node_label_as_str().unwrap_or_default(): the text up to the first NUL, which
\* there may not be.
UntilNul(octets) ==
  LET nul == CHOOSE i \in DOMAIN octets :
               octets[i] = 0 /\ \A j \in 1 .. i - 1 : octets[j] # 0
  IN  IF Contains(octets, 0) THEN SubSeq(octets, 1, nul - 1) ELSE <<>>
=============================================================================
