-------------------------- MODULE BroadcasterProofs --------------------------
(***************************************************************************)
(* Proofs about the frames on the wire for any stage, installation and     *)
(* number of frames, whatever datagrams are lost.                          *)
(*                                                                         *)
(* A frame's universe tells every light its colour after all the updates   *)
(* of Renderer::update, whose order is a fold's (UpdateTells).             *)
(* BroadcasterType says what frames, the packet buffer and the datagrams   *)
(* are; MapInv what discovery left in the map and keeps meanwhile.         *)
(* BroadcastInv is why the lights show one look: the frame tells the       *)
(* look, the header stands while the universes are written behind it, and  *)
(* what arrived at a universe's address carries the look it was sent for.  *)
(***************************************************************************)
EXTENDS Broadcaster, DiscoveryProofs
-----------------------------------------------------------------------------
(* The octets of a colour *)

\* What is on the wire, and what a fixture is told.
Byte == 0 .. 255
Value == 0 .. 65535

\* A colour is three values.
LEMMA ColourType == Colour = [1 .. 3 -> Value]
  BY DEF Colour, Value

\* A value in two octets.
LEMMA Halves ==
  ASSUME NEW value \in Int, 0 <= value, value <= 65535,
         NEW high, high = value \div 256, NEW low, low = value % 256
  PROVE  high \in 0 .. 255 /\ low \in 0 .. 255 /\ 256 * high + low = value
  BY SMT

\* The octets of a colour.
ColourOctets(colour) == FlattenSeq([i \in 1 .. 3 |-> ToBytes(colour[i])])

\* A value is written as two octets that make it up.
LEMMA ToBytesType ==
  ASSUME NEW value \in Int, 0 <= value, value <= 65535
  PROVE  /\ ToBytes(value) \in Seq(Byte) /\ Len(ToBytes(value)) = 2
         /\ 256 * ToBytes(value)[1] + ToBytes(value)[2] = value
<1>1. PICK high, low : high = value \div 256 /\ low = value % 256
  OBVIOUS
<1>2. high \in Byte /\ low \in Byte /\ 256 * high + low = value
  BY <1>1, Halves DEF Byte
<1>3. ToBytes(value) = <<high, low>>
  BY <1>1 DEF ToBytes
<1>4. <<high, low>> \in Seq(Byte) /\ Len(<<high, low>>) = 2 /\ <<high, low>>[1] = high
      /\ <<high, low>>[2] = low
  BY <1>2
<1>5. QED
  BY <1>2, <1>3, <1>4

\* Six of them, two to a value, most significant first.
LEMMA ColourWritten ==
  ASSUME NEW colour \in Colour
  PROVE  /\ ColourOctets(colour) \in Seq(Byte) /\ Len(ColourOctets(colour)) = 6
         /\ \A i \in 1 .. 3 :
              256 * ColourOctets(colour)[2 * i - 1] + ColourOctets(colour)[2 * i] = colour[i]
<1> DEFINE part == [i \in 1 .. 3 |-> ToBytes(colour[i])]
           a == part[1]
           b == part[2]
           c == part[3]
           ab == a \o b
           abc == ab \o c
           Flattens(g) == g = [i \in 1 .. Len(part) |-> IF i = 1
             THEN part[i] ELSE g[i - 1] \o part[i]]
<1>1. \A i \in 1 .. 3 : colour[i] \in Int /\ 0 <= colour[i] /\ colour[i] <= 65535
  <2>1. \A v \in Value : v \in Int /\ 0 <= v /\ v <= 65535
    BY SMTT(30) DEF Value
  <2>2. QED
    BY <2>1, ColourType, SMTT(30)
<1>2. Len(part) = 3 /\ \A i \in 1 .. 3 : part[i] = ToBytes(colour[i])
  OBVIOUS
<1>3. ColourOctets(colour) = FlattenSeq(part)
  BY DEF ColourOctets
<1> HIDE DEF part
<1>4. FlattenSeq(part) = (CHOOSE g : Flattens(g))[Len(part)]
  BY <1>2 DEF FlattenSeq
<1>5. \E g : Flattens(g)
  <2> DEFINE g == <<a, ab, abc>>
  <2>1. g[1] = a /\ g[2] = ab /\ g[3] = abc /\ DOMAIN g = 1 .. 3 /\ g = [i \in 1 .. 3 |-> g[i]]
    <3> HIDE DEF a, ab, abc
    <3>1. QED
      OBVIOUS
  <2> HIDE DEF g
  <2>2. \A i \in 1 .. 3 : g[i] = IF i = 1 THEN part[i] ELSE g[i - 1] \o part[i]
    <3>1. part[1] = a /\ ab = a \o part[2] /\ abc = ab \o part[3]
      OBVIOUS
    <3> HIDE DEF a, ab, abc
    <3>2. \A i \in 1 .. 3 : i = 1 \/ (i = 2 /\ i - 1 = 1) \/ (i = 3 /\ i - 1 = 2)
      OBVIOUS
    <3>3. QED
      BY <2>1, <3>1, <3>2
  <2>3. g = [i \in 1 .. 3 |-> IF i = 1 THEN part[i] ELSE g[i - 1] \o part[i]]
    BY <2>1, <2>2
  <2>4. QED
    BY <1>2, <2>3
<1>6. ColourOctets(colour) = abc
  <2>1. PICK g : Flattens(g) /\ ColourOctets(colour) = g[Len(part)]
    BY <1>3, <1>4, <1>5, Zenon
  <2> HIDE DEF abc
  <2>2. g[1] = part[1] /\ g[2] = g[1] \o part[2] /\ g[3] = g[2] \o part[3]
    <3>1. 1 .. Len(part) = 1 .. 3 /\ g = [i \in 1 .. Len(part) |-> IF i = 1
            THEN part[i] ELSE g[i - 1] \o part[i]]
      BY <1>2, <2>1
    <3>2. \A i \in 1 .. 3 : g[i] = IF i = 1 THEN part[i] ELSE g[i - 1] \o part[i]
      BY <3>1
    <3>3. 2 - 1 = 1 /\ 3 - 1 = 2 /\ 1 \in 1 .. 3 /\ 2 \in 1 .. 3 /\ 3 \in 1 .. 3 /\ 2 # 1 /\ 3 # 1
      OBVIOUS
    <3>4. g[2] = g[2 - 1] \o part[2] /\ g[3] = g[3 - 1] \o part[3]
      BY <3>2, <3>3, Zenon
    <3>5. QED
      BY <3>2, <3>3, <3>4
  <2>3. QED
    BY <1>2, <2>1, <2>2, Zenon DEF abc
<1>7. /\ a \in Seq(Byte) /\ Len(a) = 2 /\ 256 * a[1] + a[2] = colour[1]
      /\ b \in Seq(Byte) /\ Len(b) = 2 /\ 256 * b[1] + b[2] = colour[2]
      /\ c \in Seq(Byte) /\ Len(c) = 2 /\ 256 * c[1] + c[2] = colour[3]
  BY <1>1, <1>2, ToBytesType
<1> HIDE DEF a, b, c
<1>8. /\ ab \in Seq(Byte) /\ Len(ab) = 4
      /\ ab[1] = a[1] /\ ab[2] = a[2] /\ ab[3] = b[1] /\ ab[4] = b[2]
  <2>1. ab = a \o b
    OBVIOUS
  <2> HIDE DEF ab
  <2>2. /\ ab \in Seq(Byte) /\ Len(ab) = Len(a) + Len(b)
        /\ \A q \in 1 .. Len(a) : ab[q] = a[q]
        /\ \A p \in 1 .. Len(b) : ab[Len(a) + p] = b[p]
    <3>1. a \in Seq(Byte) /\ b \in Seq(Byte)
      BY <1>7
    <3>2. QED
      BY <2>1, <3>1, Joined
  <2>3. QED
    BY <1>7, <2>2
<1> HIDE DEF ab
<1>9. /\ abc \in Seq(Byte) /\ Len(abc) = 6
      /\ abc[1] = ab[1] /\ abc[2] = ab[2] /\ abc[3] = ab[3] /\ abc[4] = ab[4]
      /\ abc[5] = c[1] /\ abc[6] = c[2]
  <2>1. abc = ab \o c
    OBVIOUS
  <2> HIDE DEF abc
  <2>2. /\ abc \in Seq(Byte) /\ Len(abc) = Len(ab) + Len(c)
        /\ \A q \in 1 .. Len(ab) : abc[q] = ab[q]
        /\ \A p \in 1 .. Len(c) : abc[Len(ab) + p] = c[p]
    <3>1. ab \in Seq(Byte) /\ c \in Seq(Byte)
      BY <1>7, <1>8
    <3>2. QED
      BY <2>1, <3>1, Joined
  <2>3. QED
    BY <1>7, <1>8, <2>2
<1> HIDE DEF abc
<1>10. ASSUME NEW i \in 1 .. 3
       PROVE  256 * abc[2 * i - 1] + abc[2 * i] = colour[i]
  <2>1. CASE i = 1
    BY <1>7, <1>8, <1>9, <2>1
  <2>2. CASE i = 2
    BY <1>7, <1>8, <1>9, <2>2
  <2>3. CASE i = 3
    BY <1>7, <1>8, <1>9, <2>3
  <2>4. QED
    BY <2>1, <2>2, <2>3
<1>11. QED
  BY <1>6, <1>9, <1>10
-----------------------------------------------------------------------------
(* Universes *)

\* The layout of the buffer, and how many lights a universe has.
LEMMA LayoutSizes ==
  /\ LightsPerArc \in Nat
  /\ UniverseSize \in Nat /\ UniverseSize <= 65535
  /\ HeaderSize = 21
<1>1. LightsPerArc \in Nat /\ UniverseSize \in Nat /\ UniverseSize <= 65535
  BY LayoutAssumption, SMTT(30)
<1>2. HeaderSize = 21
  BY SMTT(30) DEF HeaderSize, PacketSize, HEADER_SIZE, Size
<1>3. QED
  BY <1>1, <1>2, SMTT(30)

\* main unwraps what every light needs of its universe.
LEMMA LightsFit == \A light \in Light : Fits(BaseAddress(light))
  BY LayoutAssumption, SMTT(30)

\* main cuts no address off: the lights that fit a universe are too few for that.
LEMMA AddressFits ==
  ASSUME NEW light \in Light
  PROVE  /\ light \in Nat /\ BaseAddress(light) = 6 * light + 1
         /\ BaseAddress(light) + 5 <= UniverseSize
         /\ \A j \in 0 .. 5 : BaseAddress(light) + j \in 1 .. UniverseSize
<1>1. LightsPerArc \in Nat /\ UniverseSize \in Nat /\ UniverseSize <= 65535
  BY LayoutSizes
<1>2. light \in Nat /\ light < LightsPerArc
  BY <1>1 DEF Light
<1>3. ~ (light >= 10923)
  <2>1. SUFFICES ASSUME light >= 10923 PROVE FALSE
    OBVIOUS
  <2>2. 10922 \in Light
    BY <1>1, <1>2, <2>1 DEF Light
  <2>3. Fits(BaseAddress(10922))
    BY <2>2, LightsFit
  <2>4. BaseAddress(10922) = 65533
    BY DEF BaseAddress
  <2>5. QED
    BY <1>1, <2>3, <2>4 DEF Fits, Index, CHANNELS
<1>4. BaseAddress(light) = 6 * light + 1
  BY <1>2, <1>3 DEF BaseAddress
<1>5. Fits(BaseAddress(light))
  BY LightsFit
<1>6. BaseAddress(light) + 5 <= UniverseSize
  BY <1>1, <1>2, <1>4, <1>5 DEF Fits, Index, CHANNELS
<1>7. QED
  BY <1>1, <1>2, <1>4, <1>6, SMTT(30)

\* The channels of a universe, and what a light of it is told.
Channels == [1 .. UniverseSize -> Byte]

\* A universe tells a light its colour, in six octets from its address on.
Tells(universe, light, colour) ==
  \A j \in 0 .. 5 : universe[BaseAddress(light) + j] = ColourOctets(colour)[j + 1]

\* A colour is written for one light and no other.
LEMMA OneWritten ==
  ASSUME NEW universe \in Channels, NEW light \in Light, NEW colour \in Colour, NEW new,
         new = WriteToUniverse(BaseAddress(light), colour, universe)
  PROVE  /\ new \in Channels
         /\ Tells(new, light, colour)
         /\ \A other \in Light, c \in Colour :
              other # light /\ Tells(universe, other, c) => Tells(new, other, c)
<1> DEFINE octets == ColourOctets(colour)
           base == BaseAddress(light)
<1>1. new = [channel \in DOMAIN universe |->
               IF channel - base \in 0 .. 5 THEN octets[channel - base + 1] ELSE universe[channel]]
  <2>1. CHANNELS - 1 = 5
    BY DEF CHANNELS
  <2>2. QED
    BY <2>1 DEF WriteToUniverse, ColourOctets
<1>2. DOMAIN universe = 1 .. UniverseSize /\ \A channel \in 1 .. UniverseSize :
        universe[channel] \in Byte
  BY DEF Channels
<1>3. /\ light \in Nat /\ base = 6 * light + 1 /\ UniverseSize \in Nat
      /\ \A j \in 0 .. 5 : base + j \in 1 .. UniverseSize
  BY AddressFits, LayoutSizes
<1>4. \A j \in 0 .. 5 : octets[j + 1] \in Byte
  <2>1. octets \in Seq(Byte) /\ Len(octets) = 6
    BY ColourWritten
  <2> HIDE DEF octets
  <2>2. ASSUME NEW j \in 0 .. 5
        PROVE  octets[j + 1] \in Byte
    <3> DEFINE i == j + 1
    <3>1. i \in 1 .. Len(octets)
      BY <2>1
    <3> HIDE DEF i
    <3>2. octets[i] \in Byte
      BY <2>1, <3>1, ElementOfSeq
    <3>3. QED
      BY <3>2 DEF i
  <2>3. QED
    BY <2>2
<1> HIDE DEF octets, base
<1>5. new \in Channels
  <2>1. \A channel \in 1 .. UniverseSize : new[channel] \in Byte
    BY <1>1, <1>2, <1>3, <1>4
  <2>2. new = [channel \in 1 .. UniverseSize |-> new[channel]]
    BY <1>1, <1>2
  <2>3. QED
    BY <2>1, <2>2 DEF Channels
<1>6. \A j \in 0 .. 5 : new[base + j] = octets[j + 1]
  <2>1. \A j \in 0 .. 5 : base + j - base = j
    BY <1>3
  <2>2. QED
    BY <1>1, <1>2, <1>3, <2>1
<1>7. ASSUME NEW other \in Light, NEW c \in Colour, other # light, Tells(universe, other, c),
        NEW j \in 0 .. 5
      PROVE  new[BaseAddress(other) + j] = ColourOctets(c)[j + 1]
  <2>1. /\ other \in Nat /\ BaseAddress(other) = 6 * other + 1
        /\ BaseAddress(other) + j \in 1 .. UniverseSize
    BY AddressFits
  <2>2. (BaseAddress(other) + j) - base \notin 0 .. 5
    BY <1>3, <1>7, <2>1
  <2>3. universe[BaseAddress(other) + j] = ColourOctets(c)[j + 1]
    BY <1>7, Zenon DEF Tells
  <2>4. PICK channel : channel = BaseAddress(other) + j
    OBVIOUS
  <2>5. channel \in 1 .. UniverseSize
    BY <2>1, <2>4, Zenon
  <2>6. channel - base \notin 0 .. 5
    BY <2>2, <2>4, Zenon
  <2>7. new[channel] = universe[channel]
    <3>1. \A ch \in DOMAIN universe : ch - base \notin 0 .. 5 => new[ch] = universe[ch]
      BY <1>1
    <3>2. QED
      BY <1>2, <2>5, <2>6, <3>1, Zenon
  <2>8. QED
    BY <2>3, <2>4, <2>7, Zenon
<1>8. QED
  BY <1>5, <1>6, <1>7 DEF Tells, octets, base

\* The numbers of a universe's lights, as a sequence of them.
LightsInOrder == [i \in 1 .. LightsPerArc |-> i - 1]

\* What Update makes of the lights that are numbered in a set, from a universe.
Updates(g, lights, universe) ==
  g = [s \in SUBSET DOMAIN LightsInOrder |->
         IF s = {} THEN universe
         ELSE WriteToUniverse(BaseAddress(LightsInOrder[Max(s)]), lights[LightsInOrder[Max(s)]],
                              g[s \ {Max(s)}])]

\* Update is that for all lights.
LEMMA UpdateGraph ==
  ASSUME NEW lights \in [Light -> Colour], NEW universe \in Channels
  PROVE  \E g : /\ Update(lights, universe) = g[1 .. LightsPerArc]
                /\ g[1 .. 0] = universe
                /\ \A i \in 1 .. LightsPerArc :
                     g[1 .. i] = WriteToUniverse(BaseAddress(i - 1), lights[i - 1], g[1 .. i - 1])
<1> DEFINE n == LightsPerArc
           Op == [p \in (1 .. n) \X Channels |->
                    WriteToUniverse(BaseAddress(p[1] - 1), lights[p[1] - 1], p[2])]
<1>1. n \in Nat /\ DOMAIN LightsInOrder = 1 .. n /\ \A i \in 1 .. n : LightsInOrder[i] = i - 1
  BY LayoutSizes DEF LightsInOrder
<1>2. \A i \in 1 .. n : i - 1 \in Light /\ lights[i - 1] \in Colour
  BY <1>1 DEF Light
<1>3. Op \in [(1 .. n) \X Channels -> Channels]
  <2>1. ASSUME NEW p \in (1 .. n) \X Channels
        PROVE  WriteToUniverse(BaseAddress(p[1] - 1), lights[p[1] - 1], p[2]) \in Channels
    <3>1. p[1] \in 1 .. n /\ p[2] \in Channels
      OBVIOUS
    <3>2. p[1] - 1 \in Light /\ lights[p[1] - 1] \in Colour
      BY <1>2, <3>1
    <3>3. QED
      BY <3>1, <3>2, OneWritten
  <2>2. QED
    BY <2>1
<1>4. \E g : Updates(g, lights, universe)
  <2>1. PICK g \in [SUBSET (1 .. n) -> Channels] : Folds(g, n, universe, Op)
    <3> HIDE DEF n, Op
    <3>1. QED
      BY <1>1, <1>3, FoldExists
  <2>2. ASSUME NEW s \in SUBSET (1 .. n)
        PROVE  g[s] = IF s = {} THEN universe
                      ELSE WriteToUniverse(BaseAddress(LightsInOrder[Max(s)]),
                                           lights[LightsInOrder[Max(s)]], g[s \ {Max(s)}])
    <3>1. CASE s = {}
      BY <2>1, <3>1 DEF Folds
    <3>2. CASE s # {}
      <4> DEFINE last == Max(s)
                 rest == s \ {last}
      <4>1. last \in 1 .. n
        BY <1>1, <3>2, MaxIn
      <4>2. g[rest] \in Channels
        BY <2>1
      <4>3. g[s] = Op[<<last, g[rest]>>]
        BY <2>1, <3>2 DEF Folds
      <4>4. LightsInOrder[last] = last - 1
        BY <1>1, <4>1
      <4> HIDE DEF last, rest, n
      <4>5. g[s] = WriteToUniverse(BaseAddress(last - 1), lights[last - 1], g[rest])
        BY <4>1, <4>2, <4>3
      <4>6. QED
        BY <3>2, <4>4, <4>5 DEF last, rest
    <3>3. QED
      BY <3>1, <3>2
  <2>3. QED
    BY <1>1, <2>2 DEF Updates
<1>5. Update(lights, universe) = (CHOOSE g : Updates(g, lights, universe))[DOMAIN LightsInOrder]
  BY DEF Update, FoldLeft, MapThenFoldSet, Updates, LightsInOrder
<1>6. PICK g : Updates(g, lights, universe) /\ Update(lights, universe) = g[DOMAIN LightsInOrder]
  BY <1>4, <1>5
<1>7. ASSUME NEW i \in 1 .. n
      PROVE  g[1 .. i] = WriteToUniverse(BaseAddress(i - 1), lights[i - 1], g[1 .. i - 1])
  <2>1. Max(1 .. i) = i /\ (1 .. i) \ {i} = 1 .. i - 1 /\ 1 .. i # {}
    BY Initial
  <2>2. 1 .. i \in SUBSET DOMAIN LightsInOrder
    BY <1>1
  <2>3. LightsInOrder[i] = i - 1
    BY <1>1
  <2>4. QED
    BY <1>6, <2>1, <2>2, <2>3 DEF Updates
<1>8. g[1 .. 0] = universe
  <2>1. 1 .. 0 = {} /\ {} \in SUBSET DOMAIN LightsInOrder
    OBVIOUS
  <2>2. QED
    BY <1>6, <2>1 DEF Updates
<1>9. QED
  BY <1>1, <1>6, <1>7, <1>8, SMTT(30)

\* After an update every light of the universe is told its colour, whatever the
\* universe held.
LEMMA UpdateTells ==
  ASSUME NEW lights \in [Light -> Colour], NEW universe \in Channels
  PROVE  /\ Update(lights, universe) \in Channels
         /\ \A light \in Light : Tells(Update(lights, universe), light, lights[light])
<1> DEFINE n == LightsPerArc
<1>1. n \in Nat
  BY LayoutSizes
<1>2. PICK g : /\ Update(lights, universe) = g[1 .. n]
               /\ g[1 .. 0] = universe
               /\ \A i \in 1 .. n :
                    g[1 .. i] = WriteToUniverse(BaseAddress(i - 1), lights[i - 1], g[1 .. i - 1])
  BY UpdateGraph
<1> DEFINE Good(m) == /\ g[1 .. m] \in Channels
                      /\ \A light \in Light : light < m => Tells(g[1 .. m], light, lights[light])
           Bad == {m \in 0 .. n : ~ Good(m)}
<1>3. Good(0)
  BY <1>1, <1>2 DEF Light
<1>4. ASSUME NEW m \in 1 .. n, Good(m - 1)
      PROVE  Good(m)
  <2> DEFINE before == g[1 .. m - 1]
             all == g[1 .. m]
             this == m - 1
  <2>1. this \in Light /\ lights[this] \in Colour
    BY <1>1 DEF Light
  <2>2. before \in Channels /\ all = WriteToUniverse(BaseAddress(this), lights[this], before)
    BY <1>2, <1>4
  <2>3. \A light \in Light : light < this => Tells(before, light, lights[light])
    BY <1>4
  <2> HIDE DEF before, all
  <2>4. /\ all \in Channels /\ Tells(all, this, lights[this])
        /\ \A other \in Light, c \in Colour :
             other # this /\ Tells(before, other, c) => Tells(all, other, c)
    BY <2>1, <2>2, OneWritten
  <2>5. ASSUME NEW light \in Light, light < m
        PROVE  Tells(all, light, lights[light])
    <3>1. light = this \/ (light # this /\ light < this)
      BY <1>1, <2>5 DEF Light
    <3>2. lights[light] \in Colour
      OBVIOUS
    <3>3. QED
      BY <2>3, <2>4, <3>1, <3>2
  <2>6. QED
    BY <2>4, <2>5 DEF all
<1> HIDE DEF Good
<1>5. Bad = {}
  <2>1. SUFFICES ASSUME Bad # {} PROVE FALSE
    OBVIOUS
  <2>2. PICK m \in Bad : \A k \in Bad : m <= k
    <3>1. Bad \subseteq Nat
      BY <1>1
    <3> HIDE DEF Bad
    <3>2. QED
      BY <2>1, <3>1, Least
  <2>3. m \in 1 .. n /\ m - 1 \in 0 .. n /\ m - 1 < m
    BY <1>1, <1>3, <2>2
  <2>4. Good(m - 1)
    BY <2>2, <2>3
  <2>5. QED
    BY <1>4, <2>2, <2>3, <2>4
<1>6. Good(n)
  BY <1>1, <1>5
<1>7. QED
  BY <1>1, <1>2, <1>6, SMTT(30) DEF Good, Light
-----------------------------------------------------------------------------
(* Headers *)

\* A number as an u32 is four octets.
LEMMA U32Octets ==
  ASSUME NEW n \in Nat
  PROVE  U32(n) \in Seq(Byte) /\ Len(U32(n)) = 4
<1>1. \A v \in Nat : v % 256 \in Byte
  BY DEF Byte
<1>2. n \div 16777216 \in Nat /\ n \div 65536 \in Nat /\ n \div 256 \in Nat
  OBVIOUS
<1>3. \A a, b, c, d \in Byte : <<a, b, c, d>> \in Seq(Byte) /\ Len(<<a, b, c, d>>) = 4
  OBVIOUS
<1> DEFINE a == (n \div 16777216) % 256
           b == (n \div 65536) % 256
           c == (n \div 256) % 256
           d == n % 256
<1>4. a \in Byte /\ b \in Byte /\ c \in Byte /\ d \in Byte
  BY <1>1, <1>2
<1>5. U32(n) = <<a, b, c, d>>
  BY DEF U32
<1> HIDE DEF a, b, c, d
<1>6. QED
  BY <1>3, <1>4, <1>5

\* The header of a frame is a payload of octets, and its sequence number is read.
LEMMA DmxFits ==
  ASSUME NEW number \in Seq(Byte), Len(number) = 4
  PROVE  /\ FitsIn(DefaultDmxOut(number), "DmxOut", Byte)
         /\ Kept("DmxOut", DefaultDmxOut(number)).sequence = number
<1> DEFINE layout == Payload["DmxOut"]
           payload == DefaultDmxOut(number)
<1>1. layout = DmxOutHeader
  BY DEF Payload
<1>2. layout = <<Int32("sequence"), Raw("port", 1), Ignored(1), Int16("flags"),
                 Int32("timer_val"), Raw("universe", 1)>>
  BY <1>1 DEF DmxOutHeader
<1>3. Fields("DmxOut") = {1, 2, 4, 5, 6}
  <2>1. Fields("DmxOut") = {i \in DOMAIN layout : layout[i].form \in {"int", "raw"}}
    BY DEF Fields
  <2>2. DOMAIN layout = 1 .. 6
    BY <1>2
  <2>3. /\ layout[1].form = "int" /\ layout[2].form = "raw" /\ layout[3].form = "any"
        /\ layout[4].form = "int" /\ layout[5].form = "int" /\ layout[6].form = "raw"
    BY <1>2 DEF Int32, Int16, Raw, Ignored, Field
  <2> HIDE DEF layout
  <2>4. QED
    BY <2>1, <2>2, <2>3
<1>4. /\ layout[1].name = "sequence" /\ layout[1].width = 4
      /\ layout[2].name = "port" /\ layout[2].width = 1
      /\ layout[4].name = "flags" /\ layout[4].width = 2
      /\ layout[5].name = "timer_val" /\ layout[5].width = 4
      /\ layout[6].name = "universe" /\ layout[6].width = 1
  BY <1>2 DEF Int32, Int16, Raw, Ignored, Field
<1> HIDE DEF layout
<1>5. /\ payload.sequence = number
      /\ payload.port = <<0>> /\ payload.flags = <<0, 0>>
      /\ payload.timer_val = <<255, 255, 255, 255>> /\ payload.universe = <<0>>
  BY DEF DefaultDmxOut
<1> HIDE DEF payload
<1>6. /\ payload.sequence \in Seq(Byte) /\ Len(payload.sequence) = 4
      /\ payload.port \in Seq(Byte) /\ Len(payload.port) = 1
      /\ payload.flags \in Seq(Byte) /\ Len(payload.flags) = 2
      /\ payload.timer_val \in Seq(Byte) /\ Len(payload.timer_val) = 4
      /\ payload.universe \in Seq(Byte) /\ Len(payload.universe) = 1
  <2>1. 0 \in Byte /\ 255 \in Byte
    BY DEF Byte
  <2>2. ASSUME NEW a \in Byte, NEW s, s = <<a>>
        PROVE  s \in Seq(Byte) /\ Len(s) = 1
    BY <2>2
  <2>3. ASSUME NEW a \in Byte, NEW s, s = <<a, a>>
        PROVE  s \in Seq(Byte) /\ Len(s) = 2
    BY <2>3
  <2>4. ASSUME NEW a \in Byte, NEW s, s = <<a, a, a, a>>
        PROVE  s \in Seq(Byte) /\ Len(s) = 4
    BY <2>4
  <2>5. payload.port \in Seq(Byte) /\ Len(payload.port) = 1
    BY <1>5, <2>1, <2>2
  <2>6. payload.flags \in Seq(Byte) /\ Len(payload.flags) = 2
    BY <1>5, <2>1, <2>3
  <2>7. payload.timer_val \in Seq(Byte) /\ Len(payload.timer_val) = 4
    BY <1>5, <2>1, <2>4
  <2>8. payload.universe \in Seq(Byte) /\ Len(payload.universe) = 1
    BY <1>5, <2>1, <2>2
  <2>9. payload.sequence \in Seq(Byte) /\ Len(payload.sequence) = 4
    BY <1>5
  <2>10. QED
    BY <2>5, <2>6, <2>7, <2>8, <2>9
<1>7. FitsIn(payload, "DmxOut", Byte)
  <2>1. ASSUME NEW i \in Fields("DmxOut")
        PROVE  payload[layout[i].name] \in Seq(Byte)
               /\ Len(payload[layout[i].name]) = layout[i].width
    <3> DEFINE Good(j) == /\ payload[layout[j].name] \in Seq(Byte)
                          /\ Len(payload[layout[j].name]) = layout[j].width
    <3>1. Good(1) /\ Good(2) /\ Good(4) /\ Good(5) /\ Good(6)
      BY <1>4, <1>6
    <3>2. i = 1 \/ i = 2 \/ i = 4 \/ i = 5 \/ i = 6
      BY <1>3
    <3> HIDE DEF Good
    <3>3. Good(i)
      BY <3>1, <3>2
    <3>4. QED
      BY <3>3 DEF Good
  <2>2. QED
    BY <2>1 DEF FitsIn, layout
<1>8. Kept("DmxOut", payload).sequence = number
  <2>1. "sequence" \in {layout[i].name : i \in Fields("DmxOut")}
    BY <1>3, <1>4
  <2>2. QED
    BY <1>5, <2>1 DEF Kept, layout
<1>9. QED
  BY <1>7, <1>8 DEF payload

\* The header of the frame with a sequence number.
HeaderOf(n) == WriteTo("DmxOut", DefaultDmxOut(U32(n)))

\* What the packet buffer holds.
Packets == [1 .. HeaderSize + UniverseSize -> Byte]

\* It is 21 octets.
LEMMA HeaderType ==
  ASSUME NEW n \in Nat
  PROVE  HeaderOf(n) \in Seq(Byte) /\ Len(HeaderOf(n)) = HeaderSize /\ HeaderSize = 21
<1>1. HasOctets(Byte)
  BY DEF HasOctets, Byte
<1>2. FitsIn(DefaultDmxOut(U32(n)), "DmxOut", Byte)
  BY U32Octets, DmxFits
<1>3. "DmxOut" \in DOMAIN Payload /\ HeaderSize = 21
  BY DEF Payload, HeaderSize, PacketSize, HEADER_SIZE, Size
<1>4. QED
  BY <1>1, <1>2, <1>3, PacketWritten DEF HeaderOf, HeaderSize

\* A packet behind that header is read as a frame with its number.
LEMMA HeaderRead ==
  ASSUME NEW n \in Nat, NEW datagram \in Packets,
         \A q \in 1 .. HeaderSize : datagram[q] = HeaderOf(n)[q]
  PROVE  /\ Len(datagram) = HeaderSize + UniverseSize
         /\ ReadFrom(datagram).ok /\ ReadFrom(datagram).kind = "DmxOut"
         /\ ReadFrom(datagram).payload.sequence = U32(n)
<1> DEFINE payload == DefaultDmxOut(U32(n))
<1>1. HasOctets(Byte)
  BY DEF HasOctets, Byte
<1>2. FitsIn(payload, "DmxOut", Byte) /\ Kept("DmxOut", payload).sequence = U32(n)
  BY U32Octets, DmxFits
<1>3. "DmxOut" \in DOMAIN Payload
  BY DEF Payload
<1>4. HeaderOf(n) \in Seq(Byte) /\ Len(HeaderOf(n)) = HeaderSize /\ HeaderSize = 21
  BY HeaderType, SMTT(30)
<1>5. UniverseSize \in Nat
  BY LayoutSizes
<1>6. datagram \in Seq(Byte) /\ Len(datagram) = HeaderSize + UniverseSize
  <2>1. HeaderSize + UniverseSize \in Nat
    BY <1>4, <1>5, SMTT(30)
  <2>2. QED
    BY <2>1, FunctionIsSeq DEF Packets
<1>7. BeginsWith(datagram, WriteTo("DmxOut", payload))
  <2>1. HeaderSize + UniverseSize >= HeaderSize
    BY <1>4, <1>5
  <2>2. QED
    BY <1>4, <1>6, <2>1 DEF BeginsWith, HeaderOf
<1>8. ReadFrom(datagram) = [ok |-> TRUE, kind |-> "DmxOut", payload |-> Kept("DmxOut", payload)]
  BY <1>1, <1>2, <1>3, <1>6, <1>7, ReadsAsWritten
<1>9. QED
  BY <1>2, <1>6, <1>8
-----------------------------------------------------------------------------
(* What a broadcaster holds *)

\* Universes of octets for the whole stage.
FrameType == [Kind -> [Arc -> Channels]]

\* What the state of a broadcaster is, its datagrams included.
BroadcasterType ==
  /\ renderer \in RendererType /\ look \in RendererType
  /\ sequence \in 0 .. SequenceModulus - 1
  /\ cursor \in NotSending .. 2 * NumArcs
  /\ current_frame \in FrameType /\ net_frame \in FrameType
  /\ packet_buf \in Packets
  /\ DOMAIN received = Addresses
  /\ reached \subseteq Expected

\* What BroadcasterTypeOK says of it.
LEMMA TypeFollows == ASSUME BroadcasterType PROVE BroadcasterTypeOK
<1>1. Byte = 0 .. 255 /\ Channels = [1 .. UniverseSize -> 0 .. 255]
  BY DEF Byte, Channels
<1>2. ASSUME NEW frame \in {current_frame, net_frame}, NEW k \in Kind, NEW a \in Arc
      PROVE  frame[k][a] \in Channels
  BY DEF BroadcasterType, FrameType
<1>3. packet_buf \in [1 .. HeaderSize + UniverseSize -> 0 .. 255]
  BY DEF BroadcasterType, Packets, Byte
<1>4. QED
  BY <1>1, <1>2, <1>3 DEF BroadcasterType, BroadcasterTypeOK

\* The universe that is sent next is one of the stage's.
LEMMA UniverseExpected ==
  ASSUME NEW c \in 0 .. 2 * NumArcs - 1
  PROVE  /\ Universe(c) \in Expected /\ Universe(c)[1] \in Arc /\ Universe(c)[2] \in Kind
<1>1. NumArcs \in Nat
  BY DiscoveryAssumption
<1>2. c \div 2 \in 0 .. NumArcs - 1
  <2>1. PICK h : h = c \div 2
    OBVIOUS
  <2>2. h \in Int /\ 0 <= h /\ h <= NumArcs - 1
    BY <1>1, <2>1, SMT
  <2>3. QED
    BY <1>1, <2>1, <2>2
<1>3. (IF c % 2 = 0 THEN "rgb" ELSE "white") \in Kind
  BY DEF Kind
<1>4. QED
  BY <1>2, <1>3 DEF Universe, Expected, Arc

\* What is written in the packet buffer stands there, and the rest stays.
LEMMA WrittenAt ==
  ASSUME packet_buf \in Packets, NEW offset \in Nat, NEW octets, NEW size \in Nat,
         DOMAIN octets = 1 .. size, \A q \in 1 .. size : octets[q] \in Byte,
         offset + size <= HeaderSize + UniverseSize
  PROVE  /\ WriteAt(offset, octets) \in Packets
         /\ \A q \in 1 .. size : WriteAt(offset, octets)[offset + q] = octets[q]
         /\ \A i \in 1 .. offset : WriteAt(offset, octets)[i] = packet_buf[i]
<1> DEFINE new == WriteAt(offset, octets)
           all == HeaderSize + UniverseSize
<1>1. DOMAIN packet_buf = 1 .. all /\ \A i \in 1 .. all : packet_buf[i] \in Byte
  BY DEF Packets
<1>2. new = [i \in 1 .. all |-> IF i - offset \in 1 .. size
        THEN octets[i - offset] ELSE packet_buf[i]]
  BY <1>1 DEF WriteAt
<1>3. all \in Nat /\ offset + size <= all
  <2>1. HeaderSize = 21 /\ UniverseSize \in Nat
    BY LayoutSizes
  <2>2. QED
    BY <2>1, SMTT(30)
<1> HIDE DEF new, all
<1>4. \A i \in 1 .. all : new[i] \in Byte
  BY <1>1, <1>2
<1>5. new \in Packets
  <2>1. new = [i \in 1 .. all |-> new[i]]
    BY <1>2
  <2>2. new \in [1 .. all -> Byte]
    BY <1>4, <2>1
  <2>3. QED
    BY <2>2 DEF Packets, all
<1>6. ASSUME NEW q \in 1 .. size
      PROVE  new[offset + q] = octets[q]
  <2>1. offset + q \in 1 .. all /\ (offset + q) - offset = q
    BY <1>3
  <2>2. QED
    BY <1>2, <2>1
<1>7. ASSUME NEW i \in 1 .. offset
      PROVE  new[i] = packet_buf[i]
  <2>1. i \in 1 .. all /\ i - offset \notin 1 .. size
    BY <1>3
  <2>2. QED
    BY <1>2, <2>1
<1>8. QED
  BY <1>5, <1>6, <1>7 DEF new

\* The stage's fixtures are told their colours by a frame.
TellsLook(frame, shown) ==
  \A k \in Kind, a \in Arc, light \in Light : Tells(frame[k][a], light, shown[k][a][light])

\* Renderer::update over the whole frame.
LEMMA FrameUpdated ==
  ASSUME NEW shown \in RendererType, NEW frame \in FrameType, NEW new,
         new = [k \in Kind |-> [a \in Arc |-> Update(shown[k][a], frame[k][a])]]
  PROVE  new \in FrameType /\ TellsLook(new, shown)
<1>1. ASSUME NEW k \in Kind, NEW a \in Arc
      PROVE  /\ Update(shown[k][a], frame[k][a]) \in Channels
             /\ \A light \in Light :
                  Tells(Update(shown[k][a], frame[k][a]), light, shown[k][a][light])
  <2>1. shown[k][a] \in [Light -> Colour] /\ frame[k][a] \in Channels
    BY DEF RendererType, FrameType
  <2>2. QED
    BY <2>1, UpdateTells
<1>2. \A k \in Kind, a \in Arc : new[k][a] = Update(shown[k][a], frame[k][a])
  OBVIOUS
<1>3. new \in FrameType
  BY <1>1 DEF FrameType
<1>4. TellsLook(new, shown)
  BY <1>1, <1>2 DEF TellsLook
<1>5. QED
  BY <1>3, <1>4

\* The black frame shows unlit fixtures.
LEMMA BlackIsUnlit ==
  /\ BlackFrame \in FrameType /\ Unlit \in RendererType /\ TellsLook(BlackFrame, Unlit)
<1> DEFINE dark == <<0, 0, 0>>
<1>1. dark \in Colour /\ dark[1] = 0 /\ dark[2] = 0 /\ dark[3] = 0
  <2>1. 0 \in Value
    BY DEF Value
  <2>2. dark \in [1 .. 3 -> Value]
    BY <2>1
  <2>3. QED
    BY <2>2, ColourType
<1>2. Black \in Channels /\ \A i \in 1 .. UniverseSize : Black[i] = 0
  <2>1. 0 \in Byte
    BY DEF Byte
  <2>2. QED
    BY <2>1 DEF Black, Channels
<1> HIDE DEF dark
<1>3. \A j \in 0 .. 5 : ColourOctets(dark)[j + 1] = 0
  <2> DEFINE octets == ColourOctets(dark)
  <2>1. /\ octets \in Seq(Byte) /\ Len(octets) = 6
        /\ \A i \in 1 .. 3 : 256 * octets[2 * i - 1] + octets[2 * i] = 0
    <3>1. \A i \in 1 .. 3 : dark[i] = 0
      BY <1>1
    <3>2. QED
      BY <1>1, <3>1, ColourWritten
  <2> HIDE DEF octets
  <2>2. \A i \in 1 .. 6 : octets[i] \in Byte
    BY <2>1, ElementOfSeq
  <2>3. \A x, y \in Byte : 256 * x + y = 0 => x = 0 /\ y = 0
    BY DEF Byte
  <2>4. /\ 256 * octets[1] + octets[2] = 0 /\ 256 * octets[3] + octets[4] = 0
        /\ 256 * octets[5] + octets[6] = 0
    <3>1. 256 * octets[2 * 1 - 1] + octets[2 * 1] = 0 /\ 256 * octets[2 * 2 - 1] + octets[2 * 2] = 0
          /\ 256 * octets[2 * 3 - 1] + octets[2 * 3] = 0
      BY <2>1
    <3>2. QED
      BY <3>1
  <2>5. octets[1] = 0 /\ octets[2] = 0 /\ octets[3] = 0 /\ octets[4] = 0 /\ octets[5] = 0
        /\ octets[6] = 0
    <3>1. /\ octets[1] \in Byte /\ octets[2] \in Byte /\ octets[3] \in Byte
          /\ octets[4] \in Byte /\ octets[5] \in Byte /\ octets[6] \in Byte
      BY <2>2
    <3>2. octets[1] = 0 /\ octets[2] = 0
      BY <2>3, <2>4, <3>1
    <3>3. octets[3] = 0 /\ octets[4] = 0
      BY <2>3, <2>4, <3>1
    <3>4. octets[5] = 0 /\ octets[6] = 0
      BY <2>3, <2>4, <3>1
    <3>5. QED
      BY <3>2, <3>3, <3>4
  <2>6. ASSUME NEW j \in 0 .. 5
        PROVE  octets[j + 1] = 0
    <3>1. j + 1 \in {1, 2, 3, 4, 5, 6}
      OBVIOUS
    <3>2. QED
      BY <2>5, <3>1
  <2>7. QED
    BY <2>6 DEF octets
<1>4. \A light \in Light : Tells(Black, light, dark)
  BY <1>2, <1>3, AddressFits DEF Tells
<1>5. BlackFrame \in FrameType /\ \A k \in Kind, a \in Arc : BlackFrame[k][a] = Black
  BY <1>2 DEF BlackFrame, FrameType
<1>6. Unlit \in RendererType /\ \A k \in Kind, a \in Arc, light \in Light :
        Unlit[k][a][light] = dark
  BY <1>1 DEF Unlit, RendererType, dark
<1>7. QED
  BY <1>4, <1>5, <1>6 DEF TellsLook
-----------------------------------------------------------------------------
(* Who is sent to *)

\* Sequence numbers go round, and the number before the next is this one.
LEMMA NumbersWrap ==
  ASSUME NEW n \in 0 .. SequenceModulus - 1
  PROVE  /\ NextSequence(n) \in 0 .. SequenceModulus - 1
         /\ (NextSequence(n) - 1) % SequenceModulus = n
         /\ (n - 1) % SequenceModulus \in Nat
<1> DEFINE M == SequenceModulus
<1>1. M \in Nat /\ M > 0
  BY BroadcasterAssumption
<1> HIDE DEF M
<1>2. n \in Int /\ 0 <= n /\ n < M
  BY <1>1 DEF M
<1>3. \A v \in Int : 0 <= v /\ v < M => v % M = v
  BY <1>1
<1>4. M % M = 0
  BY <1>1
<1>5. (0 - 1) % M = M - 1
  BY <1>1
<1>6. CASE n + 1 < M
  <2>1. (n + 1) % M = n + 1 /\ (n + 1) - 1 = n /\ n % M = n
    BY <1>2, <1>3, <1>6
  <2>2. NextSequence(n) = n + 1
    BY <2>1 DEF NextSequence, M
  <2>3. (n - 1) % M \in Nat
    BY <1>1, <1>2
  <2>4. QED
    BY <1>1, <1>2, <1>6, <2>1, <2>2, <2>3 DEF M
<1>7. CASE n + 1 = M
  <2>1. NextSequence(n) = 0
    BY <1>4, <1>7 DEF NextSequence, M
  <2>2. (0 - 1) % M = n
    BY <1>2, <1>5, <1>7
  <2>3. (n - 1) % M \in Nat
    BY <1>1, <1>2
  <2>4. QED
    BY <1>1, <1>2, <2>1, <2>2, <2>3 DEF M
<1>8. QED
  BY <1>1, <1>2, <1>6, <1>7

\* A step of the broadcaster is one of discovery or leaves it alone.
LEMMA DiscoveryGoesOn == BroadcasterSpec => Spec
<1>1. BroadcasterInit => Init
  BY DEF BroadcasterInit
<1>2. [BroadcasterNext]_allVars => [Next]_vars
  <2>1. SUFFICES ASSUME [BroadcasterNext]_allVars PROVE [Next]_vars
    OBVIOUS
  <2>2. CASE Next /\ UNCHANGED <<stageVars, sendVars>>
    BY <2>2
  <2>3. CASE SetFixtures
    BY <2>3 DEF SetFixtures
  <2>4. CASE Thread
    BY <2>4 DEF Thread, BeginBroadcast, SendUniverse, EndBroadcast
  <2>5. CASE UNCHANGED allVars
    BY <2>5 DEF allVars
  <2>6. QED
    BY <2>1, <2>2, <2>3, <2>4, <2>5 DEF BroadcasterNext
<1>3. QED
  BY <1>1, <1>2, PTL DEF BroadcasterSpec, Spec

\* The map's supplies carry the labels they are mapped under.
LabelsKept == \A key \in DOMAIN targets : targets[key].label = key

\* Once the loop runs the map stays as it is.
LEMMA MapStays ==
  ASSUME DiscoveryInv, [Next]_vars
  PROVE  /\ installation' = installation
         /\ Running => Running' /\ UNCHANGED targets
<1>1. CASE Otherwise
  BY <1>1 DEF Otherwise, Running
<1>2. CASE phase = "listen" /\ UNCHANGED <<phase, targets, error, installation>>
  BY <1>2 DEF Running
<1>3. CASE Start
  BY <1>3 DEF Start, Running
<1>4. QED
  BY <1>1, <1>2, <1>3, WaysToRegister

\* Every step keeps the map by its labels.
LEMMA LabelsStep ==
  ASSUME DiscoveryInv, LabelsKept, [Next]_vars
  PROVE  LabelsKept'
<1>1. CASE UNCHANGED targets
  BY <1>1 DEF LabelsKept
<1>2. CASE Start
  <2>1. targets' = Mapped(discovered_targets) \/ UNCHANGED targets
    BY <1>2 DEF Start, Fail, resultVars
  <2>2. discovered_targets \in Seq(KinetPowerSupply)
    BY DEF DiscoveryInv, TypeOK
  <2>3. \A key \in DOMAIN Mapped(discovered_targets) : Mapped(discovered_targets)[key].label = key
    BY <2>2, MappedType
  <2>4. QED
    BY <2>1, <2>3 DEF LabelsKept
<1>3. QED
  BY <1>1, <1>2, WaysToRegister DEF Otherwise

\* What discovery is known to keep while frames are sent.
MapInv == DiscoveryInv /\ HeardAsSent /\ LabelsKept

\* So what discovery keeps is kept.
LEMMA MapInvCorrect == BroadcasterSpec => []MapInv
<1>1. Init => DiscoveryInv
  BY TypeInit
<1>2. DiscoveryInv /\ [Next]_vars => DiscoveryInv'
  BY TypeStep
<1>3. Init => LabelsKept
  BY DEF Init, LabelsKept
<1>4. DiscoveryInv /\ LabelsKept /\ [Next]_vars => LabelsKept'
  BY LabelsStep
<1>5. Spec => []HeardAsSent
  BY HeardAsSentCorrect
<1>6. BroadcasterSpec => Spec
  BY DiscoveryGoesOn
<1>7. MapInv <=> DiscoveryInv /\ HeardAsSent /\ LabelsKept
  BY DEF MapInv
<1>8. QED
  BY <1>1, <1>2, <1>3, <1>4, <1>5, <1>6, <1>7, PTL DEF Spec

\* What the map has under a key is one of the installation's supplies, by its label.
LEMMA MapAddress ==
  ASSUME MapInv, NEW key \in DOMAIN targets
  PROVE  /\ targets[key].src_ip \in Addresses
         /\ targets[key] \in Supplies /\ targets[key].label = key
<1>1. PICK reply \in installation : targets[key] = Pds(reply)
  BY DEF MapInv, HeardAsSent
<1>2. targets[key].label = key
  BY DEF MapInv, LabelsKept
<1>3. Pds(reply).src_ip = reply.src_ip
  BY DEF Pds
<1>4. installation \in Installations
  BY DEF MapInv, DiscoveryInv, TypeOK
<1>5. QED
  BY <1>1, <1>2, <1>3, <1>4 DEF Addresses, Supplies

\* A universe is sent to such a supply of the stage's own.
LEMMA RecipientServed ==
  ASSUME MapInv, NEW universe \in Expected, NEW address \in Recipient(universe)
  PROVE  /\ universe \in DOMAIN targets /\ address = targets[universe].src_ip
         /\ address \in Addresses
         /\ \E pds \in Supplies : pds.src_ip = address /\ pds.label \in Expected
<1>1. universe \in DOMAIN targets /\ address = targets[universe].src_ip
  BY DEF Recipient
<1>2. QED
  BY <1>1, MapAddress

\* Nobody else is sent a frame (broadcast_frame).
THEOREM OnlyServedCorrect == BroadcasterSpec => []OnlyServedSupplies
<1>1. BroadcasterInit => OnlyServedSupplies
  BY DEF BroadcasterInit, OnlyServedSupplies
<1>2. MapInv /\ OnlyServedSupplies /\ [BroadcasterNext]_allVars => OnlyServedSupplies'
  <2>1. SUFFICES ASSUME MapInv, OnlyServedSupplies, [BroadcasterNext]_allVars
                 PROVE  OnlyServedSupplies'
    OBVIOUS
  <2>2. OnlyServedSupplies <=>
          \A address \in DOMAIN received :
            received[address] # Nothing =>
              \E pds \in Supplies : pds.src_ip = address /\ pds.label \in Expected
    BY DEF OnlyServedSupplies, Supplies
  <2>3. OnlyServedSupplies' <=>
          \A address \in DOMAIN received' :
            received'[address] # Nothing =>
              \E pds \in Supplies' : pds.src_ip = address /\ pds.label \in Expected
    BY DEF OnlyServedSupplies, Supplies, Nothing
  <2>4. CASE UNCHANGED <<installation, received>>
    BY <2>1, <2>2, <2>3, <2>4 DEF Supplies
  <2>5. CASE Next /\ UNCHANGED <<stageVars, sendVars>>
    <3>1. installation' = installation /\ received' = received
      BY <2>1, <2>5, MapStays DEF MapInv, sendVars
    <3>2. QED
      BY <2>4, <3>1
  <2>6. CASE SetFixtures \/ BeginBroadcast \/ EndBroadcast \/ UNCHANGED allVars
    <3>1. UNCHANGED <<installation, received>>
      BY <2>6 DEF SetFixtures, BeginBroadcast, EndBroadcast, allVars, vars, sendVars
    <3>2. QED
      BY <2>4, <3>1
  <2>7. CASE SendUniverse
    <3> DEFINE universe == Universe(cursor)
    <3>1. universe \in Expected
      BY <2>7, UniverseExpected DEF SendUniverse
    <3>2. PICK delivered \in SUBSET Recipient(universe) :
            received' = [address \in DOMAIN received |->
                           IF address \in delivered THEN packet_buf' ELSE received[address]]
      BY <2>7 DEF SendUniverse
    <3>3. Supplies' = Supplies
      BY <2>7 DEF SendUniverse, vars, Supplies
    <3> HIDE DEF universe
    <3>4. ASSUME NEW address \in DOMAIN received', received'[address] # Nothing
          PROVE  \E pds \in Supplies : pds.src_ip = address /\ pds.label \in Expected
      <4>1. CASE address \in delivered
        <5>1. address \in Recipient(universe)
          BY <3>2, <4>1
        <5>2. QED
          BY <2>1, <3>1, <5>1, RecipientServed
      <4>2. CASE address \notin delivered
        BY <2>1, <2>2, <3>2, <3>4, <4>2, SMTT(30)
      <4>3. QED
        BY <4>1, <4>2
    <3>5. QED
      BY <2>3, <3>3, <3>4
  <2>8. QED
    BY <2>1, <2>5, <2>6, <2>7 DEF BroadcasterNext, Thread
<1>3. QED
  BY <1>1, <1>2, MapInvCorrect, PTL DEF BroadcasterSpec
-----------------------------------------------------------------------------
(* Types *)

\* What the two writes of a broadcast leave in the buffer: a header, and behind it
\* a universe.
LEMMA HeaderWritten ==
  ASSUME packet_buf \in Packets, NEW n \in Nat, NEW new, new = WriteAt(0, HeaderOf(n))
  PROVE  new \in Packets /\ \A q \in 1 .. HeaderSize : new[q] = HeaderOf(n)[q]
<1> DEFINE header == HeaderOf(n)
<1>1. header \in Seq(Byte) /\ Len(header) = HeaderSize
  BY HeaderType
<1> HIDE DEF header
<1>2. DOMAIN header = 1 .. HeaderSize /\ \A q \in 1 .. HeaderSize : header[q] \in Byte
  BY <1>1, ElementOfSeq
<1> DEFINE start == 0
<1>3. new = WriteAt(start, header) /\ header = HeaderOf(n)
  BY DEF header
<1>4. HeaderSize \in Nat /\ start \in Nat /\ start + HeaderSize <= HeaderSize + UniverseSize
      /\ \A q \in 1 .. HeaderSize : start + q = q
  BY LayoutSizes
<1> HIDE DEF start
<1>5. /\ WriteAt(start, header) \in Packets
      /\ \A q \in 1 .. HeaderSize : WriteAt(start, header)[start + q] = header[q]
  BY <1>2, <1>4, WrittenAt
<1>6. QED
  BY <1>3, <1>4, <1>5

\* So does a universe.
LEMMA UniverseWritten ==
  ASSUME packet_buf \in Packets, NEW universe \in Channels, NEW new,
         new = WriteAt(HeaderSize, universe)
  PROVE  /\ new \in Packets
         /\ \A q \in 1 .. UniverseSize : new[HeaderSize + q] = universe[q]
         /\ \A q \in 1 .. HeaderSize : new[q] = packet_buf[q]
<1>1. DOMAIN universe = 1 .. UniverseSize /\ \A q \in 1 .. UniverseSize : universe[q] \in Byte
  BY DEF Channels
<1>2. HeaderSize \in Nat /\ UniverseSize \in Nat
      /\ HeaderSize + UniverseSize <= HeaderSize + UniverseSize
  BY LayoutSizes
<1>3. QED
  BY <1>1, <1>2, WrittenAt

\* The beginning.
LEMMA BroadcasterTypeInit == ASSUME BroadcasterInit PROVE BroadcasterType
<1>1. renderer = Unlit /\ look = Unlit /\ current_frame = BlackFrame /\ net_frame = BlackFrame
  BY DEF BroadcasterInit
<1>2. packet_buf \in Packets
  <2>1. HeaderSize + UniverseSize \in Nat /\ 0 \in Byte
    BY LayoutSizes DEF Byte
  <2>2. QED
    BY <2>1 DEF BroadcasterInit, Zeros, Packets
<1>3. sequence \in 0 .. SequenceModulus - 1 /\ cursor \in NotSending .. 2 * NumArcs
  BY BroadcasterAssumption, DiscoveryAssumption DEF BroadcasterInit, NotSending
<1>4. DOMAIN received = Addresses /\ reached \subseteq Expected
  BY DEF BroadcasterInit
<1>5. QED
  BY <1>1, <1>2, <1>3, <1>4, BlackIsUnlit DEF BroadcasterType

\* Every step leaves the state as BroadcasterType says.
LEMMA BroadcasterTypeStep ==
  ASSUME BroadcasterType, [BroadcasterNext]_allVars
  PROVE  BroadcasterType'
<1>1. CASE UNCHANGED <<stageVars, sendVars>>
  <2>1. UNCHANGED <<renderer, current_frame, net_frame, sequence, packet_buf, cursor, received,
          look, reached>>
    BY <1>1 DEF stageVars, sendVars
  <2>2. FrameType' = FrameType /\ Packets' = Packets
    BY DEF FrameType, Packets
  <2>3. QED
    BY <2>1 DEF BroadcasterType
<1>2. CASE SetFixtures
  <2>1. renderer' \in RendererType
    BY <1>2, BroadcasterAssumption DEF SetFixtures
  <2>2. current_frame' \in FrameType
    BY <1>2, <2>1, FrameUpdated DEF SetFixtures, BroadcasterType
  <2>3. UNCHANGED sendVars
    BY <1>2 DEF SetFixtures
  <2>4. QED
    BY <2>1, <2>2, <2>3 DEF BroadcasterType, sendVars
<1>3. CASE BeginBroadcast
  <2>1. packet_buf' \in Packets
    <3>1. sequence \in Nat /\ packet_buf \in Packets
      BY BroadcasterAssumption DEF BroadcasterType
    <3>2. QED
      BY <1>3, <3>1, HeaderWritten DEF BeginBroadcast, HeaderOf
  <2>2. net_frame' \in FrameType /\ look' \in RendererType
    BY <1>3 DEF BeginBroadcast, BroadcasterType
  <2>3. cursor' = 0 /\ reached' = {} /\ UNCHANGED <<stageVars, sequence, received>>
    BY <1>3 DEF BeginBroadcast
  <2>4. cursor' \in NotSending .. 2 * NumArcs
    BY <2>3, DiscoveryAssumption DEF NotSending
  <2>5. QED
    BY <2>1, <2>2, <2>3, <2>4 DEF BroadcasterType, stageVars
<1>4. CASE SendUniverse
  <2> DEFINE universe == Universe(cursor)
  <2>1. cursor \in 0 .. 2 * NumArcs - 1
    BY <1>4 DEF SendUniverse
  <2>2. universe \in Expected /\ universe[1] \in Arc /\ universe[2] \in Kind
    BY <2>1, UniverseExpected
  <2>3. packet_buf' \in Packets
    <3>1. PayloadOf(universe) \in Channels
      BY <2>2 DEF BroadcasterType, PayloadOf, FrameType
    <3>2. packet_buf' = WriteAt(HeaderSize, PayloadOf(universe)) /\ packet_buf \in Packets
      BY <1>4 DEF SendUniverse, BroadcasterType
    <3>3. QED
      BY <3>1, <3>2, UniverseWritten
  <2>4. DOMAIN received' = DOMAIN received /\ reached' \subseteq reached \cup {universe}
    BY <1>4 DEF SendUniverse
  <2>5. cursor' = cursor + 1 /\ UNCHANGED <<stageVars, net_frame, sequence, look>>
    BY <1>4 DEF SendUniverse
  <2>6. cursor' \in NotSending .. 2 * NumArcs
    BY <2>1, <2>5, DiscoveryAssumption DEF NotSending
  <2> HIDE DEF universe
  <2>7. QED
    BY <2>2, <2>3, <2>4, <2>5, <2>6 DEF BroadcasterType, stageVars
<1>5. CASE EndBroadcast
  <2>1. sequence' \in 0 .. SequenceModulus - 1
    BY <1>5, NumbersWrap DEF EndBroadcast, BroadcasterType
  <2>2. cursor' \in NotSending .. 2 * NumArcs
    BY <1>5, DiscoveryAssumption DEF EndBroadcast, NotSending
  <2>3. QED
    BY <1>5, <2>1, <2>2 DEF EndBroadcast, BroadcasterType, stageVars
<1>6. QED
  BY <1>1, <1>2, <1>3, <1>4, <1>5 DEF BroadcasterNext, Thread, allVars

\* Frames, numbers and datagrams are what they should be, and no universe but the
\* stage's is ever sent (DmxBroadcaster, Renderer::update).
THEOREM BroadcasterTypeCorrect == BroadcasterSpec => []BroadcasterTypeOK
<1>1. BroadcasterInit => BroadcasterType
  BY BroadcasterTypeInit
<1>2. BroadcasterType /\ [BroadcasterNext]_allVars => BroadcasterType'
  BY BroadcasterTypeStep
<1>3. BroadcasterType => BroadcasterTypeOK
  BY TypeFollows
<1>4. QED
  BY <1>1, <1>2, <1>3, PTL DEF BroadcasterSpec
-----------------------------------------------------------------------------
(* What is shown *)

\* A datagram with the header of frame n and the look of a universe.
Carries(datagram, n, universe) ==
  /\ datagram \in Packets
  /\ \A q \in 1 .. HeaderSize : datagram[q] = HeaderOf(n)[q]
  /\ \A light \in Light, j \in 0 .. 5 :
       datagram[HeaderSize + (BaseAddress(light) + j)]
         = ColourOctets(look[universe[2]][universe[1]][light])[j + 1]

\* The number of the broadcast in progress, or the last one.
NumberSent == IF cursor = NotSending THEN (sequence - 1) % SequenceModulus ELSE sequence

\* Why ShowsOneLook holds: a frame and its copy tell every light its colour, the
\* header stands while universes are written behind it, and what arrived last at the
\* address of a universe is a universe delivered there.
BroadcastInv ==
  /\ TellsLook(current_frame, renderer)
  /\ TellsLook(net_frame, look)
  /\ cursor # NotSending => \A q \in 1 .. HeaderSize : packet_buf[q] = HeaderOf(sequence)[q]
  /\ ~Running => cursor = NotSending /\ reached = {}
  /\ \A universe \in reached :
       /\ universe \in DOMAIN targets
       /\ \E shown \in reached :
            /\ targets[shown].src_ip = targets[universe].src_ip
            /\ Carries(received[targets[universe].src_ip], NumberSent, shown)


\* What the state of a broadcaster keeps while it sends and while others act.
FrameInv == BroadcasterType /\ MapInv /\ BroadcastInv

\* What is delivered of a universe carries it.
LEMMA UniverseCarried ==
  ASSUME BroadcasterType, TellsLook(net_frame, look), NEW universe \in Expected,
         \A q \in 1 .. HeaderSize : packet_buf[q] = HeaderOf(sequence)[q],
         NEW datagram, datagram = WriteAt(HeaderSize, PayloadOf(universe))
  PROVE  /\ Carries(datagram, sequence, universe)
         /\ \A q \in 1 .. HeaderSize : datagram[q] = HeaderOf(sequence)[q]
<1> DEFINE payload == PayloadOf(universe)
<1>1. universe[1] \in Arc /\ universe[2] \in Kind
  BY DEF Expected, Arc
<1>2. payload \in Channels /\ packet_buf \in Packets
  BY <1>1 DEF BroadcasterType, FrameType, PayloadOf
<1>3. \A light \in Light : Tells(payload, light, look[universe[2]][universe[1]][light])
  BY <1>1 DEF TellsLook, PayloadOf
<1> HIDE DEF payload
<1>4. /\ datagram \in Packets
      /\ \A q \in 1 .. UniverseSize : datagram[HeaderSize + q] = payload[q]
      /\ \A q \in 1 .. HeaderSize : datagram[q] = packet_buf[q]
  BY <1>2, UniverseWritten DEF payload
<1>5. ASSUME NEW light \in Light, NEW j \in 0 .. 5
      PROVE  datagram[HeaderSize + (BaseAddress(light) + j)]
               = ColourOctets(look[universe[2]][universe[1]][light])[j + 1]
  <2>1. BaseAddress(light) + j \in 1 .. UniverseSize
    BY AddressFits
  <2>2. payload[BaseAddress(light) + j] = ColourOctets(look[universe[2]][universe[1]][light])[j + 1]
    BY <1>3, Zenon DEF Tells
  <2>3. datagram[HeaderSize + (BaseAddress(light) + j)] = payload[BaseAddress(light) + j]
    BY <1>4, <2>1, Zenon
  <2>4. QED
    BY <2>2, <2>3
<1>6. QED
  BY <1>4, <1>5 DEF Carries

\* The beginning: nothing was delivered.
LEMMA FrameInit == ASSUME BroadcasterInit PROVE BroadcastInv
<1>1. renderer = Unlit /\ look = Unlit /\ current_frame = BlackFrame /\ net_frame = BlackFrame
      /\ cursor = NotSending /\ reached = {}
  BY DEF BroadcasterInit
<1>2. QED
  BY <1>1, BlackIsUnlit DEF BroadcastInv

\* A step of discovery, which there is none of while frames are sent.
LEMMA FrameKept ==
  ASSUME FrameInv, [Next]_vars, UNCHANGED <<stageVars, sendVars>>
  PROVE  BroadcastInv'
<1>1. UNCHANGED <<renderer, current_frame, net_frame, sequence, packet_buf, cursor, received,
        look, reached>>
  BY DEF stageVars, sendVars
<1>2. Running => Running' /\ targets' = targets
  BY MapStays DEF FrameInv, MapInv
<1>3. ~Running => cursor = NotSending /\ reached = {}
  BY DEF FrameInv, BroadcastInv
<1>4. /\ TellsLook(current_frame, renderer)' /\ TellsLook(net_frame, look)'
      /\ NumberSent' = NumberSent
  BY <1>1 DEF FrameInv, BroadcastInv, TellsLook, NumberSent
<1>5. \A datagram, n, universe : Carries(datagram, n, universe)' = Carries(datagram, n, universe)
  BY <1>1 DEF Carries
<1>6. CASE ~Running
  BY <1>1, <1>3, <1>4, <1>6 DEF BroadcastInv
<1>7. CASE Running
  BY <1>1, <1>2, <1>4, <1>5, <1>7 DEF FrameInv, BroadcastInv
<1>8. QED
  BY <1>6, <1>7

\* The renderer updates the frame, and the copy that is sent stays.
LEMMA FrameSet ==
  ASSUME FrameInv, SetFixtures
  PROVE  BroadcastInv'
<1>1. UNCHANGED <<net_frame, sequence, packet_buf, cursor, received, look, reached, targets, phase>>
  BY DEF SetFixtures, sendVars, vars, resultVars
<1>2. TellsLook(current_frame, renderer)'
  <2>1. renderer' \in RendererType
    BY BroadcasterAssumption DEF SetFixtures
  <2>2. TellsLook(current_frame', renderer')
    BY <2>1, FrameUpdated DEF SetFixtures, FrameInv, BroadcasterType
  <2>3. QED
    BY <2>2 DEF TellsLook
<1>3. TellsLook(net_frame, look)' /\ NumberSent' = NumberSent /\ Running' = Running
  BY <1>1 DEF FrameInv, BroadcastInv, TellsLook, NumberSent, Running
<1>4. \A datagram, n, universe : Carries(datagram, n, universe)' = Carries(datagram, n, universe)
  BY <1>1 DEF Carries
<1>5. QED
  BY <1>1, <1>2, <1>3, <1>4 DEF FrameInv, BroadcastInv

\* A broadcast begins with a copy of the frame, or with the last one, and its header.
LEMMA FrameBegun ==
  ASSUME FrameInv, BeginBroadcast
  PROVE  BroadcastInv'
<1>1. /\ UNCHANGED <<renderer, current_frame, sequence, received, targets, phase>>
      /\ reached' = {} /\ cursor' = 0 /\ Running
  BY DEF BeginBroadcast, stageVars, vars, resultVars
<1>2. TellsLook(current_frame, renderer)' /\ TellsLook(net_frame, look)'
  <2>1. \/ net_frame' = current_frame /\ look' = renderer
        \/ UNCHANGED <<net_frame, look>>
    BY DEF BeginBroadcast
  <2>2. QED
    BY <1>1, <2>1 DEF FrameInv, BroadcastInv, TellsLook
<1>3. \A q \in 1 .. HeaderSize : packet_buf'[q] = HeaderOf(sequence)[q]
  <2>1. sequence \in Nat /\ packet_buf \in Packets
    BY BroadcasterAssumption DEF FrameInv, BroadcasterType
  <2>2. packet_buf' = WriteAt(0, HeaderOf(sequence))
    BY DEF BeginBroadcast, HeaderOf
  <2>3. QED
    BY <2>1, <2>2, HeaderWritten
<1>4. Running'
  BY <1>1 DEF Running
<1>5. QED
  BY <1>1, <1>2, <1>3, <1>4 DEF BroadcastInv

\* A universe is sent, or fails.
LEMMA FrameSent ==
  ASSUME FrameInv, SendUniverse
  PROVE  BroadcastInv'
<1> DEFINE sent == Universe(cursor)
<1>1. /\ UNCHANGED <<renderer, current_frame, net_frame, sequence, look, targets, phase>>
      /\ cursor \in 0 .. 2 * NumArcs - 1 /\ cursor' = cursor + 1 /\ Running
      /\ packet_buf' = WriteAt(HeaderSize, PayloadOf(sent))
  BY DEF SendUniverse, stageVars, vars, resultVars
<1>2. sent \in Expected
  BY <1>1, UniverseExpected
<1>3. PICK delivered \in SUBSET Recipient(sent) :
        /\ received' = [address \in DOMAIN received |->
                          IF address \in delivered THEN packet_buf' ELSE received[address]]
        /\ reached' = IF delivered = {} THEN reached ELSE reached \cup {sent}
  BY DEF SendUniverse
<1>4. cursor # NotSending /\ cursor' # NotSending
  BY <1>1, DiscoveryAssumption DEF NotSending
<1>5. NumberSent = sequence /\ NumberSent' = sequence /\ Running'
  BY <1>1, <1>4 DEF NumberSent, Running
<1>6. TellsLook(current_frame, renderer)' /\ TellsLook(net_frame, look)'
  BY <1>1 DEF FrameInv, BroadcastInv, TellsLook
<1> HIDE DEF sent
<1>7. Carries(packet_buf', sequence, sent) /\ \A q \in 1 .. HeaderSize :
        packet_buf'[q] = HeaderOf(sequence)[q]
  BY <1>1, <1>2, <1>4, UniverseCarried DEF FrameInv, BroadcastInv
<1>8. \A datagram, n, universe : Carries(datagram, n, universe)' = Carries(datagram, n, universe)
  BY <1>1 DEF Carries
<1>9. \A address \in delivered : sent \in DOMAIN targets /\ address = targets[sent].src_ip
                                 /\ address \in DOMAIN received
  BY <1>2, <1>3, RecipientServed DEF FrameInv, BroadcasterType
<1>10. ASSUME NEW universe \in reached'
       PROVE  /\ universe \in DOMAIN targets
              /\ \E shown \in reached' :
                   /\ targets[shown].src_ip = targets[universe].src_ip
                   /\ Carries(received'[targets[universe].src_ip], sequence, shown)
  <2> DEFINE address == targets[universe].src_ip
  <2>1. CASE address \in delivered
    <3>1. sent \in reached' /\ sent \in DOMAIN targets /\ targets[sent].src_ip = address
          /\ received'[address] = packet_buf'
      BY <1>3, <1>9, <2>1
    <3>2. universe \in DOMAIN targets
      BY <1>3, <1>10, <3>1 DEF FrameInv, BroadcastInv
    <3>3. QED
      BY <1>7, <3>1, <3>2
  <2>2. CASE address \notin delivered
    <3>1. universe \in reached
      BY <1>3, <1>9, <1>10, <2>2
    <3>2. /\ universe \in DOMAIN targets
          /\ \E shown \in reached :
               targets[shown].src_ip = address /\ Carries(received[address], sequence, shown)
      BY <1>5, <3>1 DEF FrameInv, BroadcastInv
    <3>3. address \in DOMAIN received
      BY <3>2, <1>2, MapAddress DEF FrameInv, BroadcasterType
    <3>4. received'[address] = received[address] /\ reached \subseteq reached'
      BY <1>3, <2>2, <3>3
    <3>5. QED
      BY <3>2, <3>4
  <2>3. QED
    BY <2>1, <2>2
<1>11. QED
  BY <1>1, <1>4, <1>5, <1>6, <1>7, <1>8, <1>10 DEF BroadcastInv

\* A broadcast ends.
LEMMA FrameEnded ==
  ASSUME FrameInv, EndBroadcast
  PROVE  BroadcastInv'
<1>1. /\ UNCHANGED <<renderer, current_frame, net_frame, packet_buf, received, look, reached,
           targets, phase>>
      /\ cursor = 2 * NumArcs /\ cursor' = NotSending /\ sequence' = NextSequence(sequence)
      /\ Running
  BY DEF EndBroadcast, stageVars, vars, resultVars
<1>2. cursor # NotSending
  BY <1>1, DiscoveryAssumption DEF NotSending
<1>3. NumberSent = sequence /\ NumberSent' = sequence
  <2>1. (NextSequence(sequence) - 1) % SequenceModulus = sequence
    BY NumbersWrap DEF FrameInv, BroadcasterType
  <2>2. QED
    BY <1>1, <1>2, <2>1 DEF NumberSent
<1>4. TellsLook(current_frame, renderer)' /\ TellsLook(net_frame, look)' /\ Running'
  BY <1>1 DEF FrameInv, BroadcastInv, TellsLook, Running
<1>5. \A datagram, n, universe : Carries(datagram, n, universe)' = Carries(datagram, n, universe)
  BY <1>1 DEF Carries
<1>6. QED
  BY <1>1, <1>3, <1>4, <1>5 DEF FrameInv, BroadcastInv

\* A light shows what the octets of its address say.
LEMMA LightShows ==
  ASSUME BroadcasterType, NEW universe \in Expected, NEW datagram, NEW n \in Nat,
         Carries(datagram, n, universe), NEW light \in Light
  PROVE  Shown(datagram, light) = look[universe[2]][universe[1]][light]
<1> DEFINE colour == look[universe[2]][universe[1]][light]
           octets == ColourOctets(colour)
           Octet6(i) == datagram[HeaderSize + BaseAddress(light) + i]
<1>1. colour \in Colour
  <2>1. universe[1] \in Arc /\ universe[2] \in Kind
    BY DEF Expected, Arc
  <2>2. QED
    BY <2>1 DEF BroadcasterType, RendererType
<1>2. \A j \in 0 .. 5 : Octet6(j) = octets[j + 1]
  <2>1. HeaderSize \in Nat /\ BaseAddress(light) \in Nat
    BY LayoutSizes, AddressFits
  <2>2. \A j \in 0 .. 5 :
          HeaderSize + BaseAddress(light) + j = HeaderSize + (BaseAddress(light) + j)
    BY <2>1
  <2>3. QED
    BY <2>2 DEF Carries
<1>3. \A i \in 1 .. 3 : 256 * octets[2 * i - 1] + octets[2 * i] = colour[i]
  BY <1>1, ColourWritten
<1>4. colour = [i \in 1 .. 3 |-> colour[i]]
  BY <1>1, ColourType
<1>5. Shown(datagram, light) = [i \in 1 .. 3 |-> 256 * Octet6(2 * i - 2) + Octet6(2 * i - 1)]
  BY DEF Shown
<1> HIDE DEF colour, octets, Octet6
<1>6. ASSUME NEW i \in 1 .. 3
      PROVE  256 * Octet6(2 * i - 2) + Octet6(2 * i - 1) = colour[i]
  <2>1. /\ 2 * i - 2 \in 0 .. 5 /\ (2 * i - 2) + 1 = 2 * i - 1
        /\ 2 * i - 1 \in 0 .. 5 /\ (2 * i - 1) + 1 = 2 * i
    OBVIOUS
  <2>2. Octet6(2 * i - 2) = octets[2 * i - 1] /\ Octet6(2 * i - 1) = octets[2 * i]
    BY <1>2, <2>1
  <2>3. QED
    BY <1>3, <2>2
<1>7. Shown(datagram, light) = [i \in 1 .. 3 |-> colour[i]]
  BY <1>5, <1>6
<1>8. QED
  BY <1>4, <1>7 DEF colour

\* Each universe that a broadcast has delivered is shown by its lights as the stage
\* was at one moment (broadcast_frame, Renderer::update, write_to_universe).
THEOREM OneLookCorrect == BroadcasterSpec => []ShowsOneLook
<1>1. BroadcasterInit => BroadcasterType /\ BroadcastInv
  BY BroadcasterTypeInit, FrameInit
<1>2. BroadcasterType /\ [BroadcasterNext]_allVars => BroadcasterType'
  BY BroadcasterTypeStep
<1>3. BroadcasterType /\ MapInv /\ BroadcastInv /\ [BroadcasterNext]_allVars => BroadcastInv'
  <2>1. SUFFICES ASSUME FrameInv, [BroadcasterNext]_allVars PROVE BroadcastInv'
    BY DEF FrameInv
  <2>2. CASE Next /\ UNCHANGED <<stageVars, sendVars>>
    BY <2>1, <2>2, FrameKept
  <2>3. CASE UNCHANGED allVars
    <3>1. UNCHANGED vars /\ UNCHANGED <<stageVars, sendVars>>
      BY <2>3 DEF allVars
    <3>2. QED
      BY <2>1, <3>1, FrameKept
  <2>4. QED
    BY <2>1, <2>2, <2>3, FrameSet, FrameBegun, FrameSent, FrameEnded DEF BroadcasterNext, Thread
<1>4. BroadcasterType /\ MapInv /\ BroadcastInv => ShowsOneLook
  <2>1. SUFFICES ASSUME BroadcasterType, MapInv, BroadcastInv, NEW universe \in reached
                 PROVE  LET address == targets[universe].src_ip
                            datagram == received[address]
                            packet == ReadFrom(datagram)
                        IN  /\ Len(datagram) = HeaderSize + UniverseSize
                            /\ packet.ok /\ packet.kind = "DmxOut"
                            /\ packet.payload.sequence
                                 \in {U32(sequence), U32((sequence - 1) % SequenceModulus)}
                            /\ \E shown \in reached :
                                 /\ targets[shown].src_ip = address
                                 /\ \A light \in Light :
                                      Shown(datagram, light) = look[shown[2]][shown[1]][light]
    BY DEF ShowsOneLook
  <2> DEFINE address == targets[universe].src_ip
             datagram == received[address]
  <2>2. PICK shown \in reached : targets[shown].src_ip = address
        /\ Carries(datagram, NumberSent, shown)
    BY <2>1 DEF BroadcastInv
  <2>3. NumberSent \in Nat /\ NumberSent \in {sequence, (sequence - 1) % SequenceModulus}
    BY <2>1, NumbersWrap, BroadcasterAssumption DEF NumberSent, BroadcasterType
  <2>4. shown \in Expected
    BY <2>1, <2>2 DEF BroadcasterType
  <2> HIDE DEF datagram
  <2>5. \A light \in Light : Shown(datagram, light) = look[shown[2]][shown[1]][light]
    BY <2>1, <2>2, <2>3, <2>4, LightShows
  <2>6. /\ Len(datagram) = HeaderSize + UniverseSize
        /\ ReadFrom(datagram).ok /\ ReadFrom(datagram).kind = "DmxOut"
        /\ ReadFrom(datagram).payload.sequence = U32(NumberSent)
    BY <2>2, <2>3, HeaderRead DEF Carries
  <2>7. U32(NumberSent) \in {U32(sequence), U32((sequence - 1) % SequenceModulus)}
    BY <2>3
  <2>8. QED
    BY <2>2, <2>5, <2>6, <2>7 DEF datagram
<1>5. QED
  BY <1>1, <1>2, <1>3, <1>4, MapInvCorrect, PTL DEF BroadcasterSpec
=============================================================================
