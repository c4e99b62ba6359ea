--------------------------- MODULE DiscoveryProofs ---------------------------
(***************************************************************************)
(* Proofs about discovery and the codec its messages go through, for any   *)
(* stage and installation, whatever datagrams are received.                *)
(*                                                                         *)
(* The codec: a layout's offsets and a packet's octets are folds over its  *)
(* fields.  FoldExists gives the function that such a fold is a value of,  *)
(* and an argument about every fold goes by the least number of fields for *)
(* which it fails (Least).                                                 *)
(*                                                                         *)
(* Discovery: RegisteredInv says that a supply is registered once.  What   *)
(* validation checks of neighbours under a key holds of all entries under  *)
(* it, by a pair of entries that are as close as any that break it         *)
(* (Closest).  BufferInv keeps the receive buffer as long as a reply, so   *)
(* that a reply is read as it was sent; SoundInv keeps every supply of a   *)
(* sound installation registered from when it is heard to the start.       *)
(***************************************************************************)
EXTENDS Discovery, SequenceTheorems, WellFoundedInduction, TLAPS
-----------------------------------------------------------------------------
(* Folds *)

\* A set of numbers has a least element.
LEMMA Least ==
  ASSUME NEW S, S \subseteq Nat, S # {}
  PROVE  \E least \in S : \A n \in S : least <= n
<1>1. PICK m \in S : \A n \in S : <<n, m>> \notin OpToRel(<, Nat)
  BY NatLessThanWellFounded, WFMin, Zenon
<1>2. \A n \in S : ~ (n < m)
  BY <1>1 DEF OpToRel
<1>3. QED
  BY <1>2

\* A step Op, from an element and what is made of the elements below it, has a
\* function on the sets of elements up to n that it makes, which is what a fold is.
Folds(g, n, base, Op) ==
  \A s \in SUBSET (1 .. n) :
    g[s] = IF s = {} THEN base ELSE Op[<<Max(s), g[s \ {Max(s)}]>>]

\* There is such a function, whatever the step makes.
LEMMA FoldExists ==
  ASSUME NEW n \in Nat, NEW V, NEW base \in V, NEW Op \in [(1 .. n) \X V -> V]
  PROVE  \E g \in [SUBSET (1 .. n) -> V] : Folds(g, n, base, Op)
<1> DEFINE Upto(m) == \E g \in [SUBSET (1 .. m) -> V] : Folds(g, m, base, Op)
           Bad == {m \in 0 .. n : ~ Upto(m)}
<1>1. ASSUME NEW m \in 0 .. n - 1, Upto(m)
      PROVE  Upto(m + 1)
  <2>1. PICK g \in [SUBSET (1 .. m) -> V] : Folds(g, m, base, Op)
    BY <1>1
  <2> DEFINE h == [s \in SUBSET (1 .. m + 1) |->
                     IF m + 1 \in s THEN Op[<<m + 1, g[s \ {m + 1}]>>] ELSE g[s]]
  <2>2. ASSUME NEW s \in SUBSET (1 .. m + 1)
        PROVE  /\ h[s] \in V
               /\ h[s] = IF s = {} THEN base ELSE Op[<<Max(s), h[s \ {Max(s)}]>>]
    <3>1. CASE m + 1 \in s
      <4>1. Max(s) = m + 1
        <5>1. \A y \in s : m + 1 >= y
          BY <1>1
        <5>2. \A x \in s : (\A y \in s : x >= y) => x = m + 1
          BY <1>1, <3>1, <5>1
        <5>3. QED
          BY <3>1, <5>1, <5>2, Zenon DEF Max
      <4>2. s \ {m + 1} \in SUBSET (1 .. m) /\ s \ {m + 1} \in SUBSET (1 .. m + 1)
        BY <1>1
      <4>3. h[s \ {m + 1}] = g[s \ {m + 1}]
        BY <4>2
      <4>4. g[s \ {m + 1}] \in V
        BY <2>1, <4>2
      <4>5. <<m + 1, g[s \ {m + 1}]>> \in (1 .. n) \X V
        BY <1>1, <4>4
      <4>6. h[s] = Op[<<m + 1, g[s \ {m + 1}]>>]
        BY <3>1
      <4>7. Op[<<m + 1, g[s \ {m + 1}]>>] \in V
        BY <4>5, Zenon
      <4>8. s # {}
        BY <3>1
      <4> HIDE DEF h
      <4>9. QED
        BY <4>1, <4>3, <4>6, <4>7, <4>8
    <3>2. CASE m + 1 \notin s
      <4>1. s \in SUBSET (1 .. m)
        BY <1>1, <3>2
      <4>2. s \ {Max(s)} \in SUBSET (1 .. m) /\ s \ {Max(s)} \in SUBSET (1 .. m + 1)
            /\ m + 1 \notin s \ {Max(s)}
        BY <4>1, <3>2
      <4>3. h[s \ {Max(s)}] = g[s \ {Max(s)}] /\ h[s] = g[s]
        BY <3>2, <4>2
      <4>4. g[s] = IF s = {} THEN base ELSE Op[<<Max(s), g[s \ {Max(s)}]>>]
        BY <2>1, <4>1 DEF Folds
      <4>5. g[s] \in V
        BY <2>1, <4>1
      <4> HIDE DEF h
      <4>6. QED
        BY <4>3, <4>4, <4>5
    <3>3. QED
      BY <3>1, <3>2
  <2>3. h \in [SUBSET (1 .. m + 1) -> V]
    <3>1. \A s \in SUBSET (1 .. m + 1) : h[s] \in V
      BY <2>2
    <3>2. QED
      BY <3>1
  <2> HIDE DEF h
  <2>4. Folds(h, m + 1, base, Op)
    BY <2>2 DEF Folds
  <2>5. QED
    BY <2>3, <2>4
<1>2. Upto(0)
  <2> DEFINE h == [s \in SUBSET (1 .. 0) |-> base]
  <2>1. \A s \in SUBSET (1 .. 0) : s = {} /\ h[s] = base
    OBVIOUS
  <2>2. h \in [SUBSET (1 .. 0) -> V]
    OBVIOUS
  <2> HIDE DEF h
  <2>3. Folds(h, 0, base, Op)
    BY <2>1 DEF Folds
  <2>4. QED
    BY <2>2, <2>3
<1> HIDE DEF Upto
<1>3. Bad = {}
  <2>1. SUFFICES ASSUME Bad # {} PROVE FALSE
    OBVIOUS
  <2>2. PICK m \in Bad : \A k \in Bad : m <= k
    <3>1. Bad \subseteq Nat
      OBVIOUS
    <3> HIDE DEF Bad
    <3>2. QED
      BY <2>1, <3>1, Least
  <2>3. m # 0 /\ m \in 1 .. n
    BY <1>2, <2>2
  <2>4. m - 1 \in 0 .. n - 1 /\ m - 1 < m /\ (m - 1) + 1 = m
    BY <2>3
  <2>5. Upto(m - 1)
    BY <2>2, <2>4
  <2>6. Upto(m)
    BY <1>1, <2>4, <2>5
  <2>7. QED
    BY <2>2, <2>6
<1>4. Upto(n)
  BY <1>3
<1>5. QED
  BY <1>4 DEF Upto

\* The last of the numbers up to i is i.
LEMMA Initial ==
  ASSUME NEW i \in Nat \ {0}
  PROVE  Max(1 .. i) = i /\ (1 .. i) \ {i} = 1 .. i - 1 /\ 1 .. i # {}
<1>1. i \in 1 .. i /\ \A y \in 1 .. i : i >= y
  OBVIOUS
<1>2. \A x \in 1 .. i : (\A y \in 1 .. i : x >= y) => x = i
  BY <1>1
<1>3. Max(1 .. i) = i
  BY <1>1, <1>2, Zenon DEF Max
<1>4. QED
  BY <1>1, <1>3

\* The greatest of a set of numbers up to n is one of them.
LEMMA MaxIn ==
  ASSUME NEW n \in Nat, NEW s \in SUBSET (1 .. n), s # {}
  PROVE  Max(s) \in s /\ \A y \in s : Max(s) >= y
<1> DEFINE FromEnd == {d \in Nat : \E x \in s : d = n - x}
<1>1. FromEnd # {}
  <2>1. PICK x \in s : TRUE
    OBVIOUS
  <2>2. n - x \in Nat
    OBVIOUS
  <2>3. QED
    BY <2>1, <2>2
<1>2. PICK d \in FromEnd : \A e \in FromEnd : d <= e
  <2>1. FromEnd \subseteq Nat
    OBVIOUS
  <2> HIDE DEF FromEnd
  <2>2. QED
    BY <1>1, <2>1, Least
<1>3. PICK x \in s : d = n - x
  BY <1>2
<1>4. \A y \in s : x >= y
  <2>1. \A y \in s : n - y \in FromEnd
    OBVIOUS
  <2>2. QED
    BY <1>2, <1>3, <2>1
<1>5. QED
  BY <1>3, <1>4, Zenon DEF Max
-----------------------------------------------------------------------------
(* Offsets *)

\* What a layout is made of.
FieldName ==
  {"sequence", "magic_ip", "reserved", "ignored", "src_ip", "mac", "data", "serial", "node_name",
   "node_label", "data16", "data32", "port", "flags", "timer_val", "universe"}
FieldType == [name : FieldName, width : Nat, form : {"int", "raw", "zero", "any"}]

\* The width of some fields.
Total(fields) == FoldLeft(LAMBDA n, field : n + field.width, 0, fields)

\* A width is a number.
LEMMA WidthIsNat ==
  ASSUME NEW layout \in Seq(FieldType), NEW i \in 1 .. Len(layout)
  PROVE  layout[i].width \in Nat
<1>1. layout[i] \in FieldType
  OBVIOUS
<1>2. QED
  BY <1>1 DEF FieldType

\* g says of each set of fields how wide they are.
Widths(g, fields) ==
  g = [s \in SUBSET DOMAIN fields |->
         IF s = {} THEN 0 ELSE g[s \ {Max(s)}] + fields[Max(s)].width]

\* The width of some fields is that of all but the last and of the last.
LEMMA TotalGraph ==
  ASSUME NEW fields \in Seq(FieldType)
  PROVE  \E g : /\ Total(fields) = g[1 .. Len(fields)]
                /\ g[1 .. 0] = 0
                /\ \A i \in 1 .. Len(fields) : g[1 .. i] = g[1 .. i - 1] + fields[i].width
<1> DEFINE n == Len(fields)
           Op == [p \in (1 .. n) \X Nat |-> p[2] + fields[p[1]].width]
<1>1. n \in Nat /\ DOMAIN fields = 1 .. n
  OBVIOUS
<1>2. Op \in [(1 .. n) \X Nat -> Nat]
  <2>1. \A i \in 1 .. n : fields[i].width \in Nat
    BY <1>1, WidthIsNat
  <2> HIDE DEF n
  <2>2. \A p \in (1 .. n) \X Nat : p[1] \in 1 .. n /\ p[2] \in Nat
    OBVIOUS
  <2>3. \A p \in (1 .. n) \X Nat : p[2] + fields[p[1]].width \in Nat
    BY <2>1, <2>2
  <2>4. QED
    BY <2>3
<1>3. \E g : Widths(g, fields)
  <2>1. PICK g \in [SUBSET (1 .. n) -> Nat] : Folds(g, n, 0, Op)
    <3> HIDE DEF n, Op
    <3>1. QED
      BY <1>1, <1>2, FoldExists
  <2>2. ASSUME NEW s \in SUBSET (1 .. n)
        PROVE  g[s] = IF s = {} THEN 0 ELSE g[s \ {Max(s)}] + fields[Max(s)].width
    <3>1. CASE s = {}
      BY <2>1, <3>1 DEF Folds
    <3>2. CASE s # {}
      <4>1. Max(s) \in 1 .. n
        BY <1>1, <3>2, MaxIn
      <4>2. s \ {Max(s)} \in SUBSET (1 .. n)
        OBVIOUS
      <4>3. g[s] = Op[<<Max(s), g[s \ {Max(s)}]>>]
        BY <2>1, <3>2 DEF Folds
      <4>4. QED
        BY <2>1, <3>2, <4>1, <4>2, <4>3
    <3>3. QED
      BY <3>1, <3>2
  <2>3. g = [s \in SUBSET DOMAIN fields |->
               IF s = {} THEN 0 ELSE g[s \ {Max(s)}] + fields[Max(s)].width]
    BY <1>1, <2>1, <2>2
  <2>4. QED
    BY <2>3 DEF Widths
<1>4. Total(fields) = (CHOOSE g : Widths(g, fields))[DOMAIN fields]
  BY DEF Total, FoldLeft, MapThenFoldSet, Widths
<1>5. PICK g : Widths(g, fields) /\ Total(fields) = g[DOMAIN fields]
  BY <1>3, <1>4
<1>6. ASSUME NEW i \in 1 .. n
      PROVE  g[1 .. i] = g[1 .. i - 1] + fields[i].width
  <2>1. Max(1 .. i) = i /\ (1 .. i) \ {i} = 1 .. i - 1 /\ 1 .. i # {}
    BY Initial, SMTT(30)
  <2>2. 1 .. i \in SUBSET DOMAIN fields
    BY <1>1
  <2>3. QED
    BY <1>5, <2>1, <2>2 DEF Widths
<1>7. g[1 .. 0] = 0
  BY <1>1, <1>5 DEF Widths
<1>8. QED
  BY <1>1, <1>5, <1>6, <1>7

\* Where a field ends the next one begins.
LEMMA OffsetSteps ==
  ASSUME NEW layout \in Seq(FieldType)
  PROVE  /\ Offset(layout, 1) = 0
         /\ \A i \in 1 .. Len(layout) :
              /\ Offset(layout, i) \in Nat
              /\ Offset(layout, i + 1) = Offset(layout, i) + layout[i].width
         /\ Offset(layout, Len(layout) + 1) \in Nat
<1>1. PICK g : /\ g[1 .. 0] = 0
               /\ \A i \in 1 .. Len(layout) : g[1 .. i] = g[1 .. i - 1] + layout[i].width
  BY TotalGraph
<1>2. ASSUME NEW i \in 0 .. Len(layout)
      PROVE  Offset(layout, i + 1) = g[1 .. i]
  <2> DEFINE fields == SubSeq(layout, 1, i)
  <2>1. /\ fields \in Seq(FieldType) /\ Len(fields) = i
        /\ \A j \in 1 .. i : fields[j] = layout[j]
    OBVIOUS
  <2>2. Offset(layout, i + 1) = Total(fields)
    <3>1. (i + 1) - 1 = i
      OBVIOUS
    <3>2. QED
      BY <3>1 DEF Offset, Total
  <2>3. PICK h : /\ Total(fields) = h[1 .. i]
                 /\ h[1 .. 0] = 0
                 /\ \A j \in 1 .. i : h[1 .. j] = h[1 .. j - 1] + fields[j].width
    <3> HIDE DEF fields
    <3>1. QED
      BY <2>1, TotalGraph, ZenonT(60)
  <2> DEFINE Bad == {j \in 0 .. i : h[1 .. j] # g[1 .. j]}
  <2>4. Bad = {}
    <3>1. SUFFICES ASSUME Bad # {} PROVE FALSE
      OBVIOUS
    <3>2. PICK j \in Bad : \A k \in Bad : j <= k
      <4>1. Bad \subseteq Nat
        OBVIOUS
      <4> HIDE DEF Bad
      <4>2. QED
        BY <3>1, <4>1, Least
    <3>3. j \in 1 .. i
      BY <1>1, <2>3, <3>2
    <3>4. j - 1 \in 0 .. i /\ j - 1 < j
      BY <3>3
    <3>5. h[1 .. j - 1] = g[1 .. j - 1]
      BY <3>2, <3>4
    <3> HIDE DEF fields
    <3>6. h[1 .. j] = g[1 .. j]
      BY <1>1, <2>1, <2>3, <3>3, <3>5, SMTT(30)
    <3>7. QED
      BY <3>2, <3>6
  <2>5. h[1 .. i] = g[1 .. i]
    BY <2>4
  <2>6. QED
    BY <2>2, <2>3, <2>5
<1>3. ASSUME NEW i \in 1 .. Len(layout)
      PROVE  Offset(layout, i) = g[1 .. i - 1] /\ Offset(layout, i + 1) = g[1 .. i]
  <2>1. i - 1 \in 0 .. Len(layout) /\ (i - 1) + 1 = i /\ i \in 0 .. Len(layout)
    OBVIOUS
  <2>2. QED
    BY <1>2, <2>1
<1> DEFINE Wide == {j \in 0 .. Len(layout) : g[1 .. j] \notin Nat}
<1>4. Wide = {}
  <2>1. SUFFICES ASSUME Wide # {} PROVE FALSE
    OBVIOUS
  <2>2. PICK j \in Wide : \A k \in Wide : j <= k
    <3>1. Wide \subseteq Nat
      OBVIOUS
    <3> HIDE DEF Wide
    <3>2. QED
      BY <2>1, <3>1, Least
  <2>3. j \in 1 .. Len(layout)
    BY <1>1, <2>2
  <2>4. j - 1 \in 0 .. Len(layout) /\ j - 1 < j
    BY <2>3
  <2>5. g[1 .. j - 1] \in Nat
    BY <2>2, <2>4
  <2>6. layout[j].width \in Nat
    BY <2>3, WidthIsNat
  <2>7. QED
    BY <1>1, <2>2, <2>3, <2>5, <2>6
<1>5. Offset(layout, 1) = 0
  <2>1. 0 \in 0 .. Len(layout) /\ 0 + 1 = 1
    OBVIOUS
  <2>2. QED
    BY <1>1, <1>2, <2>1
<1>6. Offset(layout, Len(layout) + 1) \in Nat
  BY <1>2, <1>4
<1>7. ASSUME NEW i \in 1 .. Len(layout)
      PROVE  /\ Offset(layout, i) \in Nat
             /\ Offset(layout, i + 1) = Offset(layout, i) + layout[i].width
  <2>1. g[1 .. i - 1] \in Nat
    BY <1>4
  <2>2. QED
    BY <1>1, <1>3, <2>1
<1>8. QED
  BY <1>5, <1>6, <1>7
-----------------------------------------------------------------------------
(* Writing *)

\* A function on the numbers up to n is a sequence of n.
LEMMA FunctionIsSeq ==
  ASSUME NEW S, NEW n \in Nat, NEW f \in [1 .. n -> S]
  PROVE  f \in Seq(S) /\ Len(f) = n
<1>1. f \in Seq(S)
  BY SeqDef
<1>2. QED
  BY <1>1

\* So are zeros.
LEMMA ZerosIsSeq ==
  ASSUME NEW S, 0 \in S, NEW n \in Nat
  PROVE  Zeros(n) \in Seq(S) /\ Len(Zeros(n)) = n /\ \A i \in 1 .. n : Zeros(n)[i] = 0
<1>1. Zeros(n) \in [1 .. n -> S]
  BY DEF Zeros
<1>2. QED
  BY <1>1, FunctionIsSeq DEF Zeros

\* Reversing is its own inverse.
LEMMA ReverseTwice ==
  ASSUME NEW S, NEW s \in Seq(S)
  PROVE  /\ Reverse(s) \in Seq(S) /\ Len(Reverse(s)) = Len(s)
         /\ \A i \in 1 .. Len(s) : Reverse(s)[i] = s[Len(s) - i + 1]
         /\ Reverse(Reverse(s)) = s
<1>1. ASSUME NEW t \in Seq(S)
      PROVE  /\ Reverse(t) \in Seq(S) /\ Len(Reverse(t)) = Len(t)
             /\ \A i \in 1 .. Len(t) : Reverse(t)[i] = t[Len(t) - i + 1]
  <2>1. Reverse(t) \in [1 .. Len(t) -> S]
    BY DEF Reverse
  <2>2. Reverse(t) \in Seq(S) /\ Len(Reverse(t)) = Len(t)
    BY <2>1, FunctionIsSeq
  <2>3. QED
    BY <2>2 DEF Reverse
<1>2. /\ Reverse(Reverse(s)) \in Seq(S) /\ Len(Reverse(Reverse(s))) = Len(s)
      /\ Reverse(s) \in Seq(S) /\ Len(Reverse(s)) = Len(s)
  BY <1>1
<1>3. ASSUME NEW i \in 1 .. Len(s)
      PROVE  Reverse(Reverse(s))[i] = s[i]
  <2>1. Len(s) - i + 1 \in 1 .. Len(s) /\ Len(s) - (Len(s) - i + 1) + 1 = i
    OBVIOUS
  <2>2. Reverse(Reverse(s))[i] = Reverse(s)[Len(s) - i + 1]
    BY <1>1, <1>2
  <2>3. QED
    BY <1>1, <2>1, <2>2
<1>4. Reverse(Reverse(s)) = s
  BY <1>2, <1>3, SeqEqual
<1>5. QED
  BY <1>1, <1>4

\* A layout is a sequence of fields.
LEMMA LayoutType ==
  ASSUME NEW kind \in DOMAIN Payload
  PROVE  Payload[kind] \in Seq(FieldType) /\ DOMAIN Payload[kind] = 1 .. Len(Payload[kind])
<1>1. ASSUME NEW name \in FieldName, NEW width \in Nat
      PROVE  /\ Int32(name) \in FieldType /\ Int16(name) \in FieldType
             /\ Raw(name, width) \in FieldType
  BY DEF FieldType, Field, Int32, Int16, Raw
<1>2. \A width \in Nat : Reserved(width) \in FieldType /\ Ignored(width) \in FieldType
  BY DEF FieldType, FieldName, Field, Reserved, Ignored
<1>3. {"sequence", "magic_ip", "src_ip", "mac", "data", "serial", "node_name", "node_label",
       "data16", "data32", "port", "flags", "timer_val", "universe"} \subseteq FieldName
  BY DEF FieldName
<1>4. /\ PollPayload \in Seq(FieldType) /\ PollReplyPayload \in Seq(FieldType)
      /\ HeartBeatPayload \in Seq(FieldType) /\ DmxOutHeader \in Seq(FieldType)
  BY <1>1, <1>2, <1>3 DEF PollPayload, PollReplyPayload, HeartBeatPayload, DmxOutHeader
<1>5. Payload[kind] \in {PollPayload, PollReplyPayload, HeartBeatPayload, DmxOutHeader}
  BY DEF Payload
<1>6. Payload[kind] \in Seq(FieldType)
  BY <1>4, <1>5
<1>7. QED
  BY <1>6

\* A payload has octets of S for each of its fields.
FitsIn(payload, kind, S) ==
  \A i \in Fields(kind) : /\ payload[Payload[kind][i].name] \in Seq(S)
                          /\ Len(payload[Payload[kind][i].name]) = Payload[kind][i].width

\* A field takes the width on the wire that its layout gives it.
LEMMA FieldFits ==
  ASSUME NEW S, 0 \in S, NEW kind \in DOMAIN Payload, NEW payload, FitsIn(payload, kind, S),
         NEW i \in DOMAIN Payload[kind]
  PROVE  /\ FieldOctets(Payload[kind][i], payload) \in Seq(S)
         /\ Len(FieldOctets(Payload[kind][i], payload)) = Payload[kind][i].width
<1> DEFINE field == Payload[kind][i]
<1>1. field.width \in Nat
  BY LayoutType, WidthIsNat
<1>2. field.form \in {"int", "raw", "zero", "any"}
  <2>1. field \in FieldType
    BY LayoutType
  <2>2. QED
    BY <2>1 DEF FieldType
<1>3. CASE field.form \in {"zero", "any"}
  BY <1>1, <1>3, ZerosIsSeq DEF FieldOctets
<1>4. CASE field.form \in {"int", "raw"}
  <2>1. i \in Fields(kind)
    BY <1>4 DEF Fields
  <2>2. payload[field.name] \in Seq(S) /\ Len(payload[field.name]) = field.width
    BY <2>1 DEF FitsIn
  <2> HIDE DEF field
  <2>3. FieldOctets(field, payload) = OnWire(field, payload[field.name])
    BY <1>4 DEF FieldOctets
  <2>4. QED
    BY <2>2, <2>3, ReverseTwice DEF OnWire, field
<1>5. QED
  BY <1>2, <1>3, <1>4

\* g says of each set of fields what they are on the wire.
Written(g, kind, payload) ==
  g = [s \in SUBSET DOMAIN Payload[kind] |->
         IF s = {} THEN <<>>
         ELSE g[s \ {Max(s)}] \o FieldOctets(Payload[kind][Max(s)], payload)]

\* A payload is all fields but the last, and behind them the last.
LEMMA WriteGraph ==
  ASSUME NEW S, 0 \in S, NEW kind \in DOMAIN Payload, NEW payload, FitsIn(payload, kind, S)
  PROVE  \E g : /\ WritePayload(kind, payload) = g[1 .. Len(Payload[kind])]
                /\ g[1 .. 0] = <<>>
                /\ \A i \in 1 .. Len(Payload[kind]) :
                     g[1 .. i] = g[1 .. i - 1] \o FieldOctets(Payload[kind][i], payload)
<1> DEFINE n == Len(Payload[kind])
           V == Seq(S)
           out(i) == FieldOctets(Payload[kind][i], payload)
           Op == [p \in (1 .. n) \X V |-> p[2] \o out(p[1])]
<1>1. n \in Nat /\ DOMAIN Payload[kind] = 1 .. n
  BY LayoutType
<1>2. \A i \in 1 .. n : out(i) \in V
  BY <1>1, FieldFits
<1>3. <<>> \in V /\ \A s, t \in V : s \o t \in V
  OBVIOUS
<1>4. Op \in [(1 .. n) \X V -> V]
  <2> HIDE DEF V, n, out
  <2>1. \A p \in (1 .. n) \X V : p[1] \in 1 .. n /\ p[2] \in V
    OBVIOUS
  <2>2. \A p \in (1 .. n) \X V : p[2] \o out(p[1]) \in V
    BY <1>2, <1>3, <2>1
  <2>3. QED
    BY <2>2
<1>5. \E g : Written(g, kind, payload)
  <2>1. PICK g \in [SUBSET (1 .. n) -> V] : Folds(g, n, <<>>, Op)
    <3> HIDE DEF n, Op, V
    <3>1. QED
      BY <1>1, <1>3, <1>4, FoldExists
  <2> HIDE DEF V
  <2>2. ASSUME NEW s \in SUBSET (1 .. n)
        PROVE  g[s] = IF s = {} THEN <<>> ELSE g[s \ {Max(s)}] \o out(Max(s))
    <3>1. CASE s = {}
      BY <2>1, <3>1 DEF Folds
    <3>2. CASE s # {}
      <4>1. Max(s) \in 1 .. n
        BY <1>1, <3>2, MaxIn
      <4>2. s \ {Max(s)} \in SUBSET (1 .. n)
        OBVIOUS
      <4>3. g[s] = Op[<<Max(s), g[s \ {Max(s)}]>>]
        BY <2>1, <3>2 DEF Folds
      <4> HIDE DEF out, n
      <4>4. QED
        BY <2>1, <3>2, <4>1, <4>2, <4>3
    <3>3. QED
      BY <3>1, <3>2
  <2>3. Written(g, kind, payload)
    BY <1>1, <2>1, <2>2 DEF Written
  <2>4. QED
    BY <2>3
<1>6. WritePayload(kind, payload) = (CHOOSE g : Written(g, kind, payload))[DOMAIN Payload[kind]]
  BY DEF WritePayload, FoldLeft, MapThenFoldSet, Written
<1>7. PICK g : Written(g, kind, payload) /\ WritePayload(kind, payload) = g[DOMAIN Payload[kind]]
  BY <1>5, <1>6
<1>8. ASSUME NEW i \in 1 .. n
      PROVE  g[1 .. i] = g[1 .. i - 1] \o out(i)
  <2>1. Max(1 .. i) = i /\ (1 .. i) \ {i} = 1 .. i - 1 /\ 1 .. i # {}
    BY Initial
  <2>2. 1 .. i \in SUBSET DOMAIN Payload[kind]
    BY <1>1
  <2>3. QED
    BY <1>7, <2>1, <2>2 DEF Written
<1>9. g[1 .. 0] = <<>>
  BY <1>1, <1>7 DEF Written
<1>10. QED
  BY <1>1, <1>7, <1>8, <1>9

\* Each field of a payload is written at its offset.
LEMMA PayloadWritten ==
  ASSUME NEW S, 0 \in S, NEW kind \in DOMAIN Payload, NEW payload, FitsIn(payload, kind, S)
  PROVE  /\ WritePayload(kind, payload) \in Seq(S)
         /\ Len(WritePayload(kind, payload)) = Size[kind]
         /\ \A i \in DOMAIN Payload[kind] : \A p \in 1 .. Payload[kind][i].width :
              WritePayload(kind, payload)[Offset(Payload[kind], i) + p]
                = FieldOctets(Payload[kind][i], payload)[p]
         /\ \A i \in DOMAIN Payload[kind] : Offset(Payload[kind], i + 1) <= Size[kind]
<1> DEFINE layout == Payload[kind]
           n == Len(layout)
           out(i) == FieldOctets(layout[i], payload)
           at(i) == Offset(layout, i)
<1>1. n \in Nat /\ DOMAIN layout = 1 .. n /\ layout \in Seq(FieldType)
  BY LayoutType
<1>2. PICK g : /\ WritePayload(kind, payload) = g[1 .. n]
               /\ g[1 .. 0] = <<>>
               /\ \A i \in 1 .. n : g[1 .. i] = g[1 .. i - 1] \o out(i)
  BY WriteGraph
<1>3. \A i \in 1 .. n : out(i) \in Seq(S) /\ Len(out(i)) = layout[i].width
  BY <1>1, FieldFits
<1>4. /\ at(1) = 0
      /\ \A i \in 1 .. n : at(i) \in Nat /\ at(i + 1) = at(i) + layout[i].width
      /\ at(n + 1) \in Nat
  BY <1>1, OffsetSteps
<1>5. at(n + 1) = Size[kind]
  <2>1. kind \in DOMAIN Size
    BY DEF Payload, Size
  <2>2. QED
    BY <2>1, SizesMatch
<1> DEFINE Good(m) == /\ g[1 .. m] \in Seq(S)
                      /\ Len(g[1 .. m]) = at(m + 1)
                      /\ \A i \in 1 .. m :
                           /\ at(i + 1) <= at(m + 1)
                           /\ \A p \in 1 .. layout[i].width : g[1 .. m][at(i) + p] = out(i)[p]
           Bad == {m \in 0 .. n : ~ Good(m)}
<1> HIDE DEF layout, n, out, at
<1>6. Good(0)
  <2>1. <<>> \in Seq(S) /\ Len(<<>>) = 0
    OBVIOUS
  <2>2. QED
    BY <1>2, <1>4, <2>1
<1>7. ASSUME NEW m \in 1 .. n, Good(m - 1)
      PROVE  Good(m)
  <2> DEFINE before == g[1 .. m - 1]
             last == out(m)
             all == g[1 .. m]
  <2>1. m - 1 + 1 = m
    BY <1>1
  <2>2. /\ before \in Seq(S) /\ Len(before) = at(m) /\ all = before \o last
        /\ \A i \in 1 .. m - 1 :
             /\ at(i + 1) <= at(m)
             /\ \A p \in 1 .. layout[i].width : before[at(i) + p] = out(i)[p]
    BY <1>2, <1>7, <2>1
  <2>3. /\ last \in Seq(S) /\ Len(last) = layout[m].width
        /\ at(m + 1) = at(m) + layout[m].width
        /\ at(m) \in Nat /\ layout[m].width \in Nat
    <3>1. layout[m].width \in Nat
      BY <1>1, WidthIsNat DEF n
    <3>2. QED
      BY <1>3, <1>4, <3>1
  <2> HIDE DEF before, last, all
  <2>4. /\ all \in Seq(S) /\ Len(all) = at(m + 1)
        /\ \A q \in 1 .. at(m) : all[q] = before[q]
        /\ \A p \in 1 .. layout[m].width : all[at(m) + p] = last[p]
    <3>1. /\ all \in Seq(S) /\ Len(all) = Len(before) + Len(last)
          /\ \A q \in 1 .. Len(before) + Len(last) :
               all[q] = IF q <= Len(before) THEN before[q] ELSE last[q - Len(before)]
      BY <2>2, <2>3, ConcatProperties
    <3>2. \A p \in 1 .. layout[m].width :
            /\ at(m) + p \in 1 .. at(m) + layout[m].width
            /\ ~ (at(m) + p <= at(m)) /\ at(m) + p - at(m) = p
      BY <2>3, SMTT(30)
    <3>3. \A q \in 1 .. at(m) : q \in 1 .. at(m) + layout[m].width /\ q <= at(m)
      BY <2>3
    <3>4. ASSUME NEW q \in 1 .. at(m)
          PROVE  all[q] = before[q]
      BY <2>2, <2>3, <3>1, <3>3
    <3>5. ASSUME NEW p \in 1 .. layout[m].width
          PROVE  all[at(m) + p] = last[p]
      BY <2>2, <2>3, <3>1, <3>2, SMTT(30)
    <3>6. QED
      BY <2>2, <2>3, <3>1, <3>4, <3>5
  <2>5. ASSUME NEW i \in 1 .. m
        PROVE  /\ at(i + 1) <= at(m + 1)
               /\ \A p \in 1 .. layout[i].width : all[at(i) + p] = out(i)[p]
    <3>1. CASE i = m
      BY <2>3, <2>4, <3>1 DEF last
    <3>2. CASE i # m
      <4>1. i \in 1 .. m - 1 /\ i \in 1 .. n /\ i + 1 \in 1 .. n
        BY <1>1, <3>2
      <4>2. at(i) \in Nat /\ at(i + 1) \in Nat /\ at(i + 1) = at(i) + layout[i].width
            /\ at(i + 1) <= at(m) /\ layout[i].width \in Nat
        BY <1>1, <1>4, <2>2, <4>1, WidthIsNat DEF n
      <4>3. \A p \in 1 .. layout[i].width : at(i) + p \in 1 .. at(m)
        BY <2>3, <4>2, SMTT(30)
      <4>4. QED
        BY <2>2, <2>3, <2>4, <4>1, <4>2, <4>3, SMTT(30)
    <3>3. QED
      BY <3>1, <3>2
  <2>6. QED
    BY <2>4, <2>5 DEF all
<1> HIDE DEF Good
<1>8. Bad = {}
  <2>1. SUFFICES ASSUME Bad # {} PROVE FALSE
    OBVIOUS
  <2>2. PICK m \in Bad : \A k \in Bad : m <= k
    <3>1. Bad \subseteq Nat
      BY <1>1
    <3> HIDE DEF Bad
    <3>2. QED
      BY <2>1, <3>1, Least
  <2>3. m \in 1 .. n
    BY <1>1, <1>6, <2>2
  <2>4. m - 1 \in 0 .. n /\ m - 1 < m
    BY <1>1, <2>3
  <2>5. Good(m - 1)
    BY <2>2, <2>4
  <2>6. QED
    BY <1>7, <2>2, <2>3, <2>5
<1>9. Good(n)
  BY <1>1, <1>8
<1>10. QED
  BY <1>1, <1>2, <1>5, <1>9 DEF Good, layout, n, out, at
-----------------------------------------------------------------------------
(* Reading *)

\* The fields of a payload that are read.
Kept(kind, payload) ==
  [name \in {Payload[kind][i].name : i \in Fields(kind)} |-> payload[name]]

\* Sizes and places of payloads are numbers.
LEMMA SizeType ==
  ASSUME NEW kind \in DOMAIN Payload
  PROVE  Size[kind] \in Nat /\ PacketSize(kind) = 8 + Size[kind]
  BY DEF Payload, Size, PacketSize, HEADER_SIZE

\* A field that was written is read as it was.
LEMMA FieldRead ==
  ASSUME NEW S, 0 \in S, NEW kind \in DOMAIN Payload, NEW payload, FitsIn(payload, kind, S),
         NEW octets \in Seq(S), Len(octets) >= Size[kind],
         \A q \in 1 .. Size[kind] : octets[q] = WritePayload(kind, payload)[q],
         NEW i \in DOMAIN Payload[kind]
  PROVE  At(kind, i, octets) = FieldOctets(Payload[kind][i], payload)
<1> DEFINE first == Offset(Payload[kind], i)
           width == Payload[kind][i].width
           field == FieldOctets(Payload[kind][i], payload)
           read == At(kind, i, octets)
<1>1. width \in Nat /\ first \in Nat /\ Offset(Payload[kind], i + 1) = first + width
  BY LayoutType, WidthIsNat, OffsetSteps
<1>2. first + width <= Size[kind] /\ Size[kind] \in Nat
  BY <1>1, PayloadWritten, SizeType
<1>3. field \in Seq(S) /\ Len(field) = width
  BY FieldFits
<1>4. \A p \in 1 .. width : WritePayload(kind, payload)[first + p] = field[p]
  BY PayloadWritten
<1>5. read = SubSeq(octets, first + 1, first + width)
  BY <1>1 DEF At
<1> HIDE DEF first, width, field, read
<1>6. /\ read \in Seq(S) /\ Len(read) = width
      /\ \A p \in 1 .. width : read[p] = octets[first + p]
  BY <1>1, <1>2, <1>5
<1>7. ASSUME NEW p \in 1 .. width
      PROVE  read[p] = field[p]
  <2>1. first + p \in 1 .. Size[kind]
    BY <1>1, <1>2
  <2>2. QED
    BY <1>4, <1>6, <2>1
<1>8. read = field
  BY <1>3, <1>6, <1>7, SeqEqual
<1>9. QED
  BY <1>8 DEF read, field

\* So is a payload, whatever comes behind it.
LEMMA PayloadRead ==
  ASSUME NEW S, 0 \in S, NEW kind \in DOMAIN Payload, NEW payload, FitsIn(payload, kind, S),
         NEW octets \in Seq(S), Len(octets) >= Size[kind],
         \A q \in 1 .. Size[kind] : octets[q] = WritePayload(kind, payload)[q]
  PROVE  ReadPayload(kind, octets) = [ok |-> TRUE, kind |-> kind, payload |-> Kept(kind, payload)]
<1> DEFINE layout == Payload[kind]
<1>1. ~ (Len(octets) < Size[kind])
  BY SizeType
<1>2. \A i \in DOMAIN layout :
        layout[i].form = "zero" => At(kind, i, octets) = Zeros(layout[i].width)
  BY FieldRead DEF FieldOctets
<1>3. ASSUME NEW name \in {layout[i].name : i \in Fields(kind)}
      PROVE  LET i == FieldNamed(kind, name)
             IN  OnWire(layout[i], At(kind, i, octets)) = payload[name]
  <2>1. PICK i \in Fields(kind) : i = FieldNamed(kind, name) /\ layout[i].name = name
    <3>1. \E i \in Fields(kind) : layout[i].name = name
      OBVIOUS
    <3>2. FieldNamed(kind, name) \in Fields(kind) /\ layout[FieldNamed(kind, name)].name = name
      BY <3>1 DEF FieldNamed
    <3>3. QED
      BY <3>2
  <2>2. i \in DOMAIN layout /\ layout[i].form \in {"int", "raw"}
    BY DEF Fields
  <2>3. payload[name] \in Seq(S)
    BY <2>1 DEF FitsIn
  <2>4. At(kind, i, octets) = OnWire(layout[i], payload[name])
    BY <2>1, <2>2, FieldRead DEF FieldOctets
  <2>5. OnWire(layout[i], OnWire(layout[i], payload[name])) = payload[name]
    BY <2>3, ReverseTwice DEF OnWire
  <2>6. QED
    BY <2>1, <2>4, <2>5
<1>4. [name \in {layout[i].name : i \in Fields(kind)} |->
         LET i == FieldNamed(kind, name) IN OnWire(layout[i], At(kind, i, octets))]
        = Kept(kind, payload)
  BY <1>3 DEF Kept
<1>5. QED
  BY <1>1, <1>2, <1>4 DEF ReadPayload

\* What two sequences joined say where.
LEMMA Joined ==
  ASSUME NEW S, NEW s \in Seq(S), NEW t \in Seq(S), NEW u, u = s \o t
  PROVE  /\ u \in Seq(S) /\ Len(u) = Len(s) + Len(t)
         /\ \A q \in 1 .. Len(s) : u[q] = s[q]
         /\ \A p \in 1 .. Len(t) : u[Len(s) + p] = t[p]
<1> DEFINE n == Len(s)
           m == Len(t)
<1>1. /\ u \in Seq(S) /\ Len(u) = n + m /\ n \in Nat /\ m \in Nat
      /\ \A i \in 1 .. n + m : u[i] = IF i <= n THEN s[i] ELSE t[i - n]
  BY ConcatProperties, LenProperties
<1> HIDE DEF n, m
<1>2. ASSUME NEW p \in 1 .. m
      PROVE  u[n + p] = t[p]
  <2>1. n + p \in 1 .. n + m /\ ~ (n + p <= n) /\ n + p - n = p
    BY <1>1
  <2>2. QED
    BY <1>1, <2>1
<1>3. \A q \in 1 .. n : u[q] = s[q]
  BY <1>1
<1>4. QED
  BY <1>1, <1>2, <1>3 DEF n, m

\* A part of a sequence is what it says there.
LEMMA PartRead ==
  ASSUME NEW S, NEW s \in Seq(S), NEW part \in Seq(S), NEW first \in Nat,
         first + Len(part) <= Len(s), \A p \in 1 .. Len(part) : s[first + p] = part[p]
  PROVE  SubSeq(s, first + 1, first + Len(part)) = part
<1> DEFINE read == SubSeq(s, first + 1, first + Len(part))
<1>1. Len(s) \in Nat /\ Len(part) \in Nat
  OBVIOUS
<1>2. /\ read \in Seq(S) /\ Len(read) = Len(part)
      /\ \A p \in 1 .. Len(part) : read[p] = s[first + p]
  BY <1>1
<1> HIDE DEF read
<1>3. read = part
  BY <1>2, SeqEqual
<1>4. QED
  BY <1>3 DEF read

\* A set that has every octet.
HasOctets(S) == 0 .. 255 \subseteq S

\* The octets of a header.
LEMMA HeaderParts ==
  ASSUME NEW S, HasOctets(S), NEW kind \in DOMAIN Payload
  PROVE  /\ KINET_MAGIC \in Seq(S) /\ Len(KINET_MAGIC) = 4
         /\ Reverse(KINET_VERSION_1) \in Seq(S) /\ Len(Reverse(KINET_VERSION_1)) = 2
         /\ Reverse(KinetPacketType[kind]) \in Seq(S) /\ Len(Reverse(KinetPacketType[kind])) = 2
<1>1. 0 \in S /\ 1 \in S /\ 2 \in S /\ 4 \in S /\ 8 \in S /\ 74 \in S /\ 220 \in S
  BY DEF HasOctets
<1>2. KINET_MAGIC \in Seq(S) /\ Len(KINET_MAGIC) = 4
  BY <1>1 DEF KINET_MAGIC
<1>3. KINET_VERSION_1 \in Seq(S) /\ Len(KINET_VERSION_1) = 2
  BY <1>1 DEF KINET_VERSION_1
<1>4. KinetPacketType[kind] \in Seq(S) /\ Len(KinetPacketType[kind]) = 2
  <2>1. \E a, b \in S : KinetPacketType[kind] = <<a, b>>
    BY <1>1 DEF KinetPacketType, Payload
  <2>2. \A a, b \in S : <<a, b>> \in Seq(S) /\ Len(<<a, b>>) = 2
    OBVIOUS
  <2>3. QED
    BY <2>1, <2>2
<1>5. QED
  BY <1>2, <1>3, <1>4, ReverseTwice

\* What a header says of a packet.
LEMMA PacketWritten ==
  ASSUME NEW S, HasOctets(S), NEW kind \in DOMAIN Payload, NEW payload, FitsIn(payload, kind, S)
  PROVE  LET packet == WriteTo(kind, payload)
         IN  /\ packet \in Seq(S) /\ Len(packet) = PacketSize(kind)
             /\ \A q \in 1 .. 4 : packet[q] = KINET_MAGIC[q]
             /\ \A q \in 1 .. 2 : packet[4 + q] = Reverse(KINET_VERSION_1)[q]
             /\ \A q \in 1 .. 2 : packet[6 + q] = Reverse(KinetPacketType[kind])[q]
             /\ \A q \in 1 .. Size[kind] : packet[8 + q] = WritePayload(kind, payload)[q]
<1> DEFINE magic == KINET_MAGIC
           version == Reverse(KINET_VERSION_1)
           type == Reverse(KinetPacketType[kind])
           rest == WritePayload(kind, payload)
           front == magic \o version
           header == front \o type
           packet == header \o rest
<1>1. magic \in Seq(S) /\ Len(magic) = 4 /\ version \in Seq(S) /\ Len(version) = 2
      /\ type \in Seq(S) /\ Len(type) = 2
  BY HeaderParts
<1>2. rest \in Seq(S) /\ Len(rest) = Size[kind] /\ Size[kind] \in Nat
      /\ PacketSize(kind) = 8 + Size[kind]
  <2>1. 0 \in S
    BY DEF HasOctets
  <2>2. QED
    BY <2>1, PayloadWritten, SizeType
<1>3. packet = WriteTo(kind, payload)
  BY DEF WriteTo
<1> HIDE DEF magic, version, type, rest, front, header, packet
<1>4. /\ front \in Seq(S) /\ Len(front) = 6
      /\ \A q \in 1 .. 4 : front[q] = magic[q]
      /\ \A q \in 1 .. 2 : front[4 + q] = version[q]
  <2>1. front = magic \o version
    BY DEF front
  <2>2. Len(magic) \in Nat /\ Len(version) \in Nat /\ magic \in Seq(S) /\ version \in Seq(S)
    BY <1>1
  <2>3. /\ front \in Seq(S) /\ Len(front) = Len(magic) + Len(version)
        /\ \A q \in 1 .. Len(magic) : front[q] = magic[q]
        /\ \A q \in 1 .. Len(version) : front[Len(magic) + q] = version[q]
    BY <2>1, <2>2, Joined
  <2>4. QED
    BY <1>1, <2>3
<1>5. /\ header \in Seq(S) /\ Len(header) = 8
      /\ \A q \in 1 .. 6 : header[q] = front[q]
      /\ \A q \in 1 .. 2 : header[6 + q] = type[q]
  <2>1. header = front \o type
    BY DEF header
  <2>2. Len(front) \in Nat /\ Len(type) \in Nat /\ front \in Seq(S) /\ type \in Seq(S)
    BY <1>1, <1>4
  <2>3. /\ header \in Seq(S) /\ Len(header) = Len(front) + Len(type)
        /\ \A q \in 1 .. Len(front) : header[q] = front[q]
        /\ \A q \in 1 .. Len(type) : header[Len(front) + q] = type[q]
    BY <2>1, <2>2, Joined
  <2>4. QED
    BY <1>1, <1>4, <2>3
<1>6. /\ packet \in Seq(S) /\ Len(packet) = 8 + Size[kind]
      /\ \A q \in 1 .. 8 : packet[q] = header[q]
      /\ \A q \in 1 .. Size[kind] : packet[8 + q] = rest[q]
  <2>1. packet = header \o rest
    BY DEF packet
  <2>2. Len(header) \in Nat /\ Len(rest) \in Nat /\ header \in Seq(S) /\ rest \in Seq(S)
    BY <1>2, <1>5
  <2>3. /\ packet \in Seq(S) /\ Len(packet) = Len(header) + Len(rest)
        /\ \A q \in 1 .. Len(header) : packet[q] = header[q]
        /\ \A q \in 1 .. Len(rest) : packet[Len(header) + q] = rest[q]
    BY <2>1, <2>2, Joined
  <2>4. QED
    BY <1>2, <1>5, <2>3
<1>7. ASSUME NEW q \in 1 .. 4
      PROVE  packet[q] = magic[q]
  <2>1. q \in 1 .. 6 /\ q \in 1 .. 8
    OBVIOUS
  <2>2. QED
    BY <1>4, <1>5, <1>6, <2>1
<1>8. ASSUME NEW q \in 1 .. 2
      PROVE  packet[4 + q] = version[q] /\ packet[6 + q] = type[q]
  <2>1. 4 + q \in 1 .. 6 /\ 4 + q \in 1 .. 8 /\ 6 + q \in 1 .. 8
    OBVIOUS
  <2>2. QED
    BY <1>4, <1>5, <1>6, <2>1
<1>9. QED
  BY <1>2, <1>3, <1>6, <1>7, <1>8 DEF magic, version, type, rest

\* What a sequence says first.
BeginsWith(octets, packet) ==
  /\ Len(octets) >= Len(packet)
  /\ \A q \in 1 .. Len(packet) : octets[q] = packet[q]

\* Only one type of packet has this code.
LEMMA TypesDiffer ==
  ASSUME NEW j \in DOMAIN KinetPacketType, NEW k \in DOMAIN KinetPacketType,
         Reverse(KinetPacketType[j]) = Reverse(KinetPacketType[k])
  PROVE  j = k
<1>1. /\ <<0, 1>> \in Seq(Nat) /\ <<0, 2>> \in Seq(Nat) /\ <<0, 3>> \in Seq(Nat)
      /\ <<0, 5>> \in Seq(Nat)
      /\ <<0, 6>> \in Seq(Nat) /\ <<0, 8>> \in Seq(Nat) /\ <<1, 1>> \in Seq(Nat)
      /\ <<2, 1>> \in Seq(Nat)
      /\ <<2, 2>> \in Seq(Nat) /\ <<2, 3>> \in Seq(Nat)
  OBVIOUS
<1>2. \A l \in DOMAIN KinetPacketType : KinetPacketType[l] \in Seq(Nat)
  <2>1. DOMAIN KinetPacketType =
          {"Poll", "PollReply", "SetIp", "SetUniverse", "SetName", "HeartBeat", "DmxOut",
           "DiscoverFixturesSerialRequest", "DiscoverFixturesSerialReply",
           "DiscoverFixturesChannelRequest"}
    BY DEF KinetPacketType
  <2>2. /\ KinetPacketType.Poll = <<0, 1>> /\ KinetPacketType.PollReply = <<0, 2>>
        /\ KinetPacketType.SetIp = <<0, 3>> /\ KinetPacketType.SetUniverse = <<0, 5>>
        /\ KinetPacketType.SetName = <<0, 6>> /\ KinetPacketType.HeartBeat = <<0, 8>>
        /\ KinetPacketType.DmxOut = <<1, 1>>
        /\ KinetPacketType.DiscoverFixturesSerialRequest = <<2, 1>>
        /\ KinetPacketType.DiscoverFixturesSerialReply = <<2, 2>>
        /\ KinetPacketType.DiscoverFixturesChannelRequest = <<2, 3>>
    BY DEF KinetPacketType
  <2>3. QED
    BY <1>1, <2>1, <2>2
<1>3. KinetPacketType[j] = KinetPacketType[k]
  BY <1>2, ReverseTwice
<1>4. QED
  BY <1>3 DEF KinetPacketType

\* What is left of a sequence.
LEMMA Behind ==
  ASSUME NEW S, NEW s \in Seq(S), NEW n \in Nat, n <= Len(s),
         NEW first, first = n + 1, NEW u, u = SubSeq(s, first, Len(s))
  PROVE  /\ u \in Seq(S) /\ Len(u) = Len(s) - n
         /\ \A q \in 1 .. Len(u) : u[q] = s[n + q]
<1>1. Len(s) \in Nat /\ first \in Int /\ \A i \in first .. Len(s) : s[i] \in S
  OBVIOUS
<1>2. u \in Seq(S) /\ Len(u) = (IF first <= Len(s) THEN Len(s) - first + 1 ELSE 0)
      /\ \A q \in 1 .. Len(s) - first + 1 : u[q] = s[first + q - 1]
  BY <1>1, SubSeqProperties
<1>3. Len(u) = Len(s) - n
  BY <1>1, <1>2
<1>4. \A q \in 1 .. Len(u) : u[q] = s[n + q]
  BY <1>1, <1>2, <1>3
<1>5. QED
  BY <1>2, <1>3, <1>4

\* What write_to writes, read_from reads, whatever stands behind it.
THEOREM ReadsAsWritten ==
  ASSUME NEW S, HasOctets(S), NEW kind \in DOMAIN Payload, NEW payload, FitsIn(payload, kind, S),
         NEW octets \in Seq(S), BeginsWith(octets, WriteTo(kind, payload))
  PROVE  ReadFrom(octets) = [ok |-> TRUE, kind |-> kind, payload |-> Kept(kind, payload)]
<1> DEFINE magic == KINET_MAGIC
           version == Reverse(KINET_VERSION_1)
           type == Reverse(KinetPacketType[kind])
           rest == WritePayload(kind, payload)
           packet == WriteTo(kind, payload)
           n == Size[kind]
           behind == SubSeq(octets, 9, Len(octets))
           KindOf == CHOOSE k \in DOMAIN KinetPacketType :
                       Reverse(KinetPacketType[k]) = SubSeq(octets, 7, 8)
<1>1. 0 \in S
  BY DEF HasOctets
<1>2. magic \in Seq(S) /\ Len(magic) = 4 /\ version \in Seq(S) /\ Len(version) = 2
      /\ type \in Seq(S) /\ Len(type) = 2
  BY HeaderParts
<1>3. /\ packet \in Seq(S) /\ Len(packet) = PacketSize(kind)
      /\ \A q \in 1 .. 4 : packet[q] = magic[q]
      /\ \A q \in 1 .. 2 : packet[4 + q] = version[q]
      /\ \A q \in 1 .. 2 : packet[6 + q] = type[q]
      /\ \A q \in 1 .. n : packet[8 + q] = rest[q]
  BY PacketWritten
<1>4. n \in Nat /\ Len(packet) = 8 + n
  BY <1>3, SizeType
<1>5. kind \in DOMAIN KinetPacketType
  BY DEF KinetPacketType, Payload
<1> HIDE DEF magic, version, type, rest, packet, behind, n, KindOf
<1>6. /\ Len(octets) \in Nat /\ Len(octets) >= 8 + n
      /\ \A q \in 1 .. 8 + n : octets[q] = packet[q]
  BY <1>4 DEF BeginsWith, packet
<1>7. SubSeq(octets, 1, 4) = magic
  <2>1. \A p \in 1 .. 4 : octets[p] = magic[p]
    BY <1>3, <1>4, <1>6, SMTT(30)
  <2>2. SubSeq(octets, 0 + 1, 0 + Len(magic)) = magic
    BY <1>2, <1>4, <1>6, <2>1, PartRead
  <2>3. QED
    BY <1>2, <2>2
<1>8. SubSeq(octets, 5, 6) = version
  <2>1. \A p \in 1 .. 2 : octets[4 + p] = version[p]
    BY <1>3, <1>4, <1>6
  <2>2. SubSeq(octets, 4 + 1, 4 + Len(version)) = version
    BY <1>2, <1>4, <1>6, <2>1, PartRead
  <2>3. QED
    BY <1>2, <2>2
<1>9. SubSeq(octets, 7, 8) = type
  <2>1. \A p \in 1 .. 2 : octets[6 + p] = type[p]
    BY <1>3, <1>4, <1>6
  <2>2. SubSeq(octets, 6 + 1, 6 + Len(type)) = type
    BY <1>2, <1>4, <1>6, <2>1, PartRead
  <2>3. QED
    BY <1>2, <2>2
<1>10. /\ behind \in Seq(S) /\ Len(behind) >= n
      /\ \A q \in 1 .. n : behind[q] = rest[q]
  <2> DEFINE front == 8
             first == 9
  <2>1. /\ front \in Nat /\ first = front + 1 /\ front <= Len(octets)
        /\ behind = SubSeq(octets, first, Len(octets))
    BY <1>4, <1>6 DEF behind
  <2> HIDE DEF front, first
  <2>2. /\ behind \in Seq(S) /\ Len(behind) = Len(octets) - front
        /\ \A q \in 1 .. Len(behind) : behind[q] = octets[front + q]
    BY <2>1, Behind, SMTT(30)
  <2> USE DEF front
  <2>3. ASSUME NEW q \in 1 .. n
        PROVE  behind[q] = rest[q]
    <3>1. q \in 1 .. Len(behind) /\ 8 + q \in 1 .. 8 + n
      BY <1>4, <1>6, <2>2
    <3>2. QED
      BY <1>3, <1>6, <2>2, <3>1
  <2>4. QED
    BY <1>4, <1>6, <2>2, <2>3
<1>11. KindOf = kind /\ \E k \in DOMAIN KinetPacketType :
                           Reverse(KinetPacketType[k]) = SubSeq(octets, 7, 8)
  <2>1. Reverse(KinetPacketType[kind]) = SubSeq(octets, 7, 8)
    BY <1>9 DEF type
  <2>2. KindOf \in DOMAIN KinetPacketType /\ Reverse(KinetPacketType[KindOf]) = SubSeq(octets, 7, 8)
    BY <1>5, <2>1, Zenon DEF KindOf
  <2>3. QED
    BY <1>5, <2>1, <2>2, TypesDiffer
<1>12. ReadPayload(kind, behind) = [ok |-> TRUE, kind |-> kind, payload |-> Kept(kind, payload)]
  BY <1>1, <1>10, PayloadRead DEF rest, n
<1>13. ReadFrom(octets) = ReadPayload(kind, behind)
  <2>1. HEADER_SIZE = 8 /\ HEADER_SIZE + 1 = 9
    BY DEF HEADER_SIZE
  <2>2. SubSeq(octets, 1, 4) = KINET_MAGIC /\ SubSeq(octets, 5, 6) = Reverse(KINET_VERSION_1)
    BY <1>7, <1>8 DEF magic, version
  <2>3. ~ (Len(octets) < HEADER_SIZE)
    BY <1>4, <1>6, <2>1
  <2>4. behind = SubSeq(octets, HEADER_SIZE + 1, Len(octets))
    BY <2>1 DEF behind
  <2>5. ReadFrom(octets) = ReadPayload(KindOf, SubSeq(octets, HEADER_SIZE + 1, Len(octets)))
    BY <1>11, <2>2, <2>3, Zenon DEF ReadFrom, KindOf
  <2>6. QED
    BY <1>11, <2>4, <2>5
<1>14. QED
  BY <1>12, <1>13
-----------------------------------------------------------------------------
(* What a reply says *)

\* A function into a set is one into a larger set.
LEMMA Widen ==
  ASSUME NEW D, NEW A, NEW B, NEW f \in [D -> A], \A x \in A : x \in B
  PROVE  f \in [D -> B]
  OBVIOUS

\* A reply is a payload of octets, and all of it is read.
LEMMA ReplyFits ==
  ASSUME NEW reply \in PollReply
  PROVE  FitsIn(reply, "PollReply", Octet) /\ Kept("PollReply", reply) = reply
<1> DEFINE layout == Payload["PollReply"]
           names == {"sequence", "src_ip", "mac", "data", "serial", "node_name", "node_label"}
<1>1. layout = PollReplyPayload /\ "PollReply" \in DOMAIN Payload
  BY DEF Payload
<1>2. layout = <<Int32("sequence"), Raw("src_ip", 4), Raw("mac", 6), Int16("data"),
                 Int32("serial"), Ignored(4), Raw("node_name", 60), Raw("node_label", 33)>>
  BY <1>1 DEF PollReplyPayload
<1>3. Fields("PollReply") = {1, 2, 3, 4, 5, 7, 8}
  <2>1. Fields("PollReply") = {i \in DOMAIN layout : layout[i].form \in {"int", "raw"}}
    BY DEF Fields
  <2>2. DOMAIN layout = 1 .. 8
    BY <1>2
  <2>3. /\ layout[1].form = "int" /\ layout[2].form = "raw" /\ layout[3].form = "raw"
        /\ layout[4].form = "int" /\ layout[5].form = "int" /\ layout[6].form = "any"
        /\ layout[7].form = "raw" /\ layout[8].form = "raw"
    BY <1>2 DEF Int32, Int16, Raw, Ignored, Field
  <2> HIDE DEF layout
  <2>4. QED
    BY <2>1, <2>2, <2>3
<1>4. /\ layout[1].name = "sequence" /\ layout[1].width = 4
      /\ layout[2].name = "src_ip" /\ layout[2].width = 4
      /\ layout[3].name = "mac" /\ layout[3].width = 6
      /\ layout[4].name = "data" /\ layout[4].width = 2
      /\ layout[5].name = "serial" /\ layout[5].width = 4
      /\ layout[7].name = "node_name" /\ layout[7].width = 60
      /\ layout[8].name = "node_label" /\ layout[8].width = 33
  BY <1>2 DEF Int32, Int16, Raw, Ignored, Field
<1> HIDE DEF layout
<1>5. /\ reply.sequence \in [1 .. 4 -> Octet] /\ reply.src_ip \in [1 .. 4 -> Octet]
      /\ reply.mac \in [1 .. 6 -> Octet] /\ reply.data \in [1 .. 2 -> Octet]
      /\ reply.serial \in [1 .. 4 -> Octet] /\ reply.node_name \in [1 .. 60 -> Octet]
      /\ reply.node_label \in [1 .. 33 -> Octet]
  <2> DEFINE Byte == 0 .. 255
             Character == Text \cup {0}
  <2>1. (\A x \in Byte : x \in Octet) /\ \A x \in Character : x \in Octet
    BY SMTT(30) DEF Octet
  <2>2. /\ reply.sequence \in [1 .. 4 -> Byte] /\ reply.src_ip \in [1 .. 4 -> Byte]
        /\ reply.mac \in [1 .. 6 -> Byte] /\ reply.data \in [1 .. 2 -> Byte]
        /\ reply.serial \in [1 .. 4 -> Byte] /\ reply.node_name \in [1 .. 60 -> Character]
        /\ reply.node_label \in [1 .. 33 -> Character]
    BY DEF PollReply, IPv4, Serial
  <2> HIDE DEF Byte, Character
  <2>3. /\ reply.sequence \in [1 .. 4 -> Octet] /\ reply.src_ip \in [1 .. 4 -> Octet]
        /\ reply.mac \in [1 .. 6 -> Octet] /\ reply.data \in [1 .. 2 -> Octet]
    BY <2>1, <2>2, Widen
  <2>4. QED
    BY <2>1, <2>2, <2>3, Widen
<1>7. ASSUME NEW i \in Fields("PollReply")
      PROVE  reply[layout[i].name] \in Seq(Octet) /\ Len(reply[layout[i].name]) = layout[i].width
  <2>1. /\ \A f \in [1 .. 2 -> Octet] : f \in Seq(Octet) /\ Len(f) = 2
        /\ \A f \in [1 .. 4 -> Octet] : f \in Seq(Octet) /\ Len(f) = 4
        /\ \A f \in [1 .. 6 -> Octet] : f \in Seq(Octet) /\ Len(f) = 6
    <3>1. 2 \in Nat /\ 4 \in Nat /\ 6 \in Nat
      OBVIOUS
    <3>2. QED
      BY <3>1, FunctionIsSeq, Zenon
  <2>2. /\ \A f \in [1 .. 33 -> Octet] : f \in Seq(Octet) /\ Len(f) = 33
        /\ \A f \in [1 .. 60 -> Octet] : f \in Seq(Octet) /\ Len(f) = 60
    <3>1. 33 \in Nat /\ 60 \in Nat
      OBVIOUS
    <3>2. QED
      BY <3>1, FunctionIsSeq, Zenon
  <2>3. /\ reply.sequence \in Seq(Octet) /\ Len(reply.sequence) = 4
        /\ reply.src_ip \in Seq(Octet) /\ Len(reply.src_ip) = 4
        /\ reply.mac \in Seq(Octet) /\ Len(reply.mac) = 6
        /\ reply.data \in Seq(Octet) /\ Len(reply.data) = 2
        /\ reply.serial \in Seq(Octet) /\ Len(reply.serial) = 4
        /\ reply.node_name \in Seq(Octet) /\ Len(reply.node_name) = 60
        /\ reply.node_label \in Seq(Octet) /\ Len(reply.node_label) = 33
    BY <1>5, <2>1, <2>2, Zenon
  <2> DEFINE Good(j) == /\ reply[layout[j].name] \in Seq(Octet)
                        /\ Len(reply[layout[j].name]) = layout[j].width
  <2>4. Good(1) /\ Good(2) /\ Good(3) /\ Good(4) /\ Good(5) /\ Good(7) /\ Good(8)
    BY <1>4, <2>3
  <2> HIDE DEF Good
  <2>5. Good(i)
    BY <1>3, <2>4
  <2>6. QED
    BY <2>5 DEF Good
<1>8. FitsIn(reply, "PollReply", Octet)
  BY <1>7 DEF FitsIn, layout
<1>9. {layout[i].name : i \in Fields("PollReply")} = names
  BY <1>3, <1>4
<1>10. reply = [name \in names |-> reply[name]]
  BY DEF PollReply
<1>11. Kept("PollReply", reply) = reply
  BY <1>9, <1>10 DEF Kept, layout
<1>12. QED
  BY <1>8, <1>11

\* The lesser of two numbers.
LEMMA MinOfTwo ==
  ASSUME NEW a \in Nat, NEW b \in Nat
  PROVE  Min({a, b}) = IF a <= b THEN a ELSE b
<1> DEFINE least == IF a <= b THEN a ELSE b
<1>1. least \in {a, b} /\ \A y \in {a, b} : least <= y
  OBVIOUS
<1>2. \A x \in {a, b} : (\A y \in {a, b} : x <= y) => x = least
  OBVIOUS
<1> HIDE DEF least
<1>3. Min({a, b}) = least
  BY <1>1, <1>2, Zenon DEF Min
<1>4. QED
  BY <1>3 DEF least

\* A label that is not empty begins with one of its characters.
LEMMA LabelText ==
  ASSUME NEW S, NEW octets \in Seq(S), UntilNul(octets) # <<>>
  PROVE  UntilNul(octets)[1] \in S /\ UntilNul(octets)[1] # 0
<1> DEFINE Nul(i) == octets[i] = 0 /\ \A j \in 1 .. i - 1 : octets[j] # 0
           nul == CHOOSE i \in DOMAIN octets : Nul(i)
           last == nul - 1
           Zero == {i \in DOMAIN octets : octets[i] = 0}
<1>1. DOMAIN octets = 1 .. Len(octets) /\ Len(octets) \in Nat
  OBVIOUS
<1>2. Contains(octets, 0) /\ UntilNul(octets) = SubSeq(octets, 1, last)
  BY DEF UntilNul
<1>3. Zero # {} /\ Zero \subseteq Nat
  BY <1>1, <1>2 DEF Contains
<1>4. PICK i \in Zero : \A j \in Zero : i <= j
  <2> HIDE DEF Zero
  <2>1. QED
    BY <1>3, Least
<1>5. i \in DOMAIN octets /\ Nul(i)
  <2>1. \A j \in 1 .. i - 1 : j \in DOMAIN octets /\ ~ (i <= j)
    BY <1>1, <1>4
  <2>2. QED
    BY <1>4, <2>1
<1>6. nul \in DOMAIN octets /\ Nul(nul)
  BY <1>5, Zenon
<1> HIDE DEF nul
<1>7. last \in Int /\ last < Len(octets)
  BY <1>1, <1>6
<1>8. last >= 1
  <2>1. SUFFICES ASSUME last < 1 PROVE FALSE
    BY <1>7
  <2>2. SubSeq(octets, 1, last) = <<>>
    BY <1>7, <2>1, SubSeqEmpty
  <2>3. QED
    BY <1>2, <2>2
<1>9. octets[1] # 0 /\ octets[1] \in S
  BY <1>1, <1>6, <1>7, <1>8
<1>10. UntilNul(octets)[1] = octets[1]
  <2> HIDE DEF last
  <2>1. \A j \in 1 .. last : octets[j] \in S
    BY <1>7
  <2>2. \A j \in 1 .. last - 1 + 1 : SubSeq(octets, 1, last)[j] = octets[1 + j - 1]
    BY <1>7, <2>1, SubSeqProperties
  <2>3. QED
    BY <1>2, <1>7, <1>8, <2>2
<1>11. QED
  BY <1>9, <1>10

\* What is registered of a reply: a supply of the stage's network, if its label
\* is one.
LEMMA PdsType ==
  ASSUME NEW reply \in PollReply
  PROVE  /\ Pds(reply).serial = reply.serial /\ Pds(reply).src_ip = reply.src_ip
         /\ Pds(reply).label = ParseLabel(UntilNul(reply.node_label))
         /\ reply.serial \in Serial
         /\ Pds(reply).label # NoLabel => Pds(reply) \in KinetPowerSupply
<1> DEFINE label == UntilNul(reply.node_label)
           words == IF label = <<>> THEN <<>> ELSE Words[label[1]]
<1>1. reply.serial \in Serial /\ reply.src_ip \in IPv4
      /\ reply.node_label \in [1 .. 33 -> Text \cup {0}]
  BY DEF PollReply
<1>2. words \in Seq(Word)
  <2>1. CASE label = <<>>
    BY <2>1
  <2>2. CASE label # <<>>
    <3>1. label[1] \in Text
      <4> DEFINE Character == Text \cup {0}
      <4>1. reply.node_label \in [1 .. 33 -> Character] /\ 33 \in Nat
        BY <1>1
      <4> HIDE DEF Character
      <4>2. reply.node_label \in Seq(Character)
        BY <4>1, FunctionIsSeq, Zenon
      <4>3. label[1] \in Character /\ label[1] # 0
        BY <2>2, <4>2, LabelText
      <4>4. QED
        BY <4>3 DEF Character
    <3>2. QED
      BY <2>2, <3>1, CodecAssumption
  <2>3. QED
    BY <2>1, <2>2
<1> HIDE DEF label
<1>3. ParseLabel(label) =
        IF Len(words) = 2 /\ words[2].suffix # "other" /\ words[2].number # NotANumber
          THEN <<words[2].number, IF words[2].suffix = "C" THEN "rgb" ELSE "white">>
          ELSE NoLabel
  BY DEF ParseLabel
<1> HIDE DEF words
<1>4. ParseLabel(label) # NoLabel => ParseLabel(label) \in PdsKey
  <2>1. SUFFICES ASSUME ParseLabel(label) # NoLabel PROVE ParseLabel(label) \in PdsKey
    OBVIOUS
  <2>2. Len(words) = 2 /\ words[2].number # NotANumber
        /\ ParseLabel(label) = <<words[2].number, IF words[2].suffix = "C" THEN "rgb" ELSE "white">>
    BY <1>3, <2>1, Zenon
  <2>3. words[2] \in Word
    <3>1. \A w \in Seq(Word) : Len(w) = 2 => w[2] \in Word
      OBVIOUS
    <3>2. QED
      BY <1>2, <2>2, <3>1
  <2>4. words[2].number \in Nat
    BY <2>2, <2>3 DEF Word
  <2>5. (IF words[2].suffix = "C" THEN "rgb" ELSE "white") \in Kind
    BY DEF Kind
  <2>6. \A n \in Nat, kind \in Kind : <<n, kind>> \in PdsKey
    BY DEF PdsKey
  <2>7. QED
    BY <2>2, <2>4, <2>5, <2>6, Zenon
<1>5. QED
  BY <1>1, <1>4 DEF Pds, KinetPowerSupply, label
-----------------------------------------------------------------------------
(* What validation makes of the list *)

\* A list of supplies: validation looks at labels and addresses only.
IsList(raw) == \E S : raw \in Seq(S)

\* If no entry replaces one at another address, all entries under one key are at
\* one address.
LEMMA OneAddress ==
  ASSUME NEW raw, IsList(raw), ~ Duplicates(raw),
         NEW i \in DOMAIN raw, NEW j \in DOMAIN raw, raw[i].label = raw[j].label
  PROVE  raw[i].src_ip = raw[j].src_ip
<1> DEFINE Apart(d) == \E m, n \in DOMAIN raw : /\ n = m + d /\ raw[m].label = raw[n].label
                                                /\ raw[m].src_ip # raw[n].src_ip
           Gaps == {d \in Nat : Apart(d)}
<1>1. DOMAIN raw \subseteq Nat
  BY DEF IsList
<1>2. Gaps = {}
  <2>1. SUFFICES ASSUME Gaps # {} PROVE FALSE
    OBVIOUS
  <2>2. PICK d \in Gaps : \A e \in Gaps : d <= e
    BY <2>1, Least
  <2>3. PICK m \in DOMAIN raw, n \in DOMAIN raw :
          n = m + d /\ raw[m].label = raw[n].label /\ raw[m].src_ip # raw[n].src_ip
    BY <2>2
  <2>4. m < n
    BY <1>1, <2>2, <2>3
  <2>5. ASSUME NEW k \in m + 1 .. n - 1
        PROVE  raw[k].label # raw[n].label
    <3>1. SUFFICES ASSUME raw[k].label = raw[n].label PROVE FALSE
      OBVIOUS
    <3>2. k \in DOMAIN raw
      BY <2>3, <2>5 DEF IsList
    <3>3. k - m \in Nat /\ n - k \in Nat /\ k - m < d /\ n - k < d
      BY <1>1, <2>2, <2>3, <2>5
    <3>4. raw[m].src_ip = raw[k].src_ip
      <4>1. k = m + (k - m)
        BY <1>1, <2>3, <2>5
      <4>2. raw[m].src_ip # raw[k].src_ip => k - m \in Gaps
        BY <2>3, <3>1, <3>2, <3>3, <4>1
      <4>3. QED
        BY <2>2, <3>3, <4>2
    <3>5. raw[k].src_ip = raw[n].src_ip
      <4>1. n = k + (n - k)
        BY <1>1, <2>3, <2>5
      <4>2. raw[k].src_ip # raw[n].src_ip => n - k \in Gaps
        BY <2>3, <3>1, <3>2, <3>3, <4>1
      <4>3. QED
        BY <2>2, <3>3, <4>2
    <3>6. QED
      BY <2>3, <3>4, <3>5
  <2>6. Replaces(raw, m, n)
    BY <2>3, <2>4, <2>5 DEF Replaces
  <2>7. QED
    BY <2>3, <2>6 DEF Duplicates
<1>3. ASSUME NEW m \in DOMAIN raw, NEW n \in DOMAIN raw, m <= n,
             raw[m].label = raw[n].label
      PROVE  raw[m].src_ip = raw[n].src_ip
  <2>1. n - m \in Nat /\ n = m + (n - m)
    BY <1>1, <1>3
  <2>2. raw[m].src_ip # raw[n].src_ip => n - m \in Gaps
    BY <1>3, <2>1
  <2>3. QED
    BY <1>2, <2>2
<1>4. QED
  BY <1>1, <1>3

\* The map has an entry of the list under each key, and no other keys.
LEMMA MappedEntry ==
  ASSUME NEW raw, IsList(raw), NEW key \in Keys(raw)
  PROVE  /\ DOMAIN Mapped(raw) = Keys(raw)
         /\ \E i \in DOMAIN raw : Mapped(raw)[key] = raw[i] /\ raw[i].label = key
<1> DEFINE LastUnder(i) == raw[i].label = key /\ \A j \in DOMAIN raw : raw[j].label = key => j <= i
           FromEnd == {d \in Nat : \E i \in DOMAIN raw : d = Len(raw) - i /\ raw[i].label = key}
<1>1. DOMAIN raw = 1 .. Len(raw) /\ Len(raw) \in Nat
  BY DEF IsList
<1>2. FromEnd # {}
  <2>1. PICK i \in DOMAIN raw : raw[i].label = key
    BY DEF Keys
  <2>2. Len(raw) - i \in Nat
    BY <1>1
  <2>3. QED
    BY <2>1, <2>2
<1>3. PICK d \in FromEnd : \A e \in FromEnd : d <= e
  BY <1>2, Least
<1>4. PICK i \in DOMAIN raw : d = Len(raw) - i /\ raw[i].label = key
  BY <1>3
<1>5. LastUnder(i)
  <2>1. SUFFICES ASSUME NEW j \in DOMAIN raw, raw[j].label = key
                 PROVE  j <= i
    BY <1>4
  <2>2. Len(raw) - j \in FromEnd
    BY <1>1, <2>1
  <2>3. QED
    BY <1>1, <1>3, <1>4, <2>2
<1>6. LastUnder(CHOOSE m \in DOMAIN raw : LastUnder(m))
      /\ (CHOOSE m \in DOMAIN raw : LastUnder(m)) \in DOMAIN raw
  BY <1>5
<1>7. Mapped(raw)[key] = raw[CHOOSE m \in DOMAIN raw : LastUnder(m)]
      /\ DOMAIN Mapped(raw) = Keys(raw)
  BY DEF Mapped
<1>8. QED
  BY <1>6, <1>7
-----------------------------------------------------------------------------
(* What is registered *)

\* A supply is registered once: until discovery ends, its serial has been seen.
RegisteredInv ==
  /\ IsList(discovered_targets)
  /\ \A i, j \in DOMAIN discovered_targets :
       discovered_targets[i].serial = discovered_targets[j].serial => i = j
  /\ phase \in {"new", "bind", "poll", "listen"} =>
       \A i \in DOMAIN discovered_targets : discovered_targets[i].serial \in seen_serials

\* The list of a supply and the ones before it.
LEMMA ListAppend ==
  ASSUME NEW raw, IsList(raw), NEW pds
  PROVE  /\ IsList(Append(raw, pds))
         /\ DOMAIN Append(raw, pds) = DOMAIN raw \cup {Len(raw) + 1}
         /\ \A i \in DOMAIN raw : Append(raw, pds)[i] = raw[i]
         /\ Append(raw, pds)[Len(raw) + 1] = pds
<1>1. PICK S : raw \in Seq(S)
  BY DEF IsList
<1>2. raw \in Seq(S \cup {pds})
  BY <1>1
<1>3. Append(raw, pds) \in Seq(S \cup {pds})
  BY <1>2
<1>4. QED
  BY <1>2, <1>3 DEF IsList

\* A reply keeps the supplies registered once.
LEMMA ProcessRegisters ==
  ASSUME RegisteredInv, phase = "listen", phase' = phase, NEW reply, Process(reply)
  PROVE  RegisteredInv'
<1>1. CASE reply.serial \in seen_serials \/ Pds(reply).label = NoLabel
  BY <1>1 DEF RegisteredInv, Process, IsList
<1>2. CASE ~ (reply.serial \in seen_serials \/ Pds(reply).label = NoLabel)
  <2> DEFINE raw == discovered_targets
             pds == Pds(reply)
  <2>1. discovered_targets' = Append(raw, pds) /\ seen_serials' = seen_serials \cup {reply.serial}
    BY <1>2 DEF Process
  <2>2. pds.serial = reply.serial
    BY DEF Pds
  <2>3. /\ \A i \in DOMAIN raw : raw[i].serial # pds.serial
        /\ \A i \in DOMAIN raw : raw[i].serial \in seen_serials
    BY <1>2, <2>2 DEF RegisteredInv
  <2>4. /\ IsList(Append(raw, pds))
        /\ DOMAIN Append(raw, pds) = DOMAIN raw \cup {Len(raw) + 1}
        /\ \A i \in DOMAIN raw : Append(raw, pds)[i] = raw[i]
        /\ Append(raw, pds)[Len(raw) + 1] = pds
    BY ListAppend DEF RegisteredInv
  <2>5. ASSUME NEW i \in DOMAIN Append(raw, pds), NEW j \in DOMAIN Append(raw, pds),
               Append(raw, pds)[i].serial = Append(raw, pds)[j].serial
        PROVE  i = j
    <3>1. \A m, n \in DOMAIN raw : raw[m].serial = raw[n].serial => m = n
      BY DEF RegisteredInv
    <3> HIDE DEF raw, pds
    <3>2. QED
      BY <2>3, <2>4, <2>5, <3>1
  <2>6. ASSUME NEW i \in DOMAIN Append(raw, pds)
        PROVE  Append(raw, pds)[i].serial \in seen_serials \cup {reply.serial}
    <3> HIDE DEF raw, pds
    <3>1. QED
      BY <2>2, <2>3, <2>4, <2>6
  <2> HIDE DEF pds
  <2>7. QED
    BY <2>1, <2>4, <2>5, <2>6 DEF RegisteredInv, IsList
<1>3. QED
  BY <1>1, <1>2

\* A datagram, whatever it is, keeps them registered once.
LEMMA ReceiveRegisters ==
  ASSUME RegisteredInv, NEW datagram, Receive(datagram)
  PROVE  /\ RegisteredInv'
         /\ UNCHANGED <<phase, targets>>
<1>1. phase = "listen" /\ UNCHANGED <<phase, targets>>
  BY DEF Receive, resultVars
<1>2. (\E reply : Process(reply)) \/ UNCHANGED <<seen_serials, discovered_targets>>
  BY DEF Receive
<1>3. CASE \E reply : Process(reply)
  BY <1>1, <1>3, ProcessRegisters
<1>4. CASE UNCHANGED <<seen_serials, discovered_targets>>
  BY <1>1, <1>4 DEF RegisteredInv, IsList
<1>5. QED
  BY <1>1, <1>2, <1>3, <1>4

\* Every step keeps them registered once.
LEMMA RegisteredStep ==
  ASSUME RegisteredInv, [Next]_vars
  PROVE  RegisteredInv'
<1>1. CASE ClaimPin
  BY <1>1 DEF ClaimPin, Fail, RegisteredInv, IsList, localVars
<1>2. CASE Bind
  <2>1. UNCHANGED <<seen_serials, discovered_targets>> /\ phase = "bind"
    BY <1>2 DEF Bind, localVars
  <2>2. QED
    BY <2>1 DEF RegisteredInv, IsList
<1>3. CASE Poll
  BY <1>3 DEF Poll, Fail, RegisteredInv, IsList, localVars
<1>4. CASE EndWindow
  <2>1. phase = "listen" /\ UNCHANGED discovered_targets
    BY <1>4 DEF EndWindow
  <2>2. phase' = "map" \/ UNCHANGED seen_serials
    BY <1>4 DEF EndWindow, localVars
  <2>3. QED
    BY <2>1, <2>2 DEF RegisteredInv, IsList
<1>5. CASE Start
  <2>1. discovered_targets' = <<>>
    BY <1>5 DEF Start
  <2>2. <<>> \in Seq({}) /\ DOMAIN <<>> = {}
    OBVIOUS
  <2>3. QED
    BY <2>1, <2>2 DEF RegisteredInv, IsList
<1>6. CASE \E reply \in installation : ReceiveReply(reply)
  BY <1>6, ReceiveRegisters DEF ReceiveReply
<1>7. CASE \E datagram \in Noise : ReceiveNoise(datagram)
  BY <1>7, ReceiveRegisters DEF ReceiveNoise
<1>8. CASE UNCHANGED vars
  BY <1>8 DEF vars, localVars, RegisteredInv, IsList
<1>9. QED
  BY <1>1, <1>2, <1>3, <1>4, <1>5, <1>6, <1>7, <1>8 DEF Next, Progress

\* Only the start of the loop sets the map, and it sets it to a valid one.
LEMMA OnlyStartMaps ==
  ASSUME RegisteredInv, [Next]_vars
  PROVE  \/ UNCHANGED targets /\ (phase # "running" => phase' # "running")
         \/ /\ targets' = Mapped(discovered_targets)
            /\ ~ Duplicates(discovered_targets)
            /\ ~ Missing(discovered_targets)
<1>1. CASE ClaimPin
  BY <1>1 DEF ClaimPin, Fail, resultVars
<1>2. CASE Bind
  <2>1. UNCHANGED targets
    BY <1>2 DEF Bind, resultVars
  <2>2. phase' \in {"map", "poll", "failed"}
    BY <1>2 DEF Bind, Fail
  <2>3. QED
    BY <2>1, <2>2
<1>3. CASE Poll
  BY <1>3 DEF Poll, Fail, resultVars
<1>4. CASE EndWindow
  BY <1>4 DEF EndWindow, Retry, resultVars
<1>5. CASE Start
  <2> HIDE DEF Duplicates, Missing, Mapped
  <2>1. QED
    BY <1>5 DEF Start, Fail, resultVars
<1>6. CASE \E reply \in installation : ReceiveReply(reply)
  BY <1>6, ReceiveRegisters DEF ReceiveReply
<1>7. CASE \E datagram \in Noise : ReceiveNoise(datagram)
  BY <1>7, ReceiveRegisters DEF ReceiveNoise
<1>8. CASE UNCHANGED vars
  BY <1>8 DEF vars, resultVars
<1>9. QED
  BY <1>1, <1>2, <1>3, <1>4, <1>5, <1>6, <1>7, <1>8 DEF Next, Progress
-----------------------------------------------------------------------------
(* One universe a supply, one address a label *)

\* A supply is registered once, however often it answers and with whatever
\* labels (discover_pds).
THEOREM RegisteredCorrect == Spec => []RegisteredInv
<1>1. Init => RegisteredInv
  <2>1. <<>> \in Seq({}) /\ DOMAIN <<>> = {}
    OBVIOUS
  <2>2. QED
    BY <2>1 DEF Init, RegisteredInv, IsList
<1>2. RegisteredInv /\ [Next]_vars => RegisteredInv'
  BY RegisteredStep
<1>3. QED
  BY <1>1, <1>2, PTL DEF Spec

\* No supply is sent two universes, in any stage and installation.
THEOREM OneUniverseCorrect == Spec => []OneUniversePerSupply
<1>1. Init => OneUniversePerSupply
  BY DEF Init, OneUniversePerSupply
<1>2. OneUniversePerSupply /\ RegisteredInv /\ [Next]_vars => OneUniversePerSupply'
  <2>1. SUFFICES ASSUME OneUniversePerSupply, RegisteredInv, [Next]_vars
                 PROVE  OneUniversePerSupply'
    OBVIOUS
  <2>2. CASE UNCHANGED targets
    BY <2>1, <2>2 DEF OneUniversePerSupply
  <2>3. CASE targets' = Mapped(discovered_targets)
    <3> DEFINE raw == discovered_targets
    <3>1. SUFFICES ASSUME NEW k1 \in Keys(raw), NEW k2 \in Keys(raw),
                          Mapped(raw)[k1].serial = Mapped(raw)[k2].serial
                   PROVE  k1 = k2
      <4>1. DOMAIN Mapped(raw) = Keys(raw)
        BY DEF Mapped
      <4>2. QED
        BY <2>3, <3>1, <4>1 DEF OneUniversePerSupply
    <3>2. PICK i \in DOMAIN raw : Mapped(raw)[k1] = raw[i] /\ raw[i].label = k1
      BY <2>1, MappedEntry DEF RegisteredInv
    <3>3. PICK j \in DOMAIN raw : Mapped(raw)[k2] = raw[j] /\ raw[j].label = k2
      BY <2>1, MappedEntry DEF RegisteredInv
    <3>4. i = j
      BY <2>1, <3>1, <3>2, <3>3 DEF RegisteredInv
    <3>5. QED
      BY <3>2, <3>3, <3>4
  <2>4. QED
    BY <2>1, <2>2, <2>3, OnlyStartMaps
<1>3. QED
  BY <1>1, <1>2, RegisteredCorrect, PTL DEF Spec

\* The loop starts with a supply for every universe, at the one address at
\* which that label was heard (map_and_validate_targets).
THEOREM UniversesServedCorrect == Spec => UniversesServed
<1>1. RegisteredInv /\ [Next]_vars =>
        [phase # "running" /\ phase' = "running" =>
           \A key \in Expected :
             /\ key \in DOMAIN targets'
             /\ targets'[key].label = key
             /\ \A pds \in Registered :
                  pds.label = key => pds.src_ip = targets'[key].src_ip]_vars
  <2> DEFINE raw == discovered_targets
  <2>1. SUFFICES ASSUME RegisteredInv, [Next]_vars,
                        phase # "running", phase' = "running",
                        NEW key \in Expected
                 PROVE  /\ key \in DOMAIN targets'
                        /\ targets'[key].label = key
                        /\ \A pds \in Registered :
                             pds.label = key => pds.src_ip = targets'[key].src_ip
    OBVIOUS
  <2>2. targets' = Mapped(raw) /\ ~ Duplicates(raw) /\ ~ Missing(raw)
    BY <2>1, OnlyStartMaps
  <2>3. key \in Keys(raw) /\ IsList(raw)
    BY <2>1, <2>2 DEF Missing, RegisteredInv
  <2>4. PICK i \in DOMAIN raw : Mapped(raw)[key] = raw[i] /\ raw[i].label = key
    BY <2>3, MappedEntry
  <2>5. key \in DOMAIN Mapped(raw)
    BY <2>3 DEF Mapped
  <2>6. ASSUME NEW pds \in Registered, pds.label = key
        PROVE  pds.src_ip = raw[i].src_ip
    <3>1. PICK j \in DOMAIN raw : pds = raw[j]
      BY <2>6 DEF Registered
    <3>2. QED
      BY <2>2, <2>3, <2>4, <2>6, <3>1, OneAddress
  <2>7. QED
    BY <2>2, <2>4, <2>5, <2>6
<1>2. QED
  BY <1>1, RegisteredCorrect, PTL DEF Spec, UniversesServed
-----------------------------------------------------------------------------
(* What is received *)

\* A sequence that is written over the front of another is read back from there.
LEMMA Overwritten ==
  ASSUME NEW S, NEW buffer \in Seq(S), NEW octets \in Seq(S), NEW size \in Nat,
         size <= Len(buffer), size <= Len(octets), NEW new,
         new = [i \in DOMAIN buffer |-> IF i <= size THEN octets[i] ELSE buffer[i]]
  PROVE  /\ new \in Seq(S) /\ Len(new) = Len(buffer) /\ DOMAIN new = DOMAIN buffer
         /\ SubSeq(new, 1, size) = SubSeq(octets, 1, size)
<1>1. DOMAIN buffer = 1 .. Len(buffer) /\ Len(buffer) \in Nat /\ Len(octets) \in Nat
  OBVIOUS
<1>2. new \in [1 .. Len(buffer) -> S]
  BY <1>1
<1>3. new \in Seq(S) /\ Len(new) = Len(buffer) /\ DOMAIN new = 1 .. Len(buffer)
  BY <1>1, <1>2, FunctionIsSeq
<1>4. \A i \in 1 .. size : new[i] = octets[i] /\ new[i] \in S /\ octets[i] \in S
  BY <1>1
<1>5. SubSeq(new, 1, size) = SubSeq(octets, 1, size)
  <2> DEFINE read == SubSeq(new, 1, size)
             sent == SubSeq(octets, 1, size)
  <2>1. /\ read \in Seq(S) /\ sent \in Seq(S) /\ Len(read) = size /\ Len(sent) = size
        /\ \A i \in 1 .. size : read[i] = new[i] /\ sent[i] = octets[i]
    <3>1. \A f : (\A i \in 1 .. size : f[i] \in S) =>
            /\ SubSeq(f, 1, size) \in Seq(S) /\ Len(SubSeq(f, 1, size)) = size
            /\ \A i \in 1 .. size : SubSeq(f, 1, size)[i] = f[i]
      <4>1. SUFFICES ASSUME NEW f, \A i \in 1 .. size : f[i] \in S
                     PROVE  /\ SubSeq(f, 1, size) \in Seq(S) /\ Len(SubSeq(f, 1, size)) = size
                            /\ \A i \in 1 .. size : SubSeq(f, 1, size)[i] = f[i]
        OBVIOUS
      <4>2. /\ SubSeq(f, 1, size) \in Seq(S)
            /\ Len(SubSeq(f, 1, size)) = IF 1 <= size THEN size - 1 + 1 ELSE 0
            /\ \A i \in 1 .. size - 1 + 1 : SubSeq(f, 1, size)[i] = f[1 + i - 1]
        BY <4>1, SubSeqProperties
      <4>3. QED
        BY <4>2
    <3>2. QED
      BY <1>4, <3>1
  <2> HIDE DEF read, sent
  <2>2. Len(read) = Len(sent) /\ \A i \in 1 .. Len(read) : read[i] = sent[i]
    BY <1>4, <2>1
  <2>3. read \in Seq(S) /\ sent \in Seq(S)
    BY <2>1
  <2>4. read = sent
    BY <2>2, <2>3, SeqEqual
  <2>5. QED
    BY <2>4 DEF read, sent
<1>6. QED
  BY <1>1, <1>3, <1>5

\* recv_buf, which never grows.
BufferInv ==
  /\ recv_buf \in Seq(Octet)
  /\ Len(recv_buf) = PacketSize("PollReply")
  /\ DOMAIN recv_buf = DOMAIN EmptyBuffer

\* As much of a datagram as the buffer holds.
Held(datagram) == SubSeq(datagram, 1, Min({Len(datagram), PacketSize("PollReply")}))

\* A datagram is processed for what it says itself, whatever the buffer held.
LEMMA ReceiveReads ==
  ASSUME BufferInv, NEW datagram \in Seq(Octet), Receive(datagram)
  PROVE  /\ BufferInv'
         /\ LET packet == ReadFrom(Held(datagram))
            IN  IF packet.ok /\ packet.kind = "PollReply"
                  THEN Process(packet.payload)
                  ELSE UNCHANGED <<seen_serials, discovered_targets>>
<1> DEFINE size == Min({Len(datagram), Len(recv_buf)})
<1>1. Len(datagram) \in Nat /\ Len(recv_buf) \in Nat
  BY DEF BufferInv
<1>2. size \in Nat /\ size <= Len(datagram) /\ size <= Len(recv_buf)
  <2>1. size = IF Len(datagram) <= Len(recv_buf) THEN Len(datagram) ELSE Len(recv_buf)
    BY <1>1, MinOfTwo
  <2> HIDE DEF size
  <2>2. QED
    BY <1>1, <2>1
<1>3. recv_buf' = [i \in DOMAIN recv_buf |-> IF i <= size THEN datagram[i] ELSE recv_buf[i]]
  BY DEF Receive
<1>4. /\ recv_buf' \in Seq(Octet) /\ Len(recv_buf') = Len(recv_buf)
      /\ DOMAIN recv_buf' = DOMAIN recv_buf
      /\ SubSeq(recv_buf', 1, size) = SubSeq(datagram, 1, size)
  <2> HIDE DEF size
  <2>1. recv_buf \in Seq(Octet) /\ size \in Nat /\ size <= Len(datagram) /\ size <= Len(recv_buf)
    BY <1>2 DEF BufferInv
  <2>2. \A new : new = [i \in DOMAIN recv_buf |-> IF i <= size THEN datagram[i] ELSE recv_buf[i]]
                => /\ new \in Seq(Octet) /\ Len(new) = Len(recv_buf) /\ DOMAIN new = DOMAIN recv_buf
                   /\ SubSeq(new, 1, size) = SubSeq(datagram, 1, size)
    BY <2>1, Overwritten
  <2>3. QED
    BY <1>3, <2>2, Zenon
<1>5. BufferInv'
  BY <1>4 DEF BufferInv, EmptyBuffer
<1>6. ReadReceived(recv_buf', size) = ReadFrom(Held(datagram))
  BY <1>4 DEF ReadReceived, Held, BufferInv
<1>7. LET packet == ReadReceived(recv_buf', size)
      IN  IF packet.ok /\ packet.kind = "PollReply"
            THEN Process(packet.payload)
            ELSE UNCHANGED <<seen_serials, discovered_targets>>
  BY DEF Receive
<1>8. QED
  BY <1>5, <1>6, <1>7

\* A reply is received as it was sent.
LEMMA ReplyRead ==
  ASSUME NEW reply \in PollReply
  PROVE  /\ WriteTo("PollReply", reply) \in Seq(Octet)
         /\ ReadFrom(Held(WriteTo("PollReply", reply))) =
              [ok |-> TRUE, kind |-> "PollReply", payload |-> reply]
<1> DEFINE packet == WriteTo("PollReply", reply)
<1>1. "PollReply" \in DOMAIN Payload /\ HasOctets(Octet)
  BY DEF Payload, HasOctets, Octet
<1>2. FitsIn(reply, "PollReply", Octet) /\ Kept("PollReply", reply) = reply
  BY ReplyFits
<1>3. packet \in Seq(Octet) /\ Len(packet) = PacketSize("PollReply")
  BY <1>1, <1>2, PacketWritten
<1> HIDE DEF packet
<1>4. Held(packet) = packet
  <2>1. Len(packet) \in Nat /\ Min({Len(packet), Len(packet)}) = Len(packet)
    BY <1>3, MinOfTwo
  <2>2. SubSeq(packet, 1, Len(packet)) = packet
    BY <1>3
  <2>3. QED
    BY <1>3, <2>1, <2>2 DEF Held
<1>5. BeginsWith(packet, packet)
  BY <1>3 DEF BeginsWith
<1>6. ReadFrom(packet) = [ok |-> TRUE, kind |-> "PollReply", payload |-> Kept("PollReply", reply)]
  BY <1>1, <1>2, <1>3, <1>5, ReadsAsWritten DEF packet
<1>7. QED
  BY <1>2, <1>3, <1>4, <1>6 DEF packet

\* So a reply of a supply is processed, and nothing else is.
LEMMA ReplyProcessed ==
  ASSUME BufferInv, NEW reply \in PollReply, ReceiveReply(reply)
  PROVE  BufferInv' /\ Process(reply)
<1>1. WriteTo("PollReply", reply) \in Seq(Octet) /\ Receive(WriteTo("PollReply", reply))
  BY ReplyRead DEF ReceiveReply
<1>2. QED
  BY <1>1, ReceiveReads, ReplyRead

\* What is not a reply is ignored.
LEMMA NoiseIgnored ==
  ASSUME BufferInv, NEW datagram \in Noise, ReceiveNoise(datagram)
  PROVE  BufferInv' /\ UNCHANGED <<seen_serials, discovered_targets>>
<1>1. datagram \in Seq(Octet) /\ ~ IsReply(datagram) /\ Receive(datagram)
  BY DiscoveryAssumption DEF ReceiveNoise
<1>2. LET packet == ReadFrom(Held(datagram)) IN ~ (packet.ok /\ packet.kind = "PollReply")
  BY <1>1 DEF IsReply, Held
<1>3. QED
  BY <1>1, <1>2, ReceiveReads
-----------------------------------------------------------------------------
(* Types *)

\* What discovery keeps at every step.
DiscoveryInv == TypeOK /\ BufferInv

\* What is mapped are supplies under their labels.
LEMMA MappedType ==
  ASSUME NEW raw \in Seq(KinetPowerSupply)
  PROVE  /\ DOMAIN Mapped(raw) \subseteq PdsKey
         /\ \A key \in DOMAIN Mapped(raw) :
              /\ Mapped(raw)[key] \in KinetPowerSupply /\ Mapped(raw)[key].serial \in Serial
              /\ Mapped(raw)[key].label = key
              /\ \E i \in DOMAIN raw : Mapped(raw)[key] = raw[i]
<1>1. SUFFICES ASSUME NEW key \in DOMAIN Mapped(raw)
               PROVE  /\ key \in PdsKey
                      /\ Mapped(raw)[key] \in KinetPowerSupply /\ Mapped(raw)[key].serial \in Serial
                      /\ Mapped(raw)[key].label = key
                      /\ \E i \in DOMAIN raw : Mapped(raw)[key] = raw[i]
  BY Zenon
<1>2. key \in Keys(raw) /\ IsList(raw)
  BY <1>1 DEF Mapped, IsList
<1>3. PICK i \in DOMAIN raw : Mapped(raw)[key] = raw[i] /\ raw[i].label = key
  BY <1>2, MappedEntry
<1>4. raw[i] \in KinetPowerSupply
  BY <1>3
<1>5. raw[i].label \in PdsKey /\ raw[i].serial \in Serial
  BY <1>4 DEF KinetPowerSupply
<1>6. QED
  BY <1>3, <1>4, <1>5

\* A reply leaves the supplies what they are.
LEMMA ProcessType ==
  ASSUME seen_serials \subseteq Serial, discovered_targets \in Seq(KinetPowerSupply),
         NEW reply \in PollReply, Process(reply)
  PROVE  seen_serials' \subseteq Serial /\ discovered_targets' \in Seq(KinetPowerSupply)
<1>1. seen_serials' \subseteq Serial
  BY PdsType DEF Process
<1>2. CASE reply.serial \in seen_serials \/ Pds(reply).label = NoLabel
  BY <1>1, <1>2 DEF Process
<1>3. CASE ~ (reply.serial \in seen_serials \/ Pds(reply).label = NoLabel)
  <2>1. Pds(reply) \in KinetPowerSupply
    BY <1>3, PdsType
  <2>2. discovered_targets' = Append(discovered_targets, Pds(reply))
    BY <1>3 DEF Process
  <2>3. QED
    BY <1>1, <2>1, <2>2
<1>4. QED
  BY <1>2, <1>3

\* Every step leaves the state as TypeOK says.
LEMMA TypeStep ==
  ASSUME DiscoveryInv, [Next]_vars
  PROVE  DiscoveryInv'
<1> DEFINE Phases == {"new", "bind", "poll", "listen", "map", "running", "failed"}
           Errors == {"none", "gpio", "interface", "socket", "duplicates", "missing"}
           Rest == /\ phase' \in Phases /\ local_ip' \in IPv4 /\ attempt' \in 0 .. MaxRetries
                   /\ error' \in Errors
           Buffer == recv_buf' \in Seq(Octet) /\ Len(recv_buf') = PacketSize("PollReply")
                     /\ DOMAIN recv_buf' = DOMAIN EmptyBuffer
           Heard == seen_serials' \subseteq Serial /\ discovered_targets' \in Seq(KinetPowerSupply)
                    /\ heard' \subseteq installation'
           Result == /\ DOMAIN targets' \subseteq PdsKey
                     /\ \A key \in DOMAIN targets' : targets'[key] \in KinetPowerSupply
                     /\ tracked' \subseteq Serial
<1>1. SUFFICES Rest /\ Buffer /\ Heard /\ Result /\ installation' = installation
  <2>1. ASSUME Buffer PROVE \A i \in DOMAIN recv_buf' : recv_buf'[i] \in Octet
    BY <2>1
  <2>2. installation \in Installations
    BY DEF DiscoveryInv, TypeOK
  <2>3. ASSUME Rest /\ Buffer /\ Heard /\ Result /\ installation' = installation
        PROVE  DiscoveryInv'
    <3>1. EmptyBuffer' = EmptyBuffer
      BY DEF EmptyBuffer
    <3>2. BufferInv'
      BY <2>3, <3>1 DEF BufferInv
    <3>3. TypeOK'
      BY <2>1, <2>2, <2>3, <3>1 DEF TypeOK
    <3>4. QED
      BY <3>2, <3>3 DEF DiscoveryInv
  <2>4. QED
    BY <2>3
<1>2. /\ phase \in Phases /\ local_ip \in IPv4 /\ attempt \in 0 .. MaxRetries /\ error \in Errors
      /\ recv_buf \in Seq(Octet) /\ Len(recv_buf) = PacketSize("PollReply")
      /\ DOMAIN recv_buf = DOMAIN EmptyBuffer
      /\ seen_serials \subseteq Serial /\ discovered_targets \in Seq(KinetPowerSupply)
      /\ heard \subseteq installation
      /\ DOMAIN targets \subseteq PdsKey
      /\ \A key \in DOMAIN targets : targets[key] \in KinetPowerSupply
      /\ tracked \subseteq Serial
      /\ installation \in Installations /\ MaxRetries \in Nat
  BY DiscoveryAssumption DEF DiscoveryInv, TypeOK, BufferInv
<1>3. CASE ClaimPin
  BY <1>2, <1>3 DEF ClaimPin, Fail, localVars, resultVars
<1>4. CASE Bind
  <2>1. UNCHANGED <<attempt, localVars, discovered_targets, resultVars, installation, heard>>
    BY <1>4 DEF Bind
  <2>2. PICK ifaces \in Interfaces : 
       \/ /\ \E i \in DOMAIN ifaces : local_ip' = ifaces[i]
          /\ phase' \in {"map", "poll"}
          /\ UNCHANGED error
       \/ Fail("interface") /\ UNCHANGED local_ip
       \/ Fail("socket") /\ UNCHANGED local_ip
    BY <1>4 DEF Bind
  <2>3. ifaces \in Seq(IPv4)
    BY DiscoveryAssumption
  <2>4. \A i \in DOMAIN ifaces : ifaces[i] \in IPv4
    BY <2>3
  <2>5. Rest
    BY <1>2, <2>1, <2>2, <2>4 DEF Fail
  <2>6. QED
    BY <1>2, <2>1, <2>5 DEF localVars, resultVars
<1>5. CASE Poll
  <2>1. UNCHANGED <<local_ip, localVars, discovered_targets, resultVars, installation, heard>>
    BY <1>5 DEF Poll
  <2>2. Rest
    BY <1>2, <1>5, <2>1 DEF Poll, Fail
  <2>3. QED
    BY <1>2, <2>1, <2>2 DEF localVars, resultVars
<1>6. CASE EndWindow
  <2>1. UNCHANGED <<local_ip, attempt, discovered_targets, resultVars, error, installation, heard>>
    BY <1>6 DEF EndWindow
  <2>2. Rest
    BY <1>2, <1>6, <2>1 DEF EndWindow, Retry
  <2>3. (recv_buf' = EmptyBuffer /\ seen_serials' = {}) \/ UNCHANGED <<recv_buf, seen_serials>>
    BY <1>6 DEF EndWindow, localVars
  <2>4. Buffer
    <3>1. EmptyBuffer \in Seq(Octet) /\ Len(EmptyBuffer) = PacketSize("PollReply")
      <4>1. PacketSize("PollReply") \in Nat
        BY DEF PacketSize, HEADER_SIZE, Size
      <4>2. 0 \in Octet
        BY DEF Octet
      <4>3. QED
        BY <4>1, <4>2, ZerosIsSeq DEF EmptyBuffer
    <3>2. QED
      BY <1>2, <2>3, <3>1
  <2>5. QED
    BY <1>2, <2>1, <2>2, <2>3, <2>4 DEF resultVars
<1>7. CASE Start
  <2>1. UNCHANGED <<local_ip, attempt, localVars, installation>> /\ discovered_targets' = <<>>
    BY <1>7 DEF Start
  <2>2. \/ /\ phase' = "failed" /\ error' \in Errors
           /\ UNCHANGED <<resultVars, heard>>
        \/ /\ phase' = "running" /\ UNCHANGED error
           /\ targets' = Mapped(discovered_targets)
           /\ tracked' = {targets'[key].serial : key \in DOMAIN targets'}
           /\ heard' = {}
    BY <1>7 DEF Start, Fail
  <2>3. Rest
    BY <1>2, <2>1, <2>2
  <2>4. Result
    <3>1. CASE UNCHANGED <<resultVars, heard>>
      BY <1>2, <3>1 DEF resultVars
    <3>2. CASE targets' = Mapped(discovered_targets)
               /\ tracked' = {targets'[key].serial : key \in DOMAIN targets'}
      BY <1>2, <3>2, MappedType
    <3>3. QED
      BY <2>2, <3>1, <3>2
  <2>5. Heard
    <3>1. <<>> \in Seq(KinetPowerSupply)
      OBVIOUS
    <3>2. QED
      BY <1>2, <2>1, <2>2, <3>1 DEF localVars
  <2>6. QED
    BY <1>2, <2>1, <2>3, <2>4, <2>5 DEF localVars
<1>8. CASE \E reply \in installation : ReceiveReply(reply)
  <2>1. PICK reply \in installation : ReceiveReply(reply)
    BY <1>8
  <2>2. reply \in PollReply
    BY <1>2, DiscoveryAssumption
  <2>3. BufferInv' /\ Process(reply)
    BY <2>1, <2>2, ReplyProcessed DEF DiscoveryInv
  <2>4. UNCHANGED <<phase, local_ip, attempt, resultVars, error, installation>>
        /\ heard' = heard \cup {reply}
    BY <2>1 DEF ReceiveReply, Receive
  <2>5. Heard
    BY <1>2, <2>1, <2>2, <2>3, <2>4, ProcessType
  <2>6. Buffer
    BY <2>3 DEF BufferInv, EmptyBuffer
  <2>7. QED
    BY <1>2, <2>4, <2>5, <2>6 DEF resultVars
<1>9. CASE \E datagram \in Noise : ReceiveNoise(datagram)
  <2>1. PICK datagram \in Noise : ReceiveNoise(datagram)
    BY <1>9
  <2>2. BufferInv' /\ UNCHANGED <<seen_serials, discovered_targets>>
    BY <2>1, NoiseIgnored DEF DiscoveryInv
  <2>3. UNCHANGED <<phase, local_ip, attempt, resultVars, error, installation, heard>>
    BY <2>1 DEF ReceiveNoise, Receive
  <2>4. Buffer
    BY <2>2 DEF BufferInv, EmptyBuffer
  <2>5. QED
    BY <1>2, <2>2, <2>3, <2>4 DEF resultVars
<1>10. CASE UNCHANGED vars
  BY <1>2, <1>10 DEF vars, localVars, resultVars
<1>11. QED
  BY <1>3, <1>4, <1>5, <1>6, <1>7, <1>8, <1>9, <1>10 DEF Next, Progress

\* So does the beginning.
LEMMA TypeInit == ASSUME Init PROVE DiscoveryInv
<1>1. EmptyBuffer \in Seq(Octet) /\ Len(EmptyBuffer) = PacketSize("PollReply")
      /\ \A i \in DOMAIN EmptyBuffer : EmptyBuffer[i] \in Octet
  <2>1. PacketSize("PollReply") \in Nat
    BY DEF PacketSize, HEADER_SIZE, Size
  <2>2. 0 \in Octet
    BY DEF Octet
  <2>3. EmptyBuffer \in Seq(Octet) /\ Len(EmptyBuffer) = PacketSize("PollReply")
    BY <2>1, <2>2, ZerosIsSeq DEF EmptyBuffer
  <2> HIDE DEF EmptyBuffer
  <2>4. QED
    BY <2>3
<1>2. NoAddress \in IPv4
  BY DEF NoAddress, IPv4
<1>3. <<>> \in Seq(KinetPowerSupply)
  OBVIOUS
<1>4. 0 \in 0 .. MaxRetries
  BY DiscoveryAssumption
<1>5. QED
  BY <1>1, <1>2, <1>3, <1>4 DEF Init, DiscoveryInv, TypeOK, BufferInv

\* Discovery, whatever is received, keeps to its types: in particular a key that it
\* maps is an arc and a kind, and the buffer is never outgrown.
THEOREM DiscoveryTypeCorrect == Spec => []TypeOK
<1>1. Init => DiscoveryInv
  BY TypeInit
<1>2. DiscoveryInv /\ [Next]_vars => DiscoveryInv'
  BY TypeStep
<1>3. DiscoveryInv => TypeOK
  BY DEF DiscoveryInv
<1>4. QED
  BY <1>1, <1>2, <1>3, PTL DEF Spec

\* What the replies of the stage's supplies say of them.
Supplies == {Pds(reply) : reply \in installation}

\* A step that neither processes a reply nor maps what was heard.
Otherwise ==
  /\ UNCHANGED <<discovered_targets, heard, installation, targets>>
  /\ UNCHANGED seen_serials \/ seen_serials' = {}
  /\ phase \in {"running", "failed"} => UNCHANGED <<phase, error>>
  /\ error' \in {"none", "gpio", "interface", "socket", error}
  /\ phase' # "failed" => UNCHANGED error
  /\ phase' # "running" \/ UNCHANGED phase

\* Every step changes the supplies that are registered in one of three ways.
LEMMA WaysToRegister ==
  ASSUME DiscoveryInv, [Next]_vars
  PROVE  \/ Otherwise
         \/ /\ phase = "listen"
            /\ UNCHANGED <<phase, targets, error, installation>>
            /\ \E reply \in installation : Process(reply) /\ heard' = heard \cup {reply}
         \/ Start
<1>1. CASE ClaimPin
  BY <1>1 DEF ClaimPin, Fail, Otherwise, localVars, resultVars
<1>2. CASE Bind
  <2>1. /\ phase = "bind"
        /\ \/ phase' \in {"map", "poll"} /\ UNCHANGED error
           \/ Fail("interface")
           \/ Fail("socket")
    BY <1>2 DEF Bind
  <2>2. UNCHANGED <<discovered_targets, heard, installation, targets, seen_serials>>
    BY <1>2 DEF Bind, localVars, resultVars
  <2>3. QED
    BY <2>1, <2>2 DEF Otherwise, Fail
<1>3. CASE Poll
  BY <1>3 DEF Poll, Fail, Otherwise, localVars, resultVars
<1>4. CASE EndWindow
  BY <1>4 DEF EndWindow, Retry, Otherwise, localVars, resultVars
<1>5. CASE Start
  BY <1>5
<1>6. CASE \E reply \in installation : ReceiveReply(reply)
  <2>1. PICK reply \in installation : ReceiveReply(reply)
    BY <1>6
  <2>2. reply \in PollReply
    BY DiscoveryAssumption DEF DiscoveryInv, TypeOK
  <2>3. Process(reply)
    BY <2>1, <2>2, ReplyProcessed DEF DiscoveryInv
  <2>4. QED
    BY <2>1, <2>3 DEF ReceiveReply, Receive, resultVars
<1>7. CASE \E datagram \in Noise : ReceiveNoise(datagram)
  <2>1. PICK datagram \in Noise : ReceiveNoise(datagram)
    BY <1>7
  <2>2. UNCHANGED <<seen_serials, discovered_targets>>
    BY <2>1, NoiseIgnored DEF DiscoveryInv
  <2>3. phase = "listen" /\ UNCHANGED <<phase, resultVars, error, installation, heard>>
    BY <2>1 DEF ReceiveNoise, Receive
  <2>4. QED
    BY <2>2, <2>3 DEF Otherwise, resultVars
<1>8. CASE UNCHANGED vars
  BY <1>8 DEF vars, localVars, resultVars, Otherwise
<1>9. QED
  BY <1>1, <1>2, <1>3, <1>4, <1>5, <1>6, <1>7, <1>8 DEF Next, Progress

\* What a reply adds to the supplies that are registered.
LEMMA ProcessAdds ==
  ASSUME discovered_targets \in Seq(KinetPowerSupply), NEW reply \in PollReply, Process(reply)
  PROVE  /\ Registered' = Registered
              \cup (IF reply.serial \in seen_serials \/ Pds(reply).label = NoLabel
                THEN {} ELSE {Pds(reply)})
         /\ seen_serials' = seen_serials \cup {reply.serial}
<1> DEFINE raw == discovered_targets
<1>1. CASE reply.serial \in seen_serials \/ Pds(reply).label = NoLabel
  BY <1>1 DEF Process, Registered
<1>2. CASE ~ (reply.serial \in seen_serials \/ Pds(reply).label = NoLabel)
  <2>1. discovered_targets' = Append(raw, Pds(reply))
        /\ seen_serials' = seen_serials \cup {reply.serial}
    BY <1>2 DEF Process
  <2>2. /\ DOMAIN Append(raw, Pds(reply)) = DOMAIN raw \cup {Len(raw) + 1}
        /\ \A i \in DOMAIN raw : Append(raw, Pds(reply))[i] = raw[i]
        /\ Append(raw, Pds(reply))[Len(raw) + 1] = Pds(reply)
    BY ListAppend DEF IsList
  <2> DEFINE pds == Pds(reply)
             all == Append(raw, pds)
  <2>3. {all[i] : i \in DOMAIN all} = {raw[i] : i \in DOMAIN raw} \cup {pds}
    <3> HIDE DEF pds, raw
    <3>1. QED
      BY <2>2 DEF pds
  <2>4. QED
    BY <1>2, <2>1, <2>3 DEF Registered
<1>3. QED
  BY <1>1, <1>2

\* What is registered or driven is what a supply said of itself in one reply
\* (discover_pds).
THEOREM HeardAsSentCorrect == Spec => []HeardAsSent
<1>1. Init => HeardAsSent
  BY DEF Init, HeardAsSent, Registered
<1>2. DiscoveryInv /\ HeardAsSent /\ [Next]_vars => HeardAsSent'
  <2>1. SUFFICES ASSUME DiscoveryInv, HeardAsSent, [Next]_vars
                 PROVE  HeardAsSent'
    OBVIOUS
  <2>2. Registered \subseteq Supplies /\ \A key \in DOMAIN targets : targets[key] \in Supplies
    BY <2>1 DEF HeardAsSent, Supplies
  <2>3. SUFFICES /\ Registered' \subseteq Supplies' /\ Supplies' = Supplies
                 /\ \A key \in DOMAIN targets' : targets'[key] \in Supplies'
    BY DEF HeardAsSent, Supplies
  <2>4. CASE Otherwise
    BY <2>2, <2>4 DEF Otherwise, Registered, Supplies
  <2>5. CASE /\ UNCHANGED <<targets, installation>>
             /\ \E reply \in installation : Process(reply)
    <3>1. PICK reply \in installation : Process(reply)
      BY <2>5
    <3>2. reply \in PollReply /\ discovered_targets \in Seq(KinetPowerSupply)
      BY <2>1, DiscoveryAssumption DEF DiscoveryInv, TypeOK
    <3>3. Registered' \subseteq Registered \cup {Pds(reply)}
      BY <3>1, <3>2, ProcessAdds
    <3>4. Pds(reply) \in Supplies
      BY DEF Supplies
    <3>5. Supplies' = Supplies
      BY <2>5 DEF Supplies
    <3>6. QED
      BY <2>2, <2>5, <3>3, <3>4, <3>5
  <2>6. CASE Start
    <3>1. Supplies' = Supplies /\ Registered' = {}
      BY <2>6 DEF Start, Supplies, Registered
    <3>2. targets' = Mapped(discovered_targets) \/ UNCHANGED targets
      BY <2>6 DEF Start, Fail, resultVars
    <3>3. discovered_targets \in Seq(KinetPowerSupply)
      BY <2>1 DEF DiscoveryInv, TypeOK
    <3>4. \A key \in DOMAIN Mapped(discovered_targets) :
            Mapped(discovered_targets)[key] \in Registered
      BY <3>3, MappedType DEF Registered
    <3>5. QED
      BY <2>2, <3>1, <3>2, <3>4
  <2>7. QED
    BY <2>1, <2>4, <2>5, <2>6, WaysToRegister
<1>3. Init => DiscoveryInv
  BY TypeInit
<1>4. DiscoveryInv /\ [Next]_vars => DiscoveryInv'
  BY TypeStep
<1>5. QED
  BY <1>1, <1>2, <1>3, <1>4, PTL DEF Spec
-----------------------------------------------------------------------------
(* Sound installations *)

\* In a sound installation every supply that was heard, and has a label, is
\* registered, until the loop is started or not.
SoundInv ==
  /\ phase # "failed" => error = "none"
  /\ phase # "running" => \A serial \in seen_serials : \E reply \in heard : reply.serial = serial
  /\ \A pds \in Registered : pds.label # NoLabel
  /\ phase \notin {"running", "failed"} /\ Sound(Supplies) =>
       \A reply \in heard : Pds(reply).label # NoLabel => Pds(reply) \in Registered

\* A sound installation, all of it heard, is mapped.
LEMMA SoundIsMapped ==
  ASSUME DiscoveryInv, SoundInv, HeardAsSent, phase = "map", Sound(Supplies), heard = installation
  PROVE  ~ Duplicates(discovered_targets) /\ ~ Missing(discovered_targets)
<1> DEFINE raw == discovered_targets
<1>1. \A i \in DOMAIN raw : raw[i] \in Registered /\ raw[i] \in Supplies /\ raw[i].label # NoLabel
  BY DEF Registered, HeardAsSent, Supplies, SoundInv
<1>2. \A p, q \in Supplies : p.label = q.label /\ p.label # NoLabel => p.src_ip = q.src_ip
  BY DEF Sound
<1>3. ~ Duplicates(raw)
  BY <1>1, <1>2 DEF Duplicates, Replaces
<1>4. ASSUME NEW key \in Expected
      PROVE  key \in Keys(raw)
  <2>1. PICK p \in Supplies : p.label = key
    BY DEF Sound
  <2>2. PICK reply \in heard : p = Pds(reply)
    BY DEF Supplies
  <2>3. key # NoLabel
    <3>1. PICK n \in 0 .. NumArcs - 1, kind \in Kind : key = <<n, kind>>
      BY DEF Expected
    <3>2. n # NotANumber
      BY DiscoveryAssumption DEF NotANumber
    <3>3. QED
      BY <3>1, <3>2 DEF NoLabel
  <2>4. p \in Registered
    BY <2>1, <2>2, <2>3 DEF SoundInv
  <2>5. QED
    BY <2>1, <2>4 DEF Registered, Keys
<1>5. QED
  BY <1>3, <1>4 DEF Missing

\* Every step keeps the supplies that were heard registered.
LEMMA SoundStep ==
  ASSUME DiscoveryInv, SoundInv, [Next]_vars
  PROVE  SoundInv'
<1>1. CASE Otherwise
  <2>1. Registered' = Registered /\ Supplies' = Supplies /\ heard' = heard
        /\ (phase' \notin {"running", "failed"} => phase \notin {"running", "failed"})
        /\ (phase' # "running" => phase # "running")
    BY <1>1 DEF Otherwise, Registered, Supplies
  <2>2. Sound(Supplies)' <=> Sound(Supplies)
    BY <2>1 DEF Sound
  <2>3. phase' # "failed" => error' = "none"
    BY <1>1 DEF Otherwise, SoundInv
  <2>4. phase' # "running" => \A serial \in seen_serials' : \E reply \in heard' :
          reply.serial = serial
    BY <1>1, <2>1 DEF Otherwise, SoundInv
  <2>5. QED
    BY <2>1, <2>2, <2>3, <2>4 DEF SoundInv
<1>2. CASE /\ phase = "listen"
           /\ UNCHANGED <<phase, targets, error, installation>>
           /\ \E reply \in installation : Process(reply) /\ heard' = heard \cup {reply}
  <2>1. PICK reply \in installation : Process(reply) /\ heard' = heard \cup {reply}
    BY <1>2
  <2>2. reply \in PollReply /\ discovered_targets \in Seq(KinetPowerSupply)
        /\ heard \subseteq installation
    BY DiscoveryAssumption DEF DiscoveryInv, TypeOK
  <2>3. /\ Registered' = Registered
            \cup (IF reply.serial \in seen_serials \/ Pds(reply).label = NoLabel
              THEN {} ELSE {Pds(reply)})
        /\ seen_serials' = seen_serials \cup {reply.serial}
    BY <2>1, <2>2, ProcessAdds
  <2>4. Supplies' = Supplies /\ phase' = phase /\ phase \notin {"running", "failed"}
        /\ error' = error
    BY <1>2 DEF Supplies
  <2>5. \A serial \in seen_serials' : \E r \in heard' : r.serial = serial
    BY <2>1, <2>3, <2>4 DEF SoundInv
  <2>6. \A pds \in Registered' : pds.label # NoLabel
    BY <2>3 DEF SoundInv
  <2>7. ASSUME Sound(Supplies), NEW r \in heard', Pds(r).label # NoLabel
        PROVE  Pds(r) \in Registered'
    <3>1. CASE r \in heard
      BY <2>3, <2>4, <2>7, <3>1 DEF SoundInv
    <3>2. CASE r \notin heard
      <4>1. r = reply
        BY <2>1, <2>7, <3>2
      <4>2. CASE reply.serial \notin seen_serials
        BY <2>3, <2>7, <4>1, <4>2
      <4>3. CASE reply.serial \in seen_serials
        <5>1. PICK other \in heard : other.serial = reply.serial
          BY <2>4, <4>3 DEF SoundInv
        <5>2. Pds(other).serial = Pds(reply).serial /\ Pds(other) \in Supplies
              /\ Pds(reply) \in Supplies
          BY <2>2, <5>1 DEF Pds, Supplies
        <5>3. Pds(other) = Pds(reply)
          BY <2>7, <5>2 DEF Sound
        <5>4. Pds(other) \in Registered
          BY <2>4, <2>7, <4>1, <5>1, <5>3 DEF SoundInv
        <5>5. QED
          BY <2>3, <4>1, <5>3, <5>4
      <4>4. QED
        BY <4>2, <4>3
    <3>3. QED
      BY <3>1, <3>2
  <2>8. Sound(Supplies)' <=> Sound(Supplies)
    BY <2>4 DEF Sound
  <2>9. QED
    BY <2>4, <2>5, <2>6, <2>7, <2>8 DEF SoundInv
<1>3. CASE Start
  <2>1. phase = "map" /\ Registered' = {} /\ phase' \in {"running", "failed"}
        /\ UNCHANGED seen_serials
    BY <1>3 DEF Start, Fail, Registered, localVars
  <2>2. (phase' = "running" /\ UNCHANGED error) \/ (phase' = "failed" /\ UNCHANGED heard)
    BY <1>3 DEF Start, Fail
  <2>3. phase' # "failed" => error' = "none"
    BY <2>1, <2>2 DEF SoundInv
  <2>4. phase' # "running" => \A serial \in seen_serials' : \E r \in heard' : r.serial = serial
    BY <2>1, <2>2 DEF SoundInv
  <2>5. QED
    BY <2>1, <2>3, <2>4 DEF SoundInv
<1>4. QED
  BY <1>1, <1>2, <1>3, WaysToRegister

\* A stage whose supplies are all heard, in any order and however often, and are
\* as they should be starts (map_and_validate_targets).
THEOREM SoundStageCorrect == Spec => []SoundStageStarts
<1>1. Init => SoundInv /\ SoundStageStarts
  BY DEF Init, SoundInv, SoundStageStarts, Registered
<1>2. DiscoveryInv /\ SoundInv /\ HeardAsSent /\ SoundStageStarts /\ [Next]_vars
        => SoundStageStarts'
  <2>1. SUFFICES ASSUME DiscoveryInv, SoundInv, HeardAsSent, SoundStageStarts, [Next]_vars
                 PROVE  SoundStageStarts'
    OBVIOUS
  <2>2. CASE Otherwise
    <3>1. Supplies' = Supplies /\ heard' = heard /\ installation' = installation
          /\ error' \in {"none", "gpio", "interface", "socket", error}
      BY <2>2 DEF Otherwise, Supplies
    <3>2. Sound(Supplies)' <=> Sound(Supplies)
      BY <3>1 DEF Sound
    <3>3. QED
      BY <2>1, <3>1, <3>2 DEF SoundStageStarts, Supplies
  <2>3. CASE phase = "listen" /\ UNCHANGED error
    BY <2>1, <2>3 DEF SoundInv, SoundStageStarts
  <2>4. CASE Start
    <3>1. phase = "map" /\ installation' = installation
      BY <2>4 DEF Start
    <3>2. SUFFICES ASSUME Sound(Supplies), heard' = installation,
                          error' \in {"duplicates", "missing"}
                   PROVE  FALSE
      <4>1. Supplies' = Supplies
        BY <3>1 DEF Supplies
      <4>2. Sound(Supplies)' <=> Sound(Supplies)
        BY <4>1 DEF Sound
      <4>3. QED
        BY <3>1, <3>2, <4>2 DEF SoundStageStarts, Supplies
    <3>3. error = "none"
      BY <2>1, <3>1 DEF SoundInv
    <3>4. UNCHANGED heard /\ (Duplicates(discovered_targets) \/ Missing(discovered_targets))
      BY <2>4, <3>2, <3>3 DEF Start, Fail
    <3>5. QED
      BY <2>1, <3>1, <3>2, <3>4, SoundIsMapped
  <2>5. QED
    BY <2>1, <2>2, <2>3, <2>4, WaysToRegister
<1>3. DiscoveryInv /\ SoundInv /\ [Next]_vars => SoundInv'
  BY SoundStep
<1>4. Init => DiscoveryInv
  BY TypeInit
<1>5. DiscoveryInv /\ [Next]_vars => DiscoveryInv'
  BY TypeStep
<1>6. QED
  BY <1>1, <1>2, <1>3, <1>4, <1>5, HeardAsSentCorrect, PTL DEF Spec
=============================================================================
