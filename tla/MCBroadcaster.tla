---------------------------- MODULE MCBroadcaster ----------------------------
(***************************************************************************)
(* One arc of two lights, hence two universes, and installations that are  *)
(* complete, have a supply too many, one without a label, two that claim   *)
(* the same label or the same address, or one that is relabelled while it  *)
(* is looked for.                                                          *)
(***************************************************************************)
EXTENDS Broadcaster

CONSTANTS arc0C, arc0W, arc1C, arc1W, spare, name

\* "Arc 0C" and so on; "spare 0" has no suffix.
MCWords ==
  LET w(number, suffix) == [number |-> number, suffix |-> suffix]
      arc == w(NotANumber, "other")
  IN  [text \in Text |->
         CASE text = arc0C -> <<arc, w(0, "C")>>
           [] text = arc0W -> <<arc, w(0, "W")>>
           [] text = arc1C -> <<arc, w(1, "C")>>
           [] text = arc1W -> <<arc, w(1, "W")>>
           [] text = spare -> <<arc, w(0, "other")>>
           [] text = name -> <<arc>>]

\* The host has the stage's network on its second interface, or not at all.
MCInterfaces == {<<<<192, 168, 0, 2>>, <<10, 0, 0, 2>>>>, <<<<192, 168, 0, 2>>>>}

Reply(n, ip, label) ==
  [sequence |-> U32(0), src_ip |-> <<10, 0, 0, ip>>, mac |-> <<0, 1, 2, 3, 4, n>>,
   data |-> <<0, 1>>, serial |-> <<32, 1, 0, n>>,
   node_name |-> TextField(name, 60), node_label |-> label]
Supply(n, text) == Reply(n, 10 + n, TextField(text, 33))

Coloured == Supply(1, arc0C)
White == Supply(2, arc0W)
Spare == Supply(3, arc1C)             \* of an arc the stage does not have
Unlabelled == Supply(4, spare)
Unended == Reply(4, 14, [i \in 1 .. 33 |-> arc0W])   \* a label without an end
Rival == Supply(5, arc0W)
SameAddress == Reply(5, 12, TextField(arc0W, 33))
Squatter == Reply(5, 11, TextField(arc0W, 33))       \* at the address of supply 1
Relabelled == Supply(2, arc1W)        \* supply 2 before it got its label
Mislabelled == Supply(2, arc0C)       \* supply 2 with the label of supply 1

MCInstallations == {
  {Coloured, White, Spare, Unended},
  {Coloured, White, Rival},
  {Coloured, White, SameAddress},
  {Coloured, Squatter},
  {Coloured, White, Relabelled, Spare},
  {Mislabelled, White, Unlabelled} }

\* A heartbeat, and a reply that breaks off behind the serial number.
MCNoise == {
  WriteTo("HeartBeat", [sequence |-> U32(0), src_ip |-> <<10, 0, 0, 13>>,
                        mac |-> <<0, 1, 2, 3, 4, 3>>, data16 |-> <<0, 1>>,
                        serial |-> <<32, 1, 0, 3>>, data32 |-> <<0, 3, 0, 1>>]),
  SubSeq(WriteTo("PollReply", Spare), 1, 40) }

\* Every octet of a look differs from the one before it.
Lit(first) ==
  [k \in Kind |-> [a \in Arc |-> [l \in Light |-> [i \in 1 .. 3 |->
     LET n == first + 8 * l + 2 * i + (IF k = "rgb" THEN 0 ELSE 40) + 80 * a
     IN  256 * n + n + 1]]]]
MCLook == {Unlit, Lit(1)}
=============================================================================
