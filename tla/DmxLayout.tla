------------------------------ MODULE DmxLayout ------------------------------
(***************************************************************************)
(* Fixtures in a DMX universe (lsserver/src/fixtures.rs), the addresses    *)
(* main gives them and what Renderer::update writes for them               *)
(* (lsserver/src/renderer.rs), octet by octet.                             *)
(*                                                                         *)
(* RgbFixture<u16> and WhiteFixture<u16> differ in the names of their      *)
(* three channels only: a colour is a triple of 16-bit values.             *)
(***************************************************************************)
EXTENDS Integers, SequencesExt

CONSTANTS
  UniverseSize,   \* channels of a universe, 512, each with an address of 16 bits
  LightsPerArc    \* ServerConfig::lights_per_arc

Light == 0 .. LightsPerArc - 1
Colour == [1 .. 3 -> 0 .. 65535]
CHANNELS == 3 * 2   \* three values of two channels

Index(address) == address - 1

\* DmxAddress::new and RgbFixture::new do not return None.
Fits(address) ==
  /\ address \in 1 .. UniverseSize
  /\ Index(address) + CHANNELS <= UniverseSize

\* The 16 bits of a fixture's number that main keeps.
BaseAddress(light) == (light * 6 + 1) % 65536

\* main unwraps each address and fixture, so a stage whose lights do not fit
\* its universes does not start.
ASSUME LayoutAssumption ==
  /\ UniverseSize \in 0 .. 65535 /\ LightsPerArc \in Nat
  /\ \A light \in Light : Fits(BaseAddress(light))

\* Octets in the order of the rest of the protocol.
ToLeBytes(value) == <<value % 256, value \div 256>>

\* u16::write_to
ToBytes(value) == <<value \div 256, value % 256>>

Black == [channel \in 1 .. UniverseSize |-> 0]

\* write_to_universe: three values after each other, the rest stays.
WriteToUniverse(address, colour, universe) ==
  LET octets == FlattenSeq([i \in 1 .. 3 |-> ToBytes(colour[i])])
  IN  [channel \in DOMAIN universe |->
         IF channel - address \in 0 .. CHANNELS - 1
           THEN octets[channel - address + 1] ELSE universe[channel]]

\* Renderer::update of one universe, which is not cleared first.
Update(lights, universe) ==
  FoldLeft(LAMBDA u, light : WriteToUniverse(BaseAddress(light), lights[light], u),
           universe, [i \in 1 .. LightsPerArc |-> i - 1])
=============================================================================
