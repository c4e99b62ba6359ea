------------------------------ MODULE MCStageApi ------------------------------
(***************************************************************************)
(* Two clients, a stage of one light and a directory with room for two     *)
(* sequences, of which one asks for a rate the stage refuses.  Clients     *)
(* name arcs and lights that exist and the first ones that do not.         *)
(***************************************************************************)
EXTENDS StageApi, TLC

CONSTANTS i, j, h1, h2, None, NaN

MCHandler == {h1, h2}
MCSymmetry == Permutations(MCHandler)

MCLevel == {Off, Full}
MCDemoPattern == {Dark}
MCRate == {10, 11}

LightOff == [rgb |-> <<>>, white |-> << <<Off>> >>]
Slow == [capture_hz |-> 10, frames |-> <<LightOff>>]
TooFast == [capture_hz |-> 11, frames |-> <<LightOff>>]
MCLibrary == {Slow, TooFast}

\* The directory may hold a sequence in the form that is no longer written.
Empty == [id \in Id |-> [zst |-> Absent, cbor |-> Absent]]
MCInitialFiles == {[Empty EXCEPT ![i]["cbor"] = Slow]}

\* Which light is lit is MCStage's subject.
MCColourRequest == {[rgb |-> Keep, white |-> Off]}
MCIndex == {0, 1}
MCUpdate(arc, light) == [arc |-> arc, light |-> light, colour |-> [rgb |-> Keep, white |-> Off]]
MCRawBatch == {<<MCUpdate(0, 0)>>, <<MCUpdate(0, 0), MCUpdate(0, 1)>>}
MCNothing == {}
=============================================================================
