----------------------------- MODULE MCOutputs ------------------------------
(***************************************************************************)
(* Where notes go: a MIDI output with two keys on two channels and two     *)
(* ports that share one display name, so that a saved name may turn        *)
(* ambiguous; and the service that opens and replaces a synthesizer, with  *)
(* two configurations and a note on or off.  A behaviour is of one of the  *)
(* two.                                                                    *)
(***************************************************************************)
EXTENDS MidiOutput, AudioOutput, TLC

CONSTANTS k1, k2, p1, p2, c1, c2

MCKeys == {k1, k2}
MCChannelOf == (k1 :> 0) @@ (k2 :> 1)
MCNameOf == (p1 :> "synth") @@ (p2 :> "synth")

\* A chord for a port chosen by its name, a louder note for the other port, and
\* a state for no port.
MCFrames ==
  {[notes |-> (k1 :> 64) @@ (k2 :> 60), port |-> "synth", policy |-> "Repeat", threshold |-> 4],
   [notes |-> (k2 :> 64), port |-> p2, policy |-> "Retrigger", threshold |-> 4],
   [notes |-> (k1 :> 60), port |-> NoSelection, policy |-> "Ignore", threshold |-> 4]}
MCDeviceSets == {{p1}, {p1, p2}}

VARIABLE part     \* the component that this behaviour is of

parts == <<part, midiVars, vars>>

PartsInit ==
  /\ part \in {"midi", "audio"}
  /\ MidiInit
  /\ Init

PartsNext ==
  \/ part = "midi" /\ MidiNext /\ UNCHANGED <<part, vars>>
  \/ part = "audio" /\ Next /\ UNCHANGED <<part, midiVars>>

PartsSpec ==
  /\ PartsInit /\ [][PartsNext]_parts
  /\ WF_midiVars(part = "midi" /\ SenderNext)
  /\ WF_midiVars(part = "midi" /\ (PublishCheck \/ PublishDeposit \/ RequestPanic))

=============================================================================
