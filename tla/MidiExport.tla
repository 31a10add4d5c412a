----------------------------- MODULE MidiExport -----------------------------
(***************************************************************************)
(* The offline MIDI export: run_midi_export on a thread of its own          *)
(* (runtime/midi_export.py), the transient engine it drives at the speed of *)
(* the decoder, and the job with its overlay and its two answers            *)
(* (ui/midi_export.py, main_window.py).                                     *)
(*                                                                          *)
(* A node is [kind, id]; a frame is <<source, number>>.  What the notes are *)
(* does not matter here but for the longest time without one, which the     *)
(* encoding has to span.                                                    *)
(***************************************************************************)
EXTENDS StandardMidiFile

CONSTANTS Graph,      \* the nodes of the document, in order
          Frames,     \* frames of every video
          Silences,   \* the longest interval without an event, in microseconds
          MaxFaults,  \* bound on failures and timeouts
          MaxExports  \* bound on exports

VARIABLES
  media,      \* the file of each video: "ok", "missing" or "corrupt"
  silence,    \* of the notes of this export
  pc,         \* where the worker of the job is
  stop,       \* _stop_event
  state,      \* SourceState of each source
  presented,  \* frames each source has presented: processed_index
  mail,       \* the waiting frame of each source, 0 if none
  ticking,    \* the frame that is executed
  samples,    \* the frames that were observed
  expected,   \* expected_ticks
  file,       \* "none", "partial" or "whole"
  signal,     \* the answer that is queued for the window
  overlay,    \* the job exists and its overlay is shown
  open,       \* the window is open
  faults, exports

engine == <<state, presented, mail, ticking, samples>>
vars == <<media, silence, pc, stop, engine, expected, file, signal, overlay, open, faults, exports>>

-----------------------------------------------------------------------------
(* _scan_export_nodes.                                                      *)

OutputKinds == {"send_midi", "generate_audio"}
SourceKinds == {"load_video", "load_camera", "other_source"}

Videos == {Graph[i].id : i \in {j \in DOMAIN Graph : Graph[j].kind = "load_video"}}
Outputs == {i \in DOMAIN Graph : Graph[i].kind \in OutputKinds}
SawSource == \E i \in DOMAIN Graph : Graph[i].kind \in SourceKinds

Problem(node) ==
  CASE node.kind = "load_camera" -> "camera_source"
    [] node.kind = "other_source" -> "unsupported_source"
    [] node.kind = "load_video" /\ media[node.id] = "missing" -> "missing_media"
    [] node.kind = "load_video" /\ media[node.id] = "corrupt" -> "unexpected"
    [] OTHER -> "none"

\* A problem is kept and the scan goes on; a file that cannot be probed raises
\* at its node.
FirstProblem ==
  LET problems == SelectSeq([i \in DOMAIN Graph |-> Problem(Graph[i])], LAMBDA p : p # "none")
  IN CASE problems = <<>> -> "none"
       [] Contains(problems, "unexpected") -> "unexpected"
       [] OTHER -> Head(problems)

\* midi_export_eligibility, which the menu shows and export_midi asks.
Ineligible ==
  CASE FirstProblem = "unexpected" -> "unexpected"
    [] ~SawSource -> "no_source"
    [] FirstProblem # "none" -> FirstProblem
    [] Outputs = {} -> "no_midi_output"
    [] OTHER -> "none"

\* _validate_export_inputs
Invalid ==
  CASE FirstProblem # "none" -> FirstProblem
    [] ~SawSource -> "no_source"
    [] Outputs = {} -> "no_midi_output"
    [] OTHER -> "none"

-----------------------------------------------------------------------------
Idle == [v \in Videos |-> "READY"]
Nothing == [v \in Videos |-> 0]
AllFrames == Videos \X (1 .. Frames)

Init ==
  /\ media \in [Videos -> {"ok", "missing", "corrupt"}]
  /\ silence \in Silences
  /\ pc = "none" /\ stop = FALSE
  /\ state = Idle /\ presented = Nothing /\ mail = Nothing /\ ticking = <<>> /\ samples = {}
  /\ expected = 0 /\ file = "none" /\ signal = "none" /\ overlay = FALSE /\ open = TRUE
  /\ faults = 0 /\ exports = 0

Fault == faults < MaxFaults /\ faults' = faults + 1

\* The file is moved, or put back, while a dialog is open or an export starts.
MediaChange(v) ==
  /\ pc \in {"none", "validate"}
  /\ Fault
  /\ \E m \in {"ok", "missing"} : media' = [media EXCEPT ![v] = m]
  /\ UNCHANGED <<silence, pc, stop, engine, expected, file, signal, overlay, open, exports>>

-----------------------------------------------------------------------------
(* The window.                                                              *)

\* export_midi: one job at a time, each with an engine of its own.
Export ==
  /\ open /\ ~overlay /\ signal = "none" /\ exports < MaxExports
  /\ Ineligible = "none"
  /\ overlay' = TRUE /\ stop' = FALSE /\ pc' = "validate" /\ exports' = exports + 1
  /\ state' = Idle /\ presented' = Nothing /\ mail' = Nothing /\ ticking' = <<>> /\ samples' = {}
  /\ file' = "none" /\ silence' \in Silences
  /\ UNCHANGED <<media, expected, signal, open, faults>>

Cancel ==
  /\ open /\ overlay /\ ~stop
  /\ stop' = TRUE
  /\ UNCHANGED <<media, silence, pc, engine, expected, file, signal, overlay, open, faults, exports>>

\* _on_midi_export_completed and _on_midi_export_failed
Receive ==
  /\ open /\ signal # "none"
  /\ signal' = "none" /\ overlay' = FALSE
  /\ UNCHANGED <<media, silence, pc, stop, engine, expected, file, open, faults, exports>>

\* closeEvent: the job is cancelled and joined for five seconds at most.
WindowClose ==
  /\ open
  /\ open' = FALSE /\ overlay' = FALSE /\ stop' = (stop \/ overlay)
  /\ UNCHANGED <<media, silence, pc, engine, expected, file, signal, faults, exports>>

\* The process ends, and a worker that outlived the join with it.
Exit ==
  /\ ~open /\ pc \notin {"none", "killed"}
  /\ pc' = "killed"
  /\ UNCHANGED <<media, silence, stop, engine, expected, file, signal, overlay, open, faults, exports>>

-----------------------------------------------------------------------------
(* The worker.  Whatever happens in run_midi_export closes the engine and is *)
(* answered.                                                                *)

Answer(code) == pc' = "ended" /\ signal' = code /\ ticking' = <<>> /\ mail' = Nothing
                  /\ state' = [v \in Videos |-> "CLOSED"]

Validate ==
  /\ pc = "validate"
  /\ \/ /\ Invalid = "none" /\ pc' = "activate" /\ UNCHANGED <<engine, signal>>
     \/ /\ Invalid # "none" /\ Answer(Invalid) /\ UNCHANGED <<presented, samples>>
  /\ UNCHANGED <<media, silence, stop, expected, file, overlay, open, faults, exports>>

Activate ==
  /\ pc = "activate"
  /\ \/ /\ state' = [v \in Videos |-> "PLAYING"] /\ pc' = "poll"
        /\ UNCHANGED <<presented, mail, ticking, samples, signal, faults>>
     \/ /\ Fault /\ Answer("activation_failed") /\ UNCHANGED <<presented, samples>>
  /\ UNCHANGED <<media, silence, stop, expected, file, overlay, open, exports>>

Finished == \A v \in Videos : state[v] \in {"ENDED", "STOPPED"}
Processed == FoldSet(LAMBDA v, sum : presented[v] + sum, 0, Videos)

\* One look at the event, the clock and every source.
Poll ==
  /\ pc = "poll"
  /\ \/ /\ stop /\ Answer("cancelled") /\ UNCHANGED <<expected, faults>>
     \/ /\ ~stop /\ Fault /\ Answer("timeout") /\ UNCHANGED expected
     \/ /\ ~stop /\ \E v \in Videos : state[v] = "ERROR"
        /\ Answer("source_error") /\ UNCHANGED <<expected, faults>>
     \/ /\ ~stop /\ Finished
        /\ pc' = "drain" /\ expected' = Processed
        /\ UNCHANGED <<state, mail, ticking, signal, faults>>
  /\ UNCHANGED <<media, silence, stop, presented, samples, file, overlay, open, exports>>

\* wait_until_idle(10.0)
Drain ==
  /\ pc = "drain"
  /\ \/ /\ mail = Nothing /\ ticking = <<>> /\ pc' = "verify"
        /\ UNCHANGED <<state, mail, ticking, signal, faults>>
     \/ /\ Fault /\ Answer("timeout")
  /\ UNCHANGED <<media, silence, stop, presented, samples, expected, file, overlay, open, exports>>

\* Mutant of Verify: what was observed is taken as complete.
VerifyNothing ==
  /\ pc = "verify"
  /\ pc' = "encode" /\ state' = [v \in Videos |-> "CLOSED"]
  /\ UNCHANGED <<mail, ticking, signal>>
  /\ UNCHANGED <<media, silence, stop, presented, samples, expected, file, overlay, open, faults, exports>>

Verify ==
  /\ pc = "verify"
  /\ \/ /\ Cardinality(samples) = expected
        /\ pc' = "encode" /\ state' = [v \in Videos |-> "CLOSED"]
        /\ UNCHANGED <<mail, ticking, signal>>
     \/ /\ Cardinality(samples) # expected /\ Answer("observation_failed")
  /\ UNCHANGED <<media, silence, stop, presented, samples, expected, file, overlay, open, faults, exports>>

\* to_standard_midi_file.  An exception other than OSError ends the thread.
EncodeFile ==
  /\ pc = "encode"
  /\ pc' = IF Encodable(WriteInterval(Scale * silence)) THEN "write" ELSE "ended"
  /\ UNCHANGED <<media, silence, stop, engine, expected, file, signal, overlay, open, faults, exports>>

\* write_bytes truncates before it writes.
Write ==
  /\ pc = "write"
  /\ \/ /\ file = "none" /\ file' = "partial" /\ UNCHANGED <<pc, signal, faults>>
     \/ /\ file = "partial" /\ file' = "whole" /\ pc' = "ended" /\ signal' = "completed"
        /\ UNCHANGED faults
     \/ /\ Fault /\ pc' = "ended" /\ signal' = "save_failed" /\ UNCHANGED file
  /\ UNCHANGED <<media, silence, stop, engine, expected, overlay, open, exports>>

-----------------------------------------------------------------------------
(* The transient engine.  Its clock jumps to every deadline, so a source     *)
(* presents as fast as it decodes; the graph worker keeps the newest frame.  *)

\* The source reports ENDED when its last frame is published.
Present(v) ==
  /\ state[v] = "PLAYING" /\ presented[v] < Frames
  /\ presented' = [presented EXCEPT ![v] = @ + 1]
  /\ mail' = [mail EXCEPT ![v] = presented[v] + 1]
  /\ state' = [state EXCEPT ![v] = IF presented[v] + 1 = Frames THEN "ENDED" ELSE @]
  /\ UNCHANGED <<media, silence, pc, stop, ticking, samples, expected, file, signal, overlay, open,
                 faults, exports>>

SourceFails(v) ==
  /\ state[v] = "PLAYING" /\ Fault
  /\ state' = [state EXCEPT ![v] = "ERROR"]
  /\ UNCHANGED <<media, silence, pc, stop, presented, mail, ticking, samples, expected, file, signal,
                 overlay, open, exports>>

Take(v) ==
  /\ ticking = <<>> /\ mail[v] # 0
  /\ ticking' = <<v, mail[v]>> /\ mail' = [mail EXCEPT ![v] = 0]
  /\ UNCHANGED <<media, silence, pc, stop, state, presented, samples, expected, file, signal, overlay,
                 open, faults, exports>>

\* The tick and its observer, whose exception the engine only logs.
Tick ==
  /\ ticking # <<>>
  /\ ticking' = <<>>
  /\ \/ samples' = samples \cup {ticking} /\ UNCHANGED faults
     \/ Fault /\ UNCHANGED samples
  /\ UNCHANGED <<media, silence, pc, stop, state, presented, mail, expected, file, signal, overlay,
                 open, exports>>

Next ==
  \/ Export \/ Cancel \/ Receive \/ WindowClose \/ Exit
  \/ Validate \/ Activate \/ Poll \/ Drain \/ Verify \/ EncodeFile \/ Write
  \/ \E v \in Videos : MediaChange(v) \/ Present(v) \/ SourceFails(v) \/ Take(v)
  \/ Tick

Spec == Init /\ [][Next]_vars

-----------------------------------------------------------------------------
(* Properties.                                                              *)

\* A file that is announced is complete and holds the ticks of every frame
\* (run_midi_export): none was replaced in the mailbox of the graph worker,
\* lost by the observer or still executing when the samples were collected.
FileIsWhole ==
  signal = "completed" => file = "whole" /\ samples = AllFrames

\* ADR-0016: "The UI shows a small progress bar over a dimmed, locked window
\* while the export runs" (docs/adr/0016-offline-midi-export.md): when the
\* overlay is shown the worker runs or its answer is on its way.  It does not
\* hold: see EncodeFile.
OverlayWhileRunning ==
  overlay => pc \in {"validate", "activate", "poll", "drain", "verify", "encode", "write"}
               \/ signal # "none"

=============================================================================
