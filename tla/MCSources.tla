----------------------------- MODULE MCSources ------------------------------
(***************************************************************************)
(* What frames come from and where an export takes them: a video with a    *)
(* region of three frames, a queue of one and a head of one; a camera; the *)
(* export of a graph with two videos of two frames; and the file that is   *)
(* made of three ticks of two videos.  A behaviour is of one of the four.  *)
(***************************************************************************)
EXTENDS VideoSource, CameraSource

MCGraph == <<[kind |-> "load_video", id |-> 1], [kind |-> "plain", id |-> 2],
             [kind |-> "send_midi", id |-> 3], [kind |-> "load_video", id |-> 4]>>

VARIABLE part     \* the component that this behaviour is of

VARIABLES
  e_media, e_silence, e_pc, e_stop, e_state, e_presented, e_mail, e_ticking, e_samples,
  e_expected, e_file, e_signal, e_overlay, e_open, e_faults, e_exports

e_vars == <<
  e_media, e_silence, e_pc, e_stop, e_state, e_presented, e_mail, e_ticking, e_samples,
  e_expected, e_file, e_signal, e_overlay, e_open, e_faults, e_exports>>

E == INSTANCE MidiExport WITH
  Graph <- MCGraph, Frames <- 2, Silences <- {1000000, 400000000}, MaxFaults <- 1,
  MaxExports <- 2, media <- e_media, silence <- e_silence, pc <- e_pc, stop <- e_stop,
  state <- e_state, presented <- e_presented, mail <- e_mail, ticking <- e_ticking,
  samples <- e_samples, expected <- e_expected, file <- e_file, signal <- e_signal,
  overlay <- e_overlay, open <- e_open, faults <- e_faults, exports <- e_exports

VARIABLES
  r_entries, r_clock, r_regionEnd

r_vars == <<
  r_entries, r_clock, r_regionEnd>>

R == INSTANCE MidiRendering WITH
  Gaps <- {61, 92, 100100, 5031649, 91602196}, Chords <- {{}, {0}, {0, 1}},
  Tails <- {0, 50000, 50331649}, MaxTicks <- 3, entries <- r_entries,
  clock <- r_clock, regionEnd <- r_regionEnd

parts == <<part, vars, cameraVars, e_vars, r_vars>>

PartsInit ==
  /\ part \in {"video", "camera", "export", "rendering"}
  /\ Init /\ (part # "video" => ~loop)
  /\ CameraInit /\ (part # "camera" => ~reconnects)
  /\ E!Init
     /\ (part # "export" => e_silence = 1000000 /\ \A v \in DOMAIN e_media : e_media[v] = "ok")
  /\ R!Init

PartsNext ==
  \/ part = "video" /\ Next /\ UNCHANGED <<part, cameraVars, e_vars, r_vars>>
  \/ part = "camera" /\ CameraNext /\ UNCHANGED <<part, vars, e_vars, r_vars>>
  \/ part = "export" /\ E!Next /\ UNCHANGED <<part, vars, cameraVars, r_vars>>
  \/ part = "rendering" /\ R!Next /\ UNCHANGED <<part, vars, cameraVars, e_vars>>

PartsSpec ==
  /\ PartsInit /\ [][PartsNext]_parts
  /\ WF_vars(part = "video" /\ Decode)
  /\ WF_vars(part = "video" /\ StageHead)
  /\ WF_vars(part = "video" /\ Present)
  /\ WF_vars(part = "video" /\ Return)

-----------------------------------------------------------------------------
(* Properties of the components, under their names.                        *)

\* A file that is announced is complete and holds the ticks of every frame, and
\* whatever the intervals between them, a sequencer plays every note at its video
\* time.
ExportIsExact == E!FileIsWhole /\ R!IntervalsAreExact

\* ADR-0016: "The UI shows a small progress bar over a dimmed, locked window
\* while the export runs".
OverlayWhileRunning == E!OverlayWhileRunning
=============================================================================
