------------------------------ MODULE MCNotes -------------------------------
(***************************************************************************)
(* What makes the notes and what sounds them: the nodes that detect notes  *)
(* in a frame, those that remember frames, and the synthesizer, with three *)
(* keys for two voices so that every new note may have to steal one.  A    *)
(* behaviour is of one of the three.                                       *)
(***************************************************************************)
EXTENDS DebugSynth, TLC

\* Ranges and velocities that contradict each other are among the settings.
MCSettings ==
  [node : {"histogram", "grid", "contours", "bands", "motion"}, scale : {"major", "custom"},
   custom : {{0, 1}}, root : {10}, low : {60}, high : {59, 60, 64}, softest : {1, 5},
   loudest : {4, 127}, polyphony : {1, 2}, threshold : {0, 1, 4}]
MCFrames == UNION {[1 .. n -> {0, 1, 3, 4}] : n \in 0 .. 2} \cup [1 .. 3 -> {0, 3, 4}]

MCShapes == "int" :> 1 @@ "small" :> 3 @@ "large" :> 4
MCNodes == [kind : {"hold", "buffer"}, length : {1, 2}, limit : {6, 8}]
             \cup [kind : {"posterize", "modulo", "scanline"}, length : {0}, limit : {0}]
Live(steps, wholes, directions) == [step : steps, whole : wholes, direction : directions]
MCLives ==
  [hold |-> Live({1}, {TRUE}, {""}), buffer |-> Live({1}, {TRUE}, {""}),
   posterize |-> Live({1, 2, 3}, {TRUE}, {""}), modulo |-> Live({2, 5}, BOOLEAN, {""}),
   scanline |-> Live({3}, {TRUE}, {"TOP_TO_BOTTOM", "BOTTOM_TO_TOP", "PING_PONG"})]

VARIABLE part     \* the component that this behaviour is of

VARIABLES
  m_settings, m_measured, m_notes, m_count

m_vars == <<
  m_settings, m_measured, m_notes, m_count>>

M == INSTANCE Musical WITH
  Unit <- 4, Settings <- MCSettings, Frames <- MCFrames, MaxFrames <- 1,
  settings <- m_settings, measured <- m_measured, notes <- m_notes, count <- m_count

VARIABLES
  n_node, n_memory, n_output, n_taken, n_frames

n_vars == <<
  n_node, n_memory, n_output, n_taken, n_frames>>

N == INSTANCE NodeMemory WITH
  Shapes <- MCShapes, Nodes <- MCNodes, Lives <- MCLives, MaxFrames <- 4,
  node <- n_node, memory <- n_memory, output <- n_output, taken <- n_taken,
  frames <- n_frames

parts == <<part, vars, m_vars, n_vars>>

PartsInit ==
  /\ part \in {"synth", "music", "memory"}
  /\ Init
  /\ M!Init
     /\ (part # "music" => m_settings = CHOOSE s \in MCSettings : TRUE)
  /\ N!Init
     /\ (part # "memory" => n_node = CHOOSE n \in MCNodes : TRUE)

PartsNext ==
  \/ part = "synth" /\ Next /\ UNCHANGED <<part, m_vars, n_vars>>
  \/ part = "music" /\ M!Next /\ UNCHANGED <<part, vars, n_vars>>
  \/ part = "memory" /\ N!Next /\ UNCHANGED <<part, vars, m_vars>>

PartsSpec ==
  /\ PartsInit /\ [][PartsNext]_parts
  /\ WF_vars(part = "synth" /\ Callback)

-----------------------------------------------------------------------------
(* Properties of the components, under their names.                        *)

\* The notes that sound are the strongest candidates, of the scale and within
\* range, as many as the polyphony allows (select_midi_notes).
NotesAreStrongest == M!NotesAreStrongest

\* A runtime that remembers frames answers with exactly the frame, the frames,
\* the total or the row that its node promises.
MemoryIsExact == N!MemoryIsExact
=============================================================================
