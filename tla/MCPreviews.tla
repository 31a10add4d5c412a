----------------------------- MODULE MCPreviews -----------------------------
(***************************************************************************)
(* What the window shows.  The shared memory of an image, with two payload *)
(* cells, the least that can differ; the handshake that sets it up, with   *)
(* two formats so that a preview changes its size and back, and two        *)
(* revisions; the broker of all previews with two plans and three swaps;   *)
(* the surfaces with the editors of two nodes; the region of a video that  *)
(* is looped; and two nodes with a group dragged on the canvas.  A         *)
(* behaviour is of one of these.                                           *)
(***************************************************************************)
EXTENDS PreviewSlot, LoopRange, TLC

CONSTANTS c1, c2, f1, f2, r1, r2, Nil

MCCells == {c1, c2}

K == INSTANCE Catalogue
C == INSTANCE Compiler WITH Registry <- K!BuiltinRegistry

\* A graph of built-in nodes, compiled; an edge is <<source, output, destination,
\* input>>.
Graph(types, literals, edges) ==
  [nodes |-> [n \in DOMAIN types |-> C!Node(types[n], literals[n])],
   conns |-> [c \in DOMAIN edges |->
                C!Connection(edges[c][1], <<edges[c][2], 0>>, edges[c][3], <<edges[c][4], 0>>)]]
Plain(types) == [n \in DOMAIN types |-> <<>>]

\* The plans as the broker reads them: a video that is displayed and whose frame
\* number is rounded, and a video whose edges play.
Seen(type, demanded, inputs, outputs) ==
  [type |-> type, demanded |-> demanded, inputs |-> inputs, outputs |-> outputs]
Video == Seen("load_video", TRUE, {}, [image |-> "IMAGE", processed_index |-> "INT"])
MCPlans ==
  <<<<Video, Seen("display_image_data", TRUE, {<<1, "image">>}, <<>>),
      Seen("float_to_integer", FALSE, {<<1, "processed_index">>}, [value |-> "INT"])>>,
    <<Video, Seen("to_luminance", TRUE, {<<1, "image">>}, [channel |-> "CHANNEL"]),
      Seen("edges_to_pitch", TRUE, {<<2, "channel">>}, [midi |-> "MIDI_STATE"]),
      Seen("note_visualizer", TRUE, {<<3, "midi">>}, <<>>)>>>>

OfBroker(plan) ==
  [n \in DOMAIN plan.nodes |->
     Seen(plan.nodes[n].type, plan.nodes[n].demanded,
          {<<b.src, b.out[1]>> : b \in C!Range(plan.nodes[n].bindings)}, plan.nodes[n].outputs)]
Broadcast(types, edges) == OfBroker(C!Compile(Graph(types, Plain(types), edges), C!NoRequest))

\* They are what the compiler makes of these graphs.
ASSUME PlansAreCompiled ==
  MCPlans =
    <<Broadcast(<<"load_video", "display_image_data", "float_to_integer">>,
        <<<<1, "image", 2, "image">>, <<1, "processed_index", 3, "value">>>>),
      Broadcast(<<"load_video", "to_luminance", "edges_to_pitch", "note_visualizer">>,
        <<<<1, "image", 2, "image">>, <<2, "channel", 3, "edges">>, <<3, "midi", 4, "midi">>>>)>>

VARIABLE part     \* the component that this behaviour is of

VARIABLES
  h_activations, h_requested, h_revision, h_confirmed, h_ui, h_uiReply, h_event,
  h_step, h_slotReply, h_owned, h_created, h_commands, h_events, h_memory,
  h_engineGraph, h_childRevision, h_dispatching, h_wake, h_label, h_attached,
  h_pending, h_announced, h_generation, h_ready, h_latest, h_lost

h_vars == <<
  h_activations, h_requested, h_revision, h_confirmed, h_ui, h_uiReply, h_event,
  h_step, h_slotReply, h_owned, h_created, h_commands, h_events, h_memory,
  h_engineGraph, h_childRevision, h_dispatching, h_wake, h_label, h_attached,
  h_pending, h_announced, h_generation, h_ready, h_latest, h_lost>>

H == INSTANCE PreviewHandshake WITH
  Formats <- {f1, f2}, Revisions <- {r1, r2}, QueueCapacity <- 2, Faults <- TRUE,
  MaxActivations <- 2, MaxGeneration <- 2, Nil <- Nil, activations <- h_activations,
  requested <- h_requested, revision <- h_revision, confirmed <- h_confirmed,
  ui <- h_ui, uiReply <- h_uiReply, event <- h_event, step <- h_step,
  slotReply <- h_slotReply, owned <- h_owned, created <- h_created,
  commands <- h_commands, events <- h_events, memory <- h_memory,
  engineGraph <- h_engineGraph, childRevision <- h_childRevision,
  dispatching <- h_dispatching, wake <- h_wake, label <- h_label,
  attached <- h_attached, pending <- h_pending, announced <- h_announced,
  generation <- h_generation, ready <- h_ready, latest <- h_latest, lost <- h_lost

VARIABLES
  b_plan, b_generation, b_targets, b_sequence, b_last, b_content, b_shown, b_swap,
  b_ticked, b_pending, b_job, b_cursor, b_now, b_ticks, b_swaps

b_vars == <<
  b_plan, b_generation, b_targets, b_sequence, b_last, b_content, b_shown, b_swap,
  b_ticked, b_pending, b_job, b_cursor, b_now, b_ticks, b_swaps>>

B == INSTANCE PreviewBroker WITH
  Plans <- MCPlans, MaxTick <- 2, MaxNow <- 2, MaxSwaps <- 3, plan <- b_plan,
  generation <- b_generation, targets <- b_targets, sequence <- b_sequence,
  last <- b_last, content <- b_content, shown <- b_shown, swap <- b_swap,
  ticked <- b_ticked, pending <- b_pending, job <- b_job, cursor <- b_cursor,
  now <- b_now, ticks <- b_ticks, swaps <- b_swaps

VARIABLES s_kind, s_window, s_held, s_handled, s_steps

s_vars == <<s_kind, s_window, s_held, s_handled, s_steps>>

MCKinds == {[a |-> "loop", b |-> "range"], [a |-> "number", b |-> "entry"]}

S == INSTANCE Surfaces WITH
  Nodes <- {"a", "b"}, Kinds <- MCKinds, Values <- {0, 1}, Default <- 0, LargeGraph <- 2,
  MaxActive <- 1, MaxSteps <- 3, None <- Nil, kind <- s_kind, window <- s_window,
  held <- s_held, handled <- s_handled, steps <- s_steps

VARIABLES
  m_position, m_place, m_selected, m_snaps, m_drag, m_undone, m_edits

m_vars == <<m_position, m_place, m_selected, m_snaps, m_drag, m_undone, m_edits>>

\* In the area, and with a node beyond its end.
MCArrangements == {[a |-> 0, b |-> 1, g |-> 1], [a |-> 1, b |-> 4, g |-> 0]}

M == INSTANCE CanvasMoves WITH
  Nodes <- {"a", "b"}, Groups <- {"g"}, Size <- [a |-> 1, b |-> 2, g |-> 2],
  Extent <- 3, Spacing <- 2, Documents <- MCArrangements, MaxEdits <- 3, Gone <- Nil,
  position <- m_position, place <- m_place, selected <- m_selected, snaps <- m_snaps,
  drag <- m_drag, undone <- m_undone, edits <- m_edits

parts == <<part, vars, h_vars, b_vars, s_vars, loopVars, m_vars>>

PartsInit ==
  /\ part \in {"slot", "handshake", "broker", "surfaces", "loop", "canvas"}
  /\ Init
  /\ H!Init
  /\ B!Init
  /\ IF part = "surfaces" THEN S!Init
     ELSE s_kind = Nil /\ s_window = Nil /\ s_held = Nil /\ s_handled = Nil /\ s_steps = Nil
  /\ LoopInit
  /\ part # "loop" => doc.start = 0 /\ doc.end = 0 /\ doc.duration = Unknown /\ connected = {}
  /\ IF part = "canvas" THEN M!Init
     ELSE m_position = Nil /\ m_place = Nil /\ m_selected = Nil /\ m_snaps = Nil /\ m_drag = Nil
       /\ m_undone = Nil /\ m_edits = Nil

PartsNext ==
  \/ part = "slot" /\ Next /\ UNCHANGED <<part, h_vars, b_vars, s_vars, loopVars, m_vars>>
  \/ part = "handshake" /\ H!Next /\ UNCHANGED <<part, vars, b_vars, s_vars, loopVars, m_vars>>
  \/ part = "broker" /\ B!Next /\ UNCHANGED <<part, vars, h_vars, s_vars, loopVars, m_vars>>
  \/ part = "surfaces" /\ S!Next /\ UNCHANGED <<part, vars, h_vars, b_vars, loopVars, m_vars>>
  \/ part = "loop" /\ LoopNext /\ UNCHANGED <<part, vars, h_vars, b_vars, s_vars, m_vars>>
  \/ part = "canvas" /\ M!Next /\ UNCHANGED <<part, vars, h_vars, b_vars, s_vars, loopVars>>

PartsSpec ==
  /\ PartsInit /\ [][PartsNext]_parts
  /\ WF_h_vars(part = "handshake" /\ H!Dispatch)
  /\ WF_h_vars(part = "handshake" /\ H!Announcer)
  /\ WF_h_vars(part = "handshake" /\ H!Ui)
  /\ WF_h_vars(part = "handshake" /\ H!Listener)

-----------------------------------------------------------------------------
(* Properties of the components, under their names.                        *)

\* Until something is lost, an announced format gets its first frame, unless
\* another format or graph takes its place or the last frame has another size.
HandshakeEnds == H!HandshakeEnds

\* Nothing of a former graph is shown.  Once an activation is confirmed and until
\* the next one, the UI's slot holds no frame of an earlier graph, and only frames
\* that fit it; the engine writes into a slot of the format it announced last, and
\* both sides agree on it when all is delivered and nothing was lost.  A preview
\* that a poll can find was published for the targets in force, and none is kept
\* from the user because the activation before counted further.
PreviewsAreCurrent ==
  /\ H!ShownFrameIsCurrent /\ H!AttachedAsAnnounced /\ H!SidesAgree
  /\ B!PreviewsAreCurrent /\ B!NothingIsSuppressed

\* No surface tears down an editor during a gesture on it or within its own event.
EditorsSurvive == [][part = "surfaces" => S!EditorsSurviveStep]_s_vars

\* When nothing is pending, both surfaces show the session.
SurfacesConverge == part = "surfaces" => S!SurfacesConverge

\* A drag moves all it holds by one vector.
DragKeepsArrangement == M!DragKeepsArrangement
=============================================================================
