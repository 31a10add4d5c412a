# A verification development for the Synesthesia Machine

Synesthesia Machine turns video into live MIDI: a node graph edited in a Qt
window is compiled to an execution plan and run, frame by frame, by an engine
that lives in a child process and drives MIDI ports and a debug synthesizer.
This directory holds TLA+ models of the parts of that program whose mistakes
are hard to test (threads that share a mailbox, panics racing ticks, seeks
racing a decoder, two processes sharing memory, an autosave racing a close),
the TLC configurations that check them and the TLAPS proofs about them. Every
definition is translated from the code under `src/src/synesthesia_machine`;
paths below are relative to it.

## 1. Inventory

| Component | State it keeps | Operations | Talks to |
|---|---|---|---|
| MIDI output service (`midi/output_service.py`) | one-slot mailbox, last published state, panic counters, open port, notes believed on | publish, request_panic, panic, refresh_outputs, wait_until_idle, close; the sender's loop | Send MIDI node, RtMidi ports |
| State ordering (`midi/state_ordering.py`) | the panic watermark | record_panic, is_stale | every sink that can panic |
| Debug synth (`midi/debug_synth.py`) | immutable snapshot of the notes wanted, voices of the audio callback | update, panic, close, the callback | Generate Audio node, PortAudio |
| Audio output service (`nodes/output/audio.py`) | pending command, open synthesizer, latched failure | publish, disable, reset, panic, close; the service thread | graph worker, debug synth |
| Scheduler, facade (`runtime/scheduler.py`, `engine_facade.py`) | node runtimes, borrowed ones, static cache, errors, publish generation | prepare, commit, cancel, tick, reset, panic, close | node runtimes, engine body |
| Graph worker (`runtime/engine_body.py`) | command deque, busy flag, last error | publish, reset_source, wait_until_idle, close; the worker's loop | sources, facade, preview broker |
| Engine body (`runtime/engine_body.py`) | transport state, sources, interrupted set | activate, play, pause, resume, stop, reload, seek, panic, close | facade, worker, sources, broker |
| Engine session, client, server (`runtime/engine_session.py`, `engine_client.py`, `engine_server.py`) | what is believed of the child, requests, heartbeat, revisions | guarded operations, supervision, restart, command loop | each other, across processes |
| Bridge and task runner (`ui/engine_bridge.py`, `engine_task_runner.py`) | pending activation, queued tasks | debounced activation, transport tasks, close | session, window |
| Preview channel and broker (`runtime/preview_channel.py`, `previews.py`) | shared slots guarded by a version; targets, cursors, a newest-tick worker | publish, announce, attach, poll; apply, swap | graph worker, UI process |
| Video source, region pass (`media/video_source.py`, `region_pass.py`) | decode queue, seek record, loop head, three threads | play, pause, resume, stop, reload, seek, close | decoder, graph worker |
| Camera source (`media/camera_source.py`) | capture thread, device, state | play, pause, resume, stop, reload, close | capture device, graph worker |
| MIDI export (`runtime/midi_export.py`, `midi/smf.py`, `ui/midi_export.py`) | a transient engine, the observed states, the overlay | run, cancel, verify, encode | facade, region pass, window |
| Graph model, compiler, random graphs (`graph/`) | document, plan | operations of the document, validation, order, demand, generation | UI commands, facade |
| Editor (`ui/session.py`, `ui/commands/`) | document, undo stack, clean mark | every command with its redo and undo | compiler, bridge |
| Nodes (`nodes/`, `midi/scales.py`) | runtime state of those that remember | process, reset, close | scheduler |
| Persistence (`persistence/`) | files, backups, autosave records | load, migrate, save, autosave, relink | editor |
| Document life cycle, autosave (`ui/document_lifecycle.py`, `autosave_controller.py`) | timers, deferred discards, dialogs | new, open, save, close, recover | persistence |
| Canvas, inspector, editors (`ui/canvas.py`, `graphics.py`, `widgets.py`, `parameter_editors.py`, `playback_controls.py`) | items and form with their editors, deferral timers, the tracker of gestures, the places of items | gestures, entries, dialogs, commits, rebuilds, selection, drags | session, main window |
| Image algorithms, painting, diagnostics, packaging | | | |

What is hard in each, and what makes it correct:

- **MIDI output**: three threads share a mailbox; sends fail one by one; ports
  vanish. Correct when no note is left sounding outside the books, an idle
  service plays exactly the latest state, and panics are served.
- **Audio output**: opening a device is slow and done beside the ticks. Correct
  when a panic covers all that was accepted before it, what sounds is what was
  published last, and one device is open at a time.
- **Debug synth**: a callback that must not lock reads what another thread
  writes. Correct when a panic silences it for good and a voice is always found.
- **Graph worker**: sources publish into one deque that replaces stale frames.
  Correct when a frame published before a reset never runs after it.
- **Scheduler, engine body**: a graph is replaced while it runs. Correct when no
  runtime is closed in use, none leaks, and what played before plays after.
- **Sources**: threads that a call stops, and may have to give up on. Correct
  when a pass shows each frame once and in order, ends with its reset, and a
  source that is shown as playing has a thread behind it.
- **Previews**: correct when no torn image is read, nothing of a former graph is
  shown, and each newest value arrives once.
- **Client and server**: a child that may hang, crash or answer late. Correct
  when a divergence is reported, the last edit is settled, and close ends it.
- **Documents**: a worker writes files while the user edits, saves and quits.
  Correct when unsaved work survives a crash and a settled document leaves no
  record, undo is exact, and old files load.
- **Canvas, inspector**: one thread, but a commit rebuilds what commits, a timer
  fires between press and release, and the engine reports meanwhile. Correct when
  no editor goes during a gesture on it, both surfaces come to show the session,
  and a drag or a knob leaves the document in order.
- **Compiler, nodes, export**: sequential. Correct against a reference
  definition on bounded inputs.

## 2. Modules

| Module | Models | State and actions |
|---|---|---|
| `MidiOutput` | `midi/output_service.py`, `state_ordering.py`, `state_diff.py`, `nodes/output/midi.py` | Mailbox, panic counters, books of the service, what the synthesizers behind the ports play, three threads. A publish is two actions because the code tests the watermark before it takes the lock. |
| `SynthState`, `DebugSynth` | `midi/debug_synth.py` | The snapshot its callers replace; voices, envelopes and the callback, which captures a snapshot and then renders. |
| `AudioOutput` | `nodes/output/audio.py` | Extends `SynthState` with the service thread that opens, replaces and closes synthesizers, the graph thread's direct publish and the panicking thread. |
| `GraphWorker` | `LatestFrameGraphWorker` | The deque, the command in hand; publish, reset, take, finish, close. |
| `Scheduler` | `runtime/scheduler.py`, `engine_facade.py` | Runtimes of the active plan and of the one prepared beside it, borrowing, ticks node by node, commit, cancel, close. |
| `EngineBody` | `EngineBody` with the calls of both sources | Plan, sources, transport, interrupted memory. An activation (pause, drain, commit or roll back) and a pause take several steps, between which sources present, end, fail. |
| `VideoSource` | `media/video_source.py`, `region_pass.py` | Queue, seek record, loop head, three threads, the call that waits for a join. |
| `CameraSource` | `media/camera_source.py` | The capture thread, its device and wake-ups, the calls, those that give up on the thread. |
| `PreviewSlot`, `PreviewHandshake`, `PreviewBroker` | `runtime/preview_channel.py`, `previews.py`, parts of client and server | Header and payload cells one at a time; both processes' records of a slot; targets, due times, cursors. In the broker a tick carries the number of the plan it ran under (`madeBy`) up to the preview it becomes, and a swap is drain, commit (or its failure), apply, clear, cursors, with ticks in between. |
| `Surfaces` | `ui/canvas.py`, `graphics.py`, `widgets.py`, `parameter_editors.py`, `playback_controls.py` | Items and form as functions of the session, their editors, the timers in the order of their starts, the tracker. A slot is a function from windows to windows, an action one event of pointer, keyboard, timer, session or engine. |
| `LoopRange` | `LoopRangeParameterEditor` | The region in the document and in the editor, knobs and fields with the roundings of both. `RegionStaysSound` is about every commit: whatever was in the document before, what a knob or a field writes has the start before the end, but for a knob released over a side that changed during the drag and a typed end with the start in the last step. |
| `CanvasMoves` | drags in `ui/canvas.py`, `graphics.py`, `MoveNodesCommand` | Places and positions along one axis, the drag with its selection, the commands that undo takes back. |
| `EngineLink` | bridge, task runner, session, client, server | Three threads that send requests, answers, time-outs, crash, hang, a command that raises (`Raise`: `CommandFailed`, and a shutdown that raises leaves the loop running), restart, close. |
| `Nodes`, `Catalogue` | `nodes/base.py`, `registry.py`, `migrations.py`; every built-in definition | Data: ports, parameters, contracts, rules. |
| `Compiler`, `Document`, `RandomGraph` | `graph/` | Validation pass by pass, plan, operations of a document, the generator. |
| `History`, `Editor` | `ui/session.py`, `ui/commands/` | `Editor` is the undo stack with its merges, macros and clean mark; `History` is what undo promises, and `Editor` implements it under `Abstract`. |
| `Recovery`, `AtomicFile`, `GraphFile` | `ui/autosave_controller.py`, `document_lifecycle.py`, `persistence/` | Autosave, discard, dialogs, crash and recovery; one atomic save step by step; what a file of any schema is loaded as. |
| `Musical`, `NodeMemory` | `midi/scales.py`, `nodes/synesthesia`, temporal nodes | Ranking and detection as operators; runtimes that remember frames. |
| `StandardMidiFile`, `MidiRendering`, `MidiExport` | `midi/smf.py`, `runtime/midi_export.py`, `ui/midi_export.py` | The encoding with its roundings, the states observed of two videos that tick at once or apart, what a sequencer plays of the file, the job. |

`*Proofs` hold the theorems. `MC*` give constants their values and put
components side by side: there a behaviour is of one `part` that is chosen at
the start, and the variables of the others do not move. The parts do not
interact in such a run; sharing one keeps related questions together. To let a
module of theorems and a run speak of the same definition, the components that
are proved about are extended, the others instantiated.

How the components compose: `EngineBody` contains, as a coarse source and a
coarse mailbox, what `VideoSource`, `CameraSource` and `GraphWorker` model in
detail; its publish generations are the stamps that `MidiOutput` and
`AudioOutput` compare with their watermarks; `Scheduler` runs plans that
`Compiler` makes of graphs of `Catalogue`'s nodes; `Editor` compiles what
`Document` holds with the same compiler; `MidiExport` runs the video's pass.
Constants that stand for a computed value are literals, and an assumption of the
MC module compares them with what computes them: `PlansAreCompiled` of
`MCEngine` and `MCPreviews` with the compiler. `KeysAreWhole` and
`GeneratedIsWhole` of `MCEngine` check that the plans' keys tell runtimes apart
and that generated graphs compile, `FragmentsAreSound` of `MCDocuments` that
what is pasted is a fragment, and `Catalogue`'s own assumptions that every
built-in definition is accepted by the constructors, that its migrations end in
the version of today (`ContractsHold`), and that no number from a field or a
connection is refused at run time (`NumbersAreTaken`).

## 3. Runs

| Run | Parts | What it shows | Bounds |
|---|---|---|---|
| `outputs` | `MidiOutput`, `AudioOutput` | A sounding note is in the books or its all-notes-off was lost (`SoundingNotesAreOwned`); an idle service plays the latest state (`IdleMatchesLatest`); panics are served (`PanicIsServed`) and cover what was accepted (`PanicCoversAccepted`); the device follows the states, one at a time (`DeviceFollowsState`). | Two keys on two channels, two ports of one name, two ticks, one panic, one failing call: a failure inside a panic, a reconnect and a stale state occur. Two configurations, three calls. |
| `notes` | `DebugSynth`, `NodeMemory`, `Musical` | `SilencedByPanic`, `VoiceAvailable`, `SoundsAsDesired`; what nodes remember (`MemoryIsExact`); the strongest candidates become notes (`NotesAreStrongest`). | Three keys for two voices, so that voices are stolen. |
| `previews` | `PreviewSlot`, `PreviewHandshake`, `PreviewBroker`, `Surfaces`, `LoopRange`, `CanvasMoves` | No torn image (`ImageIsWhole`), what slot and broker show was made by a tick of the graph whose targets are in force (`PreviewsAreCurrent`), `HandshakeEnds`; no editor goes during its gesture or event (`EditorsSurvive`), both surfaces show the session in the end (`SurfacesConverge`); `RegionStaysSound`; one vector for all that is dragged (`DragKeepsArrangement`). | Two payload cells, one copied before and one after a write; two revisions and two formats; two plans, three swaps, of which one may be a stop or fail, and two ticks. Two nodes, whose editors are of four kinds in two documents, and which together are a large graph; three gestures, selections, entries or changes: a selection, a gesture and a change under it. Three steps of a track and two durations, times beyond both. Two nodes and a group, in the area and beyond it; three edits, drags, deletions or undos, selecting not counted, so that a drag of two items is undone, or meets an undo or a deletion. |
| `engine` | `EngineBody`, `GraphWorker`, `Scheduler` | `SourcesFollowPlan`, `OnlyLiveSourcesSound`, `PlayingSurvivesSwap`; `FramesRunInOrder`, `NoOvertaking`; `RuntimesAreOwned`, `FailureStaysDownstream`. | A video and a camera over four plans and five events, so that every ending of an activation occurs; two sources with three commands each; four compiled plans. |
| `sources` | `VideoSource`, `CameraSource`, `MidiExport`, `StandardMidiFile` with `MidiRendering` | `ResetIsLast`, `PlayingIsAttended`, `PassesAreOrderly`; `CameraIsAttended`, `StopIsFinal`; a file holds the whole pass at exact intervals (`ExportIsExact`). | A region of three frames, a queue of one and a head of one, three calls; five calls and two losses of a camera; two videos of two frames; three ticks of two videos, at one time or apart, and times in thirds of a microsecond. |
| `engine_link` | `EngineLink` | `DivergenceIsReported`, `LastEditIsSettled`, `CloseEndsChild`. | Two edits, one of them invalid, a click, a fault (a crash, a hang, a failed spawn or a command that raises), a time-out. |
| `documents` | `Editor`, `Recovery`, `AtomicFile`, `GraphFile` | `UndoIsExact`, `CleanMeansSaved`; no edit brings a cycle, a clock mismatch or an edge of wrong type, and the compiled graph is the document's (`EditingStaysSound`); `NothingLostNothingLeft`, `DirtyIsAutosaved`; `SaveIsAtomic`; old files load and stored media paths name their files (`FilesKeepTheirMeaning`). | Four nodes and two commands, so that a merge of moves or of parameters, a macro and a replacement are undone; a video with its display, two sources one edge (of an image or of a number) short of a clock mismatch, and a document opened with one, with another hidden behind it. An edit that does not merge is made until the stack is full: branches of one command are forgotten; one crash and one failure; three saves with two faults. |
| `midi_rearm`, `seek_takes_effect`, `overlay_while_running`, `autosaved_work_is_kept`, `independent_sources` | | Violations: section 4. | As the run of the same module. |

Bounds on calls, frames, faults and generations only cut histories short; each
is a conjunct of a guard and a named constant. Deadlock is not checked where the
bound on calls, or a close, ends every behaviour.

**Fairness.** Weak fairness of each thread's own steps (a thread that can run is
run) and of the second half of a call that has begun. Nothing makes a user call,
a device fail, a decoder raise or a process crash. In `outputs` the sender is
fair and a publish that has begun is carried through; in `notes` the audio
callback, which PortAudio calls for ever; in `previews` the two processes'
loops; in `sources` the decode, head and presentation threads and the return of
a call; in `engine_link` the `Progress` of threads and timers: a request gets
its answer, loses its connection or times out; in `documents` the same of the
worker, the event loop, a file being written and an exit. The user, the faults
and the crashes are in neither. The rest is safety.

## 4. Findings

1. *A panic may be undone* (`midi/output_service.py:443`, `midi_rearm`). The
   staleness test is outside the lock.
2. *A seek may hang the player* (`media/video_source.py:1097`,
   `seek_takes_effect`). Once the decode thread has queued `END` it is gone,
   while frames are still presented; a seek removes the `END`, and nobody
   decodes from the new position.
3. *An export may lock the window* (`ui/midi_export.py:214`,
   `overlay_while_running`). An interval that its tempo cannot express raises
   out of the worker, which ends without an answer.
4. *A late discard removes a newer autosave* (`ui/autosave_controller.py:278`,
   `autosaved_work_is_kept`).
5. *Independent sources cut each other's notes* (`runtime/scheduler.py:153`,
   `independent_sources`). A tick of one source runs the other's sinks without
   data, and they panic.

### Observations

Read in the code while modelling, consistent with the models, not the subject
of a run.

*Outputs.* A completed MIDI panic also drops a state published by a later tick
(`midi/output_service.py:583`, against the comment at 577). A refresh that
finds a port name ambiguous sets UNAVAILABLE and leaves the port playing
(`:814`). An audio reset panics without a watermark, so an update the service
has already tested (`nodes/output/audio.py:268`) sounds again; a slow device
that fails is never latched while ticks arrive (`:277`). `Scheduler.panic` stops
at the first output that raises, and the later ones are not panicked
(`runtime/scheduler.py:283`).

*Engine.* Around a drained reset the worker may hold two frames of one source
(`runtime/engine_body.py:316`, against the class comment at 224). A pause whose
drain times out panics before the frames it waited for (`:825`, against 820). A
source paused while another runs keeps its notes, and stopping the other does
not end them. `play` over several sources stops at the first that raises
without refreshing the transport state (`:807`). A frame presented between the
drain and the close of a replaced source runs under the new plan. A static node
that fails once has NoData cached until the plan is replaced
(`runtime/scheduler.py:258`).

*Video.* A pause between the wait for the deadline and the second look at the
state ends the presentation thread, and resume plays without one
(`media/video_source.py:1134`). A final decode failure with frames queued ends
without `SOURCE_ENDED` (`:792`). After a backward seek a straggler of the old
pass passes the filter (`:1106`); of two quick seeks the second may be cleared
with the first (`:836`). A retry repeats the pass from its start.

*Camera.* Opening and losing the device overwrite a pause
(`media/camera_source.py:508`, `:575`). `play` is lost while the thread is on its
way out (`:397`); after a stop that timed out a paused camera can be "played"
with no thread. After a halt that timed out, with the worker closed,
`_publish_reset` raises outside any `try` and the thread dies with the device
open (`:510`): a read blocks, and the join gives up after five seconds (`:463`).

*Previews.* An announcement that overtakes the activation's response is ignored
and never repeated (`runtime/engine_client.py:712`, against
`engine_server.py:76`). A job carries the generation at its submission
(`runtime/previews.py:87`), not, as its docstring says, "the generation that
produced it" (`runtime/previews.py:54`). The drain of a swap keeps most ticks of the
old plan from being submitted under the new generation; the frame that is presented
between the drain and `apply` in spite of the pause is not kept, and is shown once
under targets that are not its plan's. `PreviewsAreCurrent` names this straggler
(a tick of the plan just before or just after) and admits no other. The rate limit can lose the last value of a source
that pauses. An image published between the new generation and the transport's
`clear` is lost until the next is due.

*Link.* `_known_stopped` may be set by `read_diagnostics` after a play dropped it
(`runtime/engine_session.py:251`, against 162-169). After a late activation
every revisioned command, a panic too, is refused until the next activation, and
a restart is not offered once a heartbeat has turned UNRESPONSIVE back.

*Files.* An autosave queued after an undo to the saved state is still written and
no longer tracked (`ui/autosave_controller.py:246`). A discard on close with an
autosave in flight is deferred and the record kept (`:184-192`, against
`document_lifecycle.py:178-180`). A crash between a late autosave and its discard
offers older content. A write that fails leaves its temporary file behind
(`persistence/graph_io.py:225`). Migrations compare identifiers as text where
decoding compares UUIDs. Pasted fragments are neither migrated nor checked
against the registry.

*Editor.* `graph_cycle` is reported for nodes merely downstream of a cycle. The
comparison with a baseline by location accepts an edge inside a cyclic region, and
an edge into or behind a faulty node, where the clocks are not known: a second
mismatch then comes to light when the first is repaired (`graph/compiler.py:462`).
`EditingStaysSound` allows a new fault in that shadow and nowhere else.
Rules between parameters are consulted for connected live values by the
scheduler and not by the compiler. A refused insert-and-connect leaves its macro
with the node alone. One display per dock is enforced by `add_node` only.

*Canvas and inspector.* A scrub ends the tracker before it commits
(`ui/parameter_editors.py:435`): the rebuild it held back is armed before its own
commit timer, and the value of an editor that is rebuilt is lost. The progress
slider is disabled under a pressed pointer when the position becomes unknown
(`ui/playback_controls.py:96`), and a knob released after its node was deleted
raises before `end()` (`ui/parameter_editors.py:1366`): the tracker stays active
and every rebuild is deferred for ever. A colour or file dialog is no gesture:
the editor that opened it may be rebuilt meanwhile, and the choice is lost. With
a deleted node still selected, a commit in the form rebuilds the form within the
editor's own event. An editor on the canvas keeps a value that was taken back
before its item is rebuilt. A typed end is not raised when the start is in the
last step of the track (`ui/parameter_editors.py:1232`), and a knob that is released
commits its side without a look at the other, which an undo may have changed during
the drag, so start and end may be committed in the wrong order in these two cases. A drag that the grid snaps back pushes no command
and leaves the item off its position (`ui/canvas.py:486`). A click on a group with
nodes pushes an empty macro. A node pressed with Ctrl is dragged and not committed
(`ui/graphics.py:822`, against the comment at 829).

*Export.* The graph may be slower than the decoder, and the latest-frame worker
then drops frames (`observation_failed`, against ADR 0025:34-39). A note that
starts at the last sample may hang (ADR 0016). With two sources other outputs
are observed empty at each tick. Every interval is rounded to
whole microseconds by itself (`midi/smf.py:136`), so an event is late or early by half a
microsecond for each event before it, and intervals under 31 microseconds are
simultaneous, against ADR 0016:56-60. At one time and for one key the off is sorted
before the on: a key that one video strikes and the other silences at the same time
hangs until its next off, or for ever. `ExportIsExact` states both limits. Cancel is polled in the loop only; the file is
not written atomically.

*Nodes.* Posterize Time with a live change of the interval can hold a frame for
longer than either interval suggests.

## 5. Proofs

Every theorem is about the component's specification, for every value of the
constants that satisfies the module's named assumptions.

| Module | Theorems | Property of a run |
|---|---|---|
| `MidiOutputProofs` | `TypeCorrect`, `NoNoteLeftBehind`, `IdlePlaysLatest` | `SoundingNotesAreOwned`, `IdleMatchesLatest` |
| `AudioOutputProofs` | `PanicsCoverAccepted`, `DevicesFollowState` | `PanicCoversAccepted`, `DeviceFollowsState` |
| `DebugSynthProofs` | `TypeCorrect`, `AVoiceIsFound`, `VoicesAreDistinct`, `PanicSilences` | `VoiceAvailable`, `SilencedByPanic` |
| `GraphWorkerProofs` | `FramesAreOrdered`, `SourcesDoNotOvertake` | `FramesRunInOrder`, `NoOvertaking` |
| `EngineProofs` | `BodyTypeCorrect`, `SourcesAreThoseOfThePlan`, `NotesHaveLiveSources`, `SwapKeepsPlaying` | `SourcesFollowPlan`, `OnlyLiveSourcesSound`, `PlayingSurvivesSwap` |
| | `RuntimesHaveOwners` | `RuntimesAreOwned` |
| `SourceProofs` | `VideoTypeCorrect`, `ResetComesLast`, `PlayingHasThreads`, `PassesRunInOrder` | `ResetIsLast`, `PlayingIsAttended`, `PassesAreOrderly` |
| | `CameraHasAThread`, `StopsAreFinal` | `CameraIsAttended`, `StopIsFinal` |
| | `RegionKeepsItsOrder` (region of a loop) | `RegionStaysSound` |
| `EngineLinkProofs` | `LinkTypeCorrect`, `DivergenceIsTold` | `DivergenceIsReported` |
| `WholeDataProofs` | `TypeCorrect`, `NoTornImage` (preview slot); `SavesAreAtomic` (atomic save) | `ImageIsWhole`, `SaveIsAtomic` |
| | `RecoveryKeepsAndClears` | `NothingLostNothingLeft` |

**Hypotheses.** Bounds are naturals and marks for nothing are not values
(`NoneAssumption`, `NilAssumption`, the hypotheses of the graph worker's
theorems; `NoneIsNoCommand` of `MCEngine` evaluates the latter). The scheduler's
theorem assumes `KeysIdentify`: plans that give a node the same retention key
give it the same clock and the same bindings, and a clock is a source of its
plan; this is what `CompiledNode.state_retention_key` is for, and `KeysAreWhole`
checks it on compiled plans. The recovery's theorem is for a finite set of
documents (`RecoveryAssumption`). The region's theorem assumes that a step of the
track is a whole number of the model's unit of time (`LoopAssumption`), which is
what a unit that divides the step means. The
camera's properties speak of behaviours in which no call gave up on the capture
thread: the code gives up after five seconds, the model has those behaviours
too, and the properties are false of them (observations).

**Arguments.** No property is inductive as it stands; TLC checked each
strengthening on an instance before it was proved.

- *MIDI, ownership.* `_panic_current` loses no note: what still sounds after it
  sounds on a channel whose all-notes-off was lost, a note-on that was heard
  although its send failed included, because its channel is passed as an extra.
- *MIDI, idleness* (`IdleInv`). `Ordered`: the mailbox, when full, holds the last
  state published. `Planned`: once the messages still to send are out, the keys
  of the state in hand play. `Followed`: unless a panic or a close is under way
  or a newer state waits, the state in hand is the last one; a withdrawn state
  is not played. `Attached`: the open port is the one that state names. A panic
  asked for while a state is applied makes the counters differ until `_run` has
  served it, which is why a state withdrawn in the middle does not matter.
- *Audio* (`Inv`). `Wired` says which synthesizer each side can know, and that
  the service opens one only after it closed the last. `Stamped` is the heart of
  the panic: one that has begun carries a stamp no older than any state accepted
  before, so what it passes on the way (`Aimed`) it silences, and what comes
  late is refused (`Silenced`). `Tracked` follows the last state from hand to
  hand: waiting, on its way, with the service, sounding, or given up with the
  device.
- *Synthesizer.* The snapshot is bounded by the number of voices and keys of
  voices are distinct, so a voice is found by counting: if every voice held a
  wanted key, the voices would inject into the wanted keys without the new one.
- *Preview slot.* While the version is the one unpacked first, the cells copied
  so far belong to that frame; a version that returns unchanged covers the copy.
- *Graph worker.* Stamps a source gives its commands grow along the deque; no
  stamp is ahead of its source (`StampsAreIssued`); and a frame never stands
  before a reset of its source that discards (`NoTickBeforeDiscard`), so the
  frame it replaces, where there is one, stands in the same pass. What `Place`
  and the removals do to positions is lemmas about `InsertAt`, rearrangements of a
  sequence and the rank of a position among those that are kept.
- *Engine body* (`BodyInv`). `Follows`: outside a swap every controller belongs to
  a slot of the plan or is closed; during one, to the old plan or to the fresh
  sources of the new one, which are the only ones a roll back closes.
  `PlaysIfAsked` goes through the swap with the states the sources had before it.
  `Silences` is the heart of the third theorem: a note of a node sounds only if
  its source lives, or a command that silences it is in the worker's hand or its
  mailbox, and no frame stands behind that command. What a call does to a
  controller and its mailbox is stated once, in the `...Outcome` lemmas, and each
  action that moves a set of sources at once is an instance of `MoveSilences` and
  `MoveFollows`. For `SwapKeepsPlaying` the invariant is used on the step that
  ends the activation only.
- *Video* (`VideoInv`). `Lifecycle`: what a state says of the threads, of the stop
  event and of what was sent last, for each call that may be waiting. `Gapless`,
  while nothing seeks or fails: the frames between the presentation thread and
  the decoder, through queue, staged head and hand, are a contiguous run that
  ends where the decoder stands (`Chained`, `InTurn`, `Counted`), and the marker
  of the pass's end follows its last frame. Neither half is inductive without the
  other's types and bounds.
- *Region of a loop* (`LoopInv`). A dragged knob stays on its side of the other
  (`Dragged`), and the editor shows the document unless a knob is dragged. What
  the roundings keep is lemmas: a position is within half a step of its time, and
  the time of a position before another one's is before that time. So each commit
  is sound by what the editor shows (`CommitsAreSound`), whatever the document
  held; no step is excused for looking like another one.
- *Scheduler.* The candidate shares with the active scheduler exactly what it has
  borrowed, with its origin, and what it made itself is its own and has seen
  nothing (`Shared`).
- *Camera.* The stop event is set only while a call waits for the thread
  (`StopIsWaitedFor`), a source without a thread is not shown as running
  (`EndIsShown`), and where the thread may end it holds no device; only a call
  that gave up takes this apart.
- *Editor's link* (`Inv`). `Matched`: while the child lives, at most one message of
  the runner's request is on its way, to the child or back, and the runner waits
  for it; a request that was given up leaves messages nobody waits for. `Obeyed`:
  the activation the runner waits for is the last one the child will see, so an
  acknowledged one is what the child runs. `Reported`: the last decisive news the
  user has, or that is in the callbacks, is bad, or both sides agree, or an
  operation that decides it is running. This rests on `_response_loop` dropping
  the answer of a request that is no longer in `_pending`
  (`engine_client.py:671`): were the runner's request answered by a message it
  gave up, it could take an older activation's acknowledgement for its own.
- *Atomic save.* The graph and its backup are whole (`Sound`) in the directory
  as it is and in the one a loss of power would bring back, and before each
  rename the temporary file is complete and synced (`Prepared`).
- *Recovery* (`RecoveryInv`). `Attended`: a recovery file of this run, there or
  about to be written, is of a document that is tracked or has a discard queued
  behind its last write (`Held`); else the document was never clean, or an undo
  reached its saved state behind a queued autosave, the exception that
  `CleanExitLeavesNothing` names. `Queued`: the request that waits is of the dirty
  document that is open, and tracked; this is why `_flush_settled_discards` must
  see it (`autosave_controller.py:237`). `Settling`: the close discards all
  that is tracked, and a process that exited has no job left. `OnDisk`: the file
  is what was last reported, so the backup is needed by no completed save. What each
  operation of the controller keeps is stated once, as `Keeps`.

**Model-checked only.** All liveness (`PanicIsServed`, `SoundsAsDesired`,
`HandshakeEnds`, `LastEditIsSettled`, `CloseEndsChild`, `DirtyIsAutosaved`):
fairness is out of the prover's reach. What depends on recursive definitions or
folds over data: `NotesAreStrongest`, `ExportIsExact`,
`MemoryIsExact`, `FilesKeepTheirMeaning`, everything about `Compiler`,
`Document` and `Editor`, and `FailureStaysDownstream`, whose outcome of a tick is
a fold over the order of execution; `DragKeepsArrangement`, whose translation is one
over the dragged items. Not proved, although nothing in principle stands in the way:
the safety properties of `PreviewHandshake`, `PreviewBroker` and `Surfaces`.

## 6. Not modelled

Pixels, samples and time: frames, waveforms and deadlines are names or steps.
Wording, logging, metrics, profiling, painting, layout of nodes, the drag of a
connection, resizing, device catalogues, packaging and tools. The status queries, which change nothing.
`PROJECT.json` gives the reason per component.

Hazards without a property: a pause whose drain times out
(`runtime/engine_body.py:825`) and a decoder that fails for good with frames
queued (`media/video_source.py:792`); the code has these behaviours, the models
too, and the observations describe them.

## 7. Plan

Next, in this order: the frames of the handshake; the surfaces of the editor. Then the refinements: `GraphWorker` as the coarse mailbox of
`EngineBody`, and `AudioOutput` with `DebugSynth` as a sink with a watermark.
