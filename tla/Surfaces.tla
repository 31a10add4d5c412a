------------------------------ MODULE Surfaces ------------------------------
(***************************************************************************)
(* The two surfaces on which the parameters of nodes are edited: the items *)
(* of the canvas (GraphScene, ui/canvas.py, with the NodeGraphicsItem of   *)
(* ui/graphics.py) and the form of the inspector (ui/widgets.py).  Both    *)
(* are made of the editors of ui/parameter_editors.py and rebuilt when the *)
(* document, the devices or what the engine says of a source change.       *)
(*                                                                         *)
(* All of it runs on the UI thread: a signal calls its slots at once, a    *)
(* timer from the event loop.  So a slot is a function from windows to     *)
(* windows, and an action is one event: of the pointer, the keyboard, a    *)
(* timer, the session or the engine.  A node has one parameter.            *)
(***************************************************************************)
EXTENDS Integers, Sequences, FiniteSets

CONSTANTS
  Nodes,
  Kinds,        \* what the parameters of the nodes may be, [Nodes -> kinds]
  Values, Default,     \* of a parameter
  LargeGraph,   \* LARGE_GRAPH_NODE_THRESHOLD
  MaxActive,    \* bound on the gestures the tracker counts
  MaxSteps,     \* bound on gestures, entries and changes from elsewhere
  None

VARIABLES
  kind,      \* "range": slider and field, "number": field, "loop": knobs and,
             \* in the form, fields; "entry": text, choice, switch, colour ..
  window,    \* the session's view model, both surfaces and their timers
  held,      \* the editor and the grip under the pressed pointer, or None
  handled,   \* the editor whose own event the last step was, or None
  steps

vars == <<kind, window, held, handled, steps>>

-----------------------------------------------------------------------------
(* Timers.  They are in the order of their starts; a slow one has an        *)
(* interval of 100 ms, the others of 0.                                     *)

SYNC == <<"sync">>          \* GraphScene._deferred_sync_timer
REFRESH == <<"refresh">>    \* InspectorPanel._refresh_timer
CommitOf(e) == <<"commit">> \o e     \* _commit_timer of an editor

Cancel(w, names) ==
  [w EXCEPT !.timers = SelectSeq(@, LAMBDA t : t.name \notin names)]

Start(w, name, slow) ==
  [Cancel(w, {name}) EXCEPT !.timers = Append(@, [name |-> name, slow |-> slow])]

Armed(w, name) == \E i \in DOMAIN w.timers : w.timers[i].name = name

\* Timers of one interval fire in the order of their starts, and none of 0 after
\* one of 100 ms that was started later.
Due(i) ==
  /\ \A j \in 1 .. i - 1 : window.timers[j].slow
  /\ i > 1 => ~window.timers[i].slow

-----------------------------------------------------------------------------
(* Editors.  The editor of node n on a surface is <<surface, n>>.           *)

NewEditor(model) == [value |-> model.value, current |-> TRUE]

Present(w) == {n \in Nodes : w.session[n] # None}
Selected(w) == {n \in Nodes : w.items[n] # None /\ w.items[n].selected}

CanvasEditors(w, nodes) ==
  {<<"canvas", n>> : n \in {m \in nodes : w.items[m] # None /\ w.items[m].editor # None}}

FormEditors(w) ==
  {<<"form", n>> : n \in {w.form.node} \ {None}}
    \cup {<<"progress", n>> : n \in {m \in {w.form.node} \ {None} : kind[m] = "loop"}}

EditorAt(w, e) == IF e[1] = "canvas" THEN w.items[e[2]].editor ELSE w.form.editor
ModelAt(w, e) == IF e[1] = "canvas" THEN w.items[e[2]].model ELSE w.form.model

\* The timers of an editor are its children, but not the dialog it has opened.
Lost == <<"lost">>
Destroy(w, editors) ==
  [Cancel(w, {CommitOf(e) : e \in editors}) EXCEPT
     !.destroyed = @ \cup editors, !.dialog = IF @ \in editors THEN Lost ELSE @]

\* What the user does to the widget.
WithValue(w, e, v) ==
  IF e[1] = "canvas" THEN [w EXCEPT !.items[e[2]].editor.value = v]
  ELSE [w EXCEPT !.form.editor.value = v]

-----------------------------------------------------------------------------
(* The inspector.                                                           *)

EmptyForm(ids) ==
  [ids |-> ids, node |-> None, model |-> None, editor |-> None, progress |-> FALSE]

\* _show_node: the playback controls start disabled.
FormOf(ids, n, model) ==
  [ids |-> ids, node |-> n, model |-> model, editor |-> NewEditor(model), progress |-> FALSE]

\* start() without an interval takes the last one that was set.
ScheduleRefresh(w) == Start(w, REFRESH, w.patient)

ShowSelection(w) ==
  LET shown == w.form.ids \cap Present(w)
  IN [Destroy(Cancel(w, {REFRESH}), FormEditors(w)) EXCEPT
        !.form = IF Cardinality(shown) = 1
                 THEN LET n == CHOOSE m \in shown : TRUE
                      IN FormOf(w.form.ids, n, w.session[n])
                 ELSE EmptyForm(w.form.ids)]

\* Mutant of Refresh: the form is rebuilt also during a gesture.
RefreshAtOnce(w) == ShowSelection(w)

Refresh(w) ==
  IF w.active > 0 THEN [Start(w, REFRESH, TRUE) EXCEPT !.patient = TRUE]
  ELSE ShowSelection(w)

SetSelection(w, ids) == Refresh([w EXCEPT !.form.ids = ids])

-----------------------------------------------------------------------------
(* The canvas.                                                              *)

\* selectionChanged goes to the inspector by MainWindow._refresh_selection_ui.
SelectionChanged(w) == SetSelection(w, Selected(w))

\* A large graph makes the editors of an item when it is selected.
NewItem(model, large, selected) ==
  [model |-> model, selected |-> selected,
   editor |-> IF large /\ ~selected THEN None ELSE NewEditor(model)]

\* ensure_parameter_editors of the items that become selected.
WithSelection(w, ids) ==
  [w EXCEPT !.items =
     [n \in Nodes |->
        IF @[n] = None THEN None
        ELSE [@[n] EXCEPT
                !.selected = n \in ids,
                !.editor = IF n \in ids /\ @ = None THEN NewEditor(w.items[n].model) ELSE @]]]

SyncFromSession(w) ==
  IF w.active > 0 THEN Start(w, SYNC, TRUE)
  ELSE LET large == Cardinality(Present(w)) >= LargeGraph
           stale == {n \in Nodes : /\ w.items[n] # None
                                   /\ \/ large # w.large
                                      \/ w.items[n].model # w.session[n]}
           item(n) ==
             CASE w.session[n] = None -> None
               [] w.items[n] # None /\ n \notin stale -> w.items[n]
               [] OTHER -> NewItem(w.session[n], large, n \in Selected(w))
           synced == [Destroy(w, CanvasEditors(w, stale)) EXCEPT
                        !.large = large, !.items = [n \in Nodes |-> item(n)]]
       IN IF Selected(synced) = Selected(w) THEN synced ELSE SelectionChanged(synced)

\* Mutant of DeferRebuild: that the editors are outdated is forgotten.
DeferSync(w) == Start(w, SYNC, TRUE)

DeferRebuild(w) == [Start(w, SYNC, TRUE) EXCEPT !.rebuild = TRUE]

\* The items leave the scene one by one, and with each that was selected the
\* inspector is told.
RebuildDeviceEditors(w) ==
  IF w.active > 0 THEN DeferRebuild(w)
  ELSE LET bare == [Destroy(w, CanvasEditors(w, Nodes)) EXCEPT !.items = [n \in Nodes |-> None]]
           rebuilt ==
             SyncFromSession(IF Selected(w) = {} THEN bare ELSE SetSelection(bare, {}))
           back == Selected(w) \cap Present(w)
       IN IF back = {} THEN rebuilt ELSE SelectionChanged(WithSelection(rebuilt, back))

RunDeferredSync(w) ==
  IF w.rebuild THEN RebuildDeviceEditors([w EXCEPT !.rebuild = FALSE])
  ELSE SyncFromSession(w)

-----------------------------------------------------------------------------
(* The session's signals, and the tracker of gestures.                      *)

\* session.changed: the scene was connected before the inspector.
Changed(w) == ScheduleRefresh(SyncFromSession(w))

\* deviceCatalogueChanged: the choices of every editor are those of before.
DevicesChanged(w) ==
  LET outdated == [w EXCEPT
        !.items = [n \in Nodes |-> IF @[n] = None \/ @[n].editor = None THEN @[n]
                                   ELSE [@[n] EXCEPT !.editor.current = FALSE]],
        !.form = IF @.editor = None THEN @ ELSE [@ EXCEPT !.editor.current = FALSE]]
  IN ScheduleRefresh(RebuildDeviceEditors(outdated))

\* set_parameter of a node that is gone raises KeyError.
Raises(w, e) == w.session[e[2]] = None

SetParameter(w, n, v) ==
  IF w.session[n].value = v THEN w ELSE Changed([w EXCEPT !.session[n].value = v])

Begin(w) == [w EXCEPT !.active = @ + 1]

\* _on_editor_drag_changed of the scene, then of the inspector.
End(w) ==
  IF w.active # 1 THEN [w EXCEPT !.active = @ - 1]
  ELSE LET idle == [w EXCEPT !.active = 0]
       IN ScheduleRefresh(IF Armed(w, SYNC) THEN Start(idle, SYNC, FALSE) ELSE idle)

FlushCommit(w, e) ==
  IF Raises(w, e) THEN w ELSE SetParameter(w, e[2], EditorAt(w, e).value)

\* An editor on the canvas commits when its event has been dispatched, one in the
\* form at once; a slider with its field by a timer on both.
Commit(w, e) ==
  IF kind[e[2]] = "range" \/ (e[1] = "canvas" /\ kind[e[2]] # "loop")
  THEN Start(w, CommitOf(e), FALSE)
  ELSE FlushCommit(w, e)

-----------------------------------------------------------------------------
(* Events.                                                                  *)

\* The scene and the inspector are made for a document, and show it at once.
Opened(models) ==
  SyncFromSession(
    [session |-> models, items |-> [n \in Nodes |-> None],
     large |-> FALSE, rebuild |-> FALSE, form |-> EmptyForm({}), patient |-> FALSE,
     active |-> 0, dialog |-> None, timers |-> <<>>, destroyed |-> {}])

Model(v) == [value |-> v, known |-> FALSE]

Init ==
  /\ kind \in Kinds
  /\ \E models \in [Nodes -> {None, Model(Default)}] : window = Opened(models)
  /\ held = None /\ handled = None /\ steps = 0

Now == [window EXCEPT !.destroyed = {}]

Step == steps < MaxSteps /\ steps' = steps + 1 /\ UNCHANGED kind

\* A dialog is modal; the timers and the engine go on meanwhile.
Modal == window.dialog # None
Idle == held = None /\ ~Modal

Grips == [range |-> {"slider", "scrub"}, number |-> {"scrub"}, loop |-> {"knob"}, entry |-> {}]

\* While the duration of the video is unknown the knobs and fields are inert.
Inert(e) == kind[e[2]] = "loop" /\ ~ModelAt(window, e).known

Edited == CanvasEditors(window, Nodes) \cup {e \in FormEditors(window) : e[1] = "form"}

\* A scrub begins when the pressed pointer has moved far enough.
Press ==
  \E e \in Edited, v \in Values :
    \E grip \in Grips[kind[e[2]]] :
      /\ Idle /\ window.active < MaxActive /\ ~Inert(e)
      /\ window' = WithValue(Begin(Now), e, v)
      /\ held' = [editor |-> e, grip |-> grip] /\ handled' = e
      /\ Step

PressProgress ==
  /\ Idle /\ window.active < MaxActive
  /\ window.form.progress
  /\ window' = Begin(Now)
  /\ held' = [editor |-> <<"progress", window.form.node>>, grip |-> "progress"]
  /\ handled' = held'.editor
  /\ Step

Move ==
  \E v \in Values :
    /\ held # None /\ held.grip # "progress"
    /\ window' = WithValue(Now, held.editor, v)
    /\ handled' = held.editor
    /\ UNCHANGED <<kind, held, steps>>

\* The end of a gesture, by what was gripped.
SliderReleased(w, e) == End(Start(w, CommitOf(e), FALSE))
ScrubReleased(w, e) == Commit(End(w), e)
ProgressReleased(w) == End(w)

\* A knob that cannot commit never gets to end().
KnobReleased(w, e) == IF Raises(w, e) THEN w ELSE End(FlushCommit(w, e))

Released(w, e, grip) ==
  CASE grip = "slider" -> SliderReleased(w, e)
    [] grip = "scrub" -> ScrubReleased(w, e)
    [] grip = "knob" -> KnobReleased(w, e)
    [] grip = "progress" -> ProgressReleased(w)

Release ==
  /\ held # None
  /\ window' = Released(Now, held.editor, held.grip)
  /\ handled' = held.editor /\ held' = None
  /\ UNCHANGED <<kind, steps>>

\* A value typed or switched.  On the canvas the loop has no fields.
Enter ==
  \E e \in Edited, v \in Values :
    /\ Idle
    /\ ~Inert(e) /\ (kind[e[2]] = "loop" => e[1] = "form")
    /\ v # EditorAt(window, e).value
    /\ window' = Commit(WithValue(Now, e, v), e)
    /\ handled' = e
    /\ Step /\ UNCHANGED held

\* A colour or a file is chosen in a dialog, or not; the editor may be gone when it
\* is closed, and what was chosen with it.
OpenDialog ==
  \E e \in Edited :
    /\ Idle /\ kind[e[2]] = "entry"
    /\ window' = [Now EXCEPT !.dialog = e]
    /\ handled' = e
    /\ Step /\ UNCHANGED held

CloseDialog ==
  LET e == window.dialog
      closed == [Now EXCEPT !.dialog = None]
  IN /\ Modal
     /\ \/ window' = closed /\ handled' = None
        \/ \E v \in Values :
             /\ e # Lost
             /\ window' = Commit(WithValue(closed, e, v), e)
             /\ handled' = e
     /\ UNCHANGED <<kind, held, steps>>

Fired(w, name) ==
  CASE name = SYNC -> RunDeferredSync(w)
    [] name = REFRESH -> Refresh(w)
    [] OTHER -> FlushCommit(w, <<name[2], name[3]>>)

Fire ==
  \E i \in DOMAIN window.timers :
    /\ Due(i)
    /\ window' = Fired(Cancel(Now, {window.timers[i].name}), window.timers[i].name)
    /\ handled' = None
    /\ UNCHANGED <<kind, held, steps>>

\* Nodes come, go and change by other commands and by undo and redo.
ChangeNode ==
  \E n \in Nodes, v \in Values :
    /\ window' =
         Changed([Now EXCEPT !.session[n] = IF @ = None THEN Model(v)
                                            ELSE [@ EXCEPT !.value = v]])
    /\ window.session[n] # None => window.session[n].value # v
    /\ ~Modal /\ handled' = None
    /\ Step /\ UNCHANGED held

RemoveNode ==
  \E n \in Present(window) :
    /\ window' = Changed([Now EXCEPT !.session[n] = None])
    /\ ~Modal /\ handled' = None
    /\ Step /\ UNCHANGED held

ChangeDevices ==
  /\ window' = DevicesChanged(Now)
  /\ handled' = None
  /\ Step /\ UNCHANGED held

Select ==
  \E ids \in SUBSET {n \in Nodes : window.items[n] # None} :
    /\ ids # Selected(window)
    /\ window' = SelectionChanged(WithSelection(Now, ids))
    /\ ~Modal /\ handled' = None
    /\ Step /\ UNCHANGED held

\* set_memory_diagnostic, of a node whose form has no labels for it.
Diagnose ==
  /\ window' = Refresh(Now)
  /\ handled' = None
  /\ UNCHANGED <<kind, held, steps>>

\* set_source_statuses: the facts of a video and its position.  A slider that is
\* disabled is no longer down, and its release is sent to no one.
Telemetry ==
  \E n \in Present(window), known, available \in BOOLEAN :
    LET told == IF known = window.session[n].known THEN Now
                ELSE Changed([Now EXCEPT !.session[n].known = known])
        dropped == held # None /\ held.editor = <<"progress", n>> /\ ~available
    IN /\ kind[n] = "loop" /\ (known => available)
       /\ window' = IF told.form.node = n THEN [told EXCEPT !.form.progress = available]
                    ELSE told
       /\ held' = IF dropped THEN None ELSE held
       /\ handled' = None
       /\ IF known = window.session[n].known THEN UNCHANGED <<kind, steps>> ELSE Step

Next ==
  \/ Press \/ PressProgress \/ Move \/ Release \/ Enter \/ OpenDialog \/ CloseDialog
  \/ Fire \/ ChangeNode \/ RemoveNode \/ ChangeDevices \/ Select
  \/ Diagnose \/ Telemetry

Spec == Init /\ [][Next]_vars

-----------------------------------------------------------------------------
(* Properties.                                                              *)

\* ui/parameter_editors.py: surfaces "must not tear down a widget while a drag
\* gesture on it is in flight".  The editor under a pressed pointer is there and
\* counted by the tracker, and no editor is destroyed by its own event, unless the
\* canvas still shows, selected, a node that is gone: the inspector is then told
\* at once.  (A dialog is no gesture: the editor that opened it may go.)
EditorsSurviveStep ==
  /\ held' # None =>
       /\ held'.editor \in CanvasEditors(window', Nodes) \cup FormEditors(window')
       /\ window'.active > 0
  /\ handled' \in window'.destroyed => \E n \in Selected(window) : window.session[n] = None

EditorsSurvive == [][EditorsSurviveStep]_vars

\* When no gesture holds a rebuild back and no timer runs, both surfaces show the
\* session: every node has its item, every editor the devices of today, and the
\* form is that of the selection, its editor with the value of the session.  (On
\* the canvas the editor of a value that is taken back before the item is rebuilt
\* keeps what was entered: an item is compared with its model, not its editor.)
SurfacesConverge ==
  window.timers = <<>> /\ window.active = 0 =>
    /\ \A n \in Nodes :
         IF window.session[n] = None THEN window.items[n] = None
         ELSE /\ window.items[n] # None
              /\ window.items[n].model = window.session[n]
              /\ window.items[n].editor # None => window.items[n].editor.current
              /\ window.items[n].selected => window.items[n].editor # None
    /\ window.form.ids = Selected(window)
    /\ window.form.node =
         IF Cardinality(Selected(window)) = 1 THEN CHOOSE n \in Selected(window) : TRUE ELSE None
    /\ window.form.node # None =>
         /\ window.form.model = window.session[window.form.node]
         /\ window.form.editor = NewEditor(window.form.model)
=============================================================================
