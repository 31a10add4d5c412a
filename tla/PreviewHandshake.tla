-------------------------- MODULE PreviewHandshake --------------------------
(***************************************************************************)
(* How a preview slot comes to be (runtime/preview_channel.py,             *)
(* engine_server.py, engine_client.py). The engine process announces the   *)
(* format of a new preview in an event, the UI process creates a slot of   *)
(* shared memory and asks the engine to write into it. Activating another  *)
(* graph starts all of it over, and graph revisions tell the rounds apart. *)
(*                                                                         *)
(* One preview key is modelled: keys share only the queues. In the engine  *)
(* process a graph thread publishes, an event thread announces and the     *)
(* command loop dispatches; in the UI process one thread activates graphs  *)
(* and an event thread configures slots.                                   *)
(***************************************************************************)
EXTENDS Integers, Sequences

CONSTANTS
    Formats,         \* the (width, height, channels) of previews
    Revisions,       \* graph revisions
    QueueCapacity,   \* event queue: maxsize
    Faults,          \* whether requests time out and writes fail
    MaxActivations,  \* bound: graphs activated
    MaxGeneration,   \* bound: formats of the first activation, one less of each next
    Nil

Activations == 1..MaxActivations
Generations == 1..MaxGeneration
SlotIds == 1..(MaxActivations * MaxGeneration)

\* A frame is known by the activation whose graph produced it.
Frame == [graph : Activations, format : Formats]
Format == [generation : Generations, format : Formats]
FormatChanged == [revision : Revisions, generation : Generations, format : Formats]
Slot == [id : SlotIds, revision : Revisions, generation : Generations, format : Formats]
ActivateGraph == [kind : {"activate"}, activation : Activations, revision : Revisions]
ConfigureSlot == [kind : {"configure"}, slot : Slot]

VARIABLES
    \* the UI process
    activations,  \* graphs activated so far
    requested,    \* the revision of the last activation
    revision,     \* ProcessEngineClient._graph_revision
    confirmed,    \* the last activation the UI learned the success of
    ui,           \* the activating thread: idle, waiting, clear or accept
    uiReply,      \* the response it waits for: activated, rejected, failed or Nil
    event,        \* the announcement the event thread handles
    step,         \* the event thread: idle, create or waiting
    slotReply,    \* the response it waits for: configured, failed or Nil
    owned,        \* the slot of SharedMemoryPreviewReader
    created,      \* slots created so far
    \* between the processes
    commands,     \* the command pipe
    events,       \* the event queue
    memory,       \* the frame last written into each slot
    \* the engine process
    engineGraph,  \* the activation whose graph runs, or 0
    childRevision,\* EngineServer._graph_revision and _EventPublisher's
    dispatching,  \* the activation between EngineBody.activate and graph_activated
    wake,         \* _preview_wake
    label,        \* the revision _publish_previews read, or Nil
    attached,     \* SharedMemoryPreviewWriter: _slots,
    pending,      \*   _pending,
    announced,    \*   _announced,
    generation,   \*   _format_generations,
    ready,        \*   _slot_ready: none, waiting or ready,
    latest,       \*   _latest_preview
    lost          \* an announcement or a slot was dropped, or a request failed

parent == <<activations, requested, revision, confirmed, ui, uiReply>>
listener == <<event, step, slotReply, owned, created>>
child == <<engineGraph, childRevision, dispatching>>
publisher == <<wake, label>>
writer == <<attached, pending, announced, generation, ready, latest>>
vars == <<parent, listener, commands, events, memory, child, publisher, writer, lost>>

\* Every variable has its type; the event queue stays within its capacity.
TypeOK ==
    /\ activations \in 0..MaxActivations /\ confirmed \in 0..activations
    /\ requested \in Revisions \cup {Nil}
    /\ revision \in Revisions \cup {Nil}
    /\ ui \in {"idle", "waiting", "clear", "accept"}
    /\ uiReply \in {Nil, "activated", "rejected", "failed"}
    /\ event \in FormatChanged \cup {Nil}
    /\ step \in {"idle", "create", "waiting"}
    /\ slotReply \in {Nil, "configured", "failed"}
    /\ owned \in Slot \cup {Nil}
    /\ created \in SlotIds \cup {0}
    /\ commands \in Seq(ActivateGraph \cup ConfigureSlot)
    /\ events \in Seq(FormatChanged) /\ Len(events) <= QueueCapacity
    /\ memory \in [SlotIds -> Frame \cup {Nil}]
    /\ engineGraph \in Activations \cup {0}
    /\ childRevision \in Revisions \cup {Nil}
    /\ dispatching \in ActivateGraph \cup {Nil}
    /\ wake \in BOOLEAN /\ label \in Revisions \cup {Nil}
    /\ attached \in Slot \cup {Nil}
    /\ pending \in Formats \cup {Nil}
    /\ announced \in Format \cup {Nil}
    /\ generation \in Generations \cup {0}
    /\ ready \in {"none", "waiting", "ready"}
    /\ latest \in Frame \cup {Nil}
    /\ lost \in BOOLEAN

Init ==
    /\ activations = 0 /\ requested = Nil /\ revision = Nil /\ confirmed = 0
    /\ ui = "idle" /\ uiReply = Nil
    /\ event = Nil /\ step = "idle" /\ slotReply = Nil /\ owned = Nil /\ created = 0
    /\ commands = <<>> /\ events = <<>> /\ memory = [i \in SlotIds |-> Nil]
    /\ engineGraph = 0 /\ childRevision = Nil /\ dispatching = Nil
    /\ wake = FALSE /\ label = Nil
    /\ attached = Nil /\ pending = Nil /\ announced = Nil /\ generation = 0
    /\ ready = "none" /\ latest = Nil
    /\ lost = FALSE

-----------------------------------------------------------------------------
(* The writer: SharedMemoryPreviewWriter *)

\* clear: slots, announcements and the retained frame go.
WriterClear ==
    /\ attached' = Nil /\ pending' = Nil /\ announced' = Nil
    /\ generation' = 0 /\ ready' = "none" /\ latest' = Nil

NeedsAnnouncing(f) == announced # Nil => announced.format # f

\* publish_image when no slot of the format is attached: the frame is retained.
Retain(frame) ==
    /\ latest' = frame
    /\ pending' = IF NeedsAnnouncing(frame.format) THEN frame.format ELSE pending
    /\ UNCHANGED <<memory, ready, announced, generation>>

\* PreviewBroker.publish of the running graph. A write that fails gives the
\* slot up.
Publish(f) ==
    LET frame == [graph |-> engineGraph, format |-> f]
        fits == attached # Nil /\ attached.format = f
    IN  /\ engineGraph # 0
        /\ NeedsAnnouncing(f) => generation + engineGraph <= MaxGeneration
        /\ \/ /\ fits
              /\ memory' = [memory EXCEPT ![attached.id] = frame]
              /\ latest' = frame
              /\ ready' = IF ready = "waiting" THEN "ready" ELSE ready
              /\ UNCHANGED <<attached, pending, announced, generation, lost>>
           \/ /\ fits /\ Faults
              /\ attached' = Nil
              /\ Retain(frame)
              /\ lost' = TRUE
           \/ /\ ~fits
              /\ Retain(frame)
              /\ UNCHANGED <<attached, lost>>
        /\ wake' = TRUE
        /\ UNCHANGED <<parent, listener, commands, events, child, label>>

\* _run, _publish_previews: the revision is read first. While a slot awaits its
\* first frame the thread also looks without being woken.
PublisherWake ==
    /\ label = Nil
    /\ wake \/ ready = "waiting"
    /\ wake' = FALSE
    /\ label' = childRevision
    /\ UNCHANGED <<parent, listener, commands, events, memory, child, writer, lost>>

\* _put_event: a full queue drops the event.
PutEvent(e) ==
    IF Len(events) < QueueCapacity
    THEN events' = Append(events, e) /\ UNCHANGED lost
    ELSE UNCHANGED events /\ lost' = TRUE

\* take_pending_announcements: a new format gets the next generation and closes
\* the slot of the former one.
PublisherAnnounce ==
    /\ label # Nil
    /\ \/ /\ pending # Nil
          /\ LET fresh == NeedsAnnouncing(pending)
                 format == IF fresh THEN [generation |-> generation + 1, format |-> pending]
                                    ELSE announced
             IN  /\ announced' = format
                 /\ generation' = format.generation
                 /\ attached' = IF fresh THEN Nil ELSE attached
                 /\ ready' = IF fresh THEN "waiting" ELSE ready
                 /\ PutEvent([revision |-> label, generation |-> format.generation,
                              format |-> format.format])
          /\ pending' = Nil
       \/ /\ pending = Nil
          /\ UNCHANGED <<announced, generation, attached, ready, pending, events, lost>>
    /\ label' = Nil
    /\ UNCHANGED <<parent, listener, commands, memory, child, wake, latest>>

-----------------------------------------------------------------------------
(* The command loop: EngineServer._dispatch *)

RespondUi(activation, outcome) ==
    uiReply' = IF ui = "waiting" /\ activation = activations THEN outcome ELSE uiReply

RespondSlot(slot, outcome) ==
    slotReply' = IF step = "waiting" /\ slot.id = created THEN outcome ELSE slotReply

\* EngineBody.activate: previews of the former graph are cleared. A document
\* without a source stops the engine; preparing may also fail.
DispatchActivate ==
    /\ dispatching = Nil /\ commands # <<>> /\ Head(commands).kind = "activate"
    /\ LET command == Head(commands)
       IN  \/ /\ WriterClear
              /\ engineGraph' = command.activation
              /\ dispatching' = command
              /\ UNCHANGED <<uiReply, lost>>
           \/ /\ WriterClear
              /\ engineGraph' = 0
              /\ RespondUi(command.activation, "rejected")
              /\ UNCHANGED <<dispatching, lost>>
           \/ /\ RespondUi(command.activation, "failed")
              /\ UNCHANGED <<writer, engineGraph, dispatching, lost>>
    /\ commands' = Tail(commands)
    /\ UNCHANGED <<activations, requested, revision, confirmed, ui, listener, events, memory,
                   childRevision, publisher>>

\* The revision follows once the new graph runs already.
DispatchActivated ==
    /\ dispatching # Nil
    /\ childRevision' = dispatching.revision
    /\ RespondUi(dispatching.activation, "activated")
    /\ dispatching' = Nil
    /\ UNCHANGED <<activations, requested, revision, confirmed, ui, listener, commands, events,
                   memory, engineGraph, publisher, writer, lost>>

\* The revision is the active one, the memory is still there and the format is
\* the one announced.
Attachable(slot) ==
    /\ slot.revision = childRevision
    /\ owned = slot
    /\ announced = [generation |-> slot.generation, format |-> slot.format]

\* Mutant: the retained frame is not written.
DispatchConfigureEmpty ==
    /\ dispatching = Nil /\ commands # <<>> /\ Head(commands).kind = "configure"
    /\ LET slot == Head(commands).slot
       IN  \/ /\ Attachable(slot)
              /\ attached' = slot
              /\ RespondSlot(slot, "configured")
              /\ UNCHANGED lost
           \/ /\ ~Attachable(slot)
              /\ RespondSlot(slot, "failed")
              /\ lost' = TRUE
              /\ UNCHANGED attached
    /\ commands' = Tail(commands)
    /\ UNCHANGED <<parent, event, step, owned, created, events, child, publisher,
                   memory, ready, pending, announced, generation, latest>>

\* ConfigurePreviewSlot: attach_slot writes the frame retained so far.
DispatchConfigure ==
    /\ dispatching = Nil /\ commands # <<>> /\ Head(commands).kind = "configure"
    /\ LET slot == Head(commands).slot
           flush == latest # Nil /\ latest.format = slot.format
       IN  \/ /\ Attachable(slot)
              /\ attached' = slot
              /\ memory' = IF flush THEN [memory EXCEPT ![slot.id] = latest] ELSE memory
              /\ ready' = IF flush THEN "ready" ELSE ready
              /\ RespondSlot(slot, "configured")
              /\ UNCHANGED lost
           \/ /\ ~Attachable(slot)
              /\ RespondSlot(slot, "failed")
              /\ lost' = TRUE
              /\ UNCHANGED <<attached, memory, ready>>
    /\ commands' = Tail(commands)
    /\ UNCHANGED <<parent, event, step, owned, created, events, child, publisher,
                   pending, announced, generation, latest>>

-----------------------------------------------------------------------------
(* The UI process: ProcessEngineClient *)

Activate(r) ==
    /\ ui = "idle" /\ activations < MaxActivations
    /\ activations' = activations + 1
    /\ requested' = r
    /\ commands' = Append(commands, [kind |-> "activate",
                                     activation |-> activations + 1, revision |-> r])
    /\ ui' = "waiting" /\ uiReply' = Nil
    /\ UNCHANGED <<revision, confirmed, listener, events, memory, child, publisher,
                   writer, lost>>

UiTimeout ==
    /\ ui = "waiting" /\ uiReply = Nil /\ Faults
    /\ ui' = "idle"
    /\ lost' = TRUE
    /\ UNCHANGED <<activations, requested, revision, confirmed, uiReply, listener, commands,
                   events, memory, child, publisher, writer>>

\* An error is raised; every other answer goes on to clear the slots.
UiAnswered ==
    /\ ui = "waiting" /\ uiReply # Nil
    /\ ui' = IF uiReply = "failed" THEN "idle" ELSE "clear"
    /\ UNCHANGED <<activations, requested, revision, confirmed, uiReply, listener, commands,
                   events, memory, child, publisher, writer, lost>>

\* A slot of the new graph may be among those cleared.
UiClear ==
    /\ ui = "clear"
    /\ owned' = Nil
    /\ lost' = (lost \/ (owned # Nil /\ attached = owned))
    /\ ui' = IF uiReply = "activated" THEN "accept" ELSE "idle"
    /\ UNCHANGED <<activations, requested, revision, confirmed, uiReply, event, step, slotReply,
                   created, commands, events, memory, child, publisher, writer>>

\* From here on the announcements of the new graph are heard.
UiAccept ==
    /\ ui = "accept"
    /\ revision' = requested
    /\ confirmed' = activations
    /\ ui' = "idle"
    /\ UNCHANGED <<activations, requested, uiReply, listener, commands, events, memory,
                   child, publisher, writer, lost>>

\* _handle_async_event: announcements of another revision are ignored.
TakeEvent ==
    /\ step = "idle" /\ events # <<>>
    /\ IF Head(events).revision = revision
       THEN event' = Head(events) /\ step' = "create" /\ UNCHANGED lost
       ELSE lost' = TRUE /\ UNCHANGED <<event, step>>
    /\ events' = Tail(events)
    /\ UNCHANGED <<parent, slotReply, owned, created, commands, memory, child,
                   publisher, writer>>

SameFormat ==
    owned # Nil /\ owned.generation = event.generation /\ owned.format = event.format

\* _configure_preview_slot: the former slot is closed, the new one offered.
CreateSlot ==
    /\ step = "create"
    /\ \/ /\ SameFormat
          /\ step' = "idle" /\ event' = Nil
          /\ lost' = TRUE
          /\ UNCHANGED <<slotReply, owned, created, commands>>
       \/ /\ ~SameFormat
          /\ LET slot == [id |-> created + 1, revision |-> event.revision,
                          generation |-> event.generation, format |-> event.format]
             IN  /\ owned' = slot
                 /\ commands' = Append(commands, [kind |-> "configure", slot |-> slot])
          /\ created' = created + 1
          /\ step' = "waiting" /\ slotReply' = Nil
          /\ UNCHANGED <<event, lost>>
    /\ UNCHANGED <<parent, events, memory, child, publisher, writer>>

\* A slot is kept when the engine took it and the graph is still the same.
Kept(configured) == configured /\ event.revision = revision

\* The request returns, or times out.
SlotAnswered ==
    /\ step = "waiting"
    /\ slotReply # Nil \/ Faults
    /\ owned' = IF Kept(slotReply = "configured") THEN owned ELSE Nil
    /\ lost' = (lost \/ ~Kept(slotReply = "configured"))
    /\ step' = "idle" /\ event' = Nil
    /\ UNCHANGED <<parent, slotReply, created, commands, events, memory, child,
                   publisher, writer>>

-----------------------------------------------------------------------------

Dispatch == DispatchActivate \/ DispatchActivated \/ DispatchConfigure
Announcer == PublisherWake \/ PublisherAnnounce
Ui == UiTimeout \/ UiAnswered \/ UiClear \/ UiAccept
Listener == TakeEvent \/ CreateSlot \/ SlotAnswered

Next ==
    \/ \E f \in Formats : Publish(f)
    \/ Dispatch
    \/ Announcer
    \/ \E r \in Revisions : Activate(r)
    \/ Ui
    \/ Listener

Spec == Init /\ [][Next]_vars

\* The four threads of the handshake go on; frames and edits need not come.
FairSpec == Spec /\ WF_vars(Dispatch) /\ WF_vars(Announcer) /\ WF_vars(Ui) /\ WF_vars(Listener)

-----------------------------------------------------------------------------
(* Properties *)

\* Once an activation is confirmed and until the next one, the UI's slot holds
\* no frame of an earlier graph, and only frames that fit it.
ShownFrameIsCurrent ==
    owned # Nil /\ memory[owned.id] # Nil =>
        /\ memory[owned.id].format = owned.format
        /\ ui = "idle" => memory[owned.id].graph >= confirmed

\* The engine writes only into a slot of the format it announced last.
AttachedAsAnnounced ==
    attached # Nil =>
        announced = [generation |-> attached.generation, format |-> attached.format]

Quiet ==
    /\ commands = <<>> /\ events = <<>> /\ dispatching = Nil
    /\ step = "idle" /\ ui = "idle" /\ label = Nil /\ ~wake

\* When everything has been delivered and nothing was lost on the way, the
\* engine writes into the slot the UI reads, or neither has one.
SidesAgree == Quiet /\ ~lost => attached = owned

\* Until something is lost, an announced format gets its first frame, unless
\* another format or graph takes its place or the last frame has another size.
HandshakeEnds ==
    \A g \in Generations, f \in Formats :
        (announced = [generation |-> g, format |-> f] /\ ready = "waiting") ~>
            \/ ready = "ready"
            \/ announced # [generation |-> g, format |-> f]
            \/ latest # Nil /\ latest.format # f
            \/ lost

=============================================================================
