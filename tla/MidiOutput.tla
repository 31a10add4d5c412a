----------------------------- MODULE MidiOutput -----------------------------
(***************************************************************************)
(* One live MIDI output session: midi/output_service.py with the           *)
(* state-ordering policy of midi/state_ordering.py, driven by the Send     *)
(* MIDI node (nodes/output/midi.py) and by EngineFacade's publish          *)
(* generations (runtime/engine_facade.py).                                 *)
(*                                                                         *)
(* Three threads share the service:                                        *)
(*   - the graph worker runs ticks and publishes desired note states;      *)
(*   - the command thread panics, resets and closes;                       *)
(*   - the sender thread owns the port and does every backend call.        *)
(* What the synthesizers behind the ports play is modelled as well, so     *)
(* that "silent" means silent on the wire and not only in the books.       *)
(***************************************************************************)
EXTENDS Integers, FiniteSets

CONSTANTS
    NoteKeys,    \* MidiNoteKey values (channel and note)
    Channels,    \* MIDI channels
    ChannelOf,   \* the channel of a key
    Ports,       \* backend port identifiers
    Names,       \* display names of ports
    NameOf,      \* the display name of a port
    Frames,      \* what the Send MIDI node may be asked to publish
    DeviceSets,  \* the sets of ports an enumeration may return
    None,        \* Python's None
    MaxGen,      \* bound: ticks executed
    MaxMidiPanics, \* bound: panics requested
    MaxFaults    \* bound: failing backend calls

Policies == {"Ignore", "Retrigger", "Repeat"}

\* The value of the node's output_port parameter: empty, an ID, or a name.
NoSelection == ""
Selections == Ports \cup Names \cup {NoSelection}

Velocity == 1..127
NoteMap == UNION {[K -> Velocity] : K \in SUBSET NoteKeys}
Frame == [notes : NoteMap, port : Selections, policy : Policies,
          threshold : 0..127]

ASSUME ChannelAssumption == ChannelOf \in [NoteKeys -> Channels]
ASSUME NameAssumption == NameOf \in [Ports -> Names] /\ Ports \cap Names = {}
ASSUME SelectionAssumption == NoSelection \notin Ports \cup Names
ASSUME FramesAssumption == Frames \subseteq Frame
ASSUME DevicesAssumption == DeviceSets \subseteq SUBSET Ports
ASSUME BoundsAssumption == MaxGen \in Nat /\ MaxMidiPanics \in Nat /\ MaxFaults \in Nat

\* _DesiredState. gen is not stored by the code: it is the publish generation
\* of the frame it was made from, kept here to state the ordering properties.
Desired == [frame : Frame, gen : Nat]

ASSUME NoneAssumption == None \notin Ports /\ None \notin Desired

VARIABLES
    \* guarded by _condition
    mailbox,         \* the one-slot mailbox
    latest,          \* the last published state, re-applied by a refresh
    senderBusy, closing, senderClosed, refreshRequested,
    panicRequested, panicCompleted,
    staleUpto,       \* StateOrdering._stale_upto_generation
    \* owned by the sender thread
    step,            \* where _run is
    cmd,             \* the desired state in the sender's hand
    panicGen,        \* the panic generation captured when the panic was taken
    clears, offs, ons, \* messages still to send: channels, keys, keys
    port,            \* the open port (_port_name), or None
    selected,        \* _selected_port
    available,       \* _available_port_ids
    sent,            \* _sent: the notes the service believes are on
    used,            \* _used_channels
    connection,      \* _connection_state
    \* the world behind the backend
    sounding,        \* the keys each port's synthesizer is playing
    lossy,           \* channels of each port whose last all-notes-off was lost
    faults,          \* backend failures so far
    \* the two client threads
    gen,             \* EngineFacade._publish_generation
    missingInput,    \* SendMidiRuntime._input_missing
    worker,          \* the graph worker inside SendMidiRuntime
    commander        \* the command thread inside facade.panic or close

shared == <<mailbox, latest, senderBusy, closing, senderClosed, refreshRequested,
            panicRequested, panicCompleted, staleUpto>>
sender == <<step, cmd, panicGen, clears, offs, ons>>
device == <<port, selected, available, sent, used, connection>>
world  == <<sounding, lossy, faults>>
client == <<gen, missingInput, worker, commander>>
midiVars == <<shared, sender, device, world, client>>

SenderPCs == {"wait", "panic", "panicked", "refresh", "reapply", "apply",
              "clear", "send", "rest", "close", "done"}
States == {"UNSELECTED", "CONNECTING", "CONNECTED", "UNAVAILABLE", "ERROR", "CLOSED"}
IdleClient == [pc |-> "idle"]
WorkerStates ==
    {IdleClient}
    \cup [pc : {"stamped", "checked"}, frame : Frame, gen : Nat]
    \cup [pc : {"missing"}, gen : Nat]
    \cup [pc : {"waiting"}, upto : Nat]
CommanderStates ==
    {IdleClient} \cup [pc : {"panicking"}, gen : Nat] \cup [pc : {"waiting"}, upto : Nat]

SharedType ==
    /\ mailbox \in Desired \cup {None}
    /\ latest \in Desired \cup {None}
    /\ senderBusy \in BOOLEAN /\ closing \in BOOLEAN /\ senderClosed \in BOOLEAN
    /\ refreshRequested \in BOOLEAN
    /\ panicRequested \in Nat /\ panicCompleted \in Nat /\ staleUpto \in Nat

SenderType ==
    /\ step \in SenderPCs
    /\ cmd \in Desired \cup {None}
    /\ step \in {"apply", "clear", "send"} => cmd # None
    /\ panicGen \in Nat
    /\ clears \subseteq Channels
    /\ offs \subseteq NoteKeys
    /\ ons \subseteq NoteKeys

DeviceType ==
    /\ port \in Ports \cup {None}
    /\ selected \in Selections
    /\ available \subseteq Ports
    /\ sent \in NoteMap
    /\ used \subseteq Channels
    /\ connection \in States

WorldType ==
    /\ sounding \in [Ports -> SUBSET NoteKeys]
    /\ lossy \in [Ports -> SUBSET Channels]
    /\ faults \in Nat

ClientType ==
    /\ gen \in Nat
    /\ missingInput \in BOOLEAN
    /\ worker \in WorkerStates
    /\ commander \in CommanderStates

\* Every variable has the type the code gives it, and the sender has a state
\* in hand whenever it applies one.
MidiTypeOK == SharedType /\ SenderType /\ DeviceType /\ WorldType /\ ClientType

NothingSent == [k \in {} |-> 0]

MidiInit ==
    /\ mailbox = None /\ latest = None
    /\ senderBusy = FALSE /\ closing = FALSE /\ senderClosed = FALSE
    /\ refreshRequested = TRUE
    /\ panicRequested = 0 /\ panicCompleted = 0 /\ staleUpto = 0
    /\ step = "wait" /\ cmd = None /\ panicGen = 0
    /\ clears = {} /\ offs = {} /\ ons = {}
    /\ port = None /\ selected = NoSelection /\ available = {}
    /\ sent = NothingSent /\ used = {} /\ connection = "UNSELECTED"
    /\ sounding = [p \in Ports |-> {}] /\ lossy = [p \in Ports |-> {}] /\ faults = 0
    /\ gen = 0 /\ missingInput = FALSE /\ worker = IdleClient /\ commander = IdleClient

-----------------------------------------------------------------------------
(* StateOrdering *)

IsStaleFrame(g) == 0 < g /\ g <= staleUpto

RecordMidiPanic(g) == staleUpto' = IF g > staleUpto THEN g ELSE staleUpto

-----------------------------------------------------------------------------
(* The graph worker: a tick reaches the Send MIDI node. *)

\* EngineFacade.tick stamps the tick.
Stamp ==
    /\ gen < MaxGen
    /\ gen' = gen + 1

\* The node receives a state ...
TickState(f) ==
    /\ worker = IdleClient
    /\ Stamp
    /\ worker' = [pc |-> "stamped", frame |-> f, gen |-> gen + 1]
    /\ missingInput' = FALSE
    /\ UNCHANGED <<commander, shared, sender, device, world>>

\* ... or NoData; only the first missing input panics.
TickNoData ==
    /\ worker = IdleClient
    /\ panicRequested < MaxMidiPanics
    /\ Stamp
    /\ worker' = IF missingInput THEN IdleClient ELSE [pc |-> "missing", gen |-> gen + 1]
    /\ missingInput' = TRUE
    /\ UNCHANGED <<commander, shared, sender, device, world>>

\* publish reads the watermark before it takes the lock.
PublishCheck ==
    /\ worker.pc = "stamped"
    /\ worker' = IF IsStaleFrame(worker.gen) THEN IdleClient
                 ELSE [worker EXCEPT !.pc = "checked"]
    /\ UNCHANGED <<gen, missingInput, commander, shared, sender, device, world>>

\* publish under the lock; _ensure_open raises once the service is closing.
PublishDeposit ==
    /\ worker.pc = "checked"
    /\ worker' = IdleClient
    /\ IF closing \/ senderClosed
       THEN UNCHANGED <<mailbox, latest>>
       ELSE /\ mailbox' = [frame |-> worker.frame, gen |-> worker.gen]
            /\ latest' = mailbox'
    /\ UNCHANGED <<senderBusy, closing, senderClosed, refreshRequested, panicRequested,
                   panicCompleted, staleUpto, gen, missingInput, commander,
                   sender, device, world>>

\* The locked part of request_panic and panic, when the service is open.
EnqueuePanic(g) ==
    /\ mailbox' = None /\ latest' = None
    /\ RecordMidiPanic(g)
    /\ panicRequested' = panicRequested + 1
    /\ UNCHANGED <<senderBusy, closing, senderClosed, refreshRequested, panicCompleted>>

RequestPanic ==
    /\ worker.pc = "missing"
    /\ worker' = IdleClient
    /\ IF closing \/ senderClosed THEN UNCHANGED shared ELSE EnqueuePanic(worker.gen)
    /\ UNCHANGED <<gen, missingInput, commander, sender, device, world>>

\* A reset queued to the worker: SendMidiRuntime.reset panics with generation
\* 0, which moves no watermark, and waits for it.
ResetPanic ==
    /\ worker = IdleClient
    /\ panicRequested < MaxMidiPanics
    /\ IF closing \/ senderClosed
       THEN UNCHANGED <<worker, shared>> /\ missingInput' = FALSE
       ELSE /\ EnqueuePanic(0)
            /\ worker' = [pc |-> "waiting", upto |-> panicRequested + 1]
            /\ UNCHANGED missingInput
    /\ UNCHANGED <<gen, commander, sender, device, world>>

ResetServed ==
    /\ worker.pc = "waiting"
    /\ panicCompleted >= worker.upto \/ senderClosed
    /\ worker' = IdleClient
    /\ missingInput' = FALSE
    /\ UNCHANGED <<gen, commander, shared, sender, device, world>>

\* panic raises TimeoutError out of reset.
ResetTimesOut ==
    /\ worker.pc = "waiting"
    /\ panicCompleted < worker.upto /\ ~senderClosed
    /\ worker' = IdleClient
    /\ UNCHANGED <<gen, missingInput, commander, shared, sender, device, world>>

WorkerNext ==
    \/ \E f \in Frames : TickState(f)
    \/ TickNoData
    \/ PublishCheck
    \/ PublishDeposit
    \/ RequestPanic
    \/ ResetPanic
    \/ ResetServed
    \/ ResetTimesOut

-----------------------------------------------------------------------------
(* The command thread. *)

\* EngineFacade.panic reads the generation before any sink is asked to panic.
BeginPanic ==
    /\ commander = IdleClient
    /\ panicRequested < MaxMidiPanics
    /\ commander' = [pc |-> "panicking", gen |-> gen]
    /\ UNCHANGED <<gen, missingInput, worker, shared, sender, device, world>>

CommandPanic ==
    /\ commander.pc = "panicking"
    /\ IF closing \/ senderClosed
       THEN UNCHANGED shared /\ commander' = IdleClient
       ELSE /\ EnqueuePanic(commander.gen)
            /\ commander' = [pc |-> "waiting", upto |-> panicRequested + 1]
    /\ UNCHANGED <<gen, missingInput, worker, sender, device, world>>

\* panic returns once its generation is served, or raises TimeoutError at any
\* time before that: to the service both are the same.
PanicReturn ==
    /\ commander.pc = "waiting"
    /\ commander' = IdleClient
    /\ UNCHANGED <<gen, missingInput, worker, shared, sender, device, world>>

RefreshOutputs ==
    /\ commander = IdleClient
    /\ ~closing /\ ~senderClosed
    /\ refreshRequested' = TRUE
    /\ UNCHANGED <<mailbox, latest, senderBusy, closing, senderClosed, panicRequested,
                   panicCompleted, staleUpto, client, sender, device, world>>

CloseOutput ==
    /\ commander = IdleClient
    /\ ~closing /\ ~senderClosed
    /\ closing' = TRUE
    /\ mailbox' = None /\ latest' = None
    /\ UNCHANGED <<senderBusy, senderClosed, refreshRequested, panicRequested,
                   panicCompleted, staleUpto, client, sender, device, world>>

CommanderNext == BeginPanic \/ CommandPanic \/ PanicReturn \/ RefreshOutputs \/ CloseOutput

-----------------------------------------------------------------------------
(* The sender thread: what to do next, in the order _run tests it. *)

TakeClose ==
    /\ step = "wait" /\ closing
    /\ step' = "close" /\ senderBusy' = TRUE
    /\ UNCHANGED <<mailbox, latest, closing, senderClosed, refreshRequested, panicRequested,
                   panicCompleted, staleUpto, cmd, panicGen, clears, offs, ons,
                   device, world, client>>

\* Mutant: the panic captures a generation one too low.
TakePanicEarlier ==
    /\ step = "wait" /\ ~closing
    /\ panicCompleted < panicRequested
    /\ step' = "panic" /\ senderBusy' = TRUE
    /\ panicGen' = panicRequested - 1
    /\ UNCHANGED <<mailbox, latest, closing, senderClosed, refreshRequested, panicRequested,
                   panicCompleted, staleUpto, cmd, clears, offs, ons,
                   device, world, client>>

TakePanic ==
    /\ step = "wait" /\ ~closing
    /\ panicCompleted < panicRequested
    /\ step' = "panic" /\ senderBusy' = TRUE
    /\ panicGen' = panicRequested
    /\ UNCHANGED <<mailbox, latest, closing, senderClosed, refreshRequested, panicRequested,
                   panicCompleted, staleUpto, cmd, clears, offs, ons,
                   device, world, client>>

\* Requested, or the refresh interval ran out, which may be at any time.
TakeRefresh ==
    /\ step = "wait" /\ ~closing
    /\ panicCompleted >= panicRequested
    /\ step' = "refresh" /\ senderBusy' = TRUE
    /\ refreshRequested' = FALSE
    /\ UNCHANGED <<mailbox, latest, closing, senderClosed, panicRequested, panicCompleted,
                   staleUpto, cmd, panicGen, clears, offs, ons, device, world, client>>

TakeState ==
    /\ step = "wait" /\ ~closing
    /\ panicCompleted >= panicRequested
    /\ ~refreshRequested
    /\ mailbox # None
    /\ step' = "apply" /\ senderBusy' = TRUE
    /\ cmd' = mailbox
    /\ mailbox' = None
    /\ UNCHANGED <<latest, closing, senderClosed, refreshRequested, panicRequested,
                   panicCompleted, staleUpto, panicGen, clears, offs, ons,
                   device, world, client>>

\* The end of the loop body.
Rest ==
    /\ step = "rest"
    /\ step' = "wait" /\ senderBusy' = FALSE
    /\ cmd' = None
    /\ UNCHANGED <<mailbox, latest, closing, senderClosed, refreshRequested, panicRequested,
                   panicCompleted, staleUpto, panicGen, clears, offs, ons,
                   device, world, client>>

-----------------------------------------------------------------------------
(* _panic_current *)

\* Mutant: the channel of the failed message is forgotten.
PanicChannelsTracked(extra) == used \cup {ChannelOf[k] : k \in DOMAIN sent}

PanicChannels(extra) == used \cup {ChannelOf[k] : k \in DOMAIN sent} \cup extra

\* Note-offs for every tracked note, then all-notes-off on every channel used.
\* Any of these sends may fail (lostOffs, lostAlls) and the rest still go out;
\* a failure, this one or the caller's (error = 1), closes the port too. heard
\* is a key whose failed note-on reached the synthesizer all the same.
PanicCurrent(closePort, error, extra, heard) ==
    \E lostOffs \in SUBSET DOMAIN sent, lostAlls \in SUBSET PanicChannels(extra) :
        LET silent == PanicChannels(extra) \ lostAlls
            failed == lostOffs # {} \/ lostAlls # {}
        IN  /\ port = None => ~failed
            /\ faults' = faults + error + (IF failed THEN 1 ELSE 0)
            /\ faults' <= MaxFaults
            /\ sent' = NothingSent /\ used' = {}
            /\ IF port = None
               THEN UNCHANGED <<sounding, lossy>>
               ELSE /\ sounding' = [sounding EXCEPT ![port] =
                            {k \in @ \cup heard : /\ k \notin DOMAIN sent \ lostOffs
                                                  /\ ChannelOf[k] \notin silent}]
                    /\ lossy' = [lossy EXCEPT ![port] = (@ \ silent) \cup lostAlls]
            /\ port' = IF closePort \/ error = 1 \/ failed THEN None ELSE port

\* _resolve_port_id: an ID, or a display name only one device has.
Resolve(selection, devices) ==
    LET matches == {p \in devices : NameOf[p] = selection}
    IN  IF selection \notin devices /\ \E p \in Ports : matches = {p}
        THEN CHOOSE p \in Ports : matches = {p}
        ELSE selection

\* _mark_output_error
OutputErrorState == IF Resolve(selected, available) \in available THEN "ERROR" ELSE "UNAVAILABLE"

\* _handle_send_failure, for a message on channel c.
SendFailure(c, heard) ==
    /\ mailbox' = None /\ latest' = None
    /\ PanicCurrent(TRUE, 1, {c}, heard)
    /\ connection' = OutputErrorState
    /\ step' = "rest"
    /\ clears' = {} /\ offs' = {} /\ ons' = {}
    /\ UNCHANGED <<senderBusy, closing, senderClosed, refreshRequested, panicRequested,
                   panicCompleted, staleUpto, cmd, panicGen, selected, available, client>>

-----------------------------------------------------------------------------
(* The sender thread: panic, close and refresh. *)

PanicSilence ==
    /\ step = "panic"
    /\ PanicCurrent(FALSE, 0, {}, {})
    /\ connection' = IF faults' > faults THEN OutputErrorState ELSE connection
    /\ step' = "panicked"
    /\ UNCHANGED <<shared, cmd, panicGen, clears, offs, ons, selected, available, client>>

\* Mutant: the mailbox is emptied, the state for the refresh is not.
PanicCompleteKeepsLatest ==
    /\ step = "panicked"
    /\ mailbox' = None
    /\ panicCompleted' = IF panicGen > panicCompleted THEN panicGen ELSE panicCompleted
    /\ step' = "rest"
    /\ UNCHANGED <<latest, senderBusy, closing, senderClosed, refreshRequested, panicRequested,
                   staleUpto, cmd, panicGen, clears, offs, ons, device, world, client>>

PanicComplete ==
    /\ step = "panicked"
    /\ mailbox' = None /\ latest' = None
    /\ panicCompleted' = IF panicGen > panicCompleted THEN panicGen ELSE panicCompleted
    /\ step' = "rest"
    /\ UNCHANGED <<senderBusy, closing, senderClosed, refreshRequested, panicRequested,
                   staleUpto, cmd, panicGen, clears, offs, ons, device, world, client>>

CloseStep ==
    /\ step = "close"
    /\ PanicCurrent(TRUE, 0, {}, {})
    /\ connection' = "CLOSED"
    /\ step' = "done" /\ senderBusy' = FALSE /\ senderClosed' = TRUE
    /\ UNCHANGED <<mailbox, latest, closing, refreshRequested, panicRequested,
                   panicCompleted, staleUpto, cmd, panicGen, clears, offs, ons,
                   selected, available, client>>

RefreshPortNames(devices) ==
    /\ step = "refresh"
    /\ available' = devices
    /\ IF port # None /\ port \notin devices
       THEN PanicCurrent(TRUE, 0, {}, {}) /\ connection' = "UNAVAILABLE"
       ELSE /\ UNCHANGED <<port, sent, used, world>>
            /\ connection' = CASE selected = NoSelection -> "UNSELECTED"
                          [] selected # NoSelection /\ Resolve(selected, devices) \notin devices
                                -> "UNAVAILABLE"
                          [] OTHER -> connection
    /\ step' = "reapply"
    /\ UNCHANGED <<shared, cmd, panicGen, clears, offs, ons, selected, client>>

\* The enumeration raises.
RefreshFailure ==
    /\ step = "refresh"
    /\ mailbox' = None /\ latest' = None
    /\ PanicCurrent(TRUE, 1, {}, {})
    /\ available' = {}
    /\ connection' = IF selected # NoSelection \/ port # None THEN "ERROR" ELSE connection
    /\ step' = "reapply"
    /\ UNCHANGED <<senderBusy, closing, senderClosed, refreshRequested, panicRequested,
                   panicCompleted, staleUpto, cmd, panicGen, clears, offs, ons,
                   selected, client>>

\* The latest state is applied again after every refresh.
Reapply ==
    /\ step = "reapply"
    /\ step' = IF latest = None THEN "rest" ELSE "apply"
    /\ cmd' = latest
    /\ UNCHANGED <<shared, panicGen, clears, offs, ons, device, world, client>>

-----------------------------------------------------------------------------
(* The sender thread: _apply_desired. *)

Target == Resolve(cmd.frame.port, available)

ApplySwitch ==
    /\ step = "apply"
    /\ port # None /\ port # Target
    /\ PanicCurrent(TRUE, 0, {}, {})
    /\ UNCHANGED <<shared, sender, selected, available, connection, client>>

ApplyUnselected ==
    /\ step = "apply"
    /\ port = None /\ cmd.frame.port = NoSelection
    /\ selected' = NoSelection
    /\ connection' = "UNSELECTED"
    /\ step' = "rest"
    /\ UNCHANGED <<shared, cmd, panicGen, clears, offs, ons, port, available,
                   sent, used, world, client>>

ApplyUnavailable ==
    /\ step = "apply"
    /\ port = None /\ cmd.frame.port # NoSelection
    /\ Target \notin available
    /\ selected' = cmd.frame.port
    /\ connection' = "UNAVAILABLE"
    /\ step' = "rest"
    /\ UNCHANGED <<shared, cmd, panicGen, clears, offs, ons, port, available,
                   sent, used, world, client>>

ApplyOpenFails ==
    /\ step = "apply"
    /\ port = None /\ Target \in available
    /\ faults < MaxFaults
    /\ faults' = faults + 1
    /\ selected' = cmd.frame.port
    /\ connection' = "ERROR"
    /\ step' = "rest"
    /\ UNCHANGED <<shared, cmd, panicGen, clears, offs, ons, port, available,
                   sent, used, sounding, lossy, client>>

ApplyOpen ==
    /\ step = "apply"
    /\ port = None /\ Target \in available
    /\ selected' = cmd.frame.port
    /\ port' = Target
    /\ connection' = "CONNECTING"
    /\ clears' = {ChannelOf[k] : k \in DOMAIN cmd.frame.notes}
    /\ step' = "clear"
    /\ UNCHANGED <<shared, cmd, panicGen, offs, ons, available, sent, used, world, client>>

\* All-notes-off on the channels about to be used.
ClearChannel(c) ==
    /\ step = "clear" /\ c \in clears
    /\ clears' = clears \ {c}
    /\ sounding' = [sounding EXCEPT ![port] = {k \in @ : ChannelOf[k] # c}]
    /\ lossy' = [lossy EXCEPT ![port] = @ \ {c}]
    /\ UNCHANGED <<shared, step, cmd, panicGen, offs, ons, device, faults, client>>

ClearFails(c) ==
    /\ step = "clear" /\ c \in clears
    /\ SendFailure(c, {})

\* _reconcile: the keys to stop, and the keys to start or start again.
Changed(k) ==
    LET old == sent[k]
        new == cmd.frame.notes[k]
        distance == IF new > old THEN new - old ELSE old - new
    IN  new # old /\ distance >= cmd.frame.threshold
Removed == DOMAIN sent \ DOMAIN cmd.frame.notes
Added == DOMAIN cmd.frame.notes \ DOMAIN sent
Updated == {k \in DOMAIN sent \cap DOMAIN cmd.frame.notes : Changed(k)}
Offs == Removed \cup (IF cmd.frame.policy = "Retrigger" THEN Updated ELSE {})
Ons == Added \cup (IF cmd.frame.policy = "Ignore" THEN {} ELSE Updated)

Plan == offs' = Offs /\ ons' = Ons /\ step' = "send"

\* The port was open already ...
Reconcile ==
    /\ step = "apply"
    /\ port # None /\ port = Target
    /\ selected' = cmd.frame.port
    /\ Plan
    /\ UNCHANGED <<shared, cmd, panicGen, clears, port, available, sent, used, connection,
                   world, client>>

\* ... or was opened just now.
ReconcileNew ==
    /\ step = "clear" /\ clears = {}
    /\ connection' = "CONNECTED"
    /\ Plan
    /\ UNCHANGED <<shared, cmd, panicGen, clears, port, selected, available, sent, used,
                   world, client>>

SendNoteOff(k) ==
    /\ step = "send" /\ k \in offs
    /\ offs' = offs \ {k}
    /\ sent' = [x \in DOMAIN sent \ {k} |-> sent[x]]
    /\ sounding' = [sounding EXCEPT ![port] = @ \ {k}]
    /\ UNCHANGED <<shared, step, cmd, panicGen, clears, ons, port, selected, available,
                   used, connection, lossy, faults, client>>

\* Every note-off goes out before the first note-on.
SendNoteOn(k) ==
    /\ step = "send" /\ offs = {} /\ k \in ons
    /\ ons' = ons \ {k}
    /\ sent' = [x \in DOMAIN sent \cup {k} |->
                    IF x = k THEN cmd.frame.notes[k] ELSE sent[x]]
    /\ used' = used \cup {ChannelOf[k]}
    /\ sounding' = [sounding EXCEPT ![port] = @ \cup {k}]
    /\ UNCHANGED <<shared, step, cmd, panicGen, clears, offs, port, selected, available,
                   connection, lossy, faults, client>>

SendNoteOffFails(k) ==
    /\ step = "send" /\ k \in offs
    /\ SendFailure(ChannelOf[k], {})

\* The message that raised may have been delivered.
SendNoteOnFails(k) ==
    /\ step = "send" /\ offs = {} /\ k \in ons
    /\ \E heard \in {{}, {k}} : SendFailure(ChannelOf[k], heard)

SendDone ==
    /\ step = "send" /\ offs = {} /\ ons = {}
    /\ step' = "rest"
    /\ UNCHANGED <<shared, cmd, panicGen, clears, offs, ons, device, world, client>>

SenderNext ==
    \/ TakeClose \/ TakePanic \/ TakeRefresh \/ TakeState \/ Rest
    \/ PanicSilence \/ PanicComplete \/ CloseStep
    \/ \E devices \in DeviceSets : RefreshPortNames(devices)
    \/ RefreshFailure \/ Reapply
    \/ ApplySwitch \/ ApplyUnselected \/ ApplyUnavailable \/ ApplyOpenFails \/ ApplyOpen
    \/ \E c \in Channels : ClearChannel(c) \/ ClearFails(c)
    \/ Reconcile \/ ReconcileNew
    \/ \E k \in NoteKeys : \/ SendNoteOff(k) \/ SendNoteOn(k)
                           \/ SendNoteOffFails(k) \/ SendNoteOnFails(k)
    \/ SendDone

-----------------------------------------------------------------------------
\* A closed service whose clients are done does nothing more.
Stopped == step = "done" /\ worker = IdleClient /\ commander = IdleClient /\ UNCHANGED midiVars

MidiNext == WorkerNext \/ CommanderNext \/ SenderNext \/ Stopped

MidiSpec == MidiInit /\ [][MidiNext]_midiVars

\* The sender thread runs until it is closed and every backend call returns;
\* a publish, once begun, is carried through. Nobody is obliged to tick,
\* panic, refresh or close.
Fairness ==
    /\ WF_midiVars(SenderNext)
    /\ WF_midiVars(PublishCheck \/ PublishDeposit \/ RequestPanic)

FairMidiSpec == MidiSpec /\ Fairness

-----------------------------------------------------------------------------
(* Properties *)

\* Every note a synthesizer plays is tracked in _sent on the open port, unless
\* the all-notes-off for its channel was lost in a failed send: no switch,
\* disappearance, error, panic or close leaves a note behind that a working
\* port would have been told to stop (_panic_current, _handle_send_failure).
SoundingNotesAreOwned ==
    \A p \in Ports : \A k \in sounding[p] :
        \/ p = port /\ k \in DOMAIN sent
        \/ ChannelOf[k] \in lossy[p]

\* wait_until_idle's condition
IsIdle ==
    mailbox = None /\ ~senderBusy /\ ~refreshRequested /\ panicCompleted >= panicRequested

\* A note held under a policy other than Ignore is never further from the
\* velocity asked for than the threshold allows (_reconcile).
HeldVelocityWithinThreshold ==
    \A k \in DOMAIN sent :
        LET old == sent[k]
            new == latest.frame.notes[k]
        IN  \/ latest.frame.policy = "Ignore" \/ old = new
            \/ (IF new > old THEN new - old ELSE old - new) < latest.frame.threshold

\* An idle service that holds a published state plays exactly that state's
\* keys, within its threshold, on the port it names; when the last state was
\* withdrawn (by a panic, a send failure, a failed enumeration) it plays
\* nothing. A port that it reports as connected is open.
IdleMatchesLatest ==
    /\ IsIdle /\ ~closing =>
        \/ latest = None /\ DOMAIN sent = {}
        \/ /\ latest # None
           /\ port = None => DOMAIN sent = {}
           /\ port # None => /\ port = Resolve(latest.frame.port, available)
                             /\ DOMAIN sent = DOMAIN latest.frame.notes
                             /\ HeldVelocityWithinThreshold
    /\ connection = "CONNECTED" /\ step \in {"wait", "rest"} => port # None

\* The panics that were requested are served in the end, whatever is published
\* meanwhile, unless the service is closed first.
PanicIsServed ==
    panicRequested > panicCompleted ~> panicRequested = panicCompleted \/ senderClosed

\* ADR 0022: a sink must not be re-armed by a state generated before a panic
\* and delivered after it. Once every requested panic is served, no state at
\* or below the watermark waits to be applied or is being applied.
NotReArmed ==
    panicCompleted >= panicRequested /\ step \notin {"panic", "panicked"} =>
        /\ mailbox # None => ~IsStaleFrame(mailbox.gen)
        /\ step \in {"apply", "clear", "send"} => ~IsStaleFrame(cmd.gen)
=============================================================================
