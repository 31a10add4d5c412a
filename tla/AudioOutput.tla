----------------------------- MODULE AudioOutput -----------------------------
(***************************************************************************)
(* The Generate Audio node and its service thread (nodes/output/audio.py). *)
(* The graph thread hands the service the latest note state; the service   *)
(* opens, replaces and closes the synthesizer, which is slow, and a state  *)
(* that meets an open synthesizer is published directly. A panic comes     *)
(* from the command thread. _condition is held for one step at a time; the *)
(* calls into the synthesizer are made outside of it.                      *)
(*                                                                         *)
(* SynthState is the synthesizer made last. A thread may still hold the    *)
(* one before, which has been closed and ignores it.                       *)
(***************************************************************************)
EXTENDS SynthState

CONSTANTS
    Configurations,
    MaxCalls,        \* bound: calls that count a generation
    Nil              \* Python's None

\* None is neither a configuration nor a command.
ASSUME NilAssumption ==
    /\ Nil \notin Configurations
    /\ Nil \notin [call : Nat, configuration : Configurations \cup {Nil},
                  notes : Notes, stamp : Nat]

VARIABLES
    \* EngineFacade and GenerateAudioRuntime
    clock,           \* _publish_generation
    inputMissing,    \* _input_missing
    graph,           \* the graph thread between its two steps: Idle, update or panic
    command,         \* the command thread: Idle, begun or panic
    \* _DebugAudioOutputService
    generation, pending, busy, stopped, synth, configuration, failed,
    \* its thread
    pc,              \* idle, detach, silence, close, open, assign, check, update, stale, latch or ended
    work,            \* the command it applies
    ref,             \* the synthesizer _close_current took
    after,           \* where it goes once that is closed
    made,            \* synthesizers made so far
    \* history
    playing,         \* the call whose notes are desired, or 0
    cut,             \* the calls the last panic of the command thread came after
    last             \* the last state published, unless a panic, a reset or disable followed

node == <<clock, inputMissing>>
service == <<generation, pending, busy, stopped, synth, configuration, failed>>
thread == <<pc, work, ref, after, made>>
history == <<playing, cut, last>>
vars == <<state, node, graph, command, service, thread, history>>

Idle == [pc |-> "idle"]
Calls == 0..MaxCalls
Work == [call : Calls, configuration : Configurations \cup {Nil}, notes : Notes, stamp : Stamps]
Closing(call) == [call |-> call, configuration |-> Nil, notes |-> NoNotes, stamp |-> 0]

\* Every variable has its type.
TypeOK ==
    /\ StateOK
    /\ clock \in Stamps /\ inputMissing \in BOOLEAN
    /\ graph \in {Idle}
         \cup [pc : {"update"}, synth : Calls, work : Work]
         \cup [pc : {"panic"}, synth : Calls, stamp : Stamps]
    /\ command \in {Idle} \cup [pc : {"begun"}, stamp : Stamps, upto : Calls]
         \cup [pc : {"panic"}, synth : Calls, stamp : Stamps, upto : Calls]
    /\ generation \in Calls
    /\ pending \in Work \cup {Nil}
    /\ busy \in BOOLEAN /\ stopped \in BOOLEAN
    /\ synth \in Calls /\ made \in Calls /\ ref \in Calls
    /\ configuration \in Configurations \cup {Nil}
    /\ failed \in Configurations \cup {Nil}
    /\ pc \in {"idle", "detach", "silence", "close", "open", "assign", "check",
               "update", "stale", "latch", "ended"}
    /\ after \in {"idle", "open", "latch", "ended"}
    /\ work \in Work \cup {Nil}
    /\ playing \in Calls /\ cut \in Calls
    /\ last \in Work \cup {Nil}

Init ==
    /\ desired = [notes |-> NoNotes, panics |-> 0] /\ watermark = 0 /\ closed = TRUE /\ armed = {}
    /\ clock = 0 /\ inputMissing = FALSE /\ graph = Idle /\ command = Idle
    /\ generation = 0 /\ pending = Nil /\ busy = FALSE /\ stopped = FALSE
    /\ synth = 0 /\ configuration = Nil /\ failed = Nil
    /\ pc = "idle" /\ work = Nil /\ ref = 0 /\ after = "idle" /\ made = 0
    /\ playing = 0 /\ cut = 0 /\ last = Nil

-----------------------------------------------------------------------------
(* Calls into a synthesizer: one that is not the last made is closed. *)

SynthUpdate(s, w) ==
    IF s = made /\ ~closed /\ ~IsStale(w.stamp)
    THEN /\ Update(w.notes, w.stamp)
         /\ playing' = IF w.notes = NoNotes THEN 0 ELSE w.call
    ELSE UNCHANGED <<state, playing>>

SynthPanic(s, stamp) ==
    IF s # 0 /\ s = made
    THEN Panic(stamp) /\ playing' = 0
    ELSE UNCHANGED <<state, playing>>

SynthClose(s) ==
    IF s # 0 /\ s = made /\ ~closed
    THEN Close /\ playing' = 0
    ELSE UNCHANGED <<state, playing>>

-----------------------------------------------------------------------------
(* The graph thread: GenerateAudioRuntime *)

Counted == generation < MaxCalls /\ generation' = generation + 1

\* A tick: EngineFacade stamps it.
Tick == graph = Idle /\ clock < MaxStamp /\ clock' = clock + 1

\* Mutant: a busy service is bypassed.
DirectlyWhileBusy(c) == synth # 0 /\ configuration = c /\ pending = Nil

Directly(c) == synth # 0 /\ configuration = c /\ ~busy /\ pending = Nil

\* publish: a configuration that failed is refused until another one comes.
Publish(c, notes) ==
    /\ Tick /\ ~stopped
    /\ inputMissing' = FALSE
    /\ \/ /\ failed # c
          /\ Counted
          /\ failed' = Nil
          /\ LET w == [call |-> generation + 1, configuration |-> c, notes |-> notes,
                       stamp |-> clock + 1]
             IN  /\ IF Directly(c)
                    THEN graph' = [pc |-> "update", synth |-> synth, work |-> w]
                         /\ UNCHANGED pending
                    ELSE pending' = w /\ UNCHANGED graph
                 /\ last' = IF command = Idle THEN w ELSE Nil
       \/ /\ failed = c
          /\ UNCHANGED <<graph, generation, pending, failed, last>>
    /\ UNCHANGED <<state, command, busy, stopped, synth, configuration, thread, playing, cut>>

PublishUpdate ==
    /\ graph.pc = "update"
    /\ SynthUpdate(graph.synth, graph.work)
    /\ graph' = Idle
    /\ UNCHANGED <<node, command, service, thread, cut, last>>

\* disable does nothing to a service that has nothing open.
Disable ==
    /\ Tick /\ ~stopped
    /\ failed' = Nil
    /\ \/ /\ configuration # Nil \/ pending # Nil \/ busy
          /\ Counted
          /\ pending' = Closing(generation + 1)
       \/ /\ configuration = Nil /\ pending = Nil /\ ~busy
          /\ UNCHANGED <<generation, pending>>
    /\ last' = Nil
    /\ UNCHANGED <<state, inputMissing, graph, command, busy, stopped, synth, configuration,
                   thread, playing, cut>>

\* The first half of panic, under the lock.
DropPending == ~stopped /\ Counted /\ pending' = Nil /\ last' = Nil

GraphPanic(stamp) ==
    /\ DropPending
    /\ graph' = [pc |-> "panic", synth |-> synth, stamp |-> stamp]
    /\ UNCHANGED <<state, command, busy, stopped, synth, configuration, failed, thread,
                   playing, cut>>

\* One panic for each absence of the input.
NoData == Tick /\ ~inputMissing /\ inputMissing' = TRUE /\ GraphPanic(clock + 1)

\* A reset has no tick and raises no watermark.
Reset == graph = Idle /\ inputMissing' = FALSE /\ UNCHANGED clock /\ GraphPanic(0)

GraphPanicSynth ==
    /\ graph.pc = "panic"
    /\ SynthPanic(graph.synth, graph.stamp)
    /\ graph' = Idle
    /\ UNCHANGED <<node, command, service, thread, cut, last>>

\* close, followed by its panic; joining the thread is not waited for here.
Stop ==
    /\ graph = Idle /\ ~stopped /\ Counted
    /\ stopped' = TRUE
    /\ pending' = Nil /\ last' = Nil
    /\ graph' = [pc |-> "panic", synth |-> synth, stamp |-> 0]
    /\ UNCHANGED <<state, node, command, busy, synth, configuration, failed, thread, playing, cut>>

-----------------------------------------------------------------------------
(* The command thread *)

\* EngineFacade.panic reads the generation first.
PanicBegin ==
    /\ command = Idle
    /\ command' = [pc |-> "begun", stamp |-> clock, upto |-> generation]
    /\ UNCHANGED <<state, node, graph, service, thread, history>>

PanicRequest ==
    /\ command.pc = "begun"
    /\ \/ /\ DropPending
          /\ command' = [pc |-> "panic", synth |-> synth, stamp |-> command.stamp,
                         upto |-> command.upto]
       \/ /\ stopped
          /\ command' = Idle
          /\ UNCHANGED <<generation, pending, last>>
    /\ UNCHANGED <<state, node, graph, busy, stopped, synth, configuration, failed, thread,
                   playing, cut>>

PanicSynth ==
    /\ command.pc = "panic"
    /\ SynthPanic(command.synth, command.stamp)
    /\ command' = Idle
    /\ last' = Nil /\ cut' = command.upto
    /\ UNCHANGED <<node, graph, service, thread>>

-----------------------------------------------------------------------------
(* The service thread: _run, _apply, _close_current *)

Take ==
    /\ pc = "idle" /\ pending # Nil /\ ~stopped
    /\ work' = pending /\ pending' = Nil /\ busy' = TRUE
    /\ IF pending.configuration = configuration
       THEN /\ pc' = IF configuration = Nil THEN "detach" ELSE "check"
            /\ after' = "idle"
       ELSE /\ pc' = "detach"
            /\ after' = IF pending.configuration = Nil THEN "idle" ELSE "open"
    /\ UNCHANGED <<state, node, graph, command, generation, stopped, synth, configuration,
                   failed, ref, made, history>>

\* The thread goes to a step; applying a command ends with busy cleared.
Goto(step) == pc' = step /\ busy' = (step \notin {"idle", "ended"} /\ busy)

Detach ==
    /\ pc = "detach"
    /\ ref' = synth /\ synth' = 0 /\ configuration' = Nil
    /\ Goto(IF synth = 0 THEN after ELSE "silence")
    /\ UNCHANGED <<state, node, graph, command, generation, pending, stopped, failed,
                   work, after, made, history>>

SilenceRef ==
    /\ pc = "silence"
    /\ SynthPanic(ref, 0)
    /\ pc' = "close"
    /\ UNCHANGED <<node, graph, command, service, work, ref, after, made, cut, last>>

CloseRef ==
    /\ pc = "close"
    /\ SynthClose(ref)
    /\ Goto(after)
    /\ UNCHANGED <<node, graph, command, generation, pending, stopped, synth, configuration,
                   failed, work, ref, after, made, cut, last>>

\* _synth_factory makes a synthesizer, or raises and leaves none behind.
Open ==
    /\ pc = "open"
    /\ \/ /\ made' = made + 1
          /\ desired' = [notes |-> NoNotes, panics |-> 0] /\ watermark' = 0
          /\ closed' = FALSE /\ armed' = {} /\ playing' = 0
          /\ pc' = "assign"
       \/ /\ pc' = "latch"
          /\ UNCHANGED <<state, made, playing>>
    /\ UNCHANGED <<node, graph, command, service, work, ref, after, cut, last>>

Assign ==
    /\ pc = "assign"
    /\ synth' = made /\ configuration' = work.configuration
    /\ pc' = "check"
    /\ UNCHANGED <<state, node, graph, command, generation, pending, busy, stopped, failed,
                   work, ref, after, made, history>>

\* Mutant: only a closed service discards the command.
IsCurrentUnlessStopped == ~stopped

IsCurrent == work.call = generation /\ ~stopped

Check ==
    /\ pc = "check"
    /\ pc' = IF IsCurrent THEN "update" ELSE "stale"
    /\ UNCHANGED <<state, node, graph, command, service, work, ref, after, made, history>>

ApplyUpdate ==
    /\ pc = "update"
    /\ SynthUpdate(synth, work)
    /\ Goto("idle")
    /\ UNCHANGED <<node, graph, command, generation, pending, stopped, synth, configuration,
                   failed, work, ref, after, made, cut, last>>

ApplyStale ==
    /\ pc = "stale"
    /\ SynthPanic(synth, 0)
    /\ Goto("idle")
    /\ UNCHANGED <<node, graph, command, generation, pending, stopped, synth, configuration,
                   failed, work, ref, after, made, cut, last>>

\* The failure is kept unless another call came meanwhile.
Latch ==
    /\ pc = "latch"
    /\ failed' = IF IsCurrent THEN work.configuration ELSE failed
    /\ Goto("idle")
    /\ UNCHANGED <<state, node, graph, command, generation, pending, stopped, synth,
                   configuration, work, ref, after, made, history>>

\* The thread of a closed service closes the synthesizer and ends.
Exit ==
    /\ pc = "idle" /\ stopped
    /\ pc' = "detach" /\ after' = "ended"
    /\ UNCHANGED <<state, node, graph, command, service, work, ref, made, history>>

Service ==
    \/ Take \/ Detach \/ SilenceRef \/ CloseRef \/ Open \/ Assign \/ Check
    \/ ApplyUpdate \/ ApplyStale \/ Latch \/ Exit

Graph ==
    \/ \E c \in Configurations, notes \in Notes : Publish(c, notes)
    \/ PublishUpdate \/ Disable \/ NoData \/ Reset \/ GraphPanicSynth \/ Stop

Command == PanicBegin \/ PanicRequest \/ PanicSynth

Next == Service \/ Graph \/ Command

Spec == Init /\ [][Next]_vars

\* The three threads are scheduled; no call has to be made.
FairSpec ==
    /\ Spec
    /\ WF_vars(Service) /\ WF_vars(PublishUpdate \/ GraphPanicSynth) /\ WF_vars(PanicSynth)

-----------------------------------------------------------------------------
(* Properties *)

\* A panic of the command thread, once it returned, covers every state the
\* service had accepted when it began: whether it was waiting, being applied to a
\* synthesizer still opening, or on its way to one, it does not sound, unless the
\* thread is closing the synthesizer that plays it at this moment.
PanicCoversAccepted ==
    command = Idle /\ pc \notin {"silence", "close"} => playing = 0 \/ playing > cut

Settled == pc = "idle" /\ pending = Nil /\ graph = Idle /\ command = Idle /\ ~stopped

\* A service that has settled plays the last state published, with its
\* configuration, however many were superseded while the device was opening.
PlaysLatest ==
    Settled /\ last # Nil /\ failed = Nil =>
        /\ synth = made /\ ~closed /\ configuration = last.configuration
        /\ desired.notes = [k \in Loudest(last.notes) |-> last.notes[k]]

\* A device is opened only when the former one is closed.
OneDeviceAtATime == pc = "open" => closed

\* A failure is reported only while nothing is open and nothing is waiting that
\* could still open the device.
FailureIsFinal == failed # Nil /\ ~stopped => synth = 0 /\ pending = Nil /\ closed

\* A thread that has ended, also in the middle of opening a device, leaves
\* silence behind.
EndsSilent == pc = "ended" => closed /\ synth = 0 /\ desired.notes = NoNotes

\* What sounds is what was published last, on one device at a time, and neither
\* a failure nor the end of the service leaves a device or a note behind.
DeviceFollowsState == PlaysLatest /\ OneDeviceAtATime /\ FailureIsFinal /\ EndsSilent
=============================================================================
