-------------------------- MODULE AudioOutputProofs --------------------------
(***************************************************************************)
(* Theorems about the audio output (AudioOutput.tla) for any notes,        *)
(* configurations and number of calls: a panic covers what the service had *)
(* accepted, and what sounds is what was published last, on one device at  *)
(* a time.                                                                 *)
(***************************************************************************)
EXTENDS AudioOutput, TLAPS

\* A command with the number of a call and the stamp of a tick.
Job == [call : Nat, configuration : Configurations \cup {Nil}, notes : Notes, stamp : Nat]

Shape ==
    /\ desired = [notes |-> desired.notes, panics |-> desired.panics]
    /\ watermark \in Nat /\ clock \in Nat /\ generation \in Nat
    /\ made \in Nat /\ playing \in Nat /\ cut \in Nat
    /\ graph \in {Idle} \cup [pc : {"update"}, synth : Nat, work : Job]
                        \cup [pc : {"panic"}, synth : Nat, stamp : Nat]
    /\ command \in {Idle} \cup [pc : {"begun"}, stamp : Nat, upto : Nat]
                          \cup [pc : {"panic"}, synth : Nat, stamp : Nat, upto : Nat]
    /\ pending \in Job \cup {Nil} /\ work \in Job \cup {Nil} /\ last \in Job \cup {Nil}
    /\ pc \in {"idle", "detach", "silence", "close", "open", "assign", "check",
               "update", "stale", "latch", "ended"}
    /\ after \in {"idle", "open", "ended"}

\* Which synthesizer is where: the service knows the one made last or none, and
\* only while the service closes or opens one does the other side see an open
\* synthesizer that the service does not know.
Wired ==
    /\ synth \in {0, made}
    /\ synth = 0 <=> configuration = Nil
    /\ synth # 0 => ~closed
    /\ synth = 0 /\ pc \notin {"silence", "close", "assign"} => closed
    /\ closed => playing = 0 /\ desired.notes = NoNotes
    /\ pc \in {"silence", "close", "open", "assign", "latch", "ended"} => synth = 0
    /\ pc \in {"silence", "close"} => ref = made /\ made # 0
    /\ pc = "assign" => playing = 0 /\ made # 0 /\ ~closed
    /\ pc \in {"check", "update", "stale"} => synth # 0

\* What the service thread does, and that it alone keeps the service busy.
Threaded ==
    /\ after = "ended" => stopped /\ pc \in {"detach", "silence", "close", "ended"}
    /\ pc = "ended" => after = "ended"
    /\ pc = "idle" => ~busy
    /\ pc # "idle" /\ after # "ended" => busy /\ work # Nil
    /\ pc \in {"detach", "silence", "close"} /\ after = "open" => work.configuration # Nil
    /\ pc \in {"open", "assign", "latch"} => work.configuration # Nil
    /\ pc \in {"check", "update", "stale"} => work.configuration = configuration

\* A state on its way to the synthesizer meets an idle service that knows it.
Direct ==
    graph.pc = "update" =>
        /\ pc = "idle" /\ pending = Nil /\ ~stopped
        /\ synth # 0 /\ graph.synth = synth
        /\ graph.work.configuration = configuration

\* Calls are numbered in their order, ticks stamped in theirs.
Sequel(w) == w.call >= 1 /\ w.call <= generation /\ w.stamp <= clock
               /\ (w.configuration # Nil => w.stamp >= 1)
Numbered ==
    /\ watermark <= clock
    /\ pending # Nil => Sequel(pending) /\ pending.call = generation
    /\ work # Nil => Sequel(work) /\ (pending # Nil => work.call < generation)
    /\ graph.pc = "update" => Sequel(graph.work)
    /\ graph.pc = "panic" => graph.stamp <= clock
    /\ playing <= generation
    /\ cut = 0 \/ cut < generation
    /\ command.pc \in {"begun", "panic"} => command.stamp <= clock /\ command.upto <= generation
    /\ command.pc = "panic" => command.upto < generation

\* A panic that has begun carries the stamp of every state accepted before it.
Stamped ==
    command.pc \in {"begun", "panic"} =>
        /\ pending # Nil /\ pending.call <= command.upto => pending.stamp <= command.stamp
        /\ work # Nil /\ work.call <= command.upto => work.stamp <= command.stamp
        /\ graph.pc = "update" /\ graph.work.call <= command.upto =>
             graph.work.stamp <= command.stamp

\* What a panic on its way has yet to silence is on the synthesizer it goes to.
Aimed ==
    command.pc = "panic" =>
        /\ pc = "update" /\ work.call <= command.upto => command.synth = made
        /\ graph.pc = "update" /\ graph.work.call <= command.upto => command.synth = made
        /\ playing # 0 /\ playing <= command.upto =>
             command.synth = made \/ pc \in {"silence", "close"}

\* What the last panic came after does not sound, and will be refused.
Silenced ==
    /\ playing # 0 /\ playing <= cut => pc \in {"silence", "close"}
    /\ pc = "update" /\ work.call <= cut => IsStale(work.stamp)
    /\ graph.pc = "update" /\ graph.work.call <= cut => IsStale(graph.work.stamp)

\* Where the last state published is: waiting, on its way to the synthesizer,
\* with the service thread, playing, or given up with the device.
Sounding(w) ==
    /\ synth # 0 /\ configuration = w.configuration
    /\ desired.notes = [k \in Loudest(w.notes) |-> w.notes[k]]
Tracked ==
    last # Nil =>
        /\ last.configuration # Nil /\ last.call = generation /\ watermark < last.stamp
        /\ ~stopped /\ command.pc # "panic" /\ graph.pc # "panic"
        /\ pending = Nil \/ pending = last
        /\ \/ pending = last
           \/ graph.pc = "update" /\ graph.work = last
           \/ /\ graph.pc # "update" /\ work = last
              /\ \/ pc \in {"detach", "silence", "close"} /\ after = "open"
                 \/ pc \in {"open", "assign", "check", "update", "latch"}
           \/ graph.pc # "update" /\ pc = "idle" /\ Sounding(last)
           \/ failed # Nil

\* A failure leaves nothing open and nothing waiting.
Failed ==
    failed # Nil =>
        /\ pending = Nil /\ synth = 0 /\ closed
        /\ pc = "idle" \/ after = "ended"

Inv ==
    /\ Shape /\ Wired /\ Threaded /\ Direct /\ Numbered
    /\ Stamped /\ Aimed /\ Silenced /\ Tracked /\ Failed

-----------------------------------------------------------------------------
(* The invariant of the steps. *)

\* The mark for nothing is not a configuration, nor a command.
LEMMA NilIsNoJob == Nil \notin Configurations /\ Nil \notin Job
  BY NilAssumption DEF Job

LEMMA NoNotesFacts == NoNotes \in Notes
<1>1. NoNotes \in [{} -> Velocities]
  BY DEF NoNotes
<1> QED
  BY <1>1 DEF Notes

LEMMA InitInv == Init => Inv
<1> SUFFICES ASSUME Init PROVE Inv
  OBVIOUS
<1>1. Shape /\ Wired /\ Threaded
  BY DEF Init, Shape, Wired, Threaded, Idle
<1>2. Direct /\ Numbered /\ Stamped /\ Aimed
  BY DEF Init, Direct, Numbered, Stamped, Aimed, Idle
<1>3. Silenced /\ Tracked /\ Failed
  BY DEF Init, Silenced, Tracked, Failed, Idle
<1> QED
  BY <1>1, <1>2, <1>3 DEF Inv

\* A state goes to the synthesizer only where the service is idle and knows it.
LEMMA PublishInv ==
  ASSUME Inv, NEW c \in Configurations, NEW notes \in Notes,
         Publish(c, notes)
  PROVE  Inv'
<1> USE NilIsNoJob DEF Inv, Publish, Tick, Counted, Directly, Idle, state, thread
<1>1. Shape'
  BY DEF Shape, Wired, Job
<1>2. Direct'
  BY DEF Threaded, Direct
<1>3. Numbered'
  BY DEF Shape, Numbered, Sequel, Job
<1>4. Stamped'
  BY DEF Shape, Numbered, Stamped
<1>5. Aimed'
  BY DEF Shape, Numbered, Aimed
<1>6. Silenced'
  BY DEF Shape, Numbered, Silenced, IsStale
<1>7. Tracked'
  BY DEF Shape, Numbered, Tracked
<1>8. Wired' /\ Threaded' /\ Failed'
  BY DEF Wired, Threaded, Failed
<1> QED
  BY <1>1, <1>2, <1>3, <1>4, <1>5, <1>6, <1>7, <1>8

LEMMA PublishUpdateInv ==
  ASSUME Inv, PublishUpdate
  PROVE  Inv'
<1> USE NilIsNoJob DEF Inv, PublishUpdate, SynthUpdate, Idle, node, service, thread,
           IsStale, Update, state
<1>1. Shape'
  BY DEF Shape, Job
<1>2. Wired'
  BY DEF Wired, Direct
<1>3. Numbered'
  BY DEF Shape, Numbered, Sequel
<1>4. Tracked'
  BY DEF Shape, Wired, Direct, Tracked, Sounding, Job
<1>5. Threaded' /\ Direct' /\ Stamped' /\ Aimed' /\ Silenced' /\ Failed'
  BY DEF Threaded, Direct, Stamped, Aimed, Silenced, Failed
<1> QED
  BY <1>1, <1>2, <1>3, <1>4, <1>5

LEMMA DisableInv ==
  ASSUME Inv, Disable
  PROVE  Inv'
<1> USE NilIsNoJob DEF Inv, Disable, Tick, Counted, Closing, state, thread, Idle
<1>1. Shape'
  BY NoNotesFacts DEF Shape, Job
<1>2. Numbered'
  BY DEF Shape, Numbered, Sequel, Job
<1>3. Stamped'
  BY DEF Shape, Stamped
<1>4. Wired' /\ Threaded' /\ Direct' /\ Aimed' /\ Silenced' /\ Tracked' /\ Failed'
  BY DEF Wired, Threaded, Direct, Aimed, Silenced, IsStale, Tracked, Failed
<1> QED
  BY <1>1, <1>2, <1>3, <1>4

LEMMA NoDataInv ==
  ASSUME Inv, NoData
  PROVE  Inv'
<1> USE NilIsNoJob DEF Inv, NoData, Tick, GraphPanic, Idle, DropPending, state, thread,
           Counted
<1>1. Shape'
  BY DEF Shape, Wired
<1>2. Numbered'
  BY DEF Shape, Numbered, Sequel, Job
<1>3. Wired' /\ Threaded' /\ Direct' /\ Stamped' /\ Aimed' /\ Silenced' /\ Tracked' /\ Failed'
  BY DEF Wired, Threaded, Direct, Stamped, Aimed, Silenced, IsStale, Tracked, Failed
<1> QED
  BY <1>1, <1>2, <1>3

LEMMA ResetInv ==
  ASSUME Inv, Reset
  PROVE  Inv'
<1> USE NilIsNoJob DEF Inv, Reset, Idle, GraphPanic, DropPending, state, thread, Counted
<1>1. Shape'
  BY DEF Shape, Wired
<1>2. Numbered'
  BY DEF Shape, Numbered, Sequel, Job
<1>3. Wired' /\ Threaded' /\ Direct' /\ Stamped' /\ Aimed' /\ Silenced' /\ Tracked' /\ Failed'
  BY DEF Wired, Threaded, Direct, Stamped, Aimed, Silenced, IsStale, Tracked, Failed
<1> QED
  BY <1>1, <1>2, <1>3

LEMMA GraphPanicSynthInv ==
  ASSUME Inv, GraphPanicSynth
  PROVE  Inv'
<1> USE NilIsNoJob DEF Inv, GraphPanicSynth, SynthPanic, Idle, node, service, thread,
           Panic, state, Silence, RecordPanic
<1>1. Numbered'
  BY DEF Shape, Numbered, Sequel
<1>2. Silenced'
  BY DEF Shape, Threaded, Silenced, IsStale, Job
<1>3. Shape' /\ Wired' /\ Threaded' /\ Direct' /\ Stamped' /\ Aimed' /\ Tracked' /\ Failed'
  BY DEF Shape, Wired, Threaded, Direct, Stamped, Aimed, Tracked, Failed
<1> QED
  BY <1>1, <1>2, <1>3

LEMMA StopInv ==
  ASSUME Inv, Stop
  PROVE  Inv'
<1> USE NilIsNoJob DEF Inv, Stop, Idle, Counted, state, node, thread
<1>1. Shape'
  BY DEF Shape, Wired
<1>2. Numbered'
  BY DEF Shape, Numbered, Sequel, Job
<1>3. Wired' /\ Threaded' /\ Direct' /\ Stamped' /\ Aimed' /\ Silenced' /\ Tracked' /\ Failed'
  BY DEF Wired, Threaded, Direct, Stamped, Aimed, Silenced, IsStale, Tracked, Failed
<1> QED
  BY <1>1, <1>2, <1>3

LEMMA PanicBeginInv ==
  ASSUME Inv, PanicBegin
  PROVE  Inv'
<1> USE NilIsNoJob DEF Inv, PanicBegin, Idle, state, node, service, thread, history
<1>1. Numbered'
  BY DEF Shape, Numbered, Sequel
<1>2. Stamped'
  BY DEF Numbered, Stamped, Sequel
<1>3. Shape' /\ Wired' /\ Threaded' /\ Direct' /\ Aimed' /\ Silenced' /\ Tracked' /\ Failed'
  BY DEF Shape, Wired, Threaded, Direct, Aimed, Silenced, IsStale, Tracked, Sounding, Failed
<1> QED
  BY <1>1, <1>2, <1>3

LEMMA PanicRequestInv ==
  ASSUME Inv, PanicRequest
  PROVE  Inv'
<1> USE NilIsNoJob DEF Inv, PanicRequest, DropPending, Idle, state, node, thread, Counted
<1>1. Shape'
  BY DEF Shape, Wired
<1>2. Numbered'
  BY DEF Shape, Numbered, Sequel, Job
<1>3. Aimed'
  BY DEF Wired, Direct, Aimed
<1>4. Wired' /\ Threaded' /\ Direct' /\ Stamped' /\ Silenced' /\ Tracked' /\ Failed'
  BY DEF Wired, Threaded, Direct, Stamped, Silenced, IsStale, Tracked, Failed
<1> QED
  BY <1>1, <1>2, <1>3, <1>4

\* The panic arrives: what it covers is silenced, or refused from now on.
LEMMA PanicSynthInv ==
  ASSUME Inv, PanicSynth
  PROVE  Inv'
<1> USE NilIsNoJob DEF Inv, PanicSynth, SynthPanic, Idle, node, service, thread, Panic,
           state, Silence, RecordPanic
<1>1. Numbered'
  BY DEF Shape, Numbered, Sequel
<1>2. Silenced'
  <2>1. command.synth = made /\ made # 0 => playing' = 0 /\ watermark' >= command.stamp
    BY DEF Shape
  <2>2. playing # 0 /\ playing <= command.upto =>
          pc \in {"silence", "close"} \/ (command.synth = made /\ made # 0)
    BY DEF Shape, Wired, Aimed
  <2>3. pc = "update" /\ work.call <= command.upto =>
          /\ work.stamp \in Nat /\ 0 < work.stamp /\ work.stamp <= command.stamp
          /\ command.synth = made /\ made # 0
    BY DEF Shape, Wired, Threaded, Numbered, Sequel, Stamped, Aimed, Job
  <2>4. graph.pc = "update" /\ graph.work.call <= command.upto =>
          /\ graph.work.stamp \in Nat /\ 0 < graph.work.stamp
          /\ graph.work.stamp <= command.stamp
          /\ command.synth = made /\ made # 0
    BY DEF Shape, Wired, Direct, Numbered, Sequel, Stamped, Aimed, Job
  <2>5. playing' # 0 => playing' = playing
    BY DEF Shape
  <2> QED
    BY <2>1, <2>2, <2>3, <2>4, <2>5 DEF Shape, Silenced, IsStale
<1>3. Shape' /\ Wired' /\ Threaded' /\ Direct' /\ Stamped' /\ Aimed' /\ Tracked' /\ Failed'
  BY DEF Shape, Wired, Threaded, Direct, Stamped, Aimed, Tracked, Failed
<1> QED
  BY <1>1, <1>2, <1>3

LEMMA TakeInv ==
  ASSUME Inv, Take
  PROVE  Inv'
<1> USE NilIsNoJob DEF Inv, Take, state, node, history
<1>1. Silenced'
  BY DEF Direct, Silenced
<1>2. Tracked'
  BY DEF Direct, Tracked
<1>3. Shape' /\ Wired' /\ Threaded' /\ Direct' /\ Numbered' /\ Stamped' /\ Aimed' /\ Failed'
  BY DEF Shape, Wired, Threaded, Direct, Numbered, Sequel, Stamped, Aimed, Failed
<1> QED
  BY <1>1, <1>2, <1>3

LEMMA DetachInv ==
  ASSUME Inv, Detach
  PROVE  Inv'
<1> USE NilIsNoJob DEF Inv, Detach, Goto, state, node, history
<1>1. Wired'
  BY DEF Shape, Wired
<1>2. Threaded'
  BY DEF Shape, Threaded
<1>3. Aimed'
  BY DEF Shape, Aimed
<1>4. Silenced'
  BY DEF Shape, Direct, Silenced
<1>5. Shape' /\ Direct' /\ Numbered' /\ Stamped' /\ Tracked' /\ Failed'
  BY DEF Shape, Direct, Numbered, Sequel, Stamped, Tracked, Failed
<1> QED
  BY <1>1, <1>2, <1>3, <1>4, <1>5

LEMMA SilenceRefInv ==
  ASSUME Inv, SilenceRef
  PROVE  Inv'
<1> USE NilIsNoJob DEF Inv, SilenceRef, SynthPanic, node, service, Panic, state, Silence,
           RecordPanic
<1>1. Numbered'
  BY DEF Shape, Numbered, Sequel
<1>2. Silenced'
  BY DEF Direct, Silenced
<1>3. Tracked'
  BY DEF Shape, Tracked
<1>4. Shape' /\ Wired' /\ Threaded' /\ Direct' /\ Stamped' /\ Aimed' /\ Failed'
  BY DEF Shape, Wired, Threaded, Direct, Stamped, Aimed, Failed
<1> QED
  BY <1>1, <1>2, <1>3, <1>4

LEMMA CloseRefInv ==
  ASSUME Inv, CloseRef
  PROVE  Inv'
<1> USE NilIsNoJob DEF Inv, CloseRef, SynthClose, Goto, node, Close, state, Silence
<1>1. Wired'
  BY DEF Shape, Wired
<1>2. Threaded'
  BY DEF Shape, Threaded
<1>3. Numbered'
  BY DEF Shape, Numbered, Sequel
<1>4. Aimed'
  BY DEF Shape, Wired, Aimed
<1>5. Silenced'
  BY DEF Shape, Wired, Direct, Silenced
<1>6. Shape' /\ Direct' /\ Stamped' /\ Tracked' /\ Failed'
  BY DEF Shape, Direct, Stamped, Tracked, Failed
<1> QED
  BY <1>1, <1>2, <1>3, <1>4, <1>5, <1>6

LEMMA OpenInv ==
  ASSUME Inv, Open
  PROVE  Inv'
<1> USE NilIsNoJob DEF Inv, Open, state, node, service
<1>1. Stamped' /\ Aimed' /\ Silenced' /\ Threaded' /\ Direct' /\ Failed'
  BY DEF Stamped, Aimed, Silenced, Threaded, Direct, Failed, IsStale, Wired
<1>2. CASE pc' = "assign"
  <2>1. Shape'
    BY <1>2 DEF Shape
  <2>2. Wired'
    BY <1>2 DEF Shape, Wired
  <2>3. Numbered'
    BY <1>2 DEF Shape, Numbered, Sequel
  <2>4. Tracked'
    BY <1>2 DEF Shape, Wired, Threaded, Tracked, Job
  <2> QED
    BY <1>1, <2>1, <2>2, <2>3, <2>4
<1>3. CASE pc' = "latch"
  BY <1>1, <1>3 DEF Shape, Wired, Numbered, Sequel, Tracked, Sounding
<1> QED
  BY <1>2, <1>3

LEMMA AssignInv ==
  ASSUME Inv, Assign
  PROVE  Inv'
<1> USE NilIsNoJob DEF Inv, Assign, state, node, history
<1>1. Wired'
  BY DEF Wired, Threaded
<1>2. Silenced'
  BY DEF Direct, Silenced
<1>3. Failed'
  BY DEF Wired, Failed
<1>4. Shape' /\ Threaded' /\ Direct' /\ Numbered' /\ Stamped' /\ Aimed' /\ Tracked'
  BY DEF Shape, Threaded, Direct, Numbered, Sequel, Stamped, Aimed, Tracked
<1> QED
  BY <1>1, <1>2, <1>3, <1>4

LEMMA CheckInv ==
  ASSUME Inv, Check
  PROVE  Inv'
<1> USE NilIsNoJob DEF Inv, Check, IsCurrent, state, node, service, history
<1>1. Aimed'
  BY DEF Shape, Numbered, Aimed, Idle
<1>2. Silenced'
  BY DEF Shape, Threaded, Direct, Numbered, Silenced, Sequel
<1>3. Shape' /\ Wired' /\ Threaded' /\ Direct' /\ Numbered' /\ Stamped' /\ Tracked' /\ Failed'
  BY DEF Shape, Wired, Threaded, Direct, Numbered, Sequel, Stamped, Tracked, Failed
<1> QED
  BY <1>1, <1>2, <1>3

LEMMA ApplyUpdateInv ==
  ASSUME Inv, ApplyUpdate
  PROVE  Inv'
<1> USE NilIsNoJob DEF Inv, ApplyUpdate, SynthUpdate, Goto, node, IsStale, Update, state
<1>1. Shape'
  BY DEF Shape, Threaded, Job
<1>2. Numbered'
  BY DEF Shape, Threaded, Numbered, Sequel
<1>3. Tracked'
  BY DEF Shape, Wired, Threaded, Tracked, Sounding, Job
<1>4. Wired' /\ Threaded' /\ Direct' /\ Stamped' /\ Aimed' /\ Silenced' /\ Failed'
  BY DEF Wired, Threaded, Direct, Stamped, Aimed, Silenced, Failed
<1> QED
  BY <1>1, <1>2, <1>3, <1>4

LEMMA ApplyStaleInv ==
  ASSUME Inv, ApplyStale
  PROVE  Inv'
<1> USE NilIsNoJob DEF Inv, ApplyStale, SynthPanic, Goto, node, Panic, state, Silence,
           RecordPanic
<1>1. Numbered'
  BY DEF Shape, Numbered, Sequel
<1>2. Silenced'
  BY DEF Direct, Silenced
<1>3. Tracked'
  BY DEF Shape, Tracked
<1>4. Shape'
  BY DEF Shape
<1>5. Wired' /\ Failed'
  BY DEF Wired, Failed
<1>6. Threaded' /\ Direct' /\ Stamped' /\ Aimed'
  BY DEF Threaded, Direct, Stamped, Aimed
<1> QED
  BY <1>1, <1>2, <1>3, <1>4, <1>5, <1>6

LEMMA LatchInv ==
  ASSUME Inv, Latch
  PROVE  Inv'
<1> USE NilIsNoJob DEF Inv, Latch, IsCurrent, Goto, state, node, history
<1>1. Silenced'
  BY DEF Direct, Silenced
<1>2. Tracked'
  BY DEF Threaded, Tracked
<1>3. Failed'
  BY DEF Shape, Wired, Threaded, Numbered, Failed
<1>4. Shape'
  BY DEF Shape
<1>5. Wired' /\ Threaded' /\ Direct'
  BY DEF Wired, Threaded, Direct
<1>6. Numbered' /\ Stamped' /\ Aimed'
  BY DEF Numbered, Sequel, Stamped, Aimed
<1> QED
  BY <1>1, <1>2, <1>3, <1>4, <1>5, <1>6

LEMMA ExitInv ==
  ASSUME Inv, Exit
  PROVE  Inv'
<1> USE NilIsNoJob DEF Inv, Exit, state, node, service, history
<1>1. Silenced'
  BY DEF Direct, Silenced
<1>2. /\ Shape' /\ Wired' /\ Threaded' /\ Direct' /\ Numbered' /\ Stamped'
      /\ Aimed' /\ Tracked' /\ Failed'
  BY DEF Shape, Wired, Threaded, Direct, Numbered, Sequel, Stamped, Aimed, Tracked, Failed
<1> QED
  BY <1>1, <1>2

LEMMA StepInv ==
  ASSUME Inv, [Next]_vars
  PROVE  Inv'
<1>1. CASE Service
  BY <1>1, TakeInv, DetachInv, SilenceRefInv, CloseRefInv, OpenInv, AssignInv, CheckInv,
     ApplyUpdateInv, ApplyStaleInv, LatchInv, ExitInv
     DEF Service
<1>2. CASE Graph
  BY <1>2, PublishInv, PublishUpdateInv, DisableInv, NoDataInv, ResetInv, GraphPanicSynthInv,
     StopInv
     DEF Graph
<1>3. CASE Command
  BY <1>3, PanicBeginInv, PanicRequestInv, PanicSynthInv DEF Command
<1>4. CASE UNCHANGED vars
  <2> USE DEF Inv, vars, state, node, service, thread, history
  <2>1. Shape' /\ Wired' /\ Threaded' /\ Direct' /\ Failed'
    BY <1>4 DEF Shape, Wired, Threaded, Direct, Failed
  <2>2. Numbered' /\ Stamped' /\ Aimed' /\ Silenced' /\ Tracked'
    BY <1>4 DEF Numbered, Sequel, Stamped, Aimed, Silenced, IsStale, Tracked, Sounding
  <2> QED
    BY <2>1, <2>2
<1> QED
  BY <1>1, <1>2, <1>3, <1>4 DEF Next

-----------------------------------------------------------------------------
(* The theorems. *)

\* For any notes, configurations and number of calls: a panic of the command
\* thread, once it returned, covers every state the service had accepted when
\* it began (EngineFacade.panic, _DebugAudioOutputService.panic).
THEOREM PanicsCoverAccepted == Spec => []PanicCoversAccepted
<1>1. Inv => PanicCoversAccepted
  BY DEF Inv, Shape, Silenced, PanicCoversAccepted
<1> QED
  BY InitInv, StepInv, <1>1, PTL DEF Spec

\* For any notes, configurations and number of calls: a service that has
\* settled plays the state published last, one device is open at a time, and
\* neither a failure nor the end of the service leaves a device or a note
\* behind (_DebugAudioOutputService._run and _apply).
THEOREM DevicesFollowState == Spec => []DeviceFollowsState
<1>1. Inv => DeviceFollowsState
  <2> SUFFICES ASSUME Inv PROVE DeviceFollowsState
    OBVIOUS
  <2> USE DEF Inv, Idle
  <2>1. PlaysLatest
    BY DEF PlaysLatest, Settled, Shape, Wired, Threaded, Tracked, Sounding
  <2>2. OneDeviceAtATime
    BY DEF OneDeviceAtATime, Wired
  <2>3. FailureIsFinal
    BY DEF FailureIsFinal, Failed
  <2>4. EndsSilent
    BY DEF EndsSilent, Wired
  <2> QED
    BY <2>1, <2>2, <2>3, <2>4 DEF DeviceFollowsState
<1> QED
  BY InitInv, StepInv, <1>1, PTL DEF Spec
=============================================================================
