-------------------------- MODULE MidiOutputProofs --------------------------
(***************************************************************************)
(* Proofs about MidiOutput, for every set of keys, channels and ports and  *)
(* every bound.                                                            *)
(***************************************************************************)
EXTENDS MidiOutput, TLAPS

\* While messages are being sent, the keys still to start are keys of the
\* state in hand: what SendNoteOn records in _sent is one of its velocities.
PlanFits == step = "send" => ons \subseteq DOMAIN cmd.frame.notes

TypeInv == MidiTypeOK /\ PlanFits

\* The variables _panic_current changes have their types.
PanicTypes ==
    /\ WorldType
    /\ sent \in NoteMap /\ used \subseteq Channels /\ port \in Ports \cup {None}

USE ChannelAssumption, NameAssumption, SelectionAssumption, FramesAssumption,
    DevicesAssumption, NoneAssumption, BoundsAssumption

\* A note map is a function from some of the keys to velocities.
LEMMA NoteMapElement ==
    ASSUME NEW f \in NoteMap
    PROVE  DOMAIN f \subseteq NoteKeys /\ \A k \in DOMAIN f : f[k] \in Velocity
BY DEF NoteMap

\* A function from some of the keys to velocities is a note map.
LEMMA NoteMapIntro ==
    ASSUME NEW K \in SUBSET NoteKeys, NEW f \in [K -> Velocity]
    PROVE  f \in NoteMap
BY DEF NoteMap

\* The empty dictionary is a note map.
LEMMA NoNotesType == NothingSent \in NoteMap /\ DOMAIN NothingSent = {}
<1>1. NothingSent \in [{} -> Velocity] /\ DOMAIN NothingSent = {}
  BY DEF NothingSent
<1> QED
  BY <1>1, NoteMapIntro

\* What _panic_current leaves behind has the right types.
LEMMA PanicCurrentType ==
    ASSUME MidiTypeOK, NEW closePort \in BOOLEAN, NEW error \in {0, 1},
           NEW extra \in SUBSET Channels, NEW heard \in SUBSET NoteKeys,
           PanicCurrent(closePort, error, extra, heard)
    PROVE  PanicTypes'
<1>1. DOMAIN sent \subseteq NoteKeys
  BY NoteMapElement DEF MidiTypeOK, DeviceType
<1>2. PanicChannels(extra) \subseteq Channels
  BY <1>1 DEF PanicChannels, MidiTypeOK, DeviceType
<1>3. sent' \in NoteMap /\ used' \subseteq Channels
  BY NoNotesType DEF PanicCurrent
<1>4. PICK lostOffs \in SUBSET DOMAIN sent, lostAlls \in SUBSET PanicChannels(extra) :
        LET silent == PanicChannels(extra) \ lostAlls
            failed == lostOffs # {} \/ lostAlls # {}
        IN  /\ faults' = faults + error + (IF failed THEN 1 ELSE 0)
            /\ IF port = None
               THEN UNCHANGED <<sounding, lossy>>
               ELSE /\ sounding' = [sounding EXCEPT ![port] =
                            {k \in @ \cup heard : /\ k \notin DOMAIN sent \ lostOffs
                                                  /\ ChannelOf[k] \notin silent}]
                    /\ lossy' = [lossy EXCEPT ![port] = (@ \ silent) \cup lostAlls]
            /\ port' = IF closePort \/ error = 1 \/ failed THEN None ELSE port
  BY DEF PanicCurrent
<1>5. port' \in Ports \cup {None} /\ faults' \in Nat
  BY <1>4 DEF MidiTypeOK, DeviceType, WorldType
<1>6. sounding' \in [Ports -> SUBSET NoteKeys]
  BY <1>4 DEF MidiTypeOK, DeviceType, WorldType
<1>7. lossy' \in [Ports -> SUBSET Channels]
  BY <1>2, <1>4 DEF MidiTypeOK, DeviceType, WorldType
<1> QED
  BY <1>3, <1>5, <1>6, <1>7 DEF PanicTypes, WorldType

\* A port an identifier or a name resolves to, when it is enumerated.
LEMMA ResolveType ==
    ASSUME NEW s \in Selections, NEW D \in SUBSET Ports, Resolve(s, D) \in D
    PROVE  Resolve(s, D) \in Ports
OBVIOUS

\* What a step leaves alone keeps its type.
LEMMA UnchangedTypes ==
    /\ SharedType /\ UNCHANGED shared => SharedType'
    /\ SenderType /\ PlanFits /\ UNCHANGED sender => SenderType' /\ PlanFits'
    /\ DeviceType /\ UNCHANGED device => DeviceType'
    /\ WorldType /\ UNCHANGED world => WorldType'
    /\ ClientType /\ UNCHANGED client => ClientType'
<1>1. SharedType /\ UNCHANGED shared => SharedType'
  BY DEF SharedType, shared
<1>2. SenderType /\ PlanFits /\ UNCHANGED sender => SenderType' /\ PlanFits'
  BY DEF SenderType, PlanFits, sender
<1>3. DeviceType /\ UNCHANGED device => DeviceType'
  BY DEF DeviceType, device
<1>4. WorldType /\ UNCHANGED world => WorldType'
  BY DEF WorldType, world
<1>5. ClientType /\ UNCHANGED client => ClientType'
  BY DEF ClientType, client
<1> QED
  BY <1>1, <1>2, <1>3, <1>4, <1>5

\* A failed send ends in a typed state.
LEMMA SendFailureType ==
    ASSUME TypeInv, NEW c \in Channels, NEW heard \in SUBSET NoteKeys,
           SendFailure(c, heard)
    PROVE  TypeInv'
<1>1. PanicTypes'
  BY PanicCurrentType DEF SendFailure, TypeInv
<1>2. SharedType'
  BY DEF SendFailure, TypeInv, MidiTypeOK, SharedType
<1>3. SenderType' /\ PlanFits'
  BY DEF SendFailure, TypeInv, MidiTypeOK, SenderType, SenderPCs, PlanFits
<1>4. DeviceType'
  BY <1>1 DEF SendFailure, TypeInv, MidiTypeOK, DeviceType, PanicTypes, OutputErrorState, States
<1>5. ClientType'
  BY UnchangedTypes DEF SendFailure, TypeInv, MidiTypeOK
<1> QED
  BY <1>1, <1>2, <1>3, <1>4, <1>5 DEF TypeInv, MidiTypeOK, PanicTypes

\* Every initial state is typed.
LEMMA InitTypeInv == MidiInit => TypeInv
<1> SUFFICES ASSUME MidiInit PROVE TypeInv
  OBVIOUS
<1> USE DEF MidiInit
<1>1. SharedType
  BY DEF SharedType
<1>2. SenderType /\ PlanFits
  BY DEF SenderType, SenderPCs, PlanFits
<1>3. DeviceType
  BY NoNotesType DEF DeviceType, Selections, States
<1>4. WorldType
  BY DEF WorldType
<1>5. ClientType
  BY DEF ClientType, WorkerStates, CommanderStates, IdleClient
<1> QED
  BY <1>1, <1>2, <1>3, <1>4, <1>5 DEF TypeInv, MidiTypeOK

\* Every step keeps the types.
LEMMA NextTypeInv == TypeInv /\ [MidiNext]_midiVars => TypeInv'
<1> SUFFICES ASSUME TypeInv, [MidiNext]_midiVars PROVE TypeInv'
  OBVIOUS
<1> USE DEF TypeInv, MidiTypeOK
<1>0. CASE UNCHANGED midiVars
  BY <1>0, UnchangedTypes DEF midiVars
<1>1. ASSUME NEW f \in Frames, TickState(f) PROVE TypeInv'
  <2>1. f \in Frame /\ gen + 1 \in Nat
    BY <1>1 DEF TickState, ClientType
  <2>2. worker' \in WorkerStates
    BY <1>1, <2>1 DEF TickState, WorkerStates
  <2>3. ClientType'
    BY <1>1, <2>1, <2>2 DEF TickState, ClientType, Stamp
  <2> QED
    BY <1>1, <2>1, <2>2, <2>3, UnchangedTypes DEF TickState
<1>2. CASE TickNoData
  <2>1. ClientType'
    BY <1>2 DEF TickNoData, ClientType, WorkerStates, CommanderStates, IdleClient, Stamp
  <2> QED
    BY <1>2, <2>1, UnchangedTypes DEF TickNoData
<1>3. CASE PublishCheck
  <2>1. ClientType'
    BY <1>3 DEF PublishCheck, ClientType, WorkerStates, CommanderStates, IdleClient
  <2> QED
    BY <1>3, <2>1, UnchangedTypes DEF PublishCheck
<1>4. CASE PublishDeposit
  <2>1. worker.frame \in Frame /\ worker.gen \in Nat
    BY <1>4 DEF PublishDeposit, ClientType, WorkerStates, IdleClient
  <2>2. SharedType'
    BY <1>4, <2>1 DEF PublishDeposit, SharedType, Desired
  <2>3. ClientType'
    BY <1>4 DEF PublishDeposit, ClientType, WorkerStates, CommanderStates, IdleClient
  <2> QED
    BY <1>4, <2>1, <2>2, <2>3, UnchangedTypes DEF PublishDeposit
<1>5. CASE RequestPanic
  <2>1. worker.gen \in Nat
    BY <1>5 DEF RequestPanic, ClientType, WorkerStates, IdleClient
  <2>2. SharedType'
    BY <1>5, <2>1 DEF RequestPanic, SharedType, EnqueuePanic, RecordMidiPanic, shared
  <2>3. ClientType'
    BY <1>5 DEF RequestPanic, ClientType, WorkerStates, CommanderStates, IdleClient
  <2> QED
    BY <1>5, <2>1, <2>2, <2>3, UnchangedTypes DEF RequestPanic
<1>6. CASE ResetPanic
  <2>1. SharedType'
    BY <1>6 DEF ResetPanic, SharedType, EnqueuePanic, RecordMidiPanic, shared
  <2>2. worker' \in WorkerStates
    BY <1>6 DEF ResetPanic, ClientType, SharedType, WorkerStates
  <2>3. missingInput' \in BOOLEAN
    BY <1>6 DEF ResetPanic, ClientType
  <2>4. ClientType'
    BY <1>6, <2>2, <2>3 DEF ResetPanic, ClientType
  <2> QED
    BY <1>6, <2>1, <2>2, <2>3, <2>4, UnchangedTypes DEF ResetPanic
<1>7. CASE ResetServed
  <2>1. ClientType'
    BY <1>7 DEF ResetServed, ClientType, WorkerStates, CommanderStates, IdleClient
  <2> QED
    BY <1>7, <2>1, UnchangedTypes DEF ResetServed
<1>8. CASE ResetTimesOut
  <2>1. ClientType'
    BY <1>8 DEF ResetTimesOut, ClientType, WorkerStates, CommanderStates, IdleClient
  <2> QED
    BY <1>8, <2>1, UnchangedTypes DEF ResetTimesOut
<1>9. CASE BeginPanic
  <2>1. ClientType'
    BY <1>9 DEF BeginPanic, ClientType, WorkerStates, CommanderStates, IdleClient
  <2> QED
    BY <1>9, <2>1, UnchangedTypes DEF BeginPanic
<1>10. CASE CommandPanic
  <2>1. commander.gen \in Nat
    BY <1>10 DEF CommandPanic, ClientType, CommanderStates, IdleClient
  <2>2. SharedType'
    BY <1>10, <2>1 DEF CommandPanic, SharedType, EnqueuePanic, RecordMidiPanic, shared
  <2>3. ClientType'
    BY <1>10 DEF CommandPanic, ClientType, WorkerStates, CommanderStates, IdleClient, SharedType
  <2> QED
    BY <1>10, <2>1, <2>2, <2>3, UnchangedTypes DEF CommandPanic
<1>11. CASE PanicReturn
  <2>1. ClientType'
    BY <1>11 DEF PanicReturn, ClientType, WorkerStates, CommanderStates, IdleClient
  <2> QED
    BY <1>11, <2>1, UnchangedTypes DEF PanicReturn
<1>12. CASE RefreshOutputs
  <2>1. SharedType'
    BY <1>12 DEF RefreshOutputs, SharedType
  <2> QED
    BY <1>12, <2>1, UnchangedTypes DEF RefreshOutputs
<1>13. CASE CloseOutput
  <2>1. SharedType'
    BY <1>13 DEF CloseOutput, SharedType
  <2> QED
    BY <1>13, <2>1, UnchangedTypes DEF CloseOutput
<1>14. CASE TakeClose
  <2>1. SharedType'
    BY <1>14 DEF TakeClose, SharedType
  <2>2. SenderType' /\ PlanFits'
    BY <1>14 DEF TakeClose, SenderType, SenderPCs, PlanFits, SharedType
  <2> QED
    BY <1>14, <2>1, <2>2, UnchangedTypes DEF TakeClose
<1>15. CASE TakePanic
  <2>1. SharedType'
    BY <1>15 DEF TakePanic, SharedType
  <2>2. SenderType' /\ PlanFits'
    BY <1>15 DEF TakePanic, SenderType, SenderPCs, PlanFits, SharedType
  <2> QED
    BY <1>15, <2>1, <2>2, UnchangedTypes DEF TakePanic
<1>16. CASE TakeRefresh
  <2>1. SharedType'
    BY <1>16 DEF TakeRefresh, SharedType
  <2>2. SenderType' /\ PlanFits'
    BY <1>16 DEF TakeRefresh, SenderType, SenderPCs, PlanFits, SharedType
  <2> QED
    BY <1>16, <2>1, <2>2, UnchangedTypes DEF TakeRefresh
<1>17. CASE TakeState
  <2>1. SharedType'
    BY <1>17 DEF TakeState, SharedType
  <2>2. SenderType' /\ PlanFits'
    BY <1>17 DEF TakeState, SenderType, SenderPCs, PlanFits, SharedType
  <2> QED
    BY <1>17, <2>1, <2>2, UnchangedTypes DEF TakeState
<1>18. CASE Rest
  <2>1. SharedType'
    BY <1>18 DEF Rest, SharedType
  <2>2. SenderType' /\ PlanFits'
    BY <1>18 DEF Rest, SenderType, SenderPCs, PlanFits
  <2> QED
    BY <1>18, <2>1, <2>2, UnchangedTypes DEF Rest
<1>19. CASE PanicComplete
  <2>1. SharedType'
    BY <1>19 DEF PanicComplete, SharedType, SenderType
  <2>2. SenderType' /\ PlanFits'
    BY <1>19 DEF PanicComplete, SenderType, SenderPCs, PlanFits
  <2> QED
    BY <1>19, <2>1, <2>2, UnchangedTypes DEF PanicComplete
<1>20. CASE Reapply
  <2>1. SenderType' /\ PlanFits'
    BY <1>20 DEF Reapply, SenderType, SenderPCs, PlanFits, SharedType
  <2> QED
    BY <1>20, <2>1, UnchangedTypes DEF Reapply
<1>21. CASE ApplyUnselected
  <2>1. cmd.frame.port \in Selections
    BY <1>21 DEF ApplyUnselected, SenderType, Desired, Frame
  <2>2. SenderType' /\ PlanFits'
    BY <1>21 DEF ApplyUnselected, SenderType, SenderPCs, PlanFits
  <2>3. DeviceType'
    BY <1>21, <2>1 DEF ApplyUnselected, DeviceType, States, Selections
  <2> QED
    BY <1>21, <2>1, <2>2, <2>3, UnchangedTypes DEF ApplyUnselected
<1>22. CASE ApplyUnavailable
  <2>1. cmd.frame.port \in Selections
    BY <1>22 DEF ApplyUnavailable, SenderType, Desired, Frame
  <2>2. SenderType' /\ PlanFits'
    BY <1>22 DEF ApplyUnavailable, SenderType, SenderPCs, PlanFits
  <2>3. DeviceType'
    BY <1>22, <2>1 DEF ApplyUnavailable, DeviceType, States, Selections
  <2> QED
    BY <1>22, <2>1, <2>2, <2>3, UnchangedTypes DEF ApplyUnavailable
<1>23. CASE ApplyOpenFails
  <2>1. cmd.frame.port \in Selections
    BY <1>23 DEF ApplyOpenFails, SenderType, Desired, Frame
  <2>2. SenderType' /\ PlanFits'
    BY <1>23 DEF ApplyOpenFails, SenderType, SenderPCs, PlanFits
  <2>3. DeviceType'
    BY <1>23, <2>1 DEF ApplyOpenFails, DeviceType, States
  <2>4. WorldType'
    BY <1>23 DEF ApplyOpenFails, WorldType
  <2> QED
    BY <1>23, <2>1, <2>2, <2>3, <2>4, UnchangedTypes DEF ApplyOpenFails
<1>24. CASE ApplyOpen
  <2>1. cmd.frame.port \in Selections /\ DOMAIN cmd.frame.notes \subseteq NoteKeys
    BY <1>24, NoteMapElement DEF ApplyOpen, SenderType, Desired, Frame
  <2>2. Target \in Ports
    BY <1>24 DEF ApplyOpen, DeviceType
  <2>3. SenderType' /\ PlanFits'
    BY <1>24, <2>1 DEF ApplyOpen, SenderType, SenderPCs, PlanFits
  <2>4. DeviceType'
    BY <1>24, <2>1, <2>2 DEF ApplyOpen, DeviceType, States
  <2> QED
    BY <1>24, <2>1, <2>2, <2>3, <2>4, UnchangedTypes DEF ApplyOpen
<1>25. ASSUME NEW c \in Channels, ClearChannel(c) PROVE TypeInv'
  <2>1. SenderType' /\ PlanFits'
    BY <1>25 DEF ClearChannel, SenderType, SenderPCs, PlanFits
  <2>2. WorldType'
    BY <1>25 DEF ClearChannel, WorldType
  <2> QED
    BY <1>25, <2>1, <2>2, UnchangedTypes DEF ClearChannel
<1>26. ASSUME NEW c \in Channels, ClearFails(c) PROVE TypeInv'
  BY <1>26, SendFailureType DEF ClearFails
<1>27. CASE Reconcile
  <2>1. cmd.frame.port \in Selections /\ DOMAIN cmd.frame.notes \subseteq NoteKeys
    BY <1>27, NoteMapElement DEF Reconcile, SenderType, Desired, Frame
  <2>2. DOMAIN sent \subseteq NoteKeys /\ \A x \in DOMAIN sent : sent[x] \in Velocity
    BY <1>27, NoteMapElement DEF Reconcile, DeviceType
  <2>3. /\ Offs \subseteq NoteKeys /\ Ons \subseteq NoteKeys
        /\ Ons \subseteq DOMAIN cmd.frame.notes
    BY <1>27, <2>1, <2>2 DEF Reconcile, Offs, Ons, Removed, Added, Updated
  <2>4. SenderType' /\ PlanFits'
    BY <1>27, <2>3 DEF Reconcile, SenderType, SenderPCs, PlanFits, Plan
  <2>5. DeviceType'
    BY <1>27, <2>1 DEF Reconcile, DeviceType, States
  <2> QED
    BY <1>27, <2>1, <2>2, <2>3, <2>4, <2>5, UnchangedTypes DEF Reconcile
<1>28. CASE ReconcileNew
  <2>1. cmd.frame.port \in Selections /\ DOMAIN cmd.frame.notes \subseteq NoteKeys
    BY <1>28, NoteMapElement DEF ReconcileNew, SenderType, Desired, Frame
  <2>2. DOMAIN sent \subseteq NoteKeys /\ \A x \in DOMAIN sent : sent[x] \in Velocity
    BY <1>28, NoteMapElement DEF ReconcileNew, DeviceType
  <2>3. /\ Offs \subseteq NoteKeys /\ Ons \subseteq NoteKeys
        /\ Ons \subseteq DOMAIN cmd.frame.notes
    BY <1>28, <2>1, <2>2 DEF ReconcileNew, Offs, Ons, Removed, Added, Updated
  <2>4. SenderType' /\ PlanFits'
    BY <1>28, <2>3 DEF ReconcileNew, SenderType, SenderPCs, PlanFits, Plan
  <2>5. DeviceType'
    BY <1>28 DEF ReconcileNew, DeviceType, States
  <2> QED
    BY <1>28, <2>1, <2>2, <2>3, <2>4, <2>5, UnchangedTypes DEF ReconcileNew
<1>29. ASSUME NEW k \in NoteKeys, SendNoteOff(k) PROVE TypeInv'
  <2>1. DOMAIN sent \subseteq NoteKeys /\ \A x \in DOMAIN sent : sent[x] \in Velocity
    BY <1>29, NoteMapElement DEF SendNoteOff, DeviceType
  <2>2. sent' \in [DOMAIN sent \ {k} -> Velocity]
    BY <1>29, <2>1 DEF SendNoteOff
  <2>3. sent' \in NoteMap
    BY <1>29, <2>1, <2>2, NoteMapIntro DEF SendNoteOff
  <2>4. SenderType' /\ PlanFits'
    BY <1>29 DEF SendNoteOff, SenderType, SenderPCs, PlanFits
  <2>5. DeviceType'
    BY <1>29, <2>3 DEF SendNoteOff, DeviceType, States
  <2>6. WorldType'
    BY <1>29 DEF SendNoteOff, WorldType
  <2> QED
    BY <1>29, <2>1, <2>2, <2>3, <2>4, <2>5, <2>6, UnchangedTypes DEF SendNoteOff
<1>30. ASSUME NEW k \in NoteKeys, SendNoteOn(k) PROVE TypeInv'
  <2>1. DOMAIN sent \subseteq NoteKeys /\ \A x \in DOMAIN sent : sent[x] \in Velocity
    BY <1>30, NoteMapElement DEF SendNoteOn, DeviceType
  <2>2. cmd.frame.notes \in NoteMap /\ k \in DOMAIN cmd.frame.notes
    BY <1>30 DEF SendNoteOn, SenderType, PlanFits, Desired, Frame
  <2>3. cmd.frame.notes[k] \in Velocity
    BY <1>30, <2>2, NoteMapElement DEF SendNoteOn
  <2>4. sent' \in [DOMAIN sent \cup {k} -> Velocity]
    BY <1>30, <2>1, <2>3 DEF SendNoteOn
  <2>5. sent' \in NoteMap
    BY <1>30, <2>1, <2>4, NoteMapIntro DEF SendNoteOn
  <2>6. SenderType' /\ PlanFits'
    BY <1>30 DEF SendNoteOn, SenderType, SenderPCs, PlanFits
  <2>7. DeviceType'
    BY <1>30, <2>5 DEF SendNoteOn, DeviceType, States
  <2>8. WorldType'
    BY <1>30 DEF SendNoteOn, WorldType
  <2> QED
    BY <1>30, <2>1, <2>2, <2>3, <2>4, <2>5, <2>6, <2>7, <2>8, UnchangedTypes DEF SendNoteOn
<1>31. ASSUME NEW k \in NoteKeys, SendNoteOffFails(k) PROVE TypeInv'
  BY <1>31, SendFailureType DEF SendNoteOffFails
<1>32. ASSUME NEW k \in NoteKeys, SendNoteOnFails(k) PROVE TypeInv'
  BY <1>32, SendFailureType DEF SendNoteOnFails
<1>33. CASE SendDone
  <2>1. SenderType' /\ PlanFits'
    BY <1>33 DEF SendDone, SenderType, SenderPCs, PlanFits
  <2> QED
    BY <1>33, <2>1, UnchangedTypes DEF SendDone
<1>34. CASE PanicSilence
  <2>1. PanicTypes'
    BY <1>34, PanicCurrentType DEF PanicSilence
  <2>2. SenderType' /\ PlanFits'
    BY <1>34 DEF PanicSilence, SenderType, SenderPCs, PlanFits
  <2>3. DeviceType'
    BY <1>34, <2>1 DEF PanicSilence, DeviceType, States, PanicTypes, OutputErrorState
  <2> QED
    BY <1>34, <2>1, <2>2, <2>3, UnchangedTypes DEF PanicSilence, PanicTypes
<1>35. CASE CloseStep
  <2>1. PanicTypes'
    BY <1>35, PanicCurrentType DEF CloseStep
  <2>2. SharedType'
    BY <1>35 DEF CloseStep, SharedType
  <2>3. SenderType' /\ PlanFits'
    BY <1>35 DEF CloseStep, SenderType, SenderPCs, PlanFits
  <2>4. DeviceType'
    BY <1>35, <2>1 DEF CloseStep, DeviceType, States, PanicTypes
  <2> QED
    BY <1>35, <2>1, <2>2, <2>3, <2>4, UnchangedTypes DEF CloseStep, PanicTypes
<1>36. CASE RefreshFailure
  <2>1. PanicTypes'
    BY <1>36, PanicCurrentType DEF RefreshFailure
  <2>2. SharedType'
    BY <1>36 DEF RefreshFailure, SharedType
  <2>3. SenderType' /\ PlanFits'
    BY <1>36 DEF RefreshFailure, SenderType, SenderPCs, PlanFits
  <2>4. DeviceType'
    BY <1>36, <2>1 DEF RefreshFailure, DeviceType, States, PanicTypes
  <2> QED
    BY <1>36, <2>1, <2>2, <2>3, <2>4, UnchangedTypes DEF RefreshFailure, PanicTypes
<1>37. CASE ApplySwitch
  <2>1. PanicTypes'
    BY <1>37, PanicCurrentType DEF ApplySwitch
  <2>2. DeviceType'
    BY <1>37, <2>1 DEF ApplySwitch, DeviceType, States, PanicTypes
  <2> QED
    BY <1>37, <2>1, <2>2, UnchangedTypes DEF ApplySwitch, PanicTypes
<1>38. ASSUME NEW devices \in DeviceSets, RefreshPortNames(devices) PROVE TypeInv'
  <2>1. PanicTypes'
    <3>1. CASE port # None /\ port \notin devices
      BY <1>38, <3>1, PanicCurrentType DEF RefreshPortNames
    <3>2. CASE ~(port # None /\ port \notin devices)
      BY <1>38, <3>2, UnchangedTypes DEF RefreshPortNames, PanicTypes, DeviceType
    <3> QED
      BY <3>1, <3>2
  <2>2. SenderType' /\ PlanFits'
    BY <1>38 DEF RefreshPortNames, SenderType, SenderPCs, PlanFits
  <2>3. connection' \in States
    BY <1>38 DEF RefreshPortNames, DeviceType, States
  <2>4. DeviceType'
    BY <1>38, <2>1, <2>3 DEF RefreshPortNames, DeviceType, PanicTypes
  <2> QED
    BY <1>38, <2>1, <2>2, <2>4, UnchangedTypes DEF RefreshPortNames, PanicTypes
<1>39. CASE Stopped
  BY <1>39, <1>0 DEF Stopped
<1> QED
  BY <1>0, <1>1, <1>2, <1>3, <1>4, <1>5, <1>6, <1>7, <1>8, <1>9, <1>10, <1>11,
     <1>12, <1>13, <1>14, <1>15, <1>16, <1>17, <1>18, <1>19, <1>20, <1>21,
     <1>22, <1>23, <1>24, <1>25, <1>26, <1>27, <1>28, <1>29, <1>30, <1>31,
     <1>32, <1>33, <1>34, <1>35, <1>36, <1>37, <1>38, <1>39 DEF MidiNext,
     WorkerNext, CommanderNext, SenderNext

\* Type correctness: on every behaviour of the service and its clients, for
\* any keys, channels, ports and bounds, every variable keeps its type.
THEOREM TypeCorrect == MidiSpec => []MidiTypeOK
<1>1. TypeInv => MidiTypeOK
  BY DEF TypeInv
<1> QED
  BY <1>1, InitTypeInv, NextTypeInv, PTL DEF MidiSpec

\* _panic_current loses no note: what still sounds afterwards sounds on a
\* channel whose all-notes-off was lost, a note-on that was heard although its
\* send failed included, because its channel is among the extra ones.
LEMMA PanicKeepsOwned ==
    ASSUME TypeInv, SoundingNotesAreOwned,
           NEW closePort \in BOOLEAN, NEW error \in {0, 1},
           NEW extra \in SUBSET Channels, NEW heard \in SUBSET NoteKeys,
           {ChannelOf[k] : k \in heard} \subseteq extra,
           PanicCurrent(closePort, error, extra, heard)
    PROVE  SoundingNotesAreOwned'
<1>1. PICK lostOffs \in SUBSET DOMAIN sent, lostAlls \in SUBSET PanicChannels(extra) :
        IF port = None
        THEN UNCHANGED <<sounding, lossy>>
        ELSE /\ sounding' = [sounding EXCEPT ![port] =
                    {k \in @ \cup heard :
                        /\ k \notin DOMAIN sent \ lostOffs
                        /\ ChannelOf[k] \notin PanicChannels(extra) \ lostAlls}]
             /\ lossy' = [lossy EXCEPT ![port] =
                    (@ \ (PanicChannels(extra) \ lostAlls)) \cup lostAlls]
  BY DEF PanicCurrent
<1> SUFFICES ASSUME NEW p \in Ports, NEW k \in sounding'[p]
             PROVE  ChannelOf[k] \in lossy'[p]
  BY DEF SoundingNotesAreOwned
<1>2. CASE p # port
  BY <1>1, <1>2 DEF SoundingNotesAreOwned, TypeInv, MidiTypeOK, WorldType
<1>3. CASE p = port
  <2>1. port # None
    BY <1>3
  <2>2. /\ k \in sounding[p] \cup heard
        /\ ChannelOf[k] \notin PanicChannels(extra) \ lostAlls
        /\ lossy'[p] = (lossy[p] \ (PanicChannels(extra) \ lostAlls)) \cup lostAlls
    BY <1>1, <1>3, <2>1 DEF TypeInv, MidiTypeOK, WorldType
  <2>3. \/ ChannelOf[k] \in PanicChannels(extra)
        \/ ChannelOf[k] \in lossy[p]
    BY <2>2 DEF SoundingNotesAreOwned, PanicChannels
  <2> QED
    BY <2>2, <2>3
<1> QED
  BY <1>2, <1>3

\* The same for a panic that no failed message caused.
LEMMA PlainPanicOwned ==
    ASSUME TypeInv, SoundingNotesAreOwned,
           NEW closePort \in BOOLEAN, NEW error \in {0, 1},
           PanicCurrent(closePort, error, {}, {})
    PROVE  SoundingNotesAreOwned'
<1>1. {ChannelOf[k] : k \in {}} \subseteq {} /\ {} \in SUBSET NoteKeys /\ {} \in SUBSET Channels
  OBVIOUS
<1> QED
  BY <1>1, PanicKeepsOwned

\* Steps that touch neither the port, the books nor the synthesizers.
LEMMA UntouchedOwned ==
    SoundingNotesAreOwned /\ UNCHANGED <<port, sent, sounding, lossy>>
        => SoundingNotesAreOwned'
BY DEF SoundingNotesAreOwned

\* A failed send of a note of channel c loses no note.
LEMMA SendFailureOwned ==
    ASSUME TypeInv, SoundingNotesAreOwned, NEW c \in Channels,
           NEW heard \in SUBSET NoteKeys, \A k \in heard : ChannelOf[k] = c,
           SendFailure(c, heard)
    PROVE  SoundingNotesAreOwned'
<1>1. PanicCurrent(TRUE, 1, {c}, heard)
  BY DEF SendFailure
<1>2. {ChannelOf[k] : k \in heard} \subseteq {c} /\ {c} \in SUBSET Channels
  OBVIOUS
<1> QED
  BY <1>1, <1>2, PanicKeepsOwned

\* Every step keeps ownership.
LEMMA NextOwned ==
  TypeInv /\ SoundingNotesAreOwned /\ [MidiNext]_midiVars => SoundingNotesAreOwned'
<1> SUFFICES ASSUME TypeInv, SoundingNotesAreOwned, [MidiNext]_midiVars
             PROVE  SoundingNotesAreOwned'
  OBVIOUS
<1>0. CASE UNCHANGED midiVars
  BY <1>0, UntouchedOwned DEF midiVars, device, world
<1>1. CASE WorkerNext
  BY <1>1, UntouchedOwned DEF WorkerNext, TickState, TickNoData, PublishCheck,
     PublishDeposit, RequestPanic, ResetPanic, ResetServed, ResetTimesOut, device, world
<1>2. CASE CommanderNext
  BY <1>2, UntouchedOwned DEF CommanderNext, BeginPanic, CommandPanic, PanicReturn,
     RefreshOutputs, CloseOutput, device, world
<1>3. CASE TakeClose \/ TakePanic \/ TakeRefresh \/ TakeState \/ Rest \/ PanicComplete
           \/ Reapply \/ SendDone
  BY <1>3, UntouchedOwned DEF TakeClose, TakePanic, TakeRefresh, TakeState, Rest,
     PanicComplete, Reapply, SendDone, device, world
<1>4. CASE ApplyUnselected \/ ApplyUnavailable \/ ApplyOpenFails \/ Reconcile \/ ReconcileNew
  BY <1>4, UntouchedOwned DEF ApplyUnselected, ApplyUnavailable, ApplyOpenFails,
     Reconcile, ReconcileNew, world
<1>5. CASE PanicSilence
  <2>1. PanicCurrent(FALSE, 0, {}, {})
    BY <1>5 DEF PanicSilence
  <2> QED
    BY <2>1, PlainPanicOwned
<1>6. CASE CloseStep
  <2>1. PanicCurrent(TRUE, 0, {}, {})
    BY <1>6 DEF CloseStep
  <2> QED
    BY <2>1, PlainPanicOwned
<1>7. CASE RefreshFailure
  <2>1. PanicCurrent(TRUE, 1, {}, {})
    BY <1>7 DEF RefreshFailure
  <2> QED
    BY <2>1, PlainPanicOwned
<1>8. CASE ApplySwitch
  <2>1. PanicCurrent(TRUE, 0, {}, {})
    BY <1>8 DEF ApplySwitch
  <2> QED
    BY <2>1, PlainPanicOwned
<1>9. ASSUME NEW devices \in DeviceSets, RefreshPortNames(devices)
      PROVE  SoundingNotesAreOwned'
  <2>1. CASE port # None /\ port \notin devices
    <3>1. PanicCurrent(TRUE, 0, {}, {})
      BY <1>9, <2>1 DEF RefreshPortNames
    <3> QED
      BY <3>1, PlainPanicOwned
  <2>2. CASE ~(port # None /\ port \notin devices)
    BY <1>9, <2>2, UntouchedOwned DEF RefreshPortNames, world
  <2> QED
    BY <2>1, <2>2
<1>10. CASE ApplyOpen
  \* No port was open, so that every note still sounding is on a lossy channel.
  BY <1>10 DEF ApplyOpen, world, SoundingNotesAreOwned
<1>11. ASSUME NEW c \in Channels, ClearChannel(c) PROVE SoundingNotesAreOwned'
  BY <1>11 DEF ClearChannel, device, SoundingNotesAreOwned, TypeInv, MidiTypeOK, WorldType
<1>12. ASSUME NEW c \in Channels, ClearFails(c) PROVE SoundingNotesAreOwned'
  BY <1>12, SendFailureOwned DEF ClearFails
<1>13. ASSUME NEW k \in NoteKeys, SendNoteOff(k) PROVE SoundingNotesAreOwned'
  BY <1>13 DEF SendNoteOff, SoundingNotesAreOwned, TypeInv, MidiTypeOK, WorldType
<1>14. ASSUME NEW k \in NoteKeys, SendNoteOn(k) PROVE SoundingNotesAreOwned'
  BY <1>14 DEF SendNoteOn, SoundingNotesAreOwned, TypeInv, MidiTypeOK, WorldType
<1>15. ASSUME NEW k \in NoteKeys, SendNoteOffFails(k) PROVE SoundingNotesAreOwned'
  BY <1>15, SendFailureOwned DEF SendNoteOffFails
<1>16. ASSUME NEW k \in NoteKeys, SendNoteOnFails(k) PROVE SoundingNotesAreOwned'
  BY <1>16, SendFailureOwned DEF SendNoteOnFails
<1>17. CASE Stopped
  BY <1>17, <1>0 DEF Stopped
<1> QED
  BY <1>0, <1>1, <1>2, <1>3, <1>4, <1>5, <1>6, <1>7, <1>8, <1>9, <1>10, <1>11, <1>12,
     <1>13, <1>14, <1>15, <1>16, <1>17 DEF MidiNext, SenderNext

\* No note is left behind: on every behaviour, whatever is published, panicked,
\* switched, unplugged or closed and whichever sends fail, a note still sounding
\* is tracked on the open port or sits on a channel whose all-notes-off was lost.
THEOREM NoNoteLeftBehind == MidiSpec => []SoundingNotesAreOwned
<1>1. MidiInit => SoundingNotesAreOwned
  BY DEF MidiInit, SoundingNotesAreOwned
<1> QED
  BY <1>1, InitTypeInv, NextTypeInv, NextOwned, PTL DEF MidiSpec

-----------------------------------------------------------------------------
(* An idle service plays the state published last.                         *)

\* What the loop of the sender keeps in order: it is busy while it works, the
\* mailbox holds the last published state, and no panic is served twice.
Ordered ==
    /\ step \notin {"wait", "done"} => senderBusy
    /\ step \in {"close", "done"} => closing
    /\ mailbox # None => mailbox = latest
    /\ panicCompleted <= panicRequested /\ panicGen <= panicRequested

\* Notes are believed to be on only at an open port; messages go to the port
\* the state in hand names; and only _apply_desired, between closing one port and
\* opening the next, is without the port it reports.
Attached ==
    /\ port = None => DOMAIN sent = {}
    /\ step \in {"clear", "send"} => port # None /\ port = Target
    /\ step = "panicked" => DOMAIN sent = {}
    /\ connection = "CONNECTED" /\ step # "apply" => port # None

\* A key that plays is as near the velocity asked for as its policy wants it.
Near(k, frame) ==
    \/ frame.policy = "Ignore" \/ sent[k] = frame.notes[k]
    \/ (IF frame.notes[k] > sent[k] THEN frame.notes[k] - sent[k]
        ELSE sent[k] - frame.notes[k]) < frame.threshold

\* What the messages still to send are for: once they are out, exactly the keys
\* of the state in hand play.
Planned ==
    step = "send" =>
        /\ offs \cap DOMAIN cmd.frame.notes \subseteq ons
        /\ DOMAIN cmd.frame.notes \ ons \subseteq DOMAIN sent
        /\ DOMAIN sent \ offs \subseteq DOMAIN cmd.frame.notes
        /\ \A k \in DOMAIN sent \ (offs \cup ons) : Near(k, cmd.frame)

\* The open port is the one the frame names and plays the frame's keys.
Plays(frame) ==
    port # None =>
        /\ port = Resolve(frame.port, available)
        /\ DOMAIN sent = DOMAIN frame.notes
        /\ \A k \in DOMAIN sent : Near(k, frame)

\* While no panic and no close is under way: a withdrawn state is not played,
\* the state in hand is the last one unless a newer one waits, and the sender
\* comes to rest with the last one played.
Served == ~closing /\ panicCompleted >= panicRequested
Followed ==
    Served =>
        /\ latest = None /\ step \in {"wait", "rest", "refresh", "reapply"} => DOMAIN sent = {}
        /\ mailbox = None /\ step \in {"apply", "clear", "send"} => cmd = latest
        /\ mailbox = None /\ latest # None /\ step \in {"wait", "rest"} => Plays(latest.frame)

\* The inductive invariant behind IdleMatchesLatest.
IdleInv == Ordered /\ Attached /\ Planned /\ Followed

\* What _panic_current leaves behind: nothing is believed to be on, and the port
\* is closed where the caller asked for it or a send failed.
LEMMA PanicCurrentFacts ==
    ASSUME TypeInv, NEW closePort \in BOOLEAN, NEW error \in {0, 1},
           NEW extra \in SUBSET Channels, NEW heard \in SUBSET NoteKeys,
           PanicCurrent(closePort, error, extra, heard)
    PROVE  /\ DOMAIN sent' = {}
           /\ port' \in {port, None}
           /\ closePort \/ error = 1 => port' = None
           /\ port' # port => closePort \/ error = 1 \/ faults' > faults
<1>1. DOMAIN sent' = {}
  BY NoNotesType DEF PanicCurrent
<1>2. PICK lostOffs \in SUBSET DOMAIN sent, lostAlls \in SUBSET PanicChannels(extra) :
        LET failed == lostOffs # {} \/ lostAlls # {}
        IN  /\ faults' = faults + error + (IF failed THEN 1 ELSE 0)
            /\ port' = IF closePort \/ error = 1 \/ failed THEN None ELSE port
  BY DEF PanicCurrent
<1> QED
  BY <1>1, <1>2 DEF TypeInv, MidiTypeOK, WorldType

\* The same for a panic that no failed message caused.
LEMMA PlainPanicFacts ==
    ASSUME TypeInv, NEW closePort \in BOOLEAN, NEW error \in {0, 1},
           PanicCurrent(closePort, error, {}, {})
    PROVE  /\ DOMAIN sent' = {}
           /\ port' \in {port, None}
           /\ closePort \/ error = 1 => port' = None
           /\ port' # port => closePort \/ error = 1 \/ faults' > faults
<1>1. {} \in SUBSET Channels /\ {} \in SUBSET NoteKeys
  OBVIOUS
<1> QED
  BY <1>1, PanicCurrentFacts

\* Steps that touch neither the sender nor what it shares with its clients.
LEMMA UntouchedIdle == IdleInv /\ UNCHANGED <<shared, sender, device>> => IdleInv'
BY DEF IdleInv, Ordered, Attached, Planned, Followed, Served, Plays, Near, Target, shared,
   sender, device

\* A failed send withdraws the state in hand and closes the port.
LEMMA SendFailureIdle ==
    ASSUME TypeInv, IdleInv, NEW c \in Channels, NEW heard \in SUBSET NoteKeys,
           step \in {"clear", "send"}, SendFailure(c, heard)
    PROVE  IdleInv'
<1>1. PanicCurrent(TRUE, 1, {c}, heard) /\ {c} \in SUBSET Channels
  BY DEF SendFailure
<1>2. DOMAIN sent' = {} /\ port' = None
  BY <1>1, PanicCurrentFacts
<1>3. Ordered'
  BY DEF IdleInv, Ordered, SendFailure
<1>4. Attached'
  BY <1>2 DEF SendFailure, OutputErrorState, Attached
<1>5. Planned' /\ Followed'
  BY <1>2 DEF SendFailure, Planned, Followed
<1> QED
  BY <1>3, <1>4, <1>5 DEF IdleInv

\* The messages _reconcile plans lead to the state in hand.
LEMMA PlanFitsTarget ==
    ASSUME TypeInv, Plan, cmd # None, UNCHANGED <<cmd, sent>>
    PROVE  Planned'
<1>1. /\ DOMAIN sent \subseteq NoteKeys
      /\ \A k \in DOMAIN sent : sent[k] \in Int
  BY NoteMapElement DEF TypeInv, MidiTypeOK, DeviceType, Velocity
<1>2. offs' \cap DOMAIN cmd.frame.notes \subseteq ons'
  BY DEF Plan, Offs, Ons, Removed
<1>3. DOMAIN cmd.frame.notes \ ons' \subseteq DOMAIN sent
  BY DEF Plan, Ons, Added
<1>4. DOMAIN sent \ offs' \subseteq DOMAIN cmd.frame.notes
  BY DEF Plan, Offs, Removed
<1>5. ASSUME NEW k \in DOMAIN sent \ (offs' \cup ons') PROVE Near(k, cmd.frame)
  <2>1. k \in DOMAIN cmd.frame.notes
    BY <1>4, <1>5
  <2>2. cmd.frame.policy = "Ignore" \/ ~Changed(k)
    BY <1>5, <2>1 DEF Plan, Ons, Updated
  <2>3. /\ sent[k] \in Int /\ cmd.frame.notes[k] \in Int /\ cmd.frame.threshold \in Int
    BY <1>1, <2>1, NoteMapElement DEF TypeInv, MidiTypeOK, SenderType, Desired, Frame,
       Velocity
  <2> QED
    BY <2>2, <2>3 DEF Changed, Near
<1> QED
  BY <1>2, <1>3, <1>4, <1>5 DEF Planned, Near

\* Every step keeps the invariant.
LEMMA NextIdle == TypeInv /\ IdleInv /\ [MidiNext]_midiVars => IdleInv'
<1> SUFFICES ASSUME TypeInv, IdleInv, [MidiNext]_midiVars PROVE IdleInv'
  OBVIOUS
<1> USE DEF TypeInv, MidiTypeOK, IdleInv

<1>1. CASE UNCHANGED midiVars
  BY <1>1, UntouchedIdle DEF midiVars

<1>2. ASSUME NEW f \in Frames, TickState(f) PROVE IdleInv'
  BY <1>2, UntouchedIdle DEF TickState

<1>3. CASE TickNoData \/ PublishCheck \/ ResetServed \/ ResetTimesOut
  BY <1>3, UntouchedIdle DEF TickNoData, PublishCheck, ResetServed, ResetTimesOut

<1>4. CASE BeginPanic \/ PanicReturn
  BY <1>4, UntouchedIdle DEF BeginPanic, PanicReturn

<1>5. CASE PublishDeposit
  <2>1. CASE closing \/ senderClosed
    BY <1>5, <2>1, UntouchedIdle DEF PublishDeposit, shared
  <2>2. CASE ~(closing \/ senderClosed)
    <3>1. worker.frame \in Frame /\ worker.gen \in Nat
      BY <1>5 DEF PublishDeposit, ClientType, WorkerStates, IdleClient
    <3>2. [frame |-> worker.frame, gen |-> worker.gen] \in Desired
      BY <3>1 DEF Desired
    <3>3. mailbox' # None /\ latest' = mailbox'
      BY <1>5, <2>2, <3>2 DEF PublishDeposit
    <3>4. Ordered'
      BY <1>5, <3>3 DEF PublishDeposit, Ordered, sender
    <3>5. Attached' /\ Planned'
      BY <1>5 DEF PublishDeposit, Attached, Planned, Near, Target, sender, device
    <3>6. Followed'
      BY <3>3 DEF Followed
    <3> QED
      BY <3>4, <3>5, <3>6
  <2> QED
    BY <2>1, <2>2

<1>6. ASSUME NEW g, EnqueuePanic(g), UNCHANGED <<sender, device>> PROVE IdleInv'
  <2>1. Ordered'
    BY <1>6 DEF EnqueuePanic, Ordered, SharedType, SenderType, sender
  <2>2. Attached' /\ Planned'
    BY <1>6 DEF Attached, Planned, Near, Target, sender, device
  <2>3. ~Served'
    BY <1>6 DEF EnqueuePanic, Ordered, Served, SharedType
  <2> QED
    BY <2>1, <2>2, <2>3 DEF Followed

<1>7. CASE RequestPanic \/ ResetPanic \/ CommandPanic
  BY <1>7, <1>6, UntouchedIdle DEF RequestPanic, ResetPanic, CommandPanic

<1>8. CASE RefreshOutputs
  <2>1. Ordered'
    BY <1>8 DEF RefreshOutputs, Ordered, sender
  <2>2. Attached'
    BY <1>8 DEF RefreshOutputs, Attached, Target, sender, device
  <2>3. Planned'
    BY <1>8 DEF RefreshOutputs, Planned, Near, sender, device
  <2>4. Followed'
    BY <1>8 DEF RefreshOutputs, Followed, Served, Plays, Near, sender, device
  <2> QED
    BY <2>1, <2>2, <2>3, <2>4

<1>9. CASE CloseOutput
  <2>1. Ordered'
    BY <1>9 DEF CloseOutput, Ordered, sender
  <2>2. Attached'
    BY <1>9 DEF CloseOutput, Attached, Target, sender, device
  <2>3. Planned'
    BY <1>9 DEF CloseOutput, Planned, Near, sender, device
  <2>4. Followed'
    BY <1>9 DEF CloseOutput, Followed, Served
  <2> QED
    BY <2>1, <2>2, <2>3, <2>4

<1>10. CASE TakeClose
  <2>1. Ordered'
    BY <1>10 DEF TakeClose, Ordered
  <2>2. Attached'
    BY <1>10 DEF TakeClose, Attached, device
  <2>3. Planned'
    BY <1>10 DEF TakeClose, Planned
  <2>4. Followed'
    BY <1>10 DEF TakeClose, Followed
  <2> QED
    BY <2>1, <2>2, <2>3, <2>4

<1>11. CASE TakePanic
  <2>1. Ordered'
    BY <1>11 DEF TakePanic, Ordered, SharedType
  <2>2. Attached'
    BY <1>11 DEF TakePanic, Attached, device
  <2>3. Planned'
    BY <1>11 DEF TakePanic, Planned
  <2>4. Followed'
    BY <1>11 DEF TakePanic, Followed
  <2> QED
    BY <2>1, <2>2, <2>3, <2>4

<1>12. CASE TakeRefresh
  <2>1. Ordered'
    BY <1>12 DEF TakeRefresh, Ordered
  <2>2. Attached'
    BY <1>12 DEF TakeRefresh, Attached, device
  <2>3. Planned'
    BY <1>12 DEF TakeRefresh, Planned
  <2>4. Followed'
    BY <1>12 DEF TakeRefresh, Followed, Served, device
  <2> QED
    BY <2>1, <2>2, <2>3, <2>4

<1>13. CASE TakeState
  <2>1. Ordered'
    BY <1>13 DEF TakeState, Ordered
  <2>2. Attached'
    BY <1>13 DEF TakeState, Attached, device
  <2>3. Planned'
    BY <1>13 DEF TakeState, Planned
  <2>4. Followed'
    BY <1>13 DEF TakeState, Ordered, Followed
  <2> QED
    BY <2>1, <2>2, <2>3, <2>4

<1>14. CASE Rest
  <2>1. Ordered'
    BY <1>14 DEF Rest, Ordered
  <2>2. Attached'
    BY <1>14 DEF Rest, Attached, device
  <2>3. Planned'
    BY <1>14 DEF Rest, Planned
  <2>4. Followed'
    BY <1>14 DEF Rest, Followed, Served, Plays, Near, device
  <2> QED
    BY <2>1, <2>2, <2>3, <2>4

<1>15. CASE PanicComplete
  <2>1. Ordered'
    BY <1>15 DEF PanicComplete, Ordered
  <2>2. Attached'
    BY <1>15 DEF PanicComplete, Attached, device
  <2>3. Planned'
    BY <1>15 DEF PanicComplete, Planned
  <2>4. Followed'
    BY <1>15 DEF PanicComplete, Attached, Followed, device
  <2> QED
    BY <2>1, <2>2, <2>3, <2>4

<1>16. CASE Reapply
  <2>1. Ordered'
    BY <1>16 DEF Reapply, Ordered, shared
  <2>2. Attached'
    BY <1>16 DEF Reapply, Attached, device
  <2>3. Planned'
    BY <1>16 DEF Reapply, Planned
  <2>4. Followed'
    BY <1>16 DEF Reapply, Followed, Served, device, shared
  <2> QED
    BY <2>1, <2>2, <2>3, <2>4

<1>17. CASE ApplyUnselected
  <2>1. Ordered'
    BY <1>17 DEF ApplyUnselected, Ordered, shared
  <2>2. Attached'
    BY <1>17 DEF ApplyUnselected, Attached
  <2>3. Planned'
    BY <1>17 DEF ApplyUnselected, Planned
  <2>4. Followed'
    BY <1>17 DEF ApplyUnselected, Attached, Followed, Plays
  <2> QED
    BY <2>1, <2>2, <2>3, <2>4

<1>18. CASE ApplyUnavailable
  <2>1. Ordered'
    BY <1>18 DEF ApplyUnavailable, Ordered, shared
  <2>2. Attached'
    BY <1>18 DEF ApplyUnavailable, Attached
  <2>3. Planned'
    BY <1>18 DEF ApplyUnavailable, Planned
  <2>4. Followed'
    BY <1>18 DEF ApplyUnavailable, Attached, Followed, Plays
  <2> QED
    BY <2>1, <2>2, <2>3, <2>4

<1>19. CASE ApplyOpenFails
  <2>1. Ordered'
    BY <1>19 DEF ApplyOpenFails, Ordered, shared
  <2>2. Attached'
    BY <1>19 DEF ApplyOpenFails, Attached
  <2>3. Planned'
    BY <1>19 DEF ApplyOpenFails, Planned
  <2>4. Followed'
    BY <1>19 DEF ApplyOpenFails, Attached, Followed, Plays
  <2> QED
    BY <2>1, <2>2, <2>3, <2>4

<1>20. CASE ApplyOpen
  <2>1. Target # None
    BY <1>20 DEF ApplyOpen, DeviceType
  <2>2. Target' = Target
    BY <1>20 DEF ApplyOpen, Target
  <2>3. Ordered'
    BY <1>20 DEF ApplyOpen, Ordered, shared
  <2>4. Attached'
    BY <1>20, <2>1, <2>2 DEF ApplyOpen, Attached
  <2>5. Planned' /\ Followed'
    BY <1>20 DEF ApplyOpen, Planned, Followed, Served, shared
  <2> QED
    BY <2>3, <2>4, <2>5

<1>21. CASE SendDone
  <2>1. Ordered'
    BY <1>21 DEF SendDone, Ordered, shared
  <2>2. Attached'
    BY <1>21 DEF SendDone, Attached, device
  <2>3. Planned'
    BY <1>21 DEF SendDone, Planned
  <2>4. Followed'
    BY <1>21 DEF SendDone, Ordered, Attached, Planned, Followed, Served, Plays, Near,
       Target, SenderType, device, shared
  <2> QED
    BY <2>1, <2>2, <2>3, <2>4

<1>22. CASE PanicSilence
  <2>1. PanicCurrent(FALSE, 0, {}, {})
    BY <1>22 DEF PanicSilence
  <2>2. /\ DOMAIN sent' = {} /\ port' \in {port, None}
        /\ port' # port => FALSE \/ 0 = 1 \/ faults' > faults
    BY <2>1, PlainPanicFacts, Zenon
  <2>3. DOMAIN sent' = {} /\ port' \in {port, None} /\ (port' # port => faults' > faults)
    BY <2>2
  <2>4. Ordered'
    BY <1>22 DEF PanicSilence, Ordered, shared
  <2>5. Attached'
    BY <1>22, <2>3 DEF PanicSilence, Attached, OutputErrorState
  <2>6. Planned'
    BY <1>22 DEF PanicSilence, Planned
  <2>7. Followed'
    BY <1>22, <2>3 DEF PanicSilence, Followed
  <2> QED
    BY <2>4, <2>5, <2>6, <2>7

<1>23. CASE CloseStep
  <2>1. PanicCurrent(TRUE, 0, {}, {})
    BY <1>23 DEF CloseStep
  <2>2. DOMAIN sent' = {} /\ port' = None
    BY <2>1, PlainPanicFacts
  <2>3. Ordered'
    BY <1>23 DEF CloseStep, Ordered
  <2>4. Attached'
    BY <1>23, <2>2 DEF CloseStep, Attached
  <2>5. Planned'
    BY <1>23 DEF CloseStep, Planned
  <2>6. Followed'
    BY <1>23, <2>2 DEF CloseStep, Followed
  <2> QED
    BY <2>3, <2>4, <2>5, <2>6

<1>24. CASE RefreshFailure
  <2>1. PanicCurrent(TRUE, 1, {}, {})
    BY <1>24 DEF RefreshFailure
  <2>2. DOMAIN sent' = {} /\ port' = None
    BY <2>1, PlainPanicFacts
  <2>3. Ordered'
    BY <1>24 DEF RefreshFailure, Ordered
  <2>4. Attached'
    BY <1>24, <2>2 DEF RefreshFailure, Attached
  <2>5. Planned'
    BY <1>24 DEF RefreshFailure, Planned
  <2>6. Followed'
    BY <1>24, <2>2 DEF RefreshFailure, Followed
  <2> QED
    BY <2>3, <2>4, <2>5, <2>6

<1>25. CASE ApplySwitch
  <2>1. PanicCurrent(TRUE, 0, {}, {})
    BY <1>25 DEF ApplySwitch
  <2>2. DOMAIN sent' = {} /\ port' = None
    BY <2>1, PlainPanicFacts
  <2>3. Ordered'
    BY <1>25 DEF ApplySwitch, Ordered, sender, shared
  <2>4. Attached'
    BY <1>25, <2>2 DEF ApplySwitch, Attached, sender
  <2>5. Planned'
    BY <1>25 DEF ApplySwitch, Planned, sender
  <2>6. Followed'
    BY <1>25, <2>2 DEF ApplySwitch, Followed, Served, sender, shared
  <2> QED
    BY <2>3, <2>4, <2>5, <2>6

<1>26. ASSUME NEW devices \in DeviceSets, RefreshPortNames(devices) PROVE IdleInv'
  <2>1. Ordered'
    BY <1>26 DEF RefreshPortNames, Ordered, shared
  <2>2. CASE port # None /\ port \notin devices
    <3>1. PanicCurrent(TRUE, 0, {}, {}) /\ connection' = "UNAVAILABLE"
      BY <1>26, <2>2 DEF RefreshPortNames
    <3>2. DOMAIN sent' = {}
      BY <3>1, PlainPanicFacts
    <3>3. Attached' /\ Planned' /\ Followed'
      BY <1>26, <3>1, <3>2 DEF RefreshPortNames, Attached, Planned, Followed
    <3> QED
      BY <2>1, <3>3
  <2>3. CASE ~(port # None /\ port \notin devices)
    <3>1. port' = port /\ sent' = sent
      BY <1>26, <2>3 DEF RefreshPortNames
    <3>2. connection' = "CONNECTED" => connection = "CONNECTED"
      BY <1>26, <2>3 DEF RefreshPortNames
    <3>3. Attached'
      BY <1>26, <3>1, <3>2 DEF RefreshPortNames, Attached
    <3>4. Planned' /\ Followed'
      BY <1>26, <3>1 DEF RefreshPortNames, Planned, Followed, Served, shared
    <3> QED
      BY <2>1, <3>3, <3>4
  <2> QED
    BY <2>2, <2>3

<1>27. CASE Reconcile \/ ReconcileNew
  <2>1. cmd # None /\ UNCHANGED <<cmd, sent>> /\ Plan
    BY <1>27 DEF Reconcile, ReconcileNew, SenderType
  <2>2. Planned'
    BY <2>1, PlanFitsTarget
  <2>3. Ordered'
    BY <1>27 DEF Reconcile, ReconcileNew, Plan, Ordered, shared
  <2>4. Attached'
    BY <1>27 DEF Reconcile, ReconcileNew, Plan, Attached, Target
  <2>5. Followed'
    BY <1>27 DEF Reconcile, ReconcileNew, Plan, Followed, Served, shared
  <2> QED
    BY <2>2, <2>3, <2>4, <2>5

<1>28. ASSUME NEW c \in Channels, ClearChannel(c) PROVE IdleInv'
  BY <1>28 DEF ClearChannel, Ordered, Attached, Planned, Followed, Served, Target, shared,
     device

<1>29. ASSUME NEW c \in Channels, ClearFails(c) PROVE IdleInv'
  BY <1>29, SendFailureIdle DEF ClearFails

<1>30. ASSUME NEW k \in NoteKeys, SendNoteOff(k) PROVE IdleInv'
  <2>1. DOMAIN sent' = DOMAIN sent \ {k} /\ \A x \in DOMAIN sent \ {k} : sent'[x] = sent[x]
    BY <1>30 DEF SendNoteOff
  <2>2. Ordered' /\ Followed'
    BY <1>30 DEF SendNoteOff, Ordered, Followed, Served, shared
  <2>3. Attached'
    BY <1>30, <2>1 DEF SendNoteOff, Attached, Target
  <2>4. Planned'
    BY <1>30, <2>1 DEF SendNoteOff, Planned, Near
  <2> QED
    BY <2>2, <2>3, <2>4

<1>31. ASSUME NEW k \in NoteKeys, SendNoteOn(k) PROVE IdleInv'
  <2>1. /\ DOMAIN sent' = DOMAIN sent \cup {k}
        /\ sent'[k] = cmd.frame.notes[k]
        /\ \A x \in DOMAIN sent \ {k} : sent'[x] = sent[x]
    BY <1>31 DEF SendNoteOn
  <2>2. Ordered' /\ Followed'
    BY <1>31 DEF SendNoteOn, Ordered, Followed, Served, shared
  <2>3. Attached'
    BY <1>31 DEF SendNoteOn, Attached, Target
  <2>4. k \in DOMAIN cmd.frame.notes
    BY <1>31 DEF SendNoteOn, PlanFits
  <2>5. Planned'
    BY <1>31, <2>1, <2>4 DEF SendNoteOn, Planned, Near
  <2> QED
    BY <2>2, <2>3, <2>5

<1>32. ASSUME NEW k \in NoteKeys, SendNoteOffFails(k) PROVE IdleInv'
  <2>1. ChannelOf[k] \in Channels /\ {} \in SUBSET NoteKeys
    OBVIOUS
  <2>2. step = "send" /\ SendFailure(ChannelOf[k], {})
    BY <1>32 DEF SendNoteOffFails
  <2> QED
    BY <2>1, <2>2, SendFailureIdle

<1>33. ASSUME NEW k \in NoteKeys, SendNoteOnFails(k) PROVE IdleInv'
  <2>1. ChannelOf[k] \in Channels
    OBVIOUS
  <2>2. PICK heard \in SUBSET NoteKeys : SendFailure(ChannelOf[k], heard)
    BY <1>33 DEF SendNoteOnFails
  <2>3. step = "send"
    BY <1>33 DEF SendNoteOnFails
  <2> QED
    BY <2>1, <2>2, <2>3, SendFailureIdle

<1>34. CASE Stopped
  BY <1>34, <1>1 DEF Stopped

<1> QED
  BY <1>1, <1>2, <1>3, <1>4, <1>5, <1>6, <1>7, <1>8, <1>9, <1>10, <1>11, <1>12,
     <1>13, <1>14, <1>15, <1>16, <1>17, <1>18, <1>19, <1>20, <1>21, <1>22,
     <1>23, <1>24, <1>25, <1>26, <1>27, <1>28, <1>29, <1>30, <1>31, <1>32,
     <1>33, <1>34
     DEF MidiNext, WorkerNext, CommanderNext, SenderNext

\* For any keys, ports, devices and frames: an idle service plays exactly the
\* keys of the state published last, on the port it names and within its
\* threshold, or nothing when that state was withdrawn; and a port reported as
\* connected is open (_run, _apply_desired, _reconcile, wait_until_idle).
THEOREM IdlePlaysLatest == MidiSpec => []IdleMatchesLatest
<1>1. MidiInit => IdleInv
  BY NoNotesType DEF MidiInit, IdleInv, Ordered, Attached, Planned, Followed
<1>2. TypeInv /\ IdleInv => IdleMatchesLatest
  <2> SUFFICES ASSUME TypeInv, IdleInv PROVE IdleMatchesLatest
    OBVIOUS
  <2>1. ASSUME IsIdle, ~closing, latest = None PROVE DOMAIN sent = {}
    BY <2>1 DEF IdleInv, IsIdle, Ordered, Followed, Served
  <2>2. ASSUME IsIdle, ~closing, latest # None PROVE Plays(latest.frame)
    BY <2>2 DEF IdleInv, IsIdle, Ordered, Followed, Served
  <2> QED
    BY <2>1, <2>2 DEF IdleInv, Attached, Plays, Near, IdleMatchesLatest,
       HeldVelocityWithinThreshold

<1> QED
  BY <1>1, <1>2, InitTypeInv, NextTypeInv, NextIdle, PTL DEF MidiSpec
=============================================================================
