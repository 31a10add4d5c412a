-------------------------- MODULE DebugSynthProofs --------------------------
(***************************************************************************)
(* Proofs about the debug synthesizer for any keys, voices and envelopes:  *)
(* a voice can always be found, because held keys are distinct and no more *)
(* keys are wanted than there are voices, and a panic silences everything  *)
(* that was asked for before it.                                           *)
(***************************************************************************)
EXTENDS DebugSynth, FiniteSetTheorems, FunctionTheorems, TLAPS

-----------------------------------------------------------------------------
(* The notes of a frame and the cap on them *)

\* A note state gives keys velocities.
LEMMA NotesFacts ==
    ASSUME NEW n \in Notes
    PROVE  /\ DOMAIN n \subseteq Keys /\ IsFiniteSet(DOMAIN n)
           /\ \A k \in DOMAIN n : k \in Nat /\ n[k] \in Velocities /\ n[k] \in Int
<1>1. PICK ks \in SUBSET Keys : n \in [ks -> Velocities]
    BY DEF Notes
<1>2. DOMAIN n = ks
    BY <1>1
<1>3. IsFiniteSet(ks)
    BY SynthAssumption, FS_Subset
<1>4. Keys \subseteq Nat /\ \A x \in Velocities : x \in Int
    BY SynthAssumption
<1> QED
    BY <1>1, <1>2, <1>3, <1>4

\* Dropping notes leaves a note state.
LEMMA NotesRestrict ==
    ASSUME NEW n \in Notes, NEW ks \in SUBSET DOMAIN n
    PROVE  /\ [k \in ks |-> n[k]] \in Notes
           /\ DOMAIN [k \in ks |-> n[k]] = ks
<1>1. ks \in SUBSET Keys /\ \A k \in ks : n[k] \in Velocities
    BY NotesFacts
<1>2. [k \in ks |-> n[k]] \in [ks -> Velocities]
    BY <1>1
<1> QED
    BY <1>1, <1>2 DEF Notes

LEMMA NoNotesFacts == NoNotes \in Notes /\ DOMAIN NoNotes = {}
<1>1. NoNotes \in [{} -> Velocities] /\ {} \in SUBSET Keys
    BY DEF NoNotes
<1> QED
    BY <1>1 DEF Notes, NoNotes

\* Of two keys one comes before the other and has the smaller rank.
LEMMA RankIncreases ==
    ASSUME NEW n \in Notes, NEW j \in DOMAIN n, NEW k \in DOMAIN n, j \in Before(n, k)
    PROVE  /\ Cardinality(Before(n, j)) \in Nat
           /\ Cardinality(Before(n, k)) \in Nat
           /\ Cardinality(Before(n, j)) < Cardinality(Before(n, k))
<1> DEFINE J == Before(n, j)
           K == Before(n, k)
<1>1. /\ DOMAIN n \subseteq Nat
      /\ \A i \in DOMAIN n : n[i] \in Int
    BY NotesFacts
<1>2. J \subseteq K \ {j}
    BY <1>1 DEF Before
<1>3. IsFiniteSet(K)
    BY NotesFacts, FS_Subset DEF Before
<1>4. /\ IsFiniteSet(K \ {j})
      /\ Cardinality(K \ {j}) = Cardinality(K) - 1
    BY <1>3, FS_RemoveElement
<1>5. Cardinality(J) <= Cardinality(K \ {j}) /\ IsFiniteSet(J)
    BY <1>2, <1>4, FS_Subset
<1>6. Cardinality(J) \in Nat /\ Cardinality(K) \in Nat
    BY <1>3, <1>5, FS_CardinalityType
<1> QED
    BY <1>4, <1>5, <1>6

\* update keeps no more notes than there are voices.
LEMMA LoudestFits ==
    ASSUME NEW n \in Notes
    PROVE  /\ Loudest(n) \subseteq DOMAIN n
           /\ IsFiniteSet(Loudest(n))
           /\ Cardinality(Loudest(n)) <= MaxVoices
<1> DEFINE rank == [k \in Loudest(n) |-> Cardinality(Before(n, k))]
           places == 0..(MaxVoices - 1)
<1>1. Loudest(n) \subseteq DOMAIN n
    BY DEF Loudest
<1>2. IsFiniteSet(Loudest(n))
    BY <1>1, NotesFacts, FS_Subset
<1>3. \A k \in Loudest(n) : Cardinality(Before(n, k)) \in places
  <2> SUFFICES ASSUME NEW k \in Loudest(n) PROVE Cardinality(Before(n, k)) \in places
      OBVIOUS
  <2>1. IsFiniteSet(Before(n, k))
      BY NotesFacts, FS_Subset DEF Before
  <2>2. Cardinality(Before(n, k)) \in Nat
      BY <2>1, FS_CardinalityType
  <2> QED
      BY <2>2, SynthAssumption DEF Loudest
<1>4. rank \in [Loudest(n) -> places]
    BY <1>3
<1>5. \A j, k \in Loudest(n) : rank[j] = rank[k] => j = k
  <2> SUFFICES ASSUME NEW j \in Loudest(n), NEW k \in Loudest(n), j # k
               PROVE  Cardinality(Before(n, j)) # Cardinality(Before(n, k))
      OBVIOUS
  <2>1. /\ j \in DOMAIN n /\ k \in DOMAIN n /\ j \in Nat /\ k \in Nat
        /\ n[j] \in Int /\ n[k] \in Int
      BY <1>1, NotesFacts
  <2>2. j \in Before(n, k) \/ k \in Before(n, j)
      BY <2>1 DEF Before
  <2>3. CASE j \in Before(n, k)
      BY <2>1, <2>3, RankIncreases
  <2>4. CASE k \in Before(n, j)
      BY <2>1, <2>4, RankIncreases
  <2> QED
      BY <2>2, <2>3, <2>4
<1>6. rank \in Injection(Loudest(n), places)
    BY <1>4, <1>5 DEF Injection, IsInjective
<1>7. IsFiniteSet(places) /\ Cardinality(places) = MaxVoices
    BY SynthAssumption, FS_Interval
<1>8. Cardinality(Loudest(n)) <= Cardinality(places)
    BY <1>6, <1>7, FS_Injection
<1> QED
    BY <1>1, <1>2, <1>7, <1>8

-----------------------------------------------------------------------------
(* The invariant *)

\* Active voices have keys, and different ones.
VoicesOK ==
    /\ \A v \in Active : voices[v].key \in Keys
    /\ OneVoicePerKey

\* Neither the snapshot nor what the callback captured of it exceeds the voices,
\* and the notes still to be started have none yet.
WantedOK ==
    /\ Cardinality(DOMAIN desired.notes) <= MaxVoices
    /\ pc = "start" =>
          /\ Cardinality(wanted) <= MaxVoices
          /\ added \subseteq wanted
          /\ added \cap Held = {}

\* The callback is never ahead of a panic; what it holds since the last one was
\* asked for since.
PanicOK ==
    /\ seen <= desired.panics
    /\ DOMAIN desired.notes \subseteq armed
    /\ seen = desired.panics =>
          /\ Held \subseteq armed
          /\ pc = "start" => wanted \subseteq armed

Inv == TypeOK /\ VoicesOK /\ WantedOK /\ PanicOK

LEMMA VoicesNotEmpty == MaxVoices \in Nat /\ Voices \subseteq Nat
BY SynthAssumption DEF Voices

\* A note state has a finite domain of keys.
LEMMA DesiredFacts ==
    ASSUME StateOK
    PROVE  /\ desired.notes \in Notes /\ desired.panics \in 0..MaxPanics
           /\ DOMAIN desired.notes \subseteq Keys
           /\ IsFiniteSet(DOMAIN desired.notes)
<1>1. desired.notes \in Notes /\ desired.panics \in 0..MaxPanics
    BY DEF StateOK, Snapshot
<1> QED
    BY <1>1, NotesFacts

LEMMA InitInv == Init => Inv
<1> SUFFICES ASSUME Init PROVE Inv
    OBVIOUS
<1> USE DEF Init, StateInit
<1>1. 0 \in 0..MaxPanics /\ 0 \in Stamps /\ 0 \in 0..Top /\ 0 <= MaxVoices
    BY SynthAssumption, LevelAssumption DEF Stamps
<1>2. desired \in Snapshot /\ DOMAIN desired.notes = {}
    BY <1>1, NoNotesFacts DEF Snapshot
<1>3. TypeOK
    BY <1>1, <1>2 DEF TypeOK, StateOK, Voice, Inactive, Stages
<1>4. Active = {}
    BY DEF Active, Inactive
<1>5. VoicesOK /\ PanicOK
    BY <1>1, <1>2, <1>4 DEF VoicesOK, OneVoicePerKey, PanicOK, Held
<1>6. WantedOK
    BY <1>1, <1>2, FS_EmptySet DEF WantedOK
<1> QED
    BY <1>3, <1>5, <1>6 DEF Inv

-----------------------------------------------------------------------------
(* The callers *)

\* The callers leave the callback's variables alone.
LEMMA CallerFrame ==
    ASSUME Inv, StateOK', UNCHANGED <<voices, older, seen, pc, wanted, added>>
    PROVE  /\ TypeOK' /\ VoicesOK' /\ Held' = Held
           /\ (Cardinality(DOMAIN desired.notes) <= MaxVoices)' => WantedOK'
<1>1. Active' = Active /\ Held' = Held
    BY DEF Active, Held
<1>2. TypeOK'
    BY DEF Inv, TypeOK
<1>3. VoicesOK'
    BY <1>1 DEF Inv, VoicesOK, OneVoicePerKey
<1> QED
    BY <1>1, <1>2, <1>3 DEF Inv, WantedOK

LEMMA UpdateInv ==
    ASSUME Inv, NEW n \in Notes, NEW stamp \in Stamps, Update(n, stamp),
           UNCHANGED <<voices, older, seen, pc, wanted, added>>
    PROVE  Inv'
<1> DEFINE kept == [k \in Loudest(n) |-> n[k]]
<1>1. desired.notes \in Notes /\ desired.panics \in 0..MaxPanics /\ desired \in Snapshot
    BY DesiredFacts DEF Inv, TypeOK, StateOK
<1>2. kept \in Notes /\ DOMAIN kept = Loudest(n)
    BY LoudestFits, NotesRestrict
<1>3. desired' \in Snapshot /\ desired'.notes = kept /\ desired'.panics = desired.panics
    BY <1>1, <1>2 DEF Update, Snapshot
<1>4. StateOK'
    BY <1>3, NotesFacts DEF Update, Inv, TypeOK, StateOK
<1>5. (Cardinality(DOMAIN desired.notes) <= MaxVoices)'
    BY <1>2, <1>3, LoudestFits
<1>6. TypeOK' /\ VoicesOK' /\ WantedOK' /\ Held' = Held
    BY <1>4, <1>5, CallerFrame
<1>7. DOMAIN desired'.notes \subseteq armed' /\ armed \subseteq armed'
    BY <1>2, <1>3, LoudestFits DEF Update
<1>8. PanicOK'
    BY <1>3, <1>6, <1>7 DEF Inv, PanicOK
<1> QED
    BY <1>6, <1>8 DEF Inv

\* panic and close publish the empty snapshot; no callback has seen it yet.
LEMMA SilenceInv ==
    ASSUME Inv, Silence, watermark' \in Stamps, closed' \in BOOLEAN,
           UNCHANGED <<voices, older, seen, pc, wanted, added>>
    PROVE  Inv'
<1>1. desired.panics \in Nat /\ seen \in Nat /\ seen <= desired.panics
    BY DesiredFacts, SynthAssumption DEF Inv, TypeOK, PanicOK
<1>2. desired' \in Snapshot /\ DOMAIN desired'.notes = {} /\ desired'.panics = desired.panics + 1
    BY <1>1, NoNotesFacts, SynthAssumption DEF Silence, Snapshot
<1>3. StateOK'
    BY <1>2 DEF Silence, StateOK
<1>4. (Cardinality(DOMAIN desired.notes) <= MaxVoices)'
    BY <1>2, FS_EmptySet, VoicesNotEmpty
<1>5. TypeOK' /\ VoicesOK' /\ WantedOK'
    BY <1>3, <1>4, CallerFrame
<1>6. PanicOK'
    BY <1>1, <1>2 DEF PanicOK
<1> QED
    BY <1>5, <1>6 DEF Inv

-----------------------------------------------------------------------------
(* The callback *)

\* The callback leaves the snapshot alone.
LEMMA CallbackFrame ==
    ASSUME Inv, UNCHANGED state
    PROVE  /\ StateOK'
           /\ (Cardinality(DOMAIN desired.notes) <= MaxVoices)'
           /\ desired' = desired /\ armed' = armed
           /\ DOMAIN desired.notes \subseteq armed
           /\ DOMAIN desired.notes \subseteq Keys
BY DesiredFacts DEF Inv, TypeOK, StateOK, state, WantedOK, PanicOK

LEMMA BeginInv == ASSUME Inv, CallbackBegin PROVE Inv'
<1>1. Active' = Active /\ Held' = Held
    BY DEF CallbackBegin, Active, Held
<1>2. TypeOK'
    BY CallbackFrame DEF CallbackBegin, Inv, TypeOK
<1> QED
    BY <1>1, <1>2, CallbackFrame
    DEF CallbackBegin, Inv, VoicesOK, OneVoicePerKey, WantedOK, PanicOK

LEMMA PanicInv == ASSUME Inv, CallbackPanic PROVE Inv'
<1>1. Active' = {} /\ Held' = {}
    BY DEF CallbackPanic, Active, Held, Inactive
<1>2. Inactive \in Voice /\ desired.panics \in 0..MaxPanics
    BY DesiredFacts, LevelAssumption DEF Inactive, Voice, Stages, Inv, TypeOK
<1>3. TypeOK'
    BY <1>2, CallbackFrame DEF CallbackPanic, Inv, TypeOK
<1>4. VoicesOK' /\ WantedOK'
    BY <1>1, CallbackFrame DEF CallbackPanic, VoicesOK, OneVoicePerKey, WantedOK
<1>5. PanicOK'
    BY <1>1, <1>2, CallbackFrame DEF CallbackPanic, PanicOK
<1> QED
    BY <1>3, <1>4, <1>5 DEF Inv

\* Reconciling moves voices between stages and changes no key.
LEMMA CaptureInv == ASSUME Inv, CallbackCapture PROVE Inv'
<1>1. wanted' = DOMAIN desired.notes /\ added' = wanted' \ Held /\ pc' = "start"
    BY DEF CallbackCapture, Added
<1>2. voices \in [Voices -> Voice]
    BY DEF Inv, TypeOK
<1>3. \A v \in Voices :
         /\ voices'[v] \in Voice /\ voices'[v].key = voices[v].key
         /\ voices'[v].stage = "inactive" <=> voices[v].stage = "inactive"
    BY <1>2 DEF CallbackCapture, Reconciled, Active, Voice, Stages
<1>4. voices' \in [Voices -> Voice]
    BY <1>3 DEF CallbackCapture
<1>5. Active' = Active /\ Held' = Held
    BY <1>3 DEF Active, Held
<1>6. TypeOK'
    BY <1>1, <1>4, CallbackFrame DEF CallbackCapture, Inv, TypeOK
<1>7. VoicesOK'
  <2>1. \A v \in Active : v \in Voices
      BY DEF Active
  <2> QED
      BY <1>3, <1>5, <2>1 DEF Inv, VoicesOK, OneVoicePerKey
<1>8. WantedOK'
  <2>1. desired' = desired /\ (Cardinality(DOMAIN desired.notes) <= MaxVoices)'
      BY CallbackFrame DEF CallbackCapture
  <2>2. Cardinality(wanted') <= MaxVoices
      BY <1>1, <2>1
  <2>3. added' \subseteq wanted' /\ added' \cap Held' = {}
      BY <1>1, <1>5
  <2> QED
      BY <2>1, <2>2, <2>3 DEF WantedOK
<1>9. PanicOK'
    BY <1>1, <1>5, CallbackFrame DEF CallbackCapture, Inv, PanicOK
<1> QED
    BY <1>6, <1>7, <1>8, <1>9 DEF Inv

\* The voice taken held no wanted key, so the new key is the only change.
LEMMA StartInv == ASSUME Inv, NEW v \in Voices, CallbackStart(v) PROVE Inv'
<1>1. PICK k \in added :
         /\ voices' = [voices EXCEPT ![v] = [key |-> k, stage |-> "attack", level |-> 0]]
         /\ added' = added \ {k}
    BY DEF CallbackStart
<1>2. /\ pc = "start" /\ added \subseteq wanted /\ k \notin Held
      /\ k \in Keys /\ voices \in [Voices -> Voice]
    BY DEF CallbackStart, Inv, TypeOK, WantedOK
<1>3. [key |-> k, stage |-> "attack", level |-> 0] \in Voice
    BY <1>2, LevelAssumption DEF Voice, Stages
<1>4. /\ voices' \in [Voices -> Voice]
      /\ voices'[v].key = k /\ voices'[v].stage = "attack"
      /\ \A w \in Voices \ {v} : voices'[w] = voices[w]
    BY <1>1, <1>2, <1>3
<1>5. Active' = Active \cup {v}
    BY <1>4 DEF Active
<1>6. Held' \subseteq Held \cup {k}
  <2>1. \A w \in Active' : w = v \/ (w \in Active /\ w \in Voices \ {v})
      BY <1>5 DEF Active
  <2>2. \A w \in Active' : voices'[w].key \in Held \cup {k}
      BY <1>4, <2>1 DEF Held
  <2> QED
      BY <2>2 DEF Held
<1>7. older' \subseteq Voices \X Voices
  <2>1. older \subseteq Voices \X Voices
      BY DEF Inv, TypeOK
  <2>2. {<<w, v>> : w \in Voices \ {v}} \subseteq Voices \X Voices
      OBVIOUS
  <2> QED
      BY <2>1, <2>2 DEF CallbackStart
<1>8. TypeOK'
    BY <1>1, <1>2, <1>4, <1>7, CallbackFrame DEF CallbackStart, Inv, TypeOK
<1>9. VoicesOK'
  <2>1. \A w \in Active \ {v} : w \in Voices /\ voices[w].key # k
      BY <1>2 DEF Active, Held
  <2>2. \A w \in Active' : w = v \/ w \in Active \ {v}
      BY <1>5
  <2> QED
      BY <1>2, <1>4, <1>5, <2>1, <2>2 DEF Inv, VoicesOK, OneVoicePerKey
<1>10. WantedOK'
    BY <1>1, <1>2, <1>6, CallbackFrame DEF CallbackStart, Inv, WantedOK
<1>11. PanicOK'
    BY <1>2, <1>6, CallbackFrame DEF CallbackStart, Inv, PanicOK
<1> QED
    BY <1>8, <1>9, <1>10, <1>11 DEF Inv

\* Rendering keeps a voice's key until it ends.
LEMMA RenderedFacts ==
    ASSUME NEW voice \in Voice
    PROVE  /\ Rendered(voice) \in Voice
           /\ Rendered(voice).stage # "inactive" =>
                 voice.stage # "inactive" /\ Rendered(voice).key = voice.key
<1> DEFINE up == voice.level + AttackStep
           down == voice.level - ReleaseStep
<1>1. /\ Top \in Nat /\ AttackStep \in Nat /\ ReleaseStep \in Nat
      /\ voice.level \in 0..Top /\ voice.stage \in Stages
    BY LevelAssumption DEF Voice
<1>2. Inactive \in Voice /\ Inactive.stage = "inactive"
    BY <1>1 DEF Inactive, Voice, Stages
<1>3. CASE voice.stage = "attack" /\ up >= Top
  <2> DEFINE risen == [voice EXCEPT !.level = Top]
  <2>1. Rendered(voice) = [risen EXCEPT !.stage = "sustain"]
      BY <1>3 DEF Rendered
  <2>2. risen \in Voice /\ risen.key = voice.key
      BY <1>1 DEF Voice
  <2> QED
      BY <1>3, <2>1, <2>2 DEF Voice, Stages
<1>4. CASE voice.stage = "attack" /\ ~(up >= Top)
  <2>1. Rendered(voice) = [voice EXCEPT !.level = up] /\ up \in 0..Top
      BY <1>1, <1>4 DEF Rendered
  <2> QED
      BY <1>1, <1>4, <2>1 DEF Voice, Stages
<1>5. CASE voice.stage = "release" /\ down <= 0
    BY <1>2, <1>5 DEF Rendered
<1>6. CASE voice.stage = "release" /\ ~(down <= 0)
    BY <1>1, <1>6 DEF Rendered, Voice, Stages
<1>7. CASE voice.stage \notin {"attack", "release"}
    BY <1>7 DEF Rendered
<1> QED
    BY <1>3, <1>4, <1>5, <1>6, <1>7

LEMMA RenderInv == ASSUME Inv, CallbackRender PROVE Inv'
<1>1. voices \in [Voices -> Voice]
    BY DEF Inv, TypeOK
<1>2. \A v \in Voices : voices'[v] = Rendered(voices[v])
    BY DEF CallbackRender
<1>3. voices' \in [Voices -> Voice]
    BY <1>1, RenderedFacts DEF CallbackRender
<1>4. \A v \in Active' : v \in Active /\ voices'[v].key = voices[v].key
    BY <1>1, <1>2, RenderedFacts DEF Active
<1>5. Held' \subseteq Held
    BY <1>4 DEF Held
<1>6. TypeOK'
    BY <1>3, CallbackFrame DEF CallbackRender, Inv, TypeOK
<1>7. VoicesOK'
    BY <1>4 DEF Inv, VoicesOK, OneVoicePerKey
<1>8. WantedOK' /\ PanicOK'
    BY <1>5, CallbackFrame DEF CallbackRender, Inv, WantedOK, PanicOK
<1> QED
    BY <1>6, <1>7, <1>8 DEF Inv

-----------------------------------------------------------------------------

LEMMA NextInv == Inv /\ [Next]_vars => Inv'
<1> SUFFICES ASSUME Inv, [Next]_vars PROVE Inv'
    OBVIOUS
<1>1. CASE Callback
    BY <1>1, BeginInv, PanicInv, CaptureInv, StartInv, RenderInv DEF Callback
<1>2. CASE Caller
  <2>1. UNCHANGED <<voices, older, seen, pc, wanted, added>>
      BY <1>2 DEF Caller
  <2>2. watermark \in Stamps /\ closed \in BOOLEAN
      BY DEF Inv, TypeOK, StateOK
  <2>3. CASE \E notes \in Notes, stamp \in Stamps : Update(notes, stamp)
      BY <2>1, <2>3, UpdateInv
  <2>4. CASE \E stamp \in Stamps : Panic(stamp)
      BY <2>1, <2>2, <2>4, SilenceInv DEF Panic, RecordPanic
  <2>5. CASE Close
      BY <2>1, <2>2, <2>5, SilenceInv DEF Close
  <2> QED
      BY <1>2, <2>3, <2>4, <2>5 DEF Caller
<1>3. CASE UNCHANGED vars
  <2>1. StateOK' /\ Active' = Active /\ Held' = Held
      BY <1>3 DEF vars, state, Inv, TypeOK, StateOK, Active, Held
  <2> QED
      BY <1>3, <2>1
      DEF vars, state, Inv, TypeOK, VoicesOK, OneVoicePerKey, WantedOK, PanicOK
<1> QED
    BY <1>1, <1>2, <1>3 DEF Next

LEMMA InvHolds == Spec => []Inv
BY InitInv, NextInv, PTL DEF Spec

\* The pigeonhole argument behind _select_voice: were every voice busy with a
\* wanted key, the note to start would be one key too many.
LEMMA InvVoiceAvailable == Inv => VoiceAvailable
<1> SUFFICES ASSUME Inv, pc = "start", added # {}, Active = Voices, Replaceable = {}
             PROVE  FALSE
    BY DEF VoiceAvailable
<1>1. PICK k \in added : TRUE
    OBVIOUS
<1> DEFINE rest == wanted \ {k}
           keyOf == [v \in Voices |-> voices[v].key]
<1>2. k \in wanted /\ k \notin Held /\ wanted \subseteq Keys /\ Cardinality(wanted) <= MaxVoices
    BY DEF Inv, WantedOK, TypeOK
<1>3. \A v \in Voices : voices[v].key \in rest
    BY <1>2 DEF Replaceable, Held
<1>4. \A v, w \in Voices : keyOf[v] = keyOf[w] => v = w
    BY DEF Inv, VoicesOK, OneVoicePerKey
<1>5. keyOf \in Injection(Voices, rest)
    BY <1>3, <1>4 DEF Injection, IsInjective
<1>6. IsFiniteSet(wanted)
    BY <1>2, SynthAssumption, FS_Subset
<1>7. /\ IsFiniteSet(rest) /\ Cardinality(rest) = Cardinality(wanted) - 1
      /\ Cardinality(wanted) \in Nat
    BY <1>2, <1>6, FS_RemoveElement, FS_CardinalityType
<1>8. Cardinality(Voices) <= Cardinality(rest)
    BY <1>5, <1>7, FS_Injection
<1>9. Cardinality(Voices) = MaxVoices
  <2>1. MaxVoices \in Int /\ ~(1 > MaxVoices) /\ MaxVoices - 1 + 1 = MaxVoices
      BY SynthAssumption
  <2>2. Cardinality(1..MaxVoices) = IF 1 > MaxVoices THEN 0 ELSE MaxVoices - 1 + 1
      BY <2>1, FS_Interval
  <2> QED
      BY <2>1, <2>2 DEF Voices
<1> QED
    BY <1>2, <1>7, <1>8, <1>9, VoicesNotEmpty

\* DebugSynth keeps the types of its snapshot and voices.
THEOREM TypeCorrect == Spec => []TypeOK
<1>1. Inv => TypeOK
    BY DEF Inv
<1> QED
    BY <1>1, InvHolds, PTL

\* However notes are capped, released, taken back and stolen, _select_voice
\* finds a voice and never raises.
THEOREM AVoiceIsFound == Spec => []VoiceAvailable
BY InvVoiceAvailable, InvHolds, PTL

\* _reconcile never gives a key a second voice.
THEOREM VoicesAreDistinct == Spec => []OneVoicePerKey
<1>1. Inv => OneVoicePerKey
    BY DEF Inv, VoicesOK
<1> QED
    BY <1>1, InvHolds, PTL

\* After a panic the callback sounds only what was asked for after it.
THEOREM PanicSilences == Spec => []SilencedByPanic
<1>1. Inv => SilencedByPanic
    BY DEF Inv, PanicOK, SilencedByPanic
<1> QED
    BY <1>1, InvHolds, PTL
=============================================================================
