----------------------------- MODULE DebugSynth -----------------------------
(***************************************************************************)
(* The audio callback of midi/debug_synth.py and its voices. The callback  *)
(* reads _closed, then _desired, and from then on touches only its own     *)
(* voices while the graph thread and a panic go on. Envelopes are counted  *)
(* in steps of which a block covers AttackStep or ReleaseStep; ages are    *)
(* kept as the order they are compared for. Waveforms, phases and the mix  *)
(* are left out.                                                           *)
(***************************************************************************)
EXTENDS SynthState

CONSTANTS
    AttackStep,   \* the part of the attack one block covers
    ReleaseStep,  \* the part of the release one block covers
    Top,          \* the level of a sustained voice
    None          \* key of an inactive voice (-1)

ASSUME LevelAssumption ==
    /\ Top \in Nat \ {0} /\ AttackStep \in 1..Top /\ ReleaseStep \in 1..Top
    /\ None \notin Keys

Voices == 1..MaxVoices
Stages == {"inactive", "attack", "sustain", "release"}
Voice == [key : Keys \cup {None}, stage : Stages, level : 0..Top]
Inactive == [key |-> None, stage |-> "inactive", level |-> 0]

VARIABLES
    voices,   \* _keys, _stages and _envelopes
    older,    \* pairs of voices, the first started before the second (_ages)
    seen,     \* _seen_panic_generation
    pc,       \* the callback: idle, capture or start
    wanted,   \* the keys of the snapshot it captured
    added     \* keys it still has to start

vars == <<state, voices, older, seen, pc, wanted, added>>

\* Every variable has its type.
TypeOK ==
    /\ StateOK
    /\ voices \in [Voices -> Voice]
    /\ older \subseteq Voices \X Voices
    /\ seen \in 0..MaxPanics
    /\ pc \in {"idle", "capture", "start"}
    /\ wanted \subseteq Keys
    /\ added \subseteq Keys

Init ==
    /\ StateInit
    /\ voices = [v \in Voices |-> Inactive]
    /\ older = {}
    /\ seen = 0 /\ pc = "idle" /\ wanted = {} /\ added = {}

Active == {v \in Voices : voices[v].stage # "inactive"}
Held == {voices[v].key : v \in Active}

-----------------------------------------------------------------------------

\* A closed synthesizer renders silence and keeps its voices.
CallbackBegin ==
    /\ pc = "idle" /\ ~closed
    /\ pc' = "capture"
    /\ UNCHANGED <<state, voices, older, seen, wanted, added>>

\* Mutant: a panic is noticed and the voices are kept.
CallbackPanicKeepsVoices ==
    /\ pc = "capture" /\ seen # desired.panics
    /\ seen' = desired.panics
    /\ pc' = "idle"
    /\ UNCHANGED <<state, voices, older, wanted, added>>

\* _clear_voices on the first block after a panic: a silent one.
CallbackPanic ==
    /\ pc = "capture" /\ seen # desired.panics
    /\ voices' = [v \in Voices |-> Inactive]
    /\ seen' = desired.panics
    /\ pc' = "idle"
    /\ UNCHANGED <<state, older, wanted, added>>

\* The first half of _reconcile: voices leave, or are taken back from release.
Reconciled(voice, keys) ==
    IF voice.key \notin keys THEN [voice EXCEPT !.stage = "release"]
    ELSE IF voice.stage = "release" THEN [voice EXCEPT !.stage = "attack"]
    ELSE voice

Added(keys) == keys \ Held

CallbackCapture ==
    /\ pc = "capture" /\ seen = desired.panics
    /\ wanted' = DOMAIN desired.notes
    /\ voices' = [v \in Voices |->
          IF v \in Active THEN Reconciled(voices[v], wanted') ELSE voices[v]]
    /\ added' = Added(wanted')
    /\ pc' = "start"
    /\ UNCHANGED <<state, older, seen>>

\* _select_voice: the voices it may take, and which of two it prefers.
Replaceable == {v \in Active : voices[v].key \notin wanted}
Prefers(v, w) ==
    \/ voices[v].level < voices[w].level
    \/ voices[v].level = voices[w].level /\ <<v, w>> \in older

\* The first inactive voice, otherwise the quietest and then oldest of those
\* that are not wanted any more.
SelectVoice(v) ==
    \/ v \in Voices \ Active /\ \A w \in Voices \ Active : v <= w
    \/ /\ Active = Voices
       /\ v \in Replaceable /\ \A w \in Replaceable \ {v} : ~Prefers(w, v)

\* The second half of _reconcile, one note at a time in the order of the keys.
CallbackStart(v) ==
    /\ pc = "start" /\ added # {} /\ SelectVoice(v)
    /\ \E k \in added :
          /\ \A j \in added : k <= j
          /\ voices' = [voices EXCEPT ![v] = [key |-> k, stage |-> "attack", level |-> 0]]
          /\ added' = added \ {k}
    /\ older' = (older \ {p \in older : v \in {p[1], p[2]}})
                    \cup {<<w, v>> : w \in Voices \ {v}}
    /\ UNCHANGED <<state, seen, pc, wanted>>

\* Mutant: a release that ends exactly at zero does not end.
RenderedBeyondZero(voice) ==
    LET up == voice.level + AttackStep
        down == voice.level - ReleaseStep
    IN  CASE voice.stage = "attack" ->
               IF up >= Top THEN [voice EXCEPT !.level = Top, !.stage = "sustain"]
                            ELSE [voice EXCEPT !.level = up]
          [] voice.stage = "release" ->
               IF down < 0 THEN IF voice.level = 0 THEN voice ELSE Inactive
                           ELSE [voice EXCEPT !.level = down]
          [] OTHER -> voice

\* _render_voice: the envelope moves by one block, within 0 and Top.
Rendered(voice) ==
    LET up == voice.level + AttackStep
        down == voice.level - ReleaseStep
    IN  CASE voice.stage = "attack" ->
               IF up >= Top THEN [voice EXCEPT !.level = Top, !.stage = "sustain"]
                            ELSE [voice EXCEPT !.level = up]
          [] voice.stage = "release" ->
               IF down <= 0 THEN Inactive ELSE [voice EXCEPT !.level = down]
          [] OTHER -> voice

CallbackRender ==
    /\ pc = "start" /\ added = {}
    /\ voices' = [v \in Voices |-> Rendered(voices[v])]
    /\ pc' = "idle" /\ wanted' = {}
    /\ UNCHANGED <<state, older, seen, added>>

Callback ==
    \/ CallbackBegin \/ CallbackPanic \/ CallbackCapture
    \/ \E v \in Voices : CallbackStart(v)
    \/ CallbackRender

\* The graph thread, the panic of another thread and close.
Caller ==
    /\ \/ \E notes \in Notes, stamp \in Stamps : Update(notes, stamp)
       \/ \E stamp \in Stamps : Panic(stamp)
       \/ Close
    /\ UNCHANGED <<voices, older, seen, pc, wanted, added>>

Next == Callback \/ Caller

Spec == Init /\ [][Next]_vars

\* PortAudio keeps calling the callback.
FairSpec == Spec /\ WF_vars(Callback)

-----------------------------------------------------------------------------
(* Properties *)

\* Once the callback has noticed the last panic, only notes asked for after it
\* sound: neither held notes nor tails in release outlive a panic.
SilencedByPanic == seen = desired.panics => Held \subseteq armed

\* No note sounds twice, however it was released and taken back.
OneVoicePerKey ==
    \A v, w \in Active : voices[v].key = voices[w].key => v = w

\* _select_voice never raises "No replaceable synth voice is available".
VoiceAvailable ==
    pc = "start" /\ added # {} => Active # Voices \/ Replaceable # {}

\* A note that stays wanted ends up sounding and keeps sounding, one that stays
\* unwanted ends up silent, whichever voices were stolen on the way.
SoundsAsDesired ==
    \A k \in Keys :
        /\ <>[](k \in DOMAIN desired.notes) => <>[](k \in Held)
        /\ <>[](k \notin DOMAIN desired.notes /\ ~closed) => <>[](k \notin Held)
=============================================================================
