----------------------------- MODULE SynthState -----------------------------
(***************************************************************************)
(* The side of the debug synthesizer its callers see (midi/debug_synth.py):*)
(* update, panic and close replace one immutable snapshot of the notes     *)
(* wanted, under _publisher_lock, and the audio callback reads it without  *)
(* the lock. DebugSynth adds the callback, AudioOutput the service that    *)
(* opens and replaces the synthesizer.                                     *)
(***************************************************************************)
EXTENDS Integers, FiniteSets

CONSTANTS
    Keys,        \* channel * 128 + note
    Velocities,
    MaxVoices,   \* SynthConfiguration.max_voices
    MaxPanics,   \* bound: panics of one synthesizer
    MaxStamp     \* bound: publish generations

ASSUME SynthAssumption ==
    /\ Keys \subseteq Nat /\ IsFiniteSet(Keys)
    /\ Velocities \subseteq 1..127
    /\ MaxVoices \in 1..128
    /\ MaxPanics \in Nat /\ MaxStamp \in Nat

\* The notes of a MidiStateFrame: a velocity for each key that sounds.
Notes == UNION {[ks -> Velocities] : ks \in SUBSET Keys}
NoNotes == [k \in {} |-> 0]
Stamps == 0..MaxStamp
Snapshot == [notes : Notes, panics : 0..MaxPanics]

VARIABLES
    desired,    \* _desired
    watermark,  \* _ordering._stale_upto_generation
    closed,     \* _closed
    armed       \* history: keys asked for since the last panic

state == <<desired, watermark, closed, armed>>

StateOK ==
    /\ desired \in Snapshot
    /\ watermark \in Stamps
    /\ closed \in BOOLEAN
    /\ armed \subseteq Keys

StateInit ==
    /\ desired = [notes |-> NoNotes, panics |-> 0]
    /\ watermark = 0
    /\ closed = FALSE
    /\ armed = {}

\* Frames no engine ordered carry generation 0 and are never stale.
IsStale(stamp) == 0 < stamp /\ stamp <= watermark

RecordPanic(stamp) == watermark' = IF stamp > watermark THEN stamp ELSE watermark

\* Louder keys, and lower ones of the same velocity, come first.
Before(notes, k) ==
    {j \in DOMAIN notes : notes[j] > notes[k] \/ (notes[j] = notes[k] /\ j < k)}

\* Mutant: the rank is compared with one voice too many.
LoudestPlusOne(notes) == {k \in DOMAIN notes : Cardinality(Before(notes, k)) <= MaxVoices}

Loudest(notes) == {k \in DOMAIN notes : Cardinality(Before(notes, k)) < MaxVoices}

\* update: a closed synthesizer and a stale frame change nothing.
Update(notes, stamp) ==
    /\ ~closed /\ ~IsStale(stamp)
    /\ desired' = [desired EXCEPT !.notes = [k \in Loudest(notes) |-> notes[k]]]
    /\ armed' = armed \cup DOMAIN notes
    /\ UNCHANGED <<watermark, closed>>

\* The empty snapshot both panic and close publish.
Silence ==
    /\ desired.panics < MaxPanics
    /\ desired' = [notes |-> NoNotes, panics |-> desired.panics + 1]
    /\ armed' = {}

Panic(stamp) == Silence /\ RecordPanic(stamp) /\ UNCHANGED closed

\* close, up to the stream: the callback is aborted afterwards.
Close == ~closed /\ Silence /\ closed' = TRUE /\ UNCHANGED watermark
=============================================================================
