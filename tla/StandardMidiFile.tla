-------------------------- MODULE StandardMidiFile --------------------------
(***************************************************************************)
(* What an offline export writes: the note events of the states that were  *)
(* observed (_diff_to_events in runtime/midi_export.py, midi/state_diff.py) *)
(* and their encoding (midi/smf.py), which has no tempo grid and spans     *)
(* every interval with tempo changes of its own.                           *)
(*                                                                         *)
(* A time and an interval of the video count a part of a microsecond, of   *)
(* which there are Scale; with an odd Scale nothing is halfway between two *)
(* microseconds.  What the file holds is whole microseconds.  A message is *)
(* [delta, kind, tempo, key]; an octet is left out where only its value    *)
(* matters.                                                                *)
(***************************************************************************)
EXTENDS Integers, Sequences, SequencesExt, FiniteSets, FiniteSetsExt, Functions

Scale == 3

TicksPerQuarter == 960
MinTempo == 31
MaxTempo == 1677215
TempoLimit == 16777216      \* a tempo has three octets

-----------------------------------------------------------------------------
(* From states to events.                                                   *)

Event(time, kind, key) == [time |-> time, kind |-> kind, key |-> key]

\* Python's sorted, which keeps what is equal in its order.
Sorted(s, Less(_, _)) ==
  LET place(i) == Cardinality({j \in DOMAIN s : Less(s[j], s[i]) \/ (j <= i /\ ~Less(s[i], s[j]))})
  IN [p \in DOMAIN s |-> s[CHOOSE i \in DOMAIN s : place(i) = p]]

Earlier(a, b) == a.time < b.time

\* sorted by time, channel, note and kind: at one time and for one key "note_off"
\* comes before "note_on".
Rank(event) == event.key * 2 + (IF event.kind = "off" THEN 0 ELSE 1)
Before(a, b) == Earlier(a, b) \/ (a.time = b.time /\ Rank(a) < Rank(b))
Ordered(events) == Sorted(events, Before)

\* diff_midi_states: the keys that leave and the keys that enter.
ChangedNotes(previous, current) == [removed |-> previous \ current, added |-> current \ previous]

\* One output: its states, as they were observed, in order of time, and what still
\* sounds stopped at the end.  Changes of velocity are not projected.
DiffToEvents(entries, duration) ==
  LET states == Sorted(entries, Earlier)
      before(i) == IF i = 1 THEN {} ELSE states[i - 1].notes
      diff(i) == ChangedNotes(before(i), states[i].notes)
      at(i) == {Event(states[i].time, "on", k) : k \in diff(i).added}
                 \cup {Event(states[i].time, "off", k) : k \in diff(i).removed}
      rest == {Event(duration, "off", k) : k \in before(Len(states) + 1)}
  IN FlattenSeq([i \in DOMAIN states |-> SetToSeq(at(i))]) \o SetToSeq(rest)

\* _export_duration
ExportDuration(entries, regionEnd) ==
  Max({0, regionEnd} \cup {e.time : e \in Range(entries)})

-----------------------------------------------------------------------------
(* Encoding.                                                                *)

\* Groups of seven bits, the highest first.
VariableLength(value) ==
  LET count == CHOOSE n \in 1 .. 5 : /\ n = 1 \/ value >= 128 ^ (n - 1)
                                     /\ n = 5 \/ value < 128 ^ n
  IN [i \in 1 .. count |-> (value \div 128 ^ (count - i)) % 128]

\* max(1, ceil(us * 960 / MaxTempo)), in steps that stay within 32 bits.
TicksOf(us) ==
  LET whole == us \div MaxTempo
      part == ((us % MaxTempo) * TicksPerQuarter + MaxTempo - 1) \div MaxTempo
      ticks == whole * TicksPerQuarter + part
  IN IF ticks < 1 THEN 1 ELSE ticks

Tempo(delta, tempo) == [delta |-> delta, kind |-> "tempo", tempo |-> tempo, key |-> 0]

\* Mutant of Microseconds: int() in the place of round().
MicrosecondsCut(interval) == interval \div Scale

\* round(interval_s * 1_000_000)
Microseconds(interval) == interval \div Scale + (IF 2 * (interval % Scale) > Scale THEN 1 ELSE 0)

Negligible(interval) == interval <= 0 \/ Microseconds(interval) < MinTempo

\* A first tempo for the whole part of the interval, and if something remains
\* a second one for a single tick.
WriteInterval(interval) ==
  LET us == Microseconds(interval)
      ticks == TicksOf(us)
  IN IF Negligible(interval) THEN <<>>
     ELSE <<Tempo(0, (us \div ticks) * TicksPerQuarter)>>
            \o (IF us % ticks = 0 THEN <<>> ELSE <<Tempo(ticks, (us % ticks) * TicksPerQuarter)>>)

ClosingDelta(interval) ==
  LET us == Microseconds(interval)
  IN IF Negligible(interval) THEN 0 ELSE IF us % TicksOf(us) # 0 THEN 1 ELSE TicksOf(us)

Encode(events, duration) ==
  LET ordered == Ordered(events)
      time(i) == IF i = 0 THEN 0 ELSE ordered[i].time
      gap(i) == IF i = Len(ordered) + 1 THEN (IF duration > time(i - 1) THEN duration - time(i - 1) ELSE 0)
                ELSE time(i) - time(i - 1)
      closing(i) == IF i = Len(ordered) + 1
                    THEN [delta |-> ClosingDelta(gap(i)), kind |-> "end", tempo |-> 0, key |-> 0]
                    ELSE [delta |-> ClosingDelta(gap(i)), kind |-> ordered[i].kind, tempo |-> 0,
                          key |-> ordered[i].key]
  IN FlattenSeq([i \in 1 .. Len(ordered) + 1 |-> Append(WriteInterval(gap(i)), closing(i))])

\* to_bytes(3) raises when a tempo does not fit.
Encodable(messages) == \A i \in DOMAIN messages : messages[i].tempo < TempoLimit

-----------------------------------------------------------------------------
(* What a sequencer makes of a file: the reference for the encoding.        *)

\* The time of each message, from the ticks at the tempo in force before it.
PlayedAt(messages) ==
  LET state[i \in 0 .. Len(messages)] ==
        IF i = 0 THEN [at |-> 0, tempo |-> 500000]
        ELSE CHOOSE r \in {[at |-> b.at + messages[i].delta * (b.tempo \div TicksPerQuarter),
                            tempo |-> IF messages[i].kind = "tempo" THEN messages[i].tempo
                                      ELSE b.tempo] : b \in {state[i - 1]}} : TRUE
  IN [i \in DOMAIN messages |-> state[i].at]

\* The keys that sound when a sequencer has taken these messages: those whose last
\* message starts them.
SoundingAfter(messages) ==
  FoldLeft(LAMBDA keys, m : IF m.kind = "on" THEN keys \cup {m.key}
                            ELSE IF m.kind = "off" THEN keys \ {m.key} ELSE keys, {}, messages)

=============================================================================
