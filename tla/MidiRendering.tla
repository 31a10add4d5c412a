---------------------------- MODULE MidiRendering ----------------------------
(***************************************************************************)
(* The states that an export observes of one MIDI output, tick by tick of   *)
(* two videos that play on clocks of their own, and the file that is made   *)
(* of them: what a sequencer plays from it.                                 *)
(***************************************************************************)
EXTENDS StandardMidiFile

CONSTANTS Gaps,        \* between two frames of a video, in parts of a microsecond
          Chords,      \* sets of keys a tick may ask for
          Tails,       \* from the last tick to the end of the region
          MaxTicks     \* bound on ticks

VARIABLES entries,     \* [time, notes] of each tick, in the order of the ticks
          clock,       \* the time of the last frame of each video
          regionEnd    \* where the longest region of a video ends

vars == <<entries, clock, regionEnd>>

Unstarted == -1
Running == -1

Latest == Max({0} \cup {e.time : e \in Range(entries)})

Init == entries = <<>> /\ clock = <<Unstarted, Unstarted>> /\ regionEnd = Running

\* The observer of the transient engine: a tick of either video brings the state
\* of the output, whose time is that of its frame.  The first may be at 0; the
\* videos do not wait for each other.
Observe(v, gap, notes) ==
  LET time == IF clock[v] = Unstarted THEN gap ELSE clock[v] + gap
  IN /\ Len(entries) < MaxTicks /\ regionEnd = Running
     /\ clock[v] # Unstarted => gap > 0
     /\ clock' = [clock EXCEPT ![v] = time]
     /\ entries' = Append(entries, [time |-> time, notes |-> notes])
     /\ UNCHANGED regionEnd

\* The regions end, perhaps before the last sample.
End(tail) ==
  /\ entries # <<>> /\ regionEnd = Running
  /\ regionEnd' = Latest + tail
  /\ UNCHANGED <<entries, clock>>

\* The videos have no order: the first tick is of the first.
Next == \/ \E v \in {1, 2}, gap \in Gaps \cup {0}, notes \in Chords :
             (entries = <<>> => v = 1) /\ Observe(v, gap, notes)
        \/ \E tail \in Tails : End(tail)

Spec == Init /\ [][Next]_vars

-----------------------------------------------------------------------------
(* Properties.                                                              *)

Decoded(groups) == FoldLeft(LAMBDA value, g : value * 128 + g, 0, groups)

\* What the videos asked for last at a time, the later tick of two that are at once;
\* at the end of the video nothing sounds.
Asked(time, duration) ==
  LET until == {i \in DOMAIN entries : entries[i].time <= time}
      last == CHOOSE i \in until : \A j \in until :
                entries[j].time < entries[i].time \/ (entries[j].time = entries[i].time /\ j <= i)
  IN IF time = duration \/ until = {} THEN {} ELSE entries[last].notes

\* The keys that are struck and are to be silent again at one and the same time.
StruckInVain(events, time, duration) ==
  {k \in UNION Chords : /\ Event(time, "on", k) \in Range(events)
                        /\ Event(time, "off", k) \in Range(events)
                        /\ k \notin Asked(time, duration)}

\* midi/smf.py: "make the tick grid span exactly that interval".  Every interval
\* lasts, as a sequencer plays the file, the whole number of microseconds next to
\* it, or nothing when that is too short for a tempo; so a note is late or early
\* by half a microsecond for every event before it and by what was left out, and
\* the file ends with the video.  After the events of a time sounds what was asked
\* for last, but for a key that two ticks struck and silenced at once: its "off"
\* is sorted before its "on", and it may sound until it is stopped the next time,
\* or for ever.  A delta time of the file is read as it was written.  The case
\* that a tempo does not fit its three octets is excepted.
IntervalsAreExact ==
  regionEnd # Running =>
    LET duration == ExportDuration(entries, regionEnd)
        events == DiffToEvents(entries, duration)
        ordered == Ordered(events)
        messages == Encode(events, duration)
        played == PlayedAt(messages)
        notes == SelectSeq([i \in DOMAIN messages |-> [message |-> messages[i], at |-> played[i]]],
                           LAMBDA m : m.message.kind # "tempo")
        time(i) == IF i = 0 THEN 0 ELSE IF i > Len(ordered) THEN duration ELSE ordered[i].time
        span(i) == notes[i].at - (IF i = 1 THEN 0 ELSE notes[i - 1].at)
        closes(i) == i = Len(ordered) \/ ordered[i + 1].time > time(i)
        struck(i) == UNION {StruckInVain(events, ordered[j].time, duration) : j \in 1 .. i}
    IN Encodable(messages) =>
         /\ Len(notes) = Len(ordered) + 1
         /\ \A i \in DOMAIN notes :
              LET gap == time(i) - time(i - 1)
                  error == Scale * span(i) - gap
              IN IF 2 * gap < Scale * (2 * MinTempo - 1) THEN span(i) = 0
                 ELSE 2 * error <= Scale /\ -2 * error <= Scale
         /\ \A i \in DOMAIN ordered :
              closes(i) =>
                LET sounding == SoundingAfter([j \in 1 .. i |-> notes[j].message])
                    asked == Asked(time(i), duration)
                IN asked \subseteq sounding /\ sounding \ asked \subseteq struck(i)
         /\ \A i \in DOMAIN messages :
              LET groups == VariableLength(messages[i].delta)
              IN Decoded(groups) = messages[i].delta /\ (Len(groups) > 1 => Head(groups) # 0)

=============================================================================
