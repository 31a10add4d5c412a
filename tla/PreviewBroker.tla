--------------------------- MODULE PreviewBroker ---------------------------
(***************************************************************************)
(* PreviewBroker and its worker (runtime/previews.py), the body's cursors  *)
(* and swap (runtime/engine_body.py) and InMemoryPreviewTransport: the     *)
(* newest completed tick is converted off the broker's lock, while an      *)
(* activation drains the workers, commits another plan and replaces the    *)
(* targets, and a consumer polls.                                          *)
(*                                                                         *)
(* A target is <<"image" | "note" | "value", node, port>>.  An image is    *)
(* published whenever it is due, a note or value only when it has changed. *)
(* That a target may have no value in a tick is left out.                  *)
(*                                                                         *)
(* What a tick carries besides its content, madeBy and straggler, and with *)
(* it every job and preview, is no data of the code: it says which plan    *)
(* the tick ran under, and whether it ran although the sources were paused *)
(* and the workers found idle.                                             *)
(***************************************************************************)
EXTENDS Naturals, Sequences, FiniteSets, TLC

CONSTANTS Plans,      \* plans: node -> [type, demanded, inputs, outputs]
          MaxTick,    \* bound on ticks, MaxNow on the clock, MaxSwaps on swaps
          MaxNow, MaxSwaps

VARIABLES
  plan,       \* index of the committed plan, 0 when stopped
  generation, targets,            \* _generation, _*_targets: target -> interval
  sequence, last, content,        \* per target: _*_sequences, _*_last_published,
                                  \* and what _note_last_notes, _value_last_text hold
  shown,      \* target -> the preview a poll finds
  swap,       \* the body's swap: "none", "drained", "broker", "transport" or "cursors"
  ticked,     \* the completed tick the graph worker is about to submit
  pending,    \* _LatestPreviewWorker._pending
  job,        \* what the worker publishes: the job and what of it is due
  cursor,     \* the body's cursors
  now, ticks, swaps

vars == <<plan, generation, targets, sequence, last, content, shown, swap, ticked,
          pending, job, cursor, now, ticks, swaps>>

Nothing == [op |-> "none"]
NoFun == <<>>
Get(f, x, default) == IF x \in DOMAIN f THEN f[x] ELSE default

-----------------------------------------------------------------------------
(* prepare: the targets of a plan.                                          *)

DockTypes == {"display_image_data", "channel_display"}

ConnectedSources(nodes) == UNION {nodes[n].inputs : n \in DOMAIN nodes}
DockSources(nodes) == UNION {nodes[n].inputs : n \in {m \in DOMAIN nodes : nodes[m].type \in DockTypes}}

Outputs(nodes, types) ==
  {<<n, p>> \in ConnectedSources(nodes) :
     nodes[n].demanded /\ p \in DOMAIN nodes[n].outputs /\ nodes[n].outputs[p] \in types}

\* _connected_image_targets: a frame for a dock every 2 units, for a pill every 4.
ImageTargets(nodes) ==
  [t \in {<<"image", s[1], s[2]>> : s \in Outputs(nodes, {"IMAGE", "CHANNEL"})} |->
     IF <<t[2], t[3]>> \in DockSources(nodes) THEN 2 ELSE 4]

\* _connected_scalar_targets
ValueTargets(nodes) ==
  [t \in {<<"value", s[1], s[2]>> : s \in Outputs(nodes, {"INT", "FLOAT"})} |-> 1]

NoteTargets(nodes) ==
  [t \in {<<"note", n, "midi">> : n \in {m \in DOMAIN nodes :
            nodes[m].type = "note_visualizer" /\ nodes[m].demanded /\ nodes[m].inputs # {}}} |-> 1]

Prepare(nodes) == ImageTargets(nodes) @@ NoteTargets(nodes) @@ ValueTargets(nodes)

-----------------------------------------------------------------------------
(* The graph worker and the preview worker.                                 *)

\* A tick completes under the committed plan, the one after so many swaps; its
\* content stands for the notes or the text of every target.  pause does not wait
\* for the thread that presents a frame: one in hand comes after the drain.
GraphTick(c) ==
  /\ plan # 0 /\ ticked = Nothing /\ ticks < MaxTick
  /\ ticks' = ticks + 1
  /\ ticked' = [op |-> "ticked", content |-> c, madeBy |-> swaps,
                straggler |-> swap \in {"drained", "broker"}]
  /\ UNCHANGED <<plan, generation, targets, sequence, last, content, shown, swap, pending,
                 job, cursor, now, swaps>>

\* submit: stamped with the generation it finds, and the newest wins.
Submit ==
  /\ ticked # Nothing
  /\ pending' = [ticked EXCEPT !.op = "job"] @@ [generation |-> generation]
  /\ ticked' = Nothing
  /\ UNCHANGED <<plan, generation, targets, sequence, last, content, shown, swap, job,
                 cursor, now, ticks, swaps>>

IsDue(t, at) == t \notin DOMAIN last \/ at - last[t] >= targets[t]

\* publish up to the unlock: a job of another generation is dropped, else the
\* targets that are due are converted.
TakeJob ==
  /\ pending # Nothing /\ job = Nothing
  /\ pending' = Nothing
  /\ job' = IF pending.generation # generation THEN Nothing
            ELSE [pending EXCEPT !.op = "publish"]
                 @@ [at |-> now, due |-> {t \in DOMAIN targets : IsDue(t, now)}]
  /\ UNCHANGED <<plan, generation, targets, sequence, last, content, shown, swap, ticked,
                 cursor, now, ticks, swaps>>

\* What is published: due, and for notes and values changed.
Advanced ==
  {t \in job.due \cap DOMAIN targets :
     IsDue(t, job.at) /\ (t[1] = "image" \/ Get(content, t, 0) # job.content)}

Preview(number) ==
  [sequence |-> number, generation |-> job.generation, madeBy |-> job.madeBy,
   straggler |-> job.straggler]

\* Mutant of Publish: the generation is not looked at a second time.
PublishUnchecked ==
  /\ job # Nothing
  /\ sequence' = [t \in Advanced |-> Get(sequence, t, 0) + 1] @@ sequence
  /\ last' = [t \in Advanced |-> job.at] @@ last
  /\ content' = [t \in Advanced |-> job.content] @@ content
  /\ shown' = [t \in Advanced |-> Preview(sequence'[t])] @@ shown
  /\ job' = Nothing
  /\ UNCHANGED <<plan, generation, targets, swap, ticked, pending, cursor, now, ticks, swaps>>

\* publish after the conversion: under the lock again, if the generation is
\* still the same.
Publish ==
  /\ job # Nothing
  /\ IF job.generation # generation
       THEN UNCHANGED <<sequence, last, content, shown>>
       ELSE /\ sequence' = [t \in Advanced |-> Get(sequence, t, 0) + 1] @@ sequence
            /\ last' = [t \in Advanced |-> job.at] @@ last
            /\ content' = [t \in Advanced |-> job.content] @@ content
            /\ shown' = [t \in Advanced |-> Preview(sequence'[t])] @@ shown
  /\ job' = Nothing
  /\ UNCHANGED <<plan, generation, targets, swap, ticked, pending, cursor, now, ticks, swaps>>

\* next_image_previews, next_note_previews and next_value_previews.
Poll(kind) ==
  LET new == {t \in DOMAIN shown : t[1] = kind /\ shown[t].sequence > Get(cursor, t, 0)}
  IN /\ new # {}
     /\ cursor' = [t \in new |-> shown[t].sequence] @@ cursor
     /\ UNCHANGED <<plan, generation, targets, sequence, last, content, shown, swap, ticked,
                    pending, job, now, ticks, swaps>>

-----------------------------------------------------------------------------
(* The swap: the drain, facade.commit, PreviewBroker.apply or clear, the    *)
(* cursors.                                                                 *)

Idle == ticked = Nothing /\ pending = Nothing /\ job = Nothing

\* activate has paused the sources and wait_until_idle has found both workers
\* idle; there are none after a stop, when only a conversion may survive.
Drain ==
  /\ swap = "none" /\ swaps < MaxSwaps
  /\ plan # 0 => Idle
  /\ swap' = "drained"
  /\ UNCHANGED <<plan, ticked, pending, job, generation, targets, sequence, last, content,
                 shown, cursor, now, ticks, swaps>>

\* facade.commit puts the plan in force, or raises and the sources go on.
Commit(p) ==
  /\ swap = "drained"
  /\ \/ plan' = p /\ swaps' = swaps + 1 /\ swap' = "broker"
     \/ swap' = "none" /\ UNCHANGED <<plan, swaps>>
  /\ UNCHANGED <<ticked, pending, job, generation, targets, sequence, last, content, shown,
                 cursor, now, ticks>>

\* A stop does not drain: it closes the workers, which drops what they hold but
\* for a conversion that outlasts the time-out, and then facade.stop.
Stop ==
  /\ swap = "none" /\ swaps < MaxSwaps
  /\ swaps' = swaps + 1 /\ plan' = 0 /\ swap' = "broker"
  /\ ticked' = Nothing /\ pending' = Nothing
  /\ UNCHANGED <<job, generation, targets, sequence, last, content, shown, cursor, now, ticks>>

\* apply and clear up to the unlock.  Image previews are in the transport.
Apply ==
  /\ swap = "broker"
  /\ generation' = generation + 1
  /\ targets' = IF plan = 0 THEN NoFun ELSE Prepare(Plans[plan])
  /\ sequence' = NoFun /\ last' = NoFun /\ content' = NoFun
  /\ shown' = [t \in {u \in DOMAIN shown : u[1] = "image"} |-> shown[t]]
  /\ swap' = "transport"
  /\ UNCHANGED <<plan, ticked, pending, job, cursor, now, ticks, swaps>>

ClearTransport ==
  /\ swap = "transport"
  /\ shown' = [t \in {u \in DOMAIN shown : u[1] # "image"} |-> shown[t]]
  /\ swap' = "cursors"
  /\ UNCHANGED <<plan, generation, targets, sequence, last, content, ticked, pending, job,
                 cursor, now, ticks, swaps>>

ResetCursors ==
  /\ swap = "cursors"
  /\ cursor' = NoFun /\ swap' = "none"
  /\ UNCHANGED <<plan, generation, targets, sequence, last, content, shown, ticked, pending,
                 job, now, ticks, swaps>>

Clock ==
  /\ now < MaxNow /\ now' = now + 1
  /\ UNCHANGED <<plan, generation, targets, sequence, last, content, shown, swap, ticked,
                 pending, job, cursor, ticks, swaps>>

Init ==
  /\ plan = 0 /\ generation = 0 /\ targets = NoFun
  /\ sequence = NoFun /\ last = NoFun /\ content = NoFun /\ shown = NoFun
  /\ swap = "none" /\ ticked = Nothing /\ pending = Nothing /\ job = Nothing
  /\ cursor = NoFun /\ now = 0 /\ ticks = 0 /\ swaps = 0

Next ==
  \/ \E c \in {1, 2} : GraphTick(c)
  \/ Submit \/ TakeJob \/ Publish
  \/ \E kind \in {"image", "note", "value"} : Poll(kind)
  \/ Drain \/ Stop
  \/ \E p \in 1 .. Len(Plans) : Commit(p)
  \/ Apply \/ ClearTransport \/ ResetCursors \/ Clock

Spec == Init /\ [][Next]_vars

-----------------------------------------------------------------------------
(* Properties.                                                              *)

\* What a poll can find was made by a tick of the plan whose targets are in force,
\* and submitted and converted under them.  (generation counts the plans whose
\* targets came into force as swaps counts those committed.)  One tick is exempt:
\* the frame that came between the drain of this swap and its apply, in spite of
\* the pause; it ran under the plan just before or, until apply, just after.  No
\* tick of an earlier plan is ever shown, and none that the drain waited for.
MadeForTheTargets(preview) ==
  /\ preview.generation = generation
  /\ \/ preview.madeBy = generation
     \/ preview.straggler /\ preview.madeBy \in {generation - 1, generation + 1}

\* Only between the two halves of apply may images of before be found.
PreviewsAreCurrent ==
  \A t \in DOMAIN shown : MadeForTheTargets(shown[t]) \/ (t[1] = "image" /\ swap = "transport")

\* No preview is kept from the user because the activation before it had
\* counted further: outside a swap no cursor is ahead of its sequence.
NothingIsSuppressed ==
  swap = "none" => \A t \in DOMAIN cursor : cursor[t] <= Get(sequence, t, 0)

=============================================================================
