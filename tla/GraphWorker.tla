----------------------------- MODULE GraphWorker -----------------------------
(***************************************************************************)
(* LatestFrameGraphWorker (runtime/engine_body.py): every source publishes *)
(* frames and resets into one deque, and one worker thread runs them on    *)
(* the scheduler. A frame replaces the frame of its source that still      *)
(* waits, unless a reset of that source came in between.                   *)
(*                                                                         *)
(* Every command carries the order of its arrival among the commands of    *)
(* its source (stamp). The code has no such number; the ordering           *)
(* properties are about it.                                                *)
(***************************************************************************)
EXTENDS Integers, Sequences, FiniteSets, SequencesExt

CONSTANTS
    Sources,     \* source node identifiers
    None,        \* no command in hand
    MaxStamp     \* bound: commands a source issues

\* The reset reasons: SOURCE_ENDED drains, every other one discards.
Reasons == {"ended", "discard"}

Stamps == 1..MaxStamp
Ticks == [kind : {"tick"}, source : Sources, stamp : Stamps]
Resets == [kind : {"reset"}, source : Sources, reason : Reasons, stamp : Stamps]
Command == Ticks \cup Resets

VARIABLES
    commands,    \* _commands
    current,     \* the command being run, _active; _busy is current # None
    closed,      \* _closed
    exited,      \* the worker thread has returned
    dropped,     \* _dropped_by_source
    failed,      \* _last_error is set
    issued,      \* per source, how many commands it issued
    newest,      \* per source, the stamp of its newest frame still wanted, or 0
    ran          \* per source, the stamp of the last command run

workerVars == <<commands, current, closed, exited, dropped, failed, issued, newest, ran>>

Of(s) == {i \in DOMAIN commands : commands[i].source = s}
TicksOf(s) == {i \in Of(s) : commands[i].kind = "tick"}

\* Every variable has its type; the ghosts stay within the bound.
WorkerTypeOK ==
    /\ commands \in Seq(Command)
    /\ current \in Command \cup {None}
    /\ closed \in BOOLEAN /\ exited \in BOOLEAN /\ failed \in BOOLEAN
    /\ dropped \in [Sources -> Nat]
    /\ issued \in [Sources -> 0..MaxStamp]
    /\ newest \in [Sources -> 0..MaxStamp]
    /\ ran \in [Sources -> 0..MaxStamp]

WorkerInit ==
    /\ commands = <<>> /\ current = None
    /\ closed = FALSE /\ exited = FALSE /\ failed = FALSE
    /\ dropped = [s \in Sources |-> 0]
    /\ issued = [s \in Sources |-> 0]
    /\ newest = [s \in Sources |-> 0]
    /\ ran = [s \in Sources |-> 0]

-----------------------------------------------------------------------------
(* The sources' side *)

Latest(S) == CHOOSE i \in S : \A j \in S : j <= i

\* Mutant: a frame published behind a queued reset is dropped.
PlaceNotBehindReset(command) ==
    LET mine == Of(command.source)
        i == Latest(mine)
    IN  IF mine = {}
        THEN [queue |-> Append(commands, command), replaces |-> FALSE]
        ELSE IF commands[i].kind = "reset"
        THEN [queue |-> commands, replaces |-> FALSE]
        ELSE [queue |-> [commands EXCEPT ![i] = command], replaces |-> TRUE]

\* Mutant: a source with nothing waiting jumps the queue.
PlaceFirst(command) ==
    LET mine == Of(command.source)
        i == Latest(mine)
    IN  IF mine = {}
        THEN [queue |-> <<command>> \o commands, replaces |-> FALSE]
        ELSE IF commands[i].kind = "reset"
        THEN [queue |-> InsertAt(commands, i + 1, command), replaces |-> FALSE]
        ELSE [queue |-> [commands EXCEPT ![i] = command], replaces |-> TRUE]

\* Where a frame goes: the scan from the tail stops at the last command of the
\* same source.
Place(command) ==
    LET mine == Of(command.source)
        i == Latest(mine)
    IN  IF mine = {}
        THEN [queue |-> Append(commands, command), replaces |-> FALSE]
        ELSE IF commands[i].kind = "reset"
        THEN [queue |-> InsertAt(commands, i + 1, command), replaces |-> FALSE]
        ELSE [queue |-> [commands EXCEPT ![i] = command], replaces |-> TRUE]

Publish(s) ==
    LET stamp == issued[s] + 1
        place == Place([kind |-> "tick", source |-> s, stamp |-> stamp])
    IN  /\ ~closed
        /\ stamp <= MaxStamp
        /\ commands' = place.queue
        /\ dropped' = IF place.replaces THEN [dropped EXCEPT ![s] = @ + 1] ELSE dropped
        /\ issued' = [issued EXCEPT ![s] = stamp]
        /\ newest' = [newest EXCEPT ![s] = stamp]
        /\ UNCHANGED <<current, closed, exited, failed, ran>>

\* The commands at the positions of kept, in their order.
Rank(S, i) == Cardinality({j \in S : j <= i})
Only(kept) ==
    [p \in 1..Cardinality(kept) |-> commands[CHOOSE i \in kept : Rank(kept, i) = p]]

\* A reset other than the end of the source discards the frames that wait.
Kept(s, reason) ==
    IF reason = "ended" THEN commands ELSE Only(DOMAIN commands \ TicksOf(s))

ResetSource(s, reason) ==
    LET stamp == issued[s] + 1
    IN  /\ ~closed
        /\ stamp <= MaxStamp
        /\ commands' = Append(Kept(s, reason), [kind |-> "reset", source |-> s,
                                               reason |-> reason, stamp |-> stamp])
        /\ issued' = [issued EXCEPT ![s] = stamp]
        /\ newest' = IF reason = "ended" THEN newest ELSE [newest EXCEPT ![s] = 0]
        /\ UNCHANGED <<current, closed, exited, dropped, failed, ran>>

\* The engine body: after a plan swap, when the worker is idle.
ResetPlanMetrics ==
    /\ commands = <<>> /\ current = None /\ ~closed
    /\ dropped # [s \in Sources |-> 0] \/ failed
    /\ dropped' = [s \in Sources |-> 0]
    /\ failed' = FALSE
    /\ UNCHANGED <<commands, current, closed, exited, issued, newest, ran>>

CloseWorker ==
    /\ ~closed
    /\ closed' = TRUE
    /\ commands' = <<>>
    /\ newest' = [s \in Sources |-> 0]
    /\ UNCHANGED <<current, exited, dropped, failed, issued, ran>>

-----------------------------------------------------------------------------
(* The worker thread *)

TakeCommand ==
    /\ current = None /\ ~closed /\ ~exited
    /\ commands # <<>>
    /\ current' = Head(commands)
    /\ commands' = Tail(commands)
    /\ UNCHANGED <<closed, exited, dropped, failed, issued, newest, ran>>

\* The command ran; an exception (no plan, no such source) is kept as the last
\* error and the loop goes on.
FinishCommand ==
    /\ current # None
    /\ ran' = [ran EXCEPT ![current.source] = current.stamp]
    /\ current' = None
    /\ failed' \in {failed, TRUE}
    /\ UNCHANGED <<commands, closed, exited, dropped, issued, newest>>

Exit ==
    /\ current = None /\ closed /\ ~exited
    /\ exited' = TRUE
    /\ UNCHANGED <<commands, current, closed, dropped, failed, issued, newest, ran>>

Stopped == exited /\ UNCHANGED workerVars

WorkerThread == TakeCommand \/ FinishCommand \/ Exit

WorkerNext ==
    \/ \E s \in Sources : Publish(s)
    \/ \E s \in Sources, reason \in Reasons : ResetSource(s, reason)
    \/ ResetPlanMetrics
    \/ CloseWorker
    \/ WorkerThread
    \/ Stopped

WorkerSpec == WorkerInit /\ [][WorkerNext]_workerVars

\* The thread is scheduled and every scheduler call returns.
FairWorkerSpec == WorkerSpec /\ WF_workerVars(WorkerThread)

-----------------------------------------------------------------------------
(* Properties *)

\* The commands of one source run in the order it issued them: a frame never
\* overtakes a reset issued before it, and none runs again (publish,
\* reset_source: "Sources serialize reset-then-frame").
SourceOrder ==
    \A s \in Sources :
        /\ \A i, j \in Of(s) : i < j => commands[i].stamp < commands[j].stamp
        /\ \A i \in Of(s) : ran[s] < commands[i].stamp
        /\ current # None /\ current.source = s =>
               /\ ran[s] < current.stamp
               /\ \A i \in Of(s) : current.stamp < commands[i].stamp

\* The newest frame of a source that no later reset discarded waits, is being
\* run or has run ("losing the first frame of a new run").
NewestFrameKept ==
    \A s \in Sources : newest[s] # 0 =>
        \/ newest[s] <= ran[s]
        \/ current # None /\ current.source = s /\ current.stamp = newest[s]
        \/ \E i \in TicksOf(s) : commands[i].stamp = newest[s]

\* Between two resets of a source at most one of its frames waits, so that the
\* deque holds at most one frame more than drained resets (publish).
OneFramePerPass ==
    \A s \in Sources : \A i, j \in TicksOf(s) :
        i < j => \E k \in Of(s) : /\ i < k /\ k < j
                                  /\ commands[k].kind = "reset"
                                  /\ commands[k].reason = "ended"

\* Nothing a source publishes is lost, reordered or heaped up: its commands run
\* in the order it issued them, the newest frame that no later reset discarded
\* is kept, and between two resets at most one of its frames waits.
FramesRunInOrder == SourceOrder /\ NewestFrameKept /\ OneFramePerPass

\* A source that keeps publishing never pushes another source's command back:
\* except for a frame that joins its own queued reset, a command only moves
\* towards the head (publish replaces in place).
NoOvertaking ==
    [][\A i \in DOMAIN commands : \A j \in DOMAIN commands' :
          commands[i] = commands'[j] /\ i < j =>
              \E k \in 1..(j - 1) :
                  /\ commands'[k].kind = "tick" /\ k > 1
                  /\ commands'[k - 1].kind = "reset"
                  /\ commands'[k - 1].source = commands'[k].source]_workerVars

=============================================================================
