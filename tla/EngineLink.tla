----------------------------- MODULE EngineLink -----------------------------
(***************************************************************************)
(* The editor's link to the engine process: EngineBridge and its task      *)
(* runner (ui/engine_bridge.py, ui/engine_task_runner.py), EngineSession   *)
(* (runtime/engine_session.py), ProcessEngineClient                        *)
(* (runtime/engine_client.py) and the command loop of EngineServer         *)
(* (runtime/engine_server.py).                                             *)
(*                                                                         *)
(* Three threads of the editor send requests: the runner, which takes one  *)
(* task at a time, the UI thread, which reads diagnostics and closes, and  *)
(* the event reader, which answers slot announcements. A request waits for *)
(* its answer, a time-out, or the end of the connection. The child handles *)
(* commands in order; it may crash, or hang in a command while its         *)
(* publisher goes on with heartbeats.                                      *)
(*                                                                         *)
(* A graph is its revision; 0 is no graph. What a source does is one flag, *)
(* and the preview slots are the subject of PreviewHandshake.              *)
(***************************************************************************)
EXTENDS Naturals, Sequences

CONSTANTS
    Invalid,        \* the revisions the compiler rejects
    MaxEdits,       \* bound: edits of the document
    MaxClicks,      \* bound: commands the user gives, restarts and diagnostics included
    MaxFaults,      \* bound: crashes, hangs, failed spawns and commands that raise
    MaxTimeouts,    \* bound: time-outs while the child is healthy
    Nil

ASSUME BoundsAssumption ==
    /\ MaxEdits \in Nat /\ MaxClicks \in Nat /\ MaxFaults \in Nat /\ MaxTimeouts \in Nat
    /\ Invalid \subseteq Nat

VARIABLES
    \* the document and EngineBridge, on the UI thread
    document,       \* revision of the edited graph
    pending,        \* _pending_activation
    timer,          \* the debounce timer runs
    inflight,       \* _tasks_inflight
    told,           \* the activation last reported, and the last outcome of one or of a restart
    shown,          \* connection state of the published EngineBridgeState
    ui,             \* ready, diagnosing, draining, stopping or closed
    \* QtEngineTaskRunner
    queue,          \* submitted operations, the running one first
    step,           \* where the running operation is
    callbacks,      \* signals posted to the UI thread
    \* EngineSession and ProcessEngineClient
    knownStopped,   \* _known_stopped
    connection,     \* _connection_state
    revision,       \* _graph_revision
    snapshot,       \* _latest_valid_snapshot
    beat,           \* last heartbeat: none, fresh or older than the time-out
    call,           \* the request each thread waits in
    \* the child and the pipe
    process,        \* none, alive or dead
    hung,           \* the command loop is stuck
    active,         \* EngineServer._graph_revision
    playing,
    inbox, outbox,
    \* bounds
    edits, clicks, faults, timeouts

bridge == <<document, pending, timer, inflight, told, shown>>
runner == <<queue, step, callbacks>>
client == <<revision, snapshot, beat>>
child == <<process, hung, active, playing>>
bounds == <<edits, clicks, faults, timeouts>>
vars == <<bridge, ui, runner, knownStopped, connection, client, call, child, inbox, outbox, bounds>>

Threads == {"runner", "ui", "events"}
Kinds == {"activation", "transport", "panic", "refresh", "restart"}
Revisions == 0..MaxEdits
Connections == {"STARTING", "CONNECTED", "UNRESPONSIVE", "CRASHED", "RESTARTING", "CLOSED"}
Commands == {"handshake", "activate", "play", "pause", "panic", "metrics", "status", "profiles",
             "configure", "shutdown"}
Answers == {"ack", "rejected", "failed", "running", "stopped"}
NoAnswer == {"waiting", "lost", "timeout"}
Outcomes == {"ok", "rejected", "failed"}

Command == [command : Commands, revision : Revisions, by : Threads \cup {Nil}]
Answer == [by : Threads \cup {Nil}, answer : Answers, revision : Revisions]
Call == [command : Commands, answer : Answers \cup NoAnswer, revision : Revisions]
Task == [kind : Kinds, revision : Revisions]

ASSUME NilAssumption == Nil \notin Threads /\ Nil \notin Outcomes /\ Nil \notin Call

TypeOK ==
    /\ document \in Revisions /\ pending \in Revisions /\ timer \in BOOLEAN
    /\ inflight \subseteq Kinds
    /\ told \in [about : Revisions, outcome : Outcomes \cup {Nil}]
    /\ shown \in Connections /\ connection \in Connections
    /\ ui \in {"ready", "diagnosing", "draining", "stopping", "closed"}
    /\ queue \in Seq(Task)
    /\ step \in {"idle", "answer", "lookup", "metrics", "shutdown", "stop", "spawn", "greet",
                 "connected", "rebuilt"}
    /\ callbacks \in Seq([kind : Kinds, revision : Revisions, outcome : Outcomes])
    /\ knownStopped \in BOOLEAN
    /\ revision \in Revisions /\ snapshot \in Revisions
    /\ beat \in {"none", "fresh", "old"}
    /\ call \in [Threads -> Call \cup {Nil}]
    /\ process \in {"none", "alive", "dead"} /\ hung \in BOOLEAN
    /\ active \in Revisions /\ playing \in BOOLEAN
    /\ inbox \in Seq(Command) /\ outbox \in Seq(Answer)
    /\ edits \in 0..MaxEdits /\ clicks \in 0..MaxClicks
    /\ faults \in 0..MaxFaults /\ timeouts \in 0..MaxTimeouts

\* The client was constructed with auto_start: the child has answered the handshake.
Init ==
    /\ document = 0 /\ pending = 0 /\ timer = FALSE /\ inflight = {}
    /\ told = [about |-> 0, outcome |-> Nil] /\ shown = "CLOSED" /\ ui = "ready"
    /\ queue = <<>> /\ step = "idle" /\ callbacks = <<>>
    /\ knownStopped = FALSE /\ connection = "CONNECTED"
    /\ revision = 0 /\ snapshot = 0 /\ beat = "none"
    /\ call = [t \in Threads |-> Nil]
    /\ process = "alive" /\ hung = FALSE /\ active = 0 /\ playing = FALSE
    /\ inbox = <<>> /\ outbox = <<>>
    /\ edits = 0 /\ clicks = 0 /\ faults = 0 /\ timeouts = 0

-----------------------------------------------------------------------------
\* Requests.

\* A slot configuration keeps the event reader from taking heartbeats.
EventThreadSlow == call["events"] # Nil

\* The connection state after _refresh_liveness_locked.
Liveness ==
    LET state == IF process = "dead" /\ connection # "RESTARTING" THEN "CRASHED" ELSE connection
    IN  IF ~EventThreadSlow /\ state = "CONNECTED" /\ beat = "old" THEN "UNRESPONSIVE" ELSE state

Answered(t) == call[t] # Nil /\ call[t].answer # "waiting"
Waiting(t) == call[t] # Nil /\ call[t].answer = "waiting"
Lost(calls) == [t \in Threads |->
    IF calls[t] # Nil /\ calls[t].answer = "waiting" THEN [calls[t] EXCEPT !.answer = "lost"] ELSE calls[t]]

\* A request of thread t: refused where there is no connection, failed where the pipe is broken.
Request(t, command, r) ==
    LET made(answer) == [call EXCEPT ![t] = [command |-> command, answer |-> answer, revision |-> r]] IN
    \/ /\ Liveness \in {"CLOSED", "CRASHED"} \/ process = "none"
       /\ connection' = Liveness /\ call' = made("lost") /\ UNCHANGED inbox
    \/ /\ Liveness \notin {"CLOSED", "CRASHED"} /\ process = "dead"
       /\ connection' = "CRASHED" /\ call' = Lost(made("lost")) /\ UNCHANGED inbox
    \/ /\ Liveness \notin {"CLOSED", "CRASHED"} /\ process = "alive"
       /\ connection' = Liveness /\ call' = made("waiting")
       /\ inbox' = Append(inbox, [command |-> command, revision |-> r, by |-> t])

\* The response reader hands an answer to the request that waits for it; one that nobody
\* waits for is dropped.
Deliver ==
    /\ outbox # <<>>
    /\ outbox' = Tail(outbox)
    /\ LET to == Head(outbox).by IN
       call' = IF to = Nil \/ ~Waiting(to) THEN call
               ELSE [call EXCEPT ![to].answer = Head(outbox).answer,
                                 ![to].revision = Head(outbox).revision]
    /\ UNCHANGED <<bridge, ui, runner, knownStopped, connection, client, child, inbox, bounds>>

\* The response reader meets the end of the pipe (_mark_disconnected).
Disconnect ==
    /\ process = "dead" /\ outbox = <<>>
    /\ connection # "CRASHED" \/ \E t \in Threads : Waiting(t)
    /\ connection' = "CRASHED" /\ call' = Lost(call)
    /\ UNCHANGED <<bridge, ui, runner, knownStopped, client, child, inbox, outbox, bounds>>

\* The messages of a request that has given up: its id is no longer pending.
Forget(t, messages) == [i \in DOMAIN messages |->
    IF messages[i].by = t THEN [messages[i] EXCEPT !.by = Nil] ELSE messages[i]]

TimeOut(t) ==
    /\ Waiting(t)
    /\ \/ (hung \/ process # "alive") /\ UNCHANGED timeouts
       \/ /\ ~hung /\ process = "alive"
          /\ timeouts < MaxTimeouts /\ timeouts' = timeouts + 1
    /\ call' = [call EXCEPT ![t].answer = "timeout"]
    /\ inbox' = Forget(t, inbox) /\ outbox' = Forget(t, outbox)
    /\ connection' = "UNRESPONSIVE"
    /\ UNCHANGED <<bridge, ui, runner, knownStopped, client, child, edits, clicks, faults>>

\* _accept_revision: an answer about an older graph than the client's is refused.
Accepted(t) == /\ call[t].answer \in {"ack", "running", "stopped"}
               /\ ~(call[t].revision # 0 /\ call[t].revision < revision)

-----------------------------------------------------------------------------
\* EngineServer.

RevisionExempt == {"handshake", "activate", "shutdown"}

Reply(answer) ==
    outbox' = Append(outbox, [by |-> Head(inbox).by, answer |-> answer, revision |-> active'])

\* _validate_graph_revision refuses it.
Stale(c) == c.command \notin RevisionExempt /\ c.revision # active

\* One command of the loop, with what it makes of the engine.
Handle(c) ==
    \/ /\ Stale(c)
       /\ UNCHANGED child /\ Reply("failed")
    \/ /\ c.command = "activate" /\ c.revision \notin Invalid
       /\ active' = c.revision /\ UNCHANGED <<process, hung, playing>> /\ Reply("ack")
    \/ /\ c.command = "activate" /\ c.revision \in Invalid
       /\ playing' = FALSE /\ UNCHANGED <<process, hung, active>> /\ Reply("rejected")
    \/ /\ c.command \in {"play", "pause"} /\ ~Stale(c)
       /\ playing' = (c.command = "play")
       /\ UNCHANGED <<process, hung, active>> /\ Reply("ack")
    \/ /\ c.command \in {"panic", "profiles", "configure"} /\ ~Stale(c)
       /\ UNCHANGED child /\ Reply("ack")
    \/ /\ c.command \in {"metrics", "status"} /\ ~Stale(c)
       /\ UNCHANGED child /\ Reply(IF playing THEN "running" ELSE "stopped")
    \/ /\ c.command = "handshake"
       /\ UNCHANGED child /\ Reply("ack")
    \/ /\ c.command = "shutdown"
       /\ process' = "dead" /\ playing' = FALSE /\ UNCHANGED <<hung, active>> /\ Reply("ack")

\* A command that raises. A pause stops the sources before its panic raises, and a shutdown that
\* raises stops them and not the loop.
Raise(c) ==
    /\ ~Stale(c) /\ faults < MaxFaults /\ faults' = faults + 1
    /\ playing' = (playing /\ c.command \notin {"pause", "shutdown"})
    /\ UNCHANGED <<process, hung, active>> /\ Reply("failed")

Serve ==
    /\ process = "alive" /\ ~hung /\ inbox # <<>>
    /\ \/ Handle(Head(inbox)) /\ UNCHANGED faults
       \/ Raise(Head(inbox))
    /\ inbox' = IF process' = "dead" THEN <<>> ELSE Tail(inbox)
    /\ UNCHANGED <<bridge, ui, runner, knownStopped, connection, client, call, edits, clicks, timeouts>>

Crash ==
    /\ process = "alive" /\ faults < MaxFaults /\ faults' = faults + 1
    /\ process' = "dead" /\ hung' = FALSE /\ playing' = FALSE /\ inbox' = <<>>
    /\ UNCHANGED <<bridge, ui, runner, knownStopped, connection, client, call, active, outbox,
                   edits, clicks, timeouts>>

Hang ==
    /\ process = "alive" /\ ~hung /\ inbox # <<>> /\ faults < MaxFaults /\ faults' = faults + 1
    /\ hung' = TRUE
    /\ UNCHANGED <<bridge, ui, runner, knownStopped, connection, client, call, process, active,
                   playing, inbox, outbox, edits, clicks, timeouts>>

-----------------------------------------------------------------------------
\* The event reader.

HandleHeartbeat ==
    /\ process # "none" /\ ~EventThreadSlow
    /\ beat # "fresh" \/ connection = "UNRESPONSIVE"
    /\ beat' = "fresh"
    /\ connection' = IF connection = "UNRESPONSIVE" THEN "CONNECTED" ELSE connection
    /\ UNCHANGED <<bridge, ui, runner, knownStopped, revision, snapshot, call, child, inbox, outbox,
                   bounds>>

\* No heartbeat for heartbeat_timeout_s.
HeartbeatAges ==
    /\ beat = "fresh" /\ beat' = "old"
    /\ UNCHANGED <<bridge, ui, runner, knownStopped, connection, revision, snapshot, call, child,
                   inbox, outbox, bounds>>

\* A format announcement of the graph the client knows becomes a request (_configure_preview_slot).
ConfigurePreviewSlot ==
    /\ process = "alive" /\ call["events"] = Nil /\ active # 0 /\ active = revision
    /\ clicks < MaxClicks /\ clicks' = clicks + 1
    /\ Request("events", "configure", revision)
    /\ UNCHANGED <<bridge, ui, runner, knownStopped, client, child, outbox, edits, faults, timeouts>>

SlotConfigured ==
    /\ Answered("events")
    /\ call' = [call EXCEPT !["events"] = Nil]
    /\ UNCHANGED <<bridge, ui, runner, knownStopped, connection, client, child, inbox, outbox, bounds>>

-----------------------------------------------------------------------------
\* The end of a process: it is joined, terminated or killed, and its handles are disposed of.

\* Mutant of StopCurrentProcess: a child that does not answer is left running.
StopGracefully ==
    /\ process' = (IF hung THEN process ELSE "none") /\ hung' = hung /\ active' = 0 /\ playing' = FALSE
    /\ inbox' = <<>> /\ outbox' = <<>>

StopCurrentProcess ==
    /\ process' = "none" /\ hung' = FALSE /\ active' = 0 /\ playing' = FALSE
    /\ inbox' = <<>> /\ outbox' = <<>>

-----------------------------------------------------------------------------
\* The operations, on the thread of the runner.

Running(kind) == queue # <<>> /\ Head(queue).kind = kind

\* The operation returns or raises: its signal is posted to the UI thread.
Finish(outcome) ==
    /\ callbacks' = Append(callbacks, [kind |-> Head(queue).kind, revision |-> Head(queue).revision,
                                       outcome |-> outcome])
    /\ queue' = Tail(queue) /\ step' = "idle"

Go(next) == step' = next /\ UNCHANGED <<queue, callbacks>>

\* EngineSession.activate, panic and the lookup of EngineBridge._load_toggle.
BeginActivate ==
    /\ step = "idle" /\ Running("activation")
    /\ Request("runner", "activate", Head(queue).revision) /\ Go("answer")
    /\ knownStopped' = FALSE
    /\ UNCHANGED <<bridge, ui, client, child, outbox, bounds>>

BeginPanic ==
    /\ step = "idle" /\ Running("panic")
    /\ Request("runner", "panic", revision) /\ Go("answer")
    /\ knownStopped' = FALSE
    /\ UNCHANGED <<bridge, ui, client, child, outbox, bounds>>

BeginToggle ==
    /\ step = "idle" /\ Running("transport")
    /\ Request("runner", "status", revision) /\ Go("lookup")
    /\ UNCHANGED <<bridge, ui, knownStopped, client, child, outbox, bounds>>

\* The state of the source decides between play and pause.
Toggle ==
    /\ step = "lookup" /\ Answered("runner")
    /\ \/ /\ Accepted("runner")
          /\ knownStopped' = FALSE
          /\ Request("runner", IF call["runner"].answer = "running" THEN "pause" ELSE "play", revision)
          /\ Go("answer")
       \/ /\ ~Accepted("runner") /\ Finish("failed")
          /\ call' = [call EXCEPT !["runner"] = Nil]
          /\ UNCHANGED <<knownStopped, connection, inbox>>
    /\ UNCHANGED <<bridge, ui, client, child, outbox, bounds>>

\* EngineSession.metrics: a failed engine is not asked, and is not stopped.
BeginRefresh ==
    /\ step = "idle" /\ Running("refresh")
    /\ \/ /\ Liveness \in {"CRASHED", "UNRESPONSIVE"}
          /\ knownStopped' = FALSE /\ Request("runner", "status", revision) /\ Go("answer")
       \/ /\ Liveness \notin {"CRASHED", "UNRESPONSIVE"}
          /\ UNCHANGED knownStopped /\ Request("runner", "metrics", revision) /\ Go("metrics")
    /\ UNCHANGED <<bridge, ui, client, child, outbox, bounds>>

Metrics ==
    /\ step = "metrics" /\ Answered("runner")
    /\ \/ /\ Accepted("runner")
          /\ knownStopped' = (call["runner"].answer = "stopped")
          /\ Request("runner", "status", revision) /\ Go("answer")
       \/ /\ ~Accepted("runner") /\ Finish("failed")
          /\ call' = [call EXCEPT !["runner"] = Nil]
          /\ UNCHANGED <<knownStopped, connection, inbox>>
    /\ UNCHANGED <<bridge, ui, client, child, outbox, bounds>>

\* ProcessEngineClient._activate keeps the graph the engine accepted.
Keep(r) == revision' = r /\ snapshot' = r /\ UNCHANGED beat

\* The last answer of an operation.
Return ==
    /\ step = "answer" /\ Answered("runner")
    /\ \/ /\ Running("activation") /\ call["runner"].answer = "ack"
          /\ Keep(Head(queue).revision) /\ Finish("ok")
       \/ /\ Running("activation") /\ call["runner"].answer = "rejected"
          /\ UNCHANGED client /\ Finish("rejected")
       \/ /\ Running("activation") /\ call["runner"].answer \notin {"ack", "rejected"}
          /\ UNCHANGED client /\ Finish("failed")
       \/ /\ ~Running("activation")
          /\ UNCHANGED client /\ Finish(IF Accepted("runner") THEN "ok" ELSE "failed")
    /\ call' = [call EXCEPT !["runner"] = Nil]
    /\ UNCHANGED <<bridge, ui, knownStopped, connection, child, inbox, outbox, bounds>>

\* ProcessEngineClient.restart: shutdown, join, spawn, handshake, activation of the last valid graph.
BeginRestart ==
    /\ step = "idle" /\ Running("restart")
    /\ connection' = "RESTARTING" /\ knownStopped' = FALSE
    /\ Go("shutdown")
    /\ UNCHANGED <<bridge, ui, client, call, child, inbox, outbox, bounds>>

Shutdown ==
    /\ step = "shutdown" /\ Go("stop")
    /\ \/ process = "alive" /\ Request("runner", "shutdown", revision)
       \/ process # "alive" /\ UNCHANGED <<connection, call, inbox>>
    /\ UNCHANGED <<bridge, ui, knownStopped, client, child, outbox, bounds>>

Replace ==
    /\ step = "stop" /\ ~Waiting("runner")
    /\ StopCurrentProcess
    /\ call' = Lost([call EXCEPT !["runner"] = Nil])
    /\ Go("spawn")
    /\ UNCHANGED <<bridge, ui, knownStopped, connection, client, bounds>>

Spawn ==
    /\ step = "spawn"
    /\ process' = "alive" /\ connection' = "STARTING" /\ beat' = "none"
    /\ inbox' = <<[command |-> "handshake", revision |-> 0, by |-> "runner"]>>
    /\ call' = [call EXCEPT !["runner"] = [command |-> "handshake", answer |-> "waiting", revision |-> 0]]
    /\ Go("greet")
    /\ UNCHANGED <<bridge, ui, knownStopped, revision, snapshot, hung, active, playing, outbox, bounds>>

SpawnFails ==
    /\ step = "spawn" /\ faults < MaxFaults /\ faults' = faults + 1
    /\ connection' = "CRASHED" /\ beat' = "none"
    /\ Finish("failed")
    /\ UNCHANGED <<bridge, ui, knownStopped, revision, snapshot, call, child, inbox, outbox,
                   edits, clicks, timeouts>>

Greeted ==
    /\ step = "greet" /\ Answered("runner") /\ call["runner"].answer = "ack"
    /\ connection' = "CONNECTED"
    /\ call' = [call EXCEPT !["runner"] = Nil]
    /\ IF snapshot = 0 THEN Finish("ok") ELSE Go("connected")
    /\ UNCHANGED <<bridge, ui, knownStopped, client, child, inbox, outbox, bounds>>

\* A handshake that fails takes the new process down with it.
NotGreeted ==
    /\ step = "greet" /\ Answered("runner") /\ call["runner"].answer # "ack"
    /\ StopCurrentProcess
    /\ connection' = "CRASHED"
    /\ call' = Lost([call EXCEPT !["runner"] = Nil])
    /\ Finish("failed")
    /\ UNCHANGED <<bridge, ui, knownStopped, client, bounds>>

Rebuild ==
    /\ step = "connected"
    /\ Request("runner", "activate", snapshot) /\ Go("rebuilt")
    /\ UNCHANGED <<bridge, ui, knownStopped, client, child, outbox, bounds>>

\* Mutant of Rebuilt: the outcome of the activation is not looked at.
RebuiltUnchecked ==
    /\ step = "rebuilt" /\ Answered("runner")
    /\ call' = [call EXCEPT !["runner"] = Nil]
    /\ UNCHANGED client /\ Finish("ok")
    /\ UNCHANGED <<bridge, ui, knownStopped, connection, child, inbox, outbox, bounds>>

Rebuilt ==
    /\ step = "rebuilt" /\ Answered("runner")
    /\ call' = [call EXCEPT !["runner"] = Nil]
    /\ \/ call["runner"].answer = "ack" /\ Keep(snapshot) /\ Finish("ok")
       \/ call["runner"].answer # "ack" /\ UNCHANGED client /\ Finish("failed")
    /\ UNCHANGED <<bridge, ui, knownStopped, connection, child, inbox, outbox, bounds>>

Operation ==
    \/ BeginActivate \/ BeginPanic \/ BeginToggle \/ Toggle \/ BeginRefresh \/ Metrics \/ Return
    \/ BeginRestart \/ Shutdown \/ Replace \/ Spawn \/ Greeted \/ NotGreeted \/ Rebuild \/ Rebuilt

-----------------------------------------------------------------------------
\* EngineBridge and the window, on the UI thread.

Submitted(kinds, tasks, kind, r) ==
    /\ inflight' = kinds \cup {kind}
    /\ queue' = Append(tasks, [kind |-> kind, revision |-> r])

\* Mutant of FlushActivation: a snapshot that meets an activation in flight is dropped.
FlushDropping(kinds, tasks) ==
    IF pending = 0 \/ "activation" \in kinds
    THEN /\ pending' = 0 /\ inflight' = kinds /\ queue' = tasks
    ELSE /\ pending' = 0
         /\ Submitted(kinds, tasks, "activation", pending)

\* _flush_activation with the tasks in flight: nothing is pending, one activation is in flight
\* and the newer snapshot is kept, or it is submitted.
FlushActivation(kinds, tasks) ==
    IF pending = 0 \/ "activation" \in kinds
    THEN /\ UNCHANGED pending /\ inflight' = kinds /\ queue' = tasks
    ELSE /\ pending' = 0
         /\ Submitted(kinds, tasks, "activation", pending)

Edit ==
    /\ ui = "ready" /\ edits < MaxEdits /\ edits' = edits + 1
    /\ document' = document + 1 /\ pending' = document + 1 /\ timer' = TRUE
    /\ UNCHANGED <<inflight, told, shown, ui, runner, knownStopped, connection, client, call, child,
                   inbox, outbox, clicks, faults, timeouts>>

TimerFires ==
    /\ ui = "ready" /\ timer /\ timer' = FALSE
    /\ FlushActivation(inflight, queue)
    /\ UNCHANGED <<document, told, shown, ui, step, callbacks, knownStopped, connection, client, call,
                   child, inbox, outbox, bounds>>

\* A command of the user, dropped while one of its kind is in flight. Restart is offered for a
\* failed engine, and a refresh is left out while the engine is known to be stopped.
Submit(kind) ==
    /\ ui = "ready" /\ clicks < MaxClicks /\ clicks' = clicks + 1
    /\ kind \notin inflight
    /\ kind = "restart" => shown \in {"CRASHED", "UNRESPONSIVE"}
    /\ kind = "refresh" => ~knownStopped /\ shown = "CONNECTED"
    /\ Submitted(inflight, queue, kind, 0)
    /\ UNCHANGED <<document, pending, timer, told, shown, ui, step, callbacks, knownStopped, connection,
                   client, call, child, inbox, outbox, edits, faults, timeouts>>

\* refresh_status: the local fold of the liveness, without a request.
RefreshStatus ==
    /\ ui = "ready"
    /\ connection' = Liveness /\ shown' = Liveness
    /\ knownStopped' = (knownStopped /\ Liveness \notin {"CRASHED", "UNRESPONSIVE", "RESTARTING", "CLOSED"})
    /\ <<connection, shown, knownStopped>>' # <<connection, shown, knownStopped>>
    /\ UNCHANGED <<document, pending, timer, inflight, told, ui, runner, client, call, child, inbox,
                   outbox, bounds>>

TaskDone ==
    /\ ui = "ready" /\ callbacks # <<>>
    /\ callbacks' = Tail(callbacks)
    /\ LET done == Head(callbacks) IN
       /\ told' = CASE done.kind = "activation" -> [about |-> done.revision, outcome |-> done.outcome]
                    [] done.kind = "restart" -> [told EXCEPT !.outcome = done.outcome]
                    [] OTHER -> told
       /\ IF done.kind = "activation" THEN FlushActivation(inflight \ {done.kind}, queue)
          ELSE inflight' = inflight \ {done.kind} /\ UNCHANGED <<pending, queue>>
    /\ UNCHANGED <<document, timer, shown, ui, step, knownStopped, connection, client, call, child, inbox,
                   outbox, bounds>>

\* read_diagnostics asks on the UI thread itself, for metrics and then for profiles.
ReadDiagnostics ==
    /\ ui = "ready" /\ clicks < MaxClicks /\ clicks' = clicks + 1
    /\ Liveness \notin {"CRASHED", "UNRESPONSIVE"}
    /\ Request("ui", "metrics", revision) /\ ui' = "diagnosing"
    /\ UNCHANGED <<bridge, runner, knownStopped, client, child, outbox, edits, faults, timeouts>>

DiagnosticsRead ==
    /\ ui = "diagnosing" /\ Answered("ui")
    /\ \/ /\ call["ui"].command = "metrics" /\ Accepted("ui")
          /\ knownStopped' = (call["ui"].answer = "stopped")
          /\ Request("ui", "profiles", revision) /\ UNCHANGED ui
       \/ /\ call["ui"].command = "profiles" \/ ~Accepted("ui")
          /\ ui' = "ready" /\ call' = [call EXCEPT !["ui"] = Nil]
          /\ UNCHANGED <<knownStopped, connection, inbox>>
    /\ UNCHANGED <<bridge, runner, client, child, outbox, bounds>>

\* closeEvent: the runner drops what it has not begun and the window waits for the rest.
CloseRunner ==
    /\ ui = "ready" /\ ui' = "draining"
    /\ queue' = IF step = "idle" THEN <<>> ELSE <<Head(queue)>>
    /\ timer' = FALSE
    /\ UNCHANGED <<document, pending, inflight, told, shown, step, callbacks, knownStopped, connection,
                   client, call, child, inbox, outbox, bounds>>

\* EngineBridge.close and ProcessEngineClient.close, up to the request.
CloseBridge ==
    /\ ui = "draining" /\ queue = <<>> /\ ui' = "stopping"
    /\ pending' = 0 /\ knownStopped' = FALSE
    /\ \/ process = "alive" /\ Request("ui", "shutdown", revision)
       \/ process # "alive" /\ UNCHANGED <<connection, call, inbox>>
    /\ UNCHANGED <<document, timer, inflight, told, shown, runner, client, child, outbox, bounds>>

CloseClient ==
    /\ ui = "stopping" /\ ~Waiting("ui") /\ ui' = "closed"
    /\ StopCurrentProcess
    /\ call' = Lost([call EXCEPT !["ui"] = Nil])
    /\ connection' = "CLOSED"
    /\ UNCHANGED <<bridge, runner, knownStopped, client, bounds>>

Closed == ui = "closed" /\ \A t \in Threads : call[t] = Nil /\ UNCHANGED vars

-----------------------------------------------------------------------------
Window ==
    \/ TimerFires \/ TaskDone \/ DiagnosticsRead \/ CloseBridge \/ CloseClient

Events == HandleHeartbeat \/ HeartbeatAges \/ ConfigurePreviewSlot \/ SlotConfigured

Faults == Crash \/ Hang \/ SpawnFails

Next ==
    \/ Edit \/ (\E kind \in Kinds \ {"activation"} : Submit(kind)) \/ RefreshStatus \/ ReadDiagnostics
    \/ CloseRunner \/ Window \/ Operation \/ Deliver \/ Disconnect \/ (\E t \in Threads : TimeOut(t))
    \/ Serve \/ Events \/ Faults \/ Closed

\* Threads and timers of the editor run on, a child that is not stuck takes its commands, and a
\* request that is not answered times out. One conjunct is enough, and weaker than one for each:
\* every one of these steps is taken finitely often. Nobody must edit, click or close, and nothing
\* must fail.
Progress ==
    \/ Window \/ Operation \/ SlotConfigured \/ Deliver \/ Disconnect \/ Serve
    \/ \E t \in Threads : TimeOut(t)

Spec == Init /\ [][Next]_vars /\ WF_vars(Progress)

-----------------------------------------------------------------------------
\* What the editor and the child take for the active graph differs only while an activation or a
\* restart is under way, or after the user was told that the last one did not succeed
\* (engine_client.py:570, engine_server.py:428): the answer of an activation that timed out is
\* dropped, and the child may have obeyed it.
DivergenceIsReported ==
    (process = "alive" /\ queue = <<>> /\ callbacks = <<>> /\ active # revision)
        => told.outcome \in {"failed", "rejected"}

\* The last edit is answered for: its activation is reported, done or failed, unless the window is
\* closed (engine_bridge.py:238). A snapshot that met a busy runner must be flushed later.
LastEditIsSettled == <>[](told.about = document \/ ui \notin {"ready", "diagnosing"})

\* Once the window closes, the child ends and every thread has left its request, whatever is in
\* flight, stuck or crashed (engine_client.py:530).
CloseEndsChild == ui = "draining" ~> (ui = "closed" /\ process = "none" /\ \A t \in Threads : call[t] = Nil)

=============================================================================
