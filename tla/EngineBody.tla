----------------------------- MODULE EngineBody -----------------------------
(***************************************************************************)
(* The engine body: the graph it runs, its sources, the transport commands *)
(* and the activation of a new graph (runtime/engine_body.py, with the     *)
(* parts of engine_facade.py and scheduler.py it drives).                  *)
(*                                                                         *)
(* Calls hold the body's lock, so one is in progress at a time; an         *)
(* activation and a pause wait for the graph worker and take several       *)
(* steps.  Sources run threads of their own: they present frames, end,     *)
(* fail, disconnect and reconnect between any two steps of a call.         *)
(*                                                                         *)
(* IDLE stands for the states the body does not tell apart: READY,         *)
(* STOPPED, ENDED and UNAVAILABLE.  A seek changes only what resume does   *)
(* to a paused video source, so both outcomes of resume are possible.      *)
(***************************************************************************)
EXTENDS Integers, Sequences, FiniteSets

CONSTANTS Nodes,       \* source node ids; their order is the order of play(None)
          Cameras,     \* the nodes that are camera sources, the others are videos
          Plans,       \* the plans with a source that activations may compile to
          MaxEvents    \* bound on API calls and frames together

ASSUME EngineAssumption ==
    /\ Nodes \subseteq Nat /\ IsFiniteSet(Nodes) /\ Cameras \subseteq Nodes
    /\ Plans # {} /\ \A p \in Plans : DOMAIN p # {} /\ DOMAIN p \subseteq Nodes
    /\ MaxEvents \in Nat

VARIABLES state,        \* EngineState
          plan,         \* the facade's active plan: source node -> its configuration
                        \* and that of the output it drives; empty when stopped
          sources,      \* node -> the slot of its controller
          ctrl,         \* <<node, slot>> -> source controller
          interrupted,  \* _interrupted_playing_source_ids
          call,         \* the call in progress
          mail,         \* node -> commands queued in the graph worker
          busy,         \* the command the worker executes
          sounding,     \* nodes whose output holds notes
          asked,        \* nodes last asked to play, by the user or by their device
          stray,        \* nodes for which a replaced source presented a late frame
          events        \* what MaxEvents bounds

vars == <<state, plan, sources, ctrl, interrupted, call, mail, busy, sounding,
          asked, stray, events>>

Idle == [op |-> "none"]
Family == {"PLAYING", "RECONNECTING"}
SourceStates == Family \cup {"IDLE", "PAUSED", "ERROR", "CLOSED"}
Configs == UNION {{p[n].source : n \in DOMAIN p} : p \in Plans}
Controller == [kind : {"video", "camera", "failed"}, config : Configs,
               state : SourceStates, hand : BOOLEAN]
Slots == Nodes \X {0, 1}

(* A controller that is closed is only a free slot. *)
Closed == [kind |-> "failed", config |-> CHOOSE c \in Configs : TRUE,
           state |-> "CLOSED", hand |-> FALSE]

(* _create_source: a source that cannot be built is a _FailedSource. *)
Created(n, config) ==
    {[kind |-> IF n \in Cameras THEN "camera" ELSE "video", config |-> config,
      state |-> "IDLE", hand |-> FALSE],
     [kind |-> "failed", config |-> config, state |-> "ERROR", hand |-> FALSE]}

NoFun == [n \in {} |-> 0]

Init ==
    /\ state = "STOPPED" /\ plan = NoFun /\ sources = NoFun
    /\ ctrl = [s \in Slots |-> Closed]
    /\ interrupted = {} /\ call = Idle
    /\ mail = [n \in Nodes |-> <<>>] /\ busy = Idle /\ sounding = {}
    /\ asked = {} /\ stray = {} /\ events = 0

At(n) == ctrl[<<n, sources[n]>>]
Current == DOMAIN sources
SlotsOf(f) == {<<n, f[n]>> : n \in DOMAIN f}

-----------------------------------------------------------------------------
(* The graph worker's queue, one source at a time; LatestFrameGraphWorker   *)
(* in full is the module GraphWorker.                                       *)

IsTick(item) == item \in {"frame", "outage"}

(* publish: a tick replaces a queued tick, and follows a queued reset. *)
WithTick(queue, item) ==
    IF queue # <<>> /\ IsTick(queue[Len(queue)])
    THEN [queue EXCEPT ![Len(queue)] = item]
    ELSE Append(queue, item)

(* reset_source: a restart drops queued ticks, an end of stream keeps them. *)
(* Resets in a row do what one does, so a restart leaves nothing but one.   *)
WithReset(queue, item) ==
    IF item = "ended" /\ queue # <<>>
    THEN IF IsTick(queue[Len(queue)]) THEN Append(queue, item) ELSE queue
    ELSE <<item>>

Posted(queue, item) ==
    CASE item = "none" -> queue
      [] item \in {"frame", "outage"} -> WithTick(queue, item)
      [] OTHER -> WithReset(queue, item)

WorkerIdle == busy = Idle /\ \A n \in Nodes : mail[n] = <<>>

(* The worker takes a command. *)
Take(n) ==
    /\ busy = Idle /\ mail[n] # <<>>
    /\ busy' = [op |-> Head(mail[n]), node |-> n, stale |-> FALSE]
    /\ mail' = [mail EXCEPT ![n] = Tail(@)]
    /\ UNCHANGED <<state, plan, sources, ctrl, interrupted, call, sounding, asked, stray, events>>

(* A tick sets the notes of the outputs on its source's clock, unless they    *)
(* belong to a closed scheduler or were panicked since it began (ADR-0022).   *)
(* It traverses the whole plan: the outputs on other clocks run without data  *)
(* and ask for a panic.  An outage does that to all of them, a reset silences *)
(* those of its clock.                                                        *)
Finish ==
    /\ busy # Idle
    /\ busy' = Idle
    /\ sounding' \in
        CASE busy.node \notin DOMAIN plan -> {sounding}
          [] busy.op = "frame" /\ busy.node \in DOMAIN plan ->
                IF busy.stale THEN {sounding \cap {busy.node}} ELSE {{busy.node}, {}}
          [] busy.op = "outage" /\ busy.node \in DOMAIN plan -> {{}}
          [] OTHER -> {sounding \ {busy.node}}
    /\ UNCHANGED <<state, plan, sources, ctrl, interrupted, call, mail, asked, stray, events>>

-----------------------------------------------------------------------------
(* What a source controller does when told to.  An outcome is the            *)
(* controller afterwards, whether the call raised, and what it sent to the   *)
(* worker.                                                                   *)

Outcome(c, st, raised, sent) ==
    [ctrl |-> [c EXCEPT !.state = st], raised |-> raised, sent |-> sent]
Same(c) == {Outcome(c, c.state, FALSE, "none")}

(* The threads are joined: the frame in hand is presented first, and a       *)
(* restart that follows discards it.                                         *)
Joined(c, st, raised, sent) ==
    Outcome([c EXCEPT !.hand = FALSE], st, raised,
            IF c.hand /\ sent = "none" THEN "frame" ELSE sent)

(* VideoSourceService._start_pass; a thread that does not end makes it ERROR. *)
StartPass(c, sent) == {Joined(c, "PLAYING", FALSE, sent), Joined(c, "ERROR", FALSE, "none")}

VideoResume(c) ==
    IF c.state # "PAUSED" THEN Same(c)
    ELSE {Outcome(c, "PLAYING", FALSE, "none")} \cup StartPass(c, "restart")
VideoPlay(c) ==
    CASE c.state = "ERROR" -> {Outcome(c, c.state, TRUE, "none")}
      [] c.state = "PAUSED" -> VideoResume(c)
      [] c.state = "IDLE" -> StartPass(c, "none") \cup StartPass(c, "restart")
      [] OTHER -> Same(c)
VideoPause(c) == IF c.state = "PLAYING" THEN {Outcome(c, "PAUSED", FALSE, "none")} ELSE Same(c)

(* Mutant: a stopped video does not reset the outputs on its clock. *)
VideoStopSilently(c) == {Joined(c, "IDLE", FALSE, "none"), Joined(c, "ERROR", FALSE, "none")}

VideoStop(c) == {Joined(c, "IDLE", FALSE, "restart"), Joined(c, "ERROR", FALSE, "restart")}
VideoReload(c) == {Joined(c, "IDLE", FALSE, "restart"), Joined(c, "ERROR", TRUE, "restart")}

CameraResume(c) == IF c.state = "PAUSED" THEN {Outcome(c, "PLAYING", FALSE, "none")} ELSE Same(c)
CameraPlay(c) ==
    IF c.state \in {"PAUSED", "IDLE"} THEN {Outcome(c, "PLAYING", FALSE, "none")} ELSE Same(c)
CameraPause(c) == IF c.state \in Family THEN {Outcome(c, "PAUSED", FALSE, "none")} ELSE Same(c)
CameraHalt(c) == {Joined(c, "IDLE", FALSE, "restart")}

(* _FailedSource: playing it raises, whatever its state says. *)
FailedPlay(c) == {Outcome(c, c.state, TRUE, "none")}
FailedStop(c) == {Outcome(c, "IDLE", FALSE, "none")}
FailedReload(c) == {Outcome(c, "ERROR", FALSE, "none")}

(* The SourceController protocol. *)
ByKind(c, video, camera, failed) ==
    CASE c.kind = "video" -> video [] c.kind = "camera" -> camera [] OTHER -> failed
Does(op, c) ==
    CASE op = "play" -> ByKind(c, VideoPlay(c), CameraPlay(c), FailedPlay(c))
      [] op = "resume" -> ByKind(c, VideoResume(c), CameraResume(c), Same(c))
      [] op = "pause" -> ByKind(c, VideoPause(c), CameraPause(c), Same(c))
      [] op = "stop" -> ByKind(c, VideoStop(c), CameraHalt(c), FailedStop(c))
      [] op = "reload" -> ByKind(c, VideoReload(c), CameraHalt(c), FailedReload(c))

-----------------------------------------------------------------------------
(* What sources do by themselves. *)

Becomes(n, c, sent) ==
    /\ ctrl' = [ctrl EXCEPT ![<<n, sources[n]>>] = c]
    /\ mail' = [mail EXCEPT ![n] = Posted(@, sent)]
    /\ UNCHANGED <<state, plan, sources, interrupted, call, busy, sounding, stray>>

(* A source that stops by itself is no longer asked for, except during an    *)
(* activation: that goes by the states it read when it began.                *)
WithoutEnded(n) == IF call.op \in {"drain", "commit"} THEN asked ELSE asked \ {n}

(* A source checks that it is playing and goes on to read, open or present;  *)
(* what it does next it does without looking again.                          *)
Begin(n) ==
    /\ n \in Current /\ ~At(n).hand
    /\ At(n).state = "PLAYING" \/ (At(n).state = "RECONNECTING" /\ At(n).kind = "camera")
    /\ events < MaxEvents /\ events' = events + 1
    /\ UNCHANGED asked
    /\ Becomes(n, [At(n) EXCEPT !.hand = TRUE], "none")

Present(n) ==
    /\ n \in Current /\ At(n).hand /\ At(n).state # "RECONNECTING"
    /\ UNCHANGED <<asked, events>>
    /\ Becomes(n, [At(n) EXCEPT !.hand = FALSE], "frame")

(* A video comes to its end, also while it is paused. *)
End(n) ==
    /\ n \in Current /\ At(n).kind = "video" /\ ~At(n).hand
    /\ At(n).state \in {"PLAYING", "PAUSED"}
    /\ asked' = WithoutEnded(n) /\ UNCHANGED events
    /\ Becomes(n, [At(n) EXCEPT !.state = "IDLE"], "ended")

(* The decoder gives up.  Whether the outputs are reset depends on whether a *)
(* decoded frame was still to be presented.                                  *)
Fail(n) ==
    /\ n \in Current /\ At(n).kind = "video" /\ At(n).state \in {"PLAYING", "PAUSED"}
    /\ asked' = WithoutEnded(n) /\ UNCHANGED events
    /\ \E sent \in IF At(n).hand THEN {"none"} ELSE {"none", "ended"} :
        Becomes(n, [At(n) EXCEPT !.state = "ERROR"], sent)

(* _handle_disconnect, with and without reconnect_automatically. *)
Disconnect(n) ==
    /\ n \in Current /\ At(n).kind = "camera" /\ At(n).hand
    /\ UNCHANGED events
    /\ \E st \in {"RECONNECTING", "IDLE"} :
        /\ asked' = IF st = "IDLE" THEN WithoutEnded(n) ELSE asked \cup {n}
        /\ Becomes(n, [At(n) EXCEPT !.state = st, !.hand = FALSE], "outage")

(* The device is open again; a pause that came meanwhile is forgotten. *)
Opened(n) ==
    /\ n \in Current /\ At(n).kind = "camera" /\ At(n).hand
    /\ asked' = asked \cup {n} /\ UNCHANGED events
    /\ \E sent \in {"none", "restart"} :
        Becomes(n, [At(n) EXCEPT !.state = "PLAYING", !.hand = FALSE], sent)

-----------------------------------------------------------------------------
(* Transport commands. *)

(* _ensure_open, and the lock. *)
Enter == call = Idle /\ state # "CLOSED" /\ events < MaxEvents /\ events' = events + 1

(* _selected_sources *)
Selections == {Current} \cup {{n} : n \in Current}

(* Outcomes of one operation over the selected sources in order: it stops at *)
(* the first that raises.                                                    *)
Applied(sel, out) == {n \in sel : \A m \in sel : m < n => ~out[m].raised}
Raised(sel, out) == \E n \in sel : out[n].raised

Outcomes(sel, op) ==
    {out \in [sel -> UNION {Does(op, At(n)) : n \in sel}] :
        \A n \in sel : out[n] \in Does(op, At(n))}

CtrlAfter(done, out) ==
    [s \in Slots |-> IF s \in {<<n, sources[n]>> : n \in done} THEN out[s[1]].ctrl ELSE ctrl[s]]
MailAfter(done, out) ==
    [n \in Nodes |-> IF n \in done THEN Posted(mail[n], out[n].sent) ELSE mail[n]]

(* _refresh_transport_state *)
Aggregate(states) ==
    CASE states \cap Family # {} -> "RUNNING"
      [] states \cap Family = {} /\ "PAUSED" \in states -> "PAUSED"
      [] OTHER -> "STOPPED"
Refreshed(srcs, ctl) == Aggregate({ctl[s].state : s \in SlotsOf(srcs)})

Play ==
    /\ Enter
    /\ \E sel \in Selections : \E out \in Outcomes(sel, "play") :
        LET done == Applied(sel, out)
        IN  /\ ctrl' = CtrlAfter(done, out) /\ mail' = MailAfter(done, out)
            /\ asked' = asked \cup {n \in done : ~out[n].raised}
            /\ state' = IF Raised(sel, out) THEN state ELSE Refreshed(sources, ctrl')
    /\ UNCHANGED <<plan, sources, interrupted, call, busy, sounding, stray>>

Resume ==
    /\ Enter
    /\ \E sel \in Selections : \E out \in Outcomes(sel, "resume") :
        /\ ctrl' = CtrlAfter(sel, out) /\ mail' = MailAfter(sel, out)
        /\ asked' = asked \cup {n \in sel : out[n].ctrl.state \in Family}
        /\ state' = Refreshed(sources, ctrl')
    /\ UNCHANGED <<plan, sources, interrupted, call, busy, sounding, stray>>

(* EngineFacade.panic: an output that does not answer in time raises, and    *)
(* the outputs after it are not told.  A tick in execution is stale for      *)
(* those that were.                                                          *)
PanicOutcomes ==
    {[quiet |-> Nodes, raised |-> FALSE]}
        \cup {[quiet |-> {m \in Nodes : m <= n}, raised |-> TRUE] : n \in DOMAIN plan}
Panicked(quiet) ==
    /\ sounding' = sounding \ quiet
    /\ busy' = IF busy # Idle /\ busy.node \in quiet THEN [busy EXCEPT !.stale = TRUE] ELSE busy

Pause ==
    /\ Enter
    /\ \E sel \in Selections : \E out \in Outcomes(sel, "pause") :
        /\ ctrl' = CtrlAfter(sel, out) /\ mail' = MailAfter(sel, out)
        /\ asked' = asked \ sel
    /\ state' = Refreshed(sources, ctrl')
    /\ call' = IF state' # "RUNNING" THEN [op |-> "pause"] ELSE Idle
    /\ UNCHANGED <<plan, sources, interrupted, busy, sounding, stray>>

(* wait_until_idle returned, with or without success; then the panic. *)
PausePanic ==
    /\ call = [op |-> "pause"]
    /\ call' = Idle
    /\ \E panic \in PanicOutcomes : Panicked(panic.quiet)
    /\ UNCHANGED <<state, plan, sources, ctrl, interrupted, mail, asked, stray, events>>

(* stop and reload: the panic comes only with the command for every source,  *)
(* and if it raises, or a reload does, the state is not refreshed.           *)
Halt(op) ==
    /\ Enter
    /\ \E sel \in Selections, all \in BOOLEAN : \E out \in Outcomes(sel, op) :
        LET done == Applied(sel, out)
        IN  /\ all => sel = Current
            /\ ~all => \E n \in Current : sel = {n}
            /\ ctrl' = CtrlAfter(done, out) /\ mail' = MailAfter(done, out)
            /\ asked' = asked \ done
            /\ IF all /\ ~Raised(sel, out)
               THEN \E panic \in PanicOutcomes :
                        /\ Panicked(panic.quiet)
                        /\ state' = IF panic.raised THEN state ELSE Refreshed(sources, ctrl')
               ELSE /\ UNCHANGED <<busy, sounding>>
                    /\ state' = IF Raised(sel, out) THEN state ELSE Refreshed(sources, ctrl')
    /\ UNCHANGED <<plan, sources, interrupted, call, stray>>

Stop == Halt("stop")
Reload == Halt("reload")

PanicCall ==
    /\ Enter
    /\ \E panic \in PanicOutcomes : Panicked(panic.quiet)
    /\ UNCHANGED <<state, plan, sources, ctrl, interrupted, call, mail, asked, stray>>

-----------------------------------------------------------------------------
(* Activation of a graph. *)

(* Mutant: a source is reused whatever its configuration. *)
ReusableByNode(p, preserve) == {n \in DOMAIN p \cap DOMAIN plan : preserve}

(* _reusable_source_ids: same node, same state retention key, and the reason  *)
(* is a replaced plan.                                                        *)
Reusable(p, preserve) ==
    {n \in DOMAIN p \cap DOMAIN plan : preserve /\ p[n].source = plan[n].source}

(* Scheduler.prepare_replacement and claim_borrowed_runtimes: an output keeps *)
(* its runtime, and its notes, if its own key and its source's are unchanged. *)
Retained(p, preserve) ==
    {n \in Reusable(p, preserve) : p[n].output = plan[n].output}

Slot(n) == IF n \in Current THEN 1 - sources[n] ELSE 0

(* Up to the wait: candidates are created, playing sources paused. *)
Activate ==
    /\ Enter
    /\ \E p \in Plans, preserve \in BOOLEAN :
        LET reusable == Reusable(p, preserve)
            fresh == DOMAIN p \ reusable
            swap == {n \in Current : At(n).state \in Family}
        IN  \E made \in [fresh -> UNION {Created(n, p[n].source) : n \in fresh}],
               out \in Outcomes(swap, "pause") :
                /\ \A n \in fresh : made[n] \in Created(n, p[n].source)
                /\ ctrl' = [s \in Slots |->
                        IF s[1] \in fresh /\ s[2] = Slot(s[1]) THEN made[s[1]]
                        ELSE CtrlAfter(swap, out)[s]]
                /\ call' = [op |-> "drain", plan |-> p, preserve |-> preserve,
                             sources |-> [n \in DOMAIN p |->
                                IF n \in reusable THEN sources[n] ELSE Slot(n)],
                             old |-> [n \in Current |-> At(n).state]]
    /\ UNCHANGED <<state, plan, sources, interrupted, mail, busy, sounding, asked, stray>>

Fresh == {n \in DOMAIN call.plan : n \notin Reusable(call.plan, call.preserve)}
WasPlaying == {n \in DOMAIN call.old : call.old[n] \in Family}

Drained ==
    /\ call.op = "drain" /\ WorkerIdle
    /\ call' = [call EXCEPT !.op = "commit"]
    /\ UNCHANGED <<state, plan, sources, ctrl, interrupted, mail, busy, sounding, asked, stray, events>>

(* The worker is not idle in time: what was paused is resumed and the        *)
(* candidates are disposed of.                                               *)
TimedOut ==
    /\ call.op = "drain" /\ ~WorkerIdle
    /\ \E out \in Outcomes(WasPlaying, "resume") :
        /\ ctrl' = [s \in Slots |->
                IF s \in {<<n, call.sources[n]>> : n \in Fresh} THEN Closed
                ELSE CtrlAfter(WasPlaying, out)[s]]
        /\ mail' = MailAfter(WasPlaying, out)
    /\ call' = Idle
    /\ UNCHANGED <<state, plan, sources, interrupted, busy, sounding, asked, stray, events>>

(* Mutant: only what a stop without signal interrupted is set going again. *)
RestartedInterrupted == interrupted

(* Which sources the swap sets going again, and how: those that were playing *)
(* if the engine is running, and those a stop without signal interrupted.    *)
Restarted == (IF state = "RUNNING" THEN WasPlaying ELSE {}) \cup interrupted
RestartSource(n, c) == Does(IF n \in Fresh THEN "play" ELSE "resume", c)

(* The swap: facade.commit, then the old sources are closed (a frame in hand *)
(* is presented first) and the ones that were playing go on.                 *)
Commit ==
    /\ call.op = "commit"
    /\ LET p == call.plan
           srcs == call.sources
           kept == Retained(p, call.preserve)
           gone == {n \in Current : n \notin DOMAIN p \/ n \in Fresh}
           go == Restarted \cap DOMAIN p
           late == [n \in Nodes |-> IF n \in gone /\ At(n).hand THEN Posted(mail[n], "frame")
                                    ELSE mail[n]]
       IN  \E out \in [go -> UNION {RestartSource(n, ctrl[<<n, srcs[n]>>]) : n \in go}] :
            /\ \A n \in go : out[n] \in RestartSource(n, ctrl[<<n, srcs[n]>>])
            /\ ctrl' = [s \in Slots |->
                    IF s \in {<<n, srcs[n]>> : n \in go} THEN out[s[1]].ctrl
                    ELSE IF s \in {<<n, sources[n]>> : n \in gone} THEN Closed ELSE ctrl[s]]
            /\ mail' = [n \in Nodes |-> IF n \in go THEN Posted(late[n], out[n].sent) ELSE late[n]]
            /\ plan' = p /\ sources' = srcs
            /\ sounding' = sounding \cap kept
            /\ busy' = IF busy # Idle /\ busy.node \notin kept
                       THEN [busy EXCEPT !.stale = TRUE] ELSE busy
            /\ state' = IF interrupted # {} THEN Refreshed(srcs, ctrl') ELSE state
            /\ interrupted' = {}
            /\ asked' = asked \cap DOMAIN p
            /\ stray' = stray \cup {n \in gone : late[n] # <<>>}
    /\ call' = Idle
    /\ UNCHANGED events

(* What is to play again; a second stop in a row keeps the memory. *)
Remembered ==
    IF Current # {} THEN {n \in Current : At(n).state \in Family} ELSE interrupted

(* _stop_runtime_without_signal: no plan, or none with a source. *)
StopWithoutSignal ==
    /\ Enter
    /\ interrupted' = Remembered
    /\ state' = "STOPPED"
    /\ plan' = NoFun /\ sources' = NoFun
    /\ ctrl' = [s \in Slots |-> IF s \in SlotsOf(sources) THEN Closed ELSE ctrl[s]]
    /\ mail' = [n \in Nodes |-> <<>>] /\ busy' = Idle /\ sounding' = {} /\ stray' = {}
    /\ UNCHANGED <<call, asked>>

Close ==
    /\ call = Idle /\ state # "CLOSED"
    /\ state' = "CLOSED" /\ interrupted' = {}
    /\ plan' = NoFun /\ sources' = NoFun
    /\ ctrl' = [s \in Slots |-> IF s \in SlotsOf(sources) THEN Closed ELSE ctrl[s]]
    /\ mail' = [n \in Nodes |-> <<>>] /\ busy' = Idle /\ sounding' = {} /\ stray' = {}
    /\ asked' = {}
    /\ UNCHANGED <<call, events>>

-----------------------------------------------------------------------------
Worker == Finish \/ \E n \in Nodes : Take(n)
Source(n) == Begin(n) \/ Present(n) \/ End(n) \/ Fail(n) \/ Disconnect(n) \/ Opened(n)
Body == \/ Play \/ Resume \/ Pause \/ PausePanic \/ Stop \/ Reload \/ PanicCall
        \/ Activate \/ Drained \/ TimedOut \/ Commit \/ StopWithoutSignal \/ Close

Next == Worker \/ (\E n \in Nodes : Source(n)) \/ Body

Spec == Init /\ [][Next]_vars

-----------------------------------------------------------------------------
(* The variables have their types, and a source has at most one tick queued   *)
(* between two resets.                                                        *)
TypeOK ==
    /\ state \in {"STOPPED", "PAUSED", "RUNNING", "CLOSED"}
    /\ plan \in Plans \cup {NoFun}
    /\ Current \subseteq Nodes /\ \A n \in Current : sources[n] \in {0, 1}
    /\ ctrl \in [Slots -> Controller]
    /\ interrupted \subseteq Nodes /\ sounding \subseteq Nodes /\ asked \subseteq Nodes
    /\ call.op \in {"none", "pause", "drain", "commit"}
    /\ \A n \in Nodes :
        /\ mail[n] \in Seq({"frame", "outage", "restart", "ended"})
        /\ \A i \in 1..Len(mail[n]) - 1 : IsTick(mail[n][i]) => ~IsTick(mail[n][i + 1])
    /\ busy # Idle => busy.node \in Nodes
    /\ events \in 0..MaxEvents

(* Between calls the sources are those of the active plan, open, and run the *)
(* configuration the plan has for them (a reused controller never has an     *)
(* outdated one, and a failed activation leaves the old ones in place), and  *)
(* every other controller is closed, else its threads, files and devices     *)
(* would be held for ever.  The body starts nothing the user did not start:  *)
(* a source that plays was last asked to play, and neither a swap nor the    *)
(* replay after a stop without signal starts one that was paused, stopped or *)
(* had ended (EngineBody.activate, ADR-0020).                                *)
SourcesFollowPlan ==
    /\ call.op \in {"none", "pause"} =>
        /\ Current = DOMAIN plan
        /\ \A n \in Current : At(n).state # "CLOSED" /\ At(n).config = plan[n].source
        /\ \A s \in Slots \ SlotsOf(sources) : ctrl[s].state = "CLOSED"
    /\ \A n \in Current : At(n).state \in Family => n \in asked

(* Between commands of the worker and of the body, notes sound only for a    *)
(* source that plays, is paused or has failed: stop, end of stream, removal  *)
(* and replacement of a source all silence the outputs it drove.  Left out    *)
(* are outputs set by the last frame of a source that was being replaced.    *)
OnlyLiveSourcesSound ==
    call = Idle /\ WorkerIdle =>
        \A n \in sounding \ stray : n \in Current /\ At(n).state \in Family \cup {"PAUSED", "ERROR"}

(* An activation pauses playing sources and sets them going again: when it   *)
(* ends, well if the engine was running or by a timeout, no source that      *)
(* played is left paused, and one that was replaced plays or has failed.     *)
PlayingSurvivesSwap ==
    [][(call.op \in {"drain", "commit"} /\ call' = Idle)
            /\ (state = "RUNNING" \/ call.op = "drain") =>
        \A n \in WasPlaying \cap DOMAIN sources' :
            /\ At(n)'.state # "PAUSED"
            /\ sources'[n] # sources[n] => At(n)'.state \in Family \cup {"ERROR"}]_vars

=============================================================================
