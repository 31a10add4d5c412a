----------------------------- MODULE VideoSource -----------------------------
(***************************************************************************)
(* A video source (media/video_source.py): the transport calls of the      *)
(* engine, a decode thread that fills a bounded queue, a presentation      *)
(* thread that empties it at the frames' times, and, for a loop, a head    *)
(* thread that decodes the first frames of the region ahead of time.       *)
(*                                                                         *)
(* The played region is the frames 0..Last; a frame is known by its time   *)
(* and its index in the pass that decoded it.  A target of Last + 1 is the *)
(* end of the region.  Time is abstracted: a frame is due whenever the     *)
(* source plays.  Calls come one at a time, the engine body holds a lock.  *)
(***************************************************************************)
EXTENDS Integers, Sequences

CONSTANTS Last,         \* last frame of the region
          QueueSize,    \* decode_queue_size
          HeadBudget,   \* frames pre-decoded for a loop
          MaxCalls      \* bound on transport calls

ASSUME VideoAssumption ==
    /\ Last \in Nat /\ MaxCalls \in Nat
    /\ QueueSize \in Nat \ {0} /\ HeadBudget \in Nat \ {0}

VARIABLES loop,      \* the node's loop parameter
          state,     \* SourceState
          stop,      \* _stop_event
          seek,      \* the latest seek: its target, whether the decode thread
                     \* (event) and the presentation thread (fresh) have yet to
                     \* take it, and the time below which frames are dropped
          passStart, \* _pass_start_s
          queue,     \* _decode_queue
          head,      \* [staged, inUse, trigger]: the loop head
          dec,       \* the decode thread
          pre,       \* the presentation thread
          hd,        \* the head thread
          call,      \* the transport call that waits for the threads
          calls,     \* calls made so far
          sent,      \* what the source sent last: a frame or a reset
          next,      \* the frame to present if the region plays without gaps
          trouble    \* what disturbed the pass: "none", a "pause", or a "break"
                     \* (a seek or a failure), after which next says nothing

vars == <<loop, state, stop, seek, passStart, queue, head, dec, pre, hd, call, calls,
          sent, next, trouble>>

Nil == -1
END == [signal |-> "END"]
LOOP == [signal |-> "LOOP"]
Frame(at, base) == [signal |-> "frame", pts |-> at, index |-> at - base]
NoSeek == [event |-> FALSE, fresh |-> FALSE, target |-> 0, filter |-> Nil]
NoThread == [pc |-> "none"]
NoHead == [staged |-> <<>>, inUse |-> FALSE, trigger |-> FALSE]

Init ==
    /\ loop \in BOOLEAN
    /\ state = "READY" /\ stop = FALSE
    /\ seek = NoSeek
    /\ passStart = 0 /\ queue = <<>> /\ head = NoHead
    /\ dec = NoThread /\ pre = NoThread /\ hd = "none"
    /\ call = [op |-> "none"] /\ calls = 0
    /\ sent = "reset" /\ next = 0 /\ trouble = "none"

-----------------------------------------------------------------------------
(* A seek or a failure. *)
Broken == trouble' = "break" /\ next' = 0

(* The decode thread: _decode_loop, _decode_once and run_region_pass. *)

Decoding == <<loop, state, stop, head, pre, hd, call, calls, sent, next>>

(* A pass begins at start.  A start at the end of the region has no frame.   *)
Begun(start) == [dec EXCEPT !.pc = IF start > Last THEN "after" ELSE "run",
                            !.at = start, !.base = start, !.any = FALSE]

(* A pass begins, at the target of a seek if one is pending: the target is   *)
(* read first and the event cleared after it.                                *)
DecodeBegin ==
    /\ dec.pc = "top"
    /\ dec' = CASE stop -> NoThread
                [] ~stop /\ seek.event -> [dec EXCEPT !.pc = "consume", !.at = seek.target]
                [] OTHER -> Begun(passStart)
    /\ UNCHANGED <<seek, passStart, queue, trouble>> /\ UNCHANGED Decoding

DecodeConsume ==
    /\ dec.pc = "consume"
    /\ seek' = [seek EXCEPT !.event = FALSE, !.target = 0]
    /\ dec' = Begun(dec.at)
    /\ UNCHANGED <<passStart, queue, trouble>> /\ UNCHANGED Decoding

(* The decoder yields the next frame, unless a stop or a seek interrupts.    *)
DecodeFrame ==
    /\ dec.pc = "run"
    /\ dec' = IF dec.at > Last \/ stop \/ seek.event THEN [dec EXCEPT !.pc = "after"]
              ELSE [dec EXCEPT !.pc = "put", !.any = TRUE]
    /\ UNCHANGED <<seek, passStart, queue, trouble>> /\ UNCHANGED Decoding

(* The decoder raises: the pass is tried again from its start or, after too  *)
(* many failures in a row (how many is left open), the source fails.  A      *)
(* thread that outlived its pass commits nothing.                            *)
DecodeRaises ==
    /\ dec.pc = "run"
    /\ \/ dec' = [dec EXCEPT !.pc = "top", !.at = 0, !.base = 0] /\ UNCHANGED state
       \/ /\ dec' = [dec EXCEPT !.pc = "end", !.at = 0, !.base = 0]
          /\ state' = IF dec.old THEN state ELSE "ERROR"
    /\ Broken
    /\ UNCHANGED <<loop, stop, seek, passStart, queue, head, pre, hd, call, calls, sent>>

(* _queue_put: blocks while the queue is full, gives up on a stop only. *)
CanPut == stop \/ Len(queue) < QueueSize
Put(item) == queue' = IF stop THEN queue ELSE Append(queue, item)

DecodePut ==
    /\ dec.pc = "put" /\ CanPut
    /\ Put(Frame(dec.at, dec.base))
    /\ dec' = IF stop THEN [dec EXCEPT !.pc = "after"] ELSE [dec EXCEPT !.pc = "run", !.at = @ + 1]
    /\ UNCHANGED <<seek, passStart, trouble>> /\ UNCHANGED Decoding

(* A pass is over. *)
DecodeAfter ==
    /\ dec.pc = "after"
    /\ LET idle == [dec EXCEPT !.at = 0, !.base = 0]
       IN  dec' = CASE stop -> NoThread
                    [] ~stop /\ seek.event -> [idle EXCEPT !.pc = "top"]
                    [] ~stop /\ ~seek.event /\ (~loop \/ ~dec.any) -> [idle EXCEPT !.pc = "end"]
                    [] OTHER -> [idle EXCEPT !.pc = "loop"]
    /\ passStart' = IF dec'.pc = "loop" THEN 0 ELSE passStart
    /\ UNCHANGED <<seek, queue, trouble>> /\ UNCHANGED Decoding

(* Mutant of DecodeEnd: the end is dropped when the queue is full. *)
DecodeEndUnlessFull ==
    /\ dec.pc = "end"
    /\ queue' = IF stop \/ Len(queue) = QueueSize THEN queue ELSE Append(queue, END)
    /\ dec' = NoThread
    /\ UNCHANGED <<seek, passStart, trouble>> /\ UNCHANGED Decoding

DecodeEnd ==
    /\ dec.pc = "end" /\ CanPut
    /\ Put(END) /\ dec' = NoThread
    /\ UNCHANGED <<seek, passStart, trouble>> /\ UNCHANGED Decoding

DecodeLoop ==
    /\ dec.pc = "loop" /\ CanPut
    /\ Put(LOOP) /\ dec' = IF stop THEN NoThread ELSE [dec EXCEPT !.pc = "top"]
    /\ UNCHANGED <<seek, passStart, trouble>> /\ UNCHANGED Decoding

Decode == DecodeBegin \/ DecodeConsume \/ DecodeFrame \/ DecodePut \/ DecodeAfter \/ DecodeEnd \/ DecodeLoop

-----------------------------------------------------------------------------
(* The head thread: _head_loop. *)

HeadUnchanged == UNCHANGED <<loop, state, stop, seek, passStart, queue, dec, pre, call, calls,
                             sent, next, trouble>>

HeadExit ==
    /\ hd \in {"wait", "swap"} /\ stop
    /\ hd' = "none" /\ UNCHANGED head /\ HeadUnchanged

HeadTriggered ==
    /\ hd = "wait" /\ ~stop /\ head.trigger
    /\ head' = [head EXCEPT !.trigger = FALSE]
    /\ hd' = "stage" /\ HeadUnchanged

(* The first frames of the region are decoded, or the decoder raises. *)
HeadStage ==
    /\ hd = "stage"
    /\ hd' \in {"swap", "wait"}
    /\ UNCHANGED head /\ HeadUnchanged

(* The fresh head replaces the old one when that is not being consumed; the  *)
(* thread does not wait for this for ever.                                   *)
FreshHead == [i \in 1..(IF HeadBudget <= Last THEN HeadBudget ELSE Last + 1) |-> Frame(i - 1, 0)]

HeadSwap ==
    /\ hd = "swap" /\ ~stop /\ ~head.inUse
    /\ hd' = "wait"
    /\ head' = [head EXCEPT !.staged = FreshHead]
    /\ HeadUnchanged

HeadGiveUp ==
    /\ hd = "swap" /\ ~stop /\ head.inUse
    /\ hd' = "wait" /\ UNCHANGED head /\ HeadUnchanged

StageHead == HeadExit \/ HeadTriggered \/ HeadStage \/ HeadSwap

-----------------------------------------------------------------------------
(* The presentation thread: _presentation_loop. *)

Presenting == <<loop, stop, passStart, dec, hd, call, calls, trouble>>

(* A seek is claimed once, whatever the decode thread did with its event. *)
ClaimSeek ==
    /\ pre.pc = "top"
    /\ pre' = CASE stop -> NoThread
                [] ~stop /\ seek.fresh -> [pre EXCEPT !.pc = "apply", !.using = FALSE, !.upto = Nil]
                [] OTHER -> [pre EXCEPT !.pc = "pick"]
    /\ seek' = IF stop THEN seek ELSE [seek EXCEPT !.fresh = FALSE]
    /\ UNCHANGED <<state, queue, head, sent, next>> /\ UNCHANGED Presenting

(* _apply_seek empties the queue, item by item, and publishes a reset. *)
ApplySeek ==
    /\ pre.pc = "apply"
    /\ IF queue # <<>>
       THEN queue' = Tail(queue) /\ UNCHANGED <<head, pre, sent>>
       ELSE /\ head' = [head EXCEPT !.inUse = FALSE]
            /\ pre' = [pre EXCEPT !.pc = "pick"]
            /\ sent' = "reset" /\ UNCHANGED queue
    /\ UNCHANGED <<state, seek, next>> /\ UNCHANGED Presenting

(* _passes_seek_filter: the first frame that passes ends the filter. *)
Passes(item) == seek.filter = Nil \/ item.pts >= seek.filter
Offer(item) ==
    /\ pre' = IF Passes(item) THEN [pre EXCEPT !.pc = "due", !.item = item]
              ELSE [pre EXCEPT !.pc = "top"]
    /\ seek' = IF Passes(item) THEN [seek EXCEPT !.filter = Nil] ELSE seek

(* The head is served before the queue. *)
PickHead ==
    /\ pre.pc = "pick" /\ pre.using /\ head.staged # <<>>
    /\ head' = [head EXCEPT !.staged = Tail(@)]
    /\ Offer(Head(head.staged))
    /\ UNCHANGED <<state, queue, sent, next>> /\ UNCHANGED Presenting

HeadDrained ==
    /\ pre.pc = "pick" /\ pre.using /\ head.staged = <<>>
    /\ pre' = [pre EXCEPT !.using = FALSE]
    /\ head' = [head EXCEPT !.inUse = FALSE, !.trigger = TRUE]
    /\ UNCHANGED <<state, seek, queue, sent, next>> /\ UNCHANGED Presenting

(* Nothing arrives within the time-out. *)
PickNothing ==
    /\ pre.pc = "pick" /\ ~pre.using /\ queue = <<>>
    /\ pre' = [pre EXCEPT !.pc = "top"]
    /\ UNCHANGED <<state, seek, queue, head, sent, next>> /\ UNCHANGED Presenting

Picks(signal) ==
    /\ pre.pc = "pick" /\ ~pre.using /\ queue # <<>>
    /\ Head(queue).signal = signal
    /\ queue' = Tail(queue)

PickEnd ==
    /\ Picks("END")
    /\ state' = IF state \in {"CLOSED", "ERROR"} THEN state ELSE "ENDED"
    /\ head' = [head EXCEPT !.inUse = FALSE]
    /\ pre' = [pre EXCEPT !.pc = "ended"]
    /\ UNCHANGED <<seek, sent, next>> /\ UNCHANGED Presenting

(* SOURCE_ENDED is published after the state is committed. *)
PublishEnded ==
    /\ pre.pc = "ended"
    /\ sent' = "reset" /\ pre' = NoThread
    /\ UNCHANGED <<state, seek, queue, head, next>> /\ UNCHANGED Presenting

PickLoop ==
    /\ Picks("LOOP")
    /\ head' = [head EXCEPT !.inUse = TRUE, !.trigger = TRUE]
    /\ pre' = [pre EXCEPT !.pc = "top", !.using = TRUE, !.upto = Nil]
    /\ sent' = "reset" /\ next' = 0
    /\ UNCHANGED <<state, seek>> /\ UNCHANGED Presenting

(* Mutant of Duplicate: the last frame of the head is not dropped. *)
DuplicateButLast(item) == item.index < pre.upto

(* A frame that the head has already presented is dropped. *)
Duplicate(item) == item.index <= pre.upto

PickFrame ==
    /\ Picks("frame")
    /\ IF Duplicate(Head(queue)) THEN pre' = [pre EXCEPT !.pc = "top"] /\ UNCHANGED seek
       ELSE Offer(Head(queue))
    /\ UNCHANGED <<state, head, sent, next>> /\ UNCHANGED Presenting

(* _wait_until_due waits through a pause and leaves on any other state. *)
Due ==
    /\ pre.pc = "due"
    /\ stop \/ state # "PAUSED"
    /\ pre' = IF ~stop /\ state = "PLAYING" THEN [pre EXCEPT !.pc = "check"] ELSE NoThread
    /\ UNCHANGED <<state, seek, queue, head, sent, next>> /\ UNCHANGED Presenting

(* _present looks at the state again, and the thread ends if it changed. *)
CheckPlaying ==
    /\ pre.pc = "check"
    /\ pre' = IF ~stop /\ state = "PLAYING" THEN [pre EXCEPT !.pc = "publish"] ELSE NoThread
    /\ UNCHANGED <<state, seek, queue, head, sent, next>> /\ UNCHANGED Presenting

PublishFrame ==
    /\ pre.pc = "publish"
    /\ sent' = "frame" /\ next' = IF trouble = "break" THEN 0 ELSE pre.item.pts + 1
    /\ pre' = [pre EXCEPT !.pc = "top", !.item = Nil,
                          !.upto = IF pre.using /\ pre.item.index > @ THEN pre.item.index ELSE @]
    /\ UNCHANGED <<state, seek, queue, head>> /\ UNCHANGED Presenting

(* The callback raises. *)
PublishRaises ==
    /\ pre.pc = "publish"
    /\ state' = "ERROR" /\ stop' = TRUE /\ pre' = NoThread
    /\ Broken
    /\ UNCHANGED <<loop, seek, passStart, queue, head, dec, hd, call, calls, sent>>

Present == \/ ClaimSeek \/ ApplySeek \/ PickHead \/ HeadDrained \/ PickNothing \/ PickEnd
           \/ PublishEnded \/ PickLoop \/ PickFrame \/ Due \/ CheckPlaying \/ PublishFrame

-----------------------------------------------------------------------------
(* The transport calls.  A call that must join the threads sets the stop     *)
(* event and waits in call.  Calls that return or raise at once are left out. *)

Free == call.op = "none" /\ calls < MaxCalls
Working == <<loop, dec, pre, hd>>

(* _start_pass and _halt up to the join. *)
AskToStop(request) ==
    /\ stop' = TRUE /\ call' = request
    /\ UNCHANGED <<state, seek, passStart, queue, head, sent, next, trouble>> /\ UNCHANGED Working

Play ==
    /\ Free /\ state \in {"READY", "STOPPED", "ENDED"}
    /\ calls' = calls + 1
    /\ AskToStop([op |-> "start", restart |-> state = "ENDED"])

Pause ==
    /\ Free /\ state = "PLAYING"
    /\ calls' = calls + 1
    /\ state' = "PAUSED" /\ trouble' = IF trouble = "none" THEN "pause" ELSE trouble
    /\ UNCHANGED <<stop, seek, passStart, queue, head, call, sent, next>> /\ UNCHANGED Working

(* A seek made during the pause starts a new pass. *)
Resume ==
    /\ Free /\ state = "PAUSED"
    /\ calls' = calls + 1
    /\ IF seek.event THEN AskToStop([op |-> "start", restart |-> TRUE])
       ELSE /\ state' = "PLAYING"
            /\ UNCHANGED <<stop, seek, passStart, queue, head, call, sent, next, trouble>>
            /\ UNCHANGED Working

Stop == Free /\ state # "CLOSED" /\ calls' = calls + 1 /\ AskToStop([op |-> "stop"])
Reload == Free /\ state # "CLOSED" /\ calls' = calls + 1 /\ AskToStop([op |-> "reload"])
Close == Free /\ state # "CLOSED" /\ calls' = calls + 1 /\ AskToStop([op |-> "close"])

(* seek records the position under the lock and sets the event after it. *)
Seek(target) ==
    /\ Free /\ state # "CLOSED"
    /\ calls' = calls + 1 /\ call' = [op |-> "seek"]
    /\ seek' = [seek EXCEPT !.target = target, !.filter = target, !.fresh = TRUE]
    /\ Broken
    /\ UNCHANGED <<state, stop, passStart, queue, head, sent>> /\ UNCHANGED Working

SeekEvent ==
    /\ call.op = "seek"
    /\ seek' = [seek EXCEPT !.event = TRUE] /\ call' = [op |-> "none"]
    /\ UNCHANGED <<state, stop, passStart, queue, head, calls, sent, next, trouble>>
    /\ UNCHANGED Working

(* Mutant of Joined: the presentation thread is not joined. *)
JoinedDecoders == dec.pc = "none" /\ hd = "none"

(* _join_workers: the threads have ended, or those in a native call of the  *)
(* decoder are given up.                                                    *)
Joined == dec.pc = "none" /\ pre.pc = "none" /\ hd = "none"
Stuck == /\ dec.pc \in {"none", "run"} /\ pre.pc = "none" /\ hd \in {"none", "stage"}
         /\ ~Joined
Retired == IF dec.pc = "none" THEN dec ELSE [dec EXCEPT !.old = TRUE]

(* The rest of _start_pass. *)
Started ==
    /\ call.op = "start" /\ Joined
    /\ passStart' = IF seek.event /\ seek.target <= Last THEN seek.target ELSE 0
    /\ seek' = NoSeek
    /\ queue' = <<>> /\ stop' = FALSE /\ state' = "PLAYING"
    /\ head' = [NoHead EXCEPT !.trigger = loop]
    /\ dec' = [pc |-> "top", at |-> 0, base |-> 0, any |-> FALSE, old |-> FALSE]
    /\ pre' = [pc |-> "top", item |-> Nil, using |-> FALSE, upto |-> Nil]
    /\ hd' = IF loop THEN "wait" ELSE "none"
    /\ sent' = IF call.restart THEN "reset" ELSE sent
    /\ next' = passStart' /\ trouble' = "none"
    /\ call' = [op |-> "none"]
    /\ UNCHANGED <<loop, calls>>

StartStuck ==
    /\ call.op = "start" /\ Stuck
    /\ queue' = <<>> /\ state' = "ERROR" /\ dec' = Retired
    /\ call' = [op |-> "none"]
    /\ UNCHANGED <<loop, stop, seek, passStart, head, pre, hd, calls, sent, next, trouble>>

(* The rest of _halt, of stop and of reload, whose file may be unreadable.  *)
(* Only the end of a reload leaves a source with a surviving thread READY.  *)
HaltStates == CASE call.op = "reload" -> {"READY", "ERROR"}
                [] call.op = "close" -> {"CLOSED"}
                [] OTHER -> {IF Joined THEN "STOPPED" ELSE "ERROR"}

Halted ==
    /\ call.op \in {"stop", "reload", "close"} /\ (Joined \/ Stuck)
    /\ queue' = <<>> /\ head' = NoHead /\ dec' = Retired
    /\ seek' = [NoSeek EXCEPT !.fresh = seek.fresh]
    /\ state' \in HaltStates
    /\ sent' = IF call.op = "close" THEN sent ELSE "reset"
    /\ call' = [op |-> "none"]
    /\ UNCHANGED <<loop, stop, passStart, pre, hd, calls, next, trouble>>

Call == Play \/ Pause \/ Resume \/ Stop \/ Reload \/ Close \/ \E target \in 0..(Last + 1) : Seek(target)
Return == SeekEvent \/ Started \/ StartStuck \/ Halted

Next == Call \/ Return \/ Decode \/ DecodeRaises \/ StageHead \/ HeadGiveUp \/ Present \/ PublishRaises

(* Threads that can run do, and a call that can return returns.  Nothing     *)
(* makes the user call, the decoder raise or the head thread give up.        *)
Spec == Init /\ [][Next]_vars /\ WF_vars(Decode) /\ WF_vars(StageHead) /\ WF_vars(Present)
             /\ WF_vars(Return)

-----------------------------------------------------------------------------
(* The variables have their types. *)
TypeOK ==
    /\ loop \in BOOLEAN /\ stop \in BOOLEAN /\ calls \in 0..MaxCalls
    /\ state \in {"READY", "PLAYING", "PAUSED", "STOPPED", "ENDED", "ERROR", "CLOSED"}
    /\ seek \in [event : BOOLEAN, fresh : BOOLEAN, target : 0..(Last + 1), filter : Nil..(Last + 1)]
    /\ passStart \in 0..Last /\ next \in 0..(Last + 1)
    /\ Len(queue) <= QueueSize /\ Len(head.staged) <= HeadBudget
    /\ sent \in {"frame", "reset"} /\ trouble \in {"none", "pause", "break"}

(* Once a source ended or was stopped and its threads are gone, the last    *)
(* thing it sent is a reset: no frame comes after the reset that silences   *)
(* the outputs, whatever was queued, waiting or being published.            *)
ResetIsLast ==
    (state \in {"ENDED", "STOPPED", "READY"} /\ call.op = "none" /\ pre.pc = "none")
        => sent = "reset"

(* Without a seek or a failure every pass presents every frame of the region *)
(* once and in order, whatever the interleaving of the live pass, the staged *)
(* head and the pauses; only then it loops or ends, and a loop never ends.   *)
GaplessPasses ==
    [][trouble # "break" =>
         /\ (pre.pc = "publish" /\ sent' = "frame" /\ pre'.pc = "top") => pre.item.pts = next
         /\ PickLoop => next = Last + 1
         /\ PickEnd => next = Last + 1 /\ ~loop]_vars

(* What a call committed stays until the next call: a thread that outlived   *)
(* its pass changes no state.                                                *)
ThreadsDoNotCommit ==
    [][(state \in {"READY", "STOPPED", "ENDED", "CLOSED"} /\ state' # state) => call.op # "none"]_vars

(* Every pass is whole and in order, and its threads leave the state of a    *)
(* source that has ended or was stopped alone.                               *)
PassesAreOrderly == GaplessPasses /\ ThreadsDoNotCommit

(* A playing source is attended until it is disturbed: its presentation      *)
(* thread lives, and the end of the pass is queued if its decode thread has  *)
(* gone, so that it cannot stay PLAYING with nothing left to do.             *)
PlayingIsAttended ==
    (state = "PLAYING" /\ trouble = "none" /\ call.op = "none") =>
        /\ pre.pc # "none"
        /\ dec.pc = "none" => queue # <<>> /\ queue[Len(queue)] = END

(* A seek of a playing source takes effect: the decode thread takes it, or   *)
(* playing ends first.                                                       *)
SeekTakesEffect == (state = "PLAYING" /\ seek.event) ~> (state # "PLAYING" \/ ~seek.event)

=============================================================================
