---------------------------- MODULE EngineProofs ----------------------------
(***************************************************************************)
(* Proofs about the engine body and the scheduler it commits.              *)
(*                                                                         *)
(* The first part is about the engine body, for any nodes and plans and    *)
(* any number of events: through activations that succeed, fail or time    *)
(* out, transport calls in any order and everything the sources do of      *)
(* themselves, the sources are those of the active plan, what sounds has a *)
(* live source or is about to be silenced, and a swap that succeeds keeps  *)
(* playing what was playing.                                               *)
(*                                                                         *)
(* The second part is about the ownership of runtimes for any plans whose  *)
(* keys are those of the compiler: through any number of preparations,     *)
(* commits, refusals and stops, what is open is what the active and the    *)
(* prepared scheduler own, and a runtime that is kept has one origin.      *)
(***************************************************************************)
EXTENDS EngineBody, Scheduler, TLAPS

Ticks == {"frame", "outage"}
Resets == {"restart", "ended"}
Commands == Ticks \cup Resets

\* What the three kinds of controllers can be like: a failed source has no
\* threads, and nothing is in hand where they have been joined.
Proper ==
  {c \in Controller :
    /\ c.kind = "video" => c.state # "RECONNECTING"
    /\ c.kind = "failed" => c.state \in {"IDLE", "ERROR", "CLOSED"} /\ ~c.hand
    /\ c.state \in {"IDLE", "CLOSED"} => ~c.hand}

Alternates(queue) == \A i \in 1..Len(queue) - 1 : IsTick(queue[i]) => ~IsTick(queue[i + 1])

\* An activation that waits for the worker, or is about to swap.
Swapping == call.op \in {"drain", "commit"}
Swaps ==
  [op : {"drain", "commit"}, plan : Plans, preserve : BOOLEAN,
   sources : UNION {[ns -> {0, 1}] : ns \in SUBSET Nodes}, old : [DOMAIN plan -> SourceStates]]
Swap(c) ==
  /\ c \in Swaps
  /\ c.sources \in [DOMAIN c.plan -> {0, 1}]

Types ==
  /\ state \in {"STOPPED", "PAUSED", "RUNNING", "CLOSED"} /\ events \in 0..MaxEvents
  /\ plan \in Plans \cup {NoFun} /\ sources \in [DOMAIN plan -> {0, 1}]
  /\ ctrl \in [Slots -> Proper]
  /\ interrupted \subseteq Nodes /\ asked \subseteq Nodes
  /\ sounding \subseteq Nodes
  /\ call \in {Idle, [op |-> "pause"]} \/ Swap(call)
  /\ mail \in [Nodes -> Seq(Commands)] /\ \A n \in Nodes : Alternates(mail[n])
  /\ busy \in {Idle} \cup [op : Commands, node : Nodes, stale : BOOLEAN]

\* The sources of the plan run its configurations; every other slot is free but
\* those of the candidates of a swap.
FreshSlots == {<<n, call.sources[n]>> : n \in Fresh}
Follows ==
  /\ \A n \in DOMAIN plan : At(n).state # "CLOSED" /\ At(n).config = plan[n].source
  /\ \A s \in Slots \ SlotsOf(sources) :
       ctrl[s].state = "CLOSED" \/ (Swapping /\ s \in FreshSlots)
  /\ Swapping =>
       /\ \A n \in Fresh :
            /\ n \in DOMAIN sources => call.sources[n] # sources[n]
            /\ ctrl[<<n, call.sources[n]>>] \in Created(n, call.plan[n].source)
       /\ \A n \in DOMAIN call.plan \ Fresh :
            /\ n \in DOMAIN plan /\ plan[n].source = call.plan[n].source
            /\ call.sources[n] = sources[n]

\* What plays, or is to play again, was asked to.
PlaysIfAsked ==
  /\ \A n \in DOMAIN plan : At(n).state \in Family => n \in asked
  /\ interrupted \subseteq asked /\ (interrupted # {} => plan = NoFun)
  /\ Swapping => WasPlaying \subseteq asked

\* A source whose notes may sound.
Alive(c) == c.kind # "failed" /\ c.state \in Family \cup {"PAUSED", "ERROR"}

\* The commands of a node leave its output silent: the last of them is no
\* frame, or none is left and the output is silent already.
InHand(n) == busy # Idle /\ busy.node = n
Quiets(n) ==
  IF mail[n] # <<>> THEN mail[n][Len(mail[n])] # "frame"
  ELSE IF InHand(n) THEN busy.op # "frame" \/ (busy.stale /\ n \notin sounding)
  ELSE n \notin sounding
Gone(n) == mail[n] = <<>> /\ n \notin sounding /\ (InHand(n) => busy.stale)
Silenced(n) ==
  \/ n \in stray
  \/ n \in DOMAIN plan /\ (Alive(At(n)) \/ Quiets(n))
  \/ n \notin DOMAIN plan /\ Gone(n)
Silences == \A n \in Nodes : Silenced(n)

BodyInv == Types /\ Follows /\ PlaysIfAsked /\ Silences

-----------------------------------------------------------------------------
LEMMA CurrentIsPlan ==
  ASSUME Types
  PROVE  /\ Current = DOMAIN plan /\ DOMAIN plan \subseteq Nodes
         /\ \A n \in DOMAIN plan : <<n, sources[n]>> \in Slots /\ At(n) \in Proper
         /\ \A n \in DOMAIN plan : <<n, sources[n]>> \in SlotsOf(sources)
         /\ \A s \in SlotsOf(sources) :
              s \in Slots /\ s[1] \in DOMAIN plan /\ s = <<s[1], sources[s[1]]>>
<1>1. Current = DOMAIN plan /\ sources \in [DOMAIN plan -> {0, 1}]
  BY DEF Types, Current
<1>2. DOMAIN plan \subseteq Nodes
  BY EngineAssumption DEF Types, NoFun
<1>3. \A n \in DOMAIN plan : <<n, sources[n]>> \in Slots
  BY <1>1, <1>2 DEF Slots
<1>4. \A n \in DOMAIN plan : At(n) \in Proper
  BY <1>3 DEF Types, At
<1>5. \A n \in DOMAIN plan : <<n, sources[n]>> \in SlotsOf(sources)
  BY <1>1 DEF SlotsOf
<1>6. ASSUME NEW s \in SlotsOf(sources)
      PROVE  s \in Slots /\ s[1] \in DOMAIN plan /\ s = <<s[1], sources[s[1]]>>
  <2>1. PICK n \in DOMAIN sources : s = <<n, sources[n]>>
    BY DEF SlotsOf
  <2>2. QED BY <2>1, <1>1, <1>3
<1>7. QED BY <1>1, <1>2, <1>3, <1>4, <1>5, <1>6

LEMMA PutDown ==
  ASSUME NEW c \in Controller
  PROVE  /\ [c EXCEPT !.hand = FALSE].state = c.state
         /\ [c EXCEPT !.hand = FALSE].hand = FALSE
         /\ [c EXCEPT !.hand = FALSE].kind = c.kind
         /\ [c EXCEPT !.hand = FALSE].config = c.config
         /\ [c EXCEPT !.hand = FALSE] \in Controller
  BY DEF Controller

\* Where the threads were not joined a controller keeps what is in hand, and
\* where they were it has nothing.
Kept(o, c, st, raised, sent) ==
  /\ o.ctrl \in Controller /\ o.ctrl.state = st /\ o.ctrl.kind = c.kind
  /\ o.ctrl.config = c.config /\ o.ctrl.hand = c.hand
  /\ o.raised = raised /\ o.sent = sent
Dropped(o, c, st, raised, sent) ==
  /\ o.ctrl \in Controller /\ o.ctrl.state = st /\ o.ctrl.kind = c.kind
  /\ o.ctrl.config = c.config /\ ~o.ctrl.hand
  /\ o.raised = raised /\ o.sent = (IF c.hand /\ sent = "none" THEN "frame" ELSE sent)

LEMMA OutcomeKeeps ==
  ASSUME NEW c \in Controller, NEW st \in SourceStates, NEW raised, NEW sent
  PROVE  Kept(Outcome(c, st, raised, sent), c, st, raised, sent)
<1>1. /\ [c EXCEPT !.state = st] \in Controller
      /\ [c EXCEPT !.state = st].state = st /\ [c EXCEPT !.state = st].kind = c.kind
      /\ [c EXCEPT !.state = st].config = c.config /\ [c EXCEPT !.state = st].hand = c.hand
  BY DEF Controller
<1>2. /\ Outcome(c, st, raised, sent).ctrl = [c EXCEPT !.state = st]
      /\ Outcome(c, st, raised, sent).raised = raised
      /\ Outcome(c, st, raised, sent).sent = sent
  BY DEF Outcome
<1>3. QED BY <1>1, <1>2, Zenon DEF Kept

LEMMA JoinedDrops ==
  ASSUME NEW c \in Controller, NEW st \in SourceStates, NEW raised, NEW sent
  PROVE  Dropped(Joined(c, st, raised, sent), c, st, raised, sent)
<1> DEFINE d == [c EXCEPT !.hand = FALSE]
           what == IF c.hand /\ sent = "none" THEN "frame" ELSE sent
<1>1. d \in Controller /\ d.hand = FALSE /\ d.kind = c.kind /\ d.config = c.config
  BY PutDown, Zenon
<1>2. Joined(c, st, raised, sent) = Outcome(d, st, raised, what)
  BY DEF Joined
<1> HIDE DEF d, what
<1>3. Kept(Outcome(d, st, raised, what), d, st, raised, what)
  BY <1>1, OutcomeKeeps, Zenon
<1>4. ~Outcome(d, st, raised, what).ctrl.hand
  BY <1>1, <1>3, Zenon DEF Kept
<1>5. what = IF c.hand /\ sent = "none" THEN "frame" ELSE sent
  BY DEF what
<1>6. Dropped(Outcome(d, st, raised, what), c, st, raised, sent)
  BY <1>1, <1>3, <1>4, <1>5, Zenon DEF Kept, Dropped
<1>7. QED BY <1>2, <1>6, Zenon

-----------------------------------------------------------------------------
\* What a step of a source does to its notes: the source can still have them, or
\* its last command silences it, or it could not have them before either.
Settles(c, d, sent) ==
  \/ Alive(d)
  \/ sent \in Resets \cup {"outage"}
  \/ ~Alive(c) /\ sent = "none"

\* A controller and its successor in one open slot.
Succeeds(c, d, sent) ==
  /\ d \in Proper /\ d.config = c.config /\ d.state # "CLOSED"
  /\ sent \in Commands \cup {"none"}
  /\ Settles(c, d, sent)

LEMMA KeptSucceeds ==
  ASSUME NEW c \in Proper, NEW o, NEW st \in SourceStates \ {"CLOSED"}, NEW raised,
         NEW sent \in Commands \cup {"none"}, Kept(o, c, st, raised, sent),
         c.kind = "video" => st # "RECONNECTING",
         c.kind = "failed" => st \in {"IDLE", "ERROR"},
         st = "IDLE" => ~c.hand,
         (c.kind # "failed" /\ st # "IDLE") \/ sent \in Resets
           \/ (~Alive(c) /\ sent = "none")
  PROVE  Succeeds(c, o.ctrl, o.sent)
  BY Zenon DEF Kept, Succeeds, Settles, Proper, Alive, Family, SourceStates

LEMMA DroppedSucceeds ==
  ASSUME NEW c \in Proper, NEW o, NEW st \in SourceStates \ {"CLOSED"}, NEW raised,
         NEW sent \in Commands \cup {"none"}, Dropped(o, c, st, raised, sent),
         c.kind # "failed", c.kind = "video" => st # "RECONNECTING",
         st # "IDLE" \/ sent \in Resets
  PROVE  Succeeds(c, o.ctrl, o.sent)
  BY Zenon
     DEF Dropped, Succeeds, Settles, Proper, Alive, Family, SourceStates, Commands, Ticks,
        Resets

LEMMA SameSucceeds ==
  ASSUME NEW c \in Proper, c.state # "CLOSED", NEW raised, NEW o,
         o = Outcome(c, c.state, raised, "none")
  PROVE  Succeeds(c, o.ctrl, o.sent) /\ o.ctrl.state = c.state
<1>1. Kept(o, c, c.state, raised, "none")
  BY OutcomeKeeps, Zenon DEF Proper, Controller
<1>2. o.ctrl \in Controller /\ o.ctrl.state = c.state /\ o.ctrl.kind = c.kind
      /\ o.ctrl.config = c.config /\ o.ctrl.hand = c.hand /\ o.sent = "none"
  BY <1>1, Zenon DEF Kept
<1>3. o.ctrl \in Proper /\ (Alive(o.ctrl) <=> Alive(c))
  BY <1>2, Zenon DEF Proper, Alive
<1>4. QED BY <1>2, <1>3, Zenon DEF Succeeds, Settles

\* A call that leaves the threads alone, or joins them, does what it says.
Did(c, o, st, raised) == Succeeds(c, o.ctrl, o.sent) /\ o.ctrl.state = st /\ o.raised = raised

LEMMA OutcomeSucceeds ==
  ASSUME NEW c \in Proper, c.kind # "failed", NEW raised, NEW st, st \in {"PLAYING", "PAUSED"}
  PROVE  Did(c, Outcome(c, st, raised, "none"), st, raised)
<1> DEFINE o == Outcome(c, st, raised, "none")
<1>1. c \in Controller /\ st \in SourceStates \ {"CLOSED"} /\ "none" \in Commands \cup {"none"}
  BY DEF Proper, SourceStates, Family
<1>2. Kept(o, c, st, raised, "none")
  BY <1>1, OutcomeKeeps, Zenon
<1>3. st # "RECONNECTING" /\ st # "IDLE"
  OBVIOUS
<1>4. Succeeds(c, o.ctrl, o.sent)
  BY <1>1, <1>2, <1>3, KeptSucceeds, Zenon
<1>5. QED BY <1>2, <1>4, Zenon DEF Kept, Did

LEMMA JoinedSucceeds ==
  ASSUME NEW c \in Proper, c.kind # "failed", NEW raised, NEW st, NEW sent,
         st \in {"PLAYING", "ERROR", "IDLE"}, sent \in {"none", "restart"},
         st \in {"PLAYING", "ERROR"} \/ sent = "restart"
  PROVE  Did(c, Joined(c, st, raised, sent), st, raised)
<1> DEFINE o == Joined(c, st, raised, sent)
<1>1. /\ c \in Controller /\ st \in SourceStates \ {"CLOSED"} /\ sent \in Commands \cup {"none"}
      /\ st # "IDLE" \/ sent \in Resets
  BY DEF Proper, SourceStates, Family, Commands, Resets
<1>2. Dropped(o, c, st, raised, sent)
  BY <1>1, JoinedDrops, Zenon
<1>3. st # "RECONNECTING"
  OBVIOUS
<1>4. Succeeds(c, o.ctrl, o.sent)
  BY <1>1, <1>2, <1>3, DroppedSucceeds, Zenon
<1>5. QED BY <1>2, <1>4, Zenon DEF Dropped, Did

LEMMA JoinedQuietly ==
  ASSUME NEW c \in Proper, c.kind # "failed"
  PROVE  /\ Did(c, Joined(c, "PLAYING", FALSE, "none"), "PLAYING", FALSE)
         /\ Did(c, Joined(c, "PLAYING", FALSE, "restart"), "PLAYING", FALSE)
         /\ Did(c, Joined(c, "ERROR", FALSE, "none"), "ERROR", FALSE)
<1> DEFINE no == FALSE
<1> HIDE DEF no
<1>1. Did(c, Joined(c, "PLAYING", no, "none"), "PLAYING", no)
  BY JoinedSucceeds
<1>2. Did(c, Joined(c, "PLAYING", no, "restart"), "PLAYING", no)
  BY JoinedSucceeds
<1>3. Did(c, Joined(c, "ERROR", no, "none"), "ERROR", no)
  BY JoinedSucceeds
<1>4. QED BY <1>1, <1>2, <1>3, Zenon DEF no

\* What the operations do to a controller that is open.
LEMMA PlayOutcome ==
  ASSUME NEW c \in Proper, c.state # "CLOSED", NEW o \in Does("play", c)
  PROVE  /\ Succeeds(c, o.ctrl, o.sent)
         /\ o.raised => o.ctrl.state = c.state
         /\ c.state \in {"IDLE", "ERROR"} /\ (c.kind = "failed" => c.state = "ERROR")
              => o.ctrl.state \in Family \cup {"ERROR"}
<1>1. CASE c.kind = "video"
  <2>1. \/ o = Outcome(c, c.state, TRUE, "none") /\ c.state = "ERROR"
        \/ o = Outcome(c, c.state, FALSE, "none") /\ c.state \notin {"ERROR", "PAUSED", "IDLE"}
        \/ o = Outcome(c, "PLAYING", FALSE, "none")
        \/ \E sent \in {"none", "restart"} : o = Joined(c, "PLAYING", FALSE, sent)
        \/ o = Joined(c, "ERROR", FALSE, "none")
    BY <1>1 DEF Does, ByKind, VideoPlay, VideoResume, StartPass, Same
  <2>2. CASE o = Outcome(c, c.state, TRUE, "none") /\ c.state = "ERROR"
    BY <2>2, SameSucceeds
  <2>3. CASE o = Outcome(c, c.state, FALSE, "none") /\ c.state \notin {"ERROR", "PAUSED", "IDLE"}
    BY <2>3, SameSucceeds
  <2>4. CASE o = Outcome(c, "PLAYING", FALSE, "none")
    <3>1. Did(c, o, "PLAYING", FALSE)
      BY <1>1, <2>4, OutcomeSucceeds, Zenon
    <3>2. QED BY <3>1 DEF Did, Family
  <2>5. CASE \E sent \in {"none", "restart"} : o = Joined(c, "PLAYING", FALSE, sent)
    <3>1. Did(c, o, "PLAYING", FALSE)
      BY <1>1, <2>5, JoinedQuietly, Zenon
    <3>2. QED BY <3>1 DEF Did, Family
  <2>6. CASE o = Joined(c, "ERROR", FALSE, "none")
    <3>1. Did(c, o, "ERROR", FALSE)
      BY <1>1, <2>6, JoinedQuietly, Zenon
    <3>2. QED BY <3>1 DEF Did, Family
  <2>7. QED BY <2>1, <2>2, <2>3, <2>4, <2>5, <2>6
<1>2. CASE c.kind = "camera"
  <2>1. \/ o = Outcome(c, c.state, FALSE, "none") /\ c.state \notin {"PAUSED", "IDLE"}
        \/ o = Outcome(c, "PLAYING", FALSE, "none")
    BY <1>2 DEF Does, ByKind, CameraPlay, Same
  <2>2. CASE o = Outcome(c, c.state, FALSE, "none") /\ c.state \notin {"PAUSED", "IDLE"}
    BY <2>2, SameSucceeds
  <2>3. CASE o = Outcome(c, "PLAYING", FALSE, "none")
    <3>1. Did(c, o, "PLAYING", FALSE)
      BY <1>2, <2>3, OutcomeSucceeds, Zenon
    <3>2. QED BY <3>1 DEF Did, Family
  <2>4. QED BY <2>1, <2>2, <2>3
<1>3. CASE c.kind = "failed"
  <2>1. o = Outcome(c, c.state, TRUE, "none")
    BY <1>3 DEF Does, ByKind, FailedPlay
  <2>2. QED BY <1>3, <2>1, SameSucceeds
<1>4. QED BY <1>1, <1>2, <1>3 DEF Proper, Controller

LEMMA ResumeOutcome ==
  ASSUME NEW c \in Proper, c.state # "CLOSED", NEW o \in Does("resume", c)
  PROVE  Succeeds(c, o.ctrl, o.sent) /\ o.ctrl.state # "PAUSED"
<1>1. CASE c.kind = "video"
  <2>1. \/ o = Outcome(c, c.state, FALSE, "none") /\ c.state # "PAUSED"
        \/ o = Outcome(c, "PLAYING", FALSE, "none")
        \/ o = Joined(c, "PLAYING", FALSE, "restart")
        \/ o = Joined(c, "ERROR", FALSE, "none")
    BY <1>1 DEF Does, ByKind, VideoResume, StartPass, Same
  <2>2. CASE o = Outcome(c, c.state, FALSE, "none") /\ c.state # "PAUSED"
    BY <2>2, SameSucceeds
  <2>3. CASE o = Outcome(c, "PLAYING", FALSE, "none")
    <3>1. Did(c, o, "PLAYING", FALSE)
      BY <1>1, <2>3, OutcomeSucceeds, Zenon
    <3>2. QED BY <3>1 DEF Did
  <2>4. CASE o = Joined(c, "PLAYING", FALSE, "restart")
    <3>1. Did(c, o, "PLAYING", FALSE)
      BY <1>1, <2>4, JoinedQuietly, Zenon
    <3>2. QED BY <3>1 DEF Did
  <2>5. CASE o = Joined(c, "ERROR", FALSE, "none")
    <3>1. Did(c, o, "ERROR", FALSE)
      BY <1>1, <2>5, JoinedQuietly, Zenon
    <3>2. QED BY <3>1 DEF Did
  <2>6. QED BY <2>1, <2>2, <2>3, <2>4, <2>5
<1>2. CASE c.kind = "camera"
  <2>1. \/ o = Outcome(c, c.state, FALSE, "none") /\ c.state # "PAUSED"
        \/ o = Outcome(c, "PLAYING", FALSE, "none")
    BY <1>2 DEF Does, ByKind, CameraResume, Same
  <2>2. CASE o = Outcome(c, c.state, FALSE, "none") /\ c.state # "PAUSED"
    BY <2>2, SameSucceeds
  <2>3. CASE o = Outcome(c, "PLAYING", FALSE, "none")
    <3>1. Did(c, o, "PLAYING", FALSE)
      BY <1>2, <2>3, OutcomeSucceeds, Zenon
    <3>2. QED BY <3>1 DEF Did
  <2>4. QED BY <2>1, <2>2, <2>3
<1>3. CASE c.kind = "failed"
  <2>1. o = Outcome(c, c.state, FALSE, "none") /\ c.state # "PAUSED"
    BY <1>3 DEF Does, ByKind, Same, Proper
  <2>2. QED BY <2>1, SameSucceeds
<1>4. QED BY <1>1, <1>2, <1>3 DEF Proper, Controller

LEMMA PauseOutcome ==
  ASSUME NEW c \in Proper, c.state # "CLOSED", NEW o \in Does("pause", c)
  PROVE  Succeeds(c, o.ctrl, o.sent) /\ o.ctrl.state \notin Family
<1>1. \/ o = Outcome(c, c.state, FALSE, "none") /\ c.state \notin Family
      \/ o = Outcome(c, "PAUSED", FALSE, "none") /\ c.kind # "failed"
  BY DEF Does, ByKind, VideoPause, CameraPause, Same, Proper, Controller, Family
<1>2. CASE o = Outcome(c, c.state, FALSE, "none") /\ c.state \notin Family
  BY <1>2, SameSucceeds
<1>3. CASE o = Outcome(c, "PAUSED", FALSE, "none") /\ c.kind # "failed"
  <2>1. Succeeds(c, o.ctrl, o.sent) /\ o.ctrl.state = "PAUSED"
    BY <1>3, OutcomeSucceeds DEF Did
  <2>2. QED BY <2>1 DEF Family
<1>4. QED BY <1>1, <1>2, <1>3

LEMMA HaltOutcome ==
  ASSUME NEW c \in Proper, c.state # "CLOSED", NEW op \in {"stop", "reload"}, NEW o \in Does(op, c)
  PROVE  Succeeds(c, o.ctrl, o.sent) /\ o.ctrl.state \notin Family
<1>1. CASE c.kind # "failed"
  <2>1. \E st \in {"IDLE", "ERROR"}, raised \in BOOLEAN : o = Joined(c, st, raised, "restart")
    BY <1>1, Zenon DEF Does, ByKind, VideoStop, VideoReload, CameraHalt, Proper, Controller
  <2>2. PICK st \in {"IDLE", "ERROR"}, raised \in BOOLEAN : o = Joined(c, st, raised, "restart")
    BY <2>1
  <2>3. Succeeds(c, o.ctrl, o.sent) /\ o.ctrl.state = st
    BY <1>1, <2>2, JoinedSucceeds DEF Did
  <2>4. QED BY <2>3 DEF Family
<1>2. CASE c.kind = "failed"
  <2>1. PICK st \in {"IDLE", "ERROR"} : o = Outcome(c, st, FALSE, "none")
    BY <1>2 DEF Does, ByKind, FailedStop, FailedReload
  <2>2. c \in Controller /\ st \in SourceStates \ {"CLOSED"} /\ ~c.hand /\ ~Alive(c)
        /\ "none" \in Commands \cup {"none"}
    BY <1>2 DEF Proper, SourceStates, Alive
  <2>3. Kept(o, c, st, FALSE, "none")
    BY <2>1, <2>2, OutcomeKeeps, Zenon
  <2>4. Succeeds(c, o.ctrl, o.sent)
    BY <1>2, <2>2, <2>3, KeptSucceeds, Zenon
  <2>5. QED BY <2>3, <2>4, Zenon DEF Kept, Family
<1>3. QED BY <1>1, <1>2, Zenon

-----------------------------------------------------------------------------
(* What a command leaves in the queue of its source.                        *)

LEMMA PostedIsQueue ==
  ASSUME NEW queue \in Seq(Commands), Alternates(queue), NEW sent \in Commands \cup {"none"}
  PROVE  /\ Posted(queue, sent) \in Seq(Commands) /\ Alternates(Posted(queue, sent))
         /\ sent = "none" => Posted(queue, sent) = queue
         /\ sent # "none" => Posted(queue, sent) # <<>>
         /\ sent \in Resets \cup {"outage"} =>
              Posted(queue, sent)[Len(Posted(queue, sent))] # "frame"
<1>1. CASE sent = "none"
  BY <1>1 DEF Posted, Resets
<1>2. CASE sent \in Ticks
  <2>1. Posted(queue, sent) = WithTick(queue, sent) /\ sent \notin Resets
    BY <1>2 DEF Posted, Ticks, Resets
  <2>2. CASE queue # <<>> /\ IsTick(queue[Len(queue)])
    <3> DEFINE after == [queue EXCEPT ![Len(queue)] = sent]
    <3>1. Posted(queue, sent) = after
      BY <2>1, <2>2 DEF WithTick
    <3>2. Len(queue) \in 1..Len(queue)
      BY <2>2
    <3>3. after \in Seq(Commands) /\ Len(after) = Len(queue) /\ after[Len(queue)] = sent
      <4>1. sent \in Commands /\ queue \in [1..Len(queue) -> Commands] /\ Len(queue) \in Nat
        BY <1>2 DEF Commands
      <4>2. after \in [1..Len(queue) -> Commands]
        BY <4>1
      <4>3. after \in Seq(Commands) /\ Len(after) = Len(queue)
        BY <4>1, <4>2
      <4>4. QED BY <3>2, <4>1, <4>3
    <3>4. \A i \in 1..Len(queue) - 1 : after[i] = queue[i]
      BY <3>2
    <3>5. IsTick(after[Len(queue)])
      BY <1>2, <3>3 DEF IsTick, Ticks
    <3>6. Alternates(after)
      <4>1. SUFFICES ASSUME NEW i \in 1..Len(after) - 1, IsTick(after[i])
                     PROVE  ~IsTick(after[i + 1])
        BY Zenon DEF Alternates
      <4>2. i \in 1..Len(queue) - 1 /\ IsTick(queue[i])
        BY <3>3, <3>4, <4>1
      <4>3. i + 1 # Len(queue)
        BY <2>2, <4>2 DEF Alternates
      <4>4. i + 1 \in 1..Len(queue) - 1
        BY <4>2, <4>3
      <4>5. QED BY <3>4, <4>2, <4>4 DEF Alternates
    <3> HIDE DEF after
    <3>7. after # <<>>
      BY <3>2, <3>3
    <3>8. sent = "outage" => after[Len(after)] # "frame"
      BY <3>3
    <3>9. QED BY <1>2, <3>1, <3>3, <3>6, <3>7, <3>8 DEF Ticks, Resets
  <2>3. CASE ~(queue # <<>> /\ IsTick(queue[Len(queue)]))
    <3> DEFINE after == Append(queue, sent)
    <3>1. Posted(queue, sent) = after
      BY <2>1, <2>3 DEF WithTick
    <3>2. /\ after \in Seq(Commands) /\ Len(after) = Len(queue) + 1
          /\ after[Len(queue) + 1] = sent /\ \A i \in 1..Len(queue) : after[i] = queue[i]
      BY <1>2 DEF Commands
    <3>3. Alternates(after)
      <4>1. SUFFICES ASSUME NEW i \in 1..Len(after) - 1, IsTick(after[i])
                     PROVE  ~IsTick(after[i + 1])
        BY Zenon DEF Alternates
      <4>2. i \in 1..Len(queue) /\ IsTick(queue[i])
        BY <3>2, <4>1
      <4>3. i # Len(queue)
        BY <2>3, <4>2
      <4>4. i \in 1..Len(queue) - 1 /\ i + 1 \in 1..Len(queue)
        BY <4>2, <4>3
      <4>5. QED BY <3>2, <4>2, <4>4 DEF Alternates
    <3> HIDE DEF after
    <3>4. after # <<>>
      BY <3>2
    <3>5. sent = "outage" => after[Len(after)] # "frame"
      BY <3>2
    <3>6. QED BY <1>2, <3>1, <3>2, <3>3, <3>4, <3>5 DEF Ticks, Resets
  <2>4. QED BY <2>2, <2>3
<1>3. CASE sent \in Resets
  <2>1. Posted(queue, sent) = WithReset(queue, sent) /\ ~IsTick(sent) /\ sent \in Commands
    BY <1>3 DEF Posted, Resets, IsTick, Commands
  <2>2. CASE WithReset(queue, sent) = <<sent>>
    <3>1. Len(<<sent>>) = 1 /\ <<sent>>[1] = sent /\ <<sent>> \in Seq(Commands) /\ <<sent>> # <<>>
      BY <2>1
    <3>2. Alternates(<<sent>>)
      BY <3>1 DEF Alternates
    <3>3. QED BY <1>3, <2>1, <2>2, <3>1, <3>2 DEF Resets
  <2>3. CASE /\ queue # <<>> /\ IsTick(queue[Len(queue)])
             /\ WithReset(queue, sent) = Append(queue, sent)
    <3> DEFINE after == Append(queue, sent)
    <3>1. /\ after \in Seq(Commands) /\ Len(after) = Len(queue) + 1
          /\ after[Len(queue) + 1] = sent /\ \A i \in 1..Len(queue) : after[i] = queue[i]
      BY <2>1
    <3>2. Alternates(after)
      <4>1. SUFFICES ASSUME NEW i \in 1..Len(after) - 1, IsTick(after[i])
                     PROVE  ~IsTick(after[i + 1])
        BY Zenon DEF Alternates
      <4>2. i \in 1..Len(queue) /\ IsTick(queue[i])
        BY <3>1, <4>1
      <4>3. CASE i = Len(queue)
        BY <2>1, <3>1, <4>3
      <4>4. CASE i # Len(queue)
        <5>1. i \in 1..Len(queue) - 1 /\ i + 1 \in 1..Len(queue)
          BY <4>2, <4>4
        <5>2. QED BY <3>1, <4>2, <5>1 DEF Alternates
      <4>5. QED BY <4>3, <4>4
    <3> HIDE DEF after
    <3>3. after # <<>> /\ after[Len(after)] = sent
      BY <3>1
    <3>4. QED BY <1>3, <2>1, <2>3, <3>1, <3>2, <3>3 DEF Resets, after
  <2>4. CASE queue # <<>> /\ ~IsTick(queue[Len(queue)]) /\ WithReset(queue, sent) = queue
    BY <1>3, <2>1, <2>4 DEF Resets, IsTick
  <2>5. QED BY <2>2, <2>3, <2>4 DEF WithReset
<1>4. QED BY <1>1, <1>2, <1>3 DEF Commands

LEMMA TailIsQueue ==
  ASSUME NEW queue \in Seq(Commands), Alternates(queue), queue # <<>>
  PROVE  /\ Tail(queue) \in Seq(Commands) /\ Alternates(Tail(queue)) /\ Head(queue) \in Commands
         /\ Tail(queue) = <<>> => Head(queue) = queue[Len(queue)]
         /\ Tail(queue) # <<>> => Tail(queue)[Len(Tail(queue))] = queue[Len(queue)]
<1>1. Len(queue) \in Nat \ {0} /\ Head(queue) = queue[1] /\ queue[1] \in Commands
  OBVIOUS
<1>2. /\ Tail(queue) \in Seq(Commands) /\ Len(Tail(queue)) = Len(queue) - 1
      /\ \A i \in 1..Len(queue) - 1 : Tail(queue)[i] = queue[i + 1]
  BY <1>1
<1>3. Alternates(Tail(queue))
  <2>1. SUFFICES ASSUME NEW i \in 1..Len(Tail(queue)) - 1, IsTick(Tail(queue)[i])
                 PROVE  ~IsTick(Tail(queue)[i + 1])
    BY Zenon DEF Alternates
  <2>2. i + 1 \in 1..Len(queue) - 1 /\ i \in 1..Len(queue) - 1
    BY <1>2, <2>1
  <2>3. Tail(queue)[i] = queue[i + 1] /\ Tail(queue)[i + 1] = queue[(i + 1) + 1]
    BY <1>2, <2>2
  <2>4. QED BY <2>1, <2>2, <2>3 DEF Alternates
<1>4. Tail(queue) = <<>> => Len(queue) = 1
  BY <1>1, <1>2
<1>5. Tail(queue) # <<>> => Len(Tail(queue)) \in 1..Len(queue) - 1
  BY <1>1, <1>2
<1>6. QED BY <1>1, <1>2, <1>3, <1>4, <1>5

-----------------------------------------------------------------------------
(* Steps that leave the plan alone.                                         *)

\* Every open source moves on by itself or by a call, and its queue with it.
SourcesMove ==
  /\ ctrl' = [s \in Slots |-> ctrl'[s]] /\ mail' = [n \in Nodes |-> mail'[n]]
  /\ \A n \in Nodes : \E sent \in Commands \cup {"none"} :
       /\ mail'[n] = Posted(mail[n], sent)
       /\ n \in DOMAIN plan => Succeeds(At(n), ctrl'[<<n, sources[n]>>], sent)
       /\ n \notin DOMAIN plan => sent = "none"

\* Outputs may be panicked meanwhile: what the worker executes is stale for them.
OutputsHush ==
  /\ sounding' \subseteq sounding
  /\ \/ busy' = busy
     \/ /\ busy # Idle /\ busy' = [busy EXCEPT !.stale = TRUE]
        /\ busy.node \notin sounding'

LEMMA HushFacts ==
  ASSUME Types, OutputsHush
  PROVE  /\ sounding' \subseteq Nodes
         /\ busy' \in {Idle} \cup [op : Commands, node : Nodes, stale : BOOLEAN]
         /\ busy' # Idle <=> busy # Idle
         /\ busy # Idle =>
              busy'.node = busy.node /\ busy'.op = busy.op /\ (busy.stale => busy'.stale)
<1>1. CASE busy' = busy
  BY <1>1 DEF Types, OutputsHush
<1>2. CASE busy # Idle /\ busy' = [busy EXCEPT !.stale = TRUE]
  <2>1. busy \in [op : Commands, node : Nodes, stale : BOOLEAN]
    BY <1>2 DEF Types
  <2>2. busy' \in [op : Commands, node : Nodes, stale : BOOLEAN]
    BY <1>2, <2>1
  <2>3. busy'.node = busy.node /\ busy'.op = busy.op /\ busy'.stale
    BY <1>2, <2>1
  <2>4. busy' # Idle
    BY <2>2 DEF Idle
  <2>5. QED BY <1>2, <2>2, <2>3, <2>4 DEF Types, OutputsHush
<1>3. QED BY <1>1, <1>2 DEF OutputsHush

LEMMA MoveTypes ==
  ASSUME Types, SourcesMove
  PROVE  /\ mail' \in [Nodes -> Seq(Commands)] /\ \A n \in Nodes : Alternates(mail'[n])
         /\ \A n \in DOMAIN plan : ctrl'[<<n, sources[n]>>] \in Proper
<1>1. ASSUME NEW n \in Nodes
      PROVE  mail'[n] \in Seq(Commands) /\ Alternates(mail'[n])
  <2>1. PICK sent \in Commands \cup {"none"} : mail'[n] = Posted(mail[n], sent)
    BY DEF SourcesMove
  <2>2. mail[n] \in Seq(Commands) /\ Alternates(mail[n])
    BY DEF Types
  <2>3. Posted(mail[n], sent) \in Seq(Commands) /\ Alternates(Posted(mail[n], sent))
    BY <2>2, PostedIsQueue
  <2>4. QED BY <2>1, <2>3
<1>2. mail' \in [Nodes -> Seq(Commands)]
  BY <1>1 DEF SourcesMove
<1>3. ASSUME NEW n \in DOMAIN plan
      PROVE  ctrl'[<<n, sources[n]>>] \in Proper
  BY CurrentIsPlan DEF SourcesMove, Succeeds
<1>4. QED BY <1>1, <1>2, <1>3

LEMMA MoveSilences ==
  ASSUME Types, Silences, SourcesMove, OutputsHush, UNCHANGED <<plan, sources, stray>>
  PROVE  Silences'
<1>1. SUFFICES ASSUME NEW n \in Nodes PROVE Silenced(n)'
  BY DEF Silences
<1>2. PICK sent \in Commands \cup {"none"} :
        /\ mail'[n] = Posted(mail[n], sent)
        /\ n \in DOMAIN plan => Succeeds(At(n), ctrl'[<<n, sources[n]>>], sent)
        /\ n \notin DOMAIN plan => sent = "none"
  BY DEF SourcesMove
<1>3. /\ sent = "none" => mail'[n] = mail[n]
      /\ sent \in Resets \cup {"outage"} => mail'[n] # <<>> /\ mail'[n][Len(mail'[n])] # "frame"
  <2>1. mail[n] \in Seq(Commands) /\ Alternates(mail[n]) /\ "none" \notin Resets \cup {"outage"}
    BY DEF Types, Resets
  <2>2. QED BY <1>2, <2>1, PostedIsQueue
<1>4. Silenced(n)
  BY DEF Silences
<1>5. CASE n \in stray
  BY <1>5 DEF Silenced
<1>6. CASE n \notin DOMAIN plan /\ Gone(n)
  BY <1>2, <1>3, <1>6, HushFacts DEF Silenced, Gone, InHand, OutputsHush
<1>7. CASE n \in DOMAIN plan /\ (Alive(At(n)) \/ Quiets(n))
  <2>1. At(n)' = ctrl'[<<n, sources[n]>>]
    BY DEF At
  <2>2. Settles(At(n), At(n)', sent)
    BY <1>2, <1>7, <2>1 DEF Succeeds
  <2>3. CASE Alive(At(n)')
    BY <1>7, <2>3 DEF Silenced
  <2>4. CASE sent \in Resets \cup {"outage"}
    BY <1>3, <1>7, <2>4 DEF Silenced, Quiets
  <2>5. CASE ~Alive(At(n)) /\ sent = "none"
    <3>1. Quiets(n) /\ mail'[n] = mail[n]
      BY <1>3, <1>7, <2>5
    <3>2. Quiets(n)'
      BY <3>1, HushFacts DEF Quiets, InHand, OutputsHush
    <3>3. QED BY <1>7, <3>2 DEF Silenced
  <2>6. QED BY <2>2, <2>3, <2>4, <2>5 DEF Settles
<1>8. QED BY <1>4, <1>5, <1>6, <1>7 DEF Silenced

\* Nothing but the sources of the plan moves, and no call begins or ends a swap.
LEMMA MoveFollows ==
  ASSUME Types, Follows, SourcesMove, UNCHANGED <<plan, sources>>,
         \A s \in Slots \ SlotsOf(sources) : ctrl'[s] = ctrl[s],
         UNCHANGED call \/ (~Swapping /\ ~Swapping')
  PROVE  ctrl' \in [Slots -> Proper] /\ Follows'
<1>1. ctrl' \in [Slots -> Proper]
  <2>1. ASSUME NEW s \in Slots PROVE ctrl'[s] \in Proper
    <3>1. CASE s \in SlotsOf(sources)
      BY <3>1, CurrentIsPlan, MoveTypes
    <3>2. CASE s \notin SlotsOf(sources)
      BY <3>2 DEF Types
    <3>3. QED BY <3>1, <3>2
  <2>2. QED BY <2>1 DEF SourcesMove
<1>2. ASSUME NEW n \in DOMAIN plan'
      PROVE  At(n)'.state # "CLOSED" /\ At(n)'.config = plan'[n].source
  <2>1. n \in DOMAIN plan /\ n \in Nodes /\ At(n)' = ctrl'[<<n, sources[n]>>]
    BY CurrentIsPlan DEF At
  <2>2. PICK sent \in Commands \cup {"none"} : Succeeds(At(n), At(n)', sent)
    BY <2>1 DEF SourcesMove
  <2>3. QED BY <2>1, <2>2 DEF Succeeds, Follows
<1>3. CASE UNCHANGED call
  <2>1. /\ FreshSlots' = FreshSlots /\ Swapping' = Swapping /\ Fresh' = Fresh
        /\ SlotsOf(sources)' = SlotsOf(sources)
    BY <1>3 DEF FreshSlots, Swapping, Fresh, Reusable
  <2>2. \A s \in Slots \ SlotsOf(sources) :
          ctrl'[s].state = "CLOSED" \/ (Swapping /\ s \in FreshSlots)
    BY DEF Follows
  <2>3. ASSUME Swapping, NEW n \in Fresh
        PROVE  /\ n \in DOMAIN sources => call.sources[n] # sources[n]
               /\ ctrl'[<<n, call.sources[n]>>] \in Created(n, call.plan[n].source)
    <3>1. n \in DOMAIN call.plan /\ Swap(call)
      BY <2>3 DEF Fresh, Swapping, Types, Idle
    <3>2. n \in Nodes /\ call.sources[n] \in {0, 1}
      BY <3>1, EngineAssumption DEF Swap, Swaps
    <3>3. <<n, call.sources[n]>> \in Slots \ SlotsOf(sources)
      BY <2>3, <3>2, CurrentIsPlan DEF Slots, Follows, SlotsOf
    <3>4. QED BY <2>3, <3>3 DEF Follows
  <2>4. QED BY <1>1, <1>2, <1>3, <2>1, <2>2, <2>3 DEF Follows
<1>4. CASE ~Swapping /\ ~Swapping'
  <2>1. \A s \in Slots \ SlotsOf(sources)' : ctrl'[s].state = "CLOSED"
    BY <1>4 DEF Follows, SlotsOf
  <2>2. QED BY <1>1, <1>2, <1>4, <2>1 DEF Follows
<1>5. QED BY <1>3, <1>4

LEMMA StaysPut ==
  ASSUME NEW c \in Proper, c.state # "CLOSED"
  PROVE  Succeeds(c, c, "none")
  BY DEF Succeeds, Settles

LEMMA OpenSlots ==
  ASSUME Types, Follows, NEW n \in DOMAIN plan
  PROVE  /\ At(n) \in Proper /\ At(n) \in Controller /\ At(n).state # "CLOSED"
         /\ At(n).kind \in {"video", "camera", "failed"} /\ At(n).state \in SourceStates
         /\ At(n).kind = "video" => At(n).state # "RECONNECTING"
         /\ At(n).kind = "failed" => At(n).state \in {"IDLE", "ERROR"} /\ ~At(n).hand
         /\ At(n).state = "IDLE" => ~At(n).hand
         /\ n \in Nodes /\ interrupted \subseteq Nodes
<1>1. At(n) \in Proper /\ n \in Nodes /\ At(n).state # "CLOSED"
  BY CurrentIsPlan DEF Follows
<1>2. QED BY <1>1 DEF Proper, Controller, Types

LEMMA BecomesMoves ==
  ASSUME Types, Follows, NEW n \in DOMAIN plan, NEW c, NEW sent, Becomes(n, c, sent),
         Succeeds(At(n), c, sent)
  PROVE  /\ SourcesMove /\ At(n)' = c
         /\ \A m \in DOMAIN plan \ {n} : At(m)' = At(m)
         /\ \A s \in Slots \ SlotsOf(sources) : ctrl'[s] = ctrl[s]
<1> DEFINE slot == <<n, sources[n]>>
<1>1. /\ ctrl \in [Slots -> Proper] /\ mail \in [Nodes -> Seq(Commands)] /\ slot \in Slots
      /\ slot \in SlotsOf(sources) /\ n \in Nodes
  BY CurrentIsPlan DEF Types
<1>2. ctrl' = [ctrl EXCEPT ![slot] = c] /\ mail' = [mail EXCEPT ![n] = Posted(mail[n], sent)]
      /\ UNCHANGED sources
  BY DEF Becomes
<1>3. /\ ctrl'[slot] = c /\ \A s \in Slots \ {slot} : ctrl'[s] = ctrl[s]
      /\ ctrl' = [s \in Slots |-> ctrl'[s]]
  BY <1>1, <1>2
<1>4. /\ mail'[n] = Posted(mail[n], sent) /\ \A m \in Nodes \ {n} : mail'[m] = mail[m]
      /\ mail' = [m \in Nodes |-> mail'[m]]
  BY <1>1, <1>2
<1>5. At(n)' = c
  BY <1>2, <1>3 DEF At
<1>6. ASSUME NEW m \in DOMAIN plan \ {n}
      PROVE  At(m)' = At(m) /\ ctrl'[<<m, sources[m]>>] = At(m)
  BY <1>2, <1>3, CurrentIsPlan DEF At
<1>7. ASSUME NEW m \in Nodes
      PROVE  \E w \in Commands \cup {"none"} :
               /\ mail'[m] = Posted(mail[m], w)
               /\ m \in DOMAIN plan => Succeeds(At(m), ctrl'[<<m, sources[m]>>], w)
               /\ m \notin DOMAIN plan => w = "none"
  <2>1. CASE m = n
    BY <1>3, <1>4, <2>1 DEF Succeeds
  <2>2. CASE m # n
    <3>1. mail'[m] = Posted(mail[m], "none")
      BY <1>4, <2>2 DEF Posted
    <3>2. m \in DOMAIN plan => Succeeds(At(m), ctrl'[<<m, sources[m]>>], "none")
      BY <1>6, <2>2, StaysPut, OpenSlots
    <3>3. QED BY <3>1, <3>2
  <2>3. QED BY <2>1, <2>2
<1>8. SourcesMove
  BY <1>3, <1>4, <1>7 DEF SourcesMove
<1>9. QED BY <1>1, <1>3, <1>5, <1>6, <1>8

\* A step of one source keeps the invariant, if what plays then was asked to.
LEMMA SourceStep ==
  ASSUME BodyInv, NEW n \in DOMAIN plan, NEW c, NEW sent, Becomes(n, c, sent),
         Succeeds(At(n), c, sent), events' \in 0..MaxEvents, asked' \subseteq Nodes,
         \A m \in asked : m # n => m \in asked', c.state \in Family => n \in asked',
         Swapping => asked \subseteq asked'
  PROVE  BodyInv'
<1>1. /\ Types /\ Follows /\ PlaysIfAsked /\ Silences
      /\ UNCHANGED <<state, plan, sources, interrupted, call, busy, sounding, stray>>
  BY DEF BodyInv, Becomes
<1>2. /\ SourcesMove /\ At(n)' = c
      /\ \A m \in DOMAIN plan \ {n} : At(m)' = At(m)
      /\ \A s \in Slots \ SlotsOf(sources) : ctrl'[s] = ctrl[s]
  BY <1>1, BecomesMoves
<1>3. ctrl' \in [Slots -> Proper] /\ Follows'
  BY <1>1, <1>2, MoveFollows
<1>4. Types'
  <2>1. mail' \in [Nodes -> Seq(Commands)] /\ \A m \in Nodes : Alternates(mail'[m])
    BY <1>1, <1>2, MoveTypes
  <2>2. Swap(call) => Swap(call)'
    BY <1>1 DEF Swap, Swaps
  <2>3. QED BY <1>1, <1>3, <2>1, <2>2 DEF Types
<1>5. Silences'
  BY <1>1, <1>2, MoveSilences DEF OutputsHush
<1>6. PlaysIfAsked'
  <2>1. \A m \in DOMAIN plan' : At(m)'.state \in Family => m \in asked'
    BY <1>1, <1>2 DEF PlaysIfAsked
  <2>2. interrupted = {}
    BY <1>1 DEF PlaysIfAsked, NoFun
  <2>3. Swapping' = Swapping /\ WasPlaying' = WasPlaying
    BY <1>1 DEF Swapping, WasPlaying
  <2>4. QED BY <1>1, <2>1, <2>2, <2>3 DEF PlaysIfAsked
<1>7. QED BY <1>3, <1>4, <1>5, <1>6 DEF BodyInv

\* What a source becomes by a step of its own is a controller too.
Becoming(c, d, st, hand) ==
  d \in Controller /\ d.state = st /\ d.hand = hand /\ d.kind = c.kind /\ d.config = c.config

LEMMA ChangedController ==
  ASSUME NEW c \in Controller
  PROVE  /\ Becoming(c, [c EXCEPT !.hand = TRUE], c.state, TRUE)
         /\ Becoming(c, [c EXCEPT !.hand = FALSE], c.state, FALSE)
         /\ \A st \in SourceStates :
              /\ Becoming(c, [c EXCEPT !.state = st], st, c.hand)
              /\ Becoming(c, [c EXCEPT !.state = st, !.hand = FALSE], st, FALSE)
<1>1. Becoming(c, [c EXCEPT !.hand = TRUE], c.state, TRUE)
  BY DEF Controller, Becoming
<1>2. Becoming(c, [c EXCEPT !.hand = FALSE], c.state, FALSE)
  BY DEF Controller, Becoming
<1>3. ASSUME NEW st \in SourceStates
      PROVE  Becoming(c, [c EXCEPT !.state = st], st, c.hand)
  BY DEF Controller, Becoming
<1>4. ASSUME NEW st \in SourceStates
      PROVE  Becoming(c, [c EXCEPT !.state = st, !.hand = FALSE], st, FALSE)
  <2>1. [c EXCEPT !.hand = FALSE] \in Controller
    BY <1>2 DEF Becoming
  <2>2. [c EXCEPT !.state = st, !.hand = FALSE] = [[c EXCEPT !.hand = FALSE] EXCEPT !.state = st]
    BY DEF Controller
  <2>3. QED BY <1>2, <2>1, <2>2 DEF Controller, Becoming
<1>5. QED BY <1>1, <1>2, <1>3, <1>4

LEMMA SourceKeepsInv ==
  ASSUME BodyInv, NEW n \in Nodes, Source(n)
  PROVE  BodyInv'
<1>1. /\ Types /\ Follows /\ PlaysIfAsked /\ events \in 0..MaxEvents /\ asked \subseteq Nodes
      /\ Current = DOMAIN plan /\ MaxEvents \in Nat
  BY CurrentIsPlan, EngineAssumption DEF BodyInv, Types
<1>2. n \in DOMAIN plan
  BY <1>1 DEF Source, Begin, Present, End, Fail, Disconnect, Opened
<1> DEFINE c == At(n)
<1>3. /\ c \in Proper /\ c \in Controller /\ c.state # "CLOSED" /\ c.state \in SourceStates
      /\ c.kind \in {"video", "camera", "failed"}
      /\ c.kind = "video" => c.state # "RECONNECTING"
      /\ c.kind = "failed" => c.state \in {"IDLE", "ERROR"} /\ ~c.hand
      /\ c.state = "IDLE" => ~c.hand
  BY <1>1, <1>2, OpenSlots
<1>4. c.state \in Family => n \in asked
  BY <1>1, <1>2 DEF PlaysIfAsked
<1> HIDE DEF c
<1>5. CASE Begin(n)
  <2> DEFINE d == [c EXCEPT !.hand = TRUE]
  <2>1. Becomes(n, d, "none") /\ c.state \in Family /\ c.kind # "failed"
        /\ events' \in 0..MaxEvents /\ UNCHANGED asked
    BY <1>1, <1>3, <1>5 DEF Begin, Family, c
  <2>2. Becoming(c, d, c.state, TRUE)
    BY <1>3, ChangedController
  <2> HIDE DEF d
  <2>3. Succeeds(c, d, "none")
    BY <1>3, <2>1, <2>2 DEF Becoming, Succeeds, Settles, Alive, Proper, Family
  <2>4. QED BY <1>1, <1>2, <1>4, <2>1, <2>2, <2>3, SourceStep DEF Becoming, c
<1>6. CASE Present(n)
  <2> DEFINE d == [c EXCEPT !.hand = FALSE]
  <2>1. Becomes(n, d, "frame") /\ c.hand /\ UNCHANGED <<asked, events>>
    BY <1>6 DEF Present, c
  <2>2. Becoming(c, d, c.state, FALSE)
    BY <1>3, ChangedController
  <2> HIDE DEF d
  <2>3. Succeeds(c, d, "frame")
    BY <1>3, <2>1, <2>2
       DEF Becoming, Succeeds, Settles, Alive, Proper, SourceStates, Commands, Ticks
  <2>4. QED BY <1>1, <1>2, <1>4, <2>1, <2>2, <2>3, SourceStep DEF Becoming, c
<1>7. CASE End(n)
  <2> DEFINE d == [c EXCEPT !.state = "IDLE"]
  <2>1. Becomes(n, d, "ended") /\ c.kind = "video" /\ ~c.hand /\ UNCHANGED events
        /\ asked' = WithoutEnded(n)
    BY <1>7 DEF End, c
  <2>2. Becoming(c, d, "IDLE", c.hand)
    BY <1>3, ChangedController DEF SourceStates
  <2> HIDE DEF d
  <2>3. Succeeds(c, d, "ended")
    BY <1>3, <2>1, <2>2 DEF Becoming, Succeeds, Settles, Proper, Commands, Resets
  <2>4. d.state \notin Family
    BY <2>2 DEF Becoming, Family
  <2>5. QED BY <1>1, <1>2, <2>1, <2>3, <2>4, SourceStep DEF c, WithoutEnded, Swapping
<1>8. CASE Fail(n)
  <2> DEFINE d == [c EXCEPT !.state = "ERROR"]
  <2>1. PICK sent \in {"none", "ended"} : Becomes(n, d, sent)
    BY <1>8 DEF Fail, c
  <2>2. c.kind = "video" /\ UNCHANGED events /\ asked' = WithoutEnded(n)
    BY <1>8 DEF Fail, c
  <2>3. Becoming(c, d, "ERROR", c.hand)
    BY <1>3, ChangedController DEF SourceStates
  <2> HIDE DEF d
  <2>4. Succeeds(c, d, sent)
    BY <1>3, <2>1, <2>2, <2>3 DEF Becoming, Succeeds, Settles, Alive, Proper, Commands, Resets
  <2>5. d.state \notin Family
    BY <2>3 DEF Becoming, Family
  <2>6. QED BY <1>1, <1>2, <2>1, <2>2, <2>4, <2>5, SourceStep DEF c, WithoutEnded, Swapping
<1>9. CASE Disconnect(n)
  <2>1. PICK st \in {"RECONNECTING", "IDLE"} :
          /\ asked' = IF st = "IDLE" THEN WithoutEnded(n) ELSE asked \cup {n}
          /\ Becomes(n, [c EXCEPT !.state = st, !.hand = FALSE], "outage")
    BY <1>9 DEF Disconnect, c
  <2> DEFINE d == [c EXCEPT !.state = st, !.hand = FALSE]
  <2>2. c.kind = "camera" /\ UNCHANGED events
    BY <1>9 DEF Disconnect, c
  <2>3. Becoming(c, d, st, FALSE)
    BY <1>3, ChangedController DEF SourceStates, Family
  <2> HIDE DEF d
  <2>4. Succeeds(c, d, "outage")
    BY <1>3, <2>1, <2>2, <2>3 DEF Becoming, Succeeds, Settles, Proper, Commands, Ticks
  <2>5. Becomes(n, d, "outage")
    BY <2>1 DEF d
  <2>6. d.state \in Family => n \in asked'
    BY <2>1, <2>3 DEF Becoming, Family
  <2>7. /\ asked' \subseteq Nodes /\ \A m \in asked : m # n => m \in asked'
        /\ Swapping => asked \subseteq asked'
    BY <1>1, <2>1 DEF WithoutEnded, Swapping
  <2>8. QED BY <1>1, <1>2, <2>2, <2>4, <2>5, <2>6, <2>7, SourceStep DEF c
<1>10. CASE Opened(n)
  <2> DEFINE d == [c EXCEPT !.state = "PLAYING", !.hand = FALSE]
  <2>1. PICK sent \in {"none", "restart"} : Becomes(n, d, sent)
    BY <1>10 DEF Opened, c
  <2>2. c.kind = "camera" /\ UNCHANGED events /\ asked' = asked \cup {n}
    BY <1>10 DEF Opened, c
  <2>3. Becoming(c, d, "PLAYING", FALSE)
    BY <1>3, ChangedController DEF SourceStates, Family
  <2> HIDE DEF d
  <2>4. Succeeds(c, d, sent)
    BY <1>3, <2>1, <2>2, <2>3
       DEF Becoming, Succeeds, Settles, Alive, Proper, Commands, Resets, Family
  <2>5. QED BY <1>1, <1>2, <2>1, <2>2, <2>4, SourceStep DEF c
<1>11. QED BY <1>5, <1>6, <1>7, <1>8, <1>9, <1>10 DEF Source

-----------------------------------------------------------------------------
(* Steps of the graph worker.                                               *)

LEMMA TakeKeepsInv ==
  ASSUME BodyInv, NEW n \in Nodes, Take(n)
  PROVE  BodyInv'
<1>1. /\ Types /\ Follows /\ PlaysIfAsked /\ Silences /\ mail \in [Nodes -> Seq(Commands)]
      /\ busy = Idle /\ mail[n] # <<>> /\ Alternates(mail[n])
      /\ busy' = [op |-> Head(mail[n]), node |-> n, stale |-> FALSE]
      /\ mail' = [mail EXCEPT ![n] = Tail(mail[n])]
      /\ UNCHANGED <<state, plan, sources, ctrl, interrupted, call, sounding, asked, stray, events>>
  BY DEF BodyInv, Types, Take
<1>2. /\ mail[n] \in Seq(Commands) /\ mail'[n] = Tail(mail[n])
      /\ \A m \in Nodes \ {n} : mail'[m] = mail[m]
  BY <1>1
<1>3. /\ Tail(mail[n]) \in Seq(Commands) /\ Alternates(Tail(mail[n])) /\ Head(mail[n]) \in Commands
      /\ Tail(mail[n]) = <<>> => Head(mail[n]) = mail[n][Len(mail[n])]
      /\ Tail(mail[n]) # <<>> => Tail(mail[n])[Len(Tail(mail[n]))] = mail[n][Len(mail[n])]
  BY <1>1, <1>2, TailIsQueue
<1>4. /\ busy' \in [op : Commands, node : Nodes, stale : BOOLEAN]
      /\ busy'.op = Head(mail[n]) /\ busy'.node = n
  BY <1>1, <1>3
<1>5. Types'
  <2>1. mail' \in [Nodes -> Seq(Commands)] /\ \A m \in Nodes : Alternates(mail'[m])
    BY <1>1, <1>2, <1>3 DEF Types
  <2>2. Swap(call) => Swap(call)'
    BY <1>1 DEF Swap, Swaps
  <2>3. QED BY <1>1, <1>4, <2>1, <2>2 DEF Types
<1>6. Follows' /\ PlaysIfAsked'
  BY <1>1 DEF Follows, PlaysIfAsked, At, Swapping, FreshSlots, Fresh, Reusable, WasPlaying
<1>7. ASSUME NEW m \in Nodes PROVE Silenced(m)'
  <2>1. Silenced(m) /\ ~InHand(m) /\ At(m)' = At(m)
    BY <1>1 DEF Silences, InHand, At
  <2>2. CASE m # n
    <3>1. mail'[m] = mail[m] /\ ~InHand(m)'
      BY <1>2, <1>4, <2>2 DEF InHand
    <3>2. QED BY <1>1, <2>1, <3>1 DEF Silenced, Gone, Quiets
  <2>3. CASE m = n
    <3>1. ~Gone(m)
      BY <1>1, <2>3 DEF Gone
    <3>2. InHand(m)'
      BY <1>4, <2>3 DEF InHand, Idle
    <3>3. Quiets(m) => Quiets(m)'
      BY <1>1, <1>2, <1>3, <1>4, <2>3, <3>2 DEF Quiets
    <3>4. QED BY <1>1, <2>1, <3>1, <3>3 DEF Silenced
  <2>4. QED BY <2>2, <2>3
<1>8. QED BY <1>5, <1>6, <1>7 DEF BodyInv, Silences

LEMMA FinishKeepsInv ==
  ASSUME BodyInv, Finish
  PROVE  BodyInv'
<1>1. /\ Types /\ Follows /\ PlaysIfAsked /\ Silences /\ busy # Idle /\ busy' = Idle
      /\ busy \in [op : Commands, node : Nodes, stale : BOOLEAN] /\ sounding \subseteq Nodes
      /\ UNCHANGED <<state, plan, sources, ctrl, interrupted, call, mail, asked, stray, events>>
  BY DEF BodyInv, Types, Finish
\* Only a frame that is not stale adds notes, to its own output.
<1>2. \/ sounding' \subseteq sounding \ {busy.node} /\ busy.op # "frame"
      \/ sounding' \subseteq sounding /\ busy.op = "frame" /\ busy.stale
      \/ sounding' \subseteq sounding \cup {busy.node} /\ busy.op = "frame" /\ ~busy.stale
           /\ (busy.node \notin DOMAIN plan => sounding' \subseteq sounding)
      \/ sounding' \subseteq sounding /\ busy.node \notin DOMAIN plan
  <2>1. CASE busy.node \notin DOMAIN plan
    BY <2>1 DEF Finish
  <2>2. CASE busy.node \in DOMAIN plan /\ busy.op = "frame"
    <3>1. sounding' \in IF busy.stale THEN {sounding \cap {busy.node}} ELSE {{busy.node}, {}}
      BY <2>2 DEF Finish
    <3>2. QED BY <2>2, <3>1
  <2>3. CASE busy.node \in DOMAIN plan /\ busy.op = "outage"
    <3>1. sounding' = {}
      BY <2>3 DEF Finish
    <3>2. QED BY <2>3, <3>1
  <2>4. CASE busy.node \in DOMAIN plan /\ busy.op # "frame" /\ busy.op # "outage"
    <3>1. sounding' = sounding \ {busy.node}
      BY <2>4 DEF Finish
    <3>2. QED BY <2>4, <3>1
  <2>5. QED BY <2>1, <2>2, <2>3, <2>4
<1>3. Types'
  <2>1. sounding' \subseteq Nodes
    BY <1>1, <1>2
  <2>2. Swap(call) => Swap(call)'
    BY <1>1 DEF Swap, Swaps
  <2>3. QED BY <1>1, <2>1, <2>2 DEF Types
<1>4. Follows' /\ PlaysIfAsked'
  BY <1>1 DEF Follows, PlaysIfAsked, At, Swapping, FreshSlots, Fresh, Reusable, WasPlaying
<1>5. ASSUME NEW n \in Nodes PROVE Silenced(n)'
  <2>1. Silenced(n) /\ At(n)' = At(n) /\ ~InHand(n)'
    BY <1>1 DEF Silences, At, InHand
  <2>2. n \notin DOMAIN plan /\ Gone(n) => Gone(n)'
    BY <1>1, <1>2, <2>1 DEF Gone, InHand
  <2>3. n \in DOMAIN plan /\ Quiets(n) => Quiets(n)'
    BY <1>1, <1>2, <2>1 DEF Quiets, InHand
  <2>4. QED BY <1>1, <2>1, <2>2, <2>3 DEF Silenced
<1>6. QED BY <1>3, <1>4, <1>5 DEF BodyInv, Silences

-----------------------------------------------------------------------------
(* Transport commands.                                                      *)

\* Outcomes of an operation of which every one is sound.
LEMMA OutcomeOf ==
  ASSUME Types, Follows, NEW sel \in SUBSET DOMAIN plan,
         NEW op \in {"play", "resume", "pause", "stop", "reload"},
         NEW out \in Outcomes(sel, op), NEW n \in sel
  PROVE  /\ Succeeds(At(n), out[n].ctrl, out[n].sent)
         /\ op = "play" /\ out[n].raised => out[n].ctrl.state = At(n).state
         /\ op = "resume" => out[n].ctrl.state # "PAUSED"
         /\ op \notin {"play", "resume"} => out[n].ctrl.state \notin Family
<1>1. At(n) \in Proper /\ At(n).state # "CLOSED"
  BY OpenSlots
<1>2. out[n] \in Does(op, At(n))
  BY DEF Outcomes
<1>3. CASE op = "play"
  BY <1>1, <1>2, <1>3, PlayOutcome
<1>4. CASE op = "resume"
  BY <1>1, <1>2, <1>4, ResumeOutcome
<1>5. CASE op = "pause"
  BY <1>1, <1>2, <1>5, PauseOutcome
<1>6. CASE op \in {"stop", "reload"}
  BY <1>1, <1>2, <1>6, HaltOutcome
<1>7. QED BY <1>3, <1>4, <1>5, <1>6

LEMMA CommandMoves ==
  ASSUME Types, Follows, NEW sel \in SUBSET DOMAIN plan,
         NEW op \in {"play", "resume", "pause", "stop", "reload"},
         NEW out \in Outcomes(sel, op), NEW done \in SUBSET sel, NEW ctl, NEW queues,
         ctl = CtrlAfter(done, out), queues = MailAfter(done, out)
  PROVE  /\ ctl = [s \in Slots |-> ctl[s]] /\ queues = [n \in Nodes |-> queues[n]]
         /\ \A n \in done : ctl[<<n, sources[n]>>] = out[n].ctrl
         /\ \A n \in DOMAIN plan \ done : ctl[<<n, sources[n]>>] = At(n)
         /\ \A s \in Slots \ SlotsOf(sources) : ctl[s] = ctrl[s]
         /\ \A n \in Nodes : \E sent \in Commands \cup {"none"} :
              /\ queues[n] = Posted(mail[n], sent)
              /\ n \in DOMAIN plan => Succeeds(At(n), ctl[<<n, sources[n]>>], sent)
              /\ n \notin DOMAIN plan => sent = "none"
<1> DEFINE moved == {<<n, sources[n]>> : n \in done}
<1>1. /\ ctl = [s \in Slots |-> IF s \in moved THEN out[s[1]].ctrl ELSE ctrl[s]]
      /\ queues = [n \in Nodes |-> IF n \in done THEN Posted(mail[n], out[n].sent) ELSE mail[n]]
  BY DEF CtrlAfter, MailAfter
<1>2. ctl = [s \in Slots |-> ctl[s]] /\ queues = [n \in Nodes |-> queues[n]]
  BY <1>1
<1>3. ASSUME NEW n \in done PROVE ctl[<<n, sources[n]>>] = out[n].ctrl
  <2>1. <<n, sources[n]>> \in Slots /\ <<n, sources[n]>> \in moved /\ <<n, sources[n]>>[1] = n
    BY CurrentIsPlan
  <2>2. QED BY <1>1, <2>1
<1>4. ASSUME NEW n \in DOMAIN plan \ done PROVE ctl[<<n, sources[n]>>] = At(n)
  <2>1. <<n, sources[n]>> \in Slots /\ <<n, sources[n]>> \notin moved
    BY CurrentIsPlan
  <2>2. QED BY <1>1, <2>1 DEF At
<1>5. ASSUME NEW s \in Slots \ SlotsOf(sources) PROVE ctl[s] = ctrl[s]
  <2>1. s \notin moved
    BY CurrentIsPlan DEF SlotsOf
  <2>2. QED BY <1>1, <2>1
<1>6. ASSUME NEW n \in Nodes
      PROVE  \E sent \in Commands \cup {"none"} :
               /\ queues[n] = Posted(mail[n], sent)
               /\ n \in DOMAIN plan => Succeeds(At(n), ctl[<<n, sources[n]>>], sent)
               /\ n \notin DOMAIN plan => sent = "none"
  <2>1. CASE n \in done
    <3>1. Succeeds(At(n), out[n].ctrl, out[n].sent)
      BY <2>1, OutcomeOf
    <3>2. out[n].sent \in Commands \cup {"none"} /\ queues[n] = Posted(mail[n], out[n].sent)
      BY <1>1, <2>1, <3>1 DEF Succeeds
    <3>3. QED BY <1>3, <2>1, <3>1, <3>2
  <2>2. CASE n \notin done
    <3>1. queues[n] = Posted(mail[n], "none")
      BY <1>1, <2>2 DEF Posted
    <3>2. n \in DOMAIN plan => Succeeds(At(n), ctl[<<n, sources[n]>>], "none")
      BY <1>4, <2>2, StaysPut, OpenSlots
    <3>3. QED BY <3>1, <3>2
  <2>3. QED BY <2>1, <2>2
<1>7. QED BY <1>2, <1>3, <1>4, <1>5, <1>6

LEMMA StatesAreShown ==
  ASSUME NEW srcs, NEW ctl
  PROVE  Refreshed(srcs, ctl) \in {"RUNNING", "PAUSED", "STOPPED"}
  BY DEF Refreshed, Aggregate

LEMMA PanicsHush ==
  ASSUME Types, NEW quiet, Panicked(quiet)
  PROVE  OutputsHush
  BY DEF Panicked, OutputsHush

LEMMA SelectionsAreOpen ==
  ASSUME Types, NEW sel \in Selections
  PROVE  sel \in SUBSET DOMAIN plan
  BY CurrentIsPlan DEF Selections

\* A call that is neither part of a swap nor begins one keeps the invariant, if
\* what plays after it was asked to.
LEMMA CallStep ==
  ASSUME BodyInv, SourcesMove, OutputsHush, UNCHANGED <<plan, sources, interrupted, stray>>,
         \A s \in Slots \ SlotsOf(sources) : ctrl'[s] = ctrl[s],
         state' \in {"STOPPED", "PAUSED", "RUNNING", "CLOSED"}, events' \in 0..MaxEvents,
         call \in {Idle, [op |-> "pause"]}, call' \in {Idle, [op |-> "pause"]},
         asked' \subseteq Nodes, interrupted \subseteq asked',
         \A n \in DOMAIN plan : ctrl'[<<n, sources[n]>>].state \in Family => n \in asked'
  PROVE  BodyInv'
<1>1. Types /\ Follows /\ PlaysIfAsked /\ Silences
  BY DEF BodyInv
<1>2. ~Swapping /\ ~Swapping'
  BY DEF Swapping, Idle
<1>3. ctrl' \in [Slots -> Proper] /\ Follows'
  BY <1>1, <1>2, MoveFollows
<1>4. Types'
  <2>1. mail' \in [Nodes -> Seq(Commands)] /\ \A m \in Nodes : Alternates(mail'[m])
    BY <1>1, MoveTypes
  <2>2. /\ sounding' \subseteq Nodes
        /\ busy' \in {Idle} \cup [op : Commands, node : Nodes, stale : BOOLEAN]
    BY <1>1, HushFacts
  <2>3. /\ plan' \in Plans \cup {NoFun} /\ sources' \in [DOMAIN plan' -> {0, 1}]
        /\ interrupted' \subseteq Nodes
    BY <1>1 DEF Types
  <2>4. QED BY <1>3, <2>1, <2>2, <2>3 DEF Types
<1>5. Silences'
  BY <1>1, MoveSilences
<1>6. PlaysIfAsked'
  BY <1>1, <1>2 DEF PlaysIfAsked, At
<1>7. QED BY <1>3, <1>4, <1>5, <1>6 DEF BodyInv

\* A command for some sources is such a call.
LEMMA CommandStep ==
  ASSUME BodyInv, NEW sel \in Selections, NEW done \in SUBSET sel,
         NEW op \in {"play", "resume", "pause", "stop", "reload"}, NEW out \in Outcomes(sel, op),
         ctrl' = CtrlAfter(done, out), mail' = MailAfter(done, out), OutputsHush,
         UNCHANGED <<plan, sources, interrupted, stray>>,
         state' \in {"STOPPED", "PAUSED", "RUNNING", "CLOSED"}, events' \in 0..MaxEvents,
         call = Idle, call' \in {Idle, [op |-> "pause"]},
         asked' \subseteq Nodes, asked \ done \subseteq asked',
         \A n \in done : out[n].ctrl.state \in Family => n \in asked'
  PROVE  BodyInv'
<1>1. Types /\ Follows /\ PlaysIfAsked /\ sel \in SUBSET DOMAIN plan
  BY SelectionsAreOpen DEF BodyInv
<1>2. /\ ctrl' = [s \in Slots |-> ctrl'[s]] /\ mail' = [n \in Nodes |-> mail'[n]]
      /\ \A n \in done : ctrl'[<<n, sources[n]>>] = out[n].ctrl
      /\ \A n \in DOMAIN plan \ done : ctrl'[<<n, sources[n]>>] = At(n)
      /\ \A s \in Slots \ SlotsOf(sources) : ctrl'[s] = ctrl[s]
      /\ \A n \in Nodes : \E sent \in Commands \cup {"none"} :
           /\ mail'[n] = Posted(mail[n], sent)
           /\ n \in DOMAIN plan => Succeeds(At(n), ctrl'[<<n, sources[n]>>], sent)
           /\ n \notin DOMAIN plan => sent = "none"
  BY <1>1, CommandMoves
<1>3. SourcesMove
  BY <1>2 DEF SourcesMove
<1>4. \A n \in DOMAIN plan : ctrl'[<<n, sources[n]>>].state \in Family => n \in asked'
  BY <1>1, <1>2 DEF PlaysIfAsked
<1>5. interrupted \subseteq asked'
  <2>1. interrupted # {} => done = {}
    BY <1>1 DEF PlaysIfAsked, NoFun
  <2>2. QED BY <1>1, <2>1 DEF PlaysIfAsked
<1>6. QED BY <1>2, <1>3, <1>4, <1>5, CallStep

LEMMA EnterFacts ==
  ASSUME BodyInv, Enter
  PROVE  /\ call = Idle /\ events' \in 0..MaxEvents /\ Types /\ Follows /\ PlaysIfAsked
         /\ state \in {"STOPPED", "PAUSED", "RUNNING", "CLOSED"} /\ asked \subseteq Nodes
<1>1. Types /\ Follows /\ PlaysIfAsked /\ call = Idle /\ events < MaxEvents /\ events' = events + 1
  BY DEF BodyInv, Enter
<1>2. events \in 0..MaxEvents /\ MaxEvents \in Nat /\ asked \subseteq Nodes
      /\ state \in {"STOPPED", "PAUSED", "RUNNING", "CLOSED"}
  BY <1>1, EngineAssumption DEF Types
<1>3. events' \in 0..MaxEvents
  BY <1>1, <1>2
<1>4. QED BY <1>1, <1>2, <1>3

LEMMA PlayKeepsInv ==
  ASSUME BodyInv, Play
  PROVE  BodyInv'
<1>1. Enter
  BY DEF Play
<1>2. PICK sel \in Selections : \E out \in Outcomes(sel, "play") :
        /\ ctrl' = CtrlAfter(Applied(sel, out), out) /\ mail' = MailAfter(Applied(sel, out), out)
        /\ asked' = asked \cup {n \in Applied(sel, out) : ~out[n].raised}
        /\ state' = IF Raised(sel, out) THEN state ELSE Refreshed(sources, ctrl')
  BY DEF Play
<1>3. PICK out \in Outcomes(sel, "play") :
        /\ ctrl' = CtrlAfter(Applied(sel, out), out) /\ mail' = MailAfter(Applied(sel, out), out)
        /\ asked' = asked \cup {n \in Applied(sel, out) : ~out[n].raised}
        /\ state' = IF Raised(sel, out) THEN state ELSE Refreshed(sources, ctrl')
  BY <1>2
<1> DEFINE done == Applied(sel, out)
<1>4. /\ call = Idle /\ events' \in 0..MaxEvents /\ Types /\ Follows /\ PlaysIfAsked
      /\ state \in {"STOPPED", "PAUSED", "RUNNING", "CLOSED"} /\ asked \subseteq Nodes
  BY <1>1, EnterFacts
<1>5. sel \in SUBSET DOMAIN plan /\ done \in SUBSET sel /\ DOMAIN plan \subseteq Nodes
  BY <1>4, SelectionsAreOpen, CurrentIsPlan DEF Applied
<1>6. state' \in {"STOPPED", "PAUSED", "RUNNING", "CLOSED"}
  BY <1>3, <1>4, StatesAreShown
<1>7. OutputsHush /\ UNCHANGED <<plan, sources, interrupted, stray, call>>
  BY DEF Play, OutputsHush
<1> HIDE DEF done
<1>8. asked' = asked \cup {n \in done : ~out[n].raised}
  BY <1>3 DEF done
<1>9. asked' \subseteq Nodes /\ asked \ done \subseteq asked'
  BY <1>4, <1>5, <1>8
<1>10. ASSUME NEW n \in done, out[n].ctrl.state \in Family
      PROVE  n \in asked'
  <2>1. CASE out[n].raised
    <3>1. n \in DOMAIN plan /\ out[n].ctrl.state = At(n).state
      BY <1>4, <1>5, <2>1, OutcomeOf
    <3>2. QED BY <1>4, <1>8, <1>10, <3>1 DEF PlaysIfAsked
  <2>2. CASE ~out[n].raised
    BY <1>8, <2>2
  <2>3. QED BY <2>1, <2>2
<1>11. ctrl' = CtrlAfter(done, out) /\ mail' = MailAfter(done, out)
  BY <1>3 DEF done
<1>12. QED BY <1>4, <1>5, <1>6, <1>7, <1>9, <1>10, <1>11, CommandStep

LEMMA ResumeKeepsInv ==
  ASSUME BodyInv, Resume
  PROVE  BodyInv'
<1>1. Enter
  BY DEF Resume
<1>2. PICK sel \in Selections : \E out \in Outcomes(sel, "resume") :
        /\ ctrl' = CtrlAfter(sel, out) /\ mail' = MailAfter(sel, out)
        /\ asked' = asked \cup {n \in sel : out[n].ctrl.state \in Family}
        /\ state' = Refreshed(sources, ctrl')
  BY DEF Resume
<1>3. PICK out \in Outcomes(sel, "resume") :
        /\ ctrl' = CtrlAfter(sel, out) /\ mail' = MailAfter(sel, out)
        /\ asked' = asked \cup {n \in sel : out[n].ctrl.state \in Family}
        /\ state' = Refreshed(sources, ctrl')
  BY <1>2
<1>4. /\ call = Idle /\ events' \in 0..MaxEvents /\ Types /\ asked \subseteq Nodes
  BY <1>1, EnterFacts
<1>5. sel \in SUBSET DOMAIN plan /\ DOMAIN plan \subseteq Nodes
  BY <1>4, SelectionsAreOpen, CurrentIsPlan
<1>6. state' \in {"STOPPED", "PAUSED", "RUNNING", "CLOSED"}
  BY <1>3, StatesAreShown
<1>7. OutputsHush /\ UNCHANGED <<plan, sources, interrupted, stray, call>>
  BY DEF Resume, OutputsHush
<1>8. /\ asked' \subseteq Nodes /\ asked \ sel \subseteq asked'
      /\ \A n \in sel : out[n].ctrl.state \in Family => n \in asked'
  BY <1>3, <1>4, <1>5
<1>9. QED BY <1>3, <1>4, <1>6, <1>7, <1>8, CommandStep

LEMMA PauseKeepsInv ==
  ASSUME BodyInv, Pause
  PROVE  BodyInv'
<1>1. Enter
  BY DEF Pause
<1>2. PICK sel \in Selections : \E out \in Outcomes(sel, "pause") :
        /\ ctrl' = CtrlAfter(sel, out) /\ mail' = MailAfter(sel, out)
        /\ asked' = asked \ sel
  BY DEF Pause
<1>3. PICK out \in Outcomes(sel, "pause") :
        /\ ctrl' = CtrlAfter(sel, out) /\ mail' = MailAfter(sel, out)
        /\ asked' = asked \ sel
  BY <1>2
<1>4. /\ call = Idle /\ events' \in 0..MaxEvents /\ Types /\ Follows /\ asked \subseteq Nodes
  BY <1>1, EnterFacts
<1>5. sel \in SUBSET DOMAIN plan
  BY <1>4, SelectionsAreOpen
<1>6. state' \in {"STOPPED", "PAUSED", "RUNNING", "CLOSED"}
  BY StatesAreShown DEF Pause
<1>7. /\ OutputsHush /\ UNCHANGED <<plan, sources, interrupted, stray>>
      /\ call' \in {Idle, [op |-> "pause"]}
  BY DEF Pause, OutputsHush
<1>8. \A n \in sel : out[n].ctrl.state \notin Family
  BY <1>4, <1>5, OutcomeOf
<1>9. asked' \subseteq Nodes /\ asked \ sel \subseteq asked'
  BY <1>3, <1>4
<1>10. QED BY <1>3, <1>4, <1>6, <1>7, <1>8, <1>9, CommandStep

LEMMA HaltKeepsInv ==
  ASSUME BodyInv, NEW op \in {"stop", "reload"}, Halt(op)
  PROVE  BodyInv'
<1>1. Enter /\ UNCHANGED <<plan, sources, interrupted, call, stray>>
  BY DEF Halt
<1>2. PICK sel \in Selections, all \in BOOLEAN : \E out \in Outcomes(sel, op) :
        /\ ctrl' = CtrlAfter(Applied(sel, out), out) /\ mail' = MailAfter(Applied(sel, out), out)
        /\ asked' = asked \ Applied(sel, out)
        /\ IF all /\ ~Raised(sel, out)
           THEN \E panic \in PanicOutcomes :
                  /\ Panicked(panic.quiet)
                  /\ state' = IF panic.raised THEN state ELSE Refreshed(sources, ctrl')
           ELSE /\ UNCHANGED <<busy, sounding>>
                /\ state' = IF Raised(sel, out) THEN state ELSE Refreshed(sources, ctrl')
  BY DEF Halt
<1>3. PICK out \in Outcomes(sel, op) :
        /\ ctrl' = CtrlAfter(Applied(sel, out), out) /\ mail' = MailAfter(Applied(sel, out), out)
        /\ asked' = asked \ Applied(sel, out)
        /\ IF all /\ ~Raised(sel, out)
           THEN \E panic \in PanicOutcomes :
                  /\ Panicked(panic.quiet)
                  /\ state' = IF panic.raised THEN state ELSE Refreshed(sources, ctrl')
           ELSE /\ UNCHANGED <<busy, sounding>>
                /\ state' = IF Raised(sel, out) THEN state ELSE Refreshed(sources, ctrl')
  BY <1>2
<1> DEFINE done == Applied(sel, out)
<1>4. /\ call = Idle /\ events' \in 0..MaxEvents /\ Types /\ Follows /\ asked \subseteq Nodes
      /\ state \in {"STOPPED", "PAUSED", "RUNNING", "CLOSED"}
  BY <1>1, EnterFacts
<1>5. sel \in SUBSET DOMAIN plan /\ done \in SUBSET sel
  BY <1>4, SelectionsAreOpen DEF Applied
<1>6. state' \in {"STOPPED", "PAUSED", "RUNNING", "CLOSED"}
  BY <1>3, <1>4, StatesAreShown
<1>7. OutputsHush
  BY <1>3, <1>4, PanicsHush DEF OutputsHush
<1>8. ctrl' = CtrlAfter(done, out) /\ mail' = MailAfter(done, out) /\ asked' = asked \ done
  BY <1>3
<1> HIDE DEF done
<1>9. \A n \in done : out[n].ctrl.state \notin Family
  BY <1>4, <1>5, OutcomeOf
<1>10. asked' \subseteq Nodes /\ asked \ done \subseteq asked'
  BY <1>4, <1>8
<1>11. QED BY <1>1, <1>4, <1>5, <1>6, <1>7, <1>8, <1>9, <1>10, CommandStep

LEMMA PanicKeepsInv ==
  ASSUME BodyInv, PausePanic \/ PanicCall
  PROVE  BodyInv'
<1>1. /\ Types /\ Follows /\ PlaysIfAsked /\ events' \in 0..MaxEvents
      /\ call \in {Idle, [op |-> "pause"]} /\ call' \in {Idle, [op |-> "pause"]}
      /\ UNCHANGED <<state, plan, sources, ctrl, interrupted, mail, asked, stray>>
  BY EnterFacts DEF PausePanic, PanicCall, BodyInv, Types
<1>2. OutputsHush
  BY <1>1, PanicsHush DEF PausePanic, PanicCall
<1>3. SourcesMove
  <2>1. ctrl' = [s \in Slots |-> ctrl'[s]] /\ mail' = [n \in Nodes |-> mail'[n]]
    BY <1>1 DEF Types
  <2>2. ASSUME NEW n \in Nodes
        PROVE  /\ mail'[n] = Posted(mail[n], "none")
               /\ n \in DOMAIN plan => Succeeds(At(n), ctrl'[<<n, sources[n]>>], "none")
    BY <1>1, StaysPut, OpenSlots DEF Posted, At
  <2>3. QED BY <2>1, <2>2 DEF SourcesMove
<1>4. QED BY <1>1, <1>2, <1>3, CallStep DEF Types, PlaysIfAsked, At

-----------------------------------------------------------------------------
(* The activation of a graph.                                               *)

LEMMA PauseSendsNothing ==
  ASSUME NEW c, NEW o \in Does("pause", c)
  PROVE  o.sent = "none"
  BY DEF Does, ByKind, VideoPause, CameraPause, Same, Outcome

\* A candidate is a controller of its own slot, open but not playing.
LEMMA CandidateFacts ==
  ASSUME NEW p \in Plans, NEW n \in DOMAIN p, NEW c \in Created(n, p[n].source)
  PROVE  /\ c \in Proper /\ c.config = p[n].source /\ c.state \in {"IDLE", "ERROR"}
         /\ c.kind = "failed" => c.state = "ERROR"
         /\ c.kind # "failed" => c.state = "IDLE"
<1>1. p[n].source \in Configs
  BY DEF Configs
<1>2. c.config = p[n].source /\ ~c.hand /\ c.hand \in BOOLEAN
  <2>1. c.config = p[n].source
    BY DEF Created
  <2>2. c.hand = FALSE
    BY DEF Created
  <2>3. QED BY <2>1, <2>2
<1>3. \/ c.kind \in {"video", "camera"} /\ c.state = "IDLE"
      \/ c.kind = "failed" /\ c.state = "ERROR"
  BY DEF Created
<1>4. c = [kind |-> c.kind, config |-> c.config, state |-> c.state, hand |-> c.hand]
  BY DEF Created
<1>5. c \in Controller
  <2>1. c.kind \in {"video", "camera", "failed"} /\ c.state \in SourceStates
    BY <1>3 DEF SourceStates
  <2>2. c.config \in Configs
    BY <1>1, <1>2
  <2>3. QED BY <1>2, <1>4, <2>1, <2>2, Zenon DEF Controller
<1>6. QED BY <1>2, <1>3, <1>5 DEF Proper

LEMMA ActivateKeepsInv ==
  ASSUME BodyInv, Activate
  PROVE  BodyInv'
<1>1. /\ Enter
      /\ UNCHANGED <<state, plan, sources, interrupted, mail, busy, sounding, asked, stray>>
  BY DEF Activate
<1> DEFINE swap == {n \in Current : At(n).state \in Family}
<1>2. PICK p \in Plans, preserve \in BOOLEAN :
        LET reusable == Reusable(p, preserve)
            fresh == DOMAIN p \ reusable
        IN  \E made \in [fresh -> UNION {Created(n, p[n].source) : n \in fresh}],
               out \in Outcomes(swap, "pause") :
                /\ \A n \in fresh : made[n] \in Created(n, p[n].source)
                /\ ctrl' = [s \in Slots |->
                        IF s[1] \in fresh /\ s[2] = Slot(s[1]) THEN made[s[1]]
                        ELSE CtrlAfter(swap, out)[s]]
                /\ call' = [op |-> "drain", plan |-> p, preserve |-> preserve,
                             sources |-> [n \in DOMAIN p |->
                                IF n \in reusable THEN sources[n] ELSE Slot(n)],
                             old |-> [n \in Current |-> At(n).state]]
  BY DEF Activate
<1> DEFINE reusable == Reusable(p, preserve)
           fresh == DOMAIN p \ reusable
           slots == [n \in DOMAIN p |-> IF n \in reusable THEN sources[n] ELSE Slot(n)]
           states == [n \in Current |-> At(n).state]
<1>3. PICK made \in [fresh -> UNION {Created(n, p[n].source) : n \in fresh}],
           out \in Outcomes(swap, "pause") :
        /\ \A n \in fresh : made[n] \in Created(n, p[n].source)
        /\ ctrl' = [s \in Slots |-> IF s[1] \in fresh /\ s[2] = Slot(s[1]) THEN made[s[1]]
                                    ELSE CtrlAfter(swap, out)[s]]
        /\ call' = [op |-> "drain", plan |-> p, preserve |-> preserve, sources |-> slots,
                    old |-> states]
  BY <1>2
<1>4. /\ Types /\ Follows /\ PlaysIfAsked /\ Silences /\ Current = DOMAIN plan
      /\ DOMAIN plan \subseteq Nodes /\ DOMAIN p \subseteq Nodes /\ events' \in 0..MaxEvents
      /\ swap \in SUBSET DOMAIN plan /\ sources \in [DOMAIN plan -> {0, 1}]
  BY <1>1, EnterFacts, CurrentIsPlan, EngineAssumption DEF BodyInv, Types
<1>5. \A n \in Nodes : Slot(n) \in {0, 1} /\ (n \in DOMAIN plan => Slot(n) # sources[n])
  BY <1>4 DEF Slot
<1>6. \A n \in reusable : n \in DOMAIN p /\ n \in DOMAIN plan /\ p[n].source = plan[n].source
  BY DEF Reusable
<1> DEFINE ctl == CtrlAfter(swap, out)
<1>7. /\ \A n \in swap : ctl[<<n, sources[n]>>] = out[n].ctrl
      /\ \A n \in DOMAIN plan \ swap : ctl[<<n, sources[n]>>] = At(n)
      /\ \A s \in Slots \ SlotsOf(sources) : ctl[s] = ctrl[s]
  <2>1. swap \in SUBSET swap
    OBVIOUS
  <2>2. QED BY <1>4, <2>1, CommandMoves
<1> HIDE DEF swap, ctl, reusable, slots, states
\* The open sources do what a pause does to them.
<1>8. ASSUME NEW n \in DOMAIN plan
      PROVE  /\ ctrl'[<<n, sources[n]>>] = ctl[<<n, sources[n]>>]
             /\ Succeeds(At(n), ctl[<<n, sources[n]>>], "none")
             /\ ctl[<<n, sources[n]>>].state \notin Family
  <2>1. <<n, sources[n]>> \in Slots /\ sources[n] # Slot(n)
    BY <1>4, <1>5, CurrentIsPlan
  <2>2. ctrl'[<<n, sources[n]>>] = ctl[<<n, sources[n]>>]
    BY <1>3, <2>1 DEF ctl
  <2>3. CASE n \in swap
    <3>1. Succeeds(At(n), out[n].ctrl, out[n].sent) /\ out[n].ctrl.state \notin Family
      BY <1>4, <2>3, OutcomeOf
    <3>2. out[n].sent = "none"
      BY <2>3, PauseSendsNothing DEF Outcomes
    <3>3. QED BY <1>7, <2>2, <2>3, <3>1, <3>2
  <2>4. CASE n \notin swap
    <3>1. Succeeds(At(n), At(n), "none")
      BY <1>4, StaysPut, OpenSlots
    <3>2. At(n).state \notin Family
      BY <1>4, <2>4 DEF swap
    <3>3. QED BY <1>7, <2>2, <2>4, <3>1, <3>2
  <2>5. QED BY <2>3, <2>4
\* The other slots are free, but for the candidates.
<1>9. ASSUME NEW s \in Slots \ SlotsOf(sources)
      PROVE  \/ s[1] \in fresh /\ s = <<s[1], Slot(s[1])>> /\ ctrl'[s] = made[s[1]]
             \/ ctrl'[s] = ctrl[s]
  <2>1. s = <<s[1], s[2]>>
    BY DEF Slots
  <2>2. QED BY <1>3, <1>7, <2>1 DEF ctl
<1>10. ASSUME NEW n \in fresh
       PROVE  /\ <<n, Slot(n)>> \in Slots \ SlotsOf(sources) /\ n \in Nodes
              /\ ctrl'[<<n, Slot(n)>>] \in Created(n, p[n].source)
              /\ ctrl'[<<n, Slot(n)>>] \in Proper
  <2>1. n \in Nodes /\ <<n, Slot(n)>> \in Slots
    BY <1>4, <1>5 DEF Slots
  <2>2. <<n, Slot(n)>> \notin SlotsOf(sources)
    BY <1>4, <1>5, <2>1, CurrentIsPlan DEF SlotsOf
  <2>3. ctrl'[<<n, Slot(n)>>] = made[n]
    BY <1>3, <2>1
  <2>4. n \in DOMAIN p
    OBVIOUS
  <2>5. QED BY <1>3, <2>1, <2>2, <2>3, <2>4, CandidateFacts
<1>11. ctrl' \in [Slots -> Proper]
  <2>1. ASSUME NEW s \in Slots PROVE ctrl'[s] \in Proper
    <3>1. CASE s \in SlotsOf(sources)
      <4>1. s[1] \in DOMAIN plan /\ s = <<s[1], sources[s[1]]>>
        BY <1>4, <3>1, CurrentIsPlan
      <4>2. QED BY <1>8, <4>1 DEF Succeeds
    <3>2. CASE s \notin SlotsOf(sources)
      BY <1>4, <1>9, <1>10, <3>2 DEF Types
    <3>3. QED BY <3>1, <3>2
  <2>2. QED BY <1>3, <2>1
<1>12. SourcesMove
  <2>1. ctrl' = [s \in Slots |-> ctrl'[s]] /\ mail' = [n \in Nodes |-> mail'[n]]
    BY <1>1, <1>4, <1>11 DEF Types
  <2>2. ASSUME NEW n \in Nodes
        PROVE  /\ mail'[n] = Posted(mail[n], "none")
               /\ n \in DOMAIN plan => Succeeds(At(n), ctrl'[<<n, sources[n]>>], "none")
    BY <1>1, <1>8 DEF Posted
  <2>3. QED BY <2>1, <2>2 DEF SourcesMove
<1>13. slots \in [DOMAIN p -> {0, 1}] /\ states \in [DOMAIN plan -> SourceStates]
  <2>1. \A n \in DOMAIN plan : At(n).state \in SourceStates
    BY <1>4, OpenSlots
  <2>2. states \in [DOMAIN plan -> SourceStates]
    BY <1>4, <2>1 DEF states
  <2>3. \A n \in DOMAIN p : (IF n \in reusable THEN sources[n] ELSE Slot(n)) \in {0, 1}
    BY <1>4, <1>5, <1>6
  <2>4. QED BY <2>2, <2>3 DEF slots
<1>14. /\ call'.op = "drain" /\ call'.plan = p /\ call'.preserve = preserve
       /\ call'.sources = slots /\ call'.old = states
       /\ call' \in Swaps
  BY <1>3, <1>4, <1>13 DEF Swaps
<1>15. Types'
  <2>1. Swap(call)'
    BY <1>1, <1>13, <1>14 DEF Swap, Swaps
  <2>2. QED BY <1>1, <1>4, <1>11, <2>1 DEF Types
<1>16. Fresh' = fresh /\ Swapping' /\ SlotsOf(sources)' = SlotsOf(sources)
       /\ \A n \in fresh : slots[n] = Slot(n)
  BY <1>1, <1>14 DEF Fresh, Swapping, Reusable, reusable, slots
<1>17. Follows'
  <2>1. ASSUME NEW n \in DOMAIN plan'
        PROVE  At(n)'.state # "CLOSED" /\ At(n)'.config = plan'[n].source
    <3>1. n \in DOMAIN plan /\ At(n)' = ctl[<<n, sources[n]>>]
      BY <1>1, <1>8 DEF At
    <3>2. Succeeds(At(n), At(n)', "none") /\ At(n).config = plan[n].source
      BY <1>4, <1>8, <3>1 DEF Follows
    <3>3. QED BY <1>1, <3>2 DEF Succeeds
  <2>2. ASSUME NEW s \in Slots \ SlotsOf(sources)
        PROVE  ctrl'[s].state = "CLOSED" \/ s \in FreshSlots'
    <3>1. CASE s[1] \in fresh /\ s = <<s[1], Slot(s[1])>>
      BY <1>14, <1>16, <3>1 DEF FreshSlots
    <3>2. CASE ctrl'[s] = ctrl[s]
      BY <1>1, <1>4, <3>2 DEF Follows, Swapping, Enter, Idle
    <3>3. QED BY <1>9, <3>1, <3>2
  <2>3. ASSUME NEW n \in fresh
        PROVE  /\ n \in DOMAIN sources' => call'.sources[n] # sources'[n]
               /\ ctrl'[<<n, call'.sources[n]>>] \in Created(n, call'.plan[n].source)
    BY <1>1, <1>4, <1>5, <1>10, <1>14, <1>16
  <2>4. ASSUME NEW n \in DOMAIN call'.plan \ fresh
        PROVE  /\ n \in DOMAIN plan' /\ plan'[n].source = call'.plan[n].source
               /\ call'.sources[n] = sources'[n]
    BY <1>1, <1>6, <1>14 DEF slots
  <2>5. QED BY <1>16, <2>1, <2>2, <2>3, <2>4 DEF Follows
<1>18. PlaysIfAsked'
  <2>1. \A n \in DOMAIN plan' : At(n)'.state \notin Family
    BY <1>1, <1>8 DEF At
  <2>2. WasPlaying' \subseteq asked'
    <3>1. WasPlaying' = {n \in DOMAIN states : states[n] \in Family}
      BY <1>14 DEF WasPlaying
    <3>2. QED BY <1>1, <1>4, <3>1 DEF states, PlaysIfAsked
  <2>3. QED BY <1>1, <1>4, <2>1, <2>2 DEF PlaysIfAsked
<1>19. Silences'
  BY <1>1, <1>4, <1>12, MoveSilences DEF OutputsHush
<1>20. QED BY <1>15, <1>17, <1>18, <1>19 DEF BodyInv

LEMMA ClosedIsProper ==
  Closed \in Proper /\ Closed.state = "CLOSED"
<1>1. PICK p \in Plans : DOMAIN p # {}
  BY EngineAssumption
<1>2. Configs # {}
  BY <1>1 DEF Configs
<1>3. \E c \in Configs : TRUE
  BY <1>2
<1>4. (CHOOSE c \in Configs : TRUE) \in Configs
  BY <1>3, Zenon
<1> DEFINE any == CHOOSE c \in Configs : TRUE
           no == FALSE
<1> HIDE DEF any, no
<1>5. Closed = [kind |-> "failed", config |-> any, state |-> "CLOSED", hand |-> no]
  BY DEF Closed, any, no
<1>6. Closed.kind = "failed" /\ Closed.state = "CLOSED" /\ Closed.hand = no
  BY <1>5
<1>7. Closed \in Controller
  <2>1. "CLOSED" \in SourceStates /\ "failed" \in {"video", "camera", "failed"} /\ no \in BOOLEAN
    BY DEF SourceStates, no
  <2>2. QED BY <1>4, <1>5, <2>1, Zenon DEF Controller, any
<1>8. ~Closed.hand
  BY <1>6, Zenon DEF no
<1>9. QED BY <1>6, <1>7, <1>8 DEF Proper

LEMMA SwapFacts ==
  ASSUME Types, Swapping
  PROVE  /\ Swap(call) /\ call.op \in {"drain", "commit"} /\ call.plan \in Plans
         /\ call.preserve \in BOOLEAN
         /\ call.sources \in [DOMAIN call.plan -> {0, 1}]
         /\ call.old \in [DOMAIN plan -> SourceStates]
         /\ DOMAIN call.plan \subseteq Nodes /\ WasPlaying \subseteq DOMAIN plan
         /\ \A n \in DOMAIN call.plan : <<n, call.sources[n]>> \in Slots
<1>1. Swap(call)
  BY DEF Types, Swapping, Idle
<1>2. call.plan \in Plans /\ call.sources \in [DOMAIN call.plan -> {0, 1}]
      /\ call.old \in [DOMAIN plan -> SourceStates] /\ call.preserve \in BOOLEAN
      /\ call.op \in {"drain", "commit"}
  BY <1>1 DEF Swap, Swaps
<1>3. DOMAIN call.plan \subseteq Nodes
  BY <1>2, EngineAssumption
<1>4. \A n \in DOMAIN call.plan : <<n, call.sources[n]>> \in Slots
  BY <1>2, <1>3 DEF Slots
<1>5. WasPlaying \subseteq DOMAIN plan
  BY <1>2 DEF WasPlaying
<1>6. QED BY <1>1, <1>2, <1>3, <1>4, <1>5

\* What the sources of the new plan are before the swap: candidates, or the
\* controllers that are reused.
LEMMA NextSources ==
  ASSUME Types, Follows, Swapping, NEW n \in DOMAIN call.plan
  PROVE  LET c == ctrl[<<n, call.sources[n]>>] IN
         /\ c \in Proper /\ c.state # "CLOSED" /\ c.config = call.plan[n].source
         /\ n \in Fresh =>
              /\ c.state \in {"IDLE", "ERROR"} /\ (c.kind = "failed" => c.state = "ERROR")
              /\ ~Alive(c)
              /\ n \in DOMAIN plan => call.sources[n] # sources[n]
         /\ n \notin Fresh => n \in DOMAIN plan /\ call.sources[n] = sources[n] /\ c = At(n)
<1> DEFINE c == ctrl[<<n, call.sources[n]>>]
<1>1. CASE n \in Fresh
  <2>1. c \in Created(n, call.plan[n].source) /\ call.plan \in Plans
    BY <1>1, SwapFacts DEF Follows
  <2>2. /\ c \in Proper /\ c.config = call.plan[n].source /\ c.state \in {"IDLE", "ERROR"}
        /\ c.kind = "failed" => c.state = "ERROR"
        /\ c.kind # "failed" => c.state = "IDLE"
    BY <2>1, CandidateFacts
  <2>3. ~Alive(c)
    BY <2>2 DEF Alive, Family
  <2>4. n \in DOMAIN plan => call.sources[n] # sources[n]
    BY <1>1, CurrentIsPlan DEF Follows, Current
  <2>5. QED BY <1>1, <2>2, <2>3, <2>4
<1>2. CASE n \notin Fresh
  <2>1. /\ n \in DOMAIN plan /\ plan[n].source = call.plan[n].source
        /\ call.sources[n] = sources[n]
    BY <1>2 DEF Follows
  <2>2. c = At(n) /\ At(n).config = plan[n].source
    BY <2>1 DEF At, Follows
  <2>3. QED BY <1>2, <2>1, <2>2, OpenSlots
<1>3. QED BY <1>1, <1>2

LEMMA DrainedKeepsInv ==
  ASSUME BodyInv, Drained
  PROVE  BodyInv'
<1>1. /\ Types /\ Follows /\ PlaysIfAsked /\ Silences /\ Swapping
      /\ call' = [call EXCEPT !.op = "commit"]
      /\ UNCHANGED <<state, plan, sources, ctrl, interrupted, mail, busy, sounding, asked, stray,
                     events>>
  BY DEF BodyInv, Drained, Swapping
<1>2. Swap(call)
  BY <1>1, SwapFacts
<1>3. /\ call'.op = "commit" /\ call'.plan = call.plan /\ call'.preserve = call.preserve
      /\ call'.sources = call.sources /\ call'.old = call.old
      /\ call' \in Swaps
  BY <1>1, <1>2 DEF Swap, Swaps
<1>4. Swap(call)'
  BY <1>1, <1>2, <1>3 DEF Swap, Swaps
<1>5. Types'
  BY <1>1, <1>4 DEF Types
<1>6. Fresh' = Fresh /\ FreshSlots' = FreshSlots /\ Swapping' /\ WasPlaying' = WasPlaying
      /\ SlotsOf(sources)' = SlotsOf(sources)
  BY <1>1, <1>3 DEF Fresh, FreshSlots, Swapping, Reusable, WasPlaying
<1>7. Follows'
  BY <1>1, <1>3, <1>6 DEF Follows, At
<1>8. PlaysIfAsked'
  BY <1>1, <1>6 DEF PlaysIfAsked, At
<1>9. Silences'
  BY <1>1 DEF Silences, Silenced, Quiets, Gone, InHand, At
<1>10. QED BY <1>5, <1>7, <1>8, <1>9 DEF BodyInv

\* A timeout sets going again what was paused, and frees the candidates.
LEMMA TimedOutActs ==
  ASSUME BodyInv, TimedOut
  PROVE  /\ SourcesMove
         /\ \A n \in WasPlaying : At(n)'.state # "PAUSED"
         /\ \A n \in DOMAIN plan \ WasPlaying : At(n)' = At(n)
         /\ \A s \in Slots \ SlotsOf(sources) : ctrl'[s] \in Proper /\ ctrl'[s].state = "CLOSED"
<1>1. /\ Types /\ Follows /\ Swapping /\ UNCHANGED sources
  BY DEF BodyInv, TimedOut, Swapping
<1>2. PICK out \in Outcomes(WasPlaying, "resume") :
        /\ ctrl' = [s \in Slots |->
              IF s \in {<<n, call.sources[n]>> : n \in Fresh} THEN Closed
              ELSE CtrlAfter(WasPlaying, out)[s]]
        /\ mail' = MailAfter(WasPlaying, out)
  BY DEF TimedOut
<1> DEFINE ctl == CtrlAfter(WasPlaying, out)
<1>3. /\ mail' = [n \in Nodes |-> mail'[n]]
      /\ \A n \in WasPlaying : ctl[<<n, sources[n]>>] = out[n].ctrl
      /\ \A n \in DOMAIN plan \ WasPlaying : ctl[<<n, sources[n]>>] = At(n)
      /\ \A s \in Slots \ SlotsOf(sources) : ctl[s] = ctrl[s]
      /\ \A n \in Nodes : \E sent \in Commands \cup {"none"} :
           /\ mail'[n] = Posted(mail[n], sent)
           /\ n \in DOMAIN plan => Succeeds(At(n), ctl[<<n, sources[n]>>], sent)
           /\ n \notin DOMAIN plan => sent = "none"
  <2>1. WasPlaying \in SUBSET DOMAIN plan /\ WasPlaying \in SUBSET WasPlaying
    BY <1>1, SwapFacts
  <2>2. QED BY <1>1, <1>2, <2>1, CommandMoves
<1> HIDE DEF ctl
<1>4. ASSUME NEW n \in DOMAIN plan
      PROVE  ctrl'[<<n, sources[n]>>] = ctl[<<n, sources[n]>>] /\ At(n)' = ctl[<<n, sources[n]>>]
  <2>1. <<n, sources[n]>> \in Slots
    BY <1>1, CurrentIsPlan
  <2>2. <<n, sources[n]>> \notin {<<m, call.sources[m]>> : m \in Fresh}
    BY <1>1, NextSources DEF Fresh
  <2>3. QED BY <1>1, <1>2, <2>1, <2>2 DEF ctl, At
<1>5. ASSUME NEW s \in Slots \ SlotsOf(sources)
      PROVE  ctrl'[s] \in Proper /\ ctrl'[s].state = "CLOSED"
  <2>1. CASE s \in FreshSlots
    BY <1>2, <2>1, ClosedIsProper DEF FreshSlots
  <2>2. CASE s \notin FreshSlots
    <3>1. ctrl'[s] = ctrl[s]
      BY <1>2, <1>3, <2>2 DEF FreshSlots, ctl
    <3>2. QED BY <1>1, <2>2, <3>1 DEF Follows, Types
  <2>3. QED BY <2>1, <2>2
<1>6. SourcesMove
  <2>1. ctrl' = [s \in Slots |-> ctrl'[s]]
    BY <1>2
  <2>2. QED BY <1>3, <1>4, <2>1 DEF SourcesMove
<1>7. ASSUME NEW n \in WasPlaying PROVE At(n)'.state # "PAUSED"
  <2>1. n \in DOMAIN plan /\ WasPlaying \in SUBSET DOMAIN plan
    BY <1>1, SwapFacts
  <2>2. out[n].ctrl.state # "PAUSED"
    BY <1>1, <2>1, OutcomeOf
  <2>3. QED BY <1>3, <1>4, <2>1, <2>2
<1>8. QED BY <1>3, <1>4, <1>5, <1>6, <1>7

LEMMA TimedOutKeepsInv ==
  ASSUME BodyInv, TimedOut
  PROVE  BodyInv'
<1>1. /\ Types /\ Follows /\ PlaysIfAsked /\ Silences /\ Swapping /\ call' = Idle /\ ~Swapping'
      /\ UNCHANGED <<state, plan, sources, interrupted, busy, sounding, asked, stray, events>>
  BY DEF BodyInv, TimedOut, Swapping, Idle
<1>2. /\ SourcesMove
      /\ \A n \in DOMAIN plan \ WasPlaying : At(n)' = At(n)
      /\ \A s \in Slots \ SlotsOf(sources) : ctrl'[s] \in Proper /\ ctrl'[s].state = "CLOSED"
  BY TimedOutActs
<1>3. /\ mail' \in [Nodes -> Seq(Commands)] /\ \A n \in Nodes : Alternates(mail'[n])
      /\ \A n \in DOMAIN plan : ctrl'[<<n, sources[n]>>] \in Proper
  BY <1>1, <1>2, MoveTypes
<1>4. ctrl' \in [Slots -> Proper]
  <2>1. \A s \in Slots : ctrl'[s] \in Proper
    BY <1>1, <1>2, <1>3, CurrentIsPlan
  <2>2. QED BY <1>2, <2>1 DEF SourcesMove
<1>5. Types'
  BY <1>1, <1>3, <1>4 DEF Types
<1>6. Follows'
  <2>1. ASSUME NEW n \in DOMAIN plan'
        PROVE  At(n)'.state # "CLOSED" /\ At(n)'.config = plan'[n].source
    <3>1. n \in DOMAIN plan /\ n \in Nodes /\ At(n)' = ctrl'[<<n, sources[n]>>]
      BY <1>1, CurrentIsPlan DEF At
    <3>2. PICK sent \in Commands \cup {"none"} : Succeeds(At(n), At(n)', sent)
      BY <1>2, <3>1 DEF SourcesMove
    <3>3. QED BY <1>1, <3>1, <3>2 DEF Succeeds, Follows
  <2>2. SlotsOf(sources)' = SlotsOf(sources)
    BY <1>1 DEF SlotsOf
  <2>3. QED BY <1>1, <1>2, <2>1, <2>2 DEF Follows
<1>7. PlaysIfAsked'
  <2>1. \A n \in DOMAIN plan' : At(n)'.state \in Family => n \in asked'
    BY <1>1, <1>2 DEF PlaysIfAsked
  <2>2. QED BY <1>1, <2>1 DEF PlaysIfAsked
<1>8. Silences'
  BY <1>1, <1>2, MoveSilences DEF OutputsHush
<1>9. QED BY <1>5, <1>6, <1>7, <1>8 DEF BodyInv

\* The old sources that the swap closes, and what is queued after their last frame.
Leaving == {n \in Current : n \notin DOMAIN call.plan \/ n \in Fresh}
LastMail(n) == IF n \in Leaving /\ At(n).hand THEN Posted(mail[n], "frame") ELSE mail[n]

\* The swap: each source of the new plan goes on from what it was, and every other
\* slot is free.
LEMMA CommitActs ==
  ASSUME Types, Follows, Commit
  PROVE  /\ plan' = call.plan /\ sources' = call.sources
         /\ ctrl' = [s \in Slots |-> ctrl'[s]] /\ mail' = [n \in Nodes |-> mail'[n]]
         /\ \A n \in DOMAIN call.plan : \E sent \in Commands \cup {"none"} :
              /\ Succeeds(ctrl[<<n, call.sources[n]>>], At(n)', sent)
              /\ mail'[n] = Posted(LastMail(n), sent)
         /\ \A n \in DOMAIN call.plan \ Restarted : At(n)' = ctrl[<<n, call.sources[n]>>]
         /\ \A n \in DOMAIN call.plan \cap Restarted :
              /\ n \in Fresh => At(n)'.state \in Family \cup {"ERROR"}
              /\ n \notin Fresh => At(n)'.state # "PAUSED"
         /\ \A n \in Nodes \ DOMAIN call.plan : mail'[n] = LastMail(n)
         /\ \A s \in Slots \ SlotsOf(call.sources) :
              ctrl'[s] \in Proper /\ ctrl'[s].state = "CLOSED"
<1> DEFINE p == call.plan
           srcs == call.sources
           go == Restarted \cap DOMAIN p
           late == [n \in Nodes |-> IF n \in Leaving /\ At(n).hand THEN Posted(mail[n], "frame")
                                    ELSE mail[n]]
<1>1. Swapping /\ Current = DOMAIN plan /\ plan' = p /\ sources' = srcs
  BY CurrentIsPlan DEF Commit, Swapping
<1>2. PICK out \in [go -> UNION {RestartSource(n, ctrl[<<n, srcs[n]>>]) : n \in go}] :
        /\ \A n \in go : out[n] \in RestartSource(n, ctrl[<<n, srcs[n]>>])
        /\ ctrl' = [s \in Slots |->
                IF s \in {<<n, srcs[n]>> : n \in go} THEN out[s[1]].ctrl
                ELSE IF s \in {<<n, sources[n]>> : n \in Leaving} THEN Closed ELSE ctrl[s]]
        /\ mail' = [n \in Nodes |-> IF n \in go THEN Posted(late[n], out[n].sent) ELSE late[n]]
  BY DEF Commit, Leaving
<1>3. /\ DOMAIN p \subseteq Nodes /\ srcs \in [DOMAIN p -> {0, 1}]
      /\ \A n \in DOMAIN p : <<n, srcs[n]>> \in Slots
  BY <1>1, SwapFacts
<1>4. \A n \in Nodes : late[n] = LastMail(n)
  BY DEF LastMail
<1> HIDE DEF go, late
<1>5. ASSUME NEW n \in go
      PROVE  /\ ctrl'[<<n, srcs[n]>>] = out[n].ctrl
             /\ Succeeds(ctrl[<<n, srcs[n]>>], out[n].ctrl, out[n].sent)
             /\ n \in Fresh => out[n].ctrl.state \in Family \cup {"ERROR"}
             /\ n \notin Fresh => out[n].ctrl.state # "PAUSED"
  <2>1. n \in DOMAIN p
    BY DEF go
  <2>2. ctrl'[<<n, srcs[n]>>] = out[n].ctrl
    BY <1>2, <1>3, <2>1
  <2>3. LET c == ctrl[<<n, srcs[n]>>] IN
        /\ c \in Proper /\ c.state # "CLOSED"
        /\ n \in Fresh => c.state \in {"IDLE", "ERROR"} /\ (c.kind = "failed" => c.state = "ERROR")
    BY <1>1, <2>1, NextSources
  <2>4. out[n] \in Does(IF n \in Fresh THEN "play" ELSE "resume", ctrl[<<n, srcs[n]>>])
    BY <1>2 DEF RestartSource
  <2>5. CASE n \in Fresh
    <3>1. out[n] \in Does("play", ctrl[<<n, srcs[n]>>])
      BY <2>4, <2>5
    <3>2. QED BY <2>2, <2>3, <2>5, <3>1, PlayOutcome
  <2>6. CASE n \notin Fresh
    <3>1. out[n] \in Does("resume", ctrl[<<n, srcs[n]>>])
      BY <2>4, <2>6
    <3>2. QED BY <2>2, <2>3, <2>6, <3>1, ResumeOutcome
  <2>7. QED BY <2>5, <2>6
<1>6. ASSUME NEW n \in DOMAIN p, n \notin go
      PROVE  /\ ctrl'[<<n, srcs[n]>>] = ctrl[<<n, srcs[n]>>]
             /\ Succeeds(ctrl[<<n, srcs[n]>>], ctrl[<<n, srcs[n]>>], "none")
  <2>1. <<n, srcs[n]>> \notin {<<m, sources[m]>> : m \in Leaving}
    BY <1>1, NextSources DEF Leaving
  <2>2. <<n, srcs[n]>> \notin {<<m, srcs[m]>> : m \in go}
    BY <1>6
  <2>3. ctrl'[<<n, srcs[n]>>] = ctrl[<<n, srcs[n]>>]
    BY <1>2, <1>3, <2>1, <2>2
  <2>4. ctrl[<<n, srcs[n]>>] \in Proper /\ ctrl[<<n, srcs[n]>>].state # "CLOSED"
    BY <1>1, NextSources
  <2>5. QED BY <2>3, <2>4, StaysPut
<1>7. ASSUME NEW n \in DOMAIN p
      PROVE  \E sent \in Commands \cup {"none"} :
               /\ Succeeds(ctrl[<<n, srcs[n]>>], At(n)', sent)
               /\ mail'[n] = Posted(LastMail(n), sent)
  <2>1. n \in Nodes /\ At(n)' = ctrl'[<<n, srcs[n]>>]
    BY <1>1, <1>3 DEF At
  <2>2. CASE n \in go
    <3>1. /\ Succeeds(ctrl[<<n, srcs[n]>>], At(n)', out[n].sent)
          /\ out[n].sent \in Commands \cup {"none"}
      BY <1>5, <2>1, <2>2 DEF Succeeds
    <3>2. mail'[n] = Posted(LastMail(n), out[n].sent)
      BY <1>2, <1>4, <2>1, <2>2
    <3>3. QED BY <3>1, <3>2
  <2>3. CASE n \notin go
    <3>1. mail'[n] = Posted(LastMail(n), "none")
      BY <1>2, <1>4, <2>1, <2>3 DEF Posted
    <3>2. Succeeds(ctrl[<<n, srcs[n]>>], At(n)', "none")
      BY <1>6, <2>1, <2>3
    <3>3. QED BY <3>1, <3>2
  <2>4. QED BY <2>2, <2>3
<1>8. ASSUME NEW n \in DOMAIN p \ Restarted
      PROVE  At(n)' = ctrl[<<n, srcs[n]>>]
  <2>1. n \notin go
    BY DEF go
  <2>2. QED BY <1>1, <1>6, <2>1 DEF At
<1>9. ASSUME NEW n \in DOMAIN p \cap Restarted
      PROVE  /\ n \in Fresh => At(n)'.state \in Family \cup {"ERROR"}
             /\ n \notin Fresh => At(n)'.state # "PAUSED"
  <2>1. n \in go
    BY DEF go
  <2>2. At(n)' = out[n].ctrl
    BY <1>1, <1>5, <2>1 DEF At
  <2>3. QED BY <1>5, <2>1, <2>2
<1>10. \A n \in Nodes \ DOMAIN p : mail'[n] = LastMail(n)
  BY <1>2, <1>4 DEF go
<1>11. ASSUME NEW s \in Slots \ SlotsOf(srcs)
       PROVE  ctrl'[s] \in Proper /\ ctrl'[s].state = "CLOSED"
  <2>1. s \notin {<<n, srcs[n]>> : n \in go}
    BY <1>3 DEF SlotsOf, go
  <2>2. CASE s \in {<<n, sources[n]>> : n \in Leaving}
    BY <1>2, <2>1, <2>2, ClosedIsProper
  <2>3. CASE s \notin {<<n, sources[n]>> : n \in Leaving}
    <3>1. ctrl'[s] = ctrl[s]
      BY <1>2, <2>1, <2>3
    <3>2. s \notin SlotsOf(sources)
      <4>1. SUFFICES ASSUME s \in SlotsOf(sources) PROVE FALSE
        OBVIOUS
      <4>2. s[1] \in DOMAIN plan /\ s = <<s[1], sources[s[1]]>>
        BY <4>1, CurrentIsPlan
      <4>3. s[1] \in DOMAIN p /\ s[1] \notin Fresh
        BY <1>1, <2>3, <4>2 DEF Leaving
      <4>4. s = <<s[1], srcs[s[1]]>>
        BY <1>1, <4>2, <4>3, NextSources
      <4>5. QED BY <1>3, <4>3, <4>4 DEF SlotsOf
    <3>3. s \notin FreshSlots
      BY <1>3 DEF FreshSlots, Fresh, SlotsOf
    <3>4. QED BY <3>1, <3>2, <3>3 DEF Follows, Types
  <2>4. QED BY <2>2, <2>3
<1>12. ctrl' = [s \in Slots |-> ctrl'[s]] /\ mail' = [n \in Nodes |-> mail'[n]]
  BY <1>2
<1>13. QED BY <1>1, <1>7, <1>8, <1>9, <1>10, <1>11, <1>12

LEMMA CommitKeepsInv ==
  ASSUME BodyInv, Commit
  PROVE  BodyInv'
<1> DEFINE p == call.plan
           srcs == call.sources
           kept == Retained(p, call.preserve)
<1>1. /\ Types /\ Follows /\ PlaysIfAsked /\ Silences /\ Swapping /\ call' = Idle /\ ~Swapping'
      /\ sounding' = sounding \cap kept
      /\ busy' = (IF busy # Idle /\ busy.node \notin kept
                  THEN [busy EXCEPT !.stale = TRUE] ELSE busy)
      /\ state' = (IF interrupted # {} THEN Refreshed(srcs, ctrl') ELSE state)
      /\ interrupted' = {} /\ asked' = asked \cap DOMAIN p
      /\ UNCHANGED events
  BY DEF BodyInv, Commit, Swapping, Idle
<1>2. /\ plan' = p /\ sources' = srcs
      /\ ctrl' = [s \in Slots |-> ctrl'[s]] /\ mail' = [n \in Nodes |-> mail'[n]]
      /\ \A n \in DOMAIN p : \E sent \in Commands \cup {"none"} :
           /\ Succeeds(ctrl[<<n, srcs[n]>>], At(n)', sent)
           /\ mail'[n] = Posted(LastMail(n), sent)
      /\ \A n \in DOMAIN p \ Restarted : At(n)' = ctrl[<<n, srcs[n]>>]
      /\ \A n \in Nodes \ DOMAIN p : mail'[n] = LastMail(n)
      /\ \A s \in Slots \ SlotsOf(srcs) : ctrl'[s] \in Proper /\ ctrl'[s].state = "CLOSED"
  BY <1>1, CommitActs
<1>3. /\ p \in Plans /\ srcs \in [DOMAIN p -> {0, 1}] /\ DOMAIN p \subseteq Nodes
      /\ Current = DOMAIN plan
      /\ \A n \in DOMAIN p : <<n, srcs[n]>> \in Slots
  BY <1>1, SwapFacts, CurrentIsPlan
<1>4. stray' = stray \cup {n \in Leaving : LastMail(n) # <<>>}
  <2>1. \A n \in Leaving : n \in Nodes
    BY <1>1, CurrentIsPlan DEF Leaving
  <2>2. QED BY <2>1 DEF Commit, Leaving, LastMail
<1>5. kept \subseteq DOMAIN p \cap DOMAIN plan /\ kept \cap Fresh = {}
  BY DEF Retained, Reusable, Fresh
<1> HIDE DEF kept
<1>6. OutputsHush
  BY <1>1 DEF OutputsHush
<1>7. /\ sounding' \subseteq Nodes
      /\ busy' \in {Idle} \cup [op : Commands, node : Nodes, stale : BOOLEAN]
      /\ busy' # Idle <=> busy # Idle
      /\ busy # Idle => busy'.node = busy.node /\ busy'.op = busy.op /\ (busy.stale => busy'.stale)
  BY <1>1, <1>6, HushFacts
\* Outputs that are not kept are silent, and what is executing is stale for them.
<1>8. ASSUME NEW n, n \notin kept PROVE n \notin sounding' /\ (InHand(n)' => busy'.stale)
  <2>1. n \notin sounding'
    BY <1>1, <1>8
  <2>2. ASSUME InHand(n)' PROVE busy'.stale
    <3>1. busy # Idle /\ busy.node = n
      BY <1>7, <2>2 DEF InHand
    <3>2. busy \in [op : Commands, node : Nodes, stale : BOOLEAN]
      BY <1>1, <3>1 DEF Types
    <3>3. busy' = [busy EXCEPT !.stale = TRUE]
      BY <1>1, <1>8, <3>1
    <3>4. QED BY <3>2, <3>3
  <2>3. QED BY <2>1, <2>2
<1>9. ASSUME NEW n \in DOMAIN p
      PROVE  At(n)' = ctrl'[<<n, srcs[n]>>] /\ At(n)' \in Proper /\ At(n)'.state # "CLOSED"
             /\ At(n)'.config = p[n].source
  <2>1. PICK sent \in Commands \cup {"none"} : Succeeds(ctrl[<<n, srcs[n]>>], At(n)', sent)
    BY <1>2
  <2>2. ctrl[<<n, srcs[n]>>].config = p[n].source
    BY <1>1, NextSources
  <2>3. QED BY <1>2, <2>1, <2>2 DEF Succeeds, At
<1>10. Types'
  <2>1. ASSUME NEW s \in Slots PROVE ctrl'[s] \in Proper
    <3>1. CASE s \in SlotsOf(srcs)
      BY <1>3, <1>9, <3>1 DEF SlotsOf
    <3>2. QED BY <1>2, <3>1
  <2>2. ctrl' \in [Slots -> Proper]
    BY <1>2, <2>1
  <2>3. ASSUME NEW n \in Nodes
        PROVE  LastMail(n) \in Seq(Commands) /\ Alternates(LastMail(n))
    <3>1. mail[n] \in Seq(Commands) /\ Alternates(mail[n]) /\ "frame" \in Commands \cup {"none"}
      BY <1>1 DEF Types, Commands, Ticks
    <3>2. QED BY <3>1, PostedIsQueue DEF LastMail
  <2>4. ASSUME NEW n \in Nodes
        PROVE  mail'[n] \in Seq(Commands) /\ Alternates(mail'[n])
    <3>1. CASE n \in DOMAIN p
      <4>1. PICK sent \in Commands \cup {"none"} : mail'[n] = Posted(LastMail(n), sent)
        BY <1>2, <3>1
      <4>2. QED BY <2>3, <4>1, PostedIsQueue
    <3>2. CASE n \notin DOMAIN p
      BY <1>2, <2>3, <3>2
    <3>3. QED BY <3>1, <3>2
  <2>5. mail' \in [Nodes -> Seq(Commands)]
    BY <1>2, <2>4
  <2>6. state' \in {"STOPPED", "PAUSED", "RUNNING", "CLOSED"}
    BY <1>1, StatesAreShown DEF Types
  <2>7. QED BY <1>1, <1>2, <1>3, <1>7, <2>2, <2>4, <2>5, <2>6 DEF Types
<1>11. Follows'
  <2>1. \A n \in DOMAIN plan' : At(n)'.state # "CLOSED" /\ At(n)'.config = plan'[n].source
    BY <1>2, <1>9
  <2>2. SlotsOf(sources)' = SlotsOf(srcs)
    BY <1>2 DEF SlotsOf
  <2>3. QED BY <1>1, <1>2, <2>1, <2>2 DEF Follows
<1>12. PlaysIfAsked'
  <2>1. ASSUME NEW n \in DOMAIN p, At(n)'.state \in Family
        PROVE  n \in asked
    <3>1. CASE n \in Restarted
      BY <1>1, <3>1 DEF Restarted, PlaysIfAsked
    <3>2. CASE n \notin Restarted
      <4>1. At(n)' = ctrl[<<n, srcs[n]>>]
        BY <1>2, <3>2
      <4>2. n \notin Fresh
        BY <1>1, <2>1, <4>1, NextSources DEF Family
      <4>3. n \in DOMAIN plan /\ At(n)' = At(n)
        BY <1>1, <4>1, <4>2, NextSources
      <4>4. QED BY <1>1, <2>1, <4>3 DEF PlaysIfAsked
    <3>3. QED BY <3>1, <3>2
  <2>2. QED BY <1>1, <1>2, <2>1 DEF PlaysIfAsked
<1>13. ASSUME NEW n \in Nodes PROVE Silenced(n)'
  <2>1. CASE n \in stray'
    BY <2>1 DEF Silenced
  <2>2. CASE n \notin DOMAIN p /\ n \notin stray'
    <3>1. LastMail(n) = <<>>
      <4>1. CASE n \in Leaving
        BY <1>4, <2>2, <4>1
      <4>2. CASE n \notin Leaving
        <5>1. n \notin DOMAIN plan /\ n \notin stray
          BY <1>3, <1>4, <2>2, <4>2 DEF Leaving
        <5>2. QED BY <1>1, <4>2, <5>1 DEF Silences, Silenced, Gone, LastMail
      <4>3. QED BY <4>1, <4>2
    <3>2. mail'[n] = <<>> /\ n \notin kept
      BY <1>2, <1>5, <2>2, <3>1
    <3>3. QED BY <1>2, <1>8, <2>2, <3>2 DEF Silenced, Gone
  <2>3. CASE n \in Fresh /\ n \in DOMAIN p /\ n \notin stray'
    <3>1. LastMail(n) = <<>>
      <4>1. CASE n \in Leaving
        BY <1>4, <2>3, <4>1
      <4>2. CASE n \notin Leaving
        <5>1. n \notin DOMAIN plan /\ n \notin stray
          BY <1>3, <1>4, <2>3, <4>2 DEF Leaving
        <5>2. QED BY <1>1, <4>2, <5>1 DEF Silences, Silenced, Gone, LastMail
      <4>3. QED BY <4>1, <4>2
    <3>2. n \notin sounding' /\ (InHand(n)' => busy'.stale)
      BY <1>5, <1>8, <2>3
    <3>3. PICK sent \in Commands \cup {"none"} :
            /\ Succeeds(ctrl[<<n, srcs[n]>>], At(n)', sent)
            /\ mail'[n] = Posted(<<>>, sent)
      BY <1>2, <2>3, <3>1
    <3>4. ~Alive(ctrl[<<n, srcs[n]>>])
      BY <1>1, <2>3, NextSources
    <3>5. CASE sent \in Resets \cup {"outage"}
      <4>1. <<>> \in Seq(Commands) /\ Alternates(<<>>)
        BY DEF Alternates
      <4>2. mail'[n] # <<>> /\ mail'[n][Len(mail'[n])] # "frame"
        BY <3>3, <3>5, <4>1, PostedIsQueue DEF Resets
      <4>3. QED BY <1>2, <2>3, <4>2 DEF Silenced, Quiets
    <3>6. CASE sent = "none"
      <4>1. mail'[n] = <<>>
        BY <3>3, <3>6 DEF Posted
      <4>2. Quiets(n)'
        BY <3>2, <4>1 DEF Quiets
      <4>3. QED BY <1>2, <2>3, <4>2 DEF Silenced
    <3>7. CASE Alive(At(n)')
      BY <1>2, <2>3, <3>7 DEF Silenced
    <3>8. QED BY <3>3, <3>4, <3>5, <3>6, <3>7 DEF Succeeds, Settles
  <2>4. CASE n \notin Fresh /\ n \in DOMAIN p /\ n \notin stray'
    <3>1. n \in DOMAIN plan /\ ctrl[<<n, srcs[n]>>] = At(n)
      BY <1>1, <2>4, NextSources
    <3>2. LastMail(n) = mail[n] /\ n \notin stray
      BY <1>4, <2>4 DEF LastMail, Leaving
    <3>3. Alive(At(n)) \/ Quiets(n)
      BY <1>1, <3>1, <3>2 DEF Silences, Silenced
    <3>4. PICK sent \in Commands \cup {"none"} :
            Succeeds(At(n), At(n)', sent) /\ mail'[n] = Posted(mail[n], sent)
      BY <1>2, <2>4, <3>1, <3>2
    <3>5. CASE sent \in Resets \cup {"outage"}
      <4>1. mail[n] \in Seq(Commands) /\ Alternates(mail[n])
        BY <1>1 DEF Types
      <4>2. sent # "none"
        BY <3>5 DEF Resets
      <4>3. /\ Posted(mail[n], sent) # <<>>
            /\ Posted(mail[n], sent)[Len(Posted(mail[n], sent))] # "frame"
        BY <3>5, <4>1, <4>2, PostedIsQueue
      <4>4. mail'[n] # <<>> /\ mail'[n][Len(mail'[n])] # "frame"
        BY <3>4, <4>3
      <4>5. QED BY <1>2, <2>4, <4>4 DEF Silenced, Quiets
    <3>6. CASE sent = "none" /\ ~Alive(At(n))
      <4>1. mail'[n] = mail[n]
        BY <3>4, <3>6 DEF Posted
      <4>2. Quiets(n)'
        BY <1>6, <1>7, <3>3, <3>6, <4>1 DEF Quiets, InHand, OutputsHush
      <4>3. QED BY <1>2, <2>4, <4>2 DEF Silenced
    <3>7. CASE Alive(At(n)')
      BY <1>2, <2>4, <3>7 DEF Silenced
    <3>8. QED BY <3>4, <3>5, <3>6, <3>7 DEF Succeeds, Settles
  <2>5. QED BY <2>1, <2>2, <2>3, <2>4
<1>14. QED BY <1>10, <1>11, <1>12, <1>13 DEF BodyInv, Silences

\* The runtime is closed with its worker and its outputs.
LEMMA StopKeepsInv ==
  ASSUME BodyInv, StopWithoutSignal \/ Close
  PROVE  BodyInv'
<1>1. /\ Types /\ Follows /\ PlaysIfAsked
      /\ call = Idle /\ UNCHANGED call /\ events' \in 0..MaxEvents
      /\ state' \in {"STOPPED", "CLOSED"} /\ plan' = NoFun /\ sources' = NoFun
      /\ ctrl' = [s \in Slots |-> IF s \in SlotsOf(sources) THEN Closed ELSE ctrl[s]]
      /\ mail' = [n \in Nodes |-> <<>>] /\ busy' = Idle /\ sounding' = {} /\ stray' = {}
  BY EnterFacts DEF StopWithoutSignal, Close, BodyInv, Types
<1>2. interrupted' \subseteq asked' /\ asked' \subseteq Nodes
  <2>1. CASE StopWithoutSignal
    <3>1. interrupted' = Remembered /\ asked' = asked
      BY <2>1 DEF StopWithoutSignal
    <3>2. Remembered \subseteq asked
      BY <1>1, CurrentIsPlan DEF Remembered, PlaysIfAsked
    <3>3. QED BY <1>1, <3>1, <3>2 DEF Types
  <2>2. CASE Close
    BY <2>2 DEF Close
  <2>3. QED BY <2>1, <2>2
<1>3. DOMAIN plan' = {} /\ ~Swapping' /\ sources' \in [DOMAIN plan' -> {0, 1}]
  BY <1>1 DEF NoFun, Swapping, Idle
<1>4. \A s \in Slots : ctrl'[s] \in Proper /\ ctrl'[s].state = "CLOSED"
  BY <1>1, ClosedIsProper DEF Follows, Swapping, Idle, Types
<1>5. <<>> \in Seq(Commands) /\ Alternates(<<>>)
  BY DEF Alternates
<1>6. ctrl' \in [Slots -> Proper] /\ mail' \in [Nodes -> Seq(Commands)]
      /\ \A n \in Nodes : mail'[n] = <<>>
  BY <1>1, <1>4, <1>5
<1>7. Types'
  <2>1. interrupted' \subseteq Nodes
    BY <1>2
  <2>2. \A n \in Nodes : Alternates(mail'[n])
    BY <1>5, <1>6
  <2>3. QED BY <1>1, <1>2, <1>3, <1>6, <2>1, <2>2 DEF Types
<1>8. Follows'
  BY <1>3, <1>4 DEF Follows
<1>9. PlaysIfAsked'
  BY <1>1, <1>2, <1>3 DEF PlaysIfAsked
<1>10. Silences'
  BY <1>1, <1>3, <1>6 DEF Silences, Silenced, Gone, InHand
<1>11. QED BY <1>7, <1>8, <1>9, <1>10 DEF BodyInv

LEMMA InitBodyInv ==
  ASSUME Init
  PROVE  BodyInv
<1>1. DOMAIN plan = {} /\ ~Swapping /\ sources \in [DOMAIN plan -> {0, 1}] /\ plan = NoFun
  BY DEF Init, NoFun, Swapping, Idle
<1>2. \A s \in Slots : ctrl[s] \in Proper /\ ctrl[s].state = "CLOSED"
  BY ClosedIsProper DEF Init
<1>3. <<>> \in Seq(Commands) /\ Alternates(<<>>)
  BY DEF Alternates
<1>4. Types
  <2>1. ctrl \in [Slots -> Proper]
    BY <1>2 DEF Init
  <2>2. mail \in [Nodes -> Seq(Commands)] /\ \A n \in Nodes : Alternates(mail[n])
    BY <1>3 DEF Init
  <2>3. events \in 0..MaxEvents
    BY EngineAssumption DEF Init
  <2>4. QED BY <1>1, <2>1, <2>2, <2>3 DEF Init, Types
<1>5. Follows /\ PlaysIfAsked
  BY <1>1, <1>2 DEF Follows, PlaysIfAsked, Init
<1>6. Silences
  BY <1>1 DEF Silences, Silenced, Gone, InHand, Init
<1>7. QED BY <1>4, <1>5, <1>6 DEF BodyInv

LEMMA StutterKeepsInv ==
  ASSUME BodyInv, UNCHANGED vars
  PROVE  BodyInv'
<1>1. /\ Types /\ Follows /\ PlaysIfAsked /\ Silences
      /\ UNCHANGED <<state, plan, sources, ctrl, interrupted, call, mail, busy, sounding, asked, stray,
                     events>>
  BY DEF BodyInv, vars
<1>2. Types'
  BY <1>1 DEF Types, Swap, Swaps
<1>3. Follows' /\ PlaysIfAsked'
  BY <1>1 DEF Follows, PlaysIfAsked, At, Swapping, FreshSlots, Fresh, Reusable, WasPlaying
<1>4. Silences'
  BY <1>1 DEF Silences, Silenced, Quiets, Gone, InHand, At
<1>5. QED BY <1>2, <1>3, <1>4 DEF BodyInv

LEMMA BodyInvHolds == Spec => []BodyInv
<1>1. ASSUME BodyInv, [Next]_vars PROVE BodyInv'
  <2>1. CASE \E n \in Nodes : Take(n)
    BY <1>1, <2>1, TakeKeepsInv
  <2>2. CASE Finish
    BY <1>1, <2>2, FinishKeepsInv
  <2>3. CASE \E n \in Nodes : Source(n)
    BY <1>1, <2>3, SourceKeepsInv
  <2>4. CASE Play
    BY <1>1, <2>4, PlayKeepsInv
  <2>5. CASE Resume
    BY <1>1, <2>5, ResumeKeepsInv
  <2>6. CASE Pause
    BY <1>1, <2>6, PauseKeepsInv
  <2>7. CASE Stop \/ Reload
    BY <1>1, <2>7, HaltKeepsInv DEF Stop, Reload
  <2>8. CASE PausePanic \/ PanicCall
    BY <1>1, <2>8, PanicKeepsInv
  <2>9. CASE Activate
    BY <1>1, <2>9, ActivateKeepsInv
  <2>10. CASE Drained
    BY <1>1, <2>10, DrainedKeepsInv
  <2>11. CASE TimedOut
    BY <1>1, <2>11, TimedOutKeepsInv
  <2>12. CASE Commit
    BY <1>1, <2>12, CommitKeepsInv
  <2>13. CASE StopWithoutSignal \/ Close
    BY <1>1, <2>13, StopKeepsInv
  <2>14. CASE UNCHANGED vars
    BY <1>1, <2>14, StutterKeepsInv
  <2>15. QED
    BY <1>1, <2>1, <2>2, <2>3, <2>4, <2>5, <2>6, <2>7, <2>8, <2>9, <2>10, <2>11, <2>12, <2>13,
       <2>14
       DEF Next, Worker, Body
<1>2. QED BY <1>1, InitBodyInv, PTL DEF Spec

\* The variables of the engine body keep their types, and between two resets a
\* source has at most one tick in the queue of the worker (the mailbox of
\* graph_worker.py as publish and reset_source leave it).
THEOREM BodyTypeCorrect == Spec => []TypeOK
<1>1. ASSUME BodyInv PROVE TypeOK
  <2>1. Types /\ Current = DOMAIN plan /\ DOMAIN plan \subseteq Nodes
    BY <1>1, CurrentIsPlan DEF BodyInv
  <2>2. ctrl \in [Slots -> Controller]
    BY <2>1 DEF Types, Proper
  <2>3. call.op \in {"none", "pause", "drain", "commit"}
    BY <2>1 DEF Types, Swap, Swaps, Idle
  <2>4. \A n \in Nodes :
          /\ mail[n] \in Seq({"frame", "outage", "restart", "ended"})
          /\ \A i \in 1..Len(mail[n]) - 1 : IsTick(mail[n][i]) => ~IsTick(mail[n][i + 1])
    BY <2>1 DEF Types, Commands, Ticks, Resets, Alternates
  <2>5. busy # Idle => busy.node \in Nodes
    BY <2>1 DEF Types
  <2>6. QED BY <2>1, <2>2, <2>3, <2>4, <2>5 DEF Types, TypeOK
<1>2. QED BY <1>1, BodyInvHolds, PTL

\* Whatever is activated, fails, ends, disconnects or times out, and in every
\* order: between calls the open sources are those of the active plan and run its
\* configuration, every other controller is closed, and what plays was asked to.
THEOREM SourcesAreThoseOfThePlan == Spec => []SourcesFollowPlan
<1>1. ASSUME BodyInv PROVE SourcesFollowPlan
  <2>1. Types /\ Follows /\ PlaysIfAsked /\ Current = DOMAIN plan
    BY <1>1, CurrentIsPlan DEF BodyInv
  <2>2. call.op \in {"none", "pause"} => ~Swapping
    BY DEF Swapping
  <2>3. QED BY <2>1, <2>2 DEF SourcesFollowPlan, Follows, PlaysIfAsked
<1>2. QED BY <1>1, BodyInvHolds, PTL

\* When the worker has nothing left to do and no call is in progress, only the
\* outputs of a source that plays, is paused or has failed sound, but for a late
\* frame of a source that was replaced.
THEOREM NotesHaveLiveSources == Spec => []OnlyLiveSourcesSound
<1>1. ASSUME BodyInv PROVE OnlyLiveSourcesSound
  <2>1. Types /\ Silences /\ Current = DOMAIN plan
    BY <1>1, CurrentIsPlan DEF BodyInv
  <2>2. SUFFICES ASSUME WorkerIdle, NEW n \in sounding \ stray
                 PROVE  n \in Current /\ At(n).state \in Family \cup {"PAUSED", "ERROR"}
    BY DEF OnlyLiveSourcesSound
  <2>3. n \in Nodes /\ mail[n] = <<>> /\ ~InHand(n)
    BY <2>1, <2>2 DEF Types, WorkerIdle, InHand
  <2>4. QED BY <2>1, <2>2, <2>3 DEF Silences, Silenced, Gone, Quiets, Alive
<1>2. QED BY <1>1, BodyInvHolds, PTL

\* A swap, or one that is given up because the worker is not idle in time, leaves
\* no source paused that it found playing, and sets a replacement going.
THEOREM SwapKeepsPlaying == Spec => PlayingSurvivesSwap
<1> DEFINE Survives ==
      (call.op \in {"drain", "commit"} /\ call' = Idle)
        /\ (state = "RUNNING" \/ call.op = "drain") =>
        \A n \in WasPlaying \cap DOMAIN sources' :
          /\ At(n)'.state # "PAUSED"
          /\ sources'[n] # sources[n] => At(n)'.state \in Family \cup {"ERROR"}
<1>1. ASSUME BodyInv, [Next]_vars PROVE [Survives]_vars
  <2>1. CASE call.op \in {"drain", "commit"} /\ call' = Idle
    <3>1. TimedOut \/ Commit
      <4>1. call # Idle /\ call # [op |-> "pause"]
        BY <2>1 DEF Idle
      <4>2. ~UNCHANGED vars /\ ~Finish /\ ~\E n \in Nodes : Take(n)
        BY <2>1, <4>1 DEF vars, Finish, Take
      <4>3. ~\E n \in Nodes : Source(n)
        BY <2>1, <4>1 DEF Source, Becomes, Begin, Present, End, Fail, Disconnect, Opened
      <4>4. ~Play /\ ~Resume /\ ~Pause /\ ~PausePanic /\ ~Stop /\ ~Reload /\ ~PanicCall
        BY <4>1 DEF Play, Resume, Pause, PausePanic, Stop, Reload, Halt, PanicCall, Enter
      <4>5. ~Activate /\ ~StopWithoutSignal /\ ~Close
        BY <4>1 DEF Activate, StopWithoutSignal, Close, Enter
      <4>6. ~Drained
        <5>1. CASE Drained
          <6>1. Types /\ Swapping /\ call' = [call EXCEPT !.op = "commit"]
            BY <1>1, <2>1, <5>1 DEF BodyInv, Swapping, Drained
          <6>2. Swap(call)
            BY <6>1, SwapFacts
          <6>3. call'.op = "commit"
            BY <6>1, <6>2 DEF Swap, Swaps
          <6>4. QED BY <2>1, <6>3 DEF Idle
        <5>2. QED BY <5>1
      <4>7. QED BY <1>1, <4>2, <4>3, <4>4, <4>5, <4>6 DEF Next, Worker, Body
    <3>2. Types /\ Follows /\ Swapping
      BY <1>1, <2>1 DEF BodyInv, Swapping
    <3>3. CASE TimedOut
      BY <1>1, <3>3, TimedOutActs DEF TimedOut
    <3>4. CASE Commit
      <4>1. call.op = "commit" /\ sources' = call.sources /\ DOMAIN call.sources = DOMAIN call.plan
        BY <3>2, <3>4, CommitActs, SwapFacts DEF Commit
      <4>2. ASSUME state = "RUNNING", NEW n \in WasPlaying \cap DOMAIN sources'
            PROVE  /\ At(n)'.state # "PAUSED"
                   /\ sources'[n] # sources[n] => At(n)'.state \in Family \cup {"ERROR"}
        <5>1. n \in DOMAIN call.plan \cap Restarted
          BY <4>1, <4>2 DEF Restarted
        <5>2. CASE n \in Fresh
          BY <3>2, <3>4, <5>1, <5>2, CommitActs DEF Family
        <5>3. CASE n \notin Fresh
          BY <3>2, <3>4, <4>1, <5>1, <5>3, CommitActs, NextSources
        <5>4. QED BY <5>2, <5>3
      <4>3. QED BY <4>1, <4>2
    <3>5. QED BY <3>1, <3>3, <3>4
  <2>2. QED BY <2>1
<1>2. QED BY <1>1, BodyInvHolds, PTL DEF PlayingSurvivesSwap, Spec

-----------------------------------------------------------------------------
(* The scheduler.                                                           *)

\* A scheduler has one runtime for each node of its plan.
IsScheduler(s) ==
  /\ s = [plan |-> s.plan, owned |-> s.owned, cache |-> s.cache, borrowed |-> s.borrowed]
  /\ s.plan \in DOMAIN CompiledPlans \cup {0}
  /\ DOMAIN s.owned = DOMAIN NodesOf(s.plan)
  /\ \A n \in DOMAIN s.owned : s.owned[n] \in RuntimeSlots

SchedulerTypeOK ==
  /\ IsScheduler(active) /\ IsScheduler(prepared)
  /\ fed = [r \in Runtimes |-> fed[r]]

\* The candidate and the active scheduler share what is borrowed, with its
\* origin; what the candidate made itself is its own, and has seen nothing.
Shared ==
  /\ prepared.borrowed \subseteq DOMAIN prepared.owned \cap DOMAIN active.owned
  /\ \A n \in prepared.borrowed :
       /\ active.owned[n] = prepared.owned[n]
       /\ OriginOf(NodesOf(prepared.plan), n) = OriginOf(Active, n)
  /\ \A n \in DOMAIN prepared.owned \ prepared.borrowed :
       /\ <<n, prepared.owned[n]>> \notin Owned(active)
       /\ fed[<<n, prepared.owned[n]>>] = {}

\* The inductive invariant.
SchedulerInv ==
  /\ SchedulerTypeOK
  /\ Shared
  /\ OpenIsOwned
  /\ StateIsOfOneOrigin

-----------------------------------------------------------------------------
(* Facts about schedulers and plans.                                        *)

LEMMA OwnedFacts ==
  ASSUME NEW s
  PROVE  /\ \A n \in DOMAIN s.owned : <<n, s.owned[n]>> \in Owned(s)
         /\ \A r \in Owned(s) : r[1] \in DOMAIN s.owned /\ r = <<r[1], s.owned[r[1]]>>
  BY DEF Owned

LEMMA NoSchedulerFacts ==
  /\ IsScheduler(NoScheduler) /\ Owned(NoScheduler) = {}
  /\ DOMAIN NoScheduler.owned = {} /\ NoScheduler.borrowed = {} /\ NoScheduler.plan = 0
<1>1. /\ NoScheduler.plan = 0 /\ NoScheduler.owned = <<>>
      /\ NoScheduler.cache = <<>> /\ NoScheduler.borrowed = {}
  BY DEF NoScheduler
<1>2. DOMAIN <<>> = {}
  OBVIOUS
<1> QED
  BY <1>1, <1>2 DEF IsScheduler, Owned, NoScheduler, NodesOf

\* The runtimes of a scheduler are among those that can be.
LEMMA OwnedAreRuntimes ==
  ASSUME NEW s, IsScheduler(s)
  PROVE  Owned(s) \subseteq Runtimes
<1> SUFFICES ASSUME NEW n \in DOMAIN s.owned
             PROVE  <<n, s.owned[n]>> \in Runtimes
  BY DEF Owned
<1>1. CASE s.plan = 0
  BY <1>1 DEF IsScheduler, NodesOf
<1>2. CASE s.plan # 0
  <2>1. /\ s.plan \in DOMAIN CompiledPlans
        /\ n \in DOMAIN CompiledPlans[s.plan].nodes
        /\ s.owned[n] \in RuntimeSlots
    BY <1>2 DEF IsScheduler, NodesOf
  <2>2. n \in UNION {DOMAIN CompiledPlans[i].nodes : i \in DOMAIN CompiledPlans}
    BY <2>1
  <2> QED
    BY <2>1, <2>2 DEF Runtimes
<1> QED
  BY <1>1, <1>2

\* A node that keeps its runtime keeps its source, the configuration of its
\* source and its inputs (prepare_replacement).
LEMMA ReusableKeepsOrigin ==
  ASSUME KeysIdentify,
         NEW i \in DOMAIN CompiledPlans \cup {0}, NEW j \in DOMAIN CompiledPlans \cup {0},
         NEW n \in ReusableNodes(NodesOf(i), NodesOf(j))
  PROVE  /\ n \in DOMAIN NodesOf(i) \cap DOMAIN NodesOf(j)
         /\ OriginOf(NodesOf(i), n) = OriginOf(NodesOf(j), n)
<1> DEFINE new == NodesOf(i)
           old == NodesOf(j)
           clock == new[n].clock
<1>1. /\ n \in DOMAIN new /\ n \in DOMAIN old
      /\ old[n].key = new[n].key
      /\ clock \notin InvalidatedClocks(new, old)
  BY DEF ReusableNodes
<1>2. i # 0 /\ j # 0
  <2>1. DOMAIN NodesOf(0) = {}
    BY DEF NodesOf
  <2> QED
    BY <1>1, <2>1
<1>3. /\ new = CompiledPlans[i].nodes /\ old = CompiledPlans[j].nodes
      /\ i \in DOMAIN CompiledPlans /\ j \in DOMAIN CompiledPlans
  BY <1>2 DEF NodesOf
<1>4. old[n].clock = clock /\ old[n].inputs = new[n].inputs
  BY <1>1, <1>3 DEF KeysIdentify
<1>5. CASE clock = 0
  <2>1. clock \notin DOMAIN new /\ clock \notin DOMAIN old
    BY <1>3, <1>5 DEF KeysIdentify
  <2>2. OriginOf(new, n) = <<clock, 0, new[n].inputs>>
    BY <2>1 DEF OriginOf
  <2>3. OriginOf(old, n) = <<clock, 0, old[n].inputs>>
    BY <1>4, <2>1 DEF OriginOf
  <2> QED
    BY <1>1, <1>4, <2>2, <2>3
<1>6. CASE clock # 0
  <2>1. clock \in SourcesOf(new) /\ new[clock].clock = clock
    BY <1>1, <1>3, <1>6 DEF KeysIdentify
  <2>2. clock \in DOMAIN new /\ clock \in DOMAIN old /\ old[clock].key = new[clock].key
    BY <1>1, <2>1 DEF InvalidatedClocks, SourcesOf
  <2>3. OriginOf(new, n) = <<clock, new[clock].key, new[n].inputs>>
    BY <2>2 DEF OriginOf
  <2>4. OriginOf(old, n) = <<clock, old[clock].key, old[n].inputs>>
    BY <1>4, <2>2 DEF OriginOf
  <2> QED
    BY <1>1, <1>4, <2>2, <2>3, <2>4
<1> QED
  BY <1>1, <1>5, <1>6

-----------------------------------------------------------------------------
(* The steps.                                                               *)

LEMMA InitInv == SchedulerInit => SchedulerInv
<1> SUFFICES ASSUME SchedulerInit PROVE SchedulerInv
  OBVIOUS
<1>1. SchedulerTypeOK
  BY NoSchedulerFacts DEF SchedulerInit, SchedulerTypeOK
<1>2. Shared /\ OpenIsOwned /\ StateIsOfOneOrigin
  BY NoSchedulerFacts DEF SchedulerInit, Shared, OpenIsOwned, StateIsOfOneOrigin
<1> QED
  BY <1>1, <1>2 DEF SchedulerInv

\* While nothing is prepared, a node has a slot that is not in use.
LEMMA FreeSlotFacts ==
  ASSUME SchedulerInv, prepared = NoScheduler, NEW n
  PROVE  FreeSlot(n) \in RuntimeSlots /\ <<n, FreeSlot(n)>> \notin open
<1>1. open = Owned(active)
  BY NoSchedulerFacts DEF SchedulerInv, OpenIsOwned
<1>2. \E k \in RuntimeSlots : <<n, k>> \notin open
  <2>1. <<n, 0>> \in open /\ <<n, 1>> \in open => 0 = 1
    BY <1>1, OwnedFacts
  <2> QED
    BY <2>1 DEF RuntimeSlots
<1> QED
  BY <1>2 DEF FreeSlot

LEMMA PrepareInv ==
  ASSUME KeysIdentify, SchedulerInv, NEW p \in DOMAIN CompiledPlans, NEW preserve \in BOOLEAN,
         Prepare(p, preserve)
  PROVE  SchedulerInv'
<1> DEFINE kept == IF preserve THEN ReusableNodes(NodesOf(p), Active) \cap DOMAIN active.owned
                   ELSE {}
           slots == [n \in DOMAIN NodesOf(p) |->
                       IF n \in kept THEN active.owned[n] ELSE FreeSlot(n)]
           created == {<<n, slots[n]>> : n \in DOMAIN NodesOf(p) \ kept}
<1>1. /\ prepared = NoScheduler
      /\ prepared' = [plan |-> p, owned |-> slots, cache |-> <<>>, borrowed |-> kept]
      /\ open' = open \cup created
      /\ fed' = [r \in Runtimes |-> IF r \in created THEN {} ELSE fed[r]]
      /\ active' = active
  BY DEF Prepare
<1>2. /\ prepared'.plan = p /\ prepared'.owned = slots
      /\ prepared'.cache = <<>> /\ prepared'.borrowed = kept
      /\ DOMAIN slots = DOMAIN NodesOf(p)
  BY <1>1
<1>3. \A n \in kept : /\ n \in DOMAIN NodesOf(p) /\ n \in DOMAIN active.owned
                       /\ slots[n] = active.owned[n]
                       /\ OriginOf(NodesOf(p), n) = OriginOf(Active, n)
  <2> SUFFICES ASSUME NEW n \in kept
               PROVE  /\ n \in DOMAIN NodesOf(p) /\ n \in DOMAIN active.owned
                      /\ slots[n] = active.owned[n]
                      /\ OriginOf(NodesOf(p), n) = OriginOf(Active, n)
    OBVIOUS
  <2>1. n \in ReusableNodes(NodesOf(p), NodesOf(active.plan)) /\ n \in DOMAIN active.owned
    BY DEF Active
  <2>2. active.plan \in DOMAIN CompiledPlans \cup {0}
    BY DEF SchedulerInv, SchedulerTypeOK, IsScheduler
  <2>3. /\ n \in DOMAIN NodesOf(p)
        /\ OriginOf(NodesOf(p), n) = OriginOf(NodesOf(active.plan), n)
    BY <2>1, <2>2, ReusableKeepsOrigin
  <2> QED
    BY <2>1, <2>3 DEF Active
<1>4. \A n \in DOMAIN NodesOf(p) \ kept :
        slots[n] \in RuntimeSlots /\ <<n, slots[n]>> \notin open /\ <<n, slots[n]>> \in created
  BY <1>1, FreeSlotFacts
<1> HIDE DEF kept, slots
<1>5. IsScheduler(prepared')
  <2>1. \A n \in DOMAIN slots : slots[n] \in RuntimeSlots
    BY <1>2, <1>3, <1>4 DEF SchedulerInv, SchedulerTypeOK, IsScheduler
  <2> QED
    BY <1>1, <1>2, <2>1 DEF IsScheduler
<1>6. created \subseteq Runtimes /\ created \subseteq Owned(prepared')
  BY <1>2, <1>5, OwnedFacts, OwnedAreRuntimes
<1>7. open = Owned(active)
  BY <1>1, NoSchedulerFacts DEF SchedulerInv, OpenIsOwned
<1>8. SchedulerTypeOK'
  BY <1>1, <1>5 DEF SchedulerInv, SchedulerTypeOK
<1>9. Owned(active)' = Owned(active) /\ Active' = Active
  BY <1>1 DEF Active
<1>10. Shared'
  <2>1. \A n \in DOMAIN slots \ kept : fed'[<<n, slots[n]>>] = {}
    BY <1>1, <1>2, <1>4, <1>6
  <2> QED
    BY <1>1, <1>2, <1>3, <1>4, <1>7, <1>9, <2>1 DEF Shared
<1>11. OpenIsOwned'
  <2>1. Owned(prepared') \subseteq Owned(active) \cup created
    <3> SUFFICES ASSUME NEW n \in DOMAIN slots
                 PROVE  <<n, slots[n]>> \in Owned(active) \cup created
      BY <1>2 DEF Owned
    <3> QED
      BY <1>2, <1>3, <1>4, OwnedFacts
  <2> QED
    BY <1>1, <1>6, <1>7, <1>9, <2>1 DEF OpenIsOwned
<1>12. StateIsOfOneOrigin'
  <2>1. \A n \in DOMAIN active.owned :
          fed'[<<n, active.owned[n]>>] = fed[<<n, active.owned[n]>>]
    <3> SUFFICES ASSUME NEW n \in DOMAIN active.owned
                 PROVE  fed'[<<n, active.owned[n]>>] = fed[<<n, active.owned[n]>>]
      OBVIOUS
    <3>1. <<n, active.owned[n]>> \in Owned(active) /\ <<n, active.owned[n]>> \in Runtimes
      BY OwnedFacts, OwnedAreRuntimes DEF SchedulerInv, SchedulerTypeOK
    <3>2. <<n, active.owned[n]>> \notin created
      BY <1>4, <1>7, <3>1
    <3> QED
      BY <1>1, <3>1, <3>2
  <2> QED
    BY <1>1, <1>9, <2>1 DEF SchedulerInv, StateIsOfOneOrigin
<1> QED
  BY <1>8, <1>10, <1>11, <1>12 DEF SchedulerInv

LEMMA CancelPreparedInv == SchedulerInv /\ CancelPrepared => SchedulerInv'
<1> SUFFICES ASSUME SchedulerInv, CancelPrepared PROVE SchedulerInv'
  OBVIOUS
<1>1. /\ open' = open \ {r \in Owned(prepared) : r[1] \notin prepared.borrowed}
      /\ prepared' = NoScheduler /\ active' = active /\ fed' = fed
  BY DEF CancelPrepared
<1>2. Active' = Active /\ Owned(active)' = Owned(active)
  BY <1>1 DEF Active
<1>3. SchedulerTypeOK' /\ Shared'
  BY <1>1, NoSchedulerFacts DEF SchedulerInv, SchedulerTypeOK, Shared
<1>4. StateIsOfOneOrigin'
  BY <1>1, <1>2 DEF SchedulerInv, StateIsOfOneOrigin
<1>5. \A r \in Owned(prepared) : r[1] \in prepared.borrowed <=> r \in Owned(active)
  BY OwnedFacts DEF SchedulerInv, Shared
<1>6. OpenIsOwned'
  BY <1>1, <1>2, <1>5, NoSchedulerFacts DEF SchedulerInv, OpenIsOwned
<1> QED
  BY <1>3, <1>4, <1>6 DEF SchedulerInv

\* What closing leaves of the records of a runtime.
LEMMA ClosingFacts ==
  ASSUME NEW runtimes, Closing(runtimes), SchedulerTypeOK
  PROVE  /\ open' = open \ runtimes
         /\ fed' = [r \in Runtimes |-> fed'[r]]
         /\ \A r \in Runtimes : fed'[r] \subseteq fed[r]
  BY DEF Closing, SchedulerTypeOK

LEMMA CommitInv == SchedulerInv /\ CommitPrepared => SchedulerInv'
<1> SUFFICES ASSUME SchedulerInv, CommitPrepared PROVE SchedulerInv'
  OBVIOUS
<1> DEFINE left == {r \in Owned(active) : r[1] \notin prepared.borrowed}
<1>1. /\ active' = [prepared EXCEPT !.borrowed = {}]
      /\ prepared' = NoScheduler
      /\ Closing(left)
  BY DEF CommitPrepared
<1>2. active' = [plan |-> prepared.plan, owned |-> prepared.owned,
                 cache |-> prepared.cache, borrowed |-> {}]
  <2>1. prepared = [plan |-> prepared.plan, owned |-> prepared.owned,
                    cache |-> prepared.cache, borrowed |-> prepared.borrowed]
    BY DEF SchedulerInv, SchedulerTypeOK, IsScheduler
  <2> QED
    BY <1>1, <2>1
<1>3. /\ active'.plan = prepared.plan /\ active'.owned = prepared.owned
      /\ Active' = NodesOf(prepared.plan) /\ Owned(active') = Owned(prepared)
  BY <1>2 DEF Active, Owned
<1>4. /\ open' = open \ left
      /\ fed' = [r \in Runtimes |-> fed'[r]]
      /\ \A r \in Runtimes : fed'[r] \subseteq fed[r]
  BY <1>1, ClosingFacts DEF SchedulerInv
<1>5. SchedulerTypeOK'
  <2>1. IsScheduler(active')
    BY <1>2, <1>3 DEF SchedulerInv, SchedulerTypeOK, IsScheduler
  <2> QED
    BY <1>1, <1>4, <2>1, NoSchedulerFacts DEF SchedulerTypeOK
<1>6. Shared'
  BY <1>1, NoSchedulerFacts DEF Shared
<1>7. OpenIsOwned'
  <2>1. \A r \in Owned(active) : r[1] \in prepared.borrowed => r \in Owned(prepared)
    BY OwnedFacts DEF SchedulerInv, Shared
  <2>2. \A r \in left : r \notin Owned(prepared)
    BY OwnedFacts DEF SchedulerInv, Shared
  <2> QED
    BY <1>1, <1>3, <1>4, <2>1, <2>2, NoSchedulerFacts DEF SchedulerInv, OpenIsOwned
<1>8. StateIsOfOneOrigin'
  <2> SUFFICES ASSUME NEW n \in DOMAIN prepared.owned,
                      NEW i \in fed'[<<n, prepared.owned[n]>>]
               PROVE  OriginOf(NodesOf(i), n) = OriginOf(NodesOf(prepared.plan), n)
    BY <1>3 DEF StateIsOfOneOrigin
  <2>1. <<n, prepared.owned[n]>> \in Runtimes
    BY OwnedFacts, OwnedAreRuntimes DEF SchedulerInv, SchedulerTypeOK
  <2>2. i \in fed[<<n, prepared.owned[n]>>]
    BY <1>4, <2>1
  <2>3. n \in prepared.borrowed
    BY <2>2 DEF SchedulerInv, Shared
  <2>4. n \in DOMAIN active.owned /\ i \in fed[<<n, active.owned[n]>>]
    BY <2>2, <2>3 DEF SchedulerInv, Shared
  <2> QED
    BY <2>3, <2>4 DEF SchedulerInv, Shared, StateIsOfOneOrigin
<1> QED
  BY <1>5, <1>6, <1>7, <1>8 DEF SchedulerInv

LEMMA StopInv == SchedulerInv /\ StopScheduler => SchedulerInv'
<1> SUFFICES ASSUME SchedulerInv, StopScheduler PROVE SchedulerInv'
  OBVIOUS
<1>1. /\ prepared = NoScheduler /\ prepared' = NoScheduler
      /\ active' = NoScheduler /\ Closing(Owned(active))
  BY DEF StopScheduler
<1>2. /\ open' = open \ Owned(active)
      /\ fed' = [r \in Runtimes |-> fed'[r]]
  BY <1>1, ClosingFacts DEF SchedulerInv
<1>3. SchedulerTypeOK' /\ Shared' /\ StateIsOfOneOrigin'
  BY <1>1, <1>2, NoSchedulerFacts DEF SchedulerTypeOK, Shared, StateIsOfOneOrigin
<1>4. OpenIsOwned'
  BY <1>1, <1>2, NoSchedulerFacts DEF SchedulerInv, OpenIsOwned
<1> QED
  BY <1>3, <1>4 DEF SchedulerInv

\* A tick changes the cache of the active scheduler and nothing else of it, and
\* only runtimes of the active scheduler take something in, under its plan.
LEMMA TickFacts ==
  ASSUME SchedulerInv, NEW source, NEW failing, Tick(source, failing)
  PROVE  /\ prepared' = prepared /\ open' = open
         /\ active' = [active EXCEPT !.cache = active'.cache]
         /\ fed' = [r \in Runtimes |-> fed'[r]]
         /\ \A r \in Runtimes : fed'[r] \subseteq fed[r] \cup {active.plan}
         /\ \A r \in Runtimes \ Owned(active) : fed'[r] = fed[r]
<1> DEFINE nodes == Active
<1>1. PICK r \in {Executed(Active, CompiledPlans[active.plan].order, active.cache, source, failing)} :
        /\ active' = [active EXCEPT !.cache =
             [n \in {m \in DOMAIN r.has : nodes[m].static} |-> r.has[n]]]
        /\ fed' = [x \in Runtimes |->
             IF /\ x \in {y \in {z \in Owned(active) : z[1] \in r.ran} :
                            \A m \in nodes[y[1]].inputs : r.has[m]}
                /\ nodes[x[1]].kind \notin {"SOURCE", "STATELESS"}
               THEN fed[x] \cup {active.plan} ELSE fed[x]]
        /\ UNCHANGED <<prepared, open>>
  BY DEF Tick
<1> DEFINE cache == [n \in {m \in DOMAIN r.has : nodes[m].static} |-> r.has[n]]
           taking == {x \in Owned(active) :
                        /\ x[1] \in r.ran /\ \A m \in nodes[x[1]].inputs : r.has[m]
                        /\ nodes[x[1]].kind \notin {"SOURCE", "STATELESS"}}
<1>2. fed' = [x \in Runtimes |-> IF x \in taking THEN fed[x] \cup {active.plan} ELSE fed[x]]
  BY <1>1
<1>3. taking \subseteq Owned(active)
  OBVIOUS
<1> HIDE DEF taking
<1>4. active' = [active EXCEPT !.cache = active'.cache]
  <2>1. active' = [active EXCEPT !.cache = cache]
    BY <1>1
  <2> HIDE DEF cache
  <2>2. active = [plan |-> active.plan, owned |-> active.owned,
                  cache |-> active.cache, borrowed |-> active.borrowed]
    BY DEF SchedulerInv, SchedulerTypeOK, IsScheduler
  <2> QED
    BY <2>1, <2>2
<1> QED
  BY <1>1, <1>2, <1>3, <1>4

LEMMA TickInv ==
  ASSUME SchedulerInv, NEW source, NEW failing, Tick(source, failing)
  PROVE  SchedulerInv'
<1>1. /\ prepared' = prepared /\ open' = open
      /\ active' = [active EXCEPT !.cache = active'.cache]
      /\ fed' = [r \in Runtimes |-> fed'[r]]
      /\ \A r \in Runtimes : fed'[r] \subseteq fed[r] \cup {active.plan}
      /\ \A r \in Runtimes \ Owned(active) : fed'[r] = fed[r]
  BY TickFacts
<1>2. active' = [plan |-> active.plan, owned |-> active.owned,
                 cache |-> active'.cache, borrowed |-> active.borrowed]
  <2>1. active = [plan |-> active.plan, owned |-> active.owned,
                  cache |-> active.cache, borrowed |-> active.borrowed]
    BY DEF SchedulerInv, SchedulerTypeOK, IsScheduler
  <2> DEFINE cache == active'.cache
  <2>2. active' = [active EXCEPT !.cache = cache]
    BY <1>1
  <2> HIDE DEF cache
  <2>3. active' = [plan |-> active.plan, owned |-> active.owned,
                   cache |-> cache, borrowed |-> active.borrowed]
    BY <2>1, <2>2
  <2> QED
    BY <2>3 DEF cache
<1>3. /\ active'.plan = active.plan /\ active'.owned = active.owned
      /\ active'.borrowed = active.borrowed
      /\ Active' = Active /\ Owned(active') = Owned(active)
  BY <1>2 DEF Active, Owned
<1>4. SchedulerTypeOK'
  <2>1. IsScheduler(active')
    BY <1>2, <1>3 DEF SchedulerInv, SchedulerTypeOK, IsScheduler
  <2> QED
    BY <1>1, <2>1 DEF SchedulerInv, SchedulerTypeOK
<1>5. Shared'
  <2>1. \A n \in DOMAIN prepared.owned \ prepared.borrowed :
          fed'[<<n, prepared.owned[n]>>] = {}
    BY <1>1, OwnedFacts, OwnedAreRuntimes DEF SchedulerInv, SchedulerTypeOK, Shared
  <2> QED
    BY <1>1, <1>3, <2>1 DEF SchedulerInv, Shared
<1>6. OpenIsOwned'
  BY <1>1, <1>3 DEF SchedulerInv, OpenIsOwned
<1>7. StateIsOfOneOrigin'
  <2> SUFFICES ASSUME NEW n \in DOMAIN active.owned,
                      NEW i \in fed'[<<n, active.owned[n]>>]
               PROVE  OriginOf(NodesOf(i), n) = OriginOf(Active, n)
    BY <1>3 DEF StateIsOfOneOrigin
  <2>1. <<n, active.owned[n]>> \in Runtimes
    BY OwnedFacts, OwnedAreRuntimes DEF SchedulerInv, SchedulerTypeOK
  <2>2. i \in fed[<<n, active.owned[n]>>] \/ i = active.plan
    BY <1>1, <2>1
  <2> QED
    BY <2>2 DEF SchedulerInv, StateIsOfOneOrigin, Active
<1> QED
  BY <1>4, <1>5, <1>6, <1>7 DEF SchedulerInv

LEMMA ResetSourceInv ==
  ASSUME SchedulerInv, NEW source, ResetRuntimes(source)
  PROVE  SchedulerInv'
<1>1. /\ active' = active /\ prepared' = prepared /\ open' = open
      /\ fed' = [r \in Runtimes |-> fed'[r]]
      /\ \A r \in Runtimes : fed'[r] \subseteq fed[r]
  BY DEF ResetRuntimes
<1>2. Active' = Active /\ Owned(active)' = Owned(active) /\ Owned(prepared)' = Owned(prepared)
  BY <1>1 DEF Active
<1>3. SchedulerTypeOK'
  BY <1>1 DEF SchedulerInv, SchedulerTypeOK
<1>4. Shared'
  <2>1. \A n \in DOMAIN prepared.owned \ prepared.borrowed :
          fed'[<<n, prepared.owned[n]>>] = {}
    BY <1>1, OwnedFacts, OwnedAreRuntimes DEF SchedulerInv, SchedulerTypeOK, Shared
  <2> QED
    BY <1>1, <1>2, <2>1 DEF SchedulerInv, Shared
<1>5. OpenIsOwned'
  BY <1>1, <1>2 DEF SchedulerInv, OpenIsOwned
<1>6. StateIsOfOneOrigin'
  <2>1. \A n \in DOMAIN active.owned :
          fed'[<<n, active.owned[n]>>] \subseteq fed[<<n, active.owned[n]>>]
    BY <1>1, OwnedFacts, OwnedAreRuntimes DEF SchedulerInv, SchedulerTypeOK
  <2> QED
    BY <1>1, <1>2, <2>1 DEF SchedulerInv, StateIsOfOneOrigin
<1> QED
  BY <1>3, <1>4, <1>5, <1>6 DEF SchedulerInv

LEMMA UnchangedInv ==
  SchedulerInv /\ UNCHANGED <<active, prepared, open, fed>> => SchedulerInv'
  BY DEF SchedulerInv, SchedulerTypeOK, Shared, OpenIsOwned, StateIsOfOneOrigin, Active

LEMMA StepInv ==
  ASSUME KeysIdentify, SchedulerInv, [SchedulerNext]_schedulerVars
  PROVE  SchedulerInv'
<1>1. ASSUME NEW p \in DOMAIN CompiledPlans, NEW preserve \in BOOLEAN, Prepare(p, preserve) PROVE SchedulerInv'
  BY <1>1, PrepareInv
<1>2. CASE CancelPrepared
  BY <1>2, CancelPreparedInv
<1>3. CASE CommitPrepared
  BY <1>3, CommitInv
<1>4. CASE StopScheduler
  BY <1>4, StopInv
<1>5. CASE Panic
  BY <1>5, UnchangedInv DEF Panic
<1>6. ASSUME NEW s, NEW failing, Tick(s, failing) PROVE SchedulerInv'
  BY <1>6, TickInv
<1>7. ASSUME NEW s, ResetRuntimes(s) PROVE SchedulerInv'
  BY <1>7, ResetSourceInv
<1>8. CASE UNCHANGED schedulerVars
  BY <1>8, UnchangedInv DEF schedulerVars
<1> QED
  BY <1>1, <1>2, <1>3, <1>4, <1>5, <1>6, <1>7, <1>8 DEF SchedulerNext

\* For any plans with the keys of the compiler: what is open is exactly what the
\* active and the prepared scheduler own, whatever is committed, given up or
\* stopped, and the state of a runtime comes from one source in one
\* configuration through one set of bindings (prepare_replacement,
\* claim_borrowed_runtimes, close).
THEOREM RuntimesHaveOwners ==
  ASSUME KeysIdentify
  PROVE  SchedulerSpec => []RuntimesAreOwned
<1>1. SchedulerInv /\ [SchedulerNext]_schedulerVars => SchedulerInv'
  BY StepInv
<1>2. SchedulerInv => RuntimesAreOwned
  BY DEF SchedulerInv, RuntimesAreOwned
<1> QED
  BY <1>1, <1>2, InitInv, PTL DEF SchedulerSpec
=============================================================================
