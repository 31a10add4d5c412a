---------------------------- MODULE SourceProofs ----------------------------
(***************************************************************************)
(* Proofs about the two kinds of live source, and the region of a video.   *)
(*                                                                         *)
(* The first part is about a video: for any region, queue size and number  *)
(* of calls, and every interleaving of the decoder, the presentation       *)
(* thread, the preparation of the head and the calls of the engine body,   *)
(* each pass presents its frames once and in order, the reset that ends a  *)
(* source is the last thing it sends, and a source that is shown as        *)
(* playing has the threads it needs.  The second part is about a camera,   *)
(* for any number of calls, lost devices and reconnections.  The third is  *)
(* about the editor of the region a video loops over.                      *)
(***************************************************************************)
EXTENDS VideoSource, CameraSource, LoopRange, SequenceTheorems, TLAPS

USE VideoAssumption DEF Nil

FrameItem == [signal : {"frame"}, pts : 0..Last, index : 0..Last]
Items == FrameItem \cup {END, LOOP}

Busy == {"top", "consume", "run", "put", "after", "end", "loop"}
Decoder ==
  [pc : Busy, at : 0..(Last + 1), base : 0..(Last + 1), any : BOOLEAN, old : BOOLEAN]

Holds == {"due", "check", "publish"}
Holding == pre.pc \in Holds
Shows == {"top", "apply", "pick", "ended"} \cup Holds
Presenter == [pc : Shows, item : FrameItem \cup {Nil}, using : BOOLEAN, upto : Int]

Joining == {"start", "stop", "reload", "close"}
Calls == [op : {"none", "stop", "reload", "close", "seek"}] \cup [op : {"start"}, restart : BOOLEAN]
SourceStates == {"READY", "PLAYING", "PAUSED", "STOPPED", "ENDED", "ERROR", "CLOSED"}
Targets == 0..(Last + 1)

FlagTypes ==
  /\ loop \in BOOLEAN /\ stop \in BOOLEAN
  /\ seek \in [event : BOOLEAN, fresh : BOOLEAN, target : Targets, filter : Nil..(Last + 1)]
CallTypes ==
  /\ state \in SourceStates /\ call \in Calls
  /\ sent \in {"frame", "reset"} /\ trouble \in {"none", "pause", "break"}
HeadType == [staged : Seq(FrameItem), inUse : BOOLEAN, trigger : BOOLEAN]
FlowTypes ==
  /\ queue \in Seq(Items) /\ head \in HeadType
  /\ passStart \in 0..Last
DecoderType ==
  dec.pc # "none" =>
    /\ dec \in Decoder /\ (dec.pc = "put" => dec.at <= Last)
    /\ dec.pc \in {"run", "put"} => dec.base <= dec.at
PresenterType == pre.pc # "none" => pre \in Presenter /\ (Holding => pre.item \in FrameItem)
Types == FlagTypes /\ CallTypes /\ FlowTypes /\ DecoderType /\ PresenterType

LEMMA AppendFacts ==
    ASSUME NEW S, NEW q \in Seq(S), NEW x \in S
    PROVE  /\ Append(q, x) \in Seq(S) /\ Append(q, x) # <<>> /\ Len(Append(q, x)) = Len(q) + 1
           /\ \A i \in 1..Len(q) : Append(q, x)[i] = q[i]
           /\ Append(q, x)[Len(q) + 1] = x
           /\ DOMAIN Append(q, x) = 1..(Len(q) + 1) /\ DOMAIN q = 1..Len(q)
  OBVIOUS

LEMMA TailFacts ==
    ASSUME NEW S, NEW q \in Seq(S), q # <<>>
    PROVE  /\ Tail(q) \in Seq(S) /\ Len(q) \in Nat \ {0} /\ Len(Tail(q)) = Len(q) - 1
           /\ \A i \in 1..(Len(q) - 1) : Tail(q)[i] = q[i + 1]
           /\ Head(q) = q[1] /\ Head(q) \in S /\ q[Len(q)] \in S
           /\ DOMAIN Tail(q) = 1..(Len(q) - 1) /\ DOMAIN q = 1..Len(q)
           /\ (Tail(q) = <<>>) <=> (Len(q) = 1)
<1>1. Len(q) \in Nat \ {0}
  BY EmptySeq
<1>2. Tail(q) \in Seq(S) /\ Len(Tail(q)) = Len(q) - 1
  BY HeadTailProperties
<1>3. \A i \in 1..(Len(q) - 1) : Tail(q)[i] = q[i + 1]
  BY <1>2, HeadTailProperties
<1>4. Head(q) = q[1]
  BY <1>1
<1>5. Head(q) \in S
  BY HeadTailProperties
<1>6. q[Len(q)] \in S
  BY <1>1, ElementOfSeq
<1>7. DOMAIN Tail(q) = 1..(Len(q) - 1) /\ DOMAIN q = 1..Len(q)
  BY <1>2, LenProperties
<1>8. (Tail(q) = <<>>) <=> (Len(q) = 1)
  <2>1. ASSUME Tail(q) = <<>> PROVE Len(q) = 1
    <3>1. Len(Tail(q)) = Len(<<>>)
      BY <2>1, Zenon
    <3>2. Len(<<>>) = 0
      BY EmptySeq
    <3>3. Len(Tail(q)) = 0
      BY <3>1, <3>2, Zenon
    <3>4. Len(q) - 1 = 0
      BY <1>2, <3>3, Zenon
    <3> QED
      BY <1>1, <3>4
  <2>2. ASSUME Len(q) = 1 PROVE Tail(q) = <<>>
    <3>1. Len(Tail(q)) = 0
      BY <1>2, <2>2
    <3> QED
      BY <1>2, <3>1, EmptySeq
  <2> QED
    BY <2>1, <2>2
<1> QED
  BY <1>1, <1>2, <1>3, <1>4, <1>5, <1>6, <1>7, <1>8


-----------------------------------------------------------------------------
(* The values the variables take.                                          *)

\* An update of a seek keeps its type.
SeekType == [event : BOOLEAN, fresh : BOOLEAN, target : Targets, filter : Nil..(Last + 1)]
LEMMA SeekFacts ==
  ASSUME seek \in SeekType
  PROVE  /\ NoSeek \in SeekType /\ [NoSeek EXCEPT !.fresh = seek.fresh] \in SeekType
         /\ [seek EXCEPT !.event = FALSE, !.target = 0] \in SeekType
         /\ \A t \in Targets : [seek EXCEPT !.target = t, !.filter = t, !.fresh = TRUE] \in SeekType
<1>1. 0 \in Targets /\ Nil \in Nil..(Last + 1) /\ Targets \subseteq Nil..(Last + 1)
  BY DEF Targets
<1>2. NoSeek \in SeekType
  BY <1>1, Zenon DEF SeekType, NoSeek
<1>3. [NoSeek EXCEPT !.fresh = seek.fresh] \in SeekType
  BY <1>1 DEF SeekType, NoSeek
<1>4. \A x \in BOOLEAN, t \in Targets : [seek EXCEPT !.event = x, !.target = t] \in SeekType
  BY DEF SeekType
<1>5. [seek EXCEPT !.event = FALSE, !.target = 0] \in SeekType
  BY <1>1, <1>4, Zenon
<1>6. \A x \in BOOLEAN, t \in Targets :
        [seek EXCEPT !.target = t, !.filter = t, !.fresh = x] \in SeekType
  BY <1>1 DEF SeekType
<1>7. \A t \in Targets : [seek EXCEPT !.target = t, !.filter = t, !.fresh = TRUE] \in SeekType
  BY <1>6, Zenon
<1> QED
  BY <1>2, <1>3, <1>5, <1>7, Zenon

\* An update of a thread's record keeps its type.
LEMMA DecoderUpdates ==
  /\ \A d \in Decoder, p \in Busy : [d EXCEPT !.pc = p] \in Decoder
  /\ \A d \in Decoder, p \in Busy, x \in BOOLEAN : [d EXCEPT !.pc = p, !.any = x] \in Decoder
  /\ \A d \in Decoder, p \in Busy, a \in Targets : [d EXCEPT !.pc = p, !.at = a] \in Decoder
  /\ \A d \in Decoder, a, b \in Targets : [d EXCEPT !.at = a, !.base = b] \in Decoder
  /\ \A d \in Decoder, p \in Busy, a, b \in Targets :
       [d EXCEPT !.pc = p, !.at = a, !.base = b] \in Decoder
  /\ \A d \in Decoder, p \in Busy, a, b \in Targets, x \in BOOLEAN :
       [d EXCEPT !.pc = p, !.at = a, !.base = b, !.any = x] \in Decoder
<1> USE DEF Decoder, Targets
<1>1. \A d \in Decoder, p \in Busy : [d EXCEPT !.pc = p] \in Decoder
  OBVIOUS
<1>2. \A d \in Decoder, p \in Busy, x \in BOOLEAN : [d EXCEPT !.pc = p, !.any = x] \in Decoder
  OBVIOUS
<1>3. \A d \in Decoder, p \in Busy, a \in Targets : [d EXCEPT !.pc = p, !.at = a] \in Decoder
  OBVIOUS
<1>4. \A d \in Decoder, a, b \in Targets : [d EXCEPT !.at = a, !.base = b] \in Decoder
  OBVIOUS
<1>5. \A d \in Decoder, p \in Busy, a, b \in Targets :
        [d EXCEPT !.pc = p, !.at = a, !.base = b] \in Decoder
  OBVIOUS
<1>6. \A d \in Decoder, p \in Busy, a, b \in Targets, x \in BOOLEAN :
        [d EXCEPT !.pc = p, !.at = a, !.base = b, !.any = x] \in Decoder
  OBVIOUS
<1> QED
  BY <1>1, <1>2, <1>3, <1>4, <1>5, <1>6, Zenon

LEMMA PresenterUpdates ==
  /\ \A t \in Presenter, p \in Shows : [t EXCEPT !.pc = p] \in Presenter
  /\ \A t \in Presenter, p \in Shows, i \in FrameItem \cup {Nil} :
       [t EXCEPT !.pc = p, !.item = i] \in Presenter
  /\ \A t \in Presenter, p \in Shows, i \in FrameItem \cup {Nil}, u \in Int :
       [t EXCEPT !.pc = p, !.item = i, !.upto = u] \in Presenter
  /\ \A t \in Presenter, p \in Shows, x \in BOOLEAN, u \in Int :
       [t EXCEPT !.pc = p, !.using = x, !.upto = u] \in Presenter
<1> USE DEF Presenter
<1>1. \A t \in Presenter, p \in Shows : [t EXCEPT !.pc = p] \in Presenter
  OBVIOUS
<1>2. \A t \in Presenter, p \in Shows, i \in FrameItem \cup {Nil} :
        [t EXCEPT !.pc = p, !.item = i] \in Presenter
  OBVIOUS
<1>3. \A t \in Presenter, p \in Shows, i \in FrameItem \cup {Nil}, u \in Int :
        [t EXCEPT !.pc = p, !.item = i, !.upto = u] \in Presenter
  OBVIOUS
<1>4. \A t \in Presenter, p \in Shows, x \in BOOLEAN, u \in Int :
        [t EXCEPT !.pc = p, !.using = x, !.upto = u] \in Presenter
  OBVIOUS
<1> QED
  BY <1>1, <1>2, <1>3, <1>4, Zenon

\* What a step that takes a frame from the queue does with it.
LEMMA PickFrameFacts ==
    ASSUME Types, PickFrame
    PROVE  /\ queue \in Seq(Items) /\ queue # <<>> /\ queue[1] \in FrameItem
           /\ queue' = Tail(queue)
           /\ pre \in Presenter /\ pre.pc = "pick" /\ ~pre.using
           /\ pre' \in Presenter /\ pre'.using = pre.using /\ pre'.upto = pre.upto
           /\ \/ pre'.pc = "top" /\ seek' = seek
                 /\ (queue[1].index <= pre.upto \/ seek.filter # Nil)
              \/ /\ pre'.pc = "due" /\ pre'.item = queue[1] /\ queue[1].index > pre.upto
                 /\ seek' = [seek EXCEPT !.filter = Nil]
           /\ UNCHANGED <<state, head, sent, next, loop, stop, passStart, dec, hd, call, calls,
                          trouble>>
<1>1. queue \in Seq(Items) /\ queue # <<>> /\ queue' = Tail(queue)
  BY DEF PickFrame, Picks, Types, FlowTypes
<1>2. queue[1] = Head(queue) /\ Head(queue) \in FrameItem
  <2>1. queue[1] = Head(queue) /\ Head(queue) \in Items
    BY <1>1, TailFacts, Zenon
  <2> QED
    BY <2>1 DEF PickFrame, Picks, Items, END, LOOP
<1>3. pre \in Presenter /\ pre.pc = "pick" /\ ~pre.using /\ {"top", "due"} \subseteq Shows
  BY DEF PickFrame, Picks, Types, PresenterType, Shows, Holds
<1>4. \/ /\ pre' = [pre EXCEPT !.pc = "top"] /\ seek' = seek
         /\ (queue[1].index <= pre.upto \/ seek.filter # Nil)
      \/ /\ pre' = [pre EXCEPT !.pc = "due", !.item = queue[1]]
         /\ ~(queue[1].index <= pre.upto)
         /\ seek' = [seek EXCEPT !.filter = Nil]
  BY <1>2, Zenon DEF PickFrame, Offer, Passes, Duplicate
<1>5. [pre EXCEPT !.pc = "top"] \in Presenter /\ [pre EXCEPT !.pc = "due", !.item = queue[1]] \in Presenter
  BY <1>2, <1>3, PresenterUpdates, Zenon
<1>6. pre' \in Presenter
  BY <1>4, <1>5
<1>7. pre'.using = pre.using /\ pre'.upto = pre.upto
  BY <1>3, <1>4 DEF Presenter
<1>8. queue[1].index \in Int /\ pre.upto \in Int
  BY <1>2, <1>3 DEF FrameItem, Presenter
<1>10. pre' = [pre EXCEPT !.pc = "top"] => pre'.pc = "top"
  BY <1>3 DEF Presenter
<1>11. pre' = [pre EXCEPT !.pc = "due", !.item = queue[1]] => pre'.pc = "due" /\ pre'.item = queue[1]
  BY <1>3 DEF Presenter
<1>12. ~(queue[1].index <= pre.upto) => queue[1].index > pre.upto
  BY <1>8
<1>9. \/ pre'.pc = "top" /\ seek' = seek
         /\ (queue[1].index <= pre.upto \/ seek.filter # Nil)
      \/ /\ pre'.pc = "due" /\ pre'.item = queue[1] /\ queue[1].index > pre.upto
         /\ seek' = [seek EXCEPT !.filter = Nil]
  BY <1>4, <1>10, <1>11, <1>12, Zenon
<1> QED
  BY <1>1, <1>2, <1>3, <1>6, <1>7, <1>9 DEF PickFrame, Presenting

LEMMA DecodeConsumeFlags ==
    ASSUME Types, DecodeConsume
    PROVE  FlagTypes'
  BY SeekFacts, Zenon DEF Types, FlagTypes, SeekType, DecodeConsume, Decoding

LEMMA HaltedFlags ==
    ASSUME Types, Halted
    PROVE  FlagTypes'
  BY SeekFacts, Zenon DEF Types, FlagTypes, SeekType, Halted

LEMMA StartedFlags ==
    ASSUME Types, Started
    PROVE  FlagTypes'
  BY SeekFacts, Zenon DEF Types, FlagTypes, SeekType, Started

LEMMA SeekFlags ==
    ASSUME Types, NEW t \in 0..(Last + 1), Seek(t)
    PROVE  FlagTypes'
  BY SeekFacts, Zenon DEF Types, FlagTypes, SeekType, Seek, Working, Targets

LEMMA ResumeCall ==
    ASSUME Types, Resume
    PROVE  CallTypes'
<1>1. [op |-> "start", restart |-> TRUE] \in Calls
  BY Zenon DEF Calls
<1> QED
  BY <1>1 DEF Types, CallTypes, Resume, SourceStates, AskToStop

LEMMA DecodeFrameType ==
    ASSUME Types, DecodeFrame
    PROVE  DecoderType'
<1>1. dec \in Decoder /\ {"after", "put"} \subseteq Busy
  BY DEF Types, DecoderType, DecodeFrame, Busy
<1>2. [dec EXCEPT !.pc = "after"] \in Decoder /\ [dec EXCEPT !.pc = "put", !.any = TRUE] \in Decoder
  BY <1>1, DecoderUpdates, Zenon
<1> QED
  BY <1>1, <1>2 DEF Types, DecodeFrame, DecoderType, Decoder

LEMMA DecodePutType ==
    ASSUME Types, DecodePut
    PROVE  DecoderType'
<1>1. dec \in Decoder /\ {"after", "run"} \subseteq Busy /\ dec.at + 1 \in Targets
  BY DEF Types, DecoderType, DecodePut, Busy, Decoder, Targets
<1>2. [dec EXCEPT !.pc = "after"] \in Decoder /\ [dec EXCEPT !.pc = "run", !.at = dec.at + 1] \in Decoder
  BY <1>1, DecoderUpdates, Zenon
<1> QED
  BY <1>1, <1>2 DEF Types, DecodePut, DecoderType, Decoder

LEMMA DecodeRaisesType ==
    ASSUME Types, DecodeRaises
    PROVE  DecoderType'
<1>1. dec \in Decoder /\ {"top", "end"} \subseteq Busy /\ 0 \in Targets
  BY DEF Types, DecoderType, DecodeRaises, Busy, Targets
<1>2. \A p \in {"top", "end"} : [dec EXCEPT !.pc = p, !.at = 0, !.base = 0] \in Decoder
  BY <1>1, DecoderUpdates, Zenon
<1> QED
  BY <1>1, <1>2 DEF DecodeRaises, DecoderType, Decoder

LEMMA DecodeConsumeType ==
    ASSUME Types, DecodeConsume
    PROVE  DecoderType'
<1>1. dec \in Decoder /\ dec.at \in Targets
  BY DEF Types, DecoderType, DecodeConsume, Decoder, Targets
<1>2. Begun(dec.at) \in Decoder
  <2>1. (IF dec.at > Last THEN "after" ELSE "run") \in Busy
    BY DEF Busy
  <2> QED
    BY <1>1, <2>1, DecoderUpdates, Zenon DEF Begun
<1> QED
  BY <1>1, <1>2 DEF DecodeConsume, DecoderType, Decoder, Begun

LEMMA DecodeBeginType ==
    ASSUME Types, DecodeBegin
    PROVE  DecoderType'
<1>1. dec \in Decoder
  BY DEF Types, DecoderType, DecodeBegin
<1>2. passStart \in Targets /\ seek.target \in Targets
  BY DEF Types, FlowTypes, FlagTypes, Targets
<1>3. Begun(passStart) \in Decoder
  <2>1. (IF passStart > Last THEN "after" ELSE "run") \in Busy
    BY DEF Busy
  <2> QED
    BY <1>1, <1>2, <2>1, DecoderUpdates, Zenon DEF Begun
<1>4. [dec EXCEPT !.pc = "consume", !.at = seek.target] \in Decoder
  <2>1. "consume" \in Busy
    BY DEF Busy
  <2> QED
    BY <1>1, <1>2, <2>1, DecoderUpdates, Zenon
<1>5. dec' \in Decoder \cup {NoThread}
  BY <1>3, <1>4 DEF DecodeBegin
<1>7. dec'.pc \in {"run", "put"} => dec'.base = dec'.at /\ dec'.pc # "put"
  BY <1>1 DEF NoThread, Decoder, DecodeBegin, Begun
<1> QED
  BY <1>5, <1>7 DEF DecoderType, NoThread, Decoder

LEMMA DecodeAfterType ==
    ASSUME Types, DecodeAfter
    PROVE  DecoderType'
<1>1. dec \in Decoder /\ {"top", "end", "loop"} \subseteq Busy /\ 0 \in Targets
  BY DEF Types, DecoderType, DecodeAfter, Busy, Targets
<1>2. PICK idle : idle = [dec EXCEPT !.at = 0, !.base = 0]
  OBVIOUS
<1>4. idle \in Decoder
  BY <1>1, <1>2, DecoderUpdates, Zenon
<1>5. \A q \in {"top", "end", "loop"} : [idle EXCEPT !.pc = q] \in Decoder
  BY <1>1, <1>4, DecoderUpdates, Zenon
<1>6. dec' = NoThread \/ \E q \in {"top", "end", "loop"} : dec' = [idle EXCEPT !.pc = q]
  BY <1>2 DEF DecodeAfter
<1>7. dec'.pc \in {"none", "top", "end", "loop"}
  BY <1>4, <1>6 DEF NoThread, Decoder
<1> QED
  BY <1>5, <1>6, <1>7 DEF DecoderType, NoThread

LEMMA ApplySeekType ==
    ASSUME Types, ApplySeek
    PROVE  PresenterType'
<1>1. pre \in Presenter /\ "pick" \in Shows
  BY DEF Types, PresenterType, ApplySeek, Shows
<1>3. [pre EXCEPT !.pc = "pick"] \in Presenter
  BY <1>1, PresenterUpdates, Zenon
<1>4. [pre EXCEPT !.pc = "pick"].pc = "pick" /\ pre.pc = "apply"
  BY <1>1 DEF Presenter, ApplySeek
<1>5. pre' \in {pre, [pre EXCEPT !.pc = "pick"]}
  BY DEF ApplySeek
<1>6. pre' \in Presenter /\ pre'.pc \in {"apply", "pick"}
  BY <1>1, <1>3, <1>4, <1>5
<1> QED
  BY <1>6 DEF PresenterType, Holding, Holds

LEMMA PickFrameType ==
    ASSUME Types, PickFrame
    PROVE  PresenterType'
<1>1. pre'.pc \in Holds => pre'.item = queue[1]
  BY PickFrameFacts DEF Holds
<1> QED
  BY <1>1, PickFrameFacts DEF PresenterType, Holding

LEMMA DecodePutFlow ==
    ASSUME Types, DecodePut
    PROVE  FlowTypes'
<1>1. Frame(dec.at, dec.base) \in Items
  BY DEF Types, DecoderType, DecodePut, Decoder, Frame, FrameItem, Items
<1> QED
  BY <1>1 DEF DecodePut, Put, Types, FlowTypes, Decoding

LEMMA ApplySeekFlow ==
    ASSUME Types, ApplySeek
    PROVE  FlowTypes'
<1>1. queue' = queue \/ (queue # <<>> /\ queue' = Tail(queue))
  BY DEF ApplySeek
<1>2. queue' \in Seq(Items)
  <2>1. queue \in Seq(Items)
    BY DEF Types, FlowTypes
  <2>2. queue # <<>> => Tail(queue) \in Seq(Items)
    BY <2>1, TailFacts, Zenon
  <2> QED
    BY <1>1, <2>1, <2>2
<1>3. head' \in HeadType
  BY DEF Types, FlowTypes, ApplySeek, HeadType
<1> QED
  BY <1>2, <1>3 DEF ApplySeek, Types, FlowTypes, Presenting

LEMMA HeadSwapFlow ==
    ASSUME Types, HeadSwap
    PROVE  FlowTypes'
<1>1. FreshHead \in Seq(FrameItem)
  <2> DEFINE n == IF HeadBudget <= Last THEN HeadBudget ELSE Last + 1
  <2>1. ASSUME NEW i \in 1..n PROVE Frame(i - 1, 0) \in FrameItem
    BY DEF Frame, FrameItem
  <2>2. n \in Nat
    OBVIOUS
  <2>3. FreshHead \in [1..n -> FrameItem]
    BY <2>1 DEF FreshHead
  <2> QED
    BY <2>2, <2>3
<1> QED
  BY <1>1 DEF HeadSwap, Types, FlowTypes, HeadType, HeadUnchanged

LEMMA StartedFlow ==
    ASSUME Types, Started
    PROVE  FlowTypes'
<1>1. passStart' \in 0..Last
  BY DEF Started, Types, FlowTypes, FlagTypes, Targets
<1>2. <<>> \in Seq(FrameItem) /\ <<>> \in Seq(Items)
  OBVIOUS
<1>3. \A x \in BOOLEAN : [NoHead EXCEPT !.trigger = x] \in HeadType
  BY <1>2 DEF NoHead, HeadType
<1>4. loop \in BOOLEAN
  BY DEF Types, FlagTypes
<1> QED
  BY <1>1, <1>2, <1>3, <1>4, Zenon DEF Started, FlowTypes

LEMMA PublishFrameType ==
    ASSUME Types, PublishFrame
    PROVE  PresenterType'
<1>1. pre \in Presenter /\ pre.pc = "publish" /\ pre.item \in FrameItem /\ "top" \in Shows
  BY DEF Types, PresenterType, PublishFrame, Holding, Holds, Shows
<1>2. PICK u : u = IF pre.using /\ pre.item.index > pre.upto THEN pre.item.index ELSE pre.upto
  OBVIOUS
<1>3. u \in Int /\ Nil \in FrameItem \cup {Nil}
  BY <1>1, <1>2 DEF Presenter, FrameItem
<1>4. [pre EXCEPT !.pc = "top", !.item = Nil, !.upto = u] \in Presenter
  BY <1>1, <1>3, PresenterUpdates, Zenon
<1>5. pre' = [pre EXCEPT !.pc = "top", !.item = Nil, !.upto = u]
  BY <1>2 DEF PublishFrame
<1>6. pre'.pc = "top"
  BY <1>1, <1>5 DEF Presenter
<1> QED
  BY <1>4, <1>5, <1>6 DEF PresenterType, Holding, Holds

LEMMA ClaimSeekType ==
    ASSUME Types, ClaimSeek
    PROVE  PresenterType'
<1>1. pre \in Presenter /\ {"apply", "pick"} \subseteq Shows /\ Nil \in Int
  BY DEF Types, PresenterType, ClaimSeek, Shows
<1>2. [pre EXCEPT !.pc = "apply", !.using = FALSE, !.upto = Nil] \in Presenter
  BY <1>1, PresenterUpdates, Zenon
<1>3. [pre EXCEPT !.pc = "pick"] \in Presenter
  BY <1>1, PresenterUpdates, Zenon
<1>4. pre' \in Presenter \cup {NoThread} /\ pre'.pc \notin Holds
  BY <1>1, <1>2, <1>3 DEF ClaimSeek, Presenter, NoThread, Holds
<1> QED
  BY <1>4 DEF PresenterType, NoThread, Holding

LEMMA PickLoopType ==
    ASSUME Types, PickLoop
    PROVE  PresenterType'
<1>1. pre \in Presenter /\ "top" \in Shows /\ Nil \in Int
  BY DEF Types, PresenterType, PickLoop, Picks, Shows
<1>2. [pre EXCEPT !.pc = "top", !.using = TRUE, !.upto = Nil] \in Presenter
  BY <1>1, PresenterUpdates, Zenon
<1>3. pre' = [pre EXCEPT !.pc = "top", !.using = TRUE, !.upto = Nil] /\ pre'.pc = "top"
  BY <1>1 DEF PickLoop, Presenter
<1> QED
  BY <1>2, <1>3 DEF PresenterType, Holding, Holds

\* The flags and the record of the latest seek.
LEMMA FlagsStep ==
    ASSUME Types, [Next]_vars
    PROVE  FlagTypes'
<1>1. Pause \/ StartStuck \/ DecodeBegin \/ DecodeFrame \/ DecodePut \/ DecodeAfter \/ DecodeEnd
   \/ DecodeLoop \/ DecodeRaises \/ StageHead \/ HeadGiveUp \/ ApplySeek \/ HeadDrained \/
   PickNothing \/ PickEnd \/ PublishEnded \/ PickLoop \/ Due \/ CheckPlaying \/ PublishFrame =>
   UNCHANGED <<loop, stop, seek>>
  BY DEF Pause, Working, StartStuck, DecodeBegin, Decoding, DecodeFrame, DecodePut, DecodeAfter,
     DecodeEnd, DecodeLoop, DecodeRaises, StageHead, HeadExit, HeadUnchanged, HeadTriggered,
     HeadStage, HeadSwap, HeadGiveUp, ApplySeek, Presenting, HeadDrained, PickNothing, PickEnd,
     PublishEnded, PickLoop, Due, CheckPlaying, PublishFrame
<1>2. UNCHANGED vars => UNCHANGED <<loop, stop, seek>>
  BY DEF vars
<1>3. UNCHANGED <<loop, stop, seek>> => FlagTypes'
  BY DEF Types, FlagTypes
<1>4. CASE Play \/ Resume \/ Stop \/ Reload \/ Close \/ SeekEvent \/ PublishRaises
  BY <1>4, TailFacts, AppendFacts
     DEF Types, FlagTypes, Play, Free, AskToStop, Working, Resume, Stop, Reload, Close,
        SeekEvent, PublishRaises, Broken, NoSeek
<1>5. CASE ClaimSeek
  BY <1>5, TailFacts, AppendFacts DEF Types, FlagTypes, ClaimSeek, Presenting, NoSeek
<1>6. CASE PickHead \/ PickFrame
  BY <1>6 DEF Types, FlagTypes, PickHead, Presenting, Offer, PickFrame
<1> QED
  BY <1>1, <1>2, <1>3, <1>4, <1>5, <1>6, DecodeConsumeFlags, HaltedFlags, StartedFlags,
     SeekFlags
     DEF Next, Call, Return, Decode, Present

\* The state, the call under way and what was sent last.
LEMMA CallsStep ==
    ASSUME Types, [Next]_vars
    PROVE  CallTypes'
<1>1. Decode \/ StageHead \/ HeadGiveUp \/ ClaimSeek \/ PickHead \/ HeadDrained \/ PickNothing
   \/ PickFrame \/ Due \/ CheckPlaying => UNCHANGED <<state, call, sent, trouble>>
  BY DEF Decode, DecodeBegin, Decoding, DecodeConsume, DecodeFrame, DecodePut, DecodeAfter,
     DecodeEnd, DecodeLoop, StageHead, HeadExit, HeadUnchanged, HeadTriggered, HeadStage,
     HeadSwap, HeadGiveUp, ClaimSeek, Presenting, PickHead, HeadDrained, PickNothing, PickFrame,
     Due, CheckPlaying
<1>2. UNCHANGED vars => UNCHANGED <<state, call, sent, trouble>>
  BY DEF vars
<1>3. UNCHANGED <<state, call, sent, trouble>> => CallTypes'
  BY DEF Types, CallTypes
<1>4. CASE Play
  BY <1>4 DEF Types, CallTypes, Calls, Play, AskToStop
<1>5. CASE Pause
  BY <1>5 DEF Types, CallTypes, SourceStates, Pause
<1>6. CASE Stop \/ Reload \/ Close
  BY <1>6 DEF Types, CallTypes, Calls, Stop, AskToStop, Reload, Close
<1>7. CASE (\E t \in 0..(Last + 1) : Seek(t))
  BY <1>7 DEF Types, CallTypes, Calls, Seek, Broken
<1>8. CASE SeekEvent \/ Started \/ StartStuck \/ Halted \/ DecodeRaises
  BY <1>8
     DEF Types, CallTypes, SourceStates, Calls, SeekEvent, Started, StartStuck, Halted,
        HaltStates, DecodeRaises, Broken
<1>9. CASE ApplySeek \/ PickEnd \/ PublishEnded \/ PickLoop \/ PublishFrame \/ PublishRaises
  BY <1>9
     DEF Types, CallTypes, SourceStates, ApplySeek, Presenting, PickEnd, PublishEnded, PickLoop,
        PublishFrame, PublishRaises, Broken
<1> QED
  BY <1>1, <1>2, <1>3, <1>4, <1>5, <1>6, <1>7, <1>8, <1>9, ResumeCall
     DEF Next, Call, Return, Present

\* The queue, the head and the start of the pass.
LEMMA FlowStep ==
    ASSUME Types, [Next]_vars
    PROVE  FlowTypes'
<1>1. Play \/ Pause \/ Resume \/ Stop \/ Reload \/ Close \/ DecodeRaises \/ HeadExit \/
   HeadStage \/ HeadGiveUp \/ ClaimSeek \/ PickNothing \/ PublishEnded \/ Due \/ CheckPlaying \/
   PublishFrame \/ PublishRaises => UNCHANGED <<queue, head, passStart>>
  BY DEF Play, AskToStop, Pause, Resume, Stop, Reload, Close, DecodeRaises, HeadExit,
     HeadUnchanged, HeadStage, HeadGiveUp, ClaimSeek, Presenting, PickNothing, PublishEnded,
     Due, CheckPlaying, PublishFrame, PublishRaises
<1>2. (\E t \in 0..(Last + 1) : Seek(t)) => UNCHANGED <<queue, head, passStart>>
  BY DEF Seek, Free, Broken, Working
<1>3. SeekEvent \/ DecodeBegin \/ DecodeConsume \/ DecodeFrame => UNCHANGED <<queue, head,
   passStart>>
  BY DEF SeekEvent, DecodeBegin, Decoding, DecodeConsume, DecodeFrame
<1>4. UNCHANGED vars => UNCHANGED <<queue, head, passStart>>
  BY DEF vars
<1>5. UNCHANGED <<queue, head, passStart>> => FlowTypes'
  BY DEF Types, FlowTypes
<1>6. CASE StartStuck
  BY <1>6 DEF Types, FlowTypes, StartStuck
<1>7. CASE Halted
  BY <1>7 DEF Types, FlowTypes, HeadType, Halted, NoHead
<1>8. CASE DecodeAfter
  BY <1>8 DEF Types, FlowTypes, DecodeAfter, Decoding
<1>9. CASE DecodeEnd
  BY <1>9 DEF Types, FlowTypes, DecodeEnd, Put, Decoding, Items
<1>10. CASE DecodeLoop
  BY <1>10 DEF Types, FlowTypes, DecodeLoop, Put, Decoding, Items
<1>11. CASE HeadTriggered
  BY <1>11, TailFacts, AppendFacts
     DEF Types, FlowTypes, HeadType, HeadTriggered, HeadUnchanged, Items, FrameItem, NoHead,
        Targets, FlagTypes
<1>12. CASE PickHead
  BY <1>12, TailFacts, AppendFacts
     DEF Types, FlowTypes, HeadType, PickHead, Presenting, Offer, Passes, Items, FrameItem,
        NoHead, Targets, FlagTypes
<1>13. CASE HeadDrained
  BY <1>13, TailFacts, AppendFacts
     DEF Types, FlowTypes, HeadType, HeadDrained, Presenting, Items, FrameItem, NoHead, Targets,
        FlagTypes
<1>14. CASE PickEnd
  BY <1>14, TailFacts, AppendFacts
     DEF Types, FlowTypes, HeadType, PickEnd, Presenting, Picks, Items, FrameItem, NoHead,
        Targets, FlagTypes
<1>15. CASE PickLoop
  BY <1>15, TailFacts, AppendFacts
     DEF Types, FlowTypes, HeadType, PickLoop, Presenting, Picks, Items, FrameItem, NoHead,
        Targets, FlagTypes
<1>16. CASE PickFrame
  BY <1>16 DEF Types, FlowTypes, PickFrame, Presenting, Picks
<1> QED
  BY <1>1, <1>2, <1>3, <1>4, <1>5, <1>6, <1>7, <1>8, <1>9, <1>10, <1>11, <1>12, <1>13, <1>14,
     <1>15, <1>16, DecodePutFlow, ApplySeekFlow, HeadSwapFlow, StartedFlow
     DEF Next, Call, Return, Decode, StageHead, Present

\* The decode thread.
LEMMA DecoderStep ==
    ASSUME Types, [Next]_vars
    PROVE  DecoderType'
<1>1. Play \/ Pause \/ Resume \/ Stop \/ Reload \/ Close => UNCHANGED dec
  BY DEF Play, AskToStop, Working, Pause, Resume, Stop, Reload, Close
<1>2. (\E t \in 0..(Last + 1) : Seek(t)) => UNCHANGED dec
  BY DEF Seek, Free, Broken, Working
<1>3. SeekEvent \/ StageHead \/ HeadGiveUp \/ Present \/ PublishRaises => UNCHANGED dec
  BY DEF SeekEvent, Working, StageHead, HeadExit, HeadUnchanged, HeadTriggered, HeadStage,
     HeadSwap, HeadGiveUp, Present, ClaimSeek, Presenting, ApplySeek, PickHead, HeadDrained,
     PickNothing, PickEnd, PublishEnded, PickLoop, PickFrame, Due, CheckPlaying, PublishFrame,
     PublishRaises
<1>4. UNCHANGED vars => UNCHANGED dec
  BY DEF vars
<1>5. UNCHANGED dec => DecoderType'
  BY DEF Types, DecoderType
<1>6. CASE Started
  BY <1>6 DEF DecoderType, Started, Busy, Decoder
<1>7. CASE StartStuck
  BY <1>7, TailFacts, AppendFacts
     DEF Types, DecoderType, StartStuck, Stuck, Joined, Retired, Busy, Targets, FlagTypes,
        FlowTypes, Decoder, NoThread
<1>8. CASE Halted
  BY <1>8, TailFacts, AppendFacts
     DEF Types, DecoderType, Halted, Joined, Stuck, Retired, NoHead, NoSeek, HaltStates, Busy,
        Targets, FlagTypes, FlowTypes, Decoder, NoThread
<1>9. CASE DecodeEnd
  BY <1>9 DEF DecoderType, DecodeEnd, NoThread
<1>10. CASE DecodeLoop
  BY <1>10, TailFacts, AppendFacts
     DEF Types, DecoderType, DecodeLoop, CanPut, Put, Decoding, Busy, Targets, Decoder, NoThread
<1> QED
  BY <1>1, <1>2, <1>3, <1>4, <1>5, <1>6, <1>7, <1>8, <1>9, <1>10, DecodeFrameType,
     DecodePutType, DecodeRaisesType, DecodeConsumeType, DecodeBeginType, DecodeAfterType
     DEF Next, Call, Return, Decode

\* The presentation thread.
LEMMA PresenterStep ==
    ASSUME Types, [Next]_vars
    PROVE  PresenterType'
<1>1. Play \/ Pause \/ Resume \/ Stop \/ Reload \/ Close \/ DecodeFrame \/ DecodePut \/
   DecodeAfter \/ DecodeEnd \/ DecodeLoop \/ DecodeRaises \/ StageHead \/ HeadGiveUp =>
   UNCHANGED pre
  BY DEF Play, AskToStop, Working, Pause, Resume, Stop, Reload, Close, DecodeFrame, Decoding,
     DecodePut, DecodeAfter, DecodeEnd, DecodeLoop, DecodeRaises, StageHead, HeadExit,
     HeadUnchanged, HeadTriggered, HeadStage, HeadSwap, HeadGiveUp
<1>2. (\E t \in 0..(Last + 1) : Seek(t)) => UNCHANGED pre
  BY DEF Seek, Free, Broken, Working
<1>3. SeekEvent \/ StartStuck \/ Halted \/ DecodeBegin \/ DecodeConsume => UNCHANGED pre
  BY DEF SeekEvent, Working, StartStuck, Halted, DecodeBegin, Decoding, DecodeConsume
<1>4. UNCHANGED vars => UNCHANGED pre
  BY DEF vars
<1>5. UNCHANGED pre => PresenterType'
  BY DEF Types, PresenterType, Holding
<1>6. CASE Started
  BY <1>6 DEF PresenterType, Presenter, Holding, Holds, Shows, Started
<1>7. CASE PickHead
  BY <1>7, TailFacts, AppendFacts
     DEF Types, PresenterType, Presenter, Holding, Holds, Shows, PickHead, Presenting, Offer,
        Passes, NoThread, FlowTypes, HeadType, FrameItem
<1>8. CASE HeadDrained
  BY <1>8, TailFacts, AppendFacts
     DEF Types, PresenterType, Presenter, Holding, Holds, Shows, HeadDrained, Presenting,
        NoThread, FlowTypes, HeadType, FrameItem
<1>9. CASE PickNothing
  BY <1>9, AppendFacts DEF Types, PresenterType, Presenter, Holding, Holds, Shows, PickNothing
<1>10. CASE PickEnd
  BY <1>10, TailFacts, AppendFacts
     DEF Types, PresenterType, Presenter, Holding, Holds, Shows, PickEnd, Presenting, Picks,
        NoThread, FlowTypes, HeadType, FrameItem
<1>11. CASE PublishEnded \/ Due
  BY <1>11, TailFacts, AppendFacts
     DEF Types, PresenterType, Presenter, Holding, Holds, Shows, PublishEnded, Due, NoThread
<1>12. CASE CheckPlaying \/ PublishRaises
  BY <1>12, TailFacts, AppendFacts
     DEF Types, PresenterType, Presenter, Holding, Holds, Shows, CheckPlaying, Presenting,
        PublishRaises, Broken, NoThread
<1> QED
  BY <1>1, <1>2, <1>3, <1>4, <1>5, <1>6, <1>7, <1>8, <1>9, <1>10, <1>11, <1>12, ApplySeekType,
     PickFrameType, PublishFrameType, ClaimSeekType, PickLoopType
     DEF Next, Call, Return, Decode, Present

LEMMA TypesStep == Types /\ [Next]_vars => Types'
  BY FlagsStep, CallsStep, FlowStep, DecoderStep, PresenterStep DEF Types

\* Counters and stores stay within their bounds.
CallsBounded == calls \in 0..MaxCalls
NextBounded == next \in Targets
QueueBounded == Len(queue) <= QueueSize
HeadBounded == Len(head.staged) <= HeadBudget
Bounds == CallsBounded /\ NextBounded /\ QueueBounded /\ HeadBounded

LEMMA CallsBoundedStep ==
    ASSUME Types, CallsBounded, [Next]_vars
    PROVE  CallsBounded'
<1>1. SeekEvent \/ Started \/ StartStuck \/ Halted => UNCHANGED calls
  BY DEF SeekEvent, Started, StartStuck, Halted
<1>2. Decode => UNCHANGED calls
  BY DEF Decode, DecodeBegin, Decoding, DecodeConsume, DecodeFrame, DecodePut, DecodeAfter,
     DecodeEnd, DecodeLoop
<1>3. DecodeRaises => UNCHANGED calls
  BY DEF DecodeRaises, Broken
<1>4. StageHead \/ HeadGiveUp => UNCHANGED calls
  BY DEF StageHead, HeadExit, HeadUnchanged, HeadTriggered, HeadStage, HeadSwap, HeadGiveUp
<1>5. Present => UNCHANGED calls
  BY DEF Present, ClaimSeek, Presenting, ApplySeek, PickHead, HeadDrained, PickNothing, PickEnd,
     PublishEnded, PickLoop, PickFrame, Due, CheckPlaying, PublishFrame
<1>6. PublishRaises => UNCHANGED calls
  BY DEF PublishRaises, Broken
<1>7. UNCHANGED vars => UNCHANGED calls
  BY DEF vars
<1>8. UNCHANGED calls => CallsBounded'
  BY DEF CallsBounded
<1>9. CASE Play \/ Pause \/ Resume \/ Stop
  BY <1>9 DEF CallsBounded, Play, Free, Pause, Resume, Stop
<1>10. CASE Reload \/ Close
  BY <1>10 DEF CallsBounded, Reload, Free, Close
<1>11. CASE (\E t \in 0..(Last + 1) : Seek(t))
  BY <1>11 DEF CallsBounded, Seek, Free
<1> QED
  BY <1>1, <1>2, <1>3, <1>4, <1>5, <1>6, <1>7, <1>8, <1>9, <1>10, <1>11 DEF Next, Call, Return

LEMMA NextBoundedStep ==
    ASSUME Types, NextBounded, [Next]_vars
    PROVE  NextBounded'
<1>1. Play \/ Pause \/ Resume \/ Stop \/ Reload \/ Close => UNCHANGED next
  BY DEF Play, AskToStop, Pause, Resume, Stop, Reload, Close
<1>2. SeekEvent \/ StartStuck \/ Halted => UNCHANGED next
  BY DEF SeekEvent, StartStuck, Halted
<1>3. Decode => UNCHANGED next
  BY DEF Decode, DecodeBegin, Decoding, DecodeConsume, DecodeFrame, DecodePut, DecodeAfter,
     DecodeEnd, DecodeLoop
<1>4. StageHead \/ HeadGiveUp => UNCHANGED next
  BY DEF StageHead, HeadExit, HeadUnchanged, HeadTriggered, HeadStage, HeadSwap, HeadGiveUp
<1>5. ClaimSeek \/ ApplySeek \/ PickHead \/ HeadDrained \/ PickNothing \/ PickEnd \/
   PublishEnded \/ PickFrame \/ Due \/ CheckPlaying => UNCHANGED next
  BY DEF ClaimSeek, ApplySeek, PickHead, HeadDrained, PickNothing, PickEnd, PublishEnded,
     PickFrame, Due, CheckPlaying
<1>6. UNCHANGED vars => UNCHANGED next
  BY DEF vars
<1>7. UNCHANGED next => NextBounded'
  BY DEF NextBounded
<1>8. CASE (\E t \in 0..(Last + 1) : Seek(t))
  BY <1>8 DEF NextBounded, Targets, Seek, Broken
<1>9. CASE Started
  BY <1>9 DEF Types, NextBounded, Targets, Started, FlagTypes
<1>10. CASE DecodeRaises
  BY <1>10 DEF NextBounded, Targets, DecodeRaises, Broken
<1>11. CASE PickLoop \/ PublishFrame
  BY <1>11, TailFacts, AppendFacts
     DEF Types, NextBounded, Targets, PickLoop, Presenting, Picks, PublishFrame, PresenterType,
        Holding, Holds, FrameItem
<1>12. CASE PublishRaises
  BY <1>12 DEF NextBounded, Targets, PublishRaises, Broken
<1> QED
  BY <1>1, <1>2, <1>3, <1>4, <1>5, <1>6, <1>7, <1>8, <1>9, <1>10, <1>11, <1>12
     DEF Next, Call, Return, Present

\* The decode thread waits for room before it puts, so the queue stays bounded.
LEMMA QueueBoundedStep ==
    ASSUME Types, QueueBounded, [Next]_vars
    PROVE  QueueBounded'
<1>1. Play \/ Pause \/ Resume \/ Stop => UNCHANGED queue
  BY DEF Play, AskToStop, Pause, Resume, Stop
<1>2. Reload \/ Close => UNCHANGED queue
  BY DEF Reload, Free, AskToStop, Working, Close
<1>3. (\E t \in 0..(Last + 1) : Seek(t)) => UNCHANGED queue
  BY DEF Seek, Free, Broken, Working
<1>4. SeekEvent => UNCHANGED queue
  BY DEF SeekEvent, Working
<1>5. DecodeBegin \/ DecodeConsume \/ DecodeFrame \/ DecodeAfter => UNCHANGED queue
  BY DEF DecodeBegin, DecodeConsume, DecodeFrame, DecodeAfter
<1>6. DecodeRaises => UNCHANGED queue
  BY DEF DecodeRaises, Broken
<1>7. StageHead \/ HeadGiveUp => UNCHANGED queue
  BY DEF StageHead, HeadExit, HeadUnchanged, HeadTriggered, HeadStage, HeadSwap, HeadGiveUp
<1>8. ClaimSeek \/ PickHead \/ HeadDrained \/ PickNothing \/ PublishEnded \/ Due \/ CheckPlaying
   \/ PublishFrame => UNCHANGED queue
  BY DEF ClaimSeek, PickHead, HeadDrained, PickNothing, PublishEnded, Due, CheckPlaying,
     PublishFrame
<1>9. PublishRaises => UNCHANGED queue
  BY DEF PublishRaises, Broken
<1>10. UNCHANGED vars => UNCHANGED queue
  BY DEF vars
<1>11. UNCHANGED queue => QueueBounded'
  BY DEF QueueBounded
<1>12. CASE Started \/ StartStuck \/ Halted
  BY <1>12 DEF QueueBounded, Started, StartStuck, Halted
<1>13. CASE DecodePut \/ DecodeEnd \/ DecodeLoop
  BY <1>13 DEF QueueBounded, DecodePut, CanPut, Put, DecodeEnd, DecodeLoop
<1>14. CASE ApplySeek \/ PickEnd \/ PickLoop \/ PickFrame
  BY <1>14 DEF QueueBounded, ApplySeek, PickEnd, Picks, PickLoop, PickFrame
<1> QED
  BY <1>1, <1>2, <1>3, <1>4, <1>5, <1>6, <1>7, <1>8, <1>9, <1>10, <1>11, <1>12, <1>13, <1>14
     DEF Next, Call, Return, Decode, Present

LEMMA HeadBoundedStep ==
    ASSUME Types, HeadBounded, [Next]_vars
    PROVE  HeadBounded'
<1>1. Play \/ Pause \/ Resume \/ Stop => UNCHANGED head
  BY DEF Play, AskToStop, Pause, Resume, Stop
<1>2. Reload \/ Close => UNCHANGED head
  BY DEF Reload, Free, AskToStop, Working, Close
<1>3. (\E t \in 0..(Last + 1) : Seek(t)) => UNCHANGED head
  BY DEF Seek, Free, Broken, Working
<1>4. SeekEvent \/ StartStuck => UNCHANGED head
  BY DEF SeekEvent, StartStuck
<1>5. Decode => UNCHANGED head
  BY DEF Decode, DecodeBegin, Decoding, DecodeConsume, DecodeFrame, DecodePut, DecodeAfter,
     DecodeEnd, DecodeLoop
<1>6. DecodeRaises => UNCHANGED head
  BY DEF DecodeRaises, Broken
<1>7. HeadExit \/ HeadStage \/ HeadGiveUp => UNCHANGED head
  BY DEF HeadExit, HeadUnchanged, HeadStage, HeadGiveUp
<1>8. ClaimSeek \/ PickNothing \/ PublishEnded \/ PickFrame \/ Due \/ CheckPlaying \/
   PublishFrame => UNCHANGED head
  BY DEF ClaimSeek, PickNothing, PublishEnded, PickFrame, Due, CheckPlaying, PublishFrame
<1>9. PublishRaises => UNCHANGED head
  BY DEF PublishRaises, Broken
<1>10. UNCHANGED vars => UNCHANGED head
  BY DEF vars
<1>11. UNCHANGED head => HeadBounded'
  BY DEF HeadBounded
<1>12. CASE Started \/ Halted
  BY <1>12 DEF HeadBounded, Started, NoHead, Halted
<1>13. CASE HeadTriggered \/ HeadSwap
  BY <1>13 DEF Types, FlowTypes, HeadType, HeadBounded, HeadTriggered, HeadSwap, FreshHead
<1>14. CASE ApplySeek \/ PickHead
  BY <1>14 DEF Types, FlowTypes, HeadType, HeadBounded, ApplySeek, PickHead
<1>15. CASE HeadDrained
  BY <1>15 DEF HeadBounded, HeadDrained
<1>16. CASE PickEnd \/ PickLoop
  BY <1>16, TailFacts, AppendFacts
     DEF Types, FlowTypes, HeadType, HeadBounded, PickEnd, Presenting, Picks, PickLoop, NoHead,
        FreshHead
<1> QED
  BY <1>1, <1>2, <1>3, <1>4, <1>5, <1>6, <1>7, <1>8, <1>9, <1>10, <1>11, <1>12, <1>13, <1>14,
     <1>15, <1>16
     DEF Next, Call, Return, StageHead, Present

LEMMA BoundsStep == Types /\ Bounds /\ [Next]_vars => Bounds'
  BY CallsBoundedStep, NextBoundedStep, QueueBoundedStep, HeadBoundedStep DEF Bounds

-----------------------------------------------------------------------------
(* The life of a pass.                                                     *)

\* Settled: a source at rest has no presentation thread, except one that is about
\* to publish the end, and what is left of a decode thread is old.  Stopping: the
\* stop event is set while a call joins the threads.  EndIsLast: nothing is queued
\* behind the end.  Troubled: a seek is under way only in a pass it broke.
Quiet == {"READY", "STOPPED", "ENDED", "CLOSED"}

Settled ==
  /\ state \in Quiet => pre.pc = "none" \/ (state = "ENDED" /\ pre.pc = "ended")
  /\ pre.pc = "ended" => state \in {"ENDED", "ERROR"}
  /\ state \in Quiet /\ dec.pc # "none" => dec.old
  /\ state \in {"ENDED", "STOPPED", "READY"} /\ pre.pc = "none" => sent = "reset"

Stopping ==
  /\ call.op \in Joining => stop
  /\ stop /\ state \in {"PLAYING", "PAUSED"} => call.op \in Joining
  /\ dec.pc # "none" /\ dec.old => stop

EndIsLast ==
  \A i \in DOMAIN queue : queue[i] = END => i = Len(queue) /\ dec.pc = "none"

Troubled ==
  /\ \/ call.op = "seek" \/ seek.fresh \/ seek.event \/ seek.filter # Nil
     \/ pre.pc = "apply" \/ dec.pc = "consume"
     => trouble = "break"
  /\ state = "PAUSED" => trouble # "none"

Attended ==
  state = "PLAYING" /\ trouble = "none" /\ call.op = "none" =>
     /\ pre.pc # "none"
     /\ dec.pc = "none" => queue # <<>> /\ queue[Len(queue)] = END

Lifecycle == Settled /\ Stopping /\ EndIsLast /\ Troubled /\ Attended

LEMMA PickFrameSettled ==
    ASSUME Types, Lifecycle, PickFrame
    PROVE  Settled'
  BY PickFrameFacts DEF Lifecycle, Settled, Quiet

LEMMA PickFrameTroubled ==
    ASSUME Types, Lifecycle, PickFrame
    PROVE  Troubled'
<1>1. seek \in [event : BOOLEAN, fresh : BOOLEAN, target : Targets, filter : Nil..(Last + 1)]
  BY DEF Types, FlagTypes
<1> QED
  BY <1>1, PickFrameFacts DEF Lifecycle, Troubled

LEMMA PickFrameAttended ==
    ASSUME Types, Lifecycle, PickFrame
    PROVE  Attended'
<1>1. queue[1] # END
  BY PickFrameFacts DEF FrameItem, END
<1> QED
  BY <1>1, PickFrameFacts, TailFacts DEF Lifecycle, Attended

LEMMA PickEndSettled ==
    ASSUME Types, Lifecycle, PickEnd
    PROVE  Settled'
<1>1. queue \in Seq(Items) /\ queue # <<>>
  BY DEF PickEnd, Picks, Types, FlowTypes
<1>2. queue[1] = Head(queue) /\ Head(queue) \in Items /\ 1 \in DOMAIN queue
  BY <1>1, TailFacts
<1>3. queue[1] = END
  BY <1>2 DEF PickEnd, Picks, Items, FrameItem, LOOP
<1>4. dec.pc = "none"
  BY <1>2, <1>3 DEF Lifecycle, EndIsLast
<1>5. pre \in Presenter
  BY DEF Types, PresenterType, PickEnd, Picks
<1>6. pre'.pc = "ended"
  BY <1>5 DEF PickEnd, Presenter
<1> QED
  BY <1>4, <1>6 DEF PickEnd, Picks, Lifecycle, Settled, Presenting, Quiet

LEMMA PickLoopAttended ==
    ASSUME Types, Lifecycle, PickLoop
    PROVE  Attended'
<1>1. queue \in Seq(Items) /\ queue # <<>> /\ queue' = Tail(queue)
  BY DEF PickLoop, Picks, Types, FlowTypes
<1>2. queue[1] = Head(queue) /\ Head(queue) # END
  BY <1>1, TailFacts DEF PickLoop, Picks, END
<1>3. pre \in Presenter
  BY DEF Types, PresenterType, PickLoop, Picks
<1>4. pre'.pc = "top" /\ pre.pc # "none"
  BY <1>3 DEF PickLoop, Presenter, Picks
<1> QED
  BY <1>1, <1>2, <1>4, TailFacts DEF Lifecycle, Attended, PickLoop, Presenting

LEMMA DecodeRaisesSettled ==
    ASSUME Types, Lifecycle, DecodeRaises
    PROVE  Settled' /\ Stopping'
<1>1. dec \in Decoder
  BY DEF Types, DecoderType, DecodeRaises
<1>2. dec'.old = dec.old
  BY <1>1 DEF DecodeRaises, Decoder
<1>3. state' \in {state, "ERROR"} /\ (state' # state => ~dec.old)
  BY DEF DecodeRaises
<1> QED
  BY <1>2, <1>3 DEF DecodeRaises, Lifecycle, Settled, Stopping, Quiet

LEMMA DecodeEndAttended ==
    ASSUME Types, Lifecycle, DecodeEnd
    PROVE  Attended'
<1>1. queue \in Seq(Items) /\ END \in Items
  BY DEF Items, Types, FlowTypes
<1>2. CASE stop
  BY <1>2 DEF Lifecycle, Attended, Stopping, Joining, DecodeEnd, Decoding
<1>3. CASE ~stop
  <2>1. queue' = Append(queue, END)
    BY <1>3 DEF DecodeEnd, Put
  <2>2. queue' # <<>> /\ queue'[Len(queue')] = END
    BY <1>1, <2>1, AppendFacts
  <2> QED
    BY <2>2 DEF Lifecycle, Attended, DecodeEnd, Decoding
<1> QED
  BY <1>2, <1>3

LEMMA DecodePutEndIsLast ==
    ASSUME Types, Lifecycle, DecodePut \/ DecodeLoop
    PROVE  EndIsLast'
<1>1. /\ queue \in Seq(Items) /\ dec.pc # "none"
      /\ \A i \in DOMAIN queue : queue[i] # END
  BY DEF DecodePut, DecodeLoop, Types, FlowTypes, Lifecycle, EndIsLast
<1>2. CASE stop
  BY <1>1, <1>2 DEF DecodePut, DecodeLoop, Put, EndIsLast
<1>3. CASE ~stop
  <2>1. PICK x \in Items \ {END} : queue' = Append(queue, x)
    <3>1. CASE DecodePut
      <4>1. Frame(dec.at, dec.base) \in Items \ {END}
        BY <3>1 DEF DecodePut, Types, DecoderType, Decoder, Frame, FrameItem, Items, END
      <4> QED
        BY <1>3, <3>1, <4>1 DEF DecodePut, Put
    <3>2. CASE DecodeLoop
      BY <1>3, <3>2 DEF DecodeLoop, Put, Items, LOOP, END
    <3> QED
      BY <3>1, <3>2
  <2>2. \A i \in DOMAIN queue' : queue'[i] # END
    BY <1>1, <2>1, AppendFacts
  <2> QED
    BY <2>2 DEF EndIsLast
<1> QED
  BY <1>2, <1>3

LEMMA ApplySeekEndIsLast ==
    ASSUME Types, Lifecycle, ApplySeek
    PROVE  EndIsLast'
<1>1. CASE queue = <<>>
  BY <1>1 DEF ApplySeek, Lifecycle, EndIsLast, Presenting
<1>2. CASE queue # <<>>
  <2>1. queue \in Seq(Items) /\ queue' = Tail(queue) /\ dec' = dec
    BY <1>2 DEF ApplySeek, Types, FlowTypes, Presenting
  <2>2. /\ Len(queue') = Len(queue) - 1 /\ Len(queue) \in Nat
        /\ \A i \in DOMAIN queue' : i \in Nat /\ i + 1 \in DOMAIN queue /\ queue'[i] = queue[i + 1]
    BY <1>2, <2>1, TailFacts
  <2> QED
    BY <2>1, <2>2 DEF Lifecycle, EndIsLast
<1> QED
  BY <1>1, <1>2

\* A source comes to rest only when its presentation thread is done.
LEMMA SettledStep ==
    ASSUME Types, Lifecycle, [Next]_vars
    PROVE  Settled'
<1>1. Play \/ Stop \/ Reload \/ StageHead \/ HeadGiveUp => UNCHANGED <<state, pre, dec, sent>>
  BY DEF Play, AskToStop, Working, Stop, Reload, StageHead, HeadExit, HeadUnchanged,
     HeadTriggered, HeadStage, HeadSwap, HeadGiveUp
<1>2. Close \/ SeekEvent => UNCHANGED <<state, pre, dec, sent>>
  BY DEF Close, Free, AskToStop, Working, SeekEvent
<1>3. (\E t \in 0..(Last + 1) : Seek(t)) => UNCHANGED <<state, pre, dec, sent>>
  BY DEF Seek, Free, Broken, Working
<1>4. UNCHANGED vars => UNCHANGED <<state, pre, dec, sent>>
  BY DEF vars
<1>5. UNCHANGED <<state, pre, dec, sent>> => Settled'
  BY DEF Lifecycle, Settled
<1>6. CASE Pause \/ Resume \/ Started \/ StartStuck \/ Halted \/ PublishEnded
  BY <1>6
     DEF Types, DecoderType, Decoder, NoThread, Lifecycle, Settled, Quiet, Pause, Working,
        Resume, AskToStop, Started, Joined, StartStuck, Stuck, Retired, Halted, HaltStates,
        PublishEnded, Presenting
<1>7. CASE DecodeBegin \/ Due
  BY <1>7
     DEF Types, PresenterType, Presenter, NoThread, Lifecycle, Settled, Quiet, DecodeBegin,
        Decoding, Due, Stopping
<1>8. CASE DecodeConsume
  BY <1>8 DEF Lifecycle, Settled, DecodeConsume, Begun, Decoding
<1>9. CASE DecodeFrame \/ DecodePut \/ HeadDrained \/ PickNothing
  BY <1>9
     DEF Types, DecoderType, PresenterType, Decoder, Presenter, Lifecycle, Settled, DecodeFrame,
        Decoding, DecodePut, HeadDrained, PickNothing, Stopping
<1>10. CASE DecodeAfter \/ DecodeEnd \/ DecodeLoop \/ PublishRaises
  BY <1>10
     DEF NoThread, Lifecycle, Settled, Quiet, DecodeAfter, Decoding, DecodeEnd, DecodeLoop,
        PublishRaises, Stopping
<1>11. CASE ClaimSeek
  BY <1>11 DEF NoThread, Lifecycle, Settled, Quiet, ClaimSeek
<1>12. CASE ApplySeek \/ CheckPlaying
  BY <1>12
     DEF Types, PresenterType, Presenter, NoThread, Lifecycle, Settled, Quiet, ApplySeek,
        CheckPlaying
<1>13. CASE PickHead
  BY <1>13 DEF Lifecycle, Settled, PickHead, Offer
<1>14. CASE PickLoop
  BY <1>14 DEF Lifecycle, Settled, PickLoop, Picks
<1>15. CASE PublishFrame
  BY <1>15 DEF Lifecycle, Settled, PublishFrame
<1> QED
  BY <1>1, <1>2, <1>3, <1>4, <1>5, <1>6, <1>7, <1>8, <1>9, <1>10, <1>11, <1>12, <1>13, <1>14,
     <1>15, PickFrameSettled, PickEndSettled, DecodeRaisesSettled
     DEF Next, Call, Return, Decode, Present

\* The stop event of a running source is set by a call that waits.
LEMMA StoppingStep ==
    ASSUME Types, Lifecycle, [Next]_vars
    PROVE  Stopping'
<1>1. StageHead \/ HeadGiveUp \/ ClaimSeek \/ ApplySeek \/ PickHead \/ HeadDrained \/
   PickNothing \/ PublishEnded \/ PickLoop \/ PickFrame \/ Due \/ CheckPlaying \/ PublishFrame
   => UNCHANGED <<call, stop, state, dec>>
  BY DEF StageHead, HeadExit, HeadUnchanged, HeadTriggered, HeadStage, HeadSwap, HeadGiveUp,
     ClaimSeek, Presenting, ApplySeek, PickHead, HeadDrained, PickNothing, PublishEnded,
     PickLoop, PickFrame, Due, CheckPlaying, PublishFrame
<1>2. UNCHANGED vars => UNCHANGED <<call, stop, state, dec>>
  BY DEF vars
<1>3. UNCHANGED <<call, stop, state, dec>> => Stopping'
  BY DEF Lifecycle, Stopping
<1>4. CASE Play \/ Pause \/ Resume \/ Stop \/ PublishRaises
  BY <1>4
     DEF Lifecycle, Stopping, Joining, Play, AskToStop, Working, Pause, Resume, Stop,
        PublishRaises
<1>5. CASE Reload \/ Close \/ DecodeLoop
  BY <1>5
     DEF Types, DecoderType, Decoder, Lifecycle, Stopping, Joining, Reload, AskToStop, Working,
        Close, DecodeLoop, Decoding
<1>6. CASE (\E t \in 0..(Last + 1) : Seek(t))
  BY <1>6 DEF Lifecycle, Stopping, Joining, Seek, Free, Working
<1>7. CASE SeekEvent \/ Started \/ StartStuck \/ Halted \/ DecodeEnd \/ PickEnd
  BY <1>7
     DEF NoThread, Lifecycle, Stopping, Joining, SeekEvent, Working, Started, StartStuck,
        Halted, HaltStates, DecodeEnd, Decoding, PickEnd, Presenting
<1>8. CASE DecodeBegin
  BY <1>8 DEF Lifecycle, Stopping, DecodeBegin, Begun, Decoding
<1>9. CASE DecodeConsume
  BY <1>9 DEF Lifecycle, Stopping, DecodeConsume, Begun, Decoding
<1>10. CASE DecodeFrame
  BY <1>10 DEF Lifecycle, Stopping, DecodeFrame, Decoding
<1>11. CASE DecodePut
  BY <1>11 DEF Lifecycle, Stopping, DecodePut, Decoding
<1>12. CASE DecodeAfter
  BY <1>12 DEF Lifecycle, Stopping, DecodeAfter, Decoding
<1> QED
  BY <1>1, <1>2, <1>3, <1>4, <1>5, <1>6, <1>7, <1>8, <1>9, <1>10, <1>11, <1>12,
     DecodeRaisesSettled
     DEF Next, Call, Return, Decode, Present

\* The decode thread puts the end and is gone.
LEMMA EndIsLastStep ==
    ASSUME Types, Lifecycle, [Next]_vars
    PROVE  EndIsLast'
<1>1. Play \/ Pause \/ Resume \/ Stop \/ Reload \/ Close \/ HeadSwap \/ HeadGiveUp \/ ClaimSeek
   \/ PickHead \/ HeadDrained \/ PickNothing \/ PublishEnded \/ Due \/ CheckPlaying \/
   PublishFrame \/ PublishRaises => UNCHANGED <<queue, dec>>
  BY DEF Play, AskToStop, Working, Pause, Resume, Stop, Reload, Close, HeadSwap, HeadUnchanged,
     HeadGiveUp, ClaimSeek, Presenting, PickHead, HeadDrained, PickNothing, PublishEnded, Due,
     CheckPlaying, PublishFrame, PublishRaises
<1>2. (\E t \in 0..(Last + 1) : Seek(t)) => UNCHANGED <<queue, dec>>
  BY DEF Seek, Free, Broken, Working
<1>3. SeekEvent \/ HeadExit \/ HeadTriggered \/ HeadStage => UNCHANGED <<queue, dec>>
  BY DEF SeekEvent, Working, HeadExit, HeadUnchanged, HeadTriggered, HeadStage
<1>4. UNCHANGED vars => UNCHANGED <<queue, dec>>
  BY DEF vars
<1>5. UNCHANGED <<queue, dec>> => EndIsLast'
  BY DEF Lifecycle, EndIsLast
<1>6. CASE Started \/ StartStuck \/ Halted \/ DecodeRaises
  BY <1>6 DEF Lifecycle, EndIsLast, Started, StartStuck, Halted, DecodeRaises
<1>7. CASE DecodeBegin \/ DecodeConsume \/ DecodeFrame \/ DecodeAfter
  BY <1>7 DEF Lifecycle, EndIsLast, DecodeBegin, DecodeConsume, DecodeFrame, DecodeAfter
<1>8. CASE DecodeEnd
  BY <1>8 DEF NoThread, Lifecycle, EndIsLast, DecodeEnd, Put
<1>9. CASE PickEnd \/ PickLoop
  BY <1>9, TailFacts, AppendFacts
     DEF Types, DecoderType, Decoder, FlowTypes, Lifecycle, EndIsLast, PickEnd, Presenting,
        Picks, PickLoop
<1>10. CASE PickFrame
  BY <1>10, TailFacts DEF Types, FlowTypes, Lifecycle, EndIsLast, PickFrame, Presenting, Picks
<1> QED
  BY <1>1, <1>2, <1>3, <1>4, <1>5, <1>6, <1>7, <1>8, <1>9, <1>10, DecodePutEndIsLast,
     ApplySeekEndIsLast
     DEF Next, Call, Return, Decode, StageHead, Present

\* A seek and its traces go with a broken pass.
LEMMA TroubledStep ==
    ASSUME Types, Lifecycle, [Next]_vars
    PROVE  Troubled'
<1>1. StageHead \/ HeadGiveUp => UNCHANGED <<call, seek, pre, dec, trouble, state>>
  BY DEF StageHead, HeadExit, HeadUnchanged, HeadTriggered, HeadStage, HeadSwap, HeadGiveUp
<1>2. UNCHANGED vars => UNCHANGED <<call, seek, pre, dec, trouble, state>>
  BY DEF vars
<1>3. UNCHANGED <<call, seek, pre, dec, trouble, state>> => Troubled'
  BY DEF Lifecycle, Troubled
<1>4. CASE Play \/ Pause \/ Resume \/ Stop \/ Due \/ CheckPlaying \/ PublishRaises
  BY <1>4
     DEF Types, PresenterType, Presenter, NoThread, Lifecycle, Troubled, Play, AskToStop,
        Working, Pause, Resume, Stop, Due, Presenting, CheckPlaying, PublishRaises, Broken
<1>5. CASE Reload \/ Close \/ DecodeConsume
  BY <1>5 DEF Lifecycle, Troubled, Reload, AskToStop, Working, Close, DecodeConsume
<1>6. CASE (\E t \in 0..(Last + 1) : Seek(t))
  BY <1>6 DEF Troubled, Seek, Broken
<1>7. CASE SeekEvent \/ Started \/ StartStuck \/ Halted \/ DecodeRaises
  BY <1>7
     DEF Types, DecoderType, Decoder, Lifecycle, Troubled, SeekEvent, Started, NoSeek,
        StartStuck, Retired, Halted, HaltStates, DecodeRaises, Broken
<1>8. CASE DecodeBegin
  BY <1>8 DEF NoThread, Lifecycle, Troubled, DecodeBegin, Begun, Decoding
<1>9. CASE DecodeFrame
  BY <1>9 DEF Lifecycle, Troubled, DecodeFrame, Decoding
<1>10. CASE DecodePut
  BY <1>10 DEF Lifecycle, Troubled, DecodePut, Decoding
<1>11. CASE DecodeAfter
  BY <1>11 DEF NoThread, Lifecycle, Troubled, DecodeAfter, Decoding
<1>12. CASE DecodeEnd
  BY <1>12 DEF NoThread, Lifecycle, Troubled, DecodeEnd, Decoding
<1>13. CASE DecodeLoop \/ HeadDrained \/ PickNothing \/ PickEnd
  BY <1>13
     DEF Types, DecoderType, PresenterType, Decoder, Presenter, NoThread, Lifecycle, Troubled,
        DecodeLoop, Decoding, HeadDrained, Presenting, PickNothing, PickEnd, Picks
<1>14. CASE ClaimSeek \/ ApplySeek \/ PublishEnded
  BY <1>14
     DEF Types, PresenterType, Presenter, NoThread, FlagTypes, Lifecycle, Troubled, ClaimSeek,
        Presenting, ApplySeek, PublishEnded
<1>15. CASE PickHead
  BY <1>15 DEF Lifecycle, Troubled, PickHead, Presenting, Offer
<1>16. CASE PickLoop
  BY <1>16 DEF Lifecycle, Troubled, PickLoop, Presenting
<1>17. CASE PublishFrame
  BY <1>17 DEF Lifecycle, Troubled, PublishFrame, Presenting
<1> QED
  BY <1>1, <1>2, <1>3, <1>4, <1>5, <1>6, <1>7, <1>8, <1>9, <1>10, <1>11, <1>12, <1>13, <1>14,
     <1>15, <1>16, <1>17, PickFrameTroubled
     DEF Next, Call, Return, Decode, Present

\* A thread leaves a playing source only at the end, which it queues or shows.
LEMMA AttendedStep ==
    ASSUME Types, Lifecycle, [Next]_vars
    PROVE  Attended'
<1>1. StageHead \/ HeadGiveUp => UNCHANGED <<state, trouble, call, pre, dec, queue>>
  BY DEF StageHead, HeadExit, HeadUnchanged, HeadTriggered, HeadStage, HeadSwap, HeadGiveUp
<1>2. UNCHANGED vars => UNCHANGED <<state, trouble, call, pre, dec, queue>>
  BY DEF vars
<1>3. UNCHANGED <<state, trouble, call, pre, dec, queue>> => Attended'
  BY DEF Lifecycle, Attended
<1>4. CASE Call \/ DecodeRaises
  BY <1>4
     DEF Lifecycle, Attended, Call, Play, AskToStop, Pause, Resume, Stop, Reload, Close, Seek,
        Broken, DecodeRaises, Troubled
<1>5. CASE SeekEvent \/ Started \/ StartStuck \/ Halted \/ DecodeConsume \/ DecodeLoop \/
   CheckPlaying \/ PublishRaises
  BY <1>5
     DEF Types, DecoderType, PresenterType, Decoder, Presenter, Lifecycle, Attended, SeekEvent,
        Started, StartStuck, Halted, HaltStates, DecodeConsume, Decoding, DecodeLoop,
        CheckPlaying, Presenting, PublishRaises, Stopping, Joining, Troubled
<1>6. CASE DecodeBegin
  BY <1>6 DEF Lifecycle, Attended, DecodeBegin, Begun, Decoding, Stopping, Joining
<1>7. CASE DecodeFrame
  BY <1>7 DEF Lifecycle, Attended, DecodeFrame, Decoding
<1>8. CASE DecodePut
  BY <1>8 DEF Lifecycle, Attended, DecodePut, Decoding
<1>9. CASE DecodeAfter
  BY <1>9 DEF Lifecycle, Attended, DecodeAfter, Decoding, Stopping, Joining
<1>10. CASE ClaimSeek \/ ApplySeek
  BY <1>10
     DEF Types, PresenterType, Presenter, Lifecycle, Attended, ClaimSeek, Presenting, ApplySeek,
        Stopping, Joining, Troubled
<1>11. CASE PickHead
  BY <1>11 DEF Lifecycle, Attended, PickHead, Presenting, Offer
<1>12. CASE HeadDrained \/ PickNothing \/ PickEnd \/ PublishEnded \/ Due
  BY <1>12
     DEF Types, PresenterType, Presenter, Lifecycle, Attended, HeadDrained, Presenting,
        PickNothing, PickEnd, PublishEnded, Due, Stopping, Joining, Settled
<1>13. CASE PublishFrame
  BY <1>13 DEF Lifecycle, Attended, PublishFrame, Presenting
<1> QED
  BY <1>1, <1>2, <1>3, <1>4, <1>5, <1>6, <1>7, <1>8, <1>9, <1>10, <1>11, <1>12, <1>13,
     PickFrameAttended, PickLoopAttended, DecodeEndAttended
     DEF Next, Return, Decode, Present

LEMMA LifecycleStep == Types /\ Lifecycle /\ [Next]_vars => Lifecycle'
  BY SettledStep, StoppingStep, EndIsLastStep, TroubledStep, AttendedStep DEF Lifecycle

-----------------------------------------------------------------------------
(* The frames of a pass.                                                   *)

\* Follows says what may stand behind an item of the queue, Coming what the decode
\* thread puts next, Wanted the frame the presentation thread has to take next, and
\* Fits which items it can make of it: while the staged head is shown, the live pass
\* waits at its first frame; behind the head, the frames it has shown come again
\* and are dropped; then the frames come in turn, and the signal behind the last.
Signal == IF loop THEN LOOP ELSE END
Follows(a, b, last) ==
  \/ a = LOOP /\ b = Frame(0, 0)
  \/ a.signal = "frame" /\ a.pts < Last /\ b = Frame(a.pts + 1, a.pts - a.index)
  \/ a.signal = "frame" /\ a.pts = Last /\ b = last
Coming ==
  IF dec.pc = "top" THEN Frame(passStart, passStart)
  ELSE IF dec.pc \in {"run", "put", "after"} /\ dec.at <= Last THEN Frame(dec.at, dec.base)
  ELSE Signal
Comes == ~stop /\ dec.pc # "none"
Live == trouble # "break" /\ pre.pc \notin {"none", "ended"}
Wanted == IF Holding THEN next + 1 ELSE next
Fits(x) ==
  \/ x.signal = "frame" /\ pre.using /\ x = Frame(0, 0)
  \/ /\ x.signal = "frame" /\ ~pre.using
     /\ \/ x.pts = Wanted /\ (pre.upto = Nil \/ x.index = x.pts)
        \/ x.pts < Wanted /\ Wanted = pre.upto + 1 /\ x.index = x.pts
  \/ x = Signal /\ ~pre.using /\ Wanted = Last + 1

DecoderInPass ==
  Comes =>
   /\ dec.pc = "run" => dec.at <= Last \/ dec.any
   /\ dec.pc = "put" => dec.any
   /\ dec.pc = "after" => dec.at = Last + 1 /\ dec.any
   /\ dec.pc = "end" => ~loop
   /\ dec.pc = "loop" => loop /\ passStart = 0
Chained ==
  /\ \A i \in 1..(Len(queue) - 1) : Follows(queue[i], queue[i + 1], Signal)
  /\ Comes /\ queue # <<>> => Follows(queue[Len(queue)], Coming, Signal)
InTurn ==
  /\ queue # <<>> => Fits(queue[1])
  /\ Comes /\ queue = <<>> => Fits(Coming)
Counted ==
  /\ next \in Targets /\ pre.upto < Wanted
  /\ Holding => pre.item.pts = next
  /\ pre.using => head.inUse /\ pre.upto = next - 1 /\ (Holding => pre.item.index = next)
  /\ \A i \in DOMAIN head.staged :
       head.staged[i] = Frame((IF pre.using THEN Wanted ELSE 0) + i - 1, 0)
Gapless == Live => DecoderInPass /\ Chained /\ InTurn /\ Counted

\* What is left of the pass when its first item is taken.
LEMMA ChainTail ==
    ASSUME Chained, queue \in Seq(Items), queue # <<>>, queue' = Tail(queue),
           UNCHANGED <<loop, stop, passStart, dec>>
    PROVE  /\ Chained'
           /\ queue' # <<>> => Follows(queue[1], queue'[1], Signal)
           /\ Comes' /\ queue' = <<>> => Follows(queue[1], Coming', Signal)
<1>1. Signal' = Signal /\ Coming' = Coming /\ Comes' = Comes
  BY DEF Coming, Comes, Signal
<1>2. /\ Len(queue) \in Nat \ {0} /\ Len(queue') = Len(queue) - 1
      /\ \A i \in 1..(Len(queue) - 1) : queue'[i] = queue[i + 1]
      /\ (queue' = <<>>) <=> (Len(queue) = 1)
  BY TailFacts
<1>3. ASSUME NEW i \in 1..(Len(queue') - 1) PROVE Follows(queue'[i], queue'[i + 1], Signal)
  <2>1. i \in 1..(Len(queue) - 1) /\ i + 1 \in 1..(Len(queue) - 1)
    BY <1>2
  <2>2. queue'[i] = queue[i + 1] /\ queue'[i + 1] = queue[(i + 1) + 1]
    BY <1>2, <2>1
  <2> QED
    BY <2>1, <2>2 DEF Chained
<1>4. ASSUME queue' # <<>> PROVE queue'[Len(queue')] = queue[Len(queue)] /\ queue'[1] = queue[2]
  <2>1. Len(queue) \in Nat /\ Len(queue) > 1
    BY <1>2, <1>4
  <2>2. Len(queue) - 1 \in 1..(Len(queue) - 1) /\ 1 \in 1..(Len(queue) - 1)
    BY <2>1
  <2>3. queue'[Len(queue) - 1] = queue[(Len(queue) - 1) + 1]
    BY <1>2, <2>2
  <2> QED
    BY <1>2, <2>1, <2>2, <2>3
<1>5. Comes' /\ queue' # <<>> => Follows(queue'[Len(queue')], Coming', Signal)
  BY <1>1, <1>4 DEF Chained
<1>6. queue' # <<>> => Follows(queue[1], queue'[1], Signal)
  <2>1. ASSUME queue' # <<>> PROVE 1 \in 1..(Len(queue) - 1)
    BY <1>2, <2>1
  <2> QED
    BY <1>4, <2>1 DEF Chained
<1>7. Comes' /\ queue' = <<>> => Follows(queue[1], Coming', Signal)
  BY <1>1, <1>2 DEF Chained
<1> QED
  BY <1>1, <1>3, <1>5, <1>6, <1>7 DEF Chained

\* The pass when its next item is queued.
LEMMA ChainAppend ==
    ASSUME Chained, queue \in Seq(Items), NEW x \in Items, queue' = Append(queue, x),
           Comes, x = Coming, loop' = loop, Comes' => Follows(x, Coming', Signal)
    PROVE  Chained'
<1>1. Signal' = Signal
  BY DEF Signal
<1>2. /\ Len(queue) \in Nat /\ Len(queue') = Len(queue) + 1 /\ queue' # <<>>
      /\ \A i \in 1..Len(queue) : queue'[i] = queue[i]
      /\ queue'[Len(queue) + 1] = x
  BY AppendFacts
<1>3. ASSUME NEW i \in 1..(Len(queue') - 1) PROVE Follows(queue'[i], queue'[i + 1], Signal)
  <2>1. CASE i = Len(queue)
    <3>1. queue # <<>> /\ i \in 1..Len(queue)
      BY <1>2, <2>1
    <3>2. Follows(queue[i], x, Signal)
      BY <2>1, <3>1 DEF Chained
    <3> QED
      BY <1>2, <2>1, <3>1, <3>2
  <2>2. CASE i # Len(queue)
    <3>1. i \in 1..(Len(queue) - 1) /\ i \in 1..Len(queue) /\ i + 1 \in 1..Len(queue)
      BY <1>2, <2>2
    <3> QED
      BY <1>2, <3>1 DEF Chained
  <2> QED
    BY <2>1, <2>2
<1>4. Comes' => Follows(queue'[Len(queue')], Coming', Signal)
  BY <1>2
<1> QED
  BY <1>1, <1>3, <1>4 DEF Chained

\* An item that joins an empty queue is the one that was coming.
LEMMA TurnAppend ==
    ASSUME InTurn, queue \in Seq(Items), NEW x \in Items, queue' = Append(queue, x),
           Comes, x = Coming, UNCHANGED <<loop, pre, next>>
    PROVE  InTurn'
<1>1. \A y : Fits(y) => Fits(y)'
  BY DEF Fits, Wanted, Holding, Signal
<1>2. queue' # <<>> /\ (queue # <<>> => queue'[1] = queue[1]) /\ (queue = <<>> => queue'[1] = x)
  <2>1. queue' # <<>> /\ Len(queue) \in Nat
    BY AppendFacts
  <2>2. ASSUME queue # <<>> PROVE queue'[1] = queue[1]
    <3>1. 1 \in 1..Len(queue)
      BY <2>2, EmptySeq
    <3> QED
      BY <3>1, AppendFacts
  <2>3. ASSUME queue = <<>> PROVE queue'[1] = x
    BY <2>3
  <2> QED
    BY <2>1, <2>2, <2>3
<1>3. \E y : y = queue'[1] /\ Fits(y)
  BY <1>2 DEF InTurn
<1> QED
  BY <1>1, <1>2, <1>3 DEF InTurn, Fits, Wanted, Holding, Signal

\* A frame or the mark of a loop that is queued is the one that was coming.
LEMMA PutFacts == ASSUME Types, Gapless, Live, ~stop, DecodePut \/ DecodeLoop
   PROVE /\ queue \in Seq(Items) /\ queue' = Append(queue, Coming) /\ Coming \in Items
         /\ Comes /\ Comes' /\ UNCHANGED <<loop, pre, next>> /\ Follows(Coming, Coming', Signal)
 <1>1. CASE DecodePut
   <2>1. dec \in Decoder /\ dec.at <= Last /\ dec.base <= dec.at
     BY <1>1 DEF DecodePut, Types, DecoderType
   <2>2. Coming = Frame(dec.at, dec.base)
     BY <1>1, <2>1 DEF DecodePut, Coming
   <2>3. Frame(dec.at, dec.base) \in Items
     BY <2>1 DEF Decoder, Frame, FrameItem, Items
   <2>4. queue' = Append(queue, Coming) 
     BY <1>1, <2>2 DEF DecodePut, Put
   <2>5. dec'.pc = "run" /\ dec'.at = dec.at + 1 /\ dec'.base = dec.base
     BY <1>1, <2>1 DEF DecodePut, Decoder
   <2>6. Follows(Coming, Coming', Signal)
     BY <1>1, <2>1, <2>2, <2>5 DEF Coming, Follows, Frame, Decoder, DecodePut, Decoding, Signal
   <2> QED
     BY <1>1, <2>2, <2>3, <2>4, <2>5, <2>6 DEF Comes, DecodePut, Decoding, Types, FlowTypes
 <1>2. CASE DecodeLoop
   <2>1. dec \in Decoder /\ loop /\ passStart = 0
     BY <1>2 DEF DecodeLoop, Types, DecoderType, Gapless, DecoderInPass, Comes
   <2>2. Coming = LOOP
     BY <1>2, <2>1 DEF DecodeLoop, Coming, Signal
   <2>4. queue' = Append(queue, Coming) 
     BY <1>2, <2>2 DEF DecodeLoop, Put
   <2>5. dec'.pc = "top"
     BY <1>2, <2>1 DEF DecodeLoop, Decoder
   <2>6. Follows(Coming, Coming', Signal)
     BY <1>2, <2>1, <2>2, <2>5 DEF Coming, Follows, DecodeLoop
   <2> QED
     BY <1>2, <2>2, <2>4, <2>5, <2>6 DEF Comes, DecodeLoop, Decoding, Types, FlowTypes, Items
 <1> QED
   BY <1>1, <1>2

\* Where a frame that is picked stands in the pass.
LEMMA PickFrameTurn ==
    ASSUME Types, Lifecycle, Gapless, PickFrame, Live'
    PROVE  /\ Live /\ seek.filter = Nil
           /\ queue[1].signal = "frame" /\ queue[1].pts \in Int /\ queue[1].index \in Int
           /\ pre.upto \in Int /\ next \in Int /\ pre.upto < next
           /\ \/ queue[1].pts = next /\ (pre.upto = Nil \/ queue[1].index = queue[1].pts)
              \/ queue[1].pts < next /\ next = pre.upto + 1 /\ queue[1].index = queue[1].pts
<1>1. Live
  BY PickFrameFacts DEF Live
<1>2. seek.filter = Nil
  BY <1>1 DEF Live, Lifecycle, Troubled
<1>3. queue[1].signal = "frame" /\ queue[1].pts \in Int /\ queue[1].index \in Int
  BY PickFrameFacts DEF FrameItem
<1>4. Fits(queue[1]) /\ Wanted = next
  BY <1>1, PickFrameFacts DEF Gapless, InTurn, Wanted, Holding, Holds
<1>5. ~(queue[1] = Signal)
  BY <1>3 DEF Signal, END, LOOP
<1>6. pre.upto \in Int /\ next \in Int /\ pre.upto < next
  BY <1>1, <1>4, PickFrameFacts DEF Presenter, Gapless, Counted, Targets
<1> QED
  BY <1>1, <1>2, <1>3, <1>4, <1>5, <1>6, PickFrameFacts DEF Fits

LEMMA DecodePutTurns ==
    ASSUME Types, Gapless, DecodePut \/ DecodeLoop, Live'
    PROVE  Chained' /\ InTurn'
<1>1. Live
  BY DEF Live, DecodePut, DecodeLoop, Decoding
<1>2. CASE ~stop
  BY <1>1, <1>2, PutFacts, ChainAppend, TurnAppend DEF Gapless
<1>3. CASE stop
  <2>1. ~Comes' /\ UNCHANGED <<loop, queue, pre, next>>
    BY <1>3 DEF DecodePut, DecodeLoop, Put, Decoding, Comes
  <2> QED
    BY <1>1, <2>1 DEF Gapless, Chained, InTurn, Fits, Wanted, Holding, Signal
<1> QED
  BY <1>2, <1>3

LEMMA PickFrameTurns ==
    ASSUME Types, Lifecycle, Gapless, PickFrame, Live'
    PROVE  Chained' /\ InTurn'
<1>1. Live
  BY PickFrameFacts DEF Live
<1>2. /\ Chained'
      /\ queue' # <<>> => Follows(queue[1], queue'[1], Signal)
      /\ Comes' /\ queue' = <<>> => Follows(queue[1], Coming', Signal)
  BY <1>1, PickFrameFacts, ChainTail DEF Gapless
<1>3. ASSUME NEW x, Follows(queue[1], x, Signal) PROVE Fits(x)'
  <2>0. queue[1] # LOOP /\ queue[1].pts \in 0..Last /\ queue[1].index \in 0..Last
    BY PickFrameFacts DEF FrameItem, LOOP
  <2>1. Signal' = Signal /\ pre'.using = FALSE /\ pre'.upto = pre.upto
    BY PickFrameFacts DEF Signal
  <2>2. \/ queue[1].pts < Last /\ x.signal = "frame" /\ x.pts = queue[1].pts + 1 /\ x.index = queue[1].index + 1
        \/ queue[1].pts = Last /\ x = Signal
    BY <1>3, <2>0 DEF Follows, Frame
  <2>3. CASE pre'.pc = "top"
    <3>1. Wanted' = next
      BY <2>3, PickFrameFacts DEF Wanted, Holding, Holds
    <3>2. queue[1].index <= pre.upto
      BY <2>3, PickFrameFacts, PickFrameTurn
    <3>3. queue[1].pts < next /\ next = pre.upto + 1 /\ queue[1].index = queue[1].pts
      BY <2>0, <3>2, PickFrameTurn
    <3>4. next \in 0..(Last + 1)
      BY <1>1 DEF Gapless, Counted, Targets
    <3> QED
      BY <2>0, <2>1, <2>2, <3>1, <3>3, <3>4 DEF Fits
  <2>4. CASE pre'.pc = "due"
    <3>1. Wanted' = next + 1
      BY <2>4, PickFrameFacts DEF Wanted, Holding, Holds
    <3>2. queue[1].index > pre.upto /\ pre.upto \in Int /\ next \in Int
      BY <2>4, PickFrameFacts, PickFrameTurn
    <3>3. queue[1].pts = next /\ (pre.upto = -1 \/ queue[1].index = queue[1].pts)
      BY <2>0, <3>2, PickFrameTurn
    <3> QED
      BY <2>0, <2>1, <2>2, <3>1, <3>3 DEF Fits
  <2> QED
    BY <2>3, <2>4, PickFrameFacts
<1>4. \A x : Follows(queue[1], x, Signal) => Fits(x)'
  BY <1>3
<1> QED
  BY <1>2, <1>4 DEF InTurn

LEMMA ResumeGapless ==
    ASSUME Types, Lifecycle, Gapless, Resume, Live'
    PROVE  Counted' /\ Chained' /\ InTurn'
<1>1. ~seek.event /\ Live
  BY DEF Resume, Lifecycle, Troubled, Live, AskToStop, Working
<1>2. UNCHANGED <<loop, stop, dec, pre, queue, head, next, passStart>>
  BY <1>1 DEF Resume, Working
<1> QED
  BY <1>1, <1>2
     DEF Gapless, Counted, Chained, InTurn, Fits, Wanted, Holding, Signal, Comes, Coming

LEMMA HeadSwapCounted ==
    ASSUME Types, Gapless, HeadSwap, Live'
    PROVE  Counted'
<1>1. Live /\ ~pre.using
  BY DEF HeadSwap, Live, HeadUnchanged, Gapless, Counted
<1>2. head'.staged = FreshHead /\ head'.inUse = head.inUse
  BY DEF HeadSwap, Types, FlowTypes, HeadType
<1>3. \A i \in DOMAIN FreshHead : FreshHead[i] = Frame(i - 1, 0)
  BY DEF FreshHead
<1>4. \A i \in DOMAIN FreshHead : 0 + i - 1 = i - 1
  BY DEF FreshHead
<1> QED
  BY <1>1, <1>2, <1>3, <1>4 DEF HeadSwap, HeadUnchanged, Gapless, Counted, Wanted, Holding

LEMMA PickLoopTurns ==
    ASSUME Types, Lifecycle, Gapless, PickLoop, Live'
    PROVE  Chained' /\ InTurn'
<1>1. pre \in Presenter /\ queue \in Seq(Items) /\ queue # <<>> /\ Live
  BY DEF PickLoop, Picks, Types, FlowTypes, PresenterType, Live, Presenting
<1>2. queue[1] = LOOP
  <2>1. queue[1] = Head(queue) /\ Head(queue) \in Items
    BY <1>1, TailFacts
  <2> QED
    BY <2>1 DEF PickLoop, Picks, Items, END, FrameItem
<1>3. /\ Chained'
      /\ queue' # <<>> => Follows(queue[1], queue'[1], Signal)
      /\ Comes' /\ queue' = <<>> => Follows(queue[1], Coming', Signal)
  BY <1>1, ChainTail DEF Gapless, PickLoop, Picks, Presenting
<1>4. pre'.pc = "top" /\ pre'.using
  BY <1>1 DEF PickLoop, Presenter
<1>5. \A x : Follows(queue[1], x, Signal) => x = Frame(0, 0)
  BY <1>2 DEF Follows, LOOP
<1>6. \A x : x = Frame(0, 0) => Fits(x)'
  BY <1>4 DEF Fits, Frame
<1> QED
  BY <1>3, <1>5, <1>6 DEF InTurn

LEMMA PublishFrameGapless ==
    ASSUME Types, Lifecycle, Gapless, PublishFrame, Live'
    PROVE  Counted' /\ InTurn'
<1>1. Live /\ pre \in Presenter /\ pre.item \in FrameItem /\ pre.pc = "publish" /\ next' = pre.item.pts + 1
  BY DEF PublishFrame, Types, PresenterType, Live, Presenting, Holding, Holds
<1>2. /\ next \in 0..(Last + 1) /\ pre.item.pts = next /\ pre.upto < next + 1 /\ pre.upto \in Int
      /\ pre.using => head.inUse /\ pre.upto = next - 1 /\ pre.item.index = next
  BY <1>1 DEF Gapless, Counted, Targets, Holding, Holds, Wanted, Presenter
<1>3. next' = next + 1 /\ next' \in 0..(Last + 1)
  BY <1>1, <1>2 DEF FrameItem
<1>4. pre'.pc = "top" /\ pre'.using = pre.using
  BY <1>1 DEF PublishFrame, Presenter
<1>5. IF pre.using THEN pre'.upto = next ELSE pre'.upto = pre.upto
  BY <1>1, <1>2 DEF PublishFrame, Presenter
<1>6. Wanted' = Wanted
  BY <1>1, <1>3, <1>4 DEF Wanted, Holding, Holds
<1>7. Counted'
  <2>1. pre'.upto < Wanted' /\ ~Holding'
    BY <1>1, <1>2, <1>4, <1>5, <1>6 DEF Wanted, Holding, Holds
  <2>2. pre'.using => head'.inUse /\ pre'.upto = next' - 1
    BY <1>2, <1>3, <1>4, <1>5 DEF PublishFrame
  <2>3. \A i \in DOMAIN head.staged :
          head.staged[i] = Frame((IF pre'.using THEN Wanted' ELSE 0) + i - 1, 0)
    BY <1>1, <1>4, <1>6 DEF Gapless, Counted
  <2> QED
    BY <1>3, <2>1, <2>2, <2>3 DEF Counted, Targets, PublishFrame
<1>8. \A x : Fits(x) => Fits(x)'
  BY <1>4, <1>5, <1>6 DEF Fits, Signal, PublishFrame, Presenting
<1>9. UNCHANGED <<queue, Comes, Coming>>
  BY DEF PublishFrame, Presenting, Comes, Coming, Signal
<1> QED
  BY <1>1, <1>7, <1>8, <1>9 DEF Gapless, InTurn

LEMMA HeadDrainedInTurn ==
    ASSUME Types, Lifecycle, Gapless, HeadDrained, Live'
    PROVE  InTurn'
<1>1. Live /\ pre \in Presenter /\ pre.using /\ pre.pc = "pick"
  BY DEF HeadDrained, Types, PresenterType, Live, Presenting
<1>2. pre'.pc = "pick" /\ ~pre'.using /\ pre'.upto = pre.upto
  BY <1>1 DEF HeadDrained, Presenter
<1>3. pre.upto = next - 1 /\ next \in 0..(Last + 1) /\ Wanted' = next
  BY <1>1, <1>2 DEF Gapless, Counted, Targets, Wanted, Holding, Holds, HeadDrained
<1>4. \A x : Fits(x) => x = Frame(0, 0)
  BY <1>1 DEF Fits
<1>5. \A x : x = Frame(0, 0) => Fits(x)'
  BY <1>2, <1>3 DEF Fits, Frame
<1>9. UNCHANGED <<queue, Comes, Coming>>
  BY DEF HeadDrained, Presenting, Comes, Coming, Signal
<1> QED
  BY <1>1, <1>4, <1>5, <1>9 DEF Gapless, InTurn

LEMMA PickHeadCounted ==
    ASSUME Types, Lifecycle, Gapless, PickHead, Live'
    PROVE  Counted'
<1>1. Live /\ pre \in Presenter /\ pre.using /\ pre.pc = "pick" /\ head \in HeadType /\ head.staged # <<>>
  BY DEF PickHead, Types, PresenterType, FlowTypes, Live, Presenting
<1>2. seek.filter = Nil
  BY <1>1 DEF Live, Lifecycle, Troubled
<1>3. pre' = [pre EXCEPT !.pc = "due", !.item = Head(head.staged)]
  BY <1>2, Zenon DEF PickHead, Offer, Passes
<1>4. head.staged \in Seq(FrameItem)
  BY <1>1 DEF HeadType
<1>5. /\ Head(head.staged) = head.staged[1] /\ 1 \in DOMAIN head.staged
      /\ Head(head.staged) \in FrameItem
      /\ \A i \in DOMAIN Tail(head.staged) : i + 1 \in DOMAIN head.staged /\ Tail(head.staged)[i] = head.staged[i + 1] /\ i \in Nat
  BY <1>1, <1>4, TailFacts
<1>6. \A i \in DOMAIN head.staged : head.staged[i] = Frame(next + i - 1, 0)
  BY <1>1 DEF Gapless, Counted, Wanted, Holding, Holds
<1>7. next \in 0..(Last + 1) /\ pre.upto = next - 1 /\ head.inUse
  BY <1>1 DEF Gapless, Counted, Targets
<1>8. Head(head.staged) = Frame(next, 0)
  BY <1>5, <1>6, <1>7
<1>9. pre'.pc = "due" /\ pre'.item = Frame(next, 0) /\ pre'.using /\ pre'.upto = next - 1
  BY <1>1, <1>3, <1>7, <1>8 DEF Presenter
<1>10. head'.staged = Tail(head.staged) /\ head'.inUse = head.inUse /\ next' = next
  BY <1>1 DEF PickHead, HeadType
<1>11. \A i \in DOMAIN head'.staged : head'.staged[i] = Frame(next + 1 + i - 1, 0)
  <2> SUFFICES ASSUME NEW i \in DOMAIN Tail(head.staged) PROVE Tail(head.staged)[i] = Frame(next + 1 + i - 1, 0)
    BY <1>10
  <2>1. Tail(head.staged)[i] = Frame(next + (i + 1) - 1, 0) /\ i \in Nat
    BY <1>5, <1>6
  <2>2. next + (i + 1) - 1 = next + 1 + i - 1
    BY <1>7, <2>1
  <2> QED
    BY <2>1, <2>2
<1>12. Wanted' = next + 1
  BY <1>9, <1>10 DEF Wanted, Holding, Holds
<1> QED
  BY <1>7, <1>9, <1>10, <1>11, <1>12 DEF Counted, Targets, Frame

LEMMA PickFrameCounted ==
    ASSUME Types, Lifecycle, Gapless, PickFrame, Live'
    PROVE  Counted'
<1>1. CASE pre'.pc = "top"
  <2>1. Wanted' = Wanted /\ ~Holding'
    BY <1>1, PickFrameFacts DEF Wanted, Holding, Holds
  <2> QED
    BY <2>1, PickFrameFacts, PickFrameTurn DEF Gapless, Counted
<1>2. CASE pre'.pc = "due"
  <2>1. Wanted' = next + 1 /\ Holding'
    BY <1>2, PickFrameFacts DEF Wanted, Holding, Holds
  <2>2. pre'.item = queue[1] /\ queue[1].index > pre.upto
    BY <1>2, PickFrameFacts
  <2>3. queue[1].pts = next
    BY <2>2, PickFrameTurn
  <2> QED
    BY <2>1, <2>2, <2>3, PickFrameFacts, PickFrameTurn DEF Gapless, Counted
<1> QED
  BY <1>1, <1>2, PickFrameFacts

LEMMA DecodeFrameChained ==
    ASSUME Types, Lifecycle, Gapless, DecodeFrame, Live'
    PROVE  Chained'
<1>1. Live /\ dec \in Decoder /\ ~seek.event /\ UNCHANGED <<loop, stop, passStart, queue>>
  BY DEF DecodeFrame, Decoding, Live, Types, DecoderType, Lifecycle, Troubled
<1>2. ~stop => Coming' = Coming
  BY <1>1 DEF DecodeFrame, Decoder, Coming, Signal
<1>3. Signal' = Signal /\ (Comes' => Comes)
  BY <1>1 DEF DecodeFrame, Comes, Signal
<1> QED
  BY <1>1, <1>2, <1>3 DEF Gapless, Chained, Comes

\* A pass that is undisturbed was so before, unless it starts.
LEMMA LiveStep ==
    ASSUME Types, Lifecycle, [Next]_vars, ~Started, Live'
    PROVE  Live
<1>1. Play \/ Resume \/ Stop \/ Reload \/ Close \/ SeekEvent \/ StartStuck \/ Halted \/ Decode
   \/ StageHead \/ HeadGiveUp => UNCHANGED <<trouble, pre>>
  BY DEF Play, AskToStop, Working, Resume, Stop, Reload, Close, SeekEvent, StartStuck, Halted,
     Decode, DecodeBegin, Decoding, DecodeConsume, DecodeFrame, DecodePut, DecodeAfter,
     DecodeEnd, DecodeLoop, StageHead, HeadExit, HeadUnchanged, HeadTriggered, HeadStage,
     HeadSwap, HeadGiveUp
<1>2. UNCHANGED vars => UNCHANGED <<trouble, pre>>
  BY DEF vars
<1>3. UNCHANGED <<trouble, pre>> => Live
  BY DEF Live
<1>4. CASE Pause \/ DecodeRaises \/ PublishRaises
  BY <1>4 DEF Live, Pause, Working, DecodeRaises, Broken, PublishRaises
<1>5. CASE (\E t \in 0..(Last + 1) : Seek(t))
  BY <1>5 DEF Live, Seek, Broken
<1>6. CASE Present
  BY <1>6
     DEF NoThread, Live, Present, ClaimSeek, Presenting, ApplySeek, PickHead, HeadDrained,
        PickNothing, PickEnd, Picks, PublishEnded, PickLoop, PickFrame, Due, CheckPlaying,
        PublishFrame
<1> QED
  BY <1>1, <1>2, <1>3, <1>4, <1>5, <1>6 DEF Next, Call, Return

\* Where the decode thread stands in its pass.
LEMMA DecoderInPassStep ==
    ASSUME Types, Lifecycle, Gapless, [Next]_vars, ~Started, Live, Live'
    PROVE  DecoderInPass'
<1>1. DecoderInPass
  BY DEF Gapless
<1>2. Pause \/ HeadStage \/ HeadSwap \/ HeadGiveUp \/ Present => UNCHANGED <<stop, dec, loop,
   passStart>>
  BY DEF Pause, Working, HeadStage, HeadUnchanged, HeadSwap, HeadGiveUp, Present, ClaimSeek,
     Presenting, ApplySeek, PickHead, HeadDrained, PickNothing, PickEnd, PublishEnded, PickLoop,
     PickFrame, Due, CheckPlaying, PublishFrame
<1>3. (\E t \in 0..(Last + 1) : Seek(t)) => UNCHANGED <<stop, dec, loop, passStart>>
  BY DEF Seek, Free, Broken, Working
<1>4. SeekEvent \/ HeadExit \/ HeadTriggered => UNCHANGED <<stop, dec, loop, passStart>>
  BY DEF SeekEvent, Working, HeadExit, HeadUnchanged, HeadTriggered
<1>5. UNCHANGED vars => UNCHANGED <<stop, dec, loop, passStart>>
  BY DEF vars
<1>6. UNCHANGED <<stop, dec, loop, passStart>> => DecoderInPass'
  BY <1>1 DEF DecoderInPass, Comes
<1>7. CASE Play \/ Resume \/ Stop \/ Reload \/ Close \/ StartStuck \/ Halted \/ DecodeEnd
  BY <1>7
     DEF NoThread, Gapless, Live, DecoderInPass, Comes, Play, AskToStop, Working, Resume, Stop,
        Reload, Close, StartStuck, Stuck, Joined, Halted, DecodeEnd
<1>8. CASE DecodeBegin
  BY <1>8 DEF Types, FlowTypes, DecoderInPass, Comes, DecodeBegin, Begun, Decoding
<1>9. CASE DecodeConsume \/ DecodeLoop \/ DecodeRaises \/ PublishRaises
  BY <1>9
     DEF Types, DecoderType, Decoder, Live, DecoderInPass, Comes, DecodeConsume, Decoding,
        DecodeLoop, DecodeRaises, Broken, PublishRaises, Lifecycle, Troubled
<1>10. CASE DecodeFrame
  BY <1>10
     DEF Types, DecoderType, Decoder, Gapless, Live, DecoderInPass, Comes, DecodeFrame,
        Decoding, Lifecycle, Troubled
<1>11. CASE DecodePut
  BY <1>11 DEF Gapless, DecoderInPass, Comes, DecodePut, Decoding
<1>12. CASE DecodeAfter
  BY <1>12 DEF Gapless, DecoderInPass, Comes, DecodeAfter, Decoding
<1> QED
  BY <1>2, <1>3, <1>4, <1>5, <1>6, <1>7, <1>8, <1>9, <1>10, <1>11, <1>12
     DEF Next, Call, Return, Decode, StageHead

\* What is queued, and what comes next, is a pass without a gap.
LEMMA ChainedStep ==
    ASSUME Types, Lifecycle, Gapless, [Next]_vars, ~Started, Live, Live'
    PROVE  Chained'
<1>1. Chained
  BY DEF Gapless
<1>2. Pause \/ SeekEvent \/ HeadExit => UNCHANGED <<queue, stop, dec, passStart, loop>>
  BY DEF Pause, Working, SeekEvent, HeadExit, HeadUnchanged
<1>3. (\E t \in 0..(Last + 1) : Seek(t)) => UNCHANGED <<queue, stop, dec, passStart, loop>>
  BY DEF Seek, Free, Broken, Working
<1>4. HeadTriggered \/ HeadStage \/ HeadSwap \/ HeadGiveUp \/ ClaimSeek \/ PickHead \/
   HeadDrained \/ PickNothing \/ PublishEnded \/ Due \/ CheckPlaying \/ PublishFrame =>
   UNCHANGED <<queue, stop, dec, passStart, loop>>
  BY DEF HeadTriggered, HeadUnchanged, HeadStage, HeadSwap, HeadGiveUp, ClaimSeek, Presenting,
     PickHead, HeadDrained, PickNothing, PublishEnded, Due, CheckPlaying, PublishFrame
<1>5. UNCHANGED vars => UNCHANGED <<queue, stop, dec, passStart, loop>>
  BY DEF vars
<1>6. UNCHANGED <<queue, stop, dec, passStart, loop>> => Chained'
  BY <1>1 DEF Chained, Comes, Coming, Signal
<1>7. CASE Play \/ Stop \/ Reload \/ Close \/ PublishRaises
  BY <1>7
     DEF Gapless, Chained, Comes, Signal, Play, AskToStop, Working, Stop, Reload, Close,
        PublishRaises
<1>8. CASE StartStuck \/ Halted \/ DecodeConsume
  BY <1>8 DEF Live, StartStuck, Stuck, Joined, Halted, DecodeConsume, Lifecycle, Troubled
<1>9. CASE DecodeBegin
  BY <1>9
     DEF Types, FlowTypes, Gapless, Live, Chained, Comes, Coming, Signal, DecodeBegin, Begun,
        Decoding, Lifecycle, Troubled
<1>10. CASE DecodeAfter
  BY <1>10
     DEF Gapless, Live, Chained, Comes, Coming, Signal, DecodeAfter, Decoding, Lifecycle,
        Troubled, DecoderInPass
<1>11. CASE DecodeEnd
  BY <1>11
     DEF NoThread, Gapless, Chained, Comes, Coming, Signal, DecodeEnd, Put, Decoding,
        DecoderInPass
<1>12. CASE DecodeRaises \/ ApplySeek \/ PickEnd
  BY <1>12, AppendFacts
     DEF Types, PresenterType, Presenter, Live, DecodeRaises, Broken, ApplySeek, PickEnd,
        Lifecycle, Troubled
<1> QED
  BY <1>2, <1>3, <1>4, <1>5, <1>6, <1>7, <1>8, <1>9, <1>10, <1>11, <1>12, DecodePutTurns,
     PickFrameTurns, ResumeGapless, PickLoopTurns, DecodeFrameChained
     DEF Next, Call, Return, Decode, StageHead, Present

\* The first item is the one whose turn it is.
LEMMA InTurnStep ==
    ASSUME Types, Lifecycle, Gapless, [Next]_vars, ~Started, Live, Live'
    PROVE  InTurn'
<1>1. InTurn
  BY DEF Gapless
<1>2. Pause \/ SeekEvent \/ StageHead \/ HeadGiveUp => UNCHANGED <<queue, pre, loop, next, stop,
   dec, passStart>>
  BY DEF Pause, Working, SeekEvent, StageHead, HeadExit, HeadUnchanged, HeadTriggered,
     HeadStage, HeadSwap, HeadGiveUp
<1>3. UNCHANGED vars => UNCHANGED <<queue, pre, loop, next, stop, dec, passStart>>
  BY DEF vars
<1>4. UNCHANGED <<queue, pre, loop, next, stop, dec, passStart>> => InTurn'
  BY <1>1 DEF InTurn, Comes, Coming, Fits, Wanted, Holding, Signal
<1>5. CASE Play \/ Stop \/ Reload \/ PublishRaises
  BY <1>5, TailFacts, AppendFacts
     DEF Gapless, Live, Holding, Wanted, InTurn, Fits, Comes, Signal, Play, AskToStop, Working,
        Stop, Reload, PublishRaises, Broken
<1>6. CASE Close
  BY <1>6 DEF Gapless, Holding, Wanted, InTurn, Fits, Comes, Signal, Close, AskToStop, Working
<1>7. CASE (\E t \in 0..(Last + 1) : Seek(t))
  BY <1>7 DEF Live, Seek, Broken
<1>8. CASE StartStuck \/ Halted \/ DecodeRaises
  BY <1>8, TailFacts DEF Live, StartStuck, Stuck, Joined, Halted, DecodeRaises, Broken
<1>9. CASE DecodeBegin
  BY <1>9
     DEF Types, FlowTypes, Gapless, Live, Holding, Wanted, InTurn, Fits, Comes, Coming, Signal,
        DecodeBegin, Begun, Decoding, Lifecycle, Troubled
<1>10. CASE DecodeConsume \/ PickEnd \/ PublishEnded
  BY <1>10
     DEF Types, PresenterType, Presenter, Live, DecodeConsume, PickEnd, PublishEnded, Lifecycle,
        Troubled
<1>11. CASE DecodeFrame
  BY <1>11
     DEF Gapless, Holding, Wanted, InTurn, Fits, Comes, Coming, Signal, DecodeFrame, Decoding
<1>12. CASE DecodeAfter
  BY <1>12
     DEF Gapless, Live, Holding, Wanted, InTurn, Fits, Comes, Coming, Signal, DecodeAfter,
        Decoding, Lifecycle, Troubled, DecoderInPass
<1>13. CASE DecodeEnd
  BY <1>13
     DEF NoThread, Gapless, Holding, Wanted, InTurn, Fits, Comes, Coming, Signal, DecodeEnd,
        Put, Decoding, DecoderInPass
<1>14. CASE ClaimSeek
  BY <1>14
     DEF NoThread, Gapless, Live, Holding, Holds, Wanted, InTurn, Fits, Comes, Coming, Signal,
        ClaimSeek, Presenting, Lifecycle, Troubled
<1>15. CASE ApplySeek
  BY <1>15 DEF Live, ApplySeek, Lifecycle, Troubled
<1>16. CASE PickHead
  BY <1>16 DEF Gapless, InTurn, Fits, Comes, Coming, Signal, PickHead, Presenting, Offer
<1>17. CASE PickNothing
  BY <1>17
     DEF Gapless, Holding, Holds, Wanted, InTurn, Fits, Comes, Coming, Signal, PickNothing,
        Presenting
<1>18. CASE Due
  BY <1>18, AppendFacts
     DEF NoThread, Gapless, Live, Holding, Holds, Wanted, InTurn, Fits, Comes, Coming, Signal,
        Due, Presenting
<1>19. CASE CheckPlaying
  BY <1>19, TailFacts, AppendFacts
     DEF NoThread, Gapless, Live, Holding, Holds, Wanted, InTurn, Fits, Comes, Coming, Signal,
        CheckPlaying, Presenting
<1> QED
  BY <1>2, <1>3, <1>4, <1>5, <1>6, <1>7, <1>8, <1>9, <1>10, <1>11, <1>12, <1>13, <1>14, <1>15,
     <1>16, <1>17, <1>18, <1>19, DecodePutTurns, PickFrameTurns, ResumeGapless, PickLoopTurns,
     PublishFrameGapless, HeadDrainedInTurn
     DEF Next, Call, Return, Decode, Present

\* The head holds the frames that come next, and the last shown is known.
LEMMA CountedStep ==
    ASSUME Types, Lifecycle, Gapless, [Next]_vars, ~Started, Live, Live'
    PROVE  Counted'
<1>1. Counted
  BY DEF Gapless
<1>2. Play \/ Pause \/ Resume \/ Stop \/ Reload \/ Close \/ SeekEvent \/ StartStuck \/ Decode \/
   HeadExit \/ HeadStage \/ HeadGiveUp => UNCHANGED <<next, pre, head>>
  BY DEF Play, AskToStop, Working, Pause, Resume, Stop, Reload, Close, SeekEvent, StartStuck,
     Decode, DecodeBegin, Decoding, DecodeConsume, DecodeFrame, DecodePut, DecodeAfter,
     DecodeEnd, DecodeLoop, HeadExit, HeadUnchanged, HeadStage, HeadGiveUp
<1>3. UNCHANGED vars => UNCHANGED <<next, pre, head>>
  BY DEF vars
<1>4. UNCHANGED <<next, pre, head>> => Counted'
  BY <1>1 DEF Counted, Wanted, Holding
<1>5. CASE (\E t \in 0..(Last + 1) : Seek(t))
  BY <1>5 DEF Live, Seek, Broken
<1>6. CASE Halted \/ DecodeRaises
  BY <1>6 DEF Live, Halted, Joined, Stuck, DecodeRaises, Broken
<1>7. CASE HeadTriggered
  BY <1>7 DEF Gapless, Holding, Wanted, Counted, HeadTriggered, HeadUnchanged
<1>8. CASE ClaimSeek
  BY <1>8
     DEF NoThread, Gapless, Live, Holding, Holds, Wanted, Counted, ClaimSeek, Lifecycle,
        Troubled
<1>9. CASE ApplySeek
  BY <1>9 DEF Live, ApplySeek, Lifecycle, Troubled
<1>10. CASE HeadDrained
  BY <1>10 DEF Gapless, Holding, Wanted, Counted, HeadDrained
<1>11. CASE PickNothing
  BY <1>11 DEF Gapless, Holding, Holds, Wanted, Counted, PickNothing
<1>12. CASE PickEnd
  BY <1>12 DEF Live, PickEnd
<1>13. CASE PublishEnded
  BY <1>13 DEF Live, PublishEnded
<1>14. CASE PickLoop
  BY <1>14 DEF Gapless, Holding, Holds, Wanted, Counted, PickLoop, Picks, Targets
<1>15. CASE Due
  BY <1>15 DEF NoThread, Gapless, Live, Holding, Holds, Wanted, Counted, Due
<1>16. CASE CheckPlaying
  BY <1>16 DEF NoThread, Gapless, Live, Holding, Holds, Wanted, Counted, CheckPlaying
<1>17. CASE PublishRaises
  BY <1>17 DEF Live, PublishRaises, Broken
<1> QED
  BY <1>2, <1>3, <1>4, <1>5, <1>6, <1>7, <1>8, <1>9, <1>10, <1>11, <1>12, <1>13, <1>14, <1>15,
     <1>16, <1>17, HeadSwapCounted, PublishFrameGapless, PickHeadCounted, PickFrameCounted
     DEF Next, Call, Return, StageHead, Present

\* A pass starts with an empty queue and a decode thread at its first frame.
LEMMA StartedGapless ==
    ASSUME Types, Started
    PROVE  Gapless'
<1>1. /\ dec' = [pc |-> "top", at |-> 0, base |-> 0, any |-> FALSE, old |-> FALSE]
      /\ pre' = [pc |-> "top", item |-> Nil, using |-> FALSE, upto |-> Nil]
      /\ queue' = <<>> /\ stop' = FALSE /\ next' = passStart' /\ loop' = loop
      /\ head'.staged = <<>>
  BY DEF Started, NoHead
<1>2. passStart' \in 0..Last
  BY DEF Started, Types, FlagTypes, Targets
<1>3. DecoderInPass'
  BY <1>1 DEF DecoderInPass
<1>4. Len(queue') = 0
  BY <1>1
<1>5. Chained'
  BY <1>1, <1>4 DEF Chained
<1>6. Wanted' = passStart' /\ Coming' = Frame(passStart, passStart)'
  BY <1>1 DEF Wanted, Holding, Holds, Coming
<1>7. InTurn'
  BY <1>1, <1>2, <1>6 DEF InTurn, Fits, Frame
<1>8. Counted'
  BY <1>1, <1>2, <1>6 DEF Counted, Targets, Holding, Holds
<1> QED
  BY <1>3, <1>5, <1>7, <1>8 DEF Gapless

LEMMA GaplessStep == Types /\ Lifecycle /\ Gapless /\ [Next]_vars => Gapless'
<1> SUFFICES ASSUME Types, Lifecycle, Gapless, [Next]_vars, ~Started, Live'
             PROVE  DecoderInPass' /\ Chained' /\ InTurn' /\ Counted'
  BY StartedGapless DEF Gapless
<1>1. Live
  BY LiveStep
<1> QED
  BY <1>1, DecoderInPassStep, ChainedStep, InTurnStep, CountedStep

-----------------------------------------------------------------------------
(* The theorems.                                                            *)

\* The inductive invariant.
VideoInv == Types /\ Bounds /\ Lifecycle /\ Gapless

LEMMA InitVideoInv == Init => VideoInv
<1> SUFFICES ASSUME Init PROVE VideoInv
  OBVIOUS
<1> USE DEF Init
<1>1. FlagTypes
  <2>1. 0 \in Targets /\ Nil \in Nil..(Last + 1)
    BY DEF Targets
  <2>2. NoSeek \in SeekType
    BY <2>1, Zenon DEF SeekType, NoSeek
  <2> QED
    BY <2>2 DEF FlagTypes, SeekType
<1>2. CallTypes
  BY DEF CallTypes, SourceStates, Calls
<1>3. FlowTypes
  BY DEF FlowTypes, HeadType, NoHead
<1>4. DecoderType /\ PresenterType
  BY DEF DecoderType, PresenterType, NoThread
<1>5. Bounds
  <2>1. head.staged = <<>> /\ Len(queue) = 0 /\ Len(<<>>) = 0
    BY DEF NoHead
  <2>2. Len(head.staged) = 0
    BY <2>1, Zenon
  <2> QED
    BY <2>1, <2>2 DEF Bounds, CallsBounded, NextBounded, Targets, QueueBounded, HeadBounded
<1>6. Settled /\ Stopping /\ EndIsLast
  BY DEF Settled, Stopping, Joining, EndIsLast, NoThread
<1>7. Troubled /\ Attended
  BY DEF Troubled, Attended, NoSeek, NoThread
<1>8. ~Live
  BY DEF Live, NoThread
<1> QED
  BY <1>1, <1>2, <1>3, <1>4, <1>5, <1>6, <1>7, <1>8 DEF VideoInv, Types, Lifecycle, Gapless

LEMMA VideoInvStep == VideoInv /\ [Next]_vars => VideoInv'
  BY TypesStep, BoundsStep, LifecycleStep, GaplessStep DEF VideoInv

LEMMA VideoInvAlways == Spec => []VideoInv
  BY InitVideoInv, VideoInvStep, PTL DEF Spec

\* The variables have their types, and the queue and the head never hold more than
\* decode_queue_size and the budget of the head.
THEOREM VideoTypeCorrect == Spec => []TypeOK
<1>1. VideoInv => TypeOK
  BY DEF VideoInv, Types, FlagTypes, CallTypes, FlowTypes, SourceStates, Targets, Bounds,
     CallsBounded, NextBounded, QueueBounded, HeadBounded, TypeOK
<1> QED
  BY <1>1, VideoInvAlways, PTL

\* Once a source ended or was stopped and its presentation thread is gone, the last
\* thing it sent is a reset (_presentation_loop, _halt).
THEOREM ResetComesLast == Spec => []ResetIsLast
<1>1. VideoInv => ResetIsLast
  BY DEF VideoInv, Lifecycle, Settled, ResetIsLast
<1> QED
  BY <1>1, VideoInvAlways, PTL

\* A source that plays undisturbed has its presentation thread, and the end of the
\* pass is queued if its decode thread has gone (_decode_loop, _queue_put).
THEOREM PlayingHasThreads == Spec => []PlayingIsAttended
<1>1. VideoInv => PlayingIsAttended
  BY DEF VideoInv, Lifecycle, Attended, PlayingIsAttended
<1> QED
  BY <1>1, VideoInvAlways, PTL

\* The frame that is presented is the next one, and the region is complete when it
\* loops or ends.
Presents ==
  trouble # "break" =>
    /\ (pre.pc = "publish" /\ sent' = "frame" /\ pre'.pc = "top") => pre.item.pts = next
    /\ PickLoop => next = Last + 1
    /\ PickEnd => next = Last + 1 /\ ~loop

LEMMA PresentsInTurn ==
    ASSUME VideoInv, [Next]_vars
    PROVE  Presents
<1> SUFFICES ASSUME trouble # "break", pre.pc \in {"publish", "pick"}
             PROVE  Presents
  BY DEF Presents, PickLoop, PickEnd, Picks
<1>1. Live /\ Types /\ InTurn /\ Counted
  BY DEF Live, VideoInv, Gapless
<1>2. pre.pc = "publish" => pre.item.pts = next
  BY <1>1 DEF Counted, Holding, Holds
<1>3. ASSUME PickLoop \/ PickEnd
      PROVE  /\ queue[1] = IF PickLoop THEN LOOP ELSE END
             /\ queue[1] = Signal /\ next = Last + 1
  <2>1. queue \in Seq(Items) /\ queue # <<>> /\ pre.pc = "pick"
    BY <1>1, <1>3 DEF PickLoop, PickEnd, Picks, Types, FlowTypes
  <2>2. queue[1] = Head(queue) /\ Head(queue) \in Items
    BY <2>1, TailFacts
  <2>3. queue[1] = IF PickLoop THEN LOOP ELSE END
    BY <1>3, <2>2 DEF PickLoop, PickEnd, Picks, Items, FrameItem, LOOP, END
  <2>4. queue[1].signal # "frame"
    BY <2>3 DEF LOOP, END
  <2>5. Fits(queue[1]) /\ Wanted = next
    BY <1>1, <2>1 DEF InTurn, Wanted, Holding, Holds
  <2> QED
    BY <2>3, <2>4, <2>5 DEF Fits
<1>4. PickEnd => ~loop
  BY <1>3 DEF Signal, LOOP, PickEnd, Picks
<1> QED
  BY <1>2, <1>3, <1>4 DEF Presents

\* A source that has ended or was stopped changes its state in a call only.
Commits == (state \in {"READY", "STOPPED", "ENDED", "CLOSED"} /\ state' # state) => call.op # "none"

LEMMA CallsCommit ==
    ASSUME VideoInv, [Next]_vars
    PROVE  Commits
<1> SUFFICES ASSUME state \in Quiet, state' # state PROVE call.op # "none"
  BY DEF Commits, Quiet
<1>1. Settled
  BY DEF VideoInv, Lifecycle
<1>2. Return => call.op # "none"
  BY DEF Return, SeekEvent, Started, StartStuck, Halted
<1>3. ~Call
  <2>1. ~(Pause \/ Resume)
    BY DEF Pause, Resume, Quiet
  <2>2. Play \/ Stop \/ Reload \/ Close => state' = state
    BY Zenon DEF Play, Stop, Reload, Close, AskToStop
  <2>3. \A t \in 0..(Last + 1) : Seek(t) => state' = state
    BY Zenon DEF Seek
  <2> QED
    BY <2>1, <2>2, <2>3 DEF Call
<1>4. ~Decode
  <2>1. DecodeBegin \/ DecodeConsume \/ DecodeFrame \/ DecodePut => state' = state
    BY DEF DecodeBegin, DecodeConsume, DecodeFrame, DecodePut, Decoding
  <2>2. DecodeAfter => state' = state
    BY Zenon DEF DecodeAfter, Decoding
  <2>3. DecodeEnd \/ DecodeLoop => state' = state
    BY DEF DecodeEnd, DecodeLoop, Decoding
  <2> QED
    BY <2>1, <2>2, <2>3 DEF Decode
<1>7. ~(StageHead \/ HeadGiveUp \/ UNCHANGED vars)
  BY DEF StageHead, HeadExit, HeadTriggered, HeadStage, HeadSwap, HeadGiveUp, HeadUnchanged,
     vars
<1>5. ~DecodeRaises
  BY <1>1 DEF DecodeRaises, Settled
<1>6. ~(Present \/ PublishRaises)
  BY <1>1
     DEF Present, ClaimSeek, ApplySeek, PickHead, HeadDrained, PickNothing, PickEnd,
        PublishEnded, PickLoop, PickFrame, Picks, Due, CheckPlaying, PublishFrame,
        PublishRaises, Settled
<1> QED
  BY <1>2, <1>3, <1>4, <1>5, <1>6, <1>7 DEF Next

\* Every undisturbed pass presents every frame of the region once and in order,
\* through the live queue, the staged head and the pauses, and no thread changes the
\* state of a source that has ended or was stopped (_presentation_loop).
THEOREM PassesRunInOrder == Spec => PassesAreOrderly
<1>1. VideoInv /\ [Next]_vars => [Presents]_vars /\ [Commits]_vars
  BY PresentsInTurn, CallsCommit
<1>2. Spec => [][Presents]_vars /\ [][Commits]_vars
  BY <1>1, VideoInvAlways, PTL DEF Spec
<1> QED
  BY <1>2 DEF PassesAreOrderly, GaplessPasses, ThreadsDoNotCommit, Presents, Commits

-----------------------------------------------------------------------------
(* The camera.                                                              *)

States == Family \cup {"READY", "PAUSED", "STOPPED", "CLOSED", "ERROR", "UNAVAILABLE"}
Halts == {"stop", "reload", "close"}
Steps == {"none", "clear", "check", "wait", "open", "opened", "reset", "read", "frame",
          "release", "lost", "outage", "backoff"}

\* A source the user takes for running: its thread has to be there.
Served == Family \cup {"PAUSED"}

FlagsOK ==
  /\ reconnects \in BOOLEAN /\ stopping \in BOOLEAN /\ wake \in BOOLEAN
  /\ device \in BOOLEAN /\ capture \in BOOLEAN /\ again \in BOOLEAN
  /\ sink \in BOOLEAN /\ stuck \in BOOLEAN

StepsOK ==
  /\ cameraState \in States /\ pc \in Steps /\ goal \in {"open", "read"}
  /\ request \in {"none", "wake"} \cup Halts
  /\ published \in {"none", "reset", "frame", "outage"}

CameraTypeOK == FlagsOK /\ StepsOK

\* Whatever ends a pause sets the event after it set the state.
WakeComes == pc = "wait" /\ ~wake => ~stopping /\ (cameraState = "PAUSED" \/ request = "wake")

\* The stop event is set for a thread only by a call that waits for it.
StopIsWaitedFor == stopping => request \in Halts \/ pc = "none"

\* The graph worker is closed behind a source that has ended.
SinkOutlives ==
  /\ ~sink => pc = "none" /\ cameraState \in {"STOPPED", "CLOSED"}
  /\ request \in {"stop", "reload"} => sink

\* Without a thread, and without a call that is waiting for its end, the source
\* is not shown as running; so is one whose thread is on its way out.
EndIsShown ==
  /\ pc = "none" /\ request \notin Halts => cameraState \notin Served
  /\ pc = "release" /\ goal = "read" => stopping \/ cameraState \notin Served
  /\ pc = "outage" /\ ~reconnects => cameraState = "UNAVAILABLE"
  /\ cameraState \in {"STOPPED", "CLOSED"} => pc = "none"
  /\ cameraState = "STOPPED" => published \in {"reset", "none"}

\* Where the thread may end it holds no device.
DeviceIsFreed ==
  /\ pc \in {"none", "open", "lost", "outage", "backoff"} => ~device
  /\ pc \in {"clear", "check", "wait"} /\ goal = "open" => ~device
  /\ pc \in {"open", "opened", "reset"} => goal = "open"
  /\ pc \in {"read", "frame"} => goal = "read"

\* The inductive invariant.
CameraInv ==
  /\ CameraTypeOK
  /\ WakeComes
  /\ stuck \/ (StopIsWaitedFor /\ SinkOutlives /\ EndIsShown /\ DeviceIsFreed)

-----------------------------------------------------------------------------
(* The calls of the engine body.                                            *)

USE DEF CameraInv, CameraTypeOK, FlagsOK, StepsOK, States, Halts, Steps, Served, Family

LEMMA InitInv == CameraInit => CameraInv
  BY DEF CameraInit, WakeComes, StopIsWaitedFor, SinkOutlives, EndIsShown, DeviceIsFreed

LEMMA PlayInv == CameraInv /\ PlayCamera => CameraInv'
<1> SUFFICES ASSUME CameraInv, PlayCamera PROVE CameraInv'
  OBVIOUS
<1>1. CameraTypeOK'
  <2>1. FlagsOK'
    BY Zenon DEF PlayCamera, Enter
  <2>2. StepsOK'
    BY DEF PlayCamera, Enter
  <2> QED
    BY <2>1, <2>2
<1>2. WakeComes'
  BY DEF WakeComes, PlayCamera, Enter
<1>3. (stuck \/ (StopIsWaitedFor /\ SinkOutlives /\ EndIsShown /\ DeviceIsFreed))'
  BY DEF StopIsWaitedFor, SinkOutlives, EndIsShown, DeviceIsFreed, PlayCamera, Enter
<1> QED
  BY <1>1, <1>2, <1>3

LEMMA PauseInv == CameraInv /\ PauseCamera => CameraInv'
<1> SUFFICES ASSUME CameraInv, PauseCamera PROVE CameraInv'
  OBVIOUS
<1>1. CameraTypeOK'
  BY DEF PauseCamera, SetState, Enter
<1>2. WakeComes'
  BY DEF WakeComes, PauseCamera, SetState, Enter
<1>3. (stuck \/ (StopIsWaitedFor /\ SinkOutlives /\ EndIsShown /\ DeviceIsFreed))'
  BY DEF StopIsWaitedFor, SinkOutlives, EndIsShown, DeviceIsFreed, PauseCamera, SetState, Enter
<1> QED
  BY <1>1, <1>2, <1>3

LEMMA ResumeInv == CameraInv /\ ResumeCamera => CameraInv'
<1> SUFFICES ASSUME CameraInv, ResumeCamera PROVE CameraInv'
  OBVIOUS
<1>1. CameraTypeOK'
  BY DEF ResumeCamera, SetState, Enter
<1>2. WakeComes'
  BY DEF WakeComes, ResumeCamera, SetState, Enter
<1>3. (stuck \/ (StopIsWaitedFor /\ SinkOutlives /\ EndIsShown /\ DeviceIsFreed))'
  BY DEF StopIsWaitedFor, SinkOutlives, EndIsShown, DeviceIsFreed, ResumeCamera, SetState, Enter
<1> QED
  BY <1>1, <1>2, <1>3

LEMMA WakeInv == CameraInv /\ Wake => CameraInv'
<1> SUFFICES ASSUME CameraInv, Wake PROVE CameraInv'
  OBVIOUS
<1>1. CameraTypeOK'
  BY DEF Wake
<1>2. WakeComes'
  BY DEF WakeComes, Wake
<1>3. (stuck \/ (StopIsWaitedFor /\ SinkOutlives /\ EndIsShown /\ DeviceIsFreed))'
  BY DEF StopIsWaitedFor, SinkOutlives, EndIsShown, DeviceIsFreed, Wake
<1> QED
  BY <1>1, <1>2, <1>3

LEMMA HaltInv == \A op \in Halts : CameraInv /\ Halt(op) => CameraInv'
<1> SUFFICES ASSUME CameraInv, NEW op \in Halts, Halt(op) PROVE CameraInv'
  OBVIOUS
<1>1. CameraTypeOK'
  BY DEF Halt, Enter
<1>2. WakeComes'
  BY DEF WakeComes, Halt, Enter
<1>3. (stuck \/ (StopIsWaitedFor /\ SinkOutlives /\ EndIsShown /\ DeviceIsFreed))'
  BY DEF StopIsWaitedFor, SinkOutlives, EndIsShown, DeviceIsFreed, Halt, Enter
<1> QED
  BY <1>1, <1>2, <1>3

LEMMA HaltedInv == CameraInv /\ CameraHalted => CameraInv'
<1> SUFFICES ASSUME CameraInv, CameraHalted PROVE CameraInv'
  OBVIOUS
<1>1. CameraTypeOK'
  BY DEF CameraHalted, Target
<1>2. WakeComes'
  BY DEF WakeComes, CameraHalted, Target
<1>3. (stuck \/ (StopIsWaitedFor /\ SinkOutlives /\ EndIsShown /\ DeviceIsFreed))'
  BY DEF StopIsWaitedFor, SinkOutlives, EndIsShown, DeviceIsFreed, CameraHalted, Target
<1> QED
  BY <1>1, <1>2, <1>3

LEMMA HaltRaisesInv == CameraInv /\ HaltRaises => CameraInv'
<1> SUFFICES ASSUME CameraInv, HaltRaises PROVE CameraInv'
  OBVIOUS
<1>1. CameraTypeOK'
  BY DEF HaltRaises
<1>2. WakeComes'
  BY DEF WakeComes, HaltRaises
<1>3. (stuck \/ (StopIsWaitedFor /\ SinkOutlives /\ EndIsShown /\ DeviceIsFreed))'
  BY DEF StopIsWaitedFor, SinkOutlives, EndIsShown, DeviceIsFreed, HaltRaises
<1> QED
  BY <1>1, <1>2, <1>3

LEMMA CloseSinkInv == CameraInv /\ CloseSink => CameraInv'
<1> SUFFICES ASSUME CameraInv, CloseSink PROVE CameraInv'
  OBVIOUS
<1>1. CameraTypeOK'
  <2>1. FlagsOK'
    BY Zenon DEF CloseSink
  <2>2. StepsOK'
    BY DEF CloseSink
  <2> QED
    BY <2>1, <2>2
<1>2. WakeComes'
  BY DEF WakeComes, CloseSink
<1>3. (stuck \/ (StopIsWaitedFor /\ SinkOutlives /\ EndIsShown /\ DeviceIsFreed))'
  BY DEF StopIsWaitedFor, SinkOutlives, EndIsShown, DeviceIsFreed, CloseSink
<1> QED
  BY <1>1, <1>2, <1>3

-----------------------------------------------------------------------------
(* The steps of the capture thread.                                         *)

LEMMA WaitClearInv == CameraInv /\ WaitClear => CameraInv'
<1> SUFFICES ASSUME CameraInv, WaitClear PROVE CameraInv'
  OBVIOUS
<1>1. CameraTypeOK'
  <2>1. FlagsOK'
    BY Zenon DEF WaitClear, Stays
  <2>2. StepsOK'
    BY DEF WaitClear, Stays
  <2> QED
    BY <2>1, <2>2
<1>2. WakeComes'
  BY DEF WakeComes, WaitClear, Stays
<1>3. (stuck \/ (StopIsWaitedFor /\ SinkOutlives /\ EndIsShown /\ DeviceIsFreed))'
  BY DEF StopIsWaitedFor, SinkOutlives, EndIsShown, DeviceIsFreed, WaitClear, Stays
<1> QED
  BY <1>1, <1>2, <1>3

LEMMA WaitCheckInv == CameraInv /\ WaitCheck => CameraInv'
<1> SUFFICES ASSUME CameraInv, WaitCheck PROVE CameraInv'
  OBVIOUS
<1>1. CameraTypeOK'
  BY DEF WaitCheck, Stays
<1>2. WakeComes'
  BY DEF WakeComes, WaitCheck, Stays
<1>3. (stuck \/ (StopIsWaitedFor /\ SinkOutlives /\ EndIsShown /\ DeviceIsFreed))'
  BY DEF StopIsWaitedFor, SinkOutlives, EndIsShown, DeviceIsFreed, WaitCheck, Stays
<1> QED
  BY <1>1, <1>2, <1>3

LEMMA WaitWokenInv == CameraInv /\ WaitWoken => CameraInv'
<1> SUFFICES ASSUME CameraInv, WaitWoken PROVE CameraInv'
  OBVIOUS
<1>1. CameraTypeOK'
  BY DEF WaitWoken, Stays
<1>2. WakeComes'
  BY DEF WakeComes, WaitWoken, Stays
<1>3. (stuck \/ (StopIsWaitedFor /\ SinkOutlives /\ EndIsShown /\ DeviceIsFreed))'
  BY DEF StopIsWaitedFor, SinkOutlives, EndIsShown, DeviceIsFreed, WaitWoken, Stays
<1> QED
  BY <1>1, <1>2, <1>3

LEMMA OpenCameraInv == CameraInv /\ OpenCamera => CameraInv'
<1> SUFFICES ASSUME CameraInv, OpenCamera PROVE CameraInv'
  OBVIOUS
<1>1. CameraTypeOK'
  <2>1. FlagsOK'
    BY Zenon DEF OpenCamera, Stays
  <2>2. StepsOK'
    BY DEF OpenCamera, Stays
  <2> QED
    BY <2>1, <2>2
<1>2. WakeComes'
  BY DEF WakeComes, OpenCamera, Stays
<1>3. (stuck \/ (StopIsWaitedFor /\ SinkOutlives /\ EndIsShown /\ DeviceIsFreed))'
  BY DEF StopIsWaitedFor, SinkOutlives, EndIsShown, DeviceIsFreed, OpenCamera, Stays
<1> QED
  BY <1>1, <1>2, <1>3

LEMMA OpenedInv == CameraInv /\ Opened => CameraInv'
<1> SUFFICES ASSUME CameraInv, Opened PROVE CameraInv'
  OBVIOUS
<1>1. CameraTypeOK'
  BY DEF Opened, Stays
<1>2. WakeComes'
  BY DEF WakeComes, Opened, Stays
<1>3. (stuck \/ (StopIsWaitedFor /\ SinkOutlives /\ EndIsShown /\ DeviceIsFreed))'
  BY DEF StopIsWaitedFor, SinkOutlives, EndIsShown, DeviceIsFreed, Opened, Stays
<1> QED
  BY <1>1, <1>2, <1>3

LEMMA PublishResetInv == CameraInv /\ PublishReset => CameraInv'
<1> SUFFICES ASSUME CameraInv, PublishReset PROVE CameraInv'
  OBVIOUS
<1>1. CameraTypeOK'
  <2>1. FlagsOK'
    BY Zenon DEF PublishReset, Stays
  <2>2. StepsOK'
    BY DEF PublishReset, Stays
  <2> QED
    BY <2>1, <2>2
<1>2. WakeComes'
  BY DEF WakeComes, PublishReset, Stays
<1>3. (stuck \/ (StopIsWaitedFor /\ SinkOutlives /\ EndIsShown /\ DeviceIsFreed))'
  BY DEF StopIsWaitedFor, SinkOutlives, EndIsShown, DeviceIsFreed, PublishReset, Stays
<1> QED
  BY <1>1, <1>2, <1>3

LEMMA ReadInv == CameraInv /\ Read => CameraInv'
<1> SUFFICES ASSUME CameraInv, Read PROVE CameraInv'
  OBVIOUS
<1>1. CameraTypeOK'
  BY DEF Read, Stays
<1>2. WakeComes'
  BY DEF WakeComes, Read, Stays
<1>3. (stuck \/ (StopIsWaitedFor /\ SinkOutlives /\ EndIsShown /\ DeviceIsFreed))'
  BY DEF StopIsWaitedFor, SinkOutlives, EndIsShown, DeviceIsFreed, Read, Stays
<1> QED
  BY <1>1, <1>2, <1>3

LEMMA PublishFrameInv == CameraInv /\ PublishCameraFrame => CameraInv'
<1> SUFFICES ASSUME CameraInv, PublishCameraFrame PROVE CameraInv'
  OBVIOUS
<1>1. CameraTypeOK'
  <2>1. FlagsOK'
    BY Zenon DEF PublishCameraFrame, Published, Stays
  <2>2. StepsOK'
    BY DEF PublishCameraFrame, Published, Stays
  <2> QED
    BY <2>1, <2>2
<1>2. WakeComes'
  BY DEF WakeComes, PublishCameraFrame, Published, Stays
<1>3. (stuck \/ (StopIsWaitedFor /\ SinkOutlives /\ EndIsShown /\ DeviceIsFreed))'
  BY DEF StopIsWaitedFor, SinkOutlives, EndIsShown, DeviceIsFreed, PublishCameraFrame, Published, Stays
<1> QED
  BY <1>1, <1>2, <1>3

LEMMA ReleaseInv == CameraInv /\ Release => CameraInv'
<1> SUFFICES ASSUME CameraInv, Release PROVE CameraInv'
  OBVIOUS
<1>1. CameraTypeOK'
  <2>1. FlagsOK'
    BY Zenon DEF Release, Stays
  <2>2. StepsOK'
    BY DEF Release, Stays
  <2> QED
    BY <2>1, <2>2
<1>2. WakeComes'
  BY DEF WakeComes, Release, Stays
<1>3. (stuck \/ (StopIsWaitedFor /\ SinkOutlives /\ EndIsShown /\ DeviceIsFreed))'
  BY DEF StopIsWaitedFor, SinkOutlives, EndIsShown, DeviceIsFreed, Release, Stays
<1> QED
  BY <1>1, <1>2, <1>3

LEMMA HandleDisconnectInv == CameraInv /\ HandleDisconnect => CameraInv'
<1> SUFFICES ASSUME CameraInv, HandleDisconnect PROVE CameraInv'
  OBVIOUS
<1>1. CameraTypeOK'
  BY DEF HandleDisconnect, Stays
<1>2. WakeComes'
  BY DEF WakeComes, HandleDisconnect, Stays
<1>3. (stuck \/ (StopIsWaitedFor /\ SinkOutlives /\ EndIsShown /\ DeviceIsFreed))'
  BY DEF StopIsWaitedFor, SinkOutlives, EndIsShown, DeviceIsFreed, HandleDisconnect, Stays
<1> QED
  BY <1>1, <1>2, <1>3

LEMMA PublishOutageInv == CameraInv /\ PublishOutage => CameraInv'
<1> SUFFICES ASSUME CameraInv, PublishOutage PROVE CameraInv'
  OBVIOUS
<1>1. CameraTypeOK'
  <2>1. FlagsOK'
    BY Zenon DEF PublishOutage, Published, Stays
  <2>2. StepsOK'
    BY DEF PublishOutage, Published, Stays
  <2> QED
    BY <2>1, <2>2
<1>2. WakeComes'
  BY DEF WakeComes, PublishOutage, Published, Stays
<1>3. (stuck \/ (StopIsWaitedFor /\ SinkOutlives /\ EndIsShown /\ DeviceIsFreed))'
  BY DEF StopIsWaitedFor, SinkOutlives, EndIsShown, DeviceIsFreed, PublishOutage, Published, Stays
<1> QED
  BY <1>1, <1>2, <1>3

LEMMA BackOffInv == CameraInv /\ BackOff => CameraInv'
<1> SUFFICES ASSUME CameraInv, BackOff PROVE CameraInv'
  OBVIOUS
<1>1. CameraTypeOK'
  BY DEF BackOff, Stays
<1>2. WakeComes'
  BY DEF WakeComes, BackOff, Stays
<1>3. (stuck \/ (StopIsWaitedFor /\ SinkOutlives /\ EndIsShown /\ DeviceIsFreed))'
  BY DEF StopIsWaitedFor, SinkOutlives, EndIsShown, DeviceIsFreed, BackOff, Stays
<1> QED
  BY <1>1, <1>2, <1>3

-----------------------------------------------------------------------------

LEMMA StepInv == CameraInv /\ [CameraNext]_cameraVars => CameraInv'
<1>1. CameraInv /\ UNCHANGED cameraVars => CameraInv'
  BY DEF cameraVars, WakeComes, StopIsWaitedFor, SinkOutlives, EndIsShown, DeviceIsFreed
<1> QED
  BY <1>1, PlayInv, PauseInv, ResumeInv, WakeInv, HaltInv, HaltedInv, HaltRaisesInv, CloseSinkInv,
     WaitClearInv, WaitCheckInv, WaitWokenInv, OpenCameraInv, OpenedInv, PublishResetInv, ReadInv,
     PublishFrameInv, ReleaseInv, HandleDisconnectInv, PublishOutageInv, BackOffInv
     DEF CameraNext, Thread

LEMMA AlwaysInv == CameraSpec => []CameraInv
  BY InitInv, StepInv, PTL DEF CameraSpec

\* While no call gave up on the thread, a camera that is shown as playing,
\* reconnecting or paused has a thread to serve it, and that thread never sleeps
\* through a resume, a play or a stop (play, resume, _wait_until_active).
THEOREM CameraHasAThread == CameraSpec => []CameraIsAttended
<1>1. CameraInv => ThreadIsThere
  BY DEF EndIsShown, ThreadIsThere
<1>2. CameraInv => NoWakeIsLost
  BY DEF WakeComes, NoWakeIsLost
<1>3. CameraInv => CameraIsAttended
  BY <1>1, <1>2 DEF CameraIsAttended
<1> QED
  BY <1>3, AlwaysInv, PTL

\* While no call gave up on the thread, a stopped or closed camera runs nothing,
\* holds no device and sends no frame behind its reset (_halt).
THEOREM StopsAreFinal == CameraSpec => []StopIsFinal
<1>1. CameraInv => StopIsFinal
  BY DEF EndIsShown, DeviceIsFreed, StopIsFinal
<1> QED
  BY <1>1, AlwaysInv, PTL

-----------------------------------------------------------------------------
(* The region of a video that is looped, in its editor.                     *)

\* A region with times that are not negative.
Region == [start : Nat, end : Nat, duration : Durations \cup {Unknown}]

\* The knob that is dragged is where the track lets it: before or behind the other.
Dragged ==
  dragged # NoKnob =>
    /\ Usable
    /\ Sound(displayed)
    /\ dragged = "end" => displayed.end <= displayed.duration

\* The editor shows the document unless a knob is dragged.
LoopInv ==
  /\ doc \in Region /\ displayed \in Region
  /\ dragged \in Knobs \cup {NoKnob}
  /\ dragged = NoKnob => displayed = doc
  /\ Dragged

-----------------------------------------------------------------------------
(* The track.                                                               *)

\* Python's round is within a half.
LEMMA RoundWithinHalf ==
  ASSUME NEW a \in Nat, NEW b \in Nat \ {0}
  PROVE  LET q == RoundQuotient(a, b) IN
         q \in Nat /\ 2 * a <= 2 * (q * b) + b /\ 2 * (q * b) <= 2 * a + b
<1> DEFINE n == a \div b
           m == a % b
<1>1. n \in Nat /\ m \in 0 .. b - 1 /\ a = b * n + m
  OBVIOUS
<1> HIDE DEF n, m
<1>2. n * b = b * n /\ (n + 1) * b = b * n + b
  BY <1>1
<1>3. CASE 2 * m > b \/ (2 * m = b /\ n % 2 = 1)
  <2>1. RoundQuotient(a, b) = n + 1
    BY <1>3 DEF RoundQuotient, n, m
  <2> QED
    BY <1>1, <1>2, <1>3, <2>1
<1>4. CASE ~(2 * m > b \/ (2 * m = b /\ n % 2 = 1))
  <2>1. RoundQuotient(a, b) = n
    BY <1>4 DEF RoundQuotient, n, m
  <2>2. 2 * m <= b
    BY <1>1, <1>4
  <2> QED
    BY <1>1, <1>2, <2>1, <2>2
<1> QED
  BY <1>3, <1>4

\* A smaller multiple is of a smaller number.
LEMMA Smaller ==
  ASSUME NEW a \in Nat, NEW b \in Nat, NEW n \in Nat, a * n < b * n
  PROVE  a < b
<1> SUFFICES ASSUME b <= a PROVE b * n <= a * n
  OBVIOUS
<1> QED
  OBVIOUS

\* Multiples grow with the number.
LEMMA Larger ==
  ASSUME NEW a \in Nat, NEW b \in Nat, NEW n \in Nat, a <= b
  PROVE  a * n <= b * n
OBVIOUS

\* A duration is a number of steps of the track.
LEMMA StepOfTrack ==
  ASSUME NEW d \in Durations
  PROVE  /\ d \in Nat \ {0} /\ d \div TrackSteps \in Nat \ {0}
         /\ d = (d \div TrackSteps) * TrackSteps
<1> USE LoopAssumption
<1>1. d \in Nat \ {0} /\ TrackSteps \in Nat \ {0} /\ d % TrackSteps = 0
  OBVIOUS
<1> QED
  BY ONLY <1>1

\* A position before that of the end is a time before the end.
LEMMA BeforeEnd ==
  ASSUME NEW r \in Region, r.duration # Unknown, r.end > 0,
         NEW p \in Nat, p <= Most(0, EndPosition(r) - 1)
  PROVE  TimeAt(r, p) \in Nat /\ TimeAt(r, p) < r.end
<1> DEFINE d == r.duration
           e == r.end
           u == d \div TrackSteps
           x == Least(TrackSteps * d, e * TrackSteps)
           q == RoundQuotient(x, d)
<1>1. /\ d \in Nat \ {0} /\ e \in Nat \ {0} /\ u \in Nat \ {0} /\ d = u * TrackSteps
      /\ TrackSteps \in Nat \ {0}
  BY StepOfTrack, LoopAssumption DEF Region
<1>2. x \in Nat /\ x <= e * TrackSteps
  BY <1>1 DEF Least
<1> HIDE DEF x
<1>3. q \in Nat /\ 2 * (q * d) <= 2 * x + d
  BY <1>1, <1>2, RoundWithinHalf
<1>4. EndPosition(r) = q
  BY <1>1 DEF EndPosition, x
<1>5. TimeAt(r, p) = u * p
  BY DEF TimeAt
<1> HIDE DEF d, e, u, q
<1>6. CASE p = 0
  BY <1>1, <1>5, <1>6 DEF e
<1>7. CASE p # 0
  <2>1. p + 1 <= q
    BY <1>3, <1>4, <1>7 DEF Most
  <2>2. (p + 1) * d <= q * d
    BY <1>1, <1>3, <2>1, Larger
  <2>3. p * d + d <= q * d
    BY <1>1, <2>2
  <2>4. p * d < e * TrackSteps
    <3>1. p * d \in Nat /\ q * d \in Nat
      BY <1>1, <1>3
    <3> QED
      BY <1>1, <1>2, <1>3, <2>3, <3>1
  <2>5. p * d = (u * p) * TrackSteps
    BY <1>1
  <2>6. u * p \in Nat
    BY <1>1
  <2> QED
    BY <1>1, <1>5, <2>4, <2>5, <2>6, Smaller DEF e
<1> QED
  BY <1>6, <1>7

\* A position behind that of the start is a time behind the start.
LEMMA BehindStart ==
  ASSUME NEW r \in Region, r.duration # Unknown,
         NEW p \in Nat, StartPosition(r) + 1 <= p, p < TrackSteps
  PROVE  TimeAt(r, p) \in Nat /\ r.start < TimeAt(r, p)
<1> DEFINE d == r.duration
           s == r.start
           u == d \div TrackSteps
           x == Least(TrackSteps * d, s * TrackSteps)
           q == RoundQuotient(x, d)
<1>1. /\ d \in Nat \ {0} /\ s \in Nat /\ u \in Nat \ {0} /\ d = u * TrackSteps
      /\ TrackSteps \in Nat \ {0}
  BY StepOfTrack, LoopAssumption DEF Region
<1>2. x \in Nat /\ x \in {TrackSteps * d, s * TrackSteps}
  BY <1>1 DEF Least
<1> HIDE DEF x
<1>3. q \in Nat /\ 2 * x <= 2 * (q * d) + d
  BY <1>1, <1>2, RoundWithinHalf
<1>4. StartPosition(r) = q
  BY DEF StartPosition, x
<1>5. TimeAt(r, p) = u * p
  BY DEF TimeAt
<1> HIDE DEF d, s, u, q
<1>6. (q + 1) * d <= p * d /\ (p + 1) * d <= TrackSteps * d
  BY <1>1, <1>3, <1>4, Larger
<1>7. q * d + d <= p * d /\ p * d + d <= TrackSteps * d
  BY <1>1, <1>3, <1>6
<1>8. p * d \in Nat /\ q * d \in Nat /\ TrackSteps * d \in Nat
  BY <1>1, <1>3
<1>9. x < p * d
  BY <1>1, <1>2, <1>3, <1>7, <1>8
<1>10. s * TrackSteps < p * d
  BY <1>1, <1>2, <1>7, <1>8, <1>9
<1>11. p * d = (u * p) * TrackSteps /\ u * p \in Nat
  BY <1>1
<1> QED
  BY <1>1, <1>5, <1>10, <1>11, Smaller DEF s

\* Positions of both ends are on the track or at its ends.
LEMMA PositionsAreNumbers ==
  ASSUME NEW r \in Region, r.duration # Unknown
  PROVE  StartPosition(r) \in Nat /\ EndPosition(r) \in Nat
<1>1. r.duration \in Nat \ {0} /\ r.start \in Nat /\ r.end \in Nat /\ TrackSteps \in Nat \ {0}
  BY StepOfTrack, LoopAssumption DEF Region
<1>2. /\ Least(TrackSteps * r.duration, r.start * TrackSteps) \in Nat
      /\ Least(TrackSteps * r.duration, r.end * TrackSteps) \in Nat
  BY <1>1 DEF Least
<1> QED
  BY <1>1, <1>2, RoundWithinHalf DEF StartPosition, EndPosition

\* _value_for_position of a position on the track is a time.
LEMMA TimesAreNumbers ==
  ASSUME NEW r \in Region, r.duration # Unknown, NEW p \in Nat
  PROVE  /\ TimeAt(r, p) \in Nat
         /\ p <= TrackSteps => TimeAt(r, p) <= r.duration
<1> DEFINE d == r.duration
           u == d \div TrackSteps
<1>1. d \in Nat \ {0} /\ u \in Nat \ {0} /\ d = u * TrackSteps /\ TrackSteps \in Nat \ {0}
  BY StepOfTrack, LoopAssumption DEF Region
<1>2. TimeAt(r, p) = u * p
  BY DEF TimeAt
<1> HIDE DEF u
<1>3. u * p = p * u /\ u * TrackSteps = TrackSteps * u /\ p * u \in Nat
  BY <1>1
<1>4. p <= TrackSteps => p * u <= TrackSteps * u
  BY <1>1, Larger
<1> QED
  BY <1>1, <1>2, <1>3, <1>4

-----------------------------------------------------------------------------
(* The knobs and the fields.                                                *)

\* _apply_start_position and _apply_end_position keep the knobs apart.
LEMMA KnobsStayApart ==
  ASSUME NEW r \in Region, r.duration # Unknown, NEW p \in 0 .. TrackSteps, NEW knob \in Knobs
  PROVE  LET s == KnobAt(r, knob, p) IN
         /\ s \in Region /\ s.duration = r.duration
         /\ \A side \in Knobs \ {knob} : s[side] = r[side]
         /\ knob = "start" => Sound(s)
         /\ knob = "end" => s.end <= s.duration /\ Sound(s)
<1> USE LoopAssumption
<1>1. StartPosition(r) \in Nat /\ EndPosition(r) \in Nat /\ r.end \in Nat /\ r.start \in Nat
  BY PositionsAreNumbers DEF Region
<1>2. CASE knob = "start"
  <2> DEFINE limit == IF r.end > 0 THEN EndPosition(r) - 1 ELSE TrackSteps
             at == Most(0, Least(p, limit))
             s == StartAt(r, p)
  <2>1. at \in Nat /\ (r.end > 0 => at <= Most(0, EndPosition(r) - 1))
    BY <1>1 DEF Most, Least
  <2>2. s = [r EXCEPT !.start = TimeAt(r, at)]
    BY DEF StartAt
  <2> HIDE DEF at, s
  <2>3. TimeAt(r, at) \in Nat /\ (r.end > 0 => TimeAt(r, at) < r.end)
    BY <2>1, TimesAreNumbers, BeforeEnd
  <2>4. s \in Region /\ s.duration = r.duration /\ s.end = r.end /\ Sound(s)
    BY <2>2, <2>3 DEF Region, Sound
  <2> QED
    BY <1>2, <2>4 DEF KnobAt, s, Knobs
<1>3. CASE knob = "end"
  <2> DEFINE floor == IF p < TrackSteps /\ r.start > 0 THEN StartPosition(r) + 1 ELSE 0
             at == Least(Most(p, floor), TrackSteps)
             s == EndAt(r, p)
  <2>1. /\ at \in Nat /\ at <= TrackSteps
        /\ at < TrackSteps /\ r.start > 0 => StartPosition(r) + 1 <= at
    BY <1>1 DEF Most, Least
  <2>2. s = [r EXCEPT !.end = EndTimeAt(r, at)]
    BY DEF EndAt
  <2> HIDE DEF at, s
  <2>3. TimeAt(r, at) \in Nat /\ TimeAt(r, at) <= r.duration
    BY <2>1, TimesAreNumbers
  <2>4. at < TrackSteps /\ r.start > 0 => r.start < TimeAt(r, at)
    BY <2>1, BehindStart
  <2>5. r.duration \in Nat
    BY StepOfTrack DEF Region
  <2>6. EndTimeAt(r, at) \in Nat /\ EndTimeAt(r, at) <= r.duration
    BY <2>3, <2>5 DEF EndTimeAt
  <2>7. EndTimeAt(r, at) > 0 => r.start < EndTimeAt(r, at)
    BY <1>1, <2>1, <2>3, <2>4 DEF EndTimeAt
  <2>8. s \in Region /\ s.duration = r.duration /\ s.start = r.start /\ s.end = EndTimeAt(r, at)
    BY <2>2, <2>6 DEF Region
  <2> QED
    BY <1>3, <2>6, <2>7, <2>8 DEF KnobAt, s, Knobs, Sound
<1> QED
  BY <1>2, <1>3 DEF Knobs

\* set_start.
LEMMA TypedStart ==
  ASSUME NEW r \in Region, r.duration # Unknown, NEW time \in Nat
  PROVE  LET s == WithStart(r, time) IN s.start \in Nat /\ s.duration = r.duration
                                        /\ (r.end > 0 => s.start < r.end)
<1>1. EndPosition(r) \in Nat /\ r.end \in Nat /\ r.duration \in Nat
  BY PositionsAreNumbers, StepOfTrack DEF Region
<1> DEFINE p == Most(0, EndPosition(r) - 1)
           inside == Least(r.duration, time)
<1>2. p \in Nat /\ inside \in Nat
  BY <1>1 DEF Most, Least
<1> HIDE DEF p, inside
<1>3. TimeAt(r, p) \in Nat /\ (r.end > 0 => TimeAt(r, p) < r.end)
  <2>1. p <= Most(0, EndPosition(r) - 1)
    BY <1>2 DEF p
  <2> QED
    BY <1>2, <2>1, TimesAreNumbers, BeforeEnd
<1>4. WithStart(r, time) = [r EXCEPT !.start = IF r.end > 0 THEN Least(inside, TimeAt(r, p)) ELSE inside]
  BY DEF WithStart, p, inside
<1> QED
  BY <1>1, <1>2, <1>3, <1>4 DEF Least, Region

\* set_end, but for a start in the last step of the track.
LEMMA TypedEnd ==
  ASSUME NEW r \in Region, r.duration # Unknown, NEW time \in Nat
  PROVE  LET s == WithEnd(r, time) IN
         /\ s.end \in Nat /\ s.duration = r.duration
         /\ StartPosition(r) + 1 < TrackSteps /\ s.end > 0 =>
              r.start < s.end /\ r.start < r.duration
<1> USE LoopAssumption
<1>1. StartPosition(r) \in Nat /\ r.start \in Nat /\ r.duration \in Nat
  BY PositionsAreNumbers, StepOfTrack DEF Region
<1> DEFINE p == StartPosition(r) + 1
           inside == Least(r.duration, time)
<1>2. p \in Nat /\ inside \in Nat
  BY <1>1 DEF Least
<1>3. p < TrackSteps => r.start < TimeAt(r, p) /\ TimeAt(r, p) <= r.duration
  BY <1>1, <1>2, BehindStart, TimesAreNumbers
<1>4. TimeAt(r, p) \in Nat
  BY <1>2, TimesAreNumbers
<1>5. LeastEnd(r) = IF p >= TrackSteps THEN 0 ELSE TimeAt(r, p)
  BY DEF LeastEnd
<1>6. WithEnd(r, time) = [r EXCEPT !.end = IF inside > 0 THEN Most(inside, LeastEnd(r)) ELSE 0]
  BY DEF WithEnd
<1> HIDE DEF p, inside
<1> QED
  BY <1>1, <1>2, <1>3, <1>4, <1>5, <1>6 DEF Most, Region, p

\* What a field reads back is a time.
LEMMA WrittenIsATime ==
  ASSUME NEW time \in Nat
  PROVE  Written(time) \in Nat
<1>1. RoundQuotient(time, Grain) \in Nat /\ Grain \in Nat
  BY RoundWithinHalf, LoopAssumption
<1> QED
  BY <1>1 DEF Written

-----------------------------------------------------------------------------
(* The steps.                                                               *)

\* The editor is built of the document.
LEMMA LoopInitInv == LoopInit => LoopInv
BY LoopAssumption DEF LoopInit, LoopInv, Region, Times, Dragged, Knobs, NoKnob

\* One side is committed, the other stays as the document has it.
LEMMA CommitKeeps ==
  ASSUME doc \in Region, NEW knob \in Knobs, NEW r, r[knob] \in Nat, r.duration \in Nat, Commit(knob, r)
  PROVE  /\ doc' \in Region /\ displayed' = doc' /\ doc'.duration = doc.duration
         /\ doc'[knob] = Least(r.duration, r[knob])
         /\ \A side \in Knobs \ {knob} : doc'[side] = doc[side]
<1> DEFINE time == Least(r.duration, r[knob])
<1>1. time \in Nat
  BY DEF Least
<1>2. doc' = [doc EXCEPT ![knob] = time] /\ displayed' = doc'
  BY DEF Commit
<1> HIDE DEF time
<1>3. CASE knob = "start"
  BY <1>1, <1>2, <1>3 DEF Region, Knobs, time
<1>4. CASE knob = "end"
  BY <1>1, <1>2, <1>4 DEF Region, Knobs, time
<1> QED
  BY <1>3, <1>4 DEF Knobs

\* A duration that is known is one of a video.
LEMMA DurationFacts ==
  ASSUME NEW r \in Region
  PROVE  r.start \in Nat /\ r.end \in Nat /\ r.duration \in Nat
BY StepOfTrack DEF Region, Unknown

\* A knob is pressed or moved.
LEMMA DragInv ==
  ASSUME LoopInv, NEW knob \in Knobs, NEW p \in 0 .. TrackSteps, Usable,
         displayed' = KnobAt(displayed, knob, p), dragged' = knob, doc' = doc
  PROVE  LoopInv'
<1>1. displayed \in Region /\ displayed.duration # Unknown
  BY DEF LoopInv, Usable
<1>2. /\ displayed' \in Region /\ displayed'.duration = displayed.duration
      /\ Sound(displayed') /\ (knob = "end" => displayed'.end <= displayed'.duration)
  BY <1>1, KnobsStayApart DEF Knobs
<1>3. Dragged'
  BY <1>1, <1>2 DEF Dragged, Usable, Sound
<1> QED
  BY <1>2, <1>3 DEF LoopInv, Knobs, NoKnob

\* Nothing is dragged and the editor shows the document.
LEMMA AtRestInv ==
  ASSUME doc' \in Region, displayed' = doc', dragged' = NoKnob
  PROVE  LoopInv'
BY DEF LoopInv, Dragged

\* _track_released commits the dragged side.
LEMMA ReleaseKnobInv ==
  ASSUME LoopInv, ReleaseKnob
  PROVE  /\ LoopInv'
         /\ Sound(doc') \/ Overtaken
<1>1. /\ dragged \in Knobs /\ dragged' = NoKnob /\ Commit(dragged, displayed)
      /\ doc \in Region /\ displayed \in Region
  BY DEF LoopInv, ReleaseKnob
<1>2. displayed[dragged] \in Nat /\ displayed.duration \in Nat
  BY <1>1, DurationFacts DEF Knobs
<1>3. /\ doc' \in Region /\ displayed' = doc'
      /\ doc'[dragged] = Least(displayed.duration, displayed[dragged])
      /\ \A side \in Knobs \ {dragged} : doc'[side] = doc[side]
  BY <1>1, <1>2, CommitKeeps
<1>4. ASSUME ~Overtaken
      PROVE  Sound(doc')
  <2>1. \A side \in {"start", "end"} \ {dragged} : displayed[side] = doc[side]
    <3>1. DOMAIN doc = {"start", "end", "duration"}
      BY <1>1 DEF Region
    <3>2. dragged # NoKnob
      BY <1>1 DEF Knobs, NoKnob
    <3> QED
      BY <1>4, <3>1, <3>2 DEF Overtaken
  <2>2. Sound(displayed) /\ (dragged = "end" => displayed.end <= displayed.duration)
    BY <1>1 DEF LoopInv, Dragged, Knobs, NoKnob
  <2>3. displayed.start \in Nat /\ displayed.end \in Nat
    BY <1>1, DurationFacts
  <2>4. CASE dragged = "start"
    <3>1. displayed.end = doc.end /\ doc'.end = doc.end /\ doc'.start = Least(displayed.duration, displayed.start)
      BY <1>3, <2>1, <2>4 DEF Knobs
    <3> QED
      BY <1>2, <2>2, <2>3, <3>1 DEF Sound, Least
  <2>5. CASE dragged = "end"
    <3>1. /\ displayed.start = doc.start /\ doc'.start = doc.start
          /\ doc'.end = Least(displayed.duration, displayed.end)
      BY <1>3, <2>1, <2>5 DEF Knobs
    <3> QED
      BY <1>2, <2>2, <2>3, <2>5, <3>1 DEF Sound, Least
  <2> QED
    BY <1>1, <2>4, <2>5 DEF Knobs
<1> QED
  BY <1>1, <1>3, <1>4, AtRestInv

\* The start field is left.
LEMMA LeaveStartInv ==
  ASSUME LoopInv, LeaveStart
  PROVE  /\ LoopInv'
         /\ Sound(doc')
<1>1. /\ dragged = NoKnob /\ dragged' = NoKnob /\ displayed = doc
      /\ doc \in Region /\ doc.duration # Unknown
  BY DEF LoopInv, LeaveStart, Usable
<1>2. PICK time \in Times \cup {Written(displayed.start)} :
        Commit("start", WithStart(displayed, Written(time)))
  BY DEF LeaveStart
<1> DEFINE t == Written(time)
           r == WithStart(displayed, t)
<1>3. t \in Nat
  BY <1>1, <1>2, DurationFacts, WrittenIsATime, LoopAssumption DEF Times
<1> HIDE DEF t
<1>4. r.start \in Nat /\ r.duration = doc.duration /\ (doc.end > 0 => r.start < doc.end)
  BY <1>1, <1>3, TypedStart
<1>5. Commit("start", r)
  BY <1>2 DEF t
<1> HIDE DEF r
<1>6. doc.duration \in Nat /\ doc.end \in Nat
  BY <1>1, DurationFacts
<1>7. /\ doc' \in Region /\ displayed' = doc'
      /\ doc'.start = Least(r.duration, r.start) /\ doc'.end = doc.end
  BY <1>1, <1>4, <1>5, <1>6, CommitKeeps DEF Knobs
<1>8. Sound(doc')
  BY <1>4, <1>6, <1>7 DEF Sound, Least
<1> QED
  BY <1>1, <1>7, <1>8, AtRestInv

\* The end field is left.
LEMMA LeaveEndInv ==
  ASSUME LoopInv, LeaveEnd
  PROVE  /\ LoopInv'
         /\ StartPosition(displayed) + 1 < TrackSteps => Sound(doc')
<1>1. /\ dragged = NoKnob /\ dragged' = NoKnob /\ displayed = doc
      /\ doc \in Region /\ doc.duration # Unknown
  BY DEF LoopInv, LeaveEnd, Usable
<1>2. PICK time \in Times \cup {Written(DisplayedEnd)} :
        Commit("end", WithEnd(displayed, Written(time)))
  BY DEF LeaveEnd
<1> DEFINE t == Written(time)
           r == WithEnd(displayed, t)
<1>3. doc.duration \in Nat /\ doc.end \in Nat /\ doc.start \in Nat
  BY <1>1, DurationFacts
<1>4. DisplayedEnd \in Nat
  BY <1>1, <1>3 DEF DisplayedEnd
<1>5. t \in Nat
  BY <1>2, <1>4, WrittenIsATime, LoopAssumption DEF Times
<1> HIDE DEF t
<1>6. /\ r.end \in Nat /\ r.duration = doc.duration
      /\ StartPosition(doc) + 1 < TrackSteps /\ r.end > 0 =>
           doc.start < r.end /\ doc.start < doc.duration
  BY <1>1, <1>5, TypedEnd
<1>7. Commit("end", r)
  BY <1>2 DEF t
<1> HIDE DEF r
<1>8. /\ doc' \in Region /\ displayed' = doc'
      /\ doc'.end = Least(r.duration, r.end) /\ doc'.start = doc.start
  BY <1>1, <1>3, <1>6, <1>7, CommitKeeps DEF Knobs
<1>9. StartPosition(doc) + 1 < TrackSteps => Sound(doc')
  BY <1>3, <1>6, <1>8 DEF Sound, Least
<1> QED
  BY <1>1, <1>8, <1>9, AtRestInv

\* What changes elsewhere is a region, and a dragged knob stays where it is.
LEMMA ChangeElsewhereInv ==
  ASSUME LoopInv, ChangeElsewhere
  PROVE  LoopInv'
<1>1. doc \in Region /\ displayed \in Region
  BY DEF LoopInv
<1>2. doc' \in Region
  <2>1. CASE \E side \in Knobs, time \in Times : doc' = [doc EXCEPT ![side] = time]
    BY <1>1, <2>1, LoopAssumption DEF Knobs, Times, Region
  <2>2. CASE \E duration \in Durations \cup {Unknown} : doc' = [doc EXCEPT !.duration = duration]
    BY <1>1, <2>2 DEF Region
  <2> QED
    BY <2>1, <2>2 DEF ChangeElsewhere
<1>3. displayed' = (IF dragged = NoKnob THEN doc' ELSE displayed) /\ dragged' = dragged
  BY DEF ChangeElsewhere
<1> QED
  BY <1>1, <1>2, <1>3 DEF LoopInv, Dragged, Usable

\* What a step must do when it is a commit follows for every commit, whichever
\* other action the same change may also be a step of.
LEMMA CommitsAreSound ==
  ASSUME LoopInv
  PROVE  RegionStaysSoundStep
<1>1. ReleaseKnob => Sound(doc') \/ Overtaken
  BY ReleaseKnobInv
<1>2. LeaveStart => Sound(doc')
  BY LeaveStartInv
<1>3. ASSUME LeaveEnd
      PROVE  Sound(doc') \/ StartPosition(displayed) + 1 >= TrackSteps
  <2>1. StartPosition(displayed) \in Nat /\ TrackSteps \in Nat
    BY <1>3, PositionsAreNumbers, LoopAssumption DEF LeaveEnd, Usable, LoopInv
  <2>2. StartPosition(displayed) + 1 < TrackSteps => Sound(doc')
    BY <1>3, LeaveEndInv
  <2> QED
    BY <2>1, <2>2
<1> QED
  BY <1>1, <1>2, <1>3 DEF RegionStaysSoundStep

\* Every step keeps the invariant.
LEMMA LoopStepInv ==
  ASSUME LoopInv, [LoopNext]_loopVars
  PROVE  LoopInv'
<1>1. ASSUME UNCHANGED loopVars
      PROVE  LoopInv'
  BY <1>1 DEF loopVars, LoopInv, Dragged, Usable
<1>2. ASSUME PressKnob
      PROVE  LoopInv'
  BY <1>2, DragInv DEF PressKnob
<1>3. ASSUME MoveKnob
      PROVE  LoopInv'
  <2>1. dragged \in Knobs /\ Usable
    BY <1>3 DEF MoveKnob, LoopInv, Dragged
  <2> QED
    BY <1>3, <2>1, DragInv DEF MoveKnob
<1> QED
  BY <1>1, <1>2, <1>3, ReleaseKnobInv, LeaveStartInv, LeaveEndInv, ChangeElsewhereInv DEF LoopNext

\* "The start must stay strictly before it (the validator rejects start >= end)"
\* (LoopRangeParameterEditor, parameter_editors.py): whatever the track has of
\* steps, the videos of durations and the fields of digits, and whatever the
\* document held, a released knob and a left field commit a region the compiler
\* does not refuse, but for a typed end with the start in the last step and for a
\* drag that the other side changed under.
THEOREM RegionKeepsItsOrder == LoopSpec => RegionStaysSound
<1>1. LoopInit => LoopInv
  BY LoopInitInv
<1>2. LoopInv /\ [LoopNext]_loopVars => LoopInv'
  BY LoopStepInv
<1>3. LoopInv => RegionStaysSoundStep
  BY CommitsAreSound
<1> QED
  BY <1>1, <1>2, <1>3, PTL DEF LoopSpec, RegionStaysSound
=============================================================================
