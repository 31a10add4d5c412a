-------------------------- MODULE GraphWorkerProofs --------------------------
(***************************************************************************)
(* Theorems about the graph worker (GraphWorker.tla): the frames of a      *)
(* source are run in order, none that is wanted is lost, and no source     *)
(* holds another one up, for any number of sources and of commands.        *)
(***************************************************************************)
EXTENDS GraphWorker, FiniteSetTheorems, FunctionTheorems, TLAPS

-----------------------------------------------------------------------------
(* Positions in a queue.                                                    *)

\* The ranks of a set of positions are 1, 2, ... in the order of the positions.
LEMMA RankFacts ==
  ASSUME NEW n \in Nat, NEW S \in SUBSET (1..n)
  PROVE  /\ Cardinality(S) \in Nat
         /\ \A i \in S : Rank(S, i) \in 1..Cardinality(S) /\ Rank(S, i) <= i
         /\ \A i, j \in S : i < j => Rank(S, i) < Rank(S, j)
         /\ \A p \in 1..Cardinality(S) : \E i \in S : Rank(S, i) = p
<1> DEFINE Upto(i) == {j \in S : j <= i}
<1>1. IsFiniteSet(S) /\ \A i \in S : i \in Int /\ i >= 1
  <2>1. IsFiniteSet(1..n)
    BY FS_Interval
  <2>2. IsFiniteSet(S)
    BY <2>1, FS_Subset
  <2> QED
    BY <2>2
<1>2. Cardinality(S) \in Nat
  BY <1>1, FS_CardinalityType
<1>3. \A i : /\ IsFiniteSet(Upto(i)) /\ Cardinality(Upto(i)) \in Nat
             /\ Cardinality(Upto(i)) <= Cardinality(S)
  BY <1>1, FS_Subset, FS_CardinalityType
<1>4. \A i \in S : Cardinality(Upto(i)) # 0
  <2> TAKE i \in S
  <2>1. i \in Upto(i)
    BY <1>1
  <2> QED
    BY <2>1, <1>3, FS_EmptySet
<1>5. \A i \in S : Cardinality(Upto(i)) <= i
  <2> TAKE i \in S
  <2>1. Upto(i) \in SUBSET (1..i) /\ i \in Int /\ i >= 1
    <3>1. \A j \in Upto(i) : j \in 1..i
      BY <1>1
    <3> QED
      BY <3>1, <1>1
  <2>2. IsFiniteSet(1..i) /\ Cardinality(1..i) = i
    BY <2>1, FS_Interval
  <2> QED
    BY <2>1, <2>2, FS_Subset
<1>6. \A i, j \in S : i < j => Cardinality(Upto(i)) < Cardinality(Upto(j))
  <2> SUFFICES ASSUME NEW i \in S, NEW j \in S, i < j
               PROVE  Cardinality(Upto(i)) < Cardinality(Upto(j))
    OBVIOUS
  <2>1. Upto(i) \in SUBSET Upto(j) /\ j \in Upto(j) /\ j \notin Upto(i)
    <3>1. i \in Int /\ j \in Int
      BY <1>1
    <3>2. \A k \in Upto(i) : k \in Upto(j)
      BY <1>1, <3>1
    <3>3. j \in Upto(j) /\ j \notin Upto(i)
      BY <3>1
    <3> QED
      BY <3>2, <3>3
  <2>2. /\ Cardinality(Upto(i)) <= Cardinality(Upto(j))
        /\ Cardinality(Upto(j)) = Cardinality(Upto(i)) => Upto(j) = Upto(i)
    BY <2>1, <1>3, FS_Subset
  <2>3. Upto(i) # Upto(j)
    BY <2>1
  <2> HIDE DEF Upto
  <2> QED
    BY <2>2, <2>3, <1>3
<1> DEFINE rank == [i \in S |-> Cardinality(Upto(i))]
<1> HIDE DEF Upto
<1>7. rank \in Injection(S, 1..Cardinality(S))
  <2>1. rank \in [S -> 1..Cardinality(S)]
    BY <1>2, <1>3, <1>4
  <2>2. \A i, j \in S : rank[i] = rank[j] => i = j
    <3> TAKE i \in S, j \in S
    <3>1. i < j \/ j < i \/ i = j
      BY <1>1
    <3> QED
      BY <3>1, <1>3, <1>6
  <2> HIDE DEF rank
  <2> QED
    BY <2>1, <2>2, Fun_IsInj
<1>8. rank \in Surjection(S, 1..Cardinality(S))
  <2>1. IsFiniteSet(1..Cardinality(S)) /\ Cardinality(1..Cardinality(S)) = Cardinality(S)
    BY <1>2, FS_Interval
  <2> HIDE DEF rank
  <2> QED
    BY <2>1, <1>7, FS_Injection
<1>9. \A p \in 1..Cardinality(S) : \E i \in S : rank[i] = p
  BY <1>8 DEF Surjection
<1>10. \A i \in S : rank[i] = Rank(S, i) /\ Cardinality(Upto(i)) = Rank(S, i)
  BY DEF Rank, Upto
<1> HIDE DEF rank
<1> QED
  BY <1>2, <1>3, <1>4, <1>5, <1>6, <1>9, <1>10

\* A set of positions that is not empty has a last one.
LEMMA LatestFacts ==
  ASSUME NEW n \in Nat, NEW S \in SUBSET (1..n), S # {}
  PROVE  Latest(S) \in S /\ \A j \in S : j <= Latest(S)
<1>1. PICK i \in S : Rank(S, i) = Cardinality(S)
  <2>1. Cardinality(S) \in 1..Cardinality(S)
    <3>1. PICK i \in S : TRUE
      OBVIOUS
    <3>2. Cardinality(S) \in Nat /\ Rank(S, i) \in 1..Cardinality(S)
      BY RankFacts
    <3> QED
      BY <3>2
  <2> QED
    BY <2>1, RankFacts
<1>2. \A j \in S : j <= i
  <2> TAKE j \in S
  <2>1. ~(i < j)
    BY <1>1, RankFacts
  <2> QED
    BY <2>1
<1> QED
  BY <1>2 DEF Latest

\* InsertAt opens a place and moves what stands behind it by one.
LEMMA InsertFacts ==
  ASSUME NEW q \in Seq(Command), NEW e \in Command, NEW i \in 1..(Len(q) + 1)
  PROVE  /\ InsertAt(q, i, e) \in Seq(Command)
         /\ DOMAIN InsertAt(q, i, e) = 1..(Len(q) + 1)
         /\ InsertAt(q, i, e)[i] = e
         /\ \A p \in 1..(i - 1) : InsertAt(q, i, e)[p] = q[p]
         /\ \A p \in (i + 1)..(Len(q) + 1) : InsertAt(q, i, e)[p] = q[p - 1]
<1> DEFINE front == SubSeq(q, 1, i - 1)
           back == SubSeq(q, i, Len(q))
<1>1. front \in Seq(Command) /\ Len(front) = i - 1 /\ \A p \in 1..(i - 1) : front[p] = q[p]
  OBVIOUS
<1>2. /\ back \in Seq(Command) /\ Len(back) = Len(q) + 1 - i
      /\ \A p \in 1..(Len(q) + 1 - i) : back[p] = q[i + p - 1]
  OBVIOUS
<1>3. InsertAt(q, i, e) = (front \o <<e>>) \o back
  BY DEF InsertAt
<1> HIDE DEF front, back
<1> DEFINE head == front \o <<e>>
<1>4. /\ head \in Seq(Command) /\ Len(head) = i /\ head[i] = e
      /\ \A p \in 1..(i - 1) : head[p] = q[p]
  BY <1>1
<1> HIDE DEF head
<1>5. /\ head \o back \in Seq(Command) /\ Len(head \o back) = Len(q) + 1
      /\ \A p \in 1..i : (head \o back)[p] = head[p]
      /\ \A p \in (i + 1)..(Len(q) + 1) : (head \o back)[p] = back[p - i]
  BY <1>2, <1>4
<1>6. InsertAt(q, i, e) = head \o back
  BY <1>3 DEF head
<1>7. \A p \in (i + 1)..(Len(q) + 1) : back[p - i] = q[p - 1]
  BY <1>2
<1>8. DOMAIN (head \o back) = 1..(Len(q) + 1)
  BY <1>5
<1> QED
  BY <1>4, <1>5, <1>6, <1>7, <1>8

-----------------------------------------------------------------------------
(* The inductive invariant.                                                 *)

\* No command carries a stamp its source has not issued yet.
StampsAreIssued ==
    /\ \A i \in DOMAIN commands : commands[i].stamp <= issued[commands[i].source]
    /\ current # None => current.stamp <= issued[current.source]
    /\ \A s \in Sources : ran[s] <= issued[s]

\* The reset that discards removed the frames that stood before it, and later
\* ones join behind it.
NoTickBeforeDiscard ==
    \A s \in Sources : \A i \in TicksOf(s), j \in Of(s) :
        commands[j].kind = "reset" /\ commands[j].reason = "discard" => j < i

Inv ==
    /\ WorkerTypeOK
    /\ StampsAreIssued
    /\ NoTickBeforeDiscard
    /\ SourceOrder
    /\ NewestFrameKept
    /\ OneFramePerPass

\* A command is a frame or a reset of one of the sources.
LEMMA CommandFacts ==
  ASSUME NEW c \in Command
  PROVE  /\ c.source \in Sources /\ c.stamp \in Nat /\ c.stamp >= 1
         /\ c.kind \in {"tick", "reset"}
         /\ c.kind = "reset" => c.reason \in Reasons
  BY DEF Command, Ticks, Resets, Stamps

\* No two commands that wait are the same.
LEMMA CommandsDiffer ==
  ASSUME Inv, NEW i \in DOMAIN commands, NEW j \in DOMAIN commands,
         commands[i] = commands[j]
  PROVE  i = j
<1>1. i \in Of(commands[i].source) /\ j \in Of(commands[i].source)
  BY DEF Of
<1>2. commands[i] \in Command /\ i \in Int /\ j \in Int
  BY DEF Inv, WorkerTypeOK
<1>3. commands[i].source \in Sources /\ commands[i].stamp \in Nat
  BY <1>2, CommandFacts
<1> QED
  BY <1>1, <1>2, <1>3 DEF Inv, SourceOrder

\* A step rearranges the queue: every place p but n holds the command that was
\* at place g[p], the places in lost are given up, and the order is the same.
Rearranged(g, n, lost) ==
    /\ commands' \in Seq(Command)
    /\ g \in [DOMAIN commands' \ {n} -> DOMAIN commands \ lost]
    /\ \A p, r \in DOMAIN g : p < r => g[p] < g[r]
    /\ \A i \in DOMAIN commands \ lost : \E p \in DOMAIN g : g[p] = i
    /\ \A p \in DOMAIN g : commands'[p] = commands[g[p]]

\* A command joins behind the others of its source, of which frames are lost.
Joins(c, g, n, lost) ==
    /\ Rearranged(g, n, lost)
    /\ n \in DOMAIN commands' /\ commands'[n] = c
    /\ \A p \in DOMAIN g : commands'[p].source = c.source => p < n
    /\ lost \subseteq TicksOf(c.source)

\* What a rearrangement keeps of the order and of the spacing of a source.
LEMMA RearrangedFacts ==
  ASSUME Inv, NEW g, NEW n, NEW lost, Rearranged(g, n, lost), NEW s \in Sources
  PROVE  /\ \A p \in Of(s)' \ {n} : /\ g[p] \in Of(s) /\ commands'[p] = commands[g[p]]
                                    /\ commands'[p] \in Command
         /\ \A p, r \in Of(s)' \ {n} : p < r => commands'[p].stamp < commands'[r].stamp
         /\ \A i \in Of(s) \ lost : \E p \in Of(s)' \ {n} : g[p] = i
         /\ \A p \in Of(s)' \ {n} : ran[s] < commands'[p].stamp
         /\ \A p \in Of(s)' \ {n} : commands'[p].stamp <= issued[s]
<1>1. \A p \in Of(s)' \ {n} : p \in DOMAIN g /\ g[p] \in Of(s) /\ commands'[p] = commands[g[p]]
  BY DEF Rearranged, Of
<1>2. \A p, r \in Of(s)' \ {n} : p < r => commands'[p].stamp < commands'[r].stamp
  BY <1>1 DEF Rearranged, Inv, SourceOrder
<1>3. \A i \in Of(s) \ lost : \E p \in Of(s)' \ {n} : g[p] = i
  BY DEF Rearranged, Of
<1>4. \A p \in Of(s)' \ {n} : ran[s] < commands'[p].stamp
  BY <1>1 DEF Inv, SourceOrder
<1>5. \A p \in Of(s)' \ {n} : commands'[p].stamp <= issued[s]
  BY <1>1 DEF Inv, StampsAreIssued, Of
<1>6. \A p \in Of(s)' : commands'[p] \in Command
  BY DEF Rearranged, Of
<1> QED
  BY <1>1, <1>2, <1>3, <1>4, <1>5, <1>6

\* A rearrangement that gives up frames, or what stood before all the rest,
\* keeps the resets where they were among the frames.
LEMMA RearrangedSpacing ==
  ASSUME Inv, NEW g, NEW n, NEW lost, Rearranged(g, n, lost), NEW t \in Sources,
         \A i \in lost : \/ commands[i].kind = "tick"
                         \/ \A p \in DOMAIN g : i < g[p]
  PROVE  /\ \A p \in TicksOf(t)' \ {n}, r \in Of(t)' \ {n} :
               commands'[r].kind = "reset" /\ commands'[r].reason = "discard" => r < p
         /\ \A p, r \in TicksOf(t)' \ {n} :
               p < r => \E k \in Of(t)' : /\ p < k /\ k < r
                                         /\ commands'[k].kind = "reset"
                                         /\ commands'[k].reason = "ended"
<1>1. \A p \in Of(t)' \ {n} : p \in DOMAIN g /\ p \in Int
  BY DEF Of, Rearranged
<1>2. \A p \in Of(t)' \ {n} : /\ g[p] \in Of(t) /\ commands'[p] = commands[g[p]]
                               /\ g[p] \in Int
  <2>1. \A i \in Of(t) : i \in Int
    BY DEF Of, Inv, WorkerTypeOK
  <2> QED
    BY <2>1, RearrangedFacts
<1>3. \A p \in TicksOf(t)' \ {n} : p \in Of(t)' \ {n} /\ g[p] \in TicksOf(t)
  BY <1>2 DEF TicksOf
<1>4. \A p, r \in DOMAIN g : p < r => g[p] < g[r]
  BY DEF Rearranged
<1>5. ASSUME NEW p \in TicksOf(t)' \ {n}, NEW r \in Of(t)' \ {n},
             commands'[r].kind = "reset", commands'[r].reason = "discard"
      PROVE  r < p
  <2>1. g[r] < g[p]
    BY <1>2, <1>3, <1>5 DEF Inv, NoTickBeforeDiscard
  <2>2. p \in DOMAIN g /\ r \in DOMAIN g /\ p \in Int /\ r \in Int /\ g[p] \in Int /\ g[r] \in Int
    BY <1>1, <1>2, <1>3
  <2>3. ~(p < r) /\ p # r
    BY <1>4, <2>1, <2>2
  <2> QED
    BY <2>2, <2>3
<1>6. ASSUME NEW p \in TicksOf(t)' \ {n}, NEW r \in TicksOf(t)' \ {n}, p < r
      PROVE  \E k \in Of(t)' : /\ p < k /\ k < r
                               /\ commands'[k].kind = "reset"
                               /\ commands'[k].reason = "ended"
  <2>1. /\ p \in DOMAIN g /\ r \in DOMAIN g /\ p \in Int /\ r \in Int
        /\ g[p] \in Int /\ g[r] \in Int /\ g[p] < g[r]
    BY <1>1, <1>2, <1>3, <1>4, <1>6
  <2>2. PICK i \in Of(t) : /\ g[p] < i /\ i < g[r] /\ commands[i].kind = "reset"
                           /\ commands[i].reason = "ended"
    BY <1>3, <2>1 DEF Inv, OneFramePerPass
  <2>3. i \in Int
    BY DEF Of, Inv, WorkerTypeOK
  <2>4. i \notin lost
    BY <2>1, <2>2, <2>3
  <2>5. PICK k \in Of(t)' \ {n} : g[k] = i
    BY <2>4, RearrangedFacts
  <2>6. commands'[k] = commands[i] /\ k \in DOMAIN g /\ k \in Int
    BY <1>1, <1>2, <2>5
  <2>7. ~(k < p) /\ k # p /\ ~(r < k) /\ k # r
    BY <1>4, <2>1, <2>2, <2>3, <2>5, <2>6
  <2> QED
    BY <2>1, <2>2, <2>5, <2>6, <2>7
<1> QED
  BY <1>5, <1>6

\* What a rearrangement does not give up is found again.
LEMMA RearrangedKeeps ==
  ASSUME Inv, NEW g, NEW n, NEW lost, Rearranged(g, n, lost), NEW t \in Sources,
         NEW i \in TicksOf(t) \ lost
  PROVE  \E p \in TicksOf(t)' : commands'[p] = commands[i]
<1>1. i \in Of(t) \ lost /\ commands[i].kind = "tick"
  BY DEF TicksOf
<1>2. PICK p \in Of(t)' \ {n} : g[p] = i
  BY <1>1, RearrangedFacts
<1>3. commands'[p] = commands[i]
  BY <1>2, RearrangedFacts
<1> QED
  BY <1>1, <1>2, <1>3 DEF TicksOf

-----------------------------------------------------------------------------
(* The places a step gives to the commands.                                 *)

\* publish: the new frame stands behind the commands of its source, of which at
\* most the frame that waited last is given up, and behind a frame that waits
\* stands a drained reset. Nothing else moves back, except for what a frame that
\* joins its own reset pushes back.
LEMMA PlaceFacts ==
  ASSUME Inv, NEW s \in Sources, NEW c \in Command, c.kind = "tick", c.source = s,
         commands' = Place(c).queue
  PROVE  \E g, n, lost :
           /\ Joins(c, g, n, lost)
           /\ \A p \in DOMAIN g :
                commands'[p].kind = "tick" /\ commands'[p].source = s =>
                  \E k \in DOMAIN g : /\ p < k /\ k < n /\ commands'[k].source = s
                                     /\ commands'[k].kind = "reset"
                                     /\ commands'[k].reason = "ended"
           /\ \A p \in DOMAIN g :
                g[p] < p => /\ n > 1 /\ n < p /\ commands'[n - 1].kind = "reset"
                            /\ commands'[n - 1].source = s
<1> DEFINE i == Latest(Of(s))
<1>1. /\ commands \in Seq(Command) /\ Len(commands) \in Nat
      /\ DOMAIN commands = 1..Len(commands)
  BY DEF Inv, WorkerTypeOK
<1>2. Of(s) \in SUBSET (1..Len(commands))
  BY <1>1 DEF Of
<1>3. CASE Of(s) = {}
  <2> DEFINE n == Len(commands) + 1
             g == [p \in DOMAIN commands |-> p]
  <2>1. commands' = Append(commands, c)
    BY <1>3 DEF Place
  <2>2. /\ commands' \in Seq(Command) /\ DOMAIN commands' = 1..n /\ commands'[n] = c
        /\ \A p \in DOMAIN commands : commands'[p] = commands[p]
    BY <1>1, <2>1
  <2>3. DOMAIN commands' \ {n} = DOMAIN commands
    BY <1>1, <2>2
  <2>4. \A p \in DOMAIN commands : commands'[p].source # s
    BY <1>3, <2>2 DEF Of
  <2>5. Rearranged(g, n, {})
    BY <2>2, <2>3 DEF Rearranged
  <2>6. Joins(c, g, n, {})
    BY <2>2, <2>4, <2>5 DEF Joins
  <2> QED
    BY <1>1, <2>4, <2>6
<1>4. ASSUME Of(s) # {}
      PROVE  /\ i \in Of(s) /\ i \in 1..Len(commands) /\ commands[i].source = s
             /\ \A j \in Of(s) : j <= i
             /\ commands[i] \in Command
  <2>1. i \in Of(s) /\ \A j \in Of(s) : j <= i
    BY <1>1, <1>2, <1>4, LatestFacts
  <2> QED
    BY <1>1, <1>2, <2>1 DEF Of
<1>5. CASE Of(s) # {} /\ commands[i].kind = "reset"
  <2> HIDE DEF i
  <2> DEFINE n == i + 1
             g == [p \in (1..(Len(commands) + 1)) \ {n} |-> IF p < n THEN p ELSE p - 1]
  <2>1. commands' = InsertAt(commands, n, c)
    BY <1>5 DEF Place, i
  <2>2. /\ commands' \in Seq(Command) /\ DOMAIN commands' = 1..(Len(commands) + 1)
        /\ commands'[n] = c
        /\ \A p \in 1..(n - 1) : commands'[p] = commands[p]
        /\ \A p \in (n + 1)..(Len(commands) + 1) : commands'[p] = commands[p - 1]
    <3>1. n \in 1..(Len(commands) + 1)
      BY <1>1, <1>4, <1>5
    <3> HIDE DEF n, g
    <3> DEFINE q == InsertAt(commands, n, c)
    <3>2. /\ q \in Seq(Command) /\ DOMAIN q = 1..(Len(commands) + 1) /\ q[n] = c
          /\ \A p \in 1..(n - 1) : q[p] = commands[p]
          /\ \A p \in (n + 1)..(Len(commands) + 1) : q[p] = commands[p - 1]
      <4>1. commands \in Seq(Command)
        BY <1>1
      <4> QED
        BY <3>1, <4>1, InsertFacts
    <3> HIDE DEF q
    <3>3. commands' = q
      BY <2>1 DEF q
    <3> QED
      BY <3>2, <3>3
  <2>3. i \in Int /\ i >= 1 /\ i <= Len(commands)
    BY <1>1, <1>4, <1>5
  <2>4. \A p \in DOMAIN g : commands'[p] = commands[g[p]]
    BY <1>1, <2>2, <2>3
  <2>5. Rearranged(g, n, {})
    <3>1. g \in [DOMAIN commands' \ {n} -> DOMAIN commands \ {}]
      BY <1>1, <2>2, <2>3
    <3>2. \A p, r \in DOMAIN g : p < r => g[p] < g[r]
      BY <1>1, <2>3
    <3>3. \A j \in DOMAIN commands \ {} : \E p \in DOMAIN g : g[p] = j
      <4> TAKE j \in DOMAIN commands \ {}
      <4>1. CASE j < n
        BY <1>1, <2>3, <4>1
      <4>2. CASE ~(j < n)
        <5>1. j + 1 \in DOMAIN g /\ g[j + 1] = j
          BY <1>1, <2>3, <4>2
        <5> QED
          BY <5>1
      <4> QED
        BY <4>1, <4>2
    <3> HIDE DEF g
    <3> QED
      BY <2>2, <2>4, <3>1, <3>2, <3>3 DEF Rearranged
  <2>6. \A p \in DOMAIN g : commands'[p].source = s => p < n
    <3> TAKE p \in DOMAIN g
    <3>1. commands'[p].source = s => g[p] \in Of(s)
      BY <2>4, <2>5 DEF Rearranged, Of
    <3>2. g[p] <= i => p < n
      BY <2>3
    <3> QED
      BY <1>4, <1>5, <3>1, <3>2
  <2>7. Joins(c, g, n, {})
    <3> HIDE DEF g
    <3> QED
      BY <1>1, <2>2, <2>3, <2>5, <2>6 DEF Joins
  <2>8. \A p \in DOMAIN g :
          commands'[p].kind = "tick" /\ commands'[p].source = s =>
            \E k \in DOMAIN g : /\ p < k /\ k < n /\ commands'[k].source = s
                               /\ commands'[k].kind = "reset"
                               /\ commands'[k].reason = "ended"
    <3> SUFFICES ASSUME NEW p \in DOMAIN g,
                        commands'[p].kind = "tick", commands'[p].source = s
                 PROVE  \E k \in DOMAIN g : /\ p < k /\ k < n /\ commands'[k].source = s
                                           /\ commands'[k].kind = "reset"
                                           /\ commands'[k].reason = "ended"
      OBVIOUS
    <3>1. p < n /\ p \in 1..(n - 1) /\ commands'[p] = commands[p]
      BY <2>2, <2>3, <2>6
    <3>2. p \in TicksOf(s)
      BY <1>1, <2>3, <3>1 DEF TicksOf, Of
    <3>3. commands[i].reason # "discard"
      BY <1>4, <1>5, <2>3, <3>1, <3>2 DEF Inv, NoTickBeforeDiscard
    <3>4. commands[i].reason = "ended"
      BY <1>4, <1>5, <3>3, CommandFacts DEF Reasons
    <3>5. i \in DOMAIN g /\ commands'[i] = commands[i] /\ i < n /\ p # i
      BY <1>1, <1>5, <2>2, <2>3, <3>1
    <3>6. p < i
      BY <2>3, <3>1, <3>5
    <3> QED
      BY <1>4, <1>5, <3>4, <3>5, <3>6
  <2>9. \A p \in DOMAIN g :
          g[p] < p => /\ n > 1 /\ n < p /\ commands'[n - 1].kind = "reset"
                      /\ commands'[n - 1].source = s
    BY <1>4, <1>5, <2>2, <2>3
  <2> HIDE DEF g, n
  <2> QED
    BY <2>7, <2>8, <2>9
<1>6. CASE Of(s) # {} /\ commands[i].kind # "reset"
  <2> HIDE DEF i
  <2> DEFINE g == [p \in DOMAIN commands \ {i} |-> p]
  <2>1. commands' = [commands EXCEPT ![i] = c]
    BY <1>6 DEF Place, i
  <2>2. i \in TicksOf(s) /\ i \in DOMAIN commands
    BY <1>1, <1>4, <1>6, CommandFacts DEF TicksOf
  <2>3. /\ commands' \in Seq(Command) /\ DOMAIN commands' = DOMAIN commands
        /\ commands'[i] = c
        /\ \A p \in DOMAIN commands \ {i} : commands'[p] = commands[p]
    BY <1>1, <2>1, <2>2
  <2>4. Rearranged(g, i, {i})
    BY <2>3 DEF Rearranged
  <2>5. \A p \in DOMAIN g : commands'[p].source = s => p < i
    BY <1>1, <1>4, <1>6, <2>3 DEF Of
  <2>6. Joins(c, g, i, {i})
    BY <2>2, <2>3, <2>4, <2>5 DEF Joins
  <2>7. \A p \in DOMAIN g :
          commands'[p].kind = "tick" /\ commands'[p].source = s =>
            \E k \in DOMAIN g : /\ p < k /\ k < i /\ commands'[k].source = s
                               /\ commands'[k].kind = "reset"
                               /\ commands'[k].reason = "ended"
    <3> SUFFICES ASSUME NEW p \in DOMAIN g,
                        commands'[p].kind = "tick", commands'[p].source = s
                 PROVE  \E k \in DOMAIN g : /\ p < k /\ k < i /\ commands'[k].source = s
                                           /\ commands'[k].kind = "reset"
                                           /\ commands'[k].reason = "ended"
      OBVIOUS
    <3>1. p \in TicksOf(s) /\ p < i
      BY <2>3, <2>5 DEF TicksOf, Of
    <3>2. PICK k \in Of(s) : /\ p < k /\ k < i /\ commands[k].kind = "reset"
                             /\ commands[k].reason = "ended"
      BY <2>2, <3>1 DEF Inv, OneFramePerPass
    <3>3. k \in DOMAIN g /\ commands'[k] = commands[k] /\ commands[k].source = s
      BY <1>1, <2>2, <2>3, <3>2 DEF Of
    <3> QED
      BY <3>2, <3>3
  <2>8. \A p \in DOMAIN g : ~(g[p] < p)
    BY <1>1
  <2> HIDE DEF g
  <2> QED
    BY <2>6, <2>7, <2>8
<1> QED
  BY <1>3, <1>5, <1>6

\* reset_source: the reset stands last, behind the commands that are kept. A
\* reset that drains keeps every frame; one that discards none of its source.
LEMMA KeptFacts ==
  ASSUME Inv, NEW s \in Sources, NEW c \in Command, c.source = s,
         NEW reason \in Reasons, commands' = Append(Kept(s, reason), c)
  PROVE  \E g, n, lost :
           /\ Joins(c, g, n, lost)
           /\ lost = IF reason = "ended" THEN {} ELSE TicksOf(s)
           /\ \A p \in DOMAIN g : g[p] >= p
<1>1. /\ commands \in Seq(Command) /\ Len(commands) \in Nat
      /\ DOMAIN commands = 1..Len(commands)
  BY DEF Inv, WorkerTypeOK
<1> DEFINE kept == DOMAIN commands \ TicksOf(s)
<1>2. kept \in SUBSET (1..Len(commands)) /\ TicksOf(s) \subseteq DOMAIN commands
  BY <1>1 DEF TicksOf, Of
<1>3. CASE reason = "ended"
  <2> DEFINE n == Len(commands) + 1
             g == [p \in DOMAIN commands |-> p]
  <2>1. commands' = Append(commands, c)
    BY <1>3 DEF Kept
  <2>2. /\ commands' \in Seq(Command) /\ DOMAIN commands' = 1..n /\ commands'[n] = c
        /\ \A p \in DOMAIN commands : commands'[p] = commands[p]
    BY <1>1, <2>1
  <2>3. DOMAIN commands' \ {n} = DOMAIN commands
    BY <1>1, <2>2
  <2>4. Rearranged(g, n, {})
    BY <2>2, <2>3 DEF Rearranged
  <2>5. Joins(c, g, n, {})
    BY <1>1, <2>2, <2>4 DEF Joins
  <2> QED
    BY <1>1, <1>3, <2>5
<1>4. CASE reason # "ended"
  <2> HIDE DEF kept
  <2> DEFINE size == Cardinality(kept)
             n == size + 1
             place(p) == CHOOSE i \in kept : Rank(kept, i) = p
             g == [p \in 1..size |-> place(p)]
  <2>1. /\ size \in Nat
        /\ \A i \in kept : Rank(kept, i) \in 1..size /\ Rank(kept, i) <= i
        /\ \A i, j \in kept : i < j => Rank(kept, i) < Rank(kept, j)
        /\ \A p \in 1..size : \E i \in kept : Rank(kept, i) = p
    BY <1>1, <1>2, RankFacts
  <2>2. \A p \in 1..size : /\ place(p) \in kept /\ Rank(kept, place(p)) = p
                           /\ place(p) \in Int
    <3> HIDE DEF size
    <3> SUFFICES ASSUME NEW p \in 1..size
                 PROVE  place(p) \in kept /\ Rank(kept, place(p)) = p /\ place(p) \in Int
      OBVIOUS
    <3>1. \E i \in kept : Rank(kept, i) = p
      BY <2>1
    <3>2. place(p) \in kept /\ Rank(kept, place(p)) = p
      BY <3>1
    <3> HIDE DEF place
    <3>3. place(p) \in 1..Len(commands)
      BY <1>2, <3>2
    <3> QED
      BY <3>2, <3>3
  <2> HIDE DEF size, place
  <2>3. Only(kept) = [p \in 1..size |-> commands[place(p)]]
    BY DEF Only, size, place
  <2>4. commands' = Append([p \in 1..size |-> commands[place(p)]], c)
    BY <1>4, <2>3 DEF Kept, kept
  <2>5. [p \in 1..size |-> commands[place(p)]] \in Seq(Command)
    <3>1. \A p \in 1..size : commands[place(p)] \in Command
      BY <1>1, <1>2, <2>2
    <3> QED
      BY <2>1, <3>1
  <2>6. /\ commands' \in Seq(Command) /\ DOMAIN commands' = 1..n /\ commands'[n] = c
        /\ \A p \in 1..size : commands'[p] = commands[place(p)]
    BY <2>1, <2>4, <2>5
  <2>7. DOMAIN commands' \ {n} = 1..size
    BY <2>1, <2>6
  <2>8. \A p, r \in 1..size : p < r => place(p) < place(r)
    <3> SUFFICES ASSUME NEW p \in 1..size, NEW r \in 1..size, p < r
                 PROVE  place(p) < place(r)
      OBVIOUS
    <3>1. place(r) < place(p) => r < p
      BY <2>1, <2>2
    <3>2. place(r) # place(p)
      BY <2>1, <2>2
    <3>3. p \in Int /\ r \in Int /\ place(p) \in Int /\ place(r) \in Int
      BY <2>1, <2>2
    <3> QED
      BY <3>1, <3>2, <3>3
  <2>9. \A i \in kept : \E p \in 1..size : place(p) = i
    <3> TAKE i \in kept
    <3> DEFINE p == Rank(kept, i)
    <3>1. p \in 1..size /\ i \in Int
      BY <1>1, <1>2, <2>1
    <3>2. place(p) \in kept /\ Rank(kept, place(p)) = p /\ place(p) \in Int
      BY <2>2, <3>1
    <3>3. ~(place(p) < i) /\ ~(i < place(p))
      BY <2>1, <3>1, <3>2
    <3> HIDE DEF p
    <3>4. place(p) = i
      BY <3>1, <3>2, <3>3
    <3> QED
      BY <3>1, <3>4
  <2>10. DOMAIN commands \ TicksOf(s) = kept
    BY DEF kept
  <2>11. Rearranged(g, n, TicksOf(s))
    BY <2>2, <2>6, <2>7, <2>8, <2>9, <2>10 DEF Rearranged
  <2>12. Joins(c, g, n, TicksOf(s))
    BY <2>1, <2>6, <2>11 DEF Joins
  <2>13. \A p \in DOMAIN g : g[p] >= p
    <3> TAKE p \in DOMAIN g
    <3>1. p \in 1..size /\ g[p] = place(p)
      OBVIOUS
    <3>2. Rank(kept, place(p)) = p /\ place(p) \in Int /\ Rank(kept, place(p)) <= place(p)
      BY <2>1, <2>2, <3>1
    <3> QED
      BY <3>1, <3>2
  <2> HIDE DEF g, n
  <2> QED
    BY <1>4, <2>12, <2>13
<1> QED
  BY <1>3, <1>4

\* The worker takes the first command; every other one moves up.
LEMMA TakeFacts ==
  ASSUME Inv, TakeCommand
  PROVE  \E g : /\ Rearranged(g, 0, {1})
                /\ 1 \in DOMAIN commands /\ current' = commands[1]
                /\ \A p \in DOMAIN g : g[p] >= p
<1> DEFINE g == [p \in 1..(Len(commands) - 1) |-> p + 1]
<1>1. /\ commands \in Seq(Command) /\ Len(commands) \in Nat /\ Len(commands) >= 1
      /\ DOMAIN commands = 1..Len(commands)
      /\ commands' = Tail(commands) /\ current' = commands[1]
  BY DEF Inv, WorkerTypeOK, TakeCommand
<1>2. /\ commands' \in Seq(Command) /\ DOMAIN commands' = 1..(Len(commands) - 1)
      /\ \A p \in 1..(Len(commands) - 1) : commands'[p] = commands[p + 1]
  BY <1>1
<1>3. g \in [DOMAIN commands' \ {0} -> DOMAIN commands \ {1}]
  BY <1>1, <1>2
<1>4. \A p, r \in DOMAIN g : p < r => g[p] < g[r]
  BY <1>1
<1>5. \A i \in DOMAIN commands \ {1} : \E p \in DOMAIN g : g[p] = i
  <2> TAKE i \in DOMAIN commands \ {1}
  <2>1. i - 1 \in DOMAIN g /\ g[i - 1] = i
    BY <1>1
  <2> QED
    BY <2>1
<1>6. \A p \in DOMAIN g : commands'[p] = commands[g[p]] /\ g[p] >= p
  BY <1>1, <1>2
<1> HIDE DEF g
<1> QED
  BY <1>1, <1>2, <1>3, <1>4, <1>5, <1>6 DEF Rearranged

-----------------------------------------------------------------------------
(* Every step keeps the invariant.                                          *)

\* A command that joins with the next stamp of its source is the last of it.
LEMMA JoinsInOrder ==
  ASSUME Inv, NEW s \in Sources, NEW c \in Command, c.source = s,
         c.stamp = issued[s] + 1, NEW g, NEW n, NEW lost, Joins(c, g, n, lost),
         current' = current, ran' = ran, issued' = [issued EXCEPT ![s] = c.stamp]
  PROVE  StampsAreIssued' /\ SourceOrder'
<1>1. /\ Rearranged(g, n, lost) /\ n \in DOMAIN commands' /\ commands'[n] = c
      /\ n \in Of(s)' /\ \A p \in Of(s)' \ {n} : p < n
  BY DEF Joins, Rearranged, Of
<1>2. /\ \A t \in Sources : issued[t] \in Int /\ ran[t] \in Int /\ ran[t] <= issued[t]
      /\ issued'[s] = issued[s] + 1 /\ \A t \in Sources \ {s} : issued'[t] = issued[t]
  BY DEF Inv, WorkerTypeOK, StampsAreIssued
<1>3. current # None => /\ current \in Command /\ current.source \in Sources
                       /\ current.stamp \in Nat /\ current.stamp <= issued[current.source]
  BY CommandFacts DEF Inv, WorkerTypeOK, StampsAreIssued
<1>4. \A t \in Sources \ {s} : n \notin Of(t)'
  BY <1>1 DEF Of
<1>5. \A t \in Sources : \A p \in Of(t)' \ {n} :
         commands'[p].stamp \in Nat /\ commands'[p].stamp <= issued[t]
  BY <1>1, RearrangedFacts, CommandFacts
<1>6. StampsAreIssued'
  <2>1. \A p \in DOMAIN commands' : commands'[p].stamp <= issued'[commands'[p].source]
    <3> TAKE p \in DOMAIN commands'
    <3>1. CASE p = n
      BY <1>1, <1>2, <3>1
    <3>2. CASE p # n
      <4>1. commands'[p] \in Command
        BY <1>1 DEF Rearranged
      <4>2. PICK t \in Sources : commands'[p].source = t
        BY <4>1, CommandFacts
      <4>3. p \in Of(t)'
        BY <4>2 DEF Of
      <4> QED
        BY <1>2, <1>5, <3>2, <4>2, <4>3
    <3> QED
      BY <3>1, <3>2
  <2>2. current # None => current.stamp <= issued'[current.source]
    BY <1>2, <1>3
  <2>3. \A t \in Sources : ran[t] <= issued'[t]
    BY <1>2
  <2> QED
    BY <2>1, <2>2, <2>3 DEF StampsAreIssued
<1>7. SourceOrder'
  <2> SUFFICES ASSUME NEW t \in Sources
      PROVE  /\ \A p, r \in Of(t)' : p < r => commands'[p].stamp < commands'[r].stamp
             /\ \A p \in Of(t)' : ran[t] < commands'[p].stamp
             /\ current # None /\ current.source = t =>
                   /\ ran[t] < current.stamp
                   /\ \A p \in Of(t)' : current.stamp < commands'[p].stamp
    BY DEF SourceOrder
  <2>1. \A p, r \in Of(t)' \ {n} : p < r => commands'[p].stamp < commands'[r].stamp
    BY <1>1, RearrangedFacts
  <2>2. \A p \in Of(t)' \ {n} : ran[t] < commands'[p].stamp
    BY <1>1, RearrangedFacts
  <2>3. n \in Of(t)' =>
          /\ t = s /\ commands'[n].stamp = issued[s] + 1
          /\ \A p \in Of(t)' \ {n} : p < n /\ commands'[p].stamp < commands'[n].stamp
    BY <1>1, <1>2, <1>4, <1>5
  <2>4. \A p \in Of(t)' : p \in Int
    BY <1>1 DEF Rearranged, Of
  <2>5. \A p, r \in Of(t)' : p < r => commands'[p].stamp < commands'[r].stamp
    <3> SUFFICES ASSUME NEW p \in Of(t)', NEW r \in Of(t)', p < r
                 PROVE  commands'[p].stamp < commands'[r].stamp
      OBVIOUS
    <3>1. CASE r = n
      BY <2>3, <2>4, <3>1
    <3>2. CASE p = n
      BY <2>3, <2>4, <3>2
    <3> QED
      BY <2>1, <3>1, <3>2
  <2>6. \A p \in Of(t)' : ran[t] < commands'[p].stamp
    BY <1>2, <2>2, <2>3
  <2>7. ASSUME current # None, current.source = t
        PROVE  /\ ran[t] < current.stamp
               /\ \A p \in Of(t)' : current.stamp < commands'[p].stamp
    <3>1. /\ ran[t] < current.stamp /\ \A i \in Of(t) : current.stamp < commands[i].stamp
      BY <2>7 DEF Inv, SourceOrder
    <3>2. \A p \in Of(t)' \ {n} : g[p] \in Of(t) /\ commands'[p] = commands[g[p]]
      BY <1>1, RearrangedFacts
    <3>3. n \in Of(t)' => current.stamp < commands'[n].stamp
      BY <1>2, <1>3, <2>3, <2>7
    <3> QED
      BY <3>1, <3>2, <3>3
  <2> QED
    BY <2>5, <2>6, <2>7
<1> QED
  BY <1>6, <1>7

LEMMA PublishInv == ASSUME Inv, NEW s \in Sources, Publish(s) PROVE Inv'
<1> DEFINE stamp == issued[s] + 1
           c == [kind |-> "tick", source |-> s, stamp |-> stamp]
<1>1. /\ stamp \in Int /\ stamp >= 1 /\ stamp <= MaxStamp
      /\ commands' = Place(c).queue
      /\ issued' = [issued EXCEPT ![s] = stamp] /\ newest' = [newest EXCEPT ![s] = stamp]
      /\ UNCHANGED <<current, closed, exited, failed, ran>>
      /\ dropped' \in {dropped, [dropped EXCEPT ![s] = @ + 1]}
  BY DEF Publish, Inv, WorkerTypeOK
<1>2. c \in Command /\ c.kind = "tick" /\ c.source = s /\ c.stamp = stamp
  <2>1. stamp \in Stamps
    BY <1>1 DEF Stamps, Inv, WorkerTypeOK
  <2> QED
    BY <2>1 DEF Command, Ticks
<1> HIDE DEF c
<1>3. PICK g, n, lost :
        /\ Joins(c, g, n, lost)
        /\ \A p \in DOMAIN g :
             commands'[p].kind = "tick" /\ commands'[p].source = s =>
               \E k \in DOMAIN g : /\ p < k /\ k < n /\ commands'[k].source = s
                                  /\ commands'[k].kind = "reset"
                                  /\ commands'[k].reason = "ended"
  <2> HIDE DEF stamp
  <2> QED
    BY <1>1, <1>2, PlaceFacts
<1>4. /\ Rearranged(g, n, lost) /\ n \in DOMAIN commands' /\ commands'[n] = c
      /\ n \in Of(s)' /\ \A p \in Of(s)' \ {n} : p < n /\ p \in DOMAIN g
      /\ DOMAIN g = DOMAIN commands' \ {n}
  BY <1>2, <1>3 DEF Joins, Rearranged, Of
<1>5. \A t \in Sources \ {s} : n \notin Of(t)' /\ lost \cap Of(t) = {}
  BY <1>2, <1>3, <1>4 DEF Of, Joins, TicksOf
<1>6. WorkerTypeOK'
  <2>1. commands' \in Seq(Command)
    BY <1>4 DEF Rearranged
  <2>2. dropped' \in [Sources -> Nat]
    <3>1. dropped \in [Sources -> Nat] /\ dropped[s] + 1 \in Nat
      BY DEF Inv, WorkerTypeOK
    <3>2. [dropped EXCEPT ![s] = dropped[s] + 1] \in [Sources -> Nat]
      BY <3>1
    <3> QED
      BY <1>1, <3>1, <3>2
  <2>3. closed' \in BOOLEAN /\ exited' \in BOOLEAN /\ failed' \in BOOLEAN
    BY <1>1, Zenon DEF Inv, WorkerTypeOK
  <2>4. issued' \in [Sources -> 0..MaxStamp] /\ newest' \in [Sources -> 0..MaxStamp]
    <3>1. stamp \in 0..MaxStamp
      BY <1>1 DEF Inv, WorkerTypeOK
    <3> HIDE DEF stamp
    <3> QED
      BY <1>1, <3>1 DEF Inv, WorkerTypeOK
  <2>5. ran' \in [Sources -> 0..MaxStamp] /\ current' \in Command \cup {None}
    BY <1>1 DEF Inv, WorkerTypeOK
  <2> QED
    BY <2>1, <2>2, <2>3, <2>4, <2>5 DEF WorkerTypeOK
<1>7. StampsAreIssued' /\ SourceOrder'
  <2> HIDE DEF stamp
  <2>1. c.stamp = issued[s] + 1
    BY <1>2 DEF stamp
  <2> QED
    BY <1>1, <1>2, <1>3, <2>1, JoinsInOrder
<1>8. NoTickBeforeDiscard'
  <2> SUFFICES ASSUME NEW t \in Sources, NEW p \in TicksOf(t)', NEW r \in Of(t)',
                      commands'[r].kind = "reset", commands'[r].reason = "discard"
               PROVE  r < p
    BY DEF NoTickBeforeDiscard
  <2>1. p \in Of(t)' /\ commands'[p].kind = "tick" /\ r # n
    BY <1>2, <1>4 DEF TicksOf
  <2>2. CASE p = n
    BY <1>4, <1>5, <2>1, <2>2
  <2>3. CASE p # n
    BY <1>3, <1>4, <2>1, <2>3, RearrangedSpacing DEF Joins, TicksOf
  <2> QED
    BY <2>2, <2>3
<1>9. NewestFrameKept'
  <2> SUFFICES ASSUME NEW t \in Sources, newest'[t] # 0
               PROVE  \/ newest'[t] <= ran[t]
                      \/ current # None /\ current.source = t /\ current.stamp = newest'[t]
                      \/ \E p \in TicksOf(t)' : commands'[p].stamp = newest'[t]
    BY <1>1 DEF NewestFrameKept
  <2>1. CASE t = s
    <3>1. newest'[s] = stamp
      BY <1>1 DEF Inv, WorkerTypeOK
    <3> QED
      BY <1>2, <1>4, <2>1, <3>1 DEF TicksOf
  <2>2. CASE t # s
    <3>1. newest'[t] = newest[t]
      BY <1>1, <2>2 DEF Inv, WorkerTypeOK
    <3>2. ASSUME NEW i \in TicksOf(t)
          PROVE  \E p \in TicksOf(t)' : commands'[p] = commands[i]
      <4>1. i \in TicksOf(t) \ lost
        BY <1>5, <2>2 DEF TicksOf
      <4> QED
        BY <1>4, <4>1, RearrangedKeeps
    <3> QED
      BY <2>2, <3>1, <3>2 DEF Inv, NewestFrameKept
  <2> QED
    BY <2>1, <2>2
<1>10. OneFramePerPass'
  <2> SUFFICES ASSUME NEW t \in Sources, NEW p \in TicksOf(t)', NEW r \in TicksOf(t)', p < r
               PROVE  \E k \in Of(t)' : /\ p < k /\ k < r
                                        /\ commands'[k].kind = "reset"
                                        /\ commands'[k].reason = "ended"
    BY DEF OneFramePerPass
  <2>1. /\ p \in Of(t)' /\ commands'[p].kind = "tick" /\ commands'[p].source = t
        /\ r \in Of(t)' /\ commands'[r].kind = "tick" /\ p \in Int /\ r \in Int
    BY <1>4 DEF TicksOf, Of, Rearranged
  <2>2. CASE r = n
    <3>1. t = s /\ p \in DOMAIN g
      BY <1>4, <1>5, <2>1, <2>2
    <3>2. PICK k \in DOMAIN g : /\ p < k /\ k < n /\ commands'[k].source = s
                               /\ commands'[k].kind = "reset"
                               /\ commands'[k].reason = "ended"
      BY <1>3, <2>1, <3>1
    <3>3. k \in Of(t)'
      BY <1>4, <3>1, <3>2 DEF Of
    <3> QED
      BY <2>2, <3>2, <3>3
  <2>3. CASE p = n
    BY <1>4, <1>5, <2>1, <2>3
  <2>4. CASE p # n /\ r # n
    BY <1>3, <1>4, <2>1, <2>4, RearrangedSpacing DEF Joins, TicksOf
  <2> QED
    BY <2>2, <2>3, <2>4
<1> QED
  BY <1>6, <1>7, <1>8, <1>9, <1>10 DEF Inv

LEMMA ResetSourceInv ==
  ASSUME MaxStamp \in Nat, Inv, NEW s \in Sources, NEW reason \in Reasons, ResetSource(s, reason)
  PROVE  Inv'
<1> DEFINE stamp == issued[s] + 1
           c == [kind |-> "reset", source |-> s, reason |-> reason, stamp |-> stamp]
<1>1. /\ stamp \in Int /\ stamp >= 1 /\ stamp <= MaxStamp
      /\ commands' = Append(Kept(s, reason), c)
      /\ issued' = [issued EXCEPT ![s] = stamp]
      /\ newest' = IF reason = "ended" THEN newest ELSE [newest EXCEPT ![s] = 0]
      /\ UNCHANGED <<current, closed, exited, dropped, failed, ran>>
  BY DEF ResetSource, Inv, WorkerTypeOK
<1>2. /\ c \in Command /\ c.kind = "reset" /\ c.source = s /\ c.stamp = stamp
      /\ c.reason = reason
  <2>1. stamp \in Stamps
    BY <1>1 DEF Stamps, Inv, WorkerTypeOK
  <2> QED
    BY <2>1 DEF Command, Resets
<1> HIDE DEF c
<1>3. PICK g, n, lost :
        /\ Joins(c, g, n, lost)
        /\ lost = IF reason = "ended" THEN {} ELSE TicksOf(s)
  <2> HIDE DEF stamp
  <2> QED
    BY <1>1, <1>2, KeptFacts
<1>4. /\ Rearranged(g, n, lost) /\ n \in DOMAIN commands' /\ commands'[n] = c
      /\ n \in Of(s)' /\ \A p \in Of(s)' \ {n} : p < n /\ p \in DOMAIN g
  BY <1>2, <1>3 DEF Joins, Rearranged, Of
<1>5. \A t \in Sources : n \notin TicksOf(t)'
  BY <1>2, <1>4 DEF TicksOf
<1>6. \A i \in lost : commands[i].kind = "tick"
  BY <1>3 DEF TicksOf
<1>7. WorkerTypeOK'
  <2>1. commands' \in Seq(Command)
    BY <1>4 DEF Rearranged
  <2>2. closed' \in BOOLEAN /\ exited' \in BOOLEAN /\ failed' \in BOOLEAN
    BY <1>1, Zenon DEF Inv, WorkerTypeOK
  <2>3. issued' \in [Sources -> 0..MaxStamp] /\ newest' \in [Sources -> 0..MaxStamp]
    <3>1. stamp \in 0..MaxStamp /\ 0 \in 0..MaxStamp
      BY <1>1 DEF Inv, WorkerTypeOK
    <3> HIDE DEF stamp
    <3> QED
      BY <1>1, <3>1 DEF Inv, WorkerTypeOK
  <2>4. /\ ran' \in [Sources -> 0..MaxStamp] /\ current' \in Command \cup {None}
        /\ dropped' \in [Sources -> Nat]
    BY <1>1 DEF Inv, WorkerTypeOK
  <2> QED
    BY <2>1, <2>2, <2>3, <2>4 DEF WorkerTypeOK
<1>8. StampsAreIssued' /\ SourceOrder'
  <2> HIDE DEF stamp
  <2>1. c.stamp = issued[s] + 1
    BY <1>2 DEF stamp
  <2> QED
    BY <1>1, <1>2, <1>3, <2>1, JoinsInOrder
<1>9. NoTickBeforeDiscard'
  <2> SUFFICES ASSUME NEW t \in Sources, NEW p \in TicksOf(t)', NEW r \in Of(t)',
                      commands'[r].kind = "reset", commands'[r].reason = "discard"
               PROVE  r < p
    BY DEF NoTickBeforeDiscard
  <2>1. CASE r = n
    <3>1. reason = "discard" /\ t = s
      BY <1>2, <1>4, <2>1 DEF Of
    <3>2. p \in Of(s)' \ {n} /\ commands'[p].kind = "tick"
      BY <1>5, <3>1 DEF TicksOf
    <3>3. g[p] \in TicksOf(s) /\ g[p] \notin lost
      <4>1. g[p] \in Of(s) /\ commands'[p] = commands[g[p]]
        BY <1>4, <3>2, RearrangedFacts
      <4>2. g[p] \notin lost
        BY <1>4, <3>2 DEF Rearranged
      <4> QED
        BY <3>2, <4>1, <4>2 DEF TicksOf
    <3> QED
      BY <1>3, <3>1, <3>3
  <2>2. CASE r # n
    BY <1>4, <1>5, <1>6, <2>2, RearrangedSpacing
  <2> QED
    BY <2>1, <2>2
<1>10. NewestFrameKept'
  <2> SUFFICES ASSUME NEW t \in Sources, newest'[t] # 0
               PROVE  \/ newest'[t] <= ran[t]
                      \/ current # None /\ current.source = t /\ current.stamp = newest'[t]
                      \/ \E p \in TicksOf(t)' : commands'[p].stamp = newest'[t]
    BY <1>1 DEF NewestFrameKept
  <2>1. newest'[t] = newest[t] /\ lost \cap TicksOf(t) = {}
    <3>1. CASE reason = "ended"
      BY <1>1, <1>3, <3>1
    <3>2. CASE reason # "ended"
      <4>1. t # s /\ newest'[t] = newest[t]
        BY <1>1, <3>2 DEF Inv, WorkerTypeOK
      <4> QED
        BY <1>3, <3>2, <4>1 DEF TicksOf, Of
    <3> QED
      BY <3>1, <3>2
  <2>2. \A i \in TicksOf(t) : \E p \in TicksOf(t)' : commands'[p] = commands[i]
    BY <1>4, <2>1, RearrangedKeeps
  <2> QED
    BY <2>1, <2>2 DEF Inv, NewestFrameKept
<1>11. OneFramePerPass'
  BY <1>4, <1>5, <1>6, RearrangedSpacing DEF OneFramePerPass
<1> QED
  BY <1>7, <1>8, <1>9, <1>10, <1>11 DEF Inv

LEMMA TakeInv ==
  ASSUME None \notin Command, Inv, TakeCommand
  PROVE  Inv'
<1>1. PICK g : Rearranged(g, 0, {1}) /\ 1 \in DOMAIN commands /\ current' = commands[1]
  BY TakeFacts
<1>2. UNCHANGED <<closed, exited, dropped, failed, issued, newest, ran>> /\ current = None
  BY DEF TakeCommand
<1> DEFINE c == commands[1]
<1>3. /\ c \in Command /\ c.source \in Sources /\ c.stamp \in Nat
      /\ 1 \in Of(c.source)
  BY <1>1, CommandFacts DEF Inv, WorkerTypeOK, Of
<1>4. \A t \in Sources : 0 \notin Of(t)' /\ TicksOf(t)' = TicksOf(t)' \ {0}
  <2>1. \A t \in Sources : 0 \notin Of(t)'
    BY <1>1 DEF Rearranged, Of
  <2> QED
    BY <2>1 DEF TicksOf
<1>5. \A p \in DOMAIN g : 1 < g[p]
  BY <1>1 DEF Rearranged, Inv, WorkerTypeOK
<1>6. WorkerTypeOK'
  <2>1. commands' \in Seq(Command)
    BY <1>1 DEF Rearranged
  <2>2. closed' \in BOOLEAN /\ exited' \in BOOLEAN /\ failed' \in BOOLEAN
    BY <1>2, Zenon DEF Inv, WorkerTypeOK
  <2> QED
    BY <1>1, <1>2, <1>3, <2>1, <2>2 DEF Inv, WorkerTypeOK
<1>7. StampsAreIssued'
  <2>1. \A p \in DOMAIN commands' : commands'[p].stamp <= issued[commands'[p].source]
    <3> TAKE p \in DOMAIN commands'
    <3>1. p \in DOMAIN g /\ g[p] \in DOMAIN commands /\ commands'[p] = commands[g[p]]
      <4>1. p # 0
        BY <1>1 DEF Rearranged
      <4> QED
        BY <1>1, <4>1 DEF Rearranged
    <3> QED
      BY <3>1 DEF Inv, StampsAreIssued
  <2>2. c.stamp <= issued[c.source]
    BY <1>1 DEF Inv, StampsAreIssued
  <2> QED
    BY <1>1, <1>2, <2>1, <2>2 DEF Inv, StampsAreIssued
<1>8. SourceOrder'
  <2> SUFFICES ASSUME NEW t \in Sources
      PROVE  /\ \A p, r \in Of(t)' : p < r => commands'[p].stamp < commands'[r].stamp
             /\ \A p \in Of(t)' : ran[t] < commands'[p].stamp
             /\ c.source = t =>
                   /\ ran[t] < c.stamp
                   /\ \A p \in Of(t)' : c.stamp < commands'[p].stamp
    BY <1>1, <1>2 DEF SourceOrder
  <2>1. ASSUME c.source = t
        PROVE  ran[t] < c.stamp /\ \A p \in Of(t)' : c.stamp < commands'[p].stamp
    <3>1. 1 \in Of(t) /\ ran[t] < c.stamp
      BY <1>3, <2>1 DEF Inv, SourceOrder
    <3>2. \A p \in Of(t)' : /\ g[p] \in Of(t) /\ commands'[p] = commands[g[p]] /\ 1 < g[p]
      BY <1>1, <1>4, <1>5, RearrangedFacts DEF Rearranged, Of
    <3> QED
      BY <3>1, <3>2 DEF Inv, SourceOrder
  <2> QED
    BY <1>1, <1>4, <2>1, RearrangedFacts
<1>9. NoTickBeforeDiscard' /\ OneFramePerPass'
  <2>1. \A i \in {1} : \A p \in DOMAIN g : i < g[p]
    BY <1>5
  <2> QED
    BY <1>1, <1>4, <2>1, RearrangedSpacing DEF NoTickBeforeDiscard, OneFramePerPass
<1>10. NewestFrameKept'
  <2> SUFFICES ASSUME NEW t \in Sources, newest[t] # 0
               PROVE  \/ newest[t] <= ran[t]
                      \/ c.source = t /\ c.stamp = newest[t]
                      \/ \E p \in TicksOf(t)' : commands'[p].stamp = newest[t]
    <3>1. c # None
      BY <1>3
    <3> QED
      BY <1>1, <1>2, <3>1 DEF NewestFrameKept
  <2>1. CASE newest[t] <= ran[t]
    BY <2>1
  <2>2. CASE \E i \in TicksOf(t) : commands[i].stamp = newest[t]
    <3>1. PICK i \in TicksOf(t) : commands[i].stamp = newest[t]
      BY <2>2
    <3>2. CASE i = 1
      BY <3>1, <3>2 DEF TicksOf, Of
    <3>3. CASE i # 1
      BY <1>1, <3>1, <3>3, RearrangedKeeps
    <3> QED
      BY <3>2, <3>3
  <2> QED
    BY <1>2, <2>1, <2>2 DEF Inv, NewestFrameKept
<1> QED
  BY <1>6, <1>7, <1>8, <1>9, <1>10 DEF Inv

LEMMA FinishInv == ASSUME MaxStamp \in Nat, Inv, FinishCommand PROVE Inv'
<1> DEFINE s == current.source
<1>1. /\ current # None /\ current' = None
      /\ ran' = [ran EXCEPT ![s] = current.stamp]
      /\ failed' \in {failed, TRUE}
      /\ UNCHANGED <<commands, closed, exited, dropped, issued, newest>>
  BY DEF FinishCommand
<1>2. /\ current \in Command /\ s \in Sources /\ current.stamp \in Nat
      /\ ran[s] < current.stamp /\ current.stamp <= issued[s]
      /\ \A i \in Of(s) : current.stamp < commands[i].stamp
  <2>1. current \in Command
    BY <1>1 DEF Inv, WorkerTypeOK
  <2>2. s \in Sources /\ current.stamp \in Nat
    BY <2>1, CommandFacts
  <2> QED
    BY <1>1, <2>1, <2>2 DEF Inv, SourceOrder, StampsAreIssued
<1> HIDE DEF s
<1>3. /\ ran'[s] = current.stamp
      /\ \A t \in Sources \ {s} : ran'[t] = ran[t]
      /\ \A t \in Sources : Of(t)' = Of(t) /\ TicksOf(t)' = TicksOf(t)
      /\ \A t \in Sources : ran[t] \in Int /\ issued[t] \in Int /\ newest[t] \in Int
  BY <1>1, <1>2 DEF Inv, WorkerTypeOK, Of, TicksOf
<1>4. WorkerTypeOK'
  <2>1. closed' \in BOOLEAN /\ exited' \in BOOLEAN /\ failed' \in BOOLEAN
    BY <1>1, Zenon DEF Inv, WorkerTypeOK
  <2>2. current.stamp \in 0..MaxStamp
    <3>1. issued[s] \in 0..MaxStamp
      BY <1>2 DEF Inv, WorkerTypeOK
    <3> QED
      BY <1>2, <3>1
  <2> QED
    BY <1>1, <2>1, <2>2 DEF Inv, WorkerTypeOK
<1>5. StampsAreIssued' /\ NoTickBeforeDiscard' /\ OneFramePerPass'
  BY <1>1, <1>2, <1>3
     DEF Inv, StampsAreIssued, NoTickBeforeDiscard, OneFramePerPass
<1>6. SourceOrder'
  BY <1>1, <1>2, <1>3 DEF Inv, SourceOrder
<1>7. NewestFrameKept'
  <2> SUFFICES ASSUME NEW t \in Sources, newest[t] # 0
               PROVE  \/ newest[t] <= ran'[t]
                      \/ \E i \in TicksOf(t) : commands[i].stamp = newest[t]
    BY <1>1, <1>3 DEF NewestFrameKept
  <2>1. \/ newest[t] <= ran[t]
        \/ s = t /\ current.stamp = newest[t]
        \/ \E i \in TicksOf(t) : commands[i].stamp = newest[t]
    BY DEF Inv, NewestFrameKept, s
  <2>2. ran[t] <= ran'[t]
    BY <1>2, <1>3
  <2> QED
    BY <1>2, <1>3, <2>1, <2>2
<1> QED
  BY <1>4, <1>5, <1>6, <1>7 DEF Inv

LEMMA CloseInv == ASSUME MaxStamp \in Nat, Inv, CloseWorker PROVE Inv'
<1>1. /\ commands' = <<>> /\ newest' = [t \in Sources |-> 0] /\ closed' = TRUE
      /\ UNCHANGED <<current, exited, dropped, failed, issued, ran>>
  BY DEF CloseWorker
<1>2. \A t \in Sources : Of(t)' = {} /\ TicksOf(t)' = {}
  BY <1>1 DEF Of, TicksOf
<1>3. WorkerTypeOK'
  <2>1. closed' \in BOOLEAN /\ exited' \in BOOLEAN /\ failed' \in BOOLEAN
    BY <1>1, Zenon DEF Inv, WorkerTypeOK
  <2>2. newest' \in [Sources -> 0..MaxStamp] /\ commands' \in Seq(Command)
    BY <1>1
  <2> QED
    BY <1>1, <2>1, <2>2 DEF Inv, WorkerTypeOK
<1>4. StampsAreIssued' /\ SourceOrder'
  BY <1>1, <1>2 DEF Inv, StampsAreIssued, SourceOrder
<1>5. NoTickBeforeDiscard' /\ OneFramePerPass' /\ NewestFrameKept'
  BY <1>1, <1>2 DEF NoTickBeforeDiscard, OneFramePerPass, NewestFrameKept
<1> QED
  BY <1>3, <1>4, <1>5 DEF Inv

\* What touches neither the queue nor the ghosts keeps the invariant.
LEMMA OtherInv ==
  ASSUME Inv, UNCHANGED <<commands, current, issued, newest, ran>>,
         closed' \in BOOLEAN, exited' \in BOOLEAN, failed' \in BOOLEAN,
         dropped' \in [Sources -> Nat]
  PROVE  Inv'
<1>1. \A t \in Sources : Of(t)' = Of(t) /\ TicksOf(t)' = TicksOf(t)
  BY DEF Of, TicksOf
<1>2. WorkerTypeOK'
  BY DEF Inv, WorkerTypeOK
<1>3. StampsAreIssued' /\ NoTickBeforeDiscard' /\ OneFramePerPass'
  BY <1>1 DEF Inv, StampsAreIssued, NoTickBeforeDiscard, OneFramePerPass
<1>4. SourceOrder' /\ NewestFrameKept'
  BY <1>1 DEF Inv, SourceOrder, NewestFrameKept
<1> QED
  BY <1>2, <1>3, <1>4 DEF Inv

LEMMA InitInv == ASSUME MaxStamp \in Nat, WorkerInit PROVE Inv
<1>1. \A t \in Sources : Of(t) = {} /\ TicksOf(t) = {}
  BY DEF WorkerInit, Of, TicksOf
<1>2. WorkerTypeOK
  <2>1. closed \in BOOLEAN /\ exited \in BOOLEAN /\ failed \in BOOLEAN
    BY Zenon DEF WorkerInit
  <2> QED
    BY <2>1 DEF WorkerInit, WorkerTypeOK
<1>3. StampsAreIssued /\ SourceOrder
  BY <1>1 DEF WorkerInit, StampsAreIssued, SourceOrder
<1>4. NoTickBeforeDiscard /\ OneFramePerPass /\ NewestFrameKept
  BY <1>1 DEF WorkerInit, NoTickBeforeDiscard, OneFramePerPass, NewestFrameKept
<1> QED
  BY <1>2, <1>3, <1>4 DEF Inv

LEMMA StepInv ==
  ASSUME MaxStamp \in Nat, None \notin Command, Inv, [WorkerNext]_workerVars
  PROVE  Inv'
<1>0. /\ closed \in BOOLEAN /\ exited \in BOOLEAN /\ failed \in BOOLEAN
      /\ dropped \in [Sources -> Nat]
  BY DEF Inv, WorkerTypeOK
<1>1. ASSUME NEW s \in Sources, Publish(s) PROVE Inv'
  BY <1>1, PublishInv
<1>2. ASSUME NEW s \in Sources, NEW reason \in Reasons, ResetSource(s, reason) PROVE Inv'
  BY <1>2, ResetSourceInv
<1>3. CASE ResetPlanMetrics
  <2>1. UNCHANGED <<commands, current, closed, exited, issued, newest, ran>>
    BY <1>3 DEF ResetPlanMetrics
  <2>2. failed' \in BOOLEAN
    BY <1>3, Zenon DEF ResetPlanMetrics
  <2>3. dropped' \in [Sources -> Nat]
    BY <1>3 DEF ResetPlanMetrics
  <2>4. closed' \in BOOLEAN /\ exited' \in BOOLEAN
    BY <1>0, <2>1, Zenon
  <2> QED
    BY <2>1, <2>2, <2>3, <2>4, OtherInv
<1>4. CASE CloseWorker
  BY <1>4, CloseInv
<1>5. CASE TakeCommand
  BY <1>5, TakeInv
<1>6. CASE FinishCommand
  BY <1>6, FinishInv
<1>7. CASE Exit
  <2>1. UNCHANGED <<commands, current, closed, dropped, failed, issued, newest, ran>>
    BY <1>7 DEF Exit
  <2>2. exited' \in BOOLEAN
    BY <1>7, Zenon DEF Exit
  <2>3. closed' \in BOOLEAN /\ failed' \in BOOLEAN /\ dropped' \in [Sources -> Nat]
    BY <1>0, <2>1, Zenon
  <2> QED
    BY <2>1, <2>2, <2>3, OtherInv
<1>8. CASE UNCHANGED workerVars
  <2>1. UNCHANGED <<commands, current, closed, exited, dropped, failed, issued, newest, ran>>
    BY <1>8 DEF workerVars
  <2>2. /\ closed' \in BOOLEAN /\ exited' \in BOOLEAN /\ failed' \in BOOLEAN
        /\ dropped' \in [Sources -> Nat]
    BY <1>0, <2>1, Zenon
  <2> QED
    BY <2>1, <2>2, OtherInv
<1> QED
  BY <1>1, <1>2, <1>3, <1>4, <1>5, <1>6, <1>7, <1>8 DEF WorkerNext, WorkerThread, Stopped

-----------------------------------------------------------------------------
(* The theorems.                                                            *)

\* For any sources and any number of commands: the commands of a source run in
\* the order it issued them, its newest frame that no later reset discarded is
\* kept, and between two resets at most one of its frames waits (publish,
\* reset_source, _run).
THEOREM FramesAreOrdered ==
  ASSUME MaxStamp \in Nat, None \notin Command
  PROVE  WorkerSpec => []FramesRunInOrder
<1>1. WorkerInit => Inv
  BY InitInv
<1>2. Inv /\ [WorkerNext]_workerVars => Inv'
  BY StepInv
<1>3. Inv => FramesRunInOrder
  BY DEF Inv, FramesRunInOrder
<1> QED
  BY <1>1, <1>2, <1>3, PTL DEF WorkerSpec

\* What NoOvertaking says of one step.
StepOvertakes ==
    \A i \in DOMAIN commands : \A j \in DOMAIN commands' :
        commands[i] = commands'[j] /\ i < j =>
            \E k \in 1..(j - 1) :
                /\ commands'[k].kind = "tick" /\ k > 1
                /\ commands'[k - 1].kind = "reset"
                /\ commands'[k - 1].source = commands'[k].source

\* A command that waits and has not been given up is the one that moved, never
\* the new one.
LEMMA MovedFacts ==
  ASSUME Inv, NEW g, NEW n, NEW lost, Rearranged(g, n, lost),
         NEW i \in DOMAIN commands, NEW j \in DOMAIN commands' \ {n},
         commands[i] = commands'[j]
  PROVE  j \in DOMAIN g /\ g[j] = i /\ i \in Int /\ j \in Int
<1>1. /\ j \in DOMAIN g /\ commands'[j] = commands[g[j]]
      /\ g[j] \in DOMAIN commands /\ i \in Int /\ j \in Int
  BY DEF Rearranged, Inv, WorkerTypeOK
<1>2. commands[i] = commands[g[j]]
  BY <1>1
<1> QED
  BY <1>1, <1>2, CommandsDiffer

\* The command that joins has a stamp no command that waits has.
LEMMA JoinedIsNew ==
  ASSUME Inv, NEW c \in Command, NEW i \in DOMAIN commands,
         c.stamp = issued[c.source] + 1
  PROVE  commands[i] # c
<1>1. c.source \in Sources /\ issued[c.source] \in Int
  BY CommandFacts DEF Inv, WorkerTypeOK
<1>2. commands[i].stamp <= issued[commands[i].source]
  BY DEF Inv, StampsAreIssued
<1> QED
  BY <1>1, <1>2

LEMMA PublishOvertakes == ASSUME Inv, NEW s \in Sources, Publish(s) PROVE StepOvertakes
<1> DEFINE stamp == issued[s] + 1
           c == [kind |-> "tick", source |-> s, stamp |-> stamp]
<1>1. stamp <= MaxStamp /\ commands' = Place(c).queue
  BY DEF Publish
<1>2. c \in Command /\ c.kind = "tick" /\ c.source = s /\ c.stamp = stamp
  <2>1. stamp \in Stamps
    BY <1>1 DEF Stamps, Inv, WorkerTypeOK
  <2> QED
    BY <2>1 DEF Command, Ticks
<1> HIDE DEF c, stamp
<1>3. PICK g, n, lost :
        /\ Joins(c, g, n, lost)
        /\ \A p \in DOMAIN g :
             g[p] < p => /\ n > 1 /\ n < p /\ commands'[n - 1].kind = "reset"
                         /\ commands'[n - 1].source = s
  BY <1>1, <1>2, PlaceFacts
<1>4. /\ Rearranged(g, n, lost) /\ n \in DOMAIN commands' /\ commands'[n] = c
      /\ n \in Int /\ n >= 1
  BY <1>3 DEF Joins, Rearranged
<1> SUFFICES ASSUME NEW i \in DOMAIN commands, NEW j \in DOMAIN commands',
                    commands[i] = commands'[j], i < j
             PROVE  \E k \in 1..(j - 1) :
                       /\ commands'[k].kind = "tick" /\ k > 1
                       /\ commands'[k - 1].kind = "reset"
                       /\ commands'[k - 1].source = commands'[k].source
  BY DEF StepOvertakes
<1>5. j # n
  BY <1>2, <1>4, JoinedIsNew DEF stamp
<1>6. j \in DOMAIN g /\ g[j] = i /\ j \in Int
  BY <1>4, <1>5, MovedFacts
<1>7. n > 1 /\ n < j /\ commands'[n - 1].kind = "reset" /\ commands'[n - 1].source = s
  BY <1>3, <1>6
<1>8. n \in 1..(j - 1)
  BY <1>4, <1>6, <1>7
<1> QED
  BY <1>2, <1>4, <1>7, <1>8

LEMMA ResetOvertakes ==
  ASSUME Inv, NEW s \in Sources, NEW reason \in Reasons, ResetSource(s, reason)
  PROVE  StepOvertakes
<1> DEFINE stamp == issued[s] + 1
           c == [kind |-> "reset", source |-> s, reason |-> reason, stamp |-> stamp]
<1>1. stamp <= MaxStamp /\ commands' = Append(Kept(s, reason), c)
  BY DEF ResetSource
<1>2. c \in Command /\ c.source = s /\ c.stamp = stamp
  <2>1. stamp \in Stamps
    BY <1>1 DEF Stamps, Inv, WorkerTypeOK
  <2> QED
    BY <2>1 DEF Command, Resets
<1> HIDE DEF c, stamp
<1>3. PICK g, n, lost : Joins(c, g, n, lost) /\ \A p \in DOMAIN g : g[p] >= p
  BY <1>1, <1>2, KeptFacts
<1>4. Rearranged(g, n, lost) /\ n \in DOMAIN commands' /\ commands'[n] = c
  BY <1>3 DEF Joins
<1> SUFFICES ASSUME NEW i \in DOMAIN commands, NEW j \in DOMAIN commands',
                    commands[i] = commands'[j]
             PROVE  ~(i < j)
  BY DEF StepOvertakes
<1>5. j # n
  BY <1>2, <1>4, JoinedIsNew DEF stamp
<1>6. j \in DOMAIN g /\ g[j] = i /\ i \in Int /\ j \in Int
  BY <1>4, <1>5, MovedFacts
<1> QED
  BY <1>3, <1>6

LEMMA TakeOvertakes == ASSUME Inv, TakeCommand PROVE StepOvertakes
<1>1. PICK g : Rearranged(g, 0, {1}) /\ \A p \in DOMAIN g : g[p] >= p
  BY TakeFacts
<1> SUFFICES ASSUME NEW i \in DOMAIN commands, NEW j \in DOMAIN commands',
                    commands[i] = commands'[j]
             PROVE  ~(i < j)
  BY DEF StepOvertakes
<1>2. j # 0
  BY <1>1 DEF Rearranged
<1>3. j \in DOMAIN g /\ g[j] = i /\ i \in Int /\ j \in Int
  BY <1>1, <1>2, MovedFacts
<1> QED
  BY <1>1, <1>3

\* A queue that does not change, or is emptied, moves nothing.
LEMMA StillOvertakes ==
  ASSUME Inv, commands' = commands \/ commands' = <<>>
  PROVE  StepOvertakes
<1> SUFFICES ASSUME NEW i \in DOMAIN commands, NEW j \in DOMAIN commands',
                    commands[i] = commands'[j]
             PROVE  ~(i < j)
  BY DEF StepOvertakes
<1>1. commands' = commands
  OBVIOUS
<1>2. i = j
  BY <1>1, CommandsDiffer
<1>3. i \in Int
  BY DEF Inv, WorkerTypeOK
<1> QED
  BY <1>2, <1>3

\* For any sources and any number of commands: however often a source
\* publishes, a command of another source only moves towards the head, except
\* for a frame that joins its own queued reset (publish replaces in place).
THEOREM SourcesDoNotOvertake ==
  ASSUME MaxStamp \in Nat, None \notin Command
  PROVE  WorkerSpec => NoOvertaking
<1>1. WorkerInit => Inv
  BY InitInv
<1>2. Inv /\ [WorkerNext]_workerVars => Inv'
  BY StepInv
<1>3. Inv /\ [WorkerNext]_workerVars => [StepOvertakes]_workerVars
  <2> SUFFICES ASSUME Inv, WorkerNext PROVE StepOvertakes
    OBVIOUS
  <2>1. ASSUME NEW s \in Sources, Publish(s) PROVE StepOvertakes
    BY <2>1, PublishOvertakes
  <2>2. ASSUME NEW s \in Sources, NEW reason \in Reasons, ResetSource(s, reason)
        PROVE  StepOvertakes
    BY <2>2, ResetOvertakes
  <2>3. CASE TakeCommand
    BY <2>3, TakeOvertakes
  <2>4. CASE ResetPlanMetrics \/ CloseWorker \/ FinishCommand \/ Exit \/ Stopped
    <3>1. commands' = commands \/ commands' = <<>>
      BY <2>4 DEF ResetPlanMetrics, CloseWorker, FinishCommand, Exit, Stopped, workerVars
    <3> QED
      BY <3>1, StillOvertakes
  <2> QED
    BY <2>1, <2>2, <2>3, <2>4 DEF WorkerNext, WorkerThread
<1>4. WorkerSpec => [][StepOvertakes]_workerVars
  BY <1>1, <1>2, <1>3, PTL DEF WorkerSpec
<1> QED
  BY <1>4 DEF NoOvertaking, StepOvertakes

=============================================================================
