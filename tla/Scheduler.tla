----------------------------- MODULE Scheduler -----------------------------
(***************************************************************************)
(* Scheduler (runtime/scheduler.py) behind EngineFacade                    *)
(* (runtime/engine_facade.py): the runtimes of the active plan, the        *)
(* replacement that is prepared beside it and borrows some of them, and    *)
(* the ticks.  A plan is what Compile of module Compiler returns, with the *)
(* fields of its nodes that are read here: kind, noData, clock, demanded,  *)
(* static, the nodes its inputs are bound to, the retention key and        *)
(* whether it has outputs.                                                 *)
(*                                                                         *)
(* A value is only there or NoData, all ports of a node alike.  A runtime  *)
(* is <<node, slot>>.  The graph worker ticks while a replacement is       *)
(* prepared; the commit waits for it.                                      *)
(***************************************************************************)
EXTENDS Naturals, FiniteSets, FiniteSetsExt, Sequences, TLC

CONSTANT Activations  \* the plans that activations compile to, a sequence

VARIABLES
  active,     \* [plan: index in CompiledPlans, owned: node -> slot,
              \*  cache: static node -> has a value]
  prepared,   \* the replacement: [plan, owned, borrowed]
  open,       \* the runtimes that are not closed
  fed,        \* runtime -> the plans under which its state took something in
  soundingSinks,  \* runtimes of sinks that hold notes
  tick        \* history: the last step when it was a tick, what ran, what failed

schedulerVars == <<active, prepared, open, fed, soundingSinks, tick>>

\* A name of their own, so that TLC evaluates them once.
CompiledPlans == Activations

NoScheduler == [plan |-> 0, owned |-> <<>>, cache |-> <<>>, borrowed |-> {}]
NoTick == [source |-> 0, ran |-> {}, failed |-> {}]

RuntimeSlots == {0, 1}
Runtimes == (UNION {DOMAIN CompiledPlans[i].nodes : i \in DOMAIN CompiledPlans}) \X RuntimeSlots

NodesOf(i) == IF i = 0 THEN <<>> ELSE CompiledPlans[i].nodes

Active == NodesOf(active.plan)

Owned(s) == {<<n, s.owned[n]>> : n \in DOMAIN s.owned}
SourcesOf(nodes) == {n \in DOMAIN nodes : nodes[n].kind = "SOURCE"}

\* Where a node's input comes from: the source, as it is configured, and the
\* nodes its ports are bound to.
OriginOf(nodes, n) ==
  <<nodes[n].clock,
    IF nodes[n].clock \in DOMAIN nodes THEN nodes[nodes[n].clock].key ELSE 0,
    nodes[n].inputs>>

\* What the plans of a compiler have in common: equal keys come with the same
\* clock and the same bindings (CompiledNode.state_retention_key), and a node
\* has no clock, 0, or that of a source of the plan.
KeysIdentify ==
  LET plans == {CompiledPlans[i].nodes : i \in DOMAIN CompiledPlans}
  IN /\ \A new, old \in plans : \A n \in DOMAIN new \cap DOMAIN old :
          new[n].key = old[n].key =>
            new[n].clock = old[n].clock /\ new[n].inputs = old[n].inputs
     /\ \A nodes \in plans :
          /\ 0 \notin DOMAIN nodes
          /\ \A n \in DOMAIN nodes : nodes[n].clock # 0 =>
               \E c \in SourcesOf(nodes) : nodes[n].clock = c /\ nodes[c].clock = c

-----------------------------------------------------------------------------
(* prepare, commit and close.                                               *)

InvalidatedClocks(new, old) ==
  {new[n].clock : n \in {m \in SourcesOf(new) :
                           m \notin DOMAIN old \/ old[m].key # new[m].key}}

\* prepare_replacement: the nodes that keep their runtime, from plan to plan.
ReusableNodes(new, old) ==
  {n \in DOMAIN new \cap DOMAIN old :
     old[n].key = new[n].key /\ new[n].clock \notin InvalidatedClocks(new, old)}

FreeSlot(n) == CHOOSE k \in RuntimeSlots : <<n, k>> \notin open

\* runtime_factory for the others.
Prepare(plan, preserve) ==
  LET kept == IF preserve THEN ReusableNodes(NodesOf(plan), Active) \cap DOMAIN active.owned ELSE {}
      slots == [n \in DOMAIN NodesOf(plan) |->
                  IF n \in kept THEN active.owned[n] ELSE FreeSlot(n)]
      created == {<<n, slots[n]>> : n \in DOMAIN NodesOf(plan) \ kept}
  IN /\ prepared = NoScheduler
     /\ prepared' = [plan |-> plan, owned |-> slots, cache |-> <<>>, borrowed |-> kept]
     /\ open' = open \cup created
     /\ fed' = [r \in Runtimes |-> IF r \in created THEN {} ELSE fed[r]]
     /\ tick' = NoTick
     /\ UNCHANGED <<active, soundingSinks>>

\* Mutant of CancelPrepared: the borrowed runtimes are closed as well.
CancelAll ==
  /\ prepared # NoScheduler
  /\ open' = open \ Owned(prepared)
  /\ prepared' = NoScheduler
  /\ tick' = NoTick
  /\ UNCHANGED <<active, fed, soundingSinks>>

\* PreparedEngineActivation.close, also when a factory raised: only what the
\* candidate made itself is closed.
CancelPrepared ==
  /\ prepared # NoScheduler
  /\ open' = open \ {r \in Owned(prepared) : r[1] \notin prepared.borrowed}
  /\ prepared' = NoScheduler
  /\ tick' = NoTick
  /\ UNCHANGED <<active, fed, soundingSinks>>

Closing(runtimes) ==
  /\ open' = open \ runtimes
  /\ fed' = [r \in Runtimes |-> IF r \in runtimes THEN {} ELSE fed[r]]
  /\ soundingSinks' = soundingSinks \ runtimes

\* claim_borrowed_runtimes, then the previous scheduler is closed.
CommitPrepared ==
  /\ prepared # NoScheduler
  /\ \A n \in prepared.borrowed :
       n \in DOMAIN active.owned /\ active.owned[n] = prepared.owned[n]
  /\ active' = [prepared EXCEPT !.borrowed = {}]
  /\ prepared' = NoScheduler
  /\ Closing({r \in Owned(active) : r[1] \notin prepared.borrowed})
  /\ tick' = NoTick

\* EngineFacade.stop and close.  The body prepares, and gives the candidate
\* up, before it stops.
StopScheduler ==
  /\ active # NoScheduler /\ prepared = NoScheduler
  /\ active' = NoScheduler
  /\ Closing(Owned(active))
  /\ tick' = NoTick
  /\ UNCHANGED prepared

-----------------------------------------------------------------------------
(* execute_tick.                                                            *)

\* Mutant of NodeOutcome: the first failure ends the tick.
EndedByFailure(n, node, b, failing) ==
  IF ~node.demanded \/ (node.outputs /\ n \in DOMAIN b.has) \/ b.failed # {}
    THEN [b EXCEPT !.has = (n :> FALSE) @@ @]
  ELSE [has |-> (n :> (n \notin failing)) @@ b.has, ran |-> b.ran \cup {n},
        failed |-> b.failed \cup ({n} \cap failing)]

\* One node: skipped when it is not demanded or its outputs are known, NoData
\* when an input is missing and it does not handle that, else processed.
NodeOutcome(n, node, b, failing) ==
  IF ~node.demanded \/ (node.outputs /\ n \in DOMAIN b.has) THEN b
  ELSE IF ~node.noData /\ \E m \in node.inputs : ~b.has[m]
    THEN [b EXCEPT !.has = (n :> FALSE) @@ @]
  ELSE [has |-> (n :> (n \notin failing /\ node.kind # "SOURCE")) @@ b.has,
        ran |-> b.ran \cup {n},
        failed |-> b.failed \cup ({n} \cap failing)]

\* The nodes in order: who has a value, who ran, who failed.
Executed(nodes, order, cache, source, failing) ==
  LET start == [has |-> cache @@ (source :> TRUE), ran |-> {}, failed |-> {}]
      after[i \in 0 .. Len(order)] ==
        IF i = 0 THEN start
        ELSE CHOOSE r \in {NodeOutcome(order[i], nodes[order[i]], b, failing)
                            : b \in {after[i - 1]}} : TRUE
  IN after[Len(order)]

\* The bound on failures: no node or one has its connected parameters refused,
\* raises in process, or returns outputs that break its contract.
Failing(nodes) == {{}} \cup {{n} : n \in DOMAIN nodes}

\* A frame of one source.  A sink that runs without data asks for a panic; one
\* that runs with data may hold notes or not.
Tick(source, failing) ==
  \E nodes \in {Active} :
  \E r \in {Executed(nodes, CompiledPlans[active.plan].order, active.cache, source, failing)} :
    LET ran == {x \in Owned(active) : x[1] \in r.ran}
        with == {x \in ran : \A m \in nodes[x[1]].inputs : r.has[m]}
        sinks == {x \in ran : nodes[x[1]].kind = "SINK"}
    IN /\ tick' = [source |-> source, ran |-> r.ran, failed |-> r.failed]
       /\ active' = [active EXCEPT !.cache =
            [n \in {m \in DOMAIN r.has : nodes[m].static} |-> r.has[n]]]
       /\ fed' = [x \in Runtimes |->
                    IF x \in with /\ nodes[x[1]].kind \notin {"SOURCE", "STATELESS"}
                      THEN fed[x] \cup {active.plan} ELSE fed[x]]
       /\ \E loud \in {{}, sinks \cap with} : soundingSinks' = (soundingSinks \ sinks) \cup loud
       /\ UNCHANGED <<prepared, open>>

\* reset_source: the runtimes of the clock that keep state.
ResetRuntimes(source) ==
  LET hit == {<<n, active.owned[n]>> :
                n \in {m \in DOMAIN Active :
                         Active[m].clock = source /\ Active[m].kind # "STATELESS"}}
  IN /\ fed' = [r \in Runtimes |-> IF r \in hit THEN {} ELSE fed[r]]
     /\ soundingSinks' = soundingSinks \ hit
     /\ tick' = NoTick
     /\ UNCHANGED <<active, prepared, open>>

Panic ==
  /\ soundingSinks # {}
  /\ soundingSinks' = soundingSinks \ Owned(active)
  /\ tick' = NoTick
  /\ UNCHANGED <<active, prepared, open, fed>>

-----------------------------------------------------------------------------

SchedulerInit ==
  /\ active = NoScheduler /\ prepared = NoScheduler /\ open = {} /\ soundingSinks = {}
  /\ fed = [r \in Runtimes |-> {}]
  /\ tick = NoTick

SchedulerNext ==
  \/ \E p \in DOMAIN CompiledPlans, preserve \in BOOLEAN : Prepare(p, preserve)
  \/ CancelPrepared \/ CommitPrepared \/ StopScheduler \/ Panic
  \/ \E s \in SourcesOf(Active), failing \in Failing(Active) : Tick(s, failing)
  \/ \E s \in SourcesOf(Active) : ResetRuntimes(s)

SchedulerSpec == SchedulerInit /\ [][SchedulerNext]_schedulerVars

-----------------------------------------------------------------------------
(* Properties.                                                              *)

\* Runtimes move between the active and the prepared scheduler without being
\* closed under one that uses them, closed twice or forgotten open: what is
\* open is exactly what the two own, through commits, refusals and stops.
OpenIsOwned == open = Owned(active) \cup Owned(prepared)

\* A runtime that is kept across plans holds nothing of another source, of
\* another configuration of its source or of another input.
StateIsOfOneOrigin ==
  \A n \in DOMAIN active.owned : \A i \in fed[<<n, active.owned[n]>>] :
    OriginOf(NodesOf(i), n) = OriginOf(Active, n)

\* Every runtime has one owner, or two while it is borrowed, and one history.
RuntimesAreOwned == OpenIsOwned /\ StateIsOfOneOrigin

\* What a node depends on, through the bindings.
Needs(nodes, n) ==
  LET up(k, s) == s \cup UNION {nodes[m].inputs : m \in s}
  IN FoldSet(up, {n}, DOMAIN nodes) \ {n}

Lost(m) == m \in tick.failed \/ (m \in DOMAIN active.cache /\ ~active.cache[m])

\* A failure of one node keeps from running only what depends on it: every
\* other demanded node on the clock of the frame still runs.
FailureStaysDownstream ==
  \A n \in {m \in DOMAIN Active \ {tick.source} :
             tick.source # 0 /\ Active[m].demanded /\ Active[m].clock = tick.source} :
    (\A m \in Needs(Active, n) : ~Lost(m)) => n \in tick.ran

\* docs/architecture/master.md: "Multiple independent source components may run
\* in one graph when they do not converge."  A frame of one source leaves alone
\* what the sinks on the clock of another sound.
SourcesAreIndependent ==
  [][\A r \in soundingSinks :
       tick' # tick /\ tick'.source # 0 /\ Active[r[1]].clock # tick'.source
         => r \in soundingSinks']_schedulerVars
=============================================================================
