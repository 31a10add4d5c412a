------------------------------ MODULE Compiler ------------------------------
(***************************************************************************)
(* GraphCompiler (graph/compiler.py): validation of a graph snapshot, type *)
(* inference, clocks, demand, the plan of the valid part, and whether a    *)
(* connection may be made.                                                 *)
(*                                                                         *)
(* A graph is [nodes |-> identifier -> [type, version, literals],          *)
(*             conns |-> identifier -> [src, out, dst, in]].               *)
(* Identifiers are numbers, in the order of str(uuid).  An issue is its    *)
(* location and code (_issue_identity): 0 and NoPort where it has none.    *)
(***************************************************************************)
EXTENDS Nodes, SequencesExt, TLC

\* NodeRegistry: type -> definition.
CONSTANT Registry

NoPort == <<"", 0>>

\* A type that inference did not settle (None).
Unsettled == "unsettled"

Error(code, node, port, conn) == [code |-> code, node |-> node, port |-> port, conn |-> conn]

Node(type, literals) ==
  [type |-> type, version |-> Registry[type].version, literals |-> literals]

Connection(src, out, dst, in) == [src |-> src, out |-> out, dst |-> dst, in |-> in]

Def(g, n) == Registry[g.nodes[n].type]

-----------------------------------------------------------------------------
(* Validation, one operator per pass of _analyze.                           *)

\* _resolve_definitions: the nodes whose type is registered, and the errors.
Known(g) == {n \in DOMAIN g.nodes : g.nodes[n].type \in DOMAIN Registry}

DefinitionErrors(g) ==
  {Error("unknown_node_type", n, NoPort, 0) : n \in DOMAIN g.nodes \ Known(g)}
    \cup {Error("node_version_mismatch", n, NoPort, 0) :
            n \in {m \in Known(g) : g.nodes[m].version # Def(g, m).version}}
    \cup {Error("invalid_parameter", n, NoPort, 0) :
            n \in {m \in Known(g) : ParameterErrors(Def(g, m), g.nodes[m].literals)}}

NodeValues(g, n) == ParameterValues(Def(g, n), g.nodes[n].literals)

TakesInput(d, port) ==
  HasInput(d, port) \/ (port[2] = 0 /\ port[1] \in Sockets(d))

\* _validate_connections: the connections later passes look at.
ValidConnections(g) ==
  {c \in DOMAIN g.conns :
     LET k == g.conns[c]
     IN /\ {k.src, k.dst} \subseteq Known(g)
        /\ HasOutput(Def(g, k.src), k.out)
        /\ TakesInput(Def(g, k.dst), k.in)}

ConnectionErrors(g) ==
  UNION {LET k == g.conns[c]
         IN CASE k.src \notin DOMAIN g.nodes ->
                   {Error("missing_source_node", 0, NoPort, c)}
              [] k.src \in DOMAIN g.nodes /\ k.dst \notin DOMAIN g.nodes ->
                   {Error("missing_destination_node", 0, NoPort, c)}
              [] {k.src, k.dst} \subseteq Known(g) /\ ~HasOutput(Def(g, k.src), k.out) ->
                   {Error("unknown_output_port", k.src, k.out, c)}
              [] {k.src, k.dst} \subseteq Known(g) /\ HasOutput(Def(g, k.src), k.out)
                   /\ ~TakesInput(Def(g, k.dst), k.in) ->
                   {Error("unknown_input_port", k.dst, k.in, c)}
              [] OTHER -> {} : c \in DOMAIN g.conns}

Into(g, valid, n) == {c \in valid : g.conns[c].dst = n}
ConnectedInputs(g, valid, n) == {g.conns[c].in : c \in Into(g, valid, n)}

\* _validate_cardinality.
CardinalityErrors(g, valid) ==
  {Error("input_cardinality", g.conns[c].dst, g.conns[c].in, 0) :
     c \in {a \in valid : \E b \in valid \ {a} :
              g.conns[a].dst = g.conns[b].dst /\ g.conns[a].in = g.conns[b].in}}

-----------------------------------------------------------------------------
(* _resolve_types.                                                          *)

\* Closure of a set of keys under the pairs of an (undirected) relation.
Closure(keys, pairs) ==
  LET grow(k, s) == s \cup {p[2] : p \in {q \in pairs : q[1] \in s}}
                      \cup {p[1] : p \in {q \in pairs : q[2] \in s}}
  IN FoldSet(grow, keys, 1 .. Cardinality(pairs))

\* The sockets of a node and what they are typed with:
\* <<node, port, is_output>> -> expression.
SocketKeys(n, d, connected) ==
  {<<n, p, FALSE>> : p \in InputPorts(d, connected) \cup NextSocket(d, connected)}
    \cup {<<n, <<p, 0>>, FALSE>> : p \in Sockets(d)}
    \cup {<<n, <<p, 0>>, TRUE>> : p \in DOMAIN d.outputs}

SocketExpr(d, port, isOutput) ==
  IF isOutput THEN d.outputs[port[1]]
  ELSE IF HasInput(d, port) THEN InputType(d, port)
  ELSE Type(ConnectedPortType(d.parameters[port[1]]))

Expressions(g, valid) ==
  [k \in UNION {UNION {SocketKeys(n, d, connected) : d \in {Def(g, n)},
                          connected \in {ConnectedInputs(g, valid, n)}} : n \in Known(g)}
     |-> SocketExpr(Def(g, k[1]), k[2], k[3])]

\* _base_type and _array_type.
BaseType(type, expression) ==
  IF ~expression.array THEN type
  ELSE CASE type = "SCALAR_ARRAY" -> "FLOAT"
         [] type = "IMAGE_ARRAY" -> "IMAGE"
         [] type = "CHANNEL_ARRAY" -> "CHANNEL"
         [] OTHER -> type

ArrayType(type) ==
  CASE type \in {"FLOAT", "INT"} -> "SCALAR_ARRAY"
    [] type = "IMAGE" -> "IMAGE_ARRAY"
    [] type = "CHANNEL" -> "CHANNEL_ARRAY"

SourceExpr(g, exprs, c) == exprs[<<g.conns[c].src, g.conns[c].out, TRUE>>]
TargetExpr(g, exprs, c) == exprs[<<g.conns[c].dst, g.conns[c].in, FALSE>>]

\* _TypeGroups.union: the variables, <<node, name>>, joined to one by the
\* connections between generic ports.
Joined(g, valid, exprs, variable) ==
  Closure({variable},
    {<<<<g.conns[c].src, SourceExpr(g, exprs, c).name>>,
       <<g.conns[c].dst, TargetExpr(g, exprs, c).name>>>> :
       c \in {a \in valid : IsVariable(SourceExpr(g, exprs, a))
                              /\ IsVariable(TargetExpr(g, exprs, a))}})

\* What the group of some variables may be, defaults to and is constrained to.
GroupOf(g, valid, exprs, members) ==
  [allowed |-> {t \in PortTypes : \A k \in DOMAIN exprs :
                  <<k[1], exprs[k].name>> \in members => t \in exprs[k].allowed},
   defaults |-> {exprs[k].default : k \in {q \in DOMAIN exprs :
                   <<q[1], exprs[q].name>> \in members}} \ {""},
   candidates |->
     {BaseType(TargetExpr(g, exprs, c).default, SourceExpr(g, exprs, c)) :
        c \in {a \in valid : /\ <<g.conns[a].src, SourceExpr(g, exprs, a).name>> \in members
                             /\ ~IsVariable(TargetExpr(g, exprs, a))}}
     \cup {BaseType(SourceExpr(g, exprs, c).default, TargetExpr(g, exprs, c)) :
        c \in {a \in valid : /\ <<g.conns[a].dst, TargetExpr(g, exprs, a).name>> \in members
                             /\ ~IsVariable(SourceExpr(g, exprs, a))}}]

TypeGroup(g, valid, exprs, k) ==
  GroupOf(g, valid, exprs, Joined(g, valid, exprs, <<k[1], exprs[k].name>>))

\* _TypeGroups.resolve and .incompatible_candidates.
ResolveGroup(group) ==
  LET settled == IF group.candidates # {} THEN group.candidates ELSE group.defaults
  IN CASE ~(settled \subseteq group.allowed) -> Unsettled
       [] settled \subseteq group.allowed /\ Cardinality(settled) = 1 ->
            CHOOSE t \in settled : TRUE
       [] group.candidates = {"INT", "FLOAT"} /\ settled \subseteq group.allowed -> "FLOAT"
       [] OTHER -> Unsettled

Conflicting(group) ==
  \/ ~(group.candidates \subseteq group.allowed)
  \/ Cardinality(group.candidates) > 1 /\ group.candidates # {"INT", "FLOAT"}

\* Every socket's type.
ArrayOf(type, array) == IF array /\ type # Unsettled THEN ArrayType(type) ELSE type

ResolvedTypes(g, valid, exprs) ==
  [k \in DOMAIN exprs |->
     IF ~IsVariable(exprs[k]) THEN exprs[k].default
     ELSE ArrayOf(ResolveGroup(TypeGroup(g, valid, exprs, k)), exprs[k].array)]

TypesCompatible(source, destination) ==
  \/ source = destination
  \/ source = "INT" /\ destination = "FLOAT"
  \/ destination = "SCALAR_ARRAY" /\ source \in {"FLOAT", "INT"}
  \/ destination = "IMAGE_ARRAY" /\ source = "IMAGE"
  \/ destination = "CHANNEL_ARRAY" /\ source = "CHANNEL"

SourceType(g, types, c) == types[<<g.conns[c].src, g.conns[c].out, TRUE>>]
TargetType(g, types, c) == types[<<g.conns[c].dst, g.conns[c].in, FALSE>>]

\* The next free socket of a family need not be settled.
IsNextSocket(g, valid, k) ==
  ~k[3] /\ {k[2]} = NextSocket(Def(g, k[1]), ConnectedInputs(g, valid, k[1]))

TypeErrors(g, valid, exprs, types) ==
  {Error(IF Conflicting(TypeGroup(g, valid, exprs, k))
           THEN "generic_type_conflict" ELSE "unresolved_generic_type", k[1], k[2], 0) :
     k \in {q \in DOMAIN types : types[q] = Unsettled /\ ~IsNextSocket(g, valid, q)}}
  \cup {Error("incompatible_port_types", g.conns[c].dst, g.conns[c].in, c) :
     c \in {a \in valid :
              /\ Unsettled \notin {SourceType(g, types, a), TargetType(g, types, a)}
              /\ ~TypesCompatible(SourceType(g, types, a), TargetType(g, types, a))}}

-----------------------------------------------------------------------------
(* Order, required inputs, clocks and demand.                               *)

Predecessors(g, valid, n) == {g.conns[c].src : c \in Into(g, valid, n)}

\* _topological_order: the smallest identifier that is ready, each time.
TopologicalOrder(g, valid) ==
  LET ready(done) == {n \in DOMAIN g.nodes \ done : Predecessors(g, valid, n) \subseteq done}
      next(k, order) ==
        LET waiting == ready(ToSet(order))
        IN IF waiting = {} THEN order ELSE Append(order, Min(waiting))
  IN FoldSet(next, <<>>, 1 .. Cardinality(DOMAIN g.nodes))

CycleErrors(g, order) ==
  {Error("graph_cycle", n, NoPort, 0) : n \in DOMAIN g.nodes \ ToSet(order)}

\* _validate_required_inputs.
RequiredErrors(g, valid) ==
  UNION {LET d == Def(g, n)
             connected == ConnectedInputs(g, valid, n)
         IN {Error("required_input_missing", n, p, 0) :
               p \in RequiredInputs(d, NodeValues(g, n)) \ connected}
            \cup (IF Cardinality({p \in connected : InFamily(d, p)}) < d.family.minimum
                    THEN {Error("required_input_missing", n, <<d.family.prefix, 0>>, 0)}
                    ELSE {}) : n \in Known(g)}

\* _analyze_clocks: the source a node runs on; 0 for none or several.
Clocks(g, valid, order) ==
  LET incoming(n, clocks) ==
        {clocks[p] : p \in Predecessors(g, valid, n) \cap DOMAIN clocks} \ {0}
      clock(n, clocks) ==
        IF Def(g, n).kind = "SOURCE" THEN n
        ELSE IF Cardinality(incoming(n, clocks)) = 1
               THEN CHOOSE m \in incoming(n, clocks) : TRUE
               ELSE 0
      step(clocks, n) == IF n \in Known(g) THEN clocks @@ (n :> clock(n, clocks)) ELSE clocks
  IN FoldLeft(step, <<>>, order)

ClockErrors(g, valid, clocks) ==
  {Error("clock_mismatch", n, NoPort, 0) :
     n \in {m \in DOMAIN clocks :
              /\ Def(g, m).kind # "SOURCE"
              /\ Cardinality({clocks[p] : p \in Predecessors(g, valid, m) \cap DOMAIN clocks}
                             \ {0}) > 1}}

\* _resolve_demand_roots; NoRequest when the caller names none.
NoRequest == {-1}

Roots(g, valid, requested) ==
  LET explicit == {n \in Known(g) : Def(g, n).kind \in {"SINK", "VISUALIZER"}}
  IN IF requested # NoRequest THEN requested \cap DOMAIN g.nodes
     ELSE IF explicit # {} THEN explicit
     ELSE DOMAIN g.nodes \ {g.conns[c].src : c \in valid}

RootErrors(g, requested) ==
  IF requested = NoRequest THEN {}
  ELSE {Error("unknown_demand_root", n, NoPort, 0) : n \in requested \ DOMAIN g.nodes}

\* _upstream_reachable.
Upstream(g, valid, roots) ==
  LET grow(k, s) == s \cup UNION {Predecessors(g, valid, n) : n \in s}
  IN FoldSet(grow, roots, 1 .. Cardinality(DOMAIN g.nodes))

\* _analyze: its passes, each on the results of the ones before.
AnalysisOf(g, requested, valid, exprs, types, order, clocks, roots) ==
  [graph |-> g, valid |-> valid, types |-> types, order |-> order, clocks |-> clocks,
   roots |-> roots, demanded |-> Upstream(g, valid, roots),
   issues |-> DefinitionErrors(g) \cup ConnectionErrors(g)
                \cup CardinalityErrors(g, valid) \cup TypeErrors(g, valid, exprs, types)
                \cup CycleErrors(g, order) \cup RequiredErrors(g, valid)
                \cup ClockErrors(g, valid, clocks) \cup RootErrors(g, requested)]

\* (Bound variables in place of LET: each pass is evaluated once.)
Analyze(snapshot, requested) ==
  CHOOSE a \in
    UNION {UNION {{AnalysisOf(g, requested, valid, exprs, types, order, clocks, roots) :
        types \in {ResolvedTypes(g, valid, exprs)},
        clocks \in {Clocks(g, valid, order)}, roots \in {Roots(g, valid, requested)}} :
        exprs \in {Expressions(g, valid)}, order \in {TopologicalOrder(g, valid)}} :
        g \in {snapshot}, valid \in {ValidConnections(snapshot)}} : TRUE

Validate(g) == Analyze(g, NoRequest).issues

-----------------------------------------------------------------------------
(* The plan.                                                                *)

\* _compile_node.
CompiledNode(a, n) ==
  LET g == a.graph
      d == Def(g, n)
      incoming == Into(g, a.valid, n)
      bound(c) == g.conns[c].in
      via(p) == CHOOSE c \in incoming : bound(c) = p
  IN [type |-> g.nodes[n].type,
      bindings |-> [p \in {bound(c) : c \in incoming} |->
         [src |-> g.conns[via(p)].src, out |-> g.conns[via(p)].out,
          toFloat |-> /\ SourceType(g, a.types, via(p)) = "INT"
                      /\ TargetType(g, a.types, via(p)) = "FLOAT"]],
      inputs |-> [p \in InputPorts(d, ConnectedInputs(g, a.valid, n))
                          \cup {<<q, 0>> : q \in Sockets(d)} |-> a.types[<<n, p, FALSE>>]],
      outputs |-> [p \in DOMAIN d.outputs |-> a.types[<<n, <<p, 0>>, TRUE>>]],
      values |-> NodeValues(g, n),
      clock |-> a.clocks[n],
      static |-> a.clocks[n] = 0 /\ d.cache # "NEVER",
      demanded |-> n \in a.demanded]

NoPlan == [order |-> <<>>, nodes |-> <<>>, roots |-> {0}]

\* _build_plan.
BuildPlan(a) ==
  [order |-> a.order, nodes |-> [n \in ToSet(a.order) |-> CompiledNode(a, n)],
   roots |-> a.roots]

\* _reduced_snapshot.
Reduced(a) ==
  LET g == a.graph
      excluded == {i.node : i \in a.issues}
                   \cup {k[1] : k \in {q \in DOMAIN a.types : a.types[q] = Unsettled}}
      kept == DOMAIN g.nodes \ excluded
      conns == {c \in DOMAIN g.conns :
                  /\ c \notin {i.conn : i \in a.issues}
                  /\ g.conns[c].src \notin excluded /\ g.conns[c].dst \notin excluded}
  IN [nodes |-> Restrict(g.nodes, kept), conns |-> Restrict(g.conns, conns)]

\* _surviving_roots.
Surviving(g, requested) ==
  IF requested = NoRequest THEN requested ELSE requested \cap DOMAIN g.nodes

\* compile: the plan of what is left when the invalid parts are excluded,
\* pass after pass.
RECURSIVE PlanOf(_, _)
PlanOf(a, requested) ==
  IF a.issues = {} THEN BuildPlan(a)
  ELSE LET reduced == Reduced(a)
           surviving == Surviving(reduced, requested)
       IN IF reduced # a.graph THEN PlanOf(Analyze(reduced, surviving), requested)
          ELSE LET final == Analyze(reduced, surviving)
               IN IF surviving # requested /\ final.issues = {} THEN BuildPlan(final)
                  ELSE NoPlan

Compile(g, requested) == PlanOf(Analyze(g, requested), requested)

-----------------------------------------------------------------------------
(* CompiledNode.state_retention_key: equal keys let a runtime keep its      *)
(* state across plans.                                                      *)

RetentionKey(node) ==
  LET d == Registry[node.type]
  IN [type |-> node.type, clock |-> node.clock, demanded |-> node.demanded,
      bindings |-> node.bindings,
      parameters |-> Restrict(node.values,
                       {p \in DOMAIN d.parameters : d.parameters[p].mode # "LIVE"})]
=============================================================================
