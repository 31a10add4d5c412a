---------------------------- MODULE RandomGraph ----------------------------
(***************************************************************************)
(* graph/random_graph.py: the graphs a random generation, and a random     *)
(* replacement of selected nodes, may come out with.  A draw of the        *)
(* generator is any member of the set it is drawn from; literals stay the  *)
(* ones of the definitions unless given.                                   *)
(***************************************************************************)
EXTENDS Document

\* The first of two ways that leads anywhere, and the valid ones of some.
OrElse(a, b) == IF a # {} THEN a ELSE b

Valid(docs) == {d \in docs : IsValid(GraphOf(d))}

-----------------------------------------------------------------------------
(* generate_random_graph.                                                   *)

\* _IMAGE_TRANSFORMS and _CHANNEL_TRANSFORMS, with their port.
ImageTransforms ==
  {<<t, "image">> : t \in {"resize", "crop", "flip", "rotate", "clamp", "add_scalar",
      "multiply_scalar", "gaussian_blur", "sharpen", "posterize", "high_pass", "low_pass",
      "posterize_time"}}
    \cup {<<t, "value">> : t \in {"normalize", "curve", "modulo_accumulator"}}

ChannelTransforms ==
  {<<t, "image">> : t \in {"clamp", "add_scalar", "multiply_scalar", "gaussian_blur"}}
    \cup {<<"threshold", "channel">>}
    \cup {<<t, "value">> : t \in {"normalize", "curve", "modulo_accumulator"}}

\* A graph under construction, with the output the next node is fed from.
Feed(g, out) == [g |-> g, last |-> Cardinality(DOMAIN g.nodes), out |-> out]

Grow(g, type, incoming) ==
  LET id == Cardinality(DOMAIN g.nodes) + 1
      sorted == SetToSortSeq(incoming, LAMBDA a, b : a[1] < b[1])
      first == Cardinality(DOMAIN g.conns)
      conn(i) == Connection(sorted[i][2], <<sorted[i][3], 0>>, id, sorted[i][4])
  IN [nodes |-> g.nodes @@ (id :> Node(type, <<>>)),
      conns |-> g.conns @@ [k \in first + 1 .. first + Len(sorted) |-> conn(k - first)]]

Attach(f, type, in, out) ==
  Feed(Grow(f.g, type, {<<1, f.last, f.out, in>>}), out)

AttachTransform(f, t) == Attach(f, t[1], <<t[2], 0>>, t[2])

\* The optional mirrored difference of the image with itself.
AttachDifference(f) ==
  LET mirrored == Attach(f, "flip", <<"image", 0>>, "image")
  IN Feed(Grow(mirrored.g, "difference",
               {<<1, f.last, f.out, <<"a", 0>>>>, <<2, mirrored.last, "image", <<"b", 0>>>>}),
          "image")

AttachStatistics(f) ==
  Attach(Attach(f, "buffer", <<"value", 0>>, "values"), "statistics", <<"values", 1>>, "value")

\* The draws: source, image chain, difference, channel chain, statistics,
\* musical node and sink.
GenerateRandomGraph(d) ==
  LET empty == [nodes |-> <<>>, conns |-> <<>>]
      source == Feed(Grow(empty, d.source, {}), "image")
      image == FoldLeft(AttachTransform, source, d.images)
      differed == IF d.difference THEN AttachDifference(image) ELSE image
      luminance == Attach(differed, "to_luminance", <<"image", 0>>, "channel")
      channel == FoldLeft(AttachTransform, luminance, d.channels)
      reduced == IF d.statistics THEN AttachStatistics(channel) ELSE channel
      musical == Attach(reduced, d.musical,
                   <<IF d.musical = "channel_to_pitch" THEN "value" ELSE "edges", 0>>, "midi")
  IN Attach(musical, d.sink, <<"midi", 0>>, "midi").g

-----------------------------------------------------------------------------
(* randomize_graph_nodes on a document.                                     *)

\* _randomize_graph_parameters: other literals without an error that keep a
\* valid graph valid ("drawn" stands for the draws); none where 128 attempts
\* find none.
RandomizedParameters(doc, targets, drawn) ==
  LET choices(n) ==
        {[doc.nodes[n] EXCEPT !.literals = l] :
           l \in {x \in drawn : ~ParameterErrors(Def(doc, n), x)} \cup {doc.nodes[n].literals}}
  IN {nodes \in [targets -> UNION {choices(n) : n \in targets}] :
        /\ \A n \in targets : nodes[n] \in choices(n)
        /\ nodes # Restrict(doc.nodes, targets)
        /\ IsValid(GraphOf(doc)) => IsValid(GraphOf([doc EXCEPT !.nodes = nodes @@ @]))}

\* _replacement_definitions within the given types.
ReplacementDefinitions(type, types) ==
  LET d == Registry[type]
  IN IF d.kind = "SOURCE" \/ HasFamily(d) THEN {type}
     ELSE {t \in types \cup {type} :
             /\ Registry[t].kind = d.kind /\ ~HasFamily(Registry[t])
             /\ DOMAIN Registry[t].inputs = DOMAIN d.inputs
             /\ DOMAIN Registry[t].outputs = DOMAIN d.outputs}

\* _replace_node_set: each target by a node of a like type under a new
\* identifier, its connections under new ones.  Of its 192 draws the first
\* valid one; the fallback keeps the types, which is one of these.
ReplaceNodeSet(doc, targets, types, firstNode, firstConn) ==
  LET nth(s, x) == Cardinality({y \in s : y < x})
      id(n) == IF n \in targets THEN firstNode + nth(targets, n) ELSE n
      touched == DOMAIN Incident(doc, targets)
      renewed(c) == IF c \in touched THEN firstConn + nth(touched, c) ELSE c
      of(m) == CHOOSE n \in DOMAIN doc.nodes : id(n) = m
      from(k) == CHOOSE c \in DOMAIN doc.conns : renewed(c) = k
      conns == [k \in {renewed(c) : c \in DOMAIN doc.conns} |->
                  IF from(k) = k THEN doc.conns[k]
                  ELSE ConnectionModel(id(doc.conns[from(k)].src), doc.conns[from(k)].out,
                                       id(doc.conns[from(k)].dst), doc.conns[from(k)].in)]
      node(n, t) == IF n \notin targets THEN doc.nodes[n]
                    ELSE [doc.nodes[n] EXCEPT !.type = t, !.version = Registry[t].version,
                             !.literals = IF t = doc.nodes[n].type THEN @ ELSE <<>>]
      draws == {f \in [targets -> types \cup {doc.nodes[n].type : n \in targets}] :
                  \A n \in targets : f[n] \in ReplacementDefinitions(doc.nodes[n].type, types)}
      drawn(f) == [doc EXCEPT
                     !.nodes = [m \in {id(n) : n \in DOMAIN doc.nodes} |->
                                  node(of(m), IF of(m) \in targets THEN f[of(m)] ELSE "")],
                     !.conns = conns]
  IN {[doc |-> x, ids |-> {id(n) : n \in targets}] : x \in Valid({drawn(f) : f \in draws})}

\* _insert_random_node: a unary node on a connection of the replaced ones;
\* _add_random_standalone_node where no connection takes one.
InsertRandomNode(doc, ids, types, firstNode, firstConn) ==
  LET d(t) == Registry[t]
      only(s) == CHOOSE p \in s : TRUE
      unary == {t \in types : /\ d(t).kind # "SOURCE" /\ ~HasFamily(d(t))
                              /\ Cardinality(DOMAIN d(t).inputs) = 1
                              /\ Cardinality(DOMAIN d(t).outputs) = 1
                              /\ RequiredInputs(d(t), Defaults(d(t))) =
                                   {<<p, 0>> : p \in DOMAIN d(t).inputs}}
      insert(c, t) ==
        LET k == doc.conns[c]
        IN [doc EXCEPT
              !.nodes = @ @@ (firstNode :> NodeModel(t, <<>>, 0)),
              !.conns = Restrict(@, DOMAIN @ \ {c})
                 @@ (firstConn :> ConnectionModel(k.src, k.out, firstNode,
                                                  <<only(DOMAIN d(t).inputs), 0>>))
                 @@ (firstConn + 1 :> ConnectionModel(firstNode,
                                        <<only(DOMAIN d(t).outputs), 0>>, k.dst, k.in))]
      alone == {t \in types : /\ d(t).kind # "SOURCE" /\ d(t).outputs # <<>>
                              /\ RequiredInputs(d(t), Defaults(d(t))) = {}}
      add(t) == [doc EXCEPT !.nodes = @ @@ (firstNode :> NodeModel(t, <<>>, 0))]
  IN {[doc |-> x, ids |-> ids \cup {firstNode}] :
        x \in OrElse(Valid({insert(c, t) : c \in DOMAIN Incident(doc, ids), t \in unary}),
                     Valid({add(t) : t \in alone}))}

\* _remove_random_node: a node with both ends free or both used goes, with
\* its connections or bypassed.
RemoveRandomNode(doc, ids, firstConn) ==
  LET into(n) == {c \in DOMAIN doc.conns : doc.conns[c].dst = n}
      outOf(n) == {c \in DOMAIN doc.conns : doc.conns[c].src = n}
      nth(s, x) == Cardinality({y \in s : y < x})
      without(n) == [doc EXCEPT !.nodes = Restrict(@, DOMAIN @ \ {n}),
                                !.conns = Restrict(@, DOMAIN @ \ (into(n) \cup outOf(n)))]
      bypassed(n) ==
        LET source == doc.conns[CHOOSE c \in into(n) : TRUE]
            bypass(k) == doc.conns[CHOOSE c \in outOf(n) : firstConn + nth(outOf(n), c) = k]
        IN [without(n) EXCEPT !.conns = @ @@
              [k \in firstConn .. firstConn + Cardinality(outOf(n)) - 1 |->
                 ConnectionModel(source.src, source.out, bypass(k).dst, bypass(k).in)]]
      outcomes(n) ==
        IF (into(n) = {}) # (outOf(n) = {}) THEN {}
        ELSE OrElse(Valid({without(n)}),
                    Valid(IF Cardinality(into(n)) = 1 /\ outOf(n) # {}
                            THEN {bypassed(n)} ELSE {}))
  IN IF Cardinality(ids) <= 1 THEN {}
     ELSE UNION {{[doc |-> x, ids |-> ids \ {n}] : x \in outcomes(n)} : n \in ids}

\* randomize_graph_nodes with one mutation of the one to three it draws;
\* where no mutation is possible, the replacement alone.
RandomizeGraphNodes(doc, targets, types, firstNode, firstConn) ==
  LET more(r) ==
        LET node == firstNode + Cardinality(targets)
            conn == firstConn + Cardinality(DOMAIN Incident(doc, targets))
        IN OrElse(InsertRandomNode(r.doc, r.ids, types, node, conn), {r})
             \cup OrElse(RemoveRandomNode(r.doc, r.ids, conn), {r})
  IN UNION {more(r) : r \in ReplaceNodeSet(doc, targets, types, firstNode, firstConn)}
=============================================================================
