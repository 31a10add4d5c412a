------------------------------- MODULE Nodes -------------------------------
(***************************************************************************)
(* The node framework (nodes/base.py, nodes/registry.py,                   *)
(* nodes/migrations.py): type expressions of ports, parameter              *)
(* specifications, the contract of a node definition and the rules its     *)
(* constructors enforce.                                                   *)
(*                                                                         *)
(* A value is [type |-> port type, v |-> integer]: an INT is itself, a     *)
(* FLOAT is in thousandths (a positive bound below that is 1), a BOOL is 0 *)
(* or 1, a STRING is the index of the choice it names.  NotFinite stands   *)
(* for the infinities and NaN.  A port is <<id, index>>: index 0 for a     *)
(* declared port or parameter, n for the n-th socket of a variadic family. *)
(***************************************************************************)
EXTENDS Integers, Sequences, FiniteSets, FiniteSetsExt, Functions

\* An absent bound of a parameter.
Inf == 1000000000

NotFinite == 2 * Inf

Value(type, v) == [type |-> type, v |-> v]

PortTypes ==
  {"FLOAT", "INT", "BOOL", "STRING", "COLOR", "MATRIX", "IMAGE", "CHANNEL",
   "MIDI_STATE", "SCALAR_ARRAY", "IMAGE_ARRAY", "CHANNEL_ARRAY"}

-----------------------------------------------------------------------------
(* Type expressions: a port type, TypeVariable, ArrayTypeVariable.  No      *)
(* allowed types means every type; a port type is the variable named "".    *)

Type(t) == [name |-> "", array |-> FALSE, allowed |-> {t}, default |-> t]

TypeVariable(name, allowed, default) ==
  [name |-> name, array |-> FALSE,
   allowed |-> IF allowed = {} THEN PortTypes ELSE allowed, default |-> default]

ArrayTypeVariable(name, allowed) ==
  [TypeVariable(name, allowed, "") EXCEPT !.array = TRUE]

IsVariable(expression) == expression.name # ""

-----------------------------------------------------------------------------
(* Parameters.                                                              *)

ParameterSpec(type, default, lo, hi, step, choices) ==
  [type |-> type, default |-> default, lo |-> lo, hi |-> hi, step |-> step,
   choices |-> choices, mode |-> "LIVE"]

AnyFloat(default) == ParameterSpec("FLOAT", default, -Inf, Inf, 0, {})
Float(default, lo, hi) == ParameterSpec("FLOAT", default, lo, hi, 0, {})
Integer(default, lo, hi) == ParameterSpec("INT", default, lo, hi, 0, {})
Stepped(default, lo, hi, step) == ParameterSpec("INT", default, lo, hi, step, {})
OneOf(default, choices) == ParameterSpec("INT", default, -Inf, Inf, 0, choices)
Flag(default) == ParameterSpec("BOOL", IF default THEN 1 ELSE 0, -Inf, Inf, 0, {})
Choice(default, n) == ParameterSpec("STRING", default, -Inf, Inf, 0, 0 .. n - 1)
Text == ParameterSpec("STRING", 0, -Inf, Inf, 0, {})
Colour == ParameterSpec("COLOR", 0, -Inf, Inf, 0, {})
Matrix == ParameterSpec("MATRIX", 0, -Inf, Inf, 0, {})
Recompile(spec) == [spec EXCEPT !.mode = "RECOMPILE"]
RestartSource(spec) == [spec EXCEPT !.mode = "RESTART_SOURCE"]

Numeric(type) == type \in {"FLOAT", "INT"}

StepOrigin(spec) == IF spec.lo = -Inf THEN 0 ELSE spec.lo

\* The literals ParameterSpec.validate finds no error in.
Validates(spec, value) ==
  /\ value.type = spec.type
  /\ spec.choices # {} => value.v \in spec.choices
  /\ Numeric(value.type) =>
       /\ value.v # NotFinite
       /\ spec.lo # -Inf => value.v >= spec.lo
       /\ spec.hi # Inf => value.v <= spec.hi
       /\ spec.step # 0 => (value.v - StepOrigin(spec)) % spec.step = 0

Clamp(x, lo, hi) == Min({Max({x, lo}), hi})

\* floor(a / b + 1/2) and the ceiling of a / b, for b > 0.
RoundHalfUp(a, b) == (2 * a + b) \div (2 * b)
Ceil(a, b) == -((-a) \div b)

Abs(x) == IF x < 0 THEN -x ELSE x

\* min(choices, key = distance); of two choices as near, the smaller.
Nearest(choices, x) ==
  CHOOSE c \in choices : \A d \in choices :
    \/ Abs(c - x) < Abs(d - x)
    \/ Abs(c - x) = Abs(d - x) /\ c <= d

OnStep(spec, x) ==
  LET origin == StepOrigin(spec)
      first == IF spec.lo = -Inf THEN -Inf ELSE Ceil(spec.lo - origin, spec.step)
      last == IF spec.hi = Inf THEN Inf ELSE (spec.hi - origin) \div spec.step
  IN origin + Clamp(RoundHalfUp(x - origin, spec.step), first, last) * spec.step

SanitizedNumber(spec, x) ==
  LET clamped == Clamp(x, spec.lo, spec.hi)
      stepped == IF spec.step = 0 THEN clamped ELSE OnStep(spec, clamped)
  IN IF spec.choices = {} THEN stepped ELSE Nearest(spec.choices, stepped)

Refused == [type |-> "refused", v |-> 0]

\* ParameterSpec.sanitize_value, Refused where it raises.
SanitizeValue(spec, value) ==
  IF value.type # spec.type \/ value.v = NotFinite THEN Refused
  ELSE LET converted == IF Numeric(spec.type)
                          THEN Value(spec.type, SanitizedNumber(spec, value.v))
                          ELSE value
       IN IF Validates(spec, converted) THEN converted ELSE Refused

\* round(x / 1000): the nearest integer, of two the even one.
RoundHalfEven(x) ==
  LET down == x \div 1000
      rest == x % 1000
  IN IF rest < 500 \/ (rest = 500 /\ down % 2 = 0) THEN down ELSE down + 1

\* ParameterSpec._check_live_scalar.
LiveScalar(spec, value) ==
  CASE spec.type = "FLOAT" /\ value.type = "INT" -> Value("FLOAT", 1000 * value.v)
    [] spec.type = "INT" /\ value.type = "FLOAT" /\ value.v # NotFinite ->
         Value("INT", RoundHalfEven(value.v))
    [] spec.type \in {"FLOAT", "INT", "BOOL"} /\ value.type = spec.type -> value
    [] OTHER -> Refused

\* ParameterSpec.connected_value: what a connected socket overrides the
\* literal with at run time.
ConnectedValue(spec, value) ==
  LET live == LiveScalar(spec, value)
  IN IF live = Refused THEN Refused ELSE SanitizeValue(spec, live)

-----------------------------------------------------------------------------
(* Node definitions.                                                        *)

Required(expression) == [expr |-> expression, required |-> TRUE]
Optional(expression) == [expr |-> expression, required |-> FALSE]

NoPorts == [x \in {} |-> Required(Type("FLOAT"))]
NoOutputs == [x \in {} |-> Type("FLOAT")]
NoParameters == [x \in {} |-> Text]
NoFamily == [prefix |-> "", expr |-> Type("FLOAT"), minimum |-> 0]
VariadicInputSpec(prefix, expression, minimum) ==
  [prefix |-> prefix, expr |-> expression, minimum |-> minimum]

\* The ordinary definition: version 1, cached, no family, no migration, and
\* no constraint between its parameters.  "ordered" holds <<p, q, strict>>:
\* the parameter_validator asks p < q (strict) or p <= q; "unary" the
\* operations of Math that leave its second operand out.
NodeDefinition(kind, inputs, outputs, parameters) ==
  [kind |-> kind, inputs |-> inputs, outputs |-> outputs, parameters |-> parameters,
   version |-> 1, cache |-> "AUTO", noData |-> FALSE, family |-> NoFamily,
   ordered |-> {}, unary |-> {}, migrations |-> {}]

\* _resolve_parameter_socket: whether a parameter takes a connection.  (The
\* catalogue's explicit "connectable" settings all agree with this default.)
ParameterSocket(d, p) ==
  /\ d.parameters[p].type \in {"FLOAT", "INT", "BOOL"}
  /\ d.parameters[p].mode = "LIVE"
  /\ d.kind \notin {"SOURCE", "VISUALIZER"}
  /\ d.cache # "STATIC"

\* The type of such a socket: a number of either kind takes a FLOAT.
ConnectedPortType(spec) == IF Numeric(spec.type) THEN "FLOAT" ELSE spec.type

Sockets(d) == {p \in DOMAIN d.parameters : ParameterSocket(d, p)}

HasFamily(d) == d.family.minimum > 0
InFamily(d, port) == HasFamily(d) /\ port[1] = d.family.prefix /\ port[2] > 0

\* NodeExecutionContract.input: the ports a definition knows.
HasInput(d, port) ==
  (port[2] = 0 /\ port[1] \in DOMAIN d.inputs) \/ InFamily(d, port)

HasOutput(d, port) == port[2] = 0 /\ port[1] \in DOMAIN d.outputs

\* NodeExecutionContract.input_ports without and with the next free socket
\* of the family.
InputPorts(d, connected) ==
  {<<p, 0>> : p \in DOMAIN d.inputs}
    \cup {<<d.family.prefix, k>> : k \in 1 .. d.family.minimum}
    \cup {port \in connected : InFamily(d, port)}

FamilyIndices(d, connected) == {port[2] : port \in {q \in connected : InFamily(d, q)}}

NextSocket(d, connected) ==
  IF ~HasFamily(d) \/ ~(1 .. d.family.minimum \subseteq FamilyIndices(d, connected)) THEN {}
  ELSE {<<d.family.prefix, Min(1 .. Cardinality(connected) + 1 \ FamilyIndices(d, connected))>>}

InputType(d, port) ==
  IF port[2] = 0 THEN d.inputs[port[1]].expr ELSE d.family.expr

\* NodeExecutionContract.required_inputs for the declared ports (the
\* family's minimum count is checked apart), with the resolver of Math.
RequiredInputs(d, values) ==
  {<<p, 0>> : p \in {q \in DOMAIN d.inputs :
     \/ d.inputs[q].required
     \/ d.unary # {} /\ values["operation"].v \notin d.unary}}

\* NodeExecutionContract.parameter_values: the literal where it validates,
\* the default where it does not or is absent.
Defaults(d) == [p \in DOMAIN d.parameters |->
                  Value(d.parameters[p].type, d.parameters[p].default)]

ParameterValues(d, literals) ==
  [p \in DOMAIN d.parameters |->
     IF p \in DOMAIN literals /\ Validates(d.parameters[p], literals[p])
       THEN literals[p] ELSE Defaults(d)[p]]

OrderHolds(values, c) ==
  IF c[3] THEN values[c[1]].v < values[c[2]].v ELSE values[c[1]].v <= values[c[2]].v

ParameterErrors(d, literals) ==
  \/ DOMAIN literals \ DOMAIN d.parameters # {}
  \/ \E p \in DOMAIN literals \cap DOMAIN d.parameters :
        ~Validates(d.parameters[p], literals[p])
  \/ \E c \in d.ordered : ~OrderHolds(ParameterValues(d, literals), c)

-----------------------------------------------------------------------------
(* What the constructors refuse.                                            *)

\* _check_migration_chain.
ChainIsWhole(d) ==
  d.migrations # {} =>
     /\ Min(d.migrations) >= 0
     /\ Max(d.migrations) < d.version
     /\ Min(d.migrations) .. d.version - 1 \subseteq d.migrations

\* ParameterSpec.__post_init__.
SpecIsSound(spec) ==
  /\ spec.lo # -Inf \/ spec.hi # Inf => Numeric(spec.type) /\ spec.lo <= spec.hi
  /\ spec.step # 0 => spec.type = "INT" /\ spec.step >= 1 /\ spec.choices = {}
  /\ Validates(spec, Value(spec.type, spec.default))

\* NodeExecutionContract.__post_init__ and NodeDefinition.__post_init__.
ContractIsSound(d) ==
  /\ d.version >= 1
  /\ DOMAIN d.inputs \cap DOMAIN d.parameters = {}
  /\ \A p \in DOMAIN d.parameters : SpecIsSound(d.parameters[p])
  /\ \A p \in Sockets(d) : d.parameters[p].type \in {"FLOAT", "INT", "BOOL"}
  /\ ChainIsWhole(d)

\* migrate_node_data: the version a saved node arrives at, -1 where the
\* walk raises (a newer version, a step that is not registered).
MigratedVersion(d, saved) ==
  IF saved > d.version \/ ~(saved .. d.version - 1 \subseteq d.migrations)
    THEN -1 ELSE d.version
=============================================================================
