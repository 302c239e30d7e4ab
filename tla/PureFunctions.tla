----------------------------- MODULE PureFunctions -----------------------------
(***************************************************************************)
(* The pure functions of the code on every input within the bounds: the    *)
(* association of TrackManager (Assignment) and the parameter schema of    *)
(* the capabilities (CapSchema).  A behaviour is one call.                 *)
(***************************************************************************)
EXTENDS Assignment, CapSchema

CONSTANTS MaxRows, MaxColumns,  \* the largest table of costs
          Costs,                \* what a cell of it may cost
          MaxLevels,            \* the most arrays and objects around a leaf
          Leaves,               \* the schemas at the leaves
          Scalars,              \* the values at the leaves
          Params                \* the schemas of the parameters "a" and "b"

ASSUME SizesAssumption == MaxRows \in Nat /\ MaxColumns \in Nat /\ MaxLevels \in Nat
ASSUME CostsAssumption == Costs \subseteq Nat
ASSUME LeavesAssumption ==
    /\ \A leaf \in Leaves : leaf.types \in Seq(ScalarTypes \union {"enum"})
    /\ \A scalar \in Scalars : scalar.kind \notin {"array", "object"}

VARIABLES call,     \* the function and its arguments
          returned  \* what it returned, <<>> before

callVars == <<call, returned>>

Chains == UNION {[1..n -> {"array", "object"}] : n \in 0..MaxLevels}

\* The schema and the value with the containers of a chain around a leaf, the
\* last one outermost; each has one part, an object's is its field "f".
ParamIn(container, inner) ==
    IF container = "array" THEN [Param(<<container>>) EXCEPT !.items = {inner}]
    ELSE [Param(<<container>>) EXCEPT !.fields = [name \in {"f"} |-> inner]]
ValueIn(container, inner) ==
    IF container = "array" THEN Array(<<inner>>) ELSE Object([name \in {"f"} |-> inner])

Nested(chain, leaf, scalar) ==
    LET around[n \in 0..Len(chain)] ==
            IF n = 0 THEN [param |-> leaf, value |-> scalar]
            ELSE LET inner == around[n - 1]
                 IN  [param |-> ParamIn(chain[n], inner.param), value |-> ValueIn(chain[n], inner.value)]
    IN  around[Len(chain)]

Tables == UNION {[1..n -> [1..m -> Costs]] : n \in 1..MaxRows, m \in 1..MaxColumns}
Schemas == UNION {[names -> Params] : names \in SUBSET {"a", "b"}}
Withs == UNION {[names -> Scalars] : names \in SUBSET {"a", "b"}}

CallInit ==
    /\ \/ \E cost \in Tables :
            /\ Cardinality(Rows(cost)) <= Cardinality(Columns(cost))
            /\ call = [of |-> "associate", cost |-> cost]
       \/ \E chain, shape \in Chains, leaf \in Leaves, scalar \in Scalars :
            call = [of |-> "check", chain |-> chain, leaf |-> leaf,
                   shape |-> shape, scalar |-> scalar]
       \/ \E schema \in Schemas, with \in Withs :
            call = [of |-> "fill", schema |-> schema, with |-> with]
    /\ returned = <<>>

Associate ==
    /\ call.of = "associate" /\ returned = <<>>
    /\ returned' = <<Hungarian(call.cost)>>
    /\ UNCHANGED call

\* An advert's schema is checked before an invoke's value is.
Check ==
    /\ call.of = "check" /\ returned = <<>>
    /\ LET param == Nested(call.chain, call.leaf, call.scalar).param
           value == Nested(call.shape, call.leaf, call.scalar).value
       IN  /\ ValidParam(param)
           /\ returned' = <<CheckValue(param, value)>>
    /\ UNCHANGED call

Fill ==
    /\ call.of = "fill" /\ returned = <<>>
    /\ ValidSchema(call.schema)
    /\ CheckParams(call.schema, call.with)
    /\ returned' = <<Filled(call.schema, call.with)>>
    /\ UNCHANGED call

Return == Associate \/ Check \/ Fill

Calls == CallInit /\ [][Return]_callVars

-----------------------------------------------------------------------------

\* hungarian gives every row a column of its own, and no other choice of columns
\* costs less in all: no two detections get one track, and a nearby pair does
\* not steal the better match of another.
AssociationOptimal ==
    call.of = "associate" /\ returned # <<>> =>
        /\ returned[1] \in Injection(Rows(call.cost), Columns(call.cost))
        /\ Total(call.cost, returned[1]) = Optimum(call.cost)

\* A value is accepted under a schema that an advert may have exactly when it
\* has the containers of the schema and what they hold suits its leaf, as deep
\* as a valid schema goes: capCheckValue stops at a depth that capValidateParam
\* never lets a schema reach.
CheckedAtEveryLevel ==
    call.of = "check" /\ returned # <<>> =>
        (returned[1] <=> (call.shape = call.chain /\ CheckValue(call.leaf, call.scalar)))

\* What an action's handler is given satisfies the schema of the action again,
\* has every parameter that is not optional and keeps what the invoke said: a
\* default of an advert that was accepted is itself acceptable.
FilledIsAcceptable ==
    call.of = "fill" /\ returned # <<>> =>
        LET filled == returned[1]
        IN  /\ CheckParams(call.schema, filled)
            /\ \A name \in DOMAIN call.schema : call.schema[name].optional \/ name \in DOMAIN filled
            /\ \A name \in DOMAIN call.with : filled[name] = call.with[name]
=============================================================================
