------------------------------- MODULE CapSchema -------------------------------
(***************************************************************************)
(* The parameters of a capability (cap_schema.cpp): when an advert's       *)
(* schema is valid, when an invoke's parameters satisfy it and what they   *)
(* are filled up to.  Names are valid ones; texts and numbers have a small *)
(* number for what they are.                                               *)
(***************************************************************************)
EXTENDS Integers, Sequences

NoFields == [name \in {} |-> 0]

\* A JSON value: a scalar has its n, an array its parts, an object its fields.
Scalar(kind, n) == [kind |-> kind, n |-> n, parts |-> <<>>, fields |-> NoFields]
Array(parts) == [kind |-> "array", n |-> 0, parts |-> parts, fields |-> NoFields]
Object(fields) == [kind |-> "object", n |-> 0, parts |-> <<>>, fields |-> fields]

\* A parameter's schema; min, max, items and default are sets of at most one.
Param(types) == [types |-> types, min |-> {}, max |-> {}, values |-> {}, items |-> {},
                 fields |-> NoFields, optional |-> FALSE, default |-> {}]

Types == {"bool", "int", "number", "string", "enum", "geo", "array", "object"}
ScalarTypes == Types \ {"enum", "geo", "array", "object"}

IsNumber(value) == value.kind \in {"int", "number"}

\* capValueMatches
Matches(value, type) ==
    CASE type = "number" -> IsNumber(value)
      [] type = "geo" -> /\ value.kind = "array" /\ Len(value.parts) = 3
                         /\ \A i \in 1..3 : IsNumber(value.parts[i])
      [] type = "enum" -> value.kind \in {"bool", "int", "number", "string"}
      [] OTHER -> value.kind = type

\* The positions of the types that match, of which the first one counts.
Matching(param, value) == {i \in DOMAIN param.types : Matches(value, param.types[i])}
MatchedType(param, value) ==
    LET matching == Matching(param, value)
    IN  param.types[CHOOSE i \in matching : \A k \in matching : i <= k]

WithinLimits(param, value) ==
    /\ \A limit \in param.min : value.n >= limit
    /\ \A limit \in param.max : value.n <= limit

\* What capCheckValue looks at at any depth ...
CheckItself(param, value) ==
    LET type == MatchedType(param, value)
    IN  /\ Matching(param, value) # {}
        /\ type \in {"int", "number"} => WithinLimits(param, value)
        /\ type = "enum" => value \in param.values

\* ... and at depths less than 4.
CheckParts(param, value, Part(_, _)) ==
    LET type == MatchedType(param, value)
    IN  /\ type = "array" =>
              \A item \in param.items, i \in DOMAIN value.parts : Part(item, value.parts[i])
        /\ type = "object" =>
              \A name \in DOMAIN param.fields :
                  IF name \in DOMAIN value.fields
                  THEN Part(param.fields[name], value.fields[name])
                  ELSE param.fields[name].optional \/ param.fields[name].default # {}

\* Mutant: the last level is not checked.
Check3Itself(param, value) == CheckItself(param, value)

\* capCheckValue at each depth.
Check4(param, value) == CheckItself(param, value)
Check3(param, value) == CheckItself(param, value) /\ CheckParts(param, value, Check4)
Check2(param, value) == CheckItself(param, value) /\ CheckParts(param, value, Check3)
Check1(param, value) == CheckItself(param, value) /\ CheckParts(param, value, Check2)
CheckValue(param, value) == CheckItself(param, value) /\ CheckParts(param, value, Check1)

\* capCheckParams: no unknown key, nothing missing, every value as it should be ...
CheckParams(schema, with) ==
    /\ DOMAIN with \subseteq DOMAIN schema
    /\ \A name \in DOMAIN schema :
          IF name \in DOMAIN with THEN CheckValue(schema[name], with[name])
          ELSE schema[name].default # {} \/ schema[name].optional

\* ... and the defaults of the missing ones filled in.
Filled(schema, with) ==
    LET defaulted == {name \in DOMAIN schema \ DOMAIN with : schema[name].default # {}}
    IN  [name \in DOMAIN with \union defaulted |->
            IF name \in DOMAIN with THEN with[name]
            ELSE CHOOSE value \in schema[name].default : TRUE]

\* Mutant: a default is taken as it is.
ValidDefaultAny(param) == TRUE

\* A default is a value of its own parameter.
ValidDefault(param) ==
    \A value \in param.default : CheckParams([p |-> param], [p |-> value])

\* capValidateParam, apart from the schemas of parts ...
ValidItself(param) ==
    /\ param.types # <<>> /\ \A i \in DOMAIN param.types : param.types[i] \in Types
    /\ Len(param.types) > 1 => \A i \in DOMAIN param.types : param.types[i] \in ScalarTypes
    /\ param.types[1] = "enum" => param.values # {}
    /\ \A low \in param.min, high \in param.max : low <= high
    /\ ValidDefault(param)

\* ... and with them,
ValidParts(param, Part(_)) ==
    /\ param.types[1] = "array" => \A item \in param.items : Part(item)
    /\ param.types[1] = "object" => \A name \in DOMAIN param.fields : Part(param.fields[name])

\* at each depth; a schema at depth 5 is not valid.
TooDeep(param) == FALSE
Valid4(param) == ValidItself(param) /\ ValidParts(param, TooDeep)
Valid3(param) == ValidItself(param) /\ ValidParts(param, Valid4)
Valid2(param) == ValidItself(param) /\ ValidParts(param, Valid3)
Valid1(param) == ValidItself(param) /\ ValidParts(param, Valid2)
ValidParam(param) == ValidItself(param) /\ ValidParts(param, Valid1)

\* capValidateParamMap
ValidSchema(schema) == \A name \in DOMAIN schema : ValidParam(schema[name])
=============================================================================
