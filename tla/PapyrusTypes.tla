---------------------------- MODULE PapyrusTypes ----------------------------
(***************************************************************************)
(* The values that a call into the script virtual machine is given, and    *)
(* the types of its signature: what validation rejects, what each back end *)
(* fails to convert, and which forms a conversion binds.                   *)
(***************************************************************************)
EXTENDS Integers, Sequences, FiniteSets, SequencesExt

CONSTANTS
    FormClass,    \* FormClass[form]: its class, for every form there is
    StructFields, \* StructFields[name][field]: a type
    MaxDepth, MaxNodes, MaxElements, SkyrimMaxElements

(* Types and values.  A type is [kind, name, array]; a value is JSON.      *)

Element(type) == [type EXCEPT !.array = FALSE]

IsTypedNull(value, type) == value.json = "null" /\ value.type = type

\* The JSON values a scalar takes; 64-bit integers are "wide".
Scalars == [bool |-> {"bool"}, int |-> {"int"}, float |-> {"int", "wide", "float"}, string |-> {"string"}]

\* The fields of a struct, as the machine's metadata gives them.
Fields(name) == StructFields[name]

\* The errors that a type may raise in a signature, below the structs in path.
RECURSIVE Unsupported(_, _, _, _)
Unsupported(type, isReturn, depth, path) ==
    IF depth > MaxDepth THEN {422}
    ELSE CASE type.kind = "none" -> IF isReturn /\ ~type.array THEN {} ELSE {422}
           [] type.kind \in {"var", "unsupported"} -> {422}
           [] type.kind = "struct" ->
                IF type.name \notin DOMAIN StructFields THEN {422}
                ELSE IF type.name \in path THEN {}
                ELSE UNION {Unsupported(Fields(type.name)[f], FALSE, depth + 1, path \union {type.name}) :
                               f \in DOMAIN Fields(type.name)}
           [] OTHER -> {}

RECURSIVE Rejects(_, _, _)

\* ValidateScalar.
RejectsScalar(value, type, depth) ==
    CASE type.kind \in DOMAIN Scalars ->
           IF value.json \in Scalars[type.kind] THEN {} ELSE {400}
      [] type.kind = "object" ->
           IF IsTypedNull(value, type) \/ value.json = "form" THEN {} ELSE {400}
      [] type.kind = "struct" ->
           IF IsTypedNull(value, type) THEN {}
           ELSE IF value.json # "struct" \/ value.name # type.name THEN {400}
           ELSE IF ~(DOMAIN value.fields \subseteq DOMAIN Fields(type.name)) THEN {400}
           ELSE UNION {Rejects(value.fields[f], Fields(type.name)[f], depth + 1) : f \in DOMAIN value.fields}
      [] OTHER -> {422}

\* ValidateValue.
Rejects(value, type, depth) ==
    IF depth > MaxDepth THEN {400}
    ELSE IF ~type.array THEN RejectsScalar(value, type, depth)
    ELSE IF IsTypedNull(value, type) THEN {}
    ELSE IF value.json # "array" \/ Len(value.items) > MaxElements THEN {400}
    ELSE UNION {Rejects(value.items[i], Element(type), depth + 1) : i \in DOMAIN value.items}

\* The nodes a value takes from the budget that all arguments share.
RECURSIVE Nodes(_)
Nodes(value) ==
    1 + (CASE value.json = "array"  -> FoldSeq(LAMBDA item, n : n + Nodes(item), 0, value.items)
           [] value.json = "struct" -> FoldSet(LAMBDA f, n : n + Nodes(value.fields[f]), 0, DOMAIN value.fields)
           [] OTHER -> 0)

\* ValidatePapyrusArguments.
ArgumentErrors(args, types) ==
    LET unsupported == UNION {Unsupported(types[i], FALSE, 0, {}) : i \in DOMAIN types}
    IN IF unsupported # {} THEN unsupported
       ELSE IF Len(args) # Len(types) THEN {400}
       ELSE UNION {Rejects(args[i], types[i], 0) : i \in DOMAIN types} \union
            (IF FoldSeq(LAMBDA a, n : n + Nodes(a), 0, args) > MaxNodes THEN {400} ELSE {})

\* ConvertValue of the Fallout 4 back end: it reads the JSON as the type says,
\* and a value of another shape is an exception, told as 500.
RECURSIVE ConvertFallout(_, _, _)
ConvertFallout(value, type, depth) ==
    IF IsTypedNull(value, type) THEN {}
    ELSE IF depth > MaxDepth THEN {400}
    ELSE IF type.array THEN
        IF value.json # "array" THEN {500}
        ELSE UNION {ConvertFallout(value.items[i], Element(type), depth + 1) : i \in DOMAIN value.items}
    ELSE CASE type.kind \in DOMAIN Scalars -> IF value.json \in Scalars[type.kind] THEN {} ELSE {500}
           [] type.kind = "object" ->
                IF value.json # "form" THEN {500}
                ELSE IF value.form \notin DOMAIN FormClass THEN {404}
                ELSE IF FormClass[value.form] # type.name THEN {422} ELSE {}
           [] type.kind = "struct" ->
                IF value.json # "struct" THEN {500}
                ELSE UNION {IF f \notin DOMAIN Fields(type.name) THEN {400}
                            ELSE ConvertFallout(value.fields[f], Fields(type.name)[f], depth + 1) :
                               f \in DOMAIN value.fields}
           [] OTHER -> {422}

\* The one of the Skyrim back end: no structs, and a limit on arrays of its own.
RECURSIVE ConvertSkyrim(_, _, _)
ConvertSkyrim(value, type, depth) ==
    IF IsTypedNull(value, type) THEN {}
    ELSE IF depth > MaxDepth THEN {400}
    ELSE IF type.array THEN
        IF value.json # "array" THEN {500}
        ELSE IF Len(value.items) > SkyrimMaxElements THEN {422}
        ELSE UNION {ConvertSkyrim(value.items[i], Element(type), depth + 1) : i \in DOMAIN value.items}
    ELSE CASE type.kind \in DOMAIN Scalars -> IF value.json \in Scalars[type.kind] THEN {} ELSE {500}
           [] type.kind = "object" ->
                IF value.json # "form" THEN {500}
                ELSE IF value.form \notin DOMAIN FormClass THEN {404}
                ELSE IF FormClass[value.form] # type.name THEN {422} ELSE {}
           [] OTHER -> {422}

Convert(game, value, type) ==
    IF game = "fallout4" THEN ConvertFallout(value, type, 0) ELSE ConvertSkyrim(value, type, 0)

\* BindFormArgument: the forms that converting a value binds.
RECURSIVE Forms(_)
Forms(value) ==
    CASE value.json = "form"   -> {value.form} \intersect DOMAIN FormClass
      [] value.json = "array"  -> UNION {Forms(value.items[i]) : i \in DOMAIN value.items}
      [] value.json = "struct" -> UNION {Forms(value.fields[f]) : f \in DOMAIN value.fields}
      [] OTHER -> {}

\* What the conversion of all arguments fails with, and the forms that it binds.
Faults(game, args, types) == UNION {Convert(game, args[i], types[i]) : i \in DOMAIN types}

ArgForms(args) == UNION {Forms(args[i]) : i \in DOMAIN args}
=============================================================================
