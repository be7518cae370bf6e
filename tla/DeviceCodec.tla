------------------------------ MODULE DeviceCodec ------------------------------
(***************************************************************************)
(* Between a prepared action and the device: the command line it becomes,  *)
(* its quoting for a remote shell, and the two kinds of answer that are    *)
(* parsed, a description of an object and the result of a call             *)
(* (crates/device-codec/src: command, describe, response).                 *)
(*                                                                         *)
(* Only here are texts spelled out, as sequences of characters: the quote  *)
(* is what the encoding is about, and "x" stands for any character that is *)
(* neither a quote, a blank nor a backslash.                               *)
(***************************************************************************)
EXTENDS Operations

CONSTANTS
    Spelling,         \* the characters of the texts that are more than "x"
    MaxCommandBytes,  \* MAX_COMMAND_BYTES
    MaxProbeBytes,    \* MAX_PROBE_BYTES
    MaxActionBytes,   \* MAX_ACTION_BYTES
    MaxActionNodes,   \* MAX_ACTION_NODES
    MaxActionDepth    \* MAX_ACTION_DEPTH

Spell(t) == IF t \in DOMAIN Spelling THEN Spelling[t] ELSE [i \in 1..t[3] |-> "x"]

(***************************************************************************)
(* Commands.                                                               *)
(***************************************************************************)
Ordered(S) == SetToSortSeq(S, LAMBDA a, b : Position(a) < Position(b))

(* The JSON text of an argument map, one word of the command.              *)
JsonWord(args) ==
    LET keys == Ordered(DOMAIN args)
        value(v) == IF v[1] = "str" THEN <<"x">> \o Spell(v[2]) \o <<"x">>
                    ELSE Spell(scalar_text(v))
    IN  <<"x">> \o FlattenSeq([i \in DOMAIN keys |->
            Spell(keys[i]) \o <<"x">> \o value(args[keys[i]])]) \o <<"x">>

arguments_valid(args) ==
    /\ Cardinality(DOMAIN args) <= MaxArguments
    /\ \A k \in DOMAIN args :
         /\ identifier(k)
         /\ \/ args[k][1] = "str" /\ bounded_string(args[k][2], MaxValueBytes)
            \/ args[k][1] = "int" /\ args[k][2] \in I32
            \/ args[k][1] = "bool"

(* A quote costs three bytes more than itself once it is quoted.           *)
WordCost(w) == Len(w) + 3 + 3 * Len(SelectSeq(w, LAMBDA c : c = "'"))
CommandCost(words) == FoldLeft(LAMBDA n, w : n + WordCost(w), 4, words)

Ubus == <<"x", "x">>     \* "/bin/ubus", "-S", "call": fixed words

Words(a) ==
    IF a.k = "Ubus"
    THEN <<Ubus, <<"x">>, <<"x">>, Spell(a.object), Spell(a.method), JsonWord(a.args)>>
    ELSE <<Spell(a.program)>> \o [i \in DOMAIN a.args |-> Spell(a.args[i])]

(* The words of a command, or None.                                        *)
compile_action(a) ==
    LET ok == CASE a.k = "Ubus" ->
                     ubus_identifier(a.object) /\ ubus_identifier(a.method) /\ arguments_valid(a.args)
                [] a.k = "Process" ->
                     /\ a.program \in Programs
                     /\ Len(a.args) <= MaxArguments
                     /\ \A t \in Range(a.args) : bounded_string(t, MaxValueBytes)
                [] OTHER -> FALSE
    IN  IF ok /\ CommandCost(Words(a)) <= MaxCommandBytes THEN Words(a) ELSE None

compile_probe(object) == <<Ubus, <<"x">>, <<"x">>, Spell(object)>>

(* One word in single quotes; a quote closes, is escaped and reopens.      *)
QuotedOnce(w) == <<" ", "'">> \o w \o <<"'">>
argument(w) ==
    <<" ", "'">>
    \o FlattenSeq([i \in DOMAIN w |-> IF w[i] = "'" THEN <<"'", "\\", "'", "'">> ELSE <<w[i]>>])
    \o <<"'">>

encode_remote(words) ==
    LET out == <<"e", "x", "e", "c">> \o FlattenSeq([i \in DOMAIN words |-> argument(words[i])])
    IN  IF Len(out) > MaxCommandBytes THEN None ELSE out

(***************************************************************************)
(* The description of an object: [bytes, utf8, header, ended, methods],    *)
(* where methods is the sequence of its lines, each <<name, arguments>>    *)
(* with the arguments as they stand there: <<name, label>> pairs.          *)
(***************************************************************************)
Labels == {"String", "Integer", "Boolean", "Array", "Table"}
LabelType(l) == IF l \in Labels THEN l ELSE "Unknown"

DistinctNames(pairs) == IsInjective([i \in DOMAIN pairs |-> pairs[i][1]])

ParsesMethod(m) ==
    /\ ubus_identifier(m[1])
    /\ Len(m[2]) <= MaxArguments
    /\ DistinctNames(m[2])
    /\ \A i \in DOMAIN m[2] : ubus_identifier(m[2][i][1]) /\ m[2][i][2] # "broken"

ToMap(pairs, Value(_)) ==
    [n \in {pairs[i][1] : i \in DOMAIN pairs} |->
       Value(pairs[CHOOSE i \in DOMAIN pairs : pairs[i][1] = n][2])]

(* An observation as evaluate() takes it, or <<"error", e>>.               *)
parse_ubus_describe(object, d, maximum) ==
    LET limit == IF maximum < MaxProbeBytes THEN maximum ELSE MaxProbeBytes
        methods == ToMap(d.methods, LAMBDA args : ToMap(args, LabelType))
    IN  CASE maximum = 0 \/ d.bytes > limit -> <<"error", "OutputLimit">>
          [] maximum > 0 /\ d.bytes = 0 -> <<"unknown", "NotObservedOrHidden">>
          [] OTHER ->
               IF /\ d.ended /\ d.utf8 /\ d.header = object
                  /\ Len(d.methods) <= MaxObservedMethods
                  /\ \A i \in DOMAIN d.methods : ParsesMethod(d.methods[i])
                  /\ DistinctNames(d.methods)
                  /\ ValidObservation(methods)
               THEN <<"ubus", object, methods>>
               ELSE <<"error", "InvalidObservation">>

(***************************************************************************)
(* The result of a call.  A raw value is a JSON value whose objects may    *)
(* repeat a key; <<"broken">> is a place where the text is no JSON.        *)
(***************************************************************************)
RECURSIVE Decode(_, _)
Decode(v, depth) ==
    LET deep == If(depth = MaxActionDepth, Failure("OutputLimit"))
        repeated(i) == \E j \in 1..(i - 1) : v[2][j][1] = v[2][i][1]
    IN  <<<<"node", 0>>>> \o
        CASE v[1] = "broken" -> Failure("InvalidResponse")
          [] IsArray(v) -> deep \o FlattenSeq([i \in DOMAIN v[2] |-> Decode(v[2][i], depth + 1)])
          [] IsObject(v) -> deep \o FlattenSeq([i \in DOMAIN v[2] |->
                 If(repeated(i), Failure("InvalidResponse")) \o Decode(v[2][i][2], depth + 1)])
          [] OTHER -> <<>>

(* Charged node by node before anything is built.                          *)
SpendNode(b, op) ==
    IF b.err # "ok" THEN b
    ELSE IF op[1] = "fail" THEN [b EXCEPT !.err = op[2]]
    ELSE IF b.nodes = MaxActionNodes THEN [b EXCEPT !.err = "OutputLimit"]
    ELSE [b EXCEPT !.nodes = @ + 1]

(* [err, value]; `r' is [bytes, blank, tail, value].                       *)
parse_action_response(r, limit) ==
    LET b == FoldLeft(SpendNode, Zero, Decode(r.value, 0))
        max == IF limit < MaxActionBytes THEN limit ELSE MaxActionBytes
    IN  CASE limit = 0 \/ r.bytes > max -> [err |-> "OutputLimit"]
          [] limit > 0 /\ r.bytes <= max /\ r.blank -> [err |-> "ok", value |-> <<"null">>]
          [] OTHER -> IF b.err # "ok" THEN [err |-> b.err]
                      ELSE IF r.tail THEN [err |-> "InvalidResponse"]
                      ELSE [err |-> "ok", value |-> r.value]

(***************************************************************************)
(* Reference: how a POSIX shell splits a line that uses blanks, single     *)
(* quotes and backslashes.  Not in the repository.                         *)
(***************************************************************************)
ShellStep(s, c) ==
    CASE s.mode = "quoted" -> IF c = "'" THEN [s EXCEPT !.mode = "plain"]
                              ELSE [s EXCEPT !.word = Append(@, c)]
      [] s.mode = "escaped" -> [s EXCEPT !.mode = "plain", !.word = Append(@, c)]
      [] s.mode = "plain" ->
           CASE c = " " -> [words |-> Append(s.words, s.word), word |-> <<>>, mode |-> "plain"]
             [] c = "'" -> [s EXCEPT !.mode = "quoted"]
             [] c = "\\" -> [s EXCEPT !.mode = "escaped"]
             [] OTHER -> [s EXCEPT !.word = Append(@, c)]
ShellWords(line) ==
    LET s == FoldLeft(ShellStep, [words |-> <<>>, word |-> <<>>, mode |-> "plain"], line)
    IN  IF s.mode = "plain" THEN Append(s.words, s.word) ELSE None
====
