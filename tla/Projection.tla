------------------------------ MODULE Projection ------------------------------
(***************************************************************************)
(* Response projections: which part of a device's answer may leave the     *)
(* server, checked against a finite schema and charged to a byte budget    *)
(* before it is copied (crates/core/src/projection.rs and projection/).    *)
(*                                                                         *)
(* Data.  A text is <<tag, id, bytes, escapes>>: its tag tells apart what  *)
(* the byte tests of the code tell apart (a NUL inside, a canonical        *)
(* decimal, a parameter reference "{id}", a package cursor, anything       *)
(* else), `bytes' is its length and `escapes' what JSON escaping adds to   *)
(* it.  A JSON value is a tagged tuple; an object is a sequence of pairs   *)
(* in the order of its keys, a pointer the sequence of its decoded         *)
(* segments.                                                               *)
(*                                                                         *)
(* Evaluation threads a budget through every call and stops at the first   *)
(* error.  Here it yields the sequence of charges and failures in the      *)
(* order the code meets them, and the value it would build; Run spends     *)
(* them up to the first that fails.                                        *)
(***************************************************************************)
EXTENDS Integers, Sequences, FiniteSets, SequencesExt

CONSTANTS
    None,                \* no value: Option::None
    WordBytes(_),        \* the length of a literal word
    NoIdentifiers,       \* the texts identifier() refuses
    TextOrder,           \* the names of arguments, in the order BTreeMap uses
    MaxNormalizedBytes,  \* MAX_NORMALIZED_BYTES
    MaxValueNodes,       \* MAX_VALUE_NODES
    MaxValueDepth,       \* MAX_VALUE_DEPTH
    MaxCollectionItems,  \* MAX_COLLECTION_ITEMS
    MaxTextOptionItems,  \* MAX_TEXT_OPTION_ITEMS
    MaxCollectionNodes,  \* MAX_COLLECTION_NODES
    MaxRecordFields,     \* MAX_RECORD_FIELDS
    MaxTextBytes,        \* MAX_TEXT_BYTES
    MaxEnumValues,       \* MAX_TEXT_ENUM_VALUES
    MaxPointerDepth,     \* MAX_POINTER_DEPTH
    MaxRootGuards,       \* MAX_ROOT_GUARDS
    SafeIntegerMax,      \* SAFE_INTEGER_MAX
    I64, U64,            \* the ranges of the two integer widths
    Sensitive            \* the keys sensitive_key() recognises

(***************************************************************************)
(* Texts and values.                                                       *)
(***************************************************************************)
Word(s) == <<"plain", s, WordBytes(s), 0>>

(* The decimal text of an integer: to_string().  Two digits are enough.    *)
Digits(n) == (IF n < 0 THEN 1 ELSE 0) + (IF n \in -9..9 THEN 1 ELSE 2)
Dec(n) == <<"dec", n, Digits(n), 0>>

Position(t) == CHOOSE i \in DOMAIN TextOrder : TextOrder[i] = t
HasNul(t) == t[1] = "nul"
Encoded(t) == 2 + t[3] + t[4]

identifier(t) == t \notin NoIdentifiers
bounded_string(t, max) == t[3] <= max /\ ~HasNul(t)
valid_identity(t, max) == t[3] > 0 /\ bounded_string(t, max)

IsObject(v) == v[1] = "obj"
IsArray(v) == v[1] = "arr"

(* The value of key k in the pairs of an object.                           *)
Get(pairs, k) ==
    LET at == {i \in DOMAIN pairs : pairs[i][1] = k}
    IN  IF at = {} THEN None ELSE pairs[CHOOSE i \in at : TRUE][2]

(* One segment of a pointer: an index must be written canonically, and a   *)
(* scalar where the schema expects a container is malformed, not missing.  *)
Malformed == <<"malformed">>
Step(v, key) ==
    CASE v \in {None, Malformed} -> v
      [] IsObject(v) -> Get(v[2], key)
      [] IsArray(v) ->
           IF key[1] # "dec" \/ key[2] < 0 THEN Malformed
           ELSE IF key[2] < Len(v[2]) THEN v[2][key[2] + 1] ELSE None
      [] OTHER -> Malformed
lookup(v, pointer) == FoldLeft(Step, v, pointer)

(***************************************************************************)
(* The budget.                                                             *)
(***************************************************************************)
Zero == [bytes |-> 0, scanned |-> 0, emitted |-> 0, nodes |-> 0, err |-> "ok"]

Limited(b, within) == IF within THEN b ELSE [b EXCEPT !.err = "OutputLimit"]

(* One charge, or a failure; nothing happens after the first failure.      *)
Spend(b, op) ==
    IF b.err # "ok" THEN b
    ELSE CASE op[1] = "bytes" ->
                LET c == [b EXCEPT !.bytes = @ + op[2]]
                IN  Limited(c, c.bytes <= MaxNormalizedBytes)
           [] op[1] = "scan" ->
                LET c == [b EXCEPT !.scanned = @ + op[2]]
                IN  Limited(c, op[2] <= op[3] /\ c.scanned <= MaxCollectionItems)
           [] op[1] = "emit" ->
                LET c == [b EXCEPT !.emitted = @ + 1]
                IN  Limited(c, c.emitted <= MaxCollectionItems)
           [] op[1] = "node" ->
                LET c == [b EXCEPT !.nodes = @ + 1]
                IN  Limited(c, op[2] <= MaxValueDepth /\ c.nodes <= MaxValueNodes)
           [] op[1] = "name" -> Limited(b, op[2] <= MaxNormalizedBytes)
           [] op[1] = "fail" -> [b EXCEPT !.err = op[2]]
Run(ops) == FoldLeft(Spend, Zero, ops)

Bytes(n) == <<<<"bytes", n>>>>
Failure(e) == <<<<"fail", e>>>>
If(c, ops) == IF c THEN ops ELSE <<>>

text(t) == Bytes(Encoded(t))
(* The mutant forgets the comma before a key that is not the first.        *)
KeyWithoutComma(name, previous) == text(name) \o Bytes(1)
key(name, previous) == text(name) \o Bytes(IF previous THEN 2 ELSE 1)
scalar(v) ==
    CASE v[1] = "null" -> Bytes(4)
      [] v[1] = "bool" -> Bytes(IF v[2] THEN 4 ELSE 5)
      [] v[1] = "int" -> Bytes(Digits(v[2]))
      [] v[1] = "str" -> text(v[2])

(* check_normalized_result: the exact encoded size, without encoding.      *)
RECURSIVE visit(_, _)
visit(v, depth) ==
    <<<<"node", depth>>>> \o
    CASE IsArray(v) ->
           Bytes(2) \o FlattenSeq([i \in DOMAIN v[2] |->
               Bytes(IF i > 1 THEN 1 ELSE 0) \o visit(v[2][i], depth + 1)])
      [] IsObject(v) ->
           Bytes(2) \o FlattenSeq([i \in DOMAIN v[2] |->
               key(v[2][i][1], i > 1) \o visit(v[2][i][2], depth + 1)])
      [] OTHER -> scalar(v)
check_normalized_result(v) == Run(visit(v, 0)).err

(***************************************************************************)
(* Scalars: what a schema accepts and how it is written out.  A counter is *)
(* read from a number or from canonical decimal text and becomes text.     *)
(***************************************************************************)
Read(kind, v) ==
    CASE kind.k = "Boolean" -> IF v[1] = "bool" THEN v ELSE None
      [] kind.k = "Text" ->
           IF v[1] = "str" /\ bounded_string(v[2], kind.max) THEN v ELSE None
      [] kind.k = "TextEnum" ->
           IF v[1] = "str" /\ valid_identity(v[2], kind.max) /\ v[2] \in Range(kind.values)
           THEN v ELSE None
      [] kind.k = "FalseOrSafeInteger" /\ v = <<"bool", FALSE>> -> v
      [] kind.k \in {"SafeInteger", "FalseOrSafeInteger"} ->
           IF v[1] = "int" /\ v[2] \in I64 /\ v[2] \in kind.lo..kind.hi THEN v ELSE None
      [] kind.k = "Counter" ->
           IF kind.text
           THEN IF v[1] = "str" /\ v[2][1] = "dec" /\ v[2][2] \in U64 THEN v ELSE None
           ELSE IF v[1] = "int" /\ v[2] \in U64 THEN <<"str", Dec(v[2])>> ELSE None

(***************************************************************************)
(* Evaluation.  `emit' is FALSE for the rows a selector passes over: they  *)
(* are checked all the same and charged nothing but their scan.            *)
(***************************************************************************)
Found(v) == v \notin {None, Malformed}

(* Failure to find what a field names: a missing optional one is skipped.  *)
Absent(v, required) ==
    If(v = Malformed \/ (v = None /\ required), Failure("InvalidOutput"))

(* One field: found, read against its kind and, in a row that is shown,    *)
(* charged.  The mutant checks only the rows that are shown.               *)
ShownFieldOps(f, v, previous, emit) ==
    If(emit, IF ~Found(v) THEN Absent(v, f.required)
             ELSE IF Read(f.value, v) = None THEN Failure("InvalidOutput")
             ELSE key(f.name, previous) \o scalar(Read(f.value, v)))
FieldOps(f, v, previous, emit) ==
    IF ~Found(v) THEN Absent(v, f.required)
    ELSE IF Read(f.value, v) = None THEN Failure("InvalidOutput")
    ELSE If(emit, key(f.name, previous) \o scalar(Read(f.value, v)))

record_fields(fields, source, id, emit) ==
    LET value(i) == lookup(source, fields[i].source)
        out(i) == IF Found(value(i)) THEN Read(fields[i].value, value(i)) ELSE None
        shown(i) == out(i) # None
        first == IF id = None THEN <<>> ELSE <<<<id.name, <<"str", id.text>>>>>>
        previous(i) == id # None \/ \E j \in 1..(i - 1) : shown(j)
        ops(i) == FieldOps(fields[i], value(i), previous(i), emit)
        there == SelectSeq([i \in DOMAIN fields |-> i], shown)
    IN  [ops |-> If(emit, Bytes(2))
                 \o If(id # None /\ ~valid_identity(id.text, id.max), Failure("InvalidOutput"))
                 \o If(emit /\ id # None, key(id.name, FALSE) \o text(id.text))
                 \o FlattenSeq([i \in DOMAIN fields |-> ops(i)]),
         val |-> first \o [i \in DOMAIN there |-> <<fields[there[i]].name, out(there[i])>>]]

(* A UCI option: one string or a list of them, kept apart.                 *)
project_text_option(c, source, emit) ==
    LET isText == source[1] = "str"
        values == IF isText THEN <<source>> ELSE source[2]
        kind == Word(IF isText THEN "string" ELSE "list")
        read(i) == Read([k |-> "Text", max |-> c.max], values[i])
    IN  IF ~isText /\ ~IsArray(source) THEN [ops |-> Failure("InvalidOutput"), val |-> None]
        ELSE [ops |-> <<<<"scan", Len(values), c.max_items>>>>
                  \o If(emit, Bytes(2) \o key(Word("kind"), FALSE) \o text(kind)
                              \o key(Word("values"), TRUE) \o Bytes(2))
                  \o FlattenSeq([i \in DOMAIN values |->
                       IF read(i) = None THEN Failure("InvalidOutput")
                       ELSE If(emit, <<<<"emit">>>> \o Bytes(IF i > 1 THEN 1 ELSE 0)
                                     \o scalar(read(i)))]),
              val |-> <<"obj", <<<<Word("kind"), <<"str", kind>>>>,
                                 <<Word("values"), <<"arr", values>>>>>>>>]

identity_field(c) ==
    LET named == {i \in DOMAIN c.record.fields : c.record.fields[i].name = c.identity}
    IN  IF named = {} THEN None ELSE c.record.fields[CHOOSE i \in named : TRUE]

(* The bound on an identity: of a required text field, or of the keys.     *)
identity_limit(c) ==
    CASE c.k = "ObjectArray" ->
           LET f == identity_field(c)
           IN  IF f # None /\ f.required /\ f.value.k = "Text" THEN f.value.max ELSE 0
      [] c.k = "ObjectEntries" -> c.key.max
      [] OTHER -> 0

(* A record: what its fields gave, then its collections, of which values   *)
(* are found or not and parts project those that are.                      *)
Assembled(record, base, values, parts, emit) ==
    LET names == [i \in DOMAIN values |-> record.collections[i].name]
        there(n) == SelectSeq([i \in 1..n |-> i], LAMBDA i : Found(values[i]))
        all == there(Len(values))
        ops(i) == IF ~Found(values[i]) THEN Absent(values[i], record.collections[i].required)
                  ELSE If(emit, key(names[i], base.val # <<>> \/ there(i - 1) # <<>>))
                       \o parts[i].ops
    IN  [ops |-> base.ops \o FlattenSeq([i \in DOMAIN values |-> ops(i)]),
         val |-> <<"obj", base.val \o [i \in DOMAIN all |-> <<names[all[i]], parts[all[i]].val>>]>>]

(* A list of scalars; a row of them is an object of one name.              *)
ScalarRows(c, items, emit) ==
    [ops |-> FlattenSeq([i \in DOMAIN items |->
        IF items[i] = None \/ (c.unique /\ items[i][1] = "str" /\ items[i][2][3] = 0)
        THEN Failure("InvalidOutput")
        ELSE If(emit, <<<<"emit">>>> \o Bytes(2) \o Bytes(IF i > 1 THEN 1 ELSE 0)
                      \o key(c.name, FALSE) \o scalar(items[i]))
             \o If(c.unique /\ \E j \in 1..(i - 1) : items[j] = items[i], Failure("InvalidOutput"))]),
     val |-> <<"arr", [i \in DOMAIN items |-> <<"obj", <<<<c.name, items[i]>>>>>>]>>]

(* Rows that are records, ids being their identities: each must have one   *)
(* of its own, and one that a selector asks for is the whole answer.       *)
Identified(c) == c.k \in {"ObjectArray", "ObjectEntries"}
RecordRows(c, ids, shown, parts, selector) ==
    LET found == {i \in DOMAIN ids : ids[i] = selector}
        badIdentity(i) ==
            \/ ids[i] = None
            \/ ~valid_identity(ids[i], identity_limit(c))
            \/ \E j \in 1..(i - 1) : c.k = "ObjectArray" /\ ids[j] = ids[i]
        ops(i) ==
            IF Identified(c) /\ badIdentity(i) THEN Failure("InvalidOutput")
            ELSE If(shown[i], <<<<"emit">>>> \o If(selector = None, Bytes(IF i > 1 THEN 1 ELSE 0)))
                 \o parts[i].ops
    IN  [ops |-> FlattenSeq([i \in DOMAIN ids |-> ops(i)])
                 \o If(selector # None /\ found = {}, Failure("SelectionNotObserved")),
         val |-> CASE selector = None -> <<"arr", [i \in DOMAIN ids |-> parts[i].val]>>
                   [] selector # None ->
                        IF found = {} THEN None ELSE parts[CHOOSE i \in found : TRUE].val]

Prefixed(ops, p) == [p EXCEPT !.ops = ops \o @]

RECURSIVE project_record(_, _, _, _)
RECURSIVE project_at(_, _, _, _)

project_record(record, source, id, emit) ==
    LET cs == record.collections
        values == [i \in DOMAIN cs |-> lookup(source, cs[i].collection.source)]
    IN  IF ~IsObject(source) THEN [ops |-> Failure("InvalidOutput"), val |-> None]
        ELSE Assembled(record, record_fields(record.fields, source, id, emit), values,
                       [i \in DOMAIN cs |-> IF Found(values[i])
                                            THEN project_at(cs[i].collection, values[i], None, emit)
                                            ELSE None],
                       emit)

project_rows(c, rows, ids, selector, emit) ==
    LET shown == [i \in DOMAIN rows |-> emit /\ (Identified(c) => selector \in {None, ids[i]})]
        id(i) == IF c.k # "ObjectEntries" THEN None
                 ELSE [name |-> c.key.name, max |-> c.key.max, text |-> ids[i]]
    IN  RecordRows(c, ids, shown,
                   [i \in DOMAIN rows |-> project_record(c.record, rows[i], id(i), shown[i])],
                   selector)

project_at(c, source, selector, emit) ==
    LET objects == c.k = "ObjectEntries"
        values == source[2]
        rows == IF objects THEN [i \in DOMAIN values |-> values[i][2]] ELSE values
        identity(v) == IF Found(v) /\ v[1] = "str" THEN v[2] ELSE None
        ids == [i \in DOMAIN values |->
                  CASE objects -> values[i][1]
                    [] c.k = "ObjectArray" -> identity(lookup(values[i], identity_field(c).source))
                    [] OTHER -> None]
        open == If(emit /\ selector = None, Bytes(2))
    IN  CASE selector # None /\ ~Identified(c) ->
               [ops |-> Failure("InvalidDefinition"), val |-> None]
          [] selector = None /\ c.k = "TextOption" -> project_text_option(c, source, emit)
          [] OTHER ->
               IF source[1] # (IF objects THEN "obj" ELSE "arr")
               THEN [ops |-> open \o Failure("InvalidOutput"), val |-> None]
               ELSE Prefixed(open \o <<<<"scan", Len(values), c.max_items>>>>,
                      IF c.k = "ScalarArray"
                      THEN ScalarRows(c, [i \in DOMAIN values |-> Read(c.value, values[i])], emit)
                      ELSE project_rows(c, rows, ids, selector, emit))

(* The whole projection of an answer: guards, then the record or the       *)
(* collection, with an envelope unless one row is selected.                *)
InEnvelope(p) == [ops |-> Bytes(2) \o key(Word("items"), FALSE) \o p.ops,
                  val |-> <<"obj", <<<<Word("items"), p.val>>>>>>]
Projected(def, selector, source) ==
    LET guards == FlattenSeq([i \in DOMAIN def.reject |->
            If(lookup(source, def.reject[i]) # None, Failure("InvalidOutput"))])
        at == lookup(source, def.collection.source)
        exact == def.select # None
        fails(e) == [ops |-> Failure(e), val |-> None]
    IN  Prefixed(guards,
          IF def.k = "Record" THEN project_record(def.record, source, None, TRUE)
          ELSE IF exact # (selector # None) THEN fails("InvalidDefinition")
          ELSE IF ~Found(at) THEN fails("InvalidOutput")
          ELSE IF exact THEN project_at(def.collection, at, selector, TRUE)
          ELSE InEnvelope(project_at(def.collection, at, None, TRUE)))

(***************************************************************************)
(* Definitions: what validate() demands before a projection is installed.  *)
(***************************************************************************)
MaxSchemaDepth == 8

ValidKind(kind) ==
    CASE kind.k \in {"Boolean", "Counter"} -> TRUE
      [] kind.k = "Text" -> kind.max \in 1..MaxTextBytes
      [] kind.k = "TextEnum" ->
           /\ kind.max \in 1..MaxTextBytes
           /\ Len(kind.values) \in 1..MaxEnumValues
           /\ \A i \in DOMAIN kind.values : valid_identity(kind.values[i], kind.max)
           /\ IsInjective(kind.values)
      [] OTHER ->
           /\ kind.lo <= kind.hi
           /\ kind.lo >= -SafeIntegerMax
           /\ kind.hi <= SafeIntegerMax

(* A segment with a broken escape or a NUL is no segment.                  *)
ValidPointer(p) == \A i \in DOMAIN p : p[i][1] \notin {"nul", "broken"}
pointer_segments(p, rootAllowed) ==
    /\ p = <<>> => rootAllowed
    /\ Len(p) <= MaxPointerDepth
    /\ ValidPointer(p)

(* No selected path covers another.  The code sorts the paths and compares *)
(* neighbours: a prefix sorts right before the first path that extends it. *)
Disjoint(paths) ==
    \A i, j \in DOMAIN paths : i # j => ~IsPrefix(paths[i], paths[j])

validate_fields(record, id, depth) ==
    LET f == record.fields
        c == record.collections
        names == If(id # None, <<id.name>>) \o [i \in DOMAIN f |-> f[i].name]
                 \o [i \in DOMAIN c |-> c[i].name]
    IN  /\ depth <= MaxSchemaDepth
        /\ Len(names) <= MaxRecordFields
        /\ id # None => id.max \in 1..MaxTextBytes
        /\ \A i \in DOMAIN names : identifier(names[i])
        /\ IsInjective(names)
        /\ \A i \in DOMAIN f : ValidKind(f[i].value) /\ pointer_segments(f[i].source, FALSE)
        /\ \A i \in DOMAIN c : pointer_segments(c[i].collection.source, TRUE)
        /\ Disjoint([i \in DOMAIN f |-> f[i].source]
                    \o [i \in DOMAIN c |-> c[i].collection.source])

HasRecord(c) == c.k \in {"RowArray", "ObjectArray", "ObjectEntries"}

(* The number of collections below and including a list of them.           *)
RECURSIVE Nodes(_)
Nodes(cs) ==
    FoldLeft(LAMBDA n, c : n + 1 + (IF HasRecord(c.collection)
                                    THEN Nodes(c.collection.record.collections) ELSE 0),
             0, cs)

RECURSIVE validate_record(_, _, _)
RECURSIVE validate_collection(_, _)

validate_record(record, depth, id) ==
    /\ validate_fields(record, id, depth)
    /\ \A i \in DOMAIN record.collections :
          validate_collection(record.collections[i].collection, depth + 1)

validate_collection(c, depth) ==
    /\ depth <= MaxSchemaDepth
    /\ pointer_segments(c.source, TRUE)
    /\ c.max_items \in 1..MaxCollectionItems
    /\ c.k = "TextOption" => /\ depth # 1
                             /\ c.max \in 1..MaxTextBytes
                             /\ c.max_items \in 1..MaxTextOptionItems
    /\ c.k = "ObjectArray" => identity_limit(c) > 0
    /\ HasRecord(c) =>
         validate_record(c.record, depth + 1, IF c.k = "ObjectEntries" THEN c.key ELSE None)
    /\ c.k = "ScalarArray" => identifier(c.name) /\ ValidKind(c.value)

(* `parameters' is a function from names to [kind, required, allowed].     *)
ValidProjection(def, parameters) ==
    /\ Len(def.reject) <= MaxRootGuards
    /\ \A i \in DOMAIN def.reject : pointer_segments(def.reject[i], FALSE)
    /\ Disjoint(def.reject)
    /\ def.k = "Record" =>
         validate_record(def.record, 1, None) /\ Nodes(def.record.collections) <= MaxCollectionNodes
    /\ def.k = "Collection" =>
         /\ validate_collection(def.collection, 1)
         /\ Nodes(<<[collection |-> def.collection]>>) <= MaxCollectionNodes
         /\ def.select # None =>
              /\ identity_limit(def.collection) > 0
              /\ def.select \in DOMAIN parameters
              /\ parameters[def.select].required
              /\ parameters[def.select].kind = "String"
              /\ \A i \in DOMAIN parameters[def.select].allowed :
                   valid_identity(parameters[def.select].allowed[i], identity_limit(def.collection))

(* The parameter that selects one row, or None.                            *)
Selector(def) == IF def.k = "Collection" THEN def.select ELSE None

(***************************************************************************)
(* The older projection: a list of pointers, with a filter on the names of *)
(* keys.  In scalar mode a container where a leaf is expected is left out. *)
(* An object's key costs a node and must not be longer than a whole result *)
(* may be, before the filter looks at it.                                  *)
(***************************************************************************)
RECURSIVE Redacted(_, _)
Redacted(v, depth) ==
    LET open(i) == v[2][i][1] \notin Sensitive
        kept == SelectSeq([i \in DOMAIN v[2] |-> i], open)
        sub(i) == Redacted(IF IsArray(v) THEN v[2][i] ELSE v[2][i][2], depth + 1)
        node == <<<<"node", depth>>>>
    IN  CASE IsObject(v) ->
               [ops |-> node \o Bytes(2) \o FlattenSeq([i \in DOMAIN v[2] |->
                            <<<<"node", depth + 1>>, <<"name", v[2][i][1][3]>>>>
                            \o If(open(i), key(v[2][i][1], \E j \in 1..(i - 1) : open(j))
                                           \o sub(i).ops)]),
                val |-> <<"obj", [i \in DOMAIN kept |->
                                    <<v[2][kept[i]][1], sub(kept[i]).val>>]>>]
          [] IsArray(v) ->
               [ops |-> node \o Bytes(2) \o FlattenSeq([i \in DOMAIN v[2] |->
                            Bytes(IF i > 1 THEN 1 ELSE 0) \o sub(i).ops]),
                val |-> <<"arr", [i \in DOMAIN v[2] |-> sub(i).val]>>]
          [] OTHER -> [ops |-> node \o scalar(v), val |-> v]

(* The text of a pointer: its segments, a slash before each.               *)
PointerText(p) == <<"ptr", p, FoldLeft(LAMBDA n, t : n + 1 + t[3], 0, p), 0>>

Legacy(pointers, mode, source) ==
    LET value(i) == lookup(source, pointers[i])
        shown(i) == /\ Found(value(i))
                    /\ \A j \in DOMAIN pointers[i] : pointers[i][j] \notin Sensitive
                    /\ mode = "Scalars" => ~IsObject(value(i)) /\ ~IsArray(value(i))
        there == SelectSeq([i \in DOMAIN pointers |-> i], shown)
        sub(i) == Redacted(value(i), 1)
    IN  [ops |-> Bytes(2) \o FlattenSeq([i \in DOMAIN there |->
                    key(PointerText(pointers[there[i]]), i > 1) \o sub(there[i]).ops]),
         val |-> <<"obj", [i \in DOMAIN there |->
                             <<PointerText(pointers[there[i]]), sub(there[i]).val>>]>>]

(***************************************************************************)
(* Reference definitions the properties compare with.                      *)
(***************************************************************************)

(* The number of bytes of a value's JSON encoding.                         *)
RECURSIVE EncodedSize(_)
EncodedSize(v) ==
    LET n == Len(v[2])
        sum(f(_)) == FoldLeft(LAMBDA a, i : a + f(i), 0, [i \in 1..n |-> i])
        commas == IF n = 0 THEN 0 ELSE n - 1
    IN  CASE IsArray(v) -> 2 + commas + sum(LAMBDA i : EncodedSize(v[2][i]))
          [] IsObject(v) -> 2 + commas + sum(LAMBDA i : Encoded(v[2][i][1]) + 1
                                                       + EncodedSize(v[2][i][2]))
          [] v[1] = "str" -> Encoded(v[2])
          [] v[1] = "int" -> Digits(v[2])
          [] v[1] = "bool" -> IF v[2] THEN 4 ELSE 5
          [] v[1] = "null" -> 4

(* Every key at any depth of a value.                                      *)
RECURSIVE Keys(_)
Keys(v) ==
    CASE IsArray(v) -> UNION {Keys(v[2][i]) : i \in DOMAIN v[2]}
      [] IsObject(v) -> UNION {{v[2][i][1]} \cup Keys(v[2][i][2]) : i \in DOMAIN v[2]}
      [] OTHER -> {}
====
