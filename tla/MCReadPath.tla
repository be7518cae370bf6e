------------------------------ MODULE MCReadPath ------------------------------
(* Small worlds for ReadPath: definitions, arguments, descriptions and      *)
(* answers of which some are right and most are wrong in one way.           *)
EXTENDS ReadPath

OneByte(s) == 1
A == Word("a")
B == Word("b")
P == Word("p")
N == Word("n")
Quoted == <<"plain", "quoted", 2, 1>>
Long == <<"plain", "long", 3, 0>>
TooLong == <<"plain", "too long", 4, 0>>
Nul == <<"nul", "nul", 1, 5>>
Empty == <<"plain", "", 0, 0>>
CursorText == <<"cursor", "c", 34, 0>>
Ref(s) == <<"str", <<"ref", s, 1, 0>>>>
Str(t) == <<"str", t>>
Num(n) == <<"int", n>>

MCTextOrder ==
    <<Empty, A, B, Word("config"), Word("cursor"), Long, N, Nul, P, Word("q"), Quoted, TooLong,
      Word("type"), Word("values")>>
MCNoUbusIdentifiers == {Empty, Quoted, TooLong, Nul, CursorText}
MCNoIdentifiers == MCNoUbusIdentifiers \cup {Word(".type"), Dec(0)}
MCReviewed == {Word("system"), Word("uci")}
MCSpelling == (Quoted :> <<"'", "x">>) @@ (Long :> <<"x", " ", "'">>) @@ (B :> <<"\\">>)
MCI32 == -2..1
MCI64 == -4..3
MCU64 == 0..7
MCNoContracts == {Word("v1")}
MCPrograms == {Word("/bin/x")}
WidestKey == <<"plain", "widest key", 48, 0>>
WiderKey == <<"plain", "wider key", 49, 0>>
MCSensitive == {Word("key"), WidestKey, WiderKey}

NoFields == <<>>
Allowed == {<<>>, <<Dec(1)>>, <<Dec(3)>>, <<Word("true")>>, <<A, Quoted>>}
Params == {<<>>} \cup {P :> [kind |-> k, required |-> r, allowed |-> a] :
                         k \in {"String", "Integer", "Boolean"}, r \in BOOLEAN, a \in Allowed}

Cap(object, method, args) ==
    [k |-> "UbusMethod", object |-> Word(object), method |-> Word(method), args |-> args,
     contract |-> Word("c.v1")]
Op(action, cap, params) ==
    [name |-> Word("op"), described |-> TRUE, fits |-> TRUE, reqs |-> <<Req("System", "Read")>>,
     params |-> params, action |-> action, cap |-> cap, fields |-> <<>>, mode |-> "Scalars",
     proj |-> None]
UbusOp(object, method, args, kinds, params) ==
    Op([k |-> "Ubus", object |-> Word(object), method |-> Word(method), args |-> args],
       Cap(object, method, kinds), params)

(* Definitions that differ in their arguments.                              *)
ArgumentOps ==
    {UbusOp("system", "info", args, kinds, p) :
       args \in {A :> Ref("p"), A :> Ref("p") @@ B :> Num(1), A :> Ref("q"), A :> Num(3)},
       kinds \in {A :> k : k \in {"String", "Integer", "Boolean"}}
                 \cup {A :> k @@ B :> "Integer" : k \in {"String", "Integer", "Boolean"}},
       p \in Params}
ProcessOps ==
    {Op([k |-> "Process", program |-> Word("/bin/x"), args |-> args], [k |-> "Unverified"], p) :
       args \in {<<Ref("p")>>, <<Str(Quoted)>>, <<Str(A), Ref("p")>>}, p \in Params}
PageOps ==
    {[Op([k |-> a], [k |-> c], Word("cursor") :> [kind |-> "String", required |-> r, allowed |-> <<>>])
        EXCEPT !.reqs = <<Req(cat, "Read")>>] :
       a \in {"ApkInstalledPage", "OpkgStatusPage"}, c \in {"ApkInstalledQuery", "OpkgRootStatusFile"},
       r \in BOOLEAN, cat \in {"System", "Packages"}}

(* Definitions that differ in their projection.                             *)
Scalar(name, value, required) ==
    [name |-> name, source |-> <<name>>, required |-> required, value |-> value]
TextKind == [k |-> "Text", max |-> 3]
Leaf == [fields |-> <<Scalar(N, TextKind, TRUE), Scalar(A, [k |-> "SafeInteger", lo |-> -1, hi |-> 2], FALSE)>>,
         collections |-> <<>>]
Rows == [k |-> "RowArray", source |-> <<B>>, max_items |-> 2, record |-> Leaf]
Named == [k |-> "ObjectArray", source |-> <<B>>, max_items |-> 3, identity |-> N, record |-> Leaf]
Entries == [k |-> "ObjectEntries", source |-> <<B>>, max_items |-> 3,
            key |-> [name |-> P, max |-> 3], record |-> Leaf]
Counters == [k |-> "ScalarArray", source |-> <<B>>, max_items |-> 3, name |-> A, unique |-> TRUE,
             value |-> [k |-> "Counter", text |-> FALSE]]
Option == [k |-> "TextOption", source |-> <<B>>, max_items |-> 2, max |-> 3]
WithInner(c) ==
    [fields |-> <<Scalar(A, [k |-> "FalseOrSafeInteger", lo |-> 0, hi |-> 2], FALSE)>>,
     collections |-> <<[name |-> B, required |-> FALSE, collection |-> c]>>]
Coll(c, select) == [k |-> "Collection", reject |-> <<<<Word("error")>>>>, collection |-> c, select |-> select]
Projections ==
    {[k |-> "Record", reject |-> <<>>, record |-> WithInner(c)] :
       c \in {Rows, Named, Entries, Counters, Option}}
    \cup {Coll(c, s) : c \in {Rows, Named, Entries, Counters, Option}, s \in {None, P}}
    \cup {Coll([Rows EXCEPT !.record = WithInner(Option)], None),
          Coll([Entries EXCEPT !.record = WithInner([Named EXCEPT !.source = <<B>>])], P),
          [k |-> "Record", reject |-> <<>>, record |-> [Leaf EXCEPT !.fields[2].source = <<N, A>>]]}
ProjectionOps ==
    {[UbusOp("system", "info", <<>>, <<>>, p) EXCEPT !.mode = "Typed", !.proj = d] :
       d \in Projections, p \in {<<>>, P :> [kind |-> "String", required |-> TRUE, allowed |-> <<>>]}}
LegacyOps ==
    {[UbusOp("system", "info", <<>>, <<>>, <<>>) EXCEPT !.mode = m, !.fields = f] :
       m \in {"Scalars", "Structured"},
       f \in {<<<<A>>, <<B>>>>, <<<<B, Dec(0)>>, <<B, Word("key")>>, <<N>>>>,
              <<<<B, N>>, <<A>>, <<B>>>>, <<<<Word("key")>>>>}}

(* Definitions with a bad description, and one that is too long.            *)
UnboundedOps ==
    LET plain == UbusOp("system", "info", <<>>, <<>>, <<>>)
    IN  {[plain EXCEPT !.described = FALSE], [plain EXCEPT !.fits = FALSE]}

(* Reads of the configuration, reviewed and not.                            *)
UciProj(section, src) ==
    Coll([k |-> "ObjectEntries", source |-> <<src>>, max_items |-> 2, key |-> [name |-> P, max |-> 3],
          record |-> [fields |-> <<[name |-> A, source |-> <<Word(".type")>>, required |-> TRUE,
                                    value |-> [k |-> "TextEnum", max |-> 3, values |-> <<Word(section)>>]]>>,
                      collections |-> <<>>]], None)
UciOps ==
    {[UbusOp("uci", m, Word("config") :> Str(Word(c)) @@ Word("type") :> Str(Word(s)),
             Word("config") :> "String" @@ Word("type") :> "String", <<>>)
        EXCEPT !.mode = "Typed", !.proj = UciProj(s, src), !.reqs = <<Req(cat, "Read")>>] :
       m \in {"get", "info"}, c \in {"system", "network"}, s \in {"led", "rule", "host"},
       src \in {Word("values"), B}, cat \in {"System", "Network"}}

Grants(x) == ("System" :> [access |-> "Read", execute |-> FALSE])
             @@ ("Network" :> [access |-> "Read", execute |-> FALSE])
             @@ ("Packages" :> [access |-> "Read", execute |-> FALSE])
             @@ ("Extensions" :> x)
Policy(x, allow, deny) == [grants |-> Grants(x), allow |-> allow, deny |-> deny]
FullGrant == [access |-> "ReadWrite", execute |-> TRUE]
Open == Policy(FullGrant, None, {})
Second == [UbusOp("system", "info", <<>>, <<>>, <<>>) EXCEPT !.name = Word("op2")]
Simple == UbusOp("system", "info", A :> Ref("p"), A :> "Integer",
                 P :> [kind |-> "Integer", required |-> TRUE, allowed |-> <<>>])

MCSetups ==
    {[builtins |-> <<o>>, custom |-> <<>>, policy |-> Open] :
       o \in ArgumentOps \cup ProcessOps \cup PageOps \cup ProjectionOps \cup LegacyOps \cup UciOps
                       \cup UnboundedOps}
    \cup {[builtins |-> <<>>, custom |-> <<o>>, policy |-> Open] : o \in LegacyOps \cup UciOps \cup ProcessOps}
    \cup {[builtins |-> <<Second>>, custom |-> c, policy |-> Policy(x, allow, deny)] :
            c \in {<<>>, <<Simple>>, <<Second>>,
                   <<[Simple EXCEPT !.reqs = <<Req("Extensions", "Execute"), Req("System", "Read")>>]>>,
                   <<Simple, [Simple EXCEPT !.name = Word("a")]>>},
            x \in [access : {"Deny", "Read", "ReadWrite"}, execute : BOOLEAN],
            allow \in {None, {Word("op")}, {Word("op"), Word("op2")}},
            deny \in {{}, {Word("op2")}}}

MCNames == {Word("op"), Word("op2")}
Values == {Str(t) : t \in {Empty, A, Quoted, Long, TooLong, Nul, CursorText}}
          \cup {Num(n) : n \in {-3, 1, 3, 7}} \cup {<<"bool", TRUE>>, <<"frac">>, <<"arr", <<>>>>}
MCInputs == {None, <<>>} \cup {P :> v : v \in Values} \cup {Word("cursor") :> v : v \in Values}
            \cup {P :> Num(1) @@ Word("q") :> Num(1)}

Described(methods) ==
    [bytes |-> 2, utf8 |-> TRUE, ended |-> TRUE, header |-> Word("system"), methods |-> methods]
MCDescriptions ==
    {Described(<<<<Word("info"), <<<<A, l>>>>>>>>) : l \in {"String", "Integer", "Boolean", "odd", "broken"}}
    \cup {Described(<<<<Word("info"), <<<<A, "Integer">>, <<B, "Integer">>>>>>>>),
          Described(<<<<Word("info"), <<<<A, "Integer">>, <<A, "String">>>>>>>>),
          Described(<<<<Word("info"), <<>>>>, <<Word("info"), <<<<A, "String">>>>>>>>),
          Described(<<>>),
          [Described(<<<<Word("info"), <<>>>>>>) EXCEPT !.bytes = 0],
          [Described(<<>>) EXCEPT !.bytes = 9],
          [Described(<<<<Word("get"), <<<<Word("config"), "String">>, <<Word("type"), "String">>>>>>>>)
             EXCEPT !.header = Word("uci")]}

Arr(items) == <<"arr", items>>
Obj(pairs) == <<"obj", pairs>>
Obj1(k, v) == Obj(<<<<k, v>>>>)
Obj2(k, v, l, w) == Obj(<<<<k, v>>, <<l, w>>>>)
Row(n, a) == Obj2(A, a, N, n)
RowA == Row(Str(A), Num(1))
RowValues == {RowA, Row(Str(Quoted), Num(-1)), Row(Str(A), Num(3)), Row(Num(1), Num(1)),
              Obj1(N, Str(Long)), Obj(<<>>), Str(A)}
Lists == {Arr(s) : s \in UNION {[1..n -> RowValues] : n \in 0..2}}
         \cup {Arr(s) : s \in {<<Str(A), Str(A)>>, <<Num(1), Num(2)>>, <<Num(1), Num(1)>>,
                               <<RowA, Row(Str(Long), Num(1)), Row(Str(Quoted), Num(1))>>,
                               <<Num(1), Num(2), Num(3)>>}}
Maps == {Obj2(A, x, Quoted, y) : x \in RowValues, y \in RowValues}
        \cup {Obj1(Empty, RowA), Obj(<<>>), Obj2(Word("key"), Str(A), N, Num(2)),
              Obj2(N, Num(2), WidestKey, Str(A)), Obj2(N, Num(2), WiderKey, Str(A)),
              Obj2(A, Obj1(B, Arr(<<RowA>>)), Quoted, Obj2(A, <<"bool", FALSE>>, B, Arr(<<RowA>>)))}
MCResponses ==
    LET ok(v) == [bytes |-> 2, blank |-> FALSE, tail |-> FALSE, value |-> v]
    IN  {ok(Obj2(A, Num(1), B, b)) : b \in Lists \cup Maps \cup {Str(A), Str(TooLong), Num(2)}}
        \cup {ok(v) : v \in {Obj2(B, Arr(<<>>), Word("error"), Num(1)), Obj1(A, <<"bool", FALSE>>),
                             Obj2(A, Num(1), A, Num(2)), <<"broken">>,
                             Arr(<<Arr(<<Arr(<<Arr(<<Arr(<<>>)>>)>>)>>)>>),
                             Obj1(N, Str(Quoted)), Obj1(N, RowA)}}
        \cup {ok(Obj1(Word("values"), Obj1(A, Obj1(Word(".type"), Str(Word(t)))))) : t \in {"led", "rule"}}
        \cup {[ok(Num(1)) EXCEPT !.blank = TRUE], [ok(Num(1)) EXCEPT !.tail = TRUE],
              [ok(Num(1)) EXCEPT !.bytes = 9]}
====
