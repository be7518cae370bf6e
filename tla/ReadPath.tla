------------------------------ MODULE ReadPath ------------------------------
(***************************************************************************)
(* The path of one call, from the catalog the server is started with to    *)
(* the result the client gets: list and call of the MCP server, authorize  *)
(* and the order of checks in the dispatcher, the probe, the command, the  *)
(* answer and its projection.  Timing, audit and the cache of observations *)
(* are the business of Dispatcher and CapabilityCache; here every stage is *)
(* what it computes, so that the stages can be compared: each of them      *)
(* checks again what another one has already established.                  *)
(***************************************************************************)
EXTENDS DeviceCodec

CONSTANTS
    Setups,          \* [builtins, custom, policy] a server may be started with
    Names, Inputs,   \* what callers name and pass
    Descriptions,    \* what a device says of its objects
    Responses,       \* what it answers to a call
    MaxOutputBytes,  \* limits.max_output_bytes
    MaxCallResult,   \* MAX_CALL_RESULT_BYTES
    Envelope         \* the bytes of a result around its two copies of the value

VARIABLES
    setup,    \* the configuration
    catalog,  \* the operations installed
    stage,    \* how far the call is
    op,       \* the operation called
    input,    \* its arguments
    inv,      \* the prepared invocation
    obs,      \* the observation of the object
    sent,     \* what went to the device: None or the words of a command
    answer,   \* the decoded answer
    spent,    \* the budget after projection
    result    \* <<"ok", value>>, <<"error", code>> or <<"tools", set>>

vars == <<setup, catalog, stage, op, input, inv, obs, sent, answer, spent, result>>

call == <<op, input, inv, obs, sent, answer, spent>>
Idle == /\ op = None /\ input = None /\ inv = None /\ obs = None
        /\ sent = None /\ answer = None /\ spent = Zero

Init == /\ setup \in Setups
        /\ catalog = <<>> /\ stage = "boot" /\ result = None
        /\ Idle

Answer(r) == stage' = "done" /\ result' = r
Refuse(code) == Answer(<<"error", code>>)

(* The server is composed: the catalog, then the policy over it.           *)
Load ==
    /\ stage = "boot"
    /\ LET c == with_builtins(setup.builtins, setup.custom)
       IN  IF c.err = "ok" /\ ValidPolicy(setup.policy, c.operations)
           THEN catalog' = c.operations /\ stage' = "idle"
           ELSE catalog' = <<>> /\ stage' = "down"
    /\ UNCHANGED <<setup, result, call>>

Available == {o \in Range(catalog) : authorize(setup.policy, o)}

(* What a tool advertises; a fresh package capture invalidates cursors.    *)
Tool(o) ==
    LET readOnly == \A r \in Range(o.reqs) : r[2] = "Read"
    IN  [name |-> o.name, readOnly |-> readOnly, idempotent |-> readOnly /\ ~IsPage(o.action)]
CapabilityTool ==
    [name |-> Word("operation_capability"), readOnly |-> TRUE, idempotent |-> TRUE]

(* The list is one page, so no request may come with a cursor.             *)
ListTools(cursor) ==
    /\ stage = "idle"
    /\ LET tools == {Tool(o) : o \in Available}
       IN  IF cursor THEN Refuse("invalid_cursor")
           ELSE Answer(<<"tools", IF tools = {} THEN {} ELSE tools \cup {CapabilityTool}>>)
    /\ UNCHANGED <<setup, catalog, call>>

Called(name) == {o \in Range(catalog) : o.name = name}

(* call_tool and the first half of invoke().                               *)
CallTool(name, in) ==
    /\ stage = "idle"
    /\ input' = in
    /\ IF Called(name) = {}
       THEN Refuse("UnknownOperation") /\ UNCHANGED <<op, inv>>
       ELSE LET o == CHOOSE x \in Called(name) : TRUE
                p == prepare(o, in)
            IN  IF ~authorize(setup.policy, o)
                THEN Refuse("PermissionDenied") /\ UNCHANGED <<op, inv>>
                ELSE /\ op' = o
                     /\ IF p.err # "ok" THEN Refuse(p.err) /\ UNCHANGED inv
                        ELSE /\ inv' = [action |-> p.action, selector |-> p.selector]
                             /\ stage' = IF IsPage(p.action) THEN "page" ELSE "probe"
                             /\ UNCHANGED result
    /\ UNCHANGED <<setup, catalog, obs, sent, answer, spent>>

(* A package page is served by the paging of the runtime.                  *)
Page == stage = "page" /\ Refuse("paged") /\ UNCHANGED <<setup, catalog, call>>

(* A requirement without a reviewed object is unknown and asks nothing;    *)
(* an answer that does not parse is an unknown observation.                *)
Probe(d) ==
    /\ stage = "probe"
    /\ obs' = IF op.cap.k = "UbusMethod" /\ op.cap.object \in ReviewedObjects
              THEN LET o == parse_ubus_describe(op.cap.object, d, MaxOutputBytes)
                   IN  IF o[1] = "error" THEN <<"unknown", "InvalidObservation">> ELSE o
              ELSE <<"unknown", "UnreviewedProbe">>
    /\ stage' = "verdict"
    /\ UNCHANGED <<setup, catalog, op, input, inv, sent, answer, spent, result>>

Verdict ==
    /\ stage = "verdict"
    /\ LET v == evaluate(op.cap, obs, inv.action)[1]
       IN  CASE v = "Compatible" -> stage' = "execute" /\ UNCHANGED result
             [] v = "Unknown" -> Refuse("CapabilityUnknown")
             [] v = "Incompatible" -> Refuse("CapabilityUnsupported")
    /\ UNCHANGED <<setup, catalog, call>>

Execute(r) ==
    /\ stage = "execute"
    /\ sent' = compile_action(inv.action)
    /\ IF sent' = None THEN Refuse("BackendFailed") /\ UNCHANGED answer
       ELSE LET d == parse_action_response(r, MaxOutputBytes)
            IN  IF d.err # "ok"
                THEN Refuse(IF d.err = "OutputLimit" THEN d.err ELSE "InvalidOutput")
                     /\ UNCHANGED answer
                ELSE answer' = d.value /\ stage' = "project" /\ UNCHANGED result
    /\ UNCHANGED <<setup, catalog, op, input, inv, obs, spent>>

(* PreparedInvocation::project.                                            *)
ProjectionOf(o, selector, v) ==
    IF o.mode = "Typed" THEN Projected(o.proj, selector, v) ELSE Legacy(o.fields, o.mode, v)

(* The result as it is sent: the value as text, escaped once more, and the *)
(* value itself.                                                           *)
RECURSIVE Quotes(_)
Quotes(v) ==
    CASE IsArray(v) -> FoldLeft(LAMBDA n, x : n + Quotes(x), 0, v[2])
      [] IsObject(v) -> FoldLeft(LAMBDA n, x : n + 2 + 2 * x[1][4] + Quotes(x[2]), 0, v[2])
      [] v[1] = "str" -> 2 + 2 * v[2][4]
      [] OTHER -> 0
ResultBytes(v) == Envelope + 2 + 2 * EncodedSize(v) + Quotes(v)

success(v) ==
    IF EncodedSize(v) > MaxNormalizedBytes \/ ResultBytes(v) > MaxCallResult
    THEN <<"error", "OutputLimit">> ELSE <<"ok", v>>

Spends(p) ==
    /\ spent' = Run(p.ops)
    /\ IF spent'.err # "ok" THEN Refuse(spent'.err) ELSE Answer(success(p.val))
Project ==
    /\ stage = "project"
    /\ Spends(ProjectionOf(op, inv.selector, answer))
    /\ UNCHANGED <<setup, catalog, op, input, inv, obs, sent, answer>>

(* The client has its answer and may call again.                           *)
Again ==
    /\ stage = "done"
    /\ stage' = "idle" /\ result' = None
    /\ op' = None /\ input' = None /\ inv' = None /\ obs' = None
    /\ sent' = None /\ answer' = None /\ spent' = Zero
    /\ UNCHANGED <<setup, catalog>>

(* A server that could not be composed serves nothing.                     *)
Down == stage = "down" /\ UNCHANGED vars

Next ==
    \/ Load
    \/ \E cursor \in BOOLEAN : ListTools(cursor)
    \/ \E name \in Names, in \in Inputs : CallTool(name, in)
    \/ Page
    \/ \E d \in Descriptions : Probe(d)
    \/ Verdict
    \/ \E r \in Responses : Execute(r)
    \/ Project
    \/ Again
    \/ Down

Spec == Init /\ [][Next]_vars
-----------------------------------------------------------------------------
(***************************************************************************)
(* Properties.                                                             *)
(***************************************************************************)

(* What a JSON schema validator would say of the input.                    *)
Admits(o, in) ==
    /\ DOMAIN in \subseteq DOMAIN o.params
    /\ \A n \in DOMAIN o.params : o.params[n].required => n \in DOMAIN in
    /\ \A n \in DOMAIN in :
         LET s == input_schema(o, n)
             v == in[n]
         IN  /\ CASE s.type = "String" -> v[1] = "str" /\ v[2][3] \in s.length
                                          /\ (s.pattern => v[2][1] = "cursor")
                  [] s.type = "Integer" -> v[1] = "int" /\ v[2] \in s.range
                  [] s.type = "Boolean" -> v[1] = "bool"
             /\ s.enum # {} => v \in s.enum

(* Once the catalog has taken a definition and prepare() the arguments, no *)
(* later check disagrees: the arguments satisfy the schema the client was  *)
(* shown, the action satisfies the operation's own requirement, it         *)
(* compiles unless the command is too long, its remote form is accepted    *)
(* whenever the local one is, and the projection is never called invalid.  *)
StagesAgree ==
    inv # None =>
      /\ Admits(op, input)
      /\ ~IsPage(inv.action) =>
           /\ evaluate(op.cap, <<"unknown", "ProbeUnavailable">>, inv.action)[2]
                # "InvalidPreparedAction"
           /\ \/ compile_action(inv.action) # None
              \/ CommandCost(Words(inv.action)) > MaxCommandBytes
      /\ sent # None => encode_remote(sent) # None
      /\ spent.err # "InvalidDefinition"

(* The remote shell sees exactly the words of the local command, after     *)
(* "exec", whatever quotes a caller's text contains.                       *)
RemoteIsLiteral ==
    sent # None =>
      /\ ShellWords(encode_remote(sent)) = <<<<"e", "x", "e", "c">>>> \o sent
      /\ Len(encode_remote(sent)) = CommandCost(sent)

(* A device is asked only for an operation the policy grants; an operator's*)
(* extension also needs the two permissions of an extension, and never     *)
(* reaches uci, of which only the reviewed reads exist.  A client that     *)
(* lists the tools sees every operation it could call.                     *)
OnlyGranted ==
    /\ sent # None =>
         /\ op \in Available
         /\ inv.action.k = "Ubus"
         /\ (\E i \in DOMAIN setup.custom : setup.custom[i].name = op.name) =>
              /\ permits(setup.policy.grants["Extensions"], "Write")
              /\ permits(setup.policy.grants["Extensions"], "Execute")
              /\ op.action.object # Word("uci")
         /\ op.action.object = Word("uci") =>
              /\ \E p \in UciReadProfiles :
                   inv.action.args[Word("config")] = <<"str", Word(p.config)>>
                   /\ permits(setup.policy.grants[p.category], "Read")
              /\ inv.action.method = Word("get")
    /\ result # None /\ result[1] = "tools" =>
         \A o \in Available : \E t \in result[2] :
            t.name = o.name /\ (t.readOnly => \A r \in Range(o.reqs) : r[2] = "Read")

(* A key that alone is longer than a result may be; only the older         *)
(* projections look at keys they do not show.                              *)
OverlongKey == op.mode # "Typed" /\ \E k \in Keys(answer) : k[3] > MaxNormalizedBytes

(* Exactly what p charges, and p within the limits.                        *)
Exact(p) ==
    /\ spent.err = "ok" =>
         /\ spent.bytes = EncodedSize(p.val)
         /\ check_normalized_result(p.val) = "ok"
         /\ result = <<"ok", p.val>>
         /\ op.mode # "Typed" => Keys(p.val) \cap Sensitive = {}
    /\ (spent.err = "OutputLimit" /\ \A i \in DOMAIN p.ops : p.ops[i][1] # "fail") =>
         \/ EncodedSize(p.val) > MaxNormalizedBytes
         \/ spent.scanned > MaxCollectionItems \/ spent.emitted > MaxCollectionItems
         \/ spent.nodes > MaxValueNodes
         \/ OverlongKey
         \/ \E i \in DOMAIN p.ops : p.ops[i][1] = "scan" /\ p.ops[i][2] > p.ops[i][3]
         \/ \E i \in DOMAIN p.ops : p.ops[i][1] = "node" /\ p.ops[i][2] > MaxValueDepth

(* A projection is charged exactly the bytes its encoding has, so that a   *)
(* result is refused for its size only when it is too large, has too many  *)
(* items, or is a small one of which an older projection has filtered out  *)
(* a key longer than any result (redact measures a key before it filters   *)
(* it).  What is accepted is accepted again by check_normalized_result and *)
(* by the protocol, and the older projections show no sensitive key.       *)
BudgetIsExact ==
    (stage = "done" /\ answer # None) => Exact(ProjectionOf(op, inv.selector, answer))

(* The answer against `all', the projection without a selector.            *)
ViewOf(all) ==
    LET c == op.proj.collection
        name == IF c.k = "ObjectEntries" THEN c.key.name ELSE c.identity
        rows == {r \in Range(all.val[2][1][2][2]) : Get(r[2], name) = <<"str", inv.selector>>}
        malformed == \E i \in DOMAIN all.ops : all.ops[i] = <<"fail", "InvalidOutput">>
    IN  /\ result[1] = "ok" => ~malformed /\ rows = {result[2]}
        /\ spent.err = "SelectionNotObserved" => ~malformed /\ rows = {}
        /\ spent.err = "InvalidOutput" => malformed

(* Selecting one row is a view of the whole collection: it succeeds only   *)
(* if every row, the others too, is well formed, and then it is the row    *)
(* the unselected projection shows for that identity.                      *)
SelectionIsAView ==
    (stage = "done" /\ answer # None /\ inv.selector # None) =>
      ViewOf(Projected([op.proj EXCEPT !.select = None], None, answer))
====
