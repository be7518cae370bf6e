------------------------------ MODULE Operations ------------------------------
(***************************************************************************)
(* Operation definitions: what makes one valid, the catalog they form, the *)
(* policy over them, the device action a caller's arguments prepare, the   *)
(* schema a caller is shown, and the verdict of a device's own description *)
(* of a method (crates/core/src: operation, catalog, policy, capability,   *)
(* uci).                                                                   *)
(*                                                                         *)
(* A definition is a record [name, described, reqs, params, action, cap,   *)
(* fields, mode, fits]: `described' stands for the bounds of the           *)
(* description, `fits' for the bound of the serialized definition.         *)
(***************************************************************************)
EXTENDS Projection

CONSTANTS
    NoUbusIdentifiers, \* the texts ubus_identifier() refuses
    NoContracts,       \* the texts response_identifier() refuses
    Programs,          \* the texts that are clean absolute paths of a program
    MaxParameters,     \* MAX_PARAMETERS
    MaxArguments,      \* MAX_ARGUMENTS
    MaxOutputFields,   \* MAX_OUTPUT_FIELDS
    MaxValueBytes,     \* MAX_VALUE_BYTES
    MaxRequirements,   \* 36: twelve categories, three permissions
    MaxAllowed,        \* 64 allowed values
    MaxCustomOperations,
    MaxObservedMethods,
    ReviewedObjects,   \* ReviewedObject::ALL
    I32                \* the range of an integer ubus transmits

(***************************************************************************)
(* Policy.                                                                 *)
(***************************************************************************)
Req(category, permission) == <<category, permission>>

permits(grant, permission) ==
    /\ grant.access # "Deny"
    /\ permission = "Write" => grant.access = "ReadWrite"
    /\ permission = "Execute" => grant.execute

NoGrant == [access |-> "Deny", execute |-> FALSE]

(* A policy is [grants, allow, deny]; allow is None or a set of names.     *)
authorize(policy, op) ==
    /\ op.reqs # <<>>
    /\ op.name \notin policy.deny
    /\ policy.allow # None => op.name \in policy.allow
    /\ \A r \in Range(op.reqs) :
         permits(IF r[1] \in DOMAIN policy.grants THEN policy.grants[r[1]] ELSE NoGrant, r[2])

(* Every name a policy mentions exists.                                    *)
ValidPolicy(policy, catalog) ==
    LET names == {catalog[i].name : i \in DOMAIN catalog}
    IN  /\ policy.deny \subseteq names
        /\ policy.allow # None => policy.allow \subseteq names

(***************************************************************************)
(* Values and references.                                                  *)
(***************************************************************************)
ubus_identifier(t) == t \notin NoUbusIdentifiers

(* A literal of a definition that is exactly "{name}" refers to a          *)
(* parameter; a caller's text is never looked at this way.                 *)
parameter_reference(v) ==
    IF v[1] = "str" /\ v[2][1] = "ref" THEN Word(v[2][2]) ELSE None

checked_integer(v) == v[1] = "int" /\ v[2] \in I32

scalar_text(v) ==
    CASE v[1] = "str" -> v[2]
      [] v[1] = "int" -> Dec(v[2])
      [] v[1] = "bool" -> Word(IF v[2] THEN "true" ELSE "false")
      [] OTHER -> None

IsPage(action) == action.k \in {"ApkInstalledPage", "OpkgStatusPage"}

(* The kinds of value a parameter takes.  Only ubus narrows an integer, to *)
(* what it transmits; the mutant does not.                                 *)
OfWideKind(kind, action, v) ==
    CASE kind = "String" -> v[1] = "str" /\ bounded_string(v[2], MaxValueBytes)
      [] kind = "Integer" -> v[1] = "int" /\ v[2] \in I64 \cup U64
      [] kind = "Boolean" -> v[1] = "bool"
OfKind(kind, action, v) ==
    CASE kind = "String" -> v[1] = "str" /\ bounded_string(v[2], MaxValueBytes)
      [] kind = "Integer" -> IF action.k = "Ubus" THEN checked_integer(v)
                             ELSE v[1] = "int" /\ v[2] \in I64 \cup U64
      [] kind = "Boolean" -> v[1] = "bool"

(***************************************************************************)
(* Definitions.                                                            *)
(***************************************************************************)
disjoint_output_fields(pointers) ==
    /\ Len(pointers) <= MaxOutputFields
    /\ \A i \in DOMAIN pointers : pointers[i] # <<>> /\ ValidPointer(pointers[i])
    /\ Disjoint(pointers)

ValidParameter(name, p, action) ==
    /\ identifier(name)
    /\ Len(p.allowed) <= MaxAllowed
    /\ IsInjective(p.allowed)
    /\ \A t \in Range(p.allowed) :
         /\ bounded_string(t, MaxValueBytes)
         /\ p.kind = "Integer" =>
              t[1] = "dec" /\ t[2] \in (IF action.k = "Ubus" THEN I32 ELSE I64 \cup U64)
         /\ p.kind = "Boolean" => t \in {Word("true"), Word("false")}

(* A literal or a reference to a declared parameter.                       *)
ValidLiteral(op, v) ==
    /\ bounded_string(v[2], MaxValueBytes)
    /\ LET name == parameter_reference(v)
       IN  name # None => identifier(name) /\ name \in DOMAIN op.params

ValidAction(op) ==
    LET a == op.action
    IN  CASE IsPage(a) ->
               /\ DOMAIN op.params = {Word("cursor")}
               /\ op.params[Word("cursor")] = [kind |-> "String", required |-> FALSE, allowed |-> <<>>]
               /\ op.fields = <<>>
               /\ op.mode = "Scalars"
               /\ Req("Packages", "Read") \in Range(op.reqs)
          [] a.k = "Ubus" ->
               /\ ubus_identifier(a.object) /\ ubus_identifier(a.method)
               /\ Cardinality(DOMAIN a.args) <= MaxArguments
               /\ \A k \in DOMAIN a.args :
                    /\ identifier(k)
                    /\ \/ a.args[k][1] = "str" /\ ValidLiteral(op, a.args[k])
                       \/ a.args[k][1] = "bool"
                       \/ checked_integer(a.args[k])
          [] a.k = "Process" ->
               /\ a.program \in Programs
               /\ Len(a.args) <= MaxArguments
               /\ \A v \in Range(a.args) :
                    /\ ValidLiteral(op, v)
                    /\ LET name == parameter_reference(v)
                       IN  name # None => op.params[name].required

(* The parameters a definition makes use of.                               *)
Used(op) ==
    LET literals == IF IsPage(op.action) THEN {} ELSE Range(op.action.args)
    IN  ({parameter_reference(v) : v \in literals} \ {None})
        \cup (IF IsPage(op.action) THEN {Word("cursor")} ELSE {})
        \cup (IF op.mode = "Typed" THEN {Selector(op.proj)} \ {None} ELSE {})

(* The reviewed configuration reads: config, section type, category.       *)
UciReadProfiles ==
    [config : {"system"}, section : {"system", "timeserver", "led"}, category : {"System"}]
    \cup [config : {"dropbear"}, section : {"dropbear"}, category : {"System"}]
    \cup [config : {"uhttpd"}, section : {"uhttpd"}, category : {"System"}]
    \cup [config : {"network"}, category : {"Network"}, section :
            {"interface", "device", "bridge-vlan", "route", "route6", "rule", "rule6"}]
    \cup [config : {"wireless"}, section : {"wifi-device"}, category : {"Wireless"}]
    \cup [config : {"firewall"}, category : {"Firewall"}, section :
            {"defaults", "zone", "forwarding", "rule", "redirect", "nat"}]
    \cup [config : {"dhcp"}, category : {"DhcpDns"}, section :
            {"dnsmasq", "dhcp", "host", "domain", "cname", "odhcpd"}]
    \cup [config : {"fstab"}, section : {"mount", "global", "swap"}, category : {"Storage"}]

MaxUciItems == 128
MaxUciKeyBytes == 256

(* A uci call is one of these reads, of every section of one type, with    *)
(* the type checked again in the answer.                                   *)
validate_read(op) ==
    (op.action.k = "Ubus" /\ op.action.object = Word("uci")) =>
      \E p \in UciReadProfiles :
        /\ op.action.args = (Word("config") :> <<"str", Word(p.config)>>
                             @@ Word("type") :> <<"str", Word(p.section)>>)
        /\ op.action.method = Word("get")
        /\ DOMAIN op.params = {}
        /\ Req(p.category, "Read") \in Range(op.reqs)
        /\ op.mode = "Typed"
        /\ op.proj.k = "Collection"
        /\ op.proj.select = None
        /\ LET c == op.proj.collection
           IN  /\ c.k = "ObjectEntries"
               /\ c.source = <<Word("values")>>
               /\ c.max_items \in 1..MaxUciItems
               /\ c.key.max \in 1..MaxUciKeyBytes
               /\ \A i \in DOMAIN c.record.collections :
                    c.record.collections[i].collection.k = "TextOption"
               /\ <<Word("error")>> \in Range(op.proj.reject)
               /\ \E i \in DOMAIN c.record.fields :
                    LET f == c.record.fields[i]
                    IN  /\ f.source = <<Word(".type")>>
                        /\ f.required
                        /\ f.value.k = "TextEnum"
                        /\ f.value.values = <<Word(p.section)>>

(***************************************************************************)
(* Capability requirements.                                                *)
(***************************************************************************)
valid_shape(cap) ==
    cap.k = "UbusMethod" =>
      /\ ubus_identifier(cap.object) /\ ubus_identifier(cap.method)
      /\ Cardinality(DOMAIN cap.args) <= MaxArguments
      /\ \A k \in DOMAIN cap.args : identifier(k)
      /\ cap.contract \notin NoContracts

(* The kind an argument of a definition will have when it is sent.         *)
KindOf(op, v) ==
    LET name == parameter_reference(v)
    IN  CASE name # None -> op.params[name].kind
          [] name = None /\ v[1] = "str" -> "String"
          [] v[1] = "bool" -> "Boolean"
          [] v[1] = "int" -> "Integer"

(* The requirement describes the action of its own definition.             *)
validate_for(op) ==
    LET a == op.action
        cap == op.cap
    IN  /\ valid_shape(cap)
        /\ <<cap.k, a.k>> \in {<<"ApkInstalledQuery", "ApkInstalledPage">>,
                               <<"OpkgRootStatusFile", "OpkgStatusPage">>,
                               <<"Unverified", "Process">>, <<"UbusMethod", "Ubus">>}
        /\ a.k = "Ubus" =>
             /\ cap.object = a.object /\ cap.method = a.method
             /\ cap.args = [k \in DOMAIN a.args |-> KindOf(op, a.args[k])]

Valid(op) ==
    /\ identifier(op.name)
    /\ op.name # Word("operation_capability")
    /\ op.described
    /\ Len(op.reqs) \in 1..MaxRequirements
    /\ IsInjective(op.reqs)
    /\ Cardinality(DOMAIN op.params) <= MaxParameters
    /\ disjoint_output_fields(op.fields)
    /\ \A name \in DOMAIN op.params : ValidParameter(name, op.params[name], op.action)
    /\ op.mode = "Typed" => op.fields = <<>> /\ ValidProjection(op.proj, op.params)
    /\ ValidAction(op)
    /\ DOMAIN op.params \subseteq Used(op)
    /\ validate_read(op)
    /\ validate_for(op)
    /\ op.fits

(***************************************************************************)
(* The catalog: reviewed features first, then the operator's extensions,   *)
(* which get the permissions of an extension added.                        *)
(***************************************************************************)
ExtendedForWrite(op) ==
    [op EXCEPT !.reqs = @ \o SelectSeq(<<Req("Extensions", "Write")>>,
                                       LAMBDA r : r \notin Range(op.reqs))]
Extended(op) ==
    LET lacking == SelectSeq(<<Req("Extensions", "Write"), Req("Extensions", "Execute")>>,
                             LAMBDA r : r \notin Range(op.reqs))
    IN  [op EXCEPT !.reqs = @ \o lacking]

(* [err, operations]: the first check that fails decides.                  *)
with_builtins(builtins, custom) ==
    LET names(s) == [i \in DOMAIN s |-> s[i].name]
        uci(op) == op.action.k = "Ubus" /\ op.action.object = Word("uci")
        refused(i) ==
            CASE uci(custom[i]) -> "InvalidDefinition"
              [] ~uci(custom[i]) /\ custom[i].name \in
                   Range(names(builtins \o SubSeq(custom, 1, i - 1))) -> "DuplicateOperation"
              [] ~Valid(custom[i]) \/ ~Valid(Extended(custom[i])) -> "InvalidDefinition"
              [] OTHER -> "ok"
        bad == {i \in DOMAIN custom : refused(i) # "ok"}
        err == CASE Len(custom) > MaxCustomOperations -> "CatalogLimitExceeded"
                 [] \E i \in DOMAIN builtins : builtins[i].mode = "Structured" -> "InvalidDefinition"
                 [] ~IsInjective(names(builtins)) -> "DuplicateOperation"
                 [] bad # {} -> refused(CHOOSE i \in bad : \A j \in bad : i <= j)
                 [] \E i \in DOMAIN builtins : ~Valid(builtins[i]) -> "InvalidDefinition"
                 [] OTHER -> "ok"
    IN  [err |-> err,
         operations |-> IF err = "ok" THEN builtins \o [i \in DOMAIN custom |-> Extended(custom[i])]
                        ELSE <<>>]

(***************************************************************************)
(* Preparing an action.  The input is None (not an object) or a function   *)
(* from names to values.                                                   *)
(***************************************************************************)
Accepts(p, action, v) ==
    /\ OfKind(p.kind, action, v)
    /\ p.allowed # <<>> => scalar_text(v) \in Range(p.allowed)

(* The first parameter, in their order, that the input fails.              *)
ArgumentError(op, input) ==
    LET failing == {n \in DOMAIN op.params :
                      IF n \in DOMAIN input THEN ~Accepts(op.params[n], op.action, input[n])
                      ELSE op.params[n].required}
        first == CHOOSE n \in failing : \A m \in failing : Position(n) <= Position(m)
        sel == IF op.mode = "Typed" THEN Selector(op.proj) ELSE None
    IN  CASE ~(DOMAIN input \subseteq DOMAIN op.params) -> "UnknownArgument"
          [] DOMAIN input \subseteq DOMAIN op.params /\ failing # {} ->
               IF first \in DOMAIN input THEN "InvalidArguments" ELSE "MissingArgument"
          [] failing = {} /\ sel # None /\ sel \in DOMAIN input
                /\ ~valid_identity(input[sel][2], identity_limit(op.proj.collection)) ->
               "InvalidArguments"
          [] OTHER -> "ok"

Substituted(op, v, input) ==
    IF parameter_reference(v) = None THEN v ELSE input[parameter_reference(v)]

PreparedAction(op, input) ==
    LET a == op.action
        sent == {k \in DOMAIN a.args :
                   parameter_reference(a.args[k]) \in {None} \cup DOMAIN input}
    IN  CASE IsPage(a) -> [k |-> a.k, cursor |-> IF Word("cursor") \in DOMAIN input
                                                THEN input[Word("cursor")][2] ELSE None]
          [] a.k = "Ubus" -> [k |-> "Ubus", object |-> a.object, method |-> a.method,
                              args |-> [k \in sent |-> Substituted(op, a.args[k], input)]]
          [] a.k = "Process" -> [k |-> "Process", program |-> a.program,
                                 args |-> [i \in DOMAIN a.args |->
                                             scalar_text(Substituted(op, a.args[i], input))]]

(* prepare_invocation: the action and the bound selector, or an error.     *)
prepare(op, input) ==
    LET err == CASE ~Valid(op) -> "InvalidDefinition"
                 [] Valid(op) /\ input = None -> "InvalidArguments"
                 [] OTHER -> ArgumentError(op, input)
        badCursor == /\ IsPage(op.action)
                     /\ Word("cursor") \in DOMAIN input
                     /\ input[Word("cursor")][2][1] # "cursor"
        sel == IF op.mode = "Typed" THEN Selector(op.proj) ELSE None
    IN  CASE err # "ok" -> [err |-> err]
          [] err = "ok" /\ badCursor -> [err |-> "InvalidArguments"]
          [] OTHER -> [err |-> "ok", action |-> PreparedAction(op, input),
                       selector |-> IF sel = None THEN None ELSE input[sel][2]]

(***************************************************************************)
(* The schema shown to callers: for a parameter the set of constraints a   *)
(* JSON schema validator applies.                                          *)
(***************************************************************************)
CursorBytes == 34..37
input_schema(op, name) ==
    LET p == op.params[name]
        typed == op.mode = "Typed" /\ Selector(op.proj) = name
    IN  [type |-> p.kind,
         length |-> CASE IsPage(op.action) -> CursorBytes
                      [] typed -> 1..identity_limit(op.proj.collection)
                      [] OTHER -> 0..MaxValueBytes,
         pattern |-> IsPage(op.action),
         range |-> IF op.action.k = "Ubus" THEN I32 ELSE I64 \cup U64,
         enum |-> {CASE p.kind = "String" -> <<"str", t>>
                     [] p.kind = "Integer" -> <<"int", t[2]>>
                     [] p.kind = "Boolean" -> <<"bool", t = Word("true")>> : t \in Range(p.allowed)}]

(***************************************************************************)
(* The verdict on what a device said of its methods.                       *)
(* An observation is <<"unknown", reason>> or <<"ubus", object, methods>>. *)
(***************************************************************************)
ValidObservation(methods) ==
    /\ Cardinality(DOMAIN methods) <= MaxObservedMethods
    /\ \A m \in DOMAIN methods :
         /\ ubus_identifier(m)
         /\ Cardinality(DOMAIN methods[m]) <= MaxArguments
         /\ \A a \in DOMAIN methods[m] : ubus_identifier(a)

value_matches(v, kind) == OfKind(kind, [k |-> "Ubus"], v)

(* `prepared' is None for a status query about the whole signature.        *)
evaluate(cap, obs, prepared) ==
    LET unfit == /\ prepared # None
                 /\ \/ prepared.k # "Ubus"
                    \/ prepared.object # cap.object
                    \/ prepared.method # cap.method
                    \/ \E k \in DOMAIN prepared.args :
                         k \notin DOMAIN cap.args \/ ~value_matches(prepared.args[k], cap.args[k])
        needed == IF prepared = None THEN DOMAIN cap.args
                  ELSE DOMAIN cap.args \cap DOMAIN prepared.args
        seen == obs[3][cap.method]
        label(k) == IF k \in DOMAIN seen THEN seen[k] ELSE "missing"
    IN  CASE cap.k # "UbusMethod" -> <<"Unknown", "UnreviewedProbe">>
          [] cap.k = "UbusMethod" /\ ~valid_shape(cap) -> <<"Unknown", "InvalidObservation">>
          [] cap.k = "UbusMethod" /\ valid_shape(cap) /\ cap.object \notin ReviewedObjects ->
               <<"Unknown", "UnreviewedProbe">>
          [] OTHER ->
               IF unfit THEN <<"Incompatible", "InvalidPreparedAction">>
               ELSE IF obs[1] = "unknown" THEN <<"Unknown", obs[2]>>
               ELSE IF obs[2] # cap.object \/ ~ValidObservation(obs[3])
               THEN <<"Unknown", "InvalidObservation">>
               ELSE IF cap.method \notin DOMAIN obs[3] THEN <<"Unknown", "NotObservedOrHidden">>
               ELSE IF \E k \in needed : label(k) \notin {"missing", "Unknown", cap.args[k]}
               THEN <<"Incompatible", "ArgumentTypeMismatch">>
               ELSE IF \E k \in needed : label(k) = "missing"
               THEN <<"Unknown", "IncompleteSignature">>
               ELSE IF \E k \in needed : label(k) = "Unknown"
               THEN <<"Unknown", "UnrecognizedType">>
               ELSE <<"Compatible", "">>
====
