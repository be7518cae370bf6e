------------------------------ MODULE MCFeatures ------------------------------
(* The reviewed features at the limits of the code: every one alone, under  *)
(* the grant it needs and under all the others, and all of them together.   *)
EXTENDS Features

Letters(s) == Len(s)

Ubus0 == {o \in Range(builtins) : o.action.k = "Ubus"}

(* The names of arguments; their order decides no verdict here.             *)
MCTextOrder ==
    Each(<<"config", "cursor", "device", "family", "interface", "mac", "name", "type", "verbose">>, Word)
(* The words that are no identifier, and those sensitive_key() knows.       *)
MCNoIdentifiers ==
    {Word(s) : s \in {".anonymous", ".index", ".type", "bridge-vlan", "dns-search", "dns-server",
                      "ipv4-address", "ipv6-address", "wifi-device"}}
MCNoUbusIdentifiers == {}
MCNoContracts == {}
MCSensitive == {Word(s) : s \in {"PasswordAuth", "RootPasswordAuth", "source_key"}}
MCRange == -200..4000
MCPrograms == {}
MCSpelling == <<>>

Categories == {o.reqs[1][1] : o \in Range(builtins)}
Granting(cs) ==
    [grants |-> [c \in cs |-> [access |-> "Read", execute |-> FALSE]], allow |-> None, deny |-> {}]
MCSetups ==
    {[builtins |-> <<o>>, custom |-> <<>>, policy |-> Granting({o.reqs[1][1]})] : o \in Range(builtins)}
    \cup {[builtins |-> <<o>>, custom |-> <<>>, policy |-> Granting(Categories \ {o.reqs[1][1]})] :
            o \in Range(builtins)}
    \cup {[builtins |-> builtins, custom |-> <<>>, policy |-> Granting(Categories)]}
MCNames == {o.name : o \in Range(builtins)}
MCInputs == {SampleInput(o) : o \in Range(builtins)}
MCDescriptions == {Description(o) : o \in Ubus0}
MCResponses ==
    {[bytes |-> 2, blank |-> FALSE, tail |-> FALSE, value |-> Sample(o)] : o \in Ubus0}
====
