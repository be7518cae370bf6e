------------------------------- MODULE Features -------------------------------
(***************************************************************************)
(* The reviewed features (crates/features): the operations every server    *)
(* starts with, as data for the path of ReadPath.  The definitions are     *)
(* checked at start against rules that live in another crate, against the  *)
(* device through a list of objects in a third place, and against answers  *)
(* only when they come; the property is that the three agree.              *)
(*                                                                         *)
(* Descriptions are left out, sources are written as the words of their    *)
(* pointers.                                                               *)
(***************************************************************************)
EXTENDS ReadPath

CONSTANTS I32Max, U32Max   \* i32::MAX, u32::MAX, small enough to count with

(* The objects a probe may ask for: ReviewedObject::ALL.  The mutant has   *)
(* not been told of the newest.                                            *)
OldObjects ==
    {Word("system"), Word("network.device"), Word("network.interface"),
     Word("network.interface.lan"), Word("network.interface.wan"), Word("iwinfo"),
     Word("service"), Word("luci"), Word("uci")}
ALL ==
    {Word("system"), Word("network.device"), Word("network.interface"),
     Word("network.interface.lan"), Word("network.interface.wan"), Word("iwinfo"),
     Word("service"), Word("luci"), Word("luci-rpc"), Word("uci")}

(***************************************************************************)
(* Recipes (definition.rs).                                                *)
(***************************************************************************)
Each(names, F(_)) == [i \in DOMAIN names |-> F(names[i])]
Paths(names) == Each(names, LAMBDA n : <<Word(n)>>)
Under(name, paths) == Each(paths, LAMBDA p : <<Word(name)>> \o p)
Pairs(s) == [i \in 1..(Len(s) \div 2) |-> <<s[2 * i - 1], s[2 * i]>>]

Text(max) == [k |-> "Text", max |-> max]
Boolean == [k |-> "Boolean"]
Integer(lo, hi) == [k |-> "SafeInteger", lo |-> lo, hi |-> hi]
Decimal == [k |-> "Counter", text |-> FALSE]

From(name, path, required, value) ==
    [name |-> Word(name), source |-> Each(path, Word), required |-> required, value |-> value]
Required(name, value) == From(name, <<name>>, TRUE, value)
Optional(name, value) == From(name, <<name>>, FALSE, value)

Typed(operation, collection, select, reject) ==
    [operation EXCEPT !.mode = "Typed",
        !.proj = [k |-> "Collection", reject |-> reject, collection |-> collection,
                  select |-> select]]
NoError == <<<<Word("error")>>>>

Contract(name, version) == <<"contract", <<name, version>>, WordBytes(name) + 3, 0>>

read(name, category, object, method, version, fields) ==
    [name |-> Word(name), described |-> TRUE, fits |-> TRUE, reqs |-> <<Req(category, "Read")>>,
     params |-> <<>>, fields |-> fields, mode |-> "Scalars", proj |-> None,
     action |-> [k |-> "Ubus", object |-> Word(object), method |-> Word(method), args |-> <<>>],
     cap |-> [k |-> "UbusMethod", object |-> Word(object), method |-> Word(method),
              args |-> <<>>, contract |-> Contract(name, version)]]

(* The template and the type it is required to have, added together.       *)
with_argument(operation, name, kind, value) ==
    [operation EXCEPT !.action.args = (Word(name) :> value) @@ @,
                      !.cap.args = (Word(name) :> kind) @@ @]

Parameter(name) == Word(name) :> [kind |-> "String", required |-> TRUE, allowed |-> <<>>]
Reference(name) == <<"str", <<"ref", name, WordBytes(name) + 2, 0>>>>

interface_observation(name, category, collections) ==
    LET operation == [read(name, category, "network.interface", "dump", 1, <<>>)
                        EXCEPT !.params = Parameter("interface")]
    IN  Typed(operation,
              [k |-> "ObjectArray", source |-> <<Word("interface")>>, max_items |-> 128,
               identity |-> Word("interface"),
               record |-> [fields |-> <<Required("interface", Text(256)), Required("up", Boolean)>>,
                           collections |-> collections]],
              Word("interface"), NoError)

Profile(config, section) ==
    CHOOSE p \in UciReadProfiles : p.config = config /\ p.section = section

uci_read_with_options(name, version, profile, scalars, options) ==
    LET whole == read(name, profile.category, "uci", "get", version, <<>>)
        typed == with_argument(with_argument(whole, "config", "String", <<"str", Word(profile.config)>>),
                         "type", "String", <<"str", Word(profile.section)>>)
        section == <<From("section_type", <<".type">>, TRUE,
                          [k |-> "TextEnum", max |-> 16, values |-> <<Word(profile.section)>>]),
                     From("anonymous", <<".anonymous">>, TRUE, Boolean),
                     From("index", <<".index">>, TRUE, Integer(0, U32Max))>>
    IN  Typed(typed,
              [k |-> "ObjectEntries", source |-> <<Word("values")>>, max_items |-> 128,
               key |-> [name |-> Word("section"), max |-> 256],
               record |->
                 [fields |-> section \o Each(Pairs(scalars), LAMBDA o : Optional(o[1], Text(o[2]))),
                  collections |-> Each(Pairs(options), LAMBDA o :
                    [name |-> Word(o[1]), required |-> FALSE,
                     collection |-> [k |-> "TextOption", source |-> <<Word(o[1])>>,
                                     max_items |-> 128, max |-> o[2]]])]],
              None, NoError)
uci_read(name, profile, scalars) == uci_read_with_options(name, 1, profile, scalars, <<>>)

(***************************************************************************)
(* System.                                                                 *)
(***************************************************************************)
system_configuration ==
    <<uci_read_with_options("system_timeserver_configuration", 1, Profile("system", "timeserver"),
        <<"enabled", 8, "enable_server", 8, "use_dhcp", 8, "interface", 256>>,
        <<"server", 1024, "dhcp_interface", 256>>),
      uci_read_with_options("system_led_configuration", 1, Profile("system", "led"),
        <<"name", 256, "sysfs", 256, "trigger", 64, "dev", 256, "default", 8,
          "inverted", 8, "brightness", 32, "delayon", 32, "delayoff", 32,
          "interval", 32, "port_state", 32, "delay", 32, "gpio", 32, "port_mask", 32,
          "speed_mask", 32>>,
        <<"mode", 256, "port", 256>>),
      uci_read_with_options("system_dropbear_configuration", 1, Profile("dropbear", "dropbear"),
        <<"enable", 8, "PasswordAuth", 8, "RootPasswordAuth", 8, "RootLogin", 8,
          "GatewayPorts", 8, "LocalPortForward", 8, "RemotePortForward", 8, "Port", 32,
          "Interface", 256, "DirectInterface", 256, "SSHKeepAlive", 32,
          "IdleTimeout", 32, "MaxAuthTries", 32, "RecvWindowSize", 32, "mdns", 8>>,
        <<>>),
      uci_read_with_options("system_uhttpd_configuration", 1, Profile("uhttpd", "uhttpd"),
        <<"redirect_https", 8, "rfc1918_filter", 8, "max_requests", 32,
          "max_connections", 32, "script_timeout", 32, "network_timeout", 32,
          "http_keepalive", 32, "tcp_keepalive", 32, "no_symlinks", 8,
          "no_dirlists", 8, "no_ubusauth", 8>>,
        <<"listen_http", 256, "listen_https", 256>>)>>

system ==
    <<uci_read("system_configuration", Profile("system", "system"),
        <<"hostname", 256, "timezone", 256, "zonename", 256>>),
      read("system_board", "System", "system", "board", 1,
           Paths(<<"kernel", "system", "model", "board_name">>)
           \o Under("release", Paths(<<"distribution", "version", "revision", "target",
                                       "description">>))),
      read("system_info", "System", "system", "info", 1,
           Paths(<<"localtime", "uptime">>)
           \o Under("load", <<<<Dec(0)>>, <<Dec(1)>>, <<Dec(2)>>>>)
           \o Under("memory", Paths(<<"total", "free", "shared", "buffered", "available">>))
           \o Under("swap", Paths(<<"total", "free">>))
           \o Under("root", Paths(<<"total", "free">>)))>>
    \o system_configuration

(***************************************************************************)
(* Network.                                                                *)
(***************************************************************************)
RouteOptions ==
    <<"interface", 256, "target", 256, "netmask", 64, "gateway", 256, "metric", 32,
      "mtu", 32, "table", 64, "valid", 32, "source", 256, "onlink", 8, "type", 64,
      "proto", 64, "disabled", 8>>
RuleOptions ==
    <<"in", 256, "out", 256, "invert", 8, "src", 256, "dest", 256, "priority", 32,
      "tos", 32, "mark", 64, "lookup", 64, "suppress_prefixlength", 32,
      "uidrange", 64, "action", 64, "goto", 32, "ipproto", 64, "sport", 64,
      "dport", 64, "disabled", 8>>

network_configuration ==
    <<uci_read_with_options("network_device_configuration", 1, Profile("network", "device"),
        <<"name", 256, "type", 64, "ifname", 256, "vid", 32, "mtu", 32, "mtu6", 32,
          "macaddr", 17, "enabled", 8, "ipv6", 8, "stp", 8, "stp_kernel", 8,
          "stp_proto", 64, "forward_delay", 32, "priority", 32, "ageing_time", 32,
          "igmp_snooping", 8, "multicast_querier", 8, "bridge_empty", 8,
          "vlan_filtering", 8>>,
        <<"ports", 256, "ingress_qos_mapping", 256, "egress_qos_mapping", 256>>),
      uci_read_with_options("network_bridge_vlan_configuration", 1, Profile("network", "bridge-vlan"),
        <<"device", 256, "vlan", 32, "local", 8>>,
        <<"ports", 256, "alias", 256>>),
      uci_read("network_route_v4_configuration", Profile("network", "route"), RouteOptions),
      uci_read("network_route_v6_configuration", Profile("network", "route6"), RouteOptions),
      uci_read("network_rule_v4_configuration", Profile("network", "rule"), RuleOptions),
      uci_read("network_rule_v6_configuration", Profile("network", "rule6"), RuleOptions)>>

Rows(name, source, fields) ==
    [name |-> Word(name), required |-> FALSE,
     collection |-> [k |-> "RowArray", source |-> Each(source, Word), max_items |-> 128,
                     record |-> [fields |-> fields, collections |-> <<>>]]]

addresses ==
    LET fields(max, mask) ==
            <<Required("address", Text(max)), Required("mask", Integer(0, mask)),
              Optional("ptpaddress", Text(max)),
              From("preferred_seconds", <<"preferred">>, FALSE, Integer(0, U32Max)),
              From("valid_seconds", <<"valid">>, FALSE, Integer(0, U32Max)),
              Optional("class", Text(256))>>
    IN  interface_observation("network_interface_addresses", "Network",
          <<Rows("ipv4_addresses", <<"ipv4-address">>, fields(15, 32)),
            Rows("inactive_ipv4_addresses", <<"inactive", "ipv4-address">>, fields(15, 32)),
            Rows("ipv6_addresses", <<"ipv6-address">>, fields(45, 128)),
            Rows("inactive_ipv6_addresses", <<"inactive", "ipv6-address">>, fields(45, 128))>>)

routes ==
    LET fields == <<Required("target", Text(45)), Required("mask", Integer(0, 128)),
                    Required("nexthop", Text(45)), Required("source", Text(49))>>
                  \o Each(<<"type", "proto", "mtu", "metric", "table">>,
                          LAMBDA n : Optional(n, Integer(0, U32Max)))
                  \o <<From("valid_seconds", <<"valid">>, FALSE, Integer(0, U32Max))>>
    IN  interface_observation("network_interface_routes", "Network",
          <<Rows("routes", <<"route">>, fields),
            Rows("inactive_routes", <<"inactive", "route">>, fields)>>)

neighbors ==
    LET fields == <<Required("address", Text(45)), Optional("mac", Text(17)),
                    Optional("proxy", Integer(0, U32Max)), Optional("router", Integer(0, U32Max))>>
    IN  interface_observation("network_interface_neighbors", "Network",
          <<Rows("neighbors", <<"neighbors">>, fields),
            Rows("inactive_neighbors", <<"inactive", "neighbors">>, fields)>>)

interface_projection(operation, select) ==
    Typed(operation,
          [k |-> "ObjectArray", source |-> <<Word("interface")>>, max_items |-> 128,
           identity |-> Word("interface"),
           record |-> [fields |-> <<Required("interface", Text(256))>>
                          \o Each(<<"up", "pending", "available", "autostart", "dynamic">>,
                                  LAMBDA n : Required(n, Boolean))
                          \o <<Optional("uptime", Integer(0, SafeIntegerMax))>>
                          \o Each(<<"proto", "device", "l3_device">>,
                                  LAMBDA n : Optional(n, Text(256))),
                       collections |-> <<>>]],
          select, <<>>)
interface_status ==
    interface_projection([read("network_interface_status", "Network", "network.interface", "dump",
                               2, <<>>) EXCEPT !.params = Parameter("interface")],
                         Word("interface"))
interfaces ==
    interface_projection(read("network_interfaces", "Network", "network.interface", "dump", 1,
                              <<>>), None)

network ==
    LET fields == Paths(<<"up", "pending", "available", "autostart", "dynamic", "uptime", "proto",
                          "device", "l3_device", "metric">>)
        device == [read("network_device_status", "Network", "network.device", "status", 1,
                     Paths(<<"type", "external", "present", "up", "carrier", "mtu", "mtu6",
                             "txqueuelen", "speed", "duplex">>)
                     \o Under("statistics",
                          Paths(<<"rx_bytes", "tx_bytes", "rx_packets", "tx_packets", "rx_errors",
                                  "tx_errors", "rx_dropped", "tx_dropped">>)))
                   EXCEPT !.params = Parameter("name")]
    IN  <<uci_read_with_options("network_interface_configuration", 2, Profile("network", "interface"),
        <<"proto", 64, "device", 256, "mtu", 32, "metric", 32, "auto", 8,
          "defaultroute", 8, "peerdns", 8, "delegate", 8, "ip4table", 64, "ip6table", 64>>,
        <<"ipaddr", 1024, "ip6addr", 1024, "dns", 1024, "ifname", 256>>),
      with_argument(device, "name", "String", Reference("name")),
      read("network_lan_status", "Network", "network.interface.lan", "status", 1, fields),
      read("network_wan_status", "Network", "network.interface.wan", "status", 1, fields),
      interface_status, interfaces, addresses, routes, neighbors>>
    \o network_configuration

(***************************************************************************)
(* Wireless.                                                               *)
(***************************************************************************)
device_read(name, method, fields) ==
    with_argument([read(name, "Wireless", "iwinfo", method, 1, fields)
                EXCEPT !.params = Parameter("device")],
             "device", "String", Reference("device"))

Results(identity, max_items, fields) ==
    [k |-> "ObjectArray", source |-> <<Word("results")>>, max_items |-> max_items,
     identity |-> Word(identity), record |-> [fields |-> fields, collections |-> <<>>]]

(* The selector is never rpcd's own filter: it stays in the projection.    *)
stations(exact) ==
    LET operation == device_read(IF exact THEN "wireless_station_status" ELSE "wireless_stations",
                                 "assoclist", <<>>)
        signal(name, source, required) == From(name, <<source>>, required, Integer(-128, 127))
        fields ==
            <<Required("mac", Text(17)), signal("signal_dbm", "signal", TRUE),
              signal("noise_dbm", "noise", TRUE), signal("signal_average_dbm", "signal_avg", FALSE)>>
            \o Each(<<<<"inactive_ms", <<"inactive">>>>, <<"connected_seconds", <<"connected_time">>>>,
                      <<"estimated_throughput_kbps", <<"thr">>>>, <<"rx_rate_kbps", <<"rx", "rate">>>>,
                      <<"rx_bandwidth_mhz", <<"rx", "mhz">>>>, <<"tx_rate_kbps", <<"tx", "rate">>>>,
                      <<"tx_bandwidth_mhz", <<"tx", "mhz">>>>>>,
                    LAMBDA f : From(f[1], f[2], FALSE, Integer(0, I32Max)))
            \o Each(<<"authorized", "authenticated", "wme", "mfp">>, LAMBDA n : Optional(n, Boolean))
            \o Each(<<<<"rx_bytes", <<"rx", "bytes">>>>, <<"tx_bytes", <<"tx", "bytes">>>>,
                      <<"rx_dropped", <<"rx", "drop_misc">>>>>>,
                    LAMBDA f : From(f[1], f[2], FALSE, Decimal))
        selected == IF exact THEN [operation EXCEPT !.params = Parameter("mac") @@ @] ELSE operation
    IN  Typed(selected, Results("mac", 128, fields), IF exact THEN Word("mac") ELSE None, <<>>)

countries ==
    Typed(device_read("wireless_countries", "countrylist", <<>>),
          Results("iso3166", 256, <<Required("iso3166", Text(2)), Required("code", Text(4)),
                                    Required("country", Text(256)), Optional("active", Boolean)>>),
          None, <<>>)

wireless ==
    <<device_read("wireless_radio_info", "info",
        Paths(<<"phy", "mode", "country", "channel", "frequency", "txpower", "quality",
                "quality_max", "signal", "noise", "bitrate">>)
        \o Under("encryption", Paths(<<"enabled">>))),
      Typed(read("wireless_devices", "Wireless", "iwinfo", "devices", 1, <<>>),
            [k |-> "ScalarArray", source |-> <<Word("devices")>>, max_items |-> 128,
             name |-> Word("device"), value |-> Text(256), unique |-> TRUE], None, <<>>),
      uci_read("wireless_radio_configuration", Profile("wireless", "wifi-device"),
        <<"type", 64, "path", 256, "macaddr", 17, "disabled", 8, "country", 8,
          "channel", 32, "htmode", 32, "band", 16, "txpower", 32>>),
      stations(FALSE), stations(TRUE), countries>>

(***************************************************************************)
(* Services, diagnostics, packages.                                        *)
(***************************************************************************)
list(name, fields) ==
    with_argument(read(name, "Services", "service", "list", 1, fields),
             "verbose", "Boolean", <<"bool", FALSE>>)

service_projection(operation, select) ==
    LET entries(source, record) ==
            [k |-> "ObjectEntries", source |-> source, max_items |-> 128,
             key |-> [name |-> Word("name"), max |-> 256], record |-> record]
        instances ==
            entries(<<Word("instances")>>,
              [fields |-> <<Required("running", Boolean), Optional("pid", Integer(1, SafeIntegerMax)),
                            Optional("exit_code", Integer(0, SafeIntegerMax))>>,
               collections |-> <<>>])
    IN  Typed(operation,
              entries(<<>>, [fields |-> <<>>,
                             collections |-> <<[name |-> Word("instances"), required |-> FALSE,
                                                collection |-> instances]>>]),
              select, <<>>)

service_status ==
    service_projection([with_argument(list("service_status", <<>>), "name", "String", Reference("name"))
                          EXCEPT !.params = Parameter("name")], Word("name"))
service_status_list == service_projection(list("service_status_list", <<>>), None)

services ==
    LET instance(service, name) ==
            Under(service, Under("instances", Under(name, Paths(<<"running", "pid", "exit_code">>))))
        fixed(operation, service) == with_argument(operation, "name", "String", <<"str", Word(service)>>)
    IN  <<fixed(list("service_logd_status", instance("log", "logd")), "log"),
          fixed(list("service_sysntpd_status", instance("sysntpd", "instance1")), "sysntpd"),
          service_status, service_status_list>>

diagnostics ==
    <<read("diagnostics_watchdog_status", "Diagnostics", "system", "watchdog", 1,
           Paths(<<"status", "timeout", "frequency", "magicclose">>))>>

PackagePage(name, action, capability) ==
    [name |-> Word(name), described |-> TRUE, fits |-> TRUE, reqs |-> <<Req("Packages", "Read")>>,
     params |-> Word("cursor") :> [kind |-> "String", required |-> FALSE, allowed |-> <<>>],
     action |-> [k |-> action], cap |-> [k |-> capability], fields |-> <<>>, mode |-> "Scalars",
     proj |-> None]
packages ==
    <<PackagePage("packages_apk_installed", "ApkInstalledPage", "ApkInstalledQuery"),
      PackagePage("packages_opkg_status", "OpkgStatusPage", "OpkgRootStatusFile")>>

(***************************************************************************)
(* Storage.                                                                *)
(***************************************************************************)
storage_configuration ==
    <<uci_read("storage_global_configuration", Profile("fstab", "global"),
        <<"anon_swap", 32, "anon_mount", 32, "auto_swap", 32, "auto_mount", 32,
          "delay_root", 32, "check_fs", 32>>),
      uci_read("storage_swap_configuration", Profile("fstab", "swap"),
        <<"enabled", 8, "uuid", 256, "label", 256, "device", 1024, "priority", 32>>)>>

Bytes64(name, source) == From(name, <<source>>, TRUE, Decimal)
mounts ==
    Typed(read("storage_mounts", "Storage", "luci", "getMountPoints", 2, <<>>),
          [k |-> "ObjectArray", source |-> <<Word("result")>>, max_items |-> 128,
           identity |-> Word("mount"),
           record |-> [fields |-> <<Required("mount", Text(1024)), Required("device", Text(1024)),
                                    Bytes64("size_bytes", "size"), Bytes64("available_bytes", "avail"),
                                    Bytes64("free_bytes", "free")>>,
                       collections |-> <<>>]],
          None, NoError)
block_devices ==
    Typed(read("storage_block_devices", "Storage", "luci", "getBlockDevices", 2, <<>>),
          [k |-> "ObjectEntries", source |-> <<>>, max_items |-> 128,
           key |-> [name |-> Word("source_key"), max |-> 1024],
           record |-> [fields |-> <<From("device", <<"dev">>, TRUE, Text(1024)),
                                    Bytes64("size_bytes", "size"),
                                    From("filesystem", <<"type">>, TRUE, Text(64)),
                                    Optional("uuid", Text(256)), Optional("label", Text(256)),
                                    Optional("version", Text(64)), Optional("mount", Text(1024))>>,
                       collections |-> <<>>]],
          None, NoError)
storage ==
    <<mounts, block_devices,
      uci_read("storage_mount_configuration", Profile("fstab", "mount"),
        <<"device", 1024, "uuid", 256, "label", 256, "target", 1024, "fstype", 64,
          "enabled", 8, "enabled_fsck", 8>>)>>
    \o storage_configuration

(***************************************************************************)
(* DHCP and DNS, firewall.                                                 *)
(***************************************************************************)
dhcp_dns_configuration ==
    <<uci_read_with_options("dhcp_odhcpd_configuration", 1, Profile("dhcp", "odhcpd"),
        <<"maindhcp", 8, "loglevel", 32, "leasefile", 1024, "hostsdir", 1024,
          "hostsfile", 1024, "piodir", 1024, "piofolder", 1024>>,
        <<>>),
      uci_read_with_options("dhcp_pool_configuration", 1, Profile("dhcp", "dhcp"),
        <<"interface", 256, "networkid", 256, "ignore", 8, "netmask", 64, "force", 8,
          "start", 32, "limit", 32, "leasetime", 64, "dynamicdhcp", 8,
          "dynamicdhcpv4", 8, "dynamicdhcpv6", 8, "dhcpv4", 32, "dhcpv6", 32, "ra", 32,
          "ra_management", 32, "ra_preference", 32>>,
        <<"dns", 1024, "domain", 1024, "tag", 256, "interface_name", 1024>>),
      uci_read_with_options("dhcp_host_configuration", 1, Profile("dhcp", "host"),
        <<"name", 256, "ip", 256, "hostid", 256, "leasetime", 64, "networkid", 256,
          "enable", 8, "dns", 8, "force", 8, "broadcast", 8>>,
        <<"mac", 1024, "duid", 1024, "tag", 256, "match_tag", 256>>),
      uci_read_with_options("dhcp_domain_configuration", 1, Profile("dhcp", "domain"),
        <<"ip", 256>>,
        <<"name", 1024>>),
      uci_read_with_options("dhcp_cname_configuration", 1, Profile("dhcp", "cname"),
        <<"target", 256>>,
        <<"cname", 1024>>)>>

leases(ipv6) ==
    LET name == IF ipv6 THEN "dhcp_v6_leases" ELSE "dhcp_v4_leases"
        operation == with_argument(read(name, "DhcpDns", "luci-rpc", "getDHCPLeases", 1, <<>>),
                              "family", "Integer", <<"int", IF ipv6 THEN 6 ELSE 4>>)
        fields == <<IF ipv6 THEN Required("ip6addr", Text(45)) ELSE Required("ipaddr", Text(15)),
                    From("expires_seconds", <<"expires">>, TRUE,
                         [k |-> "FalseOrSafeInteger", lo |-> 0, hi |-> U32Max])>>
                  \o Each(Pairs(<<"interface", 256, "hostname", 512, "macaddr", 17, "duid", 512,
                                  "iaid", 64>>), LAMBDA o : Optional(o[1], Text(o[2])))
        inner == <<[name |-> Word("ip6addrs"), required |-> TRUE,
                    collection |-> [k |-> "ScalarArray", source |-> <<Word("ip6addrs")>>,
                                    max_items |-> 10, name |-> Word("address_prefix"),
                                    value |-> Text(49), unique |-> FALSE]]>>
    IN  Typed(operation,
              [k |-> "RowArray", source |-> <<Word(IF ipv6 THEN "dhcp6_leases" ELSE "dhcp_leases")>>,
               max_items |-> 128,
               record |-> [fields |-> fields, collections |-> IF ipv6 THEN inner ELSE <<>>]],
              None, NoError)

interface_dns ==
    LET list_of(name, path, field, max) ==
            [name |-> Word(name), required |-> FALSE,
             collection |-> [k |-> "ScalarArray", source |-> Each(path, Word), max_items |-> 128,
                             name |-> Word(field), value |-> Text(max), unique |-> FALSE]]
    IN  interface_observation("dhcp_interface_dns", "DhcpDns",
          <<list_of("servers", <<"dns-server">>, "address", 45),
            list_of("inactive_servers", <<"inactive", "dns-server">>, "address", 45),
            list_of("search_domains", <<"dns-search">>, "domain", 256),
            list_of("inactive_search_domains", <<"inactive", "dns-search">>, "domain", 256)>>)

dhcp_dns ==
    <<leases(FALSE), leases(TRUE), interface_dns,
      uci_read_with_options("dhcp_dnsmasq_configuration", 2, Profile("dhcp", "dnsmasq"),
        <<"domain", 256, "local", 256, "port", 32, "cachesize", 32, "expandhosts", 8,
          "domainneeded", 8, "boguspriv", 8, "rebind_protection", 8, "noresolv", 8,
          "localservice", 8, "authoritative", 8, "strictorder", 8, "logqueries", 8>>,
        <<"server", 1024, "address", 1024, "interface", 256, "notinterface", 256,
          "rebind_domain", 1024, "addnhosts", 1024>>)>>
    \o dhcp_dns_configuration

firewall_configuration ==
    <<uci_read_with_options("firewall_zone_configuration", 1, Profile("firewall", "zone"),
        <<"enabled", 8, "name", 256, "family", 32, "input", 32, "output", 32,
          "forward", 32, "masq", 8, "masq6", 8, "masq_allow_invalid", 8, "mtu_fix", 8,
          "log", 32, "log_limit", 64, "auto_helper", 8, "counter", 8>>,
        <<"network", 256, "device", 256, "subnet", 1024, "masq_src", 1024,
          "masq_dest", 1024, "helper", 256>>),
      uci_read("firewall_forwarding_configuration", Profile("firewall", "forwarding"),
        <<"enabled", 8, "name", 256, "family", 32, "src", 256, "dest", 256>>),
      uci_read_with_options("firewall_rule_configuration", 1, Profile("firewall", "rule"),
        <<"enabled", 8, "name", 256, "family", 32, "src", 256, "dest", 256,
          "device", 256, "direction", 32, "ipset", 256, "helper", 256,
          "set_helper", 256, "limit", 64, "limit_burst", 32, "utc_time", 8,
          "start_date", 32, "stop_date", 32, "start_time", 32, "stop_time", 32,
          "weekdays", 128, "mark", 64, "set_mark", 64, "set_xmark", 64, "dscp", 32,
          "set_dscp", 32, "counter", 8, "log", 256, "log_limit", 64, "target", 32>>,
        <<"proto", 256, "src_ip", 1024, "src_mac", 1024, "src_port", 1024,
          "dest_ip", 1024, "dest_port", 1024, "icmp_type", 1024>>),
      uci_read_with_options("firewall_redirect_configuration", 1, Profile("firewall", "redirect"),
        <<"enabled", 8, "name", 256, "family", 32, "src", 256, "dest", 256,
          "ipset", 256, "helper", 256, "src_ip", 1024, "src_port", 256,
          "src_dip", 1024, "src_dport", 256, "dest_ip", 1024, "dest_port", 256,
          "limit", 64, "limit_burst", 32, "utc_time", 8, "start_date", 32,
          "stop_date", 32, "start_time", 32, "stop_time", 32, "weekdays", 128,
          "mark", 64, "reflection", 8, "reflection_src", 32, "counter", 8, "log", 256,
          "log_limit", 64, "target", 32>>,
        <<"proto", 256, "src_mac", 1024, "reflection_zone", 256>>),
      uci_read_with_options("firewall_nat_configuration", 1, Profile("firewall", "nat"),
        <<"enabled", 8, "name", 256, "family", 32, "src", 256, "device", 256,
          "src_ip", 1024, "src_port", 256, "snat_ip", 1024, "snat_port", 256,
          "dest_ip", 1024, "dest_port", 256, "limit", 64, "limit_burst", 32,
          "connlimit_ports", 8, "utc_time", 8, "start_date", 32, "stop_date", 32,
          "start_time", 32, "stop_time", 32, "weekdays", 128, "mark", 64, "counter", 8,
          "log", 256, "target", 32>>,
        <<"proto", 256>>)>>

firewall ==
    <<uci_read("firewall_defaults_configuration", Profile("firewall", "defaults"),
        <<"input", 32, "output", 32, "forward", 32, "synflood_protect", 8,
          "drop_invalid", 8, "flow_offloading", 8, "flow_offloading_hw", 8,
          "disable_ipv6", 8>>)>>
    \o firewall_configuration

(* What every server starts with.                                          *)
builtins ==
    system \o network \o wireless \o services \o diagnostics \o packages \o storage
    \o dhcp_dns \o firewall

-----------------------------------------------------------------------------
(***************************************************************************)
(* Reference: the call, the description and the answer a definition asks   *)
(* for.                                                                    *)
(***************************************************************************)
SampleText == <<"plain", "sample", 1, 0>>
SampleInput(o) ==
    [n \in {p \in DOMAIN o.params : o.params[p].required} |-> <<"str", SampleText>>]

Description(o) ==
    LET args == Ordered(DOMAIN o.cap.args)
    IN  [bytes |-> 2, utf8 |-> TRUE, ended |-> TRUE, header |-> o.cap.object,
         methods |-> <<<<o.cap.method, [i \in DOMAIN args |-> <<args[i], o.cap.args[args[i]]>>]>>>>]

SampleScalar(kind) ==
    CASE kind.k = "Text" -> <<"str", SampleText>>
      [] kind.k = "TextEnum" -> <<"str", kind.values[1]>>
      [] kind.k = "Boolean" -> <<"bool", TRUE>>
      [] kind.k = "FalseOrSafeInteger" -> <<"bool", FALSE>>
      [] OTHER -> <<"int", 1>>

(* The value in which every one of a sequence of <<path, value>> is found. *)
RECURSIVE Tree(_)
Tree(leaves) ==
    LET starts == SelectSeq([i \in DOMAIN leaves |-> i], LAMBDA i :
                    ~ \E j \in 1..(i - 1) : leaves[j][1][1] = leaves[i][1][1])
        below(h) == Each(SelectSeq(leaves, LAMBDA l : l[1][1] = h), LAMBDA l : <<Tail(l[1]), l[2]>>)
        at(h) == LET b == below(h) IN IF b[1][1] = <<>> THEN b[1][2] ELSE Tree(b)
        heads == Each(starts, LAMBDA i : leaves[i][1][1])
    IN  IF \A i \in DOMAIN heads : heads[i][1] = "dec" /\ leaves # <<>>
        THEN <<IF leaves = <<>> THEN "obj" ELSE "arr", Each(heads, at)>>
        ELSE <<"obj", Each(heads, LAMBDA h : <<h, at(h)>>)>>

RECURSIVE SampleRows(_)
SampleRecord(record) ==
    Tree(Each(record.fields, LAMBDA f : <<f.source, SampleScalar(f.value)>>)
         \o Each(record.collections, LAMBDA c : <<c.collection.source, SampleRows(c.collection)>>))
SampleRows(c) ==
    CASE c.k = "TextOption" -> <<"str", SampleText>>
      [] c.k = "ScalarArray" -> <<"arr", <<SampleScalar(c.value)>>>>
      [] c.k = "ObjectEntries" -> <<"obj", <<<<SampleText, SampleRecord(c.record)>>>>>>
      [] OTHER -> <<"arr", <<SampleRecord(c.record)>>>>

Sample(o) ==
    IF o.mode # "Typed" THEN Tree(Each(o.fields, LAMBDA p : <<p, <<"int", 1>>>>))
    ELSE LET c == o.proj.collection
         IN  IF c.source = <<>> THEN SampleRows(c) ELSE Tree(<<<<c.source, SampleRows(c)>>>>)

(* The names a collection shows; the records of inner ones are leaves.     *)
Own(c) ==
    CASE c.k = "TextOption" -> {}
      [] c.k = "ScalarArray" -> {c.name}
      [] OTHER -> (IF c.k = "ObjectEntries" THEN {c.key.name} ELSE {})
                  \cup {c.record.fields[i].name : i \in DOMAIN c.record.fields}
                  \cup {c.record.collections[i].name : i \in DOMAIN c.record.collections}
Inner(c) == IF HasRecord(c) THEN Each(c.record.collections, LAMBDA x : x.collection) ELSE <<>>
Named(c) == Own(c) \cup UNION {Own(x) : x \in Range(Inner(c))}
Shown(o) ==
    IF o.mode = "Typed" THEN Named(o.proj.collection)
    ELSE {PointerText(o.fields[i]) : i \in DOMAIN o.fields}

(* The reviewed features compose to a server, alone and all together, and  *)
(* none of them is dead: with the arguments it asks for, a device that     *)
(* describes the method as it requires and answers in the shape it         *)
(* projects, the call reaches the device and shows every field it is       *)
(* declared to show - also those the filter on sensitive keys looks at.    *)
NoDeadOperation ==
    /\ stage # "down"
    /\ (stage = "done" /\ op # None /\ input = SampleInput(op)) =>
         /\ inv # None
         /\ ~IsPage(op.action) =>
              /\ obs # <<"unknown", "UnreviewedProbe">>
              /\ (obs[1] = "ubus" /\ op.cap.method \in DOMAIN obs[3]
                   /\ obs[3][op.cap.method] = op.cap.args) => sent # None /\ answer # None
              /\ answer = Sample(op) =>
                   result[1] = "ok" /\ Shown(op) \subseteq Keys(result[2])
====
