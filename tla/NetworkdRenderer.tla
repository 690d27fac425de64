---- MODULE NetworkdRenderer ----
(***************************************************************************)
(* Interfaces, as systemd-networkd sees them                               *)
(* (nightshade-render/src/networkd.rs, ini.rs).                            *)
(*                                                                         *)
(* A configuration's `interfaces' part is a function from <<kind, name>>   *)
(* to nodes; a node has single-valued leaves, lists and flags.  A rendered *)
(* file is what the renderer's own INI reader makes of it: a function from *)
(* the keys that are written to the sequence of their values.  Sections    *)
(* are left out: no key is written in two sections of one file.            *)
(***************************************************************************)
EXTENDS Host

CONSTANT DeviceOrder    \* every interface name, in the order the tree keeps them

\* RECREATE: the settings the kernel fixes when a device of that kind is created.
RECREATE ==
    [bond   |-> {"Mode", "TransmitHashPolicy", "LACPTransmitRate"},
     vlan   |-> {"Id"},
     vxlan  |-> {"VNI", "Remote", "Group", "Local", "DestinationPort", "TTL", "Independent"},
     bridge |-> {}]

\* VIRTUAL: the interface types that get a .netdev, and its Kind.
VIRTUAL == [vlan |-> "vlan", bonding |-> "bond", bridge |-> "bridge", vxlan |-> "vxlan"]

\* instances, leaf, list, flag: reading the tree.  Options and lists are sequences.
instances(c, kind) ==
    SelectSeq(DeviceOrder, LAMBDA n : <<kind, n>> \in DOMAIN c.interfaces)
Node(c, kind, name) == c.interfaces[<<kind, name>>]
leaf(node, name) == IF name \in DOMAIN node.leaves THEN <<node.leaves[name]>> ELSE <<>>
list(node, name) == IF name \in DOMAIN node.lists THEN node.lists[name] ELSE <<>>
flag(node, name) == name \in node.flags

\* Ini: a key with no value is not written.
Ini(f) == [k \in {x \in DOMAIN f : f[x] # <<>>} |-> f[k]]

\* Attachments::of, asked of one interface: the instances of `kind' whose leaf or
\* list `by' names it.
Riders(c, kind, by, name) ==
    SelectSeq(instances(c, kind),
              LAMBDA r : name \in ToSet(leaf(Node(c, kind, r), by))
                                  \cup ToSet(list(Node(c, kind, r), by)))

\* Attachments::master: bridges are inserted after bonds and the last insert stays.
masters(c, name) ==
    LET bonds   == Riders(c, "bonding", "member", name)
        bridges == Riders(c, "bridge", "member", name)
        last(s) == IF s = <<>> THEN <<>> ELSE <<s[Len(s)]>>
    IN  [Bond   |-> IF bridges = <<>> THEN last(bonds) ELSE <<>>,
         Bridge |-> last(bridges)]

\* network_file: the .network every interface gets.
network_file(c, kind, name) ==
    LET node      == Node(c, kind, name)
        addresses == list(node, "address")
    IN  Ini([Name             |-> <<name>>,
             MTUBytes         |-> leaf(node, "mtu"),
             ActivationPolicy |-> IF flag(node, "disable") THEN <<"always-down">> ELSE <<>>,
             Description      |-> leaf(node, "description"),
             DHCP             |-> IF "dhcp" \in ToSet(addresses) THEN <<"yes">> ELSE <<>>,
             Address          |-> SelectSeq(addresses, LAMBDA a : a # "dhcp"),
             Bond             |-> masters(c, name).Bond,
             Bridge           |-> masters(c, name).Bridge,
             VLAN             |-> Riders(c, "vlan", "parent", name),
             VXLAN            |-> Riders(c, "vxlan", "source-interface", name)])

\* link_file: none or one; matched by the permanent address when the port is pinned,
\* by its name otherwise, and only then without a new name.
link_file(node, name) ==
    LET hw     == leaf(node, "hw-id")
        chosen(l) == SelectSeq(leaf(node, l), LAMBDA v : v # "auto")
        body   == Ini([PermanentMACAddress |-> hw,
                       OriginalName  |-> IF hw = <<>> THEN <<name>> ELSE <<>>,
                       Name          |-> IF hw = <<>> THEN <<>> ELSE <<name>>,
                       MACAddress    |-> leaf(node, "mac"),
                       BitsPerSecond |-> chosen("speed"),
                       Duplex        |-> chosen("duplex")])
    IN  IF DOMAIN body = {"OriginalName"} THEN <<>> ELSE <<body>>

\* netdev_file: common keys, then the ones of the kind.
netdev_file(kind, name, node) ==
    LET common == [Name |-> <<name>>, Kind |-> <<kind>>,
                   Description |-> leaf(node, "description"),
                   MTUBytes |-> leaf(node, "mtu"), MACAddress |-> leaf(node, "mac")]
        own == CASE kind = "vlan" -> [Id |-> leaf(node, "id")]
                 [] kind = "bond" ->
                      [Mode |-> leaf(node, "mode"),
                       TransmitHashPolicy |-> leaf(node, "hash-policy"),
                       LACPTransmitRate |-> leaf(node, "lacp-rate"),
                       MinLinks |-> leaf(node, "min-links"),
                       PrimarySlave |-> leaf(node, "primary")]
                 [] kind = "bridge" ->
                      [STP |-> IF flag(node, "stp") THEN <<"yes">> ELSE <<"no">>,
                       Priority |-> leaf(node, "priority"),
                       AgeingTimeSec |-> leaf(node, "aging-time")]
                 [] kind = "vxlan" ->
                      [VNI |-> leaf(node, "vni"), Remote |-> leaf(node, "remote"),
                       Group |-> leaf(node, "group"), Local |-> leaf(node, "source-address"),
                       DestinationPort |-> leaf(node, "port"), TTL |-> leaf(node, "ttl"),
                       Independent |-> IF leaf(node, "source-interface") = <<>>
                                       THEN <<"true">> ELSE <<>>]
    IN  Ini(Over(common, own))

\* NetworkdRenderer::render.
networkd_render(c) ==
    LET of(kinds)  == {i \in DOMAIN c.interfaces : i[1] \in kinds}
        physical   == of({"ethernet", "loopback"})
        virtual    == of(DOMAIN VIRTUAL)
        linked     == {i \in physical : link_file(c.interfaces[i], i[2]) # <<>>}
        File(i, ext) == FileName(IF i \in physical THEN "10" ELSE "20", i[2], ext)
        Owner(S, f, ext) == CHOOSE i \in S : File(i, ext) = f
        networks   == [f \in {File(i, "network") : i \in physical \cup virtual} |->
                          LET i == Owner(physical \cup virtual, f, "network")
                          IN  network_file(c, i[1], i[2])]
        netdevs    == [f \in {File(i, "netdev") : i \in virtual} |->
                          LET i == Owner(virtual, f, "netdev")
                          IN  netdev_file(VIRTUAL[i[1]], i[2], c.interfaces[i])]
        links      == [f \in {File(i, "link") : i \in linked} |->
                          LET i == Owner(linked, f, "link")
                          IN  link_file(c.interfaces[i], i[2])[1]]
    IN  Artifacts(Over(networks, netdevs), links, <<>>, <<[act |-> "ReloadNetworkd"]>>)

\* Devices that have a .netdev among the files.
Described(net) == {Device(f) : f \in {n \in DOMAIN net : Extension(n) = "netdev"}}

\* NetworkdRenderer::check: no interface claimed twice, everything referred to is
\* created, everything created is configured.
networkd_check(a) ==
    LET networks == {n \in DOMAIN a.net : Extension(n) = "network"}
    IN  /\ \A m, n \in networks : a.net[m]["Name"] = a.net[n]["Name"] => m = n
        /\ \A n \in networks : \A key \in {"Bond", "Bridge", "VLAN", "VXLAN"} :
              key \in DOMAIN a.net[n] => ToSet(a.net[n][key]) \subseteq Described(a.net)
        /\ \A d \in Described(a.net) : FileName("20", d, "network") \in DOMAIN a.net

At(file, key) == IF key \in DOMAIN file THEN file[key] ELSE <<>>

\* Wrong variant of needs_recreating: only a change of kind counts.
recreate_kind_only(before, after) == At(before, "Kind") # At(after, "Kind")

\* needs_recreating: another kind, or a watched setting of the kind that differs.
needs_recreating(before, after) ==
    \/ At(before, "Kind") # At(after, "Kind")
    \/ \E key \in RECREATE[before["Kind"][1]] : At(before, key) # At(after, key)

\* Wrong variant of recreations: what the new files describe counts, not what the
\* last apply left.
recreations_of_next(previous, next) ==
    LET order == InOrder(DeviceOrder, Described(next.net))
    IN  [i \in 1..Len(order) |-> [act |-> "RecreateNetdev", name |-> order[i]]]

\* recreations: the devices of the last-applied record that the new files drop or
\* describe in a way the kernel cannot change.
recreations(previous, next) ==
    LET before == IF previous = <<>> THEN <<>> ELSE previous[1].net
        gone   == {Device(f) : f \in {n \in DOMAIN before :
                      /\ Extension(n) = "netdev"
                      /\ n \in DOMAIN next.net => needs_recreating(before[n], next.net[n])}}
        order  == InOrder(DeviceOrder, gone)
    IN  [i \in 1..Len(order) |-> [act |-> "RecreateNetdev", name |-> order[i]]]

\* NetworkdRenderer::apply: the files, the devices to rebuild, the reload.
networkd_apply(previous, a) ==
    <<OpSync("net", a.net), OpSync("link", a.link)>>
    \o Commands(recreations(previous, a)) \o Commands(a.actions)
====
