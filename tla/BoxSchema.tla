---- MODULE BoxSchema ----
(***************************************************************************)
(* The schema the box is built with (schema/*.yaml), as the loader makes   *)
(* it: templates expanded, priorities inherited.  Leaves that carry no     *)
(* rule of their own are represented by mtu, disable and description.      *)
(* Keys and values are the few words an instance gives.                    *)
(***************************************************************************)
EXTENDS ConfigSchema

CONSTANTS
    Ports,       \* names of physical ports
    Addresses    \* what an address leaf accepts

N(kind, accepts, priority) ==
    [kind |-> kind, accepts |-> accepts, default |-> <<>>, required |-> FALSE, priority |-> priority,
     constraints |-> {}, unique |-> {}, exclusive |-> {}]

Bonds == {"bond0", "bond1"}
Bridges == {"br0"}
Vlans == {"vlan1", "vlan2"}
Vxlans == {"vxlan0", "vxlan1"}
Names == Ports \cup Bonds \cup Bridges \cup Vlans \cup Vxlans

Among(types) ==
    [rule |-> "value-in-path-set", paths |-> {<<"interfaces", type, "*">> : type \in types}, value |-> ""]

\* A type of interface: its tag, the leaves all types share and its own.
Type(name, keys, priority, own) ==
    LET tag == <<"interfaces", name>>
        common == ("address" :> N("multi", Addresses, priority))
                  @@ ("mtu" :> [N("leaf", {"1500", "9000"}, priority) EXCEPT !.default = <<"1500">>])
                  @@ ("disable" :> N("flag", {}, priority))
                  @@ ("description" :> N("leaf", {"my", "uplink"}, priority))
        all == own @@ common
    IN [p \in {Append(tag, leaf) : leaf \in DOMAIN all} |-> all[Last(p)]] @@ (tag :> N("tag", keys, priority))

SystemNodes ==
    (<<"system">> :> N("container", {}, 100))
    @@ (<<"system", "host-name">> :> [N("leaf", {"nightshade", "edge"}, 100) EXCEPT !.default = <<"nightshade">>])
    @@ (<<"system", "name-server">> :> N("multi", Addresses, 100))
    @@ (<<"system", "time-zone">> :> [N("leaf", {"UTC"}, 100) EXCEPT !.default = <<"UTC">>])

BondingLeaves ==
    ("member" :> [N("multi", Names, 210) EXCEPT !.constraints = {Among({"ethernet"})}])
    @@ ("mode" :> [N("leaf", {"802.3ad", "active-backup"}, 210) EXCEPT !.default = <<"802.3ad">>])
    @@ ("primary" :> [N("leaf", Names, 210) EXCEPT !.constraints =
            {[rule |-> "value-in-path-set", paths |-> {<<"interfaces", "bonding", "@", "member">>}, value |-> ""],
             [rule |-> "path-has-value", paths |-> {<<"interfaces", "bonding", "@", "mode">>}, value |-> "active-backup"]}])

BridgeLeaves ==
    ("member" :> [N("multi", Names, 220) EXCEPT !.constraints = {Among({"ethernet", "bonding", "vlan"})}])
    @@ ("stp" :> N("flag", {}, 220))

VlanLeaves ==
    ("parent" :> [N("leaf", Names, 230) EXCEPT !.required = TRUE,
                                               !.constraints = {Among({"ethernet", "bonding", "bridge"})}])
    @@ ("id" :> [N("leaf", {"10", "20"}, 230) EXCEPT !.required = TRUE])

VxlanLeaves ==
    ("vni" :> [N("leaf", {"100", "200"}, 240) EXCEPT !.required = TRUE])
    @@ ("remote" :> N("leaf", {"peer"}, 240))
    @@ ("group" :> [N("leaf", {"all"}, 240) EXCEPT !.constraints =
            {[rule |-> "path-exists", paths |-> {<<"interfaces", "vxlan", "@", "source-interface">>}, value |-> ""]}])
    @@ ("source-interface" :> [N("leaf", Names, 240) EXCEPT
            !.constraints = {Among({"ethernet", "bonding", "bridge", "vlan"})}])

Members == {<<"interfaces", "bonding", "*", "member">>, <<"interfaces", "bridge", "*", "member">>}

\* The two rules that hang off no node.
BoxGlobals ==
    {[rule |-> "unique-across", paths |-> Members, search |-> {}, forbid |-> ""],
     [rule |-> "forbid-child-on-referenced", paths |-> Members,
      search |-> {<<"interfaces", type>> : type \in {"ethernet", "bonding", "vlan"}}, forbid |-> "address"]}

Box ==
    [nodes |->
        LET vlan == [Type("vlan", Vlans, 230, VlanLeaves) EXCEPT ![<<"interfaces", "vlan">>].unique = {{"parent", "id"}}]
            vxlan == [Type("vxlan", Vxlans, 240, VxlanLeaves) EXCEPT
                        ![<<"interfaces", "vxlan">>].unique = {{"vni"}},
                        ![<<"interfaces", "vxlan">>].exclusive = {{"remote", "group"}}]
        IN (Root :> N("container", {}, 0)) @@ SystemNodes @@ (<<"interfaces">> :> N("container", {}, 200))
           @@ Type("ethernet", Names, 200, <<>>) @@ Type("bonding", Bonds, 210, BondingLeaves)
           @@ Type("bridge", Bridges, 220, BridgeLeaves) @@ vlan @@ vxlan,
     globals |-> BoxGlobals]
====
