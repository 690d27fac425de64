---- MODULE MCRenderedBox ----
(***************************************************************************)
(* Two small boxes in one run: a bond, a bridge, a VLAN and a tunnel over  *)
(* two ports whose tools and disk fail, and two administrators whose box   *)
(* also dies, reboots and loses records.                                   *)
(***************************************************************************)
EXTENDS RenderedBox, TLC

VARIABLE part
mcVars == <<part, vars>>

Plain == [leaves |-> <<>>, lists |-> <<>>, flags |-> {}]
Port  == [Plain EXCEPT !.leaves = "hw-id" :> "mac0"]
Bond(mode)   == [leaves |-> [mode |-> mode, mtu |-> "9000"], lists |-> [member |-> <<"eth1">>],
                 flags |-> {}]
Vlan(id)     == [leaves |-> [parent |-> "bond0", id |-> id],
                 lists |-> [address |-> <<"dhcp", "10.0.0.1/24">>], flags |-> {"disable"}]
Bridge(stp)  == [leaves |-> <<>>, lists |-> [member |-> <<"eth0">>], flags |-> stp]
Tunnel(vni)  == [leaves |-> [vni |-> vni], lists |-> <<>>, flags |-> {}]

Box(system, login, interfaces) ==
    [system |-> system, servers |-> <<"192.0.2.1">>, login |-> login,
     interfaces |-> interfaces]

Ports == (<<"ethernet", "eth0">> :> Port) @@ (<<"ethernet", "eth1">> :> Plain)
NoSystem == <<>>
Named == ("host-name" :> "fw1") @@ ("domain-name" :> "lab") @@ ("time-zone" :> "UTC")
NoLogin == <<>>

\* Configurations that differ in what the kernel can change in place, in what it
\* cannot, and in which devices there are; the last one names one interface twice.
NetConfigs ==
    {Box(Named, NoLogin, Ports),
     Box(NoSystem, NoLogin, Ports @@ (<<"bonding", "bond0">> :> Bond("802.3ad"))
                      @@ (<<"vlan", "vlan10">> :> Vlan("10"))),
     Box([Named EXCEPT !["host-name"] = "fw2"], NoLogin,
         Ports @@ (<<"bonding", "bond0">> :> Bond("active-backup"))
               @@ (<<"bridge", "br0">> :> Bridge({"stp"}))),
     Box(NoSystem, NoLogin, Ports @@ (<<"bridge", "br0">> :> Bridge({}))
                      @@ (<<"vxlan", "vx1">> :> Tunnel("7"))),
     Box(NoSystem, NoLogin, Ports @@ (<<"ethernet", "bond0">> :> Plain)
                      @@ (<<"bonding", "bond0">> :> Bond("802.3ad")))}

Login(f) == Box(NoSystem, f, <<"ethernet", "eth0">> :> Plain)

\* Both administrators in every combination that check lets through, one and nobody.
LoginConfigs ==
    {Login([alice |-> "h1"]), Login([bob |-> "h2"]), Login([alice |-> "h1", bob |-> Disabled]),
     Login([alice |-> Disabled, bob |-> "h2"]), Login([alice |-> NoPassword, bob |-> "h3"]),
     Login([alice |-> Disabled]), Login([root |-> "h1"]), Login(NoLogin)}

Admin == [alice |-> "h1"]
TwoAdmins == [alice |-> "h1", bob |-> Disabled]
AllAccounts == <<"alice", "bob", "root">>
AllDevices == <<"bond0", "br0", "eth0", "eth1", "vlan10", "vx1">>

People == INSTANCE RenderedBox WITH
    Configs <- LoginConfigs, Accounts <- TwoAdmins,
    Faults <- {"command", "remember", "crash", "reboot", "tamper"}

ASSUME PeopleAssumption == People!Written

MCInit ==
    \/ part = "interfaces" /\ Init
    \/ part = "people" /\ People!Init
MCNext ==
    \/ part = "interfaces" /\ Next /\ UNCHANGED part
    \/ part = "people" /\ People!Next /\ UNCHANGED part
MCSpec == MCInit /\ [][MCNext]_mcVars

\* The properties are RenderedBox's, of both boxes.
====
