---- MODULE SystemRenderer ----
(***************************************************************************)
(* Host name, resolvers, time zone (nightshade-render/src/system.rs).      *)
(*                                                                         *)
(* A configuration's `system' part has the leaves host-name, domain-name   *)
(* and time-zone, each present or not, and the list of name servers.  The  *)
(* text of resolv.conf and of the hosts line is the record of what it      *)
(* says.                                                                   *)
(***************************************************************************)
EXTENDS Host

\* The value of a leaf as a sequence of none or one.
value(c, leaf) == IF leaf \in DOMAIN c.system THEN <<c.system[leaf]>> ELSE <<>>

\* SystemRenderer::render: resolv.conf always, one action per leaf that is set.  A
\* leaf that is not set renders nothing, so what it set before stays on the box.
system_render(c) ==
    LET host == value(c, "host-name")
        zone == value(c, "time-zone")
    IN  Artifacts(<<>>, <<>>,
            Only("resolv.conf", [search |-> value(c, "domain-name"), servers |-> c.servers]),
            [i \in 1..Len(host) |->
                [act |-> "SetHostName", name |-> host[i], domain |-> value(c, "domain-name")]]
            \o [i \in 1..Len(zone) |-> [act |-> "SetTimeZone", zone |-> zone[i]]])

\* SystemRenderer::check: nothing is rendered twice.
system_check(a) ==
    \A key \in {"SetHostName", "SetTimeZone"} :
        Len(SelectSeq(a.actions, LAMBDA x : x.act = key)) <= 1

\* update_hosts: the marked line of /etc/hosts replaced, the rest kept.
update_hosts(action) ==
    OpWrite("hosts", [name |-> action.name, domain |-> action.domain])

\* SystemRenderer::apply: the files, then each action, the hosts line before the
\* host name itself.
system_apply(a) ==
    LET step(action) ==
            IF action.act = "SetHostName"
            THEN <<update_hosts(action), OpRun(argv(action))>>
            ELSE <<OpRun(argv(action))>>
    IN  SetToSeq({OpWrite(p, a.files[p]) : p \in DOMAIN a.files})
            \o FlattenSeq([i \in 1..Len(a.actions) |-> step(a.actions[i])])
====
