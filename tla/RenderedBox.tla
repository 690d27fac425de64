---- MODULE RenderedBox ----
(***************************************************************************)
(* commit::apply over the three real renderers and the box they change,    *)
(* one host operation at a time.  CommitPipeline has the same loops with   *)
(* opaque subsystems; here a subsystem is what its renderer writes, runs   *)
(* and records.                                                            *)
(*                                                                         *)
(* Calls follow one another: commits, rollbacks and the boot path, which   *)
(* may hand apply any configuration.  An operation fails when its tool     *)
(* cannot do it, or by a fault.  Faults names the kinds a run allows:      *)
(*   "command"   a tool fails without doing anything                       *)
(*   "disk"      a sync or a write fails, half done                        *)
(*   "tamper"    another process removes a file before it is verified      *)
(*   "remember"  a last-applied record cannot be written                   *)
(*   "crash"     the process dies inside a call                            *)
(*   "reboot"    the box reboots between calls                             *)
(***************************************************************************)
EXTENDS SystemRenderer, LoginRenderer, NetworkdRenderer

CONSTANTS
    Configs,    \* the configurations calls are made with
    Accounts,   \* the accounts the box was installed with: names to shadow fields
    Faults,
    MaxCalls

ASSUME FaultsAssumption ==
    Faults \subseteq {"command", "disk", "tamper", "remember", "crash", "reboot"}
ASSUME MaxCallsAssumption == MaxCalls \in Nat

\* The orders are sequences, name every account and interface there may be, and an
\* interface once.
Written ==
    /\ AccountOrder \in Seq(ToSet(AccountOrder)) /\ DeviceOrder \in Seq(ToSet(DeviceOrder))
    /\ IsInjective(DeviceOrder)
    /\ DOMAIN Accounts \subseteq ToSet(AccountOrder)
    /\ \A c \in Configs : /\ DOMAIN c.login \subseteq ToSet(AccountOrder)
                           /\ \A i \in DOMAIN c.interfaces : i[2] \in ToSet(DeviceOrder)
ASSUME WrittenAssumption == Written

VARIABLES
    box,        \* the machine, see Host
    last,       \* last[r]: renderer r's last-applied record, none or one
    phase,      \* "idle", "apply", "restore" or "remember"
    at,         \* the renderer the loop is at
    todo,       \* operations its apply has left
    target,     \* the configuration of this call, none or one
    problems,   \* restore() has met a failure
    result,     \* how the last call ended
    faulted,    \* history: a fault has happened
    sound,      \* history: when the call began the devices were those of the record
    calls

vars == <<box, last, phase, at, todo, target, problems, result, faulted, sound, calls>>

Renderers == 1..3

\* A .network file in the managed directory and one of udev's, neither of them ours.
ForeignNet  == <<"99", FALSE, "lan", "network">>
ForeignLink == <<"99", FALSE, "lan", "link">>

TypeOK ==
    /\ DOMAIN box = {"net", "link", "files", "name", "zone", "users", "devices"}
    /\ DOMAIN box.users \subseteq ToSet(AccountOrder)
    /\ DOMAIN box.devices \subseteq ToSet(DeviceOrder)
    /\ \A r \in Renderers : Len(last[r]) \in {0, 1}
    /\ phase \in {"idle", "apply", "restore", "remember"}
    /\ at \in 0..3
    /\ Len(target) \in {0, 1}
    /\ problems \in BOOLEAN
    /\ result \in {"none", "ok", "refused", "restored", "unrecovered", "cut", "rebooted"}
    /\ faulted \in BOOLEAN
    /\ sound \in BOOLEAN
    /\ calls \in 0..MaxCalls

Init ==
    /\ box = [net |-> Only(ForeignNet, <<>>), link |-> Only(ForeignLink, <<>>), files |-> <<>>,
              name |-> "image", zone |-> "image", users |-> Accounts, devices |-> <<>>]
    /\ last = [r \in Renderers |-> <<>>]
    /\ phase = "idle"
    /\ at = 0
    /\ todo = <<>>
    /\ target = <<>>
    /\ problems = FALSE
    /\ result = "none"
    /\ faulted = FALSE
    /\ sound = FALSE
    /\ calls = 0

\* Renderer::render and ::apply of each, in the order render::all puts them: system
\* and login have the priority of the system subtree, interfaces a later one.
Rendered(c) == <<system_render(c), login_render(c), networkd_render(c)>>
Checked(c) == /\ system_check(Rendered(c)[1])
              /\ login_check(Rendered(c)[2])
              /\ networkd_check(Rendered(c)[3])
ApplyOps(r, a) ==
    CASE r = 1 -> system_apply(a)
      [] r = 2 -> login_apply(last[2], a)
      [] r = 3 -> networkd_apply(last[3], a)

Return(how) == phase' = "idle" /\ at' = 0 /\ todo' = <<>> /\ result' = how

\* A device is what a .netdev says as far as the kernel fixes it at creation.
Matches(device, file) ==
    /\ device["Kind"] = file["Kind"]
    /\ \A key \in RECREATE[file["Kind"][1]] : At(device, key) = At(file, key)

DevicesMatch(net) ==
    /\ DOMAIN box.devices = Described(net)
    /\ \A f \in DOMAIN net : Extension(f) = "netdev" => Matches(box.devices[Device(f)], net[f])

\* Steps 6 and 7 of a call, which touch nothing.
Begin(c) ==
    /\ phase = "idle"
    /\ calls < MaxCalls
    /\ calls' = calls + 1
    /\ target' = <<c>>
    /\ problems' = FALSE
    /\ sound' = (last[3] # <<>> /\ DevicesMatch(last[3][1].net))
    /\ \/ /\ Checked(c)
          /\ phase' = "apply" /\ at' = 1 /\ result' = "none"
          /\ todo' = ApplyOps(1, Rendered(c)[1])
       \/ ~Checked(c) /\ Return("refused")
    /\ UNCHANGED <<box, last, faulted>>

\* restore() goes on to renderer r, or returns.  A renderer with no record has
\* nothing to do.
RestoreFrom(r) ==
    IF r = 0 THEN Return(IF problems' THEN "unrecovered" ELSE "restored")
    ELSE /\ phase' = "restore"
         /\ at' = r
         /\ todo' = IF last[r] = <<>> THEN <<>> ELSE ApplyOps(r, last[r][1])
         /\ UNCHANGED result

\* The operation at the head of todo is done.
Operate ==
    /\ todo # <<>>
    /\ \E b \in Done(Head(todo), box) : box' = b
    /\ todo' = Tail(todo)
    /\ UNCHANGED <<last, phase, at, target, problems, result, faulted, sound, calls>>

\* An operation fails: an apply gives way to the restore, starting with the renderer
\* that failed; a restore notes it and goes on with the one before.
Failed ==
    \/ phase = "apply" /\ UNCHANGED problems /\ RestoreFrom(at)
    \/ phase = "restore" /\ problems' = TRUE /\ RestoreFrom(at - 1)

\* The tool cannot do what it is asked.
ToolRefuses ==
    /\ todo # <<>>
    /\ Done(Head(todo), box) = {}
    /\ Failed
    /\ UNCHANGED <<box, last, target, faulted, sound, calls>>

Fault ==
    /\ todo # <<>>
    /\ (IF Head(todo).op \in {"run", "secret"} THEN "command" ELSE "disk") \in Faults
    /\ \E b \in Halfway(Head(todo), box) : box' = b
    /\ faulted' = TRUE
    /\ Failed
    /\ UNCHANGED <<last, target, sound, calls>>

\* Renderer::verify, once its apply is through, and on to the next renderer.  The
\* login renderer has nothing to read back.
Verify ==
    /\ phase = "apply"
    /\ todo = <<>>
    /\ \/ /\ at # 2 => VerifyFiles(Rendered(target[1])[at], box)
          /\ UNCHANGED problems
          /\ IF at < 3
             THEN /\ at' = at + 1
                  /\ todo' = ApplyOps(at + 1, Rendered(target[1])[at + 1])
                  /\ UNCHANGED <<phase, result>>
             ELSE phase' = "remember" /\ at' = 1 /\ UNCHANGED <<todo, result>>
       \/ /\ at # 2
          /\ ~VerifyFiles(Rendered(target[1])[at], box)
          /\ Failed
    /\ UNCHANGED <<box, last, target, faulted, sound, calls>>

\* Another process removes one of the files just written.
Tamper ==
    /\ "tamper" \in Faults
    /\ phase = "apply"
    /\ todo = <<>>
    /\ \E f \in DOMAIN box.net \cap DOMAIN Rendered(target[1])[at].net :
          box' = [box EXCEPT !.net = Without(@, f)]
    /\ faulted' = TRUE
    /\ UNCHANGED <<last, phase, at, todo, target, problems, result, sound, calls>>

RestoreNext ==
    /\ phase = "restore"
    /\ todo = <<>>
    /\ UNCHANGED problems
    /\ RestoreFrom(at - 1)
    /\ UNCHANGED <<box, last, target, faulted, sound, calls>>

\* LastApplied::save for each renderer; a failure is only logged.
Remember ==
    /\ phase = "remember"
    /\ \/ /\ last' = [last EXCEPT ![at] = <<Rendered(target[1])[at]>>]
          /\ UNCHANGED faulted
       \/ /\ "remember" \in Faults
          /\ faulted' = TRUE
          /\ UNCHANGED last
    /\ IF at < 3 THEN at' = at + 1 /\ UNCHANGED <<phase, todo, result>> ELSE Return("ok")
    /\ UNCHANGED <<box, target, problems, sound, calls>>

Crash ==
    /\ "crash" \in Faults
    /\ phase # "idle"
    /\ box' \in {box} \cup (IF todo = <<>> THEN {} ELSE Halfway(Head(todo), box))
    /\ faulted' = TRUE
    /\ Return("cut")
    /\ UNCHANGED <<last, target, problems, sound, calls>>

\* /run and the devices go; the .link files, /etc, the accounts and the records stay.
Reboot ==
    /\ "reboot" \in Faults
    /\ phase = "idle"
    /\ box' = [box EXCEPT !.net = <<>>, !.devices = <<>>]
    /\ Return("rebooted")
    /\ UNCHANGED <<last, target, problems, faulted, sound, calls>>

Next ==
    \/ \E c \in Configs : Begin(c)
    \/ Operate
    \/ ToolRefuses
    \/ Fault
    \/ Verify
    \/ Tamper
    \/ RestoreNext
    \/ Remember
    \/ Crash
    \/ Reboot

Spec == Init /\ [][Next]_vars

-----------------------------------------------------------------------------

Succeeded == phase = "idle" /\ result = "ok"

\* Accounts somebody can log in to.
Usable == {u \in DOMAIN box.users : box.users[u] # Disabled}

\* After a successful apply the box is what the configuration says: exactly its
\* managed files, resolv.conf, host name and the hosts line that has to agree with
\* it, time zone, and every configured account with its password, whatever earlier
\* calls left behind (renderers' apply, verify_files, Host::sync).
BoxAsConfigured ==
    Succeeded =>
        LET c == target[1]
        IN  /\ {n \in DOMAIN box.net : Marked(n)} = DOMAIN Rendered(c)[3].net
            /\ {n \in DOMAIN box.link : Marked(n)} = DOMAIN Rendered(c)[3].link
            /\ \A r \in Renderers : VerifyFiles(Rendered(c)[r], box)
            /\ \A h \in ToSet(value(c, "host-name")) :
                  /\ box.name = h
                  /\ box.files["hosts"] = [name |-> h, domain |-> value(c, "domain-name")]
            /\ \A z \in ToSet(value(c, "time-zone")) : box.zone = z
            /\ \A u \in DOMAIN c.login :
                  u \in DOMAIN box.users /\ c.login[u] \in {NoPassword, box.users[u]}

\* After a successful apply the devices are the ones described, built with the
\* settings described: a change the kernel cannot make in place did happen, and
\* nothing deleted from the configuration stays up (networkd.rs:25, :392).
DevicesAsDescribed == Succeeded => DevicesMatch(box.net)

\* After "the previous configuration has been restored" the devices are those of the
\* restore point again, if they were when the call began: "undone by restoring the previous artifacts" (networkd.rs:22).
RestoredDevices ==
    (phase = "idle" /\ result = "restored" /\ sound) => DevicesMatch(last[3][1].net)

\* The state has its type, and devices are the ones described, after an apply that
\* succeeded and after one that was undone.
DevicesSound == TypeOK /\ DevicesAsDescribed /\ RestoredDevices

\* Neither the configuration of the call nor the record names an account.
NoAccounts ==
    /\ target # <<>> => DOMAIN target[1].login = {}
    /\ last[2] # <<>> => named(last[2][1]) = {}

\* A call over interfaces fails only when something failed: no command is run that the
\* box, as earlier calls left it, cannot carry out (recreations before the reload,
\* attachments, check).  Accounts are left out: one that was removed is not created
\* again (artifacts.rs EnsureAccount).
InterfaceCallsSucceed ==
    NoAccounts /\ (phase = "restore" \/ result \in {"restored", "unrecovered"}) => faulted

\* No step takes what is not its to take: a file without the marker (host.rs:73), or with
\* an account the last way in, by then every password of the configuration being in place
\* (login.rs:185), unless the configuration applied names no account at all.
NothingTakenAway ==
    [][/\ result' = "rebooted" \/
             /\ ForeignNet \in DOMAIN box.net => ForeignNet \in DOMAIN box'.net
             /\ ForeignLink \in DOMAIN box'.link
       /\ DOMAIN box'.users # DOMAIN box.users =>
             Usable' # {} \/ DOMAIN target[1].login = {}]_vars

\* A claim that does not hold (README, "Where the code and its words part").
\* Somebody can log in at every moment: "at no point between the two is there a
\* moment with no account that can log in" (login.rs:188); "Access comes from the
\* console, where `ns` is the login shell" (boot.rs:26).
AlwaysAWayIn == Usable # {}
====
