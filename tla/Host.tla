---- MODULE Host ----
(***************************************************************************)
(* The boundary between rendering and the machine                          *)
(* (nightshade-render/src/host.rs, artifacts.rs): the operations a         *)
(* renderer's apply asks for, and what each does to the box.               *)
(*                                                                         *)
(* The box is a record: `net' and `link' are the two managed directories   *)
(* (/run/systemd/network, and the persistent one udev reads .link files    *)
(* from), `files' the files at absolute paths, `name' and `zone' what      *)
(* hostnamectl and timedatectl hold, `users' the accounts with the shadow  *)
(* field of each, `devices' the netdevs that exist with the settings they  *)
(* were created with.                                                      *)
(*                                                                         *)
(* The tools themselves (hostnamectl, usermod, chpasswd, userdel,          *)
(* networkctl) are not in the repository; Tool says what the code relies   *)
(* on and that a tool asked to change what is not there fails.             *)
(***************************************************************************)
EXTENDS Naturals, Sequences, FiniteSets, SequencesExt

\* A function of one key, a function laid over another, and one without a key.
Only(k, v) == [x \in {k} |-> v]
Over(f, g) == [x \in DOMAIN f \cup DOMAIN g |-> IF x \in DOMAIN f THEN f[x] ELSE g[x]]
Without(f, x) == [y \in DOMAIN f \ {x} |-> f[y]]

\* The members of S in the order the tree keeps them.
InOrder(order, S) == FlattenSeq([i \in DOMAIN order |-> IF order[i] \in S THEN <<order[i]>> ELSE <<>>])

\* A managed file's name: number prefix, whether it has MANAGED_MARKER in it, the
\* interface, the extension.
FileName(prefix, interface, ext) == <<prefix, TRUE, interface, ext>>
Marked(name)  == name[2]
Device(name)  == name[3]
Extension(name) == name[4]

\* Host::sync run to its end: every file written, every other marked file removed,
\* the rest left alone.
Sync(old, files) ==
    LET foreign == {n \in DOMAIN old : ~Marked(n)}
    IN  [n \in DOMAIN files \cup foreign |->
            IF n \in DOMAIN files THEN files[n] ELSE old[n]]

\* Host::sync stopped half way.  Files are written in name order before any is
\* removed; names being arbitrary here, the ones written are any of them.  A file is
\* replaced by a rename, so it holds the old contents or the new.
SyncHalfway(old, files) ==
    LET stale == {n \in DOMAIN old : Marked(n) /\ n \notin DOMAIN files}
    IN  {[n \in DOMAIN old \cup w |-> IF n \in w THEN files[n] ELSE old[n]] :
            w \in SUBSET DOMAIN files}
        \cup
        {[n \in (DOMAIN old \cup DOMAIN files) \ gone |->
            IF n \in DOMAIN files THEN files[n] ELSE old[n]] : gone \in SUBSET stale}

\* Operations, as Op in host.rs has them.
OpSync(dir, files)     == [op |-> "sync", dir |-> dir, files |-> files]
OpWrite(path, text)    == [op |-> "write", path |-> path, text |-> text]
OpRun(line)            == [op |-> "run", argv |-> line]
OpSecret(line, secret) == [op |-> "secret", argv |-> line, secret |-> secret]

\* Action::argv: the command an action is.  The comment pinned to a usermod is left
\* out; a password is not in the line.
argv(action) ==
    CASE action.act = "SetHostName"    -> <<"hostnamectl", action.name>>
      [] action.act = "SetTimeZone"    -> <<"timedatectl", action.zone>>
      [] action.act = "ReloadNetworkd" -> <<"networkctl-reload">>
      [] action.act = "RecreateNetdev" -> <<"networkctl-delete", action.name>>
      [] action.act = "EnsureAccount"  -> <<"usermod", action.name>>
      [] action.act = "SetPassword"    -> <<"chpasswd">>
      [] action.act = "RemoveAccount"  -> <<"userdel", action.name>>

\* networkd on a reload: a netdev with a definition and no device is created; a
\* device that exists keeps what it was created with; a device whose definition has
\* gone stays.
Reload(box) ==
    LET defined == {n \in DOMAIN box.net : Extension(n) = "netdev"}
        new     == {n \in defined : Device(n) \notin DOMAIN box.devices}
    IN  [box EXCEPT !.devices =
            [d \in DOMAIN box.devices \cup {Device(n) : n \in new} |->
                IF d \in DOMAIN box.devices THEN box.devices[d]
                ELSE box.net[CHOOSE n \in new : Device(n) = d]]]

\* What a tool makes of the box: a set with the one result, empty when it refuses.
Tool(line, box) ==
    CASE line[1] = "hostnamectl" -> {[box EXCEPT !.name = line[2]]}
      [] line[1] = "timedatectl" -> {[box EXCEPT !.zone = line[2]]}
      [] line[1] = "networkctl-reload" -> {Reload(box)}
      [] line[1] = "networkctl-delete" ->
            IF line[2] \in DOMAIN box.devices
            THEN {[box EXCEPT !.devices = Without(@, line[2])]} ELSE {}
      [] line[1] = "usermod" -> IF line[2] \in DOMAIN box.users THEN {box} ELSE {}
      [] line[1] = "userdel" ->
            IF line[2] \in DOMAIN box.users
            THEN {[box EXCEPT !.users = Without(@, line[2])]} ELSE {}

\* RealHost::run_with_secret: chpasswd -e with name:hash on its standard input.
SetPassword(secret, box) ==
    IF secret.name \in DOMAIN box.users
    THEN {[box EXCEPT !.users[secret.name] = secret.hash]} ELSE {}

\* An operation run to its end: the one box it makes, none when it cannot be done.
Done(op, box) ==
    CASE op.op = "sync" /\ op.dir = "net"  -> {[box EXCEPT !.net = Sync(@, op.files)]}
      [] op.op = "sync" /\ op.dir = "link" -> {[box EXCEPT !.link = Sync(@, op.files)]}
      [] op.op = "write" -> {[box EXCEPT !.files = Over(Only(op.path, op.text), @)]}
      [] op.op = "run"    -> Tool(op.argv, box)
      [] op.op = "secret" -> SetPassword(op.secret, box)

\* Every box an operation can leave that failed or was cut short.  write_atomically
\* renames at the end, so a single file is the old or the new one; a command that
\* fails is taken to have done nothing.
Halfway(op, box) ==
    CASE op.op = "sync" /\ op.dir = "net" ->
            {[box EXCEPT !.net = f] : f \in SyncHalfway(box.net, op.files)}
      [] op.op = "sync" /\ op.dir = "link" ->
            {[box EXCEPT !.link = f] : f \in SyncHalfway(box.link, op.files)}
      [] OTHER -> {box}

\* Artifacts: managed files by directory, other files, actions in order.
Artifacts(net, link, files, actions) ==
    [net |-> net, link |-> link, files |-> files, actions |-> actions]

\* verify_files: every file of the artifacts is there with its contents.
VerifyFiles(artifacts, box) ==
    /\ \A n \in DOMAIN artifacts.net :
          n \in DOMAIN box.net /\ box.net[n] = artifacts.net[n]
    /\ \A n \in DOMAIN artifacts.link :
          n \in DOMAIN box.link /\ box.link[n] = artifacts.link[n]
    /\ \A p \in DOMAIN artifacts.files :
          p \in DOMAIN box.files /\ box.files[p] = artifacts.files[p]

\* One run per action, as the apply loops make them of a list of actions.
Commands(actions) == [i \in 1..Len(actions) |-> OpRun(argv(actions[i]))]
====
