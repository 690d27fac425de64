---- MODULE LoginRenderer ----
(***************************************************************************)
(* Local accounts (nightshade-render/src/login.rs).  A configuration's     *)
(* `login' part is a function from account names to what is configured     *)
(* for encrypted-password: NoPassword when the leaf is not set, a hash, or *)
(* Disabled (the shadow values ! and * that let nobody in).                *)
(***************************************************************************)
EXTENDS Host

CONSTANTS
    AccountOrder,   \* every account name, in the order the tree keeps them
    NeverManaged,   \* NEVER_MANAGED
    NoPassword,
    Disabled

\* LoginRenderer::users, in name order.
users(c) == InOrder(AccountOrder, DOMAIN c.login)

\* LoginRenderer::named: the accounts artifacts say should exist.
named(a) == {a.actions[i].name :
                i \in {j \in 1..Len(a.actions) : a.actions[j].act = "EnsureAccount"}}

\* Wrong variant of login_render: an account that is disabled has no password to set.
login_render_enabled_only(c) ==
    LET account(n) ==
            <<[act |-> "EnsureAccount", name |-> n]>>
            \o IF c.login[n] \in {NoPassword, Disabled} THEN <<>>
               ELSE <<[act |-> "SetPassword", name |-> n, hash |-> c.login[n]]>>
    IN  Artifacts(<<>>, <<>>, <<>>,
            FlattenSeq([i \in 1..Len(users(c)) |-> account(users(c)[i])]))

\* LoginRenderer::render: each account, followed by its password when there is one.
login_render(c) ==
    LET account(n) ==
            <<[act |-> "EnsureAccount", name |-> n]>>
            \o IF c.login[n] = NoPassword THEN <<>>
               ELSE <<[act |-> "SetPassword", name |-> n, hash |-> c.login[n]]>>
    IN  Artifacts(<<>>, <<>>, <<>>,
            FlattenSeq([i \in 1..Len(users(c)) |-> account(users(c)[i])]))

\* LoginRenderer::check: no system account, and somebody can log in unless nobody is
\* configured.
login_check(a) ==
    LET usable == {i \in 1..Len(a.actions) :
                     a.actions[i].act = "SetPassword" /\ a.actions[i].hash # Disabled}
    IN  /\ named(a) \cap NeverManaged = {}
        /\ named(a) # {} => usable # {}

\* removals: the accounts the last apply named and this one does not.  `previous' is
\* a sequence of none or one.
removals(previous, next) ==
    LET before == IF previous = <<>> THEN {} ELSE named(previous[1])
        order  == InOrder(AccountOrder, before \ named(next))
    IN  [i \in 1..Len(order) |-> [act |-> "RemoveAccount", name |-> order[i]]]

\* Wrong variant of login_apply: surplus accounts go first.
login_apply_removing_first(previous, a) ==
    Commands(removals(previous, a)) \o
    [i \in 1..Len(a.actions) |->
        IF a.actions[i].act = "SetPassword"
        THEN OpSecret(argv(a.actions[i]), a.actions[i]) ELSE OpRun(argv(a.actions[i]))]

\* LoginRenderer::apply: the accounts and passwords, then the removals.
login_apply(previous, a) ==
    [i \in 1..Len(a.actions) |->
        IF a.actions[i].act = "SetPassword"
        THEN OpSecret(argv(a.actions[i]), a.actions[i]) ELSE OpRun(argv(a.actions[i]))]
    \o Commands(removals(previous, a))
====
