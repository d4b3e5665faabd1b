----------------------------- MODULE MCProvider -----------------------------
(* An instance of Provider small enough for TLC. *)
EXTENDS Provider

CONSTANTS p, q

List == {"openid", "read", "write"}

\* No sign-in can grant what the last of them requires.
Needs == [writes |-> {"write"}, admin |-> {"write", "admin"}]

Deployed(store, encryptionKey, jwtSigningKey, processes) ==
  [store |-> store, encryptionKey |-> encryptionKey, jwtSigningKey |-> jwtSigningKey,
   processes |-> processes, scopes |-> List, tenant |-> "common", ownRule |-> FALSE,
   provider |-> {"refreshes"}, withheld |-> {}, accounts |-> {"ours"}, tools |-> {"writes"},
   eager |-> FALSE, faults |-> 0]

\* One process with what it makes for itself.
OnItsOwn == [Deployed("own", "unset", "unset", {p}) EXCEPT
              !.provider = {}, !.withheld = {"write"}, !.tools = Tools]

\* Two processes over one store, as documented; the second over a store that encrypts.
Shared == [Deployed("passed", "set", "set", {p, q}) EXCEPT !.tools = Tools]
Sealed == Deployed("encrypted", "unset", "set", {p, q})

\* One process that cannot read after a restart what it saved before.
Apart == Deployed("passed", "unset", "set", {p})

\* One tenant's users only, and a rule that is tightened.
OneTenant == [Deployed("passed", "set", "set", {p}) EXCEPT
               !.tenant = "ours", !.provider = {"refreshes", "omits"}, !.accounts = {"ours", "theirs"}]
Tightened == [Deployed("passed", "off", "unset", {p}) EXCEPT
               !.ownRule = TRUE, !.provider = {"refreshes", "omits"}]

\* Nothing to check an account by.
Unchecked == [OneTenant EXCEPT !.scopes = {"read", "write"}]

\* A store and a provider that fail once, and requests that break off.
Failing == [Deployed("passed", "set", "set", {p}) EXCEPT !.eager = TRUE, !.faults = 1]

Mixed == {OnItsOwn, Shared, Sealed, Apart, OneTenant, Tightened, Unchecked, Failing}

=============================================================================
