------------------------- MODULE MCCredentialRefresh -------------------------
(* Small instances of CredentialRefresh. *)
EXTENDS CredentialRefresh

CONSTANTS r1, r2

\* A short lease, and one that the plugin wants renewed at once.
MCHints == {<<2, None>>, <<None, 0>>}

\* A plugin that fails does not say when to call it again, or wants it at once.
MCRetryHints == {None, 0}
=============================================================================
