----------------------------- MODULE MCRefresh -----------------------------
(* Two rounds of the primary refresh against a request; and one round  *)
(* against an allowlist refresh, a deletion and a request that recovers.   *)
EXTENDS Refresh

CONSTANTS h1, allowlists, deletion

NoOne == {}
OneHandler == {h1}
MCSides == {<<"side", allowlists, 0>>}
MCDeletions == {<<"deletion", deletion, 0>>}
=============================================================================
