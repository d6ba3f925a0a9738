---------------------------- MODULE MCQueryPool ----------------------------
(* Two workers, and three queries of which two belong to one request that  *)
(* may be given up.                                                        *)
EXTENDS QueryPool

CONSTANTS q1, q2, q3

MCQueries == {q1, q2, q3}
MCAbortable == {q1, q2}
=============================================================================
