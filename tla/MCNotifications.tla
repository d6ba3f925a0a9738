--------------------------- MODULE MCNotifications ---------------------------
(* A rule with two conditions and a rule about the availability of LAPI. *)
EXTENDS Notifications

CONSTANTS spike, outage

MCRules == <<spike, outage>>
=============================================================================
