--------------------------- MODULE PublicationGate ---------------------------
(***************************************************************************)
(* What PublishedRevisionLock promises its callers, without the counter,   *)
(* the flag and the two queues that keep the promise: each call goes       *)
(* through its phases in order, a publishing refresh excludes everybody,   *)
(* no reader overtakes a waiting refresh, and nobody waits for an idle     *)
(* lock.  One step may move several calls: a release lets others in.       *)
(***************************************************************************)
CONSTANTS Readers, Writers

VARIABLE status   \* how far each call has come, as its caller can tell

Calls == Readers \cup Writers

Phases == {"idle", "waiting", "holding", "released", "failed"}

(* Only a write has a timeout. *)
Successors(c, p) ==
    CASE p = "idle"    -> {"waiting", "holding"}
      [] p = "waiting" -> {"holding"} \cup (IF c \in Writers THEN {"failed"} ELSE {})
      [] p = "holding" -> {"released"}
      [] OTHER         -> {}

In(s, p) == {c \in Calls : s[c] = p}

Exclusive(s) == \A w \in In(s, "holding") \cap Writers : In(s, "holding") = {w}

WorkConserving(s) == In(s, "holding") = {} => In(s, "waiting") = {}

(* Reads that a step grants find no write waiting after it. *)
NoOvertaking(s, t) ==
    \A r \in Readers :
        (s[r] # "holding" /\ t[r] = "holding") => In(t, "waiting") \cap Writers = {}

GateInit == status = [c \in Calls |-> "idle"]

GateNext ==
    /\ status' \in [Calls -> Phases]
    /\ \A c \in Calls : status'[c] = status[c] \/ status'[c] \in Successors(c, status[c])
    /\ Exclusive(status')
    /\ WorkConserving(status')
    /\ NoOvertaking(status, status')

GateSpec == GateInit /\ [][GateNext]_status
=============================================================================
