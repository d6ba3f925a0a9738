------------------------------ MODULE Reconcile ------------------------------
(* Which windows of the alert history a refresh reads again from LAPI to     *)
(* find what was deleted or changed there: planDueReconcileWindows() and the *)
(* state it plans from (src/server/app/sync-service.ts). The closed windows  *)
(* are numbered from the most recent, 1, to the oldest, NumClosed; window 0  *)
(* is the open one, the "head". One refresh is one unit of time.             *)
EXTENDS Naturals, FiniteSets

CONSTANTS
    NumClosed,      \* closed windows inside the lookback (lookbackMs / windowMs)
    WindowLength,   \* refreshes per window (reconcileWindowMs)
    ActiveInterval, RecentInterval, OldInterval,    \* reconcile...IntervalMs
    RecentAge,      \* reconcileRecentAgeMs
    MaxSlots,       \* bound on reconcileWindowsPerRefresh
    MaxWait         \* the refreshes a due window may have to wait

ASSUME ReconcileAssumption ==
    /\ {NumClosed, WindowLength, ActiveInterval, RecentInterval, OldInterval,
        MaxSlots} \subseteq Nat \ {0}
    /\ {RecentAge, MaxWait} \subseteq Nat

VARIABLES
    slots,      \* reconcileWindowsPerRefresh, from the configuration
    elapsed,    \* how far the open window has advanced
    windows     \* per window: the age of its last success, whether it has had
                \* one, whether LAPI fails to answer for it, and the refreshes
                \* it has been due without being read

reconcileVars == <<slots, elapsed, windows>>

OpenWindow == 0
Candidates == OpenWindow..NumClosed
Closed == 1..NumClosed

Fresh(never, bad) == [age |-> 0, never |-> never, bad |-> bad, wait |-> 0]

(* Fewer windows fail than there are slots: a failing window is retried by   *)
(* every refresh, and as many of them as there are slots would stop the rest. *)
FewerBadThan(n, ws) == Cardinality({w \in Closed : ws[w].bad}) < n

(* After seedReconcileWindowState() every window has just succeeded, after   *)
(* resetReconcileWindowState() none has.                                     *)
ReconcileInit ==
    /\ slots \in 1..MaxSlots
    /\ elapsed = 0
    /\ \E never \in BOOLEAN, bad \in SUBSET Closed :
        windows = [w \in Candidates |-> Fresh(never \/ w \in bad, w \in bad)]
    /\ FewerBadThan(slots, windows)

-----------------------------------------------------------------------------
(* planDueReconcileWindows(), for the windows that hold active decisions.    *)

EndAge(w) == IF w = OpenWindow THEN 0 ELSE (w - 1) * WindowLength + elapsed

Interval(w, active) ==
    IF w \in active THEN ActiveInterval
    ELSE IF EndAge(w) <= RecentAge THEN RecentInterval
    ELSE OldInterval

Due(active) ==
    {w \in Candidates : windows[w].never \/ windows[w].age >= Interval(w, active)}

(* The age of the last success in intervals, compared without a division; a  *)
(* window without a success is overdue without limit. Then active windows    *)
(* come first, then later ones.                                              *)
MoreUrgent(l, r, active) ==
    LET left == windows[l]
        right == windows[r]
        ratio == left.age * Interval(r, active)
        other == right.age * Interval(l, active)
    IN  IF left.never # right.never THEN left.never
        ELSE IF ~left.never /\ ratio # other THEN ratio > other
        ELSE IF (l \in active) # (r \in active) THEN l \in active
        ELSE l < r

(* The earlier success, then the earlier window. *)
Older(l, r) ==
    LET left == windows[l]
        right == windows[r]
    IN  IF left.never # right.never THEN left.never
        ELSE IF ~left.never /\ left.age # right.age THEN left.age > right.age
        ELSE l > r

(* The windows that fewer than n due ones precede by urgency. *)
MostUrgent(active, n) ==
    {w \in Due(active) : Cardinality({o \in Due(active) : MoreUrgent(o, w, active)}) < n}

OldestOf(S) == {w \in S : \A o \in S \ {w} : Older(w, o)}

(* The planner without the slot it reserves for the oldest success. *)
PlanByPriority(active) == MostUrgent(active, slots)

(* All slots but one go by urgency, and one to the oldest success of the     *)
(* rest; the loop that fills the remaining slots never finds one to fill.    *)
Plan(active) ==
    LET first == MostUrgent(active, slots - 1)
    IN  first \cup OldestOf(Due(active) \ first)

-----------------------------------------------------------------------------
(* The windows of the plan that are read and stored without an error are     *)
(* recorded (runPlannedReconcileWindows, recordReconcileWindowSuccess); the  *)
(* head is read by the delta that every refresh begins with.                 *)
Recorded(active) ==
    LET plan == Plan(active)
        due == Due(active)
    IN  [w \in Candidates |->
            IF w \in plan /\ ~windows[w].bad THEN Fresh(FALSE, FALSE)
            ELSE [windows[w] EXCEPT !.wait = IF w \in due THEN @ + 1 ELSE 0]]

(* Time passes. A window without a success has no age. *)
Aged(ws) == [w \in DOMAIN ws |->
                IF ws[w].never THEN ws[w] ELSE [ws[w] EXCEPT !.age = @ + 1]]

(* The open window closes: it has no entry yet, and finishReconcilePlan()    *)
(* forgets the window that has left the lookback (createClosedReconcile-     *)
(* Windows).                                                                 *)
Shifted(ws, bad) == [w \in Candidates |->
    IF w = OpenWindow THEN ws[OpenWindow]
    ELSE IF w = 1 THEN Fresh(TRUE, bad)
    ELSE ws[w - 1]]

Refresh ==
    \E active \in SUBSET Candidates, bad \in BOOLEAN :
        LET ws == Aged(Recorded(active))
        IN  IF elapsed + 1 = WindowLength
            THEN /\ elapsed' = 0
                 /\ windows' = Shifted(ws, bad)
                 /\ FewerBadThan(slots, windows')
                 /\ UNCHANGED slots
            ELSE /\ ~bad
                 /\ elapsed' = elapsed + 1
                 /\ windows' = ws
                 /\ UNCHANGED slots

ReconcileNext == Refresh

ReconcileSpec == ReconcileInit /\ [][ReconcileNext]_reconcileVars

-----------------------------------------------------------------------------
(* "Active and recent windows retain their lower latency without starving    *)
(* old data": a due window that LAPI answers for waits a bounded number of   *)
(* refreshes, whatever holds active decisions meanwhile (planDueReconcile-   *)
(* Windows), as long as fewer windows fail than there are slots.             *)
NoStarvation == \A w \in Candidates : ~windows[w].bad => windows[w].wait <= MaxWait
=============================================================================
