----------------------------- MODULE PageUpdates -----------------------------
(* How an open page learns of a published revision and shows it: the         *)
(* WebSocket of src/server/cache-update-websocket.ts, its other end and the  *)
(* polling in client/src/contexts/RefreshContext.tsx, and the loads of       *)
(* client/src/pages/Alerts.tsx, over a connection that may break silently.   *)
(* The page shows one instance; a row is abstracted to its mark: the filter  *)
(* it was asked for under and the revision at which the server read it. Rows *)
(* are loaded in pages, and a refresh reads no more than the first of them.  *)
EXTENDS Naturals, FiniteSets, Sequences

CONSTANTS
    Filters,        \* what the page can ask for: query, search parameters, view
    RefreshPages,   \* the pages of MAX_ALERT_REFRESH_SIZE rows
    Polling,        \* a refresh interval is set
    MaxStamp,       \* bound: revisions that are published
    MaxLoads,       \* bound: loads of the page in flight at once
    MaxChoices,     \* bound: changes of the filter
    MaxEvents       \* bound: failures of every kind, and pages loaded by scrolling

ASSUME PageAssumption ==
    /\ Filters # {}
    /\ Polling \in BOOLEAN
    /\ {RefreshPages, MaxStamp, MaxLoads, MaxChoices, MaxEvents} \subseteq Nat

VARIABLES
    stamp,      \* the newest revision
    mine,       \* the newest revision that concerns the instance of the page
    announced,  \* cacheRefreshCompletedAt; 0 is null
    server,     \* the server's end: "none", "authorizing" or "open"
    dead,       \* sockets the server still has whose client is gone
    link,       \* the connection between the two ends works
    inbox,      \* messages on their way
    socket,     \* the page's end: "none", "connecting" or "open"
    lastPush,   \* lastPushRevisionRef
    signal,     \* refreshSignal was raised and its effect has not run
    filter,     \* what the page asks for
    starting,   \* the load of a new filter is about to start
    loads,      \* calls of loadAlerts() that wait for the server
    recent,     \* lastCompletedLoadRef, for 250 ms
    loading,    \* initialLoading or backgroundLoading
    loadingMore,
    shown,      \* alertsRef and currentPageRef: the marks of the rows of the
                \* last load but an append, of the rows below, and the page
    left        \* what remains of the bounds

serverVars == <<stamp, mine, announced>>
linkVars == <<server, dead, link, inbox, socket>>
pageVars == <<filter, starting, loads, recent, loading, loadingMore, shown>>
clientVars == <<serverVars, linkVars, lastPush, signal, pageVars, left>>

Mark(asked, revision) == [filter |-> asked, revision |-> revision]
Nothing == [head |-> Mark("none", 0), tail |-> {}, page |-> 1]
Marks == {shown.head} \cup shown.tail

PageInit ==
    /\ stamp = 1 /\ mine = 1 /\ announced \in {0, 1}
    /\ server = "none" /\ dead = [fresh |-> 0, marked |-> 0]
    /\ link = TRUE /\ inbox = <<>> /\ socket = "none"
    /\ lastPush = 0 /\ signal = FALSE
    /\ filter \in Filters /\ starting = TRUE
    /\ loads = {} /\ recent = <<>> /\ loading = TRUE /\ loadingMore = FALSE
    /\ shown = Nothing
    /\ left = [choices |-> MaxChoices, events |-> MaxEvents]

Spend(what) == left[what] > 0 /\ left' = [left EXCEPT ![what] = @ - 1]

-----------------------------------------------------------------------------
(* publishCacheUpdate(): every open socket is sent the new revision and the  *)
(* instances it concerns.                                                    *)
Message(type, revision, concerns) ==
    [type |-> type, revision |-> revision, concerns |-> concerns]
Sent(m) == IF server = "open" /\ link THEN Append(inbox, m) ELSE inbox

Publish ==
    /\ stamp < MaxStamp
    /\ stamp' = stamp + 1
    /\ announced' = stamp'
    /\ \E concerns \in BOOLEAN :
        /\ mine' = IF concerns THEN stamp' ELSE mine
        /\ inbox' = Sent(Message("cache-updated", stamp', concerns))
    /\ UNCHANGED <<server, dead, link, socket, lastPush, signal, pageVars, left>>

(* connect() and the upgrade request at the server. *)
Connect ==
    /\ socket = "none"
    /\ socket' = "connecting"
    /\ server' = "authorizing"
    /\ dead' = IF server = "open" THEN [dead EXCEPT !.fresh = @ + 1] ELSE dead
    /\ link' = TRUE
    /\ inbox' = <<>>
    /\ UNCHANGED <<serverVars, lastPush, signal, pageVars, left>>

(* The request for /api/config was answered: the socket joins the clients    *)
(* and is told the revision of this moment.                                  *)
Authorize ==
    /\ server = "authorizing"
    /\ server' = "open"
    /\ inbox' = IF link THEN <<Message("ready", announced, TRUE)>> ELSE <<>>
    /\ UNCHANGED <<serverVars, dead, link, socket, lastPush, signal, pageVars, left>>

(* It was refused or took too long; the page's end closes with it. *)
Reject ==
    /\ server = "authorizing" /\ link
    /\ Spend("events")
    /\ server' = "none"
    /\ socket' = "none"
    /\ UNCHANGED <<serverVars, dead, link, inbox, lastPush, signal, pageVars>>

Opened ==
    /\ socket = "connecting" /\ server = "open" /\ link
    /\ socket' = "open"
    /\ UNCHANGED <<serverVars, server, dead, link, inbox, lastPush, signal, pageVars, left>>

(* socket.onmessage *)
Receive ==
    /\ socket = "open" /\ inbox # <<>>
    /\ inbox' = Tail(inbox)
    /\ LET m == inbox[1]
       IN  IF m.type = "cache-updated" /\ ~m.concerns THEN UNCHANGED <<lastPush, signal>>
           ELSE /\ lastPush' = m.revision
                /\ signal' = (\/ signal
                              \/ m.type = "cache-updated"
                              \/ (lastPush # 0 /\ m.revision # lastPush))
    /\ UNCHANGED <<serverVars, server, dead, link, socket, pageVars, left>>

(* "An intermediary silently drops individual messages", or everything. *)
Lose ==
    /\ Spend("events")
    /\ \/ inbox # <<>> /\ inbox' = Tail(inbox) /\ UNCHANGED link
       \/ link /\ link' = FALSE /\ inbox' = <<>>
    /\ UNCHANGED <<serverVars, server, dead, socket, lastPush, signal, pageVars>>

(* A connection that does not open in time (the server gives an authorization*)
(* half of that), or on which not even heartbeats arrive, is closed by the   *)
(* page; onclose schedules the next attempt.                                 *)
GiveUpConnecting ==
    /\ socket = "connecting"
    /\ server = "none" \/ (server = "open" /\ ~link)
    /\ socket' = "none"
    /\ UNCHANGED <<serverVars, server, dead, link, inbox, lastPush, signal, pageVars, left>>

(* Mutant: a silent connection is not noticed. *)
IdleTimeoutNever == FALSE /\ UNCHANGED clientVars

IdleTimeout ==
    /\ socket = "open" /\ (~link \/ server # "open")
    /\ socket' = "none"
    /\ UNCHANGED <<serverVars, server, dead, link, inbox, lastPush, signal, pageVars, left>>

(* The heartbeat terminates a socket that has not answered the last ping; a  *)
(* live one answers before the next.                                         *)
Heartbeat ==
    /\ dead # [fresh |-> 0, marked |-> 0] \/ (server = "open" /\ ~link)
    /\ dead' = [fresh |-> 0, marked |-> dead.fresh + IF server = "open" /\ ~link THEN 1 ELSE 0]
    /\ server' = IF server = "open" /\ ~link THEN "none" ELSE server
    /\ UNCHANGED <<serverVars, link, inbox, socket, lastPush, signal, pageVars, left>>

(* The server restarts: its sockets are closed. *)
ServerRestarts ==
    /\ Spend("events")
    /\ announced' = 0
    /\ server' = "none" /\ socket' = "none" /\ inbox' = <<>>
    /\ dead' = [fresh |-> 0, marked |-> 0]
    /\ UNCHANGED <<stamp, mine, link, lastPush, signal, pageVars>>

-----------------------------------------------------------------------------
(* The polling fallback: the refresh interval elapses. *)
Poll ==
    /\ Polling /\ ~signal
    /\ signal' = TRUE
    /\ UNCHANGED <<serverVars, linkVars, lastPush, pageVars, left>>

(* loadAlerts(): a load under the key of one in flight, or of one that has   *)
(* just completed, is not started; a load that is supersedes the others. It  *)
(* is the first load of a filter, a refresh of the pages that are loaded, or *)
(* it appends the next page.                                                 *)
Key(kind) == <<kind, IF kind = "initial" THEN 1 ELSE shown.page, filter>>
InFlight(key) == \E l \in loads : l.key = key /\ l.held

Start(kind) ==
    IF InFlight(Key(kind)) \/ recent = Key(kind) THEN UNCHANGED <<loads, loading, loadingMore>>
    ELSE /\ Cardinality(loads) < MaxLoads
         /\ loads' = {[l EXCEPT !.current = FALSE] : l \in loads}
                        \cup {[key |-> Key(kind), kind |-> kind, filter |-> filter,
                               held |-> TRUE, current |-> TRUE, revision |-> 0]}
         /\ loading' = (loading \/ kind # "append")
         /\ loadingMore' = (kind = "append")

StartInitialLoad ==
    /\ starting
    /\ starting' = FALSE
    /\ Start("initial")
    /\ UNCHANGED <<serverVars, linkVars, lastPush, signal, filter, recent, shown, left>>

StartRefresh ==
    /\ signal
    /\ signal' = FALSE
    /\ Start("refresh")
    /\ UNCHANGED <<serverVars, linkVars, lastPush, filter, starting, recent, shown, left>>

(* The last row came into view and there are more. *)
StartAppend ==
    /\ ~loading /\ ~loadingMore
    /\ shown # Nothing
    /\ Spend("events")
    /\ Start("append")
    /\ UNCHANGED <<serverVars, linkVars, lastPush, signal, filter, starting, recent, shown>>

(* The server reads the rows under the revision of this moment. *)
ServerReads ==
    /\ \E l \in loads :
        /\ l.revision = 0
        /\ loads' = (loads \ {l}) \cup {[l EXCEPT !.revision = mine]}
    /\ UNCHANGED <<serverVars, linkVars, lastPush, signal, filter, starting, recent, loading,
                   loadingMore, shown, left>>

(* Mutant: a refresh merges the rows that were there whatever it asked for. *)
MergedAlways(l) ==
    LET mark == Mark(l.filter, l.revision)
    IN  CASE l.kind = "initial" -> {[head |-> mark, tail |-> {}, page |-> 1]}
          [] l.kind = "append" ->
                {[shown EXCEPT !.tail = shown.tail \cup {mark}, !.page = shown.page + 1]}
          [] OTHER -> {[head |-> mark, tail |-> kept, page |-> shown.page] : kept \in SUBSET Marks}

(* The rows after an answer. A refresh of more pages than it may ask for     *)
(* keeps rows that were there below the ones it got.                         *)
Merged(l) ==
    LET mark == Mark(l.filter, l.revision)
    IN  CASE l.kind = "initial" -> {[head |-> mark, tail |-> {}, page |-> 1]}
          [] l.kind = "append" ->
                {[shown EXCEPT !.tail = shown.tail \cup {mark}, !.page = shown.page + 1]}
          [] OTHER ->
                UNION {{[head |-> mark, tail |-> kept, page |-> n] :
                            kept \in IF n > RefreshPages THEN SUBSET Marks ELSE {{}}} :
                       n \in 1 .. shown.page}

(* Mutant: the answer to a superseded request counts. *)
AnswerUnchecked ==
    /\ \E l \in loads :
        /\ l.revision > 0
        /\ loads' = loads \ {l}
        /\ shown' \in Merged(l)
        /\ recent' = l.key /\ loading' = FALSE /\ loadingMore' = FALSE
    /\ UNCHANGED <<serverVars, linkVars, lastPush, signal, filter, starting, left>>

(* Only the answer to the latest request counts. *)
Answer ==
    /\ \E l \in loads :
        /\ l.revision > 0
        /\ loads' = loads \ {l}
        /\ IF l.current
           THEN /\ shown' \in Merged(l)
                /\ recent' = l.key
                /\ loading' = FALSE
                /\ loadingMore' = (loadingMore /\ l.kind # "append")
           ELSE UNCHANGED <<shown, recent, loading, loadingMore>>
    /\ UNCHANGED <<serverVars, linkVars, lastPush, signal, filter, starting, left>>

(* Mutant: a failed request leaves the flags. *)
AnswerFailsLoading ==
    /\ Spend("events")
    /\ \E l \in loads : loads' = loads \ {l}
    /\ UNCHANGED <<serverVars, linkVars, lastPush, signal, filter, starting, recent, shown,
                   loading, loadingMore>>

AnswerFails ==
    /\ Spend("events")
    /\ \E l \in loads :
        /\ loads' = loads \ {l}
        /\ loading' = (loading /\ ~l.current)
        /\ loadingMore' = (loadingMore /\ ~(l.current /\ l.kind = "append"))
    /\ UNCHANGED <<serverVars, linkVars, lastPush, signal, filter, starting, recent, shown>>

(* A quarter of a second after a load. *)
RecentPasses ==
    /\ recent # <<>>
    /\ recent' = <<>>
    /\ UNCHANGED <<serverVars, linkVars, lastPush, signal, filter, starting, loads, loading,
                   loadingMore, shown, left>>

(* Another filter: loads in flight are forgotten, a new one is about to      *)
(* start. A change between the grouped view and the other clears the rows.   *)
Choose ==
    /\ Spend("choices")
    /\ filter' \in Filters \ {filter}
    /\ \/ UNCHANGED <<loading, shown>>
       \/ loading' = TRUE /\ shown' = Nothing
    /\ starting' = TRUE
    /\ loads' = {[l EXCEPT !.current = FALSE, !.held = FALSE] : l \in loads}
    /\ recent' = <<>>
    /\ UNCHANGED <<serverVars, linkVars, lastPush, signal, loadingMore>>

Connection == Connect \/ Authorize \/ Opened \/ Receive \/ GiveUpConnecting \/ IdleTimeout
Loading == StartInitialLoad \/ StartRefresh \/ StartAppend \/ ServerReads \/ Answer

PageNext ==
    \/ Publish \/ Connection \/ Reject \/ Lose \/ Heartbeat \/ ServerRestarts
    \/ Poll \/ Loading \/ AnswerFails \/ RecentPasses \/ Choose

PageSpec == PageInit /\ [][PageNext]_clientVars

(* Timers fire and requests are answered; nobody has to publish, choose or   *)
(* fail.                                                                     *)
FairPageSpec ==
    /\ PageSpec
    /\ WF_clientVars(Connect) /\ WF_clientVars(Authorize) /\ WF_clientVars(Opened) /\ WF_clientVars(Receive)
    /\ WF_clientVars(GiveUpConnecting) /\ WF_clientVars(IdleTimeout) /\ WF_clientVars(Heartbeat)
    /\ WF_clientVars(Poll) /\ WF_clientVars(RecentPasses)
    /\ WF_clientVars(StartInitialLoad) /\ WF_clientVars(StartRefresh)
    /\ WF_clientVars(ServerReads) /\ WF_clientVars(Answer)

-----------------------------------------------------------------------------
(* "A superseded request may have raised either flag and will not clear it   *)
(* itself": the page says that it loads, or that it loads more, only while   *)
(* its latest request is open or about to be made, however loads overlap,    *)
(* fail and are superseded (loadAlerts).                                     *)
SpinnerEnds ==
    /\ loading => starting \/ \E l \in loads : l.current
    /\ loadingMore => starting \/ \E l \in loads : l.current /\ l.kind = "append"
    /\ Cardinality({l \in loads : l.current}) <= 1

(* Rows are replaced and added by rows of the filter that is asked for now,  *)
(* never by older ones; and when all rows are of that filter, none of a      *)
(* filter that was left comes back, though a refresh merges rows that were   *)
(* there before (loadAlerts).                                                *)
OfFilter(marks) == \A m \in marks : m.filter = filter
PageForward ==
    [][filter' = filter =>
        /\ \A m \in Marks' \ Marks : m.filter = filter /\ m.revision >= shown.head.revision
        /\ shown'.head.revision >= shown.head.revision
        /\ OfFilter(Marks) => OfFilter(Marks)']_clientVars

(* "A bounded polling fallback even while push is connected": whatever was   *)
(* lost, refused, dropped as a duplicate or published before the socket was  *)
(* open, the page ends up with the newest rows of its instance at its head,  *)
(* and with no others while it has no more pages than a refresh may ask for. *)
(* The rows below stay as they were loaded (RefreshContext, loadAlerts).     *)
CatchesUp ==
    <>[](/\ shown.head = Mark(filter, mine)
         /\ shown.page <= RefreshPages => Marks = {shown.head})

(* After the last failure the page is connected for good, and the server     *)
(* keeps no socket whose page is gone (RefreshContext, cache-update-websocket*)
(* heartbeat).                                                               *)
ConnectionsHeal ==
    <>[](socket = "open" /\ server = "open" /\ link /\ dead = [fresh |-> 0, marked |-> 0])
=============================================================================
