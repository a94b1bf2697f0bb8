----------------------------- MODULE ClientSync -----------------------------
(****************************************************************************)
(* The client between the manager's tables and the tunnel servers: the      *)
(* connection manager of run_client, one run_server_task per server, and    *)
(* sync_tunnels, which the poll loop runs and every run_server_task runs    *)
(* once after it has connected, all at the same time                        *)
(* (client/src/main.rs).                                                    *)
(*                                                                          *)
(* One action lies between two awaits that let another task in: a request   *)
(* to the manager, or one section under a lock.  A frame is handled by the  *)
(* server as it is sent, or lost if the connection is: the client waits for *)
(* no answer, and what a server may do later it may also do just before.    *)
(* Tunnel ids are only compared, so an id nobody holds may be used again.   *)
(*                                                                          *)
(* A task at "drop" (or "next", in a clean-up) keeps the write lock on the  *)
(* state while it waits for stats.tunnels; the status report of the poll    *)
(* loop keeps stats.tunnels while it waits for the state.  A wait with no   *)
(* lock in hand only delays and is left out.                                *)
(****************************************************************************)
EXTENDS Naturals, FiniteSets

CONSTANTS
    Row,        \* the rows of the table tunnels assigned to this client
    Server,     \* the servers of client.toml
    First,      \* the server the manager falls back to
    Place,      \* what an edit may make of a row: [sid, pp, online]
    Start,      \* what the rows may be when the client starts
    Tid,        \* tunnel ids, TUNNEL_ID_COUNTER
    MaxEdits,   \* bound on the changes of the table
    MaxBreaks   \* bound on the connections that break

None == 0       \* NULL, and the tunnel id of a row that is not recorded
Poll == 0       \* the poll loop, the sync that belongs to no server
ASSUME RowAssumption == IsFiniteSet(Row)
ASSUME ServerAssumption == Server \subseteq Nat \ {0} /\ First \in Server
ASSUME PlaceAssumption == Place \subseteq [sid : Server \cup {None}, pp : BOOLEAN, online : BOOLEAN]
ASSUME StartAssumption == Start \subseteq Place
ASSUME TidAssumption == Tid \subseteq Nat \ {0}
ASSUME BoundAssumption == MaxEdits \in Nat /\ MaxBreaks \in Nat

Syncs == Server \cup {Poll}
Tunnel == [tid : Tid, sid : Server, pp : BOOLEAN]
Gone == [tid |-> None, sid |-> None, pp |-> FALSE]
Job == [row : Row, sid : Server \cup {None}, pp : BOOLEAN, old : Server \cup {None}]

VARIABLES
    rows,       \* the table: the columns that matter, or Gone
    task,       \* run_server_task: where it stands, and to_remove
    link,       \* servers: no entry, a connection that is up, or a dead one
    open,       \* the tunnels open in the server's session, [tid, row]
    held,       \* rows whose port an earlier tunnel of the server still holds
    refused,    \* CloseTunnel frames on their way to the client
    tun,        \* ClientState.tunnels
    addrs,      \* ClientState.tunnel_local_addrs
    sync,       \* the runs of sync_tunnels, and the report before the poll's
    kept,       \* a handler of a stream keeps the state for good
    edits, breaks

table == <<rows, edits>>
remote == <<open, held, refused>>
local == <<tun, addrs, kept>>
vars == <<table, task, link, remote, local, sync, breaks>>

Idle == [pc |-> "idle", db |-> {}, todo |-> {}, next |-> {}, cur |-> Gone, tid |-> None,
         close |-> None]
Init ==
    /\ rows \in [Row -> Start]
    /\ task = [s \in Server |-> [pc |-> "none", stale |-> {}]]
    /\ link = [s \in Server |-> "none"]
    /\ open = [s \in Server |-> {}]
    /\ held = [s \in Server |-> {}]
    /\ refused = [s \in Server |-> {}]
    /\ tun = [r \in Row |-> Gone]
    /\ addrs = {}
    /\ sync = [p \in Syncs |-> Idle]
    /\ kept = FALSE
    /\ edits = 0 /\ breaks = 0

-----------------------------------------------------------------------------
(* The manager's answers.                                                   *)

Present == {r \in Row : rows[r] # Gone}

(* get_servers_for_client: the servers of all rows, the offline ones too;   *)
(* only a client without any row gets the fallback.                         *)
Listed ==
    IF Present = {} THEN {First} ELSE {rows[r].sid : r \in Present} \ {None}

(* Mutant: WHERE online = TRUE is missing. *)
TunnelListAll == {[row |-> r, sid |-> rows[r].sid, pp |-> rows[r].pp] : r \in Present}
(* get_tunnels_for_client. *)
TunnelList ==
    {[row |-> r, sid |-> rows[r].sid, pp |-> rows[r].pp] : r \in {x \in Present : rows[x].online}}

(* The web API and the management cycle change a row. *)
Edit(r) ==
    /\ edits < MaxEdits
    /\ \E c \in Place \cup {Gone} : c # rows[r] /\ rows' = [rows EXCEPT ![r] = c]
    /\ edits' = edits + 1
    /\ UNCHANGED <<task, link, remote, local, sync, breaks>>

-----------------------------------------------------------------------------
(* Frames, and what a tunnel server does with them.                         *)

OpenRows(s) == {o.row : o \in open[s]}

(* OpenTunnel is refused with CloseTunnel while anything holds the port. *)
SendOpen(s, t, r) ==
    LET busy == r \in OpenRows(s) \cup held[s]
    IN /\ open' = IF link[s] # "up" \/ busy THEN open
                  ELSE [open EXCEPT ![s] = @ \cup {[tid |-> t, row |-> r]}]
       /\ refused' = IF link[s] = "up" /\ busy
                     THEN [refused EXCEPT ![s] = @ \cup {t}] ELSE refused
       /\ UNCHANGED held

(* CloseTunnel: the listener gives its port back a little later. *)
SendClose(s, t) ==
    LET closed == IF s \in Server /\ link[s] = "up" THEN {o \in open[s] : o.tid = t} ELSE {}
    IN /\ open' = [x \in Server |-> IF x = s THEN open[x] \ closed ELSE open[x]]
       /\ held' = [x \in Server |-> IF x = s THEN held[x] \cup {o.row : o \in closed} ELSE held[x]]
       /\ UNCHANGED refused

Release(s, r) ==
    /\ r \in held[s]
    /\ held' = [held EXCEPT ![s] = @ \ {r}]
    /\ UNCHANGED <<table, task, link, open, refused, local, sync, breaks>>

(* The session at the server ends, with all its tunnels. *)
EndSession(s) ==
    /\ open' = [open EXCEPT ![s] = {}]
    /\ held' = [held EXCEPT ![s] = @ \cup OpenRows(s)]

Break(s) ==
    /\ link[s] = "up" /\ breaks < MaxBreaks
    /\ link' = [link EXCEPT ![s] = "dead"]
    /\ breaks' = breaks + 1
    /\ EndSession(s)
    /\ UNCHANGED <<table, task, refused, local, sync>>

-----------------------------------------------------------------------------
(* The locks.                                                               *)

At(s, pc) == task[s].pc = pc
Pc(p, pc) == sync[p].pc = pc

StateHeld ==
    \/ kept \/ \E p \in Syncs : Pc(p, "drop")
    \/ \E s \in Server : At(s, "drop") \/ At(s, "next")
StatsHeld == Pc(Poll, "report")

(* A data handler, a StreamClose or the end of a local connection waits for *)
(* stats.tunnels or servers with the state in hand (ClientLocks): one that  *)
(* gives the state back changes nothing here, one that never does stops     *)
(* everybody else.                                                          *)
StreamHandlerKeeps ==
    /\ ~StateHeld
    /\ kept' = TRUE
    /\ UNCHANGED <<table, task, link, remote, tun, addrs, sync, breaks>>

(* report_status_to_manager, before each sync of the poll loop. *)
ReportStatus ==
    /\ Pc(Poll, "idle")
    /\ sync' = [sync EXCEPT ![Poll].pc = "report"]
    /\ UNCHANGED <<table, task, link, remote, local, breaks>>
StatusReported ==
    /\ Pc(Poll, "report") /\ ~StateHeld
    /\ sync' = [sync EXCEPT ![Poll].pc = "reported"]
    /\ UNCHANGED <<table, task, link, remote, local, breaks>>

-----------------------------------------------------------------------------
(* The connection manager and run_server_task.                              *)

Goto(s, pc) == task' = [task EXCEPT ![s] = [pc |-> pc, stale |-> {}]]

NeedsSpawn(s) == task[s].pc \in {"none", "finished"}

(* Spawn a task for every listed server that has none, abort the others:    *)
(* an aborted task leaves everything as it is, but gives back its locks.    *)
ManagerPoll ==
    /\ task' = [s \in Server |->
                  IF s \notin Listed THEN [pc |-> "none", stale |-> {}]
                  ELSE IF NeedsSpawn(s) THEN [pc |-> "query", stale |-> {}]
                  ELSE task[s]]
    /\ task' # task
    /\ sync' = [p \in Syncs |-> IF p \in Server \ Listed THEN Idle ELSE sync[p]]
    /\ UNCHANGED <<table, link, remote, local, breaks>>

Query(s) ==
    /\ At(s, "query")
    /\ Goto(s, IF s \in Listed THEN "connect" ELSE "finished")
    /\ UNCHANGED <<table, link, remote, local, sync, breaks>>

(* Connected, authenticated, and entered in servers: an entry an aborted    *)
(* task left behind is dropped, which ends its session.                     *)
Connect(s) ==
    /\ At(s, "connect")
    /\ link' = [link EXCEPT ![s] = "up"]
    /\ EndSession(s)
    /\ refused' = [refused EXCEPT ![s] = {}]
    /\ Goto(s, "sync")
    /\ UNCHANGED <<table, local, sync, breaks>>

ConnectFails(s) ==
    /\ At(s, "connect") /\ breaks < MaxBreaks
    /\ breaks' = breaks + 1
    /\ Goto(s, "query")
    /\ UNCHANGED <<table, link, remote, local, sync>>

(* A refusal: find the row by the tunnel id and forget it. *)
HandleCloseTunnel(s, t) ==
    /\ At(s, "frames") /\ t \in refused[s] /\ ~StateHeld
    /\ refused' = [refused EXCEPT ![s] = @ \ {t}]
    /\ tun' = [r \in Row |-> IF tun[r].tid = t THEN Gone ELSE tun[r]]
    /\ addrs' = addrs \ {t}
    /\ UNCHANGED <<table, task, link, open, held, sync, kept, breaks>>

(* Mutant: without the idle timeout a silent dead connection is kept. *)
LostLoud(s) == link[s] = "dead" /\ refused[s] # {}
(* A read fails, or nothing arrives for SERVER_IDLE_TIMEOUT_SECS. *)
Lost(s) == link[s] = "dead"

ReadFails(s) ==
    /\ At(s, "frames") /\ Lost(s)
    /\ link' = [link EXCEPT ![s] = "none"]
    /\ refused' = [refused EXCEPT ![s] = {}]
    /\ Goto(s, "clean")
    /\ UNCHANGED <<table, open, held, local, sync, breaks>>

CleanRead(s) ==
    /\ At(s, "clean") /\ ~StateHeld
    /\ LET stale == {r \in Row : tun[r].sid = s}
       IN task' = [task EXCEPT ![s] = IF stale = {} THEN [pc |-> "query", stale |-> {}]
                                      ELSE [pc |-> "forget", stale |-> stale]]
    /\ UNCHANGED <<table, link, remote, local, sync, breaks>>

(* What is recorded for a row by now is removed, wherever it is open; then  *)
(* its counters, and the next row, with the state in hand throughout.       *)
CleanForget(s, r) ==
    /\ r \in task[s].stale
    /\ At(s, "next") \/ (At(s, "forget") /\ ~StateHeld)
    /\ tun' = [tun EXCEPT ![r] = Gone]
    /\ addrs' = addrs \ {tun[r].tid}
    /\ task' = [task EXCEPT ![s] = [pc |-> "drop", stale |-> @.stale \ {r}]]
    /\ UNCHANGED <<table, link, remote, sync, kept, breaks>>
CleanStats(s) ==
    /\ At(s, "drop") /\ ~StatsHeld
    /\ task' = [task EXCEPT ![s].pc = IF task[s].stale = {} THEN "query" ELSE "next"]
    /\ UNCHANGED <<table, link, remote, local, sync, breaks>>

-----------------------------------------------------------------------------
(* sync_tunnels.                                                            *)

(* The three loops: the removals, the updates, the additions. *)
Settled(q) ==
    LET updates == {j \in q.next : j.old # None}
    IN IF q.todo # {} THEN q
       ELSE IF q.pc = "remove" /\ updates # {}
       THEN [q EXCEPT !.pc = "update", !.todo = updates, !.next = @ \ updates]
       ELSE IF q.next # {} THEN [q EXCEPT !.pc = "add", !.todo = q.next, !.next = {}]
       ELSE Idle

Proceed(p, q) ==
    /\ sync' = [sync EXCEPT ![p] = Settled(q)]
    /\ IF p \in Server /\ Settled(q) = Idle THEN Goto(p, "frames") ELSE UNCHANGED task

Ask(p) ==
    /\ IF p = Poll THEN Pc(p, "reported") ELSE Pc(p, "idle") /\ At(p, "sync")
    /\ sync' = [sync EXCEPT ![p] = [Idle EXCEPT !.pc = "asked", !.db = TunnelList]]
    /\ UNCHANGED <<table, task, link, remote, local, breaks>>

(* The first sync of a connection fails: its frame loop starts all the same. *)
AskFails(s) ==
    /\ At(s, "sync") /\ Pc(s, "idle")
    /\ Goto(s, "frames")
    /\ UNCHANGED <<table, link, remote, local, sync, breaks>>

(* Mutant: only the PROXY protocol setting is compared. *)
ChangedPp(d) == d.pp # tun[d.row].pp
Changed(d) == (d.sid # None /\ d.sid # tun[d.row].sid) \/ d.pp # tun[d.row].pp

(* to_add, to_remove, to_update; the update keeps the server of this moment. *)
Diff(p) ==
    LET db == sync[p].db
        known == {d \in db : tun[d.row] # Gone}
        update == {[row |-> d.row, sid |-> IF d.sid = None THEN tun[d.row].sid ELSE d.sid,
                    pp |-> d.pp, old |-> tun[d.row].sid] : d \in {k \in known : Changed(k)}}
        add == {[row |-> d.row, sid |-> d.sid, pp |-> d.pp, old |-> None] : d \in db \ known}
        remove == {[row |-> r, sid |-> None, pp |-> FALSE, old |-> tun[r].sid] :
                      r \in {x \in Row : tun[x] # Gone} \ {d.row : d \in db}}
    IN /\ Pc(p, "asked") /\ ~StateHeld
       /\ Proceed(p, [Idle EXCEPT !.pc = "remove", !.todo = remove, !.next = update \cup add])
       /\ UNCHANGED <<table, link, remote, local, breaks>>

(* The tunnel to close is the one recorded now; a removal goes to the       *)
(* server recorded with it, an update to the server recorded at the Diff.   *)
(* A row somebody else removed meanwhile is passed.                         *)
Close(p, j) ==
    /\ sync[p].pc \in {"remove", "update"} /\ j \in sync[p].todo /\ ~StateHeld
    /\ IF tun[j.row] = Gone
       THEN Proceed(p, [sync[p] EXCEPT !.todo = @ \ {j}])
       ELSE /\ sync' = [sync EXCEPT ![p].pc = "close", ![p].todo = @ \ {j},
                                    ![p].close = tun[j.row].tid,
                                    ![p].cur = IF j.sid # None THEN j
                                               ELSE [j EXCEPT !.old = tun[j.row].sid]]
            /\ UNCHANGED task
    /\ UNCHANGED <<table, link, remote, local, breaks>>
SendCloseTunnel(p) ==
    /\ Pc(p, "close")
    /\ SendClose(sync[p].cur.old, sync[p].close)
    /\ sync' = [sync EXCEPT ![p].pc = "forget", ![p].close = None]
    /\ UNCHANGED <<table, task, link, local, breaks>>

(* What is recorded by then is taken out.  An update gives the state back,  *)
(* a removal keeps it for the counters and the report to the manager.       *)
Forget(p) ==
    /\ Pc(p, "forget") /\ ~StateHeld
    /\ LET r == sync[p].cur.row
       IN /\ tun' = [tun EXCEPT ![r] = Gone]
          /\ addrs' = addrs \ {tun[r].tid}
    /\ sync' = [sync EXCEPT ![p].pc = IF sync[p].cur.sid = None THEN "drop" ELSE "open"]
    /\ UNCHANGED <<table, task, link, remote, kept, breaks>>
RemoveStats(p) ==
    /\ Pc(p, "drop") /\ ~StatsHeld
    /\ Proceed(p, [sync[p] EXCEPT !.pc = "remove", !.cur = Gone])
    /\ UNCHANGED <<table, link, remote, local, breaks>>

Taken ==
    (UNION {{o.tid : o \in open[s]} \cup refused[s] : s \in Server})
    \cup addrs \cup {tun[r].tid : r \in Row}
    \cup (UNION {{sync[p].tid, sync[p].close} : p \in Syncs})
(* Mutant: TUNNEL_ID_COUNTER starts at 0, the id that stands for no tunnel. *)
FreshZero == None
Fresh == CHOOSE t \in Tid \ Taken : TRUE

(* A row to add goes to its server; without one, to the server with the     *)
(* fewest tunnels when the updates were done, which may be any.             *)
Choose(p, j) ==
    /\ Pc(p, "add") /\ j \in sync[p].todo
    /\ \E s \in Server :
          /\ j.sid # None => s = j.sid
          /\ sync' = [sync EXCEPT ![p].todo = @ \ {j}, ![p].pc = "open",
                                  ![p].cur = [j EXCEPT !.sid = s]]
    /\ UNCHANGED <<table, task, link, remote, local, breaks>>

Back(p) == [sync[p] EXCEPT !.pc = IF sync[p].cur.old = None THEN "add" ELSE "update",
                           !.cur = Gone, !.tid = None]

(* OpenTunnel to a connected server; a row to add is dropped when the       *)
(* writer has ended, an update does not look.                               *)
Open(p) ==
    LET j == sync[p].cur
    IN /\ Pc(p, "open") /\ link[j.sid] # "none" /\ Tid \ Taken # {}
       /\ SendOpen(j.sid, Fresh, j.row)
       /\ sync' = [sync EXCEPT ![p].pc = "insert", ![p].tid = Fresh]
       /\ UNCHANGED <<table, task, link, local, breaks>>

NotConnected(p) ==
    LET j == sync[p].cur
    IN /\ Pc(p, "open")
       /\ link[j.sid] = "none" \/ (link[j.sid] = "dead" /\ j.old = None)
       /\ Proceed(p, Back(p))
       /\ UNCHANGED <<table, link, remote, local, breaks>>

(* Mutant: an update does not enter the address of its new tunnel. *)
AddressWithout(p) == IF sync[p].cur.old = None THEN {sync[p].tid} ELSE {}
Address(p) == {sync[p].tid}

Insert(p) ==
    /\ Pc(p, "insert") /\ ~StateHeld
    /\ tun' = [tun EXCEPT ![sync[p].cur.row] =
                  [tid |-> sync[p].tid, sid |-> sync[p].cur.sid, pp |-> sync[p].cur.pp]]
    /\ addrs' = addrs \cup Address(p)
    /\ Proceed(p, Back(p))
    /\ UNCHANGED <<table, link, remote, kept, breaks>>

-----------------------------------------------------------------------------
ServerTask(s) ==
    \/ Query(s) \/ Connect(s) \/ ReadFails(s) \/ CleanRead(s)
    \/ CleanStats(s) \/ \E r \in Row : CleanForget(s, r)
SyncTunnels(p) ==
    \/ p = Poll /\ (ReportStatus \/ StatusReported)
    \/ Ask(p) \/ Diff(p) \/ SendCloseTunnel(p) \/ Forget(p) \/ RemoveStats(p)
    \/ Open(p) \/ NotConnected(p) \/ Insert(p)
    \/ \E j \in sync[p].todo : Close(p, j) \/ Choose(p, j)

Next ==
    \/ ManagerPoll \/ StreamHandlerKeeps
    \/ \E r \in Row : Edit(r) \/ \E s \in Server : Release(s, r)
    \/ \E s \in Server :
          \/ ServerTask(s) \/ Break(s) \/ ConnectFails(s) \/ AskFails(s)
          \/ \E t \in Tid : HandleCloseTunnel(s, t)
    \/ \E p \in Syncs : SyncTunnels(p)

Spec == Init /\ [][Next]_vars

(* Every task of the runtime gets its turn, a server that can be reached is *)
(* reached, a frame that arrived is read, and a closed listener lets go of  *)
(* its port.                                                                *)
Fairness ==
    /\ WF_vars(ManagerPoll)
    /\ \A s \in Server :
          /\ WF_vars(ServerTask(s))
          /\ \A t \in Tid : WF_vars(HandleCloseTunnel(s, t))
          /\ \A r \in Row : WF_vars(Release(s, r))
    /\ \A p \in Syncs : WF_vars(SyncTunnels(p))
FairSpec == Spec /\ Fairness

-----------------------------------------------------------------------------
(* A run of sync_tunnels: db_tunnels, the loop under way and what is left   *)
(* for it and the later ones.                                               *)
Run == [pc : {"idle", "report", "reported", "asked", "remove", "update", "close", "forget",
              "drop", "add", "open", "insert"},
        db : SUBSET [row : Row, sid : Server \cup {None}, pp : BOOLEAN],
        todo : SUBSET Job, next : SUBSET Job, cur : Job \cup {Gone},
        tid : Tid \cup {None}, close : Tid \cup {None}]

(* Every variable stays in its type (the state of client/src/main.rs and    *)
(* what sync_tunnels keeps between two awaits).                             *)
TypeOK ==
    /\ rows \in [Row -> Place \cup {Gone}]
    /\ task \in [Server -> [pc : {"none", "finished", "query", "connect", "sync", "frames",
                                  "clean", "forget", "drop", "next"}, stale : SUBSET Row]]
    /\ link \in [Server -> {"none", "up", "dead"}]
    /\ open \in [Server -> SUBSET [tid : Tid, row : Row]]
    /\ held \in [Server -> SUBSET Row]
    /\ refused \in [Server -> SUBSET Tid]
    /\ tun \in [Row -> Tunnel \cup {Gone}]
    /\ addrs \subseteq Tid
    /\ sync \in [Syncs -> Run] /\ kept \in BOOLEAN
    /\ edits \in 0..MaxEdits /\ breaks \in 0..MaxBreaks

(* Every recorded tunnel has its local address, whoever removes and inserts *)
(* at the same time: NewConnection never has to guess for it (1018-1020).   *)
AddressKnown == \A r \in Row : tun[r] # Gone => tun[r].tid \in addrs

(* The client hangs: the report waits for the state, and whoever has it     *)
(* waits for stats.tunnels (663-664 against 743-749 and 425-454); or a      *)
(* handler of a stream keeps it.  client_locks shows that this happens.     *)
Hangs == kept \/ (StatsHeld /\ StateHeld)

(* A row that is stopped or deleted for good is forgotten for good, though  *)
(* a sync that read it before may still record it (729-762, 861), unless    *)
(* the client hangs.                                                        *)
Wanted(r) == rows[r] # Gone /\ rows[r].online
RemovedRowForgotten ==
    \A r \in Row : <>[](~Wanted(r)) => <>[](tun[r] = Gone) \/ <>[]Hangs

(* A server that stays listed is connected, and again when the connection   *)
(* breaks, whatever the syncs and the manager do meanwhile (298-311,        *)
(* 550-584), unless the client hangs: the clean-up comes before the next    *)
(* attempt to connect.                                                      *)
ServerComesBack ==
    \A s \in Server : <>[](s \in Listed) => <>[](link[s] = "up") \/ <>[]Hangs

(* A row that stays on a server is recorded there again and again: a move   *)
(* is carried out and a refusal retried (706-721, 826-840, 1129-1137),      *)
(* unless the client hangs.                                                 *)
RowFollowed ==
    \A r \in Row : \A s \in Server :
        <>[](Wanted(r) /\ rows[r].sid = s) => []<>(tun[r].sid = s) \/ <>[]Hangs

(* When no sync and no clean-up is under way and no refusal is on its way,  *)
(* a connected server has open just what the client recorded for it.        *)
Quiet ==
    /\ \A p \in Syncs : sync[p].pc \in {"idle", "report", "reported"}
    /\ \A s \in Server :
          task[s].pc \notin {"sync", "clean", "forget", "drop", "next"} /\ refused[s] = {}
OpenAsRecorded ==
    Quiet => \A s \in Server : link[s] = "up" =>
        {o.tid : o \in open[s]} = {tun[r].tid : r \in {x \in Row : tun[x].sid = s}}
=============================================================================
