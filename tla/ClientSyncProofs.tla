--------------------------- MODULE ClientSyncProofs ---------------------------
(****************************************************************************)
(* Proofs about ClientSync: it is well typed, and every recorded tunnel has *)
(* its local address, for any number of rows, servers, edits and broken     *)
(* connections.                                                             *)
(****************************************************************************)
EXTENDS ClientSync, TLAPS

UpdateJob == {j \in Job : j.old # None /\ j.sid \in Server}
AddJob == {j \in Job : j.old = None}

RemoveJob == {j \in Job : j.sid = None}

(* The loop a run is in: its "close" and "forget" belong to the removals or *)
(* to the updates.                                                          *)
Removing(q) == q.pc \in {"remove", "drop"} \/ (q.pc \in {"close", "forget"} /\ q.cur.sid = None)
Updating(q) == q.pc = "update" \/ (q.pc \in {"close", "forget"} /\ q.cur.sid # None)

(* What a run has in hand fits the loop it is in.                           *)
InLoop(q) ==
    /\ IF q.pc \in {"idle", "report", "reported", "asked"} \/ Removing(q)
       THEN q.next \subseteq UpdateJob \cup AddJob ELSE q.next \subseteq AddJob
    /\ Removing(q) => q.todo \subseteq RemoveJob
    /\ Updating(q) => q.todo \subseteq UpdateJob
    /\ q.pc \in {"close", "forget"} =>
          q.cur \in Job /\ (q.cur.sid # None => q.cur \in UpdateJob)
    /\ q.pc = "add" => q.todo \subseteq AddJob
    /\ q.pc \in {"open", "insert"} =>
          /\ q.cur \in Job /\ q.cur.sid \in Server
          /\ q.todo \subseteq IF q.cur.old = None THEN AddJob ELSE UpdateJob
    /\ q.pc = "insert" => q.tid \in Tid
JobsFit == \A p \in Syncs : InLoop(sync[p])

(* No two rows, no two runs, and no row and a run have a tunnel id in       *)
(* common: what one of them forgets, another does not need.                 *)
TidsDiffer ==
    /\ \A r, x \in Row : r # x /\ tun[r] # Gone => tun[r].tid # tun[x].tid
    /\ \A p \in Syncs, r \in Row : sync[p].tid # None => sync[p].tid # tun[r].tid
    /\ \A p, q \in Syncs : p # q /\ sync[p].tid # None => sync[p].tid # sync[q].tid

IInv == TypeOK /\ JobsFit /\ TidsDiffer /\ AddressKnown

-----------------------------------------------------------------------------
(* Lemmas about the parts of a step.                                        *)

LEMMA TidNotNone == None \notin Tid
BY TidAssumption DEF None

LEMMA IdleRun == Idle \in Run /\ InLoop(Idle)
BY DEF Idle, Run, InLoop, Removing, Updating

(* The next of the three loops has the jobs it is for.                      *)
LEMMA SettledFits ==
    ASSUME NEW q \in Run, InLoop(q), q.pc \in {"remove", "update", "add"}
    PROVE  /\ Settled(q) \in Run /\ InLoop(Settled(q))
           /\ Settled(q).tid \in {q.tid, None}
<1> DEFINE u == {j \in q.next : j.old # None}
           up == [q EXCEPT !.pc = "update", !.todo = u, !.next = @ \ u]
           add == [q EXCEPT !.pc = "add", !.todo = q.next, !.next = {}]
<1>1. CASE q.todo # {}
  BY <1>1 DEF Settled
<1>2. CASE q.todo = {} /\ q.pc = "remove" /\ u # {}
  <2>1. Settled(q) = up
    BY <1>2 DEF Settled
  <2>2. u \subseteq UpdateJob /\ q.next \ u \subseteq AddJob
    BY <1>2 DEF InLoop, Removing, UpdateJob, AddJob, Run
  <2>3. up \in Run /\ up.pc = "update" /\ up.todo = u /\ up.next = q.next \ u /\ up.tid = q.tid
    BY DEF Run
  <2> HIDE DEF u, up
  <2> QED BY <2>1, <2>2, <2>3 DEF InLoop, Removing, Updating
<1>3. CASE q.todo = {} /\ ~(q.pc = "remove" /\ u # {}) /\ q.next # {}
  <2>1. Settled(q) = add
    BY <1>3 DEF Settled
  <2>2. q.next \subseteq AddJob
    BY <1>3 DEF InLoop, Removing, UpdateJob, AddJob, Run
  <2>3. add \in Run /\ add.pc = "add" /\ add.todo = q.next /\ add.next = {} /\ add.tid = q.tid
    BY DEF Run
  <2> HIDE DEF u, add
  <2> QED BY <2>1, <2>2, <2>3 DEF InLoop, Removing, Updating
<1>4. CASE q.todo = {} /\ ~(q.pc = "remove" /\ u # {}) /\ q.next = {}
  <2>1. Settled(q) = Idle
    BY <1>4 DEF Settled
  <2> QED BY <2>1, IdleRun DEF Idle
<1> QED BY <1>1, <1>2, <1>3, <1>4

(* A run takes one step.                                                    *)
LEMMA OneRun ==
    ASSUME IInv, NEW p \in Syncs, NEW v \in Run, InLoop(v), sync' = [sync EXCEPT ![p] = v]
    PROVE  sync' \in [Syncs -> Run] /\ JobsFit'
<1>1. sync' \in [Syncs -> Run]
  BY DEF IInv, TypeOK
<1>2. \A q \in Syncs : sync'[q] = IF q = p THEN v ELSE sync[q]
  BY DEF IInv, TypeOK
<1> QED BY <1>1, <1>2 DEF IInv, JobsFit, InLoop, Removing, Updating

(* Forgetting rows and ids keeps those that are left apart.                 *)
LEMMA FewerTids ==
    ASSUME IInv, \A r \in Row : tun'[r] \in {tun[r], Gone},
           \A p \in Syncs : sync'[p].tid \in {sync[p].tid, None}
    PROVE  TidsDiffer'
<1>1. Gone.tid = None
  BY DEF Gone
<1>2. \A r \in Row : tun[r] # Gone => tun[r].tid # None
  BY TidNotNone DEF IInv, TypeOK, Tunnel
<1> QED BY <1>1, <1>2 DEF IInv, TidsDiffer

(* Steps that touch neither the client's tunnels nor the runs.              *)
LEMMA Aside ==
    ASSUME IInv, UNCHANGED <<tun, addrs, kept, sync>>
    PROVE  /\ tun' \in [Row -> Tunnel \cup {Gone}] /\ addrs' \subseteq Tid
           /\ sync' \in [Syncs -> Run] /\ JobsFit' /\ TidsDiffer' /\ AddressKnown'
BY DEF IInv, TypeOK, JobsFit, InLoop, Removing, Updating, TidsDiffer, AddressKnown

(* Forgetting rows and ids leaves an address with every row that stays.     *)
LEMMA FewerAddresses ==
    ASSUME IInv, NEW G \in SUBSET Row,
           tun' = [r \in Row |-> IF r \in G THEN Gone ELSE tun[r]],
           addrs' = addrs \ {tun[r].tid : r \in G}
    PROVE  /\ tun' \in [Row -> Tunnel \cup {Gone}] /\ addrs' \subseteq Tid
           /\ \A r \in Row : tun'[r] \in {tun[r], Gone}
           /\ AddressKnown'
<1>1. tun' \in [Row -> Tunnel \cup {Gone}] /\ addrs' \subseteq Tid
  BY DEF IInv, TypeOK
<1>2. \A r \in Row : tun'[r] = IF r \in G THEN Gone ELSE tun[r]
  OBVIOUS
<1>3. AddressKnown'
  <2> SUFFICES ASSUME NEW x \in Row, tun'[x] # Gone
               PROVE  tun'[x].tid \in addrs'
    BY DEF AddressKnown
  <2>1. x \notin G /\ tun'[x] = tun[x] /\ tun[x] # Gone
    BY <1>2
  <2>2. tun[x].tid \in addrs
    BY <2>1 DEF IInv, AddressKnown
  <2>3. \A r \in G : tun[r].tid # tun[x].tid
    BY <2>1 DEF IInv, TidsDiffer
  <2> QED BY <2>1, <2>2, <2>3
<1> QED BY <1>1, <1>2, <1>3

Stage == {"none", "finished", "query", "connect", "sync", "frames", "clean", "forget", "drop",
          "next"}
TaskOK == task \in [Server -> [pc : Stage, stale : SUBSET Row]]

LEMMA GotoTask ==
    ASSUME IInv, NEW s \in Server, NEW c \in Stage, Goto(s, c)
    PROVE  TaskOK'
<1>1. [pc |-> c, stale |-> {}] \in [pc : Stage, stale : SUBSET Row]
  OBVIOUS
<1>2. TaskOK
  BY DEF IInv, TypeOK, TaskOK, Stage
<1> QED BY <1>1, <1>2 DEF Goto, TaskOK

(* A run goes on in its loop or a later one, or ends.                       *)
LEMMA Proceeded ==
    ASSUME IInv, NEW p \in Syncs, NEW q \in Run, InLoop(q), q.pc \in {"remove", "update", "add"},
           q.tid \in {sync[p].tid, None}, Proceed(p, q)
    PROVE  /\ sync' \in [Syncs -> Run] /\ JobsFit' /\ TaskOK'
           /\ \A x \in Syncs : sync'[x].tid \in {sync[x].tid, None}
<1>1. Settled(q) \in Run /\ InLoop(Settled(q)) /\ Settled(q).tid \in {q.tid, None}
  BY SettledFits
<1>2. sync' = [sync EXCEPT ![p] = Settled(q)]
  BY DEF Proceed
<1>3. sync' \in [Syncs -> Run] /\ JobsFit'
  BY <1>1, <1>2, OneRun
<1>4. \A x \in Syncs : sync'[x] = IF x = p THEN Settled(q) ELSE sync[x]
  BY <1>2 DEF IInv, TypeOK
<1>5. \A x \in Syncs : sync'[x].tid \in {sync[x].tid, None}
  BY <1>1, <1>4
<1>6. TaskOK'
  <2>1. CASE p \in Server /\ Settled(q) = Idle
    <3>1. Goto(p, "frames")
      BY <2>1 DEF Proceed
    <3> QED BY <2>1, <3>1, GotoTask DEF Stage
  <2>2. CASE ~(p \in Server /\ Settled(q) = Idle)
    BY <2>2 DEF Proceed, IInv, TypeOK, TaskOK, Stage
  <2> QED BY <2>1, <2>2
<1> QED BY <1>3, <1>5, <1>6

RemoteOK ==
    /\ open \in [Server -> SUBSET [tid : Tid, row : Row]]
    /\ held \in [Server -> SUBSET Row]
    /\ refused \in [Server -> SUBSET Tid]

LEMMA RowsOpen ==
    ASSUME IInv, NEW s \in Server
    PROVE  OpenRows(s) \subseteq Row
BY DEF IInv, TypeOK, OpenRows

LEMMA SentOpen ==
    ASSUME IInv, NEW s \in Server, NEW t \in Tid, NEW r \in Row, SendOpen(s, t, r)
    PROVE  RemoteOK'
<1>1. open' \in [Server -> SUBSET [tid : Tid, row : Row]]
  BY DEF IInv, TypeOK, SendOpen
<1>2. refused' \in [Server -> SUBSET Tid]
  BY DEF IInv, TypeOK, SendOpen
<1>3. held' \in [Server -> SUBSET Row]
  BY DEF IInv, TypeOK, SendOpen
<1> QED BY <1>1, <1>2, <1>3 DEF RemoteOK

LEMMA SentClose ==
    ASSUME IInv, NEW s, NEW t, SendClose(s, t)
    PROVE  RemoteOK'
<1> DEFINE closed == IF s \in Server /\ link[s] = "up" THEN {o \in open[s] : o.tid = t} ELSE {}
<1>1. closed \subseteq [tid : Tid, row : Row]
  BY DEF IInv, TypeOK
<1>2. {o.row : o \in closed} \subseteq Row
  BY <1>1
<1>3. /\ open' = [x \in Server |-> IF x = s THEN open[x] \ closed ELSE open[x]]
      /\ held' = [x \in Server |-> IF x = s THEN held[x] \cup {o.row : o \in closed} ELSE held[x]]
      /\ refused' = refused
  BY DEF SendClose
<1> HIDE DEF closed
<1>4. open' \in [Server -> SUBSET [tid : Tid, row : Row]]
  BY <1>3 DEF IInv, TypeOK
<1>5. held' \in [Server -> SUBSET Row]
  BY <1>2, <1>3 DEF IInv, TypeOK
<1>6. refused' \in [Server -> SUBSET Tid]
  BY <1>3 DEF IInv, TypeOK
<1> QED BY <1>4, <1>5, <1>6 DEF RemoteOK

LEMMA EndedSession ==
    ASSUME IInv, NEW s \in Server, EndSession(s)
    PROVE  /\ open' \in [Server -> SUBSET [tid : Tid, row : Row]]
           /\ held' \in [Server -> SUBSET Row]
BY RowsOpen DEF IInv, TypeOK, EndSession

-----------------------------------------------------------------------------
(* Every action keeps the invariant: the steps beside sync_tunnels.         *)

LEMMA EditKeeps ==
    ASSUME IInv, NEW r \in Row, Edit(r)
    PROVE  IInv'
<1>1. rows' \in [Row -> Place \cup {Gone}] /\ edits' \in 0..MaxEdits
  BY BoundAssumption DEF IInv, TypeOK, Edit
<1>2. UNCHANGED <<tun, addrs, kept, sync>>
  BY DEF Edit, local
<1>3. TypeOK'
  BY <1>1, <1>2, Aside DEF IInv, TypeOK, Edit, remote
<1> QED BY <1>2, <1>3, Aside DEF IInv

LEMMA ReleaseKeeps ==
    ASSUME IInv, NEW s \in Server, NEW r \in Row, Release(s, r)
    PROVE  IInv'
<1>1. held' \in [Server -> SUBSET Row]
  BY DEF IInv, TypeOK, Release
<1>2. UNCHANGED <<tun, addrs, kept, sync>>
  BY DEF Release, local
<1>3. TypeOK'
  BY <1>1, <1>2, Aside DEF IInv, TypeOK, Release, table
<1> QED BY <1>2, <1>3, Aside DEF IInv

LEMMA BreakKeeps ==
    ASSUME IInv, NEW s \in Server, Break(s)
    PROVE  IInv'
<1>1. link' \in [Server -> {"none", "up", "dead"}] /\ breaks' \in 0..MaxBreaks
  BY BoundAssumption DEF IInv, TypeOK, Break
<1>2. /\ open' \in [Server -> SUBSET [tid : Tid, row : Row]]
      /\ held' \in [Server -> SUBSET Row]
  BY EndedSession DEF Break
<1>3. UNCHANGED <<tun, addrs, kept, sync>>
  BY DEF Break, local
<1>4. TypeOK'
  BY <1>1, <1>2, <1>3, Aside DEF IInv, TypeOK, Break, table
<1> QED BY <1>3, <1>4, Aside DEF IInv

LEMMA StreamHandlerKeepsKeeps ==
    ASSUME IInv, StreamHandlerKeeps
    PROVE  IInv'
<1>1. UNCHANGED <<tun, addrs, sync>> /\ kept' = TRUE
  BY DEF StreamHandlerKeeps
<1>2. JobsFit' /\ TidsDiffer' /\ AddressKnown'
  BY <1>1 DEF IInv, JobsFit, InLoop, Removing, Updating, TidsDiffer, AddressKnown
<1>3. TypeOK'
  BY <1>1 DEF IInv, TypeOK, StreamHandlerKeeps, table, remote
<1> QED BY <1>2, <1>3 DEF IInv

LEMMA ManagerPollKeeps ==
    ASSUME IInv, ManagerPoll
    PROVE  IInv'
<1>1. \A p \in Syncs : sync'[p] \in {sync[p], Idle}
  BY DEF ManagerPoll
<1>2. sync' \in [Syncs -> Run]
  BY IdleRun DEF ManagerPoll, IInv, TypeOK
<1>3. JobsFit'
  <2> SUFFICES ASSUME NEW p \in Syncs
               PROVE  InLoop(sync'[p])
    BY DEF JobsFit, InLoop, Removing, Updating
  <2> QED BY <1>1, IdleRun DEF IInv, JobsFit
<1>4. TaskOK'
  <2> SUFFICES ASSUME NEW s \in Server
               PROVE  (IF s \notin Listed THEN [pc |-> "none", stale |-> {}]
                       ELSE IF NeedsSpawn(s) THEN [pc |-> "query", stale |-> {}]
                       ELSE task[s]) \in [pc : Stage, stale : SUBSET Row]
    BY DEF TaskOK, ManagerPoll
  <2>1. task[s] \in [pc : Stage, stale : SUBSET Row]
    BY DEF IInv, TypeOK, Stage
  <2> QED BY <2>1 DEF Stage
<1>5. TidsDiffer'
  BY <1>1, FewerTids DEF ManagerPoll, Idle, local
<1>6. AddressKnown'
  BY DEF ManagerPoll, IInv, AddressKnown, local
<1>7. TypeOK'
  BY <1>2, <1>4 DEF IInv, TypeOK, TaskOK, Stage, ManagerPoll, table, remote, local
<1> QED BY <1>3, <1>5, <1>6, <1>7 DEF IInv

(* The steps of run_server_task that change no tunnel.                      *)
LEMMA ServerTaskKeeps ==
    ASSUME IInv, NEW s \in Server,
           Query(s) \/ Connect(s) \/ ReadFails(s) \/ CleanRead(s) \/ ConnectFails(s) \/ AskFails(s)
    PROVE  IInv'
<1>1. UNCHANGED <<tun, addrs, kept, sync>>
  BY DEF Query, Connect, ReadFails, CleanRead, ConnectFails, AskFails, local
<1>2. CASE Query(s)
  <2>1. TaskOK'
    BY <1>2, GotoTask DEF Query, Stage
  <2> QED BY <1>1, <1>2, <2>1, Aside DEF IInv, TypeOK, TaskOK, Stage, Query, table, remote
<1>3. CASE Connect(s)
  <2>1. TaskOK'
    BY <1>3, GotoTask DEF Connect, Stage
  <2>2. /\ open' \in [Server -> SUBSET [tid : Tid, row : Row]]
        /\ held' \in [Server -> SUBSET Row]
    BY <1>3, EndedSession DEF Connect
  <2>3. /\ link' \in [Server -> {"none", "up", "dead"}]
        /\ refused' \in [Server -> SUBSET Tid]
    BY <1>3 DEF Connect, IInv, TypeOK
  <2> QED BY <1>1, <1>3, <2>1, <2>2, <2>3, Aside DEF IInv, TypeOK, TaskOK, Stage, Connect, table
<1>4. CASE ReadFails(s)
  <2>1. TaskOK'
    BY <1>4, GotoTask DEF ReadFails, Stage
  <2>2. /\ link' \in [Server -> {"none", "up", "dead"}]
        /\ refused' \in [Server -> SUBSET Tid]
    BY <1>4 DEF ReadFails, IInv, TypeOK
  <2> QED BY <1>1, <1>4, <2>1, <2>2, Aside DEF IInv, TypeOK, TaskOK, Stage, ReadFails, table
<1>5. CASE CleanRead(s)
  <2> DEFINE stale == {r \in Row : tun[r].sid = s}
             t == IF stale = {} THEN [pc |-> "query", stale |-> {}]
                  ELSE [pc |-> "forget", stale |-> stale]
  <2>1. t \in [pc : Stage, stale : SUBSET Row]
    BY DEF Stage
  <2>2. task' = [task EXCEPT ![s] = t]
    BY <1>5 DEF CleanRead
  <2> HIDE DEF t
  <2>3. TaskOK'
    BY <2>1, <2>2 DEF IInv, TypeOK, TaskOK, Stage
  <2> QED BY <1>1, <1>5, <2>3, Aside DEF IInv, TypeOK, TaskOK, Stage, CleanRead, table, remote
<1>6. CASE ConnectFails(s)
  <2>1. TaskOK'
    BY <1>6, GotoTask DEF ConnectFails, Stage
  <2>2. breaks' \in 0..MaxBreaks
    BY <1>6, BoundAssumption DEF ConnectFails, IInv, TypeOK
  <2> QED BY <1>1, <1>6, <2>1, <2>2, Aside
          DEF IInv, TypeOK, TaskOK, Stage, ConnectFails, table, remote
<1>7. CASE AskFails(s)
  <2>1. TaskOK'
    BY <1>7, GotoTask DEF AskFails, Stage
  <2> QED BY <1>1, <1>7, <2>1, Aside DEF IInv, TypeOK, TaskOK, Stage, AskFails, table, remote
<1> QED BY <1>2, <1>3, <1>4, <1>5, <1>6, <1>7

(* A row read before is forgotten with the id it has by now.                *)
LEMMA CleanForgetKeeps ==
    ASSUME IInv, NEW s \in Server, NEW r \in Row, CleanForget(s, r)
    PROVE  IInv'
<1>1. /\ tun' = [x \in Row |-> IF x \in {r} THEN Gone ELSE tun[x]]
      /\ addrs' = addrs \ {tun[x].tid : x \in {r}}
  BY DEF CleanForget, IInv, TypeOK
<1>2. /\ tun' \in [Row -> Tunnel \cup {Gone}] /\ addrs' \subseteq Tid
      /\ \A x \in Row : tun'[x] \in {tun[x], Gone}
      /\ AddressKnown'
  BY <1>1, FewerAddresses
<1>3. sync' = sync
  BY DEF CleanForget
<1>4. TidsDiffer'
  BY <1>2, <1>3, FewerTids
<1>5. JobsFit'
  BY <1>3 DEF IInv, JobsFit, InLoop, Removing, Updating
<1>6. TaskOK'
  <2>1. TaskOK
    BY DEF IInv, TypeOK, TaskOK, Stage
  <2>2. [pc |-> "drop", stale |-> task[s].stale \ {r}] \in [pc : Stage, stale : SUBSET Row]
    BY <2>1 DEF TaskOK, Stage
  <2>3. task' = [task EXCEPT ![s] = [pc |-> "drop", stale |-> task[s].stale \ {r}]]
    BY <2>1 DEF CleanForget, TaskOK
  <2> QED BY <2>1, <2>2, <2>3 DEF TaskOK
<1>7. TypeOK'
  BY <1>2, <1>3, <1>6 DEF IInv, TypeOK, TaskOK, Stage, CleanForget, table, remote
<1> QED BY <1>2, <1>4, <1>5, <1>7 DEF IInv

LEMMA CleanStatsKeeps ==
    ASSUME IInv, NEW s \in Server, CleanStats(s)
    PROVE  IInv'
<1> DEFINE c == IF task[s].stale = {} THEN "query" ELSE "next"
           t == [task[s] EXCEPT !.pc = c]
<1>1. UNCHANGED <<tun, addrs, kept, sync>>
  BY DEF CleanStats, local
<1>2. TaskOK
  BY DEF IInv, TypeOK, TaskOK, Stage
<1>3. t \in [pc : Stage, stale : SUBSET Row]
  BY <1>2 DEF TaskOK, Stage
<1>4. task' = [task EXCEPT ![s] = t]
  BY <1>2 DEF CleanStats, TaskOK
<1> HIDE DEF t
<1>5. TaskOK'
  BY <1>2, <1>3, <1>4 DEF TaskOK
<1> QED BY <1>1, <1>5, Aside DEF IInv, TypeOK, TaskOK, Stage, CleanStats, table, remote

(* The row with the refused id is forgotten, and no other has that id.      *)
LEMMA HandleCloseTunnelKeeps ==
    ASSUME IInv, NEW s \in Server, NEW t \in Tid, HandleCloseTunnel(s, t)
    PROVE  IInv'
<1>1. tun' = [r \in Row |-> IF tun[r].tid = t THEN Gone ELSE tun[r]] /\ addrs' = addrs \ {t}
  BY DEF HandleCloseTunnel
<1>2. tun' \in [Row -> Tunnel \cup {Gone}] /\ addrs' \subseteq Tid
  BY <1>1 DEF IInv, TypeOK
<1>3. \A r \in Row : tun'[r] \in {tun[r], Gone}
  BY <1>1
<1>4. sync' = sync
  BY DEF HandleCloseTunnel
<1>5. TidsDiffer'
  BY <1>3, <1>4, FewerTids
<1>6. JobsFit'
  BY <1>4 DEF IInv, JobsFit, InLoop, Removing, Updating
<1>7. AddressKnown'
  BY <1>1 DEF IInv, AddressKnown
<1>8. refused' \in [Server -> SUBSET Tid]
  BY DEF IInv, TypeOK, HandleCloseTunnel
<1>9. TypeOK'
  BY <1>2, <1>4, <1>8 DEF IInv, TypeOK, HandleCloseTunnel, table
<1> QED BY <1>5, <1>6, <1>7, <1>9 DEF IInv

-----------------------------------------------------------------------------
(* Every action keeps the invariant: the steps of sync_tunnels.             *)

(* What such a step leaves alone, and what is left to show of it.           *)
LEMMA SyncStep ==
    ASSUME IInv, UNCHANGED <<table, link, breaks>>, TaskOK', RemoteOK',
           tun' \in [Row -> Tunnel \cup {Gone}], addrs' \subseteq Tid, kept' \in BOOLEAN,
           sync' \in [Syncs -> Run]
    PROVE  TypeOK'
BY DEF IInv, TypeOK, TaskOK, Stage, RemoteOK, table

LEMMA TaskKept == ASSUME IInv, UNCHANGED task PROVE TaskOK'
BY DEF IInv, TypeOK, TaskOK, Stage

LEMMA RemoteKept == ASSUME IInv, UNCHANGED remote PROVE RemoteOK'
BY DEF IInv, TypeOK, RemoteOK, remote

(* A step of a run that changes no tunnel and takes no new id.              *)
LEMMA RunStep ==
    ASSUME IInv, UNCHANGED <<table, link, local, breaks>>, TaskOK', RemoteOK',
           sync' \in [Syncs -> Run], JobsFit',
           \A x \in Syncs : sync'[x].tid \in {sync[x].tid, None}
    PROVE  IInv'
<1>1. TidsDiffer'
  BY FewerTids DEF local
<1>2. /\ AddressKnown' /\ kept' \in BOOLEAN
      /\ tun' \in [Row -> Tunnel \cup {Gone}] /\ addrs' \subseteq Tid
  BY DEF IInv, TypeOK, AddressKnown, local
<1>3. TypeOK'
  BY <1>2, SyncStep
<1> QED BY <1>1, <1>2, <1>3 DEF IInv

(* A run moves on with all it has in hand.                                  *)
LEMMA ReportKeeps ==
    ASSUME IInv, ReportStatus \/ StatusReported
    PROVE  IInv'
<1> DEFINE c == IF ReportStatus THEN "report" ELSE "reported"
           v == [sync[Poll] EXCEPT !.pc = c]
<1>1. Poll \in Syncs /\ sync[Poll].pc \in {"idle", "report"}
  BY DEF Syncs, ReportStatus, StatusReported, Pc
<1>2. sync[Poll] \in Run /\ InLoop(sync[Poll])
  BY <1>1 DEF IInv, TypeOK, JobsFit
<1>3. v \in Run /\ v.pc = c /\ v.next = sync[Poll].next /\ v.tid = sync[Poll].tid
  BY <1>2 DEF Run
<1>4. sync' = [sync EXCEPT ![Poll] = v] /\ c \in {"report", "reported"}
  BY <1>1 DEF ReportStatus, StatusReported, Pc, IInv, TypeOK
<1> HIDE DEF c, v
<1>5. InLoop(v)
  BY <1>1, <1>2, <1>3, <1>4 DEF InLoop, Removing, Updating
<1>6. sync' \in [Syncs -> Run] /\ JobsFit'
  BY <1>1, <1>3, <1>4, <1>5, OneRun
<1>7. \A x \in Syncs : sync'[x].tid \in {sync[x].tid, None}
  BY <1>1, <1>3, <1>4 DEF IInv, TypeOK
<1>8. TaskOK' /\ RemoteOK' /\ UNCHANGED <<table, link, local, breaks>>
  BY TaskKept, RemoteKept DEF ReportStatus, StatusReported
<1> QED BY <1>6, <1>7, <1>8, RunStep

LEMMA AskKeeps ==
    ASSUME IInv, NEW p \in Syncs, Ask(p)
    PROVE  IInv'
<1> DEFINE v == [Idle EXCEPT !.pc = "asked", !.db = TunnelList]
<1>1. TunnelList \subseteq [row : Row, sid : Server \cup {None}, pp : BOOLEAN]
  <2>1. \A r \in Present : rows[r].sid \in Server \cup {None} /\ rows[r].pp \in BOOLEAN
    BY PlaceAssumption DEF Present, IInv, TypeOK
  <2> QED BY <2>1 DEF TunnelList, Present
<1>2. v \in Run /\ InLoop(v) /\ v.tid = None
  BY <1>1 DEF Idle, Run, InLoop, Removing, Updating
<1>3. sync' = [sync EXCEPT ![p] = v]
  BY DEF Ask
<1> HIDE DEF v
<1>4. sync' \in [Syncs -> Run] /\ JobsFit'
  BY <1>2, <1>3, OneRun
<1>5. \A x \in Syncs : sync'[x].tid \in {sync[x].tid, None}
  BY <1>2, <1>3 DEF IInv, TypeOK
<1>6. TaskOK' /\ RemoteOK'
  BY TaskKept, RemoteKept DEF Ask
<1> QED BY <1>4, <1>5, <1>6, RunStep DEF Ask

LEMMA DiffKeeps ==
    ASSUME IInv, NEW p \in Syncs, Diff(p)
    PROVE  IInv'
<1> DEFINE db == sync[p].db
           known == {d \in db : tun[d.row] # Gone}
           update == {[row |-> d.row, sid |-> IF d.sid = None THEN tun[d.row].sid ELSE d.sid,
                       pp |-> d.pp, old |-> tun[d.row].sid] : d \in {k \in known : Changed(k)}}
           add == {[row |-> d.row, sid |-> d.sid, pp |-> d.pp, old |-> None] : d \in db \ known}
           remove == {[row |-> r, sid |-> None, pp |-> FALSE, old |-> tun[r].sid] :
                         r \in {x \in Row : tun[x] # Gone} \ {d.row : d \in db}}
           v == [Idle EXCEPT !.pc = "remove", !.todo = remove, !.next = update \cup add]
<1>1. \A d \in db : d.row \in Row /\ d.sid \in Server \cup {None} /\ d.pp \in BOOLEAN
  BY DEF IInv, TypeOK, Run
<1>2. \A r \in Row : tun[r] # Gone => tun[r].sid \in Server /\ tun[r].sid # None
  BY ServerAssumption DEF IInv, TypeOK, Tunnel, None
<1>3. update \subseteq UpdateJob
  BY <1>1, <1>2 DEF UpdateJob, Job
<1>4. add \subseteq AddJob
  BY <1>1 DEF AddJob, Job
<1>5. remove \subseteq RemoveJob
  <2> DEFINE R == {x \in Row : tun[x] # Gone} \ {d.row : d \in db}
  <2>1. \A r \in R : r \in Row /\ tun[r].sid \in Server
    BY <1>2
  <2> HIDE DEF R
  <2>2. \A r \in R : [row |-> r, sid |-> None, pp |-> FALSE, old |-> tun[r].sid] \in RemoveJob
    BY <2>1 DEF Job, RemoveJob
  <2>3. {[row |-> r, sid |-> None, pp |-> FALSE, old |-> tun[r].sid] : r \in R} \subseteq RemoveJob
    BY <2>2
  <2> QED BY <2>3 DEF R
<1>6. Proceed(p, v) /\ UNCHANGED <<table, link, remote, local, breaks>>
  BY DEF Diff
<1> HIDE DEF update, add, remove
<1>7. v \in Run /\ InLoop(v) /\ v.tid = None /\ v.pc = "remove"
  BY <1>3, <1>4, <1>5 DEF Idle, Run, InLoop, Removing, Updating, UpdateJob, AddJob, RemoveJob
<1> HIDE DEF v
<1>8. /\ sync' \in [Syncs -> Run] /\ JobsFit' /\ TaskOK'
      /\ \A x \in Syncs : sync'[x].tid \in {sync[x].tid, None}
  BY <1>6, <1>7, Proceeded
<1> QED BY <1>6, <1>8, RemoteKept, RunStep

LEMMA CloseKeeps ==
    ASSUME IInv, NEW p \in Syncs, NEW j \in sync[p].todo, Close(p, j)
    PROVE  IInv'
<1>1. sync[p] \in Run /\ InLoop(sync[p]) /\ j \in Job
  BY DEF IInv, TypeOK, JobsFit, Run
<1>2. UNCHANGED <<table, link, remote, local, breaks>> /\ sync[p].pc \in {"remove", "update"}
  BY DEF Close
<1>3. CASE tun[j.row] = Gone
  <2> DEFINE v == [sync[p] EXCEPT !.todo = @ \ {j}]
  <2>1. v \in Run /\ v.pc = sync[p].pc /\ v.todo = sync[p].todo \ {j} /\ v.cur = sync[p].cur
        /\ v.next = sync[p].next /\ v.tid = sync[p].tid
    BY <1>1, <1>2 DEF Run
  <2>2. Proceed(p, v)
    BY <1>3 DEF Close
  <2> HIDE DEF v
  <2>3. InLoop(v)
    BY <1>1, <1>2, <2>1 DEF InLoop, Removing, Updating
  <2>4. /\ sync' \in [Syncs -> Run] /\ JobsFit' /\ TaskOK'
        /\ \A x \in Syncs : sync'[x].tid \in {sync[x].tid, None}
    BY <1>2, <2>1, <2>2, <2>3, Proceeded
  <2> QED BY <1>2, <2>4, RemoteKept, RunStep
<1>4. CASE tun[j.row] # Gone
  <2> DEFINE k == IF j.sid = None THEN [j EXCEPT !.old = tun[j.row].sid] ELSE j
             t == tun[j.row].tid
             v == [sync[p] EXCEPT !.pc = "close", !.todo = @ \ {j}, !.close = t, !.cur = k]
  <2>1. tun[j.row] \in Tunnel
    BY <1>1, <1>4 DEF IInv, TypeOK, Job
  <2>2. k \in Job /\ k.sid = j.sid /\ (j.sid # None => k = j) /\ t \in Tid
    BY <1>1, <2>1 DEF Job, Tunnel
  <2>3. sync' = [sync EXCEPT ![p].pc = "close", ![p].todo = @ \ {j}, ![p].close = t, ![p].cur = k]
        /\ UNCHANGED task
    BY <1>4 DEF Close
  <2> HIDE DEF k, t
  <2>4. v \in Run /\ v.pc = "close" /\ v.todo = sync[p].todo \ {j} /\ v.cur = k
        /\ v.next = sync[p].next /\ v.tid = sync[p].tid
    BY <1>1, <2>2 DEF Run
  <2>5. sync' = [sync EXCEPT ![p] = v]
    BY <2>3 DEF IInv, TypeOK
  <2> HIDE DEF v
  <2>6. InLoop(v)
    <3>1. CASE sync[p].pc = "remove"
      <4>1. j.sid = None
        BY <1>1, <3>1 DEF InLoop, Removing, RemoveJob
      <4> QED BY <1>1, <2>2, <2>4, <3>1, <4>1 DEF InLoop, Removing, Updating
    <3>2. CASE sync[p].pc = "update"
      <4>1. j \in UpdateJob /\ j.sid # None
        BY <1>1, <3>2, ServerAssumption DEF InLoop, Updating, UpdateJob, None
      <4> QED BY <1>1, <2>2, <2>4, <3>2, <4>1 DEF InLoop, Removing, Updating
    <3> QED BY <1>2, <3>1, <3>2
  <2>8. sync' \in [Syncs -> Run] /\ JobsFit'
    BY <2>4, <2>5, <2>6, OneRun
  <2>7. \A x \in Syncs : sync'[x].tid \in {sync[x].tid, None}
    BY <2>4, <2>5 DEF IInv, TypeOK
  <2> QED BY <1>2, <2>3, <2>7, <2>8, TaskKept, RemoteKept, RunStep
<1> QED BY <1>3, <1>4

LEMMA SendCloseTunnelKeeps ==
    ASSUME IInv, NEW p \in Syncs, SendCloseTunnel(p)
    PROVE  IInv'
<1> DEFINE v == [sync[p] EXCEPT !.pc = "forget", !.close = None]
<1>1. sync[p] \in Run /\ InLoop(sync[p]) /\ sync[p].pc = "close"
  BY DEF IInv, TypeOK, JobsFit, SendCloseTunnel, Pc
<1>2. v \in Run /\ v.pc = "forget" /\ v.todo = sync[p].todo /\ v.cur = sync[p].cur
      /\ v.next = sync[p].next /\ v.tid = sync[p].tid
  BY <1>1 DEF Run
<1>3. sync' = [sync EXCEPT ![p] = v]
  BY DEF SendCloseTunnel, IInv, TypeOK
<1> HIDE DEF v
<1>4. InLoop(v)
  BY <1>1, <1>2 DEF InLoop, Removing, Updating
<1>5. sync' \in [Syncs -> Run] /\ JobsFit'
  BY <1>2, <1>3, <1>4, OneRun
<1>6. \A x \in Syncs : sync'[x].tid \in {sync[x].tid, None}
  BY <1>2, <1>3 DEF IInv, TypeOK
<1>7. TaskOK' /\ RemoteOK'
  BY TaskKept, SentClose DEF SendCloseTunnel
<1> QED BY <1>5, <1>6, <1>7, RunStep DEF SendCloseTunnel

(* What the row has by now is forgotten; the run keeps the rest.            *)
LEMMA ForgetKeeps ==
    ASSUME IInv, NEW p \in Syncs, Forget(p)
    PROVE  IInv'
<1> DEFINE r == sync[p].cur.row
           c == IF sync[p].cur.sid = None THEN "drop" ELSE "open"
           v == [sync[p] EXCEPT !.pc = c]
<1>1. sync[p] \in Run /\ InLoop(sync[p]) /\ sync[p].pc = "forget"
  BY DEF IInv, TypeOK, JobsFit, Forget, Pc
<1>2. r \in Row
  BY <1>1 DEF InLoop, Job
<1>3. tun' = [tun EXCEPT ![r] = Gone] /\ addrs' = addrs \ {tun[r].tid}
  BY DEF Forget
<1>4. /\ tun' = [x \in Row |-> IF x \in {r} THEN Gone ELSE tun[x]]
      /\ addrs' = addrs \ {tun[x].tid : x \in {r}}
  BY <1>2, <1>3 DEF IInv, TypeOK
<1> HIDE DEF r
<1>5. /\ tun' \in [Row -> Tunnel \cup {Gone}] /\ addrs' \subseteq Tid
      /\ \A x \in Row : tun'[x] \in {tun[x], Gone}
      /\ AddressKnown'
  BY <1>2, <1>4, FewerAddresses
<1>6. v \in Run /\ v.pc = c /\ v.todo = sync[p].todo /\ v.cur = sync[p].cur
      /\ v.next = sync[p].next /\ v.tid = sync[p].tid
  BY <1>1 DEF Run
<1>7. sync' = [sync EXCEPT ![p] = v]
  BY DEF Forget, IInv, TypeOK
<1> HIDE DEF v
<1>8. InLoop(v)
  <2>1. CASE sync[p].cur.sid = None
    BY <1>1, <1>6, <2>1 DEF InLoop, Removing, Updating
  <2>2. CASE sync[p].cur.sid # None
    <3>1. v.pc = "open" /\ sync[p].cur \in UpdateJob /\ sync[p].todo \subseteq UpdateJob
          /\ sync[p].next \subseteq AddJob
      BY <1>1, <1>6, <2>2 DEF InLoop, Removing, Updating
    <3>2. sync[p].cur \in Job /\ sync[p].cur.sid \in Server /\ sync[p].cur.old # None
      BY <3>1 DEF UpdateJob
    <3> QED BY <1>6, <3>1, <3>2 DEF InLoop, Removing, Updating
  <2> QED BY <2>1, <2>2
<1>9. sync' \in [Syncs -> Run] /\ JobsFit'
  BY <1>6, <1>7, <1>8, OneRun
<1>10. \A x \in Syncs : sync'[x].tid \in {sync[x].tid, None}
  BY <1>6, <1>7 DEF IInv, TypeOK
<1>11. TidsDiffer'
  BY <1>5, <1>10, FewerTids
<1>12. UNCHANGED <<table, link, breaks>> /\ TaskOK' /\ RemoteOK' /\ kept' \in BOOLEAN
  BY TaskKept, RemoteKept DEF Forget, IInv, TypeOK
<1>13. TypeOK'
  BY <1>5, <1>9, <1>12, SyncStep
<1> QED BY <1>5, <1>9, <1>11, <1>13 DEF IInv

LEMMA RemoveStatsKeeps ==
    ASSUME IInv, NEW p \in Syncs, RemoveStats(p)
    PROVE  IInv'
<1> DEFINE v == [sync[p] EXCEPT !.pc = "remove", !.cur = Gone]
<1>1. sync[p] \in Run /\ InLoop(sync[p]) /\ sync[p].pc = "drop"
  BY DEF IInv, TypeOK, JobsFit, RemoveStats, Pc
<1>2. v \in Run /\ v.pc = "remove" /\ v.todo = sync[p].todo
      /\ v.next = sync[p].next /\ v.tid = sync[p].tid
  BY <1>1 DEF Run
<1>3. Proceed(p, v)
  BY DEF RemoveStats
<1> HIDE DEF v
<1>4. InLoop(v)
  BY <1>1, <1>2 DEF InLoop, Removing, Updating
<1>5. /\ sync' \in [Syncs -> Run] /\ JobsFit' /\ TaskOK'
      /\ \A x \in Syncs : sync'[x].tid \in {sync[x].tid, None}
  BY <1>2, <1>3, <1>4, Proceeded
<1> QED BY <1>5, RemoteKept, RunStep DEF RemoveStats

LEMMA ChooseKeeps ==
    ASSUME IInv, NEW p \in Syncs, NEW j \in sync[p].todo, Choose(p, j)
    PROVE  IInv'
<1>1. sync[p] \in Run /\ InLoop(sync[p]) /\ j \in Job /\ sync[p].pc = "add"
  BY DEF IInv, TypeOK, JobsFit, Run, Choose, Pc
<1>2. PICK s \in Server :
          sync' = [sync EXCEPT ![p].todo = @ \ {j}, ![p].pc = "open", ![p].cur = [j EXCEPT !.sid = s]]
  BY DEF Choose
<1> DEFINE k == [j EXCEPT !.sid = s]
           v == [sync[p] EXCEPT !.todo = @ \ {j}, !.pc = "open", !.cur = k]
<1>3. k \in Job /\ k.sid \in Server /\ k.old = None
  BY <1>1 DEF Job, InLoop, AddJob
<1>4. v \in Run /\ v.pc = "open" /\ v.todo = sync[p].todo \ {j} /\ v.cur = k
      /\ v.next = sync[p].next /\ v.tid = sync[p].tid
  BY <1>1, <1>3 DEF Run
<1>5. sync' = [sync EXCEPT ![p] = v]
  BY <1>2 DEF IInv, TypeOK
<1> HIDE DEF k, v
<1>6. InLoop(v)
  BY <1>1, <1>3, <1>4 DEF InLoop, Removing, Updating
<1>7. sync' \in [Syncs -> Run] /\ JobsFit'
  BY <1>4, <1>5, <1>6, OneRun
<1>8. \A x \in Syncs : sync'[x].tid \in {sync[x].tid, None}
  BY <1>4, <1>5 DEF IInv, TypeOK
<1>9. TaskOK' /\ RemoteOK'
  BY TaskKept, RemoteKept DEF Choose
<1> QED BY <1>7, <1>8, <1>9, RunStep DEF Choose

(* The new id belongs to nobody yet, neither to a row nor to another run.   *)
LEMMA OpenKeeps ==
    ASSUME IInv, NEW p \in Syncs, Open(p)
    PROVE  IInv'
<1>1. sync[p] \in Run /\ InLoop(sync[p]) /\ sync[p].pc = "open"
  BY DEF IInv, TypeOK, JobsFit, Open, Pc
<1>2. Fresh \in Tid \ Taken
  BY DEF Open, Fresh
<1> DEFINE f == Fresh
           v == [sync[p] EXCEPT !.pc = "insert", !.tid = f]
<1>3. f \in Tid /\ f # None /\ (\A r \in Row : tun[r].tid # f)
      /\ (\A q \in Syncs : sync[q].tid # f)
  BY <1>2, TidNotNone DEF Taken
<1> HIDE DEF f
<1>4. v \in Run /\ v.pc = "insert" /\ v.todo = sync[p].todo /\ v.cur = sync[p].cur
      /\ v.next = sync[p].next /\ v.tid = f
  BY <1>1, <1>3 DEF Run
<1>5. sync' = [sync EXCEPT ![p] = v]
  BY DEF Open, IInv, TypeOK, f
<1> HIDE DEF v
<1>6. InLoop(v)
  BY <1>1, <1>3, <1>4 DEF InLoop, Removing, Updating
<1>7. sync' \in [Syncs -> Run] /\ JobsFit'
  BY <1>4, <1>5, <1>6, OneRun
<1>8. \A q \in Syncs : sync'[q] = IF q = p THEN v ELSE sync[q]
  BY <1>5 DEF IInv, TypeOK
<1>9. UNCHANGED <<table, task, link, tun, addrs, kept, breaks>>
  BY DEF Open, local
<1>10. TidsDiffer'
  BY <1>3, <1>4, <1>8, <1>9 DEF IInv, TidsDiffer
<1>11. AddressKnown' /\ tun' \in [Row -> Tunnel \cup {Gone}] /\ addrs' \subseteq Tid
  BY <1>9 DEF IInv, TypeOK, AddressKnown
<1>12. RemoteOK'
  <2>1. sync[p].cur.sid \in Server /\ sync[p].cur.row \in Row
    BY <1>1 DEF InLoop, Job
  <2>2. SendOpen(sync[p].cur.sid, f, sync[p].cur.row)
    BY DEF Open, f
  <2> QED BY <1>3, <2>1, <2>2, SentOpen
<1>13. TypeOK'
  <2>1. kept' \in BOOLEAN
    BY <1>9 DEF IInv, TypeOK
  <2> QED BY <1>7, <1>9, <1>11, <1>12, <2>1, TaskKept, SyncStep
<1> QED BY <1>7, <1>10, <1>11, <1>13 DEF IInv

(* A run is done with a job and goes back to the loop it came from.         *)
LEMMA BackFits ==
    ASSUME IInv, NEW p \in Syncs, sync[p].pc \in {"open", "insert"}
    PROVE  /\ Back(p) \in Run /\ InLoop(Back(p)) /\ Back(p).tid = None
           /\ Back(p).pc \in {"update", "add"}
<1>1. sync[p] \in Run /\ InLoop(sync[p])
  BY DEF IInv, TypeOK, JobsFit
<1> DEFINE c == IF sync[p].cur.old = None THEN "add" ELSE "update"
<1>2. Back(p) \in Run /\ Back(p).pc = c /\ Back(p).todo = sync[p].todo
      /\ Back(p).next = sync[p].next /\ Back(p).tid = None
  BY <1>1 DEF Back, Run
<1> QED BY <1>1, <1>2 DEF InLoop, Removing, Updating

LEMMA NotConnectedKeeps ==
    ASSUME IInv, NEW p \in Syncs, NotConnected(p)
    PROVE  IInv'
<1>1. Back(p) \in Run /\ InLoop(Back(p)) /\ Back(p).tid = None /\ Back(p).pc \in {"update", "add"}
  BY BackFits DEF NotConnected, Pc
<1>2. /\ sync' \in [Syncs -> Run] /\ JobsFit' /\ TaskOK'
      /\ \A x \in Syncs : sync'[x].tid \in {sync[x].tid, None}
  BY <1>1, Proceeded DEF NotConnected
<1> QED BY <1>2, RemoteKept, RunStep DEF NotConnected

(* The run hands its id over to the row, together with the address.         *)
LEMMA InsertKeeps ==
    ASSUME IInv, NEW p \in Syncs, Insert(p)
    PROVE  IInv'
<1> DEFINE k == sync[p].cur
           t == sync[p].tid
           n == [tid |-> t, sid |-> k.sid, pp |-> k.pp]
<1>1. sync[p] \in Run /\ InLoop(sync[p]) /\ sync[p].pc = "insert"
  BY DEF IInv, TypeOK, JobsFit, Insert, Pc
<1>2. t \in Tid /\ t # None /\ k \in Job /\ k.row \in Row /\ n \in Tunnel
  BY <1>1, TidNotNone DEF InLoop, Job, Tunnel
<1>3. tun' = [tun EXCEPT ![k.row] = n] /\ addrs' = addrs \cup {t} /\ Proceed(p, Back(p))
  BY DEF Insert, Address
<1>4. Back(p) \in Run /\ InLoop(Back(p)) /\ Back(p).tid = None /\ Back(p).pc \in {"update", "add"}
  BY <1>1, BackFits
<1>5. /\ sync' \in [Syncs -> Run] /\ JobsFit' /\ TaskOK'
      /\ \A x \in Syncs : sync'[x].tid \in {sync[x].tid, None}
  BY <1>3, <1>4, Proceeded
<1>6. sync'[p].tid = None
  BY <1>3, <1>4, SettledFits DEF Proceed, IInv, TypeOK
<1>7. n.tid = t
  OBVIOUS
<1>8. /\ \A r \in Row : tun[r].tid # t
      /\ \A q \in Syncs : q # p => sync[q].tid # t
  BY <1>2 DEF IInv, TidsDiffer
<1> HIDE DEF t, k, n
<1>9. \A r \in Row : tun'[r] = IF r = k.row THEN n ELSE tun[r]
  BY <1>2, <1>3 DEF IInv, TypeOK
<1>10. tun' \in [Row -> Tunnel \cup {Gone}] /\ addrs' \subseteq Tid
  BY <1>2, <1>3 DEF IInv, TypeOK
<1>11. AddressKnown'
  BY <1>3, <1>7, <1>9 DEF IInv, AddressKnown
<1>12. TidsDiffer'
  <2>1. \A r, x \in Row : r # x /\ tun'[r] # Gone => tun'[r].tid # tun'[x].tid
    BY <1>7, <1>8, <1>9 DEF IInv, TidsDiffer
  <2>2. \A q \in Syncs, r \in Row : sync'[q].tid # None => sync'[q].tid # tun'[r].tid
    BY <1>5, <1>6, <1>7, <1>8, <1>9 DEF IInv, TidsDiffer
  <2>3. \A q, x \in Syncs : q # x /\ sync'[q].tid # None => sync'[q].tid # sync'[x].tid
    BY <1>5 DEF IInv, TidsDiffer
  <2> QED BY <2>1, <2>2, <2>3 DEF TidsDiffer
<1>13. TypeOK'
  BY <1>5, <1>10, RemoteKept, SyncStep DEF Insert, IInv, TypeOK
<1> QED BY <1>5, <1>11, <1>12, <1>13 DEF IInv

-----------------------------------------------------------------------------
(* The theorems.                                                            *)

LEMMA InitIInv == Init => IInv
<1> SUFFICES ASSUME Init PROVE IInv
  OBVIOUS
<1>1. \A r \in Row : tun[r] = Gone
  BY DEF Init
<1>2. \A p \in Syncs : sync[p] = Idle
  BY DEF Init
<1>3. rows \in [Row -> Place \cup {Gone}]
  BY StartAssumption DEF Init
<1>4. sync \in [Syncs -> Run]
  BY IdleRun DEF Init
<1>5. TypeOK
  <2>1. /\ tun \in [Row -> Tunnel \cup {Gone}] /\ addrs \subseteq Tid /\ kept \in BOOLEAN
        /\ edits \in 0..MaxEdits /\ breaks \in 0..MaxBreaks
    <3>1. edits \in 0..MaxEdits /\ breaks \in 0..MaxBreaks
      BY BoundAssumption DEF Init
    <3>2. tun \in [Row -> Tunnel \cup {Gone}]
      BY DEF Init
    <3>3. addrs \subseteq Tid /\ kept \in BOOLEAN
      BY DEF Init
    <3> QED BY <3>1, <3>2, <3>3
  <2>2. TaskOK /\ link \in [Server -> {"none", "up", "dead"}]
    <3>1. [pc |-> "none", stale |-> {}] \in [pc : Stage, stale : SUBSET Row]
      BY DEF Stage
    <3> QED BY <3>1 DEF Init, TaskOK
  <2>3. RemoteOK
    BY DEF Init, RemoteOK
  <2> QED BY <1>3, <1>4, <2>1, <2>2, <2>3 DEF TypeOK, TaskOK, Stage, RemoteOK
<1>6. JobsFit
  BY <1>2, IdleRun DEF JobsFit
<1>7. TidsDiffer
  BY <1>1, <1>2 DEF TidsDiffer, Idle
<1>8. AddressKnown
  BY <1>1 DEF AddressKnown
<1> QED BY <1>5, <1>6, <1>7, <1>8 DEF IInv

LEMMA NextIInv == IInv /\ [Next]_vars => IInv'
<1> SUFFICES ASSUME IInv, [Next]_vars PROVE IInv'
  OBVIOUS
<1>1. CASE ManagerPoll \/ StreamHandlerKeeps
  BY <1>1, ManagerPollKeeps, StreamHandlerKeepsKeeps
<1>2. ASSUME NEW r \in Row, Edit(r) \/ \E s \in Server : Release(s, r)
      PROVE  IInv'
  BY <1>2, EditKeeps, ReleaseKeeps
<1>3. ASSUME NEW s \in Server,
             \/ ServerTask(s) \/ Break(s) \/ ConnectFails(s) \/ AskFails(s)
             \/ \E t \in Tid : HandleCloseTunnel(s, t)
      PROVE  IInv'
  BY <1>3, ServerTaskKeeps, CleanForgetKeeps, CleanStatsKeeps,
     BreakKeeps, HandleCloseTunnelKeeps DEF ServerTask
<1>4. ASSUME NEW p \in Syncs, SyncTunnels(p)
      PROVE  IInv'
  BY <1>4, ReportKeeps, AskKeeps, DiffKeeps, CloseKeeps, SendCloseTunnelKeeps, ForgetKeeps,
     RemoveStatsKeeps, ChooseKeeps, OpenKeeps,
     NotConnectedKeeps, InsertKeeps DEF SyncTunnels
<1>5. CASE UNCHANGED vars
  <2>1. /\ UNCHANGED <<rows, edits, task, link, open, held, refused, breaks>>
        /\ UNCHANGED <<tun, addrs, kept, sync>>
    BY <1>5 DEF vars, table, remote, local
  <2>2. TypeOK'
    BY <2>1, Aside DEF IInv, TypeOK
  <2> QED BY <2>1, <2>2, Aside DEF IInv
<1> QED BY <1>1, <1>2, <1>3, <1>4, <1>5 DEF Next

(* The client is well typed: whatever the runs of sync_tunnels and the      *)
(* clean-ups remove and insert at the same time, a run never opens a tunnel *)
(* without a server or records one without an id (729-862).                 *)
THEOREM TypeCorrect == Spec => []TypeOK
<1>1. IInv => TypeOK
  BY DEF IInv
<1> QED BY InitIInv, NextIInv, <1>1, PTL DEF Spec

(* Every recorded tunnel has its local address, because no two of the rows  *)
(* and the runs ever have a tunnel id in common: NewConnection never        *)
(* connects a player of a recorded tunnel to the default address            *)
(* (1018-1020).                                                             *)
THEOREM AddressesAreKnown == Spec => []AddressKnown
<1>1. IInv => AddressKnown
  BY DEF IInv
<1> QED BY InitIInv, NextIInv, <1>1, PTL DEF Spec
=============================================================================
