----------------------------- MODULE ClientLocks -----------------------------
(****************************************************************************)
(* The three locks of the client: state, servers and stats.tunnels, each a  *)
(* tokio RwLock, and the handlers that hold one while they wait for another *)
(* (client/src/main.rs).  A handler is the list of locks it takes; it gives *)
(* them all back at its end.  What it does under them, ending with a send   *)
(* or a request that may take long, is one step.                            *)
(****************************************************************************)
EXTENDS Naturals, Sequences

CONSTANT Task       \* the handlers at work, names of Handler

Read(l) == [lock |-> l, mode |-> "r"]
Write(l) == [lock |-> l, mode |-> "w"]

(* The data handler looks up its tunnel's counters. *)
HandleData == <<Read("state"), Read("stats")>>
(* Data for a local connection that is gone: StreamClose to the server, and *)
(* the servers stay in hand while the stream is taken out of the maps.      *)
RefuseData == <<Read("servers"), Write("state")>>
(* StreamClose from the server, and the end of a local connection. *)
HandleStreamClose == <<Write("state"), Read("stats")>>
LocalStreamEnds == <<Write("state"), Read("stats")>>
(* A connect that failed sends StreamClose with the state in hand. *)
ConnectFailed == <<Write("state"), Read("servers")>>
(* sync_tunnels removes a tunnel, and keeps the state while it reports it. *)
SyncRemoves == <<Write("state"), Write("stats")>>
ReportStatus == <<Read("stats"), Read("state")>>
CleanUp == <<Write("state"), Write("stats")>>
Heartbeat == <<Read("servers")>>
LeaveServers == <<Write("servers")>>

Handler ==
    [data |-> HandleData, refuse |-> RefuseData, streamClose |-> HandleStreamClose,
     localEnd |-> LocalStreamEnds, connectFailed |-> ConnectFailed, syncRemoves |-> SyncRemoves,
     report |-> ReportStatus, cleanUp |-> CleanUp, heartbeat |-> Heartbeat, leave |-> LeaveServers]
Lock == {"state", "servers", "stats"}

VARIABLES
    pos,        \* how many locks a task has taken; 0 when it is not at work
    waiting,    \* whether it has asked for the next one
    queue,      \* the tasks that wait for a lock, first come first served
    holders     \* the tasks that have it, [task, mode]
vars == <<pos, waiting, queue, holders>>

Init ==
    /\ pos = [t \in Task |-> 0]
    /\ waiting = [t \in Task |-> FALSE]
    /\ queue = [l \in Lock |-> <<>>]
    /\ holders = [l \in Lock |-> {}]

Wanted(t) == Handler[t][pos[t] + 1]
Done(t) == pos[t] = Len(Handler[t])

Ask(t) ==
    /\ ~Done(t) /\ ~waiting[t]
    /\ waiting' = [waiting EXCEPT ![t] = TRUE]
    /\ queue' = [queue EXCEPT ![Wanted(t).lock] = Append(@, t)]
    /\ UNCHANGED <<pos, holders>>

(* RwLock: readers share, a waiting writer holds up the readers behind it. *)
Free(l, mode) ==
    \A h \in holders[l] : mode = "r" /\ h.mode = "r"
Grant(t) ==
    /\ waiting[t]
    /\ LET want == Wanted(t)
       IN /\ Head(queue[want.lock]) = t /\ Free(want.lock, want.mode)
          /\ queue' = [queue EXCEPT ![want.lock] = Tail(@)]
          /\ holders' = [holders EXCEPT ![want.lock] = @ \cup {[task |-> t, mode |-> want.mode]}]
    /\ waiting' = [waiting EXCEPT ![t] = FALSE]
    /\ pos' = [pos EXCEPT ![t] = @ + 1]

Finish(t) ==
    /\ Done(t)
    /\ pos' = [pos EXCEPT ![t] = 0]
    /\ holders' = [l \in Lock |-> {h \in holders[l] : h.task # t}]
    /\ UNCHANGED <<waiting, queue>>

Step(t) == Ask(t) \/ Grant(t) \/ Finish(t)
Next == \E t \in Task : Step(t)

(* The runtime runs every task it can. *)
FairSpec == Init /\ [][Next]_vars /\ \A t \in Task : WF_vars(Step(t))

(* The clean-up after a disconnect comes to its end, so that the server is  *)
(* connected to again (279-280, 416-457).                                   *)
CleanUpCompletes == (pos["cleanUp"] > 0) ~> (pos["cleanUp"] = 0)
=============================================================================
