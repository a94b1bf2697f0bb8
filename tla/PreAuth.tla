------------------------------- MODULE PreAuth -------------------------------
(****************************************************************************)
(* Pre-authorization of a client.  Before it connects, a client asks the    *)
(* manager for its servers; the manager notifies each of them, all at once, *)
(* and answers when the last notification has been acknowledged or given    *)
(* up; a server accepts a connection only against a notification that is    *)
(* less than Ttl old, and uses it up.                                       *)
(*                                                                          *)
(* Entries of different client UUIDs never meet, so the module follows one  *)
(* UUID.  Its client has several requests under way at once: one of every   *)
(* run_server_task, one of the connection manager.  Time is counted in a    *)
(* unit of which every constant of the code is a multiple (5 s); timers     *)
(* fire, and the manager's database answers, within the unit they are due.  *)
(****************************************************************************)
EXTENDS Integers, FiniteSets

CONSTANTS
    Server,    \* servers of the manager's configuration
    Query,     \* the client's requests to the manager
    Ttl,       \* PRE_AUTH_TTL_SECS (10 s)
    Grace,     \* what cleanup_pre_auth_cache leaves an expired entry (5 s)
    Every,     \* its period (5 s)
    Timeout,   \* of the manager's HTTP client (5 s), the shorter of its two
    MaxTime    \* bound on the clock

ASSUME TimeAssumption ==
    Ttl \in Nat \ {0} /\ Grace \in Nat /\ Every \in Nat \ {0} /\ MaxTime \in Nat
ASSUME TimeoutAssumption == Timeout \in Nat /\ Timeout < Ttl

Never == -1

VARIABLES
    now,
    cache,        \* PreAuthCache of each server: when the UUID was notified
    next_clean,   \* next tick of cleanup_pre_auth_cache
    allowed,      \* the UUID's row in client_server_mappings says allowed
    q_pc,         \* get_servers_for_client: "new", "wait", "answered", "over"
    q_start,      \* when the request found the client allowed
    q_at,         \* when it was answered
    q_list,       \* the server_ids it will answer with
    q_open,       \* notifications not finished yet
    q_stored,     \* notifications the server has handled
    credit,       \* history: notifications handled less connections accepted,
    last_accept,  \* the last connection accepted,
    revoked       \* the last time the client lost its permission

query == <<q_pc, q_start, q_at, q_list, q_open, q_stored>>
history == <<credit, last_accept>>
vars == <<now, cache, next_clean, allowed, query, history, revoked>>

Init ==
    /\ now = 0
    /\ cache = [s \in Server |-> Never]
    /\ next_clean = [s \in Server |-> 0]
    /\ allowed \in BOOLEAN
    /\ q_pc = [q \in Query |-> "new"]
    /\ q_start = [q \in Query |-> Never]
    /\ q_at = [q \in Query |-> Never]
    /\ q_list = [q \in Query |-> {}]
    /\ q_open = [q \in Query |-> {}]
    /\ q_stored = [q \in Query |-> {}]
    /\ credit = [s \in Server |-> 0]
    /\ last_accept = [s \in Server |-> Never]
    /\ revoked = Never

-----------------------------------------------------------------------------
(* The manager.                                                             *)

(* Mutants: the permission is not looked at; the notifications are awaited  *)
(* one after the other.                                                     *)
GetUnchecked(q, S) ==
    /\ q_pc[q] = "new"
    /\ q_pc' = [q_pc EXCEPT ![q] = "wait"]
    /\ q_start' = [q_start EXCEPT ![q] = now]
    /\ q_list' = [q_list EXCEPT ![q] = S]
    /\ q_open' = [q_open EXCEPT ![q] = S]
    /\ UNCHANGED <<now, cache, next_clean, allowed, q_at, q_stored, history, revoked>>
SequentialDeadline(q) == q_start[q] + Timeout * Cardinality(Server)

(* GET /api/client/:uuid/servers: 403 unless allowed; the servers are those *)
(* of the client's tunnels, or a fallback, or none; all are notified.       *)
Get(q, S) ==
    /\ allowed
    /\ q_pc[q] = "new"
    /\ q_pc' = [q_pc EXCEPT ![q] = "wait"]
    /\ q_start' = [q_start EXCEPT ![q] = now]
    /\ q_list' = [q_list EXCEPT ![q] = S]
    /\ q_open' = [q_open EXCEPT ![q] = S]
    /\ UNCHANGED <<now, cache, next_clean, allowed, q_at, q_stored, history, revoked>>

Deadline(q) == q_start[q] + Timeout

(* A notification ends: acknowledged, refused or given up, at the deadline  *)
(* at the latest.  The server may have handled it all the same.             *)
NotifyEnds(q, s) ==
    /\ q_pc[q] = "wait"
    /\ s \in q_open[q]
    /\ q_open' = [q_open EXCEPT ![q] = @ \ {s}]
    /\ UNCHANGED <<now, cache, next_clean, allowed, q_pc, q_start, q_at, q_list,
                   q_stored, history, revoked>>

(* The whole list is returned, whatever became of the notifications.        *)
Answer(q) ==
    /\ q_pc[q] = "wait"
    /\ q_open[q] = {}
    /\ q_pc' = [q_pc EXCEPT ![q] = "answered"]
    /\ q_at' = [q_at EXCEPT ![q] = now]
    /\ UNCHANGED <<now, cache, next_clean, allowed, q_start, q_list, q_open, q_stored,
                   history, revoked>>

SetAllowed(b) ==
    /\ allowed # b
    /\ allowed' = b
    /\ revoked' = IF b THEN revoked ELSE now
    /\ UNCHANGED <<now, cache, next_clean, query, history>>

-----------------------------------------------------------------------------
(* A server.                                                                *)

(* handle_pre_auth_request; a second notification renews the first. *)
HandlePreAuth(q, s) ==
    /\ q_pc[q] = "wait"
    /\ s \in q_open[q]
    /\ s \notin q_stored[q]
    /\ cache' = [cache EXCEPT ![s] = now]
    /\ q_stored' = [q_stored EXCEPT ![q] = @ \cup {s}]
    /\ credit' = [credit EXCEPT ![s] = @ + 1]
    /\ UNCHANGED <<now, next_clean, allowed, q_pc, q_start, q_at, q_list, q_open,
                   last_accept, revoked>>

(* Mutant: an expired entry is valid until it is cleaned up. *)
StillCached(s) == cache[s] # Never

Valid(s) == cache[s] # Never /\ now - cache[s] < Ttl

(* Mutant: only an expired entry is removed. *)
AuthenticateKeeping(q, s) ==
    /\ q_pc[q] = "answered"
    /\ s \in q_list[q]
    /\ q_pc' = [q_pc EXCEPT ![q] = "over"]
    /\ cache' = [cache EXCEPT ![s] = IF Valid(s) THEN @ ELSE Never]
    /\ credit' = [credit EXCEPT ![s] = IF Valid(s) THEN @ - 1 ELSE @]
    /\ last_accept' = [last_accept EXCEPT ![s] = IF Valid(s) THEN now ELSE @]
    /\ UNCHANGED <<now, next_clean, allowed, q_start, q_at, q_list, q_open, q_stored,
                   revoked>>

(* A run_server_task that finds its server in the list connects, however    *)
(* long that takes.  handle_client looks its UUID up and removes the entry, *)
(* valid or expired, under one lock.                                        *)
Authenticate(q, s) ==
    /\ q_pc[q] = "answered"
    /\ s \in q_list[q]
    /\ q_pc' = [q_pc EXCEPT ![q] = "over"]
    /\ cache' = [cache EXCEPT ![s] = Never]
    /\ credit' = [credit EXCEPT ![s] = IF Valid(s) THEN @ - 1 ELSE @]
    /\ last_accept' = [last_accept EXCEPT ![s] = IF Valid(s) THEN now ELSE @]
    /\ UNCHANGED <<now, next_clean, allowed, q_start, q_at, q_list, q_open, q_stored,
                   revoked>>

(* Mutant: an entry whose grace is over stays for one more period. *)
RetainedTooLong(s) == now - cache[s] <= Ttl + Grace

Retained(s) == now - cache[s] < Ttl + Grace

CleanUp(s) ==
    /\ now = next_clean[s]
    /\ cache' = [cache EXCEPT ![s] = IF Retained(s) THEN @ ELSE Never]
    /\ next_clean' = [next_clean EXCEPT ![s] = now + Every]
    /\ UNCHANGED <<now, allowed, query, history, revoked>>

-----------------------------------------------------------------------------
Tick ==
    /\ now < MaxTime
    /\ \A q \in Query : q_pc[q] = "wait" => q_open[q] # {} /\ now < Deadline(q)
    /\ \A s \in Server : now < next_clean[s]
    /\ now' = now + 1
    /\ UNCHANGED <<cache, next_clean, allowed, query, history, revoked>>

(* The end of the bounded clock. *)
ClockStops == now = MaxTime /\ UNCHANGED vars

Next ==
    \/ \E q \in Query, S \in SUBSET Server : Get(q, S)
    \/ \E q \in Query, s \in Server :
          HandlePreAuth(q, s) \/ NotifyEnds(q, s) \/ Authenticate(q, s)
    \/ \E q \in Query : Answer(q)
    \/ \E b \in BOOLEAN : SetAllowed(b)
    \/ \E s \in Server : CleanUp(s)
    \/ Tick \/ ClockStops

Spec == Init /\ [][Next]_vars

-----------------------------------------------------------------------------
Time == Nat \cup {Never}

(* Every variable stays in its type (the cache of server/src/main.rs and    *)
(* the requests of manager/src/main.rs).                                    *)
TypeOK ==
    /\ now \in Nat
    /\ cache \in [Server -> Time]
    /\ next_clean \in [Server -> Nat]
    /\ allowed \in BOOLEAN
    /\ q_pc \in [Query -> {"new", "wait", "answered", "over"}]
    /\ q_start \in [Query -> Time]
    /\ q_at \in [Query -> Time]
    /\ q_list \in [Query -> SUBSET Server]
    /\ q_open \in [Query -> SUBSET Server]
    /\ q_stored \in [Query -> SUBSET Server]
    /\ credit \in [Server -> Nat]
    /\ last_accept \in [Server -> Time]
    /\ revoked \in Time

(* "Valid - consume the entry (one-time use per connection)": renewals,     *)
(* clean-ups and requests that overlap never let more connections in than   *)
(* the manager has granted.                                                 *)
OneUse ==
    \A s \in Server : credit[s] >= (IF cache[s] = Never THEN 0 ELSE 1)

(* A client that has lost its permission gets no new connection once the    *)
(* notifications under way (Timeout) and the entries they leave (Ttl) are   *)
(* over, although no server is told of the change.                          *)
RevokedStaysOut ==
    \A s \in Server :
        ~allowed /\ revoked # Never => last_accept[s] < revoked + Timeout + Ttl

(* "so the client can connect within the TTL window": the manager answers   *)
(* after its slowest notification, and still leaves the client              *)
(* Ttl - Timeout for each server that has handled its own; only another     *)
(* connection of the client can have used the entry up.                     *)
AnswerLeavesTime ==
    \A q \in Query : q_pc[q] = "answered" =>
        \A s \in q_stored[q] : now - q_at[q] < Ttl - Timeout =>
            Valid(s) \/ last_accept[s] >= q_start[q]

(* "removes expired pre-auth entries every 5 seconds": no entry, of a       *)
(* client that never connects either, outlives the period after its grace.  *)
EntriesExpire ==
    \A s \in Server : cache[s] # Never => now - cache[s] < Ttl + Grace + Every
-----------------------------------------------------------------------------
(* What the properties above rest on, for the proofs.                       *)

(* No time of the past lies ahead; only the next clean-up does.             *)
Clocks ==
    /\ \A s \in Server : cache[s] <= now /\ last_accept[s] <= now
    /\ \A s \in Server : now <= next_clean[s] /\ next_clean[s] <= now + Every
    /\ revoked <= now

(* The next clean-up comes before an entry is too old.                      *)
CleanUpAhead ==
    \A s \in Server : cache[s] # Never => next_clean[s] < cache[s] + Ttl + Grace + Every

(* A request is answered in time; what it has stored since it started is    *)
(* there, or used, or its time is up.                                       *)
Requests ==
    /\ \A q \in Query : q_pc[q] = "new" => q_stored[q] = {}
    /\ \A q \in Query : q_pc[q] \in {"wait", "answered"} =>
        /\ 0 <= q_start[q] /\ q_start[q] <= now
        /\ q_pc[q] = "wait" => now <= Deadline(q)
        /\ q_pc[q] = "answered" => q_at[q] <= Deadline(q)
        /\ \A s \in q_stored[q] :
              cache[s] >= q_start[q] \/ last_accept[s] >= q_start[q] \/ now >= q_start[q] + Ttl

(* All that is under way for a client without permission began before it    *)
(* was withdrawn.                                                           *)
Revocation ==
    ~allowed /\ revoked # Never =>
        /\ \A q \in Query : q_pc[q] = "wait" => q_start[q] <= revoked
        /\ \A s \in Server : cache[s] <= revoked + Timeout

(* The inductive invariant of PreAuthProofs.                                *)
IInv ==
    /\ TypeOK /\ OneUse /\ RevokedStaysOut
    /\ Clocks /\ CleanUpAhead /\ Requests /\ Revocation
=============================================================================
