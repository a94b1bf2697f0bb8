--------------------------------- MODULE Dns ---------------------------------
(****************************************************************************)
(* The table of tunnels and the DNS records made from it: the management    *)
(* cycle of the manager (manager/src/main.rs, database.rs, cloudflare.rs)   *)
(* and the edits of the web API (web/src/main.rs, cloudflare.rs), two       *)
(* programs that meet in MySQL and at Cloudflare.                           *)
(*                                                                          *)
(* One action is one SQL statement, or one lookup at Cloudflare with the    *)
(* write that follows it.  A row keeps the columns that decide assignment   *)
(* and DNS; the address of a server stands for the server.  The names       *)
(* "<subdomain>.<domain>" and "_minecraft._tcp.<subdomain>.<domain>" are    *)
(* one Name with A records and SRV records.                                 *)
(****************************************************************************)
EXTENDS Naturals, FiniteSets, FiniteSetsExt

CONSTANTS
    Id,         \* ids of rows the instance has room for
    Server,     \* the servers of manager.toml, which have an address
    First,      \* the first of them
    Client,     \* the clients of manager.toml
    Request,    \* what the form may ask for: [name, sid, port, srv]
    Zone,       \* the names in a domain that has a zone at Cloudflare
    Table,      \* the tables the manager may find at its first start
    MaxEdits,   \* bound on the requests of the web UI
    MaxFails    \* bound on the failures of MySQL, Cloudflare and the manager

None == 0       \* NULL
ASSUME IdAssumption == Id \subseteq Nat \ {0} /\ IsFiniteSet(Id)
ASSUME ServerAssumption == Server \subseteq Nat \ {0} /\ First \in Server
ASSUME ClientAssumption == None \notin Client
ASSUME BoundAssumption == MaxEdits \in Nat /\ MaxFails \in Nat
ASSUME RequestAssumption == \A q \in Request : q.sid \in Nat /\ q.srv \in BOOLEAN

Name == {q.name : q \in Request}
ServerPort == {q.port : q \in Request}
Row == [place : Request, online : BOOLEAN, client : Client \cup {None}, dns_set : BOOLEAN]
Absent == [online |-> FALSE, client |-> None]
Fresh(q, c) == [place |-> q, online |-> TRUE, client |-> c, dns_set |-> FALSE]

ASSUME TableAssumption ==
    Table \subseteq [Id -> {Absent} \cup {Fresh(q, None) : q \in Request}]

VARIABLES
    rows,       \* the table tunnels
    a, srv,     \* the A and SRV records of a name, as Cloudflare holds them
    mapping,    \* client_server_mappings.server_id of a client
    cyc,        \* run_management_cycle: where it stands and the rows it has read
    web,        \* delete_tunnel, the handler that does not end in one statement
    dirty,      \* history: rows changed, or whose records somebody else wrote,
                \* since the cycle last read them
    edits, fails

records == <<a, srv>>
bounds == <<edits, fails>>
vars == <<rows, records, mapping, cyc, web, dirty, bounds>>

Present(i) == rows[i] # Absent
Named(n) == {i \in Id : Present(i) /\ rows[i].place.name = n}

Idle == [pc |-> "idle", todo |-> {}, cur |-> None, load |-> [c \in Client |-> 0],
         left |-> {}]
NoDelete == [pc |-> "idle", id |-> None, name |-> None]

InDns == cyc.pc \in {"dns", "srv", "mark"}
InHand == IF InDns THEN {r.id : r \in cyc.todo} ELSE {}

(* vps_ip of update_pending_dns: no server chosen means the first one. *)
Ip(q) == IF q.sid = None THEN First ELSE q.sid
(* There is an address to publish, and a zone to publish it in. *)
Known(q) == Ip(q) \in Server /\ q.name \in Zone
Published(q) == Ip(q) \in a[q.name] /\ (q.srv => q.port \in srv[q.name])

(* ensure_columns gives the rows it finds no client and dns_set FALSE.      *)
Init ==
    /\ rows \in Table
    /\ a = [n \in Name |-> {}]
    /\ srv = [n \in Name |-> {}]
    /\ mapping = [c \in Client |-> None]
    /\ cyc = Idle
    /\ web = NoDelete
    /\ dirty = {}
    /\ edits = 0 /\ fails = 0

-----------------------------------------------------------------------------
(* The management cycle.                                                    *)

Load(c) == Cardinality({i \in Id : rows[i].online /\ rows[i].client = c})

(* get_unassigned_tunnels; without such a row nothing is counted.           *)
GetUnassigned ==
    LET todo == {i \in Id : rows[i].online /\ rows[i].client = None} IN
    /\ cyc.pc = "idle"
    /\ cyc' = [Idle EXCEPT !.pc = IF todo = {} THEN "assign" ELSE "count",
                           !.todo = todo, !.left = Client]
    /\ UNCHANGED <<rows, records, mapping, web, dirty, bounds>>

(* get_tunnel_counts_per_client, a second SELECT. *)
GetCounts ==
    /\ cyc.pc = "count"
    /\ cyc' = [cyc EXCEPT !.pc = "assign", !.load = [c \in Client |-> Load(c)]]
    /\ UNCHANGED <<rows, records, mapping, web, dirty, bounds>>

(* assign_tunnel: the client with the fewest tunnels gets the row, whatever *)
(* the row holds by now.                                                    *)
AssignOne(i) ==
    /\ cyc.pc = "assign" /\ i \in cyc.todo
    /\ \E c \in Client :
          /\ \A d \in Client : cyc.load[c] <= cyc.load[d]
          /\ rows' = IF Present(i) THEN [rows EXCEPT ![i].client = c] ELSE rows
          /\ cyc' = [cyc EXCEPT !.todo = @ \ {i}, !.load[c] = @ + 1]
    /\ UNCHANGED <<records, mapping, web, dirty, bounds>>

(* get_best_server_for_client counts the rows of every server, online or    *)
(* not; ties go to the lowest id, no row at all to the first server.        *)
RowsOn(c, s) ==
    Cardinality({i \in Id : Present(i) /\ rows[i].client = c /\ rows[i].place.sid = s})
Best(c) ==
    LET sids == {rows[i].place.sid : i \in {j \in Id : Present(j) /\ rows[j].client = c}} \ {None}
        most == {s \in sids : \A x \in sids : RowsOn(c, x) <= RowsOn(c, s)}
    IN IF sids = {} THEN First ELSE Min(most)

(* Mutant: INSERT IGNORE instead of ON DUPLICATE KEY UPDATE. *)
MappedOnce(c) == IF mapping[c] = None THEN Best(c) ELSE mapping[c]
Mapped(c) == Best(c)

(* sync_client_server_mappings, one client: nothing that happens between    *)
(* its SELECT and its upsert reads the mapping, so the two are one step.    *)
SyncMapping(c) ==
    /\ cyc.pc = "assign" /\ cyc.todo = {} /\ c \in cyc.left
    /\ mapping' = [mapping EXCEPT ![c] = Mapped(c)]
    /\ cyc' = [cyc EXCEPT !.left = @ \ {c}]
    /\ UNCHANGED <<rows, records, web, dirty, bounds>>

Fail == fails < MaxFails /\ fails' = fails + 1 /\ UNCHANGED edits

(* The upsert of a client fails: the next client's turn. *)
MappingFails(c) ==
    /\ Fail
    /\ cyc.pc = "assign" /\ cyc.todo = {} /\ c \in cyc.left
    /\ cyc' = [cyc EXCEPT !.left = @ \ {c}]
    /\ UNCHANGED <<rows, records, mapping, web, dirty>>

NeedsDns(i) == rows[i].online /\ rows[i].client # None /\ ~rows[i].dns_set

(* get_tunnels_needing_dns: one SELECT, worked off from memory.             *)
ReadPending ==
    LET pending == {i \in Id : NeedsDns(i)} IN
    /\ cyc.pc = "assign" /\ cyc.todo = {} /\ cyc.left = {}
    /\ cyc' = [Idle EXCEPT !.pc = "dns",
                           !.todo = {[id |-> i, place |-> rows[i].place] : i \in pending}]
    /\ dirty' = dirty \ pending
    /\ UNCHANGED <<rows, records, mapping, web, bounds>>

(* What a set of records becomes: PUT replaces the first one the lookup     *)
(* returns; POST adds one, when there is none or when the lookup failed.    *)
Written(S, v) ==
    {(S \ {o}) \cup {v} : o \in S} \cup (IF v \in S THEN {} ELSE {S \cup {v}})

(* ensure_a_record with the address of the row as it was read.              *)
PutA(r) ==
    LET n == r.place.name IN
    /\ cyc.pc = "dns" /\ r \in cyc.todo /\ Known(r.place)
    /\ \E S \in Written(a[n], Ip(r.place)) : a' = [a EXCEPT ![n] = S]
    /\ cyc' = [cyc EXCEPT !.pc = IF r.place.srv THEN "srv" ELSE "mark", !.cur = r]
    /\ dirty' = dirty \cup (Named(n) \ {r.id})
    /\ UNCHANGED <<rows, srv, mapping, web, bounds>>

PutSrv ==
    LET n == cyc.cur.place.name IN
    /\ cyc.pc = "srv"
    /\ \E S \in Written(srv[n], cyc.cur.place.port) : srv' = [srv EXCEPT ![n] = S]
    /\ cyc' = [cyc EXCEPT !.pc = "mark"]
    /\ dirty' = dirty \cup (Named(n) \ {cyc.cur.id})
    /\ UNCHANGED <<rows, a, mapping, web, bounds>>

(* Mutant: a failed SRV record does not keep the row from being marked.      *)
DoneFallsThrough(r) ==
    cyc' = [cyc EXCEPT !.pc = IF cyc.pc = "srv" THEN "mark" ELSE "dns", !.todo = @ \ {r}]
Done(r) == cyc' = [cyc EXCEPT !.pc = "dns", !.todo = @ \ {r}, !.cur = None]

(* mark_dns_set, by id: whatever the row holds by now.                      *)
Mark ==
    LET i == cyc.cur.id IN
    /\ cyc.pc = "mark"
    /\ rows' = IF Present(i) THEN [rows EXCEPT ![i].dns_set = TRUE] ELSE rows
    /\ Done(cyc.cur)
    /\ UNCHANGED <<records, mapping, web, dirty, bounds>>

(* No address for the server of the row: never asked for; or no zone for    *)
(* its domain: an error before the first lookup, in every cycle.            *)
Skip(r) ==
    /\ cyc.pc = "dns" /\ r \in cyc.todo /\ ~Known(r.place)
    /\ Done(r)
    /\ UNCHANGED <<rows, records, mapping, web, dirty, bounds>>

(* Mutant: a failure of Cloudflare counts as done. *)
FailMarks ==
    /\ Fail
    /\ \/ cyc.pc = "srv" /\ cyc' = [cyc EXCEPT !.pc = "mark"]
       \/ cyc.pc = "dns" /\ \E r \in cyc.todo : cyc' = [cyc EXCEPT !.pc = "mark", !.cur = r]
    /\ UNCHANGED <<rows, records, mapping, web, dirty>>

(* Cloudflare or MySQL fail on a row: the next row's turn, this one is      *)
(* retried by the next cycle.                                               *)
DnsFails ==
    /\ Fail
    /\ \/ cyc.pc \in {"srv", "mark"} /\ Done(cyc.cur)
       \/ cyc.pc = "dns" /\ \E r \in cyc.todo : Known(r.place) /\ Done(r)
    /\ UNCHANGED <<rows, records, mapping, web, dirty>>

EndCycle ==
    /\ cyc.pc = "dns" /\ cyc.todo = {}
    /\ cyc' = Idle
    /\ UNCHANGED <<rows, records, mapping, web, dirty, bounds>>

(* A query before the DNS part fails, or the manager restarts.              *)
AbandonCycle ==
    /\ Fail
    /\ cyc.pc # "idle"
    /\ cyc' = Idle
    /\ UNCHANGED <<rows, records, mapping, web, dirty>>

-----------------------------------------------------------------------------
(* The web API.                                                             *)

Edit == edits < MaxEdits /\ edits' = edits + 1 /\ UNCHANGED fails
Touch(i) == dirty' = IF i \in InHand THEN dirty \cup {i} ELSE dirty

(* The lowest free id; of two requests that find the same one the primary   *)
(* key refuses the second, which leaves no trace.                           *)
Create(q, c) ==
    LET free == {i \in Id : ~Present(i)} IN
    /\ Edit
    /\ free # {}
    /\ rows' = [rows EXCEPT ![Min(free)] = Fresh(q, c)]
    /\ Touch(Min(free))
    /\ UNCHANGED <<records, mapping, cyc, web>>

(* Mutant: only a new name resets dns_set.                                  *)
DnsSetAfterOfOld(i, q) == rows[i].dns_set /\ q.name = rows[i].place.name
DnsSetAfter(i, q) == FALSE

(* PUT with the columns DNS depends on, and with those it does not; a PUT   *)
(* with both has the effect of one after the other.                         *)
UpdatePlace(i, q) ==
    /\ Edit
    /\ Present(i)
    /\ rows' = [rows EXCEPT ![i].place = q, ![i].dns_set = DnsSetAfter(i, q)]
    /\ Touch(i)
    /\ UNCHANGED <<records, mapping, cyc, web>>

UpdateOther(i, on, c) ==
    /\ Edit
    /\ Present(i)
    /\ rows' = [rows EXCEPT ![i].online = on, ![i].client = c]
    /\ UNCHANGED <<records, mapping, cyc, web, dirty>>

StartTunnel(i) ==
    /\ Edit
    /\ Present(i)
    /\ rows' = [rows EXCEPT ![i].online = TRUE, ![i].dns_set = FALSE]
    /\ UNCHANGED <<records, mapping, cyc, web, dirty>>

StopTunnel(i) ==
    /\ Edit
    /\ Present(i)
    /\ rows' = [rows EXCEPT ![i].online = FALSE]
    /\ UNCHANGED <<records, mapping, cyc, web, dirty>>

(* delete_tunnel reads the name, deletes at Cloudflare, then deletes the    *)
(* row; an error at Cloudflare is logged and the row deleted all the same.  *)
DeleteTunnel(i) ==
    /\ Edit
    /\ web.pc = "idle"
    /\ Present(i)
    /\ LET n == rows[i].place.name
       IN web' = [pc |-> IF n \in Zone THEN "a" ELSE "row", id |-> i, name |-> n]
    /\ UNCHANGED <<rows, records, mapping, cyc, dirty>>

Removed(S) == IF S = {} THEN {{}} ELSE {S \ {o} : o \in S}

DeleteA ==
    LET n == web.name IN
    /\ web.pc = "a"
    /\ \E S \in Removed(a[n]) : a' = [a EXCEPT ![n] = S]
    /\ dirty' = dirty \cup Named(n)
    /\ web' = [web EXCEPT !.pc = "srv"]
    /\ UNCHANGED <<rows, srv, mapping, cyc, bounds>>

DeleteSrv ==
    LET n == web.name IN
    /\ web.pc = "srv"
    /\ \E S \in Removed(srv[n]) : srv' = [srv EXCEPT ![n] = S]
    /\ dirty' = dirty \cup Named(n)
    /\ web' = [web EXCEPT !.pc = "row"]
    /\ UNCHANGED <<rows, a, mapping, cyc, bounds>>

(* Cloudflare fails, or the last statement: the row stays without records.  *)
DeleteFails ==
    /\ Fail
    /\ \/ web.pc \in {"a", "srv"} /\ web' = [web EXCEPT !.pc = "row"]
       \/ web.pc = "row" /\ web' = NoDelete
    /\ UNCHANGED <<rows, records, mapping, cyc, dirty>>

DeleteRow ==
    /\ web.pc = "row"
    /\ rows' = [rows EXCEPT ![web.id] = Absent]
    /\ web' = NoDelete
    /\ UNCHANGED <<records, mapping, cyc, dirty, bounds>>

-----------------------------------------------------------------------------
CycleStep ==
    \/ GetUnassigned \/ GetCounts \/ ReadPending \/ PutSrv \/ Mark \/ EndCycle
    \/ \E i \in Id : AssignOne(i)
    \/ \E c \in Client : SyncMapping(c)
    \/ \E r \in cyc.todo : PutA(r) \/ Skip(r)

Failure == DnsFails \/ AbandonCycle \/ DeleteFails \/ \E c \in Client : MappingFails(c)

WebStep ==
    \/ \E q \in Request, c \in Client \cup {None} : Create(q, c)
    \/ \E i \in Id :
          \/ \E q \in Request : UpdatePlace(i, q)
          \/ \E on \in BOOLEAN, c \in Client \cup {None} : UpdateOther(i, on, c)
          \/ StartTunnel(i) \/ StopTunnel(i) \/ DeleteTunnel(i)
    \/ DeleteA \/ DeleteSrv \/ DeleteRow

Next == CycleStep \/ WebStep \/ Failure
Spec == Init /\ [][Next]_vars

(* The interval ticks for ever and a failed cycle is only logged.  Nothing  *)
(* is assumed of the web UI.                                                *)
FairSpec == Spec /\ WF_vars(CycleStep)

-----------------------------------------------------------------------------
Snapshot == [id : Id, place : Request]

(* Every variable stays in its type (the tables and records that            *)
(* manager/src/database.rs and cloudflare.rs read and write).               *)
TypeOK ==
    /\ rows \in [Id -> Row \cup {Absent}]
    /\ a \in [Name -> SUBSET Server]
    /\ srv \in [Name -> SUBSET ServerPort]
    /\ mapping \in [Client -> Nat]
    /\ cyc.pc \in {"idle", "count", "assign", "dns", "srv", "mark"}
    /\ cyc.todo \subseteq IF InDns THEN Snapshot ELSE Id
    /\ cyc.pc \in {"srv", "mark"} => cyc.cur \in cyc.todo
    /\ cyc.load \in [Client -> Nat] /\ cyc.left \subseteq Client
    /\ web \in {NoDelete} \cup [pc : {"a", "srv", "row"}, id : Id, name : Name]
    /\ dirty \subseteq Id
    /\ edits \in 0 .. MaxEdits /\ fails \in 0 .. MaxFails

(* dns_set means what it says: a row marked as set has its records at       *)
(* Cloudflare.  The two things that break it are an edit while the cycle    *)
(* holds an older copy of the row, and another row, or a delete, that       *)
(* writes records of the same name (dirty); nothing else does, however      *)
(* edits, failures and restarts fall between the SELECT and mark_dns_set.   *)
DnsSetHolds ==
    \A i \in Id : Present(i) /\ rows[i].dns_set /\ i \notin dirty => Published(rows[i].place)

Due(i) == rows[i].online /\ Known(rows[i].place)
(* An online row whose records are not set gets a client and then its       *)
(* records, whatever fails on the way, unless it is stopped, moved to a     *)
(* server without an address or a domain without a zone, or one of the two  *)
(* things happens that DnsSetHolds excepts.                                 *)
EditPublished ==
    \A i \in Id :
        Due(i) /\ ~rows[i].dns_set
            ~> \/ rows[i].client # None /\ Published(rows[i].place)
               \/ ~Due(i) \/ i \in dirty

(* Once the table is at rest every client is mapped to the server with most *)
(* of its tunnels: the upsert follows the table, an old mapping does not    *)
(* stick.                                                                   *)
MappingFollows ==
    \A c \in Client, s \in ({First} \cup {q.sid : q \in Request}) \ {None} :
        <>[](Best(c) = s) => <>[](mapping[c] = s)

-----------------------------------------------------------------------------
(* "Reset dns_set whenever a field that affects DNS is changed, so the      *)
(* manager picks it up next cycle": with no cycle under way and nobody else *)
(* using its name, a row that is not waiting for DNS has the right records. *)
EditsReachDns ==
    \A i \in Id :
        cyc.pc = "idle" /\ web.pc = "idle" /\ rows[i].online
            /\ rows[i].dns_set /\ Named(rows[i].place.name) = {i}
            => Published(rows[i].place)
=============================================================================
