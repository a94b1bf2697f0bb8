------------------------------ MODULE DnsProofs ------------------------------
(****************************************************************************)
(* Proofs about Dns: what a row says of its DNS records is what Cloudflare  *)
(* holds, for any number of rows, names, zones, servers and clients, edits  *)
(* and failures.                                                            *)
(****************************************************************************)
EXTENDS Dns, FiniteSetTheorems, WellFoundedInduction, TLAPS

Cycle == [pc : {"idle", "count", "assign", "dns", "srv", "mark"}, todo : SUBSET (Id \cup Snapshot),
          cur : Snapshot \cup {None}, load : [Client -> Nat], left : SUBSET Client]

(* What the cycle holds is what the row still says, and what it has written *)
(* is still there, unless the row is dirty.                                 *)
HandCurrent ==
    InDns => \A r \in cyc.todo :
                 r.id \notin dirty /\ Present(r.id) => rows[r.id].place = r.place
WrittenStays ==
    cyc.cur.id \notin dirty /\ Present(cyc.cur.id) =>
        /\ cyc.pc = "srv" => Ip(cyc.cur.place) \in a[cyc.cur.place.name]
        /\ cyc.pc = "mark" => Published(cyc.cur.place)

Types == TypeOK /\ cyc \in Cycle
IInv == Types /\ HandCurrent /\ WrittenStays /\ DnsSetHolds

-----------------------------------------------------------------------------
(* Lemmas about rows, names and the choice of a server.                     *)

LEMMA RowsPresent ==
    ASSUME NEW r \in Row
    PROVE  r # Absent
<1>1. "place" \in DOMAIN r
  BY DEF Row
<1>2. "place" \notin DOMAIN Absent
  BY DEF Absent
<1> QED BY <1>1, <1>2

LEMMA FreshRow ==
    ASSUME NEW q \in Request, NEW c \in Client \cup {None}
    PROVE  Fresh(q, c) \in Row /\ ~Fresh(q, c).dns_set
BY DEF Fresh, Row

LEMMA LeastExists ==
    ASSUME NEW T \in SUBSET Nat, T # {}
    PROVE  \E x \in T : \A y \in T : x <= y
<1>1. PICK x \in T : \A y \in T : ~(<<y, x>> \in OpToRel(<, Nat))
  BY NatLessThanWellFounded, WFMin
<1>2. \A y \in T : ~(y < x)
  BY <1>1 DEF OpToRel
<1> QED BY <1>2

LEMMA RowsCounted ==
    ASSUME NEW S \in SUBSET Id
    PROVE  IsFiniteSet(S) /\ Cardinality(S) \in Nat /\ Cardinality(S) <= Cardinality(Id)
           /\ Cardinality(Id) \in Nat
BY IdAssumption, FS_Subset, FS_CardinalityType

(* There is always a best server, and it has a number.                      *)
LEMMA BestIsServer ==
    ASSUME TypeOK, NEW c \in Client
    PROVE  Best(c) \in Nat
<1> DEFINE sids == {rows[i].place.sid : i \in {j \in Id : Present(j) /\ rows[j].client = c}} \ {None}
           most == {s \in sids : \A x \in sids : RowsOn(c, x) <= RowsOn(c, s)}
<1>1. sids \subseteq Nat
  BY RequestAssumption DEF TypeOK, Present, Row
<1>2. CASE sids = {}
  BY <1>2, ServerAssumption DEF Best
<1>3. CASE sids # {}
  <2> DEFINE rest(s) == Cardinality(Id) - RowsOn(c, s)
             T == {rest(s) : s \in sids}
  <2>1. \A s \in sids : RowsOn(c, s) \in Nat /\ RowsOn(c, s) <= Cardinality(Id)
        /\ Cardinality(Id) \in Nat
    BY RowsCounted DEF RowsOn
  <2>2. T \in SUBSET Nat /\ T # {}
    BY <1>3, <2>1
  <2>3. PICK t \in T : \A u \in T : t <= u
    BY <2>2, LeastExists
  <2>4. PICK s \in sids : t = rest(s)
    BY <2>3
  <2>5. \A x \in sids : rest(s) <= rest(x)
    BY <2>3, <2>4
  <2>6. \A x \in sids : RowsOn(c, x) <= RowsOn(c, s)
    BY <2>1, <2>5
  <2>7. most \in SUBSET Nat /\ most # {}
    BY <1>1, <2>6
  <2> HIDE DEF most
  <2>8. Min(most) \in most
    BY <2>7, LeastExists DEF Min
  <2>9. Best(c) = Min(most)
    BY <1>3 DEF Best, most
  <2> QED BY <2>7, <2>8, <2>9
<1> QED BY <1>2, <1>3

(* A step that edits one row, known to the cycle if it is in its hands, and *)
(* leaves it unmarked.                                                      *)
LEMMA OneRowEdited ==
    ASSUME IInv, UNCHANGED <<a, srv, cyc>>, NEW i,
           \A x \in Id : x # i => rows'[x] = rows[x],
           i \in Id /\ Present(i)' => ~rows'[i].dns_set,
           dirty' = IF i \in InHand THEN dirty \cup {i} ELSE dirty
    PROVE  HandCurrent' /\ WrittenStays' /\ DnsSetHolds'
<1>1. \A r : InDns /\ r \in cyc.todo => r.id \in Id /\ (r.id = i => i \in InHand)
  BY DEF IInv, Types, TypeOK, InHand, Snapshot
<1>2. HandCurrent'
  BY <1>1 DEF IInv, HandCurrent, InDns, Present
<1>3. cyc.pc \in {"srv", "mark"} => InDns /\ cyc.cur \in cyc.todo
  BY DEF IInv, Types, TypeOK, InDns
<1>4. WrittenStays'
  BY <1>1, <1>3 DEF IInv, WrittenStays, Present, Published, Ip
<1>5. DnsSetHolds'
  <2> SUFFICES ASSUME NEW x \in Id, Present(x)', rows'[x].dns_set, x \notin dirty'
               PROVE  Published(rows[x].place)'
    BY DEF DnsSetHolds
  <2>1. x # i
    OBVIOUS
  <2>2. rows'[x] = rows[x] /\ x \notin dirty
    BY <2>1
  <2> QED BY <2>2 DEF IInv, DnsSetHolds, Present, Published, Ip
<1> QED BY <1>2, <1>4, <1>5

(* A step that makes no row present, moves none and marks none.             *)
LEMMA RowsKept ==
    ASSUME IInv, UNCHANGED <<a, srv, dirty>>,
           \A x \in Id : Present(x)' => /\ Present(x) /\ rows'[x].place = rows[x].place
                                        /\ rows'[x].dns_set => rows[x].dns_set
    PROVE  DnsSetHolds' /\ (cyc' = cyc => HandCurrent' /\ WrittenStays')
<1>1. DnsSetHolds'
  BY DEF IInv, DnsSetHolds, Published, Ip
<1>2. \A r : InDns /\ r \in cyc.todo => r.id \in Id
  BY DEF IInv, Types, TypeOK, Snapshot
<1>3. cyc.pc \in {"srv", "mark"} => InDns /\ cyc.cur \in cyc.todo
  BY DEF IInv, Types, TypeOK, InDns
<1>4. ASSUME cyc' = cyc PROVE HandCurrent'
  BY <1>2, <1>4 DEF IInv, HandCurrent, InDns
<1>5. ASSUME cyc' = cyc PROVE WrittenStays'
  BY <1>2, <1>3, <1>5 DEF IInv, WrittenStays, Published, Ip
<1> QED BY <1>1, <1>4, <1>5

(* A step of the cycle that leaves the table and the records alone, and     *)
(* goes on with fewer rows or none.                                         *)
LEMMA CycleMoved ==
    ASSUME IInv, UNCHANGED <<rows, a, srv, dirty>>,
           \/ cyc'.pc = "dns" /\ InDns /\ cyc'.todo \subseteq cyc.todo
           \/ cyc'.pc \in {"idle", "count", "assign"}
    PROVE  HandCurrent' /\ WrittenStays' /\ DnsSetHolds'
<1>1. DnsSetHolds'
  BY DEF IInv, DnsSetHolds, Present, Published, Ip
<1>2. HandCurrent'
  BY DEF IInv, HandCurrent, InDns, Present
<1>3. WrittenStays'
  BY DEF WrittenStays
<1> QED BY <1>1, <1>2, <1>3

(* A step that changes the records of one name, and tells the other rows of *)
(* that name.                                                               *)
LEMMA NameRewritten ==
    ASSUME IInv, UNCHANGED rows, NEW n,
           \A m \in Name : m # n => a'[m] = a[m] /\ srv'[m] = srv[m],
           NEW R \in SUBSET Id, Named(n) \subseteq R, dirty' = dirty \cup R
    PROVE  DnsSetHolds' /\ (UNCHANGED cyc => HandCurrent' /\ WrittenStays')
<1>1. \A x \in Id : Present(x) => rows[x].place.name \in Name
  BY DEF IInv, Types, TypeOK, Present, Row, Name
<1>2. \A x \in Id : Present(x) /\ x \notin dirty' => rows[x].place.name # n
  BY DEF Named
<1>3. DnsSetHolds'
  BY <1>1, <1>2 DEF IInv, DnsSetHolds, Present, Published, Ip
<1>4. ASSUME UNCHANGED cyc PROVE HandCurrent'
  BY <1>4 DEF IInv, HandCurrent, InDns, Present
<1>5. ASSUME UNCHANGED cyc PROVE WrittenStays'
  <2> SUFFICES ASSUME cyc.cur.id \notin dirty', Present(cyc.cur.id),
                      cyc.pc \in {"srv", "mark"}
               PROVE  /\ cyc.pc = "srv" => Ip(cyc.cur.place) \in a'[cyc.cur.place.name]
                      /\ cyc.pc = "mark" => Published(cyc.cur.place)'
    BY <1>5 DEF WrittenStays, Present, Ip
  <2>1. cyc.cur \in cyc.todo /\ cyc.cur.id \in Id /\ InDns
    BY DEF IInv, Types, TypeOK, InDns, Snapshot
  <2>2. rows[cyc.cur.id].place = cyc.cur.place
    BY <2>1 DEF IInv, HandCurrent
  <2>3. cyc.cur.place.name \in Name /\ cyc.cur.place.name # n
    BY <1>1, <1>2, <2>1, <2>2
  <2> QED BY <1>5, <2>3 DEF IInv, WrittenStays, Published, Ip
<1> QED BY <1>3, <1>4, <1>5

(* The cycle writes a record of the name of the row in its hands: the other *)
(* rows of the name are told.                                               *)
LEMMA OthersTold ==
    ASSUME IInv, UNCHANGED rows, NEW r \in cyc.todo, InDns,
           \A m \in Name : m # r.place.name => a'[m] = a[m] /\ srv'[m] = srv[m],
           dirty' = dirty \cup (Named(r.place.name) \ {r.id})
    PROVE  /\ dirty' \subseteq Id
           /\ InDns' /\ cyc'.todo = cyc.todo => HandCurrent'
           /\ Published(r.place)' \/ (Published(r.place) => Published(r.place)') => DnsSetHolds'
<1>1. \A x \in Id : Present(x) => rows[x].place.name \in Name
  BY DEF IInv, Types, TypeOK, Present, Row, Name
<1>2. r.id \in Id
  BY DEF IInv, Types, TypeOK, Snapshot
<1>3. dirty' \subseteq Id
  BY DEF IInv, Types, TypeOK, Named
<1>4. ASSUME InDns', cyc'.todo = cyc.todo PROVE HandCurrent'
  BY <1>4 DEF IInv, HandCurrent, Present
<1>5. ASSUME Published(r.place)' \/ (Published(r.place) => Published(r.place)')
      PROVE  DnsSetHolds'
  <2> SUFFICES ASSUME NEW x \in Id, Present(x), rows[x].dns_set, x \notin dirty'
               PROVE  Published(rows[x].place)'
    BY DEF DnsSetHolds, Present
  <2>1. Published(rows[x].place)
    BY DEF IInv, DnsSetHolds
  <2>2. CASE x = r.id
    <3>1. rows[x].place = r.place
      BY <2>2 DEF IInv, HandCurrent
    <3> QED BY <1>5, <2>1, <3>1
  <2>3. CASE x # r.id
    <3>1. rows[x].place.name \in Name /\ rows[x].place.name # r.place.name
      BY <1>1, <2>3 DEF Named
    <3> QED BY <2>1, <3>1 DEF Published, Ip
  <2> QED BY <2>2, <2>3
<1> QED BY <1>3, <1>4, <1>5

-----------------------------------------------------------------------------
(* Every action of the cycle keeps the invariant.                           *)

LEMMA CycleParts ==
    ASSUME IInv
    PROVE  /\ cyc = [pc |-> cyc.pc, todo |-> cyc.todo, cur |-> cyc.cur, load |-> cyc.load,
                     left |-> cyc.left]
           /\ cyc.load \in [Client -> Nat] /\ cyc.left \subseteq Client
           /\ cyc.cur \in Snapshot \cup {None}
           /\ InDns => cyc.todo \subseteq Snapshot
           /\ ~InDns => cyc.todo \subseteq Id
BY DEF IInv, Types, TypeOK, Cycle

(* What is left to show of a step of the cycle.                             *)
LEMMA CycleTypes ==
    ASSUME IInv, UNCHANGED web, cyc' \in Cycle,
           rows' \in [Id -> Row \cup {Absent}], dirty' \subseteq Id,
           a' \in [Name -> SUBSET Server], srv' \in [Name -> SUBSET ServerPort],
           mapping' \in [Client -> Nat],
           cyc'.todo \subseteq IF InDns' THEN Snapshot ELSE Id,
           cyc'.pc \in {"srv", "mark"} => cyc'.cur \in cyc'.todo,
           edits' \in 0 .. MaxEdits, fails' \in 0 .. MaxFails
    PROVE  Types'
<1>1. cyc'.pc \in {"idle", "count", "assign", "dns", "srv", "mark"} /\ cyc'.load \in [Client -> Nat]
      /\ cyc'.left \subseteq Client
  BY DEF Cycle
<1> QED BY <1>1 DEF IInv, Types, TypeOK

(* The steps that only move the cycle.                                      *)
LEMMA MovedTypes ==
    ASSUME IInv, UNCHANGED <<rows, a, srv, web>>, cyc' \in Cycle,
           mapping' \in [Client -> Nat], dirty' \subseteq dirty,
           cyc'.todo \subseteq IF InDns' THEN Snapshot ELSE Id,
           cyc'.pc \notin {"srv", "mark"},
           UNCHANGED bounds \/ Fail
    PROVE  Types'
<1>1. edits' \in 0 .. MaxEdits /\ fails' \in 0 .. MaxFails
  BY BoundAssumption DEF IInv, Types, TypeOK, bounds, Fail
<1>2. /\ rows' \in [Id -> Row \cup {Absent}] /\ dirty' \subseteq Id
      /\ a' \in [Name -> SUBSET Server] /\ srv' \in [Name -> SUBSET ServerPort]
  BY DEF IInv, Types, TypeOK
<1> QED BY <1>1, <1>2, CycleTypes

LEMMA MappingKept == ASSUME IInv, UNCHANGED mapping PROVE mapping' \in [Client -> Nat]
BY DEF IInv, Types, TypeOK

LEMMA GetUnassignedKeeps == ASSUME IInv, GetUnassigned PROVE IInv'
<1> DEFINE todo == {i \in Id : rows[i].online /\ rows[i].client = None}
<1>1. todo \subseteq Id
  OBVIOUS
<1> HIDE DEF todo
<1>2. /\ cyc' = [Idle EXCEPT !.pc = IF todo = {} THEN "assign" ELSE "count",
                            !.todo = todo, !.left = Client]
      /\ UNCHANGED <<rows, a, srv, mapping, web, dirty, bounds>>
  BY DEF GetUnassigned, records, todo
<1>3. cyc' \in Cycle /\ cyc'.pc \in {"count", "assign"} /\ cyc'.todo = todo /\ ~InDns'
  BY <1>1, <1>2 DEF Idle, Cycle, InDns
<1>4. Types'
  BY <1>1, <1>2, <1>3, MappingKept, MovedTypes
<1> QED BY <1>2, <1>3, <1>4, CycleMoved DEF IInv

LEMMA GetCountsKeeps == ASSUME IInv, GetCounts PROVE IInv'
<1> DEFINE load == [c \in Client |-> Load(c)]
<1>1. load \in [Client -> Nat]
  BY RowsCounted DEF Load
<1> HIDE DEF load
<1>2. /\ cyc.pc = "count" /\ cyc' = [cyc EXCEPT !.pc = "assign", !.load = load]
      /\ UNCHANGED <<rows, a, srv, mapping, web, dirty, bounds>>
  BY DEF GetCounts, records, load
<1>3. cyc' = [pc |-> "assign", todo |-> cyc.todo, cur |-> cyc.cur, load |-> load,
              left |-> cyc.left]
  BY <1>2, CycleParts
<1>4. cyc.todo \subseteq Id
  BY <1>2, CycleParts DEF InDns
<1>5. cyc' \in Cycle /\ cyc'.pc = "assign" /\ cyc'.todo \subseteq Id /\ ~InDns'
  BY <1>1, <1>3, <1>4, CycleParts DEF Cycle, InDns
<1>6. Types'
  BY <1>2, <1>5, MappingKept, MovedTypes
<1> QED BY <1>2, <1>5, <1>6, CycleMoved DEF IInv

LEMMA AssignOneKeeps == ASSUME IInv, NEW i \in Id, AssignOne(i) PROVE IInv'
<1>1. PICK c \in Client :
        /\ rows' = IF Present(i) THEN [rows EXCEPT ![i].client = c] ELSE rows
        /\ cyc' = [cyc EXCEPT !.todo = @ \ {i}, !.load[c] = @ + 1]
  BY DEF AssignOne
<1>2. cyc.pc = "assign" /\ UNCHANGED <<a, srv, mapping, web, dirty, bounds>>
  BY DEF AssignOne, records
<1>3. [cyc.load EXCEPT ![c] = @ + 1] \in [Client -> Nat]
  BY CycleParts
<1>4. cyc' = [pc |-> "assign", todo |-> cyc.todo \ {i}, cur |-> cyc.cur,
              load |-> [cyc.load EXCEPT ![c] = @ + 1], left |-> cyc.left]
  BY <1>1, <1>2, CycleParts
<1>5. cyc.todo \subseteq Id
  BY <1>2, CycleParts DEF InDns
<1>6. cyc' \in Cycle /\ cyc'.pc = "assign" /\ cyc'.todo \subseteq Id /\ ~InDns'
  BY <1>3, <1>4, <1>5, CycleParts DEF Cycle, InDns
<1>7. \A x \in Id :
        \/ rows'[x] = rows[x]
        \/ rows[x] \in Row /\ rows'[x] = [rows[x] EXCEPT !.client = c] /\ rows'[x] \in Row
  BY <1>1 DEF IInv, Types, TypeOK, Present, Row
<1>8. rows' \in [Id -> Row \cup {Absent}]
  BY <1>1, <1>7 DEF IInv, Types, TypeOK
<1>9. \A x \in Id : Present(x)' => /\ Present(x) /\ rows'[x].place = rows[x].place
                                   /\ rows'[x].dns_set => rows[x].dns_set
  BY <1>7, RowsPresent DEF Present, Row
<1>10. DnsSetHolds'
  BY <1>2, <1>9, RowsKept
<1>11. HandCurrent' /\ WrittenStays'
  BY <1>6 DEF HandCurrent, WrittenStays
<1>12. Types'
  <2>1. /\ dirty' \subseteq Id /\ edits' \in 0 .. MaxEdits /\ fails' \in 0 .. MaxFails
        /\ a' \in [Name -> SUBSET Server] /\ srv' \in [Name -> SUBSET ServerPort]
    BY <1>2 DEF IInv, Types, TypeOK, bounds
  <2> QED BY <1>2, <1>6, <1>8, <2>1, MappingKept, CycleTypes
<1> QED BY <1>10, <1>11, <1>12 DEF IInv

LEMMA SyncMappingKeeps ==
    ASSUME IInv, NEW c \in Client, SyncMapping(c) \/ MappingFails(c)
    PROVE  IInv'
<1>1. cyc.pc = "assign" /\ cyc' = [cyc EXCEPT !.left = @ \ {c}]
      /\ UNCHANGED <<rows, a, srv, web, dirty>> /\ (UNCHANGED bounds \/ Fail)
  BY DEF SyncMapping, MappingFails, records
<1>2. mapping' \in [Client -> Nat]
  <2>1. Best(c) \in Nat
    BY BestIsServer DEF IInv, Types
  <2> QED BY <2>1 DEF SyncMapping, MappingFails, Mapped, IInv, Types, TypeOK
<1>3. cyc' = [pc |-> "assign", todo |-> cyc.todo, cur |-> cyc.cur, load |-> cyc.load,
              left |-> cyc.left \ {c}]
  BY <1>1, CycleParts
<1>4. cyc.todo \subseteq Id
  BY <1>1, CycleParts DEF InDns
<1>5. cyc' \in Cycle /\ cyc'.pc = "assign" /\ cyc'.todo \subseteq Id /\ ~InDns'
  BY <1>3, <1>4, CycleParts DEF Cycle, InDns
<1>6. Types'
  BY <1>1, <1>2, <1>5, MovedTypes
<1> QED BY <1>1, <1>5, <1>6, CycleMoved DEF IInv

(* What the cycle reads is what the rows say, and no row is dirty any more. *)
LEMMA ReadPendingKeeps == ASSUME IInv, ReadPending PROVE IInv'
<1> DEFINE pending == {i \in Id : NeedsDns(i)}
           todo == {[id |-> i, place |-> rows[i].place] : i \in pending}
<1>1. \A i \in pending : i \in Id /\ Present(i) /\ ~rows[i].dns_set /\ rows[i].place \in Request
  BY DEF NeedsDns, Present, Absent, IInv, Types, TypeOK, Row
<1>2. todo \subseteq Snapshot
  BY <1>1 DEF Snapshot
<1>3. \A r \in todo : r.id \in pending /\ r.place = rows[r.id].place
  OBVIOUS
<1> HIDE DEF pending, todo
<1>4. /\ cyc' = [Idle EXCEPT !.pc = "dns", !.todo = todo] /\ dirty' = dirty \ pending
      /\ UNCHANGED <<rows, a, srv, mapping, web, bounds>>
  BY DEF ReadPending, pending, todo, records
<1>5. cyc' = [pc |-> "dns", todo |-> todo, cur |-> None, load |-> [c \in Client |-> 0], left |-> {}]
  BY <1>4 DEF Idle
<1>6. cyc' \in Cycle /\ cyc'.pc = "dns" /\ cyc'.todo = todo /\ InDns'
  BY <1>2, <1>5 DEF Cycle, InDns
<1>7. Types'
  BY <1>2, <1>4, <1>6, MappingKept, MovedTypes
<1>8. HandCurrent'
  BY <1>3, <1>4, <1>6 DEF HandCurrent, Present
<1>9. WrittenStays'
  BY <1>6 DEF WrittenStays
<1>10. DnsSetHolds'
  BY <1>1, <1>4 DEF IInv, DnsSetHolds, Present, Published, Ip
<1> QED BY <1>7, <1>8, <1>9, <1>10 DEF IInv

LEMMA WrittenHasIt ==
    ASSUME NEW S, NEW v, NEW T \in Written(S, v)
    PROVE  v \in T /\ T \subseteq S \cup {v} /\ T # {}
BY DEF Written

LEMMA PutAKeeps == ASSUME IInv, NEW r \in cyc.todo, PutA(r) PROVE IInv'
<1> DEFINE n == r.place.name
<1>1. cyc.pc = "dns" /\ Ip(r.place) \in Server /\ InDns /\ r \in Snapshot
  BY CycleParts DEF PutA, Known, InDns
<1>2. PICK S \in Written(a[n], Ip(r.place)) : a' = [a EXCEPT ![n] = S]
  BY DEF PutA
<1>3. n \in Name /\ r.place \in Request
  BY <1>1 DEF Snapshot, Name
<1>4. cyc' = [pc |-> IF r.place.srv THEN "srv" ELSE "mark", todo |-> cyc.todo, cur |-> r,
              load |-> cyc.load, left |-> cyc.left]
  BY CycleParts DEF PutA
<1>5. cyc'.pc = (IF r.place.srv THEN "srv" ELSE "mark") /\ cyc'.todo = cyc.todo /\ cyc'.cur = r
      /\ InDns' /\ cyc.todo \subseteq Snapshot
  BY <1>1, <1>4, CycleParts DEF InDns
<1>6. cyc' \in Cycle
  BY <1>1, <1>4, <1>5, CycleParts DEF Cycle
<1>7. UNCHANGED <<rows, srv, mapping, web, bounds>> /\ dirty' = dirty \cup (Named(n) \ {r.id})
  BY DEF PutA
<1>8. a' \in [Name -> SUBSET Server]
  BY <1>1, <1>2, <1>3, WrittenHasIt DEF IInv, Types, TypeOK
<1>9. \A m \in Name : m # n => a'[m] = a[m] /\ srv'[m] = srv[m]
  BY <1>2, <1>7 DEF IInv, Types, TypeOK
<1>10. Ip(r.place) \in a'[n]
  BY <1>2, <1>3, WrittenHasIt DEF IInv, Types, TypeOK
<1>11. Published(r.place) => Published(r.place)'
  BY <1>7, <1>10 DEF Published, Ip
<1>12. dirty' \subseteq Id /\ HandCurrent' /\ DnsSetHolds'
  BY <1>1, <1>5, <1>7, <1>9, <1>11, OthersTold
<1>13. WrittenStays'
  BY <1>5, <1>10 DEF WrittenStays, Published, Ip
<1>14. Types'
  <2>1. /\ rows' \in [Id -> Row \cup {Absent}] /\ srv' \in [Name -> SUBSET ServerPort]
        /\ edits' \in 0 .. MaxEdits /\ fails' \in 0 .. MaxFails
    BY <1>7 DEF IInv, Types, TypeOK, bounds
  <2> QED BY <1>5, <1>6, <1>7, <1>8, <1>12, <2>1, MappingKept, CycleTypes
<1> QED BY <1>12, <1>13, <1>14 DEF IInv

LEMMA PutSrvKeeps == ASSUME IInv, PutSrv PROVE IInv'
<1>0. PICK r \in cyc.todo : r = cyc.cur
  BY DEF PutSrv, IInv, Types, TypeOK
<1> DEFINE n == r.place.name
<1>1. cyc.pc = "srv" /\ InDns /\ r \in cyc.todo /\ cyc.todo \subseteq Snapshot
  BY CycleParts DEF PutSrv, InDns
<1>2. PICK S \in Written(srv[n], r.place.port) : srv' = [srv EXCEPT ![n] = S]
  BY <1>0 DEF PutSrv
<1>3. r \in Snapshot /\ n \in Name /\ r.place \in Request /\ r.place.port \in ServerPort
  BY <1>1 DEF Snapshot, Name, ServerPort
<1>4. cyc' = [pc |-> "mark", todo |-> cyc.todo, cur |-> r, load |-> cyc.load, left |-> cyc.left]
  BY <1>0, CycleParts DEF PutSrv
<1>5. cyc'.pc = "mark" /\ cyc'.todo = cyc.todo /\ cyc'.cur = r /\ InDns'
  BY <1>4 DEF InDns
<1>6. cyc' \in Cycle
  BY <1>1, <1>4, CycleParts DEF Cycle
<1>7. UNCHANGED <<rows, a, mapping, web, bounds>> /\ dirty' = dirty \cup (Named(n) \ {r.id})
  BY <1>0 DEF PutSrv
<1>8. srv' \in [Name -> SUBSET ServerPort]
  BY <1>2, <1>3, WrittenHasIt DEF IInv, Types, TypeOK
<1>9. \A m \in Name : m # n => a'[m] = a[m] /\ srv'[m] = srv[m]
  BY <1>2, <1>7 DEF IInv, Types, TypeOK
<1>10. r.place.port \in srv'[n]
  BY <1>2, <1>3, WrittenHasIt DEF IInv, Types, TypeOK
<1>11. Published(r.place) => Published(r.place)'
  BY <1>7, <1>10 DEF Published, Ip
<1>12. dirty' \subseteq Id /\ HandCurrent' /\ DnsSetHolds'
  BY <1>1, <1>5, <1>7, <1>9, <1>11, OthersTold
<1>13. WrittenStays'
  BY <1>0, <1>1, <1>5, <1>7, <1>10 DEF IInv, WrittenStays, Present, Published, Ip
<1>14. Types'
  <2>1. /\ rows' \in [Id -> Row \cup {Absent}] /\ a' \in [Name -> SUBSET Server]
        /\ edits' \in 0 .. MaxEdits /\ fails' \in 0 .. MaxFails
    BY <1>7 DEF IInv, Types, TypeOK, bounds
  <2> QED BY <1>1, <1>5, <1>6, <1>7, <1>8, <1>12, <2>1, MappingKept, CycleTypes
<1> QED BY <1>12, <1>13, <1>14 DEF IInv

(* The row is marked by its id; if it is not dirty it is still the one whose *)
(* records were written.                                                    *)
LEMMA MarkKeeps == ASSUME IInv, Mark PROVE IInv'
<1> DEFINE i == cyc.cur.id
<1>1. cyc.pc = "mark" /\ InDns /\ cyc.cur \in cyc.todo /\ cyc.todo \subseteq Snapshot
  BY CycleParts DEF Mark, InDns, IInv, Types, TypeOK
<1>2. i \in Id
  BY <1>1 DEF Snapshot
<1>3. rows' = IF Present(i) THEN [rows EXCEPT ![i].dns_set = TRUE] ELSE rows
  BY DEF Mark
<1>4. UNCHANGED <<a, srv, mapping, web, dirty, bounds>>
  BY DEF Mark, records
<1>5. cyc' = [pc |-> "dns", todo |-> cyc.todo \ {cyc.cur}, cur |-> None, load |-> cyc.load,
              left |-> cyc.left]
  BY CycleParts DEF Mark, Done
<1>6. cyc' \in Cycle /\ cyc'.pc = "dns" /\ cyc'.todo \subseteq cyc.todo /\ InDns'
  BY <1>1, <1>5, CycleParts DEF Cycle, InDns
<1>7. \A x \in Id :
        \/ rows'[x] = rows[x]
        \/ x = i /\ rows[x] \in Row /\ rows'[x] = [rows[x] EXCEPT !.dns_set = TRUE] /\ rows'[x] \in Row
  BY <1>3 DEF IInv, Types, TypeOK, Present, Row
<1>8. rows' \in [Id -> Row \cup {Absent}]
  BY <1>3, <1>7 DEF IInv, Types, TypeOK
<1>9. \A x \in Id : Present(x)' => /\ Present(x) /\ rows'[x].place = rows[x].place
                                   /\ x # i => rows'[x].dns_set = rows[x].dns_set
  BY <1>7, RowsPresent DEF Present, Row
<1>10. HandCurrent'
  <2> SUFFICES ASSUME NEW r \in cyc'.todo, r.id \notin dirty', Present(r.id)'
               PROVE  rows'[r.id].place = r.place
    BY DEF HandCurrent
  <2>1. r \in cyc.todo /\ r.id \in Id
    BY <1>1, <1>6 DEF Snapshot
  <2> QED BY <1>1, <1>4, <1>9, <2>1 DEF IInv, HandCurrent
<1>11. WrittenStays'
  BY <1>6 DEF WrittenStays
<1>12. DnsSetHolds'
  <2> SUFFICES ASSUME NEW x \in Id, Present(x)', rows'[x].dns_set, x \notin dirty'
               PROVE  Published(rows[x].place)'
    BY DEF DnsSetHolds
  <2>1. Present(x) /\ rows'[x].place = rows[x].place /\ x \notin dirty
    BY <1>4, <1>9
  <2>2. Published(rows[x].place)
    <3>1. CASE x = i
      BY <1>1, <2>1, <3>1 DEF IInv, HandCurrent, WrittenStays
    <3>2. CASE x # i
      BY <1>9, <2>1, <3>2 DEF IInv, DnsSetHolds
    <3> QED BY <3>1, <3>2
  <2> QED BY <1>4, <2>1, <2>2 DEF Published, Ip
<1>13. Types'
  <2>1. /\ dirty' \subseteq Id /\ edits' \in 0 .. MaxEdits /\ fails' \in 0 .. MaxFails
        /\ a' \in [Name -> SUBSET Server] /\ srv' \in [Name -> SUBSET ServerPort]
    BY <1>4 DEF IInv, Types, TypeOK, bounds
  <2> QED BY <1>1, <1>4, <1>6, <1>8, <2>1, MappingKept, CycleTypes
<1> QED BY <1>10, <1>11, <1>12, <1>13 DEF IInv

(* A row is passed over, for want of an address or after a failure.         *)
LEMMA PassedKeeps ==
    ASSUME IInv, InDns, NEW r, Done(r), UNCHANGED <<rows, records, mapping, web, dirty>>,
           UNCHANGED bounds \/ Fail
    PROVE  IInv'
<1>1. cyc' = [pc |-> "dns", todo |-> cyc.todo \ {r}, cur |-> None, load |-> cyc.load,
              left |-> cyc.left]
  BY CycleParts DEF Done
<1>2. cyc' \in Cycle /\ cyc'.pc = "dns" /\ InDns' /\ cyc'.todo \subseteq cyc.todo
      /\ cyc.todo \subseteq Snapshot
  BY <1>1, CycleParts DEF Cycle, InDns
<1>3. UNCHANGED <<rows, a, srv, mapping, web, dirty>>
  BY DEF records
<1>4. Types'
  BY <1>2, <1>3, MappingKept, MovedTypes
<1> QED BY <1>2, <1>3, <1>4, CycleMoved DEF IInv

LEMMA EndedKeeps == ASSUME IInv, EndCycle \/ AbandonCycle PROVE IInv'
<1>1. cyc' = Idle /\ UNCHANGED <<rows, a, srv, mapping, web, dirty>> /\ (UNCHANGED bounds \/ Fail)
  BY DEF EndCycle, AbandonCycle, records
<1>2. cyc' \in Cycle /\ cyc'.pc = "idle" /\ cyc'.todo = {} /\ ~InDns'
  BY <1>1 DEF Idle, Cycle, InDns
<1>3. Types'
  BY <1>1, <1>2, MappingKept, MovedTypes
<1> QED BY <1>1, <1>2, <1>3, CycleMoved DEF IInv

LEMMA CycleStepKeeps == ASSUME IInv, CycleStep PROVE IInv'
<1>1. ASSUME NEW r \in cyc.todo, Skip(r) PROVE IInv'
  BY <1>1, PassedKeeps DEF Skip, InDns
<1> QED BY <1>1, GetUnassignedKeeps, GetCountsKeeps, ReadPendingKeeps, PutSrvKeeps, MarkKeeps,
           EndedKeeps, AssignOneKeeps, SyncMappingKeeps, PutAKeeps DEF CycleStep

-----------------------------------------------------------------------------
(* Every action of the web API keeps the invariant.                         *)

(* What is left to show of its types.                                       *)
LEMMA WebTypes ==
    ASSUME IInv, UNCHANGED <<mapping, cyc>>,
           rows' \in [Id -> Row \cup {Absent}], dirty' \subseteq Id,
           a' \in [Name -> SUBSET Server], srv' \in [Name -> SUBSET ServerPort],
           web' \in {NoDelete} \cup [pc : {"a", "srv", "row"}, id : Id, name : Name],
           Edit \/ Fail \/ UNCHANGED bounds
    PROVE  Types'
<1>1. edits' \in 0 .. MaxEdits /\ fails' \in 0 .. MaxFails
  BY BoundAssumption DEF IInv, Types, TypeOK, bounds, Edit, Fail
<1> QED BY <1>1 DEF IInv, Types, TypeOK, InDns

LEMMA Touched ==
    ASSUME IInv, NEW i, Touch(i)
    PROVE  /\ dirty' = IF i \in InHand THEN dirty \cup {i} ELSE dirty
           /\ dirty' \subseteq Id
<1>1. InHand \subseteq Id
  BY DEF InHand, IInv, Types, TypeOK, Snapshot
<1> QED BY <1>1 DEF Touch, IInv, Types, TypeOK

LEMMA OtherTypes ==
    ASSUME IInv, UNCHANGED <<records, web, dirty>>
    PROVE  /\ dirty' \subseteq Id
           /\ a' \in [Name -> SUBSET Server] /\ srv' \in [Name -> SUBSET ServerPort]
           /\ web' \in {NoDelete} \cup [pc : {"a", "srv", "row"}, id : Id, name : Name]
BY DEF IInv, Types, TypeOK, records

LEMMA CreateKeeps ==
    ASSUME IInv, NEW q \in Request, NEW c \in Client \cup {None}, Create(q, c)
    PROVE  IInv'
<1> DEFINE i == Min({x \in Id : ~Present(x)})
<1>1. rows' = [rows EXCEPT ![i] = Fresh(q, c)] /\ Touch(i)
      /\ UNCHANGED <<a, srv, mapping, cyc, web>> /\ Edit
  BY DEF Create, records
<1> HIDE DEF i
<1>2. rows' \in [Id -> Row \cup {Absent}]
  BY <1>1, FreshRow DEF IInv, Types, TypeOK
<1>3. /\ \A x \in Id : x # i => rows'[x] = rows[x]
      /\ i \in Id => ~rows'[i].dns_set
  BY <1>1, FreshRow DEF IInv, Types, TypeOK
<1>4. dirty' = (IF i \in InHand THEN dirty \cup {i} ELSE dirty) /\ dirty' \subseteq Id
  BY <1>1, Touched
<1>5. HandCurrent' /\ WrittenStays' /\ DnsSetHolds'
  BY <1>1, <1>3, <1>4, OneRowEdited
<1>6. /\ a' \in [Name -> SUBSET Server] /\ srv' \in [Name -> SUBSET ServerPort]
      /\ web' \in {NoDelete} \cup [pc : {"a", "srv", "row"}, id : Id, name : Name]
  BY <1>1 DEF IInv, Types, TypeOK
<1>7. Types'
  BY <1>1, <1>2, <1>4, <1>6, WebTypes
<1> QED BY <1>5, <1>7 DEF IInv

LEMMA UpdatePlaceKeeps ==
    ASSUME IInv, NEW i \in Id, NEW q \in Request, UpdatePlace(i, q)
    PROVE  IInv'
<1>1. rows[i] \in Row
  BY DEF UpdatePlace, Present, IInv, Types, TypeOK
<1>2. rows' = [rows EXCEPT ![i].place = q, ![i].dns_set = FALSE] /\ Touch(i)
      /\ UNCHANGED <<a, srv, mapping, cyc, web>> /\ Edit
  BY DEF UpdatePlace, DnsSetAfter, records
<1>3. /\ \A x \in Id : x # i => rows'[x] = rows[x]
      /\ rows'[i] \in Row /\ ~rows'[i].dns_set
  BY <1>1, <1>2 DEF IInv, Types, TypeOK, Row
<1>4. rows' \in [Id -> Row \cup {Absent}]
  BY <1>2, <1>3 DEF IInv, Types, TypeOK
<1>5. dirty' = (IF i \in InHand THEN dirty \cup {i} ELSE dirty) /\ dirty' \subseteq Id
  BY <1>2, Touched
<1>6. HandCurrent' /\ WrittenStays' /\ DnsSetHolds'
  BY <1>2, <1>3, <1>5, OneRowEdited
<1>7. /\ a' \in [Name -> SUBSET Server] /\ srv' \in [Name -> SUBSET ServerPort]
      /\ web' \in {NoDelete} \cup [pc : {"a", "srv", "row"}, id : Id, name : Name]
  BY <1>2 DEF IInv, Types, TypeOK
<1>8. Types'
  BY <1>2, <1>4, <1>5, <1>7, WebTypes
<1> QED BY <1>6, <1>8 DEF IInv

(* Edits that leave the place of a row as it is.                            *)
LEMMA OtherEditKeeps ==
    ASSUME IInv, NEW i \in Id, NEW on \in BOOLEAN, NEW c \in Client \cup {None},
           UpdateOther(i, on, c) \/ StartTunnel(i) \/ StopTunnel(i)
    PROVE  IInv'
<1>1. rows[i] \in Row /\ UNCHANGED <<records, mapping, cyc, web, dirty>> /\ Edit
  BY DEF UpdateOther, StartTunnel, StopTunnel, Present, IInv, Types, TypeOK
<1>2. /\ rows' \in [Id -> Row \cup {Absent}]
      /\ \A x \in Id : Present(x)' => /\ Present(x) /\ rows'[x].place = rows[x].place
                                      /\ rows'[x].dns_set => rows[x].dns_set
  <2>1. CASE UpdateOther(i, on, c)
    <3>1. rows' = [rows EXCEPT ![i].online = on, ![i].client = c]
      BY <2>1 DEF UpdateOther
    <3> QED BY <1>1, <3>1, RowsPresent DEF Present, Row, IInv, Types, TypeOK
  <2>2. CASE StartTunnel(i)
    <3>1. rows' = [rows EXCEPT ![i].online = TRUE, ![i].dns_set = FALSE]
      BY <2>2 DEF StartTunnel
    <3> QED BY <1>1, <3>1, RowsPresent DEF Present, Row, IInv, Types, TypeOK
  <2>3. CASE StopTunnel(i)
    <3>1. rows' = [rows EXCEPT ![i].online = FALSE]
      BY <2>3 DEF StopTunnel
    <3> QED BY <1>1, <3>1, RowsPresent DEF Present, Row, IInv, Types, TypeOK
  <2> QED BY <2>1, <2>2, <2>3
<1>3. HandCurrent' /\ WrittenStays' /\ DnsSetHolds'
  BY <1>1, <1>2, RowsKept DEF records
<1>4. Types'
  BY <1>1, <1>2, OtherTypes, WebTypes
<1> QED BY <1>3, <1>4 DEF IInv

(* The steps of delete_tunnel around its two deletes at Cloudflare.         *)
LEMMA DeleteKeeps ==
    ASSUME IInv, (\E i \in Id : DeleteTunnel(i)) \/ DeleteFails \/ DeleteRow
    PROVE  IInv'
<1>1. /\ UNCHANGED <<a, srv, mapping, cyc, dirty>>
      /\ Edit \/ Fail \/ UNCHANGED bounds
  BY DEF DeleteTunnel, DeleteFails, DeleteRow, records
<1>2. rows' = rows \/ rows' = [rows EXCEPT ![web.id] = Absent]
  BY DEF DeleteTunnel, DeleteFails, DeleteRow
<1>3. /\ rows' \in [Id -> Row \cup {Absent}]
      /\ \A x \in Id : Present(x)' => rows'[x] = rows[x]
  BY <1>2 DEF Present, IInv, Types, TypeOK
<1>4. web' \in {NoDelete} \cup [pc : {"a", "srv", "row"}, id : Id, name : Name]
  <2>1. ASSUME NEW i \in Id, DeleteTunnel(i)
        PROVE  web' \in [pc : {"a", "srv", "row"}, id : Id, name : Name]
    <3>1. rows[i].place.name \in Name
      BY <2>1 DEF DeleteTunnel, Present, IInv, Types, TypeOK, Row, Name
    <3> QED BY <2>1, <3>1 DEF DeleteTunnel
  <2>2. CASE DeleteFails
    BY <2>2 DEF DeleteFails, IInv, Types, TypeOK, NoDelete
  <2>3. CASE DeleteRow
    BY <2>3 DEF DeleteRow
  <2> QED BY <2>1, <2>2, <2>3
<1>5. HandCurrent' /\ WrittenStays' /\ DnsSetHolds'
  BY <1>1, <1>3, RowsKept DEF Present
<1>6. /\ dirty' \subseteq Id
      /\ a' \in [Name -> SUBSET Server] /\ srv' \in [Name -> SUBSET ServerPort]
  BY <1>1 DEF IInv, Types, TypeOK
<1>7. Types'
  BY <1>1, <1>3, <1>4, <1>6, WebTypes
<1> QED BY <1>5, <1>7 DEF IInv

LEMMA RemovedShrinks ==
    ASSUME NEW S, NEW T \in Removed(S)
    PROVE  T \subseteq S
BY DEF Removed

(* A record is taken away, and the rows of its name are told.               *)
LEMMA DeleteRecordKeeps == ASSUME IInv, DeleteA \/ DeleteSrv PROVE IInv'
<1> DEFINE n == web.name
<1>1. n \in Name /\ web.id \in Id
  BY DEF DeleteA, DeleteSrv, IInv, Types, TypeOK, NoDelete
<1>2. UNCHANGED <<rows, mapping, cyc, bounds>> /\ dirty' = dirty \cup Named(n)
  BY DEF DeleteA, DeleteSrv
<1>3. /\ a' \in [Name -> SUBSET Server] /\ srv' \in [Name -> SUBSET ServerPort]
      /\ \A m \in Name : m # n => a'[m] = a[m] /\ srv'[m] = srv[m]
  <2>1. CASE DeleteA
    <3>1. PICK S \in Removed(a[n]) : a' = [a EXCEPT ![n] = S] /\ srv' = srv
      BY <2>1 DEF DeleteA
    <3>2. S \subseteq a[n]
      BY RemovedShrinks
    <3> QED BY <1>1, <3>1, <3>2 DEF IInv, Types, TypeOK
  <2>2. CASE DeleteSrv
    <3>1. PICK S \in Removed(srv[n]) : srv' = [srv EXCEPT ![n] = S] /\ a' = a
      BY <2>2 DEF DeleteSrv
    <3>2. S \subseteq srv[n]
      BY RemovedShrinks
    <3> QED BY <1>1, <3>1, <3>2 DEF IInv, Types, TypeOK
  <2> QED BY <2>1, <2>2
<1>4. web' \in [pc : {"a", "srv", "row"}, id : Id, name : Name]
  BY DEF DeleteA, DeleteSrv, IInv, Types, TypeOK, NoDelete
<1>5. rows' \in [Id -> Row \cup {Absent}] /\ dirty' \subseteq Id /\ Named(n) \subseteq Id
  BY <1>2 DEF IInv, Types, TypeOK, Named
<1>6. HandCurrent' /\ WrittenStays' /\ DnsSetHolds'
  <2> DEFINE R == Named(n)
  <2>1. R \in SUBSET Id /\ R = Named(n)
    BY <1>5
  <2> HIDE DEF n, R
  <2> QED BY <1>2, <1>3, <2>1, NameRewritten
<1>7. Types'
  BY <1>2, <1>3, <1>4, <1>5, WebTypes
<1> QED BY <1>6, <1>7 DEF IInv

-----------------------------------------------------------------------------
(* The theorems.                                                            *)

LEMMA InitIInv == Init => IInv
<1> SUFFICES ASSUME Init PROVE IInv
  OBVIOUS
<1>2. rows \in [Id -> Row \cup {Absent}] /\ \A i \in Id : Present(i) => ~rows[i].dns_set
  <2>1. rows \in [Id -> {Absent} \cup {Fresh(q, None) : q \in Request}]
    BY TableAssumption DEF Init
  <2>2. \A i \in Id : rows[i] = Absent \/ (rows[i] \in Row /\ ~rows[i].dns_set)
    BY <2>1, FreshRow
  <2> QED BY <2>1, <2>2 DEF Present
<1>3. cyc \in Cycle /\ cyc.pc = "idle" /\ cyc.todo = {} /\ cyc.load \in [Client -> Nat]
      /\ cyc.left = {}
  BY DEF Init, Idle, Cycle
<1>4. Types
  BY <1>2, <1>3, BoundAssumption DEF Init, Types, TypeOK, None
<1>5. HandCurrent /\ WrittenStays
  BY <1>3 DEF HandCurrent, WrittenStays, InDns
<1>6. DnsSetHolds
  BY <1>2 DEF DnsSetHolds
<1> QED BY <1>4, <1>5, <1>6 DEF IInv

LEMMA NextIInv == IInv /\ [Next]_vars => IInv'
<1> SUFFICES ASSUME IInv, [Next]_vars PROVE IInv'
  OBVIOUS
<1>1. CASE CycleStep
  BY <1>1, CycleStepKeeps
<1>2. CASE WebStep
  <2>1. ASSUME NEW i \in Id, StartTunnel(i) \/ StopTunnel(i) PROVE IInv'
    BY <2>1, OtherEditKeeps
  <2>2. ASSUME NEW i \in Id, NEW on \in BOOLEAN, NEW c \in Client \cup {None}, UpdateOther(i, on, c)
        PROVE  IInv'
    BY <2>2, OtherEditKeeps
  <2> QED BY <1>2, <2>1, <2>2, CreateKeeps, UpdatePlaceKeeps, DeleteKeeps, DeleteRecordKeeps
          DEF WebStep
<1>3. CASE Failure
  <2>1. CASE DnsFails
    <3>1. PICK r : InDns /\ Done(r)
      BY <2>1 DEF DnsFails, InDns
    <3>2. UNCHANGED <<rows, records, mapping, web, dirty>> /\ Fail
      BY <2>1 DEF DnsFails
    <3> QED BY <3>1, <3>2, PassedKeeps
  <2> QED BY <1>3, <2>1, EndedKeeps, DeleteKeeps, SyncMappingKeeps DEF Failure
<1>4. CASE UNCHANGED vars
  <2>1. UNCHANGED <<rows, a, srv, mapping, cyc, web, dirty, edits, fails>>
    BY <1>4 DEF vars, records, bounds
  <2>2. HandCurrent' /\ WrittenStays' /\ DnsSetHolds'
    BY <2>1, RowsKept DEF Present
  <2>3. Types'
    BY <2>1, OtherTypes, WebTypes DEF records, bounds, IInv, Types, TypeOK
  <2> QED BY <2>2, <2>3 DEF IInv
<1> QED BY <1>1, <1>2, <1>3, <1>4 DEF Next

(* The table, the records and the cycle are well typed; in particular every *)
(* client is mapped to a server, the fallback of get_best_server_for_client *)
(* included (manager/src/database.rs, cloudflare.rs).                       *)
THEOREM TypeCorrect == Spec => []TypeOK
<1>1. IInv => TypeOK
  BY DEF IInv, Types
<1> QED BY InitIInv, NextIInv, <1>1, PTL DEF Spec

(* A row marked as set has its records at Cloudflare unless it was edited   *)
(* while the cycle held an older copy, or somebody else wrote its name:     *)
(* update_pending_dns and mark_dns_set against every edit, delete, failure  *)
(* and restart (218-335).                                                   *)
THEOREM DnsSetIsTrue == Spec => []DnsSetHolds
<1>1. IInv => DnsSetHolds
  BY DEF IInv
<1> QED BY InitIInv, NextIInv, <1>1, PTL DEF Spec
=============================================================================
