---------------------------- MODULE PreAuthProofs ----------------------------
(****************************************************************************)
(* Safety of PreAuth for every number of servers and overlapping requests   *)
(* and every choice of the times, as long as a notification is given up     *)
(* before the entry it leaves expires (TimeoutAssumption).                  *)
(*                                                                          *)
(* IInv ties the clocks together: Clocks and CleanUpAhead bound an entry's  *)
(* age by the time of its next clean-up, Requests relates an entry to the   *)
(* request it was stored for, Revocation to the withdrawal of the           *)
(* permission.  Every action has a lemma that it preserves IInv, one step   *)
(* per conjunct; the properties follow at the end.                          *)
(****************************************************************************)
EXTENDS PreAuth, TLAPS

(* The constants as numbers. *)
LEMMA Constants ==
    /\ Ttl \in Nat /\ Ttl > 0 /\ Grace \in Nat /\ Every \in Nat /\ Every > 0
    /\ Timeout \in Nat /\ Timeout < Ttl
  BY TimeAssumption, TimeoutAssumption

(* The initial states. *)
LEMMA InitInv == Init => IInv
<1> SUFFICES ASSUME Init PROVE IInv
  OBVIOUS
<1> USE Constants DEF Init, Never
<1>1. TypeOK
  BY DEF TypeOK, Time
<1>2. OneUse /\ RevokedStaysOut
  BY DEF OneUse, RevokedStaysOut
<1>3. Clocks /\ CleanUpAhead
  BY DEF Clocks, CleanUpAhead
<1>4. Requests /\ Revocation
  BY DEF Requests, Revocation
<1> QED
  BY <1>1, <1>2, <1>3, <1>4 DEF IInv

(* get_servers_for_client finds the client allowed and notifies. *)
LEMMA GetStep ==
    ASSUME IInv, NEW q \in Query, NEW S \in SUBSET Server, Get(q, S) PROVE IInv'
<1> USE Constants DEF IInv, TypeOK, Time, Never, query, history, Get
<1>1. TypeOK'
  OBVIOUS
<1>2. OneUse'
  BY DEF OneUse
<1>3. RevokedStaysOut'
  BY DEF RevokedStaysOut, Clocks, Revocation
<1>4. Clocks'
  BY DEF Clocks
<1>5. CleanUpAhead'
  BY DEF CleanUpAhead, Clocks
<1>6. Requests'
  BY DEF Requests, Clocks, Deadline
<1>7. Revocation'
  BY DEF Revocation, Clocks, Requests, Deadline
<1> QED
  BY <1>1, <1>2, <1>3, <1>4, <1>5, <1>6, <1>7

(* A notification ends, whatever became of it. *)
LEMMA NotifyEndsStep ==
    ASSUME IInv, NEW q \in Query, NEW s \in Server, NotifyEnds(q, s) PROVE IInv'
<1> USE Constants DEF IInv, TypeOK, Time, Never, query, history, NotifyEnds
<1>1. TypeOK'
  OBVIOUS
<1>2. OneUse'
  BY DEF OneUse
<1>3. RevokedStaysOut'
  BY DEF RevokedStaysOut, Clocks, Revocation
<1>4. Clocks'
  BY DEF Clocks
<1>5. CleanUpAhead'
  BY DEF CleanUpAhead, Clocks
<1>6. Requests'
  BY DEF Requests, Clocks, Deadline
<1>7. Revocation'
  BY DEF Revocation, Clocks, Requests, Deadline
<1> QED
  BY <1>1, <1>2, <1>3, <1>4, <1>5, <1>6, <1>7

(* The manager answers before the deadline. *)
LEMMA AnswerStep ==
    ASSUME IInv, NEW q \in Query, Answer(q) PROVE IInv'
<1> USE Constants DEF IInv, TypeOK, Time, Never, query, history, Answer, Deadline
<1>1. TypeOK'
  OBVIOUS
<1>2. OneUse'
  BY DEF OneUse
<1>3. RevokedStaysOut'
  BY DEF RevokedStaysOut, Clocks, Revocation
<1>4. Clocks'
  BY DEF Clocks
<1>5. CleanUpAhead'
  BY DEF CleanUpAhead, Clocks
<1>6. Requests'
  BY DEF Requests, Clocks, Deadline
<1>7. Revocation'
  BY DEF Revocation, Clocks, Requests, Deadline
<1> QED
  BY <1>1, <1>2, <1>3, <1>4, <1>5, <1>6, <1>7

(* The permission changes: what is under way began before. *)
LEMMA SetAllowedStep ==
    ASSUME IInv, NEW b \in BOOLEAN, SetAllowed(b) PROVE IInv'
<1> USE Constants DEF IInv, TypeOK, Time, Never, query, history, SetAllowed
<1>1. TypeOK'
  OBVIOUS
<1>2. OneUse'
  BY DEF OneUse
<1>3. RevokedStaysOut'
  BY DEF RevokedStaysOut, Clocks, Revocation
<1>4. Clocks'
  BY DEF Clocks
<1>5. CleanUpAhead'
  BY DEF CleanUpAhead, Clocks
<1>6. Requests'
  BY DEF Requests, Clocks, Deadline
<1>7. Revocation'
  BY DEF Revocation, Clocks, Requests, Deadline
<1> QED
  BY <1>1, <1>2, <1>3, <1>4, <1>5, <1>6, <1>7

(* A server stores or renews the entry. *)
LEMMA HandlePreAuthStep ==
    ASSUME IInv, NEW q \in Query, NEW s \in Server, HandlePreAuth(q, s) PROVE IInv'
<1> USE Constants DEF IInv, TypeOK, Time, Never, query, history, HandlePreAuth, Deadline
<1>1. TypeOK'
  OBVIOUS
<1>2. OneUse'
  BY DEF OneUse
<1>3. RevokedStaysOut'
  BY DEF RevokedStaysOut, Clocks, Revocation
<1>4. Clocks'
  BY DEF Clocks
<1>5. CleanUpAhead'
  BY DEF CleanUpAhead, Clocks
<1>6. Requests'
  BY DEF Requests, Clocks, Deadline
<1>7. Revocation'
  BY DEF Revocation, Clocks, Requests, Deadline
<1> QED
  BY <1>1, <1>2, <1>3, <1>4, <1>5, <1>6, <1>7

(* A server uses the entry up, or finds it expired. *)
LEMMA AuthenticateStep ==
    ASSUME IInv, NEW q \in Query, NEW s \in Server, Authenticate(q, s) PROVE IInv'
<1> USE Constants DEF IInv, TypeOK, Time, Never, query, history, Authenticate, Valid
<1>1. TypeOK'
  BY DEF OneUse
<1>2. OneUse'
  BY DEF OneUse
<1>3. RevokedStaysOut'
  BY DEF RevokedStaysOut, Clocks, Revocation
<1>4. Clocks'
  BY DEF Clocks
<1>5. CleanUpAhead'
  BY DEF CleanUpAhead, Clocks
<1>6. Requests'
  BY DEF Requests, Clocks, Deadline
<1>7. Revocation'
  BY DEF Revocation, Clocks, Requests, Deadline
<1> QED
  BY <1>1, <1>2, <1>3, <1>4, <1>5, <1>6, <1>7

(* The clean-up drops what has outlived its grace. *)
LEMMA CleanUpStep ==
    ASSUME IInv, NEW s \in Server, CleanUp(s) PROVE IInv'
<1> USE Constants DEF IInv, TypeOK, Time, Never, query, history, CleanUp, Retained
<1>1. TypeOK'
  OBVIOUS
<1>2. OneUse'
  BY DEF OneUse
<1>3. RevokedStaysOut'
  BY DEF RevokedStaysOut, Clocks, Revocation
<1>4. Clocks'
  BY DEF Clocks
<1>5. CleanUpAhead'
  BY DEF CleanUpAhead, Clocks
<1>6. Requests'
  BY DEF Requests, Clocks, Deadline
<1>7. Revocation'
  BY DEF Revocation, Clocks, Requests, Deadline
<1> QED
  BY <1>1, <1>2, <1>3, <1>4, <1>5, <1>6, <1>7

(* Time passes: no deadline and no clean-up is missed. *)
LEMMA TickStep ==
    ASSUME IInv, Tick PROVE IInv'
<1> USE Constants DEF IInv, TypeOK, Time, Never, query, history, Tick, Deadline
<1>1. TypeOK'
  OBVIOUS
<1>2. OneUse'
  BY DEF OneUse
<1>3. RevokedStaysOut'
  BY DEF RevokedStaysOut, Clocks, Revocation
<1>4. Clocks'
  BY DEF Clocks
<1>5. CleanUpAhead'
  BY DEF CleanUpAhead, Clocks
<1>6. Requests'
  BY DEF Requests, Clocks, Deadline
<1>7. Revocation'
  BY DEF Revocation, Clocks, Requests, Deadline
<1> QED
  BY <1>1, <1>2, <1>3, <1>4, <1>5, <1>6, <1>7

(* A step that changes nothing. *)
LEMMA StutterStep ==
    ASSUME IInv, UNCHANGED vars PROVE IInv'
  BY DEF IInv, TypeOK, OneUse, RevokedStaysOut, Clocks, CleanUpAhead, Requests,
         Revocation, Deadline, vars, query, history

(* Every step preserves the inductive invariant. *)
LEMMA NextInv == IInv /\ [Next]_vars => IInv'
<1> SUFFICES ASSUME IInv, [Next]_vars PROVE IInv'
  OBVIOUS
<1>1. CASE \E q \in Query, S \in SUBSET Server : Get(q, S)
  BY <1>1, GetStep
<1>2. CASE \E q \in Query, s \in Server : HandlePreAuth(q, s)
  BY <1>2, HandlePreAuthStep
<1>3. CASE \E q \in Query, s \in Server : NotifyEnds(q, s)
  BY <1>3, NotifyEndsStep
<1>4. CASE \E q \in Query, s \in Server : Authenticate(q, s)
  BY <1>4, AuthenticateStep
<1>5. CASE \E q \in Query : Answer(q)
  BY <1>5, AnswerStep
<1>6. CASE \E b \in BOOLEAN : SetAllowed(b)
  BY <1>6, SetAllowedStep
<1>7. CASE \E s \in Server : CleanUp(s)
  BY <1>7, CleanUpStep
<1>8. CASE Tick
  BY <1>8, TickStep
<1>9. CASE ClockStops \/ UNCHANGED vars
  BY <1>9, StutterStep DEF ClockStops
<1> QED
  BY <1>1, <1>2, <1>3, <1>4, <1>5, <1>6, <1>7, <1>8, <1>9 DEF Next

(* The inductive invariant holds: of manager, cache and clean-up together,  *)
(* for any number of servers and requests of the client.                    *)
THEOREM Invariance == Spec => []IInv
<1> QED
  BY InitInv, NextInv, PTL DEF Spec

(* Type correctness; that credit stays a number of connections is already   *)
(* the one-time use of an entry.                                            *)
THEOREM TypeCorrect == Spec => []TypeOK
<1>1. IInv => TypeOK
  BY DEF IInv
<1> QED
  BY <1>1, Invariance, PTL

(* handle_client lets no more connections in than the manager has granted.  *)
THEOREM EntriesAreUsedOnce == Spec => []OneUse
<1>1. IInv => OneUse
  BY DEF IInv
<1> QED
  BY <1>1, Invariance, PTL

(* A client banned in client_server_mappings gets no connection later than  *)
(* Timeout + Ttl, though no server hears of the ban.                        *)
THEOREM RevokedClientsStayOut == Spec => []RevokedStaysOut
<1>1. IInv => RevokedStaysOut
  BY DEF IInv
<1> QED
  BY <1>1, Invariance, PTL

(* The answer of get_servers_for_client leaves Ttl - Timeout to connect to  *)
(* every server that has handled its notification.                          *)
THEOREM AnswersLeaveTime == Spec => []AnswerLeavesTime
<1>1. IInv => AnswerLeavesTime
  <2> SUFFICES ASSUME IInv, NEW q \in Query, q_pc[q] = "answered", NEW s \in q_stored[q],
                      now - q_at[q] < Ttl - Timeout, last_accept[s] < q_start[q]
               PROVE  Valid(s)
    BY DEF AnswerLeavesTime, IInv, TypeOK, Time, Never
  <2>1. s \in Server /\ now \in Nat /\ cache[s] \in Int /\ q_start[q] \in Nat
        /\ q_at[q] \in Int /\ last_accept[s] \in Int
    BY DEF IInv, TypeOK, Time, Never, Requests
  <2>2. now < q_start[q] + Ttl
    BY <2>1, Constants DEF IInv, Requests, Deadline
  <2>3. cache[s] >= q_start[q]
    BY <2>1, <2>2, Constants DEF IInv, Requests
  <2> QED
    BY <2>1, <2>2, <2>3, Constants DEF Valid, Never
<1> QED
  BY <1>1, Invariance, PTL

(* cleanup_pre_auth_cache bounds the age of every entry.                    *)
THEOREM EntriesDoExpire == Spec => []EntriesExpire
<1>1. IInv => EntriesExpire
  BY Constants DEF IInv, TypeOK, Time, Never, Clocks, CleanUpAhead, EntriesExpire
<1> QED
  BY <1>1, Invariance, PTL
=============================================================================
