------------------------- MODULE RegistrationProofs -------------------------
(***************************************************************************)
(* Proofs about Registration, for any number of connections and nicks, any *)
(* history and marker capacity, and with the challenge on or off.          *)
(***************************************************************************)
EXTENDS Registration, SequenceTheorems, TLAPS

USE ConnsAssumption, NicksAssumption, ChallengeAssumption

-----------------------------------------------------------------------------
(* Type correctness                                                        *)

\* evict keeps the tables well typed.
LEMMA EvictType ==
  ASSUME TypeOK, NEW S, evict(S)
  PROVE  /\ unreg' \in SUBSET Conns
         /\ users' \in [Nicks -> Conns \cup {None}]
         /\ cx' \in [Conns -> CxType]
BY DEF TypeOK, evict, CxType, FreshCx

\* maybe_complete keeps the tables well typed, whatever record its caller made.
LEMMA CompleteType ==
  ASSUME TypeOK, NEW c \in Conns, NEW rec \in CxType, NEW marks,
         maybe_complete(c, rec, marks)
  PROVE  /\ unreg' \in SUBSET Conns
         /\ users' \in [Nicks -> Conns \cup {None}]
         /\ cx' \in [Conns -> CxType]
         /\ welcomes' \in [Conns -> Nat]
<1> USE DEF TypeOK
<1>1. CASE Parked(c, rec)
  BY <1>1 DEF Parked
<1>2. CASE Parked(c, [rec EXCEPT !.challenged = TRUE])
  <2>1. [rec EXCEPT !.challenged = TRUE] \in CxType
    BY DEF CxType
  <2> QED BY <1>2, <2>1 DEF Parked
<1>3. CASE Ready(c, rec) /\ register(c, rec)
  <2>1. rec.pendingNick \in Nicks /\ rec.negotiating \in BOOLEAN
    BY <1>3 DEF Ready, CxType
  <2>2. [rec EXCEPT !.registered = TRUE, !.nick = rec.pendingNick,
                    !.gated = rec.negotiating] \in CxType
    BY <2>1 DEF CxType
  <2> QED BY <1>3, <2>1, <2>2 DEF register
<1> QED BY <1>1, <1>2, <1>3 DEF maybe_complete

\* apply_rename keeps the tables well typed and the history within its cap.
LEMMA RenameType ==
  ASSUME TypeOK, NEW c \in Conns, NEW k \in Nicks, cx[c].nick \in Nicks,
         apply_rename(c, k)
  PROVE  /\ users' \in [Nicks -> Conns \cup {None}]
         /\ cx' \in [Conns -> CxType]
         /\ hist' \in Seq(HistEntry) /\ Len(hist') <= HistoryCap
<1>1. users' \in [Nicks -> Conns \cup {None}]
  BY DEF apply_rename, TypeOK
<1>2. cx' \in [Conns -> CxType]
  <2>1. cx[c] \in CxType
    BY DEF TypeOK
  <2>2. [cx[c] EXCEPT !.nick = k] \in CxType
    BY <2>1 DEF CxType
  <2> QED BY <2>2 DEF apply_rename, TypeOK
<1>3. hist' \in Seq(HistEntry) /\ Len(hist') <= HistoryCap
  <2> DEFINE e == [old |-> cx[c].nick, new |-> k]
             h == Append(hist, e)
  <2>1. e \in HistEntry
    BY DEF HistEntry
  <2>2. h \in Seq(HistEntry) /\ Len(h) = Len(hist) + 1 /\ h # << >>
    <3>1. hist \in Seq(HistEntry)
      BY DEF TypeOK
    <3> HIDE DEF e
    <3> QED BY <2>1, <3>1
  <2>3. hist' = IF Len(h) > HistoryCap THEN Tail(h) ELSE h
    BY DEF apply_rename, record_rename
  <2> HIDE DEF h
  <2> QED BY <2>2, <2>3, HistoryAssumption DEF TypeOK
<1> QED BY <1>1, <1>2, <1>3

\* begin_reclaim keeps the markers well typed.
LEMMA ReclaimType ==
  ASSUME TypeOK, NEW h \in Conns, NEW p \in Seq(Request), NEW r \in Seq(Request)
  PROVE  begin_reclaim(h, p, r) \in [Conns -> MarkType]
<1>1. mark[h].pairings \o p \in Seq(Request) /\ mark[h].renames \o r \in Seq(Request)
  BY DEF TypeOK, MarkType
<1> QED BY <1>1 DEF TypeOK, begin_reclaim, MarkType

\* The requests of a marker make a well-typed agenda for the tick.
LEMMA RequestsType ==
  ASSUME NEW b \in BOOLEAN, NEW s \in Seq(Request)
  PROVE  Requests(b, s) \in Seq(TodoType)
<1>0. \A i \in 1 .. Len(s) : s[i] \in Request
  BY ElementOfSeq
<1>1. \A i \in 1 .. Len(s) : s[i].id \in Conns /\ s[i].nick \in Nicks
  BY <1>0 DEF Request
<1>2. \A i \in 1 .. Len(s) :
        [pairing |-> b, id |-> s[i].id, nick |-> s[i].nick] \in TodoType
  BY <1>1 DEF TodoType
<1>3. DOMAIN s = 1 .. Len(s) /\ Len(s) \in Nat
  OBVIOUS
<1> QED BY <1>2, <1>3 DEF Requests

\* The next request of a tick names a connection and a nick.
LEMMA TodoHead ==
  ASSUME TypeOK, todo # << >>
  PROVE  /\ Head(todo).id \in Conns /\ Head(todo).nick \in Nicks
         /\ Tail(todo) \in Seq(TodoType)
<1>1. Head(todo) \in TodoType /\ Tail(todo) \in Seq(TodoType)
  BY HeadTailProperties DEF TypeOK
<1> QED BY <1>1 DEF TodoType

\* What the records USER, PONG and NICK hand to maybe_complete share with the
\* stored one.
Kept == {"registered", "nick", "negotiating", "gated"}

\* USER fills its own slot and nothing else.
LEMMA UserRecord ==
  ASSUME TypeOK, NEW c \in Conns
  PROVE  LET rec == [cx[c] EXCEPT !.pendingUser = TRUE]
         IN  rec \in CxType /\ \A f \in Kept \cup {"verified"} : rec[f] = cx[c][f]
<1>1. cx[c] \in CxType
  BY DEF TypeOK
<1> QED BY <1>1 DEF CxType, Kept

\* PONG marks the record verified and changes nothing else.
LEMMA PongRecord ==
  ASSUME TypeOK, NEW c \in Conns
  PROVE  LET rec == [cx[c] EXCEPT !.verified = TRUE]
         IN  rec \in CxType /\ rec.verified /\ \A f \in Kept : rec[f] = cx[c][f]
<1>1. cx[c] \in CxType
  BY DEF TypeOK
<1> QED BY <1>1 DEF CxType, Kept

\* NICK fills the pending nick and nothing else.
LEMMA PendingRecord ==
  ASSUME TypeOK, NEW c \in Conns, NEW k \in Nicks
  PROVE  /\ Pending(c, k) \in CxType
         /\ \A f \in Kept \cup {"verified"} : Pending(c, k)[f] = cx[c][f]
<1>1. cx[c] \in CxType
  BY DEF TypeOK
<1> QED BY <1>1 DEF CxType, Pending, Kept

\* Every step keeps every variable in its type.  The table invariant is needed
\* for the history: apply_rename records the nick of a registered record.
LEMMA TypeStep == TypeOK /\ NickTable /\ [Next]_vars => TypeOK'
<1> SUFFICES ASSUME TypeOK, NickTable, [Next]_vars PROVE TypeOK'
  OBVIOUS
<1>1. ASSUME NEW c \in Conns, Park(c) PROVE TypeOK'
  BY <1>1 DEF Park, TypeOK, FreshCx, CxType
<1>2. ASSUME NEW c \in Conns, Close(c) PROVE TypeOK'
  BY <1>2, EvictType DEF Close, TypeOK
<1>3. ASSUME NEW c \in Conns, Kill(c) PROVE TypeOK'
  BY <1>3, EvictType DEF Kill, TypeOK
<1>4. ASSUME NEW c \in Conns, OtherLine(c) PROVE TypeOK'
  BY <1>4 DEF OtherLine, TypeOK
<1>5. ASSUME NEW c \in Conns, User(c) PROVE TypeOK'
  BY <1>5, UserRecord, CompleteType DEF User, TypeOK
<1>6. ASSUME NEW c \in Conns, CapBegin(c) PROVE TypeOK'
  <2>1. cx[c] \in CxType
    BY DEF TypeOK
  <2>2. [cx[c] EXCEPT !.negotiating = TRUE] \in CxType
    BY <2>1 DEF CxType
  <2> QED BY <1>6, <2>2 DEF CapBegin, TypeOK
<1>7. ASSUME NEW c \in Conns, CapEnd(c) PROVE TypeOK'
  <2> DEFINE owed == cx[c].registered /\ cx[c].gated
  <2>1. cx[c] \in CxType
    BY DEF TypeOK
  <2>2. \A g \in BOOLEAN :
          [cx[c] EXCEPT !.negotiating = FALSE, !.gated = g] \in CxType
    BY <2>1 DEF CxType
  <2>3. cx' = [cx EXCEPT ![c] = [cx[c] EXCEPT !.negotiating = FALSE,
                                              !.gated = IF owed THEN FALSE ELSE cx[c].gated]]
    BY <1>7 DEF CapEnd, TypeOK
  <2>4. (IF owed THEN FALSE ELSE cx[c].gated) \in BOOLEAN
    BY <2>1 DEF CxType
  <2>5. cx' \in [Conns -> CxType]
    BY <2>2, <2>3, <2>4 DEF TypeOK
  <2>6. welcomes' \in [Conns -> Nat]
    BY <1>7 DEF CapEnd, TypeOK
  <2> QED BY <1>7, <2>5, <2>6 DEF CapEnd, TypeOK
<1>8. ASSUME NEW c \in Conns, Pong(c) PROVE TypeOK'
  <2>3. /\ unreg' \in SUBSET Conns
        /\ users' \in [Nicks -> Conns \cup {None}]
        /\ cx' \in [Conns -> CxType]
        /\ welcomes' \in [Conns -> Nat]
    BY <1>8, PongRecord, CompleteType DEF Pong, TypeOK
  <2>4. mark' \in [Conns -> MarkType]
    BY <1>8 DEF Pong, TypeOK, MarkType, NoMark
  <2> QED BY <1>8, <2>3, <2>4 DEF Pong, TypeOK
<1>9. ASSUME NEW c \in Conns, NEW k \in Nicks, NickInUse(c, k) PROVE TypeOK'
  BY <1>9 DEF NickInUse, TypeOK
<1>10. ASSUME NEW c \in Conns, NEW k \in Nicks, NickRename(c, k) PROVE TypeOK'
  <2>1. cx[c].nick \in Nicks
    BY <1>10 DEF NickRename, Registered, NickTable
  <2> QED BY <1>10, <2>1, RenameType DEF NickRename, TypeOK
<1>11. ASSUME NEW c \in Conns, NEW k \in Nicks, NEW h \in Conns, NickContest(c, k, h)
       PROVE  TypeOK'
  <2>1. <<[id |-> c, nick |-> k]>> \in Seq(Request) /\ << >> \in Seq(Request)
    BY DEF Request
  <2>2. mark' \in [Conns -> MarkType]
    BY <1>11, <2>1, ReclaimType DEF NickContest
  <2> QED BY <1>11, <2>2 DEF NickContest, TypeOK
<1>13. ASSUME NEW c \in Conns, NEW k \in Nicks, NickPair(c, k) PROVE TypeOK'
  BY <1>13, PendingRecord, CompleteType DEF NickPair, TypeOK
<1>14. ASSUME NEW c \in Conns, NEW k \in Nicks, NEW h \in Conns, NickPairContest(c, k, h)
       PROVE  TypeOK'
  <2>1. <<[id |-> c, nick |-> k]>> \in Seq(Request) /\ << >> \in Seq(Request)
    BY DEF Request
  <2>2. mark' \in [Conns -> MarkType]
    BY <1>14, <2>1, ReclaimType DEF NickPairContest
  <2>3. /\ unreg' \in SUBSET Conns
        /\ users' \in [Nicks -> Conns \cup {None}]
        /\ cx' \in [Conns -> CxType]
        /\ welcomes' \in [Conns -> Nat]
    BY <1>14, PendingRecord, CompleteType DEF NickPairContest
  <2> QED BY <1>14, <2>2, <2>3 DEF NickPairContest, TypeOK
<1>15. ASSUME NEW w \in Windows, NEW c \in Conns, Elapse(w, c) PROVE TypeOK'
  BY <1>15 DEF Elapse, Clock, TypeOK
<1>16. CASE HistoryAges
  <2>1. Tail(hist) \in Seq(HistEntry) /\ Len(Tail(hist)) <= HistoryCap
    BY <1>16, HistoryAssumption, HeadTailProperties DEF HistoryAges, TypeOK
  <2> QED BY <1>16, <2>1 DEF HistoryAges, TypeOK
<1>17. CASE liveness_tick
  <2>1. PICK S : evict(S)
    BY <1>17 DEF liveness_tick
  <2>2. pingOut' \in SUBSET Conns
    BY <1>17 DEF liveness_tick, Silent, TypeOK
  <2> QED BY <1>17, <2>1, <2>2, EvictType DEF liveness_tick, TypeOK
<1>18. CASE ReclaimStart
  BY <1>18 DEF ReclaimStart, TypeOK
<1>19. ASSUME NEW h \in Conns, ReclaimHolder(h) PROVE TypeOK'
  <2>1. mark[h].pairings \in Seq(Request) /\ mark[h].renames \in Seq(Request)
    BY DEF TypeOK, MarkType
  <2>2. todo' \in Seq(TodoType)
    BY <1>19, <2>1, RequestsType, ConcatProperties DEF ReclaimHolder
  <2>3. mark' \in [Conns -> MarkType]
    BY <1>19 DEF ReclaimHolder, TypeOK, MarkType, NoMark
  <2> QED BY <1>19, <2>2, <2>3, EvictType DEF ReclaimHolder, TypeOK
<1>21. CASE ReclaimPairing
  <2>1. cx[Head(todo).id] \in CxType
    BY <1>21, TodoHead DEF ReclaimPairing, TypeOK
  <2> QED BY <1>21, <2>1, TodoHead, CompleteType DEF ReclaimPairing, TypeOK
<1>22. CASE ReclaimRename
  <2> DEFINE c == Head(todo).id
             k == Head(todo).nick
  <2>1. c \in Conns /\ k \in Nicks /\ todo' \in Seq(TodoType)
    BY <1>22, TodoHead DEF ReclaimRename
  <2>2. CASE Registered(c) /\ nick_free(k)
    <3>1. cx[c].nick \in Nicks
      BY <2>1, <2>2 DEF Registered, NickTable
    <3>2. apply_rename(c, k)
      BY <1>22, <2>2 DEF ReclaimRename
    <3> QED BY <1>22, <2>1, <3>1, <3>2, RenameType DEF ReclaimRename, TypeOK
  <2>3. CASE ~(Registered(c) /\ nick_free(k))
    BY <1>22, <2>1, <2>3 DEF ReclaimRename, TypeOK
  <2> QED BY <2>2, <2>3
<1>23. CASE UNCHANGED vars
  BY <1>23 DEF vars, TypeOK
<1> QED BY <1>1, <1>2, <1>3, <1>4, <1>5, <1>6, <1>7, <1>8, <1>9, <1>10, <1>11, <1>13,
           <1>14, <1>15, <1>16, <1>17, <1>18, <1>19, <1>21, <1>22, <1>23
        DEF Next, Command, reclaim_tick

-----------------------------------------------------------------------------
(* The tables                                                              *)

\* With consistent tables, a registered record is live, and a live record that
\* is not registered is in unreg.
LEMMA LiveCases ==
  ASSUME TypeOK, NickTable, NEW c \in Conns
  PROVE  /\ Live(c) <=> (c \in unreg \/ cx[c].registered)
         /\ c \in unreg => ~cx[c].registered
<1>1. ASSUME cx[c].registered PROVE Live(c) /\ c \notin unreg
  <2>1. cx[c].nick \in Nicks /\ users[cx[c].nick] = c
    BY <1>1 DEF NickTable
  <2>2. users[cx[c].nick] # None
    BY <2>1
  <2> QED BY <2>1, <2>2 DEF NickTable, Live
<1>2. ASSUME Live(c), c \notin unreg PROVE cx[c].registered
  <2>1. PICK k \in Nicks : users[k] = c
    BY <1>2 DEF Live
  <2> QED BY <2>1 DEF NickTable
<1>3. c \in unreg => Live(c)
  BY DEF Live
<1> QED BY <1>1, <1>2, <1>3

\* evict takes out exactly the connections it is given.
LEMMA EvictTable ==
  ASSUME TypeOK, NickTable, NEW S \in SUBSET Conns, evict(S)
  PROVE  /\ NickTable'
         /\ \A c \in Conns : Live(c)' <=> Live(c) /\ c \notin S
<1>1. \A k \in Nicks : users'[k] = IF users[k] \in S THEN None ELSE users[k]
  BY DEF evict
<1>2. \A c \in Conns : cx'[c] = IF c \in S THEN FreshCx ELSE cx[c]
  BY DEF evict
<1>3. unreg' = unreg \ S
  BY DEF evict
<1>4. ~FreshCx.registered
  BY DEF FreshCx
<1>5. NickTable'
  <2>1. ASSUME NEW k \in Nicks, users'[k] # None
        PROVE  users'[k] \notin unreg' /\ cx'[users'[k]].registered /\ cx'[users'[k]].nick = k
    <3>1. users'[k] = users[k] /\ users[k] \notin S /\ users[k] \in Conns
      BY <1>1, <2>1 DEF TypeOK
    <3> QED BY <1>2, <1>3, <3>1, <2>1 DEF NickTable
  <2>2. ASSUME NEW c \in Conns, cx'[c].registered
        PROVE  cx'[c].nick \in Nicks /\ users'[cx'[c].nick] = c
    <3>1. c \notin S /\ cx'[c] = cx[c]
      BY <1>2, <1>4, <2>2
    <3> QED BY <1>1, <2>2, <3>1 DEF NickTable
  <2> QED BY <2>1, <2>2 DEF NickTable
<1>6. \A c \in Conns : Live(c)' <=> Live(c) /\ c \notin S
  BY <1>1, <1>3 DEF Live
<1> QED BY <1>5, <1>6

\* maybe_complete keeps the tables consistent and everybody where they were,
\* or in the user table instead of unreg.
LEMMA CompleteTable ==
  ASSUME TypeOK, NickTable, NEW c \in Conns, NEW rec \in CxType, NEW marks,
         rec.registered = cx[c].registered, rec.nick = cx[c].nick,
         maybe_complete(c, rec, marks)
  PROVE  /\ NickTable'
         /\ \A d \in Conns : Live(d)' <=> Live(d)
<1> USE DEF TypeOK
<1>1. ASSUME NEW r, r.registered = cx[c].registered, r.nick = cx[c].nick, Parked(c, r)
      PROVE  /\ NickTable'
             /\ \A d \in Conns : Live(d)' <=> Live(d)
  <2>1. \A d \in Conns : (cx'[d].registered <=> cx[d].registered) /\ cx'[d].nick = cx[d].nick
    BY <1>1 DEF Parked
  <2>2. unreg' = unreg /\ users' = users
    BY <1>1 DEF Parked
  <2>3. NickTable'
    <3>1. \A k \in Nicks : users'[k] # None => users[k] \in Conns
      BY <2>2
    <3> QED BY <2>1, <2>2, <3>1 DEF NickTable
  <2> QED BY <2>2, <2>3 DEF Live
<1>2. CASE Parked(c, rec)
  BY <1>1, <1>2
<1>3. CASE Parked(c, [rec EXCEPT !.challenged = TRUE])
  <2> DEFINE r == [rec EXCEPT !.challenged = TRUE]
  <2>1. r.registered = rec.registered /\ r.nick = rec.nick
    BY DEF CxType
  <2> HIDE DEF r
  <2>2. Parked(c, r)
    BY <1>3 DEF r
  <2> QED BY <1>1, <2>1, <2>2
<1>4. CASE Ready(c, rec) /\ nick_free(rec.pendingNick) /\ register(c, rec)
  <2> DEFINE n == rec.pendingNick
             r == [rec EXCEPT !.registered = TRUE, !.nick = n, !.gated = rec.negotiating]
  <2>1. n \in Nicks /\ users[n] = None /\ c \in unreg /\ ~cx[c].registered
    BY <1>4, LiveCases DEF Ready, nick_free, CxType
  <2>2. r.registered /\ r.nick = n
    BY DEF CxType
  <2>3. /\ unreg' = unreg \ {c}
        /\ users' = [users EXCEPT ![n] = c]
        /\ cx' = [cx EXCEPT ![c] = r]
    BY <1>4 DEF register
  <2> HIDE DEF n, r
  <2>4. NickTable'
    BY <2>1, <2>2, <2>3 DEF NickTable
  <2>5. \A d \in Conns : Live(d)' <=> Live(d)
    BY <2>1, <2>3 DEF Live
  <2> QED BY <2>4, <2>5
<1> QED BY <1>2, <1>3, <1>4 DEF maybe_complete

\* apply_rename to a free nick keeps the tables consistent.
LEMMA RenameTable ==
  ASSUME TypeOK, NickTable, NEW c \in Conns, NEW k \in Nicks,
         cx[c].registered, users[k] = None, unreg' = unreg, apply_rename(c, k)
  PROVE  /\ NickTable'
         /\ \A d \in Conns : Live(d)' <=> Live(d)
<1> USE DEF TypeOK
<1> DEFINE j == cx[c].nick
<1>1. j \in Nicks /\ users[j] = c /\ c \notin unreg
  BY DEF NickTable
<1>2. users' = [users EXCEPT ![j] = None, ![k] = c]
  BY DEF apply_rename
<1>3. \A d \in Conns : /\ cx'[d].registered <=> cx[d].registered
                       /\ cx'[d].nick = IF d = c THEN k ELSE cx[d].nick
  <2>1. cx' = [cx EXCEPT ![c] = [cx[c] EXCEPT !.nick = k]] /\ cx[c] \in CxType
    BY DEF apply_rename
  <2> QED BY <2>1 DEF CxType
<1> HIDE DEF j
<1>4. \A d \in Conns \ {c} : \A i \in Nicks : users'[i] = d <=> users[i] = d
  BY <1>1, <1>2
<1>5. NickTable'
  <2>1. ASSUME NEW i \in Nicks, users'[i] # None
        PROVE  users'[i] \notin unreg' /\ cx'[users'[i]].registered /\ cx'[users'[i]].nick = i
    <3>1. CASE users'[i] = c
      <4>1. i = k
        BY <1>1, <1>2, <3>1 DEF NickTable, j
      <4> QED BY <1>1, <1>3, <3>1, <4>1
    <3>2. CASE users'[i] # c
      <4>1. users'[i] = users[i] /\ users[i] \in Conns \ {c}
        BY <1>1, <1>2, <2>1, <3>2
      <4> QED BY <1>3, <2>1, <4>1 DEF NickTable
    <3> QED BY <3>1, <3>2
  <2>2. ASSUME NEW d \in Conns, cx'[d].registered
        PROVE  cx'[d].nick \in Nicks /\ users'[cx'[d].nick] = d
    <3>1. CASE d = c
      BY <1>2, <1>3, <3>1
    <3>2. CASE d # c
      <4>1. cx[d].registered /\ cx'[d].nick = cx[d].nick
        BY <1>3, <2>2, <3>2
      <4> QED BY <1>4, <3>2, <4>1 DEF NickTable
    <3> QED BY <3>1, <3>2
  <2> QED BY <2>1, <2>2 DEF NickTable
<1>6. \A d \in Conns : Live(d)' <=> Live(d)
  BY <1>1, <1>2, <1>4 DEF Live
<1> QED BY <1>5, <1>6

\* Every step keeps the tables consistent, and every record served.
LEMMA TableStep ==
  TypeOK /\ NickTable /\ NoOrphanRecord /\ [Next]_vars => NickTable' /\ NoOrphanRecord'
<1> SUFFICES ASSUME TypeOK, NickTable, NoOrphanRecord, [Next]_vars
             PROVE  NickTable' /\ NoOrphanRecord'
  OBVIOUS
<1>a. ASSUME UNCHANGED <<unreg, users, cx, reader>>
      PROVE  NickTable' /\ NoOrphanRecord'
  BY <1>a DEF NickTable, NoOrphanRecord, Live
<1>b. ASSUME NickTable', \A d \in Conns : Live(d)' => Live(d), UNCHANGED reader
      PROVE  NickTable' /\ NoOrphanRecord'
  BY <1>b DEF NoOrphanRecord
<1>1. ASSUME NEW c \in Conns, Park(c) PROVE NickTable' /\ NoOrphanRecord'
  <2>1. ~Live(c) /\ ~cx[c].registered /\ \A k \in Nicks : users[k] # c
    BY <1>1, LiveCases DEF Park, NoOrphanRecord, Live
  <2>2. /\ cx' = [cx EXCEPT ![c] = FreshCx] /\ ~FreshCx.registered
        /\ unreg' = unreg \cup {c} /\ users' = users
        /\ reader' = [reader EXCEPT ![c] = "run"]
    BY <1>1 DEF Park, FreshCx
  <2>3. NickTable'
    <3>1. \A k \in Nicks : users[k] # None => users[k] \in Conns \ {c}
      BY <2>1 DEF TypeOK
    <3> QED BY <2>2, <3>1 DEF NickTable, TypeOK
  <2>4. NoOrphanRecord'
    BY <2>2 DEF NoOrphanRecord, Live, TypeOK
  <2> QED BY <2>3, <2>4
<1>2. ASSUME NEW c \in Conns, Close(c) PROVE NickTable' /\ NoOrphanRecord'
  <2>1. NickTable' /\ \A d \in Conns : Live(d)' <=> Live(d) /\ d \notin {c}
    BY <1>2, EvictTable DEF Close
  <2> QED BY <1>2, <2>1 DEF Close, NoOrphanRecord, TypeOK
<1>3. ASSUME NEW c \in Conns, Kill(c) PROVE NickTable' /\ NoOrphanRecord'
  <2>1. NickTable' /\ \A d \in Conns : Live(d)' <=> Live(d) /\ d \notin {c}
    BY <1>3, EvictTable DEF Kill
  <2> QED BY <1>3, <1>b, <2>1 DEF Kill
<1>4. ASSUME NEW c \in Conns, OtherLine(c) PROVE NickTable' /\ NoOrphanRecord'
  BY <1>4, <1>a DEF OtherLine
<1>5. ASSUME NEW c \in Conns, User(c) PROVE NickTable' /\ NoOrphanRecord'
  <2> DEFINE rec == [cx[c] EXCEPT !.pendingUser = TRUE]
  <2>1. rec \in CxType /\ rec.registered = cx[c].registered /\ rec.nick = cx[c].nick
    BY UserRecord DEF Kept
  <2>2. maybe_complete(c, rec, mark) /\ UNCHANGED reader
    BY <1>5 DEF User
  <2> HIDE DEF rec
  <2> QED BY <1>b, <2>1, <2>2, CompleteTable
<1>6. ASSUME NEW c \in Conns, CapBegin(c) \/ CapEnd(c) PROVE NickTable' /\ NoOrphanRecord'
  <2>1. UNCHANGED <<unreg, users, reader>>
    BY <1>6 DEF CapBegin, CapEnd
  <2>2. \A d \in Conns : (cx'[d].registered <=> cx[d].registered) /\ cx'[d].nick = cx[d].nick
    <3>0. cx[c] \in CxType
      BY DEF TypeOK
    <3>1. PICK g \in BOOLEAN, n \in BOOLEAN :
            cx' = [cx EXCEPT ![c] = [cx[c] EXCEPT !.negotiating = n, !.gated = g]]
      <4>1. CASE CapBegin(c)
        <5>1. cx' = [cx EXCEPT ![c] = [cx[c] EXCEPT !.negotiating = TRUE]]
          BY <4>1 DEF CapBegin
        <5>2. [cx[c] EXCEPT !.negotiating = TRUE]
                = [cx[c] EXCEPT !.negotiating = TRUE, !.gated = cx[c].gated]
          BY <3>0 DEF CxType
        <5>3. cx[c].gated \in BOOLEAN
          BY <3>0 DEF CxType
        <5> QED BY <5>1, <5>2, <5>3
      <4>2. CASE CapEnd(c)
        <5>1. cx' = [cx EXCEPT ![c] =
                [cx[c] EXCEPT !.negotiating = FALSE,
                   !.gated = IF cx[c].registered /\ cx[c].gated THEN FALSE ELSE cx[c].gated]]
          BY <4>2 DEF CapEnd, TypeOK
        <5>2. (IF cx[c].registered /\ cx[c].gated THEN FALSE ELSE cx[c].gated) \in BOOLEAN
          BY <3>0 DEF CxType
        <5> QED BY <5>1, <5>2
      <4> QED BY <1>6, <4>1, <4>2
    <3> QED BY <3>0, <3>1 DEF CxType, TypeOK
  <2>3. \A k \in Nicks : users[k] # None => users[k] \in Conns
    BY DEF TypeOK
  <2>4. NickTable'
    BY <2>1, <2>2, <2>3 DEF NickTable
  <2> QED BY <1>b, <2>1, <2>4 DEF Live
<1>7. ASSUME NEW c \in Conns, Pong(c) PROVE NickTable' /\ NoOrphanRecord'
  <2> DEFINE rec == [cx[c] EXCEPT !.verified = TRUE]
  <2>1. rec \in CxType /\ rec.registered = cx[c].registered /\ rec.nick = cx[c].nick
    BY PongRecord DEF Kept
  <2>2. CASE maybe_complete(c, rec, mark)
    <3> HIDE DEF rec
    <3> QED BY <1>7, <1>b, <2>1, <2>2, CompleteTable DEF Pong
  <2>3. CASE UNCHANGED <<unreg, users, cx, welcomes>>
    BY <1>7, <1>a, <2>3 DEF Pong
  <2> QED BY <1>7, <2>2, <2>3 DEF Pong
<1>8. ASSUME NEW c \in Conns, NEW k \in Nicks,
             NickInUse(c, k) \/ \E h \in Conns : NickContest(c, k, h)
      PROVE  NickTable' /\ NoOrphanRecord'
  BY <1>8, <1>a DEF NickInUse, NickContest
<1>9. ASSUME NEW c \in Conns, NEW k \in Nicks, NickRename(c, k)
      PROVE  NickTable' /\ NoOrphanRecord'
  BY <1>9, <1>b, RenameTable DEF NickRename, Registered, nick_free
<1>10. ASSUME NEW c \in Conns, NEW k \in Nicks, NEW marks,
              maybe_complete(c, Pending(c, k), marks), UNCHANGED reader
       PROVE  NickTable' /\ NoOrphanRecord'
  BY <1>10, <1>b, CompleteTable, PendingRecord DEF Kept
<1>11. ASSUME NEW w, NEW c, Elapse(w, c) PROVE NickTable' /\ NoOrphanRecord'
  BY <1>11, <1>a DEF Elapse
<1>12. CASE HistoryAges \/ ReclaimStart
  BY <1>12, <1>a DEF HistoryAges, ReclaimStart
<1>13. CASE liveness_tick
  <2>1. LateUnreg \cup LatePings \in SUBSET Conns
    BY DEF LateUnreg, LatePings, TypeOK
  <2>2. evict(LateUnreg \cup LatePings) /\ UNCHANGED reader
    BY <1>13 DEF liveness_tick
  <2> QED BY <1>b, <2>1, <2>2, EvictTable
<1>14. ASSUME NEW h \in Conns, ReclaimHolder(h) PROVE NickTable' /\ NoOrphanRecord'
  <2>1. NickTable' /\ \A d \in Conns : Live(d)' <=> Live(d) /\ d \notin {h}
    BY <1>14, EvictTable DEF ReclaimHolder
  <2> QED BY <1>14, <1>b, <2>1 DEF ReclaimHolder
<1>16. CASE ReclaimPairing
  <2>1. cx[Head(todo).id] \in CxType
    BY <1>16, TodoHead DEF ReclaimPairing, TypeOK
  <2> QED BY <1>16, <1>b, <2>1, TodoHead, CompleteTable DEF ReclaimPairing
<1>17. CASE ReclaimRename
  <2> DEFINE c == Head(todo).id
             k == Head(todo).nick
  <2>1. CASE Registered(c) /\ nick_free(k)
    <3>1. apply_rename(c, k) /\ unreg' = unreg /\ reader' = reader
      BY <1>17, <2>1 DEF ReclaimRename
    <3>2. c \in Conns /\ k \in Nicks
      BY <1>17, TodoHead DEF ReclaimRename
    <3> QED BY <1>b, <2>1, <3>1, <3>2, RenameTable DEF Registered, nick_free
  <2>2. CASE ~(Registered(c) /\ nick_free(k))
    BY <1>17, <1>a, <2>2 DEF ReclaimRename
  <2> QED BY <2>1, <2>2
<1>18. CASE UNCHANGED vars
  BY <1>18, <1>a DEF vars
<1>19. ASSUME NEW c \in Conns, NEW k \in Nicks, NickPair(c, k)
       PROVE  NickTable' /\ NoOrphanRecord'
  BY <1>10, <1>19 DEF NickPair
<1>20. ASSUME NEW c \in Conns, NEW k \in Nicks, NEW h \in Conns, NickPairContest(c, k, h)
       PROVE  NickTable' /\ NoOrphanRecord'
  BY <1>10, <1>20 DEF NickPairContest
<1> QED BY <1>1, <1>2, <1>3, <1>4, <1>5, <1>6, <1>7, <1>8, <1>9, <1>11, <1>12, <1>13,
           <1>14, <1>16, <1>17, <1>18, <1>19, <1>20
        DEF Next, Command, reclaim_tick

\* The three invariants lean on each other (an eviction keeps the types only if
\* the tables agree), so they are proved together and stated apart below.
LEMMA TypeAndTables == Spec => [](TypeOK /\ NickTable /\ NoOrphanRecord)
<1>1. Init => TypeOK /\ NickTable /\ NoOrphanRecord
  BY HistoryAssumption DEF Init, TypeOK, NickTable, NoOrphanRecord, Live, FreshCx, CxType,
     NoMark, MarkType
<1>2. TypeOK /\ NickTable /\ NoOrphanRecord /\ [Next]_vars
        => TypeOK' /\ NickTable' /\ NoOrphanRecord'
  BY TypeStep, TableStep
<1> QED BY <1>1, <1>2, PTL DEF Spec

\* Every reachable state is well formed; the rename history stays within its
\* limit (ServerState::record_rename).
THEOREM RegistrationTypes == Spec => []TypeOK
  BY TypeAndTables, PTL

\* The nick table and the records name each other, one nick per registered
\* session (ServerState::register, apply_rename and evict).
THEOREM NickTableAgrees == Spec => []NickTable
  BY TypeAndTables, PTL

\* No record outlives the reader that would clean it up (cleanup_on_eof).
THEOREM RecordsHaveReaders == Spec => []NoOrphanRecord
  BY TypeAndTables, PTL

-----------------------------------------------------------------------------
(* Nick ownership                                                          *)

Left == { c \in Conns : reader[c] # "none" /\ ~Live(c) }

\* Evictions are departures: of those of S that still had a record.
LEMMA EvictLeaves ==
  ASSUME TypeOK, NickTable, NoOrphanRecord, NEW S \in SUBSET Conns, evict(S),
         \A c \in Conns : reader'[c] = "none" <=> reader[c] = "none"
  PROVE  Ownership!Next
<1>0. PICK T : T = { c \in S : Live(c) }
  OBVIOUS
<1>1. users' = [k \in Nicks |-> IF users[k] \in T THEN None ELSE users[k]]
  BY <1>0 DEF evict, Live, TypeOK
<1>2. \A c \in Conns : Live(c)' <=> Live(c) /\ c \notin S
  BY EvictTable
<1>3. Left' = Left \cup T
  BY <1>0, <1>2 DEF Left, NoOrphanRecord
<1>4. Ownership!Leave(T)
  BY <1>1, <1>3 DEF Ownership!Leave, Left
<1>5. T \in SUBSET Conns
  BY <1>0
<1> QED BY <1>4, <1>5 DEF Ownership!Next

\* Completing a pairing either changes nothing or claims a free nick.
LEMMA CompleteClaims ==
  ASSUME TypeOK, NickTable, NEW c \in Conns, NEW rec \in CxType, NEW marks,
         rec.registered = cx[c].registered, rec.nick = cx[c].nick,
         maybe_complete(c, rec, marks), UNCHANGED reader
  PROVE  [Ownership!Next]_(Ownership!vars)
<1>1. Left' = Left
  BY CompleteTable DEF Left
<1>2. CASE users' = users
  BY <1>1, <1>2 DEF Left, Ownership!vars
<1>3. CASE Ready(c, rec) /\ nick_free(rec.pendingNick) /\ register(c, rec)
  <2> DEFINE n == rec.pendingNick
  <2>1. n \in Nicks /\ users[n] = None /\ c \in unreg /\ Live(c)
    BY <1>3, LiveCases DEF Ready, nick_free, CxType
  <2>2. \A k \in Nicks : users[k] # c
    BY <2>1 DEF NickTable
  <2>3. users' = [users EXCEPT ![n] = c]
    BY <1>3 DEF register
  <2>4. Ownership!Claim(c, n)
    BY <1>1, <2>1, <2>2, <2>3 DEF Ownership!Claim, Ownership!Holders, Left
  <2> QED BY <2>1, <2>4 DEF Ownership!Next
<1> QED BY <1>2, <1>3 DEF maybe_complete, Parked

\* A rename moves its user from the old nick to the new.
LEMMA RenameMoves ==
  ASSUME TypeOK, NickTable, NEW c \in Conns, NEW k \in Nicks, cx[c].registered,
         users[k] = None, unreg' = unreg, apply_rename(c, k), UNCHANGED reader
  PROVE  Ownership!Next
<1>1. Left' = Left
  BY RenameTable DEF Left
<1>2. cx[c].nick \in Nicks /\ users[cx[c].nick] = c
  BY DEF NickTable
<1>3. Ownership!Move(c, cx[c].nick, k)
  BY <1>1, <1>2 DEF Ownership!Move, apply_rename, Left
<1> QED BY <1>2, <1>3 DEF Ownership!Next

\* Every step of the detailed specification is a step of nick ownership, or
\* leaves it alone.
LEMMA OwnershipStep ==
  TypeOK /\ NickTable /\ NoOrphanRecord /\ [Next]_vars => [Ownership!Next]_(Ownership!vars)
<1> SUFFICES ASSUME TypeOK, NickTable, NoOrphanRecord, [Next]_vars
             PROVE  [Ownership!Next]_(Ownership!vars)
  OBVIOUS
<1>a. ASSUME UNCHANGED <<unreg, users, reader>> PROVE [Ownership!Next]_(Ownership!vars)
  BY <1>a DEF Ownership!vars, Live
<1>1. ASSUME NEW c \in Conns, Park(c) PROVE [Ownership!Next]_(Ownership!vars)
  <2>1. users' = users /\ unreg' = unreg \cup {c} /\ reader[c] = "none"
        /\ reader' = [reader EXCEPT ![c] = "run"]
    BY <1>1 DEF Park
  <2>2. Left' = Left
    BY <2>1 DEF Left, Live, TypeOK
  <2> QED BY <2>1, <2>2 DEF Ownership!vars, Left
<1>2. ASSUME NEW c \in Conns, Close(c) \/ Kill(c) PROVE [Ownership!Next]_(Ownership!vars)
  <2>1. evict({c}) /\ \A d \in Conns : reader'[d] = "none" <=> reader[d] = "none"
    BY <1>2 DEF Close, Kill, Reads, TypeOK
  <2> QED BY <2>1, EvictLeaves
<1>3. ASSUME NEW c \in Conns, OtherLine(c) \/ CapBegin(c) \/ CapEnd(c)
      PROVE  [Ownership!Next]_(Ownership!vars)
  BY <1>3, <1>a DEF OtherLine, CapBegin, CapEnd
<1>4. ASSUME NEW c \in Conns, User(c) PROVE [Ownership!Next]_(Ownership!vars)
  <2> DEFINE rec == [cx[c] EXCEPT !.pendingUser = TRUE]
  <2>1. rec \in CxType /\ rec.registered = cx[c].registered /\ rec.nick = cx[c].nick
    BY UserRecord DEF Kept
  <2>2. maybe_complete(c, rec, mark) /\ UNCHANGED reader
    BY <1>4 DEF User
  <2> HIDE DEF rec
  <2> QED BY <2>1, <2>2, CompleteClaims
<1>5. ASSUME NEW c \in Conns, Pong(c) PROVE [Ownership!Next]_(Ownership!vars)
  <2> DEFINE rec == [cx[c] EXCEPT !.verified = TRUE]
  <2>1. rec \in CxType /\ rec.registered = cx[c].registered /\ rec.nick = cx[c].nick
    BY PongRecord DEF Kept
  <2>2. CASE maybe_complete(c, rec, mark)
    <3> HIDE DEF rec
    <3> QED BY <1>5, <2>1, <2>2, CompleteClaims DEF Pong
  <2>3. CASE UNCHANGED <<unreg, users, cx, welcomes>>
    BY <1>5, <1>a, <2>3 DEF Pong
  <2> QED BY <1>5, <2>2, <2>3 DEF Pong
<1>6. ASSUME NEW c \in Conns, NEW k \in Nicks,
             NickInUse(c, k) \/ \E h \in Conns : NickContest(c, k, h)
      PROVE  [Ownership!Next]_(Ownership!vars)
  BY <1>6, <1>a DEF NickInUse, NickContest
<1>7. ASSUME NEW c \in Conns, NEW k \in Nicks, NickRename(c, k)
      PROVE  [Ownership!Next]_(Ownership!vars)
  BY <1>7, RenameMoves DEF NickRename, Registered, nick_free
<1>8. ASSUME NEW c \in Conns, NEW k \in Nicks,
             NickPair(c, k) \/ \E h \in Conns : NickPairContest(c, k, h)
      PROVE  [Ownership!Next]_(Ownership!vars)
  <2>1. PICK marks : maybe_complete(c, Pending(c, k), marks) /\ UNCHANGED reader
    BY <1>8 DEF NickPair, NickPairContest
  <2> QED BY <2>1, CompleteClaims, PendingRecord DEF Kept
<1>9. ASSUME NEW w, NEW c, Elapse(w, c) PROVE [Ownership!Next]_(Ownership!vars)
  BY <1>9, <1>a DEF Elapse
<1>10. CASE HistoryAges \/ ReclaimStart
  BY <1>10, <1>a DEF HistoryAges, ReclaimStart
<1>11. CASE liveness_tick
  <2>1. LateUnreg \cup LatePings \in SUBSET Conns
    BY DEF LateUnreg, LatePings, TypeOK
  <2>2. evict(LateUnreg \cup LatePings) /\ UNCHANGED reader
    BY <1>11 DEF liveness_tick
  <2> QED BY <2>1, <2>2, EvictLeaves
<1>12. ASSUME NEW h \in Conns, ReclaimHolder(h) PROVE [Ownership!Next]_(Ownership!vars)
  <2>1. evict({h}) /\ UNCHANGED reader
    BY <1>12 DEF ReclaimHolder
  <2> QED BY <2>1, EvictLeaves
<1>14. CASE ReclaimPairing
  <2>1. cx[Head(todo).id] \in CxType
    BY <1>14, TodoHead DEF ReclaimPairing, TypeOK
  <2> QED BY <1>14, <2>1, TodoHead, CompleteClaims DEF ReclaimPairing
<1>15. CASE ReclaimRename
  <2> DEFINE c == Head(todo).id
             k == Head(todo).nick
  <2>1. CASE Registered(c) /\ nick_free(k)
    <3>1. apply_rename(c, k) /\ unreg' = unreg /\ reader' = reader
      BY <1>15, <2>1 DEF ReclaimRename
    <3>2. c \in Conns /\ k \in Nicks
      BY <1>15, TodoHead DEF ReclaimRename
    <3> QED BY <2>1, <3>1, <3>2, RenameMoves DEF Registered, nick_free
  <2>2. CASE ~(Registered(c) /\ nick_free(k))
    BY <1>15, <1>a, <2>2 DEF ReclaimRename
  <2> QED BY <2>1, <2>2
<1>16. CASE UNCHANGED vars
  BY <1>16, <1>a DEF vars
<1> QED BY <1>1, <1>2, <1>3, <1>4, <1>5, <1>6, <1>7, <1>8, <1>9, <1>10, <1>11, <1>12,
           <1>14, <1>15, <1>16
        DEF Next, Command, reclaim_tick

\* The nick table, with its renames, reclaims and evictions, implements nick
\* ownership: nobody's nick is ever overwritten, and nobody holds two.
THEOREM ImplementsOwnership == Spec => OwnershipSpec
<1>1. Init => Ownership!Init
  BY DEF Init, Ownership!Init, Live
<1>2. TypeOK /\ NickTable /\ NoOrphanRecord /\ [Next]_vars
        => [Ownership!Next]_(Ownership!vars)
  BY OwnershipStep
<1> QED BY <1>1, <1>2, TypeAndTables, PTL DEF Spec, OwnershipSpec, Ownership!Spec

-----------------------------------------------------------------------------
(* The challenge and the welcome                                           *)

\* The inductive strengthening of ChallengeKept and WelcomeOnce: the welcome of
\* a registered record has been sent or is owed by an open negotiation, and
\* nobody is welcomed before registering.
SessionInv ==
  \A c \in Conns :
    /\ cx[c].registered => /\ Challenge => cx[c].verified
                           /\ cx[c].gated => welcomes[c] = 0 /\ cx[c].negotiating
                           /\ ~cx[c].gated => welcomes[c] = 1
    /\ c \in unreg \/ reader[c] = "none" => welcomes[c] = 0
    /\ welcomes[c] <= 1

\* Removing records cannot break it.
LEMMA EvictSession ==
  ASSUME TypeOK, SessionInv, NEW S, evict(S), welcomes' = welcomes,
         \A c \in Conns : reader'[c] = "none" <=> reader[c] = "none"
  PROVE  SessionInv'
<1>1. \A c \in Conns : cx'[c] = IF c \in S THEN FreshCx ELSE cx[c]
  BY DEF evict
<1>2. unreg' = unreg \ S /\ ~FreshCx.registered
  BY DEF evict, FreshCx
<1> QED BY <1>1, <1>2 DEF SessionInv

\* maybe_complete registers only what the challenge has cleared, and either
\* welcomes at once or leaves the welcome to the open negotiation.
LEMMA CompleteSession ==
  ASSUME TypeOK, NickTable, NoOrphanRecord, SessionInv, NEW c \in Conns, NEW rec \in CxType, NEW marks,
         \A f \in Kept : rec[f] = cx[c][f], cx[c].verified => rec.verified,
         maybe_complete(c, rec, marks), UNCHANGED reader
  PROVE  SessionInv'
<1> USE DEF TypeOK
<1>1. ASSUME NEW r \in CxType, \A f \in Kept : r[f] = cx[c][f],
             cx[c].verified => r.verified, Parked(c, r)
      PROVE  SessionInv'
  <2>1. \A d \in Conns : cx'[d] = IF d = c THEN r ELSE cx[d]
    BY <1>1 DEF Parked
  <2>2. /\ r.registered <=> cx[c].registered
        /\ r.negotiating <=> cx[c].negotiating
        /\ r.gated <=> cx[c].gated
    BY <1>1 DEF Kept
  <2>3. unreg' = unreg /\ welcomes' = welcomes
    BY <1>1 DEF Parked
  <2> QED BY <1>1, <2>1, <2>2, <2>3 DEF SessionInv
<1>2. CASE Parked(c, rec)
  BY <1>1, <1>2
<1>3. CASE Parked(c, [rec EXCEPT !.challenged = TRUE])
  <2> DEFINE r == [rec EXCEPT !.challenged = TRUE]
  <2>1. r \in CxType /\ r.verified = rec.verified /\ \A f \in Kept : r[f] = rec[f]
    BY DEF CxType, Kept
  <2> HIDE DEF r
  <2>2. Parked(c, r)
    BY <1>3 DEF r
  <2> QED BY <1>1, <2>1, <2>2
<1>4. CASE Ready(c, rec) /\ Cleared(rec) /\ register(c, rec)
  <2> DEFINE n == rec.pendingNick
             r == [rec EXCEPT !.registered = TRUE, !.nick = n, !.gated = rec.negotiating]
  <2>1. c \in unreg /\ reader[c] = "run"
    <3>1. ~cx[c].registered /\ Live(c)
      BY <1>4 DEF Ready, Kept
    <3> QED BY <3>1, LiveCases DEF NoOrphanRecord
  <2>2. r.registered /\ r.gated = rec.negotiating /\ r.negotiating = rec.negotiating
        /\ r.verified = rec.verified /\ rec.negotiating \in BOOLEAN
    BY DEF CxType
  <2>3. Challenge => rec.verified
    BY <1>4 DEF Cleared
  <2>4. /\ unreg' = unreg \ {c} /\ cx' = [cx EXCEPT ![c] = r]
        /\ welcomes' = [welcomes EXCEPT ![c] = @ + (IF rec.negotiating THEN 0 ELSE 1)]
    BY <1>4 DEF register
  <2> HIDE DEF n, r
  <2>5. welcomes[c] = 0
    BY <2>1 DEF SessionInv
  <2>6. welcomes'[c] = (IF rec.negotiating THEN 0 ELSE 1)
    BY <2>4, <2>5
  <2>7. \A d \in Conns \ {c} : cx'[d] = cx[d] /\ welcomes'[d] = welcomes[d]
    BY <2>4
  <2> QED BY <2>1, <2>2, <2>3, <2>4, <2>6, <2>7 DEF SessionInv
<1> QED BY <1>2, <1>3, <1>4 DEF maybe_complete

\* Every step preserves it.
LEMMA SessionStep ==
  TypeOK /\ NickTable /\ NoOrphanRecord /\ SessionInv /\ [Next]_vars => SessionInv'
<1> SUFFICES ASSUME TypeOK, NickTable, NoOrphanRecord, SessionInv, [Next]_vars
             PROVE  SessionInv'
  OBVIOUS
<1>a. ASSUME UNCHANGED <<unreg, cx, reader, welcomes>> PROVE SessionInv'
  BY <1>a DEF SessionInv
<1>1. ASSUME NEW c \in Conns, Park(c) PROVE SessionInv'
  <2>1. /\ cx' = [cx EXCEPT ![c] = FreshCx] /\ ~FreshCx.registered
        /\ unreg' = unreg \cup {c} /\ welcomes' = welcomes
        /\ reader' = [reader EXCEPT ![c] = "run"] /\ reader[c] = "none"
    BY <1>1 DEF Park, FreshCx
  <2> QED BY <2>1 DEF SessionInv, TypeOK
<1>2. ASSUME NEW c \in Conns, Close(c) \/ Kill(c) PROVE SessionInv'
  <2>1. evict({c}) /\ welcomes' = welcomes
        /\ \A d \in Conns : reader'[d] = "none" <=> reader[d] = "none"
    BY <1>2 DEF Close, Kill, Reads, TypeOK
  <2> QED BY <2>1, EvictSession
<1>3. ASSUME NEW c \in Conns, OtherLine(c) PROVE SessionInv'
  BY <1>3, <1>a DEF OtherLine
<1>4. ASSUME NEW c \in Conns, User(c) PROVE SessionInv'
  <2> DEFINE rec == [cx[c] EXCEPT !.pendingUser = TRUE]
  <2>1. rec \in CxType /\ (\A f \in Kept : rec[f] = cx[c][f]) /\ rec.verified = cx[c].verified
    BY UserRecord
  <2>2. maybe_complete(c, rec, mark) /\ UNCHANGED reader
    BY <1>4 DEF User
  <2> HIDE DEF rec
  <2> QED BY <2>1, <2>2, CompleteSession
<1>5. ASSUME NEW c \in Conns, CapBegin(c) PROVE SessionInv'
  <2>0. cx[c] \in CxType
    BY DEF TypeOK
  <2> DEFINE r == [cx[c] EXCEPT !.negotiating = TRUE]
  <2>1. /\ r.registered = cx[c].registered /\ r.verified = cx[c].verified
        /\ r.gated = cx[c].gated /\ r.negotiating
    BY <2>0 DEF CxType
  <2>2. \A d \in Conns : cx'[d] = IF d = c THEN r ELSE cx[d]
    BY <1>5 DEF CapBegin, TypeOK
  <2>3. UNCHANGED <<unreg, welcomes, reader>>
    BY <1>5 DEF CapBegin
  <2> HIDE DEF r
  <2> QED BY <2>1, <2>2, <2>3 DEF SessionInv
<1>6. ASSUME NEW c \in Conns, CapEnd(c) PROVE SessionInv'
  <2>0. cx[c] \in CxType
    BY DEF TypeOK
  <2> DEFINE owed == cx[c].registered /\ cx[c].gated
             g == IF owed THEN FALSE ELSE cx[c].gated
             r == [cx[c] EXCEPT !.negotiating = FALSE, !.gated = g]
  <2>1. r.registered = cx[c].registered /\ r.verified = cx[c].verified /\ r.gated = g
    BY <2>0 DEF CxType
  <2>2. \A d \in Conns : cx'[d] = IF d = c THEN r ELSE cx[d]
    BY <1>6 DEF CapEnd, TypeOK
  <2>3. /\ unreg' = unreg /\ reader' = reader
        /\ welcomes' = [welcomes EXCEPT ![c] = @ + (IF owed THEN 1 ELSE 0)]
    BY <1>6 DEF CapEnd
  <2>4. welcomes \in [Conns -> Nat] /\ cx[c].gated \in BOOLEAN /\ cx[c].registered \in BOOLEAN
    BY <2>0 DEF TypeOK, CxType
  <2>5. CASE owed
    <3>1. c \notin unreg /\ reader[c] # "none" /\ welcomes[c] = 0
      BY <2>5, LiveCases DEF SessionInv, NoOrphanRecord
    <3>2. ~r.gated /\ welcomes'[c] = 1 /\ (r.registered => (Challenge => r.verified))
      BY <2>1, <2>3, <2>4, <2>5, <3>1 DEF SessionInv
    <3>3. \A d \in Conns \ {c} : cx'[d] = cx[d] /\ welcomes'[d] = welcomes[d]
      BY <2>2, <2>3, <2>4
    <3> HIDE DEF r
    <3> QED BY <2>2, <2>3, <3>1, <3>2, <3>3 DEF SessionInv
  <2>6. CASE ~owed
    <3>1. welcomes' = welcomes
      BY <2>3, <2>4, <2>6
    <3>2. r.registered => ~r.gated /\ ~cx[c].gated
      BY <2>1, <2>4, <2>6
    <3> HIDE DEF r
    <3> QED BY <2>1, <2>2, <2>3, <3>1, <3>2 DEF SessionInv
  <2> QED BY <2>5, <2>6
<1>7. ASSUME NEW c \in Conns, Pong(c) PROVE SessionInv'
  <2> DEFINE rec == [cx[c] EXCEPT !.verified = TRUE]
  <2>1. rec \in CxType /\ (\A f \in Kept : rec[f] = cx[c][f]) /\ rec.verified
    BY PongRecord
  <2>2. CASE maybe_complete(c, rec, mark)
    <3> HIDE DEF rec
    <3> QED BY <1>7, <2>1, <2>2, CompleteSession DEF Pong
  <2>3. CASE UNCHANGED <<unreg, users, cx, welcomes>>
    BY <1>7, <1>a, <2>3 DEF Pong
  <2> QED BY <1>7, <2>2, <2>3 DEF Pong
<1>8. ASSUME NEW c \in Conns, NEW k \in Nicks,
             NickInUse(c, k) \/ \E h \in Conns : NickContest(c, k, h)
      PROVE  SessionInv'
  BY <1>8, <1>a DEF NickInUse, NickContest
<1>9. ASSUME NEW c \in Conns, NEW k \in Nicks, apply_rename(c, k),
             UNCHANGED <<unreg, reader, welcomes>>
      PROVE  SessionInv'
  <2>0. cx[c] \in CxType
    BY DEF TypeOK
  <2> DEFINE r == [cx[c] EXCEPT !.nick = k]
  <2>1. /\ r.registered = cx[c].registered /\ r.verified = cx[c].verified
        /\ r.gated = cx[c].gated /\ r.negotiating = cx[c].negotiating
    BY <2>0 DEF CxType
  <2>2. \A d \in Conns : cx'[d] = IF d = c THEN r ELSE cx[d]
    BY <1>9 DEF apply_rename, TypeOK
  <2> HIDE DEF r
  <2> QED BY <1>9, <2>1, <2>2 DEF SessionInv
<1>10. ASSUME NEW c \in Conns, NEW k \in Nicks, NickRename(c, k) PROVE SessionInv'
  BY <1>9, <1>10 DEF NickRename
<1>11. ASSUME NEW c \in Conns, NEW k \in Nicks,
              NickPair(c, k) \/ \E h \in Conns : NickPairContest(c, k, h)
       PROVE  SessionInv'
  <2>1. PICK marks : maybe_complete(c, Pending(c, k), marks) /\ UNCHANGED reader
    BY <1>11 DEF NickPair, NickPairContest
  <2> QED BY <2>1, CompleteSession, PendingRecord
<1>12. ASSUME NEW w, NEW c, Elapse(w, c) PROVE SessionInv'
  BY <1>12, <1>a DEF Elapse
<1>13. CASE HistoryAges \/ ReclaimStart
  BY <1>13, <1>a DEF HistoryAges, ReclaimStart
<1>14. CASE liveness_tick
  <2>1. evict(LateUnreg \cup LatePings) /\ UNCHANGED <<reader, welcomes>>
    BY <1>14 DEF liveness_tick
  <2>2. PICK S : S = LateUnreg \cup LatePings
    OBVIOUS
  <2>3. evict(S)
    BY <2>1, <2>2 DEF evict
  <2> QED BY <2>1, <2>3, EvictSession
<1>15. ASSUME NEW h \in Conns, ReclaimHolder(h) PROVE SessionInv'
  BY <1>15, EvictSession DEF ReclaimHolder
<1>16. CASE ReclaimPairing
  <2>1. cx[Head(todo).id] \in CxType
    BY <1>16, TodoHead DEF ReclaimPairing, TypeOK
  <2> QED BY <1>16, <2>1, TodoHead, CompleteSession DEF ReclaimPairing
<1>17. CASE ReclaimRename
  <2>1. CASE UNCHANGED <<users, cx, hist>>
    BY <1>17, <1>a, <2>1 DEF ReclaimRename
  <2>2. CASE apply_rename(Head(todo).id, Head(todo).nick)
    BY <1>9, <1>17, <2>2, TodoHead DEF ReclaimRename
  <2> QED BY <1>17, <2>1, <2>2 DEF ReclaimRename
<1>18. CASE UNCHANGED vars
  BY <1>18, <1>a DEF vars
<1> QED BY <1>1, <1>2, <1>3, <1>4, <1>5, <1>6, <1>7, <1>8, <1>10, <1>11, <1>12, <1>13,
           <1>14, <1>15, <1>16, <1>17, <1>18
        DEF Next, Command, reclaim_tick

\* Challenge and welcome follow from one invariant of the session.
LEMMA SessionAlways == Spec => [](ChallengeKept /\ WelcomeOnce)
<1>1. Init => SessionInv
  BY DEF Init, SessionInv, FreshCx
<1>2. TypeOK /\ NickTable /\ NoOrphanRecord /\ SessionInv /\ [Next]_vars => SessionInv'
  BY SessionStep
<1>3. SessionInv => ChallengeKept /\ WelcomeOnce
  BY DEF SessionInv, ChallengeKept, WelcomeOnce, Registered
<1> QED BY <1>1, <1>2, <1>3, TypeAndTables, PTL DEF Spec

\* Nobody gets past the registration challenge (maybe_complete, on each of the
\* four paths that call it).
THEOREM Challenged == Spec => []ChallengeKept
  BY SessionAlways, PTL

\* Everybody who registers is welcomed once, at registration or at the end of
\* the negotiation (maybe_complete and CAP END).
THEOREM Welcomed == Spec => []WelcomeOnce
  BY SessionAlways, PTL

-----------------------------------------------------------------------------
(* Reclaim markers                                                         *)

\* Following the rename history stays within the nicks, so lookup finds only
\* the holder of some nick.
LEMMA LookupLive ==
  ASSUME TypeOK, NEW k \in Nicks, NEW h \in Conns, lookup(k) = h
  PROVE  Live(h)
<1>1. ASSUME NEW n \in Nicks PROVE Hop(n) \in Nicks
  <2>1. CASE users[n] # None \/ Newest(n) = {}
    BY <2>1 DEF Hop
  <2>2. CASE ~(users[n] # None \/ Newest(n) = {})
    <3>1. PICK i : i = CHOOSE j \in Newest(n) : TRUE
      OBVIOUS
    <3>2. i \in DOMAIN hist
      BY <2>2, <3>1 DEF Newest
    <3>3. hist[i] \in HistEntry
      <4>1. hist \in Seq(HistEntry)
        BY DEF TypeOK
      <4> QED BY <3>2, <4>1, ElementOfSeq
    <3> QED BY <2>2, <3>1, <3>3 DEF Hop, HistEntry
  <2> QED BY <2>1, <2>2
<1>2. ASSUME NEW n \in Nicks PROVE Hop4(n) \in Nicks
  BY <1>1 DEF Hop2, Hop4
<1> QED BY <1>2 DEF lookup, Live

\* The inductive strengthening of MarkPinged: only connections that have been
\* parked are ever marked.
MarkInv ==
  \A h \in Conns : mark[h].on => /\ reader[h] # "none"
                                 /\ Live(h) => h \in pingOut

\* Every step preserves it.
LEMMA MarkStep ==
  TypeOK /\ NickTable /\ NoOrphanRecord /\ MarkInv /\ [Next]_vars => MarkInv'
<1> SUFFICES ASSUME TypeOK, NickTable, NoOrphanRecord, MarkInv, [Next]_vars
             PROVE  MarkInv'
  OBVIOUS
<1>a. ASSUME UNCHANGED <<mark, pingOut, reader>>, \A d \in Conns : Live(d)' => Live(d)
      PROVE  MarkInv'
  BY <1>a DEF MarkInv
<1>b. ASSUME UNCHANGED <<unreg, users>> PROVE \A d \in Conns : Live(d)' => Live(d)
  BY <1>b DEF Live
<1>c. ASSUME NEW h \in Conns, Live(h), NEW p, NEW r, mark' = begin_reclaim(h, p, r),
             pingOut' = pingOut \cup {h}, UNCHANGED reader,
             \A d \in Conns : Live(d)' => Live(d)
      PROVE  MarkInv'
  <2>1. \A d \in Conns \ {h} : mark'[d] = mark[d]
    BY <1>c DEF begin_reclaim, TypeOK
  <2>2. reader'[h] # "none"
    BY <1>c DEF NoOrphanRecord
  <2> QED BY <1>c, <2>1, <2>2 DEF MarkInv
<1>d. ASSUME NEW h \in Conns, \A d \in Conns \ {h} : mark'[d] = mark[d], ~mark'[h].on,
             pingOut' = pingOut \ {h}, UNCHANGED reader,
             \A d \in Conns : Live(d)' => Live(d)
      PROVE  MarkInv'
  BY <1>d DEF MarkInv
<1>1. ASSUME NEW c \in Conns, Park(c) PROVE MarkInv'
  <2>1. /\ mark' = mark /\ pingOut' = pingOut /\ reader[c] = "none"
        /\ reader' = [reader EXCEPT ![c] = "run"]
        /\ \A d \in Conns \ {c} : Live(d)' => Live(d)
    BY <1>1 DEF Park, Live
  <2> QED BY <2>1 DEF MarkInv, TypeOK
<1>2. ASSUME NEW c \in Conns, Close(c) \/ Kill(c) PROVE MarkInv'
  <2>1. \A d \in Conns : Live(d)' => Live(d)
    BY <1>2, EvictTable DEF Close, Kill
  <2>2. \A d \in Conns : reader[d] # "none" => reader'[d] # "none"
    BY <1>2 DEF Close, Kill, TypeOK
  <2>3. mark' = mark /\ pingOut' = pingOut
    BY <1>2 DEF Close, Kill
  <2> QED BY <2>1, <2>2, <2>3 DEF MarkInv
<1>3. ASSUME NEW c \in Conns, OtherLine(c) \/ CapBegin(c) \/ CapEnd(c) PROVE MarkInv'
  BY <1>3, <1>a, <1>b DEF OtherLine, CapBegin, CapEnd
<1>4. ASSUME NEW c \in Conns, User(c) PROVE MarkInv'
  <2> DEFINE rec == [cx[c] EXCEPT !.pendingUser = TRUE]
  <2>1. rec \in CxType /\ rec.registered = cx[c].registered /\ rec.nick = cx[c].nick
    BY UserRecord DEF Kept
  <2>2. maybe_complete(c, rec, mark)
    BY <1>4 DEF User
  <2> HIDE DEF rec
  <2>3. \A d \in Conns : Live(d)' => Live(d)
    BY <2>1, <2>2, CompleteTable
  <2> QED BY <1>4, <1>a, <2>3 DEF User
<1>5. ASSUME NEW c \in Conns, Pong(c) PROVE MarkInv'
  <2> DEFINE rec == [cx[c] EXCEPT !.verified = TRUE]
  <2>1. rec \in CxType /\ rec.registered = cx[c].registered /\ rec.nick = cx[c].nick
    BY PongRecord DEF Kept
  <2>2. maybe_complete(c, rec, mark) \/ UNCHANGED <<unreg, users, cx, welcomes>>
    BY <1>5 DEF Pong
  <2> HIDE DEF rec
  <2>3. \A d \in Conns : Live(d)' => Live(d)
    BY <1>b, <2>1, <2>2, CompleteTable
  <2>4. CASE c \in pingOut
    <3>1. mark' = [mark EXCEPT ![c] = NoMark] /\ ~NoMark.on
      BY <1>5, <2>4 DEF Pong, NoMark
    <3>2. mark'[c] = NoMark /\ \A d \in Conns \ {c} : mark'[d] = mark[d]
      BY <3>1 DEF TypeOK
    <3> QED BY <1>5, <1>d, <2>3, <3>1, <3>2 DEF Pong
  <2>5. CASE c \notin pingOut
    <3>1. mark' = mark /\ pingOut' = pingOut
      BY <1>5, <2>5 DEF Pong
    <3> QED BY <1>5, <1>a, <2>3, <3>1 DEF Pong
  <2> QED BY <2>4, <2>5
<1>6. ASSUME NEW c \in Conns, NEW k \in Nicks, NickInUse(c, k) PROVE MarkInv'
  BY <1>6, <1>a, <1>b DEF NickInUse
<1>7. ASSUME NEW c \in Conns, NEW k \in Nicks, NEW h \in Conns, NickContest(c, k, h)
      PROVE  MarkInv'
  <2>1. Live(h)
    BY <1>7 DEF NickContest, Live
  <2> QED BY <1>7, <1>b, <1>c, <2>1 DEF NickContest
<1>8. ASSUME NEW c \in Conns, NEW k \in Nicks, NickRename(c, k) PROVE MarkInv'
  <2>1. \A d \in Conns : Live(d)' => Live(d)
    BY <1>8, RenameTable DEF NickRename, Registered, nick_free
  <2> QED BY <1>8, <1>a, <2>1 DEF NickRename
<1>9. ASSUME NEW c \in Conns, NEW k \in Nicks, NEW marks, maybe_complete(c, Pending(c, k), marks)
      PROVE  \A d \in Conns : Live(d)' => Live(d)
  BY <1>9, CompleteTable, PendingRecord DEF Kept
<1>10. ASSUME NEW c \in Conns, NEW k \in Nicks, NickPair(c, k) PROVE MarkInv'
  BY <1>9, <1>10, <1>a DEF NickPair
<1>11. ASSUME NEW c \in Conns, NEW k \in Nicks, NEW h \in Conns, NickPairContest(c, k, h)
       PROVE  MarkInv'
  <2>1. Live(h)
    BY <1>11, LookupLive DEF NickPairContest
  <2>2. PICK marks : maybe_complete(c, Pending(c, k), marks)
    BY <1>11 DEF NickPairContest
  <2>3. \A d \in Conns : Live(d)' => Live(d)
    BY <1>9, <2>2
  <2> QED BY <1>11, <1>c, <2>1, <2>3 DEF NickPairContest
<1>12. ASSUME NEW w, NEW c, Elapse(w, c) PROVE MarkInv'
  BY <1>12, <1>a, <1>b DEF Elapse
<1>13. CASE HistoryAges \/ ReclaimStart
  BY <1>13, <1>a, <1>b DEF HistoryAges, ReclaimStart
<1>14. CASE liveness_tick
  <2>1. PICK S \in SUBSET Conns : S = LateUnreg \cup LatePings
    BY DEF LateUnreg, LatePings, TypeOK
  <2>2. evict(S) /\ mark' = mark /\ reader' = reader /\ pingOut \ S \subseteq pingOut'
    BY <1>14, <2>1 DEF liveness_tick, evict
  <2>3. \A d \in Conns : Live(d)' <=> Live(d) /\ d \notin S
    BY <2>2, EvictTable
  <2> QED BY <2>2, <2>3 DEF MarkInv
<1>15. ASSUME NEW h \in Conns, ReclaimHolder(h) PROVE MarkInv'
  <2>1. \A d \in Conns : Live(d)' => Live(d)
    BY <1>15, EvictTable DEF ReclaimHolder
  <2>2. mark' = [mark EXCEPT ![h] = NoMark] /\ ~NoMark.on
    BY <1>15 DEF ReclaimHolder, NoMark
  <2>3. mark'[h] = NoMark /\ \A d \in Conns \ {h} : mark'[d] = mark[d]
    BY <2>2 DEF TypeOK
  <2> QED BY <1>15, <1>d, <2>1, <2>2, <2>3 DEF ReclaimHolder
<1>16. CASE ReclaimPairing
  <2>1. cx[Head(todo).id] \in CxType
    BY <1>16, TodoHead DEF ReclaimPairing, TypeOK
  <2>2. \A d \in Conns : Live(d)' => Live(d)
    BY <1>16, <2>1, TodoHead, CompleteTable DEF ReclaimPairing
  <2> QED BY <1>16, <1>a, <2>2 DEF ReclaimPairing
<1>17. CASE ReclaimRename
  <2> DEFINE c == Head(todo).id
             k == Head(todo).nick
  <2>1. CASE Registered(c) /\ nick_free(k)
    <3>1. apply_rename(c, k) /\ unreg' = unreg
      BY <1>17, <2>1 DEF ReclaimRename
    <3>2. c \in Conns /\ k \in Nicks
      BY <1>17, TodoHead DEF ReclaimRename
    <3>3. \A d \in Conns : Live(d)' => Live(d)
      BY <2>1, <3>1, <3>2, RenameTable DEF Registered, nick_free
    <3> QED BY <1>17, <1>a, <3>3 DEF ReclaimRename
  <2>2. CASE ~(Registered(c) /\ nick_free(k))
    BY <1>17, <1>a, <1>b, <2>2 DEF ReclaimRename
  <2> QED BY <2>1, <2>2
<1>18. CASE UNCHANGED vars
  BY <1>18, <1>a, <1>b DEF vars
<1> QED BY <1>1, <1>2, <1>3, <1>4, <1>5, <1>6, <1>7, <1>8, <1>10, <1>11, <1>12, <1>13,
           <1>14, <1>15, <1>16, <1>17, <1>18
        DEF Next, Command, reclaim_tick

\* A live holder under a reclaim marker always has an unanswered ping, so its
\* next PONG clears the marker and saves its session.
THEOREM MarkedArePinged == Spec => []MarkPinged
<1>1. Init => MarkInv
  BY DEF Init, MarkInv, NoMark
<1>2. TypeOK /\ NickTable /\ NoOrphanRecord /\ MarkInv /\ [Next]_vars => MarkInv'
  BY MarkStep
<1>3. MarkInv => MarkPinged
  BY DEF MarkInv, MarkPinged
<1> QED BY <1>1, <1>2, <1>3, TypeAndTables, PTL DEF Spec

=============================================================================
