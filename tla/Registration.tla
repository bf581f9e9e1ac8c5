---------------------------- MODULE Registration ----------------------------
(***************************************************************************)
(* A client's life in the server's user tables: the NICK/USER pairing, the *)
(* optional PING challenge, capability negotiation and the welcome it      *)
(* withholds, renames and the rename history that `lookup' walks, the      *)
(* liveness sweep, and the fast-reconnect reclaim of a nick whose holder   *)
(* looks dead.                                                             *)
(*                                                                         *)
(* Every command is handled under one mutex (ops::route), and each tick    *)
(* holds it throughout, so an action is one critical section.  The only    *)
(* handler cut into several steps is reclaim_tick, whose loop body depends *)
(* on what earlier iterations did; while it runs (due or todo non-empty)   *)
(* the lock is held and no other action is enabled.                        *)
(*                                                                         *)
(* Every window (silence, ping, eviction, registration, grace) can be set  *)
(* from the environment, so no order between them is assumed: a window     *)
(* that has run out is a pair in `elapsed', put there by time (Elapse) and *)
(* removed by whatever restamps or discards the clock in the code.         *)
(***************************************************************************)
EXTENDS Naturals, Sequences, FiniteSets

CONSTANTS Conns,       \* connection ids, handed out once each
          Nicks,       \* normalized nick keys (state::norm_nick)
          None,        \* the absent value of an Option
          Challenge,   \* CHONKLINE_REG_CHALLENGE
          HistoryCap,  \* state::HISTORY_CAP
          MaxHeld      \* bound: requests one reclaim marker may collect

ASSUME ConnsAssumption     == None \notin Conns
ASSUME NicksAssumption     == None \notin Nicks
ASSUME ChallengeAssumption == Challenge \in BOOLEAN
ASSUME HistoryAssumption   == HistoryCap \in Nat \ {0}
ASSUME HeldAssumption      == MaxHeld \in Nat

VARIABLES
  reader,   \* each connection's reader task: "none" yet, "run", or "done"
  unreg,    \* ServerState.unreg: ids of the pre-registration records
  users,    \* ServerState.users: nick key -> id of the registered record
  cx,       \* the Cx record of each connection (FreshCx when there is none)
  welcomes, \* how many times each connection was sent the welcome sequence
  hist,     \* ServerState.history, the entries still inside RENAME_WINDOW
  pingOut,  \* ServerState.ping_outstanding
  mark,     \* ServerState.grace_reclaim
  elapsed,  \* <<window, id>>: the clocks that have run out
  due,      \* reclaim_tick: expired_now, the holders it has still to evict
  todo      \* reclaim_tick: the requesters of the holder just evicted

vars == <<reader, unreg, users, cx, welcomes, hist, pingOut, mark, elapsed, due, todo>>

Windows == {"silence", "ping", "registration", "eviction", "grace"}

CxType == [registered  : BOOLEAN,
           nick        : Nicks \cup {None},
           pendingNick : Nicks \cup {None},
           pendingUser : BOOLEAN,
           negotiating : BOOLEAN,   \* cap_negotiating
           gated       : BOOLEAN,   \* cap_gated_welcome
           challenged  : BOOLEAN,   \* reg_challenged
           verified    : BOOLEAN]   \* reg_verified

FreshCx == [registered  |-> FALSE, nick |-> None, pendingNick |-> None,
            pendingUser |-> FALSE, negotiating |-> FALSE, gated |-> FALSE,
            challenged  |-> FALSE, verified |-> FALSE]

HistEntry == [old : Nicks, new : Nicks]

Request  == [id : Conns, nick : Nicks]
MarkType == [on : BOOLEAN, pairings : Seq(Request), renames : Seq(Request)]
NoMark   == [on |-> FALSE, pairings |-> << >>, renames |-> << >>]
TodoType == [pairing : BOOLEAN, id : Conns, nick : Nicks]

TypeOK ==
  /\ reader \in [Conns -> {"none", "run", "done"}]
  /\ unreg \in SUBSET Conns
  /\ users \in [Nicks -> Conns \cup {None}]
  /\ cx \in [Conns -> CxType]
  /\ welcomes \in [Conns -> Nat]
  /\ hist \in Seq(HistEntry) /\ Len(hist) <= HistoryCap
  /\ pingOut \in SUBSET Conns
  /\ mark \in [Conns -> MarkType]
  /\ elapsed \in SUBSET (Windows \X Conns)
  /\ due \in SUBSET Conns
  /\ todo \in Seq(TodoType)

Init ==
  /\ reader = [c \in Conns |-> "none"]
  /\ unreg = {}
  /\ users = [k \in Nicks |-> None]
  /\ cx = [c \in Conns |-> FreshCx]
  /\ welcomes = [c \in Conns |-> 0]
  /\ hist = << >>
  /\ pingOut = {}
  /\ mark = [c \in Conns |-> NoMark]
  /\ elapsed = {}
  /\ due = {}
  /\ todo = << >>

-----------------------------------------------------------------------------
(* Lookups                                                                 *)

\* The mutex is free: no reclaim_tick is under way.
Unlocked == due = {} /\ todo = << >>

\* find_by_id finds a record, registered or not.
Live(c) == c \in unreg \/ \E k \in Nicks : users[k] = c

\* find_by_id finds a registered record.
Registered(c) == Live(c) /\ cx[c].registered

\* A line of c reaches its handler: the reader task runs and takes the lock.
Reads(c) == Unlocked /\ reader[c] = "run"

nick_free(k) == users[k] = None

\* The rename away from k that history.iter().rev() meets first, if any.
Newest(k) == { i \in DOMAIN hist : /\ hist[i].old = k
                                   /\ \A j \in DOMAIN hist : j > i => hist[j].old # k }

\* One iteration of lookup's loop: stay on a held nick, otherwise follow the
\* newest rename away from it that is still inside the window.
Hop(k) == IF users[k] # None \/ Newest(k) = {}
            THEN k
            ELSE hist[CHOOSE i \in Newest(k) : TRUE].new

Hop2(k) == Hop(Hop(k))
Hop4(k) == Hop2(Hop2(k))

\* lookup: the holder reached in at most eight hops, or None.
lookup(k) == users[Hop4(Hop4(k))]

holder_looks_stale(h) == h \in pingOut \/ <<"silence", h>> \in elapsed

-----------------------------------------------------------------------------
(* Clocks.  A line restamps last_rx; a record takes last_rx and            *)
(* connected_at with it when it goes; a ping and a marker have clocks of   *)
(* their own, started when they are installed.                             *)

Clock(w, c) == <<w, c>>
Stamped(c)  == {Clock("silence", c), Clock("ping", c)}
RecordClocks(S) == {"silence", "ping", "registration"} \X S

Running(w, c) ==
  CASE w \in {"silence", "ping"} -> Registered(c)
    [] w = "registration"        -> c \in unreg
    [] w = "eviction"            -> c \in pingOut
    [] OTHER                     -> mark[c].on

\* Time passes until one more window has run out.
Elapse(w, c) ==
  /\ Unlocked
  /\ Running(w, c)
  /\ elapsed' = elapsed \cup {Clock(w, c)}
  /\ UNCHANGED <<reader, unreg, users, cx, welcomes, hist, pingOut, mark, due, todo>>

\* The oldest rename leaves RENAME_WINDOW.
HistoryAges ==
  /\ Unlocked
  /\ hist # << >>
  /\ hist' = Tail(hist)
  /\ UNCHANGED <<reader, unreg, users, cx, welcomes, pingOut, mark, elapsed, due, todo>>

-----------------------------------------------------------------------------
(* The tables' own operations (state.rs)                                   *)

\* evict, for every connection of S: the record leaves whichever table has it.
evict(S) ==
  /\ unreg' = unreg \ S
  /\ users' = [k \in Nicks |-> IF users[k] \in S THEN None ELSE users[k]]
  /\ cx' = [c \in Conns |-> IF c \in S THEN FreshCx ELSE cx[c]]

\* Mutant: the history is never trimmed.
record_rename_untrimmed(old, new) == hist' = Append(hist, [old |-> old, new |-> new])

\* record_rename: push the entry, dropping the oldest past the cap.
record_rename(old, new) ==
  LET h == Append(hist, [old |-> old, new |-> new])
  IN  hist' = IF Len(h) > HistoryCap THEN Tail(h) ELSE h

\* Mutant: the old key is not removed from the user table.
apply_rename_keeps_old(c, k) ==
  /\ record_rename(cx[c].nick, k)
  /\ users' = [users EXCEPT ![k] = c]
  /\ cx' = [cx EXCEPT ![c].nick = k]

\* apply_rename: a registered c moves to the free nick k.
apply_rename(c, k) ==
  /\ record_rename(cx[c].nick, k)
  /\ users' = [users EXCEPT ![cx[c].nick] = None, ![k] = c]
  /\ cx' = [cx EXCEPT ![c].nick = k]

-----------------------------------------------------------------------------
(* Completing the pairing                                                  *)

Ready(c, rec) == /\ Live(c)
                 /\ ~rec.registered
                 /\ rec.pendingNick # None
                 /\ rec.pendingUser

\* Mutant: having been sent the challenge is taken for having answered it.
Cleared_when_challenged(rec) == Challenge => rec.challenged

\* The anti-bot challenge lets the record through.
Cleared(rec) == Challenge => rec.verified

\* An active marker on whoever lookup finds for the nick defers the outcome.
HeldBack(k, marks) == \E h \in Conns : lookup(k) = h /\ marks[h].on

\* register succeeds: the record moves to the user table, and the welcome
\* goes out unless a capability negotiation is under way.
register(c, rec) ==
  /\ unreg' = unreg \ {c}
  /\ users' = [users EXCEPT ![rec.pendingNick] = c]
  /\ cx' = [cx EXCEPT ![c] = [rec EXCEPT !.registered = TRUE,
                                         !.nick = rec.pendingNick,
                                         !.gated = rec.negotiating]]
  /\ welcomes' = [welcomes EXCEPT ![c] = @ + (IF rec.negotiating THEN 0 ELSE 1)]

\* Keep the record as the caller left it; nobody's table entry changes.
Parked(c, rec) == /\ cx' = [cx EXCEPT ![c] = rec]
                  /\ UNCHANGED <<unreg, users, welcomes>>

\* maybe_complete for c, whose record the caller has just made rec, with the
\* caller's own change to the markers already in marks.
maybe_complete(c, rec, marks) ==
  \/ /\ ~Ready(c, rec)
     /\ Parked(c, rec)
  \/ /\ Ready(c, rec) /\ ~Cleared(rec)
     /\ Parked(c, [rec EXCEPT !.challenged = TRUE])
  \/ /\ Ready(c, rec) /\ Cleared(rec)
     /\ HeldBack(rec.pendingNick, marks)
     /\ Parked(c, rec)
  \/ /\ Ready(c, rec) /\ Cleared(rec)
     /\ ~HeldBack(rec.pendingNick, marks)
     /\ IF nick_free(rec.pendingNick)
          THEN register(c, rec)
          ELSE Parked(c, rec)       \* 433

-----------------------------------------------------------------------------
(* Connection arrival and departure                                        *)

\* park_unregistered: an admitted socket gets its record and reader task.
Park(c) ==
  /\ Unlocked
  /\ reader[c] = "none"
  /\ reader' = [reader EXCEPT ![c] = "run"]
  /\ unreg' = unreg \cup {c}
  /\ cx' = [cx EXCEPT ![c] = FreshCx]
  /\ UNCHANGED <<users, welcomes, hist, pingOut, mark, elapsed, due, todo>>

\* Mutant: with nothing to announce, an unregistered record is left behind.
Close_leaves_unregistered(c) ==
  /\ Reads(c)
  /\ reader' = [reader EXCEPT ![c] = "done"]
  /\ IF Registered(c) THEN evict({c}) ELSE UNCHANGED <<unreg, users, cx>>
  /\ elapsed' = elapsed \ RecordClocks({c})
  /\ UNCHANGED <<welcomes, hist, pingOut, mark, due, todo>>

\* The reader ends: QUIT, EOF, a socket error, an excess flood, or the close
\* signal of an eviction.  Whatever record is left is removed.
Close(c) ==
  /\ Reads(c)
  /\ reader' = [reader EXCEPT ![c] = "done"]
  /\ evict({c})
  /\ elapsed' = elapsed \ RecordClocks({c})
  /\ UNCHANGED <<welcomes, hist, pingOut, mark, due, todo>>

\* Somebody else removes the record: KILL, KLINE, a services GHOST.  The
\* reader is only signalled; it may miss the signal and read on.
Kill(c) ==
  /\ Unlocked
  /\ Live(c)
  /\ evict({c})
  /\ elapsed' = elapsed \ RecordClocks({c})
  /\ UNCHANGED <<reader, welcomes, hist, pingOut, mark, due, todo>>

-----------------------------------------------------------------------------
(* Commands.  Each is the part of ops::route and its handler that touches  *)
(* this state; the stamp on last_rx comes first.                           *)

\* A command with no effect here beyond the stamp: any other command, one
\* refused by its handler, or one dropped by the flood budget.
OtherLine(c) ==
  /\ Reads(c)
  /\ elapsed' = elapsed \ Stamped(c)
  /\ UNCHANGED <<reader, unreg, users, cx, welcomes, hist, pingOut, mark, due, todo>>

\* begin_reclaim on holder h: ping it unless a ping is out, and record the
\* requests in its marker, which keeps its expiry if it was already there.
begin_reclaim(h, pairings, renames) ==
  [mark EXCEPT ![h] = [on       |-> TRUE,
                       pairings |-> @.pairings \o pairings,
                       renames  |-> @.renames \o renames]]

HasRoom(h) == Len(mark[h].pairings) + Len(mark[h].renames) < MaxHeld

\* NICK to a nick whose holder answers, or to the sender's own: 433.
NickInUse(c, k) ==
  /\ Reads(c)
  /\ \/ Registered(c) /\ ~nick_free(k)
     \/ ~Registered(c) /\ lookup(k) # None
  /\ lookup(k) = c \/ ~holder_looks_stale(lookup(k))
  /\ elapsed' = elapsed \ Stamped(c)
  /\ UNCHANGED <<reader, unreg, users, cx, welcomes, hist, pingOut, mark, due, todo>>

\* NICK of a registered user to a free nick.
NickRename(c, k) ==
  /\ Reads(c)
  /\ Registered(c)
  /\ nick_free(k)
  /\ apply_rename(c, k)
  /\ elapsed' = elapsed \ Stamped(c)
  /\ UNCHANGED <<reader, unreg, welcomes, pingOut, mark, due, todo>>

\* NICK of a registered user to a nick whose holder h looks stale.
NickContest(c, k, h) ==
  /\ Reads(c)
  /\ Registered(c)
  /\ users[k] = h /\ h # c
  /\ holder_looks_stale(h)
  /\ HasRoom(h)
  /\ mark' = begin_reclaim(h, << >>, <<[id |-> c, nick |-> k]>>)
  /\ pingOut' = pingOut \cup {h}
  /\ elapsed' = elapsed \ Stamped(c)
  /\ UNCHANGED <<reader, unreg, users, cx, welcomes, hist, due, todo>>

\* The record after `pending_nick = Some(k)', for a connection that has one.
Pending(c, k) == IF Live(c) THEN [cx[c] EXCEPT !.pendingNick = k] ELSE cx[c]

\* NICK before registration, nobody found under the nick.
NickPair(c, k) ==
  /\ Reads(c)
  /\ ~Registered(c)
  /\ lookup(k) = None
  /\ maybe_complete(c, Pending(c, k), mark)
  /\ elapsed' = elapsed \ Stamped(c)
  /\ UNCHANGED <<reader, hist, pingOut, mark, due, todo>>

\* NICK before registration, and the holder h that lookup finds looks stale.
NickPairContest(c, k, h) ==
  /\ Reads(c)
  /\ ~Registered(c)
  /\ lookup(k) = h
  /\ holder_looks_stale(h)
  /\ HasRoom(h)
  /\ mark' = begin_reclaim(h, <<[id |-> c, nick |-> k]>>, << >>)
  /\ pingOut' = pingOut \cup {h}
  /\ maybe_complete(c, Pending(c, k), mark')
  /\ elapsed' = elapsed \ Stamped(c)
  /\ UNCHANGED <<reader, hist, due, todo>>

User(c) ==
  /\ Reads(c)
  /\ Live(c) /\ ~cx[c].registered
  /\ maybe_complete(c, [cx[c] EXCEPT !.pendingUser = TRUE], mark)
  /\ elapsed' = elapsed \ Stamped(c)
  /\ UNCHANGED <<reader, hist, pingOut, mark, due, todo>>

\* CAP LS and CAP REQ open a negotiation, before or after registration.
CapBegin(c) ==
  /\ Reads(c)
  /\ Live(c)
  /\ cx' = [cx EXCEPT ![c].negotiating = TRUE]
  /\ elapsed' = elapsed \ Stamped(c)
  /\ UNCHANGED <<reader, unreg, users, welcomes, hist, pingOut, mark, due, todo>>

\* Mutant: the withheld welcome stays owed after it was sent.
CapEnd_still_owed(c) ==
  /\ Reads(c)
  /\ Live(c)
  /\ cx' = [cx EXCEPT ![c].negotiating = FALSE]
  /\ welcomes' = [welcomes EXCEPT
                    ![c] = @ + (IF cx[c].registered /\ cx[c].gated THEN 1 ELSE 0)]
  /\ elapsed' = elapsed \ Stamped(c)
  /\ UNCHANGED <<reader, unreg, users, hist, pingOut, mark, due, todo>>

\* CAP END closes it and sends the welcome it withheld.
CapEnd(c) ==
  /\ Reads(c)
  /\ Live(c)
  /\ LET owed == cx[c].registered /\ cx[c].gated
     IN  /\ cx' = [cx EXCEPT ![c].negotiating = FALSE,
                             ![c].gated = IF owed THEN FALSE ELSE @]
         /\ welcomes' = [welcomes EXCEPT ![c] = @ + (IF owed THEN 1 ELSE 0)]
  /\ elapsed' = elapsed \ Stamped(c)
  /\ UNCHANGED <<reader, unreg, users, hist, pingOut, mark, due, todo>>

\* PONG answers the registration challenge first, then an outstanding ping
\* and with it the reclaim marker, whose requesters all hear 433.
AwaitsChallenge(c) == /\ Live(c) /\ ~cx[c].registered
                      /\ cx[c].challenged /\ ~cx[c].verified

\* Mutant: PONG settles the ping and forgets the marker.
Pong_keeps_marker(c) ==
  /\ Reads(c)
  /\ IF AwaitsChallenge(c)
       THEN maybe_complete(c, [cx[c] EXCEPT !.verified = TRUE], mark)
       ELSE UNCHANGED <<unreg, users, cx, welcomes>>
  /\ pingOut' = pingOut \ {c}
  /\ elapsed' = elapsed \ ({Clock("eviction", c)} \cup Stamped(c))
  /\ UNCHANGED <<reader, hist, mark, due, todo>>

Pong(c) ==
  /\ Reads(c)
  /\ IF AwaitsChallenge(c)
       THEN maybe_complete(c, [cx[c] EXCEPT !.verified = TRUE], mark)
       ELSE UNCHANGED <<unreg, users, cx, welcomes>>
  /\ pingOut' = pingOut \ {c}
  /\ mark' = IF c \in pingOut THEN [mark EXCEPT ![c] = NoMark] ELSE mark
  /\ elapsed' = elapsed \ ((IF c \in pingOut THEN {Clock("eviction", c), Clock("grace", c)}
                                             ELSE {})
                           \cup Stamped(c))
  /\ UNCHANGED <<reader, hist, due, todo>>

-----------------------------------------------------------------------------
(* The supervisor's ticks                                                  *)

\* Mutants: a half-filled pairing escapes the deadline; the ping of a
\* connection that is already gone is never expired.
LateUnreg_only_blank ==
  { c \in unreg : Clock("registration", c) \in elapsed /\ cx[c].pendingNick = None }
LatePings_of_users ==
  { c \in pingOut : Clock("eviction", c) \in elapsed /\ Registered(c) }

\* liveness_tick: evict overdue pairings and overdue pings, then ping the
\* registered users that have been silent too long.
LateUnreg == { c \in unreg : Clock("registration", c) \in elapsed }
LatePings == { c \in pingOut : Clock("eviction", c) \in elapsed }
Silent(S) == { c \in Conns \ S : Registered(c) /\ Clock("ping", c) \in elapsed }

liveness_tick ==
  /\ Unlocked
  /\ LET S == LateUnreg \cup LatePings
     IN  /\ evict(S)
         /\ pingOut' = (pingOut \ LatePings) \cup Silent(S)
         /\ elapsed' = elapsed \ (RecordClocks(S) \cup ({"eviction"} \X LatePings))
  /\ UNCHANGED <<reader, welcomes, hist, mark, due, todo>>

\* Mutant: the markers of holders that have already left are passed over.
ReclaimStart_live_only ==
  /\ Unlocked
  /\ due' = { h \in Conns : mark[h].on /\ Clock("grace", h) \in elapsed /\ Live(h) }
  /\ UNCHANGED <<reader, unreg, users, cx, welcomes, hist, pingOut, mark, elapsed, todo>>

\* reclaim_tick, the expired markers collected...
ReclaimStart ==
  /\ Unlocked
  /\ due' = { h \in Conns : mark[h].on /\ Clock("grace", h) \in elapsed }
  /\ UNCHANGED <<reader, unreg, users, cx, welcomes, hist, pingOut, mark, elapsed, todo>>

\* ...one holder evicted, in no particular order (a HashMap's)...
Requests(pairing, s) ==
  [ i \in DOMAIN s |-> [pairing |-> pairing, id |-> s[i].id, nick |-> s[i].nick] ]

ReclaimHolder(h) ==
  /\ todo = << >>
  /\ h \in due
  /\ due' = due \ {h}
  /\ mark' = [mark EXCEPT ![h] = NoMark]
  /\ pingOut' = pingOut \ {h}
  /\ evict({h})
  /\ elapsed' = elapsed \ (RecordClocks({h}) \cup {Clock("eviction", h), Clock("grace", h)})
  /\ todo' = Requests(TRUE, mark[h].pairings) \o Requests(FALSE, mark[h].renames)
  /\ UNCHANGED <<reader, welcomes, hist>>

\* ...and its requesters served in order: complete_pairing_if_ready for a
\* pairing, finish_deferred_rename for a rename.
ReclaimPairing ==
  /\ todo # << >> /\ Head(todo).pairing
  /\ maybe_complete(Head(todo).id, cx[Head(todo).id], mark)
  /\ todo' = Tail(todo)
  /\ UNCHANGED <<reader, hist, pingOut, mark, elapsed, due>>

\* Mutant: the deferred rename does not look again whether the nick is free.
ReclaimRename_unchecked ==
  /\ todo # << >> /\ ~Head(todo).pairing
  /\ LET c == Head(todo).id
     IN  IF Registered(c) THEN apply_rename(c, Head(todo).nick)
                          ELSE UNCHANGED <<users, cx, hist>>
  /\ todo' = Tail(todo)
  /\ UNCHANGED <<reader, unreg, welcomes, pingOut, mark, elapsed, due>>

ReclaimRename ==
  /\ todo # << >> /\ ~Head(todo).pairing
  /\ LET c == Head(todo).id
         k == Head(todo).nick
     IN  IF Registered(c) /\ nick_free(k)
           THEN apply_rename(c, k)
           ELSE UNCHANGED <<users, cx, hist>>
  /\ todo' = Tail(todo)
  /\ UNCHANGED <<reader, unreg, welcomes, pingOut, mark, elapsed, due>>

reclaim_tick == \/ ReclaimStart
                \/ \E h \in Conns : ReclaimHolder(h)
                \/ ReclaimPairing
                \/ ReclaimRename

-----------------------------------------------------------------------------

Command(c) == \/ OtherLine(c) \/ User(c) \/ CapBegin(c) \/ CapEnd(c) \/ Pong(c)
              \/ \E k \in Nicks : \/ NickInUse(c, k) \/ NickRename(c, k) \/ NickPair(c, k)
                                  \/ \E h \in Conns : \/ NickContest(c, k, h)
                                                      \/ NickPairContest(c, k, h)

Next == \/ \E c \in Conns : Park(c) \/ Close(c) \/ Kill(c) \/ Command(c)
        \/ \E w \in Windows, c \in Conns : Elapse(w, c)
        \/ HistoryAges
        \/ liveness_tick
        \/ reclaim_tick

Spec == Init /\ [][Next]_vars

\* The supervisor loop polls both intervals for as long as the server runs,
\* a tick that has the lock finishes, and time does not stop.  Clients, and
\* the operators behind Kill, owe nothing.
Fairness == /\ WF_vars(liveness_tick)
            /\ WF_vars(reclaim_tick)
            /\ \A w \in Windows, c \in Conns : WF_vars(Elapse(w, c))

LiveSpec == Spec /\ Fairness

-----------------------------------------------------------------------------
(* Properties                                                              *)

\* The user table and the records agree: a nick leads to a registered record
\* that carries it, a registered record is found under its nick, and nobody
\* is in both tables.  register, apply_rename and evict each update one side
\* after the other and could leave a ghost nick or an unreachable session.
NickTable ==
  /\ \A k \in Nicks : users[k] # None =>
       /\ users[k] \notin unreg
       /\ cx[users[k]].registered
       /\ cx[users[k]].nick = k
  /\ \A c \in Conns : cx[c].registered =>
       /\ cx[c].nick \in Nicks
       /\ users[cx[c].nick] = c

\* No record outlives its reader task: whichever way run_reader ends, the
\* record is gone, so the tables never hold a session nobody serves.
NoOrphanRecord == \A c \in Conns : Live(c) => reader[c] = "run"

\* A live holder under a reclaim marker has an unanswered ping, so its PONG
\* will find the marker and clear it; liveness_tick, reclaim_tick and PONG
\* each drop pings on their own.
MarkPinged == \A h \in Conns : mark[h].on /\ Live(h) => h \in pingOut

\* With the challenge on, nobody is in the user table who has not answered
\* it, on any of the four paths into maybe_complete.
ChallengeKept == Challenge => \A c \in Conns : Registered(c) => cx[c].verified

\* The welcome is sent once; a registered user still without it has an open
\* negotiation whose CAP END will send it.
WelcomeOnce ==
  \A c \in Conns :
    /\ welcomes[c] <= 1
    /\ Registered(c) /\ welcomes[c] = 0 => cx[c].gated /\ cx[c].negotiating

\* The nick table implements nick ownership; a connection has left once its
\* record is gone.
Ownership == INSTANCE NickOwnership WITH
  owner <- users,
  left  <- { c \in Conns : reader[c] # "none" /\ ~Live(c) }

OwnershipSpec == Ownership!Spec

\* No reclaim marker stays for ever: its requesters are served or refused.
MarkResolved == \A h \in Conns : mark[h].on ~> ~mark[h].on

\* No connection stays unregistered for ever and holds its admission slot.
PairingEnds == \A c \in Conns : c \in unreg ~> c \notin unreg

\* Every ping is settled: answered, or its target removed.
PingSettled == \A c \in Conns : c \in pingOut ~> c \notin pingOut

=============================================================================
