----------------------------- MODULE Connections -----------------------------
(***************************************************************************)
(* One task per accepted socket (ops::admit_and_run): find the client's    *)
(* address, ask the ban list and the admission limits for a slot, do the   *)
(* TLS handshake, park the session's record, read lines until something    *)
(* ends the session, and give the slot back.                               *)
(*                                                                         *)
(* The state lock is held from one await to the next at most, so an action *)
(* is one critical section, or one await that completes.  The tasks meet   *)
(* in the source table (limits.rs), the ban list (bans.rs) and the session *)
(* records; a task that removes another's record can only notify its       *)
(* reader, and tokio's notify_waiters reaches a reader only while it waits *)
(* in one of its two select!s.                                             *)
(*                                                                         *)
(* Registration says when a session registers; here any line of an         *)
(* unregistered session may do so, and any record may be evicted.          *)
(***************************************************************************)
EXTENDS Naturals, FiniteSets

CONSTANTS Conns,        \* connection ids, handed out once each (NEXT_ID)
          Addrs,        \* client and proxy addresses
          Keys,         \* what the limits are kept by
          KeyOf,        \* limits::source_key
          Peers,        \* the addresses that open TCP connections to us
          Masks,        \* K-line masks, each the set of addresses it matches
          Listeners,    \* the ports that are open
          Mode,         \* each port's ProxyMode
          HeaderFree,   \* IRC_PROXY_PROTOCOL_EXEMPT
          Trusted,      \* IRC_PROXY_TRUSTED; {} when it is not set
          Exempt,       \* Limits.exempt: the addresses and keys it matches
          MaxClients, MaxClones, MaxConnects, MaxMessages, MaxViolations

ASSUME FiniteAssumption == IsFiniteSet(Conns)
ASSUME AddrAssumption   == Addrs # {}
ASSUME KeyAssumption    == KeyOf \in [Addrs -> Keys]
ASSUME PeerAssumption   == Peers \subseteq Addrs
ASSUME ModeAssumption   == /\ Listeners \subseteq {"plain", "tls"}
                           /\ Mode \in [Listeners -> {"off", "optional", "required"}]
ASSUME LimitAssumption  == {MaxClients, MaxClones, MaxConnects,
                            MaxMessages, MaxViolations} \subseteq Nat

VARIABLES
  pc,      \* where each task is
  sock,    \* what a task knows of its socket; meaningful once accepted
  hung,    \* the clients that have closed their end
  woken,   \* the readers whose notified() future has been completed
  rec,     \* the session's record: "none", "unreg" or "user"
  bans,    \* BanStore.bans: the masks in force
  src,     \* SourceTable.sources
  total,   \* SourceTable.active_total
  opened,  \* per key, the counted admissions of the last connect_window
  said     \* per key, the counted messages of the last message_window

vars == <<pc, sock, hung, woken, rec, bans, src, total, opened, said>>

\* Between try_admit and release; a task that returned in between without
\* releasing is "leaked".
Serving == {"probe", "handshake", "park", "wait", "busy", "flush", "last", "closing"}
PcType  == {"new", "resolve", "judge", "done", "leaked"} \cup Serving

SockType == [port : {"plain", "tls"}, peer : Addrs, host : Addrs, exempt : BOOLEAN]

Source     == [tracked : BOOLEAN, active : Nat, connects : Nat,
               messages : Nat, violations : Nat]
NoSource   == [tracked |-> FALSE, active |-> 0, connects |-> 0,
               messages |-> 0, violations |-> 0]

TypeOK ==
  /\ pc \in [Conns -> PcType]
  /\ sock \in [Conns -> SockType]
  /\ hung \in SUBSET Conns
  /\ woken \in SUBSET Conns
  /\ rec \in [Conns -> {"none", "unreg", "user"}]
  /\ bans \in SUBSET Masks
  /\ src \in [Keys -> Source]
  /\ total \in Nat
  /\ opened \in [Keys -> Nat]
  /\ said \in [Keys -> Nat]

AnySock == [port |-> "plain", peer |-> CHOOSE a \in Addrs : TRUE,
            host |-> CHOOSE a \in Addrs : TRUE, exempt |-> FALSE]

Init ==
  /\ pc = [c \in Conns |-> "new"]
  /\ sock = [c \in Conns |-> AnySock]
  /\ hung = {}
  /\ woken = {}
  /\ rec = [c \in Conns |-> "none"]
  /\ bans = {}
  /\ src = [k \in Keys |-> NoSource]
  /\ total = 0
  /\ opened = [k \in Keys |-> 0]
  /\ said = [k \in Keys |-> 0]

-----------------------------------------------------------------------------
(* Finding the client's address                                            *)

At(c, label) == pc[c] = label
Goto(c, label) == pc' = [pc EXCEPT ![c] = label]

\* The task is over, and with it the socket and what was known of it.
Returns(c) ==
  /\ Goto(c, "done")
  /\ sock' = [sock EXCEPT ![c] = AnySock]
  /\ hung' = hung \ {c}

key(c) == KeyOf[sock[c].host]

proxy_trust_configured == Trusted # {}
proxy_trusted_peer(p)  == proxy_trust_configured => p \in Trusted

WantsHeader(c) == Mode[sock[c].port] # "off" /\ sock[c].peer \notin HeaderFree

\* spawn_connection, spawn_tls_connection.
Accept(c, l, p) ==
  /\ At(c, "new")
  /\ Goto(c, "resolve")
  /\ sock' = [sock EXCEPT ![c] = [AnySock EXCEPT !.port = l, !.peer = p]]
  /\ UNCHANGED <<hung, woken, rec, bans, src, total, opened, said>>

\* Mutant: the exemption always goes by the TCP peer.
Resolved_by_peer(c, a, trusted_header) ==
  /\ Goto(c, "judge")
  /\ sock' = [sock EXCEPT ![c].host = a, ![c].exempt = sock[c].peer \in Exempt]
  /\ UNCHANGED <<hung, woken, rec, bans, src, total, opened, said>>

\* The address is known: a.  The exemption goes by that address if it came
\* over an explicitly trusted path, and by the peer otherwise.
Resolved(c, a, trusted_header) ==
  /\ Goto(c, "judge")
  /\ sock' = [sock EXCEPT ![c].host = a,
                          ![c].exempt = (IF trusted_header THEN KeyOf[a] ELSE sock[c].peer) \in Exempt]
  /\ UNCHANGED <<hung, woken, rec, bans, src, total, opened, said>>

\* No header is looked for, or none came on a port that can do without.
ResolvePeer(c) ==
  /\ At(c, "resolve")
  /\ WantsHeader(c) => Mode[sock[c].port] = "optional"
  /\ Resolved(c, sock[c].peer, FALSE)

\* A well-formed header naming a, from a peer that may send one.
ResolveHeader(c, a) ==
  /\ At(c, "resolve")
  /\ WantsHeader(c)
  /\ proxy_trusted_peer(sock[c].peer)
  /\ Resolved(c, a, proxy_trust_configured)

\* A header from an untrusted peer, one that is malformed or names nobody,
\* none where one is required, a hang-up, ten seconds of silence; or a
\* socket that is gone before it was looked at.
RefuseHeader(c) ==
  /\ At(c, "resolve")
  /\ WantsHeader(c) \/ c \in hung
  /\ Returns(c)
  /\ UNCHANGED <<woken, rec, bans, src, total, opened, said>>

-----------------------------------------------------------------------------
(* Bans and admission, under one lock                                      *)

Banned(a) == \E m \in bans : a \in m

\* sources.entry(key).or_default()
Entry(k) == [src[k] EXCEPT !.tracked = TRUE]

Full      == MaxClients > 0 /\ total >= MaxClients
Clones(k) == MaxClones > 0 /\ src[k].active >= MaxClones
TooFast(k) == MaxConnects > 0 /\ src[k].connects >= MaxConnects

Admitted(c) == Goto(c, IF sock[c].port = "tls" THEN "probe" ELSE "park")

\* The ban list, or one of the three limits, turns the client away.  The two
\* per-source limits leave an entry behind.
Refuse(c) ==
  /\ At(c, "judge")
  /\ LET k == key(c)
     IN  \/ /\ Banned(sock[c].host)
            /\ UNCHANGED src
         \/ /\ ~Banned(sock[c].host) /\ ~sock[c].exempt
            /\ Full
            /\ UNCHANGED src
         \/ /\ ~Banned(sock[c].host) /\ ~sock[c].exempt
            /\ ~Full /\ (Clones(k) \/ TooFast(k))
            /\ src' = [src EXCEPT ![k] = Entry(k)]
  /\ Returns(c)
  /\ UNCHANGED <<woken, rec, bans, total, opened, said>>

\* try_admit for an exempt client: the slot counts only against its source.
AdmitExempt(c) ==
  /\ At(c, "judge")
  /\ ~Banned(sock[c].host)
  /\ sock[c].exempt
  /\ Admitted(c)
  /\ src' = [src EXCEPT ![key(c)] = [Entry(key(c)) EXCEPT !.active = @ + 1]]
  /\ UNCHANGED <<sock, hung, woken, rec, bans, total, opened, said>>

\* Mutant: the clone cap admits one connection too many.
Admit_past_cap(c) ==
  LET k == key(c)
  IN  /\ At(c, "judge")
      /\ ~Banned(sock[c].host)
      /\ ~sock[c].exempt
      /\ ~Full
      /\ MaxClones > 0 => src[k].active <= MaxClones
      /\ ~TooFast(k)
      /\ Admitted(c)
      /\ src' = [src EXCEPT ![k] = [Entry(k) EXCEPT !.active = @ + 1, !.connects = @ + 1]]
      /\ total' = total + 1
      /\ opened' = [opened EXCEPT ![k] = @ + 1]
      /\ UNCHANGED <<sock, hung, woken, rec, bans, said>>

\* try_admit for everyone else.
Admit(c) ==
  LET k == key(c)
  IN  /\ At(c, "judge")
      /\ ~Banned(sock[c].host)
      /\ ~sock[c].exempt
      /\ ~Full /\ ~Clones(k) /\ ~TooFast(k)
      /\ Admitted(c)
      /\ src' = [src EXCEPT ![k] = [Entry(k) EXCEPT !.active = @ + 1, !.connects = @ + 1]]
      /\ total' = total + 1
      /\ opened' = [opened EXCEPT ![k] = @ + 1]
      /\ UNCHANGED <<sock, hung, woken, rec, bans, said>>

-----------------------------------------------------------------------------
(* The TLS port, between admission and the session                         *)

\* The first byte is there (peek).
Probe(c) ==
  /\ At(c, "probe") /\ c \notin hung
  /\ Goto(c, "handshake")
  /\ UNCHANGED <<sock, hung, woken, rec, bans, src, total, opened, said>>

\* The client closed without a byte, and the task returns there and then.
ProbeGone(c) ==
  /\ At(c, "probe") /\ c \in hung
  /\ Goto(c, "leaked")
  /\ UNCHANGED <<sock, hung, woken, rec, bans, src, total, opened, said>>

Handshake(c) ==
  /\ At(c, "handshake") /\ c \notin hung
  /\ Goto(c, "park")
  /\ UNCHANGED <<sock, hung, woken, rec, bans, src, total, opened, said>>

\* Mutant: a failed handshake returns the way a bare probe does.
HandshakeFails_returns(c) ==
  /\ At(c, "handshake")
  /\ Goto(c, "leaked")
  /\ UNCHANGED <<sock, hung, woken, rec, bans, src, total, opened, said>>

HandshakeFails(c) ==
  /\ At(c, "handshake")
  /\ Goto(c, "closing")
  /\ UNCHANGED <<sock, hung, woken, rec, bans, src, total, opened, said>>

-----------------------------------------------------------------------------
(* The session                                                             *)

\* park_unregistered, then the reader's first select!.
Park(c) ==
  /\ At(c, "park")
  /\ Goto(c, "wait")
  /\ rec' = [rec EXCEPT ![c] = "unreg"]
  /\ UNCHANGED <<sock, hung, woken, bans, src, total, opened, said>>

\* The readers that a notification would reach.
Listening(c) == pc[c] \in {"wait", "flush", "last"}

\* Mutant: the records go without a signal to their readers.
Evicted_unsignalled(S) ==
  /\ rec' = [c \in Conns |-> IF c \in S THEN "none" ELSE rec[c]]
  /\ UNCHANGED woken

\* evict, for every connection of S: the record goes, and its signal_close
\* notifies whoever is listening at that moment.
Evicted(S) ==
  /\ rec' = [c \in Conns |-> IF c \in S THEN "none" ELSE rec[c]]
  /\ woken' = woken \cup { c \in S : rec[c] # "none" /\ Listening(c) }

\* The select! of run_reader takes the read; a notification that was ready
\* as well goes with the dropped future.
Read(c) ==
  /\ At(c, "wait") /\ c \notin hung
  /\ Goto(c, "busy")
  /\ woken' = woken \ {c}
  /\ UNCHANGED <<sock, hung, rec, bans, src, total, opened, said>>

\* Mutant: the reader ends and leaves its record behind.
Ended_without_cleanup(c) ==
  /\ Goto(c, "closing")
  /\ woken' = woken \ {c}
  /\ UNCHANGED rec

\* cleanup_on_eof, whichever way the reader ends.
Ended(c) ==
  /\ Goto(c, "closing")
  /\ rec' = [rec EXCEPT ![c] = "none"]
  /\ woken' = woken \ {c}

\* EOF, a socket error, a stream without line ends; or the notification.
ReaderEnds(c) ==
  /\ At(c, "wait")
  /\ Ended(c)
  /\ UNCHANGED <<sock, hung, bans, src, total, opened, said>>

Told(c) == c \in woken \/ c \in hung

\* charge_message counts c's line against its source...
Counts(c)     == ~sock[c].exempt /\ MaxMessages > 0
OverBudget(k) == src[k].messages >= MaxMessages
Offender(k)   == MaxViolations > 0 /\ src[k].violations + 1 >= MaxViolations

\* ...within the budget...
Charged(c) ==
  IF Counts(c)
    THEN /\ src' = [src EXCEPT ![key(c)] = [Entry(key(c)) EXCEPT !.messages = @ + 1]]
         /\ said' = [said EXCEPT ![key(c)] = @ + 1]
    ELSE UNCHANGED <<src, said>>

\* ...or past it, where the line is dropped or the connection closed, after
\* its ERROR has been queued.
LineOver(c) ==
  /\ At(c, "busy")
  /\ Counts(c) /\ OverBudget(key(c))
  /\ src' = [src EXCEPT ![key(c)] = [Entry(key(c)) EXCEPT !.violations = @ + 1]]
  /\ IF Offender(key(c))
       THEN \/ Ended(c)
            \/ rec[c] # "none" /\ Goto(c, "last") /\ UNCHANGED <<rec, woken>>
       ELSE Goto(c, "wait") /\ UNCHANGED <<rec, woken>>
  /\ UNCHANGED <<sock, hung, bans, total, opened, said>>

\* A line is handled: it may complete the registration, and its reply may
\* have to wait for room in the queue.  A reader without a record has no
\* queue to wait for.
Handled(c) ==
  /\ \/ UNCHANGED rec
     \/ rec[c] = "unreg" /\ rec' = [rec EXCEPT ![c] = "user"]
  /\ \/ Goto(c, "wait")
     \/ rec[c] # "none" /\ Goto(c, "flush")
  /\ UNCHANGED woken

Line(c) ==
  /\ At(c, "busy")
  /\ Counts(c) => ~OverBudget(key(c))
  /\ Charged(c)
  /\ Handled(c)
  /\ UNCHANGED <<sock, hung, bans, total, opened>>

\* An operator's line, and one dropped before the budget (a numeric, a false
\* prefix, bad grammar), is not charged.
FreeLine(c) ==
  /\ At(c, "busy")
  /\ \/ rec[c] = "user" /\ Handled(c)
     \/ Goto(c, "wait") /\ UNCHANGED <<rec, woken>>
  /\ UNCHANGED <<sock, hung, bans, src, total, opened, said>>

\* QUIT is behind the registration gate, and ends the session.
Quit(c) ==
  /\ At(c, "busy")
  /\ rec[c] = "user"
  /\ Counts(c) => ~OverBudget(key(c))
  /\ Charged(c)
  /\ Ended(c)
  /\ UNCHANGED <<sock, hung, bans, total, opened>>

\* write_reply: the biased select! sees a notification first; otherwise the
\* writer makes room, or is gone and the queue closed.
Flushed(c) ==
  /\ pc[c] \in {"flush", "last"}
  /\ \/ Ended(c)
     \/ At(c, "flush") /\ c \notin woken /\ Goto(c, "wait") /\ UNCHANGED <<rec, woken>>
  /\ UNCHANGED <<sock, hung, bans, src, total, opened, said>>

-----------------------------------------------------------------------------
(* The slot goes back                                                      *)

Pred(n) == IF n = 0 THEN 0 ELSE n - 1     \* saturating_sub(1)

\* Mutants: an exempt client's slot is taken off the global count, with or
\* without saturation; an entry without connections goes, whatever history
\* it has.
Release_wraps(c) ==
  LET k == key(c)
      e == [src[k] EXCEPT !.active = Pred(@)]
  IN  /\ At(c, "closing")
      /\ Returns(c)
      /\ src' = [src EXCEPT ![k] = IF e.active = 0 /\ e.connects = 0 THEN NoSource ELSE e]
      /\ total' = total - 1
      /\ UNCHANGED <<woken, rec, bans, opened, said>>
Release_exempt_too(c) ==
  LET k == key(c)
      e == [src[k] EXCEPT !.active = Pred(@)]
  IN  /\ At(c, "closing")
      /\ Returns(c)
      /\ src' = [src EXCEPT ![k] = IF e.active = 0 /\ e.connects = 0 THEN NoSource ELSE e]
      /\ total' = Pred(total)
      /\ UNCHANGED <<woken, rec, bans, opened, said>>
Release_forgets(c) ==
  LET k == key(c)
      e == [src[k] EXCEPT !.active = Pred(@)]
  IN  /\ At(c, "closing")
      /\ Returns(c)
      /\ src' = [src EXCEPT ![k] = IF e.active = 0 THEN NoSource ELSE e]
      /\ total' = IF sock[c].exempt THEN total ELSE Pred(total)
      /\ UNCHANGED <<woken, rec, bans, opened, said>>

\* release; the entry goes with the source's last connection, unless it has
\* admissions inside the window.
Release(c) ==
  LET k == key(c)
      e == [src[k] EXCEPT !.active = Pred(@)]
  IN  /\ At(c, "closing")
      /\ Returns(c)
      /\ IF src[k].tracked
           THEN /\ src' = [src EXCEPT ![k] = IF e.active = 0 /\ e.connects = 0 THEN NoSource ELSE e]
                /\ total' = IF sock[c].exempt THEN total ELSE Pred(total)
           ELSE UNCHANGED <<src, total>>
      /\ UNCHANGED <<woken, rec, bans, opened, said>>

-----------------------------------------------------------------------------
(* Everybody else                                                          *)

HangUp(c) ==
  /\ pc[c] \in {"resolve", "judge"} \cup Serving
  /\ hung' = hung \cup {c}
  /\ UNCHANGED <<pc, sock, woken, rec, bans, src, total, opened, said>>

\* A KILL, a services GHOST, an unanswered ping, an expired reclaim.
Kill(c) ==
  /\ rec[c] # "none"
  /\ Evicted({c})
  /\ UNCHANGED <<pc, sock, hung, bans, src, total, opened, said>>

\* liveness_tick meets the registration deadline.
RegTimeout(c) ==
  /\ rec[c] = "unreg"
  /\ Evicted({c})
  /\ UNCHANGED <<pc, sock, hung, bans, src, total, opened, said>>

\* KLINE: the ban, and the end of every session it matches.
Kline(m) ==
  /\ bans' = bans \cup {m}
  /\ Evicted({ c \in Conns : rec[c] # "none" /\ sock[c].host \in m })
  /\ UNCHANGED <<pc, sock, hung, src, total, opened, said>>

\* UNKLINE, or a ban that lapses.
Unban(m) ==
  /\ m \in bans
  /\ bans' = bans \ {m}
  /\ UNCHANGED <<pc, sock, hung, woken, rec, src, total, opened, said>>

AtMost(n, bound) == IF n > bound THEN bound ELSE n

\* The oldest admission, or message, of a source leaves its window.
ConnectAges(k) ==
  /\ opened[k] > 0
  /\ opened' = [opened EXCEPT ![k] = @ - 1]
  /\ src' = [src EXCEPT ![k].connects = AtMost(@, opened[k] - 1)]
  /\ UNCHANGED <<pc, sock, hung, woken, rec, bans, total, said>>

MessageAges(k) ==
  /\ said[k] > 0
  /\ said' = [said EXCEPT ![k] = @ - 1]
  /\ src' = [src EXCEPT ![k].messages = AtMost(@, said[k] - 1)]
  /\ UNCHANGED <<pc, sock, hung, woken, rec, bans, total, opened>>

-----------------------------------------------------------------------------

Resolve(c) == \/ ResolvePeer(c) \/ RefuseHeader(c)
              \/ \E a \in Addrs : ResolveHeader(c, a)
Judge(c)   == Refuse(c) \/ AdmitExempt(c) \/ Admit(c)
Handle(c)  == Line(c) \/ LineOver(c) \/ FreeLine(c) \/ Quit(c)

Task(c) == \/ Resolve(c) \/ Judge(c)
           \/ Probe(c) \/ ProbeGone(c) \/ Handshake(c) \/ HandshakeFails(c)
           \/ Park(c) \/ Read(c) \/ Handle(c) \/ Flushed(c) \/ ReaderEnds(c)
           \/ Release(c)

Next == \/ \E c \in Conns : \/ Task(c) \/ HangUp(c) \/ Kill(c) \/ RegTimeout(c)
                            \/ \E l \in Listeners, p \in Peers : Accept(c, l, p)
        \/ \E m \in Masks : Kline(m) \/ Unban(m)
        \/ \E k \in Keys : ConnectAges(k) \/ MessageAges(k)

Spec == Init /\ [][Next]_vars

\* The runtime polls every task that can go on without its client: the
\* PROXY header has a timeout, a lock is always handed over, and an await on
\* a closed socket or a completed notification returns.  The supervisor's
\* tick meets every deadline, and windows pass.  A client owes nothing.
Fairness ==
  /\ \A c \in Conns :
       /\ WF_vars(Resolve(c)) /\ WF_vars(Judge(c))
       /\ WF_vars(ProbeGone(c))
       /\ WF_vars(c \in hung /\ HandshakeFails(c))
       /\ WF_vars(Park(c)) /\ WF_vars(Handle(c))
       /\ WF_vars(Told(c) /\ (ReaderEnds(c) \/ Flushed(c)))
       /\ WF_vars(Release(c))
       /\ WF_vars(RegTimeout(c))
  /\ \A k \in Keys : WF_vars(ConnectAges(k)) /\ WF_vars(MessageAges(k))

LiveSpec == Spec /\ Fairness

-----------------------------------------------------------------------------
(* Properties                                                              *)

\* The connections that hold a slot, those that lost theirs included.
Held         == Serving \cup {"leaked"}
Holders      == { c \in Conns : pc[c] \in Held }
HoldersOf(k) == { c \in Holders : key(c) = k }
Counted      == { c \in Holders : ~sock[c].exempt }
CountedOf(k) == { c \in HoldersOf(k) : ~sock[c].exempt }

\* The source table's counters are the slots really held, globally and per
\* source, and a source with a connection has its entry: try_admit and
\* release must agree on the key and on the exemption over a session that
\* any of six actors may end, or the ceiling drifts.
SlotAccounting ==
  /\ total = Cardinality(Counted)
  /\ \A k \in Keys : /\ src[k].active = Cardinality(HoldersOf(k))
                     /\ src[k].active > 0 => src[k].tracked

\* The global ceiling and the clone cap hold for the connections they are
\* meant for, whatever the order in which tasks resolve, enter and leave.
Bounded ==
  /\ MaxClients > 0 => Cardinality(Counted) <= MaxClients
  /\ MaxClones > 0 => \A k \in Keys : Cardinality(CountedOf(k)) <= MaxClones

\* Behind a trusted proxy the clone cap holds for every source that is not
\* itself exempt: an exempt proxy does not lend its exemption to those it
\* forwards.
AllForwarded == /\ \A l \in Listeners : Mode[l] = "required"
                /\ HeaderFree = {}
                /\ proxy_trust_configured

ForwardedBounded ==
  AllForwarded /\ MaxClones > 0 =>
    \A k \in Keys \ Exempt : Cardinality(HoldersOf(k)) <= MaxClones

\* No source opens more than MaxConnects counted connections in a window,
\* reconnects and refusals included: hanging up does not clear the record.
ConnectRate == MaxConnects > 0 => \A k \in Keys : opened[k] <= MaxConnects

\* A record is served by a reader, and a reader is told only of its own
\* record's removal.
RecordServed ==
  \A c \in Conns :
    /\ rec[c] # "none" => pc[c] \in {"wait", "busy", "flush", "last"}
    /\ c \in woken => rec[c] = "none" /\ Listening(c)

\* A client that has hung up gives its slot back, wherever its task is in
\* the handshake or in the session.
HangUpReleases ==
  \A c \in Conns :
    (c \in hung /\ pc[c] \in Serving \ {"probe"}) ~> pc[c] = "done"

\* A session that neither registers nor says anything is removed, and the
\* slot it holds with it.
SilentReleased ==
  \A c \in Conns :
    (At(c, "wait") /\ rec[c] = "unreg") ~> (At(c, "busy") \/ At(c, "done"))

\* What active_total's comment says: it is the connections currently held.
CountsHeld ==
  total = Cardinality({ c \in Conns : pc[c] \in Serving /\ ~sock[c].exempt })

\* What the README says of KILL: it disconnects the user.
KilledLeaves ==
  \A c \in Conns :
    (pc[c] \in {"busy", "wait"} /\ rec[c] = "none") ~> pc[c] = "done"

=============================================================================
