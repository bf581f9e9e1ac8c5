------------------------------- MODULE Links -------------------------------
(***************************************************************************)
(* Linked servers: the sessions between them, the burst each sends when it *)
(* knows the other, the lines a local command adds to every link, and what *)
(* each server believes of the users and channels of the others.           *)
(*                                                                         *)
(* A connection has two ends, one at each server; the end whose server     *)
(* dialled is outbound.  A wire leads to an end and holds the lines on     *)
(* their way to it, in order: those in the link queue of the sender and    *)
(* those the network carries.  A full queue drops the line.                *)
(*                                                                         *)
(* Everything a session or a command does under one lock is one action.    *)
(* What a peer's SERVER line sets off takes three: the handle is published *)
(* under one lock, the burst is rendered under the next, and its lines     *)
(* reach the queue after both, so a command between them overtakes it.     *)
(*                                                                         *)
(* A user stands for its connection id and for its UUID: neither is handed *)
(* out twice.  The CAPAB and SERVER lines of both sides depend on nothing  *)
(* but the configuration, whose passwords and SIDs are taken to agree: one *)
(* SERVER is on each wire from the start.  Lines that change no state here *)
(* are left out (BURST, SINFO, ENDBURST; nicknames are not told apart), or *)
(* take up room only (messages, modes, topics); PING and PONG only show in *)
(* what makes a session give up.  No server passes lines on.               *)
(***************************************************************************)
EXTENDS Naturals, Sequences, FiniteSets

CONSTANTS Servers,
          Users,      \* local users of all servers
          Home,       \* the server each is connected to
          Chans,      \* channel keys
          Ends,       \* ends of connections between servers
          Other,      \* the other end of each
          At,         \* the server each is at
          Outbound,   \* the ends that dial: IRC_LINK_PEERS
          Queue,      \* LINK_QUEUE
          Times       \* the times at which channels are created at each server

ASSUME HomeAssumption  == Home \in [Users -> Servers]
ASSUME EndsAssumption  ==
  /\ Other \in [Ends -> Ends] /\ At \in [Ends -> Servers]
  /\ \A e \in Ends : Other[e] # e /\ Other[Other[e]] = e /\ At[Other[e]] # At[e]
  /\ Outbound \subseteq Ends
  /\ \A e \in Ends : e \in Outbound <=> Other[e] \notin Outbound
ASSUME QueueAssumption == Queue \in Nat /\ Queue >= 1
ASSUME FiniteAssumption == IsFiniteSet(Users) /\ IsFiniteSet(Chans)
ASSUME TimesAssumption == Times \in [Servers -> SUBSET (Nat \ {0})]

VARIABLES
  here,     \* the registered local users
  gone,     \* those that have left
  uuid,     \* network.local_uuids: the users an UUID was minted for
  joined,   \* the channels each local user is in
  ts,       \* Chn::created_at at each server, 0 for no channel
  known,    \* network.users: the remote users each server knows
  on,       \* RemoteUser::chans
  links,    \* ServerState.links: the published handles, by their end
  sess,     \* where the session at each end is
  dump,     \* the burst an end has rendered and not queued yet
  wire,     \* the lines on their way to each end
  cut,      \* the ends of connections that no longer carry anything
  told,     \* history: <<u, e>>, all of u's lines went into e and every link to its peer
  shown     \* history: <<e, ch>>, the time of ch went into e and the peer has had a
            \* time as old whenever it fell

local == <<here, gone, uuid, joined, ts>>
net   == <<known, on>>
vars  == <<local, net, links, sess, dump, wire, cut, told, shown>>

Peer(e) == At[Other[e]]

Phases == {"closed", "capab", "publish", "dump", "linked"}
Registered(e) == sess[e] \in {"publish", "dump", "linked"}
Reading(e)    == sess[e] \in {"capab", "linked"}

SERVER          == [kind |-> "SERVER"]
UserLine(k, u)  == [kind |-> k, user |-> u]
ChanLine(k, u, ch) == [kind |-> k, user |-> u, chan |-> ch]
FJOIN(ch, t, M) == [kind |-> "FJOIN", chan |-> ch, ts |-> t, users |-> M]

Lines ==
  [kind : {"SERVER"}]
  \cup [kind : {"UID", "QUIT", "MESSAGE"}, user : Users]
  \cup [kind : {"IJOIN", "PART"}, user : Users, chan : Chans]
  \cup [kind : {"FJOIN"}, chan : Chans, ts : Nat, users : SUBSET Users]

TypeOK ==
  /\ here \in SUBSET Users /\ gone \in SUBSET Users /\ uuid \in SUBSET Users
  /\ joined \in [Users -> SUBSET Chans]
  /\ ts \in [Servers -> [Chans -> Nat]]
  /\ known \in [Servers -> SUBSET Users]
  /\ on \in [Servers -> [Users -> SUBSET Chans]]
  /\ links \in SUBSET Ends
  /\ sess \in [Ends -> Phases]
  /\ dump \in [Ends -> Seq(Lines)]
  /\ wire \in [Ends -> Seq(Lines)]
  /\ \A e \in Ends : Len(wire[e]) <= Queue
  /\ cut \in SUBSET Ends
  /\ told \in SUBSET (Users \X Ends)
  /\ shown \in SUBSET (Ends \X Chans)

Init ==
  /\ here = {} /\ gone = {} /\ uuid = {}
  /\ joined = [u \in Users |-> {}]
  /\ ts = [s \in Servers |-> [ch \in Chans |-> 0]]
  /\ known = [s \in Servers |-> {}]
  /\ on = [s \in Servers |-> [u \in Users |-> {}]]
  /\ links = {}
  /\ sess = [e \in Ends |-> "closed"]
  /\ dump = [e \in Ends |-> <<>>]
  /\ wire = [e \in Ends |-> <<>>]
  /\ cut = {} /\ told = {} /\ shown = {}

-----------------------------------------------------------------------------
(* Sending                                                                 *)

\* The connection of e still takes what is sent into it.
Carries(e) == sess[e] # "closed" /\ sess[Other[e]] # "closed" /\ e \notin cut

Full(e) == Carries(e) /\ Len(wire[Other[e]]) >= Queue

\* Mutant: the queue has no bound.
Sent_unbounded(e, m) ==
  IF Carries(e) THEN Append(wire[Other[e]], m) ELSE wire[Other[e]]

\* try_send into the queue of end e.
Sent(e, m) ==
  IF Carries(e) /\ ~Full(e) THEN Append(wire[Other[e]], m) ELSE wire[Other[e]]

Handles(s) == { e \in links : At[e] = s }

\* The peers to whom one of the links of s would lose a line.
Losing(s) == { Peer(e) : e \in { f \in Handles(s) : Full(f) } }

\* History: what is still told when s sends a line into all its links.
StillTold(s) == { p \in told : At[p[2]] = s => Peer(p[2]) \notin Losing(s) }

\* to_links: the line goes into the queue of every handle that has room.
to_links(s, m) ==
  /\ wire' = [e \in Ends |-> IF Other[e] \in Handles(s) THEN Sent(Other[e], m)
                                                        ELSE wire[e]]
  /\ told' = StillTold(s)

Quiet == UNCHANGED <<wire, told>>

\* History: what is still shown when the times become those of T.  The channel
\* lives on at both servers, and a time that falls is one the peer has.
StillShown(T) ==
  { x \in shown :
      LET ch == x[2]
          s  == At[x[1]]
          t  == Peer(x[1])
      IN  /\ T[s][ch] # 0
          /\ ts[t][ch] # 0 => T[t][ch] # 0
          /\ T[s][ch] < ts[s][ch] => T[t][ch] \in 1..T[s][ch] }

\* History: what is still shown when the connections of the ends E are over.
Unlinked(E) == { x \in shown : x[1] \notin E /\ Other[x[1]] \notin E }

-----------------------------------------------------------------------------
(* Local commands                                                          *)

members_of(s, ch) == { u \in known[s] : ch \in on[s][u] }

\* The creation times of the channels of s that have members left, J being
\* the channels of the local users.
drop_empty_channels(s, J) ==
  [ch \in Chans |-> IF \/ members_of(s, ch) # {}
                       \/ \E u \in Users : Home[u] = s /\ ch \in J[u]
                      THEN ts[s][ch] ELSE 0]

\* The links of s on which no burst is still to come that would overtake what
\* is sent now.
Settled(s) ==
  { e \in Handles(s) :
      \A f \in Ends : At[f] = s /\ Peer(f) = Peer(e) /\ Registered(f)
        => /\ sess[f] = "linked"
           /\ f \in links /\ Carries(f) /\ ~Full(f) }

\* maybe_complete: registration introduces the user, if there is a link.
Register(u) ==
  /\ u \notin here \cup gone
  /\ here' = here \cup {u}
  /\ LET s == Home[u]
     IN  IF Handles(s) = {} THEN uuid' = uuid /\ Quiet
         ELSE /\ uuid' = uuid \cup {u}
              /\ wire' = [e \in Ends |-> IF Other[e] \in Handles(s)
                                           THEN Sent(Other[e], UserLine("UID", u))
                                           ELSE wire[e]]
              /\ told' = StillTold(s) \cup { <<u, e>> : e \in Settled(s) }
  /\ UNCHANGED <<gone, joined, ts, net, links, sess, dump, cut, shown>>

Leave(u) ==
  /\ u \in here
  /\ here' = here \ {u} /\ gone' = gone \cup {u}
  /\ joined' = [joined EXCEPT ![u] = {}]
  /\ ts' = [ts EXCEPT ![Home[u]] = drop_empty_channels(Home[u], joined')]
  /\ shown' = StillShown(ts')
  /\ UNCHANGED <<uuid, net, links, sess, dump, cut>>

\* handle_quit tells the links.
Quit(u) ==
  /\ Leave(u)
  /\ IF u \in uuid THEN to_links(Home[u], UserLine("QUIT", u)) ELSE Quiet

\* The end of the connection, an eviction or a KILL does not.
Vanish(u) == Leave(u) /\ Quiet

\* The FJOIN of a join goes to the links, and with it the channel's time.
Introduces(u, ch) ==
  /\ to_links(Home[u], FJOIN(ch, ts'[Home[u]][ch], {u}))
  /\ shown' = shown \cup { <<e, ch>> : e \in { f \in Handles(Home[u]) : Carries(f) /\ ~Full(f) } }

\* Mutant: only the join that introduces the channel is passed on.
Relayed_new_only(u, ch) ==
  IF Handles(Home[u]) = {} \/ members_of(Home[u], ch) # {}
    THEN uuid' = uuid /\ Quiet /\ UNCHANGED shown
    ELSE uuid' = uuid \cup {u} /\ Introduces(u, ch)

\* relay_join_to_links: FJOIN to introduce the channel, IJOIN when a remote
\* user is known to be in it.
Relayed(u, ch) ==
  IF Handles(Home[u]) = {} THEN uuid' = uuid /\ Quiet /\ UNCHANGED shown
  ELSE /\ uuid' = uuid \cup {u}
       /\ IF members_of(Home[u], ch) # {}
            THEN to_links(Home[u], ChanLine("IJOIN", u, ch)) /\ UNCHANGED shown
            ELSE Introduces(u, ch)

\* JOIN; a channel that is new here is created now, at a time t.
Join(u, ch, t) ==
  /\ u \in here /\ ch \notin joined[u]
  /\ joined' = [joined EXCEPT ![u] = @ \cup {ch}]
  /\ ts' = [ts EXCEPT ![Home[u]][ch] = IF @ = 0 THEN t ELSE @]
  /\ Relayed(u, ch)
  /\ UNCHANGED <<here, gone, net, links, sess, dump, cut>>

Leaves(u, ch) ==
  /\ u \in here /\ ch \in joined[u]
  /\ joined' = [joined EXCEPT ![u] = @ \ {ch}]
  /\ ts' = [ts EXCEPT ![Home[u]] = drop_empty_channels(Home[u], joined')]
  /\ shown' = StillShown(ts')
  /\ UNCHANGED <<here, gone, uuid, net, links, sess, dump, cut>>

Part(u, ch) ==
  /\ Leaves(u, ch)
  /\ IF u \in uuid THEN to_links(Home[u], ChanLine("PART", u, ch)) ELSE Quiet

\* No line about a KICK goes to the links.
Kicked(u, ch) == Leaves(u, ch) /\ Quiet

\* A message, a topic or a mode change that goes to the links gives its sender
\* an UUID, without introducing them.
Speak(u) ==
  /\ u \in here
  /\ Handles(Home[u]) # {}
  /\ uuid' = uuid \cup {u}
  /\ to_links(Home[u], UserLine("MESSAGE", u))
  /\ UNCHANGED <<here, gone, joined, ts, net, links, sess, dump, cut, shown>>

-----------------------------------------------------------------------------
(* Sessions                                                                *)

\* Something happened to a link between the servers of e: start over.
Rewired(e) == { p \in told : {At[p[2]], Peer(p[2])} # {At[e], Peer(e)} }

\* maintain_peer connects, one session at a time, and the listener accepts.
Dial(e) ==
  /\ e \in Outbound
  /\ \A f \in Outbound : At[f] = At[e] /\ Peer(f) = Peer(e) => sess[f] = "closed"
  /\ sess[Other[e]] = "closed"
  /\ sess' = [sess EXCEPT ![e] = "capab", ![Other[e]] = "capab"]
  /\ wire' = [wire EXCEPT ![e] = <<SERVER>>, ![Other[e]] = <<SERVER>>]
  /\ cut' = cut \ {e, Other[e]}
  /\ UNCHANGED <<local, net, links, dump, told, shown>>

\* The session at e reads a line of kind k.
Reads(e, k) ==
  /\ Reading(e) /\ e \notin cut
  /\ wire[e] # <<>> /\ Head(wire[e]).kind = k

Consumed(e) == wire' = [wire EXCEPT ![e] = Tail(@)]

\* on_server, PeerRegistered: the handle is published.
RecvServer(e) ==
  /\ Reads(e, "SERVER")
  /\ Consumed(e)
  /\ sess' = [sess EXCEPT ![e] = "publish"]
  /\ links' = links \cup {e}
  /\ told' = Rewired(e)
  /\ UNCHANGED <<local, net, dump, cut, shown>>

Orderings(S) ==
  { f \in [1..Cardinality(S) -> S] : \A x \in S : \E i \in DOMAIN f : f[i] = x }

\* burst_users and burst_channels leave out the users without an UUID.
burst_users(s) == { UserLine("UID", u) : u \in { v \in here \cap uuid : Home[v] = s } }
burst_members(s, ch) == { u \in here \cap uuid : Home[u] = s /\ ch \in joined[u] }
burst_channels(s) ==
  { FJOIN(ch, ts[s][ch], burst_members(s, ch)) :
      ch \in { c \in Chans : burst_members(s, c) # {} } }

Snapshot(e) ==
  /\ sess[e] = "publish"
  /\ sess' = [sess EXCEPT ![e] = "dump"]
  /\ \E us \in Orderings(burst_users(At[e])), cs \in Orderings(burst_channels(At[e])) :
       dump' = [dump EXCEPT ![e] = us \o cs]
  /\ UNCHANGED <<local, net, links, wire, cut, told, shown>>

\* The lines that fit into the queue.
Fitting(w) == IF Len(w) <= Queue THEN w ELSE SubSeq(w, 1, Queue)

\* The channels whose present time at s is in a line of w.
Dated(s, w) ==
  { ch \in Chans : ts[s][ch] # 0 /\ \E i \in DOMAIN w : /\ w[i].kind = "FJOIN"
                                                     /\ w[i].chan = ch
                                                     /\ w[i].ts = ts[s][ch] }

\* flush: the other lines are dropped.
Flush(e) ==
  /\ sess[e] = "dump"
  /\ sess' = [sess EXCEPT ![e] = "linked"]
  /\ dump' = [dump EXCEPT ![e] = <<>>]
  /\ wire' = [wire EXCEPT ![Other[e]] =
                IF Carries(e) THEN Fitting(@ \o dump[e]) ELSE @]
  /\ shown' = IF Carries(e) THEN shown \cup ({e} \X Dated(At[e], wire'[Other[e]]))
                           ELSE shown
  /\ UNCHANGED <<local, net, links, cut, told>>

\* Mutant: silence alone never ends a session.
Lost_unless_silent(e) == sess[Other[e]] = "closed" \/ (Registered(e) /\ Full(e))

\* The read fails, nothing has arrived for LINK_TIMEOUT_SECS, or the PING
\* finds the queue full.
Lost(e) == sess[Other[e]] = "closed" \/ e \in cut \/ (Registered(e) /\ Full(e))

\* Mutant: the users behind the link stay.
split_server_detailed_lazy(s, t) == known[s]

\* What remains of the network of s without t.
split_server_detailed(s, t) == { u \in known[s] : Home[u] # t }

\* The end of run_session.  Every handle with the SID of the peer goes.
Teardown(e) ==
  /\ Reading(e) /\ Lost(e)
  /\ sess' = [sess EXCEPT ![e] = "closed"]
  /\ wire' = [wire EXCEPT ![e] = <<>>]
  /\ told' = Rewired(e)
  /\ IF Registered(e)
       THEN /\ links' = { f \in links : ~(At[f] = At[e] /\ Peer(f) = Peer(e)) }
            /\ known' = [known EXCEPT ![At[e]] = split_server_detailed(At[e], Peer(e))]
            /\ on' = [on EXCEPT ![At[e]] =
                        [u \in Users |-> IF u \in known'[At[e]] THEN @[u] ELSE {}]]
       ELSE UNCHANGED <<links, net>>
  /\ shown' = Unlinked({e})
  /\ UNCHANGED <<local, dump, cut>>

\* The network stops carrying a connection; neither side is told, and what
\* was on its way is lost.
Cut(e) ==
  /\ Carries(e)
  /\ cut' = cut \cup {e, Other[e]}
  /\ wire' = [wire EXCEPT ![e] = <<>>, ![Other[e]] = <<>>]
  /\ told' = Rewired(e)
  /\ shown' = Unlinked({e})
  /\ UNCHANGED <<local, net, links, sess, dump>>

\* A server's process ends and is started again.
Restart(s) ==
  /\ LET mine == { u \in Users : Home[u] = s }
         ends == { e \in Ends : At[e] = s }
     IN  /\ here' = here \ mine /\ gone' = gone \cup (here \cap mine)
         /\ uuid' = uuid \ mine
         /\ joined' = [u \in Users |-> IF u \in mine THEN {} ELSE joined[u]]
         /\ sess' = [e \in Ends |-> IF e \in ends THEN "closed" ELSE sess[e]]
         /\ dump' = [e \in Ends |-> IF e \in ends THEN <<>> ELSE dump[e]]
         /\ wire' = [e \in Ends |-> IF e \in ends THEN <<>> ELSE wire[e]]
         /\ links' = links \ ends
         /\ told' = { p \in told : s \notin {At[p[2]], Peer(p[2])} }
         /\ shown' = Unlinked(ends)
  /\ ts' = [ts EXCEPT ![s] = [ch \in Chans |-> 0]]
  /\ known' = [known EXCEPT ![s] = {}]
  /\ on' = [on EXCEPT ![s] = [u \in Users |-> {}]]
  /\ UNCHANGED cut

-----------------------------------------------------------------------------
(* apply_event                                                             *)

\* A new record, in no channel, whatever was known of the user.
RecvUid(e) ==
  /\ Reads(e, "UID") /\ Consumed(e)
  /\ LET u == Head(wire[e]).user
     IN  /\ known' = [known EXCEPT ![At[e]] = @ \cup {u}]
         /\ on' = [on EXCEPT ![At[e]][u] = {}]
  /\ UNCHANGED <<local, links, sess, dump, cut, told, shown>>

RecvQuit(e) ==
  /\ Reads(e, "QUIT") /\ Consumed(e)
  /\ LET u == Head(wire[e]).user
     IN  /\ known' = [known EXCEPT ![At[e]] = @ \ {u}]
         /\ on' = [on EXCEPT ![At[e]][u] = {}]
  /\ UNCHANGED <<local, links, sess, dump, cut, told, shown>>

\* The channels of the users of M that s knows, with ch.
Seen(s, M, ch) ==
  [on EXCEPT ![s] = [u \in Users |-> IF u \in M \cap known[s] THEN @[u] \cup {ch} ELSE @[u]]]

\* Mutant: a server that has the channel keeps its own time.
adopted_never(ours, theirs) == IF ours = 0 THEN theirs ELSE ours

\* adopt_remote_channel: the older channel wins.
adopted(ours, theirs) ==
  IF ours = 0 \/ theirs < ours THEN theirs ELSE ours

RecvFjoin(e) ==
  /\ Reads(e, "FJOIN") /\ Consumed(e)
  /\ LET m == Head(wire[e])
     IN  /\ on' = Seen(At[e], m.users, m.chan)
         /\ ts' = [ts EXCEPT ![At[e]][m.chan] = adopted(@, m.ts)]
  /\ shown' = StillShown(ts')
  /\ UNCHANGED <<here, gone, uuid, joined, known, links, sess, dump, cut, told>>

RecvIjoin(e) ==
  /\ Reads(e, "IJOIN") /\ Consumed(e)
  /\ LET m == Head(wire[e]) IN on' = Seen(At[e], {m.user}, m.chan)
  /\ UNCHANGED <<local, known, links, sess, dump, cut, told, shown>>

\* Nothing is swept: the channel stays, with its creation time.
RecvPart(e) ==
  /\ Reads(e, "PART") /\ Consumed(e)
  /\ LET m == Head(wire[e]) IN on' = [on EXCEPT ![At[e]][m.user] = @ \ {m.chan}]
  /\ UNCHANGED <<local, known, links, sess, dump, cut, told, shown>>

\* PRIVMSG, NOTICE, FMODE and FTOPIC leave these tables alone.
RecvMessage(e) ==
  /\ Reads(e, "MESSAGE") /\ Consumed(e)
  /\ UNCHANGED <<local, net, links, sess, dump, cut, told, shown>>

-----------------------------------------------------------------------------

Command(u) ==
  \/ Register(u) \/ Quit(u) \/ Vanish(u) \/ Speak(u)
  \/ \E ch \in Chans : \/ \E t \in Times[Home[u]] : Join(u, ch, t)
                       \/ Part(u, ch)
                       \/ Kicked(u, ch)

apply_event(e) ==
  \/ RecvUid(e) \/ RecvQuit(e) \/ RecvMessage(e)
  \/ RecvFjoin(e) \/ RecvIjoin(e) \/ RecvPart(e)

run_session(e) ==
  \/ RecvServer(e) \/ Snapshot(e) \/ Flush(e)
  \/ apply_event(e)
  \/ Teardown(e)

Next ==
  \/ \E u \in Users : Command(u)
  \/ \E e \in Ends : Dial(e) \/ run_session(e) \/ Cut(e)
  \/ \E s \in Servers : Restart(s)

Spec == Init /\ [][Next]_vars

\* A session's task keeps running and its timers fire; what users and the
\* network do, and whether a peer can be dialled again, is up to them.
Fairness == \A e \in Ends : WF_vars(run_session(e))

LiveSpec == Spec /\ Fairness

-----------------------------------------------------------------------------
(* Properties                                                              *)

\* A server knows a remote user only as long as it has a session with the
\* user's server: whoever is known leaves with the link at the latest, however
\* the sessions with that server overlap.
NoOrphans ==
  \A s \in Servers : \A u \in known[s] :
    \E e \in Ends : At[e] = s /\ Peer(e) = Home[u] /\ Registered(e)

\* Nothing more is on its way from s to t.
Drained(s, t) == \A e \in Ends : At[e] = t /\ Peer(e) = s => wire[e] = <<>>

\* A user who registers behind the burst, and whom the links lose nothing of,
\* is known to the peer with all their channels once the lines have arrived,
\* whichever of JOIN's two forms told of them.
JoinsSeen ==
  \A p \in told : LET u == p[1]
                      t == Peer(p[2])
                  IN  u \in here /\ Drained(Home[u], t)
                      => u \in known[t] /\ joined[u] \subseteq on[t][u]

\* The older channel wins: once a server has shown a channel's time to a peer
\* and the lines have arrived, the peer's time is as old or older, whichever
\* FJOINs crossed it and whatever either side took over since.  When both have
\* shown theirs, both have the same.
OlderWins ==
  \A x \in shown : LET ch == x[2]
                      s  == At[x[1]]
                      t  == Peer(x[1])
                  IN  Drained(s, t) => ts[t][ch] \in 1..ts[s][ch]

\* A connection between s and t over which lines still arrive.
Reachable(s, t) == \E e \in Ends : At[e] = s /\ Peer(e) = t /\ Carries(e)

\* A peer that stops answering is noticed: its users do not stay in view.
SplitNoticed ==
  \A u \in Users : \A s \in Servers \ {Home[u]} :
    (u \in known[s] /\ ~Reachable(s, Home[u]))
      ~> (u \notin known[s] \/ Reachable(s, Home[u]))

\* What the end of a session says: the peer is gone.  A peer with which there
\* is a session has its handle.
HandleKept == \A e \in Ends : Registered(e) => e \in links

\* What burst_users says: every local user is in the burst.  Once two servers
\* have told each other everything, each knows all users of the other.
Introduced ==
  \A e \in Ends :
    /\ sess[e] = "linked" /\ sess[Other[e]] = "linked" /\ Carries(e)
    /\ Drained(At[e], Peer(e))
    => \A u \in here : Home[u] = At[e] => u \in known[Peer(e)]

=============================================================================
