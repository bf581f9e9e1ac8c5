------------------------- MODULE DeliveryProofs -------------------------
(***************************************************************************)
(* Joins reach the peer, for any servers, users, connections and queue: a  *)
(* user whose lines all went into the links to a peer is known there, in   *)
(* all their channels, once those lines have been read.                    *)
(*                                                                         *)
(* Followed says so of every moment in between.  Two servers may have      *)
(* several connections at a time and the same lines are on their way over  *)
(* each of them, so that an UID or a PART of one is read after the JOIN of *)
(* another: it is undone again, as the lines of each wire come in order.   *)
(***************************************************************************)
EXTENDS LinksProofs

\* What a line says of u: that they are in ch, that they are not (an UID starts
\* over in no channel), or anything at all.
Adds(m, u, ch) ==
  \/ m.kind = "IJOIN" /\ m.user = u /\ m.chan = ch
  \/ m.kind = "FJOIN" /\ m.chan = ch /\ u \in m.users
Drops(m, u, ch) ==
  \/ m.kind \in {"UID", "QUIT"} /\ m.user = u
  \/ m.kind = "PART" /\ m.user = u /\ m.chan = ch
About(m, u) ==
  \/ m.kind \in {"UID", "QUIT", "IJOIN", "PART"} /\ m.user = u
  \/ m.kind = "FJOIN" /\ u \in m.users

\* Of a wire w: nothing in it is about u; it brings u into ch; it introduces u;
\* it brings u into a channel only after it has introduced them; and whatever
\* takes u out of a channel of J is followed by what brings them back.
Silent(w, u)     == \A i \in DOMAIN w : ~About(w[i], u)
Brings(w, u, ch) == \E i \in DOMAIN w : Adds(w[i], u, ch)
Names(w, u)      == \E i \in DOMAIN w : w[i] = UserLine("UID", u)
NamesFirst(w, u) ==
  \A j \in DOMAIN w, ch \in Chans : Adds(w[j], u, ch) =>
    \E i \in DOMAIN w : i < j /\ w[i] = UserLine("UID", u)
Rejoins(w, u, J) ==
  \A i \in DOMAIN w, ch \in J : Drops(w[i], u, ch) =>
    \E j \in DOMAIN w : i < j /\ Adds(w[j], u, ch)

\* The ends at t of connections with s.
Inbound(s, t) == { f \in Ends : At[f] = t /\ Peer(f) = s }

\* A line from s is about its own users, all of them in H, and those that quit
\* in G.
Proper(m, s, H, G) ==
  \A u \in Users : About(m, u) =>
    Home[u] = s /\ u \in H /\ (m.kind = "QUIT" => u \in G)

\* All lines are about users of the sender's that are or were there.
OwnLines ==
  \A e \in Ends :
    /\ \A i \in DOMAIN wire[e] : Proper(wire[e][i], Peer(e), here \cup gone, gone)
    /\ \A i \in DOMAIN dump[e] : Proper(dump[e][i], At[e], here \cup gone, gone)

\* Users leave once and leave their channels; handles belong to sessions, and
\* channels to users that are known.
Orderly ==
  /\ here \cap gone = {}
  /\ \A u \in Users \ here : joined[u] = {}
  /\ \A e \in links : Registered(e)
  /\ \A s \in Servers, u \in Users : on[s][u] # {} => u \in known[s]

\* The server of u has only sessions that work with the peer of its link e.
SteadyAt(u, e) ==
  /\ u \in here \cup gone /\ Home[u] = At[e] /\ e \in links
  /\ \A g \in Inbound(Peer(e), At[e]) :
       Registered(g) => sess[g] = "linked" /\ g \in links /\ Carries(g)

Steady == \A p \in told : SteadyAt(p[1], p[2])

\* What t knows of u, with what is still on its way to t from s, comes to the
\* channels u is in, whichever connection the lines take.
Follows(u, s, t) ==
  /\ \A f \in Inbound(s, t) :
       /\ Other[f] \notin links => Silent(wire[f], u)
       /\ Other[f] \in links => u \in known[t] \/ Names(wire[f], u)
       /\ u \in known[t] \/ NamesFirst(wire[f], u)
       /\ Rejoins(wire[f], u, joined[u])
  /\ \A ch \in joined[u] :
       ch \in on[t][u] \/ \E f \in Inbound(s, t) : Brings(wire[f], u, ch)

Followed ==
  \A p \in told : p[1] \in here => Follows(p[1], At[p[2]], Peer(p[2]))

\* The invariant: what is on its way and what it amounts to, with what LinksProofs
\* keeps of the wires.
Tracked  == OwnLines /\ Orderly /\ Steady /\ Followed
Delivery == Inv /\ Tracked

-----------------------------------------------------------------------------
(* Lines and wires                                                         *)

\* What each line says of whom.
LEMMA LineSays ==
  ASSUME NEW u \in Users, NEW v \in Users, NEW ch \in Chans, NEW c \in Chans, NEW t \in Nat
  PROVE  /\ ~About(SERVER, u) /\ ~About(UserLine("MESSAGE", v), u)
         /\ About(UserLine("UID", v), u) <=> u = v
         /\ About(UserLine("QUIT", v), u) <=> u = v
         /\ About(ChanLine("IJOIN", v, c), u) <=> u = v
         /\ About(ChanLine("PART", v, c), u) <=> u = v
         /\ About(FJOIN(c, t, {v}), u) <=> u = v
         /\ Adds(ChanLine("IJOIN", u, ch), u, ch) /\ Adds(FJOIN(ch, t, {u}), u, ch)
         /\ ~Drops(ChanLine("IJOIN", v, c), u, ch) /\ ~Drops(FJOIN(c, t, {v}), u, ch)
         /\ Drops(ChanLine("PART", u, c), u, ch) <=> c = ch
         /\ ~Adds(UserLine("UID", v), u, ch) /\ ~Adds(ChanLine("PART", v, c), u, ch)
BY DEF About, Adds, Drops, SERVER, UserLine, ChanLine, FJOIN

\* Adding and dropping are about the user.
LEMMA SaysAbout ==
  \A m, u, ch : Adds(m, u, ch) \/ Drops(m, u, ch) => About(m, u)
BY DEF About, Adds, Drops

\* A line that is about nobody else's user changes nothing for u.
LEMMA AppendOther ==
  ASSUME NEW w \in Seq(Lines), NEW m \in Lines, NEW u \in Users, ~About(m, u)
  PROVE  LET v == Append(w, m) IN
         /\ Silent(w, u) => Silent(v, u)
         /\ Names(w, u) => Names(v, u)
         /\ NamesFirst(w, u) => NamesFirst(v, u)
         /\ \A ch : Brings(w, u, ch) => Brings(v, u, ch)
         /\ \A J : Rejoins(w, u, J) => Rejoins(v, u, J)
<1> DEFINE v == Append(w, m)
<1>1. /\ Len(w) \in Nat /\ DOMAIN w = 1..Len(w) /\ DOMAIN v = 1..Len(w) + 1
      /\ \A i \in DOMAIN w : i \in DOMAIN v /\ v[i] = w[i]
      /\ v[Len(w) + 1] = m
      /\ \A i \in DOMAIN v : i \in DOMAIN w \/ i = Len(w) + 1
  BY AppendProperties, LenProperties
<1> HIDE DEF v
<1>2. \A ch : ~Adds(m, u, ch) /\ ~Drops(m, u, ch)
  BY SaysAbout
<1>3. Silent(w, u) => Silent(v, u)
  BY <1>1 DEF Silent
<1>4. Names(w, u) => Names(v, u)
  BY <1>1 DEF Names
<1>5. NamesFirst(w, u) => NamesFirst(v, u)
  BY <1>1, <1>2 DEF NamesFirst
<1>6. \A ch : Brings(w, u, ch) => Brings(v, u, ch)
  BY <1>1 DEF Brings
<1>7. \A J : Rejoins(w, u, J) => Rejoins(v, u, J)
  BY <1>1, <1>2 DEF Rejoins
<1> QED BY <1>3, <1>4, <1>5, <1>6, <1>7 DEF v

\* A JOIN brings u into its channel, for good.
LEMMA AppendJoin ==
  ASSUME NEW w \in Seq(Lines), NEW m \in Lines, NEW u \in Users, NEW ch \in Chans,
         Adds(m, u, ch), \A c : ~Drops(m, u, c), NEW J
  PROVE  LET v == Append(w, m) IN
         /\ Brings(v, u, ch)
         /\ Names(w, u) => Names(v, u) /\ (NamesFirst(w, u) => NamesFirst(v, u))
         /\ \A c : Brings(w, u, c) => Brings(v, u, c)
         /\ Rejoins(w, u, J) => Rejoins(v, u, J \cup {ch})
<1> DEFINE v == Append(w, m)
<1>1. /\ Len(w) \in Nat /\ DOMAIN w = 1..Len(w) /\ DOMAIN v = 1..Len(w) + 1
      /\ \A i \in DOMAIN w : i \in DOMAIN v /\ v[i] = w[i] /\ i < Len(w) + 1
      /\ v[Len(w) + 1] = m /\ Len(w) + 1 \in DOMAIN v
      /\ \A i \in DOMAIN v : i \in DOMAIN w \/ i = Len(w) + 1
  BY AppendProperties, LenProperties
<1> HIDE DEF v
<1>2. \A c : Brings(w, u, c) => Brings(v, u, c)
  BY <1>1 DEF Brings
<1>3. Brings(v, u, ch)
  BY <1>1 DEF Brings
<1>4. Names(w, u) => Names(v, u)
  BY <1>1 DEF Names
<1>5. Names(w, u) /\ NamesFirst(w, u) => NamesFirst(v, u)
  <2> SUFFICES ASSUME Names(w, u), NamesFirst(w, u), NEW j \in DOMAIN v, NEW c \in Chans,
                      Adds(v[j], u, c)
               PROVE  \E i \in DOMAIN v : i < j /\ v[i] = UserLine("UID", u)
    BY DEF NamesFirst
  <2>1. CASE j \in DOMAIN w
    BY <1>1, <2>1 DEF NamesFirst
  <2>2. CASE j = Len(w) + 1
    BY <1>1, <2>2 DEF Names
  <2> QED BY <1>1, <2>1, <2>2
<1>6. Rejoins(w, u, J) => Rejoins(v, u, J \cup {ch})
  <2> SUFFICES ASSUME Rejoins(w, u, J), NEW i \in DOMAIN v, NEW c \in J \cup {ch},
                      Drops(v[i], u, c)
               PROVE  \E j \in DOMAIN v : i < j /\ Adds(v[j], u, c)
    BY DEF Rejoins
  <2>1. i \in DOMAIN w
    BY <1>1
  <2>2. CASE c = ch
    BY <1>1, <2>1, <2>2
  <2>3. CASE c \in J
    BY <1>1, <2>1, <2>3 DEF Rejoins
  <2> QED BY <2>2, <2>3
<1> QED BY <1>2, <1>3, <1>4, <1>5, <1>6 DEF v

\* A PART matters for its channel alone.
LEMMA AppendPart ==
  ASSUME NEW w \in Seq(Lines), NEW u \in Users, NEW ch \in Chans, NEW J \in SUBSET Chans
  PROVE  LET v == Append(w, ChanLine("PART", u, ch)) IN
         /\ Names(w, u) => Names(v, u)
         /\ NamesFirst(w, u) => NamesFirst(v, u)
         /\ \A c : Brings(w, u, c) => Brings(v, u, c)
         /\ Rejoins(w, u, J) => Rejoins(v, u, J \ {ch})
<1> DEFINE m == ChanLine("PART", u, ch)
           v == Append(w, m)
<1>0. m \in Lines
  BY LineTypes
<1>1. /\ Len(w) \in Nat /\ DOMAIN w = 1..Len(w) /\ DOMAIN v = 1..Len(w) + 1
      /\ \A i \in DOMAIN w : i \in DOMAIN v /\ v[i] = w[i] /\ i < Len(w) + 1
      /\ v[Len(w) + 1] = m
      /\ \A i \in DOMAIN v : i \in DOMAIN w \/ i = Len(w) + 1
  <2> HIDE DEF m
  <2> QED BY <1>0, AppendProperties, LenProperties
<1>2. /\ \A c \in Chans : ~Adds(m, u, c)
      /\ \A c \in Chans \ {ch} : ~Drops(m, u, c)
  BY DEF m, Adds, Drops, ChanLine
<1> HIDE DEF v, m
<1>3. \A c : Brings(w, u, c) => Brings(v, u, c)
  BY <1>1 DEF Brings
<1>4. Names(w, u) => Names(v, u)
  BY <1>1 DEF Names
<1>5. NamesFirst(w, u) => NamesFirst(v, u)
  BY <1>1, <1>2 DEF NamesFirst
<1>6. Rejoins(w, u, J) => Rejoins(v, u, J \ {ch})
  BY <1>1, <1>2 DEF Rejoins
<1> QED BY <1>3, <1>4, <1>5, <1>6 DEF v, m

\* An UID on a wire that has nothing about u.
LEMMA AppendUid ==
  ASSUME NEW w \in Seq(Lines), NEW u \in Users, Silent(w, u)
  PROVE  LET v == Append(w, UserLine("UID", u)) IN
         Names(v, u) /\ NamesFirst(v, u) /\ Rejoins(v, u, {})
<1> DEFINE m == UserLine("UID", u)
           v == Append(w, m)
<1>0. m \in Lines /\ \A c \in Chans : ~Adds(m, u, c)
  BY LineTypes DEF m, Adds, UserLine
<1>1. /\ Len(w) \in Nat /\ DOMAIN w = 1..Len(w) /\ DOMAIN v = 1..Len(w) + 1
      /\ \A i \in DOMAIN w : v[i] = w[i]
      /\ v[Len(w) + 1] = m /\ Len(w) + 1 \in DOMAIN v
      /\ \A i \in DOMAIN v : i \in DOMAIN w \/ i = Len(w) + 1
  <2> HIDE DEF m
  <2> QED BY <1>0, AppendProperties, LenProperties
<1> HIDE DEF v
<1>2. Names(v, u)
  BY <1>1 DEF Names
<1>3. NamesFirst(v, u)
  BY <1>0, <1>1, SaysAbout DEF NamesFirst, Silent
<1> QED BY <1>2, <1>3 DEF Rejoins, v, m

\* A line is read off a wire.
LEMMA TailSays ==
  ASSUME NEW w \in Seq(Lines), w # <<>>, NEW u \in Users
  PROVE  LET v == Tail(w) IN
         /\ Silent(w, u) => Silent(v, u) /\ ~About(Head(w), u)
         /\ Head(w) # UserLine("UID", u) =>
              /\ Names(w, u) => Names(v, u)
              /\ NamesFirst(w, u) => NamesFirst(v, u)
         /\ NamesFirst(w, u) => \A ch \in Chans : ~Adds(Head(w), u, ch)
         /\ \A ch : Brings(w, u, ch) => Adds(Head(w), u, ch) \/ Brings(v, u, ch)
         /\ \A J : Rejoins(w, u, J) =>
              /\ Rejoins(v, u, J)
              /\ \A ch \in J : Drops(Head(w), u, ch) => Brings(v, u, ch)
<1> DEFINE v == Tail(w)
<1>1. /\ Len(w) \in Nat /\ Len(w) >= 1 /\ DOMAIN w = 1..Len(w) /\ DOMAIN v = 1..Len(w) - 1
      /\ Head(w) = w[1] /\ 1 \in DOMAIN w
      /\ \A i \in DOMAIN v : i + 1 \in DOMAIN w /\ v[i] = w[i + 1]
  <2>1. Len(w) \in Nat /\ Len(w) # 0 /\ DOMAIN w = 1..Len(w)
    BY LenProperties, EmptySeq
  <2>2. v \in Seq(Lines) /\ Len(v) = Len(w) - 1 /\ \A i \in 1..Len(v) : v[i] = w[i + 1]
    BY HeadTailProperties
  <2>3. DOMAIN v = 1..Len(w) - 1
    BY <2>2, LenProperties
  <2> HIDE DEF v
  <2>4. Head(w) = w[1]
    BY HeadTailProperties
  <2> QED BY <2>1, <2>2, <2>3, <2>4
<1> HIDE DEF v
<1>2. \A j \in DOMAIN w : j # 1 => j - 1 \in DOMAIN v /\ v[j - 1] = w[j]
  <2> SUFFICES ASSUME NEW j \in DOMAIN w, j # 1 PROVE j - 1 \in DOMAIN v /\ v[j - 1] = w[j]
    OBVIOUS
  <2>1. j - 1 \in DOMAIN v /\ (j - 1) + 1 = j
    BY <1>1
  <2> QED BY <1>1, <2>1
<1>3. Silent(w, u) => Silent(v, u) /\ ~About(Head(w), u)
  BY <1>1 DEF Silent
<1>4. Head(w) # UserLine("UID", u) /\ Names(w, u) => Names(v, u)
  BY <1>1, <1>2 DEF Names
<1>5. Head(w) # UserLine("UID", u) /\ NamesFirst(w, u) => NamesFirst(v, u)
  <2> SUFFICES ASSUME Head(w) # UserLine("UID", u), NamesFirst(w, u),
                      NEW j \in DOMAIN v, NEW c \in Chans, Adds(v[j], u, c)
               PROVE  \E i \in DOMAIN v : i < j /\ v[i] = UserLine("UID", u)
    BY DEF NamesFirst
  <2>1. PICK i \in DOMAIN w : i < j + 1 /\ w[i] = UserLine("UID", u)
    BY <1>1 DEF NamesFirst
  <2>2. i - 1 \in DOMAIN v /\ v[i - 1] = w[i] /\ i - 1 < j
    BY <1>1, <1>2, <2>1
  <2> QED BY <2>1, <2>2
<1>6. NamesFirst(w, u) => \A ch \in Chans : ~Adds(Head(w), u, ch)
  BY <1>1 DEF NamesFirst
<1>7. \A ch : Brings(w, u, ch) => Adds(Head(w), u, ch) \/ Brings(v, u, ch)
  BY <1>1, <1>2 DEF Brings
<1>8. ASSUME NEW J, Rejoins(w, u, J)
      PROVE  /\ Rejoins(v, u, J)
             /\ \A ch \in J : Drops(Head(w), u, ch) => Brings(v, u, ch)
  <2>1. ASSUME NEW i \in DOMAIN v, NEW ch \in J, Drops(v[i], u, ch)
        PROVE  \E j \in DOMAIN v : i < j /\ Adds(v[j], u, ch)
    <3>1. PICK j \in DOMAIN w : i + 1 < j /\ Adds(w[j], u, ch)
      BY <1>1, <1>8, <2>1 DEF Rejoins
    <3>2. j - 1 \in DOMAIN v /\ v[j - 1] = w[j] /\ i < j - 1
      BY <1>1, <1>2, <3>1
    <3> QED BY <3>1, <3>2
  <2>2. ASSUME NEW ch \in J, Drops(Head(w), u, ch) PROVE Brings(v, u, ch)
    <3>1. PICK j \in DOMAIN w : 1 < j /\ Adds(w[j], u, ch)
      BY <1>1, <1>8, <2>2 DEF Rejoins
    <3> QED BY <1>1, <1>2, <3>1 DEF Brings
  <2> QED BY <2>1, <2>2 DEF Rejoins
<1> QED BY <1>3, <1>4, <1>5, <1>6, <1>7, <1>8 DEF v

-----------------------------------------------------------------------------
(* What a step leaves alone                                                *)

\* A told user, their server and its peer.
LEMMA ToldPair ==
  ASSUME Delivery, NEW p \in told
  PROVE  /\ p[1] \in Users /\ p[2] \in Ends /\ At[p[2]] \in Servers /\ Peer(p[2]) \in Servers
         /\ Home[p[1]] = At[p[2]] /\ SteadyAt(p[1], p[2])
         /\ p[1] \in here => Follows(p[1], At[p[2]], Peer(p[2]))
<1>1. p[1] \in Users /\ p[2] \in Ends
  BY DEF Delivery, Inv, TypeOK
<1> QED BY <1>1, OtherEnds DEF Delivery, Tracked, Steady, SteadyAt, Followed

\* The ends of the connections between two servers.
LEMMA InboundEnds ==
  ASSUME NEW s, NEW t, NEW f \in Inbound(s, t)
  PROVE  /\ f \in Ends /\ At[f] = t /\ Peer(f) = s
         /\ Other[f] \in Inbound(t, s) /\ Other[f] \in Ends /\ Other[Other[f]] = f
         /\ At[Other[f]] = s /\ Peer(Other[f]) = t
BY OtherEnds DEF Inbound

\* The servers do not move.
LEMMA Rigid ==
  /\ \A e : Peer(e)' = Peer(e)
  /\ \A s, t : Inbound(s, t)' = Inbound(s, t)
BY DEF Peer, Inbound

\* What it takes to be followed after a step.
LEMMA FollowsNext ==
  ASSUME NEW u, NEW s, NEW t,
         \A f \in Inbound(s, t) :
           /\ Other[f] \notin links' => Silent(wire'[f], u)
           /\ Other[f] \in links' => u \in known'[t] \/ Names(wire'[f], u)
           /\ u \in known'[t] \/ NamesFirst(wire'[f], u)
           /\ Rejoins(wire'[f], u, joined'[u]),
         \A ch \in joined'[u] :
           ch \in on'[t][u] \/ \E f \in Inbound(s, t) : Brings(wire'[f], u, ch)
  PROVE  Follows(u, s, t)'
BY DEF Follows, Inbound, Peer, Silent, Names, NamesFirst, Rejoins, Brings, About, Adds, Drops,
   UserLine

\* What is followed stays so as long as its lines do, nothing is forgotten and
\* no channel is added.
LEMMA FollowsSame ==
  ASSUME NEW u, NEW s, NEW t, Follows(u, s, t),
         \A f \in Inbound(s, t) :
           wire'[f] = wire[f] /\ (Other[f] \in links' <=> Other[f] \in links),
         u \in known[t] => u \in known'[t],
         on[t][u] \subseteq on'[t][u], joined'[u] \subseteq joined[u]
  PROVE  Follows(u, s, t)'
<1>1. \A f \in Inbound(s, t) : Rejoins(wire[f], u, joined'[u])
  BY DEF Follows, Rejoins
<1> QED BY <1>1, FollowsNext DEF Follows

\* A link is steady as long as the sessions of its server with the peer stay.
LEMMA SteadySame ==
  ASSUME NEW u, NEW e, SteadyAt(u, e),
         u \in here' \cup gone', e \in links',
         \A g \in Inbound(Peer(e), At[e]) :
           Registered(g)' => Registered(g) /\ sess'[g] = sess[g] /\ g \in links'
                             /\ (Carries(g) => Carries(g)')
  PROVE  SteadyAt(u, e)'
<1>1. \A g \in Inbound(Peer(e), At[e]) :
        Registered(g)' => sess'[g] = "linked" /\ g \in links' /\ Carries(g)'
  BY DEF SteadyAt
<1> QED BY <1>1 DEF SteadyAt, Inbound, Peer

\* Lines stay proper as more users come and go.
LEMMA ProperSame ==
  ASSUME NEW m, NEW s, NEW H, NEW G, NEW I, NEW K,
         Proper(m, s, H, G), H \subseteq I, G \subseteq K
  PROVE  Proper(m, s, I, K)
BY DEF Proper

\* The parts for every pair make the whole.
LEMMA Parts ==
  ASSUME \A p \in told' : SteadyAt(p[1], p[2])' /\
           (p[1] \in here' => Follows(p[1], At[p[2]], Peer(p[2]))')
  PROVE  Steady' /\ Followed'
BY DEF Steady, Followed, Peer

-----------------------------------------------------------------------------
(* Local commands                                                          *)

\* m is sent into every link of s.
SentAll(s, m) ==
  wire' = [e \in Ends |-> IF Other[e] \in Handles(s) THEN Sent(Other[e], m) ELSE wire[e]]

\* Who is kept told when s sends m into its links: each wire to the peer has
\* the line as well, if it belongs to a link.
LEMMA Reaches ==
  ASSUME Delivery, NEW s \in Servers, NEW m, NEW p \in StillTold(s),
         SentAll(s, m)
  PROVE  /\ p \in told
         /\ \A f \in Inbound(At[p[2]], Peer(p[2])) :
              wire'[f] = IF At[p[2]] = s /\ Other[f] \in links THEN Append(wire[f], m)
                                                              ELSE wire[f]
<1>1. p \in told /\ (At[p[2]] = s => Peer(p[2]) \notin Losing(s))
  BY DEF StillTold
<1>2. ASSUME NEW f \in Inbound(At[p[2]], Peer(p[2]))
      PROVE  wire'[f] = IF At[p[2]] = s /\ Other[f] \in links THEN Append(wire[f], m)
                                                             ELSE wire[f]
  <2> DEFINE g == Other[f]
  <2>1. /\ f \in Ends /\ g \in Ends /\ Other[g] = f /\ At[g] = At[p[2]] /\ Peer(g) = Peer(p[2])
        /\ g \in Inbound(Peer(p[2]), At[p[2]])
    BY InboundEnds
  <2>2. wire'[f] = IF g \in Handles(s) THEN Sent(g, m) ELSE wire[f]
    BY <2>1 DEF SentAll
  <2>3. g \in Handles(s) <=> At[p[2]] = s /\ g \in links
    BY <2>1 DEF Handles
  <2>4. ASSUME At[p[2]] = s, g \in links PROVE Sent(g, m) = Append(wire[f], m)
    <3>1. Registered(g)
      BY <2>4 DEF Delivery, Tracked, Orderly
    <3>2. Carries(g)
      BY <1>1, <2>1, <3>1, ToldPair DEF SteadyAt
    <3>3. ~Full(g)
      BY <1>1, <2>1, <2>3, <2>4 DEF Losing
    <3> QED BY <2>1, <3>2, <3>3 DEF Sent
  <2> QED BY <2>2, <2>3, <2>4
<1> QED BY <1>1, <1>2

\* The wires are sequences of lines.
LEMMA WireSeq == ASSUME Inv, NEW e \in Ends PROVE wire[e] \in Seq(Lines)
BY DEF Inv, TypeOK

\* A line about others leaves u followed.
LEMMA SentFollows ==
  ASSUME Delivery, NEW s \in Servers, NEW m \in Lines, NEW p \in StillTold(s),
         SentAll(s, m),
         p[1] \in here, ~About(m, p[1]), joined'[p[1]] \subseteq joined[p[1]],
         UNCHANGED <<net, links>>
  PROVE  Follows(p[1], At[p[2]], Peer(p[2]))'
<1> SUFFICES ASSUME NEW u, NEW r, NEW t, u = p[1], r = At[p[2]], t = Peer(p[2])
             PROVE  Follows(u, r, t)'
  BY DEF Follows, Inbound, Peer
<1>1. p \in told /\ u \in Users /\ Follows(u, r, t)
  BY Reaches, ToldPair
<1>2. \A f \in Inbound(r, t) : wire'[f] \in {wire[f], Append(wire[f], m)}
  BY Reaches
<1>3. \A f \in Inbound(r, t) : f \in Ends /\ wire[f] \in Seq(Lines)
  BY InboundEnds, WireSeq DEF Delivery
<1>0. known' = known /\ on' = on /\ links' = links
  BY DEF net
<1>4. ASSUME NEW f \in Inbound(r, t)
      PROVE  /\ Other[f] \notin links' => Silent(wire'[f], u)
             /\ Other[f] \in links' => u \in known'[t] \/ Names(wire'[f], u)
             /\ u \in known'[t] \/ NamesFirst(wire'[f], u)
             /\ Rejoins(wire'[f], u, joined'[u])
             /\ \A ch : Brings(wire[f], u, ch) => Brings(wire'[f], u, ch)
  <2>1. /\ Silent(wire[f], u) => Silent(wire'[f], u)
        /\ Names(wire[f], u) => Names(wire'[f], u)
        /\ NamesFirst(wire[f], u) => NamesFirst(wire'[f], u)
        /\ \A ch : Brings(wire[f], u, ch) => Brings(wire'[f], u, ch)
        /\ \A J : Rejoins(wire[f], u, J) => Rejoins(wire'[f], u, J)
    <3>1. CASE wire'[f] = Append(wire[f], m)
      BY <1>1, <1>3, <3>1, AppendOther
    <3>2. CASE wire'[f] = wire[f]
      BY <3>2
    <3> QED BY <1>2, <3>1, <3>2
  <2>2. Rejoins(wire[f], u, joined'[u])
    BY <1>1 DEF Follows, Rejoins
  <2> QED BY <1>0, <1>1, <2>1, <2>2 DEF Follows
<1>5. ASSUME NEW ch \in joined'[u]
      PROVE  ch \in on'[t][u] \/ \E f \in Inbound(r, t) : Brings(wire'[f], u, ch)
  BY <1>0, <1>1, <1>4 DEF Follows
<1> QED BY <1>4, <1>5, FollowsNext

\* The same, when it is all that s sends.
LEMMA SentOther ==
  ASSUME Delivery, NEW s \in Servers, NEW m \in Lines, to_links(s, m), NEW p \in told',
         p[1] \in here, ~About(m, p[1]), joined'[p[1]] \subseteq joined[p[1]],
         UNCHANGED <<net, links>>
  PROVE  Follows(p[1], At[p[2]], Peer(p[2]))'
BY SentFollows DEF to_links, SentAll

\* Nothing at all leaves u followed.
LEMMA QuietOther ==
  ASSUME Delivery, Quiet, NEW p \in told', p[1] \in here,
         joined'[p[1]] \subseteq joined[p[1]], UNCHANGED <<net, links>>
  PROVE  Follows(p[1], At[p[2]], Peer(p[2]))'
<1>1. p \in told /\ Follows(p[1], At[p[2]], Peer(p[2]))
  BY ToldPair DEF Quiet
<1> QED BY <1>1, FollowsSame DEF Quiet, net, Follows, Inbound, Peer

\* The lines of a command are the user's own.
LEMMA CommandLines ==
  ASSUME Delivery, NEW s \in Servers, NEW m \in Lines, to_links(s, m) \/ Quiet, dump' = dump,
         here \cup gone \subseteq here' \cup gone', gone \subseteq gone',
         Proper(m, s, here' \cup gone', gone')
  PROVE  OwnLines'
<1> DEFINE H == here' \cup gone'
           G == gone'
<1>0. ASSUME NEW e \in Ends
      PROVE  /\ \A i \in DOMAIN wire[e] : Proper(wire[e][i], Peer(e), H, G)
             /\ \A i \in DOMAIN dump[e] : Proper(dump[e][i], At[e], H, G)
  BY ProperSame DEF Delivery, Tracked, OwnLines
<1>1. ASSUME NEW e \in Ends, NEW i \in DOMAIN wire'[e] PROVE Proper(wire'[e][i], Peer(e), H, G)
  <2>1. wire[e] \in Seq(Lines)
    BY WireSeq DEF Delivery
  <2>2. wire'[e] = wire[e] \/ (wire'[e] = Append(wire[e], m) /\ Peer(e) = s)
    BY OtherEnds DEF to_links, Quiet, Sent, Handles
  <2>3. CASE wire'[e] = wire[e]
    BY <1>0, <1>1, <2>3
  <2>4. CASE wire'[e] = Append(wire[e], m) /\ Peer(e) = s
    <3>1. (i \in DOMAIN wire[e] /\ wire'[e][i] = wire[e][i]) \/ wire'[e][i] = m
      BY <1>1, <2>1, <2>4, AppendProperties, LenProperties
    <3> QED BY <1>0, <2>4, <3>1
  <2> QED BY <2>2, <2>3, <2>4
<1>2. ASSUME NEW e \in Ends, NEW i \in DOMAIN dump'[e] PROVE Proper(dump'[e][i], At[e], H, G)
  BY <1>0, <1>2
<1> QED BY <1>1, <1>2 DEF OwnLines, Proper, Peer, About

\* A command leaves the sessions as they are.
LEMMA CommandSteady ==
  ASSUME Delivery, UNCHANGED <<links, sess, cut>>, here \cup gone \subseteq here' \cup gone',
         NEW p \in told
  PROVE  SteadyAt(p[1], p[2])'
BY ToldPair DEF SteadyAt, Registered, Carries, Inbound, Peer

\* Nobody is in a channel or known that was not before.
LEMMA CommandOrderly ==
  ASSUME Delivery, UNCHANGED <<net, links, sess>>, here' \cap gone' = {},
         \A v \in Users \ here' : joined'[v] = {}
  PROVE  Orderly'
BY DEF Delivery, Tracked, Orderly, Registered, net

\* Registering: whoever is told of u from now on has the UID on every wire, and
\* nothing else about u.
LEMMA RegisterTracked == ASSUME Delivery, NEW u \in Users, Register(u) PROVE Tracked'
<1> DEFINE s == Home[u]
           m == UserLine("UID", u)
<1>0. /\ s \in Servers /\ m \in Lines /\ Inv /\ TypeOK /\ u \notin here \cup gone
      /\ here' = here \cup {u} /\ joined' = joined /\ gone' = gone
      /\ UNCHANGED <<net, links, sess, dump, cut>>
  BY HomeAssumption, LineTypes DEF Delivery, Inv, Register
<1>o. Orderly'
  <2>1. here' \cap gone' = {} /\ \A v \in Users \ here' : joined'[v] = {}
    BY <1>0 DEF Delivery, Tracked, Orderly
  <2> QED BY <1>0, <2>1, CommandOrderly
<1>p. Proper(m, s, here' \cup gone', gone')
  BY <1>0 DEF Proper, About, UserLine
<1>1. CASE Handles(s) = {}
  <2>1. Quiet
    BY <1>1 DEF Register
  <2>2. OwnLines'
    BY <1>0, <1>p, <2>1, CommandLines
  <2>3. ASSUME NEW p \in told', p[1] \in here' PROVE Follows(p[1], At[p[2]], Peer(p[2]))'
    <3>1. p \in told /\ p[1] # u
      BY <1>0, <2>1, ToldPair DEF Quiet, SteadyAt
    <3> QED BY <1>0, <2>1, <2>3, <3>1, QuietOther
  <2>4. \A p \in told' : SteadyAt(p[1], p[2])'
    BY <1>0, <2>1, CommandSteady DEF Quiet
  <2> QED BY <1>o, <2>2, <2>3, <2>4, Parts DEF Tracked
<1>2. CASE Handles(s) # {}
  <2>1. /\ wire' = [e \in Ends |-> IF Other[e] \in Handles(s) THEN Sent(Other[e], m)
                                                              ELSE wire[e]]
        /\ told' = StillTold(s) \cup { <<u, e>> : e \in Settled(s) }
    BY <1>2 DEF Register
  <2> HIDE DEF s, m
  <2>2. OwnLines'
    <3>1. ASSUME NEW e \in Ends
          PROVE  /\ \A i \in DOMAIN wire[e] : Proper(wire[e][i], Peer(e), here' \cup gone', gone')
                 /\ \A i \in DOMAIN dump[e] : Proper(dump[e][i], At[e], here' \cup gone', gone')
      BY <1>0, ProperSame DEF Delivery, Tracked, OwnLines
    <3>2. ASSUME NEW e \in Ends, NEW i \in DOMAIN wire'[e]
          PROVE  Proper(wire'[e][i], Peer(e), here' \cup gone', gone')
      <4>1. wire[e] \in Seq(Lines)
        BY <1>0, WireSeq
      <4>2. wire'[e] = wire[e] \/ (wire'[e] = Append(wire[e], m) /\ Peer(e) = s)
        BY <2>1, OtherEnds DEF Sent, Handles
      <4>3. CASE wire'[e] = Append(wire[e], m) /\ Peer(e) = s
        <5>1. (i \in DOMAIN wire[e] /\ wire'[e][i] = wire[e][i]) \/ wire'[e][i] = m
          BY <1>0, <3>2, <4>1, <4>3, AppendProperties, LenProperties
        <5> QED BY <1>p, <3>1, <4>3, <5>1
      <4> QED BY <3>1, <3>2, <4>2, <4>3
    <3> QED BY <1>0, <3>1, <3>2 DEF OwnLines, Proper, Peer, About
  <2>3. ASSUME NEW p \in StillTold(s)
        PROVE  SteadyAt(p[1], p[2])' /\ (p[1] \in here' => Follows(p[1], At[p[2]], Peer(p[2]))')
    <3>1. p \in told /\ p[1] \in Users /\ p[1] # u /\ SteadyAt(p[1], p[2])'
      BY <1>0, ToldPair, CommandSteady DEF StillTold, SteadyAt
    <3>2. ASSUME p[1] \in here' PROVE Follows(p[1], At[p[2]], Peer(p[2]))'
      <4>1. ~About(m, p[1])
        BY <1>0, <3>1 DEF m, About, UserLine
      <4>2. p[1] \in here
        BY <1>0, <3>1, <3>2
      <4>3. SentAll(s, m)
        BY <2>1 DEF SentAll
      <4>4. joined'[p[1]] \subseteq joined[p[1]]
        BY <1>0
      <4> QED BY <1>0, <4>1, <4>2, <4>3, <4>4, SentFollows
    <3> QED BY <3>1, <3>2
  <2>4. ASSUME NEW e \in Settled(s)
        PROVE  SteadyAt(u, e)' /\ Follows(u, At[e], Peer(e))'
    <3>1. /\ e \in links /\ e \in Ends /\ At[e] = s
          /\ \A g \in Inbound(Peer(e), s) : Registered(g)
               => sess[g] = "linked" /\ g \in links /\ Carries(g) /\ ~Full(g)
      BY <1>0 DEF Settled, Handles, Inbound, TypeOK
    <3>2. SteadyAt(u, e)'
      BY <1>0, <3>1 DEF SteadyAt, Registered, Carries, Inbound, Peer, s
    <3>3. ASSUME NEW f \in Inbound(s, Peer(e))
          PROVE  /\ Other[f] \notin links' => Silent(wire'[f], u)
                 /\ Other[f] \in links' => Names(wire'[f], u)
                 /\ NamesFirst(wire'[f], u) /\ Rejoins(wire'[f], u, {})
      <4>1. /\ f \in Ends /\ Other[f] \in Inbound(Peer(e), s) /\ At[Other[f]] = s
            /\ Other[Other[f]] = f
        BY InboundEnds
      <4>2. Silent(wire[f], u) /\ wire[f] \in Seq(Lines)
        <5>1. \A i \in DOMAIN wire[f] : Proper(wire[f][i], Peer(f), here \cup gone, gone)
          BY <4>1 DEF Delivery, Tracked, OwnLines
        <5> QED BY <1>0, <4>1, <5>1, WireSeq DEF Silent, Proper
      <4>3. CASE Other[f] \in links
        <5>1. Carries(Other[f]) /\ ~Full(Other[f])
          BY <3>1, <4>1, <4>3 DEF Delivery, Tracked, Orderly
        <5>2. wire'[f] = Append(wire[f], m)
          BY <2>1, <4>1, <4>3, <5>1 DEF Sent, Handles
        <5> QED BY <1>0, <4>2, <4>3, <5>2, AppendUid DEF m
      <4>4. CASE Other[f] \notin links
        <5>1. wire'[f] = wire[f]
          BY <2>1, <4>1, <4>4 DEF Handles
        <5>2. NamesFirst(wire[f], u)
          BY <4>2, SaysAbout DEF NamesFirst, Silent
        <5> QED BY <1>0, <4>2, <4>4, <5>1, <5>2 DEF Rejoins
      <4> QED BY <4>3, <4>4
    <3>4. joined'[u] = {}
      BY <1>0 DEF Delivery, Tracked, Orderly
    <3>5. Follows(u, s, Peer(e))'
      BY <3>3, <3>4, FollowsNext
    <3> QED BY <3>1, <3>2, <3>5 DEF Follows, Inbound, Peer
  <2>5. \A p \in told' : p \in StillTold(s) \/ \E e \in Settled(s) : p[1] = u /\ p[2] = e
    BY <2>1
  <2>6. Steady' /\ Followed'
    BY <2>3, <2>4, <2>5, Parts
  <2> QED BY <1>o, <2>2, <2>6 DEF Tracked
<1> QED BY <1>1, <1>2

\* Leaving: nobody follows u any more, and QUIT is about u.
LEMMA LeaveTracked == ASSUME Delivery, NEW u \in Users, Quit(u) \/ Vanish(u) PROVE Tracked'
<1> DEFINE s == Home[u]
           m == UserLine("QUIT", u)
<1>0. /\ s \in Servers /\ m \in Lines /\ Inv /\ TypeOK /\ Leave(u)
      /\ to_links(s, m) \/ Quiet
  BY HomeAssumption, LineTypes DEF Delivery, Inv, Quit, Vanish
<1>1. /\ u \in here /\ here' = here \ {u} /\ gone' = gone \cup {u}
      /\ \A v \in Users : joined'[v] = IF v = u THEN {} ELSE joined[v]
      /\ UNCHANGED <<net, links, sess, dump, cut>>
  BY <1>0 DEF Leave, TypeOK
<1>o. Orderly'
  <2>1. here' \cap gone' = {} /\ \A v \in Users \ here' : joined'[v] = {}
    BY <1>1 DEF Delivery, Tracked, Orderly
  <2> QED BY <1>1, <2>1, CommandOrderly
<1>p. Proper(m, s, here' \cup gone', gone')
  BY <1>1 DEF Proper, About, UserLine
<1>a. \A v \in Users : About(m, v) => v = u
  BY DEF About, UserLine
<1> HIDE DEF m, s
<1>2. OwnLines'
  BY <1>0, <1>1, <1>p, CommandLines
<1>3. ASSUME NEW p \in told'
      PROVE  SteadyAt(p[1], p[2])' /\ (p[1] \in here' => Follows(p[1], At[p[2]], Peer(p[2]))')
  <2>1. p \in told
    BY <1>0, <1>3 DEF to_links, StillTold, Quiet
  <2>2. p[1] \in Users /\ SteadyAt(p[1], p[2])'
    BY <1>1, <2>1, ToldPair, CommandSteady
  <2>3. ASSUME p[1] \in here' PROVE Follows(p[1], At[p[2]], Peer(p[2]))'
    <3>1. p[1] \in here /\ p[1] # u /\ joined'[p[1]] \subseteq joined[p[1]] /\ ~About(m, p[1])
      BY <1>1, <1>a, <2>2, <2>3
    <3> QED BY <1>0, <1>1, <1>3, <3>1, SentOther, QuietOther
  <2> QED BY <2>2, <2>3
<1> QED BY <1>o, <1>2, <1>3, Parts DEF Tracked

\* Speaking says nothing about anybody.
LEMMA SpeakTracked == ASSUME Delivery, NEW u \in Users, Speak(u) PROVE Tracked'
<1> DEFINE s == Home[u]
           m == UserLine("MESSAGE", u)
<1>0. /\ s \in Servers /\ m \in Lines /\ to_links(s, m)
      /\ UNCHANGED <<here, gone, joined, net, links, sess, dump, cut>>
  BY HomeAssumption, LineTypes DEF Speak
<1>a. \A v \in Users : ~About(m, v)
  BY DEF About, UserLine
<1>o. Orderly'
  BY <1>0, CommandOrderly DEF Delivery, Tracked, Orderly
<1>p. Proper(m, s, here' \cup gone', gone')
  BY <1>a DEF Proper
<1> HIDE DEF m, s
<1>2. OwnLines'
  BY <1>0, <1>p, CommandLines
<1>3. ASSUME NEW p \in told'
      PROVE  SteadyAt(p[1], p[2])' /\ (p[1] \in here' => Follows(p[1], At[p[2]], Peer(p[2]))')
  <2>1. p \in told /\ p[1] \in Users
    BY <1>0, <1>3, ToldPair DEF to_links, StillTold
  <2> QED BY <1>0, <1>a, <1>3, <2>1, CommandSteady, SentOther
<1> QED BY <1>o, <1>2, <1>3, Parts DEF Tracked

\* Leaving a channel: the PART comes after whatever brought u there.
LEMMA PartTracked ==
  ASSUME Delivery, NEW u \in Users, NEW ch \in Chans, Part(u, ch) \/ Kicked(u, ch)
  PROVE  Tracked'
<1> DEFINE s == Home[u]
           m == ChanLine("PART", u, ch)
<1>0. /\ s \in Servers /\ m \in Lines /\ Inv /\ TypeOK /\ Leaves(u, ch)
      /\ to_links(s, m) \/ Quiet
  BY HomeAssumption, LineTypes DEF Delivery, Inv, Part, Kicked
<1>1. /\ u \in here /\ here' = here /\ gone' = gone
      /\ \A v \in Users : joined'[v] = IF v = u THEN joined[v] \ {ch} ELSE joined[v]
      /\ UNCHANGED <<net, links, sess, dump, cut>>
  BY <1>0 DEF Leaves, TypeOK
<1>o. Orderly'
  <2>1. here' \cap gone' = {} /\ \A v \in Users \ here' : joined'[v] = {}
    BY <1>1 DEF Delivery, Tracked, Orderly
  <2> QED BY <1>1, <2>1, CommandOrderly
<1>p. Proper(m, s, here' \cup gone', gone')
  BY <1>1 DEF Proper, About, ChanLine
<1>a. \A v \in Users : About(m, v) => v = u
  BY DEF About, ChanLine
<1> HIDE DEF m, s
<1>2. OwnLines'
  BY <1>0, <1>1, <1>p, CommandLines
<1>3. ASSUME NEW p \in told'
      PROVE  SteadyAt(p[1], p[2])' /\ (p[1] \in here' => Follows(p[1], At[p[2]], Peer(p[2]))')
  <2>1. p \in told
    BY <1>0, <1>3 DEF to_links, StillTold, Quiet
  <2>2. p[1] \in Users /\ SteadyAt(p[1], p[2])'
    BY <1>1, <2>1, ToldPair, CommandSteady
  <2>3. ASSUME p[1] \in here' PROVE Follows(p[1], At[p[2]], Peer(p[2]))'
    <3>1. p[1] \in here /\ joined'[p[1]] \subseteq joined[p[1]]
      BY <1>1, <2>2, <2>3
    <3>2. CASE p[1] # u \/ Quiet
      BY <1>0, <1>1, <1>3, <1>a, <2>2, <3>1, <3>2, SentOther, QuietOther
    <3>3. CASE p[1] = u /\ to_links(s, m)
      <4> SUFFICES ASSUME NEW r, NEW t, r = At[p[2]], t = Peer(p[2])
                   PROVE  Follows(u, r, t)'
        BY <3>3 DEF Follows, Inbound, Peer
      <4>1. Follows(u, r, t)
        BY <1>1, <2>1, <3>3, ToldPair
      <4>2. \A f \in Inbound(r, t) :
              \/ wire'[f] = wire[f]
              \/ wire'[f] = Append(wire[f], m) /\ Other[f] \in links
        <5>1. p \in StillTold(s) /\ SentAll(s, m)
          BY <1>3, <3>3 DEF to_links, SentAll
        <5> QED BY <1>0, <5>1, Reaches
      <4>3. known' = known /\ on' = on /\ links' = links
        BY <1>1 DEF net
      <4>4. joined[u] \in SUBSET Chans /\ joined'[u] = joined[u] \ {ch}
        BY <1>0, <1>1 DEF TypeOK
      <4>5. ASSUME NEW f \in Inbound(r, t)
            PROVE  /\ Other[f] \notin links' => Silent(wire'[f], u)
                   /\ Other[f] \in links' => u \in known'[t] \/ Names(wire'[f], u)
                   /\ u \in known'[t] \/ NamesFirst(wire'[f], u)
                   /\ Rejoins(wire'[f], u, joined'[u])
                   /\ \A c : Brings(wire[f], u, c) => Brings(wire'[f], u, c)
        <5>0. f \in Ends
          BY InboundEnds
        <5>1. wire[f] \in Seq(Lines)
          BY <1>0, <5>0, WireSeq
        <5>2. CASE wire'[f] = wire[f]
          <6>1. Rejoins(wire[f], u, joined'[u])
            BY <4>1, <4>4 DEF Follows, Rejoins
          <6> QED BY <4>1, <4>3, <5>2, <6>1 DEF Follows
        <5>3. CASE wire'[f] = Append(wire[f], m) /\ Other[f] \in links
          <6>1. /\ Names(wire[f], u) => Names(wire'[f], u)
                /\ NamesFirst(wire[f], u) => NamesFirst(wire'[f], u)
                /\ \A c : Brings(wire[f], u, c) => Brings(wire'[f], u, c)
                /\ Rejoins(wire[f], u, joined[u]) => Rejoins(wire'[f], u, joined[u] \ {ch})
            <7>1. wire'[f] = Append(wire[f], ChanLine("PART", u, ch))
              BY <5>3 DEF m
            <7> QED BY <4>4, <5>1, <7>1, AppendPart
          <6> QED BY <4>1, <4>3, <4>4, <5>3, <6>1 DEF Follows
        <5> QED BY <4>2, <5>2, <5>3
      <4>6. \A c \in joined'[u] :
              c \in on'[t][u] \/ \E f \in Inbound(r, t) : Brings(wire'[f], u, c)
        BY <4>1, <4>3, <4>4, <4>5 DEF Follows
      <4> QED BY <4>5, <4>6, FollowsNext
    <3> QED BY <1>0, <3>2, <3>3
  <2> QED BY <2>2, <2>3
<1> QED BY <1>o, <1>2, <1>3, Parts DEF Tracked

\* Joining one: in either form, the line goes behind everything about u on every
\* wire.
LEMMA JoinTracked ==
  ASSUME Delivery, NEW u \in Users, NEW ch \in Chans, NEW t0 \in Times[Home[u]], Join(u, ch, t0)
  PROVE  Tracked'
<1> DEFINE s == Home[u]
           m == IF members_of(s, ch) # {} THEN ChanLine("IJOIN", u, ch)
                                           ELSE FJOIN(ch, ts'[s][ch], {u})
<1>0. s \in Servers /\ Inv /\ TypeOK
  BY HomeAssumption DEF Delivery, Inv
<1>1. /\ u \in here /\ here' = here /\ gone' = gone
      /\ \A v \in Users : joined'[v] = IF v = u THEN joined[v] \cup {ch} ELSE joined[v]
      /\ UNCHANGED <<net, links, sess, dump, cut>>
  BY <1>0 DEF Join, TypeOK
<1>m. /\ m \in Lines /\ Adds(m, u, ch) /\ \A c : ~Drops(m, u, c)
      /\ \A v \in Users : About(m, v) => v = u
      /\ m.kind # "QUIT"
  <2>1. TypeOK'
    BY <1>0, <1>1, JoinStep DEF CommandKeeps
  <2>2. ts'[s][ch] \in Nat /\ {u} \in SUBSET Users
    BY <1>0, <2>1 DEF TypeOK
  <2>3. m \in Lines
    BY <2>2, LineTypes
  <2>4. CASE m = ChanLine("IJOIN", u, ch)
    BY <2>3, <2>4 DEF Adds, Drops, About, ChanLine
  <2>5. CASE m = FJOIN(ch, ts'[s][ch], {u})
    BY <2>3, <2>5 DEF Adds, Drops, About, FJOIN
  <2> QED BY <2>4, <2>5
<1>2. IF Handles(s) = {} THEN Quiet ELSE to_links(s, m)
  BY DEF Join, Relayed, Introduces
<1>o. Orderly'
  <2>1. here' \cap gone' = {} /\ \A v \in Users \ here' : joined'[v] = {}
    BY <1>1 DEF Delivery, Tracked, Orderly
  <2> QED BY <1>1, <2>1, CommandOrderly
<1>p. Proper(m, s, here' \cup gone', gone')
  BY <1>1, <1>m DEF Proper
<1> HIDE DEF m
<1>3. OwnLines'
  BY <1>0, <1>1, <1>2, <1>m, <1>p, CommandLines
<1>4. ASSUME NEW p \in told'
      PROVE  SteadyAt(p[1], p[2])' /\ (p[1] \in here' => Follows(p[1], At[p[2]], Peer(p[2]))')
  <2>1. p \in told
    BY <1>2, <1>4 DEF to_links, StillTold, Quiet
  <2>2. p[1] \in Users /\ SteadyAt(p[1], p[2])'
    BY <1>1, <2>1, ToldPair, CommandSteady
  <2>3. ASSUME p[1] \in here' PROVE Follows(p[1], At[p[2]], Peer(p[2]))'
    <3>1. CASE p[1] # u
      <4>1. p[1] \in here /\ joined'[p[1]] \subseteq joined[p[1]] /\ ~About(m, p[1])
        BY <1>1, <1>m, <2>2, <2>3, <3>1
      <4> QED BY <1>0, <1>1, <1>2, <1>4, <1>m, <4>1, SentOther, QuietOther
    <3>2. CASE p[1] = u
      <4> SUFFICES ASSUME NEW r, NEW t, r = At[p[2]], t = Peer(p[2])
                   PROVE  Follows(u, r, t)'
        BY <3>2 DEF Follows, Inbound, Peer
      <4>1. /\ Follows(u, r, t) /\ r = s /\ p[2] \in links /\ p[2] \in Ends /\ At[p[2]] = s
            /\ p[2] \in Handles(s) /\ Other[p[2]] \in Inbound(r, t)
            /\ Other[Other[p[2]]] = p[2]
        BY <1>1, <2>1, <3>2, ToldPair, OtherEnds DEF SteadyAt, Handles, Inbound
      <4>2. \A f \in Inbound(r, t) :
              wire'[f] = IF Other[f] \in links THEN Append(wire[f], m) ELSE wire[f]
        <5>1. to_links(s, m)
          BY <1>2, <4>1
        <5>2. p \in StillTold(s) /\ SentAll(s, m)
          BY <1>4, <5>1 DEF to_links, SentAll
        <5> QED BY <1>0, <4>1, <5>2, Reaches
      <4>3. known' = known /\ on' = on /\ links' = links
        BY <1>1 DEF net
      <4>4. joined'[u] = joined[u] \cup {ch}
        BY <1>1
      <4>5. ASSUME NEW f \in Inbound(r, t)
            PROVE  /\ Other[f] \notin links' => Silent(wire'[f], u)
                   /\ Other[f] \in links' => u \in known'[t] \/ Names(wire'[f], u)
                   /\ u \in known'[t] \/ NamesFirst(wire'[f], u)
                   /\ Rejoins(wire'[f], u, joined'[u])
                   /\ \A c : Brings(wire[f], u, c) => Brings(wire'[f], u, c)
                   /\ Other[f] \in links' => Brings(wire'[f], u, ch)
        <5>0. f \in Ends
          BY InboundEnds
        <5>1. wire[f] \in Seq(Lines)
          BY <1>0, <5>0, WireSeq
        <5>2. CASE Other[f] \notin links
          <6>1. wire'[f] = wire[f] /\ Silent(wire[f], u)
            BY <4>1, <4>2, <5>2 DEF Follows
          <6>2. Rejoins(wire[f], u, joined'[u]) /\ NamesFirst(wire[f], u)
            BY <6>1, SaysAbout DEF Silent, Rejoins, NamesFirst
          <6> QED BY <4>3, <5>2, <6>1, <6>2
        <5>3. CASE Other[f] \in links
          <6>1. wire'[f] = Append(wire[f], m)
            BY <4>2, <5>3
          <6>2. /\ u \in known[t] \/ (Names(wire[f], u) /\ NamesFirst(wire[f], u))
                /\ Rejoins(wire[f], u, joined[u])
            BY <4>1, <5>3 DEF Follows
          <6>3. /\ Brings(wire'[f], u, ch)
                /\ Names(wire[f], u) => Names(wire'[f], u)
                                        /\ (NamesFirst(wire[f], u) => NamesFirst(wire'[f], u))
                /\ \A c : Brings(wire[f], u, c) => Brings(wire'[f], u, c)
                /\ Rejoins(wire[f], u, joined[u]) => Rejoins(wire'[f], u, joined[u] \cup {ch})
            BY <1>m, <5>1, <6>1, AppendJoin
          <6> QED BY <4>3, <4>4, <5>3, <6>2, <6>3
        <5> QED BY <5>2, <5>3
      <4>6. \A c \in joined'[u] :
              c \in on'[t][u] \/ \E f \in Inbound(r, t) : Brings(wire'[f], u, c)
        <5> SUFFICES ASSUME NEW c \in joined'[u]
                     PROVE  c \in on'[t][u] \/ \E f \in Inbound(r, t) : Brings(wire'[f], u, c)
          OBVIOUS
        <5>1. CASE c = ch
          BY <4>1, <4>3, <4>5, <5>1
        <5>2. CASE c \in joined[u]
          BY <4>1, <4>3, <4>5, <5>2 DEF Follows
        <5> QED BY <4>4, <5>1, <5>2
      <4> QED BY <4>5, <4>6, FollowsNext
    <3> QED BY <3>1, <3>2
  <2> QED BY <2>2, <2>3
<1> QED BY <1>o, <1>3, <1>4, Parts DEF Tracked

\* All commands.
LEMMA CommandTracked == ASSUME Delivery, NEW u \in Users, Command(u) PROVE Tracked'
BY RegisterTracked, LeaveTracked, SpeakTracked, PartTracked, JoinTracked DEF Command

-----------------------------------------------------------------------------
(* Lines that are read                                                     *)

\* What apply_event makes of the line h that it reads from e, at t: only a QUIT
\* makes it forget a user, and only what Drops takes them out of a channel.
Applied(e, h, t) ==
  /\ wire[e] # <<>> /\ h = Head(wire[e]) /\ h \in Lines
  /\ \A f \in Ends : wire'[f] = IF f = e THEN Tail(wire[e]) ELSE wire[f]
  /\ UNCHANGED <<here, gone, joined, links, sess, dump, cut, told>>
  /\ \A s \in Servers \ {t} : known'[s] = known[s] /\ on'[s] = on[s]
  /\ \A u \in Users :
       /\ u \in known[t] => u \in known'[t] \/ (h.kind = "QUIT" /\ h.user = u)
       /\ h = UserLine("UID", u) => u \in known'[t]
       /\ \A ch \in on[t][u] : ch \in on'[t][u] \/ Drops(h, u, ch)
       /\ \A ch \in Chans : Adds(h, u, ch) /\ u \in known[t] => ch \in on'[t][u]
       /\ on'[t][u] # {} => u \in known'[t]

\* Every line that apply_event handles does that.
LEMMA EventApplied ==
  ASSUME Delivery, NEW e \in Ends, apply_event(e)
  PROVE  Applied(e, Head(wire[e]), At[e])
<1> DEFINE h == Head(wire[e])
           t == At[e]
<1>0. /\ TypeOK /\ Inv /\ t \in Servers /\ Consumed(e)
      /\ UNCHANGED <<here, gone, joined, links, sess, dump, cut, told>>
  BY OtherEnds DEF Delivery, Inv, apply_event, RecvUid, RecvQuit, RecvMessage, RecvFjoin, RecvIjoin,
     RecvPart, local
<1>1. PICK k \in {"UID", "QUIT", "MESSAGE", "FJOIN", "IJOIN", "PART"} : Reads(e, k)
  BY DEF apply_event, RecvUid, RecvQuit, RecvMessage, RecvFjoin, RecvIjoin, RecvPart
<1>2. h \in Lines /\ h.kind = k /\ wire[e] # <<>>
  BY <1>0, <1>1, ReadLine DEF Reads
<1>3. \A f \in Ends : wire'[f] = IF f = e THEN Tail(wire[e]) ELSE wire[f]
  BY <1>0 DEF Consumed, TypeOK
<1>4. /\ known \in [Servers -> SUBSET Users] /\ on \in [Servers -> [Users -> SUBSET Chans]]
      /\ \A u \in Users : on[t][u] # {} => u \in known[t]
  BY <1>0 DEF TypeOK, Delivery, Tracked, Orderly
<1>k. /\ RecvUid(e) => h.kind = "UID"
      /\ RecvQuit(e) => h.kind = "QUIT"
      /\ RecvFjoin(e) => h.kind = "FJOIN"
      /\ RecvIjoin(e) => h.kind = "IJOIN"
      /\ RecvPart(e) => h.kind = "PART"
      /\ RecvMessage(e) => h.kind = "MESSAGE"
  BY DEF RecvUid, RecvQuit, RecvMessage, RecvFjoin, RecvIjoin, RecvPart, Reads
<1>u. \A u \in Users : UserLine("UID", u).kind = "UID" /\ UserLine("UID", u).user = u
  BY DEF UserLine
<1>d. /\ RecvUid(e) => /\ known' = [known EXCEPT ![t] = @ \cup {h.user}]
                       /\ on' = [on EXCEPT ![t][h.user] = {}]
      /\ RecvQuit(e) => /\ known' = [known EXCEPT ![t] = @ \ {h.user}]
                        /\ on' = [on EXCEPT ![t][h.user] = {}]
      /\ RecvMessage(e) => known' = known /\ on' = on
      /\ RecvFjoin(e) => known' = known /\ on' = Seen(t, h.users, h.chan)
      /\ RecvIjoin(e) => known' = known /\ on' = Seen(t, {h.user}, h.chan)
      /\ RecvPart(e) => known' = known /\ on' = [on EXCEPT ![t][h.user] = @ \ {h.chan}]
  BY DEF RecvUid, RecvQuit, RecvMessage, RecvFjoin, RecvIjoin, RecvPart, net
<1> HIDE DEF h, t
<1>f. ASSUME NEW u \in Users
      PROVE  /\ u \in known[t] => u \in known'[t] \/ (h.kind = "QUIT" /\ h.user = u)
             /\ h = UserLine("UID", u) => u \in known'[t]
             /\ \A ch \in on[t][u] : ch \in on'[t][u] \/ Drops(h, u, ch)
             /\ \A ch \in Chans : Adds(h, u, ch) /\ u \in known[t] => ch \in on'[t][u]
             /\ on'[t][u] # {} => u \in known'[t]
  <2>1. CASE RecvUid(e)
    <3>1. h.kind = "UID" /\ h.user \in Users
      BY <1>2, <1>k, <2>1, LineFields
    <3>2. known'[t] = known[t] \cup {h.user}
      BY <1>0, <1>4, <1>d, <2>1
    <3>3. on' = [on EXCEPT ![t][h.user] = {}]
      BY <1>d, <2>1
    <3>4. on'[t][u] = IF u = h.user THEN {} ELSE on[t][u]
      BY <1>0, <1>4, <3>1, <3>3
    <3> QED BY <1>4, <1>u, <3>1, <3>2, <3>4 DEF Drops, Adds
  <2>2. CASE RecvQuit(e)
    <3>1. h.kind = "QUIT" /\ h.user \in Users
      BY <1>2, <1>k, <2>2, LineFields
    <3>2. known'[t] = known[t] \ {h.user}
      BY <1>0, <1>4, <1>d, <2>2
    <3>3. on' = [on EXCEPT ![t][h.user] = {}]
      BY <1>d, <2>2
    <3>4. on'[t][u] = IF u = h.user THEN {} ELSE on[t][u]
      BY <1>0, <1>4, <3>1, <3>3
    <3> QED BY <1>4, <1>u, <3>1, <3>2, <3>4 DEF Drops, Adds
  <2>3. CASE RecvMessage(e)
    BY <1>4, <1>d, <1>k, <1>u, <2>3 DEF Drops, Adds
  <2>4. CASE RecvFjoin(e)
    <3>1. h.kind = "FJOIN" /\ h.chan \in Chans
      BY <1>2, <1>k, <2>4, LineFields
    <3>2. /\ known' = known
          /\ on'[t][u] = IF u \in h.users \cap known[t] THEN on[t][u] \cup {h.chan} ELSE on[t][u]
      BY <1>0, <1>4, <1>d, <2>4 DEF Seen
    <3> QED BY <1>4, <1>u, <3>1, <3>2 DEF Drops, Adds
  <2>5. CASE RecvIjoin(e)
    <3>1. h.kind = "IJOIN" /\ h.chan \in Chans
      BY <1>2, <1>k, <2>5, LineFields
    <3>2. /\ known' = known
          /\ on'[t][u] = IF u \in {h.user} \cap known[t] THEN on[t][u] \cup {h.chan} ELSE on[t][u]
      BY <1>0, <1>4, <1>d, <2>5 DEF Seen
    <3> QED BY <1>4, <1>u, <3>1, <3>2 DEF Drops, Adds
  <2>6. CASE RecvPart(e)
    <3>1. h.kind = "PART" /\ h.user \in Users
      BY <1>2, <1>k, <2>6, LineFields
    <3>2. known' = known /\ on' = [on EXCEPT ![t][h.user] = @ \ {h.chan}]
      BY <1>d, <2>6
    <3>3. on'[t][u] = IF u = h.user THEN on[t][u] \ {h.chan} ELSE on[t][u]
      BY <1>0, <1>4, <3>1, <3>2
    <3>4. known' = known
      BY <3>2
    <3> QED BY <1>4, <1>u, <3>1, <3>3, <3>4 DEF Drops, Adds
  <2> QED BY <2>1, <2>2, <2>3, <2>4, <2>5, <2>6 DEF apply_event
<1>s. \A s \in Servers \ {t} : known'[s] = known[s] /\ on'[s] = on[s]
  <2>1. CASE RecvFjoin(e) \/ RecvIjoin(e)
    BY <1>0, <1>4, <1>d, <2>1 DEF Seen
  <2>2. CASE RecvUid(e) \/ RecvQuit(e) \/ RecvMessage(e) \/ RecvPart(e)
    BY <1>0, <1>4, <1>d, <2>2
  <2> QED BY <2>1, <2>2 DEF apply_event
<1> QED BY <1>0, <1>2, <1>3, <1>f, <1>s DEF Applied, h, t

\* Reading a line keeps its user followed: the line says nothing of them, or it
\* comes from their own server, and then what is left of its wire makes up for
\* what it undoes.
LEMMA AppliedFollows ==
  ASSUME Delivery, NEW e \in Ends, NEW h, Applied(e, h, At[e]),
         NEW p \in told, p[1] \in here
  PROVE  Follows(p[1], At[p[2]], Peer(p[2]))'
<1> SUFFICES ASSUME NEW u, NEW s, NEW t, u = p[1], s = At[p[2]], t = Peer(p[2])
             PROVE  Follows(u, s, t)'
  BY DEF Follows, Inbound, Peer
<1>0. /\ u \in Users /\ s \in Servers /\ t \in Servers /\ Home[u] = s /\ Follows(u, s, t)
      /\ wire[e] \in Seq(Lines) /\ wire[e] # <<>> /\ h = Head(wire[e])
      /\ joined' = joined /\ links' = links
  BY ToldPair, WireSeq DEF Delivery, Applied
<1>1. About(h, u) => Peer(e) = s /\ ~(h.kind = "QUIT" /\ h.user = u)
  <2>1. 1 \in DOMAIN wire[e] /\ h = wire[e][1]
    BY <1>0, EmptySeq, LenProperties
  <2>2. Proper(h, Peer(e), here \cup gone, gone)
    BY <2>1 DEF Delivery, Tracked, OwnLines
  <2>3. here \cap gone = {}
    BY DEF Delivery, Tracked, Orderly
  <2> QED BY <1>0, <2>2, <2>3 DEF Proper
<1>2. u \in known[t] => u \in known'[t]
  <2>1. CASE At[e] = t
    <3>1. ~(h.kind = "QUIT" /\ h.user = u)
      BY <1>1 DEF About
    <3> QED BY <1>0, <2>1, <3>1 DEF Applied
  <2>2. CASE At[e] # t
    BY <1>0, <2>2 DEF Applied
  <2> QED BY <2>1, <2>2
<1>3. CASE e \notin Inbound(s, t)
  <2>1. on[t][u] \subseteq on'[t][u]
    <3>1. CASE At[e] = t
      <4>1. ~About(h, u)
        BY <1>1, <1>3, <3>1 DEF Inbound
      <4>2. \A ch : ~Drops(h, u, ch)
        BY <4>1, SaysAbout
      <4> QED BY <1>0, <3>1, <4>2 DEF Applied
    <3>2. CASE At[e] # t
      BY <1>0, <3>2 DEF Applied
    <3> QED BY <3>1, <3>2
  <2>2. \A f \in Inbound(s, t) : wire'[f] = wire[f]
    BY <1>3, InboundEnds DEF Applied
  <2> QED BY <1>0, <1>2, <2>1, <2>2, FollowsSame
<1>4. CASE e \in Inbound(s, t)
  <2>0. At[e] = t
    BY <1>4 DEF Inbound
  <2>1. /\ h = UserLine("UID", u) => u \in known'[t]
        /\ \A ch \in on[t][u] : ch \in on'[t][u] \/ Drops(h, u, ch)
        /\ \A ch \in Chans : Adds(h, u, ch) /\ u \in known[t] => ch \in on'[t][u]
    BY <1>0, <2>0 DEF Applied
  <2>2. \A f \in Inbound(s, t) : wire'[f] = IF f = e THEN Tail(wire[e]) ELSE wire[f]
    BY InboundEnds DEF Applied
  <2>3. /\ Silent(wire[e], u) => Silent(Tail(wire[e]), u)
        /\ h # UserLine("UID", u) =>
             /\ Names(wire[e], u) => Names(Tail(wire[e]), u)
             /\ NamesFirst(wire[e], u) => NamesFirst(Tail(wire[e]), u)
        /\ NamesFirst(wire[e], u) => \A ch \in Chans : ~Adds(h, u, ch)
        /\ \A ch : Brings(wire[e], u, ch) => Adds(h, u, ch) \/ Brings(Tail(wire[e]), u, ch)
        /\ \A J : Rejoins(wire[e], u, J) =>
             /\ Rejoins(Tail(wire[e]), u, J)
             /\ \A ch \in J : Drops(h, u, ch) => Brings(Tail(wire[e]), u, ch)
    BY <1>0, TailSays
  <2>4. ASSUME NEW f \in Inbound(s, t)
        PROVE  /\ Other[f] \notin links' => Silent(wire'[f], u)
               /\ Other[f] \in links' => u \in known'[t] \/ Names(wire'[f], u)
               /\ u \in known'[t] \/ NamesFirst(wire'[f], u)
               /\ Rejoins(wire'[f], u, joined'[u])
    <3>1. /\ Other[f] \notin links => Silent(wire[f], u)
          /\ Other[f] \in links => u \in known[t] \/ Names(wire[f], u)
          /\ u \in known[t] \/ NamesFirst(wire[f], u)
          /\ Rejoins(wire[f], u, joined[u])
      BY <1>0 DEF Follows
    <3>2. CASE f # e
      BY <1>0, <1>2, <2>2, <3>1, <3>2
    <3>3. CASE f = e
      <4>1. wire'[f] = Tail(wire[e])
        BY <2>2, <3>3
      <4> QED BY <1>0, <1>2, <2>1, <2>3, <3>1, <3>3, <4>1
    <3> QED BY <3>2, <3>3
  <2>5. ASSUME NEW ch \in joined'[u]
        PROVE  ch \in on'[t][u] \/ \E f \in Inbound(s, t) : Brings(wire'[f], u, ch)
    <3>1. ch \in joined[u] /\ ch \in Chans
      BY <1>0, <2>5 DEF Delivery, Inv, TypeOK
    <3>2. wire'[e] = Tail(wire[e])
      BY <1>4, <2>2
    <3>3. CASE ch \in on[t][u]
      <4>1. Rejoins(wire[e], u, joined[u])
        BY <1>0, <1>4 DEF Follows
      <4> QED BY <1>4, <2>1, <2>3, <3>1, <3>2, <3>3, <4>1
    <3>4. ASSUME NEW f \in Inbound(s, t), Brings(wire[f], u, ch), f = e
          PROVE  ch \in on'[t][u] \/ Brings(wire'[e], u, ch)
      <4>1. u \in known[t] \/ NamesFirst(wire[e], u)
        BY <1>0, <1>4 DEF Follows
      <4> QED BY <2>1, <2>3, <3>1, <3>2, <3>4, <4>1
    <3>5. ASSUME NEW f \in Inbound(s, t), Brings(wire[f], u, ch), f # e
          PROVE  Brings(wire'[f], u, ch)
      BY <2>2, <3>5
    <3> QED BY <1>0, <1>4, <3>1, <3>3, <3>4, <3>5 DEF Follows
  <2> QED BY <2>4, <2>5, FollowsNext
<1> QED BY <1>3, <1>4

\* A line that is read.
LEMMA EventTracked ==
  ASSUME Delivery, NEW e \in Ends, apply_event(e) PROVE Tracked'
<1> DEFINE h == Head(wire[e])
<1>1. Applied(e, h, At[e])
  BY EventApplied
<1> HIDE DEF h
<1>2. UNCHANGED <<here, gone, joined, links, sess, dump, cut, told>>
  BY <1>1 DEF Applied
<1>3. OwnLines'
  <2>1. wire[e] \in Seq(Lines) /\ wire[e] # <<>>
    BY <1>1, WireSeq DEF Delivery, Applied
  <2>2. \A i \in DOMAIN Tail(wire[e]) :
          i + 1 \in DOMAIN wire[e] /\ Tail(wire[e])[i] = wire[e][i + 1]
    BY <2>1, HeadTailProperties, LenProperties
  <2>3. ASSUME NEW f \in Ends, NEW i \in DOMAIN wire'[f]
        PROVE  Proper(wire'[f][i], Peer(f), here \cup gone, gone)
    <3>1. \A j \in DOMAIN wire[f] : Proper(wire[f][j], Peer(f), here \cup gone, gone)
      BY DEF Delivery, Tracked, OwnLines
    <3>2. wire'[f] = IF f = e THEN Tail(wire[e]) ELSE wire[f]
      BY <1>1 DEF Applied
    <3> QED BY <2>2, <2>3, <3>1, <3>2
  <2>4. \A f \in Ends : \A i \in DOMAIN dump[f] : Proper(dump[f][i], At[f], here \cup gone, gone)
    BY DEF Delivery, Tracked, OwnLines
  <2> QED BY <1>2, <2>3, <2>4 DEF OwnLines, Proper, Peer, About
<1>4. Orderly'
  <2>1. ASSUME NEW s \in Servers, NEW u \in Users, on'[s][u] # {} PROVE u \in known'[s]
    BY <1>1, <2>1 DEF Applied, Delivery, Tracked, Orderly
  <2> QED BY <1>2, <2>1 DEF Delivery, Tracked, Orderly, Registered
<1>5. ASSUME NEW p \in told'
      PROVE  SteadyAt(p[1], p[2])' /\ (p[1] \in here' => Follows(p[1], At[p[2]], Peer(p[2]))')
  BY <1>1, <1>2, CommandSteady, AppliedFollows
<1> QED BY <1>3, <1>4, <1>5, Parts DEF Tracked

-----------------------------------------------------------------------------
(* Sessions that come and go                                               *)

\* Lines that were there before, and nobody forgotten.
LEMMA LinesLess ==
  ASSUME Delivery, here \cup gone \subseteq here' \cup gone', gone \subseteq gone',
         \A f \in Ends :
           /\ \A i \in DOMAIN wire'[f] : \E j \in DOMAIN wire[f] : wire'[f][i] = wire[f][j]
           /\ \A i \in DOMAIN dump'[f] : \E j \in DOMAIN dump[f] : dump'[f][i] = dump[f][j]
  PROVE  OwnLines'
<1> DEFINE H == here' \cup gone'
           G == gone'
<1>0. ASSUME NEW e \in Ends
      PROVE  /\ \A i \in DOMAIN wire[e] : Proper(wire[e][i], Peer(e), H, G)
             /\ \A i \in DOMAIN dump[e] : Proper(dump[e][i], At[e], H, G)
  BY ProperSame DEF Delivery, Tracked, OwnLines
<1>1. ASSUME NEW e \in Ends
      PROVE  /\ \A i \in DOMAIN wire'[e] : Proper(wire'[e][i], Peer(e), H, G)
             /\ \A i \in DOMAIN dump'[e] : Proper(dump'[e][i], At[e], H, G)
  BY <1>0
<1> QED BY <1>1 DEF OwnLines, Proper, Peer, About

\* There is nothing in an empty wire.
LEMMA EmptyDomain == DOMAIN <<>> = {}
BY EmptySeq

\* What is still told after something happened to a link of e's servers has
\* nothing to do with them.
LEMMA Apart ==
  ASSUME Delivery, NEW e \in Ends, NEW p \in Rewired(e)
  PROVE  /\ p \in told
         /\ \A f \in Inbound(At[p[2]], Peer(p[2])) \cup Inbound(Peer(p[2]), At[p[2]]) :
              /\ f \in Ends /\ f # e /\ f # Other[e] /\ Other[f] # e /\ Other[f] # Other[e]
              /\ ~(At[f] = At[e] /\ Peer(f) = Peer(e))
<1>1. p \in told /\ {At[p[2]], Peer(p[2])} # {At[e], Peer(e)}
  BY DEF Rewired
<1>2. ASSUME NEW f \in Inbound(At[p[2]], Peer(p[2])) \cup Inbound(Peer(p[2]), At[p[2]])
      PROVE  /\ f \in Ends /\ f # e /\ f # Other[e] /\ Other[f] # e /\ Other[f] # Other[e]
             /\ ~(At[f] = At[e] /\ Peer(f) = Peer(e))
  <2>1. f \in Ends /\ {At[f], Peer(f)} = {At[p[2]], Peer(p[2])}
    BY DEF Inbound
  <2>2. f \in Ends /\ {At[f], Peer(f)} # {At[e], Peer(e)}
    BY <1>1, <2>1
  <2>3. {At[Other[f]], Peer(Other[f])} = {At[f], Peer(f)}
    BY <2>1, OtherEnds
  <2>4. {At[Other[e]], Peer(Other[e])} = {At[e], Peer(e)}
    BY OtherEnds
  <2>5. f # e /\ ~(At[f] = At[e] /\ Peer(f) = Peer(e))
    BY <2>2
  <2>6. f # Other[e]
    BY <2>2, <2>4
  <2>7. Other[f] # e
    BY <2>2, <2>3
  <2>8. Other[f] # Other[e]
    BY <2>2, <2>3, <2>4
  <2> QED BY <2>1, <2>5, <2>6, <2>7, <2>8
<1> QED BY <1>1, <1>2

\* So it is steady and followed, if nothing else changes for its servers.
LEMMA ApartSame ==
  ASSUME Delivery, NEW e \in Ends, NEW p \in Rewired(e), here' = here, gone' = gone,
         joined' = joined,
         \A f \in Ends : f # e /\ f # Other[e] =>
           sess'[f] = sess[f] /\ wire'[f] = wire[f] /\ (f \in cut' => f \in cut),
         \A f \in Ends : ~(At[f] = At[e] /\ Peer(f) = Peer(e)) => (f \in links' <=> f \in links),
         p[1] \in known[Peer(p[2])] => p[1] \in known'[Peer(p[2])],
         on[Peer(p[2])][p[1]] \subseteq on'[Peer(p[2])][p[1]]
  PROVE  SteadyAt(p[1], p[2])' /\ (p[1] \in here' => Follows(p[1], At[p[2]], Peer(p[2]))')
<1> DEFINE X == Inbound(At[p[2]], Peer(p[2])) \cup Inbound(Peer(p[2]), At[p[2]])
<1>1. p \in told
  BY Apart
<1>2. /\ p[2] \in Ends /\ SteadyAt(p[1], p[2])
      /\ p[1] \in here => Follows(p[1], At[p[2]], Peer(p[2]))
  BY <1>1, ToldPair
<1>3. ASSUME NEW f \in X
      PROVE  /\ f \in Ends /\ Other[f] \in X
             /\ sess'[f] = sess[f] /\ wire'[f] = wire[f] /\ (f \in cut' => f \in cut)
             /\ f \in links' <=> f \in links
  BY Apart, InboundEnds
<1>4. p[2] \in X
  BY <1>2 DEF Inbound
<1>5. \A f \in X : Registered(f)' <=> Registered(f)
  BY <1>3 DEF Registered
<1>6. \A f \in X : Carries(f) => Carries(f)'
  BY <1>3 DEF Carries
<1>7. p[1] \in here' \cup gone' /\ p[2] \in links'
  BY <1>2, <1>3, <1>4 DEF SteadyAt
<1>8. \A g \in Inbound(Peer(p[2]), At[p[2]]) :
        Registered(g)' => Registered(g) /\ sess'[g] = sess[g] /\ g \in links'
                          /\ (Carries(g) => Carries(g)')
  <2> SUFFICES ASSUME NEW g \in Inbound(Peer(p[2]), At[p[2]]), Registered(g)'
               PROVE  Registered(g) /\ sess'[g] = sess[g] /\ g \in links'
                      /\ (Carries(g) => Carries(g)')
    OBVIOUS
  <2>1. g \in X
    OBVIOUS
  <2>2. Registered(g) /\ sess'[g] = sess[g] /\ (g \in links' <=> g \in links)
    BY <1>3, <1>5, <2>1
  <2>3. g \in links
    BY <1>2, <2>2 DEF SteadyAt
  <2> QED BY <1>6, <2>1, <2>2, <2>3
<1>9. SteadyAt(p[1], p[2])'
  BY <1>2, <1>7, <1>8, SteadySame
<1>10. ASSUME p[1] \in here' PROVE Follows(p[1], At[p[2]], Peer(p[2]))'
  <2> SUFFICES ASSUME NEW u, NEW s, NEW t, u = p[1], s = At[p[2]], t = Peer(p[2])
               PROVE  Follows(u, s, t)'
    BY DEF Follows, Inbound, Peer
  <2>1. Follows(u, s, t)
    BY <1>2, <1>10
  <2>2. \A f \in Inbound(s, t) :
          wire'[f] = wire[f] /\ (Other[f] \in links' <=> Other[f] \in links)
    BY <1>3
  <2> HIDE DEF X
  <2> QED BY <2>1, <2>2, FollowsSame
<1> QED BY <1>9, <1>10

\* The peer's SERVER.
LEMMA ServerTracked == ASSUME Delivery, NEW e \in Ends, RecvServer(e) PROVE Tracked'
<1>0. /\ TypeOK /\ here' = here /\ gone' = gone /\ joined' = joined /\ known' = known /\ on' = on
      /\ dump' = dump /\ cut' = cut /\ links' = links \cup {e} /\ told' = Rewired(e)
      /\ wire[e] # <<>> /\ wire[e] \in Seq(Lines)
  BY WireSeq DEF RecvServer, Reads, Delivery, Inv, local, net
<1>1. \A f \in Ends : /\ sess'[f] = IF f = e THEN "publish" ELSE sess[f]
                      /\ wire'[f] = IF f = e THEN Tail(wire[e]) ELSE wire[f]
  BY <1>0 DEF RecvServer, Consumed, TypeOK
<1>2. OwnLines'
  <2>1. \A i \in DOMAIN Tail(wire[e]) :
          i + 1 \in DOMAIN wire[e] /\ Tail(wire[e])[i] = wire[e][i + 1]
    BY <1>0, HeadTailProperties, LenProperties
  <2>2. \A f \in Ends : \A i \in DOMAIN wire'[f] :
          \E j \in DOMAIN wire[f] : wire'[f][i] = wire[f][j]
    BY <1>1, <2>1
  <2> QED BY <1>0, <2>2, LinesLess
<1>3. Orderly'
  <2>1. \A f \in links' : Registered(f)'
    BY <1>0, <1>1 DEF Delivery, Tracked, Orderly, Registered, TypeOK
  <2> QED BY <1>0, <2>1 DEF Delivery, Tracked, Orderly
<1>4. ASSUME NEW p \in told'
      PROVE  SteadyAt(p[1], p[2])' /\ (p[1] \in here' => Follows(p[1], At[p[2]], Peer(p[2]))')
  BY <1>0, <1>1, ApartSame
<1> QED BY <1>2, <1>3, <1>4, Parts DEF Tracked

\* A connection that breaks.
LEMMA CutTracked == ASSUME Delivery, NEW e \in Ends, Cut(e) PROVE Tracked'
<1>0. /\ TypeOK /\ here' = here /\ gone' = gone /\ joined' = joined /\ known' = known /\ on' = on
      /\ dump' = dump /\ links' = links /\ sess' = sess /\ told' = Rewired(e)
      /\ cut' = cut \cup {e, Other[e]}
  BY DEF Cut, Delivery, Inv, local, net
<1>1. \A f \in Ends : wire'[f] = IF f \in {e, Other[e]} THEN <<>> ELSE wire[f]
  BY <1>0, OtherEnds DEF Cut, TypeOK
<1>2. OwnLines'
  BY <1>0, <1>1, EmptyDomain, LinesLess
<1>3. Orderly'
  BY <1>0 DEF Delivery, Tracked, Orderly, Registered
<1>4. ASSUME NEW p \in told'
      PROVE  SteadyAt(p[1], p[2])' /\ (p[1] \in here' => Follows(p[1], At[p[2]], Peer(p[2]))')
  BY <1>0, <1>1, ApartSame
<1> QED BY <1>2, <1>3, <1>4, Parts DEF Tracked

\* A session that ends: the users of other servers stay known.
LEMMA TeardownTracked == ASSUME Delivery, NEW e \in Ends, Teardown(e) PROVE Tracked'
<1>0. /\ TypeOK /\ here' = here /\ gone' = gone /\ joined' = joined
      /\ dump' = dump /\ cut' = cut /\ told' = Rewired(e) /\ At[e] \in Servers
  BY OtherEnds DEF Teardown, Delivery, Inv, local
<1>1. \A f \in Ends : /\ sess'[f] = IF f = e THEN "closed" ELSE sess[f]
                      /\ wire'[f] = IF f = e THEN <<>> ELSE wire[f]
  BY <1>0 DEF Teardown, TypeOK
<1>2. /\ ~Registered(e) => links' = links
      /\ Registered(e) => links' = { f \in links : ~(At[f] = At[e] /\ Peer(f) = Peer(e)) }
  BY DEF Teardown
<1>3. ASSUME NEW s \in Servers, NEW u \in Users
      PROVE  /\ on'[s][u] # {} => u \in known'[s]
             /\ s # At[e] \/ Home[u] # Peer(e) =>
                  (u \in known[s] => u \in known'[s]) /\ on[s][u] \subseteq on'[s][u]
  <2>0. on[s][u] # {} => u \in known[s]
    BY DEF Delivery, Tracked, Orderly
  <2>1. CASE ~Registered(e)
    BY <2>0, <2>1 DEF Teardown, net
  <2>2. CASE Registered(e)
    <3>1. known'[s] = IF s = At[e] THEN { v \in known[s] : Home[v] # Peer(e) } ELSE known[s]
      BY <1>0, <2>2 DEF Teardown, TypeOK, split_server_detailed
    <3>2. on' = [on EXCEPT ![At[e]] =
                   [v \in Users |-> IF v \in known'[At[e]] THEN on[At[e]][v] ELSE {}]]
      BY <2>2 DEF Teardown
    <3>3. on'[s][u] = IF s = At[e] /\ u \notin known'[s] THEN {} ELSE on[s][u]
      BY <1>0, <3>2 DEF TypeOK
    <3> QED BY <2>0, <3>1, <3>3
  <2> QED BY <2>1, <2>2
<1>4. OwnLines'
  BY <1>0, <1>1, EmptyDomain, LinesLess
<1>5. Orderly'
  <2>1. ASSUME NEW f \in links' PROVE Registered(f)'
    <3>1. f \in links /\ f \in Ends /\ Registered(f)
      BY <1>0, <1>2, <2>1 DEF TypeOK, Delivery, Tracked, Orderly
    <3>2. f # e
      BY <1>2, <2>1, <3>1
    <3> QED BY <1>1, <3>1, <3>2 DEF Registered
  <2> QED BY <1>0, <1>3, <2>1 DEF Delivery, Tracked, Orderly
<1>6. ASSUME NEW p \in told'
      PROVE  SteadyAt(p[1], p[2])' /\ (p[1] \in here' => Follows(p[1], At[p[2]], Peer(p[2]))')
  <2>1. p \in Rewired(e) /\ p \in told /\ {At[p[2]], Peer(p[2])} # {At[e], Peer(e)}
    BY <1>0, <1>6 DEF Rewired
  <2>2. p[1] \in Users /\ Peer(p[2]) \in Servers /\ Home[p[1]] = At[p[2]]
    BY <2>1, ToldPair
  <2>3. Peer(p[2]) # At[e] \/ Home[p[1]] # Peer(e)
    BY <2>1, <2>2
  <2>4. /\ p[1] \in known[Peer(p[2])] => p[1] \in known'[Peer(p[2])]
        /\ on[Peer(p[2])][p[1]] \subseteq on'[Peer(p[2])][p[1]]
    BY <1>3, <2>2, <2>3
  <2>5. \A f \in Ends : ~(At[f] = At[e] /\ Peer(f) = Peer(e)) => (f \in links' <=> f \in links)
    BY <1>2
  <2> QED BY <1>0, <1>1, <2>1, <2>4, <2>5, ApartSame
<1> QED BY <1>4, <1>5, <1>6, Parts DEF Tracked

\* A server that starts again: nobody is told of its users, or tells it.
LEMMA RestartTracked == ASSUME Delivery, NEW r \in Servers, Restart(r) PROVE Tracked'
<1>0. /\ TypeOK /\ cut' = cut
      /\ here' = here \ { u \in Users : Home[u] = r }
      /\ gone' = gone \cup (here \cap { u \in Users : Home[u] = r })
      /\ links' = links \ { e \in Ends : At[e] = r }
      /\ told' = { p \in told : r \notin {At[p[2]], Peer(p[2])} }
  BY DEF Restart, Delivery, Inv
<1>1. \A f \in Ends : /\ sess'[f] = IF At[f] = r THEN "closed" ELSE sess[f]
                      /\ wire'[f] = IF At[f] = r THEN <<>> ELSE wire[f]
                      /\ dump'[f] = IF At[f] = r THEN <<>> ELSE dump[f]
  BY DEF Restart
<1>2. \A u \in Users : joined'[u] = IF Home[u] = r THEN {} ELSE joined[u]
  BY DEF Restart
<1>3. \A s \in Servers, u \in Users :
        /\ known'[s] = IF s = r THEN {} ELSE known[s]
        /\ on'[s][u] = IF s = r THEN {} ELSE on[s][u]
  BY <1>0 DEF Restart, TypeOK
<1>4. OwnLines'
  <2>1. here \cup gone \subseteq here' \cup gone' /\ gone \subseteq gone'
    BY <1>0 DEF TypeOK
  <2> QED BY <1>1, <2>1, EmptyDomain, LinesLess
<1>5. Orderly'
  <2>1. here' \cap gone' = {} /\ \A u \in Users \ here' : joined'[u] = {}
    BY <1>0, <1>2 DEF Delivery, Tracked, Orderly
  <2>2. \A f \in links' : Registered(f)'
    BY <1>0, <1>1 DEF Delivery, Tracked, Orderly, Registered, TypeOK
  <2>3. \A s \in Servers, u \in Users : on'[s][u] # {} => u \in known'[s]
    BY <1>3 DEF Delivery, Tracked, Orderly
  <2> QED BY <2>1, <2>2, <2>3 DEF Orderly
<1>6. ASSUME NEW p \in told'
      PROVE  SteadyAt(p[1], p[2])' /\ (p[1] \in here' => Follows(p[1], At[p[2]], Peer(p[2]))')
  <2> SUFFICES ASSUME NEW u, NEW e, NEW s, NEW t,
                      u = p[1], e = p[2], s = At[p[2]], t = Peer(p[2])
               PROVE  SteadyAt(u, e)' /\ (u \in here' => Follows(u, s, t)')
    BY DEF Follows, SteadyAt, Inbound, Peer
  <2>1. p \in told /\ s # r /\ t # r
    BY <1>0, <1>6
  <2>2. /\ u \in Users /\ e \in Ends /\ t \in Servers /\ Home[u] = s /\ SteadyAt(u, e)
        /\ u \in here => Follows(u, s, t)
    BY <2>1, ToldPair
  <2>3. ASSUME NEW f \in Inbound(s, t) \cup Inbound(t, s)
        PROVE  /\ f \in Ends /\ Other[f] \in Inbound(s, t) \cup Inbound(t, s)
               /\ sess'[f] = sess[f] /\ wire'[f] = wire[f] /\ (f \in links' <=> f \in links)
    <3>1. f \in Ends /\ At[f] # r /\ Other[f] \in Inbound(s, t) \cup Inbound(t, s)
      BY <2>1, InboundEnds
    <3> QED BY <1>0, <1>1, <3>1
  <2>4. \A g \in Inbound(t, s) : (Registered(g)' <=> Registered(g)) /\ (Carries(g) => Carries(g)')
    BY <1>0, <2>3 DEF Registered, Carries
  <2>5. u \in here' \cup gone' /\ e \in links' /\ s = At[e] /\ t = Peer(e)
    BY <1>0, <2>1, <2>2 DEF SteadyAt
  <2>6. SteadyAt(u, e)'
    BY <2>2, <2>3, <2>4, <2>5, SteadySame DEF SteadyAt
  <2>7. ASSUME u \in here' PROVE Follows(u, s, t)'
    <3>1. Follows(u, s, t)
      BY <1>0, <2>2, <2>7
    <3>2. \A f \in Inbound(s, t) :
            wire'[f] = wire[f] /\ (Other[f] \in links' <=> Other[f] \in links)
      BY <2>3
    <3> QED BY <1>2, <1>3, <2>1, <2>2, <3>1, <3>2, FollowsSame
  <2> QED BY <2>6, <2>7
<1> QED BY <1>4, <1>5, <1>6, Parts DEF Tracked

\* A new connection: nothing went into its ends before, and a SERVER is about
\* nobody.
LEMMA DialTracked == ASSUME Delivery, NEW e \in Ends, Dial(e) PROVE Tracked'
<1> DEFINE New == {e, Other[e]}
<1>0. /\ TypeOK /\ here' = here /\ gone' = gone /\ joined' = joined /\ known' = known /\ on' = on
      /\ dump' = dump /\ links' = links /\ told' = told /\ cut' = cut \ New
      /\ Other[e] \in Ends /\ Other[Other[e]] = e
      /\ sess[e] = "closed" /\ sess[Other[e]] = "closed"
  BY OtherEnds DEF Dial, Delivery, Inv, local, net
<1>1. \A f \in Ends : /\ sess'[f] = IF f \in New THEN "capab" ELSE sess[f]
                      /\ wire'[f] = IF f \in New THEN <<SERVER>> ELSE wire[f]
  BY <1>0 DEF Dial, TypeOK
<1>2. \A f \in New : f \in Ends /\ f \notin links /\ Other[f] \in New
  BY <1>0 DEF Delivery, Tracked, Orderly, Registered
<1>3. \A i \in DOMAIN <<SERVER>> : <<SERVER>>[i] = SERVER
  OBVIOUS
<1>4. \A u \in Users : ~About(SERVER, u)
  BY DEF About, SERVER
<1> HIDE DEF New
<1>5. OwnLines'
  <2>1. ASSUME NEW f \in Ends
        PROVE  /\ \A i \in DOMAIN wire'[f] : Proper(wire'[f][i], Peer(f), here \cup gone, gone)
               /\ \A i \in DOMAIN dump'[f] : Proper(dump'[f][i], At[f], here \cup gone, gone)
    <3>1. Proper(SERVER, Peer(f), here \cup gone, gone)
      BY <1>4 DEF Proper
    <3>2. /\ \A i \in DOMAIN wire[f] : Proper(wire[f][i], Peer(f), here \cup gone, gone)
          /\ \A i \in DOMAIN dump[f] : Proper(dump[f][i], At[f], here \cup gone, gone)
      BY DEF Delivery, Tracked, OwnLines
    <3> QED BY <1>0, <1>1, <1>3, <3>1, <3>2
  <2> QED BY <1>0, <2>1 DEF OwnLines, Proper, Peer, About
<1>6. Orderly'
  <2>1. \A f \in links' : Registered(f)'
    BY <1>0, <1>1, <1>2 DEF Delivery, Tracked, Orderly, Registered, TypeOK
  <2> QED BY <1>0, <2>1 DEF Delivery, Tracked, Orderly
<1>7. ASSUME NEW p \in told'
      PROVE  SteadyAt(p[1], p[2])' /\ (p[1] \in here' => Follows(p[1], At[p[2]], Peer(p[2]))')
  <2> SUFFICES ASSUME NEW u, NEW d, NEW s, NEW t,
                      u = p[1], d = p[2], s = At[p[2]], t = Peer(p[2])
               PROVE  SteadyAt(u, d)' /\ (u \in here' => Follows(u, s, t)')
    BY DEF Follows, SteadyAt, Inbound, Peer
  <2>1. u \in Users /\ d \in Ends /\ SteadyAt(u, d) /\ (u \in here => Follows(u, s, t))
    BY <1>0, <1>7, ToldPair
  <2>2. \A g \in Inbound(t, s) :
          Registered(g)' => Registered(g) /\ sess'[g] = sess[g] /\ (Carries(g) => Carries(g)')
    <3> SUFFICES ASSUME NEW g \in Inbound(t, s), Registered(g)'
                 PROVE  Registered(g) /\ sess'[g] = sess[g] /\ (Carries(g) => Carries(g)')
      OBVIOUS
    <3>1. g \in Ends /\ Other[g] \in Ends /\ Other[Other[g]] = g
      BY InboundEnds
    <3>2. g \notin New
      BY <1>1, <3>1 DEF Registered
    <3>3. Other[g] \notin New
      BY <1>2, <3>1, <3>2
    <3> QED BY <1>0, <1>1, <3>1, <3>2, <3>3 DEF Registered, Carries
  <2>3. SteadyAt(u, d)'
    <3>1. u \in here' \cup gone' /\ d \in links' /\ s = At[d] /\ t = Peer(d)
      BY <1>0, <2>1 DEF SteadyAt
    <3> QED BY <1>0, <2>1, <2>2, <3>1, SteadySame DEF SteadyAt
  <2>4. ASSUME u \in here' PROVE Follows(u, s, t)'
    <3>0. Follows(u, s, t) /\ joined[u] \subseteq Chans
      BY <1>0, <2>1, <2>4 DEF TypeOK
    <3>1. Silent(<<SERVER>>, u) /\ NamesFirst(<<SERVER>>, u) /\ Rejoins(<<SERVER>>, u, joined[u])
      <4>1. Silent(<<SERVER>>, u)
        BY <1>3, <1>4, <2>1 DEF Silent
      <4> QED BY <4>1, SaysAbout DEF Silent, NamesFirst, Rejoins
    <3>2. ASSUME NEW f \in Inbound(s, t)
          PROVE  /\ Other[f] \notin links' => Silent(wire'[f], u)
                 /\ Other[f] \in links' => u \in known'[t] \/ Names(wire'[f], u)
                 /\ u \in known'[t] \/ NamesFirst(wire'[f], u)
                 /\ Rejoins(wire'[f], u, joined'[u])
                 /\ \A ch : Brings(wire[f], u, ch) => Brings(wire'[f], u, ch)
      <4>1. f \in Ends /\ Other[f] \in Ends
        BY InboundEnds
      <4>2. CASE f \in New
        <5>1. Other[f] \notin links /\ wire'[f] = <<SERVER>>
          BY <1>1, <1>2, <4>1, <4>2
        <5>2. Silent(wire[f], u)
          BY <3>0, <5>1 DEF Follows
        <5>3. \A ch : ~Brings(wire[f], u, ch)
          BY <5>2, SaysAbout DEF Silent, Brings
        <5> QED BY <1>0, <3>1, <5>1, <5>3
      <4>3. CASE f \notin New
        <5>1. wire'[f] = wire[f]
          BY <1>1, <4>1, <4>3
        <5> QED BY <1>0, <3>0, <5>1 DEF Follows
      <4> QED BY <4>2, <4>3
    <3>3. \A ch \in joined'[u] :
            ch \in on'[t][u] \/ \E f \in Inbound(s, t) : Brings(wire'[f], u, ch)
      BY <1>0, <3>0, <3>2 DEF Follows
    <3> QED BY <3>2, <3>3, FollowsNext
  <2> QED BY <2>3, <2>4
<1> QED BY <1>5, <1>6, <1>7, Parts DEF Tracked

\* The lines that are proper coming from s.
ProperLines(s) == { m \in Lines : Proper(m, s, here \cup gone, gone) }

\* Everything on its way is made of them.
LEMMA OwnSeqs ==
  ASSUME Delivery, NEW e \in Ends
  PROVE  wire[e] \in Seq(ProperLines(Peer(e))) /\ dump[e] \in Seq(ProperLines(At[e]))
<1>1. wire[e] \in Seq(Lines) /\ dump[e] \in Seq(Lines)
  BY DEF Delivery, Inv, TypeOK
<1>2. \A w \in Seq(Lines) : Len(w) \in Nat /\ w \in [1..Len(w) -> Lines] /\ DOMAIN w = 1..Len(w)
  BY LenProperties
<1>3. /\ \A i \in DOMAIN wire[e] : wire[e][i] \in ProperLines(Peer(e))
      /\ \A i \in DOMAIN dump[e] : dump[e][i] \in ProperLines(At[e])
  BY <1>1, <1>2 DEF Delivery, Tracked, OwnLines, ProperLines
<1>4. ASSUME NEW w \in Seq(Lines), NEW S, \A i \in DOMAIN w : w[i] \in S PROVE w \in Seq(S)
  <2>1. w \in [1..Len(w) -> S] /\ Len(w) \in Nat
    BY <1>2, <1>4
  <2> QED BY <2>1, SeqDef
<1> QED BY <1>1, <1>3, <1>4

\* The burst is about the users of its server that are there.
LEMMA BurstProper ==
  ASSUME Delivery, NEW e \in Ends
  PROVE  burst_users(At[e]) \cup burst_channels(At[e]) \subseteq ProperLines(At[e])
<1> DEFINE s == At[e]
<1>1. burst_users(s) \subseteq Lines /\ burst_channels(s) \subseteq Lines
  BY BurstLines DEF Delivery, LinesTo
<1>2. ASSUME NEW m \in burst_users(s) PROVE Proper(m, s, here \cup gone, gone)
  BY <1>2 DEF burst_users, Proper, About, UserLine
<1>3. ASSUME NEW m \in burst_channels(s) PROVE Proper(m, s, here \cup gone, gone)
  BY <1>3 DEF burst_channels, burst_members, Proper, About, FJOIN
<1> QED BY <1>1, <1>2, <1>3 DEF ProperLines

\* An end that has not sent its burst yet is not between the servers of a told
\* user and of its peer, so nothing changes there.
LEMMA BurstSame ==
  ASSUME Delivery, NEW e \in Ends, sess[e] \in {"publish", "dump"},
         sess'[e] \in {"dump", "linked"}, \A f \in Ends \ {e} : sess'[f] = sess[f],
         \A f \in Ends \ {Other[e]} : wire'[f] = wire[f],
         here' = here, gone' = gone, joined' = joined, known' = known, on' = on,
         links' = links, cut' = cut, NEW p \in told
  PROVE  SteadyAt(p[1], p[2])' /\ (p[1] \in here' => Follows(p[1], At[p[2]], Peer(p[2]))')
<1> SUFFICES ASSUME NEW u, NEW d, NEW s, NEW t,
                    u = p[1], d = p[2], s = At[p[2]], t = Peer(p[2])
             PROVE  SteadyAt(u, d)' /\ (u \in here' => Follows(u, s, t)')
  BY DEF Follows, SteadyAt, Inbound, Peer
<1>1. /\ d \in Ends /\ SteadyAt(u, d) /\ (u \in here => Follows(u, s, t))
      /\ s = At[d] /\ t = Peer(d)
  BY ToldPair
<1>2. e \notin Inbound(t, s)
  BY <1>1 DEF SteadyAt, Registered
<1>3. \A g \in Inbound(t, s) :
        Registered(g)' => Registered(g) /\ sess'[g] = sess[g] /\ (Carries(g) => Carries(g)')
  <2> SUFFICES ASSUME NEW g \in Inbound(t, s)
               PROVE  /\ Registered(g)' => Registered(g)
                      /\ sess'[g] = sess[g] /\ (Carries(g) => Carries(g)')
    OBVIOUS
  <2>1. g \in Ends /\ Other[g] \in Ends /\ g # e
    BY <1>2, InboundEnds
  <2>2. sess'[g] = sess[g] /\ (sess[Other[g]] # "closed" => sess'[Other[g]] # "closed")
    BY <2>1
  <2> QED BY <2>2 DEF Registered, Carries
<1>4. SteadyAt(u, d)'
  <2>1. u \in here' \cup gone' /\ d \in links'
    BY <1>1 DEF SteadyAt
  <2> QED BY <1>1, <1>3, <2>1, SteadySame DEF SteadyAt
<1>5. ASSUME u \in here' PROVE Follows(u, s, t)'
  <2>1. \A f \in Inbound(s, t) : f \in Ends /\ f # Other[e]
    BY <1>2, InboundEnds, OtherEnds
  <2> QED BY <1>1, <1>5, <2>1, FollowsSame
<1> QED BY <1>4, <1>5

\* The burst is rendered.
LEMMA SnapshotTracked == ASSUME Delivery, NEW e \in Ends, Snapshot(e) PROVE Tracked'
<1>0. /\ TypeOK /\ Inv /\ here' = here /\ gone' = gone /\ joined' = joined /\ known' = known
      /\ on' = on /\ links' = links /\ told' = told /\ cut' = cut /\ wire' = wire
      /\ sess[e] = "publish" /\ sess' = [sess EXCEPT ![e] = "dump"]
  BY DEF Snapshot, Delivery, Inv, local, net
<1>1. PICK us \in Orderings(burst_users(At[e])), cs \in Orderings(burst_channels(At[e])) :
        dump' = [dump EXCEPT ![e] = us \o cs]
  BY DEF Snapshot
<1>2. us \in Seq(ProperLines(At[e])) /\ cs \in Seq(ProperLines(At[e]))
  BY <1>0, BurstLines, BurstProper, OrderingSeq
<1>3. us \o cs \in Seq(ProperLines(At[e]))
  BY <1>2, ConcatProperties
<1>4. \A f \in Ends : sess'[f] = IF f = e THEN "dump" ELSE sess[f]
  BY <1>0 DEF TypeOK
<1>5. OwnLines'
  <2>1. ASSUME NEW f \in Ends
        PROVE  /\ \A i \in DOMAIN wire'[f] : Proper(wire'[f][i], Peer(f), here \cup gone, gone)
               /\ \A i \in DOMAIN dump'[f] : Proper(dump'[f][i], At[f], here \cup gone, gone)
    <3>1. wire'[f] \in Seq(ProperLines(Peer(f))) /\ dump'[f] \in Seq(ProperLines(At[f]))
      BY <1>0, <1>1, <1>3, OwnSeqs DEF TypeOK
    <3>2. /\ \A i \in DOMAIN wire'[f] : wire'[f][i] \in ProperLines(Peer(f))
          /\ \A i \in DOMAIN dump'[f] : dump'[f][i] \in ProperLines(At[f])
      BY <3>1, ElementOfSeq, LenProperties
    <3> QED BY <3>2 DEF ProperLines
  <2> QED BY <1>0, <2>1 DEF OwnLines, Proper, Peer, About
<1>6. Orderly'
  <2>1. \A f \in links' : Registered(f)'
    BY <1>0, <1>4 DEF Delivery, Tracked, Orderly, Registered, TypeOK
  <2> QED BY <1>0, <2>1 DEF Delivery, Tracked, Orderly
<1>7. ASSUME NEW p \in told'
      PROVE  SteadyAt(p[1], p[2])' /\ (p[1] \in here' => Follows(p[1], At[p[2]], Peer(p[2]))')
  BY <1>0, <1>4, BurstSame
<1> QED BY <1>5, <1>6, <1>7, Parts DEF Tracked

\* The burst goes into the queue.
LEMMA FlushTracked == ASSUME Delivery, NEW e \in Ends, Flush(e) PROVE Tracked'
<1> DEFINE o == Other[e]
<1>0. /\ TypeOK /\ here' = here /\ gone' = gone /\ joined' = joined /\ known' = known
      /\ on' = on /\ links' = links /\ told' = told /\ cut' = cut
      /\ sess[e] = "dump" /\ o \in Ends /\ Peer(o) = At[e]
  BY OtherEnds DEF Flush, Delivery, Inv, local, net
<1>1. /\ \A f \in Ends : /\ sess'[f] = IF f = e THEN "linked" ELSE sess[f]
                         /\ dump'[f] = IF f = e THEN <<>> ELSE dump[f]
      /\ \A f \in Ends \ {o} : wire'[f] = wire[f]
      /\ wire'[o] = IF Carries(e) THEN Fitting(wire[o] \o dump[e]) ELSE wire[o]
  BY <1>0 DEF Flush, TypeOK
<1>2. wire'[o] \in Seq(ProperLines(Peer(o)))
  <2>1. wire[o] \in Seq(ProperLines(At[e])) /\ dump[e] \in Seq(ProperLines(At[e]))
    BY <1>0, OwnSeqs
  <2>2. Fitting(wire[o] \o dump[e]) \in Seq(ProperLines(At[e]))
    BY <2>1, FittingFirst
  <2> QED BY <1>0, <1>1, <2>1, <2>2
<1>5. OwnLines'
  <2>1. ASSUME NEW f \in Ends
        PROVE  /\ \A i \in DOMAIN wire'[f] : Proper(wire'[f][i], Peer(f), here \cup gone, gone)
               /\ \A i \in DOMAIN dump'[f] : Proper(dump'[f][i], At[f], here \cup gone, gone)
    <3>1. wire'[f] \in Seq(ProperLines(Peer(f))) /\ dump'[f] \in Seq(ProperLines(At[f]))
      BY <1>1, <1>2, OwnSeqs, EmptySeq
    <3>2. /\ \A i \in DOMAIN wire'[f] : wire'[f][i] \in ProperLines(Peer(f))
          /\ \A i \in DOMAIN dump'[f] : dump'[f][i] \in ProperLines(At[f])
      BY <3>1, ElementOfSeq, LenProperties
    <3> QED BY <3>2 DEF ProperLines
  <2> QED BY <1>0, <2>1 DEF OwnLines, Proper, Peer, About
<1>6. Orderly'
  <2>1. \A f \in links' : Registered(f)'
    BY <1>0, <1>1 DEF Delivery, Tracked, Orderly, Registered, TypeOK
  <2> QED BY <1>0, <2>1 DEF Delivery, Tracked, Orderly
<1>7. ASSUME NEW p \in told'
      PROVE  SteadyAt(p[1], p[2])' /\ (p[1] \in here' => Follows(p[1], At[p[2]], Peer(p[2]))')
  BY <1>0, <1>1, BurstSame
<1> QED BY <1>5, <1>6, <1>7, Parts DEF Tracked

-----------------------------------------------------------------------------
(* All steps                                                               *)

\* Every step keeps the invariant.
LEMMA DeliveryStep == ASSUME Delivery, [Next]_vars PROVE Delivery'
<1>1. Inv'
  BY InvStep DEF Delivery
<1>2. CASE UNCHANGED vars
  <2>1. UNCHANGED <<here, gone, joined, known, on, links, sess, dump, wire, cut, told>>
    BY <1>2 DEF vars, local, net
  <2>2. OwnLines'
    BY <2>1, LinesLess
  <2>3. Orderly'
    BY <2>1 DEF Delivery, Tracked, Orderly, Registered
  <2>4. ASSUME NEW p \in told'
        PROVE  SteadyAt(p[1], p[2])' /\ (p[1] \in here' => Follows(p[1], At[p[2]], Peer(p[2]))')
    BY <2>1, CommandSteady, QuietOther DEF Quiet, net
  <2> QED BY <1>1, <2>2, <2>3, <2>4, Parts DEF Delivery, Tracked
<1>3. CASE Next
  <2>1. Tracked'
    BY <1>3, CommandTracked, DialTracked, ServerTracked, SnapshotTracked, FlushTracked,
       EventTracked, TeardownTracked, CutTracked, RestartTracked DEF Next, run_session
  <2> QED BY <1>1, <2>1 DEF Delivery
<1> QED BY <1>2, <1>3

\* It holds at the start: nothing is on its way and nobody is told of.
LEMMA DeliveryInit == Init => Delivery
<1> SUFFICES ASSUME Init PROVE Delivery
  OBVIOUS
<1>1. OwnLines
  BY EmptyDomain DEF Init, OwnLines
<1>2. Orderly /\ Steady /\ Followed
  BY DEF Init, Orderly, Steady, Followed
<1> QED BY <1>1, <1>2, InvInit DEF Delivery, Tracked

\* When nothing more is on its way, what is known is all there is.
LEMMA DeliveryJoins == Delivery => JoinsSeen
<1> SUFFICES ASSUME Delivery, NEW p \in told,
                    p[1] \in here, Drained(Home[p[1]], Peer(p[2]))
             PROVE  /\ p[1] \in known[Peer(p[2])]
                    /\ joined[p[1]] \subseteq on[Peer(p[2])][p[1]]
  BY DEF JoinsSeen
<1> DEFINE u == p[1]
           s == At[p[2]]
           t == Peer(p[2])
<1>1. /\ p[2] \in Ends /\ Home[u] = s /\ p[2] \in links /\ Follows(u, s, t)
  BY ToldPair DEF SteadyAt
<1>2. \A f \in Inbound(s, t) : wire[f] = <<>>
  BY <1>1 DEF Drained, Inbound
<1>3. Other[p[2]] \in Inbound(s, t) /\ Other[Other[p[2]]] = p[2]
  BY <1>1, OtherEnds DEF Inbound
<1>4. ~Names(<<>>, u) /\ \A ch : ~Brings(<<>>, u, ch)
  BY EmptyDomain DEF Names, Brings
<1>5. u \in known[t]
  BY <1>1, <1>2, <1>3, <1>4 DEF Follows
<1>6. joined[u] \subseteq on[t][u]
  BY <1>1, <1>2, <1>4 DEF Follows
<1> QED BY <1>5, <1>6

\* The invariant always holds: at every moment, what a peer knows of a told user
\* and what is on its way come to the channels that the user is in.
THEOREM LinesFollowed == Spec => []Delivery
<1>1. Delivery /\ [Next]_vars => Delivery'
  BY DeliveryStep
<1> QED BY <1>1, DeliveryInit, PTL DEF Spec

\* relay_join_to_links, introduce and the burst: a user that registers behind the
\* burst, and of whose lines the links lose none, is known to the peer with all
\* their channels once it has read what was sent, over however many connections.
THEOREM JoinsReach == Spec => []JoinsSeen
BY LinesFollowed, DeliveryJoins, PTL

=============================================================================
