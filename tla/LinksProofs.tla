---------------------------- MODULE LinksProofs ----------------------------
(***************************************************************************)
(* What holds of Links for any servers, users, connections and queue: a    *)
(* server knows a remote user only while it has a session with the user's  *)
(* server, and of two channels the older wins: the peer that was shown a   *)
(* time has one as old once the lines have arrived.                        *)
(***************************************************************************)
EXTENDS Links, FiniteSetTheorems, SequenceTheorems, TLAPS

(* Lines and wires                                                         *)

\* The lines that may be on their way to e: an UID of a user of the peer's.
LinesTo(e) == { m \in Lines : m.kind = "UID" => Home[m.user] = Peer(e) }

\* The session at e has not read the peer's SERVER yet, and will read it
\* before anything else, unless the connection is dead.
ServerFirst ==
  \A e \in Ends : sess[e] = "capab" =>
    IF wire[e] = <<>> THEN e \in cut ELSE Head(wire[e]) = SERVER

CutBoth == \A e \in cut : Other[e] \in cut

WireInv ==
  /\ \A e \in Ends : wire[e] \in Seq(LinesTo(e)) /\ Len(wire[e]) <= Queue
  /\ \A e \in Ends : dump[e] \in Seq(LinesTo(Other[e]))
  /\ ServerFirst /\ CutBoth

\* The other end of an end.
LEMMA OtherEnds ==
  ASSUME NEW e \in Ends
  PROVE  /\ Other[e] \in Ends /\ Other[e] # e /\ Other[Other[e]] = e
         /\ At[e] \in Servers /\ Peer(e) \in Servers
         /\ Peer(Other[e]) = At[e] /\ At[Other[e]] = Peer(e) /\ Peer(e) # At[e]
BY EndsAssumption DEF Peer

\* The lines that are sent are lines.
LEMMA LineTypes ==
  /\ SERVER \in Lines /\ SERVER.kind = "SERVER"
  /\ \A u \in Users : /\ UserLine("UID", u) \in Lines /\ UserLine("UID", u).user = u
                      /\ UserLine("QUIT", u) \in Lines /\ UserLine("QUIT", u).kind = "QUIT"
                      /\ UserLine("MESSAGE", u) \in Lines
                      /\ UserLine("MESSAGE", u).kind = "MESSAGE"
  /\ \A u \in Users, ch \in Chans :
       /\ ChanLine("IJOIN", u, ch) \in Lines /\ ChanLine("IJOIN", u, ch).kind = "IJOIN"
       /\ ChanLine("PART", u, ch) \in Lines /\ ChanLine("PART", u, ch).kind = "PART"
  /\ \A ch \in Chans, t \in Nat, M \in SUBSET Users :
       FJOIN(ch, t, M) \in Lines /\ FJOIN(ch, t, M).kind = "FJOIN"
BY DEF SERVER, UserLine, ChanLine, FJOIN, Lines

\* What a line of each kind holds.
LEMMA LineFields ==
  ASSUME NEW m \in Lines
  PROVE  /\ m.kind \in {"UID", "QUIT"} => m.user \in Users
         /\ m.kind \in {"IJOIN", "PART"} => m.user \in Users /\ m.chan \in Chans
         /\ m.kind = "FJOIN" => m.chan \in Chans /\ m.ts \in Nat /\ m.users \in SUBSET Users
BY DEF Lines

\* Lines to an end are lines.
LEMMA WireLines ==
  ASSUME NEW e, NEW w \in Seq(LinesTo(e)) PROVE w \in Seq(Lines)
<1>1. LinesTo(e) \subseteq Lines
  BY DEF LinesTo
<1> QED BY <1>1, SeqMonotonic

\* An empty wire is one.
LEMMA EmptyWire ==
  ASSUME NEW e PROVE <<>> \in Seq(LinesTo(e)) /\ Len(<<>>) <= Queue
<1>1. Len(<<>>) = 0
  OBVIOUS
<1>2. Len(<<>>) <= Queue
  BY <1>1, QueueAssumption
<1> QED BY <1>2, EmptySeq

\* Appending does not change what comes first.
LEMMA AppendFirst ==
  ASSUME NEW S, NEW w \in Seq(S), NEW m \in S
  PROVE  /\ Append(w, m) \in Seq(S) /\ Len(Append(w, m)) = Len(w) + 1
         /\ Append(w, m) # <<>>
         /\ w # <<>> => Head(Append(w, m)) = Head(w)
BY AppendProperties, HeadTailAppend

\* What fits into the queue of what was there and what is added.
LEMMA FittingFirst ==
  ASSUME NEW S, NEW w \in Seq(S), NEW v \in Seq(S)
  PROVE  /\ Fitting(w \o v) \in Seq(S) /\ Len(Fitting(w \o v)) <= Queue
         /\ w # <<>> => Fitting(w \o v) # <<>> /\ Head(Fitting(w \o v)) = Head(w)
<1> DEFINE x == w \o v
<1>1. /\ x \in Seq(S) /\ Len(x) = Len(w) + Len(v) /\ Len(x) \in Nat
      /\ Len(w) \in Nat /\ Len(v) \in Nat
  BY ConcatProperties, LenProperties
<1>2. w # <<>> => Len(w) > 0 /\ x[1] = w[1]
  BY EmptySeq, ConcatProperties
<1> HIDE DEF x
<1>3. CASE Len(x) <= Queue
  <2>1. Fitting(x) = x
    BY <1>3 DEF Fitting
  <2>2. w # <<>> => x # <<>>
    BY <1>1, <1>2
  <2> QED BY <1>1, <1>2, <1>3, <2>1, <2>2 DEF x
<1>4. CASE ~(Len(x) <= Queue)
  <2>1. Fitting(x) = SubSeq(x, 1, Queue)
    BY <1>4 DEF Fitting
  <2>2. \A i \in 1..Queue : x[i] \in S
    BY <1>1, <1>4, QueueAssumption, ElementOfSeq
  <2>3. /\ SubSeq(x, 1, Queue) \in Seq(S) /\ Len(SubSeq(x, 1, Queue)) = Queue
        /\ SubSeq(x, 1, Queue)[1] = x[1]
    BY <2>2, QueueAssumption, SubSeqProperties
  <2> DEFINE y == SubSeq(x, 1, Queue)
  <2>4. Len(y) = Queue /\ Queue # 0
    BY <2>3, QueueAssumption
  <2>5. y \in Seq(S) /\ y # <<>> /\ Len(y) = Queue /\ y[1] = x[1]
    <3> HIDE DEF y
    <3>1. Len(<<>>) = 0
      OBVIOUS
    <3>2. y # <<>>
      BY <2>4, <3>1
    <3> QED BY <2>3, <3>2 DEF y
  <2> HIDE DEF y
  <2>6. w # <<>> => Head(y) = Head(w)
    BY <1>2, <2>5
  <2>7. Fitting(w \o v) = y
    BY <2>1 DEF x, y
  <2> QED BY <2>5, <2>6, <2>7, QueueAssumption
<1> QED BY <1>3, <1>4

\* What was in the queue already stays where it is.
LEMMA FittingGrows ==
  ASSUME NEW S, NEW w \in Seq(S), NEW v \in Seq(S), Len(w) <= Queue
  PROVE  \A i \in DOMAIN w : i \in DOMAIN Fitting(w \o v) /\ Fitting(w \o v)[i] = w[i]
<1> DEFINE x == w \o v
<1>1. /\ x \in Seq(S) /\ Len(x) = Len(w) + Len(v) /\ Len(x) \in Nat
      /\ Len(w) \in Nat /\ Len(v) \in Nat /\ DOMAIN w = 1..Len(w) /\ DOMAIN x = 1..Len(x)
      /\ \A i \in 1..Len(w) : x[i] = w[i]
  BY ConcatProperties, LenProperties
<1> HIDE DEF x
<1>2. CASE Len(x) <= Queue
  <2>1. Fitting(x) = x
    BY <1>2 DEF Fitting
  <2> QED BY <1>1, <2>1 DEF x
<1>3. CASE ~(Len(x) <= Queue)
  <2>1. Fitting(x) = SubSeq(x, 1, Queue)
    BY <1>3 DEF Fitting
  <2>2. \A i \in 1..Queue : x[i] \in S
    BY <1>1, <1>3, QueueAssumption, ElementOfSeq
  <2> DEFINE y == SubSeq(x, 1, Queue)
  <2>3. y \in Seq(S) /\ Len(y) = Queue /\ \A i \in 1..Queue : y[i] = x[i]
    BY <2>2, QueueAssumption, SubSeqProperties
  <2> HIDE DEF y
  <2>4. DOMAIN y = 1..Queue
    BY <2>3, LenProperties
  <2>5. \A i \in DOMAIN w : i \in DOMAIN y /\ y[i] = w[i]
    BY <1>1, <2>3, <2>4, QueueAssumption
  <2>6. Fitting(w \o v) = y
    BY <2>1 DEF x, y
  <2> QED BY <2>5, <2>6
<1> QED BY <1>2, <1>3

\* What is sent is sent to a wire that keeps its order and its bound.
LEMMA SentLine ==
  ASSUME WireInv, NEW e \in Ends, NEW m \in LinesTo(Other[e])
  PROVE  LET w == Sent(e, m) IN
         /\ w \in Seq(LinesTo(Other[e])) /\ Len(w) <= Queue
         /\ wire[Other[e]] # <<>> => w # <<>> /\ Head(w) = Head(wire[Other[e]])
         /\ e \in cut => w = wire[Other[e]]
<1>1. wire[Other[e]] \in Seq(LinesTo(Other[e])) /\ Len(wire[Other[e]]) <= Queue
  BY OtherEnds DEF WireInv
<1>2. Len(wire[Other[e]]) \in Nat
  BY <1>1, LenProperties
<1>3. CASE Carries(e) /\ ~Full(e)
  <2>1. Sent(e, m) = Append(wire[Other[e]], m) /\ e \notin cut
    BY <1>3 DEF Sent, Carries
  <2>2. Len(wire[Other[e]]) + 1 <= Queue
    BY <1>2, <1>3, QueueAssumption DEF Full
  <2> QED BY <1>1, <2>1, <2>2, AppendFirst
<1>4. CASE ~(Carries(e) /\ ~Full(e))
  <2>1. Sent(e, m) = wire[Other[e]]
    BY <1>4 DEF Sent
  <2> QED BY <1>1, <2>1
<1> QED BY <1>3, <1>4

-----------------------------------------------------------------------------
(* The invariant, and the steps of local commands                          *)

Inv == TypeOK /\ WireInv /\ NoOrphans

\* A line into every link of s keeps the wires in order.
LEMMA LinksKeep ==
  ASSUME Inv, NEW s \in Servers, NEW m \in Lines, m.kind = "UID" => Home[m.user] = s,
         wire' = [e \in Ends |-> IF Other[e] \in Handles(s) THEN Sent(Other[e], m)
                                                           ELSE wire[e]],
         UNCHANGED <<sess, dump, cut>>
  PROVE  wire' \in [Ends -> Seq(Lines)] /\ WireInv'
<1>0. WireInv /\ DOMAIN wire' = Ends
  BY DEF Inv
<1>1. ASSUME NEW e \in Ends
      PROVE  /\ wire'[e] \in Seq(LinesTo(e)) /\ Len(wire'[e]) <= Queue
             /\ wire[e] # <<>> => wire'[e] # <<>> /\ Head(wire'[e]) = Head(wire[e])
             /\ e \in cut => wire'[e] = wire[e]
  <2>1. CASE Other[e] \in Handles(s)
    <3>1. Other[e] \in Ends /\ Other[Other[e]] = e /\ At[Other[e]] = Peer(e)
      BY OtherEnds
    <3>2. m \in LinesTo(Other[Other[e]])
      BY <2>1, <3>1 DEF LinesTo, Handles
    <3>3. wire'[e] = Sent(Other[e], m)
      BY <2>1
    <3>4. e \in cut => Other[e] \in cut
      BY <1>0 DEF WireInv, CutBoth
    <3> HIDE DEF Inv
    <3> QED BY <1>0, <3>1, <3>2, <3>3, <3>4, SentLine
  <2>2. CASE Other[e] \notin Handles(s)
    BY <1>0, <2>2 DEF WireInv
  <2> QED BY <2>1, <2>2
<1>2. wire' \in [Ends -> Seq(Lines)]
  <2>1. \A e \in Ends : wire'[e] \in Seq(Lines)
    BY <1>1, WireLines
  <2> QED BY <2>1
<1>3. ServerFirst'
  BY <1>0, <1>1 DEF WireInv, ServerFirst
<1>4. CutBoth'
  BY <1>0 DEF WireInv, CutBoth
<1> QED BY <1>0, <1>1, <1>2, <1>3, <1>4 DEF WireInv, LinesTo, Peer

\* So does telling no link anything.
LEMMA QuietKeeps ==
  ASSUME Inv, UNCHANGED <<wire, sess, dump, cut>>
  PROVE  wire' \in [Ends -> Seq(Lines)] /\ WireInv'
BY DEF Inv, TypeOK, WireInv, ServerFirst, CutBoth, LinesTo, Peer

\* Both, with what is told.
LEMMA ToLinksKeeps ==
  ASSUME Inv, NEW s \in Servers, NEW m \in Lines, m.kind = "UID" => Home[m.user] = s,
         to_links(s, m) \/ Quiet, UNCHANGED <<sess, dump, cut>>
  PROVE  wire' \in [Ends -> Seq(Lines)] /\ WireInv' /\ told' \in SUBSET (Users \X Ends)
<1>1. CASE to_links(s, m)
  <2>1. told' \in SUBSET (Users \X Ends)
    BY <1>1 DEF to_links, StillTold, Inv, TypeOK
  <2> QED BY <1>1, <2>1, LinksKeep DEF to_links
<1>2. CASE Quiet
  <2>1. told' \in SUBSET (Users \X Ends)
    BY <1>2 DEF Quiet, Inv, TypeOK
  <2> QED BY <1>2, <2>1, QuietKeeps DEF Quiet
<1> QED BY <1>1, <1>2

\* Dropping empty channels leaves times.
LEMMA SweptTimes ==
  ASSUME TypeOK, NEW s \in Servers, NEW J,
         ts' = [ts EXCEPT ![s] = drop_empty_channels(s, J)]
  PROVE  /\ ts' \in [Servers -> [Chans -> Nat]]
         /\ \A r \in Servers, ch \in Chans : ts'[r][ch] \in {ts[r][ch], 0}
<1>1. drop_empty_channels(s, J) \in [Chans -> Nat]
  BY DEF drop_empty_channels, TypeOK
<1>2. \A ch \in Chans : drop_empty_channels(s, J)[ch] \in {ts[s][ch], 0}
  BY DEF drop_empty_channels
<1> QED BY <1>1, <1>2 DEF TypeOK

\* What a command of a local user does not do: touch a session, or what is
\* known of remote users.  Times of channels that live do not change.
CommandKeeps ==
  /\ TypeOK' /\ WireInv' /\ UNCHANGED <<known, sess>>
  /\ \A r \in Servers, ch \in Chans : ts[r][ch] # 0 => ts'[r][ch] \in {ts[r][ch], 0}

\* Registering.
LEMMA RegisterStep ==
  ASSUME Inv, NEW u \in Users, Register(u) PROVE CommandKeeps
<1> DEFINE s == Home[u]
<1>0. TypeOK /\ s \in Servers
  BY HomeAssumption DEF Inv
<1>1. /\ UserLine("UID", u) \in Lines
      /\ UserLine("UID", u).kind = "UID" => Home[UserLine("UID", u).user] = s
  BY LineTypes
<1>2. CASE Handles(s) = {}
  <2>1. Quiet /\ UNCHANGED <<uuid, sess, dump, cut>>
    BY <1>2 DEF Register
  <2>2. wire' \in [Ends -> Seq(Lines)] /\ WireInv'
    BY <2>1, QuietKeeps DEF Quiet
  <2> QED BY <1>0, <2>1, <2>2 DEF Register, Quiet, CommandKeeps, TypeOK, WireInv, net
<1>3. CASE Handles(s) # {}
  <2>1. wire' = [e \in Ends |-> IF Other[e] \in Handles(s)
                                  THEN Sent(Other[e], UserLine("UID", u)) ELSE wire[e]]
    BY <1>3 DEF Register
  <2>2. UNCHANGED <<sess, dump, cut>>
    BY DEF Register
  <2> HIDE DEF s
  <2>3. wire' \in [Ends -> Seq(Lines)] /\ WireInv'
    BY <1>0, <1>1, <2>1, <2>2, LinksKeep
  <2>4. Settled(s) \subseteq Ends
    BY <1>0 DEF Settled, Handles, TypeOK
  <2>5. told' \in SUBSET (Users \X Ends) /\ uuid' \in SUBSET Users
    BY <1>0, <1>3, <2>4 DEF Register, StillTold, TypeOK, s
  <2> QED BY <1>0, <2>2, <2>3, <2>5 DEF Register, CommandKeeps, TypeOK, WireInv, net
<1> QED BY <1>2, <1>3

\* Leaving the server.
LEMMA LeaveStep ==
  ASSUME Inv, NEW u \in Users, Quit(u) \/ Vanish(u) PROVE CommandKeeps
<1>0. TypeOK /\ Home[u] \in Servers /\ Leave(u)
  BY HomeAssumption DEF Inv, Quit, Vanish
<1>1. UserLine("QUIT", u) \in Lines /\ UserLine("QUIT", u).kind = "QUIT"
  BY LineTypes
<1>2. to_links(Home[u], UserLine("QUIT", u)) \/ Quiet
  BY DEF Quit, Vanish
<1>3. UNCHANGED <<sess, dump, cut>>
  BY <1>0 DEF Leave
<1>4. wire' \in [Ends -> Seq(Lines)] /\ WireInv' /\ told' \in SUBSET (Users \X Ends)
  BY <1>0, <1>1, <1>2, <1>3, ToLinksKeeps
<1>5. /\ ts' \in [Servers -> [Chans -> Nat]]
      /\ \A r \in Servers, ch \in Chans : ts'[r][ch] \in {ts[r][ch], 0}
  BY <1>0, SweptTimes DEF Leave
<1>6. joined' \in [Users -> SUBSET Chans]
  BY <1>0 DEF Leave, TypeOK
<1>7. shown' \in SUBSET (Ends \X Chans)
  BY <1>0 DEF Leave, StillShown, TypeOK
<1> QED BY <1>0, <1>3, <1>4, <1>5, <1>6, <1>7 DEF Leave, CommandKeeps, TypeOK, WireInv, net

\* Speaking.
LEMMA SpeakStep == ASSUME Inv, NEW u \in Users, Speak(u) PROVE CommandKeeps
<1>0. TypeOK /\ Home[u] \in Servers
  BY HomeAssumption DEF Inv
<1>1. UserLine("MESSAGE", u) \in Lines /\ UserLine("MESSAGE", u).kind = "MESSAGE"
  BY LineTypes
<1>2. to_links(Home[u], UserLine("MESSAGE", u)) /\ UNCHANGED <<sess, dump, cut>>
  BY DEF Speak
<1>3. wire' \in [Ends -> Seq(Lines)] /\ WireInv' /\ told' \in SUBSET (Users \X Ends)
  BY <1>0, <1>1, <1>2, ToLinksKeeps
<1> QED BY <1>0, <1>2, <1>3 DEF Speak, CommandKeeps, TypeOK, WireInv, net

\* Leaving a channel.
LEMMA LeavesStep ==
  ASSUME Inv, NEW u \in Users, NEW ch \in Chans, Part(u, ch) \/ Kicked(u, ch)
  PROVE  CommandKeeps
<1>0. TypeOK /\ Home[u] \in Servers /\ Leaves(u, ch)
  BY HomeAssumption DEF Inv, Part, Kicked
<1>1. ChanLine("PART", u, ch) \in Lines /\ ChanLine("PART", u, ch).kind = "PART"
  BY LineTypes
<1>2. to_links(Home[u], ChanLine("PART", u, ch)) \/ Quiet
  BY DEF Part, Kicked
<1>3. UNCHANGED <<sess, dump, cut>>
  BY <1>0 DEF Leaves
<1>4. wire' \in [Ends -> Seq(Lines)] /\ WireInv' /\ told' \in SUBSET (Users \X Ends)
  BY <1>0, <1>1, <1>2, <1>3, ToLinksKeeps
<1>5. /\ ts' \in [Servers -> [Chans -> Nat]]
      /\ \A r \in Servers, c \in Chans : ts'[r][c] \in {ts[r][c], 0}
  BY <1>0, SweptTimes DEF Leaves
<1>6. joined' \in [Users -> SUBSET Chans]
  BY <1>0 DEF Leaves, TypeOK
<1>7. shown' \in SUBSET (Ends \X Chans)
  BY <1>0 DEF Leaves, StillShown, TypeOK
<1> QED BY <1>0, <1>3, <1>4, <1>5, <1>6, <1>7 DEF Leaves, CommandKeeps, TypeOK, WireInv, net

\* Joining one: the time of a channel that exists stays.
LEMMA JoinStep ==
  ASSUME Inv, NEW u \in Users, NEW ch \in Chans, NEW t \in Times[Home[u]], Join(u, ch, t)
  PROVE  CommandKeeps
<1> DEFINE s == Home[u]
<1>0. TypeOK /\ s \in Servers /\ t \in Nat
  BY HomeAssumption, TimesAssumption DEF Inv
<1>1. /\ ts' \in [Servers -> [Chans -> Nat]]
      /\ \A r \in Servers, c \in Chans : ts[r][c] # 0 => ts'[r][c] = ts[r][c]
  BY <1>0 DEF Join, TypeOK
<1>2. UNCHANGED <<sess, dump, cut>>
  BY DEF Join
<1>3. joined' \in [Users -> SUBSET Chans]
  BY <1>0 DEF Join, TypeOK
<1>4. uuid' \in SUBSET Users
  BY <1>0 DEF Join, Relayed, TypeOK
<1>5. {u} \in SUBSET Users /\ ts'[s][ch] \in Nat
  BY <1>0, <1>1
<1> DEFINE m == IF members_of(s, ch) # {} THEN ChanLine("IJOIN", u, ch)
                                           ELSE FJOIN(ch, ts'[s][ch], {u})
<1>6. m \in Lines /\ m.kind # "UID"
  BY <1>5, LineTypes
<1>7. to_links(s, m) \/ Quiet
  BY DEF Join, Relayed, Introduces
<1>9. shown' \in SUBSET (Ends \X Chans)
  <2>1. \/ shown' = shown
        \/ shown' = shown \cup { <<e, ch>> : e \in { f \in Handles(s) : Carries(f) /\ ~Full(f) } }
    BY DEF Join, Relayed, Introduces
  <2>2. Handles(s) \subseteq Ends
    BY <1>0 DEF Handles, TypeOK
  <2> QED BY <1>0, <2>1, <2>2 DEF TypeOK
<1> HIDE DEF m, s
<1>8. wire' \in [Ends -> Seq(Lines)] /\ WireInv' /\ told' \in SUBSET (Users \X Ends)
  BY <1>0, <1>2, <1>6, <1>7, ToLinksKeeps
<1> QED BY <1>0, <1>1, <1>2, <1>3, <1>4, <1>8, <1>9 DEF Join, CommandKeeps, TypeOK, WireInv, net

\* All commands.
LEMMA CommandStep == ASSUME Inv, NEW u \in Users, Command(u) PROVE CommandKeeps
BY RegisterStep, LeaveStep, SpeakStep, LeavesStep, JoinStep DEF Command

-----------------------------------------------------------------------------
(* The steps of sessions                                                   *)

\* While nothing new is known and no session ends, nobody is orphaned.
LEMMA OrphansKept ==
  ASSUME Inv, known' = known, \A e \in Ends : Registered(e) => Registered(e)'
  PROVE  NoOrphans'
BY DEF Inv, NoOrphans

TimesFall ==
  \A s \in Servers, ch \in Chans :
    ts[s][ch] # 0 /\ ts'[s][ch] # 0 => ts'[s][ch] <= ts[s][ch]

\* Times that do not change do not rise.
LEMMA TimesSame == ASSUME Inv, ts' = ts PROVE TimesFall
BY DEF Inv, TypeOK, TimesFall

\* Connecting puts a SERVER on both wires.
LEMMA DialStep == ASSUME Inv, NEW e \in Ends, Dial(e) PROVE Inv' /\ TimesFall
<1>0. /\ TypeOK /\ WireInv
      /\ sess[e] = "closed" /\ sess[Other[e]] = "closed" /\ Other[e] \in Ends /\ Other[e] # e
  BY OtherEnds DEF Inv, Dial
<1>1. \A f \in Ends : /\ sess'[f] = IF f \in {e, Other[e]} THEN "capab" ELSE sess[f]
                      /\ wire'[f] = IF f \in {e, Other[e]} THEN <<SERVER>> ELSE wire[f]
  BY <1>0 DEF Dial, TypeOK
<1>2. \A f \in Ends : f \in cut' <=> f \in cut /\ f \notin {e, Other[e]}
  BY DEF Dial
<1>s. \A f \in Ends : SERVER \in LinesTo(f)
  BY LineTypes DEF LinesTo
<1>3. ASSUME NEW f \in Ends
      PROVE  /\ wire'[f] \in Seq(LinesTo(f)) /\ Len(wire'[f]) <= Queue
             /\ sess'[f] = "capab" => IF wire'[f] = <<>> THEN f \in cut'
                                                         ELSE Head(wire'[f]) = SERVER
  <2>1. CASE f \in {e, Other[e]}
    <3>1. /\ <<SERVER>> \in Seq(LinesTo(f)) /\ Len(<<SERVER>>) = 1
          /\ <<SERVER>> # <<>> /\ Head(<<SERVER>>) = SERVER
      BY <1>s
    <3> QED BY <1>1, <2>1, <3>1, QueueAssumption
  <2>2. CASE f \notin {e, Other[e]}
    BY <1>0, <1>1, <1>2, <2>2 DEF WireInv, ServerFirst
  <2> QED BY <2>1, <2>2
<1>4. CutBoth'
  BY <1>0, <1>2, OtherEnds DEF WireInv, CutBoth, Dial, TypeOK
<1>5. wire' \in [Ends -> Seq(Lines)]
  <2>1. \A f \in Ends : wire'[f] \in Seq(Lines)
    BY <1>3, WireLines
  <2>2. wire' = [f \in Ends |-> wire'[f]]
    BY <1>0 DEF Dial, TypeOK
  <2> QED BY <2>1, <2>2
<1>6. WireInv'
  BY <1>0, <1>3, <1>4 DEF WireInv, ServerFirst, LinesTo, Peer, Dial
<1>7. sess' \in [Ends -> Phases]
  BY <1>0 DEF Dial, TypeOK, Phases
<1>8. NoOrphans'
  <2>1. \A f \in Ends : Registered(f) => Registered(f)'
    BY <1>0, <1>1 DEF Registered
  <2> QED BY <2>1, OrphansKept DEF Dial, net
<1>9. TypeOK'
  BY <1>0, <1>3, <1>5, <1>7 DEF Dial, TypeOK, local, net
<1> QED BY <1>6, <1>8, <1>9, TimesSame DEF Inv, Dial, local

\* Reading a line: the head of the wire, and what is left.
LEMMA ReadLine ==
  ASSUME Inv, NEW e \in Ends, NEW k, Reads(e, k), Consumed(e)
  PROVE  /\ Head(wire[e]) \in LinesTo(e) /\ Head(wire[e]) \in Lines
         /\ Head(wire[e]).kind = k
         /\ wire' \in [Ends -> Seq(Lines)]
         /\ \A f \in Ends : wire'[f] \in Seq(LinesTo(f)) /\ Len(wire'[f]) <= Queue
         /\ \A f \in Ends : f # e => wire'[f] = wire[f]
         /\ k # "SERVER" => Registered(e)
<1>0. TypeOK /\ WireInv /\ wire[e] # <<>>
  BY DEF Inv, Reads
<1>1. wire[e] \in Seq(LinesTo(e)) /\ Len(wire[e]) <= Queue
  BY <1>0 DEF WireInv
<1>2. /\ Head(wire[e]) \in LinesTo(e) /\ Tail(wire[e]) \in Seq(LinesTo(e))
      /\ Len(Tail(wire[e])) = Len(wire[e]) - 1 /\ Len(wire[e]) \in Nat
  BY <1>0, <1>1, HeadTailProperties, LenProperties
<1>3. Len(Tail(wire[e])) <= Queue
  BY <1>1, <1>2, QueueAssumption
<1>4. \A f \in Ends : wire'[f] = IF f = e THEN Tail(wire[e]) ELSE wire[f]
  BY <1>0 DEF Consumed, TypeOK
<1>5. \A f \in Ends : wire'[f] \in Seq(LinesTo(f)) /\ Len(wire'[f]) <= Queue
  BY <1>0, <1>2, <1>3, <1>4 DEF WireInv
<1>6. wire' \in [Ends -> Seq(Lines)]
  <2>1. \A f \in Ends : wire'[f] \in Seq(Lines)
    BY <1>5, WireLines
  <2>2. wire' = [f \in Ends |-> wire'[f]]
    BY <1>0 DEF Consumed, TypeOK
  <2> QED BY <2>1, <2>2
<1>7. k # "SERVER" => Registered(e)
  <2>1. sess[e] = "capab" => Head(wire[e]) = SERVER
    BY <1>0 DEF WireInv, ServerFirst
  <2>2. Head(wire[e]).kind = k /\ sess[e] \in {"capab", "linked"}
    BY DEF Reads, Reading
  <2> QED BY <2>1, <2>2, LineTypes DEF Registered
<1> QED BY <1>2, <1>4, <1>5, <1>6, <1>7 DEF Reads, LinesTo

\* Nothing but the wire of a session that is past SERVER changed.
LEMMA ReadWire ==
  ASSUME Inv, NEW e \in Ends, NEW k, Reads(e, k), Consumed(e),
         UNCHANGED <<dump, cut>>, sess'[e] # "capab",
         \A f \in Ends \ {e} : sess'[f] = sess[f]
  PROVE  WireInv'
<1>0. WireInv
  BY DEF Inv
<1>1. ServerFirst'
  BY <1>0, ReadLine DEF WireInv, ServerFirst
<1>2. CutBoth'
  BY <1>0 DEF WireInv, CutBoth
<1> QED BY <1>0, <1>1, <1>2, ReadLine DEF WireInv, LinesTo, Peer

\* The peer's SERVER.
LEMMA ServerStep == ASSUME Inv, NEW e \in Ends, RecvServer(e) PROVE Inv' /\ TimesFall
<1>0. TypeOK /\ Reads(e, "SERVER") /\ Consumed(e)
  BY DEF Inv, RecvServer
<1>1. \A f \in Ends : sess'[f] = IF f = e THEN "publish" ELSE sess[f]
  BY <1>0 DEF RecvServer, TypeOK
<1>2. WireInv'
  BY <1>0, <1>1, ReadWire DEF RecvServer
<1>3. NoOrphans'
  <2>1. \A f \in Ends : Registered(f) => Registered(f)'
    BY <1>1 DEF Registered
  <2> QED BY <2>1, OrphansKept DEF RecvServer, net
<1>4. told' \in SUBSET (Users \X Ends) /\ links' \in SUBSET Ends /\ sess' \in [Ends -> Phases]
  BY <1>0 DEF RecvServer, Rewired, TypeOK, Phases
<1>5. wire' \in [Ends -> Seq(Lines)] /\ \A f \in Ends : Len(wire'[f]) <= Queue
  BY <1>0, ReadLine
<1>6. TypeOK'
  BY <1>0, <1>4, <1>5 DEF RecvServer, TypeOK, local, net
<1> QED BY <1>2, <1>3, <1>6, TimesSame DEF Inv, RecvServer, local

\* An ordering of a finite set is a sequence of its elements.
LEMMA OrderingSeq ==
  ASSUME NEW S, IsFiniteSet(S), NEW T, S \subseteq T, NEW f \in Orderings(S)
  PROVE  f \in Seq(T)
<1>1. Cardinality(S) \in Nat
  BY FS_CardinalityType
<1>2. f \in [1..Cardinality(S) -> S]
  BY DEF Orderings
<1>3. f \in Seq(S)
  BY <1>1, <1>2, SeqDef
<1> QED BY <1>3, SeqMonotonic

\* The burst is finite, and its lines are lines to the peer.
LEMMA BurstLines ==
  ASSUME Inv, NEW e \in Ends
  PROVE  /\ IsFiniteSet(burst_users(At[e])) /\ IsFiniteSet(burst_channels(At[e]))
         /\ burst_users(At[e]) \subseteq LinesTo(Other[e])
         /\ burst_channels(At[e]) \subseteq LinesTo(Other[e])
<1> DEFINE s == At[e]
           V == { v \in here \cap uuid : Home[v] = s }
           C == { c \in Chans : burst_members(s, c) # {} }
<1>0. TypeOK /\ s \in Servers /\ Peer(Other[e]) = s
  BY OtherEnds DEF Inv
<1>1. IsFiniteSet(V) /\ V \subseteq Users /\ IsFiniteSet(C) /\ C \subseteq Chans
  BY <1>0, FiniteAssumption, FS_Subset DEF TypeOK
<1>2. \A c \in Chans : burst_members(s, c) \in SUBSET Users /\ ts[s][c] \in Nat
  BY <1>0 DEF burst_members, TypeOK
<1>3. burst_users(s) = { UserLine("UID", u) : u \in V }
  BY DEF burst_users
<1>4. burst_channels(s) = { FJOIN(c, ts[s][c], burst_members(s, c)) : c \in C }
  BY DEF burst_channels
<1> HIDE DEF V, C, s
<1>5. IsFiniteSet(burst_users(s))
  <2> DEFINE g == [u \in V |-> UserLine("UID", u)]
  <2>1. g \in Surjection(V, burst_users(s))
    BY <1>3 DEF Surjection
  <2> QED BY <1>1, <2>1, FS_Surjection
<1>6. IsFiniteSet(burst_channels(s))
  <2> DEFINE g == [c \in C |-> FJOIN(c, ts[s][c], burst_members(s, c))]
  <2>1. g \in Surjection(C, burst_channels(s))
    BY <1>4 DEF Surjection
  <2> QED BY <1>1, <2>1, FS_Surjection
<1>7. burst_users(s) \subseteq LinesTo(Other[e])
  <2> SUFFICES ASSUME NEW u \in V PROVE UserLine("UID", u) \in LinesTo(Other[e])
    BY <1>3
  <2>1. u \in Users /\ Home[u] = s
    BY <1>1 DEF V
  <2> QED BY <1>0, <2>1, LineTypes DEF LinesTo
<1>8. burst_channels(s) \subseteq LinesTo(Other[e])
  <2> SUFFICES ASSUME NEW c \in C
               PROVE  FJOIN(c, ts[s][c], burst_members(s, c)) \in LinesTo(Other[e])
    BY <1>4
  <2>1. /\ FJOIN(c, ts[s][c], burst_members(s, c)) \in Lines
        /\ FJOIN(c, ts[s][c], burst_members(s, c)).kind = "FJOIN"
    BY <1>1, <1>2, LineTypes
  <2> QED BY <2>1 DEF LinesTo
<1> QED BY <1>5, <1>6, <1>7, <1>8 DEF s

\* Rendering the burst.
LEMMA SnapshotStep == ASSUME Inv, NEW e \in Ends, Snapshot(e) PROVE Inv' /\ TimesFall
<1>0. TypeOK /\ WireInv /\ Other[e] \in Ends
  BY OtherEnds DEF Inv
<1>1. PICK us \in Orderings(burst_users(At[e])), cs \in Orderings(burst_channels(At[e])) :
        dump' = [dump EXCEPT ![e] = us \o cs]
  BY DEF Snapshot
<1>2. us \in Seq(LinesTo(Other[e])) /\ cs \in Seq(LinesTo(Other[e]))
  BY BurstLines, OrderingSeq
<1>3. us \o cs \in Seq(LinesTo(Other[e]))
  BY <1>2, ConcatProperties
<1>4. \A f \in Ends : dump'[f] \in Seq(LinesTo(Other[f]))
  BY <1>0, <1>1, <1>3 DEF WireInv, TypeOK
<1>5. dump' \in [Ends -> Seq(Lines)]
  BY <1>0, <1>1, <1>3, WireLines DEF TypeOK
<1>6. \A f \in Ends : sess'[f] = IF f = e THEN "dump" ELSE sess[f]
  BY <1>0 DEF Snapshot, TypeOK
<1>7. WireInv'
  <2>1. ServerFirst' /\ CutBoth'
    BY <1>0, <1>6 DEF Snapshot, WireInv, ServerFirst, CutBoth
  <2>2. wire' = wire
    BY DEF Snapshot
  <2> QED BY <1>0, <1>4, <2>1, <2>2 DEF WireInv, LinesTo, Peer
<1>8. NoOrphans'
  <2>1. \A f \in Ends : Registered(f) => Registered(f)'
    BY <1>6 DEF Registered
  <2> QED BY <2>1, OrphansKept DEF Snapshot, net
<1>9. TypeOK'
  <2>1. sess' \in [Ends -> Phases]
    BY <1>0 DEF Snapshot, TypeOK, Phases
  <2> QED BY <1>0, <1>5, <2>1 DEF Snapshot, TypeOK, local, net
<1> QED BY <1>7, <1>8, <1>9, TimesSame DEF Inv, Snapshot, local

\* Queueing it.
LEMMA FlushStep == ASSUME Inv, NEW e \in Ends, Flush(e) PROVE Inv' /\ TimesFall
<1> DEFINE o == Other[e]
<1>0. TypeOK /\ WireInv /\ o \in Ends /\ o # e /\ Other[o] = e /\ sess[e] = "dump"
  BY OtherEnds DEF Inv, Flush
<1>1. /\ \A f \in Ends : /\ sess'[f] = IF f = e THEN "linked" ELSE sess[f]
                         /\ dump'[f] = IF f = e THEN <<>> ELSE dump[f]
      /\ \A f \in Ends : f # o => wire'[f] = wire[f]
      /\ wire'[o] = IF Carries(e) THEN Fitting(wire[o] \o dump[e]) ELSE wire[o]
  BY <1>0 DEF Flush, TypeOK
<1>2. /\ wire[o] \in Seq(LinesTo(o)) /\ Len(wire[o]) <= Queue
      /\ dump[e] \in Seq(LinesTo(o))
  BY <1>0 DEF WireInv
<1>3. /\ wire'[o] \in Seq(LinesTo(o)) /\ Len(wire'[o]) <= Queue
      /\ wire[o] # <<>> => wire'[o] # <<>> /\ Head(wire'[o]) = Head(wire[o])
      /\ o \in cut => wire'[o] = wire[o]
  <2>1. CASE Carries(e)
    <3>1. o \notin cut
      BY <1>0, <2>1 DEF Carries, WireInv, CutBoth
    <3> HIDE DEF o
    <3> QED BY <1>1, <1>2, <2>1, <3>1, FittingFirst
  <2>2. CASE ~Carries(e)
    BY <1>1, <1>2, <2>2
  <2> QED BY <2>1, <2>2
<1> HIDE DEF o
<1>4. \A f \in Ends : wire'[f] \in Seq(LinesTo(f)) /\ Len(wire'[f]) <= Queue
  BY <1>0, <1>1, <1>3 DEF WireInv
<1>5. \A f \in Ends : dump'[f] \in Seq(LinesTo(Other[f]))
  <2>1. <<>> \in Seq(LinesTo(o))
    BY EmptySeq
  <2> QED BY <1>0, <1>1, <2>1 DEF WireInv, o
<1>6. ServerFirst'
  BY <1>0, <1>1, <1>3 DEF WireInv, ServerFirst, Flush
<1>7. WireInv'
  <2>1. CutBoth'
    BY <1>0 DEF Flush, WireInv, CutBoth
  <2> QED BY <1>4, <1>5, <1>6, <2>1 DEF WireInv, LinesTo, Peer
<1>8. NoOrphans'
  <2>1. \A f \in Ends : Registered(f) => Registered(f)'
    BY <1>1 DEF Registered
  <2> QED BY <2>1, OrphansKept DEF Flush, net
<1>9. TypeOK'
  <2>1. sess' \in [Ends -> Phases]
    BY <1>0 DEF Flush, TypeOK, Phases
  <2>2. \A f \in Ends : wire'[f] \in Seq(Lines) /\ dump'[f] \in Seq(Lines)
    BY <1>4, <1>5, WireLines
  <2>3. wire' \in [Ends -> Seq(Lines)] /\ dump' \in [Ends -> Seq(Lines)]
    BY <1>0, <2>2 DEF Flush, TypeOK
  <2>4. shown' \in SUBSET (Ends \X Chans)
    BY <1>0 DEF Flush, Dated, TypeOK
  <2> QED BY <1>0, <1>4, <2>1, <2>3, <2>4 DEF Flush, TypeOK, local, net
<1> QED BY <1>7, <1>8, <1>9, TimesSame DEF Inv, Flush, local

\* The parts of a step of apply_event that are the same for every line.
LEMMA EventFrame ==
  ASSUME Inv, NEW e \in Ends, NEW k, Reads(e, k), Consumed(e), k # "SERVER",
         UNCHANGED <<sess, dump, cut>>
  PROVE  /\ WireInv' /\ wire' \in [Ends -> Seq(Lines)]
         /\ \A f \in Ends : Len(wire'[f]) <= Queue
         /\ \A f \in Ends : Registered(f) => Registered(f)'
<1>1. sess'[e] # "capab"
  BY ReadLine DEF Registered
<1> QED BY <1>1, ReadWire, ReadLine DEF Registered

\* An UID makes a user of the peer's known, over a session that is registered.
LEMMA UidStep == ASSUME Inv, NEW e \in Ends, RecvUid(e) PROVE Inv' /\ TimesFall
<1> DEFINE u == Head(wire[e]).user
           s == At[e]
<1>0. /\ TypeOK /\ Reads(e, "UID") /\ Consumed(e) /\ s \in Servers
      /\ UNCHANGED <<sess, dump, cut>>
  BY OtherEnds DEF Inv, RecvUid
<1>1. u \in Users /\ Home[u] = Peer(e) /\ Registered(e)
  BY <1>0, ReadLine, LineFields DEF LinesTo
<1>2. /\ known' = [known EXCEPT ![s] = @ \cup {u}]
      /\ on' = [on EXCEPT ![s][u] = {}]
  BY DEF RecvUid
<1>3. known' \in [Servers -> SUBSET Users] /\ on' \in [Servers -> [Users -> SUBSET Chans]]
  BY <1>0, <1>1, <1>2 DEF TypeOK
<1>4. NoOrphans'
  <2>1. \A f \in Ends : Registered(f) => Registered(f)'
    BY <1>0, EventFrame
  <2>2. \A r \in Servers : known'[r] = IF r = s THEN known[r] \cup {u} ELSE known[r]
    BY <1>0, <1>2 DEF TypeOK
  <2> SUFFICES ASSUME NEW r \in Servers, NEW v \in known'[r]
               PROVE  \E f \in Ends : At[f] = r /\ Peer(f) = Home[v] /\ Registered(f)'
    BY DEF NoOrphans, Peer
  <2>3. CASE v \in known[r]
    BY <2>1, <2>3 DEF Inv, NoOrphans
  <2>4. CASE v \notin known[r]
    <3>1. r = s /\ v = u
      BY <2>2, <2>4
    <3> QED BY <1>1, <2>1, <3>1
  <2> QED BY <2>3, <2>4
<1>5. TypeOK'
  BY <1>0, <1>3, EventFrame DEF RecvUid, TypeOK, local
<1> QED BY <1>0, <1>4, <1>5, EventFrame, TimesSame DEF Inv, RecvUid, local

\* A QUIT takes one away.
LEMMA QuitStep == ASSUME Inv, NEW e \in Ends, RecvQuit(e) PROVE Inv' /\ TimesFall
<1> DEFINE u == Head(wire[e]).user
           s == At[e]
<1>0. /\ TypeOK /\ Reads(e, "QUIT") /\ Consumed(e) /\ s \in Servers
      /\ UNCHANGED <<sess, dump, cut>>
  BY OtherEnds DEF Inv, RecvQuit
<1>1. u \in Users
  BY <1>0, ReadLine, LineFields
<1>2. /\ known' = [known EXCEPT ![s] = @ \ {u}]
      /\ on' = [on EXCEPT ![s][u] = {}]
  BY DEF RecvQuit
<1>3. known' \in [Servers -> SUBSET Users] /\ on' \in [Servers -> [Users -> SUBSET Chans]]
  BY <1>0, <1>1, <1>2 DEF TypeOK
<1>4. NoOrphans'
  <2>1. \A f \in Ends : Registered(f) => Registered(f)'
    BY <1>0, EventFrame
  <2>2. \A r \in Servers : known'[r] \subseteq known[r]
    BY <1>0, <1>2 DEF TypeOK
  <2> QED BY <2>1, <2>2 DEF Inv, NoOrphans, Peer
<1>5. TypeOK'
  BY <1>0, <1>3, EventFrame DEF RecvQuit, TypeOK, local
<1> QED BY <1>0, <1>4, <1>5, EventFrame, TimesSame DEF Inv, RecvQuit, local

\* The channels that are seen are channels.
LEMMA SeenType ==
  ASSUME TypeOK, NEW s \in Servers, NEW M, NEW ch \in Chans
  PROVE  Seen(s, M, ch) \in [Servers -> [Users -> SUBSET Chans]]
BY DEF Seen, TypeOK

\* FJOIN: the older of the two times is adopted.
LEMMA FjoinStep == ASSUME Inv, NEW e \in Ends, RecvFjoin(e) PROVE Inv' /\ TimesFall
<1> DEFINE m == Head(wire[e])
           s == At[e]
<1>0. /\ TypeOK /\ Reads(e, "FJOIN") /\ Consumed(e) /\ s \in Servers
      /\ UNCHANGED <<sess, dump, cut>>
  BY OtherEnds DEF Inv, RecvFjoin
<1>1. m.chan \in Chans /\ m.ts \in Nat
  BY <1>0, ReadLine, LineFields
<1>2. on' = Seen(s, m.users, m.chan) /\ ts' = [ts EXCEPT ![s][m.chan] = adopted(@, m.ts)]
  BY DEF RecvFjoin
<1> HIDE DEF m, s
<1>3. on' \in [Servers -> [Users -> SUBSET Chans]]
  BY <1>0, <1>1, <1>2, SeenType
<1>4. ts[s][m.chan] \in Nat /\ adopted(ts[s][m.chan], m.ts) \in Nat
  BY <1>0, <1>1 DEF TypeOK, adopted
<1>5. ts' \in [Servers -> [Chans -> Nat]]
  BY <1>0, <1>1, <1>2, <1>4 DEF TypeOK
<1>6. TimesFall
  <2> SUFFICES ASSUME NEW r \in Servers, NEW ch \in Chans, ts[r][ch] # 0, ts'[r][ch] # 0
               PROVE  ts'[r][ch] <= ts[r][ch]
    BY DEF TimesFall
  <2>1. ts[r][ch] \in Nat
    BY <1>0 DEF TypeOK
  <2>2. CASE r = s /\ ch = m.chan
    <3>1. ts'[r][ch] = adopted(ts[r][ch], m.ts)
      BY <1>0, <1>1, <1>2, <2>2 DEF TypeOK
    <3> QED BY <1>1, <2>1, <3>1 DEF adopted
  <2>3. CASE ~(r = s /\ ch = m.chan)
    BY <1>0, <1>1, <1>2, <2>1, <2>3 DEF TypeOK
  <2> QED BY <2>2, <2>3
<1>7. NoOrphans'
  BY <1>0, EventFrame, OrphansKept DEF RecvFjoin
<1>8. TypeOK'
  <2>1. shown' \in SUBSET (Ends \X Chans)
    BY <1>0 DEF RecvFjoin, StillShown, TypeOK
  <2>2. wire' \in [Ends -> Seq(Lines)] /\ \A f \in Ends : Len(wire'[f]) <= Queue
    BY <1>0, EventFrame
  <2> QED BY <1>0, <1>3, <1>5, <2>1, <2>2 DEF RecvFjoin, TypeOK
<1> QED BY <1>0, <1>6, <1>7, <1>8, EventFrame DEF Inv

\* IJOIN and PART.
LEMMA MoveStep ==
  ASSUME Inv, NEW e \in Ends, RecvIjoin(e) \/ RecvPart(e) PROVE Inv' /\ TimesFall
<1> DEFINE m == Head(wire[e])
           s == At[e]
<1>0. /\ TypeOK /\ Consumed(e) /\ s \in Servers
      /\ UNCHANGED <<local, known, links, sess, dump, cut, told, shown>>
  BY OtherEnds DEF Inv, RecvIjoin, RecvPart
<1>1. PICK k \in {"IJOIN", "PART"} : Reads(e, k)
  BY DEF RecvIjoin, RecvPart
<1>2. m.user \in Users /\ m.chan \in Chans
  BY <1>0, <1>1, ReadLine, LineFields
<1>3. on' \in [Servers -> [Users -> SUBSET Chans]]
  <2>1. CASE RecvIjoin(e)
    BY <1>0, <1>2, <2>1, SeenType DEF RecvIjoin
  <2>2. CASE RecvPart(e)
    BY <1>0, <1>2, <2>2 DEF RecvPart, TypeOK
  <2> QED BY <2>1, <2>2
<1>4. /\ WireInv' /\ wire' \in [Ends -> Seq(Lines)]
      /\ \A f \in Ends : Len(wire'[f]) <= Queue
      /\ \A f \in Ends : Registered(f) => Registered(f)'
  BY <1>0, <1>1, EventFrame
<1>5. NoOrphans'
  BY <1>0, <1>4, OrphansKept
<1>6. TypeOK'
  BY <1>0, <1>3, <1>4 DEF TypeOK, local
<1> QED BY <1>0, <1>4, <1>5, <1>6, TimesSame DEF Inv, local

\* A message.
LEMMA MessageStep == ASSUME Inv, NEW e \in Ends, RecvMessage(e) PROVE Inv' /\ TimesFall
<1>0. /\ TypeOK /\ Consumed(e) /\ Reads(e, "MESSAGE")
      /\ UNCHANGED <<local, net, links, sess, dump, cut, told, shown>>
  BY DEF Inv, RecvMessage
<1>1. /\ WireInv' /\ wire' \in [Ends -> Seq(Lines)]
      /\ \A f \in Ends : Len(wire'[f]) <= Queue
      /\ \A f \in Ends : Registered(f) => Registered(f)'
  BY <1>0, EventFrame
<1>2. NoOrphans'
  BY <1>0, <1>1, OrphansKept DEF net
<1>3. TypeOK'
  BY <1>0, <1>1 DEF TypeOK, local, net
<1> QED BY <1>0, <1>1, <1>2, <1>3, TimesSame DEF Inv, local

\* The end of a session takes away everybody behind it.
LEMMA TeardownStep == ASSUME Inv, NEW e \in Ends, Teardown(e) PROVE Inv' /\ TimesFall
<1>0. TypeOK /\ WireInv /\ At[e] \in Servers /\ sess[e] \in {"capab", "linked"}
  BY OtherEnds DEF Inv, Teardown, Reading
<1>1. \A f \in Ends : /\ sess'[f] = IF f = e THEN "closed" ELSE sess[f]
                      /\ wire'[f] = IF f = e THEN <<>> ELSE wire[f]
  BY <1>0 DEF Teardown, TypeOK
<1>2. \A f \in Ends : wire'[f] \in Seq(LinesTo(f)) /\ Len(wire'[f]) <= Queue
  BY <1>0, <1>1, EmptyWire DEF WireInv
<1>3. WireInv'
  <2>1. ServerFirst' /\ CutBoth'
    BY <1>0, <1>1 DEF Teardown, WireInv, ServerFirst, CutBoth
  <2>2. dump' = dump
    BY DEF Teardown
  <2> QED BY <1>0, <1>2, <2>1, <2>2 DEF WireInv, LinesTo, Peer
<1>4. known' \in [Servers -> SUBSET Users] /\ on' \in [Servers -> [Users -> SUBSET Chans]]
  <2>1. CASE Registered(e)
    <3>1. split_server_detailed(At[e], Peer(e)) \in SUBSET Users
      BY <1>0 DEF split_server_detailed, TypeOK
    <3>2. known' \in [Servers -> SUBSET Users]
      BY <1>0, <2>1, <3>1 DEF Teardown, TypeOK
    <3>3. on' = [on EXCEPT ![At[e]] =
                   [u \in Users |-> IF u \in known'[At[e]] THEN on[At[e]][u] ELSE {}]]
      BY <2>1 DEF Teardown
    <3>4. on' \in [Servers -> [Users -> SUBSET Chans]]
      BY <1>0, <3>3 DEF TypeOK
    <3> QED BY <3>2, <3>4
  <2>2. CASE ~Registered(e)
    BY <1>0, <2>2 DEF Teardown, TypeOK, net
  <2> QED BY <2>1, <2>2
<1>5. NoOrphans'
  <2> SUFFICES ASSUME NEW r \in Servers, NEW v \in known'[r]
               PROVE  \E f \in Ends : At[f] = r /\ Peer(f) = Home[v] /\ Registered(f)'
    BY DEF NoOrphans, Peer
  <2>1. v \in known[r] /\ (Registered(e) /\ r = At[e] => Home[v] # Peer(e))
    <3>1. CASE Registered(e)
      <4>1. known'[r] = IF r = At[e] THEN split_server_detailed(At[e], Peer(e)) ELSE known[r]
        BY <1>0, <3>1 DEF Teardown, TypeOK
      <4> QED BY <4>1 DEF split_server_detailed
    <3>2. CASE ~Registered(e)
      BY <3>2 DEF Teardown, net
    <3> QED BY <3>1, <3>2
  <2>2. PICK f \in Ends : At[f] = r /\ Peer(f) = Home[v] /\ Registered(f)
    BY <2>1 DEF Inv, NoOrphans
  <2>3. f # e
    BY <2>1, <2>2
  <2> QED BY <1>1, <2>2, <2>3 DEF Registered
<1>6. TypeOK'
  <2>1. /\ told' \in SUBSET (Users \X Ends) /\ links' \in SUBSET Ends
        /\ sess' \in [Ends -> Phases] /\ shown' \in SUBSET (Ends \X Chans)
    BY <1>0 DEF Teardown, Rewired, Unlinked, TypeOK, Phases
  <2>2. \A f \in Ends : wire'[f] \in Seq(Lines)
    BY <1>2, WireLines
  <2>3. wire' \in [Ends -> Seq(Lines)]
    BY <1>0, <2>2 DEF Teardown, TypeOK
  <2> QED BY <1>0, <1>2, <1>4, <2>1, <2>3 DEF Teardown, TypeOK, local
<1> QED BY <1>3, <1>5, <1>6, TimesSame DEF Inv, Teardown, local

\* The network loses a connection: both wires are empty, and stay so.
LEMMA CutStep == ASSUME Inv, NEW e \in Ends, Cut(e) PROVE Inv' /\ TimesFall
<1>0. TypeOK /\ WireInv /\ Other[e] \in Ends /\ Other[Other[e]] = e
  BY OtherEnds DEF Inv
<1>1. \A f \in Ends : wire'[f] = IF f \in {e, Other[e]} THEN <<>> ELSE wire[f]
  BY <1>0 DEF Cut, TypeOK
<1>2. \A f \in Ends : wire'[f] \in Seq(LinesTo(f)) /\ Len(wire'[f]) <= Queue
  BY <1>0, <1>1, EmptyWire DEF WireInv
<1>3. WireInv'
  <2>1. ServerFirst'
    BY <1>0, <1>1 DEF Cut, WireInv, ServerFirst
  <2>2. CutBoth'
    BY <1>0 DEF Cut, WireInv, CutBoth
  <2>3. dump' = dump
    BY DEF Cut
  <2> QED BY <1>0, <1>2, <2>1, <2>2, <2>3 DEF WireInv, LinesTo, Peer
<1>4. NoOrphans'
  <2>1. \A f \in Ends : Registered(f) => Registered(f)'
    BY DEF Cut, Registered
  <2> QED BY <2>1, OrphansKept DEF Cut, net
<1>5. TypeOK'
  <2>1. /\ told' \in SUBSET (Users \X Ends) /\ cut' \in SUBSET Ends
        /\ shown' \in SUBSET (Ends \X Chans)
    BY <1>0 DEF Cut, Rewired, Unlinked, TypeOK
  <2>2. \A f \in Ends : wire'[f] \in Seq(Lines)
    BY <1>2, WireLines
  <2>3. wire' \in [Ends -> Seq(Lines)]
    BY <1>0, <2>2 DEF Cut, TypeOK
  <2> QED BY <1>0, <1>2, <2>1, <2>3 DEF Cut, TypeOK, local, net
<1> QED BY <1>3, <1>4, <1>5, TimesSame DEF Inv, Cut, local

\* A restart forgets everything at one server, its sessions included.
LEMMA RestartStep == ASSUME Inv, NEW s \in Servers, Restart(s) PROVE Inv' /\ TimesFall
<1>0. TypeOK /\ WireInv
  BY DEF Inv
<1>1. \A f \in Ends : /\ sess'[f] = IF At[f] = s THEN "closed" ELSE sess[f]
                      /\ wire'[f] = IF At[f] = s THEN <<>> ELSE wire[f]
                      /\ dump'[f] = IF At[f] = s THEN <<>> ELSE dump[f]
  BY DEF Restart
<1>2. \A f \in Ends : /\ wire'[f] \in Seq(LinesTo(f)) /\ Len(wire'[f]) <= Queue
                      /\ dump'[f] \in Seq(LinesTo(Other[f]))
  BY <1>0, <1>1, EmptyWire DEF WireInv
<1>3. WireInv'
  <2>1. ServerFirst' /\ CutBoth'
    BY <1>0, <1>1 DEF Restart, WireInv, ServerFirst, CutBoth
  <2> QED BY <1>2, <2>1 DEF WireInv, LinesTo, Peer
<1>4. NoOrphans'
  <2> SUFFICES ASSUME NEW r \in Servers, NEW v \in known'[r]
               PROVE  \E f \in Ends : At[f] = r /\ Peer(f) = Home[v] /\ Registered(f)'
    BY DEF NoOrphans, Peer
  <2>1. r # s /\ v \in known[r]
    BY <1>0 DEF Restart, TypeOK
  <2>2. PICK f \in Ends : At[f] = r /\ Peer(f) = Home[v] /\ Registered(f)
    BY <2>1 DEF Inv, NoOrphans
  <2> QED BY <1>1, <2>1, <2>2 DEF Registered
<1>5. TimesFall
  BY <1>0 DEF Restart, TypeOK, TimesFall
<1>6. TypeOK'
  <2>1. \A f \in Ends : wire'[f] \in Seq(Lines) /\ dump'[f] \in Seq(Lines)
    BY <1>2, WireLines
  <2>2. wire' \in [Ends -> Seq(Lines)] /\ dump' \in [Ends -> Seq(Lines)]
    BY <2>1 DEF Restart
  <2>3. sess' \in [Ends -> Phases]
    BY <1>0 DEF Restart, TypeOK, Phases
  <2>4. /\ here' \in SUBSET Users /\ gone' \in SUBSET Users /\ uuid' \in SUBSET Users
        /\ told' \in SUBSET (Users \X Ends) /\ links' \in SUBSET Ends /\ cut' \in SUBSET Ends
        /\ shown' \in SUBSET (Ends \X Chans)
    BY <1>0 DEF Restart, Unlinked, TypeOK
  <2>5. /\ joined' \in [Users -> SUBSET Chans] /\ ts' \in [Servers -> [Chans -> Nat]]
        /\ known' \in [Servers -> SUBSET Users]
        /\ on' \in [Servers -> [Users -> SUBSET Chans]]
    BY <1>0 DEF Restart, TypeOK
  <2> QED BY <1>2, <2>2, <2>3, <2>4, <2>5 DEF TypeOK
<1> QED BY <1>3, <1>4, <1>5, <1>6 DEF Inv

-----------------------------------------------------------------------------
(* All steps                                                               *)

\* Every step keeps the invariant, and makes no living channel younger.
LEMMA InvStep == ASSUME Inv, [Next]_vars PROVE Inv' /\ TimesFall
<1>1. ASSUME NEW u \in Users, Command(u) PROVE Inv' /\ TimesFall
  <2>1. CommandKeeps
    BY <1>1, CommandStep
  <2>2. NoOrphans'
    BY <2>1, OrphansKept DEF CommandKeeps, Registered
  <2>3. \A r \in Servers, ch \in Chans : ts[r][ch] \in Nat
    BY DEF Inv, TypeOK
  <2>4. TimesFall
    BY <2>1, <2>3 DEF CommandKeeps, TimesFall
  <2> QED BY <2>1, <2>2, <2>4 DEF CommandKeeps, Inv
<1>2. ASSUME NEW e \in Ends, run_session(e) PROVE Inv' /\ TimesFall
  BY <1>2, ServerStep, SnapshotStep, FlushStep, UidStep, QuitStep, FjoinStep, MoveStep,
     MessageStep, TeardownStep DEF run_session, apply_event
<1>3. CASE UNCHANGED vars
  <2>1. UNCHANGED <<local, net, links, sess, dump, wire, cut, told, shown>>
    BY <1>3 DEF vars
  <2>2. NoOrphans'
    BY <2>1, OrphansKept DEF Registered, net
  <2>3. TypeOK'
    BY <2>1 DEF Inv, TypeOK, local, net
  <2> QED BY <2>1, <2>2, <2>3, QuietKeeps, TimesSame DEF Inv, local
<1> QED BY <1>1, <1>2, <1>3, DialStep, CutStep, RestartStep DEF Next

\* The invariant holds at the start.
LEMMA InvInit == Init => Inv
<1> SUFFICES ASSUME Init PROVE Inv
  OBVIOUS
<1>1. TypeOK
  BY EmptySeq, QueueAssumption DEF Init, TypeOK, Phases
<1>2. WireInv
  BY EmptySeq, QueueAssumption DEF Init, WireInv, ServerFirst, CutBoth
<1>3. NoOrphans
  BY DEF Init, NoOrphans
<1> QED BY <1>1, <1>2, <1>3 DEF Inv

\* So it always holds.
LEMMA InvAlways == Spec => []Inv
<1>1. Inv /\ [Next]_vars => Inv'
  BY InvStep
<1> QED BY <1>1, InvInit, PTL DEF Spec

\* Types are kept; in particular no link queue outgrows LINK_QUEUE, with the
\* burst and every relayed command going into it.
THEOREM LinkTypes == Spec => []TypeOK
<1>1. Inv => TypeOK
  BY DEF Inv
<1> QED BY <1>1, InvAlways, PTL

\* Whoever a server knows is behind a session that it has with the user's own
\* server, whatever is lost, cut, restarted or torn down by split_server.
THEOREM NobodyOrphaned == Spec => []NoOrphans
<1>1. Inv => NoOrphans
  BY DEF Inv
<1> QED BY <1>1, InvAlways, PTL

-----------------------------------------------------------------------------
(* Of two channels the older wins                                          *)

\* A line that tells the peer of e a time of ch of at most k is on its way.
Pending(e, ch, k) ==
  \E i \in DOMAIN wire[Other[e]] :
    LET m == wire[Other[e]][i] IN m.kind = "FJOIN" /\ m.chan = ch /\ m.ts \in 1..k

\* The peer of e has, or is about to have, a time of ch as old as here.
ShownAt(e, ch) ==
  /\ Carries(e) /\ ts[At[e]][ch] # 0
  /\ \/ ts[Peer(e)][ch] \in 1..ts[At[e]][ch]
     \/ Pending(e, ch, ts[At[e]][ch])

Dating == \A e \in Ends, ch \in Chans : <<e, ch>> \in shown => ShownAt(e, ch)

\* Nothing is lost from the front of the wire to the peer of e.
Grows(e) ==
  LET o == Other[e]
  IN  \A i \in DOMAIN wire[o] : i \in DOMAIN wire'[o] /\ wire'[o][i] = wire[o][i]

\* The channel lives on at both ends of e, and a time that falls here has
\* reached the peer.
TimesHeld(e, ch) ==
  LET s == At[e]
      t == Peer(e)
  IN  /\ ts'[s][ch] # 0
      /\ ts[t][ch] # 0 => ts'[t][ch] # 0
      /\ ts'[s][ch] < ts[s][ch] => ts'[t][ch] \in 1..ts'[s][ch]

\* What is shown stays so while the times are held and the lines on their way
\* arrive or stay on it.
LEMMA ShownKept ==
  ASSUME Inv, TypeOK', TimesFall, NEW e \in Ends, NEW ch \in Chans, ShownAt(e, ch),
         Carries(e)', TimesHeld(e, ch),
         \A k \in Nat : Pending(e, ch, k) => Pending(e, ch, k)' \/ ts'[Peer(e)][ch] \in 1..k
  PROVE  ShownAt(e, ch)'
<1> DEFINE s == At[e]
           t == Peer(e)
<1>1. s \in Servers /\ t \in Servers
  BY OtherEnds
<1>2. /\ ts[s][ch] \in Nat /\ ts[t][ch] \in Nat /\ ts'[s][ch] \in Nat /\ ts'[t][ch] \in Nat
  BY <1>1 DEF Inv, TypeOK
<1>3. /\ ts[s][ch] # 0 /\ ts'[s][ch] # 0 /\ ts'[s][ch] <= ts[s][ch]
      /\ ts[t][ch] # 0 => ts'[t][ch] # 0 /\ ts'[t][ch] <= ts[t][ch]
      /\ ts'[s][ch] < ts[s][ch] => ts'[t][ch] \in 1..ts'[s][ch]
      /\ ts[t][ch] \in 1..ts[s][ch] \/ Pending(e, ch, ts[s][ch])
  BY <1>1 DEF ShownAt, TimesHeld, TimesFall
<1>4. ts'[t][ch] \in 1..ts'[s][ch] \/ Pending(e, ch, ts[s][ch])'
  <2>1. CASE ts'[s][ch] < ts[s][ch]
    BY <1>3, <2>1
  <2>2. CASE ts'[s][ch] = ts[s][ch]
    <3>1. CASE ts[t][ch] \in 1..ts[s][ch]
      BY <1>2, <1>3, <2>2, <3>1
    <3>2. CASE Pending(e, ch, ts[s][ch])
      <4>1. PICK k \in Nat : k = ts[s][ch]
        BY <1>2
      <4>2. Pending(e, ch, k)
        BY <3>2, <4>1 DEF Pending
      <4>3. Pending(e, ch, k)' \/ ts'[t][ch] \in 1..k
        BY <4>2
      <4>4. Pending(e, ch, k)' => Pending(e, ch, ts[s][ch])'
        BY <2>2, <4>1 DEF Pending
      <4> QED BY <2>2, <4>1, <4>3, <4>4
    <3> QED BY <1>3, <3>1, <3>2
  <2> QED BY <1>2, <1>3, <2>1, <2>2
<1> QED BY <1>3, <1>4 DEF ShownAt, Pending, Peer

\* A line on its way is still on it when the wire grows.
LEMMA PendingGrows ==
  ASSUME NEW e \in Ends, NEW ch, NEW k, Grows(e), Pending(e, ch, k) PROVE Pending(e, ch, k)'
BY DEF Grows, Pending

\* Times that stay are held.
LEMMA TimesStay ==
  ASSUME Inv, NEW e \in Ends, NEW ch \in Chans, ShownAt(e, ch),
         \A r \in Servers : ts[r][ch] # 0 => ts'[r][ch] = ts[r][ch]
  PROVE  TimesHeld(e, ch)
<1>1. At[e] \in Servers /\ Peer(e) \in Servers
  BY OtherEnds
<1>2. ts[At[e]][ch] \in Nat
  BY <1>1 DEF Inv, TypeOK
<1> QED BY <1>1, <1>2 DEF ShownAt, TimesHeld

\* Whatever StillShown keeps has its times held.
LEMMA StillHeld ==
  ASSUME NEW e, NEW ch, <<e, ch>> \in StillShown(ts')
  PROVE  <<e, ch>> \in shown /\ TimesHeld(e, ch)
BY DEF StillShown, TimesHeld

\* A step that adds to wires at most, and shows nothing new.
LEMMA DatingGrows ==
  ASSUME Inv, TypeOK', TimesFall, Dating,
         \A e \in Ends, ch \in Chans : <<e, ch>> \in shown' =>
           <<e, ch>> \in shown /\ TimesHeld(e, ch) /\ Grows(e) /\ Carries(e)'
  PROVE  Dating'
<1> SUFFICES ASSUME NEW e \in Ends, NEW ch \in Chans, <<e, ch>> \in shown'
             PROVE  ShownAt(e, ch)'
  BY DEF Dating
<1>1. ShownAt(e, ch) /\ TimesHeld(e, ch) /\ Grows(e) /\ Carries(e)'
  BY DEF Dating
<1>2. \A k \in Nat : Pending(e, ch, k) => Pending(e, ch, k)'
  BY <1>1, PendingGrows
<1> QED BY <1>1, <1>2, ShownKept

\* Sending adds to the end.
LEMMA SentGrows ==
  ASSUME WireInv, NEW e \in Ends, NEW m
  PROVE  LET w == wire[Other[e]]
             v == Sent(e, m)
         IN  /\ \A i \in DOMAIN w : i \in DOMAIN v /\ v[i] = w[i]
             /\ Carries(e) /\ ~Full(e) => \E i \in DOMAIN v : v[i] = m
<1> DEFINE w == wire[Other[e]]
           S == LinesTo(Other[e]) \cup {m}
<1>1. w \in Seq(LinesTo(Other[e]))
  BY OtherEnds DEF WireInv
<1>2. LinesTo(Other[e]) \subseteq S /\ m \in S
  OBVIOUS
<1>3. w \in Seq(S)
  <2> HIDE DEF w, S
  <2> QED BY <1>1, <1>2, SeqMonotonic
<1> HIDE DEF S
<1>4. /\ DOMAIN w = 1..Len(w) /\ Len(w) \in Nat
      /\ DOMAIN Append(w, m) = 1..(Len(w) + 1)
      /\ \A i \in 1..Len(w) : Append(w, m)[i] = w[i]
      /\ Append(w, m)[Len(w) + 1] = m
  <2> HIDE DEF w
  <2>1. /\ Append(w, m) \in Seq(S) /\ Len(Append(w, m)) = Len(w) + 1
        /\ \A i \in 1..Len(w) : Append(w, m)[i] = w[i]
        /\ Append(w, m)[Len(w) + 1] = m
    BY <1>2, <1>3, AppendProperties
  <2> QED BY <1>3, <2>1, LenProperties
<1> QED BY <1>4 DEF Sent

\* A line into the links of s, or none.
LEMMA LinksGrow ==
  ASSUME Inv, NEW s, NEW m,
         \/ wire' = [e \in Ends |-> IF Other[e] \in Handles(s) THEN Sent(Other[e], m)
                                                              ELSE wire[e]]
         \/ wire' = wire
  PROVE  \A e \in Ends : Grows(e)
<1> SUFFICES ASSUME NEW e \in Ends PROVE Grows(e)
  OBVIOUS
<1>0. Other[e] \in Ends /\ Other[Other[e]] = e /\ WireInv
  BY OtherEnds DEF Inv
<1>1. \/ wire'[Other[e]] = Sent(e, m)
      \/ wire'[Other[e]] = wire[Other[e]]
  BY <1>0
<1>2. CASE wire'[Other[e]] = Sent(e, m)
  BY <1>0, <1>2, SentGrows DEF Grows
<1>3. CASE wire'[Other[e]] = wire[Other[e]]
  BY <1>3 DEF Grows
<1> QED BY <1>1, <1>2, <1>3

-----------------------------------------------------------------------------
(* The steps                                                               *)

\* Connections that are not touched carry what they carried.
LEMMA CarriesKept ==
  ASSUME NEW e \in Ends, Carries(e), UNCHANGED <<sess, cut>> PROVE Carries(e)'
BY DEF Carries

\* Who registers, leaves, speaks or leaves a channel shows no time.
LEMMA CommandDates ==
  ASSUME Inv, TypeOK', TimesFall, Dating, NEW u \in Users,
         \/ Register(u) \/ Quit(u) \/ Vanish(u) \/ Speak(u)
         \/ \E ch \in Chans : Part(u, ch) \/ Kicked(u, ch)
  PROVE  Dating'
<1>1. UNCHANGED <<sess, cut>>
  BY DEF Register, Quit, Vanish, Leave, Speak, Part, Kicked, Leaves
<1>2. \A e \in Ends : Grows(e)
  <2>1. \E m : \/ wire' = [e \in Ends |-> IF Other[e] \in Handles(Home[u])
                                            THEN Sent(Other[e], m) ELSE wire[e]]
               \/ wire' = wire
    BY DEF Register, Quit, Vanish, Speak, Part, Kicked, to_links, Quiet
  <2> QED BY <2>1, LinksGrow
<1>3. shown' = StillShown(ts') \/ (shown' = shown /\ ts' = ts)
  BY DEF Register, Quit, Vanish, Leave, Speak, Part, Kicked, Leaves
<1>4. ASSUME NEW e \in Ends, NEW ch \in Chans, <<e, ch>> \in shown'
      PROVE  <<e, ch>> \in shown /\ TimesHeld(e, ch)
  <2>1. CASE shown' = StillShown(ts')
    BY <1>4, <2>1, StillHeld
  <2>2. CASE shown' = shown /\ ts' = ts
    BY <1>4, <2>2, TimesStay DEF Dating
  <2> QED BY <1>3, <2>1, <2>2
<1>5. \A e \in Ends, ch \in Chans : <<e, ch>> \in shown => Carries(e)'
  BY <1>1, CarriesKept DEF Dating, ShownAt
<1> QED BY <1>2, <1>4, <1>5, DatingGrows

\* A join that introduces its channel shows the time to every link it reaches.
LEMMA JoinDates ==
  ASSUME Inv, TypeOK', TimesFall, Dating, NEW u \in Users, NEW ch \in Chans,
         NEW t \in Times[Home[u]], Join(u, ch, t)
  PROVE  Dating'
<1> DEFINE s == Home[u]
<1>0. TypeOK /\ WireInv /\ s \in Servers /\ t \in Nat \ {0} /\ UNCHANGED <<sess, cut>>
  BY HomeAssumption, TimesAssumption DEF Inv, Join
<1>1. \A r \in Servers, c \in Chans : ts[r][c] # 0 => ts'[r][c] = ts[r][c]
  BY <1>0 DEF Join, TypeOK
<1>2. PICK k \in Nat \ {0} : k = ts'[s][ch]
  BY <1>0 DEF Join, TypeOK
<1>3. \A e \in Ends : Grows(e)
  <2>1. \E m : \/ wire' = [e \in Ends |-> IF Other[e] \in Handles(s)
                                            THEN Sent(Other[e], m) ELSE wire[e]]
               \/ wire' = wire
    BY DEF Join, Relayed, Introduces, to_links, Quiet
  <2> QED BY <2>1, LinksGrow
<1>4. ASSUME NEW e \in Ends, NEW c \in Chans, <<e, c>> \in shown
      PROVE  ShownAt(e, c)'
  <2>1. ShownAt(e, c) /\ Carries(e)'
    BY <1>0, <1>4, CarriesKept DEF Dating, ShownAt
  <2>2. TimesHeld(e, c)
    BY <1>1, <2>1, TimesStay
  <2>3. \A j \in Nat : Pending(e, c, j) => Pending(e, c, j)'
    BY <1>3, PendingGrows
  <2> QED BY <2>1, <2>2, <2>3, ShownKept
<1>5. ASSUME NEW e \in Ends, NEW c \in Chans, <<e, c>> \in shown', <<e, c>> \notin shown
      PROVE  ShownAt(e, c)'
  <2> DEFINE m == FJOIN(ch, k, {u})
  <2>0. Introduces(u, ch)
    BY <1>5 DEF Join, Relayed
  <2>1. /\ c = ch /\ e \in Handles(s) /\ Carries(e) /\ ~Full(e)
        /\ wire' = [f \in Ends |-> IF Other[f] \in Handles(s) THEN Sent(Other[f], m)
                                                             ELSE wire[f]]
    BY <1>2, <1>5, <2>0 DEF Introduces, to_links
  <2> HIDE DEF m
  <2>2. Other[e] \in Ends /\ Other[Other[e]] = e /\ At[e] = s
    BY <2>1, OtherEnds DEF Handles
  <2>3. wire'[Other[e]] = Sent(e, m)
    BY <2>1, <2>2
  <2>4. PICK i \in DOMAIN wire'[Other[e]] : wire'[Other[e]][i] = m
    BY <1>0, <2>1, <2>3, SentGrows
  <2>5. m.kind = "FJOIN" /\ m.chan = ch /\ m.ts = k
    BY DEF m, FJOIN
  <2>6. m.ts \in 1..k
    BY <1>2, <2>5
  <2>7. Pending(e, c, k)'
    BY <2>1, <2>4, <2>5, <2>6 DEF Pending
  <2>8. Carries(e)'
    BY <1>0, <2>1, CarriesKept
  <2> QED BY <1>2, <2>1, <2>2, <2>7, <2>8 DEF ShownAt, Pending
<1> QED BY <1>4, <1>5 DEF Dating

\* Reading takes one line from one wire.
LEMMA ReadPending ==
  ASSUME Inv, NEW e \in Ends, NEW ch \in Chans, NEW j \in Nat, Pending(e, ch, j),
         NEW f \in Ends, NEW k, Reads(f, k), Consumed(f)
  PROVE  \/ Pending(e, ch, j)'
         \/ /\ f = Other[e] /\ k = "FJOIN"
            /\ Head(wire[f]).chan = ch /\ Head(wire[f]).ts \in 1..j
<1> DEFINE o == Other[e]
           w == wire[o]
<1>0. TypeOK /\ WireInv /\ o \in Ends
  BY OtherEnds DEF Inv
<1>1. PICK i \in DOMAIN w : w[i].kind = "FJOIN" /\ w[i].chan = ch /\ w[i].ts \in 1..j
  BY DEF Pending
<1>2. CASE f # o
  <2>1. wire'[o] = wire[o]
    BY <1>0, <1>2, ReadLine
  <2> QED BY <1>1, <2>1 DEF Pending
<1>3. CASE f = o
  <2>1. w \in Seq(Lines) /\ w # <<>>
    BY <1>0, <1>3 DEF TypeOK, Reads
  <2>2. wire'[o] = Tail(w)
    BY <1>0, <1>3 DEF Consumed, TypeOK
  <2> HIDE DEF w
  <2>3. /\ DOMAIN w = 1..Len(w) /\ Len(w) \in Nat \ {0} /\ Head(w) = w[1]
        /\ DOMAIN Tail(w) = 1..(Len(w) - 1)
        /\ \A n \in 1..(Len(w) - 1) : Tail(w)[n] = w[n + 1]
    <3>1. Tail(w) \in Seq(Lines) /\ Len(Tail(w)) = Len(w) - 1
      BY <2>1, HeadTailProperties
    <3> QED BY <2>1, <3>1, HeadTailProperties, LenProperties, EmptySeq
  <2>4. CASE i = 1
    BY <1>1, <1>3, <2>3, <2>4 DEF Reads, w
  <2>5. CASE i # 1
    <3>1. i - 1 \in DOMAIN Tail(w) /\ Tail(w)[i - 1] = w[i]
      BY <2>3, <2>5
    <3> QED BY <1>1, <2>2, <3>1 DEF Pending
  <2> QED BY <2>4, <2>5
<1> QED BY <1>2, <1>3

\* A session reads a line that holds no time.
LEMMA ReadDates ==
  ASSUME Inv, TypeOK', TimesFall, Dating, NEW f \in Ends, NEW k, k # "FJOIN",
         Reads(f, k), Consumed(f), UNCHANGED <<ts, cut, shown>>,
         \A e \in Ends : sess[e] # "closed" => sess'[e] # "closed"
  PROVE  Dating'
<1> SUFFICES ASSUME NEW e \in Ends, NEW ch \in Chans, <<e, ch>> \in shown
             PROVE  ShownAt(e, ch)'
  BY DEF Dating
<1>1. ShownAt(e, ch)
  BY DEF Dating
<1>2. Carries(e)'
  BY <1>1, OtherEnds DEF ShownAt, Carries
<1>3. TimesHeld(e, ch)
  BY <1>1, TimesStay
<1>4. \A j \in Nat : Pending(e, ch, j) => Pending(e, ch, j)'
  BY ReadPending
<1> QED BY <1>1, <1>2, <1>3, <1>4, ShownKept

\* A session reads an FJOIN: its time, or an older one, is the time from now on.
LEMMA FjoinDates ==
  ASSUME Inv, TypeOK', TimesFall, Dating, NEW f \in Ends, RecvFjoin(f) PROVE Dating'
<1> DEFINE m == Head(wire[f])
<1>0. /\ TypeOK /\ Reads(f, "FJOIN") /\ Consumed(f) /\ At[f] \in Servers
      /\ UNCHANGED <<sess, cut>> /\ shown' = StillShown(ts')
      /\ ts' = [ts EXCEPT ![At[f]][m.chan] = adopted(@, m.ts)]
  BY OtherEnds DEF Inv, RecvFjoin
<1>1. m.chan \in Chans /\ m.ts \in Nat
  BY <1>0, ReadLine, LineFields
<1> HIDE DEF m
<1> SUFFICES ASSUME NEW e \in Ends, NEW ch \in Chans, <<e, ch>> \in shown'
             PROVE  ShownAt(e, ch)'
  BY DEF Dating
<1>2. <<e, ch>> \in shown /\ TimesHeld(e, ch)
  BY <1>0, StillHeld
<1>3. ShownAt(e, ch) /\ Carries(e)'
  BY <1>0, <1>2, CarriesKept DEF Dating, ShownAt
<1>4. ASSUME NEW j \in Nat, Pending(e, ch, j)
      PROVE  Pending(e, ch, j)' \/ ts'[Peer(e)][ch] \in 1..j
  <2>1. CASE Pending(e, ch, j)'
    BY <2>1
  <2>2. CASE f = Other[e] /\ m.chan = ch /\ m.ts \in 1..j
    <3>1. At[f] = Peer(e)
      BY <2>2 DEF Peer
    <3>2. ts'[Peer(e)][ch] = adopted(ts[Peer(e)][ch], m.ts) /\ ts[Peer(e)][ch] \in Nat
      BY <1>0, <1>1, <2>2, <3>1 DEF TypeOK
    <3> QED BY <1>1, <2>2, <3>2 DEF adopted
  <2> QED BY <1>0, <1>4, <2>1, <2>2, ReadPending DEF m
<1> QED BY <1>2, <1>3, <1>4, ShownKept

\* The burst shows the times of the FJOINs that fit into the queue.
LEMMA FlushDates ==
  ASSUME Inv, TypeOK', TimesFall, Dating, NEW f \in Ends, Flush(f) PROVE Dating'
<1> DEFINE o == Other[f]
<1>0. /\ TypeOK /\ WireInv /\ o \in Ends /\ Other[o] = f /\ sess[f] = "dump"
      /\ At[f] \in Servers /\ UNCHANGED <<ts, cut>>
  BY OtherEnds DEF Inv, Flush, local
<1>1. /\ \A e \in Ends : e # o => wire'[e] = wire[e]
      /\ wire'[o] = IF Carries(f) THEN Fitting(wire[o] \o dump[f]) ELSE wire[o]
      /\ \A e \in Ends : sess'[e] = IF e = f THEN "linked" ELSE sess[e]
  BY <1>0 DEF Flush, TypeOK
<1>2. \A e \in Ends : Carries(e) => Carries(e)'
  BY <1>0, <1>1, OtherEnds DEF Carries
<1>3. ASSUME NEW e \in Ends PROVE Grows(e)
  <2>1. CASE Other[e] # o \/ ~Carries(f)
    <3>1. wire'[Other[e]] = wire[Other[e]]
      BY <1>1, <2>1, OtherEnds
    <3> QED BY <3>1 DEF Grows
  <2>2. CASE Other[e] = o /\ Carries(f)
    <3> DEFINE w == wire[o]
               v == dump[f]
    <3>1. w \in Seq(Lines) /\ v \in Seq(Lines) /\ Len(w) <= Queue
      BY <1>0 DEF TypeOK
    <3>2. wire'[o] = Fitting(w \o v)
      BY <1>1, <2>2
    <3> HIDE DEF w, v
    <3>3. \A i \in DOMAIN w : i \in DOMAIN Fitting(w \o v) /\ Fitting(w \o v)[i] = w[i]
      BY <3>1, FittingGrows
    <3> QED BY <2>2, <3>2, <3>3 DEF Grows, w
  <2> QED BY <2>1, <2>2
<1>4. ASSUME NEW e \in Ends, NEW ch \in Chans, <<e, ch>> \in shown PROVE ShownAt(e, ch)'
  <2>1. ShownAt(e, ch) /\ Carries(e)'
    BY <1>2, <1>4 DEF Dating, ShownAt
  <2>2. TimesHeld(e, ch)
    BY <1>0, <2>1, TimesStay
  <2>3. \A j \in Nat : Pending(e, ch, j) => Pending(e, ch, j)'
    BY <1>3, PendingGrows
  <2> QED BY <2>1, <2>2, <2>3, ShownKept
<1>5. ASSUME NEW e \in Ends, NEW ch \in Chans, <<e, ch>> \in shown', <<e, ch>> \notin shown
      PROVE  ShownAt(e, ch)'
  <2>1. e = f /\ Carries(f) /\ ch \in Dated(At[f], wire'[o])
    BY <1>5 DEF Flush
  <2>2. PICK k \in Nat \ {0} : k = ts[At[f]][ch]
    BY <1>0, <2>1 DEF Dated, TypeOK
  <2>3. PICK i \in DOMAIN wire'[o] :
          wire'[o][i].kind = "FJOIN" /\ wire'[o][i].chan = ch /\ wire'[o][i].ts = k
    BY <2>1, <2>2 DEF Dated
  <2>4. wire'[o][i].ts \in 1..k
    BY <2>3
  <2>5. Pending(e, ch, k)'
    BY <2>1, <2>3, <2>4 DEF Pending
  <2>6. Carries(e)' /\ k = ts'[At[e]][ch]
    BY <1>0, <1>2, <2>1, <2>2
  <2> QED BY <2>2, <2>5, <2>6 DEF ShownAt, Pending
<1> QED BY <1>4, <1>5 DEF Dating

\* Connecting, a cut and the ends of sessions leave the other connections alone.
LEMMA ConnectionDates ==
  ASSUME Inv, TypeOK', TimesFall, Dating, NEW f \in Ends, Dial(f) \/ Teardown(f) \/ Cut(f)
  PROVE  Dating'
<1>0. TypeOK /\ ts' = ts /\ Other[f] \in Ends /\ Other[Other[f]] = f
  BY OtherEnds DEF Inv, Dial, Teardown, Cut, local
<1>1. ASSUME NEW e \in Ends, NEW ch \in Chans, <<e, ch>> \in shown'
      PROVE  /\ <<e, ch>> \in shown /\ ShownAt(e, ch) /\ e \notin {f, Other[f]}
  <2>1. <<e, ch>> \in shown
    BY <1>1 DEF Dial, Teardown, Cut, Unlinked
  <2>2. ShownAt(e, ch)
    BY <2>1 DEF Dating
  <2>3. CASE Dial(f)
    BY <2>1, <2>2, <2>3 DEF Dial, ShownAt, Carries
  <2>4. CASE Teardown(f) \/ Cut(f)
    BY <1>0, <1>1, <2>1, <2>2, <2>4 DEF Teardown, Cut, Unlinked
  <2> QED BY <2>3, <2>4
<1>2. ASSUME NEW e \in Ends, e \notin {f, Other[f]}
      PROVE  Grows(e) /\ (Carries(e) => Carries(e)')
  <2>1. Other[e] \in Ends /\ Other[e] \notin {f, Other[f]}
    BY <1>0, <1>2, OtherEnds
  <2>2. /\ wire'[Other[e]] = wire[Other[e]] /\ sess'[e] = sess[e]
        /\ sess'[Other[e]] = sess[Other[e]] /\ (e \in cut' => e \in cut)
    BY <1>0, <1>2, <2>1 DEF Dial, Teardown, Cut, TypeOK
  <2> QED BY <2>2 DEF Grows, Carries
<1>3. \A e \in Ends, ch \in Chans : ShownAt(e, ch) => TimesHeld(e, ch)
  BY <1>0, TimesStay
<1> QED BY <1>1, <1>2, <1>3, DatingGrows DEF ShownAt

\* So does a restart.
LEMMA RestartDates ==
  ASSUME Inv, TypeOK', TimesFall, Dating, NEW s \in Servers, Restart(s) PROVE Dating'
<1>0. TypeOK /\ cut' = cut
  BY DEF Inv, Restart
<1>1. ASSUME NEW e \in Ends, NEW ch \in Chans, <<e, ch>> \in shown'
      PROVE  <<e, ch>> \in shown /\ ShownAt(e, ch) /\ At[e] # s /\ Peer(e) # s
  <2>1. <<e, ch>> \in Unlinked({ d \in Ends : At[d] = s })
    BY <1>1 DEF Restart
  <2>2. <<e, ch>> \in shown /\ At[e] # s /\ Peer(e) # s
    BY <2>1, OtherEnds DEF Unlinked, Peer
  <2> QED BY <2>2 DEF Dating
<1>2. ASSUME NEW e \in Ends, At[e] # s, Peer(e) # s
      PROVE  Grows(e) /\ (Carries(e) => Carries(e)')
  <2>1. /\ wire'[Other[e]] = wire[Other[e]] /\ sess'[e] = sess[e]
        /\ sess'[Other[e]] = sess[Other[e]]
    BY <1>2, OtherEnds DEF Restart
  <2> QED BY <1>0, <2>1 DEF Grows, Carries
<1>3. ASSUME NEW e \in Ends, NEW ch \in Chans, ShownAt(e, ch), At[e] # s, Peer(e) # s
      PROVE  TimesHeld(e, ch)
  <2>1. At[e] \in Servers /\ Peer(e) \in Servers
    BY OtherEnds
  <2>2. ts'[At[e]] = ts[At[e]] /\ ts'[Peer(e)] = ts[Peer(e)] /\ ts[At[e]][ch] \in Nat
    BY <1>0, <1>3, <2>1 DEF Restart, TypeOK
  <2> QED BY <1>3, <2>2 DEF ShownAt, TimesHeld
<1> QED BY <1>1, <1>2, <1>3, DatingGrows DEF ShownAt

\* Every step keeps what is shown.
LEMMA DatingStep == ASSUME Inv, Dating, [Next]_vars PROVE Dating'
<1>0. Inv' /\ TypeOK' /\ TimesFall
  BY InvStep DEF Inv
<1>1. ASSUME NEW u \in Users, Command(u) PROVE Dating'
  BY <1>0, <1>1, CommandDates, JoinDates DEF Command
<1>2. ASSUME NEW e \in Ends, run_session(e) PROVE Dating'
  <2>1. CASE RecvServer(e)
    <3>1. \A f \in Ends : sess[f] # "closed" => sess'[f] # "closed"
      BY <2>1 DEF RecvServer, Inv, TypeOK
    <3> QED BY <1>0, <2>1, <3>1, ReadDates DEF RecvServer, local
  <2>2. CASE Snapshot(e)
    <3>1. /\ UNCHANGED <<wire, cut, shown, ts>>
          /\ \A f \in Ends : sess[f] # "closed" => sess'[f] # "closed"
      BY <2>2 DEF Snapshot, Inv, TypeOK, local
    <3>2. \A f \in Ends : Grows(f) /\ (Carries(f) => Carries(f)')
      BY <3>1, OtherEnds DEF Grows, Carries
    <3>3. \A f \in Ends, ch \in Chans : ShownAt(f, ch) => TimesHeld(f, ch)
      BY <3>1, TimesStay
    <3> QED BY <1>0, <3>1, <3>2, <3>3, DatingGrows DEF Dating, ShownAt
  <2>3. CASE Flush(e)
    BY <1>0, <2>3, FlushDates
  <2>4. CASE RecvFjoin(e)
    BY <1>0, <2>4, FjoinDates
  <2>5. CASE RecvUid(e) \/ RecvQuit(e) \/ RecvIjoin(e) \/ RecvPart(e) \/ RecvMessage(e)
    <3>1. PICK k \in {"UID", "QUIT", "IJOIN", "PART", "MESSAGE"} : Reads(e, k)
      BY <2>5 DEF RecvUid, RecvQuit, RecvIjoin, RecvPart, RecvMessage
    <3>2. Consumed(e) /\ UNCHANGED <<ts, cut, shown, sess>>
      BY <2>5 DEF RecvUid, RecvQuit, RecvIjoin, RecvPart, RecvMessage, local
    <3> QED BY <1>0, <3>1, <3>2, ReadDates
  <2>6. CASE Teardown(e)
    BY <1>0, <2>6, ConnectionDates
  <2> QED BY <1>2, <2>1, <2>2, <2>3, <2>4, <2>5, <2>6 DEF run_session, apply_event
<1>3. CASE UNCHANGED vars
  <2>1. UNCHANGED <<ts, sess, wire, cut, shown>>
    BY <1>3 DEF vars, local
  <2> QED BY <2>1 DEF Dating, ShownAt, Pending, Carries, Peer
<1> QED BY <1>0, <1>1, <1>2, <1>3, ConnectionDates, RestartDates DEF Next

\* The older channel wins, for any servers, users, connections, times and queue:
\* adopt_remote_channel takes over every older time that relay_join_to_links or
\* the burst shows, in whatever order the FJOINs of both sides cross.
THEOREM OlderChannelWins == Spec => []OlderWins
<1>1. Init => Dating
  BY DEF Init, Dating
<1>2. Inv /\ Dating /\ [Next]_vars => Dating'
  BY DatingStep
<1>3. Inv /\ Dating => OlderWins
  <2> SUFFICES ASSUME Inv, Dating, NEW e \in Ends, NEW ch \in Chans, <<e, ch>> \in shown,
                      Drained(At[e], Peer(e))
               PROVE  ts[Peer(e)][ch] \in 1..ts[At[e]][ch]
    BY DEF OlderWins, Inv, TypeOK
  <2>1. ShownAt(e, ch)
    BY DEF Dating
  <2>2. wire[Other[e]] = <<>>
    BY OtherEnds DEF Drained
  <2>3. ~Pending(e, ch, ts[At[e]][ch])
    BY <2>2 DEF Pending
  <2> QED BY <2>1, <2>3 DEF ShownAt
<1> QED BY <1>1, <1>2, <1>3, InvAlways, PTL DEF Spec

=============================================================================
