--------------------------- MODULE ChannelsProofs ---------------------------
(***************************************************************************)
(* What holds of Channels for every set of users, channels and modes: both *)
(* sides of membership agree, no member has an invitation left, whoever    *)
(* leaves sweeps, and a registered channel keeps its topic and its owner.  *)
(***************************************************************************)
EXTENDS Channels, FiniteSetTheorems, TLAPS

(* Types                                                                   *)

\* No channel, and a new one, are channels.
LEMMA ChanTypes == NoChan \in Chn /\ NewChan \in Chn
BY DEF NoChan, NewChan, Chn

\* What eject does to a channel.
LEMMA EjectedType ==
  ASSUME NEW c \in Chn, NEW u
  PROVE  /\ ejected(c, u) \in Chn
         /\ ejected(c, u).live = c.live
         /\ ejected(c, u).members = c.members \ {u}
         /\ ejected(c, u).privs = c.privs \ PrivsOf(u)
         /\ ejected(c, u).invites = c.invites
         /\ Blank(c) => Blank(ejected(c, u))
BY DEF ejected, Blank, Chn

\* What the sweep leaves of the channels it is given.
LEMMA SweepLeaves ==
  ASSUME TypeOK, NEW cs \in [Chans -> Chn],
         \A ch \in Chans : ~cs[ch].live => Blank(cs[ch])
  PROVE  LET s == drop_empty_channels(cs) IN
         /\ s \in [Chans -> Chn]
         /\ \A ch \in Chans : /\ ~s[ch].live => Blank(s[ch])
                              /\ s[ch].members = cs[ch].members
                              /\ s[ch].privs \subseteq cs[ch].privs
                              /\ s[ch].invites \subseteq cs[ch].invites
BY ChanTypes DEF drop_empty_channels, Blank, NoChan, Chn

\* apply_founder_status keeps everything but the user's own status.
LEMMA FounderStatus ==
  ASSUME NEW c \in Chn, NEW u \in Users, NEW ch, NEW a
  PROVE  LET d == founder_status(c, ch, u, a) IN
         /\ d \in Chn /\ d.live = c.live
         /\ d.members = c.members /\ d.invites = c.invites
         /\ d.privs \subseteq c.privs \cup {<<"o", u>>}
<1>1. <<"o", u>> \in Privs
  BY DEF Privs
<1>2. CASE is_registered(ch) /\ a = founder[ch]
  BY <1>1, <1>2 DEF founder_status, Chn
<1>3. CASE ~(is_registered(ch) /\ a = founder[ch])
  BY <1>3 DEF founder_status
<1> QED BY <1>2, <1>3

\* A channel that is created has its creator in it and nobody else.
LEMMA CreatedChannel ==
  ASSUME TypeOK, NEW u \in Users, NEW ch \in Chans
  PROVE  /\ created(u, ch) \in Chn /\ created(u, ch).live
         /\ created(u, ch).members = {u} /\ created(u, ch).invites = {}
         /\ created(u, ch).privs \subseteq {<<"o", u>>}
<1>1. saved[ch] \in Topics \cup {Empty} /\ <<"o", u>> \in Privs
  BY DEF TypeOK, Privs
<1>2. CASE is_registered(ch)
  <2> DEFINE c == [NewChan EXCEPT !.members = {u}, !.topic = saved[ch]]
  <2>1. c \in Chn /\ c.live /\ c.members = {u} /\ c.invites = {} /\ c.privs = {}
    BY <1>1 DEF NewChan, NoChan, Chn
  <2>2. created(u, ch) = founder_status(c, ch, u, account[u])
    BY <1>2 DEF created
  <2> HIDE DEF c
  <2> QED BY <2>1, <2>2, FounderStatus
<1>3. CASE ~is_registered(ch)
  BY <1>1, <1>3 DEF created, NewChan, NoChan, Chn
<1> QED BY <1>2, <1>3

\* A channel that is entered has one member more, whose invitation is used up.
LEMMA AdmittedChannel ==
  ASSUME TypeOK, NEW u \in Users, NEW ch \in Chans
  PROVE  /\ admitted(u, ch) \in Chn /\ admitted(u, ch).live = chan[ch].live
         /\ admitted(u, ch).members = chan[ch].members \cup {u}
         /\ admitted(u, ch).invites = chan[ch].invites \ {u}
         /\ admitted(u, ch).privs \subseteq chan[ch].privs \cup {<<"o", u>>}
<1> DEFINE c == [chan[ch] EXCEPT !.members = @ \cup {u}, !.invites = @ \ {u}]
<1>1. /\ c \in Chn /\ c.live = chan[ch].live /\ c.privs = chan[ch].privs
      /\ c.members = chan[ch].members \cup {u} /\ c.invites = chan[ch].invites \ {u}
  BY DEF TypeOK, Chn
<1>2. admitted(u, ch) = founder_status(c, ch, u, account[u])
  BY DEF admitted
<1> HIDE DEF c
<1> QED BY <1>1, <1>2, FounderStatus

\* What identifying does to the channels: nothing but the user's own status
\* in those they are in.
LEMMA IdentifiedChannels ==
  ASSUME TypeOK, NEW u \in Users, NEW a, Identify(u, a)
  PROVE  /\ chan' \in [Chans -> Chn]
         /\ \A d \in Chans :
              /\ chan'[d].live = chan[d].live
              /\ chan'[d].members = chan[d].members /\ chan'[d].invites = chan[d].invites
              /\ chan'[d].privs \subseteq chan[d].privs \cup {<<"o", u>>}
              /\ d \notin joined[u] => chan'[d] = chan[d]
<1>1. \A d \in Chans : chan'[d] = IF d \in joined[u]
                                    THEN founder_status(chan[d], d, u, a) ELSE chan[d]
  BY DEF Identify
<1>2. \A d \in Chans : chan[d] \in Chn
  BY DEF TypeOK
<1>3. DOMAIN chan' = Chans /\ chan' = [d \in Chans |-> chan'[d]]
  BY DEF Identify
<1>4. ASSUME NEW d \in Chans
      PROVE  /\ chan'[d] \in Chn /\ chan'[d].live = chan[d].live
             /\ chan'[d].members = chan[d].members /\ chan'[d].invites = chan[d].invites
             /\ chan'[d].privs \subseteq chan[d].privs \cup {<<"o", u>>}
             /\ d \notin joined[u] => chan'[d] = chan[d]
  BY <1>1, <1>2, FounderStatus
<1> QED BY <1>3, <1>4

\* Replacing one channel.
LEMMA OneChannel ==
  ASSUME TypeOK, NEW ch \in Chans, NEW c \in Chn, ~c.live => Blank(c),
         chan' = [chan EXCEPT ![ch] = c]
  PROVE  /\ chan' \in [Chans -> Chn]
         /\ \A d \in Chans : ~chan'[d].live => Blank(chan'[d])
         /\ \A d \in Chans : chan'[d] = IF d = ch THEN c ELSE chan[d]
BY DEF TypeOK

\* A live channel, and one with a member or a privilege in it.
LEMMA LiveChannel ==
  ASSUME TypeOK, NEW ch \in Chans,
         chan[ch].members # {} \/ chan[ch].privs # {}
  PROVE  chan[ch].live
BY DEF TypeOK, Blank

\* Granting and taking away stay inside the set granted from.
LEMMA GrantType ==
  ASSUME NEW U, NEW S \in SUBSET U, NEW x \in U, NEW on
  PROVE  Grant(on, S, x) \in SUBSET U
BY DEF Grant

\* The modes that are set, listed or keyed are modes.
LEMMA ModesType ==
  ASSUME NEW M \in SUBSET Modes, NEW k
  PROVE  /\ rekeyed(M, k) \in SUBSET Modes
         /\ Plain \cup Lists \subseteq Modes
BY DEF rekeyed, Modes

\* A MODE command works on a channel that exists: it has the lock.
ModalLive == modal # Empty => modal \in Chans /\ chan[modal].live

\* What a term of a MODE command applies is a channel again.
LEMMA AppliesType ==
  ASSUME TypeOK, ModalLive, modal # Empty, NEW c \in Chn,
         c.live, Applies(c)
  PROVE  TypeOK' /\ ModalLive'
<1>1. modal \in Chans
  BY DEF ModalLive
<1>2. /\ chan' \in [Chans -> Chn] /\ \A d \in Chans : ~chan'[d].live => Blank(chan'[d])
      /\ chan'[modal] = c
  BY <1>1, OneChannel DEF Applies
<1> QED BY <1>1, <1>2 DEF Applies, TypeOK, ModalLive

\* Every step keeps the types.
LEMMA TypeStep ==
  ASSUME TypeOK, ModalLive, MembershipAgrees, [Next]_vars PROVE TypeOK' /\ ModalLive'
<1>0. ASSUME NEW ch \in Chans PROVE chan[ch] \in Chn
  BY DEF TypeOK
<1>t. UNCHANGED <<chan, modal>> => ModalLive'
  BY DEF ModalLive
<1>n. modal' = Empty => ModalLive'
  BY DEF ModalLive
<1>1. ASSUME NEW u \in Users, NEW a \in Accounts \cup {Empty}, Connect(u, a)
      PROVE  TypeOK' /\ ModalLive'
  BY <1>1, <1>t DEF Connect, TypeOK
<1>2. ASSUME NEW u \in Users, Depart(u) PROVE TypeOK' /\ ModalLive'
  <2> DEFINE cs == [ch \in Chans |-> ejected(chan[ch], u)]
  <2>1. cs \in [Chans -> Chn] /\ \A ch \in Chans : ~cs[ch].live => Blank(cs[ch])
    BY <1>0, EjectedType DEF TypeOK
  <2>2. chan' = drop_empty_channels(cs)
    BY <1>2 DEF Depart
  <2> HIDE DEF cs
  <2>3. chan' \in [Chans -> Chn] /\ \A ch \in Chans : ~chan'[ch].live => Blank(chan'[ch])
    BY <2>1, <2>2, SweepLeaves
  <2>4. modal' = Empty
    BY <1>2 DEF Depart, Reads
  <2> QED BY <1>2, <1>n, <2>3, <2>4 DEF Depart, TypeOK
<1>3. ASSUME NEW u \in Users, Logout(u) \/ \E a \in Accounts : Identify(u, a) \/ SaslLogin(u, a)
      PROVE  TypeOK' /\ ModalLive'
  <2>1. ASSUME NEW a \in Accounts, Identify(u, a) PROVE TypeOK' /\ ModalLive'
    <3>1. modal' = Empty
      BY <2>1 DEF Identify, Reads
    <3>2. chan' \in [Chans -> Chn]
      BY <2>1, IdentifiedChannels
    <3>3. ASSUME NEW d \in Chans, ~chan'[d].live PROVE Blank(chan'[d])
      <4>1. Blank(chan[d]) /\ chan[d].members = {}
        BY <2>1, <3>3, IdentifiedChannels DEF TypeOK, Blank
      <4>2. d \notin joined[u]
        BY <4>1 DEF MembershipAgrees
      <4> QED BY <2>1, <4>1, <4>2, IdentifiedChannels
    <3> QED BY <1>n, <2>1, <3>1, <3>2, <3>3 DEF Identify, TypeOK
  <2>2. ASSUME NEW a \in Accounts, SaslLogin(u, a) PROVE TypeOK' /\ ModalLive'
    BY <1>t, <2>2 DEF SaslLogin, TypeOK
  <2>3. CASE Logout(u)
    BY <1>t, <2>3 DEF Logout, TypeOK
  <2> QED BY <1>3, <2>1, <2>2, <2>3
<1>4. ASSUME NEW u \in Users, NEW ch \in Chans, NEW c \in Chn, c.live,
             Enters(u, ch, c), Reads(u)
      PROVE  TypeOK' /\ ModalLive'
  <2>1. chan' \in [Chans -> Chn] /\ \A d \in Chans : ~chan'[d].live => Blank(chan'[d])
    BY <1>4, OneChannel DEF Enters
  <2>2. joined' \in [Users -> SUBSET Chans]
    BY <1>4 DEF Enters, TypeOK
  <2>3. modal' = Empty
    BY <1>4 DEF Enters, Reads
  <2> QED BY <1>4, <1>n, <2>1, <2>2, <2>3 DEF Enters, TypeOK
<1>5. ASSUME NEW u \in Users, NEW ch \in Chans, JoinNew(u, ch) PROVE TypeOK' /\ ModalLive'
  BY <1>4, <1>5, CreatedChannel DEF JoinNew
<1>6. ASSUME NEW u \in Users, NEW ch \in Chans, NEW key, join_existing(u, ch, key)
      PROVE  TypeOK' /\ ModalLive'
  BY <1>4, <1>6, AdmittedChannel DEF join_existing
<1>7. ASSUME NEW u \in Users, NEW ch \in Chans, Leaves(u, ch), modal = Empty
      PROVE  TypeOK' /\ ModalLive'
  <2> DEFINE cs == [chan EXCEPT ![ch] = ejected(@, u)]
  <2>1. cs \in [Chans -> Chn] /\ \A d \in Chans : ~cs[d].live => Blank(cs[d])
    BY <1>0, EjectedType DEF TypeOK
  <2>2. chan' = drop_empty_channels(cs)
    BY <1>7 DEF Leaves
  <2> HIDE DEF cs
  <2>3. chan' \in [Chans -> Chn] /\ \A d \in Chans : ~chan'[d].live => Blank(chan'[d])
    BY <2>1, <2>2, SweepLeaves
  <2>4. joined' \in [Users -> SUBSET Chans] /\ modal' = Empty
    BY <1>7 DEF Leaves, TypeOK
  <2> QED BY <1>7, <1>n, <2>3, <2>4 DEF Leaves, TypeOK
<1>8. ASSUME NEW u \in Users, NEW ch \in Chans, Part(u, ch) PROVE TypeOK' /\ ModalLive'
  BY <1>7, <1>8 DEF Part, Reads
<1>9. ASSUME NEW u \in Users, NEW ch \in Chans, NEW target \in Users, Kick(u, ch, target)
      PROVE  TypeOK' /\ ModalLive'
  BY <1>7, <1>9 DEF Kick, Reads
<1>10. ASSUME NEW u \in Users, NEW ch \in Chans, NEW target \in Users, Invite(u, ch, target)
       PROVE  TypeOK' /\ ModalLive'
  <2> DEFINE c == [chan[ch] EXCEPT !.invites = @ \cup {target}]
  <2>1. chan[ch].live
    BY <1>10, LiveChannel DEF Invite, is_member
  <2>2. c \in Chn /\ c.live
    BY <1>0, <2>1 DEF Chn
  <2>3. chan' = [chan EXCEPT ![ch] = c]
    BY <1>10 DEF Invite, TypeOK
  <2> HIDE DEF c
  <2>4. chan' \in [Chans -> Chn] /\ \A d \in Chans : ~chan'[d].live => Blank(chan'[d])
    BY <2>2, <2>3, OneChannel
  <2>5. modal' = Empty
    BY <1>10 DEF Invite, Reads
  <2> QED BY <1>10, <1>n, <2>4, <2>5 DEF Invite, TypeOK
<1>11. ASSUME NEW u \in Users, NEW ch \in Chans, NEW t \in Topics \cup {Empty}, Topic(u, ch, t)
       PROVE  TypeOK' /\ ModalLive'
  <2> DEFINE c == [chan[ch] EXCEPT !.topic = t]
  <2>1. chan[ch].live
    BY <1>11, LiveChannel DEF Topic, is_member
  <2>2. c \in Chn /\ c.live
    BY <1>0, <2>1 DEF Chn
  <2>3. chan' = [chan EXCEPT ![ch] = c]
    BY <1>11 DEF Topic, TypeOK
  <2> HIDE DEF c
  <2>4. chan' \in [Chans -> Chn] /\ \A d \in Chans : ~chan'[d].live => Blank(chan'[d])
    BY <2>2, <2>3, OneChannel
  <2>5. modal' = Empty /\ saved' \in [Chans -> Topics \cup {Empty}]
    BY <1>11 DEF Topic, Reads, TypeOK
  <2> QED BY <1>11, <1>n, <2>4, <2>5 DEF Topic, TypeOK
<1>12. ASSUME mode_channel PROVE TypeOK' /\ ModalLive'
  <2>0. ASSUME modal # Empty PROVE chan[modal] \in Chn /\ chan[modal].live
    BY <1>0, <2>0 DEF ModalLive
  <2>1. ASSUME NEW u \in Users, NEW ch \in Chans, ModeStart(u, ch) PROVE TypeOK' /\ ModalLive'
    <3>1. chan[ch].live
      BY <2>1, LiveChannel DEF ModeStart, is_member
    <3> QED BY <2>1, <3>1 DEF ModeStart, TypeOK, ModalLive
  <2>2. ASSUME NEW on \in BOOLEAN, NEW x \in Plain \cup Lists, ModeTerm(on, x)
        PROVE  TypeOK' /\ ModalLive'
    <3> DEFINE old == chan[modal]
               M   == Grant(on, old.modes, x)
               c   == [old EXCEPT !.modes = M]
    <3>1. modal # Empty /\ Applies(c)
      BY <2>2 DEF ModeTerm
    <3>2. M \in SUBSET Modes
      BY <2>0, <3>1, GrantType, ModesType DEF Chn
    <3>3. c \in Chn /\ c.live
      BY <2>0, <3>1, <3>2 DEF Chn
    <3> HIDE DEF c
    <3> QED BY <3>1, <3>3, AppliesType
  <2>3. ASSUME NEW k, ModeKey(k) PROVE TypeOK' /\ ModalLive'
    <3> DEFINE old == chan[modal]
               M   == rekeyed(old.modes, k)
               c   == [old EXCEPT !.modes = M]
    <3>1. modal # Empty /\ Applies(c)
      BY <2>3 DEF ModeKey
    <3>2. M \in SUBSET Modes
      BY <2>0, <3>1, ModesType DEF Chn
    <3>3. c \in Chn /\ c.live
      BY <2>0, <3>1, <3>2 DEF Chn
    <3> HIDE DEF c
    <3> QED BY <3>1, <3>3, AppliesType
  <2>4. ASSUME NEW on \in BOOLEAN, NEW p \in {"o", "v"}, NEW target \in Users,
               ModePriv(on, p, target)
        PROVE  TypeOK' /\ ModalLive'
    <3> DEFINE old == chan[modal]
               P   == Grant(on, old.privs, <<p, target>>)
               c   == [old EXCEPT !.privs = P]
    <3>1. modal # Empty /\ Applies(c)
      BY <2>4 DEF ModePriv
    <3>2. <<p, target>> \in Privs
      BY DEF Privs
    <3>3. P \in SUBSET Privs
      BY <2>0, <3>1, <3>2, GrantType DEF Chn
    <3>4. c \in Chn /\ c.live
      BY <2>0, <3>1, <3>3 DEF Chn
    <3> HIDE DEF c
    <3> QED BY <3>1, <3>4, AppliesType
  <2>5. ASSUME ModeEnd PROVE TypeOK' /\ ModalLive'
    <3>1. modal' = Empty
      BY <2>5 DEF ModeEnd
    <3>2. chan' = drop_empty_channels(chan)
      BY <2>5 DEF ModeEnd
    <3>3. chan \in [Chans -> Chn] /\ \A d \in Chans : ~chan[d].live => Blank(chan[d])
      BY DEF TypeOK
    <3>4. chan' \in [Chans -> Chn] /\ \A d \in Chans : ~chan'[d].live => Blank(chan'[d])
      BY <3>2, <3>3, SweepLeaves
    <3> QED BY <2>5, <1>n, <3>1, <3>4 DEF ModeEnd, TypeOK
  <2>6. ASSUME ModeFails PROVE TypeOK' /\ ModalLive'
    BY <2>6, <1>n DEF ModeFails, TypeOK
  <2> QED BY <1>12, <2>1, <2>2, <2>3, <2>4, <2>5, <2>6 DEF mode_channel
<1>13. ASSUME NEW u \in Users, NEW ch \in Chans, ChanServ(u, ch) PROVE TypeOK' /\ ModalLive'
  <2>1. CASE Register(u, ch)
    BY <1>0, <1>t, <2>1 DEF Register, TypeOK, Chn
  <2>2. CASE Drop(u, ch)
    BY <1>t, <2>2 DEF Drop, TypeOK
  <2>3. CASE Op(u, ch)
    <3>1. chan[ch].live
      BY <2>3, LiveChannel DEF Op, is_member
    <3>2. /\ founder_status(chan[ch], ch, u, account[u]) \in Chn
          /\ founder_status(chan[ch], ch, u, account[u]).live
      BY <1>0, <3>1, FounderStatus
    <3>3. /\ chan' = [chan EXCEPT ![ch] = founder_status(chan[ch], ch, u, account[u])]
          /\ modal' = Empty
      BY <2>3 DEF Op, Reads
    <3>4. chan' \in [Chans -> Chn] /\ \A d \in Chans : ~chan'[d].live => Blank(chan'[d])
      BY <3>2, <3>3, OneChannel
    <3> QED BY <2>3, <1>n, <3>3, <3>4 DEF Op, TypeOK
  <2> QED BY <1>13, <2>1, <2>2, <2>3 DEF ChanServ
<1>14. ASSUME NEW ch \in Chans, NEW c \in Chn, c.live = chan[ch].live, RemoteChange(ch, c)
       PROVE  TypeOK' /\ ModalLive'
  <2>1. chan' \in [Chans -> Chn] /\ \A d \in Chans : ~chan'[d].live => Blank(chan'[d])
    BY <1>14, OneChannel DEF RemoteChange
  <2>2. modal' = Empty
    BY <1>14 DEF RemoteChange, Linked
  <2> QED BY <1>14, <1>n, <2>1, <2>2 DEF RemoteChange, TypeOK
<1>15. ASSUME NEW ch \in Chans, Link(ch) PROVE TypeOK' /\ ModalLive'
  <2>1. ASSUME NEW r \in Remotes, RemoteJoin(ch, r) PROVE TypeOK' /\ ModalLive'
    BY <1>t, <2>1 DEF RemoteJoin, TypeOK
  <2>2. ASSUME NEW R \in SUBSET Remotes, NEW lose \in BOOLEAN, RemoteChannel(ch, R, lose)
        PROVE  TypeOK' /\ ModalLive'
    <3>1. remote' \in [Chans -> SUBSET Remotes] /\ modal' = Empty
      BY <2>2 DEF RemoteChannel, Linked, TypeOK
    <3>2. CASE chan[ch].live /\ lose
      <4> DEFINE c == [chan[ch] EXCEPT !.modes = {}, !.privs = {}]
      <4>1. c \in Chn /\ c.live
        BY <1>0, <3>2 DEF Chn
      <4>2. chan' = [chan EXCEPT ![ch] = c]
        BY <2>2, <3>2 DEF RemoteChannel, TypeOK
      <4> HIDE DEF c
      <4>3. chan' \in [Chans -> Chn] /\ \A d \in Chans : ~chan'[d].live => Blank(chan'[d])
        BY <4>1, <4>2, OneChannel
      <4> QED BY <2>2, <1>n, <3>1, <4>3 DEF RemoteChannel, TypeOK
    <3>3. CASE chan[ch].live /\ ~lose
      <4>1. chan' = chan
        BY <2>2, <3>3 DEF RemoteChannel
      <4> QED BY <2>2, <1>n, <3>1, <4>1 DEF RemoteChannel, TypeOK
    <3>4. CASE ~chan[ch].live
      <4>1. NewChan.live /\ chan' = [chan EXCEPT ![ch] = NewChan]
        BY <2>2, <3>4 DEF RemoteChannel, NewChan, NoChan
      <4>2. chan' \in [Chans -> Chn] /\ \A d \in Chans : ~chan'[d].live => Blank(chan'[d])
        BY <4>1, ChanTypes, OneChannel
      <4> QED BY <2>2, <1>n, <3>1, <4>2 DEF RemoteChannel, TypeOK
    <3> QED BY <3>2, <3>3, <3>4
  <2>3. ASSUME NEW on \in BOOLEAN, NEW x \in Plain \cup Lists, RemoteMode(ch, on, x)
        PROVE  TypeOK' /\ ModalLive'
    <3> DEFINE M == Grant(on, chan[ch].modes, x)
               c == [chan[ch] EXCEPT !.modes = M]
    <3>1. M \in SUBSET Modes
      BY <1>0, GrantType, ModesType DEF Chn
    <3>2. c \in Chn /\ c.live = chan[ch].live
      BY <1>0, <3>1 DEF Chn
    <3>3. RemoteChange(ch, c)
      BY <2>3 DEF RemoteMode
    <3> HIDE DEF c
    <3> QED BY <1>14, <3>2, <3>3
  <2>4. ASSUME NEW k, RemoteKey(ch, k) PROVE TypeOK' /\ ModalLive'
    <3> DEFINE M == rekeyed(chan[ch].modes, k)
               c == [chan[ch] EXCEPT !.modes = M]
    <3>1. M \in SUBSET Modes
      BY <1>0, ModesType DEF Chn
    <3>2. c \in Chn /\ c.live = chan[ch].live
      BY <1>0, <3>1 DEF Chn
    <3>3. RemoteChange(ch, c)
      BY <2>4 DEF RemoteKey
    <3> HIDE DEF c
    <3> QED BY <1>14, <3>2, <3>3
  <2>5. ASSUME NEW on \in BOOLEAN, NEW p \in {"o", "v"}, NEW u \in Users,
               RemotePriv(ch, on, p, u)
        PROVE  TypeOK' /\ ModalLive'
    <3> DEFINE P == Grant(on, chan[ch].privs, <<p, u>>)
               c == [chan[ch] EXCEPT !.privs = P]
    <3>1. <<p, u>> \in Privs
      BY DEF Privs
    <3>2. P \in SUBSET Privs
      BY <1>0, <3>1, GrantType DEF Chn
    <3>3. c \in Chn /\ c.live = chan[ch].live
      BY <1>0, <3>2 DEF Chn
    <3>4. RemoteChange(ch, c)
      BY <2>5 DEF RemotePriv
    <3> HIDE DEF c
    <3> QED BY <1>14, <3>3, <3>4
  <2>6. ASSUME NEW t \in Topics \cup {Empty}, RemoteTopic(ch, t) PROVE TypeOK' /\ ModalLive'
    <3> DEFINE c == [chan[ch] EXCEPT !.topic = t]
    <3>1. c \in Chn /\ c.live = chan[ch].live
      BY <1>0 DEF Chn
    <3>2. RemoteChange(ch, c)
      BY <2>6 DEF RemoteTopic
    <3> HIDE DEF c
    <3> QED BY <1>14, <3>1, <3>2
  <2> QED BY <1>15, <2>1, <2>2, <2>3, <2>4, <2>5, <2>6 DEF Link
<1>16. ASSUME NEW C \in SUBSET Chans, NEW R \in SUBSET Remotes, RemotesLeave(C, R)
       PROVE  TypeOK' /\ ModalLive'
  BY <1>t, <1>16 DEF RemotesLeave, TypeOK
<1>17. ASSUME Restart PROVE TypeOK' /\ ModalLive'
  <2>1. Blank(NoChan)
    BY DEF Blank, NoChan
  <2> QED BY <1>n, <1>17, <2>1, ChanTypes DEF Restart, TypeOK
<1>18. ASSUME UNCHANGED vars PROVE TypeOK' /\ ModalLive'
  BY <1>18, <1>t DEF vars, TypeOK
<1>19. ASSUME NEW u \in Users, NEW ch \in Chans, Member(u, ch) PROVE TypeOK' /\ ModalLive'
  BY <1>5, <1>6, <1>8, <1>9, <1>10, <1>11, <1>19 DEF Member
<1>20. ASSUME Local PROVE TypeOK' /\ ModalLive'
  BY <1>1, <1>2, <1>3, <1>12, <1>13, <1>19, <1>20 DEF Local, Session
<1> QED BY <1>15, <1>16, <1>17, <1>18, <1>20 DEF Next

-----------------------------------------------------------------------------
(* Membership.  A step leaves everybody where they are, lets one user into *)
(* one channel, takes one out of one, or takes one out of all.             *)

MemberInv == MembershipAgrees /\ InviteSpent /\ WithinCap

Stay ==
  /\ here \subseteq here' /\ joined' = joined
  /\ \A d \in Chans :
       /\ chan'[d].members = chan[d].members
       /\ chan'[d].invites \cap chan[d].members \subseteq chan[d].invites

\* No privilege is outside its channel that was not there before.
StraysStay == \A d \in Chans : Strays(d)' \subseteq Strays(d)

Enter(u, ch) ==
  /\ u \in here /\ here' = here
  /\ joined' = [joined EXCEPT ![u] = @ \cup {ch}]
  /\ Cardinality(joined[u]) < MaxChannels
  /\ chan'[ch].members = chan[ch].members \cup {u}
  /\ chan'[ch].invites = chan[ch].invites \ {u}
  /\ chan'[ch].privs \subseteq chan[ch].privs \cup {<<"o", u>>}
  /\ \A d \in Chans \ {ch} : chan'[d] = chan[d]

Exit(u, D) ==
  /\ here \ {u} \subseteq here'
  /\ here' = here \/ D = Chans
  /\ joined' = [joined EXCEPT ![u] = @ \ D]
  /\ \A d \in Chans :
       /\ chan'[d].members = IF d \in D THEN chan[d].members \ {u} ELSE chan[d].members
       /\ chan'[d].invites \subseteq chan[d].invites
       /\ chan'[d].privs \subseteq IF d \in D THEN chan[d].privs \ PrivsOf(u)
                                              ELSE chan[d].privs

\* A step that moves nobody keeps the two sides of membership equal.
LEMMA StayKeeps == ASSUME TypeOK, TypeOK', MemberInv, Stay PROVE MemberInv'
<1>1. MembershipAgrees'
  BY DEF MemberInv, MembershipAgrees, Stay
<1>2. InviteSpent'
  BY DEF MemberInv, InviteSpent, Stay
<1>3. WithinCap'
  BY DEF MemberInv, WithinCap, Stay
<1> QED BY <1>1, <1>2, <1>3 DEF MemberInv

\* A user entering a channel, recorded on both sides, keeps them equal.
LEMMA EnterKeeps ==
  ASSUME TypeOK, TypeOK', MemberInv, NEW u \in Users, NEW ch \in Chans, Enter(u, ch)
  PROVE  MemberInv' /\ StraysStay
<1>1. \A v \in Users : joined'[v] = IF v = u THEN joined[v] \cup {ch} ELSE joined[v]
  BY DEF Enter, TypeOK
<1>2. ASSUME NEW v \in Users PROVE joined'[v] = { d \in Chans : v \in chan'[d].members }
  <2>1. joined[v] = { d \in Chans : v \in chan[d].members }
    BY DEF MemberInv, MembershipAgrees
  <2>2. \A d \in Chans : v \in chan'[d].members <=>
                           v \in chan[d].members \/ (v = u /\ d = ch)
    BY DEF Enter
  <2> QED BY <1>1, <2>1, <2>2
<1>3. \A d \in Chans : chan'[d].members \subseteq here'
  BY DEF Enter, MemberInv, MembershipAgrees
<1>4. StraysStay
  BY DEF Enter, StraysStay, Strays
<1>5. InviteSpent'
  BY DEF Enter, MemberInv, InviteSpent
<1>6. WithinCap'
  <2>1. IsFiniteSet(joined[u])
    BY FiniteAssumption, FS_Subset DEF TypeOK
  <2>2. Cardinality(joined[u]) \in Nat /\ Cardinality(joined[u]) < MaxChannels
    BY <2>1, FS_CardinalityType DEF Enter
  <2>3. Cardinality(joined[u] \cup {ch}) =
          IF ch \in joined[u] THEN Cardinality(joined[u]) ELSE Cardinality(joined[u]) + 1
    BY <2>1, FS_AddElement
  <2>4. Cardinality(joined'[u]) <= MaxChannels
    <3>1. joined'[u] = joined[u] \cup {ch}
      BY <1>1
    <3>2. Cardinality(joined[u] \cup {ch}) <= MaxChannels
      BY <2>2, <2>3, CapAssumption
    <3> QED BY <3>1, <3>2
  <2> QED BY <1>1, <2>4 DEF MemberInv, WithinCap
<1> QED BY <1>2, <1>3, <1>4, <1>5, <1>6 DEF MemberInv, MembershipAgrees, StraysStay

\* So does a user leaving channels, by eject and by its own list.
LEMMA ExitKeeps ==
  ASSUME TypeOK, TypeOK', MemberInv, NEW u \in Users, NEW D \in SUBSET Chans, Exit(u, D)
  PROVE  MemberInv' /\ StraysStay
<1>1. \A v \in Users : joined'[v] = IF v = u THEN joined[v] \ D ELSE joined[v]
  BY DEF Exit, TypeOK
<1>2. ASSUME NEW v \in Users PROVE joined'[v] = { d \in Chans : v \in chan'[d].members }
  <2>1. joined[v] = { d \in Chans : v \in chan[d].members }
    BY DEF MemberInv, MembershipAgrees
  <2>2. \A d \in Chans : v \in chan'[d].members <=>
                           v \in chan[d].members /\ ~(v = u /\ d \in D)
    BY DEF Exit
  <2> QED BY <1>1, <2>1, <2>2
<1>3. \A d \in Chans : chan'[d].members \subseteq here'
  BY DEF Exit, MemberInv, MembershipAgrees
<1>4. ASSUME NEW d \in Chans PROVE Strays(d)' \subseteq Strays(d)
  <2>1. \A x \in Privs : x \in PrivsOf(u) <=> x[2] = u
    BY DEF Privs, PrivsOf
  <2>2. chan[d].privs \subseteq Privs
    BY DEF TypeOK, Chn
  <2> QED BY <2>1, <2>2 DEF Exit, Strays
<1>5. InviteSpent'
  BY DEF Exit, MemberInv, InviteSpent
<1>6. WithinCap'
  <2>1. IsFiniteSet(joined[u])
    BY FiniteAssumption, FS_Subset DEF TypeOK
  <2>2. /\ Cardinality(joined[u] \ D) <= Cardinality(joined[u])
        /\ Cardinality(joined[u]) \in Nat /\ Cardinality(joined[u] \ D) \in Nat
    BY <2>1, FS_Subset, FS_CardinalityType
  <2>3. Cardinality(joined[u]) <= MaxChannels
    BY DEF MemberInv, WithinCap
  <2>4. Cardinality(joined'[u]) <= MaxChannels
    BY <1>1, <2>2, <2>3, CapAssumption
  <2> QED BY <1>1, <2>4 DEF MemberInv, WithinCap
<1> QED BY <1>2, <1>3, <1>4, <1>5, <1>6 DEF MemberInv, MembershipAgrees, StraysStay

\* Replacing one channel by one with the same members and no new invitation
\* of a member leaves everybody where they are; if it gives privileges to
\* members only, none is outside.
LEMMA StayOne ==
  ASSUME TypeOK, NEW ch \in Chans, NEW c \in Chn, chan' = [chan EXCEPT ![ch] = c],
         UNCHANGED <<here, joined>>,
         c.members = chan[ch].members,
         c.invites \cap chan[ch].members \subseteq chan[ch].invites
  PROVE  /\ Stay
         /\ (\A x \in c.privs \ chan[ch].privs : x[2] \in c.members) => StraysStay
<1>1. \A d \in Chans : chan'[d] = IF d = ch THEN c ELSE chan[d]
  BY DEF TypeOK
<1>2. Stay
  BY <1>1 DEF Stay
<1>3. (\A x \in c.privs \ chan[ch].privs : x[2] \in c.members) => StraysStay
  BY <1>1 DEF StraysStay, Strays
<1> QED BY <1>2, <1>3

\* Granting adds at most the one privilege.
LEMMA GrantAdds ==
  ASSUME NEW S, NEW x, NEW on PROVE Grant(on, S, x) \subseteq S \cup {x}
BY DEF Grant

\* Every step is of one of the kinds, or a restart, and keeps the invariant; a
\* local one leaves no privilege outside.
LEMMA MemberStep ==
  ASSUME TypeOK, ModalLive, TypeOK', MemberInv, [Next]_vars
  PROVE  MemberInv' /\ (Local => StraysStay)
<1>0. ASSUME NEW ch \in Chans PROVE chan[ch] \in Chn
  BY DEF TypeOK
<1>s. Stay => MemberInv'
  BY StayKeeps
<1>u. UNCHANGED <<joined, chan>> /\ here \subseteq here' => Stay /\ StraysStay
  BY DEF Stay, StraysStay, Strays
<1>1. ASSUME NEW u \in Users, Session(u) PROVE MemberInv' /\ StraysStay
  <2>1. CASE \E a \in Accounts \cup {Empty} : Connect(u, a)
    BY <1>s, <1>u, <2>1 DEF Connect
  <2>2. CASE Depart(u)
    <3> DEFINE cs == [ch \in Chans |-> ejected(chan[ch], u)]
    <3>1. cs \in [Chans -> Chn] /\ \A ch \in Chans : ~cs[ch].live => Blank(cs[ch])
      BY <1>0, EjectedType DEF TypeOK
    <3>2. \A ch \in Chans : /\ cs[ch].members = chan[ch].members \ {u}
                            /\ cs[ch].privs = chan[ch].privs \ PrivsOf(u)
                            /\ cs[ch].invites = chan[ch].invites
      BY <1>0, EjectedType
    <3>3. chan' = drop_empty_channels(cs)
      BY <2>2 DEF Depart
    <3> HIDE DEF cs
    <3>4. \A ch \in Chans : /\ chan'[ch].members = cs[ch].members
                            /\ chan'[ch].privs \subseteq cs[ch].privs
                            /\ chan'[ch].invites \subseteq cs[ch].invites
      BY <3>1, <3>3, SweepLeaves
    <3>5. here' = here \ {u} /\ joined' = [joined EXCEPT ![u] = @ \ Chans]
      BY <2>2 DEF Depart, TypeOK
    <3>6. Exit(u, Chans)
      BY <3>2, <3>4, <3>5 DEF Exit
    <3> QED BY <3>6, ExitKeeps
  <2>3. ASSUME NEW a \in Accounts, Identify(u, a) PROVE MemberInv' /\ StraysStay
    <3>1. UNCHANGED <<here, joined>>
      BY <2>3 DEF Identify
    <3>2. Stay
      BY <2>3, <3>1, IdentifiedChannels DEF Stay
    <3>3. ASSUME NEW d \in Chans PROVE Strays(d)' \subseteq Strays(d)
      <4>1. CASE d \in joined[u]
        <5>1. u \in chan[d].members
          BY <4>1 DEF MemberInv, MembershipAgrees
        <5>2. /\ chan'[d].members = chan[d].members
              /\ chan'[d].privs \subseteq chan[d].privs \cup {<<"o", u>>}
          BY <2>3, IdentifiedChannels
        <5> QED BY <5>1, <5>2 DEF Strays
      <4>2. CASE d \notin joined[u]
        BY <2>3, <4>2, IdentifiedChannels DEF Strays
      <4> QED BY <4>1, <4>2
    <3> QED BY <1>s, <3>2, <3>3 DEF StraysStay
  <2>4. CASE (\E a \in Accounts : SaslLogin(u, a)) \/ Logout(u)
    BY <1>s, <1>u, <2>4 DEF SaslLogin, Logout
  <2> QED BY <1>1, <2>1, <2>2, <2>3, <2>4 DEF Session
<1>2. ASSUME NEW u \in Users, NEW ch \in Chans, Member(u, ch) PROVE MemberInv' /\ StraysStay
  <2>1. CASE JoinNew(u, ch)
    <3>1. chan[ch].members = {} /\ chan[ch].invites = {}
      BY <2>1 DEF JoinNew, TypeOK, Blank
    <3>2. \A d \in Chans : chan'[d] = IF d = ch THEN created(u, ch) ELSE chan[d]
      BY <2>1 DEF JoinNew, Enters, TypeOK
    <3>3. Enter(u, ch)
      BY <2>1, <3>1, <3>2, CreatedChannel DEF JoinNew, Enters, Enter, Reads, BelowCap
    <3> QED BY <3>3, EnterKeeps
  <2>2. CASE \E key \in ChanKeys \cup {Empty} : join_existing(u, ch, key)
    <3>1. \A d \in Chans : chan'[d] = IF d = ch THEN admitted(u, ch) ELSE chan[d]
      BY <2>2 DEF join_existing, Enters, TypeOK
    <3>2. Enter(u, ch)
      BY <2>2, <3>1, AdmittedChannel DEF join_existing, Enters, Enter, Reads, BelowCap
    <3> QED BY <3>2, EnterKeeps
  <2>3. ASSUME NEW v \in Users, Leaves(v, ch) PROVE MemberInv' /\ StraysStay
    <3> DEFINE cs == [chan EXCEPT ![ch] = ejected(@, v)]
    <3>1. cs \in [Chans -> Chn] /\ \A d \in Chans : ~cs[d].live => Blank(cs[d])
      BY <1>0, EjectedType DEF TypeOK
    <3>a. \A d \in Chans : cs[d] = IF d = ch THEN ejected(chan[ch], v) ELSE chan[d]
      BY DEF TypeOK
    <3>b. /\ ejected(chan[ch], v).members = chan[ch].members \ {v}
          /\ ejected(chan[ch], v).privs = chan[ch].privs \ PrivsOf(v)
          /\ ejected(chan[ch], v).invites = chan[ch].invites
      BY <1>0, EjectedType
    <3>3. chan' = drop_empty_channels(cs)
      BY <2>3 DEF Leaves
    <3> HIDE DEF cs
    <3>2. \A d \in Chans :
            /\ cs[d].members = IF d = ch THEN chan[d].members \ {v} ELSE chan[d].members
            /\ cs[d].privs = IF d = ch THEN chan[d].privs \ PrivsOf(v) ELSE chan[d].privs
            /\ cs[d].invites = chan[d].invites
      BY <3>a, <3>b
    <3>4. \A d \in Chans : /\ chan'[d].members = cs[d].members
                           /\ chan'[d].privs \subseteq cs[d].privs
                           /\ chan'[d].invites \subseteq cs[d].invites
      BY <3>1, <3>3, SweepLeaves
    <3>5. Exit(v, {ch})
      BY <2>3, <3>2, <3>4 DEF Leaves, Exit
    <3> QED BY <3>5, ExitKeeps
  <2>4. CASE Part(u, ch)
    BY <2>3, <2>4 DEF Part
  <2>5. CASE \E target \in Users : Kick(u, ch, target)
    BY <2>3, <2>5 DEF Kick
  <2>6. ASSUME NEW target \in Users, Invite(u, ch, target) PROVE MemberInv' /\ StraysStay
    <3> DEFINE c == [chan[ch] EXCEPT !.invites = @ \cup {target}]
    <3>1. /\ c \in Chn /\ c.members = chan[ch].members /\ c.privs = chan[ch].privs
          /\ c.invites = chan[ch].invites \cup {target}
      BY <1>0 DEF Chn
    <3>2. chan' = [chan EXCEPT ![ch] = c] /\ target \notin chan[ch].members
      BY <2>6 DEF Invite, is_member, TypeOK
    <3>3. UNCHANGED <<here, joined>>
      BY <2>6 DEF Invite
    <3> HIDE DEF c
    <3>4. Stay /\ StraysStay
      BY <3>1, <3>2, <3>3, StayOne
    <3> QED BY <1>s, <3>4
  <2>7. ASSUME NEW t \in Topics \cup {Empty}, Topic(u, ch, t) PROVE MemberInv' /\ StraysStay
    <3> DEFINE c == [chan[ch] EXCEPT !.topic = t]
    <3>1. /\ c \in Chn /\ c.members = chan[ch].members /\ c.privs = chan[ch].privs
          /\ c.invites = chan[ch].invites
      BY <1>0 DEF Chn
    <3>2. chan' = [chan EXCEPT ![ch] = c] /\ UNCHANGED <<here, joined>>
      BY <2>7 DEF Topic, TypeOK
    <3> HIDE DEF c
    <3>3. Stay /\ StraysStay
      BY <3>1, <3>2, StayOne
    <3> QED BY <1>s, <3>3
  <2> QED BY <1>2, <2>1, <2>2, <2>4, <2>5, <2>6, <2>7 DEF Member
<1>3. ASSUME mode_channel PROVE MemberInv' /\ StraysStay
  <2>0. ASSUME modal # Empty PROVE modal \in Chans /\ chan[modal] \in Chn
    BY <1>0, <2>0 DEF ModalLive
  <2>1. CASE \E u \in Users, ch \in Chans : ModeStart(u, ch)
    BY <1>s, <1>u, <2>1 DEF ModeStart
  <2>2. ASSUME modal # Empty, NEW c \in Chn, Applies(c),
               c.members = chan[modal].members, c.invites = chan[modal].invites,
               \A x \in c.privs \ chan[modal].privs : x[2] \in c.members
        PROVE  MemberInv' /\ StraysStay
    <3>1. modal \in Chans /\ chan' = [chan EXCEPT ![modal] = c]
          /\ UNCHANGED <<here, joined>>
      BY <2>0, <2>2 DEF Applies
    <3>2. Stay /\ StraysStay
      BY <2>2, <3>1, StayOne
    <3> QED BY <1>s, <3>2
  <2>3. ASSUME NEW on \in BOOLEAN, NEW x \in Plain \cup Lists, ModeTerm(on, x)
        PROVE  MemberInv' /\ StraysStay
    <3> DEFINE old == chan[modal]
               M   == Grant(on, old.modes, x)
               c   == [old EXCEPT !.modes = M]
    <3>1. modal # Empty /\ Applies(c)
      BY <2>3 DEF ModeTerm
    <3>2. M \in SUBSET Modes
      BY <2>0, <3>1, GrantType, ModesType DEF Chn
    <3>3. c \in Chn /\ c.members = old.members /\ c.invites = old.invites /\ c.privs = old.privs
      BY <2>0, <3>1, <3>2 DEF Chn
    <3> HIDE DEF c
    <3> QED BY <2>2, <3>1, <3>3
  <2>4. ASSUME NEW k, ModeKey(k) PROVE MemberInv' /\ StraysStay
    <3> DEFINE old == chan[modal]
               M   == rekeyed(old.modes, k)
               c   == [old EXCEPT !.modes = M]
    <3>1. modal # Empty /\ Applies(c)
      BY <2>4 DEF ModeKey
    <3>2. M \in SUBSET Modes
      BY <2>0, <3>1, ModesType DEF Chn
    <3>3. c \in Chn /\ c.members = old.members /\ c.invites = old.invites /\ c.privs = old.privs
      BY <2>0, <3>1, <3>2 DEF Chn
    <3> HIDE DEF c
    <3> QED BY <2>2, <3>1, <3>3
  <2>5. ASSUME NEW on \in BOOLEAN, NEW p \in {"o", "v"}, NEW target \in Users,
               ModePriv(on, p, target)
        PROVE  MemberInv' /\ StraysStay
    <3> DEFINE old == chan[modal]
               P   == Grant(on, old.privs, <<p, target>>)
               c   == [old EXCEPT !.privs = P]
    <3>1. modal # Empty /\ Applies(c) /\ target \in old.members
      BY <2>5 DEF ModePriv, is_member
    <3>3. <<p, target>> \in Privs
      BY DEF Privs
    <3>4. P \in SUBSET Privs /\ P \subseteq old.privs \cup {<<p, target>>}
      BY <2>0, <3>1, <3>3, GrantType, GrantAdds DEF Chn
    <3>5. c \in Chn /\ c.members = old.members /\ c.invites = old.invites /\ c.privs = P
      BY <2>0, <3>1, <3>4 DEF Chn
    <3> HIDE DEF c, P
    <3> QED BY <2>2, <3>1, <3>3, <3>4, <3>5
  <2>6. CASE ModeEnd
    <3>1. chan \in [Chans -> Chn] /\ \A d \in Chans : ~chan[d].live => Blank(chan[d])
      BY DEF TypeOK
    <3>2. \A d \in Chans : /\ chan'[d].members = chan[d].members
                           /\ chan'[d].privs \subseteq chan[d].privs
                           /\ chan'[d].invites \subseteq chan[d].invites
      BY <2>6, <3>1, SweepLeaves DEF ModeEnd
    <3>3. Stay /\ StraysStay
      BY <2>6, <3>2 DEF ModeEnd, Stay, StraysStay, Strays
    <3> QED BY <1>s, <3>3
  <2>7. CASE ModeFails
    BY <1>s, <1>u, <2>7 DEF ModeFails
  <2> QED BY <1>3, <2>1, <2>3, <2>4, <2>5, <2>6, <2>7 DEF mode_channel
<1>4. ASSUME NEW u \in Users, NEW ch \in Chans, ChanServ(u, ch) PROVE MemberInv' /\ StraysStay
  <2>1. CASE Register(u, ch) \/ Drop(u, ch)
    BY <1>s, <1>u, <2>1 DEF Register, Drop
  <2>2. CASE Op(u, ch)
    <3> DEFINE c == founder_status(chan[ch], ch, u, account[u])
    <3>1. /\ c \in Chn /\ c.members = chan[ch].members /\ c.invites = chan[ch].invites
          /\ c.privs \subseteq chan[ch].privs \cup {<<"o", u>>}
      BY <1>0, FounderStatus
    <3>2. /\ chan' = [chan EXCEPT ![ch] = c] /\ UNCHANGED <<here, joined>>
          /\ u \in chan[ch].members
      BY <2>2 DEF Op, is_member
    <3>a. \A x \in c.privs \ chan[ch].privs : x[2] \in c.members
      BY <3>1, <3>2
    <3> HIDE DEF c
    <3>3. Stay /\ StraysStay
      BY <3>1, <3>2, <3>a, StayOne
    <3> QED BY <1>s, <3>3
  <2> QED BY <1>4, <2>1, <2>2 DEF ChanServ
<1>5. ASSUME NEW ch \in Chans, Link(ch) PROVE MemberInv'
  <2>0. ASSUME NEW c \in Chn, RemoteChange(ch, c),
               c.members = chan[ch].members, c.invites = chan[ch].invites
        PROVE  MemberInv'
    <3>1. Stay
      BY <2>0, StayOne DEF RemoteChange
    <3> QED BY <1>s, <3>1
  <2>1. CASE \E r \in Remotes : RemoteJoin(ch, r)
    BY <1>s, <1>u, <2>1 DEF RemoteJoin
  <2>2. ASSUME NEW R \in SUBSET Remotes, NEW lose \in BOOLEAN, RemoteChannel(ch, R, lose)
        PROVE  MemberInv'
    <3>0. UNCHANGED <<here, joined>>
      BY <2>2 DEF RemoteChannel
    <3>1. CASE chan[ch].live /\ lose
      <4> DEFINE c == [chan[ch] EXCEPT !.modes = {}, !.privs = {}]
      <4>1. c \in Chn /\ c.members = chan[ch].members /\ c.invites = chan[ch].invites /\ c.privs = {}
        BY <1>0 DEF Chn
      <4>2. chan' = [chan EXCEPT ![ch] = c]
        BY <2>2, <3>1 DEF RemoteChannel, TypeOK
      <4> HIDE DEF c
      <4>3. Stay
        BY <3>0, <4>1, <4>2, StayOne
      <4> QED BY <1>s, <4>3
    <3>2. CASE chan[ch].live /\ ~lose
      BY <1>s, <1>u, <2>2, <3>2 DEF RemoteChannel
    <3>3. CASE ~chan[ch].live
      <4>1. chan' = [chan EXCEPT ![ch] = NewChan]
        BY <2>2, <3>3 DEF RemoteChannel
      <4>2. NewChan.members = {} /\ NewChan.invites = {} /\ NewChan.privs = {}
        BY DEF NewChan, NoChan
      <4>3. chan[ch].members = {}
        BY <3>3 DEF TypeOK, Blank
      <4>4. Stay
        BY <3>0, <4>1, <4>2, <4>3, ChanTypes, StayOne
      <4> QED BY <1>s, <4>4
    <3> QED BY <3>1, <3>2, <3>3
  <2>3. ASSUME NEW on \in BOOLEAN, NEW x \in Plain \cup Lists, RemoteMode(ch, on, x)
        PROVE  MemberInv'
    <3> DEFINE M == Grant(on, chan[ch].modes, x)
               c == [chan[ch] EXCEPT !.modes = M]
    <3>1. M \in SUBSET Modes
      BY <1>0, GrantType, ModesType DEF Chn
    <3>2. /\ c \in Chn /\ c.members = chan[ch].members /\ c.invites = chan[ch].invites
          /\ c.privs = chan[ch].privs
      BY <1>0, <3>1 DEF Chn
    <3>3. RemoteChange(ch, c)
      BY <2>3 DEF RemoteMode
    <3> HIDE DEF c
    <3> QED BY <2>0, <3>2, <3>3
  <2>4. ASSUME NEW k, RemoteKey(ch, k) PROVE MemberInv'
    <3> DEFINE M == rekeyed(chan[ch].modes, k)
               c == [chan[ch] EXCEPT !.modes = M]
    <3>1. M \in SUBSET Modes
      BY <1>0, ModesType DEF Chn
    <3>2. /\ c \in Chn /\ c.members = chan[ch].members /\ c.invites = chan[ch].invites
          /\ c.privs = chan[ch].privs
      BY <1>0, <3>1 DEF Chn
    <3>3. RemoteChange(ch, c)
      BY <2>4 DEF RemoteKey
    <3> HIDE DEF c
    <3> QED BY <2>0, <3>2, <3>3
  <2>5. ASSUME NEW on \in BOOLEAN, NEW p \in {"o", "v"}, NEW u \in Users,
               RemotePriv(ch, on, p, u)
        PROVE  MemberInv'
    <3> DEFINE P == Grant(on, chan[ch].privs, <<p, u>>)
               c == [chan[ch] EXCEPT !.privs = P]
    <3>1. RemoteChange(ch, c) /\ <<p, u>> \in Privs
      BY <2>5 DEF RemotePriv, Privs
    <3>2. P \in SUBSET Privs
      BY <1>0, <3>1, GrantType DEF Chn
    <3>3. c \in Chn /\ c.members = chan[ch].members /\ c.invites = chan[ch].invites
      BY <1>0, <3>2 DEF Chn
    <3> HIDE DEF c, P
    <3> QED BY <2>0, <3>1, <3>2, <3>3
  <2>6. ASSUME NEW t \in Topics \cup {Empty}, RemoteTopic(ch, t) PROVE MemberInv'
    <3> DEFINE c == [chan[ch] EXCEPT !.topic = t]
    <3>1. /\ c \in Chn /\ c.members = chan[ch].members /\ c.invites = chan[ch].invites
          /\ c.privs = chan[ch].privs
      BY <1>0 DEF Chn
    <3>2. RemoteChange(ch, c)
      BY <2>6 DEF RemoteTopic
    <3> HIDE DEF c
    <3> QED BY <2>0, <3>1, <3>2
  <2> QED BY <1>5, <2>1, <2>2, <2>3, <2>4, <2>5, <2>6 DEF Link
<1>6. CASE \E C \in SUBSET Chans, R \in SUBSET Remotes : RemotesLeave(C, R)
  BY <1>s, <1>u, <1>6 DEF RemotesLeave
<1>7. ASSUME Restart PROVE MemberInv'
  <2>1. \A d \in Chans : chan'[d].members = {} /\ chan'[d].privs = {}
    BY <1>7 DEF Restart, NoChan
  <2>2. \A u \in Users : joined'[u] = {}
    BY <1>7 DEF Restart
  <2>3. MembershipAgrees' /\ InviteSpent'
    BY <2>1, <2>2 DEF MembershipAgrees, InviteSpent
  <2>4. WithinCap'
    BY <2>2, CapAssumption, FS_EmptySet DEF WithinCap
  <2> QED BY <2>3, <2>4 DEF MemberInv
<1>8. UNCHANGED vars => MemberInv'
  BY <1>s, <1>u DEF vars
<1>9. ASSUME Local PROVE MemberInv' /\ StraysStay
  BY <1>1, <1>2, <1>3, <1>4, <1>9 DEF Local
<1> QED BY <1>5, <1>6, <1>7, <1>8, <1>9 DEF Next

\* The invariant of all reachable states.
LEMMA MemberAlways == Spec => [](TypeOK /\ ModalLive /\ MemberInv)
<1>1. Init => TypeOK /\ ModalLive /\ MemberInv
  <2> SUFFICES ASSUME Init PROVE TypeOK /\ ModalLive /\ MemberInv
    OBVIOUS
  <2>1. Blank(NoChan) /\ NoChan.members = {} /\ NoChan.privs = {}
    BY DEF Blank, NoChan
  <2>2. TypeOK /\ ModalLive
    BY <2>1, ChanTypes DEF Init, TypeOK, ModalLive
  <2>3. MembershipAgrees /\ InviteSpent
    BY <2>1 DEF Init, MembershipAgrees, InviteSpent
  <2>4. WithinCap
    BY CapAssumption, FS_EmptySet DEF Init, WithinCap
  <2> QED BY <2>2, <2>3, <2>4 DEF MemberInv
<1>2. TypeOK /\ ModalLive /\ MemberInv /\ [Next]_vars => (TypeOK /\ ModalLive /\ MemberInv)'
  BY TypeStep, MemberStep DEF MemberInv
<1> QED BY <1>1, <1>2, PTL DEF Spec

\* Types are kept, and a channel that is gone leaves nothing behind.
THEOREM ChannelTypes == Spec => []TypeOK
BY MemberAlways, PTL

\* Both sides of membership agree, for any users, channels and modes: what
\* JOIN, PART, KICK, the end of a session and links must keep.
THEOREM Membership == Spec => []MembershipAgrees
<1>1. MemberInv => MembershipAgrees
  BY DEF MemberInv
<1> QED BY <1>1, MemberAlways, PTL

\* Whoever leaves, by PART, KICK, QUIT or eviction, takes their privileges
\* along, and no command grants one to somebody outside the channel.
THEOREM PrivilegesFollow == Spec => NoStrays
<1>1. TypeOK /\ ModalLive /\ MemberInv /\ [Next]_vars =>
        [ (\A ch \in Chans : Strays(ch)' \subseteq Strays(ch)) \/ ~Local ]_vars
  BY TypeStep, MemberStep DEF MemberInv, StraysStay
<1> QED BY <1>1, MemberAlways, PTL DEF Spec, NoStrays

\* Nobody is in more than MAX_CHANNELS channels, by either way in.
THEOREM ChannelCap == Spec => []WithinCap
<1>1. MemberInv => WithinCap
  BY DEF MemberInv
<1> QED BY <1>1, MemberAlways, PTL

\* No member has an invitation left: consume_invite and INVITE's check see
\* to it, through KICK, PART and re-entry.
THEOREM InvitationsSpent == Spec => []InviteSpent
<1>1. MemberInv => InviteSpent
  BY DEF MemberInv
<1> QED BY <1>1, MemberAlways, PTL

-----------------------------------------------------------------------------
(* What a step may not do                                                  *)

\* After a sweep, every channel that is left has a member somewhere.
LEMMA SweptLive ==
  ASSUME NEW cs, NEW ch \in Chans, drop_empty_channels(cs)[ch].live
  PROVE  cs[ch].members \cup remote[ch] # {} /\ drop_empty_channels(cs)[ch] = cs[ch]
<1>1. ~NoChan.live
  BY DEF NoChan
<1> QED BY <1>1 DEF drop_empty_channels

Inhabited == \A ch \in Chans : chan'[ch].live => chan'[ch].members \cup remote'[ch] # {}

Shrinks == \E u \in here : joined'[u] # joined[u] /\ joined'[u] \subseteq joined[u]

\* Only the steps that sweep make anybody's list of channels shorter.
LEMMA ShrinkSweeps ==
  ASSUME TypeOK, ModalLive, [Next]_vars, Shrinks PROVE Inhabited
<1>1. joined' # joined
  BY DEF Shrinks
<1>2. ASSUME NEW u \in Users, NEW ch \in Chans, NEW c, Enters(u, ch, c) PROVE FALSE
  BY <1>2 DEF Enters, Shrinks, TypeOK
<1>3. ASSUME NEW cs, chan' = drop_empty_channels(cs), remote' = remote PROVE Inhabited
  BY <1>3, SweptLive DEF Inhabited
<1>4. ASSUME NEW u \in Users, Session(u) PROVE Inhabited
  <2>1. Depart(u)
    BY <1>1, <1>4 DEF Session, Connect, Identify, SaslLogin, Logout
  <2> QED BY <1>3, <2>1 DEF Depart
<1>5. ASSUME NEW u \in Users, NEW ch \in Chans, Member(u, ch) PROVE Inhabited
  <2>1. CASE JoinNew(u, ch) \/ \E key \in ChanKeys \cup {Empty} : join_existing(u, ch, key)
    BY <1>2, <2>1 DEF JoinNew, join_existing
  <2>2. CASE Part(u, ch)
    BY <1>3, <2>2 DEF Part, Leaves
  <2>3. CASE \E target \in Users : Kick(u, ch, target)
    BY <1>3, <2>3 DEF Kick, Leaves
  <2>4. CASE (\E target \in Users : Invite(u, ch, target))
             \/ \E t \in Topics \cup {Empty} : Topic(u, ch, t)
    BY <1>1, <2>4 DEF Invite, Topic
  <2> QED BY <1>5, <2>1, <2>2, <2>3, <2>4 DEF Member
<1>6. ASSUME mode_channel PROVE FALSE
  BY <1>1, <1>6 DEF mode_channel, ModeStart, ModeTerm, ModeKey, ModePriv, Applies, ModeEnd,
     ModeFails
<1>7. ASSUME NEW u \in Users, NEW ch \in Chans, ChanServ(u, ch) PROVE FALSE
  BY <1>1, <1>7 DEF ChanServ, Register, Drop, Op
<1>8. ASSUME NEW ch \in Chans, Link(ch) PROVE FALSE
  BY <1>1, <1>8 DEF Link, RemoteJoin, RemoteChannel, RemoteMode, RemoteKey, RemotePriv,
     RemoteTopic, RemoteChange
<1>9. ASSUME NEW C, NEW R, RemotesLeave(C, R) PROVE FALSE
  BY <1>1, <1>9 DEF RemotesLeave
<1>10. ASSUME Restart PROVE Inhabited
  BY <1>10 DEF Restart, Inhabited, NoChan
<1>11. ASSUME Local PROVE Inhabited
  BY <1>4, <1>5, <1>6, <1>7, <1>11 DEF Local
<1> QED BY <1>1, <1>8, <1>9, <1>10, <1>11 DEF Next, vars

\* Whoever leaves takes the channels that they empty along.
THEOREM Swept == Spec => LeaversSweep
<1>1. TypeOK /\ ModalLive /\ MemberInv /\ [Next]_vars =>
        [Shrinks => Inhabited]_vars
  BY ShrinkSweeps
<1>2. TypeOK /\ ModalLive /\ MemberInv /\ [Next]_vars =>
        [ (\E u \in here : joined'[u] # joined[u] /\ joined'[u] \subseteq joined[u])
          => \A ch \in Chans : chan'[ch].live => chan'[ch].members \cup remote'[ch] # {} ]_vars
  BY <1>1 DEF Shrinks, Inhabited
<1> QED BY <1>2, MemberAlways, PTL DEF Spec, LeaversSweep

\* A step that leaves the registry alone, and the topics of channels that live.
TopicsStay ==
  /\ UNCHANGED <<founder, saved>>
  /\ \A ch \in Chans : chan'[ch].live => chan[ch].live /\ chan'[ch].topic = chan[ch].topic

\* A step that grants no privilege.
PrivsStay == \A ch \in Chans : chan'[ch].privs \subseteq chan[ch].privs

\* A step that grants none but the founder's.
FounderOnly ==
  \A ch \in Chans, u \in Users :
    is_registered(ch) /\ ~is_op(u, ch) /\ is_op(u, ch)' => is_founder(u, ch)'

TopicsAgree == \A ch \in Chans : TopicAgrees(ch) => TopicAgrees(ch)'

\* A topic that stays the same agrees with the saved one as before.
LEMMA TopicsStayAgree == ASSUME TopicsStay PROVE TopicsAgree
BY DEF TopicsStay, TopicsAgree, TopicAgrees, is_registered

\* Where no privilege is granted nobody becomes operator.
LEMMA PrivsStayOnly == ASSUME PrivsStay PROVE FounderOnly
BY DEF PrivsStay, FounderOnly, is_op

\* What a sweep leaves has the topic and the privileges it had.
LEMMA SweepStays ==
  ASSUME NEW cs, chan' = drop_empty_channels(cs), UNCHANGED <<founder, saved>>,
         \A ch \in Chans : /\ cs[ch].live = chan[ch].live /\ cs[ch].topic = chan[ch].topic
                           /\ cs[ch].privs \subseteq chan[ch].privs
  PROVE  TopicsStay /\ PrivsStay
<1>1. TopicsStay
  BY SweptLive DEF TopicsStay
<1>2. PrivsStay
  <2>1. NoChan.privs = {}
    BY DEF NoChan
  <2> QED BY <2>1 DEF PrivsStay, drop_empty_channels
<1> QED BY <1>1, <1>2

\* Eject keeps the topic.
LEMMA EjectedTopic ==
  ASSUME NEW c \in Chn, NEW u PROVE ejected(c, u).topic = c.topic
BY DEF ejected, Chn

\* founder_status keeps the topic, and grants to the founder only.
LEMMA FounderTopic ==
  ASSUME NEW c \in Chn, NEW u, NEW ch, NEW a
  PROVE  /\ founder_status(c, ch, u, a).topic = c.topic
         /\ ~(is_registered(ch) /\ a = founder[ch]) => founder_status(c, ch, u, a) = c
BY DEF founder_status, Chn

\* A step that changes one channel, by the status of a user in it who is
\* identified for the account of the founder, if at all.
LEMMA StatusOnly ==
  ASSUME TypeOK, NEW ch \in Chans, NEW u \in Users, NEW c, UNCHANGED founder,
         chan' = [chan EXCEPT ![ch] = c],
         c.privs \subseteq chan[ch].privs \cup {<<"o", u>>},
         is_registered(ch) /\ account'[u] # founder[ch] => c.privs \subseteq chan[ch].privs
  PROVE  FounderOnly
<1>1. \A d \in Chans : chan'[d] = IF d = ch THEN c ELSE chan[d]
  BY DEF TypeOK
<1> SUFFICES ASSUME NEW d \in Chans, NEW v \in Users, is_registered(d), ~is_op(v, d), is_op(v, d)'
             PROVE  is_founder(v, d)'
  BY DEF FounderOnly
<1>2. d = ch /\ v = u
  BY <1>1 DEF is_op
<1>3. ~(c.privs \subseteq chan[ch].privs)
  BY <1>1, <1>2 DEF is_op
<1> QED BY <1>2, <1>3 DEF is_founder, is_registered

\* Sessions.
LEMMA SessionStep ==
  ASSUME TypeOK, MembershipAgrees, NEW u \in Users, Session(u)
  PROVE  TopicsStay /\ FounderOnly
<1>0. ASSUME NEW ch \in Chans PROVE chan[ch] \in Chn
  BY DEF TypeOK
<1>1. CASE \E a \in Accounts \cup {Empty} : Connect(u, a)
  BY <1>1, PrivsStayOnly DEF Connect, TopicsStay, PrivsStay
<1>2. CASE Depart(u)
  <2> DEFINE cs == [ch \in Chans |-> ejected(chan[ch], u)]
  <2>1. \A ch \in Chans : /\ cs[ch].live = chan[ch].live /\ cs[ch].topic = chan[ch].topic
                          /\ cs[ch].privs \subseteq chan[ch].privs
    BY <1>0, EjectedType, EjectedTopic
  <2>2. chan' = drop_empty_channels(cs) /\ UNCHANGED <<founder, saved>>
    BY <1>2 DEF Depart
  <2> HIDE DEF cs
  <2> QED BY <2>1, <2>2, SweepStays, PrivsStayOnly
<1>3. ASSUME NEW a \in Accounts, Identify(u, a) PROVE TopicsStay /\ FounderOnly
  <2>1. \A ch \in Chans : chan'[ch] = IF ch \in joined[u]
                                        THEN founder_status(chan[ch], ch, u, a) ELSE chan[ch]
    BY <1>3 DEF Identify
  <2>2. UNCHANGED <<founder, saved>> /\ account'[u] = a
    BY <1>3 DEF Identify, TypeOK
  <2>3. TopicsStay
    BY <1>0, <2>1, <2>2, FounderStatus, FounderTopic DEF TopicsStay
  <2>4. FounderOnly
    <3> SUFFICES ASSUME NEW d \in Chans, NEW v \in Users,
                        is_registered(d), ~is_op(v, d), is_op(v, d)'
                 PROVE  is_founder(v, d)'
      BY DEF FounderOnly
    <3>1. chan'[d] # chan[d]
      BY DEF is_op
    <3>2. a = founder[d] /\ chan'[d] = founder_status(chan[d], d, u, a)
      BY <1>0, <2>1, <3>1, FounderTopic
    <3>3. v = u
      BY <1>0, <3>2, FounderStatus DEF is_op
    <3> QED BY <2>2, <3>2, <3>3 DEF is_founder, is_registered
  <2> QED BY <2>3, <2>4
<1>4. CASE (\E a \in Accounts : SaslLogin(u, a)) \/ Logout(u)
  BY <1>4, PrivsStayOnly DEF SaslLogin, Logout, TopicsStay, PrivsStay
<1> QED BY <1>1, <1>2, <1>3, <1>4 DEF Session

\* JOIN, PART, KICK, INVITE, TOPIC.
LEMMA MemberSteps ==
  ASSUME TypeOK, MembershipAgrees, NEW u \in Users, NEW ch \in Chans, Member(u, ch)
  PROVE  TopicsAgree /\ FounderOnly
<1>0. ASSUME NEW d \in Chans PROVE chan[d] \in Chn
  BY DEF TypeOK
<1>1. CASE JoinNew(u, ch)
  <2>0. /\ ~chan[ch].live /\ chan' = [chan EXCEPT ![ch] = created(u, ch)]
        /\ UNCHANGED <<account, founder, saved>>
    BY <1>1 DEF JoinNew, Enters
  <2>1. CASE is_registered(ch)
    <3> DEFINE c == [NewChan EXCEPT !.members = {u}, !.topic = saved[ch]]
    <3>1. c \in Chn /\ c.privs = {} /\ c.topic = saved[ch]
      BY DEF TypeOK, NewChan, NoChan, Chn
    <3>2. created(u, ch) = founder_status(c, ch, u, account[u])
      BY <2>1 DEF created
    <3> HIDE DEF c
    <3>3. /\ created(u, ch).topic = saved[ch]
          /\ created(u, ch).privs \subseteq {<<"o", u>>}
          /\ account[u] # founder[ch] => created(u, ch).privs = {}
      BY <3>1, <3>2, FounderStatus, FounderTopic
    <3>4. FounderOnly
      BY <2>0, <2>1, <3>3, StatusOnly
    <3>5. TopicsAgree
      BY <2>0, <3>3 DEF TopicsAgree, TopicAgrees, is_registered, TypeOK
    <3> QED BY <3>4, <3>5
  <2>2. CASE ~is_registered(ch)
    <3>1. created(u, ch).privs \subseteq {<<"o", u>>}
      BY CreatedChannel
    <3>2. FounderOnly
      BY <2>0, <2>2, <3>1, StatusOnly
    <3>3. TopicsAgree
      BY <2>0, <2>2 DEF TopicsAgree, TopicAgrees, is_registered, TypeOK
    <3> QED BY <3>2, <3>3
  <2> QED BY <2>1, <2>2
<1>2. ASSUME NEW key, join_existing(u, ch, key) PROVE TopicsAgree /\ FounderOnly
  <2> DEFINE c == [chan[ch] EXCEPT !.members = @ \cup {u}, !.invites = @ \ {u}]
  <2>0. /\ chan[ch].live /\ chan' = [chan EXCEPT ![ch] = admitted(u, ch)]
        /\ UNCHANGED <<account, founder, saved>>
    BY <1>2 DEF join_existing, Enters
  <2>1. c \in Chn /\ c.privs = chan[ch].privs /\ c.topic = chan[ch].topic
    BY <1>0 DEF Chn
  <2>2. admitted(u, ch) = founder_status(c, ch, u, account[u])
    BY DEF admitted
  <2> HIDE DEF c
  <2>3. /\ admitted(u, ch).topic = chan[ch].topic
        /\ admitted(u, ch).privs \subseteq chan[ch].privs \cup {<<"o", u>>}
        /\ account[u] # founder[ch] => admitted(u, ch).privs = chan[ch].privs
    BY <2>1, <2>2, FounderStatus, FounderTopic
  <2>4. FounderOnly
    BY <2>0, <2>3, StatusOnly
  <2>5. TopicsStay
    BY <2>0, <2>3 DEF TopicsStay, TypeOK
  <2> QED BY <2>4, <2>5, TopicsStayAgree
<1>3. ASSUME NEW v \in Users, Leaves(v, ch) PROVE TopicsAgree /\ FounderOnly
  <2> DEFINE cs == [chan EXCEPT ![ch] = ejected(@, v)]
  <2>1. \A d \in Chans : cs[d] = IF d = ch THEN ejected(chan[d], v) ELSE chan[d]
    BY DEF TypeOK
  <2>2. chan' = drop_empty_channels(cs) /\ UNCHANGED <<founder, saved>>
    BY <1>3 DEF Leaves
  <2> HIDE DEF cs
  <2>3. \A d \in Chans : /\ cs[d].live = chan[d].live /\ cs[d].topic = chan[d].topic
                         /\ cs[d].privs \subseteq chan[d].privs
    BY <1>0, <2>1, EjectedType, EjectedTopic
  <2> QED BY <2>2, <2>3, SweepStays, PrivsStayOnly, TopicsStayAgree
<1>4. CASE Part(u, ch) \/ \E target \in Users : Kick(u, ch, target)
  BY <1>3, <1>4 DEF Part, Kick
<1>5. ASSUME NEW target \in Users, Invite(u, ch, target) PROVE TopicsAgree /\ FounderOnly
  <2>1. \A d \in Chans : /\ chan'[d].live = chan[d].live /\ chan'[d].topic = chan[d].topic
                         /\ chan'[d].privs = chan[d].privs
    BY <1>0, <1>5 DEF Invite, TypeOK, Chn
  <2>2. TopicsStay /\ PrivsStay
    BY <1>5, <2>1 DEF Invite, TopicsStay, PrivsStay
  <2> QED BY <2>2, PrivsStayOnly, TopicsStayAgree
<1>6. ASSUME NEW t \in Topics \cup {Empty}, Topic(u, ch, t) PROVE TopicsAgree /\ FounderOnly
  <2>1. \A d \in Chans : /\ chan'[d].live = chan[d].live /\ chan'[d].privs = chan[d].privs
                         /\ chan'[d].topic = IF d = ch THEN t ELSE chan[d].topic
    BY <1>0, <1>6 DEF Topic, TypeOK, Chn
  <2>2. \A d \in Chans : saved'[d] = IF d = ch /\ is_registered(d) THEN t ELSE saved[d]
    BY <1>6 DEF Topic, TypeOK
  <2>3. TopicsAgree
    BY <1>6, <2>1, <2>2 DEF Topic, TopicsAgree, TopicAgrees, is_registered
  <2> QED BY <2>1, <2>3, PrivsStayOnly DEF PrivsStay
<1> QED BY <1>1, <1>2, <1>4, <1>5, <1>6 DEF Member

\* MODE: topics stay, and what it grants is granted by an operator.
LEMMA ModeSteps ==
  ASSUME TypeOK, ModalLive, mode_channel
  PROVE  TopicsStay /\ (FounderOnly \/ modal # Empty)
<1>0. ASSUME NEW d \in Chans PROVE chan[d] \in Chn
  BY DEF TypeOK
<1>1. CASE \E u \in Users, ch \in Chans : ModeStart(u, ch)
  BY <1>1, PrivsStayOnly DEF ModeStart, TopicsStay, PrivsStay
<1>2. ASSUME modal # Empty, NEW c, Applies(c), c.live = chan[modal].live,
             c.topic = chan[modal].topic
      PROVE  TopicsStay /\ modal # Empty
  BY <1>2 DEF Applies, TopicsStay, ModalLive, TypeOK
<1>3. modal # Empty => chan[modal] \in Chn
  BY <1>0 DEF ModalLive
<1>4. ASSUME NEW on \in BOOLEAN, NEW m \in Plain \cup Lists, ModeTerm(on, m)
      PROVE  TopicsStay /\ modal # Empty
  <2> DEFINE c == [chan[modal] EXCEPT !.modes = Grant(on, @, m)]
  <2>1. modal # Empty /\ Applies(c)
    BY <1>4 DEF ModeTerm
  <2>2. c.live = chan[modal].live /\ c.topic = chan[modal].topic
    BY <1>3, <2>1 DEF Chn
  <2> HIDE DEF c
  <2> QED BY <1>2, <2>1, <2>2
<1>5. ASSUME NEW k, ModeKey(k) PROVE TopicsStay /\ modal # Empty
  <2> DEFINE c == [chan[modal] EXCEPT !.modes = rekeyed(@, k)]
  <2>1. modal # Empty /\ Applies(c)
    BY <1>5 DEF ModeKey
  <2>2. c.live = chan[modal].live /\ c.topic = chan[modal].topic
    BY <1>3, <2>1 DEF Chn
  <2> HIDE DEF c
  <2> QED BY <1>2, <2>1, <2>2
<1>6. ASSUME NEW on \in BOOLEAN, NEW p \in {"o", "v"}, NEW target \in Users,
             ModePriv(on, p, target)
      PROVE  TopicsStay /\ modal # Empty
  <2> DEFINE c == [chan[modal] EXCEPT !.privs = Grant(on, @, <<p, target>>)]
  <2>1. modal # Empty /\ Applies(c)
    BY <1>6 DEF ModePriv
  <2>2. c.live = chan[modal].live /\ c.topic = chan[modal].topic
    BY <1>3, <2>1 DEF Chn
  <2> HIDE DEF c
  <2> QED BY <1>2, <2>1, <2>2
<1>7. CASE ModeEnd
  <2>1. chan' = drop_empty_channels(chan) /\ UNCHANGED <<founder, saved>> /\ modal # Empty
    BY <1>7 DEF ModeEnd
  <2> QED BY <2>1, SweepStays
<1>8. CASE ModeFails
  BY <1>8 DEF ModeFails, TopicsStay
<1> QED BY <1>1, <1>4, <1>5, <1>6, <1>7, <1>8 DEF mode_channel

\* ChanServ.
LEMMA ChanServSteps ==
  ASSUME TypeOK, NEW u \in Users, NEW ch \in Chans, ChanServ(u, ch)
  PROVE  TopicsAgree /\ FounderOnly
<1>1. CASE Register(u, ch) \/ Drop(u, ch)
  <2>1. chan' = chan
    BY <1>1 DEF Register, Drop
  <2>2. TopicsAgree
    BY <1>1 DEF Register, Drop, TopicsAgree, TopicAgrees, is_registered, TypeOK
  <2> QED BY <2>1, <2>2, PrivsStayOnly DEF PrivsStay
<1>2. CASE Op(u, ch)
  <2> DEFINE c == founder_status(chan[ch], ch, u, account[u])
  <2>1. /\ c.live = chan[ch].live /\ c.topic = chan[ch].topic
        /\ c.privs \subseteq chan[ch].privs \cup {<<"o", u>>}
    BY FounderStatus, FounderTopic DEF TypeOK
  <2>2. /\ chan' = [chan EXCEPT ![ch] = c] /\ UNCHANGED <<account, founder, saved>>
        /\ account[u] = founder[ch]
    BY <1>2 DEF Op, is_founder
  <2> HIDE DEF c
  <2>3. TopicsStay
    BY <2>1, <2>2 DEF TopicsStay, TypeOK
  <2>4. FounderOnly
    BY <2>1, <2>2, StatusOnly
  <2> QED BY <2>3, <2>4, TopicsStayAgree
<1> QED BY <1>1, <1>2 DEF ChanServ

\* A local step keeps topics in agreement, and nobody but the founder gets
\* operator status unless a MODE command gives it.
LEMMA LocalSteps ==
  ASSUME TypeOK, ModalLive, MemberInv, Local
  PROVE  TopicsAgree /\ (FounderOnly \/ modal # Empty)
<1>1. MembershipAgrees
  BY DEF MemberInv
<1> QED BY <1>1, SessionStep, MemberSteps, ModeSteps, ChanServSteps, TopicsStayAgree DEF Local

\* The persisted topic of a registered channel and the one in use never part
\* ways by what local users do.
THEOREM TopicsKept == Spec => TopicKept
<1>1. TypeOK /\ ModalLive /\ MemberInv =>
        [ (\A ch \in Chans : TopicAgrees(ch) => TopicAgrees(ch)') \/ ~Local ]_vars
  BY LocalSteps DEF TopicsAgree
<1> QED BY <1>1, MemberAlways, PTL DEF TopicKept

\* On a registered channel nobody but the founder becomes operator without an
\* operator's MODE, whether the channel empties and is created again, its
\* founder identifies late, or accounts come and go.
THEOREM OwnershipKept == Spec => Ownership
<1>1. TypeOK /\ ModalLive /\ MemberInv =>
        [ \/ \A ch \in Chans, u \in Users :
               is_registered(ch) /\ ~is_op(u, ch) /\ is_op(u, ch)'
               => is_founder(u, ch)' \/ modal # Empty
          \/ ~Local ]_vars
  BY LocalSteps DEF FounderOnly
<1> QED BY <1>1, MemberAlways, PTL DEF Ownership

=============================================================================
