------------------------------ MODULE Channels ------------------------------
(***************************************************************************)
(* The channels of one server: JOIN, PART, KICK, INVITE, TOPIC, MODE, what *)
(* ChanServ keeps of a registered channel, what the end of a session takes *)
(* away, and what a linked server may deliver at any moment.               *)
(*                                                                         *)
(* A handler is one critical section, so an action is a whole handler; a   *)
(* JOIN or PART of a list is that many actions in a row.  MODE applies its *)
(* terms one after another and may stop at a bad one, so it is several     *)
(* steps, during which it has the lock (modal).                            *)
(*                                                                         *)
(* A mask is the set of users it matches.  The clocks of two servers are   *)
(* not related, so either outcome of a timestamp comparison may occur.  A  *)
(* user stands for a connection id, which is handed out once between two   *)
(* starts, and for the UUID it gets at registration, if a link is up then: *)
(* forget_local has no caller, so the id of a user who has left is still   *)
(* found by its UUID.                                                      *)
(***************************************************************************)
EXTENDS Naturals, FiniteSets

CONSTANTS Users,        \* connection ids of local users
          Remotes,      \* users of linked servers; {} when there is no link
          Chans,        \* channel keys
          Accounts,     \* services accounts
          Flags,        \* the modes without argument: i n p s t m R
          Masks,        \* +b, +e and +I masks: sets of users
          ChanKeys,     \* +k values
          Topics,       \* non-empty topics
          Empty,        \* the empty string, the absent Option, no argument, no channel
          MaxChannels   \* cmds::MAX_CHANNELS

ASSUME FlagAssumption  == Flags \subseteq {"i", "n", "p", "s", "t", "m", "R"}
ASSUME MaskAssumption  == Masks \subseteq SUBSET Users
ASSUME EmptyAssumption == Empty \notin Accounts \cup Topics \cup ChanKeys \cup Chans
ASSUME CapAssumption   == MaxChannels \in Nat
ASSUME FiniteAssumption == IsFiniteSet(Chans)

VARIABLES
  ids,      \* the connection ids handed out; network.local_uuids knows them
  here,     \* the registered local users
  account,  \* Cx.account
  joined,   \* Cx.chans
  chan,     \* ServerState.chans
  remote,   \* network.members_of: the remote members of each channel
  founder,  \* chanreg: the founder of each registered channel
  saved,    \* chanreg: its persisted topic
  modal     \* the channel of the MODE command under way, Empty if there is none

vars == <<ids, here, account, joined, chan, remote, founder, saved, modal>>

Mode(m, arg) == [mode |-> m, arg |-> arg]
Plain == { Mode(f, Empty) : f \in Flags }                 \* set_flag
Lists == { Mode(l, m) : l \in {"b", "e", "I"}, m \in Masks }
Keyed == { Mode("k", k) : k \in ChanKeys }
Modes == Plain \cup Lists \cup Keyed

Privs == {"o", "v"} \X Users

Chn    == [live : BOOLEAN, members : SUBSET Users, privs : SUBSET Privs,
           invites : SUBSET Users, modes : SUBSET Modes,
           topic : Topics \cup {Empty}]
NoChan == [live |-> FALSE, members |-> {}, privs |-> {}, invites |-> {},
           modes |-> {}, topic |-> Empty]
NewChan == [NoChan EXCEPT !.live = TRUE]

Blank(c) == /\ c.members = {} /\ c.privs = {} /\ c.invites = {}
            /\ c.modes = {} /\ c.topic = Empty

TypeOK ==
  /\ ids \in SUBSET Users /\ here \in SUBSET ids
  /\ account \in [Users -> Accounts \cup {Empty}]
  /\ joined \in [Users -> SUBSET Chans]
  /\ chan \in [Chans -> Chn]
  /\ \A ch \in Chans : ~chan[ch].live => Blank(chan[ch])
  /\ remote \in [Chans -> SUBSET Remotes]
  /\ founder \in [Chans -> Accounts \cup {Empty}]
  /\ saved \in [Chans -> Topics \cup {Empty}]
  /\ modal \in Chans \cup {Empty}

Init ==
  /\ ids = {} /\ here = {}
  /\ account = [u \in Users |-> Empty]
  /\ joined = [u \in Users |-> {}]
  /\ chan = [ch \in Chans |-> NoChan]
  /\ remote = [ch \in Chans |-> {}]
  /\ founder = [ch \in Chans |-> Empty]
  /\ saved = [ch \in Chans |-> Empty]
  /\ modal = Empty

-----------------------------------------------------------------------------
(* Reading a channel                                                       *)

\* A line of u reaches its handler.
Reads(u) == modal = Empty /\ u \in here

is_member(u, ch)     == u \in chan[ch].members
is_op(u, ch)         == <<"o", u>> \in chan[ch].privs
is_founder(u, ch)    == founder[ch] # Empty /\ account[u] = founder[ch]
is_registered(ch)    == founder[ch] # Empty
flag_is_set(f, ch)   == Mode(f, Empty) \in chan[ch].modes
list_match(l, u, ch) == \E m \in Masks : u \in m /\ Mode(l, m) \in chan[ch].modes

PrivsOf(u) == {"o", "v"} \X {u}
Grant(on, S, x) == IF on THEN S \cup {x} ELSE S \ {x}

\* Mutant: the member goes and the privileges stay.
ejected_keeping_status(c, u) == [c EXCEPT !.members = @ \ {u}]

\* Chn::eject: the member goes with its privileges, and keeps its invitation.
ejected(c, u) == [c EXCEPT !.members = @ \ {u}, !.privs = @ \ PrivsOf(u)]

\* Mutant: an emptied channel is only marked dead.
drop_empty_channels_marked(chans) ==
  [ch \in Chans |-> IF chans[ch].members = {} /\ remote[ch] = {}
                      THEN [chans[ch] EXCEPT !.live = FALSE] ELSE chans[ch]]

\* drop_empty_channels: a channel lives as long as it has a member anywhere.
drop_empty_channels(chans) ==
  [ch \in Chans |-> IF chans[ch].members = {} /\ remote[ch] = {}
                      THEN NoChan ELSE chans[ch]]

-----------------------------------------------------------------------------
(* Sessions and accounts                                                   *)

\* Registration completes, with a new id and the account of a SASL login, if
\* there was one.
Connect(u, a) ==
  /\ modal = Empty
  /\ u \notin ids
  /\ ids' = ids \cup {u} /\ here' = here \cup {u}
  /\ account' = [account EXCEPT ![u] = a]
  /\ UNCHANGED <<joined, chan, remote, founder, saved, modal>>

\* QUIT, the end of the connection, or an eviction: eject_user leaves no
\* channel out, and the record goes with its own list.
Depart(u) ==
  /\ Reads(u)
  /\ here' = here \ {u}
  /\ account' = [account EXCEPT ![u] = Empty]
  /\ joined' = [joined EXCEPT ![u] = {}]
  /\ chan' = drop_empty_channels([ch \in Chans |-> ejected(chan[ch], u)])
  /\ UNCHANGED <<ids, remote, founder, saved, modal>>

\* apply_founder_status, for a member of c who is identified for a.
founder_status(c, ch, u, a) ==
  IF is_registered(ch) /\ a = founder[ch]
    THEN [c EXCEPT !.privs = @ \cup {<<"o", u>>}] ELSE c

\* NickServ REGISTER and IDENTIFY: announce_account_change makes the founder
\* operator of the channels they sit in.
Identify(u, a) ==
  /\ Reads(u)
  /\ account' = [account EXCEPT ![u] = a]
  /\ chan' = [ch \in Chans |-> IF ch \in joined[u]
                                 THEN founder_status(chan[ch], ch, u, a) ELSE chan[ch]]
  /\ UNCHANGED <<ids, here, joined, remote, founder, saved, modal>>

\* finish_sasl_login of a user who has been welcomed: no channel hears of it.
SaslLogin(u, a) ==
  /\ Reads(u)
  /\ account[u] = Empty
  /\ account' = [account EXCEPT ![u] = a]
  /\ UNCHANGED <<ids, here, joined, chan, remote, founder, saved, modal>>

\* LOGOUT takes no operator status away.
Logout(u) ==
  /\ Reads(u)
  /\ account' = [account EXCEPT ![u] = Empty]
  /\ UNCHANGED <<ids, here, joined, chan, remote, founder, saved, modal>>

\* The process dies and comes back with what the registry file holds.
Restart ==
  /\ ids' = {} /\ here' = {}
  /\ account' = [u \in Users |-> Empty]
  /\ joined' = [u \in Users |-> {}]
  /\ chan' = [ch \in Chans |-> NoChan]
  /\ remote' = [ch \in Chans |-> {}]
  /\ modal' = Empty
  /\ UNCHANGED <<founder, saved>>

-----------------------------------------------------------------------------
(* JOIN                                                                    *)

BelowCap(u) == Cardinality(joined[u]) < MaxChannels

Enters(u, ch, c) ==
  /\ joined' = [joined EXCEPT ![u] = @ \cup {ch}]
  /\ chan' = [chan EXCEPT ![ch] = c]
  /\ UNCHANGED <<ids, here, account, remote, founder, saved, modal>>

\* Mutant: the creator always becomes operator.
created_as_op(u, ch) ==
  [NewChan EXCEPT !.members = {u}, !.privs = {<<"o", u>>},
                  !.topic = IF is_registered(ch) THEN saved[ch] ELSE Empty]

\* Mutant: the persisted topic is not restored.
created_without_topic(u, ch) ==
  founder_status([NewChan EXCEPT
                    !.members = {u},
                    !.privs = IF is_registered(ch) THEN {} ELSE {<<"o", u>>}], ch, u, account[u])

\* The channel u creates: its operator, unless it is registered; then it gets
\* its topic back and only its founder is operator.
created(u, ch) ==
  IF is_registered(ch)
    THEN founder_status([NewChan EXCEPT !.members = {u}, !.topic = saved[ch]],
                        ch, u, account[u])
    ELSE [NewChan EXCEPT !.members = {u}, !.privs = {<<"o", u>>}]

JoinNew(u, ch) ==
  /\ Reads(u)
  /\ ~chan[ch].live
  /\ BelowCap(u)
  /\ Enters(u, ch, created(u, ch))

\* The checks of join_existing, key being the one given or Empty.
MayJoin(u, ch, key) ==
  /\ flag_is_set("i", ch) => u \in chan[ch].invites \/ list_match("I", u, ch)
  /\ flag_is_set("R", ch) => account[u] # Empty
  /\ list_match("b", u, ch) => list_match("e", u, ch)
  /\ \A k \in ChanKeys : Mode("k", k) \in chan[ch].modes => key = k

\* Mutant: the invitation is not used up.
admitted_keeping_invite(u, ch) ==
  founder_status([chan[ch] EXCEPT !.members = @ \cup {u}], ch, u, account[u])

\* admit_plain, consume_invite, apply_founder_status.
admitted(u, ch) ==
  founder_status([chan[ch] EXCEPT !.members = @ \cup {u},
                                  !.invites = @ \ {u}], ch, u, account[u])

\* Mutant: the channel limit is checked when a channel is created only.
join_existing_uncapped(u, ch, key) ==
  /\ Reads(u)
  /\ chan[ch].live
  /\ MayJoin(u, ch, key)
  /\ ~is_member(u, ch)
  /\ Enters(u, ch, admitted(u, ch))

join_existing(u, ch, key) ==
  /\ Reads(u)
  /\ chan[ch].live
  /\ MayJoin(u, ch, key)
  /\ ~is_member(u, ch)
  /\ BelowCap(u)
  /\ Enters(u, ch, admitted(u, ch))

-----------------------------------------------------------------------------
(* PART, KICK, INVITE, TOPIC                                               *)

Leaves(u, ch) ==
  /\ joined' = [joined EXCEPT ![u] = @ \ {ch}]
  /\ chan' = drop_empty_channels([chan EXCEPT ![ch] = ejected(@, u)])
  /\ UNCHANGED <<ids, here, account, remote, founder, saved, modal>>

Part(u, ch) ==
  /\ Reads(u)
  /\ is_member(u, ch)
  /\ Leaves(u, ch)

\* Mutant: the target's own list is not updated.
Kick_one_sided(u, ch, target) ==
  /\ Reads(u)
  /\ is_member(u, ch) /\ is_member(target, ch)
  /\ target # u => is_op(u, ch)
  /\ chan' = drop_empty_channels([chan EXCEPT ![ch] = ejected(@, target)])
  /\ UNCHANGED <<ids, here, account, joined, remote, founder, saved, modal>>

\* Mutant: an emptied channel is left behind.
Kick_unswept(u, ch, target) ==
  /\ Reads(u)
  /\ is_member(u, ch) /\ is_member(target, ch)
  /\ target # u => is_op(u, ch)
  /\ joined' = [joined EXCEPT ![target] = @ \ {ch}]
  /\ chan' = [chan EXCEPT ![ch] = ejected(@, target)]
  /\ UNCHANGED <<ids, here, account, remote, founder, saved, modal>>

\* Anybody may kick themselves.
Kick(u, ch, target) ==
  /\ Reads(u)
  /\ is_member(u, ch) /\ is_member(target, ch)
  /\ target # u => is_op(u, ch)
  /\ Leaves(target, ch)

\* Any member may invite anybody they can see who is not one.
Invite(u, ch, target) ==
  /\ Reads(u)
  /\ is_member(u, ch)
  /\ target \in here /\ ~is_member(target, ch)
  /\ chan' = [chan EXCEPT ![ch].invites = @ \cup {target}]
  /\ UNCHANGED <<ids, here, account, joined, remote, founder, saved, modal>>

\* handle_topic takes its last parameter for the topic, so it always sets one.
Topic(u, ch, t) ==
  /\ Reads(u)
  /\ is_member(u, ch)
  /\ flag_is_set("t", ch) => is_op(u, ch)
  /\ chan' = [chan EXCEPT ![ch].topic = t]
  /\ saved' = [saved EXCEPT ![ch] = IF is_registered(ch) THEN t ELSE @]
  /\ UNCHANGED <<ids, here, account, joined, remote, founder, modal>>

-----------------------------------------------------------------------------
(* MODE                                                                    *)

\* Operator status is read once, before the first term.
ModeStart(u, ch) ==
  /\ Reads(u)
  /\ is_member(u, ch) /\ is_op(u, ch)
  /\ modal' = ch
  /\ UNCHANGED <<ids, here, account, joined, chan, remote, founder, saved>>

\* One change of the command's channel.
Applies(c) ==
  /\ chan' = [chan EXCEPT ![modal] = c]
  /\ UNCHANGED <<ids, here, account, joined, remote, founder, saved, modal>>

\* A flag, or a ban, exception or invite exception.  (+l sets a number nothing
\* reads.)
ModeTerm(on, m) ==
  /\ modal # Empty
  /\ Applies([chan[modal] EXCEPT !.modes = Grant(on, @, m)])

\* set_channel_key: the value is the key whatever the sign; an empty one
\* clears it.
rekeyed(modes, k) ==
  { m \in modes : m.mode # "k" } \cup { m \in Keyed : m.arg = k }

ModeKey(k) ==
  /\ modal # Empty
  /\ Applies([chan[modal] EXCEPT !.modes = rekeyed(@, k)])

\* perform_priv_change, for a target that is a member.
ModePriv(on, p, target) ==
  /\ modal # Empty
  /\ is_member(target, modal)
  /\ Applies([chan[modal] EXCEPT !.privs = Grant(on, @, <<p, target>>)])

\* All terms are done.
ModeEnd ==
  /\ modal # Empty
  /\ modal' = Empty
  /\ chan' = drop_empty_channels(chan)
  /\ UNCHANGED <<ids, here, account, joined, remote, founder, saved>>

\* A malformed term, a missing value, or a privilege for somebody who is not
\* a member: 501 and return; what was applied stays.
ModeFails ==
  /\ modal # Empty
  /\ modal' = Empty
  /\ UNCHANGED <<ids, here, account, joined, chan, remote, founder, saved>>

-----------------------------------------------------------------------------
(* ChanServ                                                                *)

\* register, and the topic of the moment with it.
Register(u, ch) ==
  /\ Reads(u)
  /\ account[u] # Empty
  /\ ~is_registered(ch)
  /\ is_op(u, ch)
  /\ founder' = [founder EXCEPT ![ch] = account[u]]
  /\ saved' = [saved EXCEPT ![ch] = chan[ch].topic]
  /\ UNCHANGED <<ids, here, account, joined, chan, remote, modal>>

Drop(u, ch) ==
  /\ Reads(u)
  /\ is_founder(u, ch)
  /\ founder' = [founder EXCEPT ![ch] = Empty]
  /\ saved' = [saved EXCEPT ![ch] = Empty]
  /\ UNCHANGED <<ids, here, account, joined, chan, remote, modal>>

Op(u, ch) ==
  /\ Reads(u)
  /\ is_founder(u, ch)
  /\ is_member(u, ch) /\ ~is_op(u, ch)
  /\ chan' = [chan EXCEPT ![ch] = founder_status(@, ch, u, account[u])]
  /\ UNCHANGED <<ids, here, account, joined, remote, founder, saved, modal>>

-----------------------------------------------------------------------------
(* What a link delivers                                                    *)

Linked == modal = Empty /\ Remotes # {}

\* FJOIN and IJOIN record the members; only FJOIN makes a channel.
RemoteJoin(ch, r) ==
  /\ Linked
  /\ remote' = [remote EXCEPT ![ch] = @ \cup {r}]
  /\ UNCHANGED <<ids, here, account, joined, chan, founder, saved, modal>>

\* adopt_remote_channel.  The channel is new here, or ours is the older one
\* or as old, or it is the younger one and loses all its modes.
RemoteChannel(ch, R, lose) ==
  /\ Linked
  /\ remote' = [remote EXCEPT ![ch] = @ \cup R]
  /\ IF chan[ch].live
       THEN chan' = IF lose THEN [chan EXCEPT ![ch].modes = {}, ![ch].privs = {}]
                            ELSE chan
       ELSE chan' = [chan EXCEPT ![ch] = NewChan]
  /\ UNCHANGED <<ids, here, account, joined, founder, saved, modal>>

\* PART, QUIT or the split of R's server: nothing is swept.
RemotesLeave(C, R) ==
  /\ Linked
  /\ remote' = [ch \in Chans |-> IF ch \in C THEN remote[ch] \ R ELSE remote[ch]]
  /\ UNCHANGED <<ids, here, account, joined, chan, founder, saved, modal>>

RemoteChange(ch, c) ==
  /\ Linked
  /\ chan[ch].live
  /\ chan' = [chan EXCEPT ![ch] = c]
  /\ UNCHANGED <<ids, here, account, joined, remote, founder, saved, modal>>

\* apply_remote_mode, unless our channel is the older one.  A privilege is set
\* for whoever has the UUID, member or not, still here or not.
RemoteMode(ch, on, m) == RemoteChange(ch, [chan[ch] EXCEPT !.modes = Grant(on, @, m)])
RemoteKey(ch, k)      == RemoteChange(ch, [chan[ch] EXCEPT !.modes = rekeyed(@, k)])
RemotePriv(ch, on, p, u) ==
  /\ u \in ids
  /\ RemoteChange(ch, [chan[ch] EXCEPT !.privs = Grant(on, @, <<p, u>>)])

\* adopt_remote_topic: the registry is not told.
RemoteTopic(ch, t) == RemoteChange(ch, [chan[ch] EXCEPT !.topic = t])

-----------------------------------------------------------------------------

Session(u) ==
  \/ \E a \in Accounts \cup {Empty} : Connect(u, a)
  \/ Depart(u)
  \/ \E a \in Accounts : Identify(u, a) \/ SaslLogin(u, a)
  \/ Logout(u)

Member(u, ch) ==
  \/ JoinNew(u, ch)
  \/ \E key \in ChanKeys \cup {Empty} : join_existing(u, ch, key)
  \/ Part(u, ch)
  \/ \E target \in Users : Kick(u, ch, target)
  \/ \E target \in Users : Invite(u, ch, target)
  \/ \E t \in Topics \cup {Empty} : Topic(u, ch, t)

mode_channel ==
  \/ \E u \in Users, ch \in Chans : ModeStart(u, ch)
  \/ \E on \in BOOLEAN, m \in Plain \cup Lists : ModeTerm(on, m)
  \/ \E k \in ChanKeys \cup {Empty} : ModeKey(k)
  \/ \E on \in BOOLEAN, p \in {"o", "v"}, target \in Users : ModePriv(on, p, target)
  \/ ModeEnd
  \/ ModeFails

ChanServ(u, ch) == Register(u, ch) \/ Drop(u, ch) \/ Op(u, ch)

Link(ch) ==
  \/ \E r \in Remotes : RemoteJoin(ch, r)
  \/ \E R \in SUBSET Remotes, lose \in BOOLEAN : RemoteChannel(ch, R, lose)
  \/ \E on \in BOOLEAN, m \in Plain \cup Lists : RemoteMode(ch, on, m)
  \/ \E k \in ChanKeys \cup {Empty} : RemoteKey(ch, k)
  \/ \E on \in BOOLEAN, p \in {"o", "v"}, u \in Users : RemotePriv(ch, on, p, u)
  \/ \E t \in Topics \cup {Empty} : RemoteTopic(ch, t)

Local ==
  \/ \E u \in Users : Session(u)
  \/ \E u \in Users, ch \in Chans : Member(u, ch) \/ ChanServ(u, ch)
  \/ mode_channel

Next ==
  \/ Local
  \/ \E ch \in Chans : Link(ch)
  \/ \E C \in SUBSET Chans, R \in SUBSET Remotes : RemotesLeave(C, R)
  \/ Restart

Spec == Init /\ [][Next]_vars

-----------------------------------------------------------------------------
(* Properties                                                              *)

\* The two sides of membership agree, Chn::members and Cx::chans, which JOIN,
\* PART, KICK and the end of a session each update separately, and nobody who
\* is gone is a member anywhere.
MembershipAgrees ==
  /\ \A u \in Users : joined[u] = { ch \in Chans : u \in chan[ch].members }
  /\ \A ch \in Chans : chan[ch].members \subseteq here

\* The privileges in ch of those who are not in it.
Strays(ch) == { x \in chan[ch].privs : x[2] \notin chan[ch].members }

\* Privileges go with membership: whoever leaves a channel, by any way out,
\* leaves none behind, and no command gives one to somebody outside.  Only an
\* FMODE, which asks for no membership, does.
NoStrays ==
  [][ (\A ch \in Chans : Strays(ch)' \subseteq Strays(ch)) \/ ~Local ]_vars

\* No user is in more channels than MAX_CHANNELS, by either way in.
WithinCap == \A u \in Users : Cardinality(joined[u]) <= MaxChannels

\* An invitation is good for one entry: no member has one left to come back
\* with after a KICK.
InviteSpent == \A ch \in Chans : chan[ch].members \cap chan[ch].invites = {}

\* Whoever leaves by PART, KICK, QUIT or eviction, no channel without a
\* member anywhere is left behind.
LeaversSweep ==
  [][ (\E u \in here : joined'[u] # joined[u] /\ joined'[u] \subseteq joined[u])
      => \A ch \in Chans : chan'[ch].live => chan'[ch].members \cup remote'[ch] # {} ]_vars

\* The topic of a registered channel is the persisted one, as far as local
\* users are concerned: through registration, emptying, re-creation, TOPIC
\* and DROP no local step makes them differ.
TopicAgrees(ch) == is_registered(ch) /\ chan[ch].live => chan[ch].topic = saved[ch]

TopicKept == [][ (\A ch \in Chans : TopicAgrees(ch) => TopicAgrees(ch)') \/ ~Local ]_vars

\* Ownership survives the channel emptying: on a registered channel nobody
\* but the founder becomes operator unless an operator makes them one.
Ownership ==
  [][ \/ \A ch \in Chans, u \in Users :
           is_registered(ch) /\ ~is_op(u, ch) /\ is_op(u, ch)'
           => is_founder(u, ch)' \/ modal # Empty
      \/ ~Local ]_vars

=============================================================================
