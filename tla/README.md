# A TLA+ model of chonkline

chonkline is an IRC server in one Rust crate: a tokio supervisor, one task per
client, one mutex around one `ServerState`, and optional server-to-server
links. This directory holds TLA+ modules that model it, the TLC configurations
that check them on small instances, and TLAPS proofs of what matters most for
every instance. `PROJECT.json` is the index: which definition models which
lines, which run checks which property, and which theorem proves it.

    tlc -workers 2 -config MCContest.cfg MCRegistration          # one run
    tlapm RegistrationProofs.tla                                 # one proof module

## 1. The system and its parts

| Part | Source | State it keeps | Operations |
|---|---|---|---|
| Registration and nick ownership | `cmds.rs`, `ops.rs`, `state.rs` | `users`, `unreg`, the `Cx` records, `history`, `ping_outstanding`, `grace_reclaim` | NICK, USER, CAP, PONG, QUIT/EOF, evictions, `liveness_tick`, `reclaim_tick` |
| Connection tasks | `ops.rs` | one task per socket: address, exemption, position, close signal | `admit_and_run`, `run_session`, `run_reader`, `process_segment`, `write_reply` |
| Source table | `limits.rs` | `sources` (active, connects, messages, violations), `active_total` | `try_admit`, `release`, `charge_message` |
| Ban store | `bans.rs` | K-lines with their expiry, the ban file | `add`, `remove`, `matching`, load/save |
| Channels | `cmds.rs`, `state.rs` | members, modes, lists, privileges, invites, topics; `Cx.chans` | JOIN, PART, KICK, INVITE, TOPIC, MODE, eviction, what links deliver |
| Links and network | `link.rs`, `network.rs` | link handles, remote users and channel members, timestamps | handshake, burst, relays, splits, FJOIN/FMODE/FTOPIC |
| Services | `cmds.rs`, `accounts.rs`, `channels.rs` | accounts, registered channels and their files, SASL exchanges | NickServ, ChanServ, AUTHENTICATE |
| Reply queue | `ops.rs`, `state.rs` | one bounded queue per client, labelled batches | enqueue, flush, close on overflow |
| Supervisor | `lib.rs` | listeners, two tick timers | accept, tick, shutdown |
| PROXY parser, wire format, TLS, crypto, HTTP, log, main | the files of those names | none of their own (certificates, a log handle) | pure functions and I/O |

How they meet. `spawn_connection` starts a task per socket. The task asks the
ban store and the source table for a slot, does the TLS handshake, parks a
record in `unreg` and reads. Each line is one critical section of the mutex
(`ops::route`), in which the command handler may change any table and push
lines on other clients' queues. The supervisor's ticks take the same mutex. A
task that removes *another* client's record can only signal that client's
reader (`Notify::notify_waiters`); the reader then has to notice. Links are
tasks of the same shape, and the handlers mirror what they do on them.

What is hard in this code, and what the properties are for:

- the window between two critical sections of one task: resolve, admit, park,
  release (slots and exemptions that disagree, a K-line that falls in between);
- signals that only reach a waiting reader;
- requests kept for later (`grace_reclaim`) and applied when requester, holder
  and nick have all had time to change;
- four ways into `maybe_complete`, each of which must pass the challenge and
  send the welcome once;
- bookkeeping that has to stay balanced over every exit path (`active_total`,
  per-source counters, the two sides of membership and of the nick table);
- handlers that apply several changes and may return half-way (MODE);
- state two servers resolve by timestamps while users act on both.

`PROJECT.json` lists them one by one under `hazards`, each at its line.

## 2. Modules

| Module | Models | Kind |
|---|---|---|
| `NickOwnership` | what the nick table promises: nobody's nick is overwritten, one nick each, nobody comes back | abstract specification |
| `Registration` | a client's life in the user tables | component |
| `MCRegistration` | instances of it | TLC |
| `RegistrationProofs` | theorems | TLAPS |
| `Connections` | one task per socket, the source table, the bans | component |
| `MCConnections` | instances of it | TLC |
| `ConnectionsProofs` | theorems | TLAPS |
| `Channels` | channels, their modes and members, the registry, what links deliver | component |
| `MCChannels` | instances of it | TLC |
| `ChannelsProofs` | theorems | TLAPS |
| `Links` | the sessions between servers, what a burst and a relay carry, what each server believes of the other | component, composes two or more servers |
| `MCLinks` | instances of it | TLC |
| `LinksProofs` | theorems: types, orphans, times | TLAPS |
| `DeliveryProofs` | theorems: joins reach the peer | TLAPS, extends `LinksProofs` |
| `Services` | the account store with its file, NickServ, SASL | component |
| `MCServices` | instances of it | TLC |
| `ServicesProofs` | theorems | TLAPS |
| `Glob`, `MCGlob` | `glob_match` step by step against the definition of a match | algorithm, TLC |
| `GlobProofs` | theorems | TLAPS |

### Registration

`users`, `unreg`, `hist`, `pingOut` and `mark` are the fields of `ServerState`
of the same purpose; `cx[c]` has the fields of `Cx` that registration reads.
An action is one critical section: `NickInUse`, `NickRename`, `NickContest`,
`NickPair` and `NickPairContest` are the outcomes of `handle_nick`; `User`,
`CapBegin`, `CapEnd`, `Pong`, `OtherLine`, `Close` and `Kill` are the other
commands, and `Kill` stands for every eviction another actor orders (KILL,
GHOST, K-line, nick collision). `maybe_complete` is an operator on the record
its caller has prepared, as in the code. `reclaim_tick` is a loop whose body
depends on its earlier rounds, so it is three actions (`ReclaimHolder`,
`ReclaimPairing`, `ReclaimRename`) during which nothing else is enabled.

The windows of time (silence, ping, eviction, registration, grace) come from
the environment, so their order is not fixed: a window that has run out is a
pair in `elapsed`, which time may add at any moment and which the code's
restamping removes. `lookup` follows at most eight renames, `Hop4(Hop4(_))`.

Left out here: channels, messages and links (a rename or eviction has no
audience in this module), the words of replies, and services, of which only
the evictions remain.

### Connections

`pc[c]` is where the task of connection `c` awaits. `Resolve*` is the PROXY
header and the choice of the address the exemption goes by; `Refuse`, `Admit`
and `AdmitExempt` are `try_admit` under the ban check; `Probe`, `ProbeGone`,
`Handshake`, `HandshakeFails` the TLS port; `Park`, `Read`, `Line`,
`LineOver`, `Quit`, `Flushed`, `ReaderEnds` the session; `Release` the end. A
source's `connects` and `messages` are the sizes of the code's sliding
windows; `ConnectAges` and `MessageAges` let the oldest entry leave. `opened`
and `said` are history: what the source really did in the window, whether or
not the table remembers. `Evicted` is the signal, which reaches a reader only
while it waits, and the unbiased `select!` may prefer the read.

Registration decides *when* a session registers; here any line of an
unregistered session may. The bytes of headers, cloaking and the
per-connection throttle are left out: they delay a reader and change nothing
it decides.

### Channels

`chan[ch]` is a `Chn` with its flags, lists and key as one set of modes;
`joined[u]` is the user's own list (`Cx.chans`), `remote[ch]` is
`network.members_of`, `founder` and `saved` are the channel registry. A handler
is one critical section and one action: `JoinNew` and `join_existing` for the
two ways into a channel, `Part`, `Kick`, `Invite`, `Topic`, the ChanServ
commands, `Depart` for every way a session ends. Each ends with the sweep of
empty channels where the handler does. The ways to an account differ in what
they do to channels, so each is an action: `Identify` (NickServ, which
reconsiders the founder's status in every channel), `SaslLogin` (which does
not) and `Logout` (which takes nothing away); `Connect` brings an account
along. MODE applies its terms one after another and may return in the middle,
so it is `ModeStart`, any number of terms, and `ModeEnd` or `ModeFails`;
`modal` is the channel whose MODE command has the lock. Links are the
environment: FJOIN, IJOIN, FMODE, FTOPIC, PART, QUIT and splits may arrive at
any moment, and since the clocks of two servers are unrelated either outcome
of a timestamp comparison may occur. `Restart` forgets everything but the
registry.

A mask is the set of users it matches. In the code a login or a nick change
may change what a mask matches; here that set is fixed. A user is a connection
id, handed out once between two starts (`ids`), and its UUID. `forget_local` has
no caller, so `local_uuid_owner` still finds the id of a user who has left, and
`RemotePriv` gives operator status or voice to anybody in `ids`, member or not,
connected or not. (The code mints an UUID only while a link is up; that every id
has one only adds FMODEs.) The member limit
`+l` is stored and never read, and modes this server does not know are only
stored, so neither is modelled.

### Links

Every server runs the same code, so the module composes them: `here`, `uuid`,
`joined` and `ts` are the local users and channels of each, `known` and `on`
what it believes of the others (`network.users`, `RemoteUser::chans`), `links`
the published handles. A connection is two ends; `sess[e]` is where
`run_session` is at end `e`, `wire[e]` the lines on their way to it, queue and
network together, of which at most `Queue` wait (`LINK_QUEUE`) and the rest are
dropped as `try_send` drops them. `Register`, `Quit`, `Vanish`, `Join`, `Part`,
`Kicked` and `Speak` are the commands that do or do not relay; `RecvServer`,
`Snapshot` and `Flush` are the three critical sections a peer's SERVER line sets
off, between which any command may come; `Recv*` is `apply_event`; `Teardown`
is the end of `run_session`; `Cut` and `Restart` are the faults: a connection
that dies silently and a process that comes back empty.

A user stands for its connection id and its UUID, both handed out once. In the
code UUIDs start over with the process: `JoinsSeen`, and `JoinsReach` for
several connections, rely on their being unique, that is on no session of a peer
outliving the burst of its next process with an old user under a new user's UUID.

Passwords and SIDs agree, and both ends of a connection run this code, so SERVER
is the first line on every wire that changes anything. This is an assumption:
`handle_line` applies UID, FJOIN and the rest in whatever phase they come, and a
session that has not seen SERVER splits nothing at its end (`registered_sid`), so
what a peer that is not such a server sends before SERVER would stay.
`ServerFirst` in `LinksProofs` is where the proof of `NoOrphans` uses it.

`told` is history: the pairs of a user and a link such
that all lines about the user went, in order, into that link and every other
link to the same peer. A full queue on *any* link to a peer ends it for all of
them (`StillTold`): two servers that dial each other have two connections, and
an UID that still waits on one makes the peer start the user over in no channel
after the JOIN has come by the other; if the JOIN behind that UID was dropped,
the channel is lost although one link carried everything. `shown` is history as
well: the pairs of an end and a channel whose time went into that end, by an
FJOIN of a join or of the burst. A pair stays while the connection does, the
channel lives at both servers, and a time that falls here is one the peer has
(`StillShown`, `Unlinked`); a server that takes over an older time from a third
one does not pass it on. Messages, FMODE and FTOPIC take up room and mint
their sender's UUID; what FMODE and FTOPIC do to a channel is in Channels.
Nicknames, AWAY and servers further out (a prefixed SERVER, SQUIT) are left out.

### Services

`pass` and `certs` are `AccountStore.map`, `by_cert` the index that SASL
EXTERNAL goes by, `file` what is on disk. A handler is one critical section,
its write included, so an action is a handler and `saved` says whether its
write succeeded; `add_cert` and `remove_cert` undo what they could not save,
`register` and `set_password` keep it. `Restart` may come between any two
commands; `load` gives a certificate to the first line that claims it, in any
order of lines. `cx` has the fields of `Cx` that AUTHENTICATE and NickServ
read. A password stands for its hash and a certificate for its fingerprint.

### Glob

The loop of `glob_match` with its variables, one action per branch, against
`Matches`, which says what a mask means: some way to cut the text up (`Cuts`)
gives every character of the mask the stretch it takes. It is a quantifier over
cuts and no recursion, so that it can be proved about.

## 3. Runs

| Run | Instance | Shows |
|---|---|---|
| `contest` | 3 clients, 2 nicks, history of 2, markers with two requesters | tables agree (`NickTable`), no record without reader (`NoOrphanRecord`), a marked holder can still answer (`MarkPinged`), and the tables implement `NickOwnership` |
| `registration_live` | 2 clients, 1 nick, challenge on, fair ticks | the challenge binds on every path (`ChallengeKept`), one welcome (`WelcomeOnce`), every marker, pairing and ping is settled |
| `admission` | 3 clients behind a trusted, exempt proxy | ceiling, clone cap and connect rate (`Bounded`, `ConnectRate`), the exemption is not inherited (`ForwardedBounded`) |
| `connections_live` | 2 clients, one open port and one in Optional mode, a trusted peer that comes for itself (counted) or names an exempt client in its header, fair runtime | counters equal the slots held (`SlotAccounting`), records live with their readers (`RecordServed`), slots come back after a hang-up or silence |
| `channels` | 2 users, 1 remote user, a full channel and a bare one, a limit of one channel each, a restart at any time | both sides of membership agree (`MembershipAgrees`), privileges go with membership in every local step (`NoStrays`), the limit holds by both ways in (`WithinCap`), an invitation is used up (`InviteSpent`), leavers leave no empty channel (`LeaversSweep`), a registered channel keeps its topic (`TopicKept`) and gives operator status to nobody but its founder (`Ownership`) |
| `links` | 2 servers, a user on each, 1 channel, 1 connection, a queue of 2, cuts and restarts | nobody is known without a session behind them (`NoOrphans`), a user introduced behind the burst is known with all channels, by FJOIN or IJOIN (`JoinsSeen`), the older channel wins: a peer that was shown a channel's time has one as old when the lines have arrived (`OlderWins`), a peer that has gone silent is noticed (`SplitNoticed`) |
| `services` | 2 sessions, accounts, passwords and certificates, 1 certificate per account, failing writes, a restart at any time | index, accounts and file agree (`CertIndex`, `CertsDurable`), a certificate is bound only by a session that is logged in and presented it (`BindingProven`) |
| `glob` | every mask and text of up to 4 characters over two letters and the star, with `?` in masks | the loop answers what the definition says (`GlobCorrect`), does not go round in a circle (`Advances`) and always answers (`Terminates`) |
| `probe_leak`, `lost_signal` | 1 or 2 clients | **violated**: see findings |
| `stale_teardown` | 2 servers, 2 connections | **violated**: see findings |
| `introduced` | 2 servers, 1 connection | **violated**: see findings |

**Bounds.** A nick has one holder, so two clients show every pairwise race
over it; a third is needed only when two requesters wait on one holder, which
is what `contest` has. The constraint `Contest` limits that instance to the
part the smaller run does not reach: no capability negotiation, one marker at
a time with distinct requesters, only the clocks of a reclaim; the theorems
below cover the rest. `MaxHeld` bounds the requests one marker collects; a
marker serves them one after another, so two show the order. `HistoryCap` is
512 in the code; 1 and 2 make the trimming happen and allow chains of renames.
In Connections the limits are 1 or 2 so that each is reached and refused, two
addresses share a source key, and 0 is used where the code reads 0 as "off".
`channels` uses the constraint `Bounded` of `MCChannels`: one mode set at a
time (the checks of JOIN and TOPIC each read one), the second channel bare (it
is there for the limit and for the sweep over several channels), and no step is
taken after a voice, which no handler reads. `TopicKept`, `Ownership` and `NoStrays`
speak of local steps: FTOPIC and FMODE change a channel on another server's
authority. In `links` the queue of two overflows by a burst of a user and a
channel behind one more line; each server creates channels at a time of its
own (`Times`), one older than the other, so both outcomes of the conflict
occur; the constraint `Bounded` of `MCLinks` keeps three lines on the
connection, two once a user has left, and lets one user leave and speak. TLC follows `SplitNoticed` only
along behaviours within that constraint. `services` has room for one
certificate, so the limit refuses the second. Symmetry (clients, nicks,
sessions, accounts, passwords, certificates) is used in the safety runs only.

**Fairness.** Clients owe the server nothing: no command is fair. What is fair
is what the process does by itself: the supervisor's two ticks
(`tokio::time::interval` in `serve`), time passing, and the runtime polling a
task whose await can complete (an address resolved within its ten-second
timeout, a handshake whose peer has gone, a reader that has been told, the end
of a task). The TLS peek and handshake of a client that stays connected are
not fair: the code gives them no timeout. In Links only `run_session` is fair:
its task is polled and its keepalive interval fires; whether a peer can be
dialled again is not assumed. Glob's loop runs until it returns.

**Deadlock** is checked everywhere but in `glob`, whose loop ends.

## 4. Proofs

Proved by TLAPS for every set of clients, nicks, addresses, users, channels,
servers, connections, accounts and certificates and every value of the limits,
from the `ASSUME`s of the component modules only (`None` is not a client or
nick, `Conns` is finite, `KeyOf` maps addresses to keys, limits are numbers,
`Users` and `Chans` are finite, `Queue` holds a line, masks are sets of users, the two ends of a connection are at
different servers and one of them dials).

| Theorems | State | Argument |
|---|---|---|
| `RegistrationTypes`, `NickTableAgrees`, `RecordsHaveReaders` | `TypeOK`, `NickTable`, `NoOrphanRecord` | inductive together (`TypeAndTables`): a rename keeps its type only because a registered record has a nick, and lives in the table only under it. One lemma each for what `evict`, `maybe_complete` and `apply_rename` do to the tables |
| `ImplementsOwnership` | `OwnershipSpec` | every step maps to `Claim`, `Move`, `Leave` or a stutter; a deferred rename or pairing is a step only if the nick is free *then* |
| `Challenged`, `Welcomed` | `ChallengeKept`, `WelcomeOnce` | `SessionInv`: a registered record is verified, and its welcome is either sent or owed by an open negotiation |
| `MarkedArePinged` | `MarkPinged` | `MarkInv`: only parked connections are ever marked, so a fresh record never meets an old marker |
| `ConnectionTypes`, `SlotsAccounted`, `LimitsHold` | `TypeOK`, `SlotAccounting`, `Bounded` | every step leaves all slots, takes one or gives one back (`SlotsStay`, `SlotTaken`, `SlotGiven`); the counters follow by cardinality |
| `RateHolds` | `ConnectRate` | `RateInv`: the table's window is the true one, because an entry is dropped only with no admission left in it |
| `ForwardedHolds` | `ForwardedBounded` | `OwnExemption`: behind a required header a task's exemption is that of its own key, from resolving to release |
| `RecordsServed` | `RecordServed` | inductive as it stands |
| `ChannelTypes`, `Membership`, `ChannelCap`, `InvitationsSpent` | `TypeOK`, `MembershipAgrees`, `WithinCap`, `InviteSpent` | every step is one of three kinds, nobody moves (`Stay`), one enters one channel (`Enter`), one leaves some (`Exit`), or a restart; each kind keeps `MemberInv`. `ModalLive` is needed as well: the channel of a MODE command under way exists until it ends |
| `PrivilegesFollow` | `NoStrays` | proved with `MemberInv`, kind by kind: nobody outside gains a privilege in a step that is local (`StraysStay`), and who exits is ejected with theirs |
| `Swept`, `TopicsKept`, `OwnershipKept` | `LeaversSweep`, `TopicKept`, `Ownership` | action properties, one case per action, from the same invariant |
| `LinkTypes`, `NobodyOrphaned` | `TypeOK`, `NoOrphans` | `NoOrphans` is not inductive: a UID that arrives must come from the user's own server over a registered session. `WireInv` says so of every line on a wire and in a rendered burst (`LinesTo`), that nothing is read before SERVER (`ServerFirst`), and that a cut hits both ends (`CutBoth`) |
| `OlderChannelWins` | `OlderWins` | `Dating`: for every pair in `shown` the connection carries, the channel lives, and the peer has a time as old or an FJOIN with one is on its way to it (`Pending`). Lines are only added behind it or read in front of it (`Grows`, `ReadPending`), reading it adopts its time, and no living channel gets younger (`TimesFall`) |
| `JoinsReach`, `LinesFollowed` | `JoinsSeen`, its invariant `Delivery` | `Follows` describes a told user in midstream: a link's wire has the UID unless the user is known already, nothing brings them into a channel before it, whatever takes them out of one (an UID or a PART that another connection has overtaken) is followed on the same wire by what brings them back, and each of their channels is either seen or still on its way. `Steady` says that the sessions behind it work and their bursts are out, `OwnLines` that nobody else's lines are about the user. One lemma for each thing that can happen to a wire (`AppendUid`, `AppendJoin`, `AppendPart`, `AppendOther`, `TailSays`), one for what `apply_event` does whatever it reads (`Applied`), one per action |
| `InBounds`, `MatcherCorrect`, `LoopsAdvance` | Glob's `TypeOK`, `GlobCorrect`, `Advances` | `Sound`: what has been read can be given to the mask so far, and was at the last star. `Kept`, `Ahead`, `Forced`: of all cuts that match, those that give the last star at least what it has taken are enough, and the loop is never ahead of one of them; without a star in the text a new star may take over from the last, which is why one point to come back to suffices |
| `AccountTypes`, `IndexAgrees`, `CertsOnDisk`, `BindingsProven` | `TypeOK`, `CertIndex`, `CertsDurable`, `BindingProven` | index, accounts and file agree at every step (inductive together), so what `load` rebuilds is what was there and no line's claim is contested |

Every invariant and every action property of the passing runs is stated by a
theorem. Where an instance is small the theorem says more than the run: `links`
has one connection and `JoinsReach` any number between the same two servers,
`glob` four characters and `MatcherCorrect` any length.

Only model-checked, because they need fairness, which the provers at hand do
not reason about: `MarkResolved`, `PairingEnds`, `PingSettled`,
`HangUpReleases`, `SilentReleased`, `SplitNoticed` and `Terminates`. For the
last, `LoopsAdvance` and `InBounds` prove what a variant would need; the step
from there to `<>` is TLC's. The four violations are of TLC's small instances.
No module here uses `RECURSIVE`.

## 5. Findings

Places where the model, which does what the code does, violates what a comment
or document says:

- `probe_leak`: on the TLS port a client that closes before its first byte
  returns between `try_admit` and `release`; its slot is never given back.
- `lost_signal`: a session removed while its reader is not inside a `select!`
  (or whose `select!` takes the read) is not told, and stays connected without
  a record.
- `stale_teardown`: a session's end removes the handles and the users of its
  peer by SID. If the peer has redialled before the old connection was noticed
  to be dead, the new session loses its handle and nothing is relayed to it.
- `introduced`: the burst leaves out users without an UUID, which is everybody
  who registered while no link was up and has relayed nothing since.

Met on the way and not kept as runs. Registration: a pairing completed by USER
while somebody else's marker is on the holder is held back and recorded
nowhere, so the expiry does not complete it; an unregistered NICK is resolved
through the rename history, so a client that has just given the nick up is
pinged and marked. Connections: `release` drops a source's entry by looking at
its admissions only, with messages still inside their window, so a source can
spend its budget twice; a K-line that falls between a client's admission and
its park misses that client; the comment of `is_exempt` (`limits.rs:160`,
"Callers must pass the TCP peer, not a header-supplied address") is out of date,
since its caller passes the header's address on a trusted path and says why
(`ops.rs:313-333`), which is what the model does; a source whose last connection was shorter than
the connect window keeps its entry for good; a silent client of the TLS port
has no record the registration deadline could find. Channels: a MODE command
that meets a bad term after good ones returns with the good ones applied and
their queued lines dropped; a key value in a `-k` term sets the key; a term
such as `+io nick` announces only the `+o`; a TOPIC that asks for the topic
sets it; FMODE grants operator status to users who are not members, who have it
when they join, and, no UUID being forgotten, to users who have left (peers are
not told of evictions and lost connections, so such an FMODE can come; ids are
not reused, so nobody inherits the status), although the comment at
`cmds.rs:3699` says that "Only local users have a membership this server can
flip"; FTOPIC
changes a registered channel's topic without the registry; a split leaves
channels without members until somebody leaves one; a SASL login in a reopened
negotiation does not reconsider founder status. Links: only QUIT tells the
peers that a user has left, not a lost connection, an eviction or a KICK; a
UID of the burst that comes behind a relayed join empties the user's channels
until the burst's FJOIN; a channel that empties while its FJOIN is on its way,
and is taken over from the peer at the peer's younger time, leaves the two
servers with different times: the peer yields to the time of the channel that
is gone, and further joins go out as IJOIN, which carries none, so nothing puts
"the OLDER channel wins" (`cmds.rs:5245`) right again; lines before SERVER are
applied, see section 2; UUIDs start over with the process. Services: a password
change or a registration that could not be saved is reported as done and lost
at the next start. Glob: a text with a star in it may be refused by a mask that
matches it, because a star in the mask first meets it as a character.

## 6. Plan

Done: Registration with `NickOwnership`, Connections, Channels, Links and
Services and Glob with their proofs. What could be added, in this order:

1. nicknames in Links: NICK relays and collisions, the index `nick_index`;
2. servers behind a peer: prefixed SERVER, SQUIT and `collect_subtree_users`
   as the closure it computes;
3. the registry and ban files with writes that fail or stop half-way;
4. the PROXY header's grammar as a pure operator;
5. the reply queue with labelled batches.

## 7. Not modelled

TLS certificates and reloading, hash functions, the wording of lines, the HTTP
status pages, logging and `main` have no protocol state; a model of them would
restate a library or a format string. Read-only queries (WHO, WHOIS, LIST,
NAMES, LUSERS) change nothing and are left out with the delivery of messages,
whose only effect on the tables is the UUID they mint.
