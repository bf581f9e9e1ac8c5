------------------------- MODULE ConnectionsProofs -------------------------
(***************************************************************************)
(* Proofs about Connections, for any number of connections and sources,    *)
(* any limits and any proxy configuration.                                 *)
(***************************************************************************)
EXTENDS Connections, FiniteSetTheorems, TLAPS

(* Type correctness *)

\* The placeholder for a socket nobody has looked at is a socket.
LEMMA AnySockType == AnySock \in SockType
  BY AddrAssumption DEF AnySock, SockType

\* Counting up a source's counters leaves a source.
LEMMA SourceCounts ==
  ASSUME NEW e \in Source
  PROVE  /\ [e EXCEPT !.active = @ + 1, !.connects = @ + 1] \in Source
         /\ [e EXCEPT !.active = @ + 1] \in Source
         /\ [e EXCEPT !.messages = @ + 1] \in Source
         /\ [e EXCEPT !.violations = @ + 1] \in Source
<1>1. /\ e.active + 1 \in Nat /\ e.connects + 1 \in Nat
      /\ e.messages + 1 \in Nat /\ e.violations + 1 \in Nat
  BY DEF Source
<1>2. QED
  BY <1>1 DEF Source

\* Every step keeps every variable in its type: one case per action.
LEMMA TypeStep == ASSUME TypeOK, [Next]_vars PROVE TypeOK'
<1> USE LimitAssumption, KeyAssumption, PeerAssumption, ModeAssumption
<1>a. ASSUME NEW c \in Conns, NEW l \in Listeners, NEW p \in Peers, Accept(c, l, p)
      PROVE  TypeOK'
  BY <1>a, AnySockType DEF TypeOK, Accept, Goto, PcType, SockType
<1>b. ASSUME NEW c \in Conns, Resolve(c) PROVE TypeOK'
  <2>1. sock[c] \in SockType
    BY DEF TypeOK
  <2>2. ASSUME NEW a \in Addrs, NEW t, Resolved(c, a, t) PROVE TypeOK'
    <3>1. sock' \in [Conns -> SockType]
      <4> DEFINE e == (IF t THEN KeyOf[a] ELSE sock[c].peer) \in Exempt
      <4>1. e \in BOOLEAN
        OBVIOUS
      <4>2. [sock[c] EXCEPT !.host = a, !.exempt = e] \in SockType
        <5> HIDE DEF e
        <5>1. QED
          BY <2>1, <4>1 DEF SockType
      <4>3. sock' = [sock EXCEPT ![c] = [sock[c] EXCEPT !.host = a, !.exempt = e]]
        BY <2>2 DEF TypeOK, Resolved
      <4>4. QED
        BY <4>2, <4>3 DEF TypeOK
    <3>2. QED
      BY <2>2, <3>1 DEF TypeOK, Resolved, Goto, PcType
  <2>3. CASE ResolvePeer(c)
    BY <2>1, <2>2, <2>3 DEF ResolvePeer, SockType
  <2>4. ASSUME NEW a \in Addrs, ResolveHeader(c, a) PROVE TypeOK'
    BY <2>2, <2>4 DEF ResolveHeader
  <2>5. CASE RefuseHeader(c)
    BY <2>5, AnySockType DEF TypeOK, RefuseHeader, Returns, Goto, PcType
  <2>6. QED
    BY <1>b, <2>3, <2>4, <2>5 DEF Resolve
<1>c. ASSUME NEW c \in Conns, Judge(c) PROVE TypeOK'
  <2>1. key(c) \in Keys
    BY DEF TypeOK, key, SockType
  <2>2. Entry(key(c)) \in Source
    BY <2>1 DEF TypeOK, Entry, Source
  <2>3. CASE Refuse(c)
    <3>1. src' \in [Keys -> Source]
      BY <2>1, <2>2, <2>3 DEF TypeOK, Refuse
    <3>2. QED
      BY <3>1, <2>3, AnySockType DEF TypeOK, Refuse, Returns, Goto, PcType
  <2>4. CASE AdmitExempt(c)
    BY <2>1, <2>2, <2>4 DEF TypeOK, AdmitExempt, Admitted, Goto, PcType, Serving, Source
  <2>5. CASE Admit(c)
    <3>1. [Entry(key(c)) EXCEPT !.active = @ + 1, !.connects = @ + 1] \in Source
      BY <2>2, SourceCounts
    <3>2. src' \in [Keys -> Source]
      BY <2>1, <3>1, <2>5 DEF TypeOK, Admit
    <3>3. pc' \in [Conns -> PcType] /\ total' \in Nat
      BY <2>5 DEF TypeOK, Admit, Admitted, Goto, PcType, Serving
    <3>4. opened' \in [Keys -> Nat]
      BY <2>1, <2>5 DEF TypeOK, Admit
    <3>5. QED
      BY <3>2, <3>3, <3>4, <2>5 DEF TypeOK, Admit
  <2>6. QED
    BY <1>c, <2>3, <2>4, <2>5 DEF Judge
<1>d. ASSUME NEW c \in Conns,
             \/ Probe(c) \/ ProbeGone(c) \/ Handshake(c) \/ HandshakeFails(c)
             \/ Park(c) \/ Read(c) \/ ReaderEnds(c) \/ Flushed(c)
      PROVE  TypeOK'
  BY <1>d DEF TypeOK, Probe, ProbeGone, Handshake, HandshakeFails, Park, Read, ReaderEnds,
     Flushed, Ended, Goto, PcType, Serving
<1>e. ASSUME NEW c \in Conns, Handle(c) PROVE TypeOK'
  <2>0. key(c) \in Keys
    BY DEF TypeOK, key, SockType
  <2>1. key(c) \in Keys /\ Entry(key(c)) \in Source
    BY <2>0 DEF TypeOK, Entry, Source
  <2>2. ASSUME Charged(c) PROVE src' \in [Keys -> Source] /\ said' \in [Keys -> Nat]
    <3>1. [Entry(key(c)) EXCEPT !.messages = @ + 1] \in Source
      BY <2>1 DEF Source
    <3>2. QED
      BY <2>1, <2>2, <3>1 DEF TypeOK, Charged
  <2>3. ASSUME Handled(c) \/ Ended(c)
        PROVE  /\ pc' \in [Conns -> PcType]
               /\ rec' \in [Conns -> {"none", "unreg", "user"}]
               /\ woken' \in SUBSET Conns
    BY <2>3 DEF TypeOK, Handled, Ended, Goto, PcType, Serving
  <2>4. CASE Line(c)
    BY <2>2, <2>3, <2>4 DEF TypeOK, Line
  <2>5. CASE LineOver(c)
    <3>1. [Entry(key(c)) EXCEPT !.violations = @ + 1] \in Source
      BY <2>1 DEF Source
    <3>2. src' \in [Keys -> Source]
      BY <2>1, <2>5, <3>1 DEF TypeOK, LineOver
    <3>3. /\ pc' \in [Conns -> PcType]
          /\ rec' \in [Conns -> {"none", "unreg", "user"}]
          /\ woken' \in SUBSET Conns
      BY <2>3, <2>5 DEF TypeOK, LineOver, Goto, PcType, Serving
    <3>4. QED
      BY <2>5, <3>2, <3>3 DEF TypeOK, LineOver
  <2>6. CASE FreeLine(c)
    <3>1. /\ pc' \in [Conns -> PcType]
          /\ rec' \in [Conns -> {"none", "unreg", "user"}]
          /\ woken' \in SUBSET Conns
      BY <2>3, <2>6 DEF TypeOK, FreeLine, Goto, PcType, Serving
    <3>2. QED
      BY <2>6, <3>1 DEF TypeOK, FreeLine
  <2>7. CASE Quit(c)
    BY <2>2, <2>3, <2>7 DEF TypeOK, Quit
  <2>8. QED
    BY <1>e, <2>4, <2>5, <2>6, <2>7 DEF Handle
<1>f. ASSUME NEW c \in Conns, Release(c) PROVE TypeOK'
  <2>1. key(c) \in Keys
    BY DEF TypeOK, key, SockType
  <2>2. [src[key(c)] EXCEPT !.active = Pred(@)] \in Source
    BY <2>1 DEF TypeOK, Pred, Source
  <2>3. src' \in [Keys -> Source] /\ total' \in Nat
    <3>1. NoSource \in Source
      BY DEF NoSource, Source
    <3>2. total' \in Nat
      BY <1>f DEF TypeOK, Release, Pred
    <3>3. src' \in [Keys -> Source]
      BY <1>f, <2>1, <2>2, <3>1 DEF TypeOK, Release
    <3>4. QED
      BY <3>2, <3>3
  <2>4. QED
    BY <1>f, <2>3, AnySockType DEF TypeOK, Release, Returns, Goto, PcType
<1>g. ASSUME NEW c \in Conns, HangUp(c) \/ Kill(c) \/ RegTimeout(c) PROVE TypeOK'
  BY <1>g DEF TypeOK, HangUp, Kill, RegTimeout, Evicted
<1>h. ASSUME NEW m \in Masks, Kline(m) \/ Unban(m) PROVE TypeOK'
  BY <1>h DEF TypeOK, Kline, Unban, Evicted
<1>i. ASSUME NEW k \in Keys, ConnectAges(k) \/ MessageAges(k) PROVE TypeOK'
  <2>1. CASE ConnectAges(k)
    <3>1. [src[k] EXCEPT !.connects = AtMost(@, opened[k] - 1)] \in Source
      BY <2>1 DEF TypeOK, ConnectAges, AtMost, Source
    <3>2. src' \in [Keys -> Source]
      BY <2>1, <3>1 DEF TypeOK, ConnectAges
    <3>3. QED
      BY <2>1, <3>2 DEF TypeOK, ConnectAges
  <2>2. CASE MessageAges(k)
    <3>1. [src[k] EXCEPT !.messages = AtMost(@, said[k] - 1)] \in Source
      BY <2>2 DEF TypeOK, MessageAges, AtMost, Source
    <3>2. src' \in [Keys -> Source]
      BY <2>2, <3>1 DEF TypeOK, MessageAges
    <3>3. QED
      BY <2>2, <3>2 DEF TypeOK, MessageAges
  <2>3. QED
    BY <1>i, <2>1, <2>2
<1>j. CASE UNCHANGED vars
  BY <1>j DEF TypeOK, vars
<1>k. QED
  BY <1>a, <1>b, <1>c, <1>d, <1>e, <1>f, <1>g, <1>h, <1>i, <1>j DEF Next, Task

(* Slots.  A step leaves every slot where it is, takes one or gives one    *)
(* back; the counters follow.                                              *)

SlotsStay ==
  /\ \A c \in Conns : pc'[c] \in Held <=> pc[c] \in Held
  /\ \A c \in Conns : pc[c] \in Held => sock'[c] = sock[c]
  /\ total' = total
  /\ \A k \in Keys : /\ src'[k].active = src[k].active
                     /\ src[k].tracked => src'[k].tracked

SlotTaken(c) ==
  /\ pc[c] \notin Held
  /\ \E l \in Held : pc' = [pc EXCEPT ![c] = l]
  /\ sock' = sock
  /\ total' = total + (IF sock[c].exempt THEN 0 ELSE 1)
  /\ src'[key(c)].active = src[key(c)].active + 1 /\ src'[key(c)].tracked
  /\ \A k \in Keys \ {key(c)} : src'[k] = src[k]
  /\ ~sock[c].exempt => ~Full /\ ~Clones(key(c))

SlotGiven(c) ==
  /\ pc[c] \in Held
  /\ pc' = [pc EXCEPT ![c] = "done"]
  /\ \A d \in Conns \ {c} : sock'[d] = sock[d]
  /\ total' = (IF sock[c].exempt THEN total ELSE Pred(total))
  /\ src'[key(c)].active = Pred(src[key(c)].active)
  /\ src'[key(c)].active > 0 => src'[key(c)].tracked
  /\ \A k \in Keys \ {key(c)} : src'[k] = src[k]

\* The sets of slot holders are finite, so their sizes are numbers.
LEMMA HoldersFinite ==
  /\ IsFiniteSet(Counted)
  /\ \A k \in Keys : IsFiniteSet(HoldersOf(k)) /\ IsFiniteSet(CountedOf(k))
<1>1. /\ Counted \subseteq Conns
      /\ \A k \in Keys : HoldersOf(k) \subseteq Conns /\ CountedOf(k) \subseteq Conns
  BY DEF Counted, HoldersOf, CountedOf, Holders
<1>2. QED
  BY <1>1, FiniteAssumption, FS_Subset

\* Only try_admit takes a slot, only release gives one back: every other
\* action leaves the holders and the counters alone.
LEMMA SlotMoves ==
  ASSUME TypeOK, SlotAccounting, [Next]_vars
  PROVE  SlotsStay \/ \E c \in Conns : SlotTaken(c) \/ SlotGiven(c)
<1> USE DEF Held, Serving, At
<1>a. ASSUME NEW c \in Conns, NEW l \in Listeners, NEW p \in Peers, Accept(c, l, p)
      PROVE  SlotsStay
  BY <1>a DEF TypeOK, SlotsStay, Accept, Goto
<1>b. ASSUME NEW c \in Conns, Resolve(c) PROVE SlotsStay
  BY <1>b DEF TypeOK, SlotsStay, Resolve, ResolvePeer, ResolveHeader, RefuseHeader,
     Resolved, Returns, Goto
<1>c. ASSUME NEW c \in Conns, Judge(c) PROVE SlotsStay \/ SlotTaken(c)
  <2>1. key(c) \in Keys
    BY KeyAssumption DEF TypeOK, key, SockType
  <2>2. /\ Entry(key(c)) \in Source
        /\ Entry(key(c)).active = src[key(c)].active
        /\ Entry(key(c)).tracked
    BY <2>1 DEF TypeOK, Entry, Source
  <2>3. CASE Refuse(c)
    <3>1. \A k \in Keys : /\ src'[k].active = src[k].active
                          /\ src[k].tracked => src'[k].tracked
      BY <2>1, <2>2, <2>3 DEF TypeOK, Refuse
    <3>2. QED
      BY <2>3, <3>1 DEF TypeOK, SlotsStay, Refuse, Returns, Goto
  <2>4. CASE AdmitExempt(c)
    <3>1. /\ src'[key(c)].active = src[key(c)].active + 1
          /\ src'[key(c)].tracked
          /\ \A k \in Keys \ {key(c)} : src'[k] = src[k]
      BY <2>1, <2>2, <2>4 DEF TypeOK, AdmitExempt, Source
    <3>2. pc[c] \notin Held /\ \E l \in Held : pc' = [pc EXCEPT ![c] = l]
      BY <2>4 DEF AdmitExempt, Admitted, Goto
    <3>3. total' = total + (IF sock[c].exempt THEN 0 ELSE 1)
      BY <2>4 DEF TypeOK, AdmitExempt
    <3>4. sock' = sock /\ sock[c].exempt
      BY <2>4 DEF AdmitExempt
    <3>5. QED
      BY <3>1, <3>2, <3>3, <3>4 DEF SlotTaken
  <2>5. CASE Admit(c)
    <3>1. /\ src'[key(c)].active = src[key(c)].active + 1
          /\ src'[key(c)].tracked
          /\ \A k \in Keys \ {key(c)} : src'[k] = src[k]
      <4> DEFINE e == [Entry(key(c)) EXCEPT !.active = @ + 1, !.connects = @ + 1]
      <4>1. e.active = src[key(c)].active + 1 /\ e.tracked
        BY <2>2 DEF Source
      <4>2. src' = [src EXCEPT ![key(c)] = e]
        BY <2>5 DEF Admit
      <4>3. QED
        BY <2>1, <4>1, <4>2 DEF TypeOK
    <3>2. pc[c] \notin Held /\ \E l \in Held : pc' = [pc EXCEPT ![c] = l]
      BY <2>5 DEF Admit, Admitted, Goto
    <3>3. QED
      BY <2>5, <3>1, <3>2 DEF TypeOK, SlotTaken, Admit
  <2>6. QED
    BY <1>c, <2>3, <2>4, <2>5 DEF Judge
<1>d. ASSUME NEW c \in Conns,
             \/ Probe(c) \/ ProbeGone(c) \/ Handshake(c) \/ HandshakeFails(c)
             \/ Park(c) \/ Read(c) \/ ReaderEnds(c) \/ Flushed(c)
      PROVE  SlotsStay
  BY <1>d DEF TypeOK, SlotsStay, Probe, ProbeGone, Handshake, HandshakeFails, Park, Read,
     ReaderEnds, Flushed, Ended, Goto
<1>e. ASSUME NEW c \in Conns, Handle(c) PROVE SlotsStay
  <2>1. key(c) \in Keys
    BY KeyAssumption DEF TypeOK, key, SockType
  <2>2. /\ Entry(key(c)) \in Source
        /\ Entry(key(c)).active = src[key(c)].active
        /\ Entry(key(c)).tracked
    BY <2>1 DEF TypeOK, Entry, Source
  <2>3. \A k \in Keys : /\ src'[k].active = src[k].active
                        /\ src[k].tracked => src'[k].tracked
    <3>1. CASE UNCHANGED src
      BY <3>1
    <3>2. CASE src' = [src EXCEPT ![key(c)] = [Entry(key(c)) EXCEPT !.messages = @ + 1]]
      BY <2>1, <2>2, <3>2 DEF TypeOK, Source
    <3>3. CASE src' = [src EXCEPT ![key(c)] = [Entry(key(c)) EXCEPT !.violations = @ + 1]]
      BY <2>1, <2>2, <3>3 DEF TypeOK, Source
    <3>4. QED
      BY <1>e, <3>1, <3>2, <3>3 DEF Handle, Line, LineOver, FreeLine, Quit, Charged
  <2>4. /\ pc[c] = "busy"
        /\ \E l \in {"wait", "flush", "last", "closing"} : pc' = [pc EXCEPT ![c] = l]
        /\ sock' = sock /\ total' = total
    BY <1>e DEF Handle, Line, LineOver, FreeLine, Quit, Handled, Ended, Goto
  <2>5. QED
    BY <2>3, <2>4 DEF TypeOK, SlotsStay
<1>f. ASSUME NEW c \in Conns, Release(c) PROVE SlotGiven(c)
  <2>1. key(c) \in Keys /\ src[key(c)] \in Source
    BY KeyAssumption DEF TypeOK, key, SockType
  <2>2. c \in HoldersOf(key(c))
    BY <1>f DEF Release, HoldersOf, Holders
  <2>3. src[key(c)].active > 0
    <3>1. Cardinality(HoldersOf(key(c))) # 0
      BY <2>1, <2>2, HoldersFinite, FS_EmptySet
    <3>2. QED
      BY <2>1, <3>1 DEF SlotAccounting, Source
  <2>4. src[key(c)].tracked
    BY <2>1, <2>3 DEF SlotAccounting
  <2>5. /\ src'[key(c)].active = Pred(src[key(c)].active)
        /\ src'[key(c)].active > 0 => src'[key(c)].tracked
        /\ \A k \in Keys \ {key(c)} : src'[k] = src[k]
        /\ total' = (IF sock[c].exempt THEN total ELSE Pred(total))
    BY <1>f, <2>1, <2>3, <2>4 DEF TypeOK, Release, NoSource, Source, Pred
  <2>6. QED
    BY <1>f, <2>5 DEF TypeOK, SlotGiven, Release, Returns, Goto
<1>g. ASSUME NEW c \in Conns, HangUp(c) \/ Kill(c) \/ RegTimeout(c) PROVE SlotsStay
  BY <1>g DEF SlotsStay, HangUp, Kill, RegTimeout
<1>h. ASSUME NEW m \in Masks, Kline(m) \/ Unban(m) PROVE SlotsStay
  BY <1>h DEF SlotsStay, Kline, Unban
<1>i. ASSUME NEW k \in Keys, ConnectAges(k) \/ MessageAges(k) PROVE SlotsStay
  <2>1. \A j \in Keys : src[j] \in Source
    BY DEF TypeOK
  <2>2. \A j \in Keys : src'[j].active = src[j].active /\ src'[j].tracked = src[j].tracked
    <3>1. CASE ConnectAges(k)
      BY <2>1, <3>1 DEF TypeOK, Source, ConnectAges
    <3>2. CASE MessageAges(k)
      BY <2>1, <3>2 DEF TypeOK, Source, MessageAges
    <3>3. QED
      BY <1>i, <3>1, <3>2
  <2>3. QED
    BY <1>i, <2>2 DEF SlotsStay, ConnectAges, MessageAges
<1>j. CASE UNCHANGED vars
  BY <1>j DEF SlotsStay, vars
<1>k. QED
  BY <1>a, <1>b, <1>c, <1>d, <1>e, <1>f, <1>g, <1>h, <1>i, <1>j DEF Next, Task

\* The counters follow the slots: in each of the three kinds of step the
\* holder sets gain or lose at most the one connection.
LEMMA SlotStep ==
  ASSUME TypeOK, SlotAccounting, [Next]_vars PROVE SlotAccounting'
<1>0. \A c \in Conns : key(c) \in Keys
  BY KeyAssumption DEF TypeOK, key, SockType
<1>1. CASE SlotsStay
  <2>1. /\ Counted' = Counted
        /\ \A k \in Keys : HoldersOf(k)' = HoldersOf(k)
    BY <1>1 DEF SlotsStay, Counted, HoldersOf, Holders, key
  <2>2. QED
    BY <1>1, <2>1 DEF SlotsStay, SlotAccounting
<1>2. ASSUME NEW c \in Conns, SlotTaken(c) PROVE SlotAccounting'
  <2>1. /\ c \notin Holders
        /\ Holders' = Holders \cup {c}
    BY <1>2 DEF TypeOK, SlotTaken, Holders
  <2>2. /\ c \notin Counted
        /\ Counted' = IF sock[c].exempt THEN Counted ELSE Counted \cup {c}
    BY <1>2, <2>1 DEF SlotTaken, Counted
  <2>3. \A k \in Keys : /\ c \notin HoldersOf(k)
                        /\ HoldersOf(k)' = IF k = key(c) THEN HoldersOf(k) \cup {c} ELSE HoldersOf(k)
    BY <1>2, <2>1 DEF SlotTaken, HoldersOf, key
  <2>4. total' = Cardinality(Counted')
    <3>1. Cardinality(Counted \cup {c}) = Cardinality(Counted) + 1
      BY <2>2, HoldersFinite, FS_AddElement
    <3>2. QED
      BY <1>2, <2>2, <3>1 DEF TypeOK, SlotTaken, SlotAccounting
  <2>5. ASSUME NEW k \in Keys
        PROVE  /\ src'[k].active = Cardinality(HoldersOf(k)')
               /\ src'[k].active > 0 => src'[k].tracked
    <3>1. Cardinality(HoldersOf(k) \cup {c}) = Cardinality(HoldersOf(k)) + 1
      BY <2>3, HoldersFinite, FS_AddElement
    <3>2. CASE k = key(c)
      BY <1>2, <2>3, <3>1, <3>2 DEF SlotTaken, SlotAccounting
    <3>3. CASE k # key(c)
      BY <1>2, <2>3, <3>3 DEF SlotTaken, SlotAccounting
    <3>4. QED
      BY <3>2, <3>3
  <2>6. QED
    BY <2>4, <2>5 DEF SlotAccounting
<1>3. ASSUME NEW c \in Conns, SlotGiven(c) PROVE SlotAccounting'
  <2>1. /\ c \in Holders
        /\ Holders' = Holders \ {c}
    BY <1>3 DEF TypeOK, SlotGiven, Holders, Held, Serving
  <2>2. /\ Counted' = Counted \ {c}
        /\ c \in Counted <=> ~sock[c].exempt
    BY <1>3, <2>1 DEF SlotGiven, Counted, Holders
  <2>3. \A k \in Keys : /\ HoldersOf(k)' = HoldersOf(k) \ {c}
                        /\ c \in HoldersOf(k) <=> k = key(c)
    BY <1>3, <2>1 DEF SlotGiven, HoldersOf, Holders, key
  <2>4. total' = Cardinality(Counted')
    <3>1. Cardinality(Counted \ {c}) = IF c \in Counted THEN Cardinality(Counted) - 1
                                                        ELSE Cardinality(Counted)
      BY HoldersFinite, FS_RemoveElement
    <3>2. c \in Counted => Cardinality(Counted) # 0
      BY HoldersFinite, FS_EmptySet
    <3>3. QED
      BY <1>3, <2>2, <3>1, <3>2 DEF TypeOK, SlotGiven, SlotAccounting, Pred
  <2>5. ASSUME NEW k \in Keys
        PROVE  /\ src'[k].active = Cardinality(HoldersOf(k)')
               /\ src'[k].active > 0 => src'[k].tracked
    <3>1. Cardinality(HoldersOf(k) \ {c}) = IF c \in HoldersOf(k)
                                              THEN Cardinality(HoldersOf(k)) - 1
                                              ELSE Cardinality(HoldersOf(k))
      BY HoldersFinite, FS_RemoveElement
    <3>2. CASE k = key(c)
      <4>1. Cardinality(HoldersOf(k)) # 0
        BY <2>3, <3>2, HoldersFinite, FS_EmptySet
      <4>2. src'[k].active = Cardinality(HoldersOf(k)) - 1
        BY <1>3, <3>2, <4>1 DEF SlotGiven, SlotAccounting, Pred
      <4>3. QED
        BY <1>3, <2>3, <3>1, <3>2, <4>2 DEF SlotGiven
    <3>3. CASE k # key(c)
      BY <1>3, <2>3, <3>1, <3>3 DEF SlotGiven, SlotAccounting
    <3>4. QED
      BY <3>2, <3>3
  <2>6. QED
    BY <2>4, <2>5 DEF SlotAccounting
<1>4. QED
  BY <1>1, <1>2, <1>3, SlotMoves

\* The ceiling and the clone cap survive every step: only SlotTaken adds a
\* counted connection, and then the counters, which are the sizes of the
\* holder sets, were below the limits.
LEMMA BoundStep ==
  ASSUME TypeOK, SlotAccounting, Bounded, [Next]_vars PROVE Bounded'
<1> USE LimitAssumption
<1>0. \A k \in Keys : /\ Cardinality(CountedOf(k)) \in Nat
                      /\ Cardinality(HoldersOf(k)) \in Nat
                      /\ Cardinality(CountedOf(k)) <= Cardinality(HoldersOf(k))
  <2>1. \A k \in Keys : CountedOf(k) \subseteq HoldersOf(k)
    BY DEF CountedOf
  <2>2. QED
    BY <2>1, HoldersFinite, FS_Subset, FS_CardinalityType
<1>1. CASE SlotsStay
  <2>1. /\ Counted' = Counted
        /\ \A k \in Keys : CountedOf(k)' = CountedOf(k)
    BY <1>1 DEF SlotsStay, Counted, CountedOf, HoldersOf, Holders, key
  <2>2. QED
    BY <2>1 DEF Bounded
<1>2. ASSUME NEW c \in Conns, SlotTaken(c) PROVE Bounded'
  <2>1. Counted' = IF sock[c].exempt THEN Counted ELSE Counted \cup {c}
    BY <1>2 DEF TypeOK, SlotTaken, Counted, Holders
  <2>2. \A k \in Keys : CountedOf(k)' = IF k = key(c) /\ ~sock[c].exempt
                                          THEN CountedOf(k) \cup {c} ELSE CountedOf(k)
    BY <1>2 DEF TypeOK, SlotTaken, CountedOf, HoldersOf, Holders, key
  <2>3. MaxClients > 0 => Cardinality(Counted') <= MaxClients
    <3>1. /\ c \notin Counted
          /\ Cardinality(Counted \cup {c}) = Cardinality(Counted) + 1
      BY <1>2, HoldersFinite, FS_AddElement DEF SlotTaken, Counted, Holders
    <3>2. QED
      BY <1>2, <2>1, <3>1 DEF TypeOK, SlotTaken, SlotAccounting, Bounded, Full
  <2>4. ASSUME MaxClones > 0, NEW k \in Keys PROVE Cardinality(CountedOf(k)') <= MaxClones
    <3>1. /\ c \notin CountedOf(k)
          /\ Cardinality(CountedOf(k) \cup {c}) = Cardinality(CountedOf(k)) + 1
      BY <1>2, HoldersFinite, FS_AddElement DEF SlotTaken, CountedOf, HoldersOf, Holders
    <3>2. k = key(c) /\ ~sock[c].exempt => Cardinality(HoldersOf(k)) < MaxClones
      BY <1>0, <1>2, <2>4 DEF SlotTaken, SlotAccounting, Clones
    <3>3. QED
      BY <1>0, <2>2, <2>4, <3>1, <3>2 DEF Bounded
  <2>5. QED
    BY <2>3, <2>4 DEF Bounded
<1>3. ASSUME NEW c \in Conns, SlotGiven(c) PROVE Bounded'
  <2>1. /\ Counted' \subseteq Counted
        /\ \A k \in Keys : CountedOf(k)' \subseteq CountedOf(k)
    <3>1. Holders' = Holders \ {c}
      BY <1>3 DEF TypeOK, SlotGiven, Holders, Held, Serving
    <3>2. \A d \in Holders' : sock'[d] = sock[d]
      BY <1>3, <3>1 DEF SlotGiven, Holders
    <3>3. QED
      BY <3>1, <3>2 DEF Counted, CountedOf, HoldersOf, key
  <2>2. /\ Cardinality(Counted') <= Cardinality(Counted)
        /\ Cardinality(Counted') \in Nat /\ Cardinality(Counted) \in Nat
    BY <2>1, HoldersFinite, FS_Subset, FS_CardinalityType
  <2>3. \A k \in Keys : /\ Cardinality(CountedOf(k)') <= Cardinality(CountedOf(k))
                        /\ Cardinality(CountedOf(k)') \in Nat
    BY <2>1, HoldersFinite, FS_Subset, FS_CardinalityType
  <2>4. QED
    BY <1>0, <2>2, <2>3 DEF Bounded
<1>4. QED
  BY <1>1, <1>2, <1>3, SlotMoves

\* Types, counting and bounds lean on each other (release keeps the counters
\* natural only because they count real slots), so they are proved together.
LEMMA SlotsCounted == Spec => [](TypeOK /\ SlotAccounting /\ Bounded)
<1>1. Init => TypeOK /\ SlotAccounting /\ Bounded
  <2> SUFFICES ASSUME Init PROVE TypeOK /\ SlotAccounting /\ Bounded
    OBVIOUS
  <2>1. TypeOK
    BY AnySockType DEF Init, TypeOK, PcType, NoSource, Source
  <2>2. /\ Counted = {}
        /\ \A k \in Keys : HoldersOf(k) = {} /\ CountedOf(k) = {}
    BY DEF Init, Counted, CountedOf, HoldersOf, Holders, Held, Serving
  <2>3. total = 0 /\ \A k \in Keys : src[k].active = 0
    BY DEF Init, NoSource
  <2>4. SlotAccounting
    BY <2>2, <2>3, FS_EmptySet DEF SlotAccounting
  <2>5. Bounded
    BY <2>2, FS_EmptySet, LimitAssumption DEF Bounded
  <2>6. QED
    BY <2>1, <2>4, <2>5
<1>2. TypeOK /\ SlotAccounting /\ Bounded /\ [Next]_vars
        => (TypeOK /\ SlotAccounting /\ Bounded)'
  BY TypeStep, SlotStep, BoundStep
<1>3. QED
  BY <1>1, <1>2, PTL DEF Spec

\* Every reachable state is well formed: in particular no counter of the source
\* table goes below zero (limits::release).
THEOREM ConnectionTypes == Spec => []TypeOK
  BY SlotsCounted, PTL

\* The counters of the source table are the slots really held, for any number
\* of connections (limits::try_admit and release as admit_and_run calls them).
THEOREM SlotsAccounted == Spec => []SlotAccounting
  BY SlotsCounted, PTL

\* Neither the global ceiling nor the clone cap is ever exceeded, for any limits
\* (limits::try_admit).
THEOREM LimitsHold == Spec => []Bounded
  BY SlotsCounted, PTL

-----------------------------------------------------------------------------
(* The connect rate.  An entry is dropped only when it has no admission in *)
(* the window left, so the entry's count is always the true one.           *)

RateInv == /\ \A k \in Keys : src[k].connects = opened[k]
           /\ ConnectRate

\* Every step keeps the entries' admission counts true and under the limit.
LEMMA RateStep == ASSUME TypeOK, RateInv, [Next]_vars PROVE RateInv'
<1> USE LimitAssumption DEF RateInv, ConnectRate
<1>1. CASE UNCHANGED <<src, opened>>
  BY <1>1
<1>2. ASSUME NEW c \in Conns PROVE key(c) \in Keys /\ Entry(key(c)) \in Source
                                   /\ Entry(key(c)).connects = src[key(c)].connects
  <2>1. key(c) \in Keys
    BY KeyAssumption DEF TypeOK, key, SockType
  <2>2. QED
    BY <2>1 DEF TypeOK, Entry, Source
<1>3. ASSUME NEW c \in Conns, Refuse(c) \/ AdmitExempt(c) \/ Handle(c) PROVE RateInv'
  <2>1. \A k \in Keys : src'[k].connects = src[k].connects
    <3>1. CASE src' = [src EXCEPT ![key(c)] = Entry(key(c))]
      BY <1>2, <3>1 DEF TypeOK, Source
    <3>2. CASE src' = [src EXCEPT ![key(c)] = [Entry(key(c)) EXCEPT !.active = @ + 1]]
      BY <1>2, <3>2 DEF TypeOK, Source
    <3>3. CASE src' = [src EXCEPT ![key(c)] = [Entry(key(c)) EXCEPT !.messages = @ + 1]]
      BY <1>2, <3>3 DEF TypeOK, Source
    <3>4. CASE src' = [src EXCEPT ![key(c)] = [Entry(key(c)) EXCEPT !.violations = @ + 1]]
      BY <1>2, <3>4 DEF TypeOK, Source
    <3>5. CASE UNCHANGED src
      BY <3>5
    <3>6. QED
      BY <1>3, <3>1, <3>2, <3>3, <3>4, <3>5
         DEF Refuse, AdmitExempt, Handle, Line, LineOver, FreeLine, Quit, Charged
  <2>2. opened' = opened
    BY <1>3 DEF Refuse, AdmitExempt, Handle, Line, LineOver, FreeLine, Quit
  <2>3. QED
    BY <2>1, <2>2
<1>4. ASSUME NEW c \in Conns, Admit(c) PROVE RateInv'
  <2> DEFINE e == [Entry(key(c)) EXCEPT !.active = @ + 1, !.connects = @ + 1]
  <2>1. e.connects = src[key(c)].connects + 1
    BY <1>2 DEF Source
  <2>2. /\ src' = [src EXCEPT ![key(c)] = e]
        /\ opened' = [opened EXCEPT ![key(c)] = @ + 1]
        /\ ~TooFast(key(c))
    BY <1>4 DEF Admit
  <2> HIDE DEF e
  <2>3. \A k \in Keys : src'[k].connects = opened'[k]
    BY <1>2, <2>1, <2>2 DEF TypeOK
  <2>4. MaxConnects > 0 => \A k \in Keys : opened'[k] <= MaxConnects
    BY <1>2, <2>2 DEF TypeOK, TooFast
  <2>5. QED
    BY <2>3, <2>4
<1>5. ASSUME NEW c \in Conns, Release(c) PROVE RateInv'
  <2> DEFINE e == [src[key(c)] EXCEPT !.active = Pred(@)]
  <2>1. e.connects = src[key(c)].connects /\ NoSource.connects = 0
    BY <1>2 DEF TypeOK, Source, NoSource
  <2>2. /\ opened' = opened
        /\ \/ UNCHANGED src
           \/ src' = [src EXCEPT ![key(c)] = e]
           \/ e.connects = 0 /\ src' = [src EXCEPT ![key(c)] = NoSource]
    BY <1>5 DEF Release
  <2> HIDE DEF e
  <2>3. \A k \in Keys : src'[k].connects = src[k].connects
    BY <1>2, <2>1, <2>2 DEF TypeOK
  <2>4. QED
    BY <2>2, <2>3
<1>6. ASSUME NEW k \in Keys, ConnectAges(k) PROVE RateInv'
  <2>1. src[k] \in Source /\ opened[k] \in Nat /\ opened[k] > 0
    BY <1>6 DEF TypeOK, ConnectAges
  <2>2. \A j \in Keys : src'[j].connects = IF j = k THEN opened[k] - 1 ELSE src[j].connects
    BY <1>6, <2>1 DEF TypeOK, ConnectAges, AtMost, Source
  <2>3. \A j \in Keys : opened'[j] = IF j = k THEN opened[k] - 1 ELSE opened[j]
    BY <1>6 DEF TypeOK, ConnectAges
  <2>4. QED
    BY <2>1, <2>2, <2>3 DEF TypeOK
<1>7. ASSUME NEW k \in Keys, MessageAges(k) PROVE RateInv'
  <2>1. \A j \in Keys : src'[j].connects = src[j].connects
    <3>1. \A j \in Keys : src[j] \in Source
      BY DEF TypeOK
    <3>2. QED
      BY <1>7, <3>1 DEF TypeOK, MessageAges, Source
  <2>2. QED
    BY <1>7, <2>1 DEF MessageAges
<1>8. QED
  BY <1>1, <1>3, <1>4, <1>5, <1>6, <1>7
     DEF Next, Task, Accept, Resolve, ResolvePeer, ResolveHeader, RefuseHeader, Resolved,
         Judge, Probe, ProbeGone, Handshake, HandshakeFails, Park, Read, ReaderEnds,
         Flushed, HangUp, Kill, RegTimeout, Kline, Unban, vars

\* No source is ever admitted more often than MaxConnects in a window,
\* whatever it closes and reopens (limits::try_admit, release).
THEOREM RateHolds == Spec => []ConnectRate
<1>1. Init => RateInv
  BY LimitAssumption DEF Init, RateInv, ConnectRate, NoSource
<1>2. TypeOK /\ RateInv /\ [Next]_vars => RateInv'
  BY RateStep
<1>3. RateInv => ConnectRate
  BY DEF RateInv
<1>4. QED
  BY <1>1, <1>2, <1>3, SlotsCounted, PTL DEF Spec

-----------------------------------------------------------------------------
(* Behind a trusted proxy.  Every client that is judged or served came     *)
(* with a header, so its exemption is that of its own key.                 *)

OwnExemption ==
  AllForwarded =>
    \A c \in Conns :
      /\ pc[c] = "resolve" => sock[c].port \in Listeners
      /\ pc[c] \in {"judge"} \cup Held => sock[c].exempt = (key(c) \in Exempt)

\* Every step keeps the exemptions the clients' own: a task leaves "resolve"
\* with the address of a header or not at all, and keeps it from then on.
LEMMA ExemptionStep ==
  ASSUME TypeOK, OwnExemption, [Next]_vars PROVE OwnExemption'
<1> SUFFICES ASSUME AllForwarded, NEW d \in Conns
             PROVE  /\ pc'[d] = "resolve" => sock'[d].port \in Listeners
                    /\ pc'[d] \in {"judge"} \cup Held =>
                         sock'[d].exempt = (KeyOf[sock'[d].host] \in Exempt)
  BY DEF OwnExemption, AllForwarded, key
<1> DEFINE Fine == /\ pc'[d] = "resolve" => sock'[d].port \in Listeners
                   /\ pc'[d] \in {"judge"} \cup Held =>
                        sock'[d].exempt = (KeyOf[sock'[d].host] \in Exempt)
<1>0. /\ pc[d] = "resolve" => sock[d].port \in Listeners
      /\ pc[d] \in {"judge"} \cup Held => sock[d].exempt = (KeyOf[sock[d].host] \in Exempt)
  BY DEF OwnExemption, key
<1>1. ASSUME sock'[d] = sock[d],
             pc'[d] = pc[d] \/ (pc[d] \in {"judge"} \cup Held /\ pc'[d] # "resolve")
      PROVE  Fine
  BY <1>0, <1>1
<1>2. ASSUME pc'[d] = "done" PROVE Fine
  BY <1>2 DEF Held, Serving
<1>3. ASSUME NEW c \in Conns, NEW l \in Listeners, NEW p \in Peers, Accept(c, l, p)
      PROVE  Fine
  <2>1. CASE c = d
    <3>1. pc'[d] = "resolve"
      BY <1>3, <2>1 DEF TypeOK, Accept, Goto
    <3>2. sock'[d].port = l
      BY <1>3, <2>1, AnySockType DEF TypeOK, Accept, SockType
    <3>3. QED
      BY <3>1, <3>2 DEF Held, Serving
  <2>2. CASE c # d
    BY <1>1, <1>3, <2>2 DEF TypeOK, Accept, Goto
  <2>3. QED
    BY <2>1, <2>2
<1>4. ASSUME NEW c \in Conns, Resolve(c) PROVE Fine
  <2>1. CASE c # d
    BY <1>1, <1>4, <2>1 DEF TypeOK, Resolve, ResolvePeer, ResolveHeader, RefuseHeader,
       Resolved, Returns, Goto
  <2>2. CASE c = d
    <3>1. ~ResolvePeer(c)
      BY <1>0, <2>2 DEF ResolvePeer, WantsHeader, AllForwarded, At
    <3>2. ASSUME RefuseHeader(c) PROVE Fine
      BY <1>2, <2>2, <3>2 DEF TypeOK, RefuseHeader, Returns, Goto
    <3>3. ASSUME NEW a \in Addrs, ResolveHeader(c, a) PROVE Fine
      <4>1. sock[c] \in SockType
        BY DEF TypeOK
      <4>2. /\ pc'[c] = "judge"
            /\ sock' = [sock EXCEPT ![c].host = a, ![c].exempt = (KeyOf[a] \in Exempt)]
        BY <3>3 DEF TypeOK, ResolveHeader, Resolved, Goto, AllForwarded
      <4>3. sock'[c].host = a /\ sock'[c].exempt = (KeyOf[a] \in Exempt)
        BY <4>1, <4>2 DEF TypeOK, SockType
      <4>4. QED
        BY <2>2, <4>2, <4>3
    <3>4. QED
      BY <1>4, <3>1, <3>2, <3>3 DEF Resolve
  <2>3. QED
    BY <2>1, <2>2
<1>5. ASSUME NEW c \in Conns, Refuse(c) \/ Release(c) PROVE Fine
  <2>1. CASE c = d
    BY <1>2, <1>5, <2>1 DEF TypeOK, Refuse, Release, Returns, Goto
  <2>2. CASE c # d
    BY <1>1, <1>5, <2>2 DEF TypeOK, Refuse, Release, Returns, Goto
  <2>3. QED
    BY <2>1, <2>2
<1>6. ASSUME NEW c \in Conns,
             \/ AdmitExempt(c) \/ Admit(c)
             \/ Probe(c) \/ ProbeGone(c) \/ Handshake(c) \/ HandshakeFails(c)
             \/ Park(c) \/ Read(c) \/ Handle(c) \/ Flushed(c) \/ ReaderEnds(c)
      PROVE  Fine
  <2>1. /\ sock' = sock
        /\ pc[c] \in {"judge"} \cup Held
        /\ \E l \in Held : pc' = [pc EXCEPT ![c] = l]
    BY <1>6 DEF AdmitExempt, Admit, Admitted, Probe, ProbeGone, Handshake, HandshakeFails,
       Park, Read, Handle, Line, LineOver, FreeLine, Quit, Handled, Flushed, ReaderEnds, Ended,
       Goto, At, Held, Serving
  <2>2. QED
    BY <1>1, <2>1 DEF TypeOK, Held, Serving
<1>7. ASSUME UNCHANGED <<pc, sock>> PROVE Fine
  BY <1>1, <1>7
<1>8. QED
  BY <1>3, <1>4, <1>5, <1>6, <1>7
     DEF Next, Task, Judge, HangUp, Kill, RegTimeout, Kline, Unban, ConnectAges, MessageAges, vars

\* Behind a trusted proxy no source outside the exemption list holds more
\* than MaxClones slots, even when the proxy itself is exempt
\* (admit_and_run's choice of exempt_key).
THEOREM ForwardedHolds == Spec => []ForwardedBounded
<1>1. Init => OwnExemption
  BY DEF Init, OwnExemption, Held, Serving
<1>2. TypeOK /\ OwnExemption /\ [Next]_vars => OwnExemption'
  BY ExemptionStep
<1>3. OwnExemption /\ Bounded => ForwardedBounded
  <2> SUFFICES ASSUME OwnExemption, Bounded, AllForwarded, MaxClones > 0,
                      NEW k \in Keys \ Exempt
               PROVE  Cardinality(HoldersOf(k)) <= MaxClones
    BY DEF ForwardedBounded
  <2>1. CountedOf(k) = HoldersOf(k)
    BY DEF OwnExemption, CountedOf, HoldersOf, Holders
  <2>2. QED
    BY <2>1 DEF Bounded
<1>4. QED
  BY <1>1, <1>2, <1>3, SlotsCounted, PTL DEF Spec

-----------------------------------------------------------------------------
(* Records and readers                                                     *)

Reading == {"wait", "busy", "flush", "last"}

\* Every step keeps records with their readers and signals with listeners:
\* a task outside the session's states has neither.
LEMMA ServedStep == ASSUME TypeOK, RecordServed, [Next]_vars PROVE RecordServed'
<1> USE DEF RecordServed, Listening, At
<1>1. ASSUME NEW c \in Conns, pc[c] \notin Reading,
             \E l \in PcType : pc' = [pc EXCEPT ![c] = l], rec' = rec, woken' = woken
      PROVE  RecordServed'
  BY <1>1 DEF TypeOK, Reading
<1>2. ASSUME NEW c \in Conns, Resolve(c) \/ Judge(c) \/ Probe(c) \/ ProbeGone(c) \/ Handshake(c)
                              \/ HandshakeFails(c) \/ Release(c)
      PROVE  RecordServed'
  BY <1>1, <1>2 DEF Resolve, ResolvePeer, ResolveHeader, RefuseHeader, Resolved, Returns, Judge,
     Refuse, AdmitExempt, Admit, Admitted, Probe, ProbeGone, Handshake, HandshakeFails, Release,
     Goto, PcType, Serving, Reading
<1>3. ASSUME NEW c \in Conns, NEW l \in Listeners, NEW p \in Peers, Accept(c, l, p)
      PROVE  RecordServed'
  BY <1>1, <1>3 DEF Accept, Goto, PcType, Reading
<1>4. ASSUME NEW c \in Conns, Park(c) \/ Read(c) PROVE RecordServed'
  BY <1>4 DEF TypeOK, Park, Read, Goto
<1>5. ASSUME NEW c \in Conns, Ended(c) PROVE RecordServed'
  BY <1>5 DEF TypeOK, Ended, Goto
<1>6. ASSUME NEW c \in Conns, pc[c] = "busy", Handled(c) PROVE RecordServed'
  BY <1>6 DEF TypeOK, Handled, Goto
<1>7. ASSUME NEW c \in Conns, pc[c] = "busy", Goto(c, "wait") \/ Goto(c, "last"),
             UNCHANGED <<rec, woken>>
      PROVE  RecordServed'
  BY <1>7 DEF TypeOK, Goto
<1>8. ASSUME NEW c \in Conns, Handle(c) \/ ReaderEnds(c) PROVE RecordServed'
  BY <1>5, <1>6, <1>7, <1>8 DEF Handle, Line, LineOver, FreeLine, Quit, ReaderEnds
<1>9. ASSUME NEW c \in Conns, Flushed(c) PROVE RecordServed'
  BY <1>5, <1>9 DEF TypeOK, Flushed, Goto
<1>10. ASSUME NEW S \in SUBSET Conns, Evicted(S), pc' = pc PROVE RecordServed'
  BY <1>10 DEF TypeOK, Evicted
<1>11. ASSUME NEW c \in Conns, HangUp(c) \/ Kill(c) \/ RegTimeout(c) PROVE RecordServed'
  <2>1. CASE HangUp(c)
    BY <2>1 DEF HangUp
  <2>2. CASE Kill(c) \/ RegTimeout(c)
    BY <1>10, <2>2 DEF Kill, RegTimeout
  <2>3. QED
    BY <1>11, <2>1, <2>2
<1>12. ASSUME NEW m \in Masks, Kline(m) \/ Unban(m) PROVE RecordServed'
  <2>1. CASE Kline(m)
    BY <1>10, <2>1 DEF Kline
  <2>2. CASE Unban(m)
    BY <2>2 DEF Unban
  <2>3. QED
    BY <1>12, <2>1, <2>2
<1>13. ASSUME UNCHANGED <<pc, rec, woken>> PROVE RecordServed'
  BY <1>13
<1>14. QED
  BY <1>2, <1>3, <1>4, <1>8, <1>9, <1>11, <1>12, <1>13
     DEF Next, Task, ConnectAges, MessageAges, vars

\* A session's record exists only while its reader runs, and a reader is
\* signalled only when its record is gone (run_reader, cleanup_on_eof, evict).
THEOREM RecordsServed == Spec => []RecordServed
<1>1. Init => RecordServed
  BY DEF Init, RecordServed
<1>2. TypeOK /\ RecordServed /\ [Next]_vars => RecordServed'
  BY ServedStep
<1>3. QED
  BY <1>1, <1>2, SlotsCounted, PTL DEF Spec

=============================================================================
