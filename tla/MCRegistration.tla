--------------------------- MODULE MCRegistration ---------------------------
(* Registration on small instances for TLC.                                *)
EXTENDS Registration, TLC

Symmetry == Permutations(Conns) \cup Permutations(Nicks)

\* Two requesters after one nick need three connections: that run leaves
\* capability negotiation and the liveness sweep to the two-connection run,
\* has one marker at a time, with distinct requesters, and lets only the
\* clocks of a reclaim (silence, grace) run out.
Contest ==
  /\ \A c \in Conns : ~cx[c].negotiating
  /\ elapsed \subseteq {"silence", "grace"} \X Conns
  /\ Cardinality({ h \in Conns : Clock("silence", h) \in elapsed }) <= 2
  /\ Cardinality({ h \in Conns : mark[h].on }) <= 1
  /\ \A h \in Conns : LET asked == Requests(TRUE, mark[h].pairings)
                                     \o Requests(FALSE, mark[h].renames)
                      IN  \A i, j \in DOMAIN asked :
                            asked[i].id = asked[j].id => i = j
=============================================================================
