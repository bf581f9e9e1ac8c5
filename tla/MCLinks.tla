------------------------------ MODULE MCLinks ------------------------------
(* Instances of Links for TLC: two servers and the connections that the    *)
(* first of them dials.                                                    *)
EXTENDS Links

CONSTANTS east, west,        \* servers
          ann, amy, bob      \* users

UserHome == [u \in Users |-> IF u = bob THEN west ELSE east]

\* Connection n has its dialling end <<n, "out">> at east.
OneConn  == {1} \X {"out", "in"}
TwoConns == {1, 2} \X {"out", "in"}

OtherEnd == [e \in Ends |-> <<e[1], IF e[2] = "out" THEN "in" ELSE "out">>]
EndAt    == [e \in Ends |-> IF e[2] = "out" THEN east ELSE west]
\* A channel of east is younger than one of west.
Created  == [s \in Servers |-> IF s = east THEN {2} ELSE {1}]

Dialling == { e \in Ends : e[2] = "out" }

\* Nobody leaves but ann (a user that left does not come back), only she
\* speaks, and the connection holds three lines at a time, two after she has
\* left, or her message alone.
Bounded ==
  LET lines  == wire[<<1, "out">>] \o wire[<<1, "in">>]
      spoken == SelectSeq(lines, LAMBDA m : m.kind = "MESSAGE")
  IN  /\ gone \subseteq {ann}
      /\ spoken \in {<<>>, <<UserLine("MESSAGE", ann)>>}
      /\ Len(lines) + 2 * Len(spoken) + Cardinality(gone) <= 3

=============================================================================
