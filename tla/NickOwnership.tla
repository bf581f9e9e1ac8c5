--------------------------- MODULE NickOwnership ---------------------------
(***************************************************************************)
(* What the server's nick table promises, without saying how: a nick has   *)
(* at most one holder, a connection holds at most one nick, a held nick    *)
(* changes hands only by being free in between, and a connection that has  *)
(* left never holds a nick again.  Registration implements this            *)
(* specification (Registration!Ownership).                                 *)
(***************************************************************************)
EXTENDS Naturals

CONSTANTS Conns,   \* connection ids: never reused (ops.rs, NEXT_ID)
          Nicks,   \* normalized nick keys
          None     \* "no connection"

VARIABLES owner,   \* who holds each nick
          left     \* the connections whose session is over

vars == <<owner, left>>

Holders == { owner[k] : k \in Nicks } \ {None}

Init == /\ owner = [k \in Nicks |-> None]
        /\ left = {}

\* A connection without a nick takes a free one.
Claim(c, k) == /\ owner[k] = None
               /\ c \notin Holders \cup left
               /\ owner' = [owner EXCEPT ![k] = c]
               /\ UNCHANGED left

\* A holder gives up its nick for another free one in a single step.
Move(c, j, k) == /\ owner[j] = c
                 /\ owner[k] = None
                 /\ owner' = [owner EXCEPT ![j] = None, ![k] = c]
                 /\ UNCHANGED left

\* Some connections leave; the nicks they held become free.
Leave(S) == /\ owner' = [k \in Nicks |-> IF owner[k] \in S THEN None ELSE owner[k]]
            /\ left' = left \cup S

Next == \/ \E c \in Conns, k \in Nicks : Claim(c, k)
        \/ \E c \in Conns, j, k \in Nicks : Move(c, j, k)
        \/ \E S \in SUBSET Conns : Leave(S)

Spec == Init /\ [][Next]_vars
=============================================================================
