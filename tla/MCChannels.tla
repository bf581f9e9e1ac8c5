----------------------------- MODULE MCChannels -----------------------------
(* Instances of Channels for TLC: two users, a mask that matches one.      *)
EXTENDS Channels, TLC

CONSTANTS ann, bob, main, side,
          MaxModes    \* bound: modes a channel has set at a time

BobMask == {{bob}}

\* The side channel is there for the channel limit and the sweep: nobody sets
\* its modes, registers it, invites to it or is on it from elsewhere.  Voices
\* are granted, and nothing follows, since nothing here reads them.
Bounded ==
  /\ \A ch \in Chans : /\ Cardinality(chan[ch].modes) <= MaxModes
                       /\ chan[ch].privs \subseteq {"o"} \X Users
  /\ chan[side].modes = {} /\ chan[side].invites = {} /\ chan[side].topic = Empty
  /\ founder[side] = Empty /\ remote[side] = {} /\ modal # side

=============================================================================
