----------------------------- MODULE GlobProofs -----------------------------
(***************************************************************************)
(* What holds of glob_match for masks and texts of any length: it answers  *)
(* yes only for a text that matches, it answers no to a matching text only *)
(* if that holds a star, and no step of its loop goes round in a circle.   *)
(*                                                                         *)
(* The loop keeps one point to come back to and forgets the earlier ones.  *)
(* That nothing is lost by it is what Kept, Ahead and Forced say: among    *)
(* the ways to cut the text up, those that give the last star at least     *)
(* what it has taken so far are enough, and the loop is never ahead of any *)
(* of them.                                                                *)
(***************************************************************************)
EXTENDS Glob, SequenceTheorems, TLAPS

\* The ways to cut t up that make a match of m.
Full(m, t) == { c \in Cuts(m, t) : Aligns(m, t, c, Len(m) + 1, Len(t) + 1) }

Starless(t) == \A i \in DOMAIN t : t[i] # "*"

\* The text up to j can be given to the mask up to i.
Reached(m, t, i, j) == \E c \in Cuts(m, t) : Aligns(m, t, c, i, j)

\* Where the loop is, and where its last star is.
Positions ==
  /\ mask \in Seq(Chars \cup Wild) /\ text \in Seq(Chars)
  /\ star = 0 => backtrack = 0
  /\ star # 0 => star < mi /\ mask[star] = "*" /\ backtrack \in 1..ti

\* What has been read can be given to the mask so far, and what was read at
\* the last star to the mask before that.
Sound ==
  /\ Reached(mask, text, mi, ti)
  /\ star # 0 => \E b \in 1..backtrack : Reached(mask, text, star, b)
  /\ answer = "yes" => mi = Len(mask) + 1 /\ ti = Len(text) + 1

\* If there is a match, there is one that gives the last star what it has.
Kept ==
  Matches(mask, text) => \E c \in Full(mask, text) : c[star + 1] >= backtrack

\* None of those is behind the loop, and one that gives the star no more is
\* where the loop is.
Ahead ==
  \A c \in Full(mask, text) : c[star + 1] >= backtrack => c[mi] >= ti
Forced ==
  \A c \in Full(mask, text) : star = 0 \/ c[star + 1] = backtrack => c[mi] = ti

Complete ==
  Starless(text) => /\ Kept /\ Ahead /\ Forced
                    /\ answer = "no" => ~Matches(mask, text)

Inv == TypeOK /\ Positions /\ Sound /\ Complete

-----------------------------------------------------------------------------
(* Ways to cut a text up                                                   *)

\* A match is a full cut.
LEMMA MatchIsCut == \A m, t : Matches(m, t) <=> Full(m, t) # {}
BY DEF Matches, Full

\* What a full cut gives to each character of the mask.
LEMMA FullCut ==
  ASSUME NEW m, NEW t, Len(m) \in Nat, Len(t) \in Nat, NEW c \in Full(m, t)
  PROVE  /\ c[1] = 1 /\ c[Len(m) + 1] = Len(t) + 1
         /\ \A n \in 1..Len(m) + 1 : c[n] \in 1..Len(t) + 1
         /\ \A n \in 1..Len(m) : Takes(t, m[n], c[n], c[n + 1])
BY DEF Full, Cuts, Aligns

\* A cut up to one character of the mask is extended to the next.
LEMMA Extended ==
  ASSUME NEW m, NEW t, Len(m) \in Nat, Len(t) \in Nat,
         NEW i \in 1..Len(m), NEW j \in 1..Len(t) + 1, NEW k \in 1..Len(t) + 1,
         Reached(m, t, i, j), Takes(t, m[i], j, k)
  PROVE  Reached(m, t, i + 1, k)
<1>1. PICK c \in Cuts(m, t) : Aligns(m, t, c, i, j)
  BY DEF Reached
<1> DEFINE d == [c EXCEPT ![i + 1] = k]
<1>2. /\ d \in Cuts(m, t) /\ d[i + 1] = k
      /\ \A n \in 1..i : d[n] = c[n]
  BY <1>1 DEF Cuts
<1> HIDE DEF d
<1>3. d[1] = 1 /\ d[i] = j
  BY <1>1, <1>2 DEF Aligns
<1>4. ASSUME NEW n \in 1..i PROVE Takes(t, m[n], d[n], d[n + 1])
  <2>1. CASE n = i
    BY <1>2, <1>3, <2>1
  <2>2. CASE n # i
    <3>1. n \in 1..i - 1 /\ n + 1 \in 1..i
      BY <2>2
    <3>2. Takes(t, m[n], c[n], c[n + 1])
      BY <1>1, <3>1 DEF Aligns
    <3> QED BY <1>2, <3>1, <3>2
  <2> QED BY <2>1, <2>2
<1>5. (i + 1) - 1 = i
  OBVIOUS
<1>6. Aligns(m, t, d, i + 1, k)
  BY <1>2, <1>3, <1>4, <1>5 DEF Aligns
<1> QED BY <1>2, <1>6 DEF Reached

\* Lengths and positions are numbers.
LEMMA Numbers ==
  ASSUME TypeOK, Positions
  PROVE  /\ Len(mask) \in Nat /\ Len(text) \in Nat
         /\ mi \in Nat /\ ti \in Nat /\ star \in Nat /\ backtrack \in Nat
         /\ 1 <= mi /\ mi <= Len(mask) + 1 /\ 1 <= ti /\ ti <= Len(text) + 1
         /\ star <= Len(mask) /\ star < mi
<1>1. Len(mask) \in Nat /\ Len(text) \in Nat
  BY LenProperties DEF Positions
<1> QED BY <1>1 DEF TypeOK, Positions

-----------------------------------------------------------------------------
(* The steps                                                               *)

\* Of a text without stars, a literal of the mask takes one character.
LEMMA LiteralTakes ==
  ASSUME TypeOK, Positions, InText, Literal
  PROVE  /\ mi \in 1..Len(mask) /\ ti \in 1..Len(text)
         /\ Takes(text, mask[mi], ti, ti + 1)
         /\ Starless(text) => \A j, k : Takes(text, mask[mi], j, k) => k = j + 1
<1>1. mi \in 1..Len(mask) /\ ti \in 1..Len(text)
  BY Numbers DEF InText, Literal, InMask
<1>2. ti <= ti + 1 /\ ti <= Len(text)
  BY <1>1, Numbers
<1>3. Takes(text, mask[mi], ti, ti + 1)
  BY <1>2 DEF Takes, Literal
<1>4. Starless(text) => mask[mi] # "*"
  <2>1. DOMAIN text = 1..Len(text)
    BY LenProperties DEF Positions
  <2> QED BY <1>1, <2>1 DEF Literal, Starless
<1> QED BY <1>1, <1>3, <1>4 DEF Takes

\* A character that stands for itself or for any takes one of the text: every cut
\* that was there goes along.
LEMMA AdvanceStep == ASSUME Inv, Advance PROVE Inv'
<1>0. /\ TypeOK /\ Positions /\ InText /\ Literal /\ mi' = mi + 1 /\ ti' = ti + 1
      /\ UNCHANGED <<mask, text, star, backtrack, answer>> /\ answer = "open"
  BY DEF Inv, Advance, InText
<1>1. /\ mi \in 1..Len(mask) /\ ti \in 1..Len(text)
      /\ Takes(text, mask[mi], ti, ti + 1)
      /\ Starless(text) => \A j, k : Takes(text, mask[mi], j, k) => k = j + 1
  BY <1>0, LiteralTakes
<1>2. /\ Len(mask) \in Nat /\ Len(text) \in Nat
      /\ star \in Nat /\ backtrack \in Nat /\ star < mi /\ star <= Len(mask)
  BY <1>0, Numbers
<1>3. TypeOK'
  BY <1>0, <1>1, <1>2 DEF TypeOK
<1>4. Positions'
  BY <1>0, <1>1, <1>2 DEF Positions
<1>5. Sound'
  <2>1. Reached(mask, text, mi, ti)
    BY DEF Inv, Sound
  <2>2. Reached(mask, text, mi + 1, ti + 1)
    <3>1. ti \in 1..Len(text) + 1 /\ ti + 1 \in 1..Len(text) + 1
      BY <1>1, <1>2
    <3> QED BY <1>1, <1>2, <2>1, <3>1, Extended
  <2> QED BY <1>0, <2>2 DEF Inv, Sound
<1>6. Complete'
  <2> SUFFICES ASSUME Starless(text)
               PROVE  Kept' /\ Ahead' /\ Forced' /\ answer' # "no"
    BY <1>0 DEF Complete
  <2>1. Kept /\ Ahead /\ Forced
    BY DEF Inv, Complete
  <2>2. \A c \in Full(mask, text) : c[mi] \in Nat /\ c[mi + 1] = c[mi] + 1
    BY <1>1, <1>2, FullCut
  <2>3. Kept' /\ answer' # "no"
    BY <1>0, <2>1 DEF Kept
  <2>4. Ahead'
    BY <1>0, <1>1, <2>1, <2>2 DEF Ahead
  <2>5. Forced'
    BY <1>0, <1>1, <2>1, <2>2 DEF Forced
  <2> QED BY <2>3, <2>4, <2>5
<1> QED BY <1>3, <1>4, <1>5, <1>6 DEF Inv

\* A later star: whatever came before it can stay as the loop has it.
LEMMA StarStep == ASSUME Inv, Star PROVE Inv'
<1>0. /\ TypeOK /\ Positions /\ InMask /\ mask[mi] = "*"
      /\ star' = mi /\ backtrack' = ti /\ mi' = mi + 1
      /\ UNCHANGED <<mask, text, ti, answer>> /\ answer = "open" /\ ti <= Len(text)
  BY DEF Inv, Star, InText
<1>1. /\ Len(mask) \in Nat /\ Len(text) \in Nat
      /\ mi \in 1..Len(mask) /\ ti \in 1..Len(text) + 1 /\ ti \in Nat
      /\ star \in Nat /\ backtrack \in Nat /\ star < mi /\ star <= Len(mask)
  BY <1>0, Numbers DEF InMask
<1>2. TypeOK'
  BY <1>0, <1>1 DEF TypeOK
<1>3. Positions'
  BY <1>0, <1>1 DEF Positions
<1>4. Sound'
  <2>1. Reached(mask, text, mi, ti) /\ Takes(text, mask[mi], ti, ti)
    BY <1>0, <1>1 DEF Inv, Sound, Takes
  <2>2. Reached(mask, text, mi + 1, ti)
    BY <1>1, <2>1, Extended
  <2>3. ti \in 1..ti
    BY <1>1
  <2> QED BY <1>0, <2>1, <2>2, <2>3 DEF Sound
<1>5. Complete'
  <2> SUFFICES ASSUME Starless(text)
               PROVE  Kept' /\ Ahead' /\ Forced' /\ answer' # "no"
    BY <1>0 DEF Complete
  <2>1. Kept /\ Ahead
    BY DEF Inv, Complete
  <2>2. \A c \in Full(mask, text) :
          c[mi] \in Nat /\ c[mi + 1] \in Nat /\ c[mi] <= c[mi + 1]
    BY <1>0, <1>1, FullCut DEF Takes
  <2>3. Kept'
    BY <1>0, <1>1, <2>1, <2>2 DEF Kept, Ahead
  <2>4. Ahead' /\ Forced' /\ answer' # "no"
    BY <1>0, <1>1 DEF Ahead, Forced
  <2> QED BY <2>3, <2>4
<1> QED BY <1>2, <1>3, <1>4, <1>5 DEF Inv

\* Where the loop is stuck, no full cut can be.
LEMMA Stuck ==
  ASSUME TypeOK, Positions, AtEnd, NEW c \in Full(mask, text)
  PROVE  c[mi] # ti
<1>0. /\ Len(mask) \in Nat /\ Len(text) \in Nat /\ mi \in Nat /\ ti \in Nat
      /\ 1 <= mi /\ mi <= Len(mask) + 1 /\ 1 <= ti /\ ti <= Len(text)
  BY Numbers DEF AtEnd, InText
<1>1. CASE InMask
  <2>1. mi \in 1..Len(mask)
    BY <1>0, <1>1 DEF InMask
  <2>2. Takes(text, mask[mi], c[mi], c[mi + 1])
    BY <1>0, <2>1, FullCut
  <2> QED BY <1>1, <2>2 DEF Takes, AtEnd, Literal
<1>2. CASE ~InMask
  <2>1. mi = Len(mask) + 1
    BY <1>0, <1>2 DEF InMask
  <2>2. c[mi] = Len(text) + 1
    BY <1>0, <2>1, FullCut
  <2> QED BY <1>0, <2>2
<1> QED BY <1>1, <1>2

\* The character after the star fits nowhere at this point, so no cut leaves the
\* star with what it has: it takes one more.
LEMMA BacktrackStep == ASSUME Inv, Backtrack PROVE Inv'
<1>0. /\ TypeOK /\ Positions /\ AtEnd /\ star # 0
      /\ mi' = star + 1 /\ ti' = backtrack + 1 /\ backtrack' = backtrack + 1
      /\ UNCHANGED <<mask, text, star, answer>> /\ answer = "open" /\ ti <= Len(text)
  BY DEF Inv, Backtrack, AtEnd, InText
<1>1. /\ Len(mask) \in Nat /\ Len(text) \in Nat /\ ti \in Nat /\ mask[star] = "*"
      /\ star \in 1..Len(mask) /\ backtrack \in 1..Len(text)
  BY <1>0, Numbers DEF Positions
<1>2. TypeOK'
  BY <1>0, <1>1 DEF TypeOK
<1>3. Positions'
  BY <1>0, <1>1 DEF Positions
<1>4. Sound'
  <2>1. PICK b \in 1..backtrack : Reached(mask, text, star, b)
    BY <1>0 DEF Inv, Sound
  <2>2. /\ b \in 1..Len(text) + 1 /\ backtrack + 1 \in 1..Len(text) + 1
        /\ Takes(text, mask[star], b, backtrack + 1)
    BY <1>1 DEF Takes
  <2>3. Reached(mask, text, star + 1, backtrack + 1)
    BY <1>1, <2>1, <2>2, Extended
  <2>4. b \in 1..backtrack + 1
    BY <1>1
  <2> QED BY <1>0, <2>1, <2>3, <2>4 DEF Sound
<1>5. Complete'
  <2> SUFFICES ASSUME Starless(text)
               PROVE  Kept' /\ Ahead' /\ Forced' /\ answer' # "no"
    BY <1>0 DEF Complete
  <2>1. Kept /\ Forced
    BY DEF Inv, Complete
  <2>2. \A c \in Full(mask, text) : c[star + 1] \in Nat /\ c[star + 1] # backtrack
    BY <1>0, <1>1, <2>1, Stuck, FullCut DEF Forced
  <2>3. Kept'
    BY <1>0, <1>1, <2>1, <2>2 DEF Kept
  <2>4. Ahead' /\ Forced' /\ answer' # "no"
    BY <1>0 DEF Ahead, Forced
  <2> QED BY <2>3, <2>4
<1> QED BY <1>2, <1>3, <1>4, <1>5 DEF Inv

\* With no star behind it the loop is where every cut must be: if it cannot go on,
\* there is none.
LEMMA RefuseStep == ASSUME Inv, Refuse PROVE Inv'
<1>0. /\ TypeOK /\ Positions /\ AtEnd /\ star = 0 /\ answer' = "no"
      /\ UNCHANGED <<mask, text, mi, ti, star, backtrack>>
  BY DEF Inv, Refuse
<1>1. TypeOK' /\ Positions' /\ Sound'
  BY <1>0 DEF TypeOK, Positions, Inv, Sound, Answers
<1>2. Starless(text) => ~Matches(mask, text)
  BY <1>0, Stuck, MatchIsCut DEF Inv, Complete, Forced
<1>3. Complete'
  BY <1>0, <1>2 DEF Inv, Complete, Kept, Ahead, Forced
<1> QED BY <1>1, <1>3 DEF Inv

\* The text is used up, and stars remain of the mask or nothing does.
LEMMA FinishStep == ASSUME Inv, Finish PROVE Inv'
<1>0. /\ TypeOK /\ Positions /\ answer = "open" /\ ti > Len(text)
      /\ UNCHANGED <<mask, text, ti, star, backtrack>>
  BY DEF Inv, Finish
<1>1. /\ Len(mask) \in Nat /\ Len(text) \in Nat /\ mi \in Nat /\ ti = Len(text) + 1
      /\ 1 <= mi /\ mi <= Len(mask) + 1
      /\ star \in Nat /\ backtrack \in Nat /\ star < mi /\ star <= Len(mask)
  BY <1>0, Numbers
<1>2. CASE InMask /\ mask[mi] = "*"
  <2>0. mi' = mi + 1 /\ answer' = answer /\ mi \in 1..Len(mask)
    BY <1>1, <1>2 DEF Finish, InMask
  <2>1. TypeOK' /\ Positions'
    BY <1>0, <1>1, <2>0 DEF TypeOK, Positions
  <2>2. Sound'
    <3>1. Reached(mask, text, mi, ti) /\ Takes(text, mask[mi], ti, ti)
      BY <1>1, <1>2 DEF Inv, Sound, Takes
    <3>2. Reached(mask, text, mi + 1, ti)
      BY <1>1, <2>0, <3>1, Extended
    <3> QED BY <1>0, <2>0, <3>2 DEF Inv, Sound
  <2>3. \A c \in Full(mask, text) : /\ c[mi] \in Nat /\ c[mi + 1] \in 1..Len(text) + 1
                                    /\ c[mi] <= c[mi + 1]
    BY <1>1, <1>2, <2>0, FullCut DEF Takes
  <2>4. Complete'
    <3> SUFFICES ASSUME Starless(text)
                 PROVE  Kept' /\ Ahead' /\ Forced' /\ answer' # "no"
      BY <1>0 DEF Complete
    <3>1. Kept /\ Ahead /\ Forced
      BY DEF Inv, Complete
    <3>2. Kept' /\ answer' # "no"
      BY <1>0, <2>0, <3>1 DEF Kept
    <3>3. Ahead' /\ Forced'
      BY <1>0, <1>1, <2>0, <2>3, <3>1 DEF Ahead, Forced
    <3> QED BY <3>2, <3>3
  <2> QED BY <2>1, <2>2, <2>4 DEF Inv
<1>3. CASE ~(InMask /\ mask[mi] = "*")
  <2>0. mi' = mi /\ answer' = IF InMask THEN "no" ELSE "yes"
    BY <1>3 DEF Finish
  <2>1. TypeOK' /\ Positions'
    BY <1>0, <2>0 DEF TypeOK, Positions, Answers
  <2>2. Sound'
    BY <1>0, <1>1, <2>0 DEF Inv, Sound, InMask
  <2>3. InMask /\ Starless(text) => ~Matches(mask, text)
    <3> SUFFICES ASSUME InMask, Starless(text), Matches(mask, text) PROVE FALSE
      OBVIOUS
    <3>1. PICK c \in Full(mask, text) : c[mi] >= ti
      BY DEF Inv, Complete, Kept, Ahead
    <3>2. /\ mi \in 1..Len(mask) /\ c[mi] \in Nat
          /\ Takes(text, mask[mi], c[mi], c[mi + 1])
      BY <1>1, FullCut DEF InMask
    <3> QED BY <1>1, <1>3, <3>1, <3>2 DEF Takes
  <2>4. Complete'
    BY <1>0, <2>0, <2>3 DEF Inv, Complete, Kept, Ahead, Forced
  <2> QED BY <2>1, <2>2, <2>4 DEF Inv
<1> QED BY <1>2, <1>3

-----------------------------------------------------------------------------
(* All steps                                                               *)

\* The whole mask and the whole text are still to come.
LEMMA InvInit == Init => Inv
<1> SUFFICES ASSUME Init PROVE Inv
  OBVIOUS
<1>1. mask \in Seq(Chars \cup Wild) /\ text \in Seq(Chars)
  BY LengthAssumption, SeqDef DEF Init, Strings
<1>2. Len(mask) \in Nat /\ Len(text) \in Nat
  BY <1>1, LenProperties
<1>3. TypeOK
  BY <1>2 DEF Init, TypeOK, Answers
<1>4. Positions
  BY <1>1 DEF Init, Positions
<1>5. Sound
  <2> DEFINE c == [n \in 1..Len(mask) + 1 |-> 1]
  <2>1. c \in Cuts(mask, text) /\ Aligns(mask, text, c, 1, 1)
    BY <1>2 DEF Cuts, Aligns
  <2> HIDE DEF c
  <2>2. Reached(mask, text, 1, 1)
    BY <2>1 DEF Reached
  <2> QED BY <2>2 DEF Init, Sound
<1>6. Complete
  <2>1. \A c \in Full(mask, text) : c[1] = 1
    BY <1>2, FullCut
  <2>2. Kept /\ Ahead /\ Forced
    BY <2>1, MatchIsCut DEF Init, Kept, Ahead, Forced
  <2> QED BY <2>2 DEF Init, Complete
<1> QED BY <1>3, <1>4, <1>5, <1>6 DEF Inv

\* Every branch of the loop keeps the invariant.
LEMMA InvStep == Inv /\ [Next]_vars => Inv'
<1> SUFFICES ASSUME Inv, [Next]_vars PROVE Inv'
  OBVIOUS
<1>1. CASE UNCHANGED vars
  BY <1>1 DEF vars, Inv, TypeOK, Positions, Sound, Complete, Kept, Ahead, Forced
<1> QED BY <1>1, AdvanceStep, StarStep, BacktrackStep, RefuseStep, FinishStep DEF Next

\* So it always holds.
LEMMA InvAlways == Spec => []Inv
BY InvInit, InvStep, PTL DEF Spec

\* The positions of glob_match stay within the mask and the text: it indexes
\* neither out of bounds, whatever it is given.
THEOREM InBounds == Spec => []TypeOK
<1>1. Inv => TypeOK
  BY DEF Inv
<1> QED BY <1>1, InvAlways, PTL

\* One point to come back to is enough: glob_match answers yes only to a match,
\* and no only to a text that does not match or has a star of its own.
THEOREM MatcherCorrect == Spec => []GlobCorrect
<1>1. Inv => GlobCorrect
  <2> SUFFICES ASSUME Inv PROVE GlobCorrect
    OBVIOUS
  <2>1. answer = "yes" => Matches(mask, text)
    BY DEF Inv, Sound, Reached, Matches
  <2>2. answer = "no" => ~Matches(mask, text) \/ \E i \in DOMAIN text : text[i] = "*"
    BY DEF Inv, Complete, Starless
  <2> QED BY <2>1, <2>2 DEF GlobCorrect
<1> QED BY <1>1, InvAlways, PTL

\* No iteration of either loop of glob_match repeats an earlier one: the star,
\* the point to come back to and the place in the mask only ever grow, in this
\* order of weight, and InBounds bounds all three.
THEOREM LoopsAdvance == Spec => Advances
<1> DEFINE A == \/ answer' # "open"
                \/ star' > star
                \/ star' = star /\ backtrack' > backtrack
                \/ star' = star /\ backtrack' = backtrack /\ mi' > mi
<1>1. ASSUME Inv, Next PROVE A
  <2>0. mi \in Nat /\ star \in Nat /\ backtrack \in Nat /\ star < mi
    BY <1>1, Numbers DEF Inv
  <2> QED BY <1>1, <2>0 DEF Next, Advance, Star, Backtrack, Refuse, Finish
<1>2. Inv /\ [Next]_vars => [A]_vars
  BY <1>1
<1> QED BY <1>2, InvAlways, PTL DEF Spec, Advances

=============================================================================
