-------------------------------- MODULE Glob --------------------------------
(***************************************************************************)
(* bans::glob_match, the matcher behind K-lines, trusted proxies, exempt   *)
(* sources, channel bans, WHO and LIST: one loop with one point to come    *)
(* back to, where the definition of a match tries every way to split the   *)
(* text.  A step is an iteration of one of its two loops.                  *)
(***************************************************************************)
EXTENDS Naturals, Sequences

CONSTANTS Chars,     \* characters of a text
          MaxMask,   \* bound: length of a mask
          MaxText    \* bound: length of a text

ASSUME LengthAssumption == MaxMask \in Nat /\ MaxText \in Nat

VARIABLES mask, text,
          mi, ti,            \* positions, from 1
          star, backtrack,   \* the last star and where the text was then; 0 for none
          answer

vars == <<mask, text, mi, ti, star, backtrack, answer>>

Strings(S, n) == UNION { [1..k -> S] : k \in 0..n }
Wild    == {"*", "?"}
Answers == {"open", "yes", "no"}

TypeOK ==
  /\ mi \in 1..Len(mask) + 1 /\ ti \in 1..Len(text) + 1
  /\ star \in 0..Len(mask) /\ backtrack \in 0..Len(text) + 1
  /\ answer \in Answers

Init ==
  /\ mask \in Strings(Chars \cup Wild, MaxMask)
  /\ text \in Strings(Chars, MaxText)
  /\ mi = 1 /\ ti = 1 /\ star = 0 /\ backtrack = 0
  /\ answer = "open"

-----------------------------------------------------------------------------

InText == answer = "open" /\ ti <= Len(text)
InMask == mi <= Len(mask)

\* The character stands for itself or for any; this is asked first, so a star
\* in the text meets a star in the mask as a character.
Literal == InMask /\ mask[mi] \in {"?", text[ti]}

Advance ==
  /\ InText /\ Literal
  /\ mi' = mi + 1 /\ ti' = ti + 1
  /\ UNCHANGED <<mask, text, star, backtrack, answer>>

Star ==
  /\ InText /\ ~Literal
  /\ InMask /\ mask[mi] = "*"
  /\ star' = mi /\ backtrack' = ti /\ mi' = mi + 1
  /\ UNCHANGED <<mask, text, ti, answer>>

AtEnd == InText /\ ~Literal /\ ~(InMask /\ mask[mi] = "*")

\* Mutant: a character is skipped.
Backtrack_skips ==
  /\ AtEnd /\ star # 0
  /\ mi' = star + 1 /\ ti' = backtrack + 2
  /\ backtrack' = backtrack + 1
  /\ UNCHANGED <<mask, text, star, answer>>

\* Mutant: the text is tried again from where it was.
Backtrack_in_place ==
  /\ AtEnd /\ star # 0
  /\ mi' = star + 1 /\ ti' = backtrack
  /\ UNCHANGED <<mask, text, star, backtrack, answer>>

\* Mutant: the text is not taken back.
Backtrack_mask_only ==
  /\ AtEnd /\ star # 0
  /\ mi' = star + 1 /\ ti' = ti + 1
  /\ UNCHANGED <<mask, text, star, backtrack, answer>>

\* The star takes one character more.
Backtrack ==
  /\ AtEnd /\ star # 0
  /\ mi' = star + 1 /\ ti' = backtrack + 1
  /\ backtrack' = backtrack + 1
  /\ UNCHANGED <<mask, text, star, answer>>

Refuse ==
  /\ AtEnd /\ star = 0
  /\ answer' = "no"
  /\ UNCHANGED <<mask, text, mi, ti, star, backtrack>>

\* The text is used up: stars may remain.
Finish ==
  /\ answer = "open" /\ ti > Len(text)
  /\ IF InMask /\ mask[mi] = "*"
       THEN mi' = mi + 1 /\ answer' = answer
       ELSE mi' = mi /\ answer' = IF InMask THEN "no" ELSE "yes"
  /\ UNCHANGED <<mask, text, ti, star, backtrack>>

Next == Advance \/ Star \/ Backtrack \/ Refuse \/ Finish

Spec == Init /\ [][Next]_vars /\ WF_vars(Next)

-----------------------------------------------------------------------------
(* Properties                                                              *)

\* The stretch of t from position j up to k goes to character x of a mask: any
\* run to a star, any character to a question mark, itself to anything else.
Takes(t, x, j, k) ==
  IF x = "*" THEN j <= k
  ELSE k = j + 1 /\ j <= Len(t) /\ x \in {"?", t[j]}

\* The ways to cut t at one position for every character of m and the end.
Cuts(m, t) == [1..Len(m) + 1 -> 1..Len(t) + 1]

\* c gives t up to position j to the first i - 1 characters of m.
Aligns(m, t, c, i, j) ==
  /\ c[1] = 1 /\ c[i] = j
  /\ \A n \in 1..i - 1 : Takes(t, m[n], c[n], c[n + 1])

\* Some way to cut the text up gives every character of the mask its stretch.
Matches(m, t) == \E c \in Cuts(m, t) : Aligns(m, t, c, Len(m) + 1, Len(t) + 1)

\* The loop answers yes only if the text matches, and does so whenever it
\* matches and has no star in it: one point to come back to is enough.
GlobCorrect ==
  /\ answer = "yes" => Matches(mask, text)
  /\ answer = "no"  => ~Matches(mask, text) \/ \E i \in DOMAIN text : text[i] = "*"

\* Every step of the loop that does not answer moves on: to a later star, or
\* from the same star to a later point to come back to, or from the same point
\* further along the mask.  All three are bounded, so there is no way round.
Advances ==
  [][ \/ answer' # "open"
      \/ star' > star
      \/ star' = star /\ backtrack' > backtrack
      \/ star' = star /\ backtrack' = backtrack /\ mi' > mi ]_vars

\* It always answers, whatever the mask.
Terminates == <>(answer # "open")

=============================================================================
