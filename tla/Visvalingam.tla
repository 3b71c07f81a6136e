---------------------------- MODULE Visvalingam ----------------------------
(***************************************************************************)
(* The algorithm of Visvalingam and Whyatt that ST_SimplifyVW and           *)
(* ST_SetEffectiveArea name: the points of a line are eliminated one by     *)
(* one, each time one whose triangle with its remaining neighbours is       *)
(* smallest; its effective area is that of the triangle, or that of the     *)
(* point eliminated before if this is greater.                              *)
(***************************************************************************)
EXTENDS Integers, FiniteSetsExt

VARIABLES line,      \* the points, from 0 on
          left,      \* the points that are not eliminated
          effective  \* the effective areas of those eliminated

vars == <<line, left, effective>>

\* Twice the area of a triangle.
TwiceArea(P1, P2, P3) ==
  LET d == (P1[1] - P2[1]) * (P3[2] - P2[2]) - (P1[2] - P2[2]) * (P3[1] - P2[1])
  IN IF d < 0 THEN -d ELSE d

Inner == {p \in left : (\E q \in left : q < p) /\ (\E q \in left : p < q)}
Last  == Max({0} \cup {effective[p] : p \in DOMAIN effective})

Weight(p) ==
  LET before == Max({q \in left : q < p})
      after  == Min({q \in left : p < q})
  IN Max({TwiceArea(line[before], line[p], line[after]), Last})

Init == left = DOMAIN line /\ effective = [p \in {} |-> 0]

Eliminate(p) ==
  /\ \A q \in Inner : Weight(p) <= Weight(q)
  /\ left' = left \ {p}
  /\ effective' = [q \in DOMAIN effective \cup {p} |-> IF q = p THEN Weight(p) ELSE effective[q]]
  /\ UNCHANGED line

Next == \E p \in Inner : Eliminate(p)
Spec == Init /\ [][Next]_vars

=============================================================================
