------------------------------ MODULE MCLadder ------------------------------
(* Small instances of the ladder: two or three people of one company.      *)
EXTENDS Ladder, TLC

CONSTANTS r1, r2, c1, p1, p2, news

OneCompany == [r \in Rows |-> c1]
(* p1 is the profile of r1, p2 that of r2, and p2 has nearly the name of   *)
(* r1.  r2 bears part of the company's name, so that p1, which shows no    *)
(* other part of it, shows the company to r1 but not to r2.                *)
CoversOf == [r \in Rows |-> IF r = r2 THEN {p2} ELSE {p1, p2}]
ScoreOf == [r \in Rows |-> IF r = r2 THEN p2 :> 95 ELSE p1 :> 90 @@ p2 :> 85]
PublishesOf == [c \in Companies |-> {news}]
IndependentOf == [r \in Rows |-> {news}]
SomeResponses == {{}, {p2}, {p1, news}}
=============================================================================
