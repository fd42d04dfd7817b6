----------------------------- MODULE MCServices -----------------------------
(* TLC instances of Services. *)
EXTENDS Services

CONSTANTS s1, s2, a1, a2, c1, c2, p1, p2, p3, r1, r2, r3, g1, g2, y1, y2, f1, t1, t2, t3, w1

\* Three cases, the last of which is held out: the first two of two documents, of one document, and with
\* the second held out as well.
Case(split, source) == [split |-> split, document |-> source]
Suite(second) ==
  t1 :> Case("train", t1) @@ t2 :> second @@ t3 :> Case("evaluation_holdout", t3)
Apart == Suite(Case("validation", t2))
Together == Suite(Case("validation", t1))
HeldOut == Suite(Case("evaluation_holdout", t2))
MCSuites == {Apart, Together, HeldOut}

Outcomes(one, another, held) ==
  [x \in {t1, t2, t3} \X Arms |->
     LET both == CASE x[1] = t1 -> one [] x[1] = t2 -> another [] x[1] = t3 -> held IN
     IF x[2] = "base" THEN both[1] ELSE both[2]]

Failed == <<"failed", "failed">>
Solved == <<"succeeded", "succeeded">>
Better == <<"failed", "succeeded">>

\* A campaign in which training can help with both cases; on the first suite also one in which it can
\* help with one case only and one that cannot be judged, and then an adapter that is better on the
\* held-out case, one that is not needed and one that does not help.
MCMeasurements ==
  [x \in MCSuites |->
     IF x = Apart
     THEN [gap |-> {Outcomes(Better, Failed, Failed), Outcomes(Solved, Better, Failed),
                    Outcomes(<<"failed", "invalidated">>, Better, Failed)},
           ab |-> {Outcomes(Better, Better, h) : h \in {Better, Solved, Failed}}]
     ELSE [gap |-> {Outcomes(Better, Failed, Failed)}, ab |-> {}]]

MCLabellers ==
  Apart :> {"curator"} @@ Together :> {"bridge"} @@ HeldOut :> {"curator", "judge"}

\* A judge whose suite file does not know yet that the second case is held out.
MCEditions == [x \in MCSuites |-> IF x = HeldOut THEN {Apart} ELSE {x}]

MCReviewed == {t1, t2} \X {"base"}
=============================================================================
