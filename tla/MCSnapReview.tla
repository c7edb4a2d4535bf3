------------------------------ MODULE MCSnapReview ------------------------------
(***************************************************************************)
(* Instances of snap-review for TLC: two architectures, of which the first *)
(* has builds that differ by missing files (one of them skipped) and a     *)
(* changed value (symbols are missed where nm fails), and the second one   *)
(* build.                                                                  *)
(***************************************************************************)
EXTENDS SnapReviewProps

CONSTANTS a1, a2, f1, f2, f3, m, s, v, w

Base(a, F) == [arch |-> a, base |-> TRUE, facts |-> F]
Other(a, F) == [arch |-> a, base |-> FALSE, facts |-> F]
Run(b, approved, state, sdk) ==
    [build |-> b, approved |-> approved, state |-> state, sdk |-> sdk]

Full    == Base(a1, {<<f1, m, v>>, <<f1, s, v>>, <<f2, m, v>>, <<f3, m, v>>})
Changed == Base(a1, {<<f1, m, w>>, <<f1, s, v>>})
Second  == Base(a2, {<<f1, m, v>>})

MCReviews ==
    {Run(b, approved, TRUE, FALSE) : b \in {Full, Changed, Second}, approved \in BOOLEAN}
    \cup {Run(Other(a1, {<<f1, m, v>>}), TRUE, TRUE, FALSE),
          Run(Full, TRUE, FALSE, FALSE), Run(Full, TRUE, FALSE, TRUE)}
=============================================================================
