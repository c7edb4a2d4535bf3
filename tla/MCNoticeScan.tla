----------------------------- MODULE MCNoticeScan -----------------------------
(***************************************************************************)
(* Instances of the notice scan for TLC: two packages; the first has two   *)
(* revisions that differ in the USNs that affect them, so that publishing, *)
(* closing and reverting change what there is to report.                   *)
(***************************************************************************)
EXTENDS NoticeScanProps

CONSTANTS p1, p2, r1, r2, u1, u2

MCAffects == {<<p1, r1, u1>>, <<p1, r1, u2>>, <<p1, r2, u2>>, <<p2, r1, u1>>}

OneRevision == {<<p1, r1, u1>>, <<p1, r1, u2>>, <<p2, r1, u1>>}
OneNotice   == {<<p1, r1, u1>>, <<p2, r1, u1>>}

AllOrOne == {Pkgs, {p1}}
AllPkgs  == {Pkgs}
=============================================================================
