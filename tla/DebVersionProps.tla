---------------------------- MODULE DebVersionProps ----------------------------
(***************************************************************************)
(* The order of versions as the Debian policy words it, and what is said   *)
(* of the one that debversion.py computes.                                 *)
(*                                                                         *)
(* An initial part without digits is compared, then a number, and so on:   *)
(* letters before other characters, a tilde before all, even the end of a  *)
(* part.                                                                   *)
(***************************************************************************)
EXTENDS DebVersion

Weight(c) == IF c = Tilde THEN -1 ELSE IF c \in Letters THEN c ELSE 256 + c

(* The number whose digits are those from i to before j. *)
Number(s, i, j) ==
    LET upto[k \in i..(Len(s) + 1)] ==
            IF k = i THEN 0 ELSE 10 * upto[k - 1] + s[k - 1] - Zero
    IN  upto[j]

(* The weights of each part without digits, 0 for its end, and the number  *)
(* that follows. *)
Parts(s) ==
    LET from[i \in 1..(Len(s) + 1)] ==
            IF i > Len(s) THEN <<>>
            ELSE IF s[i] \notin Digits THEN <<Weight(s[i])>> \o from[i + 1]
            ELSE <<0, Number(s, i, Past(Digits, s, i))>> \o from[Past(Digits, s, i)]
    IN  from[1]

(* What is absent counts as 0. *)
Part(p, i) == IF i <= Len(p) THEN p[i] ELSE 0

Smaller(p, q) ==
    \E i \in 1..(Len(p) + Len(q)) :
        /\ Part(p, i) < Part(q, i)
        /\ \A j \in 1..(i - 1) : Part(p, j) = Part(q, j)

Before(s, t) == Smaller(Parts(s), Parts(t))

Earlier(v, w) ==
    \/ Epoch(v) < Epoch(w)
    \/ Epoch(v) = Epoch(w) /\ Before(Upstream(v), Upstream(w))
    \/ /\ Epoch(v) = Epoch(w) /\ ~Before(Upstream(w), Upstream(v))
       /\ Before(Revision(v), Revision(w))

(* The comparison of debversion.py is the order of the policy: so it is    *)
(* total and transitive, whatever zeros, tildes and dashes there are       *)
(* (compare, _verrevcomp). *)
OrderIsPolicy(V) ==
    \A v, w \in V : /\ Compare(v, w) < 0 <=> Earlier(v, w)
                    /\ Compare(v, w) > 0 <=> Earlier(w, v)
=============================================================================
