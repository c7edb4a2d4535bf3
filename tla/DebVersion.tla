------------------------------ MODULE DebVersion ------------------------------
(***************************************************************************)
(* Debian versions and their order (reviewtools/debversion.py).            *)
(*                                                                         *)
(* A version is [epoch, body]: what is before the first colon, if that is  *)
(* a number, and the rest, a sequence of the codes of its characters.      *)
(***************************************************************************)
EXTENDS Integers, Sequences, FiniteSets, FiniteSetsExt

CONSTANT None    \* no epoch; and whatever else a manifest does not say

Digits  == 48..57
Letters == (65..90) \cup (97..122)
Zero    == 48
Nine    == 57
Plus    == 43
Dash    == 45
Dot     == 46
Colon   == 58
Bar     == 124
Tilde   == 126

MaxInt == 2147483647

-----------------------------------------------------------------------------
(* The constructor.                                                        *)

Version == [epoch : Nat \cup {None}, body : Seq(Nat)]

(* The debian revision is what follows the last dash, if it can be one. *)
RevisionAt(s) ==
    LET dashes == {i \in 1..Len(s) : s[i] = Dash}
    IN  IF dashes = {} \/ Max(dashes) = Len(s)
           \/ \E i \in (Max(dashes) + 1)..Len(s) :
                 s[i] \notin Digits \cup Letters \cup {Plus, Dot, Tilde}
        THEN 0 ELSE Max(dashes)

Upstream(v) == IF RevisionAt(v.body) = 0 THEN v.body
               ELSE SubSeq(v.body, 1, RevisionAt(v.body) - 1)

Revision(v) == IF RevisionAt(v.body) = 0 THEN <<Zero>>
               ELSE SubSeq(v.body, RevisionAt(v.body) + 1, Len(v.body))

Epoch(v) == IF v.epoch = None THEN 0 ELSE v.epoch

Valid(v) ==
    /\ v.body # <<>>
    /\ \A i \in 1..Len(v.body) :
          v.body[i] \in Digits \cup Letters \cup {Plus, Dash, Dot, Colon, Tilde}
    /\ v.epoch = None => \A i \in 1..Len(Upstream(v)) : Upstream(v)[i] # Colon
    /\ Epoch(v) <= MaxInt
    /\ Upstream(v) # <<>>
    /\ Revision(v) = <<Zero>> =>
          Cardinality({i \in 1..Len(Upstream(v)) : Upstream(v)[i] = Dash}) <= 1

-----------------------------------------------------------------------------
(* The order.                                                              *)

Order(c) ==
    CASE c \in Digits -> 0
      [] c \in Letters -> c
      [] c = Tilde -> -1
      [] OTHER -> c + 256

OrderAt(s, i) == IF i <= Len(s) THEN Order(s[i]) ELSE 0

(* The first place from i on where the loop over the characters that are   *)
(* in S stops. *)
Past(S, s, i) == Min({k \in i..(Len(s) + 1) : k > Len(s) \/ s[k] \notin S})

(* A faulty CompareNumbers: leading zeros count. *)
CompareDigits(a, b, i, j) ==
    LET m == Past(Digits, a, i) - i
        n == Past(Digits, b, j) - j
        differ == {k \in 0..(m - 1) : a[i + k] # b[j + k]}
    IN  IF m # n THEN m - n
        ELSE IF differ = {} THEN 0
        ELSE a[i + Min(differ)] - b[j + Min(differ)]

(* The digits from i and from j on, without leading zeros: the longer run  *)
(* is the larger number; of two as long the first difference decides. *)
CompareNumbers(a, b, i, j) ==
    LET x == Past({Zero}, a, i)
        y == Past({Zero}, b, j)
        m == Past(Digits, a, x) - x
        n == Past(Digits, b, y) - y
        differ == {k \in 0..(m - 1) : a[x + k] # b[y + k]}
    IN  IF m # n THEN m - n
        ELSE IF differ = {} THEN 0
        ELSE a[x + Min(differ)] - b[y + Min(differ)]

(* Characters that are not digits are compared one by one, the end of the  *)
(* string counting as much as a digit; then a number each. *)
VerRevComp(a, b) ==
    LET from[ij \in (1..(Len(a) + 1)) \X (1..(Len(b) + 1))] ==
            LET i == ij[1]
                j == ij[2]
                number == CompareNumbers(a, b, i, j)
            IN  IF i > Len(a) /\ j > Len(b) THEN 0
                ELSE IF \/ i <= Len(a) /\ a[i] \notin Digits
                        \/ j <= Len(b) /\ b[j] \notin Digits
                THEN IF OrderAt(a, i) # OrderAt(b, j)
                     THEN OrderAt(a, i) - OrderAt(b, j)
                     ELSE from[<<i + 1, j + 1>>]
                ELSE IF number # 0 THEN number
                     ELSE from[<<Past(Digits, a, i), Past(Digits, b, j)>>]
    IN  from[<<1, 1>>]

Compare(v, w) ==
    IF Epoch(v) # Epoch(w) THEN Epoch(v) - Epoch(w)
    ELSE LET upstream == VerRevComp(Upstream(v), Upstream(w))
         IN  IF upstream # 0 THEN upstream ELSE VerRevComp(Revision(v), Revision(w))
=============================================================================
