---------------------------- MODULE NumberLemmas ----------------------------
(***************************************************************************)
(* Facts about numbers that the proofs share: induction over a set of      *)
(* naturals, and what a quotient and a remainder are.                      *)
(***************************************************************************)
EXTENDS Integers, NaturalsInduction, WellFoundedInduction, TLAPS

\* The least number principle, for a set and so without an operator parameter.
LEMMA LeastNumber ==
  ASSUME NEW T, T \subseteq Nat, T # {}
  PROVE  \E x \in T : \A y \in T : x <= y
<1>1. IsWellFoundedOn(OpToRel(<, Nat), Nat)
  BY NatLessThanWellFounded
<1>2. PICK x \in T : \A y \in T : ~(<<y, x>> \in OpToRel(<, Nat))
  BY <1>1, WFMin
<1>3. x \in Nat /\ \A y \in T : y \in Nat
  OBVIOUS
<1>4. ASSUME NEW y \in T PROVE x <= y
  <2>1. ~(y < x)
    BY <1>2, <1>3 DEF OpToRel
  <2> QED BY <1>3, <2>1
<1> QED BY <1>4

\* Induction, for a set and so without an operator parameter.
LEMMA NaturalsIn ==
  ASSUME NEW S, 0 \in S, \A n \in Nat : n \in S => n + 1 \in S
  PROVE  \A n \in Nat : n \in S
<1> DEFINE T == {n \in Nat : n \notin S}
<1>1. SUFFICES ASSUME T # {} PROVE FALSE
  OBVIOUS
<1>2. PICK x \in T : \A y \in T : x <= y
  BY <1>1, LeastNumber
<1>3. x \in Nat /\ x # 0 /\ x - 1 \in Nat /\ x = (x - 1) + 1
  BY <1>2
<1>4. x - 1 \notin T
  BY <1>2, <1>3
<1> QED BY <1>2, <1>3, <1>4

-----------------------------------------------------------------------------
\* A number below twice the base has at most one carry.
LEMMA Carry ==
  ASSUME NEW b \in Nat \ {0}, NEW a \in Nat, a < b + b
  PROVE  /\ a < b => a \div b = 0 /\ a % b = a
         /\ a >= b => a \div b = 1 /\ a % b = a - b
  OBVIOUS

\* Multiplication distributes over addition.
LEMMA Distribute ==
  ASSUME NEW a \in Int, NEW b \in Int, NEW c \in Int
  PROVE  (a + b) * c = a * c + b * c /\ c * (a + b) = c * a + c * b
  OBVIOUS

\* Carrying into the next digit changes nothing of the number.
LEMMA CarryInto ==
  ASSUME NEW b \in Int, NEW a \in Int, NEW x \in Int, NEW y \in Int, NEW r \in Int,
         (y = x /\ r = a) \/ (y = x + 1 /\ r = a - b)
  PROVE  y * b + r = x * b + a
<1>1. x * b \in Int /\ (x + 1) * b = x * b + b
  BY Distribute
<1>2. CASE y = x /\ r = a
  BY <1>2
<1>3. CASE y = x + 1 /\ r = a - b
  <2>1. y * b = x * b + b
    BY <1>1, <1>3
  <2> QED BY <1>1, <1>3, <2>1
<1> QED BY <1>2, <1>3

\* Quotient and remainder, named, for a divisor that is not a literal.
LEMMA DivMod ==
  ASSUME NEW a \in Int, NEW b \in Nat \ {0}
  PROVE  \E q \in Int, r \in 0 .. b - 1 : q = a \div b /\ r = a % b /\ a = b * q + r
<1>1. PICK q \in Int : q = a \div b
  OBVIOUS
<1>2. PICK r \in 0 .. b - 1 : r = a % b
  OBVIOUS
<1>3. a = b * q + r
  BY <1>1, <1>2
<1> QED BY <1>1, <1>2, <1>3

\* Two multiples of b that differ by less than b are the same.
LEMMA SameMultiple ==
  ASSUME NEW b \in Nat \ {0}, NEW p \in Int, NEW q \in Int,
         NEW r \in 0 .. b - 1, NEW s \in 0 .. b - 1, b * p + r = b * q + s
  PROVE  p = q /\ r = s
<1>1. b * (p - q) = s - r /\ b * (q - p) = r - s
  <2>1. b * (p - q) = b * p - b * q /\ b * (q - p) = b * q - b * p
    OBVIOUS
  <2> QED BY <2>1
<1>2. ASSUME NEW k \in Nat, k >= 1 PROVE b * k >= b
  <2>1. b * k = b * (k - 1) + b /\ b * (k - 1) >= 0
    BY <1>2
  <2> QED BY <2>1
<1>3. ~(p - q >= 1)
  BY <1>1, <1>2
<1>4. ~(q - p >= 1)
  BY <1>1, <1>2
<1> QED BY <1>3, <1>4

\* What division gives back of a multiple and a remainder.
LEMMA DivExact ==
  ASSUME NEW n \in Nat, NEW b \in Nat \ {0}, NEW r \in 0 .. b - 1
  PROVE  (n * b + r) \div b = n
<1> DEFINE a == n * b + r
<1>1. a \in Int /\ a = b * n + r
  OBVIOUS
<1>2. PICK q \in Int, s \in 0 .. b - 1 : q = a \div b /\ a = b * q + s
  BY <1>1, DivMod
<1> HIDE DEF a
<1>3. a \div b = n
  BY <1>1, <1>2, SameMultiple
<1> QED BY <1>3 DEF a
=============================================================================
