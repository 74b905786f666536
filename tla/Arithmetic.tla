----------------------------- MODULE Arithmetic -----------------------------
(***************************************************************************)
(* Facts about products and quotients of naturals that the proofs about    *)
(* pages, units and page tables use.                                       *)
(***************************************************************************)
EXTENDS Naturals, TLAPS

\* Products keep the order.
LEMMA ProductMonotone ==
    ASSUME NEW a \in Nat, NEW b \in Nat, NEW m \in Nat, a <= b
    PROVE  a * m <= b * m /\ a * m \in Nat /\ b * m \in Nat
<1>1. PICK k \in Nat : b = a + k
    BY b - a \in Nat
<1>2. b * m = a * m + k * m
    BY <1>1
<1>3. a * m \in Nat /\ b * m \in Nat /\ k * m \in Nat
    BY <1>1
<1> QED BY <1>2, <1>3

\* What \div rounds to.
LEMMA DivBounds ==
    ASSUME NEW x \in Nat, NEW m \in Nat \ {0}
    PROVE  /\ x \div m \in Nat
           /\ (x \div m) * m <= x
           /\ x < (x \div m) * m + m
OBVIOUS

\* Rounding up, as ALIGN_UP does.
LEMMA RoundUp ==
    ASSUME NEW x \in Nat, NEW m \in Nat \ {0}
    PROVE  /\ (x + m - 1) \div m \in Nat
           /\ x <= ((x + m - 1) \div m) * m
           /\ ((x + m - 1) \div m) * m <= x + m - 1
           /\ ((x + m - 1) \div m) * m \in Nat
<1> DEFINE y == x + m - 1
           q == y \div m
<1>1. y \in Nat
    OBVIOUS
<1> HIDE DEF y
<1>2. q \in Nat /\ q * m <= y /\ y < q * m + m
    BY <1>1, DivBounds
<1> HIDE DEF q
<1>3. q * m \in Nat
    BY <1>2
<1>4. y = x + m - 1
    BY DEF y
<1>5. x <= q * m /\ q * m <= x + m - 1
    BY <1>1, <1>2, <1>3, <1>4
<1> QED BY <1>2, <1>3, <1>5 DEF q, y

\* The quotient of a number between two multiples: the page of a byte.
LEMMA DivInRun ==
    ASSUME NEW p \in Nat, NEW n \in Nat, NEW m \in Nat \ {0}, NEW x \in Nat,
           p * m <= x, x < (p + n) * m
    PROVE  x \div m \in p..(p + n - 1)
<1> DEFINE q == x \div m
<1>1. q \in Nat /\ q * m <= x /\ x < q * m + m
    BY DivBounds
<1> HIDE DEF q
<1>2. p <= q
  <2>1. SUFFICES ASSUME q + 1 <= p PROVE FALSE
      BY <1>1
  <2>2. (q + 1) * m <= p * m
      BY <1>1, <2>1, ProductMonotone
  <2>3. (q + 1) * m = q * m + m
      BY <1>1
  <2>4. q * m \in Nat /\ p * m \in Nat
      BY <1>1
  <2> QED BY <1>1, <2>2, <2>3, <2>4
<1>3. q < p + n
  <2>1. SUFFICES ASSUME p + n <= q PROVE FALSE
      BY <1>1
  <2>2. (p + n) * m <= q * m
      BY <1>1, <2>1, ProductMonotone
  <2>3. q * m \in Nat /\ (p + n) * m \in Nat
      BY <1>1
  <2> QED BY <1>1, <2>2, <2>3
<1>4. q \in p..(p + n - 1)
    BY <1>1, <1>2, <1>3
<1> QED BY <1>4 DEF q

\* A quotient is determined by its bounds.
LEMMA DivUnique ==
    ASSUME NEW x \in Nat, NEW q \in Nat, NEW m \in Nat \ {0}, q * m <= x, x < q * m + m
    PROVE  x \div m = q
<1>1. q * m + m = (q + 1) * m
    OBVIOUS
<1>2. x < (q + 1) * m
    BY <1>1
<1>3. x \div m \in q..(q + 1 - 1)
    BY <1>2, DivInRun
<1> QED BY <1>3

\* A multiple and its quotient.
LEMMA DivMultiple ==
    ASSUME NEW q \in Nat, NEW m \in Nat \ {0}
    PROVE  q * m \in Nat /\ (q * m) \div m = q
<1>1. q * m \in Nat
    OBVIOUS
<1>2. q * m <= q * m /\ q * m < q * m + m
    BY <1>1
<1> QED BY <1>1, <1>2, DivUnique

\* Quotients keep the order.
LEMMA DivMonotone ==
    ASSUME NEW x \in Nat, NEW y \in Nat, NEW m \in Nat \ {0}, x <= y
    PROVE  x \div m <= y \div m
<1> DEFINE p == x \div m
           q == y \div m
<1>1. p \in Nat /\ p * m <= x /\ q \in Nat /\ y < q * m + m
    BY DivBounds
<1> HIDE DEF p, q
<1>2. p <= q
  <2>1. SUFFICES ASSUME q + 1 <= p PROVE FALSE
      BY <1>1
  <2>2. (q + 1) * m <= p * m
      BY <1>1, <2>1, ProductMonotone
  <2>3. (q + 1) * m = q * m + m
      BY <1>1
  <2>4. q * m \in Nat /\ p * m \in Nat
      BY <1>1
  <2> QED BY <1>1, <2>2, <2>3, <2>4
<1> QED BY <1>2 DEF p, q

\* Dividing twice: the entry of a table in its parent.
LEMMA DivDiv ==
    ASSUME NEW x \in Nat, NEW m \in Nat \ {0}, NEW n \in Nat \ {0}
    PROVE  x \div (m * n) = (x \div m) \div n
<1> DEFINE p == x \div m
           q == p \div n
<1>1. p \in Nat /\ p * m <= x /\ x < p * m + m
    BY DivBounds
<1> HIDE DEF p
<1>2. q \in Nat /\ q * n <= p /\ p < q * n + n
    BY <1>1, DivBounds
<1> HIDE DEF q
<1>3. q * n \in Nat /\ m * n \in Nat \ {0}
    BY <1>2
<1>4. (q * n) * m <= p * m
    BY <1>1, <1>2, <1>3, ProductMonotone
<1>5. (p + 1) * m <= (q * n + n) * m
    BY <1>1, <1>2, <1>3, ProductMonotone
<1>6. (p + 1) * m = p * m + m
    BY <1>1
<1>7. q * (m * n) = (q * n) * m /\ q * (m * n) + m * n = (q * n + n) * m
    BY <1>2
<1>8. p * m \in Nat /\ q * (m * n) \in Nat /\ (q * n) * m \in Nat /\ (q * n + n) * m \in Nat
    BY <1>1, <1>2, <1>3
<1>9. q * (m * n) <= x /\ x < q * (m * n) + m * n
    BY <1>1, <1>4, <1>5, <1>6, <1>7, <1>8
<1>10. x \div (m * n) = q
    BY <1>2, <1>3, <1>9, DivUnique
<1> QED BY <1>10 DEF p, q

\* The multiple below a number is between the same multiples of more.
LEMMA DivRounded ==
    ASSUME NEW x \in Nat, NEW m \in Nat \ {0}, NEW n \in Nat \ {0}
    PROVE  ((x \div m) * m) \div (m * n) = x \div (m * n)
<1> DEFINE p == x \div m
<1>1. p \in Nat
    BY DivBounds
<1> HIDE DEF p
<1>2. p * m \in Nat /\ (p * m) \div m = p
    BY <1>1, DivMultiple
<1>3. (p * m) \div (m * n) = ((p * m) \div m) \div n
    BY <1>2, DivDiv
<1>4. x \div (m * n) = p \div n
    BY DivDiv DEF p
<1> QED BY <1>2, <1>3, <1>4 DEF p
=============================================================================
