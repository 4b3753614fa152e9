------------------------------- MODULE Moduli -------------------------------
(***************************************************************************)
(* Remainders of integers: what the places of a ring, sequence numbers and *)
(* the bytes of the HTTP cache need.  The provers know a remainder only    *)
(* with its quotient.                                                      *)
(***************************************************************************)
EXTENDS Integers, TLAPS

\* A number has a quotient and a remainder.
LEMMA Division ==
  ASSUME NEW n \in Int, NEW m \in Nat \ {0}
  PROVE  \E q \in Int, r \in 0..(m - 1) : n = m * q + r /\ r = n % m
<1>1. n % m \in 0..(m - 1) /\ n \div m \in Int /\ n = m * (n \div m) + (n % m)
  OBVIOUS
<1> QED
  BY <1>1

\* Between -m and m there is no multiple of m but 0.
LEMMA Multiple ==
  ASSUME NEW m \in Nat \ {0}, NEW k \in Int, m * k < m, m * k > -m
  PROVE  k = 0
<1>1. CASE k >= 1
  OBVIOUS
<1>2. CASE k <= -1
  OBVIOUS
<1> QED
  BY <1>1, <1>2

\* What is over a multiple of m, if less than m, is the remainder.
LEMMA Remainder ==
  ASSUME NEW m \in Nat \ {0}, NEW q \in Int, NEW r \in 0..(m - 1)
  PROVE  (m * q + r) % m = r
<1>1. m * q + r \in Int
  OBVIOUS
<1>2. PICK p \in Int, s \in 0..(m - 1) : m * q + r = m * p + s /\ s = (m * q + r) % m
  BY <1>1, Division
<1>3. m * (q - p) = m * q - m * p
  OBVIOUS
<1>4. m * q \in Int /\ m * p \in Int
  OBVIOUS
<1>5. m * (q - p) = s - r
  BY <1>2, <1>3, <1>4
<1>6. q - p = 0
  BY <1>5, Multiple
<1>7. q = p
  BY <1>6
<1>8. s = r
  BY <1>2, <1>7, <1>4
<1> QED
  BY <1>2, <1>8

\* Within a turn the difference of two remainders, taken round, is that of the numbers.
LEMMA DistUp ==
  ASSUME NEW m \in Nat \ {0}, NEW a \in Int, NEW b \in Int, b - a \in 0..(m - 1)
  PROVE  ((b % m) - (a % m)) % m = b - a
<1>1. PICK p \in Int, s \in 0..(m - 1) : a = m * p + s /\ s = a % m
  BY Division
<1>2. PICK q \in Int, r \in 0..(m - 1) : b = m * q + r /\ r = b % m
  BY Division
<1>3. m * (p - q) = m * p - m * q /\ m * p \in Int /\ m * q \in Int
  OBVIOUS
<1>4. r - s = m * (p - q) + (b - a)
  <2>1. \A x, y \in Int : a = x + s /\ b = y + r => r - s = (x - y) + (b - a)
    OBVIOUS
  <2> QED
    BY <1>1, <1>2, <1>3, <2>1
<1>5. (m * (p - q) + (b - a)) % m = b - a
  BY Remainder
<1> QED
  BY <1>1, <1>2, <1>4, <1>5

\* The other way round it is what is left of the turn.
LEMMA DistDown ==
  ASSUME NEW m \in Nat \ {0}, NEW a \in Int, NEW b \in Int, b - a \in 1..(m - 1)
  PROVE  ((a % m) - (b % m)) % m = m - (b - a)
<1>1. PICK q \in Int, r \in 0..(m - 1) : b = m * q + r /\ r = b % m
  BY Division
<1>2. b - m = m * (q - 1) + r
  <2>1. m * (q - 1) = m * q - m /\ m * q \in Int
    OBVIOUS
  <2> QED
    BY <1>1, <2>1
<1>3. (b - m) % m = b % m
  <2>1. (m * (q - 1) + r) % m = r
    BY Remainder
  <2> QED
    BY <1>1, <1>2, <2>1
<1>4. a - (b - m) \in 0..(m - 1) /\ b - m \in Int
  OBVIOUS
<1>5. ((a % m) - ((b - m) % m)) % m = a - (b - m)
  BY <1>4, DistUp
<1> QED
  BY <1>3, <1>5

\* A multiple of m added changes no remainder.
LEMMA Turns ==
  ASSUME NEW m \in Nat \ {0}, NEW q \in Int, NEW x \in Int
  PROVE  (m * q + x) % m = x % m
<1>1. PICK p \in Int, r \in 0..(m - 1) : x = m * p + r /\ r = x % m
  BY Division
<1>2. m * (q + p) = m * q + m * p /\ q + p \in Int
  OBVIOUS
<1>3. m * q \in Int /\ m * p \in Int
  OBVIOUS
<1>4. m * q + x = m * (q + p) + r
  <2>1. \A a, b \in Int : x = b + r => a + x = (a + b) + r
    OBVIOUS
  <2> QED
    BY <1>1, <1>2, <1>3, <2>1
<1> QED
  BY <1>1, <1>2, <1>4, Remainder

\* Numbers less than m apart that leave the same remainder are the same.
LEMMA SameRemainder ==
  ASSUME NEW m \in Nat \ {0}, NEW x \in Int, NEW y \in Int, x % m = y % m,
         x - y < m, y - x < m
  PROVE  x = y
<1>1. PICK p \in Int, r \in 0..(m - 1) : x = m * p + r /\ r = x % m
  BY Division
<1>2. PICK q \in Int, s \in 0..(m - 1) : y = m * q + s /\ s = y % m
  BY Division
<1>3. m * (p - q) = m * p - m * q /\ p - q \in Int
  OBVIOUS
<1>4. m * p \in Int /\ m * q \in Int
  OBVIOUS
<1>5. m * (p - q) = x - y
  <2>1. \A a, b \in Int : x = a + r /\ y = b + r => a - b = x - y
    OBVIOUS
  <2> QED
    BY <1>1, <1>2, <1>3, <1>4, <2>1
<1>6. p - q = 0
  BY <1>3, <1>5, Multiple
<1>7. p = q
  BY <1>6
<1> QED
  BY <1>1, <1>2, <1>7
=============================================================================
