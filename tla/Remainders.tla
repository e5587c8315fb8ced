------------------------------ MODULE Remainders ------------------------------
(***************************************************************************)
(* Facts about remainders that the proofs of the rings, the counters and   *)
(* the layout share.                                                       *)
(***************************************************************************)
EXTENDS Integers, TLAPS

\* A number is told from its remainder and its quotient in one way only.
LEMMA Remainder ==
  ASSUME NEW c \in Nat \ {0}, NEW k \in Int, NEW r \in 0..(c - 1)
  PROVE  (c * k + r) % c = r
  <1> DEFINE n == c * k + r
             j == n \div c
             q == n % c
  <1>1. n = c * j + q /\ q \in 0..(c - 1) /\ j \in Int /\ n \in Int
    OBVIOUS
  <1>2. ASSUME NEW d \in Int, d >= 1 PROVE c * d >= c
    BY <1>2
  <1>3. c * (k - j) = q - r /\ c * (j - k) = r - q
    BY <1>1
  <1>4. ~(k - j >= 1) /\ ~(j - k >= 1)
    BY <1>1, <1>2, <1>3
  <1> QED
    BY <1>1, <1>4

\* How the slots of two frames in a row follow each other.
LEMMA NextRemainder ==
  ASSUME NEW c \in Nat \ {0}, NEW n \in Nat
  PROVE  ((n % c) + 1) % c = (n + 1) % c
  <1> DEFINE k == n \div c
             r == n % c
  <1>1. n = c * k + r /\ r \in 0..(c - 1) /\ k \in Int
    OBVIOUS
  <1>2. CASE r + 1 < c
    <2>1. c * k + (r + 1) = n + 1 /\ r + 1 \in 0..(c - 1)
      BY <1>1, <1>2
    <2>2. (c * k + (r + 1)) % c = r + 1
      BY <1>1, <2>1, Remainder
    <2>3. (r + 1) % c = r + 1
      BY <1>1, <2>1
    <2> QED
      BY <2>1, <2>2, <2>3
  <1>3. CASE r + 1 = c
    <2>1. c * (k + 1) + 0 = n + 1 /\ k + 1 \in Int /\ 0 \in 0..(c - 1)
      BY <1>1, <1>3
    <2>2. (c * (k + 1) + 0) % c = 0
      BY ONLY c \in Nat \ {0}, <2>1, Remainder
    <2>3. c % c = 0
      OBVIOUS
    <2> QED
      BY <1>3, <2>1, <2>2, <2>3
  <1> QED
    BY <1>1, <1>2, <1>3

\* A multiple of the divisor does not count.
LEMMA RemainderOfSum ==
  ASSUME NEW c \in Nat \ {0}, NEW n \in Int
  PROVE  (c + n) % c = n % c
  <1> DEFINE k == n \div c
             r == n % c
  <1>1. n = c * k + r /\ r \in 0..(c - 1) /\ k \in Int
    OBVIOUS
  <1>2. c * (k + 1) + r = c + n /\ k + 1 \in Int
    BY <1>1
  <1> HIDE DEF k
  <1>3. (c * (k + 1) + r) % c = r
    BY <1>1, <1>2, Remainder
  <1> QED
    BY <1>2, <1>3
===============================================================================
