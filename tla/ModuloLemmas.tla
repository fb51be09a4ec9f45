---------------------------- MODULE ModuloLemmas ----------------------------
(***************************************************************************)
(* Facts about % that calcMod() and the wrap of size_t rest on.  The       *)
(* provers know a % k for given a and k; what they are told here is what   *)
(* two remainders have to do with each other.                              *)
(***************************************************************************)
EXTENDS Integers, TLAPS

\* A remainder is a slot number.
LEMMA RemainderRange ==
    ASSUME NEW a \in Int, NEW k \in Nat \ {0}
    PROVE  a % k \in 0..k - 1
  OBVIOUS

\* Quotient and remainder.
LEMMA Division ==
    ASSUME NEW a \in Int, NEW k \in Nat \ {0}
    PROVE  /\ a % k \in 0..k - 1
           /\ a \div k \in Int
           /\ a = k * (a \div k) + (a % k)
  OBVIOUS

\* Multiples of k are at least k apart.
LEMMA MultipleInside ==
    ASSUME NEW k \in Nat \ {0}, NEW d \in Int, k * d < k, k * d > -k
    PROVE  d = 0
<1>1. ASSUME d >= 1 PROVE FALSE
  <2>1. k * d >= k
    BY <1>1
  <2> QED  BY <2>1
<1>2. ASSUME d <= -1 PROVE FALSE
  <2>1. k * d <= -k
    BY <1>2
  <2> QED  BY <2>1
<1> QED  BY <1>1, <1>2

\* The remainder is the only offset into a block of k.
LEMMA RemainderUnique ==
    ASSUME NEW k \in Nat \ {0}, NEW d \in Int, NEW r \in 0..k - 1
    PROVE  (k * d + r) % k = r
<1> DEFINE a == k * d + r
<1>1. a \in Int
  OBVIOUS
<1> HIDE DEF a
<1>2. PICK e \in Int : a = k * e + (a % k)
  BY <1>1, Division
<1>3. a % k \in 0..k - 1
  BY <1>1, Division
<1>4. k * (d - e) = (a % k) - r
  BY <1>2, <1>3 DEF a
<1>5. d - e \in Int /\ k * (d - e) < k /\ k * (d - e) > -k
  BY <1>3, <1>4
<1>6. d - e = 0
  BY <1>5, MultipleInside
<1>7. a % k = r
  BY <1>3, <1>4, <1>6
<1> QED  BY <1>7 DEF a

\* Fewer than k steps from a never come back to the same remainder.
LEMMA RemainderInjective ==
    ASSUME NEW k \in Nat \ {0}, NEW a \in Int, NEW i \in 0..k - 1, NEW j \in 0..k - 1,
           (a + i) % k = (a + j) % k
    PROVE  i = j
<1>1. a + i \in Int /\ a + j \in Int
  OBVIOUS
<1>2. PICK d \in Int : a + i = k * d + ((a + i) % k)
  BY <1>1, Division
<1>3. PICK e \in Int : a + j = k * e + ((a + j) % k)
  BY <1>1, Division
<1>4. i - j = k * (d - e)
  BY <1>2, <1>3
<1>5. d - e \in Int /\ k * (d - e) < k /\ k * (d - e) > -k
  BY <1>4
<1>6. d - e = 0
  BY <1>5, MultipleInside
<1> QED  BY <1>4, <1>6

\* Reducing modulo a multiple of k first changes no remainder modulo k.
LEMMA RemainderOfRemainder ==
    ASSUME NEW k \in Nat \ {0}, NEW n \in Nat \ {0}, NEW a \in Int
    PROVE  (a % (k * n)) % k = a % k
<1>1. k * n \in Nat \ {0}
  OBVIOUS
<1> DEFINE m == a % (k * n)
<1>2. m \in Int
  BY <1>1, Division
<1>3. PICK d \in Int : a = (k * n) * d + m
  BY <1>1, Division
<1> HIDE DEF m
<1>4. PICK e \in Int : m = k * e + (m % k)
  BY <1>2, Division
<1>5. m % k \in 0..k - 1
  BY <1>2, Division
<1>6. n * d + e \in Int /\ a = k * (n * d + e) + (m % k)
  BY <1>3, <1>4, <1>5
<1>7. a % k = m % k
  BY <1>5, <1>6, RemainderUnique
<1> QED  BY <1>7 DEF m

\* Reducing before adding changes no remainder.
LEMMA RemainderOfSum ==
    ASSUME NEW k \in Nat \ {0}, NEW a \in Int, NEW i \in Int
    PROVE  ((a % k) + i) % k = (a + i) % k
<1> DEFINE m == a % k
<1>1. m \in Int
  BY Division
<1>2. PICK d \in Int : a = k * d + m
  BY Division
<1> HIDE DEF m
<1>3. m + i \in Int
  BY <1>1
<1>4. PICK e \in Int : m + i = k * e + ((m + i) % k)
  BY <1>3, Division
<1>5. (m + i) % k \in 0..k - 1
  BY <1>3, Division
<1>6. d + e \in Int /\ a + i = k * (d + e) + ((m + i) % k)
  BY <1>1, <1>2, <1>4, <1>5
<1>7. (a + i) % k = (m + i) % k
  BY <1>5, <1>6, RemainderUnique
<1> QED  BY <1>7 DEF m
=============================================================================
