------------------------------ MODULE DataLemmas ------------------------------
(***************************************************************************)
(* What the proofs need of numbers and of lists. Numbers: remainders by    *)
(* the size of the wheel of ttimer/tdengine_old.c, and a tick counter that *)
(* wraps around after a whole number of turns of it. Lists: what removing  *)
(* an element does; sequences without duplicates, ordered by a key, as the *)
(* wheel's slots are, and what inserting, removing and taking the head do  *)
(* to their elements and to their order.                                   *)
(***************************************************************************)
EXTENDS SequencesExt, SequenceTheorems, TLAPS

(* A number is its turns and its remainder.                                *)
LEMMA TurnsAndRemainder ==
  ASSUME NEW n \in Nat \ {0}, NEW a \in Nat
  PROVE  /\ a = n * (a \div n) + (a % n)
         /\ a % n \in 0 .. n - 1 /\ a \div n \in Nat
OBVIOUS

(* Whole turns do not change a remainder.                                  *)
LEMMA WholeTurns ==
  ASSUME NEW n \in Nat \ {0}, NEW q \in Nat, NEW a \in Nat
  PROVE  (n * q + a) % n = a % n
<1>1. a = n * (a \div n) + (a % n) /\ a % n \in 0 .. n - 1 /\ a \div n \in Nat
  BY TurnsAndRemainder
<1> DEFINE d == a \div n
           r == a % n
<1> HIDE DEF d, r
<1>2. n * q + a = n * (q + d) + r
  BY <1>1 DEF d, r
<1>3. (n * (q + d) + r) % n = r
  <2>1. q + d \in Nat /\ r \in 0 .. n - 1
    BY <1>1 DEF d, r
  <2>2. \A m \in Nat, x \in 0 .. n - 1 : (n * m + x) % n = x
    BY SMTT(30)
  <2>3. QED
    BY <2>1, <2>2
<1>4. QED
  BY <1>2, <1>3 DEF r

(* One number is another and whole turns of n.                             *)
TurnsApart(n, b, a) == \E q \in Nat : b = n * q + a

(* Numbers that are whole turns apart have the same remainder.             *)
LEMMA TurnsAway ==
  ASSUME NEW n \in Nat \ {0}, NEW a \in Nat, NEW b, TurnsApart(n, b, a)
  PROVE  b % n = a % n
<1>1. PICK q \in Nat : b = n * q + a
  BY DEF TurnsApart
<1>2. (n * q + a) % n = a % n
  BY WholeTurns
<1>3. QED
  BY <1>1, <1>2, Zenon

(* w is the number a on a counter that wraps at u, after whole turns of    *)
(* the wheel.                                                              *)
WrapsInPlace(n, u, a, w) == /\ n \in Nat \ {0} /\ u \in Nat \ {0} /\ u % n = 0
                            /\ a \in Nat /\ w \in Nat /\ w = a % u

(* w stands for the slot that a stands for, and w + p for that of a + p.   *)
SamePlace(n, u, a, w, p) == /\ w % n = a % n
                            /\ ((p + w) % u) % n = (p + a) % n

(* A counter that wraps after whole turns is in the right place.           *)
LEMMA WrapInWholeTurns ==
  ASSUME NEW n, NEW u, NEW a, NEW w, WrapsInPlace(n, u, a, w), NEW p \in Nat
  PROVE  SamePlace(n, u, a, w, p)
<1>0. /\ n \in Nat \ {0} /\ u \in Nat \ {0} /\ u % n = 0
      /\ a \in Nat /\ w \in Nat /\ w = a % u
  BY DEF WrapsInPlace
<1>1. PICK m \in Nat : u = n * m
  <2>1. u = n * (u \div n) + (u % n) /\ u \div n \in Nat
    BY <1>0, TurnsAndRemainder
  <2>2. PICK d \in Nat : u = n * d + 0
    BY <1>0, <2>1
  <2>3. n * d + 0 = n * d
    BY <1>0
  <2>4. QED
    BY <2>2, <2>3
<1>2. ASSUME NEW x \in Nat
      PROVE  \E k \in Nat, r \in Nat : x = n * k + r /\ r = x % u
  <2>1. x = u * (x \div u) + (x % u) /\ x % u \in Nat /\ x \div u \in Nat
    <3>1. /\ x = u * (x \div u) + (x % u)
          /\ x % u \in 0 .. u - 1 /\ x \div u \in Nat
      BY <1>0, TurnsAndRemainder
    <3>2. QED
      BY <1>0, <3>1
  <2> DEFINE q == x \div u
             r == x % u
  <2>2. x = u * q + r /\ r \in Nat /\ q \in Nat
    BY <1>0, <2>1
  <2> HIDE DEF q, r
  <2>3. x = n * (m * q) + r /\ m * q \in Nat
    <3>1. u * q = n * (m * q) /\ m * q \in Nat
      BY <1>0, <1>1, <2>2
    <3>2. QED
      BY <3>1, <2>2
  <2>4. QED
    BY <2>2, <2>3 DEF r
<1>3. ASSUME NEW x \in Nat
      PROVE  (x % u) % n = x % n /\ x % u \in Nat
  <2>1. PICK k \in Nat, r \in Nat : x = n * k + r /\ r = x % u
    BY <1>0, <1>2
  <2>2. x % n = r % n
    <3>1. TurnsApart(n, x, r)
      BY <2>1, Zenon DEF TurnsApart
    <3>2. QED
      BY <1>0, <2>1, <3>1, TurnsAway
  <2>3. QED
    BY <2>1, <2>2
<1>4. ((p + w) % u) % n = (p + w) % n
  <2>1. p + w \in Nat
    BY <1>0
  <2>2. QED
    BY <1>0, <2>1, <1>3
<1>5. (p + a) % n = (p + w) % n
  <2>1. PICK k \in Nat, r \in Nat : a = n * k + r /\ r = a % u
    BY <1>0, <1>2
  <2>2. p + a = n * k + (p + r) /\ p + r \in Nat
    BY <1>0, <2>1
  <2>3. (p + a) % n = (p + r) % n
    <3>1. TurnsApart(n, p + a, p + r)
      BY <2>1, <2>2, Zenon DEF TurnsApart
    <3>2. QED
      BY <1>0, <2>2, <3>1, TurnsAway
  <2>4. QED
    BY <1>0, <2>1, <2>3
<1>6. QED
  BY <1>0, <1>3, <1>4, <1>5 DEF SamePlace

(* Two periods on the same slot are whole turns apart.                     *)
LEMMA SameSlot ==
  ASSUME NEW n \in Nat \ {0}, NEW a \in Nat, NEW r \in Nat
  PROVE  (a + r) % n = a % n <=> r % n = 0
<1>1. a = n * (a \div n) + (a % n) /\ a % n \in 0 .. n - 1 /\ a \div n \in Nat
  BY TurnsAndRemainder
<1>2. r = n * (r \div n) + (r % n) /\ r % n \in 0 .. n - 1 /\ r \div n \in Nat
  BY TurnsAndRemainder
<1> DEFINE d == a \div n
           x == a % n
           e == r \div n
           y == r % n
<1> HIDE DEF d, x, e, y
<1>3. /\ a = n * d + x /\ x \in 0 .. n - 1 /\ d \in Nat
      /\ r = n * e + y /\ y \in 0 .. n - 1 /\ e \in Nat
  BY <1>1, <1>2 DEF d, x, e, y
<1>4. a + r = n * (d + e) + (x + y)
  BY <1>3
<1>5. (a + r) % n = (x + y) % n
  <2>1. d + e \in Nat /\ x + y \in Nat
    BY <1>3
  <2>2. QED
    <3>1. TurnsApart(n, a + r, x + y)
      BY <1>4, <2>1, Zenon DEF TurnsApart
    <3>2. QED
      BY <2>1, <3>1, TurnsAway
<1>6. PICK z \in 0 .. 2 * n - 1 : z = x + y
  BY <1>3
<1>7. z % n = IF z < n THEN z ELSE z - n
  BY SMTT(30)
<1>8. (a + r) % n = z % n
  BY <1>5, <1>6
<1>9. z % n = x <=> y = 0
  BY <1>3, <1>6, <1>7
<1>10. QED
  BY <1>8, <1>9 DEF x, y

(* A counter that wraps at u goes on from where it is.                     *)
LEMMA CountsOn ==
  ASSUME NEW u \in Nat \ {0}, NEW a \in Nat, NEW p \in Nat
  PROVE  (p + (a % u)) % u = (a + p) % u
<1>1. PICK w \in Nat : w = a % u
  BY TurnsAndRemainder
<1>2. u % u = 0
  BY SMTT(30)
<1>3. SamePlace(u, u, a, w, p)
  BY <1>1, <1>2, WrapInWholeTurns DEF WrapsInPlace
<1>4. \A x \in Nat : (x % u) % u = x % u
  BY SMTT(30)
<1>5. p + w \in Nat /\ p + a = a + p
  OBVIOUS
<1>6. QED
  BY <1>1, <1>3, <1>4, <1>5 DEF SamePlace

(* Between the numbers a and e a counter that wraps at u does not wrap, or *)
(* it does after whole turns of n.                                         *)
InOneRound(n, u, a, e) == /\ n \in Nat \ {0} /\ u \in Nat \ {0}
                          /\ a \in Nat /\ e \in Nat
                          /\ u % n = 0 \/ a \div u = e \div u

(* Then two numbers that the counter stands for on one slot are whole      *)
(* turns apart.                                                            *)
LEMMA SlotsOfARound ==
  ASSUME NEW n, NEW u, NEW a, NEW r \in Nat, InOneRound(n, u, a, a + r)
  PROVE  ((a + r) % u) % n = (a % u) % n <=> r % n = 0
<1>0. n \in Nat \ {0} /\ u \in Nat \ {0} /\ a \in Nat /\ a + r \in Nat
  BY DEF InOneRound
<1>1. CASE u % n = 0
  <2>1. ASSUME NEW x \in Nat
        PROVE  (x % u) % n = x % n
    <3>1. PICK w \in Nat : w = x % u
      <4>1. x % u \in 0 .. u - 1
        BY <1>0, TurnsAndRemainder
      <4>2. x % u \in Nat
        BY <1>0, <4>1
      <4>3. QED
        BY <4>2
    <3>2. WrapsInPlace(n, u, x, w)
      BY <1>0, <1>1, <3>1 DEF WrapsInPlace
    <3>3. SamePlace(n, u, x, w, 0)
      BY <3>2, WrapInWholeTurns
    <3>4. QED
      BY <3>1, <3>3 DEF SamePlace
  <2>2. (a + r) % n = a % n <=> r % n = 0
    BY <1>0, SameSlot
  <2>3. QED
    BY <1>0, <2>1, <2>2
<1>2. CASE a \div u = (a + r) \div u
  <2>1. /\ a = u * (a \div u) + (a % u) /\ a % u \in Nat /\ a \div u \in Nat
        /\ a + r = u * ((a + r) \div u) + ((a + r) % u) /\ (a + r) % u \in Nat
    <3>1. \A x \in Nat : /\ x = u * (x \div u) + (x % u)
                         /\ x % u \in 0 .. u - 1 /\ x \div u \in Nat
      BY <1>0, TurnsAndRemainder
    <3>2. \A x \in 0 .. u - 1 : x \in Nat
      BY <1>0
    <3>3. QED
      BY <1>0, <3>1, <3>2
  <2>2. PICK x \in Nat, y \in Nat, k \in Nat :
           /\ x = a % u /\ y = (a + r) % u
           /\ a = u * k + x /\ a + r = u * k + y
    BY <1>2, <2>1
  <2>3. y = x + r
    <3>1. PICK m \in Nat : m = u * k
      BY <1>0
    <3>2. a = m + x /\ a + r = m + y
      BY <2>2, <3>1
    <3>3. QED
      BY <1>0, <3>2
  <2>4. (x + r) % n = x % n <=> r % n = 0
    BY <1>0, SameSlot
  <2>5. QED
    BY <2>2, <2>3, <2>4
<1>3. QED
  BY <1>1, <1>2 DEF InOneRound

(* One on, the rest of the round is still without a jump.                  *)
LEMMA RoundGoesOn ==
  ASSUME NEW n, NEW u, NEW a, NEW e, InOneRound(n, u, a, e), a < e
  PROVE  InOneRound(n, u, a + 1, e)
<1>0. n \in Nat \ {0} /\ u \in Nat \ {0} /\ a \in Nat /\ e \in Nat
  BY DEF InOneRound
<1>1. CASE u % n = 0
  BY <1>0, <1>1 DEF InOneRound
<1>2. CASE a \div u = e \div u
  <2>1. /\ a = u * (a \div u) + (a % u) /\ a % u \in Nat /\ a \div u \in Nat
        /\ e = u * (e \div u) + (e % u) /\ e % u \in 0 .. u - 1
    BY <1>0, TurnsAndRemainder
  <2>2. PICK x \in Nat, y \in 0 .. u - 1, k \in Nat :
           a = u * k + x /\ e = u * k + y /\ k = e \div u
    BY <1>2, <2>1
  <2>3. x + 1 \in 0 .. u - 1 /\ a + 1 = u * k + (x + 1)
    <3>1. PICK m \in Nat : m = u * k
      BY <1>0
    <3>2. a = m + x /\ e = m + y
      BY <2>2, <3>1
    <3>3. QED
      BY <1>0, <3>1, <3>2
  <2>4. \A z \in 0 .. u - 1 : (u * k + z) \div u = k
    BY <1>0, SMTT(30)
  <2>5. (a + 1) \div u = k
    BY <2>3, <2>4
  <2>6. QED
    BY <1>0, <2>2, <2>5 DEF InOneRound
<1>3. QED
  BY <1>1, <1>2 DEF InOneRound

(* One period later, the turns left are one less where a turn is complete, *)
(* and as many elsewhere.                                                  *)
LEMMA OnePeriodLater ==
  ASSUME NEW n \in Nat \ {0}, NEW r \in Nat \ {0}
  PROVE  (r - 1) \div n = IF r % n = 0 THEN (r \div n) - 1 ELSE r \div n
<1>1. r % n = 0 => (r - 1) \div n = (r \div n) - 1
  BY SMTT(30)
<1>2. r % n # 0 => (r - 1) \div n = r \div n
  BY SMTT(30)
<1>3. QED
  BY <1>1, <1>2
-----------------------------------------------------------------------------
(* The slots a wheel of n passes on its way from the slot s to the slot i. *)
Gap(n, s, i) == IF i >= s THEN i - s ELSE i - s + n

(* By how much a timer that waits for c turns and the slot i is late when  *)
(* the wheel is on the slot s and the timer is due in r.                   *)
LateBy(n, s, c, i, r) == n * c + Gap(n, s, i) - r

(* In the period a of a counter that wraps at u, a timer due in e has c    *)
(* turns of the wheel and the slot i to wait for. The counter wraps once   *)
(* on the way: until then the timer is off by less than a turn, and from   *)
(* then on by a whole one or by nothing.                                   *)
NearDue(n, u, a, e, c, i) ==
  LET off == LateBy(n, (a % u) % n, c, i, e - a)
  IN  /\ c \in Nat /\ i = (e % u) % n /\ (e % u) + n < u
      /\ \/ e - (e % u) = a - (a % u) + u /\ -n < off /\ off < n
         \/ e - (e % u) = a - (a % u) /\ off \in {-n, 0, n}

(* The next period on a counter that wraps.                                *)
LEMMA OneOn ==
  ASSUME NEW n \in Nat \ {0}, NEW x \in Nat
  PROVE  (x + 1) % n = IF x % n = n - 1 THEN 0 ELSE (x % n) + 1
<1>1. PICK q \in Nat, r \in 0 .. n - 1 : x = n * q + r /\ r = x % n
  BY TurnsAndRemainder
<1>2. \A m \in Nat, y \in 0 .. n - 1 : (n * m + y) % n = y
  BY SMTT(30)
<1>3. CASE r = n - 1
  <2>1. x + 1 = n * (q + 1) + 0
    <3>1. n * (q + 1) = n * q + n
      BY <1>1
    <3>2. PICK m \in Nat : m = n * q
      BY <1>1
    <3>3. QED
      BY <1>1, <1>3, <3>1, <3>2
  <2>2. q + 1 \in Nat /\ 0 \in 0 .. n - 1
    BY <1>1
  <2>3. (n * (q + 1) + 0) % n = 0
    BY <1>2, <2>2
  <2>4. QED
    BY <1>1, <1>3, <2>1, <2>3
<1>4. CASE r # n - 1
  <2>1. x + 1 = n * q + (r + 1) /\ r + 1 \in 0 .. n - 1
    <3>1. PICK m \in Nat : m = n * q
      OBVIOUS
    <3>2. x + 1 = m + (r + 1) /\ r + 1 \in 0 .. n - 1
      BY <1>1, <1>4, <3>1
    <3>3. QED
      BY <3>1, <3>2
  <2>2. (n * q + (r + 1)) % n = r + 1
    BY <1>1, <1>2, <2>1
  <2>3. QED
    BY <1>1, <1>4, <2>1, <2>2
<1>5. QED
  BY <1>3, <1>4

(* The way from a slot to another is less than a turn.                     *)
LEMMA GapIsLessThanATurn ==
  ASSUME NEW n \in Nat \ {0}, NEW s \in 0 .. n - 1, NEW i \in 0 .. n - 1
  PROVE  Gap(n, s, i) \in 0 .. n - 1 /\ (Gap(n, s, i) = 0 <=> i = s)
BY DEF Gap

(* A multiple of n that is less than two turns away from nothing is a      *)
(* turn away or none.                                                      *)
LEMMA TurnOrNone ==
  ASSUME NEW n \in Nat \ {0}, NEW k \in Int, n * k < 2 * n, -(2 * n) < n * k
  PROVE  n * k \in {-n, 0, n}
<1>1. ASSUME k >= 2 PROVE n * k >= 2 * n
  BY <1>1, SMTT(30)
<1>2. ASSUME k <= -2 PROVE n * k <= -(2 * n)
  BY <1>2, SMTT(30)
<1>3. PICK m \in Int : m = n * k
  OBVIOUS
<1>4. k < 2 /\ k > -2
  <2>1. ~ (k >= 2)
    BY <1>1, <1>3
  <2>2. ~ (k <= -2)
    BY <1>2, <1>3
  <2>3. QED
    BY <2>1, <2>2
<1>5. k \in {-1, 0, 1}
  BY <1>4
<1>6. QED
  BY <1>5

(* A timer that is armed within its delay of the counter's wrap.           *)
LEMMA NearWhenArmed ==
  ASSUME NEW n \in Nat \ {0}, NEW u \in Nat \ {0}, NEW a \in Nat, NEW p \in Nat,
         p + n <= u, ~ InOneRound(n, u, a, a + p)
  PROVE  NearDue(n, u, a, a + p, p \div n, ((a + p) % u) % n)
<1> DEFINE e == a + p
<1>1. e \in Nat
  OBVIOUS
<1>2. PICK k \in Nat, x \in 0 .. u - 1 : a = u * k + x /\ k = a \div u /\ x = a % u
  BY TurnsAndRemainder
<1>3. PICK l \in Nat, y \in 0 .. u - 1 : e = u * l + y /\ l = e \div u /\ y = e % u
  BY <1>1, TurnsAndRemainder
<1>4. k # l
  BY <1>1, <1>2, <1>3 DEF InOneRound
<1> HIDE DEF e
<1>5. l = k + 1
  <2>1. PICK v \in Nat, w \in Nat : v = u * k /\ w = u * l
    OBVIOUS
  <2>2. a = v + x /\ e = w + y /\ e = a + p /\ p < u
    BY <1>2, <1>3, <2>1 DEF e
  <2>3. ASSUME l < k PROVE FALSE
    <3>1. l + 1 <= k
      BY <2>3
    <3>2. w + u <= v
      <4>1. u * (l + 1) <= u * k
        BY <3>1, SMTT(30)
      <4>2. u * (l + 1) = u * l + u
        OBVIOUS
      <4>3. QED
        BY <2>1, <4>1, <4>2
    <3>3. QED
      BY <2>2, <3>2
  <2>4. ASSUME l > k + 1 PROVE FALSE
    <3>1. k + 2 <= l
      BY <2>4
    <3>2. v + 2 * u <= w
      <4>1. u * (k + 2) <= u * l
        BY <3>1, SMTT(30)
      <4>2. u * (k + 2) = u * k + 2 * u
        OBVIOUS
      <4>3. QED
        BY <2>1, <4>1, <4>2
    <3>3. QED
      BY <2>2, <3>2
  <2>5. QED
    BY <1>4, <2>3, <2>4
<1>6. e - y = a - x + u
  <2>1. u * (k + 1) = u * k + u
    OBVIOUS
  <2>2. PICK v \in Nat : v = u * k
    OBVIOUS
  <2>3. a = v + x /\ e = v + u + y
    BY <1>2, <1>3, <1>5, <2>1, <2>2
  <2>4. QED
    BY <2>3
<1>7. y + n < u
  BY <1>2, <1>6 DEF e
<1>8. PICK g : g = Gap(n, x % n, y % n)
  OBVIOUS
<1>9. g \in 0 .. n - 1
  <2>1. x \in Nat /\ y \in Nat
    BY <1>2, <1>3
  <2>2. x % n \in 0 .. n - 1 /\ y % n \in 0 .. n - 1
    BY <2>1, TurnsAndRemainder
  <2>3. QED
    BY <1>8, <2>2, GapIsLessThanATurn
<1>10. PICK t \in Nat, r \in 0 .. n - 1 : p = t + r /\ t = n * (p \div n) /\ p \div n \in Nat
  <2>1. p = n * (p \div n) + (p % n) /\ p % n \in 0 .. n - 1 /\ p \div n \in Nat
    BY TurnsAndRemainder
  <2>2. n * (p \div n) \in Nat
    BY <2>1
  <2>3. QED
    BY <2>1, <2>2
<1>11. -n < t + g - p /\ t + g - p < n
  BY <1>9, <1>10
<1>12. e - a = p
  BY DEF e
<1>13. LateBy(n, (a % u) % n, p \div n, (e % u) % n, e - a) = t + g - p
  BY <1>2, <1>3, <1>8, <1>10, <1>12 DEF LateBy
<1>14. NearDue(n, u, a, e, p \div n, (e % u) % n)
  BY <1>2, <1>3, <1>6, <1>7, <1>10, <1>11, <1>13 DEF NearDue
<1>15. QED
  BY <1>14 DEF e

(* The wheel moves on, and the timer, if it waits in the slot that is left *)
(* behind, has a turn less to wait.                                        *)
LEMMA NearMovesOn ==
  ASSUME NEW n \in Nat \ {0}, NEW u \in Nat \ {0}, NEW a \in Nat, NEW e \in Nat,
         NEW c, NEW i, NearDue(n, u, a, e, c, i), NEW d,
         IF i = (a % u) % n THEN c > 0 /\ d = c - 1 ELSE d = c
  PROVE  NearDue(n, u, a + 1, e, d, i)
<1>1. PICK x \in 0 .. u - 1 : x = a % u
  BY TurnsAndRemainder
<1>2. PICK y \in 0 .. u - 1 : y = e % u
  BY TurnsAndRemainder
<1>3. PICK s \in 0 .. n - 1 : s = x % n
  BY <1>1, TurnsAndRemainder
<1>4. c \in Nat /\ i = y % n /\ i \in 0 .. n - 1 /\ y + n < u
  <2>1. c \in Nat /\ i = y % n /\ y + n < u
    BY <1>2 DEF NearDue
  <2>2. PICK v \in 0 .. n - 1 : v = y % n
    BY <1>2, TurnsAndRemainder
  <2>3. i \in 0 .. n - 1
    BY <2>1, <2>2
  <2>4. QED
    BY <2>1, <2>3
<1>5. PICK t : t = n * c
  OBVIOUS
<1>6. PICK f : f = n * d
  OBVIOUS
<1>7. /\ t \in Nat /\ f \in Nat /\ d \in Nat
      /\ f = IF i = s THEN t - n ELSE t
      /\ i = s => t >= n
  <2>1. d \in Nat
    BY <1>1, <1>3, <1>4
  <2>2. n * (c - 1) = n * c - n
    BY <1>4
  <2>3. c > 0 => n * c >= n
    BY <1>4, SMTT(30)
  <2>4. n * c \in Nat /\ n * d \in Nat
    BY <1>4, <2>1
  <2>5. QED
    BY <1>1, <1>3, <1>4, <1>5, <1>6, <2>1, <2>2, <2>3, <2>4
<1>8. PICK g \in 0 .. n - 1 : g = Gap(n, s, i) /\ (g = 0 <=> i = s)
  <2>1. Gap(n, s, i) \in 0 .. n - 1 /\ (Gap(n, s, i) = 0 <=> i = s)
    BY <1>3, <1>4 DEF Gap
  <2>2. QED
    BY <2>1
<1>9. /\ (a + 1) % u = IF x = u - 1 THEN 0 ELSE x + 1
      /\ (x + 1) % n = IF s = n - 1 THEN 0 ELSE s + 1
  <2>1. x \in Nat
    BY <1>1
  <2>2. (a + 1) % u = IF a % u = u - 1 THEN 0 ELSE (a % u) + 1
    BY OneOn
  <2>3. (x + 1) % n = IF x % n = n - 1 THEN 0 ELSE (x % n) + 1
    BY <2>1, OneOn
  <2>4. QED
    BY <1>1, <1>3, <2>2, <2>3
<1>10. PICK z : z = (IF s = n - 1 THEN 0 ELSE s + 1)
  OBVIOUS
<1>11. z \in 0 .. n - 1
  BY <1>10
<1>12. PICK h \in 0 .. n - 1 : h = Gap(n, z, i) /\ h = IF g = 0 THEN n - 1 ELSE g - 1
  BY <1>4, <1>8, <1>10, <1>11 DEF Gap
<1>13. f + h = t + g - 1
  BY <1>7, <1>8, <1>12
<1>14. PICK off : off = t + g - (e - a)
  OBVIOUS
<1>15. off \in Int /\ f + h - (e - (a + 1)) = off
  BY <1>7, <1>13, <1>14
<1>16. \/ e - y = a - x + u /\ -n < off /\ off < n
       \/ e - y = a - x /\ off \in {-n, 0, n}
  BY <1>1, <1>2, <1>3, <1>4, <1>5, <1>8, <1>14 DEF NearDue, LateBy
<1>17. CASE x # u - 1
  <2>1. (a + 1) % u = x + 1 /\ ((a + 1) % u) % n = z /\ (a + 1) - (x + 1) = a - x
    BY <1>1, <1>9, <1>10, <1>17
  <2>2. LateBy(n, ((a + 1) % u) % n, d, i, e - (a + 1)) = off
    BY <1>6, <1>12, <1>15, <2>1 DEF LateBy
  <2>3. QED
    BY <1>2, <1>4, <1>7, <1>16, <2>1, <2>2 DEF NearDue
<1>18. CASE x = u - 1 /\ e - y = a - x + u
  <2>1. (a + 1) % u = 0 /\ ((a + 1) % u) % n = 0
    <3>1. (a + 1) % u = 0
      BY <1>9, <1>18
    <3>2. 0 % n = 0
      BY SMTT(30)
    <3>3. QED
      BY <3>1, <3>2
  <2>2. e - (a + 1) = y /\ e - y = (a + 1) - 0
    BY <1>1, <1>2, <1>18
  <2>3. Gap(n, 0, i) = i
    BY <1>4 DEF Gap
  <2>4. PICK m \in Nat : m = y \div n /\ y = n * m + i
    <3>1. y \in Nat
      BY <1>2
    <3>2. y = n * (y \div n) + (y % n) /\ y \div n \in Nat
      BY <3>1, TurnsAndRemainder
    <3>3. QED
      BY <1>4, <3>2
  <2>5. f + i - y = n * (d - m)
    <3>1. n * (d - m) = n * d - n * m
      BY <1>7, <2>4
    <3>2. PICK w \in Nat : w = n * m
      BY <2>4
    <3>3. QED
      BY <1>4, <1>6, <1>7, <2>4, <3>1, <3>2
  <2>6. -(2 * n) < f + i - y /\ f + i - y < 2 * n
    BY <1>4, <1>7, <1>12, <1>15, <1>16, <1>18, <2>2
  <2>7. d - m \in Int
    BY <1>7, <2>4
  <2>8. f + i - y \in {-n, 0, n}
    BY <2>5, <2>6, <2>7, TurnOrNone
  <2>9. LateBy(n, ((a + 1) % u) % n, d, i, e - (a + 1)) = f + i - y
    BY <1>6, <2>1, <2>2, <2>3 DEF LateBy
  <2>10. QED
    BY <1>2, <1>4, <1>7, <2>1, <2>2, <2>8, <2>9 DEF NearDue
<1>19. CASE x = u - 1 /\ e - y = a - x /\ off \in {-n, 0, n}
  <2>1. t + g >= 1
    BY <1>7, <1>8
  <2>2. e - a >= 1 - n
    BY <1>7, <1>14, <1>19, <2>1
  <2>3. y - x >= 1 - n
    BY <1>1, <1>2, <1>19, <2>2
  <2>4. QED
    BY <1>1, <1>2, <1>4, <1>19, <2>3
<1>20. QED
  BY <1>16, <1>17, <1>18, <1>19

(* It is taken from its slot no more than a turn before or after it is due.*)
LEMMA NearWhenFired ==
  ASSUME NEW n \in Nat \ {0}, NEW u \in Nat \ {0}, NEW a \in Nat, NEW e \in Nat,
         NearDue(n, u, a, e, 0, (a % u) % n)
  PROVE  e - n <= a /\ a <= e + n
<1>1. PICK s \in Nat : s = (a % u) % n
  BY TurnsAndRemainder
<1>2. LateBy(n, s, 0, s, e - a) = 0 - (e - a)
  BY <1>1 DEF LateBy, Gap
<1>3. PICK off : off = 0 - (e - a)
  OBVIOUS
<1>4. -n <= off /\ off <= n
  BY <1>1, <1>2, <1>3 DEF NearDue
<1>5. QED
  BY <1>3, <1>4
-----------------------------------------------------------------------------
(* The elements of s come in ascending order of their keys.                *)
Ascending(key, s) == \A j, k \in DOMAIN s : j < k => key[s[j]] <= key[s[k]]

(* The elements of a sequence and its length, without its domain.          *)
LEMMA ListElements ==
  ASSUME NEW S, NEW s \in Seq(S)
  PROVE  /\ DOMAIN s = 1 .. Len(s) /\ Len(s) \in Nat
         /\ \A k \in 1 .. Len(s) : s[k] \in S /\ s[k] \in ToSet(s)
         /\ \A e : e \in ToSet(s) <=> \E k \in 1 .. Len(s) : s[k] = e
         /\ ToSet(s) \subseteq S
         /\ s = <<>> <=> Len(s) = 0
BY LenProperties, ElementOfSeq, EmptySeq DEF ToSet

(* Where the elements of a list are once e has been inserted at k.         *)
LEMMA InsertAtElements ==
  ASSUME NEW S, NEW s \in Seq(S), NEW k \in 1 .. Len(s) + 1, NEW e \in S
  PROVE  /\ InsertAt(s, k, e) \in Seq(S)
         /\ Len(InsertAt(s, k, e)) = Len(s) + 1
         /\ \A j \in 1 .. Len(s) + 1 :
               InsertAt(s, k, e)[j] = IF j < k THEN s[j]
                                      ELSE IF j = k THEN e ELSE s[j - 1]
<1> DEFINE a == SubSeq(s, 1, k - 1)
           b == SubSeq(s, k, Len(s))
<1>1. a \in Seq(S) /\ Len(a) = k - 1 /\ \A j \in 1 .. k - 1 : a[j] = s[j]
  BY SubSeqProperties
<1>2. /\ b \in Seq(S) /\ Len(b) = Len(s) - k + 1
      /\ \A j \in 1 .. Len(s) - k + 1 : b[j] = s[k + j - 1]
  BY SubSeqProperties
<1>3. <<e>> \in Seq(S) /\ Len(<<e>>) = 1 /\ <<e>>[1] = e
  OBVIOUS
<1>4. Len(s) \in Nat
  BY LenProperties
<1> DEFINE c == a \o <<e>>
           t == c \o b
<1>5. InsertAt(s, k, e) = t
  BY DEF InsertAt
<1> HIDE DEF a, b
<1>6. /\ c \in Seq(S) /\ Len(c) = k
      /\ \A j \in 1 .. k : c[j] = IF j < k THEN s[j] ELSE e
  BY <1>1, <1>3, ConcatProperties
<1> HIDE DEF c
<1>7. /\ t \in Seq(S) /\ Len(t) = Len(c) + Len(b)
      /\ \A j \in 1 .. Len(c) + Len(b) : t[j] = IF j <= Len(c) THEN c[j] ELSE b[j - Len(c)]
  BY <1>2, <1>6, ConcatProperties
<1>8. Len(t) = Len(s) + 1 /\ Len(c) + Len(b) = Len(s) + 1
  BY <1>2, <1>4, <1>6, <1>7
<1> HIDE DEF t
<1>9. ASSUME NEW j \in 1 .. Len(s) + 1
      PROVE  t[j] = IF j < k THEN s[j] ELSE IF j = k THEN e ELSE s[j - 1]
  <2>1. t[j] = IF j <= k THEN c[j] ELSE b[j - k]
    BY <1>6, <1>7, <1>8
  <2>2. CASE j <= k
    BY <2>1, <2>2, <1>4, <1>6
  <2>3. CASE j > k
    <3>1. j - k \in 1 .. Len(s) - k + 1 /\ k + (j - k) - 1 = j - 1
      BY <2>3, <1>4
    <3>2. b[j - k] = s[j - 1]
      BY <3>1, <1>2
    <3>3. QED
      BY <3>2, <2>1, <2>3
  <2>4. QED
    BY <2>2, <2>3
<1>10. QED
  BY <1>5, <1>7, <1>8, <1>9

(* Where the elements of a list are once the one at k has been removed.    *)
LEMMA RemoveAtElements ==
  ASSUME NEW S, NEW s \in Seq(S), NEW k \in 1 .. Len(s)
  PROVE  /\ RemoveAt(s, k) \in Seq(S)
         /\ Len(RemoveAt(s, k)) = Len(s) - 1
         /\ \A j \in 1 .. Len(s) - 1 :
               RemoveAt(s, k)[j] = IF j < k THEN s[j] ELSE s[j + 1]
<1> DEFINE a == SubSeq(s, 1, k - 1)
           b == SubSeq(s, k + 1, Len(s))
<1>1. a \in Seq(S) /\ Len(a) = k - 1 /\ \A j \in 1 .. k - 1 : a[j] = s[j]
  BY SubSeqProperties
<1>2. /\ b \in Seq(S) /\ Len(b) = Len(s) - k
      /\ \A j \in 1 .. Len(s) - k : b[j] = s[k + j]
  BY SubSeqProperties
<1>3. RemoveAt(s, k) = a \o b
  BY DEF RemoveAt
<1> HIDE DEF a, b
<1>4. QED
  BY <1>1, <1>2, <1>3, ConcatProperties

(* A new element is inserted: the list gains it and nothing else.          *)
LEMMA InsertIntoList ==
  ASSUME NEW S, NEW s \in Seq(S), NEW k \in 1 .. Len(s) + 1, NEW e \in S,
         IsInjective(s), e \notin ToSet(s)
  PROVE  /\ InsertAt(s, k, e) \in Seq(S)
         /\ IsInjective(InsertAt(s, k, e))
         /\ ToSet(InsertAt(s, k, e)) = ToSet(s) \union {e}
<1>1. PICK t : t = InsertAt(s, k, e)
  OBVIOUS
<1> DEFINE from(j) == IF j < k THEN j ELSE j - 1
<1>2. /\ t \in Seq(S) /\ Len(t) = Len(s) + 1
      /\ \A j \in 1 .. Len(s) + 1 :
            t[j] = IF j < k THEN s[j] ELSE IF j = k THEN e ELSE s[j - 1]
  <2>1. /\ InsertAt(s, k, e) \in Seq(S)
        /\ Len(InsertAt(s, k, e)) = Len(s) + 1
        /\ \A j \in 1 .. Len(s) + 1 :
              InsertAt(s, k, e)[j] = IF j < k THEN s[j]
                                     ELSE IF j = k THEN e ELSE s[j - 1]
    BY InsertAtElements
  <2>2. QED
    BY <1>1, <2>1, Zenon
<1>3. Len(s) \in Nat /\ DOMAIN s = 1 .. Len(s) /\ DOMAIN t = 1 .. Len(s) + 1
  BY <1>2, ListElements
<1>4. \A j \in 1 .. Len(s) : s[j] # e /\ s[j] \in ToSet(s)
  BY ListElements
<1>5. t[k] = e
  BY <1>2, <1>3
<1>6. \A j \in 1 .. Len(s) + 1 : j # k => from(j) \in 1 .. Len(s) /\ t[j] = s[from(j)]
  BY <1>2, <1>3
<1>7. \A i, j \in 1 .. Len(s) + 1 : i # k /\ j # k /\ from(i) = from(j) => i = j
  BY <1>3
<1> HIDE DEF from
<1>8. IsInjective(t)
  <2> SUFFICES ASSUME NEW i \in 1 .. Len(s) + 1, NEW j \in 1 .. Len(s) + 1, t[i] = t[j]
               PROVE  i = j
    BY <1>3 DEF IsInjective
  <2>1. i = k <=> j = k
    BY <1>4, <1>5, <1>6
  <2>2. CASE i # k
    BY <2>1, <2>2, <1>3, <1>6, <1>7 DEF IsInjective
  <2>3. QED
    BY <2>1, <2>2
<1>9. \A j \in 1 .. Len(s) + 1 : t[j] \in ToSet(s) \union {e}
  BY <1>4, <1>5, <1>6
<1>10. ASSUME NEW i \in 1 .. Len(s)
       PROVE  \E j \in 1 .. Len(s) + 1 : t[j] = s[i]
  <2>1. CASE i < k
    BY <2>1, <1>2, <1>3
  <2>2. CASE i >= k
    <3>1. t[i + 1] = s[i] /\ i + 1 \in 1 .. Len(s) + 1
      BY <2>2, <1>2, <1>3
    <3>2. QED
      BY <3>1
  <2>3. QED
    BY <2>1, <2>2, <1>3
<1>11. ToSet(t) = ToSet(s) \union {e}
  BY <1>3, <1>5, <1>9, <1>10 DEF ToSet
<1>12. QED
  BY <1>1, <1>2, <1>8, <1>11

(* An element is removed: the list loses it and nothing else.              *)
LEMMA RemoveFromList ==
  ASSUME NEW S, NEW s \in Seq(S), NEW k \in 1 .. Len(s), IsInjective(s)
  PROVE  /\ RemoveAt(s, k) \in Seq(S)
         /\ IsInjective(RemoveAt(s, k))
         /\ ToSet(RemoveAt(s, k)) = ToSet(s) \ {s[k]}
<1>1. PICK t : t = RemoveAt(s, k)
  OBVIOUS
<1> DEFINE from(j) == IF j < k THEN j ELSE j + 1
<1>2. /\ t \in Seq(S) /\ Len(t) = Len(s) - 1
      /\ \A j \in 1 .. Len(s) - 1 : t[j] = IF j < k THEN s[j] ELSE s[j + 1]
  BY <1>1, RemoveAtElements
<1>3. /\ Len(s) \in Nat /\ DOMAIN s = 1 .. Len(s) /\ DOMAIN t = 1 .. Len(s) - 1
      /\ \A j \in 1 .. Len(s) : s[j] \in ToSet(s)
  BY <1>2, ListElements
<1>4. \A j \in 1 .. Len(s) - 1 : from(j) \in 1 .. Len(s) \ {k} /\ t[j] = s[from(j)]
  BY <1>2, <1>3
<1>5. \A i, j \in 1 .. Len(s) - 1 : from(i) = from(j) => i = j
  BY <1>3
<1> HIDE DEF from
<1>6. \A i, j \in 1 .. Len(s) : s[i] = s[j] => i = j
  BY <1>3 DEF IsInjective
<1>7. IsInjective(t)
  BY <1>3, <1>4, <1>5, <1>6 DEF IsInjective
<1>8. \A j \in 1 .. Len(s) - 1 : t[j] \in ToSet(s) \ {s[k]}
  BY <1>3, <1>4, <1>6
<1>9. ASSUME NEW i \in 1 .. Len(s), s[i] # s[k]
      PROVE  \E j \in 1 .. Len(s) - 1 : t[j] = s[i]
  <2>1. CASE i < k
    BY <2>1, <1>2, <1>3
  <2>2. CASE i > k
    <3>1. t[i - 1] = s[i] /\ i - 1 \in 1 .. Len(s) - 1
      BY <2>2, <1>2, <1>3
    <3>2. QED
      BY <3>1
  <2>3. QED
    BY <2>1, <2>2, <1>3, <1>9
<1>10. ToSet(t) = ToSet(s) \ {s[k]}
  <2>1. ASSUME NEW x \in ToSet(t)
        PROVE  x \in ToSet(s) \ {s[k]}
    BY <2>1, <1>3, <1>8 DEF ToSet
  <2>2. ASSUME NEW x \in ToSet(s), x # s[k]
        PROVE  x \in ToSet(t)
    <3>1. PICK i \in 1 .. Len(s) : x = s[i]
      BY <1>3 DEF ToSet
    <3>2. PICK j \in 1 .. Len(s) - 1 : t[j] = x
      BY <2>2, <3>1, <1>9
    <3>3. QED
      BY <3>2, <1>3 DEF ToSet
  <2>3. QED
    BY <2>1, <2>2
<1>11. QED
  BY <1>1, <1>2, <1>7, <1>10

(* The head is taken: the list loses it and nothing else.                  *)
LEMMA TakeHead ==
  ASSUME NEW S, NEW s \in Seq(S), s # <<>>, IsInjective(s)
  PROVE  /\ Head(s) \in ToSet(s) /\ Head(s) = s[1] /\ 1 \in DOMAIN s
         /\ Tail(s) \in Seq(S)
         /\ IsInjective(Tail(s))
         /\ ToSet(Tail(s)) = ToSet(s) \ {Head(s)}
<1>1. PICK t : t = Tail(s)
  OBVIOUS
<1>2. /\ t \in Seq(S) /\ Len(t) = Len(s) - 1
      /\ \A j \in 1 .. Len(s) - 1 : t[j] = s[j + 1]
  BY <1>1, HeadTailProperties
<1>3. /\ Len(s) \in Nat \ {0} /\ DOMAIN s = 1 .. Len(s) /\ DOMAIN t = 1 .. Len(s) - 1
      /\ \A j \in 1 .. Len(s) : s[j] \in ToSet(s)
  BY <1>2, ListElements
<1>4. Head(s) = s[1] /\ Head(s) \in ToSet(s) /\ 1 \in DOMAIN s
  BY <1>3
<1>5. \A i, j \in 1 .. Len(s) : s[i] = s[j] => i = j
  BY <1>3 DEF IsInjective
<1>6. \A j \in 1 .. Len(s) - 1 : j + 1 \in 1 .. Len(s) \ {1} /\ t[j] = s[j + 1]
  BY <1>2, <1>3
<1>7. ASSUME NEW i \in 1 .. Len(s) - 1, NEW j \in 1 .. Len(s) - 1, t[i] = t[j]
      PROVE  i = j
  <2>1. i + 1 = j + 1
    BY <1>5, <1>6, <1>7
  <2>2. QED
    BY <2>1, <1>3
<1>8. IsInjective(t)
  BY <1>3, <1>7 DEF IsInjective
<1>9. ASSUME NEW j \in 1 .. Len(s) - 1
      PROVE  t[j] \in ToSet(s) \ {s[1]}
  <2>1. s[j + 1] # s[1]
    BY <1>3, <1>5, <1>6
  <2>2. QED
    BY <2>1, <1>3, <1>6
<1>10. ASSUME NEW i \in 1 .. Len(s), s[i] # s[1]
       PROVE  \E j \in 1 .. Len(s) - 1 : t[j] = s[i]
  <2>1. t[i - 1] = s[i] /\ i - 1 \in 1 .. Len(s) - 1
    BY <1>2, <1>3, <1>10
  <2>2. QED
    BY <2>1
<1>11. ToSet(t) = ToSet(s) \ {s[1]}
  <2>1. ASSUME NEW x \in ToSet(t)
        PROVE  x \in ToSet(s) \ {s[1]}
    BY <2>1, <1>3, <1>9 DEF ToSet
  <2>2. ASSUME NEW x \in ToSet(s), x # s[1]
        PROVE  x \in ToSet(t)
    <3>1. PICK i \in 1 .. Len(s) : x = s[i]
      BY <1>3 DEF ToSet
    <3>2. PICK j \in 1 .. Len(s) - 1 : t[j] = x
      BY <2>2, <3>1, <1>10
    <3>3. QED
      BY <3>2, <1>3 DEF ToSet
  <2>3. QED
    BY <2>1, <2>2
<1>12. QED
  BY <1>1, <1>2, <1>4, <1>8, <1>11

(* The order depends on the keys of the elements alone.                    *)
LEMMA AscendingSameKeys ==
  ASSUME NEW S, NEW s \in Seq(S), NEW key, NEW newKey,
         \A e \in ToSet(s) : newKey[e] = key[e], Ascending(key, s)
  PROVE  Ascending(newKey, s)
BY ListElements DEF Ascending

(* A list stays in order when its head is taken.                           *)
LEMMA AscendingTail ==
  ASSUME NEW S, NEW s \in Seq(S), s # <<>>, NEW key, Ascending(key, s)
  PROVE  Ascending(key, Tail(s))
<1>1. /\ Tail(s) \in Seq(S) /\ Len(Tail(s)) = Len(s) - 1
      /\ \A j \in 1 .. Len(Tail(s)) : Tail(s)[j] = s[j + 1]
  BY HeadTailProperties
<1>2. Len(s) \in Nat /\ DOMAIN s = 1 .. Len(s) /\ DOMAIN Tail(s) = 1 .. Len(s) - 1
  BY <1>1, ListElements
<1>3. QED
  BY <1>1, <1>2 DEF Ascending

(* A list stays in order when an element is removed.                       *)
LEMMA AscendingRemove ==
  ASSUME NEW S, NEW s \in Seq(S), NEW k \in 1 .. Len(s), NEW key, Ascending(key, s)
  PROVE  Ascending(key, RemoveAt(s, k))
<1>1. PICK t : t = RemoveAt(s, k)
  OBVIOUS
<1> DEFINE from(j) == IF j < k THEN j ELSE j + 1
<1>2. /\ t \in Seq(S) /\ Len(t) = Len(s) - 1
      /\ \A j \in 1 .. Len(s) - 1 : t[j] = IF j < k THEN s[j] ELSE s[j + 1]
  BY <1>1, RemoveAtElements
<1>3. Len(s) \in Nat /\ DOMAIN s = 1 .. Len(s) /\ DOMAIN t = 1 .. Len(s) - 1
  BY <1>2, ListElements
<1>4. \A j \in 1 .. Len(s) - 1 : from(j) \in 1 .. Len(s) /\ t[j] = s[from(j)]
  BY <1>2, <1>3
<1>5. \A i, j \in 1 .. Len(s) - 1 : i < j => from(i) < from(j)
  BY <1>3
<1> HIDE DEF from
<1>6. Ascending(key, t)
  BY <1>3, <1>4, <1>5 DEF Ascending
<1>7. QED
  BY <1>1, <1>6

(* A list stays in order when an element is inserted behind those with     *)
(* smaller keys and before the first whose key is not smaller.             *)
LEMMA AscendingInsert ==
  ASSUME NEW S, NEW s \in Seq(S), NEW k \in 1 .. Len(s) + 1, NEW e \in S,
         NEW key \in [S -> Int], Ascending(key, s),
         \A j \in 1 .. k - 1 : key[s[j]] < key[e],
         k <= Len(s) => key[s[k]] >= key[e]
  PROVE  Ascending(key, InsertAt(s, k, e))
<1> DEFINE t == InsertAt(s, k, e)
<1>1. /\ t \in Seq(S) /\ Len(t) = Len(s) + 1
      /\ \A j \in 1 .. Len(s) + 1 :
            t[j] = IF j < k THEN s[j] ELSE IF j = k THEN e ELSE s[j - 1]
  BY InsertAtElements
<1>2. /\ Len(s) \in Nat /\ DOMAIN s = 1 .. Len(s) /\ DOMAIN t = 1 .. Len(s) + 1
      /\ \A j \in 1 .. Len(s) : s[j] \in S
  BY <1>1, ListElements
<1>3. \A i, j \in 1 .. Len(s) : i < j => key[s[i]] <= key[s[j]]
  BY <1>2 DEF Ascending
<1>4. \A j \in k .. Len(s) : key[e] <= key[s[j]]
  <2> TAKE j \in k .. Len(s)
  <2>1. k \in 1 .. Len(s) /\ j \in 1 .. Len(s) /\ key[s[k]] <= key[s[j]]
    BY <1>2, <1>3
  <2>2. key[s[k]] \in Int /\ key[s[j]] \in Int /\ key[e] \in Int
    BY <1>2, <2>1
  <2>3. QED
    BY <2>1, <2>2
<1> HIDE DEF t
<1>5. ASSUME NEW i \in 1 .. Len(s) + 1, NEW j \in 1 .. Len(s) + 1, i < j
      PROVE  key[t[i]] <= key[t[j]]
  <2>1. CASE j < k
    BY <2>1, <1>1, <1>2, <1>3, <1>5
  <2>2. CASE j = k
    <3>1. t[i] = s[i] /\ t[j] = e /\ i \in 1 .. k - 1 /\ i \in 1 .. Len(s)
      BY <2>2, <1>1, <1>2, <1>5
    <3>2. key[s[i]] < key[e] /\ key[s[i]] \in Int /\ key[e] \in Int
      BY <3>1, <1>2
    <3>3. QED
      BY <3>1, <3>2
  <2>3. CASE j > k /\ i = k
    <3>1. t[i] = e /\ t[j] = s[j - 1] /\ j - 1 \in k .. Len(s)
      BY <2>3, <1>1, <1>2
    <3>2. QED
      BY <3>1, <1>4
  <2>4. CASE j > k /\ i < k
    <3>1. t[i] = s[i] /\ t[j] = s[j - 1] /\ i \in 1 .. Len(s) /\ j - 1 \in 1 .. Len(s)
          /\ i < j - 1
      BY <2>4, <1>1, <1>2
    <3>2. QED
      BY <3>1, <1>3
  <2>5. CASE i > k
    <3>1. t[i] = s[i - 1] /\ t[j] = s[j - 1] /\ i - 1 \in 1 .. Len(s)
          /\ j - 1 \in 1 .. Len(s) /\ i - 1 < j - 1
      BY <2>5, <1>1, <1>2, <1>5
    <3>2. QED
      BY <3>1, <1>3
  <2>6. QED
    BY <2>1, <2>2, <2>3, <2>4, <2>5, <1>2, <1>5
<1>6. QED
  BY <1>2, <1>5 DEF Ascending, t
=============================================================================
