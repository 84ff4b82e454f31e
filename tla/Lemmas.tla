------------------------------- MODULE Lemmas -------------------------------
(***************************************************************************)
(* Facts the proofs share: induction over the natural numbers for a set,   *)
(* recursive functions over an interval, division, and what taking an      *)
(* element out of a queue and adding one at its end do.                    *)
(*                                                                         *)
(* The induction of the library is over a predicate; a predicate over the  *)
(* numbers is the set of those that satisfy it, and the proofs use that.   *)
(***************************************************************************)
EXTENDS Queue, SequenceTheorems, WellFoundedInduction, TLAPS

(* A set of natural numbers has a least element. *)
LEMMA LeastNat ==
  ASSUME NEW T \in SUBSET Nat, T # {}
  PROVE  \E m \in T : \A n \in T : m <= n
<1> DEFINE R == {ss \in Nat \X Nat : ss[1] < ss[2]}
<1>1. IsWellFoundedOn(R, Nat)
  BY NatLessThanWellFounded DEF OpToRel
<1>2. PICK m \in T : \A n \in T : ~(<<n, m>> \in R)
  BY <1>1, WFMin
<1>3. \A n \in T : ~(n < m)
  BY <1>2
<1>4. QED
  BY <1>3

(* And the numbers up to n are in each set that has 0 and, with a number   *)
(* below n, the next.                                                      *)
LEMMA UpTo ==
  ASSUME NEW n \in Nat, NEW S, 0 \in S, \A i \in 1 .. n : i - 1 \in S => i \in S
  PROVE  0 .. n \subseteq S
<1>1. SUFFICES ASSUME (0 .. n) \ S # {} PROVE FALSE
  OBVIOUS
<1>2. PICK m \in (0 .. n) \ S : \A i \in (0 .. n) \ S : m <= i
  <2>1. (0 .. n) \ S \in SUBSET Nat
    OBVIOUS
  <2>2. QED
    BY <1>1, <2>1, LeastNat
<1>3. m # 0 /\ m \in 1 .. n /\ m - 1 \in 0 .. n
  BY <1>2
<1>4. QED
  BY <1>2, <1>3

(* A recursion that goes on from an element for one number to the element  *)
(* for a greater one has a value for each number.                          *)
Descends(f, n, s, prev, step) == f[0] = s /\ \A i \in 1 .. n : f[i] = step[i][f[prev[i]]]

LEMMA Descent ==
  ASSUME NEW n \in Nat, NEW S, NEW s \in S, NEW step \in [1 .. n -> [S -> S]],
         NEW prev \in [1 .. n -> Nat], \A i \in 1 .. n : prev[i] < i
  PROVE  \E f \in [0 .. n -> S] : Descends(f, n, s, prev, step)
<1> DEFINE Reached(m, f) == Descends(f, m, s, prev, step)
           T == {m \in 0 .. n : \E f \in [0 .. m -> S] : Reached(m, f)}
<1>0. \A m \in 0 .. n : m \in T <=> \E f \in [0 .. m -> S] : Reached(m, f)
  OBVIOUS
<1> HIDE DEF T
<1>1. 0 \in T
  <2>1. [i \in 0 .. 0 |-> s] \in [0 .. 0 -> S] /\ Reached(0, [i \in 0 .. 0 |-> s])
    BY DEF Descends
  <2>2. \E f \in [0 .. 0 -> S] : Reached(0, f)
    BY <2>1
  <2> HIDE DEF Reached
  <2>3. 0 \in 0 .. n
    OBVIOUS
  <2>4. QED
    BY <1>0, <2>2, <2>3
<1>2. ASSUME NEW m \in 1 .. n, m - 1 \in T PROVE m \in T
  <2>1. PICK f \in [0 .. m - 1 -> S] : Reached(m - 1, f)
    BY <1>0, <1>2
  <2> DEFINE g == [i \in 0 .. m |-> IF i = m THEN step[m][f[prev[m]]] ELSE f[i]]
  <2>2. \A i \in 1 .. m : prev[i] \in 0 .. i - 1
    OBVIOUS
  <2>3. g \in [0 .. m -> S]
    BY <2>1, <2>2
  <2>4. g[0] = s /\ \A i \in 1 .. m - 1 : g[i] = f[i] /\ f[i] = step[i][f[prev[i]]]
    BY <2>1 DEF Descends
  <2>5. \A i \in 1 .. m : g[prev[i]] = f[prev[i]]
    BY <2>2
  <2>6. g[m] = step[m][f[prev[m]]]
    OBVIOUS
  <2> HIDE DEF g
  <2>7. \A i \in 1 .. m : g[i] = step[i][g[prev[i]]]
    BY <2>4, <2>5, <2>6
  <2>8. Reached(m, g)
    BY <2>4, <2>7 DEF Descends
  <2>9. \E h \in [0 .. m -> S] : Reached(m, h)
    BY <2>3, <2>8
  <2> HIDE DEF Reached
  <2>10. m \in 0 .. n
    OBVIOUS
  <2>11. QED
    BY <1>0, <2>9, <2>10
<1>3. 0 .. n \subseteq T
  BY <1>1, <1>2, UpTo
<1>4. QED
  BY <1>0, <1>3

(* One that goes from each number to the next in particular. *)
Iterates(f, n, s, step) == f[0] = s /\ \A i \in 1 .. n : f[i] = step[i][f[i - 1]]

LEMMA Recursion ==
  ASSUME NEW n \in Nat, NEW S, NEW s \in S, NEW step \in [1 .. n -> [S -> S]]
  PROVE  \E f \in [0 .. n -> S] : Iterates(f, n, s, step)
<1> DEFINE prev == [i \in 1 .. n |-> i - 1]
<1>1. prev \in [1 .. n -> Nat] /\ \A i \in 1 .. n : prev[i] < i
  OBVIOUS
<1>2. \A i \in 1 .. n : prev[i] = i - 1
  OBVIOUS
<1> HIDE DEF prev
<1>3. PICK f \in [0 .. n -> S] : Descends(f, n, s, prev, step)
  BY <1>1, Descent
<1>4. QED
  BY <1>2, <1>3 DEF Descends, Iterates

-----------------------------------------------------------------------------
(* Division by a positive number. *)
LEMMA DivMod ==
  ASSUME NEW P \in Nat \ {0}, NEW a \in Int
  PROVE  a \div P \in Int /\ a % P \in 0 .. P - 1 /\ a = P * (a \div P) + (a % P)
  OBVIOUS

LEMMA DivUnique ==
  ASSUME NEW P \in Nat \ {0}, NEW q \in Int, NEW r \in 0 .. P - 1
  PROVE  (P * q + r) \div P = q /\ (P * q + r) % P = r
<1> DEFINE a == P * q + r
<1>1. a \in Int
  OBVIOUS
<1> HIDE DEF a
<1>2. a = P * (a \div P) + (a % P) /\ a % P \in 0 .. P - 1 /\ a \div P \in Int
  BY <1>1, DivMod
<1>3. P * (q - (a \div P)) = (a % P) - r
  BY <1>1, <1>2 DEF a
<1>4. (a % P) - r < P /\ (a % P) - r > -P
  BY <1>2
<1>5. q = a \div P
  BY <1>2, <1>3, <1>4
<1>6. QED
  BY <1>1, <1>2, <1>5 DEF a

LEMMA TimesLess ==
  ASSUME NEW P \in Nat \ {0}, NEW a \in Int, NEW b \in Int, P * a < P * b
  PROVE  a < b
<1>1. SUFFICES ASSUME b <= a PROVE P * b <= P * a
  OBVIOUS
<1>2. P * (a - b) >= 0
  BY <1>1
<1>3. P * (a - b) = P * a - P * b
  OBVIOUS
<1>4. QED
  BY <1>2, <1>3

LEMMA DivNext ==
  ASSUME NEW P \in Nat \ {0}, NEW a \in Nat
  PROVE  /\ a \div P \in Nat /\ a % P \in Int
         /\ (a + P) \div P = (a \div P) + 1 /\ (a + P) % P = a % P
         /\ a < P => a \div P = 0 /\ a % P = a
<1> DEFINE q == a \div P
           r == a % P
<1>1. q \in Int /\ r \in 0 .. P - 1 /\ a = P * q + r
  BY DivMod
<1>2. q \in Nat
  OBVIOUS
<1>3. a < P => q = 0 /\ r = a
  OBVIOUS
<1> HIDE DEF q, r
<1>4. a + P = P * (q + 1) + r /\ q + 1 \in Int
  BY <1>1
<1>5. (P * (q + 1) + r) \div P = q + 1 /\ (P * (q + 1) + r) % P = r
  BY <1>1, <1>4, DivUnique
<1>6. QED
  BY <1>2, <1>3, <1>4, <1>5 DEF q, r

(* Rounding down and up to a multiple. *)
LEMMA RoundDown ==
  ASSUME NEW P \in Nat \ {0}, NEW a \in Nat
  PROVE  a \div P \in Nat /\ a - (a % P) = P * (a \div P) /\ P * (a \div P) <= a
<1>1. a \div P \in Int /\ a % P \in 0 .. P - 1 /\ a = P * (a \div P) + (a % P)
  BY DivMod
<1> DEFINE q == a \div P
           r == a % P
<1> HIDE DEF q, r
<1>2. q \in Int /\ r \in 0 .. P - 1 /\ a = P * q + r
  BY <1>1 DEF q, r
<1>3. P * q \in Int
  BY <1>2
<1>4. P * (0 - 1) < P * q
  BY <1>2, <1>3
<1>5. 0 - 1 < q
  BY <1>2, <1>4, TimesLess
<1>6. q \in Nat
  BY <1>2, <1>5
<1>7. a - r = P * q /\ P * q <= a
  BY <1>2, <1>3
<1>8. QED
  BY <1>6, <1>7 DEF q, r

LEMMA RoundUp ==
  ASSUME NEW P \in Nat \ {0}, NEW a \in Nat
  PROVE  \E u \in Nat : /\ (IF a % P = 0 THEN a ELSE a + P - (a % P)) = P * u
                        /\ a <= P * u /\ P * u < a + P
<1> DEFINE q == a \div P
           r == a % P
           c == P * q
<1>1. q \in Nat /\ r \in 0 .. P - 1 /\ a = c + r /\ c \in Int
  <2>1. q \in Nat
    BY RoundDown
  <2>2. r \in 0 .. P - 1 /\ a = c + r
    BY DivMod
  <2> HIDE DEF q
  <2>3. c \in Int
    BY <2>1
  <2>4. QED
    BY <2>1, <2>2, <2>3
<1>2. P * (q + 1) = c + P
  <2> HIDE DEF q
  <2>1. QED
    BY <1>1
<1> HIDE DEF q, r, c
<1>3. CASE r = 0
  <2>1. a = c /\ a <= c /\ c < a + P
    BY <1>1, <1>3
  <2>2. QED
    BY <2>1, <1>1, <1>3 DEF r, c
<1>4. CASE r # 0
  <2>1. a + P - r = c + P /\ a <= c + P /\ c + P < a + P
    BY <1>1, <1>4
  <2>2. a + P - r = P * (q + 1) /\ a <= P * (q + 1) /\ P * (q + 1) < a + P
    BY <2>1, <1>2
  <2>3. q + 1 \in Nat
    BY <1>1
  <2>4. QED
    BY <2>2, <2>3, <1>4 DEF r
<1>5. QED
  BY <1>3, <1>4

-----------------------------------------------------------------------------
(* IndexOf finds an element that is there. *)
LEMMA IndexOfMember ==
  ASSUME NEW S, NEW q \in Seq(S), NEW x \in Members(q)
  PROVE  IndexOf(q, x) \in 1 .. Len(q) /\ q[IndexOf(q, x)] = x
  BY DEF IndexOf, Members

(* Without removes one element and moves the later ones up by one. *)
LEMMA WithoutProperties ==
  ASSUME NEW S, NEW q \in Seq(S), NEW i \in 1 .. Len(q)
  PROVE  /\ Without(q, i) \in Seq(S)
         /\ Len(Without(q, i)) = Len(q) - 1
         /\ \A j \in 1 .. Len(q) - 1 :
               Without(q, i)[j] = IF j < i THEN q[j] ELSE q[j + 1]
<1> DEFINE front == SubSeq(q, 1, i - 1)
<1> DEFINE back == SubSeq(q, i + 1, Len(q))
<1>1. Len(q) \in Nat /\ \A j \in 1 .. Len(q) : q[j] \in S
  BY LenProperties, ElementOfSeq
<1>2. /\ front \in Seq(S) /\ Len(front) = i - 1
      /\ \A j \in 1 .. i - 1 : front[j] = q[j]
  <2>1. \A j \in 1 .. i - 1 : q[j] \in S
    BY <1>1
  <2>2. /\ front \in Seq(S)
        /\ Len(front) = IF 1 <= i - 1 THEN (i - 1) - 1 + 1 ELSE 0
        /\ \A j \in 1 .. (i - 1) - 1 + 1 : front[j] = q[1 + j - 1]
    BY <2>1, <1>1, SubSeqProperties
  <2>3. QED
    BY <2>2, <1>1
<1>3. /\ back \in Seq(S) /\ Len(back) = Len(q) - i
      /\ \A j \in 1 .. Len(q) - i : back[j] = q[i + j]
  <2>1. \A j \in i + 1 .. Len(q) : q[j] \in S
    BY <1>1
  <2>2. /\ back \in Seq(S)
        /\ Len(back) = IF i + 1 <= Len(q) THEN Len(q) - (i + 1) + 1 ELSE 0
        /\ \A j \in 1 .. Len(q) - (i + 1) + 1 : back[j] = q[(i + 1) + j - 1]
    BY <2>1, <1>1, SubSeqProperties
  <2>3. QED
    BY <2>2, <1>1
<1> HIDE DEF front, back
<1>4. /\ front \o back \in Seq(S)
      /\ Len(front \o back) = Len(front) + Len(back)
      /\ \A j \in 1 .. Len(front) + Len(back) :
            (front \o back)[j] = IF j <= Len(front) THEN front[j]
                                 ELSE back[j - Len(front)]
  BY <1>2, <1>3, ConcatProperties
<1>5. Without(q, i) = front \o back
  BY DEF Without, front, back
<1>6. Len(front) + Len(back) = Len(q) - 1
  BY <1>1, <1>2, <1>3
<1>7. ASSUME NEW j \in 1 .. Len(q) - 1
      PROVE  Without(q, i)[j] = IF j < i THEN q[j] ELSE q[j + 1]
  <2>1. Without(q, i)[j] = IF j <= Len(front) THEN front[j] ELSE back[j - Len(front)]
    BY <1>4, <1>5, <1>6
  <2>2. CASE j < i
    BY <2>1, <2>2, <1>1, <1>2
  <2>3. CASE ~(j < i)
    <3>1. /\ ~(j <= Len(front)) /\ j - Len(front) = j + 1 - i
          /\ j + 1 - i \in 1 .. Len(q) - i
      BY <2>3, <1>1, <1>2
    <3>2. back[j + 1 - i] = q[i + (j + 1 - i)]
      BY <3>1, <1>3
    <3>3. QED
      BY <2>1, <2>3, <3>1, <3>2
  <2>4. QED
    BY <2>2, <2>3
<1>8. QED
  BY <1>4, <1>5, <1>6, <1>7

(* The element removed is the only one that goes. *)
LEMMA WithoutMembers ==
  ASSUME NEW S, NEW q \in Seq(S), Distinct(q), NEW i \in 1 .. Len(q)
  PROVE  Distinct(Without(q, i)) /\ Members(Without(q, i)) = Members(q) \ {q[i]}
<1> DEFINE r == Without(q, i)
<1>1. /\ Len(q) \in Nat /\ Len(r) = Len(q) - 1
      /\ \A j \in 1 .. Len(q) - 1 : r[j] = IF j < i THEN q[j] ELSE q[j + 1]
  BY WithoutProperties, LenProperties
<1> HIDE DEF r
<1>2. Distinct(r)
  BY <1>1 DEF Distinct
<1>3. ASSUME NEW x \in Members(r) PROVE x \in Members(q) \ {q[i]}
  BY <1>1, <1>3 DEF Members, Distinct
<1>4. ASSUME NEW x \in Members(q) \ {q[i]} PROVE x \in Members(r)
  <2>1. PICK k \in 1 .. Len(q) : q[k] = x
    BY <1>4 DEF Members
  <2>2. k # i
    BY <2>1, <1>4
  <2>3. CASE k < i
    BY <2>1, <2>3, <1>1 DEF Members
  <2>4. CASE k > i
    <3>1. k - 1 \in 1 .. Len(r) /\ r[k - 1] = x
      BY <2>1, <2>4, <1>1
    <3>2. QED
      BY <3>1 DEF Members
  <2>5. QED
    BY <2>1, <2>2, <2>3, <2>4
<1>5. QED
  BY <1>2, <1>3, <1>4 DEF r

(* Append adds one member at the end. *)
LEMMA AppendMembers ==
  ASSUME NEW S, NEW q \in Seq(S), NEW x \in S
  PROVE  /\ Members(Append(q, x)) = Members(q) \cup {x}
         /\ Distinct(q) /\ x \notin Members(q) => Distinct(Append(q, x))
<1> DEFINE r == Append(q, x)
<1>1. /\ Len(q) \in Nat /\ Len(r) = Len(q) + 1 /\ r[Len(q) + 1] = x
      /\ \A j \in 1 .. Len(q) : r[j] = q[j]
  BY AppendProperties, LenProperties
<1> HIDE DEF r
<1>2. Members(r) = Members(q) \cup {x}
  BY <1>1 DEF Members
<1>3. ASSUME Distinct(q), x \notin Members(q) PROVE Distinct(r)
  BY <1>1, <1>3 DEF Members, Distinct
<1>4. QED
  BY <1>2, <1>3 DEF r
=============================================================================
